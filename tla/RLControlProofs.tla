--------------------------- MODULE RLControlProofs ---------------------------
(***************************************************************************)
(* Proofs about RLControl, for every set of connections, every packet size *)
(* and every bound: types, the window, what is drained on exit; and, with  *)
(* one RL connection, the order of its numbers and the refinement of       *)
(* RLWindow.                                                               *)
(***************************************************************************)
EXTENDS RLControl, TLAPS

\* Moving the window by the table never leaves the integers.
LEMMA MovedType ==
    ASSUME NEW w \in Int, NEW a \in AgentActions, NEW s \in Nat
    PROVE  Moved(w, a, s) \in Int
<1> USE WindowAssumption, BoundsAssumption
<1>1. ActionMap(a) \in Int
    BY DEF ActionMap, ActionKeys, Steps, AgentActions
<1> QED
    BY <1>1 DEF Moved

\* The test replaces exactly the negative windows.
LEMMA ClampedType ==
    ASSUME NEW w \in Int
    PROVE  Clamped(w) \in Nat
BY WindowAssumption, BoundsAssumption DEF Clamped

\* Nor does the window a state message carries.
LEMMA ProductType ==
    ASSUME NEW a \in Int, NEW b \in Int
    PROVE  a * b \in Int
OBVIOUS

\* What taking the first element of a Go channel or a Redis queue leaves.
LEMMA TakeFirst ==
    ASSUME NEW S, NEW s \in Seq(S), s # <<>>
    PROVE  /\ Head(s) \in S
           /\ Tail(s) \in Seq(S)
           /\ Len(s) \in Nat \ {0}
           /\ Len(Tail(s)) = Len(s) - 1
OBVIOUS

\* What adding a message to one gives.
LEMMA AddLast ==
    ASSUME NEW S, NEW s \in Seq(S), NEW e \in S
    PROVE  /\ Append(s, e) \in Seq(S)
           /\ Len(Append(s, e)) = Len(s) + 1
OBVIOUS

\* A message alone.
LEMMA Singleton ==
    ASSUME NEW S, NEW e \in S
    PROVE  /\ <<e>> \in Seq(S)
           /\ Len(<<e>>) = 1
           /\ Head(<<e>>) = e
OBVIOUS

\* What an assignment to one connection's field leaves.
LEMMA Updated ==
    ASSUME NEW D, NEW S, NEW f \in [D -> S], NEW x \in D, NEW e \in S
    PROVE  /\ [f EXCEPT ![x] = e] \in [D -> S]
           /\ [f EXCEPT ![x] = e][x] = e
           /\ \A y \in D : y # x => [f EXCEPT ![x] = e][y] = f[y]
OBVIOUS

-----------------------------------------------------------------------------
\* The initial state has the right types.
LEMMA InitTypeOK == Init => TypeOK
BY WindowAssumption, BoundsAssumption DEF Init, TypeOK

\* The parts of the type invariant a goroutine can reach only at some of its
\* places: the listener holds an action exactly while it sends it, and the
\* publisher a state exactly while it publishes it.
Places ==
    \A c \in Conns :
        /\ listener[c] = "send" => Len(held[c]) = 1
        /\ listener[c] # "send" => held[c] = <<>>
        /\ publisher[c] = "publish" => Len(outgoing[c]) = 1
        /\ publisher[c] # "publish" => outgoing[c] = <<>>
        /\ chClosed[c] <=> listener[c] = "done"

\* A datagram size is a positive number.
LEMMA SizeType ==
    ASSUME TypeOK, NEW c \in Conns
    PROVE  maxDatagramSize[c] \in Nat \ {0}
<1> USE WindowAssumption, BoundsAssumption
<1>1. maxDatagramSize[c] \in DatagramSizes
    BY DEF TypeOK
<1> QED
    BY <1>1

\* Every action preserves both.
LEMMA NextTypeOK ==
    TypeOK /\ Places /\ [Next]_vars => TypeOK' /\ Places'
<1> USE WindowAssumption, BoundsAssumption
<1> SUFFICES ASSUME TypeOK, Places, [Next]_vars
             PROVE  TypeOK' /\ Places'
    OBVIOUS
<1>0. \A c \in Conns : maxDatagramSize[c] \in Nat \ {0}
    BY SizeType
<1> USE DEF TypeOK, Places, connVars, mqVars
<1>1. ASSUME NEW c \in Conns, SetRTTStatsProvider(c)
      PROVE  TypeOK' /\ Places'
    BY <1>1 DEF SetRTTStatsProvider
<1>2. ASSUME NEW c \in Conns, CloseConnection(c)
      PROVE  TypeOK' /\ Places'
    BY <1>2 DEF CloseConnection
<1>3. ASSUME NEW c \in Conns, NEW size \in DatagramSizes,
             SetMaxDatagramSize(c, size)
      PROVE  TypeOK' /\ Places'
    BY <1>3 DEF SetMaxDatagramSize
<1>4. ASSUME NEW c \in Conns, Subscribe(c)
      PROVE  TypeOK' /\ Places'
    BY <1>4 DEF Subscribe
<1>5. ASSUME NEW c \in Conns, ReadActionFails(c)
      PROVE  TypeOK' /\ Places'
    <2>1. subscription[c] \in Seq(ActionMsg) /\ subscription[c] # <<>>
        BY <1>5 DEF ReadActionFails
    <2>2. Tail(subscription[c]) \in Seq(ActionMsg)
        BY <2>1, TakeFirst
    <2> QED
        BY <1>5, <2>2 DEF ReadActionFails
<1>6. ASSUME NEW c \in Conns, ReceiveAction(c)
      PROVE  TypeOK' /\ Places'
    <2> DEFINE m == Head(subscription[c])
    <2>1. subscription[c] \in Seq(ActionMsg) /\ subscription[c] # <<>>
        BY <1>6 DEF ReceiveAction
    <2>2. m \in ActionMsg /\ Tail(subscription[c]) \in Seq(ActionMsg)
        BY <2>1, TakeFirst
    <2>3. <<m>> \in Seq(ActionMsg) /\ Len(<<m>>) = 1
        BY <2>2, Singleton
    <2> HIDE DEF m
    <2>4. CASE Fresh(c, m)
        <3>1. /\ held' = [held EXCEPT ![c] = <<m>>]
              /\ listener' = [listener EXCEPT ![c] = "send"]
              /\ subscription' = [subscription EXCEPT ![c] = Tail(@)]
              /\ UNCHANGED <<connVars, cwnd, mqVars, applier, publisher, outgoing,
                             agentQueue, ticks, firstSeq, answered, foreign>>
              /\ listener[c] = "select"
            BY <1>6, <2>4 DEF ReceiveAction, m
        <3>2. TypeOK'
            BY <2>2, <2>3, <3>1
        <3>3. Places'
            BY <2>3, <3>1
        <3> QED
            BY <3>2, <3>3
    <2>5. CASE ~Fresh(c, m)
        BY <1>6, <2>2, <2>5 DEF ReceiveAction, m
    <2> QED
        BY <2>4, <2>5
<1>7. ASSUME NEW c \in Conns, SendAction(c)
      PROVE  TypeOK' /\ Places'
    <2> DEFINE a == Append(actionCh[c], Head(held[c]))
    <2>1. /\ held[c] \in Seq(ActionMsg) /\ held[c] # <<>>
          /\ actionCh[c] \in Seq(ActionMsg) /\ Len(actionCh[c]) < 1
        BY <1>7 DEF SendAction, RoomInChannel
    <2>2. Head(held[c]) \in ActionMsg
        BY <2>1, TakeFirst
    <2>3. a \in Seq(ActionMsg) /\ Len(a) <= 1
        BY <2>1, <2>2, AddLast
    <2> HIDE DEF a
    <2>4. /\ actionCh' = [actionCh EXCEPT ![c] = a]
          /\ held' = [held EXCEPT ![c] = <<>>]
          /\ listener' = [listener EXCEPT ![c] = "select"]
          /\ UNCHANGED <<connVars, cwnd, seq, chClosed, applier, publisher,
                         outgoing, subscription, agentQueue, ticks, firstSeq,
                         answered, foreign>>
          /\ listener[c] = "send"
        BY <1>7 DEF SendAction, a
    <2>5. /\ actionCh' \in [Conns -> Seq(ActionMsg)]
          /\ actionCh'[c] = a /\ \A d \in Conns : d # c => actionCh'[d] = actionCh[d]
        BY <2>3, <2>4, Updated
    <2>6. held' \in [Conns -> Seq(ActionMsg)]
        BY <2>4
    <2>7. listener' \in [Conns -> {"start", "select", "send", "done"}]
        BY <2>4
    <2>8. \A d \in Conns : Len(actionCh'[d]) <= 1
        BY <2>3, <2>5
    <2>9. TypeOK'
        <3> HIDE DEF Places
        <3> QED
            BY <2>4, <2>5, <2>6, <2>7, <2>8
    <2>10. Places'
        BY <2>4
    <2> QED
        BY <2>9, <2>10
<1>8. ASSUME NEW c \in Conns, ListenerExit(c)
      PROVE  TypeOK' /\ Places'
    BY <1>8 DEF ListenerExit, CloseActionCh
<1>9. ASSUME NEW c \in Conns, ApplyAction(c)
      PROVE  TypeOK' /\ Places'
    <2> DEFINE m == Head(actionCh[c])
    <2>1. actionCh[c] \in Seq(ActionMsg) /\ actionCh[c] # <<>>
        BY <1>9 DEF ApplyAction
    <2>2. /\ m \in ActionMsg
          /\ Tail(actionCh[c]) \in Seq(ActionMsg)
          /\ Len(Tail(actionCh[c])) <= 1
        BY <2>1, TakeFirst
    <2> HIDE DEF m
    <2>3. m.action \in AgentActions /\ m.seq \in Nat
        BY <2>2 DEF ActionMsg
    <2>4. Moved(cwnd[c], m.action, maxDatagramSize[c]) \in Int
        BY <1>0, <2>3, MovedType
    <2> QED
        BY <1>9, <2>2, <2>3, <2>4, SMTT(30) DEF ApplyAction, m
<1>10. ASSUME NEW c \in Conns, ClampWindow(c)
       PROVE  TypeOK' /\ Places'
    <2>1. Clamped(cwnd[c]) \in Int
        BY ClampedType
    <2> QED
        BY <1>10, <2>1 DEF ClampWindow
<1>11. ASSUME NEW c \in Conns, ApplierExit(c)
       PROVE  TypeOK' /\ Places'
    BY <1>11 DEF ApplierExit, RangeEnds
<1>12. ASSUME NEW c \in Conns, Tick(c)
       PROVE  TypeOK' /\ Places'
    <2> DEFINE s == [seq |-> seq[c] + 1, cwnd |-> cwnd[c] * maxDatagramSize[c],
                     fin |-> FALSE, conn |-> c]
    <2>1. cwnd[c] * maxDatagramSize[c] \in Int
        <3>1. cwnd[c] \in Int /\ maxDatagramSize[c] \in Int
            BY <1>0
        <3> QED
            BY <3>1, ProductType
    <2>2. s \in StateMsg
        <3>1. seq[c] + 1 \in Nat
            BY <1>0
        <3> QED
            BY <2>1, <3>1 DEF StateMsg
    <2>3. <<s>> \in Seq(StateMsg) /\ Len(<<s>>) = 1
        BY <2>2, Singleton
    <2> HIDE DEF s
    <2>4. /\ publisher[c] = "select"
          /\ outgoing' = [outgoing EXCEPT ![c] = <<s>>]
          /\ seq' = [seq EXCEPT ![c] = @ + 1]
          /\ publisher' = [publisher EXCEPT ![c] = "publish"]
          /\ ticks' = [ticks EXCEPT ![c] = @ + 1]
          /\ ticks[c] < MaxTicks
          /\ UNCHANGED <<connVars, cwnd, actionCh, chClosed, listener, applier,
                         held, subscription, agentQueue, firstSeq, answered,
                         foreign>>
        BY <1>12 DEF Tick, NumberState, s
    <2>5. ticks' \in [Conns -> 0..MaxTicks]
        BY <2>4, SMTT(30)
    <2>6. outgoing' \in [Conns -> Seq(StateMsg)]
        BY <2>3, <2>4
    <2>7. seq' \in [Conns -> Nat]
        BY <2>4, SMTT(30)
    <2>8. publisher' \in [Conns -> {"select", "publish", "done"}]
        BY <2>4
    <2>9. TypeOK'
        <3> HIDE DEF Places
        <3> QED
            BY <2>4, <2>5, <2>6, <2>7, <2>8
    <2>10. Places'
        BY <2>3, <2>4
    <2> QED
        BY <2>9, <2>10
<1>13. ASSUME NEW c \in Conns, TakeFin(c)
       PROVE  TypeOK' /\ Places'
    <2> DEFINE s == [seq |-> seq[c] + 1, cwnd |-> 0, fin |-> TRUE, conn |-> c]
    <2>1. s \in StateMsg
        BY DEF StateMsg
    <2>2. <<s>> \in Seq(StateMsg) /\ Len(<<s>>) = 1
        BY <2>1, Singleton
    <2> HIDE DEF s
    <2>3. /\ publisher[c] = "select"
          /\ outgoing' = [outgoing EXCEPT ![c] = <<s>>]
          /\ seq' = [seq EXCEPT ![c] = @ + 1]
          /\ publisher' = [publisher EXCEPT ![c] = "publish"]
          /\ UNCHANGED <<connVars, cwnd, actionCh, chClosed, listener, applier,
                         held, subscription, agentQueue, ticks, firstSeq,
                         answered, foreign>>
        BY <1>13 DEF TakeFin, NumberState, s
    <2>4. outgoing' \in [Conns -> Seq(StateMsg)]
        BY <2>2, <2>3
    <2>5. seq' \in [Conns -> Nat]
        BY <2>3, SMTT(30)
    <2>6. publisher' \in [Conns -> {"select", "publish", "done"}]
        BY <2>3
    <2>7. TypeOK'
        <3> HIDE DEF Places
        <3> QED
            BY <2>3, <2>4, <2>5, <2>6
    <2>8. Places'
        BY <2>2, <2>3
    <2> QED
        BY <2>7, <2>8
<1>14. ASSUME NEW c \in Conns, Publish(c)
       PROVE  TypeOK' /\ Places'
    <2>1. outgoing[c] \in Seq(StateMsg) /\ outgoing[c] # <<>>
        BY <1>14 DEF Publish
    <2>2. Head(outgoing[c]) \in StateMsg
        BY <2>1, TakeFirst
    <2>3. Append(agentQueue, Head(outgoing[c])) \in Seq(StateMsg)
        BY <2>2, AddLast
    <2>4. agentQueue' \in Seq(StateMsg)
        BY <1>14, <2>3 DEF Publish
    <2>5. PICK p \in {"done", "select"} : publisher' = [publisher EXCEPT ![c] = p]
        BY <1>14 DEF Publish
    <2>6. /\ outgoing' = [outgoing EXCEPT ![c] = <<>>]
          /\ UNCHANGED <<connVars, cwnd, mqVars, listener, applier, held,
                         subscription, ticks, firstSeq, answered, foreign>>
        BY <1>14 DEF Publish
    <2>7. outgoing' \in [Conns -> Seq(StateMsg)]
        BY <2>6
    <2>8. publisher' \in [Conns -> {"select", "publish", "done"}]
        BY <2>5
    <2>9. TypeOK'
        <3> HIDE DEF Places
        <3> QED
            BY <2>4, <2>6, <2>7, <2>8
    <2>10. Places'
        BY <2>5, <2>6
    <2> QED
        BY <2>9, <2>10
<1>15. ASSUME NEW a \in AgentActions, NEW readers \in SUBSET Conns,
              AgentReply(a, readers)
       PROVE  TypeOK' /\ Places'
    <2> DEFINE s == Head(agentQueue)
               m == [seq |-> s.seq, action |-> a, conn |-> s.conn]
    <2>1. s \in StateMsg /\ Tail(agentQueue) \in Seq(StateMsg)
        BY <1>15, TakeFirst DEF AgentReply
    <2>2. m \in ActionMsg
        BY <2>1 DEF StateMsg, ActionMsg
    <2> HIDE DEF m
    <2>3. ASSUME NEW c \in Conns PROVE Append(subscription[c], m) \in Seq(ActionMsg)
        BY <2>2, AddLast
    <2> QED
        BY <1>15, <2>1, <2>3 DEF AgentReply, m
<1>16. CASE UNCHANGED vars
    BY <1>16 DEF vars
<1> QED
    BY <1>1, <1>2, <1>3, <1>4, <1>5, <1>6, <1>7, <1>8, <1>9, <1>10, <1>11,
       <1>12, <1>13, <1>14, <1>15, <1>16
    DEF Next, Listen, Apply, Terminated
-----------------------------------------------------------------------------
\* The window is negative only while the applier stands before its test, and
\* an applier that has returned has left nothing behind in a closed channel.
WindowInv ==
    /\ NegativeOnlyUntilTest
    /\ \A c \in Conns : applier[c] = "done" => chClosed[c] /\ actionCh[c] = <<>>

\* The invariant that the safety theorems rest on.
SafeInv == TypeOK /\ Places /\ WindowInv

\* The initial state satisfies it.
LEMMA InitSafeInv == Init => SafeInv
<1> USE WindowAssumption, BoundsAssumption
<1>1. Init => TypeOK
    BY InitTypeOK
<1>2. InitialCongestionWindow * InitialPacketSize >= 0
    OBVIOUS
<1> QED
    BY <1>1, <1>2 DEF Init, SafeInv, Places, WindowInv, NegativeOnlyUntilTest

\* Every action preserves it.
LEMMA NextSafeInv == SafeInv /\ [Next]_vars => SafeInv'
<1> USE WindowAssumption, BoundsAssumption
<1> SUFFICES ASSUME SafeInv, [Next]_vars
             PROVE  SafeInv'
    OBVIOUS
<1>0. TypeOK' /\ Places'
    BY NextTypeOK DEF SafeInv
<1> SUFFICES WindowInv'
    BY <1>0 DEF SafeInv
<1>1. /\ cwnd \in [Conns -> Int] /\ applier \in [Conns -> {"range", "clamp", "done"}]
      /\ \A c \in Conns : chClosed[c] <=> listener[c] = "done"
      /\ WindowInv
    BY DEF SafeInv, TypeOK, Places
<1>2. /\ actionCh \in [Conns -> Seq(ActionMsg)]
      /\ chClosed \in [Conns -> BOOLEAN]
    BY DEF SafeInv, TypeOK
<1>3. ASSUME NEW c \in Conns,
             \A d \in Conns : d # c => /\ cwnd'[d] = cwnd[d]
                                       /\ applier'[d] = applier[d]
                                       /\ actionCh'[d] = actionCh[d]
                                       /\ chClosed'[d] = chClosed[d],
             cwnd'[c] < 0 => applier'[c] = "clamp",
             applier'[c] = "done" => chClosed'[c] /\ actionCh'[c] = <<>>
      PROVE  WindowInv'
    BY <1>1, <1>3 DEF WindowInv, NegativeOnlyUntilTest
<1>4. ASSUME NEW c \in Conns, SendAction(c)
      PROVE  WindowInv'
    <2>1. applier[c] # "done"
        BY <1>1, <1>4 DEF SendAction, WindowInv
    <2> QED
        BY <1>1, <1>2, <1>3, <1>4, <2>1 DEF SendAction, WindowInv, NegativeOnlyUntilTest
<1>5. ASSUME NEW c \in Conns, ApplyAction(c)
      PROVE  WindowInv'
    <2>1. applier'[c] = "clamp"
        BY <1>1, <1>5 DEF ApplyAction
    <2>2. \A d \in Conns : d # c => /\ cwnd'[d] = cwnd[d]
                                    /\ applier'[d] = applier[d]
                                    /\ actionCh'[d] = actionCh[d]
                                    /\ chClosed'[d] = chClosed[d]
        BY <1>1, <1>2, <1>5 DEF ApplyAction
    <2> QED
        BY <1>3, <2>1, <2>2
<1>6. ASSUME NEW c \in Conns, ClampWindow(c)
      PROVE  WindowInv'
    <2>1. Clamped(cwnd[c]) \in Nat
        BY <1>1, ClampedType
    <2>2. /\ cwnd' = [cwnd EXCEPT ![c] = Clamped(cwnd[c])]
          /\ applier' = [applier EXCEPT ![c] = "range"]
          /\ UNCHANGED <<actionCh, chClosed>>
        BY <1>6 DEF ClampWindow, mqVars
    <2>3. cwnd'[c] = Clamped(cwnd[c]) /\ applier'[c] = "range"
        BY <1>1, <2>2
    <2>4. ~(cwnd'[c] < 0)
        BY <2>1, <2>3
    <2>5. \A d \in Conns : d # c => cwnd'[d] = cwnd[d] /\ applier'[d] = applier[d]
        BY <1>1, <2>2
    <2> QED
        BY <1>3, <2>2, <2>3, <2>4, <2>5
<1>7. ASSUME NEW c \in Conns, ApplierExit(c)
      PROVE  WindowInv'
    BY <1>1, <1>3, <1>7 DEF ApplierExit, RangeEnds, WindowInv, NegativeOnlyUntilTest,
                            mqVars
<1>8. ASSUME NEW c \in Conns, ListenerExit(c)
      PROVE  WindowInv'
    BY <1>1, <1>2, <1>3, <1>8 DEF ListenerExit, CloseActionCh, WindowInv,
                                  NegativeOnlyUntilTest
<1>9. CASE UNCHANGED <<cwnd, applier, actionCh, chClosed>>
    BY <1>1, <1>9 DEF WindowInv, NegativeOnlyUntilTest
<1> QED
    BY <1>4, <1>5, <1>6, <1>7, <1>8, <1>9
    DEF Next, vars, Listen, Apply, Terminated, SetRTTStatsProvider, CloseConnection,
        SetMaxDatagramSize, Subscribe, ReadActionFails, ReceiveAction, Tick,
        TakeFin, NumberState, Publish, AgentReply, mqVars

\* Hence it always holds.
LEMMA SafeInvHolds == Spec => []SafeInv
BY InitSafeInv, NextSafeInv, PTL DEF Spec

\* Type correctness: whatever the connections, the agent and Redis do, every
\* variable keeps its type and actionCh never exceeds its capacity (mq.go:35).
THEOREM TypeCorrect == Spec => []TypeOK
<1>1. SafeInv => TypeOK
    BY DEF SafeInv
<1> QED
    BY <1>1, SafeInvHolds, PTL

\* The window is negative only between rl.go:78 and rl.go:81.
THEOREM NegativeWindowIsShort == Spec => []NegativeOnlyUntilTest
<1>1. SafeInv => NegativeOnlyUntilTest
    BY DEF SafeInv, WindowInv
<1> QED
    BY <1>1, SafeInvHolds, PTL

\* No accepted action is lost when the connection closes.
THEOREM NothingLostOnExit == Spec => []DrainedOnExit
<1>1. SafeInv => DrainedOnExit
    BY DEF SafeInv, Places, WindowInv, DrainedOnExit
<1> QED
    BY <1>1, SafeInvHolds, PTL

-----------------------------------------------------------------------------
(***************************************************************************)
(* The order of sequence numbers with one RL connection, and the           *)
(* refinement of RLWindow that follows from it.                            *)
(***************************************************************************)
\* The six stages of AnswersInOrder written out: every number of a stage is
\* below every number of the stages behind it, and all are within lo..hi.
Chain(A, B, C, D, E, F, lo, hi) ==
    /\ Below(A, B) /\ Below(A, C) /\ Below(A, D) /\ Below(A, E) /\ Below(A, F)
    /\ Below(B, C) /\ Below(B, D) /\ Below(B, E) /\ Below(B, F)
    /\ Below(C, D) /\ Below(C, E) /\ Below(C, F)
    /\ Below(D, E) /\ Below(D, F)
    /\ Below(E, F)
    /\ \A n \in A \cup B \cup C \cup D \cup E \cup F : lo <= n /\ n <= hi

ChainOf(c) == Chain({answered[c]}, Numbers(actionCh[c]), Numbers(held[c]),
                    Numbers(subscription[c]), Numbers(agentQueue),
                    Numbers(outgoing[c]), firstSeq[c], seq[c])

\* The two ways of writing it agree.
LEMMA ChainIsOrder ==
    AnswersInOrder <=> \A c \in Conns : /\ ChainOf(c)
                                        /\ Ascending(subscription[c])
                                        /\ Ascending(agentQueue)
<1>1. ASSUME NEW c
      PROVE  ChainOf(c) <=>
                 /\ \A i, j \in 1..6 : i < j => Below(Stages(c)[i], Stages(c)[j])
                 /\ \A i \in 1..6 : \A n \in Stages(c)[i] :
                        firstSeq[c] <= n /\ n <= seq[c]
    <2>1. 1..6 = {1, 2, 3, 4, 5, 6}
        OBVIOUS
    <2> DEFINE A == {answered[c]}
               B == Numbers(actionCh[c])
               C == Numbers(held[c])
               D == Numbers(subscription[c])
               E == Numbers(agentQueue)
               F == Numbers(outgoing[c])
    <2>2. /\ Stages(c)[1] = A /\ Stages(c)[2] = B /\ Stages(c)[3] = C
          /\ Stages(c)[4] = D /\ Stages(c)[5] = E /\ Stages(c)[6] = F
        BY DEF Stages
    <2>3. ChainOf(c) <=> Chain(A, B, C, D, E, F, firstSeq[c], seq[c])
        BY DEF ChainOf
    <2> HIDE DEF A, B, C, D, E, F
    <2> QED
        BY <2>1, <2>2, <2>3 DEF Chain
<1> QED
    BY <1>1 DEF AnswersInOrder

-----------------------------------------------------------------------------
\* Lemmas on the numbers of a sequence of messages.

\* Appending a message adds its number.
LEMMA NumbersAppend ==
    ASSUME NEW S, NEW s \in Seq(S), NEW e \in S
    PROVE  Numbers(Append(s, e)) = Numbers(s) \cup {e.seq}
<1>1. DOMAIN Append(s, e) = DOMAIN s \cup {Len(s) + 1}
    OBVIOUS
<1>2. \A i \in DOMAIN s : Append(s, e)[i] = s[i]
    OBVIOUS
<1>3. Append(s, e)[Len(s) + 1] = e
    OBVIOUS
<1> QED
    BY <1>1, <1>2, <1>3 DEF Numbers

\* Taking the first message of an ascending sequence leaves larger numbers.
LEMMA NumbersTail ==
    ASSUME NEW S, NEW s \in Seq(S), s # <<>>
    PROVE  /\ Numbers(s) = {Head(s).seq} \cup Numbers(Tail(s))
           /\ Ascending(s) => /\ Below({Head(s).seq}, Numbers(Tail(s)))
                              /\ Ascending(Tail(s))
<1>1. /\ Head(s) = s[1]
      /\ Len(s) \in Nat \ {0}
      /\ DOMAIN s = 1..Len(s)
      /\ DOMAIN Tail(s) = 1..(Len(s) - 1)
      /\ \A i \in DOMAIN Tail(s) : Tail(s)[i] = s[i + 1]
    OBVIOUS
<1>2. Numbers(s) \subseteq {Head(s).seq} \cup Numbers(Tail(s))
    <2> SUFFICES ASSUME NEW i \in DOMAIN s, i # 1
                 PROVE  s[i].seq \in Numbers(Tail(s))
        BY <1>1 DEF Numbers
    <2>1. i - 1 \in DOMAIN Tail(s) /\ Tail(s)[i - 1] = s[i]
        BY <1>1
    <2> QED
        BY <2>1 DEF Numbers
<1>3. {Head(s).seq} \cup Numbers(Tail(s)) \subseteq Numbers(s)
    <2>1. ASSUME NEW i \in DOMAIN Tail(s)
          PROVE  Tail(s)[i].seq \in Numbers(s)
        <3>1. i + 1 \in DOMAIN s /\ Tail(s)[i] = s[i + 1]
            BY <1>1
        <3> QED
            BY <3>1 DEF Numbers
    <2> QED
        BY <1>1, <2>1 DEF Numbers
<1>4. ASSUME Ascending(s)
      PROVE  Below({Head(s).seq}, Numbers(Tail(s))) /\ Ascending(Tail(s))
    <2>1. ASSUME NEW i \in DOMAIN Tail(s)
          PROVE  Head(s).seq < Tail(s)[i].seq
        <3>1. /\ i + 1 \in DOMAIN s /\ 1 \in DOMAIN s /\ 1 < i + 1
              /\ Tail(s)[i] = s[i + 1]
            BY <1>1
        <3> QED
            BY <1>1, <1>4, <3>1 DEF Ascending
    <2>2. ASSUME NEW i \in DOMAIN Tail(s), NEW j \in DOMAIN Tail(s), i < j
          PROVE  Tail(s)[i].seq < Tail(s)[j].seq
        <3>1. /\ i + 1 \in DOMAIN s /\ j + 1 \in DOMAIN s /\ i + 1 < j + 1
              /\ Tail(s)[i] = s[i + 1] /\ Tail(s)[j] = s[j + 1]
            BY <1>1, <2>2
        <3> QED
            BY <1>4, <3>1 DEF Ascending
    <2> QED
        BY <2>1, <2>2 DEF Below, Numbers, Ascending
<1> QED
    BY <1>2, <1>3, <1>4

\* A message whose number is above those of an ascending sequence extends it.
LEMMA AscendingAppend ==
    ASSUME NEW S, NEW s \in Seq(S), NEW e \in S,
           Ascending(s), Below(Numbers(s), {e.seq})
    PROVE  Ascending(Append(s, e))
<1>1. DOMAIN Append(s, e) = DOMAIN s \cup {Len(s) + 1}
    OBVIOUS
<1>2. \A i \in DOMAIN s : Append(s, e)[i] = s[i] /\ i < Len(s) + 1
    OBVIOUS
<1>3. Append(s, e)[Len(s) + 1] = e
    OBVIOUS
<1>4. \A i \in DOMAIN s : s[i].seq < e.seq
    BY DEF Below, Numbers
<1>5. ASSUME NEW i \in DOMAIN Append(s, e), NEW j \in DOMAIN Append(s, e), i < j
      PROVE  Append(s, e)[i].seq < Append(s, e)[j].seq
    <2>1. i \in DOMAIN s
        BY <1>1, <1>2, <1>5
    <2>2. CASE j \in DOMAIN s
        BY <1>2, <1>5, <2>1, <2>2 DEF Ascending
    <2>3. CASE j = Len(s) + 1
        BY <1>2, <1>3, <1>4, <2>1, <2>3
    <2> QED
        BY <1>1, <2>2, <2>3
<1> QED
    BY <1>5 DEF Ascending

\* The numbers of messages are natural numbers.
LEMMA NumbersType ==
    ASSUME NEW s \in Seq(ActionMsg) \cup Seq(StateMsg)
    PROVE  Numbers(s) \subseteq Nat
<1>1. ASSUME NEW i \in DOMAIN s
      PROVE  s[i].seq \in Nat
    <2>1. s[i] \in ActionMsg \/ s[i] \in StateMsg
        OBVIOUS
    <2> QED
        BY <2>1 DEF ActionMsg, StateMsg
<1> QED
    BY <1>1 DEF Numbers

\* The empty sequence, and the sequence of one message.
LEMMA NumbersSmall ==
    /\ Numbers(<<>>) = {} /\ Ascending(<<>>)
    /\ \A e : Numbers(<<e>>) = {e.seq}
BY DEF Numbers, Ascending
-----------------------------------------------------------------------------
Order(c) == ChainOf(c) /\ Ascending(subscription[c]) /\ Ascending(agentQueue)

Ordered == \A c \in Conns : Order(c)

\* AnswersInOrder, before and after a step, in these terms.
LEMMA OrderedNow == AnswersInOrder <=> Ordered
BY ChainIsOrder DEF Order, Ordered

\* The same for the state after the step.
LEMMA OrderedNext == AnswersInOrder' <=> \A c \in Conns : Order(c)'
<1>1. (AnswersInOrder <=> Ordered)'
    BY OrderedNow, PTL
<1> QED
    BY <1>1 DEF Ordered

\* Every action keeps the numbers in order.
LEMMA NextOrder ==
    ASSUME SingleConnection, SafeInv, SafeInv', AnswersInOrder, [Next]_vars
    PROVE  AnswersInOrder'
<1> SUFFICES ASSUME NEW c \in Conns
             PROVE  Order(c)'
    BY OrderedNext
<1>1. \A d \in Conns : d = c
    BY DEF SingleConnection
<1>2. Order(c)
    BY OrderedNow DEF Ordered
<1>3. /\ answered \in [Conns -> Nat] /\ seq \in [Conns -> Nat]
      /\ firstSeq \in [Conns -> Nat]
      /\ actionCh \in [Conns -> Seq(ActionMsg)] /\ held \in [Conns -> Seq(ActionMsg)]
      /\ subscription \in [Conns -> Seq(ActionMsg)] /\ agentQueue \in Seq(StateMsg)
      /\ outgoing \in [Conns -> Seq(StateMsg)]
    BY DEF SafeInv, TypeOK
<1>4. /\ answered[c] \in Nat /\ seq[c] \in Nat /\ firstSeq[c] \in Nat
      /\ actionCh[c] \in Seq(ActionMsg) /\ held[c] \in Seq(ActionMsg)
      /\ subscription[c] \in Seq(ActionMsg) /\ outgoing[c] \in Seq(StateMsg)
    BY <1>3
<1>5. CASE UNCHANGED <<answered, actionCh, held, subscription, agentQueue, outgoing,
                       firstSeq, seq>>
    BY <1>2, <1>5 DEF Order, ChainOf
<1>6. ASSUME ListenerExit(c)
      PROVE  Order(c)'
    <2>1. /\ subscription'[c] = <<>>
          /\ UNCHANGED <<answered, actionCh, held, agentQueue, outgoing, firstSeq, seq>>
        BY <1>3, <1>6 DEF ListenerExit
    <2>2. Numbers(subscription'[c]) = {} /\ Ascending(subscription'[c])
        BY <2>1, NumbersSmall
    <2> QED
        BY <1>2, <2>1, <2>2 DEF Order, ChainOf, Chain, Below
<1>7. ASSUME ReadActionFails(c)
      PROVE  Order(c)'
    <2>1. /\ subscription[c] # <<>> /\ subscription'[c] = Tail(subscription[c])
          /\ UNCHANGED <<answered, actionCh, held, agentQueue, outgoing, firstSeq, seq>>
        BY <1>3, <1>7 DEF ReadActionFails, mqVars
    <2>2. /\ Numbers(subscription'[c]) \subseteq Numbers(subscription[c])
          /\ Ascending(subscription'[c])
        BY <1>2, <1>4, <2>1, NumbersTail DEF Order
    <2> QED
        BY <1>2, <2>1, <2>2 DEF Order, ChainOf, Chain, Below
<1>8. ASSUME ReceiveAction(c)
      PROVE  Order(c)'
    <2> DEFINE m == Head(subscription[c])
    <2>1. /\ subscription[c] # <<>> /\ subscription'[c] = Tail(subscription[c])
          /\ held'[c] = <<m>> \/ held' = held
          /\ UNCHANGED <<answered, actionCh, agentQueue, outgoing, firstSeq, seq>>
        BY <1>3, <1>8 DEF ReceiveAction, mqVars
    <2>2. /\ Numbers(subscription[c]) = {m.seq} \cup Numbers(subscription'[c])
          /\ Below({m.seq}, Numbers(subscription'[c]))
          /\ Ascending(subscription'[c])
        BY <1>2, <1>4, <2>1, NumbersTail DEF Order
    <2>3. Numbers(held'[c]) = {m.seq} \/ Numbers(held'[c]) = Numbers(held[c])
        BY <2>1, NumbersSmall
    <2> HIDE DEF m
    <2> QED
        BY <1>2, <2>1, <2>2, <2>3 DEF Order, ChainOf, Chain, Below
<1>9. ASSUME SendAction(c)
      PROVE  Order(c)'
    <2> DEFINE m == Head(held[c])
    <2>1. /\ actionCh'[c] = Append(actionCh[c], m) /\ held'[c] = <<>>
          /\ UNCHANGED <<answered, subscription, agentQueue, outgoing, firstSeq, seq>>
          /\ Len(actionCh[c]) < 1
        BY <1>3, <1>9 DEF SendAction, RoomInChannel
    <2>2. held[c] # <<>>
        BY <1>9 DEF SafeInv, Places, SendAction
    <2>3. m \in ActionMsg /\ m.seq \in Numbers(held[c])
        BY <1>4, <2>2, NumbersTail, TakeFirst
    <2>4. Numbers(actionCh'[c]) = Numbers(actionCh[c]) \cup {m.seq}
        BY <1>4, <2>1, <2>3, NumbersAppend
    <2>5. Numbers(held'[c]) = {}
        BY <2>1, NumbersSmall
    <2> HIDE DEF m
    <2> QED
        BY <1>2, <2>1, <2>3, <2>4, <2>5 DEF Order, ChainOf, Chain, Below
<1>10. ASSUME ApplyAction(c)
       PROVE  Order(c)'
    <2> DEFINE m == Head(actionCh[c])
    <2>1. /\ actionCh[c] # <<>> /\ actionCh'[c] = Tail(actionCh[c])
          /\ answered'[c] = m.seq
          /\ UNCHANGED <<held, subscription, agentQueue, outgoing, firstSeq, seq>>
        BY <1>3, <1>10 DEF ApplyAction
    <2>2. Len(actionCh[c]) <= 1
        BY DEF SafeInv, TypeOK
    <2>3. Tail(actionCh[c]) = <<>>
        <3>1. /\ Tail(actionCh[c]) \in Seq(ActionMsg)
              /\ Len(actionCh[c]) \in Nat \ {0}
              /\ Len(Tail(actionCh[c])) = Len(actionCh[c]) - 1
            BY <1>4, <2>1, TakeFirst
        <3> QED
            BY <2>2, <3>1
    <2>4. m.seq \in Numbers(actionCh[c])
        BY <1>4, <2>1, NumbersTail
    <2>5. Numbers(actionCh'[c]) = {}
        BY <2>1, <2>3, NumbersSmall
    <2> HIDE DEF m
    <2> QED
        BY <1>2, <2>1, <2>4, <2>5 DEF Order, ChainOf, Chain, Below
<1>11. ASSUME NEW w, NEW fin, publisher[c] = "select", NumberState(c, w, fin),
              UNCHANGED <<answered, actionCh, held, subscription, agentQueue, firstSeq>>
       PROVE  Order(c)'
    <2> DEFINE s == [seq |-> seq[c] + 1, cwnd |-> w, fin |-> fin, conn |-> c]
    <2>1. seq'[c] = seq[c] + 1 /\ outgoing'[c] = <<s>>
        BY <1>3, <1>11 DEF NumberState
    <2>2. Numbers(outgoing'[c]) = {seq[c] + 1}
        BY <2>1, NumbersSmall
    <2>3. Numbers(outgoing[c]) = {}
        BY <1>11, NumbersSmall DEF SafeInv, Places
    <2> HIDE DEF s
    <2>4. \A n \in {answered[c]} \cup Numbers(actionCh[c]) \cup Numbers(held[c])
                   \cup Numbers(subscription[c]) \cup Numbers(agentQueue) :
              n \in Nat /\ firstSeq[c] <= n /\ n <= seq[c]
        <3>1. /\ Numbers(actionCh[c]) \subseteq Nat /\ Numbers(held[c]) \subseteq Nat
              /\ Numbers(subscription[c]) \subseteq Nat
              /\ Numbers(agentQueue) \subseteq Nat
            BY <1>3, <1>4, NumbersType
        <3> QED
            BY <1>2, <1>4, <3>1 DEF Order, ChainOf, Chain
    <2>5. \A n \in Nat : n <= seq[c] => n < seq[c] + 1 /\ n <= seq[c] + 1
        BY <1>4
    <2>6. firstSeq[c] <= seq[c] + 1
        BY <1>4, <2>4
    <2> QED
        BY <1>2, <1>4, <1>11, <2>1, <2>2, <2>4, <2>5, <2>6
        DEF Order, ChainOf, Chain, Below
<1>12. ASSUME Publish(c)
       PROVE  Order(c)'
    <2> DEFINE s == Head(outgoing[c])
    <2>1. /\ agentQueue' = Append(agentQueue, s) \/ agentQueue' = agentQueue
          /\ outgoing'[c] = <<>>
          /\ UNCHANGED <<answered, actionCh, held, subscription, firstSeq, seq>>
        BY <1>3, <1>12 DEF Publish, mqVars
    <2>2. outgoing[c] # <<>>
        BY <1>12 DEF SafeInv, Places, Publish
    <2>3. s \in StateMsg /\ s.seq \in Numbers(outgoing[c])
        BY <1>4, <2>2, NumbersTail, TakeFirst
    <2>4. Below(Numbers(agentQueue), {s.seq})
        BY <1>2, <2>3 DEF Order, ChainOf, Chain, Below
    <2>5. /\ Numbers(agentQueue') \subseteq Numbers(agentQueue) \cup {s.seq}
          /\ Ascending(agentQueue')
        BY <1>2, <1>3, <2>1, <2>3, <2>4, NumbersAppend, AscendingAppend DEF Order
    <2>6. Numbers(outgoing'[c]) = {}
        BY <2>1, NumbersSmall
    <2> HIDE DEF s
    <2> QED
        BY <1>2, <2>1, <2>3, <2>5, <2>6 DEF Order, ChainOf, Chain, Below
<1>13. ASSUME NEW a \in AgentActions, NEW readers \in SUBSET Conns,
              AgentReply(a, readers)
       PROVE  Order(c)'
    <2> DEFINE s == Head(agentQueue)
               m == [seq |-> s.seq, action |-> a, conn |-> s.conn]
    <2>1. /\ agentQueue # <<>> /\ agentQueue' = Tail(agentQueue)
          /\ \/ subscription'[c] = Append(subscription[c], m)
             \/ subscription'[c] = subscription[c]
          /\ UNCHANGED <<answered, actionCh, held, outgoing, firstSeq, seq>>
        BY <1>3, <1>13 DEF AgentReply, mqVars
    <2>2. s \in StateMsg
        BY <1>3, <2>1, TakeFirst
    <2>3. m \in ActionMsg /\ m.seq = s.seq
        BY <2>2 DEF StateMsg, ActionMsg
    <2>4. /\ Numbers(agentQueue) = {s.seq} \cup Numbers(agentQueue')
          /\ Below({s.seq}, Numbers(agentQueue'))
          /\ Ascending(agentQueue')
        BY <1>2, <1>3, <2>1, NumbersTail DEF Order
    <2>5. Below(Numbers(subscription[c]), {m.seq})
        BY <1>2, <2>3, <2>4 DEF Order, ChainOf, Chain, Below
    <2> HIDE DEF m
    <2>6. /\ Numbers(subscription'[c]) \subseteq Numbers(subscription[c]) \cup {s.seq}
          /\ Ascending(subscription'[c])
        <3>1. /\ Numbers(Append(subscription[c], m)) = Numbers(subscription[c]) \cup {m.seq}
              /\ Ascending(Append(subscription[c], m))
            BY <1>2, <1>4, <2>3, <2>5, NumbersAppend, AscendingAppend, SMTT(30) DEF Order
        <3>2. CASE subscription'[c] = Append(subscription[c], m)
            BY <2>3, <3>1, <3>2
        <3>3. CASE subscription'[c] = subscription[c]
            BY <1>2, <3>3 DEF Order
        <3> QED
            BY <2>1, <3>2, <3>3
    <2> HIDE DEF s
    <2> QED
        BY <1>2, <2>1, <2>4, <2>6, SMTT(30) DEF Order, ChainOf, Chain, Below
<1>14. ASSUME Tick(c) \/ TakeFin(c)
       PROVE  Order(c)'
    BY <1>11, <1>14 DEF Tick, TakeFin
<1> QED
    BY <1>1, <1>5, <1>6, <1>7, <1>8, <1>9, <1>10, <1>12, <1>13, <1>14
    DEF Next, vars, Listen, Apply, Terminated, SetRTTStatsProvider, CloseConnection,
        SetMaxDatagramSize, Subscribe, ClampWindow, ApplierExit, mqVars

\* With a single RL connection, no action overtakes another between nextSeq
\* and the window, and none is applied twice, although sendAction compares with
\* a number the publisher may change at any moment (mq.go:64, mq.go:72).
THEOREM NumbersInOrder ==
    ASSUME SingleConnection
    PROVE  Spec => []AnswersInOrder
<1>1. Init => AnswersInOrder
    <2> SUFFICES ASSUME Init PROVE Ordered
        BY OrderedNow
    <2> SUFFICES ASSUME NEW c \in Conns PROVE Order(c)
        BY DEF Ordered
    <2>1. /\ answered[c] = seq[c] /\ firstSeq[c] = seq[c] /\ seq[c] \in Nat
          /\ actionCh[c] = <<>> /\ held[c] = <<>> /\ subscription[c] = <<>>
          /\ agentQueue = <<>> /\ outgoing[c] = <<>>
        BY DEF Init
    <2> QED
        BY <2>1, NumbersSmall DEF Order, ChainOf, Chain, Below
<1>2. SafeInv /\ SafeInv' /\ AnswersInOrder /\ [Next]_vars => AnswersInOrder'
    BY NextOrder
<1> QED
    BY <1>1, <1>2, SafeInvHolds, PTL DEF Spec

-----------------------------------------------------------------------------
\* The initial window is not negative.
LEMMA ProductNat ==
    ASSUME NEW a \in Nat, NEW b \in Nat
    PROVE  a * b \in Nat
OBVIOUS

\* The window in force.
Window == [c \in Conns |-> Clamped(cwnd[c])]

\* RLWindow's copy of the action table is the same table.
LEMMA SameTable ==
    /\ W!AgentActions = AgentActions
    /\ \A w : W!Clamped(w) = Clamped(w)
    /\ \A w, a, s : W!Moved(w, a, s) = Moved(w, a, s)
BY DEF W!AgentActions, AgentActions, W!ActionKeys, ActionKeys, W!Clamped, Clamped,
       W!Moved, Moved, W!ActionMap, ActionMap, W!Steps, Steps

\* Every step of the program is a step of RLWindow or leaves it alone.
LEMMA StepRefinement ==
    ASSUME SafeInv, AnswersInOrder, [Next]_vars
    PROVE  [W!WNext]_(W!wvars)
<1>0. TypeOK /\ NegativeOnlyUntilTest
    BY DEF SafeInv, WindowInv
<1>1. ASSUME NEW c \in Conns, ApplyAction(c)
      PROVE  W!WNext
    <2> DEFINE m == Head(actionCh[c])
    <2>1. actionCh[c] \in Seq(ActionMsg) /\ actionCh[c] # <<>>
        BY <1>0, <1>1 DEF TypeOK, ApplyAction
    <2>2. m \in ActionMsg /\ m.seq \in Numbers(actionCh[c])
        BY <2>1, TakeFirst, NumbersTail
    <2>3. m.seq \in Nat /\ m.action \in AgentActions
        BY <2>2 DEF ActionMsg
    <2>4. answered[c] < m.seq
        <3>1. Below({answered[c]}, Numbers(actionCh[c]))
            BY OrderedNow DEF Ordered, Order, ChainOf, Chain
        <3> QED
            BY <2>2, <3>1 DEF Below
    <2>5. Clamped(cwnd[c]) = cwnd[c]
        BY <1>0, <1>1 DEF ApplyAction, TypeOK, NegativeOnlyUntilTest, Clamped
    <2> HIDE DEF m
    <2>6. /\ cwnd' = [cwnd EXCEPT ![c] = Moved(cwnd[c], m.action, maxDatagramSize[c])]
          /\ answered' = [answered EXCEPT ![c] = m.seq]
          /\ UNCHANGED maxDatagramSize
        BY <1>1 DEF ApplyAction, connVars, m
    <2>7. answered'[c] = m.seq
        BY <1>0, <2>6 DEF TypeOK
    <2>8. Window' = [Window EXCEPT ![c] =
                         Clamped(Moved(@, m.action, maxDatagramSize[c]))]
        <3> DEFINE w == Moved(cwnd[c], m.action, maxDatagramSize[c])
        <3>1. cwnd'[c] = w /\ \A d \in Conns \ {c} : cwnd'[d] = cwnd[d]
            BY <1>0, <2>6 DEF TypeOK
        <3>2. Window[c] = cwnd[c]
            BY <2>5 DEF Window
        <3> HIDE DEF w
        <3>3. Window' = [Window EXCEPT ![c] = Clamped(w)]
            BY <3>1 DEF Window
        <3> QED
            BY <3>2, <3>3 DEF w
    <2>9. W!Move(c, m.action)
        <3>1. answered'[c] \in Nat /\ answered'[c] > answered[c]
            BY <1>0, <2>3, <2>4, <2>7 DEF TypeOK
        <3>2. answered' = [answered EXCEPT ![c] = answered'[c]]
            BY <2>6, <2>7
        <3> QED
            BY <2>6, <2>8, <3>1, <3>2, SameTable DEF W!Move, Window
    <2> QED
        BY <2>3, <2>9, SameTable DEF W!WNext
<1>2. ASSUME NEW c \in Conns, ClampWindow(c)
      PROVE  UNCHANGED W!wvars
    <2>1. \A w \in Int : Clamped(Clamped(w)) = Clamped(w)
        BY DEF Clamped
    <2>2. Window' = Window
        BY <1>0, <1>2, <2>1 DEF ClampWindow, TypeOK, Window
    <2> QED
        BY <1>2, <2>2 DEF ClampWindow, W!wvars, Window, connVars
<1>3. ASSUME NEW c \in Conns, NEW size \in DatagramSizes, SetMaxDatagramSize(c, size)
      PROVE  W!WNext
    BY <1>3 DEF SetMaxDatagramSize, W!WNext, W!Resize
<1>4. CASE UNCHANGED <<cwnd, maxDatagramSize, answered>>
    BY <1>4 DEF W!wvars
<1> QED
    BY <1>1, <1>2, <1>3, <1>4
    DEF Next, vars, Listen, Apply, Terminated, SetRTTStatsProvider, CloseConnection,
        Subscribe, ListenerExit, ReadActionFails, ReceiveAction, SendAction,
        ApplierExit, Tick, TakeFin, NumberState, Publish, AgentReply, connVars

\* With a single RL connection the goroutines, Redis and the agent together
\* implement RLWindow: the window moves by one table entry at a time, each move
\* answers a later state than the last, and rl.go:78-81 is as good as atomic.
THEOREM RefinesRLWindow ==
    ASSUME SingleConnection
    PROVE  Spec => ImplementsRLWindow
<1>1. Init => W!WInit
    <2> SUFFICES ASSUME Init PROVE W!WInit
        OBVIOUS
    <2>1. InitialCongestionWindow * InitialPacketSize \in Nat
        BY ProductNat, WindowAssumption, Zenon
    <2>2. Clamped(InitialCongestionWindow * InitialPacketSize)
              = InitialCongestionWindow * InitialPacketSize
        BY <2>1 DEF Clamped
    <2>3. answered \in [Conns -> Nat]
        BY DEF Init
    <2> QED
        BY <2>2, <2>3 DEF Init, W!WInit
<1>2. SafeInv /\ AnswersInOrder /\ [Next]_vars => [W!WNext]_(W!wvars)
    BY StepRefinement
<1> QED
    BY <1>1, <1>2, SafeInvHolds, NumbersInOrder, PTL
    DEF Spec, ImplementsRLWindow, W!WSpec

-----------------------------------------------------------------------------
\* With a single RL connection sendAction lets through only the answer to the
\* newest state (mq.go:64-66): an action is at least as new as q.seq when the
\* listener compares, and no number in Redis is ahead of nextSeq.
THEOREM NewestOnly ==
    ASSUME SingleConnection
    PROVE  Spec => AcceptsNewestOnly
<1> DEFINE Accepts == \A c \in Conns : held[c] = <<>> /\ held'[c] # <<>>
                                          => Head(held'[c]).seq = seq[c]
<1>1. SafeInv /\ AnswersInOrder /\ [Next]_vars => [Accepts]_vars
    <2> SUFFICES ASSUME SafeInv, AnswersInOrder, [Next]_vars,
                        NEW c \in Conns, held[c] = <<>>, held'[c] # <<>>
                 PROVE  Head(held'[c]).seq = seq[c]
        OBVIOUS
    <2>1. /\ held \in [Conns -> Seq(ActionMsg)] /\ seq[c] \in Nat
          /\ subscription[c] \in Seq(ActionMsg)
        BY DEF SafeInv, TypeOK
    <2>2. \A n \in Numbers(subscription[c]) : n <= seq[c]
        BY OrderedNow DEF Ordered, Order, ChainOf, Chain
    <2>3. ASSUME ReceiveAction(c)
          PROVE  Head(held'[c]).seq = seq[c]
        <3> DEFINE m == Head(subscription[c])
        <3>1. subscription[c] # <<>> /\ Fresh(c, m) /\ held'[c] = <<m>>
            BY <2>1, <2>3 DEF ReceiveAction
        <3>2. m \in ActionMsg /\ m.seq \in Numbers(subscription[c])
            BY <2>1, <3>1, TakeFirst, NumbersTail
        <3>3. m.seq \in Nat /\ m.seq <= seq[c] /\ ~(m.seq < seq[c])
            BY <2>2, <3>1, <3>2 DEF ActionMsg, Fresh
        <3>4. m.seq = seq[c]
            BY <2>1, <3>3
        <3>5. Head(held'[c]) = m
            BY <3>1, <3>2, Singleton
        <3> HIDE DEF m
        <3> QED
            BY <3>4, <3>5
    <2>4. CASE held'[c] = held[c]
        BY <2>4
    <2>5. ASSUME NEW d \in Conns, SendAction(d)
          PROVE  held'[c] = <<>>
        BY <2>1, <2>5 DEF SendAction
    <2>6. ASSUME NEW d \in Conns, ReceiveAction(d)
          PROVE  ReceiveAction(c)
        BY <2>6 DEF SingleConnection
    <2> QED
        BY <2>3, <2>4, <2>5, <2>6
        DEF Next, vars, Listen, Apply, Terminated, SetRTTStatsProvider, CloseConnection,
            SetMaxDatagramSize, Subscribe, ListenerExit, ReadActionFails, ApplyAction,
            ClampWindow, ApplierExit, Tick, TakeFin, Publish, AgentReply
<1> QED
    BY <1>1, SafeInvHolds, NumbersInOrder, PTL DEF Spec, AcceptsNewestOnly

-----------------------------------------------------------------------------
\* What the publisher is sending carries the newest number of its connection,
\* and what the agent has not answered yet is older, or is the last.
PublishInv ==
    /\ \A c \in Conns : publisher[c] = "publish" =>
           Head(outgoing[c]).conn = c /\ Head(outgoing[c]).seq = seq[c]
    /\ \A i \in 1..Len(agentQueue) : \A c \in Conns : agentQueue[i].conn = c =>
           /\ agentQueue[i].seq <= seq[c]
           /\ agentQueue[i].fin => publisher[c] = "done"
           /\ publisher[c] = "publish" => agentQueue[i].seq < seq[c]

FinInv == PublishInv /\ FinIsLast

\* The invariant only looks at what the publisher and the agent do.
LEMMA FinStep == ASSUME SafeInv, FinInv, [Next]_vars PROVE FinInv'
<1>1. /\ seq \in [Conns -> Nat] /\ outgoing \in [Conns -> Seq(StateMsg)]
      /\ publisher \in [Conns -> {"select", "publish", "done"}]
      /\ agentQueue \in Seq(StateMsg) /\ Len(agentQueue) \in Nat
      /\ \A i \in 1..Len(agentQueue) : agentQueue[i] \in StateMsg
    BY DEF SafeInv, TypeOK
<1>2. \A c \in Conns : publisher[c] = "publish" => outgoing[c] # <<>>
    BY DEF SafeInv, Places
<1>3. ASSUME NEW c \in Conns, NEW w, NEW fin, publisher[c] = "select",
             NumberState(c, w, fin), publisher' = [publisher EXCEPT ![c] = "publish"],
             UNCHANGED agentQueue
      PROVE  FinInv'
    <2> DEFINE s == [seq |-> seq[c] + 1, cwnd |-> w, fin |-> fin, conn |-> c]
    <2>1. /\ seq' = [seq EXCEPT ![c] = seq[c] + 1]
          /\ outgoing' = [outgoing EXCEPT ![c] = <<s>>]
        BY <1>3 DEF NumberState
    <2>2. seq'[c] = seq[c] + 1 /\ Head(outgoing'[c]) = s
        BY <1>1, <2>1
    <2>3. s.seq = seq[c] + 1 /\ s.conn = c
        OBVIOUS
    <2> HIDE DEF s
    <2>4. \A d \in Conns : publisher'[d] = "publish" =>
              Head(outgoing'[d]).conn = d /\ Head(outgoing'[d]).seq = seq'[d]
        <3> SUFFICES ASSUME NEW d \in Conns, publisher'[d] = "publish"
                     PROVE  Head(outgoing'[d]).conn = d /\ Head(outgoing'[d]).seq = seq'[d]
            OBVIOUS
        <3>1. CASE d = c
            BY <2>2, <2>3, <3>1
        <3>2. CASE d # c
            <4>1. /\ publisher[d] = "publish" /\ outgoing'[d] = outgoing[d]
                  /\ seq'[d] = seq[d]
                BY <1>1, <1>3, <2>1, <3>2
            <4> QED BY <4>1 DEF FinInv, PublishInv
        <3> QED BY <3>1, <3>2
    <2>5. ASSUME NEW i \in 1..Len(agentQueue), NEW d \in Conns, agentQueue[i].conn = d
          PROVE  /\ agentQueue[i].seq <= seq'[d]
                 /\ agentQueue[i].fin => publisher'[d] = "done"
                 /\ publisher'[d] = "publish" => agentQueue[i].seq < seq'[d]
        <3>1. /\ agentQueue[i].seq \in Nat /\ seq[d] \in Nat
              /\ agentQueue[i].seq <= seq[d]
              /\ publisher[d] = "publish" => agentQueue[i].seq < seq[d]
            BY <1>1, <2>5 DEF FinInv, PublishInv, StateMsg
        <3>2. agentQueue[i].fin => publisher[d] = "done"
            BY <2>5 DEF FinInv, PublishInv
        <3>3. CASE d = c
            BY <1>3, <2>2, <3>1, <3>2, <3>3
        <3>4. CASE d # c
            <4>1. publisher'[d] = publisher[d] /\ seq'[d] = seq[d]
                BY <1>1, <1>3, <2>1, <3>4
            <4> QED BY <3>1, <3>2, <4>1
        <3> QED BY <3>3, <3>4
    <2> QED
        BY <1>3, <2>4, <2>5 DEF FinInv, PublishInv, FinIsLast
<1>4. ASSUME NEW c \in Conns, Publish(c)
      PROVE  FinInv'
    <2> DEFINE h == Head(outgoing[c])
               n == Len(agentQueue)
    <2>1. /\ publisher[c] = "publish" /\ UNCHANGED seq
          /\ publisher' = [publisher EXCEPT ![c] = IF h.fin THEN "done" ELSE "select"]
          /\ outgoing' = [outgoing EXCEPT ![c] = <<>>]
          /\ agentQueue' = Append(agentQueue, h) \/ agentQueue' = agentQueue
        BY <1>4 DEF Publish, mqVars
    <2>2. h \in StateMsg /\ h.conn = c /\ h.seq = seq[c]
        BY <1>1, <1>2, <2>1, TakeFirst DEF FinInv, PublishInv
    <2>3. /\ publisher'[c] \in {"done", "select"} /\ (h.fin => publisher'[c] = "done")
          /\ \A d \in Conns : d # c => /\ publisher'[d] = publisher[d]
                                       /\ outgoing'[d] = outgoing[d]
        BY <1>1, <2>1
    <2>4. \A d \in Conns : publisher'[d] = "publish" =>
              Head(outgoing'[d]).conn = d /\ Head(outgoing'[d]).seq = seq'[d]
        BY <2>1, <2>3 DEF FinInv, PublishInv
    <2> HIDE DEF h
    <2>5. ASSUME NEW i \in 1..n, NEW d \in Conns, agentQueue[i].conn = d
          PROVE  /\ agentQueue[i].seq <= seq[d]
                 /\ agentQueue[i].fin => publisher'[d] = "done"
                 /\ publisher'[d] = "publish" => agentQueue[i].seq < seq[d]
        BY <2>1, <2>3, <2>5 DEF FinInv, PublishInv
    <2>6. ASSUME NEW i \in 1..n, agentQueue[i].conn = c
          PROVE  ~agentQueue[i].fin /\ agentQueue[i].seq < h.seq
        BY <2>1, <2>2, <2>6 DEF FinInv, PublishInv
    <2>7. CASE agentQueue' = agentQueue
        BY <2>1, <2>4, <2>5, <2>7 DEF FinInv, PublishInv, FinIsLast
    <2>8. CASE agentQueue' = Append(agentQueue, h)
        <3>1. /\ Len(agentQueue') = n + 1 /\ agentQueue'[n + 1] = h /\ n \in Nat
              /\ \A i \in 1..n : agentQueue'[i] = agentQueue[i]
            BY <1>1, <2>2, <2>8
        <3>2. \A i \in 1..(n + 1) : i \in 1..n \/ i = n + 1
            BY <1>1
        <3>3. \A i, j \in 1..(n + 1) : i < j => i \in 1..n
            BY <1>1
        <3> HIDE DEF n
        <3>4. ASSUME NEW i \in 1..(n + 1), NEW d \in Conns, agentQueue'[i].conn = d
              PROVE  /\ agentQueue'[i].seq <= seq'[d]
                     /\ agentQueue'[i].fin => publisher'[d] = "done"
                     /\ publisher'[d] = "publish" => agentQueue'[i].seq < seq'[d]
            <4>1. CASE i \in 1..n
                BY <2>1, <2>5, <3>1, <3>4, <4>1
            <4>2. CASE i = n + 1
                <5>1. d = c /\ agentQueue'[i] = h /\ h.seq = seq'[d] /\ seq[d] \in Nat
                    BY <1>1, <2>1, <2>2, <3>1, <3>4, <4>2
                <5>2. publisher'[d] # "publish"
                    BY <2>3, <5>1
                <5> QED BY <2>1, <2>3, <5>1, <5>2
            <4> QED BY <3>2, <4>1, <4>2
        <3>5. ASSUME NEW i \in 1..(n + 1), NEW j \in 1..(n + 1), i < j,
                     agentQueue'[i].conn = agentQueue'[j].conn
              PROVE  ~agentQueue'[i].fin /\ agentQueue'[i].seq < agentQueue'[j].seq
            <4>1. i \in 1..n
                BY <3>3, <3>5
            <4>2. CASE j \in 1..n
                BY <3>1, <3>5, <4>1, <4>2 DEF FinInv, FinIsLast, n
            <4>3. CASE j = n + 1
                BY <2>2, <2>6, <3>1, <3>5, <4>1, <4>3
            <4> QED BY <3>2, <4>2, <4>3
        <3>6. PublishInv'
            BY <2>4, <3>1, <3>4 DEF PublishInv
        <3> QED
            BY <3>1, <3>5, <3>6 DEF FinInv, FinIsLast
    <2> QED
        BY <2>1, <2>7, <2>8
<1>5. ASSUME agentQueue # <<>>, agentQueue' = Tail(agentQueue),
             UNCHANGED <<seq, publisher, outgoing>>
      PROVE  FinInv'
    <2> DEFINE n == Len(agentQueue)
    <2>1. /\ Len(agentQueue') = n - 1
          /\ \A i \in 1..(n - 1) : i + 1 \in 1..n /\ agentQueue'[i] = agentQueue[i + 1]
        BY <1>1, <1>5
    <2>2. \A i, j \in 1..(n - 1) : i < j => i + 1 < j + 1
        OBVIOUS
    <2> QED
        BY <1>5, <2>1, <2>2 DEF FinInv, PublishInv, FinIsLast
<1>6. CASE UNCHANGED <<seq, publisher, outgoing, agentQueue>>
    BY <1>6 DEF FinInv, PublishInv, FinIsLast
<1>7. ASSUME NEW c \in Conns, Tick(c) \/ TakeFin(c)
      PROVE  FinInv'
    BY <1>3, <1>7 DEF Tick, TakeFin
<1>8. ASSUME NEW a, NEW readers, AgentReply(a, readers)
      PROVE  FinInv'
    BY <1>5, <1>8 DEF AgentReply, mqVars
<1> QED
    BY <1>4, <1>6, <1>7, <1>8
    DEF Next, vars, Listen, Apply, Terminated, SetRTTStatsProvider, CloseConnection,
        SetMaxDatagramSize, Subscribe, ListenerExit, ReadActionFails, ReceiveAction,
        SendAction, ApplyAction, ClampWindow, ApplierExit, mqVars

\* FIN is the last state of its connection in the agent's queue, for any number
\* of connections on the one channel: the goroutine that publishes (rl.go) ends
\* with it, and numbers a state only after it has sent the one before.
THEOREM FinComesLast == Spec => []FinIsLast
<1>1. Init => FinInv
    BY DEF Init, FinInv, PublishInv, FinIsLast
<1>2. SafeInv /\ FinInv /\ [Next]_vars => FinInv'
    BY FinStep
<1>3. FinInv => FinIsLast
    BY DEF FinInv
<1> QED
    BY <1>1, <1>2, <1>3, SafeInvHolds, PTL DEF Spec
=============================================================================
