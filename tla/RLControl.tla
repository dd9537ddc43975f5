------------------------------ MODULE RLControl ------------------------------
(***************************************************************************)
(* The reinforcement-learning congestion control of qperf-go: RLSender     *)
(* (internal/congestion/rl/rl.go) and QuicMqManager (mq.go).               *)
(*                                                                         *)
(* Every RL connection runs three goroutines.  The listener subscribes to  *)
(* the action channel in Redis and hands each action that is not older     *)
(* than the current state to actionCh, a Go channel of capacity one.  The  *)
(* applier receives from actionCh and moves the congestion window.  The    *)
(* publisher takes a sequence number once a second and publishes the       *)
(* window and RTT under it.  An external agent reads states and publishes  *)
(* one action for each.  Redis delivers at most once.                      *)
(*                                                                         *)
(* The channel names are built from MQ_CONNECTION_ID, a constant, so every *)
(* connection publishes to and listens on the same pair of channels.       *)
(***************************************************************************)
EXTENDS RLAction, Sequences

CONSTANTS MaxInitialSeq,  \* initial sequence numbers are in 0..MaxInitialSeq
          MaxTicks        \* bound: states published per connection before FIN

ASSUME BoundsAssumption == MaxInitialSeq \in Nat /\ MaxTicks \in Nat

VARIABLES
    \* The connection.
    ctxDone,         \* [Conns -> BOOLEAN] its context is cancelled
    rttStats,        \* [Conns -> BOOLEAN] SetRTTStatsProvider was called
    maxDatagramSize, \* [Conns -> Nat]
    cwnd,            \* [Conns -> Int] in bytes
    \* QuicMqManager.
    seq,             \* [Conns -> Nat] number of the last state
    actionCh,        \* [Conns -> Seq(ActionMsg)] at most one message
    chClosed,        \* [Conns -> BOOLEAN] actionCh is closed
    \* Goroutines.
    listener, applier, publisher, \* [Conns -> where the goroutine is]
    held,            \* [Conns -> Seq(ActionMsg)] the action the listener is sending
    outgoing,        \* [Conns -> Seq(StateMsg)] the state being published
    \* Redis and the agent.
    subscription,    \* [Conns -> Seq(ActionMsg)] delivered, not yet read by listener
    agentQueue,      \* Seq(StateMsg) delivered to the agent, not yet answered
    \* History.
    ticks,           \* [Conns -> Nat] states published
    firstSeq,        \* [Conns -> Nat] the initial sequence number
    answered,        \* [Conns -> Nat] number of the last applied action
    foreign          \* connections whose window a foreign action has moved

connVars == <<ctxDone, rttStats, maxDatagramSize>>
mqVars   == <<seq, actionCh, chClosed>>
vars == <<ctxDone, rttStats, maxDatagramSize, cwnd, seq, actionCh, chClosed,
          listener, applier, publisher, held, outgoing, subscription,
          agentQueue, ticks, firstSeq, answered, foreign>>

\* The window in force: a negative value is about to be replaced.
W == INSTANCE RLWindow WITH size   <- maxDatagramSize,
                            window <- [c \in Conns |-> Clamped(cwnd[c])]

\* StateMsg and ActionMsg.  The field conn is history: the messages of the
\* program do not say which connection they belong to.
StateMsg == [seq : Nat, cwnd : Int, fin : BOOLEAN, conn : Conns]
ActionMsg == [seq : Nat, action : AgentActions, conn : Conns]

Init ==
    /\ ctxDone = [c \in Conns |-> FALSE]
    /\ rttStats = [c \in Conns |-> FALSE]
    /\ maxDatagramSize = [c \in Conns |-> InitialPacketSize]
    /\ cwnd = [c \in Conns |-> InitialCongestionWindow * InitialPacketSize]
    /\ seq \in [Conns -> 0..MaxInitialSeq]
    /\ actionCh = [c \in Conns |-> <<>>]
    /\ chClosed = [c \in Conns |-> FALSE]
    /\ listener = [c \in Conns |-> "start"]
    /\ applier = [c \in Conns |-> "range"]
    /\ publisher = [c \in Conns |-> "select"]
    /\ held = [c \in Conns |-> <<>>]
    /\ outgoing = [c \in Conns |-> <<>>]
    /\ subscription = [c \in Conns |-> <<>>]
    /\ agentQueue = <<>>
    /\ ticks = [c \in Conns |-> 0]
    /\ firstSeq = seq
    /\ answered = seq
    /\ foreign = {}

-----------------------------------------------------------------------------
\* quic-go: the connection's own goroutine.

\* SetCongestionControl hands the RTT statistics over after NewRLSender has
\* started the goroutines.
SetRTTStatsProvider(c) ==
    /\ ~rttStats[c]
    /\ rttStats' = [rttStats EXCEPT ![c] = TRUE]
    /\ UNCHANGED <<ctxDone, maxDatagramSize, cwnd, mqVars, listener, applier,
                   publisher, held, outgoing, subscription, agentQueue, ticks,
                   firstSeq, answered, foreign>>

\* Path MTU discovery only raises the size.
SetMaxDatagramSize(c, size) ==
    /\ ~ctxDone[c]
    /\ size > maxDatagramSize[c]
    /\ maxDatagramSize' = [maxDatagramSize EXCEPT ![c] = size]
    /\ UNCHANGED <<ctxDone, rttStats, cwnd, mqVars, listener, applier,
                   publisher, held, outgoing, subscription, agentQueue, ticks,
                   firstSeq, answered, foreign>>

\* The connection closes and cancels its context.
CloseConnection(c) ==
    /\ ~ctxDone[c]
    /\ ctxDone' = [ctxDone EXCEPT ![c] = TRUE]
    /\ UNCHANGED <<rttStats, maxDatagramSize, cwnd, mqVars, listener, applier,
                   publisher, held, outgoing, subscription, agentQueue, ticks,
                   firstSeq, answered, foreign>>

-----------------------------------------------------------------------------
\* ListenAction.

Subscribe(c) ==
    /\ listener[c] = "start"
    /\ listener' = [listener EXCEPT ![c] = "select"]
    /\ UNCHANGED <<connVars, cwnd, mqVars, applier, publisher, held, outgoing,
                   subscription, agentQueue, ticks, firstSeq, answered, foreign>>

\* Faulty variant: the channel is not closed.
LeaveActionChOpen(c) == UNCHANGED chClosed

\* close(q.actionCh)
CloseActionCh(c) == chClosed' = [chClosed EXCEPT ![c] = TRUE]

\* case <-ctx.Done(): close the channel, drop the subscription, return.
ListenerExit(c) ==
    /\ listener[c] = "select"
    /\ ctxDone[c]
    /\ CloseActionCh(c)
    /\ listener' = [listener EXCEPT ![c] = "done"]
    /\ subscription' = [subscription EXCEPT ![c] = <<>>]
    /\ UNCHANGED <<connVars, cwnd, seq, actionCh, applier, publisher, held,
                   outgoing, agentQueue, ticks, firstSeq, answered, foreign>>

\* case msg := <-ch with a payload readAction cannot decode.
ReadActionFails(c) ==
    /\ listener[c] = "select"
    /\ subscription[c] # <<>>
    /\ subscription' = [subscription EXCEPT ![c] = Tail(@)]
    /\ UNCHANGED <<connVars, cwnd, mqVars, listener, applier, publisher, held,
                   outgoing, agentQueue, ticks, firstSeq, answered, foreign>>

\* Faulty variant: every action is accepted.
AnyAction(c, m) == TRUE

\* The test of sendAction: an action older than the current state is ignored.
Fresh(c, m) == ~(m.seq < seq[c])

\* case msg := <-ch with an action; sendAction compares its number with seq.
ReceiveAction(c) ==
    /\ listener[c] = "select"
    /\ subscription[c] # <<>>
    /\ LET m == Head(subscription[c])
       IN  IF Fresh(c, m)
           THEN /\ held' = [held EXCEPT ![c] = <<m>>]
                /\ listener' = [listener EXCEPT ![c] = "send"]
           ELSE UNCHANGED <<held, listener>>
    /\ subscription' = [subscription EXCEPT ![c] = Tail(@)]
    /\ UNCHANGED <<connVars, cwnd, mqVars, applier, publisher, outgoing,
                   agentQueue, ticks, firstSeq, answered, foreign>>

\* Faulty variant: a channel of capacity two.
RoomForTwo(c) == Len(actionCh[c]) < 2

\* make(chan *ActionMsg, 1)
RoomInChannel(c) == Len(actionCh[c]) < 1

\* q.actionCh <- a blocks while the channel is full.
SendAction(c) ==
    /\ listener[c] = "send"
    /\ RoomInChannel(c)
    /\ actionCh' = [actionCh EXCEPT ![c] = Append(@, Head(held[c]))]
    /\ held' = [held EXCEPT ![c] = <<>>]
    /\ listener' = [listener EXCEPT ![c] = "select"]
    /\ UNCHANGED <<connVars, cwnd, seq, chClosed, applier, publisher, outgoing,
                   subscription, agentQueue, ticks, firstSeq, answered, foreign>>
-----------------------------------------------------------------------------
\* The goroutine that applies actions to the window.

\* for action := range actionCh, and the addition to cwnd.
ApplyAction(c) ==
    /\ applier[c] = "range"
    /\ actionCh[c] # <<>>
    /\ LET m == Head(actionCh[c])
       IN  /\ cwnd' = [cwnd EXCEPT ![c] =
                           Moved(@, m.action, maxDatagramSize[c])]
           /\ answered' = [answered EXCEPT ![c] = m.seq]
           /\ foreign' = IF m.conn = c THEN foreign ELSE foreign \cup {c}
    /\ actionCh' = [actionCh EXCEPT ![c] = Tail(@)]
    /\ applier' = [applier EXCEPT ![c] = "clamp"]
    /\ UNCHANGED <<connVars, seq, chClosed, listener, publisher, held, outgoing,
                   subscription, agentQueue, ticks, firstSeq>>

\* Faulty variant: a negative window is replaced by zero.
ClampWindowToZero(c) ==
    /\ applier[c] = "clamp"
    /\ cwnd' = [cwnd EXCEPT ![c] = IF @ < 0 THEN 0 ELSE @]
    /\ applier' = [applier EXCEPT ![c] = "range"]
    /\ UNCHANGED <<connVars, mqVars, listener, publisher, held, outgoing,
                   subscription, agentQueue, ticks, firstSeq, answered, foreign>>

\* if bs.cwnd < 0: a step of its own, the window is readable in between.
ClampWindow(c) ==
    /\ applier[c] = "clamp"
    /\ cwnd' = [cwnd EXCEPT ![c] = Clamped(@)]
    /\ applier' = [applier EXCEPT ![c] = "range"]
    /\ UNCHANGED <<connVars, mqVars, listener, publisher, held, outgoing,
                   subscription, agentQueue, ticks, firstSeq, answered, foreign>>

\* Faulty variant: the goroutine stops at the close, with the channel undrained.
RangeEndsAtClose(c) == chClosed[c]

\* range ends once the channel is closed and drained.
RangeEnds(c) == chClosed[c] /\ actionCh[c] = <<>>

ApplierExit(c) ==
    /\ applier[c] = "range"
    /\ RangeEnds(c)
    /\ applier' = [applier EXCEPT ![c] = "done"]
    /\ UNCHANGED <<connVars, cwnd, mqVars, listener, publisher, held, outgoing,
                   subscription, agentQueue, ticks, firstSeq, answered, foreign>>
-----------------------------------------------------------------------------
\* The goroutine that publishes states.

\* Faulty variant: the state goes out under the number of the one before it.
KeepNumber(c, window, fin) ==
    /\ UNCHANGED seq
    /\ outgoing' = [outgoing EXCEPT ![c] =
           <<[seq |-> seq[c], cwnd |-> window, fin |-> fin, conn |-> c]>>]

\* PublishState up to nextSeq: the number is taken before the state is sent.
NumberState(c, window, fin) ==
    /\ seq' = [seq EXCEPT ![c] = @ + 1]
    /\ outgoing' = [outgoing EXCEPT ![c] =
           <<[seq |-> seq[c] + 1, cwnd |-> window, fin |-> fin, conn |-> c]>>]

\* case <-time.Tick: nothing is published before the RTT statistics are set.
Tick(c) ==
    /\ publisher[c] = "select"
    /\ rttStats[c]
    /\ ticks[c] < MaxTicks
    /\ NumberState(c, cwnd[c] * maxDatagramSize[c], FALSE)
    /\ publisher' = [publisher EXCEPT ![c] = "publish"]
    /\ ticks' = [ticks EXCEPT ![c] = @ + 1]
    /\ UNCHANGED <<connVars, cwnd, actionCh, chClosed, listener, applier, held,
                   subscription, agentQueue, firstSeq, answered, foreign>>

\* case <-ctx.Done(): a last state that carries FIN.
TakeFin(c) ==
    /\ publisher[c] = "select"
    /\ ctxDone[c]
    /\ NumberState(c, 0, TRUE)
    /\ publisher' = [publisher EXCEPT ![c] = "publish"]
    /\ UNCHANGED <<connVars, cwnd, actionCh, chClosed, listener, applier, held,
                   subscription, agentQueue, ticks, firstSeq, answered, foreign>>

\* redis.Publish: the agent gets the state, or it does not (an error is only
\* printed, and Redis keeps nothing for a reader it cannot reach).
Publish(c) ==
    /\ publisher[c] = "publish"
    /\ \/ agentQueue' = Append(agentQueue, Head(outgoing[c]))
       \/ agentQueue' = agentQueue
    /\ publisher' = [publisher EXCEPT ![c] =
                         IF Head(outgoing[c]).fin THEN "done" ELSE "select"]
    /\ outgoing' = [outgoing EXCEPT ![c] = <<>>]
    /\ UNCHANGED <<connVars, cwnd, mqVars, listener, applier, held, subscription,
                   ticks, firstSeq, answered, foreign>>
-----------------------------------------------------------------------------
\* The agent: one action for each state, under the number of the state, sent to
\* those of the connected listeners Redis can reach.
Subscribers == {c \in Conns : listener[c] \in {"select", "send"}}

AgentReply(a, readers) ==
    /\ agentQueue # <<>>
    /\ readers \subseteq Subscribers
    /\ LET s == Head(agentQueue)
           m == [seq |-> s.seq, action |-> a, conn |-> s.conn]
       IN  subscription' = [c \in Conns |-> IF c \in readers
                                            THEN Append(subscription[c], m)
                                            ELSE subscription[c]]
    /\ agentQueue' = Tail(agentQueue)
    /\ UNCHANGED <<connVars, cwnd, mqVars, listener, applier, publisher, held,
                   outgoing, ticks, firstSeq, answered, foreign>>
-----------------------------------------------------------------------------
Listen(c)  == Subscribe(c) \/ ReadActionFails(c) \/ ReceiveAction(c)
                  \/ SendAction(c)
Apply(c)   == ApplyAction(c) \/ ClampWindow(c) \/ ApplierExit(c)

\* Everything has ended.
Terminated ==
    /\ \A c \in Conns : /\ listener[c] = "done"
                        /\ applier[c] = "done"
                        /\ publisher[c] = "done"
    /\ UNCHANGED vars

Next ==
    \/ \E c \in Conns :
           \/ SetRTTStatsProvider(c) \/ CloseConnection(c)
           \/ \E size \in DatagramSizes : SetMaxDatagramSize(c, size)
           \/ Listen(c) \/ ListenerExit(c)
           \/ Apply(c)
           \/ Tick(c) \/ TakeFin(c) \/ Publish(c)
    \/ \E a \in AgentActions, readers \in SUBSET Conns : AgentReply(a, readers)
    \/ Terminated

\* The Go scheduler runs every goroutine that can run.  A select with several
\* ready cases picks one at random, hence strong fairness for the cases on
\* ctx.Done().  The connection, Redis and the agent owe nothing.
Fairness ==
    \A c \in Conns :
        /\ WF_vars(Listen(c)) /\ SF_vars(ListenerExit(c))
        /\ WF_vars(Apply(c))
        /\ SF_vars(TakeFin(c)) /\ WF_vars(Publish(c))

Spec == Init /\ [][Next]_vars /\ Fairness
-----------------------------------------------------------------------------
\* Type invariant: the variables hold what the Go types allow, and actionCh
\* never holds more than its capacity.
TypeOK ==
    /\ ctxDone \in [Conns -> BOOLEAN]
    /\ rttStats \in [Conns -> BOOLEAN]
    /\ maxDatagramSize \in [Conns -> DatagramSizes]
    /\ cwnd \in [Conns -> Int]
    /\ seq \in [Conns -> Nat]
    /\ actionCh \in [Conns -> Seq(ActionMsg)]
    /\ chClosed \in [Conns -> BOOLEAN]
    /\ listener \in [Conns -> {"start", "select", "send", "done"}]
    /\ applier \in [Conns -> {"range", "clamp", "done"}]
    /\ publisher \in [Conns -> {"select", "publish", "done"}]
    /\ held \in [Conns -> Seq(ActionMsg)]
    /\ outgoing \in [Conns -> Seq(StateMsg)]
    /\ subscription \in [Conns -> Seq(ActionMsg)]
    /\ agentQueue \in Seq(StateMsg)
    /\ ticks \in [Conns -> 0..MaxTicks]
    /\ firstSeq \in [Conns -> Nat]
    /\ answered \in [Conns -> Nat]
    /\ foreign \subseteq Conns
    /\ \A c \in Conns : Len(actionCh[c]) <= 1

\* A negative window exists only between the addition and the test that
\* follows it in the applier (rl.go:78-81): whenever the applier is elsewhere,
\* CanSend and the pacer read a window that is not negative.
NegativeOnlyUntilTest ==
    \A c \in Conns : cwnd[c] < 0 => applier[c] = "clamp"

\* An action that passed the test of sendAction is never lost, even when the
\* connection closes while the listener is blocked: the applier returns only
\* after everything the listener accepted has moved the window.
DrainedOnExit ==
    \A c \in Conns :
        applier[c] = "done" => /\ listener[c] = "done"
                               /\ held[c] = <<>>
                               /\ actionCh[c] = <<>>

\* FIN is the last state of its connection the agent sees: no state that the
\* publisher numbered earlier, or numbers later, arrives behind it.
FinIsLast ==
    \A i, j \in 1..Len(agentQueue) :
        i < j /\ agentQueue[i].conn = agentQueue[j].conn
            => /\ ~agentQueue[i].fin
               /\ agentQueue[i].seq < agentQueue[j].seq

\* The server serves one RL connection at a time.
SingleConnection == \A c, d \in Conns : c = d

\* The numbers of the messages in s.
Numbers(s) == {s[i].seq : i \in DOMAIN s}

Below(A, B) == \A m \in A, n \in B : m < n

Ascending(s) == \A i, j \in DOMAIN s : i < j => s[i].seq < s[j].seq

\* The way of a number from nextSeq to the window of c, last stage first.
Stages(c) == <<{answered[c]}, Numbers(actionCh[c]), Numbers(held[c]),
               Numbers(subscription[c]), Numbers(agentQueue),
               Numbers(outgoing[c])>>

\* With a single RL connection, the numbers between nextSeq (mq.go:71) and the
\* window are in order across the agent, Redis, the listener and actionCh: no
\* stage holds a number that a later stage, or the window, has already seen,
\* so the unsynchronised test against q.seq in sendAction (mq.go:64) can
\* neither reorder actions nor let one through twice.
AnswersInOrder ==
    \A c \in Conns :
        /\ \A i, j \in 1..6 : i < j => Below(Stages(c)[i], Stages(c)[j])
        /\ \A i \in 1..6 : \A n \in Stages(c)[i] : firstSeq[c] <= n /\ n <= seq[c]
        /\ Ascending(subscription[c])
        /\ Ascending(agentQueue)

\* With a single RL connection, the listener accepts only the answer to the
\* newest state: whatever else was delayed in Redis or by the agent is ignored
\* by sendAction (mq.go:64-66).
AcceptsNewestOnly ==
    [][\A c \in Conns : held[c] = <<>> /\ held'[c] # <<>>
                            => Head(held'[c]).seq = seq[c]]_vars

\* No window is moved by the answer to another connection's state.  The
\* constructor of QuicMqManager derives the channel names from "connectionID".
OwnActionsOnly == foreign = {}

\* The pacer divides by the window (it is the bandwidth the pacer is given);
\* a window of zero is the edge case that bbr_sender.go:549-551 warns of.
PacerBandwidthNeverZero == \A c \in Conns : cwnd[c] # 0

\* With a single RL connection, the three goroutines and Redis together do
\* what RLWindow says: every state is answered at most once and in order, and
\* the two-step update of the window is as good as atomic.
ImplementsRLWindow == W!WSpec

\* Once the connection closes all three goroutines return, whatever they were
\* blocked on and whatever is still buffered.
GoroutinesReturn ==
    \A c \in Conns : ctxDone[c] ~> /\ listener[c] = "done"
                                   /\ applier[c] = "done"
                                   /\ publisher[c] = "done"
=============================================================================
