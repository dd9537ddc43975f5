------------------------ MODULE BandwidthFilterProofs -------------------------
(***************************************************************************)
(* The windowed filter for every set of samples, window and number of      *)
(* rounds: its type, the order of its estimates, that no maximum outlives  *)
(* the window, and that it implements MaxFilter.                           *)
(***************************************************************************)
EXTENDS BandwidthFilter, TLAPS

\* The order of EstimatesOrdered, place by place.
Descending(est) ==
    /\ est[0].sample >= est[1].sample /\ est[1].sample >= est[2].sample
    /\ est[0].time <= est[1].time /\ est[1].time <= est[2].time

-----------------------------------------------------------------------------
\* Placed keeps the best, and an estimate it keeps is better than the sample.
LEMMA PlacedFacts ==
    ASSUME NEW est \in Estimates, NEW e \in Entry
    PROVE  LET p == Placed(est, e)
           IN  /\ p \in Estimates
               /\ p[0] = est[0]
               /\ \/ p[1] = e /\ p[2] = e
                  \/ p[1] = est[1] /\ p[2] = e /\ e.sample < est[1].sample
                                               /\ e.sample >= est[2].sample
                  \/ p[1] = est[1] /\ p[2] = est[2] /\ e.sample < est[1].sample
                                                    /\ e.sample < est[2].sample
BY DEF Placed, Estimates, Entry

\* Promoted moves the later estimates up by one or two places.
LEMMA PromotedFacts ==
    ASSUME NEW est \in Estimates, NEW e \in Entry, NEW W \in Nat
    PROVE  LET p == Promoted(est, W, e)
           IN  /\ p \in Estimates
               /\ \/ /\ e.time - est[1].time > W
                     /\ p[0] = est[2] /\ p[1] = e /\ p[2] = e
                  \/ /\ e.time - est[1].time <= W
                     /\ p[0] = est[1] /\ p[1] = est[2] /\ p[2] = e
<1>1. CASE e.time - est[1].time > W
  BY <1>1 DEF Promoted, Estimates, Entry
<1>2. CASE ~(e.time - est[1].time > W)
  BY <1>2 DEF Promoted, Estimates, Entry
<1> QED BY <1>1, <1>2

\* Renewed replaces estimates that repeat the one before them.
LEMMA RenewedFacts ==
    ASSUME NEW est \in Estimates, NEW e \in Entry, NEW W \in Nat
    PROVE  LET p == Renewed(est, W, e)
           IN  /\ p \in Estimates
               /\ p[0] = est[0]
               /\ \/ p[1] = e /\ p[2] = e
                  \/ p[1] = est[1] /\ p[2] = e
                  \/ p[1] = est[1] /\ p[2] = est[2]
BY DEF Renewed, Estimates, Entry

\* An update, in terms of what was there: where each estimate comes from.
LEMMA UpdatedFacts ==
    ASSUME NEW est \in Estimates, NEW e \in Entry, NEW W \in Nat,
           Descending(est), est[2].time <= e.time
    PROVE  LET u == Updated(est, W, e)
           IN  /\ u \in Estimates
               /\ \A i \in 0..2 :
                     \/ u[i] = e
                     \/ \E j \in 0..2 : u[i] = est[j] /\ e.sample < est[j].sample
               /\ Descending(u)
               /\ u[2].time <= e.time
               /\ u[0].sample >= e.sample
               /\ u[0].sample <= est[0].sample \/ u[0].sample <= e.sample
               /\ e.time - u[0].time <= W
<1> DEFINE u == Updated(est, W, e)
<1> DEFINE p == Placed(est, e)
<1>0. /\ e.sample \in Nat /\ e.time \in Nat
      /\ \A i \in 0..2 : est[i].sample \in Nat /\ est[i].time \in Nat
  BY DEF Estimates, Entry
<1>1. CASE MustReset(est, W, e)
  <2>1. u = ResetTo(e)
    BY <1>1 DEF Updated
  <2>2. u \in Estimates /\ u[0] = e /\ u[1] = e /\ u[2] = e
    BY <2>1 DEF ResetTo, Estimates
  <2>3. \A i \in 0..2 : u[i] = e
    BY <2>1 DEF ResetTo
  <2> QED BY <2>2, <2>3, <1>0 DEF Descending
<1>2. CASE ~MustReset(est, W, e)
  <2>1. e.sample < est[0].sample /\ e.time - est[2].time <= W
    BY <1>2, <1>0 DEF MustReset
  <2>2. u = IF e.time - p[0].time > W THEN Promoted(p, W, e) ELSE Renewed(p, W, e)
    BY <1>2 DEF Updated
  <2>3. /\ p \in Estimates /\ p[0] = est[0]
        /\ \/ p[1] = e /\ p[2] = e
           \/ p[1] = est[1] /\ p[2] = e /\ e.sample < est[1].sample
                                        /\ e.sample >= est[2].sample
           \/ p[1] = est[1] /\ p[2] = est[2] /\ e.sample < est[1].sample
                                             /\ e.sample < est[2].sample
    BY PlacedFacts
  <2> HIDE DEF u, p
  <2>4. CASE e.time - p[0].time > W
    <3>1. u = Promoted(p, W, e)
      BY <2>2, <2>4
    <3>2. /\ u \in Estimates
          /\ \/ /\ e.time - p[1].time > W
                /\ u[0] = p[2] /\ u[1] = e /\ u[2] = e
             \/ /\ e.time - p[1].time <= W
                /\ u[0] = p[1] /\ u[1] = p[2] /\ u[2] = e
      BY <3>1, <2>3, PromotedFacts
    <3>3. \A i \in 0..2 : \/ u[i] = e
                          \/ \E j \in 0..2 : u[i] = est[j] /\ e.sample < est[j].sample
      BY <3>2, <2>3
    <3>4. Descending(u) /\ u[2].time <= e.time
      BY <3>2, <2>3, <1>0 DEF Descending
    <3>5. u[0].sample >= e.sample /\ u[0].sample <= est[0].sample
      BY <3>2, <2>1, <2>3, <1>0 DEF Descending
    <3>6. e.time - u[0].time <= W
      BY <3>2, <2>1, <2>3, <1>0
    <3> QED BY <3>2, <3>3, <3>4, <3>5, <3>6 DEF u
  <2>5. CASE ~(e.time - p[0].time > W)
    <3>1. u = Renewed(p, W, e)
      BY <2>2, <2>5
    <3>2. /\ u \in Estimates /\ u[0] = est[0]
          /\ \/ u[1] = e /\ u[2] = e
             \/ u[1] = p[1] /\ u[2] = e
             \/ u[1] = p[1] /\ u[2] = p[2]
      BY <3>1, <2>3, RenewedFacts
    <3>3. \A i \in 0..2 : \/ u[i] = e
                          \/ \E j \in 0..2 : u[i] = est[j] /\ e.sample < est[j].sample
      BY <3>2, <2>1, <2>3
    <3>4. Descending(u) /\ u[2].time <= e.time
      BY <3>2, <2>1, <2>3, <1>0 DEF Descending
    <3>5. u[0].sample >= e.sample /\ u[0].sample <= est[0].sample
      BY <3>2, <2>1, <1>0
    <3>6. e.time - u[0].time <= W
      BY <3>2, <2>3, <2>5, <1>0
    <3> QED BY <3>2, <3>3, <3>4, <3>5, <3>6 DEF u
  <2> QED BY <2>4, <2>5
<1> QED BY <1>1, <1>2

-----------------------------------------------------------------------------
\* The invariant of the proofs: the two parts are inductive together only, as
\* the order of the times relates an estimate to the round.
FilterInv == TypeOK /\ EstimatesOrdered

\* What the invariant gives to the lemmas on estimates.
LEMMA FromInv ==
    ASSUME FilterInv
    PROVE  /\ estimates \in Estimates /\ Descending(estimates)
           /\ round \in Nat /\ windowLength \in Nat
           /\ estimates[2].time <= round
           /\ \A s \in Samples : Sampled(s, round) \in Entry
           /\ \A i \in 0..2 : /\ estimates[i].sample \in Samples \cap Nat
                              /\ estimates[i].time \in 0..round
<1>1. round \in Nat /\ windowLength \in Nat
  BY WindowAssumption DEF FilterInv, TypeOK
<1>2. \A i \in 0..2 : /\ estimates[i] \in [sample : Samples, time : 0..round]
                      /\ estimates[i].sample \in Samples \cap Nat
                      /\ estimates[i].time \in 0..round
                      /\ estimates[i].time \in Nat
  <2>1. \A i \in 0..2 : estimates[i] \in [sample : Samples, time : 0..round]
    BY DEF FilterInv, TypeOK
  <2>2. \A i \in 0..2 : estimates[i].sample \in Samples /\ estimates[i].time \in 0..round
    BY <2>1
  <2>3. \A n \in 0..round : n \in Nat
    BY <1>1
  <2> QED BY <2>1, <2>2, <2>3, SamplesAssumption
<1>3. estimates \in Estimates
  <2>1. \A i \in 0..2 : estimates[i] \in Entry
    BY <1>2 DEF Entry
  <2> QED BY <2>1 DEF FilterInv, TypeOK, Estimates
<1>4. Descending(estimates)
  <2>1. /\ 0 \in 0..1 /\ 1 \in 0..1 /\ 0 + 1 = 1 /\ 1 + 1 = 2
    OBVIOUS
  <2>2. /\ estimates[0].sample >= estimates[0 + 1].sample
        /\ estimates[0].time <= estimates[0 + 1].time
        /\ estimates[1].sample >= estimates[1 + 1].sample
        /\ estimates[1].time <= estimates[1 + 1].time
    BY <2>1 DEF FilterInv, EstimatesOrdered
  <2> QED BY <2>1, <2>2 DEF Descending
<1>5. \A s \in Samples : Sampled(s, round) \in Entry
  BY <1>1, SamplesAssumption DEF Sampled, Entry
<1> QED BY <1>1, <1>2, <1>3, <1>4, <1>5

\* And back: the invariant from the order of the estimates.
LEMMA ToOrdered ==
    ASSUME Descending(estimates)',
           (\A i \in 0..2, s \in Samples :
                seen[s] > estimates[i].time => s <= estimates[i].sample)'
    PROVE  EstimatesOrdered'
<1>1. \A i \in 0..1 : (i = 0 /\ i + 1 = 1) \/ (i = 1 /\ i + 1 = 2)
  OBVIOUS
<1>2. \A i \in 0..1 : /\ estimates'[i].sample >= estimates'[i + 1].sample
                      /\ estimates'[i].time <= estimates'[i + 1].time
  BY <1>1 DEF Descending
<1> QED BY <1>2 DEF EstimatesOrdered

LEMMA InitInv == Init => FilterInv
<1> SUFFICES ASSUME Init PROVE FilterInv
  OBVIOUS
<1>1. /\ estimates = [i \in 0..2 |-> [sample |-> 0, time |-> 0]]
      /\ round = 0 /\ seen = [s \in Samples |-> -1] /\ quiet = FALSE
  BY DEF Init, NoEstimates, Sampled, NothingSeen
<1>2. TypeOK
  <2>1. estimates \in [0..2 -> [sample : Samples, time : 0..round]]
    BY <1>1, SamplesAssumption
  <2>2. seen \in [Samples -> -1..round]
    BY <1>1
  <2>3. round \in 0..MaxRound
    BY <1>1, WindowAssumption
  <2>4. quiet \in BOOLEAN
    BY <1>1
  <2> QED BY <2>1, <2>2, <2>3, <2>4 DEF TypeOK
<1>3. EstimatesOrdered
  BY <1>1 DEF EstimatesOrdered
<1> QED BY <1>2, <1>3 DEF FilterInv

\* UpdatedFacts for the action: what a sample makes of the estimates.
LEMMA UpdateStep ==
    ASSUME FilterInv, NEW s \in Samples, Update(s)
    PROVE  /\ estimates' \in Estimates /\ Descending(estimates')
           /\ \A i \in 0..2 :
                 \/ estimates'[i] = Sampled(s, round)
                 \/ \E j \in 0..2 : estimates'[i] = estimates[j] /\ s < estimates[j].sample
           /\ estimates'[0].sample >= s
           /\ estimates'[0].sample <= estimates[0].sample \/ estimates'[0].sample <= s
           /\ round - estimates'[0].time <= windowLength
<1> DEFINE e == Sampled(s, round)
<1> DEFINE u == Updated(estimates, windowLength, e)
<1>1. e.sample = s /\ e.time = round
  BY DEF Sampled
<1>2. /\ estimates \in Estimates /\ Descending(estimates)
      /\ windowLength \in Nat /\ estimates[2].time <= round /\ e \in Entry
  BY FromInv
<1>3. estimates' = u
  BY DEF Update
<1> HIDE DEF e
<1>4. /\ u \in Estimates
      /\ \A i \in 0..2 :
            \/ u[i] = e
            \/ \E j \in 0..2 : u[i] = estimates[j] /\ e.sample < estimates[j].sample
      /\ Descending(u)
      /\ u[0].sample >= e.sample
      /\ u[0].sample <= estimates[0].sample \/ u[0].sample <= e.sample
      /\ e.time - u[0].time <= windowLength
  <2>1. estimates[2].time <= e.time
    BY <1>1, <1>2
  <2> QED BY <1>2, <2>1, UpdatedFacts
<1> HIDE DEF u
<1> QED BY <1>1, <1>3, <1>4 DEF e

\* A sample: what it replaces was not better, so every estimate that stays
\* covers it, and one that it replaces begins now.
LEMMA UpdateInv ==
    ASSUME FilterInv, NEW s \in Samples, Update(s)
    PROVE  FilterInv'
<1> DEFINE e == Sampled(s, round)
<1>0. e.sample = s /\ e.time = round /\ e = [sample |-> s, time |-> round]
  BY DEF Sampled
<1>1. round \in Nat
  BY FromInv
<1>2. \A i \in 0..2 : estimates[i].sample \in Nat /\ estimates[i].time \in 0..round
  BY FromInv
<1>3. seen' = [seen EXCEPT ![s] = round] /\ round' = round /\ quiet' = quiet
  BY DEF Update
<1>4. /\ estimates' \in Estimates /\ Descending(estimates')
      /\ \A i \in 0..2 :
            \/ estimates'[i] = e
            \/ \E j \in 0..2 : estimates'[i] = estimates[j] /\ s < estimates[j].sample
  BY UpdateStep
<1> HIDE DEF e
<1>5. TypeOK'
  <2>1. \A j \in 0..2 : estimates[j] \in [sample : Samples, time : 0..round]
    BY DEF FilterInv, TypeOK
  <2>2. e \in [sample : Samples, time : 0..round]
    BY <1>0, <1>1
  <2>3. \A i \in 0..2 : estimates'[i] \in [sample : Samples, time : 0..round]
    BY <1>4, <2>1, <2>2
  <2>4. estimates' \in [0..2 -> [sample : Samples, time : 0..round]]
    BY <1>4, <2>3 DEF Estimates
  <2>5. seen' \in [Samples -> -1..round]
    BY <1>1, <1>3 DEF FilterInv, TypeOK
  <2> QED BY <1>3, <2>4, <2>5 DEF FilterInv, TypeOK
<1>6. ASSUME NEW i \in 0..2, NEW t \in Samples, seen'[t] > estimates'[i].time
      PROVE  t <= estimates'[i].sample
  <2>1. seen[t] \in -1..round /\ seen'[t] = IF t = s THEN round ELSE seen[t]
    BY <1>3 DEF FilterInv, TypeOK
  <2>2. CASE estimates'[i] = e
    BY <1>0, <1>1, <1>6, <2>1, <2>2
  <2>3. ASSUME NEW j \in 0..2, estimates'[i] = estimates[j], s < estimates[j].sample
        PROVE  t <= estimates'[i].sample
    <3>1. CASE t = s
      BY <1>2, <2>3, <3>1, SamplesAssumption
    <3>2. CASE t # s
      <4>1. seen[t] > estimates[j].time
        BY <1>6, <2>1, <2>3, <3>2
      <4> QED BY <2>3, <4>1 DEF FilterInv, EstimatesOrdered
    <3> QED BY <3>1, <3>2
  <2> QED BY <1>4, <2>2, <2>3
<1>7. EstimatesOrdered'
  BY <1>4, <1>6, ToOrdered DEF Descending
<1> QED BY <1>5, <1>7 DEF FilterInv

LEMMA NextInv == FilterInv /\ [Next]_vars => FilterInv'
<1> SUFFICES ASSUME FilterInv, [Next]_vars PROVE FilterInv'
  OBVIOUS
<1>0. /\ round \in Nat
      /\ \A i \in 0..2 : estimates[i].time \in 0..round
      /\ seen \in [Samples -> -1..round]
  BY FromInv DEF FilterInv, TypeOK
<1>1. CASE RoundStart
  <2>1. estimates' = estimates /\ seen' = seen /\ round' = round + 1 /\ round < MaxRound
        /\ quiet' \in BOOLEAN
    BY <1>1 DEF RoundStart
  <2>2. TypeOK'
    <3>1. \A i \in 0..2 : estimates[i] \in [sample : Samples, time : 0..(round + 1)]
      BY <1>0 DEF FilterInv, TypeOK
    <3>2. estimates' \in [0..2 -> [sample : Samples, time : 0..(round + 1)]]
      BY <2>1, <3>1 DEF FilterInv, TypeOK
    <3>3. seen' \in [Samples -> -1..(round + 1)]
      BY <1>0, <2>1
    <3>4. round' \in 0..MaxRound
      BY <1>0, <2>1, WindowAssumption
    <3> QED BY <2>1, <3>2, <3>3, <3>4 DEF TypeOK
  <2>3. EstimatesOrdered'
    BY <2>1 DEF FilterInv, EstimatesOrdered
  <2> QED BY <2>2, <2>3 DEF FilterInv
<1>2. ASSUME NEW s \in Samples, Update(s) PROVE FilterInv'
  BY <1>2, UpdateInv
<1>3. ASSUME NEW s \in Samples, Reset(s) PROVE FilterInv'
  <2>1. /\ estimates' = [i \in 0..2 |-> [sample |-> s, time |-> round]]
        /\ seen' = [[t \in Samples |-> -1] EXCEPT ![s] = round]
        /\ round' = round /\ quiet' = FALSE
    BY <1>3 DEF Reset, ResetTo, Sampled, NothingSeen
  <2>2. TypeOK'
    <3>1. estimates' \in [0..2 -> [sample : Samples, time : 0..round]]
      BY <1>0, <2>1
    <3>2. seen' \in [Samples -> -1..round]
      BY <1>0, <2>1
    <3> QED BY <2>1, <3>1, <3>2 DEF FilterInv, TypeOK
  <2>3. EstimatesOrdered'
    BY <1>0, <2>1, SamplesAssumption DEF EstimatesOrdered
  <2> QED BY <2>2, <2>3 DEF FilterInv
<1>4. CASE Clear
  <2>1. /\ estimates' = [i \in 0..2 |-> [sample |-> 0, time |-> 0]]
        /\ seen' = [t \in Samples |-> -1] /\ round' = round /\ quiet' = FALSE
    BY <1>4 DEF Clear, NoEstimates, Sampled, NothingSeen
  <2>2. TypeOK'
    <3>1. estimates' \in [0..2 -> [sample : Samples, time : 0..round]]
      BY <1>0, <2>1, SamplesAssumption
    <3>2. seen' \in [Samples -> -1..round]
      BY <1>0, <2>1
    <3> QED BY <2>1, <3>1, <3>2 DEF FilterInv, TypeOK
  <2>3. EstimatesOrdered'
    BY <2>1 DEF EstimatesOrdered
  <2> QED BY <2>2, <2>3 DEF FilterInv
<1>5. CASE UNCHANGED vars
  BY <1>5 DEF vars, FilterInv, TypeOK, EstimatesOrdered
<1> QED BY <1>1, <1>2, <1>3, <1>4, <1>5 DEF Next

-----------------------------------------------------------------------------
\* The head of windowed_filter.go for every window and every sequence of
\* samples: the estimates are ordered by value and by time, and each is the best
\* of what came after its own round (windowed_filter.go:102-151).
THEOREM FilterOrdered == Spec => []EstimatesOrdered
<1>1. FilterInv => EstimatesOrdered
  BY DEF FilterInv
<1> QED BY <1>1, InitInv, NextInv, PTL DEF Spec

\* Right after a sample the best is one of the window (windowed_filter.go:119-135).
THEOREM BestExpires == Spec => BestIsRecent
<1>1. FilterInv /\ [Next]_vars
      => [\A s \in Samples : Update(s) => round - estimates'[0].time <= windowLength]_vars
  <2> SUFFICES ASSUME FilterInv, NEW s \in Samples, Update(s)
               PROVE  round - estimates'[0].time <= windowLength
    OBVIOUS
  <2> QED BY UpdateStep
<1> QED BY <1>1, InitInv, NextInv, PTL DEF Spec, BestIsRecent

\* The filter implements MaxFilter, which BbrSender takes in its place.
THEOREM FilterIsMaxFilter == Spec => ImplementsMaxFilter
<1>1. Init => Abstract!FInit
  BY DEF Init, NoEstimates, Sampled, GetBest, Abstract!FInit
<1>2. FilterInv /\ FilterInv' => CallsImplement
  <2> SUFFICES ASSUME FilterInv, FilterInv'
               PROVE  CallsImplement
    OBVIOUS
  <2>1. ASSUME NEW s \in Samples, Update(s) PROVE Abstract!Sample(s)
    <3>1. /\ estimates'[0].sample >= s
          /\ estimates'[0].sample <= estimates[0].sample \/ estimates'[0].sample <= s
      BY <2>1, UpdateStep
    <3>2. estimates'[0].sample \in Samples
      BY DEF FilterInv, TypeOK
    <3> QED BY <3>1, <3>2 DEF Abstract!Sample, Abstract!AfterSample, GetBest
  <2>2. ASSUME NEW s \in Samples, Reset(s) PROVE Abstract!Restart(s)
    BY <2>2 DEF Reset, ResetTo, Sampled, Abstract!Restart, GetBest
  <2>3. ASSUME Clear PROVE Abstract!Restart(0)
    BY <2>3 DEF Clear, NoEstimates, Sampled, Abstract!Restart, GetBest
  <2>4. ASSUME RoundStart PROVE UNCHANGED GetBest(estimates)
    BY <2>4 DEF RoundStart, GetBest
  <2> QED BY <2>1, <2>2, <2>3, <2>4 DEF CallsImplement
<1> QED BY <1>1, <1>2, InitInv, NextInv, PTL DEF Spec, ImplementsMaxFilter

-----------------------------------------------------------------------------
\* An estimate equals the one before it or is both worse and later.
Strict(est) ==
    /\ \/ est[0] = est[1]
       \/ est[0].sample > est[1].sample /\ est[0].time < est[1].time
    /\ \/ est[1] = est[2]
       \/ est[1].sample > est[2].sample /\ est[1].time < est[2].time

\* The sample put in the second and third place, if it beats what is there.
IsPlaced(est, e, b, c) ==
    \/ b = e /\ c = e /\ e.sample >= est[1].sample
    \/ /\ b = est[1] /\ c = e
       /\ e.sample < est[1].sample /\ e.sample >= est[2].sample
    \/ /\ b = est[1] /\ c = est[2]
       /\ e.sample < est[1].sample /\ e.sample < est[2].sample

\* The five ways an update that does not reset can end, with b and c placed:
\* the best expires alone or with the second, the second or third is renewed,
\* or nothing more happens.
IsUpdated(est, W, e, b, c, u) ==
    \/ /\ e.time - est[0].time > W /\ e.time - b.time <= W
       /\ u[0] = b /\ u[1] = c /\ u[2] = e
    \/ /\ e.time - est[0].time > W /\ e.time - b.time > W
       /\ u[0] = c /\ u[1] = e /\ u[2] = e
    \/ /\ e.time - est[0].time <= W
       /\ b.sample = est[0].sample /\ e.time - b.time > W \div 4
       /\ u[0] = est[0] /\ u[1] = e /\ u[2] = e
    \/ /\ e.time - est[0].time <= W
       /\ ~(b.sample = est[0].sample /\ e.time - b.time > W \div 4)
       /\ c.sample = b.sample /\ e.time - c.time > W \div 2
       /\ u[0] = est[0] /\ u[1] = b /\ u[2] = e
    \/ /\ e.time - est[0].time <= W
       /\ ~(b.sample = est[0].sample /\ e.time - b.time > W \div 4)
       /\ ~(c.sample = b.sample /\ e.time - c.time > W \div 2)
       /\ u[0] = est[0] /\ u[1] = b /\ u[2] = c

\* Every update that does not reset ends in one of them.
LEMMA UpdatedCases ==
    ASSUME NEW est \in Estimates, NEW e \in Entry, NEW W \in Nat, ~MustReset(est, W, e)
    PROVE  \E b, c \in Entry : IsPlaced(est, e, b, c)
                               /\ IsUpdated(est, W, e, b, c, Updated(est, W, e))
<1> DEFINE p == Placed(est, e)
           u == Updated(est, W, e)
<1>1. /\ p \in Estimates /\ p[0] = est[0]
      /\ IsPlaced(est, e, p[1], p[2])
    <2>1. p \in Estimates /\ p[0] = est[0]
        BY PlacedFacts
    <2>2. e.sample >= est[1].sample => p[1] = e /\ p[2] = e
        BY DEF Placed, Estimates
    <2>3. ~(e.sample >= est[1].sample) /\ e.sample >= est[2].sample
              => p[1] = est[1] /\ p[2] = e
        BY DEF Placed, Estimates
    <2>4. ~(e.sample >= est[1].sample) /\ ~(e.sample >= est[2].sample)
              => p[1] = est[1] /\ p[2] = est[2]
        BY DEF Placed, Estimates
    <2>5. /\ ~(e.sample >= est[1].sample) => e.sample < est[1].sample
          /\ ~(e.sample >= est[2].sample) => e.sample < est[2].sample
        BY DEF Estimates, Entry
    <2> HIDE DEF p
    <2> QED
        BY <2>1, <2>2, <2>3, <2>4, <2>5 DEF IsPlaced
<1>2. u = IF e.time - p[0].time > W THEN Promoted(p, W, e) ELSE Renewed(p, W, e)
    BY DEF Updated
<1> HIDE DEF p, u
<1>3. /\ p[1] \in Entry /\ p[2] \in Entry /\ W \div 4 \in Nat /\ W \div 2 \in Nat
      /\ \A i \in 0..2 : p[i].sample \in Nat /\ p[i].time \in Nat
      /\ e.sample \in Nat /\ e.time \in Nat
    BY <1>1 DEF Estimates, Entry
<1>4. IsUpdated(est, W, e, p[1], p[2], u)
    <2>1. CASE e.time - p[0].time > W
        <3>1. \/ /\ e.time - p[1].time > W
                 /\ u[0] = p[2] /\ u[1] = e /\ u[2] = e
              \/ /\ e.time - p[1].time <= W
                 /\ u[0] = p[1] /\ u[1] = p[2] /\ u[2] = e
            BY <1>1, <1>2, <2>1, PromotedFacts
        <3> QED
            BY <1>1, <2>1, <3>1 DEF IsUpdated
    <2>2. CASE ~(e.time - p[0].time > W)
        <3>1. u = IF p[1].sample = p[0].sample /\ e.time - p[1].time > W \div 4
                  THEN [p EXCEPT ![1] = e, ![2] = e]
                  ELSE IF p[2].sample = p[1].sample /\ e.time - p[2].time > W \div 2
                  THEN [p EXCEPT ![2] = e]
                  ELSE p
            BY <1>2, <2>2 DEF Renewed
        <3>2. e.time - est[0].time <= W
            BY <1>1, <1>3, <2>2
        <3>3. CASE p[1].sample = p[0].sample /\ e.time - p[1].time > W \div 4
            <4>1. u[0] = p[0] /\ u[1] = e /\ u[2] = e
                BY <1>1, <3>1, <3>3 DEF Estimates
            <4> QED
                BY <1>1, <3>2, <3>3, <4>1 DEF IsUpdated
        <3>4. CASE /\ ~(p[1].sample = p[0].sample /\ e.time - p[1].time > W \div 4)
                   /\ p[2].sample = p[1].sample /\ e.time - p[2].time > W \div 2
            <4>1. u[0] = p[0] /\ u[1] = p[1] /\ u[2] = e
                BY <1>1, <3>1, <3>4 DEF Estimates
            <4> QED
                BY <1>1, <3>2, <3>4, <4>1 DEF IsUpdated
        <3>5. CASE /\ ~(p[1].sample = p[0].sample /\ e.time - p[1].time > W \div 4)
                   /\ ~(p[2].sample = p[1].sample /\ e.time - p[2].time > W \div 2)
            <4>1. u = p
                BY <3>1, <3>5
            <4> QED
                BY <1>1, <3>2, <3>5, <4>1 DEF IsUpdated
        <3> QED
            BY <3>3, <3>4, <3>5
    <2> QED
        BY <2>1, <2>2
<1> QED
    BY <1>1, <1>3, <1>4 DEF u

\* An update keeps the estimates strict: an estimate that expires or is renewed
\* is older than the sample that takes its place.
LEMMA StrictStep ==
    ASSUME NEW est \in Estimates, NEW e \in Entry, NEW W \in Nat,
           Descending(est), Strict(est), est[2].time <= e.time,
           e.time - est[0].time > W => est[2].time < e.time,
           NEW b \in Entry, NEW c \in Entry, NEW u \in Estimates,
           e.sample < est[0].sample,
           IsPlaced(est, e, b, c), IsUpdated(est, W, e, b, c, u)
    PROVE  Strict(u)
<1>1. /\ e.sample \in Nat /\ e.time \in Nat /\ W \div 4 \in Nat /\ W \div 2 \in Nat
      /\ est[0].sample \in Nat /\ est[0].time \in Nat
      /\ est[1].sample \in Nat /\ est[1].time \in Nat
      /\ est[2].sample \in Nat /\ est[2].time \in Nat
    BY DEF Estimates, Entry
<1>2. /\ est[0].time <= est[1].time /\ est[1].time <= est[2].time
    BY DEF Descending
<1>3. /\ b = c \/ (b.sample > c.sample /\ b.time < c.time)
      /\ est[0] = b \/ (est[0].sample > b.sample /\ est[0].time < b.time)
    <2>1. CASE b = e /\ c = e /\ e.sample >= est[1].sample
        <3>1. est[0].sample # est[1].sample
            BY <1>1, <2>1
        <3>2. est[0].time < est[1].time
            BY <3>1 DEF Strict
        <3> QED
            BY <1>1, <1>2, <2>1, <3>2
    <2>2. CASE /\ b = est[1] /\ c = e
               /\ e.sample < est[1].sample /\ e.sample >= est[2].sample
        <3>1. est[1].sample # est[2].sample
            BY <1>1, <2>2
        <3>2. est[1].time < est[2].time
            BY <3>1 DEF Strict
        <3> QED
            BY <1>1, <1>2, <2>2, <3>2 DEF Strict
    <2>3. CASE b = est[1] /\ c = est[2]
        BY <2>3 DEF Strict
    <2> QED
        BY <2>1, <2>2, <2>3 DEF IsPlaced
<1>4. \/ c = e
      \/ c = est[2] /\ b = est[1] /\ e.sample < c.sample /\ e.sample < b.sample
    BY DEF IsPlaced
<1>5. e.time - est[0].time > W =>
          c = e \/ (c.sample > e.sample /\ c.time < e.time)
    BY <1>1, <1>4
<1>6. \/ u[0] = b /\ u[1] = c /\ u[2] = e /\ e.time - est[0].time > W
      \/ u[0] = c /\ u[1] = e /\ u[2] = e /\ e.time - est[0].time > W
      \/ u[0] = est[0] /\ u[1] = e /\ u[2] = e /\ e.time - b.time > W \div 4
      \/ u[0] = est[0] /\ u[1] = b /\ u[2] = e /\ e.time - c.time > W \div 2
      \/ u[0] = est[0] /\ u[1] = b /\ u[2] = c
    BY DEF IsUpdated
<1>7. b.time \in Nat /\ c.time \in Nat /\ b.sample \in Nat /\ c.sample \in Nat
    BY DEF Entry
<1>8. CASE u[0] = b /\ u[1] = c /\ u[2] = e /\ e.time - est[0].time > W
    BY <1>3, <1>5, <1>8 DEF Strict
<1>9. CASE u[0] = c /\ u[1] = e /\ u[2] = e /\ e.time - est[0].time > W
    BY <1>5, <1>9 DEF Strict
<1>10. CASE u[0] = est[0] /\ u[1] = e /\ u[2] = e /\ e.time - b.time > W \div 4
    <2>1. b.time < e.time /\ est[0].time <= b.time
        BY <1>1, <1>3, <1>7, <1>10
    <2> QED
        BY <1>1, <1>7, <1>10, <2>1 DEF Strict
<1>11. CASE u[0] = est[0] /\ u[1] = b /\ u[2] = e /\ e.time - c.time > W \div 2
    <2>1. c.time < e.time
        BY <1>1, <1>7, <1>11
    <2>2. c = est[2] /\ b = est[1] /\ e.sample < b.sample
        BY <1>1, <1>4, <2>1
    <2>3. b.time < e.time
        BY <1>1, <1>2, <2>1, <2>2
    <2> QED
        BY <1>3, <1>11, <2>2, <2>3 DEF Strict
<1>12. CASE u[0] = est[0] /\ u[1] = b /\ u[2] = c
    BY <1>3, <1>12 DEF Strict
<1> QED
    BY <1>6, <1>8, <1>9, <1>10, <1>11, <1>12

-----------------------------------------------------------------------------
\* v is at least every sample seen in round k or later.
Covers(sn, v, k) == \A t \in Samples : sn[t] >= 0 /\ sn[t] >= k => t <= v

\* When s is seen in round r, the last: a value that was at least those samples
\* still is if it is at least s; nothing is seen later; and s alone is seen in r
\* if it is the first of the round.
LEMMA CoversFacts ==
    ASSUME NEW r \in Nat, NEW sn \in [Samples -> Int], NEW s \in Samples,
           \A t \in Samples : sn[t] <= r
    PROVE  LET sn2 == [sn EXCEPT ![s] = r]
           IN  /\ \A v, w \in Nat, j, k \in Int :
                     Covers(sn, v, j) /\ j <= k /\ v <= w /\ s <= w => Covers(sn2, w, k)
               /\ \A v \in Nat, k \in Int : r < k => Covers(sn2, v, k)
               /\ (\A t \in Samples : sn[t] # r)
                     => \A v \in Nat, k \in Int : r <= k /\ s <= v => Covers(sn2, v, k)
<1> USE SamplesAssumption
<1> DEFINE sn2 == [sn EXCEPT ![s] = r]
<1>1. \A t \in Samples : sn2[t] = IF t = s THEN r ELSE sn[t]
    OBVIOUS
<1> HIDE DEF sn2
<1>2. ASSUME NEW v \in Nat, NEW w \in Nat, NEW j \in Int, NEW k \in Int,
             Covers(sn, v, j), j <= k, v <= w, s <= w
      PROVE  Covers(sn2, w, k)
    BY <1>1, <1>2 DEF Covers
<1>3. ASSUME NEW v \in Nat, NEW k \in Int, r < k
      PROVE  Covers(sn2, v, k)
    BY <1>1, <1>3 DEF Covers
<1>4. ASSUME NEW v \in Nat, NEW k \in Int, \A t \in Samples : sn[t] # r, r <= k, s <= v
      PROVE  Covers(sn2, v, k)
    BY <1>1, <1>4 DEF Covers
<1> QED
    BY <1>2, <1>3, <1>4 DEF sn2

\* What the estimates cover when round L gave the last sample: the best the last
\* rounds, the second what will be the last rounds when the best expires, the
\* third when the second expires.  An estimate that repeats the one before it is
\* not old.
Tight(est, sn, L) ==
    /\ L - est[0].time <= windowLength
    /\ Covers(sn, est[0].sample, L - CoveredRounds + 1)
    /\ Covers(sn, est[1].sample, est[0].time + windowLength + 2 - CoveredRounds)
    /\ Covers(sn, est[2].sample, est[1].time + windowLength + 2 - CoveredRounds)
    /\ est[1].sample = est[2].sample => L - est[2].time <= windowLength \div 2
    /\ est[0].sample = est[1].sample => L - est[1].time <= windowLength \div 2 + 1

\* The numbers of rounds in it.
LEMMA RoundNumbers ==
    /\ windowLength \in Nat /\ CoveredRounds \in Nat
    /\ windowLength \div 2 \in Nat /\ windowLength \div 4 \in Nat
    /\ windowLength \div 4 <= windowLength \div 2
    /\ 2 * (windowLength \div 2) <= windowLength
    /\ CoveredRounds <= windowLength \div 2 /\ CoveredRounds <= 3
    /\ windowLength <= windowLength \div 2 + 1 => CoveredRounds <= 1
    /\ windowLength <= windowLength \div 2 => CoveredRounds = 0
BY WindowAssumption DEF CoveredRounds

\* What a sample of round r does to tight estimates, when the last sample before
\* it was of the same round or of the round before.
LEMMA TightStep ==
    ASSUME NEW est \in Estimates, NEW sn \in [Samples -> Int],
           NEW r \in Nat, NEW s \in Samples, NEW L \in Int,
           Descending(est), Strict(est), est[2].time <= r,
           \A t \in Samples : sn[t] <= r,
           \/ L = r
           \/ L = r - 1 /\ \A t \in Samples : sn[t] # r,
           Tight(est, sn, L)
    PROVE  Tight(Updated(est, windowLength, Sampled(s, r)), [sn EXCEPT ![s] = r], r)
<1> DEFINE W   == windowLength
           H   == CoveredRounds
           h   == windowLength \div 2
           g   == windowLength \div 4
           e   == Sampled(s, r)
           u   == Updated(est, W, e)
           sn2 == [sn EXCEPT ![s] = r]
           a_s == est[0].sample    a_t == est[0].time
           b_s == est[1].sample    b_t == est[1].time
           c_s == est[2].sample    c_t == est[2].time
<1>1. /\ W \in Nat /\ H \in Nat /\ h \in Nat /\ g \in Nat /\ g <= h /\ 2 * h <= W
      /\ H <= h /\ H <= 3 /\ (W <= h + 1 => H <= 1) /\ (W <= h => H = 0)
    BY RoundNumbers
<1>2. /\ a_s \in Nat /\ a_t \in Nat /\ b_s \in Nat /\ b_t \in Nat
      /\ c_s \in Nat /\ c_t \in Nat /\ s \in Nat
    BY SamplesAssumption DEF Estimates, Entry
<1>3. e \in Entry /\ e.sample = s /\ e.time = r
    BY <1>2 DEF Entry, Sampled
<1>4. a_s >= b_s /\ b_s >= c_s /\ a_t <= b_t /\ b_t <= c_t /\ c_t <= r
    BY DEF Descending
<1>5. /\ (a_s = b_s /\ a_t = b_t) \/ (a_s > b_s /\ a_t < b_t)
      /\ (b_s = c_s /\ b_t = c_t) \/ (b_s > c_s /\ b_t < c_t)
    BY DEF Strict
<1>6. /\ L - a_t <= W
      /\ Covers(sn, a_s, L - H + 1)
      /\ Covers(sn, b_s, a_t + W + 2 - H)
      /\ Covers(sn, c_s, b_t + W + 2 - H)
      /\ b_s = c_s => L - c_t <= h
      /\ a_s = b_s => L - b_t <= h + 1
    BY DEF Tight
<1>7. /\ \A v, w \in Nat, j, k \in Int :
             Covers(sn, v, j) /\ j <= k /\ v <= w /\ s <= w => Covers(sn2, w, k)
      /\ \A v \in Nat, k \in Int : r < k => Covers(sn2, v, k)
      /\ (\A t \in Samples : sn[t] # r)
             => \A v \in Nat, k \in Int : r <= k /\ s <= v => Covers(sn2, v, k)
    BY CoversFacts
<1>8. L = r \/ (L = r - 1 /\ \A v \in Nat, k \in Int : r <= k /\ s <= v => Covers(sn2, v, k))
    BY <1>7
<1>9. e \in Entry /\ est \in Estimates /\ W \in Nat
    BY <1>1, <1>3
<1> SUFFICES /\ r - u[0].time <= W
             /\ Covers(sn2, u[0].sample, r - H + 1)
             /\ Covers(sn2, u[1].sample, u[0].time + W + 2 - H)
             /\ Covers(sn2, u[2].sample, u[1].time + W + 2 - H)
             /\ u[1].sample = u[2].sample => r - u[2].time <= h
             /\ u[0].sample = u[1].sample => r - u[1].time <= h + 1
    BY DEF Tight
<1>10. CASE MustReset(est, W, e)
    <2>1. u[0] = e /\ u[1] = e /\ u[2] = e
        BY <1>10 DEF Updated, ResetTo
    <2>2. a_s = 0 \/ s >= a_s \/ r - c_t > W
        BY <1>3, <1>10 DEF MustReset
    <2> HIDE DEF e, u, W, H, h, g, sn2, a_s, b_s, c_s, a_t, b_t, c_t
    <2>3. Covers(sn2, s, r - H + 1)
        <3>1. CASE s >= a_s
            BY <1>1, <1>2, <1>6, <1>7, <1>8, <3>1
        <3>2. CASE s < a_s
            <4>1. r - c_t > W
                BY <1>2, <2>2, <3>2
            <4>2. a_t = c_t /\ L = r - 1 /\ L - c_t = W
                BY <1>1, <1>2, <1>4, <1>6, <1>8, <4>1
            <4>3. b_s = c_s
                BY <1>2, <1>4, <1>5, <4>2
            <4>4. H = 0
                BY <1>1, <1>6, <4>2, <4>3
            <4> QED
                BY <1>2, <1>7, <4>4
        <3> QED
            BY <1>2, <3>1, <3>2
    <2>4. Covers(sn2, s, r + W + 2 - H)
        BY <1>1, <1>2, <1>7
    <2> QED
        BY <1>1, <1>3, <2>1, <2>3, <2>4
<1>11. CASE ~MustReset(est, W, e)
    <2>1. s < a_s /\ r - c_t <= W
        BY <1>1, <1>2, <1>3, <1>11 DEF MustReset
    <2>2. PICK b, c \in Entry : IsPlaced(est, e, b, c) /\ IsUpdated(est, W, e, b, c, u)
        BY <1>9, <1>11, UpdatedCases
    <2> DEFINE p_s == b.sample    p_t == b.time
               q_s == c.sample    q_t == c.time
    <2>3. p_s \in Nat /\ p_t \in Nat /\ q_s \in Nat /\ q_t \in Nat
        BY DEF Entry
    <2>4. \/ p_s = s /\ p_t = r /\ q_s = s /\ q_t = r /\ s >= b_s
          \/ /\ p_s = b_s /\ p_t = b_t /\ q_s = s /\ q_t = r
             /\ s < b_s /\ s >= c_s
          \/ /\ p_s = b_s /\ p_t = b_t /\ q_s = c_s /\ q_t = c_t
             /\ s < b_s /\ s < c_s
        BY <1>3, <2>2 DEF IsPlaced
    <2> HIDE DEF sn2
    <2>5. Covers(sn2, p_s, a_t + W + 2 - H)
        <3>1. s <= p_s /\ b_s <= p_s
            BY <1>2, <2>3, <2>4
        <3>2. a_t + W + 2 - H \in Int /\ a_t + W + 2 - H <= a_t + W + 2 - H
            BY <1>1, <1>2
        <3>3. Covers(sn, b_s, a_t + W + 2 - H)
            BY <1>6
        <3> HIDE DEF p_s, a_t, b_s, W, H
        <3> QED
            BY <1>2, <1>7, <2>3, <3>1, <3>2, <3>3
    <2>6. Covers(sn2, q_s, p_t + W + 2 - H)
        BY SMTT(30), <1>1, <1>2, <1>6, <1>7, <2>3, <2>4
    <2>7. Covers(sn2, a_s, r - H + 1)
        BY SMTT(30), <1>1, <1>2, <1>6, <1>7, <1>8, <2>1
    <2>8. r - a_t > W => /\ L = r - 1 /\ a_t = r - 1 - W
                         /\ Covers(sn2, s, q_t + W + 2 - H)
        <3> SUFFICES ASSUME r - a_t > W
                     PROVE  /\ L = r - 1 /\ a_t = r - 1 - W
                            /\ Covers(sn2, s, q_t + W + 2 - H)
            OBVIOUS
        <3>1. L = r - 1 /\ a_t = r - 1 - W
            BY <1>1, <1>2, <1>6, <1>8
        <3>2. c_t >= a_t + H - 1
            <4>1. CASE b_s = c_s
                BY <1>1, <1>2, <1>6, <3>1, <4>1
            <4>2. CASE b_s # c_s /\ a_s = b_s
                BY <1>1, <1>2, <1>4, <1>5, <1>6, <3>1, <4>2
            <4>3. CASE b_s # c_s /\ a_s # b_s
                BY <1>1, <1>2, <1>5, <4>3
            <4> QED
                BY <4>1, <4>2, <4>3
        <3>3. r <= q_t + W + 2 - H
            BY <1>1, <1>2, <2>3, <2>4, <3>1, <3>2
        <3> QED
            BY <1>1, <1>2, <1>8, <2>3, <3>1, <3>3
    <2>9. \A v \in Nat : Covers(sn2, v, r + W + 2 - H)
        BY <1>1, <1>7
    <2> HIDE DEF p_s, p_t, q_s, q_t
    <2>10. CASE /\ e.time - est[0].time > W /\ e.time - b.time <= W
                /\ u[0] = b /\ u[1] = c /\ u[2] = e
        <3>1. Covers(sn2, p_s, r - H + 1)
            BY <1>1, <1>2, <1>3, <2>5, <2>8, <2>10
        <3>2. q_s = s => q_t = r
            BY <1>2, <2>3, <2>4
        <3>3. p_s = q_s => r - q_t <= h + 1
            BY <1>1, <1>2, <1>3, <1>6, <2>3, <2>4, <2>8, <2>10
        <3> QED
            BY <1>1, <1>2, <1>3, <2>3, <2>6, <2>8, <2>10, <3>1, <3>2, <3>3
               DEF p_s, p_t, q_s, q_t
    <2>11. CASE /\ e.time - est[0].time > W /\ e.time - b.time > W
                /\ u[0] = c /\ u[1] = e /\ u[2] = e
        <3>1. p_t = b_t /\ b_t = a_t
            BY <1>1, <1>2, <1>3, <1>4, <2>3, <2>4, <2>8, <2>11 DEF p_t
        <3>2. Covers(sn2, q_s, r - H + 1)
            BY <1>1, <1>2, <1>3, <2>6, <2>8, <2>11, <3>1
        <3>3. r - q_t <= W
            BY <1>1, <1>2, <2>1, <2>3, <2>4
        <3> QED
            BY <1>1, <1>2, <1>3, <2>3, <2>8, <2>9, <2>11, <3>2, <3>3
               DEF p_s, p_t, q_s, q_t
    <2>12. CASE /\ e.time - est[0].time <= W
                /\ b.sample = est[0].sample /\ e.time - b.time > W \div 4
                /\ u[0] = est[0] /\ u[1] = e /\ u[2] = e
        <3>1. a_s = b_s /\ a_t = b_t
            BY <1>2, <1>5, <2>1, <2>3, <2>4, <2>12 DEF p_s
        <3>2. Covers(sn2, s, a_t + W + 2 - H)
            <4>1. a_t + W + 2 - H \in Int /\ s <= s
                BY <1>1, <1>2
            <4>2. L = r => r < a_t + W + 2 - H
                BY <1>1, <1>2, <1>6, <3>1
            <4>3. L = r - 1 => r <= a_t + W + 2 - H
                BY <1>1, <1>2, <1>6, <3>1
            <4> HIDE DEF a_t, W, H
            <4> QED
                BY <1>2, <1>7, <1>8, <4>1, <4>2, <4>3
        <3> QED
            BY <1>1, <1>2, <1>3, <2>1, <2>7, <2>9, <2>12, <3>2
    <2>13. CASE /\ e.time - est[0].time <= W
                /\ ~(b.sample = est[0].sample /\ e.time - b.time > W \div 4)
                /\ c.sample = b.sample /\ e.time - c.time > W \div 2
                /\ u[0] = est[0] /\ u[1] = b /\ u[2] = e
        <3>1. q_t < r /\ p_s = b_s /\ p_t = b_t /\ q_s = c_s /\ q_t = c_t /\ s < b_s
            BY <1>1, <1>2, <1>3, <2>3, <2>4, <2>13 DEF q_t
        <3>2. b_s = c_s /\ b_t = c_t
            BY <1>2, <1>5, <2>13, <3>1 DEF p_s, q_s
        <3>3. L = r - 1 /\ r = b_t + h + 1
            BY <1>1, <1>2, <1>3, <1>6, <1>8, <2>13, <3>1, <3>2 DEF q_t
        <3>4. Covers(sn2, s, p_t + W + 2 - H)
            BY <1>1, <1>2, <1>8, <3>1, <3>3
        <3>5. p_s # s
            BY <1>2, <2>3, <3>1
        <3>6. r - p_t <= h + 1
            BY <1>1, <1>2, <2>3, <3>1, <3>3
        <3> QED
            BY <1>1, <1>2, <1>3, <2>3, <2>5, <2>7, <2>13, <3>4, <3>5, <3>6 DEF p_s, p_t
    <2>14. CASE /\ e.time - est[0].time <= W
                /\ ~(b.sample = est[0].sample /\ e.time - b.time > W \div 4)
                /\ ~(c.sample = b.sample /\ e.time - c.time > W \div 2)
                /\ u[0] = est[0] /\ u[1] = b /\ u[2] = c
        <3>1. a_s = p_s => r - p_t <= h + 1
            BY <1>1, <1>2, <1>3, <2>3, <2>14 DEF p_s, p_t
        <3>2. p_s = q_s => r - q_t <= h
            BY <1>1, <1>2, <1>3, <2>3, <2>14 DEF p_s, q_s, q_t
        <3> QED
            BY <1>1, <1>2, <1>3, <2>3, <2>5, <2>6, <2>7, <2>14, <3>1, <3>2
               DEF p_s, p_t, q_s, q_t
    <2> QED
        BY <2>2, <2>10, <2>11, <2>12, <2>13, <2>14 DEF IsUpdated
<1> QED
    BY <1>10, <1>11

-----------------------------------------------------------------------------
\* The current round has given a sample; any round has; the last round that has
\* or, when it gave none, the one before it.
Fresh == \E s \in Samples : seen[s] = round
Started == \E s \in Samples : seen[s] # -1
LastRound == IF Fresh THEN round ELSE round - 1

\* The best in the current round: once this has given a sample the best is of
\* the window and covers the round, and before that no estimate is of this round.
NowCovered ==
    /\ Fresh => /\ round - estimates[0].time <= windowLength
                /\ Covers(seen, estimates[0].sample, round)
    /\ estimates[2].time = round => Fresh \/ estimates[0].sample = 0
    /\ ~Started => estimates[0].sample = 0

\* The invariant behind RecentCovered.  That the best covers the last rounds says
\* nothing of the time when it expires: Tight says it of the estimates that will
\* take its place, and Strict that no two of them are of one round.
RecentInv ==
    /\ FilterInv
    /\ Strict(estimates)
    /\ NowCovered
    /\ ~quiet /\ Started => Tight(estimates, seen, LastRound)

\* The invariant is what the filter is for.
LEMMA RecentIsCovered == RecentInv => RecentCovered
<1> SUFFICES ASSUME RecentInv, NEW s \in Samples,
                    \/ seen[s] = round
                    \/ ~quiet /\ seen[s] # -1 /\ round - seen[s] < CoveredRounds
             PROVE  s <= GetBest(estimates)
    BY DEF RecentCovered
<1>1. round \in Nat /\ seen[s] \in -1..round /\ s \in Nat /\ CoveredRounds \in Nat
    BY FromInv, SamplesAssumption, RoundNumbers DEF RecentInv, FilterInv, TypeOK
<1>2. CASE seen[s] = round
    <2>1. Covers(seen, estimates[0].sample, round)
        BY <1>2 DEF RecentInv, NowCovered, Fresh
    <2> QED
        BY <1>1, <1>2, <2>1 DEF Covers, GetBest
<1>3. CASE ~quiet /\ seen[s] # -1 /\ round - seen[s] < CoveredRounds
    <2>1. Covers(seen, estimates[0].sample, LastRound - CoveredRounds + 1)
        BY <1>3 DEF RecentInv, Started, Tight
    <2>2. LastRound = round \/ LastRound = round - 1
        BY DEF LastRound
    <2>3. seen[s] >= 0 /\ seen[s] >= LastRound - CoveredRounds + 1
        BY <1>1, <1>3, <2>2
    <2> QED
        BY <2>1, <2>3 DEF Covers, GetBest
<1> QED
    BY <1>2, <1>3

LEMMA RecentInit == Init => RecentInv
<1> SUFFICES ASSUME Init PROVE RecentInv
    OBVIOUS
<1>1. FilterInv
    BY InitInv
<1>2. /\ estimates = [i \in 0..2 |-> [sample |-> 0, time |-> 0]]
      /\ round = 0 /\ seen = [s \in Samples |-> -1]
    BY DEF Init, NoEstimates, Sampled, NothingSeen
<1>3. ~Fresh /\ ~Started
    BY <1>2 DEF Fresh, Started
<1> QED
    BY <1>1, <1>2, <1>3 DEF RecentInv, Strict, NowCovered

\* A sample that does not find the estimates old leaves no smaller best, in a
\* round that has given one before.
LEMMA BestGrowsInRound ==
    ASSUME RecentInv, Fresh, NEW s \in Samples, Update(s)
    PROVE  estimates'[0].sample >= estimates[0].sample
<1> DEFINE e == Sampled(s, round)
           W == windowLength
<1>1. /\ estimates \in Estimates /\ Descending(estimates)
      /\ round \in Nat /\ W \in Nat /\ e \in Entry /\ s \in Nat
      /\ estimates[2].time <= round
    BY FromInv, SamplesAssumption DEF RecentInv
<1>2. /\ estimates[0].sample \in Nat /\ estimates[0].time \in Nat
      /\ estimates[1].time \in Nat /\ estimates[2].time \in Nat
    BY <1>1 DEF Estimates, Entry
<1>3. e.sample = s /\ e.time = round
    BY DEF Sampled
<1>4. round - estimates[0].time <= W
    BY DEF RecentInv, NowCovered
<1>5. estimates[0].time <= estimates[1].time /\ estimates[1].time <= estimates[2].time
    BY <1>1 DEF Descending
<1>6. estimates' = Updated(estimates, W, e)
    BY DEF Update
<1> HIDE DEF e, W
<1>7. CASE MustReset(estimates, W, e)
    <2>1. estimates'[0] = e
        BY <1>6, <1>7 DEF Updated, ResetTo
    <2>2. estimates[0].sample = 0 \/ s >= estimates[0].sample \/ round - estimates[2].time > W
        BY <1>3, <1>7 DEF MustReset
    <2>3. ~(round - estimates[2].time > W)
        BY <1>1, <1>2, <1>4, <1>5
    <2> QED
        BY <1>1, <1>2, <1>3, <2>1, <2>2, <2>3
<1>8. CASE ~MustReset(estimates, W, e)
    <2>1. PICK b, c \in Entry : IsUpdated(estimates, W, e, b, c, estimates')
        BY <1>1, <1>6, <1>8, UpdatedCases
    <2>2. ~(e.time - estimates[0].time > W)
        BY <1>1, <1>2, <1>3, <1>4
    <2>3. estimates'[0] = estimates[0]
        BY <2>1, <2>2 DEF IsUpdated
    <2> QED
        BY <1>2, <2>3
<1> QED
    BY <1>7, <1>8

\* A sample keeps the estimates strict: the best expires in a round that has
\* given no sample yet, so the third estimate is older than the round.
LEMMA UpdateStrict ==
    ASSUME RecentInv, NEW s \in Samples, Update(s)
    PROVE  Strict(estimates')
<1> DEFINE e == Sampled(s, round)
           W == windowLength
<1>1. /\ estimates \in Estimates /\ Descending(estimates)
      /\ round \in Nat /\ W \in Nat /\ e \in Entry /\ s \in Nat
      /\ estimates[2].time <= round
    BY FromInv, SamplesAssumption DEF RecentInv
<1>2. /\ estimates[0].sample \in Nat /\ estimates[0].time \in Nat
      /\ estimates[2].time \in Nat
    BY <1>1 DEF Estimates, Entry
<1>3. e.sample = s /\ e.time = round
    BY DEF Sampled
<1>4. estimates' = Updated(estimates, W, e)
    BY DEF Update
<1>5. estimates' \in Estimates
    BY UpdateStep DEF RecentInv
<1>6. Strict(estimates)
    BY DEF RecentInv
<1>7. round - estimates[0].time > W /\ estimates[0].sample # 0 => estimates[2].time # round
    <2>1. Fresh => round - estimates[0].time <= W
        BY DEF RecentInv, NowCovered
    <2>2. estimates[2].time = round => Fresh \/ estimates[0].sample = 0
        BY DEF RecentInv, NowCovered
    <2>3. round - estimates[0].time <= W => ~(round - estimates[0].time > W)
        BY <1>1, <1>2
    <2> QED
        BY <2>1, <2>2, <2>3
<1> HIDE DEF e, W
<1>8. CASE MustReset(estimates, W, e)
    <2>1. estimates'[0] = e /\ estimates'[1] = e /\ estimates'[2] = e
        BY <1>4, <1>8 DEF Updated, ResetTo
    <2> QED
        BY <2>1 DEF Strict
<1>9. CASE ~MustReset(estimates, W, e)
    <2>1. PICK b, c \in Entry : /\ IsPlaced(estimates, e, b, c)
                                /\ IsUpdated(estimates, W, e, b, c, estimates')
        BY <1>1, <1>4, <1>9, UpdatedCases
    <2>2. e.sample < estimates[0].sample /\ estimates[0].sample # 0
        BY <1>1, <1>2, <1>3, <1>9 DEF MustReset
    <2>3. e.time - estimates[0].time > W => estimates[2].time < e.time
        BY <1>1, <1>2, <1>3, <1>7, <2>2
    <2>4. estimates[2].time <= e.time
        BY <1>1, <1>3
    <2> QED
        BY <1>1, <1>5, <1>6, <2>1, <2>2, <2>3, <2>4, StrictStep
<1> QED
    BY <1>8, <1>9

\* After a sample the best covers the round.
LEMMA UpdateNow ==
    ASSUME RecentInv, NEW s \in Samples, Update(s)
    PROVE  NowCovered' /\ Fresh' /\ Started'
<1>1. /\ round \in Nat /\ seen \in [Samples -> -1..round] /\ s \in Nat
      /\ \A t \in Samples : t \in Nat
    BY FromInv, SamplesAssumption DEF RecentInv, FilterInv, TypeOK
<1>2. seen' = [seen EXCEPT ![s] = round] /\ round' = round
    BY DEF Update
<1>3. seen'[s] = round
    BY <1>1, <1>2
<1>4. Fresh' /\ Started'
    BY <1>1, <1>2, <1>3 DEF Fresh, Started
<1>5. /\ estimates' \in Estimates /\ estimates'[0].sample >= s
      /\ round - estimates'[0].time <= windowLength
    BY UpdateStep DEF RecentInv
<1>6. estimates'[0].sample \in Nat
    BY <1>5 DEF Estimates, Entry
<1>7. ASSUME NEW t \in Samples, seen'[t] >= 0, seen'[t] >= round
      PROVE  t <= estimates'[0].sample
    <2>1. CASE t = s
        BY <1>1, <1>5, <1>6, <2>1
    <2>2. CASE t # s
        <3>1. seen[t] = seen'[t] /\ seen[t] \in -1..round
            BY <1>1, <1>2, <2>2
        <3>2. seen[t] = round
            BY <1>1, <1>7, <3>1
        <3>3. Fresh
            BY <3>2 DEF Fresh
        <3>4. t <= estimates[0].sample
            BY <1>1, <3>2, <3>3 DEF RecentInv, NowCovered, Covers
        <3>5. estimates'[0].sample >= estimates[0].sample
            BY <3>3, BestGrowsInRound
        <3>6. estimates[0].sample \in Nat
            BY FromInv DEF RecentInv
        <3> QED
            BY <1>1, <1>6, <3>4, <3>5, <3>6
    <2> QED
        BY <2>1, <2>2
<1>8. Covers(seen', estimates'[0].sample, round')
    BY <1>2, <1>7 DEF Covers
<1>9. round' - estimates'[0].time <= windowLength
    BY <1>2, <1>5
<1> QED
    BY <1>4, <1>8, <1>9 DEF NowCovered

\* After a sample that no quiet round preceded the estimates are tight.
LEMMA UpdateTight ==
    ASSUME RecentInv, NEW s \in Samples, Update(s), ~quiet
    PROVE  Tight(estimates', seen', round)
<1> DEFINE e == Sampled(s, round)
           W == windowLength
<1>1. /\ estimates \in Estimates /\ Descending(estimates)
      /\ round \in Nat /\ W \in Nat /\ e \in Entry /\ s \in Nat
      /\ estimates[2].time <= round
      /\ seen \in [Samples -> Int] /\ \A t \in Samples : seen[t] <= round
    <2>1. seen \in [Samples -> -1..round]
        BY DEF RecentInv, FilterInv, TypeOK
    <2>2. round \in Nat
        BY FromInv DEF RecentInv
    <2>3. seen \in [Samples -> Int] /\ \A t \in Samples : seen[t] <= round
        BY <2>1, <2>2
    <2> QED
        BY <2>2, <2>3, FromInv, SamplesAssumption DEF RecentInv
<1>2. estimates' = Updated(estimates, W, e) /\ seen' = [seen EXCEPT ![s] = round]
    BY DEF Update
<1>3. CASE Started
    <2>1. Tight(estimates, seen, LastRound) /\ Strict(estimates)
        BY <1>3 DEF RecentInv
    <2>2. LastRound \in Int
        BY <1>1 DEF LastRound
    <2>3. \/ LastRound = round
          \/ LastRound = round - 1 /\ \A t \in Samples : seen[t] # round
        BY DEF LastRound, Fresh
    <2> QED
        BY <1>1, <1>2, <2>1, <2>2, <2>3, TightStep
<1>4. CASE ~Started
    <2>1. estimates[0].sample = 0
        BY <1>4 DEF RecentInv, NowCovered
    <2>2. estimates'[0] = e /\ estimates'[1] = e /\ estimates'[2] = e
        BY <1>2, <2>1 DEF Updated, MustReset, ResetTo
    <2>3. e.sample = s /\ e.time = round
        BY DEF Sampled
    <2>4. \A k : Covers(seen', s, k)
        BY <1>1, <1>2, <1>4 DEF Started, Covers
    <2>5. /\ round - round <= W /\ round - round <= W \div 2
          /\ round - round <= W \div 2 + 1
        BY <1>1
    <2> HIDE DEF e
    <2> QED
        BY <2>2, <2>3, <2>4, <2>5 DEF Tight
<1> QED
    BY <1>3, <1>4

LEMMA RecentNext == RecentInv /\ [Next]_vars => RecentInv'
<1> SUFFICES ASSUME RecentInv, [Next]_vars PROVE RecentInv'
    OBVIOUS
<1>1. FilterInv'
    BY NextInv DEF RecentInv
<1>2. /\ round \in Nat /\ seen \in [Samples -> -1..round] /\ quiet \in BOOLEAN
      /\ estimates[2].time \in 0..round
      /\ \A t \in Samples : t \in Nat
    BY FromInv, SamplesAssumption DEF RecentInv, FilterInv, TypeOK
<1>3. CASE RoundStart
    <2>1. /\ estimates' = estimates /\ seen' = seen /\ round' = round + 1
          /\ quiet' = (quiet \/ \A s \in Samples : seen[s] # round)
        BY <1>3 DEF RoundStart
    <2>2. ~Fresh'
        BY <1>2, <2>1 DEF Fresh
    <2>3. estimates'[2].time # round'
        BY <1>2, <2>1
    <2>4. Started' <=> Started
        BY <2>1 DEF Started
    <2>5. NowCovered'
        BY <2>1, <2>2, <2>3, <2>4 DEF RecentInv, NowCovered
    <2>6. ASSUME ~quiet', Started' PROVE Tight(estimates', seen', LastRound')
        <3>1. ~quiet /\ Fresh
            BY <2>1, <2>6 DEF Fresh
        <3>2. LastRound = round
            BY <3>1 DEF LastRound
        <3>3. LastRound' = round' - 1
            BY <2>2 DEF LastRound
        <3>4. LastRound' = LastRound
            BY <1>2, <2>1, <3>2, <3>3
        <3>5. Tight(estimates, seen, LastRound)
            BY <2>4, <2>6, <3>1 DEF RecentInv
        <3> QED
            BY <2>1, <3>4, <3>5
    <2>7. Strict(estimates')
        BY <2>1 DEF RecentInv
    <2> QED
        BY <1>1, <2>5, <2>6, <2>7 DEF RecentInv
<1>4. ASSUME NEW s \in Samples, Update(s) PROVE RecentInv'
    <2>1. Strict(estimates')
        BY <1>4, UpdateStrict
    <2>2. NowCovered' /\ Fresh' /\ Started'
        BY <1>4, UpdateNow
    <2>3. quiet' = quiet /\ round' = round
        BY <1>4 DEF Update
    <2>4. LastRound' = round
        BY <2>2, <2>3 DEF LastRound
    <2>5. ~quiet' => Tight(estimates', seen', LastRound')
        BY <1>4, <2>3, <2>4, UpdateTight
    <2> QED
        BY <1>1, <2>1, <2>2, <2>5 DEF RecentInv
<1>5. ASSUME NEW s \in Samples, Reset(s) PROVE RecentInv'
    <2> DEFINE e == Sampled(s, round)
    <2>1. /\ estimates'[0] = e /\ estimates'[1] = e /\ estimates'[2] = e
          /\ seen' = [[t \in Samples |-> -1] EXCEPT ![s] = round] /\ round' = round
        BY <1>5 DEF Reset, ResetTo, NothingSeen
    <2>2. e.sample = s /\ e.time = round
        BY DEF Sampled
    <2>3. \A k : Covers(seen', s, k)
        BY <1>2, <2>1 DEF Covers
    <2>4. seen'[s] = round /\ Fresh' /\ Started'
        BY <1>2, <2>1 DEF Fresh, Started
    <2>5. LastRound' = round
        BY <2>1, <2>4 DEF LastRound
    <2>6. /\ round - round <= windowLength /\ round - round <= windowLength \div 2
          /\ round - round <= windowLength \div 2 + 1
        BY <1>2, WindowAssumption
    <2> HIDE DEF e
    <2>7. Strict(estimates')
        BY <2>1 DEF Strict
    <2>8. NowCovered'
        BY <2>1, <2>2, <2>3, <2>4, <2>6 DEF NowCovered
    <2>9. Tight(estimates', seen', LastRound')
        BY <2>1, <2>2, <2>3, <2>5, <2>6 DEF Tight
    <2> QED
        BY <1>1, <2>7, <2>8, <2>9 DEF RecentInv
<1>6. CASE Clear
    <2>1. /\ estimates' = [i \in 0..2 |-> [sample |-> 0, time |-> 0]]
          /\ seen' = [t \in Samples |-> -1] /\ round' = round
        BY <1>6 DEF Clear, NoEstimates, Sampled, NothingSeen
    <2>2. ~Started' /\ ~Fresh'
        BY <1>2, <2>1 DEF Started, Fresh
    <2> QED
        BY <1>1, <2>1, <2>2 DEF RecentInv, Strict, NowCovered
<1>7. CASE UNCHANGED vars
    <2>1. estimates' = estimates /\ round' = round /\ seen' = seen /\ quiet' = quiet
        BY <1>7 DEF vars
    <2>2. (Fresh' <=> Fresh) /\ (Started' <=> Started) /\ LastRound' = LastRound
        BY <2>1 DEF Fresh, Started, LastRound
    <2> QED
        BY <1>1, <2>1, <2>2 DEF RecentInv, NowCovered
<1> QED
    BY <1>3, <1>4, <1>5, <1>6, <1>7 DEF Next

\* For every window, every set of samples and however many rounds: three
\* estimates are enough for the best to be at least every sample of the current
\* round, and of the last CoveredRounds rounds while every round gives a sample
\* (windowed_filter.go:102-151).
THEOREM RecentAreCovered == Spec => []RecentCovered
BY RecentInit, RecentNext, RecentIsCovered, PTL DEF Spec
=============================================================================
