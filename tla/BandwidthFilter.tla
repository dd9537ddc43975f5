--------------------------- MODULE BandwidthFilter ----------------------------
(***************************************************************************)
(* The filter bbrSender.maxBandwidth: bandwidth samples, each with the     *)
(* round trip in which it was taken.  Rounds only advance, and a round may *)
(* give no sample (every sample of it app-limited) or many.                *)
(***************************************************************************)
EXTENDS WindowedFilter

CONSTANTS
    Samples,        \* the bandwidths: numbers, 0 among them
    windowLength,   \* bandwidthWindowSize, in round trips
    MaxRound        \* bound of the checking: the rounds of a behaviour

ASSUME SamplesAssumption == Samples \subseteq Nat /\ 0 \in Samples
ASSUME WindowAssumption == windowLength \in Nat /\ MaxRound \in Nat

VARIABLES
    estimates,      \* WindowedFilter.estimates
    round,          \* bbrSender.roundTripCount
    \* history: the last round that gave each sample, -1 for none, and whether
    \* a round has gone by without one
    seen, quiet

vars == <<estimates, round, seen, quiet>>

NothingSeen == [s \in Samples |-> -1]

Init ==
    /\ estimates = NoEstimates
    /\ round = 0
    /\ seen = NothingSeen
    /\ quiet = FALSE

RoundStart ==
    /\ round < MaxRound
    /\ round' = round + 1
    /\ quiet' = (quiet \/ \A s \in Samples : seen[s] # round)
    /\ UNCHANGED <<estimates, seen>>

Update(s) ==
    /\ estimates' = Updated(estimates, windowLength, Sampled(s, round))
    /\ seen' = [seen EXCEPT ![s] = round]
    /\ UNCHANGED <<round, quiet>>

Reset(s) ==
    /\ estimates' = ResetTo(Sampled(s, round))
    /\ seen' = [NothingSeen EXCEPT ![s] = round]
    /\ quiet' = FALSE
    /\ UNCHANGED round

Clear ==
    /\ estimates' = NoEstimates
    /\ seen' = NothingSeen
    /\ quiet' = FALSE
    /\ UNCHANGED round

Next == RoundStart \/ Clear \/ \E s \in Samples : Update(s) \/ Reset(s)

Spec == Init /\ [][Next]_vars

-----------------------------------------------------------------------------
\* Every estimate is a sample of a round that has begun, and every sample seen
\* has the number of a round: what Update's arithmetic on rounds relies on.
TypeOK ==
    /\ estimates \in [0..2 -> [sample : Samples, time : 0..round]]
    /\ round \in 0..MaxRound
    /\ seen \in [Samples -> -1..round]
    /\ quiet \in BOOLEAN

\* The comment at the head of windowed_filter.go: the n'th best is measured no
\* earlier than the one before it.  Kept through replacement, promotion and
\* renewal, together with what "n'th best" says: each is the best of all that
\* came after its own round.
EstimatesOrdered ==
    /\ \A i \in 0..1 : /\ estimates[i].sample >= estimates[i + 1].sample
                       /\ estimates[i].time <= estimates[i + 1].time
    /\ \A i \in 0..2, s \in Samples :
          seen[s] > estimates[i].time => s <= estimates[i].sample

\* The rounds the three estimates are sure to cover: one each, as long as the
\* window has room for the times between them.
CoveredRounds == IF windowLength \div 2 < 3 THEN windowLength \div 2 ELSE 3

\* What the filter is for, although it keeps three samples only: the best is at
\* least every sample of the current round, and of the last CoveredRounds rounds
\* as long as every round gives a sample.  (A quiet round voids the second part:
\* Renewed may then drop a third estimate that nothing replaces.  And no more
\* rounds are sure: with a window of 10, the samples 8, 7, 6, 5, 4, 3, 2, 1 in
\* the rounds 0, 3, 10, 11, 20, 21, 22, 30 and 0 in the others leave the best
\* at 0 in round 33.)
RecentCovered ==
    \A s \in Samples :
        \/ seen[s] = round
        \/ ~quiet /\ seen[s] # -1 /\ round - seen[s] < CoveredRounds
        => s <= GetBest(estimates)

\* An old maximum does not live on: right after a sample the best is one of
\* the last windowLength rounds.
BestIsRecent ==
    [][\A s \in Samples : Update(s) => round - estimates'[0].time <= windowLength]_vars

\* The filter gives what the sender assumes of it, call by call: every Update
\* is a Sample of MaxFilter with the same sample, Reset and Clear restart it, and
\* between the calls the best stays as it is.
Abstract == INSTANCE MaxFilter WITH best <- GetBest(estimates)

CallsImplement ==
    /\ \A s \in Samples : /\ Update(s) => Abstract!Sample(s)
                          /\ Reset(s) => Abstract!Restart(s)
    /\ Clear => Abstract!Restart(0)
    /\ RoundStart => UNCHANGED GetBest(estimates)

ImplementsMaxFilter == Abstract!FInit /\ [][CallsImplement]_vars
=============================================================================
