---------------------------- MODULE WindowedFilter ----------------------------
(***************************************************************************)
(* The windowed maximum of BBR (internal/congestion/bbr/                   *)
(* windowed_filter.go): three estimates, each the best sample since its    *)
(* own time.  Operators only; the bandwidth filter and the ack height      *)
(* filter both use them.  A sample is what the comparator looks at.        *)
(***************************************************************************)
EXTENDS Integers

Entry == [sample : Nat, time : Nat]

Estimates == [0..2 -> Entry]

Sampled(s, t) == [sample |-> s, time |-> t]

\* NewWindowedFilter and Clear: entries with Go's zero values.
NoEstimates == [i \in 0..2 |-> Sampled(0, 0)]

\* Reset
ResetTo(e) == [i \in 0..2 |-> e]

GetBest(est) == est[0].sample

\* Faulty variant: a new best is not noticed.
MustResetWhenOld(est, W, e) == est[0].sample = 0 \/ e.time - est[2].time > W

\* Estimates that are not initialised, a new best, or nothing recent.
MustReset(est, W, e) ==
    \/ est[0].sample = 0
    \/ e.sample >= est[0].sample
    \/ e.time - est[2].time > W

\* Faulty variant: the third estimate keeps a sample that was beaten.
PlacedSecondOnly(est, e) ==
    IF e.sample >= est[1].sample THEN [est EXCEPT ![1] = e] ELSE est

\* The sample replaces the estimates it beats.
Placed(est, e) ==
    IF e.sample >= est[1].sample THEN [est EXCEPT ![1] = e, ![2] = e]
    ELSE IF e.sample >= est[2].sample THEN [est EXCEPT ![2] = e]
    ELSE est

\* Faulty variant: only one step up.
PromotedOnce(est, W, e) == [i \in 0..2 |-> IF i = 2 THEN e ELSE est[i + 1]]

\* The best has expired: the others move up, twice if the second has expired
\* as well.
Promoted(est, W, e) ==
    LET by == IF e.time - est[1].time > W THEN 2 ELSE 1
    IN  [i \in 0..2 |-> IF i + by <= 2 THEN est[i + by] ELSE e]

\* Faulty variant: estimates that equal a better one stay.
NeverRenewed(est, W, e) == est

\* An estimate that only repeats the better one is renewed after a quarter or
\* half of the window.
Renewed(est, W, e) ==
    IF est[1].sample = est[0].sample /\ e.time - est[1].time > W \div 4
    THEN [est EXCEPT ![1] = e, ![2] = e]
    ELSE IF est[2].sample = est[1].sample /\ e.time - est[2].time > W \div 2
    THEN [est EXCEPT ![2] = e]
    ELSE est

\* Update
Updated(est, W, e) ==
    IF MustReset(est, W, e) THEN ResetTo(e)
    ELSE LET placed == Placed(est, e)
         IN  IF e.time - placed[0].time > W THEN Promoted(placed, W, e)
             ELSE Renewed(placed, W, e)
=============================================================================
