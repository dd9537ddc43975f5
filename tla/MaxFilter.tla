------------------------------ MODULE MaxFilter -------------------------------
(***************************************************************************)
(* What the users of the windowed filter rely on: after a sample the best  *)
(* is not below it, and not above all that the filter had.  Each action    *)
(* answers one call; whether the best is right can only be said of a call. *)
(***************************************************************************)
EXTENDS Integers

CONSTANT Samples

VARIABLE best

\* The values the filter can give after the sample s when it gave b before.
AfterSample(b, s) == {v \in Samples : v >= s /\ (v <= b \/ v <= s)}

FInit == best = 0

Sample(s) == best' \in AfterSample(best, s)

Restart(s) == best' = s
=============================================================================
