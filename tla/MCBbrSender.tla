----------------------------- MODULE MCBbrSender ------------------------------
\* BbrSender on a short gain cycle: probe, drain, cruise.
EXTENDS BbrSender

MCPacingGains == [i \in 0..2 |-> CASE i = 0 -> 5 [] i = 1 -> 3 [] i = 2 -> 4]
=============================================================================
