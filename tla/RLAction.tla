------------------------------ MODULE RLAction ------------------------------
(***************************************************************************)
(* The action table of the RL congestion control and the arithmetic it     *)
(* does on the window (internal/congestion/rl/rl.go).                      *)
(***************************************************************************)
EXTENDS Integers

CONSTANTS Conns,                   \* the connections that use the RL sender
          InitialPacketSize,       \* congestion.InitialPacketSizeIPv4
          DatagramSizes,           \* the sizes path MTU discovery may set
          InitialCongestionWindow, \* rl.initialCongestionWindow, in packets
          FallbackWindow           \* the window that replaces a negative one

ASSUME WindowAssumption ==
    /\ InitialPacketSize \in Nat \ {0}
    /\ DatagramSizes \subseteq Nat \ {0}
    /\ InitialPacketSize \in DatagramSizes
    /\ InitialCongestionWindow \in Nat \ {0}
    /\ FallbackWindow \in Nat \ {0}

\* The keys of actionMap; a lookup of any other key yields the zero value.
ActionKeys == 0..4
AgentActions == ActionKeys \cup {5}

Steps == <<-3, -1, 0, 1, 3>>

\* actionMap[a]: the change of the window, in datagrams.
ActionMap(a) == IF a \in ActionKeys THEN Steps[a + 1] ELSE 0

\* The window after action a, before the test for a negative window.
Moved(w, a, size) == w + ActionMap(a) * size

\* Faulty variant: the test is forgotten.
Unclamped(w) == w

\* The test that follows it.
Clamped(w) == IF w < 0 THEN FallbackWindow ELSE w
=============================================================================
