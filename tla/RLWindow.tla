------------------------------ MODULE RLWindow ------------------------------
(***************************************************************************)
(* What the RL congestion control promises about the window of each        *)
(* connection, with no goroutines, channels or messages: the window moves  *)
(* by one entry of the action table at a time, each move answers a state   *)
(* later than the one the previous move answered, and the window that is   *)
(* in force is never negative.  RLControl implements this specification.   *)
(***************************************************************************)
EXTENDS RLAction

VARIABLES window,     \* window in force, in bytes
          size,       \* maxDatagramSize
          answered    \* the state sequence number the last move answered

wvars == <<window, size, answered>>

WInit ==
    /\ window = [c \in Conns |-> InitialCongestionWindow * InitialPacketSize]
    /\ size = [c \in Conns |-> InitialPacketSize]
    /\ answered \in [Conns -> Nat]

\* The move answers some later state; which one is not the window's business.
Move(c, a) ==
    /\ answered'[c] \in Nat
    /\ answered'[c] > answered[c]
    /\ answered' = [answered EXCEPT ![c] = answered'[c]]
    /\ window' = [window EXCEPT ![c] = Clamped(Moved(@, a, size[c]))]
    /\ UNCHANGED size

Resize(c, s) ==
    /\ s > size[c]
    /\ size' = [size EXCEPT ![c] = s]
    /\ UNCHANGED <<window, answered>>

WNext ==
    \E c \in Conns :
        \/ \E a \in AgentActions : Move(c, a)
        \/ \E s \in DatagramSizes : Resize(c, s)

WSpec == WInit /\ [][WNext]_wvars
=============================================================================
