------------------------------- MODULE ZeroRtt -------------------------------
(***************************************************************************)
(* What PingToGatherSessionTicketAndToken (common/0rtt_utils.go) shares    *)
(* with the goroutine of its connection: SingleSessionCache and            *)
(* SingleTokenStore.  quic-go Puts the session tickets and the tokens that *)
(* arrive, the client Awaits the first of each; its own steps are in       *)
(* QperfClient.  The two caches have the same code.                        *)
(***************************************************************************)
EXTENDS Naturals

VARIABLES
    pingConn,   \* the connection of the preparation: "none", "open", "closed", "failed"
    single,     \* the caches: the key and value set (0 for nil, else which one
                \* it was), and whether emptyContext is done
    putting,    \* the cache whose Put is between its assignments and the cancel
    received,   \* how many of each have arrived
    stored      \* what the client has put into the caches of the measurement

zeroVars == <<pingConn, single, putting, received, stored>>

Slots == {"session", "token"}
MaxPuts == 2        \* bound: a second ticket finds the cache already set

NewSingleCaches == [s \in Slots |-> [value |-> 0, done |-> FALSE]]

ZeroInit ==
    /\ pingConn = "none"
    /\ single = NewSingleCaches
    /\ putting = "none"
    /\ received = [s \in Slots |-> 0]
    /\ stored = [s \in Slots |-> 0]

\* Faulty variant: a later Put replaces the value.
AlwaysEmpty(s) == TRUE

\* The select at the head of Put.
StillEmpty(s) == ~single[s].done

\* Put up to the cancel; a cache that is set already is left alone.  quic-go
\* handles the frames of a connection one after the other, so one Put is over
\* when the next begins: the race of two Puts that the TODO in Put fears
\* (single_session_cache.go:33) would need a transport that does not.
PutValue(s) ==
    /\ pingConn = "open" /\ putting = "none"
    /\ received[s] < MaxPuts
    /\ received' = [received EXCEPT ![s] = @ + 1]
    /\ IF StillEmpty(s)
       THEN single' = [single EXCEPT ![s].value = received[s] + 1] /\ putting' = s
       ELSE UNCHANGED <<single, putting>>
    /\ UNCHANGED <<pingConn, stored>>

\* emptyContextCancel
PutCancels ==
    /\ putting # "none"
    /\ single' = [single EXCEPT ![putting].done = TRUE]
    /\ putting' = "none"
    /\ UNCHANGED <<pingConn, received, stored>>

\* The connection of the preparation breaks, or times out.
PingConnFails ==
    /\ pingConn = "open"
    /\ pingConn' = "failed"
    /\ UNCHANGED <<single, putting, received, stored>>

ZeroTypeOK ==
    /\ pingConn \in {"none", "open", "closed", "failed"}
    /\ single \in [Slots -> [value : 0..MaxPuts, done : BOOLEAN]]
    /\ putting \in Slots \cup {"none"}
    /\ received \in [Slots -> 0..MaxPuts]
    /\ stored \in [Slots -> 0..MaxPuts]
=============================================================================
