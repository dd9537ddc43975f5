-------------------------------- MODULE Qperf --------------------------------
(***************************************************************************)
(* One throughput measurement: QperfClient and QperfServer over QuicLink.  *)
(***************************************************************************)
EXTENDS QperfClient, QperfServer

vars == <<linkVars, clientVars, serverVars>>

Init == LinkInit /\ ClientInit /\ ServerInit

\* The server is silent once it has stopped or has no stream left to write to.
ServerSilent == ~serverUp \/ stream = "done"

Client(A) == A /\ UNCHANGED serverVars
Server(A) == A /\ UNCHANGED clientVars
Link(A) == A /\ UNCHANGED <<clientVars, serverVars>>
Zero(A) ==
    A /\ UNCHANGED <<linkVars, serverVars, timeToFirstByteOnly, use0RTT, reportInterval,
                     message, now, exit, main, receiver, interrupt,
                     interrupted, wake, reportNow, readResult, stateVars, resultVars>>

\* The accept loop takes the connection of the preparation first.  Its session
\* shares nothing with the measured one; an unknown name of a congestion
\* control ends the server here already.
AcceptPing ==
    /\ serverUp /\ ~knownCC /\ pingConn # "none"
    /\ serverUp' = FALSE
    /\ UNCHANGED <<knownCC, session, stream, closeLog, linkVars>>

\* The handshake of an early dial reaches the server.
HandshakeArrives ==
    /\ serverUp /\ use0RTT
    /\ clientConn # "none" /\ serverConn = "none"
    /\ serverConn' = "open"
    /\ UNCHANGED <<clientConn, request, inFlight, consumed>>

\* quic-go of the client, as long as the client runs.
PutArrives(s) == Running /\ PutValue(s)
PutCompletes == Running /\ PutCancels
PingBreaks == Running /\ PingConnFails

\* The client process has ended or hangs, and the server has nothing left to
\* do for it.
Finished ==
    /\ ~Running \/ Stranded
    /\ serverConn # "open"
    /\ \/ ~serverUp
       \/ session = "none" /\ serverConn = "none"
       \/ session = "done" /\ stream \in {"none", "done"}
    /\ UNCHANGED vars

Next ==
    \/ Client(ClientNext)
    \/ Server(ServerNext)
    \/ Server(AcceptPing)
    \/ Link(HandshakeArrives)
    \/ \E s \in Slots : Zero(PutArrives(s))
    \/ Zero(PutCompletes)
    \/ Zero(PingBreaks)
    \/ Link(CloseArrives)
    \/ Link(PathFails)
    \/ Link(ServerTimesOut(~Running))
    \/ Link(ClientTimesOut(ServerSilent))
    \/ Finished

\* The goroutines run when they can, the clock advances, and an end that hears
\* nothing times out.  A server that is up sends a ticket and a token.  The
\* user need not press CTRL+C, the path need not fail and the server's data
\* need not arrive.
Fairness ==
    /\ WF_vars(Client(MainStep)) /\ WF_vars(Client(ReceiverStep))
    /\ WF_vars(Client(InterruptExits)) /\ WF_vars(Client(ClockTicks))
    /\ WF_vars(Server(SessionStep)) /\ WF_vars(Server(StreamStep))
    /\ WF_vars(Link(ServerTimesOut(~Running)))
    /\ WF_vars(Link(ClientTimesOut(ServerSilent)))
    /\ \A s \in Slots : WF_vars(serverUp /\ received[s] = 0 /\ Zero(PutArrives(s)))
    /\ WF_vars(Zero(PutCompletes))
    /\ WF_vars(~serverUp /\ Zero(PingBreaks))

Spec == Init /\ [][Next]_vars /\ Fairness
-----------------------------------------------------------------------------
\* Type invariant of the three parts.
TypeOK == LinkTypeOK /\ ClientTypeOK /\ ServerTypeOK

\* The one line the session logs tells how the measurement ended, whichever of
\* the two goroutines gets there first: "close" only when the client closed the
\* connection, an error only when the connection broke or the request was not
\* understood.
LogTellsOutcome ==
    /\ closeLog = "close" => clientConn = "closed" /\ serverConn = "closed"
    /\ closeLog = "error" => serverConn = "failed" \/ request = "other"

\* The client ends, whatever the server, the path and the user do, and the
\* server then gives up both goroutines of the session.  The one exception is
\* the await without a timeout: the client hangs when the connection of the
\* preparation ends before a ticket and a token have come.
MeasurementEnds ==
    /\ <>(~Running \/ Stranded)
    /\ [](session = "accept" => <>(session = "done" /\ stream \in {"none", "done"}))
=============================================================================
