----------------------------- MODULE QperfServer -----------------------------
(***************************************************************************)
(* The server's part in one measurement: the accept loop of                *)
(* server/server.go, the session goroutine (qperf_server_session.go) and   *)
(* the stream goroutine (qperf_server_stream.go).  Both goroutines see the *)
(* end of the connection on their own, and sync.Once lets one of them log  *)
(* how the session ended.                                                  *)
(***************************************************************************)
EXTENDS QuicLink

VARIABLES knownCC,    \* --cc names a congestion control the server knows
          serverUp,   \* the server process has not panicked
          session,    \* "none", "accept", "done"
          stream,     \* "none", "read", "write", "done"
          closeLog    \* what closeOnce logged: "", "close" or "error"

serverVars == <<knownCC, serverUp, session, stream, closeLog>>

ServerInit ==
    /\ knownCC \in BOOLEAN
    /\ serverUp = TRUE
    /\ session = "none"
    /\ stream = "none"
    /\ closeLog = ""

\* Faulty variant: the kind of error is not looked at.
LogClose(err) == closeLog' = IF closeLog # "" THEN closeLog ELSE "close"

\* qperfServerSession.close: only the first error is logged, and nothing but
\* the log changes.
LogOnce(err) ==
    closeLog' = IF closeLog # "" THEN closeLog
                ELSE IF err = "closed" THEN "close" ELSE "error"

\* One round of the accept loop.  The congestion control is looked up once the
\* first connection is there; a name it does not know ends the process.
AcceptConnection ==
    /\ serverUp /\ session = "none"
    /\ serverConn # "none"
    /\ IF knownCC
       THEN session' = "accept" /\ UNCHANGED serverUp
       ELSE serverUp' = FALSE /\ UNCHANGED session
    /\ UNCHANGED <<knownCC, stream, closeLog, linkVars>>

\* qperfServerSession.run: AcceptStream returns the client's stream.  Once the
\* connection has ended it returns the error even if a stream is waiting.
AcceptStream ==
    /\ serverUp /\ session = "accept"
    /\ serverConn = "open" /\ request # "none" /\ stream = "none"
    /\ stream' = "read"
    /\ UNCHANGED <<knownCC, serverUp, session, closeLog, linkVars>>

\* AcceptStream returns the error the connection ended with.
SessionEnds ==
    /\ serverUp /\ session = "accept"
    /\ serverConn \in {"closed", "failed"}
    /\ LogOnce(serverConn)
    /\ session' = "done"
    /\ UNCHANGED <<knownCC, serverUp, stream, linkVars>>

\* qperfServerStream.run: ReadAll returns the request.  An unknown one is
\* logged, and the connection is left as it is.
ReadRequest ==
    /\ serverUp /\ stream = "read"
    /\ serverConn = "open"
    /\ IF request = "start"
       THEN stream' = "write" /\ UNCHANGED closeLog
       ELSE stream' = "done" /\ LogOnce("unknown")
    /\ UNCHANGED <<knownCC, serverUp, session, linkVars>>

\* The flow control of the stream the server writes to.
WindowOpen == inFlight < ReceiveWindow

\* Write of the next chunk, which blocks while the client's window is full.
WriteChunk ==
    /\ serverUp /\ stream = "write"
    /\ serverConn = "open"
    /\ WindowOpen
    /\ consumed + inFlight < MaxChunks
    /\ inFlight' = inFlight + 1
    /\ UNCHANGED <<serverVars, clientConn, serverConn, request, consumed>>

\* ReadAll or Write returns the error the connection ended with.
StreamEnds ==
    /\ serverUp /\ stream \in {"read", "write"}
    /\ serverConn \in {"closed", "failed"}
    /\ LogOnce(serverConn)
    /\ stream' = "done"
    /\ UNCHANGED <<knownCC, serverUp, session, linkVars>>

SessionStep == AcceptConnection \/ AcceptStream \/ SessionEnds
StreamStep == ReadRequest \/ WriteChunk \/ StreamEnds
ServerNext == SessionStep \/ StreamStep

ServerTypeOK ==
    /\ knownCC \in BOOLEAN /\ serverUp \in BOOLEAN
    /\ session \in {"none", "accept", "done"}
    /\ stream \in {"none", "read", "write", "done"}
    /\ closeLog \in {"", "close", "error"}
=============================================================================
