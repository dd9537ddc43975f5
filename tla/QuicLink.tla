------------------------------- MODULE QuicLink -------------------------------
(***************************************************************************)
(* The QUIC connection between a qperf client and a qperf server, as       *)
(* client/client.go and server/*.go use it: one stream, on which the       *)
(* client sends one request and the server answers with an endless run of  *)
(* data.  quic-go itself is an external library; only what the two         *)
(* programs can observe of it is here.  Data is counted in chunks.         *)
(***************************************************************************)
EXTENDS Naturals

CONSTANTS ReceiveWindow,  \* chunks the server may have in flight
          MaxChunks       \* bound: chunks the server sends in all

ASSUME LinkAssumption == ReceiveWindow \in Nat \ {0} /\ MaxChunks \in Nat \ {0}

VARIABLES
    clientConn, serverConn,
        \* each end: "none", "open", "closed" (application error 0), "failed"
    request,    \* "none", "start" or "other": what the server can read
    inFlight,   \* chunks written by the server, not yet read by the client
    consumed    \* chunks the client has read

linkVars == <<clientConn, serverConn, request, inFlight, consumed>>

LinkInit ==
    /\ clientConn = "none"
    /\ serverConn = "none"
    /\ request = "none"
    /\ inFlight = 0
    /\ consumed = 0

LinkTypeOK ==
    /\ clientConn \in {"none", "open", "closed", "failed"}
    /\ serverConn \in {"none", "open", "closed", "failed"}
    /\ request \in {"none", "start", "other"}
    /\ inFlight \in 0..ReceiveWindow
    /\ consumed \in 0..MaxChunks

\* CloseWithError on the client, a no-op on a connection that has ended.
CloseWithError ==
    clientConn' = IF clientConn = "open" THEN "closed" ELSE clientConn

\* The CONNECTION_CLOSE frame reaches the server.
CloseArrives ==
    /\ clientConn = "closed"
    /\ serverConn = "open"
    /\ serverConn' = "closed"
    /\ UNCHANGED <<clientConn, request, inFlight, consumed>>

\* The path breaks; both ends notice at their own time.
PathFails ==
    /\ clientConn = "open"
    /\ clientConn' = "failed"
    /\ UNCHANGED <<serverConn, request, inFlight, consumed>>

\* The idle timeout of the server's end, when the client is no longer heard.
ServerTimesOut(clientSilent) ==
    /\ serverConn = "open"
    /\ clientConn # "open" \/ clientSilent
    /\ serverConn' = "failed"
    /\ UNCHANGED <<clientConn, request, inFlight, consumed>>

\* The idle timeout of the client's end, when the server is no longer heard.
ClientTimesOut(serverSilent) ==
    /\ clientConn = "open"
    /\ serverConn # "open" \/ serverSilent
    /\ clientConn' = "failed"
    /\ UNCHANGED <<serverConn, request, inFlight, consumed>>
=============================================================================
