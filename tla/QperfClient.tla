----------------------------- MODULE QperfClient -----------------------------
(***************************************************************************)
(* The throughput client: client/client.go Run with its three goroutines   *)
(* (main, receive, the interrupt handler), the counters of                 *)
(* common/state.go, which main and receive share under a mutex, and, for   *)
(* --0rtt, the preparation of common/0rtt_utils.go.                        *)
(*                                                                         *)
(* Each critical section of State is one step; a read from the stream and  *)
(* the clock reading at the head of GetAndResetReport are steps of their   *)
(* own, as nothing orders them with the critical section that follows.     *)
(***************************************************************************)
EXTENDS QuicLink, ZeroRtt, Integers, Sequences

CONSTANTS ProbeTime,       \* -t, in ticks of the clock
          ReportIntervals, \* the values of --report-interval, in ticks
          MaxWait,         \* bound: ticks before the first byte
          MaxLag,          \* bound: ticks a measurement may be late
          EarlyReports     \* bound: reports before the probe time is over

ASSUME ClientAssumption ==
    /\ ProbeTime \in Nat
    /\ ReportIntervals \subseteq Int
    /\ MaxWait \in Nat \ {0}
    /\ MaxLag \in Nat
    /\ EarlyReports \in Nat \ {0}

VARIABLES
    timeToFirstByteOnly, \* --ttfb
    use0RTT,             \* --0rtt
    reportInterval,      \* --report-interval; main.go refuses no value
    message,             \* what this client's version sends as its request
    now,                 \* the clock; 0 is Go's zero time
    exit,                \* "running", "returned", "interrupted", "panicked"
    main, receiver, interrupt, \* where the goroutines are
    interrupted,         \* CTRL+C was pressed
    wake,                \* when main's Sleep ends
    reportNow,           \* the local variable now of GetAndResetReport
    readResult,          \* what the receiver's last Read returned
    \* State
    startTime, firstByteTime, establishmentTime, lastReportTime,
    totalReceivedBytes, lastReportReceivedBytes,
    \* Results
    StatesHistory,       \* the records of the reports
    printedTotal,        \* bytes of reportTotal, -1 before it
    exported             \* "no", "yes", "error"

stateVars == <<startTime, firstByteTime, establishmentTime, lastReportTime,
               totalReceivedBytes, lastReportReceivedBytes>>
\* The options, and what nothing changes any more once main has started.
setupVars == <<timeToFirstByteOnly, use0RTT, reportInterval, message, zeroVars>>
resultVars == <<StatesHistory, printedTotal, exported>>
clientVars == <<setupVars, now, exit, main, receiver, interrupt, interrupted, wake,
                reportNow, readResult, stateVars, resultVars>>

\* A record of StatesHistory.  at and upTo are history: the instant the report
\* was taken at and the bytes received by then.
Report == [bytes : Nat, delta : Nat, at : Nat, upTo : Nat]

ClientInit ==
    /\ timeToFirstByteOnly \in BOOLEAN
    /\ use0RTT \in BOOLEAN
    /\ reportInterval \in ReportIntervals
    /\ message \in {"start", "other"}
    /\ ZeroInit
    /\ now = 1
    /\ exit = "running"
    /\ main = IF use0RTT THEN "ping" ELSE "start"
    /\ receiver = "none"
    /\ interrupt = "none"
    /\ interrupted = FALSE
    /\ wake = 0
    /\ reportNow = 0
    /\ readResult = [received |-> 0, err |-> "nil"]
    /\ startTime = 0
    /\ firstByteTime = 0
    /\ establishmentTime = 0
    /\ lastReportTime = 0
    /\ totalReceivedBytes = 0
    /\ lastReportReceivedBytes = 0
    /\ StatesHistory = <<>>
    /\ printedTotal = -1
    /\ exported = "no"

Running == exit = "running"

\* An error main or receive does not expect ends the process.
Panic == exit' = "panicked"

\* Faulty variant: the last report is left out.
MaxTimeNoReport(s, t, u) == CHOOSE m \in {t, u} : \A x \in {t, u} : x <= m

\* common.MaxTime over the three times of the State.
MaxTime(s, t, u) == CHOOSE m \in {s, t, u} : \A x \in {s, t, u} : x <= m

\* Faulty variant: every byte is stamped as if it were the first.
StampsEveryByte(n) ==
    /\ totalReceivedBytes' = totalReceivedBytes + n
    /\ firstByteTime' = IF totalReceivedBytes' # 0 THEN now ELSE firstByteTime
    /\ UNCHANGED <<startTime, establishmentTime, lastReportTime,
                   lastReportReceivedBytes>>

\* State.AddReceivedBytes
AddReceivedBytes(n) ==
    /\ totalReceivedBytes' = totalReceivedBytes + n
    /\ firstByteTime' = IF firstByteTime = 0 /\ totalReceivedBytes' # 0
                        THEN now ELSE firstByteTime
    /\ UNCHANGED <<startTime, establishmentTime, lastReportTime,
                   lastReportReceivedBytes>>

\* State.SetEstablishmentTime, which Run calls once.
SetEstablishmentTime ==
    /\ establishmentTime' = now
    /\ UNCHANGED <<startTime, firstByteTime, lastReportTime, totalReceivedBytes,
                   lastReportReceivedBytes>>

\* State.GetFirstByteTime returns; it panics before the first byte.
FirstByteSeen == firstByteTime # 0

\* GetAndResetReport under the mutex, with the clock already read: what it
\* returns and what it resets.
ReportOf ==
    [bytes |-> totalReceivedBytes - lastReportReceivedBytes,
     delta |-> reportNow - MaxTime(lastReportTime, firstByteTime, startTime),
     at    |-> reportNow,
     upTo  |-> totalReceivedBytes]

ResetReport ==
    /\ lastReportTime' = reportNow
    /\ lastReportReceivedBytes' = totalReceivedBytes
    /\ UNCHANGED <<startTime, firstByteTime, establishmentTime, totalReceivedBytes>>

\* State.Total
Total == totalReceivedBytes
-----------------------------------------------------------------------------
\* time.Sleep(reportInterval) returns at once when the interval is not positive.
Pause == IF reportInterval > 0 THEN reportInterval ELSE 0

\* The clock.  Before the first byte it stops at MaxWait, and after it once the
\* measurement is MaxLag late.
Deadline == IF firstByteTime = 0 THEN MaxWait
            ELSE firstByteTime + ProbeTime + (IF Pause = 0 THEN 1 ELSE Pause) + MaxLag

ClockTicks ==
    /\ Running
    /\ now < Deadline
    /\ now' = now + 1
    /\ UNCHANGED <<setupVars, exit, main, receiver, interrupt, interrupted, wake,
                   reportNow, readResult, stateVars, resultVars, linkVars>>
-----------------------------------------------------------------------------
\* main: Run.  With --0rtt it begins with PingToGatherSessionTicketAndToken.

\* A step of the preparation, which sees and changes nothing else.
PingStep(from) ==
    /\ Running /\ main = from
    /\ UNCHANGED <<timeToFirstByteOnly, use0RTT, reportInterval, message, now,
                   receiver, interrupt, interrupted, wake, reportNow, readResult,
                   stateVars, resultVars, linkVars, putting>>

PingDial ==
    /\ PingStep("ping")
    /\ pingConn' = "open" /\ main' = "session"
    /\ UNCHANGED <<exit, single, received, stored>>

\* The error of DialAddr, with which Run panics.
PingDialFails ==
    /\ PingStep("ping")
    /\ pingConn' = "failed" /\ Panic
    /\ UNCHANGED <<main, single, received, stored>>

\* Await of one cache and Put into the one of the measurement.  Await looks at
\* nothing but the cache: not at the connection, and not at the clock.
Await(s, next) ==
    /\ PingStep(s)
    /\ single[s].done
    /\ stored' = [stored EXCEPT ![s] = single[s].value]
    /\ main' = next
    /\ UNCHANGED <<exit, pingConn, single, received>>

\* CloseWithError, of which quic-go returns no error (0rtt_utils.go:38-41), and
\* return: the connection and the single caches are gone.
PingClose ==
    /\ PingStep("pingClose")
    /\ pingConn' = "closed" /\ main' = "start"
    /\ single' = NewSingleCaches /\ received' = [s \in Slots |-> 0]
    /\ UNCHANGED <<exit, stored>>

SetStartTime ==
    /\ Running /\ main = "start"
    /\ IF startTime # 0 THEN Panic /\ UNCHANGED <<startTime, main>>
       ELSE startTime' = now /\ main' = "dial" /\ UNCHANGED exit
    /\ UNCHANGED <<setupVars, now, receiver, interrupt, interrupted, wake,
                   reportNow, readResult, firstByteTime, establishmentTime,
                   lastReportTime, totalReceivedBytes, lastReportReceivedBytes,
                   resultVars, linkVars>>

\* DialAddr or DialAddrEarly, SetEstablishmentTime, and the start of the
\* interrupt handler.  DialAddrEarly need not wait for the server.
Dial ==
    /\ Running /\ main = "dial"
    /\ clientConn' = "open" /\ serverConn' = IF use0RTT THEN "none" ELSE "open"
    /\ SetEstablishmentTime
    /\ interrupt' = "wait"
    /\ main' = "request"
    /\ UNCHANGED <<setupVars, now, exit, receiver, interrupted, wake, reportNow,
                   readResult, resultVars, request, inFlight, consumed>>

\* The handshake fails; the server may have seen it complete.
DialFails ==
    /\ Running /\ main = "dial"
    /\ clientConn' = "failed" /\ serverConn' \in IF use0RTT THEN {"none"} ELSE {"none", "open"}
    /\ Panic
    /\ UNCHANGED <<setupVars, now, main, receiver, interrupt, interrupted, wake,
                   reportNow, readResult, stateVars, resultVars, request,
                   inFlight, consumed>>

\* OpenStream, Write and Close of the stream; each panics on a connection that
\* has ended.
SendRequest ==
    /\ Running /\ main = "request"
    /\ IF clientConn = "open"
       THEN request' = message /\ main' = "first" /\ UNCHANGED exit
       ELSE Panic /\ UNCHANGED <<request, main>>
    /\ UNCHANGED <<setupVars, now, receiver, interrupt, interrupted, wake,
                   reportNow, readResult, stateVars, resultVars, clientConn,
                   serverConn, inFlight, consumed>>

\* receiveFirstByte returns a byte, and receive starts unless --ttfb is given.
ReceiveFirstByte ==
    /\ Running /\ main = "first"
    /\ clientConn = "open" /\ inFlight > 0
    /\ inFlight' = inFlight - 1 /\ consumed' = consumed + 1
    /\ AddReceivedBytes(1)
    /\ main' = IF timeToFirstByteOnly THEN "close" ELSE "check"
    /\ receiver' = IF timeToFirstByteOnly THEN "none" ELSE "read"
    /\ UNCHANGED <<setupVars, now, exit, interrupt, interrupted, wake, reportNow,
                   readResult, resultVars, clientConn, serverConn, request>>

\* receiveFirstByte returns the error of Read, and Run panics.
FirstByteFails ==
    /\ Running /\ main = "first"
    /\ clientConn # "open"
    /\ Panic
    /\ UNCHANGED <<setupVars, now, main, receiver, interrupt, interrupted, wake,
                   reportNow, readResult, stateVars, resultVars, linkVars>>

\* Faulty variant: the probe time counts from the last report.
ReportOver == now - lastReportTime > ProbeTime

\* The test at the head of the reporting loop.
ProbeOver == now - firstByteTime > ProbeTime

\* Faulty variant: the loop does not sleep.
NoSleep == now

SleepEnd == now + Pause

CheckProbeTime ==
    /\ Running /\ main = "check"
    /\ IF ~FirstByteSeen THEN Panic /\ UNCHANGED <<main, wake>>
       ELSE IF ProbeOver
       THEN main' = "close" /\ UNCHANGED <<wake, exit>>
       ELSE main' = "sleep" /\ wake' = SleepEnd /\ UNCHANGED exit
    /\ UNCHANGED <<setupVars, now, receiver, interrupt, interrupted, reportNow,
                   readResult, stateVars, resultVars, linkVars>>

\* Sleep returns and GetAndResetReport reads the clock, before the mutex.  Sleep
\* may take longer than asked for: after EarlyReports reports it does.
WakeUp ==
    /\ Running /\ main = "sleep"
    /\ now >= wake
    /\ Len(StatesHistory) < EarlyReports \/ ProbeOver
    /\ reportNow' = now
    /\ main' = "report"
    /\ UNCHANGED <<setupVars, now, exit, receiver, interrupt, interrupted, wake,
                   readResult, stateVars, resultVars, linkVars>>

\* report: the critical section, and the record made of what it returned.
MakeReport ==
    /\ Running /\ main = "report"
    /\ StatesHistory' = Append(StatesHistory, ReportOf)
    /\ ResetReport
    /\ main' = "check"
    /\ UNCHANGED <<setupVars, now, exit, receiver, interrupt, interrupted, wake,
                   reportNow, readResult, printedTotal, exported, linkVars>>

\* CloseWithError(RuntimeReachedErrorCode), of which quic-go returns no error:
\* the panic of client.go:246-248 cannot happen.
CloseConnection ==
    /\ Running /\ main = "close"
    /\ CloseWithError
    /\ main' = "total"
    /\ UNCHANGED <<setupVars, now, exit, receiver, interrupt, interrupted, wake,
                   reportNow, readResult, stateVars, resultVars, serverConn,
                   request, inFlight, consumed>>

\* reportTotal reads the counters; the receiver may still be running.
ReportTotal ==
    /\ Running /\ main = "total"
    /\ printedTotal' = Total
    /\ main' = "export"
    /\ UNCHANGED <<setupVars, now, exit, receiver, interrupt, interrupted, wake,
                   reportNow, readResult, stateVars, StatesHistory, exported,
                   linkVars>>

\* A record whose rate is not finite cannot be marshalled.
Marshals == \A i \in DOMAIN StatesHistory : StatesHistory[i].delta # 0

\* exportStates, whose error is only logged; then main returns.
ExportStates ==
    /\ Running /\ main = "export"
    /\ exported' \in (IF Marshals THEN {"yes", "error"} ELSE {"error"})
    /\ exit' = "returned"
    /\ UNCHANGED <<setupVars, now, main, receiver, interrupt, interrupted, wake,
                   reportNow, readResult, stateVars, StatesHistory, printedTotal,
                   linkVars>>
-----------------------------------------------------------------------------
\* receive: Read blocks until there is data or the connection has ended, and
\* may return data together with the error.
ReadStream(n) ==
    /\ Running /\ receiver = "read"
    /\ n <= inFlight
    /\ IF clientConn = "open"
       THEN n > 0 /\ readResult' = [received |-> n, err |-> "nil"]
       ELSE readResult' = [received |-> n, err |-> clientConn]
    /\ inFlight' = inFlight - n /\ consumed' = consumed + n
    /\ receiver' = "add"
    /\ UNCHANGED <<setupVars, now, exit, main, interrupt, interrupted, wake,
                   reportNow, stateVars, resultVars, clientConn, serverConn,
                   request>>

\* Faulty variant: bytes that arrive with an error are dropped.
CountedIfNil(r) == IF r.err = "nil" THEN r.received ELSE 0

\* The bytes of a Read count whatever its error is.
Counted(r) == r.received

\* Faulty variant: the client's own close is not expected.
AnyError(err) == err # "nil"

\* Errors that are not an ApplicationError.
Unexpected(err) == err = "failed"

\* AddReceivedBytes, then the switch on the error: code 0 ends the goroutine,
\* anything that is not an ApplicationError ends the process.
CountRead ==
    /\ Running /\ receiver = "add"
    /\ AddReceivedBytes(Counted(readResult))
    /\ receiver' = IF readResult.err = "closed" THEN "done" ELSE "read"
    /\ IF Unexpected(readResult.err) THEN Panic ELSE UNCHANGED exit
    /\ readResult' = [received |-> 0, err |-> "nil"]
    /\ UNCHANGED <<setupVars, now, main, interrupt, interrupted, wake, reportNow,
                   resultVars, linkVars>>
-----------------------------------------------------------------------------
\* The handler of CTRL+C: it closes the connection and exits.
InterruptCloses ==
    /\ Running /\ interrupt = "wait"
    /\ interrupted' = TRUE
    /\ CloseWithError
    /\ interrupt' = "exit"
    /\ UNCHANGED <<setupVars, now, exit, main, receiver, wake, reportNow,
                   readResult, stateVars, resultVars, serverConn, request,
                   inFlight, consumed>>

InterruptExits ==
    /\ Running /\ interrupt = "exit"
    /\ exit' = "interrupted"
    /\ UNCHANGED <<setupVars, now, main, receiver, interrupt, interrupted, wake,
                   reportNow, readResult, stateVars, resultVars, linkVars>>

\* The client waits for a ticket or a token that can no longer come.
Stranded ==
    /\ Running /\ main \in Slots
    /\ ~single[main].done /\ putting # main
    /\ pingConn = "failed"

PrepareStep == PingDial \/ PingDialFails \/ Await("session", "token")
                   \/ Await("token", "pingClose") \/ PingClose
MainStep == \/ PrepareStep \/ SetStartTime \/ Dial \/ DialFails \/ SendRequest
            \/ ReceiveFirstByte \/ FirstByteFails \/ CheckProbeTime \/ WakeUp
            \/ MakeReport \/ CloseConnection \/ ReportTotal \/ ExportStates
ReceiverStep == (\E n \in 0..ReceiveWindow : ReadStream(n)) \/ CountRead
ClientNext == MainStep \/ ReceiverStep \/ InterruptCloses \/ InterruptExits
                  \/ ClockTicks
-----------------------------------------------------------------------------
ClientTypeOK ==
    /\ timeToFirstByteOnly \in BOOLEAN
    /\ message \in {"start", "other"}
    /\ use0RTT \in BOOLEAN /\ ZeroTypeOK
    /\ reportInterval \in ReportIntervals
    /\ now \in Nat
    /\ exit \in {"running", "returned", "interrupted", "panicked"}
    /\ main \in {"ping", "session", "token", "pingClose", "start", "dial", "request",
                 "first", "check", "sleep", "report", "close", "total", "export"}
    /\ receiver \in {"none", "read", "add", "done"}
    /\ interrupt \in {"none", "wait", "exit"}
    /\ interrupted \in BOOLEAN
    /\ wake \in Nat /\ reportNow \in Nat
    /\ readResult \in [received : Nat, err : {"nil", "closed", "failed"}]
    /\ startTime \in Nat /\ firstByteTime \in Nat
    /\ establishmentTime \in Nat /\ lastReportTime \in Nat
    /\ totalReceivedBytes \in Nat /\ lastReportReceivedBytes \in Nat
    /\ StatesHistory \in Seq(Report)
    /\ printedTotal \in Nat \cup {-1}
    /\ exported \in {"no", "yes", "error"}

\* Every byte read from the stream is in the counters or in the hand of the
\* receiver that is about to add it, and the total printed at the end (while
\* the receiver may still run) is never less than what the reports add up to.
BytesAccounted ==
    /\ consumed = totalReceivedBytes + readResult.received
    /\ lastReportReceivedBytes <= totalReceivedBytes
    /\ printedTotal # -1 => /\ lastReportReceivedBytes <= printedTotal
                            /\ printedTotal <= totalReceivedBytes

\* The reports tile the measurement: each one starts, in time and in bytes,
\* where the one before it ended, the first at the first byte, the last where
\* the State says; so no byte is in two reports and no moment in none,
\* although main reads the clock outside the mutex (state.go:36-37).
ReportsTile ==
    LET n == Len(StatesHistory)
        at(i) == IF i = 0 THEN firstByteTime ELSE StatesHistory[i].at
        upTo(i) == IF i = 0 THEN 0 ELSE StatesHistory[i].upTo
    IN  /\ \A i \in 1..n : /\ StatesHistory[i].delta = at(i) - at(i - 1)
                           /\ StatesHistory[i].bytes = upTo(i) - upTo(i - 1)
        /\ n > 0 => lastReportTime = at(n)
        /\ lastReportReceivedBytes = upTo(n)

\* No rate is taken over less than what main slept, so with a positive
\* --report-interval no rate is infinite and exportStates can fail only on input
\* or output.  main.go accepts 0 and negative values too: main then does not
\* sleep, two reports may read the same clock, and the export is lost.
ReportsAreLong ==
    /\ \A i \in DOMAIN StatesHistory : StatesHistory[i].delta >= Pause
    /\ reportInterval > 0 => Marshals

\* The process panics only after a connection of its own has failed, or when it
\* was interrupted before the first byte (for all that client.go:202 says, "close
\* gracefully on interrupt"); in particular its own CloseWithError never makes
\* the receiver panic, and GetFirstByteTime is never too early.
PanicsAfterFailure ==
    exit = "panicked" =>
        \/ clientConn = "failed"
        \/ main = "ping" /\ pingConn = "failed"
        \/ interrupted /\ main \in {"request", "first"}

\* The measurement starts with the first ticket and the first token, whole,
\* although another goroutine sets the caches without a lock (the TODO in Put)
\* while Await waits for the context only: nil is never read, and a later one
\* does not slip in between.
PreparedWithFirst ==
    use0RTT /\ main \notin {"ping"} \cup Slots => stored = [s \in Slots |-> 1]
=============================================================================
