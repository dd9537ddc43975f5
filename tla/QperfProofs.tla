----------------------------- MODULE QperfProofs ------------------------------
(***************************************************************************)
(* The safety of one measurement, for every window, probe time, report     *)
(* interval and bound: the inductive invariant of the client's goroutines, *)
(* the connection and the server, in parts that build on one another, and  *)
(* from it the invariants of QperfClient and Qperf.                        *)
(***************************************************************************)
EXTENDS Qperf, TLAPS

-----------------------------------------------------------------------------
\* The type invariant in parts, each of which a step keeps on its own.
Flags ==
    /\ timeToFirstByteOnly \in BOOLEAN /\ use0RTT \in BOOLEAN /\ interrupted \in
        BOOLEAN
    /\ knownCC \in BOOLEAN /\ serverUp \in BOOLEAN

MainPlace ==
    main \in {"ping", "session", "token", "pingClose", "start", "dial", "request",
             "first", "check", "sleep", "report", "close", "total", "export"}

RequestKind == message \in {"start", "other"}

Places ==
    /\ RequestKind
    /\ exit \in {"running", "returned", "interrupted", "panicked"}
    /\ receiver \in {"none", "read", "add", "done"}
    /\ interrupt \in {"none", "wait", "exit"}
    /\ exported \in {"no", "yes", "error"}

ServerPlaces ==
    /\ session \in {"none", "accept", "done"}
    /\ stream \in {"none", "read", "write", "done"}
    /\ closeLog \in {"", "close", "error"}

Numbers ==
    /\ now \in Nat /\ wake \in Nat /\ reportNow \in Nat
    /\ readResult \in [received : Nat, err : {"nil", "closed", "failed"}]
    /\ startTime \in Nat /\ firstByteTime \in Nat
    /\ establishmentTime \in Nat /\ lastReportTime \in Nat
    /\ totalReceivedBytes \in Nat /\ lastReportReceivedBytes \in Nat
    /\ StatesHistory \in Seq(Report)
    /\ printedTotal \in Nat \cup {-1}
    /\ reportInterval \in ReportIntervals

\* What the server has sent is bounded, and the receiver, which reports the
\* state of the connection as its error, runs only once there is one.
LinkInv ==
    /\ LinkTypeOK
    /\ consumed + inFlight <= MaxChunks
    /\ clientConn = "none" => receiver = "none"

-----------------------------------------------------------------------------
\* Where main is before the measurement, the connection and the first byte.
Preparing == {"ping", "session", "token", "pingClose"}
BeforeDial == Preparing \cup {"start", "dial"}
BeforeFirst == BeforeDial \cup {"request", "first"}

\* The receiver holds bytes only between its Read and its critical section, and
\* it starts with the first byte; the total is printed after the last report.
CountingInv ==
    /\ receiver # "add" => readResult.received = 0
    /\ main \in BeforeFirst => receiver = "none"
    /\ printedTotal # -1 => main = "export"
    /\ BytesAccounted

\* The times of the State lie in the past and in the order in which they are
\* set; the first byte is stamped when main leaves receiveFirstByte, not later.
ClockInv ==
    /\ startTime <= now /\ firstByteTime <= now /\ lastReportTime <= now
    /\ main \in Preparing \cup {"start"} => startTime = 0
    /\ main \in BeforeFirst <=> firstByteTime = 0
    /\ firstByteTime # 0 => startTime <= firstByteTime
    /\ 1 <= now
    /\ main = "report" => reportNow <= now
    /\ main \in BeforeFirst => totalReceivedBytes = 0

\* main sleeps the whole pause past the last report and past the first byte,
\* so the clock it reads before the mutex is that far ahead of both.
SleepInv ==
    /\ StatesHistory # <<>> => firstByteTime <= lastReportTime
    /\ StatesHistory = <<>> => lastReportTime = 0
    /\ main \in BeforeFirst => StatesHistory = <<>>
    /\ main = "sleep" => /\ wake >= firstByteTime + Pause
                         /\ wake >= lastReportTime + Pause
    /\ main = "report" => /\ reportNow >= firstByteTime + Pause
                          /\ reportNow >= lastReportTime + Pause

ReportsInv == ReportsTile /\ ReportsAreLong

\* The two ends of the connection and the request on it: the server's end is
\* closed only by the client's close, which main does at the end and the
\* interrupt handler at any time; a Read fails only on a failed connection.
ConnInv ==
    /\ Running /\ main \in BeforeDial => clientConn = "none"
    /\ clientConn = "none" => serverConn = "none" /\ main \in BeforeDial
    /\ serverConn = "closed" => clientConn = "closed"
    /\ clientConn = "closed" => interrupted \/ main \in {"total", "export"}
    /\ readResult.err = "failed" => clientConn = "failed"
    /\ stream # "none" => request # "none"
    /\ request \in {"none", message}

\* A cache that is set, or is being set, holds the first value that arrived, and
\* nothing has arrived for one that is not; a Put between its assignment and its
\* cancel is one of an empty cache.
PrepareInv ==
    /\ \A s \in Slots :
        /\ putting = s => ~single[s].done
        /\ single[s].done \/ putting = s => single[s].value = 1
        /\ ~single[s].done /\ putting # s => received[s] = 0
    /\ main \in {"token", "pingClose"} => single["session"].done /\
        stored["session"] = 1
    /\ main = "pingClose" => single["token"].done
    /\ PreparedWithFirst

QperfInv ==
    /\ Flags /\ MainPlace /\ Places /\ ServerPlaces /\ LinkInv /\ Numbers /\
        ZeroTypeOK
    /\ CountingInv /\ ClockInv /\ SleepInv /\ ReportsInv
    /\ ConnInv /\ PrepareInv /\ PanicsAfterFailure /\ LogTellsOutcome

-----------------------------------------------------------------------------
\* common.MaxTime returns one of its arguments, and none is later.
LEMMA MaxTimeFacts ==
    ASSUME NEW s \in Nat, NEW t \in Nat, NEW u \in Nat
    PROVE  /\ MaxTime(s, t, u) \in {s, t, u}
           /\ MaxTime(s, t, u) >= s /\ MaxTime(s, t, u) >= t /\ MaxTime(s, t, u) >= u
<1>1. \E m \in {s, t, u} : \A x \in {s, t, u} : x <= m
  <2>1. CASE s >= t /\ s >= u
    BY <2>1
  <2>2. CASE t >= s /\ t >= u
    BY <2>2
  <2>3. CASE u >= s /\ u >= t
    BY <2>3
  <2> QED BY <2>1, <2>2, <2>3
<1> QED BY <1>1 DEF MaxTime

\* The options never change, and neither does what main sleeps.
LEMMA PauseStays == [Next]_vars => UNCHANGED <<reportInterval, Pause>>
<1> SUFFICES ASSUME [Next]_vars PROVE UNCHANGED <<reportInterval, Pause>>
  OBVIOUS
<1>1. UNCHANGED reportInterval
  BY DEF Next, ClientNext, MainStep, PrepareStep,
     ReceiverStep, ServerNext, SessionStep, StreamStep, Finished, vars,
     Client, PingDial, PingStep, PingDialFails, Await, PingClose,
     SetStartTime, Dial, DialFails,
     SendRequest, ReceiveFirstByte, FirstByteFails,
     CheckProbeTime, WakeUp, MakeReport,
     CloseConnection, ReportTotal, ExportStates, InterruptCloses,
     ReadStream, CountRead, InterruptExits, ClockTicks,
     Server, Link, Zero, setupVars, clientVars
<1> QED BY <1>1 DEF Pause

\* The pause is a natural number whatever --report-interval is.
LEMMA PauseType == Numbers => Pause \in Nat
BY ClientAssumption DEF Numbers, Pause

\* The report main is about to make covers what main slept, or more, and no
\* subtraction of GetAndResetReport goes below zero.
LEMMA ReportOfType ==
    ASSUME Numbers, ClockInv, SleepInv, CountingInv, main = "report"
    PROVE  ReportOf \in Report /\ ReportOf.delta >= Pause
<1>1. /\ reportNow \in Nat /\ startTime \in Nat /\ firstByteTime \in Nat
      /\ lastReportTime \in Nat /\ Pause \in Nat
  BY PauseType DEF Numbers
<1>2. /\ startTime <= firstByteTime
      /\ reportNow >= firstByteTime + Pause
      /\ reportNow >= lastReportTime + Pause
  BY DEF SleepInv, ClockInv, BeforeFirst, BeforeDial, Preparing
<1>3. MaxTime(lastReportTime, firstByteTime, startTime)
        \in {lastReportTime, firstByteTime, startTime}
  BY <1>1, MaxTimeFacts
<1> DEFINE delta == reportNow - MaxTime(lastReportTime, firstByteTime, startTime)
<1>4. delta \in Nat /\ delta >= Pause
  BY <1>1, <1>2, <1>3
<1>5. /\ totalReceivedBytes - lastReportReceivedBytes \in Nat
      /\ totalReceivedBytes \in Nat
  BY DEF Numbers, CountingInv, BytesAccounted
<1>6. ReportOf = [bytes |-> totalReceivedBytes - lastReportReceivedBytes,
                  delta |-> delta, at |-> reportNow, upTo |-> totalReceivedBytes]
  BY DEF ReportOf
<1> HIDE DEF delta
<1> QED BY <1>1, <1>4, <1>5, <1>6 DEF Report

\* A step keeps each part of the type invariant.
LEMMA FlagsStep == Flags /\ [Next]_vars => Flags'
<1> SUFFICES ASSUME Flags, [Next]_vars PROVE Flags'
  OBVIOUS
<1> USE DEF Flags, setupVars, clientVars, serverVars
<1>1. CASE Client(InterruptCloses)
  BY <1>1 DEF Client, InterruptCloses, CloseWithError
<1>2. CASE Server(AcceptConnection)
  BY <1>2 DEF Server, AcceptConnection
<1>3. CASE Server(AcceptPing)
  BY <1>3 DEF Server, AcceptPing
<1>4. CASE UNCHANGED <<timeToFirstByteOnly, use0RTT, interrupted, knownCC, serverUp>>
  BY <1>4
<1> QED
  BY <1>1, <1>2, <1>3, <1>4 DEF Next, ClientNext, MainStep, PrepareStep,
     ReceiverStep, ServerNext, SessionStep, StreamStep, Finished, vars,
     Client, PingDial, PingStep, PingDialFails, Panic, Await, PingClose,
     NewSingleCaches, SetStartTime, Dial, SetEstablishmentTime, DialFails,
     SendRequest, ReceiveFirstByte, AddReceivedBytes, FirstByteFails,
     CheckProbeTime, SleepEnd, FirstByteSeen, WakeUp, MakeReport, ResetReport,
     CloseConnection, CloseWithError, ReportTotal, Total, ExportStates,
     ReadStream, CountRead, Counted, Unexpected, InterruptExits, ClockTicks,
     Server, AcceptStream, SessionEnds, LogOnce, ReadRequest, WriteChunk,
     WindowOpen, StreamEnds, Link, HandshakeArrives, Zero, PutArrives,
     PutValue, StillEmpty, PutCompletes, PutCancels, PingBreaks,
     PingConnFails, CloseArrives, PathFails, ServerTimesOut, ClientTimesOut,
     setupVars, zeroVars, stateVars, resultVars, linkVars, clientVars,
     serverVars

LEMMA LinkStep == LinkInv /\ RequestKind /\ [Next]_vars => LinkInv'
<1> SUFFICES ASSUME LinkInv, RequestKind, [Next]_vars PROVE LinkInv'
  OBVIOUS
<1> USE LinkAssumption DEF RequestKind, LinkInv, LinkTypeOK, setupVars, zeroVars,
    stateVars, resultVars, linkVars,
   clientVars, serverVars
<1>1. CASE Client(Dial)
  BY <1>1 DEF Client, Dial, SetEstablishmentTime
<1>2. CASE Client(DialFails)
  BY <1>2 DEF Client, DialFails, Panic
<1>3. CASE Client(SendRequest)
  BY <1>3 DEF Client, SendRequest, Panic
<1>4. CASE Client(ReceiveFirstByte)
  BY <1>4 DEF Client, ReceiveFirstByte, AddReceivedBytes
<1>5. CASE Client(CloseConnection)
  BY <1>5 DEF Client, CloseConnection, CloseWithError
<1>6. CASE Client(\E n \in 0..ReceiveWindow : ReadStream(n))
  BY <1>6 DEF Client, ReadStream
<1>7. CASE Client(CountRead)
  BY <1>7 DEF Client, CountRead, AddReceivedBytes, Counted, Unexpected, Panic
<1>8. CASE Client(InterruptCloses)
  BY <1>8 DEF Client, InterruptCloses, CloseWithError
<1>9. CASE Server(WriteChunk)
  BY <1>9 DEF Server, WriteChunk, WindowOpen
<1>10. CASE Link(HandshakeArrives)
  BY <1>10 DEF Link, HandshakeArrives
<1>11. CASE Link(CloseArrives)
  BY <1>11 DEF Link, CloseArrives
<1>12. CASE Link(PathFails)
  BY <1>12 DEF Link, PathFails
<1>13. CASE Link(ServerTimesOut(~Running))
  BY <1>13 DEF Link, ServerTimesOut
<1>14. CASE Link(ClientTimesOut(ServerSilent))
  BY <1>14 DEF Link, ClientTimesOut
<1>15. CASE UNCHANGED <<linkVars, receiver>>
  BY <1>15
<1> QED
  BY <1>1, <1>2, <1>3, <1>4, <1>5, <1>6, <1>7, <1>8, <1>9, <1>10, <1>11,
     <1>12, <1>13, <1>14, <1>15 DEF Next, ClientNext, MainStep, PrepareStep,
     ReceiverStep, ServerNext, SessionStep, StreamStep, Finished, vars,
     Client, PingDial, PingStep, PingDialFails, Panic, Await, PingClose,
     NewSingleCaches, SetStartTime, FirstByteFails, CheckProbeTime, SleepEnd,
     FirstByteSeen, WakeUp, MakeReport, ResetReport, ReportTotal, Total,
     ExportStates, InterruptExits, ClockTicks, Server, AcceptConnection,
     AcceptStream, SessionEnds, LogOnce, ReadRequest, StreamEnds, AcceptPing,
     Zero, PutArrives, PutValue, StillEmpty, PutCompletes, PutCancels,
     PingBreaks, PingConnFails, setupVars, zeroVars, stateVars, resultVars,
     linkVars, clientVars, serverVars

LEMMA MainPlaceStep == MainPlace /\ [Next]_vars => MainPlace'
<1> SUFFICES ASSUME MainPlace, [Next]_vars PROVE MainPlace'
  OBVIOUS
<1> USE DEF MainPlace, clientVars
<1>1. CASE Client(PingDial)
  BY <1>1 DEF Client, PingDial, PingStep
<1>2. CASE Client(Await("session", "token"))
  BY <1>2 DEF Client, Await, PingStep
<1>3. CASE Client(Await("token", "pingClose"))
  BY <1>3 DEF Client, Await, PingStep
<1>4. CASE Client(PingClose)
  BY <1>4 DEF Client, PingClose, PingStep, NewSingleCaches
<1>5. CASE Client(SetStartTime)
  BY <1>5 DEF Client, SetStartTime, Panic
<1>6. CASE Client(Dial)
  BY <1>6 DEF Client, Dial, SetEstablishmentTime
<1>7. CASE Client(SendRequest)
  BY <1>7 DEF Client, SendRequest, Panic
<1>8. CASE Client(ReceiveFirstByte)
  BY <1>8 DEF Client, ReceiveFirstByte, AddReceivedBytes
<1>9. CASE Client(CheckProbeTime)
  BY <1>9 DEF Client, CheckProbeTime, Panic, SleepEnd, FirstByteSeen
<1>10. CASE Client(WakeUp)
  BY <1>10 DEF Client, WakeUp
<1>11. CASE Client(MakeReport)
  BY <1>11 DEF Client, MakeReport, ResetReport
<1>12. CASE Client(CloseConnection)
  BY <1>12 DEF Client, CloseConnection, CloseWithError
<1>13. CASE Client(ReportTotal)
  BY <1>13 DEF Client, ReportTotal, Total
<1>14. CASE UNCHANGED <<main>>
  BY <1>14
<1> QED
  BY <1>1, <1>2, <1>3, <1>4, <1>5, <1>6, <1>7, <1>8, <1>9, <1>10, <1>11,
     <1>12, <1>13, <1>14 DEF Next, ClientNext, MainStep, PrepareStep,
     ReceiverStep, ServerNext, SessionStep, StreamStep, Finished, vars,
     Client, PingDialFails, PingStep, Panic, DialFails, FirstByteFails,
     ExportStates, ReadStream, CountRead, AddReceivedBytes, Counted,
     Unexpected, InterruptCloses, CloseWithError, InterruptExits, ClockTicks,
     Server, AcceptConnection, AcceptStream, SessionEnds, LogOnce,
     ReadRequest, WriteChunk, WindowOpen, StreamEnds, AcceptPing, Link,
     HandshakeArrives, Zero, PutArrives, PutValue, StillEmpty, PutCompletes,
     PutCancels, PingBreaks, PingConnFails, CloseArrives, PathFails,
     ServerTimesOut, ClientTimesOut, setupVars, zeroVars, stateVars,
     resultVars, linkVars, clientVars, serverVars

LEMMA PlacesStep == Places /\ [Next]_vars => Places'
<1> SUFFICES ASSUME Places, [Next]_vars PROVE Places'
  OBVIOUS
<1> USE DEF Places, RequestKind, setupVars, resultVars, clientVars
<1>1. CASE Client(PingDialFails)
  BY <1>1 DEF Client, PingDialFails, PingStep, Panic
<1>2. CASE Client(SetStartTime)
  BY <1>2 DEF Client, SetStartTime, Panic
<1>3. CASE Client(Dial)
  BY <1>3 DEF Client, Dial, SetEstablishmentTime
<1>4. CASE Client(DialFails)
  BY <1>4 DEF Client, DialFails, Panic
<1>5. CASE Client(SendRequest)
  BY <1>5 DEF Client, SendRequest, Panic
<1>6. CASE Client(ReceiveFirstByte)
  BY <1>6 DEF Client, ReceiveFirstByte, AddReceivedBytes
<1>7. CASE Client(FirstByteFails)
  BY <1>7 DEF Client, FirstByteFails, Panic
<1>8. CASE Client(CheckProbeTime)
  BY <1>8 DEF Client, CheckProbeTime, Panic, SleepEnd, FirstByteSeen
<1>9. CASE Client(ExportStates)
  BY <1>9 DEF Client, ExportStates
<1>10. CASE Client(\E n \in 0..ReceiveWindow : ReadStream(n))
  BY <1>10 DEF Client, ReadStream
<1>11. CASE Client(CountRead)
  BY <1>11 DEF Client, CountRead, AddReceivedBytes, Counted, Unexpected, Panic
<1>12. CASE Client(InterruptCloses)
  BY <1>12 DEF Client, InterruptCloses, CloseWithError
<1>13. CASE Client(InterruptExits)
  BY <1>13 DEF Client, InterruptExits
<1>14. CASE UNCHANGED <<message, exit, receiver, interrupt, exported>>
  BY <1>14
<1> QED
  BY <1>1, <1>2, <1>3, <1>4, <1>5, <1>6, <1>7, <1>8, <1>9, <1>10, <1>11,
     <1>12, <1>13, <1>14 DEF Next, ClientNext, MainStep, PrepareStep,
     ReceiverStep, ServerNext, SessionStep, StreamStep, Finished, vars,
     Client, PingDial, PingStep, Await, PingClose, NewSingleCaches, WakeUp,
     MakeReport, ResetReport, CloseConnection, CloseWithError, ReportTotal,
     Total, ClockTicks, Server, AcceptConnection, AcceptStream, SessionEnds,
     LogOnce, ReadRequest, WriteChunk, WindowOpen, StreamEnds, AcceptPing,
     Link, HandshakeArrives, Zero, PutArrives, PutValue, StillEmpty,
     PutCompletes, PutCancels, PingBreaks, PingConnFails, CloseArrives,
     PathFails, ServerTimesOut, ClientTimesOut, setupVars, zeroVars,
     stateVars, resultVars, linkVars, clientVars, serverVars

LEMMA ServerPlacesStep == ServerPlaces /\ [Next]_vars => ServerPlaces'
<1> SUFFICES ASSUME ServerPlaces, [Next]_vars PROVE ServerPlaces'
  OBVIOUS
<1> USE DEF ServerPlaces, serverVars
<1>1. CASE Server(AcceptConnection)
  BY <1>1 DEF Server, AcceptConnection
<1>2. CASE Server(AcceptStream)
  BY <1>2 DEF Server, AcceptStream
<1>3. CASE Server(SessionEnds)
  BY <1>3 DEF Server, SessionEnds, LogOnce
<1>4. CASE Server(ReadRequest)
  BY <1>4 DEF Server, ReadRequest, LogOnce
<1>5. CASE Server(StreamEnds)
  BY <1>5 DEF Server, StreamEnds, LogOnce
<1>6. CASE UNCHANGED <<session, stream, closeLog>>
  BY <1>6
<1> QED
  BY <1>1, <1>2, <1>3, <1>4, <1>5, <1>6 DEF Next, ClientNext, MainStep,
     PrepareStep, ReceiverStep, ServerNext, SessionStep, StreamStep, Finished,
     vars, Client, PingDial, PingStep, PingDialFails, Panic, Await, PingClose,
     NewSingleCaches, SetStartTime, Dial, SetEstablishmentTime, DialFails,
     SendRequest, ReceiveFirstByte, AddReceivedBytes, FirstByteFails,
     CheckProbeTime, SleepEnd, FirstByteSeen, WakeUp, MakeReport, ResetReport,
     CloseConnection, CloseWithError, ReportTotal, Total, ExportStates,
     ReadStream, CountRead, Counted, Unexpected, InterruptCloses,
     InterruptExits, ClockTicks, Server, WriteChunk, WindowOpen, AcceptPing,
     Link, HandshakeArrives, Zero, PutArrives, PutValue, StillEmpty,
     PutCompletes, PutCancels, PingBreaks, PingConnFails, CloseArrives,
     PathFails, ServerTimesOut, ClientTimesOut, setupVars, zeroVars,
     stateVars, resultVars, linkVars, clientVars, serverVars

LEMMA NumbersStep ==
    Numbers /\ LinkInv /\ ClockInv /\ SleepInv /\ CountingInv /\ [Next]_vars
        => Numbers'
<1> SUFFICES ASSUME Numbers, LinkInv, ClockInv, SleepInv, CountingInv, [Next]_vars
             PROVE Numbers'
  OBVIOUS
<1>0. Pause \in Nat /\ UNCHANGED <<reportInterval, Pause>>
  BY PauseStays, PauseType
<1> USE <1>0, LinkAssumption DEF Numbers, LinkInv, LinkTypeOK,
   stateVars, resultVars, clientVars
<1>1. CASE Client(SetStartTime)
  BY <1>1 DEF Client, SetStartTime, Panic
<1>2. CASE Client(Dial)
  BY <1>2 DEF Client, Dial, SetEstablishmentTime
<1>3. CASE Client(ReceiveFirstByte)
  BY <1>3 DEF Client, ReceiveFirstByte, AddReceivedBytes
<1>4. CASE Client(CheckProbeTime)
  BY <1>4 DEF Client, CheckProbeTime, Panic, SleepEnd, FirstByteSeen
<1>5. CASE Client(WakeUp)
  BY <1>5 DEF Client, WakeUp
<1>6. CASE Client(MakeReport)
  <2>1. ReportOf \in Report
    BY <1>6, ReportOfType DEF Client, MakeReport
  <2> QED BY <1>6, <2>1 DEF Client, MakeReport, ResetReport
<1>7. CASE Client(ReportTotal)
  BY <1>7 DEF Client, ReportTotal, Total
<1>8. CASE Client(\E n \in 0..ReceiveWindow : ReadStream(n))
  BY <1>8 DEF Client, ReadStream
<1>9. CASE Client(CountRead)
  BY <1>9 DEF Client, CountRead, AddReceivedBytes, Counted, Unexpected, Panic
<1>10. CASE Client(ClockTicks)
  BY <1>10 DEF Client, ClockTicks
<1>11. CASE UNCHANGED <<now, wake, reportNow, readResult, stateVars, StatesHistory,
    printedTotal>>
  BY <1>11
<1> QED
  BY <1>1, <1>2, <1>3, <1>4, <1>5, <1>6, <1>7, <1>8, <1>9, <1>10, <1>11 DEF
     Next, ClientNext, MainStep, PrepareStep, ReceiverStep, ServerNext,
     SessionStep, StreamStep, Finished, vars, Client, PingDial, PingStep,
     PingDialFails, Panic, Await, PingClose, NewSingleCaches, DialFails,
     SendRequest, FirstByteFails, CloseConnection, CloseWithError,
     ExportStates, InterruptCloses, InterruptExits, Server, AcceptConnection,
     AcceptStream, SessionEnds, LogOnce, ReadRequest, WriteChunk, WindowOpen,
     StreamEnds, AcceptPing, Link, HandshakeArrives, Zero, PutArrives,
     PutValue, StillEmpty, PutCompletes, PutCancels, PingBreaks,
     PingConnFails, CloseArrives, PathFails, ServerTimesOut, ClientTimesOut,
     setupVars, zeroVars, stateVars, resultVars, linkVars, clientVars,
     serverVars

LEMMA ZeroTypeStep == ZeroTypeOK /\ [Next]_vars => ZeroTypeOK'
<1> SUFFICES ASSUME ZeroTypeOK, [Next]_vars PROVE ZeroTypeOK'
  OBVIOUS
<1> USE DEF ZeroTypeOK, Slots, MaxPuts, zeroVars
<1>1. CASE Client(PingDial)
  BY <1>1 DEF Client, PingDial, PingStep
<1>2. CASE Client(PingDialFails)
  BY <1>2 DEF Client, PingDialFails, PingStep, Panic
<1>3. CASE Client(Await("session", "token"))
  BY <1>3 DEF Client, Await, PingStep
<1>4. CASE Client(Await("token", "pingClose"))
  BY <1>4 DEF Client, Await, PingStep
<1>5. CASE Client(PingClose)
  BY <1>5 DEF Client, PingClose, PingStep, NewSingleCaches
<1>6. CASE \E s \in Slots : Zero(PutArrives(s))
  BY <1>6 DEF Zero, PutArrives, PutValue, StillEmpty
<1>7. CASE Zero(PutCompletes)
  BY <1>7 DEF Zero, PutCompletes, PutCancels
<1>8. CASE Zero(PingBreaks)
  BY <1>8 DEF Zero, PingBreaks, PingConnFails
<1>9. CASE UNCHANGED <<zeroVars>>
  BY <1>9
<1> QED
  BY <1>1, <1>2, <1>3, <1>4, <1>5, <1>6, <1>7, <1>8, <1>9 DEF Next,
     ClientNext, MainStep, PrepareStep, ReceiverStep, ServerNext, SessionStep,
     StreamStep, Finished, vars, Client, SetStartTime, Panic, Dial,
     SetEstablishmentTime, DialFails, SendRequest, ReceiveFirstByte,
     AddReceivedBytes, FirstByteFails, CheckProbeTime, SleepEnd,
     FirstByteSeen, WakeUp, MakeReport, ResetReport, CloseConnection,
     CloseWithError, ReportTotal, Total, ExportStates, ReadStream, CountRead,
     Counted, Unexpected, InterruptCloses, InterruptExits, ClockTicks, Server,
     AcceptConnection, AcceptStream, SessionEnds, LogOnce, ReadRequest,
     WriteChunk, WindowOpen, StreamEnds, AcceptPing, Link, HandshakeArrives,
     CloseArrives, PathFails, ServerTimesOut, ClientTimesOut, setupVars,
     zeroVars, stateVars, resultVars, linkVars, clientVars, serverVars

-----------------------------------------------------------------------------
\* The counters: a step keeps CountingInv.
LEMMA CountingStep == CountingInv /\ Numbers /\ LinkInv /\ [Next]_vars => CountingInv'
<1> SUFFICES ASSUME CountingInv, Numbers, LinkInv, [Next]_vars PROVE CountingInv'
  OBVIOUS
<1> USE DEF CountingInv, BytesAccounted, BeforeFirst, BeforeDial, Preparing,
   Numbers, LinkInv, LinkTypeOK, linkVars, stateVars, resultVars, clientVars
<1>1. CASE Client(PingDial)
  BY <1>1 DEF Client, PingDial, PingStep
<1>2. CASE Client(PingDialFails)
  BY <1>2 DEF Client, PingDialFails, PingStep, Panic
<1>3. CASE Client(Await("session", "token"))
  BY <1>3 DEF Client, Await, PingStep
<1>4. CASE Client(Await("token", "pingClose"))
  BY <1>4 DEF Client, Await, PingStep
<1>5. CASE Client(PingClose)
  BY <1>5 DEF Client, PingClose, PingStep, NewSingleCaches
<1>6. CASE Client(SetStartTime)
  BY <1>6 DEF Client, SetStartTime, Panic
<1>7. CASE Client(Dial)
  BY <1>7 DEF Client, Dial, SetEstablishmentTime
<1>8. CASE Client(DialFails)
  BY <1>8 DEF Client, DialFails, Panic
<1>9. CASE Client(SendRequest)
  BY <1>9 DEF Client, SendRequest, Panic
<1>10. CASE Client(ReceiveFirstByte)
  BY <1>10 DEF Client, ReceiveFirstByte, AddReceivedBytes
<1>11. CASE Client(CheckProbeTime)
  BY <1>11 DEF Client, CheckProbeTime, Panic, SleepEnd, FirstByteSeen
<1>12. CASE Client(WakeUp)
  BY <1>12 DEF Client, WakeUp
<1>13. CASE Client(MakeReport)
  BY <1>13 DEF Client, MakeReport, ResetReport
<1>14. CASE Client(CloseConnection)
  BY <1>14 DEF Client, CloseConnection, CloseWithError
<1>15. CASE Client(ReportTotal)
  BY <1>15 DEF Client, ReportTotal, Total
<1>16. CASE Client(\E n \in 0..ReceiveWindow : ReadStream(n))
  BY <1>16 DEF Client, ReadStream
<1>17. CASE Client(CountRead)
  BY <1>17 DEF Client, CountRead, AddReceivedBytes, Counted, Unexpected, Panic
<1>18. CASE UNCHANGED <<consumed, totalReceivedBytes, lastReportReceivedBytes,
    readResult, receiver, main, printedTotal>>
  BY <1>18
<1> QED
  BY <1>1, <1>2, <1>3, <1>4, <1>5, <1>6, <1>7, <1>8, <1>9, <1>10, <1>11,
     <1>12, <1>13, <1>14, <1>15, <1>16, <1>17, <1>18 DEF Next, ClientNext,
     MainStep, PrepareStep, ReceiverStep, ServerNext, SessionStep, StreamStep,
     Finished, vars, Client, FirstByteFails, Panic, ExportStates,
     InterruptCloses, CloseWithError, InterruptExits, ClockTicks, Server,
     AcceptConnection, AcceptStream, SessionEnds, LogOnce, ReadRequest,
     WriteChunk, WindowOpen, StreamEnds, AcceptPing, Link, HandshakeArrives,
     Zero, PutArrives, PutValue, StillEmpty, PutCompletes, PutCancels,
     PingBreaks, PingConnFails, CloseArrives, PathFails, ServerTimesOut,
     ClientTimesOut, setupVars, zeroVars, stateVars, resultVars, linkVars,
     clientVars, serverVars

\* The order of the times: a step keeps ClockInv.
LEMMA ClockStep == ClockInv /\ Numbers /\ CountingInv /\ [Next]_vars => ClockInv'
<1> SUFFICES ASSUME ClockInv, Numbers, CountingInv, [Next]_vars PROVE ClockInv'
  OBVIOUS
<1> USE DEF ClockInv, CountingInv, BeforeFirst, BeforeDial, Preparing,
   Numbers, stateVars, clientVars
<1>1. CASE Client(PingDial)
  BY <1>1 DEF Client, PingDial, PingStep
<1>2. CASE Client(PingDialFails)
  BY <1>2 DEF Client, PingDialFails, PingStep, Panic
<1>3. CASE Client(Await("session", "token"))
  BY <1>3 DEF Client, Await, PingStep
<1>4. CASE Client(Await("token", "pingClose"))
  BY <1>4 DEF Client, Await, PingStep
<1>5. CASE Client(PingClose)
  BY <1>5 DEF Client, PingClose, PingStep, NewSingleCaches
<1>6. CASE Client(SetStartTime)
  BY <1>6 DEF Client, SetStartTime, Panic
<1>7. CASE Client(Dial)
  BY <1>7 DEF Client, Dial, SetEstablishmentTime
<1>8. CASE Client(DialFails)
  BY <1>8 DEF Client, DialFails, Panic
<1>9. CASE Client(SendRequest)
  BY <1>9 DEF Client, SendRequest, Panic
<1>10. CASE Client(ReceiveFirstByte)
  BY <1>10 DEF Client, ReceiveFirstByte, AddReceivedBytes
<1>11. CASE Client(CheckProbeTime)
  BY <1>11 DEF Client, CheckProbeTime, Panic, SleepEnd, FirstByteSeen
<1>12. CASE Client(WakeUp)
  BY <1>12 DEF Client, WakeUp
<1>13. CASE Client(MakeReport)
  BY <1>13 DEF Client, MakeReport, ResetReport
<1>14. CASE Client(CloseConnection)
  BY <1>14 DEF Client, CloseConnection, CloseWithError
<1>15. CASE Client(ReportTotal)
  BY <1>15 DEF Client, ReportTotal, Total
<1>16. CASE Client(CountRead)
  BY <1>16 DEF Client, CountRead, AddReceivedBytes, Counted, Unexpected, Panic
<1>17. CASE Client(ClockTicks)
  BY <1>17 DEF Client, ClockTicks
<1>18. CASE UNCHANGED <<now, main, reportNow, startTime, firstByteTime,
    lastReportTime, totalReceivedBytes>>
  BY <1>18
<1> QED
  BY <1>1, <1>2, <1>3, <1>4, <1>5, <1>6, <1>7, <1>8, <1>9, <1>10, <1>11,
     <1>12, <1>13, <1>14, <1>15, <1>16, <1>17, <1>18 DEF Next, ClientNext,
     MainStep, PrepareStep, ReceiverStep, ServerNext, SessionStep, StreamStep,
     Finished, vars, Client, FirstByteFails, Panic, ExportStates, ReadStream,
     InterruptCloses, CloseWithError, InterruptExits, Server,
     AcceptConnection, AcceptStream, SessionEnds, LogOnce, ReadRequest,
     WriteChunk, WindowOpen, StreamEnds, AcceptPing, Link, HandshakeArrives,
     Zero, PutArrives, PutValue, StillEmpty, PutCompletes, PutCancels,
     PingBreaks, PingConnFails, CloseArrives, PathFails, ServerTimesOut,
     ClientTimesOut, setupVars, zeroVars, stateVars, resultVars, linkVars,
     clientVars, serverVars

\* The sleep between two reports: a step keeps SleepInv.
LEMMA SleepStep ==
    SleepInv /\ Numbers /\ CountingInv /\ ClockInv /\ ClockInv' /\ [Next]_vars
        => SleepInv'
<1> SUFFICES ASSUME SleepInv, Numbers, CountingInv, ClockInv, ClockInv', [Next]_vars
             PROVE SleepInv'
  OBVIOUS
<1>0. Pause \in Nat /\ UNCHANGED <<reportInterval, Pause>>
  BY PauseStays, PauseType
<1> USE <1>0 DEF SleepInv, ClockInv, CountingInv, BeforeFirst,
   BeforeDial, Preparing, Numbers, stateVars, resultVars, clientVars
<1>1. CASE Client(PingDial)
  BY <1>1 DEF Client, PingDial, PingStep
<1>2. CASE Client(PingDialFails)
  BY <1>2 DEF Client, PingDialFails, PingStep, Panic
<1>3. CASE Client(Await("session", "token"))
  BY <1>3 DEF Client, Await, PingStep
<1>4. CASE Client(Await("token", "pingClose"))
  BY <1>4 DEF Client, Await, PingStep
<1>5. CASE Client(PingClose)
  BY <1>5 DEF Client, PingClose, PingStep, NewSingleCaches
<1>6. CASE Client(SetStartTime)
  BY <1>6 DEF Client, SetStartTime, Panic
<1>7. CASE Client(Dial)
  BY <1>7 DEF Client, Dial, SetEstablishmentTime
<1>8. CASE Client(DialFails)
  BY <1>8 DEF Client, DialFails, Panic
<1>9. CASE Client(SendRequest)
  BY <1>9 DEF Client, SendRequest, Panic
<1>10. CASE Client(ReceiveFirstByte)
  BY <1>10 DEF Client, ReceiveFirstByte, AddReceivedBytes
<1>11. CASE Client(CheckProbeTime)
  BY <1>11 DEF Client, CheckProbeTime, Panic, SleepEnd, FirstByteSeen
<1>12. CASE Client(WakeUp)
  BY <1>12 DEF Client, WakeUp
<1>13. CASE Client(MakeReport)
  <2>1. StatesHistory' # <<>>
    BY <1>13 DEF Client, MakeReport, ResetReport
  <2> QED BY <1>13, <2>1 DEF Client, MakeReport, ResetReport
<1>14. CASE Client(CloseConnection)
  BY <1>14 DEF Client, CloseConnection, CloseWithError
<1>15. CASE Client(ReportTotal)
  BY <1>15 DEF Client, ReportTotal, Total
<1>16. CASE Client(CountRead)
  BY <1>16 DEF Client, CountRead, AddReceivedBytes, Counted, Unexpected, Panic
<1>17. CASE Client(ClockTicks)
  BY <1>17 DEF Client, ClockTicks
<1>18. CASE UNCHANGED <<now, main, wake, reportNow, firstByteTime, lastReportTime,
    StatesHistory>>
  BY <1>18
<1> QED
  BY <1>1, <1>2, <1>3, <1>4, <1>5, <1>6, <1>7, <1>8, <1>9, <1>10, <1>11,
     <1>12, <1>13, <1>14, <1>15, <1>16, <1>17, <1>18 DEF Next, ClientNext,
     MainStep, PrepareStep, ReceiverStep, ServerNext, SessionStep, StreamStep,
     Finished, vars, Client, FirstByteFails, Panic, ExportStates, ReadStream,
     InterruptCloses, CloseWithError, InterruptExits, Server,
     AcceptConnection, AcceptStream, SessionEnds, LogOnce, ReadRequest,
     WriteChunk, WindowOpen, StreamEnds, AcceptPing, Link, HandshakeArrives,
     Zero, PutArrives, PutValue, StillEmpty, PutCompletes, PutCancels,
     PingBreaks, PingConnFails, CloseArrives, PathFails, ServerTimesOut,
     ClientTimesOut, setupVars, zeroVars, stateVars, resultVars, linkVars,
     clientVars, serverVars

-----------------------------------------------------------------------------
\* The connection: a step keeps ConnInv.
LEMMA ConnStep == ConnInv /\ LinkInv /\ Places /\ [Next]_vars => ConnInv'
<1> SUFFICES ASSUME ConnInv, LinkInv, Places, [Next]_vars PROVE ConnInv'
  OBVIOUS
<1> USE DEF ConnInv, LinkInv, LinkTypeOK, Running,
   Preparing, BeforeDial, Places, linkVars, setupVars, clientVars, serverVars
<1>1. CASE Client(PingDial)
  BY <1>1 DEF Client, PingDial, PingStep
<1>2. CASE Client(PingDialFails)
  BY <1>2 DEF Client, PingDialFails, PingStep, Panic
<1>3. CASE Client(Await("session", "token"))
  BY <1>3 DEF Client, Await, PingStep
<1>4. CASE Client(Await("token", "pingClose"))
  BY <1>4 DEF Client, Await, PingStep
<1>5. CASE Client(PingClose)
  BY <1>5 DEF Client, PingClose, PingStep, NewSingleCaches
<1>6. CASE Client(SetStartTime)
  BY <1>6 DEF Client, SetStartTime, Panic
<1>7. CASE Client(Dial)
  BY <1>7 DEF Client, Dial, SetEstablishmentTime
<1>8. CASE Client(DialFails)
  BY <1>8 DEF Client, DialFails, Panic
<1>9. CASE Client(SendRequest)
  BY <1>9 DEF Client, SendRequest, Panic
<1>10. CASE Client(ReceiveFirstByte)
  BY <1>10 DEF Client, ReceiveFirstByte, AddReceivedBytes
<1>11. CASE Client(FirstByteFails)
  BY <1>11 DEF Client, FirstByteFails, Panic
<1>12. CASE Client(CheckProbeTime)
  BY <1>12 DEF Client, CheckProbeTime, Panic, SleepEnd, FirstByteSeen
<1>13. CASE Client(WakeUp)
  BY <1>13 DEF Client, WakeUp
<1>14. CASE Client(MakeReport)
  BY <1>14 DEF Client, MakeReport, ResetReport
<1>15. CASE Client(CloseConnection)
  BY <1>15 DEF Client, CloseConnection, CloseWithError
<1>16. CASE Client(ReportTotal)
  BY <1>16 DEF Client, ReportTotal, Total
<1>17. CASE Client(ExportStates)
  BY <1>17 DEF Client, ExportStates
<1>18. CASE Client(\E n \in 0..ReceiveWindow : ReadStream(n))
  BY <1>18 DEF Client, ReadStream
<1>19. CASE Client(CountRead)
  BY <1>19 DEF Client, CountRead, AddReceivedBytes, Counted, Unexpected, Panic
<1>20. CASE Client(InterruptCloses)
  BY <1>20 DEF Client, InterruptCloses, CloseWithError
<1>21. CASE Client(InterruptExits)
  BY <1>21 DEF Client, InterruptExits
<1>22. CASE Client(ClockTicks)
  BY <1>22 DEF Client, ClockTicks
<1>23. CASE Server(AcceptStream)
  BY <1>23 DEF Server, AcceptStream
<1>24. CASE Server(ReadRequest)
  BY <1>24 DEF Server, ReadRequest, LogOnce
<1>25. CASE Server(StreamEnds)
  BY <1>25 DEF Server, StreamEnds, LogOnce
<1>26. CASE Link(HandshakeArrives)
  BY <1>26 DEF Link, HandshakeArrives
<1>27. CASE Link(CloseArrives)
  BY <1>27 DEF Link, CloseArrives
<1>28. CASE Link(PathFails)
  BY <1>28 DEF Link, PathFails
<1>29. CASE Link(ServerTimesOut(~Running))
  BY <1>29 DEF Link, ServerTimesOut
<1>30. CASE Link(ClientTimesOut(ServerSilent))
  BY <1>30 DEF Link, ClientTimesOut
<1>31. CASE UNCHANGED <<clientConn, serverConn, request, exit, main, interrupted,
    readResult, message, stream>>
  BY <1>31
<1> QED
  BY <1>1, <1>2, <1>3, <1>4, <1>5, <1>6, <1>7, <1>8, <1>9, <1>10, <1>11,
     <1>12, <1>13, <1>14, <1>15, <1>16, <1>17, <1>18, <1>19, <1>20, <1>21,
     <1>22, <1>23, <1>24, <1>25, <1>26, <1>27, <1>28, <1>29, <1>30, <1>31 DEF
     Next, ClientNext, MainStep, PrepareStep, ReceiverStep, ServerNext,
     SessionStep, StreamStep, Finished, vars, Server, AcceptConnection,
     SessionEnds, LogOnce, WriteChunk, WindowOpen, AcceptPing, Zero,
     PutArrives, PutValue, StillEmpty, PutCompletes, PutCancels, PingBreaks,
     PingConnFails, Client, setupVars, zeroVars, stateVars, resultVars,
     linkVars, clientVars, serverVars

\* The preparation: a step keeps PrepareInv.
LEMMA PreparedStep == PrepareInv /\ ZeroTypeOK /\ [Next]_vars => PrepareInv'
<1> SUFFICES ASSUME PrepareInv, ZeroTypeOK, [Next]_vars PROVE PrepareInv'
  OBVIOUS
<1> USE DEF PrepareInv, PreparedWithFirst, ZeroTypeOK, Slots, MaxPuts,
   zeroVars, setupVars, clientVars
<1>1. CASE Client(PingDial)
  BY <1>1 DEF Client, PingDial, PingStep
<1>2. CASE Client(Await("session", "token"))
  BY <1>2 DEF Client, Await, PingStep
<1>3. CASE Client(Await("token", "pingClose"))
  BY <1>3 DEF Client, Await, PingStep
<1>4. CASE Client(PingClose)
  BY <1>4 DEF Client, PingClose, PingStep, NewSingleCaches
<1>5. CASE Client(SetStartTime)
  BY <1>5 DEF Client, SetStartTime, Panic
<1>6. CASE Client(Dial)
  BY <1>6 DEF Client, Dial, SetEstablishmentTime
<1>7. CASE Client(SendRequest)
  BY <1>7 DEF Client, SendRequest, Panic
<1>8. CASE Client(ReceiveFirstByte)
  BY <1>8 DEF Client, ReceiveFirstByte, AddReceivedBytes
<1>9. CASE Client(CheckProbeTime)
  BY <1>9 DEF Client, CheckProbeTime, Panic, SleepEnd, FirstByteSeen
<1>10. CASE Client(WakeUp)
  BY <1>10 DEF Client, WakeUp
<1>11. CASE Client(MakeReport)
  BY <1>11 DEF Client, MakeReport, ResetReport
<1>12. CASE Client(CloseConnection)
  BY <1>12 DEF Client, CloseConnection, CloseWithError
<1>13. CASE Client(ReportTotal)
  BY <1>13 DEF Client, ReportTotal, Total
<1>14. CASE \E s \in Slots : Zero(PutArrives(s))
  BY <1>14 DEF Zero, PutArrives, PutValue, StillEmpty
<1>15. CASE Zero(PutCompletes)
  BY <1>15 DEF Zero, PutCompletes, PutCancels
<1>16. CASE Zero(PingBreaks)
  BY <1>16 DEF Zero, PingBreaks, PingConnFails
<1>17. CASE Link(ClientTimesOut(ServerSilent))
  BY <1>17 DEF Link, ClientTimesOut
<1>18. CASE UNCHANGED <<single, putting, received, stored, use0RTT, main>>
  BY <1>18
<1> QED
  BY <1>1, <1>2, <1>3, <1>4, <1>5, <1>6, <1>7, <1>8, <1>9, <1>10, <1>11,
     <1>12, <1>13, <1>14, <1>15, <1>16, <1>17, <1>18 DEF Next, ClientNext,
     MainStep, PrepareStep, ReceiverStep, ServerNext, SessionStep, StreamStep,
     Finished, vars, Client, PingDialFails, PingStep, Panic, DialFails,
     FirstByteFails, ExportStates, ReadStream, CountRead, AddReceivedBytes,
     Counted, Unexpected, InterruptCloses, CloseWithError, InterruptExits,
     ClockTicks, Server, AcceptConnection, AcceptStream, SessionEnds, LogOnce,
     ReadRequest, WriteChunk, WindowOpen, StreamEnds, AcceptPing, Link,
     HandshakeArrives, CloseArrives, PathFails, ServerTimesOut, setupVars,
     zeroVars, stateVars, resultVars, linkVars, clientVars, serverVars

-----------------------------------------------------------------------------
\* The report main makes starts where the last one ended and is long enough.
LEMMA ReportAppended ==
    ASSUME Numbers, ClockInv, SleepInv, CountingInv, ReportsInv, Client(MakeReport),
           UNCHANGED <<reportInterval, Pause>>
    PROVE  ReportsInv'
<1> DEFINE n == Len(StatesHistory)
<1> DEFINE r == ReportOf
<1>1. /\ n \in Nat /\ r \in Report
      /\ StatesHistory' = Append(StatesHistory, r) /\ StatesHistory \in Seq(Report)
      /\ firstByteTime' = firstByteTime /\ lastReportTime' = reportNow
      /\ lastReportReceivedBytes' = totalReceivedBytes /\ main = "report"
      /\ r.delta >= Pause
  BY ReportOfType DEF Client, MakeReport, ResetReport, Numbers
<1>2. /\ Len(StatesHistory') = n + 1 /\ StatesHistory'[n + 1] = r
      /\ DOMAIN StatesHistory = 1..n /\ DOMAIN StatesHistory' = 1..(n + 1)
      /\ \A i \in 1..n : StatesHistory'[i] = StatesHistory[i]
  BY <1>1
<1>3. /\ r.at = reportNow /\ r.upTo = totalReceivedBytes
      /\ r.bytes = totalReceivedBytes - lastReportReceivedBytes
      /\ r.delta = reportNow - MaxTime(lastReportTime, firstByteTime, startTime)
  BY DEF ReportOf
<1> HIDE DEF r
<1>4. MaxTime(lastReportTime, firstByteTime, startTime)
        = IF n = 0 THEN firstByteTime ELSE StatesHistory[n].at
  <2>1. startTime <= firstByteTime
    BY <1>1 DEF ClockInv, BeforeFirst, BeforeDial, Preparing
  <2>2. n = 0 <=> StatesHistory = <<>>
    BY <1>1
  <2>3. n > 0 => lastReportTime = StatesHistory[n].at
    BY DEF ReportsInv, ReportsTile
  <2>4. /\ startTime \in Nat /\ firstByteTime \in Nat /\ lastReportTime \in Nat
        /\ n = 0 => lastReportTime = 0
        /\ n # 0 => firstByteTime <= lastReportTime
    BY <2>2 DEF Numbers, SleepInv
  <2> HIDE DEF n
  <2> QED BY <2>1, <2>3, <2>4, <1>1, MaxTimeFacts
<1>5. ReportsTile'
  <2>1. \A i \in 1..n :
          /\ StatesHistory[i].delta = StatesHistory[i].at
                - (IF i - 1 = 0 THEN firstByteTime ELSE StatesHistory[i - 1].at)
          /\ StatesHistory[i].bytes = StatesHistory[i].upTo
                - (IF i - 1 = 0 THEN 0 ELSE StatesHistory[i - 1].upTo)
    BY DEF ReportsInv, ReportsTile
  <2>2. lastReportReceivedBytes = IF n = 0 THEN 0 ELSE StatesHistory[n].upTo
    BY DEF ReportsInv, ReportsTile
  <2>0. n \in Nat
    BY <1>1
  <2> HIDE DEF n
  <2>3. \A i \in 1..(n + 1) :
          /\ StatesHistory'[i].delta = StatesHistory'[i].at
                - (IF i - 1 = 0 THEN firstByteTime ELSE StatesHistory'[i - 1].at)
          /\ StatesHistory'[i].bytes = StatesHistory'[i].upTo
                - (IF i - 1 = 0 THEN 0 ELSE StatesHistory'[i - 1].upTo)
    <3> TAKE i \in 1..(n + 1)
    <3>1. CASE i = n + 1
      <4>1. i - 1 = n /\ (n # 0 => n \in 1..n)
        BY <3>1, <1>1
      <4> QED BY <3>1, <4>1, <1>2, <1>3, <1>4, <2>2
    <3>2. CASE i \in 1..n
      <4>1. i - 1 # 0 => i - 1 \in 1..n
        BY <3>2, <1>1
      <4> QED BY <3>2, <4>1, <1>2, <2>1
    <3> QED BY <3>1, <3>2, <2>0
  <2>4. n + 1 \in 1..(n + 1) /\ n + 1 # 0
    BY <1>1
  <2> QED BY <2>3, <2>4, <1>1, <1>2, <1>3 DEF ReportsTile
<1>6. ReportsAreLong'
  <2>1. \A i \in 1..n : StatesHistory[i].delta >= Pause
    BY <1>2 DEF ReportsInv, ReportsAreLong
  <2> HIDE DEF n
  <2>2. \A i \in 1..(n + 1) : i \in 1..n \/ i = n + 1
    BY <1>1
  <2>3. \A i \in DOMAIN StatesHistory' : StatesHistory'[i].delta >= Pause
    BY <2>1, <2>2, <1>1, <1>2
  <2>4. reportInterval > 0 => Pause > 0
    BY DEF Pause
  <2>5. Pause \in Nat /\ StatesHistory' \in Seq(Report)
    BY PauseType, <1>1
  <2>6. \A i \in DOMAIN StatesHistory' : StatesHistory'[i].delta \in Nat
    <3> TAKE i \in DOMAIN StatesHistory'
    <3>1. StatesHistory'[i] \in Report
      BY <2>5
    <3> QED BY <3>1 DEF Report
  <2>7. reportInterval > 0
          => \A i \in DOMAIN StatesHistory' : StatesHistory'[i].delta # 0
    BY <2>3, <2>4, <2>5, <2>6
  <2> QED BY <2>3, <2>7 DEF ReportsAreLong, Marshals
<1> QED BY <1>5, <1>6 DEF ReportsInv

\* The records: a step keeps ReportsInv.
LEMMA ReportsStep ==
    ReportsInv /\ Numbers /\ ClockInv /\ SleepInv /\ CountingInv /\ [Next]_vars
        => ReportsInv'
<1> SUFFICES ASSUME ReportsInv, Numbers, ClockInv, SleepInv, CountingInv, [Next]_vars
             PROVE ReportsInv'
  OBVIOUS
<1>0. UNCHANGED <<reportInterval, Pause>>
  BY PauseStays
<1> USE <1>0 DEF stateVars, resultVars, clientVars
<1>1. CASE Client(ReceiveFirstByte)
  <2>1. /\ StatesHistory = <<>> /\ StatesHistory' = <<>>
        /\ lastReportReceivedBytes = 0 /\ lastReportReceivedBytes' = 0
    BY <1>1 DEF Client, ReceiveFirstByte, AddReceivedBytes, SleepInv, BeforeFirst,
        ReportsInv, ReportsTile
  <2> QED BY <2>1 DEF ReportsInv, ReportsTile, ReportsAreLong, Marshals
<1>2. CASE Client(MakeReport)
  BY <1>2, ReportAppended
<1>3. CASE Client(CountRead)
  <2>1. UNCHANGED <<firstByteTime, lastReportTime, lastReportReceivedBytes,
      StatesHistory>>
    BY <1>3 DEF Client, CountRead, AddReceivedBytes, CountingInv, ClockInv
  <2> QED BY <2>1 DEF ReportsInv, ReportsTile, ReportsAreLong, Marshals
<1>4. CASE UNCHANGED <<firstByteTime, lastReportTime, lastReportReceivedBytes,
    StatesHistory>>
  BY <1>4 DEF ReportsInv, ReportsTile, ReportsAreLong, Marshals
<1> QED
  BY <1>1, <1>2, <1>3, <1>4 DEF Next, ClientNext, MainStep, PrepareStep,
     ReceiverStep, ServerNext, SessionStep, StreamStep, Finished, vars,
     Client, PingDial, PingStep, PingDialFails, Panic, Await, PingClose,
     NewSingleCaches, SetStartTime, Dial, SetEstablishmentTime, DialFails,
     SendRequest, FirstByteFails, CheckProbeTime, SleepEnd, FirstByteSeen,
     WakeUp, CloseConnection, CloseWithError, ReportTotal, Total,
     ExportStates, ReadStream, InterruptCloses, InterruptExits, ClockTicks,
     Server, AcceptConnection, AcceptStream, SessionEnds, LogOnce,
     ReadRequest, WriteChunk, WindowOpen, StreamEnds, AcceptPing, Link,
     HandshakeArrives, Zero, PutArrives, PutValue, StillEmpty, PutCompletes,
     PutCancels, PingBreaks, PingConnFails, CloseArrives, PathFails,
     ServerTimesOut, ClientTimesOut, setupVars, zeroVars, stateVars,
     resultVars, linkVars, clientVars, serverVars

-----------------------------------------------------------------------------
\* The ways to panic: a step keeps PanicsAfterFailure.
LEMMA PanicsStep ==
    PanicsAfterFailure /\ Places /\ LinkInv /\ ConnInv /\ ClockInv /\ [Next]_vars
        => PanicsAfterFailure'
<1> SUFFICES ASSUME PanicsAfterFailure, Places, LinkInv, ConnInv, ClockInv, [Next]_vars
             PROVE PanicsAfterFailure'
  OBVIOUS
<1> USE DEF PanicsAfterFailure, Places, LinkInv, LinkTypeOK, ConnInv,
   ClockInv, Running, BeforeFirst, BeforeDial, Preparing, linkVars, setupVars,
   zeroVars, stateVars, clientVars
<1>1. CASE Client(PingDial)
  BY <1>1 DEF Client, PingDial, PingStep
<1>2. CASE Client(PingDialFails)
  BY <1>2 DEF Client, PingDialFails, PingStep, Panic
<1>3. CASE Client(Await("session", "token"))
  BY <1>3 DEF Client, Await, PingStep
<1>4. CASE Client(Await("token", "pingClose"))
  BY <1>4 DEF Client, Await, PingStep
<1>5. CASE Client(PingClose)
  BY <1>5 DEF Client, PingClose, PingStep, NewSingleCaches
<1>6. CASE Client(SetStartTime)
  BY <1>6 DEF Client, SetStartTime, Panic
<1>7. CASE Client(Dial)
  BY <1>7 DEF Client, Dial, SetEstablishmentTime
<1>8. CASE Client(DialFails)
  BY <1>8 DEF Client, DialFails, Panic
<1>9. CASE Client(SendRequest)
  BY <1>9 DEF Client, SendRequest, Panic
<1>10. CASE Client(ReceiveFirstByte)
  BY <1>10 DEF Client, ReceiveFirstByte, AddReceivedBytes
<1>11. CASE Client(FirstByteFails)
  BY <1>11 DEF Client, FirstByteFails, Panic
<1>12. CASE Client(CheckProbeTime)
  BY <1>12 DEF Client, CheckProbeTime, Panic, SleepEnd, FirstByteSeen
<1>13. CASE Client(WakeUp)
  BY <1>13 DEF Client, WakeUp
<1>14. CASE Client(MakeReport)
  BY <1>14 DEF Client, MakeReport, ResetReport
<1>15. CASE Client(CloseConnection)
  BY <1>15 DEF Client, CloseConnection, CloseWithError
<1>16. CASE Client(ReportTotal)
  BY <1>16 DEF Client, ReportTotal, Total
<1>17. CASE Client(ExportStates)
  BY <1>17 DEF Client, ExportStates
<1>18. CASE Client(\E n \in 0..ReceiveWindow : ReadStream(n))
  BY <1>18 DEF Client, ReadStream
<1>19. CASE Client(CountRead)
  BY <1>19 DEF Client, CountRead, AddReceivedBytes, Counted, Unexpected, Panic
<1>20. CASE Client(InterruptCloses)
  BY <1>20 DEF Client, InterruptCloses, CloseWithError
<1>21. CASE Client(InterruptExits)
  BY <1>21 DEF Client, InterruptExits
<1>22. CASE Zero(PingBreaks)
  BY <1>22 DEF Zero, PingBreaks, PingConnFails
<1>23. CASE Link(PathFails)
  BY <1>23 DEF Link, PathFails
<1>24. CASE Link(ClientTimesOut(ServerSilent))
  BY <1>24 DEF Link, ClientTimesOut
<1>25. CASE UNCHANGED <<exit, main, clientConn, pingConn, interrupted>>
  BY <1>25
<1> QED
  BY <1>1, <1>2, <1>3, <1>4, <1>5, <1>6, <1>7, <1>8, <1>9, <1>10, <1>11,
     <1>12, <1>13, <1>14, <1>15, <1>16, <1>17, <1>18, <1>19, <1>20, <1>21,
     <1>22, <1>23, <1>24, <1>25 DEF Next, ClientNext, MainStep, PrepareStep,
     ReceiverStep, ServerNext, SessionStep, StreamStep, Finished, vars,
     Client, ClockTicks, Server, AcceptConnection, AcceptStream, SessionEnds,
     LogOnce, ReadRequest, WriteChunk, WindowOpen, StreamEnds, AcceptPing,
     Link, HandshakeArrives, Zero, PutArrives, PutValue, StillEmpty,
     PutCompletes, PutCancels, CloseArrives, ServerTimesOut, setupVars,
     zeroVars, stateVars, resultVars, linkVars, clientVars, serverVars

\* The session's log: a step keeps LogTellsOutcome.
LEMMA LogStep ==
    LogTellsOutcome /\ Places /\ LinkInv /\ ConnInv /\ [Next]_vars
        => LogTellsOutcome'
<1> SUFFICES ASSUME LogTellsOutcome, Places, LinkInv, ConnInv, [Next]_vars
             PROVE LogTellsOutcome'
  OBVIOUS
<1> USE DEF LogTellsOutcome, Places, LinkInv, LinkTypeOK, ConnInv, Running,
   BeforeDial, Preparing, linkVars, serverVars
<1>1. CASE Client(Dial)
  BY <1>1 DEF Client, Dial, SetEstablishmentTime
<1>2. CASE Client(DialFails)
  BY <1>2 DEF Client, DialFails, Panic
<1>3. CASE Client(SendRequest)
  BY <1>3 DEF Client, SendRequest, Panic
<1>4. CASE Client(CloseConnection)
  BY <1>4 DEF Client, CloseConnection, CloseWithError
<1>5. CASE Client(InterruptCloses)
  BY <1>5 DEF Client, InterruptCloses, CloseWithError
<1>6. CASE Server(SessionEnds)
  BY <1>6 DEF Server, SessionEnds, LogOnce
<1>7. CASE Server(ReadRequest)
  BY <1>7 DEF Server, ReadRequest, LogOnce
<1>8. CASE Server(StreamEnds)
  BY <1>8 DEF Server, StreamEnds, LogOnce
<1>9. CASE Link(HandshakeArrives)
  BY <1>9 DEF Link, HandshakeArrives
<1>10. CASE Link(CloseArrives)
  BY <1>10 DEF Link, CloseArrives
<1>11. CASE Link(PathFails)
  BY <1>11 DEF Link, PathFails
<1>12. CASE Link(ServerTimesOut(~Running))
  BY <1>12 DEF Link, ServerTimesOut
<1>13. CASE Link(ClientTimesOut(ServerSilent))
  BY <1>13 DEF Link, ClientTimesOut
<1>14. CASE UNCHANGED <<clientConn, serverConn, request, closeLog>>
  BY <1>14
<1> QED
  BY <1>1, <1>2, <1>3, <1>4, <1>5, <1>6, <1>7, <1>8, <1>9, <1>10, <1>11,
     <1>12, <1>13, <1>14 DEF Next, ClientNext, MainStep, PrepareStep,
     ReceiverStep, ServerNext, SessionStep, StreamStep, Finished, vars,
     Client, PingDial, PingStep, PingDialFails, Panic, Await, PingClose,
     NewSingleCaches, SetStartTime, ReceiveFirstByte, AddReceivedBytes,
     FirstByteFails, CheckProbeTime, SleepEnd, FirstByteSeen, WakeUp,
     MakeReport, ResetReport, ReportTotal, Total, ExportStates, ReadStream,
     CountRead, Counted, Unexpected, InterruptExits, ClockTicks, Server,
     AcceptConnection, AcceptStream, WriteChunk, WindowOpen, AcceptPing, Zero,
     PutArrives, PutValue, StillEmpty, PutCompletes, PutCancels, PingBreaks,
     PingConnFails, setupVars, zeroVars, stateVars, resultVars, linkVars,
     clientVars, serverVars

-----------------------------------------------------------------------------
\* The parts make up the type invariant.
LEMMA TypeParts ==
    Flags /\ MainPlace /\ Places /\ ServerPlaces /\ LinkInv /\ Numbers /\ ZeroTypeOK
        => TypeOK
BY DEF Flags, MainPlace, Places, RequestKind, ServerPlaces, LinkInv, Numbers,
    TypeOK, ClientTypeOK, ServerTypeOK

\* The invariant holds initially.
LEMMA QperfInitial == Init => QperfInv
<1> SUFFICES ASSUME Init PROVE QperfInv
  OBVIOUS
<1>1. LinkInit /\ ServerInit /\ ZeroInit /\ ClientInit
  BY DEF Init, ClientInit
<1>2. Flags /\ MainPlace /\ Places /\ ServerPlaces
  BY <1>1 DEF Flags, MainPlace, Places, RequestKind, ServerPlaces, ClientInit,
      ServerInit
<1>3. /\ now = 1 /\ wake = 0 /\ reportNow = 0 /\ receiver = "none" /\ exit = "running"
      /\ readResult = [received |-> 0, err |-> "nil"] /\ main \in {"ping", "start"}
      /\ startTime = 0 /\ firstByteTime = 0 /\ establishmentTime = 0 /\
          lastReportTime = 0
      /\ totalReceivedBytes = 0 /\ lastReportReceivedBytes = 0
      /\ StatesHistory = <<>> /\ printedTotal = -1
      /\ reportInterval \in ReportIntervals
  BY <1>1 DEF ClientInit
<1>4. LinkInv
  BY <1>1, <1>3, LinkAssumption
     DEF LinkInit, LinkInv, LinkTypeOK
<1>5. Numbers
  BY <1>3 DEF Numbers
<1>6. ZeroTypeOK /\ PrepareInv
  <2>1. ZeroTypeOK
    BY <1>1 DEF ZeroInit, ZeroTypeOK, NewSingleCaches, Slots, MaxPuts
  <2>2. \A s \in Slots : received[s] = 0 /\ single[s].done = FALSE
    BY <1>1 DEF ZeroInit, NewSingleCaches
  <2>3. putting \notin Slots
    BY <1>1 DEF ZeroInit, Slots
  <2>4. PreparedWithFirst
    BY <1>1 DEF ClientInit, PreparedWithFirst
  <2> QED BY <2>1, <2>2, <2>3, <2>4, <1>3 DEF PrepareInv
<1>7. CountingInv /\ ClockInv /\ SleepInv
  BY <1>1, <1>3 DEF LinkInit, CountingInv, BytesAccounted, ClockInv, SleepInv,
      BeforeFirst, BeforeDial, Preparing
<1>8. ReportsInv
  BY <1>3 DEF ReportsInv, ReportsTile, ReportsAreLong, Marshals
<1>9. ConnInv
  BY <1>1, <1>3 DEF LinkInit, ServerInit, ConnInv, BeforeDial, Preparing
<1>10. PanicsAfterFailure /\ LogTellsOutcome
  BY <1>1, <1>3 DEF PanicsAfterFailure, LogTellsOutcome, ServerInit
<1> QED
  BY <1>1, <1>2, <1>3, <1>4, <1>5, <1>6, <1>7, <1>8, <1>9, <1>10 DEF QperfInv

\* Every step keeps the invariant.
LEMMA QperfStep == QperfInv /\ [Next]_vars => QperfInv'
<1> SUFFICES ASSUME QperfInv, [Next]_vars PROVE QperfInv'
  OBVIOUS
<1>1. Flags' /\ MainPlace' /\ Places' /\ ServerPlaces' /\ ZeroTypeOK'
  BY FlagsStep, MainPlaceStep, PlacesStep, ServerPlacesStep, ZeroTypeStep DEF QperfInv
<1>2. LinkInv' /\ Numbers'
  BY LinkStep, NumbersStep DEF QperfInv, Places
<1>3. CountingInv' /\ ClockInv'
  BY CountingStep, ClockStep DEF QperfInv
<1>4. SleepInv' /\ ReportsInv'
  BY <1>3, SleepStep, ReportsStep DEF QperfInv
<1>5. ConnInv' /\ PrepareInv'
  BY ConnStep, PreparedStep DEF QperfInv
<1>6. PanicsAfterFailure' /\ LogTellsOutcome'
  BY PanicsStep, LogStep DEF QperfInv
<1> QED BY <1>1, <1>2, <1>3, <1>4, <1>5, <1>6 DEF QperfInv

\* QperfInv is an invariant of one measurement.
LEMMA QperfAlways == Spec => []QperfInv
BY QperfInitial, QperfStep, PTL DEF Spec


\* The type invariant of a measurement, with the windows and bounds of the
\* link.
THEOREM QperfTypes == Spec => []TypeOK
<1>1. QperfInv => TypeOK
  BY TypeParts DEF QperfInv
<1> QED BY <1>1, QperfAlways, PTL

\* No byte read from the stream is lost or counted twice between the
\* receiver's Read and the State (client.go receive, State.AddReceivedBytes),
\* and the printed total covers every report.
THEOREM BytesAreAccounted == Spec => []BytesAccounted
<1>1. QperfInv => BytesAccounted
  BY DEF QperfInv, CountingInv
<1> QED BY <1>1, QperfAlways, PTL

\* The records of GetAndResetReport tile the measurement in time and in
\* bytes, for every interval and every moment at which main reads the clock.
THEOREM ReportsTileTheMeasurement == Spec => []ReportsTile
<1>1. QperfInv => ReportsTile
  BY DEF QperfInv, ReportsInv
<1> QED BY <1>1, QperfAlways, PTL

\* No record covers less than what main slept, whatever the clock does between
\* the sleep, the reading and the mutex, for every value of --report-interval;
\* when it is positive, no rate divides by zero and the records marshal.
THEOREM ReportsTakeAnInterval == Spec => []ReportsAreLong
<1>1. QperfInv => ReportsAreLong
  BY DEF QperfInv, ReportsInv
<1> QED BY <1>1, QperfAlways, PTL

\* The client panics only when a connection of its own failed, or when CTRL+C
\* closed it before the first byte.
THEOREM PanicOnlyOnFailure == Spec => []PanicsAfterFailure
<1>1. QperfInv => PanicsAfterFailure
  BY DEF QperfInv
<1> QED BY <1>1, QperfAlways, PTL

\* The one line that sync.Once lets the session log tells how the measurement
\* ended, whichever goroutine gets there first.
THEOREM LogIsTruthful == Spec => []LogTellsOutcome
<1>1. QperfInv => LogTellsOutcome
  BY DEF QperfInv
<1> QED BY <1>1, QperfAlways, PTL

\* With --0rtt the measurement starts with the first ticket and the first
\* token, whole, although Put assigns and cancels without a lock.
THEOREM PreparedWithTheFirst == Spec => []PreparedWithFirst
<1>1. QperfInv => PreparedWithFirst
  BY DEF QperfInv, PrepareInv
<1> QED BY <1>1, QperfAlways, PTL
=============================================================================
