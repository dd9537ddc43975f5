------------------------------ MODULE BbrSender -------------------------------
(***************************************************************************)
(* BBR (internal/congestion/bbr/bbr_sender.go) on the goroutine of a       *)
(* connection: packets are sent, congestion events arrive, time passes.    *)
(*                                                                         *)
(* The sampler gives any sample an event can have (BandwidthSampler shows  *)
(* that it knows every packet in flight), the filter of the bandwidth what *)
(* MaxFilter promises.  Bytes are in packets, gains in quarters, and a     *)
(* bandwidth of Quarters moves one packet per tick.  A packet is its place *)
(* among those in flight, 1 the oldest; currentRoundTripEnd and            *)
(* endRecoveryAt, compared with acked packets only, are the last place     *)
(* they cover, 0 for none.  A point in time is its age or what is left to  *)
(* it.                                                                     *)
(*                                                                         *)
(* Not here, because nothing in the program turns them on: detection of    *)
(* overshooting, drainToTarget, ack aggregation in STARTUP.                *)
(***************************************************************************)
EXTENDS Integers, FiniteSets

CONSTANTS
    Bandwidths,             \* 0 among them
    Rtts, defaultRtt,       \* in ticks; getMinRtt gives the default without samples
    AckHeights,             \* what MaxAckHeight can give
    pacingGains,            \* the gain cycle, a function on 0..gainCycleLength-1
    gainCycleLength,
    minCongestionWindow, initialCongestionWindow, maxCongestionWindow,
    minRttExpiry, probeRttTime, numStartupRtts, startupFullLossCount,
    lossDivisor,            \* the reciprocal of quicBbr2DefaultLossThreshold
    MaxRecoveryWindow       \* bound: the recovery window is kept at it

ASSUME WindowsAssumption ==
    /\ minCongestionWindow \in Nat \ {0}
    /\ initialCongestionWindow \in Nat /\ maxCongestionWindow \in Nat
    /\ minCongestionWindow <= initialCongestionWindow
    /\ initialCongestionWindow <= maxCongestionWindow
    /\ MaxRecoveryWindow \in Nat /\ maxCongestionWindow <= MaxRecoveryWindow
ASSUME SignalsAssumption ==
    /\ Bandwidths \subseteq Nat /\ 0 \in Bandwidths
    /\ Rtts \subseteq Nat \ {0} /\ defaultRtt \in Rtts /\ AckHeights \subseteq Nat
    /\ \E r \in Rtts : \A q \in Rtts : q <= r
    /\ gainCycleLength \in Nat \ {0, 1} /\ pacingGains \in [0..(gainCycleLength - 1) -> Nat]
    /\ minRttExpiry \in Nat /\ probeRttTime \in Nat
    /\ numStartupRtts \in Nat /\ startupFullLossCount \in Nat /\ lossDivisor \in Nat \ {0}

VARIABLES
    \* mode, pacingGain, offset: cycleCurrentOffset, cycleAge: since
    \* lastCycleStart, exitIn: until exitProbeRttAt, NotSet for its zero value,
    \* roundPassed: probeRttRoundPassed, minRttAge: since minRttTimestamp
    machine,
    maxBandwidth, minRtt, pacingRate, congestionWindow, isAtFullBandwidth,
    \* roundsWithoutBandwidthGain, bandwidthAtLastRound, lastSampleIsAppLimited;
    \* lossEvents: numLossEventsInRound, bytesLost: bytesLostInRound, acked:
    \* sampler.TotalBytesAcked(), each up to what it is compared with.  Nothing
    \* reads these at full bandwidth, when they are cleared.
    startup,
    \* recoveryState, recoveryWindow, endRecoveryAt; the latter two are cleared
    \* outside of recovery
    recovery,
    exitingQuiescence, currentRoundTripEnd,
    inFlight, rttStatsMin       \* the transport: packets in flight, rttStats.MinRTT()

machineVars == <<machine, maxBandwidth, minRtt, rttStatsMin>>
windowVars == <<pacingRate, congestionWindow, recovery, startup, isAtFullBandwidth>>
vars == <<machineVars, windowVars, inFlight, currentRoundTripEnd, exitingQuiescence>>

Modes == {"STARTUP", "DRAIN", "PROBE_BW", "PROBE_RTT"}
RecoveryStates == {"NOT_IN_RECOVERY", "CONSERVATION", "GROWTH"}

Quarters == 4
highGain == 12              \* 2.885
drainGain == 1              \* 1 / 2.885
congestionWindowGain == 8   \* highCwndGain and congestionWindowGainConstant, both 2.0
growthTarget == 5           \* startupGrowthTarget
NotSet == -1

\* The gain cycle begins with a probe and has its one decreased gain behind it.
ASSUME GainsAssumption ==
    /\ pacingGains[0] > Quarters
    /\ \A o \in 0..(gainCycleLength - 1) : pacingGains[o] < Quarters => o = 1

Larger(a, b) == IF a >= b THEN a ELSE b
Smaller(a, b) == IF a <= b THEN a ELSE b
MaxRtt == CHOOSE r \in Rtts : \A q \in Rtts : q <= r

NoRounds ==
    [rounds |-> 0, bandwidth |-> 0, appLimited |-> FALSE, lossEvents |-> 0, bytesLost |-> 0, acked |-> 0]

NotInRecovery == [state |-> "NOT_IN_RECOVERY", window |-> maxCongestionWindow, endAt |-> 0]

Init ==
    /\ machine = [mode |-> "STARTUP", pacingGain |-> highGain, offset |-> 0, cycleAge |-> 0,
                  exitIn |-> NotSet, roundPassed |-> FALSE, minRttAge |-> 0]
    /\ maxBandwidth = 0 /\ minRtt = 0 /\ rttStatsMin = 0
    /\ pacingRate = 0
    /\ congestionWindow = initialCongestionWindow
    /\ isAtFullBandwidth = FALSE
    /\ startup = NoRounds
    /\ recovery = NotInRecovery
    /\ inFlight = 0 /\ currentRoundTripEnd = 0
    /\ exitingQuiescence = FALSE

InRecovery(r) == r.state # "NOT_IN_RECOVERY"

GetCongestionWindow ==
    IF machine.mode = "PROBE_RTT" THEN minCongestionWindow
    ELSE IF InRecovery(recovery) THEN Smaller(congestionWindow, recovery.window)
    ELSE congestionWindow

CanSend == inFlight < GetCongestionWindow

-----------------------------------------------------------------------------
\* OnPacketSent.  quic-go has counted the packet among the bytes in flight it
\* passes, so the test for an empty network does not hold here.
OnPacketSent ==
    /\ CanSend
    /\ inFlight' = inFlight + 1
    /\ exitingQuiescence' = (exitingQuiescence \/ inFlight' = 0)
    /\ UNCHANGED <<machineVars, windowVars, currentRoundTripEnd>>

\* OnPacketSent of a packet with acks only, which no window holds back.
OnAckOnlySent ==
    /\ inFlight = 0
    /\ exitingQuiescence' = TRUE
    /\ UNCHANGED <<machineVars, windowVars, inFlight, currentRoundTripEnd>>

\* A tick.  Ages stop growing once nothing tells them apart.
Tick ==
    /\ machine' = [machine EXCEPT
          !.cycleAge = IF machine.mode = "PROBE_BW" THEN Smaller(@ + 1, MaxRtt + 1) ELSE @,
          !.minRttAge = Smaller(@ + 1, minRttExpiry + 1),
          !.exitIn = IF @ > 0 THEN @ - 1 ELSE @]
    /\ UNCHANGED <<maxBandwidth, minRtt, rttStatsMin, windowVars, inFlight, currentRoundTripEnd,
                   exitingQuiescence>>

-----------------------------------------------------------------------------
\* getMinRtt and the bandwidth, as far as the event has updated them.
GetMinRtt ==
    IF minRtt' # 0 THEN minRtt' ELSE IF rttStatsMin' # 0 THEN rttStatsMin' ELSE defaultRtt

bdpFromRttAndBandwidth == (GetMinRtt * maxBandwidth') \div Quarters

GetTargetCongestionWindow(gain) ==
    LET ofBdp == (gain * bdpFromRttAndBandwidth) \div Quarters
        window == IF ofBdp = 0 THEN (gain * initialCongestionWindow) \div Quarters ELSE ofBdp
    IN  Larger(window, minCongestionWindow)

\* maxBandwidth.Update, by what MaxFilter promises, with any sample that the
\* event can give: 0 when no packet had one, nothing at all for a loss-only
\* event or an app-limited sample that is not a new best.
Filter == INSTANCE MaxFilter WITH Samples <- Bandwidths, best <- maxBandwidth

UpdateMaxBandwidth(acked, hasSample) ==
    LET samples == IF hasSample THEN Bandwidths ELSE {0}
        kept == IF hasSample THEN {maxBandwidth} ELSE {}
    IN  IF acked = {} THEN UNCHANGED maxBandwidth
        ELSE maxBandwidth' \in kept \cup UNION {Filter!AfterSample(maxBandwidth, s) : s \in samples}

MinRttExpired(hasSample) ==
    hasSample /\ minRtt # 0 /\ machine.minRttAge > minRttExpiry

\* maybeUpdateMinRtt
MinRttSampled(rtt, hasSample) ==
    hasSample /\ (MinRttExpired(hasSample) \/ rtt < minRtt \/ minRtt = 0)

\* RTTStats of the transport (external) has a minimum from the first ack on.
UpdateRttStats(acked) ==
    IF acked = {} THEN UNCHANGED rttStatsMin
    ELSE rttStatsMin' \in {r \in Rtts : rttStatsMin = 0 \/ r <= rttStatsMin}

-----------------------------------------------------------------------------
\* updateRoundTripCounter
IsRoundStart(acked) == \E p \in acked : p > currentRoundTripEnd

\* What remains of the first n packets in flight.
Remaining(n, acked, lost) == n - Cardinality({p \in acked \cup lost : p <= n})

EntersRecovery(acked, lost) ==
    isAtFullBandwidth /\ acked # {} /\ lost # {} /\ ~InRecovery(recovery)

UpdatePackets(acked, lost) ==
    /\ inFlight' = Remaining(inFlight, acked, lost)
    /\ currentRoundTripEnd' =
          IF IsRoundStart(acked) \/ EntersRecovery(acked, lost) THEN inFlight'
          ELSE Remaining(currentRoundTripEnd, acked, lost)

\* updateRecoveryState, which is called for events with acks only.  A window of
\* 0 is for RecoveryWindow to set.
RecoveryState(acked, lost) ==
    LET endAt == IF acked # {} /\ lost # {} THEN inFlight'
                 ELSE Remaining(recovery.endAt, acked, lost)
        grows == recovery.state = "CONSERVATION" /\ IsRoundStart(acked)
    IN  IF EntersRecovery(acked, lost)
        THEN [state |-> "CONSERVATION", window |-> 0, endAt |-> endAt]
        ELSE IF ~InRecovery(recovery) \/ (lost = {} /\ \E p \in acked : p > recovery.endAt)
        THEN NotInRecovery
        ELSE [recovery EXCEPT !.state = IF grows THEN "GROWTH" ELSE @, !.endAt = endAt]

-----------------------------------------------------------------------------
\* What only one mode reads is cleared outside it; the code sets it anew before
\* it reads it again.
Kept(m) ==
    [m EXCEPT !.offset = IF m.mode = "PROBE_BW" THEN @ ELSE 0,
              !.cycleAge = IF m.mode = "PROBE_BW" THEN @ ELSE 0,
              !.exitIn = IF m.mode = "PROBE_RTT" THEN @ ELSE NotSet,
              !.roundPassed = m.mode = "PROBE_RTT" /\ @]

\* updateGainCyclePhase
GainCyclePhase(m, hasLosses) ==
    LET passed == m.cycleAge > GetMinRtt
        filling == /\ m.pacingGain > Quarters /\ ~hasLosses
                   /\ inFlight < GetTargetCongestionWindow(m.pacingGain)
        drained == m.pacingGain < Quarters /\ inFlight' <= GetTargetCongestionWindow(Quarters)
        next == (m.offset + 1) % gainCycleLength
    IN  IF m.mode = "PROBE_BW" /\ ((passed /\ ~filling) \/ drained)
        THEN [m EXCEPT !.offset = next, !.cycleAge = 0, !.pacingGain = pacingGains[next]]
        ELSE m

\* Faulty variant: any offset.
AnyOffset == 0..(gainCycleLength - 1)

\* The offsets enterProbeBandwidthMode picks from.
StartOffsets == 0..(gainCycleLength - 1) \ {1}

EnterProbeBandwidthMode(m, offset) ==
    [m EXCEPT !.mode = "PROBE_BW", !.offset = offset, !.cycleAge = 0,
              !.pacingGain = pacingGains[offset]]

EnterStartupMode(m) == [m EXCEPT !.mode = "STARTUP", !.pacingGain = highGain]

\* maybeExitStartupOrDrain
MaybeExitStartupOrDrain(m, offset) ==
    LET d == IF m.mode = "STARTUP" /\ isAtFullBandwidth'
             THEN [m EXCEPT !.mode = "DRAIN", !.pacingGain = drainGain] ELSE m
    IN  IF d.mode = "DRAIN" /\ inFlight' <= GetTargetCongestionWindow(Quarters)
        THEN EnterProbeBandwidthMode(d, offset) ELSE d

\* Faulty variant: as if full bandwidth had been reached.
ExitToProbeBw(m, offset) == EnterProbeBandwidthMode([m EXCEPT !.minRttAge = 0], offset)

\* The mode that follows PROBE_RTT.
ExitProbeRtt(m, offset) ==
    LET e == [m EXCEPT !.minRttAge = 0]
    IN  IF isAtFullBandwidth' THEN EnterProbeBandwidthMode(e, offset) ELSE EnterStartupMode(e)

EnterProbeRtt(m, minRttExpired) ==
    IF minRttExpired /\ ~exitingQuiescence /\ m.mode # "PROBE_RTT"
    THEN [m EXCEPT !.mode = "PROBE_RTT", !.pacingGain = Quarters, !.exitIn = NotSet]
    ELSE m

\* Faulty variant: every event with few packets in flight sets the time anew.
AlwaysUnset(m) == inFlight' < minCongestionWindow + 1

\* exitProbeRttAt.IsZero()
ExitUnset(m) == m.exitIn = NotSet

\* maybeEnterOrExitProbeRtt; MaxPacketBufferSize is one packet
MaybeEnterOrExitProbeRtt(m, offset, isRoundStart, minRttExpired) ==
    LET e == EnterProbeRtt(m, minRttExpired)
        r == [e EXCEPT !.roundPassed = @ \/ isRoundStart]
    IN  IF e.mode # "PROBE_RTT" THEN e
        ELSE IF ExitUnset(e)
        THEN IF inFlight' < minCongestionWindow + 1
             THEN [e EXCEPT !.exitIn = probeRttTime, !.roundPassed = FALSE] ELSE e
        ELSE IF r.exitIn = 0 /\ r.roundPassed THEN ExitProbeRtt(r, offset) ELSE r

\* shouldExitStartupDueToLoss; sent are the bytes in flight when the last
\* packet was sent
ShouldExitStartupDueToLoss(st, last, sent) ==
    /\ st.lossEvents >= startupFullLossCount /\ last # "invalid"
    /\ sent > 0 /\ st.bytesLost > 0 /\ st.bytesLost > sent \div lossDivisor

Grown(st) == maxBandwidth' >= (st.bandwidth * growthTarget) \div Quarters

\* checkIfFullBandwidthReached; the send state's bytes in flight can be any, with
\* the packet itself in them twice (SendStateInFlight of BandwidthSampler).
CheckIfFullBandwidthReached(st, last) ==
    IF st.appLimited THEN {[full |-> FALSE, st |-> st]}
    ELSE IF Grown(st)
    THEN {[full |-> FALSE, st |-> [st EXCEPT !.bandwidth = maxBandwidth', !.rounds = 0]]}
    ELSE {[full |-> \/ st.rounds + 1 >= numStartupRtts
                    \/ ShouldExitStartupDueToLoss(st, last, sent),
           st |-> [st EXCEPT !.rounds = @ + 1]] : sent \in 2..(maxCongestionWindow + 1)}

\* The counters with the packets of the event.
Counted(acked, lost, last) ==
    [startup EXCEPT
        !.appLimited = IF last = "invalid" THEN @ ELSE last = "appLimited",
        !.lossEvents = IF lost = {} THEN @ ELSE Smaller(@ + 1, startupFullLossCount),
        !.bytesLost = Smaller(@ + Cardinality(lost), (maxCongestionWindow + 1) \div lossDivisor + 1),
        !.acked = Smaller(@ + Cardinality(acked), initialCongestionWindow)]

\* The send state of the event's last packet, as the sampler gives it.
LastSendStates(hasSample, lost) ==
    IF hasSample \/ lost # {} THEN {"appLimited", "notAppLimited"} ELSE {"invalid"}

\* What the event means for STARTUP, and the counters of a round at its end.
UpdateStartup(acked, lost, last) ==
    LET counted == Counted(acked, lost, last)
        checked == IF IsRoundStart(acked) THEN CheckIfFullBandwidthReached(counted, last)
                   ELSE {[full |-> FALSE, st |-> counted]}
    IN  \E c \in checked :
            /\ isAtFullBandwidth' = c.full
            /\ startup' = IF c.full THEN NoRounds
                          ELSE IF IsRoundStart(acked)
                          THEN [c.st EXCEPT !.lossEvents = 0, !.bytesLost = 0]
                          ELSE c.st

-----------------------------------------------------------------------------
\* calculatePacingRate
PacingRate ==
    LET targetRate == (machine'.pacingGain * maxBandwidth') \div Quarters
    IN  IF maxBandwidth' = 0 THEN pacingRate
        ELSE IF isAtFullBandwidth' THEN targetRate
        ELSE IF pacingRate = 0 /\ rttStatsMin' # 0
        THEN (initialCongestionWindow * Quarters) \div rttStatsMin'
        ELSE Larger(pacingRate, targetRate)

\* Faulty variant: the target at once, in STARTUP too.
WindowAtTarget(target, bytesAcked) == Smaller(target, congestionWindow + bytesAcked)

\* The window on its way to the target.
GrownWindow(target, bytesAcked) ==
    IF isAtFullBandwidth' THEN Smaller(target, congestionWindow + bytesAcked)
    ELSE IF congestionWindow < target \/ startup'.acked < initialCongestionWindow
    THEN congestionWindow + bytesAcked
    ELSE congestionWindow

\* calculateCongestionWindow
CongestionWindow(bytesAcked, maxAckHeight) ==
    LET target == GetTargetCongestionWindow(congestionWindowGain)
                  + (IF isAtFullBandwidth' THEN maxAckHeight ELSE 0)
    IN  IF machine'.mode = "PROBE_RTT" THEN congestionWindow
        ELSE Smaller(Larger(GrownWindow(target, bytesAcked), minCongestionWindow),
                     maxCongestionWindow)

\* What the losses leave of the recovery window, and GROWTH adds.
LessLosses(r, bytesAcked, bytesLost) ==
    (IF r.window >= bytesLost THEN r.window - bytesLost ELSE 1)
    + (IF r.state = "GROWTH" THEN bytesAcked ELSE 0)

\* Faulty variant: losses may take all of the window.
NoLeastWindow(r, bytesAcked, bytesLost) == LessLosses(r, bytesAcked, bytesLost)

NextRecoveryWindow(r, bytesAcked, bytesLost) ==
    Larger(minCongestionWindow,
           Larger(LessLosses(r, bytesAcked, bytesLost), inFlight' + bytesAcked))

\* calculateRecoveryWindow
RecoveryWindow(r, bytesAcked, bytesLost) ==
    IF ~InRecovery(r) THEN r.window
    ELSE IF r.window = 0 THEN Larger(minCongestionWindow, inFlight' + bytesAcked)
    ELSE Smaller(NextRecoveryWindow(r, bytesAcked, bytesLost), MaxRecoveryWindow)

\* OnCongestionEventEx, with a sample of the sampler or none.
OnCongestionEventEx(acked, lost, hasSample, rtt) ==
    LET isRoundStart == IsRoundStart(acked)
        bytesAcked == Cardinality(acked)
        sampled == MinRttSampled(rtt, hasSample)
        m1 == IF sampled THEN [machine EXCEPT !.minRttAge = 0] ELSE machine
    IN  /\ UpdatePackets(acked, lost)
        /\ UpdateMaxBandwidth(acked, hasSample)
        /\ UpdateRttStats(acked)
        /\ minRtt' = IF sampled THEN rtt ELSE minRtt
        /\ IF isAtFullBandwidth THEN UNCHANGED <<isAtFullBandwidth, startup>>
           ELSE \E last \in LastSendStates(hasSample, lost) : UpdateStartup(acked, lost, last)
        /\ machine' \in {Kept(MaybeEnterOrExitProbeRtt(
                                  MaybeExitStartupOrDrain(GainCyclePhase(m1, lost # {}), offset),
                                  offset, isRoundStart, MinRttExpired(hasSample))) :
                         offset \in StartOffsets}
        /\ exitingQuiescence' = FALSE
        /\ pacingRate' = PacingRate
        /\ congestionWindow' \in {CongestionWindow(bytesAcked, height) : height \in AckHeights}
        /\ LET r == RecoveryState(acked, lost)
           IN  recovery' = [r EXCEPT !.window = RecoveryWindow(r, bytesAcked, Cardinality(lost))]

\* The losses of an event: with a packet those sent before it.
Losses(acked) ==
    {lost \in SUBSET ((1..inFlight) \ acked) :
        /\ \A p \in lost, q \in 1..inFlight : q < p => q \in lost \cup acked
        /\ acked # {} => \A p \in lost : \E q \in acked : p < q}

Event(acked, lost) ==
    \E hasSample \in IF acked = {} THEN {FALSE} ELSE BOOLEAN, rtt \in Rtts :
        OnCongestionEventEx(acked, lost, hasSample, rtt)

AckEvent ==
    \E acked \in (SUBSET (1..inFlight)) \ {{}} : \E lost \in Losses(acked) : Event(acked, lost)

LossEvent == \E lost \in Losses({}) \ {{}} : Event({}, lost)

Next == OnPacketSent \/ OnAckOnlySent \/ Tick \/ AckEvent \/ LossEvent

\* Time passes, the application has data for every window that opens, and the
\* path is not dead: while packets are sent, again and again some are acked.
Fairness ==
    /\ WF_vars(Tick)
    /\ WF_vars(OnPacketSent)
    /\ SF_vars(AckEvent)

Spec == Init /\ [][Next]_vars /\ Fairness

-----------------------------------------------------------------------------
\* The ranges the arithmetic of the event relies on: no window, rate or number
\* of packets in flight is negative, and the gain cycle stays in its table.
TypeOK ==
    /\ machine \in [mode : Modes, pacingGain : Nat, offset : 0..(gainCycleLength - 1),
                    cycleAge : Nat, exitIn : {NotSet} \cup Nat, roundPassed : BOOLEAN,
                    minRttAge : Nat]
    /\ maxBandwidth \in Bandwidths /\ minRtt \in Rtts \cup {0} /\ rttStatsMin \in Rtts \cup {0}
    /\ pacingRate \in Nat /\ congestionWindow \in Nat
    /\ recovery \in [state : RecoveryStates, window : Nat, endAt : Nat]
    /\ startup \in [rounds : Nat, bandwidth : Bandwidths, appLimited : BOOLEAN,
                    lossEvents : Nat, bytesLost : Nat, acked : Nat]
    /\ isAtFullBandwidth \in BOOLEAN /\ exitingQuiescence \in BOOLEAN
    /\ inFlight \in Nat /\ currentRoundTripEnd \in Nat

\* The comments of minCongestionWindow and maxCongestionWindow, for the window
\* the transport is given in every mode and state of recovery: there is always
\* room for the smallest window, and never for more than the largest.
WindowLimits == GetCongestionWindow \in minCongestionWindow..maxCongestionWindow

\* "Do not decrease the pacing rate during startup", "If the connection is not
\* yet out of startup phase, do not decrease the window": until full bandwidth
\* is reached, whatever losses, samples and visits to PROBE_RTT there are.
StartupNeverSlowsDown ==
    [][~isAtFullBandwidth' => congestionWindow' >= congestionWindow /\ pacingRate' >= pacingRate]_vars

\* The mode tells whether full bandwidth was reached, also after PROBE_RTT, in
\* which it may be reached.
FullBandwidthModes ==
    /\ machine.mode \in {"DRAIN", "PROBE_BW"} => isAtFullBandwidth
    /\ machine.mode = "STARTUP" => ~isAtFullBandwidth

\* The comment in enterProbeBandwidthMode: decreased gain follows increased
\* gain, so that the queue a probe has built is the one that is drained.
LowGainFollowsHigh ==
    [][machine'.mode = "PROBE_BW" /\ machine'.pacingGain < Quarters
       /\ machine'.pacingGain # machine.pacingGain
       => machine.mode = "PROBE_BW" /\ machine.pacingGain > Quarters]_vars

\* PROBE_RTT, with its smallest window, is left again.
ProbeRttEnds == machine.mode = "PROBE_RTT" ~> machine.mode # "PROBE_RTT"
=============================================================================
