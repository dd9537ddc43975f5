--------------------------- MODULE BbrSenderProofs ----------------------------
(***************************************************************************)
(* The windows and modes of BbrSender, for all windows, gains, signals and *)
(* bounds.                                                                 *)
(***************************************************************************)
EXTENDS BbrSender, FiniteSetTheorems, TLAPS

MachineType ==
    [mode : Modes, pacingGain : Nat, offset : 0..(gainCycleLength - 1), cycleAge : Nat,
     exitIn : {NotSet} \cup Nat, roundPassed : BOOLEAN, minRttAge : Nat]

StartupType ==
    [rounds : Nat, bandwidth : Bandwidths, appLimited : BOOLEAN, lossEvents : Nat,
     bytesLost : Nat, acked : Nat]

RecoveryType == [state : RecoveryStates, window : Nat, endAt : Nat]

-----------------------------------------------------------------------------
\* Arithmetic.
LEMMA LargerSmaller ==
    ASSUME NEW a \in Nat, NEW b \in Nat
    PROVE  /\ Larger(a, b) \in Nat /\ Larger(a, b) >= a /\ Larger(a, b) >= b
           /\ Smaller(a, b) \in Nat /\ Smaller(a, b) <= a /\ Smaller(a, b) <= b
           /\ Larger(a, b) \in {a, b} /\ Smaller(a, b) \in {a, b}
BY DEF Larger, Smaller

LEMMA ProductNat ==
    ASSUME NEW a \in Nat, NEW b \in Nat
    PROVE  a * b \in Nat
OBVIOUS

LEMMA QuotientNat ==
    ASSUME NEW a \in Nat, NEW b \in Nat \ {0}
    PROVE  a \div b \in Nat /\ a % b \in 0..(b - 1)
OBVIOUS

\* A set of packets in flight, and what of the first n it leaves.
LEMMA PacketSets ==
    ASSUME NEW k \in Nat, NEW S \in SUBSET (1..k)
    PROVE  IsFiniteSet(S) /\ Cardinality(S) \in Nat /\ Cardinality(S) <= k
<1>1. IsFiniteSet(1..k) /\ Cardinality(1..k) = IF 1 > k THEN 0 ELSE k - 1 + 1
  BY FS_Interval
<1>2. IsFiniteSet(S) /\ Cardinality(S) <= Cardinality(1..k)
  BY <1>1, FS_Subset
<1>3. Cardinality(S) \in Nat
  BY <1>2, FS_CardinalityType
<1> QED BY <1>1, <1>2, <1>3

LEMMA RemainingNat ==
    ASSUME NEW k \in Nat, NEW acked \in SUBSET (1..k), NEW lost \in SUBSET (1..k), NEW n \in Nat
    PROVE  Remaining(n, acked, lost) \in Nat
<1> DEFINE S == {p \in acked \cup lost : p <= n}
<1>1. S \in SUBSET (1..n)
  <2>1. ASSUME NEW p \in S PROVE p \in 1..n
    BY acked \cup lost \subseteq 1..k, p <= n
  <2> QED BY <2>1
<1>2. Cardinality(S) \in Nat /\ Cardinality(S) <= n
  BY <1>1, PacketSets
<1> QED BY <1>2 DEF Remaining

-----------------------------------------------------------------------------
\* The state machine: its type, and the mode each part of the event gives.
Offsets == 0..(gainCycleLength - 1)

LEMMA GainsNat == \A o \in Offsets : pacingGains[o] \in Nat
BY SignalsAssumption DEF Offsets

LEMMA EnterProbeBandwidthFacts ==
    ASSUME NEW m \in MachineType, NEW o \in Offsets
    PROVE  LET e == EnterProbeBandwidthMode(m, o)
           IN  e \in MachineType /\ e.mode = "PROBE_BW"
BY GainsNat DEF EnterProbeBandwidthMode, MachineType, Modes, Offsets

LEMMA GainCycleFacts ==
    ASSUME NEW m \in MachineType, NEW hasLosses
    PROVE  LET g == GainCyclePhase(m, hasLosses)
           IN  g \in MachineType /\ g.mode = m.mode
<1> DEFINE next == (m.offset + 1) % gainCycleLength
<1> DEFINE g == [m EXCEPT !.offset = next, !.cycleAge = 0, !.pacingGain = pacingGains[next]]
<1>1. m.offset + 1 \in Nat /\ gainCycleLength \in Nat \ {0}
  BY SignalsAssumption DEF MachineType
<1>2. next \in Offsets
  BY <1>1, QuotientNat DEF Offsets
<1> HIDE DEF next
<1>3. g \in MachineType /\ g.mode = m.mode
  BY <1>2, GainsNat DEF MachineType, Offsets
<1>4. GainCyclePhase(m, hasLosses) \in {m, g}
  BY DEF GainCyclePhase, next
<1> QED BY <1>3, <1>4

LEMMA ExitStartupFacts ==
    ASSUME NEW m \in MachineType, NEW o \in Offsets
    PROVE  LET e == MaybeExitStartupOrDrain(m, o)
           IN  /\ e \in MachineType
               /\ m.mode = "STARTUP" /\ isAtFullBandwidth' => e.mode \in {"DRAIN", "PROBE_BW"}
               /\ m.mode = "STARTUP" /\ ~isAtFullBandwidth' => e.mode = "STARTUP"
               /\ m.mode = "DRAIN" => e.mode \in {"DRAIN", "PROBE_BW"}
               /\ m.mode \in {"PROBE_BW", "PROBE_RTT"} => e.mode = m.mode
<1> DEFINE drain == [m EXCEPT !.mode = "DRAIN", !.pacingGain = drainGain]
<1> DEFINE d == IF m.mode = "STARTUP" /\ isAtFullBandwidth' THEN drain ELSE m
<1>1. drain \in MachineType /\ drain.mode = "DRAIN"
  BY DEF MachineType, Modes, drainGain
<1>2. /\ d \in MachineType
      /\ m.mode = "STARTUP" /\ isAtFullBandwidth' => d.mode = "DRAIN"
      /\ ~(m.mode = "STARTUP" /\ isAtFullBandwidth') => d.mode = m.mode
  BY <1>1
<1> HIDE DEF d
<1>3. /\ MaybeExitStartupOrDrain(m, o) \in {d, EnterProbeBandwidthMode(d, o)}
      /\ d.mode # "DRAIN" => MaybeExitStartupOrDrain(m, o) = d
  BY DEF MaybeExitStartupOrDrain, d
<1>4. EnterProbeBandwidthMode(d, o) \in MachineType /\ EnterProbeBandwidthMode(d, o).mode = "PROBE_BW"
  BY <1>2, EnterProbeBandwidthFacts
<1> QED BY <1>2, <1>3, <1>4 DEF MachineType, Modes

LEMMA ExitProbeRttFacts ==
    ASSUME NEW m \in MachineType, NEW o \in Offsets
    PROVE  LET x == ExitProbeRtt(m, o)
           IN  /\ x \in MachineType
               /\ x.mode = IF isAtFullBandwidth' THEN "PROBE_BW" ELSE "STARTUP"
<1> DEFINE e == [m EXCEPT !.minRttAge = 0]
<1>1. e \in MachineType
  BY DEF MachineType
<1> HIDE DEF e
<1>2. EnterStartupMode(e) \in MachineType /\ EnterStartupMode(e).mode = "STARTUP"
  BY <1>1 DEF EnterStartupMode, MachineType, Modes, highGain
<1>3. ExitProbeRtt(m, o) = IF isAtFullBandwidth' THEN EnterProbeBandwidthMode(e, o) ELSE EnterStartupMode(e)
  BY DEF ExitProbeRtt, e
<1> QED BY <1>1, <1>2, <1>3, EnterProbeBandwidthFacts

LEMMA ProbeRttFacts ==
    ASSUME NEW m \in MachineType, NEW o \in Offsets, NEW start \in BOOLEAN, NEW expired
    PROVE  LET x == MaybeEnterOrExitProbeRtt(m, o, start, expired)
           IN  /\ x \in MachineType
               /\ \/ x.mode = "PROBE_RTT"
                  \/ x.mode = m.mode
                  \/ x.mode = IF isAtFullBandwidth' THEN "PROBE_BW" ELSE "STARTUP"
<1> DEFINE e == EnterProbeRtt(m, expired)
<1> DEFINE r == [e EXCEPT !.roundPassed = @ \/ start]
<1> DEFINE set == [e EXCEPT !.exitIn = probeRttTime, !.roundPassed = FALSE]
<1>1. e \in MachineType /\ (e.mode = "PROBE_RTT" \/ e.mode = m.mode)
  BY DEF EnterProbeRtt, MachineType, Modes, Quarters
<1> HIDE DEF e
<1>2. r \in MachineType /\ r.mode = e.mode
  <2>1. (e.roundPassed \/ start) \in BOOLEAN
    BY <1>1 DEF MachineType
  <2> QED BY <1>1, <2>1 DEF MachineType
<1>3. set \in MachineType /\ set.mode = e.mode
  BY <1>1, SignalsAssumption DEF MachineType
<1>4. MaybeEnterOrExitProbeRtt(m, o, start, expired) \in {e, set, r, ExitProbeRtt(r, o)}
  BY DEF MaybeEnterOrExitProbeRtt, e
<1> HIDE DEF r, set
<1>5. /\ ExitProbeRtt(r, o) \in MachineType
      /\ ExitProbeRtt(r, o).mode = IF isAtFullBandwidth' THEN "PROBE_BW" ELSE "STARTUP"
  BY <1>2, ExitProbeRttFacts
<1> QED BY <1>1, <1>2, <1>3, <1>4, <1>5

LEMMA KeptFacts ==
    ASSUME NEW m \in MachineType
    PROVE  Kept(m) \in MachineType /\ Kept(m).mode = m.mode
<1>1. (m.mode = "PROBE_RTT" /\ m.roundPassed) \in BOOLEAN
  BY DEF MachineType
<1>2. 0 \in 0..(gainCycleLength - 1)
  BY SignalsAssumption
<1> QED BY <1>1, <1>2 DEF Kept, MachineType

-----------------------------------------------------------------------------
\* The signals an event takes in.
LEMMA SignalTypes ==
    ASSUME TypeOK, NEW acked \in SUBSET (1..inFlight), NEW hasSample \in BOOLEAN, NEW rtt \in Rtts,
           UpdateMaxBandwidth(acked, hasSample), UpdateRttStats(acked),
           minRtt' = IF MinRttSampled(rtt, hasSample) THEN rtt ELSE minRtt
    PROVE  /\ maxBandwidth' \in Bandwidths
           /\ minRtt' \in Rtts \cup {0} /\ rttStatsMin' \in Rtts \cup {0}
<1>1. maxBandwidth' \in Bandwidths
  <2>1. \A s : Filter!AfterSample(maxBandwidth, s) \subseteq Bandwidths
    BY DEF Filter!AfterSample
  <2> QED BY <2>1 DEF UpdateMaxBandwidth, TypeOK
<1> QED BY <1>1 DEF UpdateRttStats, TypeOK

\* The target of the window is a number of packets.
LEMMA TargetNat ==
    ASSUME maxBandwidth' \in Bandwidths, minRtt' \in Rtts \cup {0}, rttStatsMin' \in Rtts \cup {0}
    PROVE  GetTargetCongestionWindow(congestionWindowGain) \in Nat
<1> DEFINE bdp == bdpFromRttAndBandwidth
<1> DEFINE gain == congestionWindowGain
<1>1. GetMinRtt \in Nat /\ maxBandwidth' \in Nat /\ gain \in Nat /\ Quarters \in Nat \ {0}
  BY SignalsAssumption DEF GetMinRtt, congestionWindowGain, Quarters
<1>2. bdp \in Nat
  BY <1>1, ProductNat, QuotientNat DEF bdpFromRttAndBandwidth
<1> HIDE DEF bdp
<1>3. (gain * bdp) \div Quarters \in Nat
  BY <1>1, <1>2, ProductNat, QuotientNat
<1>4. (gain * initialCongestionWindow) \div Quarters \in Nat
  BY <1>1, WindowsAssumption, ProductNat, QuotientNat
<1>5. \E w \in Nat : GetTargetCongestionWindow(gain) = Larger(w, minCongestionWindow)
  BY <1>3, <1>4 DEF GetTargetCongestionWindow, bdp
<1> QED BY <1>5, LargerSmaller, WindowsAssumption

\* Counting for STARTUP, and that full bandwidth is not forgotten.
LEMMA StartupFacts ==
    ASSUME TypeOK, maxBandwidth' \in Bandwidths,
           NEW acked \in SUBSET (1..inFlight), NEW lost \in SUBSET (1..inFlight), NEW last,
           UpdateStartup(acked, lost, last)
    PROVE  isAtFullBandwidth' \in BOOLEAN /\ startup' \in StartupType
<1> DEFINE counted == Counted(acked, lost, last)
<1>1. Cardinality(acked) \in Nat /\ Cardinality(lost) \in Nat
  BY PacketSets DEF TypeOK
<1>2. counted \in StartupType
  <2>0. startup \in StartupType
    BY DEF TypeOK, StartupType
  <2>1. /\ startup.bytesLost + Cardinality(lost) \in Nat /\ startup.lossEvents + 1 \in Nat
        /\ startup.acked + Cardinality(acked) \in Nat
    BY <1>1, <2>0 DEF StartupType
  <2>2. (maxCongestionWindow + 1) \div lossDivisor \in Nat
    <3>1. maxCongestionWindow + 1 \in Nat /\ lossDivisor \in Nat \ {0}
      BY WindowsAssumption, SignalsAssumption
    <3> QED BY <3>1, QuotientNat
  <2>3. (maxCongestionWindow + 1) \div lossDivisor + 1 \in Nat
    BY <2>2
  <2>4. /\ Smaller(startup.bytesLost + Cardinality(lost), (maxCongestionWindow + 1) \div lossDivisor + 1) \in Nat
        /\ Smaller(startup.lossEvents + 1, startupFullLossCount) \in Nat
        /\ Smaller(startup.acked + Cardinality(acked), initialCongestionWindow) \in Nat
    BY <2>1, <2>3, WindowsAssumption, SignalsAssumption, LargerSmaller
  <2>5. (last = "appLimited") \in BOOLEAN
    OBVIOUS
  <2> DEFINE b == Smaller(startup.bytesLost + Cardinality(lost), (maxCongestionWindow + 1) \div lossDivisor + 1)
  <2> DEFINE e == Smaller(startup.lossEvents + 1, startupFullLossCount)
  <2> DEFINE a == Smaller(startup.acked + Cardinality(acked), initialCongestionWindow)
  <2> DEFINE l == IF last = "invalid" THEN startup.appLimited ELSE last = "appLimited"
  <2> DEFINE f == IF lost = {} THEN startup.lossEvents ELSE e
  <2>6. counted = [startup EXCEPT !.appLimited = l, !.lossEvents = f, !.bytesLost = b, !.acked = a]
    BY <2>0 DEF Counted, StartupType
  <2>7. l \in BOOLEAN /\ f \in Nat /\ b \in Nat /\ a \in Nat
    BY <2>0, <2>4, <2>5 DEF StartupType
  <2> HIDE DEF a, b, l, f
  <2> QED BY <2>0, <2>6, <2>7 DEF StartupType
<1> HIDE DEF counted
<1>3. ASSUME NEW c \in CheckIfFullBandwidthReached(counted, last)
      PROVE  c.full \in BOOLEAN /\ c.st \in StartupType
  <2>1. CASE counted.appLimited
    <3>1. c = [full |-> FALSE, st |-> counted]
      BY <1>3, <2>1 DEF CheckIfFullBandwidthReached
    <3>2. c.full = FALSE /\ c.st = counted
      BY <3>1
    <3> QED BY <1>2, <3>2
  <2>2. CASE ~counted.appLimited /\ Grown(counted)
    <3> DEFINE grown == [counted EXCEPT !.bandwidth = maxBandwidth', !.rounds = 0]
    <3>1. grown \in StartupType
      BY <1>2 DEF StartupType
    <3>2. c = [full |-> FALSE, st |-> grown]
      BY <1>3, <2>2 DEF CheckIfFullBandwidthReached
    <3> HIDE DEF grown
    <3>3. c.full = FALSE /\ c.st = grown
      BY <3>2
    <3> QED BY <3>1, <3>3
  <2>3. CASE ~counted.appLimited /\ ~Grown(counted)
    <3>1. PICK sent \in 2..(maxCongestionWindow + 1) :
             c = [full |-> \/ counted.rounds + 1 >= numStartupRtts
                           \/ ShouldExitStartupDueToLoss(counted, last, sent),
                  st |-> [counted EXCEPT !.rounds = @ + 1]]
      BY <1>3, <2>3 DEF CheckIfFullBandwidthReached
    <3>2. c.st \in StartupType
      BY <1>2, <3>1 DEF StartupType
    <3>3. c.full \in BOOLEAN
      BY <3>1
    <3> QED BY <3>2, <3>3
  <2> QED BY <2>1, <2>2, <2>3
<1>4. PICK c : /\ \/ c \in CheckIfFullBandwidthReached(counted, last)
                  \/ c = [full |-> FALSE, st |-> counted]
               /\ isAtFullBandwidth' = c.full
               /\ startup' = IF c.full THEN NoRounds
                             ELSE IF IsRoundStart(acked)
                             THEN [c.st EXCEPT !.lossEvents = 0, !.bytesLost = 0]
                             ELSE c.st
  BY DEF UpdateStartup, counted
<1>5. c.full \in BOOLEAN /\ c.st \in StartupType
  <2>1. CASE c = [full |-> FALSE, st |-> counted]
    <3>1. c.full = FALSE /\ c.st = counted
      BY <2>1
    <3> QED BY <1>2, <3>1
  <2>2. CASE c \in CheckIfFullBandwidthReached(counted, last)
    BY <1>3, <2>2
  <2> QED BY <1>4, <2>1, <2>2
<1>6. NoRounds \in StartupType
  BY SignalsAssumption DEF NoRounds, StartupType
<1>7. [c.st EXCEPT !.lossEvents = 0, !.bytesLost = 0] \in StartupType
  BY <1>5 DEF StartupType
<1> QED BY <1>4, <1>5, <1>6, <1>7

-----------------------------------------------------------------------------
\* The congestion window keeps its limits by itself; the recovery window only
\* the lower one, and only while it counts.
WindowInv ==
    /\ congestionWindow \in minCongestionWindow..maxCongestionWindow
    /\ InRecovery(recovery) => recovery.window >= minCongestionWindow

LEMMA CongestionWindowFacts ==
    ASSUME TypeOK, WindowInv, NEW bytesAcked \in Nat, NEW height \in Nat,
           maxBandwidth' \in Bandwidths, minRtt' \in Rtts \cup {0}, rttStatsMin' \in Rtts \cup {0}
    PROVE  CongestionWindow(bytesAcked, height) \in minCongestionWindow..maxCongestionWindow
<1> DEFINE target == GetTargetCongestionWindow(congestionWindowGain)
                     + (IF isAtFullBandwidth' THEN height ELSE 0)
<1>1. target \in Nat
  BY TargetNat
<1> HIDE DEF target
<1>2. congestionWindow \in Nat /\ congestionWindow + bytesAcked \in Nat
  BY DEF TypeOK
<1>3. GrownWindow(target, bytesAcked) \in Nat
  BY <1>1, <1>2, LargerSmaller DEF GrownWindow
<1>4. Smaller(Larger(GrownWindow(target, bytesAcked), minCongestionWindow), maxCongestionWindow)
      \in minCongestionWindow..maxCongestionWindow
  BY <1>3, WindowsAssumption DEF Larger, Smaller
<1>5. CongestionWindow(bytesAcked, height)
      \in {congestionWindow,
           Smaller(Larger(GrownWindow(target, bytesAcked), minCongestionWindow), maxCongestionWindow)}
  BY DEF CongestionWindow, target
<1> QED BY <1>4, <1>5 DEF WindowInv

LEMMA RecoveryFacts ==
    ASSUME TypeOK, WindowInv, inFlight' \in Nat,
           NEW acked \in SUBSET (1..inFlight), NEW lost \in SUBSET (1..inFlight)
    PROVE  LET r == RecoveryState(acked, lost)
           IN  /\ r \in RecoveryType
               /\ InRecovery(r) => r.window = 0 \/ r.window >= minCongestionWindow
<1>1. recovery \in RecoveryType /\ NotInRecovery \in RecoveryType /\ ~InRecovery(NotInRecovery)
  BY WindowsAssumption DEF TypeOK, RecoveryType, RecoveryStates, NotInRecovery, InRecovery
<1>2. Remaining(recovery.endAt, acked, lost) \in Nat
  BY <1>1, RemainingNat DEF TypeOK, RecoveryType
<1> DEFINE endAt == IF acked # {} /\ lost # {} THEN inFlight'
                    ELSE Remaining(recovery.endAt, acked, lost)
<1> DEFINE state == IF recovery.state = "CONSERVATION" /\ IsRoundStart(acked)
                    THEN "GROWTH" ELSE recovery.state
<1> DEFINE enter == [state |-> "CONSERVATION", window |-> 0, endAt |-> endAt]
<1> DEFINE stay == [recovery EXCEPT !.state = state, !.endAt = endAt]
<1>3. endAt \in Nat /\ state \in RecoveryStates
  BY <1>1, <1>2 DEF RecoveryType, RecoveryStates
<1>4. \/ RecoveryState(acked, lost) = enter
      \/ RecoveryState(acked, lost) = NotInRecovery
      \/ RecoveryState(acked, lost) = stay /\ InRecovery(recovery)
  BY DEF RecoveryState
<1> HIDE DEF endAt, state
<1>5. enter \in RecoveryType /\ enter.window = 0
  BY <1>3 DEF RecoveryType, RecoveryStates
<1>6. stay \in RecoveryType /\ stay.window = recovery.window
  BY <1>1, <1>3 DEF RecoveryType
<1> HIDE DEF enter, stay
<1> QED BY <1>1, <1>4, <1>5, <1>6 DEF WindowInv

LEMMA RecoveryWindowFacts ==
    ASSUME NEW r \in RecoveryType, NEW bytesAcked \in Nat, NEW bytesLost \in Nat, inFlight' \in Nat,
           InRecovery(r) => r.window = 0 \/ r.window >= minCongestionWindow
    PROVE  LET w == RecoveryWindow(r, bytesAcked, bytesLost)
           IN  w \in Nat /\ (InRecovery(r) => w >= minCongestionWindow)
<1>0. inFlight' + bytesAcked \in Nat
  <2>1. ASSUME NEW a \in Nat, NEW b \in Nat PROVE a + b \in Nat
    OBVIOUS
  <2> QED BY <2>1
<1>1. LessLosses(r, bytesAcked, bytesLost) \in Nat
  BY DEF LessLosses, RecoveryType
<1>2. /\ NextRecoveryWindow(r, bytesAcked, bytesLost) \in Nat
      /\ NextRecoveryWindow(r, bytesAcked, bytesLost) >= minCongestionWindow
  <2> DEFINE l == Larger(LessLosses(r, bytesAcked, bytesLost), inFlight' + bytesAcked)
  <2>2. l \in Nat
    BY <1>1, <1>0, LargerSmaller
  <2> HIDE DEF l
  <2>3. Larger(minCongestionWindow, l) \in Nat /\ Larger(minCongestionWindow, l) >= minCongestionWindow
    BY <2>2, LargerSmaller, WindowsAssumption
  <2> QED BY <2>3 DEF NextRecoveryWindow, l
<1> DEFINE n == NextRecoveryWindow(r, bytesAcked, bytesLost)
<1> HIDE DEF n
<1>3. r.window \in Nat
  BY DEF RecoveryType
<1>4. CASE ~InRecovery(r)
  BY <1>3, <1>4 DEF RecoveryWindow
<1>5. CASE InRecovery(r) /\ r.window = 0
  <2>1. RecoveryWindow(r, bytesAcked, bytesLost) = Larger(minCongestionWindow, inFlight' + bytesAcked)
    BY <1>5 DEF RecoveryWindow
  <2>2. minCongestionWindow \in Nat
    BY WindowsAssumption
  <2> DEFINE w == Larger(minCongestionWindow, inFlight' + bytesAcked)
  <2>3. w \in Nat /\ w >= minCongestionWindow
    BY <1>0, <2>2, LargerSmaller
  <2> HIDE DEF w
  <2> QED BY <2>1, <2>3 DEF w
<1>6. CASE InRecovery(r) /\ r.window # 0
  <2>1. RecoveryWindow(r, bytesAcked, bytesLost) = Smaller(n, MaxRecoveryWindow)
    BY <1>6 DEF RecoveryWindow, n
  <2>2. n \in Nat /\ n >= minCongestionWindow
    BY <1>2 DEF n
  <2> QED BY <2>1, <2>2, WindowsAssumption DEF Smaller
<1> QED BY <1>4, <1>5, <1>6

-----------------------------------------------------------------------------
LEMMA MaxRttNat == MaxRtt \in Nat
BY SignalsAssumption DEF MaxRtt

\* The rate, and the machine after a whole event.
LEMMA PacingRateNat ==
    ASSUME TypeOK, machine' \in MachineType, maxBandwidth' \in Bandwidths,
           rttStatsMin' \in Rtts \cup {0}
    PROVE  PacingRate \in Nat
<1> DEFINE target == (machine'.pacingGain * maxBandwidth') \div Quarters
<1> DEFINE first == (initialCongestionWindow * Quarters) \div rttStatsMin'
<1>1. /\ machine'.pacingGain \in Nat /\ maxBandwidth' \in Nat /\ Quarters \in Nat \ {0}
      /\ initialCongestionWindow \in Nat /\ pacingRate \in Nat
  <2>1. machine'.pacingGain \in Nat
    BY DEF MachineType
  <2>2. maxBandwidth' \in Nat
    BY SignalsAssumption
  <2>3. Quarters \in Nat \ {0}
    BY DEF Quarters
  <2>4. initialCongestionWindow \in Nat
    BY WindowsAssumption
  <2>5. pacingRate \in Nat
    BY DEF TypeOK
  <2> QED BY <2>1, <2>2, <2>3, <2>4, <2>5
<1>2. target \in Nat
  BY <1>1, ProductNat, QuotientNat
<1>3. rttStatsMin' # 0 => first \in Nat
  <2>1. rttStatsMin' # 0 => rttStatsMin' \in Nat \ {0}
    BY SignalsAssumption
  <2> QED BY <1>1, <2>1, ProductNat, QuotientNat
<1>4. \/ PacingRate \in {pacingRate, target, Larger(pacingRate, target)}
      \/ PacingRate = first /\ rttStatsMin' # 0
  BY DEF PacingRate
<1>5. Larger(pacingRate, target) \in Nat
  BY <1>1, <1>2, LargerSmaller
<1> HIDE DEF target, first
<1>6. CASE PacingRate \in {pacingRate, target, Larger(pacingRate, target)}
  BY <1>1, <1>2, <1>5, <1>6
<1>7. CASE PacingRate = first /\ rttStatsMin' # 0
  BY <1>3, <1>7
<1> QED BY <1>4, <1>6, <1>7

LEMMA MachineFacts ==
    ASSUME NEW m \in MachineType, NEW o \in StartOffsets, NEW start \in BOOLEAN, NEW expired,
           NEW hasLosses, isAtFullBandwidth' \in BOOLEAN,
           m.mode \in {"DRAIN", "PROBE_BW"} => isAtFullBandwidth'
    PROVE  LET k == Kept(MaybeEnterOrExitProbeRtt(
                             MaybeExitStartupOrDrain(GainCyclePhase(m, hasLosses), o),
                             o, start, expired))
           IN  /\ k \in MachineType
               /\ k.mode \in {"DRAIN", "PROBE_BW"} => isAtFullBandwidth'
               /\ k.mode = "STARTUP" => ~isAtFullBandwidth'
<1> DEFINE g == GainCyclePhase(m, hasLosses)
<1> DEFINE e == MaybeExitStartupOrDrain(g, o)
<1> DEFINE x == MaybeEnterOrExitProbeRtt(e, o, start, expired)
<1>0. o \in Offsets
  BY DEF StartOffsets, Offsets
<1>1. g \in MachineType /\ g.mode = m.mode
  BY GainCycleFacts
<1> HIDE DEF g
<1>2. /\ e \in MachineType
      /\ g.mode = "STARTUP" /\ isAtFullBandwidth' => e.mode \in {"DRAIN", "PROBE_BW"}
      /\ g.mode = "STARTUP" /\ ~isAtFullBandwidth' => e.mode = "STARTUP"
      /\ g.mode = "DRAIN" => e.mode \in {"DRAIN", "PROBE_BW"}
      /\ g.mode \in {"PROBE_BW", "PROBE_RTT"} => e.mode = g.mode
  BY <1>0, <1>1, ExitStartupFacts
<1> HIDE DEF e
<1>3. /\ x \in MachineType
      /\ \/ x.mode = "PROBE_RTT"
         \/ x.mode = e.mode
         \/ x.mode = IF isAtFullBandwidth' THEN "PROBE_BW" ELSE "STARTUP"
  BY <1>0, <1>2, ProbeRttFacts
<1> HIDE DEF x
<1>4. Kept(x) \in MachineType /\ Kept(x).mode = x.mode
  BY <1>3, KeptFacts
<1>5. /\ e.mode \in {"DRAIN", "PROBE_BW"} => isAtFullBandwidth'
      /\ e.mode = "STARTUP" => ~isAtFullBandwidth'
  <2>1. g.mode \in Modes
    BY <1>1 DEF MachineType
  <2> QED BY <1>1, <1>2, <2>1 DEF Modes
<1>6. /\ x.mode \in {"DRAIN", "PROBE_BW"} => isAtFullBandwidth'
      /\ x.mode = "STARTUP" => ~isAtFullBandwidth'
  BY <1>3, <1>5
<1>7. Kept(x) = Kept(MaybeEnterOrExitProbeRtt(
                         MaybeExitStartupOrDrain(GainCyclePhase(m, hasLosses), o), o, start, expired))
  BY DEF x, e, g
<1> QED BY <1>4, <1>6, <1>7

-----------------------------------------------------------------------------
\* The inductive invariant: the limits of the window given to the transport
\* need those of the two windows it is made from.
BbrInv == TypeOK /\ WindowInv /\ FullBandwidthModes

LEMMA InitInv == Init => BbrInv
<1> SUFFICES ASSUME Init PROVE BbrInv
  OBVIOUS
<1>1. TypeOK
  <2>1. machine \in MachineType /\ startup \in StartupType /\ recovery \in RecoveryType
    BY SignalsAssumption, WindowsAssumption
       DEF Init, MachineType, Modes, highGain, NotSet, StartupType, NoRounds, RecoveryType,
           NotInRecovery, RecoveryStates
  <2> QED BY <2>1, SignalsAssumption, WindowsAssumption
          DEF Init, TypeOK, MachineType, StartupType, RecoveryType
<1>2. WindowInv
  BY WindowsAssumption DEF Init, WindowInv, NotInRecovery, InRecovery
<1>3. FullBandwidthModes
  BY DEF Init, FullBandwidthModes
<1> QED BY <1>1, <1>2, <1>3 DEF BbrInv

LEMMA EventInv ==
    ASSUME BbrInv, NEW acked \in SUBSET (1..inFlight), NEW lost \in SUBSET (1..inFlight),
           NEW hasSample \in BOOLEAN, NEW rtt \in Rtts,
           OnCongestionEventEx(acked, lost, hasSample, rtt)
    PROVE  BbrInv'
<1> DEFINE sampled == MinRttSampled(rtt, hasSample)
<1> DEFINE m1 == IF sampled THEN [machine EXCEPT !.minRttAge = 0] ELSE machine
<1> DEFINE r == RecoveryState(acked, lost)
<1> DEFINE w == RecoveryWindow(r, Cardinality(acked), Cardinality(lost))
<1> USE DEF BbrInv
<1>1. Cardinality(acked) \in Nat /\ Cardinality(lost) \in Nat
  BY PacketSets DEF TypeOK
<1>2. inFlight' \in Nat /\ currentRoundTripEnd' \in Nat
  <2>1. Remaining(inFlight, acked, lost) \in Nat /\ Remaining(currentRoundTripEnd, acked, lost) \in Nat
    BY RemainingNat DEF TypeOK
  <2>2. UpdatePackets(acked, lost)
    BY DEF OnCongestionEventEx
  <2> QED BY <2>1, <2>2 DEF UpdatePackets
<1>3. /\ maxBandwidth' \in Bandwidths
      /\ minRtt' \in Rtts \cup {0} /\ rttStatsMin' \in Rtts \cup {0}
  <2>1. /\ UpdateMaxBandwidth(acked, hasSample) /\ UpdateRttStats(acked)
        /\ minRtt' = IF MinRttSampled(rtt, hasSample) THEN rtt ELSE minRtt
    BY DEF OnCongestionEventEx
  <2> QED BY <2>1, SignalTypes
<1>4. /\ isAtFullBandwidth' \in BOOLEAN /\ startup' \in StartupType
      /\ isAtFullBandwidth => isAtFullBandwidth'
  <2>1. CASE isAtFullBandwidth
    <3>1. UNCHANGED <<isAtFullBandwidth, startup>>
      BY <2>1 DEF OnCongestionEventEx
    <3> QED BY <2>1, <3>1 DEF TypeOK, StartupType
  <2>2. CASE ~isAtFullBandwidth
    <3>1. \E last \in LastSendStates(hasSample, lost) : UpdateStartup(acked, lost, last)
      BY <2>2 DEF OnCongestionEventEx
    <3> QED BY <1>3, <2>2, <3>1, StartupFacts
  <2> QED BY <2>1, <2>2
<1>5. machine' \in MachineType /\ FullBandwidthModes'
  <2>1. machine \in MachineType
    BY DEF TypeOK, MachineType
  <2>2. m1 \in MachineType /\ m1.mode = machine.mode
    BY <2>1 DEF MachineType
  <2>3. m1.mode \in {"DRAIN", "PROBE_BW"} => isAtFullBandwidth'
    BY <1>4, <2>2 DEF FullBandwidthModes
  <2>4. PICK o \in StartOffsets :
           machine' = Kept(MaybeEnterOrExitProbeRtt(
                               MaybeExitStartupOrDrain(GainCyclePhase(m1, lost # {}), o),
                               o, IsRoundStart(acked), MinRttExpired(hasSample)))
    BY DEF OnCongestionEventEx
  <2>5. IsRoundStart(acked) \in BOOLEAN
    BY DEF IsRoundStart
  <2> HIDE DEF m1
  <2>6. /\ machine' \in MachineType
        /\ machine'.mode \in {"DRAIN", "PROBE_BW"} => isAtFullBandwidth'
        /\ machine'.mode = "STARTUP" => ~isAtFullBandwidth'
    BY <1>4, <2>2, <2>3, <2>4, <2>5, MachineFacts
  <2> QED BY <2>6 DEF FullBandwidthModes
<1>6. pacingRate' \in Nat
  <2>1. pacingRate' = PacingRate
    BY DEF OnCongestionEventEx
  <2> QED BY <1>3, <1>5, <2>1, PacingRateNat
<1>7. congestionWindow' \in minCongestionWindow..maxCongestionWindow
  <2>1. PICK height \in AckHeights : congestionWindow' = CongestionWindow(Cardinality(acked), height)
    BY DEF OnCongestionEventEx
  <2> QED BY <1>1, <1>3, <2>1, CongestionWindowFacts, SignalsAssumption
<1>8. recovery' \in RecoveryType /\ (InRecovery(recovery') => recovery'.window >= minCongestionWindow)
  <2>1. r \in RecoveryType /\ (InRecovery(r) => r.window = 0 \/ r.window >= minCongestionWindow)
    BY <1>2, RecoveryFacts
  <2>2. recovery' = [r EXCEPT !.window = w]
    BY DEF OnCongestionEventEx
  <2> HIDE DEF r
  <2>3. w \in Nat /\ (InRecovery(r) => w >= minCongestionWindow)
    BY <1>1, <1>2, <2>1, RecoveryWindowFacts
  <2> HIDE DEF w
  <2> QED BY <2>1, <2>2, <2>3 DEF RecoveryType, InRecovery
<1>9. exitingQuiescence' \in BOOLEAN
  BY DEF OnCongestionEventEx
<1>10. congestionWindow' \in Nat
  BY <1>7, WindowsAssumption
<1>11. TypeOK'
  BY <1>2, <1>3, <1>4, <1>5, <1>6, <1>8, <1>9, <1>10 DEF TypeOK, MachineType, StartupType, RecoveryType
<1>12. WindowInv'
  BY <1>7, <1>8 DEF WindowInv, InRecovery
<1> QED BY <1>5, <1>11, <1>12

LEMMA StepInv == BbrInv /\ [Next]_vars => BbrInv'
<1> SUFFICES ASSUME BbrInv, [Next]_vars PROVE BbrInv'
  OBVIOUS
<1>1. CASE OnPacketSent
  <2>1. inFlight' \in Nat /\ exitingQuiescence' \in BOOLEAN
    BY <1>1 DEF OnPacketSent, BbrInv, TypeOK
  <2>2. UNCHANGED <<machine, maxBandwidth, minRtt, rttStatsMin, pacingRate, congestionWindow,
                    recovery, startup, isAtFullBandwidth, currentRoundTripEnd>>
    BY <1>1 DEF OnPacketSent, machineVars, windowVars
  <2> QED BY <2>1, <2>2 DEF BbrInv, TypeOK, WindowInv, FullBandwidthModes, InRecovery
<1>2. CASE OnAckOnlySent
  <2>1. exitingQuiescence' \in BOOLEAN
    BY <1>2 DEF OnAckOnlySent
  <2>2. UNCHANGED <<machine, maxBandwidth, minRtt, rttStatsMin, pacingRate, congestionWindow,
                    recovery, startup, isAtFullBandwidth, inFlight, currentRoundTripEnd>>
    BY <1>2 DEF OnAckOnlySent, machineVars, windowVars
  <2> QED BY <2>1, <2>2 DEF BbrInv, TypeOK, WindowInv, FullBandwidthModes, InRecovery
<1>3. CASE Tick
  <2>1. machine \in MachineType
    BY DEF BbrInv, TypeOK, MachineType
  <2> DEFINE age == IF machine.mode = "PROBE_BW" THEN Smaller(machine.cycleAge + 1, MaxRtt + 1)
                    ELSE machine.cycleAge
  <2> DEFINE rttAge == Smaller(machine.minRttAge + 1, minRttExpiry + 1)
  <2> DEFINE exit == IF machine.exitIn > 0 THEN machine.exitIn - 1 ELSE machine.exitIn
  <2>2. age \in Nat
    BY <2>1, MaxRttNat DEF MachineType, Smaller
  <2>3. rttAge \in Nat
    BY <2>1, SignalsAssumption DEF MachineType, Smaller
  <2>4. exit \in {NotSet} \cup Nat
    BY <2>1 DEF MachineType, NotSet
  <2>5. machine' = [machine EXCEPT !.cycleAge = age, !.minRttAge = rttAge, !.exitIn = exit]
    BY <1>3, <2>1 DEF Tick, MachineType
  <2> HIDE DEF age, rttAge, exit
  <2>6. machine' \in MachineType /\ machine'.mode = machine.mode
    BY <2>1, <2>2, <2>3, <2>4, <2>5 DEF MachineType
  <2>7. UNCHANGED <<maxBandwidth, minRtt, rttStatsMin, pacingRate, congestionWindow, recovery,
                    startup, isAtFullBandwidth, inFlight, currentRoundTripEnd, exitingQuiescence>>
    BY <1>3 DEF Tick, windowVars
  <2> QED BY <2>6, <2>7 DEF BbrInv, TypeOK, WindowInv, FullBandwidthModes, InRecovery, MachineType
<1>4. CASE AckEvent
  <2>1. PICK acked \in SUBSET (1..inFlight) : \E lost \in Losses(acked) : Event(acked, lost)
    BY <1>4 DEF AckEvent
  <2>2. PICK lost \in Losses(acked) : Event(acked, lost)
    BY <2>1
  <2>3. lost \in SUBSET (1..inFlight)
    BY <2>2 DEF Losses
  <2> QED BY <2>1, <2>2, <2>3, EventInv DEF Event
<1>5. CASE LossEvent
  <2>1. PICK lost \in Losses({}) : Event({}, lost)
    BY <1>5 DEF LossEvent
  <2>2. lost \in SUBSET (1..inFlight) /\ {} \in SUBSET (1..inFlight)
    BY <2>1 DEF Losses
  <2> QED BY <2>1, <2>2, EventInv DEF Event
<1>6. CASE UNCHANGED vars
  BY <1>6 DEF vars, machineVars, windowVars, BbrInv, TypeOK, WindowInv, FullBandwidthModes, InRecovery
<1> QED BY <1>1, <1>2, <1>3, <1>4, <1>5, <1>6 DEF Next

LEMMA InvLimits == BbrInv => WindowLimits
BY WindowsAssumption
   DEF BbrInv, TypeOK, WindowInv, WindowLimits, GetCongestionWindow, Smaller

\* The window BBR gives the transport is at least minCongestionWindow and at
\* most maxCongestionWindow, in every mode and in recovery
\* (calculateCongestionWindow, calculateRecoveryWindow, GetCongestionWindow).
THEOREM WindowStaysInLimits == Spec => []WindowLimits
<1>1. Spec => []BbrInv
  BY InitInv, StepInv, PTL DEF Spec
<1> QED BY <1>1, InvLimits, PTL

\* DRAIN and PROBE_BW only at full bandwidth, STARTUP only below it
\* (maybeExitStartupOrDrain, maybeEnterOrExitProbeRtt).
THEOREM ModesFollowBandwidth == Spec => []FullBandwidthModes
<1>1. Spec => []BbrInv
  BY InitInv, StepInv, PTL DEF Spec
<1>2. BbrInv => FullBandwidthModes
  BY DEF BbrInv
<1> QED BY <1>1, <1>2, PTL

-----------------------------------------------------------------------------
\* Until full bandwidth is reached an event lowers neither the rate nor the
\* window.
LEMMA RateGrows ==
    ASSUME TypeOK, machine' \in MachineType, maxBandwidth' \in Bandwidths,
           rttStatsMin' \in Rtts \cup {0}, ~isAtFullBandwidth'
    PROVE  PacingRate >= pacingRate
<1> DEFINE target == (machine'.pacingGain * maxBandwidth') \div Quarters
<1>1. pacingRate \in Nat /\ PacingRate \in Nat
  BY PacingRateNat DEF TypeOK
<1>2. target \in Nat
  <2>1. machine'.pacingGain \in Nat /\ maxBandwidth' \in Nat /\ Quarters \in Nat \ {0}
    BY SignalsAssumption DEF MachineType, Quarters
  <2> QED BY <2>1, ProductNat, QuotientNat
<1>3. PacingRate = pacingRate \/ pacingRate = 0 \/ PacingRate = Larger(pacingRate, target)
  BY DEF PacingRate
<1> HIDE DEF target
<1> QED BY <1>1, <1>2, <1>3, LargerSmaller

LEMMA WindowGrows ==
    ASSUME TypeOK, WindowInv, NEW bytesAcked \in Nat, NEW height \in Nat, ~isAtFullBandwidth'
    PROVE  CongestionWindow(bytesAcked, height) >= congestionWindow
<1> DEFINE target == GetTargetCongestionWindow(congestionWindowGain)
                     + (IF isAtFullBandwidth' THEN height ELSE 0)
<1> DEFINE grown == GrownWindow(target, bytesAcked)
<1>1. /\ congestionWindow \in Nat /\ congestionWindow <= maxCongestionWindow
      /\ minCongestionWindow \in Nat /\ maxCongestionWindow \in Nat
  BY WindowsAssumption DEF TypeOK, WindowInv
<1>2. \/ CongestionWindow(bytesAcked, height) = congestionWindow
      \/ CongestionWindow(bytesAcked, height)
            = Smaller(Larger(grown, minCongestionWindow), maxCongestionWindow)
  BY DEF CongestionWindow
<1> HIDE DEF target
<1>3. grown \in {congestionWindow, congestionWindow + bytesAcked}
  BY DEF GrownWindow
<1>4. grown \in Nat /\ grown >= congestionWindow
  BY <1>1, <1>3
<1> HIDE DEF grown
<1> QED BY <1>1, <1>2, <1>4 DEF Larger, Smaller

\* The parts of an event that the rate, the window and the gain depend on.
LEMMA EventSignals ==
    ASSUME BbrInv, NEW acked \in SUBSET (1..inFlight), NEW lost \in SUBSET (1..inFlight),
           NEW hasSample \in BOOLEAN, NEW rtt \in Rtts,
           OnCongestionEventEx(acked, lost, hasSample, rtt)
    PROVE  /\ Cardinality(acked) \in Nat /\ machine' \in MachineType
           /\ maxBandwidth' \in Bandwidths /\ rttStatsMin' \in Rtts \cup {0}
           /\ pacingRate' = PacingRate
           /\ \E height \in Nat : congestionWindow' = CongestionWindow(Cardinality(acked), height)
<1>1. BbrInv'
  BY EventInv
<1>2. Cardinality(acked) \in Nat
  BY PacketSets DEF BbrInv, TypeOK
<1>3. /\ machine' \in MachineType
      /\ maxBandwidth' \in Bandwidths /\ rttStatsMin' \in Rtts \cup {0}
  BY <1>1 DEF BbrInv, TypeOK, MachineType
<1>4. /\ pacingRate' = PacingRate
      /\ \E height \in AckHeights : congestionWindow' = CongestionWindow(Cardinality(acked), height)
  BY DEF OnCongestionEventEx
<1> QED BY <1>2, <1>3, <1>4, SignalsAssumption

\* Every step is a congestion event or leaves the mode, the gain, the rate and
\* the window alone.
LEMMA StepKinds ==
    ASSUME BbrInv, [Next]_vars
    PROVE  \/ \E acked \in SUBSET (1..inFlight), lost \in SUBSET (1..inFlight),
                 hasSample \in BOOLEAN, rtt \in Rtts :
                  OnCongestionEventEx(acked, lost, hasSample, rtt)
           \/ /\ UNCHANGED <<pacingRate, congestionWindow>>
              /\ machine'.mode = machine.mode /\ machine'.offset = machine.offset
              /\ machine'.pacingGain = machine.pacingGain
<1>1. CASE OnPacketSent \/ OnAckOnlySent \/ UNCHANGED vars
  BY <1>1 DEF OnPacketSent, OnAckOnlySent, vars, machineVars, windowVars
<1>2. CASE Tick
  <2>1. machine \in MachineType
    BY DEF BbrInv, TypeOK, MachineType
  <2> QED BY <1>2, <2>1 DEF Tick, windowVars, MachineType
<1>3. CASE AckEvent \/ LossEvent
  <2>1. PICK acked \in SUBSET (1..inFlight) : \E lost \in Losses(acked) : Event(acked, lost)
    BY <1>3 DEF AckEvent, LossEvent
  <2>2. PICK lost \in Losses(acked) : Event(acked, lost)
    BY <2>1
  <2>3. lost \in SUBSET (1..inFlight)
    BY <2>2 DEF Losses
  <2>4. \E hasSample \in BOOLEAN, rtt \in Rtts : OnCongestionEventEx(acked, lost, hasSample, rtt)
    BY <2>2 DEF Event
  <2> QED BY <2>1, <2>3, <2>4
<1> QED BY <1>1, <1>2, <1>3 DEF Next

\* Below full bandwidth nothing lowers the window or the pacing rate: no loss,
\* no sample that is smaller, no visit to PROBE_RTT (calculatePacingRate,
\* calculateCongestionWindow).
THEOREM NoSlowdownInStartup == Spec => StartupNeverSlowsDown
<1> DEFINE Keeps == ~isAtFullBandwidth' => congestionWindow' >= congestionWindow
                                           /\ pacingRate' >= pacingRate
<1>1. BbrInv /\ [Next]_vars => [Keeps]_vars
  <2> SUFFICES ASSUME BbrInv, [Next]_vars, ~isAtFullBandwidth'
               PROVE  congestionWindow' >= congestionWindow /\ pacingRate' >= pacingRate
    OBVIOUS
  <2>1. congestionWindow \in Nat /\ pacingRate \in Nat
    BY DEF BbrInv, TypeOK
  <2>2. ASSUME NEW acked \in SUBSET (1..inFlight), NEW lost \in SUBSET (1..inFlight),
               NEW hasSample \in BOOLEAN, NEW rtt \in Rtts,
               OnCongestionEventEx(acked, lost, hasSample, rtt)
        PROVE  congestionWindow' >= congestionWindow /\ pacingRate' >= pacingRate
    <3>1. /\ Cardinality(acked) \in Nat /\ machine' \in MachineType
          /\ maxBandwidth' \in Bandwidths /\ rttStatsMin' \in Rtts \cup {0}
          /\ pacingRate' = PacingRate
      BY <2>2, EventSignals
    <3>2. PICK height \in Nat : congestionWindow' = CongestionWindow(Cardinality(acked), height)
      BY <2>2, EventSignals
    <3>3. pacingRate' >= pacingRate
      BY <3>1, RateGrows DEF BbrInv
    <3>4. congestionWindow' >= congestionWindow
      BY <3>1, <3>2, WindowGrows DEF BbrInv
    <3> QED BY <3>3, <3>4
  <2>3. CASE UNCHANGED <<pacingRate, congestionWindow>>
    BY <2>1, <2>3
  <2> QED BY <2>2, <2>3, StepKinds
<1> QED BY <1>1, InitInv, StepInv, PTL DEF Spec, StartupNeverSlowsDown

-----------------------------------------------------------------------------
\* In PROBE_BW the gain is the one of the place in the cycle.
GainInv(m) == m.mode = "PROBE_BW" => m.pacingGain = pacingGains[m.offset]

\* The place before the decreased gain is the one with the increased gain.
LEMMA BeforeLowGain ==
    ASSUME NEW o \in Offsets, pacingGains[(o + 1) % gainCycleLength] < Quarters
    PROVE  pacingGains[o] > Quarters
<1>1. o \in Nat /\ o < gainCycleLength /\ gainCycleLength \in Nat \ {0, 1}
  BY SignalsAssumption DEF Offsets
<1>2. (o + 1) % gainCycleLength = IF o + 1 = gainCycleLength THEN 0 ELSE o + 1
  BY <1>1
<1>3. (o + 1) % gainCycleLength \in 0..(gainCycleLength - 1)
  BY <1>1, <1>2
<1>4. (o + 1) % gainCycleLength = 1
  BY <1>3, GainsAssumption
<1>5. o = 0
  BY <1>1, <1>2, <1>4
<1> QED BY <1>5, GainsAssumption

\* The gain of PROBE_BW before and after a whole event.
LEMMA GainFacts ==
    ASSUME NEW m \in MachineType, GainInv(m), NEW o \in StartOffsets, NEW start \in BOOLEAN,
           NEW expired, NEW hasLosses
    PROVE  LET k == Kept(MaybeEnterOrExitProbeRtt(
                             MaybeExitStartupOrDrain(GainCyclePhase(m, hasLosses), o),
                             o, start, expired))
           IN  /\ GainInv(k)
               /\ k.mode = "PROBE_BW" /\ k.pacingGain < Quarters
                     => \/ m.mode = "PROBE_BW" /\ m.pacingGain > Quarters
                        \/ k.pacingGain = m.pacingGain
<1> DEFINE Low(x) == x.mode = "PROBE_BW" /\ x.pacingGain < Quarters
                         => \/ m.mode = "PROBE_BW" /\ m.pacingGain > Quarters
                            \/ x.pacingGain = m.pacingGain
<1> DEFINE g == GainCyclePhase(m, hasLosses)
<1> DEFINE e == MaybeExitStartupOrDrain(g, o)
<1> DEFINE x == MaybeEnterOrExitProbeRtt(e, o, start, expired)
<1>0. o \in Offsets /\ o # 1 /\ ~(pacingGains[o] < Quarters)
  BY GainsAssumption DEF StartOffsets, Offsets
<1>1. g \in MachineType /\ g.mode = m.mode
  BY GainCycleFacts
<1>2. GainInv(g) /\ Low(g)
  <2> DEFINE next == (m.offset + 1) % gainCycleLength
  <2> DEFINE n == [m EXCEPT !.offset = next, !.cycleAge = 0, !.pacingGain = pacingGains[next]]
  <2>1. g = m \/ (g = n /\ m.mode = "PROBE_BW")
    BY DEF GainCyclePhase
  <2>2. m.offset \in Offsets
    BY DEF MachineType, Offsets
  <2> HIDE DEF g
  <2>3. CASE g = m
    BY <2>3
  <2>4. CASE g = n /\ m.mode = "PROBE_BW"
    <3>1. g.pacingGain = pacingGains[next] /\ g.offset = next /\ m.pacingGain = pacingGains[m.offset]
      BY <2>4 DEF MachineType, GainInv
    <3>2. pacingGains[next] < Quarters => pacingGains[m.offset] > Quarters
      BY <2>2, BeforeLowGain
    <3> QED BY <2>4, <3>1, <3>2 DEF GainInv
  <2> QED BY <2>1, <2>3, <2>4
<1> HIDE DEF g
<1>9. ASSUME NEW y \in MachineType
      PROVE  LET p == EnterProbeBandwidthMode(y, o)
             IN  p \in MachineType /\ GainInv(p) /\ Low(p)
  <2> DEFINE p == EnterProbeBandwidthMode(y, o)
  <2>1. p \in MachineType /\ p.pacingGain = pacingGains[o] /\ p.offset = o
    BY <1>0, <1>9, EnterProbeBandwidthFacts DEF EnterProbeBandwidthMode, MachineType
  <2> QED BY <1>0, <2>1 DEF GainInv
<1>3. e \in MachineType /\ GainInv(e) /\ Low(e)
  <2> DEFINE drain == [g EXCEPT !.mode = "DRAIN", !.pacingGain = drainGain]
  <2> DEFINE d == IF g.mode = "STARTUP" /\ isAtFullBandwidth' THEN drain ELSE g
  <2>1. drain \in MachineType /\ drain.mode = "DRAIN"
    BY <1>1 DEF MachineType, Modes, drainGain
  <2>2. e \in {d, EnterProbeBandwidthMode(d, o)} /\ d \in {g, drain}
    BY DEF MaybeExitStartupOrDrain
  <2> HIDE DEF d, e, drain
  <2>3. d \in MachineType /\ GainInv(d) /\ Low(d)
    BY <1>1, <1>2, <2>1, <2>2 DEF GainInv
  <2> QED BY <1>9, <2>2, <2>3
<1> HIDE DEF e
<1>4. x \in MachineType /\ GainInv(x) /\ Low(x)
  <2> DEFINE f == EnterProbeRtt(e, expired)
  <2> DEFINE r == [f EXCEPT !.roundPassed = @ \/ start]
  <2> DEFINE set == [f EXCEPT !.exitIn = probeRttTime, !.roundPassed = FALSE]
  <2> DEFINE late == [r EXCEPT !.minRttAge = 0]
  <2>1. f \in MachineType /\ (f = e \/ f.mode = "PROBE_RTT")
    BY <1>3 DEF EnterProbeRtt, MachineType, Modes, Quarters
  <2> HIDE DEF f
  <2>2. r \in MachineType /\ r.mode = f.mode
    <3>1. (f.roundPassed \/ start) \in BOOLEAN
      BY <2>1 DEF MachineType
    <3> QED BY <2>1, <3>1 DEF MachineType
  <2>3. set \in MachineType /\ set.mode = f.mode
    BY <2>1, SignalsAssumption DEF MachineType
  <2>4. \/ x = f
        \/ f.mode = "PROBE_RTT" /\ x \in {set, r, ExitProbeRtt(r, o)}
    BY DEF MaybeEnterOrExitProbeRtt, f
  <2> HIDE DEF set, x, r
  <2>5. late \in MachineType
    BY <2>2 DEF MachineType
  <2>6. EnterStartupMode(late) \in MachineType /\ EnterStartupMode(late).mode = "STARTUP"
    BY <2>5 DEF EnterStartupMode, MachineType, Modes, highGain
  <2>7. ExitProbeRtt(r, o) \in {EnterProbeBandwidthMode(late, o), EnterStartupMode(late)}
    BY DEF ExitProbeRtt
  <2> HIDE DEF late
  <2>8. CASE x = f
    BY <1>3, <2>1, <2>8 DEF GainInv
  <2>9. CASE f.mode = "PROBE_RTT" /\ x \in {set, r}
    BY <2>2, <2>3, <2>9 DEF GainInv
  <2>10. CASE x = ExitProbeRtt(r, o)
    BY <1>9, <2>5, <2>6, <2>7, <2>10 DEF GainInv
  <2> QED BY <2>4, <2>8, <2>9, <2>10
<1> HIDE DEF x
<1>5. /\ Kept(x).mode = x.mode /\ Kept(x).pacingGain = x.pacingGain
      /\ x.mode = "PROBE_BW" => Kept(x).offset = x.offset
  BY <1>4 DEF Kept, MachineType
<1>6. GainInv(Kept(x)) /\ Low(Kept(x))
  BY <1>4, <1>5 DEF GainInv
<1>7. Kept(x) = Kept(MaybeEnterOrExitProbeRtt(
                         MaybeExitStartupOrDrain(GainCyclePhase(m, hasLosses), o), o, start, expired))
  BY DEF x, e, g
<1> QED BY <1>6, <1>7

\* The same for the machine of the sender, in an event or any other step.
LEMMA GainStep ==
    ASSUME BbrInv, GainInv(machine), [Next]_vars
    PROVE  /\ GainInv(machine')
           /\ machine'.mode = "PROBE_BW" /\ machine'.pacingGain < Quarters
                 => \/ machine.mode = "PROBE_BW" /\ machine.pacingGain > Quarters
                    \/ machine'.pacingGain = machine.pacingGain
<1>1. ASSUME NEW acked \in SUBSET (1..inFlight), NEW lost \in SUBSET (1..inFlight),
             NEW hasSample \in BOOLEAN, NEW rtt \in Rtts,
             OnCongestionEventEx(acked, lost, hasSample, rtt)
      PROVE  /\ GainInv(machine')
             /\ machine'.mode = "PROBE_BW" /\ machine'.pacingGain < Quarters
                   => \/ machine.mode = "PROBE_BW" /\ machine.pacingGain > Quarters
                      \/ machine'.pacingGain = machine.pacingGain
  <2> DEFINE m1 == IF MinRttSampled(rtt, hasSample) THEN [machine EXCEPT !.minRttAge = 0] ELSE machine
  <2>1. machine \in MachineType
    BY DEF BbrInv, TypeOK, MachineType
  <2>2. /\ m1 \in MachineType /\ m1.mode = machine.mode
        /\ m1.pacingGain = machine.pacingGain /\ m1.offset = machine.offset
    BY <2>1 DEF MachineType
  <2>3. GainInv(m1)
    BY <2>2 DEF GainInv
  <2>4. PICK o \in StartOffsets :
           machine' = Kept(MaybeEnterOrExitProbeRtt(
                               MaybeExitStartupOrDrain(GainCyclePhase(m1, lost # {}), o),
                               o, IsRoundStart(acked), MinRttExpired(hasSample)))
    BY <1>1 DEF OnCongestionEventEx
  <2>5. IsRoundStart(acked) \in BOOLEAN
    BY DEF IsRoundStart
  <2> HIDE DEF m1
  <2>6. /\ GainInv(machine')
        /\ machine'.mode = "PROBE_BW" /\ machine'.pacingGain < Quarters
              => \/ m1.mode = "PROBE_BW" /\ m1.pacingGain > Quarters
                 \/ machine'.pacingGain = m1.pacingGain
    BY <2>2, <2>3, <2>4, <2>5, GainFacts
  <2> QED BY <2>2, <2>6
<1>2. CASE /\ machine'.mode = machine.mode /\ machine'.offset = machine.offset
           /\ machine'.pacingGain = machine.pacingGain
  BY <1>2 DEF GainInv
<1> QED BY <1>1, <1>2, StepKinds

\* A decreased gain of PROBE_BW directly follows an increased one, whatever ends
\* the phase and wherever PROBE_BW is entered (updateGainCyclePhase,
\* enterProbeBandwidthMode).
THEOREM LowGainAfterHigh == Spec => LowGainFollowsHigh
<1> DEFINE Follows == machine'.mode = "PROBE_BW" /\ machine'.pacingGain < Quarters
                      /\ machine'.pacingGain # machine.pacingGain
                      => machine.mode = "PROBE_BW" /\ machine.pacingGain > Quarters
<1> DEFINE G == GainInv(machine)
<1>1. Init => G
  BY DEF Init, GainInv
<1>2. BbrInv /\ G /\ [Next]_vars => G' /\ [Follows]_vars
  BY GainStep
<1> HIDE DEF G
<1> QED BY <1>1, <1>2, InitInv, StepInv, PTL DEF Spec, LowGainFollowsHigh
=============================================================================
