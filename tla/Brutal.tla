------------------------------- MODULE Brutal --------------------------------
(***************************************************************************)
(* BrutalSender (internal/congestion/brutal/brutal.go) on its Pacer: a     *)
(* fixed rate, raised by the share of packets lost in the last seconds.    *)
(* All calls come from the goroutine of the connection.                    *)
(***************************************************************************)
EXTENDS Pacer, Functions

CONSTANTS
    bps,
    SlotCount,          \* pktInfoSlotCount
    MinSampleCount,
    PacketSizes,        \* sizes of packets sent
    AckCounts, LossCounts, \* packets acked and lost in one congestion event
    StartTime, MaxTime, \* the clock runs from StartTime to the bound MaxTime
    MaxIdle,            \* the idle timeout
    MaxShift,           \* bound: seconds the wall clock is set back
    MaxReported         \* bound: packets acked or lost in all

\* minAckRate is 0.8: the highest bandwidth is a quarter above bps.
MaxBandwidth == (bps * 5) \div 4

\* The largest burst there can be.
MostBurst(size) ==
    Larger(((MinPacingDelay + Millisecond) * MaxBandwidth) \div Second,
           MaxBurstPackets * size)

\* The last conjuncts: bursts are small compared with the range of ByteCount,
\* and the idle timeout ends the connection before the product in Budget wraps
\* a second time.
ASSUME BrutalAssumption ==
    /\ bps \in Nat \ {0}
    /\ SlotCount \in Nat \ {0}
    /\ MinSampleCount \in Nat \ {0}
    /\ PacketSizes \subseteq Nat \ {0}
    /\ AckCounts \subseteq Nat /\ LossCounts \subseteq Nat
    /\ MaxIdle \in Nat /\ MaxTime \in Nat /\ MaxShift \in Nat
    /\ MaxReported \in Nat
    /\ StartTime \in 0..MaxTime
    /\ StartTime \div Second > SlotCount + MaxShift
    /\ \A s \in DatagramSizes :
           /\ MostBurst(s) < HalfRange \div 2
           /\ Second * MostBurst(s) <= HalfRange
           /\ MaxBandwidth * MaxIdle + Second * MostBurst(s) < 2 * HalfRange

VARIABLES
    now,            \* the monotonic clock, in ticks
    shift,          \* seconds the wall clock was set back
    pktInfoSlots,   \* [0..SlotCount-1 -> [Timestamp, AckCount, LossCount]]
    ackRate,        \* a fraction, [ack, total]
    \* History
    reported,       \* [Seconds -> [ack, loss]] by the second of the event
    credit          \* what an exact bucket at MaxBandwidth has left, in byte ticks

vars == <<pacerVars, now, shift, pktInfoSlots, ackRate, reported, credit>>

pktInfo == [Timestamp : Nat, AckCount : Nat, LossCount : Nat]

Seconds == 0..(MaxTime \div Second)

Init ==
    /\ PacerInit
    /\ now = StartTime
    /\ shift = 0
    /\ pktInfoSlots = [i \in 0..(SlotCount - 1) |->
                          [Timestamp |-> 0, AckCount |-> 0, LossCount |-> 0]]
    /\ ackRate = [ack |-> 1, total |-> 1]
    /\ reported = [s \in Seconds |-> [ack |-> 0, loss |-> 0]]
    /\ credit = Second * MostBurst(InitialPacketSize)

\* The pacer's getBandwidth: bps / ackRate.
getBandwidth == (bps * ackRate.total) \div ackRate.ack

HasPacingBudget(t) == Budget(t, getBandwidth) >= maxDatagramSize

\* time.Time.Unix of the current time.
Unix == now \div Second - shift

-----------------------------------------------------------------------------
Tick ==
    /\ now < MaxTime
    /\ lastSentTime # 0 => now - lastSentTime < MaxIdle
    /\ now' = now + 1
    /\ UNCHANGED <<pacerVars, shift, pktInfoSlots, ackRate, reported, credit>>

\* The wall clock is set back by a second.
WallClockBack ==
    /\ shift < MaxShift
    /\ shift' = shift + 1
    /\ UNCHANGED <<pacerVars, now, pktInfoSlots, ackRate, reported, credit>>

\* The exact bucket: it fills at MaxBandwidth, up to the largest burst.
CreditLeft(packet) ==
    LET filled == IF lastSentTime = 0 THEN credit
                  ELSE credit + MaxBandwidth * (now - lastSentTime)
    IN  Larger(0, Smaller(filled, Second * MostBurst(maxDatagramSize))
                      - Second * packet)

\* A packet the pacer allows, or one that is not paced (acknowledgements and
\* probes).
OnPacketSent(packet) ==
    /\ SentPacket(now, packet, getBandwidth)
    /\ credit' = CreditLeft(packet)
    /\ UNCHANGED <<now, shift, pktInfoSlots, ackRate, reported>>

\* Raised by path MTU discovery.
SetMaxDatagramSize(s) ==
    /\ s > maxDatagramSize
    /\ SetPacerDatagramSize(s)
    /\ credit' = IF lastSentTime = 0 THEN Second * MostBurst(s) ELSE credit
    /\ UNCHANGED <<now, shift, pktInfoSlots, ackRate, reported>>

-----------------------------------------------------------------------------
\* Faulty variant: one second too many.
MinTimestampEarly(current) == current - SlotCount - 1

minTimestamp(current) == current - SlotCount

\* The slots that are not too old.
Counted(slots, current) ==
    {i \in DOMAIN slots : slots[i].Timestamp >= minTimestamp(current)}

\* Faulty variant: no lower limit.
Unlimited(rate) == rate

\* rate < minAckRate, which is four fifths.
AtLeastMinRate(rate) ==
    IF 5 * rate.ack < 4 * rate.total THEN [ack |-> 4, total |-> 5] ELSE rate

updateAckRate(slots, current) ==
    LET ack  == SumFunctionOnSet([i \in DOMAIN slots |-> slots[i].AckCount],
                                 Counted(slots, current))
        loss == SumFunctionOnSet([i \in DOMAIN slots |-> slots[i].LossCount],
                                 Counted(slots, current))
    IN  ackRate' = IF ack + loss < MinSampleCount THEN [ack |-> 1, total |-> 1]
                   ELSE AtLeastMinRate([ack |-> ack, total |-> ack + loss])

\* The slot of the second counts on, or starts again.
Entered(info, current, acked, lost) ==
    IF info.Timestamp = current
    THEN [info EXCEPT !.AckCount = @ + acked, !.LossCount = @ + lost]
    ELSE [Timestamp |-> current, AckCount |-> acked, LossCount |-> lost]

OnCongestionEventEx(acked, lost) ==
    LET slot  == Unix % SlotCount
        slots == [pktInfoSlots EXCEPT ![slot] = Entered(@, Unix, acked, lost)]
    IN  /\ pktInfoSlots' = slots
        /\ updateAckRate(slots, Unix)
        /\ reported' = [reported EXCEPT ![Unix] =
                            [ack |-> @.ack + acked, loss |-> @.loss + lost]]
        /\ UNCHANGED <<pacerVars, now, shift, credit>>

Next ==
    \/ Tick \/ WallClockBack
    \/ \E p \in PacketSizes : OnPacketSent(p)
    \/ \E s \in DatagramSizes : SetMaxDatagramSize(s)
    \/ \E a \in AckCounts, l \in LossCounts :
           /\ a + l > 0
           /\ SumFunction([s \in Seconds |-> reported[s].ack + reported[s].loss])
                  + a + l <= MaxReported
           /\ OnCongestionEventEx(a, l)

Spec == Init /\ [][Next]_vars
-----------------------------------------------------------------------------
\* Type invariant: the budget is a ByteCount, and the ack rate is between
\* minAckRate and 1, so the bandwidth handed to the pacer is never below bps.
TypeOK ==
    /\ PacerTypeOK
    /\ now \in StartTime..MaxTime
    /\ shift \in 0..MaxShift
    /\ pktInfoSlots \in [0..(SlotCount - 1) -> pktInfo]
    /\ ackRate \in [ack : Nat \ {0}, total : Nat]
    /\ ackRate.ack <= ackRate.total /\ 4 * ackRate.total <= 5 * ackRate.ack
    /\ credit \in Nat

\* The send loop of quic-go sleeps until TimeUntilSend when HasPacingBudget is
\* false.  That time is always ahead, also after the product in Budget has
\* wrapped, the datagram size has grown or the ack rate has changed since the
\* last packet: the loop never spins (the case bbr_sender.go:549-551 warns of).
NoSpin == ~HasPacingBudget(now) => TimeUntilSend(getBandwidth) > now

\* The pacer never grants more than an exact token bucket filled at the highest
\* bandwidth would: whatever rounding, wrap-around and changes of the rate do,
\* the packets of any stretch of time fit into one burst plus a quarter more
\* than bps.
CreditCovered ==
    lastSentTime # 0 => budgetAtLastSent * Second <= credit

\* The share of the packets reported in the seconds of T that were acked, with
\* its limits, is what ackRate' says.
IsRateOf(T) ==
    LET ack   == SumFunctionOnSet([s \in Seconds |-> reported'[s].ack], T)
        total == ack + SumFunctionOnSet([s \in Seconds |-> reported'[s].loss], T)
    IN  IF total < MinSampleCount THEN ackRate'.ack = ackRate'.total
        ELSE IF 5 * ack < 4 * total THEN 5 * ackRate'.ack = 4 * ackRate'.total
        ELSE ackRate'.ack * total = ack * ackRate'.total

\* The ack rate is taken over exactly the last pktInfoSlotCount seconds, however
\* many of them had no congestion event (brutal.go:100-132); after the wall
\* clock was set back, still over none but recent or later seconds.
RateOfRecentSeconds ==
    [][reported' # reported =>
          LET recent == {s \in Seconds : s > Unix - SlotCount}
          IN  IF shift = 0 THEN IsRateOf(recent)
              ELSE \E T \in SUBSET recent : IsRateOf(T)]_vars
=============================================================================
