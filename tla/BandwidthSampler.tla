--------------------------- MODULE BandwidthSampler ---------------------------
(***************************************************************************)
(* The bandwidth sampler of BBR (internal/congestion/bbr/                  *)
(* bandwidth_sampler.go) with the calls bbrSender makes to it: one per     *)
(* packet sent, one per congestion event, each on the goroutine of the     *)
(* connection.  The transport (quic-go, external) numbers the packets,     *)
(* knows which are outstanding and declares losses: every outstanding      *)
(* packet three or more below the largest acknowledged one                 *)
(* (packetThreshold), and with each lost packet those sent before it.  It  *)
(* may also drop a packet without telling the sampler.                     *)
(*                                                                         *)
(* Not here, because nothing in the program turns them on: overestimate    *)
(* avoidance (the A_0 candidates), the three options of the ack height     *)
(* tracker, OnPacketNeutered, which nothing calls.                         *)
(***************************************************************************)
EXTENDS WindowedFilter, FiniteSetsExt

CONSTANTS
    Sizes,          \* sizes of packets
    MaxPacket,      \* bound: the packet numbers are 0..MaxPacket
    MaxTime,        \* bound: the clock runs from 1; 0 is time.Time{}
    MaxDropped,     \* bound: bytes of the packets the transport drops
    Second          \* ticks in a second: a bandwidth is bytes per second

ASSUME SizesAssumption == Sizes \subseteq Nat \ {0}
ASSUME BoundsAssumption ==
    MaxPacket \in Nat /\ MaxTime \in Nat /\ MaxDropped \in Nat /\ Second \in Nat \ {0}

invalidPacketNumber == -1
packetThreshold == 3
bandwidthWindowSize == 10

VARIABLES
    \* bandwidthSampler
    totalBytesSent, totalBytesAcked, totalBytesLost,
    lastAcked,              \* of the last acked packet: sent, sentTime, ackTime
    lastSentPacket, isAppLimited, endOfAppLimitedPhase,
    connectionStateMap,
    totalBytesAckedAfterLastAckEvent,
    \* maxAckHeightTracker
    ackHeights, aggregationEpochStartTime, aggregationEpochBytes,
    \* bbrSender: what it passes to the sampler
    maxBandwidth, roundTripCount, currentRoundTripEnd,
    \* the transport; outstanding gives the size and time of each
    \* packet in flight
    now, outstanding, largestAcked,
    \* history: the packets sent since the last OnAppLimited, whether all of
    \* them are still to be acked, those sent in such phases; the bytes acked
    \* before the epoch, the largest excess measured; the bytes of the packets
    \* dropped
    sentSince, limited, marked, epochBase, excess, dropped

totals == <<totalBytesSent, totalBytesAcked, totalBytesLost>>
phase == <<isAppLimited, endOfAppLimitedPhase>>
tracker == <<ackHeights, aggregationEpochStartTime, aggregationEpochBytes,
             totalBytesAckedAfterLastAckEvent>>
sender == <<maxBandwidth, roundTripCount, currentRoundTripEnd>>
transport == <<outstanding, largestAcked, dropped>>
limitHistory == <<sentSince, limited, marked>>
heightHistory == <<epochBase, excess>>
vars == <<totals, lastAcked, lastSentPacket, phase, connectionStateMap, tracker,
          sender, now, transport, limitHistory, heightHistory>>

NoneAcked == [sent |-> 0, sentTime |-> 0, ackTime |-> 0]

Init ==
    /\ totalBytesSent = 0 /\ totalBytesAcked = 0 /\ totalBytesLost = 0
    /\ lastAcked = NoneAcked
    /\ lastSentPacket = invalidPacketNumber
    /\ isAppLimited = FALSE /\ endOfAppLimitedPhase = invalidPacketNumber
    /\ connectionStateMap = << >>
    /\ ackHeights = NoEstimates
    /\ aggregationEpochStartTime = 0 /\ aggregationEpochBytes = 0
    /\ totalBytesAckedAfterLastAckEvent = 0
    /\ maxBandwidth = NoEstimates
    /\ roundTripCount = 0 /\ currentRoundTripEnd = invalidPacketNumber
    /\ now = 1 /\ outstanding = << >> /\ largestAcked = invalidPacketNumber
    /\ sentSince = {} /\ limited = FALSE /\ marked = {}
    /\ epochBase = 0 /\ excess = 0 /\ dropped = 0

Larger(a, b) == IF a >= b THEN a ELSE b
Smaller(a, b) == IF a <= b THEN a ELSE b

InFlight == DOMAIN outstanding

Bytes(S) == SumFunctionOnSet([p \in InFlight |-> outstanding[p].size], S)

Extended(f, p, v) == [q \in DOMAIN f \cup {p} |-> IF q = p THEN v ELSE f[q]]

Restricted(f, S) == [p \in S |-> f[p]]

BandwidthFromDelta(bytes, delta) == (bytes * Second) \div delta
bytesFromBandwidthAndTimeDelta(bw, delta) == (bw * delta) \div Second

-----------------------------------------------------------------------------
Tick ==
    /\ now < MaxTime
    /\ now' = now + 1
    /\ UNCHANGED <<totals, lastAcked, lastSentPacket, phase, connectionStateMap,
                   tracker, sender, transport, limitHistory, heightHistory>>

\* The bytes in flight that come with a packet of this size: quic-go has counted
\* the packet by then.
ReportedInFlight(size) == Bytes(InFlight) + size

\* newConnectionStateOnSentPacket
ConnectionStateOnSentPacket(size, la) ==
    [sentTime |-> now, size |-> size, lastAcked |-> la, appLimited |-> isAppLimited,
     sent |-> totalBytesSent + size, acked |-> totalBytesAcked, lost |-> totalBytesLost,
     bytesInFlight |-> ReportedInFlight(size) + size]

\* OnPacketSent.  A packet that opens a transmission would be its own S_0 and
\* A_0, but the transport never reports that nothing is in flight.
OnPacketSent(size) ==
    LET p == lastSentPacket + 1
        la == IF ReportedInFlight(size) = 0
              THEN [sent |-> totalBytesSent + size, sentTime |-> now, ackTime |-> now]
              ELSE lastAcked
    IN  /\ p <= MaxPacket
        /\ lastSentPacket' = p
        /\ totalBytesSent' = totalBytesSent + size
        /\ lastAcked' = la
        /\ connectionStateMap' = Extended(connectionStateMap, p, ConnectionStateOnSentPacket(size, la))
        /\ outstanding' = Extended(outstanding, p, [size |-> size, time |-> now])
        /\ sentSince' = sentSince \cup {p}
        /\ marked' = IF limited THEN marked \cup {p} ELSE marked
        /\ UNCHANGED <<totalBytesAcked, totalBytesLost, phase, tracker, sender, now,
                       largestAcked, dropped, limited, heightHistory>>

\* OnPacketSent of a packet that is not retransmittable (acks only).
OnAckOnlySent ==
    /\ lastSentPacket < MaxPacket
    /\ lastSentPacket' = lastSentPacket + 1
    /\ UNCHANGED <<totals, lastAcked, phase, connectionStateMap, tracker, sender,
                   now, transport, limitHistory, heightHistory>>

\* The transport no longer counts a packet that was neither acked nor declared
\* lost (a path MTU probe that failed, a packet of a key that is gone), and
\* tells nobody; see the comment in RemoveObsoletePackets.
PacketDropped(p) ==
    /\ dropped + outstanding[p].size <= MaxDropped
    /\ outstanding' = Restricted(outstanding, InFlight \ {p})
    /\ dropped' = dropped + outstanding[p].size
    /\ UNCHANGED <<totals, lastAcked, lastSentPacket, phase, connectionStateMap, tracker,
                   sender, now, largestAcked, limitHistory, heightHistory>>

\* Faulty variant: a phase that is on keeps its end.
FirstEnd(last) == IF isAppLimited THEN endOfAppLimitedPhase ELSE last

EndOfPhase(last) == last

\* OnAppLimited, which the sender calls before or after a congestion event.
OnAppLimited ==
    /\ isAppLimited' = TRUE
    /\ endOfAppLimitedPhase' = EndOfPhase(lastSentPacket)
    /\ sentSince' = {} /\ limited' = TRUE
    /\ UNCHANGED <<totals, lastAcked, lastSentPacket, connectionStateMap, tracker,
                   sender, now, transport, marked, heightHistory>>

-----------------------------------------------------------------------------
\* No sample when nothing had been acked before the packet was sent, or in no
\* time at all.
HasSample(c) == c.lastAcked.sentTime # 0 /\ now > c.lastAcked.ackTime

\* min(sendRate, ackRate) in onPacketAcknowledged; the send rate is infinite
\* when the packet was sent together with S_0.
RateSample(c, acked) ==
    LET ackRate == BandwidthFromDelta(acked - c.acked, now - c.lastAcked.ackTime)
    IN  IF c.sentTime > c.lastAcked.sentTime
        THEN Smaller(BandwidthFromDelta(c.sent - c.lastAcked.sent,
                                        c.sentTime - c.lastAcked.sentTime), ackRate)
        ELSE ackRate

\* onPacketAcknowledged and the body of its loop in OnCongestionEvent: st is
\* what the loop has made of the sampler and of the event's sample so far.
Acknowledged(st, p) ==
    IF p \notin DOMAIN connectionStateMap THEN st
    ELSE LET c == connectionStateMap[p]
             acked == st.acked + c.size
             rate == IF HasSample(c) THEN RateSample(c, acked) ELSE 0
             best == rate > st.bandwidth
         IN  [acked |-> acked,
              lastAcked |-> [sent |-> c.sent, sentTime |-> c.sentTime, ackTime |-> now],
              limited |-> /\ st.limited
                          /\ endOfAppLimitedPhase # invalidPacketNumber
                          /\ p <= endOfAppLimitedPhase,
              bandwidth |-> IF best THEN rate ELSE st.bandwidth,
              sampleIsAppLimited |-> IF best THEN c.appLimited ELSE st.sampleIsAppLimited]

\* The loop over the acked packets, which come in the order of their numbers.
AfterAcks(acked) ==
    MapThenFoldSet(LAMBDA p, st : Acknowledged(st, p),
                   [acked |-> totalBytesAcked, lastAcked |-> lastAcked,
                    limited |-> isAppLimited, bandwidth |-> 0, sampleIsAppLimited |-> FALSE],
                   LAMBDA p : p, Max, acked)

\* Faulty variant: the bytes of all events so far are new every time.
AllAcked(acked) == acked

\* newlyAckedBytes in onAckEventEnd
NewlyAcked(acked) == acked - totalBytesAckedAfterLastAckEvent

\* maxAckHeightTracker.Update.  The excess is what it returns; what the filter
\* gets is the bytes expected.
UpdateAckHeight(bandwidthEstimate, bytesAcked) ==
    LET expected == bytesFromBandwidthAndTimeDelta(bandwidthEstimate, now - aggregationEpochStartTime)
        epochBytes == aggregationEpochBytes + bytesAcked
    IN  IF aggregationEpochStartTime = 0 \/ aggregationEpochBytes <= expected
        THEN /\ aggregationEpochStartTime' = now
             /\ aggregationEpochBytes' = bytesAcked
             /\ epochBase' = totalBytesAcked
             /\ UNCHANGED <<ackHeights, excess>>
        ELSE /\ aggregationEpochBytes' = epochBytes
             /\ ackHeights' = Updated(ackHeights, bandwidthWindowSize,
                                      Sampled(expected, roundTripCount'))
             /\ excess' = Larger(excess, epochBytes - expected)
             /\ UNCHANGED <<aggregationEpochStartTime, epochBase>>

\* onAckEventEnd
OnAckEventEnd(bandwidthEstimate, acked) ==
    IF NewlyAcked(acked) = 0
    THEN UNCHANGED <<tracker, heightHistory>>
    ELSE /\ totalBytesAckedAfterLastAckEvent' = acked
         /\ UpdateAckHeight(bandwidthEstimate, NewlyAcked(acked))

\* Faulty variant: one packet too many is taken for obsolete.
LeastUnackedHigh(acked, lost) == IF acked # {} THEN Max(acked) - 1 ELSE Max(lost) + 1

\* leastUnacked of bbrSender.OnCongestionEventEx
LeastUnacked(acked, lost) == IF acked # {} THEN Max(acked) - 2 ELSE Max(lost) + 1

\* Faulty variant: an event without acks returns before its losses are counted.
LostWithAcks(acked, lost) == IF acked = {} THEN 0 ELSE Bytes(lost)

\* OnPacketLost for each lost packet, which OnCongestionEvent calls before it
\* returns from an event without acks.
LostBytes(acked, lost) == Bytes(lost)

\* An ack takes time.
Ackable == {p \in InFlight : outstanding[p].time < now}

\* The losses the transport can declare along with the acks.
Losses(acked) ==
    LET largest == Max(acked \cup {largestAcked})
        below == {p \in InFlight \ acked : p < largest}
        must == {p \in below : p + packetThreshold <= largest}
    IN  {lost \in SUBSET below :
            must \subseteq lost /\ \A p \in lost, q \in below : q < p => q \in lost}

\* OnCongestionEvent of the sampler and what bbrSender.OnCongestionEventEx does
\* around it: count the round, keep the best bandwidth, drop what is obsolete.
CongestionEvent(acked, lost) ==
    LET roundStart == acked # {} /\ (currentRoundTripEnd = invalidPacketNumber
                                     \/ Max(acked) > currentRoundTripEnd)
        st == AfterAcks(acked)
        best == GetBest(maxBandwidth)
    IN  /\ acked \cup lost # {}
        /\ roundTripCount' = IF roundStart THEN roundTripCount + 1 ELSE roundTripCount
        /\ currentRoundTripEnd' = IF roundStart THEN lastSentPacket ELSE currentRoundTripEnd
        /\ totalBytesLost' = totalBytesLost + LostBytes(acked, lost)
        /\ totalBytesAcked' = st.acked
        /\ lastAcked' = st.lastAcked
        /\ isAppLimited' = st.limited
        /\ OnAckEventEnd(Larger(best, st.bandwidth), st.acked)
        /\ maxBandwidth' =
              IF st.acked # totalBytesAcked /\ (~st.sampleIsAppLimited \/ st.bandwidth > best)
              THEN Updated(maxBandwidth, bandwidthWindowSize, Sampled(st.bandwidth, roundTripCount'))
              ELSE maxBandwidth
        /\ connectionStateMap' =
              Restricted(connectionStateMap,
                         {p \in DOMAIN connectionStateMap : p >= LeastUnacked(acked, lost)})
        /\ outstanding' = Restricted(outstanding, InFlight \ (acked \cup lost))
        /\ largestAcked' = Max(acked \cup {largestAcked})
        /\ limited' = (limited /\ acked \cap sentSince = {})
        /\ UNCHANGED <<totalBytesSent, lastSentPacket, endOfAppLimitedPhase, now, dropped,
                       sentSince, marked>>

Next ==
    \/ Tick
    \/ \E size \in Sizes : OnPacketSent(size)
    \/ OnAckOnlySent
    \/ OnAppLimited
    \/ \E p \in InFlight : PacketDropped(p)
    \/ \E acked \in SUBSET Ackable : \E lost \in Losses(acked) : CongestionEvent(acked, lost)

Spec == Init /\ [][Next]_vars

-----------------------------------------------------------------------------
\* The comment in bbrSender.OnCongestionEventEx: the estimate of the least
\* unacked packet and the true one "should differ by no more than 2 packets".
\* No packet in flight is forgotten: when its ack comes, it gives a sample.
OutstandingTracked == InFlight \subseteq DOMAIN connectionStateMap

\* The totals the sampler hands to BBR: a byte sent is acked, lost, in flight or
\* in a packet the transport dropped, and in one of them only, through acks and
\* losses in any order and in one event.
TotalsBalance ==
    totalBytesSent - totalBytesAcked - totalBytesLost = Bytes(InFlight) + dropped

\* The comment of sendTimeState.bytesInFlight: "Includes the packet itself.  It
\* should be equal to |total_bytes_sent| minus the sum of |total_bytes_acked|,
\* |total_bytes_lost| and total neutered bytes" (nothing is ever neutered).
SendStateInFlight ==
    \A p \in DOMAIN connectionStateMap :
        LET c == connectionStateMap[p]
        IN  c.bytesInFlight = c.sent - c.acked - c.lost

\* The rule in the comment above congestionEventSample: "once OnAppLimited() is
\* called, all sent packets will produce app-limited samples up until an ack for
\* a packet that was sent after OnAppLimited() was called", and no others.
AppLimitedRule ==
    /\ isAppLimited = limited
    /\ \A p \in DOMAIN connectionStateMap : connectionStateMap[p].appLimited <=> p \in marked

\* The epoch's bytes are exactly those acked since the event that began it,
\* across loss-only events and events without a sample.
EpochBytesAcked ==
    aggregationEpochStartTime # 0 => aggregationEpochBytes = totalBytesAcked - epochBase

\* The comment of maxAckHeightFilter, "Tracks the maximum number of bytes acked
\* faster than the estimated bandwidth", within one window.
AckHeightIsMaxExcess == roundTripCount <= bandwidthWindowSize => GetBest(ackHeights) = excess
=============================================================================
