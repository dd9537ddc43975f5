# A TLA+ model of qperf-go

qperf-go measures the throughput of QUIC connections. A client connects, sends
one request and counts what the server sends back; the server writes until the
connection ends, under a congestion control chosen on its command line. One of
the congestion controls is driven by an external learning agent over Redis.
This directory models that program in TLA+, checks the models with TLC and
proves the central results with TLAPS.

## Inventory

| Component | State | Operations | Interaction | What makes it correct |
|---|---|---|---|---|
| RL congestion control (`internal/congestion/rl`) | window, datagram size, sequence number, `actionCh`, three goroutines | subscribe, receive/accept/send an action, apply and clamp, tick, publish, FIN | connection goroutine calls it; Redis channels to and from the agent; `actionCh` between goroutines; all fields unsynchronised | answers applied once and in order, window not negative outside the update, nothing accepted is lost at close, every goroutine returns |
| Throughput client (`client/client.go`, `common/state.go`) | times and counters under a mutex, report history, main / receive / interrupt goroutines | dial, request, first byte, sleep, report, close, total, export, read, interrupt | QUIC stream to the server; `State` shared by main and receive; process exit shared by all | bytes counted once, reports tile the measurement, panics only on failure, it ends |
| Throughput server (`server/*.go`) | session and stream goroutine, `closeOnce` | accept, choose the congestion control, accept stream, read request, write, end | QUIC connection; both goroutines see its end | one log line that tells the outcome, goroutines end |
| BBR ring buffer (`bbr/ringbuffer.go`) | ring, head, tail, full | push, pop, clear, offset, grow | under the packet number queue and the sampler's candidates | it is a FIFO |
| BBR packet number queue (`bbr/packet_number_indexed_queue.go`) | entries, counter, first number | emplace, remove, remove up to, lookup | the sampler's record of packets in flight | it is a map from packet numbers |
| Pacer (`congestion/common/pacer.go`) | budget, last sent time, datagram size | sent, budget, time until send | used by RL, Brutal and BBR, which supply the bandwidth | no budget means a send time ahead; bursts bounded |
| Brutal (`brutal/brutal.go`) | five one-second slots, ack rate | congestion event | pacer; RTT statistics | only recent packets count; rate in [0.8, 1] |
| BBR windowed filter (`bbr/windowed_filter.go`) | three estimates with their rounds | update, reset, clear | the sender's bandwidth, the sampler's ack heights | covers the window, forgets what is older |
| BBR bandwidth sampler (`bbr/bandwidth_sampler.go`) | totals of sent, acked and lost bytes, a state per packet, app-limited phase, ack aggregation epoch | sent, congestion event, app-limited, remove obsolete | called by the sender, keeps its packets in the packet number queue | no packet in flight forgotten, totals of bytes that balance, exactly the right packets marked app-limited |
| BBR sender (`bbr/bbr_sender.go`) | mode, gain cycle, round, recovery, windows, rates | sent, congestion event | transport, sampler, filter, pacer | windows inside limits, STARTUP does not slow down, modes follow the bandwidth and progress |
| Cubic (`cubic/`) | window, epoch | ack, loss | none: not wired to the server, and it does not build in this repository | |
| HTTP/3 client (`client.go: serverHttp3`) | result slice, wait group | one goroutine per URL | unsynchronised append | every result reported |
| 0-RTT preparation (`common/0rtt_utils.go`, `single_*`) | two single-slot caches | put, get, await | quic-go callbacks | awaits end; first ticket kept |
| Command line, logs, certificates, tracers, helpers | none of consequence | | | |

What is hard here: three goroutines per RL connection that share a window and a
sequence number without a lock, an agent whose answers are delayed or lost, and
a close that may find any of them blocked; on the client a clock that is read
outside the mutex, a receiver that outlives the report of the total, and an
interrupt that closes the connection under the others; in BBR, index arithmetic and
three estimates that only go wrong after long sequences of operations, and a
state machine in which modes, rounds, recovery and quiescence overlap; before a
0-RTT connection two caches that are set and awaited without a lock and without
a timeout. `PROJECT.json` lists
these hazards one by one with the properties that cover them.

## Modules

| Module | Models | Role |
|---|---|---|
| `RLAction` | `actionMap`, the step and the clamp (rl.go:63-83) | operators shared by the two below |
| `RLWindow` | what the RL control promises: one atomic move per answered state, numbers rising | abstract |
| `RLControl` | `NewRLSender` with its goroutines, `QuicMqManager`, Redis, the agent | detailed |
| `MCRLControl` | constants for TLC | |
| `RLControlProofs` | theorems about `RLControl` | |
| `QuicLink` | what both programs observe of a quic-go connection with one stream (external) | |
| `ZeroRtt` | `SingleSessionCache`, `SingleTokenStore` and the connection of the preparation | part of `QperfClient` |
| `QperfClient` | `client.Run`, the 0-RTT preparation, `receive`, the interrupt handler, `common.State` | |
| `QperfServer` | accept loop, session, stream | |
| `Qperf`, `QperfProofs` | client and server over the link, theorems | composition |
| `Fifo`, `RingBuffer`, `RingBufferProofs` | abstract queue, ring buffer, theorems | |
| `PacketMap`, `PacketNumberQueue`, `PacketNumberQueueProofs` | abstract map, packet number queue, theorems | |
| `Pacer` | the token bucket | operators, used by `Brutal` |
| `Brutal`, `BrutalProofs` | `BrutalSender`, theorems | composition with the pacer |
| `WindowedFilter` | the filter of three estimates | operators, used by the next three |
| `MaxFilter` | what the sender relies on: after a sample the best is not below it, and not above all the filter had | abstract |
| `BandwidthFilter`, `BandwidthFilterProofs` | `maxBandwidth` of the sender, theorems | detailed |
| `BandwidthSampler`, `BandwidthSamplerProofs` | the sampler with the sender's calls to it, theorems | composition with the filter |
| `BbrSender`, `MCBbrSender`, `BbrSenderProofs` | the sender over `MaxFilter` and any samples, constants for TLC, theorems | |

**RLControl.** One record of variables per connection. `listener`, `applier` and
`publisher` say where each goroutine is: the listener at its `select` or blocked
in `sendAction`, the applier at `range` or between the addition and the test, the
publisher at its `select` or with a numbered state that is not published yet. A
step is the code between two points where another goroutine can see a
difference: `nextSeq` and `Publish` are separate (mq.go:76, 81), the test of
`sendAction` and the send are separate (mq.go:64, 68), the addition and the clamp
are separate (rl.go:78, 79). `actionCh` has capacity one. Redis is a choice:
`Publish` delivers or not, and a reply reaches any subset of the listeners that
have subscribed. The agent answers each state it receives once, under the
number of the state, in order; it is not part of the repository. The messages
carry the connection as a history field, which no guard reads. `ReadActionFails`
is a message that is not JSON. The published values themselves are recorded but
nothing depends on them.

**QperfClient, QperfServer, QuicLink.** Each critical section of `State` is one
step; a `Read` and the `AddReceivedBytes` after it are two, and so are the clock
reading of `GetAndResetReport` and its critical section. Data is counted in
chunks of flow control. A `Read` on a connection that has ended may still return
data with the error. The clock is discrete and advances at any time up to the
deadline. A connection ends "closed" (application error 0, by `CloseWithError`)
or "failed" (idle timeout or transport error). The branch of `receive` for an
application error other than 0 is left out: this server never closes with a
code, and so are the errors of the client's own `CloseWithError`, of which quic-go
returns none. `reportInterval` is an option like the others: main.go:63-68 and 163 pass
any number on, so zero and negative ones are values too, for which `Sleep` returns at
once (`Pause`). The packet counter is always 0, as the tracer that feeds it is not
installed.

**RingBuffer, PacketNumberQueue.** Every method is an action or an operator. The
queue uses a sequence for its ring buffer, which is what `RingBuffer` is shown
to implement. `call` records the last call on the queue with its arguments and
result, so that `PacketMap` ties each change to the call that made it.

**Pacer, Brutal.** Times are ticks, `Second` of them in a second; the monotonic
clock drives the pacer and the wall clock, which may be set back, the slots. A
`ByteCount` wraps at `HalfRange`. The ack rate is a fraction and its comparison
with 0.8 exact, where the code uses floating point. `reported` and `credit` are
history: the packets of every second, and an exact token bucket filled at the
highest bandwidth. The congestion window and the debug output are left out. The
server runs it at 5 MiB/s (server.go:145), at which the product does not wrap within
the idle timeout; the model lets it wrap once, as the guard in `Budget` foresees.

**ZeroRtt.** `Put` is two steps on the goroutine of quic-go: the assignments, then
the cancel of the context that `Await` waits for. The session cache and the token
store have the same code and are one function here. `Await` looks neither at the
connection nor at the clock, as in the code. One `Put` at a time: quic-go handles the
tickets and tokens of a connection on one goroutine, so the two `Put`s at once that the
TODO at single_session_cache.go:33 has in mind do not happen. After an early dial the server learns
of the connection in a step of its own (`HandshakeArrives`).

**WindowedFilter, BandwidthFilter.** `Updated` is `Update`, split at its returns:
`MustReset`, `Placed`, `Promoted`, `Renewed`. A round may give no sample. `seen`
and `quiet` are history.

**BandwidthSampler.** One event is one action: losses, acks in their order
(a fold of `onPacketAcknowledged`), the end of the ack event, and what
`OnCongestionEventEx` does around it (round, best bandwidth, obsolete packets). The
transport declares losses as quic-go does: every packet three below the largest
acked, and with a lost packet those before it. It may also drop a packet without an ack or a
loss (`PacketDropped`, the case of the comment at bandwidth_sampler.go:696-700). The bytes
in flight it reports with a packet include that packet, as in the quic-go of go.mod.
`sentSince`, `limited`, `marked`, `epochBase`, `excess` and `dropped` are history.

**BbrSender.** The sampler gives any sample an event can have, and the filter any
value `MaxFilter` allows. Packets are places in flight, counted from the oldest,
so that numbers do not grow; gains are in quarters; ages are cut where nothing
tells them apart, and fields that only one mode reads are cleared outside it. The
parts of `OnCongestionEventEx` are operators that are chained as the code chains
them. `CanSend` is what the transport asks; packets with acks only are not held
back by it. Packets leave flight by an ack or a loss here; silent drops are in
`BandwidthSampler`.

Definitions whose comment starts with "Faulty variant" are not used by the
specifications. Each is a plausible mistake in the definition that follows it;
replacing that definition by its variant must make a property fail, which shows
that the property looks at the code.

## Runs

| Run | Configuration | Result |
|---|---|---|
| `rl` | `MCRLControl.cfg`: one connection, three ticks, two datagram sizes, window of four packets | all eight properties hold |
| `rl_shared` | `MCRLShared.cfg`: two connections, initial numbers 0 or 1 | `OwnActionsOnly` is violated |
| `rl_zero` | `MCRLZero.cfg` | `PacerBandwidthNeverZero` is violated |
| `qperf` | `Qperf.cfg`: window of one chunk, two chunks in all, probe time of one tick, interval of zero or one, with and without `--0rtt` (0.5 million states) | all eight properties hold |
| `ring_buffer` | `RingBuffer.cfg`: initial sizes 0 to 3, up to five elements, two values | all four properties hold |
| `packet_queue` | `PacketNumberQueue.cfg`: packet numbers 0 to 4, two entries | all three properties hold |
| `brutal` | `Brutal.cfg`: seconds of two ticks, two slots, `ByteCount` of -40 to 39 | all four properties hold |
| `bbr_filter` | `BandwidthFilter.cfg`: four samples, a window of six rounds, fourteen rounds | all four properties hold |
| `bbr_sampler` | `BandwidthSampler.cfg`: five packets, three ticks, one dropped (2.2 million states) | all four properties hold |
| `send_state` | `SendState.cfg`: four packets | `SendStateInFlight` is violated |
| `ack_height` | `AckHeight.cfg`: four packets | `AckHeightIsMaxExcess` is violated |
| `bbr_sender` | `BbrSender.cfg`: up to three packets in flight, three bandwidths, a cycle of three gains | all five properties hold |

`rl`: the window moves only by fresh answers, in order (`AnswersInOrder`,
`AcceptsNewestOnly`, `ImplementsRLWindow`); it is negative only inside the two-step
update (`NegativeOnlyUntilTest`); nothing accepted is lost at close (`DrainedOnExit`);
FIN is the last state (`FinIsLast`); all goroutines return (`GoroutinesReturn`).
`qperf`: every byte is accounted for (`BytesAccounted`), reports tile the time and the
bytes up to the last of them (`ReportsTile`), none covers less than main slept, and with
a positive `--report-interval` every record can be exported (`ReportsAreLong`); panics
follow a failure or an early interrupt (`PanicsAfterFailure`); the session's log line is
right (`LogTellsOutcome`); everything ends (`MeasurementEnds`). `brutal`: a sender
without budget is given a time ahead (`NoSpin`), it never sends more than one burst plus
a quarter above its rate allows (`CreditCovered`), and the ack rate is that of exactly
the last seconds (`RateOfRecentSeconds`). `qperf` also covers the preparation: the
measurement starts with the first ticket and the first token, whole
(`PreparedWithFirst`), and the only way for the client not to end is that the connection
of the preparation is gone before both have come (`Stranded`, the missing timeout of
0rtt_utils.go:13). `bbr_filter`: the estimates are ordered and each is the best of what
came after it (`EstimatesOrdered`), the best is not below any sample of the round, nor,
as long as every round gives a sample, of the last three rounds (`RecentCovered`; fewer
where half the window is shorter), no best outlives the window at a sample
(`BestIsRecent`), and every call is answered as `MaxFilter` says
(`ImplementsMaxFilter`). `bbr_sampler`: the estimate of the least unacked packet forgets
none in flight (`OutstandingTracked`), each byte sent is acked, lost, in flight or in a
dropped packet, once (`TotalsBalance`), exactly the packets sent in app-limited phases
are marked (`AppLimitedRule`), and the aggregation epoch holds what was acked since it
began (`EpochBytesAcked`). `bbr_sender`: the window given to the transport keeps its
limits in every mode and in recovery (`WindowLimits`); DRAIN and PROBE_BW only at full
bandwidth, STARTUP only below (`FullBandwidthModes`); neither window nor rate falls
before full bandwidth (`StartupNeverSlowsDown`); the low gain comes after the high one
only (`LowGainFollowsHigh`); PROBE_RTT ends (`ProbeRttEnds`).

### Bounds

- `rl`: three ticks let an answer be in each of the agent's queue, the
  subscription and the channel at once; a window of four packets with steps of
  up to three and a larger datagram size reaches zero, negative values and the
  fallback. The fallback (10240 bytes in the code) and the datagram sizes are
  scaled down together.
- `qperf`: two chunks against a window of one make the server block and resume, and give
  the receiver data after the first byte; the proofs are for all numbers of chunks;
  probe time 1 with interval 1 gives two reports, and with interval 0 a report can read
  the clock of the first byte. `MaxWait` caps the time to the first byte, `MaxLag` how
  late the scheduler may be, and `EarlyReports` the reports before the probe time is
  over: with interval 0 main would make any number of them in one tick, so behind the
  bound it oversleeps, as `Sleep` may. One report over no time is enough for a lost
  export.
- `ring_buffer`: five elements grow a ring from 0 to 8 slots and one of 3 slots
  to 6, with the head at every position.
- `packet_queue`: five numbers allow gaps of every length up to three, with removals
  inside and at both ends.
- `brutal`: the run covers four seconds, so that with two slots a slot can be two
  rounds old; an event acks five packets or none and loses one or none, which
  gives rates of 1, 5/6 and below 0.8. The product in `Budget` wraps after four
  idle ticks. `BrutalAssumption` says it wraps only once: with the idle timeout of
  quic-go (30 s) that holds for every rate up to about 0.6 GB/s in the code. The
  clock is bounded by `MaxTime`, so this run does not look for deadlocks.
- `qperf`, preparation: two tickets and two tokens, so that one finds its cache set
  before, during and after the await.
- `bbr_filter`: a window of six has a half and a quarter that differ, and fourteen
  rounds are more than two windows. The rounds are bounded, so the run does not
  look for deadlocks.
- `bbr_sampler`: five packets are two more than `packetThreshold`, so that losses by
  threshold happen with packets on both sides; three ticks make an epoch, its end and
  another; `MaxDropped` lets one packet vanish. Larger clocks exceed the time of a run.
  Clock and numbers are bounded, so this run does not look for deadlocks.
- `bbr_sender`: windows of one to three packets, recovery windows up to four
  (`MaxRecoveryWindow`, a bound of the model: the code lets the recovery window grow with
  every ack; it limits the transport only below the congestion window, and losses larger
  than it are in the run as they are); bandwidths
  of 0, one and two packets per tick put the target below, at and above the windows.
  The round trip is one tick: a second value would exceed the time of a run. The cycle
  has one phase of each gain, where the code has six at gain 1; startup takes two rounds
  (three in the code), one loss event (eight) and a third lost (2 %). The proofs do
  not depend on these numbers.

### Fairness

`RLControl`: the Go scheduler runs every goroutine that can run (weak fairness
of each goroutine's steps). A `select` with several ready cases picks one
uniformly at random, so the case of `ctx.Done()`, once ready, is taken
eventually even if the other case is ready again and again: strong fairness for
the two steps behind it. The connection, Redis and the agent are not fair.
`Qperf`: weak fairness of the goroutines of both programs, of the clock, and of
the idle timeout of an end that hears nothing any more. The user, the path and
the arrival of data are not fair. A server that is up sends a ticket and a token on the
connection of the preparation, and when the server is gone that connection breaks.
`BbrSender`: time passes, the application has data for every window that opens (weak
fairness), and the path is not dead: when again and again packets are in flight, again
and again some are acked (strong fairness, as every ack needs packets sent before).
Without data to send or without acks PROBE_RTT does not end, in the code either: it is
left only in a congestion event.

## Disagreements found

1. `rl_zero`: rl.go:79 replaces only a negative window. A window of exactly zero
   remains, and the pacer is given bandwidth zero, the case the comment at
   bbr_sender.go:549-551 says must not happen.
2. `rl_shared`: all connections use the Redis channels of the constant
   `MQ_CONNECTION_ID` (rl.go:18, 62), although `NewQuicMqManager` derives them
   from a connection ID. With two connections a window is moved by the answer to
   the other's state. The ordering results therefore assume one connection.
3. `ack_height`: `maxAckHeightTracker.Update` gives the filter the expected bytes
   (bandwidth_sampler.go:202) where the comments at lines 59 and 102 speak of the
   excess; the congestion window of BBR grows by the filter's maximum.
4. `send_state`: `OnPacketSent` of the sampler adds the packet to the bytes in flight it is
   given (bandwidth_sampler.go:592), but quic-go has counted the packet by then. The send
   state, which the comments at lines 34-38 and 306 say "Includes the packet itself" and is
   what is in flight "right after the packet is sent", has it twice. The loss test of
   STARTUP (bbr_sender.go:916-921) compares with this value. With line 592 passing
   `bytesInFlight` the property holds on the same instance.

Noticed, without a run:

- client.go:202 promises to "close gracefully on interrupt (CTRL+C)"; before the first byte
  the close makes main panic, in a race with `os.Exit(0)`. That is the last case of
  `PanicsAfterFailure`, which does not hold without it.
- `bandwidthForPacer` (bbr_sender.go:546-555) multiplies by `congestionWindowGain`;
  `pacingGain` and `pacingRate` are computed but never reach the pacer.
- A loss-only event does not update the recovery state (bbr_sender.go:424-428).
- `maxBandwidth` covers less than its window after rounds without samples; and also
  without such rounds three estimates are sure to cover three rounds only, not half
  the window: `BandwidthFilter.tla` gives a sequence of samples for a window of 10.
- As quic-go counts a packet in the bytes in flight it reports with it, the tests for an
  empty network can hold for packets with acks only: the one at bandwidth_sampler.go:574,
  which such packets do not reach, never holds, and the one at bbr_sender.go:329 only for
  them.
- With a `--report-interval` of 0 or less the client reports without a pause; two reports in
  one reading of the clock give a rate that JSON cannot hold, and the export fails as a whole
  (client.go:297, 358). Nothing says which intervals are allowed.
- `SingleSessionCache.Get` (single_session_cache.go:21) returns its named result, which
  is nil, with true. Nothing calls it on a cache that is set.
- The server chooses between cubic, rl and brutal; `UseBBR` has no caller. It does not
  set `Allow0RTT`.
- The comment on `LastPacket`
  (packet_number_indexed_queue.go:160-162) says "Zero if the queue is empty"; the
  code returns -1.

## Proofs

All constants are arbitrary, within the named assumptions of the modules.

- `RLControlProofs`: `SafeInv` is the conjunction of `TypeOK`, the places of the
  goroutines (an action is held exactly while the listener is blocked in
  `sendAction`, a state is outgoing exactly while the publisher publishes it, the
  channel is closed exactly when the listener has returned, and the applier ends
  only on a closed, empty channel) and the window's part (negative only while the
  applier is about to test it). It is inductive; `TypeCorrect`,
  `NegativeWindowIsShort` and `NothingLostOnExit` follow. `DrainedOnExit` alone
  is not inductive: that a closed channel has no sender left is needed.
  `NumbersInOrder` shows `AnswersInOrder` inductive relative to
  `SafeInv` for a single connection: each step moves the number at the head of
  one stage to the end of the next, or drops it, and `nextSeq` makes a number
  above all others. `RefinesRLWindow` then maps the steps: the addition in
  `ApplyAction` is the abstract move, because the refinement reads the window
  with its clamp applied, `ClampWindow` is a stutter, and the number applied
  exceeds the last one. `NewestOnly` uses the same order: an answer cannot be newer
  than the newest state, and `sendAction` ignores older ones. `FinComesLast` needs no
  assumption on the number of connections; its invariant `PublishInv` says that what
  the publisher is about to send carries the newest number, and that its FIN is the
  end of it.
- `QperfProofs`: `QperfInv` is the conjunction of the types, where the goroutines can
  be, and one part for each question. `CountingInv`: the receiver holds bytes only
  between its `Read` and its critical section. `ClockInv` and `SleepInv`: the times of
  `State` are in the past and in the order in which they are set, and main, asleep or
  with the clock it has read in its hand, is as far past the last report as it slept
  (`Pause`, for every interval, positive or not); this is what makes the reading of the
  clock outside the mutex harmless. That a rate is finite is proved for positive
  intervals only. `ConnInv`: how the two ends and the request can stand to each other;
  only the client closes, and a `Read` fails only on a failed connection. `PrepareInv`:
  a cache that is set, or being set, holds the first value that came. The seven theorems
  are the parts.
- `RingBufferProofs`: positions stay inside the ring, the flag and equal
  positions agree, and with that `PushBack`, `PopFront` and `Clear` are `Push`, `Pop`
  and `Drop` of `Fifo` on the contents read from the head round the ring.
  `OffsetIsRight` and `RetainsNothing` follow the positions in use through growth,
  which rotates them to the start of the new ring.
- `PacketNumberQueueProofs`: `QueueInv` adds to `FrontPresent` that the entries are
  numbered from `firstPacket` on by numbers of callers. The loops of `RemoveUpTo` and of
  the clean-up after `Remove` are the number of entries up to the first one that stays;
  the lemmas on it say how many present ones go with them. `QueueImplementsMap` maps
  each call, with its result, to a step of `PacketMap`.
- `BandwidthFilterProofs`: `FilterInv` is the type invariant and `EstimatesOrdered`,
  which is inductive with it: replacement, promotion and renewal each keep the
  order in value and in time, and what was seen after an estimate's round is not above
  it. `FilterOrdered`, `BestExpires` (the best is as old as the window at most, after a
  sample) and `FilterIsMaxFilter` follow. That licenses the use of `MaxFilter` in
  `BbrSender`. `RecentAreCovered` needs more: that the best covers the last rounds
  says nothing of the moment when it expires and the second takes its place. `Tight`
  says what the second and third cover, and `Strict` that no two estimates are of
  one round. The attempt to prove it for half the window failed at this point and
  led to the counterexample in the comment of `RecentCovered`.
- `BandwidthSamplerProofs`: `SamplerInv` adds to the properties that the sampler
  remembers the size of every packet in flight (`Tracked`), the total at the end of the
  last event (`EventsCounted`), and that among the packets in flight those sent after
  `OnAppLimited` are the ones above `endOfAppLimitedPhase` (`PhaseEnd`). Totals are sums
  over sets of packets, and the acks of an event a fold over them; the lemmas prove by
  induction on finite sets (over the set of the subsets that have the property, which
  needs no operator parameter) that sum and fold exist, that sums split, and what the
  fold leaves. `BytesBalance` is about the totals, with packets that the transport
  drops; the send state of a packet is not part of it. No bound on packets, sizes or
  time is used.
- `BrutalProofs`: `BrutalInv` is the type invariant with `Bucket`: once a packet was
  sent the budget is below the largest burst and covered by the exact bucket, and the
  idle time is within the timeout. With that the product in `Budget` wraps at most once,
  and if it does the budget is negative, so that `Protected` makes it a full burst: a
  wrapped product is never mistaken for a small one. `SendLoopNeverSpins` is then the
  arithmetic of the two roundings: less than a datagram of budget leaves a wait, rounded
  up, that is longer than the time that has passed. `RateIsBounded` needs that what a
  packet leaves is below the largest burst, which only grows with the datagram size.
- `BbrSenderProofs`: `BbrInv` is the type invariant, `WindowInv` and `FullBandwidthModes`.
  `WindowLimits` alone is not inductive: PROBE_RTT hides the two windows behind it, so
  `WindowInv` keeps the limits of `congestionWindow` always and the lower limit of the
  recovery window while in recovery. `RecoveryWindow` can meet a window of 0 only in
  the event that enters recovery. The modes are followed through the operators of the
  event one by one: each keeps the type and says which mode it gives. `WindowStaysInLimits`
  and `ModesFollowBandwidth` follow, for all windows with
  minimum <= initial <= maximum, all gains, bandwidths and round trips.
  `NoSlowdownInStartup` is about single steps from `BbrInv`. `LowGainAfterHigh` assumes
  of the cycle what `pacingGain` in bbr_sender.go is: a probe first and the one low gain
  behind it (`GainsAssumption`); the cycle never starts at the low gain and moves on by
  one offset at a time.

Left to TLC: liveness (`GoroutinesReturn`, `MeasurementEnds`, `ProbeRttEnds`), which is
outside what the prover handles; and `RateOfRecentSeconds`, whose proof has to match the
sum over slots with the sum over seconds. Without a theorem are also the four
violations, whose runs are their proof.

## Plan

In order:

1. Done: RL control, the measurement, ring buffer, packet number queue.
2. Done: pacer and Brutal.
3. Done: BBR windowed filter, bandwidth sampler, sender.
4. Done: 0-RTT preparation.
5. Done: theorems for every safety invariant and refinement that a run checks.
6. Left: `RateOfRecentSeconds` of Brutal: that a slot holds the counts of the
   second it names, and a sum that is the same when its places are renamed.

## Not modelled

- Options of BBR that nothing in the program turns on: detection of overshooting,
  `drainToTarget`, ack aggregation in STARTUP, overestimate avoidance (A_0 candidates), the
  three options of the ack height tracker, neutered packets. A model of them would describe
  states the program is never in.
- `SetMaxDatagramSize` of BBR: `BbrSender` counts in packets. The condition of
  `maybeApplimited`: `BandwidthSampler` lets `OnAppLimited` come at any time. The BBR
  sender's calls of the pacer: `Pacer` is checked under `Brutal`.
- Products of BBR (`bdpFromRttAndBandwidth`, `BandwidthFromDelta`) are unbounded
  integers; an overflow takes tens of Gbit/s with a round trip of seconds.
- Packet number spaces: the transport numbers packets in one space here, as after
  the handshake.
- Cubic: the server does not use it, and the package refers to a slow start, RTT statistics
  and a pacer that are not in the repository.
- HTTP/3: the goroutines of `serverHttp3` append to a slice without a lock
  (client.go:415); what the race leaves is up to the compiler, and nothing says what the
  export must hold. The handlers of the server are static content.
- Command line and conversions, logging, certificates, tracers: no state of consequence.
  A number with a unit can wrap in byte_count_parser.go:31, on a value the user types.
