-------------------------------- MODULE Pacer --------------------------------
(***************************************************************************)
(* The token bucket of the congestion controls                             *)
(* (internal/congestion/common/pacer.go), in the arithmetic of the code:   *)
(* integer division, and a product of bandwidth and idle time that wraps.  *)
(* The bandwidth is the value of the callback getBandwidth.                *)
(***************************************************************************)
EXTENDS Integers

CONSTANTS
    Second,             \* ticks of the clock per second (1e9 in the code)
    MinPacingDelay, Millisecond, \* in ticks
    MaxBurstPackets,
    InitialPacketSize,
    DatagramSizes,      \* sizes path MTU discovery can set
    HalfRange           \* ByteCount is in -HalfRange..HalfRange-1 (2^63 in the code)

ASSUME PacerAssumption ==
    /\ Second \in Nat \ {0}
    /\ MinPacingDelay \in Nat \ {0} /\ Millisecond \in Nat
    /\ MaxBurstPackets \in Nat \ {0}
    /\ DatagramSizes \subseteq Nat \ {0}
    /\ InitialPacketSize \in DatagramSizes
    /\ HalfRange \in Nat \ {0}

VARIABLES budgetAtLastSent, maxDatagramSize,
          lastSentTime   \* 0 is Go's zero time

pacerVars == <<budgetAtLastSent, maxDatagramSize, lastSentTime>>

PacerInit ==
    /\ budgetAtLastSent = MaxBurstPackets * InitialPacketSize
    /\ maxDatagramSize = InitialPacketSize
    /\ lastSentTime = 0

Larger(a, b) == IF a < b THEN b ELSE a
Smaller(a, b) == IF a < b THEN a ELSE b

\* Signed overflow of a ByteCount.
Wrap(x) == ((x + HalfRange) % (2 * HalfRange)) - HalfRange

\* Go's division truncates towards zero.
Quotient(x, n) == IF x >= 0 THEN x \div n ELSE -((-x) \div n)

maxBurstSize(bandwidth) ==
    Larger(((MinPacingDelay + Millisecond) * bandwidth) \div Second,
           MaxBurstPackets * maxDatagramSize)

\* Faulty variant: a product that wrapped is used as it is.
Unprotected(budget) == budget

\* "protect against overflows"
Protected(budget) == IF budget < 0 THEN HalfRange \div 2 - 1 ELSE budget

Budget(t, bandwidth) ==
    IF lastSentTime = 0 THEN maxBurstSize(bandwidth)
    ELSE Smaller(maxBurstSize(bandwidth),
                 Protected(budgetAtLastSent
                           + Quotient(Wrap(bandwidth * (t - lastSentTime)), Second)))

\* Faulty variant: rounds down.
RoundedDown(x, n) == x \div n

\* math.Ceil of a quotient.
RoundedUp(x, n) == (x + n - 1) \div n

\* 0, the zero time, is "now".
TimeUntilSend(bandwidth) ==
    IF budgetAtLastSent >= maxDatagramSize THEN 0
    ELSE lastSentTime + Larger(MinPacingDelay,
             RoundedUp((maxDatagramSize - budgetAtLastSent) * Second, bandwidth))

\* Faulty variant: a packet larger than the budget leaves the budget.
LeftIfEnough(budget, packet) == IF packet > budget THEN budget ELSE budget - packet

\* What a packet leaves of the budget.
Left(budget, packet) == IF packet > budget THEN 0 ELSE budget - packet

SentPacket(t, packet, bandwidth) ==
    /\ budgetAtLastSent' = Left(Budget(t, bandwidth), packet)
    /\ lastSentTime' = t
    /\ UNCHANGED maxDatagramSize

\* The controls pass the size on from their own SetMaxDatagramSize.
SetPacerDatagramSize(s) ==
    /\ maxDatagramSize' = s
    /\ UNCHANGED <<budgetAtLastSent, lastSentTime>>

PacerTypeOK ==
    /\ budgetAtLastSent \in 0..(HalfRange - 1)
    /\ maxDatagramSize \in DatagramSizes
    /\ lastSentTime \in Nat
=============================================================================
