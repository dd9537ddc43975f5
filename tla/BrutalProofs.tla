----------------------------- MODULE BrutalProofs -----------------------------
(***************************************************************************)
(* BrutalSender on its Pacer, for every rate, packet size, clock and idle  *)
(* timeout within BrutalAssumption: the ack rate stays in its limits, the  *)
(* send loop never spins, and no rounding, wrap-around or change of rate   *)
(* lets out more than an exact token bucket would.                         *)
(***************************************************************************)
EXTENDS Brutal, FiniteSetTheorems, NaturalsInduction, WellFoundedInduction, TLAPS

-----------------------------------------------------------------------------
\* Induction, on numbers and on the subsets of a finite set, in the form of sets.
LEMMA LeastNumber ==
    ASSUME NEW T \in SUBSET Nat, T # {}
    PROVE  \E x \in T : \A y \in T : x <= y
<1> DEFINE R == OpToRel(<, Nat)
<1>1. IsWellFoundedOn(R, Nat)
    BY NatLessThanWellFounded
<1>2. \A x, y \in Nat : <<x, y>> \in R <=> x < y
    BY DEF OpToRel
<1> HIDE DEF R
<1>3. PICK x \in T : \A y \in T : ~(<<y, x>> \in R)
    BY <1>1, WFMin
<1>4. ASSUME NEW y \in T
      PROVE  x <= y
    <2>1. ~(<<y, x>> \in R)
        BY <1>3
    <2>2. x \in Nat /\ y \in Nat
        OBVIOUS
    <2>3. ~(y < x)
        BY <1>2, <2>1, <2>2
    <2> QED
        BY <2>2, <2>3
<1> QED
    BY <1>4

LEMMA NumberInduction ==
    ASSUME NEW N \in SUBSET Nat, 0 \in N, \A n \in N : n + 1 \in N
    PROVE  N = Nat
<1> SUFFICES ASSUME N # Nat
             PROVE  FALSE
    OBVIOUS
<1>1. Nat \ N # {} /\ Nat \ N \in SUBSET Nat
    OBVIOUS
<1>2. PICK x \in Nat \ N : \A y \in Nat \ N : x <= y
    BY <1>1, LeastNumber
<1>3. x # 0 /\ x \in Nat
    BY <1>2
<1>4. x - 1 \in Nat /\ ~(x <= x - 1) /\ (x - 1) + 1 = x
    BY <1>3
<1>5. x - 1 \in N
    BY <1>2, <1>4
<1> QED
    BY <1>2, <1>4, <1>5

LEMMA SubsetInduction ==
    ASSUME NEW S, IsFiniteSet(S), NEW Q,
           \A T \in SUBSET S : (\A x \in T : T \ {x} \in Q) => T \in Q
    PROVE  \A T \in SUBSET S : T \in Q
<1> DEFINE N == {n \in Nat : \A T \in SUBSET S : Cardinality(T) = n => T \in Q}
<1>1. \A T \in SUBSET S : IsFiniteSet(T) /\ Cardinality(T) \in Nat
    BY FS_Subset, FS_CardinalityType
<1>2. 0 \in N
    <2>1. ASSUME NEW T \in SUBSET S, Cardinality(T) = 0
          PROVE  T \in Q
        <3>1. T = {}
            BY <1>1, <2>1, FS_EmptySet
        <3> QED
            BY <3>1
    <2> QED
        BY <2>1
<1>3. ASSUME NEW n \in N
      PROVE  n + 1 \in N
    <2>1. ASSUME NEW T \in SUBSET S, Cardinality(T) = n + 1
          PROVE  T \in Q
        <3>1. ASSUME NEW x \in T
              PROVE  T \ {x} \in Q
            <4>1. Cardinality(T \ {x}) = Cardinality(T) - 1
                BY <1>1, FS_RemoveElement
            <4>2. Cardinality(T \ {x}) = n /\ T \ {x} \in SUBSET S
                BY <2>1, <4>1
            <4> QED
                BY <4>2
        <3> QED
            BY <3>1
    <2> QED
        BY <2>1
<1> HIDE DEF N
<1>4. N = Nat
    <2>1. N \in SUBSET Nat
        BY DEF N
    <2> QED
        BY <1>2, <1>3, <2>1, NumberInduction
<1> QED
    BY <1>1, <1>4 DEF N

-----------------------------------------------------------------------------
\* The sums of the library, by the equation its recursive function satisfies.
First(s) == CHOOSE x \in s : TRUE

SumStep(g, f, s) == IF s = {} THEN 0 ELSE f[First(s)] + g[s \ {First(s)}]

IsSum(g, f, S) == g = [s \in SUBSET S |-> SumStep(g, f, s)]

LEMMA FirstIn == ASSUME NEW s, s # {} PROVE First(s) \in s
BY DEF First

\* There is such a function: it can be built level by level.
LEMMA SumExists ==
    ASSUME NEW S, IsFiniteSet(S), NEW f
    PROVE  \E g : IsSum(g, f, S)
<1> DEFINE Upto(g, n) == \A s \in SUBSET S : Cardinality(s) <= n => g[s] = SumStep(g, f, s)
           N == {n \in Nat : \E g : Upto(g, n)}
<1>1. \A s \in SUBSET S : IsFiniteSet(s) /\ Cardinality(s) \in Nat
    BY FS_Subset, FS_CardinalityType
<1>2. 0 \in N
    <2> DEFINE g == [s \in SUBSET S |-> 0]
    <2>1. ASSUME NEW s \in SUBSET S, Cardinality(s) <= 0
          PROVE  g[s] = SumStep(g, f, s)
        <3>1. Cardinality(s) = 0
            BY <1>1, <2>1
        <3>2. s = {}
            BY <1>1, <3>1, FS_EmptySet
        <3> QED
            BY <3>2 DEF SumStep
    <2> QED
        BY <2>1
<1>3. ASSUME NEW n \in N
      PROVE  n + 1 \in N
    <2>1. PICK g : Upto(g, n)
        OBVIOUS
    <2> DEFINE h == [s \in SUBSET S |-> SumStep(g, f, s)]
    <2>2. ASSUME NEW s \in SUBSET S, Cardinality(s) <= n + 1
          PROVE  h[s] = SumStep(h, f, s)
        <3>1. h[s] = SumStep(g, f, s)
            OBVIOUS
        <3>2. CASE s = {}
            BY <3>1, <3>2 DEF SumStep
        <3>3. CASE s # {}
            <4> DEFINE t == s \ {First(s)}
            <4>1. First(s) \in s
                BY <3>3, FirstIn
            <4>2. Cardinality(t) = Cardinality(s) - 1
                BY <1>1, <4>1, FS_RemoveElement
            <4>3. t \in SUBSET S /\ Cardinality(t) <= n
                BY <1>1, <2>2, <4>2
            <4>4. g[t] = SumStep(g, f, t) /\ h[t] = SumStep(g, f, t)
                BY <2>1, <4>3
            <4> QED
                BY <3>1, <3>3, <4>4 DEF SumStep
        <3> QED
            BY <3>2, <3>3
    <2>3. Upto(h, n + 1)
        BY <2>2
    <2> HIDE DEF h, Upto
    <2> QED
        BY <2>3
<1>4. N = Nat
    <2>1. N \in SUBSET Nat
        OBVIOUS
    <2> HIDE DEF N
    <2> QED
        BY <1>2, <1>3, <2>1, NumberInduction
<1>5. S \in SUBSET S /\ Cardinality(S) \in Nat
    BY <1>1
<1>6. PICK g : Upto(g, Cardinality(S))
    BY <1>4, <1>5
<1>7. \A s \in SUBSET S : g[s] = SumStep(g, f, s)
    <2>1. \A s \in SUBSET S : Cardinality(s) <= Cardinality(S)
        BY FS_Subset
    <2> QED
        BY <1>6, <2>1
<1> DEFINE h == [s \in SUBSET S |-> SumStep(g, f, s)]
<1>8. ASSUME NEW s \in SUBSET S
      PROVE  SumStep(g, f, s) = SumStep(h, f, s)
    <2>1. s \ {First(s)} \in SUBSET S
        OBVIOUS
    <2>2. h[s \ {First(s)}] = g[s \ {First(s)}]
        BY <1>7, <2>1
    <2> QED
        BY <2>2 DEF SumStep
<1>9. h = [s \in SUBSET S |-> SumStep(h, f, s)]
    BY <1>8
<1> HIDE DEF h
<1> QED
    BY <1>9 DEF IsSum

\* A sum of natural numbers is one.
LEMMA SumNat ==
    ASSUME NEW S, IsFiniteSet(S), NEW f, \A x \in S : f[x] \in Nat
    PROVE  SumFunctionOnSet(f, S) \in Nat
<1>1. \E g : IsSum(g, f, S)
    BY SumExists
<1>2. PICK g : IsSum(g, f, S) /\ SumFunctionOnSet(f, S) = g[S]
    BY <1>1 DEF SumFunctionOnSet, FoldFunctionOnSet, MapThenFoldSet, IsSum, SumStep, First
<1> DEFINE Q == {s \in SUBSET S : g[s] \in Nat}
<1>3. ASSUME NEW s \in SUBSET S, \A x \in s : s \ {x} \in Q
      PROVE  s \in Q
    <2>1. g[s] = SumStep(g, f, s)
        BY <1>2 DEF IsSum
    <2>2. CASE s = {}
        BY <2>1, <2>2 DEF SumStep
    <2>3. CASE s # {}
        <3>1. First(s) \in s
            BY <2>3, FirstIn
        <3>2. g[s \ {First(s)}] \in Nat /\ f[First(s)] \in Nat
            BY <1>3, <3>1
        <3>3. g[s] = f[First(s)] + g[s \ {First(s)}]
            BY <2>1, <2>3 DEF SumStep
        <3> QED
            BY <3>2, <3>3
    <2> QED
        BY <2>2, <2>3
<1> HIDE DEF Q
<1>4. \A s \in SUBSET S : s \in Q
    BY <1>3, SubsetInduction
<1> QED
    BY <1>2, <1>4 DEF Q

-----------------------------------------------------------------------------
\* Division and products, where the pacer needs more than linear arithmetic.
LEMMA DivFacts ==
    ASSUME NEW x \in Int, NEW d \in Nat \ {0}
    PROVE  x \div d \in Int /\ d * (x \div d) <= x /\ x < d * (x \div d) + d
OBVIOUS

LEMMA ProductMonotone ==
    ASSUME NEW a \in Nat, NEW b \in Nat, NEW c \in Nat, NEW d \in Nat, a <= b, c <= d
    PROVE  a * c \in Nat /\ b * d \in Nat /\ a * c <= b * d
<1>1. a * c <= b * c
    OBVIOUS
<1>2. b * c <= b * d
    OBVIOUS
<1> QED
    BY <1>1, <1>2

LEMMA ProductCancel ==
    ASSUME NEW a \in Int, NEW b \in Int, NEW c \in Nat \ {0}
    PROVE  (a * c <= b * c => a <= b) /\ (a * c < b * c => a < b)
OBVIOUS

LEMMA DivNat ==
    ASSUME NEW x \in Nat, NEW d \in Nat \ {0}
    PROVE  x \div d \in Nat /\ d * (x \div d) <= x /\ x < d * (x \div d) + d
OBVIOUS

LEMMA DivMonotone ==
    ASSUME NEW x \in Nat, NEW y \in Nat, NEW d \in Nat \ {0}, x <= y
    PROVE  x \div d <= y \div d
<1> DEFINE q == x \div d
           r == y \div d
<1>1. q \in Nat /\ d * q <= x /\ r \in Nat /\ y < d * r + d
    BY DivNat
<1> HIDE DEF q, r
<1>2. q * d < (r + 1) * d
    BY <1>1
<1>3. q < r + 1
    BY <1>1, <1>2, ProductCancel
<1> QED
    BY <1>1, <1>3 DEF q, r

\* bps / ackRate lies between bps and MaxBandwidth.
LEMMA RatioBounds ==
    ASSUME NEW b \in Nat \ {0}, NEW a \in Nat \ {0}, NEW t \in Nat, a <= t, 4 * t <= 5 * a
    PROVE  /\ (b * t) \div a \in Nat /\ b <= (b * t) \div a
           /\ (b * t) \div a <= (b * 5) \div 4
<1> DEFINE q == (b * t) \div a
           r == (b * 5) \div 4
<1>1. b * t \in Nat /\ b * 5 \in Nat
    OBVIOUS
<1>2. q \in Nat /\ a * q <= b * t /\ b * t < a * q + a
    BY <1>1, DivNat
<1>3. r \in Nat /\ b * 5 < 4 * r + 4
    OBVIOUS
<1> HIDE DEF q, r
<1>4. b <= q
    <2>1. b * a <= b * t
        OBVIOUS
    <2>2. b * a < (q + 1) * a
        BY <1>1, <1>2, <2>1
    <2>3. b < q + 1
        BY <1>2, <2>2, ProductCancel
    <2> QED
        BY <1>2, <2>3
<1>5. q <= r
    <2>1. b * (4 * t) <= b * (5 * a)
        BY ProductMonotone
    <2>2. 4 * (b * t) <= (b * 5) * a
        BY <2>1
    <2>3. (4 * q) * a <= (b * 5) * a
        BY <1>1, <1>2, <2>2
    <2>4. 4 * q <= b * 5
        BY <1>1, <1>2, <2>3, ProductCancel
    <2> QED
        BY <1>2, <1>3, <2>4
<1> QED
    BY <1>2, <1>4, <1>5 DEF q, r

\* The product of Budget, which is below twice the range: it does not wrap, or
\* wraps once.
LEMMA WrapFacts ==
    ASSUME NEW x \in Nat, x < 2 * HalfRange
    PROVE  /\ x < HalfRange => Wrap(x) = x
           /\ x >= HalfRange => Wrap(x) = x - 2 * HalfRange
<1>1. HalfRange \in Nat \ {0}
    BY PacerAssumption
<1>2. ASSUME x < HalfRange
      PROVE  ((x + HalfRange) % (2 * HalfRange)) - HalfRange = x
    BY <1>1, <1>2
<1>3. ASSUME x >= HalfRange
      PROVE  ((x + HalfRange) % (2 * HalfRange)) - HalfRange = x - 2 * HalfRange
    BY <1>1, <1>3
<1> QED
    BY <1>2, <1>3 DEF Wrap

-----------------------------------------------------------------------------
\* The constants: bursts, and that the range has room for them.
LEMMA BurstConstants ==
    /\ MaxBandwidth \in Nat
    /\ \A s \in DatagramSizes :
          /\ s \in Nat \ {0} /\ MostBurst(s) \in Nat
          /\ s <= MaxBurstPackets * s /\ MaxBurstPackets * s \in Nat
          /\ MaxBurstPackets * s <= MostBurst(s)
          /\ MostBurst(s) <= HalfRange \div 2 - 1
          /\ HalfRange \div 2 \in Nat /\ HalfRange \div 2 <= HalfRange
          /\ Second * MostBurst(s) \in Nat /\ Second * MostBurst(s) <= HalfRange
          /\ MaxBandwidth * MaxIdle \in Nat
          /\ MaxBandwidth * MaxIdle + Second * MostBurst(s) < 2 * HalfRange
    /\ \A s, t \in DatagramSizes : s < t => MostBurst(s) <= MostBurst(t)
<1> DEFINE K == ((MinPacingDelay + Millisecond) * MaxBandwidth) \div Second
<1>1. /\ Second \in Nat \ {0} /\ MinPacingDelay \in Nat /\ Millisecond \in Nat
      /\ MaxBurstPackets \in Nat \ {0} /\ HalfRange \in Nat \ {0}
      /\ MaxIdle \in Nat /\ bps \in Nat
    BY PacerAssumption, BrutalAssumption
<1>2. MaxBandwidth \in Nat
    <2>1. bps * 5 \in Nat
        BY <1>1
    <2> QED
        BY <2>1 DEF MaxBandwidth
<1>3. K \in Nat
    <2>1. (MinPacingDelay + Millisecond) * MaxBandwidth \in Nat
        <3>1. MinPacingDelay + Millisecond \in Nat
            BY <1>1
        <3> QED
            BY <1>2, <3>1, ProductMonotone
    <2> QED
        BY <1>1, <2>1, DivNat
<1>4. \A s : MostBurst(s) = IF K < MaxBurstPackets * s THEN MaxBurstPackets * s ELSE K
    BY DEF MostBurst, Larger
<1> HIDE DEF K
<1>5. ASSUME NEW s \in DatagramSizes
      PROVE  /\ s \in Nat \ {0} /\ MostBurst(s) \in Nat
             /\ s <= MaxBurstPackets * s /\ MaxBurstPackets * s \in Nat
             /\ MaxBurstPackets * s <= MostBurst(s)
    <2>1. s \in Nat \ {0}
        BY PacerAssumption
    <2>2. s <= MaxBurstPackets * s /\ MaxBurstPackets * s \in Nat
        BY <1>1, <2>1
    <2> QED
        BY <1>3, <1>4, <2>1, <2>2
<1>6. ASSUME NEW s \in DatagramSizes
      PROVE  /\ MostBurst(s) < HalfRange \div 2
             /\ Second * MostBurst(s) <= HalfRange
             /\ MaxBandwidth * MaxIdle + Second * MostBurst(s) < 2 * HalfRange
    BY BrutalAssumption
<1>7. ASSUME NEW s \in DatagramSizes
      PROVE  /\ MostBurst(s) <= HalfRange \div 2 - 1
             /\ HalfRange \div 2 \in Nat /\ HalfRange \div 2 <= HalfRange
    <2>1. HalfRange \div 2 \in Nat /\ HalfRange \div 2 <= HalfRange
        BY <1>1
    <2> QED
        BY <1>5, <1>6, <2>1
<1>8. MaxBandwidth * MaxIdle \in Nat /\ \A s \in DatagramSizes : Second * MostBurst(s) \in Nat
    BY <1>1, <1>2, <1>5, ProductMonotone
<1>9. ASSUME NEW s \in DatagramSizes, NEW t \in DatagramSizes, s < t
      PROVE  MostBurst(s) <= MostBurst(t)
    <2>1. s \in Nat /\ t \in Nat /\ s <= t
        BY <1>5, <1>9
    <2>2. /\ MaxBurstPackets * s <= MaxBurstPackets * t
          /\ MaxBurstPackets * s \in Nat /\ MaxBurstPackets * t \in Nat
        BY <1>1, <2>1, ProductMonotone
    <2> QED
        BY <1>3, <1>4, <2>2
<1> QED
    BY <1>2, <1>5, <1>6, <1>7, <1>8, <1>9

-----------------------------------------------------------------------------
\* The exact bucket: full until the first packet; after that at least the
\* budget, which the packet has taken off the largest burst.  The idle timeout
\* limits the time the budget is computed over.
Bucket ==
    /\ lastSentTime = 0 => credit = Second * MostBurst(maxDatagramSize)
    /\ lastSentTime # 0 => /\ lastSentTime <= now
                           /\ now - lastSentTime <= MaxIdle
                           /\ budgetAtLastSent < MostBurst(maxDatagramSize)
                           /\ budgetAtLastSent * Second <= credit

\* The invariant of the proofs.
BrutalInv == TypeOK /\ Bucket

\* The numbers in a state.
LEMMA Numbers ==
    ASSUME TypeOK
    PROVE  /\ now \in Nat \ {0} /\ lastSentTime \in Nat /\ credit \in Nat
           /\ budgetAtLastSent \in Nat
           /\ maxDatagramSize \in DatagramSizes /\ Second \in Nat \ {0}
<1>1. /\ Second \in Nat \ {0} /\ StartTime \in Nat /\ SlotCount \in Nat /\ MaxShift \in Nat
      /\ HalfRange \in Nat /\ MaxTime \in Nat
      /\ StartTime \div Second > SlotCount + MaxShift
    BY PacerAssumption, BrutalAssumption
<1>2. StartTime # 0
    BY <1>1
<1>3. now \in StartTime..MaxTime
    BY DEF TypeOK
<1>4. now \in Nat \ {0}
    BY <1>1, <1>2, <1>3
<1>5. budgetAtLastSent \in Nat
    BY <1>1 DEF TypeOK, PacerTypeOK
<1> QED
    BY <1>1, <1>4, <1>5 DEF TypeOK, PacerTypeOK

\* The rate handed to the pacer, and the burst it allows.
LEMMA RateBounds ==
    ASSUME TypeOK
    PROVE  /\ getBandwidth \in Nat \ {0} /\ getBandwidth <= MaxBandwidth
           /\ maxBurstSize(getBandwidth) \in Nat
           /\ maxDatagramSize <= maxBurstSize(getBandwidth)
           /\ maxBurstSize(getBandwidth) <= MostBurst(maxDatagramSize)
<1> DEFINE bw == getBandwidth
           D == MinPacingDelay + Millisecond
           k == (D * bw) \div Second
           K == (D * MaxBandwidth) \div Second
           m == MaxBurstPackets * maxDatagramSize
<1>1. /\ bps \in Nat \ {0} /\ D \in Nat /\ Second \in Nat \ {0}
    BY PacerAssumption, BrutalAssumption
<1>2. /\ ackRate.ack \in Nat \ {0} /\ ackRate.total \in Nat
      /\ ackRate.ack <= ackRate.total /\ 4 * ackRate.total <= 5 * ackRate.ack
    BY DEF TypeOK
<1>3. bw \in Nat /\ bps <= bw /\ bw <= MaxBandwidth
    BY <1>1, <1>2, RatioBounds DEF getBandwidth, MaxBandwidth
<1>4. MaxBandwidth \in Nat
    BY BurstConstants
<1>5. maxDatagramSize \in DatagramSizes
    BY Numbers
<1>6. m \in Nat /\ maxDatagramSize \in Nat /\ maxDatagramSize <= m
    BY <1>5, BurstConstants
<1>7. maxBurstSize(bw) = IF k < m THEN m ELSE k
    BY DEF maxBurstSize, Larger
<1>8. MostBurst(maxDatagramSize) = IF K < m THEN m ELSE K
    BY DEF MostBurst, Larger
<1> HIDE DEF bw, D, m
<1>9. D * bw \in Nat /\ D * MaxBandwidth \in Nat /\ D * bw <= D * MaxBandwidth
    BY <1>1, <1>3, <1>4, ProductMonotone
<1>10. k \in Nat /\ K \in Nat /\ k <= K
    BY <1>1, <1>9, DivNat, DivMonotone
<1> HIDE DEF k, K
<1>11. bw \in Nat \ {0}
    BY <1>1, <1>3
<1>12. /\ maxBurstSize(bw) \in Nat /\ maxDatagramSize <= maxBurstSize(bw)
       /\ maxBurstSize(bw) <= MostBurst(maxDatagramSize)
    BY <1>6, <1>7, <1>8, <1>10
<1> QED
    BY <1>3, <1>11, <1>12 DEF bw

\* The budget now.  When the product does not wrap it is what the exact division
\* leaves; when it does, the test for a negative budget makes it a full burst.
LEMMA BudgetFacts ==
    ASSUME BrutalInv
    PROVE  LET B     == Budget(now, getBandwidth)
               burst == maxBurstSize(getBandwidth)
               p     == getBandwidth * (now - lastSentTime)
           IN  /\ B \in Nat /\ B <= burst
               /\ lastSentTime = 0 => B = burst
               /\ lastSentTime # 0 =>
                     /\ p \in Nat /\ now - lastSentTime \in Nat
                     /\ Second * B <= credit + MaxBandwidth * (now - lastSentTime)
                     /\ \/ B = burst
                        \/ B = budgetAtLastSent + p \div Second
<1> DEFINE bw    == getBandwidth
           B     == Budget(now, bw)
           burst == maxBurstSize(bw)
           dt    == now - lastSentTime
           p     == bw * dt
           most  == MostBurst(maxDatagramSize)
<1>1. TypeOK /\ Bucket
    BY DEF BrutalInv
<1>2. /\ now \in Nat /\ lastSentTime \in Nat /\ credit \in Nat /\ budgetAtLastSent \in Nat
      /\ maxDatagramSize \in DatagramSizes /\ Second \in Nat \ {0}
    BY <1>1, Numbers
<1>3. bw \in Nat \ {0} /\ bw <= MaxBandwidth /\ burst \in Nat /\ burst <= most
    BY <1>1, RateBounds
<1>4. /\ MaxBandwidth \in Nat /\ most \in Nat /\ most <= HalfRange \div 2 - 1
      /\ HalfRange \div 2 \in Nat
      /\ Second * most \in Nat /\ Second * most <= HalfRange
      /\ MaxBandwidth * MaxIdle \in Nat
      /\ MaxBandwidth * MaxIdle + Second * most < 2 * HalfRange
    BY <1>2, BurstConstants
<1>5. HalfRange \in Nat \ {0} /\ MaxIdle \in Nat
    BY PacerAssumption, BrutalAssumption
<1>6. CASE lastSentTime = 0
    <2>1. B = burst
        BY <1>6 DEF Budget
    <2> QED
        BY <1>3, <1>6, <2>1
<1>7. CASE lastSentTime # 0
    <2>1. /\ lastSentTime <= now /\ dt <= MaxIdle
          /\ budgetAtLastSent < most /\ budgetAtLastSent * Second <= credit
        BY <1>1, <1>7 DEF Bucket
    <2>2. dt \in Nat
        BY <1>2, <2>1
    <2> DEFINE X == budgetAtLastSent + Quotient(Wrap(p), Second)
    <2>3. B = IF burst < Protected(X) THEN burst ELSE Protected(X)
        BY <1>7 DEF Budget, Smaller
    <2> HIDE DEF bw, B, burst, dt, most
    <2>4. p \in Nat /\ p <= MaxBandwidth * MaxIdle /\ p <= MaxBandwidth * dt
          /\ MaxBandwidth * dt \in Nat
        BY <1>3, <1>4, <1>5, <2>1, <2>2, ProductMonotone
    <2> HIDE DEF p
    <2>5. p < 2 * HalfRange /\ Second * most < 2 * HalfRange - p
        BY <1>4, <1>5, <2>4
    <2>6. CASE p < HalfRange
        <3>1. Wrap(p) = p
            BY <2>4, <2>5, <2>6, WrapFacts
        <3>2. Quotient(Wrap(p), Second) = p \div Second
            BY <2>4, <3>1 DEF Quotient
        <3>3. p \div Second \in Nat /\ Second * (p \div Second) <= p
            BY <1>2, <2>4, DivNat
        <3>4. X = budgetAtLastSent + p \div Second /\ X \in Nat
            BY <1>2, <3>2, <3>3
        <3>5. Protected(X) = X
            BY <3>4 DEF Protected
        <3>6. Second * X = Second * budgetAtLastSent + Second * (p \div Second)
            BY <1>2, <3>3, <3>4
        <3>7. Second * X <= credit + MaxBandwidth * dt
            BY <1>2, <2>1, <2>4, <3>3, <3>6
        <3>8. B \in Nat /\ B <= burst /\ B <= X /\ (B = burst \/ B = X)
            BY <1>3, <2>3, <3>4, <3>5
        <3>9. Second * B <= Second * X /\ Second * B \in Nat /\ Second * X \in Nat
            BY <1>2, <3>4, <3>8, ProductMonotone
        <3>10. Second * B <= credit + MaxBandwidth * dt
            BY <1>2, <2>4, <3>7, <3>9
        <3> QED
            BY <1>7, <2>2, <2>4, <3>4, <3>8, <3>10 DEF B, burst, bw, p, dt
    <2>7. CASE p >= HalfRange
        <3> DEFINE w == 2 * HalfRange - p
        <3>1. Wrap(p) = p - 2 * HalfRange
            BY <2>4, <2>5, <2>7, WrapFacts
        <3>2. w \in Nat /\ Wrap(p) = -w /\ -Wrap(p) = w /\ Wrap(p) < 0
            BY <1>4, <1>5, <2>4, <2>5, <3>1
        <3>3. Quotient(Wrap(p), Second) = -(w \div Second)
            BY <3>2 DEF Quotient
        <3> HIDE DEF w
        <3>4. w \div Second \in Nat /\ w < Second * (w \div Second) + Second
            BY <1>2, <3>2, DivNat
        <3>5. most * Second < (w \div Second + 1) * Second
            BY <1>2, <1>4, <2>5, <3>2, <3>4 DEF w
        <3>6. most < w \div Second + 1
            BY <1>2, <1>4, <3>4, <3>5, ProductCancel
        <3>7. X < 0
            BY <1>2, <1>4, <2>1, <3>3, <3>4, <3>6
        <3>8. Protected(X) = HalfRange \div 2 - 1
            BY <3>7 DEF Protected
        <3>9. B = burst
            <4>1. B = IF burst < HalfRange \div 2 - 1 THEN burst ELSE HalfRange \div 2 - 1
                BY <2>3, <3>8
            <4>2. burst <= HalfRange \div 2 - 1 /\ HalfRange \div 2 - 1 \in Int
                BY <1>3, <1>4
            <4> QED
                BY <1>3, <4>1, <4>2
        <3>10. Second * B <= Second * most /\ Second * B \in Nat
            BY <1>2, <1>3, <1>4, <3>9, ProductMonotone
        <3>11. Second * B <= credit + MaxBandwidth * dt
            BY <1>2, <1>4, <1>5, <2>4, <2>7, <3>10
        <3> QED
            BY <1>3, <1>7, <2>2, <2>4, <3>9, <3>11 DEF B, burst, bw, p, dt
    <2> QED
        BY <1>5, <2>4, <2>6, <2>7
<1> QED
    BY <1>6, <1>7

\* The invariant is what the send loop needs.
LEMMA NeverSpins == BrutalInv => NoSpin
<1> SUFFICES ASSUME BrutalInv, Budget(now, getBandwidth) < maxDatagramSize
             PROVE  TimeUntilSend(getBandwidth) > now
    <2>1. ASSUME BrutalInv
          PROVE  Budget(now, getBandwidth) \in Nat /\ maxDatagramSize \in Nat
        <3>1. TypeOK
            BY <2>1 DEF BrutalInv
        <3>2. maxDatagramSize \in Nat
            BY <3>1, Numbers, BurstConstants
        <3>3. Budget(now, getBandwidth) \in Nat
            BY <2>1, BudgetFacts
        <3> QED
            BY <3>2, <3>3
    <2> QED
        BY <2>1 DEF NoSpin, HasPacingBudget
<1> DEFINE bw == getBandwidth
           dt == now - lastSentTime
           p  == bw * dt
           need == (maxDatagramSize - budgetAtLastSent) * Second
           wait == RoundedUp(need, bw)
<1>1. TypeOK
    BY DEF BrutalInv
<1>2. /\ now \in Nat /\ lastSentTime \in Nat /\ budgetAtLastSent \in Nat
      /\ maxDatagramSize \in Nat /\ Second \in Nat \ {0} /\ MinPacingDelay \in Nat
    BY <1>1, Numbers, BurstConstants, PacerAssumption
<1>3. /\ bw \in Nat \ {0} /\ maxBurstSize(bw) \in Nat
      /\ maxDatagramSize <= maxBurstSize(bw)
    BY <1>1, RateBounds
<1>4. Budget(now, bw) # maxBurstSize(bw)
    BY <1>2, <1>3
<1>5. /\ lastSentTime # 0 /\ p \in Nat /\ dt \in Nat
      /\ Budget(now, bw) = budgetAtLastSent + p \div Second
    BY <1>4, BudgetFacts
<1>6. TimeUntilSend(bw) = IF budgetAtLastSent >= maxDatagramSize THEN 0
                          ELSE lastSentTime + Larger(MinPacingDelay, wait)
    BY DEF TimeUntilSend
<1> HIDE DEF bw
<1>7. p \div Second \in Nat /\ p < Second * (p \div Second) + Second
    BY <1>2, <1>5, DivNat
<1>8. budgetAtLastSent + p \div Second < maxDatagramSize
    BY <1>5 DEF bw
<1>9. ~(budgetAtLastSent >= maxDatagramSize)
    BY <1>2, <1>7, <1>8
<1>10. need \in Nat /\ p < need
    <2>1. p \div Second + 1 <= maxDatagramSize - budgetAtLastSent
        BY <1>2, <1>7, <1>8
    <2>2. maxDatagramSize - budgetAtLastSent \in Nat
        BY <1>2, <1>9
    <2>3. need \in Nat /\ (p \div Second + 1) * Second <= need
        BY <1>2, <1>7, <2>1, <2>2, ProductMonotone
    <2>4. p < (p \div Second + 1) * Second
        BY <1>2, <1>7
    <2> HIDE DEF need
    <2> QED
        BY <1>2, <1>5, <1>7, <2>3, <2>4
<1> HIDE DEF need
<1>11. wait \in Nat /\ dt < wait
    <2>1. need + bw - 1 \in Nat
        BY <1>3, <1>10
    <2>2. wait = (need + bw - 1) \div bw
        BY DEF RoundedUp
    <2>3. wait \in Nat /\ need + bw - 1 < bw * wait + bw
        BY <1>3, <2>1, <2>2, DivNat
    <2> HIDE DEF wait
    <2>4. dt * bw < wait * bw
        BY <1>3, <1>5, <1>10, <2>3
    <2> QED
        BY <1>3, <1>5, <2>3, <2>4, ProductCancel
<1> HIDE DEF wait
<1>12. Larger(MinPacingDelay, wait) \in Nat /\ wait <= Larger(MinPacingDelay, wait)
    BY <1>2, <1>11 DEF Larger
<1>13. TimeUntilSend(bw) > now
    BY <1>2, <1>6, <1>9, <1>11, <1>12
<1> QED
    BY <1>13 DEF bw


-----------------------------------------------------------------------------
LEMMA InitInv == Init => BrutalInv
<1> SUFFICES ASSUME Init
             PROVE  BrutalInv
    OBVIOUS
<1> DEFINE S == InitialPacketSize
           m == MaxBurstPackets * S
<1>1. /\ S \in DatagramSizes /\ HalfRange \in Nat /\ StartTime \in 0..MaxTime
      /\ MaxTime \in Nat /\ MaxShift \in Nat
    BY PacerAssumption, BrutalAssumption
<1>2. /\ m \in Nat /\ m <= MostBurst(S) /\ MostBurst(S) \in Nat
      /\ MostBurst(S) <= HalfRange \div 2 - 1
      /\ HalfRange \div 2 \in Nat /\ HalfRange \div 2 <= HalfRange
      /\ Second * MostBurst(S) \in Nat
    BY <1>1, BurstConstants
<1>3. budgetAtLastSent = m /\ maxDatagramSize = S /\ lastSentTime = 0
    BY DEF Init, PacerInit
<1> HIDE DEF m
<1>4. PacerTypeOK
    BY <1>1, <1>2, <1>3 DEF PacerTypeOK
<1>5. now \in StartTime..MaxTime /\ shift \in 0..MaxShift
    BY <1>1 DEF Init
<1>6. pktInfoSlots \in [0..(SlotCount - 1) -> pktInfo]
    BY DEF Init, pktInfo
<1>7. /\ ackRate \in [ack : Nat \ {0}, total : Nat]
      /\ ackRate.ack <= ackRate.total /\ 4 * ackRate.total <= 5 * ackRate.ack
    BY DEF Init
<1>8. credit = Second * MostBurst(S)
    BY DEF Init
<1>9. TypeOK
    BY <1>2, <1>4, <1>5, <1>6, <1>7, <1>8 DEF TypeOK
<1>10. Bucket
    BY <1>3, <1>8 DEF Bucket
<1> QED
    BY <1>9, <1>10 DEF BrutalInv

\* The part of the type that is about the pacer, and the part that is about the
\* congestion control: an action changes one of them.
Clock == now \in StartTime..MaxTime /\ shift \in 0..MaxShift

Rate ==
    /\ pktInfoSlots \in [0..(SlotCount - 1) -> pktInfo]
    /\ ackRate \in [ack : Nat \ {0}, total : Nat]
    /\ ackRate.ack <= ackRate.total /\ 4 * ackRate.total <= 5 * ackRate.ack

LEMMA TypeParts == TypeOK <=> PacerTypeOK /\ Clock /\ Rate /\ credit \in Nat
BY DEF TypeOK, Clock, Rate

\* Time passes, but the connection does not outlive its idle timeout.
LEMMA TickInv == ASSUME BrutalInv, Tick PROVE BrutalInv'
<1>1. TypeOK /\ Bucket
    BY DEF BrutalInv
<1>2. /\ now < MaxTime /\ now' = now + 1
      /\ lastSentTime # 0 => now - lastSentTime < MaxIdle
      /\ UNCHANGED <<pacerVars, shift, pktInfoSlots, ackRate, reported, credit>>
    BY DEF Tick
<1>3. UNCHANGED <<budgetAtLastSent, maxDatagramSize, lastSentTime>>
    BY <1>2 DEF pacerVars
<1>4. now \in StartTime..MaxTime /\ StartTime \in Nat /\ MaxTime \in Nat /\ MaxIdle \in Nat
    BY <1>1, BrutalAssumption DEF TypeOK
<1>5. now \in Nat /\ lastSentTime \in Nat
    BY <1>1, Numbers
<1>6. now' \in StartTime..MaxTime
    BY <1>2, <1>4
<1>7. TypeOK'
    BY <1>1, <1>2, <1>3, <1>6 DEF TypeOK, PacerTypeOK
<1>8. ASSUME lastSentTime # 0
      PROVE  lastSentTime <= now' /\ now' - lastSentTime <= MaxIdle
    <2>1. lastSentTime <= now
        BY <1>1, <1>8 DEF Bucket
    <2> QED
        BY <1>2, <1>4, <1>5, <1>8, <2>1
<1>9. Bucket'
    BY <1>1, <1>2, <1>3, <1>8 DEF Bucket, MostBurst
<1> QED
    BY <1>7, <1>9 DEF BrutalInv

\* A packet takes its size off the budget, and no more off the exact bucket.
LEMMA SentInv ==
    ASSUME BrutalInv, NEW packet \in PacketSizes, OnPacketSent(packet)
    PROVE  BrutalInv'
<1> DEFINE bw     == getBandwidth
           B      == Budget(now, bw)
           dt     == now - lastSentTime
           most   == MostBurst(maxDatagramSize)
           full   == Second * most
           filled == IF lastSentTime = 0 THEN credit ELSE credit + MaxBandwidth * dt
           C      == IF filled < full THEN filled ELSE full
           L      == Left(B, packet)
<1>1. TypeOK /\ Bucket
    BY DEF BrutalInv
<1>2. /\ budgetAtLastSent' = L /\ lastSentTime' = now /\ maxDatagramSize' = maxDatagramSize
      /\ credit' = CreditLeft(packet)
      /\ UNCHANGED <<now, shift, pktInfoSlots, ackRate, reported>>
    BY DEF OnPacketSent, SentPacket
<1>3. /\ now \in Nat \ {0} /\ lastSentTime \in Nat /\ credit \in Nat
      /\ maxDatagramSize \in DatagramSizes /\ Second \in Nat \ {0}
      /\ packet \in Nat \ {0} /\ HalfRange \in Nat /\ MaxIdle \in Nat
    BY <1>1, Numbers, PacerAssumption, BrutalAssumption
<1>4. /\ most \in Nat \ {0} /\ most <= HalfRange \div 2 - 1
      /\ HalfRange \div 2 \in Nat /\ HalfRange \div 2 <= HalfRange
      /\ full \in Nat /\ MaxBandwidth \in Nat
    <2>1. /\ maxDatagramSize \in Nat \ {0}
          /\ maxDatagramSize <= MaxBurstPackets * maxDatagramSize
          /\ MaxBurstPackets * maxDatagramSize \in Nat
          /\ MaxBurstPackets * maxDatagramSize <= most /\ most \in Nat
        BY <1>3, BurstConstants
    <2>2. most # 0
        BY <2>1
    <2> QED
        BY <1>3, <2>1, <2>2, BurstConstants
<1>5. /\ B \in Nat /\ B <= maxBurstSize(bw)
      /\ lastSentTime # 0 => dt \in Nat /\ Second * B <= credit + MaxBandwidth * dt
    BY BudgetFacts
<1>6. B <= most
    BY <1>1, <1>4, <1>5, RateBounds
<1>7. lastSentTime = 0 => credit = full
    BY <1>1 DEF Bucket
<1>8. CreditLeft(packet) = IF 0 < C - Second * packet THEN C - Second * packet ELSE 0
    BY DEF CreditLeft, Larger, Smaller
<1>9. L = IF packet > B THEN 0 ELSE B - packet
    BY DEF Left
<1> HIDE DEF bw, B, most, L
<1>10. Second * B \in Nat /\ Second * B <= full /\ Second * packet \in Nat
    BY <1>3, <1>4, <1>5, <1>6, ProductMonotone
<1>11. filled \in Nat /\ Second * B <= filled
    <2>1. CASE lastSentTime = 0
        BY <1>3, <1>7, <1>10, <2>1
    <2>2. CASE lastSentTime # 0
        <3>1. MaxBandwidth * dt \in Nat
            BY <1>4, <1>5, <2>2, ProductMonotone
        <3> HIDE DEF dt
        <3> QED
            BY <1>3, <1>5, <2>2, <3>1
    <2> QED
        BY <2>1, <2>2
<1> HIDE DEF filled, full
<1>12. C \in Nat /\ Second * B <= C
    BY <1>4, <1>10, <1>11
<1> HIDE DEF C
<1>13. L \in Nat /\ L < most /\ L <= HalfRange - 1
    BY <1>3, <1>4, <1>5, <1>6, <1>9
<1>14. Second * L <= CreditLeft(packet) /\ CreditLeft(packet) \in Nat
    <2>1. CASE packet > B
        <3>1. Second * L = 0
            BY <1>3, <1>9, <2>1
        <3> QED
            BY <1>8, <1>10, <1>12, <3>1
    <2>2. CASE ~(packet > B)
        <3>1. Second * L = Second * B - Second * packet
            BY <1>3, <1>5, <1>9, <2>2
        <3> QED
            BY <1>8, <1>10, <1>12, <3>1
    <2> QED
        BY <2>1, <2>2
<1>15. L * Second <= CreditLeft(packet)
    BY <1>3, <1>13, <1>14
<1>16. PacerTypeOK'
    BY <1>2, <1>3, <1>13 DEF PacerTypeOK
<1>17. Clock' /\ Rate'
    BY <1>1, <1>2, TypeParts DEF Clock, Rate
<1>18. TypeOK'
    BY <1>2, <1>14, <1>16, <1>17 DEF TypeOK, Clock, Rate
<1>19. MostBurst(maxDatagramSize)' = most
    BY <1>2 DEF most
<1>20. Bucket'
    <2>1. lastSentTime' # 0
        BY <1>2, <1>3
    <2>2. lastSentTime' <= now' /\ now' - lastSentTime' <= MaxIdle
        BY <1>2, <1>3
    <2>3. budgetAtLastSent' < MostBurst(maxDatagramSize)'
        BY <1>2, <1>13, <1>19
    <2>4. budgetAtLastSent' * Second <= credit'
        BY <1>2, <1>15
    <2> QED
        BY <2>1, <2>2, <2>3, <2>4 DEF Bucket
<1> QED
    BY <1>18, <1>20 DEF BrutalInv

\* A larger datagram size only allows larger bursts.
LEMMA SizeInv ==
    ASSUME BrutalInv, NEW s \in DatagramSizes, SetMaxDatagramSize(s)
    PROVE  BrutalInv'
<1>1. TypeOK /\ Bucket
    BY DEF BrutalInv
<1>2. /\ s > maxDatagramSize /\ maxDatagramSize' = s
      /\ UNCHANGED <<budgetAtLastSent, lastSentTime>>
      /\ credit' = IF lastSentTime = 0 THEN Second * MostBurst(s) ELSE credit
      /\ UNCHANGED <<now, shift, pktInfoSlots, ackRate, reported>>
    BY DEF SetMaxDatagramSize, SetPacerDatagramSize
<1>3. maxDatagramSize \in DatagramSizes /\ credit \in Nat /\ budgetAtLastSent \in Nat
    BY <1>1, Numbers
<1>4. maxDatagramSize \in Nat /\ s \in Nat
    BY <1>3, BurstConstants
<1>5. /\ MostBurst(maxDatagramSize) \in Nat /\ MostBurst(s) \in Nat
      /\ MostBurst(maxDatagramSize) <= MostBurst(s) /\ Second * MostBurst(s) \in Nat
    BY <1>2, <1>3, <1>4, BurstConstants
<1>6. credit' \in Nat
    BY <1>2, <1>3, <1>5
<1>7. PacerTypeOK'
    BY <1>1, <1>2 DEF TypeOK, PacerTypeOK
<1>8. TypeOK'
    BY <1>1, <1>2, <1>6, <1>7 DEF TypeOK
<1>9. MostBurst(maxDatagramSize)' = MostBurst(s)
    BY <1>2
<1>10. Bucket'
    <2>1. CASE lastSentTime = 0
        BY <1>2, <1>9, <2>1 DEF Bucket
    <2>2. CASE lastSentTime # 0
        <3>1. budgetAtLastSent < MostBurst(s)
            BY <1>1, <1>3, <1>5, <2>2 DEF Bucket
        <3> QED
            BY <1>1, <1>2, <1>9, <2>2, <3>1 DEF Bucket
    <2> QED
        BY <2>1, <2>2
<1> QED
    BY <1>8, <1>10 DEF BrutalInv

-----------------------------------------------------------------------------
\* Whatever the slots hold, the rate stays between minAckRate and 1.
LEMMA UpdatedRate ==
    ASSUME NEW slots \in [0..(SlotCount - 1) -> pktInfo], NEW current,
           updateAckRate(slots, current)
    PROVE  /\ ackRate' \in [ack : Nat \ {0}, total : Nat]
           /\ ackRate'.ack <= ackRate'.total /\ 4 * ackRate'.total <= 5 * ackRate'.ack
<1> DEFINE T    == Counted(slots, current)
           fa   == [i \in DOMAIN slots |-> slots[i].AckCount]
           fl   == [i \in DOMAIN slots |-> slots[i].LossCount]
           ack  == SumFunctionOnSet(fa, T)
           loss == SumFunctionOnSet(fl, T)
<1>1. MinSampleCount \in Nat \ {0} /\ SlotCount \in Nat
    BY BrutalAssumption
<1>2. IsFiniteSet(T)
    <2>1. T \in SUBSET (0..(SlotCount - 1))
        BY DEF Counted
    <2>2. IsFiniteSet(0..(SlotCount - 1))
        BY <1>1, FS_Interval
    <2> QED
        BY <2>1, <2>2, FS_Subset
<1>3. \A i \in T : fa[i] \in Nat /\ fl[i] \in Nat
    BY DEF Counted, pktInfo
<1>4. ack \in Nat /\ loss \in Nat
    BY <1>2, <1>3, SumNat
<1>5. ackRate' = IF ack + loss < MinSampleCount THEN [ack |-> 1, total |-> 1]
                 ELSE AtLeastMinRate([ack |-> ack, total |-> ack + loss])
    BY DEF updateAckRate
<1> HIDE DEF T, fa, fl, ack, loss
<1>6. CASE ack + loss < MinSampleCount
    BY <1>5, <1>6
<1>7. CASE ~(ack + loss < MinSampleCount)
    <2>1. ackRate' = IF 5 * ack < 4 * (ack + loss) THEN [ack |-> 4, total |-> 5]
                     ELSE [ack |-> ack, total |-> ack + loss]
        BY <1>5, <1>7 DEF AtLeastMinRate
    <2>2. CASE 5 * ack < 4 * (ack + loss)
        BY <2>1, <2>2
    <2>3. CASE ~(5 * ack < 4 * (ack + loss))
        <3>1. ackRate' = [ack |-> ack, total |-> ack + loss]
            BY <2>1, <2>3
        <3>2. ack \in Nat \ {0}
            BY <1>1, <1>4, <1>7, <2>3
        <3> QED
            BY <1>4, <2>3, <3>1, <3>2
    <2> QED
        BY <2>2, <2>3
<1> QED
    BY <1>6, <1>7

LEMMA EventInv ==
    ASSUME BrutalInv, NEW acked \in AckCounts, NEW lost \in LossCounts,
           OnCongestionEventEx(acked, lost)
    PROVE  BrutalInv'
<1> DEFINE u     == Unix
           slot  == u % SlotCount
           entry == Entered(pktInfoSlots[slot], u, acked, lost)
           slots == [pktInfoSlots EXCEPT ![slot] = entry]
<1>1. TypeOK /\ Bucket
    BY DEF BrutalInv
<1>2. pktInfoSlots' = slots /\ updateAckRate(slots, u)
    BY DEF OnCongestionEventEx
<1>3. /\ UNCHANGED <<budgetAtLastSent, maxDatagramSize, lastSentTime>>
      /\ UNCHANGED <<now, shift, credit>>
    BY DEF OnCongestionEventEx, pacerVars
<1>4. u \in Nat
    <2>1. /\ now \in StartTime..MaxTime /\ shift \in 0..MaxShift
          /\ StartTime \in Nat /\ MaxTime \in Nat /\ MaxShift \in Nat /\ SlotCount \in Nat
          /\ Second \in Nat \ {0} /\ StartTime \div Second > SlotCount + MaxShift
        BY <1>1, PacerAssumption, BrutalAssumption DEF TypeOK
    <2>2. now \in Nat /\ StartTime <= now
        BY <2>1
    <2>3. /\ now \div Second \in Nat /\ StartTime \div Second \in Nat
          /\ StartTime \div Second <= now \div Second
        BY <2>1, <2>2, DivNat, DivMonotone
    <2>4. u = now \div Second - shift
        BY DEF Unix
    <2> HIDE DEF u
    <2> QED
        BY <2>1, <2>3, <2>4
<1> HIDE DEF u
<1>5. slot \in 0..(SlotCount - 1)
    BY <1>4, BrutalAssumption
<1>6. pktInfoSlots \in [0..(SlotCount - 1) -> pktInfo]
    BY <1>1 DEF TypeOK
<1> HIDE DEF slot
<1>7. acked \in Nat /\ lost \in Nat
    BY BrutalAssumption
<1>8. entry \in pktInfo
    <2>1. pktInfoSlots[slot] \in pktInfo
        BY <1>5, <1>6
    <2> DEFINE info == pktInfoSlots[slot]
    <2>2. entry = IF info.Timestamp = u
                  THEN [info EXCEPT !.AckCount = @ + acked, !.LossCount = @ + lost]
                  ELSE [Timestamp |-> u, AckCount |-> acked, LossCount |-> lost]
        BY DEF Entered
    <2> HIDE DEF info, entry
    <2>3. info \in [Timestamp : Nat, AckCount : Nat, LossCount : Nat]
        BY <2>1 DEF pktInfo, info
    <2>4. info.AckCount + acked \in Nat /\ info.LossCount + lost \in Nat
        BY <1>7, <2>3
    <2>5. CASE info.Timestamp = u
        <3>1. entry = [info EXCEPT !.AckCount = info.AckCount + acked,
                                   !.LossCount = info.LossCount + lost]
            BY <2>2, <2>5
        <3> QED
            BY <2>3, <2>4, <3>1 DEF pktInfo
    <2>6. CASE info.Timestamp # u
        BY <1>4, <1>7, <2>2, <2>6 DEF pktInfo
    <2> QED
        BY <2>5, <2>6
<1> HIDE DEF entry
<1>9. slots \in [0..(SlotCount - 1) -> pktInfo]
    BY <1>5, <1>6, <1>8
<1> HIDE DEF slots
<1>10. Rate'
    BY <1>2, <1>9, UpdatedRate DEF Rate
<1>11. PacerTypeOK' /\ Clock' /\ credit' \in Nat
    BY <1>1, <1>3 DEF TypeOK, PacerTypeOK, Clock
<1>12. TypeOK'
    BY <1>10, <1>11 DEF TypeOK, Clock, Rate
<1>13. Bucket'
    BY <1>1, <1>3 DEF Bucket, MostBurst
<1> QED
    BY <1>12, <1>13 DEF BrutalInv

LEMMA StepInv == BrutalInv /\ [Next]_vars => BrutalInv'
<1> SUFFICES ASSUME BrutalInv, [Next]_vars
             PROVE  BrutalInv'
    OBVIOUS
<1>1. CASE Tick
    BY <1>1, TickInv
<1>2. CASE WallClockBack
    <2>1. /\ shift < MaxShift /\ shift' = shift + 1
          /\ UNCHANGED <<budgetAtLastSent, maxDatagramSize, lastSentTime>>
          /\ UNCHANGED <<now, pktInfoSlots, ackRate, credit>>
        BY <1>2 DEF WallClockBack, pacerVars
    <2>2. TypeOK /\ Bucket
        BY DEF BrutalInv
    <2>3. shift' \in 0..MaxShift
        <3>1. shift \in 0..MaxShift /\ MaxShift \in Nat
            BY <2>2, BrutalAssumption DEF TypeOK
        <3> QED
            BY <2>1, <3>1
    <2>4. TypeOK'
        BY <2>1, <2>2, <2>3 DEF TypeOK, PacerTypeOK
    <2>5. Bucket'
        BY <2>1, <2>2 DEF Bucket, MostBurst
    <2> QED
        BY <2>4, <2>5 DEF BrutalInv
<1>3. CASE \E p \in PacketSizes : OnPacketSent(p)
    BY <1>3, SentInv
<1>4. CASE \E s \in DatagramSizes : SetMaxDatagramSize(s)
    BY <1>4, SizeInv
<1>5. CASE \E a \in AckCounts, l \in LossCounts : OnCongestionEventEx(a, l)
    BY <1>5, EventInv
<1>6. CASE UNCHANGED vars
    <2>1. /\ UNCHANGED <<budgetAtLastSent, maxDatagramSize, lastSentTime>>
          /\ UNCHANGED <<now, shift, pktInfoSlots, ackRate, credit>>
        BY <1>6 DEF vars, pacerVars
    <2> QED
        BY <2>1 DEF BrutalInv, TypeOK, PacerTypeOK, Bucket, MostBurst
<1>7. Next => \/ Tick \/ WallClockBack
              \/ \E p \in PacketSizes : OnPacketSent(p)
              \/ \E s \in DatagramSizes : SetMaxDatagramSize(s)
              \/ \E a \in AckCounts, l \in LossCounts : OnCongestionEventEx(a, l)
    BY DEF Next
<1> QED
    BY <1>1, <1>2, <1>3, <1>4, <1>5, <1>6, <1>7

\* BrutalInv always holds.
LEMMA Invariance == Spec => []BrutalInv
<1>1. Init => BrutalInv
    BY InitInv
<1>2. BrutalInv /\ [Next]_vars => BrutalInv'
    BY StepInv
<1> QED
    BY <1>1, <1>2, PTL DEF Spec

\* The budget of the pacer is a ByteCount (pacer.go:31-59), the slots hold
\* counts, and updateAckRate (brutal.go:123-158) leaves a rate between minAckRate
\* and 1: the bandwidth that NewBrutalSender's callback divides by it
\* (brutal.go:52-54) is between bps and a quarter more.
THEOREM BrutalTypes == Spec => []TypeOK
<1>1. BrutalInv => TypeOK
    BY DEF BrutalInv
<1> QED
    BY <1>1, Invariance, PTL

\* Whenever the send loop is told to wait (HasPacingBudget, brutal.go:66-68),
\* TimeUntilSend (pacer.go:61-70) is ahead of the clock, for every rate, datagram
\* size and idle time up to the idle timeout: Budget's rounding down never meets
\* a rounding up that is too short, and a product that wraps counts as a burst.
THEOREM SendLoopNeverSpins == Spec => []NoSpin
<1>1. BrutalInv => NoSpin
    BY NeverSpins
<1> QED
    BY <1>1, Invariance, PTL

\* What SentPacket leaves in budgetAtLastSent (pacer.go:31-39) is covered by an
\* exact token bucket at the highest bandwidth: no rounding, wrap-around, raise
\* of the datagram size or change of the ack rate lets out more than one burst
\* plus five quarters of bps.
THEOREM RateIsBounded == Spec => []CreditCovered
<1>1. BrutalInv => CreditCovered
    BY DEF BrutalInv, Bucket, CreditCovered
<1> QED
    BY <1>1, Invariance, PTL
=============================================================================
