----------------------- MODULE BandwidthSamplerProofs ------------------------
(***************************************************************************)
(* The bandwidth sampler for every number of packets, size and time: no    *)
(* packet in flight is forgotten, the totals balance, the app-limited      *)
(* phase and the epoch of the ack height are what their comments say.      *)
(***************************************************************************)
EXTENDS BandwidthSampler, FiniteSetTheorems, NaturalsInduction, WellFoundedInduction, TLAPS

-----------------------------------------------------------------------------
\* Induction, on numbers and on the subsets of a finite set, in the form of sets.
LEMMA LeastNumber ==
    ASSUME NEW T \in SUBSET Nat, T # {}
    PROVE  \E x \in T : \A y \in T : x <= y
<1> DEFINE R == OpToRel(<, Nat)
<1>1. IsWellFoundedOn(R, Nat)
    BY NatLessThanWellFounded
<1>2. \A x, y \in Nat : <<x, y>> \in R <=> x < y
    BY DEF OpToRel
<1> HIDE DEF R
<1>3. PICK x \in T : \A y \in T : ~(<<y, x>> \in R)
    BY <1>1, WFMin
<1>4. ASSUME NEW y \in T
      PROVE  x <= y
    <2>1. ~(<<y, x>> \in R)
        BY <1>3
    <2>2. x \in Nat /\ y \in Nat
        OBVIOUS
    <2>3. ~(y < x)
        BY <1>2, <2>1, <2>2
    <2> QED
        BY <2>2, <2>3
<1> QED
    BY <1>4

LEMMA NumberInduction ==
    ASSUME NEW N \in SUBSET Nat, 0 \in N, \A n \in N : n + 1 \in N
    PROVE  N = Nat
<1> SUFFICES ASSUME N # Nat
             PROVE  FALSE
    OBVIOUS
<1>1. Nat \ N # {} /\ Nat \ N \in SUBSET Nat
    OBVIOUS
<1>2. PICK x \in Nat \ N : \A y \in Nat \ N : x <= y
    BY <1>1, LeastNumber
<1>3. x # 0 /\ x \in Nat
    BY <1>2
<1>4. x - 1 \in Nat /\ ~(x <= x - 1) /\ (x - 1) + 1 = x
    BY <1>3
<1>5. x - 1 \in N
    BY <1>2, <1>4
<1> QED
    BY <1>2, <1>4, <1>5

LEMMA SubsetInduction ==
    ASSUME NEW S, IsFiniteSet(S), NEW Q,
           \A T \in SUBSET S : (\A x \in T : T \ {x} \in Q) => T \in Q
    PROVE  \A T \in SUBSET S : T \in Q
<1> DEFINE N == {n \in Nat : \A T \in SUBSET S : Cardinality(T) = n => T \in Q}
<1>1. \A T \in SUBSET S : IsFiniteSet(T) /\ Cardinality(T) \in Nat
    BY FS_Subset, FS_CardinalityType
<1>2. 0 \in N
    <2>1. ASSUME NEW T \in SUBSET S, Cardinality(T) = 0
          PROVE  T \in Q
        <3>1. T = {}
            BY <1>1, <2>1, FS_EmptySet
        <3> QED
            BY <3>1
    <2> QED
        BY <2>1
<1>3. ASSUME NEW n \in N
      PROVE  n + 1 \in N
    <2>1. ASSUME NEW T \in SUBSET S, Cardinality(T) = n + 1
          PROVE  T \in Q
        <3>1. ASSUME NEW x \in T
              PROVE  T \ {x} \in Q
            <4>1. Cardinality(T \ {x}) = Cardinality(T) - 1
                BY <1>1, FS_RemoveElement
            <4>2. Cardinality(T \ {x}) = n /\ T \ {x} \in SUBSET S
                BY <2>1, <4>1
            <4> QED
                BY <4>2
        <3> QED
            BY <3>1
    <2> QED
        BY <2>1
<1> HIDE DEF N
<1>4. N = Nat
    <2>1. N \in SUBSET Nat
        BY DEF N
    <2> QED
        BY <1>2, <1>3, <2>1, NumberInduction
<1> QED
    BY <1>1, <1>4 DEF N

-----------------------------------------------------------------------------
\* The sums of the library, by the equation its recursive function satisfies.
First(s) == CHOOSE x \in s : TRUE

SumStep(g, f, s) == IF s = {} THEN 0 ELSE f[First(s)] + g[s \ {First(s)}]

IsSum(g, f, S) == g = [s \in SUBSET S |-> SumStep(g, f, s)]

LEMMA FirstIn == ASSUME NEW s, s # {} PROVE First(s) \in s
BY DEF First

\* There is such a function: it can be built level by level.
LEMMA SumExists ==
    ASSUME NEW S, IsFiniteSet(S), NEW f
    PROVE  \E g : IsSum(g, f, S)
<1> DEFINE Upto(g, n) == \A s \in SUBSET S : Cardinality(s) <= n => g[s] = SumStep(g, f, s)
           N == {n \in Nat : \E g : Upto(g, n)}
<1>1. \A s \in SUBSET S : IsFiniteSet(s) /\ Cardinality(s) \in Nat
    BY FS_Subset, FS_CardinalityType
<1>2. 0 \in N
    <2> DEFINE g == [s \in SUBSET S |-> 0]
    <2>1. ASSUME NEW s \in SUBSET S, Cardinality(s) <= 0
          PROVE  g[s] = SumStep(g, f, s)
        <3>1. Cardinality(s) = 0
            BY <1>1, <2>1
        <3>2. s = {}
            BY <1>1, <3>1, FS_EmptySet
        <3> QED
            BY <3>2 DEF SumStep
    <2> QED
        BY <2>1
<1>3. ASSUME NEW n \in N
      PROVE  n + 1 \in N
    <2>1. PICK g : Upto(g, n)
        OBVIOUS
    <2> DEFINE h == [s \in SUBSET S |-> SumStep(g, f, s)]
    <2>2. ASSUME NEW s \in SUBSET S, Cardinality(s) <= n + 1
          PROVE  h[s] = SumStep(h, f, s)
        <3>1. h[s] = SumStep(g, f, s)
            OBVIOUS
        <3>2. CASE s = {}
            BY <3>1, <3>2 DEF SumStep
        <3>3. CASE s # {}
            <4> DEFINE t == s \ {First(s)}
            <4>1. First(s) \in s
                BY <3>3, FirstIn
            <4>2. Cardinality(t) = Cardinality(s) - 1
                BY <1>1, <4>1, FS_RemoveElement
            <4>3. t \in SUBSET S /\ Cardinality(t) <= n
                BY <1>1, <2>2, <4>2
            <4>4. g[t] = SumStep(g, f, t) /\ h[t] = SumStep(g, f, t)
                BY <2>1, <4>3
            <4> QED
                BY <3>1, <3>3, <4>4 DEF SumStep
        <3> QED
            BY <3>2, <3>3
    <2>3. Upto(h, n + 1)
        BY <2>2
    <2> HIDE DEF h, Upto
    <2> QED
        BY <2>3
<1>4. N = Nat
    <2>1. N \in SUBSET Nat
        OBVIOUS
    <2> HIDE DEF N
    <2> QED
        BY <1>2, <1>3, <2>1, NumberInduction
<1>5. S \in SUBSET S /\ Cardinality(S) \in Nat
    BY <1>1
<1>6. PICK g : Upto(g, Cardinality(S))
    BY <1>4, <1>5
<1>7. \A s \in SUBSET S : g[s] = SumStep(g, f, s)
    <2>1. \A s \in SUBSET S : Cardinality(s) <= Cardinality(S)
        BY FS_Subset
    <2> QED
        BY <1>6, <2>1
<1> DEFINE h == [s \in SUBSET S |-> SumStep(g, f, s)]
<1>8. ASSUME NEW s \in SUBSET S
      PROVE  SumStep(g, f, s) = SumStep(h, f, s)
    <2>1. s \ {First(s)} \in SUBSET S
        OBVIOUS
    <2>2. h[s \ {First(s)}] = g[s \ {First(s)}]
        BY <1>7, <2>1
    <2> QED
        BY <2>2 DEF SumStep
<1>9. h = [s \in SUBSET S |-> SumStep(h, f, s)]
    BY <1>8
<1> HIDE DEF h
<1> QED
    BY <1>9 DEF IsSum

\* Two of them agree where their summands do.
LEMMA SumUnique ==
    ASSUME NEW S, NEW T, NEW f, NEW k, NEW g, NEW h,
           IsSum(g, f, S), IsSum(h, k, T),
           NEW U, U \subseteq S, U \subseteq T, IsFiniteSet(U),
           \A x \in U : f[x] = k[x]
    PROVE  g[U] = h[U]
<1> DEFINE Q == {s \in SUBSET U : g[s] = h[s]}
<1>1. ASSUME NEW s \in SUBSET U, \A x \in s : s \ {x} \in Q
      PROVE  s \in Q
    <2>1. g[s] = SumStep(g, f, s) /\ h[s] = SumStep(h, k, s)
        BY DEF IsSum
    <2>2. CASE s = {}
        BY <2>1, <2>2 DEF SumStep
    <2>3. CASE s # {}
        <3>1. First(s) \in s
            BY <2>3, FirstIn
        <3>2. f[First(s)] = k[First(s)] /\ g[s \ {First(s)}] = h[s \ {First(s)}]
            BY <1>1, <3>1
        <3>3. SumStep(g, f, s) = SumStep(h, k, s)
            BY <3>2 DEF SumStep
        <3> QED
            BY <2>1, <3>3
    <2> QED
        BY <2>2, <2>3
<1> HIDE DEF Q
<1>2. \A s \in SUBSET U : s \in Q
    BY <1>1, SubsetInduction
<1> QED
    BY <1>2 DEF Q

\* The library's sum is the value of any of them.
LEMMA SumValue ==
    ASSUME NEW S, IsFiniteSet(S), NEW f
    PROVE  \E g : IsSum(g, f, S) /\ \A U \in SUBSET S : SumFunctionOnSet(f, U) = g[U]
<1>1. PICK g : IsSum(g, f, S)
    BY SumExists
<1>2. ASSUME NEW U \in SUBSET S
      PROVE  SumFunctionOnSet(f, U) = g[U]
    <2>1. IsFiniteSet(U)
        BY FS_Subset
    <2>2. \E h : IsSum(h, f, U)
        BY <2>1, SumExists
    <2>3. PICK h : IsSum(h, f, U) /\ SumFunctionOnSet(f, U) = h[U]
        BY <2>2 DEF SumFunctionOnSet, FoldFunctionOnSet, MapThenFoldSet, IsSum, SumStep, First
    <2>4. g[U] = h[U]
        BY <1>1, <2>1, <2>3, SumUnique
    <2> QED
        BY <2>3, <2>4
<1> QED
    BY <1>1, <1>2

\* Summands that agree give the same sum.
LEMMA SumSame ==
    ASSUME NEW S, IsFiniteSet(S), NEW f, NEW k, \A x \in S : f[x] = k[x]
    PROVE  SumFunctionOnSet(f, S) = SumFunctionOnSet(k, S)
<1>1. PICK g : IsSum(g, f, S) /\ SumFunctionOnSet(f, S) = g[S]
    BY SumValue
<1>2. PICK h : IsSum(h, k, S) /\ SumFunctionOnSet(k, S) = h[S]
    BY SumValue
<1>3. g[S] = h[S]
    BY <1>1, <1>2, SumUnique
<1> QED
    BY <1>1, <1>2, <1>3

\* A sum of integers is one, the sum of nothing is 0, and any summand can be
\* taken out of it.
LEMMA SumFacts ==
    ASSUME NEW S, IsFiniteSet(S), NEW f, \A x \in S : f[x] \in Int
    PROVE  /\ SumFunctionOnSet(f, {}) = 0
           /\ \A U \in SUBSET S : SumFunctionOnSet(f, U) \in Int
           /\ \A U \in SUBSET S : \A x \in U :
                 SumFunctionOnSet(f, U) = f[x] + SumFunctionOnSet(f, U \ {x})
<1>1. PICK g : IsSum(g, f, S) /\ \A U \in SUBSET S : SumFunctionOnSet(f, U) = g[U]
    BY SumValue
<1>2. \A s \in SUBSET S : g[s] = SumStep(g, f, s)
    BY <1>1 DEF IsSum
<1>3. g[{}] = 0
    BY <1>2 DEF SumStep
<1> DEFINE I == {s \in SUBSET S : g[s] \in Int}
<1>4. ASSUME NEW s \in SUBSET S, \A x \in s : s \ {x} \in I
      PROVE  s \in I
    <2>1. CASE s = {}
        BY <1>3, <2>1
    <2>2. CASE s # {}
        <3>1. First(s) \in s
            BY <2>2, FirstIn
        <3>2. g[s \ {First(s)}] \in Int /\ f[First(s)] \in Int
            BY <1>4, <3>1
        <3>3. g[s] = f[First(s)] + g[s \ {First(s)}]
            BY <1>2, <2>2 DEF SumStep
        <3> QED
            BY <3>2, <3>3
    <2> QED
        BY <2>1, <2>2
<1>5. \A s \in SUBSET S : g[s] \in Int
    <2> HIDE DEF I
    <2>1. \A s \in SUBSET S : s \in I
        BY <1>4, SubsetInduction
    <2> QED
        BY <2>1 DEF I
<1> DEFINE Q == {s \in SUBSET S : \A x \in s : g[s] = f[x] + g[s \ {x}]}
<1>6. ASSUME NEW s \in SUBSET S, \A x \in s : s \ {x} \in Q
      PROVE  s \in Q
    <2> SUFFICES ASSUME NEW x \in s
                 PROVE  g[s] = f[x] + g[s \ {x}]
        OBVIOUS
    <2> DEFINE y == First(s)
    <2>1. y \in s
        BY FirstIn
    <2>2. g[s] = f[y] + g[s \ {y}]
        BY <1>2 DEF SumStep
    <2> HIDE DEF y
    <2>3. CASE x = y
        BY <2>2, <2>3
    <2>4. CASE x # y
        <3> DEFINE r == (s \ {y}) \ {x}
        <3>1. g[s \ {y}] = f[x] + g[r]
            BY <1>6, <2>1, <2>4
        <3>2. (s \ {x}) \ {y} = r
            OBVIOUS
        <3>3. g[s \ {x}] = f[y] + g[r]
            BY <1>6, <2>1, <2>4, <3>2
        <3>4. f[x] \in Int /\ f[y] \in Int /\ g[r] \in Int
            BY <1>5, <2>1
        <3> HIDE DEF r
        <3> QED
            BY <2>2, <3>1, <3>3, <3>4
    <2> QED
        BY <2>3, <2>4
<1> HIDE DEF Q
<1>7. \A s \in SUBSET S : s \in Q
    BY <1>6, SubsetInduction
<1>8. \A U \in SUBSET S : \A x \in U :
          SumFunctionOnSet(f, U) = f[x] + SumFunctionOnSet(f, U \ {x})
    <2> SUFFICES ASSUME NEW U \in SUBSET S, NEW x \in U
                 PROVE  SumFunctionOnSet(f, U) = f[x] + SumFunctionOnSet(f, U \ {x})
        OBVIOUS
    <2>1. g[U] = f[x] + g[U \ {x}]
        BY <1>7 DEF Q
    <2>2. SumFunctionOnSet(f, U) = g[U] /\ SumFunctionOnSet(f, U \ {x}) = g[U \ {x}]
        BY <1>1
    <2> QED
        BY <2>1, <2>2
<1>9. SumFunctionOnSet(f, {}) = 0
    BY <1>1, <1>3
<1> QED
    BY <1>1, <1>5, <1>8, <1>9

LEMMA SumRemove ==
    ASSUME NEW U, IsFiniteSet(U), NEW f, \A y \in U : f[y] \in Int, NEW x \in U
    PROVE  SumFunctionOnSet(f, U) = f[x] + SumFunctionOnSet(f, U \ {x})
BY SumFacts

\* A sum splits at any subset.
LEMMA SumSplit ==
    ASSUME NEW S, IsFiniteSet(S), NEW f, \A x \in S : f[x] \in Int,
           NEW T, T \subseteq S
    PROVE  SumFunctionOnSet(f, S) = SumFunctionOnSet(f, T) + SumFunctionOnSet(f, S \ T)
<1> DEFINE Sm(U) == SumFunctionOnSet(f, U)
           Q == {U \in SUBSET S : Sm(S) = Sm(U) + Sm(S \ U)}
<1>1. /\ Sm({}) = 0
      /\ \A U \in SUBSET S : Sm(U) \in Int
      /\ \A U \in SUBSET S : \A x \in U : Sm(U) = f[x] + Sm(U \ {x})
    BY SumFacts
<1> HIDE DEF Sm
<1>2. ASSUME NEW U \in SUBSET S, \A x \in U : U \ {x} \in Q
      PROVE  U \in Q
    <2>1. CASE U = {}
        <3>1. S \ U = S /\ Sm(S) \in Int
            BY <1>1, <2>1
        <3> QED
            BY <1>1, <2>1, <3>1
    <2>2. CASE U # {}
        <3>1. PICK x \in U : TRUE
            BY <2>2
        <3> DEFINE V == U \ {x}
        <3>2. Sm(S) = Sm(V) + Sm(S \ V)
            BY <1>2, <3>1
        <3>3. Sm(U) = f[x] + Sm(V)
            BY <1>1
        <3>4. (S \ V) \ {x} = S \ U /\ x \in S \ V /\ S \ V \in SUBSET S
            BY <3>1
        <3>5. Sm(S \ V) = f[x] + Sm(S \ U)
            BY <1>1, <3>4
        <3>6. /\ f[x] \in Int /\ Sm(V) \in Int /\ Sm(U) \in Int
              /\ Sm(S \ U) \in Int /\ Sm(S \ V) \in Int
            BY <1>1
        <3> HIDE DEF V
        <3> QED
            BY <3>2, <3>3, <3>5, <3>6
    <2> QED
        BY <2>1, <2>2
<1> HIDE DEF Q
<1>3. T \in Q
    BY <1>2, SubsetInduction
<1> QED
    BY <1>3 DEF Q, Sm
-----------------------------------------------------------------------------
\* The largest of a finite set of numbers.
LEMMA MaxFacts ==
    ASSUME NEW S, S \subseteq Int, IsFiniteSet(S), S # {}
    PROVE  Max(S) \in S /\ \A y \in S : y <= Max(S)
<1> DEFINE Q == {T \in SUBSET S : T # {} => \E x \in T : \A y \in T : x >= y}
<1>1. ASSUME NEW T \in SUBSET S, \A x \in T : T \ {x} \in Q
      PROVE  T \in Q
    <2> SUFFICES ASSUME T # {}
                 PROVE  \E x \in T : \A y \in T : x >= y
        OBVIOUS
    <2>1. PICK x \in T : TRUE
        OBVIOUS
    <2>2. CASE T \ {x} = {}
        <3>1. \A y \in T : y = x /\ x \in Int
            BY <2>2
        <3> QED
            BY <2>1, <3>1
    <2>3. CASE T \ {x} # {}
        <3>1. PICK m \in T \ {x} : \A y \in T \ {x} : m >= y
            BY <1>1, <2>1, <2>3
        <3>2. x \in Int /\ m \in Int /\ \A y \in T : y \in Int
            OBVIOUS
        <3>3. CASE m >= x
            BY <3>1, <3>2, <3>3
        <3>4. CASE ~(m >= x)
            <4>1. \A y \in T : x >= y
                BY <3>1, <3>2, <3>4
            <4> QED
                BY <2>1, <4>1
        <3> QED
            BY <3>3, <3>4
    <2> QED
        BY <2>2, <2>3
<1> HIDE DEF Q
<1>2. \A T \in SUBSET S : T \in Q
    BY <1>1, SubsetInduction
<1>3. \E x \in S : \A y \in S : x >= y
    BY <1>2 DEF Q
<1>4. Max(S) \in S /\ \A y \in S : Max(S) >= y
    BY <1>3 DEF Max
<1> QED
    BY <1>4

-----------------------------------------------------------------------------
\* The loop over the acked packets, by the equation of its recursive function.
BeforeLoop ==
    [acked |-> totalBytesAcked, lastAcked |-> lastAcked,
     limited |-> isAppLimited, bandwidth |-> 0, sampleIsAppLimited |-> FALSE]

LoopStep(g, s) ==
    IF s = {} THEN BeforeLoop ELSE Acknowledged(g[s \ {Max(s)}], Max(s))

IsLoop(g, S) == g = [s \in SUBSET S |-> LoopStep(g, s)]

LEMMA LoopExists ==
    ASSUME NEW S, IsFiniteSet(S), S \subseteq Int
    PROVE  \E g : IsLoop(g, S)
<1> DEFINE Upto(g, n) == \A s \in SUBSET S : Cardinality(s) <= n => g[s] = LoopStep(g, s)
           N == {n \in Nat : \E g : Upto(g, n)}
<1>1. \A s \in SUBSET S : IsFiniteSet(s) /\ Cardinality(s) \in Nat
    BY FS_Subset, FS_CardinalityType
<1>2. 0 \in N
    <2> DEFINE g == [s \in SUBSET S |-> BeforeLoop]
    <2>1. ASSUME NEW s \in SUBSET S, Cardinality(s) <= 0
          PROVE  g[s] = LoopStep(g, s)
        <3>1. Cardinality(s) = 0
            BY <1>1, <2>1
        <3>2. s = {}
            BY <1>1, <3>1, FS_EmptySet
        <3> QED
            BY <3>2 DEF LoopStep
    <2> QED
        BY <2>1
<1>3. ASSUME NEW n \in N
      PROVE  n + 1 \in N
    <2>1. PICK g : Upto(g, n)
        OBVIOUS
    <2> DEFINE h == [s \in SUBSET S |-> LoopStep(g, s)]
    <2>2. ASSUME NEW s \in SUBSET S, Cardinality(s) <= n + 1
          PROVE  h[s] = LoopStep(h, s)
        <3>1. h[s] = LoopStep(g, s)
            OBVIOUS
        <3>2. CASE s = {}
            BY <3>1, <3>2 DEF LoopStep
        <3>3. CASE s # {}
            <4> DEFINE t == s \ {Max(s)}
            <4>1. Max(s) \in s
                BY <1>1, <3>3, MaxFacts
            <4>2. Cardinality(t) = Cardinality(s) - 1
                BY <1>1, <4>1, FS_RemoveElement
            <4>3. t \in SUBSET S
                OBVIOUS
            <4>4. Cardinality(t) <= n
                <5>1. Cardinality(t) \in Nat /\ Cardinality(s) \in Nat
                    BY <1>1, <4>3
                <5> HIDE DEF t
                <5> QED
                    BY <2>2, <4>2, <5>1
            <4>5. g[t] = LoopStep(g, t) /\ h[t] = LoopStep(g, t)
                BY <2>1, <4>3, <4>4
            <4> QED
                BY <3>1, <3>3, <4>5 DEF LoopStep
        <3> QED
            BY <3>2, <3>3
    <2>3. Upto(h, n + 1)
        BY <2>2
    <2> HIDE DEF h, Upto
    <2> QED
        BY <2>3
<1>4. N = Nat
    <2>1. N \in SUBSET Nat
        OBVIOUS
    <2> HIDE DEF N
    <2> QED
        BY <1>2, <1>3, <2>1, NumberInduction
<1>5. S \in SUBSET S /\ Cardinality(S) \in Nat
    BY <1>1
<1>6. PICK g : Upto(g, Cardinality(S))
    BY <1>4, <1>5
<1>7. \A s \in SUBSET S : g[s] = LoopStep(g, s)
    <2>1. \A s \in SUBSET S : Cardinality(s) <= Cardinality(S)
        BY FS_Subset
    <2> QED
        BY <1>6, <2>1
<1> DEFINE h == [s \in SUBSET S |-> LoopStep(g, s)]
<1>8. ASSUME NEW s \in SUBSET S
      PROVE  LoopStep(g, s) = LoopStep(h, s)
    <2>1. s \ {Max(s)} \in SUBSET S
        OBVIOUS
    <2>2. h[s \ {Max(s)}] = g[s \ {Max(s)}]
        BY <1>7, <2>1
    <2> QED
        BY <2>2 DEF LoopStep
<1>9. h = [s \in SUBSET S |-> LoopStep(h, s)]
    BY <1>8
<1> HIDE DEF h
<1> QED
    BY <1>9 DEF IsLoop

\* What the invariant of the sampler says of types and of the transport.
Packets == 0..lastSentPacket

Types ==
    /\ lastSentPacket \in Int /\ lastSentPacket >= -1
    /\ totalBytesSent \in Int /\ totalBytesAcked \in Int /\ totalBytesLost \in Int
    /\ isAppLimited \in BOOLEAN /\ limited \in BOOLEAN /\ dropped \in Int
    /\ endOfAppLimitedPhase \in -1..lastSentPacket
    /\ largestAcked \in -1..lastSentPacket
    /\ InFlight \subseteq Packets
    /\ \A p \in InFlight : outstanding[p].size \in Nat
    /\ DOMAIN connectionStateMap \subseteq Packets
    /\ sentSince \subseteq Packets /\ marked \subseteq Packets
    /\ aggregationEpochBytes \in Int /\ epochBase \in Int

\* A packet in flight is known with its size.
Tracked ==
    \A p \in InFlight : /\ p \in DOMAIN connectionStateMap
                        /\ connectionStateMap[p].size = outstanding[p].size

\* The size of each packet in flight: what Bytes adds up.
SizeOf == [p \in InFlight |-> outstanding[p].size]

LEMMA PacketFacts ==
    ASSUME Types
    PROVE  /\ IsFiniteSet(InFlight) /\ InFlight \subseteq Nat
           /\ \A p \in InFlight : SizeOf[p] = outstanding[p].size /\ SizeOf[p] \in Int
           /\ \A S : Bytes(S) = SumFunctionOnSet(SizeOf, S)
<1>1. IsFiniteSet(0..lastSentPacket)
    BY FS_Interval DEF Types
<1>2. IsFiniteSet(InFlight)
    BY <1>1, FS_Subset DEF Types, Packets
<1>3. InFlight \subseteq Nat
    BY DEF Types, Packets
<1>4. \A p \in InFlight : SizeOf[p] = outstanding[p].size /\ SizeOf[p] \in Int
    BY DEF SizeOf, Types
<1>5. \A S : Bytes(S) = SumFunctionOnSet(SizeOf, S)
    BY DEF Bytes, SizeOf
<1> QED
    BY <1>2, <1>3, <1>4, <1>5

\* The loop counts the bytes of every packet acked, once, and ends the app-
\* limited phase at the first packet beyond its end.
LEMMA AfterAcksFacts ==
    ASSUME Types, Tracked, NEW acked, acked \subseteq InFlight
    PROVE  /\ AfterAcks(acked).acked = totalBytesAcked + Bytes(acked)
           /\ AfterAcks(acked).limited
                 = (isAppLimited /\ \A p \in acked : p <= endOfAppLimitedPhase)
<1>1. /\ IsFiniteSet(acked) /\ acked \subseteq Int
      /\ \A p \in acked : p \in Nat
    BY PacketFacts, FS_Subset
<1>2. \E g : IsLoop(g, acked)
    BY <1>1, LoopExists
<1>3. PICK g : IsLoop(g, acked) /\ AfterAcks(acked) = g[acked]
    BY <1>2 DEF AfterAcks, MapThenFoldSet, IsLoop, LoopStep, BeforeLoop
<1> DEFINE Sm(s) == SumFunctionOnSet(SizeOf, s)
           Q == {s \in SUBSET acked :
                    /\ g[s].acked = totalBytesAcked + Sm(s)
                    /\ g[s].limited = (isAppLimited /\ \A p \in s : p <= endOfAppLimitedPhase)}
<1>4. /\ Sm({}) = 0
      /\ \A s \in SUBSET acked : Sm(s) \in Int
      /\ \A s \in SUBSET acked : \A x \in s : Sm(s) = SizeOf[x] + Sm(s \ {x})
    <2>1. \A x \in acked : SizeOf[x] \in Int
        BY PacketFacts
    <2> HIDE DEF Sm
    <2>2. \A s : Sm(s) = SumFunctionOnSet(SizeOf, s)
        BY DEF Sm
    <2>3. SumFunctionOnSet(SizeOf, {}) = 0
        BY <1>1, <2>1, SumFacts
    <2>4. ASSUME NEW s \in SUBSET acked
          PROVE  SumFunctionOnSet(SizeOf, s) \in Int
        BY <1>1, <2>1, SumFacts
    <2>5. ASSUME NEW s \in SUBSET acked, NEW x \in s
          PROVE  SumFunctionOnSet(SizeOf, s) = SizeOf[x] + SumFunctionOnSet(SizeOf, s \ {x})
        <3>1. IsFiniteSet(s) /\ \A y \in s : SizeOf[y] \in Int
            BY <1>1, <2>1, FS_Subset
        <3> QED
            BY <3>1, SumRemove
    <2> QED
        BY <2>2, <2>3, <2>4, <2>5
<1> HIDE DEF Sm
<1>5. totalBytesAcked \in Int /\ isAppLimited \in BOOLEAN /\ endOfAppLimitedPhase \in Int
    BY DEF Types
<1>6. ASSUME NEW s \in SUBSET acked, \A x \in s : s \ {x} \in Q
      PROVE  s \in Q
    <2>1. g[s] = LoopStep(g, s)
        BY <1>3 DEF IsLoop
    <2>2. CASE s = {}
        <3>1. g[s] = BeforeLoop
            BY <2>1, <2>2 DEF LoopStep
        <3>2. g[s].acked = totalBytesAcked /\ g[s].limited = isAppLimited
            BY <3>1 DEF BeforeLoop
        <3> QED
            BY <1>4, <1>5, <2>2, <3>2
    <2>3. CASE s # {}
        <3> DEFINE m == Max(s)
                   r == s \ {Max(s)}
        <3>1. m \in s /\ \A y \in s : y <= m
            <4>1. IsFiniteSet(s) /\ s \subseteq Int
                BY <1>1, FS_Subset
            <4> QED
                BY <2>3, <4>1, MaxFacts
        <3>2. g[s] = Acknowledged(g[r], m)
            BY <2>1, <2>3 DEF LoopStep
        <3>3. r \in Q
            BY <1>6, <3>1
        <3>4. m \in DOMAIN connectionStateMap /\ connectionStateMap[m].size = SizeOf[m]
            BY <3>1, PacketFacts DEF Tracked
        <3> HIDE DEF m
        <3>5. /\ g[s].acked = g[r].acked + connectionStateMap[m].size
              /\ g[s].limited = (/\ g[r].limited
                                 /\ endOfAppLimitedPhase # invalidPacketNumber
                                 /\ m <= endOfAppLimitedPhase)
            BY <3>2, <3>4 DEF Acknowledged
        <3>6. g[s].acked = totalBytesAcked + Sm(s)
            <4>1. Sm(s) = SizeOf[m] + Sm(r) /\ Sm(s) \in Int /\ Sm(r) \in Int
                BY <1>4, <3>1 DEF m
            <4>2. SizeOf[m] \in Int
                BY <3>1, PacketFacts
            <4>3. g[r].acked = totalBytesAcked + Sm(r)
                BY <3>3
            <4> QED
                BY <1>5, <3>4, <3>5, <4>1, <4>2, <4>3
        <3>7. g[s].limited = (isAppLimited /\ \A p \in s : p <= endOfAppLimitedPhase)
            <4>1. g[r].limited = (isAppLimited /\ \A p \in r : p <= endOfAppLimitedPhase)
                BY <3>3
            <4>2. m \in Nat
                BY <1>1, <3>1
            <4>3. m <= endOfAppLimitedPhase => endOfAppLimitedPhase # invalidPacketNumber
                BY <1>5, <4>2 DEF invalidPacketNumber
            <4>4. \A p \in s : p = m \/ p \in r
                BY DEF m
            <4> QED
                BY <1>5, <3>1, <3>5, <4>1, <4>3, <4>4 DEF m
        <3> QED
            BY <3>6, <3>7
    <2> QED
        BY <2>2, <2>3
<1> HIDE DEF Q
<1>7. \A s \in SUBSET acked : s \in Q
    BY <1>1, <1>6, SubsetInduction
<1>8. Bytes(acked) = Sm(acked)
    BY PacketFacts DEF Sm
<1> QED
    BY <1>3, <1>7, <1>8 DEF Q

-----------------------------------------------------------------------------
\* The events the tracker has seen are all events.
EventsCounted == totalBytesAckedAfterLastAckEvent = totalBytesAcked

\* In an app-limited phase the packets sent since it began are those beyond its
\* end.
PhaseEnd ==
    isAppLimited => \A p \in InFlight : p \in sentSince <=> p > endOfAppLimitedPhase

\* The invariant of the proofs.  What the comments promise is not inductive: the
\* balance rests on the sizes the sampler remembers, the rule of the phase on the
\* packet number that ends it, the epoch on the total of the last event.
SamplerInv ==
    /\ Types
    /\ Tracked
    /\ EventsCounted
    /\ PhaseEnd
    /\ TotalsBalance
    /\ AppLimitedRule
    /\ EpochBytesAcked

LEMMA InitSampler == Init => SamplerInv
<1> SUFFICES ASSUME Init PROVE SamplerInv
    OBVIOUS
<1>1. InFlight = {} /\ DOMAIN connectionStateMap = {}
    BY DEF Init, InFlight
<1>2. Types
    <2>1. /\ isAppLimited \in BOOLEAN /\ limited \in BOOLEAN
        BY DEF Init
    <2>2. -1 \in -1..-1
        OBVIOUS
    <2> QED
        BY <1>1, <2>1, <2>2 DEF Init, Types, Packets, invalidPacketNumber
<1>3. Tracked /\ EventsCounted /\ PhaseEnd /\ AppLimitedRule /\ EpochBytesAcked
    BY <1>1 DEF Init, Tracked, EventsCounted, PhaseEnd, AppLimitedRule, EpochBytesAcked
<1>4. Bytes(InFlight) = 0
    <2>1. IsFiniteSet({}) /\ \A x \in {} : SizeOf[x] \in Int
        BY FS_EmptySet
    <2>2. SumFunctionOnSet(SizeOf, {}) = 0
        BY <2>1, SumFacts
    <2> QED
        BY <1>1, <1>2, <2>2, PacketFacts
<1>5. TotalsBalance
    BY <1>1, <1>4 DEF Init, TotalsBalance
<1> QED
    BY <1>2, <1>3, <1>5 DEF SamplerInv

\* The bytes in flight are a number.
LEMMA BytesType ==
    ASSUME Types, NEW S, S \subseteq InFlight
    PROVE  Bytes(S) \in Int
<1>1. IsFiniteSet(InFlight) /\ \A p \in InFlight : SizeOf[p] \in Int
    BY PacketFacts
<1>2. SumFunctionOnSet(SizeOf, S) \in Int
    BY <1>1, SumFacts
<1> QED
    BY <1>2, PacketFacts

\* No action but OnPacketSent, PacketDropped and CongestionEvent touches what the
\* bytes are counted from.
LEMMA KeepsBalance ==
    ASSUME SamplerInv,
           UNCHANGED <<totals, connectionStateMap, outstanding, dropped>>
    PROVE  TotalsBalance' /\ InFlight' = InFlight
<1>1. /\ totalBytesSent' = totalBytesSent /\ totalBytesAcked' = totalBytesAcked
      /\ totalBytesLost' = totalBytesLost /\ connectionStateMap' = connectionStateMap
      /\ outstanding' = outstanding /\ dropped' = dropped
    BY DEF totals
<1>2. InFlight' = InFlight
    BY <1>1 DEF InFlight
<1>3. Bytes(InFlight)' = Bytes(InFlight)
    BY <1>1, <1>2 DEF Bytes
<1> QED
    BY <1>1, <1>2, <1>3 DEF SamplerInv, TotalsBalance

-----------------------------------------------------------------------------
\* A packet sent is known, in flight and counted.
LEMMA SentPacketFacts ==
    ASSUME SamplerInv, NEW size \in Sizes, OnPacketSent(size)
    PROVE  LET p == lastSentPacket + 1
           IN  /\ p \in Nat /\ size \in Nat /\ p \notin InFlight /\ lastSentPacket' = p
               /\ p \notin DOMAIN connectionStateMap
               /\ InFlight' = InFlight \cup {p}
               /\ DOMAIN connectionStateMap' = DOMAIN connectionStateMap \cup {p}
               /\ \A q \in InFlight : outstanding'[q] = outstanding[q]
               /\ outstanding'[p].size = size
               /\ \A q \in DOMAIN connectionStateMap :
                     connectionStateMap'[q] = connectionStateMap[q]
               /\ \E la : connectionStateMap'[p] = ConnectionStateOnSentPacket(size, la)
<1> DEFINE p == lastSentPacket + 1
<1>1. p \in Nat /\ size \in Nat /\ p \notin 0..lastSentPacket
    BY SizesAssumption DEF SamplerInv, Types
<1>2. p \notin InFlight /\ p \notin DOMAIN connectionStateMap
    BY <1>1 DEF SamplerInv, Types, Packets
<1>3. PICK la : connectionStateMap'
                    = Extended(connectionStateMap, p, ConnectionStateOnSentPacket(size, la))
    BY DEF OnPacketSent
<1>4. /\ lastSentPacket' = p
      /\ outstanding' = Extended(outstanding, p, [size |-> size, time |-> now])
    BY DEF OnPacketSent
<1> HIDE DEF p
<1>5. /\ InFlight' = InFlight \cup {p}
      /\ \A q \in InFlight : outstanding'[q] = outstanding[q]
      /\ outstanding'[p] = [size |-> size, time |-> now]
    BY <1>2, <1>4 DEF InFlight, Extended
<1>6. /\ DOMAIN connectionStateMap' = DOMAIN connectionStateMap \cup {p}
      /\ \A q \in DOMAIN connectionStateMap : connectionStateMap'[q] = connectionStateMap[q]
      /\ connectionStateMap'[p] = ConnectionStateOnSentPacket(size, la)
    BY <1>2, <1>3 DEF Extended
<1> QED
    BY <1>1, <1>2, <1>4, <1>5, <1>6 DEF p

\* The bytes in flight grow by the packet.
LEMMA SentBytes ==
    ASSUME SamplerInv, NEW size \in Sizes, OnPacketSent(size)
    PROVE  Bytes(InFlight)' = Bytes(InFlight) + size
<1> DEFINE p == lastSentPacket + 1
<1>1. /\ p \in Nat /\ size \in Nat /\ p \notin InFlight
      /\ InFlight' = InFlight \cup {p}
      /\ \A q \in InFlight : outstanding'[q] = outstanding[q]
      /\ outstanding'[p].size = size
    BY SentPacketFacts
<1> HIDE DEF p
<1>2. Types
    BY DEF SamplerInv
<1>3. PICK f : f = SizeOf'
    OBVIOUS
<1>4. IsFiniteSet(InFlight) /\ \A q \in InFlight : SizeOf[q] \in Int
    BY <1>2, PacketFacts
<1>5. /\ f[p] = size
      /\ \A q \in InFlight : f[q] = SizeOf[q]
    BY <1>1, <1>3 DEF SizeOf
<1>6. IsFiniteSet(InFlight \cup {p})
    BY <1>4, FS_AddElement
<1>7. SumFunctionOnSet(f, InFlight \cup {p}) = f[p] + SumFunctionOnSet(f, InFlight)
    <2>1. \A q \in InFlight \cup {p} : f[q] \in Int
        BY <1>1, <1>4, <1>5
    <2>2. (InFlight \cup {p}) \ {p} = InFlight
        BY <1>1
    <2>3. SumFunctionOnSet(f, InFlight \cup {p})
              = f[p] + SumFunctionOnSet(f, (InFlight \cup {p}) \ {p})
        BY <1>6, <2>1, SumRemove
    <2> QED
        BY <2>2, <2>3
<1>8. SumFunctionOnSet(f, InFlight) = SumFunctionOnSet(SizeOf, InFlight)
    BY <1>4, <1>5, SumSame
<1>9. Bytes(InFlight) = SumFunctionOnSet(SizeOf, InFlight) /\ Bytes(InFlight) \in Int
    BY <1>2, PacketFacts, BytesType
<1>10. Bytes(InFlight)' = SumFunctionOnSet(f, InFlight \cup {p})
    BY <1>1, <1>3 DEF Bytes, SizeOf
<1> QED
    BY <1>1, <1>5, <1>7, <1>8, <1>9, <1>10

LEMMA SentInv ==
    ASSUME SamplerInv, NEW size \in Sizes, OnPacketSent(size)
    PROVE  SamplerInv'
<1> DEFINE p == lastSentPacket + 1
<1>1. /\ p \in Nat /\ size \in Nat /\ p \notin InFlight /\ lastSentPacket' = p
      /\ p \notin DOMAIN connectionStateMap
      /\ InFlight' = InFlight \cup {p}
      /\ DOMAIN connectionStateMap' = DOMAIN connectionStateMap \cup {p}
      /\ \A q \in InFlight : outstanding'[q] = outstanding[q]
      /\ outstanding'[p].size = size
      /\ \A q \in DOMAIN connectionStateMap : connectionStateMap'[q] = connectionStateMap[q]
    BY SentPacketFacts
<1>2. PICK la : connectionStateMap'[p] = ConnectionStateOnSentPacket(size, la)
    BY SentPacketFacts
<1>3. /\ totalBytesSent' = totalBytesSent + size
      /\ sentSince' = sentSince \cup {p}
      /\ marked' = IF limited THEN marked \cup {p} ELSE marked
      /\ totalBytesAcked' = totalBytesAcked /\ totalBytesLost' = totalBytesLost
      /\ isAppLimited' = isAppLimited /\ endOfAppLimitedPhase' = endOfAppLimitedPhase
      /\ limited' = limited /\ dropped' = dropped
      /\ largestAcked' = largestAcked
    BY DEF OnPacketSent, phase
<1>4. /\ aggregationEpochStartTime' = aggregationEpochStartTime
      /\ aggregationEpochBytes' = aggregationEpochBytes
      /\ totalBytesAckedAfterLastAckEvent' = totalBytesAckedAfterLastAckEvent
      /\ epochBase' = epochBase
    BY DEF OnPacketSent, tracker, heightHistory
<1>5. /\ connectionStateMap'[p].size = size
      /\ connectionStateMap'[p].appLimited = isAppLimited
      /\ connectionStateMap'[p].sent = totalBytesSent + size
      /\ connectionStateMap'[p].acked = totalBytesAcked
      /\ connectionStateMap'[p].lost = totalBytesLost
    BY <1>2 DEF ConnectionStateOnSentPacket
<1>6. Types /\ Tracked /\ PhaseEnd /\ TotalsBalance /\ AppLimitedRule
    BY DEF SamplerInv
<1>7. /\ lastSentPacket \in Int /\ endOfAppLimitedPhase \in Int
      /\ p = lastSentPacket + 1 /\ p > endOfAppLimitedPhase
      /\ p \notin sentSince /\ p \notin marked
      /\ \A q \in 0..lastSentPacket : q \in 0..p
      /\ p \in 0..p
    BY <1>1, <1>6 DEF Types, Packets
<1> HIDE DEF p
<1>8. Types'
    <2>1. totalBytesSent' \in Int /\ totalBytesAcked' \in Int /\ totalBytesLost' \in Int
        BY <1>1, <1>3, <1>6 DEF Types
    <2>2. isAppLimited' \in BOOLEAN /\ limited' \in BOOLEAN /\ dropped' \in Int
        BY <1>3, <1>6 DEF Types
    <2>3. endOfAppLimitedPhase' \in -1..p /\ largestAcked' \in -1..p
        BY <1>3, <1>6, <1>7 DEF Types
    <2>4. /\ InFlight' \subseteq 0..p /\ DOMAIN connectionStateMap' \subseteq 0..p
          /\ sentSince' \subseteq 0..p /\ marked' \subseteq 0..p
        BY <1>1, <1>3, <1>6, <1>7 DEF Types, Packets
    <2>5. \A q \in InFlight' : outstanding'[q].size \in Nat
        BY <1>1, <1>6 DEF Types
    <2>6. lastSentPacket' \in Int /\ lastSentPacket' >= -1
        BY <1>1
    <2>7. aggregationEpochBytes' \in Int /\ epochBase' \in Int
        BY <1>4, <1>6 DEF Types
    <2> QED
        BY <1>1, <2>1, <2>2, <2>3, <2>4, <2>5, <2>6, <2>7 DEF Types, Packets
<1>9. Tracked'
    BY <1>1, <1>5, <1>6 DEF Tracked
<1>10. EventsCounted' /\ EpochBytesAcked'
    BY <1>3, <1>4 DEF SamplerInv, EventsCounted, EpochBytesAcked
<1>11. PhaseEnd'
    BY <1>1, <1>3, <1>6, <1>7 DEF PhaseEnd
<1>12. AppLimitedRule'
    <2>1. isAppLimited = limited
        BY <1>6 DEF AppLimitedRule
    <2>2. ASSUME NEW q \in DOMAIN connectionStateMap'
          PROVE  connectionStateMap'[q].appLimited <=> q \in marked'
        <3>1. CASE q = p
            BY <1>3, <1>5, <1>7, <2>1, <3>1
        <3>2. CASE q # p
            <4>1. q \in DOMAIN connectionStateMap /\ connectionStateMap'[q] = connectionStateMap[q]
                BY <1>1, <3>2
            <4>2. q \in marked' <=> q \in marked
                BY <1>3, <3>2
            <4> QED
                BY <1>6, <4>1, <4>2 DEF AppLimitedRule
        <3> QED
            BY <3>1, <3>2
    <2> QED
        BY <1>3, <2>1, <2>2 DEF AppLimitedRule
<1>13. TotalsBalance'
    <2>1. /\ totalBytesSent \in Int /\ totalBytesAcked \in Int /\ totalBytesLost \in Int
          /\ Bytes(InFlight) \in Int /\ dropped \in Int
          /\ totalBytesSent - totalBytesAcked - totalBytesLost = Bytes(InFlight) + dropped
        BY <1>6, BytesType DEF Types, TotalsBalance
    <2>2. Bytes(InFlight)' = Bytes(InFlight) + size
        BY SentBytes
    <2>3. totalBytesSent' - totalBytesAcked' - totalBytesLost' = Bytes(InFlight)' + dropped'
        BY <1>1, <1>3, <2>1, <2>2
    <2> QED
        BY <2>3 DEF TotalsBalance
<1> QED
    BY <1>8, <1>9, <1>10, <1>11, <1>12, <1>13 DEF SamplerInv

-----------------------------------------------------------------------------
\* What the transport loses is in flight and not acked, and what it keeps is not
\* below the estimate of the least unacked packet: no packet that is still to be
\* acked is dropped as obsolete.
LEMMA LossFacts ==
    ASSUME Types, NEW acked, acked \subseteq InFlight, NEW lost \in Losses(acked),
           acked \cup lost # {}
    PROVE  /\ lost \subseteq InFlight /\ acked \cap lost = {}
           /\ Max(acked \cup {largestAcked}) \in -1..lastSentPacket
           /\ \A q \in InFlight \ (acked \cup lost) : q >= LeastUnacked(acked, lost)
<1> DEFINE largest == Max(acked \cup {largestAcked})
           below == {p \in InFlight \ acked : p < largest}
<1>1. /\ IsFiniteSet(InFlight) /\ InFlight \subseteq 0..lastSentPacket
      /\ largestAcked \in -1..lastSentPacket /\ lastSentPacket \in Int
    BY PacketFacts DEF Types, Packets
<1>2. largest \in acked \cup {largestAcked} /\ \A y \in acked : y <= largest
    <2>1. IsFiniteSet(acked)
        BY <1>1, FS_Subset
    <2>2. IsFiniteSet(acked \cup {largestAcked})
        BY <2>1, FS_AddElement
    <2>3. acked \cup {largestAcked} \subseteq Int /\ acked \cup {largestAcked} # {}
        BY <1>1
    <2> QED
        BY <2>2, <2>3, MaxFacts
<1>3. /\ lost \subseteq below
      /\ \A p \in below : p + packetThreshold <= largest => p \in lost
      /\ \A p \in lost, q \in below : q < p => q \in lost
    BY DEF Losses
<1> HIDE DEF largest
<1>4. largest \in -1..lastSentPacket
    BY <1>1, <1>2
<1>5. /\ IsFiniteSet(acked) /\ acked \subseteq Int
      /\ IsFiniteSet(lost) /\ lost \subseteq Int /\ lost \subseteq InFlight
      /\ \A p \in lost : p < largest
    <2>1. InFlight \subseteq Int
        BY PacketFacts
    <2>2. lost \subseteq InFlight /\ \A p \in lost : p < largest
        BY <1>3
    <2>3. IsFiniteSet(acked) /\ IsFiniteSet(lost)
        BY <1>1, <2>2, FS_Subset
    <2> QED
        BY <2>1, <2>2, <2>3
<1>6. ASSUME NEW q \in InFlight \ (acked \cup lost)
      PROVE  q >= LeastUnacked(acked, lost)
    <2>1. q \in Int /\ largest \in Int
        BY <1>1, <1>4
    <2>2. CASE acked # {}
        <3>1. Max(acked) \in acked
            BY <1>5, <2>2, MaxFacts
        <3>2. Max(acked) <= largest /\ Max(acked) \in Int
            BY <1>2, <1>5, <3>1
        <3>3. q + 3 > largest
            <4>1. CASE q < largest
                BY <1>3, <2>1, <4>1 DEF packetThreshold
            <4>2. CASE ~(q < largest)
                BY <2>1, <4>2
            <4> QED
                BY <4>1, <4>2
        <3>4. LeastUnacked(acked, lost) = Max(acked) - 2
            BY <2>2 DEF LeastUnacked
        <3> QED
            BY <2>1, <3>2, <3>3, <3>4
    <2>3. CASE acked = {}
        <3>1. Max(lost) \in lost
            <4>1. lost # {}
                BY <2>3
            <4> QED
                BY <1>5, <4>1, MaxFacts
        <3>2. Max(lost) \in Int /\ Max(lost) < largest
            BY <1>5, <3>1
        <3>3. q > Max(lost)
            <4>1. CASE q < largest
                <5>1. q # Max(lost) /\ ~(q < Max(lost))
                    BY <1>3, <3>1, <4>1
                <5> QED
                    BY <2>1, <3>2, <5>1
            <4>2. CASE ~(q < largest)
                BY <2>1, <3>2, <4>2
            <4> QED
                BY <4>1, <4>2
        <3>4. LeastUnacked(acked, lost) = Max(lost) + 1
            BY <2>3 DEF LeastUnacked
        <3> QED
            BY <2>1, <3>2, <3>3, <3>4
    <2> QED
        BY <2>2, <2>3
<1> QED
    BY <1>3, <1>4, <1>6 DEF largest

\* The bytes that leave with the acked and the lost packets.
LEMMA EventBytes ==
    ASSUME SamplerInv, NEW acked, acked \subseteq InFlight,
           NEW lost, lost \subseteq InFlight, acked \cap lost = {},
           outstanding' = Restricted(outstanding, InFlight \ (acked \cup lost))
    PROVE  /\ Bytes(InFlight) = Bytes(acked) + Bytes(lost) + Bytes(InFlight)'
           /\ Bytes(acked) \in Int /\ Bytes(lost) \in Int /\ Bytes(InFlight)' \in Int
<1> DEFINE left == InFlight \ (acked \cup lost)
           Sm(S) == SumFunctionOnSet(SizeOf, S)
<1>1. Types
    BY DEF SamplerInv
<1>2. IsFiniteSet(InFlight) /\ \A q \in InFlight : SizeOf[q] \in Int
    BY <1>1, PacketFacts
<1>3. \A S : Bytes(S) = Sm(S)
    BY <1>1, PacketFacts
<1>4. InFlight' = left /\ \A q \in left : outstanding'[q] = outstanding[q]
    BY DEF Restricted, InFlight
<1>5. Sm(InFlight) = Sm(acked) + Sm(InFlight \ acked)
    BY <1>2, SumSplit
<1>6. Sm(InFlight \ acked) = Sm(lost) + Sm(left)
    <2>1. IsFiniteSet(InFlight \ acked) /\ lost \subseteq InFlight \ acked
        BY <1>2, FS_Subset
    <2>2. \A q \in InFlight \ acked : SizeOf[q] \in Int
        BY <1>2
    <2>3. (InFlight \ acked) \ lost = left
        OBVIOUS
    <2>4. Sm(InFlight \ acked) = Sm(lost) + Sm((InFlight \ acked) \ lost)
        BY <2>1, <2>2, SumSplit
    <2> QED
        BY <2>3, <2>4
<1>7. Bytes(InFlight)' = Sm(left)
    <2>1. PICK f : f = SizeOf'
        OBVIOUS
    <2>2. \A q \in left : f[q] = SizeOf[q]
        BY <1>4, <2>1 DEF SizeOf
    <2>3. IsFiniteSet(left)
        BY <1>2, FS_Subset
    <2>4. SumFunctionOnSet(f, left) = SumFunctionOnSet(SizeOf, left)
        BY <2>2, <2>3, SumSame
    <2>5. Bytes(InFlight)' = SumFunctionOnSet(f, left)
        BY <1>4, <2>1 DEF Bytes, SizeOf
    <2> QED
        BY <2>4, <2>5
<1> HIDE DEF Sm, left
<1>8. Bytes(acked) \in Int /\ Bytes(lost) \in Int /\ Bytes(left) \in Int
    BY <1>1, BytesType DEF left
<1> QED
    BY <1>3, <1>5, <1>6, <1>7, <1>8

\* What the event does to the state of the sampler.
LEMMA EventFacts ==
    ASSUME SamplerInv, NEW acked, acked \subseteq InFlight, NEW lost \in Losses(acked),
           CongestionEvent(acked, lost)
    PROVE  /\ acked \cup lost # {}
           /\ totalBytesLost' = totalBytesLost + Bytes(lost)
           /\ totalBytesAcked' = totalBytesAcked + Bytes(acked)
           /\ isAppLimited' = (isAppLimited /\ \A p \in acked : p <= endOfAppLimitedPhase)
           /\ outstanding' = Restricted(outstanding, InFlight \ (acked \cup lost))
           /\ connectionStateMap' =
                 Restricted(connectionStateMap,
                            {p \in DOMAIN connectionStateMap : p >= LeastUnacked(acked, lost)})
           /\ largestAcked' = Max(acked \cup {largestAcked})
           /\ limited' = (limited /\ acked \cap sentSince = {})
           /\ UNCHANGED <<totalBytesSent, lastSentPacket, endOfAppLimitedPhase, dropped,
                          sentSince, marked>>
           /\ totalBytesAckedAfterLastAckEvent' = totalBytesAcked'
           /\ \/ /\ totalBytesAcked' = totalBytesAcked
                 /\ UNCHANGED <<aggregationEpochStartTime, aggregationEpochBytes, epochBase>>
              \/ /\ aggregationEpochBytes' = totalBytesAcked' - totalBytesAcked
                 /\ epochBase' = totalBytesAcked
              \/ /\ aggregationEpochStartTime' = aggregationEpochStartTime
                 /\ aggregationEpochStartTime # 0
                 /\ aggregationEpochBytes'
                        = aggregationEpochBytes + (totalBytesAcked' - totalBytesAcked)
                 /\ epochBase' = epochBase
<1> DEFINE st == AfterAcks(acked)
           ratio == Larger(GetBest(maxBandwidth), st.bandwidth)
<1>1. /\ st.acked = totalBytesAcked + Bytes(acked)
      /\ st.limited = (isAppLimited /\ \A p \in acked : p <= endOfAppLimitedPhase)
    BY AfterAcksFacts DEF SamplerInv
<1>0. totalBytesLost' = totalBytesLost + Bytes(lost)
    BY DEF CongestionEvent, LostBytes
<1>2. totalBytesAcked \in Int /\ Bytes(acked) \in Int
    BY BytesType DEF SamplerInv, Types
<1>3. /\ totalBytesAcked' = st.acked /\ isAppLimited' = st.limited
      /\ OnAckEventEnd(ratio, st.acked)
    BY DEF CongestionEvent
<1>4. totalBytesAckedAfterLastAckEvent = totalBytesAcked
    BY DEF SamplerInv, EventsCounted
<1> HIDE DEF st, ratio
<1>5. NewlyAcked(st.acked) = totalBytesAcked' - totalBytesAcked
    BY <1>3, <1>4 DEF NewlyAcked
<1>6. CASE NewlyAcked(st.acked) = 0
    <2>1. UNCHANGED <<tracker, heightHistory>>
        BY <1>3, <1>6 DEF OnAckEventEnd
    <2>2. totalBytesAcked' = totalBytesAcked
        BY <1>1, <1>2, <1>3, <1>5, <1>6
    <2>3. /\ totalBytesAckedAfterLastAckEvent' = totalBytesAcked'
          /\ UNCHANGED <<aggregationEpochStartTime, aggregationEpochBytes, epochBase>>
        BY <1>4, <2>1, <2>2 DEF tracker, heightHistory
    <2> QED
        BY <1>0, <1>1, <1>3, <2>2, <2>3 DEF CongestionEvent
<1>7. CASE NewlyAcked(st.acked) # 0
    <2>1. /\ totalBytesAckedAfterLastAckEvent' = st.acked
          /\ UpdateAckHeight(ratio, NewlyAcked(st.acked))
        BY <1>3, <1>7 DEF OnAckEventEnd
    <2>2. \/ /\ aggregationEpochBytes' = NewlyAcked(st.acked)
             /\ epochBase' = totalBytesAcked
          \/ /\ aggregationEpochStartTime' = aggregationEpochStartTime
             /\ aggregationEpochStartTime # 0
             /\ aggregationEpochBytes' = aggregationEpochBytes + NewlyAcked(st.acked)
             /\ epochBase' = epochBase
        BY <2>1 DEF UpdateAckHeight
    <2> QED
        BY <1>0, <1>1, <1>3, <1>5, <2>1, <2>2 DEF CongestionEvent
<1> QED
    BY <1>6, <1>7

LEMMA EventInv ==
    ASSUME SamplerInv, NEW acked, acked \subseteq InFlight, NEW lost \in Losses(acked),
           CongestionEvent(acked, lost)
    PROVE  SamplerInv'
<1>1. Types /\ Tracked /\ PhaseEnd /\ TotalsBalance /\ AppLimitedRule /\ EpochBytesAcked
    BY DEF SamplerInv
<1>2. acked \cup lost # {}
    BY EventFacts
<1>3. /\ lost \subseteq InFlight /\ acked \cap lost = {}
      /\ Max(acked \cup {largestAcked}) \in -1..lastSentPacket
      /\ \A q \in InFlight \ (acked \cup lost) : q >= LeastUnacked(acked, lost)
    BY <1>1, <1>2, LossFacts
<1>4. /\ totalBytesLost' = totalBytesLost + Bytes(lost)
      /\ totalBytesAcked' = totalBytesAcked + Bytes(acked)
      /\ totalBytesSent' = totalBytesSent
    BY EventFacts
<1>5. /\ isAppLimited' = (isAppLimited /\ \A p \in acked : p <= endOfAppLimitedPhase)
      /\ limited' = (limited /\ acked \cap sentSince = {})
      /\ endOfAppLimitedPhase' = endOfAppLimitedPhase
      /\ sentSince' = sentSince /\ marked' = marked
    BY EventFacts
<1>6. /\ lastSentPacket' = lastSentPacket /\ dropped' = dropped
      /\ largestAcked' = Max(acked \cup {largestAcked})
      /\ outstanding' = Restricted(outstanding, InFlight \ (acked \cup lost))
    BY EventFacts
<1>7. connectionStateMap' =
          Restricted(connectionStateMap,
                     {p \in DOMAIN connectionStateMap : p >= LeastUnacked(acked, lost)})
    BY EventFacts
<1>8. /\ InFlight' = InFlight \ (acked \cup lost)
      /\ \A q \in InFlight' : outstanding'[q] = outstanding[q]
    BY <1>6 DEF Restricted, InFlight
<1>9. /\ DOMAIN connectionStateMap'
             = {p \in DOMAIN connectionStateMap : p >= LeastUnacked(acked, lost)}
      /\ \A q \in DOMAIN connectionStateMap' : connectionStateMap'[q] = connectionStateMap[q]
    BY <1>7 DEF Restricted
<1>10. /\ Bytes(InFlight) = Bytes(acked) + Bytes(lost) + Bytes(InFlight)'
       /\ Bytes(acked) \in Int /\ Bytes(lost) \in Int /\ Bytes(InFlight)' \in Int
    BY <1>3, <1>6, EventBytes
<1>11. \/ /\ totalBytesAcked' = totalBytesAcked
          /\ aggregationEpochStartTime' = aggregationEpochStartTime
          /\ aggregationEpochBytes' = aggregationEpochBytes /\ epochBase' = epochBase
       \/ /\ aggregationEpochBytes' = totalBytesAcked' - totalBytesAcked
          /\ epochBase' = totalBytesAcked
       \/ /\ aggregationEpochStartTime # 0
          /\ aggregationEpochBytes'
                 = aggregationEpochBytes + (totalBytesAcked' - totalBytesAcked)
          /\ epochBase' = epochBase
    BY EventFacts
<1>12. totalBytesSent \in Int /\ totalBytesAcked \in Int /\ totalBytesLost \in Int
    BY <1>1 DEF Types
<1>13. Types'
    <2>1. totalBytesSent' \in Int /\ totalBytesAcked' \in Int /\ totalBytesLost' \in Int
        BY <1>4, <1>10, <1>12
    <2>2. isAppLimited' \in BOOLEAN /\ limited' \in BOOLEAN /\ dropped' \in Int
        BY <1>1, <1>5, <1>6 DEF Types
    <2>3. /\ endOfAppLimitedPhase' \in -1..lastSentPacket'
          /\ largestAcked' \in -1..lastSentPacket'
          /\ lastSentPacket' \in Int /\ lastSentPacket' >= -1
        BY <1>1, <1>3, <1>5, <1>6 DEF Types
    <2>4. /\ InFlight' \subseteq Packets /\ DOMAIN connectionStateMap' \subseteq Packets
          /\ sentSince' \subseteq Packets /\ marked' \subseteq Packets
          /\ \A q \in InFlight' : outstanding'[q].size \in Nat
        BY <1>1, <1>5, <1>8, <1>9 DEF Types
    <2>5. aggregationEpochBytes' \in Int /\ epochBase' \in Int
        <3>1. aggregationEpochBytes \in Int /\ epochBase \in Int
            BY <1>1 DEF Types
        <3> QED
            BY <1>12, <1>11, <2>1, <3>1
    <2>6. Packets' = Packets
        BY <1>6 DEF Packets
    <2> QED
        BY <2>1, <2>2, <2>3, <2>4, <2>5, <2>6 DEF Types
<1>14. Tracked'
    BY <1>1, <1>3, <1>8, <1>9 DEF Tracked
<1>15. EventsCounted'
    BY EventFacts DEF EventsCounted
<1>16. PhaseEnd'
    BY <1>1, <1>5, <1>8 DEF PhaseEnd
<1>17. TotalsBalance'
    <2>1. /\ totalBytesSent - totalBytesAcked - totalBytesLost = Bytes(InFlight) + dropped
          /\ dropped \in Int
        BY <1>1 DEF TotalsBalance, Types
    <2>2. totalBytesSent' - totalBytesAcked' - totalBytesLost' = Bytes(InFlight)' + dropped'
        BY <1>4, <1>6, <1>10, <1>12, <2>1
    <2> QED
        BY <2>2 DEF TotalsBalance
<1>18. AppLimitedRule'
    <2>1. isAppLimited \in BOOLEAN /\ endOfAppLimitedPhase \in Int /\ isAppLimited = limited
        BY <1>1 DEF Types, AppLimitedRule
    <2>2. isAppLimited => ((\A p \in acked : p <= endOfAppLimitedPhase)
                               <=> acked \cap sentSince = {})
        <3> SUFFICES ASSUME isAppLimited
                     PROVE  (\A p \in acked : p <= endOfAppLimitedPhase)
                                <=> acked \cap sentSince = {}
            OBVIOUS
        <3>1. \A p \in acked : p \in sentSince <=> p > endOfAppLimitedPhase
            BY <1>1 DEF PhaseEnd
        <3>2. \A p \in acked : p \in Int
            BY <1>1, PacketFacts
        <3>3. \A p \in acked : p > endOfAppLimitedPhase <=> ~(p <= endOfAppLimitedPhase)
            BY <2>1, <3>2
        <3> QED
            BY <3>1, <3>3
    <2>3. isAppLimited' = limited'
        BY <1>5, <2>1, <2>2
    <2> QED
        BY <1>1, <1>5, <1>9, <2>3 DEF AppLimitedRule
<1>19. EpochBytesAcked'
    <2> SUFFICES ASSUME aggregationEpochStartTime' # 0
                 PROVE  aggregationEpochBytes' = totalBytesAcked' - epochBase'
        BY DEF EpochBytesAcked
    <2>1. /\ aggregationEpochBytes \in Int /\ epochBase \in Int
          /\ totalBytesAcked \in Int /\ totalBytesAcked' \in Int
        BY <1>1, <1>13 DEF Types
    <2>2. aggregationEpochStartTime # 0 => aggregationEpochBytes = totalBytesAcked - epochBase
        BY <1>1 DEF EpochBytesAcked
    <2> QED
        BY <1>11, <2>1, <2>2
<1> QED
    BY <1>13, <1>14, <1>15, <1>16, <1>17, <1>18, <1>19 DEF SamplerInv

\* A packet the transport drops takes its bytes out of flight, and the sampler
\* notices nothing.
LEMMA DroppedInv ==
    ASSUME SamplerInv, NEW p \in InFlight, PacketDropped(p)
    PROVE  SamplerInv'
<1>1. Types /\ Tracked /\ PhaseEnd /\ TotalsBalance
    BY DEF SamplerInv
<1>2. /\ outstanding' = Restricted(outstanding, InFlight \ {p})
      /\ dropped' = dropped + outstanding[p].size
      /\ UNCHANGED <<totals, lastSentPacket, phase, connectionStateMap, tracker,
                     largestAcked, limitHistory, heightHistory>>
    BY DEF PacketDropped
<1>3. /\ InFlight' = InFlight \ {p}
      /\ \A q \in InFlight' : outstanding'[q] = outstanding[q]
    BY <1>2 DEF Restricted, InFlight
<1>4. outstanding[p].size \in Nat /\ dropped \in Int
    BY <1>1 DEF Types
<1>5. Bytes({p}) = outstanding[p].size
    <2>1. /\ IsFiniteSet({p}) /\ SizeOf[p] = outstanding[p].size /\ SizeOf[p] \in Int
          /\ \A S : Bytes(S) = SumFunctionOnSet(SizeOf, S)
        BY <1>1, PacketFacts, FS_Singleton
    <2>2. SumFunctionOnSet(SizeOf, {p}) = SizeOf[p] + SumFunctionOnSet(SizeOf, {p} \ {p})
        BY <2>1, SumRemove
    <2>3. SumFunctionOnSet(SizeOf, {}) = 0
        BY <2>1, SumFacts
    <2>4. {p} \ {p} = {}
        OBVIOUS
    <2> QED
        BY <2>1, <2>2, <2>3, <2>4
<1>6. Bytes({}) = 0
    <2>1. /\ IsFiniteSet({}) /\ \A x \in {} : SizeOf[x] \in Int
          /\ \A S : Bytes(S) = SumFunctionOnSet(SizeOf, S)
        BY <1>1, PacketFacts, FS_EmptySet
    <2> QED
        BY <2>1, SumFacts
<1>7. /\ Bytes(InFlight) = Bytes({}) + Bytes({p}) + Bytes(InFlight)'
      /\ Bytes(InFlight)' \in Int
    <2>1. {} \cup {p} = {p} /\ {} \cap {p} = {} /\ {} \subseteq InFlight /\ {p} \subseteq InFlight
        OBVIOUS
    <2>2. outstanding' = Restricted(outstanding, InFlight \ ({} \cup {p}))
        BY <1>2, <2>1
    <2> QED
        BY <2>1, <2>2, EventBytes
<1>8. TotalsBalance'
    <2>1. /\ totalBytesSent - totalBytesAcked - totalBytesLost = Bytes(InFlight) + dropped
          /\ totalBytesSent \in Int /\ totalBytesAcked \in Int /\ totalBytesLost \in Int
        BY <1>1 DEF TotalsBalance, Types
    <2>2. /\ totalBytesSent' = totalBytesSent /\ totalBytesAcked' = totalBytesAcked
          /\ totalBytesLost' = totalBytesLost
        BY <1>2 DEF totals
    <2>3. Bytes(InFlight) + dropped = Bytes(InFlight)' + dropped'
        BY <1>2, <1>4, <1>5, <1>6, <1>7
    <2> QED
        BY <2>1, <2>2, <2>3 DEF TotalsBalance
<1>9. Types'
    <2>1. dropped' \in Int
        BY <1>2, <1>4
    <2>2. InFlight' \subseteq InFlight /\ Packets' = Packets
        BY <1>2, <1>3 DEF Packets
    <2> QED
        BY <1>1, <1>2, <1>3, <2>1, <2>2
           DEF Types, totals, phase, tracker, limitHistory, heightHistory
<1>10. Tracked' /\ PhaseEnd'
    BY <1>1, <1>2, <1>3 DEF Tracked, PhaseEnd, phase, limitHistory
<1>11. EventsCounted' /\ AppLimitedRule' /\ EpochBytesAcked'
    BY <1>2 DEF SamplerInv, EventsCounted, AppLimitedRule, EpochBytesAcked, totals, phase,
                tracker, limitHistory, heightHistory
<1> QED
    BY <1>8, <1>9, <1>10, <1>11 DEF SamplerInv

LEMMA NextSampler == SamplerInv /\ [Next]_vars => SamplerInv'
<1> SUFFICES ASSUME SamplerInv, [Next]_vars PROVE SamplerInv'
    OBVIOUS
<1>1. Types
    BY DEF SamplerInv
<1>2. ASSUME UNCHANGED <<totals, lastSentPacket, phase, connectionStateMap, tracker, transport,
                         limitHistory, heightHistory>>
      PROVE  SamplerInv'
    <2>1. TotalsBalance' /\ InFlight' = InFlight
        BY <1>2, KeepsBalance DEF transport
    <2>2. Types'
        BY <1>1, <1>2, <2>1 DEF Types, Packets, totals, phase, tracker, transport,
                                limitHistory, heightHistory
    <2> QED
        BY <1>2, <2>1, <2>2 DEF SamplerInv, Tracked, EventsCounted, PhaseEnd, AppLimitedRule,
               EpochBytesAcked, totals, phase, tracker, transport, limitHistory, heightHistory
<1>3. CASE Tick
    BY <1>2, <1>3 DEF Tick
<1>4. ASSUME NEW size \in Sizes, OnPacketSent(size)
      PROVE  SamplerInv'
    BY <1>4, SentInv
<1>5. CASE OnAckOnlySent
    <2>1. /\ lastSentPacket' = lastSentPacket + 1
          /\ UNCHANGED <<totals, phase, connectionStateMap, tracker, transport,
                         limitHistory, heightHistory>>
        BY <1>5 DEF OnAckOnlySent
    <2>2. TotalsBalance' /\ InFlight' = InFlight
        BY <2>1, KeepsBalance DEF transport
    <2>3. Types'
        <3>1. \A q \in Packets : q \in Packets'
            BY <1>1, <2>1 DEF Types, Packets
        <3>2. /\ endOfAppLimitedPhase' \in -1..lastSentPacket'
              /\ largestAcked' \in -1..lastSentPacket'
              /\ lastSentPacket' \in Int /\ lastSentPacket' >= -1
            BY <1>1, <2>1 DEF Types, phase, transport
        <3> QED
            BY <1>1, <2>1, <2>2, <3>1, <3>2
               DEF Types, totals, phase, tracker, transport, limitHistory, heightHistory
    <2> QED
        BY <2>1, <2>2, <2>3 DEF SamplerInv, Tracked, EventsCounted, PhaseEnd, AppLimitedRule,
               EpochBytesAcked, totals, phase, tracker, transport, limitHistory, heightHistory
<1>6. CASE OnAppLimited
    <2>1. /\ isAppLimited' = TRUE /\ limited' = TRUE
          /\ endOfAppLimitedPhase' = lastSentPacket /\ sentSince' = {}
          /\ UNCHANGED <<totals, lastSentPacket, connectionStateMap, tracker, transport,
                         marked, heightHistory>>
        BY <1>6 DEF OnAppLimited, EndOfPhase
    <2>2. TotalsBalance' /\ InFlight' = InFlight
        BY <2>1, KeepsBalance DEF transport
    <2>3. Types'
        BY <1>1, <2>1, <2>2 DEF Types, Packets, totals, tracker, transport, heightHistory
    <2>4. PhaseEnd'
        <3>1. \A p \in InFlight : ~(p > lastSentPacket)
            <4>1. lastSentPacket \in Int /\ \A p \in InFlight : p \in 0..lastSentPacket
                BY <1>1 DEF Types, Packets
            <4> QED
                BY <4>1
        <3> QED
            BY <2>1, <2>2, <3>1 DEF PhaseEnd
    <2> QED
        BY <2>1, <2>2, <2>3, <2>4 DEF SamplerInv, Tracked, EventsCounted, AppLimitedRule,
               EpochBytesAcked, totals, tracker, transport, heightHistory
<1>7. ASSUME NEW acked \in SUBSET Ackable, NEW lost \in Losses(acked),
             CongestionEvent(acked, lost)
      PROVE  SamplerInv'
    <2>1. acked \subseteq InFlight
        BY DEF Ackable
    <2> QED
        BY <1>7, <2>1, EventInv
<1>8. ASSUME NEW p \in InFlight, PacketDropped(p)
      PROVE  SamplerInv'
    BY <1>8, DroppedInv
<1>9. CASE UNCHANGED vars
    BY <1>2, <1>9 DEF vars
<1> QED
    BY <1>3, <1>4, <1>5, <1>6, <1>7, <1>8, <1>9 DEF Next

LEMMA SamplerInvariant == Spec => []SamplerInv
BY InitSampler, NextSampler, PTL DEF Spec

-----------------------------------------------------------------------------
\* RemoveObsoletePackets with the estimate of the least unacked packet drops no
\* packet in flight, whatever is acked or lost and in which order
\* (bbr_sender.go:489-495, bandwidth_sampler.go:695-702).
THEOREM NothingForgotten == Spec => []OutstandingTracked
<1>1. SamplerInv => OutstandingTracked
    BY DEF SamplerInv, Tracked, OutstandingTracked
<1> QED
    BY <1>1, SamplerInvariant, PTL

\* The sampler's totals (bandwidth_sampler.go:566, 677, 770): every byte sent
\* is acked, lost, in flight or in a packet the transport dropped, and counted in
\* one of them only.  Of the bytes in flight kept with each packet (line 592) it
\* says nothing: SendStateInFlight does not hold.
THEOREM BytesBalance == Spec => []TotalsBalance
<1>1. SamplerInv => TotalsBalance
    BY DEF SamplerInv
<1> QED
    BY <1>1, SamplerInvariant, PTL

\* The app-limited phase ends with the first ack of a packet sent after
\* OnAppLimited, and exactly the packets sent in it are marked
\* (bandwidth_sampler.go:690-693, 761-831).
THEOREM AppLimitedAsPromised == Spec => []AppLimitedRule
<1>1. SamplerInv => AppLimitedRule
    BY DEF SamplerInv
<1> QED
    BY <1>1, SamplerInvariant, PTL

\* The bytes of the aggregation epoch are those acked since it began
\* (bandwidth_sampler.go:130-208, 833-858).
THEOREM EpochCountsAcks == Spec => []EpochBytesAcked
<1>1. SamplerInv => EpochBytesAcked
    BY DEF SamplerInv
<1> QED
    BY <1>1, SamplerInvariant, PTL
=============================================================================
