----------------------- MODULE PacketNumberQueueProofs -----------------------
(***************************************************************************)
(* The packet number queue is the map of PacketMap for every set of packet *)
(* numbers and entries: its counter and its front are right whatever the   *)
(* order of insertions and removals.                                       *)
(***************************************************************************)
EXTENDS PacketNumberQueue, FiniteSetTheorems, SequenceTheorems, WellFoundedInduction, TLAPS

USE QueueAssumption

\* A nonempty set of natural numbers has a least element.
LEMMA LeastNumber ==
    ASSUME NEW T \in SUBSET Nat, T # {}
    PROVE  \E x \in T : \A y \in T : x <= y
<1> DEFINE R == OpToRel(<, Nat)
<1>1. IsWellFoundedOn(R, Nat)
    BY NatLessThanWellFounded
<1>2. \A x, y \in Nat : <<x, y>> \in R <=> x < y
    BY DEF OpToRel
<1> HIDE DEF R
<1>3. PICK x \in T : \A y \in T : ~(<<y, x>> \in R)
    BY <1>1, WFMin
<1>4. ASSUME NEW y \in T
      PROVE  x <= y
    <2>1. ~(<<y, x>> \in R)
        BY <1>3
    <2>2. x \in Nat /\ y \in Nat
        OBVIOUS
    <2>3. ~(y < x)
        BY <1>2, <2>1, <2>2
    <2> QED
        BY <2>2, <2>3
<1> QED
    BY <1>4
-----------------------------------------------------------------------------
\* The positions of the present entries.
Present(s) == {i \in 1..Len(s) : s[i].present}

\* p is present in entries s that start at packet number first.
HasIn(s, first, p) ==
    /\ p >= first
    /\ p - first < Len(s)
    /\ s[p - first + 1].present

\* What is present was put there by a caller.
Numbered(s, first) ==
    \A i \in Present(s) : first + i - 1 \in PacketNumbers /\ s[i].entry \in Entries

\* The present entries are finite in number.
LEMMA PresentFinite ==
    ASSUME NEW s \in Seq(Wrapper)
    PROVE  IsFiniteSet(Present(s)) /\ Cardinality(Present(s)) \in Nat
<1>1. Len(s) \in Nat
    OBVIOUS
<1>2. IsFiniteSet(1..Len(s))
    BY <1>1, FS_Interval
<1>3. Present(s) \in SUBSET (1..Len(s))
    BY DEF Present
<1>4. IsFiniteSet(Present(s))
    BY <1>2, <1>3, FS_Subset
<1> QED
    BY <1>4, FS_CardinalityType

\* The entries after the first n.
LEMMA FromFacts ==
    ASSUME NEW s \in Seq(Wrapper), NEW n \in 0..Len(s)
    PROVE  /\ From(s, n) \in Seq(Wrapper)
           /\ Len(From(s, n)) = Len(s) - n
           /\ \A i \in 1..(Len(s) - n) : From(s, n)[i] = s[i + n]
BY DEF From

\* Popping n entries takes the present ones among them from the count.
LEMMA FromCount ==
    ASSUME NEW s \in Seq(Wrapper), NEW n \in 0..Len(s)
    PROVE  Cardinality(Present(From(s, n))) =
               Cardinality(Present(s)) - Cardinality({i \in 1..n : s[i].present})
<1> DEFINE t    == From(s, n)
           gone == {i \in 1..n : s[i].present}
           rest == {i \in Present(s) : i > n}
<1>1. /\ t \in Seq(Wrapper) /\ Len(t) = Len(s) - n
      /\ \A i \in 1..(Len(s) - n) : t[i] = s[i + n]
    BY FromFacts
<1>2. Len(s) \in Nat /\ n \in Nat /\ n <= Len(s)
    OBVIOUS
<1>3. gone \cup rest = Present(s) /\ gone \cap rest = {}
    BY <1>2 DEF Present
<1>4. IsFiniteSet(Present(s)) /\ IsFiniteSet(Present(t)) /\ Cardinality(Present(s)) \in Nat
    BY <1>1, PresentFinite
<1>5. IsFiniteSet(gone) /\ IsFiniteSet(rest)
    <2>1. gone \in SUBSET Present(s) /\ rest \in SUBSET Present(s)
        BY <1>3
    <2> QED
        BY <1>4, <2>1, FS_Subset
<1>6. Cardinality(rest) = Cardinality(Present(t))
    <2> DEFINE f == [i \in Present(t) |-> i + n]
    <2>1. \A i \in Present(t) : i \in 1..(Len(s) - n) /\ s[i + n].present
        BY <1>1 DEF Present
    <2>2. \A i \in Present(t) : i + n \in rest
        BY <1>2, <2>1 DEF Present
    <2>3. f \in [Present(t) -> rest]
        BY <2>2
    <2>4. \A i, j \in Present(t) : f[i] = f[j] => i = j
        BY <1>2, <2>1
    <2>5. \A k \in rest : k - n \in Present(t) /\ f[k - n] = k
        BY <1>1, <1>2 DEF Present
    <2> HIDE DEF f
    <2>6. f \in Bijection(Present(t), rest)
        BY <2>3, <2>4, <2>5 DEF Bijection, Injection, Surjection, IsInjective
    <2> QED
        BY <1>4, <2>6, FS_Bijection DEF ExistsBijection
<1> HIDE DEF t, gone, rest
<1>7. /\ Cardinality(gone) \in Nat /\ Cardinality(rest) \in Nat
      /\ Cardinality(gone \cap rest) = 0
    BY <1>3, <1>5, FS_CardinalityType, FS_EmptySet
<1>8. Cardinality(Present(s)) = Cardinality(gone) + Cardinality(rest)
    <2>1. Cardinality(gone \cup rest) =
              Cardinality(gone) + Cardinality(rest) - Cardinality(gone \cap rest)
        BY <1>5, FS_Union
    <2>2. Cardinality(gone \cup rest) = Cardinality(gone) + Cardinality(rest)
        BY <1>7, <2>1
    <2> QED
        BY <1>3, <2>2, Zenon
<1> QED
    BY <1>4, <1>6, <1>7, <1>8 DEF t, gone

\* clearup stops at the first present entry, or when nothing is left.
LEMMA LeadingFacts ==
    ASSUME NEW s \in Seq(Wrapper)
    PROVE  /\ Leading(s) \in 0..Len(s)
           /\ \A i \in 1..Leading(s) : ~s[i].present
           /\ Leading(s) < Len(s) => s[Leading(s) + 1].present
<1> DEFINE Stops(n) == /\ \A i \in 1..n : ~s[i].present
                       /\ n < Len(s) => s[n + 1].present
<1>1. Len(s) \in Nat
    OBVIOUS
<1>2. \E n \in 0..Len(s) : Stops(n)
    <2>1. CASE Present(s) = {}
        <3>1. Len(s) \in 0..Len(s) /\ Stops(Len(s))
            BY <1>1, <2>1 DEF Present
        <3> QED
            BY <3>1
    <2>2. CASE Present(s) # {}
        <3>1. Present(s) \in SUBSET Nat
            BY DEF Present
        <3>2. PICK k \in Present(s) : \A j \in Present(s) : k <= j
            BY <2>2, <3>1, LeastNumber
        <3>3. k - 1 \in 0..Len(s) /\ Stops(k - 1)
            BY <1>1, <3>2 DEF Present
        <3> QED
            BY <3>3
    <2> QED
        BY <2>1, <2>2
<1>3. Leading(s) = CHOOSE n \in 0..Len(s) : Stops(n)
    BY DEF Leading
<1> HIDE DEF Stops
<1>4. Leading(s) \in 0..Len(s) /\ Stops(Leading(s))
    BY <1>2, <1>3
<1> QED
    BY <1>4 DEF Stops
-----------------------------------------------------------------------------
\* The inductive invariant.  FrontPresent needs what is present to be counted
\* and numbered; PacketNumbers need not be an interval, so that the numbers in
\* use are those of callers has to be said.
QueueInv ==
    /\ entries \in Seq(Wrapper)
    /\ firstPacket \in Nat \cup {invalidPacketNumber}
    /\ numberOfPresentEntries = Cardinality(Present(entries))
    /\ entries = <<>> => firstPacket = invalidPacketNumber
    /\ entries # <<>> => entries[1].present /\ firstPacket \in Nat
    /\ Numbered(entries, firstPacket)

\* With the invariant, the counter says whether anything is stored, and the
\* lookup finds what is present.
LEMMA QueueFacts ==
    ASSUME QueueInv
    PROVE  /\ numberOfPresentEntries \in Nat
           /\ IsEmpty <=> entries = <<>>
           /\ \A p \in Int : Has(p) <=> HasIn(entries, firstPacket, p)
           /\ entries = <<>> => LastPacket = invalidPacketNumber
           /\ entries # <<>> => LastPacket = firstPacket + Len(entries) - 1
<1>1. /\ entries \in Seq(Wrapper) /\ Len(entries) \in Nat
      /\ firstPacket \in Int
    BY DEF QueueInv, invalidPacketNumber
<1>2. /\ IsFiniteSet(Present(entries))
      /\ numberOfPresentEntries = Cardinality(Present(entries))
      /\ numberOfPresentEntries \in Nat
    BY <1>1, PresentFinite DEF QueueInv
<1>3. numberOfPresentEntries = 0 <=> Present(entries) = {}
    BY <1>2, FS_EmptySet
<1>4. Present(entries) = {} <=> entries = <<>>
    <2>1. CASE entries = <<>>
        BY <2>1 DEF Present
    <2>2. CASE entries # <<>>
        <3>1. entries[1].present /\ 1 \in 1..Len(entries)
            BY <1>1, <2>2 DEF QueueInv
        <3> QED
            BY <2>2, <3>1 DEF Present
    <2> QED
        BY <2>1, <2>2
<1>5. IsEmpty <=> entries = <<>>
    BY <1>3, <1>4 DEF IsEmpty
<1>6. ASSUME NEW p \in Int
      PROVE  Has(p) <=> HasIn(entries, firstPacket, p)
    <2>1. CASE entries = <<>>
        BY <1>1, <1>5, <2>1 DEF Has, HasIn
    <2>2. CASE entries # <<>>
        BY <1>1, <1>5, <2>2 DEF Has, HasIn, At
    <2> QED
        BY <2>1, <2>2
<1> QED
    BY <1>2, <1>5, <1>6 DEF LastPacket

\* clearup moves the front to the first present entry and changes nothing else
\* a caller can see.
LEMMA ClearupFacts ==
    ASSUME NEW s \in Seq(Wrapper), NEW first \in Int,
           s # <<>> => first \in Nat, Numbered(s, first),
           Clearup(s, first)
    PROVE  /\ entries' \in Seq(Wrapper)
           /\ firstPacket' \in Nat \cup {invalidPacketNumber}
           /\ entries' = <<>> => firstPacket' = invalidPacketNumber
           /\ entries' # <<>> => entries'[1].present /\ firstPacket' \in Nat
           /\ Numbered(entries', firstPacket')
           /\ Cardinality(Present(entries')) = Cardinality(Present(s))
           /\ \A p \in Int : HasIn(entries', firstPacket', p) <=> HasIn(s, first, p)
           /\ \A p \in Int : HasIn(s, first, p) =>
                  entries'[p - firstPacket' + 1] = s[p - first + 1]
           /\ entries' # <<>> => firstPacket' + Len(entries') = first + Len(s)
<1> DEFINE n == Leading(s)
<1>1. /\ n \in 0..Len(s) /\ Len(s) \in Nat
      /\ \A i \in 1..n : ~s[i].present
      /\ n < Len(s) => s[n + 1].present
    BY LeadingFacts
<1>2. /\ entries' = From(s, n)
      /\ firstPacket' = IF entries' = <<>> THEN invalidPacketNumber ELSE first + n
    BY DEF Clearup
<1> HIDE DEF n
<1>3. /\ entries' \in Seq(Wrapper) /\ Len(entries') = Len(s) - n
      /\ \A i \in 1..(Len(s) - n) : entries'[i] = s[i + n]
    <2>1. /\ From(s, n) \in Seq(Wrapper) /\ Len(From(s, n)) = Len(s) - n
          /\ \A i \in 1..(Len(s) - n) : From(s, n)[i] = s[i + n]
        <3>1. n \in 0..Len(s)
            BY <1>1
        <3> QED
            BY <3>1, FromFacts
    <2>2. entries' = From(s, n)
        BY <1>2
    <2> QED
        BY <2>1, <2>2
<1>4. entries' = <<>> <=> n = Len(s)
    <2>1. entries' = <<>> <=> Len(entries') = 0
        BY <1>3, EmptySeq
    <2> QED
        BY <1>1, <1>3, <2>1
<1>5. Cardinality(Present(entries')) = Cardinality(Present(s))
    <2>1. {i \in 1..n : s[i].present} = {}
        BY <1>1
    <2>2. Cardinality(Present(s)) \in Nat
        BY PresentFinite
    <2> QED
        BY <1>1, <1>2, <2>1, <2>2, FromCount, FS_EmptySet
<1>6. CASE n = Len(s)
    <2>1. entries' = <<>> /\ firstPacket' = invalidPacketNumber
        BY <1>2, <1>4, <1>6
    <2>2. \A p \in Int : ~HasIn(s, first, p)
        BY <1>1, <1>6 DEF HasIn
    <2>3. \A p \in Int : ~HasIn(entries', firstPacket', p)
        BY <2>1 DEF HasIn, invalidPacketNumber
    <2>4. Numbered(entries', firstPacket')
        BY <2>1 DEF Numbered, Present
    <2> QED
        BY <1>3, <1>5, <2>1, <2>2, <2>3, <2>4
<1>7. CASE n # Len(s)
    <2>1. /\ entries' # <<>> /\ firstPacket' = first + n
          /\ n \in Nat /\ n < Len(s) /\ s # <<>>
        BY <1>1, <1>2, <1>4, <1>7
    <2>2. firstPacket' \in Nat
        BY <2>1
    <2>3. entries'[1].present
        BY <1>1, <1>3, <2>1
    <2>4. ASSUME NEW p \in Int
          PROVE  /\ HasIn(entries', firstPacket', p) <=> HasIn(s, first, p)
                 /\ HasIn(s, first, p) => entries'[p - firstPacket' + 1] = s[p - first + 1]
        <3>1. CASE p < first + n
            <4>1. ~HasIn(entries', firstPacket', p)
                BY <2>1, <3>1 DEF HasIn
            <4>2. ~HasIn(s, first, p)
                BY <1>1, <2>1, <3>1 DEF HasIn
            <4> QED
                BY <4>1, <4>2
        <3>2. CASE p >= first + n /\ p < first + Len(s)
            <4>1. /\ p - firstPacket' + 1 \in 1..(Len(s) - n)
                  /\ (p - firstPacket' + 1) + n = p - first + 1
                BY <1>1, <2>1, <3>2
            <4>2. entries'[p - firstPacket' + 1] = s[p - first + 1]
                BY <1>3, <4>1
            <4>3. /\ p >= first /\ p - first < Len(s)
                  /\ p >= firstPacket' /\ p - firstPacket' < Len(entries')
                BY <1>1, <1>3, <2>1, <3>2
            <4> QED
                BY <4>2, <4>3 DEF HasIn
        <3>3. CASE p >= first + Len(s)
            <4>1. ~(p - first < Len(s)) /\ ~(p - firstPacket' < Len(entries'))
                BY <1>1, <1>3, <2>1, <3>3
            <4> QED
                BY <4>1 DEF HasIn
        <3> QED
            BY <1>1, <2>1, <3>1, <3>2, <3>3
    <2>5. ASSUME NEW i \in Present(entries')
          PROVE  firstPacket' + i - 1 \in PacketNumbers /\ entries'[i].entry \in Entries
        <3>1. i \in 1..(Len(s) - n) /\ entries'[i].present /\ entries'[i] = s[i + n]
            BY <1>3 DEF Present
        <3>2. i + n \in Present(s)
            BY <1>1, <3>1 DEF Present
        <3>3. first + (i + n) - 1 = firstPacket' + i - 1
            BY <1>1, <2>1, <3>1
        <3> QED
            BY <3>1, <3>2, <3>3 DEF Numbered
    <2>6. Numbered(entries', firstPacket')
        BY <2>5 DEF Numbered
    <2>7. firstPacket' + Len(entries') = first + Len(s)
        BY <1>1, <1>3, <2>1
    <2> QED
        BY <1>3, <1>5, <2>1, <2>2, <2>3, <2>4, <2>6, <2>7
<1> QED
    BY <1>6, <1>7
-----------------------------------------------------------------------------
\* Emplace into an empty queue starts it at the packet number.
LEMMA EmplaceFirst ==
    ASSUME QueueInv, NEW p \in PacketNumbers, NEW e \in Entries,
           Emplace(p, e), entries = <<>>
    PROVE  /\ QueueInv'
           /\ entries' = <<[present |-> TRUE, entry |-> e]>>
           /\ firstPacket' = p
<1>1. /\ entries' = Append(entries, [present |-> TRUE, entry |-> e])
      /\ numberOfPresentEntries' = 1 /\ firstPacket' = p
    BY QueueFacts DEF Emplace
<1>2. entries' = <<[present |-> TRUE, entry |-> e]>>
    BY <1>1
<1>3. [present |-> TRUE, entry |-> e] \in Wrapper
    BY DEF Wrapper
<1>4. entries' \in Seq(Wrapper) /\ Len(entries') = 1 /\ entries' # <<>>
    BY <1>2, <1>3
<1>5. entries'[1].present /\ entries'[1].entry = e
    BY <1>2
<1>6. Present(entries') = {1}
    BY <1>4, <1>5 DEF Present
<1>7. Cardinality(Present(entries')) = 1
    BY <1>6, FS_Singleton
<1>8. p \in Nat /\ p + 1 - 1 = p
    OBVIOUS
<1>9. Numbered(entries', firstPacket')
    BY <1>1, <1>5, <1>6, <1>8 DEF Numbered
<1> QED
    BY <1>1, <1>2, <1>4, <1>5, <1>7, <1>8, <1>9 DEF QueueInv

\* Emplace past the last number fills the gap with absent entries.
LEMMA EmplaceLater ==
    ASSUME QueueInv, NEW p \in PacketNumbers, NEW e \in Entries,
           Emplace(p, e), entries # <<>>, p > LastPacket
    PROVE  /\ QueueInv'
           /\ firstPacket' = firstPacket
           /\ Len(entries') = p - firstPacket + 1
           /\ Len(entries') > Len(entries)
           /\ \A i \in 1..Len(entries) : entries'[i] = entries[i]
           /\ \A i \in (Len(entries) + 1)..(Len(entries') - 1) : ~entries'[i].present
           /\ entries'[Len(entries')] = [present |-> TRUE, entry |-> e]
<1> DEFINE gap == GapBefore(p)
           x   == [present |-> TRUE, entry |-> e]
<1>1. /\ ~IsEmpty /\ LastPacket = firstPacket + Len(entries) - 1
      /\ numberOfPresentEntries \in Nat
    BY QueueFacts
<1>2. entries \in Seq(Wrapper) /\ firstPacket \in Nat /\ Len(entries) \in Nat /\ p \in Nat
    BY DEF QueueInv
<1>3. gap \in Nat /\ gap + Len(entries) = p - firstPacket
    BY <1>1, <1>2 DEF GapBefore
<1>4. ~(p <= LastPacket)
    BY <1>1, <1>2
<1>5. /\ entries' = Append(entries \o Gap(gap), x)
      /\ numberOfPresentEntries' = numberOfPresentEntries + 1
      /\ firstPacket' = firstPacket
    BY <1>1, <1>4 DEF Emplace
<1>6. x \in Wrapper /\ Absent \in Wrapper /\ ~Absent.present /\ x.present /\ x.entry = e
    BY DEF Wrapper, Absent
<1> HIDE DEF gap, x
<1>7. /\ Gap(gap) \in Seq(Wrapper) /\ Len(Gap(gap)) = gap
      /\ \A i \in 1..gap : Gap(gap)[i] = Absent
    BY <1>3, <1>6 DEF Gap
<1>8. /\ entries' \in Seq(Wrapper)
      /\ Len(entries') = Len(entries) + gap + 1
      /\ \A i \in 1..Len(entries) : entries'[i] = entries[i]
      /\ \A i \in (Len(entries) + 1)..(Len(entries) + gap) : entries'[i] = Absent
      /\ entries'[Len(entries) + gap + 1] = x
    <2> DEFINE filled == entries \o Gap(gap)
    <2>1. /\ filled \in Seq(Wrapper) /\ Len(filled) = Len(entries) + gap
          /\ \A i \in 1..Len(entries) : filled[i] = entries[i]
          /\ \A i \in (Len(entries) + 1)..(Len(entries) + gap) : filled[i] = Absent
        BY <1>2, <1>3, <1>7
    <2>2. entries' = Append(filled, x)
        BY <1>5
    <2> HIDE DEF filled
    <2>3. /\ entries' \in Seq(Wrapper) /\ Len(entries') = Len(filled) + 1
          /\ \A i \in 1..Len(filled) : entries'[i] = filled[i]
          /\ entries'[Len(filled) + 1] = x
        BY <1>6, <2>1, <2>2
    <2>4. Len(entries) \in Nat /\ gap \in Nat
        BY <1>2, <1>3
    <2>5. \A i \in 1..Len(entries) : entries'[i] = entries[i]
        <3>1. \A i \in 1..Len(entries) : i \in 1..Len(filled)
            BY <2>1, <2>4
        <3> QED
            BY <2>1, <2>3, <3>1
    <2>6. \A i \in (Len(entries) + 1)..(Len(entries) + gap) : entries'[i] = Absent
        <3>1. \A i \in (Len(entries) + 1)..(Len(entries) + gap) : i \in 1..Len(filled)
            BY <2>1, <2>4
        <3> QED
            BY <2>1, <2>3, <3>1
    <2> QED
        BY <2>1, <2>3, <2>5, <2>6
<1>9. Present(entries') = Present(entries) \cup {Len(entries')}
    <2>1. ASSUME NEW i \in 1..Len(entries')
          PROVE  entries'[i].present <=> i \in Present(entries) \/ i = Len(entries')
        <3>1. CASE i \in 1..Len(entries)
            BY <1>2, <1>3, <1>8, <3>1 DEF Present
        <3>2. CASE i \in (Len(entries) + 1)..(Len(entries) + gap)
            <4>1. i # Len(entries') /\ i \notin 1..Len(entries)
                BY <1>2, <1>3, <1>8, <3>2
            <4> QED
                BY <1>6, <1>8, <3>2, <4>1 DEF Present
        <3>3. CASE i = Len(entries) + gap + 1
            BY <1>6, <1>8, <3>3
        <3>4. /\ i \in Nat /\ i >= 1 /\ i <= Len(entries) + gap + 1
              /\ Len(entries) \in Nat /\ gap \in Nat
            BY <1>2, <1>3, <1>8
        <3> QED
            BY <3>1, <3>2, <3>3, <3>4
    <2>2. Present(entries) \subseteq 1..Len(entries') /\ Len(entries') \in 1..Len(entries')
        BY <1>2, <1>3, <1>8 DEF Present
    <2>3. ASSUME NEW i
          PROVE  i \in Present(entries') <=> i \in Present(entries) \cup {Len(entries')}
        <3>1. i \in Present(entries') <=> i \in 1..Len(entries') /\ entries'[i].present
            BY DEF Present
        <3> QED
            BY <2>1, <2>2, <3>1
    <2> QED
        BY <2>3
<1>10. Cardinality(Present(entries')) = numberOfPresentEntries'
    <2>1. IsFiniteSet(Present(entries)) /\ Len(entries') \notin Present(entries)
        BY <1>2, <1>3, <1>8, PresentFinite DEF Present
    <2>2. Cardinality(Present(entries) \cup {Len(entries')}) = Cardinality(Present(entries)) + 1
        BY <2>1, FS_AddElement
    <2> QED
        BY <1>5, <1>9, <2>2 DEF QueueInv
<1>11. Numbered(entries', firstPacket')
    <2>1. ASSUME NEW i \in Present(entries')
          PROVE  firstPacket' + i - 1 \in PacketNumbers /\ entries'[i].entry \in Entries
        <3>1. CASE i \in Present(entries)
            <4>1. i \in 1..Len(entries)
                BY <3>1 DEF Present
            <4> QED
                BY <1>5, <1>8, <3>1, <4>1 DEF QueueInv, Numbered
        <3>2. CASE i = Len(entries')
            <4>1. firstPacket' + i - 1 = p
                BY <1>2, <1>3, <1>5, <1>8, <3>2
            <4>2. entries'[i].entry = e
                BY <1>6, <1>8, <3>2
            <4> QED
                BY <4>1, <4>2
        <3> QED
            BY <1>9, <3>1, <3>2
    <2> QED
        BY <2>1 DEF Numbered
<1>12. entries' # <<>> /\ entries'[1].present
    <2>1. 1 \in 1..Len(entries) /\ entries[1].present
        BY <1>2 DEF QueueInv
    <2> QED
        BY <1>2, <1>3, <1>8, <2>1
<1>13. QueueInv'
    BY <1>2, <1>5, <1>8, <1>10, <1>11, <1>12 DEF QueueInv
<1>14. Len(entries') = p - firstPacket + 1 /\ Len(entries') > Len(entries)
    <2>1. /\ Len(entries) \in Nat /\ gap \in Nat /\ p \in Nat /\ firstPacket \in Nat
          /\ gap + Len(entries) = p - firstPacket
        BY <1>2, <1>3
    <2>2. Len(entries') = Len(entries) + gap + 1
        BY <1>8
    <2> QED
        BY <2>1, <2>2
<1>15. \A i \in (Len(entries) + 1)..(Len(entries') - 1) : ~entries'[i].present
    BY <1>2, <1>3, <1>6, <1>8
<1> QED
    BY <1>5, <1>8, <1>13, <1>14, <1>15 DEF x
-----------------------------------------------------------------------------
\* The step leaves the numbers of S that were stored, and their entries.
KeepsOnly(S) ==
    /\ \A q \in Int : HasIn(entries', firstPacket', q) <=>
                          HasIn(entries, firstPacket, q) /\ q \in S
    /\ \A q \in Int : HasIn(entries', firstPacket', q) =>
           entries'[q - firstPacket' + 1].entry = entries[q - firstPacket + 1].entry
    /\ entries' # <<>> => firstPacket' + Len(entries') = firstPacket + Len(entries)

\* Remove of a number that is stored takes that number only.
LEMMA RemoveTakesOne ==
    ASSUME QueueInv, NEW p \in PacketNumbers, Remove(p), Has(p)
    PROVE  QueueInv' /\ KeepsOnly(Int \ {p})
<1> DEFINE k == p - firstPacket + 1
           s == [entries EXCEPT ![k].present = FALSE]
<1>1. /\ entries \in Seq(Wrapper) /\ Len(entries) \in Nat /\ p \in Nat
      /\ firstPacket \in Int /\ numberOfPresentEntries \in Nat
    BY QueueFacts DEF QueueInv, invalidPacketNumber
<1>2. HasIn(entries, firstPacket, p)
    BY <1>1, QueueFacts
<1>3. k \in 1..Len(entries) /\ entries[k].present /\ entries # <<>>
    BY <1>1, <1>2 DEF HasIn
<1>4. firstPacket \in Nat
    BY <1>3 DEF QueueInv
<1>5. /\ numberOfPresentEntries' = numberOfPresentEntries - 1
      /\ IF p = firstPacket THEN Clearup(s, firstPacket)
         ELSE entries' = s /\ UNCHANGED firstPacket
    BY DEF Remove, At
<1>6. /\ s \in Seq(Wrapper) /\ Len(s) = Len(entries)
      /\ \A i \in 1..Len(entries) : i # k => s[i] = entries[i]
      /\ \A i \in 1..Len(entries) : s[i].entry = entries[i].entry
      /\ ~s[k].present
    <2>1. entries[k] \in Wrapper
        BY <1>1, <1>3
    <2> DEFINE w == [entries[k] EXCEPT !.present = FALSE]
    <2>2. w \in Wrapper /\ ~w.present /\ w.entry = entries[k].entry
        BY <2>1 DEF Wrapper
    <2>3. s = [entries EXCEPT ![k] = w]
        OBVIOUS
    <2> HIDE DEF w, s, k
    <2>4. /\ s \in Seq(Wrapper) /\ Len(s) = Len(entries)
          /\ \A i \in 1..Len(entries) : i # k => s[i] = entries[i]
          /\ s[k] = w
        BY <1>1, <1>3, <2>2, <2>3
    <2> QED
        BY <2>2, <2>4
<1> HIDE DEF s, k
<1>7. Present(s) = Present(entries) \ {k}
    BY <1>3, <1>6 DEF Present
<1>8. Cardinality(Present(s)) = numberOfPresentEntries'
    <2>1. IsFiniteSet(Present(entries)) /\ k \in Present(entries)
        BY <1>1, <1>3, PresentFinite DEF Present
    <2>2. Cardinality(Present(entries) \ {k}) = Cardinality(Present(entries)) - 1
        BY <2>1, FS_RemoveElement
    <2> QED
        BY <1>5, <1>7, <2>2 DEF QueueInv
<1>9. Numbered(s, firstPacket)
    <2>1. ASSUME NEW i \in Present(s)
          PROVE  firstPacket + i - 1 \in PacketNumbers /\ s[i].entry \in Entries
        <3>1. i \in Present(entries) /\ i \in 1..Len(entries)
            BY <1>7 DEF Present
        <3> QED
            BY <1>6, <3>1 DEF QueueInv, Numbered
    <2> QED
        BY <2>1 DEF Numbered
<1>10. ASSUME NEW q \in Int
       PROVE  /\ HasIn(s, firstPacket, q) <=>
                     HasIn(entries, firstPacket, q) /\ q \in Int \ {p}
              /\ HasIn(s, firstPacket, q) =>
                     s[q - firstPacket + 1].entry = entries[q - firstPacket + 1].entry
    <2>1. CASE q >= firstPacket /\ q - firstPacket < Len(entries)
        <3>1. q - firstPacket + 1 \in 1..Len(entries)
            BY <1>1, <2>1
        <3>2. q = p <=> q - firstPacket + 1 = k
            BY <1>1 DEF k
        <3> QED
            BY <1>6, <2>1, <3>1, <3>2 DEF HasIn
    <2>2. CASE ~(q >= firstPacket /\ q - firstPacket < Len(entries))
        BY <1>6, <2>2 DEF HasIn
    <2> QED
        BY <2>1, <2>2
<1>11. CASE p = firstPacket
    <2>1. Clearup(s, firstPacket)
        BY <1>5, <1>11
    <2>2. /\ entries' \in Seq(Wrapper)
          /\ firstPacket' \in Nat \cup {invalidPacketNumber}
          /\ entries' = <<>> => firstPacket' = invalidPacketNumber
          /\ entries' # <<>> => entries'[1].present /\ firstPacket' \in Nat
          /\ Numbered(entries', firstPacket')
          /\ Cardinality(Present(entries')) = Cardinality(Present(s))
          /\ \A q \in Int : HasIn(entries', firstPacket', q) <=> HasIn(s, firstPacket, q)
          /\ \A q \in Int : HasIn(s, firstPacket, q) =>
                 entries'[q - firstPacket' + 1] = s[q - firstPacket + 1]
          /\ entries' # <<>> => firstPacket' + Len(entries') = firstPacket + Len(s)
        <3>1. firstPacket \in Int /\ (s # <<>> => firstPacket \in Nat)
            BY <1>4
        <3>2. s \in Seq(Wrapper)
            BY <1>6
        <3> QED
            BY <1>9, <2>1, <3>1, <3>2, ClearupFacts
    <2>3. QueueInv'
        BY <1>8, <2>2 DEF QueueInv
    <2>4. KeepsOnly(Int \ {p})
        BY <1>6, <1>10, <2>2 DEF KeepsOnly
    <2> QED
        BY <2>3, <2>4
<1>12. CASE p # firstPacket
    <2>1. entries' = s /\ firstPacket' = firstPacket
        BY <1>5, <1>12
    <2>2. entries' # <<>> /\ entries'[1].present
        <3>1. 1 \in 1..Len(entries) /\ 1 # k
            BY <1>1, <1>3, <1>12 DEF k
        <3> QED
            BY <1>3, <1>6, <2>1, <3>1 DEF QueueInv
    <2>3. QueueInv'
        BY <1>4, <1>6, <1>8, <1>9, <2>1, <2>2 DEF QueueInv
    <2>4. KeepsOnly(Int \ {p})
        BY <1>6, <1>10, <2>1 DEF KeepsOnly
    <2> QED
        BY <2>3, <2>4
<1> QED
    BY <1>11, <1>12

\* RemoveUpTo takes what is below the number, and no more.
LEMMA RemoveUpToTakesBelow ==
    ASSUME QueueInv, NEW p \in PacketNumbers, RemoveUpTo(p)
    PROVE  QueueInv' /\ KeepsOnly({q \in Int : q >= p})
<1> DEFINE n == PoppedBelow(p)
           s == From(entries, n)
           first == firstPacket + n
<1>1. /\ entries \in Seq(Wrapper) /\ Len(entries) \in Nat /\ p \in Nat
      /\ firstPacket \in Int /\ numberOfPresentEntries \in Nat
      /\ entries # <<>> => firstPacket \in Nat
    BY QueueFacts DEF QueueInv, invalidPacketNumber
<1>2. /\ n \in 0..Len(entries)
      /\ n = Len(entries) \/ firstPacket + n >= p
      /\ n = 0 \/ firstPacket + n <= p
    <2>1. CASE entries = <<>>
        BY <1>1, <2>1 DEF PoppedBelow
    <2>2. CASE entries # <<>>
        <3>1. firstPacket # invalidPacketNumber
            BY <1>1, <2>2 DEF invalidPacketNumber
        <3>2. n = IF firstPacket >= p THEN 0
                  ELSE IF p - firstPacket < Len(entries) THEN p - firstPacket
                  ELSE Len(entries)
            BY <2>2, <3>1 DEF PoppedBelow
        <3> HIDE DEF n
        <3> QED
            BY <1>1, <3>2
    <2> QED
        BY <2>1, <2>2
<1>3. /\ numberOfPresentEntries' = numberOfPresentEntries - Cardinality(PresentGone(n))
      /\ Clearup(s, first)
    BY DEF RemoveUpTo
<1> HIDE DEF n
<1>4. /\ s \in Seq(Wrapper) /\ Len(s) = Len(entries) - n
      /\ \A i \in 1..(Len(entries) - n) : s[i] = entries[i + n]
    BY <1>1, <1>2, FromFacts
<1>5. Cardinality(Present(s)) = numberOfPresentEntries'
    BY <1>1, <1>2, <1>3, FromCount DEF QueueInv, PresentGone
<1> HIDE DEF s
<1>6. first \in Int /\ (s # <<>> => first \in Nat)
    <2>1. s # <<>> => entries # <<>>
        BY <1>1, <1>2, <1>4
    <2> QED
        BY <1>1, <1>2, <2>1
<1> HIDE DEF first
<1>7. first = firstPacket + n
    BY DEF first
<1>8. Numbered(s, first)
    <2>1. ASSUME NEW i \in Present(s)
          PROVE  first + i - 1 \in PacketNumbers /\ s[i].entry \in Entries
        <3>1. i \in 1..(Len(entries) - n) /\ s[i].present /\ s[i] = entries[i + n]
            BY <1>4 DEF Present
        <3>2. i + n \in Present(entries)
            BY <1>1, <1>2, <3>1 DEF Present
        <3>3. firstPacket + (i + n) - 1 = first + i - 1
            BY <1>1, <1>2, <1>7, <3>1
        <3> QED
            BY <3>1, <3>2, <3>3 DEF Numbered, QueueInv
    <2> QED
        BY <2>1 DEF Numbered
<1>9. ASSUME NEW q \in Int
      PROVE  /\ HasIn(s, first, q) <=>
                    HasIn(entries, firstPacket, q) /\ q \in {r \in Int : r >= p}
             /\ HasIn(s, first, q) =>
                    s[q - first + 1] = entries[q - firstPacket + 1]
    <2>1. CASE q >= first /\ q - first < Len(s)
        <3>1. /\ q - first + 1 \in 1..(Len(entries) - n)
              /\ (q - first + 1) + n = q - firstPacket + 1
              /\ q >= firstPacket /\ q - firstPacket < Len(entries)
            BY <1>1, <1>2, <1>4, <1>6, <1>7, <2>1
        <3>2. s[q - first + 1] = entries[q - firstPacket + 1]
            BY <1>4, <3>1
        <3>3. q >= p
            BY <1>1, <1>2, <1>4, <1>6, <1>7, <2>1
        <3> QED
            BY <2>1, <3>1, <3>2, <3>3 DEF HasIn
    <2>2. CASE q < first
        <3>1. ~HasIn(s, first, q)
            BY <1>6, <2>2 DEF HasIn
        <3>2. q < firstPacket \/ q < p
            BY <1>1, <1>2, <1>7, <2>2
        <3>3. ~(HasIn(entries, firstPacket, q) /\ q >= p)
            BY <1>1, <3>2 DEF HasIn
        <3> QED
            BY <3>1, <3>3
    <2>3. CASE q - first >= Len(s)
        <3>1. ~HasIn(s, first, q)
            BY <1>4, <1>6, <2>3 DEF HasIn
        <3>2. q - firstPacket >= Len(entries)
            BY <1>1, <1>2, <1>4, <1>6, <1>7, <2>3
        <3>3. ~HasIn(entries, firstPacket, q)
            BY <1>1, <3>2 DEF HasIn
        <3> QED
            BY <3>1, <3>3
    <2>4. Len(s) \in Int
        BY <1>4
    <2> QED
        BY <1>6, <2>1, <2>2, <2>3, <2>4
<1>10. /\ entries' \in Seq(Wrapper)
       /\ firstPacket' \in Nat \cup {invalidPacketNumber}
       /\ entries' = <<>> => firstPacket' = invalidPacketNumber
       /\ entries' # <<>> => entries'[1].present /\ firstPacket' \in Nat
       /\ Numbered(entries', firstPacket')
       /\ Cardinality(Present(entries')) = Cardinality(Present(s))
       /\ \A q \in Int : HasIn(entries', firstPacket', q) <=> HasIn(s, first, q)
       /\ \A q \in Int : HasIn(s, first, q) =>
              entries'[q - firstPacket' + 1] = s[q - first + 1]
       /\ entries' # <<>> => firstPacket' + Len(entries') = first + Len(s)
    BY <1>3, <1>4, <1>6, <1>8, ClearupFacts
<1>11. QueueInv'
    BY <1>5, <1>10 DEF QueueInv
<1>12. first + Len(s) = firstPacket + Len(entries)
    BY <1>1, <1>2, <1>4, <1>7
<1>13. KeepsOnly({q \in Int : q >= p})
    BY <1>9, <1>10, <1>12 DEF KeepsOnly
<1> QED
    BY <1>11, <1>13
-----------------------------------------------------------------------------
\* The queue starts with the invariant.
LEMMA InitQueue == Init => QueueInv
<1> SUFFICES ASSUME Init PROVE QueueInv
    OBVIOUS
<1>1. entries = <<>> /\ firstPacket = invalidPacketNumber /\ numberOfPresentEntries = 0
    BY DEF Init
<1>2. Present(entries) = {}
    BY <1>1 DEF Present
<1>3. Cardinality(Present(entries)) = 0
    BY <1>2, FS_EmptySet
<1>4. Numbered(entries, firstPacket)
    BY <1>2 DEF Numbered
<1>5. entries \in Seq(Wrapper)
    BY <1>1
<1> QED
    BY <1>1, <1>3, <1>4, <1>5 DEF QueueInv

\* A call that is refused, or finds nothing, changes nothing.
LEMMA UnchangedQueue == ASSUME QueueInv, UNCHANGED queue PROVE QueueInv'
BY DEF queue, QueueInv, Numbered, Present

\* Every operation preserves the invariant.
LEMMA NextQueue == QueueInv /\ [Next]_vars => QueueInv'
<1> SUFFICES ASSUME QueueInv, [Next]_vars
             PROVE  QueueInv'
    OBVIOUS
<1>1. CASE UNCHANGED vars
    BY <1>1, UnchangedQueue DEF vars
<1>2. ASSUME NEW p \in PacketNumbers, NEW e \in Entries, Emplace(p, e)
      PROVE  QueueInv'
    <2>1. CASE entries = <<>>
        BY <1>2, <2>1, EmplaceFirst
    <2>2. CASE entries # <<>> /\ p > LastPacket
        BY <1>2, <2>2, EmplaceLater
    <2>3. CASE entries # <<>> /\ ~(p > LastPacket)
        <3>1. LastPacket \in Int /\ p \in Int
            BY <2>3, QueueFacts DEF QueueInv
        <3>2. UNCHANGED queue
            <4>1. ~IsEmpty /\ p <= LastPacket
                BY <2>3, <3>1, QueueFacts
            <4> QED
                BY <1>2, <4>1 DEF Emplace
        <3> QED
            BY <3>2, UnchangedQueue
    <2> QED
        BY <2>1, <2>2, <2>3
<1>3. ASSUME NEW p \in PacketNumbers, Remove(p)
      PROVE  QueueInv'
    <2>1. CASE Has(p)
        BY <1>3, <2>1, RemoveTakesOne
    <2>2. CASE ~Has(p)
        BY <1>3, <2>2, UnchangedQueue DEF Remove
    <2> QED
        BY <2>1, <2>2
<1>4. ASSUME NEW p \in PacketNumbers, RemoveUpTo(p)
      PROVE  QueueInv'
    BY <1>4, RemoveUpToTakesBelow
<1> QED
    BY <1>1, <1>2, <1>3, <1>4 DEF Next

\* So the invariant always holds.
THEOREM QueueInvariant == Spec => []QueueInv
BY InitQueue, NextQueue, PTL DEF Spec

\* The deque starts at a present entry and the counter is the number of present
\* entries, after any insertions with gaps, removals in any order and
\* RemoveUpTo (packet_number_indexed_queue.go:67-165).
THEOREM FrontIsPresent == Spec => []FrontPresent
<1>1. QueueInv => FrontPresent
    <2> SUFFICES ASSUME QueueInv PROVE FrontPresent
        OBVIOUS
    <2>1. entries \in Seq(Wrapper)
        BY DEF QueueInv
    <2>2. Present(entries) = {i \in DOMAIN entries : entries[i].present}
        BY <2>1 DEF Present
    <2>3. IF entries = <<>> THEN firstPacket = invalidPacketNumber
          ELSE entries[1].present /\ firstPacket # invalidPacketNumber
        BY DEF QueueInv, invalidPacketNumber
    <2> QED
        BY <2>2, <2>3 DEF FrontPresent, QueueInv
<1> QED
    BY <1>1, QueueInvariant, PTL

\* What a call can be and return.
CallOK ==
    call \in [op : {"new", "Emplace", "Remove", "RemoveUpTo"},
              p : PacketNumbers \cup {invalidPacketNumber},
              es : SUBSET Entries, ok : BOOLEAN]

\* Every call returns entries that callers stored.
LEMMA NextCall == QueueInv /\ CallOK /\ [Next]_vars => CallOK'
<1> SUFFICES ASSUME QueueInv, CallOK, [Next]_vars
             PROVE  CallOK'
    OBVIOUS
<1>1. CASE UNCHANGED vars
    BY <1>1 DEF vars, CallOK
<1>2. ASSUME NEW p \in PacketNumbers, NEW e \in Entries, Emplace(p, e)
      PROVE  CallOK'
    <2>1. \E b \in BOOLEAN : call' = [op |-> "Emplace", p |-> p, es |-> {e}, ok |-> b]
        BY <1>2 DEF Emplace, Returns
    <2> QED
        BY <2>1 DEF CallOK
<1>3. ASSUME NEW p \in PacketNumbers, Remove(p)
      PROVE  CallOK'
    <2>1. CASE Has(p)
        <3>1. p \in Int
            OBVIOUS
        <3>2. HasIn(entries, firstPacket, p)
            BY <2>1, <3>1, QueueFacts
        <3>3. /\ entries \in Seq(Wrapper) /\ Len(entries) \in Nat
              /\ firstPacket \in Int
            BY DEF QueueInv, invalidPacketNumber
        <3>4. At(p) \in Present(entries)
            BY <3>1, <3>2, <3>3 DEF HasIn, Present, At
        <3>5. entries[At(p)].entry \in Entries
            BY <3>4 DEF QueueInv, Numbered
        <3>6. call' = [op |-> "Remove", p |-> p, es |-> {entries[At(p)].entry}, ok |-> TRUE]
            BY <1>3, <2>1 DEF Remove, Returns
        <3> QED
            BY <3>5, <3>6 DEF CallOK
    <2>2. CASE ~Has(p)
        <3>1. call' = [op |-> "Remove", p |-> p, es |-> {}, ok |-> FALSE]
            BY <1>3, <2>2 DEF Remove, Returns
        <3> QED
            BY <3>1 DEF CallOK
    <2> QED
        BY <2>1, <2>2
<1>4. ASSUME NEW p \in PacketNumbers, RemoveUpTo(p)
      PROVE  CallOK'
    BY <1>4 DEF RemoveUpTo, Returns, CallOK
<1> QED
    BY <1>1, <1>2, <1>3, <1>4 DEF Next

\* The counter never goes below zero, and nothing but what callers stored is
\* handed back.
THEOREM QueueTypes == Spec => []TypeOK
<1>1. Init => CallOK
    BY DEF Init, CallOK
<1>2. QueueInv /\ CallOK => TypeOK
    <2> SUFFICES ASSUME QueueInv, CallOK PROVE TypeOK
        OBVIOUS
    <2>1. numberOfPresentEntries \in Nat
        BY QueueFacts
    <2>2. entries \in Seq(Wrapper) /\ firstPacket \in Nat \cup {invalidPacketNumber}
        BY DEF QueueInv
    <2> QED
        BY <2>1, <2>2 DEF TypeOK, CallOK
<1> QED
    BY <1>1, <1>2, NextCall, QueueInvariant, PTL DEF Spec
-----------------------------------------------------------------------------
\* The numbers stored and the map from them, as the refinement reads them.
StoredNumbers == {p \in PacketNumbers : HasIn(entries, firstPacket, p)}
StoredMap == [p \in StoredNumbers |-> entries[p - firstPacket + 1].entry]

\* They are the abstract map, which is empty when the queue is.
MapFacts ==
    /\ [p \in {p \in PacketNumbers : Has(p)} |-> entries[At(p)].entry] = StoredMap
    /\ M!Stored = StoredNumbers
    /\ StoredNumbers = {} <=> entries = <<>>
    /\ IF entries = <<>> THEN LastPacket = invalidPacketNumber
       ELSE LastPacket = firstPacket + Len(entries) - 1

\* What the invariant says of them.
LEMMA QueueIsMap == QueueInv => MapFacts
<1> SUFFICES ASSUME QueueInv PROVE MapFacts
    OBVIOUS
<1>1. \A p \in PacketNumbers : Has(p) <=> HasIn(entries, firstPacket, p)
    BY QueueFacts
<1>2. {p \in PacketNumbers : Has(p)} = StoredNumbers
    BY <1>1 DEF StoredNumbers
<1>3. [p \in {p \in PacketNumbers : Has(p)} |-> entries[At(p)].entry] = StoredMap
    BY <1>2, Zenon DEF StoredMap, At
<1>4. M!Stored = StoredNumbers
    BY <1>2 DEF M!Stored
<1>5. StoredNumbers = {} <=> entries = <<>>
    <2>1. ASSUME entries = <<>> PROVE StoredNumbers = {}
        <3>1. Len(entries) = 0 /\ firstPacket = -1
            BY <2>1 DEF QueueInv, invalidPacketNumber
        <3>2. \A p \in Nat : ~HasIn(entries, firstPacket, p)
            BY <3>1 DEF HasIn
        <3> QED
            BY <3>2 DEF StoredNumbers
    <2>2. ASSUME entries # <<>> PROVE StoredNumbers # {}
        <3>1. /\ entries \in Seq(Wrapper) /\ firstPacket \in Nat
              /\ entries[1].present /\ 1 \in 1..Len(entries) /\ Len(entries) \in Nat
            BY <2>2 DEF QueueInv
        <3>2. 1 \in Present(entries)
            BY <3>1 DEF Present
        <3>3. firstPacket + 1 - 1 \in PacketNumbers
            BY <3>2 DEF QueueInv, Numbered
        <3>4. firstPacket \in PacketNumbers /\ HasIn(entries, firstPacket, firstPacket)
            BY <3>1, <3>3 DEF HasIn
        <3> QED
            BY <3>4 DEF StoredNumbers
    <2> QED
        BY <2>1, <2>2
<1>6. IF entries = <<>> THEN LastPacket = invalidPacketNumber
      ELSE LastPacket = firstPacket + Len(entries) - 1
    BY QueueFacts
<1> QED
    BY <1>3, <1>4, <1>5, <1>6 DEF MapFacts

\* The same after a step.
LEMMA QueueIsMapNext == QueueInv' => MapFacts'
BY QueueIsMap, PTL

\* A step that keeps some of the numbers is a step of the map that does.
LEMMA KeepsIsKeep ==
    ASSUME QueueInv, QueueInv', NEW S, KeepsOnly(S)
    PROVE  M!Keep({q \in StoredNumbers : q \in S})
<1> DEFINE T == {q \in StoredNumbers : q \in S}
<1>1. PacketNumbers \subseteq Int
    OBVIOUS
<1>2. StoredNumbers' = T
    BY <1>1 DEF StoredNumbers, KeepsOnly
<1>3. StoredMap' = [q \in T |-> StoredMap[q]]
    <2>1. \A q \in T : q \in StoredNumbers /\ StoredMap[q] = entries[q - firstPacket + 1].entry
        BY DEF StoredMap
    <2>2. \A q \in T : entries'[q - firstPacket' + 1].entry = entries[q - firstPacket + 1].entry
        BY <1>1, <1>2 DEF StoredNumbers, KeepsOnly
    <2>3. StoredMap' = [q \in T |-> entries'[q - firstPacket' + 1].entry]
        BY <1>2 DEF StoredMap
    <2> QED
        BY <2>1, <2>2, <2>3
<1>4. LastPacket' = IF T = {} THEN -1 ELSE LastPacket
    <2>1. T = {} <=> entries' = <<>>
        BY <1>2, QueueIsMapNext DEF MapFacts
    <2>2. CASE entries' = <<>>
        BY <2>1, <2>2, QueueIsMapNext DEF MapFacts, invalidPacketNumber
    <2>3. CASE entries' # <<>>
        <3>1. entries # <<>>
            BY <2>1, <2>3, QueueIsMap DEF MapFacts
        <3>2. /\ LastPacket = firstPacket + Len(entries) - 1
              /\ LastPacket' = firstPacket' + Len(entries') - 1
            BY <2>3, <3>1, QueueIsMap, QueueIsMapNext DEF MapFacts
        <3>3. firstPacket' + Len(entries') = firstPacket + Len(entries)
            BY <2>3 DEF KeepsOnly
        <3>4. LastPacket' = LastPacket
            <4>1. /\ firstPacket \in Nat /\ Len(entries) \in Nat
                  /\ firstPacket' \in Nat /\ Len(entries') \in Nat
                BY <2>3, <3>1 DEF QueueInv
            <4> QED
                BY <3>2, <3>3, <4>1
        <3>5. T # {}
            BY <2>1, <2>3
        <3> HIDE DEF T
        <3> QED
            BY <3>4, <3>5
    <2> QED
        BY <2>2, <2>3
<1> HIDE DEF T
<1>5. M!Keep(T)
    BY <1>3, <1>4, QueueIsMap, QueueIsMapNext DEF M!Keep, MapFacts
<1> QED
    BY <1>5 DEF T

\* A step that changes nothing keeps everything.
LEMMA NothingIsKeep ==
    ASSUME QueueInv, QueueInv', UNCHANGED queue
    PROVE  /\ StoredMap' = StoredMap /\ LastPacket' = LastPacket
           /\ M!Keep(StoredNumbers)
<1>1. StoredMap' = StoredMap /\ LastPacket' = LastPacket /\ StoredNumbers' = StoredNumbers
    BY DEF queue, StoredMap, StoredNumbers, HasIn, LastPacket, IsEmpty
<1>2. StoredMap = [q \in StoredNumbers |-> StoredMap[q]]
    BY DEF StoredMap
<1>3. LastPacket = IF StoredNumbers = {} THEN -1 ELSE LastPacket
    BY QueueIsMap DEF MapFacts, invalidPacketNumber
<1>4. M!Keep(StoredNumbers)
    BY <1>1, <1>2, <1>3, QueueIsMap, QueueIsMapNext DEF M!Keep, MapFacts
<1> QED
    BY <1>1, <1>4

\* Every call of the queue is the call of the map that it names.
LEMMA StepIsMap ==
    ASSUME QueueInv, QueueInv', [Next]_vars
    PROVE  [M!MNext]_(M!mvars)
<1> USE QueueIsMap, QueueIsMapNext
<1>1. CASE UNCHANGED vars
    <2>1. UNCHANGED queue /\ call' = call
        BY <1>1 DEF vars
    <2>2. StoredMap' = StoredMap /\ LastPacket' = LastPacket
        BY <2>1, NothingIsKeep
    <2>3. M!mvars' = M!mvars
        BY <2>1, <2>2 DEF M!mvars, MapFacts
    <2> QED
        BY <2>3
<1>2. ASSUME NEW p \in PacketNumbers, NEW e \in Entries, Emplace(p, e)
      PROVE  M!Add(p, e)
    <2>1. CASE entries = <<>>
        <3>1. /\ entries' = <<[present |-> TRUE, entry |-> e]>> /\ firstPacket' = p
              /\ p \in Nat
            BY <1>2, <2>1, EmplaceFirst
        <3>2. \A q \in PacketNumbers : HasIn(entries', firstPacket', q) <=> q = p
            BY <3>1 DEF HasIn
        <3>3. StoredNumbers' = {p} /\ StoredNumbers = {}
            BY <2>1, <3>2 DEF StoredNumbers, MapFacts
        <3>4. entries'[p - firstPacket' + 1].entry = e
            BY <3>1
        <3>5. StoredMap' = [q \in StoredNumbers \cup {p} |-> IF q = p THEN e ELSE StoredMap[q]]
            <4>1. StoredMap' = [q \in {p} |-> entries'[q - firstPacket' + 1].entry]
                BY <3>3 DEF StoredMap
            <4> QED
                BY <3>3, <3>4, <4>1
        <3>6. LastPacket' = p
            <4>1. entries' # <<>> /\ Len(entries') = 1
                BY <3>1
            <4> QED
                BY <3>1, <4>1 DEF MapFacts
        <3>7. call' = M!Returned("Emplace", p, {e}, TRUE)
            BY <1>2, <2>1, QueueFacts DEF Emplace, Returns, M!Returned
        <3> QED
            BY <3>3, <3>5, <3>6, <3>7 DEF M!Add, MapFacts
    <2>2. CASE entries # <<>> /\ p > LastPacket
        <3>1. /\ firstPacket' = firstPacket
              /\ Len(entries') = p - firstPacket + 1
              /\ Len(entries') > Len(entries)
              /\ \A i \in 1..Len(entries) : entries'[i] = entries[i]
              /\ \A i \in (Len(entries) + 1)..(Len(entries') - 1) : ~entries'[i].present
              /\ entries'[Len(entries')] = [present |-> TRUE, entry |-> e]
            BY <1>2, <2>2, EmplaceLater
        <3>2. firstPacket \in Nat /\ Len(entries) \in Nat /\ p \in Nat /\ entries' # <<>>
            BY <2>2, <3>1 DEF QueueInv
        <3>3. ASSUME NEW q \in PacketNumbers
              PROVE  /\ HasIn(entries', firstPacket', q) <=>
                            HasIn(entries, firstPacket, q) \/ q = p
                     /\ q = p => entries'[q - firstPacket' + 1].entry = e
                     /\ HasIn(entries, firstPacket, q) => q # p /\
                            entries'[q - firstPacket' + 1].entry = entries[q - firstPacket + 1].entry
            <4> DEFINE i == q - firstPacket + 1
            <4>1. q \in Nat
                OBVIOUS
            <4>2. CASE q < firstPacket
                BY <3>1, <3>2, <4>1, <4>2 DEF HasIn
            <4>3. CASE q >= firstPacket /\ i \in 1..Len(entries)
                <5>1. q # p /\ q - firstPacket < Len(entries) /\ q - firstPacket < Len(entries')
                    BY <3>1, <3>2, <4>1, <4>3
                <5>2. entries'[q - firstPacket' + 1] = entries[q - firstPacket + 1]
                    BY <3>1, <4>3
                <5> QED
                    BY <3>1, <4>3, <5>1, <5>2 DEF HasIn
            <4>4. CASE i \in (Len(entries) + 1)..(Len(entries') - 1)
                BY <3>1, <3>2, <4>1, <4>4 DEF HasIn
            <4>5. CASE i = Len(entries')
                BY <3>1, <3>2, <4>1, <4>5 DEF HasIn
            <4>6. CASE i > Len(entries')
                BY <3>1, <3>2, <4>1, <4>6 DEF HasIn
            <4>7. i \in Int /\ Len(entries') \in Nat
                BY <3>1, <3>2, <4>1
            <4>8. q < firstPacket <=> i < 1
                BY <3>2, <4>1
            <4> HIDE DEF i
            <4> QED
                BY <3>1, <3>2, <4>1, <4>2, <4>3, <4>4, <4>5, <4>6, <4>7, <4>8
        <3>4. StoredNumbers' = StoredNumbers \cup {p}
            BY <3>3 DEF StoredNumbers
        <3>5. StoredMap' = [q \in StoredNumbers \cup {p} |-> IF q = p THEN e ELSE StoredMap[q]]
            <4>1. StoredMap' = [q \in StoredNumbers \cup {p} |-> entries'[q - firstPacket' + 1].entry]
                BY <3>4 DEF StoredMap
            <4>2. \A q \in StoredNumbers : /\ q # p
                                           /\ StoredMap[q] = entries'[q - firstPacket' + 1].entry
                BY <3>3 DEF StoredNumbers, StoredMap
            <4>3. entries'[p - firstPacket' + 1].entry = e
                BY <3>3
            <4> QED
                BY <4>1, <4>2, <4>3
        <3>6. LastPacket' = p
            BY <3>1, <3>2 DEF MapFacts
        <3>7. call' = M!Returned("Emplace", p, {e}, TRUE)
            <4>1. ~IsEmpty /\ ~(p <= LastPacket)
                BY <2>2, <3>2, QueueFacts
            <4> QED
                BY <1>2, <4>1 DEF Emplace, Returns, M!Returned
        <3> QED
            BY <2>2, <3>5, <3>6, <3>7 DEF M!Add, MapFacts
    <2>3. CASE entries # <<>> /\ ~(p > LastPacket)
        <3>1. ~IsEmpty /\ p <= LastPacket
            <4>1. LastPacket \in Int /\ p \in Int
                BY <2>3, QueueFacts DEF QueueInv
            <4> QED
                BY <2>3, <4>1, QueueFacts
        <3>2. UNCHANGED queue /\ call' = M!Returned("Emplace", p, {e}, FALSE)
            BY <1>2, <3>1 DEF Emplace, Returns, M!Returned
        <3>3. StoredMap' = StoredMap /\ LastPacket' = LastPacket /\ StoredNumbers # {}
            BY <2>3, <3>2, NothingIsKeep DEF MapFacts
        <3> QED
            BY <2>3, <3>2, <3>3 DEF M!Add, MapFacts
    <2> QED
        BY <2>1, <2>2, <2>3
<1>3. ASSUME NEW p \in PacketNumbers, Remove(p)
      PROVE  M!Drop(p)
    <2>1. CASE Has(p)
        <3>1. M!Keep({q \in StoredNumbers : q \in Int \ {p}})
            BY <1>3, <2>1, RemoveTakesOne, KeepsIsKeep
        <3>2. {q \in StoredNumbers : q \in Int \ {p}} = StoredNumbers \ {p}
            BY DEF StoredNumbers
        <3>3. p \in StoredNumbers
            BY <2>1, QueueFacts DEF StoredNumbers
        <3>4. {StoredMap[q] : q \in StoredNumbers \cap {p}} = {entries[At(p)].entry}
            BY <3>3 DEF StoredMap, At
        <3>5. call' = M!Returned("Remove", p, {entries[At(p)].entry}, TRUE)
            BY <1>3, <2>1 DEF Remove, Returns, M!Returned
        <3>6. {[r \in {r \in PacketNumbers : Has(r)} |-> entries[At(r)].entry][q] :
                    q \in M!Stored \cap {p}} = {entries[At(p)].entry}
            BY <3>4, Zenon DEF MapFacts
        <3>7. (p \in M!Stored) = TRUE
            BY <3>3 DEF MapFacts
        <3>8. M!Keep(M!Stored \ {p})
            BY <3>1, <3>2, Zenon DEF MapFacts
        <3> QED
            BY <3>5, <3>6, <3>7, <3>8, Zenon DEF M!Drop
    <2>2. CASE ~Has(p)
        <3>1. UNCHANGED queue /\ call' = M!Returned("Remove", p, {}, FALSE)
            BY <1>3, <2>2 DEF Remove, Returns, M!Returned
        <3>2. M!Keep(StoredNumbers)
            BY <3>1, NothingIsKeep
        <3>3. p \notin StoredNumbers
            BY <2>2, QueueFacts DEF StoredNumbers
        <3>4. StoredNumbers \ {p} = StoredNumbers
            BY <3>3
        <3>5. {StoredMap[q] : q \in StoredNumbers \cap {p}} = {}
            BY <3>3
        <3>6. {[r \in {r \in PacketNumbers : Has(r)} |-> entries[At(r)].entry][q] :
                    q \in M!Stored \cap {p}} = {}
            BY <3>5, Zenon DEF MapFacts
        <3>7. (p \in M!Stored) = FALSE
            BY <3>3 DEF MapFacts
        <3>8. M!Keep(M!Stored \ {p})
            BY <3>2, <3>4, Zenon DEF MapFacts
        <3> QED
            BY <3>1, <3>6, <3>7, <3>8, Zenon DEF M!Drop
    <2> QED
        BY <2>1, <2>2
<1>4. ASSUME NEW p \in PacketNumbers, RemoveUpTo(p)
      PROVE  M!DropBelow(p)
    <2>1. M!Keep({q \in StoredNumbers : q \in {r \in Int : r >= p}})
        BY <1>4, RemoveUpToTakesBelow, KeepsIsKeep
    <2>2. {q \in StoredNumbers : q \in {r \in Int : r >= p}} = {q \in StoredNumbers : q >= p}
        BY DEF StoredNumbers
    <2>3. call' = M!Returned("RemoveUpTo", p, {}, TRUE)
        BY <1>4 DEF RemoveUpTo, Returns, M!Returned
    <2> QED
        BY <2>1, <2>2, <2>3 DEF M!DropBelow, MapFacts
<1> QED
    BY <1>1, <1>2, <1>3, <1>4 DEF Next, M!MNext

\* Whatever the order of insertions and removals, the queue is the map of
\* PacketMap, for every set of packet numbers: nothing stored is lost, nothing
\* removed is found again, and every call returns what the map says.
THEOREM QueueImplementsMap == Spec => ImplementsPacketMap
<1>1. Init => M!MInit
    <2> SUFFICES ASSUME Init PROVE M!MInit
        OBVIOUS
    <2>1. M!Stored = {} /\ LastPacket = -1
        BY InitQueue, QueueIsMap DEF MapFacts, Init, invalidPacketNumber
    <2>2. call = M!Returned("new", -1, {}, TRUE)
        BY DEF Init, M!Returned, invalidPacketNumber
    <2> QED
        BY <2>1, <2>2 DEF M!MInit
<1>2. QueueInv /\ QueueInv' /\ [Next]_vars => [M!MNext]_(M!mvars)
    BY StepIsMap
<1> QED
    BY <1>1, <1>2, QueueInvariant, PTL DEF Spec, ImplementsPacketMap, M!MSpec
=============================================================================
