--------------------------- MODULE RingBufferProofs ---------------------------
(***************************************************************************)
(* RingBuffer is a queue for every initial size and every number of        *)
(* elements.                                                               *)
(***************************************************************************)
EXTENDS RingBuffer, TLAPS

USE RingAssumption

\* The initial state has the right types.
LEMMA InitType == Init => TypeOK
<1> SUFFICES ASSUME Init PROVE TypeOK
    OBVIOUS
<1>1. ring \in [0..(size - 1) -> Values \cup {Zero}]
    BY DEF Init
<1>2. size \in Nat /\ headPos = 0 /\ tailPos = 0 /\ full = FALSE
    BY DEF Init
<1> QED
    BY <1>1, <1>2 DEF TypeOK

\* Facts about a buffer of the right type: how long it may be, that a ring
\* that is not full has a free slot at its tail, and where the slots are.
LEMMA Shape ==
    ASSUME TypeOK
    PROVE  /\ Length \in Nat /\ Length <= size
           /\ ~full /\ size > 0 => Length < size
           /\ Empty <=> Length = 0
           /\ \A i \in Nat : i < Length => Slot(headPos, size, i) \in 0..(size - 1)
           /\ ~full => \A i \in Nat : i < Length => Slot(headPos, size, i) # tailPos
BY DEF TypeOK, Length, Empty, Slot

\* grow lays the elements of a full ring out from position zero.
LEMMA GrownShape ==
    ASSUME TypeOK, full \/ size = 0
    PROVE  /\ Grown \in [0..((IF size = 0 THEN 1 ELSE 2 * size) - 1)
                            -> Values \cup {Zero}]
           /\ \A i \in 0..(size - 1) : Grown[i] = ring[Slot(headPos, size, i)]
BY DEF TypeOK, Grown, Slot

\* Every operation preserves the types.
LEMMA NextType == TypeOK /\ [Next]_vars => TypeOK'
<1> SUFFICES ASSUME TypeOK, [Next]_vars
             PROVE  TypeOK'
    OBVIOUS
<1>1. ASSUME NEW v \in Values, PushBack(v)
      PROVE  TypeOK'
    <2>1. CASE full \/ size = 0
        <3> DEFINE len == IF size = 0 THEN 1 ELSE 2 * size
        <3>1. /\ Grown \in [0..(len - 1) -> Values \cup {Zero}]
              /\ size \in Nat /\ len \in Nat /\ size < len
            BY <2>1, GrownShape DEF TypeOK
        <3> HIDE DEF len
        <3>2. /\ ring' = [Grown EXCEPT ![size] = v]
              /\ size' = len /\ headPos' = 0
              /\ tailPos' = (IF size + 1 = len THEN 0 ELSE size + 1)
              /\ full' = (tailPos' = 0)
            BY <1>1, <2>1 DEF PushBack, PushInto, Advance, len
        <3>3. ring' \in [0..(size' - 1) -> Values \cup {Zero}]
            BY <3>1, <3>2
        <3>4. full' \in BOOLEAN /\ (full' => tailPos' = 0)
            BY <3>2, Zenon
        <3> QED
            BY <3>1, <3>2, <3>3, <3>4 DEF TypeOK
    <2>2. CASE ~(full \/ size = 0)
        BY <1>1, <2>2 DEF PushBack, PushInto, Advance, TypeOK
    <2> QED
        BY <2>1, <2>2
<1>2. CASE PopFront
    <2>1. size > 0 /\ headPos < size
        BY <1>2 DEF PopFront, Empty, TypeOK
    <2>2. ring' \in [0..(size' - 1) -> Values \cup {Zero}]
        BY <1>2, <2>1 DEF PopFront, TypeOK, ClearSlot
    <2>3. full' = FALSE /\ size' = size /\ tailPos' = tailPos
        BY <1>2 DEF PopFront
    <2>4. headPos' \in Nat /\ headPos' < size
        BY <1>2, <2>1 DEF PopFront, Advance, TypeOK
    <2> QED
        BY <2>1, <2>2, <2>3, <2>4 DEF TypeOK
<1>3. CASE Clear
    <2>1. ring' \in [0..(size' - 1) -> Values \cup {Zero}]
        BY <1>3 DEF Clear
    <2>2. size' \in Nat /\ headPos' = 0 /\ tailPos' = 0 /\ full' = FALSE
        BY <1>3 DEF Clear, TypeOK
    <2> QED
        BY <2>1, <2>2 DEF TypeOK
<1>4. CASE UNCHANGED vars
    BY <1>4 DEF vars, TypeOK
<1> QED
    BY <1>1, <1>2, <1>3, <1>4 DEF Next

\* The positions stay inside the ring through every wrap and growth.
THEOREM RingTypeCorrect == Spec => []TypeOK
BY InitType, NextType, PTL DEF Spec
-----------------------------------------------------------------------------
\* Sequences from their elements.
LEMMA IsAppend ==
    ASSUME NEW S, NEW s \in Seq(S), NEW t \in Seq(S), NEW e \in S,
           Len(t) = Len(s) + 1, t[Len(s) + 1] = e,
           \A i \in 1..Len(s) : t[i] = s[i]
    PROVE  t = Append(s, e)
OBVIOUS

\* The same for the sequence without its first element.
LEMMA IsTail ==
    ASSUME NEW S, NEW s \in Seq(S), NEW t \in Seq(S), s # <<>>,
           Len(t) = Len(s) - 1, \A i \in 1..Len(t) : t[i] = s[i + 1]
    PROVE  t = Tail(s)
OBVIOUS

\* The elements of a buffer of the right type are a sequence.
ContentsFacts ==
    /\ Length \in Nat
    /\ Contents \in Seq(Values \cup {Zero})
    /\ Len(Contents) = Length
    /\ \A i \in 1..Length : Contents[i] = ring[Slot(headPos, size, i - 1)]
    /\ Empty => Contents = <<>>

\* What the types say of them.
LEMMA ContentsType == TypeOK => ContentsFacts
<1> SUFFICES ASSUME TypeOK PROVE ContentsFacts
    OBVIOUS
<1>1. /\ Length \in Nat
      /\ \A i \in 1..Length : Slot(headPos, size, i - 1) \in 0..(size - 1)
      /\ Empty <=> Length = 0
    BY Shape
<1>2. \A i \in 1..Length : ring[Slot(headPos, size, i - 1)] \in Values \cup {Zero}
    BY <1>1 DEF TypeOK
<1>3. /\ Contents \in Seq(Values \cup {Zero}) /\ Len(Contents) = Length
      /\ \A i \in 1..Length : Contents[i] = ring[Slot(headPos, size, i - 1)]
    BY <1>1, <1>2 DEF Contents
<1> QED
    BY <1>1, <1>3 DEF ContentsFacts

\* The same after a step.
LEMMA ContentsTypeNext == TypeOK' => ContentsFacts'
BY ContentsType, PTL

\* PushBack appends.
LEMMA PushAppends ==
    ASSUME TypeOK, TypeOK', NEW v \in Values, PushBack(v)
    PROVE  Contents' = Append(Contents, v)
<1>1. /\ Length' = Length + 1
      /\ \A i \in Nat : i < Length =>
             ring'[Slot(headPos', size', i)] = ring[Slot(headPos, size, i)]
      /\ ring'[Slot(headPos', size', Length)] = v
    <2>1. CASE full \/ size = 0
        <3> DEFINE len == IF size = 0 THEN 1 ELSE 2 * size
        <3>1. /\ size \in Nat /\ len \in Nat /\ size < len
              /\ Length = size
            BY <2>1 DEF TypeOK, Length
        <3>2. /\ Grown \in [0..(len - 1) -> Values \cup {Zero}]
              /\ \A i \in 0..(size - 1) : Grown[i] = ring[Slot(headPos, size, i)]
            BY <2>1, GrownShape
        <3> HIDE DEF len
        <3>3. /\ ring' = [Grown EXCEPT ![size] = v]
              /\ size' = len /\ headPos' = 0
              /\ tailPos' = (IF size + 1 = len THEN 0 ELSE size + 1)
              /\ full' <=> tailPos' = 0
            BY <2>1 DEF PushBack, PushInto, Advance, len
        <3>4. \A i \in Nat : i <= size => Slot(headPos', size', i) = i
            BY <3>1, <3>3 DEF Slot
        <3>5. Length' = size + 1
            <4>1. full' <=> size + 1 = len
                BY <3>1, <3>3
            <4> QED
                BY <3>1, <3>3, <4>1 DEF Length
        <3> QED
            BY <3>1, <3>2, <3>3, <3>4, <3>5
    <2>2. CASE ~(full \/ size = 0)
        <3>1. /\ ring' = [ring EXCEPT ![tailPos] = v]
              /\ size' = size /\ headPos' = headPos
              /\ tailPos' = (IF tailPos + 1 = size THEN 0 ELSE tailPos + 1)
              /\ full' = (tailPos' = headPos)
            BY <2>2 DEF PushBack, PushInto, Advance
        <3>2. \A i \in Nat : Slot(headPos', size', i) = Slot(headPos, size, i)
            BY <3>1 DEF Slot
        <3>3. Slot(headPos, size, Length) = tailPos
            BY <2>2 DEF TypeOK, Length, Slot
        <3>4. Length' = Length + 1
            <4>1. full' <=> tailPos' = headPos
                BY <3>1
            <4> QED
                BY <2>2, <3>1, <4>1 DEF TypeOK, Length
        <3>5. /\ Length \in Nat /\ tailPos \in 0..(size - 1)
              /\ ring \in [0..(size - 1) -> Values \cup {Zero}]
              /\ \A i \in Nat : i < Length =>
                     /\ Slot(headPos, size, i) \in 0..(size - 1)
                     /\ Slot(headPos, size, i) # tailPos
            BY <2>2, Shape DEF TypeOK
        <3> QED
            BY <3>1, <3>2, <3>3, <3>4, <3>5
    <2> QED
        BY <2>1, <2>2
<1>2. Length \in Nat /\ Len(Contents) = Length /\ Len(Contents') = Length + 1
    BY <1>1, ContentsType, ContentsTypeNext DEF ContentsFacts
<1>3. \A i \in 1..Length : Contents'[i] = Contents[i]
    BY <1>1, <1>2, ContentsType, ContentsTypeNext DEF ContentsFacts
<1>4. Contents'[Length + 1] = v
    BY <1>1, <1>2, ContentsTypeNext DEF ContentsFacts
<1>5. Contents \in Seq(Values \cup {Zero}) /\ Contents' \in Seq(Values \cup {Zero})
    BY ContentsType, ContentsTypeNext DEF ContentsFacts
<1> QED
    BY <1>2, <1>3, <1>4, <1>5, IsAppend

\* PopFront takes the first element.
LEMMA PopTakesFirst ==
    ASSUME TypeOK, TypeOK', PopFront
    PROVE  Contents # <<>> /\ Contents' = Tail(Contents)
<1>1. /\ size \in Nat /\ size > 0 /\ headPos \in 0..(size - 1)
      /\ tailPos \in 0..(size - 1)
      /\ ring \in [0..(size - 1) -> Values \cup {Zero}]
    BY DEF PopFront, Empty, TypeOK
<1>2. /\ ring' = [ring EXCEPT ![headPos] = Zero]
      /\ size' = size /\ tailPos' = tailPos /\ full' = FALSE
      /\ headPos' = (IF headPos + 1 = size THEN 0 ELSE headPos + 1)
    BY DEF PopFront, ClearSlot, Advance
<1>3. Length \in Nat /\ Length > 0 /\ Length <= size
    BY Shape DEF PopFront
<1>4. Length' = Length - 1
    BY <1>1, <1>2 DEF Length, PopFront, Empty, TypeOK
<1>5. \A i \in Nat : i < Length - 1 =>
          ring'[Slot(headPos', size', i)] = ring[Slot(headPos, size, i + 1)]
    <2> SUFFICES ASSUME NEW i \in Nat, i < Length - 1
                 PROVE  ring'[Slot(headPos', size', i)] = ring[Slot(headPos, size, i + 1)]
        OBVIOUS
    <2>1. /\ Slot(headPos', size', i) = Slot(headPos, size, i + 1)
          /\ Slot(headPos, size, i + 1) \in 0..(size - 1)
          /\ Slot(headPos, size, i + 1) # headPos
        BY <1>1, <1>2, <1>3 DEF Slot
    <2> QED
        BY <1>1, <1>2, <2>1
<1>6. /\ Contents \in Seq(Values \cup {Zero}) /\ Contents' \in Seq(Values \cup {Zero})
      /\ Len(Contents) = Length /\ Len(Contents') = Length - 1
      /\ Contents # <<>>
    BY <1>3, <1>4, ContentsType, ContentsTypeNext DEF ContentsFacts
<1>7. \A i \in 1..(Length - 1) : Contents'[i] = Contents[i + 1]
    <2> SUFFICES ASSUME NEW i \in 1..(Length - 1)
                 PROVE  Contents'[i] = Contents[i + 1]
        OBVIOUS
    <2>1. i - 1 \in Nat /\ i - 1 < Length - 1 /\ (i - 1) + 1 = i /\ (i + 1) - 1 = i
        BY <1>3
    <2>2. Contents'[i] = ring'[Slot(headPos', size', i - 1)]
        BY <1>3, <1>4, ContentsTypeNext DEF ContentsFacts
    <2>3. Contents[i + 1] = ring[Slot(headPos, size, i)]
        BY <1>3, <2>1, ContentsType DEF ContentsFacts
    <2> QED
        BY <1>5, <2>1, <2>2, <2>3
<1> QED
    BY <1>6, <1>7, IsTail

\* Every operation is the operation of the queue that it names.
LEMMA StepIsFifo ==
    ASSUME TypeOK, TypeOK', [Next]_vars
    PROVE  [F!FNext]_Contents
<1>1. ASSUME NEW v \in Values, PushBack(v)
      PROVE  F!FNext
    BY <1>1, PushAppends DEF F!FNext, F!Push
<1>2. CASE PopFront
    BY <1>2, PopTakesFirst DEF F!FNext, F!Pop
<1>3. CASE Clear
    <2>1. Length' = 0
        BY <1>3 DEF Clear, Length
    <2>2. Contents' = <<>>
        BY <2>1, ContentsTypeNext DEF ContentsFacts
    <2> QED
        BY <2>2 DEF F!FNext, F!Drop
<1>4. CASE UNCHANGED vars
    BY <1>4 DEF vars, Contents, Length, Slot
<1> QED
    BY <1>1, <1>2, <1>3, <1>4 DEF Next

\* The ring buffer is a first-in first-out queue for every initial size,
\* through every wrap (ringbuffer.go:40, ringbuffer.go:59) and every growth
\* (ringbuffer.go:99-109).
THEOREM RingIsFifo == Spec => ImplementsFifo
<1>1. Init => F!FInit
    <2> SUFFICES ASSUME Init PROVE Contents = <<>>
        BY DEF F!FInit
    <2>1. TypeOK /\ Empty
        BY InitType DEF Init, Empty
    <2> QED
        BY <2>1, ContentsType DEF ContentsFacts
<1>2. TypeOK /\ TypeOK' /\ [Next]_vars => [F!FNext]_Contents
    BY StepIsFifo
<1> QED
    BY <1>1, <1>2, RingTypeCorrect, PTL DEF Spec, ImplementsFifo, F!FSpec
-----------------------------------------------------------------------------
\* The remainder that Offset takes, for a position and an index that are both
\* below the size: it goes round the ring at most once.
LEMMA RoundOnce ==
    ASSUME NEW a \in Nat, NEW n \in Nat, n > 0, a < 2 * n
    PROVE  a % n = IF a < n THEN a ELSE a - n
OBVIOUS

\* An index below the length is found in the slot its element was pushed to,
\* because the length never exceeds the ring.
LEMMA OffsetIsSlot == TypeOK => OffsetFinds
<1> SUFFICES ASSUME TypeOK, NEW k \in 0..(Length - 1)
             PROVE  ring[Offset(k)] = Contents[k + 1]
    BY DEF OffsetFinds
<1>1. /\ Length \in Nat /\ Length <= size /\ size \in Nat
      /\ headPos \in Nat /\ (headPos < size \/ headPos = 0)
    BY Shape DEF TypeOK
<1>2. /\ k \in Nat /\ k < size /\ size > 0
      /\ headPos + k \in Nat /\ headPos + k < 2 * size
    BY <1>1
<1>3. Offset(k) = Slot(headPos, size, k)
    <2> DEFINE sum == headPos + k
    <2>1. sum \in Nat /\ sum < 2 * size
        BY <1>2
    <2> HIDE DEF sum
    <2>2. sum % size = IF sum < size THEN sum ELSE sum - size
        BY <1>1, <1>2, <2>1, RoundOnce
    <2> QED
        BY <1>1, <1>2, <2>2 DEF Offset, Slot, sum
<1>4. k + 1 \in 1..Length /\ (k + 1) - 1 = k
    BY <1>1, <1>2
<1>5. Contents[k + 1] = ring[Slot(headPos, size, (k + 1) - 1)]
    BY <1>4, ContentsType DEF ContentsFacts
<1> QED
    BY <1>3, <1>4, <1>5

\* Offset finds the element of every k in every reachable buffer
\* (ringbuffer.go:65-73).
THEOREM OffsetIsRight == Spec => []OffsetFinds
BY RingTypeCorrect, OffsetIsSlot, PTL

\* No operation leaves a value in a slot it frees.
LEMMA NextRetainsNothing ==
    ASSUME TypeOK, TypeOK', NothingRetained, [Next]_vars
    PROVE  NothingRetained'
<1>1. ASSUME NEW v \in Values, PushBack(v)
      PROVE  NothingRetained'
    <2>1. CASE full \/ size = 0
        <3> DEFINE len == IF size = 0 THEN 1 ELSE 2 * size
        <3>1. /\ size \in Nat /\ len \in Nat /\ size < len
              /\ Length = size
            BY <2>1 DEF TypeOK, Length
        <3>2. /\ Grown \in [0..(len - 1) -> Values \cup {Zero}]
              /\ \A i \in 0..(len - 1) : i >= size => Grown[i] = Zero
            BY <2>1, GrownShape DEF Grown, TypeOK
        <3>3. /\ ring' = [Grown EXCEPT ![size] = v]
              /\ size' = len /\ headPos' = 0
              /\ tailPos' = (IF size + 1 = len THEN 0 ELSE size + 1)
              /\ full' <=> tailPos' = 0
            BY <1>1, <2>1 DEF PushBack, PushInto, Advance, len
        <3> HIDE DEF len
        <3>4. Length' = size + 1
            <4>1. full' <=> size + 1 = len
                BY <3>1, <3>3
            <4> QED
                BY <3>1, <3>3, <4>1 DEF Length
        <3>5. \A i \in 0..(Length' - 1) : Slot(headPos', size', i) = i
            BY <3>1, <3>3, <3>4 DEF Slot
        <3> SUFFICES ASSUME NEW pos \in 0..(size' - 1),
                            \A i \in 0..(Length' - 1) : Slot(headPos', size', i) # pos
                     PROVE  ring'[pos] = Zero
            BY DEF NothingRetained
        <3>6. pos \in 0..(len - 1) /\ pos > size
            BY <3>1, <3>3, <3>4, <3>5
        <3> QED
            BY <3>1, <3>2, <3>3, <3>6
    <2>2. CASE ~(full \/ size = 0)
        <3>1. /\ ring' = [ring EXCEPT ![tailPos] = v]
              /\ size' = size /\ headPos' = headPos
              /\ tailPos' = (IF tailPos + 1 = size THEN 0 ELSE tailPos + 1)
              /\ full' = (tailPos' = headPos)
            BY <1>1, <2>2 DEF PushBack, PushInto, Advance
        <3>2. \A i \in Nat : Slot(headPos', size', i) = Slot(headPos, size, i)
            BY <3>1 DEF Slot
        <3>3. Slot(headPos, size, Length) = tailPos
            BY <2>2 DEF TypeOK, Length, Slot
        <3>4. Length' = Length + 1
            <4>1. full' <=> tailPos' = headPos
                BY <3>1
            <4> QED
                BY <2>2, <3>1, <4>1 DEF TypeOK, Length
        <3>5. /\ Length \in Nat /\ tailPos \in 0..(size - 1)
              /\ ring \in [0..(size - 1) -> Values \cup {Zero}]
            BY <2>2, Shape DEF TypeOK
        <3> SUFFICES ASSUME NEW pos \in 0..(size' - 1),
                            \A i \in 0..(Length' - 1) : Slot(headPos', size', i) # pos
                     PROVE  ring'[pos] = Zero
            BY DEF NothingRetained
        <3>6. pos # tailPos /\ \A i \in 0..(Length - 1) : Slot(headPos, size, i) # pos
            BY <3>2, <3>3, <3>4, <3>5
        <3>7. ring[pos] = Zero
            BY <3>1, <3>6 DEF NothingRetained
        <3> QED
            BY <3>1, <3>5, <3>6, <3>7
    <2> QED
        BY <2>1, <2>2
<1>2. CASE PopFront
    <2>1. /\ size \in Nat /\ size > 0 /\ headPos \in 0..(size - 1)
          /\ tailPos \in 0..(size - 1)
          /\ ring \in [0..(size - 1) -> Values \cup {Zero}]
        BY <1>2 DEF PopFront, Empty, TypeOK
    <2>2. /\ ring' = [ring EXCEPT ![headPos] = Zero]
          /\ size' = size /\ tailPos' = tailPos /\ full' = FALSE
          /\ headPos' = (IF headPos + 1 = size THEN 0 ELSE headPos + 1)
        BY <1>2 DEF PopFront, ClearSlot, Advance
    <2>3. Length \in Nat /\ Length > 0 /\ Length <= size
        BY <1>2, Shape DEF PopFront
    <2>4. Length' = Length - 1
        BY <1>2, <2>1, <2>2 DEF Length, PopFront, Empty, TypeOK
    <2>5. \A i \in 0..(Length - 1) :
              \/ i = 0 /\ Slot(headPos, size, i) = headPos
              \/ i - 1 \in 0..(Length' - 1)
                 /\ Slot(headPos, size, i) = Slot(headPos', size', i - 1)
        BY <2>1, <2>2, <2>3, <2>4 DEF Slot
    <2> SUFFICES ASSUME NEW pos \in 0..(size' - 1),
                        \A i \in 0..(Length' - 1) : Slot(headPos', size', i) # pos
                 PROVE  ring'[pos] = Zero
        BY DEF NothingRetained
    <2>6. CASE pos = headPos
        BY <2>1, <2>2, <2>6
    <2>7. CASE pos # headPos
        <3>1. \A i \in 0..(Length - 1) : Slot(headPos, size, i) # pos
            BY <2>5, <2>7
        <3>2. ring[pos] = Zero
            BY <2>2, <3>1 DEF NothingRetained
        <3> QED
            BY <2>1, <2>2, <2>7, <3>2
    <2> QED
        BY <2>6, <2>7
<1>3. CASE Clear
    BY <1>3 DEF Clear, NothingRetained
<1>4. CASE UNCHANGED vars
    BY <1>4 DEF vars, NothingRetained, Length, Slot
<1> QED
    BY <1>1, <1>2, <1>3, <1>4 DEF Next

\* Slots that hold no element are zero, through every wrap, growth and clear
\* (ringbuffer.go:57, ringbuffer.go:114): the buffer keeps nothing alive that
\* was popped.
THEOREM RetainsNothing == Spec => []NothingRetained
<1>1. Init => NothingRetained
    BY DEF Init, NothingRetained
<1>2. TypeOK /\ TypeOK' /\ NothingRetained /\ [Next]_vars => NothingRetained'
    BY NextRetainsNothing
<1> QED
    BY <1>1, <1>2, RingTypeCorrect, PTL DEF Spec
=============================================================================
