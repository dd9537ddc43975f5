------------------------------ MODULE RingBuffer ------------------------------
(***************************************************************************)
(* The growing ring buffer under the packet number queue of BBR            *)
(* (internal/congestion/bbr/ringbuffer.go).                                *)
(***************************************************************************)
EXTENDS Integers, Sequences

CONSTANTS Values,         \* what callers push
          Zero,           \* the zero value of the element type
          MaxInitialSize, \* Init is called with a size in 0..MaxInitialSize
          MaxLen          \* bound: elements held at a time

ASSUME RingAssumption ==
    /\ Zero \notin Values
    /\ MaxInitialSize \in Nat
    /\ MaxLen \in Nat

VARIABLES size,             \* len(r.ring)
          ring,             \* [0..size-1 -> Values \cup {Zero}]
          headPos, tailPos,
          full

vars == <<size, ring, headPos, tailPos, full>>

Init ==
    /\ size \in 0..MaxInitialSize
    /\ ring = [i \in 0..(size - 1) |-> Zero]
    /\ headPos = 0
    /\ tailPos = 0
    /\ full = FALSE

Length == IF full THEN size
          ELSE IF tailPos >= headPos THEN tailPos - headPos
          ELSE tailPos - headPos + size

Empty == ~full /\ headPos = tailPos

\* Faulty variant: the position leaves the ring before it goes round.
AdvanceLate(pos, len) == IF pos = len THEN 0 ELSE pos + 1

\* The next position, round the end of the ring.
Advance(pos, len) == IF pos + 1 = len THEN 0 ELSE pos + 1

\* Faulty variant: the ring is copied as it lies, not from headPos on.
GrownUnrotated ==
    [i \in 0..((IF size = 0 THEN 1 ELSE 2 * size) - 1) |->
        IF i < size THEN ring[i] ELSE Zero]

\* grow: the part from headPos on is copied first, then the part before it.
Grown ==
    LET headLen == size - headPos
    IN  [i \in 0..((IF size = 0 THEN 1 ELSE 2 * size) - 1) |->
            IF i < headLen THEN ring[headPos + i]
            ELSE IF i < size THEN ring[i - headLen]
            ELSE Zero]

\* PushBack into a ring that has room.
PushInto(r, len, head, tail, v) ==
    /\ ring' = [r EXCEPT ![tail] = v]
    /\ size' = len
    /\ headPos' = head
    /\ tailPos' = Advance(tail, len)
    /\ full' = (tailPos' = head)

PushBack(v) ==
    /\ Length < MaxLen
    /\ IF full \/ size = 0
       THEN PushInto(Grown, IF size = 0 THEN 1 ELSE 2 * size, 0, size, v)
       ELSE PushInto(ring, size, headPos, tailPos, v)

\* Faulty variant: the popped slot keeps its value.
KeepSlot(pos) == ring

\* r.ring[r.headPos] = *new(T)
ClearSlot(pos) == [ring EXCEPT ![pos] = Zero]

\* PopFront panics on an empty buffer; its callers test Empty first.
PopFront ==
    /\ ~Empty
    /\ full' = FALSE
    /\ ring' = ClearSlot(headPos)
    /\ headPos' = Advance(headPos, size)
    /\ UNCHANGED <<size, tailPos>>

Clear ==
    /\ ring' = [i \in 0..(size - 1) |-> Zero]
    /\ headPos' = 0 /\ tailPos' = 0 /\ full' = FALSE
    /\ UNCHANGED size

\* Faulty variant: counts from the start of the ring.
OffsetFromStart(index) == index % size

\* Offset: the slot of an element, for an index below the length.
Offset(index) == (headPos + index) % size

Next == (\E v \in Values : PushBack(v)) \/ PopFront \/ Clear

Spec == Init /\ [][Next]_vars
-----------------------------------------------------------------------------
\* Type invariant: positions are inside the ring, and a full buffer is one
\* whose positions have met.
TypeOK ==
    /\ size \in Nat
    /\ ring \in [0..(size - 1) -> Values \cup {Zero}]
    /\ headPos \in Nat /\ (headPos < size \/ headPos = 0)
    /\ tailPos \in Nat /\ (tailPos < size \/ tailPos = 0)
    /\ full \in BOOLEAN
    /\ full => headPos = tailPos /\ size > 0

\* The slot of the element at an index of a ring of len slots that starts at
\* head, without a division.
Slot(head, len, index) == IF head + index < len THEN head + index
                          ELSE head + index - len

\* The elements in the order they were pushed.
Contents == [i \in 1..Length |-> ring[Slot(headPos, size, i - 1)]]

F == INSTANCE Fifo WITH items <- Contents

\* Whatever the initial size, and however often the buffer wraps and grows, it
\* is a first-in first-out queue.
ImplementsFifo == F!FSpec

\* Offset, Front and Back find the elements where PushBack left them.
OffsetFinds ==
    \A index \in 0..(Length - 1) : ring[Offset(index)] = Contents[index + 1]

\* Slots that hold no element are zero: nothing popped or cleared is kept
\* alive by the buffer (ringbuffer.go:57, ringbuffer.go:114).
NothingRetained ==
    \A pos \in 0..(size - 1) :
        (\A index \in 0..(Length - 1) : Slot(headPos, size, index) # pos) => ring[pos] = Zero
=============================================================================
