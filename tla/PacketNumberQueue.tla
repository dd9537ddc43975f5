-------------------------- MODULE PacketNumberQueue --------------------------
(***************************************************************************)
(* packetNumberIndexedQueue of the BBR bandwidth sampler                   *)
(* (internal/congestion/bbr/packet_number_indexed_queue.go).  The ring     *)
(* buffer below it is the sequence that RingBuffer shows it to be.         *)
(***************************************************************************)
EXTENDS Integers, Sequences, FiniteSets

CONSTANTS PacketNumbers,  \* the packet numbers callers use
          Entries,        \* what they store
          NoEntry         \* the zero value of the entry type

ASSUME QueueAssumption == PacketNumbers \subseteq Nat /\ NoEntry \notin Entries

VARIABLES entries,                \* Seq([present, entry])
          numberOfPresentEntries,
          firstPacket,
          call                    \* history: the last call and what it returned

queue == <<entries, numberOfPresentEntries, firstPacket>>

vars == <<queue, call>>

invalidPacketNumber == -1

Wrapper == [present : BOOLEAN, entry : Entries \cup {NoEntry}]

Absent == [present |-> FALSE, entry |-> NoEntry]

Init ==
    /\ entries = <<>>
    /\ numberOfPresentEntries = 0
    /\ firstPacket = invalidPacketNumber
    /\ call = [op |-> "new", p |-> invalidPacketNumber, es |-> {}, ok |-> TRUE]

IsEmpty == numberOfPresentEntries = 0

LastPacket == IF IsEmpty THEN invalidPacketNumber ELSE firstPacket + Len(entries) - 1

Returns(op, p, es, ok) == call' = [op |-> op, p |-> p, es |-> es, ok |-> ok]

\* Position of a packet number in entries.
At(p) == p - firstPacket + 1

\* getEntryWraper finds p.
Has(p) ==
    /\ ~IsEmpty
    /\ p >= firstPacket
    /\ p - firstPacket < Len(entries)
    /\ entries[At(p)].present

\* The slots Emplace fills for numbers it skips.
Gap(n) == [i \in 1..n |-> Absent]

\* Faulty variant: one slot too few is filled.
ShortGapBefore(p) == p - firstPacket - Len(entries) - 1

GapBefore(p) == p - firstPacket - Len(entries)

Emplace(p, e) ==
    IF IsEmpty
    THEN /\ entries' = Append(entries, [present |-> TRUE, entry |-> e])
         /\ numberOfPresentEntries' = 1
         /\ firstPacket' = p
         /\ Returns("Emplace", p, {e}, TRUE)
    ELSE IF p <= LastPacket
    THEN UNCHANGED queue /\ Returns("Emplace", p, {e}, FALSE)
    ELSE /\ entries' = Append(entries \o Gap(GapBefore(p)),
                              [present |-> TRUE, entry |-> e])
         /\ numberOfPresentEntries' = numberOfPresentEntries + 1
         /\ UNCHANGED firstPacket
         /\ Returns("Emplace", p, {e}, TRUE)

\* Faulty variant: absent entries at the front are left.
NoLeading(s) == 0

\* The number of entries clearup pops: those before the first present one.
Leading(s) ==
    CHOOSE n \in 0..Len(s) : /\ \A i \in 1..n : ~s[i].present
                             /\ n < Len(s) => s[n + 1].present

From(s, n) == SubSeq(s, n + 1, Len(s))

\* clearup, on entries s that start at packet number first.
Clearup(s, first) ==
    /\ entries' = From(s, Leading(s))
    /\ firstPacket' = IF entries' = <<>> THEN invalidPacketNumber
                      ELSE first + Leading(s)

\* Returns the entry through the caller's f.
Remove(p) ==
    IF Has(p)
    THEN LET s == [entries EXCEPT ![At(p)].present = FALSE]
         IN  /\ numberOfPresentEntries' = numberOfPresentEntries - 1
             /\ IF p = firstPacket THEN Clearup(s, firstPacket)
                ELSE entries' = s /\ UNCHANGED firstPacket
             /\ Returns("Remove", p, {entries[At(p)].entry}, TRUE)
    ELSE UNCHANGED queue /\ Returns("Remove", p, {}, FALSE)

\* The entries the loop of RemoveUpTo pops.
PoppedBelow(p) ==
    IF entries = <<>> \/ firstPacket = invalidPacketNumber \/ firstPacket >= p THEN 0
    ELSE IF p - firstPacket < Len(entries) THEN p - firstPacket ELSE Len(entries)

\* Faulty variant: absent entries are counted down too.
AllGone(n) == 1..n

\* Those of the first n entries that are present.
PresentGone(n) == {i \in 1..n : entries[i].present}

RemoveUpTo(p) ==
    LET n == PoppedBelow(p)
    IN  /\ numberOfPresentEntries' = numberOfPresentEntries - Cardinality(PresentGone(n))
        /\ Clearup(From(entries, n), firstPacket + n)
        /\ Returns("RemoveUpTo", p, {}, TRUE)

Next ==
    \E p \in PacketNumbers :
        \/ \E e \in Entries : Emplace(p, e)
        \/ Remove(p)
        \/ RemoveUpTo(p)

Spec == Init /\ [][Next]_vars
-----------------------------------------------------------------------------
\* Type invariant.
TypeOK ==
    /\ entries \in Seq(Wrapper)
    /\ numberOfPresentEntries \in Nat
    /\ firstPacket \in Nat \cup {invalidPacketNumber}
    /\ call \in [op : {"new", "Emplace", "Remove", "RemoveUpTo"},
                p : PacketNumbers \cup {invalidPacketNumber},
                es : SUBSET Entries, ok : BOOLEAN]

\* The deque starts at a present entry and the counter counts the present
\* entries; so when the last present entry goes, the queue is back in its
\* initial state, and IsEmpty, which looks at the counter only, is right.
FrontPresent ==
    /\ numberOfPresentEntries = Cardinality({i \in DOMAIN entries : entries[i].present})
    /\ IF entries = <<>> THEN firstPacket = invalidPacketNumber
       ELSE entries[1].present /\ firstPacket # invalidPacketNumber

M == INSTANCE PacketMap WITH
         packets <- [p \in {p \in PacketNumbers : Has(p)} |-> entries[At(p)].entry],
         last    <- LastPacket

\* Whatever the order of removals, the queue is the map of PacketMap: nothing
\* that was not removed is lost, nothing removed is found again, only a number
\* past the last one is accepted, and every call returns what the map says.
ImplementsPacketMap == M!MSpec
=============================================================================
