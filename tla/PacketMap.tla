------------------------------ MODULE PacketMap ------------------------------
(***************************************************************************)
(* A map from packet numbers to entries that is filled in ascending order: *)
(* what packetNumberIndexedQueue promises the bandwidth sampler.           *)
(***************************************************************************)
EXTENDS Integers

CONSTANTS PacketNumbers, Entries

VARIABLES packets,  \* a function on the packet numbers that are stored
          last,     \* the number stored last, -1 when nothing is stored
          call      \* the last call, [op, p, es, ok]: es are the entries the
                    \* caller passed in or was handed, ok the result

mvars == <<packets, last, call>>

Stored == DOMAIN packets

Returned(op, p, es, ok) == [op |-> op, p |-> p, es |-> es, ok |-> ok]

MInit == Stored = {} /\ last = -1 /\ call = Returned("new", -1, {}, TRUE)

\* A number that is not past the last one is refused.
Add(p, e) ==
    LET ok == Stored = {} \/ p > last
    IN  /\ IF ok
           THEN /\ packets' = [q \in Stored \cup {p} |-> IF q = p THEN e ELSE packets[q]]
                /\ last' = p
           ELSE UNCHANGED <<packets, last>>
        /\ call' = Returned("Emplace", p, {e}, ok)

Keep(S) ==
    /\ packets' = [q \in S |-> packets[q]]
    /\ last' = IF S = {} THEN -1 ELSE last

Drop(p) ==
    /\ Keep(Stored \ {p})
    /\ call' = Returned("Remove", p, {packets[q] : q \in Stored \cap {p}}, p \in Stored)

DropBelow(p) ==
    /\ Keep({q \in Stored : q >= p})
    /\ call' = Returned("RemoveUpTo", p, {}, TRUE)

MNext ==
    \E p \in PacketNumbers :
        \/ \E e \in Entries : Add(p, e)
        \/ Drop(p)
        \/ DropBelow(p)

MSpec == MInit /\ [][MNext]_mvars
=============================================================================
