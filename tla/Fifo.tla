--------------------------------- MODULE Fifo ---------------------------------
(***************************************************************************)
(* A first-in first-out queue: what RingBuffer promises its callers.       *)
(***************************************************************************)
EXTENDS Sequences

CONSTANT Values

VARIABLE items

FInit == items = <<>>

Push(v) == items' = Append(items, v)

Pop == items # <<>> /\ items' = Tail(items)

Drop == items' = <<>>

FNext == (\E v \in Values : Push(v)) \/ Pop \/ Drop

FSpec == FInit /\ [][FNext]_items
=============================================================================
