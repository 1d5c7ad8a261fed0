----------------------------- MODULE BoundedQueue -----------------------------
(***************************************************************************)
(* What a FIFO (fifo.c) promises its two sides: a block of bytes enters it  *)
(* whole or not at all, and the bytes leave it in the order they came, each *)
(* once.                                                                    *)
(***************************************************************************)
EXTENDS Integers, Sequences

CONSTANTS Size, Values, Lengths

VARIABLES
    queue,      \* the bytes that are stored
    accepted,   \* the last block that was put
    delivered   \* the last block that was got

queueVars == <<queue, accepted, delivered>>

Blocks == UNION {[1 .. n -> Values] : n \in Lengths}

QueueInit ==
    /\ queue = <<>>
    /\ accepted = <<>>
    /\ delivered = <<>>

Accept(d) ==
    /\ Len(queue) + Len(d) <= Size
    /\ queue' = queue \o d
    /\ accepted' = d
    /\ UNCHANGED delivered

Deliver(n) ==
    /\ n <= Len(queue)
    /\ delivered' = SubSeq(queue, 1, n)
    /\ queue' = SubSeq(queue, n + 1, Len(queue))
    /\ UNCHANGED accepted

QueueNext ==
    \/ \E d \in Blocks : Accept(d)
    \/ \E n \in Lengths : Deliver(n)

QueueSpec == QueueInit /\ [][QueueNext]_queueVars
=============================================================================
