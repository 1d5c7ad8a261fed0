------------------------------- MODULE PosDeques -------------------------------
(***************************************************************************)
(* What the position stores promise to the behaviours that own them         *)
(* (include/pos_store.h): each owner has at most one store, a double-ended  *)
(* queue of positions of limited size, that only operations on this store   *)
(* change.                                                                  *)
(***************************************************************************)
EXTENDS Integers, Sequences

CONSTANTS
    Owners,      \* the behaviours that own stores
    Positions,   \* the positions that are stored
    Sizes,       \* the sizes that a store may have
    Indices      \* the numbers, from the end, that pos_store_top() is asked for

VARIABLES
    items,   \* the positions of each owner's store, first to last
    size,    \* the size of each owner's store, 0 if there is none
    result   \* what the last operation returned

dequeVars == <<items, size, result>>

OK == "ok"
Failed == "failed"

DequeInit == /\ items = [o \in Owners |-> <<>>]
             /\ size = [o \in Owners |-> 0]
             /\ result = OK

-----------------------------------------------------------------------------
Drop(o) == /\ items' = [items EXCEPT ![o] = <<>>]
           /\ size' = [size EXCEPT ![o] = 0]

Fail == result' = Failed /\ UNCHANGED <<items, size>>

Change(o, seq, value) == /\ items' = [items EXCEPT ![o] = seq]
                         /\ result' = value
                         /\ UNCHANGED size

(* A new store is empty.  If there is no room for it the owner has none, *)
(* not even the one it had before.                                       *)
Create(o, n) ==
    \/ /\ items' = [items EXCEPT ![o] = <<>>]
       /\ size' = [size EXCEPT ![o] = n]
       /\ result' = OK
    \/ Drop(o) /\ result' = Failed

Release(o) == Drop(o) /\ result' = OK

ReleaseAll == /\ items' = [o \in Owners |-> <<>>]
              /\ size' = [o \in Owners |-> 0]
              /\ result' = OK

Clear(o) == Change(o, <<>>, OK)

Insert(o, pos) ==
    IF Len(items[o]) < size[o] THEN Change(o, <<pos>> \o items[o], OK) ELSE Fail

Push(o, pos) ==
    IF Len(items[o]) < size[o] THEN Change(o, Append(items[o], pos), OK) ELSE Fail

Pop(o) ==
    IF items[o] = <<>> THEN Fail
    ELSE Change(o, SubSeq(items[o], 1, Len(items[o]) - 1), items[o][Len(items[o])])

Dequeue(o) ==
    IF items[o] = <<>> THEN Fail ELSE Change(o, Tail(items[o]), Head(items[o]))

(* The n-th position from the end; 1 is the last. *)
Top(o, n) == /\ result' = IF n <= Len(items[o]) THEN items[o][Len(items[o]) + 1 - n] ELSE Failed
             /\ UNCHANGED <<items, size>>

DequeNext ==
    \/ \E o \in Owners, n \in Sizes : Create(o, n)
    \/ \E o \in Owners : Release(o)
    \/ ReleaseAll
    \/ \E o \in Owners : Clear(o) \/ Pop(o) \/ Dequeue(o)
    \/ \E o \in Owners, pos \in Positions : Insert(o, pos) \/ Push(o, pos)
    \/ \E o \in Owners, n \in Indices : Top(o, n)
    \/ Fail

DequeSpec == DequeInit /\ [][DequeNext]_dequeVars
=============================================================================
