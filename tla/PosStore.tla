-------------------------------- MODULE PosStore --------------------------------
(***************************************************************************)
(* The position stores (pos_store.c): SLOT_COUNT slots, each a ring buffer  *)
(* with a stack pointer sp and a FIFO pointer fp, both uint8_t and masked   *)
(* with the size - 1.  A behaviour creates a store of its own, others reach *)
(* it by its index in the array (bot_push_actpos, bot_drive_stack_x).       *)
(***************************************************************************)
EXTENDS Integers, Sequences, TLC

CONSTANTS
    Owners,      \* the behaviours that own stores
    NoOwner,     \* NULL in the field owner
    Positions,   \* the positions that are stored
    Junk,        \* what memory holds before it is written
    NoData,      \* NULL in the field data
    SLOT_COUNT,
    Sizes,       \* the sizes that are asked for
    Indices      \* the numbers, from the end, that pos_store_top() is asked for

ASSUME StoreAssumption ==
    /\ NoOwner \notin Owners
    /\ Junk \notin Positions
    /\ \A n \in Sizes : NoData \notin [0 .. n - 1 -> Positions \cup {Junk}]
    /\ SLOT_COUNT \in 1 .. 255
    /\ Sizes \subseteq {1, 2, 4, 8, 16, 32, 64}
    /\ Indices \subseteq 1 .. 255

VARIABLES pos_stores, result

storeVars == <<pos_stores, result>>

OK == "ok"
Failed == "failed"

Slots == 0 .. SLOT_COUNT - 1

-----------------------------------------------------------------------------
(* uint8_t pointers, masked: x may be -1 (from 0) up to the size. *)
Wrap(mask, x) == (x % 256) % (mask + 1)

is_empty(s) == pos_stores[s].count = 0

is_full(s) == \/ pos_stores[s].data = NoData
              \/ pos_stores[s].count > pos_stores[s].mask

(* The slots that pos_store_from_beh() may find. *)
SlotsOf(t, o) == {s \in Slots : t[s].owner = o}

FirstFree(t) == {s \in SlotsOf(t, NoOwner) : \A r \in SlotsOf(t, NoOwner) : s <= r}

Released(st) == [st EXCEPT !.owner = NoOwner,
                           !.data = IF st.stat_data THEN @ ELSE NoData]

Cleared(st) == [st EXCEPT !.sp = 0, !.fp = 0, !.count = 0]

Created(st, o, n, static) ==
    Cleared([st EXCEPT !.owner = o, !.mask = n - 1, !.stat_data = static,
                       !.data = [i \in 0 .. n - 1 |-> Junk]])

Inserted(st, pos) ==
    LET fp == Wrap(st.mask, st.fp - 1)
    IN  [st EXCEPT !.data = [@ EXCEPT ![fp] = pos], !.fp = fp, !.count = @ + 1]

(* Mutant of Pushed: the pointer is advanced before the write. *)
PushedBehind(st, pos) ==
    LET sp == Wrap(st.mask, st.sp + 1)
    IN  [st EXCEPT !.data = [@ EXCEPT ![sp] = pos], !.sp = sp, !.count = @ + 1]

Pushed(st, pos) ==
    [st EXCEPT !.data = [@ EXCEPT ![st.sp] = pos],
               !.sp = Wrap(st.mask, @ + 1),
               !.count = @ + 1]

Popped(st) == [st EXCEPT !.sp = Wrap(st.mask, @ - 1), !.count = @ - 1]

(* Mutant of Dequeued: fp is not masked. *)
DequeuedUnmasked(st) == [st EXCEPT !.fp = @ + 1, !.count = @ - 1]

Dequeued(st) == [st EXCEPT !.fp = Wrap(st.mask, @ + 1), !.count = @ - 1]

(* The n-th position from the end; sp - n is cut to 8 bits. *)
FromEnd(st, n) == st.data[Wrap(st.mask, st.sp - n)]

(* The slots after the release of a store of o that has another size. *)
WithoutOtherSize(o, n) ==
    [s \in Slots |-> IF pos_stores[s].owner = o /\ pos_stores[s].mask # n - 1
                     THEN Released(pos_stores[s]) ELSE pos_stores[s]]

Init ==
    /\ pos_stores = [s \in Slots |-> [owner |-> NoOwner, data |-> NoData, stat_data |-> FALSE,
                                      sp |-> 0, fp |-> 0, count |-> 0, mask |-> 0]]
    /\ result = OK

-----------------------------------------------------------------------------
(* Mutant of pos_store_create_size: nobody looks for an existing store. *)
CreateAnother(o, n, static) ==
    \E s \in FirstFree(pos_stores) :
        /\ pos_stores' = [pos_stores EXCEPT ![s] = Created(@, o, n, static)]
        /\ result' = OK

(* pos_store_create_size: an existing store of the same size is cleared and *)
(* used again; one of another size is released first.  malloc() may fail,   *)
(* and there may be no free slot.                                           *)
pos_store_create_size(o, n, static) ==
    LET t == WithoutOtherSize(o, n)
    IN  IF SlotsOf(t, o) # {}
        THEN /\ pos_stores' = [s \in Slots |->
                    IF s \in SlotsOf(t, o) THEN Cleared(t[s]) ELSE t[s]]
             /\ result' = OK
        ELSE \/ \E s \in FirstFree(t) :
                    /\ pos_stores' = [t EXCEPT ![s] = Created(@, o, n, static)]
                    /\ result' = OK
             \/ \E s \in FirstFree(t) :
                    /\ ~static
                    /\ pos_stores' = [t EXCEPT ![s] =
                            [@ EXCEPT !.mask = n - 1, !.stat_data = FALSE, !.data = NoData]]
                    /\ result' = Failed
             \/ /\ FirstFree(t) = {}
                /\ pos_stores' = t
                /\ result' = Failed

pos_store_release(s) == /\ pos_stores' = [pos_stores EXCEPT ![s] = Released(@)]
                        /\ result' = OK

pos_store_release_all == /\ pos_stores' = [s \in Slots |-> Released(pos_stores[s])]
                         /\ result' = OK

pos_store_clear(s) == /\ pos_stores' = [pos_stores EXCEPT ![s] = Cleared(@)]
                      /\ result' = OK

Fail == result' = Failed /\ UNCHANGED pos_stores

pos_store_insert(s, pos) ==
    IF is_full(s) THEN Fail
    ELSE /\ pos_stores' = [pos_stores EXCEPT ![s] = Inserted(@, pos)]
         /\ result' = OK

pos_store_push(s, pos) ==
    IF is_full(s) THEN Fail
    ELSE /\ pos_stores' = [pos_stores EXCEPT ![s] = Pushed(@, pos)]
         /\ result' = OK

pos_store_pop(s) ==
    IF is_empty(s) THEN Fail
    ELSE /\ pos_stores' = [pos_stores EXCEPT ![s] = Popped(@)]
         /\ result' = FromEnd(pos_stores[s], 1)

pos_store_dequeue(s) ==
    IF is_empty(s) THEN Fail
    ELSE /\ pos_stores' = [pos_stores EXCEPT ![s] = Dequeued(@)]
         /\ result' = pos_stores[s].data[pos_stores[s].fp]

pos_store_top(s, n) ==
    /\ result' = IF n > pos_stores[s].count THEN Failed ELSE FromEnd(pos_stores[s], n)
    /\ UNCHANGED pos_stores

(* pos_store_from_index() with a number beyond the array is NULL, and each  *)
(* operation on NULL fails.                                                 *)
OnNull == Fail

(* The stores somebody works on: those that have an owner.                  *)
Owned == {s \in Slots : pos_stores[s].owner # NoOwner}

Next ==
    \/ \E o \in Owners, n \in Sizes, static \in BOOLEAN : pos_store_create_size(o, n, static)
    \/ \E s \in Owned : pos_store_release(s)
    \/ pos_store_release_all
    \/ \E s \in Owned : pos_store_clear(s)
    \/ \E s \in Owned, pos \in Positions : pos_store_insert(s, pos)
    \/ \E s \in Owned, pos \in Positions : pos_store_push(s, pos)
    \/ \E s \in Owned : pos_store_pop(s)
    \/ \E s \in Owned : pos_store_dequeue(s)
    \/ \E s \in Owned, n \in Indices : pos_store_top(s, n)
    \/ OnNull

Spec == Init /\ [][Next]_storeVars

-----------------------------------------------------------------------------
(* The memory of a store with this mask. *)
Memory(mask) == [0 .. mask -> Positions \cup {Junk}]

(* A slot: what it points to has the size that its mask says. *)
StoreOK(st) ==
    /\ st.mask + 1 \in Sizes
    /\ st.data \in Memory(st.mask)
    /\ st.sp \in 0 .. st.mask
    /\ st.fp \in 0 .. st.mask
    /\ st.count \in 0 .. st.mask + 1

StoreRecord == [owner : Owners \cup {NoOwner},
                data : {NoData} \cup UNION {Memory(n - 1) : n \in Sizes},
                stat_data : BOOLEAN,
                sp : 0 .. 255, fp : 0 .. 255, count : 0 .. 255, mask : 0 .. 255]

(* Every slot has the fields of pos_store_t, and a store in use has memory  *)
(* of the size its mask says, with both pointers and the count within it.   *)
TypeOK == /\ pos_stores \in [Slots -> StoreRecord]
          /\ result \in Positions \cup {OK, Failed}
          /\ \A s \in Owned : StoreOK(pos_stores[s])

(* The stored positions lie between the FIFO pointer and the stack pointer, *)
(* count of them: full and empty, which look alike in the pointers, are     *)
(* told apart by the count.                                                 *)
RingIsCounted ==
    \A s \in Owned : LET st == pos_stores[s]
                     IN  /\ st.sp = (st.fp + st.count) % (st.mask + 1)
                         /\ \A i \in 0 .. st.count - 1 :
                               st.data[(st.fp + i) % (st.mask + 1)] # Junk

(* No behaviour has two stores (pos_store_from_beh() finds the first). *)
OneStoreEach ==
    \A r, s \in Owned : pos_stores[r].owner = pos_stores[s].owner => r = s

(* The positions of a store, first to last. *)
Contents(st) == [i \in 1 .. st.count |-> st.data[(st.fp + i - 1) % (st.mask + 1)]]

ItemsOf(t, o) == IF SlotsOf(t, o) = {} THEN <<>>
                 ELSE Contents(t[CHOOSE s \in Slots : t[s].owner = o])

SizeOf(t, o) == IF SlotsOf(t, o) = {} THEN 0
                ELSE t[CHOOSE s \in Slots : t[s].owner = o].mask + 1

stored == [o \in Owners |-> ItemsOf(pos_stores, o)]
sizes == [o \in Owners |-> SizeOf(pos_stores, o)]

Deques == INSTANCE PosDeques WITH items <- stored, size <- sizes

(* The rings implement the double-ended queues: a behaviour finds in its    *)
(* store exactly what was put there since it was created, in the order that *)
(* push and pop, queue and dequeue promise (pos_store.c:224-307), whatever  *)
(* the other behaviours do with theirs.                                     *)
ImplementsDeques == Deques!DequeSpec

(* No definition tells two owners or two positions apart. *)
Symmetry == Permutations(Owners) \cup Permutations(Positions)
=============================================================================
