----------------------------- MODULE PosStore_proofs -----------------------------
(***************************************************************************)
(* Proofs about the position stores, for every size that pos_store.c        *)
(* accepts and any number of slots, owners and positions; and about the     *)
(* lines that driving over an area keeps in one, for every even size.       *)
(***************************************************************************)
EXTENDS PosStore, DriveArea, SequenceTheorems, TLAPS

Powers == {1, 2, 4, 8, 16, 32, 64}

(* What a uint8_t pointer and the mask do is arithmetic modulo the size. *)
LEMMA WrapIsModulo ==
    ASSUME NEW n \in Powers, NEW x \in -64 .. 64
    PROVE  Wrap(n - 1, x) = x % n
<1>1. CASE n = 1 BY <1>1 DEF Wrap
<1>2. CASE n = 2 BY <1>2 DEF Wrap
<1>3. CASE n = 4 BY <1>3 DEF Wrap
<1>4. CASE n = 8 BY <1>4 DEF Wrap
<1>5. CASE n = 16 BY <1>5 DEF Wrap
<1>6. CASE n = 32 BY <1>6 DEF Wrap
<1>7. CASE n = 64 BY <1>7 DEF Wrap
<1> QED BY <1>1, <1>2, <1>3, <1>4, <1>5, <1>6, <1>7 DEF Powers

(* Up to once around the ring in either direction. *)
LEMMA ModuloIsStep ==
    ASSUME NEW n \in Powers, NEW x \in -64 .. 127, -n <= x, x < 2 * n
    PROVE  x % n = IF x < 0 THEN x + n ELSE IF x < n THEN x ELSE x - n
<1>1. CASE n = 1 BY <1>1
<1>2. CASE n = 2 BY <1>2
<1>3. CASE n = 4 BY <1>3
<1>4. CASE n = 8 BY <1>4
<1>5. CASE n = 16 BY <1>5
<1>6. CASE n = 32 BY <1>6
<1>7. CASE n = 64 BY <1>7
<1> QED BY <1>1, <1>2, <1>3, <1>4, <1>5, <1>6, <1>7 DEF Powers

(* Places in the ring: At(n, f, i) is the i-th behind f. *)
At(n, f, i) == IF f + i < 0 THEN f + i + n ELSE IF f + i < n THEN f + i ELSE f + i - n

LEMMA Places ==
    ASSUME NEW n \in Powers, NEW f \in 0 .. n - 1
    PROVE  /\ \A i \in -n .. n : /\ At(n, f, i) \in 0 .. n - 1
                                 /\ (f + i) % n = At(n, f, i)
           /\ \A i, j \in 0 .. n - 1 : i # j => At(n, f, i) # At(n, f, j)
<1>1. ASSUME NEW i \in -n .. n
      PROVE  At(n, f, i) \in 0 .. n - 1 /\ (f + i) % n = At(n, f, i)
  <2>1. n \in 1 .. 64 /\ f + i \in -64 .. 127 /\ -n <= f + i /\ f + i < 2 * n
    BY <1>1 DEF Powers
  <2>2. PICK x \in -64 .. 127 : x = f + i
    BY <2>1
  <2>3. x % n = IF x < 0 THEN x + n ELSE IF x < n THEN x ELSE x - n
    BY <2>1, <2>2, ModuloIsStep
  <2>4. x % n = At(n, f, i)
    BY <2>1, <2>2, <2>3 DEF At
  <2> QED BY <2>1, <2>2, <2>4, <1>1 DEF At
<1>2. ASSUME NEW i \in 0 .. n - 1, NEW j \in 0 .. n - 1, i # j
      PROVE  At(n, f, i) # At(n, f, j)
  BY <1>2 DEF At, Powers
<1> QED BY <1>1, <1>2

-----------------------------------------------------------------------------
(* A store in use: its part of TypeOK and of RingIsCounted. *)
Ring(ps) == /\ StoreOK(ps)
            /\ ps.sp = (ps.fp + ps.count) % (ps.mask + 1)
            /\ \A i \in 0 .. ps.count - 1 : ps.data[(ps.fp + i) % (ps.mask + 1)] # Junk

(* The same without the modulo. *)
RingAt(ps) ==
    LET n == ps.mask + 1
    IN  /\ n \in Sizes
        /\ ps.data \in Memory(ps.mask)
        /\ ps.fp \in 0 .. ps.mask
        /\ ps.count \in 0 .. n
        /\ ps.sp = At(n, ps.fp, ps.count)
        /\ \A i \in 0 .. ps.count - 1 : ps.data[At(n, ps.fp, i)] # Junk

Items(D, n, f, c) == [i \in 1 .. c |-> D[At(n, f, i - 1)]]

ItemsAt(ps) == Items(ps.data, ps.mask + 1, ps.fp, ps.count)

LEMMA RingIsRingAt ==
    ASSUME NEW ps, ps.mask \in Int
    PROVE  /\ Ring(ps) <=> RingAt(ps)
           /\ Ring(ps) => Contents(ps) = ItemsAt(ps)
<1> DEFINE n == ps.mask + 1
<1>1. SUFFICES ASSUME n \in Sizes, ps.fp \in 0 .. ps.mask, ps.count \in 0 .. n
               PROVE  /\ Ring(ps) <=> RingAt(ps)
                      /\ Contents(ps) = ItemsAt(ps)
  BY DEF Ring, RingAt, StoreOK
<1>2. n \in Powers /\ n \in 1 .. 64 /\ ps.fp \in 0 .. n - 1
  BY <1>1, StoreAssumption DEF Powers
<1>3. \A i \in -n .. n : (ps.fp + i) % n = At(n, ps.fp, i) /\ At(n, ps.fp, i) \in 0 .. n - 1
  BY <1>1, <1>2, Places
<1>4. /\ (ps.fp + ps.count) % n = At(n, ps.fp, ps.count)
      /\ At(n, ps.fp, ps.count) \in 0 .. ps.mask
      /\ \A i \in 0 .. ps.count - 1 : (ps.fp + i) % n = At(n, ps.fp, i)
  BY <1>1, <1>2, <1>3
<1>5. Ring(ps) <=> RingAt(ps)
  BY <1>1, <1>4 DEF Ring, RingAt, StoreOK
<1>6. \A i \in 1 .. ps.count : (ps.fp + i - 1) % n = At(n, ps.fp, i - 1)
  <2> TAKE i \in 1 .. ps.count
  <2>1. i - 1 \in 0 .. ps.count - 1 /\ ps.fp + i - 1 = ps.fp + (i - 1)
    BY <1>1, <1>2
  <2> QED BY <2>1, <1>4
<1> QED BY <1>5, <1>6 DEF Contents, ItemsAt, Items

(* The pointers stay on the ring. *)
LEMMA WrapIsAt ==
    ASSUME NEW n \in Powers, NEW f \in 0 .. n - 1, NEW i \in -n .. n, f + i \in -64 .. 64
    PROVE  Wrap(n - 1, f + i) = At(n, f, i)
<1>1. PICK x \in -64 .. 64 : x = f + i
  OBVIOUS
<1>2. Wrap(n - 1, x) = x % n
  BY WrapIsModulo
<1> QED BY <1>1, <1>2, Places

-----------------------------------------------------------------------------
(* What a ring in the array is made of. *)
LEMMA RingParts ==
    ASSUME NEW ps \in StoreRecord, Ring(ps),
           NEW n, n = ps.mask + 1
    PROVE  /\ n \in Powers /\ n \in 1 .. 64 /\ n \in Sizes /\ ps.mask = n - 1
           /\ ps.fp \in 0 .. n - 1
           /\ ps.count \in 0 .. n
           /\ ps.data \in [0 .. n - 1 -> Positions \cup {Junk}]
           /\ ps.sp = At(n, ps.fp, ps.count)
           /\ ps.sp \in 0 .. n - 1
           /\ \A i \in 0 .. ps.count - 1 : /\ At(n, ps.fp, i) \in 0 .. n - 1
                                            /\ ps.data[At(n, ps.fp, i)] \in Positions
           /\ Contents(ps) = Items(ps.data, n, ps.fp, ps.count)
           /\ Len(Contents(ps)) = ps.count
           /\ Contents(ps) = <<>> <=> ps.count = 0
<1>1. ps.mask \in 0 .. 255
  BY DEF StoreRecord
<1>2. RingAt(ps) /\ Contents(ps) = Items(ps.data, n, ps.fp, ps.count)
  BY <1>1, RingIsRingAt DEF ItemsAt
<1>3. n \in Powers /\ n \in 1 .. 64 /\ n \in Sizes /\ ps.mask = n - 1
  <2>1. n \in Sizes
    BY <1>1, <1>2 DEF RingAt
  <2>2. n \in {1, 2, 4, 8, 16, 32, 64}
    BY <2>1, StoreAssumption
  <2> QED BY <1>1, <2>1, <2>2 DEF Powers
<1>4. /\ ps.fp \in 0 .. n - 1
      /\ ps.count \in 0 .. n
      /\ ps.data \in [0 .. n - 1 -> Positions \cup {Junk}]
      /\ ps.sp = At(n, ps.fp, ps.count)
  BY <1>2, <1>3 DEF RingAt, Memory
<1>5. /\ ps.sp \in 0 .. n - 1
      /\ \A i \in 0 .. ps.count - 1 : At(n, ps.fp, i) \in 0 .. n - 1
  <2>1. \A i \in -n .. n : At(n, ps.fp, i) \in 0 .. n - 1
    BY <1>3, <1>4, Places
  <2>2. ps.count \in -n .. n /\ \A i \in 0 .. ps.count - 1 : i \in -n .. n
    BY <1>3, <1>4
  <2> QED BY <1>4, <2>1, <2>2
<1>6. \A i \in 0 .. ps.count - 1 : ps.data[At(n, ps.fp, i)] # Junk
  BY <1>2 DEF RingAt
<1>7. \A i \in 0 .. ps.count - 1 : ps.data[At(n, ps.fp, i)] \in Positions
  BY <1>4, <1>5, <1>6
<1>8. Len(Contents(ps)) = ps.count /\ (Contents(ps) = <<>> <=> ps.count = 0)
  BY <1>2, <1>4 DEF Items
<1> QED BY <1>2, <1>3, <1>4, <1>5, <1>7, <1>8

(* A store in a normal form: its ring is (n, f, c, D), and sp follows. *)
Store(o, stat, n, f, c, D) ==
    [owner |-> o, data |-> D, stat_data |-> stat, sp |-> At(n, f, c), fp |-> f,
     count |-> c, mask |-> n - 1]

IsRing(n, f, c, D) ==
    /\ n \in Sizes
    /\ f \in 0 .. n - 1
    /\ c \in 0 .. n
    /\ D \in [0 .. n - 1 -> Positions \cup {Junk}]
    /\ \A i \in 0 .. c - 1 : D[At(n, f, i)] \in Positions

LEMMA NormalForm ==
    ASSUME NEW ps \in StoreRecord, Ring(ps)
    PROVE  \E n, f, c, D : /\ IsRing(n, f, c, D)
                           /\ ps = Store(ps.owner, ps.stat_data, n, f, c, D)
<1>1. PICK n : n = ps.mask + 1
  OBVIOUS
<1>2. IsRing(n, ps.fp, ps.count, ps.data) /\ ps.mask = n - 1 /\ ps.sp = At(n, ps.fp, ps.count)
  BY <1>1, RingParts DEF IsRing
<1>3. ps = Store(ps.owner, ps.stat_data, n, ps.fp, ps.count, ps.data)
  BY <1>2 DEF Store, StoreRecord
<1> QED BY <1>2, <1>3

LEMMA StoreIsRing ==
    ASSUME NEW n, NEW f, NEW c, NEW D, IsRing(n, f, c, D),
           NEW o \in Owners \cup {NoOwner}, NEW stat \in BOOLEAN
    PROVE  /\ n \in Powers /\ n \in 1 .. 64
           /\ Store(o, stat, n, f, c, D) \in StoreRecord
           /\ Ring(Store(o, stat, n, f, c, D))
           /\ Contents(Store(o, stat, n, f, c, D)) = Items(D, n, f, c)
<1>0. PICK u : u = Store(o, stat, n, f, c, D)
  OBVIOUS
<1>1. /\ u.owner = o /\ u.data = D /\ u.stat_data = stat /\ u.sp = At(n, f, c)
      /\ u.fp = f /\ u.count = c /\ u.mask = n - 1
  BY <1>0 DEF Store
<1>2. n \in Powers /\ n \in 1 .. 64
  BY StoreAssumption DEF IsRing, Powers
<1>3. u.mask \in Int /\ u.mask + 1 = n
  BY <1>1, <1>2
<1>4. RingAt(u)
  <2>1. \A i \in 0 .. c - 1 : D[At(n, f, i)] # Junk
    BY StoreAssumption DEF IsRing
  <2> QED BY <1>1, <1>3, <2>1 DEF RingAt, Memory, IsRing
<1>5. Ring(u) /\ Contents(u) = Items(D, n, f, c)
  BY <1>1, <1>3, <1>4, RingIsRingAt DEF ItemsAt
<1>6. u \in StoreRecord
  <2>1. D \in UNION {Memory(m - 1) : m \in Sizes}
    BY DEF Memory, IsRing
  <2>2. At(n, f, c) \in 0 .. n - 1
    BY <1>2 DEF IsRing, At
  <2>3. f \in 0 .. n - 1 /\ c \in 0 .. n
    BY DEF IsRing
  <2>4. At(n, f, c) \in 0 .. 255 /\ f \in 0 .. 255 /\ c \in 0 .. 255 /\ n - 1 \in 0 .. 255
    BY <1>2, <2>2, <2>3
  <2> QED BY <1>0, <2>1, <2>4 DEF StoreRecord, Store
<1> QED BY <1>0, <1>2, <1>5, <1>6

-----------------------------------------------------------------------------
(* Each operation on a ring leaves a ring of the same owner and size, and   *)
(* does to the stored positions what its name says.                         *)
LEMMA IsRingTypes ==
    ASSUME NEW n, NEW f, NEW c, NEW D, IsRing(n, f, c, D)
    PROVE  /\ n \in Powers /\ n \in 1 .. 64
           /\ f \in 0 .. n - 1 /\ c \in 0 .. n
           /\ D \in [0 .. n - 1 -> Positions \cup {Junk}]
           /\ \A i \in 0 .. c - 1 : D[At(n, f, i)] \in Positions
           /\ \A i \in -n .. n : At(n, f, i) \in 0 .. n - 1
           /\ Items(D, n, f, c) \in Seq(Positions)
           /\ Len(Items(D, n, f, c)) = c
<1>1. n \in Powers /\ n \in 1 .. 64
  BY StoreAssumption DEF IsRing, Powers
<1>2. \A i \in -n .. n : At(n, f, i) \in 0 .. n - 1
  BY <1>1 DEF IsRing, At
<1>3. \A i \in 1 .. c : D[At(n, f, i - 1)] \in Positions
  BY <1>1 DEF IsRing
<1>4. Items(D, n, f, c) \in Seq(Positions) /\ Len(Items(D, n, f, c)) = c
  <2>1. c \in Nat
    BY <1>1 DEF IsRing
  <2> QED BY <1>3, <2>1 DEF Items
<1> QED BY <1>1, <1>2, <1>4 DEF IsRing

(* The pointers stay on the ring. *)
LEMMA WrapOnRing ==
    ASSUME NEW n, NEW f, NEW c, NEW D, IsRing(n, f, c, D)
    PROVE  /\ c < n => Wrap(n - 1, At(n, f, c) + 1) = At(n, f, c + 1)
           /\ \A k \in 0 .. c : Wrap(n - 1, At(n, f, c) - k) = At(n, f, c - k)
           /\ Wrap(n - 1, f - 1) = At(n, f, -1)
           /\ Wrap(n - 1, f + 1) = At(n, f, 1)
<1>1. n \in Powers /\ n \in 1 .. 64 /\ f \in 0 .. n - 1 /\ c \in 0 .. n
  BY IsRingTypes
<1>2. \A g \in 0 .. n - 1 : Wrap(n - 1, g + 1) = At(n, g, 1)
  BY <1>1, WrapIsAt
<1>3. \A g \in 0 .. n - 1 : \A k \in 0 .. n : Wrap(n - 1, g - k) = At(n, g, -k)
  <2> TAKE g \in 0 .. n - 1
  <2> TAKE k \in 0 .. n
  <2>1. -k \in -n .. n /\ g + (-k) \in -64 .. 64 /\ g + (-k) = g - k
    BY <1>1
  <2> QED BY <1>1, <2>1, WrapIsAt
<1>4. PICK g \in 0 .. n - 1 : g = At(n, f, c)
  <2>1. At(n, f, c) \in 0 .. n - 1
    BY <1>1 DEF At
  <2> QED BY <2>1
<1>5. /\ c < n => At(n, g, 1) = At(n, f, c + 1)
      /\ \A k \in 0 .. c : At(n, g, -k) = At(n, f, c - k)
  BY <1>1, <1>4 DEF At
<1>6. \A k \in 0 .. c : k \in 0 .. n
  BY <1>1
<1>7. Wrap(n - 1, f - 1) = At(n, f, -1)
  BY <1>1, <1>3
<1> QED BY <1>1, <1>2, <1>3, <1>4, <1>5, <1>6, <1>7

LEMMA PushStore ==
    ASSUME NEW n, NEW f, NEW c, NEW D, IsRing(n, f, c, D), c # n,
           NEW o, NEW stat, NEW pos \in Positions
    PROVE  \E E : /\ IsRing(n, f, c + 1, E)
                  /\ Pushed(Store(o, stat, n, f, c, D), pos) = Store(o, stat, n, f, c + 1, E)
                  /\ Items(E, n, f, c + 1) = Append(Items(D, n, f, c), pos)
<1>1. /\ n \in Powers /\ n \in 1 .. 64
      /\ f \in 0 .. n - 1 /\ c \in 0 .. n - 1
      /\ D \in [0 .. n - 1 -> Positions \cup {Junk}]
      /\ \A i \in 0 .. c - 1 : D[At(n, f, i)] \in Positions
  <2>1. n \in 1 .. 64 /\ c \in 0 .. n
    BY IsRingTypes
  <2>2. c \in 0 .. n - 1
    BY <2>1
  <2> QED BY <2>2, IsRingTypes
<1>2. PICK E : E = [D EXCEPT ![At(n, f, c)] = pos]
  OBVIOUS
<1>3. Wrap(n - 1, At(n, f, c) + 1) = At(n, f, c + 1)
  BY <1>1, WrapOnRing
<1>4. /\ E \in [0 .. n - 1 -> Positions \cup {Junk}]
      /\ \A i \in 0 .. c - 1 : E[At(n, f, i)] = D[At(n, f, i)]
      /\ E[At(n, f, c)] = pos
      /\ Items(E, n, f, c + 1) = Append(Items(D, n, f, c), pos)
  <2>1. /\ \A i \in 0 .. c : At(n, f, i) \in 0 .. n - 1
        /\ \A i \in 0 .. c - 1 : At(n, f, i) # At(n, f, c)
    BY <1>1 DEF At, Powers
  <2>2. /\ E \in [0 .. n - 1 -> Positions \cup {Junk}]
        /\ \A i \in 0 .. c - 1 : E[At(n, f, i)] = D[At(n, f, i)]
        /\ E[At(n, f, c)] = pos
    BY <1>1, <1>2, <2>1
  <2>3. \A i \in 1 .. c : E[At(n, f, i - 1)] = D[At(n, f, i - 1)]
    BY <1>1, <2>2
  <2>4. E[At(n, f, c + 1 - 1)] = pos
    BY <1>1, <2>2
  <2>5. Items(E, n, f, c + 1) = Append(Items(D, n, f, c), pos)
    BY <1>1, <2>3, <2>4 DEF Items
  <2> QED BY <2>2, <2>5
<1>5. \A i \in 0 .. c + 1 - 1 : E[At(n, f, i)] \in Positions
  BY <1>1, <1>4
<1>6. IsRing(n, f, c + 1, E)
  <2>1. c + 1 \in 0 .. n
    BY <1>1
  <2>2. n \in Sizes
    BY DEF IsRing
  <2> QED BY <1>1, <1>4, <1>5, <2>1, <2>2 DEF IsRing
<1>7. Pushed(Store(o, stat, n, f, c, D), pos) = Store(o, stat, n, f, c + 1, E)
  <2>0. PICK u : u = Pushed(Store(o, stat, n, f, c, D), pos)
    OBVIOUS
  <2>1. /\ u.owner = o /\ u.data = E /\ u.stat_data = stat /\ u.sp = At(n, f, c + 1)
        /\ u.fp = f /\ u.count = c + 1 /\ u.mask = n - 1
    BY <1>2, <1>3, <2>0 DEF Store, Pushed
  <2>2. u = [owner |-> u.owner, data |-> u.data, stat_data |-> u.stat_data, sp |-> u.sp,
             fp |-> u.fp, count |-> u.count, mask |-> u.mask]
    BY <2>0 DEF Store, Pushed
  <2> QED BY <2>0, <2>1, <2>2 DEF Store
<1> QED BY <1>4, <1>6, <1>7

LEMMA InsertStore ==
    ASSUME NEW n, NEW f, NEW c, NEW D, IsRing(n, f, c, D), c # n,
           NEW o, NEW stat, NEW pos \in Positions
    PROVE  \E g, E : /\ IsRing(n, g, c + 1, E)
                     /\ Inserted(Store(o, stat, n, f, c, D), pos) = Store(o, stat, n, g, c + 1, E)
                     /\ Items(E, n, g, c + 1) = <<pos>> \o Items(D, n, f, c)
<1>1. /\ n \in Powers /\ n \in 1 .. 64
      /\ f \in 0 .. n - 1 /\ c \in 0 .. n - 1
      /\ D \in [0 .. n - 1 -> Positions \cup {Junk}]
      /\ \A i \in 0 .. c - 1 : D[At(n, f, i)] \in Positions
  <2>1. n \in 1 .. 64 /\ c \in 0 .. n
    BY IsRingTypes
  <2>2. c \in 0 .. n - 1
    BY <2>1
  <2> QED BY <2>2, IsRingTypes
<1>2. PICK g : g = At(n, f, -1)
  OBVIOUS
<1>3. PICK E : E = [D EXCEPT ![g] = pos]
  OBVIOUS
<1>4. /\ g \in 0 .. n - 1
      /\ \A i \in 0 .. c : At(n, g, i + 1) = At(n, f, i) /\ At(n, f, i) \in 0 .. n - 1
      /\ \A i \in 0 .. c - 1 : At(n, f, i) # g
      /\ At(n, g, 0) = g
      /\ At(n, g, c + 1) = At(n, f, c)
  BY <1>1, <1>2 DEF At, Powers
<1>5. E \in [0 .. n - 1 -> Positions \cup {Junk}] /\ E[At(n, g, 0)] = pos
  BY <1>1, <1>3, <1>4
<1>6. \A i \in 1 .. c : E[At(n, g, i)] = D[At(n, f, i - 1)]
  <2> TAKE i \in 1 .. c
  <2>1. PICK j \in 0 .. c - 1 : j = i - 1 /\ i = j + 1
    BY <1>1
  <2>2. At(n, g, j + 1) = At(n, f, j) /\ At(n, f, j) \in 0 .. n - 1 /\ At(n, f, j) # g
    <3>1. j \in 0 .. c
      BY <1>1
    <3> QED BY <1>4, <3>1, Zenon
  <2>3. E[At(n, f, j)] = D[At(n, f, j)]
    BY <1>1, <1>3, <2>2
  <2> QED BY <2>1, <2>2, <2>3
<1>7. Items(E, n, g, c + 1) = <<pos>> \o Items(D, n, f, c)
  <2>1. PICK T : T = Items(D, n, f, c)
    OBVIOUS
  <2>2. T \in Seq(Positions) /\ Len(T) = c
    BY <2>1, IsRingTypes
  <2>3. \A i \in 1 .. c : T[i] = D[At(n, f, i - 1)]
    BY <2>1 DEF Items
  <2>4. <<pos>> \in Seq(Positions) /\ Len(<<pos>>) = 1 /\ <<pos>>[1] = pos
    OBVIOUS
  <2>5. /\ <<pos>> \o T \in Seq(Positions)
        /\ Len(<<pos>> \o T) = c + 1
        /\ \A i \in 1 .. c + 1 : (<<pos>> \o T)[i] = IF i <= 1 THEN pos ELSE T[i - 1]
    BY <1>1, <2>2, <2>4, ConcatProperties
  <2>6. <<pos>> \o T = [i \in 1 .. c + 1 |-> IF i <= 1 THEN pos ELSE T[i - 1]]
    BY <1>1, <2>5
  <2>7. \A i \in 1 .. c + 1 : E[At(n, g, i - 1)] = IF i <= 1 THEN pos ELSE T[i - 1]
    BY <1>1, <1>5, <1>6, <2>3
  <2> QED BY <2>1, <2>6, <2>7 DEF Items
<1>8. IsRing(n, g, c + 1, E)
  <2>1. \A i \in 0 .. c + 1 - 1 : E[At(n, g, i)] \in Positions
    <3> TAKE i \in 0 .. c + 1 - 1
    <3>1. CASE i = 0 BY <3>1, <1>5
    <3>2. CASE i # 0
      <4>1. i \in 1 .. c /\ i - 1 \in 0 .. c - 1
        BY <1>1, <3>2
      <4> QED BY <1>1, <1>6, <4>1
    <3> QED BY <3>1, <3>2
  <2>2. c + 1 \in 0 .. n /\ n \in Sizes
    BY <1>1 DEF IsRing
  <2> QED BY <1>4, <1>5, <2>1, <2>2 DEF IsRing
<1>9. Inserted(Store(o, stat, n, f, c, D), pos) = Store(o, stat, n, g, c + 1, E)
  <2>0. PICK u : u = Inserted(Store(o, stat, n, f, c, D), pos)
    OBVIOUS
  <2>1. Wrap(n - 1, f - 1) = g
    BY <1>2, WrapOnRing
  <2>2. /\ u.owner = o /\ u.data = E /\ u.stat_data = stat /\ u.sp = At(n, f, c)
        /\ u.fp = g /\ u.count = c + 1 /\ u.mask = n - 1
    BY <1>3, <2>0, <2>1 DEF Store, Inserted
  <2>3. u = [owner |-> u.owner, data |-> u.data, stat_data |-> u.stat_data, sp |-> u.sp,
             fp |-> u.fp, count |-> u.count, mask |-> u.mask]
    BY <2>0 DEF Store, Inserted
  <2> QED BY <1>4, <2>0, <2>2, <2>3 DEF Store
<1> QED BY <1>7, <1>8, <1>9

LEMMA PopStore ==
    ASSUME NEW n, NEW f, NEW c, NEW D, IsRing(n, f, c, D), c # 0, NEW o, NEW stat
    PROVE  /\ IsRing(n, f, c - 1, D)
           /\ Popped(Store(o, stat, n, f, c, D)) = Store(o, stat, n, f, c - 1, D)
           /\ Items(D, n, f, c - 1) = SubSeq(Items(D, n, f, c), 1, c - 1)
<1>1. n \in 1 .. 64 /\ c \in 0 .. n
  BY IsRingTypes
<1>2. c \in 1 .. n /\ 1 \in 0 .. c
  BY <1>1
<1>3. Wrap(n - 1, At(n, f, c) - 1) = At(n, f, c - 1)
  BY <1>2, WrapOnRing
<1>4. IsRing(n, f, c - 1, D)
  <2>1. c - 1 \in 0 .. n /\ \A i \in 0 .. c - 1 - 1 : i \in 0 .. c - 1
    BY <1>1, <1>2
  <2> QED BY <2>1 DEF IsRing
<1>5. Popped(Store(o, stat, n, f, c, D)) = Store(o, stat, n, f, c - 1, D)
  <2>0. PICK u : u = Popped(Store(o, stat, n, f, c, D))
    OBVIOUS
  <2>1. /\ u.owner = o /\ u.data = D /\ u.stat_data = stat /\ u.sp = At(n, f, c - 1)
        /\ u.fp = f /\ u.count = c - 1 /\ u.mask = n - 1
    BY <1>3, <2>0 DEF Store, Popped
  <2>2. u = [owner |-> u.owner, data |-> u.data, stat_data |-> u.stat_data, sp |-> u.sp,
             fp |-> u.fp, count |-> u.count, mask |-> u.mask]
    BY <2>0 DEF Store, Popped
  <2> QED BY <2>0, <2>1, <2>2 DEF Store
<1>6. Items(D, n, f, c - 1) = SubSeq(Items(D, n, f, c), 1, c - 1)
  <2>1. Items(D, n, f, c) \in Seq(Positions) /\ Len(Items(D, n, f, c)) = c
    BY IsRingTypes
  <2> QED BY <1>2, <2>1 DEF Items
<1> QED BY <1>4, <1>5, <1>6

LEMMA DequeueStore ==
    ASSUME NEW n, NEW f, NEW c, NEW D, IsRing(n, f, c, D), c # 0, NEW o, NEW stat
    PROVE  /\ IsRing(n, At(n, f, 1), c - 1, D)
           /\ Dequeued(Store(o, stat, n, f, c, D)) = Store(o, stat, n, At(n, f, 1), c - 1, D)
           /\ Items(D, n, At(n, f, 1), c - 1) = Tail(Items(D, n, f, c))
           /\ D[f] = Items(D, n, f, c)[1]
<1>1. /\ n \in Powers /\ n \in 1 .. 64
      /\ f \in 0 .. n - 1 /\ c \in 1 .. n
  <2>1. n \in 1 .. 64 /\ c \in 0 .. n
    BY IsRingTypes
  <2>2. c \in 1 .. n
    BY <2>1
  <2> QED BY <2>2, IsRingTypes
<1>2. PICK g : g = At(n, f, 1)
  OBVIOUS
<1>3. /\ g \in 0 .. n - 1
      /\ At(n, g, c - 1) = At(n, f, c)
      /\ \A i \in 0 .. c - 2 : At(n, g, i) = At(n, f, i + 1)
      /\ At(n, f, 0) = f
  BY <1>1, <1>2 DEF At, Powers
<1>4. IsRing(n, g, c - 1, D)
  <2>1. c - 1 \in 0 .. n /\ \A i \in 0 .. c - 1 - 1 : i \in 0 .. c - 2 /\ i + 1 \in 0 .. c - 1
    BY <1>1
  <2> QED BY <1>3, <2>1 DEF IsRing
<1>5. Dequeued(Store(o, stat, n, f, c, D)) = Store(o, stat, n, g, c - 1, D)
  <2>0. PICK u : u = Dequeued(Store(o, stat, n, f, c, D))
    OBVIOUS
  <2>1. Wrap(n - 1, f + 1) = g
    BY <1>2, WrapOnRing
  <2>2. /\ u.owner = o /\ u.data = D /\ u.stat_data = stat /\ u.sp = At(n, f, c)
        /\ u.fp = g /\ u.count = c - 1 /\ u.mask = n - 1
    BY <2>0, <2>1 DEF Store, Dequeued
  <2>3. u = [owner |-> u.owner, data |-> u.data, stat_data |-> u.stat_data, sp |-> u.sp,
             fp |-> u.fp, count |-> u.count, mask |-> u.mask]
    BY <2>0 DEF Store, Dequeued
  <2> QED BY <1>3, <2>0, <2>2, <2>3 DEF Store
<1>6. PICK T : T = Items(D, n, f, c)
  OBVIOUS
<1>7. T \in Seq(Positions) /\ Len(T) = c
  BY <1>6, IsRingTypes
<1>8. Tail(T) = [i \in 1 .. c - 1 |-> T[i + 1]]
  <2>1. T # <<>> /\ c - 1 \in Nat
    BY <1>1, <1>7
  <2>2. /\ Tail(T) \in Seq(Positions)
        /\ Len(Tail(T)) = c - 1
        /\ \A i \in 1 .. Len(Tail(T)) : Tail(T)[i] = T[i + 1]
    BY <1>7, <2>1, HeadTailProperties
  <2>3. ASSUME NEW t \in Seq(Positions), Len(t) = c - 1,
               \A i \in 1 .. Len(t) : t[i] = T[i + 1]
        PROVE  t = [i \in 1 .. c - 1 |-> T[i + 1]]
    BY <2>3
  <2> QED BY <2>2, <2>3, Zenon
<1>9. Items(D, n, g, c - 1) = Tail(T)
  <2>1. \A i \in 1 .. c - 1 : At(n, g, i - 1) = At(n, f, i + 1 - 1)
    BY <1>1, <1>2 DEF At, Powers
  <2>2. \A i \in 1 .. c - 1 : T[i + 1] = D[At(n, f, i + 1 - 1)]
    BY <1>1, <1>6 DEF Items
  <2> QED BY <1>8, <2>1, <2>2 DEF Items
<1>10. T[1] = D[f]
  BY <1>1, <1>3, <1>6 DEF Items
<1> QED BY <1>2, <1>4, <1>5, <1>6, <1>9, <1>10

(* pos_store_top() and pos_store_pop() read the k-th position from the end. *)
LEMMA FromEndIsItem ==
    ASSUME NEW n, NEW f, NEW c, NEW D, IsRing(n, f, c, D), NEW o, NEW stat, NEW k \in 1 .. c
    PROVE  FromEnd(Store(o, stat, n, f, c, D), k) = Items(D, n, f, c)[c + 1 - k]
<1>1. n \in 1 .. 64 /\ c \in 0 .. n
  BY IsRingTypes
<1>2. k \in 0 .. c /\ c + 1 - k \in 1 .. c /\ c + 1 - k - 1 = c - k
  BY <1>1
<1>3. Wrap(n - 1, At(n, f, c) - k) = At(n, f, c - k)
  BY <1>2, WrapOnRing
<1>4. FromEnd(Store(o, stat, n, f, c, D), k) = D[At(n, f, c - k)]
  BY <1>3 DEF FromEnd, Store
<1>5. Items(D, n, f, c)[c + 1 - k] = D[At(n, f, c - k)]
  <2>1. PICK i \in 1 .. c : i = c + 1 - k /\ i - 1 = c - k
    BY <1>1, <1>2
  <2>2. Items(D, n, f, c)[i] = D[At(n, f, i - 1)]
    BY DEF Items
  <2> QED BY <2>1, <2>2
<1> QED BY <1>4, <1>5

-----------------------------------------------------------------------------
(* The same for a record of the array: v is ps after an operation. *)
SameStore(ps, v) == /\ v \in StoreRecord
                    /\ Ring(v)
                    /\ v.owner = ps.owner
                    /\ v.mask = ps.mask

LEMMA StoreIsSame ==
    ASSUME NEW ps \in StoreRecord, NEW n, NEW f, NEW c, NEW D, IsRing(n, f, c, D),
           ps.mask = n - 1
    PROVE  /\ SameStore(ps, Store(ps.owner, ps.stat_data, n, f, c, D))
           /\ Contents(Store(ps.owner, ps.stat_data, n, f, c, D)) = Items(D, n, f, c)
<1>1. ps.owner \in Owners \cup {NoOwner} /\ ps.stat_data \in BOOLEAN
  BY DEF StoreRecord
<1>2. PICK v : v = Store(ps.owner, ps.stat_data, n, f, c, D)
  OBVIOUS
<1>3. v \in StoreRecord /\ Ring(v) /\ Contents(v) = Items(D, n, f, c)
  BY <1>1, <1>2, StoreIsRing
<1>4. v.owner = ps.owner /\ v.mask = ps.mask
  BY <1>2 DEF Store
<1> QED BY <1>2, <1>3, <1>4 DEF SameStore

LEMMA PushRing ==
    ASSUME NEW ps \in StoreRecord, Ring(ps), ps.count # ps.mask + 1, NEW pos \in Positions
    PROVE  /\ SameStore(ps, Pushed(ps, pos))
           /\ Contents(Pushed(ps, pos)) = Append(Contents(ps), pos)
<1>1. PICK n, f, c, D : IsRing(n, f, c, D) /\ ps = Store(ps.owner, ps.stat_data, n, f, c, D)
  BY NormalForm
<1>2. ps.mask = n - 1 /\ ps.count = c /\ n \in 1 .. 64
  BY <1>1, IsRingTypes DEF Store
<1>3. c # n
  BY <1>2
<1>4. PICK E : /\ IsRing(n, f, c + 1, E)
               /\ Pushed(ps, pos) = Store(ps.owner, ps.stat_data, n, f, c + 1, E)
               /\ Items(E, n, f, c + 1) = Append(Items(D, n, f, c), pos)
  <2> DEFINE v == Store(ps.owner, ps.stat_data, n, f, c, D)
  <2>0. IsRing(n, f, c, D)
    BY <1>1, Zenon
  <2>1. \E E : /\ IsRing(n, f, c + 1, E)
               /\ Pushed(v, pos) = Store(ps.owner, ps.stat_data, n, f, c + 1, E)
               /\ Items(E, n, f, c + 1) = Append(Items(D, n, f, c), pos)
    BY <1>3, <2>0, PushStore
  <2>2. ps = v
    BY <1>1, Zenon
  <2> HIDE DEF v
  <2> QED BY <2>1, <2>2, Zenon
<1>5. Contents(ps) = Items(D, n, f, c)
  BY <1>1, <1>2, StoreIsSame
<1> QED BY <1>2, <1>4, <1>5, StoreIsSame

LEMMA InsertRing ==
    ASSUME NEW ps \in StoreRecord, Ring(ps), ps.count # ps.mask + 1, NEW pos \in Positions
    PROVE  /\ SameStore(ps, Inserted(ps, pos))
           /\ Contents(Inserted(ps, pos)) = <<pos>> \o Contents(ps)
<1>1. PICK n, f, c, D : IsRing(n, f, c, D) /\ ps = Store(ps.owner, ps.stat_data, n, f, c, D)
  BY NormalForm
<1>2. ps.mask = n - 1 /\ ps.count = c /\ n \in 1 .. 64
  BY <1>1, IsRingTypes DEF Store
<1>3. c # n
  BY <1>2
<1>4. PICK g, E : /\ IsRing(n, g, c + 1, E)
                  /\ Inserted(ps, pos) = Store(ps.owner, ps.stat_data, n, g, c + 1, E)
                  /\ Items(E, n, g, c + 1) = <<pos>> \o Items(D, n, f, c)
  BY <1>1, <1>3, InsertStore
<1>5. Contents(ps) = Items(D, n, f, c)
  BY <1>1, <1>2, StoreIsSame
<1> QED BY <1>2, <1>4, <1>5, StoreIsSame

LEMMA PopRing ==
    ASSUME NEW ps \in StoreRecord, Ring(ps), ps.count # 0
    PROVE  /\ SameStore(ps, Popped(ps))
           /\ Contents(Popped(ps)) = SubSeq(Contents(ps), 1, Len(Contents(ps)) - 1)
<1>1. PICK n, f, c, D : IsRing(n, f, c, D) /\ ps = Store(ps.owner, ps.stat_data, n, f, c, D)
  BY NormalForm
<1>2. ps.mask = n - 1 /\ ps.count = c /\ c # 0
  BY <1>1 DEF Store
<1>3. /\ IsRing(n, f, c - 1, D)
      /\ Popped(ps) = Store(ps.owner, ps.stat_data, n, f, c - 1, D)
      /\ Items(D, n, f, c - 1) = SubSeq(Items(D, n, f, c), 1, c - 1)
  BY <1>1, <1>2, PopStore
<1>4. Contents(ps) = Items(D, n, f, c) /\ Len(Items(D, n, f, c)) = c
  BY <1>1, <1>2, StoreIsSame, IsRingTypes
<1> QED BY <1>2, <1>3, <1>4, StoreIsSame

LEMMA DequeueRing ==
    ASSUME NEW ps \in StoreRecord, Ring(ps), ps.count # 0
    PROVE  /\ SameStore(ps, Dequeued(ps))
           /\ Contents(Dequeued(ps)) = Tail(Contents(ps))
           /\ ps.data[ps.fp] = Contents(ps)[1]
<1>1. PICK n, f, c, D : IsRing(n, f, c, D) /\ ps = Store(ps.owner, ps.stat_data, n, f, c, D)
  BY NormalForm
<1>2. ps.mask = n - 1 /\ ps.count = c /\ c # 0 /\ ps.data = D /\ ps.fp = f
  BY <1>1 DEF Store
<1>3. PICK g : g = At(n, f, 1)
  OBVIOUS
<1>4. /\ IsRing(n, g, c - 1, D)
      /\ Dequeued(ps) = Store(ps.owner, ps.stat_data, n, g, c - 1, D)
      /\ Items(D, n, g, c - 1) = Tail(Items(D, n, f, c))
      /\ D[f] = Items(D, n, f, c)[1]
  BY <1>1, <1>2, <1>3, DequeueStore
<1>5. Contents(ps) = Items(D, n, f, c)
  BY <1>1, <1>2, StoreIsSame
<1> QED BY <1>2, <1>4, <1>5, StoreIsSame

LEMMA EndOfRing ==
    ASSUME NEW ps \in StoreRecord, Ring(ps)
    PROVE  /\ ps.count \in Nat /\ ps.mask \in 0 .. 63 /\ ps.count \in 0 .. ps.mask + 1
           /\ ps.data # NoData
           /\ Contents(ps) \in Seq(Positions)
           /\ Len(Contents(ps)) = ps.count
           /\ \A k \in 1 .. ps.count : FromEnd(ps, k) = Contents(ps)[ps.count + 1 - k]
<1>1. PICK n, f, c, D : IsRing(n, f, c, D) /\ ps = Store(ps.owner, ps.stat_data, n, f, c, D)
  BY NormalForm
<1>2. ps.mask = n - 1 /\ ps.count = c /\ ps.data = D
  BY <1>1 DEF Store
<1>3. /\ n \in 1 .. 64 /\ c \in 0 .. n
      /\ Items(D, n, f, c) \in Seq(Positions) /\ Len(Items(D, n, f, c)) = c
  BY <1>1, IsRingTypes
<1>4. Contents(ps) = Items(D, n, f, c)
  BY <1>1, <1>2, StoreIsSame
<1>5. \A k \in 1 .. c : FromEnd(ps, k) = Items(D, n, f, c)[c + 1 - k]
  BY <1>1, FromEndIsItem
<1>6. ps.count \in Nat /\ ps.mask \in 0 .. 63 /\ ps.count \in 0 .. ps.mask + 1
  BY <1>2, <1>3
<1>7. D # NoData
  <2>1. n \in Sizes /\ D \in [0 .. n - 1 -> Positions \cup {Junk}]
    BY <1>1 DEF IsRing
  <2> QED BY <2>1, StoreAssumption
<1> QED BY <1>2, <1>3, <1>4, <1>5, <1>6, <1>7

-----------------------------------------------------------------------------
(* The inductive invariant: the three invariants of the specification, with *)
(* what they say of one store gathered in Ring.                             *)
Results == Positions \cup {OK, Failed}

Unshared(t) == \A r, s \in Slots : t[r].owner = t[s].owner /\ t[r].owner # NoOwner => r = s

StoresInv == /\ pos_stores \in [Slots -> StoreRecord]
             /\ result \in Results
             /\ \A s \in Slots : pos_stores[s].owner # NoOwner => Ring(pos_stores[s])
             /\ Unshared(pos_stores)

LEMMA StoresInvIs == StoresInv <=> TypeOK /\ RingIsCounted /\ OneStoreEach
<1>1. TypeOK /\ RingIsCounted <=> /\ pos_stores \in [Slots -> StoreRecord]
                                  /\ result \in Results
                                  /\ \A s \in Slots : pos_stores[s].owner # NoOwner => Ring(pos_stores[s])
  BY DEF TypeOK, RingIsCounted, Results, Owned, Ring
<1>2. OneStoreEach <=> Unshared(pos_stores)
  BY DEF OneStoreEach, Unshared, Owned
<1> QED BY <1>1, <1>2 DEF StoresInv

LEMMA InitInv == Init => StoresInv
<1> SUFFICES ASSUME Init PROVE StoresInv
  OBVIOUS
<1>1. pos_stores \in [Slots -> StoreRecord]
  BY DEF Init, StoreRecord
<1>2. \A s \in Slots : pos_stores[s].owner = NoOwner
  BY DEF Init
<1> QED BY <1>1, <1>2 DEF StoresInv, Init, Results, Unshared

(* Steps that keep, change or release stores, but create none. *)
LEMMA NoNewStore ==
    ASSUME StoresInv, pos_stores' \in [Slots -> StoreRecord], result' \in Results,
           \A s \in Slots : pos_stores'[s].owner # NoOwner =>
               pos_stores'[s].owner = pos_stores[s].owner /\ Ring(pos_stores'[s])
    PROVE  StoresInv'
BY DEF StoresInv, Unshared

(* Steps that change one store, and its contents only. *)
LEMMA OneStore ==
    ASSUME StoresInv, NEW s \in Slots, NEW v, SameStore(pos_stores[s], v),
           pos_stores' = [pos_stores EXCEPT ![s] = v], result' \in Results
    PROVE  StoresInv'
<1>1. /\ pos_stores' \in [Slots -> StoreRecord]
      /\ pos_stores'[s] = v
      /\ \A r \in Slots : r # s => pos_stores'[r] = pos_stores[r]
  BY DEF StoresInv, SameStore
<1>2. \A r \in Slots : pos_stores'[r].owner # NoOwner =>
          pos_stores'[r].owner = pos_stores[r].owner /\ Ring(pos_stores'[r])
  BY <1>1 DEF StoresInv, SameStore
<1> QED BY <1>1, <1>2, NoNewStore

LEMMA ClearRing ==
    ASSUME NEW ps \in StoreRecord, Ring(ps)
    PROVE  SameStore(ps, Cleared(ps)) /\ Contents(Cleared(ps)) = <<>>
<1>1. PICK n, f, c, D : IsRing(n, f, c, D) /\ ps = Store(ps.owner, ps.stat_data, n, f, c, D)
  BY NormalForm
<1>2. ps.mask = n - 1 /\ n \in 1 .. 64 /\ D \in [0 .. n - 1 -> Positions \cup {Junk}] /\ n \in Sizes
  <2>1. ps.mask = n - 1
    BY <1>1 DEF Store
  <2>2. n \in Sizes
    BY <1>1 DEF IsRing
  <2> QED BY <1>1, <2>1, <2>2, IsRingTypes
<1>3. IsRing(n, 0, 0, D)
  BY <1>2 DEF IsRing
<1>4. Cleared(ps) = Store(ps.owner, ps.stat_data, n, 0, 0, D)
  <2>0. PICK u : u = Cleared(ps)
    OBVIOUS
  <2>1. /\ u.owner = ps.owner /\ u.data = D /\ u.stat_data = ps.stat_data /\ u.sp = 0
        /\ u.fp = 0 /\ u.count = 0 /\ u.mask = n - 1
    BY <1>1, <2>0 DEF Store, Cleared
  <2>2. u = [owner |-> u.owner, data |-> u.data, stat_data |-> u.stat_data, sp |-> u.sp,
             fp |-> u.fp, count |-> u.count, mask |-> u.mask]
    BY <2>0 DEF Cleared, StoreRecord
  <2>3. At(n, 0, 0) = 0
    BY <1>2 DEF At
  <2> QED BY <2>0, <2>1, <2>2, <2>3 DEF Store
<1>5. Items(D, n, 0, 0) = <<>>
  BY DEF Items
<1> QED BY <1>2, <1>3, <1>4, <1>5, StoreIsSame

LEMMA CreateRing ==
    ASSUME NEW ps \in StoreRecord, NEW o \in Owners, NEW n \in Sizes, NEW static \in BOOLEAN
    PROVE  /\ Created(ps, o, n, static) \in StoreRecord
           /\ Ring(Created(ps, o, n, static))
           /\ Created(ps, o, n, static).owner = o
           /\ Created(ps, o, n, static).mask = n - 1
           /\ Contents(Created(ps, o, n, static)) = <<>>
<1>1. PICK D : D = [i \in 0 .. n - 1 |-> Junk]
  OBVIOUS
<1>2. n \in 1 .. 64 /\ D \in [0 .. n - 1 -> Positions \cup {Junk}]
  BY <1>1, StoreAssumption
<1>3. IsRing(n, 0, 0, D)
  BY <1>2 DEF IsRing
<1>4. Created(ps, o, n, static) = Store(o, static, n, 0, 0, D)
  <2>0. PICK u : u = Created(ps, o, n, static)
    OBVIOUS
  <2>1. /\ u.owner = o /\ u.data = D /\ u.stat_data = static /\ u.sp = 0
        /\ u.fp = 0 /\ u.count = 0 /\ u.mask = n - 1
    BY <1>1, <2>0 DEF Created, Cleared, StoreRecord
  <2>2. u = [owner |-> u.owner, data |-> u.data, stat_data |-> u.stat_data, sp |-> u.sp,
             fp |-> u.fp, count |-> u.count, mask |-> u.mask]
    BY <2>0 DEF Created, Cleared, StoreRecord
  <2>3. At(n, 0, 0) = 0
    BY <1>2 DEF At
  <2> QED BY <2>0, <2>1, <2>2, <2>3 DEF Store
<1>5. Items(D, n, 0, 0) = <<>>
  BY DEF Items
<1>6. /\ Store(o, static, n, 0, 0, D) \in StoreRecord
      /\ Ring(Store(o, static, n, 0, 0, D))
      /\ Contents(Store(o, static, n, 0, 0, D)) = <<>>
  BY <1>3, <1>5, StoreIsRing
<1>7. Store(o, static, n, 0, 0, D).owner = o /\ Store(o, static, n, 0, 0, D).mask = n - 1
  BY DEF Store
<1> QED BY <1>4, <1>6, <1>7

LEMMA ReleaseSlot ==
    ASSUME NEW ps \in StoreRecord
    PROVE  Released(ps) \in StoreRecord /\ Released(ps).owner = NoOwner
<1>0. PICK u : u = Released(ps)
  OBVIOUS
<1>1. /\ u.owner = NoOwner /\ u.data \in {ps.data, NoData} /\ u.stat_data = ps.stat_data
      /\ u.sp = ps.sp /\ u.fp = ps.fp /\ u.count = ps.count /\ u.mask = ps.mask
  BY <1>0 DEF Released, StoreRecord
<1>2. u = [owner |-> u.owner, data |-> u.data, stat_data |-> u.stat_data, sp |-> u.sp,
           fp |-> u.fp, count |-> u.count, mask |-> u.mask]
  BY <1>0 DEF Released, StoreRecord
<1>3. /\ u.data \in {NoData} \cup UNION {Memory(n - 1) : n \in Sizes}
      /\ u.stat_data \in BOOLEAN
      /\ u.sp \in 0 .. 255 /\ u.fp \in 0 .. 255 /\ u.count \in 0 .. 255 /\ u.mask \in 0 .. 255
  BY <1>1 DEF StoreRecord
<1> QED BY <1>0, <1>1, <1>2, <1>3 DEF StoreRecord

(* A step on one store does what SameStore says. *)
LEMMA OwnedStore ==
    ASSUME StoresInv, NEW s \in Owned
    PROVE  /\ s \in Slots /\ pos_stores[s] \in StoreRecord /\ Ring(pos_stores[s])
           /\ pos_stores[s].owner \in Owners
           /\ is_full(s) <=> pos_stores[s].count = pos_stores[s].mask + 1
<1>1. s \in Slots /\ pos_stores[s] \in StoreRecord /\ Ring(pos_stores[s])
      /\ pos_stores[s].owner \in Owners
  BY DEF StoresInv, Owned, StoreRecord
<1>2. /\ pos_stores[s].data # NoData /\ pos_stores[s].mask \in 0 .. 63
      /\ pos_stores[s].count \in 0 .. pos_stores[s].mask + 1
  BY <1>1, EndOfRing
<1>3. is_full(s) <=> pos_stores[s].count = pos_stores[s].mask + 1
  BY <1>2 DEF is_full
<1> QED BY <1>1, <1>3

LEMMA ReadsArePositions ==
    ASSUME NEW ps \in StoreRecord, Ring(ps)
    PROVE  /\ \A k \in 1 .. ps.count : FromEnd(ps, k) \in Positions
           /\ ps.count # 0 => ps.data[ps.fp] \in Positions
<1>1. PICK T : T = Contents(ps)
  OBVIOUS
<1>2. T \in Seq(Positions) /\ Len(T) = ps.count /\ ps.count \in Nat
  BY <1>1, EndOfRing
<1>3. \A k \in 1 .. ps.count : FromEnd(ps, k) = T[ps.count + 1 - k]
  BY <1>1, EndOfRing
<1>4. \A k \in 1 .. ps.count : ps.count + 1 - k \in 1 .. Len(T)
  BY <1>2
<1>5. \A k \in 1 .. ps.count : FromEnd(ps, k) \in Positions
  BY <1>2, <1>3, <1>4
<1>6. ps.count # 0 => ps.data[ps.fp] = T[1]
  BY <1>1, DequeueRing
<1> QED BY <1>2, <1>5, <1>6

LEMMA CreateInv ==
    ASSUME StoresInv, NEW o \in Owners, NEW n \in Sizes, NEW static \in BOOLEAN,
           pos_store_create_size(o, n, static)
    PROVE  StoresInv'
<1>1. PICK t : t = WithoutOtherSize(o, n)
  OBVIOUS
<1>2. /\ t \in [Slots -> StoreRecord]
      /\ \A s \in Slots : t[s].owner # NoOwner => t[s] = pos_stores[s] /\ Ring(t[s])
  BY <1>1, ReleaseSlot DEF StoresInv, WithoutOtherSize
<1>3. result' \in Results
  BY DEF pos_store_create_size, Results
<1>4. CASE SlotsOf(t, o) # {}
  <2>1. pos_stores' = [s \in Slots |-> IF s \in SlotsOf(t, o) THEN Cleared(t[s]) ELSE t[s]]
    BY <1>1, <1>4 DEF pos_store_create_size
  <2>2. \A s \in SlotsOf(t, o) : t[s].owner # NoOwner /\ s \in Slots
    BY StoreAssumption DEF SlotsOf
  <2>3. \A s \in SlotsOf(t, o) : SameStore(t[s], Cleared(t[s]))
    BY <1>2, <2>2, ClearRing
  <2>4. pos_stores' \in [Slots -> StoreRecord]
    BY <1>2, <2>1, <2>3 DEF SameStore
  <2>5. \A s \in Slots : pos_stores'[s].owner # NoOwner =>
            pos_stores'[s].owner = pos_stores[s].owner /\ Ring(pos_stores'[s])
    BY <1>2, <2>1, <2>3 DEF SameStore
  <2> QED BY <1>3, <2>4, <2>5, NoNewStore
<1>5. CASE /\ SlotsOf(t, o) = {}
           /\ \E s \in FirstFree(t) : pos_stores' = [t EXCEPT ![s] = Created(t[s], o, n, static)]
  <2>1. PICK s \in FirstFree(t) : pos_stores' = [t EXCEPT ![s] = Created(t[s], o, n, static)]
    BY <1>5
  <2>2. s \in Slots
    BY DEF FirstFree, SlotsOf
  <2>3. PICK v : v = Created(t[s], o, n, static)
    OBVIOUS
  <2>4. v \in StoreRecord /\ Ring(v) /\ v.owner = o
    BY <1>2, <2>2, <2>3, CreateRing
  <2>5. /\ pos_stores' \in [Slots -> StoreRecord]
        /\ pos_stores'[s] = v
        /\ \A r \in Slots : r # s => pos_stores'[r] = t[r]
    BY <1>2, <2>1, <2>2, <2>3, <2>4
  <2>6. \A r \in Slots : t[r].owner # o
    BY <1>5 DEF SlotsOf
  <2>7. Unshared(pos_stores)
    BY DEF StoresInv
  <2>8. Unshared(pos_stores')
    BY <1>2, <2>4, <2>5, <2>6, <2>7 DEF Unshared
  <2>9. \A r \in Slots : pos_stores'[r].owner # NoOwner => Ring(pos_stores'[r])
    BY <1>2, <2>4, <2>5
  <2> QED BY <1>3, <2>5, <2>8, <2>9 DEF StoresInv
<1>6. CASE \E s \in FirstFree(t) : pos_stores' =
               [t EXCEPT ![s] = [t[s] EXCEPT !.mask = n - 1, !.stat_data = FALSE, !.data = NoData]]
  <2>1. PICK s \in FirstFree(t) : pos_stores' =
               [t EXCEPT ![s] = [t[s] EXCEPT !.mask = n - 1, !.stat_data = FALSE, !.data = NoData]]
    BY <1>6
  <2>2. s \in Slots /\ t[s].owner = NoOwner
    BY DEF FirstFree, SlotsOf
  <2>3. PICK v : v = [t[s] EXCEPT !.mask = n - 1, !.stat_data = FALSE, !.data = NoData]
    OBVIOUS
  <2>4. v \in StoreRecord /\ v.owner = NoOwner
    <3>1. n - 1 \in 0 .. 255
      BY StoreAssumption
    <3>2. t[s] \in StoreRecord
      BY <1>2, <2>2
    <3>3. /\ v.owner = NoOwner /\ v.data = NoData /\ v.stat_data = FALSE /\ v.mask = n - 1
          /\ v.sp = t[s].sp /\ v.fp = t[s].fp /\ v.count = t[s].count
      BY <2>2, <2>3, <3>2 DEF StoreRecord
    <3>4. v = [owner |-> v.owner, data |-> v.data, stat_data |-> v.stat_data, sp |-> v.sp,
               fp |-> v.fp, count |-> v.count, mask |-> v.mask]
      BY <2>3, <3>2 DEF StoreRecord
    <3>5. v.sp \in 0 .. 255 /\ v.fp \in 0 .. 255 /\ v.count \in 0 .. 255
      BY <3>2, <3>3 DEF StoreRecord
    <3> QED BY <3>1, <3>3, <3>4, <3>5 DEF StoreRecord
  <2>5. /\ pos_stores' \in [Slots -> StoreRecord]
        /\ pos_stores'[s] = v
        /\ \A r \in Slots : r # s => pos_stores'[r] = t[r]
    BY <1>2, <2>1, <2>2, <2>3, <2>4
  <2>6. \A r \in Slots : pos_stores'[r].owner # NoOwner =>
            pos_stores'[r].owner = pos_stores[r].owner /\ Ring(pos_stores'[r])
    BY <1>2, <2>4, <2>5
  <2> QED BY <1>3, <2>5, <2>6, NoNewStore
<1>7. CASE pos_stores' = t
  BY <1>2, <1>3, <1>7, NoNewStore
<1> QED BY <1>1, <1>4, <1>5, <1>6, <1>7 DEF pos_store_create_size

LEMMA StepInv == StoresInv /\ [Next]_storeVars => StoresInv'
<1> SUFFICES ASSUME StoresInv, [Next]_storeVars PROVE StoresInv'
  OBVIOUS
<1>0. ASSUME pos_stores' = pos_stores, result' \in Results PROVE StoresInv'
  BY <1>0 DEF StoresInv, Unshared
<1>1. ASSUME NEW o \in Owners, NEW n \in Sizes, NEW static \in BOOLEAN,
             pos_store_create_size(o, n, static)
      PROVE  StoresInv'
  BY <1>1, CreateInv
<1>2. ASSUME NEW s \in Owned, pos_store_release(s) PROVE StoresInv'
  <2>1. s \in Slots /\ Released(pos_stores[s]) \in StoreRecord
                    /\ Released(pos_stores[s]).owner = NoOwner
    BY OwnedStore, ReleaseSlot
  <2>2. pos_stores' = [pos_stores EXCEPT ![s] = Released(pos_stores[s])] /\ result' \in Results
    BY <1>2 DEF pos_store_release, Results
  <2>3. /\ pos_stores' \in [Slots -> StoreRecord]
        /\ \A r \in Slots : pos_stores'[r].owner # NoOwner =>
               pos_stores'[r].owner = pos_stores[r].owner /\ Ring(pos_stores'[r])
    BY <2>1, <2>2 DEF StoresInv
  <2> QED BY <2>2, <2>3, NoNewStore
<1>3. ASSUME pos_store_release_all PROVE StoresInv'
  <2>1. pos_stores' = [s \in Slots |-> Released(pos_stores[s])] /\ result' \in Results
    BY <1>3 DEF pos_store_release_all, Results
  <2>2. \A s \in Slots : pos_stores[s] \in StoreRecord
    BY DEF StoresInv
  <2>3. /\ pos_stores' \in [Slots -> StoreRecord]
        /\ \A s \in Slots : pos_stores'[s].owner = NoOwner
    BY <2>1, <2>2, ReleaseSlot
  <2> QED BY <2>1, <2>3, NoNewStore
<1>4. ASSUME NEW s \in Owned, pos_store_clear(s) PROVE StoresInv'
  <2>1. pos_stores' = [pos_stores EXCEPT ![s] = Cleared(pos_stores[s])] /\ result' \in Results
    BY <1>4 DEF pos_store_clear, Results
  <2> QED BY <2>1, OwnedStore, ClearRing, OneStore
<1>5. ASSUME NEW s \in Owned, NEW pos \in Positions, pos_store_insert(s, pos) PROVE StoresInv'
  <2>1. CASE is_full(s)
    BY <1>0, <1>5, <2>1 DEF pos_store_insert, Fail, Results
  <2>2. CASE ~is_full(s)
    <3>1. /\ pos_stores' = [pos_stores EXCEPT ![s] = Inserted(pos_stores[s], pos)]
          /\ result' \in Results
      BY <1>5, <2>2 DEF pos_store_insert, Results
    <3> QED BY <2>2, <3>1, OwnedStore, InsertRing, OneStore
  <2> QED BY <2>1, <2>2
<1>6. ASSUME NEW s \in Owned, NEW pos \in Positions, pos_store_push(s, pos) PROVE StoresInv'
  <2>1. CASE is_full(s)
    BY <1>0, <1>6, <2>1 DEF pos_store_push, Fail, Results
  <2>2. CASE ~is_full(s)
    <3>1. /\ pos_stores' = [pos_stores EXCEPT ![s] = Pushed(pos_stores[s], pos)]
          /\ result' \in Results
      BY <1>6, <2>2 DEF pos_store_push, Results
    <3> QED BY <2>2, <3>1, OwnedStore, PushRing, OneStore
  <2> QED BY <2>1, <2>2
<1>7. ASSUME NEW s \in Owned, pos_store_pop(s) PROVE StoresInv'
  <2>1. CASE is_empty(s)
    BY <1>0, <1>7, <2>1 DEF pos_store_pop, Fail, Results
  <2>2. CASE ~is_empty(s)
    <3>1. /\ pos_stores' = [pos_stores EXCEPT ![s] = Popped(pos_stores[s])]
          /\ result' = FromEnd(pos_stores[s], 1)
      BY <1>7, <2>2 DEF pos_store_pop
    <3>2. pos_stores[s].count # 0
      BY <2>2 DEF is_empty
    <3>3. result' \in Results
      <4>1. 1 \in 1 .. pos_stores[s].count
        BY <3>2, OwnedStore, EndOfRing
      <4> QED BY <3>1, <4>1, OwnedStore, ReadsArePositions DEF Results
    <3> QED BY <3>1, <3>2, <3>3, OwnedStore, PopRing, OneStore
  <2> QED BY <2>1, <2>2
<1>8. ASSUME NEW s \in Owned, pos_store_dequeue(s) PROVE StoresInv'
  <2>1. CASE is_empty(s)
    BY <1>0, <1>8, <2>1 DEF pos_store_dequeue, Fail, Results
  <2>2. CASE ~is_empty(s)
    <3>1. /\ pos_stores' = [pos_stores EXCEPT ![s] = Dequeued(pos_stores[s])]
          /\ result' = pos_stores[s].data[pos_stores[s].fp]
      BY <1>8, <2>2 DEF pos_store_dequeue
    <3>2. pos_stores[s].count # 0
      BY <2>2 DEF is_empty
    <3>3. result' \in Results
      BY <3>1, <3>2, OwnedStore, ReadsArePositions DEF Results
    <3> QED BY <3>1, <3>2, <3>3, OwnedStore, DequeueRing, OneStore
  <2> QED BY <2>1, <2>2
<1>9. ASSUME NEW s \in Owned, NEW n \in Indices, pos_store_top(s, n) PROVE StoresInv'
  <2>1. result' \in Results
    <3>1. CASE n > pos_stores[s].count
      BY <1>9, <3>1 DEF pos_store_top, Results
    <3>2. CASE ~(n > pos_stores[s].count)
      <4>1. n \in 1 .. pos_stores[s].count
        <5>1. n \in 1 .. 255 /\ pos_stores[s].count \in Nat
          BY StoreAssumption, OwnedStore, EndOfRing
        <5> QED BY <3>2, <5>1
      <4> QED BY <1>9, <3>2, <4>1, OwnedStore, ReadsArePositions DEF pos_store_top, Results
    <3> QED BY <3>1, <3>2
  <2> QED BY <1>0, <1>9, <2>1 DEF pos_store_top
<1>10. CASE OnNull
  BY <1>0, <1>10 DEF OnNull, Fail, Results
<1>11. CASE UNCHANGED storeVars
  BY <1>0, <1>11 DEF storeVars, StoresInv
<1> QED BY <1>1, <1>2, <1>3, <1>4, <1>5, <1>6, <1>7, <1>8, <1>9, <1>10, <1>11 DEF Next

LEMMA StoresInvariant == Spec => []StoresInv
BY InitInv, StepInv, PTL DEF Spec

(* The slots keep the fields of pos_store_t, with memory of the right size. *)
THEOREM StoresTypeCorrect == Spec => []TypeOK
BY StoresInvariant, StoresInvIs, PTL

(* The pointers and the count of a store agree, after any operations. *)
THEOREM RingsAreCounted == Spec => []RingIsCounted
BY StoresInvariant, StoresInvIs, PTL

(* A behaviour that asks for stores again and again never has two. *)
THEOREM NoSecondStore == Spec => []OneStoreEach
BY StoresInvariant, StoresInvIs, PTL

-----------------------------------------------------------------------------
(* The refinement: what an array t of slots stores for each owner. *)
LEMMA ItemsAre ==
    ASSUME NEW t, Unshared(t), NEW s \in Slots, t[s].owner # NoOwner
    PROVE  /\ ItemsOf(t, t[s].owner) = Contents(t[s])
           /\ SizeOf(t, t[s].owner) = t[s].mask + 1
<1>1. SlotsOf(t, t[s].owner) # {}
  BY DEF SlotsOf
<1>2. (CHOOSE r \in Slots : t[r].owner = t[s].owner) = s
  BY DEF Unshared
<1> QED BY <1>1, <1>2 DEF ItemsOf, SizeOf

LEMMA NoItems ==
    ASSUME NEW t, NEW o, \A s \in Slots : t[s].owner # o
    PROVE  ItemsOf(t, o) = <<>> /\ SizeOf(t, o) = 0
BY DEF ItemsOf, SizeOf, SlotsOf

(* An owner whose slot a step leaves alone. *)
LEMMA OthersKeep ==
    ASSUME NEW t, NEW u, Unshared(t), Unshared(u), NEW o, o # NoOwner,
           \A s \in Slots : t[s].owner = o <=> u[s].owner = o,
           \A s \in Slots : t[s].owner = o => t[s] = u[s]
    PROVE  ItemsOf(u, o) = ItemsOf(t, o) /\ SizeOf(u, o) = SizeOf(t, o)
<1>1. CASE \A s \in Slots : t[s].owner # o
  BY <1>1, NoItems
<1>2. ASSUME NEW s \in Slots, t[s].owner = o
      PROVE  ItemsOf(u, o) = ItemsOf(t, o) /\ SizeOf(u, o) = SizeOf(t, o)
  <2>1. ItemsOf(t, o) = Contents(t[s]) /\ SizeOf(t, o) = t[s].mask + 1
    BY <1>2, ItemsAre
  <2>2. u[s] = t[s] /\ u[s].owner = o
    BY <1>2
  <2>3. ItemsOf(u, o) = Contents(u[s]) /\ SizeOf(u, o) = u[s].mask + 1
    BY <2>2, ItemsAre
  <2> QED BY <2>1, <2>2, <2>3
<1> QED BY <1>1, <1>2

(* A step on the contents of one store is a step on its owner's queue. *)
LEMMA OneQueue ==
    ASSUME StoresInv, NEW s \in Owned, NEW v, SameStore(pos_stores[s], v),
           pos_stores' = [pos_stores EXCEPT ![s] = v], NEW o, o = pos_stores[s].owner,
           StoresInv'
    PROVE  /\ o \in Owners
           /\ stored[o] = Contents(pos_stores[s]) /\ sizes[o] = pos_stores[s].mask + 1
           /\ stored' = [stored EXCEPT ![o] = Contents(v)]
           /\ sizes' = sizes
<1>1. PICK t : t = pos_stores
  OBVIOUS
<1>2. PICK u : u = pos_stores'
  OBVIOUS
<1>3. /\ o \in Owners /\ o # NoOwner /\ s \in Slots /\ t \in [Slots -> StoreRecord]
      /\ Unshared(t) /\ Unshared(u)
  BY <1>1, <1>2, OwnedStore DEF Owned, StoresInv
<1>4. /\ u[s] = v /\ t[s].owner = o /\ u[s].owner = o /\ u[s].mask = t[s].mask
      /\ \A r \in Slots : r # s => u[r] = t[r]
  BY <1>1, <1>2, <1>3 DEF SameStore
<1>5. /\ ItemsOf(t, o) = Contents(t[s]) /\ SizeOf(t, o) = t[s].mask + 1
      /\ ItemsOf(u, o) = Contents(v) /\ SizeOf(u, o) = t[s].mask + 1
  BY <1>3, <1>4, ItemsAre
<1>6. \A q \in Owners : q # o => ItemsOf(u, q) = ItemsOf(t, q) /\ SizeOf(u, q) = SizeOf(t, q)
  <2> SUFFICES ASSUME NEW q \in Owners, q # o
               PROVE  ItemsOf(u, q) = ItemsOf(t, q) /\ SizeOf(u, q) = SizeOf(t, q)
    OBVIOUS
  <2>1. /\ q # NoOwner
        /\ \A r \in Slots : t[r].owner = q <=> u[r].owner = q
        /\ \A r \in Slots : t[r].owner = q => t[r] = u[r]
    BY <1>4, StoreAssumption
  <2> QED BY <1>3, <2>1, OthersKeep
<1>7. /\ stored = [q \in Owners |-> ItemsOf(t, q)] /\ sizes = [q \in Owners |-> SizeOf(t, q)]
      /\ stored' = [q \in Owners |-> ItemsOf(u, q)] /\ sizes' = [q \in Owners |-> SizeOf(u, q)]
  BY <1>1, <1>2 DEF stored, sizes
<1> QED BY <1>1, <1>3, <1>5, <1>6, <1>7

(* A step on the stores of one owner leaves the queues of the others. *)
LEMMA OwnersStep ==
    ASSUME StoresInv, StoresInv', NEW o \in Owners,
           \A s \in Slots : \/ pos_stores'[s] = pos_stores[s]
                            \/ /\ pos_stores[s].owner \in {o, NoOwner}
                               /\ pos_stores'[s].owner \in {o, NoOwner}
    PROVE  /\ stored' = [stored EXCEPT ![o] = ItemsOf(pos_stores', o)]
           /\ sizes' = [sizes EXCEPT ![o] = SizeOf(pos_stores', o)]
<1>1. PICK t : t = pos_stores
  OBVIOUS
<1>2. PICK u : u = pos_stores'
  OBVIOUS
<1>3. Unshared(t) /\ Unshared(u)
  BY <1>1, <1>2 DEF StoresInv
<1>4. \A q \in Owners : q # o => ItemsOf(u, q) = ItemsOf(t, q) /\ SizeOf(u, q) = SizeOf(t, q)
  <2> SUFFICES ASSUME NEW q \in Owners, q # o
               PROVE  ItemsOf(u, q) = ItemsOf(t, q) /\ SizeOf(u, q) = SizeOf(t, q)
    OBVIOUS
  <2>1. /\ q # NoOwner
        /\ \A r \in Slots : t[r].owner = q <=> u[r].owner = q
        /\ \A r \in Slots : t[r].owner = q => t[r] = u[r]
    BY <1>1, <1>2, StoreAssumption
  <2> QED BY <1>3, <2>1, OthersKeep
<1>5. /\ stored = [q \in Owners |-> ItemsOf(t, q)] /\ sizes = [q \in Owners |-> SizeOf(t, q)]
      /\ stored' = [q \in Owners |-> ItemsOf(u, q)] /\ sizes' = [q \in Owners |-> SizeOf(u, q)]
  BY <1>1, <1>2 DEF stored, sizes
<1> QED BY <1>2, <1>4, <1>5

LEMMA CreateStep ==
    ASSUME StoresInv, StoresInv', NEW o \in Owners, NEW n \in Sizes, NEW static \in BOOLEAN,
           pos_store_create_size(o, n, static)
    PROVE  Deques!Create(o, n)
<1>1. PICK t : t = WithoutOtherSize(o, n)
  OBVIOUS
<1>2. PICK u : u = pos_stores'
  OBVIOUS
<1>3. /\ t \in [Slots -> StoreRecord]
      /\ \A s \in Slots : /\ pos_stores[s].owner # o => t[s] = pos_stores[s]
                          /\ t[s].owner \in {pos_stores[s].owner, NoOwner}
                          /\ t[s].owner = o => t[s] = pos_stores[s] /\ t[s].mask = n - 1
  BY <1>1, ReleaseSlot, StoreAssumption DEF StoresInv, WithoutOtherSize
<1>4. o # NoOwner /\ Unshared(u)
  BY <1>2, StoreAssumption DEF StoresInv
<1>5. ASSUME \A s \in Slots : t[s].owner # o,
             \A s \in Slots : u[s] = t[s] \/ (t[s].owner = NoOwner /\ u[s].owner = NoOwner),
             result' = Failed
      PROVE  Deques!Create(o, n)
  <2>1. \A s \in Slots : u[s].owner # o
    BY <1>4, <1>5
  <2>2. ItemsOf(u, o) = <<>> /\ SizeOf(u, o) = 0
    BY <2>1, NoItems
  <2>3. \A s \in Slots : \/ pos_stores'[s] = pos_stores[s]
                         \/ /\ pos_stores[s].owner \in {o, NoOwner}
                            /\ pos_stores'[s].owner \in {o, NoOwner}
    BY <1>2, <1>3, <1>5
  <2>4. /\ stored' = [stored EXCEPT ![o] = <<>>]
        /\ sizes' = [sizes EXCEPT ![o] = 0]
    BY <1>2, <2>2, <2>3, OwnersStep
  <2> QED BY <1>5, <2>4 DEF Deques!Create, Deques!Drop, Deques!Failed, Failed
<1>6. ASSUME NEW s \in Slots, u[s].owner = o, Contents(u[s]) = <<>>, u[s].mask = n - 1,
             \A r \in Slots : r # s => u[r] = t[r],
             t[s].owner \in {o, NoOwner}, result' = OK
      PROVE  Deques!Create(o, n)
  <2>1. ItemsOf(u, o) = <<>> /\ SizeOf(u, o) = n - 1 + 1
    BY <1>4, <1>6, ItemsAre
  <2>2. n - 1 + 1 = n
    BY StoreAssumption
  <2>3. \A r \in Slots : \/ pos_stores'[r] = pos_stores[r]
                         \/ /\ pos_stores[r].owner \in {o, NoOwner}
                            /\ pos_stores'[r].owner \in {o, NoOwner}
    BY <1>2, <1>3, <1>6
  <2>4. /\ stored' = [stored EXCEPT ![o] = <<>>]
        /\ sizes' = [sizes EXCEPT ![o] = n]
    BY <1>2, <2>1, <2>2, <2>3, OwnersStep
  <2> QED BY <1>6, <2>4 DEF Deques!Create, Deques!OK, OK
<1>7. CASE SlotsOf(t, o) # {}
  <2>1. PICK s \in Slots : t[s].owner = o
    BY <1>7 DEF SlotsOf
  <2>2. u = [r \in Slots |-> IF r \in SlotsOf(t, o) THEN Cleared(t[r]) ELSE t[r]] /\ result' = OK
    BY <1>1, <1>2, <1>7 DEF pos_store_create_size
  <2>3. t[s] = pos_stores[s] /\ t[s].mask = n - 1 /\ t[s] \in StoreRecord
    BY <1>3, <2>1
  <2>4. Ring(t[s])
    BY <1>4, <2>1, <2>3 DEF StoresInv
  <2>5. \A r \in Slots : r # s => t[r].owner # o
    BY <1>3, <1>4, <2>1 DEF StoresInv, Unshared
  <2>6. u[s] = Cleared(t[s]) /\ \A r \in Slots : r # s => u[r] = t[r]
    BY <2>1, <2>2, <2>5 DEF SlotsOf
  <2>7. SameStore(t[s], u[s]) /\ Contents(u[s]) = <<>>
    BY <2>3, <2>4, <2>6, ClearRing
  <2>8. u[s].owner = o /\ u[s].mask = n - 1
    BY <2>1, <2>3, <2>7 DEF SameStore
  <2> QED BY <1>6, <2>1, <2>2, <2>6, <2>7, <2>8
<1>8. CASE SlotsOf(t, o) = {}
  <2>1. \A s \in Slots : t[s].owner # o
    BY <1>8 DEF SlotsOf
  <2>2. \A s \in FirstFree(t) : s \in Slots /\ t[s].owner = NoOwner
    BY DEF FirstFree, SlotsOf
  <2>3. ASSUME NEW s \in FirstFree(t), u = [t EXCEPT ![s] = Created(t[s], o, n, static)],
               result' = OK
        PROVE  Deques!Create(o, n)
    <3>1. /\ s \in Slots /\ t[s].owner = NoOwner /\ t[s] \in StoreRecord
      BY <1>3, <2>2
    <3>2. u[s] = Created(t[s], o, n, static) /\ \A r \in Slots : r # s => u[r] = t[r]
      BY <1>3, <2>3, <3>1
    <3> QED BY <1>6, <2>3, <3>1, <3>2, CreateRing
  <2>4. ASSUME NEW s \in FirstFree(t), result' = Failed,
               u = [t EXCEPT ![s] = [t[s] EXCEPT !.mask = n - 1, !.stat_data = FALSE,
                                                 !.data = NoData]]
        PROVE  Deques!Create(o, n)
    <3>1. /\ s \in Slots /\ t[s].owner = NoOwner /\ t[s] \in StoreRecord
      BY <1>3, <2>2
    <3>2. u[s].owner = NoOwner /\ \A r \in Slots : r # s => u[r] = t[r]
      BY <1>3, <2>4, <3>1 DEF StoreRecord
    <3>3. \A r \in Slots : u[r] = t[r] \/ (t[r].owner = NoOwner /\ u[r].owner = NoOwner)
      BY <3>1, <3>2
    <3> QED BY <1>5, <2>1, <2>4, <3>3, Zenon
  <2>5. CASE u = t /\ result' = Failed
    <3>1. \A r \in Slots : u[r] = t[r] \/ (t[r].owner = NoOwner /\ u[r].owner = NoOwner)
      BY <2>5
    <3> QED BY <1>5, <2>1, <2>5, <3>1, Zenon
  <2> QED BY <1>1, <1>2, <1>8, <2>3, <2>4, <2>5 DEF pos_store_create_size
<1> QED BY <1>7, <1>8

LEMMA QueueOfStore ==
    ASSUME StoresInv, NEW s \in Owned
    PROVE  /\ pos_stores[s].owner \in Owners
           /\ stored[pos_stores[s].owner] = Contents(pos_stores[s])
           /\ sizes[pos_stores[s].owner] = pos_stores[s].mask + 1
<1>1. s \in Slots /\ pos_stores[s].owner # NoOwner /\ Unshared(pos_stores)
      /\ pos_stores[s].owner \in Owners
  BY OwnedStore DEF Owned, StoresInv
<1>2. /\ ItemsOf(pos_stores, pos_stores[s].owner) = Contents(pos_stores[s])
      /\ SizeOf(pos_stores, pos_stores[s].owner) = pos_stores[s].mask + 1
  BY <1>1, ItemsAre
<1> QED BY <1>1, <1>2 DEF stored, sizes

(* A store is full when its queue is as long as the store. *)
LEMMA FullIsFull ==
    ASSUME StoresInv, NEW s \in Owned, ~is_full(s)
    PROVE  Len(Contents(pos_stores[s])) < pos_stores[s].mask + 1
<1>1. /\ Len(Contents(pos_stores[s])) = pos_stores[s].count
      /\ pos_stores[s].mask \in 0 .. 63
      /\ pos_stores[s].count \in 0 .. pos_stores[s].mask + 1
  BY OwnedStore, EndOfRing
<1>2. pos_stores[s].count # pos_stores[s].mask + 1
  BY OwnedStore
<1>3. ASSUME NEW c, NEW m \in 0 .. 63, c \in 0 .. m + 1, c # m + 1 PROVE c < m + 1
  BY <1>3
<1> QED BY <1>1, <1>2, <1>3, Zenon

LEMMA ReadsOfQueue ==
    ASSUME StoresInv, NEW s \in Owned, pos_stores[s].count # 0,
           NEW T, T = Contents(pos_stores[s])
    PROVE  T # <<>> /\ T[1] = Head(T) /\ FromEnd(pos_stores[s], 1) = T[Len(T)]
<1>1. /\ T \in Seq(Positions) /\ Len(T) = pos_stores[s].count /\ pos_stores[s].count \in Nat
      /\ \A k \in 1 .. pos_stores[s].count :
             FromEnd(pos_stores[s], k) = T[pos_stores[s].count + 1 - k]
  BY OwnedStore, EndOfRing
<1>2. 1 \in 1 .. pos_stores[s].count
  BY <1>1
<1>3. FromEnd(pos_stores[s], 1) = T[pos_stores[s].count + 1 - 1]
  BY <1>1, <1>2
<1> QED BY <1>1, <1>2, <1>3

(* Every step of the stores is a step of the queues, or changes nothing. *)
LEMMA QueueStep ==
    StoresInv /\ StoresInv' /\ [Next]_storeVars => [Deques!DequeNext]_(Deques!dequeVars)
<1> SUFFICES ASSUME StoresInv, StoresInv', [Next]_storeVars
             PROVE  [Deques!DequeNext]_(Deques!dequeVars)
  OBVIOUS
<1>0. ASSUME Fail PROVE Deques!DequeNext
  <2>1. stored' = stored /\ sizes' = sizes
    BY <1>0 DEF Fail, stored, sizes
  <2> QED BY <1>0, <2>1 DEF Fail, Failed, Deques!DequeNext, Deques!Fail, Deques!Failed
<1>1. ASSUME NEW o \in Owners, NEW n \in Sizes, NEW static \in BOOLEAN,
             pos_store_create_size(o, n, static)
      PROVE  Deques!DequeNext
  <2>1. Deques!Create(o, n)
    BY <1>1, CreateStep
  <2> QED BY <2>1 DEF Deques!DequeNext
<1>2. ASSUME NEW s \in Owned, pos_store_release(s) PROVE Deques!DequeNext
  <2>1. PICK o \in Owners : o = pos_stores[s].owner
    BY OwnedStore
  <2>2. /\ s \in Slots /\ o # NoOwner
        /\ pos_stores'[s].owner = NoOwner
        /\ \A r \in Slots : r # s => pos_stores'[r] = pos_stores[r]
    BY <1>2, <2>1, OwnedStore, ReleaseSlot, StoreAssumption DEF pos_store_release, StoresInv
  <2>3. \A r \in Slots : pos_stores'[r].owner # o
    BY <2>1, <2>2 DEF StoresInv, Unshared
  <2>4. ItemsOf(pos_stores', o) = <<>> /\ SizeOf(pos_stores', o) = 0
    BY <2>3, NoItems
  <2>5. \A r \in Slots : \/ pos_stores'[r] = pos_stores[r]
                         \/ /\ pos_stores[r].owner \in {o, NoOwner}
                            /\ pos_stores'[r].owner \in {o, NoOwner}
    BY <2>1, <2>2
  <2>6. stored' = [stored EXCEPT ![o] = <<>>] /\ sizes' = [sizes EXCEPT ![o] = 0]
    BY <2>4, <2>5, OwnersStep
  <2>7. Deques!Release(o)
    BY <1>2, <2>6 DEF pos_store_release, OK, Deques!Release, Deques!Drop, Deques!OK
  <2> QED BY <2>7 DEF Deques!DequeNext
<1>3. ASSUME pos_store_release_all PROVE Deques!DequeNext
  <2>1. \A s \in Slots : pos_stores'[s].owner = NoOwner
    <3>1. \A s \in Slots : pos_stores[s] \in StoreRecord
      BY DEF StoresInv
    <3> QED BY <1>3, <3>1, ReleaseSlot DEF pos_store_release_all
  <2>2. \A o \in Owners : ItemsOf(pos_stores', o) = <<>> /\ SizeOf(pos_stores', o) = 0
    BY <2>1, NoItems, StoreAssumption
  <2>3. stored' = [o \in Owners |-> <<>>] /\ sizes' = [o \in Owners |-> 0]
    BY <2>2 DEF stored, sizes
  <2>4. Deques!ReleaseAll
    BY <1>3, <2>3 DEF pos_store_release_all, OK, Deques!ReleaseAll, Deques!OK
  <2> QED BY <2>4 DEF Deques!DequeNext
<1>4. ASSUME NEW s \in Owned, pos_store_clear(s) PROVE Deques!DequeNext
  <2>1. PICK o, v : o = pos_stores[s].owner /\ v = Cleared(pos_stores[s])
    OBVIOUS
  <2>2. SameStore(pos_stores[s], v) /\ Contents(v) = <<>>
    BY <2>1, OwnedStore, ClearRing
  <2>3. pos_stores' = [pos_stores EXCEPT ![s] = v] /\ result' = OK
    BY <1>4, <2>1 DEF pos_store_clear
  <2>4. o \in Owners /\ stored' = [stored EXCEPT ![o] = Contents(v)] /\ sizes' = sizes
    BY <2>1, <2>2, <2>3, OneQueue
  <2>5. Deques!Clear(o)
    BY <2>2, <2>3, <2>4 DEF OK, Deques!Clear, Deques!Change, Deques!OK
  <2> QED BY <2>4, <2>5 DEF Deques!DequeNext
<1>5. ASSUME NEW s \in Owned, NEW pos \in Positions, pos_store_insert(s, pos) PROVE Deques!DequeNext
  <2>1. CASE is_full(s)
    BY <1>0, <1>5, <2>1 DEF pos_store_insert
  <2>2. CASE ~is_full(s)
    <3>1. PICK o, v : o = pos_stores[s].owner /\ v = Inserted(pos_stores[s], pos)
      OBVIOUS
    <3>2. SameStore(pos_stores[s], v) /\ Contents(v) = <<pos>> \o Contents(pos_stores[s])
      BY <2>2, <3>1, OwnedStore, InsertRing
    <3>3. pos_stores' = [pos_stores EXCEPT ![s] = v] /\ result' = OK
      BY <1>5, <2>2, <3>1 DEF pos_store_insert
    <3>4. /\ o \in Owners /\ stored' = [stored EXCEPT ![o] = Contents(v)] /\ sizes' = sizes
          /\ stored[o] = Contents(pos_stores[s]) /\ sizes[o] = pos_stores[s].mask + 1
      BY <3>1, <3>2, <3>3, OneQueue
    <3>5. Len(stored[o]) < sizes[o]
      BY <2>2, <3>4, FullIsFull
    <3>6. Deques!Insert(o, pos)
      BY <3>2, <3>3, <3>4, <3>5 DEF OK, Deques!Insert, Deques!Change, Deques!OK
    <3> QED BY <3>4, <3>6 DEF Deques!DequeNext
  <2> QED BY <2>1, <2>2
<1>6. ASSUME NEW s \in Owned, NEW pos \in Positions, pos_store_push(s, pos) PROVE Deques!DequeNext
  <2>1. CASE is_full(s)
    BY <1>0, <1>6, <2>1 DEF pos_store_push
  <2>2. CASE ~is_full(s)
    <3>1. PICK o, v : o = pos_stores[s].owner /\ v = Pushed(pos_stores[s], pos)
      OBVIOUS
    <3>2. SameStore(pos_stores[s], v) /\ Contents(v) = Append(Contents(pos_stores[s]), pos)
      BY <2>2, <3>1, OwnedStore, PushRing
    <3>3. pos_stores' = [pos_stores EXCEPT ![s] = v] /\ result' = OK
      BY <1>6, <2>2, <3>1 DEF pos_store_push
    <3>4. /\ o \in Owners /\ stored' = [stored EXCEPT ![o] = Contents(v)] /\ sizes' = sizes
          /\ stored[o] = Contents(pos_stores[s]) /\ sizes[o] = pos_stores[s].mask + 1
      BY <3>1, <3>2, <3>3, OneQueue
    <3>5. Len(stored[o]) < sizes[o]
      BY <2>2, <3>4, FullIsFull
    <3>6. Deques!Push(o, pos)
      BY <3>2, <3>3, <3>4, <3>5 DEF OK, Deques!Push, Deques!Change, Deques!OK
    <3> QED BY <3>4, <3>6 DEF Deques!DequeNext
  <2> QED BY <2>1, <2>2
<1>7. ASSUME NEW s \in Owned, pos_store_pop(s) PROVE Deques!DequeNext
  <2>1. CASE is_empty(s)
    BY <1>0, <1>7, <2>1 DEF pos_store_pop
  <2>2. CASE ~is_empty(s)
    <3>1. PICK o, v, T : /\ o = pos_stores[s].owner /\ v = Popped(pos_stores[s])
                         /\ T = Contents(pos_stores[s])
      OBVIOUS
    <3>2. SameStore(pos_stores[s], v) /\ Contents(v) = SubSeq(T, 1, Len(T) - 1)
      BY <2>2, <3>1, OwnedStore, PopRing DEF is_empty
    <3>3. pos_stores' = [pos_stores EXCEPT ![s] = v] /\ result' = FromEnd(pos_stores[s], 1)
      BY <1>7, <2>2, <3>1 DEF pos_store_pop
    <3>4. o \in Owners /\ stored' = [stored EXCEPT ![o] = Contents(v)] /\ sizes' = sizes
          /\ stored[o] = T
      BY <3>1, <3>2, <3>3, OneQueue
    <3>5. FromEnd(pos_stores[s], 1) = T[Len(T)] /\ T # <<>>
      BY <2>2, <3>1, ReadsOfQueue DEF is_empty
    <3>6. Deques!Pop(o)
      BY <3>2, <3>3, <3>4, <3>5 DEF Deques!Pop, Deques!Change
    <3> QED BY <3>4, <3>6 DEF Deques!DequeNext
  <2> QED BY <2>1, <2>2
<1>8. ASSUME NEW s \in Owned, pos_store_dequeue(s) PROVE Deques!DequeNext
  <2>1. CASE is_empty(s)
    BY <1>0, <1>8, <2>1 DEF pos_store_dequeue
  <2>2. CASE ~is_empty(s)
    <3>1. PICK o, v, T : /\ o = pos_stores[s].owner /\ v = Dequeued(pos_stores[s])
                         /\ T = Contents(pos_stores[s])
      OBVIOUS
    <3>2. /\ SameStore(pos_stores[s], v) /\ Contents(v) = Tail(T)
          /\ pos_stores[s].data[pos_stores[s].fp] = T[1]
      BY <2>2, <3>1, OwnedStore, DequeueRing DEF is_empty
    <3>3. /\ pos_stores' = [pos_stores EXCEPT ![s] = v]
          /\ result' = pos_stores[s].data[pos_stores[s].fp]
      BY <1>8, <2>2, <3>1 DEF pos_store_dequeue
    <3>4. o \in Owners /\ stored' = [stored EXCEPT ![o] = Contents(v)] /\ sizes' = sizes
          /\ stored[o] = T
      <4>1. SameStore(pos_stores[s], v) /\ pos_stores' = [pos_stores EXCEPT ![s] = v]
        BY <3>2, <3>3
      <4> QED BY <3>1, <4>1, OneQueue
    <3>5. T # <<>> /\ T[1] = Head(T)
      BY <2>2, <3>1, ReadsOfQueue DEF is_empty
    <3>6. Deques!Dequeue(o)
      BY <3>2, <3>3, <3>4, <3>5 DEF Deques!Dequeue, Deques!Change
    <3> QED BY <3>4, <3>6 DEF Deques!DequeNext
  <2> QED BY <2>1, <2>2
<1>9. ASSUME NEW s \in Owned, NEW n \in Indices, pos_store_top(s, n) PROVE Deques!DequeNext
  <2>1. PICK o, T : o = pos_stores[s].owner /\ T = Contents(pos_stores[s])
    OBVIOUS
  <2>2. o \in Owners /\ stored[o] = T
    BY <2>1, QueueOfStore
  <2>3. stored' = stored /\ sizes' = sizes
    BY <1>9 DEF pos_store_top, stored, sizes
  <2>4. n \in 1 .. 255 /\ pos_stores[s].count \in Nat /\ Len(T) = pos_stores[s].count
    BY <2>1, StoreAssumption, OwnedStore, EndOfRing
  <2>5. n <= Len(T) => FromEnd(pos_stores[s], n) = T[Len(T) + 1 - n]
    <3>1. ASSUME NEW c \in Nat, n <= c PROVE n \in 1 .. c
      BY <2>4, <3>1
    <3>2. n <= Len(T) => n \in 1 .. pos_stores[s].count
      BY <2>4, <3>1, Zenon
    <3> QED BY <2>1, <2>4, <3>2, OwnedStore, EndOfRing
  <2>6. result' = IF n <= Len(T) THEN T[Len(T) + 1 - n] ELSE Failed
    <3>1. n > pos_stores[s].count <=> ~(n <= Len(T))
      BY <2>4, StoreAssumption
    <3>2. result' = IF n > pos_stores[s].count THEN Failed ELSE FromEnd(pos_stores[s], n)
      BY <1>9, Zenon DEF pos_store_top
    <3> QED BY <2>5, <3>1, <3>2, Zenon
  <2>7. Deques!Top(o, n)
    BY <2>2, <2>3, <2>6 DEF Failed, Deques!Top, Deques!Failed
  <2> QED BY <2>2, <2>7 DEF Deques!DequeNext
<1>10. CASE OnNull
  BY <1>0, <1>10 DEF OnNull
<1>11. CASE UNCHANGED storeVars
  BY <1>11 DEF storeVars, Deques!dequeVars, stored, sizes
<1> QED BY <1>1, <1>2, <1>3, <1>4, <1>5, <1>6, <1>7, <1>8, <1>9, <1>10, <1>11 DEF Next

(* The rings implement the queues: what a behaviour finds in its store is   *)
(* what was put there, in order, for any number of owners and slots.        *)
THEOREM RingsImplementDeques == Spec => ImplementsDeques
<1>1. Init => Deques!DequeInit
  <2> SUFFICES ASSUME Init PROVE Deques!DequeInit
    OBVIOUS
  <2>1. \A s \in Slots : pos_stores[s].owner = NoOwner
    BY DEF Init
  <2>2. \A o \in Owners : ItemsOf(pos_stores, o) = <<>> /\ SizeOf(pos_stores, o) = 0
    BY <2>1, NoItems, StoreAssumption
  <2> QED BY <2>2 DEF Deques!DequeInit, Deques!OK, OK, Init, stored, sizes
<1> QED BY <1>1, QueueStep, StoresInvariant, PTL DEF Spec, ImplementsDeques, Deques!DequeSpec

-----------------------------------------------------------------------------
(* Driving over an area (DriveArea). *)
(* A store is full behind a whole line (pos_store.h:37, a power of two). *)
WholeLines == STACK_SIZE \in Nat /\ STACK_SIZE % 2 = 0

Observation == [state : {"start", "end", "stop"}, p1 : BOOLEAN, p2 : BOOLEAN, last : BOOLEAN]

BothEnds == [1 .. 2 -> BOOLEAN]

AreaState ==
    [track : States, next : {"CHECK_TRACKSIDE", "GET_LINE_FROM_STACK", "TURN_TO_NEAREST"},
     border : BOOLEAN, endrequest : BOOLEAN, line : BothEnds,
     store : Seq({TRUE}), obs : [WatchedSides -> Observation]]

OnTheWay == {"TURN_TO_NEAREST", "ONWALL_TO_TRACK", "CHECK_DIST", "GOTO_FIRST_DEST", "TURN_TO_DESTINATION"}

(* Lines of known points, and no half one. *)
Whole(store) == store \in Seq({TRUE}) /\ Len(store) <= STACK_SIZE /\ Len(store) % 2 = 0

(* A line is taken up in the state that is next, too. *)
TakesUp(s) ==
    s.track \in OnTheWay \/ (s.track \in {"AFTER_FORWARD", "DELAY_AFTER_FORWARD"} /\ s.next = "TURN_TO_NEAREST")

(* What holds of the static variables at all times. *)
GoodArea(s) == s \in AreaState /\ Whole(s.store) /\ (TakesUp(s) => s.line = <<TRUE, TRUE>>)

LEMMA LineIsPushed ==
    ASSUME WholeLines, NEW store, Whole(store), NEW p1 \in BOOLEAN, NEW p2 \in BOOLEAN
    PROVE  Whole(push_stack_pos_line(store, p1, p2))
<1>1. CASE p1 /\ p2 /\ Len(store) < STACK_SIZE
  <2>1. p1 = TRUE /\ p2 = TRUE
    BY <1>1, Zenon
  <2>2. Len(store) + 1 < STACK_SIZE
    BY <1>1 DEF WholeLines, Whole
  <2> DEFINE one == Append(store, TRUE)
             two == Append(one, TRUE)
  <2>3. one \in Seq({TRUE}) /\ Len(one) = Len(store) + 1
    BY DEF Whole
  <2> HIDE DEF one
  <2>4. two \in Seq({TRUE}) /\ Len(two) = Len(store) + 2
    BY <2>3 DEF Whole
  <2>5. push_stack_pos_line(store, p1, p2) = two
    <3>1. pushed(store, TRUE) = one
      BY <1>1 DEF pushed, one
    <3>2. pushed(one, TRUE) = two
      BY <2>2, <2>3 DEF pushed
    <3> QED
      BY <2>1, <3>1, <3>2 DEF push_stack_pos_line
  <2> HIDE DEF two
  <2> QED
    BY <2>2, <2>4, <2>5 DEF Whole, WholeLines
<1>2. CASE p1 /\ p2 /\ ~(Len(store) < STACK_SIZE)
  BY <1>2 DEF push_stack_pos_line, pushed
<1>3. CASE ~(p1 /\ p2)
  BY <1>3, Zenon DEF push_stack_pos_line
<1> QED
  BY <1>1, <1>2, <1>3

LEMMA FrontOfSequence ==
    ASSUME NEW S, NEW store \in Seq(S), NEW n \in Nat, n <= Len(store)
    PROVE  SubSeq(store, 1, n) \in Seq(S) /\ Len(SubSeq(store, 1, n)) = n
<1>1. \A i \in 1 .. n : store[i] \in S
  BY ElementOfSeq
<1> QED
  BY <1>1, SubSeqProperties

LEMMA LineIsTaken ==
    ASSUME WholeLines, NEW store, Whole(store)
    PROVE  /\ Whole(WithoutLine(store))
           /\ HasLine(store) => TopLine(store) = <<TRUE, TRUE>>
<1>1. CASE HasLine(store)
  <2>1. Len(store) \in Nat /\ Len(store) >= 2 /\ store \in Seq({TRUE})
    BY <1>1 DEF HasLine, Whole
  <2>2. store[Len(store)] = TRUE /\ store[Len(store) - 1] = TRUE
    <3>1. Len(store) \in 1 .. Len(store) /\ Len(store) - 1 \in 1 .. Len(store)
      BY <2>1
    <3>2. store[Len(store)] \in {TRUE} /\ store[Len(store) - 1] \in {TRUE}
      BY <2>1, <3>1, ElementOfSeq, Zenon
    <3> QED
      BY <3>2, Zenon
  <2> DEFINE n == Len(store) - 2
             rest == SubSeq(store, 1, n)
  <2>3. rest \in Seq({TRUE}) /\ Len(rest) = n
    <3>1. n \in Nat /\ n <= Len(store)
      BY <2>1
    <3> HIDE DEF n
    <3> QED
      BY <2>1, <3>1, FrontOfSequence, Zenon
  <2> HIDE DEF rest
  <2>4. Whole(rest)
    BY <2>1, <2>3 DEF Whole, WholeLines
  <2> QED
    BY <1>1, <2>2, <2>4 DEF WithoutLine, TopLine, rest
<1>2. CASE ~HasLine(store)
  <2>1. WithoutLine(store) = <<>>
    BY <1>2, Zenon DEF WithoutLine
  <2>2. Whole(<<>>)
    BY DEF Whole, WholeLines
  <2> QED
    BY <1>2, <2>1, <2>2, Zenon
<1> QED
  BY <1>1, <1>2

AreaInv == GoodArea(st)

LEMMA EndsOfLines ==
    /\ \A p, q \in BOOLEAN : <<p, q>> \in BothEnds
    /\ \A line \in BothEnds : Swapped(line) \in BothEnds /\ (line = <<TRUE, TRUE>> => Swapped(line) = <<TRUE, TRUE>>)
    /\ \A line \in BothEnds, i \in {1, 2} : [line EXCEPT ![i] = Unknown] \in BothEnds
<1>1. \A p, q \in BOOLEAN : <<p, q>> \in BothEnds
  BY DEF BothEnds
<1>2. ASSUME NEW line \in BothEnds PROVE Swapped(line) \in BothEnds
  BY DEF BothEnds, Swapped
<1>3. Swapped(<<TRUE, TRUE>>) = <<TRUE, TRUE>>
  <2>1. \A p, q : Swapped(<<p, q>>) = <<q, p>>
    BY DEF Swapped
  <2> QED
    BY <2>1, Zenon
<1>4. \A line \in BothEnds, i \in {1, 2} : [line EXCEPT ![i] = Unknown] \in BothEnds
  BY DEF BothEnds, Unknown
<1> QED
  BY <1>1, <1>2, <1>3, <1>4, Zenon

LEMMA AreaStarts == ASSUME WholeLines, AreaInit PROVE AreaInv
<1>1. st \in AreaState
  <2> DEFINE seen == [s \in WatchedSides |-> NoObservation]
             none == <<>>
  <2>1. seen \in [WatchedSides -> Observation]
    BY DEF NoObservation, Observation, Unknown
  <2>2. none \in Seq({TRUE})
    OBVIOUS
  <2>3. st = [track |-> "CHECK_TRACKSIDE", next |-> "CHECK_TRACKSIDE", border |-> FALSE, endrequest |-> FALSE,
              line |-> <<Unknown, Unknown>>, store |-> none, obs |-> seen]
    BY Zenon DEF AreaInit
  <2>4. <<Unknown, Unknown>> \in BothEnds
    BY EndsOfLines, Zenon DEF Unknown
  <2> HIDE DEF seen, none
  <2> QED
    BY <2>1, <2>2, <2>3, <2>4 DEF AreaState, States, Unknown
<1>2. Whole(st.store)
  BY DEF AreaInit, Whole, WholeLines
<1> QED
  BY <1>1, <1>2 DEF AreaInit, AreaInv, GoodArea, TakesUp, OnTheWay

LEMMA LookKeeps ==
    ASSUME AreaInv, NEW s \in WatchedSides, NEW o \in Observation, Look(s, o)
    PROVE  AreaInv'
<1> DEFINE q == [st EXCEPT !.obs[s] = o]
<1>1. q \in AreaState /\ q.store = st.store /\ q.track = st.track /\ q.next = st.next /\ q.line = st.line
  BY DEF AreaInv, GoodArea, AreaState
<1>2. st' = q
  BY DEF Look
<1> HIDE DEF q
<1>3. GoodArea(q)
  BY <1>1 DEF AreaInv, GoodArea, TakesUp
<1> QED
  BY <1>2, <1>3 DEF AreaInv

LEMMA EndOfLineKeeps ==
    ASSUME WholeLines, AreaInv, NEW s \in WatchedSides, NEW o \in Observation, NEW p2 \in BOOLEAN, EndOfLine(s, o, p2)
    PROVE  AreaInv'
<1> DEFINE store == push_stack_pos_line(st.store, o.p1, p2)
           seen == [o EXCEPT !.p2 = p2, !.p1 = Unknown, !.state = EndOr("start")]
           q == [st EXCEPT !.store = store, !.obs[s] = seen]
<1>1. Whole(store)
  BY LineIsPushed DEF AreaInv, GoodArea, Observation
<1>2. seen \in Observation
  BY DEF Observation, Unknown, EndOr
<1>3. st' = q
  BY Zenon DEF EndOfLine
<1> HIDE DEF store, seen
<1>4. q \in AreaState /\ q.store = store /\ q.track = st.track /\ q.next = st.next /\ q.line = st.line
  BY <1>1, <1>2 DEF AreaInv, GoodArea, AreaState, Whole
<1> HIDE DEF q
<1>5. GoodArea(q)
  BY <1>1, <1>4 DEF AreaInv, GoodArea, TakesUp
<1> QED
  BY <1>3, <1>5 DEF AreaInv

LEMMA ObserverKeeps ==
    ASSUME WholeLines, AreaInv, NEW s \in WatchedSides, bot_observe_behaviour(s)
    PROVE  AreaInv'
<1> DEFINE o == st.obs[s]
<1>0. o \in Observation
  BY DEF AreaInv, GoodArea, AreaState
<1>1. CASE observe_get_startpoint(s)
  <2>1. /\ o \in Observation /\ [o EXCEPT !.state = EndOr("start")] \in Observation
        /\ \A p \in BOOLEAN : [o EXCEPT !.p1 = p, !.p2 = Unknown, !.state = "end"] \in Observation
    BY <1>0 DEF Observation, Unknown, EndOr
  <2>2. \/ Look(s, o) \/ Look(s, [o EXCEPT !.state = EndOr("start")])
        \/ \E p \in BOOLEAN : Look(s, [o EXCEPT !.p1 = p, !.p2 = Unknown, !.state = "end"])
    BY <1>1 DEF observe_get_startpoint
  <2> QED
    BY <2>1, <2>2, LookKeeps
<1>2. CASE observe_get_endpoint(s)
  <2> DEFINE Looks == {o, [o EXCEPT !.state = EndOr("start")], [o EXCEPT !.p1 = Unknown, !.state = EndOr("start")],
                       [o EXCEPT !.state = EndOr("end")],
                       [o EXCEPT !.p1 = TRUE, !.p2 = Unknown, !.last = Unknown, !.state = EndOr("end")],
                       [o EXCEPT !.last = TRUE]}
             Ended == {[o EXCEPT !.last = Unknown], [o EXCEPT !.last = TRUE]}
  <2>1. \/ \E x \in Looks : Look(s, x)
        \/ \E x \in Ended : EndOfLine(s, x, o.last) \/ EndOfLine(s, x, TRUE)
    BY <1>2 DEF observe_get_endpoint
  <2>2. Looks \subseteq Observation /\ Ended \subseteq Observation /\ o.last \in BOOLEAN
    BY <1>0 DEF Observation, Unknown, EndOr
  <2> QED
    BY <2>1, <2>2, LookKeeps, EndOfLineKeeps
<1>3. CASE Look(s, [st.obs[s] EXCEPT !.p1 = @ /\ st.obs[s].p2])
  <2> DEFINE both == o.p1 /\ o.p2
             x == [o EXCEPT !.p1 = both]
  <2>1. both \in BOOLEAN
    BY Zenon
  <2>2. Look(s, x)
    BY <1>3, Zenon
  <2> HIDE DEF both
  <2>3. x \in Observation
    BY <1>0, <2>1 DEF Observation
  <2> QED
    BY <2>2, <2>3, LookKeeps
<1> QED
  BY <1>1, <1>2, <1>3 DEF bot_observe_behaviour

(* The steps of the lanes that leave store and line alone. *)
LEMMA MovedIsGood ==
    ASSUME GoodArea(st), NEW track \in States, NEW border \in BOOLEAN, NEW endrequest \in BOOLEAN,
           NEW next \in {"CHECK_TRACKSIDE", "GET_LINE_FROM_STACK", "TURN_TO_NEAREST"},
           NEW q, q = [st EXCEPT !.track = track, !.next = next, !.border = border, !.endrequest = endrequest],
           TakesUp(q) => TakesUp(st)
    PROVE  GoodArea(q)
<1>1. q \in AreaState /\ q.store = st.store /\ q.track = track /\ q.next = next /\ q.line = st.line
  BY DEF GoodArea, AreaState
<1> QED
  BY <1>1 DEF GoodArea

LEMMA StartOfLaneKeeps == ASSUME AreaInv, CHECK_TRACKSIDE \/ GO_FORWARD PROVE AreaInv'
<1> USE DEF AreaInv
<1>1. CASE GoOn([st EXCEPT !.track = "GET_LINE_FROM_STACK"])
  <2> DEFINE q == [st EXCEPT !.track = "GET_LINE_FROM_STACK"]
  <2>1. q \in AreaState /\ q.store = st.store /\ q.track = "GET_LINE_FROM_STACK"
    BY DEF GoodArea, AreaState, States
  <2>2. st' = q
    BY <1>1, Zenon DEF GoOn
  <2> HIDE DEF q
  <2> QED
    BY <2>1, <2>2 DEF GoodArea, TakesUp, OnTheWay
<1>2. CASE st' = start_observe_left_right([st EXCEPT !.track = "GO_FORWARD", !.line[1] = Unknown])
  <2> DEFINE s == [st EXCEPT !.track = "GO_FORWARD", !.line[1] = Unknown]
             obs == [o \in WatchedSides |-> IF Active(o) THEN s.obs[o] ELSE NoObservation]
             q == [s EXCEPT !.endrequest = FALSE, !.obs = obs]
  <2>1. s \in AreaState /\ s.store = st.store /\ s.track = "GO_FORWARD"
    BY DEF GoodArea, AreaState, States, Unknown, BothEnds
  <2>2. st' = q
    BY <1>2, Zenon DEF start_observe_left_right
  <2> HIDE DEF s
  <2>3. obs \in [WatchedSides -> Observation]
    BY <2>1 DEF NoObservation, Observation, Unknown, AreaState
  <2> HIDE DEF obs
  <2>4. q \in AreaState /\ q.store = st.store /\ q.track = "GO_FORWARD"
    BY <2>1, <2>3 DEF AreaState
  <2> HIDE DEF q
  <2> QED
    BY <2>2, <2>4 DEF GoodArea, TakesUp, OnTheWay
<1>3. CASE GO_FORWARD
  <2> DEFINE s == [st EXCEPT !.track = "DELAY_AFTER_FORWARD"]
             q == [s EXCEPT !.next = "GET_LINE_FROM_STACK"]
             r == [s EXCEPT !.next = "CHECK_TRACKSIDE", !.line[2] = Unknown]
  <2>1. s \in AreaState /\ s.store = st.store /\ s.track = "DELAY_AFTER_FORWARD"
    BY DEF GoodArea, AreaState, States
  <2>2. st' \in {q, r}
    BY <1>3, Zenon DEF GO_FORWARD, CallIn
  <2> HIDE DEF s
  <2>3. /\ q \in AreaState /\ q.store = st.store /\ q.track = s.track /\ q.next = "GET_LINE_FROM_STACK"
        /\ r \in AreaState /\ r.store = st.store /\ r.track = s.track /\ r.next = "CHECK_TRACKSIDE"
    BY <2>1 DEF AreaState, Unknown, BothEnds
  <2> HIDE DEF q, r
  <2>4. GoodArea(q) /\ GoodArea(r)
    BY <2>1, <2>3 DEF GoodArea, TakesUp, OnTheWay
  <2> QED
    BY <2>2, <2>4, Zenon
<1>4. \/ GoOn([st EXCEPT !.track = "GET_LINE_FROM_STACK"]) \/ GO_FORWARD
      \/ st' = start_observe_left_right([st EXCEPT !.track = "GO_FORWARD", !.line[1] = Unknown])
  BY Zenon DEF CHECK_TRACKSIDE
<1> QED
  BY <1>1, <1>2, <1>3, <1>4, Zenon

LEMMA EndOfLaneKeeps == ASSUME AreaInv, DELAY_AFTER_FORWARD \/ AFTER_FORWARD PROVE AreaInv'
<1> USE DEF AreaInv
<1>0. /\ st.track \in States /\ st.border \in BOOLEAN /\ st.endrequest \in BOOLEAN
      /\ st.next \in {"CHECK_TRACKSIDE", "GET_LINE_FROM_STACK", "TURN_TO_NEAREST"}
  BY DEF GoodArea, AreaState
<1> DEFINE To(track, border, endrequest) ==
               [st EXCEPT !.track = track, !.next = st.next, !.border = border, !.endrequest = endrequest]
<1>1. CASE DELAY_AFTER_FORWARD
  <2>1. st' = To("AFTER_FORWARD", st.border, st.endrequest) /\ st.track = "DELAY_AFTER_FORWARD"
    BY <1>1 DEF DELAY_AFTER_FORWARD, In, GoodArea, AreaState
  <2>2. TakesUp(st') => TakesUp(st)
    BY <1>0, <2>1 DEF TakesUp, OnTheWay, GoodArea, AreaState
  <2> QED
    BY <1>0, <2>1, <2>2, MovedIsGood DEF States
<1>2. CASE AFTER_FORWARD
  <2>1. st.track = "AFTER_FORWARD"
    BY <1>2, Zenon DEF AFTER_FORWARD, In
  <2>2. \/ st' = To("AFTER_FORWARD", st.border, TRUE)
        \/ st' = To("AFTER_FORWARD", FALSE, st.endrequest)
        \/ st' = To(st.next, FALSE, st.endrequest)
        \/ st' = To("GET_LINE_FROM_STACK", FALSE, st.endrequest)
    <3>1. \/ st' = [st EXCEPT !.endrequest = TRUE] \/ st' = [st EXCEPT !.border = FALSE]
          \/ st' = [st EXCEPT !.border = FALSE, !.track = st.next]
          \/ st' = [st EXCEPT !.border = FALSE, !.track = "GET_LINE_FROM_STACK"]
      BY <1>2, Zenon DEF AFTER_FORWARD, GoOn
    <3>2. /\ [st EXCEPT !.endrequest = TRUE] = To("AFTER_FORWARD", st.border, TRUE)
          /\ [st EXCEPT !.border = FALSE] = To("AFTER_FORWARD", FALSE, st.endrequest)
      BY <2>1 DEF GoodArea, AreaState
    <3>3. /\ [st EXCEPT !.border = FALSE, !.track = st.next] = To(st.next, FALSE, st.endrequest)
          /\ [st EXCEPT !.border = FALSE, !.track = "GET_LINE_FROM_STACK"]
               = To("GET_LINE_FROM_STACK", FALSE, st.endrequest)
      BY DEF GoodArea, AreaState
    <3> QED
      BY <3>1, <3>2, <3>3, Zenon
  <2>3. TakesUp(st') => TakesUp(st)
    BY <1>0, <2>1, <2>2 DEF TakesUp, OnTheWay, GoodArea, AreaState
  <2>4. {"AFTER_FORWARD", "GET_LINE_FROM_STACK", st.next} \subseteq States
    BY <1>0 DEF States
  <2> QED
    BY <1>0, <2>2, <2>3, <2>4, MovedIsGood
<1> QED
  BY <1>1, <1>2

LEMMA WayToLineKeeps ==
    ASSUME AreaInv, TURN_TO_NEAREST \/ ONWALL_TO_TRACK \/ GOTO_FIRST_DEST
    PROVE  AreaInv'
<1> USE DEF AreaInv
<1> DEFINE To(track) == [st EXCEPT !.track = track]
           Back == [To("AFTER_FORWARD") EXCEPT !.next = "TURN_TO_NEAREST", !.line = Swapped(@)]
           Other == [To("TURN_TO_DESTINATION") EXCEPT !.line = Swapped(@)]
<1>1. st \in AreaState /\ Whole(st.store) /\ st.line = <<TRUE, TRUE>>
  BY DEF TURN_TO_NEAREST, ONWALL_TO_TRACK, GOTO_FIRST_DEST, In, GoodArea, TakesUp, OnTheWay
<1>2. Swapped(st.line) = <<TRUE, TRUE>> /\ Swapped(st.line) \in BothEnds
  <2>1. st.line \in BothEnds
    BY <1>1 DEF AreaState
  <2> QED
    BY <1>1, <2>1, EndsOfLines, Zenon
<1>3. \A track \in States : GoodArea(To(track))
  <2> SUFFICES ASSUME NEW track \in States PROVE GoodArea(To(track))
    BY Zenon
  <2>1. To(track) \in AreaState /\ To(track).store = st.store /\ To(track).line = st.line
    BY <1>1 DEF AreaState
  <2> QED
    BY <1>1, <2>1, Zenon DEF GoodArea
<1>4. GoodArea(Back)
  <2> DEFINE s == To("AFTER_FORWARD")
  <2>1. s \in AreaState /\ s.store = st.store /\ s.line = st.line
    BY <1>1 DEF AreaState, States
  <2>2. Back = [s EXCEPT !.next = "TURN_TO_NEAREST", !.line = Swapped(s.line)]
    BY Zenon
  <2> HIDE DEF s
  <2> DEFINE q == [s EXCEPT !.next = "TURN_TO_NEAREST", !.line = Swapped(s.line)]
  <2>3. q \in AreaState /\ q.store = st.store /\ q.line = Swapped(st.line)
    BY <1>2, <2>1 DEF AreaState
  <2> HIDE DEF q
  <2>4. GoodArea(q)
    BY <1>1, <1>2, <2>3, Zenon DEF GoodArea
  <2> QED
    BY <2>2, <2>4, Zenon DEF q
<1>5. GoodArea(Other)
  <2> DEFINE s == To("TURN_TO_DESTINATION")
  <2>1. s \in AreaState /\ s.store = st.store /\ s.line = st.line
    BY <1>1 DEF AreaState, States
  <2>2. Other = [s EXCEPT !.line = Swapped(s.line)]
    BY Zenon
  <2> HIDE DEF s
  <2> DEFINE q == [s EXCEPT !.line = Swapped(s.line)]
  <2>3. q \in AreaState /\ q.store = st.store /\ q.line = Swapped(st.line)
    BY <1>2, <2>1 DEF AreaState
  <2> HIDE DEF q
  <2>4. GoodArea(q)
    BY <1>1, <1>2, <2>3, Zenon DEF GoodArea
  <2> QED
    BY <2>2, <2>4, Zenon DEF q
<1>6. \/ st' = st \/ st' = Back \/ st' = Other
      \/ \E track \in {"ONWALL_TO_TRACK", "GET_LINE_FROM_STACK", "CHECK_DIST", "GOTO_FIRST_DEST",
                       "TURN_TO_DESTINATION"} : st' = To(track)
  <2>1. CASE TURN_TO_NEAREST
    BY <2>1, Zenon DEF TURN_TO_NEAREST, CallIn, GoOn
  <2>2. CASE ONWALL_TO_TRACK
    BY <2>2, Zenon DEF ONWALL_TO_TRACK, CallIn, GoOn
  <2>3. CASE GOTO_FIRST_DEST
    BY <2>3, Zenon DEF GOTO_FIRST_DEST, CallIn, GoOn
  <2> QED
    BY <2>1, <2>2, <2>3, Zenon
<1>7. {"ONWALL_TO_TRACK", "GET_LINE_FROM_STACK", "CHECK_DIST", "GOTO_FIRST_DEST", "TURN_TO_DESTINATION"}
        \subseteq States
  BY DEF States
<1> HIDE DEF To, Back, Other
<1> QED
  BY <1>3, <1>4, <1>5, <1>6, <1>7, Zenon

(* The line goes back on the stack with the one above it. *)
LEMMA BarredLineKeeps == ASSUME WholeLines, AreaInv, CHECK_DIST PROVE AreaInv'
<1> USE DEF AreaInv
<1> DEFINE line == TopLine(st.store)
           one == push_stack_pos_line(WithoutLine(st.store), st.line[1], st.line[2])
           back == push_stack_pos_line(one, line[1], line[2])
           store == IF HasLine(st.store) THEN back ELSE <<>>
           q == [st EXCEPT !.track = "GOTO_FIRST_DEST"]
           r == [st EXCEPT !.track = "GET_LINE_FROM_STACK", !.store = store]
<1>1. st \in AreaState /\ Whole(st.store) /\ st.line = <<TRUE, TRUE>>
  BY DEF CHECK_DIST, In, GoodArea, TakesUp, OnTheWay
<1>2. Whole(<<>>)
  BY DEF Whole, WholeLines
<1>3. Whole(store)
  <2>1. CASE HasLine(st.store)
    <3>1. line = <<TRUE, TRUE>> /\ Whole(WithoutLine(st.store))
      BY <1>1, <2>1, LineIsTaken, Zenon
    <3>2. <<TRUE, TRUE>> \in BothEnds /\ \A p \in BothEnds : p[1] \in BOOLEAN /\ p[2] \in BOOLEAN
      <4>1. \A p \in BothEnds : p[1] \in BOOLEAN /\ p[2] \in BOOLEAN
        BY DEF BothEnds
      <4> QED
        BY <4>1, EndsOfLines, Zenon
    <3> HIDE DEF line
    <3>3. st.line[1] \in BOOLEAN /\ st.line[2] \in BOOLEAN /\ line[1] \in BOOLEAN /\ line[2] \in BOOLEAN
      BY <1>1, <3>1, <3>2, Zenon
    <3>4. Whole(one)
      BY <3>1, <3>3, LineIsPushed, Zenon
    <3> HIDE DEF one
    <3>5. Whole(back)
      BY <3>3, <3>4, LineIsPushed, Zenon
    <3> QED
      BY <2>1, <3>5, Zenon
  <2>2. CASE ~HasLine(st.store)
    BY <1>2, <2>2, Zenon
  <2> QED
    BY <2>1, <2>2
<1>4. st' = q \/ st' = r
  BY Zenon DEF CHECK_DIST, GoOn
<1> HIDE DEF store
<1>5. /\ q \in AreaState /\ q.store = st.store /\ q.line = st.line
      /\ r \in AreaState /\ r.store = store /\ r.line = st.line
  BY <1>1, <1>3 DEF AreaState, States, Whole
<1> HIDE DEF q, r
<1>6. GoodArea(q) /\ GoodArea(r)
  BY <1>1, <1>3, <1>5, Zenon DEF GoodArea
<1> QED
  BY <1>4, <1>6, Zenon

LEMMA NextLineKeeps == ASSUME WholeLines, AreaInv, GET_LINE_FROM_STACK PROVE AreaInv'
<1> USE DEF AreaInv
<1> DEFINE both == <<TRUE, TRUE>>
           store == WithoutLine(st.store)
           s == [st EXCEPT !.endrequest = TRUE, !.store = store]
           End == [s EXCEPT !.track = "TRACK_END"]
           Taken(l) == [[s EXCEPT !.line = TopLine(st.store)] EXCEPT !.line = l]
           To(n, track) == [n EXCEPT !.track = track]
           Back(n) == [n EXCEPT !.track = "AFTER_FORWARD", !.next = "TURN_TO_NEAREST", !.line = both]
<1>1. Whole(store) /\ (HasLine(st.store) => TopLine(st.store) = both)
  BY LineIsTaken DEF GoodArea
<1>2. both \in BothEnds /\ Swapped(both) = both
  BY EndsOfLines, Zenon
<1>3. st.track = "GET_LINE_FROM_STACK"
  BY Zenon DEF GET_LINE_FROM_STACK, In
<1> HIDE DEF store, both
<1>4. s \in AreaState /\ s.store = store /\ s.track = st.track
  BY <1>1, Zenon DEF GoodArea, AreaState, Whole
<1>5. \/ st' = st \/ st' = End
      \/ /\ TopLine(st.store) = both
         /\ \/ st' = Taken(both) \/ st' = Back(Taken(both))
            \/ \E track \in {"TURN_TO_NEAREST", "TURN_TO_DESTINATION"} : st' = To(Taken(both), track)
  <2>1. CASE HasLine(st.store)
    <3>1. TopLine(st.store) = both
      BY <1>1, <2>1
    <3>2. \/ st' = st
          \/ \E l \in {TopLine(st.store), Swapped(TopLine(st.store))} :
               \/ st' = Taken(l)
               \/ st' = To(Taken(l), "TURN_TO_NEAREST")
               \/ st' = [Taken(l) EXCEPT !.track = "AFTER_FORWARD", !.next = "TURN_TO_NEAREST", !.line = Swapped(l)]
               \/ st' = To(Taken(l), "TURN_TO_DESTINATION")
      BY <2>1, Zenon DEF GET_LINE_FROM_STACK, GoOn, CallIn, store
    <3> HIDE DEF Taken
    <3> QED
      BY <1>2, <3>1, <3>2, Zenon
  <2>2. CASE ~HasLine(st.store)
    BY <2>2, Zenon DEF GET_LINE_FROM_STACK, GoOn, store
  <2> QED
    BY <2>1, <2>2
<1>6. GoodArea(End)
  <2> HIDE DEF s
  <2>1. End \in AreaState /\ End.store = store /\ End.track = "TRACK_END"
    BY <1>4 DEF AreaState, States
  <2> HIDE DEF End
  <2> QED
    BY <1>1, <2>1 DEF GoodArea, TakesUp, OnTheWay
<1>7. /\ Taken(both) \in AreaState /\ Taken(both).store = store /\ Taken(both).line = both
  <2> HIDE DEF s
  <2>1. Taken(both) = [s EXCEPT !.line = both]
    BY <1>4 DEF AreaState
  <2> DEFINE n == [s EXCEPT !.line = both]
  <2>2. n \in AreaState /\ n.store = store /\ n.line = both
    BY <1>2, <1>4 DEF AreaState
  <2> QED
    BY <2>1, <2>2, Zenon
<1>8. ASSUME NEW n \in AreaState, n.store = store, n.line = both
      PROVE  /\ GoodArea(n)
             /\ Back(n) \in AreaState /\ Back(n).store = store /\ Back(n).line = both
             /\ \A track \in {"TURN_TO_NEAREST", "TURN_TO_DESTINATION"} :
                  To(n, track) \in AreaState /\ To(n, track).store = store /\ To(n, track).line = both
  <2>1. GoodArea(n)
    BY <1>1, <1>8, Zenon DEF GoodArea, both
  <2>2. Back(n) \in AreaState /\ Back(n).store = store /\ Back(n).line = both
    BY <1>2, <1>8 DEF AreaState, States
  <2>3. ASSUME NEW track \in {"TURN_TO_NEAREST", "TURN_TO_DESTINATION"}
        PROVE  To(n, track) \in AreaState /\ To(n, track).store = store /\ To(n, track).line = both
    BY <1>8, <2>3 DEF AreaState, States
  <2> QED
    BY <2>1, <2>2, <2>3, Zenon
<1> HIDE DEF Taken, Back, To, End
<1> QED
  BY <1>5, <1>6, <1>7, <1>8, Zenon

(* Steps behind which no line is taken up, and those that change none of what counts. *)
LEMMA OtherStepsKeep ==
    ASSUME WholeLines, AreaInv,
           \/ \E state \in {"CHECK_TRACKSIDE", "ONWALL_TO_TRACK", "GOTO_FIRST_DEST", "TURN_TO_DESTINATION"} :
                Pause(state)
           \/ TURN_TO_DESTINATION \/ BackFromBorder \/ TRACK_END \/ bot_drive_area \/ border_drive_area_handler
           \/ UNCHANGED st
    PROVE  AreaInv'
<1> USE DEF AreaInv
<1> DEFINE Lane == [st EXCEPT !.track = "CHECK_TRACKSIDE"]
           Border(border) == [st EXCEPT !.border = border]
           Ended == [st EXCEPT !.endrequest = TRUE]
           none == <<>>
           New == [st EXCEPT !.track = "CHECK_TRACKSIDE", !.border = FALSE, !.store = none]
<1>1. st' = st \/ st' = Lane \/ st' = Ended \/ st' = New \/ \E border \in BOOLEAN : st' = Border(border)
  <2>1. CASE TURN_TO_DESTINATION
    BY <2>1, Zenon DEF TURN_TO_DESTINATION, CallIn, GoOn
  <2>2. CASE BackFromBorder \/ border_drive_area_handler
    BY <2>2, Zenon DEF BackFromBorder, border_drive_area_handler, GoOn
  <2>3. CASE TRACK_END \/ bot_drive_area
    BY <2>3, Zenon DEF TRACK_END, bot_drive_area
  <2> QED
    BY <2>1, <2>2, <2>3, Zenon DEF Pause
<1>2. GoodArea(Lane) /\ GoodArea(New)
  <2>1. Whole(none) /\ none \in Seq({TRUE})
    BY DEF Whole, WholeLines
  <2> HIDE DEF none
  <2>2. /\ Lane \in AreaState /\ Lane.store = st.store /\ Lane.track = "CHECK_TRACKSIDE"
        /\ New \in AreaState /\ New.store = none /\ New.track = "CHECK_TRACKSIDE"
    <3>1. Lane \in AreaState /\ Lane.store = st.store /\ Lane.track = "CHECK_TRACKSIDE"
      BY DEF GoodArea, AreaState, States
    <3>2. New \in AreaState /\ New.store = none /\ New.track = "CHECK_TRACKSIDE"
      BY <2>1 DEF GoodArea, AreaState, States
    <3> QED
      BY <3>1, <3>2
  <2> HIDE DEF Lane, New
  <2> QED
    BY <2>1, <2>2 DEF GoodArea, TakesUp, OnTheWay
<1>3. GoodArea(Ended) /\ \A border \in BOOLEAN : GoodArea(Border(border))
  <2>1. ASSUME NEW q, q \in AreaState, q.store = st.store, q.line = st.line, q.track = st.track, q.next = st.next
        PROVE  GoodArea(q)
    BY <2>1 DEF GoodArea, TakesUp
  <2>2. /\ Ended \in AreaState /\ Ended.store = st.store /\ Ended.line = st.line
        /\ Ended.track = st.track /\ Ended.next = st.next
    BY DEF GoodArea, AreaState
  <2>3. ASSUME NEW border \in BOOLEAN
        PROVE  /\ Border(border) \in AreaState /\ Border(border).store = st.store
               /\ Border(border).line = st.line /\ Border(border).track = st.track
               /\ Border(border).next = st.next
    BY DEF GoodArea, AreaState
  <2> HIDE DEF Ended, Border
  <2> QED
    BY <2>1, <2>2, <2>3, Zenon
<1> HIDE DEF Lane, New, Ended, Border
<1> QED
  BY <1>1, <1>2, <1>3, Zenon

(* The store holds whole lines and the robot drives to known ends.          *)
THEOREM TheLinesAreWhole == ASSUME WholeLines PROVE AreaSpec => []LinesAreWhole
<1>1. AreaInit => AreaInv
  BY AreaStarts
<1>2. AreaInv /\ [AreaNext]_<<beh, st>> => AreaInv'
  <2> SUFFICES ASSUME AreaInv, [AreaNext]_<<beh, st>> PROVE AreaInv'
    OBVIOUS
  <2>1. CASE \E s \in WatchedSides : bot_observe_behaviour(s)
    BY <2>1, ObserverKeeps
  <2>2. CASE bot_drive_area_behaviour
    <3>1. CASE CHECK_TRACKSIDE \/ GO_FORWARD
      BY <3>1, StartOfLaneKeeps
    <3>2. CASE DELAY_AFTER_FORWARD \/ AFTER_FORWARD
      BY <3>2, EndOfLaneKeeps
    <3>3. CASE TURN_TO_NEAREST \/ ONWALL_TO_TRACK \/ GOTO_FIRST_DEST
      BY <3>3, WayToLineKeeps
    <3>4. CASE CHECK_DIST
      BY <3>4, BarredLineKeeps
    <3>5. CASE GET_LINE_FROM_STACK
      BY <3>5, NextLineKeeps
    <3>6. CASE \/ \E s \in {"CHECK_TRACKSIDE", "ONWALL_TO_TRACK", "GOTO_FIRST_DEST"} : Pause(s)
               \/ Pause("TURN_TO_DESTINATION")
               \/ TURN_TO_DESTINATION \/ BackFromBorder \/ TRACK_END
      BY <3>6, OtherStepsKeep, Zenon
    <3> QED
      BY <2>2, <3>1, <3>2, <3>3, <3>4, <3>5, <3>6, Zenon DEF bot_drive_area_behaviour
  <2>3. CASE bot_drive_area \/ border_drive_area_handler \/ UNCHANGED st
    BY <2>3, OtherStepsKeep, Zenon
  <2>4. CASE \/ \E b \in {"goto", "turn", "wave", "delay"} : Ends(b, {SUCCESS, FAIL})
             \/ Stopped("goto") \/ EmergencyStop \/ UNCHANGED <<beh, st>>
    <3>1. UNCHANGED st
      <4>1. \A b, r : Ends(b, r) => UNCHANGED st
        BY Zenon DEF Ends
      <4> QED
        BY <2>4, <4>1, Zenon DEF Stopped, EmergencyStop
    <3> QED
      BY <3>1, OtherStepsKeep, Zenon
  <2> QED
    BY <2>1, <2>2, <2>3, <2>4, Zenon DEF AreaNext
<1>3. AreaInv => LinesAreWhole
  <2> SUFFICES ASSUME AreaInv PROVE LinesAreWhole
    OBVIOUS
  <2>1. st.store \in Seq({TRUE}) /\ Len(st.store) % 2 = 0 /\ (TakesUp(st) => st.line = <<TRUE, TRUE>>)
    BY DEF AreaInv, GoodArea, Whole
  <2>2. \A i \in DOMAIN st.store : st.store[i]
    <3>1. \A i \in 1 .. Len(st.store) : st.store[i] \in {TRUE}
      BY <2>1, ElementOfSeq
    <3>2. DOMAIN st.store = 1 .. Len(st.store)
      BY <2>1
    <3> QED
      BY <3>1, <3>2, Zenon
  <2> QED
    BY <2>1, <2>2, Zenon DEF LinesAreWhole, TakesUp, OnTheWay
<1> QED
  BY <1>1, <1>2, <1>3, PTL DEF AreaSpec
=============================================================================
