----------------------------- MODULE Services_proofs -----------------------------
(***************************************************************************)
(* Proofs about three services.  The map: its blocks are not mixed, every     *)
(* field has a place of its own, and sightings move the value of a field    *)
(* their way.  Bot-2-bot: an order is carried out only when all of it is    *)
(* there, and success is true.  Recorded ways: a drive over the whole of its *)
(* way ends where the way began.                                            *)
(***************************************************************************)
EXTENDS BotMap, BotToBot, DriveStack, SequenceTheorems, TLAPS

-----------------------------------------------------------------------------
(* Blocks are not mixed, whatever the number of blocks, the size of the ring  *)
(* and the number of updates: the invariant knows of every update in the    *)
(* ring, in the buffer and in the file that it has been made, and of the    *)
(* last two that they are at home.                                          *)
Indices == 0 .. CACHE_SIZE - 1

MapState ==
    [file : [Blocks -> SUBSET Facts], min_max_updated : BOOLEAN, buffer : SUBSET Facts, block : Blocks,
     updated : BOOLEAN, free : BOOLEAN, fifo : Seq(Indices), ring : [Indices -> 0 .. MAX_UPDATES],
     index : Indices, place : Seq([Parts -> Blocks]),
     thread : {"get", "lock", "location", "distance", "unlock"}, at : Indices, done : SUBSET Facts]

Made(m, n) == n <= Len(m.place)
AtHome(m, facts, b) == \A fact \in facts : Made(m, fact[1]) /\ m.place[fact[1]][fact[2]] = b

Sound(m) ==
    /\ m \in MapState
    /\ Len(m.place) <= MAX_UPDATES
    /\ \A i \in Indices : Made(m, m.ring[i])
    /\ \A b \in Blocks : AtHome(m, m.file[b], b)
    /\ AtHome(m, m.buffer, m.block)

Locked(m) == m.free <=> m.thread \in {"get", "lock"}
Room(m) == Len(m.fifo) < CACHE_SIZE

MapInv == Sound(mp) /\ Locked(mp) /\ Room(mp)

(* What of the state the operations on the buffer leave alone. *)
Others(m) == <<m.free, m.fifo, m.ring, m.index, m.place, m.thread, m.at>>

MapSizes == FirstBlock \in Blocks /\ CACHE_SIZE \in Nat \ {0} /\ MAX_UPDATES \in Nat

(* Writing the block back, reading another one, entering a fact that belongs *)
(* to it and letting the header through keep the map sound.                 *)
LEMMA WriteBackIsSound ==
    ASSUME NEW m, Sound(m)
    PROVE  Sound(WriteBack(m)) /\ Others(WriteBack(m)) = Others(m) /\ WriteBack(m).block = m.block
BY DEF Sound, MapState, WriteBack, AtHome, Made, Others

LEMMA SectionIsSound ==
    ASSUME NEW m, Sound(m), NEW b \in Blocks
    PROVE  Sound(get_section(m, b)) /\ Others(get_section(m, b)) = Others(m) /\ get_section(m, b).block = b
<1> DEFINE w == WriteBack(m)
<1>1. Sound(w) /\ Others(w) = Others(m)
  BY WriteBackIsSound
<1>2. CASE m.block = b
  BY <1>2 DEF get_section
<1>3. CASE m.block # b
  <2>1. get_section(m, b) = [w EXCEPT !.block = b, !.buffer = w.file[b]]
    BY <1>3 DEF get_section
  <2>2. w.file[b] \in SUBSET Facts /\ AtHome(w, w.file[b], b)
    BY <1>1 DEF Sound, MapState
  <2>3. w \in MapState
    BY <1>1 DEF Sound
  <2> DEFINE g == get_section(m, b)
  <2> HIDE DEF w
  <2>4. /\ g \in MapState
        /\ Others(g) = Others(w) /\ g.file = w.file /\ g.place = w.place /\ g.ring = w.ring
        /\ g.block = b /\ g.buffer = w.file[b]
    BY <2>1, <2>2, <2>3 DEF MapState, Others
  <2> HIDE DEF g
  <2>5. Sound(g)
    BY <1>1, <2>2, <2>4 DEF Sound, AtHome, Made
  <2> QED
    BY <1>1, <2>4, <2>5 DEF g
<1> QED
  BY <1>2, <1>3

LEMMA FieldIsSound ==
    ASSUME NEW m, Sound(m), NEW b \in Blocks, NEW set \in SUBSET Facts, AtHome(m, set, b)
    PROVE  Sound(access_field(m, b, set)) /\ Others(access_field(m, b, set)) = Others(m)
<1> DEFINE g == get_section(m, b)
<1>1. Sound(g) /\ Others(g) = Others(m) /\ g.block = b
  BY SectionIsSound
<1>2. access_field(m, b, set) = [g EXCEPT !.buffer = @ \cup set, !.updated = @ \/ set # {}]
  BY DEF access_field
<1>3. g.place = m.place
  BY <1>1 DEF Others
<1> DEFINE a == access_field(m, b, set)
<1>4. (g.updated \/ set # {}) \in BOOLEAN
  OBVIOUS
<1> HIDE DEF g
<1>5. /\ a \in MapState
      /\ Others(a) = Others(g) /\ a.file = g.file /\ a.place = g.place /\ a.ring = g.ring
      /\ a.block = b /\ a.buffer = g.buffer \cup set
  BY <1>1, <1>2, <1>4 DEF Sound, MapState, Others
<1> HIDE DEF a
<1>6. AtHome(a, a.buffer, b) /\ \A c \in Blocks : AtHome(a, a.file[c], c)
  BY <1>1, <1>3, <1>5 DEF Sound, AtHome, Made
<1>7. Sound(a)
  BY <1>1, <1>5, <1>6 DEF Sound, Made
<1> QED
  BY <1>1, <1>5, <1>7 DEF a

LEMMA HeaderIsSound ==
    ASSUME NEW m, Sound(m)
    PROVE  Sound(WriteHeader(m)) /\ Others(WriteHeader(m)) = Others(m)
BY DEF Sound, MapState, WriteHeader, AtHome, Made, Others

(* A state whose map is sound, with nothing else changed but the step of the *)
(* update thread and the lock together with it.                             *)
LEMMA OthersKeep ==
    ASSUME NEW m, NEW n, m \in MapState, n \in MapState, Others(n) = Others(m), Locked(m), Room(m)
    PROVE  Locked(n) /\ Room(n)
BY DEF Others, Locked, Room

LEMMA StartIsSound ==
    ASSUME MapSizes, MapInit
    PROVE  MapInv
<1>1. mp \in MapState
  <2>1. [i \in 0 .. CACHE_SIZE - 1 |-> None] \in [Indices -> 0 .. MAX_UPDATES]
    BY DEF MapSizes, None, Indices
  <2>2. 0 \in Indices
    BY DEF MapSizes, Indices
  <2> QED
    BY <2>1, <2>2 DEF MapSizes, MapInit, MapState
<1>2. Sound(mp)
  BY <1>1 DEF MapSizes, MapInit, Sound, AtHome, Made, None, Indices
<1> QED
  BY <1>2 DEF MapSizes, MapInit, MapInv, Locked, Room

(* Soundness is about the blocks, the updates and the ring only. *)
SameMap(m, n) == /\ n.file = m.file /\ n.buffer = m.buffer /\ n.block = m.block
                 /\ n.place = m.place /\ n.ring = m.ring

LEMMA SameIsSound ==
    ASSUME NEW m, NEW n, Sound(m), n \in MapState, SameMap(m, n)
    PROVE  Sound(n)
BY DEF SameMap, Sound, AtHome, Made

(* The main thread makes an update: a new one has a number of its own, and   *)
(* there is room in the FIFO.                                               *)
LEMMA ScanIsSound ==
    ASSUME MapSizes, MapInv, bot_scan_onthefly_behaviour
    PROVE  MapInv'
<1> DEFINE i == (mp.index + 1) % CACHE_SIZE
           cleared == [mp EXCEPT !.index = i, !.ring[i] = None]
<1>1. Sound(mp) /\ mp \in MapState /\ Locked(mp) /\ Room(mp)
  BY DEF MapInv, Sound
<1>2. i \in Indices
  BY <1>1 DEF MapSizes, MapState, Indices
<1>3. None \in 0 .. MAX_UPDATES /\ \A m : m.place \in Seq([Parts -> Blocks]) => Made(m, None)
  BY DEF MapSizes, None, Made
<1> HIDE DEF i
<1>4. /\ cleared \in MapState
      /\ cleared.place = mp.place /\ cleared.file = mp.file /\ cleared.buffer = mp.buffer
      /\ cleared.block = mp.block /\ cleared.fifo = mp.fifo /\ cleared.free = mp.free
      /\ cleared.thread = mp.thread /\ cleared.ring = [mp.ring EXCEPT ![i] = None]
  BY <1>1, <1>2, <1>3 DEF MapState
<1>5. Sound(cleared)
  <2> HIDE DEF cleared
  <2>1. ASSUME NEW j \in Indices
        PROVE  Made(cleared, cleared.ring[j])
    <3>1. mp.ring \in [Indices -> 0 .. MAX_UPDATES] /\ Made(mp, mp.ring[j]) /\ Made(cleared, None)
      BY <1>1, <1>3, <1>4 DEF Sound, MapState
    <3>2. cleared.ring[j] = IF j = i THEN None ELSE mp.ring[j]
      BY <1>4, <3>1
    <3> QED
      BY <1>4, <3>1, <3>2 DEF Made
  <2> QED
    BY <1>1, <1>4, <2>1 DEF Sound, AtHome, Made
<1>6. CASE mp' = cleared
  <2>1. Locked(cleared) /\ Room(cleared)
    BY <1>1, <1>4 DEF Locked, Room
  <2> HIDE DEF cleared
  <2> QED
    BY <1>5, <1>6, <2>1 DEF MapInv
<1>7. ASSUME Len(mp.place) < MAX_UPDATES, CACHE_SIZE - Len(mp.fifo) # 1, NEW place \in [Parts -> Blocks],
             mp' = [cleared EXCEPT !.place = Append(@, place), !.ring[i] = Len(mp.place) + 1, !.fifo = Append(@, i)]
      PROVE  MapInv'
  <2> HIDE DEF cleared
  <2>1. mp.place \in Seq([Parts -> Blocks]) /\ mp.fifo \in Seq(Indices) /\ Len(mp.place) \in Nat /\ Len(mp.fifo) \in Nat
    BY <1>1 DEF MapState
  <2>2. /\ Append(mp.place, place) \in Seq([Parts -> Blocks])
        /\ Len(Append(mp.place, place)) = Len(mp.place) + 1
        /\ \A n \in 1 .. Len(mp.place) : Append(mp.place, place)[n] = mp.place[n]
    BY <2>1
  <2>3. Append(mp.fifo, i) \in Seq(Indices) /\ Len(Append(mp.fifo, i)) = Len(mp.fifo) + 1
    BY <1>2, <2>1
  <2>4. Len(mp.place) + 1 \in 0 .. MAX_UPDATES
    BY <1>7, <2>1 DEF MapSizes
  <2>5. /\ mp' \in MapState
        /\ mp'.place = Append(mp.place, place) /\ mp'.file = mp.file /\ mp'.buffer = mp.buffer
        /\ mp'.block = mp.block /\ mp'.fifo = Append(mp.fifo, i) /\ mp'.free = mp.free
        /\ mp'.thread = mp.thread /\ mp'.ring = [cleared.ring EXCEPT ![i] = Len(mp.place) + 1]
    BY <1>4, <1>7, <2>2, <2>3, <2>4 DEF MapState
  <2>6. ASSUME NEW j \in Indices
        PROVE  Made(mp', mp'.ring[j])
    <3>1. cleared.ring \in [Indices -> 0 .. MAX_UPDATES] /\ Made(cleared, cleared.ring[j])
      BY <1>5 DEF Sound, MapState
    <3>2. mp'.ring[j] = IF j = i THEN Len(mp.place) + 1 ELSE cleared.ring[j]
      BY <1>2, <2>5, <3>1
    <3> QED
      BY <1>4, <2>1, <2>2, <2>4, <2>5, <3>1, <3>2 DEF Made
  <2>7. ASSUME NEW facts \in SUBSET Facts, NEW b, AtHome(mp, facts, b)
        PROVE  AtHome(mp', facts, b)
    BY <2>1, <2>2, <2>5, <2>7 DEF AtHome, Made, Facts, MapSizes
  <2>8. Sound(mp')
    <3>1. \A b \in Blocks : mp.file[b] \in SUBSET Facts
      BY <1>1 DEF MapState
    <3>2. mp.buffer \in SUBSET Facts
      BY <1>1 DEF MapState
    <3>3. Len(mp'.place) <= MAX_UPDATES
      BY <1>7, <2>1, <2>2, <2>5 DEF MapSizes
    <3>4. \A b \in Blocks : AtHome(mp', mp'.file[b], b)
      BY <1>1, <2>5, <2>7, <3>1 DEF Sound
    <3>5. AtHome(mp', mp'.buffer, mp'.block)
      BY <1>1, <2>5, <2>7, <3>2 DEF Sound
    <3> QED
      BY <2>5, <2>6, <3>3, <3>4, <3>5 DEF Sound
  <2>9. Locked(mp') /\ Room(mp')
    <3>1. Locked(mp')
      BY <1>1, <2>5 DEF Locked
    <3>2. Len(mp.fifo) < CACHE_SIZE /\ CACHE_SIZE \in Nat
      BY <1>1 DEF Room, MapSizes
    <3>3. Len(mp.fifo) + 1 < CACHE_SIZE
      BY <1>7, <2>1, <3>2
    <3>4. Len(mp'.fifo) < CACHE_SIZE
      BY <2>3, <2>5, <3>3
    <3> QED
      BY <3>1, <3>4 DEF Room
  <2> QED
    BY <2>8, <2>9 DEF MapInv
<1> QED
  BY <1>6, <1>7 DEF bot_scan_onthefly_behaviour, Becomes, i, cleared

-----------------------------------------------------------------------------
(* The update thread. *)
LEMMA GetIndexIsSound ==
    ASSUME MapInv, GetIndex, MapSizes
    PROVE  MapInv'
<1>1. Sound(mp) /\ mp \in MapState /\ Locked(mp) /\ Room(mp)
  BY DEF MapInv, Sound
<1>2. mp.fifo \in Seq(Indices) /\ mp.fifo # <<>>
  BY <1>1 DEF MapState, GetIndex
<1>3. Head(mp.fifo) \in Indices /\ Tail(mp.fifo) \in Seq(Indices) /\ Len(Tail(mp.fifo)) = Len(mp.fifo) - 1
  BY <1>2, HeadTailProperties
<1>4. /\ mp' \in MapState /\ SameMap(mp, mp')
      /\ mp'.free = mp.free /\ mp'.thread = "lock" /\ mp.thread = "get" /\ mp'.fifo = Tail(mp.fifo)
  BY <1>1, <1>3 DEF MapState, GetIndex, ThreadGoes, Becomes, SameMap
<1>5. Sound(mp')
  BY <1>1, <1>4, SameIsSound
<1>6. Len(mp.fifo) \in Nat
  BY <1>2
<1> QED
  BY <1>1, <1>3, <1>4, <1>5, <1>6 DEF MapInv, Locked, Room, MapSizes

LEMMA LockIsSound ==
    ASSUME MapInv, Lock
    PROVE  MapInv'
<1>1. Sound(mp) /\ mp \in MapState /\ Locked(mp) /\ Room(mp)
  BY DEF MapInv, Sound
<1>2. /\ mp' \in MapState /\ SameMap(mp, mp')
      /\ mp'.free = FALSE /\ mp'.thread = "location" /\ mp'.fifo = mp.fifo
  BY <1>1 DEF MapState, Lock, ThreadGoes, Becomes, SameMap
<1>3. Sound(mp')
  BY <1>1, <1>2, SameIsSound
<1> QED
  BY <1>1, <1>2, <1>3 DEF MapInv, Locked, Room

LEMMA EnterIsSound ==
    ASSUME MapInv, NEW part \in Parts, NEW next \in {"distance", "unlock"}, Enter(part, next)
    PROVE  MapInv'
<1> DEFINE n == mp.ring[mp.at]
<1>1. Sound(mp) /\ mp \in MapState /\ Locked(mp) /\ Room(mp) /\ mp.thread = part
  BY DEF MapInv, Sound, Enter
<1>2. mp.free = FALSE
  BY <1>1 DEF MapState, Locked, Parts
<1>3. ASSUME NEW m, Sound(m), Others(m) = Others(mp), mp' = [m EXCEPT !.thread = next]
      PROVE  MapInv'
  <2>1. m \in MapState /\ m.free = FALSE /\ m.fifo = mp.fifo
    BY <1>2, <1>3 DEF Sound, Others
  <2>2. mp' \in MapState /\ SameMap(m, mp') /\ mp'.free = FALSE /\ mp'.fifo = mp.fifo /\ mp'.thread = next
    BY <1>3, <2>1 DEF MapState, SameMap
  <2>3. Sound(mp')
    BY <1>3, <2>2, SameIsSound
  <2> QED
    BY <1>1, <2>2, <2>3 DEF MapInv, Locked, Room
<1>4. CASE mp' = [mp EXCEPT !.thread = next]
  BY <1>1, <1>3, <1>4
<1>5. ASSUME n # None, NEW wider \in BOOLEAN,
             mp' = [[access_field(mp, mp.place[n][part], {<<n, part>>})
                       EXCEPT !.min_max_updated = @ \/ wider, !.done = @ \cup {<<n, part>>}] EXCEPT !.thread = next]
      PROVE  MapInv'
  <2> DEFINE b == mp.place[n][part]
             set == {<<n, part>>}
             a == access_field(mp, b, set)
             m == [a EXCEPT !.min_max_updated = @ \/ wider, !.done = @ \cup set]
  <2>1. n \in 1 .. MAX_UPDATES /\ n \in 1 .. Len(mp.place)
    <3>1. mp.at \in Indices /\ mp.ring \in [Indices -> 0 .. MAX_UPDATES]
      BY <1>1 DEF MapState
    <3>2. n \in 0 .. MAX_UPDATES /\ Made(mp, n)
      BY <1>1, <3>1 DEF Sound
    <3>3. Len(mp.place) \in Nat
      BY <1>1 DEF MapState
    <3> QED
      BY <1>5, <3>2, <3>3 DEF None, Made
  <2>2. b \in Blocks
    BY <1>1, <2>1 DEF MapState
  <2>3. set \in SUBSET Facts
    BY <2>1 DEF Facts
  <2>4. AtHome(mp, set, b)
    BY <1>1, <2>1 DEF AtHome, Made, Sound, MapState
  <2> HIDE DEF n, b, set
  <2>5. Sound(a) /\ Others(a) = Others(mp)
    BY <1>1, <2>2, <2>3, <2>4, FieldIsSound
  <2> HIDE DEF a
  <2>6. m \in MapState /\ SameMap(a, m) /\ Others(m) = Others(a)
    BY <1>5, <2>3, <2>5 DEF Sound, MapState, SameMap, Others
  <2>7. Sound(m)
    BY <2>5, <2>6, SameIsSound
  <2>8. mp' = [m EXCEPT !.thread = next]
    BY <1>5 DEF a, b, set, n
  <2> HIDE DEF m
  <2> QED
    BY <1>3, <2>5, <2>6, <2>7, <2>8
<1> QED
  BY <1>4, <1>5 DEF Enter, ThreadGoes, Becomes

LEMMA UnlockIsSound ==
    ASSUME MapInv, Unlock
    PROVE  MapInv'
<1> DEFINE w == WriteBack(mp)
           h == WriteHeader(w)
           e == Entered(mp)
<1>1. Sound(mp) /\ mp \in MapState /\ Locked(mp) /\ Room(mp)
  BY DEF MapInv, Sound
<1>2. Sound(w) /\ Others(w) = Others(mp)
  BY <1>1, WriteBackIsSound
<1> HIDE DEF w
<1>3. Sound(h) /\ Others(h) = Others(w)
  BY <1>2, HeaderIsSound
<1>4. Sound(e) /\ Others(e) = Others(mp)
  <2>1. CASE e = mp
    BY <1>1, <2>1
  <2>2. CASE e = [h EXCEPT !.min_max_updated = FALSE]
    <3> HIDE DEF h, e
    <3>1. e \in MapState /\ SameMap(h, e) /\ Others(e) = Others(h)
      BY <1>3, <2>2 DEF Sound, MapState, SameMap, Others
    <3> QED
      BY <1>2, <1>3, <3>1, SameIsSound
  <2> QED
    BY <2>1, <2>2 DEF Entered, h, w
<1> HIDE DEF e
<1>5. mp' = [[e EXCEPT !.free = TRUE] EXCEPT !.thread = "get"]
  BY DEF Unlock, ThreadGoes, Becomes, e
<1>6. mp' \in MapState /\ SameMap(e, mp') /\ mp'.free = TRUE /\ mp'.thread = "get" /\ mp'.fifo = mp.fifo
  BY <1>4, <1>5 DEF Sound, MapState, SameMap, Others
<1>7. Sound(mp')
  BY <1>4, <1>6, SameIsSound
<1> QED
  BY <1>1, <1>6, <1>7 DEF MapInv, Locked, Room

-----------------------------------------------------------------------------
(* The main thread, while nobody has the lock. *)
LEMMA OthersSuffice ==
    ASSUME MapInv, Sound(mp'), Others(mp') = Others(mp)
    PROVE  MapInv'
BY OthersKeep DEF MapInv, Sound

LEMMA ReadsAreSound ==
    ASSUME MapInv, Reads
    PROVE  MapInv'
<1>1. PICK first \in Blocks, last \in Blocks :
          mp' = get_section(get_section(map_flush_cache(mp), first), last)
  BY DEF Reads, Becomes
<1> DEFINE f == map_flush_cache(mp)
           g == get_section(f, first)
           h == get_section(g, last)
<1>2. Sound(f) /\ Others(f) = Others(mp)
  BY HeaderIsSound DEF MapInv, map_flush_cache
<1> HIDE DEF f
<1>3. Sound(g) /\ Others(g) = Others(f)
  BY <1>2, SectionIsSound
<1> HIDE DEF g
<1>4. Sound(h) /\ Others(h) = Others(g)
  BY <1>3, SectionIsSound
<1>5. mp' = h
  BY <1>1 DEF f, g
<1> HIDE DEF h
<1> QED
  BY <1>2, <1>3, <1>4, <1>5, OthersSuffice

LEMMA CleanIsSound ==
    ASSUME MapInv, map_clean
    PROVE  MapInv'
<1> DEFINE f == map_flush_cache(mp)
<1>1. PICK parts \in SUBSET Parts, last \in Blocks :
          mp' = Cleared(f, (1 .. MAX_UPDATES) \X parts, last)
  BY DEF map_clean, Becomes
<1> DEFINE gone == (1 .. MAX_UPDATES) \X parts
<1>2. Sound(f) /\ Others(f) = Others(mp)
  BY HeaderIsSound DEF MapInv, map_flush_cache
<1> HIDE DEF f, gone
<1>3. f \in MapState
  BY <1>2 DEF Sound
<1>4. mp' = Cleared(f, gone, last)
  BY <1>1 DEF gone
<1>5. /\ [b \in Blocks |-> IF b = last THEN f.file[b] ELSE f.file[b] \ gone] \in [Blocks -> SUBSET Facts]
      /\ f.file[last] \ gone \in SUBSET Facts /\ f.done \ gone \in SUBSET Facts
      /\ (f.file[last] \cap gone # {} \/ (f.updated /\ Blocks = {last})) \in BOOLEAN
  BY <1>3 DEF MapState
<1>6. /\ mp' \in MapState
      /\ Others(mp') = Others(f) /\ mp'.place = f.place /\ mp'.ring = f.ring /\ mp'.block = last
      /\ mp'.file = [b \in Blocks |-> IF b = last THEN f.file[b] ELSE f.file[b] \ gone]
      /\ mp'.buffer = f.file[last] \ gone
  BY <1>3, <1>4, <1>5 DEF MapState, Cleared, Others
<1>7. AtHome(mp', mp'.buffer, mp'.block) /\ \A b \in Blocks : AtHome(mp', mp'.file[b], b)
  BY <1>2, <1>6 DEF Sound, AtHome, Made
<1>8. Sound(mp')
  BY <1>2, <1>6, <1>7 DEF Sound, Made
<1> QED
  BY <1>2, <1>6, <1>8, OthersSuffice

LEMMA LoadIsSound ==
    ASSUME MapSizes, MapInv, map_load_from_file
    PROVE  MapInv'
<1>1. CASE mp' = map_flush_cache(mp)
  BY <1>1, HeaderIsSound, OthersSuffice DEF MapInv, map_flush_cache
<1>2. CASE mp' = [mp EXCEPT !.file = [b \in Blocks |-> {}], !.min_max_updated = FALSE,
                            !.block = FirstBlock, !.buffer = {}, !.updated = FALSE, !.done = {}]
  <2>1. Sound(mp) /\ mp \in MapState
    BY DEF MapInv, Sound
  <2>2. /\ mp' \in MapState
        /\ Others(mp') = Others(mp) /\ mp'.place = mp.place /\ mp'.ring = mp.ring
        /\ mp'.buffer = {} /\ \A b \in Blocks : mp'.file[b] = {}
    BY <1>2, <2>1 DEF MapSizes, MapState, Others
  <2>3. Sound(mp')
    BY <2>1, <2>2 DEF Sound, AtHome, Made
  <2> QED
    BY <2>2, <2>3, OthersSuffice
<1> QED
  BY <1>1, <1>2 DEF map_load_from_file, Becomes

LEMMA SaveIsSound ==
    ASSUME MapInv, map_save_to_file
    PROVE  MapInv'
<1> DEFINE f == map_flush_cache(mp)
<1>1. Sound(f) /\ Others(f) = Others(mp)
  BY HeaderIsSound DEF MapInv, map_flush_cache
<1>2. mp' = WriteHeader(f)
  BY DEF map_save_to_file, Becomes
<1> HIDE DEF f
<1> QED
  BY <1>1, <1>2, HeaderIsSound, OthersSuffice

-----------------------------------------------------------------------------
LEMMA MapStep ==
    ASSUME MapSizes, MapInv, [MapNext]_mp
    PROVE  MapInv'
<1>1. CASE bot_scan_onthefly_behaviour
  BY <1>1, ScanIsSound
<1>2. CASE map_update_main
  <2>1. CASE GetIndex
    BY <2>1, GetIndexIsSound
  <2>2. CASE Lock
    BY <2>2, LockIsSound
  <2>3. CASE Enter("location", "distance")
    BY <2>3, EnterIsSound DEF Parts
  <2>4. CASE Enter("distance", "unlock")
    BY <2>4, EnterIsSound DEF Parts
  <2>5. CASE Unlock
    BY <2>5, UnlockIsSound
  <2> QED
    BY <1>2, <2>1, <2>2, <2>3, <2>4, <2>5 DEF map_update_main
<1>3. CASE Reads
  BY <1>3, ReadsAreSound
<1>4. CASE map_clean
  BY <1>4, CleanIsSound
<1>5. CASE map_load_from_file
  BY <1>5, LoadIsSound
<1>6. CASE map_save_to_file
  BY <1>6, SaveIsSound
<1>7. CASE UNCHANGED mp
  BY <1>7 DEF MapInv
<1> QED
  BY <1>1, <1>2, <1>3, <1>4, <1>5, <1>6, <1>7 DEF MapNext

(* The state stays in its ranges, who enters updates has the lock, and the   *)
(* FIFO keeps a place free.                                                 *)
LEMMA InvIsTyped ==
    ASSUME MapSizes, MapInv
    PROVE  MapTypeOK
<1>1. mp \in MapState /\ Locked(mp) /\ Room(mp)
  BY DEF MapInv, Sound
<1>2. mp.fifo \in Seq(Indices) /\ Len(mp.fifo) \in Nat /\ Len(mp.fifo) <= CACHE_SIZE - 1
  BY <1>1 DEF MapState, Room, MapSizes
<1>3. mp.fifo \in [1 .. Len(mp.fifo) -> Indices] /\ Len(mp.fifo) \in 0 .. CACHE_SIZE - 1
  BY <1>2, LenProperties DEF MapSizes
<1>4. mp.fifo \in BoundedSeq(0 .. CACHE_SIZE - 1, CACHE_SIZE - 1)
  BY <1>3 DEF BoundedSeq, SeqOf, Indices
<1> QED
  BY <1>1, <1>4 DEF MapTypeOK, MapState, Locked

LEMMA InvIsUnmixed ==
    ASSUME MapInv
    PROVE  BlocksAreNotMixed
BY DEF MapInv, Sound, AtHome, BlocksAreNotMixed, Visible

(* With any number of blocks, places and updates: the blocks are never mixed *)
(* up by the one buffer for all of them and for the header (map.c:521-622). *)
THEOREM MapIsNotMixed ==
    ASSUME MapSizes
    PROVE  MapSpec => [](MapTypeOK /\ BlocksAreNotMixed)
<1>1. MapInit => MapInv
  BY StartIsSound
<1>2. MapInv /\ [MapNext]_mp => MapInv'
  BY MapStep
<1>3. MapInv => MapTypeOK /\ BlocksAreNotMixed
  BY InvIsTyped, InvIsUnmixed
<1> QED
  BY <1>1, <1>2, <1>3, PTL DEF MapSpec

-----------------------------------------------------------------------------
(* Places. *)
LEMMA Measures ==
    /\ POINTS = 1536 /\ MAP_BLOCK_SIZE = 512 /\ MAP_FILE_SIZE = 4608
BY DEF POINTS, MAP_SIZE_MM, MAP_RESOLUTION, MAP_BLOCK_SIZE, MAP_SECTION_POINTS, MAP_FILE_SIZE

(* Both ways to compute a place give the eighth part of its distance from the *)
(* first one.                                                               *)
LEMMA PlaceOfPc ==
    ASSUME NEW c \in FirstPlace .. FirstPlace + MAP_SIZE_MM - 1
    PROVE  WorldToMapPc(c) = (c + 6144) \div 8 /\ WorldToMapPc(c) \in 0 .. POINTS - 1
BY Measures DEF WorldToMapPc, Quotient, FirstPlace, MAP_SIZE_MM, MAP_RESOLUTION

LEMMA PlaceOfMcu ==
    ASSUME NEW c \in FirstPlace .. FirstPlace + MAP_SIZE_MM - 1
    PROVE  WorldToMapMcu(c) = (c + 6144) \div 8
<1>1. 2 ^ 16 = 65536 /\ 2 ^ 12 = 4096 /\ 2 ^ 13 = 8192 /\ 2 ^ 15 = 32768
  OBVIOUS
<1> QED
  BY <1>1 DEF WorldToMapMcu, FirstPlace, MAP_SIZE_MM

(* The block of a pair of sections: by macro blocks, of which there are three *)
(* by three, and in these row by row.                                       *)
LEMMA BlockOf ==
    ASSUME NEW a \in 0 .. 2, NEW b \in 0 .. 15, NEW c \in 0 .. 2, NEW d \in 0 .. 31
    PROVE  get_block(32 * (16 * a + b), 16 * (32 * c + d)) = b + 16 * d + 512 * (a + 3 * c)
<1>1. 2 ^ 16 = 65536
  OBVIOUS
<1> QED
  BY <1>1, Measures DEF get_block, MACRO_BLOCK_LENGTH, MAP_SECTION_POINTS

LEMMA SameSet == \A S, T : S \subseteq T /\ T \subseteq S => S = T
OBVIOUS

(* So no two pairs share a block and none is left out.                      *)
LEMMA EachBlockOnce ==
    BlocksUsed = 0 .. MAP_FILE_SIZE - 1
<1> DEFINE All == 0 .. MAP_FILE_SIZE - 1
<1> SUFFICES BlocksUsed = All
  OBVIOUS
<1>1. Corners = {32 * i : i \in 0 .. 47} \X {16 * j : j \in 0 .. 95}
  <2>1. POINTS \div (2 * 16) - 1 = 47 /\ POINTS \div 16 - 1 = 95
    BY Measures
  <2>2. {2 * 16 * i : i \in 0 .. POINTS \div (2 * 16) - 1} = {32 * i : i \in 0 .. 47}
    <3>1. \A i \in 0 .. 47 : 2 * 16 * i = 32 * i
      OBVIOUS
    <3> QED
      BY <2>1, <3>1, Zenon
  <2>3. {16 * i : i \in 0 .. POINTS \div 16 - 1} = {16 * j : j \in 0 .. 95}
    BY <2>1
  <2> QED
    BY <2>2, <2>3 DEF Corners, MAP_SECTION_POINTS
<1>2. ASSUME NEW k \in BlocksUsed
      PROVE  k \in All
  <2>1. PICK i \in 0 .. 47, j \in 0 .. 95 : k = get_block(32 * i, 16 * j)
    BY <1>1, <1>2 DEF BlocksUsed
  <2> DEFINE a == i \div 16  b == i % 16  c == j \div 32  d == j % 32
  <2>2. /\ a \in 0 .. 2 /\ b \in 0 .. 15 /\ c \in 0 .. 2 /\ d \in 0 .. 31
        /\ i = 16 * a + b /\ j = 32 * c + d
    OBVIOUS
  <2> HIDE DEF a, b, c, d
  <2>3. k = b + 16 * d + 512 * (a + 3 * c)
    BY <2>1, <2>2, BlockOf
  <2> QED
    BY <2>2, <2>3, Measures
<1>3. ASSUME NEW k \in All
      PROVE  k \in BlocksUsed
  <2> DEFINE m == k \div 512  r == k % 512
             a == m % 3  c == m \div 3  b == r % 16  d == r \div 16
             i == 16 * a + b  j == 32 * c + d
  <2>1. m \in 0 .. 8 /\ r \in 0 .. 511 /\ k = 512 * m + r
    BY Measures
  <2> HIDE DEF m, r
  <2>2. /\ a \in 0 .. 2 /\ c \in 0 .. 2 /\ m = a + 3 * c
        /\ b \in 0 .. 15 /\ d \in 0 .. 31 /\ r = b + 16 * d
    BY <2>1
  <2> HIDE DEF a, b, c, d
  <2>3. i \in 0 .. 47 /\ j \in 0 .. 95
    BY <2>2
  <2>4. k = get_block(32 * i, 16 * j)
    <3>1. k = b + 16 * d + 512 * (a + 3 * c)
      BY <2>1, <2>2
    <3>2. get_block(32 * (16 * a + b), 16 * (32 * c + d)) = b + 16 * d + 512 * (a + 3 * c)
      BY <2>2, BlockOf
    <3> QED
      BY <3>1, <3>2
  <2>5. <<32 * i, 16 * j>> \in Corners
    BY <1>1, <2>3
  <2> QED
    BY <2>4, <2>5 DEF BlocksUsed
<1> HIDE DEF All
<1>4. BlocksUsed \subseteq All /\ All \subseteq BlocksUsed
  BY <1>2, <1>3, Zenon
<1> QED
  BY <1>4, SameSet, Zenon

-----------------------------------------------------------------------------
(* Sightings, for every probability the byte prob can have. *)
Bytes == Probabilities \subseteq 0 .. 255

FieldState == [value : -128 .. 127, coord : FirstPlace .. FirstPlace + MAP_SIZE_MM - 1]
FieldInv == field \in FieldState

(* The conversion to int8_t of numbers that leave its range at one end. *)
LEMMA Int8Wraps ==
    ASSUME NEW n \in -256 .. 255
    PROVE  Int8(n) = IF n < -128 THEN n + 256 ELSE IF n > 127 THEN n - 256 ELSE n
BY DEF Int8

LEMMA FreeStepsAreUp == Bytes => FreeSteps \subseteq 1 .. 20
<1> SUFFICES ASSUME Bytes, NEW s \in {MAP_STEP_FREE_SENSOR, MAP_STEP_FREE_LOCATION}, NEW p \in Probabilities
             PROVE  Int8(Quotient((s - 1) * p, 255) + 1) \in 1 .. 20
  BY DEF FreeSteps
<1>1. p \in 0 .. 255
  BY DEF Bytes
<1>2. Quotient((s - 1) * p, 255) \in 0 .. 19
  <2>1. CASE s = MAP_STEP_FREE_SENSOR
    BY <1>1, <2>1 DEF Quotient, MAP_STEP_FREE_SENSOR
  <2>2. CASE s = MAP_STEP_FREE_LOCATION
    BY <1>1, <2>2 DEF Quotient, MAP_STEP_FREE_LOCATION
  <2> QED
    BY <2>1, <2>2
<1> DEFINE q == Quotient((s - 1) * p, 255)
<1> HIDE DEF q
<1>3. q \in 0 .. 19
  BY <1>2 DEF q
<1>4. Int8(q + 1) = q + 1
  BY <1>3, Int8Wraps
<1> QED
  BY <1>3, <1>4 DEF q

LEMMA OccupiedStepsAreDown == Bytes => OccupiedSteps \subseteq -5 .. -1
<1> DEFINE strength(d) == Quotient(-(MAP_STEP_OCCUPIED * MAP_STEP_OCCUPIED),
                                   Larger(Int8(d) \div 2, MAP_STEP_OCCUPIED)) + 1
<1> SUFFICES ASSUME Bytes, NEW d \in 0 .. MAP_RADIUS_FIELDS * MAP_RADIUS_FIELDS, NEW p \in Probabilities
             PROVE  Int8(Quotient(strength(d) * p, 255) - 1) \in -5 .. -1
  BY DEF OccupiedSteps
<1>1. p \in 0 .. 255
  BY DEF Bytes
<1>2. d \in 0 .. 36 /\ Int8(d) = d
  BY Int8Wraps DEF MAP_RADIUS_FIELDS, MAP_RESOLUTION
<1>3. strength(d) \in -4 .. 0
  <2> DEFINE l == Larger(d \div 2, 5)
  <2>1. l \in 5 .. 18
    BY <1>2 DEF Larger
  <2>2. strength(d) = -(25 \div l) + 1
    BY <1>2 DEF Quotient, MAP_STEP_OCCUPIED
  <2> HIDE DEF l
  <2>3. 25 \div l \in 1 .. 5
    BY <2>1
  <2> QED
    BY <2>2, <2>3
<1> DEFINE t == strength(d)
<1> HIDE DEF strength
<1>4. t \in {-4, -3, -2, -1, 0}
  BY <1>3
<1> DEFINE q == Quotient(t * p, 255)
<1>5. q \in -4 .. 0
  <2> HIDE DEF t
  <2>1. \A k \in 0 .. 4 : (k * p) \div 255 \in 0 .. 4
    <3>1. (0 * p) \div 255 \in 0 .. 4 /\ (1 * p) \div 255 \in 0 .. 4 /\ (2 * p) \div 255 \in 0 .. 4
      BY <1>1
    <3>2. (3 * p) \div 255 \in 0 .. 4 /\ (4 * p) \div 255 \in 0 .. 4
      BY <1>1
    <3> QED
      BY <3>1, <3>2
  <2>2. -t \in 0 .. 4 /\ -(t * p) = (-t) * p
    BY <1>1, <1>4
  <2>3. q = IF t * p < 0 THEN -((-(t * p)) \div 255) ELSE (t * p) \div 255
    BY DEF Quotient
  <2>4. t * p < 0 \/ t * p = 0
    BY <1>1, <1>4
  <2>5. ((-t) * p) \div 255 \in 0 .. 4
    BY <2>1, <2>2
  <2> QED
    BY <2>2, <2>3, <2>4, <2>5
<1> HIDE DEF q
<1>6. Int8(q - 1) = q - 1
  BY <1>5, Int8Wraps
<1> QED
  BY <1>5, <1>6 DEF q, t

(* One more or less, without an overflow and without making an abyss. *)
LEMMA FieldGoesUp ==
    ASSUME NEW old \in -128 .. 127, NEW step \in 1 .. 20
    PROVE  /\ update_field(old, step) \in old .. 127
           /\ update_field(old, step) = -128 <=> old = -128
<1>1. old + step \in -256 .. 255
  OBVIOUS
<1> QED
  BY <1>1, Int8Wraps DEF update_field

LEMMA FieldGoesDown ==
    ASSUME NEW old \in -128 .. 127, NEW step \in -5 .. -1
    PROVE  /\ update_field(old, step) \in -128 .. old
           /\ update_field(old, step) = -128 <=> old = -128
<1>1. old + step \in -256 .. 255
  OBVIOUS
<1> QED
  BY <1>1, Int8Wraps DEF update_field

LEMMA SeenFreeCounts ==
    ASSUME Bytes, field \in FieldState, SeenFree
    PROVE  /\ field' \in FieldState
           /\ field'.value >= field.value
           /\ field'.value = -128 <=> field.value = -128
<1>1. PICK step \in FreeSteps : field' = [field EXCEPT !.value = update_field(@, step)]
  BY DEF SeenFree
<1>2. step \in 1 .. 20 /\ field.value \in -128 .. 127
  BY FreeStepsAreUp DEF FieldState
<1>3. /\ update_field(field.value, step) \in field.value .. 127
      /\ update_field(field.value, step) = -128 <=> field.value = -128
  BY <1>2, FieldGoesUp
<1> QED
  BY <1>1, <1>2, <1>3 DEF FieldState

LEMMA SeenOccupiedCounts ==
    ASSUME Bytes, field \in FieldState, SeenOccupied
    PROVE  /\ field' \in FieldState
           /\ field'.value <= field.value
           /\ field'.value = -128 <=> field.value = -128
<1>1. PICK step \in OccupiedSteps : field' = [field EXCEPT !.value = update_field(@, step)]
  BY DEF SeenOccupied
<1>2. step \in -5 .. -1 /\ field.value \in -128 .. 127
  BY OccupiedStepsAreDown DEF FieldState
<1>3. /\ update_field(field.value, step) \in -128 .. field.value
      /\ update_field(field.value, step) = -128 <=> field.value = -128
  BY <1>2, FieldGoesDown
<1> QED
  BY <1>1, <1>2, <1>3 DEF FieldState

LEMMA FieldStarts == FieldInit => FieldInv
BY DEF FieldInit, FieldInv, FieldState, FirstPlace, MAP_SIZE_MM

LEMMA FieldStep ==
    ASSUME Bytes, FieldInv, [FieldNext]_field
    PROVE  FieldInv'
<1>1. CASE SeenFree
  BY <1>1, SeenFreeCounts DEF FieldInv
<1>2. CASE SeenOccupied
  BY <1>2, SeenOccupiedCounts DEF FieldInv
<1>3. CASE set_value_occupied
  BY <1>3 DEF set_value_occupied, FieldInv, FieldState
<1>4. CASE map_clean_field
  BY <1>4 DEF map_clean_field, FieldInv, FieldState
<1> QED
  BY <1>1, <1>2, <1>3, <1>4 DEF FieldNext, FieldInv

(* A field never leaves int8_t, and a sighting moves it its way from every   *)
(* value and at every probability (map.c:736-756, 823-848, 900-1002).       *)
THEOREM SightingsCount ==
    ASSUME Bytes
    PROVE  FieldSpec => []FieldTypeOK /\ SightingsCountTheirWay
<1>1. FieldInit => FieldInv
  BY FieldStarts
<1>2. FieldInv /\ [FieldNext]_field => FieldInv'
  BY FieldStep
<1>3. FieldInv => FieldTypeOK
  BY DEF FieldInv, FieldState, FieldTypeOK
<1>4. FieldInv => SightingCounts
  BY SeenFreeCounts, SeenOccupiedCounts DEF SightingCounts, FieldInv
<1> QED
  BY <1>1, <1>2, <1>3, <1>4, PTL DEF FieldSpec, SightingsCountTheirWay

LEMMA PlacesAreTheirs ==
    ASSUME FieldInv
    PROVE  FieldsHaveTheirPlace
<1>1. field.coord \in FirstPlace .. FirstPlace + MAP_SIZE_MM - 1
  BY DEF FieldInv, FieldState
<1> QED
  BY <1>1, PlaceOfPc, PlaceOfMcu, EachBlockOnce DEF FieldsHaveTheirPlace

(* Blocks are not mixed, both ways to compute a place agree, and each block  *)
(* of the file is that of one pair of sections (map.c:215-249, 489-622).    *)
THEOREM TheMapIsKept ==
    ASSUME MapSizes, Bytes
    PROVE  BotMapSpec => []MapIsKept
<1>1. MapSpec => []BlocksAreNotMixed
  BY MapIsNotMixed, PTL
<1>2. FieldInit => FieldInv
  BY FieldStarts
<1>3. FieldInv /\ [FieldNext]_field => FieldInv'
  BY FieldStep
<1>4. FieldInv => FieldsHaveTheirPlace
  BY PlacesAreTheirs
<1> QED
  BY <1>1, <1>2, <1>3, <1>4, PTL DEF BotMapSpec, FieldSpec, MapIsKept

-----------------------------------------------------------------------------
(* Bot-2-bot. *)

(* One robot asks, the other one answers, and nothing is sent again. *)
OneAsks ==
    /\ \E a, b : a # b /\ Bots = {a, b} /\ Requesters = {a}
    /\ ~RETRY
    /\ WINDOW \in Nat \ {0} /\ Sizes \subseteq Nat \ {0} /\ LOSSES \in Nat

Asker == CHOOSE a \in Requesters : TRUE
Answerer == OtherBot(Asker)

Cells == Nat \X Nat
Messages ==
    [cmd : {"REQ"}, size : Nat] \cup [cmd : {"ACK"}, result : 0 .. 2]
    \cup [cmd : {"PAYLOAD"}, last : BOOLEAN, data : Seq(Cells)]
    \cup [cmd : {"WELCOME"}] \cup [cmd : {"STATE"}, state : {"available", "busy"}]

Robot == [size : Int, data : Int, callback : BOOLEAN, addr : BOOLEAN, sending : Nat, buffer : Seq(Cells)]

BotState ==
    [net : [Bots -> Seq(Messages)], losses : Nat, disturbed : BOOLEAN, bots : [Bots -> Robot],
     list : [Bots -> {"unknown", "available", "busy"}], transfers : Seq(Sizes),
     delivered : SUBSET Nat, torn : BOOLEAN, succeeded : SUBSET Nat]

-----------------------------------------------------------------------------
(* Of the messages on their way at most one belongs to a transfer. *)
Chatter == {"STATE", "WELCOME"}
Silent(q) == \A i \in 1 .. Len(q) : q[i].cmd \in Chatter
Lone(q, m) == \E i \in 1 .. Len(q) : q[i] = m /\ \A j \in 1 .. Len(q) : j # i => q[j].cmd \in Chatter

Request(n) == [cmd |-> "REQ", size |-> n]
Answer(x) == [cmd |-> "ACK", result |-> x]
Part(t, k, n, last) == [cmd |-> "PAYLOAD", last |-> last, data |-> [i \in 1 .. n |-> <<t, k + i>>]]

Now(s) == Len(s.transfers)
Length(s) == s.transfers[Len(s.transfers)]

AskerHas(s, k) ==
    LET r == s.bots[Asker] IN r.addr /\ r.data = k /\ r.size = Length(s) - k

Begins(buffer, t, k) == Len(buffer) >= k /\ \A i \in 1 .. k : buffer[i] = <<t, i>>

AnswererHas(s, k) ==
    LET r == s.bots[Answerer] IN r.addr /\ r.data = k /\ Begins(r.buffer, Now(s), k)

OnItsWay(s, from, to, m) == Lone(s.net[to], m) /\ Silent(s.net[from])

Requested(s) == OnItsWay(s, Asker, Answerer, Request(Length(s))) /\ AskerHas(s, 0)
TurnedDown(s) == OnItsWay(s, Answerer, Asker, Answer(1)) /\ AskerHas(s, 0)
Awaited(s) ==
    \E k \in 0 .. Length(s) :
        OnItsWay(s, Answerer, Asker, Answer(0)) /\ AskerHas(s, k) /\ AnswererHas(s, k)
Carried(s) ==
    \E k, n \in 0 .. Length(s), last \in BOOLEAN :
        /\ k + n <= Length(s) /\ (last => k + n = Length(s))
        /\ OnItsWay(s, Asker, Answerer, Part(Now(s), k, n, last))
        /\ AskerHas(s, k + n) /\ AnswererHas(s, k)
Arrived(s) ==
    /\ OnItsWay(s, Answerer, Asker, Answer(2))
    /\ AskerHas(s, Length(s)) /\ Now(s) \in s.delivered

UnderWay(s) ==
    /\ Now(s) > 0
    /\ s.disturbed \/ s.bots[Asker].sending # 0
    /\ Requested(s) \/ TurnedDown(s) \/ Awaited(s) \/ Carried(s) \/ Arrived(s)

TransferOver(s) ==
    /\ Silent(s.net[Asker]) /\ Silent(s.net[Answerer])
    /\ s.bots[Asker].size = -2 => Now(s) \in s.delivered

TransferOK(s) ==
    /\ s \in BotState
    /\ ~s.torn /\ s.succeeded \subseteq s.delivered
    /\ s.bots[Answerer].sending = 0
    /\ s.bots[Asker].sending \in {0, Now(s)}
    /\ Now(s) > 0 => s.bots[Asker].buffer = [i \in 1 .. Length(s) |-> <<Now(s), i>>]
    /\ UnderWay(s) \/ TransferOver(s)

-----------------------------------------------------------------------------
LEMMA TheTwo ==
    ASSUME OneAsks
    PROVE  /\ Asker # Answerer /\ Bots = {Asker, Answerer} /\ Requesters = {Asker}
           /\ OtherBot(Asker) = Answerer /\ OtherBot(Answerer) = Asker
<1>1. PICK a, b : a # b /\ Bots = {a, b} /\ Requesters = {a}
  BY DEF OneAsks
<1>2. Asker = a
  BY <1>1 DEF Asker
<1>3. Answerer = b /\ OtherBot(b) = a
  BY <1>1, <1>2 DEF Answerer, OtherBot
<1> QED
  BY <1>1, <1>2, <1>3 DEF Answerer

-----------------------------------------------------------------------------
(* Queues. *)
LEMMA TailIs ==
    ASSUME NEW q \in Seq(Messages), q # <<>>
    PROVE  /\ Tail(q) \in Seq(Messages) /\ Len(q) \in Nat /\ Len(q) > 0 /\ Len(Tail(q)) = Len(q) - 1
           /\ Head(q) = q[1] /\ \A i \in 1 .. Len(q) - 1 : Tail(q)[i] = q[i + 1]
OBVIOUS

LEMMA SilentTail ==
    ASSUME NEW q \in Seq(Messages), q # <<>>, Silent(q)
    PROVE  Silent(Tail(q))
BY TailIs DEF Silent

LEMMA LoneTail ==
    ASSUME NEW q \in Seq(Messages), q # <<>>, Head(q).cmd \in Chatter,
           NEW m, m.cmd \notin Chatter, Lone(q, m)
    PROVE  Lone(Tail(q), m)
<1>1. PICK i \in 1 .. Len(q) : q[i] = m /\ \A j \in 1 .. Len(q) : j # i => q[j].cmd \in Chatter
  BY DEF Lone
<1>2. i # 1
  BY <1>1, TailIs
<1>3. i - 1 \in 1 .. Len(Tail(q)) /\ Tail(q)[i - 1] = m
  BY <1>1, <1>2, TailIs
<1>4. ASSUME NEW j \in 1 .. Len(Tail(q)), j # i - 1
      PROVE  Tail(q)[j].cmd \in Chatter
  BY <1>1, <1>2, <1>4, TailIs
<1> QED
  BY <1>3, <1>4 DEF Lone

LEMMA LoneHead ==
    ASSUME NEW q \in Seq(Messages), q # <<>>, Head(q).cmd \notin Chatter, NEW m, Lone(q, m)
    PROVE  Head(q) = m /\ Silent(Tail(q))
<1>1. PICK i \in 1 .. Len(q) : q[i] = m /\ \A j \in 1 .. Len(q) : j # i => q[j].cmd \in Chatter
  BY DEF Lone
<1>2. i = 1
  BY <1>1, TailIs
<1> QED
  BY <1>1, <1>2, TailIs DEF Silent

LEMMA JoinedAre ==
    ASSUME NEW q \in Seq(Messages), NEW x \in Messages
    PROVE  LET j == q \o <<x>>
           IN  /\ j \in Seq(Messages) /\ Len(q) \in Nat /\ Len(j) = Len(q) + 1 /\ j[Len(q) + 1] = x
               /\ \A i \in 1 .. Len(q) : j[i] = q[i]
OBVIOUS

LEMMA SilentJoined ==
    ASSUME NEW q \in Seq(Messages), NEW x \in Messages, Silent(q)
    PROVE  /\ x.cmd \in Chatter => Silent(q \o <<x>>)
           /\ Lone(q \o <<x>>, x)
<1> DEFINE j == q \o <<x>>
<1>1. /\ Len(q) \in Nat /\ Len(j) = Len(q) + 1 /\ j[Len(q) + 1] = x
      /\ \A i \in 1 .. Len(q) : j[i] = q[i]
  BY JoinedAre
<1> HIDE DEF j
<1>2. \A i \in 1 .. Len(j) : i # Len(q) + 1 => j[i].cmd \in Chatter
  BY <1>1 DEF Silent
<1>3. x.cmd \in Chatter => Silent(j)
  BY <1>1, <1>2 DEF Silent
<1>4. Lone(j, x)
  BY <1>1, <1>2 DEF Lone
<1> QED
  BY <1>3, <1>4 DEF j

LEMMA LoneJoined ==
    ASSUME NEW q \in Seq(Messages), NEW x \in Messages, x.cmd \in Chatter, NEW m, Lone(q, m)
    PROVE  Lone(q \o <<x>>, m)
<1> DEFINE j == q \o <<x>>
<1>1. /\ Len(q) \in Nat /\ Len(j) = Len(q) + 1 /\ j[Len(q) + 1] = x
      /\ \A i \in 1 .. Len(q) : j[i] = q[i]
  BY JoinedAre
<1> HIDE DEF j
<1>2. PICK i \in 1 .. Len(q) : q[i] = m /\ \A k \in 1 .. Len(q) : k # i => q[k].cmd \in Chatter
  BY DEF Lone
<1>3. i \in 1 .. Len(j) /\ j[i] = m
  BY <1>1, <1>2
<1>4. ASSUME NEW k \in 1 .. Len(j), k # i
      PROVE  j[k].cmd \in Chatter
  BY <1>1, <1>2, <1>4
<1>5. Lone(j, m)
  BY <1>3, <1>4 DEF Lone
<1> QED
  BY <1>5 DEF j

LEMMA LoneIsThere ==
    ASSUME NEW q \in Seq(Messages), NEW m, m.cmd \notin Chatter, Lone(q, m)
    PROVE  ~Silent(q)
BY DEF Lone, Silent

-----------------------------------------------------------------------------
(* What Replies makes of the state. *)
HasReplied(x, b, r, ms, handled) ==
    /\ x \in BotState
    /\ x.net[b] = IF handled THEN Tail(bb.net[b]) ELSE bb.net[b]
    /\ \A c \in Bots : c # b => x.net[c] = bb.net[c] \o ms /\ x.bots[c] = bb.bots[c]
    /\ x.bots[b] = r
    /\ x.losses = bb.losses /\ x.disturbed = bb.disturbed /\ x.list = bb.list
    /\ x.transfers = bb.transfers /\ x.delivered = bb.delivered /\ x.torn = bb.torn
    /\ x.succeeded = bb.succeeded

LEMMA RepliesAre ==
    ASSUME bb \in BotState, NEW b \in Bots, NEW r \in Robot, NEW ms \in Seq(Messages),
           NEW handled \in BOOLEAN, handled => bb.net[b] # <<>>
    PROVE  HasReplied(Replies(b, r, ms, handled), b, r, ms, handled)
<1> DEFINE net == [c \in Bots |-> IF c = b THEN (IF handled THEN Tail(bb.net[c]) ELSE bb.net[c]) ELSE bb.net[c] \o ms]
<1>1. net \in [Bots -> Seq(Messages)]
  <2>1. ASSUME NEW c \in Bots PROVE net[c] \in Seq(Messages)
    <3>1. bb.net[c] \in Seq(Messages)
      BY DEF BotState
    <3>2. bb.net[c] \o ms \in Seq(Messages)
      BY <3>1
    <3> QED
      BY <3>1, <3>2, TailIs
  <2> QED
    BY <2>1
<1>2. bb.bots \in [Bots -> Robot] /\ [bb.bots EXCEPT ![b] = r] \in [Bots -> Robot]
  BY DEF BotState
<1>3. Replies(b, r, ms, handled) = [[bb EXCEPT !.bots = [bb.bots EXCEPT ![b] = r]] EXCEPT !.net = net]
  BY DEF Replies, BotState
<1> HIDE DEF net
<1>4. /\ Replies(b, r, ms, handled) \in BotState
      /\ Replies(b, r, ms, handled).net = net /\ Replies(b, r, ms, handled).bots = [bb.bots EXCEPT ![b] = r]
  BY <1>1, <1>2, <1>3 DEF BotState
<1>5. LET x == Replies(b, r, ms, handled)
      IN  /\ x.losses = bb.losses /\ x.disturbed = bb.disturbed /\ x.list = bb.list
          /\ x.transfers = bb.transfers /\ x.delivered = bb.delivered /\ x.torn = bb.torn
          /\ x.succeeded = bb.succeeded
  BY <1>3 DEF BotState
<1>6. /\ net[b] = IF handled THEN Tail(bb.net[b]) ELSE bb.net[b]
      /\ \A c \in Bots : c # b => net[c] = bb.net[c] \o ms
  BY DEF net
<1> QED
  BY <1>2, <1>4, <1>5, <1>6 DEF HasReplied

-----------------------------------------------------------------------------
(* Chatter changes nothing of a transfer. *)
SameTransfer(s, x) ==
    /\ x.bots[Answerer] = s.bots[Answerer]
    /\ LET q == s.bots[Asker]
           r == x.bots[Asker]
       IN  /\ r.addr = q.addr /\ r.data = q.data /\ r.size = q.size /\ r.buffer = q.buffer
           /\ r.sending = q.sending \/ (r.sending = 0 /\ x.disturbed)
    /\ x.transfers = s.transfers
    /\ x.delivered = s.delivered /\ x.torn = s.torn /\ x.succeeded = s.succeeded
    /\ s.disturbed => x.disturbed

SameOrders(q, p) ==
    /\ Silent(q) => Silent(p)
    /\ \A m : m.cmd \notin Chatter /\ Lone(q, m) => Lone(p, m)

LEMMA ChatterKeeps ==
    ASSUME OneAsks, NEW s, TransferOK(s), NEW x \in BotState, SameTransfer(s, x),
           \A c \in Bots : SameOrders(s.net[c], x.net[c])
    PROVE  TransferOK(x)
<1>1. Asker \in Bots /\ Answerer \in Bots
  BY TheTwo
<1>2. /\ Now(x) = Now(s) /\ Length(x) = Length(s)
      /\ \A k : (AskerHas(s, k) => AskerHas(x, k)) /\ (AnswererHas(s, k) => AnswererHas(x, k))
  BY DEF SameTransfer, Now, Length, AskerHas, AnswererHas
<1>3. \A m : m.cmd \notin Chatter =>
          /\ OnItsWay(s, Asker, Answerer, m) => OnItsWay(x, Asker, Answerer, m)
          /\ OnItsWay(s, Answerer, Asker, m) => OnItsWay(x, Answerer, Asker, m)
  BY <1>1 DEF OnItsWay, SameOrders
<1>4. /\ \A n : Request(n).cmd \notin Chatter /\ Answer(n).cmd \notin Chatter
      /\ \A t, k, n, last : Part(t, k, n, last).cmd \notin Chatter
  BY DEF Request, Answer, Part, Chatter
<1>5. UnderWay(s) => UnderWay(x)
  <2> SUFFICES ASSUME UnderWay(s)
               PROVE  UnderWay(x)
    OBVIOUS
  <2>1. Requested(s) => Requested(x)
    BY <1>2, <1>3, <1>4 DEF Requested
  <2>2. TurnedDown(s) => TurnedDown(x)
    BY <1>2, <1>3, <1>4 DEF TurnedDown
  <2>3. Awaited(s) => Awaited(x)
    BY <1>2, <1>3, <1>4 DEF Awaited
  <2>4. Carried(s) => Carried(x)
    BY <1>2, <1>3, <1>4 DEF Carried
  <2>5. Arrived(s) => Arrived(x)
    BY <1>2, <1>3, <1>4 DEF Arrived, SameTransfer
  <2>6. Now(x) > 0 /\ (x.disturbed \/ x.bots[Asker].sending # 0)
    BY <1>2 DEF UnderWay, SameTransfer
  <2> QED
    BY <2>1, <2>2, <2>3, <2>4, <2>5, <2>6 DEF UnderWay
<1>6. TransferOver(s) => TransferOver(x)
  BY <1>1, <1>2 DEF TransferOver, SameOrders, SameTransfer
<1>7. /\ ~x.torn /\ x.succeeded \subseteq x.delivered
      /\ x.bots[Answerer].sending = 0
      /\ x.bots[Asker].sending \in {0, Now(x)}
      /\ Now(x) > 0 => x.bots[Asker].buffer = [i \in 1 .. Length(x) |-> <<Now(x), i>>]
  BY <1>2 DEF TransferOK, SameTransfer
<1> QED
  BY <1>5, <1>6, <1>7 DEF TransferOK

LEMMA SameQueue == \A q : SameOrders(q, q)
BY DEF SameOrders

LEMMA TailSame ==
    ASSUME NEW q \in Seq(Messages), q # <<>>, Head(q).cmd \in Chatter
    PROVE  SameOrders(q, Tail(q))
BY SilentTail, LoneTail DEF SameOrders

LEMMA JoinSame ==
    ASSUME NEW q \in Seq(Messages), NEW x \in Messages, x.cmd \in Chatter
    PROVE  SameOrders(q, q \o <<x>>)
BY SilentJoined, LoneJoined DEF SameOrders

LEMMA NothingSame ==
    ASSUME NEW q \in Seq(Messages)
    PROVE  q \o <<>> = q
OBVIOUS

LEMMA StateOf ==
    ASSUME NEW s \in BotState, NEW b \in Bots
    PROVE  s.net[b] \in Seq(Messages) /\ s.bots[b] \in Robot
BY DEF BotState

(* The replies to chatter are chatter. *)
LEMMA ChatterReplies ==
    ASSUME OneAsks, TransferOK(bb), NEW b \in Bots, NEW ms \in {<<>>} \cup {<<x>> : x \in {y \in Messages : y.cmd \in Chatter}},
           NEW handled \in BOOLEAN, handled => bb.net[b] # <<>> /\ Head(bb.net[b]).cmd \in Chatter,
           NEW list \in [Bots -> {"unknown", "available", "busy"}]
    PROVE  TransferOK([Replies(b, bb.bots[b], ms, handled) EXCEPT !.list = list])
<1> DEFINE x == Replies(b, bb.bots[b], ms, handled)
           y == [x EXCEPT !.list = list]
<1>1. bb \in BotState /\ bb.bots[b] \in Robot /\ bb.bots \in [Bots -> Robot] /\ \A c \in Bots : bb.net[c] \in Seq(Messages)
  BY DEF TransferOK, BotState
<1>2. ms \in Seq(Messages)
  <2>1. CASE ms = <<>>
    BY <2>1
  <2>2. CASE \E m \in Messages : ms = <<m>>
    BY <2>2
  <2> QED
    BY <2>1, <2>2
<1>3. HasReplied(x, b, bb.bots[b], ms, handled)
  BY <1>1, <1>2, RepliesAre
<1> HIDE DEF x
<1>4. /\ y \in BotState /\ y.net = x.net /\ y.bots = x.bots
      /\ y.disturbed = bb.disturbed
      /\ y.transfers = bb.transfers /\ y.delivered = bb.delivered /\ y.torn = bb.torn
      /\ y.succeeded = bb.succeeded
  BY <1>3 DEF BotState, HasReplied
<1>5. x.bots = bb.bots
  BY <1>1, <1>3 DEF BotState, HasReplied
<1>6. ASSUME NEW c \in Bots
      PROVE  SameOrders(bb.net[c], x.net[c])
  <2>1. CASE c = b
    BY <1>1, <1>3, <2>1, SameQueue, TailSame DEF HasReplied
  <2>2. CASE c # b /\ ms = <<>>
    BY <1>1, <1>3, <2>2, SameQueue, NothingSame DEF HasReplied
  <2>3. CASE c # b /\ ms # <<>>
    <3>1. PICK m \in Messages : ms = <<m>> /\ m.cmd \in Chatter
      BY <2>3
    <3> QED
      BY <1>1, <1>3, <2>3, <3>1, JoinSame DEF HasReplied
  <2> QED
    BY <2>1, <2>2, <2>3
<1> HIDE DEF y
<1>7. SameTransfer(bb, y) /\ y \in BotState
  BY <1>4, <1>5 DEF SameTransfer
<1>8. TransferOK(y)
  BY <1>4, <1>6, <1>7, ChatterKeeps
<1> QED
  BY <1>8 DEF y, x

(* The next one: messages that are chatter, or an end of the transfer. *)
LEMMA WhileOpen ==
    ASSUME OneAsks, NEW s, TransferOK(s), UnderWay(s)
    PROVE  /\ Length(s) \in Nat \ {0} /\ Length(s) \in Sizes /\ Now(s) \in Nat \ {0}
           /\ s.bots[Asker].addr /\ s.bots[Asker].data \in 0 .. Length(s)
           /\ s.bots[Asker].size = Length(s) - s.bots[Asker].data
<1>1. Now(s) \in Nat \ {0} /\ s.transfers \in Seq(Sizes)
  <2>1. s.transfers \in Seq(Sizes)
    BY DEF TransferOK, BotState
  <2> QED
    BY <2>1, LenProperties DEF UnderWay, Now
<1>2. Length(s) \in Sizes
  BY <1>1, ElementOfSeq DEF Length, Now
<1>3. Length(s) \in Nat \ {0}
  BY <1>2 DEF OneAsks
<1>4. \E k \in 0 .. Length(s) : AskerHas(s, k)
  <2>1. CASE Requested(s) \/ TurnedDown(s)
    BY <1>3, <2>1 DEF Requested, TurnedDown
  <2>2. CASE Awaited(s)
    BY <2>2 DEF Awaited
  <2>3. CASE Carried(s)
    <3>1. PICK k, n \in 0 .. Length(s) : k + n <= Length(s) /\ AskerHas(s, k + n)
      BY <2>3 DEF Carried
    <3>2. k + n \in 0 .. Length(s)
      BY <1>3, <3>1
    <3> QED
      BY <3>1, <3>2
  <2>4. CASE Arrived(s)
    BY <1>3, <2>4 DEF Arrived
  <2> QED
    BY <2>1, <2>2, <2>3, <2>4 DEF UnderWay
<1> QED
  BY <1>1, <1>2, <1>3, <1>4 DEF AskerHas

(* What b takes out of its queue and that is no chatter is the one message.  *)
LEMMA TakesTheOne ==
    ASSUME OneAsks, NEW s, s \in BotState, NEW from \in Bots, NEW to \in Bots, from # to,
           NEW m, m.cmd \notin Chatter, OnItsWay(s, from, to, m),
           NEW b \in Bots, s.net[b] # <<>>, Head(s.net[b]).cmd \notin Chatter
    PROVE  b = to /\ Head(s.net[b]) = m /\ Silent(Tail(s.net[to])) /\ Silent(s.net[from])
<1>1. s.net[b] \in Seq(Messages)
  BY DEF BotState
<1>2. b # from
  <2>1. ASSUME b = from
        PROVE  FALSE
    <3>1. Silent(s.net[b]) /\ Head(s.net[b]) = s.net[b][1] /\ 1 \in 1 .. Len(s.net[b])
      BY <1>1, <2>1, TailIs DEF OnItsWay
    <3> QED
      BY <3>1 DEF Silent
  <2> QED
    BY <2>1
<1>3. b = to
  BY <1>2, TheTwo
<1> QED
  BY <1>1, <1>3, LoneHead DEF OnItsWay

(* The queues when it was answered by ms. *)
LEMMA AfterTheOne ==
    ASSUME OneAsks, bb \in BotState, NEW from \in Bots, NEW to \in Bots, from # to,
           bb.net[to] # <<>>, Silent(Tail(bb.net[to])), Silent(bb.net[from]),
           NEW x, NEW r, NEW ms, HasReplied(x, to, r, ms, TRUE)
    PROVE  /\ ms = <<>> => Silent(x.net[to]) /\ Silent(x.net[from])
           /\ \A m \in Messages : ms = <<m>> => OnItsWay(x, to, from, m)
<1>1. bb.net[from] \in Seq(Messages)
  BY DEF BotState
<1>2. x.net[to] = Tail(bb.net[to]) /\ x.net[from] = bb.net[from] \o ms
  BY DEF HasReplied
<1> QED
  BY <1>1, <1>2, NothingSame, SilentJoined DEF OnItsWay

-----------------------------------------------------------------------------
(* What a robot is after its fields have been set. *)
Asking(q, size, t, u) ==
    [q EXCEPT !.size = size, !.data = 0, !.addr = TRUE, !.sending = t, !.buffer = u]
Accepting(q, size) ==
    [q EXCEPT !.size = size, !.callback = TRUE, !.data = 0, !.addr = TRUE]
Sent(q, size, n) ==
    [q EXCEPT !.size = size, !.data = @ + n]
FilledUp(q, u, n) ==
    [q EXCEPT !.buffer = u, !.data = @ + n]
Ended(q, size) ==
    [Closed(q) EXCEPT !.addr = FALSE, !.size = size]
Emptied(q) ==
    [Closed(q) EXCEPT !.size = 0, !.addr = FALSE]

LEMMA SetSize ==
    ASSUME NEW q \in Robot, NEW v \in Int
    PROVE  LET r == [q EXCEPT !.size = v]
           IN  /\ r \in Robot
               /\ r.size = v /\ r.data = q.data /\ r.addr = q.addr /\ r.sending = q.sending /\ r.buffer = q.buffer
<1> DEFINE r == [q EXCEPT !.size = v]
<1>1. r \in Robot
  BY DEF Robot
<1>2. r.size = v /\ r.data = q.data /\ r.sending = q.sending /\ r.buffer = q.buffer
  BY DEF Robot
<1>3. r.addr = q.addr
  BY Zenon DEF Robot
<1> QED
  BY <1>1, <1>2, <1>3

LEMMA SetData ==
    ASSUME NEW q \in Robot, NEW v \in Int
    PROVE  LET r == [q EXCEPT !.data = v]
           IN  /\ r \in Robot
               /\ r.size = q.size /\ r.data = v /\ r.addr = q.addr /\ r.sending = q.sending /\ r.buffer = q.buffer
<1> DEFINE r == [q EXCEPT !.data = v]
<1>1. r \in Robot
  BY DEF Robot
<1>2. r.size = q.size /\ r.data = v /\ r.sending = q.sending /\ r.buffer = q.buffer
  BY DEF Robot
<1>3. r.addr = q.addr
  BY Zenon DEF Robot
<1> QED
  BY <1>1, <1>2, <1>3

LEMMA SetCallback ==
    ASSUME NEW q \in Robot, NEW v \in BOOLEAN
    PROVE  LET r == [q EXCEPT !.callback = v]
           IN  /\ r \in Robot
               /\ r.size = q.size /\ r.data = q.data /\ r.addr = q.addr /\ r.sending = q.sending /\ r.buffer = q.buffer
<1> DEFINE r == [q EXCEPT !.callback = v]
<1>1. r \in Robot
  BY DEF Robot
<1>2. r.size = q.size /\ r.data = q.data /\ r.sending = q.sending /\ r.buffer = q.buffer
  BY DEF Robot
<1>3. r.addr = q.addr
  BY Zenon DEF Robot
<1> QED
  BY <1>1, <1>2, <1>3

LEMMA SetAddr ==
    ASSUME NEW q \in Robot, NEW v \in BOOLEAN
    PROVE  LET r == [q EXCEPT !.addr = v]
           IN  /\ r \in Robot
               /\ r.size = q.size /\ r.data = q.data /\ r.addr = v /\ r.sending = q.sending /\ r.buffer = q.buffer
<1> DEFINE r == [q EXCEPT !.addr = v]
<1>1. r \in Robot
  BY DEF Robot
<1>2. r.size = q.size /\ r.data = q.data /\ r.sending = q.sending /\ r.buffer = q.buffer
  BY DEF Robot
<1>3. r.addr = v
  BY Zenon DEF Robot
<1> QED
  BY <1>1, <1>2, <1>3

LEMMA SetSending ==
    ASSUME NEW q \in Robot, NEW v \in Nat
    PROVE  LET r == [q EXCEPT !.sending = v]
           IN  /\ r \in Robot
               /\ r.size = q.size /\ r.data = q.data /\ r.addr = q.addr /\ r.sending = v /\ r.buffer = q.buffer
<1> DEFINE r == [q EXCEPT !.sending = v]
<1>1. r \in Robot
  BY DEF Robot
<1>2. r.size = q.size /\ r.data = q.data /\ r.sending = v /\ r.buffer = q.buffer
  BY DEF Robot
<1>3. r.addr = q.addr
  BY Zenon DEF Robot
<1> QED
  BY <1>1, <1>2, <1>3

LEMMA SetBuffer ==
    ASSUME NEW q \in Robot, NEW v \in Seq(Cells)
    PROVE  LET r == [q EXCEPT !.buffer = v]
           IN  /\ r \in Robot
               /\ r.size = q.size /\ r.data = q.data /\ r.addr = q.addr /\ r.sending = q.sending /\ r.buffer = v
<1> DEFINE r == [q EXCEPT !.buffer = v]
<1>1. r \in Robot
  BY DEF Robot
<1>2. r.size = q.size /\ r.data = q.data /\ r.sending = q.sending /\ r.buffer = v
  BY DEF Robot
<1>3. r.addr = q.addr
  BY Zenon DEF Robot
<1> QED
  BY <1>1, <1>2, <1>3

LEMMA AskingRobot ==
    ASSUME NEW q \in Robot, NEW size \in Nat, NEW t \in Nat, NEW u \in Seq(Cells)
    PROVE  LET r == Asking(q, size, t, u)
           IN  r \in Robot /\ r.addr /\ r.data = 0 /\ r.size = size /\ r.sending = t /\ r.buffer = u
<1> DEFINE r1 == [q EXCEPT !.size = size]
           r2 == [r1 EXCEPT !.data = 0]
           r3 == [r2 EXCEPT !.addr = TRUE]
           r4 == [r3 EXCEPT !.sending = t]
           r5 == [r4 EXCEPT !.buffer = u]
<1>1. r1 \in Robot /\ r1.size = size
  BY SetSize
<1> HIDE DEF r1
<1>2. r2 \in Robot /\ r2.size = size /\ r2.data = 0
  BY <1>1, SetData
<1> HIDE DEF r2
<1>3. r3 \in Robot /\ r3.size = size /\ r3.data = 0 /\ r3.addr
  BY <1>2, SetAddr
<1> HIDE DEF r3
<1>4. r4 \in Robot /\ r4.size = size /\ r4.data = 0 /\ r4.addr /\ r4.sending = t
  BY <1>3, SetSending
<1> HIDE DEF r4
<1>5. r5 \in Robot /\ r5.size = size /\ r5.data = 0 /\ r5.addr /\ r5.sending = t /\ r5.buffer = u
  BY <1>4, SetBuffer
<1> HIDE DEF r5
<1>6. r5 = Asking(q, size, t, u)
  BY Zenon DEF Asking, r1, r2, r3, r4, r5
<1> QED
  BY <1>5, <1>6

LEMMA AcceptingRobot ==
    ASSUME NEW q \in Robot, NEW size \in Nat
    PROVE  LET r == Accepting(q, size)
           IN  r \in Robot /\ r.addr /\ r.data = 0 /\ r.sending = q.sending /\ r.buffer = q.buffer
<1> DEFINE r1 == [q EXCEPT !.size = size]
           r2 == [r1 EXCEPT !.callback = TRUE]
           r3 == [r2 EXCEPT !.data = 0]
           r4 == [r3 EXCEPT !.addr = TRUE]
<1>1. r1 \in Robot /\ r1.sending = q.sending /\ r1.buffer = q.buffer
  BY SetSize
<1> HIDE DEF r1
<1>2. r2 \in Robot /\ r2.sending = q.sending /\ r2.buffer = q.buffer
  BY <1>1, SetCallback
<1> HIDE DEF r2
<1>3. r3 \in Robot /\ r3.data = 0 /\ r3.sending = q.sending /\ r3.buffer = q.buffer
  BY <1>2, SetData
<1> HIDE DEF r3
<1>4. r4 \in Robot /\ r4.addr /\ r4.data = 0 /\ r4.sending = q.sending /\ r4.buffer = q.buffer
  BY <1>3, SetAddr
<1> HIDE DEF r4
<1>5. r4 = Accepting(q, size)
  BY Zenon DEF Accepting, r1, r2, r3, r4
<1> QED
  BY <1>4, <1>5

LEMMA SentRobot ==
    ASSUME NEW q \in Robot, NEW size \in Int, NEW n \in Int
    PROVE  LET r == Sent(q, size, n)
           IN  /\ r \in Robot /\ r.size = size /\ r.data = q.data + n
               /\ r.addr = q.addr /\ r.sending = q.sending /\ r.buffer = q.buffer
<1> DEFINE r1 == [q EXCEPT !.size = size]
           r2 == [r1 EXCEPT !.data = q.data + n]
<1>1. /\ r1 \in Robot /\ r1.size = size /\ r1.data = q.data
      /\ r1.addr = q.addr /\ r1.sending = q.sending /\ r1.buffer = q.buffer
  BY SetSize
<1> HIDE DEF r1
<1>2. q.data + n \in Int
  BY DEF Robot
<1>3. /\ r2 \in Robot /\ r2.size = size /\ r2.data = q.data + n
      /\ r2.addr = q.addr /\ r2.sending = q.sending /\ r2.buffer = q.buffer
  BY <1>1, <1>2, SetData
<1> HIDE DEF r2
<1>4. r2 = Sent(q, size, n)
  BY Zenon DEF Sent, r1, r2
<1> QED
  BY <1>3, <1>4

LEMMA FilledRobot ==
    ASSUME NEW q \in Robot, NEW u \in Seq(Cells), NEW n \in Int
    PROVE  LET r == FilledUp(q, u, n)
           IN  /\ r \in Robot /\ r.size = q.size /\ r.data = q.data + n
               /\ r.addr = q.addr /\ r.sending = q.sending /\ r.buffer = u
<1> DEFINE r1 == [q EXCEPT !.buffer = u]
           r2 == [r1 EXCEPT !.data = q.data + n]
<1>1. /\ r1 \in Robot /\ r1.size = q.size /\ r1.data = q.data
      /\ r1.addr = q.addr /\ r1.sending = q.sending /\ r1.buffer = u
  BY SetBuffer
<1> HIDE DEF r1
<1>2. q.data + n \in Int
  BY DEF Robot
<1>3. /\ r2 \in Robot /\ r2.size = q.size /\ r2.data = q.data + n
      /\ r2.addr = q.addr /\ r2.sending = q.sending /\ r2.buffer = u
  BY <1>1, <1>2, SetData
<1> HIDE DEF r2
<1>4. r2 = FilledUp(q, u, n)
  BY Zenon DEF FilledUp, r1, r2
<1> QED
  BY <1>3, <1>4

LEMMA ClosedRobot ==
    ASSUME NEW q \in Robot, NEW size \in Int
    PROVE  /\ LET r == Ended(q, size)
              IN  r \in Robot /\ r.size = size /\ r.sending = q.sending /\ r.buffer = q.buffer
           /\ LET r == Emptied(q)
              IN  r \in Robot /\ r.size = 0 /\ r.sending = q.sending /\ r.buffer = q.buffer
           /\ Closed(q).size = q.size
<1> DEFINE r1 == [q EXCEPT !.data = NULL]
           r2 == [r1 EXCEPT !.callback = FALSE]
           r3 == [r2 EXCEPT !.addr = FALSE]
           r4 == [r3 EXCEPT !.size = size]
           r5 == [r2 EXCEPT !.size = 0]
           r6 == [r5 EXCEPT !.addr = FALSE]
<1>1. r1 \in Robot /\ r1.size = q.size /\ r1.sending = q.sending /\ r1.buffer = q.buffer
  BY SetData DEF NULL
<1> HIDE DEF r1
<1>2. r2 \in Robot /\ r2.size = q.size /\ r2.sending = q.sending /\ r2.buffer = q.buffer
  BY <1>1, SetCallback
<1>3. r2 = Closed(q)
  BY Zenon DEF r1, r2, Closed
<1> HIDE DEF r2
<1>4. r3 \in Robot /\ r3.sending = q.sending /\ r3.buffer = q.buffer
  BY <1>2, SetAddr
<1> HIDE DEF r3
<1>5. r4 \in Robot /\ r4.size = size /\ r4.sending = q.sending /\ r4.buffer = q.buffer
  BY <1>4, SetSize
<1>6. r5 \in Robot /\ r5.size = 0 /\ r5.sending = q.sending /\ r5.buffer = q.buffer
  BY <1>2, SetSize
<1> HIDE DEF r5
<1>7. r6 \in Robot /\ r6.size = 0 /\ r6.sending = q.sending /\ r6.buffer = q.buffer
  BY <1>6, SetAddr
<1> HIDE DEF r4, r6
<1>8. r4 = Ended(q, size)
  BY <1>3, Zenon DEF Ended, r3, r4
<1>9. r6 = Emptied(q)
  BY <1>3, Zenon DEF Emptied, r5, r6
<1> QED
  BY <1>2, <1>3, <1>5, <1>7, <1>8, <1>9

LEMMA EndedRobot ==
    ASSUME NEW q \in Robot
    PROVE  /\ LET r == Ended(q, -1)
              IN  r \in Robot /\ r.size = -1 /\ r.sending = q.sending /\ r.buffer = q.buffer
           /\ LET r == Ended(q, -2)
              IN  r \in Robot /\ r.size = -2 /\ r.sending = q.sending /\ r.buffer = q.buffer
<1> DEFINE v == -1
           u == -2
<1>1. v \in Int /\ u \in Int
  OBVIOUS
<1> HIDE DEF v, u
<1>2. /\ Ended(q, v) \in Robot /\ Ended(q, v).size = v /\ Ended(q, v).sending = q.sending
      /\ Ended(q, v).buffer = q.buffer
  BY <1>1, ClosedRobot
<1>3. /\ Ended(q, u) \in Robot /\ Ended(q, u).size = u /\ Ended(q, u).sending = q.sending
      /\ Ended(q, u).buffer = q.buffer
  BY <1>1, ClosedRobot
<1> QED
  BY <1>2, <1>3, Zenon DEF v, u

-----------------------------------------------------------------------------
LEMMA StartIsOK ==
    ASSUME OneAsks, BotInit
    PROVE  TransferOK(bb)
<1>1. Asker # Answerer /\ Bots = {Asker, Answerer}
  BY TheTwo
<1>2. bb \in BotState
  <2>1. <<>> \in Seq(Messages) /\ <<>> \in Seq(Sizes) /\ <<>> \in Seq(Cells)
    OBVIOUS
  <2>2. [size |-> 0, data |-> NULL, callback |-> FALSE, addr |-> FALSE, sending |-> 0, buffer |-> <<>>] \in Robot
    BY <2>1 DEF Robot, NULL
  <2> QED
    BY <2>1, <2>2 DEF BotInit, BotState, OneAsks
<1>3. Now(bb) = 0
  BY DEF BotInit, Now
<1>4. TransferOver(bb)
  BY <1>1 DEF TransferOver, Silent, BotInit
<1> QED
  BY <1>1, <1>2, <1>3, <1>4 DEF TransferOK, BotInit

LEMMA RequestIsOK ==
    ASSUME OneAsks, TransferOK(bb), NEW b \in Requesters, bot_2_bot_send_payload_request(b)
    PROVE  TransferOK(bb')
<1>1. /\ Asker # Answerer /\ Bots = {Asker, Answerer} /\ b = Asker
      /\ bb \in BotState /\ bb.bots[Asker] \in Robot
  BY TheTwo DEF TransferOK, BotState
<1>2. TransferOver(bb)
  BY <1>1 DEF bot_2_bot_send_payload_request, OneAsks, UnderWay, TransferOK
<1> DEFINE t == Len(bb.transfers) + 1
           r(size) == [bb.bots[b] EXCEPT !.size = size, !.data = 0, !.addr = TRUE, !.sending = t,
                                         !.buffer = [i \in 1 .. size |-> <<t, i>>]]
           x(size) == Replies(b, r(size), <<[cmd |-> "REQ", size |-> size]>>, FALSE)
<1>3. PICK size \in Sizes : bb' = [x(size) EXCEPT !.transfers = Append(@, size)]
  BY DEF bot_2_bot_send_payload_request
<1>4. size \in Nat \ {0} /\ t \in Nat \ {0} /\ bb.transfers \in Seq(Sizes)
  BY <1>1, LenProperties DEF OneAsks, BotState
<1>5. /\ r(size) \in Robot /\ r(size).addr /\ r(size).data = 0 /\ r(size).size = size /\ r(size).sending = t
      /\ r(size).buffer = [i \in 1 .. size |-> <<t, i>>]
  <2>1. [i \in 1 .. size |-> <<t, i>>] \in Seq(Cells)
    BY <1>4 DEF Cells
  <2>2. bb.bots[b] \in Robot /\ size \in Nat /\ t \in Nat
    BY <1>1, <1>4
  <2>3. r(size) = Asking(bb.bots[b], size, t, [i \in 1 .. size |-> <<t, i>>])
    BY Zenon DEF Asking
  <2> HIDE DEF r
  <2> QED
    BY <2>1, <2>2, <2>3, AskingRobot
<1>6. Request(size) \in Messages /\ <<Request(size)>> \in Seq(Messages)
  BY <1>4 DEF Request, Messages
<1>7. HasReplied(x(size), b, r(size), <<Request(size)>>, FALSE)
  BY <1>1, <1>5, <1>6, RepliesAre DEF Request
<1> HIDE DEF r, x
<1> DEFINE y == bb'
<1>8. /\ y \in BotState /\ y.net = x(size).net /\ y.bots = x(size).bots
      /\ y.disturbed = bb.disturbed
      /\ y.transfers = Append(bb.transfers, size)
      /\ y.delivered = bb.delivered /\ y.torn = bb.torn /\ y.succeeded = bb.succeeded
  <2>1. Append(bb.transfers, size) \in Seq(Sizes)
    BY <1>4
  <2>2. x(size) \in BotState /\ x(size).transfers = bb.transfers
    BY <1>7 DEF HasReplied
  <2>3. /\ y = [x(size) EXCEPT !.transfers = Append(bb.transfers, size)]
    BY <1>3, <2>2
  <2>4. y \in BotState
    BY <2>1, <2>2, <2>3 DEF BotState
  <2>5. /\ y.net = x(size).net /\ y.bots = x(size).bots /\ y.disturbed = x(size).disturbed
        /\ y.delivered = x(size).delivered /\ y.torn = x(size).torn /\ y.succeeded = x(size).succeeded
        /\ y.transfers = Append(bb.transfers, size)
    BY <2>2, <2>3 DEF BotState
  <2> QED
    BY <1>7, <2>4, <2>5 DEF HasReplied
<1>9. Now(y) = t /\ Length(y) = size
  BY <1>4, <1>8, AppendProperties DEF Now, Length
<1>10. /\ y.bots[Asker] = r(size) /\ y.bots[Answerer] = bb.bots[Answerer]
       /\ y.net[Asker] = bb.net[Asker] /\ y.net[Answerer] = bb.net[Answerer] \o <<Request(size)>>
  BY <1>1, <1>7, <1>8 DEF HasReplied
<1>11. Requested(y)
  <2>1. Lone(y.net[Answerer], Request(size)) /\ Silent(y.net[Asker])
    BY <1>1, <1>2, <1>6, <1>10, SilentJoined, StateOf DEF TransferOver
  <2> QED
    BY <1>5, <1>9, <1>10, <2>1, <1>4 DEF Requested, OnItsWay, AskerHas
<1> HIDE DEF y
<1>12. UnderWay(y)
  BY <1>4, <1>5, <1>9, <1>10, <1>11 DEF UnderWay
<1>13. TransferOK(y)
  BY <1>5, <1>8, <1>9, <1>10, <1>12 DEF TransferOK
<1> QED
  BY <1>13 DEF y
(* The sender looks at the size only when the transfer is over. *)
LEMMA SenderIsOK ==
    ASSUME OneAsks, TransferOK(bb), NEW b \in Bots, SendReturns(b) \/ SendGivesUp(b)
    PROVE  TransferOK(bb')
<1>1. /\ Asker # Answerer /\ Bots = {Asker, Answerer} /\ b = Asker
      /\ bb \in BotState /\ bb.bots \in [Bots -> Robot] /\ bb.bots[b] \in Robot /\ bb.bots[b].sending = Now(bb)
      /\ Now(bb) \in Nat
  <2>1. b = Asker /\ bb.bots[b].sending = Now(bb)
    BY TheTwo DEF TransferOK, SendReturns, SendGivesUp
  <2>2. bb.transfers \in Seq(Sizes) /\ Len(bb.transfers) \in Nat
    BY LenProperties DEF TransferOK, BotState
  <2> QED
    BY <2>1, <2>2, TheTwo DEF TransferOK, BotState, Now
<1> DEFINE q == [bb.bots[b] EXCEPT !.sending = 0]
           bots == [bb.bots EXCEPT ![b] = q]
<1>2. /\ q \in Robot /\ q.addr = bb.bots[b].addr /\ q.data = bb.bots[b].data /\ q.size = bb.bots[b].size
      /\ q.sending = 0 /\ q.buffer = bb.bots[b].buffer
  BY <1>1, SetSending
<1> HIDE DEF q
<1>3. bots \in [Bots -> Robot] /\ bots[Asker] = q /\ bots[Answerer] = bb.bots[Answerer]
  BY <1>1, <1>2
<1>4. CASE SendReturns(b)
  <2> DEFINE succeeded == IF bb.bots[b].size = -2 THEN bb.succeeded \cup {Now(bb)} ELSE bb.succeeded
             y == [[bb EXCEPT !.bots = bots] EXCEPT !.succeeded = succeeded]
  <2>1. bb' = y
    BY <1>1, <1>4, Zenon DEF SendReturns, q
  <2>2. succeeded \in SUBSET Nat
    BY <1>1 DEF BotState
  <2>3. TransferOver(bb) /\ bb.bots[b].size < 0
    <3>1. bb.bots[b].size < 0
      BY <1>4 DEF SendReturns
    <3>2. ~UnderWay(bb)
      BY <1>1, <3>1, WhileOpen
    <3> QED
      BY <3>1, <3>2 DEF TransferOK
  <2>4. succeeded \subseteq bb.delivered
    BY <1>1, <2>3 DEF TransferOver, TransferOK
  <2> HIDE DEF bots, succeeded
  <2>5. /\ y \in BotState /\ y.net = bb.net /\ y.bots = bots
        /\ y.transfers = bb.transfers /\ y.delivered = bb.delivered /\ y.torn = bb.torn
        /\ y.succeeded = succeeded
    BY <1>1, <1>3, <2>2 DEF BotState
  <2> HIDE DEF y
  <2>6. Now(y) = Now(bb) /\ Length(y) = Length(bb)
    BY <2>5 DEF Now, Length
  <2>7. TransferOver(y)
    BY <1>1, <1>2, <1>3, <2>3, <2>5, <2>6 DEF TransferOver
  <2>8. TransferOK(y)
    BY <1>1, <1>2, <1>3, <2>4, <2>5, <2>6, <2>7 DEF TransferOK
  <2> QED
    BY <2>1, <2>8
<1>5. CASE SendGivesUp(b)
  <2> DEFINE y == [[bb EXCEPT !.bots = bots] EXCEPT !.disturbed = TRUE]
  <2>1. bb' = y
    BY <1>5, Zenon DEF SendGivesUp, q
  <2> HIDE DEF bots
  <2>2. /\ y \in BotState /\ y.net = bb.net /\ y.bots = bots /\ y.disturbed
        /\ y.transfers = bb.transfers /\ y.delivered = bb.delivered /\ y.torn = bb.torn
        /\ y.succeeded = bb.succeeded
    BY <1>1, <1>3 DEF BotState
  <2> HIDE DEF y
  <2>3. SameTransfer(bb, y)
    BY <1>1, <1>2, <1>3, <2>2 DEF SameTransfer
  <2>4. TransferOK(y)
    BY <2>2, <2>3, SameQueue, ChatterKeeps
  <2> QED
    BY <2>1, <2>4
<1> QED
  BY <1>4, <1>5

LEMMA PublishIsOK ==
    ASSUME OneAsks, TransferOK(bb), NEW b \in Bots,
           (\E state \in {"available", "busy"} : Publish(b, state)) \/ Welcome(b)
    PROVE  TransferOK(bb')
<1> DEFINE Said == {<<x>> : x \in {y \in Messages : y.cmd \in Chatter}}
<1>1. PICK ms \in Said : bb' = Replies(b, bb.bots[b], ms, FALSE)
  <2>1. \A state \in {"available", "busy"} : <<[cmd |-> "STATE", state |-> state]>> \in Said
    BY DEF Messages, Chatter
  <2>2. <<[cmd |-> "WELCOME"]>> \in Said
    BY DEF Messages, Chatter
  <2> QED
    BY <2>1, <2>2 DEF Publish, Welcome
<1>2. HasReplied(bb', b, bb.bots[b], ms, FALSE)
  <2>1. bb \in BotState /\ bb.bots[b] \in Robot
    BY DEF TransferOK, BotState
  <2>2. PICK m \in Messages : ms = <<m>>
    OBVIOUS
  <2>3. ms \in Seq(Messages)
    BY <2>2
  <2> QED
    BY <1>1, <2>1, <2>3, RepliesAre
<1>3. bb'.list \in [Bots -> {"unknown", "available", "busy"}] /\ bb' = [bb' EXCEPT !.list = bb'.list]
  BY <1>2 DEF HasReplied, BotState
<1> DEFINE list == bb'.list
<1>4. TransferOK([Replies(b, bb.bots[b], ms, FALSE) EXCEPT !.list = list])
  <2> HIDE DEF list
  <2>1. ms \in {<<>>} \cup {<<x>> : x \in {y \in Messages : y.cmd \in Chatter}}
    OBVIOUS
  <2> HIDE DEF Said
  <2> QED
    BY <1>3, <2>1, ChatterReplies DEF list
<1> QED
  BY <1>1, <1>3, <1>4

LEMMA MessageIs ==
    ASSUME NEW m \in Messages
    PROVE  m.cmd = "STATE" => m.state \in {"available", "busy"}
BY DEF Messages

LEMMA ChatterIsHandled ==
    ASSUME OneAsks, TransferOK(bb), NEW b \in Bots, Handle(b), Head(bb.net[b]).cmd \in Chatter
    PROVE  TransferOK(bb')
<1> DEFINE m == Head(bb.net[b])
           States == {"unknown", "available", "busy"}
<1>1. /\ bb \in BotState /\ bb.net[b] \in Seq(Messages) /\ bb.net[b] # <<>> /\ bb.bots[b] \in Robot
      /\ bb.list \in [Bots -> States]
  BY DEF TransferOK, BotState, Handle
<1>2. m \in Messages
  BY <1>1, TailIs
<1>3. PICK ms \in {<<>>} \cup {<<x>> : x \in {y \in Messages : y.cmd \in Chatter}}, v \in States :
          bb' = [Replies(b, bb.bots[b], ms, TRUE) EXCEPT !.list[OtherBot(b)] = v]
  <2>1. CASE add_bot_to_list(b)
    <3>1. [cmd |-> "STATE", state |-> "available"] \in {y \in Messages : y.cmd \in Chatter}
      BY DEF Messages, Chatter
    <3>2. <<[cmd |-> "STATE", state |-> "available"]>> \in {<<>>} \cup {<<x>> : x \in {y \in Messages : y.cmd \in Chatter}}
      BY <3>1
    <3> QED
      BY <2>1, <3>2 DEF add_bot_to_list
  <2>2. CASE m.cmd = "STATE" /\ bb' = [Replies(b, bb.bots[b], <<>>, TRUE) EXCEPT !.list[OtherBot(b)] = m.state]
    <3>1. m.state \in States
      BY <1>2, <2>2, MessageIs
    <3> QED
      BY <2>2, <3>1
  <2>3. CASE m.cmd = "WELCOME"
    BY <2>1, <2>3 DEF Handle
  <2>4. CASE m.cmd = "STATE"
    <3>1. set_received_bot_state(b, m)
      BY <2>4 DEF Handle
    <3> QED
      BY <2>1, <2>2, <2>4, <3>1 DEF set_received_bot_state
  <2> QED
    BY <2>3, <2>4 DEF Chatter
<1> DEFINE x == Replies(b, bb.bots[b], ms, TRUE)
           list == [bb.list EXCEPT ![OtherBot(b)] = v]
<1>4. ms \in Seq(Messages)
  <2>1. CASE ms = <<>>
    BY <2>1
  <2>2. CASE \E y \in Messages : ms = <<y>>
    BY <2>2
  <2> QED
    BY <2>1, <2>2
<1>5. x \in BotState /\ x.list = bb.list
  BY <1>1, <1>4, RepliesAre DEF HasReplied
<1>6. bb' = [x EXCEPT !.list = list]
  <2> HIDE DEF x
  <2> QED
    BY <1>3, <1>5 DEF x
<1>7. list \in [Bots -> States]
  BY <1>1
<1>8. TransferOK([x EXCEPT !.list = list])
  <2> HIDE DEF list
  <2> QED
    BY <1>1, <1>7, ChatterReplies
<1> QED
  BY <1>6, <1>8

-----------------------------------------------------------------------------
(* A robot that has handled the one message. *)
LEMMA HandledIsOK ==
    ASSUME OneAsks, TransferOK(bb), NEW b \in Bots, NEW r, NEW ms, NEW x, HasReplied(x, b, r, ms, TRUE),
           r.sending = bb.bots[b].sending, b = Asker => r.buffer = bb.bots[b].buffer,
           UnderWay(x) \/ TransferOver(x)
    PROVE  TransferOK(x)
<1>1. Asker \in Bots /\ Answerer \in Bots
  BY TheTwo
<1>2. /\ x.bots[Asker].sending = bb.bots[Asker].sending /\ x.bots[Answerer].sending = bb.bots[Answerer].sending
      /\ x.bots[Asker].buffer = bb.bots[Asker].buffer
  BY <1>1 DEF HasReplied
<1>3. Now(x) = Now(bb) /\ Length(x) = Length(bb)
  BY DEF HasReplied, Now, Length
<1> QED
  BY <1>2, <1>3 DEF HasReplied, TransferOK

LEMMA Answered ==
    ASSUME OneAsks, TransferOK(bb), NEW b \in Bots, NEW from \in Bots, from # b, bb.net[b] # <<>>,
           Silent(Tail(bb.net[b])), Silent(bb.net[from]), NEW r \in Robot,
           NEW a \in Messages, NEW x, x = Replies(b, r, <<a>>, TRUE)
    PROVE  HasReplied(x, b, r, <<a>>, TRUE) /\ OnItsWay(x, b, from, a)
<1>1. bb \in BotState /\ <<a>> \in Seq(Messages)
  BY DEF TransferOK
<1>2. HasReplied(x, b, r, <<a>>, TRUE)
  BY <1>1, RepliesAre
<1> QED
  BY <1>1, <1>2, AfterTheOne

LEMMA NotAnswered ==
    ASSUME OneAsks, TransferOK(bb), NEW b \in Bots, NEW from \in Bots, from # b, bb.net[b] # <<>>,
           Silent(Tail(bb.net[b])), Silent(bb.net[from]), NEW r \in Robot,
           NEW x, x = Replies(b, r, <<>>, TRUE)
    PROVE  HasReplied(x, b, r, <<>>, TRUE) /\ Silent(x.net[b]) /\ Silent(x.net[from])
<1>1. bb \in BotState /\ <<>> \in Seq(Messages)
  BY DEF TransferOK
<1>2. HasReplied(x, b, r, <<>>, TRUE)
  BY <1>1, RepliesAre
<1> QED
  BY <1>1, <1>2, AfterTheOne

LEMMA TheMessages ==
    /\ \A n \in Nat : Request(n) \in Messages
    /\ Answer(0) \in Messages /\ Answer(1) \in Messages /\ Answer(2) \in Messages
    /\ Ack(0) = <<Answer(0)>> /\ Ack(1) = <<Answer(1)>> /\ Ack(2) = <<Answer(2)>>
    /\ \A n : Request(n).cmd = "REQ" /\ Request(n).size = n /\ Request(n).cmd \notin Chatter
    /\ \A n : Answer(n).cmd = "ACK" /\ Answer(n).result = n /\ Answer(n).cmd \notin Chatter
    /\ \A t, k, n, last : LET p == Part(t, k, n, last)
                          IN  p.cmd = "PAYLOAD" /\ p.last = last /\ p.cmd \notin Chatter
                              /\ p.data = [i \in 1 .. n |-> <<t, k + i>>]
BY DEF Request, Answer, Part, Ack, Chatter, Messages

LEMMA RequestIsHandled ==
    ASSUME OneAsks, TransferOK(bb), NEW b \in Bots, Handle(b), Head(bb.net[b]).cmd \notin Chatter,
           UnderWay(bb), Requested(bb)
    PROVE  TransferOK(bb')
<1> DEFINE L == Length(bb)
           m == Request(L)
           q == bb.bots[b]
<1>1. /\ Asker \in Bots /\ Answerer \in Bots /\ Asker # Answerer /\ Bots = {Asker, Answerer}
      /\ bb \in BotState /\ bb.net[b] # <<>> /\ q \in Robot /\ bb.net[b] \in Seq(Messages)
  BY TheTwo DEF TransferOK, BotState, Handle
<1>2. L \in Nat \ {0} /\ Now(bb) \in Nat \ {0}
  BY WhileOpen
<1>3. b = Answerer /\ Head(bb.net[b]) = m /\ Silent(Tail(bb.net[b])) /\ Silent(bb.net[Asker])
  <2>1. m.cmd \notin Chatter
    BY DEF Request, Chatter
  <2>2. OnItsWay(bb, Asker, Answerer, m)
    BY DEF Requested
  <2> HIDE DEF m
  <2> QED
    BY <1>1, <2>1, <2>2, TakesTheOne
<1>4. handle_payload_request(b, Head(bb.net[b]))
  <2>1. Head(bb.net[b]).cmd = "REQ"
    BY <1>3, TheMessages
  <2> QED
    BY <2>1 DEF Handle
<1>6. CASE bb' = Replies(b, [q EXCEPT !.size = 0], <<Answer(1)>>, TRUE)
  <2> DEFINE r == [q EXCEPT !.size = 0]
             x == Replies(b, r, <<Answer(1)>>, TRUE)
  <2>1. r \in Robot /\ r.sending = q.sending
    BY <1>1, SetSize
  <2> HIDE DEF r
  <2>2. HasReplied(x, b, r, <<Answer(1)>>, TRUE) /\ OnItsWay(x, Answerer, Asker, Answer(1))
    BY <1>1, <1>3, <2>1, TheMessages, Answered
  <2> HIDE DEF x
  <2>4. Now(x) = Now(bb) /\ Length(x) = L /\ x.bots[Asker] = bb.bots[Asker]
    BY <1>1, <1>3, <2>2 DEF HasReplied, Now, Length
  <2>5. TurnedDown(x)
    BY <2>2, <2>4 DEF TurnedDown, Requested, AskerHas
  <2>6. UnderWay(x)
    BY <1>2, <2>2, <2>4, <2>5 DEF UnderWay, HasReplied
  <2>7. TransferOK(x)
    BY <1>1, <1>3, <2>1, <2>2, <2>6, HandledIsOK
  <2> QED
    BY <1>6, <2>7 DEF x, r
<1>7. CASE bb' = Replies(b, Accepting(q, L), <<Answer(0)>>, TRUE)
  <2> DEFINE r == Accepting(q, L)
             x == Replies(b, r, <<Answer(0)>>, TRUE)
  <2>1. r \in Robot /\ r.addr /\ r.data = 0 /\ r.sending = q.sending
    BY <1>1, <1>2, AcceptingRobot
  <2> HIDE DEF r
  <2>2. HasReplied(x, b, r, <<Answer(0)>>, TRUE) /\ OnItsWay(x, Answerer, Asker, Answer(0))
    BY <1>1, <1>3, <2>1, TheMessages, Answered
  <2> HIDE DEF x
  <2>4. Now(x) = Now(bb) /\ Length(x) = L /\ x.bots[Asker] = bb.bots[Asker] /\ x.bots[Answerer] = r
    BY <1>1, <1>3, <2>2 DEF HasReplied, Now, Length
  <2>5. AskerHas(x, 0)
    BY <2>4 DEF Requested, AskerHas
  <2>6. AnswererHas(x, 0)
    <3>1. r.buffer \in Seq(Cells)
      BY <2>1 DEF Robot
    <3>2. Len(r.buffer) >= 0
      BY <3>1
    <3> QED
      BY <2>1, <2>4, <3>2 DEF AnswererHas, Begins
  <2>7. Awaited(x)
    BY <1>2, <2>2, <2>4, <2>5, <2>6 DEF Awaited
  <2>8. UnderWay(x)
    BY <1>2, <2>2, <2>4, <2>7 DEF UnderWay, HasReplied
  <2>9. TransferOK(x)
    BY <1>1, <1>3, <2>1, <2>2, <2>8, HandledIsOK
  <2> QED
    BY <1>7, <2>9 DEF x, r
<1>8. Head(bb.net[b]).size = L
  BY <1>3, TheMessages
<1> QED
  BY <1>4, <1>6, <1>7, <1>8, TheMessages DEF handle_payload_request, Accepting

(* What a robot does with an acknowledgement in a transfer. *)
LEMMA AckIs ==
    ASSUME NEW b \in Bots, NEW m, handle_payload_ack(b, m), bb.bots[b] \in Robot,
           bb.bots[b].addr, bb.bots[b].data # NULL
    PROVE  LET q == bb.bots[b]
               p == Portion(q)
           IN  /\ m.result = 0 =>
                    bb' = Replies(b, Sent(q, p.rest, p.n),
                                <<[cmd |-> "PAYLOAD", last |-> p.last, data |-> Window(q, p.n)]>>, TRUE)
               /\ m.result = 1 => bb' = Replies(b, Ended(q, -1), <<>>, TRUE)
               /\ m.result = 2 /\ q.size = 0 => bb' = Replies(b, Ended(q, -2), <<>>, TRUE)
<1> DEFINE q == bb.bots[b]
           p == Portion(q)
           A == bb' = Replies(b, q, <<>>, TRUE)
           B == bb' = Replies(b, Sent(q, p.rest, p.n),
                              <<[cmd |-> "PAYLOAD", last |-> p.last, data |-> Window(q, p.n)]>>, TRUE)
           C == bb' = Replies(b, Ended(q, -1), <<>>, TRUE)
           D == bb' = Replies(b, [Closed(q) EXCEPT !.addr = FALSE, !.size = IF @ # 0 THEN -1 ELSE -2], <<>>, TRUE)
<1> DEFINE N == q.data = NULL \/ ~q.addr
           P(n) == q.data # NULL /\ q.addr /\ m.result = n
<1>1. (CASE N -> A [] P(0) -> B [] P(1) -> C [] P(2) -> D)
  BY Zenon DEF handle_payload_ack, Sent, Ended
<1>2. q.addr /\ q.data # NULL
  OBVIOUS
<1>3. (m.result = 2 /\ q.size = 0 /\ D) => bb' = Replies(b, Ended(q, -2), <<>>, TRUE)
  <2>1. Closed(q).size = q.size
    BY ClosedRobot
  <2>2. q.size = 0 => [Closed(q) EXCEPT !.addr = FALSE, !.size = IF @ # 0 THEN -1 ELSE -2] = Ended(q, -2)
    BY <2>1 DEF Ended
  <2> QED
    BY <2>2
<1>4. /\ m.result = 0 => ~N /\ P(0) /\ ~P(1) /\ ~P(2)
      /\ m.result = 1 => ~N /\ ~P(0) /\ P(1) /\ ~P(2)
      /\ m.result = 2 => ~N /\ ~P(0) /\ ~P(1) /\ P(2)
  BY <1>2
<1> HIDE DEF A, B, C, D, N, P
<1>5. m.result = 0 => B
  BY <1>1, <1>4
<1>6. m.result = 1 => C
  BY <1>1, <1>4
<1>7. m.result = 2 => D
  BY <1>1, <1>4
<1> QED
  BY <1>3, <1>5, <1>6, <1>7, Zenon DEF B, C, D

LEMMA RefusalIsHandled ==
    ASSUME OneAsks, TransferOK(bb), NEW b \in Bots, Handle(b), Head(bb.net[b]).cmd \notin Chatter,
           UnderWay(bb), TurnedDown(bb)
    PROVE  TransferOK(bb')
<1> DEFINE m == Answer(1)
           q == bb.bots[b]
           r == Ended(q, -1)
<1>1. /\ Asker \in Bots /\ Answerer \in Bots /\ Asker # Answerer /\ Bots = {Asker, Answerer}
      /\ bb \in BotState /\ bb.net[b] # <<>> /\ q \in Robot
  BY TheTwo DEF TransferOK, BotState, Handle
<1>2. b = Asker /\ Head(bb.net[b]) = m /\ Silent(Tail(bb.net[b])) /\ Silent(bb.net[Answerer])
  <2> HIDE DEF m
  <2>1. m.cmd \notin Chatter
    BY TheMessages DEF m
  <2>2. OnItsWay(bb, Answerer, Asker, m)
    BY DEF TurnedDown, m
  <2> QED
    BY <1>1, <2>1, <2>2, TakesTheOne
<1>3. handle_payload_ack(b, Head(bb.net[b]))
  <2>1. Head(bb.net[b]).cmd = "ACK"
    BY <1>2, TheMessages
  <2> QED
    BY <2>1 DEF Handle
<1>4. q.addr /\ q.data # NULL
  BY <1>2 DEF TurnedDown, AskerHas, NULL
<1>5. Head(bb.net[b]).result = 1
  BY <1>2, TheMessages
<1>6. bb' = Replies(b, r, <<>>, TRUE)
  BY <1>1, <1>3, <1>4, <1>5, AckIs
<1>7. r \in Robot /\ r.size = -1 /\ r.sending = q.sending /\ r.buffer = q.buffer
  BY <1>1, EndedRobot
<1> HIDE DEF r
<1> DEFINE x == Replies(b, r, <<>>, TRUE)
<1>8. HasReplied(x, b, r, <<>>, TRUE) /\ Silent(x.net[Asker]) /\ Silent(x.net[Answerer])
  BY <1>1, <1>2, <1>7, NotAnswered
<1> HIDE DEF x
<1>9. TransferOver(x)
  BY <1>2, <1>7, <1>8 DEF TransferOver, HasReplied
<1>10. TransferOK(x)
  BY <1>7, <1>8, <1>9, HandledIsOK
<1> QED
  BY <1>6, <1>10 DEF x

LEMMA EndIsHandled ==
    ASSUME OneAsks, TransferOK(bb), NEW b \in Bots, Handle(b), Head(bb.net[b]).cmd \notin Chatter,
           UnderWay(bb), Arrived(bb)
    PROVE  TransferOK(bb')
<1> DEFINE m == Answer(2)
           q == bb.bots[b]
           r == Ended(q, -2)
<1>1. /\ Asker \in Bots /\ Answerer \in Bots /\ Asker # Answerer /\ Bots = {Asker, Answerer}
      /\ bb \in BotState /\ bb.net[b] # <<>> /\ q \in Robot
  BY TheTwo DEF TransferOK, BotState, Handle
<1>2. b = Asker /\ Head(bb.net[b]) = m /\ Silent(Tail(bb.net[b])) /\ Silent(bb.net[Answerer])
  <2> HIDE DEF m
  <2>1. m.cmd \notin Chatter
    BY TheMessages DEF m
  <2>2. OnItsWay(bb, Answerer, Asker, m)
    BY DEF Arrived, m
  <2> QED
    BY <1>1, <2>1, <2>2, TakesTheOne
<1>3. handle_payload_ack(b, Head(bb.net[b]))
  <2>1. Head(bb.net[b]).cmd = "ACK"
    BY <1>2, TheMessages
  <2> QED
    BY <2>1 DEF Handle
<1>4. q.addr /\ q.data # NULL /\ q.size = 0
  BY <1>2, WhileOpen DEF Arrived, AskerHas, NULL
<1>5. Head(bb.net[b]).result = 2
  BY <1>2, TheMessages
<1>6. bb' = Replies(b, r, <<>>, TRUE)
  BY <1>1, <1>3, <1>4, <1>5, AckIs
<1>7. r \in Robot /\ r.size = -2 /\ r.sending = q.sending /\ r.buffer = q.buffer
  BY <1>1, EndedRobot
<1> HIDE DEF r
<1> DEFINE x == Replies(b, r, <<>>, TRUE)
<1>8. HasReplied(x, b, r, <<>>, TRUE) /\ Silent(x.net[Asker]) /\ Silent(x.net[Answerer])
  BY <1>1, <1>2, <1>7, NotAnswered
<1> HIDE DEF x
<1>9. Now(x) \in x.delivered
  BY <1>8 DEF Arrived, HasReplied, Now
<1>10. TransferOver(x)
  BY <1>8, <1>9 DEF TransferOver
<1>11. TransferOK(x)
  BY <1>7, <1>8, <1>10, HandledIsOK
<1> QED
  BY <1>6, <1>11 DEF x

(* The next window is the next part of the order. *)
LEMMA WindowIsHandled ==
    ASSUME OneAsks, TransferOK(bb), NEW b \in Bots, Handle(b), Head(bb.net[b]).cmd \notin Chatter,
           UnderWay(bb), Awaited(bb)
    PROVE  TransferOK(bb')
<1> DEFINE L == Length(bb)
           m == Answer(0)
           q == bb.bots[b]
           p == Portion(q)
           r == Sent(q, p.rest, p.n)
<1>1. /\ Asker \in Bots /\ Answerer \in Bots /\ Asker # Answerer /\ Bots = {Asker, Answerer}
      /\ bb \in BotState /\ bb.net[b] # <<>> /\ q \in Robot
  BY TheTwo DEF TransferOK, BotState, Handle
<1>2. L \in Nat \ {0} /\ Now(bb) \in Nat \ {0} /\ WINDOW \in Nat \ {0}
  BY WhileOpen DEF OneAsks
<1>3. PICK k \in 0 .. L : OnItsWay(bb, Answerer, Asker, m) /\ AskerHas(bb, k) /\ AnswererHas(bb, k)
  BY DEF Awaited
<1>4. b = Asker /\ Head(bb.net[b]) = m /\ Silent(Tail(bb.net[b])) /\ Silent(bb.net[Answerer])
  <2> HIDE DEF m
  <2>1. m.cmd \notin Chatter
    BY TheMessages DEF m
  <2> QED
    BY <1>1, <1>3, <2>1, TakesTheOne
<1>5. handle_payload_ack(b, Head(bb.net[b]))
  <2>1. Head(bb.net[b]).cmd = "ACK"
    BY <1>4, TheMessages
  <2> QED
    BY <2>1 DEF Handle
<1>6. q.addr /\ q.data = k /\ q.data # NULL /\ q.size = L - k
  BY <1>2, <1>3, <1>4 DEF AskerHas, NULL
<1>7. Head(bb.net[b]).result = 0
  BY <1>4, TheMessages
<1>8. /\ p.n \in 0 .. L /\ k + p.n <= L /\ p.rest = L - (k + p.n) /\ p.last \in BOOLEAN
      /\ p.last => k + p.n = L
  BY <1>2, <1>6 DEF Portion
<1>9. Window(q, p.n) = [i \in 1 .. p.n |-> <<Now(bb), k + i>>]
  <2>1. q.buffer = [i \in 1 .. L |-> <<Now(bb), i>>]
    BY <1>2, <1>4 DEF TransferOK
  <2>2. \A i \in 1 .. p.n : q.data + i \in 1 .. L /\ q.data + i = k + i
    BY <1>2, <1>6, <1>8
  <2> HIDE DEF p, q
  <2> QED
    BY <2>1, <2>2 DEF Window
<1>10. bb' = Replies(b, r, <<Part(Now(bb), k, p.n, p.last)>>, TRUE)
  <2>1. bb' = Replies(b, r, <<[cmd |-> "PAYLOAD", last |-> p.last, data |-> Window(q, p.n)]>>, TRUE)
    BY <1>1, <1>5, <1>6, <1>7, AckIs
  <2> HIDE DEF p, q, r
  <2> QED
    BY <1>9, <2>1 DEF Part
<1> HIDE DEF p
<1>11. /\ r \in Robot /\ r.size = L - (k + p.n) /\ r.data = k + p.n /\ r.addr
       /\ r.sending = q.sending /\ r.buffer = q.buffer
  BY <1>1, <1>2, <1>6, <1>8, SentRobot
<1> HIDE DEF r
<1>12. Part(Now(bb), k, p.n, p.last) \in Messages
  <2>1. ASSUME NEW n \in Nat
        PROVE  [i \in 1 .. n |-> <<Now(bb), k + i>>] \in Seq(Cells)
    <3>1. \A i \in 1 .. n : <<Now(bb), k + i>> \in Cells
      BY <1>2 DEF Cells
    <3> QED
      BY <3>1
  <2>2. p.n \in Nat
    BY <1>2, <1>8
  <2> QED
    BY <1>8, <2>1, <2>2 DEF Part, Messages
<1> DEFINE a == Part(Now(bb), k, p.n, p.last)
           x == Replies(b, r, <<a>>, TRUE)
<1>13. HasReplied(x, b, r, <<a>>, TRUE) /\ OnItsWay(x, Asker, Answerer, a)
  <2> HIDE DEF a
  <2> QED
    BY <1>1, <1>4, <1>11, <1>12, Answered DEF a
<1> HIDE DEF x
<1>14. Now(x) = Now(bb) /\ Length(x) = L /\ x.bots[Asker] = r /\ x.bots[Answerer] = bb.bots[Answerer]
  BY <1>1, <1>4, <1>13 DEF HasReplied, Now, Length
<1>15. AskerHas(x, k + p.n) /\ AnswererHas(x, k)
  BY <1>3, <1>11, <1>14 DEF AskerHas, AnswererHas
<1>16. Carried(x)
  BY <1>8, <1>13, <1>14, <1>15 DEF Carried
<1>17. UnderWay(x)
  BY <1>2, <1>4, <1>11, <1>13, <1>14, <1>16 DEF UnderWay, HasReplied
<1>18. TransferOK(x)
  BY <1>11, <1>13, <1>17, HandledIsOK
<1> QED
  BY <1>10, <1>18 DEF x

(* What a robot does with a part that is not the last one, and with the last *)
(* one.                                                                      *)
LEMMA DataIs ==
    ASSUME NEW b \in Bots, NEW m, handle_payload_data(b, m), bb.bots[b] \in Robot, m.last \in BOOLEAN,
           bb.bots[b].addr, bb.bots[b].data # NULL
    PROVE  LET w == FilledUp(bb.bots[b], Filled(bb.bots[b], m.data), Len(m.data))
           IN  /\ m.last => bb' = Deliver(Replies(b, Emptied(w), Ack(2), TRUE), w.buffer)
               /\ ~m.last => bb' = Replies(b, w, Ack(0), TRUE)
<1> DEFINE q == bb.bots[b]
           w == FilledUp(q, Filled(q, m.data), Len(m.data))
           A == bb' = Replies(b, q, <<>>, TRUE)
           B == bb' = [Replies(b, q, <<>>, TRUE) EXCEPT !.torn = TRUE]
           C == bb' = Deliver(Replies(b, Emptied(w), Ack(2), TRUE), w.buffer)
           D == bb' = Replies(b, w, Ack(0), TRUE)
           N == q.addr /\ q.data = NULL
           P == q.addr /\ q.data # NULL /\ m.last
           R == q.addr /\ q.data # NULL /\ ~m.last
<1>1. (CASE ~q.addr -> A [] N -> B [] P -> C [] R -> D)
  BY Zenon DEF handle_payload_data, FilledUp, Emptied
<1>2. /\ q.addr /\ ~N
      /\ m.last => P /\ ~R
      /\ ~m.last => R /\ ~P
  OBVIOUS
<1> HIDE DEF A, B, C, D, N, P, R
<1>3. m.last => C
  BY <1>1, <1>2
<1>4. ~m.last => D
  BY <1>1, <1>2
<1> QED
  BY <1>3, <1>4, Zenon DEF C, D

LEMMA FilledIs ==
    ASSUME NEW q \in Robot, NEW t \in Nat, NEW k \in Nat, NEW n \in Nat, q.data = k,
           Begins(q.buffer, t, k),
           NEW d, d = [i \in 1 .. n |-> <<t, k + i>>], NEW f, f = Filled(q, d)
    PROVE  f \in Seq(Cells) /\ Begins(f, t, k + n)
<1> DEFINE data == [i \in 1 .. n |-> <<t, k + i>>]
           l == Longer(Len(q.buffer), k + n)
           At(i) == IF i > k /\ i <= k + n THEN data[i - k]
                    ELSE IF i <= Len(q.buffer) THEN q.buffer[i] ELSE <<0, 0>>
           u == [i \in 1 .. l |-> At(i)]
<1>1. q.buffer \in Seq(Cells) /\ Len(q.buffer) \in Nat
  BY DEF Robot
<1>2. data \in Seq(Cells) /\ Len(data) = n
  BY DEF Cells
<1>3. l \in Nat /\ l >= k + n
  BY <1>1 DEF Longer
<1>4. \A i \in 1 .. n : data[i] = <<t, k + i>>
  OBVIOUS
<1>5. Filled(q, data) = u
  <2> HIDE DEF data
  <2> QED
    BY <1>2 DEF Filled
<1> HIDE DEF data, l
<1>6. ASSUME NEW i \in 1 .. l
      PROVE  At(i) \in Cells /\ (i <= k + n => At(i) = <<t, i>>)
  <2>1. CASE i > k /\ i <= k + n
    <3>1. i - k \in 1 .. n /\ k + (i - k) = i
      BY <1>3, <2>1
    <3>2. data[i - k] = <<t, i>>
      BY <1>4, <3>1
    <3>3. <<t, i>> \in Cells
      BY <1>3 DEF Cells
    <3> QED
      BY <2>1, <3>2, <3>3
  <2>2. CASE i <= k
    <3>1. At(i) = q.buffer[i] /\ i \in 1 .. k
      BY <1>1, <1>3, <2>2 DEF Begins
    <3>2. <<t, i>> \in Cells
      BY <1>3 DEF Cells
    <3> QED
      BY <3>1, <3>2 DEF Begins
  <2>3. CASE i > k + n
    <3>1. At(i) = IF i <= Len(q.buffer) THEN q.buffer[i] ELSE <<0, 0>>
      BY <2>3
    <3>2. i <= Len(q.buffer) => q.buffer[i] \in Cells
      BY <1>1, <1>3, ElementOfSeq
    <3>3. <<0, 0>> \in Cells
      BY DEF Cells
    <3> QED
      BY <1>3, <2>3, <3>1, <3>2, <3>3
  <2> QED
    BY <1>3, <2>1, <2>2, <2>3
<1> HIDE DEF At
<1>7. u \in Seq(Cells) /\ Len(u) = l /\ \A i \in 1 .. l : u[i] = At(i)
  BY <1>3, <1>6
<1> HIDE DEF u
<1>8. \A i \in 1 .. k + n : u[i] = <<t, i>>
  BY <1>3, <1>6, <1>7
<1>9. u \in Seq(Cells) /\ Begins(u, t, k + n)
  BY <1>3, <1>7, <1>8 DEF Begins
<1> QED
  BY <1>5, <1>9 DEF data

LEMMA PartIsHandled ==
    ASSUME OneAsks, TransferOK(bb), NEW b \in Bots, Handle(b), Head(bb.net[b]).cmd \notin Chatter,
           UnderWay(bb), Carried(bb)
    PROVE  TransferOK(bb')
<1> DEFINE L == Length(bb)
           t == Now(bb)
           q == bb.bots[b]
<1>1. /\ Asker \in Bots /\ Answerer \in Bots /\ Asker # Answerer /\ Bots = {Asker, Answerer}
      /\ bb \in BotState /\ bb.net[b] # <<>> /\ q \in Robot
  BY TheTwo DEF TransferOK, BotState, Handle
<1>2. L \in Nat \ {0} /\ t \in Nat \ {0}
  BY WhileOpen
<1>3. PICK k, n \in 0 .. L, last \in BOOLEAN :
         /\ k + n <= L /\ (last => k + n = L)
         /\ OnItsWay(bb, Asker, Answerer, Part(t, k, n, last))
         /\ AskerHas(bb, k + n) /\ AnswererHas(bb, k)
  BY DEF Carried
<1> DEFINE m == Part(t, k, n, last)
<1>4. b = Answerer /\ Head(bb.net[b]) = m /\ Silent(Tail(bb.net[b])) /\ Silent(bb.net[Asker])
  <2>1. m.cmd \notin Chatter
    BY TheMessages
  <2> HIDE DEF m
  <2>2. OnItsWay(bb, Asker, Answerer, m)
    BY <1>3 DEF m
  <2> QED
    BY <1>1, <2>1, <2>2, TakesTheOne
<1>5. m.last = last /\ m.data = [i \in 1 .. n |-> <<t, k + i>>] /\ Len(m.data) = n /\ m.cmd = "PAYLOAD"
  <2>1. m.last = last /\ m.data = [i \in 1 .. n |-> <<t, k + i>>] /\ m.cmd = "PAYLOAD"
    BY TheMessages
  <2>2. Len([i \in 1 .. n |-> <<t, k + i>>]) = n
    OBVIOUS
  <2> QED
    BY <2>1, <2>2
<1> HIDE DEF m
<1>6. handle_payload_data(b, m)
  BY <1>4, <1>5 DEF Handle
<1>7. q.addr /\ q.data = k /\ q.data # NULL /\ Begins(q.buffer, t, k)
  BY <1>2, <1>3, <1>4 DEF AnswererHas, NULL
<1> DEFINE u == Filled(q, m.data)
           w == FilledUp(q, u, n)
<1>8. u \in Seq(Cells) /\ Begins(u, t, k + n)
  <2> DEFINE d == m.data
  <2>1. t \in Nat /\ k \in Nat /\ n \in Nat
    BY <1>2
  <2>2. q \in Robot /\ q.data = k /\ Begins(q.buffer, t, k)
    BY <1>1, <1>7
  <2>3. d = [i \in 1 .. n |-> <<t, k + i>>] /\ u = Filled(q, d)
    BY <1>5
  <2> HIDE DEF t, q, u, d
  <2> QED
    BY <2>1, <2>2, <2>3, FilledIs
<1> HIDE DEF u
<1>9. /\ w \in Robot /\ w.data = k + n /\ w.addr = q.addr /\ w.sending = q.sending /\ w.buffer = u
  <2>1. n \in Int /\ q.data = k /\ q \in Robot /\ u \in Seq(Cells)
    BY <1>1, <1>2, <1>7, <1>8
  <2> HIDE DEF q
  <2> QED
    BY <2>1, FilledRobot
<1>10. CASE ~last
  <2>1. bb' = Replies(b, w, <<Answer(0)>>, TRUE)
    <3>1. bb' = Replies(b, FilledUp(q, Filled(q, m.data), Len(m.data)), Ack(0), TRUE)
      BY <1>1, <1>5, <1>6, <1>7, <1>10, DataIs
    <3> QED
      BY <1>5, <3>1, TheMessages DEF u
  <2> HIDE DEF w
  <2> DEFINE x == Replies(b, w, <<Answer(0)>>, TRUE)
  <2>2. HasReplied(x, b, w, <<Answer(0)>>, TRUE) /\ OnItsWay(x, Answerer, Asker, Answer(0))
    BY <1>1, <1>4, <1>9, TheMessages, Answered
  <2> HIDE DEF x
  <2>3. Now(x) = t /\ Length(x) = L /\ x.bots[Asker] = bb.bots[Asker] /\ x.bots[Answerer] = w
    BY <1>1, <1>4, <2>2 DEF HasReplied, Now, Length
  <2>4. AskerHas(x, k + n)
    BY <1>3, <2>3 DEF AskerHas
  <2>5. AnswererHas(x, k + n)
    BY <1>7, <1>8, <1>9, <2>3 DEF AnswererHas
  <2>6. k + n \in 0 .. L
    BY <1>2, <1>3
  <2>7. Awaited(x)
    BY <2>2, <2>3, <2>4, <2>5, <2>6 DEF Awaited
  <2>8. UnderWay(x)
    BY <1>2, <2>2, <2>3, <2>7 DEF UnderWay, HasReplied
  <2>9. TransferOK(x)
    BY <1>1, <1>4, <1>9, <2>2, <2>8, HandledIsOK
  <2> QED
    BY <2>1, <2>9 DEF x
<1>11. CASE last
  <2> DEFINE r == Emptied(w)
             x == Replies(b, r, <<Answer(2)>>, TRUE)
             whole == {i \in DOMAIN bb.transfers :
                         Len(u) >= bb.transfers[i] /\ SubSeq(u, 1, bb.transfers[i]) = Data(i)}
             y == [x EXCEPT !.delivered = x.delivered \cup whole, !.torn = x.torn \/ whole = {}]
  <2>1. bb' = Deliver(x, u)
    <3>1. bb' = Deliver(Replies(b, Emptied(FilledUp(q, Filled(q, m.data), Len(m.data))), Ack(2), TRUE),
                        FilledUp(q, Filled(q, m.data), Len(m.data)).buffer)
      BY <1>1, <1>5, <1>6, <1>7, <1>11, DataIs
    <3>2. FilledUp(q, Filled(q, m.data), Len(m.data)) = w
      BY <1>5 DEF u
    <3> QED
      BY <1>9, <3>1, <3>2, TheMessages
  <2>2. Deliver(x, u) = y
    BY Zenon DEF Deliver
  <2>3. r \in Robot /\ r.sending = q.sending
    BY <1>9, ClosedRobot
  <2> HIDE DEF r
  <2>4. HasReplied(x, b, r, <<Answer(2)>>, TRUE) /\ OnItsWay(x, Answerer, Asker, Answer(2))
    BY <1>1, <1>4, <2>3, TheMessages, Answered
  <2> HIDE DEF x
  <2>5. bb.transfers \in Seq(Sizes) /\ t \in DOMAIN bb.transfers /\ bb.transfers[t] = L
    <3>1. bb.transfers \in Seq(Sizes)
      BY <1>1 DEF BotState
    <3> QED
      BY <1>2, <3>1 DEF Now, Length
  <2>6. Data(t) = [i \in 1 .. L |-> <<t, i>>]
    BY <2>5 DEF Data
  <2>7. SubSeq(u, 1, L) = [i \in 1 .. L |-> <<t, i>>]
    <3>1. k + n = L
      BY <1>3, <1>11
    <3>2. SubSeq(u, 1, L) = [i \in 1 .. L |-> u[i]]
      BY <1>2, <1>8, <3>1 DEF Begins
    <3> QED
      BY <1>8, <3>1, <3>2 DEF Begins
  <2>8. t \in whole
    <3>1. Len(u) >= L
      BY <1>3, <1>8, <1>11 DEF Begins
    <3> QED
      BY <2>5, <2>6, <2>7, <3>1
  <2>9. whole \in SUBSET Nat
    BY <2>5
  <2> HIDE DEF whole
  <2>10. /\ y \in BotState /\ y.net = x.net /\ y.bots = x.bots /\ y.disturbed = x.disturbed
         /\ y.transfers = x.transfers /\ y.succeeded = x.succeeded
         /\ y.delivered = x.delivered \cup whole
    <3>1. x \in BotState /\ x.delivered \cup whole \in SUBSET Nat
      BY <2>4, <2>9 DEF HasReplied, BotState
    <3>2. (x.torn \/ whole = {}) \in BOOLEAN
      OBVIOUS
    <3> QED
      BY <3>1, <3>2 DEF BotState
  <2>11. ~y.torn
    <3>1. ~x.torn /\ whole # {} /\ x \in BotState
      BY <2>4, <2>8 DEF HasReplied, TransferOK
    <3> QED
      BY <3>1 DEF BotState
  <2> HIDE DEF y
  <2>12. Now(y) = t /\ Length(y) = L /\ y.bots[Asker] = bb.bots[Asker] /\ y.bots[Answerer] = r
    BY <1>1, <1>4, <2>4, <2>10 DEF HasReplied, Now, Length
  <2>13. AskerHas(y, L)
    BY <1>3, <1>11, <2>12 DEF AskerHas
  <2>14. Arrived(y)
    BY <2>4, <2>8, <2>10, <2>12, <2>13 DEF Arrived, OnItsWay
  <2>15. UnderWay(y)
    BY <1>2, <2>4, <2>10, <2>12, <2>14 DEF UnderWay, HasReplied
  <2>16. y.succeeded \subseteq y.delivered
    BY <2>4, <2>10 DEF HasReplied, TransferOK
  <2>17. TransferOK(y)
    BY <1>4, <2>3, <2>10, <2>11, <2>12, <2>15, <2>16 DEF TransferOK
  <2> QED
    BY <2>1, <2>2, <2>17
<1> QED
  BY <1>10, <1>11

-----------------------------------------------------------------------------
LEMMA TheOneIsThere ==
    ASSUME NEW s, UnderWay(s)
    PROVE  \E m : /\ m.cmd \notin Chatter
                  /\ OnItsWay(s, Asker, Answerer, m) \/ OnItsWay(s, Answerer, Asker, m)
<1>1. CASE Requested(s)
  BY <1>1, TheMessages DEF Requested
<1>2. CASE TurnedDown(s)
  BY <1>2, TheMessages DEF TurnedDown
<1>3. CASE Awaited(s)
  BY <1>3, TheMessages DEF Awaited
<1>4. CASE Carried(s)
  BY <1>4, TheMessages DEF Carried
<1>5. CASE Arrived(s)
  BY <1>5, TheMessages DEF Arrived
<1> QED
  BY <1>1, <1>2, <1>3, <1>4, <1>5 DEF UnderWay

(* When the one message is lost the transfer is over, and nobody is told of  *)
(* success.                                                                  *)
LEMMA LossIsOK ==
    ASSUME OneAsks, TransferOK(bb), NEW b \in Bots, Lose(b)
    PROVE  TransferOK(bb')
<1> DEFINE net == [bb.net EXCEPT ![b] = Tail(bb.net[b])]
           y == [[[bb EXCEPT !.net = net] EXCEPT !.losses = bb.losses - 1] EXCEPT !.disturbed = TRUE]
<1>1. /\ bb \in BotState /\ bb.net \in [Bots -> Seq(Messages)] /\ bb.net[b] # <<>>
      /\ bb.net[b] \in Seq(Messages) /\ bb.losses \in Nat /\ bb.losses > 0
      /\ Asker # Answerer /\ Bots = {Asker, Answerer}
  BY TheTwo DEF TransferOK, BotState, Lose
<1>2. bb' = y
  BY Zenon DEF Lose
<1>3. net \in [Bots -> Seq(Messages)] /\ net[b] = Tail(bb.net[b]) /\ \A c \in Bots : c # b => net[c] = bb.net[c]
  BY <1>1, TailIs
<1> HIDE DEF net
<1>4. /\ y \in BotState /\ y.net = net /\ y.bots = bb.bots /\ y.disturbed
      /\ y.transfers = bb.transfers /\ y.delivered = bb.delivered /\ y.torn = bb.torn
      /\ y.succeeded = bb.succeeded
  <2>1. bb.losses - 1 \in Nat
    BY <1>1
  <2> QED
    BY <1>1, <1>3, <2>1 DEF BotState
<1> HIDE DEF y
<1>5. SameTransfer(bb, y)
  BY <1>4 DEF SameTransfer
<1>6. CASE Head(bb.net[b]).cmd \in Chatter
  <2>1. \A c \in Bots : SameOrders(bb.net[c], y.net[c])
    BY <1>1, <1>3, <1>4, <1>6, SameQueue, TailSame
  <2> QED
    BY <1>2, <1>4, <1>5, <2>1, ChatterKeeps
<1>7. CASE Head(bb.net[b]).cmd \notin Chatter
  <2>1. ~Silent(bb.net[b])
    <3>1. Head(bb.net[b]) = bb.net[b][1] /\ 1 \in 1 .. Len(bb.net[b])
      BY <1>1, TailIs
    <3> QED
      BY <1>7, <3>1 DEF Silent
  <2>2. UnderWay(bb)
    BY <1>1, <2>1 DEF TransferOK, TransferOver
  <2> PICK m : /\ m.cmd \notin Chatter
               /\ OnItsWay(bb, Asker, Answerer, m) \/ OnItsWay(bb, Answerer, Asker, m)
    BY <2>2, TheOneIsThere
  <2>3. PICK from \in Bots, to \in Bots : from # to /\ OnItsWay(bb, from, to, m)
    BY <1>1
  <2>4. b = to /\ Silent(Tail(bb.net[to])) /\ Silent(bb.net[from])
    BY <1>1, <1>7, <2>3, TakesTheOne
  <2>5. Silent(y.net[Asker]) /\ Silent(y.net[Answerer])
    BY <1>1, <1>3, <1>4, <2>3, <2>4
  <2>6. y.bots[Asker].size # -2
    BY <1>4, <2>2, WhileOpen
  <2>7. TransferOver(y)
    BY <2>5, <2>6 DEF TransferOver
  <2>8. Now(y) = Now(bb) /\ Length(y) = Length(bb)
    BY <1>4 DEF Now, Length
  <2>9. TransferOK(y)
    BY <1>4, <2>7, <2>8 DEF TransferOK
  <2> QED
    BY <1>2, <2>9
<1> QED
  BY <1>6, <1>7

LEMMA HandleIsOK ==
    ASSUME OneAsks, TransferOK(bb), NEW b \in Bots, Handle(b)
    PROVE  TransferOK(bb')
<1>1. CASE Head(bb.net[b]).cmd \in Chatter
  BY <1>1, ChatterIsHandled
<1>2. CASE Head(bb.net[b]).cmd \notin Chatter
  <2>1. bb.net[b] \in Seq(Messages) /\ bb.net[b] # <<>>
    BY DEF TransferOK, BotState, Handle
  <2>2. Head(bb.net[b]) = bb.net[b][1] /\ 1 \in 1 .. Len(bb.net[b])
    BY <2>1, TailIs
  <2>3. b \in {Asker, Answerer}
    BY TheTwo
  <2>4. UnderWay(bb)
    BY <1>2, <2>2, <2>3 DEF TransferOK, TransferOver, Silent
  <2> QED
    BY <1>2, <2>4, RequestIsHandled, RefusalIsHandled, WindowIsHandled, PartIsHandled, EndIsHandled
       DEF UnderWay
<1> QED
  BY <1>1, <1>2

LEMMA TransferStep ==
    ASSUME OneAsks, TransferOK(bb), [BotNext]_bb
    PROVE  TransferOK(bb')
<1>1. CASE UNCHANGED bb
  BY <1>1
<1>2. ASSUME NEW b \in Requesters, bot_2_bot_send_payload_request(b)
      PROVE  TransferOK(bb')
  BY <1>2, RequestIsOK
<1>3. ASSUME NEW b \in Bots, SendReturns(b) \/ SendGivesUp(b)
      PROVE  TransferOK(bb')
  BY <1>3, SenderIsOK
<1>4. ASSUME NEW b \in Bots, Handle(b)
      PROVE  TransferOK(bb')
  BY <1>4, HandleIsOK
<1>5. ASSUME NEW b \in Bots, Lose(b)
      PROVE  TransferOK(bb')
  BY <1>5, LossIsOK
<1>6. ASSUME NEW b \in Bots, (\E state \in {"available", "busy"} : Publish(b, state)) \/ Welcome(b)
      PROVE  TransferOK(bb')
  BY <1>6, PublishIsOK
<1> QED
  BY <1>1, <1>2, <1>3, <1>4, <1>5, <1>6 DEF BotNext

(* bot-2-bot.c:327-559: while one robot asks and does not ask again after a  *)
(* loss, whatever is sent, however large the windows are, and whatever gets  *)
(* lost, an order is carried out only when all of it is there, and success   *)
(* is reported only of an order that has been carried out.                   *)
THEOREM OrdersAreWhole ==
    ASSUME OneAsks
    PROVE  BotSpec => []TransfersAreTrue
<1>1. BotInit => TransferOK(bb)
  BY StartIsOK
<1>2. TransferOK(bb) /\ [BotNext]_bb => TransferOK(bb)'
  <2> SUFFICES ASSUME TransferOK(bb), [BotNext]_bb
               PROVE  TransferOK(bb')
    OBVIOUS
  <2> QED
    BY TransferStep
<1>3. TransferOK(bb) => TransfersAreTrue
  BY DEF TransferOK, TransfersAreTrue, OrdersArriveWhole, SuccessIsTrue
<1> QED
  BY <1>1, <1>2, <1>3, PTL DEF BotSpec

-----------------------------------------------------------------------------
(* Recorded ways: recorder and drive share one pointer to a store.           *)
Tables == [Names -> Record]

LEMMA TheNames ==
    /\ Names = {"save_waypos", "goto_pos", "follow_object", "drive_stack"}
    /\ \A b \in Names : Normal(b) /\ b # "none"
<1>1. Names = {"save_waypos", "goto_pos", "follow_object", "drive_stack"}
  BY DEF Names, Prio
<1>2. \A b \in Names : Prio[b] \in PrioMin .. PrioMax
  BY <1>1 DEF Prio, PrioMin, PrioMax
<1> QED
  BY <1>1, <1>2 DEF Normal

(* What the functions of bot-logic.c do, field by field. *)
Woken(t, p, r, v) ==
    /\ v \in Tables
    /\ \A c \in Names : /\ v[c].caller = t[c].caller
                        /\ v[c].active <=> t[c].active \/ c = p
                        /\ v[c].subResult = IF c = p THEN r ELSE t[c].subResult

LEMMA WakeDoes ==
    ASSUME NEW t \in Tables, NEW p \in Names \cup {"none"}, NEW r \in SubResults
    PROVE  Woken(t, p, r, Wake(t, p, r))
<1> USE DEF Woken
<1>1. CASE p = "none"
  <2>1. Wake(t, p, r) = t
    BY <1>1 DEF Wake
  <2> QED
    BY <1>1, <2>1, TheNames
<1>2. CASE p \in Names
  <2> DEFINE q == [active |-> TRUE, caller |-> t[p].caller, subResult |-> r]
             v == [t EXCEPT ![p] = q]
  <2>1. Wake(t, p, r) = v
    BY <1>2, TheNames DEF Wake
  <2>2. q \in Record /\ q.active = TRUE /\ q.caller = t[p].caller /\ q.subResult = r
    BY <1>2 DEF Tables, Record
  <2> HIDE DEF q
  <2>3. v \in Tables /\ v[p] = q /\ \A c \in Names \ {p} : v[c] = t[c]
    BY <1>2, <2>2 DEF Tables
  <2> HIDE DEF v
  <2> QED
    BY <1>2, <2>1, <2>2, <2>3
<1> QED
  BY <1>1, <1>2

LEMMA ExitDoes ==
    ASSUME NEW t \in Tables, NEW b \in Names, NEW r \in SubResults, t[b].caller # b
    PROVE  /\ exit_behaviour(t, b, r) \in Tables
           /\ \A c \in Names :
                /\ exit_behaviour(t, b, r)[c].caller = IF c = b THEN "none" ELSE t[c].caller
                /\ exit_behaviour(t, b, r)[c].active <=> (t[c].active /\ c # b) \/ c = t[b].caller
                /\ exit_behaviour(t, b, r)[c].subResult = IF c = t[b].caller THEN r ELSE t[c].subResult
<1> DEFINE p == t[b].caller
           off == [t EXCEPT ![b].active = FALSE]
           woken == Wake(off, p, r)
           v == [woken EXCEPT ![b].caller = "none"]
<1>1. p \in Names \cup {"none"}
  BY DEF Tables, Record
<1>2. /\ off \in Tables
      /\ \A c \in Names : /\ off[c].caller = t[c].caller /\ off[c].subResult = t[c].subResult
                          /\ off[c].active <=> t[c].active /\ c # b
  BY DEF Tables, Record
<1>3. exit_behaviour(t, b, r) = v
  BY DEF exit_behaviour
<1> HIDE DEF off, p
<1>4. Woken(off, p, r, woken)
  <2>1. off \in Tables
    BY <1>2
  <2> QED
    BY <1>1, <2>1, WakeDoes
<1> HIDE DEF woken
<1>5. /\ v \in Tables
      /\ \A c \in Names : /\ v[c].caller = IF c = b THEN "none" ELSE woken[c].caller
                          /\ v[c].active = woken[c].active /\ v[c].subResult = woken[c].subResult
  BY <1>4 DEF Woken, Tables, Record
<1> HIDE DEF v
<1>6. \A c \in Names : /\ v[c].caller = IF c = b THEN "none" ELSE t[c].caller
                       /\ v[c].active <=> (t[c].active /\ c # b) \/ c = p
                       /\ v[c].subResult = IF c = p THEN r ELSE t[c].subResult
  BY <1>2, <1>4, <1>5 DEF Woken
<1> QED
  BY <1>3, <1>5, <1>6, Zenon DEF p

LEMMA CallDoes ==
    ASSUME NEW t \in Tables, NEW from \in Names \cup {"none"}, NEW to \in Names,
           from # to, t[to].caller # to
    PROVE  /\ calls(t, from, to) \in Tables
           /\ \A c \in Names :
                /\ calls(t, from, to)[c].caller = IF c = to THEN from ELSE t[c].caller
                /\ calls(t, from, to)[c].active <=> c = to \/ (c # from /\ (t[c].active \/ c = t[to].caller))
                /\ calls(t, from, to)[c].subResult =
                     IF c = from THEN RUNNING ELSE IF c = t[to].caller THEN FAIL ELSE t[c].subResult
<1> DEFINE p == t[to].caller
           taken == Wake(t, p, FAIL)
           slept == SuspendCaller(taken, from, Over)
           v == [slept EXCEPT ![to] = [active |-> TRUE, caller |-> from, subResult |-> slept[to].subResult]]
<1>1. p \in Names \cup {"none"} /\ FAIL \in SubResults /\ RUNNING \in SubResults
  BY DEF Tables, Record, SubResults
<1>2. calls(t, from, to) = v
  BY DEF calls, switch_to_behaviour, Refused, Over
<1> HIDE DEF p
<1>3. Woken(t, p, FAIL, taken)
  BY <1>1, WakeDoes
<1> HIDE DEF taken
<1>4. /\ slept \in Tables
      /\ \A c \in Names : /\ slept[c].caller = taken[c].caller
                          /\ slept[c].active <=> taken[c].active /\ c # from
                          /\ slept[c].subResult = IF c = from THEN RUNNING ELSE taken[c].subResult
  <2>1. CASE from = "none"
    <3>1. slept = taken
      BY <2>1 DEF SuspendCaller
    <3> QED
      BY <1>3, <2>1, <3>1, TheNames DEF Woken
  <2>2. CASE from \in Names
    <3> DEFINE q == [active |-> FALSE, caller |-> taken[from].caller, subResult |-> RUNNING]
    <3>1. slept = [taken EXCEPT ![from] = q]
      BY <2>2, TheNames DEF SuspendCaller, Over
    <3>2. q \in Record /\ q.active = FALSE /\ q.caller = taken[from].caller /\ q.subResult = RUNNING
      BY <1>1, <1>3, <2>2 DEF Woken, Tables, Record
    <3> HIDE DEF q, slept
    <3>3. slept \in Tables /\ slept[from] = q /\ \A c \in Names \ {from} : slept[c] = taken[c]
      BY <1>3, <2>2, <3>1, <3>2 DEF Woken, Tables
    <3> QED
      BY <1>3, <2>2, <3>2, <3>3 DEF Woken
  <2> QED
    BY <2>1, <2>2
<1> HIDE DEF slept
<1>5. /\ v \in Tables
      /\ \A c \in Names : /\ v[c].caller = IF c = to THEN from ELSE slept[c].caller
                          /\ v[c].active <=> slept[c].active \/ c = to
                          /\ v[c].subResult = slept[c].subResult
  <2> DEFINE q == [active |-> TRUE, caller |-> from, subResult |-> slept[to].subResult]
  <2>1. q \in Record /\ q.active = TRUE /\ q.caller = from /\ q.subResult = slept[to].subResult
    BY <1>4 DEF Tables, Record
  <2>3. v = [slept EXCEPT ![to] = q]
    BY Zenon
  <2> HIDE DEF q, v
  <2>2. v \in Tables /\ v[to] = q /\ \A c \in Names \ {to} : v[c] = slept[c]
    BY <1>4, <2>1, <2>3 DEF Tables
  <2> QED
    BY <2>1, <2>2
<1> HIDE DEF v
<1>6. \A c \in Names : /\ v[c].caller = IF c = to THEN from ELSE t[c].caller
                       /\ v[c].active <=> c = to \/ (c # from /\ (t[c].active \/ c = p))
                       /\ v[c].subResult = IF c = from THEN RUNNING ELSE IF c = p THEN FAIL ELSE t[c].subResult
  BY <1>3, <1>4, <1>5 DEF Woken
<1> QED
  BY <1>2, <1>5, <1>6, Zenon DEF p

(* A call for the background, which may be refused. *)
LEMMA ActivateDoes ==
    ASSUME NEW t \in Tables, NEW from \in Names \cup {"none"}, NEW to \in Names, from # to
    PROVE  /\ activateBehaviour(t, from, to) \in Tables
           /\ \A c \in Names :
                /\ activateBehaviour(t, from, to)[c].caller \in {t[c].caller, IF c = to THEN from ELSE t[c].caller}
                /\ c # to => (activateBehaviour(t, from, to)[c].active <=> t[c].active)
                /\ c # from => activateBehaviour(t, from, to)[c].subResult = t[c].subResult
<1> DEFINE v == activateBehaviour(t, from, to)
<1>1. FAIL \in SubResults /\ BACKGR \in SubResults
  BY DEF SubResults
<1>2. CASE Refused(t, to, Behind)
  <2>1. v = IF from = "none" THEN t ELSE [t EXCEPT ![from].subResult = FAIL]
    BY <1>2 DEF activateBehaviour, switch_to_behaviour
  <2>2. CASE from = "none"
    BY <2>1, <2>2
  <2>3. CASE from \in Names
    <3>1. v = [t EXCEPT ![from].subResult = FAIL]
      BY <2>1, <2>3, TheNames
    <3> HIDE DEF v
    <3>2. /\ v \in Tables
          /\ \A c \in Names : /\ v[c].caller = t[c].caller /\ v[c].active = t[c].active
                              /\ c # from => v[c].subResult = t[c].subResult
      BY <1>1, <2>3, <3>1 DEF Tables, Record
    <3> QED
      BY <3>2 DEF v
  <2> QED
    BY <2>2, <2>3
<1>3. CASE ~Refused(t, to, Behind)
  <2> DEFINE slept == IF from = "none" THEN t ELSE [t EXCEPT ![from].subResult = BACKGR]
             q == [active |-> TRUE, caller |-> from, subResult |-> slept[to].subResult]
  <2>1. t[to].caller = "none"
    BY <1>3 DEF Refused, Busy, Behind
  <2>2. v = [slept EXCEPT ![to] = q]
    <3>1. Wake(t, t[to].caller, FAIL) = t
      BY <2>1 DEF Wake
    <3>2. SuspendCaller(t, from, Behind) = slept
      BY DEF SuspendCaller, Behind
    <3> HIDE DEF slept
    <3> QED
      BY <1>3, <3>1, <3>2 DEF activateBehaviour, switch_to_behaviour
  <2>3. /\ slept \in Tables
        /\ \A c \in Names : /\ slept[c].caller = t[c].caller /\ slept[c].active = t[c].active
                            /\ c # from => slept[c].subResult = t[c].subResult
    <3>1. CASE from = "none"
      BY <3>1
    <3>2. CASE from \in Names
      <4>1. slept = [t EXCEPT ![from].subResult = BACKGR]
        BY <3>2, TheNames
      <4> HIDE DEF slept
      <4> QED
        BY <1>1, <3>2, <4>1 DEF Tables, Record
    <3> QED
      BY <3>1, <3>2
  <2> HIDE DEF slept, v
  <2>4. q \in Record /\ q.caller = from /\ q.subResult = slept[to].subResult
    BY <2>3 DEF Tables, Record
  <2> HIDE DEF q
  <2>5. v \in Tables /\ v[to] = q /\ \A c \in Names \ {to} : v[c] = slept[c]
    BY <2>2, <2>3, <2>4 DEF Tables
  <2> QED
    BY <2>3, <2>4, <2>5 DEF v
<1> QED
  BY <1>2, <1>3

-----------------------------------------------------------------------------
(* The drive waits for goto_pos; it is under way; the recorder is.          *)
Waits(t) == t["goto_pos"].caller = "drive_stack"
Drives(t) == t["drive_stack"].active \/ Waits(t)
Records(t) == t["save_waypos"].active

CallersOK(t) ==
    /\ t["goto_pos"].caller \in {"none", "drive_stack"}
    /\ t["drive_stack"].caller \in {"none", "follow_object"}
    /\ t["save_waypos"].caller \in {"none", "follow_object"}
    /\ t["follow_object"].caller = "none"

TablesOK(t) ==
    /\ t \in Tables
    /\ CallersOK(t)
    /\ Waits(t) => t["drive_stack"].subResult = RUNNING
    /\ Records(t) => ~Drives(t)

LEMMA DriveStarts ==
    ASSUME NEW t, TablesOK(t), NEW b \in {"none", "follow_object"}
    PROVE  LET v == calls(deactivate_behaviour(t, "save_waypos"), b, "drive_stack")
           IN  TablesOK(v) /\ ~Records(v) /\ (Waits(v) <=> Waits(t))
<1> DEFINE u == deactivate_behaviour(t, "save_waypos")
           v == calls(u, b, "drive_stack")
<1>1. /\ u \in Tables
      /\ \A c \in Names : /\ u[c].caller = IF c = "save_waypos" THEN "none" ELSE t[c].caller
                          /\ u[c].active <=> t[c].active /\ c # "save_waypos"
                          /\ u[c].subResult = t[c].subResult
  <2>1. u = [t EXCEPT !["save_waypos"].active = FALSE, !["save_waypos"].caller = "none"]
    BY DEF deactivate_behaviour
  <2> HIDE DEF u
  <2> QED
    BY <2>1, TheNames DEF TablesOK, Tables, Record
<1> HIDE DEF u
<1>2. u["drive_stack"].caller \in {"none", "follow_object"} /\ u["goto_pos"].caller = t["goto_pos"].caller
  BY <1>1, TheNames DEF TablesOK, CallersOK
<1>3. /\ v \in Tables
      /\ \A c \in Names : /\ v[c].caller = IF c = "drive_stack" THEN b ELSE u[c].caller
                          /\ v[c].active <=> \/ c = "drive_stack"
                                             \/ c # b /\ (u[c].active \/ c = u["drive_stack"].caller)
                          /\ v[c].subResult = IF c = b THEN RUNNING
                                              ELSE IF c = u["drive_stack"].caller THEN FAIL ELSE u[c].subResult
  <2>1. u \in Tables /\ b \in Names \cup {"none"} /\ "drive_stack" \in Names /\ b # "drive_stack"
        /\ u["drive_stack"].caller # "drive_stack"
    BY <1>1, <1>2, TheNames
  <2> QED
    BY <2>1, CallDoes
<1> HIDE DEF v
<1>4. TablesOK(v) /\ ~Records(v) /\ (Waits(v) <=> Waits(t))
  BY <1>1, <1>2, <1>3, TheNames DEF TablesOK, CallersOK, Waits, Drives, Records
<1> QED
  BY <1>4 DEF u, v

LEMMA DriveGoesOn ==
    ASSUME NEW t, TablesOK(t), t["drive_stack"].active
    PROVE  LET v == calls(t, "drive_stack", "goto_pos")
           IN  TablesOK(v) /\ ~Records(v) /\ ~v["drive_stack"].active
<1> DEFINE v == calls(t, "drive_stack", "goto_pos")
<1>1. /\ v \in Tables
      /\ \A c \in Names : /\ v[c].caller = IF c = "goto_pos" THEN "drive_stack" ELSE t[c].caller
                          /\ v[c].active <=> \/ c = "goto_pos"
                                             \/ c # "drive_stack" /\ (t[c].active \/ c = t["goto_pos"].caller)
                          /\ v[c].subResult = IF c = "drive_stack" THEN RUNNING
                                              ELSE IF c = t["goto_pos"].caller THEN FAIL ELSE t[c].subResult
  <2>1. t \in Tables /\ "drive_stack" \in Names \cup {"none"} /\ "goto_pos" \in Names /\ t["goto_pos"].caller # "goto_pos"
    BY TheNames DEF TablesOK, CallersOK
  <2> QED
    BY <2>1, CallDoes
<1> HIDE DEF v
<1>2. TablesOK(v) /\ ~Records(v) /\ ~v["drive_stack"].active
  BY <1>1, TheNames DEF TablesOK, CallersOK, Waits, Drives, Records
<1> QED
  BY <1>2 DEF v

LEMMA RecorderStarts ==
    ASSUME NEW t, TablesOK(t), ~Drives(t), NEW b \in {"none", "follow_object"}
    PROVE  LET v == activateBehaviour(t, b, "save_waypos") IN TablesOK(v) /\ ~Drives(v)
<1> DEFINE v == activateBehaviour(t, b, "save_waypos")
<1>1. /\ v \in Tables
      /\ \A c \in Names : /\ v[c].caller \in {t[c].caller, IF c = "save_waypos" THEN b ELSE t[c].caller}
                          /\ c # "save_waypos" => (v[c].active <=> t[c].active)
                          /\ c # b => v[c].subResult = t[c].subResult
  <2>1. t \in Tables /\ b \in Names \cup {"none"} /\ "save_waypos" \in Names /\ b # "save_waypos"
    BY TheNames DEF TablesOK
  <2> QED
    BY <2>1, ActivateDoes
<1> HIDE DEF v
<1>2. TablesOK(v) /\ ~Drives(v)
  BY <1>1, TheNames DEF TablesOK, CallersOK, Waits, Drives, Records
<1> QED
  BY <1>2 DEF v

LEMMA BehaviourEnds ==
    ASSUME NEW t, TablesOK(t), NEW b \in Names, NEW r \in SubResults
    PROVE  LET v == exit_behaviour(t, b, r)
           IN  /\ TablesOK(v)
               /\ b = "drive_stack" => ~v["drive_stack"].active /\ (Waits(v) <=> Waits(t))
               /\ b = "goto_pos" => ~Waits(v)
               /\ b = "save_waypos" => ~Records(v)
               /\ b # "drive_stack" => (Drives(v) <=> Drives(t))
               /\ b # "save_waypos" => (Records(v) <=> Records(t))
               /\ v["drive_stack"].active => Drives(t)
               /\ Waits(v) => Waits(t)
<1> DEFINE v == exit_behaviour(t, b, r)
<1>1. /\ v \in Tables
      /\ \A c \in Names : /\ v[c].caller = IF c = b THEN "none" ELSE t[c].caller
                          /\ v[c].active <=> (t[c].active /\ c # b) \/ c = t[b].caller
                          /\ v[c].subResult = IF c = t[b].caller THEN r ELSE t[c].subResult
  <2>1. t \in Tables /\ t[b].caller # b
    BY TheNames DEF TablesOK, CallersOK
  <2> QED
    BY <2>1, ExitDoes
<1> HIDE DEF v
<1>2. /\ TablesOK(v)
      /\ b = "drive_stack" => ~v["drive_stack"].active /\ (Waits(v) <=> Waits(t))
      /\ b = "goto_pos" => ~Waits(v)
      /\ b = "save_waypos" => ~Records(v)
      /\ b # "drive_stack" => (Drives(v) <=> Drives(t))
      /\ b # "save_waypos" => (Records(v) <=> Records(t))
      /\ v["drive_stack"].active => Drives(t)
      /\ Waits(v) => Waits(t)
  <2>1. CASE b = "drive_stack"
    BY <1>1, <2>1, TheNames DEF TablesOK, CallersOK, Waits, Drives, Records
  <2>2. CASE b = "goto_pos"
    BY <1>1, <2>2, TheNames DEF TablesOK, CallersOK, Waits, Drives, Records
  <2>3. CASE b = "save_waypos"
    BY <1>1, <2>3, TheNames DEF TablesOK, CallersOK, Waits, Drives, Records
  <2>4. CASE b = "follow_object"
    BY <1>1, <2>4, TheNames DEF TablesOK, CallersOK, Waits, Drives, Records
  <2> QED
    BY <2>1, <2>2, <2>3, <2>4, TheNames
<1> QED
  BY <1>2 DEF v

LEMMA PursuitStarts ==
    ASSUME NEW t, TablesOK(t), ~Drives(t)
    PROVE  LET v == calls(t, "none", "follow_object") IN TablesOK(v) /\ ~Drives(v)
<1> DEFINE v == calls(t, "none", "follow_object")
<1>1. /\ v \in Tables
      /\ \A c \in Names : /\ v[c].caller = IF c = "follow_object" THEN "none" ELSE t[c].caller
                          /\ v[c].active <=> \/ c = "follow_object"
                                             \/ c # "none" /\ (t[c].active \/ c = t["follow_object"].caller)
                          /\ v[c].subResult = IF c = "none" THEN RUNNING
                                              ELSE IF c = t["follow_object"].caller THEN FAIL ELSE t[c].subResult
  <2>1. t \in Tables /\ "none" \in Names \cup {"none"} /\ "follow_object" \in Names
        /\ t["follow_object"].caller # "follow_object" /\ "none" # "follow_object"
    BY TheNames DEF TablesOK, CallersOK
  <2> QED
    BY <2>1, CallDoes
<1> HIDE DEF v
<1>2. TablesOK(v) /\ ~Drives(v)
  BY <1>1, TheNames DEF TablesOK, CallersOK, Waits, Drives, Records
<1> QED
  BY <1>2 DEF v

LEMMA AllStop ==
    ASSUME NEW t, TablesOK(t)
    PROVE  LET v == deactivateAllBehaviours(t) IN TablesOK(v) /\ ~Drives(v) /\ ~Records(v)
<1> DEFINE off == [active |-> FALSE, caller |-> "none", subResult |-> CANCEL]
           v == deactivateAllBehaviours(t)
<1>1. off \in Record /\ off.active = FALSE /\ off.caller = "none"
  BY DEF Record, SubResults
<1> HIDE DEF off
<1>2. v = [b \in Names |-> off]
  BY TheNames DEF deactivateAllBehaviours, off
<1> HIDE DEF v
<1>3. TablesOK(v) /\ ~Drives(v) /\ ~Records(v)
  BY <1>1, <1>2, TheNames DEF TablesOK, Tables, CallersOK, Waits, Drives, Records
<1> QED
  BY <1>3 DEF v

-----------------------------------------------------------------------------
APlace == MAX_PLACES \in Nat \ {0}

StackState ==
    [drivestack : {"pop", "end"}, put_stack_active : BOOLEAN, go_fifo : BOOLEAN,
     pos_store : {"way", "other", NoStore}, exists : BOOLEAN, way : Seq(Places), other : Seq(Places),
     waypos : {"new", "record"}, optimized : 0 .. 2, object : {"wait", "update"}, moved : BOOLEAN,
     first : Places, whole : BOOLEAN, astray : BOOLEAN]

BackOnWay(s) == s.pos_store = "way" /\ ~s.go_fifo /\ s.whole

(* Of the way: where it begins, and what an empty one means for a drive.    *)
BeginsAtFirst(s) == s.whole /\ s.way # <<>> => s.way[1] = s.first
NotAstray(s) == BackOnWay(s) => ~s.astray

StackOK(t, s) ==
    /\ TablesOK(t)
    /\ s \in StackState
    /\ s.put_stack_active /\ t["drive_stack"].active => ~Waits(t)
    /\ Records(t) => s.drivestack = "pop" /\ (s.waypos = "record" => s.pos_store = "way" /\ s.way # <<>>)
    /\ BeginsAtFirst(s)
    /\ Drives(t) /\ s.way = <<>> => NotAstray(s)
    /\ s.drivestack = "end" => NotAstray(s)

(* Parts of a way, and what is pushed behind it. *)
LEMMA PartOfWay ==
    ASSUME NEW way \in Seq(Places), NEW n \in Nat, n <= Len(way)
    PROVE  /\ SubSeq(way, 1, n) \in Seq(Places)
           /\ Len(SubSeq(way, 1, n)) = n
           /\ n >= 1 => SubSeq(way, 1, n) # <<>> /\ SubSeq(way, 1, n)[1] = way[1]
<1>1. \A i \in 1 .. n : way[i] \in Places
  BY ElementOfSeq
<1>2. SubSeq(way, 1, n) \in Seq(Places) /\ Len(SubSeq(way, 1, n)) = n
  BY <1>1, SubSeqProperties
<1>3. n >= 1 => SubSeq(way, 1, n)[1] = way[1]
  BY <1>1, SubSeqProperties
<1>4. n >= 1 => SubSeq(way, 1, n) # <<>>
  <2> DEFINE part == SubSeq(way, 1, n)
  <2>1. part \in Seq(Places) /\ Len(part) = n
    BY <1>2
  <2> HIDE DEF part
  <2>2. n >= 1 => part # <<>>
    BY <2>1
  <2> QED
    BY <2>2 DEF part
<1> QED
  BY <1>2, <1>3, <1>4, Zenon

LEMMA PushedWay ==
    ASSUME NEW way \in Seq(Places), NEW p \in Places
    PROVE  /\ pushed(way, p) \in Seq(Places)
           /\ way # <<>> => pushed(way, p) # <<>> /\ pushed(way, p)[1] = way[1]
<1>1. CASE Len(way) < WAY_SIZE
  BY <1>1 DEF pushed
<1>2. CASE ~(Len(way) < WAY_SIZE)
  BY <1>2 DEF pushed
<1> QED
  BY <1>1, <1>2

(* What the recorder makes of its way keeps where it began. *)
Along(s, q) ==
    \E way \in Seq(Places) : way # <<>> /\ way[1] = s.way[1] /\ q = [s EXCEPT !.way = way]

LEMMA AlongHolds ==
    ASSUME NEW s \in StackState, NEW q, Along(s, q)
    PROVE  /\ q \in StackState /\ q.way # <<>> /\ q.way[1] = s.way[1]
           /\ q.pos_store = s.pos_store /\ q.optimized = s.optimized
           /\ \A r : Along(q, r) => Along(s, r)
<1>1. PICK way \in Seq(Places) : way # <<>> /\ way[1] = s.way[1] /\ q = [s EXCEPT !.way = way]
  BY Zenon DEF Along
<1>2. q \in StackState /\ q.way = way /\ q.pos_store = s.pos_store /\ q.optimized = s.optimized
  BY <1>1 DEF StackState
<1>3. ASSUME NEW r, Along(q, r) PROVE Along(s, r)
  <2>1. PICK w \in Seq(Places) : w # <<>> /\ w[1] = q.way[1] /\ r = [q EXCEPT !.way = w]
    BY <1>3, Zenon DEF Along
  <2>2. r = [s EXCEPT !.way = w]
    BY <1>1, <2>1 DEF StackState
  <2>3. w[1] = s.way[1]
    BY <1>1, <1>2, <2>1, Zenon
  <2> QED
    BY <2>1, <2>2, <2>3, Zenon DEF Along
<1> QED
  BY <1>1, <1>2, <1>3, Zenon

LEMMA StoredInWay ==
    ASSUME NEW s \in StackState, s.pos_store = "way"
    PROVE  /\ Store(s) = s.way
           /\ \A seq : Stored(s, seq) = [s EXCEPT !.way = seq]
BY DEF Store, Stored, NoStore, StackState

LEMMA StraightenedAlong ==
    ASSUME NEW s \in StackState, s.pos_store = "way", s.way # <<>>, NEW skip \in BOOLEAN
    PROVE  Along(s, Straightened(s, skip))
<1>1. CASE skip /\ s.optimized >= 1 /\ Len(Store(s)) >= 2
  <2>1. s.way \in Seq(Places) /\ Len(s.way) >= 2
    BY <1>1, StoredInWay DEF StackState
  <2> DEFINE way == Front(s.way)
             n == Len(s.way) - 1
  <2>2. n \in Nat /\ n <= Len(s.way) /\ n >= 1
    BY <2>1
  <2>3. way = SubSeq(s.way, 1, n)
    BY DEF Front
  <2> HIDE DEF n
  <2>4. way \in Seq(Places) /\ way # <<>> /\ way[1] = s.way[1]
    BY <2>1, <2>2, <2>3, PartOfWay
  <2>5. Straightened(s, skip) = [s EXCEPT !.way = way]
    BY <1>1, StoredInWay DEF Straightened
  <2> QED
    BY <2>4, <2>5, Zenon DEF Along
<1>2. CASE ~(skip /\ s.optimized >= 1 /\ Len(Store(s)) >= 2)
  <2>1. Straightened(s, skip) = s
    BY <1>2, Zenon DEF Straightened
  <2>2. s = [s EXCEPT !.way = s.way] /\ s.way \in Seq(Places)
    BY DEF StackState
  <2> QED
    BY <2>1, <2>2, Zenon DEF Along
<1> QED
  BY <1>1, <1>2

LEMMA LoopRemovedAlong ==
    ASSUME NEW s \in StackState, s.pos_store = "way", s.way # <<>>, NEW i \in Nat, i >= 2
    PROVE  Along(s, LoopRemoved(s, i))
<1>1. CASE s.optimized < 2 \/ i > Len(Store(s))
  <2>1. LoopRemoved(s, i) = s
    BY <1>1, Zenon DEF LoopRemoved
  <2>2. s = [s EXCEPT !.way = s.way] /\ s.way \in Seq(Places)
    BY DEF StackState
  <2> QED
    BY <2>1, <2>2, Zenon DEF Along
<1>2. CASE ~(s.optimized < 2 \/ i > Len(Store(s)))
  <2>1. s.way \in Seq(Places) /\ i <= Len(s.way)
    BY <1>2, StoredInWay DEF StackState
  <2> DEFINE n == Len(s.way) - i + 1
             way == SubSeq(s.way, 1, n)
  <2>2. n \in Nat /\ n <= Len(s.way) /\ n >= 1
    BY <2>1
  <2>3. LoopRemoved(s, i) = [s EXCEPT !.way = way]
    BY <1>2, StoredInWay DEF LoopRemoved
  <2> HIDE DEF n
  <2>4. way \in Seq(Places) /\ way # <<>> /\ way[1] = s.way[1]
    BY <2>1, <2>2, PartOfWay
  <2> QED
    BY <2>3, <2>4, Zenon DEF Along
<1> QED
  BY <1>1, <1>2

LEMMA StackStarts == ASSUME APlace, StackInit PROVE StackOK(beh, st)
<1> DEFINE idle == [active |-> FALSE, caller |-> "none", subResult |-> SUCCESS]
           none == <<>>
           one == <<1>>
<1>1. idle \in Record /\ idle.active = FALSE /\ idle.caller = "none"
  BY DEF Record, SubResults
<1>2. beh = [b \in Names |-> idle]
  BY DEF StackInit, Idle
<1> HIDE DEF idle
<1>3. TablesOK(beh) /\ ~Records(beh) /\ ~Drives(beh)
  BY <1>1, <1>2, TheNames DEF TablesOK, Tables, CallersOK, Waits, Drives, Records
<1>4. none \in Seq(Places) /\ one \in Seq(Places) /\ 1 \in Places
  BY DEF APlace, Places
<1>5. st = [drivestack |-> "pop", put_stack_active |-> FALSE, go_fifo |-> FALSE,
            pos_store |-> NoStore, exists |-> FALSE, way |-> none, other |-> one,
            waypos |-> "new", optimized |-> 0, object |-> "wait", moved |-> FALSE,
            first |-> 1, whole |-> TRUE, astray |-> FALSE]
  BY Zenon DEF StackInit
<1>6. none = <<>>
  OBVIOUS
<1> HIDE DEF none, one
<1>7. st \in StackState /\ ~st.put_stack_active /\ st.way = <<>> /\ st.drivestack = "pop"
  BY <1>4, <1>5, <1>6 DEF StackState
<1> QED
  BY <1>3, <1>7 DEF StackOK, BeginsAtFirst

LEMMA RecorderKeeps ==
    ASSUME StackOK(beh, st), bot_save_waypos_behaviour
    PROVE  StackOK(beh', st')
<1>0. Records(beh) /\ ~Drives(beh) /\ TablesOK(beh) /\ st \in StackState
  BY DEF bot_save_waypos_behaviour, Active, Records, StackOK, TablesOK
<1>1. ASSUME NEW p \in Places,
             Goes([st EXCEPT !.pos_store = "way", !.exists = TRUE, !.way = <<p>>,
                             !.waypos = "record", !.first = p, !.whole = TRUE])
      PROVE  StackOK(beh', st')
  <2> DEFINE one == <<p>>
             q == [st EXCEPT !.pos_store = "way", !.exists = TRUE, !.way = one,
                             !.waypos = "record", !.first = p, !.whole = TRUE]
  <2>1. beh' = beh /\ st' = q
    BY <1>1, Zenon DEF Goes, Stays
  <2>2. one \in Seq(Places) /\ one # <<>> /\ one[1] = p
    OBVIOUS
  <2> HIDE DEF one
  <2>3. /\ q \in StackState /\ q.pos_store = "way" /\ q.way = one /\ q.first = p /\ q.waypos = "record"
        /\ q.put_stack_active = st.put_stack_active /\ q.drivestack = st.drivestack
    BY <1>0, <2>2 DEF StackState
  <2> HIDE DEF q
  <2> QED
    BY <1>0, <2>1, <2>2, <2>3 DEF StackOK, BeginsAtFirst, Drives
<1>2. CASE st' = [st EXCEPT !.pos_store = NoStore] /\ beh' = exit_behaviour(beh, "save_waypos", FAIL)
  <2>1. TablesOK(beh') /\ ~Records(beh') /\ ~Drives(beh')
    <3>1. FAIL \in SubResults /\ "save_waypos" \in Names /\ "save_waypos" # "drive_stack"
      BY TheNames DEF SubResults
    <3> QED
      BY <1>0, <1>2, <3>1, BehaviourEnds
  <2>2. /\ st' \in StackState /\ st'.pos_store = NoStore /\ NoStore # "way" /\ st'.way = st.way
        /\ st'.first = st.first /\ st'.whole = st.whole
    BY <1>0, <1>2 DEF StackState, NoStore
  <2> QED
    BY <2>1, <2>2 DEF StackOK, BeginsAtFirst, NotAstray, BackOnWay, Drives
<1>3. CASE Record_
  <2>1. beh' = beh /\ st.waypos = "record"
    BY <1>3, Zenon DEF Record_, Stays
  <2>2. CASE UNCHANGED st
    BY <2>1, <2>2
  <2>3. CASE \E s \in Shortened, p \in Places : st' = Stored(s, pushed(Store(s), p))
    <3>0. PICK s \in Shortened, p \in Places : st' = Stored(s, pushed(Store(s), p))
      BY <2>3, Zenon
    <3>1. PICK skip \in BOOLEAN, i \in 2 .. Len(Store(st)) + 1 : s = LoopRemoved(Straightened(st, skip), i)
      BY DEF Shortened
    <3> DEFINE u == Straightened(st, skip)
               v == LoopRemoved(u, i)
               way == pushed(Store(v), p)
    <3>2. st.pos_store = "way" /\ st.way # <<>> /\ i \in Nat /\ i >= 2
      BY <1>0, <2>1, <3>1 DEF StackOK
    <3>3. Along(st, u)
      BY <1>0, <3>2, StraightenedAlong
    <3> HIDE DEF u
    <3>4. u \in StackState /\ u.pos_store = "way" /\ u.way # <<>>
      BY <1>0, <3>2, <3>3, AlongHolds
    <3>5. Along(u, v)
      BY <3>2, <3>4, LoopRemovedAlong
    <3> HIDE DEF v
    <3>6. v \in StackState /\ v.pos_store = "way" /\ v.way # <<>> /\ Along(st, v)
      BY <1>0, <3>3, <3>4, <3>5, AlongHolds
    <3>7. v.way \in Seq(Places) /\ way = pushed(v.way, p) /\ st' = [v EXCEPT !.way = way]
      <4>1. s = v
        BY <3>1, Zenon DEF u, v
      <4> QED
        BY <3>0, <3>6, <4>1, StoredInWay DEF StackState
    <3>8. way \in Seq(Places) /\ way # <<>> /\ way[1] = v.way[1]
      BY <3>6, <3>7, PushedWay
    <3> HIDE DEF way
    <3>9. Along(st, st')
      <4>1. Along(v, st')
        BY <3>7, <3>8, Zenon DEF Along
      <4> QED
        BY <1>0, <3>6, <4>1, AlongHolds
    <3>10. PICK w \in Seq(Places) : w # <<>> /\ w[1] = st.way[1] /\ st' = [st EXCEPT !.way = w]
      BY <3>9, Zenon DEF Along
    <3>11. /\ st' \in StackState /\ st'.way = w /\ st'.pos_store = "way" /\ st'.first = st.first
           /\ st'.whole = st.whole /\ st'.drivestack = st.drivestack
           /\ st'.put_stack_active = st.put_stack_active
      BY <1>0, <3>2, <3>10 DEF StackState
    <3> QED
      BY <1>0, <2>1, <3>2, <3>10, <3>11 DEF StackOK, BeginsAtFirst, Drives
  <2> QED
    <3>1. UNCHANGED st \/ \E s \in Shortened, p \in Places : st' = Stored(s, pushed(Store(s), p))
      BY <1>3, Zenon DEF Record_
    <3> QED
      BY <2>2, <2>3, <3>1, Zenon
<1> QED
  BY <1>1, <1>2, <1>3, Zenon DEF bot_save_waypos_behaviour, NewWay

LEMMA DriveKeeps ==
    ASSUME APlace, StackOK(beh, st), bot_drive_stack_behaviour
    PROVE  StackOK(beh', st')
<1>0. beh["drive_stack"].active /\ ~Records(beh) /\ Drives(beh) /\ TablesOK(beh) /\ st \in StackState
  BY DEF bot_drive_stack_behaviour, Active, Records, Drives, StackOK, TablesOK
<1>1. CASE Pop /\ Store(st) = <<>>
  <2> DEFINE q == [st EXCEPT !.drivestack = "end"]
  <2>1. beh' = beh /\ st' = q
    BY <1>1, Zenon DEF Pop, Goes, Stays
  <2>2. /\ q \in StackState /\ q.pos_store = st.pos_store /\ q.way = st.way /\ q.first = st.first
        /\ q.whole = st.whole /\ q.go_fifo = st.go_fifo /\ q.astray = st.astray
        /\ q.put_stack_active = st.put_stack_active
    BY <1>0 DEF StackState
  <2> HIDE DEF q
  <2>3. BackOnWay(q) => st.way = <<>>
    BY <1>0, <1>1, <2>2, StoredInWay DEF BackOnWay
  <2> QED
    BY <1>0, <2>1, <2>2, <2>3 DEF StackOK, BeginsAtFirst, NotAstray, BackOnWay
<1>2. CASE Pop /\ Store(st) # <<>>
  <2> DEFINE p == IF st.go_fifo THEN Head(Store(st)) ELSE Last(Store(st))
             rest == IF st.go_fifo THEN Tail(Store(st)) ELSE Front(Store(st))
             astray == p # st.first
             whole == st.whole /\ ~(st.go_fifo /\ st.pos_store = "way")
             s == Stored(st, rest)
             q == [s EXCEPT !.astray = astray, !.whole = whole]
  <2>1. TablesOK(beh') /\ ~Records(beh') /\ ~beh'["drive_stack"].active
    <3>1. beh' = calls(beh, "drive_stack", "goto_pos")
      BY <1>2, Zenon DEF Pop, Calls
    <3> QED
      BY <1>0, <3>1, DriveGoesOn
  <2>2. st' = q /\ st.drivestack = "pop"
    <3>1. st.drivestack = "pop" /\ st' = [s EXCEPT !.astray = p # st.first,
                                                    !.whole = @ /\ ~(st.go_fifo /\ st.pos_store = "way")]
      BY <1>2, Zenon DEF Pop, Calls
    <3>2. s.whole = st.whole
      BY <1>0 DEF Stored, StackState, NoStore
    <3> HIDE DEF s
    <3> QED
      BY <3>1, <3>2, Zenon
  <2>3. astray \in BOOLEAN /\ whole \in BOOLEAN
    BY Zenon
  <2>4. CASE st.pos_store = "other"
    <3>1. st.other \in Seq(Places) /\ st.other # <<>> /\ Store(st) = st.other
      BY <1>0, <1>2, <2>4 DEF Store, NoStore, StackState
    <3>2. rest \in Seq(Places)
      <4>1. Tail(st.other) \in Seq(Places)
        BY <3>1
      <4>2. Front(st.other) \in Seq(Places)
        <5>1. Len(st.other) - 1 \in Nat /\ Len(st.other) - 1 <= Len(st.other)
          BY <3>1
        <5> QED
          BY <3>1, <5>1, PartOfWay DEF Front
      <4> QED
        BY <3>1, <4>1, <4>2
    <3>3. whole = st.whole
      BY <1>0, <2>4 DEF StackState
    <3> HIDE DEF astray, whole, rest
    <3>4. s = [st EXCEPT !.other = rest]
      BY <2>4 DEF Stored, NoStore
    <3> HIDE DEF s
    <3>5. s \in StackState /\ s.way = st.way /\ s.first = st.first /\ s.whole = st.whole /\ s.pos_store = "other"
          /\ s.drivestack = "pop"
      BY <1>0, <2>2, <2>4, <3>2, <3>4 DEF StackState
    <3>6. /\ q \in StackState /\ q.way = st.way /\ q.first = st.first /\ q.whole = st.whole
          /\ q.pos_store = "other" /\ q.drivestack = "pop"
      BY <2>3, <3>3, <3>5 DEF StackState
    <3> HIDE DEF q
    <3> QED
      BY <2>1, <2>2, <3>6 DEF StackOK, BeginsAtFirst, NotAstray, BackOnWay
  <2>5. CASE st.pos_store = "way"
    <3>1. st.way \in Seq(Places) /\ st.way # <<>> /\ Store(st) = st.way
      BY <1>0, <1>2, <2>5, StoredInWay DEF StackState
    <3>2. /\ rest \in Seq(Places)
          /\ ~st.go_fifo => /\ rest # <<>> => rest[1] = st.way[1]
                            /\ rest = <<>> => p = st.way[1]
      <4>1. CASE st.go_fifo
        BY <3>1, <4>1
      <4>2. CASE ~st.go_fifo
        <5> DEFINE n == Len(st.way) - 1
                   front == SubSeq(st.way, 1, n)
        <5>1. n \in Nat /\ n <= Len(st.way) /\ (n = 0 => Len(st.way) = 1)
          BY <3>1
        <5>2. p = st.way[Len(st.way)] /\ rest = front
          BY <3>1, <4>2 DEF Last, Front
        <5> HIDE DEF n
        <5>3. /\ front \in Seq(Places) /\ Len(front) = n
              /\ n >= 1 => front # <<>> /\ front[1] = st.way[1]
          BY <3>1, <5>1, PartOfWay
        <5> HIDE DEF p, rest, front
        <5>4. (front # <<>> => n >= 1) /\ (front = <<>> => n = 0)
          BY <5>1, <5>3
        <5> QED
          BY <5>1, <5>2, <5>3, <5>4
      <4> QED
        BY <4>1, <4>2
    <3>3. (st.go_fifo => ~whole) /\ (whole => st.whole) /\ (p = st.first => ~astray)
      BY <2>5, Zenon
    <3> HIDE DEF astray, whole, rest, p
    <3>4. s = [st EXCEPT !.way = rest]
      BY <1>0, <2>5, StoredInWay
    <3> HIDE DEF s
    <3>5. s \in StackState /\ s.way = rest /\ s.first = st.first /\ s.go_fifo = st.go_fifo /\ s.drivestack = "pop"
      BY <1>0, <2>2, <3>2, <3>4 DEF StackState
    <3>6. /\ q \in StackState /\ q.way = rest /\ q.first = st.first /\ q.go_fifo = st.go_fifo
          /\ q.whole = whole /\ q.astray = astray /\ q.drivestack = "pop"
      BY <2>3, <3>5 DEF StackState
    <3> HIDE DEF q
    <3>7. st.whole => st.way[1] = st.first
      BY <3>1 DEF StackOK, BeginsAtFirst
    <3> QED
      BY <2>1, <2>2, <3>2, <3>3, <3>6, <3>7 DEF StackOK, BeginsAtFirst, NotAstray, BackOnWay
  <2>6. st.pos_store # NoStore
    BY <1>2, Zenon DEF Store
  <2> HIDE DEF q
  <2> QED
    BY <1>0, <2>4, <2>5, <2>6 DEF StackState
<1>3. CASE EndOfStack
  <2> DEFINE t == exit_behaviour(beh, "drive_stack", SUCCESS)
             s == [st EXCEPT !.pos_store = NoStore]
  <2>1. /\ TablesOK(t) /\ ~Records(t) /\ ~t["drive_stack"].active /\ (Waits(t) <=> Waits(beh))
    <3>1. "drive_stack" \in Names /\ SUCCESS \in SubResults
      BY TheNames DEF SubResults
    <3> QED
      BY <1>0, <3>1, BehaviourEnds
  <2>2. /\ s \in StackState /\ s.pos_store = NoStore /\ NoStore # "way" /\ s.way = st.way
        /\ s.first = st.first /\ s.whole = st.whole
    BY <1>0 DEF StackState, NoStore
  <2>3. CASE st.put_stack_active
    <3> DEFINE v == activateBehaviour(t, "none", "save_waypos")
               q == bot_save_waypos(s, st.optimized)
    <3>1. beh' = v /\ st' = q
      BY <1>3, <2>3, Zenon DEF EndOfStack, return_from_behaviour
    <3>2. ~Drives(t)
      BY <1>0, <2>1, <2>3 DEF StackOK, Drives
    <3>3. TablesOK(v) /\ ~Drives(v)
      BY <2>1, <3>2, RecorderStarts
    <3> HIDE DEF s, v, t
    <3>4. /\ q \in StackState /\ q.pos_store = s.pos_store /\ q.way = s.way /\ q.waypos = "new"
          /\ q.first = s.first /\ q.whole = s.whole /\ q.drivestack = "pop"
      BY <1>0, <2>2 DEF StackState, bot_save_waypos
    <3> HIDE DEF q
    <3> QED
      BY <2>2, <3>1, <3>3, <3>4 DEF StackOK, BeginsAtFirst, NotAstray, BackOnWay, Drives
  <2>4. CASE ~st.put_stack_active
    <3>1. beh' = t /\ st' = s
      BY <1>3, <2>4, Zenon DEF EndOfStack, return_from_behaviour
    <3> HIDE DEF s, t
    <3> QED
      BY <2>1, <2>2, <3>1 DEF StackOK, BeginsAtFirst, NotAstray, BackOnWay
  <2> QED
    BY <2>3, <2>4
<1> QED
  BY <1>1, <1>2, <1>3, Zenon DEF bot_drive_stack_behaviour

(* A drive is started, from a state that differs from st where it says so.  *)
LEMMA DriveStartKeeps ==
    ASSUME StackOK(beh, st), NEW moved \in BOOLEAN, NEW s, s = [st EXCEPT !.moved = moved] \/ s = st,
           NEW b \in {"none", "follow_object"}, NEW store \in Ways, NEW fifo \in BOOLEAN,
           bot_drive_stack_x(s, b, store, fifo)
    PROVE  StackOK(beh', st')
<1> DEFINE put == Active("save_waypos")
           q == [s EXCEPT !.put_stack_active = put, !.pos_store = store,
                          !.drivestack = "pop", !.go_fifo = fifo, !.astray = FALSE]
<1>1. TablesOK(beh') /\ ~Records(beh') /\ (Waits(beh') <=> Waits(beh))
  <2>1. TablesOK(beh) /\ beh' = calls(deactivate_behaviour(beh, "save_waypos"), b, "drive_stack")
    BY Zenon DEF StackOK, bot_drive_stack_x
  <2> QED
    BY <2>1, DriveStarts
<1>2. st' = q
  BY Zenon DEF bot_drive_stack_x
<1>3. put \in BOOLEAN /\ (put => ~Waits(beh))
  <2>1. put \in BOOLEAN
    BY TheNames DEF StackOK, TablesOK, Tables, Record, Active
  <2>2. put => ~Waits(beh)
    BY DEF StackOK, TablesOK, Active, Records, Drives
  <2> QED
    BY <2>1, <2>2
<1> HIDE DEF put
<1>4. s \in StackState /\ s.way = st.way /\ s.first = st.first /\ s.whole = st.whole
  BY DEF StackOK, StackState
<1>5. /\ q \in StackState /\ q.way = st.way /\ q.first = st.first /\ q.whole = st.whole
      /\ q.put_stack_active = put /\ q.astray = FALSE /\ q.drivestack = "pop"
  BY <1>3, <1>4 DEF StackState, Ways
<1> HIDE DEF q
<1> QED
  BY <1>1, <1>2, <1>3, <1>5 DEF StackOK, BeginsAtFirst, NotAstray

LEMMA PursuitKeeps ==
    ASSUME StackOK(beh, st), bot_follow_object_behaviour
    PROVE  StackOK(beh', st')
<1>1. ASSUME NEW object \in {"wait", "update"}, NEW moved \in BOOLEAN,
             st' = [st EXCEPT !.object = object, !.moved = moved], beh' = beh
      PROVE  StackOK(beh', st')
  <2> DEFINE q == [st EXCEPT !.object = object, !.moved = moved]
  <2>1. /\ q \in StackState /\ q.way = st.way /\ q.first = st.first /\ q.whole = st.whole
        /\ q.put_stack_active = st.put_stack_active /\ q.astray = st.astray /\ q.drivestack = st.drivestack
        /\ q.pos_store = st.pos_store /\ q.go_fifo = st.go_fifo /\ q.waypos = st.waypos
    BY DEF StackOK, StackState
  <2>2. st' = q
    BY <1>1, Zenon
  <2> HIDE DEF q
  <2>3. StackOK(beh, q)
    BY <2>1 DEF StackOK, BeginsAtFirst, NotAstray, BackOnWay
  <2> QED
    BY <1>1, <2>2, <2>3, Zenon
<1>2. CASE bot_drive_stack_x([st EXCEPT !.moved = FALSE], "follow_object", "way", FALSE)
  <2>1. "way" \in Ways
    BY DEF Ways
  <2> QED
    BY <1>2, <2>1, DriveStartKeeps
<1>3. CASE /\ beh' = beh
           /\ \/ \E x \in {"wait", "update"} : st' = [st EXCEPT !.object = x]
              \/ st' = [st EXCEPT !.moved = TRUE] \/ st' = st
  <2>1. st.object \in {"wait", "update"} /\ st.moved \in BOOLEAN
    BY DEF StackOK, StackState
  <2>2. \E object \in {"wait", "update"}, moved \in BOOLEAN :
          st' = [st EXCEPT !.object = object, !.moved = moved]
    <3>1. /\ \A x \in {"wait", "update"} : [st EXCEPT !.object = x] = [st EXCEPT !.object = x, !.moved = st.moved]
          /\ [st EXCEPT !.moved = TRUE] = [st EXCEPT !.object = st.object, !.moved = TRUE]
          /\ st = [st EXCEPT !.object = st.object, !.moved = st.moved]
      BY DEF StackOK, StackState
    <3> QED
      BY <1>3, <2>1, <3>1, Zenon
  <2> QED
    BY <1>1, <1>3, <2>2, Zenon
<1> QED
  BY <1>2, <1>3, Zenon DEF bot_follow_object_behaviour, Goes, Stays

(* A recording begins; it starts a way of its own.                          *)
LEMMA RecordingIsOK ==
    ASSUME NEW t, TablesOK(t), ~Drives(t), NEW s \in StackState, BeginsAtFirst(s), NEW n \in 0 .. 2,
           NEW object \in {"wait", "update"},
           NEW q, q = bot_save_waypos(s, n) \/ q = [bot_save_waypos(s, n) EXCEPT !.object = object]
    PROVE  StackOK(t, q)
<1> DEFINE r == [s EXCEPT !.optimized = n, !.drivestack = "pop", !.waypos = "new"]
<1>1. /\ r \in StackState /\ r.way = s.way /\ r.first = s.first /\ r.whole = s.whole
      /\ r.drivestack = "pop" /\ r.waypos = "new"
  BY DEF StackState
<1>2. q = r \/ q = [r EXCEPT !.object = object]
  BY Zenon DEF bot_save_waypos
<1> HIDE DEF r
<1>3. /\ q \in StackState /\ q.way = s.way /\ q.first = s.first /\ q.whole = s.whole
      /\ q.drivestack = "pop" /\ q.waypos = "new"
  BY <1>1, <1>2 DEF StackState
<1> QED
  BY <1>3 DEF StackOK, BeginsAtFirst, Drives

LEMMA PursuitStartKeeps ==
    ASSUME StackOK(beh, st), bot_follow_object
    PROVE  StackOK(beh', st')
<1> DEFINE t == calls(beh, "none", "follow_object")
           v == activateBehaviour(t, "follow_object", "save_waypos")
<1>1. ~Drives(beh)
  <2>1. ~beh["drive_stack"].active /\ beh["drive_stack"].subResult # RUNNING
    BY TheNames DEF bot_follow_object, Quiet, Active
  <2> QED
    BY <2>1 DEF StackOK, TablesOK, Drives
<1>2. TablesOK(t) /\ ~Drives(t)
  BY <1>1, PursuitStarts DEF StackOK
<1> HIDE DEF t
<1>3. TablesOK(v) /\ ~Drives(v)
  BY <1>2, RecorderStarts
<1> HIDE DEF v
<1>4. beh' = v /\ st' = [bot_save_waypos(st, 1) EXCEPT !.object = "wait"]
  BY Zenon DEF bot_follow_object, v, t
<1>5. StackOK(v, [bot_save_waypos(st, 1) EXCEPT !.object = "wait"])
  <2> DEFINE q == [bot_save_waypos(st, 1) EXCEPT !.object = "wait"]
  <2>1. st \in StackState /\ BeginsAtFirst(st) /\ 1 \in 0 .. 2
    BY DEF StackOK
  <2>2. \E object \in {"wait", "update"} : q = [bot_save_waypos(st, 1) EXCEPT !.object = object]
    BY Zenon
  <2> HIDE DEF q
  <2>3. StackOK(v, q)
    BY <1>3, <2>1, <2>2, RecordingIsOK
  <2> QED
    BY <2>3 DEF q
<1> QED
  BY <1>4, <1>5, Zenon

LEMMA KeyKeeps ==
    ASSUME StackOK(beh, st), drivestack_disp_key_handler
    PROVE  StackOK(beh', st')
<1>0. "way" \in Ways /\ "other" \in Ways
  BY DEF Ways
<1>00. TablesOK(beh) /\ st \in StackState /\ BeginsAtFirst(st) /\ (~Driving => ~Drives(beh))
  BY DEF StackOK, TablesOK, Driving, Drives, Active
<1>1. ASSUME NEW p \in Places, st.way # <<>>, Goes([st EXCEPT !.way = pushed(@, p)])
      PROVE  StackOK(beh', st')
  <2> DEFINE way == pushed(st.way, p)
             q == [st EXCEPT !.way = way]
  <2>1. beh' = beh /\ st' = q
    BY <1>1, Zenon DEF Goes, Stays
  <2>2. way \in Seq(Places) /\ way # <<>> /\ way[1] = st.way[1]
    <3>1. st.way \in Seq(Places)
      BY <1>00 DEF StackState
    <3> QED
      BY <1>1, <3>1, PushedWay
  <2> HIDE DEF way
  <2>3. /\ q \in StackState /\ q.way = way /\ q.first = st.first /\ q.whole = st.whole
        /\ q.put_stack_active = st.put_stack_active /\ q.astray = st.astray /\ q.drivestack = st.drivestack
        /\ q.pos_store = st.pos_store /\ q.go_fifo = st.go_fifo /\ q.waypos = st.waypos
    BY <1>00, <2>2 DEF StackState
  <2> HIDE DEF q
  <2> QED
    BY <1>1, <2>1, <2>2, <2>3 DEF StackOK, BeginsAtFirst, NotAstray, BackOnWay
<1>2. CASE \/ \E fifo \in BOOLEAN : bot_drive_stack_x(st, "none", "way", fifo)
           \/ bot_drive_stack_x(st, "none", "other", TRUE)
  BY <1>0, <1>2, DriveStartKeeps
<1>3. CASE /\ ~Driving /\ beh' = activateBehaviour(beh, "none", "save_waypos")
           /\ \E optimize \in {1, 2} : st' = bot_save_waypos(st, optimize)
  <2>1. PICK n \in 0 .. 2 : st' = bot_save_waypos(st, n)
    BY <1>3
  <2>2. TablesOK(beh') /\ ~Drives(beh')
    BY <1>00, <1>3, RecorderStarts
  <2> QED
    BY <1>00, <2>1, <2>2, RecordingIsOK
<1>4. CASE ~Driving /\ ~Active("save_waypos") /\ Goes(Stored(st, <<>>))
  <2> DEFINE none == <<>>
  <2>1. beh' = beh /\ ~Drives(beh) /\ ~Records(beh)
    BY <1>00, <1>4 DEF Goes, Stays, Active, Records
  <2>2. none \in Seq(Places)
    OBVIOUS
  <2>3. \/ st' = st \/ st' = [st EXCEPT !.way = none] \/ st' = [st EXCEPT !.other = none]
    <3>1. st' = Stored(st, none)
      BY <1>4, Zenon DEF Goes
    <3>2. none = <<>>
      OBVIOUS
    <3> HIDE DEF none
    <3> QED
      BY <1>00, <3>1 DEF Stored, StackState, NoStore
  <2>4. none = <<>>
    OBVIOUS
  <2> HIDE DEF none
  <2>5. /\ st' \in StackState /\ st'.first = st.first /\ st'.whole = st.whole
        /\ st'.way = st.way \/ st'.way = <<>>
        /\ st'.put_stack_active = st.put_stack_active /\ st'.astray = st.astray
        /\ st'.drivestack = st.drivestack /\ st'.pos_store = st.pos_store /\ st'.go_fifo = st.go_fifo
    BY <1>00, <2>2, <2>3, <2>4 DEF StackState
  <2> QED
    BY <2>1, <2>5 DEF StackOK, BeginsAtFirst, NotAstray, BackOnWay
<1> QED
  BY <1>1, <1>2, <1>3, <1>4, Zenon DEF drivestack_disp_key_handler

LEMMA EndKeeps ==
    ASSUME StackOK(beh, st), Ends("goto_pos", {SUCCESS}) \/ EmergencyStop \/ UNCHANGED <<beh, st>>
    PROVE  StackOK(beh', st')
<1>1. CASE Ends("goto_pos", {SUCCESS})
  <2>1. beh' = exit_behaviour(beh, "goto_pos", SUCCESS) /\ st' = st
    BY <1>1 DEF Ends
  <2>2. TablesOK(beh) /\ "goto_pos" \in Names /\ SUCCESS \in SubResults
    BY TheNames DEF StackOK, SubResults
  <2>3. /\ TablesOK(beh') /\ ~Waits(beh') /\ (Drives(beh') <=> Drives(beh)) /\ (Records(beh') <=> Records(beh))
    BY <2>1, <2>2, BehaviourEnds
  <2> QED
    BY <2>1, <2>3 DEF StackOK
<1>2. CASE EmergencyStop
  <2>1. beh' = deactivateAllBehaviours(beh) /\ st' = st
    BY <1>2, Zenon DEF EmergencyStop
  <2>2. TablesOK(beh') /\ ~Drives(beh') /\ ~Records(beh')
    BY <2>1, AllStop DEF StackOK
  <2> QED
    BY <2>1, <2>2 DEF StackOK, Drives
<1>3. CASE UNCHANGED <<beh, st>>
  BY <1>3
<1> QED
  BY <1>1, <1>2, <1>3

(* A drive back over the whole of the recorded way ends where the way       *)
(* began, for stores of any size and any number of places                   *)
(* (behaviour_drive_stack.c:77-108, 245-340).                               *)
THEOREM DrivesEndAtStart == ASSUME APlace PROVE StackSpec => []DriveEndsAtStart
<1>1. StackInit => StackOK(beh, st)
  BY StackStarts
<1>2. StackOK(beh, st) /\ [StackNext]_<<beh, st>> => StackOK(beh, st)'
  <2> SUFFICES ASSUME StackOK(beh, st), [StackNext]_<<beh, st>> PROVE StackOK(beh', st')
    BY DEF StackOK
  <2>1. CASE bot_save_waypos_behaviour
    BY <2>1, RecorderKeeps
  <2>2. CASE bot_drive_stack_behaviour
    BY <2>2, DriveKeeps
  <2>3. CASE bot_follow_object_behaviour
    BY <2>3, PursuitKeeps
  <2>4. CASE bot_follow_object
    BY <2>4, PursuitStartKeeps
  <2>5. CASE drivestack_disp_key_handler
    BY <2>5, KeyKeeps
  <2>6. CASE Ends("goto_pos", {SUCCESS}) \/ EmergencyStop \/ UNCHANGED <<beh, st>>
    BY <2>6, EndKeeps
  <2> QED
    BY <2>1, <2>2, <2>3, <2>4, <2>5, <2>6, Zenon DEF StackNext
<1>3. StackOK(beh, st) => DriveEndsAtStart
  BY DEF StackOK, NotAstray, BackOnWay, DriveEndsAtStart
<1> QED
  BY <1>1, <1>2, <1>3, PTL DEF StackSpec
=================================================================================
