--------------------------------- MODULE BotMap ---------------------------------
(***************************************************************************)
(* The map (map.c) with the behaviour that feeds it                         *)
(* (bot-logic/behaviour_scan.c).                                            *)
(*                                                                          *)
(* Its blocks, in mp: the main thread writes what the robot has             *)
(* seen into a ring and puts the places into a FIFO; the update thread      *)
(* takes them out and enters them into the blocks of the map.  One block at *)
(* a time is in memory, in a buffer that the header of the file is read     *)
(* into as well; the others are in the file.  The content of a block is the *)
(* set of parts of updates that were entered into it.  Reading and writing   *)
(* the file never fails here.                                               *)
(*                                                                          *)
(* On the robot the main thread has the higher priority: once it has the    *)
(* lock or has waited for it, it is not interrupted by the update thread.   *)
(*                                                                          *)
(* And its arithmetic, in field: where a place of the world lies in the map *)
(* and in its file, and how one field of it changes.  A field is an int8_t;  *)
(* below 0 it is occupied, -128 is an abyss.                                *)
(***************************************************************************)
EXTENDS Integers, Sequences, SequencesExt, FiniteSets

CONSTANTS
    Blocks,        \* the blocks of the map
    FirstBlock,    \* the one in memory after the start
    CACHE_SIZE,    \* places of the ring and of the FIFO
    MAX_UPDATES,   \* bound: updates made in a run
    Probabilities  \* of the robot's position, out of 0 .. 255

VARIABLES
    mp,            \* the blocks, the ring and both threads
    field          \* the value of a field, and a coordinate [mm] that is looked up

Parts == {"location", "distance"}       \* or border: one of the two is entered last
Facts == (1 .. MAX_UPDATES) \X Parts
None == 0

MapInit ==
    mp = [file |-> [b \in Blocks |-> {}], min_max_updated |-> FALSE,
          buffer |-> {}, block |-> FirstBlock, updated |-> FALSE,       \* map_buffer, map_current_block
          free |-> TRUE,                                           \* nobody has lock_signal
          fifo |-> <<>>, ring |-> [i \in 0 .. CACHE_SIZE - 1 |-> None], index |-> 0,
          place |-> <<>>,                                          \* where update n belongs to
          thread |-> "get", at |-> 0,                              \* the update thread
          done |-> {}]                                             \* what was entered

Becomes(m) == mp' = m

-----------------------------------------------------------------------------
(* A block that was changed goes to the file before another one is read. *)
WriteBack(m) == IF m.updated THEN [m EXCEPT !.file[m.block] = m.buffer, !.updated = FALSE] ELSE m

(* Mutant of get_section: the buffer is not filled with the new block. *)
GetSectionUnread(m, b) == IF m.block = b THEN m ELSE [WriteBack(m) EXCEPT !.block = b]

get_section(m, b) ==
    IF m.block = b THEN m
    ELSE LET w == WriteBack(m) IN [w EXCEPT !.block = b, !.buffer = w.file[b]]

access_field(m, b, set) ==
    LET g == get_section(m, b)
    IN  [g EXCEPT !.buffer = @ \cup set, !.updated = @ \/ set # {}]

(* The header passes through the buffer; then the block is read again. *)
WriteHeader(m) == [m EXCEPT !.buffer = m.file[m.block]]

-----------------------------------------------------------------------------
(* bot_scan_onthefly_behaviour: the place in the ring is cleared in every   *)
(* round; an update is made when the robot has moved far enough.            *)
bot_scan_onthefly_behaviour ==
    LET i == (mp.index + 1) % CACHE_SIZE
        cleared == [mp EXCEPT !.index = i, !.ring[i] = None]
    IN  /\ CACHE_SIZE - Len(mp.fifo) # 1
        /\ \/ Becomes(cleared)
           \/ /\ Len(mp.place) < MAX_UPDATES
              /\ \E place \in [Parts -> Blocks] :
                    Becomes([cleared EXCEPT !.place = Append(@, place), !.ring[i] = Len(mp.place) + 1,
                                            !.fifo = Append(@, i)])

-----------------------------------------------------------------------------
(* The update thread.  The place in the ring is read where it is used: the  *)
(* main thread may have written another update into it meanwhile.           *)
ThreadGoes(m, step) == Becomes([m EXCEPT !.thread = step])

GetIndex ==
    /\ mp.thread = "get" /\ mp.fifo # <<>>
    /\ ThreadGoes([mp EXCEPT !.at = Head(mp.fifo), !.fifo = Tail(@)], "lock")

Lock == mp.thread = "lock" /\ mp.free /\ ThreadGoes([mp EXCEPT !.free = FALSE], "location")

(* update_location, then update_border or update_distance *)
Enter(part, next) ==
    /\ mp.thread = part
    /\ LET n == mp.ring[mp.at]
       IN  \/ ThreadGoes(mp, next)
           \/ /\ n # None
              /\ \E wider \in BOOLEAN :         \* outside the area known so far
                    ThreadGoes([access_field(mp, mp.place[n][part], {<<n, part>>})
                            EXCEPT !.min_max_updated = @ \/ wider, !.done = @ \cup {<<n, part>>}], next)

Entered(m) ==
    IF m.fifo # <<>> \/ ~m.min_max_updated THEN m
    ELSE [WriteHeader(WriteBack(m)) EXCEPT !.min_max_updated = FALSE]

Unlock == mp.thread = "unlock" /\ ThreadGoes([Entered(mp) EXCEPT !.free = TRUE], "get")

map_update_main ==
    \/ GetIndex
    \/ Lock
    \/ Enter("location", "distance")
    \/ Enter("distance", "unlock")
    \/ Unlock

-----------------------------------------------------------------------------
(* The main thread.  It waits for the lock and is not interrupted then. *)

(* Repaired map_flush_cache, to compare with: the block in memory is saved first. *)
FlushAndSave(m) == WriteHeader(WriteBack(m))

map_flush_cache(m) == WriteHeader(m)

(* map_get_average, map_get_ratio, map_way_free, map_2_sim_send, shrink: of  *)
(* the blocks that are read the first one matters, which may send a changed *)
(* block to the file, and the last one, which stays in memory.              *)
Reads ==
    /\ mp.free
    /\ \E first, last \in Blocks : Becomes(get_section(get_section(map_flush_cache(mp), first), last))

(* Fields become 0, block after block.  Behind the flush the buffer is the   *)
(* block of the file; the last block that is visited stays in memory.       *)
Cleared(m, gone, last) ==
    [m EXCEPT !.file = [b \in Blocks |-> IF b = last THEN m.file[b] ELSE m.file[b] \ gone],
              !.block = last, !.buffer = m.file[last] \ gone,
              !.updated = m.file[last] \cap gone # {} \/ (@ /\ Blocks = {last}),
              !.done = @ \ gone]

(* The fields that are free, by one part of the updates or by both. *)
map_clean ==
    /\ mp.free
    /\ \E parts \in SUBSET Parts \ {{}}, last \in Blocks :
          Becomes(Cleared(map_flush_cache(mp), (1 .. MAX_UPDATES) \X parts, last))

(* A file that was saved is copied over all blocks, which delete() has       *)
(* cleared before; nothing of this run is in it.                            *)
map_load_from_file ==
    /\ mp.free
    /\ \/ Becomes(map_flush_cache(mp))                      \* there is no such file
       \/ Becomes([mp EXCEPT !.file = [b \in Blocks |-> {}], !.min_max_updated = FALSE,
                             !.block = FirstBlock, !.buffer = {}, !.updated = FALSE, !.done = {}])

(* The file is copied through the buffer, then the block is read again. *)
map_save_to_file == mp.free /\ Becomes(WriteHeader(map_flush_cache(mp)))

MapNext ==
    \/ bot_scan_onthefly_behaviour
    \/ map_update_main
    \/ Reads
    \/ map_clean
    \/ map_load_from_file
    \/ map_save_to_file

MapSpec == MapInit /\ [][MapNext]_mp

-----------------------------------------------------------------------------
Visible(b) == IF b = mp.block THEN mp.buffer ELSE mp.file[b]

(* The variables stay in their ranges, and who enters has the lock. *)
MapTypeOK ==
    /\ mp.file \in [Blocks -> SUBSET Facts] /\ mp.buffer \subseteq Facts
    /\ mp.block \in Blocks /\ mp.updated \in BOOLEAN
    /\ mp.fifo \in BoundedSeq(0 .. CACHE_SIZE - 1, CACHE_SIZE - 1)
    /\ mp.free <=> mp.thread \in {"get", "lock"}

(* What is in a block belongs there: though one buffer serves all blocks    *)
(* and the header, and the block changes under both threads, no field of    *)
(* one block is ever written into another (map.c:521-622, 1357-1393).       *)
BlocksAreNotMixed ==
    \A b \in Blocks : \A fact \in Visible(b) \cup mp.file[b] : mp.place[fact[1]][fact[2]] = b

(* Flushing writes the updates back completely (map.c:443): what was        *)
(* entered into the map stays there until the map is erased.                *)
EnteredIsKept ==
    mp.free => \A fact \in mp.done : fact \in Visible(mp.place[fact[1]][fact[2]])

-----------------------------------------------------------------------------
(* Places and fields. *)
MAP_SIZE_MM == 12288
MAP_RESOLUTION == 125
POINTS == (MAP_SIZE_MM * MAP_RESOLUTION) \div 1000
MAP_SECTION_POINTS == 16
MACRO_BLOCK_LENGTH == 512
MAP_BLOCK_SIZE == 2 * MAP_SECTION_POINTS * MAP_SECTION_POINTS
MAP_FILE_SIZE == (POINTS * POINTS) \div MAP_BLOCK_SIZE
MAP_STEP_FREE_SENSOR == 2
MAP_STEP_FREE_LOCATION == 20
MAP_STEP_OCCUPIED == 5
MAP_RADIUS_FIELDS == (MAP_RESOLUTION * 50) \div 1000

Int8(n) == ((n + 128) % 256) - 128
Quotient(a, b) == IF a < 0 THEN -((-a) \div b) ELSE a \div b     \* of C
Larger(a, b) == IF a < b THEN b ELSE a

-----------------------------------------------------------------------------
(* world_to_map: the robot shifts the bits of the uint16_t by hand. *)
WorldToMapPc(coord) == Quotient(coord + POINTS * 4, 1000 \div MAP_RESOLUTION)

WorldToMapMcu(coord) ==
    LET shifted == (coord % 2 ^ 16) \div 8
        signed == IF (shifted \div 2 ^ 12) % 2 = 1 THEN shifted + 7 * 2 ^ 13 ELSE shifted
        moved == (signed + 768) % 2 ^ 16
    IN  IF moved < 2 ^ 15 THEN moved ELSE moved - 2 ^ 16

get_block(x, y) ==
    LET section(c) == (c % MACRO_BLOCK_LENGTH) \div MAP_SECTION_POINTS
        block == (section(x) + section(y) * (MACRO_BLOCK_LENGTH \div MAP_SECTION_POINTS)) \div 2
        macroblock == x \div MACRO_BLOCK_LENGTH + (y \div MACRO_BLOCK_LENGTH) * (POINTS \div MACRO_BLOCK_LENGTH)
    IN  (block + macroblock * MACRO_BLOCK_LENGTH * (MACRO_BLOCK_LENGTH \div MAP_BLOCK_SIZE)) % 2 ^ 16

(* One place of each pair of sections that shares a block of the file. *)
Corners == {2 * MAP_SECTION_POINTS * i : i \in 0 .. POINTS \div (2 * MAP_SECTION_POINTS) - 1}
           \X {MAP_SECTION_POINTS * i : i \in 0 .. POINTS \div MAP_SECTION_POINTS - 1}
BlocksUsed == {get_block(c[1], c[2]) : c \in Corners}

-----------------------------------------------------------------------------
(* Mutant of update_field: a sum of -128 is kept. *)
UpdateUnchecked(old, step) ==
    LET new == Int8(old + step)
    IN  CASE old = -128 -> old
          [] old # -128 /\ step > 0 -> IF new < old THEN 127 ELSE new
          [] old # -128 /\ step <= 0 -> IF new > old THEN -127 ELSE new

update_field(old, step) ==
    LET new == Int8(old + step)
    IN  CASE old = -128 -> old
          [] old # -128 /\ step > 0 -> IF new < old THEN 127 ELSE new
          [] old # -128 /\ step <= 0 -> IF new > old \/ new = -128 THEN -127 ELSE new

(* update_location, update_sensor_distance, update_occupied: how much one    *)
(* sighting adds, from the probability and the distance to the centre.       *)
FreeSteps == {Int8(Quotient((s - 1) * p, 255) + 1)
                : s \in {MAP_STEP_FREE_SENSOR, MAP_STEP_FREE_LOCATION}, p \in Probabilities}

OccupiedSteps ==
    LET strength(d) == Quotient(-(MAP_STEP_OCCUPIED * MAP_STEP_OCCUPIED),
                                Larger(Int8(d) \div 2, MAP_STEP_OCCUPIED)) + 1
    IN  {Int8(Quotient(strength(d) * p, 255) - 1)
            : d \in 0 .. MAP_RADIUS_FIELDS * MAP_RADIUS_FIELDS, p \in Probabilities}

FirstPlace == -(MAP_SIZE_MM \div 2)

FieldInit == \E coord \in FirstPlace .. FirstPlace + MAP_SIZE_MM - 1 : field = [value |-> 0, coord |-> coord]

SeenFree == \E step \in FreeSteps : field' = [field EXCEPT !.value = update_field(@, step)]
SeenOccupied == \E step \in OccupiedSteps : field' = [field EXCEPT !.value = update_field(@, step)]

(* update_border: the field becomes an abyss if it is none yet. *)
set_value_occupied == field' = [field EXCEPT !.value = IF @ > -128 THEN -128 ELSE @]

map_clean_field == field.value # 0 /\ field' = [field EXCEPT !.value = 0]

(* The value changes where the robot is; one place stands for all. *)
FieldNext ==
    /\ field.coord = FirstPlace
    /\ \/ SeenFree
       \/ SeenOccupied
       \/ set_value_occupied
       \/ map_clean_field

FieldSpec == FieldInit /\ [][FieldNext]_field

-----------------------------------------------------------------------------
FieldTypeOK == field.value \in -128 .. 127

(* Every place of the world has its own place in the map: the robot's       *)
(* assembler and the C of the PC agree about it (map.c:489-512), and two    *)
(* pairs of sections never share a block of the file (map.c:215-249).       *)
FieldsHaveTheirPlace ==
    /\ WorldToMapMcu(field.coord) = WorldToMapPc(field.coord)
    /\ WorldToMapPc(field.coord) \in 0 .. POINTS - 1
    /\ field.coord = FirstPlace /\ field.value = 0 => BlocksUsed = 0 .. MAP_FILE_SIZE - 1    \* looked at once

(* A sighting moves a field its way at every value and every probability:   *)
(* seen free it never becomes more occupied, seen occupied it does not turn *)
(* free by an overflow, and neither makes an abyss or removes one           *)
(* (map.c:736-756, 823-848).                                                *)
SightingCounts ==
    /\ SeenFree => field'.value >= field.value
    /\ SeenOccupied => field'.value <= field.value
    /\ SeenFree \/ SeenOccupied => (field'.value = -128 <=> field.value = -128)

-----------------------------------------------------------------------------
(* Blocks and fields side by side.                                          *)
BotMapSpec == MapSpec /\ FieldSpec

(* What is written to a block has been read from the same block; both ways   *)
(* to compute the place of a field agree, and no two coordinates of         *)
(* different fields meet in one.                                            *)
MapIsKept == BlocksAreNotMixed /\ FieldsHaveTheirPlace

(* A sighting moves the value of a field its way, or not at all.             *)
SightingsCountTheirWay == [][field' # field => SightingCounts]_field
=============================================================================
