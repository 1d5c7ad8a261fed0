------------------------------- MODULE PathPlanning -------------------------------
(***************************************************************************)
(* The robot plans its way on a coarse map (behaviour_pathplanning.c): a    *)
(* wave runs from the destination over the free cells until it reaches the  *)
(* robot, its front waiting in a store of QUEUE_SIZE places; then the way   *)
(* is traced back along falling numbers, diagonals allowed, and its corners *)
(* are put into the same store for the drive.  Within one round nobody      *)
(* comes between; a round of the wave and of the way is one step here.      *)
(***************************************************************************)
EXTENDS Integers, Sequences, SequencesExt, FiniteSets

CONSTANTS
    MAX_X, MAX_Y,       \* the part of the map that is used
    QUEUE_SIZE,
    MAX_WAVECOUNTER,
    Destinations,       \* cells the robot is sent to
    Hazards             \* sets of cells that are occupied

VARIABLE plan

Cells == (1 .. MAX_X) \X (1 .. MAX_Y)
Origin == <<0, 0>>      \* the corner of the map
Mark == <<999, 999>>

PlanInit ==
    \E from \in Cells, to \in Destinations, hazards \in Hazards :
        plan = [wave_state |-> "start", endkoord |-> from, startwave |-> to, hazards |-> hazards,
                map |-> [c \in Cells |-> 0], store |-> <<>>, wavecounter |-> 0,
                neighbour_found |-> FALSE, endreached |-> FALSE, lost |-> FALSE,
                pos |-> Origin, mapval_min |-> 0, skip_count |-> 0]

Abs(n) == IF n < 0 THEN -n ELSE n
Int8(n) == ((n + 128) % 256) - 128
Uint8(n) == n % 256

Moved(c, d) == <<c[1] + d[1], c[2] + d[2]>>
Value(c) == IF c \in Cells THEN plan.map[c] ELSE 0

Around4 == <<<<0, -1>>, <<-1, 0>>, <<1, 0>>, <<0, 1>>>>
Around8 == <<<<-1, -1>>, <<0, -1>>, <<1, -1>>, <<-1, 0>>, <<1, 0>>, <<-1, 1>>, <<0, 1>>, <<1, 1>>>>

At(state) == plan.wave_state = state
Becomes(state, r) == plan' = [r EXCEPT !.wave_state = state]

-----------------------------------------------------------------------------
Start ==
    /\ At("start")
    /\ Becomes("hazards", [plan EXCEPT !.map = [c \in Cells |-> IF c = plan.startwave THEN 2 ELSE 0],
                                       !.store = <<>>, !.wavecounter = 2])

set_hazards ==
    /\ At("hazards")
    /\ Becomes("wave", [plan EXCEPT !.map = [c \in Cells |-> IF c \in plan.hazards THEN 1 ELSE @[c]],
                                    !.wavecounter = Uint8(@ + 1), !.endreached = FALSE,
                                    !.store = <<plan.startwave, Mark>>])

(* Mutant of get_neighbour: a cell is put into the store without a look for  *)
(* room.                                                                    *)
NeighbourUnbounded(r, c) ==
    LET free == c \in Cells /\ r.map[c] = 0
    IN  [r EXCEPT !.map = IF free THEN [@ EXCEPT ![c] = Int8(r.wavecounter)] ELSE @,
                  !.neighbour_found = @ \/ free,
                  !.store = IF free THEN Append(@, c) ELSE @,
                  !.endreached = @ \/ c = r.endkoord]

(* get_neighbour: a free cell gets its number and waits to be looked at. *)
get_neighbour(r, c) ==
    LET free == c \in Cells /\ r.map[c] = 0
        room == Len(r.store) < QUEUE_SIZE
    IN  [r EXCEPT !.map = IF free THEN [@ EXCEPT ![c] = Int8(r.wavecounter)] ELSE @,
                  !.neighbour_found = @ \/ free,
                  !.store = IF free /\ room THEN Append(@, c) ELSE @,
                  !.lost = @ \/ (free /\ ~room),
                  !.endreached = @ \/ c = r.endkoord]

WaveGoesOn ==
    /\ At("wave") /\ ~plan.endreached /\ plan.store # <<>> /\ Head(plan.store) # Mark
    /\ LET c == Head(plan.store)
       IN  plan' = FoldLeft(LAMBDA r, d : get_neighbour(r, Moved(c, d)), [plan EXCEPT !.store = Tail(@)], Around4)

NextFront ==
    /\ At("wave") /\ ~plan.endreached /\ plan.store # <<>> /\ Head(plan.store) = Mark
    /\ plan' = [plan EXCEPT !.wavecounter = Uint8(@ + 1), !.neighbour_found = FALSE,
                            !.store = IF plan.neighbour_found THEN Append(Tail(@), Mark) ELSE Tail(@)]

WaveEnds ==
    /\ At("wave") /\ (plan.endreached \/ plan.store = <<>>)
    /\ LET cleared == [plan EXCEPT !.store = <<>>]
       IN  \/ plan.endreached
              /\ Becomes("search", [cleared EXCEPT !.pos = plan.endkoord, !.mapval_min = Int8(plan.wavecounter + 1),
                                                   !.endreached = FALSE, !.wavecounter = 0, !.skip_count = 0])
           \/ ~plan.endreached /\ Becomes("end", cleared)

-----------------------------------------------------------------------------
(* The neighbour with the lowest number, unless the destination comes first. *)
Seen(r, c) ==
    LET lower == Value(c) > 1 /\ Value(c) < r.min
    IN  IF r.end \/ c = plan.endkoord THEN r
        ELSE [end |-> c = plan.startwave, found |-> r.found \/ lower,
              next |-> IF lower THEN c ELSE r.next, min |-> IF lower THEN Value(c) ELSE r.min]

Lowest ==
    FoldLeft(LAMBDA r, d : Seen(r, Moved(plan.pos, d)),
             [end |-> FALSE, found |-> FALSE, next |-> IF plan.pos = plan.endkoord THEN Origin ELSE plan.pos,
              min |-> plan.mapval_min], Around8)

(* Mutant of Slope: without its sign. *)
SlopeUnsigned(a, b) == LET dx == a[1] - b[1]
                           dy == a[2] - b[2]
                       IN  IF dx = 0 THEN 100 ELSE Abs(dy) \div Abs(dx)

Slope(a, b) == LET dx == a[1] - b[1]
                   dy == a[2] - b[2]
               IN  IF dx = 0 THEN 100 ELSE IF (dy < 0) = (dx < 0) THEN dy \div dx ELSE -((-dy) \div dx)

(* On a straight line the last place is replaced, at most three in turn. *)
Straight(next) ==
    /\ Len(plan.store) >= 2
    /\ LET n == Len(plan.store)
       IN  Slope(plan.store[n], plan.store[n - 1]) = Slope(next, plan.store[n])

TraceBack ==
    /\ At("search") /\ ~plan.endreached
    /\ LET r == Lowest
           skips == Straight(r.next) /\ plan.skip_count < 3
           base == IF skips THEN Front(plan.store) ELSE plan.store
           queued == r.found \/ r.end
           failed == (queued /\ Len(base) >= QUEUE_SIZE) \/ plan.wavecounter + 1 >= MAX_WAVECOUNTER
           went == [plan EXCEPT
                      !.store = IF queued /\ Len(base) < QUEUE_SIZE THEN Append(base, r.next) ELSE base,
                      !.skip_count = IF ~queued \/ Len(plan.store) < 2 THEN @ ELSE IF skips THEN @ + 1 ELSE 0,
                      !.mapval_min = r.min, !.pos = r.next, !.wavecounter = @ + 1]
       IN  \/ failed /\ Becomes("end", went)
           \/ ~failed /\ ~r.end /\ plan' = went
           \/ ~failed /\ r.end /\ Becomes("drive", [went EXCEPT !.endreached = TRUE])

(* bot_drive_stack_x drives to the places and empties the store. *)
Drive == At("drive") /\ Becomes("correct", [plan EXCEPT !.store = <<>>])

CorrectPosition == At("correct") /\ Becomes("end", plan)

End == At("end") /\ Becomes("off", [plan EXCEPT !.store = <<>>])

(* The behaviour is switched off between two rounds, or the planning starts  *)
(* anew; the flags and the store stay.                                      *)
Abort == plan.wave_state \in {"hazards", "drive", "correct", "end"} /\ Becomes("off", plan)

bot_do_calc_wave == At("off") /\ Becomes("start", plan)

PlanNext ==
    \/ Start \/ set_hazards
    \/ WaveGoesOn \/ NextFront \/ WaveEnds
    \/ TraceBack \/ Drive \/ CorrectPosition \/ End
    \/ Abort \/ bot_do_calc_wave

-----------------------------------------------------------------------------
PlanTypeOK ==
    /\ plan.map \in [Cells -> -128 .. 127] /\ Len(plan.store) <= QUEUE_SIZE
    /\ plan.wavecounter \in 0 .. 255

Free == (Cells \ plan.hazards) \cup {plan.endkoord, plan.startwave}

(* From a straight to b, in one of the eight directions, over free cells. *)
Passable(a, b) ==
    \E d \in Range(Around8), k \in 1 .. MAX_X + MAX_Y :
        /\ b = <<a[1] + k * d[1], a[2] + k * d[2]>>
        /\ \A n \in 1 .. k : <<a[1] + n * d[1], a[2] + n * d[2]>> \in Free

(* "Immer die Zelle mit kleinerem Wert gewaehlt" (behaviour_pathplanning.c   *)
(* :30): the places the robot is sent to lead from one to the next over free *)
(* cells, up to the destination, although the wave loses cells when the      *)
(* store is full and the straight parts are left out.                       *)
RouteIsPassable ==
    At("drive") /\ plan.startwave \notin plan.hazards =>
        /\ plan.store # <<>> /\ Last(plan.store) = plan.startwave
        /\ Passable(plan.endkoord, plan.store[1])
        /\ \A i \in 1 .. Len(plan.store) - 1 : Passable(plan.store[i], plan.store[i + 1])
=============================================================================
