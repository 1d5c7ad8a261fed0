------------------------------ MODULE LineRoutines ------------------------------
(***************************************************************************)
(* Following a line: the follower itself in its third version, the one that *)
(* gets past gaps and obstacles, and the search for the shortest way in a   *)
(* maze of lines (bot-logic/behaviour_follow_line.c, _follow_line_enhanced.c *)
(* and _line_shortest_way.c).                                               *)
(*                                                                          *)
(* The maze is a tree: every crossing is entered by one arm and has three   *)
(* others, 1 to the left, 2 ahead and 3 to the right; a line ends in a      *)
(* crossing, a dead end or the goal.  way says where the robot really is:   *)
(* the arms it has taken from the start, and whether it drives out or back. *)
(* What the behaviour knows of that is a stack of arms.                     *)
(***************************************************************************)
EXTENDS Naturals, Sequences, SequencesExt

CONSTANT STACK_SIZE   \* places of the position store

VARIABLES beh, st, way

Prio == [servo |-> 253, delay |-> 200, check_reverse |-> 169, turn |-> 150, goto |-> 146,
         solve_maze |-> 100, enh |-> 71, follow |-> 70, shortest |-> 69]
Names == DOMAIN Prio

INSTANCE Routine WITH Behaviours <- Names, prio <- Prio, NoBeh <- "none", Unlisted <- "unlisted"

Me == "shortest"
Arms == 1 .. 3

LineInit ==
    /\ beh = [b \in Names |-> Idle]
    /\ st = [left |-> FALSE, right |-> FALSE,        \* border_side_l_fired, border_side_r_fired
             enh |-> "START", next |-> "START_LINE",
             lineState |-> "END", way_back |-> FALSE, go_stack_way |-> FALSE, crossing_reached |-> FALSE,
             armed |-> FALSE, bot_reverse |-> FALSE,
             blocked |-> FALSE,                      \* _delay_state of BLOCK_BEHAVIOUR
             store |-> <<>>,
             lost |-> FALSE]                         \* a push found the store full
    /\ way = [path |-> <<>>, out |-> TRUE, at |-> "carried", route |-> <<>>]

In(b, state) == Active(b) /\ st.lineState = state /\ b = Me
To(state) == [st EXCEPT !.lineState = state]
SameWay == UNCHANGED way

-----------------------------------------------------------------------------
(* Following the line.  Each border sensor may see the edge at any time; a  *)
(* side is forgotten while the line is corrected; both at once or one after *)
(* the other mean a crossing, and only there both are seen.                 *)
bot_follow_line(s) == [s EXCEPT !.left = FALSE, !.right = FALSE]

SideSeen(s, side) == [s EXCEPT !.left = @ \/ side # "right", !.right = @ \/ side # "left"]

(* The end of an arm that leads out; on a known way only what lies there. *)
Ends_here ==
    IF ~way.out THEN IF way.path = <<>> THEN {"dead"} ELSE {"crossing"}
    ELSE IF st.go_stack_way
         THEN {IF way.path = way.route THEN "goal" ELSE "crossing"}
         ELSE {"dead", "goal"} \cup (IF Len(way.path) <= STACK_SIZE THEN {"crossing"} ELSE {})

AtCrossing == beh["follow"].caller # Me \/ (st.armed /\ "crossing" \in Ends_here)

bot_follow_line_behaviour ==
    /\ Active("follow")
    /\ \/ \E side \in {"left", "right", "both"} :
            LET s == SideSeen(st, side)
            IN  IF s.left /\ s.right
                THEN /\ AtCrossing /\ Returns(s, "follow")
                     /\ way' = IF beh["follow"].caller = Me THEN [way EXCEPT !.at = "crossing"] ELSE way
                ELSE Goes(s) /\ SameWay
       \/ (st.left \/ st.right) /\ Goes(bot_follow_line(st)) /\ SameWay

(* The line ends and the follower turns on the spot until it sees it again. *)
DeadEnd ==
    /\ Active("follow") /\ beh["follow"].caller = Me /\ st.armed /\ "dead" \in Ends_here
    /\ way' = [way EXCEPT !.out = ~@]
    /\ IF Active("check_reverse")
       THEN Returns([st EXCEPT !.bot_reverse = TRUE, !.armed = FALSE], "check_reverse")
       ELSE Goes([st EXCEPT !.armed = FALSE])

-----------------------------------------------------------------------------
(* Past gaps and obstacles. *)
SetEnh(x) == [st EXCEPT !.enh = x]

bot_follow_line_enh_behaviour ==
    /\ Active("enh") /\ SameWay
    /\ CASE st.enh = "START" -> Calls([SetEnh("END") EXCEPT !.next = "START_LINE"], "enh", "goto")
         [] st.enh = "START_LINE" -> Asks(IF Busy(beh, "follow") THEN SetEnh("END")
                                          ELSE bot_follow_line(SetEnh("END")), "enh", "follow")
         [] st.enh = "CHECK_BREAK" -> Calls(SetEnh("START_LINE"), "enh", "goto")
         [] st.enh = "TURN_AROUND" -> Calls(SetEnh("GO_AROUND"), "enh", "turn")
         [] st.enh = "GO_AROUND" -> Calls(SetEnh("START_SOLVE_MAZE"), "enh", "goto")
         [] st.enh = "START_SOLVE_MAZE" -> Asks([st EXCEPT !.next = "OTHER_SIDE"], "enh", "solve_maze")
         [] st.enh = "OTHER_SIDE" -> Calls(SetEnh("TURN_NEXT_PART"), "enh", "turn")
         [] st.enh = "TURN_NEXT_PART" -> Calls(SetEnh("SEARCH_LINE"), "enh", "turn")
         [] st.enh = "SEARCH_LINE" -> \/ Calls(SetEnh("START_LINE"), "enh", "goto")
                                      \/ Goes(SetEnh("START_LINE"))
         [] OTHER -> Returns(st, "enh")

Cancels(b, s) ==
    /\ Active(b) /\ st' = s /\ SameWay
    /\ beh' = exit_behaviour(deactivate_called_behaviours(beh, b), b, CANCEL)

(* Conditions for the watcher: the line is seen, the gap, or an obstacle. *)
check_line_sensors ==
    \/ beh["solve_maze"].caller = "enh" /\ Cancels("solve_maze", SetEnh(st.next))
    \/ beh["goto"].caller = "enh" /\ st.enh = "END" /\ Cancels("goto", SetEnh(st.next))
    \/ beh["goto"].caller = Me /\ st.lineState = "CHECK_LINE" /\ Cancels("goto", st)

check_left_line_sensor ==
    \/ beh["turn"].caller = "enh" /\ st.enh = "SEARCH_LINE" /\ Cancels("turn", st)
    \/ beh["goto"].caller = "enh" /\ st.enh = "START_LINE" /\ Cancels("goto", st)

check_sensors ==
    /\ beh["follow"].caller = "enh"
    /\ \E x \in {"CHECK_BREAK", "TURN_AROUND"} : Cancels("follow", SetEnh(x))

-----------------------------------------------------------------------------
(* The direction is compared with the one at the last start of this check. *)
bot_check_reverse_direction(s) == [s EXCEPT !.armed = TRUE, !.bot_reverse = FALSE]

(* The condition for the follower that searches the way. *)
GoalReached ==
    /\ st.crossing_reached /\ st.armed /\ way.out /\ "goal" \in Ends_here
    /\ Active("follow") /\ st' = To("END")
    /\ beh' = exit_behaviour(beh, "follow", CANCEL)
    /\ way' = [way EXCEPT !.at = "goal", !.route = way.path]

Reversed ==
    /\ st.bot_reverse /\ beh' = exit_behaviour(deactivate_behaviour(beh, "check_reverse"), "follow", CANCEL)
    /\ st' = [To("TURN_ON_GREEN") EXCEPT !.way_back = TRUE, !.bot_reverse = FALSE]

DistanceReached ==
    /\ ~st.bot_reverse /\ ~st.armed
    /\ st' = bot_check_reverse_direction(st)
    /\ beh' = calls(beh, "none", "check_reverse")

check_crossing ==
    /\ Active("follow") /\ beh["follow"].caller = Me
    /\ \/ GoalReached
       \/ Reversed /\ SameWay
       \/ DistanceReached /\ SameWay

-----------------------------------------------------------------------------
(* A crossing: the store keeps the arm taken at each crossing of the way. *)
pushed(s, d) ==
    IF Len(s.store) < STACK_SIZE THEN [s EXCEPT !.store = Append(@, d)] ELSE [s EXCEPT !.lost = TRUE]

(* The robot leaves a crossing by a turn of so many quarters to the left. *)
Leaves(quarters) ==
    LET from == IF way.out THEN 0 ELSE Last(way.path)
        arm == (from + (CASE quarters = 1 -> 1 [] quarters = 0 -> 2 [] OTHER -> 3)) % 4
        base == IF way.out THEN way.path ELSE Front(way.path)
    IN  [way EXCEPT !.path = IF arm = 0 THEN base ELSE Append(base, arm),
                    !.out = arm # 0, !.at = "between"]

TurnBy(s, quarters) ==
    /\ st' = s /\ way' = Leaves(quarters)
    /\ beh' = IF quarters = 0 THEN beh ELSE calls(beh, Me, "turn")

NothingStored == st.store = <<>> /\ Goes(To("GOAL_FOUND")) /\ SameWay

(* Mutant of NextArm: the robot that comes back leaves by the same rule anew. *)
NextArmFromFirst(s) == pushed([s EXCEPT !.way_back = FALSE], 1)
(* The arm to the left of the one the robot came by; after the third it goes back. *)
NextArm(s) ==
    IF ~s.way_back THEN pushed(s, 1)
    ELSE LET d == Last(s.store) + 1  s1 == [s EXCEPT !.store = Front(@)]
         IN  IF d \in Arms THEN pushed([s1 EXCEPT !.way_back = FALSE], d) ELSE s1

Explores ==
    /\ ~st.go_stack_way
    /\ \/ st.way_back /\ NothingStored
       \/ /\ st.way_back => st.store # <<>>
          /\ TurnBy(NextArm(To("GO_FORWARD_AFTER_TURN")), 1)

ByDirection(d, left) == IF d = 2 THEN 0 ELSE IF d = left THEN 1 ELSE -1

GoesBack ==
    /\ st.go_stack_way /\ st.way_back
    /\ \/ NothingStored
       \/ /\ st.store # <<>>
          /\ TurnBy([To("GO_FORWARD_AFTER_TURN") EXCEPT !.store = Front(@)], ByDirection(Last(st.store), 3))

GoesOut ==
    /\ st.go_stack_way /\ ~st.way_back
    /\ \/ NothingStored
       \/ /\ st.store # <<>>
          /\ TurnBy([To("GO_FORWARD_AFTER_TURN") EXCEPT !.store = Tail(@)], ByDirection(Head(st.store), 1))

(* BLOCK_BEHAVIOUR: half a second of rest before the routine goes on. *)
Rests == ~st.blocked /\ Asks([st EXCEPT !.blocked = ~Busy(beh, "delay")], Me, "delay") /\ SameWay

bot_servo(s, t) == st' = s /\ (beh' = t \/ beh' = asks(t, Me, "servo"))

bot_line_shortest_way_behaviour ==
    \/ /\ In(Me, "GO_TO_LINE")
       /\ IF way.at = "goal" /\ st.crossing_reached /\ st.way_back
          THEN /\ Calls([To("CHECK_LINE") EXCEPT !.bot_reverse = @ \/ Active("check_reverse")], Me, "turn")
               /\ way' = [way EXCEPT !.at = "between", !.out = FALSE]
          ELSE Calls(To("CHECK_LINE"), Me, "goto") /\ SameWay
    \/ /\ In(Me, "CHECK_LINE")
       /\ Asks([bot_follow_line(To("CHECK_BORDER")) EXCEPT !.armed = FALSE], Me, "follow")
       /\ way' = [way EXCEPT !.at = "line"]
    \/ In(Me, "CHECK_BORDER") /\ Calls([To("GO_FORWARD") EXCEPT !.crossing_reached = TRUE], Me, "goto") /\ SameWay
    \/ In(Me, "GO_FORWARD") /\ Calls(To("TURN_SIDEWISH"), Me, "goto") /\ SameWay
    \/ In(Me, "TURN_SIDEWISH") /\ (Explores \/ GoesBack \/ GoesOut)
    \/ In(Me, "GO_FORWARD_AFTER_TURN") /\ Rests
    \/ In(Me, "GO_FORWARD_AFTER_TURN") /\ st.blocked /\ SameWay
       /\ Calls([To("GO_TO_LINE") EXCEPT !.blocked = FALSE], Me, "goto")
    \/ In(Me, "TURN_ON_GREEN") /\ Rests
    \/ In(Me, "TURN_ON_GREEN") /\ st.blocked /\ Goes([To("CHECK_LINE") EXCEPT !.blocked = FALSE]) /\ SameWay
    \/ In(Me, "GOAL_FOUND") /\ bot_servo(To("END"), beh) /\ SameWay
    \/ /\ In(Me, "END") /\ SameWay /\ UNCHANGED st    \* the order to close the door, then the return
       /\ \E t \in {beh, asks(beh, Me, "servo")} : beh' = return_from_behaviour(t, Me)

-----------------------------------------------------------------------------
(* The user starts a behaviour when nothing but the check for turns runs. *)
Resting == \A b \in Names \ {"check_reverse"} : ~Active(b) /\ beh[b].subResult # RUNNING

Begins(s, w) == beh' = asks(beh, "none", Me) /\ st' = s /\ way' = w

bot_line_shortest_way ==
    Begins([st EXCEPT !.lineState = "GO_TO_LINE", !.way_back = FALSE, !.go_stack_way = FALSE,
                      !.crossing_reached = FALSE, !.store = <<>>, !.lost = FALSE],
           [path |-> <<>>, out |-> TRUE, at |-> "start", route |-> <<>>])

(* The robot has lost the line and is put on it again. *)
bot_line_shortest_way_continue ==
    way.at = "line" /\ Begins(To("GO_TO_LINE"), way)

(* At the start, or at the goal: the way that was found. *)
bot_line_shortest_way_forward ==
    /\ way.at = "goal" /\ st.store = way.route
    /\ Begins([st EXCEPT !.lineState = "GO_TO_LINE", !.crossing_reached = FALSE,
                         !.way_back = FALSE, !.go_stack_way = TRUE],
              [way EXCEPT !.path = <<>>, !.at = "start", !.out = TRUE])

bot_line_shortest_way_backward ==
    /\ way.at = "goal" /\ st.store = way.route
    /\ Begins([st EXCEPT !.lineState = "GO_TO_LINE", !.crossing_reached = TRUE,
                         !.way_back = TRUE, !.go_stack_way = TRUE], way)

driveline_disp_key_handler ==
    /\ Resting
    /\ \/ bot_line_shortest_way
       \/ bot_line_shortest_way_continue
       \/ bot_line_shortest_way_forward
       \/ bot_line_shortest_way_backward

bot_follow_line_enh ==
    /\ Resting /\ way.at = "carried" /\ SameWay
    /\ beh' = asks(beh, "none", "enh") /\ st' = SetEnh("START")

(* A stop elsewhere loses the place; all that is left then is a new search. *)
StoppedOnLine == Active("follow") /\ EmergencyStop /\ SameWay

LineNext ==
    \/ bot_follow_line_behaviour
    \/ DeadEnd
    \/ bot_follow_line_enh_behaviour
    \/ check_line_sensors
    \/ check_left_line_sensor
    \/ check_sensors
    \/ check_crossing
    \/ bot_line_shortest_way_behaviour
    \/ driveline_disp_key_handler
    \/ bot_follow_line_enh
    \/ \E b \in {"turn", "goto", "delay", "solve_maze", "servo"} : Ends(b, {SUCCESS}) /\ SameWay
    \/ StoppedOnLine

-----------------------------------------------------------------------------
(* The two older versions of the follower, by themselves.  What the line    *)
(* sensors and the border sensors see is a free choice in every round.      *)
FollowInit ==
    /\ beh = [b \in Names |-> Idle] /\ way = <<>>
    /\ \E version \in {1, 2} :
         st = [version |-> version, lineState |-> IF version = 1 THEN "CHECK_LINE" ELSE "START",
               cornerDetected |-> "none", seen |-> "none", turn |-> "none",
               avoid_col |-> TRUE, avoid_border |-> TRUE]      \* these behaviours are active

Turns(side, next) ==
    Calls([To(next) EXCEPT !.turn = side, !.cornerDetected = "none"], "follow", "turn")

(* The side of the edge is noted, the robot stops, looks again, drives up to *)
(* the corner and turns to that side; both sensors mean the end.            *)
BorderSeen ==
    \/ Returns(st, "follow")
    \/ \E side \in {"left", "right"} :
          Calls([To("CHECK_BORDER") EXCEPT !.cornerDetected = side, !.seen = side], "follow", "goto")

follow_line_1 ==
    \/ st.lineState = "CHECK_LINE" /\ Goes([To("FOLLOW_LINE") EXCEPT !.avoid_col = FALSE, !.avoid_border = FALSE])
    \/ st.lineState = "FOLLOW_LINE" /\ BorderSeen
    \/ st.lineState = "CHECK_BORDER" /\ \E x \in {"RETREAT_AND_STOP", "ADVANCE_CORNER"} : Goes(To(x))
    \/ st.lineState = "ADVANCE_CORNER" /\ Goes(To("CORNER_TURN"))
    \/ /\ st.lineState = "CORNER_TURN"
       /\ Turns(IF st.cornerDetected = "left" THEN "left" ELSE "right", "CORRECT_POS")
    \/ st.lineState = "CORRECT_POS" /\ Calls(To("FOLLOW_LINE"), "follow", "goto")
    \/ st.lineState = "RETREAT_AND_STOP" /\ Returns(st, "follow")

(* The line is searched with the avoidance of collisions switched on. *)
follow_line_2 ==
    \/ st.lineState = "START" /\ Goes([To("SEARCH") EXCEPT !.avoid_col = TRUE])
    \/ st.lineState = "SEARCH" /\ (Goes(To("FOUND")) \/ Turns("left", "FOUND"))
    \/ st.lineState = "FOUND" /\ Goes([To("FOLLOW_LINE") EXCEPT !.avoid_col = FALSE])
    \/ st.lineState = "ADVANCE" /\ Goes(To("FOLLOW_LINE"))

(* A second order is refused, but the state begins anew all the same. *)
bot_follow_line_old(search) ==
    LET s == IF st.version = 1 THEN [To("CHECK_LINE") EXCEPT !.cornerDetected = "none"]
             ELSE [To(IF search THEN "START" ELSE "ADVANCE") EXCEPT !.avoid_col = FALSE, !.avoid_border = FALSE]
    IN  Asks(s, "none", "follow")

FollowNext ==
    /\ UNCHANGED way
    /\ \/ Active("follow") /\ st.version = 1 /\ follow_line_1
       \/ Active("follow") /\ st.version = 2 /\ follow_line_2
       \/ \E search \in BOOLEAN : bot_follow_line_old(search)
       \/ Ends("goto", {SUCCESS}) \/ Ends("turn", {SUCCESS})
       \/ EmergencyStop

(* At a corner the robot turns to the side where it has seen the edge; and   *)
(* nothing avoids collisions or edges while a line is followed, whatever     *)
(* order comes in between (behaviour_follow_line.c:104-168, 270-346).       *)
CornersAreTurned ==
    /\ st.version = 1 /\ Active("turn") => st.turn = st.seen
    /\ Active("follow") /\ st.lineState = "FOLLOW_LINE" => ~st.avoid_col

-----------------------------------------------------------------------------
LineTypeOK ==
    /\ beh \in [Names -> Record]
    /\ st.store \in BoundedSeq(Arms, STACK_SIZE)
    /\ way.path \in BoundedSeq(Arms, STACK_SIZE + 1) /\ way.out \in BOOLEAN

(* Whenever a line is followed, the stack of the behaviour is the way the   *)
(* robot has really gone: the arms from the start while it searches and on  *)
(* its way back, and those that are still ahead on the way out, as long as  *)
(* the store never was full (behaviour_line_shortest_way.c:524-637).        *)
CrossingsAreTheWay ==
    Active("follow") /\ beh["follow"].caller = Me /\ ~st.lost =>
        IF st.go_stack_way /\ way.out /\ ~st.way_back THEN way.path \o st.store = way.route
        ELSE st.store = way.path
=============================================================================
