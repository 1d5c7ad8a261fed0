------------------------------ MODULE MazeRoutines ------------------------------
(***************************************************************************)
(* Along walls: the search through a maze with its check for a wall and the *)
(* measurement of an angle (bot-logic/behaviour_solve_maze.c), the          *)
(* exploration along walls (behaviour_follow_wall.c) and the drive over a   *)
(* distance that both use (behaviour_drive_distance.c).  Sensor readings    *)
(* are free choices; of two readings it counts whether they agree.          *)
(***************************************************************************)
EXTENDS Naturals

VARIABLES beh, st

Prio == [border |-> 249, delay |-> 200, turn |-> 150, drive_distance |-> 149, maze |-> 100,
         measure_angle |-> 90, check_wall |-> 89, follow_wall |-> 48]
Names == DOMAIN Prio

INSTANCE Routine WITH Behaviours <- Names, prio <- Prio, NoBeh <- "none", Unlisted <- "unlisted"

Sides == {"left", "right"}

MazeInit ==
    /\ beh = [b \in Names |-> Idle]
    /\ st = [check |-> "TURN", check_direction |-> "right", count |-> 0,
             wall_detected |-> FALSE,
             agreed |-> 0,                            \* readings of this check that agree, in a row
             measure |-> "DONE",
             maze |-> "STARTPAD", follow |-> "right", checkedWalls |-> 0,
             judged |-> "none",                       \* the side where a wall was last detected
             wall |-> "BACK", laststate |-> "none", fired |-> FALSE]

Set(field, x) == [st EXCEPT ![field] = x]

-----------------------------------------------------------------------------
(* The check for a wall: after a turn to the side four readings in a row    *)
(* must agree; the next reading is judged.                                  *)
bot_check_wall(s, side) ==
    [s EXCEPT !.check_direction = side, !.wall_detected = FALSE, !.check = "TURN", !.agreed = 0]

(* Mutant of Reading: a reading that differs is counted too. *)
ReadingCounted(agrees) ==
    Calls([st EXCEPT !.count = @ + 1, !.agreed = IF agrees THEN @ + 1 ELSE 0], "check_wall", "delay")
Reading(agrees) ==
    Calls([st EXCEPT !.count = IF st.count = 0 \/ agrees THEN @ + 1 ELSE 0,
                     !.agreed = IF st.count = 0 THEN 1 ELSE IF agrees THEN @ + 1 ELSE 0],
          "check_wall", "delay")

Judge ==
    \/ Goes([Set("check", "TURN_BACK") EXCEPT !.count = 0])        \* no wall
    \/ \E c \in BOOLEAN : Goes([Set("check", IF c THEN "CORRECT" ELSE "TURN_BACK")
                                  EXCEPT !.count = 0, !.wall_detected = TRUE,
                                         !.judged = st.check_direction])

bot_check_wall_behaviour ==
    /\ Active("check_wall")
    /\ \/ st.check = "TURN" /\ Calls(Set("check", "SENS"), "check_wall", "turn")
       \/ st.check = "SENS" /\ st.count < 4 /\ \E agrees \in BOOLEAN : Reading(agrees)
       \/ st.check = "SENS" /\ st.count = 4 /\ Judge
       \/ st.check = "CORRECT" /\ \E x \in {"CORRECT", "TURN_BACK"} : Goes(Set("check", x))
       \/ st.check = "TURN_BACK" /\ Calls(Set("check", "FINISHED"), "check_wall", "turn")
       \/ st.check = "FINISHED" /\ Returns(Set("check", "TURN"), "check_wall")

-----------------------------------------------------------------------------
(* The angle to the next obstacle: turn until it is seen, at most once      *)
(* around, turn back, straighten the wheels.                                *)
bot_measure_angle(s) == [s EXCEPT !.measure = "TURN"]

bot_measure_angle_behaviour ==
    /\ Active("measure_angle")
    /\ \/ st.measure = "TURN" /\ Goes(Set("measure", "COMPLETED"))
       \/ st.measure = "TURN" /\ Goes(Set("measure", "OBSTACLE"))
       \/ st.measure = "OBSTACLE" /\ Goes(Set("measure", "TURN_BACK"))
       \/ st.measure = "TURN_BACK" /\ Goes(Set("measure", "COMPLETED"))
       \/ st.measure = "COMPLETED" /\ Goes(Set("measure", "CORRECT"))
       \/ st.measure = "CORRECT" /\ Goes(Set("measure", "DONE"))
       \/ st.measure = "DONE" /\ Returns(st, "measure_angle")

-----------------------------------------------------------------------------
(* The maze.  A wall is kept on one side; follow is that side. *)
At(x) == Active("maze") /\ st.maze = x
To(x) == Set("maze", x)

CheckForWall(side) == Asks(bot_check_wall([To("WALL_PRESENT") EXCEPT !.follow = side], side), "maze", "check_wall")
Drive(x) == Asks(To(x), "maze", "drive_distance")

(* Mutant of WallPresent: the second side is not looked at. *)
WallPresentOnce ==
    IF st.wall_detected THEN Goes(To("LOOP")) ELSE Drive("LOOP")

WallPresent ==
    LET n == st.checkedWalls + 1
        s == [st EXCEPT !.checkedWalls = IF n < 2 \/ st.wall_detected THEN n ELSE 0]
    IN  IF st.wall_detected THEN Goes([s EXCEPT !.maze = "LOOP"])
        ELSE IF n < 2 THEN Goes([s EXCEPT !.maze = IF st.follow = "right" THEN "WALL_LEFT" ELSE "WALL_RIGHT"])
        ELSE Asks([s EXCEPT !.maze = "WALL_RIGHT"], "maze", "drive_distance")

bot_solve_maze_behaviour ==
    \/ /\ At("STARTPAD")
       /\ \E x \in {"WALL_LEFT", "WALL_RIGHT"} :
            /\ st' = [To(x) EXCEPT !.checkedWalls = 0]
            /\ beh' = deactivate_behaviour(beh, "border")
    \/ At("WALL_RIGHT") /\ CheckForWall("right")
    \/ At("WALL_LEFT") /\ CheckForWall("left")
    \/ At("WALL_PRESENT") /\ WallPresent
    \/ At("LOOP") /\ Drive("TURN_WALL")
    \/ At("TURN_WALL") /\ \/ Calls(To("GOAL"), "maze", "turn")
                          \/ Drive("CROSS_BRANCH")
                          \/ Asks(bot_check_wall(To("CONDITION"), st.follow), "maze", "check_wall")
    \/ At("CONDITION") /\ st.wall_detected /\ Goes(To("LOOP"))
    \/ At("CONDITION") /\ ~st.wall_detected /\ Asks(bot_measure_angle(To("CORNER")), "maze", "measure_angle")
    \/ At("CORNER") /\ Drive("TO_BRANCH")
    \/ \E x \in {"TO_BRANCH", "CROSS_BRANCH"} : At(x) /\ Calls(To("LOOP"), "maze", "turn")
    \/ At("GOAL") /\ Returns(st, "maze")

bot_solve_maze(s) == [s EXCEPT !.maze = "STARTPAD", !.judged = "none"]

-----------------------------------------------------------------------------
(* Along walls.  The handler of holes works beside the behaviour. *)
border_follow_wall_handler ==
    /\ Active("border") /\ Active("follow_wall")
    /\ st' = [st EXCEPT !.fired = TRUE, !.wall = "BACK"]
    /\ beh' = asks(beh, "none", "drive_distance")

bot_follow_wall_behaviour ==
    /\ Active("follow_wall")
    /\ \/ Returns([st EXCEPT !.wall = "BACK", !.laststate = "none"], "follow_wall")     \* check_function
       \/ st.wall = "BACK" /\ Goes(IF st.fired THEN [st EXCEPT !.wall = "TURN", !.fired = FALSE]
                                   ELSE [st EXCEPT !.wall = IF st.laststate = "TURN" THEN "TURN" ELSE "GO"])
       \/ st.wall = "GO" /\ \/ Goes([st EXCEPT !.wall = "BACK", !.laststate = "TURN"])
                            \/ Goes([st EXCEPT !.laststate = "GO"])
       \/ st.wall = "TURN" /\ \/ Goes(st)
                              \/ Goes([st EXCEPT !.wall = "BACK", !.laststate = "none"])

bot_follow_wall(s) == [s EXCEPT !.wall = "BACK", !.laststate = "none"]

(* Rounds until the encoder has reached its target. *)
bot_drive_distance_behaviour ==
    /\ Active("drive_distance")
    /\ Goes(st) \/ Returns(st, "drive_distance")

-----------------------------------------------------------------------------
Start(b) ==
    /\ Quiet
    /\ \/ b = "maze" /\ st' = bot_solve_maze(st) /\ beh' = asks(beh, "none", b)
       \/ b = "follow_wall" /\ st' = bot_follow_wall(st)
          /\ beh' = activateBehaviour(asks(beh, "none", b), "none", "border")

(* The user does not stop the robot while it reads the sensor. *)
StoppedOtherwise == ~(st.check = "SENS" /\ beh["check_wall"].caller # "none") /\ EmergencyStop

MazeNext ==
    \/ bot_check_wall_behaviour
    \/ bot_measure_angle_behaviour
    \/ bot_solve_maze_behaviour
    \/ border_follow_wall_handler
    \/ bot_follow_wall_behaviour
    \/ bot_drive_distance_behaviour
    \/ Start("maze")
    \/ Start("follow_wall")
    \/ \E b \in {"turn", "delay"} : Ends(b, {SUCCESS})
    \/ StoppedOtherwise

-----------------------------------------------------------------------------
MazeTypeOK ==
    /\ beh \in [Names -> Record]
    /\ st.count \in 0 .. 4 /\ st.agreed \in 0 .. 4
    /\ st.check_direction \in Sides /\ st.follow \in Sides /\ st.checkedWalls \in 0 .. 2

(* No wall is detected, and none is missed, on less than four readings of   *)
(* the same check that agree, one 50 ms after the other                     *)
(* (behaviour_solve_maze.c:126-150).                                        *)
WallIsMeasured == beh["check_wall"].caller # "none" /\ st.check \in {"CORRECT", "TURN_BACK", "FINISHED"} => st.agreed = 4

(* The robot goes along the maze only beside a wall: the side that it keeps *)
(* to is the one where a wall has been detected last, though both sides are *)
(* checked, one may be tried anew, and what is known is kept in statics.    *)
KeepsToAWall ==
    st.maze \in {"LOOP", "TURN_WALL", "CONDITION", "CORNER", "TO_BRANCH", "CROSS_BRANCH"}
        /\ beh["maze"].subResult = RUNNING => st.judged = st.follow
=============================================================================
