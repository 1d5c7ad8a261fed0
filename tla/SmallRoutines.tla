------------------------------ MODULE SmallRoutines ------------------------------
(***************************************************************************)
(* The smaller behaviours of the robot, most of them examples and tests     *)
(* (bot-logic/behaviour_measure_distance.c, _follow_object.c, _avoid_col.c, *)
(* _avoid_border.c, _hang_on.c, _gotoxy.c, _goto.c, _simple.c,              *)
(* _drive_square.c, _turn_test.c, _test_encoder.c, _hw_test.c,              *)
(* _get_utilization.c, _prototype.c and _delay.c).  Each Init below is a    *)
(* part by itself; st holds its static variables and the world around.      *)
(***************************************************************************)
EXTENDS Integers, Sequences, SequencesExt

CONSTANTS
    MEASURES,   \* max_measure, 4 in the code
    REACH,      \* target of a drive to a place, at most so many cells off
    INT_MAX,    \* largest integer of the machine
    ANGLES,     \* steps of a full turn, 36 in the code
    TURNS,      \* turns of one angle, 10 in the code
    SIGHT       \* seconds without an object before the robot drives back, 10

VARIABLES beh, st

Prio == [simple |-> 252, simple2 |-> 251, avoid_border |-> 249, avoid_col |-> 248, hang_on |-> 245,
         utilization |-> 244, delay |-> 200, turn |-> 150, drive_distance |-> 149, goto |-> 148, gotoxy |-> 147,
         goto_pos |-> 146, measure |-> 140, check |-> 139, square |-> 51, follow_object |-> 40, drive_stack |-> 33,
         turn_test |-> 28, test_encoder |-> 20, hw_test |-> 10, prototype |-> 0]
Names == DOMAIN Prio

INSTANCE Routine WITH Behaviours <- Names, prio <- Prio, NoBeh <- "none", Unlisted <- "unlisted"

AllIdle == beh = [b \in Names |-> Idle]
SmallTypeOK == beh \in [Names -> Record]

Infinite == 9    \* SENS_IR_INFINITE
Abs(x) == IF x < 0 THEN -x ELSE x
Sign(x) == IF x < 0 THEN -1 ELSE IF x > 0 THEN 1 ELSE 0

-----------------------------------------------------------------------------
(* Is there an obstacle within range?  The pair of sensors has one value    *)
(* here; readings are those taken since the measurement began.  Zero, "not  *)
(* measured yet" to the check, is no reading.                               *)
RANGE == 2
MAX_DIFF == 1

CheckInit ==
    /\ AllIdle
    /\ st = [left |-> 0, last_toggle |-> 0, toggle |-> 0, value |-> 1, measure_count |-> 0,
             readings |-> <<>>, verdict |-> "none", stale |-> FALSE]

bot_check_distance ==
    /\ Quiet
    /\ beh' = calls(beh, "none", "check")
    /\ st' = [st EXCEPT !.verdict = "none", !.stale = st.left # 0]

bot_measure_distance ==
    Calls([st EXCEPT !.last_toggle = st.toggle, !.left = st.value, !.measure_count = 0,
                     !.readings = <<st.value>>], "check", "measure")

LastN(s, n) == SubSeq(s, 1 + (IF Len(s) > n THEN Len(s) - n ELSE 0), Len(s))

bot_measure_distance_behaviour ==
    /\ Active("measure")
    /\ IF st.measure_count = MEASURES - 1 THEN Returns(st, "measure")
       ELSE /\ st.last_toggle # st.toggle
            /\ Goes([st EXCEPT !.last_toggle = st.toggle, !.left = st.value,
                               !.measure_count = IF Abs(st.left - st.value) <= MAX_DIFF THEN @ + 1 ELSE 0,
                               !.readings = LastN(Append(@, st.value), MEASURES)])

bot_check_distance_behaviour ==
    /\ Active("check")
    /\ IF st.left = 0 THEN bot_measure_distance
       ELSE /\ beh' = exit_behaviour(beh, "check", IF st.left <= RANGE THEN SUCCESS ELSE FAIL)
            /\ st' = [st EXCEPT !.left = 0, !.verdict = IF st.left <= RANGE THEN "near" ELSE "far"]

NewReading ==
    \E v \in 1 .. RANGE + 2 : Goes([st EXCEPT !.toggle = 1 - @, !.value = v])

CheckNext ==
    \/ bot_check_distance
    \/ bot_measure_distance_behaviour
    \/ bot_check_distance_behaviour
    \/ NewReading
    \/ EmergencyStop

(* The answer of a check rests on as many readings in a row as are asked    *)
(* for, each close to the one before, and is about the last one.  A check   *)
(* that begins when another was stopped half-way answers at once with what  *)
(* that one has left in its static variable (behaviour_measure_distance.c:  *)
(* 101).                                                                    *)
CheckIsMeasured ==
    st.verdict # "none" /\ ~st.stale =>
        /\ Len(st.readings) = MEASURES
        /\ \A i \in 2 .. MEASURES : Abs(st.readings[i] - st.readings[i - 1]) <= MAX_DIFF
        /\ st.verdict = IF Last(st.readings) <= RANGE THEN "near" ELSE "far"

-----------------------------------------------------------------------------
(* Following an object.  seen is what the two sensors see, lastMove the     *)
(* seconds since the clock was set; lost counts those without an object.    *)
ObjectInit ==
    /\ AllIdle
    /\ st = [state |-> 0, distToggle |-> 0, toggle |-> 0, seen |-> TRUE, moved |-> FALSE,
             lastMove |-> 0, firstLost |-> FALSE, drives |-> FALSE]

bot_follow_object ==
    /\ Quiet /\ beh' = calls(beh, "none", "follow_object")
    /\ st' = [st EXCEPT !.state = 0, !.drives = FALSE]

(* Nothing in sight: back on the recorded way when the time is over. *)
Alone ==
    IF ~st.moved THEN Goes([st EXCEPT !.moved = TRUE, !.lastMove = 0, !.firstLost = TRUE])
    ELSE IF st.lastMove >= SIGHT
         THEN Calls([st EXCEPT !.moved = FALSE, !.drives = TRUE], "follow_object", "drive_stack")
         ELSE Goes(st)

bot_follow_object_behaviour ==
    /\ Active("follow_object")
    /\ \/ st.state = 0 /\ st.distToggle # st.toggle /\ Goes([st EXCEPT !.distToggle = st.toggle, !.state = 1])
       \/ st.state = 1 /\ ~st.seen /\ Alone
       \/ st.state = 1 /\ st.seen /\ Goes([st EXCEPT !.state = 0])    \* update_speed

Second ==
    /\ Active("follow_object")
    /\ \E seen \in BOOLEAN :
         Goes([st EXCEPT !.toggle = 1 - @, !.seen = seen,
                         !.lastMove = IF @ <= SIGHT THEN @ + 1 ELSE @])

ObjectNext ==
    \/ bot_follow_object
    \/ bot_follow_object_behaviour
    \/ Second
    \/ Active("drive_stack") /\ beh' = return_from_behaviour(beh, "drive_stack") /\ st' = [st EXCEPT !.drives = FALSE]
    \/ Active("follow_object") /\ EmergencyStop

(* The robot drives back only with nothing in sight, and when the object    *)
(* was lost for the first time long enough ago.  What it has seen in        *)
(* between does not set the clock anew (behaviour_follow_object.c:124).     *)
BackAfterSight == st.drives => ~st.moved /\ st.lastMove >= SIGHT /\ st.firstLost

-----------------------------------------------------------------------------
(* Zones of distance, 0 the closest, with the constants of bot-local.h in    *)
(* fifties of millimetres; the guards against borders and getting stuck.    *)
COL_CLOSEST == 4
COL_NEAR == 6
COL_FAR == 8
CLEAR == 3

ZoneOf(d) == IF d < COL_CLOSEST THEN 0 ELSE IF d < COL_NEAR THEN 1 ELSE IF d < COL_FAR THEN 2 ELSE CLEAR

(* The zone of a sensor.  Halves of the distances, for the way back into a   *)
(* wider zone, lie within the closest one and are never reached (l. 65).     *)
col_zone(zone, d) ==
    IF d < COL_CLOSEST THEN 0
    ELSE IF d < COL_NEAR /\ zone > 0 THEN 1
    ELSE IF d < COL_FAR /\ zone > 1 THEN 2
    ELSE IF 2 * d < COL_NEAR THEN 1
    ELSE IF 2 * d < COL_FAR THEN 2 ELSE CLEAR

GuardInit ==
    /\ beh = [b \in Names |-> IF b \in {"avoid_col", "avoid_border", "hang_on"} THEN [Idle EXCEPT !.active = TRUE] ELSE Idle]
    /\ st = [dist |-> [l |-> 9, r |-> 9], last |-> [l |-> 9, r |-> 9], rounds |-> [l |-> 0, r |-> 0],
             zone |-> [l |-> CLEAR, r |-> CLEAR]]

(* An obstacle on one side slows down the wheel of the other side.  When     *)
(* both are in the closest zone and the robot drives forward, it turns.      *)
bot_avoid_col_behaviour ==
    LET zone == [s \in {"l", "r"} |-> col_zone(st.zone[s], st.dist[s])]
        rounds == [s \in {"l", "r"} |-> IF st.last[s] # st.dist[s] THEN 1 ELSE IF st.rounds[s] = 0 THEN 1 ELSE 2]
        s1 == [st EXCEPT !.zone = zone, !.last = st.dist, !.rounds = rounds]
    IN  /\ Active("avoid_col")
        /\ Goes(s1) \/ (zone.l = 0 /\ zone.r = 0 /\ Calls(s1, "avoid_col", "turn"))

(* The handlers registered for an emergency; that of hang_on drives back. *)
start_registered_emergency_procs == IF Active("hang_on") THEN calls(beh, "none", "drive_distance") ELSE beh

bot_avoid_border_behaviour == Active("avoid_border") /\ beh' = start_registered_emergency_procs /\ UNCHANGED st

(* The mouse sensor sees less way than the encoders. *)
bot_hang_on_behaviour == Active("hang_on") /\ beh' = start_registered_emergency_procs /\ UNCHANGED st

Driven ==
    \E l, r \in {2, 5, 7, 9} : Goes([st EXCEPT !.dist = [l |-> l, r |-> r]])

GuardNext ==
    \/ bot_avoid_col_behaviour
    \/ bot_avoid_border_behaviour
    \/ bot_hang_on_behaviour
    \/ Driven
    \/ \E b \in {"turn", "drive_distance"} : Ends(b, {SUCCESS})

(* A sensor that shows the same distance for two rounds has its zone right,  *)
(* wherever it comes from; no obstacle that stays is overlooked.            *)
ZonesSettle == \A s \in {"l", "r"} : st.rounds[s] = 2 => st.zone[s] = ZoneOf(st.last[s])

-----------------------------------------------------------------------------
(* Driving to a place given by its coordinates, in cells of 90 mm, from the  *)
(* origin; the robot drives into the quadrant it has turned to, with some    *)
(* drift.  On the ATmega an integer has 16 bits.                            *)
CELL == 90
wrapped(n) == IF n > INT_MAX THEN n - 2 * (INT_MAX + 1) ELSE IF n < -INT_MAX THEN n + 2 * (INT_MAX + 1) ELSE n

PlacesInit ==
    /\ AllIdle
    /\ st = [gotoState |-> "INITIAL_TURN", target |-> <<0, 0>>, initial |-> <<0, 0>>, at |-> <<0, 0>>,
             quadrant |-> <<0, 0>>]

Diff(i) == st.target[i] - st.at[i]

bot_gotoxy ==
    /\ Quiet /\ st.at = <<0, 0>> /\ beh' = asks(beh, "none", "gotoxy")
    /\ \E x, y \in -REACH .. REACH :
         st' = [st EXCEPT !.target = <<x, y>>, !.initial = <<x, y>>, !.gotoState = "INITIAL_TURN"]

Passed(i) == wrapped(CELL * Diff(i) * CELL * st.initial[i]) < 0

TurnsThere(s) == Calls([s EXCEPT !.quadrant = <<Sign(Diff(1)), Sign(Diff(2))>>], "gotoxy", "turn")

bot_gotoxy_behaviour ==
    /\ Active("gotoxy")
    /\ \/ (Passed(1) \/ Passed(2) \/ st.gotoState = "REACHED_POS")
          /\ Returns([st EXCEPT !.gotoState = "INITIAL_TURN"], "gotoxy")
       \/ /\ ~Passed(1) /\ ~Passed(2)
          /\ \/ st.gotoState = "INITIAL_TURN" /\ TurnsThere([st EXCEPT !.gotoState = "GOTO_LOOP"])
             \/ /\ st.gotoState = "GOTO_LOOP" /\ (Diff(1) = 0 \/ Diff(2) = 0)
                /\ TurnsThere([st EXCEPT !.gotoState = "CORRECT_HEAD"])
             \/ /\ st.gotoState = "CORRECT_HEAD" /\ Diff(1) = 0 /\ Diff(2) = 0
                /\ Goes([st EXCEPT !.gotoState = "REACHED_POS"])

Rolls ==
    /\ Active("gotoxy") /\ st.gotoState \in {"GOTO_LOOP", "CORRECT_HEAD"}
    /\ \E dx, dy \in -1 .. 1 :
         /\ <<dx, dy>> # <<0, 0>> /\ dx * st.quadrant[1] >= 0 /\ dy * st.quadrant[2] >= 0
         /\ \A i \in 1 .. 2 : Abs(st.at[i] + <<dx, dy>>[i]) <= REACH + 1
         /\ Goes([st EXCEPT !.at = <<@[1] + dx, @[2] + dy>>])

PlacesNext ==
    \/ bot_gotoxy
    \/ bot_gotoxy_behaviour
    \/ Rolls
    \/ Ends("turn", {SUCCESS})
    \/ Quiet /\ st.at # <<0, 0>> /\ Goes([st EXCEPT !.at = <<0, 0>>, !.target = <<0, 0>>])

(* The robot does not end its way before it is at the place, or past it in  *)
(* one of the coordinates.  With 16 bits the product of two ways of more    *)
(* than 181 mm overflows, and it stays where it is                           *)
(* (behaviour_gotoxy.c:55).                                                 *)
ArrivesThere ==
    ~Active("gotoxy") /\ ~Active("turn") =>
        st.at = st.target \/ \E i \in 1 .. 2 : Sign(Diff(i)) * Sign(st.initial[i]) = -1

-----------------------------------------------------------------------------
(* The wheels by their encoders: a wheel is done when it has been at its      *)
(* target, or has turned round, so many times (MOT_GOTO_MAX).  Ways are in   *)
(* units of GOTO_REACHED, and a wheel may overshoot by its speed.           *)
MOT_GOTO_MAX == 4
Wheels == {"l", "r"}

WheelsInit ==
    /\ AllIdle
    /\ st = [goto |-> [w \in Wheels |-> 0], mot |-> [w \in Wheels |-> 0], enc |-> [w \in Wheels |-> 0],
             back |-> [w \in Wheels |-> FALSE], wish |-> [w \in Wheels |-> 0]]

bot_goto ==
    /\ Quiet /\ beh' = calls(beh, "none", "goto")
    /\ \E l \in {0, 2}, r \in {-4, 0} :
         st' = [st EXCEPT !.goto = [l |-> l, r |-> r], !.mot = [w \in Wheels |-> 0]]

(* The speed of one wheel: slower the nearer it is. *)
WishFor(diff) == IF diff = 0 THEN 0 ELSE -Sign(diff) * (IF Abs(diff) <= 2 THEN 1 ELSE 2)

Counts(wish, back) == IF wish = 0 \/ (wish < 0 /\ ~back) \/ (wish > 0 /\ back) THEN 1 ELSE 0

bot_goto_behaviour ==
    LET starts == \A w \in Wheels : st.mot[w] = 0
        s == IF starts THEN [st EXCEPT !.mot = [w \in Wheels |-> IF st.goto[w] # 0 THEN MOT_GOTO_MAX ELSE 0],
                                       !.enc = [w \in Wheels |-> 0]]
             ELSE st
        wish == [w \in Wheels |-> IF s.mot[w] > 0 THEN WishFor(s.enc[w] - s.goto[w]) ELSE 0]
        mot == [w \in Wheels |-> IF s.mot[w] > 0 THEN s.mot[w] - Counts(wish[w], s.back[w]) ELSE 0]
        t == [s EXCEPT !.mot = mot, !.wish = wish]
    IN  /\ Active("goto")
        /\ IF \A w \in Wheels : mot[w] = 0 THEN Returns(t, "goto") ELSE Goes(t)

(* The motors take up their direction and turn the encoders. *)
Turned ==
    /\ Active("goto") /\ \E w \in Wheels : st.wish[w] # 0
    /\ \A w \in Wheels : Abs(st.enc[w] + st.wish[w]) <= 6
    /\ Goes([st EXCEPT !.enc = [w \in Wheels |-> @[w] + st.wish[w]],
                       !.back = [w \in Wheels |-> IF st.wish[w] = 0 THEN @[w] ELSE st.wish[w] < 0]])

WheelsNext == bot_goto \/ bot_goto_behaviour \/ Turned \/ (Active("goto") /\ EmergencyStop)
-----------------------------------------------------------------------------
(* Examples and tests that go through a few steps with the drives.  The user *)
(* has chosen one.  heading counts the steps the robot has turned and  *)
(* at the corners of the square it has been to, when all goes well.         *)
Clients == {"simple", "simple2", "square", "turn_test", "test_encoder", "hw_test", "prototype"}
Drives == {"turn", "drive_distance", "goto_pos"}

StepsInit ==
    /\ AllIdle
    /\ \E version \in {"drive", "goto_pos"}, client \in Clients :
         /\ version = "drive" \/ client = "square"
         /\ st = [state |-> 0, client |-> client, version |-> version,
                  light |-> 0, dir |-> 0, max_dir |-> 0, seen |-> <<>>, heading |-> 0,         \* simple2
                  pause1 |-> FALSE, pause2 |-> FALSE, rested |-> TRUE, stale |-> FALSE, corner |-> 0,             \* square
                  degrees |-> 0, turn_count |-> 0, err |-> <<>>, mean |-> <<>>,                 \* turn_test
                  util |-> 0, first |-> FALSE, second |-> FALSE]                                \* utilization

In(b, state) == Active(b) /\ st.state = state
To(state) == [st EXCEPT !.state = state]

bot_simple_behaviour ==
    \/ In("simple", 0) /\ Calls(To(1), "simple", "drive_distance")
    \/ In("simple", 1) /\ Calls(To(0), "simple", "turn")

bot_prototype_behaviour == \E n \in 0 .. 1 : In("prototype", n) /\ Goes(To(1 - n))

(* A full turn to see where it is brightest; smaller values are brighter.  *)
Brightest(seen) == CHOOSE i \in DOMAIN seen : /\ \A j \in DOMAIN seen : seen[i] <= seen[j]
                                              /\ \A j \in 1 .. i - 1 : seen[j] > seen[i]

SearchLight(light) ==
    LET seen == Append(st.seen, light)
        max_dir == Brightest(seen) - 1
        s == [st EXCEPT !.seen = seen, !.max_dir = max_dir]
    IN  IF st.dir < ANGLES
        THEN Calls([s EXCEPT !.dir = @ + 1, !.heading = @ + 1], "simple2", "turn")
        ELSE Calls([s EXCEPT !.state = 2, !.heading = @ + max_dir - (IF st.light = 0 THEN 0 ELSE ANGLES \div 2)],
                   "simple2", "turn")

bot_simple2_behaviour ==
    \/ In("simple2", 0) /\ Goes([To(1) EXCEPT !.seen = <<>>, !.max_dir = 0, !.dir = 0, !.heading = 0])
    \/ In("simple2", 1) /\ \E light \in 1 .. 2 : SearchLight(light)
    \/ In("simple2", 2) /\ Calls(To(0), "simple2", "goto_pos")      \* bot_goto_dist
    \/ In("simple2", 2) /\ Goes(To(3))                              \* an obstacle ahead
    \/ In("simple2", 3) /\ Returns(st, "simple2")

(* BLOCK_BEHAVIOUR: a pause is asked for once, and again if it is refused. *)
Pauses(b, s, flag, next) ==
    IF s[flag] THEN Goes([next EXCEPT ![flag] = FALSE])
    ELSE LET t == asks(beh, b, "delay")
             granted == ~Busy(beh, "delay")
         IN  beh' = t /\ st' = [s EXCEPT ![flag] = granted, !.rested = IF b = "square" THEN @ \/ granted ELSE @]

Moves(s) == [s EXCEPT !.rested = FALSE]

(* Corners of the square by their number, and where the robot turns to there. *)
bot_drive_square_behaviour ==
    IF st.version = "drive"
    THEN \/ In("square", 0) /\ Calls(Moves(To(2)), "square", "drive_distance")
         \/ In("square", 2) /\ Pauses("square", st, "pause1", To(1))
         \/ In("square", 1) /\ Calls(Moves(To(3)), "square", "turn")
         \/ In("square", 3) /\ Pauses("square", st, "pause2", To(0))
    ELSE \E n \in 0 .. 3 :
            In("square", n) /\ Calls([To((n + 1) % 4) EXCEPT !.corner = n + 1, !.heading = (n + 1) % 4],
                                     "square", "goto_pos")

(* The error of so many turns of each angle is averaged. *)
bot_turn_test_behaviour ==
    /\ In("turn_test", 0)
    /\ IF st.degrees = 0 THEN Returns([st EXCEPT !.err = <<>>], "turn_test")
       ELSE IF st.turn_count < TURNS
            THEN Calls([st EXCEPT !.turn_count = @ + 1,
                                  !.err = IF st.turn_count > 0 THEN LastN(Append(@, st.degrees), TURNS + 1) ELSE @], "turn_test", "turn")
            ELSE Goes([st EXCEPT !.mean = IF st.stale THEN <<>> ELSE Append(st.err, st.degrees), !.turn_count = 0,
                                 !.err = <<>>, !.stale = FALSE, !.degrees = IF @ > 65 THEN @ - 20 ELSE @ - 5])

(* Forward and back for random times, then home.  The wheels are looked at   *)
(* by the user; so are the lamps and motors in the test of the hardware.    *)
bot_test_encoder_behaviour ==
    \/ \E n \in 0 .. 3 : In("test_encoder", n) /\ (Goes(st) \/ Goes(To(n + 1)))
    \/ In("test_encoder", 4) /\ Calls(To(0), "test_encoder", "goto_pos")

(* 0 shows the sensors; the motors run one way, the other way, and stop. *)
bot_hw_test_behaviour ==
    \/ In("hw_test", 0) /\ Goes(st)
    \/ \E n \in 1 .. 2 : In("hw_test", n) /\ (Goes(st) \/ Goes(To(n + 1)))
    \/ In("hw_test", 3) /\ Returns(st, "hw_test")

(* The load of the processor while the client runs, and until the map is quiet. *)
SetUtil(n) == [st EXCEPT !.util = n]
bot_get_utilization_behaviour ==
    /\ Active("utilization")
    /\ \/ st.util = 0 /\ Active(st.client) /\ Goes(SetUtil(1))
       \/ st.util = 1 /\ ~Active(st.client) /\ Goes(SetUtil(2))
       \/ st.util = 2 /\ (Goes(st) \/ Goes(SetUtil(3)))
       \/ st.util = 3 /\ Pauses("utilization", st, "first", SetUtil(4))
       \/ st.util = 4 /\ Pauses("utilization", st, "second", SetUtil(0))

bot_get_utilization ==
    /\ ~Active("utilization") /\ beh' = activateBehaviour(beh, "none", "utilization")
    /\ st' = SetUtil(0)

(* The functions that start a behaviour, and the variables they set. *)
FIRST_ANGLE == 80    \* 360 in the code

bot_simple2(light) == [st EXCEPT !.state = 0, !.light = light]
bot_drive_square_len ==
    [st EXCEPT !.state = 0, !.corner = 0, !.heading = 0, !.rested = TRUE, !.stale = st.pause1 \/ st.pause2]
bot_turn_test ==
    [st EXCEPT !.state = 0, !.degrees = FIRST_ANGLE, !.turn_count = 0, !.mean = <<>>,
               !.stale = st.err # <<>>]
bot_hw_test(mode) == [st EXCEPT !.state = mode]

StartStep ==
    /\ \A b \in Clients \cup Drives \cup {"delay"} : ~Active(b)
    /\ beh' = IF st.client = "hw_test" THEN activateBehaviour(beh, "none", "hw_test") ELSE calls(beh, "none", st.client)
    /\ CASE st.client = "square" -> st' = bot_drive_square_len
         [] st.client = "turn_test" -> st' = bot_turn_test
         [] st.client = "simple2" -> \E light \in 0 .. 1 : st' = bot_simple2(light)
         [] st.client = "hw_test" -> \E mode \in 0 .. 1 : st' = bot_hw_test(mode)
         [] OTHER -> st' = To(0)

StepsNext ==
    \/ bot_simple_behaviour
    \/ bot_simple2_behaviour
    \/ bot_drive_square_behaviour
    \/ bot_turn_test_behaviour
    \/ bot_test_encoder_behaviour
    \/ bot_hw_test_behaviour
    \/ bot_prototype_behaviour
    \/ bot_get_utilization_behaviour
    \/ bot_get_utilization
    \/ StartStep
    \/ \E b \in Drives \cup {"delay"} : Ends(b, {SUCCESS})
    \/ EmergencyStop

(* simple2 turns to the brightest direction it has seen in its full turn, or *)
(* away from that; the turn test averages the turns of one angle; the square *)
(* rests between its moves.  Left-overs of a test that was stopped (err, the *)
(* state of the pause) are not cleared by the next start                     *)
(* (behaviour_turn_test.c:84, behaviour_delay.h:50).                        *)
StepsAsMeant ==
    /\ In("simple2", 2) =>
          LET towards == (st.heading + (IF st.light = 0 THEN 0 ELSE ANGLES \div 2)) % ANGLES
          IN  \E i \in DOMAIN st.seen : (i - 1) % ANGLES = towards /\ \A j \in DOMAIN st.seen : st.seen[i] <= st.seen[j]
    /\ In("turn_test", 0) /\ ~st.stale /\ st.mean # <<>> =>
          Len(st.mean) = TURNS /\ \A i, j \in DOMAIN st.mean : st.mean[i] = st.mean[j]
    /\ \E n \in 0 .. 1 : In("square", n) /\ st.version = "drive" /\ ~st.stale => st.rested
=============================================================================
