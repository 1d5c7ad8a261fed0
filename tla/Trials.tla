--------------------------------- MODULE Trials ---------------------------------
(***************************************************************************)
(* Behaviours that measure: the calibration of the distance sensors and of  *)
(* the PID controller, the search for beacons, the patterns for the neural  *)
(* net and the slalom (bot-logic/behaviour_calibrate_sharps.c,              *)
(* _calibrate_pid.c, _scan_beacons.c, _drive_neuralnet.c, _neuralnet.c and  *)
(* _olympic.c).  Each runs for itself; st holds its static variables, and   *)
(* what the world around it is like.                                        *)
(***************************************************************************)
EXTENDS Integers, Sequences, SequencesExt

CONSTANTS
    STEPS,       \* STEP_COUNT of the sensors' table
    READINGS,    \* readings to one mean value, 16 in the code
    MAX_KI, MAX_KD,  \* max_Ki and max_Kd, 32 and 64
    NO_PAIRS     \* patterns the net can learn

VARIABLES beh, st

Prio == [turn |-> 150, drive_distance |-> 149, goto |-> 146, drive_nn |-> 135, check_sector |-> 134,
         avoid_col |-> 248, olympic |-> 60, explore |-> 55, slalom |-> 54, beacons |-> 32, pid |-> 30, sharps |-> 29]
Names == DOMAIN Prio

INSTANCE Routine WITH Behaviours <- Names, prio <- Prio, NoBeh <- "none", Unlisted <- "unlisted"

TrialsTypeOK == beh \in [Names -> Record]

AllIdle == beh = [b \in Names |-> Idle]

-----------------------------------------------------------------------------
(* The table of the distance sensors.  The robot tells a distance and waits *)
(* for a key; the user first puts the robot there.  A sensor turns its      *)
(* toggle with every new value; value is the place it was measured at.      *)
FIRST_DIST == 7

SharpsInit ==
    /\ AllIdle
    /\ st = [job |-> "none", last |-> "none", last_toggle |-> 0, toggle |-> 0, value |-> 0, place |-> 0,
             measure_count |-> 0, sum |-> {}, mean |-> {}, distance |-> 0, count |-> 0,
             userinput_done |-> FALSE, straight |-> FALSE,
             buffer |-> [i \in 0 .. STEPS - 1 |-> [dist |-> 0, voltage |-> {}]],
             table |-> <<>>]              \* sensDistDataL and R in the EEPROM

wait_for_userinput(s) == [s EXCEPT !.last = s.job, !.job = "wait"]

(* Discarded at first is one reading here, four in the code. *)
bot_calibrate_sharps ==
    /\ ~Active("sharps")
    /\ Calls(wait_for_userinput(
                [st EXCEPT !.last_toggle = 1, !.measure_count = -1, !.distance = FIRST_DIST, !.sum = {},
                           !.count = 0, !.userinput_done = FALSE, !.straight = TRUE, !.job = "measure"]),
             "none", "sharps")

wait_for_userinput_helper ==
    IF st.userinput_done THEN [st EXCEPT !.userinput_done = FALSE, !.job = st.last] ELSE st

(* One more reading counts when the toggle has changed. *)
measure_distance ==
    LET s == IF st.measure_count = 0 THEN [st EXCEPT !.sum = {}] ELSE st
        t == [s EXCEPT !.last_toggle = st.toggle, !.measure_count = @ + 1,
                       !.sum = @ \cup {[at |-> st.value, straight |-> st.straight]}]
    IN  IF st.last_toggle = st.toggle THEN s
        ELSE IF t.measure_count = READINGS
             THEN [t EXCEPT !.mean = t.sum, !.last_toggle = 1, !.job = "update", !.measure_count = 0]
             ELSE t

update_data ==
    LET s == [st EXCEPT !.buffer[st.count] = [dist |-> st.distance, voltage |-> st.mean]]
    IN  IF st.count # STEPS - 1 THEN [s EXCEPT !.job = "goto"]
        ELSE [s EXCEPT !.count = @ + 1, !.job = "none"]

goto_next_pos ==
    wait_for_userinput([st EXCEPT !.distance = IF @ < 10 THEN 10 ELSE @ + 5, !.count = @ + 1, !.job = "measure"])

bot_calibrate_sharps_behaviour ==
    /\ Active("sharps")
    /\ \/ st.job = "wait" /\ Goes(wait_for_userinput_helper)
       \/ st.job = "measure" /\ Goes(measure_distance)
       \/ st.job = "update" /\ Goes(update_data)
       \/ st.job = "goto" /\ Goes(goto_next_pos)
       \/ st.job = "none" /\ Returns([st EXCEPT !.straight = FALSE, !.table = st.buffer], "sharps")

(* The display asks for the key only while the behaviour waits; the key OK. *)
bot_calibrate_sharps_display ==
    /\ st.count # STEPS /\ st.job = "wait" /\ st.place = st.distance /\ st.value = st.place
    /\ Goes([st EXCEPT !.userinput_done = TRUE])

UserPuts == st.job = "wait" /\ ~st.userinput_done /\ st.place # st.distance /\ Goes([st EXCEPT !.place = st.distance])

SensorMeasures == Goes([st EXCEPT !.toggle = 1 - @, !.value = st.place])

SharpsNext ==
    \/ bot_calibrate_sharps
    \/ bot_calibrate_sharps_behaviour
    \/ bot_calibrate_sharps_display
    \/ UserPuts
    \/ SensorMeasures
    \/ EmergencyStop

(* A table that reaches the EEPROM is whole: every row has a distance of    *)
(* its own, and all its readings, taken as plain voltages, come from there. *)
TableIsMeasured ==
    st.table # <<>> =>
        /\ \A i \in 0 .. STEPS - 1 :
              st.table[i].voltage = {[at |-> st.table[i].dist, straight |-> TRUE]}
        /\ \A i \in 1 .. STEPS - 1 : st.table[i].dist > st.table[i - 1].dist

-----------------------------------------------------------------------------
(* The parameters of the PID controller: a wide search for Kp, then Kp and  *)
(* Ki together in the region found, then Kp and Kd alone.  The numbers have *)
(* eight bits.                                                              *)
MAX_KP == 126

Int8(n) == ((n + 128) % 256) - 128

Trio == [Kp |-> st.Kp, Ki |-> st.Ki, Kd |-> st.Kd]

PidInit ==
    /\ AllIdle
    /\ st = [job |-> "none", last |-> "none", Kp |-> 70, Ki |-> 1, Kd |-> 0,
             best |-> [Kp |-> 0, Ki |-> 0, Kd |-> 0], none_yet |-> TRUE,   \* best_weight is FLT_MAX
             Kp_region_end |-> 0, drives |-> FALSE, tried |-> [Kp |-> 0, Ki |-> 0, Kd |-> 0]]

bot_calibrate_pid ==
    /\ ~Active("pid")
    /\ Calls([st EXCEPT !.best = [Kp |-> 0, Ki |-> 0, Kd |-> 0], !.Kp = 10, !.Ki = 1, !.Kd = 0,
                        !.none_yet = TRUE, !.job = "find_Kp_region", !.drives = FALSE], "none", "pid")

(* The time of one trial is up: its weight is compared with the best one,   *)
(* the next one begins when the robot stands.  Without an earlier one any   *)
(* weight is better.                                                        *)
compare_weightings(better, param, step) ==
    [st EXCEPT !.best = IF better \/ st.none_yet THEN Trio ELSE @, !.none_yet = FALSE,
               ![param] = Int8(@ + step), !.last = st.job, !.job = "wait_for_stop", !.drives = FALSE]

find_Kp_region(s) ==
    IF s.Kp < 0 \/ s.Kp >= MAX_KP
    THEN [s EXCEPT !.job = "find_best_Kp_Ki", !.Kp = IF s.best.Kp > 10 THEN s.best.Kp - 10 ELSE 0,
                   !.Kp_region_end = IF s.best.Kp < 116 THEN s.best.Kp + 10 ELSE 120,
                   !.Ki = 1, !.none_yet = TRUE]
    ELSE s

find_best_Kp_Ki(s) ==
    LET t == IF s.Kp > s.Kp_region_end THEN [s EXCEPT !.Kp = Int8(@ - 22), !.Ki = @ + 1] ELSE s
    IN  IF t.Ki < 0 \/ t.Ki > MAX_KI
        THEN [t EXCEPT !.job = "find_best_Kp", !.Kp = 10, !.Ki = t.best.Ki, !.none_yet = TRUE]
        ELSE t

find_best_Kp(s) ==
    IF s.Kp < 0 \/ s.Kp > MAX_KP
    THEN [s EXCEPT !.job = "find_best_Kd", !.Kp = s.best.Kp, !.Kd = 0, !.none_yet = TRUE]
    ELSE s

find_best_Kd(s) ==
    IF s.Kd < 0 \/ s.Kd > MAX_KD THEN [s EXCEPT !.job = "none", !.Kd = s.best.Kd] ELSE s

(* A round within a trial drives; tried is the last trio that did. *)
bot_calibrate_pid_behaviour ==
    /\ Active("pid")
    /\ \/ st.job = "wait_for_stop" /\ Goes([st EXCEPT !.job = st.last])
       \/ st.job \notin {"wait_for_stop", "none"} /\ ~st.drives /\ Goes([st EXCEPT !.drives = TRUE, !.tried = Trio])
       \/ /\ st.drives
          /\ \E better \in BOOLEAN :
                \/ st.job = "find_Kp_region" /\ Goes(find_Kp_region(compare_weightings(better, "Kp", 10)))
                \/ st.job = "find_best_Kp_Ki" /\ Goes(find_best_Kp_Ki(compare_weightings(better, "Kp", 2)))
                \/ st.job = "find_best_Kp" /\ Goes(find_best_Kp(compare_weightings(better, "Kp", 2)))
                \/ st.job = "find_best_Kd" /\ Goes(find_best_Kd(compare_weightings(better, "Kd", 1)))
       \/ st.job = "none" /\ Returns(st, "pid")

PidNext == bot_calibrate_pid \/ bot_calibrate_pid_behaviour

(* The robot never drives with a parameter that has gone through zero or    *)
(* above its limit, and is left with parameters it has tried.               *)
ParametersAreTried ==
    /\ st.tried.Kp \in 0 .. MAX_KP /\ st.tried.Ki \in 0 .. MAX_KI /\ st.tried.Kd \in 0 .. MAX_KD
    /\ Active("pid") /\ st.job = "none" => Trio = st.best

-----------------------------------------------------------------------------
(* The search for beacons: the robot turns on the spot and notes the middle *)
(* between the heading a beacon appears at and the one it has gone at.      *)
(* Headings are counted in half steps of one round's turn.                  *)
CIRCLE == 28
Half == CIRCLE \div 2

(* Where in the world each beacon is seen. *)
World == [b1 |-> {27, 0, 1}, b2 |-> {6, 7}, b3 |-> {12, 13}]

MAX_BEACONS == 3

BeaconsInit ==
    /\ AllIdle
    /\ st = [state |-> "END", found |-> <<>>, appearance |-> 0, disappeared_counter |-> 0, turned |-> 0,
             last_heading |-> 0, heading |-> 0, lost |-> FALSE, pos |-> <<>>, absent |-> "none"]

bot_scan_beacons ==
    /\ ~Active("beacons")
    /\ \E h \in {0, 10, 16}, b \in {"none", "b2"} :
          Calls([st EXCEPT !.state = "SEARCH_APPEARANCE", !.found = <<>>, !.turned = 0, !.pos = <<>>,
                           !.heading = h, !.last_heading = h, !.absent = b], "none", "beacons")

InView(h) == {b \in DOMAIN World \ {st.absent} : h \in World[b]}

(* sensBPS; a single reading may miss the beacon. *)
Readings(h) ==
    LET seen == InView(h)
    IN  IF seen = {} THEN {"none"} ELSE IF st.lost THEN seen ELSE seen \cup {"none"}

Turn(n) == n % CIRCLE

SEARCH_APPEARANCE(s, b) ==
    LET t == [s EXCEPT !.last_heading = s.heading, !.turned = @ + Turn(s.heading - s.last_heading)]
        u == IF t.turned > CIRCLE THEN [t EXCEPT !.state = "END"] ELSE t
    IN  IF b = "none" \/ b \in {s.found[i].id : i \in DOMAIN s.found} THEN u
        ELSE [u EXCEPT !.found = Append(@, [id |-> b, heading |-> 0]), !.appearance = s.heading,
                       !.disappeared_counter = 0, !.state = "SEARCH_DISAPPEARANCE"]

(* Mutant of last_beacon_heading: the middle is not brought back over north. *)
MeanWithoutWrap(s) == (s.heading + s.appearance) \div 2

last_beacon_heading(s) == Turn(s.heading - Turn(s.heading - s.appearance) \div 2)

SEARCH_DISAPPEARANCE(s, b) ==
    IF b # "none" THEN [s EXCEPT !.disappeared_counter = 0]
    ELSE IF s.disappeared_counter = 0 THEN [s EXCEPT !.disappeared_counter = 1]
    ELSE [s EXCEPT !.disappeared_counter = 2, !.found[Len(s.found)].heading = last_beacon_heading(s),
                   !.state = IF Len(s.found) = MAX_BEACONS THEN "CALC_POSITION" ELSE "SEARCH_APPEARANCE"]

(* The three are brought into an order in which the robot sees a, m and b   *)
(* from the left to the right, with less than half a turn between two.      *)
CALC_POSITION(s) ==
    LET f == s.found
        am == Turn(f[3].heading - f[2].heading)
        mb == Turn(f[2].heading - f[1].heading)
        sorted == IF am > Half THEN <<f[3], f[1], f[2]>>
                  ELSE IF mb > Half THEN <<f[2], f[3], f[1]>> ELSE f
    IN  [s EXCEPT !.found = sorted, !.pos = sorted, !.state = "END"]

bot_scan_beacons_behaviour ==
    /\ Active("beacons")
    /\ \E h \in {Turn(st.heading + d) : d \in {0, 1}} :
       \E b \in Readings(h) :
          LET s == [st EXCEPT !.heading = h, !.lost = b = "none" /\ InView(h) # {}]
          IN  \/ st.state = "SEARCH_APPEARANCE" /\ Goes(SEARCH_APPEARANCE(s, b))
              \/ st.state = "SEARCH_DISAPPEARANCE" /\ Goes(SEARCH_DISAPPEARANCE(s, b))
              \/ st.state = "CALC_POSITION" /\ Goes(CALC_POSITION(st))
              \/ st.state = "END" /\ Returns(st, "beacons")

BeaconsNext == bot_scan_beacons \/ bot_scan_beacons_behaviour \/ EmergencyStop

(* The heading lies where the beacon is, or one round's turn beside it. *)
Seen(f) == \E d \in {0, 1, 2} : Turn(f.heading - d) \in World[f.id]

(* A position is computed from three different beacons, each at the heading *)
(* it stands at, that lie around the robot in the order the resection asks; *)
(* the search is given up after a full turn only.                           *)
BeaconsAsSeen ==
    /\ Active("beacons") /\ st.state = "END" /\ st.pos = <<>> => st.turned > CIRCLE
    /\ st.pos # <<>> =>
          /\ Len(st.pos) = MAX_BEACONS
          /\ \A i, j \in DOMAIN st.pos : st.pos[i].id = st.pos[j].id => i = j
          /\ \A i \in DOMAIN st.pos : Seen(st.pos[i])
          /\ Turn(st.pos[3].heading - st.pos[2].heading) <= Half
          /\ Turn(st.pos[2].heading - st.pos[1].heading) <= Half

-----------------------------------------------------------------------------
(* The neural net is taught by keys: for each the robot looks to the left,  *)
(* ahead and to the right and keeps what it has seen together with the      *)
(* direction the key stands for, in which it then drives a bit.  The net    *)
(* itself may answer anything.                                              *)
Directions == {"LEFT", "RIGHT", "FORWARD", "STOP"}

Unseen == [ahead |-> 9, left |-> 9, right |-> 9]

(* Where the robot looks: 1 is left of where it stood when the key came.    *)
NetInit ==
    /\ AllIdle
    /\ st = [nn |-> "CHECK_SECTORS", sector |-> 0, sector_arr |-> Unseen, append_learnpattern |-> FALSE,
             teachout |-> "STOP", wish |-> "none", pairs |-> <<>>, border |-> FALSE,
             looks |-> 0, turning |-> 0, key |-> "none"]

TurnsBy(s, b, n) == Calls([s EXCEPT !.turning = n], b, "turn")

bot_check_sectors(s) == [s EXCEPT !.append_learnpattern = FALSE, !.sector = 0, !.wish = "none",
                                  !.looks = 0]

(* The keys are pressed while the robot does not drive; the pattern under   *)
(* way is given up for the new one.                                         *)
bot_check_sectors_savepattern ==
    /\ Len(st.pairs) < NO_PAIRS
    /\ ~Busy(beh, "drive_nn")
    /\ \E wish \in Directions :
          Calls([st EXCEPT !.append_learnpattern = TRUE, !.sector = 0, !.teachout = wish, !.wish = wish,
                           !.key = wish, !.looks = 0, !.sector_arr = Unseen], "none", "check_sector")

bot_drive_neuralnet ==
    /\ ~Busy(beh, "drive_nn")
    /\ Calls([st EXCEPT !.nn = "CHECK_SECTORS", !.wish = "none"], "none", "drive_nn")

(* Key 9: all patterns are forgotten. *)
net_init == st.pairs # <<>> /\ Goes([st EXCEPT !.pairs = <<>>])

(* Key 4 of the other screen: the patterns of the program. *)
set_init_patterns_in_array ==
    /\ ~st.append_learnpattern \/ ~Busy(beh, "check_sector")
    /\ Goes([st EXCEPT !.pairs = [i \in 1 .. NO_PAIRS |-> [out |-> "program", sectors |-> Unseen, key |-> "program"]]])

Append_pattern == Append(st.pairs, [out |-> st.teachout, sectors |-> st.sector_arr, key |-> st.key])

bot_check_sector_behaviour ==
    /\ Active("check_sector")
    /\ \/ st.sector = 0 /\ TurnsBy([st EXCEPT !.sector = 1], "check_sector", 1)
       \/ st.sector = 1 /\ TurnsBy([st EXCEPT !.sector = 2, !.sector_arr.left = st.looks], "check_sector", -1)
       \/ st.sector = 2 /\ TurnsBy([st EXCEPT !.sector = 3, !.sector_arr.ahead = st.looks, !.border = FALSE],
                                   "check_sector", -1)
       \/ st.sector = 3 /\ TurnsBy([st EXCEPT !.sector = 4, !.sector_arr.right = st.looks], "check_sector", 1)
       \/ st.sector = 4 /\ Goes([st EXCEPT !.sector = 99, !.sector_arr.ahead = st.looks])
       \/ /\ st.sector = 99
          /\ IF ~st.append_learnpattern THEN Returns(st, "check_sector")
             ELSE IF st.wish \in {"none", "STOP"}
                  THEN Returns([st EXCEPT !.pairs = Append_pattern], "check_sector")
                  ELSE /\ st' = [st EXCEPT !.pairs = Append_pattern, !.nn = st.wish]
                       /\ beh' = return_from_behaviour(calls(beh, "none", "drive_nn"), "check_sector")

DriveNN(s) == [st EXCEPT !.nn = s]

bot_drive_neuralnet_behaviour ==
    /\ Active("drive_nn")
    /\ \/ st.nn = "CHECK_SECTORS" /\ Calls(bot_check_sectors(DriveNN("GET_NN_DIR")), "drive_nn", "check_sector")
       \/ st.nn = "GET_NN_DIR" /\ \E d \in Directions : Goes(DriveNN(d))
       \/ st.nn = "FORWARD" /\ \E b \in {"drive_distance", "goto"} : Calls(DriveNN("CHECK_WALL"), "drive_nn", b)
       \/ st.nn = "FORWARD" /\ Calls(DriveNN("STOP"), "drive_nn", "drive_distance")        \* goal_reached
       \/ st.nn \in {"LEFT", "RIGHT"} /\ TurnsBy(DriveNN("FORWARD"), "drive_nn", 0)
       \/ st.nn = "CHECK_WALL" /\ Calls([st EXCEPT !.border = TRUE], "drive_nn", "drive_distance")
       \/ st.nn = "CHECK_WALL" /\ LET s == DriveNN(IF st.wish # "none" THEN "STOP" ELSE "CHECK_SECTORS")
                                  IN  Goes(s) \/ TurnsBy(s, "drive_nn", 0)
       \/ st.nn = "STOP" /\ Returns([DriveNN("CHECK_SECTORS") EXCEPT !.wish = "none", !.border = FALSE], "drive_nn")

(* The condition that ends a drive also notes that the goal is reached. *)
drive_cancel_check ==
    /\ Active("goto") /\ beh["goto"].caller = "drive_nn"
    /\ \E s \in {"CHECK_WALL", "STOP"} : st' = DriveNN(s)
    /\ beh' = exit_behaviour(deactivate_called_behaviours(beh, "goto"), "goto", CANCEL)

(* A turn that ends in the round in which its caller starts anew was as good *)
(* as over when the key came.                                               *)
TurnEnds ==
    /\ Active("turn")
    /\ Returns([st EXCEPT !.looks = IF beh["turn"].caller # "none" /\ Active(beh["turn"].caller) THEN @ ELSE @ + st.turning,
                          !.turning = 0], "turn")

NetNext ==
    \/ bot_check_sectors_savepattern
    \/ bot_drive_neuralnet
    \/ net_init
    \/ set_init_patterns_in_array
    \/ bot_check_sector_behaviour
    \/ bot_drive_neuralnet_behaviour
    \/ drive_cancel_check
    \/ TurnEnds
    \/ \E b \in {"drive_distance", "goto"} : Ends(b, {SUCCESS})
    \/ EmergencyStop

(* A pattern the net learns belongs to the key it was asked with, and was   *)
(* seen to the left, ahead and to the right of the robot at that time.      *)
PatternsAsTaught ==
    /\ Len(st.pairs) <= NO_PAIRS
    /\ \A i \in DOMAIN st.pairs :
          LET p == st.pairs[i]
          IN  /\ p.out = p.key
              /\ p.key # "program" => p.sectors = [left |-> 1, ahead |-> 0, right |-> -1]

-----------------------------------------------------------------------------
(* The olympic behaviour drives to a light; without one it explores, and    *)
(* before a pillar it goes round it in a slalom.  turned adds up the turns  *)
(* the slalom has asked for since it last looked for a pillar.              *)
OlympicInit ==
    /\ beh = [b \in Names |-> [Idle EXCEPT !.active = b = "avoid_col"]]
    /\ st = [explore |-> "NONE", curve |-> 0, slalom |-> "CHECK_PILLAR", left |-> FALSE, check |-> FALSE,
             steps |-> 0, turned |-> 0, found |-> FALSE]

bot_olympic == ~Busy(beh, "olympic") /\ Calls(st, "none", "olympic")

(* The state is set even if the behaviour may not be overridden. *)
bot_do_slalom(s) == [s EXCEPT !.slalom = "CHECK_PILLAR", !.left = FALSE, !.check = FALSE, !.steps = 0,
                              !.turned = 0, !.found = FALSE]
bot_explore(s) == [s EXCEPT !.explore = "GOTO_WALL", !.curve = 0]

bot_olympic_behaviour ==
    /\ Active("olympic")
    /\ \/ Asks(bot_do_slalom(st), "olympic", "slalom")
       \/ Asks(bot_explore(st), "olympic", "explore")
       \/ Goes(st)                                          \* bot_goto_light

ColOff(t) == deactivate_behaviour(t, "avoid_col")
ColOn(t) == activateBehaviour(t, "none", "avoid_col")

(* The states of the exploration; t are the records it finds.  A curve of 0 *)
(* stands for a new one.                                                    *)
Explores(t) ==
    LET To(x) == [st EXCEPT !.explore = x]
        Harm(x) == st' = To(x) /\ beh' = ColOff(t)
        Drives(x) == st' = x /\ beh' = t
    IN  CASE st.explore = "GOTO_WALL" -> Harm("TURN_PARALLEL_RIGHT") \/ Drives(st)
          [] st.explore = "TURN_PARALLEL_LEFT" -> Drives(st) \/ Drives(To("DRIVE_PARALLEL_RIGHT"))
          [] st.explore = "TURN_PARALLEL_RIGHT" -> Drives(st) \/ Drives(To("DRIVE_PARALLEL_LEFT"))
          [] st.explore = "DRIVE_PARALLEL_LEFT" ->
                st' = To("TURN_ORTHOGONAL") /\ beh' = calls(t, "explore", "drive_distance")
          [] st.explore = "DRIVE_PARALLEL_RIGHT" ->
                st' = To("TURN_ORTHOGONAL") /\ beh' = calls(t, "explore", "drive_distance")
          [] st.explore = "TURN_ORTHOGONAL" -> st' = To("DRIVE_ARC") /\ beh' = ColOn(calls(t, "explore", "turn"))
          [] st.explore = "DRIVE_ARC" ->
                LET c == IF st.curve = 0 THEN 1 ELSE st.curve
                IN  \/ /\ st' = [To(IF c > 0 THEN "TURN_PARALLEL_LEFT" ELSE "TURN_PARALLEL_RIGHT") EXCEPT !.curve = -c]
                       /\ beh' = ColOff(t)
                    \/ Drives([st EXCEPT !.curve = c])
          [] OTHER -> st' = bot_explore(st) /\ beh' = ColOn(t)

(* When it has found what it looked for it returns to its caller, and goes  *)
(* on in the same round as if it had not.                                   *)
bot_explore_behaviour ==
    /\ Active("explore")
    /\ \/ Explores(beh)
       \/ Explores(return_from_behaviour(beh, "explore"))

Side(s, n) == IF s.left THEN n ELSE -n

SlalomTurns(s, n) == Calls([s EXCEPT !.turned = @ + n], "slalom", "turn")

SweepBack(s) == -Side(s, 90)

(* One step of looking for a pillar to the side, six at the most. *)
SLALOM_SWEEP_RUNNING ==
    LET check == st.check \/ st.steps = 0
        sweeps(s) == SlalomTurns([s EXCEPT !.check = TRUE, !.steps = @ + 1], Side(s, 15))
    IN  IF st.steps >= 6
        THEN SlalomTurns([st EXCEPT !.slalom = "SWEEP_DONE", !.steps = 0], SweepBack(st))
        ELSE \/ check /\ Goes([st EXCEPT !.slalom = "CHECK_PILLAR", !.left = ~@, !.steps = 0, !.check = TRUE,
                                         !.found = TRUE])
             \/ sweeps(st)

bot_do_slalom_behaviour ==
    /\ Active("slalom")
    /\ CASE st.slalom = "CHECK_PILLAR" ->
              \/ Goes([st EXCEPT !.slalom = "START", !.turned = 0, !.found = FALSE])
              \/ Goes(st)
              \/ st' = st /\ beh' = return_from_behaviour(ColOn(beh), "slalom")
         [] st.slalom = "START" ->
              /\ st' = [st EXCEPT !.slalom = "DRIVE_ARC", !.turned = @ + Side(st, 90)]
              /\ beh' = calls(ColOff(beh), "slalom", "turn")
         [] st.slalom = "DRIVE_ARC" -> Calls([st EXCEPT !.slalom = "TURN_2"], "slalom", "drive_distance")
         [] st.slalom = "TURN_2" -> SlalomTurns([st EXCEPT !.slalom = "SWEEP_RUNNING"], Side(st, 45))
         [] st.slalom = "SWEEP_RUNNING" -> SLALOM_SWEEP_RUNNING
         [] st.slalom = "SWEEP_DONE" -> SlalomTurns([st EXCEPT !.slalom = "CHECK_PILLAR"], -Side(st, 135))

(* avoid_col is always under way but when one of these has switched it off; *)
(* its own reaction is left out.                                            *)
OlympicNext ==
    \/ bot_olympic
    \/ bot_olympic_behaviour
    \/ bot_explore_behaviour
    \/ bot_do_slalom_behaviour
    \/ \E b \in {"turn", "drive_distance"} : Ends(b, {SUCCESS})
    \/ EmergencyStop

(* A slalom that has found no pillar has turned back all that it has turned *)
(* round for it, one that has found one only ever turned to that side, and  *)
(* goes round the next one on the other.                                    *)
SlalomTurnsBack ==
    st.slalom = "CHECK_PILLAR" =>
        IF st.found THEN st.turned \in -225 .. 225 /\ (st.turned < 0) = st.left
        ELSE st.turned = 0
=============================================================================
