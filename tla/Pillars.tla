-------------------------------- MODULE Pillars --------------------------------
(***************************************************************************)
(* The behaviours that carry pillars in the compartment behind the door:    *)
(* catching one, unloading it, carrying it between two pads, sorting        *)
(* pillars and the advent calendar (bot-logic/behaviour_catch_pillar.c,     *)
(* _transport_pillar.c, _classify_objects.c, _adventcal.c), with the        *)
(* servo of the door (behaviour_servo.c).  A pillar gets into the           *)
(* compartment and out of it only through the open door.  Headings,         *)
(* positions and what the distance sensors see are free choices.            *)
(***************************************************************************)
EXTENDS Naturals

VARIABLES beh, st

Prio == [servo |-> 253, delay |-> 200, turn |-> 150, goto |-> 146, measure |-> 140, adventcal |-> 103, line |-> 70,
         wall |-> 48, classify |-> 45, catch |-> 44, unload |-> 43, transport |-> 41]
Names == DOMAIN Prio

INSTANCE Routine WITH Behaviours <- Names, prio <- Prio, NoBeh <- "none", Unlisted <- "unlisted"

Clients == {"transport", "classify", "adventcal", "catch", "unload"}

Records == [b \in Names |-> Idle]

PillarsInit ==
    /\ beh = Records
    /\ \E version \in 1 .. 3 :              \* CATCH_PILLAR_VERSION
         st = [state |-> "START",            \* of the client that the user has started
               version |-> version,
               catch |-> "END", unload |-> "START",
               servo |-> "off",              \* or the position it is driven to
               door |-> "close", trans |-> FALSE,
               paused |-> FALSE,             \* _delay_state of the servo's pause
               blocked |-> FALSE,            \* BLOCK_BEHAVIOUR of the second version
               known |-> FALSE, key_pressed |-> FALSE, target |-> "none",
               place |-> "away", from |-> "none", called |-> FALSE]     \* carrying between pads

In(b, state) == Active(b) /\ st.state = state
To(state) == [st EXCEPT !.state = state]

-----------------------------------------------------------------------------
(* The servo: it is driven for 1.5 seconds. *)
bot_servo_behaviour ==
    /\ Active("servo")
    /\ \/ /\ ~st.paused
          /\ beh' = asks(beh, "servo", "delay")
          /\ st' = [st EXCEPT !.paused = beh'["servo"].subResult # FAIL]
       \/ /\ st.paused
          /\ Returns([st EXCEPT !.paused = FALSE, !.servo = "off", !.door = st.servo], "servo")

(* The door is closed already, or the servo still runs: nothing is started. *)
ServoDue(s, pos) == s.servo = "off" /\ ~(pos = "close" /\ s.door = "close")

(* bot_servo(b, SERVO1, pos), as the last call of a round. *)
bot_servo(s, b, pos) ==
    LET t == asks(beh, b, "servo")
    IN  IF ServoDue(s, pos)
        THEN beh' = t /\ st' = IF Busy(beh, "servo") THEN s ELSE [s EXCEPT !.servo = pos]
        ELSE Goes(s)

-----------------------------------------------------------------------------
(* Catching: the search turn ends when both sensors have seen the pillar. *)
SetCatch(x) == [st EXCEPT !.catch = x]

CatchOpensDoor == bot_servo(SetCatch("GO_TO_POINT"), "catch", "open")
(* Mutant of CatchClosesDoor: the door is closed when there is no pillar. *)
CatchClosesEmpty == IF st.trans THEN Goes(SetCatch("END")) ELSE bot_servo(SetCatch("END"), "catch", "close")
CatchClosesDoor == IF st.trans THEN bot_servo(SetCatch("END"), "catch", "close") ELSE Goes(SetCatch("END"))

(* The first version turns and drives by itself, without bot_goto_pos: it   *)
(* looks for the left edge of the pillar, then for the right one.           *)
catch_pillar_1 ==
    \/ st.catch = "START" /\ Goes(SetCatch("SEARCH_LEFT"))
    \/ st.catch = "SEARCH_LEFT" /\ \E x \in {"SEARCH_LEFT", "LEFT_FOUND", "END"} : Goes(SetCatch(x))
    \/ st.catch = "LEFT_FOUND" /\ \E x \in {"SEARCH_LEFT", "LEFT_FOUND", "TURN"} : Goes(SetCatch(x))
    \/ st.catch = "TURN" /\ (Goes(st) \/ bot_servo(SetCatch("GO"), "catch", "open"))
    \/ st.catch = "GO" /\ ~st.trans /\ \E x \in {"SEARCH_LEFT", "GO"} : Goes(SetCatch(x))
    \/ st.catch = "GO" /\ st.trans /\ bot_servo(SetCatch("END"), "catch", "close")
    \/ st.catch = "END" /\ Returns(SetCatch("START"), "catch")

(* The second one turns until a sensor sees the pillar, waits, measures and  *)
(* does the same with the other sensor.                                     *)
TurnsOn(next) == Calls(SetCatch(next), "catch", "turn")
Seen(s) == [s EXCEPT !.catch = "MEASURE_DIST", !.blocked = FALSE]

catch_pillar_2 ==
    \/ st.catch = "START" /\ TurnsOn("END")
    \/ st.catch = "AFTER_CANCEL" /\ \E x \in {"INVALID", "TURN_BACK"} : Goes(SetCatch(x))
    \/ st.catch = "TURN_BACK" /\ ~st.blocked /\ Asks([st EXCEPT !.blocked = ~Busy(beh, "delay")], "catch", "delay")
    \/ st.catch = "TURN_BACK" /\ st.blocked /\ Goes(Seen(st))
    \/ /\ st.catch = "TURN_BACK" /\ st.blocked
       /\ Calls([SetCatch("INVALID") EXCEPT !.blocked = FALSE], "catch", "turn")
    \/ st.catch = "INVALID" /\ TurnsOn("END")
    \/ st.catch = "MEASURE_DIST" /\ Calls(SetCatch("OPEN_DOOR"), "catch", "measure")
    \/ st.catch = "OPEN_DOOR" /\ \E x \in {"INVALID", "AFTER_MEASURE"} : Goes(SetCatch(x))
    \/ st.catch = "AFTER_MEASURE" /\ Goes(SetCatch("OTHER_SIDE"))
    \/ st.catch = "AFTER_MEASURE" /\ CatchOpensDoor
    \/ st.catch = "OTHER_SIDE" /\ Goes(SetCatch("START"))

(* The third notes the edges that both sensors see during one turn.         *)
catch_pillar_3 ==
    \/ st.catch = "START" /\ Calls(SetCatch("END"), "catch", "turn")
    \/ st.catch = "OBJECT_FOUND" /\ \E x \in {"TURN", "END"} : Goes(SetCatch(x))
    \/ st.catch = "TURN" /\ Goes(SetCatch("OPEN_DOOR"))
    \/ st.catch = "OPEN_DOOR" /\ CatchOpensDoor

CatchesThere ==
    \/ st.catch = "GO_TO_POINT" /\ Calls(SetCatch("CLOSE_DOOR"), "catch", "goto")
    \/ st.catch = "CLOSE_DOOR" /\ CatchClosesDoor
    \/ /\ st.catch = "END" /\ UNCHANGED st
       /\ beh' = exit_behaviour(beh, "catch", IF st.trans THEN SUCCESS ELSE FAIL)

bot_catch_pillar_behaviour ==
    /\ Active("catch")
    /\ \/ st.version = 1 /\ catch_pillar_1
       \/ st.version = 2 /\ (catch_pillar_2 \/ CatchesThere)
       \/ st.version = 3 /\ (catch_pillar_3 \/ CatchesThere)

(* The conditions given to the watcher: the pillar is seen, or it is in. *)
turn_cancel_check ==
    /\ Active("turn") /\ beh["turn"].caller = "catch"
    /\ st' = SetCatch(IF st.version = 2 THEN "AFTER_CANCEL" ELSE "OBJECT_FOUND")
    /\ beh' = exit_behaviour(deactivate_called_behaviours(beh, "turn"), "turn", CANCEL)

goto_pos_cancel ==
    /\ Active("goto") /\ beh["goto"].caller = "catch" /\ st.trans
    /\ st.version = 3
    /\ beh' = exit_behaviour(deactivate_called_behaviours(beh, "goto"), "goto", CANCEL)
    /\ UNCHANGED st

bot_catch_pillar_turn(s) == [s EXCEPT !.catch = "START"]

-----------------------------------------------------------------------------
SetUnload(x) == [st EXCEPT !.unload = x]

bot_unload_pillar_behaviour ==
    /\ Active("unload")
    /\ \/ st.unload = "START" /\ st.trans /\ bot_servo(SetUnload("GO_BACK"), "unload", "open")
       \/ st.unload = "START" /\ ~st.trans /\ Goes(SetUnload("END"))
       \/ st.unload = "GO_BACK" /\ Calls(SetUnload("CLOSE_DOOR"), "unload", "goto")
       \/ st.unload = "CLOSE_DOOR" /\ bot_servo(SetUnload("END"), "unload", "close")
       \/ st.unload = "END" /\ Returns(SetUnload("START"), "unload")

bot_unload_pillar(s) == [s EXCEPT !.unload = "START", !.catch = "END"]

-----------------------------------------------------------------------------
(* Carrying pillars to and fro between the pad where the behaviour starts    *)
(* and another one, which it looks for or the user shows it by a key.  The   *)
(* way is a line, a wall, or straight when the place is known.              *)
SetsOut(s) == [s EXCEPT !.place = "away"]

Explore ==
    /\ In("transport", "EXPLORE")
    /\ \/ Asks(SetsOut(To("ROLL")), "transport", "line")
       \/ ~st.known /\ Calls(SetsOut(To("ROLL")), "transport", "wall")
       \/ st.known /\ Asks(SetsOut(To("ROLL")), "transport", "goto")

destpad_found(s) == [s EXCEPT !.known = TRUE, !.place = "dest"]
bot_on_pad(s) == [s EXCEPT !.place = s.target]

(* The condition for the line and the wall. *)
check_end_exploring ==
    \E b \in {"line", "wall"} :
        /\ Active(b) /\ beh[b].caller = "transport"
        /\ beh' = exit_behaviour(beh, b, IF b = "line" THEN CANCEL ELSE SUCCESS)
        /\ \/ st.key_pressed /\ st' = [st EXCEPT !.key_pressed = FALSE, !.called = TRUE]
           \/ ~st.key_pressed /\ ~st.known /\ st' = destpad_found(st)
           \/ ~st.key_pressed /\ st.known /\ st.target # "none" /\ st' = bot_on_pad(st)

(* A drive to the pad ends there; a line ends anywhere. *)
Arrives ==
    /\ Active("goto") /\ beh["goto"].caller = "transport" /\ st.state = "ROLL"
    /\ Returns([st EXCEPT !.place = IF st.target = "none" THEN "away" ELSE st.target], "goto")

NextTarget(s) == [s EXCEPT !.target = IF @ = "start" THEN "dest" ELSE "start"]

OnPad ==
    /\ In("transport", "ON_PAD")
    /\ IF st.trans THEN Goes(To("UNLOAD_PILLAR")) ELSE bot_servo(To("GET_PILLAR"), "transport", "open")

bot_transport_pillar_behaviour ==
    \/ In("transport", "START") /\ Goes([To("EXPLORE") EXCEPT !.place = "start"])
    \/ Explore
    \/ In("transport", "ROLL") /\ Goes(To("ON_PAD"))
    \/ OnPad
    \/ In("transport", "GET_PILLAR") /\ Calls(bot_catch_pillar_turn(To("GOTO_NEXTPAD")), "transport", "catch")
    \/ In("transport", "UNLOAD_PILLAR") /\ Calls(To("UNLOAD"), "transport", "goto")
    \/ In("transport", "UNLOAD") /\ Calls(bot_unload_pillar(To("GOTO_NEXTPAD")), "transport", "unload")
    \/ In("transport", "GOTO_NEXTPAD") /\ bot_servo(NextTarget(To("INITIAL_TURN")), "transport", "close")
    \/ In("transport", "INITIAL_TURN") /\ Calls(To("EXPLORE"), "transport", "turn")

bot_transport_pillar(s) == [s EXCEPT !.target = "none", !.known = FALSE]

(* The user tells the robot on its way that this is the other pad. *)
bot_set_destkoords ==
    /\ beh["transport"].subResult = RUNNING /\ st.place = "away" /\ ~st.key_pressed
    /\ Goes([st EXCEPT !.known = TRUE, !.key_pressed = TRUE, !.place = "dest",
                       !.from = IF @ = "dest" THEN "none" ELSE @])

-----------------------------------------------------------------------------
(* Sorting by brightness, averaged over ten rounds. *)
Identify ==
    /\ In("classify", "IDENTIFY")
    /\ IF beh["classify"].subResult = FAIL THEN Calls(To("END"), "classify", "turn")
       ELSE \/ Goes(st)
            \/ Goes(To("UNLOAD"))                       \* brighter than all targets
            \/ Calls(To("UNLOAD"), "classify", "goto")

bot_classify_objects_behaviour ==
    \/ In("classify", "START") /\ Calls(bot_catch_pillar_turn(To("IDENTIFY")), "classify", "catch")
    \/ Identify
    \/ In("classify", "UNLOAD") /\ Calls(bot_unload_pillar(To("HOME")), "classify", "unload")
    \/ In("classify", "HOME") /\ Calls(To("START"), "classify", "goto")
    \/ In("classify", "END") /\ UNCHANGED st /\ beh' = exit_behaviour(beh, "classify", FAIL)

-----------------------------------------------------------------------------
(* Fetching a pillar along a line and bringing it to the table's edge. *)
Steps == << "START", "FIND", "FLAPCLOSE", "TURNTODELIVER", "DELIVER", "FLAPOPEN", "MOVEBACK",
            "TURN1", "PASSLINE", "TURN2", "END" >>
NextStep == To(Steps[1 + CHOOSE i \in DOMAIN Steps : Steps[i] = st.state])

bot_adventcal_behaviour ==
    \/ In("adventcal", "START") /\ bot_servo(NextStep, "adventcal", "open")
    \/ In("adventcal", "FIND") /\ ~st.trans /\ Asks(NextStep, "adventcal", "line")
    \/ In("adventcal", "FIND") /\ st.trans /\ Goes(NextStep)
    \/ In("adventcal", "FLAPCLOSE") /\ bot_servo(NextStep, "adventcal", "close")
    \/ In("adventcal", "TURNTODELIVER") /\ Calls(NextStep, "adventcal", "turn")
    \/ In("adventcal", "DELIVER") /\ Asks(NextStep, "adventcal", "line")
    \/ In("adventcal", "DELIVER") /\ Goes(NextStep)      \* at the edge already
    \/ In("adventcal", "FLAPOPEN") /\ bot_servo(NextStep, "adventcal", "open")
    \/ In("adventcal", "MOVEBACK") /\ Calls(NextStep, "adventcal", "goto")
    \/ In("adventcal", "TURN1") /\ Calls(NextStep, "adventcal", "turn")
    \/ In("adventcal", "PASSLINE") /\ Calls(NextStep, "adventcal", "goto")
    \/ In("adventcal", "TURN2") /\ Calls(NextStep, "adventcal", "turn")
    \/ In("adventcal", "END") /\ Returns(st, "adventcal")

-----------------------------------------------------------------------------
(* Forward through a pillar, or back from one, with the door open. *)
Drives(b) == Active(b) /\ st.door = "open" /\ st.servo = "off"
Backwards(b) == \/ beh[b].caller = "unload"
                \/ beh[b].caller = "adventcal" /\ st.state = "TURN1"
Catches(b) == \/ beh[b].caller = "catch"
              \/ beh[b].caller = "adventcal" /\ st.state = "FLAPCLOSE"

PillarIsCaught ==
    /\ ~st.trans
    /\ \/ \E b \in {"goto", "line"} : Drives(b) /\ Catches(b)
       \/ st.version = 1 /\ Drives("catch") /\ st.catch = "GO"
    /\ Goes([st EXCEPT !.trans = TRUE, !.from = st.place])

(* A drive ends; one backwards has left the pillar behind.  Nobody looks at  *)
(* the result of a drive, a turn or a pause.                                *)
DriveEnds ==
    \E b \in {"goto", "line"} :
        /\ Active(b) /\ beh' = exit_behaviour(beh, b, SUCCESS)
        /\ beh[b].caller = "transport" /\ b = "goto" => st.state # "ROLL"
        /\ LET left == Drives(b) /\ Backwards(b)
           IN  st' = [st EXCEPT !.trans = @ /\ ~left, !.from = IF left THEN "none" ELSE @,
                                !.called = @ \/ (beh[b].caller = "transport" /\ b = "line")]

(* The user starts one of the behaviours once the servo rests, and has taken *)
(* the pillar out of an open door before.  Earlier results are forgotten.    *)
StartClient(b) ==
    /\ Quiet /\ ~Active("servo") /\ (st.trans => st.door = "close")
    /\ st.version = 3 \/ b \in {"catch", "unload"}
    /\ beh' = calls([Records EXCEPT !["servo"] = beh["servo"]], "none", b)
    /\ LET s == [To("START") EXCEPT !.catch = "END", !.unload = "START", !.place = "away",
                                  !.called = FALSE, !.from = "none"]
       IN  st' = CASE b = "catch" -> bot_catch_pillar_turn(s)
                   [] b = "unload" -> bot_unload_pillar(s)
                   [] b = "transport" -> bot_transport_pillar(s)
                   [] OTHER -> s

PillarTaken == Quiet /\ st.trans /\ Goes([st EXCEPT !.trans = FALSE, !.from = "none"])

PillarsNext ==
    \/ bot_servo_behaviour
    \/ bot_catch_pillar_behaviour
    \/ turn_cancel_check
    \/ goto_pos_cancel
    \/ check_end_exploring
    \/ Arrives
    \/ bot_set_destkoords
    \/ bot_unload_pillar_behaviour
    \/ bot_transport_pillar_behaviour
    \/ bot_classify_objects_behaviour
    \/ bot_adventcal_behaviour
    \/ PillarIsCaught
    \/ DriveEnds
    \/ PillarTaken
    \/ \E b \in Clients : StartClient(b)
    \/ \E b \in {"turn", "delay", "measure"} : Ends(b, {SUCCESS})
    \/ EmergencyStop

-----------------------------------------------------------------------------
PillarsTypeOK ==
    /\ beh \in [Names -> Record]
    /\ st.door \in {"open", "close"} /\ st.servo \in {"off", "open", "close"}
    /\ st.trans \in BOOLEAN /\ st.paused \in BOOLEAN

(* Somebody is there to switch the servo off again.  An emergency stop in   *)
(* the pause ends the delay but not the servo, which then stays on for good *)
(* (behaviour_servo.c:46-57).                                               *)
ServoObeys ==
    st.servo # "off" => \/ Active("servo")
                        \/ Active("delay") /\ beh["delay"].caller = "servo"

(* A pillar in the compartment is moved about behind the closed door only:  *)
(* whichever routine drives or turns with it, except to catch or to leave   *)
(* it, as long as the servo obeys (behaviour_catch_pillar.c:521,            *)
(* behaviour_transport_pillar.c:454).                                       *)
CarriedBehindDoor ==
    /\ st.trans /\ ServoObeys
    /\ \E b \in {"turn", "goto", "line"} : Active(b) /\ ~Catches(b) /\ ~Backwards(b)
    => st.door = "close"

(* A pillar is taken from one pad to the other one, unless a way was ended   *)
(* by the key or with the line (behaviour_transport_pillar.c:428-436).      *)
PillarsChangePads ==
    In("transport", "UNLOAD_PILLAR") /\ ~st.called /\ st.from # "none" =>
        st.place \in {"start", "dest"} /\ st.place # st.from
=============================================================================
