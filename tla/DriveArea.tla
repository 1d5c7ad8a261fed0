------------------------------- MODULE DriveArea -------------------------------
(***************************************************************************)
(* Driving over an area (bot-logic/behaviour_drive_area.c).  While the      *)
(* robot drives a lane, two observers at its sides look for free ground and *)
(* push it as lines of two points on a stack; when the lane ends, the next  *)
(* line is taken from the stack.  A point is TRUE when its coordinates are  *)
(* known and FALSE when they are (0, 0), which the code takes for unknown.  *)
(* Distances, the map and the sensors are free choices.                     *)
(***************************************************************************)
EXTENDS Naturals, Sequences

CONSTANTS
    STACK_SIZE,   \* places of the position store
    WatchedSides  \* the observers: "observe_left", "observe_right" or both

VARIABLES beh, st

Names == WatchedSides \cup {"drive_area", "goto", "turn", "wave", "delay", "scan"}
Prio == [b \in Names |->
    CASE b = "scan" -> 250 [] b = "delay" -> 200 [] b = "observe_left" -> 171
      [] b = "observe_right" -> 170 [] b = "turn" -> 150 [] b = "goto" -> 146
      [] b = "drive_area" -> 73 [] OTHER -> 72]

INSTANCE Routine WITH Behaviours <- Names, prio <- Prio, NoBeh <- "none", Unlisted <- "unlisted"

Me == "drive_area"
States == {"CHECK_TRACKSIDE", "GO_FORWARD", "AFTER_FORWARD", "ONWALL_TO_TRACK",
           "DELAY_AFTER_FORWARD", "TURN_TO_DESTINATION", "GET_LINE_FROM_STACK",
           "TURN_TO_NEAREST", "GOTO_FIRST_DEST", "CHECK_DIST", "TRACK_END"}
Unknown == FALSE
NoObservation == [state |-> "start", p1 |-> Unknown, p2 |-> Unknown, last |-> Unknown]

AreaInit ==
    /\ beh = [b \in Names |-> [Idle EXCEPT !.active = (b = "scan")]]
    /\ st = [track |-> "CHECK_TRACKSIDE", next |-> "CHECK_TRACKSIDE", border |-> FALSE,
             endrequest |-> FALSE,
             line |-> <<Unknown, Unknown>>, store |-> <<>>,
             obs |-> [s \in WatchedSides |-> NoObservation]]

-----------------------------------------------------------------------------
(* The stack of lines. *)
pushed(store, p) == IF Len(store) < STACK_SIZE THEN Append(store, p) ELSE store

(* Mutant of push_stack_pos_line: the first point is not looked at. *)
PushUnlessEndUnknown(store, p1, p2) == IF p2 THEN pushed(pushed(store, p1), p2) ELSE store

push_stack_pos_line(store, p1, p2) ==
    IF p1 /\ p2 THEN pushed(pushed(store, p1), p2) ELSE store

HasLine(store) == Len(store) >= 2
TopLine(store) == <<store[Len(store)], store[Len(store) - 1]>>
WithoutLine(store) ==
    IF HasLine(store) THEN SubSeq(store, 1, Len(store) - 2) ELSE <<>>

-----------------------------------------------------------------------------
(* The observers. *)
Look(s, o) == st' = [st EXCEPT !.obs[s] = o]
EndOr(state) == IF st.endrequest THEN "stop" ELSE state

observe_get_startpoint(s) ==
    LET o == st.obs[s]
    IN  /\ o.state = "start"
        /\ \/ Look(s, o)                                   \* the map is locked
           \/ Look(s, [o EXCEPT !.state = EndOr("start")])  \* too near to the last look
           \/ /\ ~st.endrequest
              /\ \E p \in BOOLEAN :
                   Look(s, [o EXCEPT !.p1 = p, !.p2 = Unknown, !.state = "end"])

(* The end of the line is found: it is pushed. *)
EndOfLine(s, o, p2) ==
    st' = [st EXCEPT !.store = push_stack_pos_line(@, o.p1, p2),
                     !.obs[s] = [o EXCEPT !.p2 = p2, !.p1 = Unknown, !.state = EndOr("start")]]

observe_get_endpoint(s) ==
    LET o == st.obs[s]
    IN  /\ o.state = "end"
        /\ \/ Look(s, o)                                   \* the map is locked
           \/ ~o.p1 /\ Look(s, [o EXCEPT !.state = EndOr("start")])
           \/ ~o.last /\ Look(s, [o EXCEPT !.p1 = Unknown, !.state = EndOr("start")])
           \/ Look(s, [o EXCEPT !.state = EndOr("end")])    \* too short
           \/ o.last /\ EndOfLine(s, [o EXCEPT !.last = Unknown], o.last)
           \/ \E lost \in BOOLEAN :                        \* free ground goes on
                IF lost   \* an obstacle has appeared at the first point
                THEN Look(s, [o EXCEPT !.p1 = TRUE, !.p2 = Unknown, !.last = Unknown,
                                       !.state = EndOr("end")])
                ELSE IF st.endrequest THEN EndOfLine(s, [o EXCEPT !.last = TRUE], TRUE)
                     ELSE Look(s, [o EXCEPT !.last = TRUE])

bot_observe_behaviour(s) ==
    /\ Active(s)
    /\ \/ (observe_get_startpoint(s) \/ observe_get_endpoint(s)) /\ Stays
       \/ /\ st.obs[s].state = "stop"
          /\ Look(s, [st.obs[s] EXCEPT !.p1 = @ /\ st.obs[s].p2])
          /\ beh' = return_from_behaviour(beh, s)

(* bot_observe_right() and bot_observe_left(), called by start_observe_left_right(). *)
start_observe_left_right(s) ==
    [s EXCEPT !.endrequest = FALSE,
              !.obs = [o \in WatchedSides |-> IF Active(o) THEN @[o] ELSE NoObservation]]

Watched(t, s) ==
    IF s \notin WatchedSides \/ Active(s) THEN t ELSE activateBehaviour(t, Me, s)
Observers(t) == Watched(Watched(t, "observe_right"), "observe_left")

-----------------------------------------------------------------------------
(* The lanes. *)
In(state) == Active(Me) /\ st.track = state
GoOn(s) == st' = s /\ Stays
CallIn(s, b) == st' = s /\ beh' = calls(beh, Me, b)
Swapped(line) == <<line[2], line[1]>>

(* BLOCK_BEHAVIOUR: a pause before the rest of the state.  Whether it has   *)
(* been made already is not remembered here.                               *)
Pause(state) == In(state) /\ UNCHANGED st /\ beh' = asks(beh, Me, "delay")

CHECK_TRACKSIDE ==
    /\ In("CHECK_TRACKSIDE")
    /\ \/ GoOn([st EXCEPT !.track = "GET_LINE_FROM_STACK"])
       \/ /\ ~st.border
          /\ st' = start_observe_left_right([st EXCEPT !.track = "GO_FORWARD", !.line[1] = Unknown])
          /\ beh' = Observers(beh)

GO_FORWARD ==
    LET s == [st EXCEPT !.track = "DELAY_AFTER_FORWARD"]
    IN  /\ In("GO_FORWARD")
        /\ \/ CallIn([s EXCEPT !.next = "GET_LINE_FROM_STACK"], "goto")
           \/ CallIn([s EXCEPT !.next = "CHECK_TRACKSIDE", !.line[2] = Unknown], "goto")

DELAY_AFTER_FORWARD ==
    /\ In("DELAY_AFTER_FORWARD")
    /\ st' = [st EXCEPT !.track = "AFTER_FORWARD"]
    /\ beh' = IF st.border THEN asks(beh, Me, "turn") ELSE beh

AFTER_FORWARD ==
    /\ In("AFTER_FORWARD")
    /\ IF ~st.endrequest THEN GoOn([st EXCEPT !.endrequest = TRUE])
       ELSE \/ GoOn([st EXCEPT !.border = FALSE])
            \/ GoOn([st EXCEPT !.border = FALSE, !.track = st.next])
            \/ /\ st.next = "CHECK_TRACKSIDE"
               /\ GoOn([st EXCEPT !.border = FALSE, !.track = "GET_LINE_FROM_STACK"])

TURN_TO_NEAREST ==
    LET s == [st EXCEPT !.track = "ONWALL_TO_TRACK"]
    IN  /\ In("TURN_TO_NEAREST")
        /\ \/ st.line[1] /\ CallIn(s, "turn")
           \/ GoOn(s)

ONWALL_TO_TRACK ==
    LET to(state) == [st EXCEPT !.track = state]
    IN  /\ In("ONWALL_TO_TRACK")
        /\ \/ UNCHANGED st /\ beh' = asks(beh, Me, "turn")      \* a little back
           \/ GoOn(to("GET_LINE_FROM_STACK"))
           \/ /\ ~st.border
              /\ \/ CallIn(to("CHECK_DIST"), "goto")
                 \/ GoOn(to("GOTO_FIRST_DEST"))
                 \/ GoOn([to("AFTER_FORWARD") EXCEPT !.next = "TURN_TO_NEAREST", !.line = Swapped(@)])

(* The way to the line is barred: it goes back on the stack, below the top. *)
CHECK_DIST ==
    LET line == TopLine(st.store)
        back == push_stack_pos_line(push_stack_pos_line(WithoutLine(st.store),
                    st.line[1], st.line[2]), line[1], line[2])
    IN  /\ In("CHECK_DIST")
        /\ \/ ~st.border /\ GoOn([st EXCEPT !.track = "GOTO_FIRST_DEST"])
           \/ GoOn([st EXCEPT !.track = "GET_LINE_FROM_STACK",
                              !.store = IF HasLine(@) THEN back ELSE <<>>])

GOTO_FIRST_DEST ==
    LET s == [st EXCEPT !.track = "TURN_TO_DESTINATION"]
    IN  /\ In("GOTO_FIRST_DEST")
        /\ CallIn(s, "goto") \/ CallIn([s EXCEPT !.line = Swapped(@)], "goto")

TURN_TO_DESTINATION ==
    LET s == [st EXCEPT !.track = "CHECK_TRACKSIDE"]
    IN  /\ In("TURN_TO_DESTINATION") /\ ~st.border
        /\ CallIn(s, "turn") \/ GoOn(s)

BackFromBorder ==
    /\ In("TURN_TO_DESTINATION") /\ st.border
    /\ st' = [st EXCEPT !.border = FALSE]
    /\ beh' = asks(beh, Me, "turn")

GET_LINE_FROM_STACK ==
    LET s == [st EXCEPT !.endrequest = TRUE, !.store = WithoutLine(@)]
        found == [s EXCEPT !.line = TopLine(st.store)]
    IN  /\ In("GET_LINE_FROM_STACK")
        /\ \/ UNCHANGED <<st, beh>>                         \* the pause is not over
           \/ ~HasLine(st.store) /\ GoOn([s EXCEPT !.track = "TRACK_END"])
           \/ /\ HasLine(st.store)
              /\ \E l \in {TopLine(st.store), Swapped(TopLine(st.store))} :
                   LET next == [found EXCEPT !.line = l]
                   IN  \/ GoOn(next)                        \* driven already
                       \/ GoOn([next EXCEPT !.track = "TURN_TO_NEAREST"])
                       \/ GoOn([next EXCEPT !.track = "AFTER_FORWARD", !.next = "TURN_TO_NEAREST",
                                            !.line = Swapped(l)])
                       \/ CallIn([next EXCEPT !.track = "TURN_TO_DESTINATION"], "wave")

TRACK_END ==
    /\ In("TRACK_END")
    /\ st' = [st EXCEPT !.endrequest = TRUE]
    /\ beh' = return_from_behaviour(beh, Me)

bot_drive_area_behaviour ==
    \/ \E s \in {"CHECK_TRACKSIDE", "ONWALL_TO_TRACK", "GOTO_FIRST_DEST"} : Pause(s)
    \/ ~st.border /\ Pause("TURN_TO_DESTINATION")
    \/ CHECK_TRACKSIDE \/ GO_FORWARD \/ DELAY_AFTER_FORWARD \/ AFTER_FORWARD
    \/ TURN_TO_NEAREST \/ ONWALL_TO_TRACK \/ CHECK_DIST \/ GOTO_FIRST_DEST
    \/ TURN_TO_DESTINATION \/ BackFromBorder \/ GET_LINE_FROM_STACK \/ TRACK_END

(* Started by a key or a command; the store is created empty. *)
bot_drive_area ==
    /\ beh' = activateBehaviour(calls(beh, "none", Me), Me, "scan")
    /\ st' = [st EXCEPT !.track = "CHECK_TRACKSIDE", !.border = FALSE, !.store = <<>>]

(* The border sensors see the edge of the table. *)
border_drive_area_handler == ~st.border /\ GoOn([st EXCEPT !.border = TRUE])

AreaNext ==
    \/ \E s \in WatchedSides : bot_observe_behaviour(s)
    \/ bot_drive_area_behaviour
    \/ ~Active(Me) /\ beh[Me].subResult # RUNNING /\ bot_drive_area
    \/ border_drive_area_handler
    \/ \E b \in {"goto", "turn", "wave", "delay"} : Ends(b, {SUCCESS, FAIL})
    \/ Stopped("goto")
    \/ EmergencyStop

AreaSpec == AreaInit /\ [][AreaNext]_<<beh, st>>

-----------------------------------------------------------------------------
AreaTypeOK ==
    /\ beh \in [Names -> Record]
    /\ st.track \in States /\ st.next \in States
    /\ st.store \in Seq(BOOLEAN) /\ Len(st.store) <= STACK_SIZE
    /\ st.obs \in [WatchedSides -> [state : {"start", "end", "stop"}, p1 : BOOLEAN, p2 : BOOLEAN, last : BOOLEAN]]

(* The stack holds whole lines of known points, whoever pushed them and     *)
(* however full it was: otherwise every later line is put together from     *)
(* the ends of two others (behaviour_drive_area.c:187-217).  And whenever   *)
(* the robot drives to a line both its ends are known, although driving a   *)
(* lane forgets the old line one end at a time (890-987).                   *)
LinesAreWhole ==
    /\ Len(st.store) % 2 = 0
    /\ \A i \in DOMAIN st.store : st.store[i]
    /\ st.track \in {"TURN_TO_NEAREST", "ONWALL_TO_TRACK", "CHECK_DIST", "GOTO_FIRST_DEST",
                     "TURN_TO_DESTINATION"} => st.line = <<TRUE, TRUE>>
=============================================================================
