----------------------------- MODULE DriveRoutines -----------------------------
(***************************************************************************)
(* The drives that other behaviours are built on, with the priorities of    *)
(* the robot and the walk of bot_behave from the highest to the lowest:     *)
(* turning on the spot, driving to a position, driving up to an obstacle    *)
(* and the behaviour that ends other behaviours on a condition              *)
(* (bot-logic/behaviour_turn.c, _goto_pos.c, _goto_obstacle.c and           *)
(* _cancel_behaviour.c).  The client is any behaviour below them that       *)
(* drives, such as bot_drive_area.  Positions are free choices; what counts *)
(* is the direction of a drive and who watches it.                          *)
(***************************************************************************)
EXTENDS Naturals, Sequences, SequencesExt

CONSTANT MAX_JOBS   \* places in the table of watched behaviours

VARIABLES beh, st

Prio == [cancel |-> 154, turn |-> 150, goto_pos |-> 146, goto_obstacle |-> 145, client |-> 73]
Names == DOMAIN Prio

INSTANCE Routine WITH Behaviours <- Names, prio <- Prio, NoBeh <- "none", Unlisted <- "unlisted"

Conditions == {"hazard", "near"}
NoJob == [beh |-> "none", cond |-> "none"]
WalkStart == 255

DriveInit ==
    /\ beh = [b \in Names |-> Idle]
    /\ st = [at |-> WalkStart,                    \* priority of the last routine in this walk
             turn |-> "RUNNING", wait_cnt |-> 0,
             state |-> "END", drive_dir |-> 1, head |-> FALSE,
             watch |-> "none",                    \* the condition the caller gave the drive
             obst |-> "GOTO_DIST",
             jobs |-> [i \in 1 .. MAX_JOBS |-> NoJob]]

(* The walk comes to the routine of b. *)
Turn(b) ==
    /\ Active(b) /\ Prio[b] < st.at
    /\ \A c \in Names : Active(c) /\ Prio[c] < st.at => Prio[c] <= Prio[b]

Becomes(s, b) == st' = [s EXCEPT !.at = Prio[b]]
BetweenWalks == st.at = WalkStart

NextWalk ==
    /\ \A b \in Names : Active(b) => Prio[b] >= st.at
    /\ st.at # WalkStart
    /\ st' = [st EXCEPT !.at = WalkStart]
    /\ UNCHANGED beh

-----------------------------------------------------------------------------
(* bot_turn() with an angle other than 0; with 0 nothing is started. *)
bot_turn_st(s) == [s EXCEPT !.turn = "RUNNING", !.wait_cnt = 2]
bot_turn(t, b) == calls(t, b, "turn")

RunningTurn ==
    /\ st.turn = "RUNNING" /\ Stays
    /\ \E state \in {"RUNNING", "WAIT_FOR_STOP"} : Becomes([st EXCEPT !.turn = state], "turn")

(* Three rounds on end without a move of the wheels. *)
WaitForStop ==
    /\ st.turn = "WAIT_FOR_STOP" /\ Stays
    /\ \/ Becomes([st EXCEPT !.wait_cnt = 2], "turn")
       \/ st.wait_cnt = 0 /\ Becomes([st EXCEPT !.turn = "END"], "turn")
       \/ st.wait_cnt > 0 /\ Becomes([st EXCEPT !.wait_cnt = @ - 1], "turn")

bot_turn_behaviour ==
    /\ Turn("turn")
    /\ \/ RunningTurn
       \/ WaitForStop
       \/ st.turn = "END" /\ Becomes(st, "turn") /\ beh' = return_from_behaviour(beh, "turn")

-----------------------------------------------------------------------------
(* A drive that did not come to its end leaves the direction open. *)
bot_goto_pos(s, head) ==
    [s EXCEPT !.drive_dir = IF s.state = "END" THEN @ ELSE 1,
              !.state = "FIRST_TURN", !.head = head]

bot_goto_dist_head(s, dir, head) == bot_goto_pos([s EXCEPT !.drive_dir = dir, !.state = "END"], head)

(* The condition that the caller of a drive gives. *)
Watching(s, watch) == [s EXCEPT !.watch = watch]

CalcWay(s) ==   \* the curve may be too tight; the drive goes on at once
    {[s EXCEPT !.state = x] : x \in {"FIRST_TURN", "RUNNING", "CALC_WAY"}}

LastTurn(s) ==
    LET end == [s EXCEPT !.state = "END"]
    IN  \/ Becomes(s, "goto_pos") /\ Stays              \* still moving
        \/ Becomes(end, "goto_pos") /\ Stays
        \/ s.head /\ Becomes(bot_turn_st(end), "goto_pos") /\ beh' = bot_turn(beh, "goto_pos")

bot_goto_pos_behaviour ==
    /\ Turn("goto_pos")
    /\ \E arrived \in BOOLEAN :
         LET s == IF st.state # "END" /\ arrived THEN [st EXCEPT !.state = "LAST_TURN"] ELSE st
         IN  \/ /\ s.state = "FIRST_TURN"
                /\ Becomes(bot_turn_st([s EXCEPT !.state = "CALC_WAY"]), "goto_pos")
                /\ beh' = bot_turn(beh, "goto_pos")
             \/ /\ s.state \in {"FIRST_TURN", "CALC_WAY"} /\ Stays
                /\ \E r \in CalcWay(s) : Becomes(r, "goto_pos")
             \/ /\ s.state = "RUNNING" /\ Stays
                /\ \E x \in {"RUNNING", "CALC_WAY"} : Becomes([s EXCEPT !.state = x], "goto_pos")
             \/ s.state = "LAST_TURN" /\ LastTurn(s)
             \/ /\ s.state = "END"
                /\ Becomes([s EXCEPT !.drive_dir = 1], "goto_pos")
                /\ beh' = return_from_behaviour(beh, "goto_pos")

-----------------------------------------------------------------------------
(* The table of watched behaviours. *)
Free(jobs) == {i \in DOMAIN jobs : jobs[i].beh = "none"}
First(S) == CHOOSE i \in S : \A j \in S : i <= j

bot_add_behaviour_to_cancel(s, b, cond) ==
    IF Free(s.jobs) = {} THEN s
    ELSE [s EXCEPT !.jobs[First(Free(s.jobs))] = [beh |-> b, cond |-> cond]]

WatcherStarted(t, s) == IF Free(s.jobs) = {} THEN t ELSE activateBehaviour(t, "none", "cancel")

(* Mutant of Finished: a behaviour that waits for its callee counts as ended. *)
FinishedIfAsleep(t, b) == ~t[b].active

Finished(t, b) == ~t[b].active /\ t[b].subResult # RUNNING

(* One entry of the table, when the conditions in fired are true. *)
Watch(acc, i, fired) ==
    LET job == acc.jobs[i]
        clear == [acc.jobs EXCEPT ![i] = NoJob]
    IN  IF job.beh = "none" THEN acc
        ELSE IF Finished(acc.t, job.beh) THEN [acc EXCEPT !.jobs = clear]
        ELSE IF job.cond \in fired
             THEN [t |-> exit_behaviour(deactivate_called_behaviours(acc.t, job.beh), job.beh, CANCEL),
                   jobs |-> clear, idle |-> FALSE]
             ELSE [acc EXCEPT !.idle = FALSE]

bot_behaviour_cancel_behaviour ==
    /\ Turn("cancel")
    /\ \E fired \in SUBSET Conditions :
         LET end == FoldLeftDomain(LAMBDA acc, i : Watch(acc, i, fired),
                        [t |-> beh, jobs |-> st.jobs, idle |-> TRUE], st.jobs)
         IN  /\ Becomes([st EXCEPT !.jobs = end.jobs], "cancel")
             /\ beh' = IF end.idle THEN deactivate_behaviour(end.t, "cancel") ELSE end.t

-----------------------------------------------------------------------------
(* Far from the obstacle the drive is a long one that is ended on sight. *)
Far ==
    LET s == bot_goto_dist_head(Watching(st, "near"), 1, TRUE)
        t == calls(beh, "goto_obstacle", "goto_pos")
    IN  /\ Becomes(bot_add_behaviour_to_cancel(s, "goto_pos", "near"), "goto_obstacle")
        /\ beh' = WatcherStarted(t, s)

Near ==
    \/ \E dir \in {1, -1} :
         /\ Becomes(bot_goto_dist_head(Watching(st, "none"), dir, TRUE), "goto_obstacle")
         /\ beh' = calls(beh, "goto_obstacle", "goto_pos")
    \/ Becomes([st EXCEPT !.obst = "ALIGN"], "goto_obstacle") /\ Stays

bot_goto_obstacle_behaviour ==
    /\ Turn("goto_obstacle")
    /\ \/ st.obst = "GOTO_DIST" /\ (Far \/ Near)
       \/ /\ st.obst = "ALIGN" /\ Stays                   \* no turn, or one by 0 degrees
          /\ Becomes([st EXCEPT !.obst = "END"], "goto_obstacle")
       \/ /\ st.obst = "ALIGN"
          /\ Becomes(bot_turn_st([st EXCEPT !.obst = "END"]), "goto_obstacle")
          /\ beh' = bot_turn(beh, "goto_obstacle")
       \/ /\ st.obst = "END" /\ Becomes(st, "goto_obstacle")
          /\ beh' = return_from_behaviour(beh, "goto_obstacle")

bot_goto_obstacle(s) == [s EXCEPT !.obst = "GOTO_DIST"]

-----------------------------------------------------------------------------
(* The drives ahead of bot_drive_area, with a guard against the table's edge. *)
GuardedDist ==
    LET s == bot_goto_dist_head(Watching(st, "hazard"), 1, TRUE)
    IN  /\ Becomes(bot_add_behaviour_to_cancel(s, "goto_pos", "hazard"), "client")
        /\ beh' = WatcherStarted(calls(beh, "client", "goto_pos"), s)

GuardedObstacle ==
    LET s == bot_goto_obstacle(st)
    IN  /\ Becomes(bot_add_behaviour_to_cancel(s, "goto_pos", "hazard"), "client")
        /\ beh' = WatcherStarted(calls(beh, "client", "goto_obstacle"), s)

(* A drive to a position, with or without a heading at its end. *)
PlainDrive ==
    /\ \E head \in BOOLEAN : Becomes(bot_goto_pos(Watching(st, "none"), head), "client")
    /\ beh' = calls(beh, "client", "goto_pos")

BackwardDrive ==
    /\ \E head \in BOOLEAN : Becomes(bot_goto_dist_head(Watching(st, "none"), -1, head), "client")
    /\ beh' = calls(beh, "client", "goto_pos")

Client ==
    /\ Turn("client")
    /\ GuardedDist \/ GuardedObstacle \/ PlainDrive \/ BackwardDrive

StartClient ==
    /\ BetweenWalks
    /\ \A b \in Names \ {"cancel"} : ~Active(b) /\ beh[b].subResult # RUNNING
    /\ beh' = calls(beh, "none", "client")
    /\ UNCHANGED st

DriveNext ==
    \/ bot_behaviour_cancel_behaviour
    \/ bot_turn_behaviour
    \/ bot_goto_pos_behaviour
    \/ bot_goto_obstacle_behaviour
    \/ Client
    \/ NextWalk
    \/ StartClient
    \/ BetweenWalks /\ EmergencyStop

-----------------------------------------------------------------------------
DriveTypeOK ==
    /\ beh \in [Names -> Record]
    /\ st.state \in {"FIRST_TURN", "CALC_WAY", "RUNNING", "LAST_TURN", "END"}
    /\ st.turn \in {"RUNNING", "WAIT_FOR_STOP", "END"} /\ st.wait_cnt \in 0 .. 2
    /\ st.drive_dir \in {1, -1} /\ st.head \in BOOLEAN
    /\ st.obst \in {"GOTO_DIST", "ALIGN", "END"}
    /\ \A i \in 1 .. MAX_JOBS : st.jobs[i] = NoJob \/ st.jobs[i] \in [beh : Names, cond : Conditions]

UnderWay(b) == beh[b].active \/ beh[b].subResult = RUNNING

(* A drive that was given a condition is watched until it ends, through its *)
(* turns and while another one is set up, unless the table was full: the    *)
(* watcher neither drops the entry early nor goes to sleep over it          *)
(* (behaviour_cancel_behaviour.c:56-84).                                    *)
WatchedDriveIsWatched ==
    UnderWay("goto_pos") /\ st.watch # "none" =>
        \/ Active("cancel") /\ [beh |-> "goto_pos", cond |-> st.watch] \in Range(st.jobs)
        \/ Free(st.jobs) = {}
=============================================================================
