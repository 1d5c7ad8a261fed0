------------------------------- MODULE DriveStack -------------------------------
(***************************************************************************)
(* Recording the way and driving it back (bot-logic/behaviour_drive_stack.c) *)
(* and the pursuit of an object, which does both                            *)
(* (behaviour_follow_object.c).  Recorder and drive share one pointer to a  *)
(* position store, pos_store; there are the store of the recorder, "way",   *)
(* and one of another behaviour, "other".                                   *)
(***************************************************************************)
EXTENDS Naturals, Sequences, SequencesExt

CONSTANTS
    WAY_SIZE,     \* places of a store
    MAX_PLACES    \* places the robot can be at

VARIABLES beh, st

Prio == [save_waypos |-> 190, goto_pos |-> 146, follow_object |-> 40, drive_stack |-> 33]
Names == DOMAIN Prio

INSTANCE Routine WITH Behaviours <- Names, prio <- Prio, NoBeh <- "none", Unlisted <- "unlisted"

Places == 1 .. MAX_PLACES
Ways == {"way", "other"}
NoStore == "null"

StackInit ==
    /\ beh = [b \in Names |-> Idle]
    /\ st = [drivestack |-> "pop", put_stack_active |-> FALSE, go_fifo |-> FALSE,
             pos_store |-> NoStore, exists |-> FALSE,      \* the store of the recorder
             way |-> <<>>, other |-> <<1>>,
             waypos |-> "new", optimized |-> 0,
             object |-> "wait", moved |-> FALSE,
             first |-> 1,          \* the position that was stored first, where the way began
             whole |-> TRUE,       \* and that nothing has taken from the other end
             astray |-> FALSE]     \* the drive is at another place than that

Store(s) == IF s.pos_store = NoStore THEN <<>> ELSE s[s.pos_store]
Stored(s, seq) == IF s.pos_store = NoStore THEN s ELSE [s EXCEPT ![s.pos_store] = seq]
pushed(seq, p) == IF Len(seq) < WAY_SIZE THEN Append(seq, p) ELSE seq

-----------------------------------------------------------------------------
(* The recorder. *)
bot_save_waypos(s, optimize) ==
    [s EXCEPT !.optimized = optimize, !.drivestack = "pop", !.waypos = "new"]

NewWay ==
    /\ st.waypos = "new"
    /\ \/ \E p \in Places :
            Goes([st EXCEPT !.pos_store = "way", !.exists = TRUE, !.way = <<p>>,
                            !.waypos = "record", !.first = p, !.whole = TRUE])
       \/ /\ ~st.exists
          /\ st' = [st EXCEPT !.pos_store = NoStore]       \* no memory
          /\ beh' = exit_behaviour(beh, "save_waypos", FAIL)

(* Three positions on a straight line: the middle one is left out, three    *)
(* times on end at most.                                                    *)
Straightened(s, skip) ==
    IF skip /\ s.optimized >= 1 /\ Len(Store(s)) >= 2 THEN Stored(s, Front(Store(s))) ELSE s

(* Mutant of LoopRemoved: one position more is dropped. *)
LoopRemovedWhole(s, i) ==
    IF s.optimized < 2 \/ i > Len(Store(s)) THEN s
    ELSE Stored(s, SubSeq(Store(s), 1, Len(Store(s)) - i))

(* The robot is near the i-th position from the top again: what has been    *)
(* recorded since then is a loop.                                           *)
LoopRemoved(s, i) ==
    IF s.optimized < 2 \/ i > Len(Store(s)) THEN s
    ELSE Stored(s, SubSeq(Store(s), 1, Len(Store(s)) - i + 1))

Shortened ==
    {LoopRemoved(Straightened(st, skip), i) : skip \in BOOLEAN, i \in 2 .. Len(Store(st)) + 1}

Record_ ==
    /\ st.waypos = "record" /\ Stays
    /\ \/ UNCHANGED st                                     \* not far enough, or straight on
       \/ \E s \in Shortened, p \in Places : st' = Stored(s, pushed(Store(s), p))

bot_save_waypos_behaviour == Active("save_waypos") /\ (NewWay \/ Record_)

-----------------------------------------------------------------------------
(* The drive along a store; the recorder rests meanwhile. *)
Pop ==
    /\ st.drivestack = "pop"
    /\ IF Store(st) = <<>> THEN Goes([st EXCEPT !.drivestack = "end"])
       ELSE LET p == IF st.go_fifo THEN Head(Store(st)) ELSE Last(Store(st))
                rest == IF st.go_fifo THEN Tail(Store(st)) ELSE Front(Store(st))
            IN  Calls([Stored(st, rest) EXCEPT !.astray = p # st.first,
                              !.whole = @ /\ ~(st.go_fifo /\ st.pos_store = "way")], "drive_stack", "goto_pos")

EndOfStack ==
    /\ st.drivestack = "end"
    /\ LET t == return_from_behaviour(beh, "drive_stack")
           s == [st EXCEPT !.pos_store = NoStore]
       IN  IF st.put_stack_active
           THEN beh' = activateBehaviour(t, "none", "save_waypos") /\ st' = bot_save_waypos(s, st.optimized)
           ELSE beh' = t /\ st' = s

bot_drive_stack_behaviour == Active("drive_stack") /\ (Pop \/ EndOfStack)

bot_drive_stack_x(s, b, store, fifo) ==
    /\ beh' = calls(deactivate_behaviour(beh, "save_waypos"), b, "drive_stack")
    /\ st' = [s EXCEPT !.put_stack_active = Active("save_waypos"), !.pos_store = store,
                        !.drivestack = "pop", !.go_fifo = fifo, !.astray = FALSE]

-----------------------------------------------------------------------------
(* The pursuit: when nothing has been seen for ten seconds it drives back. *)
bot_follow_object_behaviour ==
    /\ Active("follow_object")
    /\ \/ st.object = "wait" /\ \E x \in {"wait", "update"} : Goes([st EXCEPT !.object = x])
       \/ st.object = "update" /\ Goes([st EXCEPT !.object = "wait"])         \* something is seen
       \/ st.object = "update" /\ ~st.moved /\ Goes([st EXCEPT !.moved = TRUE])
       \/ st.object = "update" /\ st.moved /\ Goes(st)
       \/ /\ st.object = "update" /\ st.moved /\ st.exists
          /\ bot_drive_stack_x([st EXCEPT !.moved = FALSE], "follow_object", "way", FALSE)

(* With the recorder in the background, that has this behaviour as caller. *)
bot_follow_object ==
    /\ Quiet
    /\ beh' = activateBehaviour(calls(beh, "none", "follow_object"), "follow_object", "save_waypos")
    /\ st' = [bot_save_waypos(st, 1) EXCEPT !.object = "wait"]

-----------------------------------------------------------------------------
Driving == Active("drive_stack") \/ beh["drive_stack"].subResult = RUNNING

(* The keys of the display; the drive needs a store. *)
drivestack_disp_key_handler ==
    \/ st.exists /\ st.way # <<>> /\ \E p \in Places : Goes([st EXCEPT !.way = pushed(@, p)])   \* bot_push_actpos
    \/ \E fifo \in BOOLEAN : st.exists /\ bot_drive_stack_x(st, "none", "way", fifo)
    \/ bot_drive_stack_x(st, "none", "other", TRUE)
    \/ /\ ~Driving /\ beh' = activateBehaviour(beh, "none", "save_waypos")
       /\ \E optimize \in {1, 2} : st' = bot_save_waypos(st, optimize)
    \/ ~Driving /\ ~Active("save_waypos") /\ Goes(Stored(st, <<>>))

StackNext ==
    \/ bot_save_waypos_behaviour
    \/ bot_drive_stack_behaviour
    \/ bot_follow_object_behaviour
    \/ bot_follow_object
    \/ drivestack_disp_key_handler
    \/ Ends("goto_pos", {SUCCESS})
    \/ EmergencyStop

StackSpec == StackInit /\ [][StackNext]_<<beh, st>>

-----------------------------------------------------------------------------
StackTypeOK ==
    /\ beh \in [Names -> Record]
    /\ \A w \in Ways : st[w] \in BoundedSeq(Places, WAY_SIZE)
    /\ st.pos_store \in Ways \cup {NoStore}

(* A drive back over the recorded way ends where the way began, whatever of *)
(* it was left out while recording, however often it is stopped and started *)
(* again, and though the recorder works on the same pointer; as long as no  *)
(* recording is started by key while the robot drives                       *)
(* (behaviour_drive_stack.c:77-108, 245-340).                               *)
DriveEndsAtStart ==
    Active("drive_stack") /\ st.drivestack = "end" /\ st.pos_store = "way" /\ ~st.go_fifo /\ st.whole
        => ~st.astray
=============================================================================
