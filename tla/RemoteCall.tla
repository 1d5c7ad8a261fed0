------------------------------ MODULE RemoteCall ------------------------------
(***************************************************************************)
(* Remote calls (bot-logic/behaviour_remotecall.c): the simulator, the      *)
(* keypad or an ABL program orders a call by name; the behaviour of the     *)
(* highest priority starts the behaviour that was asked for and answers     *)
(* when that has ended.  One order is under way at a time.  The other       *)
(* behaviours do what BehaviourControl lets them do.                        *)
(***************************************************************************)
EXTENDS BehaviourControl

CONSTANTS
    remotecall,  \* bot_remotecall_behaviour
    abl,         \* bot_abl_behaviour, which runs ABL programs
    Functions,   \* the entries of remotecall_beh_list: the behaviours they
                 \* start, or a name for one that does its work at once
    NoFunction,  \* function_id 255
    EarlyStop,   \* whether the emergency stop may come between an order
                 \* and the walk that starts it
    Overlap      \* whether a keypad order and an ABL program may overlap

ASSUME RemoteAssumption ==
    /\ {remotecall, abl} \subseteq Behaviours /\ remotecall # abl
    /\ \A b \in Behaviours \ {remotecall} : prio[b] < prio[remotecall]
    /\ {remotecall, abl} \cap Functions = {}
    /\ NoFunction \notin Functions
    /\ {EarlyStop, Overlap} \subseteq BOOLEAN

VARIABLES
    running_behaviour,  \* IDLE, SCHEDULED or RUNNING
    function_id,        \* which entry was ordered
    origin              \* who waits for the answer (not a variable of the code)

callVars == <<running_behaviour, function_id, origin>>
remoteVars == <<beh, job, callVars>>

States == {"IDLE", "SCHEDULED", "RUNNING"}
Nobody == "nobody"
Clients == {"sim", "abl", "keypad"}

NoOverride == [override |-> FALSE, background |-> FALSE]
FgModes == {mode \in Modes : ~mode.background}

-----------------------------------------------------------------------------
RemoteInit ==
    /\ Init
    /\ ~beh[remotecall].active
    /\ ~beh[abl].active
    /\ running_behaviour = "IDLE"
    /\ function_id = NoFunction
    /\ origin = Nobody

(* Mutant of bot_remotecall_from_id: an order under way does not matter. *)
OrderAlways(caller, who, fn) ==
    /\ beh' = switch_to_behaviour(beh, caller, remotecall, NoOverride)
    /\ running_behaviour' = "SCHEDULED"
    /\ function_id' = fn
    /\ origin' = who

(* An accepted order.  Whether switch_to_behaviour() refuses is not looked  *)
(* at.  While another order is under way the code returns -1 and does       *)
(* nothing.                                                                 *)
bot_remotecall_from_id(caller, who, fn) ==
    /\ running_behaviour = "IDLE"
    /\ beh' = switch_to_behaviour(beh, caller, remotecall, NoOverride)
    /\ running_behaviour' = "SCHEDULED"
    /\ function_id' = fn
    /\ origin' = who

(* The records after the work routine of bot_remotecall_behaviour. *)
RemoteWorked(t, mode) ==
    IF running_behaviour # "SCHEDULED" THEN exit_behaviour(t, remotecall, SUCCESS)
    ELSE IF function_id \in Behaviours
         THEN switch_to_behaviour(t, remotecall, function_id, mode)
         ELSE t

(* What the routine does besides: when RUNNING it answers, the simulator if *)
(* the behaviour has no caller, else the stack of the calling program.      *)
RemoteAnswers ==
    IF running_behaviour = "SCHEDULED"
    THEN running_behaviour' = "RUNNING" /\ UNCHANGED <<function_id, origin>>
    ELSE /\ running_behaviour' = "IDLE"
         /\ function_id' = IF running_behaviour = "RUNNING" THEN NoFunction ELSE function_id
         /\ origin' = IF running_behaviour = "RUNNING" THEN Nobody ELSE origin

(* The walk goes on with the records t. *)
WalkOn(t) == LET lower == ActiveBelow(t, prio[job])
             IN  IF lower = {} THEN job' = NoBeh ELSE job' \in lower

bot_remotecall_behaviour ==
    /\ job = remotecall
    /\ \E mode \in FgModes : beh' = RemoteWorked(beh, mode)
    /\ RemoteAnswers
    /\ WalkOn(beh')

-----------------------------------------------------------------------------
(* The command SUB_REMOTE_CALL_ORDER. *)
Order(fn) == /\ job = NoBeh
             /\ bot_remotecall_from_id(NoBeh, "sim", fn)
             /\ UNCHANGED job

(* The display enters the remote-call behaviour as its own caller. *)
KeypadOrder(fn) == /\ job = NoBeh
                   /\ Overlap \/ ~beh[abl].active
                   /\ bot_remotecall_from_id(remotecall, "keypad", fn)
                   /\ UNCHANGED job

bot_remotecall_cancel(mode) == RemoteWorked(deactivate_called_behaviours(beh, remotecall), mode)

(* The command SUB_REMOTE_CALL_ABORT. *)
Abort == /\ job = NoBeh
         /\ \E mode \in FgModes : beh' = bot_remotecall_cancel(mode)
         /\ RemoteAnswers
         /\ UNCHANGED job

(* Mutant of rc5_emergency_stop: remote calls are not cancelled. *)
StopBehavioursOnly ==
    /\ job = NoBeh
    /\ EarlyStop \/ running_behaviour # "SCHEDULED"
    /\ beh' = deactivateAllBehaviours(beh)
    /\ UNCHANGED <<job, callVars>>

(* The power key of the remote control, looked at in the same round of the  *)
(* main loop as the commands, behind them.                                  *)
rc5_emergency_stop ==
    /\ job = NoBeh
    /\ EarlyStop \/ running_behaviour # "SCHEDULED"
    /\ \E mode \in FgModes : beh' = deactivateAllBehaviours(bot_remotecall_cancel(mode))
    /\ RemoteAnswers
    /\ UNCHANGED job

-----------------------------------------------------------------------------
(* An ABL program: an instruction that calls, ... *)
AblCall(fn) ==
    /\ job = abl
    /\ bot_remotecall_from_id(abl, "abl", fn)
    /\ WalkOn(beh')

(* ... the end of the program, which a call that is refused brings as well, ... *)
AblEnd ==
    /\ job = abl
    /\ beh' = exit_behaviour(beh, abl, SUCCESS)
    /\ WalkOn(beh')
    /\ UNCHANGED callVars

(* ... or any other instruction. *)
AblStep ==
    /\ job = abl
    /\ EndWork(FALSE)
    /\ UNCHANGED callVars

bot_abl ==
    /\ job = NoBeh
    /\ Overlap \/ beh[remotecall].caller # remotecall
    /\ beh' = switch_to_behaviour(beh, NoBeh, abl, [NoOverride EXCEPT !.override = TRUE])
    /\ UNCHANGED <<job, callVars>>

(* The end of a program by command or key: the remote-call behaviour is     *)
(* called once more to tidy up.                                             *)
abl_cancel ==
    /\ job = NoBeh
    /\ LET off == deactivate_behaviour(deactivate_called_behaviours(beh, abl), abl)
       IN  beh' = switch_to_behaviour(off, NoBeh, remotecall,
                                      [override |-> FALSE, background |-> TRUE])
    /\ origin' = IF origin = "abl" THEN Nobody ELSE origin
    /\ UNCHANGED <<job, running_behaviour, function_id>>

-----------------------------------------------------------------------------
Other(b) == b \notin {remotecall, abl, NoBeh}

OtherCalls == /\ Other(job)
              /\ \E to \in Behaviours, mode \in Modes : Call(to, mode)
              /\ UNCHANGED callVars

OtherReturns(b) == /\ job = b
                   /\ Other(b)
                   /\ \E state \in {SUCCESS, FAIL} : Return(state)
                   /\ UNCHANGED callVars

OtherEnds == /\ Other(job)
             /\ \E wish \in BOOLEAN : EndWork(wish)
             /\ UNCHANGED callVars

OtherStarts == /\ \E to \in Startable, mode \in Modes : Start(to, mode)
               /\ UNCHANGED callVars

RemoteWalk == BeginWalk /\ UNCHANGED callVars

RemoteNext ==
    \/ RemoteWalk
    \/ bot_remotecall_behaviour
    \/ \E fn \in Functions : Order(fn)
    \/ \E fn \in Functions : KeypadOrder(fn)
    \/ Abort
    \/ rc5_emergency_stop
    \/ \E fn \in Functions : AblCall(fn)
    \/ AblEnd
    \/ AblStep
    \/ bot_abl
    \/ abl_cancel
    \/ OtherCalls
    \/ \E b \in Behaviours : OtherReturns(b)
    \/ OtherEnds
    \/ OtherStarts

(* The main loop calls bot_behave() again and again and every work routine  *)
(* returns to it.  A behaviour that is run again and again ends some time:  *)
(* this is what its routine promises, not the scheduling.                   *)
RemoteSpec ==
    /\ RemoteInit
    /\ [][RemoteNext]_remoteVars
    /\ WF_remoteVars(RemoteWalk)
    /\ WF_remoteVars(bot_remotecall_behaviour)
    /\ WF_remoteVars(AblEnd \/ AblStep)
    /\ WF_remoteVars(OtherEnds)
    /\ \A b \in Behaviours : SF_remoteVars(OtherReturns(b))

-----------------------------------------------------------------------------
RemoteTypeOK == /\ TypeOK
                /\ running_behaviour \in States
                /\ function_id \in Functions \cup {NoFunction}
                /\ origin \in Clients \cup {Nobody}

(* An accepted order stays under way until its answer, and the caller field *)
(* that decides who gets the answer names its client all the time, though   *)
(* the result of switch_to_behaviour() is ignored: no answer for an ABL     *)
(* program goes to the simulator or the other way round                     *)
(* (behaviour_remotecall.c:389-406).                                        *)
AnswerGoesToClient ==
    /\ origin # Nobody => running_behaviour # "IDLE"
    /\ origin = "sim" => beh[remotecall].caller = NoBeh
    /\ origin = "abl" => beh[remotecall].caller = abl

(* A running order has its behaviour at work below it, or is to be answered *)
(* in the next walk: it is never orphaned.                                  *)
RunningIsServed ==
    running_behaviour = "RUNNING"
        => \/ beh[remotecall].active
           \/ \E c \in Called(beh, remotecall) : beh[c].active

(* Types, and behaviour_remotecall.c:351: an order that runs is served.      *)
RemoteInv == RemoteTypeOK /\ RunningIsServed

(* Who orders a call gets an answer (behaviour_remotecall.c:342-344: the    *)
(* behaviour starts what was asked for and gives feedback when it ends).    *)
OrderIsAnswered == \A who \in Clients : origin = who ~> origin # who
=============================================================================
