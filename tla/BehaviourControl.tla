--------------------------- MODULE BehaviourControl ---------------------------
(***************************************************************************)
(* The behaviour control of the robot (bot-logic/bot-logic.c).              *)
(* bot_behave() walks the list from the highest priority to the lowest and  *)
(* runs the work routine of each active behaviour until one of them sets    *)
(* the speed of the motors.  A work routine may call another behaviour in   *)
(* the foreground (it then sleeps until the callee returns) or in the       *)
(* background, may return to its own caller, and may stop other behaviours. *)
(* Between two walks the main loop handles commands and keys, which start   *)
(* and stop behaviours with no calling behaviour.                           *)
(*                                                                          *)
(* Which behaviour calls or stops which is a constant: it is the static     *)
(* call graph of the work routines.                                         *)
(***************************************************************************)
EXTENDS BehaviourRecords

CONSTANTS
    FgCalls,      \* <<f, t>>: the work routine of f calls t in the foreground
    BgCalls,      \* <<f, t>>: it calls t in the background
    Deactivates,  \* <<b, t>>: the work routine of b calls deactivate_behaviour(t);
                  \* with NoBeh for b, a key or a command does
    Startable,    \* the behaviours that keys and commands start
    Cancelled     \* the behaviours that bot_behaviour_cancel_behaviour may watch

ASSUME CallsAssumption ==
    /\ FgCalls \subseteq Behaviours \X (Behaviours \cup {Unlisted})
    /\ BgCalls \subseteq Behaviours \X (Behaviours \cup {Unlisted})
    /\ Deactivates \subseteq (Behaviours \cup {NoBeh}) \X Behaviours
    /\ Startable \subseteq Behaviours
    /\ Cancelled \subseteq Behaviours

VARIABLES
    beh,   \* the records of the list
    job    \* whose work routine bot_behave() is running, NoBeh between two walks

vars == <<beh, job>>

-----------------------------------------------------------------------------
(* The records after bot_behave_init(): nobody is called, any subset of the *)
(* behaviours is active from the start.                                     *)
Init ==
    /\ beh \in [Behaviours -> [active : BOOLEAN, caller : {NoBeh}, subResult : {SUCCESS}]]
    /\ job = NoBeh

(* The next active behaviour of the list below priority p. *)
ActiveBelow(t, p) ==
    {b \in Behaviours : /\ t[b].active
                        /\ prio[b] < p
                        /\ \A c \in Behaviours : t[c].active /\ prio[c] < p => prio[c] <= prio[b]}

Walk(p) == IF ActiveBelow(beh, p) = {} THEN job' = NoBeh ELSE job' \in ActiveBelow(beh, p)

(* bot_behave() begins at the head of the list. *)
BeginWalk == /\ job = NoBeh
             /\ ActiveBelow(beh, 256) # {}
             /\ Walk(256)
             /\ UNCHANGED beh

(* The work routine returns: with a speed wish the walk ends, otherwise it  *)
(* goes on with the rest of the list.                                       *)
EndWork(wish) == /\ job # NoBeh
                 /\ IF wish THEN job' = NoBeh ELSE Walk(prio[job])
                 /\ UNCHANGED beh

(* What the work routine of job may do. *)
Call(to, mode) ==
    /\ job # NoBeh
    /\ <<job, to>> \in (IF mode.background THEN BgCalls ELSE FgCalls)
    /\ beh' = switch_to_behaviour(beh, job, to, mode)
    /\ UNCHANGED job

Return(state) ==
    /\ job # NoBeh
    /\ beh' = exit_behaviour(beh, job, state)
    /\ UNCHANGED job

Deactivate(t) ==
    /\ <<job, t>> \in Deactivates
    /\ beh' = deactivate_behaviour(beh, t)
    /\ UNCHANGED job

(* bot_behaviour_cancel_behaviour ends a behaviour that runs or sleeps. *)
Cancel(t) ==
    /\ job # NoBeh
    /\ t \in Cancelled
    /\ beh[t].active \/ beh[t].subResult = RUNNING
    /\ beh' = exit_behaviour(deactivate_called_behaviours(beh, t), t, CANCEL)
    /\ UNCHANGED job

(* What commands, keys and the menu do between two walks. *)
Start(to, mode) ==
    /\ job = NoBeh
    /\ beh' = switch_to_behaviour(beh, NoBeh, to, mode)
    /\ UNCHANGED job

StopCallees(c) ==
    /\ job = NoBeh
    /\ beh' = deactivate_called_behaviours(beh, c)
    /\ UNCHANGED job

StopAll ==
    /\ job = NoBeh
    /\ beh' = deactivateAllBehaviours(beh)
    /\ UNCHANGED job

Next ==
    \/ BeginWalk
    \/ \E wish \in BOOLEAN : EndWork(wish)
    \/ \E to \in Behaviours \cup {Unlisted}, mode \in Modes : Call(to, mode)
    \/ \E state \in {SUCCESS, FAIL} : Return(state)
    \/ \E t \in Behaviours : Deactivate(t)
    \/ \E t \in Behaviours : Cancel(t)
    \/ \E to \in Startable, mode \in Modes : Start(to, mode)
    \/ \E c \in Behaviours : StopCallees(c)
    \/ StopAll

Spec == Init /\ [][Next]_vars

-----------------------------------------------------------------------------
(* The records hold values of their types and job points into the list. *)
TypeOK == /\ beh \in [Behaviours -> Record]
          /\ job \in Behaviours \cup {NoBeh}

(* A behaviour that sleeps until a callee returns. *)
Sleeping(b) == ~beh[b].active /\ beh[b].subResult = RUNNING

(* Nobody sleeps for ever: below every sleeping behaviour the call          *)
(* hierarchy holds an active one, whose return or cancellation climbs back  *)
(* up.  bot-logic.c:582-588: a foreground caller is switched off only as    *)
(* long as its callee runs.                                                 *)
SleeperIsServed ==
    \A b \in Behaviours : Sleeping(b) => \E c \in Called(beh, b) : beh[c].active

(* A step of deactivate_called_behaviours(c) leaves nobody below c, and c   *)
(* itself awake (bot-logic.c:518-519).                                      *)
StopCalleesStops ==
    [][\A c \in Behaviours :
        beh' = deactivate_called_behaviours(beh, c)
            => Called(beh', c) = {} /\ beh'[c].active]_vars

(* deactivateAllBehaviours() resets for good: no call that is still under   *)
(* way names a behaviour that was reset as the one to wake on its return.   *)
(* bot-logic.c:678 and ui/rc5.c:78-79: all behaviours but the basic ones    *)
(* are reset and the robot stops.                                           *)
StopAllIsFinal ==
    [][beh' = deactivateAllBehaviours(beh)
        => \A b \in Behaviours : Normal(b) => Callees(beh', b) = {}]_vars
=============================================================================
