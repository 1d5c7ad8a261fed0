-------------------------------- MODULE Routine --------------------------------
(***************************************************************************)
(* What the work routines of the behaviours share.  A routine is entered    *)
(* anew in every round; what it remembers stands in static variables, all   *)
(* kept in the record st here.  They survive the end of the behaviour, an   *)
(* abort and the emergency stop: only the function that starts the          *)
(* behaviour sets some of them.  The records of the behaviours, beh, are    *)
(* changed by the functions of BehaviourRecords only.                       *)
(*                                                                          *)
(* Modules of single behaviours instantiate this one with the names of      *)
(* their behaviours and of those they call.  Any active routine may be the  *)
(* next to run, which covers every order of priorities.                     *)
(***************************************************************************)
EXTENDS BehaviourRecords

VARIABLES
    beh,   \* the records of the behaviours
    st     \* the static variables of their routines

Idle == [active |-> FALSE, caller |-> NoBeh, subResult |-> SUCCESS]

Active(b) == beh[b].active

(* The ways to call. *)
Over == [override |-> TRUE, background |-> FALSE]
Polite == [override |-> FALSE, background |-> FALSE]
Behind == [override |-> FALSE, background |-> TRUE]

calls(t, from, to) == switch_to_behaviour(t, from, to, Over)
asks(t, from, to) == switch_to_behaviour(t, from, to, Polite)
activateBehaviour(t, from, to) == switch_to_behaviour(t, from, to, Behind)
return_from_behaviour(t, b) == exit_behaviour(t, b, SUCCESS)

(* The work routine of b computes and stays. *)
Stays == UNCHANGED beh

(* What one round of a routine may do: go on, call another one, or return. *)
Goes(s) == st' = s /\ Stays
Calls(s, b, to) == st' = s /\ beh' = calls(beh, b, to)
Asks(s, b, to) == st' = s /\ beh' = asks(beh, b, to)
Returns(s, b) == st' = s /\ beh' = return_from_behaviour(beh, b)

(* No behaviour below the emergency behaviours is under way. *)
Quiet == \A b \in Behaviours : Normal(b) => ~Active(b) /\ beh[b].subResult # RUNNING

-----------------------------------------------------------------------------
(* A called behaviour whose routine is not looked at ends some time. *)
Ends(b, results) ==
    /\ Active(b)
    /\ \E r \in results : beh' = exit_behaviour(beh, b, r)
    /\ UNCHANGED st

(* bot_behaviour_cancel_behaviour stops b, with all that it has called. *)
Stopped(b) ==
    /\ Active(b) \/ beh[b].subResult = RUNNING
    /\ beh' = exit_behaviour(deactivate_called_behaviours(beh, b), b, CANCEL)
    /\ UNCHANGED st

(* The power key. *)
EmergencyStop ==
    /\ \E b \in Behaviours : Normal(b) /\ (Active(b) \/ beh[b].subResult = RUNNING)
    /\ beh' = deactivateAllBehaviours(beh)
    /\ UNCHANGED st
=============================================================================
