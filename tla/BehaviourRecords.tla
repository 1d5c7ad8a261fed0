--------------------------- MODULE BehaviourRecords ---------------------------
(***************************************************************************)
(* The records of the behaviours and what the functions of                  *)
(* bot-logic/bot-logic.c do to them.  Every behaviour of the priority list  *)
(* has a record with the fields active, caller and subResult; each function *)
(* here maps all the records, t, to the records after the call.             *)
(***************************************************************************)
EXTENDS Integers, FiniteSets

CONSTANTS
    Behaviours,   \* the behaviours of the priority list
    NoBeh,        \* the NULL pointer
    Unlisted,     \* a work routine that no entry of the list implements
    prio          \* the priority of each behaviour, all different

ASSUME NamesAssumption == /\ NoBeh \notin Behaviours
                          /\ Unlisted \notin Behaviours
                          /\ NoBeh # Unlisted
ASSUME PrioAssumption ==
    /\ prio \in [Behaviours -> 0 .. 255]
    /\ \A b, c \in Behaviours : prio[b] = prio[c] => b = c

FAIL     == "BEHAVIOUR_SUBFAIL"
SUCCESS  == "BEHAVIOUR_SUBSUCCESS"
RUNNING  == "BEHAVIOUR_SUBRUNNING"
CANCEL   == "BEHAVIOUR_SUBCANCEL"
BACKGR   == "BEHAVIOUR_SUBBACKGR"

SubResults == {FAIL, SUCCESS, RUNNING, CANCEL, BACKGR}

Record == [active : BOOLEAN, caller : Behaviours \cup {NoBeh}, subResult : SubResults]

Modes == [override : BOOLEAN, background : BOOLEAN]

PrioMin == 3
PrioMax == 200

-----------------------------------------------------------------------------
Callees(t, c) == {b \in Behaviours : t[b].caller = c}

deactivate_behaviour(t, b) ==
    [t EXCEPT ![b].active = FALSE, ![b].caller = NoBeh]

(* Mutant of Wake: the result is taken from the other field's constants. *)
WakeStoresActive(t, p, state) ==
    IF p = NoBeh THEN t
    ELSE [t EXCEPT ![p] = [active |-> TRUE, caller |-> @.caller, subResult |-> "BEHAVIOUR_ACTIVE"]]

(* The caller p of a behaviour goes on and finds the result in its record. *)
Wake(t, p, state) ==
    IF p = NoBeh THEN t
    ELSE [t EXCEPT ![p] = [active |-> TRUE, caller |-> @.caller, subResult |-> state]]

exit_behaviour(t, b, state) ==
    LET woken == Wake([t EXCEPT ![b].active = FALSE], t[b].caller, state)
    IN  [woken EXCEPT ![b].caller = NoBeh]

(* The target of a call is still occupied. *)
Busy(t, to) == \/ t[to].caller # NoBeh
               \/ t[to].active
               \/ t[to].subResult = RUNNING

(* The early returns of switch_to_behaviour: nobody implements the target,  *)
(* or it is occupied and may not be overridden.                             *)
Refused(t, to, mode) == \/ to \notin Behaviours
                        \/ Busy(t, to) /\ ~mode.override

SuspendCaller(t, from, mode) ==
    IF from = NoBeh THEN t
    ELSE IF mode.background
         THEN [t EXCEPT ![from].subResult = BACKGR]
         ELSE [t EXCEPT ![from] = [active |-> FALSE, caller |-> @.caller,
                                   subResult |-> RUNNING]]

(* Mutant of switch_to_behaviour: the old caller of the target learns nothing. *)
SwitchSilently(t, from, to, mode) ==
    IF Refused(t, to, mode)
    THEN IF from = NoBeh THEN t ELSE [t EXCEPT ![from].subResult = FAIL]
    ELSE [SuspendCaller(t, from, mode) EXCEPT
             ![to] = [active |-> TRUE, caller |-> from, subResult |-> @.subResult]]

(* An occupied target that is overridden is taken from its old caller, *)
(* which learns that it failed.                                        *)
switch_to_behaviour(t, from, to, mode) ==
    IF Refused(t, to, mode)
    THEN IF from = NoBeh THEN t ELSE [t EXCEPT ![from].subResult = FAIL]
    ELSE LET taken == Wake(t, t[to].caller, FAIL)
         IN  [SuspendCaller(taken, from, mode) EXCEPT
                 ![to] = [active |-> TRUE, caller |-> from, subResult |-> @.subResult]]

(* The behaviours below c in the call hierarchy: isInCallHierarchy(b, c)    *)
(* returns a level > 0 exactly for these.  The walk from b stops at c, so   *)
(* what c's own caller field says does not matter.                          *)
Called(t, c) ==
    {b \in Behaviours :
        \A S \in SUBSET Behaviours :
            (\A x \in Behaviours \ {c} : t[x].caller \in S \cup {c} => x \in S)
                => b \in S}

(* Mutant of SwitchedOff: only the active behaviours that called nobody. *)
SwitchedOffLeaves(t, c) == {b \in Called(t, c) : t[b].active /\ Callees(t, b) = {}}

(* The walks of deactivate_called_behaviours start at the active behaviours *)
(* below c and go up; a behaviour is switched off when nobody has it as     *)
(* caller any more.  So a leaf goes when it is active, any other when all   *)
(* those it has called have gone.                                           *)
SwitchedOff(t, c) ==
    {b \in Called(t, c) :
        \A S \in SUBSET Called(t, c) :
            (\A x \in Called(t, c) :
                /\ Callees(t, x) \subseteq S
                /\ Callees(t, x) = {} => t[x].active
                => x \in S)
                => b \in S}

(* Mutant of deactivate_called_behaviours: c itself is not woken. *)
StopWithoutWaking(t, c) ==
    [b \in Behaviours |->
        IF b \in SwitchedOff(t, c)
        THEN [active |-> FALSE, caller |-> NoBeh, subResult |-> CANCEL]
        ELSE t[b]]

deactivate_called_behaviours(t, c) ==
    [b \in Behaviours |->
        IF b = c THEN [t[b] EXCEPT !.active = TRUE, !.subResult = CANCEL]
        ELSE IF b \in SwitchedOff(t, c)
             THEN [active |-> FALSE, caller |-> NoBeh, subResult |-> CANCEL]
             ELSE t[b]]

Normal(b) == prio[b] \in PrioMin .. PrioMax

(* Mutant of deactivateAllBehaviours: the callers stay entered. *)
ResetKeepsCallers(t) ==
    [b \in Behaviours |->
        IF Normal(b) THEN [t[b] EXCEPT !.active = FALSE, !.subResult = CANCEL]
        ELSE t[b]]

deactivateAllBehaviours(t) ==
    [b \in Behaviours |->
        IF Normal(b) THEN [active |-> FALSE, caller |-> NoBeh, subResult |-> CANCEL]
        ELSE t[b]]
=============================================================================
