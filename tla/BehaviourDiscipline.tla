-------------------------- MODULE BehaviourDiscipline --------------------------
(***************************************************************************)
(* The rules of the call graph under which the bookkeeping of               *)
(* bot-logic.c is correct, and the invariant that carries the argument.     *)
(* The code does not state the rules, and two of its behaviours break one   *)
(* each (README, section 4).                                                  *)
(***************************************************************************)
EXTENDS BehaviourControl

Calls == FgCalls \cup BgCalls

(* No work routine calls, over any number of stages, itself: every group of *)
(* behaviours has one that calls none of them and one that none of them     *)
(* calls.  (For the finite list of behaviours each half implies the other.) *)
ASSUME CallTreeAssumption ==
    \A S \in SUBSET Behaviours :
        S # {} => /\ \E x \in S : \A y \in S : <<x, y>> \notin Calls
                  /\ \E x \in S : \A y \in S : <<y, x>> \notin Calls

(* Somebody switches b off with deactivate_behaviour(), which tells nobody. *)
SwitchedOffByOthers(b) == \E c \in Behaviours \cup {NoBeh} : <<c, b>> \in Deactivates

(* Such a behaviour is never called in the foreground. *)
ASSUME BackgroundAssumption ==
    \A f, t \in Behaviours : <<f, t>> \in FgCalls => ~SwitchedOffByOthers(t)

(* No call crosses the limits of deactivateAllBehaviours(). *)
ASSUME RangeAssumption ==
    \A f, t \in Behaviours : <<f, t>> \in Calls => (Normal(f) <=> Normal(t))

-----------------------------------------------------------------------------
(* Only a routine that calls b is ever its caller. *)
CallersCall(t) ==
    \A b \in Behaviours : t[b].caller # NoBeh => <<t[b].caller, b>> \in Calls

(* b counts on a callee: it sleeps, or it took the result RUNNING into a    *)
(* second activation, or it owes its own caller a return.                   *)
Expecting(t, b) == \/ t[b].subResult = RUNNING
                   \/ ~t[b].active /\ t[b].caller # NoBeh

(* Who counts on a callee has one that nobody switches off silently. *)
ExpectingHasCallee(t) ==
    \A b \in Behaviours :
        Expecting(t, b) => \E c \in Callees(t, b) : ~SwitchedOffByOthers(c)

(* The inductive invariant of the records. *)
CallsInv == /\ TypeOK
            /\ CallersCall(beh)
            /\ ExpectingHasCallee(beh)
=============================================================================
