----------------------------- MODULE BehaviourList -----------------------------
(***************************************************************************)
(* The list behind the behaviour control: bot_behave_init() inserts the     *)
(* behaviours in any order into a list linked by priority, bot_behave()     *)
(* follows its pointers, and deactivate_called_behaviours() runs over it    *)
(* with its nested loops, all of them round by round.  BehaviourControl     *)
(* speaks of priorities and of the set of behaviours a stop reaches; this   *)
(* module shows that the loops compute just that (ImplementsControl).       *)
(***************************************************************************)
EXTENDS BehaviourControl

(* The calls form no ring: in each group somebody is called from nobody of  *)
(* the group.  isInCallHierarchy() would not come to an end on a ring.      *)
ASSUME NoRingAssumption ==
    \A S \in SUBSET Behaviours :
        S # {} => \E x \in S : \A y \in S : <<y, x>> \notin FgCalls \cup BgCalls

VARIABLES
    head,    \* the pointer `behaviour' to the first entry of the list
    next,    \* the field `next' of each record
    listed,  \* the behaviours bot_behave_init() has inserted so far
    loop     \* the loop that runs, with its local variables

listVars == <<head, next, listed>>
listedVars == <<beh, job, head, next, listed, loop>>

NoLoop == [at |-> "none"]

ListInit ==
    /\ Init
    /\ head = NoBeh
    /\ next = [b \in Behaviours |-> NoBeh]
    /\ listed = {}
    /\ loop = NoLoop

-----------------------------------------------------------------------------
(* insert_behaviour_to_list(): b becomes the first entry, or its place is   *)
(* searched from there.                                                     *)
BeginInsert(b) ==
    /\ loop = NoLoop
    /\ b \notin listed
    /\ IF head = NoBeh \/ prio[head] < prio[b]
       THEN /\ head' = b
            /\ next' = [next EXCEPT ![b] = head]
            /\ listed' = listed \cup {b}
            /\ UNCHANGED loop
       ELSE /\ loop' = [at |-> "insert", new |-> b, ptr |-> head]
            /\ UNCHANGED listVars
    /\ UNCHANGED <<beh, job>>

(* Mutant of Passes: the search stops at the first entry. *)
NeverPasses(p, b) == FALSE

(* The place of b is behind the entry that follows p. *)
Passes(p, b) == next[p] # NoBeh /\ prio[next[p]] >= prio[b]

PassEntry ==
    /\ loop.at = "insert"
    /\ Passes(loop.ptr, loop.new)
    /\ loop' = [loop EXCEPT !.ptr = next[@]]
    /\ UNCHANGED <<beh, job, listVars>>

LinkEntry ==
    /\ loop.at = "insert"
    /\ ~Passes(loop.ptr, loop.new)
    /\ next' = [next EXCEPT ![loop.ptr] = loop.new, ![loop.new] = next[loop.ptr]]
    /\ listed' = listed \cup {loop.new}
    /\ loop' = NoLoop
    /\ UNCHANGED <<beh, job, head>>

Ready == listed = Behaviours /\ loop = NoLoop

-----------------------------------------------------------------------------
(* The loop of bot_behave() begins at the first entry, and goes on behind   *)
(* the one whose work routine returns without a speed wish.                 *)
WalkFrom(p) == loop' = [at |-> "walk", ptr |-> p] /\ UNCHANGED job

BeginListWalk ==
    /\ Ready
    /\ job = NoBeh
    /\ WalkFrom(head)
    /\ UNCHANGED <<beh, listVars>>

EndListWork(wish) ==
    /\ Ready
    /\ job # NoBeh
    /\ IF wish THEN job' = NoBeh /\ UNCHANGED loop ELSE WalkFrom(next[job])
    /\ UNCHANGED <<beh, listVars>>

WalkOn ==
    /\ loop.at = "walk"
    /\ IF loop.ptr # NoBeh /\ ~beh[loop.ptr].active
       THEN WalkFrom(next[loop.ptr])
       ELSE job' = loop.ptr /\ loop' = NoLoop
    /\ UNCHANGED <<beh, listVars>>

(* The functions that touch single records are those of BehaviourControl. *)
OnRecords ==
    /\ Ready
    /\ \/ \E to \in Behaviours \cup {Unlisted}, mode \in Modes : Call(to, mode)
       \/ \E state \in {SUCCESS, FAIL} : Return(state)
       \/ \E t \in Behaviours : Deactivate(t)
       \/ \E to \in Startable, mode \in Modes : Start(to, mode)
       \/ StopAll
    /\ UNCHANGED <<loop, listVars>>

-----------------------------------------------------------------------------
(* deactivate_called_behaviours(c) starts at the head of the list, called   *)
(* by a command between two walks or by bot_behaviour_cancel_behaviour.     *)
BeginStop(c) ==
    /\ Ready
    /\ \/ job = NoBeh
       \/ job # NoBeh /\ c \in Cancelled /\ (beh[c].active \/ beh[c].subResult = RUNNING)
    /\ loop' = [at |-> "visit", caller |-> c, ptr |-> head, up |-> NoBeh, level |-> 0, before |-> beh]
    /\ UNCHANGED <<beh, job, listVars>>

(* The outer loop looks for active behaviours. *)
VisitEntry ==
    /\ loop.at = "visit"
    /\ loop.ptr # NoBeh
    /\ loop' = IF beh[loop.ptr].active
               THEN [loop EXCEPT !.at = "hierarchy", !.up = loop.ptr, !.level = 0]
               ELSE [loop EXCEPT !.ptr = next[@]]
    /\ UNCHANGED <<beh, job, listVars>>

(* One stage: from the entry up to the caller, or to the end (level 0). *)
isInCallHierarchy ==
    /\ loop.at = "hierarchy"
    /\ LET above == beh[loop.up].caller
       IN  loop' = IF above \in {NoBeh, loop.up} THEN [loop EXCEPT !.at = "climb", !.level = 0]
                   ELSE IF above = loop.caller
                        THEN [loop EXCEPT !.at = "climb", !.up = loop.ptr, !.level = @ + 1]
                        ELSE [loop EXCEPT !.up = above, !.level = @ + 1]
    /\ UNCHANGED <<beh, job, listVars>>

SwitchOff(t, b) == [t EXCEPT ![b] = [active |-> FALSE, caller |-> NoBeh, subResult |-> CANCEL]]

(* Mutant of CallsNobody: nobody looks whether the behaviour has called others. *)
AnyBehaviour(b) == TRUE

CallsNobody(b) == Callees(beh, b) = {}

(* One stage up; whoever calls nobody any more is switched off. *)
Climb ==
    /\ loop.at = "climb"
    /\ loop.level > 0
    /\ beh' = IF CallsNobody(loop.up) THEN SwitchOff(beh, loop.up) ELSE beh
    /\ loop' = [loop EXCEPT !.up = beh[loop.up].caller, !.level = @ - 1]
    /\ UNCHANGED <<job, listVars>>

NextEntry ==
    /\ loop.at = "climb"
    /\ loop.level = 0
    /\ loop' = [loop EXCEPT !.at = "visit", !.ptr = next[@]]
    /\ UNCHANGED <<beh, job, listVars>>

(* Behind the last entry the caller is woken; the cancel behaviour then     *)
(* ends it too.                                                             *)
EndStop ==
    /\ loop.at = "visit"
    /\ loop.ptr = NoBeh
    /\ LET woken == [beh EXCEPT ![loop.caller] =
                        [active |-> TRUE, caller |-> @.caller, subResult |-> CANCEL]]
       IN  beh' = IF job = NoBeh THEN woken ELSE exit_behaviour(woken, loop.caller, CANCEL)
    /\ loop' = NoLoop
    /\ UNCHANGED <<job, listVars>>

ListNext ==
    \/ \E b \in Behaviours : BeginInsert(b)
    \/ PassEntry
    \/ LinkEntry
    \/ BeginListWalk
    \/ \E wish \in BOOLEAN : EndListWork(wish)
    \/ WalkOn
    \/ OnRecords
    \/ \E c \in Behaviours : BeginStop(c)
    \/ VisitEntry
    \/ isInCallHierarchy
    \/ Climb
    \/ NextEntry
    \/ EndStop

ListSpec == ListInit /\ [][ListNext]_listedVars

-----------------------------------------------------------------------------
(* The behaviours on the way from p to the end of the list. *)
Behind(p) ==
    {b \in Behaviours :
        \A S \in SUBSET Behaviours :
            /\ p # NoBeh => p \in S
            /\ \A x \in S : next[x] # NoBeh => next[x] \in S
            => b \in S}

(* However the insertions come, the list holds each inserted behaviour, and *)
(* every entry comes before all those of lower priority: bot_behave() then  *)
(* asks the important behaviours first (bot-logic.c:705-707).               *)
ListIsByPriority ==
    /\ Behind(head) = listed
    /\ \A b \in listed : Behind(next[b]) = {c \in listed : prio[c] < prio[b]}

(* Seen from outside, deactivate_called_behaviours() is one step. *)
Stopping == loop.at \in {"visit", "hierarchy", "climb"}
Outside == IF Stopping THEN loop.before ELSE beh

Control == INSTANCE BehaviourControl WITH beh <- Outside

(* The loops over the list implement the behaviour control: each walk runs  *)
(* the active behaviours in order of priority, and each stop switches off   *)
(* exactly the behaviours that BehaviourRecords defines, however the list   *)
(* orders callers and callees.                                              *)
ImplementsControl == Control!Spec
=============================================================================
