--------------------------- MODULE RemoteCall_proofs ---------------------------
(***************************************************************************)
(* Proofs about remote calls, for any behaviours that keep the rules of     *)
(* BehaviourDiscipline, and any entries of the list of remote calls.        *)
(***************************************************************************)
EXTENDS RemoteCall, BehaviourControl_proofs

(* Only orders enter the remote call, and only keys, commands and the menu  *)
(* start an ABL program, with no caller (behaviour_abl.c:881-893,           *)
(* command.c:912).  A keypad order and a program do not overlap, and the    *)
(* emergency stop does not come between an order and the walk that starts   *)
(* it: the hazards that the runs show to break the promises.                *)
RemoteRules ==
    /\ ~EarlyStop /\ ~Overlap
    /\ \A f \in Behaviours : <<f, remotecall>> \notin Calls /\ <<f, abl>> \notin Calls
    /\ {remotecall, abl} \cap Startable = {}

-----------------------------------------------------------------------------
(* The inductive invariant.  TreeOK: who may be whose caller; a keypad      *)
(* order makes the remote call its own caller.                              *)
TreeOK(t) ==
    \A b \in Behaviours :
        t[b].caller # NoBeh =>
            \/ b = remotecall /\ t[b].caller \in {remotecall, abl}
            \/ b \in Functions /\ t[b].caller = remotecall
            \/ /\ b # remotecall /\ t[b].caller \notin {remotecall, abl}
               /\ <<t[b].caller, b>> \in Calls

(* A behaviour that was called and is not active waits for a callee. *)
Held(t) ==
    \A b \in Behaviours \ {remotecall} :
        ~t[b].active /\ t[b].caller # NoBeh => \E c \in Behaviours : t[c].caller = b

(* How the record of the remote call and its state st belong together: its  *)
(* only callee is the behaviour fn that was ordered, it has none unless it  *)
(* runs and sleeps, and none is lost.                                       *)
Link(t, st, fn) ==
    /\ st = "IDLE" => t[remotecall].caller = NoBeh /\ t[remotecall].subResult # RUNNING
    /\ st = "SCHEDULED" => t[remotecall].active
    /\ st = "RUNNING" /\ ~t[remotecall].active
           => /\ t[remotecall].subResult = RUNNING
              /\ fn \in Behaviours /\ t[fn].caller = remotecall
    /\ t[remotecall].active /\ t[remotecall].subResult = RUNNING
           => t[remotecall].caller = remotecall
    /\ \A b \in Behaviours \ {remotecall} :
           t[b].caller = remotecall => st = "RUNNING" /\ ~t[remotecall].active /\ b = fn
    /\ t[remotecall].caller = remotecall => ~t[abl].active

RecordsOK(t, st, fn) == t \in Tables /\ TreeOK(t) /\ Held(t) /\ Link(t, st, fn)

(* The walk has passed the remote call before it comes to the program. *)
InWalk ==
    /\ job = remotecall => beh[remotecall].active
    /\ job = abl => beh[abl].active
    /\ job \notin {NoBeh, remotecall} /\ running_behaviour = "IDLE" /\ beh[abl].active
           => ~beh[remotecall].active

OrderOK == /\ running_behaviour \in States
           /\ function_id \in Functions \cup {NoFunction}
           /\ running_behaviour # "IDLE" => function_id \in Functions
           /\ origin \in Clients \cup {Nobody}

IInv == /\ RecordsOK(beh, running_behaviour, function_id)
        /\ job \in Behaviours \cup {NoBeh}
        /\ OrderOK
        /\ InWalk
        /\ AnswerGoesToClient

-----------------------------------------------------------------------------
(* What the operations on records do, field by field. *)
LEMMA Results ==
    /\ {FAIL, SUCCESS, RUNNING, CANCEL, BACKGR} \subseteq SubResults
    /\ RUNNING \notin {FAIL, SUCCESS, CANCEL, BACKGR}
BY DEF SubResults, FAIL, SUCCESS, RUNNING, CANCEL, BACKGR

LEMMA Names ==
    /\ remotecall \in Behaviours /\ abl \in Behaviours /\ remotecall # abl
    /\ NoBeh \notin Behaviours /\ remotecall \notin Functions /\ abl \notin Functions
BY RemoteAssumption, NamesAssumption

LEMMA TableFields ==
    ASSUME NEW t \in Tables, NEW b \in Behaviours
    PROVE  /\ t[b] \in Record /\ t[b].active \in BOOLEAN
           /\ t[b].caller \in Behaviours \cup {NoBeh} /\ t[b].subResult \in SubResults
BY DEF Tables, Record

(* p is woken with the result s. *)
Woken(t, p, s, u) ==
    /\ u \in Tables
    /\ \A x \in Behaviours :
          /\ u[x].caller = t[x].caller
          /\ x = p => u[x].active = TRUE
          /\ x # p => u[x].active = t[x].active
          /\ u[x].subResult = IF x = p THEN s ELSE t[x].subResult

LEMMA WakeFields ==
    ASSUME NEW t \in Tables, NEW p \in Behaviours \cup {NoBeh}, NEW s \in SubResults
    PROVE  Woken(t, p, s, Wake(t, p, s))
<1> USE DEF Woken
<1>1. CASE p = NoBeh
  BY <1>1, Names DEF Wake
<1>2. CASE p \in Behaviours
  <2> DEFINE r == [active |-> TRUE, caller |-> t[p].caller, subResult |-> s]
  <2>1. Wake(t, p, s) = [t EXCEPT ![p] = r]
    BY <1>2, Names DEF Wake
  <2>2. r \in Record /\ r.active = TRUE /\ r.caller = t[p].caller /\ r.subResult = s
    BY <1>2, TableFields DEF Record
  <2> HIDE DEF r
  <2> QED BY <1>2, <2>1, <2>2 DEF Tables
<1> QED BY <1>1, <1>2

(* b has returned s to its caller. *)
Exited(t, b, s, u) ==
    /\ u \in Tables
    /\ \A x \in Behaviours :
          /\ u[x].caller = IF x = b THEN NoBeh ELSE t[x].caller
          /\ x = t[b].caller => u[x].active = TRUE
          /\ x # t[b].caller /\ x = b => u[x].active = FALSE
          /\ x # t[b].caller /\ x # b => u[x].active = t[x].active
          /\ u[x].subResult = IF x = t[b].caller THEN s ELSE t[x].subResult

LEMMA ExitFields ==
    ASSUME NEW t \in Tables, NEW b \in Behaviours, NEW s \in SubResults
    PROVE  Exited(t, b, s, exit_behaviour(t, b, s))
<1> DEFINE r == [t[b] EXCEPT !.active = FALSE]
           off == [t EXCEPT ![b].active = FALSE]
           p == t[b].caller
           woken == Wake(off, p, s)
           q == [woken[b] EXCEPT !.caller = NoBeh]
           u == exit_behaviour(t, b, s)
<1>1. r \in Record /\ r.active = FALSE /\ r.caller = p /\ r.subResult = t[b].subResult
  BY TableFields DEF Record
<1>2. off = [t EXCEPT ![b] = r]
  OBVIOUS
<1>3. u = [woken EXCEPT ![b] = q]
  BY DEF exit_behaviour
<1>4. p \in Behaviours \cup {NoBeh}
  BY TableFields
<1> HIDE DEF r, off, p, u
<1>5. off \in Tables /\ \A x \in Behaviours : off[x] = IF x = b THEN r ELSE t[x]
  BY <1>1, <1>2 DEF Tables
<1>6. Woken(off, p, s, woken)
  BY <1>4, <1>5, WakeFields
<1> HIDE DEF woken
<1>7. q \in Record /\ q.active = woken[b].active /\ q.caller = NoBeh /\ q.subResult = woken[b].subResult
  BY <1>6, TableFields DEF Record, Woken
<1> HIDE DEF q
<1>8. u \in Tables /\ \A x \in Behaviours : u[x] = IF x = b THEN q ELSE woken[x]
  BY <1>3, <1>6, <1>7 DEF Tables, Woken
<1> QED BY <1>1, <1>5, <1>6, <1>7, <1>8 DEF p, u, Woken, Exited

(* The caller from was told that its call is refused. *)
Told(t, from, u) ==
    /\ u \in Tables
    /\ \A x \in Behaviours :
          /\ u[x].caller = t[x].caller
          /\ u[x].active = t[x].active
          /\ u[x].subResult = IF x = from THEN FAIL ELSE t[x].subResult

LEMMA RefusedFields ==
    ASSUME NEW t \in Tables, NEW from \in Behaviours \cup {NoBeh}, NEW to,
           NEW mode \in Modes, Refused(t, to, mode)
    PROVE  Told(t, from, switch_to_behaviour(t, from, to, mode))
<1> USE DEF Told
<1>1. CASE from = NoBeh
  BY <1>1, Names DEF switch_to_behaviour
<1>2. CASE from \in Behaviours
  <2> DEFINE r == [t[from] EXCEPT !.subResult = FAIL]
             u == switch_to_behaviour(t, from, to, mode)
  <2>1. u = [t EXCEPT ![from] = r]
    BY <1>2, Names DEF switch_to_behaviour
  <2>2. r \in Record /\ r.active = t[from].active /\ r.caller = t[from].caller /\ r.subResult = FAIL
    BY <1>2, TableFields, Results DEF Record
  <2> HIDE DEF r, u
  <2>3. u \in Tables /\ \A x \in Behaviours : u[x] = IF x = from THEN r ELSE t[x]
    BY <1>2, <2>1, <2>2 DEF Tables
  <2> QED BY <2>2, <2>3 DEF u
<1> QED BY <1>1, <1>2

Suspended(t, from, mode, u) ==
    /\ u \in Tables
    /\ \A x \in Behaviours :
          /\ u[x].caller = t[x].caller
          /\ x = from /\ ~mode.background => u[x].active = FALSE
          /\ x # from \/ mode.background => u[x].active = t[x].active
          /\ u[x].subResult = IF x # from THEN t[x].subResult
                              ELSE IF mode.background THEN BACKGR ELSE RUNNING

LEMMA SuspendFields ==
    ASSUME NEW t \in Tables, NEW from \in Behaviours \cup {NoBeh}, NEW mode \in Modes
    PROVE  Suspended(t, from, mode, SuspendCaller(t, from, mode))
<1> USE DEF Suspended
<1> DEFINE u == SuspendCaller(t, from, mode)
<1>1. CASE from = NoBeh
  BY <1>1, Names DEF SuspendCaller
<1>2. CASE from \in Behaviours /\ mode.background
  <2> DEFINE r == [t[from] EXCEPT !.subResult = BACKGR]
  <2>1. u = [t EXCEPT ![from] = r]
    BY <1>2, Names DEF SuspendCaller
  <2>2. r \in Record /\ r.active = t[from].active /\ r.caller = t[from].caller /\ r.subResult = BACKGR
    BY <1>2, TableFields, Results DEF Record
  <2> HIDE DEF r, u
  <2>3. u \in Tables /\ \A x \in Behaviours : u[x] = IF x = from THEN r ELSE t[x]
    BY <1>2, <2>1, <2>2 DEF Tables
  <2> QED BY <1>2, <2>2, <2>3 DEF u
<1>3. CASE from \in Behaviours /\ ~mode.background
  <2> DEFINE r == [active |-> FALSE, caller |-> t[from].caller, subResult |-> RUNNING]
  <2>1. u = [t EXCEPT ![from] = r]
    BY <1>3, Names DEF SuspendCaller
  <2>2. r \in Record /\ r.active = FALSE /\ r.caller = t[from].caller /\ r.subResult = RUNNING
    BY <1>3, TableFields, Results DEF Record
  <2> HIDE DEF r, u
  <2>3. u \in Tables /\ \A x \in Behaviours : u[x] = IF x = from THEN r ELSE t[x]
    BY <1>3, <2>1, <2>2 DEF Tables
  <2> QED BY <1>3, <2>2, <2>3 DEF u
<1> QED BY <1>1, <1>2, <1>3

(* from has called to, which was taken from its old caller. *)
Switched(t, from, to, mode, u) ==
    /\ u \in Tables
    /\ \A x \in Behaviours :
          /\ u[x].caller = IF x = to THEN from ELSE t[x].caller
          /\ x = to => u[x].active = TRUE
          /\ x # to /\ x = from /\ ~mode.background => u[x].active = FALSE
          /\ x # to /\ (x # from \/ mode.background) =>
                 /\ x = t[to].caller => u[x].active = TRUE
                 /\ x # t[to].caller => u[x].active = t[x].active
          /\ u[x].subResult = IF x = from
                              THEN IF mode.background THEN BACKGR ELSE RUNNING
                              ELSE IF x = t[to].caller THEN FAIL ELSE t[x].subResult

LEMMA SwitchFields ==
    ASSUME NEW t \in Tables, NEW from \in Behaviours \cup {NoBeh}, NEW to \in Behaviours,
           NEW mode \in Modes, ~Refused(t, to, mode)
    PROVE  Switched(t, from, to, mode, switch_to_behaviour(t, from, to, mode))
<1> DEFINE old == t[to].caller
           taken == Wake(t, old, FAIL)
           susp == SuspendCaller(taken, from, mode)
           r == [active |-> TRUE, caller |-> from, subResult |-> susp[to].subResult]
           u == switch_to_behaviour(t, from, to, mode)
<1>1. u = [susp EXCEPT ![to] = r]
  BY DEF switch_to_behaviour
<1>2. old \in Behaviours \cup {NoBeh}
  BY TableFields
<1> HIDE DEF old, u
<1>3. Woken(t, old, FAIL, taken)
  BY <1>2, WakeFields, Results
<1> HIDE DEF taken
<1>4. Suspended(taken, from, mode, susp)
  BY <1>3, SuspendFields DEF Woken
<1> HIDE DEF susp
<1>5. r \in Record /\ r.active = TRUE /\ r.caller = from /\ r.subResult = susp[to].subResult
  BY <1>4, TableFields DEF Record, Suspended
<1> HIDE DEF r
<1>6. u \in Tables /\ \A x \in Behaviours : u[x] = IF x = to THEN r ELSE susp[x]
  BY <1>1, <1>4, <1>5 DEF Tables, Suspended
<1> QED BY <1>3, <1>4, <1>5, <1>6 DEF u, old, Woken, Suspended, Switched
-----------------------------------------------------------------------------
(* Nobody is left behind: a return, a call or a reset takes a callee only   *)
(* from one that it wakes or switches off.                                  *)
LEMMA ExitHeld ==
    ASSUME NEW t, NEW b \in Behaviours, NEW s, NEW u, Held(t), Exited(t, b, s, u)
    PROVE  Held(u)
<1> SUFFICES ASSUME NEW x \in Behaviours \ {remotecall}, ~u[x].active, u[x].caller # NoBeh
             PROVE  \E c \in Behaviours : u[c].caller = x
  BY DEF Held
<1>1. x # b /\ x # t[b].caller /\ ~t[x].active /\ t[x].caller # NoBeh
  BY DEF Exited
<1>2. PICK c \in Behaviours : t[c].caller = x
  BY <1>1 DEF Held
<1> QED BY <1>1, <1>2 DEF Exited

LEMMA ToldHeld ==
    ASSUME NEW t, NEW from, NEW u, Held(t), Told(t, from, u)
    PROVE  Held(u)
BY DEF Held, Told

LEMMA SwitchHeld ==
    ASSUME NEW t, NEW from, NEW to \in Behaviours, NEW mode, NEW u,
           Held(t), Switched(t, from, to, mode, u)
    PROVE  Held(u)
<1> SUFFICES ASSUME NEW x \in Behaviours \ {remotecall}, ~u[x].active, u[x].caller # NoBeh
             PROVE  \E c \in Behaviours : u[c].caller = x
  BY DEF Held
<1>1. x # to
  BY DEF Switched
<1>2. CASE x = from /\ ~mode.background
  BY <1>2 DEF Switched
<1>3. CASE x # from \/ mode.background
  <2>1. x # t[to].caller /\ ~t[x].active /\ t[x].caller # NoBeh
    BY <1>1, <1>3 DEF Switched
  <2>2. PICK c \in Behaviours : t[c].caller = x
    BY <2>1 DEF Held
  <2> QED BY <2>1, <2>2 DEF Switched
<1> QED BY <1>2, <1>3

LEMMA ShrunkTree ==
    ASSUME NEW t, NEW u, TreeOK(t),
           \A x \in Behaviours : u[x].caller = NoBeh \/ u[x].caller = t[x].caller
    PROVE  TreeOK(u)
BY DEF TreeOK

(* Who calls whom in the tree of calls. *)
MayCall(from, to) ==
    \/ to = remotecall /\ from \in {remotecall, abl}
    \/ to \in Functions /\ from = remotecall
    \/ to # remotecall /\ from \notin {remotecall, abl} /\ <<from, to>> \in Calls

LEMMA SwitchTree ==
    ASSUME NEW t, NEW from, NEW to \in Behaviours, NEW mode, NEW u, TreeOK(t),
           Switched(t, from, to, mode, u), from # NoBeh => MayCall(from, to)
    PROVE  TreeOK(u)
BY DEF TreeOK, MayCall, Switched

LEMMA ProgramHasNoCaller ==
    ASSUME RemoteRules, NEW t \in Tables, TreeOK(t)
    PROVE  t[abl].caller = NoBeh
<1>1. t[abl].caller \in Behaviours \cup {NoBeh}
  BY Names, TableFields
<1> QED BY <1>1, Names DEF TreeOK, RemoteRules

-----------------------------------------------------------------------------
(* Stopping all that the remote call or the program has called. *)
HeldRemote(t) ==
    ~t[remotecall].active /\ t[remotecall].caller # NoBeh
        => \E c \in Behaviours : t[c].caller = remotecall

LEMMA OwnCallerNotCalled ==
    ASSUME NEW t, NEW b \in Behaviours, t[b].caller = b, NEW c \in Behaviours
    PROVE  b \notin Called(t, c)
<1>1. CASE b = c
  <2> DEFINE S == Behaviours \ {c}
  <2>1. S \in SUBSET Behaviours
    OBVIOUS
  <2>2. \A x \in Behaviours \ {c} : t[x].caller \in S \cup {c} => x \in S
    OBVIOUS
  <2> QED BY <1>1, <2>1, <2>2 DEF Called
<1>2. CASE b # c
  <2> DEFINE S == Behaviours \ {b}
  <2>1. S \in SUBSET Behaviours
    OBVIOUS
  <2>2. \A x \in Behaviours \ {c} : t[x].caller \in S \cup {c} => x \in S
    BY <1>2
  <2> QED BY <2>1, <2>2 DEF Called
<1> QED BY <1>1, <1>2

LEMMA StoppedCompletely ==
    ASSUME RemoteRules, NEW t \in Tables, TreeOK(t), Held(t), HeldRemote(t),
           NEW c \in {remotecall, abl}
    PROVE  SwitchedOff(t, c) = Called(t, c)
<1> DEFINE D == Called(t, c)
           R == SwitchedOff(t, c)
           Goes(x, S) == /\ Callees(t, x) \subseteq S
                         /\ Callees(t, x) = {} => t[x].active
<1>0. c \in Behaviours
  BY Names
<1>1. D \subseteq Behaviours /\ R \subseteq D
  BY DEF Called, SwitchedOff
<1>2. \A x \in D : Goes(x, R) => x \in R
  <2> SUFFICES ASSUME NEW x \in D, Goes(x, R),
                      NEW S \in SUBSET D, \A y \in D : Goes(y, S) => y \in S
               PROVE  x \in S
    BY DEF SwitchedOff
  <2>1. R \subseteq S
    BY DEF SwitchedOff
  <2> HIDE DEF R, D
  <2>2. Goes(x, S)
    BY <2>1
  <2> QED BY <2>2
<1>3. /\ \A x \in Behaviours : x \in D <=> x # c /\ t[x].caller \in D \cup {c}
      /\ t[remotecall].caller = remotecall => remotecall \notin D
  BY <1>0, Names, CalledIsClosure, OwnCallerNotCalled
<1>4. abl \notin D
  BY <1>1, <1>3, Names, ProgramHasNoCaller
<1> HIDE DEF D, R
<1>5. SUFFICES ASSUME D \ R # {}
               PROVE  FALSE
  BY <1>1 DEF D, R
<1>6. PICK x \in D \ R : \A y \in D \ R : t[y].caller # x
  <2> DEFINE S == (D \ R) \ {remotecall}
  <2>1. CASE S = {}
    <3>1. remotecall \in D \ R /\ D \ R = {remotecall}
      BY <1>5, <2>1
    <3> QED BY <1>3, <3>1
  <2>2. CASE S # {}
    <3>1. PICK x \in S : \A y \in S : <<x, y>> \notin Calls
      <4>1. S \in SUBSET Behaviours
        BY <1>1
      <4> QED BY <2>2, <4>1, CallTreeAssumption
    <3>2. x \notin {remotecall, abl} /\ x \in D \ R /\ x # NoBeh
      BY <1>1, <1>4, Names
    <3>3. ASSUME NEW y \in D \ R, t[y].caller = x
          PROVE  FALSE
      <4>1. y \in Behaviours
        BY <1>1
      <4>2. y # remotecall /\ <<x, y>> \in Calls
        BY <3>2, <3>3, <4>1 DEF TreeOK
      <4> QED BY <3>1, <4>2
    <3> QED BY <3>2, <3>3
  <2> QED BY <2>1, <2>2
<1>7. x \in Behaviours /\ x # c /\ t[x].caller \in D \cup {c} /\ x # abl
  BY <1>1, <1>3, <1>4, <1>6
<1>8. Callees(t, x) \subseteq R
  <2> SUFFICES ASSUME NEW y \in Behaviours, t[y].caller = x
               PROVE  y \in R
    BY DEF Callees
  <2>1. y # c
    <3>1. CASE c = abl
      BY <1>7, <3>1, Names, ProgramHasNoCaller
    <3>2. CASE c = remotecall
      BY <1>7, <3>2, Names DEF TreeOK
    <3> QED BY <3>1, <3>2
  <2>2. y \in D
    BY <1>3, <1>6, <2>1
  <2> QED BY <1>6, <2>2
<1>9. Callees(t, x) = {} => t[x].active
  <2>1. t[x].caller # NoBeh
    BY <1>0, <1>1, <1>7, Names
  <2> QED BY <1>7, <2>1 DEF Held, HeldRemote, Callees
<1> QED BY <1>2, <1>6, <1>8, <1>9

(* c has stopped its callees, which are those in D. *)
Stopped(t, c, D, u) ==
    /\ u \in Tables
    /\ c \notin D
    /\ \A x \in Behaviours : x \in D <=> x # c /\ t[x].caller \in D \cup {c}
    /\ \A x \in Behaviours :
          /\ u[x].caller = IF x \in D THEN NoBeh ELSE t[x].caller
          /\ x \in D => u[x].active = FALSE
          /\ x = c => u[x].active = TRUE
          /\ x # c /\ x \notin D => u[x].active = t[x].active
          /\ u[x].subResult = IF x \in D \cup {c} THEN CANCEL ELSE t[x].subResult

LEMMA StopFields ==
    ASSUME RemoteRules, NEW t \in Tables, TreeOK(t), Held(t), HeldRemote(t),
           NEW c \in {remotecall, abl}
    PROVE  Stopped(t, c, Called(t, c), deactivate_called_behaviours(t, c))
<1> DEFINE D == Called(t, c)
           off == [active |-> FALSE, caller |-> NoBeh, subResult |-> CANCEL]
           on == [t[c] EXCEPT !.active = TRUE, !.subResult = CANCEL]
           u == deactivate_called_behaviours(t, c)
<1>0. c \in Behaviours
  BY Names
<1>1. on \in Record /\ on.active = TRUE /\ on.caller = t[c].caller /\ on.subResult = CANCEL
  BY <1>0, TableFields, Results DEF Record
<1>2. off \in Record /\ off.active = FALSE /\ off.caller = NoBeh /\ off.subResult = CANCEL
  BY Results DEF Record
<1>3. u = [b \in Behaviours |-> IF b = c THEN on ELSE IF b \in D THEN off ELSE t[b]]
  BY StoppedCompletely DEF deactivate_called_behaviours
<1>4. \A x \in Behaviours : x \in D <=> x # c /\ t[x].caller \in D \cup {c}
  BY <1>0, CalledIsClosure
<1> HIDE DEF on, off, u, D
<1>5. u \in Tables
  BY <1>1, <1>2, <1>3 DEF Tables
<1> QED BY <1>0, <1>1, <1>2, <1>3, <1>4, <1>5 DEF Stopped, u, D

LEMMA StopHeld ==
    ASSUME NEW t, NEW c \in Behaviours, NEW D, NEW u, Held(t), Stopped(t, c, D, u)
    PROVE  Held(u)
<1> SUFFICES ASSUME NEW x \in Behaviours \ {remotecall}, ~u[x].active, u[x].caller # NoBeh
             PROVE  \E b \in Behaviours : u[b].caller = x
  BY DEF Held
<1>1. x # c /\ x \notin D /\ ~t[x].active /\ t[x].caller # NoBeh
  BY DEF Stopped
<1>2. PICK b \in Behaviours : t[b].caller = x
  BY <1>1 DEF Held
<1> QED BY <1>1, <1>2 DEF Stopped
-----------------------------------------------------------------------------
(* The other behaviours.  A callee of the remote call may return, or be     *)
(* taken from it: both wake it.                                             *)
Untouched(t, u, st) ==
    /\ u[remotecall].caller = t[remotecall].caller
    /\ u[abl].active = t[abl].active
    /\ st = "IDLE" => u[remotecall].active = t[remotecall].active

LEMMA OtherReturnsOK ==
    ASSUME RemoteRules, NEW t, NEW st, NEW fn, RecordsOK(t, st, fn),
           NEW b \in Behaviours, Other(b), NEW s \in SubResults \ {RUNNING}
    PROVE  LET u == exit_behaviour(t, b, s)
           IN  RecordsOK(u, st, fn) /\ Untouched(t, u, st)
<1> DEFINE u == exit_behaviour(t, b, s)
<1>1. Exited(t, b, s, u)
  BY ExitFields DEF RecordsOK
<1> HIDE DEF u
<1>2. b # remotecall /\ b # abl /\ s # RUNNING
  BY DEF Other
<1>3. TreeOK(u) /\ Held(u) /\ u \in Tables
  <2>1. TreeOK(u) /\ u \in Tables
    BY <1>1, ShrunkTree DEF RecordsOK, Exited
  <2> QED BY <1>1, <2>1, ExitHeld DEF RecordsOK
<1>4. t[b].caller # abl
  BY <1>2, Names DEF RecordsOK, TreeOK
<1>5. t[b].caller = remotecall => st = "RUNNING" /\ ~t[remotecall].active /\ b = fn
  BY <1>2 DEF RecordsOK, Link
<1>6. Untouched(t, u, st)
  BY <1>1, <1>2, <1>4, <1>5, Names DEF Untouched, Exited
<1>7. Link(u, st, fn)
  <2>1. CASE t[b].caller = remotecall
    <3>1. /\ u[remotecall].active = TRUE /\ u[remotecall].subResult # RUNNING
          /\ u[fn].caller = NoBeh /\ st = "RUNNING"
      BY <1>1, <1>2, <1>5, <2>1, Names DEF Exited
    <3>2. \A x \in Behaviours \ {remotecall} : u[x].caller # remotecall
      BY <1>1, <1>5, <3>1, Names DEF Exited, RecordsOK, Link
    <3> QED BY <1>6, <3>1, <3>2 DEF Link, RecordsOK, Untouched
  <2>2. CASE t[b].caller # remotecall
    <3>1. u[remotecall].active = t[remotecall].active /\ u[remotecall].subResult = t[remotecall].subResult
      BY <1>1, <1>2, <2>2, Names DEF Exited
    <3>2. \A x \in Behaviours : u[x].caller = remotecall <=> t[x].caller = remotecall
      BY <1>1, <2>2, Names DEF Exited
    <3> QED BY <1>6, <3>1, <3>2 DEF Link, RecordsOK, Untouched
  <2> QED BY <2>1, <2>2
<1> QED BY <1>3, <1>6, <1>7 DEF RecordsOK, u

LEMMA OtherSwitchOK ==
    ASSUME RemoteRules, NEW t, NEW st, NEW fn, RecordsOK(t, st, fn),
           NEW from \in Behaviours \cup {NoBeh}, NEW to \in Behaviours, NEW mode \in Modes,
           from \notin {remotecall, abl}, to \notin {remotecall, abl},
           from # NoBeh => <<from, to>> \in Calls
    PROVE  LET u == switch_to_behaviour(t, from, to, mode)
           IN  RecordsOK(u, st, fn) /\ Untouched(t, u, st)
<1> DEFINE u == switch_to_behaviour(t, from, to, mode)
<1>1. CASE Refused(t, to, mode)
  <2>1. Told(t, from, u)
    BY <1>1, RefusedFields DEF RecordsOK
  <2> HIDE DEF u
  <2>2. TreeOK(u) /\ Held(u) /\ u \in Tables
    <3>1. TreeOK(u) /\ u \in Tables
      BY <2>1, ShrunkTree DEF RecordsOK, Told
    <3> QED BY <2>1, <3>1, ToldHeld DEF RecordsOK
  <2>3. Untouched(t, u, st)
    BY <2>1, Names DEF Untouched, Told
  <2>4. Link(u, st, fn)
    BY <2>1, Names DEF Told, RecordsOK, Link
  <2> QED BY <2>2, <2>3, <2>4 DEF RecordsOK, u
<1>2. CASE ~Refused(t, to, mode)
  <2>1. Switched(t, from, to, mode, u)
    BY <1>2, SwitchFields DEF RecordsOK
  <2> HIDE DEF u
  <2>2. TreeOK(u) /\ Held(u) /\ u \in Tables
    <3>1. from # NoBeh => MayCall(from, to)
      BY DEF MayCall
    <3>2. u \in Tables
      BY <2>1 DEF Switched
    <3> QED BY <2>1, <3>1, <3>2, SwitchHeld, SwitchTree, Names DEF RecordsOK
  <2>3. t[to].caller # abl
    BY Names DEF RecordsOK, TreeOK
  <2>4. t[to].caller = remotecall => st = "RUNNING" /\ ~t[remotecall].active /\ to = fn
    BY DEF RecordsOK, Link
  <2>5. Untouched(t, u, st)
    BY <2>1, <2>3, <2>4, Names DEF Untouched, Switched
  <2>6. Link(u, st, fn)
    <3>1. CASE t[to].caller = remotecall
      <4>1. u[remotecall].active = TRUE /\ u[remotecall].subResult = FAIL /\ st = "RUNNING"
        BY <2>1, <2>4, <3>1, Names DEF Switched
      <4>2. \A x \in Behaviours \ {remotecall} : u[x].caller # remotecall
        BY <2>1, <2>4, <3>1, Names DEF Switched, RecordsOK, Link
      <4> QED BY <2>5, <4>1, <4>2, Results DEF Link, RecordsOK, Untouched
    <3>2. CASE t[to].caller # remotecall
      <4>1. u[remotecall].active = t[remotecall].active /\ u[remotecall].subResult = t[remotecall].subResult
        BY <2>1, <3>2, Names DEF Switched
      <4>2. \A x \in Behaviours : u[x].caller = remotecall <=> t[x].caller = remotecall
        BY <2>1, <3>2, Names DEF Switched
      <4> QED BY <2>5, <4>1, <4>2 DEF Link, RecordsOK, Untouched
    <3> QED BY <3>1, <3>2
  <2> QED BY <2>2, <2>5, <2>6 DEF RecordsOK, u
<1> QED BY <1>1, <1>2

-----------------------------------------------------------------------------
(* The remote call: it starts what was ordered, ... *)
LEMMA StartsOK ==
    ASSUME RemoteRules, NEW t, NEW fn \in Functions \cap Behaviours, NEW mode \in FgModes,
           RecordsOK(t, "SCHEDULED", fn)
    PROVE  LET u == switch_to_behaviour(t, remotecall, fn, mode)
           IN  RecordsOK(u, "RUNNING", fn) /\ u[remotecall].caller = t[remotecall].caller
<1> DEFINE u == switch_to_behaviour(t, remotecall, fn, mode)
<1>0. mode \in Modes /\ ~mode.background
  BY DEF FgModes
<1>1. t[remotecall].active /\ \A x \in Behaviours \ {remotecall} : t[x].caller # remotecall
  BY DEF RecordsOK, Link
<1>2. fn # remotecall /\ fn # abl
  BY Names
<1>3. CASE Refused(t, fn, mode)
  <2>1. Told(t, remotecall, u)
    BY <1>0, <1>3, RefusedFields, Names DEF RecordsOK
  <2> HIDE DEF u
  <2>2. TreeOK(u) /\ Held(u) /\ u \in Tables
    <3>1. TreeOK(u) /\ u \in Tables
      BY <2>1, ShrunkTree DEF RecordsOK, Told
    <3> QED BY <2>1, <3>1, ToldHeld DEF RecordsOK
  <2>3. /\ u[remotecall].caller = t[remotecall].caller /\ u[abl].active = t[abl].active
        /\ u[remotecall].active /\ u[remotecall].subResult = FAIL
    BY <1>1, <2>1, Names DEF Told
  <2>4. Link(u, "RUNNING", fn)
    BY <1>1, <2>1, <2>3, Results DEF Told, RecordsOK, Link
  <2> QED BY <2>2, <2>3, <2>4 DEF RecordsOK, u
<1>4. CASE ~Refused(t, fn, mode)
  <2>1. Switched(t, remotecall, fn, mode, u)
    BY <1>0, <1>4, SwitchFields, Names DEF RecordsOK
  <2> HIDE DEF u
  <2>2. TreeOK(u) /\ Held(u) /\ u \in Tables
    <3>1. MayCall(remotecall, fn)
      BY DEF MayCall
    <3>2. u \in Tables
      BY <2>1 DEF Switched
    <3> QED BY <2>1, <3>1, <3>2, SwitchHeld, SwitchTree, Names DEF RecordsOK
  <2>3. t[fn].caller # abl
    BY <1>2, Names DEF RecordsOK, TreeOK
  <2>4. /\ u[remotecall].caller = t[remotecall].caller /\ u[abl].active = t[abl].active
        /\ u[remotecall].active = FALSE /\ u[remotecall].subResult = RUNNING
        /\ u[fn].caller = remotecall
    BY <1>0, <1>2, <2>1, <2>3, Names DEF Switched
  <2>5. \A x \in Behaviours \ {remotecall} : u[x].caller = remotecall => x = fn
    BY <1>1, <2>1 DEF Switched
  <2>6. Link(u, "RUNNING", fn)
    BY <2>4, <2>5 DEF RecordsOK, Link
  <2> QED BY <2>2, <2>4, <2>6 DEF RecordsOK, u
<1> QED BY <1>3, <1>4

(* ... a function that does its work at once needs no behaviour, ... *)
LEMMA WorksAtOnceOK ==
    ASSUME NEW t, NEW fn, RecordsOK(t, "SCHEDULED", fn)
    PROVE  RecordsOK(t, "RUNNING", fn)
BY DEF RecordsOK, Link

(* ... and it ends, whoever called it. *)
LEMMA EndsOK ==
    ASSUME RemoteRules, NEW t, NEW st \in {"IDLE", "RUNNING"}, NEW fn, NEW g,
           RecordsOK(t, st, fn), t[remotecall].active
    PROVE  LET u == exit_behaviour(t, remotecall, SUCCESS)
           IN  /\ RecordsOK(u, "IDLE", g)
               /\ u[remotecall].caller = NoBeh
               /\ u[remotecall].active => ~u[abl].active
<1> DEFINE u == exit_behaviour(t, remotecall, SUCCESS)
<1>1. Exited(t, remotecall, SUCCESS, u)
  BY ExitFields, Names, Results DEF RecordsOK
<1> HIDE DEF u
<1>2. TreeOK(u) /\ Held(u) /\ u \in Tables
  <2>1. TreeOK(u) /\ u \in Tables
    BY <1>1, ShrunkTree DEF RecordsOK, Exited
  <2> QED BY <1>1, <2>1, ExitHeld, Names DEF RecordsOK
<1>3. u[remotecall].caller = NoBeh
  BY <1>1, Names DEF Exited
<1>4. u[remotecall].active => ~u[abl].active
  BY <1>1, Names DEF Exited, RecordsOK, Link
<1>5. u[remotecall].subResult # RUNNING
  BY <1>1, Names, Results DEF Exited, RecordsOK, Link
<1>6. \A x \in Behaviours \ {remotecall} : u[x].caller # remotecall
  BY <1>1, Names DEF Exited, RecordsOK, Link
<1>7. Link(u, "IDLE", g)
  BY <1>3, <1>5, <1>6, Names DEF Link
<1> QED BY <1>2, <1>3, <1>4, <1>7 DEF RecordsOK, u
(* An order: nobody else occupies an idle remote call, and whoever waits    *)
(* for the answer becomes its caller.                                       *)
LEMMA OrderedOK ==
    ASSUME RemoteRules, NEW t, NEW g, NEW fn, RecordsOK(t, "IDLE", g),
           NEW who \in {NoBeh, remotecall, abl},
           who = remotecall => ~t[abl].active,
           who = abl => ~t[remotecall].active
    PROVE  LET u == switch_to_behaviour(t, who, remotecall, NoOverride)
           IN  /\ RecordsOK(u, "SCHEDULED", fn)
               /\ who # remotecall => u[remotecall].caller = who
<1> DEFINE u == switch_to_behaviour(t, who, remotecall, NoOverride)
<1>0. /\ NoOverride \in Modes /\ ~NoOverride.override /\ ~NoOverride.background
      /\ who \in Behaviours \cup {NoBeh}
  BY Names DEF NoOverride, Modes
<1>1. /\ t[remotecall].caller = NoBeh /\ t[remotecall].subResult # RUNNING
      /\ \A x \in Behaviours \ {remotecall} : t[x].caller # remotecall
  BY DEF RecordsOK, Link
<1>2. CASE Refused(t, remotecall, NoOverride)
  <2>1. Told(t, who, u)
    BY <1>0, <1>2, RefusedFields DEF RecordsOK
  <2>2. t[remotecall].active /\ who # abl
    BY <1>0, <1>1, <1>2, Names DEF Refused, Busy
  <2> HIDE DEF u
  <2>3. TreeOK(u) /\ Held(u) /\ u \in Tables
    <3>1. TreeOK(u) /\ u \in Tables
      BY <2>1, ShrunkTree DEF RecordsOK, Told
    <3> QED BY <2>1, <3>1, ToldHeld DEF RecordsOK
  <2>4. u[remotecall].active /\ u[remotecall].caller = NoBeh /\ u[remotecall].subResult # RUNNING
    BY <1>1, <2>1, <2>2, Names, Results DEF Told
  <2>5. Link(u, "SCHEDULED", fn)
    BY <1>1, <2>1, <2>4, Names DEF Told, Link
  <2> QED BY <2>2, <2>3, <2>4, <2>5 DEF RecordsOK, u
<1>3. CASE ~Refused(t, remotecall, NoOverride)
  <2>1. Switched(t, who, remotecall, NoOverride, u)
    BY <1>0, <1>3, SwitchFields, Names DEF RecordsOK
  <2> HIDE DEF u
  <2>2. TreeOK(u) /\ Held(u) /\ u \in Tables
    <3>1. who # NoBeh => MayCall(who, remotecall)
      BY DEF MayCall
    <3>2. u \in Tables
      BY <2>1 DEF Switched
    <3> QED BY <2>1, <3>1, <3>2, SwitchHeld, SwitchTree, Names DEF RecordsOK
  <2>3. /\ u[remotecall].caller = who /\ u[remotecall].active = TRUE
        /\ who # remotecall => u[remotecall].subResult # RUNNING
        /\ who = remotecall => u[abl].active = t[abl].active
    BY <1>0, <1>1, <2>1, Names DEF Switched
  <2>4. \A x \in Behaviours \ {remotecall} : u[x].caller # remotecall
    BY <1>1, <2>1 DEF Switched
  <2>5. Link(u, "SCHEDULED", fn)
    BY <2>3, <2>4 DEF Link
  <2> QED BY <2>2, <2>3, <2>5 DEF RecordsOK, u
<1> QED BY <1>2, <1>3

-----------------------------------------------------------------------------
(* Commands and keys: the end of a call, of a program, of all behaviours.   *)
LEMMA RemoteIsHeld ==
    ASSUME NEW t, NEW st \in States, NEW fn, RecordsOK(t, st, fn)
    PROVE  HeldRemote(t)
BY DEF HeldRemote, RecordsOK, Link, States

LEMMA StopRemoteOK ==
    ASSUME RemoteRules, NEW t, NEW st \in States, NEW fn, RecordsOK(t, st, fn)
    PROVE  LET u == deactivate_called_behaviours(t, remotecall)
           IN  /\ RecordsOK(u, st, fn)
               /\ u[remotecall].active
               /\ u[remotecall].caller = t[remotecall].caller
<1> DEFINE u == deactivate_called_behaviours(t, remotecall)
           D == Called(t, remotecall)
<1>1. Stopped(t, remotecall, D, u)
  BY StopFields, RemoteIsHeld DEF RecordsOK
<1> HIDE DEF u, D
<1>2. TreeOK(u) /\ Held(u) /\ u \in Tables
  <2>1. TreeOK(u) /\ u \in Tables
    BY <1>1, ShrunkTree DEF RecordsOK, Stopped
  <2> QED BY <1>1, <2>1, StopHeld, Names DEF RecordsOK
<1>3. /\ u[remotecall].active = TRUE /\ u[remotecall].subResult = CANCEL
      /\ u[remotecall].caller = t[remotecall].caller
  BY <1>1, Names DEF Stopped
<1>4. \A x \in Behaviours \ {remotecall} : u[x].caller # remotecall
  BY <1>1, Names DEF Stopped
<1>5. t[abl].active = FALSE => u[abl].active = FALSE
  BY <1>1, Names DEF Stopped
<1>6. Link(u, st, fn)
  <2>1. t[abl].active \in BOOLEAN /\ u[abl].active \in BOOLEAN
    BY <1>2, Names, TableFields DEF RecordsOK
  <2> QED BY <1>3, <1>4, <1>5, <2>1, Results DEF Link, RecordsOK
<1> QED BY <1>2, <1>3, <1>6 DEF RecordsOK, u

LEMMA ResetOK ==
    ASSUME RemoteRules, NEW t, NEW fn, RecordsOK(t, "IDLE", fn)
    PROVE  LET u == deactivateAllBehaviours(t)
           IN  RecordsOK(u, "IDLE", fn) /\ u[remotecall].caller = NoBeh
<1> DEFINE off == [active |-> FALSE, caller |-> NoBeh, subResult |-> CANCEL]
           u == deactivateAllBehaviours(t)
<1>1. off \in Record /\ off.active = FALSE /\ off.caller = NoBeh /\ off.subResult = CANCEL
  BY Results DEF Record
<1>2. u = [b \in Behaviours |-> IF Normal(b) THEN off ELSE t[b]]
  BY DEF deactivateAllBehaviours
<1> HIDE DEF off, u
<1>3. u \in Tables
  BY <1>1, <1>2 DEF RecordsOK, Tables
<1>4. \A x \in Behaviours : u[x].caller = NoBeh \/ u[x].caller = t[x].caller
  BY <1>1, <1>2
<1>5. TreeOK(u)
  BY <1>4, ShrunkTree DEF RecordsOK
<1>6. \A x \in Behaviours \ {remotecall} : t[x].caller # remotecall
  BY DEF RecordsOK, Link
<1>7. ASSUME NEW x \in Behaviours \ {remotecall}, ~u[x].active, u[x].caller # NoBeh
      PROVE  \E c \in Behaviours : u[c].caller = x
  <2>1. ~Normal(x) /\ ~t[x].active /\ t[x].caller # NoBeh
    BY <1>1, <1>2, <1>7
  <2>2. PICK c \in Behaviours : t[c].caller = x
    BY <2>1 DEF Held, RecordsOK
  <2>3. x # abl
    BY <2>1, ProgramHasNoCaller DEF RecordsOK
  <2>4. <<x, c>> \in Calls
    BY <2>2, <2>3, Names DEF RecordsOK, TreeOK
  <2>5. ~Normal(c)
    BY <2>1, <2>4, RangeAssumption
  <2> QED BY <1>2, <2>2, <2>5
<1>8. /\ u[remotecall].caller = NoBeh /\ u[remotecall].subResult # RUNNING
      /\ \A x \in Behaviours \ {remotecall} : u[x].caller # remotecall
  <2>1. t[remotecall].caller = NoBeh /\ t[remotecall].subResult # RUNNING
    BY DEF RecordsOK, Link
  <2> QED BY <1>1, <1>2, <1>6, <2>1, Names, Results
<1>9. Link(u, "IDLE", fn)
  BY <1>8, Names, Results DEF Link
<1> QED BY <1>3, <1>5, <1>7, <1>8, <1>9 DEF RecordsOK, Held, u

LEMMA ProgramStartsOK ==
    ASSUME RemoteRules, NEW t, NEW st, NEW fn, RecordsOK(t, st, fn),
           t[remotecall].caller # remotecall
    PROVE  LET u == switch_to_behaviour(t, NoBeh, abl, [NoOverride EXCEPT !.override = TRUE])
           IN  RecordsOK(u, st, fn) /\ u[remotecall] = t[remotecall]
<1> DEFINE mode == [NoOverride EXCEPT !.override = TRUE]
           u == switch_to_behaviour(t, NoBeh, abl, mode)
<1>1. mode \in Modes /\ mode.override /\ ~mode.background
  BY DEF NoOverride, Modes
<1> HIDE DEF mode
<1>2. Switched(t, NoBeh, abl, mode, u)
  BY <1>1, SwitchFields, Names DEF RecordsOK, Refused
<1> HIDE DEF u
<1>3. TreeOK(u) /\ Held(u) /\ u \in Tables
  <2>1. u \in Tables
    BY <1>2 DEF Switched
  <2> QED BY <1>2, <2>1, SwitchHeld, SwitchTree, Names DEF RecordsOK
<1>4. t[abl].caller = NoBeh
  BY ProgramHasNoCaller DEF RecordsOK
<1>5. \A x \in Behaviours : u[x].caller = t[x].caller
  BY <1>2, <1>4 DEF Switched
<1>6. /\ u[remotecall].active = t[remotecall].active
      /\ u[remotecall].subResult = t[remotecall].subResult
  BY <1>2, <1>4, Names DEF Switched
<1>7. Link(u, st, fn)
  BY <1>5, <1>6, Names DEF RecordsOK, Link
<1>8. u[remotecall] = t[remotecall]
  <2>1. u[remotecall] \in Record /\ t[remotecall] \in Record
    BY <1>3, Names, TableFields DEF RecordsOK
  <2> QED BY <1>5, <1>6, <2>1, Names DEF Record
<1> QED BY <1>3, <1>7, <1>8 DEF RecordsOK, u, mode

LEMMA ProgramEndsOK ==
    ASSUME RemoteRules, NEW t, NEW st, NEW fn, RecordsOK(t, st, fn)
    PROVE  LET u == exit_behaviour(t, abl, SUCCESS)
           IN  /\ RecordsOK(u, st, fn)
               /\ u[remotecall].caller = t[remotecall].caller
               /\ ~u[abl].active
<1> DEFINE u == exit_behaviour(t, abl, SUCCESS)
<1>1. Exited(t, abl, SUCCESS, u)
  BY ExitFields, Names, Results DEF RecordsOK
<1> HIDE DEF u
<1>2. TreeOK(u) /\ Held(u) /\ u \in Tables
  <2>1. TreeOK(u) /\ u \in Tables
    BY <1>1, ShrunkTree DEF RecordsOK, Exited
  <2> QED BY <1>1, <2>1, ExitHeld, Names DEF RecordsOK
<1>3. t[abl].caller = NoBeh
  BY ProgramHasNoCaller DEF RecordsOK
<1>4. /\ u[remotecall].active = t[remotecall].active
      /\ u[remotecall].subResult = t[remotecall].subResult
      /\ u[abl].active = FALSE
      /\ \A x \in Behaviours : u[x].caller = t[x].caller
  BY <1>1, <1>3, Names DEF Exited
<1>5. Link(u, st, fn)
  BY <1>4, Names DEF RecordsOK, Link
<1> QED BY <1>2, <1>4, <1>5, Names DEF RecordsOK, u

LEMMA NobodyCalled ==
    ASSUME NEW t, NEW c \in Behaviours, \A x \in Behaviours \ {c} : t[x].caller # c
    PROVE  Called(t, c) = {}
BY {} \in SUBSET Behaviours DEF Called

(* Behind the end of a program the remote call is nobody's any more if it   *)
(* worked for the program, and has nobody below it.                         *)
LEMMA ProgramCancelledOK ==
    ASSUME RemoteRules, NEW t, NEW st \in States, NEW fn, RecordsOK(t, st, fn)
    PROVE  LET off == deactivate_behaviour(deactivate_called_behaviours(t, abl), abl)
               u == switch_to_behaviour(off, NoBeh, remotecall,
                                        [override |-> FALSE, background |-> TRUE])
           IN  /\ RecordsOK(u, st, fn)
               /\ t[remotecall].caller = NoBeh => u[remotecall].caller = NoBeh
<1> DEFINE D == Called(t, abl)
           v == deactivate_called_behaviours(t, abl)
           r == [v[abl] EXCEPT !.active = FALSE, !.caller = NoBeh]
           off == deactivate_behaviour(v, abl)
           mode == [override |-> FALSE, background |-> TRUE]
           u == switch_to_behaviour(off, NoBeh, remotecall, mode)
<1>0. mode \in Modes /\ mode.background /\ ~mode.override
  BY DEF Modes
<1>1. Stopped(t, abl, D, v)
  BY StopFields, RemoteIsHeld DEF RecordsOK
<1>2. t[abl].caller = NoBeh /\ v[abl].caller = NoBeh
  BY <1>1, ProgramHasNoCaller, Names DEF RecordsOK, Stopped
<1>3. off = [v EXCEPT ![abl] = r]
  BY DEF deactivate_behaviour
<1>4. r \in Record /\ r.active = FALSE /\ r.caller = NoBeh
  <2>1. v \in Tables
    BY <1>1 DEF Stopped
  <2>2. v[abl] \in Record
    BY <2>1, Names, TableFields
  <2> HIDE DEF v
  <2> QED BY <2>2 DEF Record
<1> HIDE DEF D, v, r, off, mode, u
<1>5. off \in Tables /\ \A x \in Behaviours : off[x] = IF x = abl THEN r ELSE v[x]
  BY <1>1, <1>3, <1>4 DEF Tables, Stopped
<1>6. \A x \in Behaviours : off[x].caller = v[x].caller
  BY <1>2, <1>4, <1>5
<1>7. Held(v)
  BY <1>1, StopHeld, Names DEF RecordsOK
<1>8. Held(off)
  BY <1>2, <1>5, <1>6, <1>7 DEF Held
<1>9. TreeOK(off)
  BY <1>1, <1>6, ShrunkTree DEF RecordsOK, Stopped
<1>10. ASSUME off[remotecall].active
       PROVE  t[remotecall].active /\ t[remotecall].caller # abl
  BY <1>1, <1>5, <1>10, Names DEF Stopped
<1>11. \A x \in Behaviours \ {remotecall} : off[x].caller = remotecall =>
           /\ t[x].caller = remotecall /\ t[remotecall].caller # abl
  BY <1>1, <1>2, <1>6, Names DEF Stopped
<1>12. /\ t[remotecall].caller = abl => /\ off[remotecall].caller = NoBeh
                                        /\ off[remotecall].subResult = CANCEL
                                        /\ off[remotecall].active = FALSE
  BY <1>1, <1>5, Names DEF Stopped
<1>13. u \in Tables /\ TreeOK(u) /\ Held(u) /\ u[abl].active = FALSE
      /\ \A x \in Behaviours \ {remotecall} : u[x].caller = off[x].caller
  <2>1. CASE Refused(off, remotecall, mode)
    <3>1. Told(off, NoBeh, u)
      BY <1>0, <1>5, <2>1, RefusedFields DEF u
    <3>2. u \in Tables /\ TreeOK(u)
      BY <1>9, <3>1, ShrunkTree DEF Told
    <3>3. Held(u)
      BY <1>8, <3>1, ToldHeld
    <3> QED BY <1>4, <1>5, <3>1, <3>2, <3>3, Names DEF Told
  <2>2. CASE ~Refused(off, remotecall, mode)
    <3>1. Switched(off, NoBeh, remotecall, mode, u)
      BY <1>0, <1>5, <2>2, SwitchFields, Names DEF u
    <3>2. u \in Tables
      BY <3>1 DEF Switched
    <3>3. TreeOK(u) /\ Held(u)
      BY <1>8, <1>9, <3>1, SwitchHeld, SwitchTree, Names
    <3>4. off[remotecall].caller # abl
      BY <2>2, <1>0, Names DEF Refused, Busy
    <3> QED BY <1>4, <1>5, <3>1, <3>2, <3>3, <3>4, Names DEF Switched
  <2> QED BY <2>1, <2>2
<1>14. CASE t[remotecall].caller = abl
  <2>1. /\ off[remotecall].caller = NoBeh /\ off[remotecall].subResult = CANCEL
        /\ off[remotecall].active = FALSE
    BY <1>12, <1>14
  <2>2. ~Refused(off, remotecall, mode)
    BY <2>1, Names, Results DEF Refused, Busy
  <2>3. Switched(off, NoBeh, remotecall, mode, u)
    BY <1>0, <1>5, <2>2, SwitchFields, Names DEF u
  <2>4. /\ u[remotecall].active = TRUE /\ u[remotecall].caller = NoBeh
        /\ u[remotecall].subResult = CANCEL
    BY <2>1, <2>3, Names DEF Switched
  <2>5. \A x \in Behaviours \ {remotecall} : u[x].caller # remotecall
    BY <1>11, <1>13, <1>14
  <2>6. Link(u, st, fn)
    BY <2>4, <2>5, Names, Results DEF Link
  <2> QED BY <1>13, <2>4, <2>6 DEF RecordsOK, u, off, v, mode
<1>15. CASE t[remotecall].caller # abl
  <2>1. \A x \in Behaviours \ {abl} : t[x].caller # abl
    BY <1>15, Names DEF RecordsOK, TreeOK
  <2>2. off[remotecall] = t[remotecall]
    <3>1. remotecall \notin D
      BY <2>1, NobodyCalled, Names DEF D
    <3>2. v[remotecall] \in Record /\ t[remotecall] \in Record
      BY <1>1, Names, TableFields DEF Stopped, RecordsOK
    <3>3. v[remotecall] = t[remotecall]
      BY <1>1, <3>1, <3>2, Names DEF Stopped, Record
    <3> QED BY <1>5, <3>3, Names
  <2>3. CASE Refused(off, remotecall, mode)
    <3>1. Told(off, NoBeh, u)
      BY <1>0, <1>5, <2>3, RefusedFields DEF u
    <3>2. /\ u[remotecall].active = t[remotecall].active
          /\ u[remotecall].caller = t[remotecall].caller
          /\ u[remotecall].subResult = t[remotecall].subResult
      BY <2>2, <3>1, Names DEF Told
    <3>3. \A x \in Behaviours \ {remotecall} : u[x].caller = t[x].caller
      BY <1>6, <1>13, <2>1, NobodyCalled, <1>1, Names DEF Stopped, D
    <3>4. Link(u, st, fn)
      BY <1>13, <3>2, <3>3, Names DEF RecordsOK, Link
    <3> QED BY <1>13, <3>2, <3>4 DEF RecordsOK, u, off, v, mode
  <2>4. CASE ~Refused(off, remotecall, mode)
    <3>1. Switched(off, NoBeh, remotecall, mode, u)
      BY <1>0, <1>5, <2>4, SwitchFields, Names DEF u
    <3>2. /\ ~t[remotecall].active /\ t[remotecall].caller = NoBeh
          /\ t[remotecall].subResult # RUNNING
      BY <1>0, <2>2, <2>4, Names DEF Refused, Busy
    <3>3. /\ u[remotecall].active = TRUE /\ u[remotecall].caller = NoBeh
          /\ u[remotecall].subResult # RUNNING
      BY <2>2, <3>1, <3>2, Names DEF Switched
    <3>4. \A x \in Behaviours \ {remotecall} : u[x].caller # remotecall
      BY <1>11, <1>13, <3>2 DEF RecordsOK, Link
    <3>5. Link(u, st, fn)
      BY <3>3, <3>4, Names DEF Link
    <3> QED BY <1>13, <3>3, <3>5 DEF RecordsOK, u, off, v, mode
  <2> QED BY <2>3, <2>4
<1> QED BY <1>14, <1>15
-----------------------------------------------------------------------------
(* The steps. *)
LEMMA WalkGoesDown ==
    ASSUME NEW t \in Tables, WalkOn(t), job \in Behaviours
    PROVE  /\ job' \in Behaviours \cup {NoBeh}
           /\ job' # NoBeh => t[job'].active /\ prio[job'] < prio[job]
BY DEF WalkOn, ActiveBelow

LEMMA RemoteIsFirst ==
    ASSUME NEW b \in Behaviours
    PROVE  /\ prio[b] \in 0 .. 255
           /\ ~(prio[remotecall] < prio[b])
<1> DEFINE p == prio[b]
           r == prio[remotecall]
<1>1. p \in 0 .. 255 /\ r \in 0 .. 255
  BY PrioAssumption, Names
<1>2. p < r \/ p = r
  BY RemoteAssumption
<1> HIDE DEF p, r
<1>3. ~(r < p)
  BY <1>1, <1>2
<1> QED BY <1>1, <1>3 DEF p, r

(* The work routine, in the walk or called by an abort: t are the records   *)
(* it finds.                                                                *)
LEMMA WorkedOK ==
    ASSUME RemoteRules, IInv, RemoteAnswers, NEW mode \in FgModes, NEW t,
           RecordsOK(t, running_behaviour, function_id),
           t[remotecall].active, t[remotecall].caller = beh[remotecall].caller
    PROVE  LET u == RemoteWorked(t, mode)
           IN  /\ RecordsOK(u, running_behaviour', function_id')
               /\ OrderOK'
               /\ running_behaviour' = "IDLE" =>
                      /\ u[remotecall].caller = NoBeh
                      /\ u[remotecall].active => ~u[abl].active
                      /\ origin' = Nobody
               /\ origin' = "sim" => u[remotecall].caller = NoBeh
               /\ origin' = "abl" => u[remotecall].caller = abl
               /\ running_behaviour # "SCHEDULED" => running_behaviour' = "IDLE"
<1> DEFINE u == RemoteWorked(t, mode)
<1>1. CASE running_behaviour = "SCHEDULED"
  <2>1. /\ running_behaviour' = "RUNNING" /\ function_id' = function_id /\ origin' = origin
        /\ function_id \in Functions
    BY <1>1 DEF RemoteAnswers, IInv, OrderOK
  <2>2. RecordsOK(u, "RUNNING", function_id) /\ u[remotecall].caller = t[remotecall].caller
    <3>1. CASE function_id \in Behaviours
      <4>1. u = switch_to_behaviour(t, remotecall, function_id, mode)
        BY <1>1, <3>1 DEF RemoteWorked
      <4> QED BY <1>1, <2>1, <3>1, <4>1, StartsOK
    <3>2. CASE function_id \notin Behaviours
      <4>1. u = t
        BY <1>1, <3>2 DEF RemoteWorked
      <4> QED BY <1>1, <4>1, WorksAtOnceOK
    <3> QED BY <3>1, <3>2
  <2> HIDE DEF u
  <2>3. OrderOK'
    BY <2>1 DEF IInv, OrderOK, States
  <2> QED BY <1>1, <2>1, <2>2, <2>3 DEF IInv, AnswerGoesToClient, u
<1>2. CASE running_behaviour # "SCHEDULED"
  <2>1. running_behaviour \in {"IDLE", "RUNNING"} /\ running_behaviour' = "IDLE"
    BY <1>2 DEF RemoteAnswers, IInv, OrderOK, States
  <2>2. origin' = Nobody /\ OrderOK'
    BY <1>2, <2>1 DEF RemoteAnswers, IInv, OrderOK, AnswerGoesToClient, States
  <2>3. u = exit_behaviour(t, remotecall, SUCCESS)
    BY <1>2 DEF RemoteWorked
  <2> HIDE DEF u
  <2>4. /\ RecordsOK(u, "IDLE", function_id')
        /\ u[remotecall].caller = NoBeh
        /\ u[remotecall].active => ~u[abl].active
    BY <2>1, <2>3, EndsOK
  <2> QED BY <2>1, <2>2, <2>4 DEF u, Nobody
<1> QED BY <1>1, <1>2

LEMMA InitIInv == RemoteInit => IInv
<1> SUFFICES ASSUME RemoteInit PROVE IInv
  OBVIOUS
<1>1. beh \in Tables /\ \A b \in Behaviours : beh[b].caller = NoBeh /\ beh[b].subResult # RUNNING
  BY DEF RemoteInit, Init, Tables, Record, SubResults, SUCCESS, RUNNING
<1>2. TreeOK(beh) /\ Held(beh)
  BY <1>1 DEF TreeOK, Held
<1>3. Link(beh, running_behaviour, function_id)
  BY <1>1, Names DEF Link, RemoteInit
<1>4. job = NoBeh /\ OrderOK /\ InWalk
  BY Names DEF RemoteInit, Init, OrderOK, InWalk, States
<1>5. AnswerGoesToClient
  BY DEF RemoteInit, AnswerGoesToClient, Nobody
<1> QED BY <1>1, <1>2, <1>3, <1>4, <1>5 DEF IInv, RecordsOK

(* Others leave the order and its client alone. *)
LEMMA OthersKeep ==
    ASSUME IInv, UNCHANGED callVars, job' = job, Other(job) \/ job = NoBeh,
           RecordsOK(beh', running_behaviour, function_id),
           Untouched(beh, beh', running_behaviour)
    PROVE  IInv'
<1>1. RecordsOK(beh', running_behaviour', function_id') /\ OrderOK'
  BY DEF callVars, IInv, OrderOK
<1>2. AnswerGoesToClient'
  BY DEF callVars, IInv, AnswerGoesToClient, Untouched
<1>3. InWalk'
  BY Names DEF callVars, IInv, InWalk, Untouched, Other
<1> QED BY <1>1, <1>2, <1>3 DEF IInv

(* The records do not change, and the walk goes on or ends. *)
LEMMA WalkKeeps ==
    ASSUME IInv, UNCHANGED <<beh, callVars>>,
           job \in Behaviours \ {remotecall}, job' = NoBeh \/ WalkOn(beh)
    PROVE  IInv'
<1>1. RecordsOK(beh', running_behaviour', function_id') /\ OrderOK' /\ AnswerGoesToClient'
  BY DEF callVars, IInv, OrderOK, AnswerGoesToClient
<1>2. CASE job' = NoBeh
  BY <1>1, <1>2, Names DEF IInv, InWalk
<1>3. CASE WalkOn(beh)
  <2>1. /\ job' \in Behaviours \cup {NoBeh}
        /\ job' # NoBeh => beh[job'].active /\ prio[job'] < prio[job]
    BY <1>3, WalkGoesDown DEF IInv, RecordsOK
  <2>2. job' # remotecall
    BY <2>1, RemoteIsFirst, Names
  <2>3. InWalk'
    BY <2>1, <2>2, Names DEF IInv, InWalk, callVars
  <2> QED BY <1>1, <2>1, <2>3 DEF IInv
<1> QED BY <1>2, <1>3

(* A command or key between two walks. *)
LEMMA CommandKeeps ==
    ASSUME IInv, job = NoBeh, job' = job,
           RecordsOK(beh', running_behaviour', function_id'), OrderOK', AnswerGoesToClient'
    PROVE  IInv'
BY Names DEF IInv, InWalk

LEMMA WorkStep ==
    ASSUME RemoteRules, IInv, bot_remotecall_behaviour
    PROVE  IInv'
<1>1. PICK mode \in FgModes : beh' = RemoteWorked(beh, mode)
  BY DEF bot_remotecall_behaviour
<1>2. job = remotecall /\ RemoteAnswers /\ WalkOn(beh') /\ beh[remotecall].active
  BY Names DEF bot_remotecall_behaviour, IInv, InWalk
<1>3. /\ RecordsOK(beh', running_behaviour', function_id')
      /\ OrderOK'
      /\ running_behaviour' = "IDLE" =>
             /\ beh'[remotecall].active => ~beh'[abl].active
             /\ origin' = Nobody
      /\ origin' = "sim" => beh'[remotecall].caller = NoBeh
      /\ origin' = "abl" => beh'[remotecall].caller = abl
  BY <1>1, <1>2, WorkedOK DEF IInv
<1>4. /\ job' \in Behaviours \cup {NoBeh}
      /\ job' # NoBeh => beh'[job'].active /\ prio[job'] < prio[job]
  BY <1>2, <1>3, WalkGoesDown, Names DEF RecordsOK
<1>5. job' # remotecall
  BY <1>2, <1>4, RemoteIsFirst, Names
<1>6. InWalk'
  BY <1>3, <1>4, <1>5, Names DEF InWalk
<1>7. AnswerGoesToClient'
  BY <1>3 DEF AnswerGoesToClient
<1> QED BY <1>3, <1>4, <1>6, <1>7 DEF IInv

LEMMA StopSteps ==
    ASSUME RemoteRules, IInv, Abort \/ rc5_emergency_stop
    PROVE  IInv'
<1> DEFINE t == deactivate_called_behaviours(beh, remotecall)
<1>1. /\ RecordsOK(t, running_behaviour, function_id)
      /\ t[remotecall].active /\ t[remotecall].caller = beh[remotecall].caller
  BY StopRemoteOK DEF IInv, OrderOK
<1>2. job = NoBeh /\ job' = job /\ RemoteAnswers
  BY DEF Abort, rc5_emergency_stop
<1> HIDE DEF t
<1>3. CASE Abort
  <2>1. PICK mode \in FgModes : beh' = RemoteWorked(t, mode)
    BY <1>3 DEF Abort, bot_remotecall_cancel, t
  <2>2. /\ RecordsOK(beh', running_behaviour', function_id')
        /\ OrderOK'
        /\ running_behaviour' = "IDLE" => origin' = Nobody
        /\ origin' = "sim" => beh'[remotecall].caller = NoBeh
        /\ origin' = "abl" => beh'[remotecall].caller = abl
    BY <1>1, <1>2, <2>1, WorkedOK
  <2>3. AnswerGoesToClient'
    BY <2>2 DEF AnswerGoesToClient
  <2> QED BY <1>2, <2>2, <2>3, CommandKeeps
<1>4. CASE rc5_emergency_stop
  <2>1. PICK mode \in FgModes : beh' = deactivateAllBehaviours(RemoteWorked(t, mode))
    BY <1>4 DEF rc5_emergency_stop, bot_remotecall_cancel, t
  <2>2. running_behaviour # "SCHEDULED"
    BY <1>4 DEF rc5_emergency_stop, RemoteRules
  <2> DEFINE u == RemoteWorked(t, mode)
  <2>3. /\ RecordsOK(u, running_behaviour', function_id')
        /\ OrderOK' /\ running_behaviour' = "IDLE" /\ origin' = Nobody
    BY <1>1, <1>2, <2>2, WorkedOK
  <2>4. RecordsOK(beh', running_behaviour', function_id')
    <3> HIDE DEF u
    <3>1. beh' = deactivateAllBehaviours(u)
      BY <2>1 DEF u
    <3>2. RecordsOK(u, "IDLE", function_id')
      BY <2>3
    <3>3. RecordsOK(deactivateAllBehaviours(u), "IDLE", function_id')
      BY <3>2, ResetOK
    <3> QED BY <2>3, <3>1, <3>3
  <2>5. AnswerGoesToClient'
    BY <2>3 DEF AnswerGoesToClient, Nobody
  <2> QED BY <1>2, <2>3, <2>4, <2>5, CommandKeeps
<1> QED BY <1>3, <1>4

(* The three ways an order comes. *)
LEMMA OrderSteps ==
    ASSUME RemoteRules, IInv, NEW fn \in Functions,
           Order(fn) \/ KeypadOrder(fn) \/ AblCall(fn)
    PROVE  IInv'
<1> DEFINE Ordered(who, client) ==
        /\ RecordsOK(beh, "IDLE", function_id)
        /\ beh' = switch_to_behaviour(beh, who, remotecall, NoOverride)
        /\ running_behaviour' = "SCHEDULED" /\ function_id' = fn /\ origin' = client
<1>1. ASSUME NEW who, NEW client, bot_remotecall_from_id(who, client, fn)
      PROVE  Ordered(who, client) /\ running_behaviour = "IDLE"
  BY <1>1 DEF bot_remotecall_from_id, IInv
<1>2. ASSUME NEW who \in {NoBeh, remotecall, abl}, NEW client \in Clients, Ordered(who, client),
             who = remotecall => ~beh[abl].active,
             who = abl => ~beh[remotecall].active
      PROVE  /\ RecordsOK(beh', running_behaviour', function_id')
             /\ OrderOK'
             /\ who # remotecall => beh'[remotecall].caller = who
  <2>1. /\ RecordsOK(beh', "SCHEDULED", fn)
        /\ who # remotecall => beh'[remotecall].caller = who
    BY <1>2, OrderedOK
  <2>2. OrderOK'
    BY <1>2 DEF OrderOK, States
  <2> QED BY <1>2, <2>1, <2>2
<1>3. CASE Order(fn)
  <2>1. Ordered(NoBeh, "sim") /\ job = NoBeh /\ job' = job
    BY <1>1, <1>3 DEF Order
  <2>2. /\ RecordsOK(beh', running_behaviour', function_id')
        /\ OrderOK' /\ beh'[remotecall].caller = NoBeh
    BY <1>2, <2>1, Names DEF Clients
  <2>3. AnswerGoesToClient'
    BY <2>1, <2>2 DEF AnswerGoesToClient
  <2> QED BY <2>1, <2>2, <2>3, CommandKeeps
<1>4. CASE KeypadOrder(fn)
  <2>1. Ordered(remotecall, "keypad") /\ job = NoBeh /\ job' = job /\ ~beh[abl].active
    BY <1>1, <1>4 DEF KeypadOrder, RemoteRules
  <2>2. RecordsOK(beh', running_behaviour', function_id') /\ OrderOK'
    BY <1>2, <2>1, Names DEF Clients
  <2>3. AnswerGoesToClient'
    BY <2>1 DEF AnswerGoesToClient
  <2> QED BY <2>1, <2>2, <2>3, CommandKeeps
<1>5. CASE AblCall(fn)
  <2>1. Ordered(abl, "abl") /\ running_behaviour = "IDLE" /\ job = abl /\ WalkOn(beh')
    BY <1>1, <1>5 DEF AblCall
  <2>2. ~beh[remotecall].active
    BY <2>1, Names DEF IInv, InWalk
  <2>3. /\ RecordsOK(beh', running_behaviour', function_id')
        /\ OrderOK' /\ beh'[remotecall].caller = abl
    BY <1>2, <2>1, <2>2, Names DEF Clients
  <2>4. AnswerGoesToClient'
    BY <2>1, <2>3 DEF AnswerGoesToClient
  <2>5. /\ job' \in Behaviours \cup {NoBeh}
        /\ job' # NoBeh => beh'[job'].active /\ prio[job'] < prio[job]
    BY <2>1, <2>3, WalkGoesDown, Names DEF RecordsOK
  <2>6. job' # remotecall
    BY <2>1, <2>5, RemoteIsFirst, Names
  <2>7. InWalk'
    BY <2>1, <2>5, <2>6, Names DEF InWalk
  <2> QED BY <2>3, <2>4, <2>5, <2>7 DEF IInv
<1> QED BY <1>3, <1>4, <1>5

LEMMA ProgramSteps ==
    ASSUME RemoteRules, IInv, AblEnd \/ AblStep \/ bot_abl \/ abl_cancel
    PROVE  IInv'
<1>1. CASE AblEnd
  <2>1. job = abl /\ WalkOn(beh') /\ beh' = exit_behaviour(beh, abl, SUCCESS) /\ UNCHANGED callVars
    BY <1>1 DEF AblEnd
  <2>2. /\ RecordsOK(beh', running_behaviour, function_id)
        /\ beh'[remotecall].caller = beh[remotecall].caller
        /\ ~beh'[abl].active
    BY <2>1, ProgramEndsOK DEF IInv
  <2>3. RecordsOK(beh', running_behaviour', function_id') /\ OrderOK' /\ AnswerGoesToClient'
    BY <2>1, <2>2 DEF callVars, IInv, OrderOK, AnswerGoesToClient
  <2>4. /\ job' \in Behaviours \cup {NoBeh}
        /\ job' # NoBeh => beh'[job'].active /\ prio[job'] < prio[job]
    BY <2>1, <2>2, WalkGoesDown, Names DEF RecordsOK
  <2>5. job' # remotecall
    BY <2>1, <2>4, RemoteIsFirst, Names
  <2>6. InWalk'
    BY <2>2, <2>4, <2>5, Names DEF InWalk
  <2> QED BY <2>3, <2>4, <2>6 DEF IInv
<1>2. CASE AblStep
  <2>1. UNCHANGED <<beh, callVars>> /\ job = abl /\ (job' = NoBeh \/ WalkOn(beh))
    BY <1>2 DEF AblStep, EndWork, Walk, WalkOn
  <2> QED BY <2>1, WalkKeeps, Names
<1>3. CASE bot_abl
  <2>1. /\ job = NoBeh /\ job' = job /\ UNCHANGED callVars /\ beh[remotecall].caller # remotecall
        /\ beh' = switch_to_behaviour(beh, NoBeh, abl, [NoOverride EXCEPT !.override = TRUE])
    BY <1>3 DEF bot_abl, RemoteRules
  <2>2. /\ RecordsOK(beh', running_behaviour, function_id)
        /\ beh'[remotecall] = beh[remotecall]
    BY <2>1, ProgramStartsOK DEF IInv
  <2>3. RecordsOK(beh', running_behaviour', function_id') /\ OrderOK' /\ AnswerGoesToClient'
    BY <2>1, <2>2 DEF callVars, IInv, OrderOK, AnswerGoesToClient
  <2> QED BY <2>1, <2>3, CommandKeeps
<1>4. CASE abl_cancel
  <2>1. /\ job = NoBeh /\ job' = job
        /\ running_behaviour' = running_behaviour /\ function_id' = function_id
        /\ origin' = IF origin = "abl" THEN Nobody ELSE origin
    BY <1>4 DEF abl_cancel
  <2>2. /\ RecordsOK(beh', running_behaviour, function_id)
        /\ beh[remotecall].caller = NoBeh => beh'[remotecall].caller = NoBeh
    BY <1>4, ProgramCancelledOK DEF abl_cancel, IInv, OrderOK
  <2>3. RecordsOK(beh', running_behaviour', function_id') /\ OrderOK' /\ AnswerGoesToClient'
    BY <2>1, <2>2 DEF IInv, OrderOK, AnswerGoesToClient, Nobody
  <2> QED BY <2>1, <2>3, CommandKeeps
<1> QED BY <1>1, <1>2, <1>3, <1>4

LEMMA OtherSteps ==
    ASSUME RemoteRules, IInv,
           OtherCalls \/ (\E b \in Behaviours : OtherReturns(b)) \/ OtherEnds \/ OtherStarts
    PROVE  IInv'
<1>1. CASE OtherCalls
  <2>1. PICK to \in Behaviours, mode \in Modes : Call(to, mode)
    BY <1>1 DEF OtherCalls
  <2>2. /\ Other(job) /\ UNCHANGED callVars /\ job' = job /\ job \in Behaviours
        /\ beh' = switch_to_behaviour(beh, job, to, mode) /\ <<job, to>> \in Calls
    BY <1>1, <2>1 DEF OtherCalls, Call, Calls, IInv
  <2>3. to \notin {remotecall, abl}
    BY <2>2 DEF RemoteRules
  <2>4. RecordsOK(beh', running_behaviour, function_id) /\ Untouched(beh, beh', running_behaviour)
    BY <2>2, <2>3, OtherSwitchOK DEF IInv, Other
  <2> QED BY <2>2, <2>4, OthersKeep
<1>2. ASSUME NEW b \in Behaviours, OtherReturns(b)
      PROVE  IInv'
  <2>1. PICK s \in {SUCCESS, FAIL} : Return(s)
    BY <1>2 DEF OtherReturns
  <2>2. /\ Other(job) /\ UNCHANGED callVars /\ job' = job /\ job \in Behaviours
        /\ beh' = exit_behaviour(beh, job, s) /\ s \in SubResults \ {RUNNING}
    BY <1>2, <2>1, Results DEF OtherReturns, Return, IInv
  <2>3. RecordsOK(beh', running_behaviour, function_id) /\ Untouched(beh, beh', running_behaviour)
    BY <2>2, OtherReturnsOK DEF IInv
  <2> QED BY <2>2, <2>3, OthersKeep
<1>3. CASE OtherEnds
  <2>1. UNCHANGED <<beh, callVars>> /\ Other(job) /\ (job' = NoBeh \/ WalkOn(beh))
    BY <1>3 DEF OtherEnds, EndWork, Walk, WalkOn
  <2> QED BY <2>1, WalkKeeps DEF Other, IInv
<1>4. CASE OtherStarts
  <2>1. PICK to \in Startable, mode \in Modes : Start(to, mode)
    BY <1>4 DEF OtherStarts
  <2>2. /\ UNCHANGED callVars /\ job = NoBeh /\ job' = job
        /\ beh' = switch_to_behaviour(beh, NoBeh, to, mode)
    BY <1>4, <2>1 DEF OtherStarts, Start
  <2>3. to \in Behaviours /\ to \notin {remotecall, abl}
    BY CallsAssumption DEF RemoteRules
  <2>4. RecordsOK(beh', running_behaviour, function_id) /\ Untouched(beh, beh', running_behaviour)
    BY <2>2, <2>3, OtherSwitchOK, Names DEF IInv
  <2> QED BY <2>2, <2>4, OthersKeep
<1> QED BY <1>1, <1>2, <1>3, <1>4

LEMMA NextIInv ==
    ASSUME RemoteRules, IInv, [RemoteNext]_remoteVars
    PROVE  IInv'
<1>1. CASE RemoteWalk
  <2>1. UNCHANGED <<beh, callVars>> /\ job = NoBeh /\ job' \in ActiveBelow(beh, 256)
    BY <1>1 DEF RemoteWalk, BeginWalk, Walk
  <2>2. /\ job' \in Behaviours /\ beh[job'].active
        /\ \A c \in Behaviours : beh[c].active /\ prio[c] < 256 => prio[c] <= prio[job']
    BY <2>1 DEF ActiveBelow
  <2>3. job' # remotecall => ~beh[remotecall].active
    <3> SUFFICES ASSUME job' # remotecall, beh[remotecall].active
                 PROVE  FALSE
      OBVIOUS
    <3> DEFINE p == prio[job']
               r == prio[remotecall]
    <3>1. p \in 0 .. 255 /\ r \in 0 .. 255
      BY <2>2, RemoteIsFirst, Names
    <3>2. p < r
      BY <2>2, RemoteAssumption
    <3>3. r < 256 => r <= p
      BY <2>2, Names
    <3> HIDE DEF p, r
    <3> QED BY <3>1, <3>2, <3>3
  <2>4. RecordsOK(beh', running_behaviour', function_id') /\ OrderOK' /\ AnswerGoesToClient'
    BY <2>1 DEF callVars, IInv, OrderOK, AnswerGoesToClient
  <2>5. InWalk'
    BY <2>1, <2>2, <2>3 DEF InWalk, callVars
  <2> QED BY <2>2, <2>4, <2>5 DEF IInv
<1>2. CASE UNCHANGED remoteVars
  BY <1>2 DEF remoteVars, callVars, IInv, OrderOK, InWalk, AnswerGoesToClient
<1> QED BY <1>1, <1>2, WorkStep, StopSteps, OrderSteps, ProgramSteps, OtherSteps DEF RemoteNext

LEMMA IInvAlways ==
    ASSUME RemoteRules
    PROVE  RemoteSpec => []IInv
<1>1. IInv /\ [RemoteNext]_remoteVars => IInv'
  BY NextIInv
<1> QED BY <1>1, InitIInv, PTL DEF RemoteSpec

-----------------------------------------------------------------------------
(* Below a sleeping remote call there is an active behaviour: the last of   *)
(* the hierarchy below it.                                                  *)
LEMMA IInvIsServed ==
    ASSUME RemoteRules, IInv
    PROVE  RemoteInv
<1>1. RemoteTypeOK
  BY DEF RemoteTypeOK, TypeOK, IInv, RecordsOK, OrderOK, Tables
<1>2. ASSUME running_behaviour = "RUNNING", ~beh[remotecall].active,
             \A c \in Called(beh, remotecall) : ~beh[c].active
      PROVE  FALSE
  <2> DEFINE D == Called(beh, remotecall)
  <2>1. /\ D \subseteq Behaviours
        /\ \A x \in Behaviours : x \in D <=> x # remotecall /\ beh[x].caller \in D \cup {remotecall}
    BY CalledIsClosure, Names DEF Called
  <2>2. function_id \in Behaviours /\ beh[function_id].caller = remotecall
    BY <1>2 DEF IInv, RecordsOK, Link
  <2>3. function_id \in D
    BY <1>2, <2>1, <2>2, Names DEF IInv, OrderOK
  <2>4. D \in SUBSET Behaviours /\ D # {}
    BY <2>1, <2>3
  <2> HIDE DEF D
  <2>5. PICK x \in D : \A y \in D : <<x, y>> \notin Calls
    BY <2>4, CallTreeAssumption
  <2>6. x \in Behaviours /\ x # remotecall /\ beh[x].caller \in D \cup {remotecall}
    BY <2>1, <2>5
  <2>7. ~beh[x].active /\ beh[x].caller # NoBeh
    BY <1>2, <2>1, <2>5, <2>6, Names DEF D
  <2>8. PICK c \in Behaviours : beh[c].caller = x
    BY <2>6, <2>7 DEF IInv, RecordsOK, Held
  <2>9. x # abl
    BY <2>7, ProgramHasNoCaller DEF IInv, RecordsOK
  <2>10. c # remotecall /\ <<x, c>> \in Calls
    BY <2>6, <2>8, <2>9, Names DEF IInv, RecordsOK, TreeOK
  <2>11. c \in D
    BY <2>1, <2>5, <2>8, <2>10
  <2> QED BY <2>5, <2>10, <2>11
<1> QED BY <1>1, <1>2 DEF RemoteInv, RunningIsServed

(* The answer to an order goes to the client that gave it, although the     *)
(* result of switch_to_behaviour() is not looked at: an idle remote call is *)
(* occupied by nobody but itself, for one walk, and then it comes before    *)
(* any program in the walk (behaviour_remotecall.c:389-406, 446-486).       *)
THEOREM AnswersGoToClients ==
    ASSUME RemoteRules
    PROVE  RemoteSpec => []AnswerGoesToClient
<1>1. IInv => AnswerGoesToClient
  BY DEF IInv
<1> QED BY <1>1, IInvAlways, PTL

(* An order that runs is served (behaviour_remotecall.c:351): the remote    *)
(* call is awake, or a behaviour below it is, whoever calls, overrides,     *)
(* aborts or stops whom.                                                    *)
THEOREM RunningOrdersAreServed ==
    ASSUME RemoteRules
    PROVE  RemoteSpec => []RemoteInv
<1>1. IInv => RemoteInv
  BY IInvIsServed
<1> QED BY <1>1, IInvAlways, PTL
=============================================================================
