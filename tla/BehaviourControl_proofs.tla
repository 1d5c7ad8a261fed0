------------------------ MODULE BehaviourControl_proofs ------------------------
(***************************************************************************)
(* Proofs about the behaviour control, for every call graph that keeps the  *)
(* rules of BehaviourDiscipline.                                            *)
(***************************************************************************)
EXTENDS BehaviourDiscipline, TLAPS

Tables == [Behaviours -> Record]

(* Good(t): the part of the inductive invariant that is about the records. *)
Good(t) == t \in Tables /\ CallersCall(t) /\ ExpectingHasCallee(t)

(* Nobody calls itself, so nobody is its own caller. *)
LEMMA NoSelfCall ==
    ASSUME NEW b \in Behaviours
    PROVE  /\ <<b, b>> \notin Calls
           /\ \A t : CallersCall(t) => t[b].caller # b
<1>1. <<b, b>> \notin Calls
  BY CallTreeAssumption, {b} \in SUBSET Behaviours, {b} # {}
<1>2. ASSUME NEW t, CallersCall(t), t[b].caller = b
      PROVE  FALSE
  BY <1>1, <1>2, NamesAssumption DEF CallersCall
<1> QED BY <1>1, <1>2

-----------------------------------------------------------------------------
(* deactivate_behaviour keeps the records good when its victim is one of    *)
(* those that are switched off silently.                                    *)
LEMMA DeactivateGood ==
    ASSUME NEW t, Good(t), NEW b \in Behaviours, SwitchedOffByOthers(b)
    PROVE  Good(deactivate_behaviour(t, b))
<1> DEFINE u == deactivate_behaviour(t, b)
<1>1. u \in Tables
  BY DEF Good, Tables, Record, deactivate_behaviour
<1>2. CallersCall(u)
  BY <1>1 DEF Good, Tables, Record, CallersCall, deactivate_behaviour
<1>3. ASSUME NEW x \in Behaviours, Expecting(u, x)
      PROVE  \E c \in Callees(u, x) : ~SwitchedOffByOthers(c)
  <2>1. Expecting(t, x)
    BY <1>3 DEF Good, Tables, Record, Expecting, deactivate_behaviour
  <2>2. PICK c \in Callees(t, x) : ~SwitchedOffByOthers(c)
    BY <2>1 DEF Good, ExpectingHasCallee
  <2>3. c # b /\ c \in Callees(u, x)
    BY <2>2 DEF Callees, Good, Tables, Record, deactivate_behaviour
  <2> QED BY <2>2, <2>3
<1> QED BY <1>1, <1>2, <1>3 DEF Good, ExpectingHasCallee

(* A return wakes the caller with a result other than RUNNING. *)
LEMMA ExitGood ==
    ASSUME NEW t, Good(t), NEW b \in Behaviours, NEW s \in SubResults \ {RUNNING}
    PROVE  Good(exit_behaviour(t, b, s))
<1> DEFINE off == [t EXCEPT ![b].active = FALSE]
           p == t[b].caller
           woken == Wake(off, p, s)
           u == exit_behaviour(t, b, s)
<1>0. t \in Tables /\ p \in Behaviours \cup {NoBeh} /\ p # b
  <2>1. t \in Tables /\ p \in Behaviours \cup {NoBeh}
    BY DEF Good, Tables, Record
  <2> QED BY <2>1, NoSelfCall DEF Good
<1>1. /\ off \in Tables
      /\ \A x \in Behaviours : /\ off[x].caller = t[x].caller
                               /\ off[x].subResult = t[x].subResult
                               /\ x # b => off[x] = t[x]
  <2>1. t[b] \in Record
    BY <1>0 DEF Tables
  <2>2. PICK r : r = [t[b] EXCEPT !.active = FALSE]
    OBVIOUS
  <2>3. r \in Record /\ r.caller = t[b].caller /\ r.subResult = t[b].subResult
    BY <2>1, <2>2 DEF Record
  <2>4. off = [t EXCEPT ![b] = r]
    BY <2>2
  <2> QED BY <1>0, <2>3, <2>4 DEF Tables
<1>2. u = [woken EXCEPT ![b].caller = NoBeh]
  BY DEF exit_behaviour
<1> HIDE DEF off, u
<1>3. /\ woken \in Tables
      /\ \A x \in Behaviours : /\ woken[x].caller = off[x].caller
                               /\ x = p => woken[x].active = TRUE /\ woken[x].subResult = s
                               /\ x # p => woken[x] = off[x]
  <2>1. CASE p = NoBeh
    BY <1>1, <2>1, NamesAssumption DEF Wake
  <2>2. CASE p \in Behaviours
    <3> DEFINE r == [active |-> TRUE, caller |-> off[p].caller, subResult |-> s]
    <3>1. woken = [off EXCEPT ![p] = r]
      BY <2>2, NamesAssumption DEF Wake
    <3>2. r \in Record
      BY <1>1, <2>2 DEF Tables, Record
    <3> QED BY <1>1, <2>2, <3>1, <3>2 DEF Tables
  <2> QED BY <1>0, <2>1, <2>2
<1> HIDE DEF woken
<1>4. /\ u \in Tables
      /\ \A x \in Behaviours : /\ u[x].caller = (IF x = b THEN NoBeh ELSE woken[x].caller)
                               /\ u[x].active = woken[x].active
                               /\ u[x].subResult = woken[x].subResult
  BY <1>2, <1>3 DEF Tables, Record
<1>5. CallersCall(u)
  BY <1>1, <1>3, <1>4 DEF Good, CallersCall
<1>6. ASSUME NEW x \in Behaviours, Expecting(u, x)
      PROVE  \E c \in Callees(u, x) : ~SwitchedOffByOthers(c)
  <2>1. x # p
    BY <1>3, <1>4, <1>6 DEF Expecting
  <2>2. Expecting(t, x)
    <3>1. u[x].subResult = t[x].subResult
      BY <1>1, <1>3, <1>4, <2>1
    <3>2. CASE x = b
      BY <1>4, <1>6, <3>1, <3>2 DEF Expecting
    <3>3. CASE x # b
      BY <1>1, <1>3, <1>4, <1>6, <2>1, <3>3 DEF Expecting
    <3> QED BY <3>2, <3>3
  <2>3. PICK c \in Callees(t, x) : ~SwitchedOffByOthers(c)
    BY <2>2 DEF Good, ExpectingHasCallee
  <2>4. c # b /\ c \in Callees(u, x)
    BY <1>1, <1>3, <1>4, <2>1, <2>3 DEF Callees
  <2> QED BY <2>3, <2>4
<1> QED BY <1>4, <1>5, <1>6 DEF u, Good, ExpectingHasCallee

(* A call, whoever makes it, whether it is accepted, refused or takes the   *)
(* target from another caller.                                              *)
LEMMA SwitchGood ==
    ASSUME NEW t, Good(t),
           NEW from \in Behaviours \cup {NoBeh},
           NEW to \in Behaviours \cup {Unlisted},
           NEW mode \in Modes,
           from # NoBeh => <<from, to>> \in (IF mode.background THEN BgCalls ELSE FgCalls)
    PROVE  Good(switch_to_behaviour(t, from, to, mode))
<1> DEFINE u == switch_to_behaviour(t, from, to, mode)
           old == t[to].caller
           taken == Wake(t, old, FAIL)
           susp == SuspendCaller(taken, from, mode)
<1>0. t \in Tables /\ FAIL \in SubResults /\ RUNNING \in SubResults /\ BACKGR \in SubResults
      /\ FAIL # RUNNING /\ BACKGR # RUNNING
  BY DEF Good, SubResults, FAIL, RUNNING, BACKGR
<1>1. CASE Refused(t, to, mode) /\ from = NoBeh
  BY <1>1 DEF switch_to_behaviour
<1>2. CASE Refused(t, to, mode) /\ from # NoBeh
  <2> DEFINE r == [t[from] EXCEPT !.subResult = FAIL]
  <2>1. u = [t EXCEPT ![from] = r] /\ from \in Behaviours
    BY <1>2 DEF switch_to_behaviour
  <2>2. t[from] \in Record
    BY <1>0, <2>1 DEF Tables
  <2>3. r \in Record /\ r.caller = t[from].caller /\ r.active = t[from].active /\ r.subResult = FAIL
    BY <1>0, <2>2 DEF Record
  <2> HIDE DEF r, u
  <2>4. u \in Tables /\ \A x \in Behaviours : u[x] = IF x = from THEN r ELSE t[x]
    BY <1>0, <2>1, <2>3 DEF Tables
  <2>5. \A x \in Behaviours : u[x].caller = t[x].caller
    BY <2>3, <2>4
  <2>6. CallersCall(u)
    BY <2>5 DEF Good, CallersCall
  <2>7. \A x \in Behaviours : Expecting(u, x) => Expecting(t, x) /\ Callees(u, x) = Callees(t, x)
    BY <1>0, <2>3, <2>4, <2>5 DEF Expecting, Callees
  <2> QED BY <2>4, <2>6, <2>7 DEF u, Good, ExpectingHasCallee
<1>3. CASE ~Refused(t, to, mode)
  <2>1. to \in Behaviours /\ old \in Behaviours \cup {NoBeh} /\ old # to /\ from # to
    <3>1. to \in Behaviours
      BY <1>3 DEF Refused
    <3>2. old \in Behaviours \cup {NoBeh}
      BY <1>0, <3>1 DEF Tables, Record
    <3> QED BY <3>1, <3>2, NoSelfCall, NamesAssumption DEF Good, Calls
  <2>2. /\ taken \in Tables
        /\ \A x \in Behaviours :
              /\ taken[x].caller = t[x].caller
              /\ x = old => taken[x].active = TRUE /\ taken[x].subResult = FAIL
              /\ x # old => taken[x] = t[x]
    <3>1. CASE old = NoBeh
      BY <1>0, <3>1, NamesAssumption DEF Wake
    <3>2. CASE old \in Behaviours
      <4> DEFINE r == [active |-> TRUE, caller |-> t[old].caller, subResult |-> FAIL]
      <4>1. taken = [t EXCEPT ![old] = r]
        BY <3>2, NamesAssumption DEF Wake
      <4>2. r \in Record
        BY <1>0, <3>2 DEF Tables, Record
      <4> QED BY <1>0, <3>2, <4>1, <4>2 DEF Tables
    <3> QED BY <2>1, <3>1, <3>2
  <2>3. u = [susp EXCEPT ![to] = [active |-> TRUE, caller |-> from, subResult |-> susp[to].subResult]]
    BY <1>3 DEF switch_to_behaviour
  <2> HIDE DEF taken
  <2>4. /\ susp \in Tables
        /\ \A x \in Behaviours :
              /\ susp[x].caller = taken[x].caller
              /\ x = from /\ mode.background => /\ susp[x].active = taken[x].active
                                               /\ susp[x].subResult = BACKGR
              /\ x = from /\ ~mode.background => susp[x].subResult = RUNNING
              /\ x # from => susp[x] = taken[x]
    <3>1. CASE from = NoBeh
      BY <2>2, <3>1, NamesAssumption DEF SuspendCaller
    <3>2. CASE from # NoBeh /\ mode.background
      <4> DEFINE r == [taken[from] EXCEPT !.subResult = BACKGR]
      <4>1. susp = [taken EXCEPT ![from] = r]
        BY <3>2 DEF SuspendCaller
      <4>2. taken[from] \in Record
        BY <2>2, <3>2 DEF Tables
      <4>3. r \in Record /\ r.caller = taken[from].caller /\ r.active = taken[from].active
            /\ r.subResult = BACKGR
        BY <1>0, <4>2 DEF Record
      <4> QED BY <2>2, <3>2, <4>1, <4>3 DEF Tables
    <3>3. CASE from # NoBeh /\ ~mode.background
      <4> DEFINE r == [active |-> FALSE, caller |-> taken[from].caller, subResult |-> RUNNING]
      <4>1. susp = [taken EXCEPT ![from] = r]
        BY <3>3 DEF SuspendCaller
      <4>2. r \in Record /\ r.caller = taken[from].caller /\ r.subResult = RUNNING
        BY <1>0, <2>2, <3>3 DEF Tables, Record
      <4> HIDE DEF susp, r
      <4>3. susp \in Tables /\ \A x \in Behaviours : susp[x] = IF x = from THEN r ELSE taken[x]
        BY <2>2, <3>3, <4>1, <4>2 DEF Tables
      <4> QED BY <3>3, <4>2, <4>3
    <3> QED BY <3>1, <3>2, <3>3
  <2> HIDE DEF susp, u
  <2>5. /\ u \in Tables
        /\ u[to].active = TRUE /\ u[to].caller = from /\ u[to].subResult = susp[to].subResult
        /\ \A x \in Behaviours : x # to => u[x] = susp[x]
    <3> DEFINE r == [active |-> TRUE, caller |-> from, subResult |-> susp[to].subResult]
    <3>1. r \in Record
      BY <2>1, <2>4 DEF Tables, Record
    <3> QED BY <2>1, <2>3, <2>4, <3>1 DEF Tables
  <2>6. CallersCall(u)
    BY <2>1, <2>2, <2>4, <2>5 DEF Good, CallersCall, Calls
  <2>7. ASSUME NEW x \in Behaviours, Expecting(u, x), ~(x = from /\ ~mode.background)
        PROVE  Expecting(t, x) /\ x # old
    <3>1. CASE x = to
      BY <2>1, <2>2, <2>4, <2>5, <2>7, <3>1 DEF Expecting
    <3>2. CASE x # to /\ x # from
      BY <1>0, <2>1, <2>2, <2>4, <2>5, <2>7, <3>2 DEF Expecting
    <3>3. CASE x # to /\ x = from /\ mode.background
      BY <1>0, <2>1, <2>2, <2>4, <2>5, <2>7, <3>3 DEF Expecting
    <3> QED BY <2>7, <3>1, <3>2, <3>3
  <2>8. ASSUME NEW x \in Behaviours, Expecting(u, x)
        PROVE  \E c \in Callees(u, x) : ~SwitchedOffByOthers(c)
    <3>1. CASE x = from /\ ~mode.background
      BY <2>1, <2>5, <3>1, BackgroundAssumption, NamesAssumption DEF Callees
    <3>2. CASE ~(x = from /\ ~mode.background)
      <4>1. Expecting(t, x) /\ x # old
        BY <2>7, <2>8, <3>2
      <4>2. PICK c \in Callees(t, x) : ~SwitchedOffByOthers(c)
        BY <4>1 DEF Good, ExpectingHasCallee
      <4>3. c # to /\ c \in Callees(u, x)
        BY <2>2, <2>4, <2>5, <4>1, <4>2 DEF Callees
      <4> QED BY <4>2, <4>3
    <3> QED BY <3>1, <3>2
  <2> QED BY <2>5, <2>6, <2>8 DEF u, Good, ExpectingHasCallee
<1> QED BY <1>1, <1>2, <1>3

-----------------------------------------------------------------------------
(* Called(t, c) is closed under calling, and apart from the callees of its  *)
(* members and of c it holds nobody.                                        *)
LEMMA CalledIsClosure ==
    ASSUME NEW t, NEW c \in Behaviours
    PROVE  \A x \in Behaviours :
              x \in Called(t, c) <=> x # c /\ t[x].caller \in Called(t, c) \cup {c}
<1> DEFINE D == Called(t, c)
           Closed(S) == \A x \in Behaviours \ {c} : t[x].caller \in S \cup {c} => x \in S
<1>1. D \subseteq Behaviours /\ \A S \in SUBSET Behaviours : Closed(S) => D \subseteq S
  BY DEF Called
<1>2. Closed(D)
  <2> SUFFICES ASSUME NEW x \in Behaviours \ {c}, t[x].caller \in D \cup {c},
                      NEW S \in SUBSET Behaviours, Closed(S)
               PROVE  x \in S
    BY DEF Called
  <2> QED BY <1>1
<1> HIDE DEF D
<1> DEFINE T == {x \in D : x # c /\ t[x].caller \in D \cup {c}}
<1>3. T \in SUBSET Behaviours /\ Closed(T)
  BY <1>1, <1>2
<1>4. D \subseteq T
  BY <1>1, <1>3
<1> QED BY <1>2, <1>4 DEF D

(* Nobody below c calls c. *)
LEMMA CallerIsNotCalled ==
    ASSUME NEW t, CallersCall(t), NEW c \in Behaviours
    PROVE  t[c].caller \notin Called(t, c)
<1> DEFINE S == Called(t, c) \cup {c}
<1>1. S \in SUBSET Behaviours /\ S # {}
  BY DEF Called
<1>2. SUFFICES ASSUME t[c].caller \in Called(t, c)
               PROVE  FALSE
  OBVIOUS
<1>3. \A x \in S : t[x].caller \in S
  BY <1>1, <1>2, CalledIsClosure
<1>4. \A x \in S : <<t[x].caller, x>> \in Calls
  BY <1>1, <1>3, NamesAssumption DEF CallersCall
<1> HIDE DEF S
<1> QED BY <1>1, <1>3, <1>4, CallTreeAssumption

(* In good records everybody below c is switched off. *)
LEMMA AllCalledSwitchedOff ==
    ASSUME NEW t, Good(t), NEW c \in Behaviours
    PROVE  SwitchedOff(t, c) = Called(t, c)
<1> DEFINE D == Called(t, c)
           R == SwitchedOff(t, c)
           Goes(x, S) == /\ Callees(t, x) \subseteq S
                         /\ Callees(t, x) = {} => t[x].active
<1>1. D \subseteq Behaviours /\ R \subseteq D
  BY DEF Called, SwitchedOff
<1>2. \A x \in D : Goes(x, R) => x \in R
  <2> SUFFICES ASSUME NEW x \in D, Goes(x, R),
                      NEW S \in SUBSET D, \A y \in D : Goes(y, S) => y \in S
               PROVE  x \in S
    BY DEF SwitchedOff
  <2>1. R \subseteq S
    BY DEF SwitchedOff
  <2> HIDE DEF R, D
  <2>2. Goes(x, S)
    BY <2>1
  <2> QED BY <2>2
<1>3. SUFFICES ASSUME D \ R # {}
               PROVE  FALSE
  BY <1>1
<1>4. PICK x \in D \ R : \A y \in D \ R : <<x, y>> \notin Calls
  <2> HIDE DEF D, R
  <2>1. D \ R \in SUBSET Behaviours
    BY <1>1
  <2> QED BY <1>3, <2>1, CallTreeAssumption
<1>5. x \in Behaviours /\ x # c /\ t[x].caller \in D \cup {c}
  BY <1>1, <1>4, CalledIsClosure
<1>6. Callees(t, x) \subseteq R
  <2> SUFFICES ASSUME NEW y \in Behaviours, t[y].caller = x
               PROVE  y \in R
    BY DEF Callees
  <2>1. <<x, y>> \in Calls
    BY <1>5, NamesAssumption DEF Good, CallersCall
  <2>2. y # c
    BY <1>4, CallerIsNotCalled DEF Good
  <2>3. y \in D
    BY <1>4, <2>2, CalledIsClosure
  <2> QED BY <1>4, <2>1, <2>3
<1>7. Callees(t, x) = {} => t[x].active
  <2>1. t[x].caller # NoBeh
    BY <1>1, <1>5, NamesAssumption
  <2> QED BY <1>5, <2>1 DEF Good, ExpectingHasCallee, Expecting
<1> HIDE DEF R, D
<1> QED BY <1>2, <1>4, <1>6, <1>7

LEMMA DeactivateCalledGood ==
    ASSUME NEW t, Good(t), NEW c \in Behaviours
    PROVE  /\ Good(deactivate_called_behaviours(t, c))
           /\ Called(deactivate_called_behaviours(t, c), c) = {}
           /\ deactivate_called_behaviours(t, c)[c].active = TRUE
<1> DEFINE D == Called(t, c)
           off == [active |-> FALSE, caller |-> NoBeh, subResult |-> CANCEL]
           on == [t[c] EXCEPT !.active = TRUE, !.subResult = CANCEL]
           u == deactivate_called_behaviours(t, c)
<1>0. t \in Tables /\ CANCEL \in SubResults /\ CANCEL # RUNNING
  BY DEF Good, SubResults, CANCEL, RUNNING
<1>1. on \in Record /\ on.active = TRUE /\ on.caller = t[c].caller /\ on.subResult = CANCEL
  <2>1. t[c] \in Record
    BY <1>0 DEF Tables
  <2> QED BY <1>0, <2>1 DEF Record
<1>2. off \in Record /\ off.active = FALSE /\ off.caller = NoBeh /\ off.subResult = CANCEL
  BY <1>0 DEF Record
<1>3. u = [b \in Behaviours |-> IF b = c THEN on ELSE IF b \in D THEN off ELSE t[b]]
  BY AllCalledSwitchedOff DEF deactivate_called_behaviours
<1>4. \A x \in Behaviours : x \in D <=> x # c /\ t[x].caller \in D \cup {c}
  BY CalledIsClosure
<1> HIDE DEF on, off, u, D
<1>5. u \in Tables
  BY <1>0, <1>1, <1>2, <1>3 DEF Tables
<1>6. \A x \in Behaviours : u[x].caller = IF x \in D THEN NoBeh ELSE t[x].caller
  BY <1>1, <1>2, <1>3, <1>4
<1>7. CallersCall(u)
  BY <1>6 DEF Good, CallersCall
<1>8. ASSUME NEW x \in Behaviours, Expecting(u, x)
      PROVE  \E b \in Callees(u, x) : ~SwitchedOffByOthers(b)
  <2>1. x # c /\ x \notin D
    BY <1>0, <1>1, <1>2, <1>3, <1>8 DEF Expecting
  <2>2. Expecting(t, x)
    BY <1>3, <1>8, <2>1 DEF Expecting
  <2>3. PICK b \in Callees(t, x) : ~SwitchedOffByOthers(b)
    BY <2>2 DEF Good, ExpectingHasCallee
  <2>4. b \in Callees(u, x)
    BY <1>4, <1>6, <2>1, <2>3 DEF Callees
  <2> QED BY <2>3, <2>4
<1>9. Good(u)
  BY <1>5, <1>7, <1>8 DEF Good, ExpectingHasCallee
<1>10. Called(u, c) = {}
  <2>1. \A x \in Behaviours \ {c} : u[x].caller # c
    BY <1>4, <1>6, NamesAssumption
  <2> QED BY <2>1, {} \in SUBSET Behaviours DEF Called
<1>11. u[c].active = TRUE
  BY <1>1, <1>3
<1> QED BY <1>9, <1>10, <1>11 DEF u

(* The reset of the normal behaviours. *)
LEMMA DeactivateAllGood ==
    ASSUME NEW t, Good(t)
    PROVE  /\ Good(deactivateAllBehaviours(t))
           /\ \A b \in Behaviours : Normal(b) => Callees(deactivateAllBehaviours(t), b) = {}
<1> DEFINE off == [active |-> FALSE, caller |-> NoBeh, subResult |-> CANCEL]
           u == deactivateAllBehaviours(t)
<1>0. t \in Tables /\ CANCEL \in SubResults /\ CANCEL # RUNNING
  BY DEF Good, SubResults, CANCEL, RUNNING
<1>1. off \in Record /\ off.active = FALSE /\ off.caller = NoBeh /\ off.subResult = CANCEL
  BY <1>0 DEF Record
<1>2. u = [b \in Behaviours |-> IF Normal(b) THEN off ELSE t[b]]
  BY DEF deactivateAllBehaviours
<1> HIDE DEF off, u
<1>3. u \in Tables
  BY <1>0, <1>1, <1>2 DEF Tables
<1>4. \A x \in Behaviours : u[x].caller = IF Normal(x) THEN NoBeh ELSE t[x].caller
  BY <1>1, <1>2
<1>5. CallersCall(u)
  BY <1>4 DEF Good, CallersCall
<1>6. \A x, b \in Behaviours : t[x].caller = b => (Normal(b) <=> Normal(x))
  BY RangeAssumption, NamesAssumption DEF Good, CallersCall
<1>7. ASSUME NEW x \in Behaviours, Expecting(u, x)
      PROVE  \E b \in Callees(u, x) : ~SwitchedOffByOthers(b)
  <2>1. ~Normal(x)
    BY <1>0, <1>1, <1>2, <1>7 DEF Expecting
  <2>2. Expecting(t, x)
    BY <1>2, <1>7, <2>1 DEF Expecting
  <2>3. PICK b \in Callees(t, x) : ~SwitchedOffByOthers(b)
    BY <2>2 DEF Good, ExpectingHasCallee
  <2>4. b \in Callees(u, x)
    BY <1>4, <1>6, <2>1, <2>3 DEF Callees
  <2> QED BY <2>3, <2>4
<1>8. \A b \in Behaviours : Normal(b) => Callees(u, b) = {}
  BY <1>4, <1>6, NamesAssumption DEF Callees
<1> QED BY <1>3, <1>5, <1>7, <1>8 DEF u, Good, ExpectingHasCallee

-----------------------------------------------------------------------------
LEMMA InvIsGood == CallsInv <=> Good(beh) /\ job \in Behaviours \cup {NoBeh}
BY DEF CallsInv, TypeOK, Good, Tables

LEMMA InitCallsInv == Init => CallsInv
<1> SUFFICES ASSUME Init
             PROVE  CallsInv
  OBVIOUS
<1>1. TypeOK
  BY DEF Init, TypeOK, Record, SubResults
<1>2. \A b \in Behaviours : beh[b].caller = NoBeh /\ beh[b].subResult # RUNNING
  BY DEF Init, SUCCESS, RUNNING
<1> QED BY <1>1, <1>2 DEF CallsInv, CallersCall, ExpectingHasCallee, Expecting

(* A step either leaves the records alone or is one of the calls above. *)
LEMMA NextCallsInv == CallsInv /\ [Next]_vars => CallsInv'
<1> SUFFICES ASSUME CallsInv, [Next]_vars
             PROVE  Good(beh') /\ job' \in Behaviours \cup {NoBeh}
  BY DEF CallsInv, TypeOK, Good, Tables, CallersCall, ExpectingHasCallee, Callees, Expecting
<1>0. Good(beh) /\ job \in Behaviours \cup {NoBeh}
  BY InvIsGood
<1>a. \A s \in {SUCCESS, FAIL, CANCEL} : s \in SubResults \ {RUNNING}
  BY DEF SubResults, SUCCESS, FAIL, CANCEL, RUNNING
<1>b. ASSUME NEW p PROVE (Walk(p) \/ job' = NoBeh) => job' \in Behaviours \cup {NoBeh}
  BY DEF Walk, ActiveBelow
<1>1. CASE BeginWalk
  BY <1>0, <1>1, <1>b DEF BeginWalk
<1>2. ASSUME NEW wish \in BOOLEAN, EndWork(wish)
      PROVE  Good(beh') /\ job' \in Behaviours \cup {NoBeh}
  BY <1>0, <1>2, <1>b DEF EndWork
<1>3. ASSUME NEW to \in Behaviours \cup {Unlisted}, NEW mode \in Modes, Call(to, mode)
      PROVE  Good(beh') /\ job' \in Behaviours \cup {NoBeh}
  BY <1>0, <1>3, SwitchGood DEF Call
<1>4. ASSUME NEW state \in {SUCCESS, FAIL}, Return(state)
      PROVE  Good(beh') /\ job' \in Behaviours \cup {NoBeh}
  BY <1>0, <1>4, <1>a, ExitGood DEF Return
<1>5. ASSUME NEW t \in Behaviours, Deactivate(t)
      PROVE  Good(beh') /\ job' \in Behaviours \cup {NoBeh}
  BY <1>0, <1>5, DeactivateGood DEF Deactivate, SwitchedOffByOthers
<1>6. ASSUME NEW t \in Behaviours, Cancel(t)
      PROVE  Good(beh') /\ job' \in Behaviours \cup {NoBeh}
  <2>1. Good(deactivate_called_behaviours(beh, t))
    BY <1>0, DeactivateCalledGood
  <2> QED BY <1>0, <1>6, <1>a, <2>1, ExitGood DEF Cancel
<1>7. ASSUME NEW to \in Startable, NEW mode \in Modes, Start(to, mode)
      PROVE  Good(beh') /\ job' \in Behaviours \cup {NoBeh}
  BY <1>0, <1>7, SwitchGood, CallsAssumption DEF Start
<1>8. ASSUME NEW c \in Behaviours, StopCallees(c)
      PROVE  Good(beh') /\ job' \in Behaviours \cup {NoBeh}
  BY <1>0, <1>8, DeactivateCalledGood DEF StopCallees
<1>9. CASE StopAll
  BY <1>0, <1>9, DeactivateAllGood DEF StopAll
<1>10. CASE UNCHANGED vars
  BY <1>0, <1>10 DEF vars
<1> QED BY <1>1, <1>2, <1>3, <1>4, <1>5, <1>6, <1>7, <1>8, <1>9, <1>10 DEF Next

(* The invariant of the call bookkeeping: callers are routines that call,   *)
(* and whoever counts on a callee has one that will not vanish silently.    *)
THEOREM CallsInvariant == Spec => []CallsInv
BY InitCallsInv, NextCallsInv, PTL DEF Spec

(* Type correctness of the records and of the walk. *)
THEOREM TypeCorrect == Spec => []TypeOK
<1>1. CallsInv => TypeOK
  BY DEF CallsInv
<1> QED BY <1>1, CallsInvariant, PTL

(* Below every sleeping behaviour there is an active one: the last of the   *)
(* hierarchy below it, which calls nobody of it, cannot be asleep.          *)
LEMMA GoodIsServed == CallsInv => SleeperIsServed
<1> SUFFICES ASSUME CallsInv, NEW b \in Behaviours, Sleeping(b)
             PROVE  \E c \in Called(beh, b) : beh[c].active
  BY DEF SleeperIsServed
<1> DEFINE D == Called(beh, b)
<1>0. Good(beh)
  BY InvIsGood
<1>1. D \subseteq Behaviours /\ \A x \in Behaviours : x \in D <=> x # b /\ beh[x].caller \in D \cup {b}
  BY CalledIsClosure DEF Called
<1> HIDE DEF D
<1>2. PICK x \in D \cup {b} : \A y \in D \cup {b} : <<x, y>> \notin Calls
  <2>1. D \cup {b} \in SUBSET Behaviours /\ D \cup {b} # {}
    BY <1>1
  <2> QED BY <2>1, CallTreeAssumption
<1>3. \A y \in Behaviours : beh[y].caller # x
  <2> SUFFICES ASSUME NEW y \in Behaviours, beh[y].caller = x
               PROVE  FALSE
    OBVIOUS
  <2>1. y \in D \cup {b}
    BY <1>1, <1>2
  <2>2. <<x, y>> \in Calls
    BY <1>0, <1>1, <1>2, NamesAssumption DEF Good, CallersCall
  <2> QED BY <1>2, <2>1, <2>2
<1>4. x \in Behaviours /\ ~Expecting(beh, x)
  BY <1>0, <1>1, <1>2, <1>3 DEF Good, ExpectingHasCallee, Callees
<1>5. x # b
  BY <1>4 DEF Sleeping, Expecting
<1>6. x \in D /\ beh[x].caller # NoBeh
  BY <1>1, <1>2, <1>5, NamesAssumption
<1> QED BY <1>4, <1>6 DEF Expecting, D

(* Nobody sleeps for ever: a sleeping behaviour always has an active one    *)
(* below it in the call hierarchy.                                          *)
THEOREM SleepersServed == Spec => []SleeperIsServed
BY CallsInvariant, GoodIsServed, PTL

(* deactivate_called_behaviours() leaves nobody below the behaviour it is   *)
(* called for, and that one awake.                                          *)
THEOREM CalleesStop == Spec => StopCalleesStops
<1>1. CallsInv => [\A c \in Behaviours :
                     beh' = deactivate_called_behaviours(beh, c)
                         => Called(beh', c) = {} /\ beh'[c].active]_vars
  BY InvIsGood, DeactivateCalledGood
<1> QED BY <1>1, CallsInvariant, PTL DEF StopCalleesStops

(* After deactivateAllBehaviours() no return wakes a behaviour it reset. *)
THEOREM AllStopFinally == Spec => StopAllIsFinal
<1>1. CallsInv => [beh' = deactivateAllBehaviours(beh)
                     => \A b \in Behaviours : Normal(b) => Callees(beh', b) = {}]_vars
  BY InvIsGood, DeactivateAllGood
<1> QED BY <1>1, CallsInvariant, PTL DEF StopAllIsFinal
=============================================================================
