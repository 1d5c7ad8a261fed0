------------------------- MODULE BehaviourList_proofs -------------------------
(***************************************************************************)
(* Proofs about the list of behaviours: it is in the order of priorities,   *)
(* and the loops over it implement the behaviour control.                   *)
(***************************************************************************)
EXTENDS BehaviourList, WellFoundedInduction, TLAPS

Pointers == Behaviours \cup {NoBeh}
Tables == [Behaviours -> Record]
Off == [active |-> FALSE, caller |-> NoBeh, subResult |-> CANCEL]

(* The loops with their variables. *)
InsertLoops == [at : {"insert"}, new : Behaviours, ptr : Behaviours]
WalkLoops == [at : {"walk"}, ptr : Pointers]
StopLoops == [at : {"visit", "hierarchy", "climb"}, caller : Behaviours, ptr : Pointers,
              up : Pointers, level : Nat, before : Tables]

ListTypeOK ==
    /\ head \in Pointers
    /\ next \in [Behaviours -> Pointers]
    /\ listed \in SUBSET Behaviours
    /\ "at" \in DOMAIN loop
    /\ loop.at = "insert" => loop \in InsertLoops

LoopTypeOK == TypeOK /\ loop \in {NoLoop} \cup InsertLoops \cup WalkLoops \cup StopLoops

-----------------------------------------------------------------------------
(* n is the first of the behaviours l of a priority below p, or there is none. *)
FirstIn(n, p, l) ==
    IF n = NoBeh THEN \A c \in l : prio[c] >= p
    ELSE /\ n \in l /\ prio[n] < p
         /\ \A c \in l : prio[c] < p => prio[c] <= prio[n]

(* Each pointer leads to the next lower priority. *)
ListOK == /\ FirstIn(head, 256, listed)
          /\ \A b \in listed : FirstIn(next[b], prio[b], listed)

(* The search for the place of a behaviour stays above it. *)
InsertOK ==
    loop.at = "insert" => /\ loop.new \notin listed
                          /\ loop.ptr \in listed
                          /\ prio[loop.ptr] > prio[loop.new]

(* No active behaviour is left out between the last one that ran and the    *)
(* entry p the walk has come to.                                            *)
Leads(p, limit) ==
    /\ p # NoBeh => prio[p] < limit
    /\ \A c \in Behaviours : beh[c].active /\ prio[c] < limit =>
           p # NoBeh /\ prio[c] <= prio[p]

WalkOK ==
    loop.at = "walk" =>
        /\ listed = Behaviours
        /\ Leads(loop.ptr, IF job = NoBeh THEN 256 ELSE prio[job])

-----------------------------------------------------------------------------
(* Callers are behaviours that call the other one. *)
CallersCall(t) ==
    \A b \in Behaviours : t[b].caller # NoBeh => <<t[b].caller, b>> \in FgCalls \cup BgCalls

(* A stop, with its loop l and the records u it has come to.  Below(l) are  *)
(* those it looks for, Gone(u, l) those it has switched off so far.         *)
Below(l) == Called(l.before, l.caller)
Gone(u, l) == {b \in Below(l) : u[b].caller = NoBeh}

(* The records but for these are as before. *)
OnlyGone(u, l) == \A b \in Behaviours : u[b] = IF b \in Gone(u, l) THEN Off ELSE l.before[b]

(* Only those go that are to go, and callees before their callers. *)
RightlyGone(u, l) ==
    /\ Gone(u, l) \subseteq SwitchedOff(l.before, l.caller)
    /\ \A b \in Gone(u, l) : Callees(l.before, b) \subseteq Gone(u, l)

(* The outer loop has not come to x, or only now. *)
Coming(x, l) == /\ l.ptr # NoBeh
                /\ prio[x] <= prio[l.ptr]
                /\ l.at = "climb" => x # l.ptr

Climbing(l) == l.at = "climb" /\ l.level > 0

(* Who is left below the caller still has a callee, or is a leaf that is    *)
(* inactive or will be visited, or the climb is at it.                      *)
RightlyLeft(u, l) ==
    \A x \in Below(l) \ Gone(u, l) :
        \/ Callees(u, x) # {}
        \/ Callees(l.before, x) = {} /\ (l.before[x].active => Coming(x, l))
        \/ Climbing(l) /\ x = l.up

(* A way of n stages up from b to d. *)
Ways(t, b, n, d) ==
    {w \in [0 .. n -> Behaviours] :
        /\ w[0] = b /\ w[n] = d
        /\ \A i \in 0 .. n - 1 : t[w[i]].caller = w[i + 1]}

HierarchyOK(u, l) ==
    l.at = "hierarchy" =>
        /\ l.ptr \in Behaviours /\ u[l.ptr].active
        /\ l.up \in Behaviours \ Gone(u, l)
        /\ \E w \in Ways(l.before, l.ptr, l.level, l.up) :
               \A i \in 0 .. l.level : w[i] \in Below(l) <=> l.up \in Below(l)

ClimbOK(u, l) ==
    /\ l.at = "climb" => l.ptr \in Behaviours
    /\ Climbing(l) =>
          /\ l.up \in Below(l) \ Gone(u, l)
          /\ Callees(l.before, l.up) # {} \/ l.before[l.up].active
          /\ \E w \in Ways(l.before, l.up, l.level, l.caller) :
                 \A i \in 0 .. l.level - 1 : w[i] \in Below(l)

StopOK(u, l) ==
    /\ CallersCall(l.before)
    /\ OnlyGone(u, l) /\ RightlyGone(u, l) /\ RightlyLeft(u, l)
    /\ HierarchyOK(u, l) /\ ClimbOK(u, l)

(* Cancel, too, is only asked of a behaviour that runs or sleeps. *)
StopAsked ==
    /\ listed = Behaviours
    /\ job # NoBeh => LET r == loop.before[loop.caller]
                      IN  loop.caller \in Cancelled /\ (r.active \/ r.subResult = RUNNING)

OrderInv == ListTypeOK /\ ListOK /\ InsertOK

LoopInv ==
    /\ LoopTypeOK
    /\ CallersCall(beh)
    /\ WalkOK
    /\ Stopping => StopAsked /\ StopOK(beh, loop)

ListInv == OrderInv /\ LoopInv

-----------------------------------------------------------------------------
(* Every set of numbers that is not empty has a least one.                  *)
LEMMA Least ==
    ASSUME NEW S \in SUBSET Nat, S # {}
    PROVE  \E m \in S : \A n \in S : m <= n
<1> DEFINE R == OpToRel(<, Nat)
<1>1. \A x, y \in Nat : x < y => <<x, y>> \in R
  BY DEF OpToRel
<1>2. IsWellFoundedOn(R, Nat)
  BY NatLessThanWellFounded
<1> HIDE DEF R
<1>3. PICK m \in S : \A n \in S : ~(<<n, m>> \in R)
  BY <1>2, WFMin
<1>4. m \in Nat /\ \A n \in S : n \in Nat
  OBVIOUS
<1>5. \A n \in S : ~(n < m)
  BY <1>1, <1>3, <1>4
<1> QED
  BY <1>4, <1>5

(* So every group of behaviours has one of the lowest priority, and one of  *)
(* the highest.                                                             *)
LEMMA LowestOf ==
    ASSUME NEW S \in SUBSET Behaviours, S # {}
    PROVE  \E m \in S : \A x \in S : prio[m] <= prio[x]
<1> DEFINE P == {prio[x] : x \in S}
<1>1. P \in SUBSET Nat /\ P # {}
  BY PrioAssumption
<1> HIDE DEF P
<1>2. PICK p \in P : \A q \in P : p <= q
  BY <1>1, Least
<1> QED
  BY <1>2 DEF P

LEMMA HighestOf ==
    ASSUME NEW S \in SUBSET Behaviours, S # {}
    PROVE  \E m \in S : \A x \in S : prio[x] <= prio[m]
<1> DEFINE P == {255 - prio[x] : x \in S}
<1>1. P \in SUBSET Nat /\ P # {}
  BY PrioAssumption
<1> HIDE DEF P
<1>2. PICK p \in P : \A q \in P : p <= q
  BY <1>1, Least
<1>3. PICK m \in S : p = 255 - prio[m]
  BY <1>2 DEF P
<1>4. \A x \in S : 255 - prio[m] <= 255 - prio[x]
  BY <1>2, <1>3 DEF P
<1>5. ASSUME NEW x \in S
      PROVE  prio[x] <= prio[m]
  <2>1. prio[x] \in Int /\ prio[m] \in Int
    BY PrioAssumption
  <2> QED
    BY <1>4, <2>1
<1> QED
  BY <1>3, <1>5

-----------------------------------------------------------------------------
(* Where each pointer leads to the next lower priority, those behind one    *)
(* are all that are lower.                                                  *)
LEMMA BehindAreLower ==
    ASSUME ListTypeOK, ListOK, NEW n \in Pointers, NEW p \in Int, FirstIn(n, p, listed)
    PROVE  Behind(n) = {c \in listed : prio[c] < p}
<1> DEFINE L == {c \in listed : prio[c] < p}
<1>1. L \in SUBSET Behaviours /\ listed \in SUBSET Behaviours /\ NoBeh \notin Behaviours
  BY NamesAssumption DEF ListTypeOK
<1>2. \A b \in Behaviours : prio[b] \in Int
  BY PrioAssumption
<1>3. \A x \in L : FirstIn(next[x], prio[x], listed)
  BY DEF ListOK
<1>4. Behind(n) \subseteq L
  <2>1. n # NoBeh => n \in L
    BY DEF FirstIn
  <2>2. \A x \in L : next[x] # NoBeh => next[x] \in L
    <3> SUFFICES ASSUME NEW x \in L, next[x] # NoBeh
                 PROVE  next[x] \in L
      OBVIOUS
    <3>1. next[x] \in listed /\ prio[next[x]] < prio[x]
      BY <1>3 DEF FirstIn
    <3>2. prio[next[x]] \in Int /\ prio[x] \in Int /\ prio[x] < p
      BY <3>1, <1>1, <1>2
    <3> QED
      BY <3>1, <3>2
  <2> QED
    BY <1>1, <2>1, <2>2 DEF Behind
<1>5. ASSUME NEW S \in SUBSET Behaviours, n # NoBeh => n \in S,
             \A x \in S : next[x] # NoBeh => next[x] \in S
      PROVE  L \subseteq S
  <2> SUFFICES ASSUME L \ S # {}
               PROVE  FALSE
    OBVIOUS
  <2>1. PICK m \in L \ S : \A x \in L \ S : prio[x] <= prio[m]
    BY <1>1, HighestOf
  <2> DEFINE U == {x \in L : prio[x] > prio[m]}
  <2>2. CASE U = {}
    <3>1. n # NoBeh /\ n \in L /\ prio[m] <= prio[n]
      BY <2>1, <1>1, <1>2 DEF FirstIn
    <3>2. prio[n] = prio[m]
      <4>1. prio[n] \in Int /\ prio[m] \in Int /\ ~(prio[n] > prio[m])
        BY <2>1, <2>2, <3>1, <1>1, <1>2
      <4> QED
        BY <3>1, <4>1
    <3>3. n = m
      BY <3>1, <3>2, <1>1, PrioAssumption
    <3> QED
      BY <3>1, <3>3, <1>5
  <2>3. CASE U # {}
    <3>1. PICK x \in U : \A y \in U : prio[x] <= prio[y]
      BY <2>3, <1>1, LowestOf
    <3>a. x \in listed /\ prio[x] < p /\ prio[x] > prio[m] /\ prio[x] \in Int /\ prio[m] \in Int
      BY <3>1, <2>1, <1>1, <1>2
    <3>2. x \in S
      <4>1. ~(prio[x] <= prio[m])
        BY <3>a
      <4> QED
        BY <3>1, <4>1, <2>1
    <3>3. next[x] # NoBeh /\ next[x] \in listed /\ prio[next[x]] < prio[x] /\ prio[m] <= prio[next[x]]
      <4>1. FirstIn(next[x], prio[x], listed) /\ m \in listed /\ prio[m] < prio[x]
        BY <1>3, <3>1, <3>a, <2>1
      <4>2. ~(prio[m] >= prio[x])
        BY <3>a
      <4> QED
        BY <4>1, <4>2 DEF FirstIn
    <3>b. prio[next[x]] \in Int
      BY <3>3, <1>1, <1>2
    <3>4. next[x] \in L
      BY <3>3, <3>a, <3>b
    <3>5. prio[next[x]] = prio[m]
      <4>1. next[x] \in U => prio[x] <= prio[next[x]]
        BY <3>1
      <4>2. ~(prio[next[x]] > prio[m])
        BY <4>1, <3>3, <3>4, <3>a, <3>b
      <4> QED
        BY <4>2, <3>3, <3>a, <3>b
    <3>6. next[x] = m
      BY <3>4, <3>5, <1>1, PrioAssumption
    <3> QED
      BY <3>2, <3>3, <3>6, <1>5
  <2> QED
    BY <2>2, <2>3
<1> QED
  BY <1>1, <1>4, <1>5 DEF Behind

LEMMA InOrder ==
    ASSUME ListTypeOK, ListOK
    PROVE  ListIsByPriority
<1>1. \A b \in Behaviours : prio[b] \in Int /\ prio[b] < 256
  BY PrioAssumption
<1>2. listed \in SUBSET Behaviours /\ head \in Pointers /\ next \in [Behaviours -> Pointers]
  BY DEF ListTypeOK
<1>3. Behind(head) = listed
  <2>1. Behind(head) = {c \in listed : prio[c] < 256}
    BY <1>2, BehindAreLower DEF ListOK
  <2> QED
    BY <2>1, <1>1, <1>2
<1>4. ASSUME NEW b \in listed
      PROVE  Behind(next[b]) = {c \in listed : prio[c] < prio[b]}
  <2>1. next[b] \in Pointers /\ prio[b] \in Int /\ FirstIn(next[b], prio[b], listed)
    BY <1>1, <1>2 DEF ListOK
  <2> QED
    BY <2>1, BehindAreLower
<1> QED
  BY <1>3, <1>4 DEF ListIsByPriority
-----------------------------------------------------------------------------
(* A new behaviour b does not come between p and n, ... *)
LEMMA AddElsewhere ==
    ASSUME NEW l \in SUBSET Behaviours, NEW n \in Pointers, NEW p \in Int, FirstIn(n, p, l),
           NEW b \in Behaviours, prio[b] >= p \/ (n # NoBeh /\ prio[b] <= prio[n])
    PROVE  FirstIn(n, p, l \cup {b})
<1>1. \A c \in Behaviours : prio[c] \in Int
  BY PrioAssumption
<1>2. CASE n = NoBeh
  BY <1>1, <1>2 DEF FirstIn
<1>3. CASE n # NoBeh
  <2>1. n \in l /\ prio[n] < p /\ \A c \in l : prio[c] < p => prio[c] <= prio[n]
    BY <1>3 DEF FirstIn
  <2>2. prio[b] < p => prio[b] <= prio[n]
    BY <1>1
  <2> QED
    BY <1>3, <2>1, <2>2 DEF FirstIn
<1> QED
  BY <1>2, <1>3

(* ... or it comes just there. *)
LEMMA AddHere ==
    ASSUME NEW l \in SUBSET Behaviours, NEW n \in Pointers, NEW p \in Int, FirstIn(n, p, l),
           NEW b \in Behaviours, prio[b] < p, n = NoBeh \/ prio[n] < prio[b]
    PROVE  FirstIn(b, p, l \cup {b}) /\ FirstIn(n, prio[b], l \cup {b})
<1>1. \A c \in Behaviours : prio[c] \in Int
  BY PrioAssumption
<1>2. b # NoBeh /\ NoBeh \notin l
  BY NamesAssumption
<1>3. CASE n = NoBeh
  <2>1. \A c \in l : prio[c] >= p
    BY <1>3 DEF FirstIn
  <2>2. \A c \in l \cup {b} : prio[c] >= prio[b] /\ (prio[c] < p => prio[c] <= prio[b])
    <3> SUFFICES ASSUME NEW c \in l \cup {b}
                 PROVE  prio[c] >= prio[b] /\ (prio[c] < p => prio[c] <= prio[b])
      OBVIOUS
    <3>1. prio[c] \in Int /\ prio[b] \in Int /\ (c = b \/ prio[c] >= p)
      BY <1>1, <2>1
    <3> QED
      BY <3>1
  <2> QED
    BY <1>2, <1>3, <2>2 DEF FirstIn
<1>4. CASE n # NoBeh
  <2>1. n \in l /\ prio[n] < p /\ prio[n] < prio[b]
        /\ \A c \in l : prio[c] < p => prio[c] <= prio[n]
    BY <1>4 DEF FirstIn
  <2>2. ASSUME NEW c \in l \cup {b}
        PROVE  /\ prio[c] < p => prio[c] <= prio[b]
               /\ prio[c] < prio[b] => prio[c] <= prio[n]
    <3>1. prio[c] \in Int /\ prio[b] \in Int /\ prio[n] \in Int
      BY <1>1, <2>1
    <3>2. c = b \/ (prio[c] < p => prio[c] <= prio[n])
      BY <2>1
    <3> QED
      BY <2>1, <3>1, <3>2
  <2> QED
    BY <1>2, <1>4, <2>1, <2>2 DEF FirstIn
<1> QED
  BY <1>3, <1>4

(* The first one of a list that is not empty. *)
LEMMA HeadIsFirst ==
    ASSUME NEW l \in SUBSET Behaviours, NEW n \in Pointers, FirstIn(n, 256, l)
    PROVE  \A b \in l : n \in l /\ prio[b] <= prio[n]
<1> SUFFICES ASSUME NEW b \in l
             PROVE  n \in l /\ prio[b] <= prio[n]
  OBVIOUS
<1>1. prio[b] \in Int /\ prio[b] < 256
  BY PrioAssumption
<1> QED
  BY <1>1 DEF FirstIn

(* Behind b the list goes on with whoever is lower. *)
LEMMA NextIsLower ==
    ASSUME OrderInv, NEW b \in listed, NEW x \in listed, prio[x] <= prio[b], x # b
    PROVE  next[b] \in listed /\ prio[x] <= prio[next[b]] /\ prio[next[b]] < prio[b]
<1>1. b \in Behaviours /\ x \in Behaviours
  BY DEF OrderInv, ListTypeOK
<1>2. prio[b] \in Int /\ prio[x] \in Int /\ prio[x] # prio[b]
  BY <1>1, PrioAssumption
<1>3. prio[x] < prio[b] /\ ~(prio[x] >= prio[b])
  BY <1>2
<1>4. FirstIn(next[b], prio[b], listed)
  BY DEF OrderInv, ListOK
<1> QED
  BY <1>3, <1>4 DEF FirstIn

LEMMA InsertFirst ==
    ASSUME OrderInv, NEW b \in Behaviours, BeginInsert(b)
    PROVE  OrderInv'
<1> USE DEF OrderInv, ListTypeOK, Pointers
<1>1. \A c \in Behaviours : prio[c] \in Int /\ prio[c] < 256
  BY PrioAssumption
<1>2. NoBeh \notin Behaviours /\ NoBeh \notin listed
  BY NamesAssumption
<1>3. CASE head = NoBeh \/ prio[head] < prio[b]
  <2>1. /\ head' = b /\ next' = [next EXCEPT ![b] = head] /\ listed' = listed \cup {b}
        /\ UNCHANGED <<beh, job, loop>> /\ loop = NoLoop /\ b \notin listed
    BY <1>3 DEF BeginInsert
  <2>2. ListTypeOK'
    BY <2>1
  <2>3. FirstIn(b, 256, listed \cup {b}) /\ FirstIn(head, prio[b], listed \cup {b})
    BY <1>1, <1>3, AddHere DEF ListOK
  <2>4. ASSUME NEW x \in listed
        PROVE  FirstIn(next[x], prio[x], listed \cup {b})
    <3>1. head \in listed /\ prio[x] <= prio[head]
      BY HeadIsFirst DEF ListOK
    <3>2. prio[b] >= prio[x]
      <4>1. prio[b] \in Int /\ prio[x] \in Int /\ prio[head] \in Int /\ prio[head] < prio[b]
        BY <1>1, <1>2, <1>3, <3>1
      <4> QED
        BY <3>1, <4>1
    <3>3. next[x] \in Pointers /\ prio[x] \in Int /\ FirstIn(next[x], prio[x], listed)
      BY <1>1 DEF ListOK
    <3> QED
      BY <3>2, <3>3, AddElsewhere
  <2>5. \A x \in listed \cup {b} : next'[x] = IF x = b THEN head ELSE next[x]
    BY <2>1
  <2>6. ListOK'
    BY <2>1, <2>3, <2>4, <2>5 DEF ListOK, FirstIn
  <2> QED
    BY <2>1, <2>2, <2>6 DEF InsertOK, NoLoop
<1>4. CASE ~(head = NoBeh \/ prio[head] < prio[b])
  <2>1. /\ loop' = [at |-> "insert", new |-> b, ptr |-> head] /\ b \notin listed
        /\ UNCHANGED <<beh, job, head, next, listed>>
    BY <1>4 DEF BeginInsert, listVars
  <2>2. head \in listed /\ head # b
    BY <1>4, <2>1 DEF ListOK, FirstIn
  <2>3. prio[head] > prio[b]
    <3>1. prio[head] \in Int /\ prio[b] \in Int /\ prio[head] # prio[b]
      BY <2>2, PrioAssumption
    <3> QED
      BY <1>4, <3>1
  <2>4. ListTypeOK'
    BY <2>1, <2>2 DEF InsertLoops
  <2>5. ListOK'
    BY <2>1 DEF ListOK, FirstIn
  <2> QED
    BY <2>1, <2>2, <2>3, <2>4, <2>5 DEF InsertOK
<1> QED
  BY <1>3, <1>4

LEMMA InsertSearches ==
    ASSUME OrderInv, PassEntry
    PROVE  OrderInv'
<1> USE DEF OrderInv, ListTypeOK, Pointers
<1> DEFINE b == loop.new
           q == next[loop.ptr]
<1>1. /\ loop \in InsertLoops /\ loop.at = "insert" /\ b \in Behaviours
      /\ b \notin listed /\ loop.ptr \in listed
  BY DEF PassEntry, InsertOK, InsertLoops
<1>2. /\ q # NoBeh /\ prio[q] >= prio[b] /\ loop' = [loop EXCEPT !.ptr = q]
      /\ UNCHANGED <<beh, job, head, next, listed>>
  BY DEF PassEntry, Passes, listVars
<1>3. q \in listed /\ prio[q] # prio[b]
  <2>1. q \in listed
    BY <1>1, <1>2 DEF ListOK, FirstIn
  <2> QED
    BY <1>1, <2>1, PrioAssumption
<1>4. prio[q] > prio[b]
  <2>1. prio[q] \in Int /\ prio[b] \in Int
    BY <1>1, <1>3, PrioAssumption
  <2> QED
    BY <1>2, <1>3, <2>1
<1> HIDE DEF q
<1>5. loop' = [at |-> "insert", new |-> b, ptr |-> q]
  BY <1>1, <1>2 DEF InsertLoops
<1>6. ListTypeOK'
  BY <1>1, <1>2, <1>3, <1>5 DEF InsertLoops
<1>7. ListOK'
  BY <1>2 DEF ListOK, FirstIn
<1> QED
  BY <1>1, <1>2, <1>3, <1>4, <1>5, <1>6, <1>7 DEF InsertOK

LEMMA InsertLinks ==
    ASSUME OrderInv, LinkEntry
    PROVE  OrderInv'
<1> USE DEF OrderInv, ListTypeOK, Pointers
<1> DEFINE b == loop.new
           p == loop.ptr
           q == next[loop.ptr]
<1>1. /\ loop.at = "insert" /\ b \in Behaviours /\ b \notin listed
      /\ p \in listed /\ p \in Behaviours /\ prio[p] > prio[b]
  BY DEF LinkEntry, InsertOK, InsertLoops
<1>2. /\ next' = [next EXCEPT ![p] = b, ![b] = q] /\ listed' = listed \cup {b} /\ loop' = NoLoop
      /\ UNCHANGED <<beh, job, head>> /\ ~Passes(p, b)
  BY DEF LinkEntry
<1>3. q \in Pointers /\ FirstIn(q, prio[p], listed)
  BY <1>1 DEF ListOK
<1>4. \A c \in Behaviours : prio[c] \in Int /\ prio[c] < 256
  BY PrioAssumption
<1>5. q = NoBeh \/ prio[q] < prio[b]
  <2>1. q = NoBeh \/ ~(prio[q] >= prio[b])
    BY <1>2 DEF Passes
  <2>2. q # NoBeh => prio[q] \in Int /\ prio[b] \in Int
    BY <1>1, <1>3, <1>4
  <2> QED
    BY <2>1, <2>2
<1> HIDE DEF b, p, q
<1>6. ListTypeOK'
  BY <1>1, <1>2, <1>3 DEF NoLoop
<1>7. FirstIn(b, prio[p], listed \cup {b}) /\ FirstIn(q, prio[b], listed \cup {b})
  BY <1>1, <1>3, <1>4, <1>5, AddHere
<1>8. ASSUME NEW x \in listed, x # p
      PROVE  FirstIn(next[x], prio[x], listed \cup {b})
  <2>1. next[x] \in Pointers /\ prio[x] \in Int /\ FirstIn(next[x], prio[x], listed)
    BY <1>4 DEF ListOK
  <2>2. prio[b] \in Int /\ prio[p] \in Int
    BY <1>1, <1>4
  <2>3. CASE prio[x] <= prio[p]
    <3>1. q \in listed /\ prio[x] <= prio[q]
      BY <1>1, <1>8, <2>3, NextIsLower DEF q, p
    <3>2. prio[q] \in Int /\ q # NoBeh
      BY <1>4, <3>1, NamesAssumption
    <3>3. prio[b] >= prio[x]
      BY <1>5, <2>1, <2>2, <3>1, <3>2
    <3> QED
      BY <1>1, <2>1, <3>3, AddElsewhere
  <2>4. CASE prio[p] <= prio[x]
    <3>1. next[x] \in listed /\ prio[p] <= prio[next[x]]
      BY <1>1, <1>8, <2>4, NextIsLower
    <3>2. prio[next[x]] \in Int /\ next[x] # NoBeh
      BY <1>4, <3>1, NamesAssumption
    <3>3. prio[b] <= prio[next[x]]
      BY <1>1, <2>2, <3>1, <3>2
    <3> QED
      BY <1>1, <2>1, <3>2, <3>3, AddElsewhere
  <2> QED
    BY <2>1, <2>2, <2>3, <2>4
<1>9. FirstIn(head, 256, listed \cup {b})
  <2>1. head \in listed /\ prio[p] <= prio[head]
    BY <1>1, HeadIsFirst DEF ListOK
  <2>2. prio[head] \in Int /\ prio[p] \in Int /\ prio[b] \in Int /\ head # NoBeh
    BY <1>1, <1>4, <2>1, NamesAssumption
  <2>3. prio[b] <= prio[head]
    BY <1>1, <2>1, <2>2
  <2> QED
    BY <1>1, <2>2, <2>3, AddElsewhere DEF ListOK
<1>10. \A x \in listed \cup {b} : next'[x] = IF x = b THEN q ELSE IF x = p THEN b ELSE next[x]
  BY <1>1, <1>2
<1>11. ListOK'
  <2>1. \A x \in listed \cup {b} : FirstIn(next'[x], prio[x], listed \cup {b})
    BY <1>1, <1>7, <1>8, <1>10
  <2> QED
    BY <1>2, <1>9, <2>1 DEF ListOK
<1> QED
  BY <1>2, <1>6, <1>11 DEF InsertOK, NoLoop

(* The walks and stops leave the list alone. *)
LEMMA ListIsLeft ==
    ASSUME OrderInv, UNCHANGED listVars, "at" \in DOMAIN loop', loop'.at # "insert"
    PROVE  OrderInv'
<1>1. ListTypeOK' /\ InsertOK'
  BY DEF OrderInv, ListTypeOK, InsertOK, listVars
<1>2. ListOK'
  BY DEF OrderInv, ListOK, listVars
<1> QED
  BY <1>1, <1>2 DEF OrderInv

LEMMA OrderStarts == ListInit => OrderInv
<1> SUFFICES ASSUME ListInit
             PROVE  OrderInv
  OBVIOUS
<1>1. ListTypeOK /\ InsertOK
  BY DEF ListInit, ListTypeOK, InsertOK, NoLoop, Pointers
<1>2. ListOK
  BY DEF ListInit, ListOK, FirstIn
<1> QED
  BY <1>1, <1>2 DEF OrderInv

LEMMA OrderKept == OrderInv /\ [ListNext]_listedVars => OrderInv'
<1> SUFFICES ASSUME OrderInv, [ListNext]_listedVars
             PROVE  OrderInv'
  OBVIOUS
<1> DEFINE Left == UNCHANGED listVars /\ "at" \in DOMAIN loop' /\ loop'.at # "insert"
<1>0. "at" \in DOMAIN loop
  BY DEF OrderInv, ListTypeOK
<1>1. ASSUME NEW b \in Behaviours, BeginInsert(b)
      PROVE  OrderInv'
  BY <1>1, InsertFirst
<1>2. CASE PassEntry
  BY <1>2, InsertSearches
<1>3. CASE LinkEntry
  BY <1>3, InsertLinks
<1>4. CASE BeginListWalk
  <2>1. Left
    BY <1>4 DEF BeginListWalk, WalkFrom
  <2> QED
    BY <2>1, ListIsLeft
<1>5. ASSUME NEW wish \in BOOLEAN, EndListWork(wish)
      PROVE  OrderInv'
  <2>1. Left
    BY <1>0, <1>5 DEF EndListWork, WalkFrom, Ready, NoLoop
  <2> QED
    BY <2>1, ListIsLeft
<1>6. CASE WalkOn
  <2>1. Left
    BY <1>6 DEF WalkOn, WalkFrom, NoLoop
  <2> QED
    BY <2>1, ListIsLeft
<1>7. CASE OnRecords
  <2>1. Left
    BY <1>0, <1>7 DEF OnRecords, Ready, NoLoop
  <2> QED
    BY <2>1, ListIsLeft
<1>8. ASSUME NEW c \in Behaviours, BeginStop(c)
      PROVE  OrderInv'
  <2>1. Left
    BY <1>8 DEF BeginStop
  <2> QED
    BY <2>1, ListIsLeft
<1>9. CASE VisitEntry
  <2>1. Left
    BY <1>0, <1>9 DEF VisitEntry
  <2> QED
    BY <2>1, ListIsLeft
<1>10. CASE isInCallHierarchy
  <2>1. Left
    BY <1>0, <1>10 DEF isInCallHierarchy
  <2> QED
    BY <2>1, ListIsLeft
<1>11. CASE Climb
  <2>1. Left
    BY <1>0, <1>11 DEF Climb, listVars
  <2> QED
    BY <2>1, ListIsLeft
<1>12. CASE NextEntry
  <2>1. Left
    BY <1>0, <1>12 DEF NextEntry
  <2> QED
    BY <2>1, ListIsLeft
<1>13. CASE EndStop
  <2>1. Left
    BY <1>13 DEF EndStop, NoLoop
  <2> QED
    BY <2>1, ListIsLeft
<1>14. CASE UNCHANGED listedVars
  <2>1. UNCHANGED <<head, next, listed, loop>>
    BY <1>14 DEF listedVars
  <2>2. ListTypeOK' /\ InsertOK'
    BY <2>1 DEF OrderInv, ListTypeOK, InsertOK
  <2>3. ListOK'
    BY <2>1 DEF OrderInv, ListOK
  <2> QED
    BY <2>2, <2>3 DEF OrderInv
<1> QED
  BY <1>1, <1>2, <1>3, <1>4, <1>5, <1>6, <1>7, <1>8, <1>9, <1>10, <1>11, <1>12, <1>13, <1>14
  DEF ListNext

(* However bot_behave_init() comes to insert the behaviours, between two    *)
(* insertions the list holds them all in the order of their priorities.     *)
THEOREM TheListIsByPriority == ListSpec => []ListIsByPriority
<1>1. OrderInv => ListIsByPriority
  BY InOrder DEF OrderInv
<1> QED
  BY <1>1, OrderStarts, OrderKept, PTL DEF ListSpec

-----------------------------------------------------------------------------
(* The functions on single records keep the types, and enter callers only   *)
(* along the calls.                                                         *)
CallTables == {t \in Tables : CallersCall(t)}

LEMMA OneRecord ==
    ASSUME NEW t \in CallTables, NEW b \in Behaviours, NEW r \in Record,
           r.caller # NoBeh => <<r.caller, b>> \in FgCalls \cup BgCalls
    PROVE  [t EXCEPT ![b] = r] \in CallTables
BY DEF CallTables, Tables, CallersCall

(* A record whose fields change stays a record. *)
LEMMA RecordFields ==
    ASSUME NEW r \in Record
    PROVE  /\ r.caller \in Pointers /\ r.subResult \in SubResults
           /\ \A a \in BOOLEAN : [r EXCEPT !.active = a] \in Record
                               /\ [r EXCEPT !.active = a].caller = r.caller
           /\ \A s \in SubResults : [r EXCEPT !.subResult = s] \in Record
                                  /\ [r EXCEPT !.subResult = s].caller = r.caller
           /\ [r EXCEPT !.caller = NoBeh] \in Record
           /\ [r EXCEPT !.caller = NoBeh].caller = NoBeh
BY DEF Record, Pointers

LEMMA WakeKeeps ==
    ASSUME NEW t \in CallTables, NEW p \in Pointers, NEW s \in SubResults
    PROVE  Wake(t, p, s) \in CallTables
<1>1. CASE p = NoBeh
  BY <1>1 DEF Wake
<1>2. CASE p # NoBeh
  <2> DEFINE r == [active |-> TRUE, caller |-> t[p].caller, subResult |-> s]
  <2>1. p \in Behaviours /\ t[p] \in Record
    BY <1>2 DEF Pointers, CallTables, Tables
  <2>2. r \in Record /\ r.caller = t[p].caller
    BY <2>1 DEF Record
  <2>3. r.caller # NoBeh => <<r.caller, p>> \in FgCalls \cup BgCalls
    BY <2>1, <2>2 DEF CallTables, CallersCall
  <2>4. Wake(t, p, s) = [t EXCEPT ![p] = r]
    BY <1>2 DEF Wake
  <2> QED
    BY <2>1, <2>2, <2>3, <2>4, OneRecord
<1> QED
  BY <1>1, <1>2

LEMMA ExitKeeps ==
    ASSUME NEW t \in CallTables, NEW b \in Behaviours, NEW s \in SubResults
    PROVE  exit_behaviour(t, b, s) \in CallTables
<1> DEFINE r == [t[b] EXCEPT !.active = FALSE]
           off == [t EXCEPT ![b] = r]
           woken == Wake(off, t[b].caller, s)
           q == [woken[b] EXCEPT !.caller = NoBeh]
<1>1. t[b] \in Record
  BY DEF CallTables, Tables
<1>2. r \in Record /\ r.caller = t[b].caller /\ t[b].caller \in Pointers
  BY <1>1, RecordFields
<1>3. off \in CallTables
  <2>1. r.caller # NoBeh => <<r.caller, b>> \in FgCalls \cup BgCalls
    BY <1>2 DEF CallTables, CallersCall
  <2> QED
    BY <1>2, <2>1, OneRecord
<1> HIDE DEF off
<1>4. woken \in CallTables
  BY <1>2, <1>3, WakeKeeps
<1> HIDE DEF woken
<1>5. q \in Record /\ q.caller = NoBeh
  <2>1. woken[b] \in Record
    BY <1>4 DEF CallTables, Tables
  <2> QED
    BY <2>1, RecordFields
<1>6. [woken EXCEPT ![b] = q] \in CallTables
  BY <1>4, <1>5, OneRecord
<1>7. exit_behaviour(t, b, s) = [woken EXCEPT ![b] = q]
  BY DEF exit_behaviour, off, woken
<1> QED
  BY <1>6, <1>7

LEMMA DeactivateKeeps ==
    ASSUME NEW t \in CallTables, NEW b \in Behaviours
    PROVE  deactivate_behaviour(t, b) \in CallTables
<1> DEFINE u == deactivate_behaviour(t, b)
<1>1. t \in Tables /\ CallersCall(t)
  BY DEF CallTables
<1>2. u \in Tables
  BY <1>1 DEF Tables, Record, deactivate_behaviour
<1>3. \A x \in Behaviours : u[x].caller = IF x = b THEN NoBeh ELSE t[x].caller
  BY <1>1 DEF Tables, Record, deactivate_behaviour
<1> HIDE DEF u
<1>4. CallersCall(u)
  BY <1>1, <1>3 DEF CallersCall
<1> QED
  BY <1>2, <1>4 DEF CallTables, u

LEMMA AllKeep ==
    ASSUME NEW t \in CallTables
    PROVE  deactivateAllBehaviours(t) \in CallTables
<1>1. Off \in Record /\ Off.caller = NoBeh
  BY DEF Off, Record, SubResults, CANCEL
<1>2. deactivateAllBehaviours(t) = [b \in Behaviours |-> IF Normal(b) THEN Off ELSE t[b]]
  BY DEF deactivateAllBehaviours, Off
<1> HIDE DEF Off
<1> QED
  BY <1>1, <1>2 DEF CallTables, Tables, CallersCall

LEMMA SwitchKeeps ==
    ASSUME NEW t \in CallTables, NEW from \in Pointers, NEW to \in Behaviours \cup {Unlisted},
           NEW mode \in Modes, from # NoBeh => <<from, to>> \in FgCalls \cup BgCalls
    PROVE  switch_to_behaviour(t, from, to, mode) \in CallTables
<1> DEFINE u == switch_to_behaviour(t, from, to, mode)
<1>0. FAIL \in SubResults /\ RUNNING \in SubResults /\ BACKGR \in SubResults
  BY DEF SubResults
<1>a. ASSUME NEW v \in CallTables, NEW b \in Behaviours
      PROVE  /\ v[b] \in Record /\ v[b].caller \in Pointers
             /\ v[b].caller # NoBeh => <<v[b].caller, b>> \in FgCalls \cup BgCalls
  <2>1. v[b] \in Record
    BY DEF CallTables, Tables
  <2> QED
    BY <2>1, RecordFields DEF CallTables, CallersCall
<1>b. ASSUME NEW v \in CallTables, NEW s \in SubResults, from # NoBeh
      PROVE  [v EXCEPT ![from].subResult = s] \in CallTables
  <2> DEFINE r == [v[from] EXCEPT !.subResult = s]
  <2>1. from \in Behaviours
    BY <1>b DEF Pointers
  <2>2. r \in Record /\ r.caller = v[from].caller
    <3>1. v[from] \in Record
      BY <1>a, <2>1
    <3> QED
      BY <3>1, RecordFields
  <2> HIDE DEF r
  <2>3. [v EXCEPT ![from] = r] \in CallTables
    BY <1>a, <2>1, <2>2, OneRecord
  <2> QED
    BY <2>3 DEF r
<1>1. CASE Refused(t, to, mode)
  BY <1>0, <1>1, <1>b DEF switch_to_behaviour
<1>2. CASE ~Refused(t, to, mode)
  <2> DEFINE taken == Wake(t, t[to].caller, FAIL)
             susp == SuspendCaller(taken, from, mode)
             r == [active |-> TRUE, caller |-> from, subResult |-> susp[to].subResult]
  <2>1. to \in Behaviours
    BY <1>2 DEF Refused
  <2>2. taken \in CallTables
    BY <1>0, <1>a, <2>1, WakeKeeps
  <2> HIDE DEF taken
  <2>3. susp \in CallTables
    <3>1. CASE from = NoBeh
      BY <2>2, <3>1 DEF SuspendCaller
    <3>2. CASE from # NoBeh /\ mode.background
      BY <1>0, <1>b, <2>2, <3>2 DEF SuspendCaller
    <3>3. CASE from # NoBeh /\ ~mode.background
      <4> DEFINE q == [active |-> FALSE, caller |-> taken[from].caller, subResult |-> RUNNING]
      <4>1. from \in Behaviours
        BY <3>3 DEF Pointers
      <4>2. q \in Record /\ q.caller = taken[from].caller
        <5>1. taken[from] \in Record
          BY <1>a, <2>2, <4>1
        <5> QED
          BY <1>0, <5>1 DEF Record
      <4>3. susp = [taken EXCEPT ![from] = q]
        BY <3>3 DEF SuspendCaller
      <4> HIDE DEF q, susp
      <4> QED
        BY <1>a, <2>2, <4>1, <4>2, <4>3, OneRecord
    <3> QED
      BY <3>1, <3>2, <3>3
  <2> HIDE DEF susp
  <2>4. r \in Record /\ r.caller = from
    <3>1. susp[to].subResult \in SubResults
      BY <1>a, <2>1, <2>3, RecordFields
    <3> QED
      BY <3>1 DEF Record, Pointers
  <2>5. u = [susp EXCEPT ![to] = r]
    BY <1>2 DEF switch_to_behaviour, susp, taken
  <2> HIDE DEF r, u
  <2>6. [susp EXCEPT ![to] = r] \in CallTables
    BY <2>1, <2>3, <2>4, OneRecord
  <2> QED
    BY <2>5, <2>6 DEF u
<1> QED
  BY <1>1, <1>2

-----------------------------------------------------------------------------
(* The behaviours below c, where callers are behaviours that call.          *)
LEMMA NoSelfCaller ==
    ASSUME NEW t, CallersCall(t), NEW b \in Behaviours
    PROVE  t[b].caller # b
<1>1. <<b, b>> \notin FgCalls \cup BgCalls
  BY NoRingAssumption, {b} \in SUBSET Behaviours, {b} # {}
<1> QED
  BY <1>1, NamesAssumption DEF CallersCall

LEMMA CalledIsClosure ==
    ASSUME NEW t, NEW c \in Behaviours
    PROVE  \A x \in Behaviours :
              x \in Called(t, c) <=> x # c /\ t[x].caller \in Called(t, c) \cup {c}
<1> DEFINE D == Called(t, c)
           Closed(S) == \A x \in Behaviours \ {c} : t[x].caller \in S \cup {c} => x \in S
<1>1. D \subseteq Behaviours /\ \A S \in SUBSET Behaviours : Closed(S) => D \subseteq S
  BY DEF Called
<1>2. Closed(D)
  <2> SUFFICES ASSUME NEW x \in Behaviours \ {c}, t[x].caller \in D \cup {c},
                      NEW S \in SUBSET Behaviours, Closed(S)
               PROVE  x \in S
    BY DEF Called
  <2> QED
    BY <1>1
<1> HIDE DEF D
<1> DEFINE T == {x \in D : x # c /\ t[x].caller \in D \cup {c}}
<1>3. T \in SUBSET Behaviours /\ Closed(T)
  BY <1>1, <1>2
<1>4. D \subseteq T
  BY <1>1, <1>3
<1> QED
  BY <1>2, <1>4 DEF D

LEMMA CallerIsNotCalled ==
    ASSUME NEW t, CallersCall(t), NEW c \in Behaviours
    PROVE  t[c].caller \notin Called(t, c)
<1> DEFINE S == Called(t, c) \cup {c}
<1>1. S \in SUBSET Behaviours /\ S # {}
  BY DEF Called
<1>2. SUFFICES ASSUME t[c].caller \in Called(t, c)
               PROVE  FALSE
  OBVIOUS
<1>3. \A x \in S : t[x].caller \in S
  BY <1>1, <1>2, CalledIsClosure
<1>4. \A x \in S : <<t[x].caller, x>> \in FgCalls \cup BgCalls
  BY <1>1, <1>3, NamesAssumption DEF CallersCall
<1> HIDE DEF S
<1> QED
  BY <1>1, <1>3, <1>4, NoRingAssumption

(* SwitchedOff(t, c) is the least group that holds with the callees of a    *)
(* behaviour below c that one too.                                          *)
Follows(t, x, S) == Callees(t, x) \subseteq S /\ (Callees(t, x) = {} => t[x].active)

LEMMA SwitchedOffIsLeast ==
    ASSUME NEW t, NEW c
    PROVE  /\ SwitchedOff(t, c) \subseteq Called(t, c)
           /\ \A x \in Called(t, c) :
                Follows(t, x, SwitchedOff(t, c)) => x \in SwitchedOff(t, c)
           /\ \A S \in SUBSET Called(t, c) :
                (\A x \in Called(t, c) : Follows(t, x, S) => x \in S) => SwitchedOff(t, c) \subseteq S
<1> DEFINE D == Called(t, c)
           R == SwitchedOff(t, c)
<1>1. R \subseteq D
  BY DEF SwitchedOff
<1>2. \A S \in SUBSET D : (\A x \in D : Follows(t, x, S) => x \in S) => R \subseteq S
  BY DEF SwitchedOff, Follows
<1>3. ASSUME NEW x \in D, Follows(t, x, R)
      PROVE  x \in R
  <2> SUFFICES ASSUME NEW S \in SUBSET D, \A y \in D : Follows(t, y, S) => y \in S
               PROVE  x \in S
    BY DEF SwitchedOff, Follows
  <2>1. R \subseteq S
    BY <1>2
  <2> HIDE DEF R, D
  <2>2. Follows(t, x, S)
    BY <1>3, <2>1 DEF Follows
  <2> QED
    BY <2>2
<1> QED
  BY <1>1, <1>2, <1>3

-----------------------------------------------------------------------------
(* A stop is an interplay of its loop l with the records u.                 *)
StopTypes(u, l) == u \in Tables /\ l \in StopLoops

LEMMA BelowTheCaller ==
    ASSUME NEW u, NEW l, StopTypes(u, l), CallersCall(l.before), OnlyGone(u, l)
    PROVE  \A x \in Below(l) :
              /\ x \in Behaviours /\ x # l.caller /\ l.before[x].caller # NoBeh
              /\ l.before[x].caller \in Below(l) \cup {l.caller}
              /\ x \notin Gone(u, l) => u[x] = l.before[x]
<1>1. l.caller \in Behaviours
  BY DEF StopTypes, StopLoops
<1>2. \A x \in Below(l) : x \in Behaviours
  BY DEF Below, Called
<1>3. \A x \in Below(l) : x # l.caller /\ l.before[x].caller \in Below(l) \cup {l.caller}
  BY <1>1, <1>2, CalledIsClosure DEF Below
<1> QED
  BY <1>1, <1>2, <1>3, NamesAssumption DEF OnlyGone

(* As long as the records stay, only the parts about the loop can change. *)
LEMMA SameRecords ==
    ASSUME NEW u, NEW l, StopOK(u, l), NEW m, m.before = l.before, m.caller = l.caller
    PROVE  /\ CallersCall(m.before) /\ OnlyGone(u, m) /\ RightlyGone(u, m)
           /\ Below(m) = Below(l) /\ Gone(u, m) = Gone(u, l)
BY DEF StopOK, OnlyGone, RightlyGone, Gone, Below

LEMMA StopBegins ==
    ASSUME OrderInv, listed = Behaviours, NEW t \in CallTables, NEW c \in Behaviours,
           NEW l, l = [at |-> "visit", caller |-> c, ptr |-> head,
                       up |-> NoBeh, level |-> 0, before |-> t]
    PROVE  StopTypes(t, l) /\ StopOK(t, l)
<1>1. StopTypes(t, l) /\ CallersCall(t)
  BY DEF StopTypes, StopLoops, CallTables, OrderInv, ListTypeOK, Pointers
<1>2. l.before = t /\ l.caller = c /\ l.at = "visit" /\ l.ptr = head
  OBVIOUS
<1>3. Below(l) = Called(t, c) /\ \A x \in Below(l) : x \in Behaviours /\ t[x].caller # NoBeh
  <2>1. \A x \in Called(t, c) : x \in Behaviours
    BY DEF Called
  <2>2. \A x \in Called(t, c) : t[x].caller \in Called(t, c) \cup {c}
    BY <2>1, CalledIsClosure
  <2> QED
    BY <1>2, <2>1, <2>2, NamesAssumption DEF Below
<1>4. Gone(t, l) = {}
  BY <1>3 DEF Gone
<1>5. OnlyGone(t, l) /\ RightlyGone(t, l)
  BY <1>2, <1>4 DEF OnlyGone, RightlyGone
<1>6. RightlyLeft(t, l)
  <2> SUFFICES ASSUME NEW x \in Below(l)
               PROVE  Coming(x, l)
    BY <1>2 DEF RightlyLeft, Callees
  <2>1. FirstIn(head, 256, listed) /\ head \in Pointers /\ x \in listed
    BY <1>3 DEF OrderInv, ListOK, ListTypeOK
  <2>2. head \in listed /\ prio[x] <= prio[head]
    BY <2>1, HeadIsFirst
  <2> QED
    BY <1>2, <2>2, NamesAssumption DEF Coming
<1>7. HierarchyOK(t, l) /\ ClimbOK(t, l)
  BY <1>2 DEF HierarchyOK, ClimbOK, Climbing
<1> QED
  BY <1>1, <1>2, <1>5, <1>6, <1>7 DEF StopOK

(* Whoever is to come is still to come at the next entry, unless the loop   *)
(* was there.                                                               *)
LEMMA ComesNext ==
    ASSUME OrderInv, listed = Behaviours, NEW p \in Behaviours, NEW x \in Behaviours,
           prio[x] <= prio[p], x # p
    PROVE  next[p] # NoBeh /\ prio[x] <= prio[next[p]]
BY NextIsLower, NamesAssumption

LEMMA StopVisits ==
    ASSUME OrderInv, listed = Behaviours, NEW u, NEW l, StopTypes(u, l), StopOK(u, l),
           l.at = "visit", l.ptr # NoBeh,
           NEW m, m = IF u[l.ptr].active
                      THEN [l EXCEPT !.at = "hierarchy", !.up = l.ptr, !.level = 0]
                      ELSE [l EXCEPT !.ptr = next[@]]
    PROVE  StopTypes(u, m) /\ StopOK(u, m)
<1>0. /\ l.ptr \in Behaviours /\ next[l.ptr] \in Pointers /\ l \in StopLoops
  BY DEF StopTypes, StopLoops, Pointers, OrderInv, ListTypeOK
<1>1. /\ m.before = l.before /\ m.caller = l.caller
      /\ u[l.ptr].active => m.at = "hierarchy" /\ m.ptr = l.ptr /\ m.up = l.ptr /\ m.level = 0
      /\ ~u[l.ptr].active => m.at = "visit" /\ m.ptr = next[l.ptr]
  BY <1>0 DEF StopLoops
<1>2. StopTypes(u, m)
  BY <1>0 DEF StopTypes, StopLoops, Pointers
<1>3. /\ CallersCall(m.before) /\ OnlyGone(u, m) /\ RightlyGone(u, m)
      /\ Below(m) = Below(l) /\ Gone(u, m) = Gone(u, l)
  <2>1. m.before = l.before /\ m.caller = l.caller
    BY <1>1
  <2> QED
    BY <2>1, SameRecords, Zenon
<1>4. RightlyLeft(u, m)
  <2> SUFFICES ASSUME NEW x \in Below(l) \ Gone(u, l), Callees(u, x) = {}
               PROVE  Callees(l.before, x) = {} /\ (l.before[x].active => Coming(x, m))
    BY <1>1, <1>3 DEF RightlyLeft
  <2>1. Callees(l.before, x) = {} /\ (l.before[x].active => Coming(x, l))
    BY DEF StopOK, RightlyLeft, Climbing
  <2>2. x \in Behaviours /\ u[x] = l.before[x]
    BY BelowTheCaller DEF StopOK
  <2>3. ASSUME l.before[x].active
        PROVE  Coming(x, m)
    <3>1. prio[x] <= prio[l.ptr]
      BY <2>1, <2>3 DEF Coming
    <3>2. CASE u[l.ptr].active
      BY <1>1, <3>1, <3>2 DEF Coming
    <3>3. CASE ~u[l.ptr].active
      <4>1. x # l.ptr
        BY <2>2, <2>3, <3>3
      <4>2. next[l.ptr] # NoBeh /\ prio[x] <= prio[next[l.ptr]]
        BY <1>0, <2>2, <3>1, <4>1, ComesNext
      <4> QED
        BY <1>1, <3>3, <4>2 DEF Coming
    <3> QED
      BY <3>2, <3>3
  <2> QED
    BY <2>1, <2>3
<1>5. HierarchyOK(u, m)
  <2> SUFFICES ASSUME u[l.ptr].active
               PROVE  /\ l.ptr \notin Gone(u, l)
                      /\ \E w \in Ways(l.before, l.ptr, 0, l.ptr) :
                            \A i \in 0 .. 0 : w[i] \in Below(l) <=> l.ptr \in Below(l)
    BY <1>0, <1>1, <1>3 DEF HierarchyOK
  <2>1. l.ptr \notin Gone(u, l)
    BY <1>0 DEF StopOK, OnlyGone, Off
  <2> DEFINE w == [i \in 0 .. 0 |-> l.ptr]
  <2>2. w \in Ways(l.before, l.ptr, 0, l.ptr)
    BY <1>0 DEF Ways
  <2> QED
    BY <2>1, <2>2
<1>6. ClimbOK(u, m)
  BY <1>1 DEF ClimbOK, Climbing
<1> QED
  BY <1>2, <1>3, <1>4, <1>5, <1>6 DEF StopOK

LEMMA StopNextEntry ==
    ASSUME OrderInv, listed = Behaviours, NEW u, NEW l, StopTypes(u, l), StopOK(u, l),
           l.at = "climb", l.level = 0,
           NEW m, m = [l EXCEPT !.at = "visit", !.ptr = next[@]]
    PROVE  StopTypes(u, m) /\ StopOK(u, m)
<1>0. /\ l.ptr \in Behaviours /\ next[l.ptr] \in Pointers /\ l \in StopLoops
  BY DEF StopTypes, StopOK, ClimbOK, OrderInv, ListTypeOK
<1>1. m.before = l.before /\ m.caller = l.caller /\ m.at = "visit" /\ m.ptr = next[l.ptr]
  BY <1>0 DEF StopLoops
<1>2. StopTypes(u, m)
  BY <1>0 DEF StopTypes, StopLoops, Pointers
<1>3. /\ CallersCall(m.before) /\ OnlyGone(u, m) /\ RightlyGone(u, m)
      /\ Below(m) = Below(l) /\ Gone(u, m) = Gone(u, l)
  <2>1. m.before = l.before /\ m.caller = l.caller
    BY <1>1
  <2> QED
    BY <2>1, SameRecords, Zenon
<1>4. RightlyLeft(u, m)
  <2> SUFFICES ASSUME NEW x \in Below(l) \ Gone(u, l), Callees(u, x) = {}
               PROVE  Callees(l.before, x) = {} /\ (l.before[x].active => Coming(x, m))
    BY <1>1, <1>3 DEF RightlyLeft
  <2>1. Callees(l.before, x) = {} /\ (l.before[x].active => Coming(x, l))
    BY DEF StopOK, RightlyLeft, Climbing
  <2>2. x \in Behaviours
    BY BelowTheCaller DEF StopOK
  <2>3. ASSUME l.before[x].active
        PROVE  Coming(x, m)
    <3>1. prio[x] <= prio[l.ptr] /\ x # l.ptr
      BY <2>1, <2>3 DEF Coming
    <3>2. next[l.ptr] # NoBeh /\ prio[x] <= prio[next[l.ptr]]
      BY <1>0, <2>2, <3>1, ComesNext
    <3> QED
      BY <1>1, <3>2 DEF Coming
  <2> QED
    BY <2>1, <2>3
<1>5. HierarchyOK(u, m) /\ ClimbOK(u, m)
  BY <1>1 DEF HierarchyOK, ClimbOK, Climbing
<1> QED
  BY <1>2, <1>3, <1>4, <1>5 DEF StopOK

(* A way that goes on by one stage, and one that leaves its first stage.    *)
LEMMA LongerWay ==
    ASSUME NEW t, NEW b, NEW n \in Nat, NEW d, NEW w \in Ways(t, b, n, d),
           NEW e \in Behaviours, t[d].caller = e
    PROVE  \E v \in Ways(t, b, n + 1, e) : \A i \in 0 .. n : v[i] = w[i]
<1> DEFINE v == [i \in 0 .. n + 1 |-> IF i = n + 1 THEN e ELSE w[i]]
<1>1. \A i \in 0 .. n : i \in 0 .. n + 1 /\ i # n + 1
  OBVIOUS
<1>2. n + 1 \in 0 .. n + 1 /\ 0 \in 0 .. n /\ n \in 0 .. n
  OBVIOUS
<1>3. \A i \in 0 .. n + 1 : i = n + 1 \/ i \in 0 .. n
  OBVIOUS
<1>4. w \in [0 .. n -> Behaviours] /\ w[0] = b /\ w[n] = d
      /\ \A i \in 0 .. n - 1 : t[w[i]].caller = w[i + 1]
  BY DEF Ways
<1>5. v \in [0 .. n + 1 -> Behaviours]
  BY <1>3, <1>4
<1>6. \A i \in 0 .. n : v[i] = w[i]
  BY <1>1
<1>7. v[n + 1] = e
  BY <1>2
<1> HIDE DEF v
<1>8. ASSUME NEW i \in 0 .. (n + 1) - 1
      PROVE  t[v[i]].caller = v[i + 1]
  <2>1. CASE i = n
    BY <1>2, <1>4, <1>6, <1>7, <2>1
  <2>2. CASE i # n
    <3>1. i \in 0 .. n /\ i \in 0 .. n - 1 /\ i + 1 \in 0 .. n
      BY <2>2
    <3> QED
      BY <1>4, <1>6, <3>1
  <2> QED
    BY <2>1, <2>2
<1>9. v \in Ways(t, b, n + 1, e)
  BY <1>2, <1>4, <1>5, <1>6, <1>7, <1>8 DEF Ways
<1> QED
  BY <1>6, <1>9

LEMMA ShorterWay ==
    ASSUME NEW t, NEW b, NEW n \in Nat, n > 0, NEW d, NEW w \in Ways(t, b, n, d)
    PROVE  /\ w[1] = t[b].caller /\ w[1] \in Behaviours
           /\ n = 1 => w[1] = d
           /\ \E v \in Ways(t, w[1], n - 1, d) : \A i \in 0 .. n - 1 : v[i] = w[i + 1]
<1> DEFINE v == [i \in 0 .. n - 1 |-> w[i + 1]]
<1>1. w \in [0 .. n -> Behaviours] /\ w[0] = b /\ w[n] = d
      /\ \A i \in 0 .. n - 1 : t[w[i]].caller = w[i + 1]
  BY DEF Ways
<1>2. 0 \in 0 .. n - 1 /\ 1 \in 0 .. n /\ 0 + 1 = 1 /\ n - 1 \in 0 .. n - 1 /\ (n - 1) + 1 = n
  OBVIOUS
<1>3. \A i \in 0 .. n - 1 : i + 1 \in 0 .. n
  OBVIOUS
<1>4. w[1] = t[b].caller /\ w[1] \in Behaviours /\ (n = 1 => w[1] = d)
  BY <1>1, <1>2
<1>5. v \in [0 .. n - 1 -> Behaviours] /\ v[0] = w[1] /\ v[n - 1] = d
  BY <1>1, <1>2, <1>3
<1>6. ASSUME NEW i \in 0 .. (n - 1) - 1
      PROVE  t[v[i]].caller = v[i + 1]
  <2>1. i \in 0 .. n - 1 /\ i + 1 \in 0 .. n - 1
    OBVIOUS
  <2>2. v[i] = w[i + 1] /\ v[i + 1] = w[(i + 1) + 1]
    BY <2>1
  <2> QED
    BY <1>1, <2>1, <2>2
<1>7. v \in Ways(t, w[1], n - 1, d)
  BY <1>5, <1>6 DEF Ways
<1> QED
  BY <1>4, <1>7

(* A stage of isInCallHierarchy(): the way ends above the list, at the      *)
(* caller that is looked for, or goes on.                                   *)
LEMMA StopLooksUp ==
    ASSUME NEW u, NEW l, StopTypes(u, l), StopOK(u, l), l.at = "hierarchy",
           NEW above, above = u[l.up].caller,
           NEW m, m.before = l.before, m.caller = l.caller, m.ptr = l.ptr,
           above = NoBeh => m.at = "climb" /\ m.level = 0,
           above \notin {NoBeh, l.up} =>
               /\ m.level = l.level + 1
               /\ IF above = l.caller THEN m.at = "climb" /\ m.up = l.ptr
                                      ELSE m.at = "hierarchy" /\ m.up = above
    PROVE  StopOK(u, m)
<1> DEFINE D == Below(l)
<1>0. /\ l \in StopLoops /\ u \in Tables /\ l.caller \in Behaviours /\ l.level \in Nat
      /\ l.ptr \in Behaviours /\ u[l.ptr].active /\ l.up \in Behaviours \ Gone(u, l)
      /\ CallersCall(l.before)
  BY DEF StopTypes, StopLoops, StopOK, HierarchyOK
<1>1. PICK w \in Ways(l.before, l.ptr, l.level, l.up) :
          \A i \in 0 .. l.level : w[i] \in D <=> l.up \in D
  BY DEF StopOK, HierarchyOK
<1>2. w[0] = l.ptr /\ 0 \in 0 .. l.level
  BY <1>0 DEF Ways
<1>3. u[l.up] = l.before[l.up] /\ above # l.up /\ above \in Pointers
  <2>1. u[l.up] = l.before[l.up]
    BY <1>0 DEF StopOK, OnlyGone
  <2>2. u[l.up] \in Record
    BY <1>0 DEF Tables
  <2> QED
    BY <1>0, <2>1, <2>2, NoSelfCaller DEF Record, Pointers
<1>4. l.up \in D <=> l.up # l.caller /\ above \in D \cup {l.caller}
  BY <1>0, <1>3, CalledIsClosure DEF Below
<1>5. l.ptr \notin Gone(u, l) /\ u[l.ptr] = l.before[l.ptr]
  BY <1>0 DEF StopOK, OnlyGone, Off
<1>6. ASSUME NEW e \in Behaviours, l.before[l.up].caller = e
      PROVE  \E v \in Ways(l.before, l.ptr, l.level + 1, e) : \A i \in 0 .. l.level : v[i] = w[i]
  <2>1. l.level \in Nat
    BY <1>0
  <2> QED
    BY <1>6, <2>1, LongerWay
<1>7. /\ CallersCall(m.before) /\ OnlyGone(u, m) /\ RightlyGone(u, m)
      /\ Below(m) = Below(l) /\ Gone(u, m) = Gone(u, l)
  BY SameRecords
<1>8. \A x \in D \ Gone(u, l) :
          \/ Callees(u, x) # {}
          \/ Callees(l.before, x) = {} /\ (l.before[x].active => Coming(x, l))
  BY DEF StopOK, RightlyLeft, Climbing
<1>9. \A x : Coming(x, l) /\ (m.at = "climb" => x # l.ptr) => Coming(x, m)
  BY DEF Coming
<1>10. CASE above = NoBeh
  <2>2. m.at = "climb" /\ m.level = 0
    BY <1>10
  <2>4. l.ptr \notin D
    <3>1. NoBeh \notin D \cup {l.caller}
      BY <1>0, NamesAssumption DEF Below, Called
    <3> QED
      BY <1>1, <1>2, <1>4, <1>10, <3>1
  <2>5. RightlyLeft(u, m)
    BY <1>7, <1>8, <1>9, <2>4 DEF RightlyLeft
  <2>6. HierarchyOK(u, m) /\ ClimbOK(u, m)
    BY <1>0, <2>2 DEF HierarchyOK, ClimbOK, Climbing
  <2> QED
    BY <1>7, <2>5, <2>6 DEF StopOK
<1>11. CASE above = l.caller
  <2>2. m.at = "climb" /\ m.up = l.ptr /\ m.level = l.level + 1 /\ l.level + 1 > 0
    BY <1>0, <1>3, <1>11, NamesAssumption
  <2>4. l.up \in D /\ l.ptr \in D
    BY <1>1, <1>2, <1>3, <1>4, <1>11
  <2>5. RightlyLeft(u, m)
    BY <1>7, <1>8, <1>9, <2>2 DEF RightlyLeft, Climbing
  <2>6. PICK v \in Ways(l.before, l.ptr, l.level + 1, l.caller) : \A i \in 0 .. l.level : v[i] = w[i]
    BY <1>0, <1>3, <1>6, <1>11
  <2>7. \A i \in 0 .. (l.level + 1) - 1 : v[i] \in D
    <3>1. (l.level + 1) - 1 = l.level
      BY <1>0
    <3> QED
      BY <1>1, <2>4, <2>6, <3>1
  <2>8. HierarchyOK(u, m) /\ ClimbOK(u, m)
    BY <1>0, <1>5, <1>7, <2>2, <2>4, <2>6, <2>7 DEF HierarchyOK, ClimbOK
  <2> QED
    BY <1>7, <2>5, <2>8 DEF StopOK
<1>12. CASE above # NoBeh /\ above # l.caller
  <2>0. above \in Behaviours
    BY <1>3, <1>12 DEF Pointers
  <2>2. m.at = "hierarchy" /\ m.up = above /\ m.level = l.level + 1
    BY <1>3, <1>12
  <2>4. RightlyLeft(u, m)
    BY <1>7, <1>8, <1>9, <2>2 DEF RightlyLeft
  <2>5. above \notin Gone(u, l)
    BY <1>0, <1>3 DEF StopOK, RightlyGone, Callees
  <2>6. l.up \in D <=> above \in D
    BY <1>0, <1>3, <1>4, <1>12, CallerIsNotCalled DEF Below
  <2>7. PICK v \in Ways(l.before, l.ptr, l.level + 1, above) : \A i \in 0 .. l.level : v[i] = w[i]
    BY <1>3, <1>6, <2>0
  <2>8. \A i \in 0 .. l.level + 1 : v[i] \in D <=> above \in D
    <3> SUFFICES ASSUME NEW i \in 0 .. l.level + 1
                 PROVE  v[i] \in D <=> above \in D
      OBVIOUS
    <3>1. i = l.level + 1 \/ i \in 0 .. l.level
      BY <1>0
    <3>2. v[l.level + 1] = above
      BY <2>7 DEF Ways
    <3> QED
      BY <1>1, <2>6, <2>7, <3>1, <3>2
  <2>9. HierarchyOK(u, m)
    BY <1>0, <1>7, <2>0, <2>2, <2>5, <2>7, <2>8 DEF HierarchyOK
  <2>10. ClimbOK(u, m)
    BY <2>2 DEF ClimbOK, Climbing
  <2> QED
    BY <1>7, <2>4, <2>9, <2>10 DEF StopOK
<1> QED
  BY <1>10, <1>11, <1>12

(* A stage of the climb: who has no callee left is switched off, and only   *)
(* its caller, to whom the climb goes on, can thereby lose its last one.    *)
LEMMA StopClimbs ==
    ASSUME NEW u, NEW l, StopTypes(u, l), StopOK(u, l), l.at = "climb", l.level > 0,
           NEW v, Callees(u, l.up) = {} => v = SwitchOff(u, l.up),
           Callees(u, l.up) # {} => v = u,
           NEW m, m.before = l.before, m.caller = l.caller, m.ptr = l.ptr, m.at = "climb",
           m.up = u[l.up].caller, m.level = l.level - 1
    PROVE  StopOK(v, m)
<1> DEFINE D == Below(l)
           G == Gone(u, l)
           t == l.before
           x0 == l.up
           H == Gone(v, m)
<1>0. /\ u \in Tables /\ l.caller \in Behaviours /\ l.level \in Nat /\ l.ptr \in Behaviours
      /\ CallersCall(t) /\ x0 \in D \ G /\ x0 \in Behaviours
      /\ Callees(t, x0) # {} \/ t[x0].active
  BY DEF StopTypes, StopLoops, StopOK, ClimbOK, Climbing, Below, Called
<1>1. PICK w \in Ways(t, x0, l.level, l.caller) : \A i \in 0 .. l.level - 1 : w[i] \in D
  BY DEF StopOK, ClimbOK, Climbing
<1>13. /\ w[1] = t[x0].caller /\ w[1] \in Behaviours /\ (l.level = 1 => w[1] = l.caller)
       /\ \E q \in Ways(t, w[1], l.level - 1, l.caller) : \A i \in 0 .. l.level - 1 : q[i] = w[i + 1]
  <2>1. l.level \in Nat /\ l.level > 0
    BY <1>0
  <2>2. w \in Ways(t, x0, l.level, l.caller)
    BY <1>1
  <2> DEFINE n == l.level
  <2> HIDE DEF n
  <2>3. n \in Nat /\ n > 0 /\ w \in Ways(t, x0, n, l.caller)
    BY <2>1, <2>2 DEF n
  <2>4. /\ w[1] = t[x0].caller /\ w[1] \in Behaviours /\ (n = 1 => w[1] = l.caller)
        /\ \E q \in Ways(t, w[1], n - 1, l.caller) : \A i \in 0 .. n - 1 : q[i] = w[i + 1]
    BY <2>3, ShorterWay
  <2> QED
    BY <2>4 DEF n
<1>2. \A x \in D : /\ x \in Behaviours /\ x # l.caller /\ t[x].caller # NoBeh
                   /\ t[x].caller \in D \cup {l.caller}
                   /\ x \notin G => u[x] = t[x]
  BY BelowTheCaller DEF StopOK
<1>3. Below(m) = D
  BY DEF Below
<1>4. \A b \in Behaviours : u[b] = IF b \in G THEN Off ELSE t[b]
  BY DEF StopOK, OnlyGone
<1>5. /\ G \subseteq SwitchedOff(t, l.caller) /\ G \subseteq D
      /\ \A b \in G : Callees(t, b) \subseteq G
  BY DEF StopOK, RightlyGone, Gone
<1>6. \A x \in D \ G :
          \/ Callees(u, x) # {}
          \/ Callees(t, x) = {} /\ (t[x].active => Coming(x, l))
          \/ x = x0
  BY DEF StopOK, RightlyLeft
<1>7. \A x : Coming(x, l) => Coming(x, m)
  BY DEF Coming
<1>8. Off.caller = NoBeh
  BY DEF Off
<1> HIDE DEF D, G, t, x0
<1>9. /\ H = IF Callees(u, x0) = {} THEN G \cup {x0} ELSE G
      /\ \A b \in Behaviours : v[b] = IF b \in H THEN Off ELSE t[b]
  <2>1. CASE Callees(u, x0) = {}
    <3>1. v = [u EXCEPT ![x0] = Off]
      BY <2>1 DEF x0, SwitchOff, Off
    <3>2. \A b \in Behaviours : v[b] = IF b = x0 THEN Off ELSE u[b]
      BY <1>0, <3>1 DEF Tables
    <3>3. H = G \cup {x0}
      <4>1. \A b \in D : v[b].caller = NoBeh <=> b = x0 \/ u[b].caller = NoBeh
        BY <1>2, <1>8, <3>2
      <4> QED
        BY <1>0, <1>3, <4>1 DEF Gone, G, D
    <3> QED
      BY <1>4, <2>1, <3>2, <3>3
  <2>2. CASE Callees(u, x0) # {}
    <3>1. H = G
      BY <1>3, <2>2 DEF Gone, G, D, x0
    <3> QED
      BY <1>4, <2>2, <3>1 DEF x0
  <2> QED
    BY <2>1, <2>2
<1>10. OnlyGone(v, m)
  BY <1>9 DEF OnlyGone, t
<1> HIDE DEF H
<1>11. Callees(u, x0) = {} => Callees(t, x0) \subseteq G
  <2> SUFFICES ASSUME Callees(u, x0) = {}, NEW y \in Behaviours, t[y].caller = x0
               PROVE  y \in G
    BY DEF Callees
  <2>1. u[y].caller # x0
    BY DEF Callees
  <2> QED
    BY <1>4, <2>1
<1>12. RightlyGone(v, m)
  <2>1. Callees(u, x0) = {} => x0 \in SwitchedOff(t, l.caller)
    <3> SUFFICES ASSUME Callees(u, x0) = {}
                 PROVE  x0 \in SwitchedOff(t, l.caller)
      OBVIOUS
    <3>1. Follows(t, x0, SwitchedOff(t, l.caller))
      BY <1>0, <1>5, <1>11 DEF Follows
    <3>2. x0 \in Called(t, l.caller)
      BY <1>0 DEF D, Below, t
    <3> QED
      BY <3>1, <3>2, SwitchedOffIsLeast
  <2>2. H \subseteq SwitchedOff(t, l.caller)
    BY <1>5, <1>9, <2>1
  <2>3. \A b \in H : Callees(t, b) \subseteq H
    BY <1>5, <1>9, <1>11
  <2> QED
    BY <2>2, <2>3 DEF RightlyGone, H, t
<1>14. m.up = w[1]
  BY <1>0, <1>2, <1>13 DEF x0
<1>15. l.level # 1 => w[1] \in D
  <2>1. l.level # 1 => 1 \in 0 .. l.level - 1
    BY <1>0
  <2> QED
    BY <1>1, <2>1
<1>16. RightlyLeft(v, m)
  <2> SUFFICES ASSUME NEW x \in D \ H
               PROVE  \/ Callees(v, x) # {}
                      \/ Callees(t, x) = {} /\ (t[x].active => Coming(x, m))
                      \/ Climbing(m) /\ x = m.up
    BY <1>3 DEF RightlyLeft, H, t
  <2>1. x \in D \ G
    BY <1>9
  <2>2. CASE Callees(t, x) = {} /\ (t[x].active => Coming(x, l))
    BY <1>7, <2>2
  <2>3. CASE x = x0
    BY <1>9, <2>3 DEF x0
  <2>4. CASE Callees(u, x) # {} /\ x # x0
    <3>1. PICK y \in Behaviours : u[y].caller = x
      BY <2>4 DEF Callees
    <3>2. y \notin G /\ u[y] = t[y]
      BY <1>2, <1>4, <1>8, <2>1, <3>1, NamesAssumption
    <3>3. CASE y \notin H
      <4>1. v[y].caller = x
        BY <1>9, <3>1, <3>2, <3>3
      <4> QED
        BY <4>1 DEF Callees
    <3>4. CASE y \in H
      <4>1. y = x0 /\ x = w[1]
        BY <1>9, <1>13, <3>1, <3>2, <3>4
      <4>2. l.level # 1
        BY <1>2, <1>13, <2>1, <4>1
      <4>3. m.level > 0
        BY <1>0, <4>2
      <4> QED
        BY <1>14, <4>1, <4>3 DEF Climbing
    <3> QED
      BY <3>3, <3>4
  <2> QED
    BY <1>6, <2>1, <2>2, <2>3, <2>4
<1>17. HierarchyOK(v, m)
  BY DEF HierarchyOK
<1>18. ClimbOK(v, m)
  <2> SUFFICES ASSUME m.level > 0
               PROVE  /\ w[1] \in D \ H
                      /\ Callees(t, w[1]) # {}
                      /\ \E q \in Ways(t, w[1], m.level, l.caller) :
                             \A i \in 0 .. m.level - 1 : q[i] \in D
    BY <1>0, <1>3, <1>14 DEF ClimbOK, Climbing, t, H
  <2>1. l.level # 1
    BY <1>0
  <2>2. x0 \in Callees(t, w[1])
    BY <1>0, <1>13 DEF Callees
  <2>3. w[1] \notin G
    BY <1>0, <1>5, <2>2
  <2>4. w[1] # x0
    BY <1>0, <1>13, NoSelfCaller
  <2>5. PICK q \in Ways(t, w[1], l.level - 1, l.caller) : \A i \in 0 .. l.level - 1 : q[i] = w[i + 1]
    BY <1>13
  <2>6. \A i \in 0 .. m.level - 1 : q[i] \in D
    <3> SUFFICES ASSUME NEW i \in 0 .. m.level - 1
                 PROVE  q[i] \in D
      OBVIOUS
    <3>1. i \in 0 .. l.level - 1 /\ i + 1 \in 0 .. l.level - 1
      BY <1>0
    <3> QED
      BY <1>1, <2>5, <3>1
  <2> QED
    BY <1>9, <1>15, <2>1, <2>2, <2>3, <2>4, <2>5, <2>6
<1> QED
  BY <1>0, <1>10, <1>12, <1>16, <1>17, <1>18 DEF StopOK, t

(* At the end all have gone that were to go, and no others.                 *)
LEMMA StopEnds ==
    ASSUME NEW u, NEW l, StopTypes(u, l), StopOK(u, l), l.at = "visit", l.ptr = NoBeh,
           NEW v, v = [u EXCEPT ![l.caller] =
                          [active |-> TRUE, caller |-> @.caller, subResult |-> CANCEL]]
    PROVE  v = deactivate_called_behaviours(l.before, l.caller)
<1> DEFINE D == Below(l)
           G == Gone(u, l)
           t == l.before
           c == l.caller
<1>0. u \in Tables /\ t \in Tables /\ c \in Behaviours /\ l \in StopLoops
  BY DEF StopTypes, StopLoops
<1>1. \A x \in D : x \in Behaviours /\ x # c /\ t[x].caller # NoBeh
  BY BelowTheCaller DEF StopOK
<1>2. \A b \in Behaviours : u[b] = IF b \in G THEN Off ELSE t[b]
  BY DEF StopOK, OnlyGone
<1>3. /\ G \subseteq SwitchedOff(t, c) /\ G \in SUBSET D
  BY DEF StopOK, RightlyGone, Gone
<1>4. \A x \in D \ G : Callees(u, x) # {} \/ (Callees(t, x) = {} /\ ~t[x].active)
  BY DEF StopOK, RightlyLeft, Climbing, Coming
<1>5. D = Called(t, c) /\ Off.caller = NoBeh
  BY DEF Below, Off
<1> HIDE DEF D, G, t, c
<1>6. \A x \in D : Follows(t, x, G) => x \in G
  <2> SUFFICES ASSUME NEW x \in D \ G, Follows(t, x, G)
               PROVE  FALSE
    OBVIOUS
  <2>1. PICK y \in Behaviours : u[y].caller = x
    BY <1>4 DEF Follows, Callees
  <2>2. y \notin G /\ t[y].caller = x
    BY <1>1, <1>2, <1>5, <2>1, NamesAssumption
  <2> QED
    BY <2>2 DEF Follows, Callees
<1>7. G = SwitchedOff(t, c)
  BY <1>3, <1>5, <1>6, SwitchedOffIsLeast
<1>8. c \notin G /\ u[c] = t[c]
  BY <1>0, <1>1, <1>2, <1>3
<1>9. [t[c] EXCEPT !.active = TRUE, !.subResult = CANCEL]
          = [active |-> TRUE, caller |-> u[c].caller, subResult |-> CANCEL]
  <2>1. t[c] \in Record
    BY <1>0 DEF Tables
  <2> DEFINE on == [t[c] EXCEPT !.active = TRUE, !.subResult = CANCEL]
  <2>2. on \in Record /\ on.active = TRUE /\ on.caller = t[c].caller /\ on.subResult = CANCEL
    BY <2>1 DEF Record, SubResults
  <2> HIDE DEF on
  <2>3. on = [active |-> TRUE, caller |-> t[c].caller, subResult |-> CANCEL]
    BY <2>2 DEF Record
  <2> QED
    BY <1>8, <2>3 DEF on
<1>10. v = [b \in Behaviours |-> IF b = c THEN [active |-> TRUE, caller |-> u[c].caller, subResult |-> CANCEL]
                                 ELSE u[b]]
  BY <1>0 DEF Tables, c
<1>11. deactivate_called_behaviours(t, c)
         = [b \in Behaviours |-> IF b = c THEN [active |-> TRUE, caller |-> u[c].caller, subResult |-> CANCEL]
                                 ELSE u[b]]
  BY <1>2, <1>7, <1>9 DEF deactivate_called_behaviours, Off
<1> QED
  BY <1>10, <1>11 DEF t, c

-----------------------------------------------------------------------------
(* The loops run in turn. *)
LEMMA LoopKinds ==
    ASSUME LoopTypeOK
    PROVE  /\ beh \in Tables /\ job \in Pointers
           /\ loop.at = "walk" => loop \in WalkLoops
           /\ Stopping => loop \in StopLoops /\ StopTypes(beh, loop)
BY DEF LoopTypeOK, TypeOK, Tables, Pointers, NoLoop, InsertLoops, WalkLoops, StopLoops, Stopping, StopTypes

LEMMA Quiet ==
    ASSUME beh' \in CallTables, job' \in Pointers, loop' \in {NoLoop} \cup InsertLoops
    PROVE  LoopInv'
<1>1. LoopTypeOK' /\ CallersCall(beh')
  BY DEF LoopTypeOK, TypeOK, CallTables, Tables, Pointers
<1>2. loop'.at \in {"none", "insert"}
  BY DEF NoLoop, InsertLoops
<1> QED
  BY <1>1, <1>2 DEF LoopInv, WalkOK, Stopping

LEMMA WalkGoes ==
    ASSUME OrderInv, listed = Behaviours, CallersCall(beh), TypeOK, NEW p \in Pointers, WalkFrom(p),
           Leads(p, IF job = NoBeh THEN 256 ELSE prio[job]), UNCHANGED <<beh, listVars>>
    PROVE  LoopInv'
<1>1. loop' = [at |-> "walk", ptr |-> p] /\ UNCHANGED <<beh, job, listed>>
  BY DEF WalkFrom, listVars
<1>2. loop' \in WalkLoops /\ loop'.at = "walk" /\ loop'.ptr = p
  BY <1>1 DEF WalkLoops
<1>3. LoopTypeOK' /\ CallersCall(beh')
  BY <1>1, <1>2 DEF LoopTypeOK, TypeOK
<1>4. WalkOK'
  BY <1>1, <1>2 DEF WalkOK, Leads
<1> QED
  BY <1>2, <1>3, <1>4 DEF LoopInv, Stopping

LEMMA StopGoes ==
    ASSUME StopAsked, CallersCall(beh'), TypeOK', UNCHANGED <<job, listVars>>,
           StopTypes(beh', loop'), StopOK(beh', loop'),
           loop'.before = loop.before, loop'.caller = loop.caller
    PROVE  LoopInv'
<1>1. LoopTypeOK'
  BY DEF LoopTypeOK, StopTypes
<1>2. loop'.at # "walk"
  BY DEF StopTypes, StopLoops
<1>3. StopAsked'
  BY DEF StopAsked, listVars
<1> QED
  BY <1>1, <1>2, <1>3 DEF LoopInv, WalkOK

LEMMA LoopStarts == ListInit => LoopInv
<1> SUFFICES ASSUME ListInit
             PROVE  LoopInv
  OBVIOUS
<1>1. TypeOK /\ loop = NoLoop
  BY DEF ListInit, Init, TypeOK, Record, SubResults
<1>2. \A b \in Behaviours : beh[b].caller = NoBeh
  BY DEF ListInit, Init
<1> QED
  BY <1>1, <1>2 DEF LoopInv, LoopTypeOK, CallersCall, WalkOK, Stopping, NoLoop

LEMMA RecordsKept ==
    ASSUME LoopInv, OnRecords
    PROVE  beh' \in CallTables /\ job' \in Pointers
<1>0. beh \in CallTables /\ job \in Pointers
  BY LoopKinds DEF LoopInv, CallTables
<1>1. ASSUME NEW to \in Behaviours \cup {Unlisted}, NEW mode \in Modes, Call(to, mode)
      PROVE  beh' \in CallTables /\ job' \in Pointers
  <2>1. /\ job # NoBeh /\ <<job, to>> \in FgCalls \cup BgCalls
        /\ beh' = switch_to_behaviour(beh, job, to, mode) /\ job' = job
    BY <1>1 DEF Call
  <2> QED
    BY <1>0, <2>1, SwitchKeeps
<1>2. ASSUME NEW state \in {SUCCESS, FAIL}, Return(state)
      PROVE  beh' \in CallTables /\ job' \in Pointers
  <2>1. job \in Behaviours /\ state \in SubResults
    BY <1>0, <1>2 DEF Return, Pointers, SubResults
  <2> QED
    BY <1>0, <1>2, <2>1, ExitKeeps DEF Return
<1>3. ASSUME NEW t \in Behaviours, Deactivate(t)
      PROVE  beh' \in CallTables /\ job' \in Pointers
  BY <1>0, <1>3, DeactivateKeeps DEF Deactivate
<1>4. ASSUME NEW to \in Startable, NEW mode \in Modes, Start(to, mode)
      PROVE  beh' \in CallTables /\ job' \in Pointers
  <2>1. NoBeh \in Pointers /\ to \in Behaviours \cup {Unlisted}
    BY CallsAssumption DEF Pointers
  <2> QED
    BY <1>0, <1>4, <2>1, SwitchKeeps DEF Start
<1>5. CASE StopAll
  BY <1>0, <1>5, AllKeep DEF StopAll
<1> QED
  BY <1>1, <1>2, <1>3, <1>4, <1>5 DEF OnRecords

(* Whoever the walk leaves behind is not active or has had its turn. *)
LEMMA LeadsOn ==
    ASSUME OrderInv, listed = Behaviours, NEW b \in Behaviours
    PROVE  Leads(next[b], prio[b])
<1>1. FirstIn(next[b], prio[b], Behaviours)
  BY DEF OrderInv, ListOK
<1>2. \A c \in Behaviours : prio[c] \in Int
  BY PrioAssumption
<1>3. \A c \in Behaviours : prio[c] < prio[b] => ~(prio[c] >= prio[b])
  BY <1>2
<1> QED
  BY <1>1, <1>3 DEF FirstIn, Leads

LEMMA WalksKept ==
    ASSUME OrderInv, LoopInv,
           BeginListWalk \/ (\E wish \in BOOLEAN : EndListWork(wish)) \/ WalkOn
    PROVE  LoopInv'
<1>0. /\ TypeOK /\ CallersCall(beh) /\ beh \in CallTables /\ job \in Pointers
      /\ head \in Pointers /\ next \in [Behaviours -> Pointers]
  BY LoopKinds DEF LoopInv, LoopTypeOK, CallTables, OrderInv, ListTypeOK
<1>1. CASE BeginListWalk
  <2>1. listed = Behaviours /\ job = NoBeh /\ WalkFrom(head) /\ UNCHANGED <<beh, listVars>>
    BY <1>1 DEF BeginListWalk, Ready
  <2>2. Leads(head, 256)
    <3>1. FirstIn(head, 256, Behaviours)
      BY <2>1 DEF OrderInv, ListOK
    <3>2. \A c \in Behaviours : ~(prio[c] >= 256)
      BY PrioAssumption
    <3> QED
      BY <3>1, <3>2 DEF FirstIn, Leads
  <2> QED
    BY <1>0, <2>1, <2>2, WalkGoes
<1>2. ASSUME NEW wish \in BOOLEAN, EndListWork(wish)
      PROVE  LoopInv'
  <2>1. listed = Behaviours /\ job \in Behaviours /\ job # NoBeh /\ UNCHANGED <<beh, listVars>>
    BY <1>0, <1>2 DEF EndListWork, Ready, Pointers
  <2>2. CASE wish
    BY <1>0, <1>2, <2>1, <2>2, Quiet DEF EndListWork, Ready, Pointers
  <2>3. CASE ~wish
    <3>1. WalkFrom(next[job])
      BY <1>2, <2>3 DEF EndListWork
    <3> QED
      BY <1>0, <2>1, <3>1, LeadsOn, WalkGoes
  <2> QED
    BY <2>2, <2>3
<1>3. CASE WalkOn
  <2>1. /\ loop.at = "walk" /\ UNCHANGED <<beh, listVars>> /\ listed = Behaviours /\ loop.ptr \in Pointers
        /\ Leads(loop.ptr, IF job = NoBeh THEN 256 ELSE prio[job])
    BY <1>3, LoopKinds DEF WalkOn, LoopInv, WalkOK, WalkLoops
  <2>2. CASE loop.ptr # NoBeh /\ ~beh[loop.ptr].active
    <3> DEFINE limit == IF job = NoBeh THEN 256 ELSE prio[job]
               p == loop.ptr
               q == next[loop.ptr]
    <3>1. p \in Behaviours /\ q \in Pointers /\ WalkFrom(q)
      BY <1>0, <1>3, <2>1, <2>2 DEF WalkOn, Pointers
    <3>2. limit \in Int /\ \A c \in Behaviours : prio[c] \in Int
      BY <1>0, PrioAssumption DEF Pointers
    <3> HIDE DEF limit, p, q
    <3>3. /\ prio[p] < limit
          /\ \A c \in Behaviours : beh[c].active /\ prio[c] < limit => prio[c] <= prio[p]
      BY <2>1, <2>2 DEF limit, p, Leads
    <3>4. Leads(q, prio[p])
      BY <2>1, <3>1, LeadsOn DEF q, p
    <3>5. q # NoBeh => prio[q] < limit
      <4> SUFFICES ASSUME q # NoBeh
                   PROVE  prio[q] < limit
        OBVIOUS
      <4>1. prio[q] < prio[p] /\ prio[q] \in Int
        BY <3>1, <3>2, <3>4 DEF Leads, Pointers
      <4> QED
        BY <3>1, <3>2, <3>3, <4>1
    <3>6. ASSUME NEW c \in Behaviours, beh[c].active, prio[c] < limit
          PROVE  q # NoBeh /\ prio[c] <= prio[q]
      <4>1. prio[c] <= prio[p] /\ c # p
        BY <2>2, <3>3, <3>6 DEF p
      <4>2. prio[c] < prio[p]
        <5>1. prio[c] # prio[p] /\ prio[c] \in Int /\ prio[p] \in Int
          BY <3>1, <3>2, <4>1, PrioAssumption
        <5> QED
          BY <4>1, <5>1
      <4> QED
        BY <3>4, <3>6, <4>2 DEF Leads
    <3>7. Leads(q, limit)
      BY <3>5, <3>6 DEF Leads
    <3> QED
      BY <1>0, <2>1, <3>1, <3>7, WalkGoes DEF limit
  <2>3. CASE ~(loop.ptr # NoBeh /\ ~beh[loop.ptr].active)
    BY <1>0, <1>3, <2>1, <2>3, Quiet DEF WalkOn
  <2> QED
    BY <2>2, <2>3
<1> QED
  BY <1>1, <1>2, <1>3

LEMMA StopsKept ==
    ASSUME OrderInv, LoopInv,
           (\E c \in Behaviours : BeginStop(c)) \/ VisitEntry \/ isInCallHierarchy \/ Climb
               \/ NextEntry \/ EndStop
    PROVE  LoopInv'
<1>0. /\ TypeOK /\ CallersCall(beh) /\ beh \in CallTables /\ beh \in Tables /\ job \in Pointers
      /\ head \in Pointers /\ next \in [Behaviours -> Pointers]
  BY LoopKinds DEF LoopInv, LoopTypeOK, CallTables, OrderInv, ListTypeOK
<1>1. ASSUME Stopping
      PROVE  loop \in StopLoops /\ StopTypes(beh, loop) /\ StopAsked /\ StopOK(beh, loop) /\ listed = Behaviours
  BY <1>1, LoopKinds DEF LoopInv, StopAsked
<1>2. ASSUME UNCHANGED <<beh, job, listVars>>, Stopping, StopTypes(beh, loop'), StopOK(beh, loop'),
             loop'.before = loop.before, loop'.caller = loop.caller
      PROVE  LoopInv'
  <2>1. CallersCall(beh') /\ TypeOK' /\ StopTypes(beh', loop') /\ StopOK(beh', loop')
    BY <1>0, <1>2 DEF TypeOK
  <2> QED
    BY <1>1, <1>2, <2>1, StopGoes
<1>3. ASSUME NEW c \in Behaviours, BeginStop(c)
      PROVE  LoopInv'
  <2>1. /\ listed = Behaviours /\ UNCHANGED <<beh, job, listVars>>
        /\ loop' = [at |-> "visit", caller |-> c, ptr |-> head, up |-> NoBeh, level |-> 0, before |-> beh]
    BY <1>3 DEF BeginStop, Ready
  <2>2. StopTypes(beh, loop') /\ StopOK(beh, loop')
    BY <1>0, <2>1, StopBegins
  <2>3. StopAsked'
    BY <1>3, <2>1 DEF StopAsked, BeginStop, listVars
  <2>4. LoopTypeOK' /\ CallersCall(beh')
    BY <1>0, <2>1, <2>2 DEF LoopTypeOK, TypeOK, StopTypes
  <2>5. loop'.at = "visit" /\ StopOK(beh', loop')
    BY <2>1, <2>2
  <2> QED
    BY <2>3, <2>4, <2>5 DEF LoopInv, WalkOK
<1>4. CASE VisitEntry
  <2>1. /\ loop.at = "visit" /\ loop.ptr # NoBeh /\ UNCHANGED <<beh, job, listVars>> /\ Stopping
        /\ loop' = IF beh[loop.ptr].active
                   THEN [loop EXCEPT !.at = "hierarchy", !.up = loop.ptr, !.level = 0]
                   ELSE [loop EXCEPT !.ptr = next[@]]
    BY <1>4 DEF VisitEntry, Stopping
  <2>2. StopTypes(beh, loop') /\ StopOK(beh, loop')
    BY <1>1, <2>1, StopVisits
  <2>3. loop'.before = loop.before /\ loop'.caller = loop.caller
    BY <1>1, <2>1 DEF StopLoops
  <2> QED
    BY <1>2, <2>1, <2>2, <2>3
<1>5. CASE isInCallHierarchy
  <2> DEFINE above == beh[loop.up].caller
  <2>1. /\ loop.at = "hierarchy" /\ UNCHANGED <<beh, job, listVars>> /\ Stopping
        /\ loop' = IF above \in {NoBeh, loop.up} THEN [loop EXCEPT !.at = "climb", !.level = 0]
                   ELSE IF above = loop.caller
                        THEN [loop EXCEPT !.at = "climb", !.up = loop.ptr, !.level = @ + 1]
                        ELSE [loop EXCEPT !.up = above, !.level = @ + 1]
    BY <1>5 DEF isInCallHierarchy, Stopping
  <2>2. above \in Pointers
    <3>1. loop.up \in Behaviours
      BY <1>1, <2>1 DEF StopOK, HierarchyOK
    <3>2. beh[loop.up] \in Record
      BY <1>0, <3>1 DEF Tables
    <3> QED
      BY <3>2, RecordFields
  <2> HIDE DEF above
  <2>3. loop \in StopLoops
    BY <1>1, <2>1
  <2>4. CASE above \in {NoBeh, loop.up}
    <3>1. loop' = [loop EXCEPT !.at = "climb", !.level = 0]
      BY <2>1, <2>4
    <3>2. /\ loop'.before = loop.before /\ loop'.caller = loop.caller /\ loop'.ptr = loop.ptr
          /\ loop'.at = "climb" /\ loop'.level = 0 /\ StopTypes(beh, loop')
      BY <1>0, <2>3, <3>1 DEF StopLoops, StopTypes
    <3>3. StopOK(beh, loop')
      BY <1>1, <2>1, <2>4, <3>2, StopLooksUp DEF above
    <3> QED
      BY <1>2, <2>1, <3>2, <3>3
  <2>5. CASE above \notin {NoBeh, loop.up} /\ above = loop.caller
    <3>1. loop' = [loop EXCEPT !.at = "climb", !.up = loop.ptr, !.level = @ + 1]
      BY <2>1, <2>5
    <3>2. /\ loop'.before = loop.before /\ loop'.caller = loop.caller /\ loop'.ptr = loop.ptr
          /\ loop'.at = "climb" /\ loop'.up = loop.ptr /\ loop'.level = loop.level + 1
          /\ StopTypes(beh, loop')
      <4>1. loop.level + 1 \in Nat
        BY <2>3 DEF StopLoops
      <4>2. loop' \in StopLoops
        BY <2>3, <3>1, <4>1 DEF StopLoops
      <4> QED
        BY <1>0, <2>3, <3>1, <4>2 DEF StopLoops, StopTypes
    <3>3. StopOK(beh, loop')
      BY <1>1, <2>1, <2>5, <3>2, StopLooksUp DEF above
    <3> QED
      BY <1>2, <2>1, <3>2, <3>3
  <2>6. CASE above \notin {NoBeh, loop.up, loop.caller}
    <3>1. loop' = [loop EXCEPT !.up = above, !.level = @ + 1]
      BY <2>1, <2>6
    <3>2. /\ loop'.before = loop.before /\ loop'.caller = loop.caller /\ loop'.ptr = loop.ptr
          /\ loop'.at = "hierarchy" /\ loop'.up = above /\ loop'.level = loop.level + 1
          /\ StopTypes(beh, loop')
      <4>1. loop.level + 1 \in Nat
        BY <2>3 DEF StopLoops
      <4>2. loop' \in StopLoops
        BY <2>2, <2>3, <3>1, <4>1 DEF StopLoops
      <4> QED
        BY <1>0, <2>1, <2>3, <3>1, <4>2 DEF StopLoops, StopTypes
    <3>3. StopOK(beh, loop')
      BY <1>1, <2>1, <2>6, <3>2, StopLooksUp DEF above
    <3> QED
      BY <1>2, <2>1, <3>2, <3>3
  <2> QED
    BY <2>4, <2>5, <2>6
<1>6. CASE Climb
  <2>1. /\ loop.at = "climb" /\ loop.level > 0 /\ UNCHANGED <<job, listVars>> /\ Stopping
        /\ Callees(beh, loop.up) = {} => beh' = SwitchOff(beh, loop.up)
        /\ Callees(beh, loop.up) # {} => beh' = beh
        /\ loop' = [loop EXCEPT !.up = beh[loop.up].caller, !.level = @ - 1]
    BY <1>6 DEF Climb, CallsNobody, Stopping
  <2>2. loop \in StopLoops /\ loop.up \in Behaviours /\ beh[loop.up].caller \in Pointers
    <3>1. loop.up \in Behaviours
      BY <1>1, <2>1 DEF StopOK, ClimbOK, Climbing, Below, Called
    <3>2. beh[loop.up] \in Record
      BY <1>0, <3>1 DEF Tables
    <3> QED
      BY <1>1, <2>1, <3>1, <3>2, RecordFields
  <2>3. beh' \in CallTables
    <3>1. Off \in Record /\ Off.caller = NoBeh
      BY DEF Off, Record, SubResults, CANCEL
    <3>2. SwitchOff(beh, loop.up) = [beh EXCEPT ![loop.up] = Off]
      BY DEF SwitchOff, Off
    <3> HIDE DEF Off
    <3>3. [beh EXCEPT ![loop.up] = Off] \in CallTables
      <4>1. beh \in CallTables /\ loop.up \in Behaviours
        BY <1>0, <2>2
      <4> QED
        BY <3>1, <4>1, OneRecord
    <3> QED
      BY <1>0, <2>1, <3>2, <3>3
  <2>4. /\ loop'.before = loop.before /\ loop'.caller = loop.caller /\ loop'.ptr = loop.ptr
        /\ loop'.at = "climb" /\ loop'.up = beh[loop.up].caller /\ loop'.level = loop.level - 1
        /\ loop' \in StopLoops
    <3>1. loop.level - 1 \in Nat
      BY <2>1, <2>2 DEF StopLoops
    <3> QED
      BY <2>1, <2>2, <3>1 DEF StopLoops
  <2>5. StopTypes(beh', loop') /\ CallersCall(beh') /\ TypeOK'
    BY <1>0, <2>1, <2>3, <2>4 DEF StopTypes, CallTables, Tables, TypeOK, Pointers
  <2>6. StopOK(beh', loop')
    BY <1>1, <2>1, <2>4, StopClimbs
  <2> QED
    BY <1>1, <2>1, <2>4, <2>5, <2>6, StopGoes
<1>7. CASE NextEntry
  <2>1. /\ loop.at = "climb" /\ loop.level = 0 /\ UNCHANGED <<beh, job, listVars>> /\ Stopping
        /\ loop' = [loop EXCEPT !.at = "visit", !.ptr = next[@]]
    BY <1>7 DEF NextEntry, Stopping
  <2>2. StopTypes(beh, loop') /\ StopOK(beh, loop')
    BY <1>1, <2>1, StopNextEntry
  <2>3. loop'.before = loop.before /\ loop'.caller = loop.caller
    BY <1>1, <2>1 DEF StopLoops
  <2> QED
    BY <1>2, <2>1, <2>2, <2>3
<1>8. CASE EndStop
  <2> DEFINE c == loop.caller
             r == [active |-> TRUE, caller |-> beh[c].caller, subResult |-> CANCEL]
             woken == [beh EXCEPT ![c] = r]
  <2>1. c \in Behaviours /\ CANCEL \in SubResults
    BY <1>1, <1>8 DEF EndStop, Stopping, StopLoops, SubResults
  <2>2. r \in Record /\ r.caller = beh[c].caller
    BY <1>0, <2>1 DEF Tables, Record
  <2>3. woken \in CallTables
    BY <1>0, <2>1, <2>2, OneRecord DEF CallersCall
  <2>4. beh' = (IF job = NoBeh THEN woken ELSE exit_behaviour(woken, c, CANCEL)) /\ job' = job
        /\ loop' = NoLoop
    BY <1>8 DEF EndStop
  <2> HIDE DEF woken, c
  <2>5. beh' \in CallTables
    BY <2>1, <2>3, <2>4, ExitKeeps
  <2> QED
    BY <1>0, <2>4, <2>5, Quiet
<1> QED
  BY <1>3, <1>4, <1>5, <1>6, <1>7, <1>8

LEMMA LoopKept == OrderInv /\ LoopInv /\ [ListNext]_listedVars => LoopInv'
<1> SUFFICES ASSUME OrderInv, LoopInv, [ListNext]_listedVars
             PROVE  LoopInv'
  OBVIOUS
<1>0. beh \in CallTables /\ job \in Pointers
  BY LoopKinds DEF LoopInv, CallTables
<1>1. CASE (\E b \in Behaviours : BeginInsert(b)) \/ PassEntry \/ LinkEntry
  <2>1. beh' \in CallTables /\ job' \in Pointers
    BY <1>0, <1>1 DEF BeginInsert, PassEntry, LinkEntry
  <2>2. loop' = NoLoop \/ loop'.at = "insert"
    BY <1>1 DEF BeginInsert, PassEntry, LinkEntry, OrderInv, ListTypeOK, InsertLoops
  <2>3. ListTypeOK'
    BY <1>1, InsertFirst, InsertSearches, InsertLinks DEF OrderInv
  <2>4. loop' \in {NoLoop} \cup InsertLoops
    BY <2>2, <2>3 DEF ListTypeOK
  <2> QED
    BY <2>1, <2>4, Quiet
<1>2. CASE BeginListWalk \/ (\E wish \in BOOLEAN : EndListWork(wish)) \/ WalkOn
  BY <1>2, WalksKept
<1>3. CASE OnRecords
  <2>1. beh' \in CallTables /\ job' \in Pointers
    BY <1>3, RecordsKept
  <2>2. loop' = NoLoop
    BY <1>3 DEF OnRecords, Ready
  <2> QED
    BY <2>1, <2>2, Quiet
<1>4. CASE (\E c \in Behaviours : BeginStop(c)) \/ VisitEntry \/ isInCallHierarchy \/ Climb
               \/ NextEntry \/ EndStop
  BY <1>4, StopsKept
<1>5. CASE UNCHANGED listedVars
  <2>1. UNCHANGED <<beh, job, listed, loop>>
    BY <1>5 DEF listedVars
  <2> QED
    BY <2>1 DEF LoopInv, LoopTypeOK, TypeOK, WalkOK, Leads, Stopping, StopAsked
<1> QED
  BY <1>1, <1>2, <1>3, <1>4, <1>5 DEF ListNext

-----------------------------------------------------------------------------
(* The instance speaks of the same functions on the records. *)
LEMMA SameFunctions ==
    /\ \A t, c : Control!deactivate_called_behaviours(t, c) = deactivate_called_behaviours(t, c)
    /\ \A t, from, to, mode :
          Control!switch_to_behaviour(t, from, to, mode) = switch_to_behaviour(t, from, to, mode)
    /\ \A t, b, s : Control!exit_behaviour(t, b, s) = exit_behaviour(t, b, s)
    /\ \A t, b : Control!deactivate_behaviour(t, b) = deactivate_behaviour(t, b)
    /\ \A t : Control!deactivateAllBehaviours(t) = deactivateAllBehaviours(t)
    /\ \A t, p : Control!ActiveBelow(t, p) = ActiveBelow(t, p)
    /\ Control!Modes = Modes
    /\ Control!SUCCESS = SUCCESS /\ Control!FAIL = FAIL /\ Control!CANCEL = CANCEL
    /\ Control!RUNNING = RUNNING
<1>1. \A t, c : Control!deactivate_called_behaviours(t, c) = deactivate_called_behaviours(t, c)
  BY DEF deactivate_called_behaviours, Control!deactivate_called_behaviours, SwitchedOff,
         Control!SwitchedOff, Called, Control!Called, Callees, Control!Callees, CANCEL, Control!CANCEL
<1>2. \A t, from, to, mode :
          Control!switch_to_behaviour(t, from, to, mode) = switch_to_behaviour(t, from, to, mode)
  BY DEF switch_to_behaviour, Control!switch_to_behaviour, Refused, Control!Refused, Busy,
         Control!Busy, Wake, Control!Wake, SuspendCaller, Control!SuspendCaller, FAIL, Control!FAIL,
         RUNNING, Control!RUNNING, BACKGR, Control!BACKGR
<1>3. \A t, b, s : Control!exit_behaviour(t, b, s) = exit_behaviour(t, b, s)
  BY DEF exit_behaviour, Control!exit_behaviour, Wake, Control!Wake
<1>4. \A t, b : Control!deactivate_behaviour(t, b) = deactivate_behaviour(t, b)
  BY DEF deactivate_behaviour, Control!deactivate_behaviour
<1>5. \A t : Control!deactivateAllBehaviours(t) = deactivateAllBehaviours(t)
  BY DEF deactivateAllBehaviours, Control!deactivateAllBehaviours, Normal, Control!Normal,
         PrioMin, Control!PrioMin, PrioMax, Control!PrioMax, CANCEL, Control!CANCEL
<1>6. \A t, p : Control!ActiveBelow(t, p) = ActiveBelow(t, p)
  BY DEF ActiveBelow, Control!ActiveBelow
<1>7. /\ Control!Modes = Modes
      /\ Control!SUCCESS = SUCCESS /\ Control!FAIL = FAIL /\ Control!CANCEL = CANCEL
      /\ Control!RUNNING = RUNNING
  BY DEF Modes, Control!Modes, SUCCESS, Control!SUCCESS, FAIL, Control!FAIL, CANCEL, Control!CANCEL,
         RUNNING, Control!RUNNING
<1> QED
  BY <1>1, <1>2, <1>3, <1>4, <1>5, <1>6, <1>7

(* The walk comes to the next active behaviour of the priorities. *)
LEMMA WalkFinds ==
    ASSUME TypeOK, NEW p \in Pointers, NEW limit \in Int, Leads(p, limit),
           p = NoBeh \/ beh[p].active
    PROVE  IF p = NoBeh THEN ActiveBelow(beh, limit) = {} ELSE p \in ActiveBelow(beh, limit)
<1>1. CASE p = NoBeh
  BY <1>1 DEF Leads, ActiveBelow
<1>2. CASE p # NoBeh
  BY <1>2 DEF Leads, ActiveBelow, Pointers
<1> QED
  BY <1>1, <1>2

LEMMA WalkOnIsWalk ==
    ASSUME OrderInv, LoopInv, WalkOn
    PROVE  [Control!Next]_Control!vars
<1>1. /\ loop.at = "walk" /\ loop \in WalkLoops /\ TypeOK /\ beh \in Tables /\ job \in Pointers
      /\ Leads(loop.ptr, IF job = NoBeh THEN 256 ELSE prio[job]) /\ UNCHANGED beh
  BY LoopKinds DEF WalkOn, LoopInv, LoopTypeOK, WalkOK
<1>2. Outside = beh
  BY <1>1 DEF Outside, Stopping
<1>3. CASE loop.ptr # NoBeh /\ ~beh[loop.ptr].active
  <2>1. job' = job /\ loop'.at = "walk"
    BY <1>3 DEF WalkOn, WalkFrom
  <2>2. Outside' = beh
    BY <1>1, <2>1 DEF Outside, Stopping
  <2> QED
    BY <1>2, <2>1, <2>2 DEF Control!vars
<1>4. CASE loop.ptr = NoBeh \/ beh[loop.ptr].active
  <2> DEFINE p == loop.ptr
             limit == IF job = NoBeh THEN 256 ELSE prio[job]
  <2>1. job' = p /\ loop' = NoLoop /\ p \in Pointers
    BY <1>1, <1>4 DEF WalkOn, WalkLoops
  <2>2. Outside' = beh
    BY <1>1, <2>1 DEF Outside, Stopping, NoLoop
  <2>3. limit \in Int
    BY <1>1, PrioAssumption DEF Pointers
  <2> HIDE DEF p, limit
  <2>4. IF p = NoBeh THEN ActiveBelow(beh, limit) = {} ELSE p \in ActiveBelow(beh, limit)
    BY <1>1, <1>4, <2>1, <2>3, WalkFinds DEF p, limit
  <2>5. CASE job = NoBeh /\ p = NoBeh
    BY <1>2, <2>1, <2>2, <2>5 DEF Control!vars
  <2>6. CASE job = NoBeh /\ p # NoBeh
    <3>1. limit = 256 /\ ActiveBelow(beh, 256) # {} /\ job' \in ActiveBelow(beh, 256)
      BY <2>1, <2>4, <2>6 DEF limit
    <3>2. Control!BeginWalk
      BY <1>2, <2>2, <2>6, <3>1, SameFunctions DEF Control!BeginWalk, Control!Walk
    <3> QED
      BY <3>2 DEF Control!Next
  <2>7. CASE job # NoBeh
    <3>1. limit = prio[job]
      BY <2>7 DEF limit
    <3>2. IF ActiveBelow(beh, prio[job]) = {} THEN job' = NoBeh ELSE job' \in ActiveBelow(beh, prio[job])
      BY <2>1, <2>4, <3>1
    <3>3. Control!EndWork(FALSE)
      BY <1>2, <2>2, <2>7, <3>2, SameFunctions DEF Control!EndWork, Control!Walk
    <3> QED
      BY <3>3 DEF Control!Next
  <2> QED
    BY <2>5, <2>6, <2>7
<1> QED
  BY <1>3, <1>4

LEMMA EndStopIsStop ==
    ASSUME OrderInv, LoopInv, EndStop
    PROVE  Control!Next
<1> DEFINE c == loop.caller
           t == loop.before
           woken == [beh EXCEPT ![c] = [active |-> TRUE, caller |-> @.caller, subResult |-> CANCEL]]
<1>1. /\ loop.at = "visit" /\ loop.ptr = NoBeh /\ loop' = NoLoop /\ job' = job
      /\ beh' = IF job = NoBeh THEN woken ELSE exit_behaviour(woken, c, CANCEL)
  BY DEF EndStop
<1>2. Stopping /\ StopTypes(beh, loop) /\ StopOK(beh, loop) /\ StopAsked /\ c \in Behaviours
  BY <1>1, LoopKinds DEF LoopInv, Stopping, StopLoops
<1>3. woken = deactivate_called_behaviours(t, c)
  BY <1>1, <1>2, StopEnds
<1>4. Outside = t /\ Outside' = beh'
  BY <1>1, <1>2 DEF Outside, Stopping, NoLoop
<1> HIDE DEF woken, t, c
<1>5. CASE job = NoBeh
  <2>1. Control!StopCallees(c)
    BY <1>1, <1>3, <1>4, <1>5, SameFunctions DEF Control!StopCallees
  <2> QED
    BY <1>2, <2>1 DEF Control!Next
<1>6. CASE job # NoBeh
  <2>1. c \in Cancelled /\ (t[c].active \/ t[c].subResult = RUNNING)
    BY <1>2, <1>6 DEF StopAsked, t, c
  <2>2. Control!Cancel(c)
    BY <1>1, <1>3, <1>4, <1>6, <2>1, SameFunctions DEF Control!Cancel
  <2> QED
    BY <1>2, <2>2 DEF Control!Next
<1> QED
  BY <1>5, <1>6

LEMMA StepImplements == OrderInv /\ LoopInv /\ [ListNext]_listedVars => [Control!Next]_Control!vars
<1> SUFFICES ASSUME OrderInv, LoopInv, [ListNext]_listedVars
             PROVE  [Control!Next]_Control!vars
  OBVIOUS
<1>1. CASE (\E b \in Behaviours : BeginInsert(b)) \/ PassEntry \/ LinkEntry \/ BeginListWalk
  <2>1. UNCHANGED <<beh, job>> /\ ~Stopping
    BY <1>1 DEF BeginInsert, PassEntry, LinkEntry, BeginListWalk, WalkFrom, Ready, Stopping, NoLoop
  <2>2. loop'.at \notin {"visit", "hierarchy", "climb"}
    BY <1>1 DEF BeginInsert, PassEntry, LinkEntry, BeginListWalk, WalkFrom, Ready, NoLoop,
                OrderInv, ListTypeOK, InsertLoops
  <2> QED
    BY <2>1, <2>2 DEF Control!vars, Outside, Stopping
<1>2. ASSUME NEW wish \in BOOLEAN, EndListWork(wish)
      PROVE  [Control!Next]_Control!vars
  <2>1. loop = NoLoop /\ job # NoBeh /\ UNCHANGED beh
    BY <1>2 DEF EndListWork, Ready
  <2>2. CASE wish
    <3>1. Outside = beh /\ Outside' = beh /\ job' = NoBeh
      BY <1>2, <2>1, <2>2 DEF EndListWork, Outside, Stopping, NoLoop
    <3>2. Control!EndWork(TRUE)
      BY <2>1, <3>1 DEF Control!EndWork
    <3> QED
      BY <3>2 DEF Control!Next
  <2>3. CASE ~wish
    <3>1. Outside = beh /\ Outside' = beh /\ job' = job
      BY <1>2, <2>1, <2>3 DEF EndListWork, WalkFrom, Outside, Stopping, NoLoop
    <3> QED
      BY <3>1 DEF Control!vars
  <2> QED
    BY <2>2, <2>3
<1>3. CASE WalkOn
  BY <1>3, WalkOnIsWalk
<1>4. CASE OnRecords
  <2>1. Outside = beh /\ Outside' = beh'
    BY <1>4 DEF OnRecords, Ready, Outside, Stopping, NoLoop
  <2>2. ASSUME NEW to \in Behaviours \cup {Unlisted}, NEW mode \in Modes, Call(to, mode)
        PROVE  Control!Next
    <3>1. Control!Call(to, mode)
      BY <2>1, <2>2, SameFunctions DEF Call, Control!Call
    <3> QED
      BY <3>1, SameFunctions DEF Control!Next
  <2>3. ASSUME NEW state \in {SUCCESS, FAIL}, Return(state)
        PROVE  Control!Next
    <3>1. Control!Return(state)
      BY <2>1, <2>3, SameFunctions DEF Return, Control!Return
    <3> QED
      BY <3>1, SameFunctions DEF Control!Next
  <2>4. ASSUME NEW t \in Behaviours, Deactivate(t)
        PROVE  Control!Next
    <3>1. Control!Deactivate(t)
      BY <2>1, <2>4, SameFunctions DEF Deactivate, Control!Deactivate
    <3> QED
      BY <3>1 DEF Control!Next
  <2>5. ASSUME NEW to \in Startable, NEW mode \in Modes, Start(to, mode)
        PROVE  Control!Next
    <3>1. Control!Start(to, mode)
      BY <2>1, <2>5, SameFunctions DEF Start, Control!Start
    <3> QED
      BY <3>1, SameFunctions DEF Control!Next
  <2>6. CASE StopAll
    <3>1. Control!StopAll
      BY <2>1, <2>6, SameFunctions DEF StopAll, Control!StopAll
    <3> QED
      BY <3>1 DEF Control!Next
  <2> QED
    BY <1>4, <2>2, <2>3, <2>4, <2>5, <2>6 DEF OnRecords
<1>5. ASSUME NEW c \in Behaviours, BeginStop(c)
      PROVE  [Control!Next]_Control!vars
  <2>1. Outside = beh /\ Outside' = beh /\ job' = job
    BY <1>5 DEF BeginStop, Ready, Outside, Stopping, NoLoop
  <2> QED
    BY <2>1 DEF Control!vars
<1>6. CASE VisitEntry \/ isInCallHierarchy \/ Climb \/ NextEntry
  <2>1. Stopping /\ loop \in StopLoops /\ job' = job
    BY <1>6, LoopKinds DEF LoopInv, Stopping, VisitEntry, isInCallHierarchy, Climb, NextEntry
  <2>2. loop'.at \in {"visit", "hierarchy", "climb"} /\ loop'.before = loop.before
    <3>1. CASE VisitEntry
      BY <2>1, <3>1 DEF VisitEntry, StopLoops
    <3>2. CASE isInCallHierarchy
      BY <2>1, <3>2 DEF isInCallHierarchy, StopLoops
    <3>3. CASE Climb
      BY <2>1, <3>3 DEF Climb, StopLoops
    <3>4. CASE NextEntry
      BY <2>1, <3>4 DEF NextEntry, StopLoops
    <3> QED
      BY <1>6, <3>1, <3>2, <3>3, <3>4
  <2>3. Outside' = Outside
    BY <2>1, <2>2 DEF Outside, Stopping
  <2> QED
    BY <2>1, <2>3 DEF Control!vars
<1>7. CASE EndStop
  BY <1>7, EndStopIsStop
<1>8. CASE UNCHANGED listedVars
  <2>1. UNCHANGED <<beh, job, loop>>
    BY <1>8 DEF listedVars
  <2> QED
    BY <2>1 DEF Control!vars, Outside, Stopping
<1> QED
  BY <1>1, <1>2, <1>3, <1>4, <1>5, <1>6, <1>7, <1>8 DEF ListNext

(* The inductive invariant of the list and of the loops over it. *)
THEOREM ListInvariant == ListSpec => []ListInv
<1>1. ListInit => ListInv
  BY OrderStarts, LoopStarts DEF ListInv
<1>2. ListInv /\ [ListNext]_listedVars => ListInv'
  BY OrderKept, LoopKept DEF ListInv
<1> QED
  BY <1>1, <1>2, PTL DEF ListSpec

(* bot_behave() and deactivate_called_behaviours() go over the list entry   *)
(* by entry; what they do is the walk by priorities and the stop of all     *)
(* those below a behaviour that BehaviourControl speaks of, whatever the    *)
(* behaviours, their priorities and their calls.                            *)
THEOREM LoopsImplementControl == ListSpec => ImplementsControl
<1>1. ListInit => Control!Init
  BY DEF ListInit, Init, Control!Init, Outside, Stopping, NoLoop, SUCCESS, Control!SUCCESS
<1>2. ListInv /\ [ListNext]_listedVars => [Control!Next]_Control!vars
  BY StepImplements DEF ListInv
<1> QED
  BY <1>1, <1>2, ListInvariant, PTL DEF ListSpec, ImplementsControl, Control!Spec
=============================================================================
