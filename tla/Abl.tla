----------------------------------- MODULE Abl -----------------------------------
(***************************************************************************)
(* The interpreter of ABL, the language of the robot's scripts              *)
(* (behaviour_abl.c).  A program is a sequence of statements, one per line, *)
(* read forward and backward; the bits of one byte remember the conditions  *)
(* of the open ifs, two counters the open loops, and a ring of ABL_STACK    *)
(* words holds what is pushed.  The statements between the lines are looked *)
(* at one by one; loading the next 512 bytes and the parameters' text are   *)
(* left out.                                                                *)
(***************************************************************************)
EXTENDS Integers, Sequences, FiniteSets, FiniteSetsExt

CONSTANTS
    Programs,       \* the scripts, behind the comment of their first line
    ABL_STACK       \* ABL_STACK_SIZE

VARIABLE abl

FOR_DEPTH == 2

AblInit ==
    \E program \in Programs :
        abl = [active |-> TRUE, program |-> program, ip |-> 0,
               if_state |-> 0, for_state |-> <<0, 0>>, loops |-> 0,
               stack |-> [i \in 0 .. ABL_STACK - 1 |-> 0], sp |-> ABL_STACK - 1,
               met |-> [i \in DOMAIN program |-> FALSE],   \* the condition of the if, when it was reached
               rounds |-> [i \in DOMAIN program |-> 0]]    \* of the loop, since it was entered

(* The statement at ip + 1 is the next to be fetched. *)
Next_ == abl.ip + 1
Lines == DOMAIN abl.program
Op(i) == abl.program[i].op
Here(op) == abl.active /\ Next_ \in DOMAIN abl.program /\ Op(Next_) = op
Param == abl.program[Next_].n
Top == abl.stack[abl.sp]

Beyond == Len(abl.program)      \* a search that finds nothing ends at the end of the program

First(i, places) == LET found == {j \in places : j > i} IN IF found = {} THEN Beyond ELSE Min(found)
Last(i, places) == LET found == {j \in places : j < i} IN IF found = {} THEN Beyond ELSE Max(found)
Between(i, j, op) == Cardinality({k \in i + 1 .. j - 1 : Op(k) = op})

(* No if between i and j is open. *)
Level(i, j, begin, end) == Between(i, j, begin) = Between(i, j, end)
EndOf(i) == First(i, {j \in Lines : Op(j) = "fi" /\ Level(i, j, "if", "fi")})
ElseOrEndOf(i) == First(i, {j \in Lines : Op(j) \in {"else", "fi"} /\ Level(i, j, "if", "fi")})
ForOf(i) == Last(i, {j \in Lines : Op(j) = "for" /\ Level(j, i, "for", "endf")})

Going(ip) == [abl EXCEPT !.ip = ip]
Pushed(r, value) == LET sp == (r.sp + 1) % ABL_STACK IN [r EXCEPT !.sp = sp, !.stack[sp] = value]

-----------------------------------------------------------------------------
(* The repaired if_handler: the fi() it skips to closes the if. *)
IfCloses ==
    /\ Here("if")
    /\ LET met == Top = Param
           to == ElseOrEndOf(Next_)
       IN  abl' = [Going(IF met THEN Next_ ELSE to) EXCEPT
                      !.if_state = CASE met -> (2 * @ + 1) % 256
                                     [] ~met /\ Op(to) = "else" -> (2 * @) % 256
                                     [] ~met /\ Op(to) # "else" -> @,
                      !.met[Next_] = met]

if_handler ==
    /\ Here("if")
    /\ LET met == Top = Param
       IN  abl' = [Going(IF met THEN Next_ ELSE ElseOrEndOf(Next_)) EXCEPT
                      !.if_state = (2 * @ + (IF met THEN 1 ELSE 0)) % 256,
                      !.met[Next_] = met]

(* Mutant of else_handler: it skips to the next fi(), of whatever if. *)
ElseToNextFi ==
    /\ Here("else")
    /\ abl' = Going(IF abl.if_state % 2 = 1 THEN First(Next_, {j \in Lines : Op(j) = "fi"}) ELSE Next_)

else_handler ==
    /\ Here("else")
    /\ abl' = Going(IF abl.if_state % 2 = 1 THEN EndOf(Next_) ELSE Next_)

fi_handler == Here("fi") /\ abl' = [Going(Next_) EXCEPT !.if_state = @ \div 2]

for_handler ==
    /\ Here("for")
    /\ abl' = [Going(Next_) EXCEPT !.loops = @ + 1,
                                   !.for_state = IF abl.loops < FOR_DEPTH THEN [@ EXCEPT ![abl.loops + 1] = Param] ELSE @,
                                   !.rounds[Next_] = 0]

endf_handler ==
    /\ Here("endf")
    /\ LET k == abl.loops
           left == (abl.for_state[k] - 1) % 256
           own == ForOf(Next_)
           counted == [abl EXCEPT !.ip = Next_, !.rounds[own] = (@ + 1) % 256]
       IN  \/ k > FOR_DEPTH /\ abl' = [counted EXCEPT !.loops = @ - 1]
           \/ k <= FOR_DEPTH /\ left = 0 /\ abl' = [counted EXCEPT !.for_state[k] = 0, !.loops = @ - 1]
           \/ k <= FOR_DEPTH /\ left # 0
              /\ abl' = [counted EXCEPT !.ip = own, !.for_state[k] = IF left = 255 THEN 0 ELSE left]

jump_handler ==
    /\ Here("jmp")
    /\ LET labels == {j \in Lines : Op(j) = "lbl" /\ abl.program[j].n = (IF Param < 0 THEN -Param ELSE Param)}
       IN  abl' = Going(IF Param < 0 THEN Last(Next_, labels) ELSE First(Next_, labels))

lbl == Here("lbl") /\ abl' = Going(Next_)

abl_push == Here("psh") /\ abl' = Pushed(Going(Next_), Param)

pop_handler == Here("pop") /\ abl' = [Going(Next_) EXCEPT !.sp = (@ - Param) % ABL_STACK]

(* The remote call pushes its result when it is done. *)
bot_remotecall ==
    /\ Here("call")
    /\ \E result \in {0, 1} : abl' = Pushed(Going(Next_), result)

(* An unknown function ends the program. *)
Unknown == Here("call") /\ abl' = [Going(Next_) EXCEPT !.active = FALSE]

(* The end of the text. *)
End == abl.active /\ abl.ip = Len(abl.program) /\ abl' = [abl EXCEPT !.active = FALSE]

bot_abl ==
    /\ ~abl.active
    /\ abl' = [abl EXCEPT !.active = TRUE, !.ip = 0, !.if_state = 0, !.loops = 0, !.sp = ABL_STACK - 1]

AblNext ==
    \/ if_handler \/ else_handler \/ fi_handler
    \/ for_handler \/ endf_handler
    \/ jump_handler \/ lbl
    \/ abl_push \/ pop_handler
    \/ bot_remotecall \/ Unknown \/ End \/ bot_abl

-----------------------------------------------------------------------------
AblTypeOK ==
    /\ abl.ip \in 0 .. Len(abl.program) /\ abl.if_state \in 0 .. 255
    /\ abl.for_state \in [1 .. FOR_DEPTH -> 0 .. 255] /\ abl.loops \in Nat
    /\ abl.sp \in 0 .. ABL_STACK - 1

Plain(program) == \A i \in DOMAIN program : program[i].op \notin {"jmp"}

(* "statements between if(X) and else() / fi() are executed, iff top of      *)
(* stack == X" (behaviour_abl.c:39): a call that is next belongs, of each   *)
(* if around it, to the branch that the condition asked for when that if    *)
(* was reached.                                                             *)
BranchesAreChosen ==
    Here("call") /\ Plain(abl.program) =>
        \A i \in 1 .. abl.ip :
            Op(i) = "if" /\ EndOf(i) > Next_ => (abl.met[i] <=> Next_ < ElseOrEndOf(i))

(* "for(4) X endf() executes X 4 times, for(0) := while(1)"                  *)
(* (behaviour_abl.c:41): whoever has come behind the end of a loop has run   *)
(* its body that often, loops within it and its own endings included, as    *)
(* long as no more than two are nested.                                     *)
LoopsRepeat ==
    abl.active /\ Plain(abl.program) /\ abl.ip > 0 /\ Op(abl.ip) = "endf"
        => LET i == ForOf(abl.ip) IN abl.loops < FOR_DEPTH => abl.rounds[i] = abl.program[i].n
=============================================================================
