---------------------------------- MODULE UBasic ----------------------------------
(***************************************************************************)
(* The Basic interpreter of the robot (ubasic.c, behaviour_ubasic.c): one   *)
(* statement per round, a stack of return addresses, one of loops, a cache  *)
(* of the lines that were jumped to, and subprograms in files of their own  *)
(* that replace the text of the program while they run.  A program is a     *)
(* sequence of lines; what a condition says and when a loop has counted to  *)
(* its end is left open.  Return addresses, loops and cached lines are      *)
(* places in a text; a loop does not know in which one.                     *)
(***************************************************************************)
EXTENDS Integers, Sequences, SequencesExt, FiniteSets, FiniteSetsExt

CONSTANTS
    Texts,                          \* the files: functions from their names to programs
    Main,                           \* the file the user starts
    MAX_GOSUB_STACK_DEPTH,
    MAX_FOR_STACK_DEPTH,
    MAX_LINENUM_CACHE_DEPTH

VARIABLE ub

(* A line: num is its number or 0, maybe the statement stands behind "IF". *)
Line(num, op, arg) == [num |-> num, op |-> op, arg |-> arg, maybe |-> FALSE]
If(line) == [line EXCEPT !.maybe = TRUE]

UBasicInit ==
    \E texts \in Texts :
        ub = [texts |-> texts, proc |-> Main, line |-> 1, active |-> TRUE, ended |-> FALSE, waits |-> FALSE,
              gosubs |-> <<>>, loops |-> <<>>, cache |-> <<>>,
              places |-> <<>>,      \* where the open calls were made
              torn |-> FALSE]       \* a loop was not ended in the call it was begun in

Text == ub.texts[ub.proc]
Here == Text[ub.line]
After == ub.line + 1

Goes(r, line) == [r EXCEPT !.line = line]

(* ubasic_break: the interpreter ends in this round. *)
Breaks(r) == [r EXCEPT !.ended = TRUE, !.active = FALSE]

(* ubasic_run, ubasic_finished, bot_ubasic_behaviour: after the last line    *)
(* the behaviour returns.                                                   *)
Runs == ub.active /\ ~ub.waits
Statement(op) == Runs /\ ub.line <= Len(Text) /\ Here.op = op
Ran(r) == ub' = [r EXCEPT !.active = @ /\ ~r.ended /\ r.line <= Len(r.texts[r.proc])]

-----------------------------------------------------------------------------
(* jump_linenum.  Mutant first: the cache does not tell the files apart. *)
CachedAnywhere(r, num) == {e \in Range(r.cache) : e.num = num}
Cached(r, num) == {e \in Range(r.cache) : e.num = num /\ e.proc = r.proc}

Found(r, num) == {l \in DOMAIN r.texts[r.proc] : r.texts[r.proc][l].num = num}

jump_linenum(r, num) ==
    LET text == r.texts[r.proc]
        line == IF Found(r, num) = {} THEN Len(text) + 1 ELSE Min(Found(r, num))
        known == [r EXCEPT !.cache = IF Len(@) < MAX_LINENUM_CACHE_DEPTH
                                     THEN Append(@, [num |-> num, proc |-> r.proc, line |-> line]) ELSE @]
    IN  IF Cached(r, num) # {} THEN Goes(r, (CHOOSE e \in Cached(r, num) : TRUE).line)
        ELSE IF Found(r, num) # {} THEN Goes(known, line)
        ELSE Breaks(known)

goto_statement == Statement("goto") /\ Ran(jump_linenum(ub, Here.arg))

(* switch_proc: the file may be missing. *)
switch_proc(r, name) == {Breaks(r), [r EXCEPT !.proc = name, !.line = 1]}

Called(r) == [r EXCEPT !.gosubs = Append(@, [proc |-> r.proc, line |-> After]),
                       !.places = Append(@, [proc |-> r.proc, line |-> After, loops |-> Len(r.loops)])]

(* Mutant of gosub_statement: without the test of its depth. *)
GosubUnbounded == Statement("gosub") /\ Ran(jump_linenum(Called(ub), Here.arg))

gosub_statement ==
    /\ Statement("gosub")
    /\ IF Len(ub.gosubs) < MAX_GOSUB_STACK_DEPTH
       THEN Ran(jump_linenum(Called(ub), Here.arg))
       ELSE Ran(Breaks(ub))

(* gosub_statement, with the name of a file. *)
GosubFile ==
    /\ Statement("file")
    /\ IF Len(ub.gosubs) < MAX_GOSUB_STACK_DEPTH
       THEN \E r \in switch_proc(Called(ub), Here.arg) : Ran(r)
       ELSE Ran(Breaks(ub))

return_statement ==
    /\ Statement("return")
    /\ IF ub.gosubs = <<>> THEN Ran(Breaks(ub))
       ELSE LET to == Last(ub.gosubs)
                left == [ub EXCEPT !.gosubs = Front(@), !.places = Front(@),
                                   !.torn = @ \/ Len(ub.loops) > Last(ub.places).loops]
            IN  \E r \in IF to.proc = ub.proc THEN {left} ELSE switch_proc(left, to.proc) :
                    Ran(Goes(r, to.line))

-----------------------------------------------------------------------------
for_statement ==
    /\ Statement("for")
    /\ IF Len(ub.loops) < MAX_FOR_STACK_DEPTH
       THEN Ran([Goes(ub, After) EXCEPT !.loops = Append(@, [var |-> Here.arg, line |-> After, proc |-> ub.proc])])
       ELSE Ran(Breaks(ub))

OwnLoop == ub.loops # <<>> /\ Last(ub.loops).var = Here.arg

Foreign == ub.places # <<>> /\ Len(ub.loops) <= Last(ub.places).loops

(* A place of another text is anywhere in this one. *)
Behind(loop) == IF loop.proc = ub.proc THEN {loop.line} ELSE 1 .. Len(Text)

next_statement ==
    /\ Statement("next")
    /\ \/ OwnLoop /\ \E line \in Behind(Last(ub.loops)) : Ran([Goes(ub, line) EXCEPT !.torn = @ \/ Foreign])
       \/ OwnLoop /\ Ran([Goes(ub, After) EXCEPT !.loops = Front(@), !.torn = @ \/ Foreign])
       \/ ~OwnLoop /\ Ran(Goes(ub, After))

end_statement == Statement("end") /\ Ran(Breaks(ub))

wait_statement == Statement("wait") /\ Ran([Goes(ub, After) EXCEPT !.waits = TRUE])

(* LET, REM, PRINT, CALL *)
Other == Statement("other") /\ Ran(Goes(ub, After))

(* if_statement, where the condition does not hold. *)
if_statement == Runs /\ ub.line <= Len(Text) /\ Here.maybe /\ Ran(Goes(ub, After))

WaitIsOver == ub.waits /\ ub' = [ub EXCEPT !.waits = FALSE]

(* bot_ubasic_break comes between two rounds: one more statement is run. *)
bot_ubasic_break == ub.active /\ ~ub.ended /\ ub' = [ub EXCEPT !.ended = TRUE]

(* bot_ubasic: the text stays where the last run left it; a wait goes on. *)
bot_ubasic ==
    /\ ~ub.active
    /\ ub' = [ub EXCEPT !.active = TRUE, !.ended = FALSE, !.line = 1, !.gosubs = <<>>, !.loops = <<>>,
                        !.cache = <<>>, !.places = <<>>, !.torn = FALSE]

(* A program is loaded by a command or a key, which stops the one that runs. *)
bot_ubasic_load_file == ub.proc # Main /\ ub' = [ub EXCEPT !.proc = Main, !.line = 1, !.active = FALSE]

UBasicNext ==
    \/ goto_statement \/ gosub_statement \/ GosubFile \/ return_statement
    \/ for_statement \/ next_statement \/ end_statement \/ wait_statement \/ Other \/ if_statement
    \/ WaitIsOver \/ bot_ubasic_break \/ bot_ubasic \/ bot_ubasic_load_file

-----------------------------------------------------------------------------
UBasicTypeOK ==
    /\ ub.proc \in DOMAIN ub.texts /\ (ub.active => ub.line \in DOMAIN Text)
    /\ Len(ub.gosubs) <= MAX_GOSUB_STACK_DEPTH /\ Len(ub.loops) <= MAX_FOR_STACK_DEPTH
    /\ Len(ub.cache) <= MAX_LINENUM_CACHE_DEPTH

(* A jump arrives at the line of that number in the file that runs, from    *)
(* the cache as well as by searching; a return arrives behind its call, in  *)
(* the file of the call; the end of a loop goes back into the file of the   *)
(* loop, if calls and loops are nested (ubasic.c:434-773).                  *)
JumpFinds ==
    /\ goto_statement \/ gosub_statement =>
          \/ ub'.ended
          \/ Here.maybe /\ ub'.line = After
          \/ (ub'.proc = ub.proc /\ Text'[ub'.line].num = Here.arg)
    /\ return_statement /\ ~ub'.ended =>
          ub'.proc = Last(ub.places).proc /\ ub'.line = Last(ub.places).line
    /\ next_statement /\ OwnLoop /\ ~ub.torn /\ ~Foreign => Last(ub.loops).proc = ub.proc
=============================================================================
