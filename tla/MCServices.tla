----------------------------- MODULE MCServices -----------------------------
(***************************************************************************)
(* What the behaviours rest on: the map, recorded ways, the other robot,    *)
(* the link to the simulator, and the interpreters with the transfer of     *)
(* their programs.  Each part keeps its state to itself, in s; recorded     *)
(* ways, map, other robot, motors and sensors have variables of their own.  *)
(***************************************************************************)
EXTENDS Motors, Sensors, BotMap, BotToBot, DriveStack, FiniteSets, FiniteSetsExt

CONSTANTS robot1, robot2

VARIABLES
    part,   \* which of the modules below runs
    s       \* the state of the part

hardware == <<mo, sn, odo, looked, bus>>
map == <<mp, field>>
ways == <<beh, st>>
vars == <<part, s, bb, ways, map, hardware>>

Link == INSTANCE CommandLink WITH ln <- s, FRAME <- 4, Lookalikes <- {}, Payloads <- {0, 2},
                                  MAX_FRAMES <- 4, LOSSES <- 3
Load == INSTANCE ProgramLoad WITH load <- s, SD_BLOCK_SIZE <- 2, PIECE <- 1, Lengths <- {2, 3},
                                  FAULTS <- 2, MAX_PROGRAMS <- 2,
                                  SPM_PAGESIZE <- 4, FLASHEND <- 11, Firmware <- <<70, 101, 69, 5, 83, 6>>,
                                  TRIES <- 8, RESETS <- 1

-----------------------------------------------------------------------------
(* ABL scripts: all that can be put together from six statements with their  *)
(* brackets, and three with jumps and with loops within loops.              *)
LENGTH == 6     \* of the scripts

Statement(op, n) == [op |-> op, n |-> n]
One(op, n) == <<Statement(op, n)>>

Scripts[n \in 0 .. LENGTH] ==
    LET Pairs == {x \in (0 .. n - 3) \X (0 .. n - 3) : x[1] + x[2] <= n - 3}
    IN  IF n = 0 THEN {<<>>}
        ELSE {One(op, IF op = "psh" THEN 1 ELSE 0) \o q : op \in {"call", "psh"}, q \in Scripts[n - 1]}
             \cup UNION {{One("if", x) \o p \o One("fi", 0) \o q :
                            p \in Scripts[i], q \in Scripts[n - 2 - i], x \in {0, 1}} : i \in 0 .. n - 2}
             \cup UNION {{One("for", 2) \o p \o One("endf", 0) \o q :
                            p \in Scripts[i], q \in Scripts[n - 2 - i]} : i \in 0 .. n - 2}
             \cup UNION {{One("if", x) \o p \o One("else", 0) \o q \o One("fi", 0) \o r :
                            p \in Scripts[i[1]], q \in Scripts[i[2]],
                            r \in Scripts[n - 3 - i[1] - i[2]], x \in {0, 1}} : i \in Pairs}

Between(p, i, j, op) == Cardinality({k \in i + 1 .. j - 1 : p[k].op = op})
SameLevel(p, i, j) == Between(p, i, j, "if") = Between(p, i, j, "fi")
FiOf(p, i) == Min({j \in i + 1 .. Len(p) : p[j].op = "fi" /\ SameLevel(p, i, j)})
ElseOf(p, i) == {j \in i + 1 .. FiOf(p, i) : p[j].op = "else" /\ SameLevel(p, i, j)}
(* An if within a then-branch that has an else has one too; without it a     *)
(* false condition leaves its bit behind for the outer else to find.        *)
Sound(p) ==
    \A i, k \in DOMAIN p :
        /\ p[i].op = "if" /\ p[k].op = "if" /\ i < k
        /\ \E e \in ElseOf(p, i) : k < e
        => ElseOf(p, k) # {}

WithJumps ==
    {One("pop", 1) \o One("lbl", 1) \o One("call", 0) \o One("jmp", -1),
     One("for", 0) \o One("jmp", 1) \o One("call", 0) \o One("lbl", 1) \o One("endf", 0),
     One("for", 2) \o One("for", 1) \o One("for", 3) \o One("call", 0)
        \o One("endf", 0) \o One("endf", 0) \o One("endf", 0)}

Script == INSTANCE Abl WITH
           abl <- s, ABL_STACK <- 2,
           Programs <- {p \in Scripts[LENGTH] : Sound(p)} \cup WithJumps
AnyScript == INSTANCE Abl WITH abl <- s, ABL_STACK <- 2, Programs <- Scripts[LENGTH]

-----------------------------------------------------------------------------
(* uBasic programs: a main text of three lines numbered 10, 20, 30 and an   *)
(* external one of two lines numbered 20, 10.                               *)
Line(op, arg) == [num |-> 0, op |-> op, arg |-> arg, maybe |-> FALSE]
If(line) == [line EXCEPT !.maybe = TRUE]
MainLines == {Line("gosub", 20), Line("file", "sub"), If(Line("goto", 10)),
              Line("for", "i"), Line("next", "i"), Line("end", 0), Line("wait", 0)}
SubLines == {If(Line("goto", 20)), Line("next", "i"), Line("return", 0), Line("other", 0)}
Texts == {[main |-> [i \in 1 .. 3 |-> [m[i] EXCEPT !.num = 10 * i]],
           sub |-> [i \in 1 .. 2 |-> [n[i] EXCEPT !.num = 30 - 10 * i]]] :
             m \in [1 .. 3 -> MainLines], n \in [1 .. 2 -> SubLines]}

Basic == INSTANCE UBasic WITH
              ub <- s, Texts <- Texts, Main <- "main", MAX_GOSUB_STACK_DEPTH <- 2,
              MAX_FOR_STACK_DEPTH <- 2, MAX_LINENUM_CACHE_DEPTH <- 2

(* Basic statements: expressions of up to three operands, conditions with     *)
(* branches, and loops, with variables i and n, and a subprogram.           *)
N(k) == <<"num", <<10, k>>>>
n_ == <<"var", "n">>
LetVar(v, e) == <<"let", v, e>>
Prints(e) == <<"print", e, N(1)>>
Pairs_ == {<<op, x, N(2)>> : op \in {"+", "-", "&", "|", "xor", "shl", "shr", "*", "/", "mod"}, x \in {N(7), <<"neg", N(7)>>}}
Expressions ==
    {n_, <<"vpeek", "sensDistL">>} \cup {<<op, n_>> : op \in {"neg", "abs", "not"}} \cup Pairs_
    \cup {<<op, x, N(2)>> : op \in {"+", "-", "&", "|", "xor", "shl", "shr", "*", "/", "mod"}, x \in Pairs_}
    \cup {<<op, N(9), x>> : op \in {"+", "-", "&", "|", "xor", "*"}, x \in Pairs_}
    \cup {<<"num", d>> : d \in {<<10, 3, 2, 7, 6, 7>>, <<10, 6, 5, 5, 3, 5>>, <<16, 15, 15, 15, 15>>, <<2, 1, 0, 1>>}}
Conditions ==
    {<<<<"or", op, n_, N(2)>>>> : op \in {"<", ">", "=", "<=", ">=", "<>"}}
    \cup {<<<<"or", "=", n_, N(k)>>, <<link, "<", n_, N(2)>>, <<"and", ">", n_, N(0)>>>> : link \in {"and", "or"}, k \in {1, 3}}
Statements == {Prints(N(5)), LetVar("i", N(3)), <<"gosub">>, <<"rc", "bot_turn", <<N(4), n_>>>>,
               <<"call", "bot_speed", <<N(1), N(2)>>>>}
Branches == {<<"if", c, x, y>> : c \in Conditions, x \in {Prints(N(6)), <<"gosub">>}, y \in Statements}
Ifs == Branches \cup {<<"short", c, x>> : c \in Conditions, x \in Statements}
       \cup {<<"if", c, Prints(N(8)), x>> : c \in Conditions, x \in Branches}
Bodies == {<<Prints(<<"var", "i">>)>>, <<>>, <<<<"for", "n", N(1), N(2), 1, <<Prints(n_)>>>>, <<"gosub">>>>}
BasicLoops == {<<"for", "i", N(x[1]), N(x[2]), step, body>> :
                 x \in {0, 3} \X {0, 3}, step \in {1, 2, -1, -2}, body \in Bodies}
A(e) == <<"at", "a", e>>
ReadLists == {<<n_>>, <<n_, <<"var", "i">>>>, <<A(N(2)), n_, A(<<"-", N(2), N(1)>>)>>}
DataPrograms ==
    {before \o <<<<"dim", "a", N(3)>>, <<"read", x>>>> \o middle \o <<<<"read", y>>, Prints(n_), Prints(A(N(1)))>>
     \o <<<<"rem">>, <<"data", <<2, 1, -5>>>>, <<"rem">>, <<"data", <<1>>>>, <<"data", <<0, 2, 1>>>>>> :
        before \in {<<>>, <<<<"data", <<1, 2>>>>>>}, x \in ReadLists,
        middle \in {<<>>, <<<<"restore">>>>, <<<<"data", <<2, 2>>>>>>}, y \in ReadLists}
    \cup {<<<<"dim", "a", N(4)>>, <<"for", "i", N(0), N(3), 1, <<<<"read", <<A(<<"var", "i">>)>>>>>>>>,
            <<"put", A(N(1)), <<"+", A(N(0)), A(N(3))>>>>,
            <<"for", "i", N(3), N(0), -1, <<Prints(A(<<"var", "i">>))>>>>,
            <<"dim", "a", N(2)>>, Prints(A(N(1))), <<"data", x>>, <<"rem">>, <<"data", <<5, -6>>>>>> :
            x \in {<<3, 4>>, <<3, -4, 7>>}}
S_ == <<"strvar", "s">>
T_ == <<"strvar", "t">>
Lit(x) == <<"lit", x>>
Strings ==
    {S_, <<"cat", S_, T_>>, <<"cat", Lit(<<49, 50>>), <<"cat", T_, S_>>>>, <<"chr", N(9)>>, <<"str", <<"+", n_, N(40)>>>>,
     <<"left", <<"cat", T_, S_>>, n_>>, <<"right", <<"cat", S_, T_>>, N(2)>>, <<"mid", <<"cat", S_, T_>>, N(1), N(2)>>,
     <<"upper", S_>>, <<"lower", <<"cat", T_, S_>>>>, <<"left", <<"cat", <<"right", S_, N(1)>>, <<"left", T_, N(1)>>>>, N(2)>>}
StringNumbers == {<<"len", x>> : x \in Strings} \cup {<<"asc", x>> : x \in {S_, <<"cat", T_, S_>>}}
                 \cup {<<"val", <<"cat", Lit(<<49, 50>>), T_>>>>, <<"instr", <<"cat", S_, T_>>, T_>>, <<"instr", T_, <<"cat", S_, S_>>>>}
StringPrograms ==
    LET Run(x) == <<LetVar("n", N(2)), <<"lets", "s", Lit(<<97, 98>>)>>, <<"lets", "t", <<"cat", Lit(<<51>>), Lit(<<98, 65>>)>>>>,
                    x, <<"lets", "s", T_>>, Prints(S_)>>
    IN  {Run(Prints(x)) : x \in StringNumbers} \cup {Run(<<"print", x, y>>) : x \in Strings, y \in {S_, T_}}
        \cup {Run(<<"if", <<<<"or", op, x, y>>, <<link, "=", n_, N(2)>>>>, Prints(N(6)), Prints(x)>>) :
                 op \in {"<", ">", "=", "<=", ">=", "<>"}, link \in {"and", "or"},
                 x \in Strings, y \in {S_, T_, <<"left", S_, N(1)>>}}
BasicPrograms ==
    LET Sub == <<Prints(<<"var", "i">>), <<"rem">>>>
    IN  {[main |-> <<LetVar("n", N(3)), <<"vpoke", "sensDistL", N(4)>>, Prints(e)>>, sub |-> <<>>] : e \in Expressions}
        \cup {[main |-> <<LetVar("n", N(k)), x, Prints(<<"var", "i">>)>>, sub |-> Sub] : k \in 1 .. 3, x \in Ifs}
        \cup {[main |-> <<x, <<"rem">>, Prints(<<"var", "i">>)>>, sub |-> Sub] : x \in BasicLoops}
        \cup {[main |-> x, sub |-> <<>>] : x \in DataPrograms \cup StringPrograms}

Text == INSTANCE BasicText WITH bt <- s, tk <- s, Programs <- BasicPrograms, SD_BLOCK_SIZE <- 8, PADDED <- TRUE

(* Motors and sensors: the constants of their modules. *)
MCTargets == {-200, 0, 30, 100}
MCLengths == {1, 2, 3}
(* sensor_correction.h:44-47 *)
Voltages == <<510, 376, 292, 244, 204, 184, 168, 156, 144, 136, 130, 126, 120, 114>>
MCTable == [i \in 1 .. 14 |-> [voltage |-> Voltages[i], dist |-> 50 + 50 * i]]

(* Two threads with files, and the screen that tests the card by itself.     *)
Files == INSTANCE SdCard WITH sd <- s, PREEMPTED <- FALSE, Threads <- {"main", "map"},
                              Uses <- [main |-> {"open", "file"}, map |-> {"file"}]

SimLink == INSTANCE SimulatorLink WITH
               sl <- s, ROUNDS <- 3, WRAP <- 50, BUFFER <- 3, MAPS <- 1, Others <- {robot1, robot2},
               FAULTS <- 0, TIMEOUTS <- 0
Uart == INSTANCE SimulatorLink WITH
            sl <- s, ROUNDS <- 4, WRAP <- 50, BUFFER <- 3, MAPS <- 0, Others <- {},
            FAULTS <- 2, TIMEOUTS <- 1

Screen == INSTANCE SdCard WITH sd <- s, PREEMPTED <- FALSE, Threads <- {"main"}, Uses <- [main |-> {"screen"}]

Panel == INSTANCE Panels WITH
             pn <- s, SAMPLES_PER_BIT <- 10, PAUSE_SAMPLES <- 14, CAP <- 16, PRESSES <- 2, WHOLE <- TRUE,
             KEYS_TYPED <- 3, ParamCounts <- <<0, 2, 1, 0>>, LENGTH <- 2,
             LOG_SCROLLBACK <- 4, LOG_SIZE <- 12

Fat == INSTANCE FatFiles WITH
           fs <- s, Names <- {"map", "log"}, ENTRIES <- 2, m_lastCluster <- 3, m_blocksPerCluster <- 2, BYTES <- 2,
           Sizes <- {1, 5}, Places <- {0, 4}, MAX_WRITES <- 2, MAX_SIZE <- 6, CRASHES <- 1, SEPARATE <- TRUE

-----------------------------------------------------------------------------
Nothing == <<>>

HardwareInit == MotorsInit /\ RoundInit /\ OdometryInit /\ LookupInit /\ BusInit

NoField == field = [value |-> 0, coord |-> 0]

ServiceInit ==
    \/ part = "link"  /\ Link!LinkInit
    \/ part = "load"  /\ Load!LoadInit
    \/ part = "boot"  /\ Load!BootInit
    \/ part = "abl"   /\ Script!AblInit
    \/ part = "basic" /\ Basic!UBasicInit
    \/ part = "text"  /\ Text!BasicTextInit
    \/ part = "words" /\ Text!TokenizerInit
    \/ part = "files" /\ Files!SdInit
    \/ part = "screen" /\ Screen!SdInit
    \/ part = "sim"   /\ SimLink!SimInit
    \/ part = "uart"  /\ Uart!UartInit
    \/ part = "ir"    /\ Panel!IrInit
    \/ part = "keypad" /\ Panel!TypingInit
    \/ part = "menu"  /\ Panel!MenuInit
    \/ part = "speed" /\ Panel!SpeedInit
    \/ part = "lcd"   /\ Panel!TextInit
    \/ part = "log"   /\ Panel!LogInit
    \/ part = "fat"   /\ Fat!FatInit

Init ==
    /\ HardwareInit /\ MapInit /\ BotInit /\ StackInit
    /\ \/ NoField /\ ServiceInit
       \/ /\ part \in {"wheel", "servo", "bus", "round", "odo", "dist", "map", "bot", "stack"}
          /\ NoField /\ s = Nothing
       \/ part = "field" /\ FieldInit /\ s = Nothing

ServiceNext ==
    \/ part = "link"  /\ Link!LinkNext
    \/ part = "load"  /\ Load!LoadNext
    \/ part = "boot"  /\ Load!BootNext
    \/ part = "abl"   /\ Script!AblNext
    \/ part = "basic" /\ Basic!UBasicNext
    \/ part = "text"  /\ Text!BasicTextNext
    \/ part = "words" /\ Text!TokenizerNext
    \/ part = "files" /\ Files!SdNext
    \/ part = "screen" /\ Screen!SdNext
    \/ part = "sim"   /\ SimLink!SimNext
    \/ part = "uart"  /\ Uart!UartNext
    \/ part = "ir"    /\ Panel!IrNext
    \/ part = "keypad" /\ Panel!TypingNext
    \/ part = "menu"  /\ Panel!MenuNext
    \/ part = "speed" /\ Panel!SpeedNext
    \/ part = "lcd"   /\ Panel!TextNext
    \/ part = "log"   /\ Panel!LogNext
    \/ part = "fat"   /\ Fat!FatNext

HardwareNext ==
    \/ part = "wheel" /\ WheelNext    /\ UNCHANGED <<sn, odo, looked, bus>>
    \/ part = "servo" /\ ServoNext    /\ UNCHANGED <<sn, odo, looked, bus>>
    \/ part = "round" /\ RoundNext    /\ UNCHANGED <<mo, odo, looked, bus>>
    \/ part = "odo"   /\ OdometryNext /\ UNCHANGED <<mo, sn, looked, bus>>
    \/ part = "dist"  /\ LookupNext   /\ UNCHANGED <<mo, sn, odo, bus>>
    \/ part = "bus"   /\ BusNext      /\ UNCHANGED <<mo, sn, odo, looked>>

Next ==
    \/ ServiceNext  /\ UNCHANGED <<part, bb, ways, hardware, map>>
    \/ HardwareNext /\ UNCHANGED <<part, s, bb, ways, map>>
    \/ part = "map"   /\ MapNext   /\ UNCHANGED <<part, s, bb, ways, field, hardware>>
    \/ part = "field" /\ FieldNext /\ UNCHANGED <<part, s, bb, ways, mp, hardware>>
    \/ part = "bot"   /\ BotNext   /\ UNCHANGED <<part, s, ways, map, hardware>>
    \/ part = "stack" /\ StackNext /\ UNCHANGED <<part, s, bb, map, hardware>>

Spec == Init /\ [][Next]_vars

(* The map by itself, and ABL scripts whose branches need not be sound.      *)
FlushSpec ==
    /\ part = "map" /\ s = Nothing /\ MapInit /\ NoField /\ HardwareInit /\ BotInit /\ StackInit
    /\ [][MapNext /\ UNCHANGED <<part, s, bb, ways, field, hardware>>]_vars
BranchesSpec ==
    /\ part = "abl" /\ AnyScript!AblInit /\ MapInit /\ NoField /\ HardwareInit /\ BotInit /\ StackInit
    /\ [][AnyScript!AblNext /\ UNCHANGED <<part, bb, ways, hardware, map>>]_vars

(* The state of each part. *)
ServicesTypeOK ==
    /\ part = "map" => MapTypeOK
    /\ part = "field" => FieldTypeOK
    /\ part = "stack" => StackTypeOK
    /\ part = "bot" => BotTypeOK
    /\ part = "link" => Link!LinkTypeOK
    /\ part = "load" => Load!LoadTypeOK
    /\ part = "abl" => Script!AblTypeOK
    /\ part = "basic" => Basic!UBasicTypeOK
    /\ part = "files" => Files!SdTypeOK
    /\ part = "screen" => Screen!SdTypeOK
    /\ part = "sim" => SimLink!SimTypeOK
    /\ part = "uart" => Uart!UartTypeOK
    /\ part \in {"wheel", "servo"} => MotorsTypeOK
    /\ part = "round" => RoundTypeOK
    /\ part = "odo" => OdometryTypeOK
    /\ part = "bus" => BusTypeOK

(* command.c: what is carried out has been sent, and after lost bytes the    *)
(* reader finds the next command again.  mcu/ir-rc5.c, ui/gui.c, ui/rc5.c,    *)
(* behaviour_remotecall.c, mcu/display.c: what the user keys is taken once   *)
(* and as he means it, the call he chooses is the one that runs, both        *)
(* displays show the same, and the line of the log he scrolls to is shown.  *)
LinkRecovers == /\ part = "link" => Link!CommandsAreWhole /\ Link!RestIsRead
                /\ part = "ir" => Panel!PressesAreTaken
                /\ part = "keypad" => Panel!KeypadAsTyped
                /\ part = "menu" => Panel!CallIsAsChosen
                /\ part = "speed" => Panel!SpeedsCanBeHeld
                /\ part = "lcd" => Panel!CopyAgrees
                /\ part = "log" => Panel!LogIsFound

(* command.c, mcu/sdcard_wrapper.cpp, mcu/sdcard.cpp: a program on the card    *)
(* is one that the simulator has sent; one thread at a time is in the file   *)
(* system and at the card, gives its locks back, and finds its blocks; what  *)
(* was written to a file is in it, its clusters are its own, and what was    *)
(* flushed survives a power failure (mcu/SdFat/FatLib).  And the robot's own *)
(* program is the one the programmer has sent (mcu/bootloader.c).           *)
FilesAreWhole == /\ part = "load" => Load!FilesAreWhole
                 /\ part = "boot" => Load!FirmwareIsWhole
                 /\ part = "files" => Files!CardIsShared
                 /\ part = "fat" => Fat!ContentIsKept /\ Fat!ChainsAreApart /\ Fat!FlushedIsSafe
                 /\ part = "screen" => Screen!CardIsShared

(* behaviour_abl.c, ubasic.c: of the two branches of an if the right one     *)
(* runs, and the body of a loop as often as the loop says; a Basic program   *)
(* does what it means, and its keywords are those of the language.          *)
ScriptsAreFollowed == /\ part = "abl" => Script!BranchesAreChosen /\ Script!LoopsRepeat
                      /\ part = "text" => Text!ProgramsAreMeant
                      /\ part = "words" => Text!KeywordsAreFound

(* ubasic.c: a jump leads to the line with that number in the text it is in.  *)
LinesAreFound == [][part = "basic" => Basic!JumpFinds]_s

(* command.c, pc/tcp.c, mcu/bot-2-linux.c: what two threads write arrives as   *)
(* whole frames; a round of the robot answers the simulator's last one and   *)
(* sees the sensors of one round; the ATmega and the board stay in step but  *)
(* for faults, and the motors have the order of their round.                *)
RoundsAreKept == /\ part = "sim" => /\ SimLink!StreamIsWhole /\ SimLink!AnswersInTime
                                    /\ SimLink!SeesOneRound /\ SimLink!ListedOnce
                 /\ part = "uart" => /\ Uart!RoundsStayInStep /\ Uart!MotorsAreOfTheirRound
                                     /\ Uart!ClockIsOfItsSensors

(* behaviour_abl.c:39: the statements between if(X) and else() or fi() are   *)
(* executed if and only if the top of the stack is X.                       *)
BranchesAreChosen == AnyScript!BranchesAreChosen
=============================================================================
