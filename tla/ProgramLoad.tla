-------------------------------- MODULE ProgramLoad --------------------------------
(***************************************************************************)
(* A program comes from the simulator (command.c, CMD_PROGRAM): its name    *)
(* and size, its text in pieces, each with its place, the start.  The robot *)
(* collects a block in a buffer that both interpreters share, writes it     *)
(* when its last byte has come, and counts down what is missing.  A command *)
(* may get lost on the way, and the bytes of a piece may fail to come.      *)
(* Sizes are in parts of a block.  The program of the robot itself is loaded *)
(* by the boot loader, below.                                               *)
(***************************************************************************)
EXTENDS Integers, Sequences, SequencesExt, FiniteSets

CONSTANTS
    SD_BLOCK_SIZE,  \* in parts
    Lengths,        \* of programs
    PIECE,          \* what one command carries
    FAULTS,         \* bound: commands that get lost or come without their bytes
    MAX_PROGRAMS,   \* bound
    SPM_PAGESIZE, FLASHEND,      \* of the chip, in bytes
    Firmware,                    \* its bytes
    TRIES, RESETS                \* bounds: of the programmer, and of its user

VARIABLE load

Nothing == <<0, 0>>
Zeros == [i \in 0 .. SD_BLOCK_SIZE - 1 |-> Nothing]

LoadInit ==
    load = [net |-> <<>>, program |-> 0, length |-> 0, sent |-> 0, faults |-> FAULTS,      \* the simulator
            prog_size |-> 0, buffer |-> Zeros, file |-> <<>>, of |-> 0, full |-> FALSE,    \* the robot
            running |-> <<>>, started |-> FALSE]

Smaller(a, b) == IF a < b THEN a ELSE b
Parts(program, from, to) == [i \in 1 .. to - from |-> <<program, from + i>>]

Sends(message) == [load EXCEPT !.net = Append(@, message)]

-----------------------------------------------------------------------------
(* The simulator. *)
Offer ==
    /\ load.net = <<>> /\ load.sent = load.length /\ load.program < MAX_PROGRAMS
    /\ \E length \in Lengths :
          load' = [Sends([cmd |-> "PREPARE", size |-> length]) EXCEPT
                      !.program = @ + 1, !.length = length, !.sent = 0, !.started = FALSE]

Piece ==
    /\ load.sent < load.length
    /\ LET to == Smaller(load.length, load.sent + PIECE)
       IN  load' = [Sends([cmd |-> "DATA", done |-> load.sent, parts |-> Parts(load.program, load.sent, to)])
                       EXCEPT !.sent = to]

Start ==
    /\ load.sent = load.length /\ load.program > 0 /\ ~load.started
    /\ load' = [Sends([cmd |-> "START"]) EXCEPT !.started = TRUE]

Lose == load.net # <<>> /\ load.faults > 0 /\ load' = [load EXCEPT !.net = Tail(@), !.faults = @ - 1]

-----------------------------------------------------------------------------
(* The robot. *)
Comes(cmd) == load.net # <<>> /\ Head(load.net).cmd = cmd
Taken == [load EXCEPT !.net = Tail(@)]
Faulty == load.faults > 0

(* The file is truncated and the interpreter stopped, once the name has      *)
(* come and the file can be opened.                                         *)
Prepare ==
    /\ Comes("PREPARE")
    /\ \/ load' = [Taken EXCEPT !.prog_size = Head(load.net).size, !.buffer = Zeros, !.file = <<>>,
                                !.of = load.program, !.full = FALSE, !.running = <<>>]
       \/ Faulty /\ load' = [Taken EXCEPT !.prog_size = 0, !.faults = @ - 1]

(* What is missing after m.  Mutant first: told by the place of m, not counted. *)
MissingByPlace(m) == load.length - m.done - Len(m.parts)
Missing(m) == load.prog_size - Len(m.parts)

Filled(at, parts) ==
    [i \in DOMAIN load.buffer |-> IF i >= at /\ i < at + Len(parts) THEN parts[i - at + 1] ELSE load.buffer[i]]

(* A block is written when the piece ends it or is the last that is missing. *)
Data ==
    /\ Comes("DATA") /\ load.prog_size # 0
    /\ LET m == Head(load.net)
           at == m.done % SD_BLOCK_SIZE
           buffer == Filled(at, m.parts)
           missing == Missing(m)
           block == [i \in 1 .. SD_BLOCK_SIZE |-> buffer[i - 1]]
       IN  \/ Faulty /\ load' = [Taken EXCEPT !.prog_size = 0, !.faults = @ - 1]
           \/ /\ at + Len(m.parts) = SD_BLOCK_SIZE \/ missing = 0
              /\ load' = [Taken EXCEPT !.prog_size = missing, !.buffer = Zeros, !.file = @ \o block,
                                       !.full = missing = 0]
           \/ /\ at + Len(m.parts) # SD_BLOCK_SIZE /\ missing # 0
              /\ load' = [Taken EXCEPT !.prog_size = missing, !.buffer = buffer]

DataUnwanted == Comes("DATA") /\ load.prog_size = 0 /\ load' = Taken

(* bot_ubasic and bot_abl take the file as it is. *)
StartComes == Comes("START") /\ load' = [Taken EXCEPT !.running = load.file]

Stop == load.running # <<>> /\ load' = [load EXCEPT !.running = <<>>]

LoadNext ==
    \/ Offer \/ Piece \/ Start \/ Lose
    \/ Prepare \/ Data \/ DataUnwanted \/ StartComes \/ Stop

-----------------------------------------------------------------------------
(* The boot loader (mcu/bootloader.c) takes the robot's own program from a   *)
(* programmer on the serial line: a byte for the command, its operands, and  *)
(* an answer.  A byte may get lost in either direction; the programmer gives *)
(* up a command that is not answered as it should be, waits until nothing    *)
(* comes any more, and begins anew.                                         *)
ESC == 27
CR == 13
DEVTYPE == 116
AVRBOOT == 256                       \* seven letters in one
ERASED == 255
Command == [address |-> 65, load |-> 66, exit |-> 69, flash |-> 70, leave |-> 76, enter |-> 80, start |-> 83,
            device |-> 84, version |-> 86, auto |-> 97, size |-> 98, erase |-> 101, read |-> 103, programmer |-> 112,
            signature |-> 115, type |-> 116, set |-> 120, clear |-> 121]

APP_END == FLASHEND - SPM_PAGESIZE                                   \* BOOTSIZE is a page here
Chip == [i \in 0 .. FLASHEND |-> IF i > APP_END THEN 7 ELSE IF i < 2 THEN 1 ELSE ERASED]   \* an older program

BootInit ==
    load = [line |-> <<>>, answers |-> <<>>, faults |-> FAULTS, tries |-> 0, resets |-> 0,
            step |-> "sync", sent |-> 0, asked |-> FALSE,            \* the programmer
            mode |-> "wait", cmd |-> <<>>, address |-> 0, device |-> 0,
            flash |-> Chip, eeprom |-> [i \in 0 .. 3 |-> ERASED]]

Replies(s, bytes) == [s EXCEPT !.answers = @ \o bytes, !.cmd = <<>>]

(* A page is filled from the address on, and written where it begins; the    *)
(* chip can only clear bits.  More than a page comes from behind the buffer, *)
(* and the loop that counts an odd size down by two never ends.             *)
Burnt(old, new) == IF old = ERASED THEN new ELSE IF new = ERASED THEN old ELSE 0
gBuffer(operands) ==
    [i \in 0 .. SPM_PAGESIZE - 1 |-> IF i + 4 <= Len(operands) THEN operands[i + 4] ELSE ERASED]
At(address, i) == ((2 * address) + i) % (FLASHEND + 1)

writeFlashPage(s, size, bytes) ==
    LET page == At(s.address, 0) \div SPM_PAGESIZE
        filled == {i \in 0 .. SPM_PAGESIZE - 1 : i < size}
        To(i) == (page * SPM_PAGESIZE) + (At(s.address, i) % SPM_PAGESIZE)
    IN  [s EXCEPT !.flash = [a \in {To(i) : i \in filled} |-> Burnt(@[a], bytes[CHOOSE i \in filled : To(i) = a])] @@ @,
                  !.address = (@ + (size \div 2)) % 65536]
writeEEpromPage(s, size, bytes) ==
    [s EXCEPT !.eeprom = [a \in {(s.address + i) % 4 : i \in 0 .. Smaller(size, 4) - 1} |-> bytes[(a - s.address) % 4]] @@ @,
              !.address = (@ + size) % 65536]
readFlashPage(s, size) ==
    [Replies(s, [i \in 1 .. size |-> s.flash[At(s.address, i - 1)]]) EXCEPT !.address = (@ + (size \div 2)) % 65536]
readEEpromPage(s, size) ==
    [Replies(s, [i \in 1 .. size |-> s.eeprom[(s.address + i - 1) % 4]]) EXCEPT !.address = (@ + size) % 65536]
eraseFlash(s) ==
    LET pages == {a \in 0 .. FLASHEND : a % SPM_PAGESIZE = 0 /\ APP_END > a}
    IN  [s EXCEPT !.flash = [a \in {b \in 0 .. FLASHEND : \E p \in pages : b \in p .. p + SPM_PAGESIZE - 1} |-> ERASED] @@ @]

(* How many bytes a command needs behind it. *)
Size(operands) == (operands[1] * 256) + operands[2]
Operands(cmd, operands) ==
    CASE cmd = Command.address -> 2
      [] cmd \in {Command.device, Command.set, Command.clear} -> 1
      [] cmd = Command.read -> 3
      [] cmd = Command.load -> IF Len(operands) < 3 THEN 3 ELSE 3 + Smaller(Size(operands), SPM_PAGESIZE)
      [] OTHER -> 0

Counted(size) == IF size = 0 THEN 65536 ELSE size
Hangs(size, memory) == memory = Command.flash /\ size % 2 = 1

Loaded(s, operands) ==
    LET size == Counted(Size(operands))
        bytes == IF size > SPM_PAGESIZE THEN [i \in 0 .. SPM_PAGESIZE - 1 |-> 0] ELSE gBuffer(operands)
        written == CASE operands[3] = Command.flash -> writeFlashPage(s, size, bytes)
                     [] operands[3] = Command.exit -> writeEEpromPage(s, size, bytes)         \* E
                     [] OTHER -> s
    IN  IF s.device # DEVTYPE THEN Replies(s, <<0>>)
        ELSE IF Hangs(size, operands[3]) THEN [s EXCEPT !.mode = "hangs"] ELSE Replies(written, <<CR>>)

ReadOut(s, operands) ==
    LET size == Counted(Size(operands))
    IN  CASE Hangs(size, operands[3]) -> [s EXCEPT !.mode = "hangs"]
          [] operands[3] = Command.flash /\ size % 2 = 0 -> readFlashPage(s, size)
          [] operands[3] = Command.exit -> readEEpromPage(s, size)
          [] OTHER -> Replies(s, <<>>)

Obeyed(s, cmd, operands) ==
    CASE cmd = ESC -> [s EXCEPT !.cmd = <<>>]
      [] cmd = Command.start -> Replies(s, <<AVRBOOT>>)
      [] cmd = Command.address -> Replies([s EXCEPT !.address = Size(operands)], <<CR>>)
      [] cmd = Command.device -> Replies([s EXCEPT !.device = operands[1]], <<CR>>)
      [] cmd = Command.erase -> Replies(IF s.device = DEVTYPE THEN eraseFlash(s) ELSE s, <<CR>>)
      [] cmd = Command.load -> Loaded(s, operands)
      [] cmd = Command.read -> ReadOut(s, operands)
      [] cmd = Command.exit -> [Replies(s, <<CR>>) EXCEPT !.mode = "app"]
      [] cmd \in {Command.enter, Command.leave, Command.set, Command.clear} -> Replies(s, <<CR>>)
      [] cmd = Command.auto -> Replies(s, <<89>>)
      [] cmd = Command.size -> Replies(s, <<89, 0, SPM_PAGESIZE>>)
      [] cmd = Command.programmer -> Replies(s, <<83>>)
      [] cmd = Command.type -> Replies(s, <<DEVTYPE, 0>>)
      [] cmd = Command.version -> Replies(s, <<48, 57>>)
      [] cmd = Command.signature -> Replies(s, <<5, 151, 30>>)
      [] OTHER -> Replies(s, <<63>>)                                 \* ?

bootloader_main ==
    /\ load.mode = "program" /\ load.line # <<>>
    /\ LET cmd == Append(load.cmd, Head(load.line))
           s == [load EXCEPT !.line = Tail(@), !.cmd = cmd]
       IN  load' = IF Len(Tail(cmd)) < Operands(cmd[1], Tail(cmd)) THEN s ELSE Obeyed(s, cmd[1], Tail(cmd))

(* For five seconds after a reset it waits for an S. *)
START_WAIT ==
    /\ load.mode = "wait"
    /\ \/ /\ load.line # <<>>
          /\ load' = IF Head(load.line) = Command.start
                     THEN [Replies(load, <<AVRBOOT>>) EXCEPT !.line = Tail(@), !.mode = "program", !.address = 0, !.device = 0]
                     ELSE [load EXCEPT !.line = Tail(@)]
       \/ load' = [load EXCEPT !.mode = "app"]

(* The user, when nothing comes from the robot any more. *)
ResetKey == /\ load.mode \in {"app", "hangs"} /\ load.step # "done" /\ load.resets < RESETS
            /\ load' = [load EXCEPT !.mode = "wait", !.cmd = <<>>, !.line = <<>>, !.resets = @ + 1]

-----------------------------------------------------------------------------
(* The programmer. *)
Page(sent) == SubSeq(Firmware, sent + 1, Smaller(Len(Firmware), sent + SPM_PAGESIZE))
Request(s) ==
    CASE s.step = "sync" -> <<ESC, Command.start>>
      [] s.step = "device" -> <<Command.device, DEVTYPE>>
      [] s.step = "erase" -> <<Command.erase>>
      [] s.step \in {"address", "again"} -> <<Command.address, 0, 0>>
      [] s.step = "page" -> <<Command.load, 0, Len(Page(s.sent)), Command.flash>> \o Page(s.sent)
      [] s.step = "check" -> <<Command.read, 0, Len(Page(s.sent)), Command.flash>>
      [] OTHER -> <<Command.exit>>
Answer(s) == CASE s.step = "sync" -> <<AVRBOOT>>
               [] s.step = "check" -> Page(s.sent)
               [] OTHER -> <<CR>>

Deaf == load.mode \in {"app", "hangs"}
Asks == /\ ~load.asked /\ load.step # "done" /\ load.tries < TRIES
        /\ load.step = "sync" => load.line = <<>> \/ Deaf       \* it waits until all is quiet
        /\ load' = [load EXCEPT !.line = IF Deaf THEN <<>> ELSE @ \o Request(load), !.answers = <<>>, !.asked = TRUE,
                                !.tries = IF load.step = "sync" THEN @ + 1 ELSE @]

NextStep(s) ==
    LET more == s.sent + SPM_PAGESIZE < Len(Firmware)
        sent == IF s.step \in {"page", "check"} /\ more THEN s.sent + SPM_PAGESIZE ELSE 0
        step == CASE s.step = "sync" -> "device"
                  [] s.step = "device" -> "erase"
                  [] s.step = "erase" -> "address"
                  [] s.step = "address" -> "page"
                  [] s.step = "page" -> IF more THEN "page" ELSE "again"
                  [] s.step = "again" -> "check"
                  [] s.step = "check" -> IF more THEN "check" ELSE "exit"
                  [] OTHER -> "done"
    IN  [s EXCEPT !.step = step, !.sent = sent, !.asked = FALSE]

(* An answer comes that is right or wrong, or none comes any more. *)
Hears ==
    /\ load.asked
    /\ \/ Len(load.answers) >= Len(Answer(load))
       \/ load.line = <<>> \/ Deaf
    /\ load' = IF IsPrefix(Answer(load), load.answers) THEN NextStep(load)
               ELSE [load EXCEPT !.step = "sync", !.sent = 0, !.asked = FALSE]

Loses(seq) == {RemoveAt(seq, i) : i \in DOMAIN seq}
LoseByte ==
    /\ load.faults > 0
    /\ \/ \E line \in Loses(load.line) : load' = [load EXCEPT !.line = line, !.faults = @ - 1]
       \/ \E answers \in Loses(load.answers) : load' = [load EXCEPT !.answers = answers, !.faults = @ - 1]

BootNext == bootloader_main \/ START_WAIT \/ ResetKey \/ Asks \/ Hears \/ LoseByte

-----------------------------------------------------------------------------
LoadTypeOK ==
    /\ load.prog_size \in 0 .. 2 ^ 16 - 1
    /\ load.prog_size > 0 => ~load.full

(* When nothing of the announced program is missing any more the file holds *)
(* it whole, each part at its place, whatever got lost of it or of an       *)
(* earlier program (command.c:759-897).                                     *)
FilesAreWhole ==
    load.full /\ load.of = load.program =>
        \A i \in DOMAIN load.file : load.file[i] = IF i <= load.length THEN <<load.program, i>> ELSE Nothing

(* When the programmer has been told that all pages are written, the chip    *)
(* holds the program and nothing else, whatever was lost on the way; and the *)
(* boot loader itself is never touched (mcu/bootloader.c:222-260, 371-424).  *)
FirmwareIsWhole ==
    /\ \A i \in APP_END + 1 .. FLASHEND : load.flash[i] = 7
    /\ load.step \in {"again", "check", "exit", "done"} =>
           \A i \in 0 .. APP_END : load.flash[i] = IF i < Len(Firmware) THEN Firmware[i + 1] ELSE ERASED
=============================================================================
