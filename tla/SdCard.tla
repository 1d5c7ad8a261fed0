--------------------------------- MODULE SdCard ---------------------------------
(***************************************************************************)
(* The SD card of the robot: the commands to the card (mcu/sdcard.cpp), the  *)
(* locks of the wrapper around the file system (mcu/sdcard_wrapper.cpp) and  *)
(* the screen that tests the card (mcu/mmc.c), used by two threads.  The     *)
(* scheduler may switch between any two steps unless the running thread has  *)
(* forbidden it.  A block that is read may be long in coming, then other     *)
(* threads get a turn.  The card may refuse any command.                    *)
(***************************************************************************)
EXTENDS Integers

CONSTANTS
    Threads,
    Uses,               \* of each thread: "file", "open", "screen"
    PREEMPTED           \* may a switch come between test and set of busy?

VARIABLE sd

Nobody == "nobody"
Kinds == {"SD1", "SD2", "SDHC"}

At(t, pc) == sd.pc[t] = pc
Runs(t) == sd.holder \in {t, Nobody} /\ (PREEMPTED \/ \A u \in Threads \ {t} : ~At(u, "set"))

(* Step of t that leads to pc and changes sd to r. *)
Goes(t, pc, r) == Runs(t) /\ sd' = [r EXCEPT !.pc[t] = pc]

SdInit ==
    \E kind \in Kinds :
       sd = [kind |-> kind, type |-> "none", ready |-> FALSE, init_state |-> FALSE,
             holder |-> Nobody,         \* who runs with scheduling forbidden
             busy |-> FALSE, selected |-> Nobody,
             pc |-> [t \in Threads |-> "boot"], op |-> [t \in Threads |-> "none"],
             lock |-> [t \in Threads |-> FALSE],
             clash |-> FALSE,           \* a command came while another was under way
             misplaced |-> FALSE]       \* a block was taken for a byte address or vice versa

-----------------------------------------------------------------------------
(* SdCard::init, which nobody interrupts.  Where it fails it leaves the card  *)
(* and its type as far as it has come.                                      *)
InitResults ==
    LET fails(type, ready) == [sd EXCEPT !.type = type, !.ready = ready]
    IN  {fails("none", sd.ready), fails("none", FALSE)}
        \cup {fails(IF sd.kind = "SD1" THEN "SD1" ELSE "SD2", FALSE)}
        \cup (IF sd.kind = "SD1" THEN {} ELSE {fails("SD2", TRUE)})
InitOk == [sd EXCEPT !.type = sd.kind, !.ready = TRUE, !.init_state = TRUE]

(* init.c: without a card there are no files, but the screen tries again.    *)
Boot ==
    /\ \A t \in Threads : At(t, "boot")
    /\ \E r \in InitResults \cup {InitOk} :
          sd' = [r EXCEPT !.pc = [t \in Threads |-> IF r.init_state \/ Uses[t] = {"screen"} THEN "out" ELSE "off"]]

-----------------------------------------------------------------------------
(* sdcard_wrapper.cpp: the file operations wait for their turn.  Opening a    *)
(* file forbids switches while it looks.                                    *)
FileTest(t) ==
    /\ At(t, "out") /\ "file" \in Uses[t] /\ ~sd.busy
    /\ Goes(t, "set", sd)

FileSet(t) == At(t, "set") /\ Goes(t, "inside", [sd EXCEPT !.busy = TRUE, !.op[t] = "file"])

(* Mutant of FileOpen: it relies on its critical section alone. *)
OpenRegardless(t) ==
    /\ At(t, "out") /\ "open" \in Uses[t] /\ sd.holder = Nobody
    /\ Goes(t, "inside", [sd EXCEPT !.holder = t, !.busy = TRUE, !.op[t] = "open"])

FileOpen(t) ==
    /\ At(t, "out") /\ "open" \in Uses[t] /\ sd.holder = Nobody /\ ~sd.busy
    /\ Goes(t, "inside", [sd EXCEPT !.holder = t, !.busy = TRUE, !.op[t] = "open"])

FileDone(t) ==
    /\ At(t, "inside")
    /\ Goes(t, "out", [sd EXCEPT !.busy = FALSE, !.op[t] = "none",
                                 !.holder = IF sd.op[t] = "open" THEN Nobody ELSE @])

-----------------------------------------------------------------------------
(* mmc_display: the size of the card tells whether it is there; if not the    *)
(* card is initialised again.  Then blocks are written and read.            *)
ScreenBegins(t) == At(t, "out") /\ "screen" \in Uses[t] /\ Goes(t, "size", [sd EXCEPT !.op[t] = "screen"])

(* Mutant of get_size: a card that answers is taken for initialised. *)
SizeOfAnyCard(t) == At(t, "size") /\ Goes(t, "lock", [sd EXCEPT !.op[t] = "size"])

get_size(t) ==
    /\ At(t, "size")
    /\ IF sd.init_state THEN Goes(t, "lock", [sd EXCEPT !.op[t] = "size"])
       ELSE Goes(t, "init", sd)

ScreenInit(t) ==
    /\ At(t, "init") /\ sd.holder = Nobody
    /\ \/ Goes(t, "lock", [InitOk EXCEPT !.op[t] = "size"])
       \/ \E r \in InitResults : Goes(t, "out", [r EXCEPT !.op[t] = "none"])

ScreenDone(t) == At(t, "test") /\ Goes(t, "out", [sd EXCEPT !.op[t] = "none"])

-----------------------------------------------------------------------------
(* A card command of t: read_block, write_block, read_register.              *)
Block(t) == sd.op[t] # "size"
Asks(t) == (At(t, "inside") \/ At(t, "test")) /\ Goes(t, "lock", sd)

os_lock(t) ==
    /\ At(t, "lock")
    /\ Goes(t, "command", [sd EXCEPT !.lock[t] = sd.holder # t, !.holder = t])

Selected(t) == [sd EXCEPT !.selected = t, !.clash = @ \/ sd.selected \notin {t, Nobody},
                          !.misplaced = @ \/ (/\ Block(t) /\ sd.ready
                                            /\ (sd.type = "SDHC") # (sd.kind = "SDHC"))]

Back(t) == CASE sd.op[t] = "size" -> "sized" [] sd.op[t] = "screen" -> "test" [] OTHER -> "inside"

(* Mutant of error_handler: it ends the critical section in any case. *)
ErrorUnlocks(t, r) == [r EXCEPT !.selected = Nobody, !.holder = Nobody]

(* cs_high, and the lock is given back to whom it belongs. *)
error_handler(t, r) == [r EXCEPT !.selected = Nobody, !.holder = IF sd.lock[t] THEN Nobody ELSE @]

Fails(t, r) ==
    LET f == error_handler(t, [r EXCEPT !.init_state = IF sd.op[t] \in {"size", "screen"} THEN FALSE ELSE @])
    IN  Goes(t, IF sd.op[t] \in {"size", "screen"} THEN "out" ELSE "inside",
             [f EXCEPT !.op[t] = IF @ \in {"size", "screen"} THEN "none" ELSE @])

send_cmd(t) ==
    /\ At(t, "command")
    /\ \/ sd.ready /\ Goes(t, "token", Selected(t))                    \* read
       \/ sd.ready /\ Block(t) /\ Goes(t, "done", Selected(t))         \* write
       \/ Fails(t, Selected(t))

(* read_data waits for the block and lets others run meanwhile. *)
Yield(t) == At(t, "token") /\ Goes(t, "yield", [sd EXCEPT !.holder = Nobody])

YieldEnds(t) == At(t, "yield") /\ sd.holder = Nobody /\ Goes(t, "token", [sd EXCEPT !.holder = t])

Received(t) ==
    /\ At(t, "token")
    /\ \/ Goes(t, "done", sd)
       \/ Fails(t, sd)

Done(t) ==
    /\ At(t, "done")
    /\ Goes(t, Back(t), [sd EXCEPT !.selected = Nobody, !.holder = IF sd.lock[t] THEN Nobody ELSE @])

Sized(t) == At(t, "sized") /\ Goes(t, "test", [sd EXCEPT !.op[t] = "screen"])

SdNext ==
    \/ Boot
    \/ \E t \in Threads :
          \/ FileTest(t) \/ FileSet(t) \/ FileOpen(t) \/ FileDone(t)
          \/ ScreenBegins(t) \/ get_size(t) \/ ScreenInit(t) \/ ScreenDone(t)
          \/ Asks(t) \/ os_lock(t) \/ send_cmd(t) \/ Yield(t) \/ YieldEnds(t) \/ Received(t) \/ Done(t) \/ Sized(t)

SdSpec == SdInit /\ [][SdNext]_sd

-----------------------------------------------------------------------------
SdTypeOK == /\ sd.type \in Kinds \cup {"none"}
            /\ sd.holder \in Threads \cup {Nobody} /\ sd.selected \in Threads \cup {Nobody}

InFileSystem(t) == sd.op[t] \in {"file", "open"}

(* sdcard_wrapper.cpp: the file system has one buffer and one position per    *)
(* file; only one thread may be in it, and only one command at the card,     *)
(* although a thread that waits for its block lets others run.               *)
OneAtATime ==
    /\ \A t, u \in Threads : InFileSystem(t) /\ InFileSystem(u) => t = u
    /\ ~sd.clash

(* Whoever opens a file keeps the others out to the end but for those turns,  *)
(* and scheduling is allowed again as soon as nobody needs it forbidden,     *)
(* whatever goes wrong at the card.                                         *)
LocksAreGivenBack ==
    \A t \in Threads :
       /\ sd.op[t] = "open" /\ ~At(t, "yield") => sd.holder = t
       /\ At(t, "out") \/ At(t, "off") \/ At(t, "test") \/ (At(t, "inside") /\ sd.op[t] = "file") => sd.holder # t

(* sdcard.cpp:268, 342: the card is addressed by blocks or bytes as it wants,  *)
(* also after an initialisation that failed halfway.                        *)
BlocksAreAddressed == ~sd.misplaced

(* The locks and the addresses do not rest on the test of busy; that only one *)
(* thread at a time is in the file system does.                             *)
CardIsShared == OneAtATime /\ LocksAreGivenBack /\ BlocksAreAddressed
=============================================================================
