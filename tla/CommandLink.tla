------------------------------- MODULE CommandLink -------------------------------
(***************************************************************************)
(* Commands on the line (command.c).  A command is a frame of FRAME bytes   *)
(* from its start code to its stop code, some with payload behind; the line *)
(* is the UART of the robot, where bytes get lost.  The reader has no buffer *)
(* of its own but what it reads in one call.                                *)
(***************************************************************************)
EXTENDS Integers, Sequences, SequencesExt, FiniteSetsExt

CONSTANTS
    FRAME,          \* sizeof(command_t)
    Lookalikes,     \* places in a frame whose byte is the start code by chance
    Payloads,       \* numbers of bytes that follow a frame
    MAX_FRAMES,     \* bound: frames sent in a run
    LOSSES          \* bound: bytes that get lost

VARIABLE ln

LinkInit ==
    ln = [wire |-> <<>>, sent |-> <<>>, losses |-> LOSSES,
          pending |-> 0,             \* payload that command_evaluate() still has to read
          accepted |-> <<>>, result |-> 0]

(* The bytes of frame f; those of its payload are numbered on. *)
IsStart(byte) == byte.at \in {1} \cup Lookalikes
IsStop(byte) == byte.at = FRAME
Bytes(f, payload) == [i \in 1 .. FRAME + payload |-> [frame |-> f, at |-> i]]

(* command_write_to_internal, command_write_rawdata_to: one critical section *)
command_write_rawdata_to ==
    /\ Len(ln.sent) < MAX_FRAMES
    /\ \E payload \in Payloads :
          ln' = [ln EXCEPT !.sent = Append(@, payload), !.wire = @ \o Bytes(Len(ln.sent) + 1, payload)]

Lose ==
    /\ ln.losses > 0
    /\ \E i \in DOMAIN ln.wire : ln' = [ln EXCEPT !.wire = RemoveAt(@, i), !.losses = @ - 1]

-----------------------------------------------------------------------------
(* Where the first of the bytes that were read is a start code. *)
FirstStart(bytes) == SelectInSeq(bytes, IsStart)

(* What is read is gone, whatever becomes of it. *)
Reads(n, result) == [ln EXCEPT !.wire = SubSeq(@, n + 1, Len(@)), !.result = result]

(* Mutant of Judged: the stop code is not looked at. *)
JudgedByStart(n, bytes) ==
    [Reads(n, 0) EXCEPT !.accepted = Append(@, bytes), !.pending = ln.sent[bytes[1].frame]]

Judged(n, bytes) ==
    IF IsStop(Last(bytes))
    THEN [Reads(n, 0) EXCEPT !.accepted = Append(@, bytes),
                             !.pending = ln.sent[bytes[3].frame]]     \* the byte "payload" of the frame
    ELSE Reads(n, -6)

(* Mutant of command_read: the start code is only looked for in front. *)
ReadAligned ==
    /\ ln.pending = 0 /\ Len(ln.wire) >= FRAME
    /\ ln' = IF FirstStart(SubSeq(ln.wire, 1, FRAME)) # 1 THEN Reads(FRAME, -2)
             ELSE Judged(FRAME, SubSeq(ln.wire, 1, FRAME))

command_read ==
    /\ ln.pending = 0 /\ Len(ln.wire) >= FRAME
    /\ LET start == FirstStart(SubSeq(ln.wire, 1, FRAME))
           n == FRAME + start - 1
       IN  CASE start = 0 -> ln' = Reads(FRAME, -2)
             [] start > 0 /\ Len(ln.wire) >= n -> ln' = Judged(n, SubSeq(ln.wire, start, n))
             [] start > 0 /\ Len(ln.wire) < n ->              \* it waits for the rest, or no longer
                   ln' = Reads(Len(ln.wire), -4)

(* command_evaluate reads the payload of the command, as far as it comes. *)
command_evaluate ==
    /\ ln.pending > 0
    /\ \/ Len(ln.wire) >= ln.pending /\ ln' = [Reads(ln.pending, 0) EXCEPT !.pending = 0]
       \/ Len(ln.wire) < ln.pending /\ ln' = [Reads(Len(ln.wire), 0) EXCEPT !.pending = 0]

LinkNext ==
    \/ command_write_rawdata_to
    \/ Lose
    \/ command_read
    \/ command_evaluate

-----------------------------------------------------------------------------
LinkTypeOK ==
    /\ ln.result \in {0, -2, -4, -6} /\ ln.pending \in {0} \cup Payloads
    /\ Len(ln.accepted) <= Len(ln.sent)

(* Fewer lost bytes than a frame has never make a command of the pieces     *)
(* of two: what is carried out was sent, each at most once and in           *)
(* the order it was sent.                                                   *)
CommandsAreWhole ==
    /\ \A c \in Range(ln.accepted) : \A i \in 1 .. FRAME : c[i] = [frame |-> c[1].frame, at |-> i]
    /\ \A i, j \in DOMAIN ln.accepted : i < j => ln.accepted[i][1].frame < ln.accepted[j][1].frame

(* Nothing is taken off the line but the commands that were not disturbed:  *)
(* a lost byte costs at most two of them, for the reader finds the next     *)
(* start code.                                                              *)
RestIsRead ==
    Len(ln.wire) < FRAME /\ ln.pending = 0 =>
        Len(ln.sent) - Len(ln.accepted) <= 2 * (LOSSES - ln.losses)
=============================================================================
