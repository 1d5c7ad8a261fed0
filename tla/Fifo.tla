--------------------------------- MODULE Fifo ---------------------------------
(***************************************************************************)
(* A FIFO (fifo.c, include/fifo.h) between a producer and a consumer.  Each *)
(* of the two is a thread or an interrupt: the receive interrupt of the     *)
(* UART fills uart_infifo for a thread, a thread fills uart_outfifo for the *)
(* transmit interrupt (mcu/uart.c), and threads use the FIFOs of the map,   *)
(* on the robot a consumer of lower priority than the producer, on the PC   *)
(* two threads that run at the same time.                                   *)
(*                                                                          *)
(* An interrupt is one step.  A thread takes a step per access to what both *)
(* sides share: the count, the cells of the buffer, the signal and the flag *)
(* `locked'.  The thread that waits for the signal goes on when it is free, *)
(* as module OsKernel shows.                                                *)
(***************************************************************************)
EXTENDS Integers, Sequences

CONSTANTS
    Size,      \* the size of the buffer
    Values,    \* the bytes
    Lengths,   \* how many bytes a thread puts or gets at once
    PcCalls    \* the functions the consumers on the PC use

ASSUME FifoAssumption ==
    /\ Size \in 1 .. 255
    /\ Lengths \subseteq 1 .. Size
    /\ 1 \in Lengths
    /\ PcCalls \subseteq {"data", "byte"}

VARIABLES
    side,       \* who the two are: "rx": the producer is an interrupt, "tx": the consumer
                \* is one, "robot" and "pc": both are threads
    count,
    buffer,
    pread,      \* the index of the next byte to read; read2end is Size - pread
    pwrite,
    signal,     \* signal.value, 1 if the consumer shall wait
    overflow,
    locked,
    prod,       \* the producing thread: its place and the rest of its block
    cons,       \* the consuming thread: its place, what it wants and has
    accepted,   \* history: the last block that was put
    delivered,  \* history: the last block that was got
    news        \* history: changes with every byte that is put alone, dropped or not

fifoVars == <<side, count, buffer, pread, pwrite, signal, overflow, locked,
              prod, cons, accepted, delivered, news>>

Blocks == UNION {[1 .. n -> Values] : n \in Lengths}
UpTo(n) == UNION {[1 .. k -> Values] : k \in 0 .. n}

(* fifo_get_data() and _inline_fifo_get() *)
Calls == {"data", "byte"}

Sides == {"rx", "tx", "robot", "pc"}

Next1(i) == (i + 1) % Size
Idle == [pc |-> "idle", block |-> <<>>, rest |-> <<>>]
Away == [pc |-> "idle", call |-> "byte", want |-> 0, got |-> <<>>]

FifoInit ==
    /\ side \in Sides
    /\ count = 0
    /\ buffer \in [0 .. Size - 1 -> Values]
    /\ pread = 0
    /\ pwrite = 0
    /\ signal = 0
    /\ overflow = FALSE
    /\ locked = 0
    /\ prod = Idle
    /\ cons = Away
    /\ accepted = <<>>
    /\ delivered = <<>>
    /\ news = 0

-----------------------------------------------------------------------------
(* The producer *)
ReadSide == <<side, pread, locked, cons, delivered>>

(* Without room the block is dropped, and a caller that asked to block      *)
(* waits before until nobody reads.                                         *)
fifo_put_data(block, wait) ==
    /\ side # "rx"
    /\ prod.pc = "idle"
    /\ IF Len(block) > Size - count
       THEN /\ overflow' = TRUE
            /\ prod' = IF wait THEN [Idle EXCEPT !.pc = "wait"] ELSE Idle
       ELSE /\ prod' = [pc |-> "copy", block |-> block, rest |-> block]
            /\ UNCHANGED overflow
    /\ UNCHANGED <<ReadSide, news, count, buffer, pwrite, signal, accepted>>

GiveUp ==
    /\ prod.pc = "wait"
    /\ locked = 0
    /\ prod' = Idle
    /\ UNCHANGED <<ReadSide, news, count, buffer, pwrite, signal, overflow, accepted>>

(* _inline_fifo_put(): a full FIFO wakes the consumer. *)
PutByte(v) ==
    /\ side # "rx"
    /\ prod.pc = "idle"
    /\ IF count = Size
       THEN /\ overflow' = TRUE
            /\ signal' = 0
            /\ UNCHANGED prod
       ELSE /\ prod' = [pc |-> "copy", block |-> <<v>>, rest |-> <<v>>]
            /\ UNCHANGED <<overflow, signal>>
    /\ news' = 1 - news
    /\ UNCHANGED <<ReadSide, count, buffer, pwrite, accepted>>

(* Mutant of CopyIn: the pointer is not stored back. *)
CopyInPlace ==
    /\ prod.pc = "copy"
    /\ buffer' = [buffer EXCEPT ![pwrite] = Head(prod.rest)]
    /\ prod' = [prod EXCEPT !.rest = Tail(@), !.pc = IF Len(prod.rest) = 1 THEN "count" ELSE @]
    /\ UNCHANGED <<ReadSide, news, count, pwrite, signal, overflow, accepted>>

CopyIn ==
    /\ prod.pc = "copy"
    /\ buffer' = [buffer EXCEPT ![pwrite] = Head(prod.rest)]
    /\ pwrite' = Next1(pwrite)
    /\ prod' = [prod EXCEPT !.rest = Tail(@), !.pc = IF Len(prod.rest) = 1 THEN "count" ELSE @]
    /\ UNCHANGED <<ReadSide, news, count, signal, overflow, accepted>>

(* Mutant of CountIn: the consumer counts down between read and write. *)
CountInStale ==
    /\ prod.pc = "count"
    /\ count' \in {(c + Len(prod.block)) % 256 : c \in count .. Size}
    /\ prod' = [prod EXCEPT !.pc = "wake"]
    /\ accepted' = prod.block
    /\ UNCHANGED <<ReadSide, news, buffer, pwrite, signal, overflow>>

CountIn ==
    /\ prod.pc = "count"
    /\ count' = (count + Len(prod.block)) % 256
    /\ prod' = [prod EXCEPT !.pc = "wake"]
    /\ accepted' = prod.block
    /\ UNCHANGED <<ReadSide, news, buffer, pwrite, signal, overflow>>

WakeConsumer ==
    /\ prod.pc = "wake"
    /\ signal' = 0
    /\ prod' = Idle
    /\ UNCHANGED <<ReadSide, news, count, buffer, pwrite, overflow, accepted>>

(* Mutant of Receive: a full FIFO does not wake the consumer. *)
ReceiveSilently(v) ==
    /\ side = "rx"
    /\ IF count = Size
       THEN overflow' = TRUE /\ UNCHANGED <<count, buffer, pwrite, accepted, signal>>
       ELSE /\ buffer' = [buffer EXCEPT ![pwrite] = v]
            /\ pwrite' = Next1(pwrite)
            /\ count' = (count + 1) % 256
            /\ accepted' = <<v>>
            /\ signal' = 0
            /\ UNCHANGED overflow
    /\ news' = 1 - news
    /\ UNCHANGED <<ReadSide, prod>>

(* The receive interrupt: _inline_fifo_put() as a whole. *)
Receive(v) ==
    /\ side = "rx"
    /\ IF count = Size
       THEN overflow' = TRUE /\ UNCHANGED <<count, buffer, pwrite, accepted>>
       ELSE /\ buffer' = [buffer EXCEPT ![pwrite] = v]
            /\ pwrite' = Next1(pwrite)
            /\ count' = (count + 1) % 256
            /\ accepted' = <<v>>
            /\ UNCHANGED overflow
    /\ signal' = 0
    /\ news' = 1 - news
    /\ UNCHANGED <<ReadSide, prod>>

-----------------------------------------------------------------------------
(* The consumer *)
(* A thread of lower priority does not run while the producer can. *)
Turn == side = "robot" => prod.pc \in {"idle", "wait"}

WriteSide == <<side, buffer, pwrite, overflow, prod, accepted, news>>

Get(call, n) ==
    /\ Turn
    /\ side # "tx"
    /\ cons.pc = "idle"
    /\ call = "byte" => n = 1
    /\ side = "pc" => call \in PcCalls
    /\ cons' = [pc |-> "test", call |-> call, want |-> n, got |-> <<>>]
    /\ UNCHANGED <<WriteSide, count, pread, signal, locked, delivered>>

(* fifo_get_data() tests the count again when it has waited. *)
TestCount ==
    /\ Turn
    /\ cons.pc = "test"
    /\ cons' = [cons EXCEPT !.pc = IF count < cons.want THEN "block"
                                   ELSE IF cons.call = "data" THEN "lock" ELSE "copy"]
    /\ UNCHANGED <<WriteSide, count, pread, signal, locked, delivered>>

LockSignal ==
    /\ Turn
    /\ cons.pc = "block"
    /\ signal' = 1
    /\ cons' = [cons EXCEPT !.pc = "waiting"]
    /\ UNCHANGED <<WriteSide, count, pread, locked, delivered>>

(* Mutant of Woken: fifo_get_data() trusts the signal, too. *)
WokenTrusting ==
    /\ Turn
    /\ cons.pc = "waiting"
    /\ signal = 0
    /\ cons' = [cons EXCEPT !.pc = "copy"]
    /\ UNCHANGED <<WriteSide, count, pread, signal, locked, delivered>>

(* os_signal_set() returns. *)
Woken ==
    /\ Turn
    /\ cons.pc = "waiting"
    /\ signal = 0
    /\ cons' = [cons EXCEPT !.pc = IF cons.call = "data" THEN "test" ELSE "copy"]
    /\ UNCHANGED <<WriteSide, count, pread, signal, locked, delivered>>

LockFifo ==
    /\ Turn
    /\ cons.pc = "lock"
    /\ locked' = 1
    /\ cons' = [cons EXCEPT !.pc = "copy"]
    /\ UNCHANGED <<WriteSide, count, pread, signal, delivered>>

CopyOut ==
    /\ Turn
    /\ cons.pc = "copy"
    /\ cons' = [cons EXCEPT !.got = Append(@, buffer[pread]),
                            !.pc = IF Len(cons.got) = cons.want - 1 THEN "count" ELSE @]
    /\ pread' = Next1(pread)
    /\ UNCHANGED <<WriteSide, count, signal, locked, delivered>>

CountOut ==
    /\ Turn
    /\ cons.pc = "count"
    /\ count' = (count - cons.want) % 256
    /\ delivered' = cons.got
    /\ cons' = IF cons.call = "data" THEN [Away EXCEPT !.pc = "unlock"] ELSE Away
    /\ UNCHANGED <<WriteSide, pread, signal, locked>>

UnlockFifo ==
    /\ Turn
    /\ cons.pc = "unlock"
    /\ locked' = 0
    /\ cons' = Away
    /\ UNCHANGED <<WriteSide, count, pread, signal, delivered>>

(* The transmit interrupt: _inline_fifo_get() as a whole. *)
Transmit ==
    /\ side = "tx"
    /\ count > 0
    /\ delivered' = <<buffer[pread]>>
    /\ pread' = Next1(pread)
    /\ count' = (count - 1) % 256
    /\ UNCHANGED <<WriteSide, signal, locked, cons>>

-----------------------------------------------------------------------------
ProducerCalls ==
    \/ \E b \in Blocks, wait \in BOOLEAN : fifo_put_data(b, wait)
    \/ \E v \in Values : PutByte(v)
ProducerStep == GiveUp \/ CopyIn \/ CountIn \/ WakeConsumer
ConsumerCalls == \E call \in Calls, n \in Lengths : Get(call, n)
ConsumerStep ==
    TestCount \/ LockSignal \/ Woken \/ LockFifo \/ CopyOut \/ CountOut \/ UnlockFifo

FifoNext ==
    \/ ProducerCalls
    \/ ProducerStep
    \/ \E v \in Values : Receive(v)
    \/ ConsumerCalls
    \/ ConsumerStep
    \/ Transmit

(* Threads that can go on get the processor again and again, and the UART   *)
(* transmits as long as there is data.                                      *)
FifoSpec ==
    /\ FifoInit
    /\ [][FifoNext]_fifoVars
    /\ WF_fifoVars(ProducerStep)
    /\ WF_fifoVars(ConsumerStep)
    /\ WF_fifoVars(Transmit)

-----------------------------------------------------------------------------
(* The counters stay in the buffer, and each side is at a place of its code. *)
FifoTypeOK ==
    /\ side \in Sides
    /\ count \in 0 .. Size
    /\ buffer \in [0 .. Size - 1 -> Values]
    /\ pread \in 0 .. Size - 1 /\ pwrite \in 0 .. Size - 1
    /\ signal \in {0, 1} /\ locked \in {0, 1} /\ overflow \in BOOLEAN
    /\ prod \in [pc : {"idle", "wait", "copy", "count", "wake"}, block : UpTo(Size), rest : UpTo(Size)]
    /\ cons \in [pc : {"idle", "test", "block", "waiting", "lock", "copy", "count", "unlock"},
                 call : Calls, want : 0 .. Size, got : UpTo(Size)]
    /\ accepted \in UpTo(Size) /\ delivered \in UpTo(Size)
    /\ news \in {0, 1}

(* The bytes that are stored, from the first one that is not yet given back. *)
Stored == [k \in 1 .. count |-> buffer[(pread - Len(cons.got) + k - 1) % Size]]

Queue == INSTANCE BoundedQueue WITH queue <- Stored

(* Whichever side is an interrupt, and however the steps of the two sides   *)
(* interleave: no byte is lost, doubled or overtaken, and none is           *)
(* overwritten while it is read.  fifo.c:26: safe as long as producer and   *)
(* consumer are each on one level of interrupts.                            *)
ImplementsQueue == Queue!QueueSpec

(* The consumer reads only bytes that are there.  fifo.h:158-159: the next  *)
(* byte of the FIFO, waiting if it is empty.                                *)
GetsWhatIsThere == cons.pc \in {"lock", "copy", "count"} => cons.want <= count

(* In the buffer, and only what is there. *)
FifoInv == FifoTypeOK /\ GetsWhatIsThere

Waits == cons.pc = "waiting"

(* A consumer does not sleep for ever while bytes keep coming: even a byte  *)
(* that finds the FIFO full wakes it (fifo.h:122-131).                      *)
NewsWakeConsumer ==
    []<>(news = 0) /\ []<>(news = 1) => []<>~Waits

=============================================================================
