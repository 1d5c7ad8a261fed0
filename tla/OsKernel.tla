------------------------------- MODULE OsKernel -------------------------------
(***************************************************************************)
(* The operating system of the robot (mcu/os_thread.c, mcu/os_scheduler.c,  *)
(* include/os_thread.h): threads with fixed priorities, each on a stack of  *)
(* its own, a scheduler lock, signals to wait for and the timer interrupt   *)
(* (mcu/timer-low.c) that schedules about once a millisecond.               *)
(*                                                                          *)
(* The processor executes the topmost frame of one stack.  A step is what   *)
(* an interrupt cannot divide, as far as shared variables are concerned.    *)
(***************************************************************************)
EXTENDS Integers, Sequences

CONSTANTS
    ThreadCount,     \* the threads; 0 has the highest priority, the last is idle
    OS_MAX_THREADS,
    Signals,
    Dummy,           \* &dummy_signal, whose value is always 0
    RxSignals,       \* the signals of FIFOs that an interrupt fills
    Interruptible    \* the places at which, or in whose calls, the timer interrupt may come

ASSUME KernelAssumption ==
    /\ ThreadCount \in Nat \ {0, 1}
    /\ OS_MAX_THREADS \in Nat /\ ThreadCount <= OS_MAX_THREADS
    /\ Dummy \notin Signals
    /\ RxSignals \subseteq Signals

VARIABLES
    os_scheduling_allowed,  \* 1: yes, 0: locked, 2: locked and a request is waiting
    os_thread_running,
    sp,        \* whose stack the processor uses
    saved,     \* the field `stack' of each thread: whose stack it points to
    stack,     \* the frames of each stack, topmost first
    wait_for,
    value,     \* the value of each signal, 1 if it is locked
    asleep     \* the threads whose nextSchedule is still to come

kernelVars == <<os_scheduling_allowed, os_thread_running, sp, saved, stack, wait_for, value, asleep>>
threadVars == <<wait_for, value, asleep>>
cpuVars == <<os_thread_running, sp, saved>>

Threads == 0 .. ThreadCount - 1
Idle == ThreadCount - 1

(* Places in the code of a thread, of os_schedule() and of the interrupt.   *)
UserPlaces == {"user", "cs", "blocked", "yield", "leave"}
SchedulePlaces == {"enter", "defer", "begin", "scan", "picked", "switch", "release"}
Places == UserPlaces \cup SchedulePlaces \cup {"isr", "reti"}

(* A frame: the place, whether interrupts are off there, and the local      *)
(* variables of os_schedule(): the slot, the end of the loop, the threads   *)
(* to switch from and to.                                                   *)
Frame(place, off) == [pc |-> place, off |-> off, i |-> 0, end |-> 0, from |-> 0]

Top == Head(stack[sp])
At(place) == Top.pc = place

Goto(place) == [stack EXCEPT ![sp] = <<[Top EXCEPT !.pc = place]>> \o Tail(@)]
Return == [stack EXCEPT ![sp] = Tail(@)]

(* The search is over and its local variables are dead.                     *)
Found == [stack EXCEPT ![sp] = <<Frame("release", Top.off)>> \o Tail(@)]

(* The topmost frame goes to place and calls os_schedule(). *)
Schedule(place, off) ==
    [stack EXCEPT ![sp] = <<Frame("enter", off), Frame(place, off)>> \o Tail(@)]

(* A new thread looks as if it had been interrupted and returns first into  *)
(* os_exitCS().  The main thread runs.                                      *)
KernelInit ==
    /\ os_scheduling_allowed = 1
    /\ os_thread_running = 0
    /\ sp = 0
    /\ saved = [t \in Threads |-> t]
    /\ stack = [t \in Threads |-> <<Frame(IF t = 0 THEN "user" ELSE "leave", FALSE)>>]
    /\ wait_for = [t \in Threads |-> Dummy]
    /\ value = [s \in Signals |-> 0]
    /\ asleep = {}

-----------------------------------------------------------------------------
(* What threads do; the idle thread does nothing of this. *)
Working(place) == At(place) /\ sp # Idle

os_enterCS ==
    /\ Working("user")
    /\ os_scheduling_allowed' = 0
    /\ stack' = Goto("cs")
    /\ UNCHANGED <<cpuVars, threadVars>>

(* Also the end of os_thread_yield() and the start of a thread.             *)
os_exitCS ==
    /\ At("cs") \/ At("leave")
    /\ os_scheduling_allowed' = 1
    /\ stack' = IF os_scheduling_allowed = 2 THEN Schedule("user", FALSE) ELSE Goto("user")
    /\ UNCHANGED <<cpuVars, threadVars>>

os_signal_lock(s) ==
    /\ Working("user")
    /\ value' = [value EXCEPT ![s] = 1]
    /\ UNCHANGED <<os_scheduling_allowed, cpuVars, stack, wait_for, asleep>>

os_signal_set(s) ==
    /\ Working("user")
    /\ wait_for' = [wait_for EXCEPT ![os_thread_running] = s]
    /\ stack' = Schedule("blocked", FALSE)
    /\ UNCHANGED <<os_scheduling_allowed, cpuVars, value, asleep>>

os_signal_release ==
    /\ At("blocked")
    /\ wait_for' = [wait_for EXCEPT ![os_thread_running] = Dummy]
    /\ stack' = Goto("user")
    /\ UNCHANGED <<os_scheduling_allowed, cpuVars, value, asleep>>

(* Called within critical sections, too (a command that is written to a     *)
(* FIFO, command.c:442-458).                                                *)
os_signal_unlock(s) ==
    /\ Working("user") \/ Working("cs")
    /\ value' = [value EXCEPT ![s] = 0]
    /\ stack' = Schedule(Top.pc, FALSE)
    /\ UNCHANGED <<os_scheduling_allowed, cpuVars, wait_for, asleep>>

os_thread_sleep ==
    /\ Working("user")
    /\ asleep' = asleep \cup {os_thread_running}
    /\ stack' = Schedule("user", FALSE)
    /\ UNCHANGED <<os_scheduling_allowed, cpuVars, wait_for, value>>

os_thread_yield ==
    /\ Working("user")
    /\ os_scheduling_allowed' = 0
    /\ stack' = Goto("yield")
    /\ UNCHANGED <<cpuVars, threadVars>>

(* The rest of the time slice is given away, if there is any. *)
GiveAway(rest) ==
    /\ At("yield")
    /\ IF rest THEN /\ asleep' = asleep \cup {os_thread_running}
                    /\ os_scheduling_allowed' = 2
               ELSE UNCHANGED <<asleep, os_scheduling_allowed>>
    /\ stack' = Goto("leave")
    /\ UNCHANGED <<cpuVars, wait_for, value>>

-----------------------------------------------------------------------------
(* os_schedule() *)

(* Mutant of Enter: the lock is not looked at. *)
EnterAnyway ==
    /\ At("enter")
    /\ os_scheduling_allowed' = 0
    /\ stack' = Goto("begin")
    /\ UNCHANGED <<cpuVars, threadVars>>

Enter ==
    /\ At("enter")
    /\ os_scheduling_allowed' = 0
    /\ stack' = Goto(IF os_scheduling_allowed = 1 THEN "begin" ELSE "defer")
    /\ UNCHANGED <<cpuVars, threadVars>>

Defer ==
    /\ At("defer")
    /\ os_scheduling_allowed' = 2
    /\ stack' = Return
    /\ UNCHANGED <<cpuVars, threadVars>>

(* The counter of the loop starts at os_scheduling_allowed, the pointer at  *)
(* the first slot: in another round the loop ends one slot early.           *)
Begin ==
    /\ At("begin")
    /\ stack' = [stack EXCEPT ![sp] =
           <<[Top EXCEPT !.pc = "scan", !.i = 0, !.end = OS_MAX_THREADS - os_scheduling_allowed]>>
               \o Tail(@)]
    /\ UNCHANGED <<os_scheduling_allowed, cpuVars, threadVars>>

(* Mutant of Runnable: signals are not looked at. *)
RunnableUnlessAsleep(t) == t \in Threads \ asleep

Runnable(t) == /\ t \in Threads \ asleep
               /\ wait_for[t] = Dummy \/ value[wait_for[t]] = 0

(* Mutant of Scan: the search does not end at the thread that runs. *)
ScanPastRunning ==
    /\ At("scan")
    /\ stack' = IF Top.i >= Top.end THEN Found
                ELSE IF ~Runnable(Top.i) \/ Top.i = os_thread_running
                     THEN [stack EXCEPT ![sp] = <<[Top EXCEPT !.i = @ + 1]>> \o Tail(@)]
                     ELSE Goto("picked")
    /\ UNCHANGED <<os_scheduling_allowed, cpuVars, threadVars>>

Scan ==
    /\ At("scan")
    /\ stack' = IF Top.i >= Top.end \/ (Runnable(Top.i) /\ Top.i = os_thread_running) THEN Found
                ELSE IF Runnable(Top.i) THEN Goto("picked")
                ELSE [stack EXCEPT ![sp] = <<[Top EXCEPT !.i = @ + 1]>> \o Tail(@)]
    /\ UNCHANGED <<os_scheduling_allowed, cpuVars, threadVars>>

(* os_switch_thread(): its first statement ... *)
Pick ==
    /\ At("picked")
    /\ os_thread_running' = Top.i
    /\ stack' = [stack EXCEPT ![sp] =
           <<[Top EXCEPT !.pc = "switch", !.from = os_thread_running]>> \o Tail(@)]
    /\ UNCHANGED <<os_scheduling_allowed, sp, saved, threadVars>>

(* Mutant of Switch: the stack pointer is saved for the new thread. *)
SwitchSavesWrong ==
    /\ At("switch")
    /\ saved' = [saved EXCEPT ![os_thread_running] = sp]
    /\ sp' = saved[Top.i]
    /\ stack' = Found
    /\ UNCHANGED <<os_scheduling_allowed, os_thread_running, threadVars>>

(* ... and the rest, with interrupts off; the registers come from the stack *)
(* of the other thread, which goes on where it called the scheduler.        *)
Switch ==
    /\ At("switch")
    /\ saved' = [saved EXCEPT ![Top.from] = sp]
    /\ sp' = saved[Top.i]
    /\ stack' = Found
    /\ UNCHANGED <<os_scheduling_allowed, os_thread_running, threadVars>>

Release ==
    /\ At("release")
    /\ os_scheduling_allowed' = 1
    /\ stack' = IF os_scheduling_allowed = 2 THEN Goto("begin") ELSE Return
    /\ UNCHANGED <<cpuVars, threadVars>>

-----------------------------------------------------------------------------
(* Mutant of Tick: it may come again before it is over. *)
TickNests ==
    /\ ~Top.off
    /\ os_scheduling_allowed' = 0
    /\ asleep' \in SUBSET asleep
    /\ stack' = [stack EXCEPT ![sp] = <<Frame("isr", FALSE)>> \o @]
    /\ UNCHANGED <<cpuVars, wait_for, value>>

(* The timer interrupt locks the scheduler and allows interrupts again; it  *)
(* is over before the next tick.  Time has passed: sleepers may be due.     *)
Tick ==
    /\ ~Top.off
    /\ \A k \in 1 .. Len(stack[sp]) : stack[sp][k].pc \in Interruptible
    /\ os_scheduling_allowed' = 0
    /\ asleep' \in SUBSET asleep
    /\ stack' = [stack EXCEPT ![sp] = <<Frame("isr", FALSE)>> \o @]
    /\ UNCHANGED <<cpuVars, wait_for, value>>

(* Its end, with interrupts off: whatever the lock was before, it is open   *)
(* now, and when a millisecond is over the scheduler is called.             *)
TickEnds(slice) ==
    /\ At("isr")
    /\ os_scheduling_allowed' = 1
    /\ stack' = IF os_scheduling_allowed = 2 \/ slice THEN Schedule("reti", TRUE) ELSE Return
    /\ UNCHANGED <<cpuVars, threadVars>>

ReturnFromTick ==
    /\ At("reti")
    /\ stack' = Return
    /\ UNCHANGED <<os_scheduling_allowed, cpuVars, threadVars>>

(* Another interrupt puts data in a FIFO and frees its signal, but does not *)
(* call the scheduler (include/fifo.h:138-142).                             *)
Receive(s) ==
    /\ ~Top.off
    /\ value' = [value EXCEPT ![s] = 0]
    /\ UNCHANGED <<os_scheduling_allowed, cpuVars, stack, wait_for, asleep>>

ThreadStep ==
    \/ os_enterCS
    \/ os_thread_sleep
    \/ os_thread_yield
    \/ \E s \in Signals : os_signal_lock(s) \/ os_signal_set(s) \/ os_signal_unlock(s)

SystemStep ==
    \/ os_exitCS
    \/ os_signal_release
    \/ \E rest \in BOOLEAN : GiveAway(rest)
    \/ Enter
    \/ Defer
    \/ Begin
    \/ Scan
    \/ Pick
    \/ Switch
    \/ Release
    \/ \E slice \in BOOLEAN : TickEnds(slice)
    \/ ReturnFromTick

KernelNext ==
    \/ ThreadStep
    \/ SystemStep
    \/ Tick
    \/ \E s \in RxSignals : Receive(s)

(* The processor goes on and the timer ticks for ever, each millisecond     *)
(* with a call of the scheduler.  Threads may compute as long as they like, *)
(* but not in a critical section.                                           *)
KernelSpec ==
    /\ KernelInit
    /\ [][KernelNext]_kernelVars
    /\ WF_kernelVars(SystemStep)
    /\ SF_kernelVars(os_exitCS)
    /\ SF_kernelVars(Tick)
    /\ SF_kernelVars(TickEnds(TRUE))
-----------------------------------------------------------------------------
(* Frames of at most one system call, one interrupt and its call of the     *)
(* scheduler lie on a stack, and every field has its type.                  *)
KernelTypeOK ==
    /\ os_scheduling_allowed \in {0, 1, 2}
    /\ os_thread_running \in Threads
    /\ sp \in Threads
    /\ saved \in [Threads -> Threads]
    /\ wait_for \in [Threads -> Signals \cup {Dummy}]
    /\ value \in [Signals -> {0, 1}]
    /\ asleep \in SUBSET (Threads \ {Idle})
    /\ \A t \in Threads :
           /\ Len(stack[t]) \in 1 .. 4
           /\ \A k \in 1 .. Len(stack[t]) : stack[t][k].pc \in Places

(* Each stack belongs to one thread: the control block of a thread that     *)
(* does not run points to its own stack, on which it waits for the end of   *)
(* os_schedule() (or for its first start), and the processor uses the stack *)
(* of the thread that runs, but for the moment of the switch                *)
(* (os_thread.c:157-165).                                                   *)
StacksAreOwned ==
    /\ \A t \in Threads \ {sp} : saved[t] = t /\ Head(stack[t]).pc \in {"release", "leave"}
    /\ sp = os_thread_running \/ At("switch")

(* Types, and os_thread.c:157: no two threads share a stack.                *)
KernelInv == KernelTypeOK /\ StacksAreOwned

InCS(t) == \E k \in 1 .. Len(stack[t]) : stack[t][k].pc = "cs"

(* os_thread.h:151: os_enterCS() protects the block up to os_exitCS() from  *)
(* thread switches.                                                         *)
CsIsProtected == \A t \in Threads \ {sp} : ~InCS(t)

(* os_thread.c:149-150: os_signal_set() blocks the thread until the signal  *)
(* is free; it does not return while it is locked.                          *)
SetBlocks ==
    [][\A t \in Threads :
        /\ Len(stack[t]) = 2
        /\ Head(stack[t]).pc \in {"release", "defer"}
        /\ stack[t][2].pc = "blocked"
        /\ Len(stack'[t]) = 1
        /\ wait_for[t] # Dummy
        => value[wait_for[t]] = 0]_kernelVars

(* The thread of the highest priority among those that can run. *)
Highest(t) == Runnable(t) /\ \A u \in 0 .. t - 1 : ~Runnable(u)

(* A thread that stays the most important runnable one gets the processor   *)
(* and keeps it, whatever requests to schedule were lost (os_scheduler.c:   *)
(* 229: the schedule is by priority).                                       *)
HighestRuns == \A t \in Threads : <>[]Highest(t) => <>[](sp = t)
=============================================================================
