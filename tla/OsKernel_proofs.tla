----------------------------- MODULE OsKernel_proofs -----------------------------
(***************************************************************************)
(* Proofs about the kernel of the robot, for any number of threads and of   *)
(* signals, and for every set of places at which the timer interrupt may    *)
(* come that leaves the switch of the stacks alone.                         *)
(***************************************************************************)
EXTENDS OsKernel, SequenceTheorems, TLAPS

-----------------------------------------------------------------------------
(* The stacks as sequences: what the four ways to change one do to it.      *)

LEMMA TopReplaced ==
    ASSUME NEW F, NEW s \in Seq(F), s # <<>>, NEW f \in F
    PROVE  LET u == <<f>> \o Tail(s)
           IN  /\ u \in Seq(F) /\ Len(u) = Len(s) /\ Head(u) = f /\ u[1] = f
               /\ \A k \in 2 .. Len(s) : u[k] = s[k]
<1>1. Tail(s) \in Seq(F) /\ Len(Tail(s)) = Len(s) - 1 /\ \A i \in 1 .. Len(Tail(s)) : Tail(s)[i] = s[i + 1]
  BY HeadTailProperties
<1>2. <<f>> \in Seq(F) /\ Len(<<f>>) = 1 /\ <<f>>[1] = f
  OBVIOUS
<1>3. Len(s) \in Nat \ {0}
  BY EmptySeq
<1> DEFINE u == <<f>> \o Tail(s)
<1>4. u \in Seq(F) /\ Len(u) = Len(s) /\ \A i \in 1 .. Len(s) : u[i] = IF i <= 1 THEN <<f>>[i] ELSE Tail(s)[i - 1]
  BY <1>1, <1>2, <1>3, ConcatProperties
<1>5. u[1] = f /\ \A k \in 2 .. Len(s) : u[k] = s[k]
  <2> HIDE DEF u
  <2> QED BY <1>1, <1>2, <1>3, <1>4
<1>6. Head(u) = u[1]
  <2> HIDE DEF u
  <2> QED BY <1>3, <1>4
<1> QED BY <1>4, <1>5, <1>6

LEMMA Pushed ==
    ASSUME NEW F, NEW s \in Seq(F), NEW f \in F
    PROVE  LET u == <<f>> \o s
           IN  /\ u \in Seq(F) /\ Len(u) = Len(s) + 1 /\ Head(u) = f /\ u[1] = f
               /\ \A k \in 2 .. Len(u) : u[k] = s[k - 1]
<1>1. <<f>> \in Seq(F) /\ Len(<<f>>) = 1 /\ <<f>>[1] = f /\ Len(s) \in Nat
  OBVIOUS
<1> DEFINE u == <<f>> \o s
<1>2. u \in Seq(F) /\ Len(u) = 1 + Len(s) /\ \A i \in 1 .. 1 + Len(s) : u[i] = IF i <= 1 THEN <<f>>[i] ELSE s[i - 1]
  BY <1>1, ConcatProperties
<1>3. u[1] = f /\ \A k \in 2 .. Len(u) : u[k] = s[k - 1]
  <2> HIDE DEF u
  <2> QED BY <1>1, <1>2
<1>4. Head(u) = u[1]
  <2> HIDE DEF u
  <2> QED BY <1>1, <1>2
<1> QED BY <1>1, <1>2, <1>3, <1>4

LEMMA TopCalls ==
    ASSUME NEW F, NEW s \in Seq(F), s # <<>>, NEW f \in F, NEW g \in F
    PROVE  LET u == <<f, g>> \o Tail(s)
           IN  /\ u \in Seq(F) /\ Len(u) = Len(s) + 1 /\ Head(u) = f /\ u[1] = f /\ u[2] = g
               /\ \A k \in 3 .. Len(u) : u[k] = s[k - 1]
<1>1. Tail(s) \in Seq(F) /\ Len(Tail(s)) = Len(s) - 1 /\ \A i \in 1 .. Len(Tail(s)) : Tail(s)[i] = s[i + 1]
  BY HeadTailProperties
<1>2. <<f, g>> \in Seq(F) /\ Len(<<f, g>>) = 2 /\ <<f, g>>[1] = f /\ <<f, g>>[2] = g
  OBVIOUS
<1>3. Len(s) \in Nat \ {0}
  BY EmptySeq
<1> DEFINE u == <<f, g>> \o Tail(s)
<1>4. /\ u \in Seq(F) /\ Len(u) = Len(s) + 1
      /\ \A i \in 1 .. Len(s) + 1 : u[i] = IF i <= 2 THEN <<f, g>>[i] ELSE Tail(s)[i - 2]
  BY <1>1, <1>2, <1>3, ConcatProperties
<1>5. u[1] = f /\ u[2] = g /\ \A k \in 3 .. Len(u) : u[k] = s[k - 1]
  <2> HIDE DEF u
  <2> QED BY <1>1, <1>2, <1>3, <1>4
<1>6. Head(u) = u[1]
  <2> HIDE DEF u
  <2> QED BY <1>3, <1>4
<1> QED BY <1>4, <1>5, <1>6

LEMMA TopReturns ==
    ASSUME NEW F, NEW s \in Seq(F), Len(s) > 1
    PROVE  LET u == Tail(s)
           IN  /\ u \in Seq(F) /\ Len(u) = Len(s) - 1 /\ Head(u) = s[2]
               /\ \A k \in 1 .. Len(u) : u[k] = s[k + 1]
<1>1. s # <<>>
  BY EmptySeq
<1> DEFINE u == Tail(s)
<1>2. u \in Seq(F) /\ Len(u) = Len(s) - 1 /\ \A k \in 1 .. Len(u) : u[k] = s[k + 1]
  BY <1>1, HeadTailProperties
<1>3. Head(u) = s[2]
  <2> HIDE DEF u
  <2> QED BY <1>2
<1> QED BY <1>2, <1>3

-----------------------------------------------------------------------------
(* What a stack may look like: a frame of the thread itself at the bottom,  *)
(* on it at most one call of the scheduler, on that at most one timer       *)
(* interrupt, which may have called the scheduler in its turn.              *)
FrameType == [pc : Places, off : BOOLEAN, i : Nat, end : Int, from : Threads]

PlainAbove(s, n) ==
    \/ Len(s) = n + 1 /\ s[n + 1].pc \in UserPlaces
    \/ /\ Len(s) = n + 2
       /\ s[n + 1].pc \in SchedulePlaces
       /\ s[n + 2].pc \in {"user", "cs", "blocked"}

Shape(s) ==
    \/ PlainAbove(s, 0)
    \/ PlainAbove(s, 1) /\ s[1].pc \in {"isr", "reti"}
    \/ PlainAbove(s, 2) /\ s[1].pc \in SchedulePlaces /\ s[2].pc = "reti"

Base(s) == s[Len(s)].pc

(* u is s with another frame on top, with a frame more, without its top.    *)
Replaced(s, u) == Len(u) = Len(s) /\ \A k \in 2 .. Len(s) : u[k] = s[k]
Grown(s, u) == Len(u) = Len(s) + 1 /\ \A k \in 3 .. Len(u) : u[k] = s[k - 1]
Shrunk(s, u) == Len(u) = Len(s) - 1 /\ \A k \in 1 .. Len(u) : u[k] = s[k + 1]

(* A thread is never about to switch to itself, and a switch that has begun *)
(* is not interrupted.  The idle thread does not call the kernel.           *)
StackOK(t, s) ==
    /\ s \in Seq(FrameType)
    /\ Shape(s)
    /\ t = Idle => Base(s) \in {"user", "leave"}
    /\ \A k \in 1 .. Len(s) : s[k].pc \in {"picked", "switch"} => s[k].i \in Threads \ {t}
    /\ \A k \in 2 .. Len(s) : s[k].pc # "switch"

(* The inductive invariant of threads and stacks. *)
Structure ==
    /\ os_scheduling_allowed \in {0, 1, 2}
    /\ os_thread_running \in Threads
    /\ sp \in Threads
    /\ saved \in [Threads -> Threads]
    /\ wait_for \in [Threads -> Signals \cup {Dummy}]
    /\ value \in [Signals -> {0, 1}]
    /\ asleep \in SUBSET (Threads \ {Idle})
    /\ DOMAIN stack = Threads /\ stack = [t \in Threads |-> stack[t]]
    /\ \A t \in Threads : StackOK(t, stack[t])
    /\ StacksAreOwned
    /\ At("switch") => Top.from = sp /\ os_thread_running = Top.i

(* The timer interrupt leaves the switch of the stacks alone, and is over   *)
(* before it comes again.                                                   *)
SwitchIsLeftAlone == Interruptible \cap {"switch", "isr", "reti"} = {}

LEMMA ThreadsExist == /\ Threads \subseteq Nat /\ 0 \in Threads /\ Idle \in Threads /\ Idle # 0
                      /\ \A t \in Threads : t <= Idle
BY KernelAssumption DEF Threads, Idle

LEMMA FramesTyped ==
    ASSUME NEW place \in Places, NEW off \in BOOLEAN
    PROVE  Frame(place, off) \in FrameType /\ Frame(place, off).pc = place
BY ThreadsExist DEF Frame, FrameType

(* Another frame on top, of the same kind. *)
LEMMA ReplacedOK ==
    ASSUME NEW t \in Threads, NEW s, StackOK(t, s), NEW f \in FrameType,
           \/ f.pc \in UserPlaces /\ s[1].pc \in UserPlaces /\ (t = Idle => f.pc \in {"user", "leave"})
           \/ f.pc \in SchedulePlaces /\ s[1].pc \in SchedulePlaces,
           f.pc \in {"picked", "switch"} => f.i \in Threads \ {t}
    PROVE  LET u == <<f>> \o Tail(s)
           IN  StackOK(t, u) /\ Head(u) = f /\ u[1] = f /\ Len(u) = Len(s) /\ Replaced(s, u)
<1> DEFINE u == <<f>> \o Tail(s)
<1>1. s \in Seq(FrameType) /\ s # <<>> /\ Len(s) \in 1 .. 4
  BY DEF StackOK, Shape, PlainAbove
<1>2. /\ u \in Seq(FrameType) /\ Len(u) = Len(s) /\ Head(u) = f /\ u[1] = f
      /\ \A k \in 2 .. Len(s) : u[k] = s[k]
  BY <1>1, TopReplaced
<1> HIDE DEF u
<1>3. Shape(u)
  BY <1>1, <1>2 DEF StackOK, Shape, PlainAbove, UserPlaces, SchedulePlaces
<1>4. t = Idle => Base(u) \in {"user", "leave"}
  BY <1>1, <1>2 DEF StackOK, Shape, PlainAbove, Base, UserPlaces, SchedulePlaces
<1>5. \A k \in 1 .. Len(u) : u[k].pc \in {"picked", "switch"} => u[k].i \in Threads \ {t}
  BY <1>1, <1>2 DEF StackOK
<1>6. \A k \in 2 .. Len(u) : u[k].pc # "switch"
  BY <1>1, <1>2 DEF StackOK
<1> QED BY <1>2, <1>3, <1>4, <1>5, <1>6 DEF StackOK, Replaced, u

(* A thread calls the scheduler. *)
LEMMA ThreadCallsOK ==
    ASSUME NEW t \in Threads, NEW s, StackOK(t, s), NEW place \in {"user", "cs", "blocked"},
           s[1].pc \in UserPlaces, t = Idle => place = "user"
    PROVE  LET u == <<Frame("enter", FALSE), Frame(place, FALSE)>> \o Tail(s)
           IN  /\ StackOK(t, u) /\ Head(u) = Frame("enter", FALSE) /\ Len(u) = 2
               /\ u[2] = Frame(place, FALSE)
<1> DEFINE f == Frame("enter", FALSE)
           g == Frame(place, FALSE)
           u == <<f, g>> \o Tail(s)
<1>1. s \in Seq(FrameType) /\ s # <<>> /\ Len(s) = 1
  BY DEF StackOK, Shape, PlainAbove, UserPlaces, SchedulePlaces
<1>2. f \in FrameType /\ f.pc = "enter" /\ g \in FrameType /\ g.pc = place
  BY FramesTyped DEF Places, UserPlaces, SchedulePlaces
<1> HIDE DEF f, g
<1>3. u \in Seq(FrameType) /\ Len(u) = 2 /\ Head(u) = f /\ u[1] = f /\ u[2] = g
  <2>1. /\ u \in Seq(FrameType) /\ Len(u) = Len(s) + 1 /\ Head(u) = f /\ u[1] = f /\ u[2] = g
    <3>1. s \in Seq(FrameType) /\ s # <<>>
      BY <1>1
    <3> QED BY <3>1, <1>2, TopCalls
  <2> QED BY <2>1, <1>1
<1> HIDE DEF u
<1>4. Shape(u)
  BY <1>2, <1>3 DEF Shape, PlainAbove, SchedulePlaces
<1>5. StackOK(t, u)
  BY <1>2, <1>3, <1>4 DEF StackOK, Base
<1> QED BY <1>3, <1>5 DEF f, g, u

(* The timer interrupt calls the scheduler. *)
LEMMA TickCallsOK ==
    ASSUME NEW t \in Threads, NEW s, StackOK(t, s), s[1].pc = "isr"
    PROVE  LET u == <<Frame("enter", TRUE), Frame("reti", TRUE)>> \o Tail(s)
           IN  /\ StackOK(t, u) /\ Head(u) = Frame("enter", TRUE) /\ Len(u) = Len(s) + 1 /\ Base(u) = Base(s)
               /\ Grown(s, u) /\ u[1].pc = "enter" /\ u[2].pc = "reti"
<1> DEFINE f == Frame("enter", TRUE)
           g == Frame("reti", TRUE)
           u == <<f, g>> \o Tail(s)
<1>1. s \in Seq(FrameType) /\ s # <<>> /\ Len(s) \in {2, 3} /\ PlainAbove(s, 1)
  BY DEF StackOK, Shape, PlainAbove, UserPlaces, SchedulePlaces
<1>2. f \in FrameType /\ f.pc = "enter" /\ g \in FrameType /\ g.pc = "reti"
  BY FramesTyped DEF Places, UserPlaces, SchedulePlaces
<1> HIDE DEF f, g
<1>3. /\ u \in Seq(FrameType) /\ Len(u) = Len(s) + 1 /\ Head(u) = f /\ u[1] = f /\ u[2] = g
      /\ \A k \in 3 .. Len(u) : u[k] = s[k - 1]
  BY <1>1, <1>2, TopCalls
<1> HIDE DEF u
<1>4. Shape(u)
  <2>1. CASE Len(s) = 2
    <3>1. Len(u) = 3 /\ u[3] = s[2] /\ s[2].pc \in UserPlaces
      BY <2>1, <1>1, <1>3 DEF PlainAbove
    <3> QED BY <3>1, <1>2, <1>3 DEF Shape, PlainAbove, SchedulePlaces
  <2>2. CASE Len(s) = 3
    <3>1. /\ Len(u) = 4 /\ u[3] = s[2] /\ u[4] = s[3]
          /\ s[2].pc \in SchedulePlaces /\ s[3].pc \in {"user", "cs", "blocked"}
      BY <2>2, <1>1, <1>3 DEF PlainAbove
    <3> QED BY <3>1, <1>2, <1>3 DEF Shape, PlainAbove, SchedulePlaces
  <2> QED BY <1>1, <2>1, <2>2
<1>5. Base(u) = Base(s)
  BY <1>1, <1>3 DEF Base
<1>6. /\ \A k \in 1 .. Len(u) : u[k].pc \in {"picked", "switch"} => u[k].i \in Threads \ {t}
      /\ \A k \in 2 .. Len(u) : u[k].pc # "switch"
  <2>1. ASSUME NEW k \in 1 .. Len(u), u[k].pc \in {"picked", "switch"}
        PROVE  k >= 3 /\ k - 1 \in 2 .. Len(s) /\ u[k] = s[k - 1]
    BY <1>1, <1>2, <1>3, <2>1
  <2> QED BY <2>1, <1>1 DEF StackOK
<1>7. u[1].pc = "enter" /\ u[2].pc = "reti"
  BY <1>2, <1>3
<1> QED BY <1>3, <1>4, <1>5, <1>6, <1>7 DEF StackOK, Grown, f, g, u

(* A call of the scheduler or the timer interrupt is over. *)
LEMMA ReturnedOK ==
    ASSUME NEW t \in Threads, NEW s, StackOK(t, s), s[1].pc \notin UserPlaces
    PROVE  LET u == Tail(s)
           IN  /\ StackOK(t, u) /\ Head(u) = s[2] /\ Len(u) = Len(s) - 1 /\ Base(u) = Base(s)
               /\ Head(u).pc # "switch" /\ Shrunk(s, u)
<1> DEFINE u == Tail(s)
<1>1. s \in Seq(FrameType) /\ s # <<>> /\ Len(s) \in 2 .. 4
  BY DEF StackOK, Shape, PlainAbove, UserPlaces, SchedulePlaces
<1>2. u \in Seq(FrameType) /\ Len(u) = Len(s) - 1 /\ Head(u) = s[2] /\ \A k \in 1 .. Len(u) : u[k] = s[k + 1]
  BY <1>1, TopReturns
<1> HIDE DEF u
<1>3. Shape(u)
  <2>1. CASE PlainAbove(s, 0)
    BY <2>1, <1>1, <1>2 DEF Shape, PlainAbove, UserPlaces, SchedulePlaces
  <2>2. CASE PlainAbove(s, 1) /\ s[1].pc \in {"isr", "reti"}
    <3>1. u[1] = s[2] /\ (Len(s) = 3 => u[2] = s[3])
      BY <1>1, <1>2
    <3> QED BY <2>2, <3>1, <1>1, <1>2 DEF Shape, PlainAbove
  <2>3. CASE PlainAbove(s, 2) /\ s[1].pc \in SchedulePlaces /\ s[2].pc = "reti"
    <3>1. u[1] = s[2] /\ u[2] = s[3] /\ (Len(s) = 4 => u[3] = s[4])
      BY <2>3, <1>1, <1>2 DEF PlainAbove
    <3> QED BY <2>3, <3>1, <1>1, <1>2 DEF Shape, PlainAbove
  <2> QED BY <2>1, <2>2, <2>3 DEF StackOK, Shape
<1>4. Base(u) = Base(s)
  BY <1>1, <1>2 DEF Base
<1>5. /\ \A k \in 1 .. Len(u) : u[k].pc \in {"picked", "switch"} => u[k].i \in Threads \ {t}
      /\ \A k \in 1 .. Len(u) : u[k].pc # "switch"
  <2>1. ASSUME NEW k \in 1 .. Len(u)
        PROVE  k + 1 \in 2 .. Len(s) /\ u[k] = s[k + 1]
    BY <1>1, <1>2
  <2> QED BY <2>1, <1>1, SMTT(30) DEF StackOK
<1>6. Head(u) = u[1] /\ 1 \in 1 .. Len(u)
  BY <1>1, <1>2
<1> QED BY <1>1, <1>2, <1>3, <1>4, <1>5, <1>6 DEF StackOK, Shrunk, u

(* The timer interrupt comes, at a place where it may. *)
LEMMA TickedOK ==
    ASSUME NEW t \in Threads, NEW s, StackOK(t, s), SwitchIsLeftAlone,
           \A k \in 1 .. Len(s) : s[k].pc \in Interruptible
    PROVE  LET u == <<Frame("isr", FALSE)>> \o s
           IN  /\ StackOK(t, u) /\ Head(u) = Frame("isr", FALSE) /\ Len(u) = Len(s) + 1
               /\ Base(u) = Base(s) /\ u[2] = s[1] /\ u[1].pc = "isr" /\ Grown(s, u)
<1> DEFINE f == Frame("isr", FALSE)
           u == <<f>> \o s
<1>1. s \in Seq(FrameType) /\ Len(s) \in 1 .. 4
  BY DEF StackOK, Shape, PlainAbove
<1>2. f \in FrameType /\ f.pc = "isr"
  BY FramesTyped DEF Places
<1> HIDE DEF f
<1>3. /\ u \in Seq(FrameType) /\ Len(u) = Len(s) + 1 /\ Head(u) = f /\ u[1] = f
      /\ \A k \in 2 .. Len(u) : u[k] = s[k - 1]
  BY <1>1, <1>2, Pushed
<1> HIDE DEF u
<1>4. \A k \in 1 .. Len(s) : s[k].pc \notin {"switch", "isr", "reti"}
  BY DEF SwitchIsLeftAlone
<1>5. PlainAbove(s, 0) /\ Len(s) \in {1, 2}
  <2>1. PlainAbove(s, 0)
    BY <1>1, <1>4 DEF StackOK, Shape, PlainAbove
  <2> QED BY <2>1 DEF PlainAbove
<1>6. Shape(u) /\ u[2] = s[1]
  <2>1. u[2] = s[1] /\ (Len(s) = 2 => u[3] = s[2])
    BY <1>3, <1>5
  <2>2. PlainAbove(u, 1)
    BY <2>1, <1>3, <1>5 DEF PlainAbove
  <2> QED BY <2>1, <2>2, <1>2, <1>3 DEF Shape
<1>7. Base(u) = Base(s)
  <2>1. Len(u) \in 2 .. Len(u) /\ Len(u) - 1 = Len(s)
    BY <1>3, <1>5
  <2> QED BY <2>1, <1>3 DEF Base
<1>8. /\ \A k \in 1 .. Len(u) : u[k].pc \in {"picked", "switch"} => u[k].i \in Threads \ {t}
      /\ \A k \in 2 .. Len(u) : u[k].pc # "switch"
  <2>1. ASSUME NEW k \in 2 .. Len(u)
        PROVE  k - 1 \in 1 .. Len(s) /\ u[k] = s[k - 1]
    BY <1>3, <1>5
  <2>2. u[1].pc = "isr"
    BY <1>2, <1>3
  <2>3. ASSUME NEW k \in 1 .. Len(u), u[k].pc \in {"picked", "switch"}
        PROVE  k \in 2 .. Len(u)
    BY <2>2, <2>3, <1>3
  <2> QED BY <2>1, <2>3, <1>4 DEF StackOK
<1>9. u[1].pc = "isr" /\ \A k \in 3 .. Len(u) : u[k] = s[k - 1]
  BY <1>2, <1>3
<1> QED BY <1>3, <1>6, <1>7, <1>8, <1>9 DEF StackOK, Grown, f, u

-----------------------------------------------------------------------------
(* The steps of the kernel. *)
LEMMA TopOfStack ==
    ASSUME Structure
    PROVE  /\ sp \in Threads /\ StackOK(sp, stack[sp])
           /\ stack[sp] \in Seq(FrameType) /\ Len(stack[sp]) \in 1 .. 4
           /\ Top = stack[sp][1] /\ Top \in FrameType
           /\ ~At("switch") => sp = os_thread_running
<1>1. StackOK(sp, stack[sp]) /\ sp \in Threads
  BY DEF Structure
<1>2. stack[sp] \in Seq(FrameType) /\ Len(stack[sp]) \in 1 .. 4
  BY <1>1 DEF StackOK, Shape, PlainAbove
<1>3. Top = stack[sp][1] /\ Top \in FrameType
  BY <1>2 DEF Top
<1> QED BY <1>1, <1>2, <1>3 DEF Structure, StacksAreOwned

LEMMA FieldsTyped ==
    ASSUME Structure
    PROVE  /\ os_scheduling_allowed \in {0, 1, 2}
           /\ wait_for \in [Threads -> Signals \cup {Dummy}]
           /\ value \in [Signals -> {0, 1}]
           /\ asleep \in SUBSET (Threads \ {Idle})
BY DEF Structure

LEMMA BaseKept ==
    ASSUME NEW s, NEW u, Replaced(s, u), Len(s) \in 2 .. 4
    PROVE  Base(u) = Base(s)
<1>1. Len(u) = Len(s) /\ u[Len(s)] = s[Len(s)]
  BY DEF Replaced
<1> QED BY <1>1 DEF Base

(* A step on the stack in use that neither begins nor ends a switch. *)
LEMMA StructureKept ==
    ASSUME Structure, ~At("switch"),
           NEW u, StackOK(sp, u), Head(u).pc # "switch",
           stack' = [stack EXCEPT ![sp] = u],
           UNCHANGED cpuVars,
           os_scheduling_allowed' \in {0, 1, 2},
           wait_for' \in [Threads -> Signals \cup {Dummy}],
           value' \in [Signals -> {0, 1}],
           asleep' \in SUBSET (Threads \ {Idle})
    PROVE  Structure' /\ stack'[sp] = u /\ \A t \in Threads \ {sp} : stack'[t] = stack[t]
<1>1. /\ DOMAIN stack' = Threads /\ stack' = [t \in Threads |-> stack'[t]]
      /\ stack'[sp] = u /\ \A t \in Threads \ {sp} : stack'[t] = stack[t]
  BY DEF Structure
<1>2. \A t \in Threads : StackOK(t, stack'[t])
  BY <1>1 DEF Structure
<1>3. UNCHANGED <<os_thread_running, sp, saved>>
  BY DEF cpuVars
<1>4. Top' = Head(u)
  BY <1>1, <1>3 DEF Top
<1>5. StacksAreOwned'
  BY <1>1, <1>3 DEF Structure, StacksAreOwned
<1>6. ~At("switch")'
  BY <1>4 DEF At
<1> QED BY <1>1, <1>2, <1>3, <1>5, <1>6 DEF Structure

(* The top frame of the stack in use goes on within its function. *)
LEMMA GoneOn ==
    ASSUME Structure, NEW place \in Places \ {"picked", "switch"},
           \/ place \in UserPlaces /\ Top.pc \in UserPlaces /\ (sp = Idle => place \in {"user", "leave"})
           \/ place \in SchedulePlaces /\ Top.pc \in SchedulePlaces
    PROVE  LET u == <<[Top EXCEPT !.pc = place]>> \o Tail(stack[sp])
           IN  /\ Goto(place) = [stack EXCEPT ![sp] = u]
               /\ StackOK(sp, u) /\ Head(u).pc = place /\ u[1].pc = place /\ Replaced(stack[sp], u)
<1> DEFINE f == [Top EXCEPT !.pc = place]
           u == <<f>> \o Tail(stack[sp])
<1>1. f \in FrameType /\ f.pc = place
  BY TopOfStack DEF FrameType
<1>2. /\ f.pc \notin {"picked", "switch"}
      /\ \/ f.pc \in UserPlaces /\ stack[sp][1].pc \in UserPlaces /\ (sp = Idle => f.pc \in {"user", "leave"})
         \/ f.pc \in SchedulePlaces /\ stack[sp][1].pc \in SchedulePlaces
  BY <1>1, TopOfStack
<1> HIDE DEF f
<1>3. StackOK(sp, u) /\ Head(u) = f /\ u[1] = f /\ Replaced(stack[sp], u)
  BY <1>1, <1>2, TopOfStack, ReplacedOK
<1>4. Goto(place) = [stack EXCEPT ![sp] = u]
  BY DEF Goto, f
<1> QED BY <1>1, <1>3, <1>4 DEF f, u

LEMMA SearchEnded ==
    ASSUME Structure, Top.pc \in SchedulePlaces
    PROVE  LET u == <<Frame("release", Top.off)>> \o Tail(stack[sp])
           IN  /\ Found = [stack EXCEPT ![sp] = u]
               /\ StackOK(sp, u) /\ Head(u).pc = "release" /\ u[1].pc = "release" /\ Replaced(stack[sp], u)
<1> DEFINE f == Frame("release", Top.off)
           u == <<f>> \o Tail(stack[sp])
<1>1. f \in FrameType /\ f.pc = "release"
  BY TopOfStack, FramesTyped DEF FrameType, Places, SchedulePlaces
<1>2. f.pc \notin {"picked", "switch"} /\ f.pc \in SchedulePlaces /\ stack[sp][1].pc \in SchedulePlaces
  BY <1>1, TopOfStack DEF SchedulePlaces
<1> HIDE DEF f
<1>3. StackOK(sp, u) /\ Head(u) = f /\ u[1] = f /\ Replaced(stack[sp], u)
  BY <1>1, <1>2, TopOfStack, ReplacedOK
<1>4. Found = [stack EXCEPT ![sp] = u]
  BY DEF Found, f
<1> QED BY <1>1, <1>3, <1>4 DEF f, u

LEMMA Scheduled ==
    ASSUME Structure, NEW place \in {"user", "cs", "blocked"},
           Top.pc \in UserPlaces, sp = Idle => place = "user"
    PROVE  LET u == <<Frame("enter", FALSE), Frame(place, FALSE)>> \o Tail(stack[sp])
           IN  /\ Schedule(place, FALSE) = [stack EXCEPT ![sp] = u]
               /\ StackOK(sp, u) /\ Head(u).pc = "enter" /\ Len(u) = 2 /\ u[2].pc = place
<1>1. stack[sp][1].pc \in UserPlaces
  BY TopOfStack
<1>2. Frame("enter", FALSE).pc = "enter" /\ Frame(place, FALSE).pc = place
  BY DEF Frame
<1> QED BY <1>1, <1>2, TopOfStack, ThreadCallsOK DEF Schedule

LEMMA Returned ==
    ASSUME Structure, Top.pc \notin UserPlaces
    PROVE  LET u == Tail(stack[sp])
           IN  /\ Return = [stack EXCEPT ![sp] = u]
               /\ StackOK(sp, u) /\ Head(u) = stack[sp][2] /\ Len(u) = Len(stack[sp]) - 1
               /\ Base(u) = Base(stack[sp]) /\ Head(u).pc # "switch" /\ Shrunk(stack[sp], u)
BY TopOfStack, ReturnedOK DEF Return

LEMMA FrameMoved ==
    ASSUME Structure, NEW f \in FrameType, f.pc \in SchedulePlaces, Top.pc \in SchedulePlaces,
           f.pc \in {"picked", "switch"} => f.i \in Threads \ {sp}
    PROVE  LET u == <<f>> \o Tail(stack[sp])
           IN  StackOK(sp, u) /\ Head(u) = f /\ u[1] = f /\ Replaced(stack[sp], u)
BY TopOfStack, ReplacedOK

-----------------------------------------------------------------------------
(* Structure is an inductive invariant.                                     *)

LEMMA InitStructure == KernelInit => Structure
<1> SUFFICES ASSUME KernelInit PROVE Structure
  OBVIOUS
<1>1. sp \in Threads /\ os_thread_running \in Threads /\ 0 # Idle
  BY ThreadsExist DEF KernelInit
<1>2. ASSUME NEW t \in Threads
      PROVE  /\ StackOK(t, stack[t])
             /\ Head(stack[t]).pc = IF t = 0 THEN "user" ELSE "leave"
  <2> DEFINE f == Frame(IF t = 0 THEN "user" ELSE "leave", FALSE)
  <2>1. stack[t] = <<f>>
    BY DEF KernelInit
  <2>2. f \in FrameType /\ f.pc = IF t = 0 THEN "user" ELSE "leave"
    BY FramesTyped DEF Places, UserPlaces
  <2> HIDE DEF f
  <2>3. <<f>> \in Seq(FrameType) /\ Len(<<f>>) = 1 /\ <<f>>[1] = f /\ Head(<<f>>) = f
    BY <2>2
  <2> QED BY <2>1, <2>2, <2>3, <1>1 DEF StackOK, Shape, PlainAbove, Base, UserPlaces
<1>3. StacksAreOwned
  BY <1>1, <1>2 DEF StacksAreOwned, KernelInit
<1>4. ~At("switch")
  BY <1>1, <1>2 DEF At, Top
<1>5. DOMAIN stack = Threads /\ stack = [t \in Threads |-> stack[t]]
  BY DEF KernelInit
<1> QED BY <1>1, <1>2, <1>3, <1>4, <1>5 DEF Structure, KernelInit

LEMMA ThreadStepStructure == Structure /\ ThreadStep => Structure'
<1> SUFFICES ASSUME Structure, ThreadStep PROVE Structure'
  OBVIOUS
<1> USE DEF threadVars
<1>1. CASE os_enterCS
  <2>1. ~At("switch") /\ Top.pc \in UserPlaces /\ sp # Idle /\ "cs" \in Places \ {"picked", "switch"}
    BY <1>1 DEF os_enterCS, Working, At, UserPlaces, Places
  <2> QED BY <1>1, <2>1, GoneOn, StructureKept, FieldsTyped DEF os_enterCS, UserPlaces
<1>2. CASE os_thread_sleep
  <2>1. ~At("switch") /\ Top.pc \in UserPlaces /\ sp # Idle
    BY <1>2 DEF os_thread_sleep, Working, At, UserPlaces
  <2>2. asleep' \in SUBSET (Threads \ {Idle})
    BY <1>2, <2>1, TopOfStack DEF os_thread_sleep, Structure
  <2> QED BY <1>2, <2>1, <2>2, Scheduled, StructureKept, FieldsTyped DEF os_thread_sleep
<1>3. CASE os_thread_yield
  <2>1. ~At("switch") /\ Top.pc \in UserPlaces /\ sp # Idle /\ "yield" \in Places \ {"picked", "switch"}
    BY <1>3 DEF os_thread_yield, Working, At, UserPlaces, Places
  <2> QED BY <1>3, <2>1, GoneOn, StructureKept, FieldsTyped DEF os_thread_yield, UserPlaces
<1>4. ASSUME NEW s \in Signals, os_signal_lock(s) PROVE Structure'
  <2>1. value' \in [Signals -> {0, 1}]
    BY <1>4 DEF os_signal_lock, Structure
  <2>2. UNCHANGED <<os_scheduling_allowed, os_thread_running, sp, saved, stack, wait_for, asleep>>
    BY <1>4 DEF os_signal_lock, cpuVars
  <2> QED BY <2>1, <2>2 DEF Structure, StacksAreOwned, At, Top
<1>5. ASSUME NEW s \in Signals, os_signal_set(s) PROVE Structure'
  <2>1. ~At("switch") /\ Top.pc \in UserPlaces /\ sp # Idle
    BY <1>5 DEF os_signal_set, Working, At, UserPlaces
  <2>2. wait_for' \in [Threads -> Signals \cup {Dummy}]
    BY <1>5 DEF os_signal_set, Structure
  <2> QED BY <1>5, <2>1, <2>2, Scheduled, StructureKept, FieldsTyped DEF os_signal_set
<1>6. ASSUME NEW s \in Signals, os_signal_unlock(s) PROVE Structure'
  <2>1. ~At("switch") /\ Top.pc \in UserPlaces /\ sp # Idle /\ Top.pc \in {"user", "cs", "blocked"}
    BY <1>6 DEF os_signal_unlock, Working, At, UserPlaces
  <2>2. value' \in [Signals -> {0, 1}]
    BY <1>6 DEF os_signal_unlock, Structure
  <2> QED BY <1>6, <2>1, <2>2, Scheduled, StructureKept, FieldsTyped DEF os_signal_unlock
<1> QED BY <1>1, <1>2, <1>3, <1>4, <1>5, <1>6 DEF ThreadStep

(* A switch to another thread that can run begins. *)
LEMMA PickStructure == Structure /\ Pick => Structure'
<1> SUFFICES ASSUME Structure, Pick PROVE Structure'
  OBVIOUS
<1> DEFINE f == [Top EXCEPT !.pc = "switch", !.from = os_thread_running]
           u == <<f>> \o Tail(stack[sp])
<1>1. Top.pc = "picked" /\ sp = os_thread_running /\ Top.i \in Threads \ {sp}
  <2>1. Top.pc = "picked" /\ Top = stack[sp][1] /\ 1 \in 1 .. Len(stack[sp])
    BY TopOfStack DEF Pick, At
  <2> QED BY <2>1, TopOfStack DEF StackOK, At
<1>2. f \in FrameType /\ f.pc = "switch" /\ f.i = Top.i /\ f.from = sp
  BY <1>1, TopOfStack DEF FrameType, Places, SchedulePlaces
<1> HIDE DEF f
<1>3. StackOK(sp, u) /\ Head(u) = f
  BY <1>1, <1>2, FrameMoved DEF SchedulePlaces
<1>4. stack' = [stack EXCEPT ![sp] = u]
  BY DEF Pick, f
<1> HIDE DEF u
<1>5. /\ os_thread_running' = f.i
      /\ UNCHANGED <<os_scheduling_allowed, sp, saved, wait_for, value, asleep>>
  BY <1>2 DEF Pick, threadVars
<1>6. /\ DOMAIN stack' = Threads /\ stack' = [t \in Threads |-> stack'[t]]
      /\ stack'[sp] = u /\ \A t \in Threads \ {sp} : stack'[t] = stack[t]
  BY <1>4 DEF Structure
<1>7. Top' = f
  BY <1>3, <1>5, <1>6 DEF Top
<1>8. \A t \in Threads : StackOK(t, stack'[t])
  BY <1>3, <1>6 DEF Structure
<1>9. StacksAreOwned'
  BY <1>2, <1>5, <1>6, <1>7 DEF Structure, StacksAreOwned, At
<1> QED BY <1>1, <1>2, <1>5, <1>6, <1>7, <1>8, <1>9 DEF Structure, At

(* The processor goes over to the stack of the thread that was chosen.      *)
LEMMA SwitchStructure ==
    ASSUME Structure, Switch
    PROVE  /\ Structure'
           /\ sp' = Top.i /\ sp' \in Threads \ {sp}
           /\ \A t \in Threads \ {sp} : stack'[t] = stack[t]
           /\ Replaced(stack[sp], stack'[sp]) /\ stack'[sp][1].pc = "release"
           /\ Base(stack'[sp]) = Base(stack[sp]) /\ Top'.pc \in {"release", "leave"}
<1> DEFINE u == <<Frame("release", Top.off)>> \o Tail(stack[sp])
<1>1. /\ Top.pc = "switch" /\ Top.from = sp /\ Top.i = os_thread_running /\ Top.i \in Threads \ {sp}
  <2>1. Top.pc = "switch" /\ Top = stack[sp][1] /\ 1 \in 1 .. Len(stack[sp])
    BY TopOfStack DEF Switch, At
  <2> QED BY <2>1, TopOfStack DEF StackOK, At, Structure
<1>2. /\ stack' = [stack EXCEPT ![sp] = u] /\ StackOK(sp, u) /\ Head(u).pc = "release"
      /\ u[1].pc = "release" /\ Replaced(stack[sp], u)
  BY <1>1, SearchEnded DEF Switch, SchedulePlaces
<1>3. Base(u) = Base(stack[sp])
  <2>1. Len(stack[sp]) \in 2 .. 4
    BY <1>1, TopOfStack DEF StackOK, Shape, PlainAbove, UserPlaces, SchedulePlaces
  <2> HIDE DEF u
  <2> QED BY <1>2, <2>1, BaseKept
<1> HIDE DEF u
<1>4. /\ DOMAIN stack' = Threads /\ stack' = [t \in Threads |-> stack'[t]]
      /\ stack'[sp] = u /\ \A t \in Threads \ {sp} : stack'[t] = stack[t]
  BY <1>2 DEF Structure
<1>5. /\ saved[Top.i] = Top.i /\ Head(stack[Top.i]).pc \in {"release", "leave"}
  BY <1>1 DEF Structure, StacksAreOwned
<1>6. /\ sp' = Top.i /\ saved' = [saved EXCEPT ![sp] = sp]
      /\ UNCHANGED <<os_scheduling_allowed, os_thread_running, wait_for, value, asleep>>
  BY <1>1, <1>5 DEF Switch, threadVars
<1>7. saved' \in [Threads -> Threads] /\ \A t \in Threads : saved'[t] = IF t = sp THEN sp ELSE saved[t]
  BY <1>6 DEF Structure
<1>8. Top'.pc \in {"release", "leave"}
  BY <1>1, <1>4, <1>5, <1>6 DEF Top
<1>9. \A t \in Threads : StackOK(t, stack'[t])
  BY <1>2, <1>4 DEF Structure
<1>10. StacksAreOwned'
  <2>1. \A t \in Threads \ {sp'} : saved'[t] = t /\ Head(stack'[t]).pc \in {"release", "leave"}
    BY <1>1, <1>2, <1>4, <1>6, <1>7 DEF Structure, StacksAreOwned
  <2> QED BY <2>1, <1>1, <1>6 DEF StacksAreOwned
<1>11. Structure'
  BY <1>1, <1>4, <1>6, <1>7, <1>8, <1>9, <1>10 DEF Structure, At
<1> QED BY <1>1, <1>2, <1>3, <1>4, <1>6, <1>8, <1>11 DEF u

LEMMA SystemStepStructure == Structure /\ SystemStep => Structure'
<1> SUFFICES ASSUME Structure, SystemStep PROVE Structure'
  OBVIOUS
<1> USE DEF threadVars
<1> DEFINE Moved(f) == <<f>> \o Tail(stack[sp])
<1>1. CASE os_exitCS
  <2>1. ~At("switch") /\ Top.pc \in UserPlaces /\ "user" \in Places \ {"picked", "switch"} /\ "user" \in UserPlaces
    BY <1>1 DEF os_exitCS, At, UserPlaces, Places
  <2>2. CASE os_scheduling_allowed = 2
    BY <1>1, <2>1, <2>2, Scheduled, StructureKept, FieldsTyped DEF os_exitCS
  <2>3. CASE os_scheduling_allowed # 2
    BY <1>1, <2>1, <2>3, GoneOn, StructureKept, FieldsTyped DEF os_exitCS
  <2> QED BY <2>2, <2>3
<1>2. CASE os_signal_release
  <2>1. ~At("switch") /\ Top.pc \in UserPlaces /\ "user" \in Places \ {"picked", "switch"} /\ "user" \in UserPlaces
    BY <1>2 DEF os_signal_release, At, UserPlaces, Places
  <2>2. wait_for' \in [Threads -> Signals \cup {Dummy}]
    BY <1>2 DEF os_signal_release, Structure
  <2> QED BY <1>2, <2>1, <2>2, GoneOn, StructureKept, FieldsTyped DEF os_signal_release
<1>3. ASSUME NEW rest \in BOOLEAN, GiveAway(rest) PROVE Structure'
  <2>1. ~At("switch") /\ Top.pc = "yield" /\ "leave" \in Places \ {"picked", "switch"}
    BY <1>3 DEF GiveAway, At, UserPlaces, Places
  <2>2. sp # Idle
    BY <2>1, TopOfStack DEF StackOK, Shape, PlainAbove, Base, SchedulePlaces
  <2>3. os_scheduling_allowed' \in {0, 1, 2} /\ asleep' \in SUBSET (Threads \ {Idle})
    BY <1>3, <2>1, <2>2, TopOfStack DEF GiveAway, Structure
  <2> QED BY <1>3, <2>1, <2>2, <2>3, GoneOn, StructureKept, FieldsTyped DEF GiveAway, UserPlaces
<1>4. CASE Enter
  <2>1. /\ ~At("switch") /\ Top.pc \in SchedulePlaces
        /\ "begin" \in Places \ {"picked", "switch"} /\ "begin" \in SchedulePlaces
        /\ "defer" \in Places \ {"picked", "switch"} /\ "defer" \in SchedulePlaces
    BY <1>4 DEF Enter, At, SchedulePlaces, Places
  <2>2. CASE os_scheduling_allowed = 1
    BY <1>4, <2>1, <2>2, GoneOn, StructureKept, FieldsTyped DEF Enter
  <2>3. CASE os_scheduling_allowed # 1
    BY <1>4, <2>1, <2>3, GoneOn, StructureKept, FieldsTyped DEF Enter
  <2> QED BY <2>2, <2>3
<1>5. CASE Defer
  <2>1. ~At("switch") /\ Top.pc \notin UserPlaces
    BY <1>5 DEF Defer, At, UserPlaces
  <2> QED BY <1>5, <2>1, Returned, StructureKept, FieldsTyped DEF Defer
<1>6. CASE Begin
  <2> DEFINE f == [Top EXCEPT !.pc = "scan", !.i = 0, !.end = OS_MAX_THREADS - os_scheduling_allowed]
  <2>1. ~At("switch") /\ Top.pc \in SchedulePlaces
    BY <1>6 DEF Begin, At, SchedulePlaces
  <2>2. f \in FrameType /\ f.pc = "scan"
    <3>1. OS_MAX_THREADS - os_scheduling_allowed \in Int
      BY FieldsTyped, KernelAssumption
    <3>2. "scan" \in Places /\ Top \in FrameType
      BY TopOfStack DEF Places, SchedulePlaces
    <3> QED BY <3>1, <3>2 DEF FrameType
  <2>3. stack' = [stack EXCEPT ![sp] = Moved(f)]
    BY <1>6 DEF Begin
  <2> HIDE DEF f
  <2>4. StackOK(sp, Moved(f)) /\ Head(Moved(f)).pc = "scan"
    BY <2>1, <2>2, FrameMoved DEF SchedulePlaces
  <2> HIDE DEF Moved
  <2> QED BY <1>6, <2>1, <2>3, <2>4, StructureKept, FieldsTyped DEF Begin
<1>7. CASE Scan
  <2>1. ~At("switch") /\ Top.pc = "scan" /\ Top.pc \in SchedulePlaces
    BY <1>7 DEF Scan, At, SchedulePlaces
  <2>2. CASE Top.i >= Top.end \/ (Runnable(Top.i) /\ Top.i = os_thread_running)
    BY <1>7, <2>1, <2>2, SearchEnded, StructureKept, FieldsTyped DEF Scan
  <2>3. CASE ~(Top.i >= Top.end \/ (Runnable(Top.i) /\ Top.i = os_thread_running)) /\ Runnable(Top.i)
    <3> DEFINE f == [Top EXCEPT !.pc = "picked"]
    <3>1. f \in FrameType /\ f.pc = "picked" /\ f.i = Top.i
      BY TopOfStack DEF FrameType, Places, SchedulePlaces
    <3>2. Top.i \in Threads \ {sp}
      BY <2>1, <2>3, TopOfStack DEF Runnable
    <3>3. stack' = [stack EXCEPT ![sp] = Moved(f)]
      BY <1>7, <2>3 DEF Scan, Goto
    <3> HIDE DEF f
    <3>4. StackOK(sp, Moved(f)) /\ Head(Moved(f)).pc = "picked"
      BY <2>1, <3>1, <3>2, FrameMoved DEF SchedulePlaces
    <3> HIDE DEF Moved
    <3> QED BY <1>7, <2>1, <3>3, <3>4, StructureKept, FieldsTyped DEF Scan
  <2>4. CASE ~(Top.i >= Top.end \/ (Runnable(Top.i) /\ Top.i = os_thread_running)) /\ ~Runnable(Top.i)
    <3> DEFINE f == [Top EXCEPT !.i = @ + 1]
    <3>1. f \in FrameType /\ f.pc = "scan"
      BY <2>1, TopOfStack, SMTT(30) DEF FrameType
    <3>3. stack' = [stack EXCEPT ![sp] = Moved(f)]
      BY <1>7, <2>4 DEF Scan
    <3> HIDE DEF f
    <3>4. StackOK(sp, Moved(f)) /\ Head(Moved(f)).pc = "scan"
      BY <2>1, <3>1, FrameMoved DEF SchedulePlaces
    <3> HIDE DEF Moved
    <3> QED BY <1>7, <2>1, <3>3, <3>4, StructureKept, FieldsTyped DEF Scan
  <2> QED BY <2>2, <2>3, <2>4
<1>8. CASE Release
  <2>1. /\ ~At("switch") /\ Top.pc \in SchedulePlaces /\ Top.pc \notin UserPlaces
        /\ "begin" \in Places \ {"picked", "switch"} /\ "begin" \in SchedulePlaces
    BY <1>8 DEF Release, At, SchedulePlaces, UserPlaces, Places
  <2>2. CASE os_scheduling_allowed = 2
    BY <1>8, <2>1, <2>2, GoneOn, StructureKept, FieldsTyped DEF Release
  <2>3. CASE os_scheduling_allowed # 2
    BY <1>8, <2>1, <2>3, Returned, StructureKept, FieldsTyped DEF Release
  <2> QED BY <2>2, <2>3
<1>9. ASSUME NEW slice \in BOOLEAN, TickEnds(slice) PROVE Structure'
  <2>1. ~At("switch") /\ Top.pc = "isr" /\ Top.pc \notin UserPlaces
    BY <1>9 DEF TickEnds, At, UserPlaces
  <2>2. CASE os_scheduling_allowed = 2 \/ slice
    <3>1. stack[sp][1].pc = "isr" /\ Frame("enter", TRUE).pc = "enter"
      BY <2>1, TopOfStack DEF Frame
    <3> QED BY <1>9, <2>1, <2>2, <3>1, TopOfStack, TickCallsOK, StructureKept, FieldsTyped
            DEF TickEnds, Schedule
  <2>3. CASE ~(os_scheduling_allowed = 2 \/ slice)
    BY <1>9, <2>1, <2>3, Returned, StructureKept, FieldsTyped DEF TickEnds
  <2> QED BY <2>2, <2>3
<1>10. CASE ReturnFromTick
  <2>1. ~At("switch") /\ Top.pc \notin UserPlaces
    BY <1>10 DEF ReturnFromTick, At, UserPlaces
  <2> QED BY <1>10, <2>1, Returned, StructureKept, FieldsTyped DEF ReturnFromTick
<1> QED BY <1>1, <1>2, <1>3, <1>4, <1>5, <1>6, <1>7, <1>8, <1>9, <1>10, PickStructure, SwitchStructure
        DEF SystemStep

LEMMA TickStructure == Structure /\ SwitchIsLeftAlone /\ Tick => Structure'
<1> SUFFICES ASSUME Structure, SwitchIsLeftAlone, Tick PROVE Structure'
  OBVIOUS
<1> DEFINE u == <<Frame("isr", FALSE)>> \o stack[sp]
<1>1. ~At("switch")
  <2>1. Top.pc \in Interruptible
    BY TopOfStack DEF Tick
  <2> QED BY <2>1 DEF At, SwitchIsLeftAlone
<1>2. StackOK(sp, u) /\ Head(u).pc = "isr"
  <2>1. Frame("isr", FALSE).pc = "isr"
    BY DEF Frame
  <2> QED BY <2>1, TopOfStack, TickedOK DEF Tick
<1>3. stack' = [stack EXCEPT ![sp] = u]
  BY DEF Tick
<1> HIDE DEF u
<1>4. asleep' \in SUBSET (Threads \ {Idle})
  BY DEF Tick, Structure
<1> QED BY <1>1, <1>2, <1>3, <1>4, StructureKept, FieldsTyped DEF Tick

LEMMA ReceiveStructure ==
    ASSUME Structure, NEW s \in RxSignals, Receive(s)
    PROVE  Structure'
<1>1. s \in Signals
  BY KernelAssumption
<1>2. value' \in [Signals -> {0, 1}]
  BY <1>1 DEF Receive, Structure
<1>3. UNCHANGED <<os_scheduling_allowed, os_thread_running, sp, saved, stack, wait_for, asleep>>
  BY DEF Receive, cpuVars
<1> QED BY <1>2, <1>3 DEF Structure, StacksAreOwned, At, Top

LEMMA NextStructure == Structure /\ SwitchIsLeftAlone /\ [KernelNext]_kernelVars => Structure'
<1> SUFFICES ASSUME Structure, SwitchIsLeftAlone, [KernelNext]_kernelVars PROVE Structure'
  OBVIOUS
<1>1. CASE UNCHANGED kernelVars
  BY <1>1 DEF kernelVars, Structure, StacksAreOwned, At, Top
<1>2. CASE KernelNext
  BY <1>2, ThreadStepStructure, SystemStepStructure, TickStructure, ReceiveStructure DEF KernelNext
<1> QED BY <1>1, <1>2

LEMMA StructureIsTypeOK == Structure => KernelInv
<1> SUFFICES ASSUME Structure PROVE KernelInv
  OBVIOUS
<1>1. ASSUME NEW t \in Threads
      PROVE  Len(stack[t]) \in 1 .. 4 /\ \A k \in 1 .. Len(stack[t]) : stack[t][k].pc \in Places
  <2>1. stack[t] \in Seq(FrameType) /\ Len(stack[t]) \in 1 .. 4
    BY DEF Structure, StackOK, Shape, PlainAbove
  <2>2. \A k \in 1 .. Len(stack[t]) : stack[t][k] \in FrameType
    BY <2>1
  <2> QED BY <2>1, <2>2 DEF FrameType
<1> QED BY <1>1 DEF Structure, KernelInv, KernelTypeOK

LEMMA StructureAlways ==
    ASSUME SwitchIsLeftAlone
    PROVE  KernelSpec => []Structure
BY InitStructure, NextStructure, PTL DEF KernelSpec

(* Every field has its type, a stack holds at most one system call, one     *)
(* interrupt and its call of the scheduler, and no two threads share a      *)
(* stack (os_thread.c:157), wherever else the timer interrupt may come.     *)
THEOREM StacksAreKept ==
    ASSUME SwitchIsLeftAlone
    PROVE  KernelSpec => []KernelInv
BY StructureAlways, StructureIsTypeOK, PTL

-----------------------------------------------------------------------------
(* Critical sections.  A thread within one has the processor and the lock,  *)
(* and has called the scheduler at most to leave its request.               *)
CsInv ==
    /\ \A t \in Threads \ {sp} : Base(stack[t]) # "cs"
    /\ Base(stack[sp]) = "cs" =>
           /\ os_scheduling_allowed # 1
           /\ Len(stack[sp]) = 1 \/ (Len(stack[sp]) = 2 /\ Top.pc \in {"enter", "defer"})

LEMMA UserTop ==
    ASSUME Structure, Top.pc \in UserPlaces
    PROVE  Len(stack[sp]) = 1 /\ Base(stack[sp]) = Top.pc
BY TopOfStack DEF StackOK, Shape, PlainAbove, Base, UserPlaces, SchedulePlaces

LEMMA SystemTop ==
    ASSUME Structure, Top.pc \notin UserPlaces
    PROVE  Len(stack[sp]) \in 2 .. 4
BY TopOfStack DEF StackOK, Shape, PlainAbove, UserPlaces, SchedulePlaces

(* A step on the stack in use. *)
LEMMA CsKept ==
    ASSUME Structure, CsInv, NEW u, stack' = [stack EXCEPT ![sp] = u], UNCHANGED sp,
           Base(u) = "cs" =>
               /\ os_scheduling_allowed' # 1
               /\ Len(u) = 1 \/ (Len(u) = 2 /\ u[1].pc \in {"enter", "defer"}),
           Head(u) = u[1]
    PROVE  CsInv'
<1>1. stack'[sp] = u /\ \A t \in Threads \ {sp} : stack'[t] = stack[t]
  BY DEF Structure
<1>2. Top' = u[1]
  BY <1>1 DEF Top
<1> QED BY <1>1, <1>2 DEF CsInv

(* The top frame of a system call goes on, or returns. *)
LEMMA CsGone ==
    ASSUME Structure, CsInv, NEW u, stack' = [stack EXCEPT ![sp] = u], UNCHANGED sp, StackOK(sp, u),
           Top.pc \notin UserPlaces \cup {"enter", "defer"},
           Replaced(stack[sp], u) \/ Base(u) = Base(stack[sp])
    PROVE  CsInv'
<1>1. Base(u) = Base(stack[sp])
  BY SystemTop, BaseKept
<1>2. Base(stack[sp]) # "cs"
  BY SystemTop DEF CsInv
<1>3. Head(u) = u[1]
  BY DEF StackOK, Shape, PlainAbove
<1> QED BY <1>1, <1>2, <1>3, CsKept

(* A user frame goes on or calls the scheduler. *)
LEMMA CsOfThread ==
    ASSUME Structure, CsInv, NEW u, stack' = [stack EXCEPT ![sp] = u], UNCHANGED sp, StackOK(sp, u),
           \/ Len(u) = 1 /\ (u[1].pc = "cs" => os_scheduling_allowed' # 1)
           \/ Len(u) = 2 /\ Head(u).pc = "enter" /\ (u[2].pc = "cs" => os_scheduling_allowed' # 1)
    PROVE  CsInv'
<1>1. Head(u) = u[1]
  BY DEF StackOK, Shape, PlainAbove
<1>2. Base(u) = "cs" =>
          /\ os_scheduling_allowed' # 1
          /\ Len(u) = 1 \/ (Len(u) = 2 /\ u[1].pc \in {"enter", "defer"})
  <2>1. CASE Len(u) = 1
    <3>1. Base(u) = u[1].pc
      BY <2>1 DEF Base
    <3> QED BY <2>1, <3>1
  <2>2. CASE Len(u) = 2
    <3>1. Base(u) = u[2].pc
      BY <2>2 DEF Base
    <3> QED BY <1>1, <2>2, <3>1
  <2> QED BY <2>1, <2>2
<1> QED BY <1>1, <1>2, CsKept

LEMMA ThreadStepCs == Structure /\ CsInv /\ ThreadStep => CsInv'
<1> SUFFICES ASSUME Structure, CsInv, ThreadStep PROVE CsInv'
  OBVIOUS
<1> USE DEF threadVars, cpuVars
<1>1. CASE os_enterCS
  <2>1. Top.pc \in UserPlaces /\ sp # Idle /\ "cs" \in Places \ {"picked", "switch"} /\ "cs" \in UserPlaces
    BY <1>1 DEF os_enterCS, Working, At, UserPlaces, Places
  <2>2. os_scheduling_allowed' # 1 /\ stack' = Goto("cs") /\ UNCHANGED sp /\ Len(stack[sp]) = 1
    BY <1>1, <2>1, UserTop DEF os_enterCS
  <2> DEFINE u == <<[Top EXCEPT !.pc = "cs"]>> \o Tail(stack[sp])
  <2>3. stack' = [stack EXCEPT ![sp] = u] /\ StackOK(sp, u) /\ Len(u) = 1
    BY <2>1, <2>2, GoneOn DEF Replaced
  <2> HIDE DEF u
  <2> QED BY <2>2, <2>3, CsOfThread
<1>2. CASE os_thread_sleep
  <2>1. Top.pc \in UserPlaces /\ sp # Idle
    BY <1>2 DEF os_thread_sleep, Working, At, UserPlaces
  <2> QED BY <1>2, <2>1, Scheduled, CsOfThread DEF os_thread_sleep
<1>3. CASE os_thread_yield
  <2>1. Top.pc \in UserPlaces /\ sp # Idle /\ "yield" \in Places \ {"picked", "switch"} /\ "yield" \in UserPlaces
    BY <1>3 DEF os_thread_yield, Working, At, UserPlaces, Places
  <2> QED BY <1>3, <2>1, UserTop, GoneOn, CsOfThread DEF os_thread_yield, Replaced
<1>4. ASSUME NEW s \in Signals, os_signal_lock(s) PROVE CsInv'
  BY <1>4 DEF os_signal_lock, CsInv, Top
<1>5. ASSUME NEW s \in Signals, os_signal_set(s) PROVE CsInv'
  <2>1. Top.pc \in UserPlaces /\ sp # Idle
    BY <1>5 DEF os_signal_set, Working, At, UserPlaces
  <2> QED BY <1>5, <2>1, Scheduled, CsOfThread DEF os_signal_set
<1>6. ASSUME NEW s \in Signals, os_signal_unlock(s) PROVE CsInv'
  <2>1. Top.pc \in UserPlaces /\ sp # Idle /\ Top.pc \in {"user", "cs", "blocked"}
    BY <1>6 DEF os_signal_unlock, Working, At, UserPlaces
  <2>2. Top.pc = "cs" => os_scheduling_allowed # 1
    BY <2>1, UserTop DEF CsInv
  <2> QED BY <1>6, <2>1, <2>2, Scheduled, CsOfThread DEF os_signal_unlock
<1> QED BY <1>1, <1>2, <1>3, <1>4, <1>5, <1>6 DEF ThreadStep

LEMMA SystemStepCs == Structure /\ CsInv /\ SystemStep => CsInv'
<1> SUFFICES ASSUME Structure, CsInv, SystemStep PROVE CsInv'
  OBVIOUS
<1> USE DEF threadVars, cpuVars
<1> DEFINE Moved(f) == <<f>> \o Tail(stack[sp])
<1>1. CASE os_exitCS
  <2>1. Top.pc \in UserPlaces /\ "user" \in Places \ {"picked", "switch"} /\ "user" \in UserPlaces
    BY <1>1 DEF os_exitCS, At, UserPlaces, Places
  <2>2. CASE os_scheduling_allowed = 2
    BY <1>1, <2>1, <2>2, Scheduled, CsOfThread DEF os_exitCS
  <2>3. CASE os_scheduling_allowed # 2
    <3>1. stack' = Goto("user") /\ UNCHANGED sp /\ Len(stack[sp]) = 1
      BY <1>1, <2>1, <2>3, UserTop DEF os_exitCS
    <3> QED BY <2>1, <3>1, GoneOn, CsOfThread DEF Replaced
  <2> QED BY <2>2, <2>3
<1>2. CASE os_signal_release
  <2>1. Top.pc \in UserPlaces /\ "user" \in Places \ {"picked", "switch"} /\ "user" \in UserPlaces
    BY <1>2 DEF os_signal_release, At, UserPlaces, Places
  <2>2. stack' = Goto("user") /\ UNCHANGED sp /\ Len(stack[sp]) = 1
    BY <1>2, <2>1, UserTop DEF os_signal_release
  <2> QED BY <2>1, <2>2, GoneOn, CsOfThread DEF Replaced
<1>3. ASSUME NEW rest \in BOOLEAN, GiveAway(rest) PROVE CsInv'
  <2>1. Top.pc \in UserPlaces /\ "leave" \in Places \ {"picked", "switch"} /\ "leave" \in UserPlaces
    BY <1>3 DEF GiveAway, At, UserPlaces, Places
  <2>2. stack' = Goto("leave") /\ UNCHANGED sp /\ Len(stack[sp]) = 1
    BY <1>3, <2>1, UserTop DEF GiveAway
  <2> QED BY <2>1, <2>2, GoneOn, CsOfThread DEF Replaced
<1>4. CASE Enter
  <2>1. /\ Top.pc \in SchedulePlaces /\ Top.pc \notin UserPlaces
        /\ "begin" \in Places \ {"picked", "switch"} /\ "begin" \in SchedulePlaces
        /\ "defer" \in Places \ {"picked", "switch"} /\ "defer" \in SchedulePlaces
    BY <1>4 DEF Enter, At, SchedulePlaces, UserPlaces, Places
  <2>2. PICK place \in {"begin", "defer"} : stack' = Goto(place) /\ (os_scheduling_allowed # 1 => place = "defer")
    BY <1>4 DEF Enter
  <2>3. /\ os_scheduling_allowed' # 1 /\ UNCHANGED sp
    BY <1>4 DEF Enter
  <2> DEFINE u == <<[Top EXCEPT !.pc = place]>> \o Tail(stack[sp])
  <2>4. /\ Goto(place) = [stack EXCEPT ![sp] = u] /\ StackOK(sp, u)
        /\ Head(u).pc = place /\ u[1].pc = place /\ Replaced(stack[sp], u)
    BY <2>1, GoneOn
  <2> HIDE DEF u
  <2>5. Base(u) = Base(stack[sp]) /\ Len(u) = Len(stack[sp]) /\ Len(u) \in 2 .. 4 /\ Head(u) = u[1]
    BY <2>1, <2>4, SystemTop, BaseKept DEF Replaced, StackOK, Shape, PlainAbove
  <2>6. Base(stack[sp]) = "cs" => os_scheduling_allowed # 1 /\ Len(stack[sp]) = 2
    BY <2>1, SystemTop DEF CsInv
  <2> QED BY <2>2, <2>3, <2>4, <2>5, <2>6, CsKept
<1>5. CASE Defer
  <2>1. Top.pc \notin UserPlaces
    BY <1>5 DEF Defer, At, UserPlaces
  <2> DEFINE u == Tail(stack[sp])
  <2>2. /\ stack' = [stack EXCEPT ![sp] = u] /\ StackOK(sp, u) /\ Base(u) = Base(stack[sp])
        /\ Shrunk(stack[sp], u) /\ UNCHANGED sp /\ os_scheduling_allowed' # 1
    BY <1>5, <2>1, Returned DEF Defer
  <2> HIDE DEF u
  <2>3. Base(stack[sp]) = "cs" => Len(stack[sp]) = 2
    BY <2>1, SystemTop DEF CsInv
  <2>4. Head(u) = u[1]
    BY <2>2 DEF StackOK, Shape, PlainAbove
  <2>5. Base(u) = "cs" => Len(u) = 1
    BY <2>2, <2>3 DEF Shrunk
  <2> QED BY <2>2, <2>4, <2>5, CsKept
<1>6. CASE Begin
  <2> DEFINE f == [Top EXCEPT !.pc = "scan", !.i = 0, !.end = OS_MAX_THREADS - os_scheduling_allowed]
  <2>1. Top.pc \in SchedulePlaces /\ Top.pc \notin UserPlaces \cup {"enter", "defer"}
    BY <1>6 DEF Begin, At, SchedulePlaces, UserPlaces
  <2>2. f \in FrameType /\ f.pc = "scan"
    <3>1. OS_MAX_THREADS - os_scheduling_allowed \in Int
      BY FieldsTyped, KernelAssumption
    <3>2. "scan" \in Places /\ Top \in FrameType
      BY TopOfStack DEF Places, SchedulePlaces
    <3> QED BY <3>1, <3>2 DEF FrameType
  <2>3. stack' = [stack EXCEPT ![sp] = Moved(f)] /\ UNCHANGED sp
    BY <1>6 DEF Begin
  <2> HIDE DEF f
  <2>4. StackOK(sp, Moved(f)) /\ Replaced(stack[sp], Moved(f))
    BY <2>1, <2>2, FrameMoved DEF SchedulePlaces
  <2> HIDE DEF Moved
  <2> QED BY <2>1, <2>3, <2>4, CsGone
<1>7. CASE Scan
  <2>1. /\ Top.pc = "scan" /\ Top.pc \in SchedulePlaces /\ Top.pc \notin UserPlaces \cup {"enter", "defer"}
        /\ UNCHANGED sp
    BY <1>7 DEF Scan, At, SchedulePlaces, UserPlaces
  <2>2. CASE Top.i >= Top.end \/ (Runnable(Top.i) /\ Top.i = os_thread_running)
    <3>1. stack' = Found
      BY <1>7, <2>2 DEF Scan
    <3> QED BY <2>1, <3>1, SearchEnded, CsGone
  <2>3. CASE ~(Top.i >= Top.end \/ (Runnable(Top.i) /\ Top.i = os_thread_running)) /\ Runnable(Top.i)
    <3> DEFINE f == [Top EXCEPT !.pc = "picked"]
    <3>1. f \in FrameType /\ f.pc = "picked" /\ f.i = Top.i
      BY TopOfStack DEF FrameType, Places, SchedulePlaces
    <3>2. Top.i \in Threads \ {sp}
      BY <2>1, <2>3, TopOfStack DEF Runnable, At
    <3>3. stack' = [stack EXCEPT ![sp] = Moved(f)]
      BY <1>7, <2>3 DEF Scan, Goto
    <3> HIDE DEF f
    <3>4. StackOK(sp, Moved(f)) /\ Replaced(stack[sp], Moved(f))
      BY <2>1, <3>1, <3>2, FrameMoved DEF SchedulePlaces
    <3> HIDE DEF Moved
    <3> QED BY <2>1, <3>3, <3>4, CsGone
  <2>4. CASE ~(Top.i >= Top.end \/ (Runnable(Top.i) /\ Top.i = os_thread_running)) /\ ~Runnable(Top.i)
    <3> DEFINE f == [Top EXCEPT !.i = @ + 1]
    <3>1. f \in FrameType /\ f.pc = "scan"
      BY <2>1, TopOfStack DEF FrameType
    <3>3. stack' = [stack EXCEPT ![sp] = Moved(f)]
      BY <1>7, <2>4 DEF Scan
    <3> HIDE DEF f
    <3>4. StackOK(sp, Moved(f)) /\ Replaced(stack[sp], Moved(f))
      BY <2>1, <3>1, FrameMoved DEF SchedulePlaces
    <3> HIDE DEF Moved
    <3> QED BY <2>1, <3>3, <3>4, CsGone
  <2> QED BY <2>2, <2>3, <2>4
<1>8. CASE Pick
  <2> DEFINE f == [Top EXCEPT !.pc = "switch", !.from = os_thread_running]
  <2>1. Top.pc = "picked" /\ Top.i \in Threads \ {sp}
    <3>1. Top.pc = "picked" /\ Top = stack[sp][1] /\ 1 \in 1 .. Len(stack[sp])
      BY <1>8, TopOfStack DEF Pick, At
    <3> QED BY <3>1, TopOfStack DEF StackOK
  <2>2. f \in FrameType /\ f.pc = "switch" /\ f.i = Top.i
    <3>1. os_thread_running \in Threads
      BY DEF Structure
    <3> QED BY <3>1, TopOfStack DEF FrameType, Places, SchedulePlaces
  <2>3. stack' = [stack EXCEPT ![sp] = Moved(f)] /\ UNCHANGED sp
    BY <1>8 DEF Pick
  <2> HIDE DEF f
  <2>4. StackOK(sp, Moved(f)) /\ Replaced(stack[sp], Moved(f))
    BY <2>1, <2>2, FrameMoved DEF SchedulePlaces
  <2> HIDE DEF Moved
  <2> QED BY <2>1, <2>3, <2>4, CsGone DEF UserPlaces
<1>9. CASE Switch
  <2>1. Base(stack[sp]) # "cs"
    BY <1>9, SystemTop DEF Switch, At, UserPlaces, CsInv
  <2>2. \A t \in Threads : Base(stack'[t]) # "cs"
    BY <1>9, <2>1, SwitchStructure DEF CsInv
  <2> QED BY <1>9, <2>2, SwitchStructure DEF CsInv
<1>10. CASE Release
  <2>1. /\ Top.pc \in SchedulePlaces /\ Top.pc \notin UserPlaces \cup {"enter", "defer"}
        /\ "begin" \in Places \ {"picked", "switch"} /\ "begin" \in SchedulePlaces /\ UNCHANGED sp
    BY <1>10 DEF Release, At, SchedulePlaces, UserPlaces, Places
  <2>2. CASE os_scheduling_allowed = 2
    BY <1>10, <2>1, <2>2, GoneOn, CsGone DEF Release
  <2>3. CASE os_scheduling_allowed # 2
    BY <1>10, <2>1, <2>3, Returned, CsGone DEF Release
  <2> QED BY <2>2, <2>3
<1>11. ASSUME NEW slice \in BOOLEAN, TickEnds(slice) PROVE CsInv'
  <2>1. Top.pc = "isr" /\ Top.pc \notin UserPlaces \cup {"enter", "defer"} /\ UNCHANGED sp
    BY <1>11 DEF TickEnds, At, UserPlaces
  <2>2. CASE os_scheduling_allowed = 2 \/ slice
    <3>1. stack[sp][1].pc = "isr" /\ StackOK(sp, stack[sp])
      BY <2>1, TopOfStack
    <3> DEFINE u == <<Frame("enter", TRUE), Frame("reti", TRUE)>> \o Tail(stack[sp])
    <3>2. StackOK(sp, u) /\ Base(u) = Base(stack[sp])
      BY <2>1, <3>1, TopOfStack, TickCallsOK
    <3>3. stack' = [stack EXCEPT ![sp] = u]
      BY <1>11, <2>2 DEF TickEnds, Schedule
    <3> HIDE DEF u
    <3> QED BY <2>1, <3>2, <3>3, CsGone
  <2>3. CASE ~(os_scheduling_allowed = 2 \/ slice)
    BY <1>11, <2>1, <2>3, Returned, CsGone DEF TickEnds
  <2> QED BY <2>2, <2>3
<1>12. CASE ReturnFromTick
  <2>1. Top.pc \notin UserPlaces \cup {"enter", "defer"}
    BY <1>12 DEF ReturnFromTick, At, UserPlaces
  <2> QED BY <1>12, <2>1, Returned, CsGone DEF ReturnFromTick
<1> QED BY <1>1, <1>2, <1>3, <1>4, <1>5, <1>6, <1>7, <1>8, <1>9, <1>10, <1>11, <1>12 DEF SystemStep

LEMMA NextCs ==
    ASSUME Structure, CsInv, SwitchIsLeftAlone, "cs" \notin Interruptible, [KernelNext]_kernelVars
    PROVE  CsInv'
<1>1. CASE UNCHANGED kernelVars
  BY <1>1 DEF kernelVars, CsInv, Top
<1>2. CASE Tick
  <2> DEFINE u == <<Frame("isr", FALSE)>> \o stack[sp]
  <2>1. StackOK(sp, u) /\ Base(u) = Base(stack[sp])
    BY <1>2, TopOfStack, TickedOK DEF Tick
  <2>2. stack' = [stack EXCEPT ![sp] = u] /\ UNCHANGED sp
    BY <1>2 DEF Tick, cpuVars
  <2> HIDE DEF u
  <2>3. Base(stack[sp]) # "cs"
    BY <1>2, TopOfStack DEF Tick, Base
  <2>4. Head(u) = u[1]
    BY <2>1 DEF StackOK, Shape, PlainAbove
  <2> QED BY <2>1, <2>2, <2>3, <2>4, CsKept
<1>3. ASSUME NEW s \in RxSignals, Receive(s) PROVE CsInv'
  BY <1>3 DEF Receive, cpuVars, CsInv, Top
<1> QED BY <1>1, <1>2, <1>3, ThreadStepCs, SystemStepCs DEF KernelNext

LEMMA InitCs == KernelInit => CsInv
<1> SUFFICES ASSUME KernelInit PROVE CsInv
  OBVIOUS
<1>1. ASSUME NEW t \in Threads PROVE Base(stack[t]) \in {"user", "leave"}
  <2>1. stack[t] = <<Frame(IF t = 0 THEN "user" ELSE "leave", FALSE)>>
    BY DEF KernelInit
  <2> QED BY <2>1 DEF Base, Frame
<1>2. sp \in Threads
  BY ThreadsExist DEF KernelInit
<1> QED BY <1>1, <1>2 DEF CsInv

LEMMA CsAlways ==
    ASSUME SwitchIsLeftAlone, "cs" \notin Interruptible
    PROVE  KernelSpec => []CsInv
<1>1. Structure /\ CsInv /\ [KernelNext]_kernelVars => CsInv'
  BY NextCs
<1> QED BY <1>1, InitCs, StructureAlways, PTL DEF KernelSpec

LEMMA OnlyBase ==
    ASSUME NEW s \in Seq(FrameType), Shape(s), NEW k \in 1 .. Len(s), s[k].pc = "cs"
    PROVE  k = Len(s)
<1>1. Len(s) \in 1 .. 4
  BY DEF Shape, PlainAbove
<1>2. \A j \in 1 .. Len(s) - 1 : s[j].pc \in SchedulePlaces \cup {"isr", "reti"}
  <2>1. CASE PlainAbove(s, 0)
    <3>1. CASE Len(s) = 1
      BY <3>1
    <3>2. CASE Len(s) = 2
      <4>1. s[1].pc \in SchedulePlaces
        BY <2>1, <3>2 DEF PlainAbove
      <4> QED BY <3>2, <4>1
    <3> QED BY <2>1, <3>1, <3>2 DEF PlainAbove
  <2>2. CASE PlainAbove(s, 1) /\ s[1].pc \in {"isr", "reti"}
    <3>1. CASE Len(s) = 2
      BY <2>2, <3>1
    <3>2. CASE Len(s) = 3
      <4>1. s[2].pc \in SchedulePlaces
        BY <2>2, <3>2 DEF PlainAbove
      <4> QED BY <2>2, <3>2, <4>1
    <3> QED BY <2>2, <3>1, <3>2 DEF PlainAbove
  <2>3. CASE PlainAbove(s, 2) /\ s[1].pc \in SchedulePlaces /\ s[2].pc = "reti"
    <3>1. CASE Len(s) = 3
      BY <2>3, <3>1
    <3>2. CASE Len(s) = 4
      <4>1. s[3].pc \in SchedulePlaces
        BY <2>3, <3>2 DEF PlainAbove
      <4> QED BY <2>3, <3>2, <4>1
    <3> QED BY <2>3, <3>1, <3>2 DEF PlainAbove
  <2> QED BY <2>1, <2>2, <2>3 DEF Shape
<1>3. k \notin 1 .. Len(s) - 1
  BY <1>2 DEF SchedulePlaces
<1> QED BY <1>1, <1>3

LEMMA CsInvProtects == Structure /\ CsInv => CsIsProtected
<1> SUFFICES ASSUME Structure, CsInv, NEW t \in Threads \ {sp}, InCS(t) PROVE FALSE
  BY DEF CsIsProtected
<1>1. StackOK(t, stack[t])
  BY DEF Structure
<1>2. PICK k \in 1 .. Len(stack[t]) : stack[t][k].pc = "cs"
  BY DEF InCS
<1>3. k = Len(stack[t])
  BY <1>1, <1>2, OnlyBase DEF StackOK
<1> QED BY <1>2, <1>3 DEF CsInv, Base

(* os_enterCS() protects from thread switches (os_thread.h:151), as long as *)
(* the timer interrupt stays out of the critical sections, too.             *)
THEOREM CriticalSectionsAreProtected ==
    ASSUME SwitchIsLeftAlone, "cs" \notin Interruptible
    PROVE  KernelSpec => []CsIsProtected
BY StructureAlways, CsAlways, CsInvProtects, PTL

-----------------------------------------------------------------------------
(* Signals.  Every search of the scheduler that goes on will still look at  *)
(* the idle thread, so it does not end without a thread that can run; and   *)
(* no search goes on below an interrupt at a thread it has chosen already.  *)
FramesOK(s) ==
    \A k \in 1 .. Len(s) :
        /\ s[k].pc = "scan" => s[k].i <= Idle /\ Idle < s[k].end
        /\ k >= 2 => s[k].pc \notin {"defer", "picked"}

(* The thread of the stack s is on its way back from os_schedule() into     *)
(* os_signal_set().                                                         *)
BlockedReturns(s) == Len(s) > 1 /\ Base(s) = "blocked" /\ s[Len(s) - 1].pc = "release"

Free(t) == wait_for[t] = Dummy \/ value[wait_for[t]] = 0

SetInv ==
    /\ wait_for[Idle] = Dummy
    /\ At("defer") => Base(stack[sp]) = "cs"
    /\ Top.pc \in {"user", "blocked", "enter", "reti"} /\ Base(stack[sp]) # "cs"
           => os_scheduling_allowed = 1
    /\ At("begin") => os_scheduling_allowed # 2
    /\ Top.pc \in {"picked", "switch"} => Runnable(Top.i)
    /\ \A t \in Threads : FramesOK(stack[t])
    /\ BlockedReturns(stack[sp]) => Free(sp)

LEMMA FramesReplaced ==
    ASSUME NEW s, NEW u, FramesOK(s), Replaced(s, u), Len(s) \in 1 .. 4,
           u[1].pc = "scan" => u[1].i <= Idle /\ Idle < u[1].end
    PROVE  FramesOK(u) /\ (BlockedReturns(u) /\ u[1].pc # "release" => BlockedReturns(s))
<1>1. FramesOK(u)
  <2>1. \A k \in 2 .. Len(u) : u[k] = s[k] /\ k \in 1 .. Len(s)
    BY DEF Replaced
  <2> QED BY <2>1 DEF FramesOK, Replaced
<1>2. ASSUME BlockedReturns(u), u[1].pc # "release" PROVE BlockedReturns(s)
  <2>1. Len(u) = Len(s) /\ Len(s) \in 2 .. 4
    BY <1>2 DEF BlockedReturns, Replaced
  <2>2. Base(s) = "blocked"
    BY <1>2, <2>1, BaseKept DEF BlockedReturns
  <2>3. Len(s) - 1 \in 2 .. Len(s)
    <3>1. ASSUME Len(s) = 2 PROVE FALSE
      <4>1. Len(u) - 1 = 1
        BY <2>1, <3>1
      <4> QED BY <1>2, <4>1 DEF BlockedReturns
    <3>2. Len(s) \in 3 .. 4
      BY <2>1, <3>1
    <3> QED BY <3>2
  <2> QED BY <1>2, <2>1, <2>2, <2>3 DEF BlockedReturns, Replaced
<1> QED BY <1>1, <1>2

LEMMA FramesGrown ==
    ASSUME NEW s, NEW u, FramesOK(s), Grown(s, u), Len(s) \in 1 .. 4, Base(u) = Base(s),
           u[1].pc \notin {"scan", "release"},
           u[2].pc \notin {"defer", "picked"},
           u[2] = s[1] \/ u[2].pc \notin {"scan", "release"}
    PROVE  FramesOK(u) /\ (BlockedReturns(u) => BlockedReturns(s))
<1>1. FramesOK(u)
  <2>1. \A k \in 3 .. Len(u) : u[k] = s[k - 1] /\ k - 1 \in 2 .. Len(s)
    BY DEF Grown
  <2>2. \A k \in 3 .. Len(u) :
            /\ u[k].pc = "scan" => u[k].i <= Idle /\ Idle < u[k].end
            /\ u[k].pc \notin {"defer", "picked"}
    <3>1. \A k \in 2 .. Len(s) :
              /\ s[k].pc = "scan" => s[k].i <= Idle /\ Idle < s[k].end
              /\ s[k].pc \notin {"defer", "picked"}
      BY DEF FramesOK
    <3> QED BY <2>1, <3>1
  <2>3. u[2].pc = "scan" => u[2].i <= Idle /\ Idle < u[2].end
    <3>1. s[1].pc = "scan" => s[1].i <= Idle /\ Idle < s[1].end
      BY DEF FramesOK
    <3> QED BY <3>1
  <2>4. \A k \in 1 .. Len(u) : k = 1 \/ k = 2 \/ k \in 3 .. Len(u)
    BY DEF Grown
  <2> QED BY <2>2, <2>3, <2>4 DEF FramesOK
<1>2. ASSUME BlockedReturns(u) PROVE BlockedReturns(s)
  <2>1. CASE Len(s) = 1
    <3>1. Len(u) - 1 = 1
      BY <2>1 DEF Grown
    <3> QED BY <1>2, <3>1 DEF BlockedReturns
  <2>2. CASE Len(s) = 2
    <3>1. Len(u) - 1 = 2
      BY <2>2 DEF Grown
    <3>2. s[1].pc = "release"
      BY <1>2, <3>1 DEF BlockedReturns
    <3>3. Len(s) - 1 = 1
      BY <2>2
    <3> QED BY <1>2, <2>2, <3>2, <3>3 DEF BlockedReturns
  <2>3. CASE Len(s) \in 3 .. 4
    <3>1. Len(u) - 1 = Len(s) /\ Len(s) \in 3 .. Len(u)
      <4>1. \A m \in 3 .. 4, n \in Int : n = m + 1 => n - 1 = m /\ m \in 3 .. n
        OBVIOUS
      <4>2. Len(u) = Len(s) + 1 /\ Len(u) \in Int
        BY <2>3 DEF Grown
      <4> QED BY <2>3, <4>1, <4>2
    <3>2. u[Len(s)] = s[Len(s) - 1]
      <4>1. \A k \in 3 .. Len(u) : u[k] = s[k - 1]
        BY DEF Grown
      <4> QED BY <3>1, <4>1
    <3>3. u[Len(s)].pc = "release"
      BY <1>2, <3>1 DEF BlockedReturns
    <3>4. Len(s) > 1 /\ Base(s) = "blocked"
      BY <1>2, <2>3, SMTT(30) DEF BlockedReturns
    <3> QED BY <3>2, <3>3, <3>4 DEF BlockedReturns
  <2> QED BY <2>1, <2>2, <2>3
<1> QED BY <1>1, <1>2

LEMMA FramesShrunk ==
    ASSUME NEW s, NEW u, FramesOK(s), Shrunk(s, u), Len(s) \in 2 .. 4, Base(u) = Base(s)
    PROVE  FramesOK(u) /\ (BlockedReturns(u) => BlockedReturns(s)) /\ u[1].pc \notin {"defer", "picked"}
<1>1. \A k \in 1 .. Len(u) : u[k] = s[k + 1] /\ k + 1 \in 2 .. Len(s)
  BY DEF Shrunk
<1>2. \A k \in 1 .. Len(u) : /\ u[k].pc = "scan" => u[k].i <= Idle /\ Idle < u[k].end
                             /\ u[k].pc \notin {"defer", "picked"}
  <2>1. \A k \in 2 .. Len(s) : /\ s[k].pc = "scan" => s[k].i <= Idle /\ Idle < s[k].end
                               /\ s[k].pc \notin {"defer", "picked"}
    BY DEF FramesOK
  <2> QED BY <1>1, <2>1
<1>3. ASSUME BlockedReturns(u) PROVE BlockedReturns(s)
  <2>1. Len(u) = Len(s) - 1 /\ Len(u) \in 2 .. 3
    BY <1>3 DEF BlockedReturns, Shrunk
  <2>2. u[Len(u) - 1] = s[Len(s) - 1]
    BY <2>1 DEF Shrunk
  <2> QED BY <1>3, <2>1, <2>2 DEF BlockedReturns
<1>4. 1 \in 1 .. Len(u)
  BY DEF Shrunk
<1> QED BY <1>2, <1>3, <1>4 DEF FramesOK

(* A step on the stack in use. *)
LEMMA SetKept ==
    ASSUME Structure, SetInv, NEW u, stack' = [stack EXCEPT ![sp] = u], UNCHANGED sp,
           StackOK(sp, u), FramesOK(u),
           wait_for'[Idle] = Dummy,
           u[1].pc = "defer" => Base(u) = "cs",
           u[1].pc \in {"user", "blocked", "enter", "reti"} /\ Base(u) # "cs" => os_scheduling_allowed' = 1,
           u[1].pc = "begin" => os_scheduling_allowed' # 2,
           u[1].pc \in {"picked", "switch"} => Runnable(u[1].i)',
           BlockedReturns(u) => Free(sp)'
    PROVE  SetInv'
<1>1. stack'[sp] = u /\ \A t \in Threads \ {sp} : stack'[t] = stack[t]
  BY DEF Structure
<1>2. Top' = u[1]
  <2>1. Head(u) = u[1]
    BY DEF StackOK, Shape, PlainAbove
  <2> QED BY <1>1, <2>1 DEF Top
<1>3. \A t \in Threads : FramesOK(stack'[t])
  BY <1>1 DEF SetInv
<1>4. BlockedReturns(stack'[sp']) => Free(sp)'
  BY <1>1
<1> QED BY <1>1, <1>2, <1>3, <1>4 DEF SetInv, At

(* A user frame goes on or calls the scheduler. *)
LEMMA SetOfThread ==
    ASSUME Structure, SetInv, NEW u, stack' = [stack EXCEPT ![sp] = u], UNCHANGED sp, StackOK(sp, u),
           wait_for'[Idle] = Dummy,
           \/ Len(u) = 1 /\ u[1].pc \in UserPlaces /\ (u[1].pc \in {"user", "blocked"} => os_scheduling_allowed' = 1)
           \/ Len(u) = 2 /\ Head(u).pc = "enter" /\ (u[2].pc = "cs" \/ os_scheduling_allowed' = 1)
    PROVE  SetInv'
<1>1. Head(u) = u[1]
  BY DEF StackOK, Shape, PlainAbove
<1>2. CASE /\ Len(u) = 1 /\ u[1].pc \in UserPlaces
           /\ u[1].pc \in {"user", "blocked"} => os_scheduling_allowed' = 1
  <2>1. FramesOK(u) /\ ~BlockedReturns(u)
    BY <1>2 DEF FramesOK, BlockedReturns, UserPlaces
  <2> QED BY <1>2, <2>1, SetKept DEF UserPlaces
<1>3. CASE /\ Len(u) = 2 /\ Head(u).pc = "enter"
           /\ u[2].pc = "cs" \/ os_scheduling_allowed' = 1
  <2>1. u[1].pc = "enter" /\ Base(u) = u[2].pc /\ Len(u) - 1 = 1
    BY <1>1, <1>3 DEF Base
  <2>2. ~BlockedReturns(u)
    BY <2>1 DEF BlockedReturns
  <2>3. u[2].pc \in {"user", "cs", "blocked"}
    BY <1>3, <2>1 DEF StackOK, Shape, PlainAbove, UserPlaces, SchedulePlaces
  <2>4. FramesOK(u)
    BY <1>3, <2>1, <2>3 DEF FramesOK
  <2> QED BY <1>3, <2>1, <2>2, <2>4, SetKept
<1> QED BY <1>2, <1>3

LEMMA ThreadStepSet == Structure /\ CsInv /\ SetInv /\ ThreadStep => SetInv'
<1> SUFFICES ASSUME Structure, CsInv, SetInv, ThreadStep PROVE SetInv'
  OBVIOUS
<1>0. wait_for[Idle] = Dummy /\ Idle \in Threads /\ wait_for \in [Threads -> Signals \cup {Dummy}]
  BY ThreadsExist, FieldsTyped DEF SetInv
<1>a. Top.pc = "user" => os_scheduling_allowed = 1
  BY UserTop DEF UserPlaces, SetInv
<1> USE DEF threadVars, cpuVars
<1>1. CASE os_enterCS
  <2>1. Top.pc \in UserPlaces /\ sp # Idle /\ "cs" \in Places \ {"picked", "switch"} /\ "cs" \in UserPlaces
    BY <1>1 DEF os_enterCS, Working, At, UserPlaces, Places
  <2>2. stack' = Goto("cs") /\ UNCHANGED <<sp, wait_for>> /\ Len(stack[sp]) = 1
    BY <1>1, <2>1, UserTop DEF os_enterCS
  <2> DEFINE u == <<[Top EXCEPT !.pc = "cs"]>> \o Tail(stack[sp])
  <2>3. stack' = [stack EXCEPT ![sp] = u] /\ StackOK(sp, u) /\ Len(u) = 1 /\ u[1].pc = "cs"
    BY <2>1, <2>2, GoneOn DEF Replaced
  <2> HIDE DEF u
  <2> QED BY <1>0, <2>1, <2>2, <2>3, SetOfThread
<1>2. CASE os_thread_sleep
  <2>1. Top.pc = "user" /\ Top.pc \in UserPlaces /\ sp # Idle
    BY <1>2 DEF os_thread_sleep, Working, At, UserPlaces
  <2>2. stack' = Schedule("user", FALSE) /\ UNCHANGED <<sp, wait_for, os_scheduling_allowed>>
    BY <1>2 DEF os_thread_sleep
  <2> QED BY <1>0, <1>a, <2>1, <2>2, Scheduled, SetOfThread
<1>3. CASE os_thread_yield
  <2>1. Top.pc \in UserPlaces /\ sp # Idle /\ "yield" \in Places \ {"picked", "switch"} /\ "yield" \in UserPlaces
    BY <1>3 DEF os_thread_yield, Working, At, UserPlaces, Places
  <2>2. stack' = Goto("yield") /\ UNCHANGED <<sp, wait_for>> /\ Len(stack[sp]) = 1
    BY <1>3, <2>1, UserTop DEF os_thread_yield
  <2> DEFINE u == <<[Top EXCEPT !.pc = "yield"]>> \o Tail(stack[sp])
  <2>3. stack' = [stack EXCEPT ![sp] = u] /\ StackOK(sp, u) /\ Len(u) = 1 /\ u[1].pc = "yield"
    BY <2>1, <2>2, GoneOn DEF Replaced
  <2> HIDE DEF u
  <2> QED BY <1>0, <2>1, <2>2, <2>3, SetOfThread
<1>4. ASSUME NEW s \in Signals, os_signal_lock(s) PROVE SetInv'
  <2>1. Len(stack[sp]) = 1 /\ Top.pc = "user"
    BY <1>4, UserTop DEF os_signal_lock, Working, At, UserPlaces
  <2>2. UNCHANGED <<stack, sp, wait_for, os_scheduling_allowed>>
    BY <1>4 DEF os_signal_lock
  <2>3. ~BlockedReturns(stack[sp])
    BY <2>1 DEF BlockedReturns
  <2> QED BY <2>1, <2>2, <2>3 DEF SetInv, At, Top
<1>5. ASSUME NEW s \in Signals, os_signal_set(s) PROVE SetInv'
  <2>1. Top.pc = "user" /\ Top.pc \in UserPlaces /\ sp # Idle /\ sp = os_thread_running
    BY <1>5, TopOfStack DEF os_signal_set, Working, At, UserPlaces
  <2>2. stack' = Schedule("blocked", FALSE) /\ UNCHANGED <<sp, os_scheduling_allowed>>
    BY <1>5 DEF os_signal_set
  <2>3. wait_for'[Idle] = Dummy
    BY <1>0, <1>5, <2>1 DEF os_signal_set
  <2> QED BY <1>a, <2>1, <2>2, <2>3, Scheduled, SetOfThread
<1>6. ASSUME NEW s \in Signals, os_signal_unlock(s) PROVE SetInv'
  <2>1. Top.pc \in UserPlaces /\ sp # Idle /\ Top.pc \in {"user", "cs"}
    BY <1>6 DEF os_signal_unlock, Working, At, UserPlaces
  <2>2. stack' = Schedule(Top.pc, FALSE) /\ UNCHANGED <<sp, wait_for, os_scheduling_allowed>>
    BY <1>6 DEF os_signal_unlock
  <2>3. Top.pc \in {"user", "cs", "blocked"}
    BY <2>1
  <2> QED BY <1>0, <1>a, <2>1, <2>2, <2>3, Scheduled, SetOfThread
<1> QED BY <1>1, <1>2, <1>3, <1>4, <1>5, <1>6 DEF ThreadStep

(* A call of the scheduler or the interrupt goes on or returns, with the    *)
(* signals left alone.                                                      *)
LEMMA SetGone ==
    ASSUME Structure, SetInv, NEW u, stack' = [stack EXCEPT ![sp] = u], UNCHANGED <<sp, threadVars>>,
           StackOK(sp, u), FramesOK(u), BlockedReturns(u) => BlockedReturns(stack[sp]) \/ Free(sp),
           u[1].pc = "defer" => Base(u) = "cs",
           u[1].pc \in {"user", "blocked", "enter", "reti"} /\ Base(u) # "cs" => os_scheduling_allowed' = 1,
           u[1].pc = "begin" => os_scheduling_allowed' # 2,
           u[1].pc \in {"picked", "switch"} => Runnable(u[1].i)
    PROVE  SetInv'
<1>1. UNCHANGED <<sp, wait_for, value, asleep>>
  BY DEF threadVars
<1>2. BlockedReturns(u) => Free(sp)'
  BY <1>1 DEF SetInv, Free
<1>3. u[1].pc \in {"picked", "switch"} => Runnable(u[1].i)'
  BY <1>1 DEF Runnable
<1>4. wait_for'[Idle] = Dummy
  BY <1>1 DEF SetInv
<1> QED BY <1>1, <1>2, <1>3, <1>4, SetKept

LEMMA FramesOfStack ==
    ASSUME Structure, SetInv
    PROVE  /\ FramesOK(stack[sp])
           /\ Top.pc = "scan" => Top.i <= Idle /\ Idle < Top.end
<1>1. FramesOK(stack[sp])
  BY DEF Structure, SetInv
<1>2. 1 \in 1 .. Len(stack[sp]) /\ Top = stack[sp][1]
  BY TopOfStack
<1> QED BY <1>1, <1>2 DEF FramesOK

(* A return with the lock open. *)
LEMMA ReturnedSet ==
    ASSUME Structure, SetInv, stack' = Return, UNCHANGED <<sp, threadVars>>,
           os_scheduling_allowed' = 1, Top.pc \notin UserPlaces
    PROVE  SetInv'
<1> DEFINE u == Tail(stack[sp])
<1>1. /\ stack' = [stack EXCEPT ![sp] = u] /\ StackOK(sp, u) /\ Base(u) = Base(stack[sp])
      /\ Shrunk(stack[sp], u) /\ Head(u).pc # "switch"
  BY Returned
<1> HIDE DEF u
<1>2. Head(u) = u[1]
  BY <1>1 DEF StackOK, Shape, PlainAbove
<1>3. FramesOK(u) /\ (BlockedReturns(u) => BlockedReturns(stack[sp])) /\ u[1].pc \notin {"defer", "picked"}
  BY <1>1, SystemTop, FramesOfStack, FramesShrunk
<1>4. u[1].pc \notin {"defer", "picked", "switch"}
  BY <1>1, <1>2, <1>3
<1>5. os_scheduling_allowed' = 1 /\ os_scheduling_allowed' # 2
  OBVIOUS
<1> QED BY <1>1, <1>3, <1>4, <1>5, SetGone

(* The search comes to a thread that can run: to the idle thread, at last.  *)
LEMMA SearchIsShort ==
    ASSUME Structure, SetInv, Top.pc = "scan"
    PROVE  /\ ~(Top.i >= Top.end)
           /\ ~Runnable(Top.i) => Top.i + 1 <= Idle
<1>1. Top.i \in Nat /\ Top.end \in Int /\ Idle \in Nat
  BY TopOfStack, ThreadsExist DEF FrameType
<1>2. Runnable(Idle)
  BY ThreadsExist, FieldsTyped DEF Runnable, SetInv
<1>3. ~Runnable(Top.i) => Top.i # Idle
  BY <1>2
<1>4. Top.i <= Idle /\ Idle < Top.end
  BY FramesOfStack
<1> QED BY <1>1, <1>3, <1>4

LEMMA SystemStepSet ==
    ASSUME Structure, CsInv, SetInv, SystemStep, ThreadCount < OS_MAX_THREADS
    PROVE  SetInv'
<1>0. /\ wait_for[Idle] = Dummy /\ Idle \in Threads
      /\ FramesOK(stack[sp]) /\ Len(stack[sp]) \in 1 .. 4 /\ StackOK(sp, stack[sp])
  BY ThreadsExist, FramesOfStack, TopOfStack DEF SetInv
<1> DEFINE Moved(f) == <<f>> \o Tail(stack[sp])
<1>1. CASE os_exitCS
  <2>1. Top.pc \in UserPlaces /\ "user" \in Places \ {"picked", "switch"} /\ "user" \in UserPlaces
    BY <1>1 DEF os_exitCS, At, UserPlaces, Places
  <2>2. os_scheduling_allowed' = 1 /\ UNCHANGED <<sp, wait_for>>
    BY <1>1 DEF os_exitCS, cpuVars, threadVars
  <2>3. CASE os_scheduling_allowed = 2
    <3>1. stack' = Schedule("user", FALSE)
      BY <1>1, <2>3 DEF os_exitCS
    <3> QED BY <1>0, <2>1, <2>2, <3>1, Scheduled, SetOfThread
  <2>4. CASE os_scheduling_allowed # 2
    <3>1. stack' = Goto("user") /\ Len(stack[sp]) = 1
      BY <1>1, <2>1, <2>4, UserTop DEF os_exitCS
    <3> DEFINE u == <<[Top EXCEPT !.pc = "user"]>> \o Tail(stack[sp])
    <3>2. stack' = [stack EXCEPT ![sp] = u] /\ StackOK(sp, u) /\ Len(u) = 1 /\ u[1].pc = "user"
      BY <2>1, <3>1, GoneOn DEF Replaced
    <3> HIDE DEF u
    <3> QED BY <1>0, <2>1, <2>2, <3>2, SetOfThread
  <2> QED BY <2>3, <2>4
<1>2. CASE os_signal_release
  <2>1. /\ Top.pc \in UserPlaces /\ "user" \in Places \ {"picked", "switch"} /\ "user" \in UserPlaces
        /\ Top.pc = "blocked" /\ ~At("switch")
    BY <1>2 DEF os_signal_release, At, UserPlaces, Places
  <2>2. stack' = Goto("user") /\ UNCHANGED <<sp, os_scheduling_allowed>> /\ Len(stack[sp]) = 1
    BY <1>2, <2>1, UserTop DEF os_signal_release, cpuVars
  <2>3. wait_for'[Idle] = Dummy
    BY <1>0, <1>2, FieldsTyped DEF os_signal_release
  <2>4. os_scheduling_allowed = 1
    BY <2>1, UserTop DEF SetInv
  <2> DEFINE u == <<[Top EXCEPT !.pc = "user"]>> \o Tail(stack[sp])
  <2>5. stack' = [stack EXCEPT ![sp] = u] /\ StackOK(sp, u) /\ Len(u) = 1 /\ u[1].pc = "user"
    BY <2>1, <2>2, GoneOn DEF Replaced
  <2> HIDE DEF u
  <2> QED BY <2>1, <2>2, <2>3, <2>4, <2>5, SetOfThread
<1>3. ASSUME NEW rest \in BOOLEAN, GiveAway(rest) PROVE SetInv'
  <2>1. Top.pc \in UserPlaces /\ "leave" \in Places \ {"picked", "switch"} /\ "leave" \in UserPlaces
    BY <1>3 DEF GiveAway, At, UserPlaces, Places
  <2>2. stack' = Goto("leave") /\ UNCHANGED <<sp, wait_for>> /\ Len(stack[sp]) = 1
    BY <1>3, <2>1, UserTop DEF GiveAway, cpuVars
  <2> DEFINE u == <<[Top EXCEPT !.pc = "leave"]>> \o Tail(stack[sp])
  <2>3. stack' = [stack EXCEPT ![sp] = u] /\ StackOK(sp, u) /\ Len(u) = 1 /\ u[1].pc = "leave"
    BY <2>1, <2>2, GoneOn DEF Replaced
  <2> HIDE DEF u
  <2> QED BY <1>0, <2>1, <2>2, <2>3, SetOfThread
<1>4. CASE Enter
  <2>1. /\ Top.pc = "enter" /\ Top.pc \in SchedulePlaces /\ Top.pc \notin UserPlaces
        /\ "begin" \in Places \ {"picked", "switch"} /\ "begin" \in SchedulePlaces
        /\ "defer" \in Places \ {"picked", "switch"} /\ "defer" \in SchedulePlaces
    BY <1>4 DEF Enter, At, SchedulePlaces, UserPlaces, Places
  <2>2. PICK place \in {"begin", "defer"} : stack' = Goto(place) /\ (place = "defer" => os_scheduling_allowed # 1)
    BY <1>4 DEF Enter
  <2>3. os_scheduling_allowed' = 0 /\ UNCHANGED <<sp, threadVars>>
    BY <1>4 DEF Enter, cpuVars
  <2> DEFINE u == <<[Top EXCEPT !.pc = place]>> \o Tail(stack[sp])
  <2>4. /\ Goto(place) = [stack EXCEPT ![sp] = u] /\ StackOK(sp, u)
        /\ u[1].pc = place /\ Replaced(stack[sp], u)
    BY <2>1, GoneOn
  <2> HIDE DEF u
  <2>5. Base(u) = Base(stack[sp])
    BY <2>1, <2>4, SystemTop, BaseKept
  <2>6. FramesOK(u) /\ (BlockedReturns(u) => BlockedReturns(stack[sp]))
    BY <1>0, <2>4, FramesReplaced
  <2>7. place = "defer" => Base(u) = "cs"
    BY <2>1, <2>2, <2>5 DEF SetInv
  <2>8. stack' = [stack EXCEPT ![sp] = u] /\ u[1].pc \in {"begin", "defer"} /\ (u[1].pc = "defer" => Base(u) = "cs")
    BY <2>2, <2>4, <2>7
  <2>9. os_scheduling_allowed' # 2
    BY <2>3
  <2> QED BY <2>3, <2>4, <2>6, <2>8, <2>9, SetGone
<1>5. CASE Defer
  <2>1. Top.pc = "defer" /\ Top.pc \notin UserPlaces /\ At("defer")
    BY <1>5 DEF Defer, At, UserPlaces
  <2> DEFINE u == Tail(stack[sp])
  <2>2. /\ stack' = [stack EXCEPT ![sp] = u] /\ StackOK(sp, u) /\ Base(u) = Base(stack[sp])
        /\ Shrunk(stack[sp], u) /\ UNCHANGED <<sp, wait_for>>
    BY <1>5, <2>1, Returned DEF Defer, cpuVars, threadVars
  <2> HIDE DEF u
  <2>3. Base(stack[sp]) = "cs" /\ Len(stack[sp]) = 2
    BY <2>1, SystemTop DEF CsInv, SetInv
  <2>4. Len(u) = 1
    BY <2>2, <2>3 DEF Shrunk
  <2>5. u[1].pc = "cs" /\ u[1].pc \in UserPlaces
    BY <2>2, <2>3, <2>4 DEF Base, UserPlaces
  <2> QED BY <1>0, <2>2, <2>4, <2>5, SetOfThread
<1>6. CASE Begin
  <2> DEFINE f == [Top EXCEPT !.pc = "scan", !.i = 0, !.end = OS_MAX_THREADS - os_scheduling_allowed]
  <2>1. Top.pc = "begin" /\ Top.pc \in SchedulePlaces /\ Top.pc \notin UserPlaces
    BY <1>6 DEF Begin, At, SchedulePlaces, UserPlaces
  <2>2. f \in FrameType /\ f.pc = "scan" /\ f.i = 0 /\ f.end = OS_MAX_THREADS - os_scheduling_allowed
    <3>1. OS_MAX_THREADS - os_scheduling_allowed \in Int
      BY FieldsTyped, KernelAssumption
    <3>2. "scan" \in Places /\ Top \in FrameType
      BY TopOfStack DEF Places, SchedulePlaces
    <3> QED BY <3>1, <3>2 DEF FrameType
  <2>3. stack' = [stack EXCEPT ![sp] = Moved(f)] /\ UNCHANGED <<sp, threadVars>>
    BY <1>6 DEF Begin, cpuVars
  <2>4. f.i <= Idle /\ Idle < f.end
    <3>1. os_scheduling_allowed \in {0, 1}
      BY <2>1, FieldsTyped DEF SetInv, At
    <3> QED BY <2>2, <3>1, KernelAssumption DEF Idle
  <2> HIDE DEF f
  <2>5. StackOK(sp, Moved(f)) /\ Replaced(stack[sp], Moved(f)) /\ Moved(f)[1] = f
    BY <2>1, <2>2, FrameMoved DEF SchedulePlaces
  <2> HIDE DEF Moved
  <2>6. FramesOK(Moved(f)) /\ (BlockedReturns(Moved(f)) => BlockedReturns(stack[sp]))
    BY <1>0, <2>2, <2>4, <2>5, FramesReplaced
  <2> QED BY <2>2, <2>3, <2>5, <2>6, SetGone
<1>7. CASE Scan
  <2>1. /\ Top.pc = "scan" /\ Top.pc \in SchedulePlaces /\ Top.pc \notin UserPlaces
        /\ UNCHANGED <<sp, threadVars>>
    BY <1>7 DEF Scan, At, SchedulePlaces, UserPlaces, cpuVars
  <2>2. CASE Top.i >= Top.end \/ (Runnable(Top.i) /\ Top.i = os_thread_running)
    <3>1. stack' = Found
      BY <1>7, <2>2 DEF Scan
    <3>2. Runnable(sp)
      BY <2>1, <2>2, SearchIsShort, TopOfStack DEF At
    <3>3. Free(sp)
      BY <3>2 DEF Runnable, Free
    <3> DEFINE u == <<Frame("release", Top.off)>> \o Tail(stack[sp])
    <3>4. /\ Found = [stack EXCEPT ![sp] = u] /\ StackOK(sp, u)
          /\ u[1].pc = "release" /\ Replaced(stack[sp], u)
      BY <2>1, SearchEnded
    <3> HIDE DEF u
    <3>5. FramesOK(u)
      BY <1>0, <3>4, FramesReplaced
    <3> QED BY <2>1, <3>1, <3>3, <3>4, <3>5, SetGone
  <2>3. CASE ~(Top.i >= Top.end \/ (Runnable(Top.i) /\ Top.i = os_thread_running)) /\ Runnable(Top.i)
    <3> DEFINE f == [Top EXCEPT !.pc = "picked"]
    <3>1. f \in FrameType /\ f.pc = "picked" /\ f.i = Top.i
      BY TopOfStack DEF FrameType, Places, SchedulePlaces
    <3>2. Top.i \in Threads \ {sp}
      BY <2>1, <2>3, TopOfStack DEF Runnable, At
    <3>3. stack' = [stack EXCEPT ![sp] = Moved(f)]
      BY <1>7, <2>3 DEF Scan, Goto
    <3> HIDE DEF f
    <3>4. StackOK(sp, Moved(f)) /\ Replaced(stack[sp], Moved(f)) /\ Moved(f)[1] = f
      BY <2>1, <3>1, <3>2, FrameMoved DEF SchedulePlaces
    <3> HIDE DEF Moved
    <3>5. FramesOK(Moved(f)) /\ (BlockedReturns(Moved(f)) => BlockedReturns(stack[sp]))
      BY <1>0, <3>1, <3>4, FramesReplaced
    <3> QED BY <2>1, <2>3, <3>1, <3>3, <3>4, <3>5, SetGone
  <2>4. CASE ~(Top.i >= Top.end \/ (Runnable(Top.i) /\ Top.i = os_thread_running)) /\ ~Runnable(Top.i)
    <3> DEFINE f == [Top EXCEPT !.i = @ + 1]
    <3>1. f \in FrameType /\ f.pc = "scan" /\ f.i = Top.i + 1 /\ f.end = Top.end
      BY <2>1, TopOfStack DEF FrameType
    <3>2. f.i <= Idle /\ Idle < f.end
      BY <2>1, <2>4, <3>1, SearchIsShort, FramesOfStack
    <3>3. stack' = [stack EXCEPT ![sp] = Moved(f)]
      BY <1>7, <2>4 DEF Scan
    <3> HIDE DEF f
    <3>4. StackOK(sp, Moved(f)) /\ Replaced(stack[sp], Moved(f)) /\ Moved(f)[1] = f
      BY <2>1, <3>1, FrameMoved DEF SchedulePlaces
    <3> HIDE DEF Moved
    <3>5. FramesOK(Moved(f)) /\ (BlockedReturns(Moved(f)) => BlockedReturns(stack[sp]))
      BY <1>0, <3>1, <3>2, <3>4, FramesReplaced
    <3> QED BY <2>1, <3>1, <3>3, <3>4, <3>5, SetGone
  <2> QED BY <2>2, <2>3, <2>4
<1>8. CASE Pick
  <2> DEFINE f == [Top EXCEPT !.pc = "switch", !.from = os_thread_running]
  <2>1. Top.pc = "picked" /\ Top.i \in Threads \ {sp} /\ Runnable(Top.i)
    <3>1. Top.pc = "picked" /\ Top = stack[sp][1] /\ 1 \in 1 .. Len(stack[sp])
      BY <1>8, TopOfStack DEF Pick, At
    <3> QED BY <3>1, TopOfStack DEF StackOK, SetInv
  <2>2. f \in FrameType /\ f.pc = "switch" /\ f.i = Top.i
    <3>1. os_thread_running \in Threads
      BY DEF Structure
    <3> QED BY <3>1, TopOfStack DEF FrameType, Places, SchedulePlaces
  <2>3. stack' = [stack EXCEPT ![sp] = Moved(f)] /\ UNCHANGED <<sp, threadVars>>
    BY <1>8 DEF Pick
  <2> HIDE DEF f
  <2>4. StackOK(sp, Moved(f)) /\ Replaced(stack[sp], Moved(f)) /\ Moved(f)[1] = f
    BY <2>1, <2>2, FrameMoved DEF SchedulePlaces
  <2> HIDE DEF Moved
  <2>5. FramesOK(Moved(f)) /\ (BlockedReturns(Moved(f)) => BlockedReturns(stack[sp]))
    BY <1>0, <2>2, <2>4, FramesReplaced
  <2> QED BY <2>1, <2>2, <2>3, <2>4, <2>5, SetGone
<1>9. CASE Switch
  <2>1. Top.pc = "switch" /\ Runnable(Top.i)
    BY <1>9 DEF Switch, At, SetInv
  <2>2. UNCHANGED <<wait_for, value, asleep>>
    BY <1>9 DEF Switch, threadVars
  <2>3. /\ sp' = Top.i /\ sp' \in Threads \ {sp} /\ Top'.pc \in {"release", "leave"}
        /\ \A t \in Threads \ {sp} : stack'[t] = stack[t]
        /\ Replaced(stack[sp], stack'[sp]) /\ stack'[sp][1].pc = "release"
    BY <1>9, SwitchStructure
  <2>4. FramesOK(stack'[sp])
    BY <1>0, <2>3, FramesReplaced
  <2>5. \A t \in Threads : FramesOK(stack'[t])
    BY <2>3, <2>4 DEF SetInv
  <2>6. Free(sp)'
    BY <2>1, <2>2, <2>3 DEF Free, Runnable
  <2> QED BY <1>0, <2>2, <2>3, <2>5, <2>6 DEF SetInv, At
<1>10. CASE Release
  <2>1. /\ Top.pc \in SchedulePlaces /\ Top.pc \notin UserPlaces
        /\ "begin" \in Places \ {"picked", "switch"} /\ "begin" \in SchedulePlaces
        /\ UNCHANGED <<sp, threadVars>> /\ os_scheduling_allowed' = 1
    BY <1>10 DEF Release, At, SchedulePlaces, UserPlaces, Places, cpuVars
  <2>2. CASE os_scheduling_allowed = 2
    <3> DEFINE u == <<[Top EXCEPT !.pc = "begin"]>> \o Tail(stack[sp])
    <3>1. stack' = Goto("begin")
      BY <1>10, <2>2 DEF Release
    <3>2. /\ Goto("begin") = [stack EXCEPT ![sp] = u] /\ StackOK(sp, u)
          /\ u[1].pc = "begin" /\ Replaced(stack[sp], u)
      BY <2>1, GoneOn
    <3> HIDE DEF u
    <3>3. FramesOK(u) /\ (BlockedReturns(u) => BlockedReturns(stack[sp]))
      BY <1>0, <3>2, FramesReplaced
    <3> QED BY <2>1, <3>1, <3>2, <3>3, SetGone
  <2>3. CASE os_scheduling_allowed # 2
    <3>1. stack' = Return
      BY <1>10, <2>3 DEF Release
    <3> QED BY <2>1, <3>1, ReturnedSet
  <2> QED BY <2>2, <2>3
<1>11. ASSUME NEW slice \in BOOLEAN, TickEnds(slice) PROVE SetInv'
  <2>1. /\ Top.pc = "isr" /\ Top.pc \notin UserPlaces /\ UNCHANGED <<sp, threadVars>>
        /\ os_scheduling_allowed' = 1
    BY <1>11 DEF TickEnds, At, UserPlaces, cpuVars
  <2>2. CASE os_scheduling_allowed = 2 \/ slice
    <3>1. stack[sp][1].pc = "isr"
      BY <2>1, TopOfStack
    <3> DEFINE u == <<Frame("enter", TRUE), Frame("reti", TRUE)>> \o Tail(stack[sp])
    <3>2. /\ StackOK(sp, u) /\ Base(u) = Base(stack[sp]) /\ Grown(stack[sp], u)
          /\ u[1].pc = "enter" /\ u[2].pc = "reti"
      BY <1>0, <3>1, TopOfStack, TickCallsOK
    <3>3. stack' = [stack EXCEPT ![sp] = u]
      BY <1>11, <2>2 DEF TickEnds, Schedule
    <3> HIDE DEF u
    <3>4. FramesOK(u) /\ (BlockedReturns(u) => BlockedReturns(stack[sp]))
      BY <1>0, <3>2, FramesGrown
    <3> QED BY <2>1, <3>2, <3>3, <3>4, SetGone
  <2>3. CASE ~(os_scheduling_allowed = 2 \/ slice)
    <3>1. stack' = Return
      BY <1>11, <2>3 DEF TickEnds
    <3> QED BY <2>1, <3>1, ReturnedSet
  <2> QED BY <2>2, <2>3
<1>12. CASE ReturnFromTick
  <2>1. /\ Top.pc = "reti" /\ Top.pc \notin UserPlaces /\ UNCHANGED <<sp, threadVars, os_scheduling_allowed>>
        /\ stack' = Return
    BY <1>12 DEF ReturnFromTick, At, UserPlaces, cpuVars
  <2>2. os_scheduling_allowed = 1
    <3>1. Base(stack[sp]) # "cs"
      BY <2>1, SystemTop DEF CsInv
    <3> QED BY <2>1, <3>1 DEF SetInv
  <2> QED BY <2>1, <2>2, ReturnedSet
<1> QED BY <1>1, <1>2, <1>3, <1>4, <1>5, <1>6, <1>7, <1>8, <1>9, <1>10, <1>11, <1>12 DEF SystemStep

(* What the timer interrupt has to leave alone for signals to be waited for *)
(* (the switch from the choice on, and critical sections), and the slot     *)
(* that has to be free: a round that begins at the request of another call  *)
(* looks at one slot less (os_scheduler.c:249, 278).                        *)
ChoiceIsLeftAlone ==
    /\ SwitchIsLeftAlone
    /\ Interruptible \cap {"cs", "picked"} = {}
    /\ ThreadCount < OS_MAX_THREADS

LEMMA InitSet == KernelInit => SetInv
<1> SUFFICES ASSUME KernelInit PROVE SetInv
  OBVIOUS
<1>1. ASSUME NEW t \in Threads
      PROVE  /\ Len(stack[t]) = 1 /\ stack[t][1].pc \in {"user", "leave"}
             /\ Head(stack[t]) = stack[t][1]
  <2> DEFINE f == Frame(IF t = 0 THEN "user" ELSE "leave", FALSE)
  <2>1. stack[t] = <<f>> /\ f.pc \in {"user", "leave"}
    BY DEF KernelInit, Frame
  <2> HIDE DEF f
  <2> QED BY <2>1
<1>2. sp \in Threads /\ Idle \in Threads
  BY ThreadsExist DEF KernelInit
<1>3. \A t \in Threads : FramesOK(stack[t])
  BY <1>1 DEF FramesOK
<1>4. ~BlockedReturns(stack[sp])
  BY <1>1, <1>2 DEF BlockedReturns
<1> QED BY <1>1, <1>2, <1>3, <1>4 DEF SetInv, KernelInit, At, Top

LEMMA TickSet == Structure /\ SetInv /\ ChoiceIsLeftAlone /\ Tick => SetInv'
<1> SUFFICES ASSUME Structure, SetInv, ChoiceIsLeftAlone, Tick PROVE SetInv'
  OBVIOUS
<1> DEFINE u == <<Frame("isr", FALSE)>> \o stack[sp]
<1>1. /\ StackOK(sp, stack[sp]) /\ Len(stack[sp]) \in 1 .. 4 /\ Top = stack[sp][1] /\ FramesOK(stack[sp])
      /\ \A k \in 1 .. Len(stack[sp]) : stack[sp][k].pc \in Interruptible
  BY TopOfStack, FramesOfStack DEF Tick
<1>2. stack[sp][1].pc \notin {"defer", "picked"}
  <2>1. Top.pc \in Interruptible /\ Base(stack[sp]) \in Interruptible
    BY <1>1 DEF Base
  <2>2. Top.pc = "defer" => Base(stack[sp]) = "cs"
    BY DEF SetInv, At
  <2> QED BY <1>1, <2>1, <2>2 DEF ChoiceIsLeftAlone
<1>3. /\ StackOK(sp, u) /\ Base(u) = Base(stack[sp]) /\ Grown(stack[sp], u)
      /\ u[1].pc = "isr" /\ u[2] = stack[sp][1]
  BY <1>1, TopOfStack, TickedOK DEF ChoiceIsLeftAlone
<1>4. stack' = [stack EXCEPT ![sp] = u] /\ UNCHANGED <<sp, wait_for, value>>
  BY DEF Tick, cpuVars
<1> HIDE DEF u
<1>5. FramesOK(u) /\ (BlockedReturns(u) => BlockedReturns(stack[sp]))
  BY <1>1, <1>2, <1>3, FramesGrown
<1>6. wait_for'[Idle] = Dummy
  BY <1>4 DEF SetInv
<1>7. BlockedReturns(u) => Free(sp)'
  BY <1>4, <1>5 DEF SetInv, Free
<1> QED BY <1>3, <1>4, <1>5, <1>6, <1>7, SetKept

(* Data that arrives frees a signal and locks none. *)
LEMMA ReceiveSet ==
    ASSUME Structure, SetInv, NEW s \in RxSignals, Receive(s)
    PROVE  SetInv'
<1>1. s \in Signals
  BY KernelAssumption
<1>2. /\ UNCHANGED <<os_scheduling_allowed, sp, stack, wait_for, asleep>>
      /\ value' = [value EXCEPT ![s] = 0]
  BY DEF Receive, cpuVars
<1>3. \A x \in Signals : value[x] = 0 => value'[x] = 0
  BY <1>1, <1>2, FieldsTyped
<1>4. \A t \in Threads : wait_for[t] = Dummy \/ wait_for[t] \in Signals
  BY FieldsTyped
<1>5. \A t \in Threads : Free(t) => Free(t)'
  BY <1>2, <1>3, <1>4 DEF Free
<1>6. \A t \in Threads : Runnable(t) => Runnable(t)'
  BY <1>2, <1>3, <1>4 DEF Runnable
<1>7. UNCHANGED Top
  BY <1>2 DEF Top
<1>8. Top.pc \in {"picked", "switch"} => Runnable(Top.i)'
  <2>1. ASSUME Top.pc \in {"picked", "switch"} PROVE Runnable(Top.i)'
    <3>1. Runnable(Top.i) /\ Top.i \in Threads
      BY <2>1 DEF SetInv, Runnable
    <3>2. Runnable(Top.i) => Runnable(Top.i)'
      BY <1>6, <3>1, <1>7
    <3> QED BY <3>1, <3>2
  <2> QED BY <2>1
<1>9. BlockedReturns(stack[sp]) => Free(sp)'
  BY <1>2, <1>5, TopOfStack DEF SetInv
<1> QED BY <1>2, <1>7, <1>8, <1>9 DEF SetInv, At

LEMMA NextSet ==
    ASSUME Structure, CsInv, SetInv, ChoiceIsLeftAlone, [KernelNext]_kernelVars
    PROVE  SetInv'
<1>1. CASE UNCHANGED kernelVars
  BY <1>1 DEF kernelVars, SetInv, At, Top, Free, Runnable
<1>2. CASE KernelNext
  BY <1>2, ThreadStepSet, SystemStepSet, TickSet, ReceiveSet DEF KernelNext, ChoiceIsLeftAlone
<1> QED BY <1>1, <1>2

LEMMA SetAlways ==
    ASSUME ChoiceIsLeftAlone
    PROVE  KernelSpec => []SetInv
<1>1. SwitchIsLeftAlone /\ "cs" \notin Interruptible
  BY DEF ChoiceIsLeftAlone
<1>2. Structure /\ CsInv /\ SetInv /\ [KernelNext]_kernelVars => SetInv'
  BY NextSet
<1> QED BY <1>1, <1>2, InitSet, StructureAlways, CsAlways, PTL DEF KernelSpec

(* No step changes the stack of a thread that the processor does not use.   *)
LEMMA OtherStacks ==
    ASSUME Structure, [KernelNext]_kernelVars, NEW t \in Threads \ {sp}
    PROVE  stack'[t] = stack[t]
<1> USE DEF Goto, Return, Found, Schedule, Structure
<1>1. CASE UNCHANGED kernelVars
  BY <1>1 DEF kernelVars
<1>2. CASE ThreadStep
  BY <1>2 DEF ThreadStep, os_enterCS, os_thread_sleep, os_thread_yield, os_signal_lock, os_signal_set,
              os_signal_unlock
<1>3. CASE os_exitCS \/ os_signal_release \/ (\E rest \in BOOLEAN : GiveAway(rest))
  BY <1>3 DEF os_exitCS, os_signal_release, GiveAway
<1>4. CASE Enter \/ Defer \/ Begin \/ Scan
  BY <1>4 DEF Enter, Defer, Begin, Scan
<1>5. CASE Pick \/ Switch \/ Release
  BY <1>5 DEF Pick, Switch, Release
<1>6. CASE Tick \/ (\E slice \in BOOLEAN : TickEnds(slice)) \/ ReturnFromTick
  BY <1>6 DEF Tick, TickEnds, ReturnFromTick
<1>7. CASE \E s \in RxSignals : Receive(s)
  BY <1>7 DEF Receive
<1> QED BY <1>1, <1>2, <1>3, <1>4, <1>5, <1>6, <1>7 DEF KernelNext, SystemStep

(* os_signal_set() does not return while the signal is locked               *)
(* (os_thread.c:149-150): for every number of threads that leaves a slot of *)
(* the table free.                                                          *)
THEOREM SignalsAreWaitedFor ==
    ASSUME ChoiceIsLeftAlone
    PROVE  KernelSpec => SetBlocks
<1> DEFINE Waits(t) ==
        /\ Len(stack[t]) = 2
        /\ Head(stack[t]).pc \in {"release", "defer"}
        /\ stack[t][2].pc = "blocked"
        /\ Len(stack'[t]) = 1
        /\ wait_for[t] # Dummy
        => value[wait_for[t]] = 0
<1>1. ASSUME Structure, SetInv, [KernelNext]_kernelVars, NEW t \in Threads
      PROVE  Waits(t)
  <2> SUFFICES ASSUME Len(stack[t]) = 2, Head(stack[t]).pc \in {"release", "defer"},
                      stack[t][2].pc = "blocked", Len(stack'[t]) = 1, wait_for[t] # Dummy
               PROVE  value[wait_for[t]] = 0
    OBVIOUS
  <2>1. t = sp
    <3>1. t # sp => stack'[t] = stack[t]
      BY <1>1, OtherStacks
    <3> QED BY <3>1
  <2>2. Base(stack[sp]) = "blocked" /\ Head(stack[sp]) = stack[sp][1] /\ Len(stack[sp]) - 1 = 1
    BY <1>1, <2>1, TopOfStack DEF Base, Top
  <2>3. stack[sp][1].pc = "release"
    BY <1>1, <2>1, <2>2 DEF SetInv, At, Top
  <2>4. BlockedReturns(stack[sp])
    <3>1. Len(stack[sp]) > 1
      BY <2>1
    <3> QED BY <2>2, <2>3, <3>1 DEF BlockedReturns
  <2> QED BY <1>1, <2>1, <2>4 DEF SetInv, Free
<1>2. Structure /\ SetInv /\ [KernelNext]_kernelVars => [\A t \in Threads : Waits(t)]_kernelVars
  BY <1>1
<1>3. SwitchIsLeftAlone
  BY DEF ChoiceIsLeftAlone
<1> QED BY <1>2, <1>3, StructureAlways, SetAlways, PTL DEF KernelSpec, SetBlocks
=============================================================================
