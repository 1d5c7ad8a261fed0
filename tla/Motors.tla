---------------------------------- MODULE Motors ----------------------------------
(***************************************************************************)
(* The motors (motor.c, mcu/motor-low.c, mcu/sensor-low.c): one wheel, its  *)
(* encoder interrupt and its speed controller, which also the main loop     *)
(* calls when the wheel stands still; and the pulses of the two servos,     *)
(* which timer 3 makes.  The interrupts come between any two steps of the    *)
(* main loop.  The controller's output is only told apart from 0; what it   *)
(* learns about the motors (pwm_values) is left out.                        *)
(***************************************************************************)
EXTENDS Integers, FiniteSets

CONSTANTS
    Targets,            \* speeds the behaviours ask for, with their signs
    PID_START_DELAY

VARIABLE mo

SLOW == 25              \* BOT_SPEED_SLOW / 2
Servos == {1, 2}
TOIE == 0               \* the overflow interrupt; the others are named by their servos

MotorsInit ==
    mo = [pc |-> "idle", wish |-> 0, kick |-> FALSE, old |-> 0,
          speed |-> 0, rate |-> 0, start |-> 0, orig |-> 0, dir |-> 1, actVar |-> 0,
          timeCorrect |-> FALSE, edges |-> 0,
          turned |-> FALSE,     \* the direction was changed while the wheel was starting
          spc |-> "idle", servo |-> 1, flags |-> {}, TIMSK |-> {}, pins |-> {},
          passed |-> {},        \* compare values the timer is past
          pending |-> {},       \* of these, those whose interrupt was not enabled
          fresh |-> {}]         \* servos that were set in this period

Abs(n) == IF n < 0 THEN -n ELSE n
Sign(n) == IF n < 0 THEN -1 ELSE 1
At(pc) == mo.pc = pc
Motor(r) == mo' = r

-----------------------------------------------------------------------------
(* motor_set, for the wheel; the behaviours ask in every round.  While the  *)
(* wheel starts only a stop and the other direction are heard.              *)
motor_set ==
    /\ At("idle")
    /\ \E v \in Targets :
          /\ mo.speed # v
          /\ mo.start = 0 \/ v = 0 \/ Sign(mo.speed) # Sign(v)
          /\ Motor([mo EXCEPT !.pc = "rate", !.wish = v, !.kick = mo.rate = 0,
                              !.start = IF mo.rate = 0 THEN PID_START_DELAY ELSE @])

SetTargetRate ==
    /\ At("rate")
    /\ Motor([mo EXCEPT !.rate = Abs(mo.wish) \div 2,
                        !.turned = mo.wish # 0 /\ mo.start \notin {0, PID_START_DELAY},
                        !.pc = IF mo.wish = 0 THEN "stop" ELSE "direction"])

(* Mutant of StopsStarting: the start goes on. *)
StartGoesOn == At("stop") /\ Motor([mo EXCEPT !.kick = FALSE, !.pc = "direction"])

StopsStarting == At("stop") /\ Motor([mo EXCEPT !.start = 0, !.kick = FALSE, !.pc = "direction"])

SetDirection ==
    /\ At("direction")
    /\ Motor([mo EXCEPT !.speed = mo.wish, !.dir = IF mo.wish = 0 THEN @ ELSE Sign(mo.wish),
                        !.pc = IF mo.kick THEN "pwm" ELSE "idle"])

SetPwm == At("pwm") /\ Motor([mo EXCEPT !.actVar = 1, !.pc = "idle"])

-----------------------------------------------------------------------------
(* speed_control: slow at first, then in four parts up to the rate.         *)
Advanced(r) ==
    LET quarters == {(n * PID_START_DELAY) \div 4 : n \in 1 .. 3}
    IN  [r EXCEPT !.rate = CASE r.start = 0 -> r.orig
                             [] r.start \in quarters -> (@ + ((r.orig - SLOW) \div 4)) % 256
                             [] OTHER -> @]

Regulated(r) == {[r EXCEPT !.actVar = a] : a \in {0, 1}}

speed_control(r) ==
    LET begun == IF r.start = PID_START_DELAY THEN {[r EXCEPT !.orig = r.rate, !.rate = SLOW]} ELSE Regulated(r)
    IN  IF r.rate = 0 THEN {[r EXCEPT !.actVar = 0]}
        ELSE {IF b.start > 0 THEN Advanced([b EXCEPT !.start = @ - 1]) ELSE b : b \in begun}

(* The main loop calls it when no edge has come for a long time, step by     *)
(* step; at full speed the edges are 6 ms apart.                            *)
Standstill == {"control", "creep", "count", "write", "advance"}

(* bot_encoder_isr, an edge that has lasted. *)
bot_encoder_isr ==
    /\ mo.pc \in Standstill => mo.edges = 0
    /\ LET edge == [mo EXCEPT !.edges = IF mo.pc \in Standstill THEN 1 ELSE 0, !.timeCorrect = FALSE]
       IN  mo' \in IF mo.timeCorrect THEN {edge} ELSE speed_control(edge)

(* Mutant of bot_sens_wheel: the next edge is not told. *)
SensUncorrected == At("idle") /\ Motor([mo EXCEPT !.pc = "control", !.edges = 0])

bot_sens_wheel == At("idle") /\ Motor([mo EXCEPT !.pc = "control", !.edges = 0, !.timeCorrect = TRUE])

Control ==
    /\ At("control")
    /\ \/ mo.rate = 0 /\ Motor([mo EXCEPT !.actVar = 0, !.pc = "idle"])
       \/ mo.rate # 0 /\ mo.start = PID_START_DELAY /\ Motor([mo EXCEPT !.orig = mo.rate, !.pc = "creep"])
       \/ mo.rate # 0 /\ mo.start # PID_START_DELAY /\ mo' \in Regulated([mo EXCEPT !.pc = "count"])

Creep == At("creep") /\ Motor([mo EXCEPT !.rate = SLOW, !.pc = "count"])

Count == At("count") /\ Motor([mo EXCEPT !.old = mo.start, !.pc = IF mo.start = 0 THEN "idle" ELSE "write"])

CountDown == At("write") /\ Motor([mo EXCEPT !.start = mo.old - 1, !.pc = "advance"])

Advance == At("advance") /\ Motor([Advanced(mo) EXCEPT !.pc = "idle"])

-----------------------------------------------------------------------------
(* servo_set, servo_low.  The timer starts anew unless the other servo needs *)
(* it; a compare value that is changed may be behind the timer.             *)
Other(s) == 3 - s
ServoAt(pc) == mo.spc = pc

servo_low ==
    /\ ServoAt("idle")
    /\ \E s \in Servos :
          \E passed \in IF Other(s) \in mo.flags THEN {mo.passed \cup {s}, mo.passed \ {s}} ELSE {{}} :
              Motor([mo EXCEPT !.spc = "flag", !.servo = s, !.passed = passed, !.fresh = @ \cup {s}])

SetFlag == ServoAt("flag") /\ Motor([mo EXCEPT !.flags = @ \cup {mo.servo}, !.spc = "mask"])

(* An interrupt that is pending comes at once. *)
SetMask ==
    /\ ServoAt("mask")
    /\ Motor([mo EXCEPT !.TIMSK = @ \cup {TOIE, mo.servo}, !.spc = "idle",
                        !.pins = @ \ (mo.pending \cap {mo.servo}), !.pending = @ \ {mo.servo}])

(* A servo is left on for at least a period (behaviour_servo.c:51: 1.5 s).  *)
ServoOff ==
    /\ ServoAt("idle")
    /\ \E s \in Servos \ mo.fresh : Motor([mo EXCEPT !.flags = @ \ {s}])

(* TIMER3_COMPA_vect, TIMER3_COMPB_vect *)
CompareMatch ==
    \E s \in Servos \ mo.passed :
        IF s \in mo.TIMSK THEN Motor([mo EXCEPT !.passed = @ \cup {s}, !.pins = @ \ {s}])
        ELSE Motor([mo EXCEPT !.passed = @ \cup {s}, !.pending = @ \cup {s}])

(* Mutant of TIMER3_OVF_vect: it stops as soon as one of the servos is off. *)
OverflowStopsEarly ==
    /\ mo.passed = Servos
    /\ LET stops == TOIE \in mo.TIMSK /\ mo.flags # Servos
       IN  Motor([mo EXCEPT !.passed = {}, !.fresh = {},
                            !.pins = IF TOIE \in mo.TIMSK THEN @ \cup mo.flags ELSE @,
                            !.TIMSK = IF stops THEN {} ELSE @])

TIMER3_OVF_vect ==
    /\ mo.passed = Servos
    /\ LET stops == TOIE \in mo.TIMSK /\ mo.flags = {}
       IN  Motor([mo EXCEPT !.passed = {}, !.fresh = {},
                            !.pins = IF TOIE \in mo.TIMSK THEN @ \cup mo.flags ELSE @,
                            !.TIMSK = IF stops THEN {} ELSE @])

WheelNext ==
    \/ motor_set \/ SetTargetRate \/ StopsStarting \/ SetDirection \/ SetPwm
    \/ bot_encoder_isr \/ bot_sens_wheel \/ Control \/ Creep \/ Count \/ CountDown \/ Advance

ServoNext == servo_low \/ SetFlag \/ SetMask \/ ServoOff \/ CompareMatch \/ TIMER3_OVF_vect

MotorsNext == WheelNext \/ ServoNext

MotorsSpec == MotorsInit /\ [][MotorsNext]_mo

-----------------------------------------------------------------------------
MotorsTypeOK ==
    /\ mo.rate \in 0 .. 255 /\ mo.start \in 0 .. PID_START_DELAY
    /\ mo.flags \subseteq Servos /\ mo.pins \subseteq Servos /\ mo.TIMSK \subseteq {TOIE} \cup Servos

(* motor.c:310-320: when the start is over the controller holds the speed   *)
(* that was asked for, although main loop and interrupt both count the      *)
(* start down; and while a start is under way, during which other speeds    *)
(* are refused, the wheel turns, so that the controller brings it to an end. *)
(* For a wheel that was turned round while it started neither is true.       *)
WheelObeys ==
    At("idle") /\ ~mo.turned =>
        /\ mo.start = 0 => mo.rate = Abs(mo.speed) \div 2
        /\ mo.start > 0 => mo.rate > 0

(* motor-low.c:184-223: the timer is not stopped in the midst of a pulse,   *)
(* which would then last until the servo is used again.                     *)
NoPulseHangs == mo.TIMSK = {} => mo.pins = {}

(* Both, of the wheel and of the servos. *)
MotorsObey == WheelObeys /\ NoPulseHangs
=============================================================================
