----------------------------- MODULE Hardware_proofs -----------------------------
(***************************************************************************)
(* Proofs about motors and sensors.  A wheel that was not turned round while *)
(* it started obeys, and no pulse of a servo hangs.  The values of the        *)
(* sensors are of their round, no edge of a wheel is lost, more voltage is    *)
(* never more distance, and who is told of success on the bus was served.    *)
(***************************************************************************)
EXTENDS Motors, Sensors, Sequences, SequenceTheorems, NaturalsInduction, WellFoundedInduction, TLAPS

(* Targets as motor_set() limits them, from the least BOT_SPEED_MIN to the   *)
(* speed BOT_SPEED_MAX (motor.h:33-43, motor.c:329-333); the delay is a      *)
(* byte, and its quarters are places of their own (bot-local.h:68, 90).      *)
Speeds == /\ Targets \subseteq {0} \cup 25 .. 400 \cup -400 .. -25
          /\ PID_START_DELAY \in 4 .. 255

Standing == {"control", "creep", "count", "write", "advance"}

Pcs == {"idle", "rate", "stop", "direction", "pwm"} \cup Standing

MotorState ==
    [pc : Pcs,
     wish : Targets \cup {0}, kick : BOOLEAN, old : 0 .. PID_START_DELAY,
     speed : Targets \cup {0}, rate : 0 .. 255, start : 0 .. PID_START_DELAY, orig : 0 .. 255,
     dir : {-1, 1}, actVar : {0, 1}, timeCorrect : BOOLEAN, edges : {0, 1}, turned : BOOLEAN,
     spc : {"idle", "flag", "mask"}, servo : Servos, flags : SUBSET Servos,
     TIMSK : SUBSET ({TOIE} \cup Servos), pins : SUBSET Servos, passed : SUBSET Servos,
     pending : SUBSET Servos, fresh : SUBSET Servos]

-----------------------------------------------------------------------------
(* The wheel.  How far the rate has come when there are s steps of the start *)
(* left: three times it is raised by a quarter of what the target is more.   *)
Rate(v) == Abs(v) \div 2
Quarter(n) == (n * PID_START_DELAY) \div 4
Raise(t) == (t - SLOW) \div 4
Reached(t, s) == IF s > Quarter(3) THEN SLOW
                 ELSE IF s > Quarter(2) THEN SLOW + Raise(t)
                 ELSE IF s > Quarter(1) THEN SLOW + 2 * Raise(t)
                 ELSE SLOW + 3 * Raise(t)

(* The wheel starts towards t, with s steps left. *)
Starting(r, t, s) == t > 0 /\ r.orig = t /\ r.rate = Reached(t, s)

(* The wheel has the target t: reached, not yet begun, or under way. *)
Towards(r, t) ==
    /\ r.start = 0 => r.rate = t
    /\ r.start = PID_START_DELAY => t > 0 /\ r.rate = t
    /\ r.start \in 1 .. PID_START_DELAY - 1 => Starting(r, t, r.start)

Follows(r) ==
    CASE r.pc \in {"idle", "control", "pwm"} -> Towards(r, Rate(r.speed))
      [] r.pc = "direction" -> Towards(r, Rate(r.wish))
      [] r.pc = "creep" -> Rate(r.speed) > 0 /\ r.orig = Rate(r.speed)
      [] r.pc = "count" -> IF r.start = 0 THEN r.rate = Rate(r.speed) ELSE Starting(r, Rate(r.speed), r.start)
      [] r.pc = "write" -> Starting(r, Rate(r.speed), r.old)
      [] r.pc = "advance" -> Starting(r, Rate(r.speed), r.start + 1)
      [] r.pc \in {"rate", "stop"} -> TRUE

(* Where the main loop stands, the interrupt leaves the start alone: its one *)
(* edge is the one that is corrected.                                       *)
Places(r) ==
    /\ r.pc \in Standing => (r.edges = 0 => r.timeCorrect)
    /\ r.pc = "rate" /\ r.kick => r.rate = 0 /\ r.start = PID_START_DELAY
    /\ r.pc = "stop" => r.rate = 0 /\ r.wish = 0
    /\ r.pc = "creep" => r.start = PID_START_DELAY
    /\ r.pc = "write" => r.old = r.start /\ r.start > 0
    /\ r.pc = "advance" => r.start < PID_START_DELAY

WheelInv == mo \in MotorState /\ Places(mo) /\ (~mo.turned => Follows(mo))

LEMMA Quarters ==
    ASSUME Speeds
    PROVE  /\ Quarter(1) \in 1 .. 255 /\ Quarter(2) \in 1 .. 255 /\ Quarter(3) \in 1 .. 255
           /\ Quarter(1) < Quarter(2) /\ Quarter(2) < Quarter(3) /\ Quarter(3) < PID_START_DELAY
BY DEF Speeds, Quarter

LEMMA Rates ==
    ASSUME Speeds, NEW v \in Targets \cup {0}
    PROVE  /\ Rate(v) \in 0 .. 200
           /\ v = 0 => Rate(v) = 0
           /\ v # 0 => Rate(v) >= 12
BY DEF Speeds, Rate, Abs

LEMMA Raises ==
    ASSUME NEW t \in 12 .. 200
    PROVE  Raise(t) \in -4 .. 43
BY DEF Raise, SLOW

(* The rate is not 0 under way, and a byte is enough for it. *)
LEMMA Reaches ==
    ASSUME Speeds, NEW t \in 12 .. 200, NEW s \in Nat
    PROVE  Reached(t, s) \in 13 .. 154
<1> DEFINE d == Raise(t)
<1>1. d \in -4 .. 43
  BY Raises
<1>2. \/ Reached(t, s) = 25 \/ Reached(t, s) = 25 + d
      \/ Reached(t, s) = 25 + 2 * d \/ Reached(t, s) = 25 + 3 * d
  BY DEF Reached, SLOW
<1> HIDE DEF d
<1>3. /\ 25 \in 13 .. 154 /\ 25 + d \in 13 .. 154
      /\ 25 + 2 * d \in 13 .. 154 /\ 25 + 3 * d \in 13 .. 154
  BY <1>1
<1> QED
  BY <1>2, <1>3

(* A quarter later the rate is a raise higher, otherwise the same. *)
LEMMA ReachesNext ==
    ASSUME Speeds, NEW t \in 12 .. 200, NEW s \in Nat
    PROVE  /\ s \in {Quarter(1), Quarter(2), Quarter(3)} => Reached(t, s) = Reached(t, s + 1) + Raise(t)
           /\ s \notin {Quarter(1), Quarter(2), Quarter(3)} => Reached(t, s) = Reached(t, s + 1)
<1> DEFINE q1 == Quarter(1)  q2 == Quarter(2)  q3 == Quarter(3)  d == Raise(t)
<1>1. d \in Int /\ q1 \in Int /\ q2 \in Int /\ q3 \in Int /\ q1 < q2 /\ q2 < q3
  <2>1. d \in -4 .. 43
    BY Raises
  <2> HIDE DEF d
  <2> QED
    BY <2>1, Quarters
<1>2. \A n \in Int : Reached(t, n) = IF n > q3 THEN 25 ELSE IF n > q2 THEN 25 + d
                                     ELSE IF n > q1 THEN 25 + 2 * d ELSE 25 + 3 * d
  BY DEF Reached, SLOW
<1> HIDE DEF q1, q2, q3, d
<1>3. s = q1 \/ s = q2 \/ s = q3 => Reached(t, s) = Reached(t, s + 1) + d
  BY <1>1, <1>2
<1>4. s # q1 /\ s # q2 /\ s # q3 => Reached(t, s) = Reached(t, s + 1)
  BY <1>1, <1>2
<1> QED
  BY <1>3, <1>4 DEF q1, q2, q3, d

(* One step of the start: the rate is raised when a quarter is over, and at  *)
(* the end it is the target.                                                *)
LEMMA AdvancedStarts ==
    ASSUME Speeds, NEW t \in 12 .. 200, NEW r \in MotorState, r.start < PID_START_DELAY,
           Starting(r, t, r.start + 1)
    PROVE  /\ Advanced(r) \in MotorState /\ Towards(Advanced(r), t)
           /\ Advanced(r) = [r EXCEPT !.rate = Advanced(r).rate]
<1> DEFINE s == r.start
           rate == CASE s = 0 -> r.orig
                     [] s \in {Quarter(n) : n \in 1 .. 3} -> (r.rate + Raise(r.orig)) % 256
                     [] OTHER -> r.rate
<1>1. Advanced(r) = [r EXCEPT !.rate = rate]
  BY DEF Advanced, Quarter, Raise
<1>2. r.orig = t /\ r.rate = Reached(t, s + 1) /\ s \in Nat /\ s < PID_START_DELAY
  BY DEF Starting, MotorState, Speeds
<1>3. {Quarter(n) : n \in 1 .. 3} = {Quarter(1), Quarter(2), Quarter(3)}
  OBVIOUS
<1>4. Raise(t) \in -4 .. 43
  BY Raises
<1>5. /\ Quarter(1) \in 1 .. 255 /\ Quarter(2) \in 1 .. 255 /\ Quarter(3) \in 1 .. 255
      /\ Quarter(1) < Quarter(2) /\ Quarter(2) < Quarter(3)
  BY Quarters
<1> HIDE DEF s
<1>6. s = 0 => rate = t
  BY <1>2, <1>3, <1>5
<1>7. s \in {Quarter(1), Quarter(2), Quarter(3)} => rate = Reached(t, s)
  <2>1. ASSUME s \in {Quarter(1), Quarter(2), Quarter(3)}
        PROVE  rate = (Reached(t, s + 1) + Raise(t)) % 256
    BY <1>2, <1>3, <1>5, <2>1
  <2>2. s \in {Quarter(1), Quarter(2), Quarter(3)} => Reached(t, s) = Reached(t, s + 1) + Raise(t)
    BY <1>2, ReachesNext
  <2>3. Reached(t, s) \in 13 .. 154
    BY <1>2, Reaches
  <2> HIDE DEF rate
  <2> QED
    BY <2>1, <2>2, <2>3
<1>8. s # 0 /\ s \notin {Quarter(1), Quarter(2), Quarter(3)} => rate = Reached(t, s)
  <2>1. s # 0 /\ s \notin {Quarter(1), Quarter(2), Quarter(3)} => rate = Reached(t, s + 1)
    BY <1>2, <1>3
  <2>2. s \notin {Quarter(1), Quarter(2), Quarter(3)} => Reached(t, s) = Reached(t, s + 1)
    BY <1>2, ReachesNext
  <2> QED
    BY <2>1, <2>2
<1>9. rate \in 0 .. 255
  <2>1. Reached(t, s) \in 13 .. 154
    BY <1>2, Reaches
  <2> HIDE DEF rate
  <2> QED
    BY <2>1, <1>6, <1>7, <1>8
<1> HIDE DEF rate
<1>10. Advanced(r) \in MotorState /\ Advanced(r).rate = rate
  BY <1>1, <1>9 DEF MotorState
<1>11. Advanced(r).start = s /\ Advanced(r).orig = t
  BY <1>1, <1>2 DEF s, MotorState
<1>12. Towards(Advanced(r), t)
  BY <1>2, <1>6, <1>7, <1>8, <1>10, <1>11 DEF Towards, Starting, Speeds
<1> QED
  BY <1>1, <1>10, <1>12

(* A call of the controller: the start begins or the voltage is chosen, and  *)
(* a step of the start is taken.                                            *)
Begun(r) == IF r.start = PID_START_DELAY THEN {[r EXCEPT !.orig = r.rate, !.rate = SLOW]} ELSE Regulated(r)
Stepped(x) == [x EXCEPT !.start = @ - 1]

Unchanged(b, r) ==
    /\ b.pc = r.pc /\ b.wish = r.wish /\ b.kick = r.kick /\ b.old = r.old /\ b.speed = r.speed
    /\ b.timeCorrect = r.timeCorrect /\ b.edges = r.edges /\ b.turned = r.turned

LEMMA ControlSteps ==
    ASSUME NEW r, r.rate # 0, NEW b \in speed_control(r)
    PROVE  \E x \in Begun(r) : b = IF x.start > 0 THEN Advanced(Stepped(x)) ELSE x
BY DEF speed_control, Begun, Stepped

LEMMA RegulatedKeeps ==
    ASSUME NEW r \in MotorState, NEW x \in Regulated(r)
    PROVE  /\ x \in MotorState /\ Unchanged(x, r)
           /\ x.start = r.start /\ x.rate = r.rate /\ x.orig = r.orig
<1>1. PICK a \in {0, 1} : x = [r EXCEPT !.actVar = a]
  BY DEF Regulated
<1> QED
  BY <1>1 DEF MotorState, Unchanged

LEMMA BegunKeeps ==
    ASSUME NEW r \in MotorState, NEW x \in Begun(r)
    PROVE  /\ x \in MotorState /\ Unchanged(x, r) /\ x.start = r.start
           /\ x.orig = IF r.start = PID_START_DELAY THEN r.rate ELSE r.orig
           /\ x.rate = IF r.start = PID_START_DELAY THEN SLOW ELSE r.rate
<1>1. CASE r.start = PID_START_DELAY
  <2>1. x = [r EXCEPT !.orig = r.rate, !.rate = SLOW] /\ SLOW \in 0 .. 255
    BY <1>1 DEF Begun, SLOW
  <2>2. r.rate \in 0 .. 255
    BY DEF MotorState
  <2>3. x \in MotorState
    <3>1. \A n \in 0 .. 255 : [r EXCEPT !.orig = n] \in MotorState
      BY DEF MotorState
    <3>2. \A s \in MotorState, n \in 0 .. 255 : [s EXCEPT !.rate = n] \in MotorState
      BY DEF MotorState
    <3> QED
      BY <2>1, <2>2, <3>1, <3>2
  <2>4. Unchanged(x, r) /\ x.start = r.start /\ x.orig = r.rate /\ x.rate = SLOW
    BY <2>1 DEF MotorState, Unchanged
  <2> QED
    BY <1>1, <2>3, <2>4
<1>2. CASE r.start # PID_START_DELAY
  BY <1>2, RegulatedKeeps DEF Begun
<1> QED
  BY <1>1, <1>2

LEMMA SteppedKeeps ==
    ASSUME Speeds, NEW x \in MotorState, x.start > 0
    PROVE  /\ Stepped(x) \in MotorState /\ Unchanged(Stepped(x), x)
           /\ Stepped(x).start = x.start - 1 /\ Stepped(x).orig = x.orig /\ Stepped(x).rate = x.rate
<1>1. x.start \in 0 .. PID_START_DELAY /\ x.start - 1 \in 0 .. PID_START_DELAY
  BY DEF MotorState, Speeds
<1> QED
  BY <1>1 DEF MotorState, Unchanged, Stepped

LEMMA AdvancedKeepsTypes ==
    ASSUME NEW y \in MotorState
    PROVE  Advanced(y) \in MotorState /\ Unchanged(Advanced(y), y) /\ Advanced(y).start = y.start
<1>1. y.orig \in 0 .. 255 /\ y.rate \in 0 .. 255
  BY DEF MotorState
<1>2. PICK d \in Int : (y.orig - SLOW) \div 4 = d
  BY <1>1 DEF SLOW
<1>3. (y.rate + d) % 256 \in 0 .. 255
  <2>1. \A k \in Int : k % 256 \in 0 .. 255
    OBVIOUS
  <2>2. y.rate + d \in Int
    BY <1>1, <1>2
  <2> QED
    BY <2>1, <2>2
<1>4. \E m \in 0 .. 255 : Advanced(y) = [y EXCEPT !.rate = m]
  BY <1>1, <1>2, <1>3 DEF Advanced
<1> QED
  BY <1>4 DEF MotorState, Unchanged

(* The controller keeps the wheel on its way to t, and without a target (a    *)
(* rate of 0) it changes nothing but the voltage.                           *)
LEMMA ControlKeepsTypes ==
    ASSUME Speeds, NEW r \in MotorState, NEW b \in speed_control(r)
    PROVE  /\ b \in MotorState /\ Unchanged(b, r)
           /\ r.rate = 0 => b.rate = 0 /\ b.start = r.start
<1>1. CASE r.rate = 0
  <2>1. b = [r EXCEPT !.actVar = 0]
    BY <1>1 DEF speed_control
  <2> QED
    BY <1>1, <2>1 DEF MotorState, Unchanged
<1>2. CASE r.rate # 0
  <2>1. PICK x \in Begun(r) : b = IF x.start > 0 THEN Advanced(Stepped(x)) ELSE x
    BY <1>2, ControlSteps
  <2>2. x \in MotorState /\ Unchanged(x, r)
    BY BegunKeeps
  <2>3. CASE x.start > 0
    <3>1. Stepped(x) \in MotorState /\ Unchanged(Stepped(x), x)
      BY <2>2, <2>3, SteppedKeeps
    <3>2. b \in MotorState /\ Unchanged(b, Stepped(x))
      BY <2>1, <2>3, <3>1, AdvancedKeepsTypes
    <3> QED
      BY <1>2, <2>2, <3>1, <3>2 DEF Unchanged
  <2>4. CASE ~(x.start > 0)
    BY <1>2, <2>1, <2>2, <2>4
  <2> QED
    BY <2>3, <2>4
<1> QED
  BY <1>1, <1>2

LEMMA ControlGoesTowards ==
    ASSUME Speeds, NEW r \in MotorState, NEW t \in {0} \cup 12 .. 200, Towards(r, t), NEW b \in speed_control(r)
    PROVE  Towards(b, t)
<1>1. r.start \in 0 .. PID_START_DELAY /\ PID_START_DELAY \in 4 .. 255 /\ r.rate \in 0 .. 255
  BY DEF MotorState, Speeds
<1>2. CASE r.rate = 0
  <2>1. b = [r EXCEPT !.actVar = 0]
    BY <1>2 DEF speed_control
  <2>2. b.start = r.start /\ b.rate = r.rate /\ b.orig = r.orig
    BY <2>1 DEF MotorState
  <2> QED
    BY <2>2 DEF Towards, Starting
<1>3. CASE r.rate # 0
  <2>1. PICK x \in Begun(r) : b = IF x.start > 0 THEN Advanced(Stepped(x)) ELSE x
    BY <1>3, ControlSteps
  <2>2. /\ x \in MotorState /\ x.start = r.start
        /\ x.orig = IF r.start = PID_START_DELAY THEN r.rate ELSE r.orig
        /\ x.rate = IF r.start = PID_START_DELAY THEN SLOW ELSE r.rate
    BY BegunKeeps
  <2>3. CASE r.start = 0
    BY <1>1, <2>1, <2>2, <2>3 DEF Towards
  <2>4. CASE r.start > 0
    <3>1. t \in 12 .. 200
      BY <1>1, <2>4 DEF Towards, Starting
    <3>2. Starting(x, t, r.start)
      <4>1. Reached(t, PID_START_DELAY) = SLOW
        BY <1>1, Quarters DEF Reached
      <4> QED
        BY <1>1, <2>2, <2>4, <3>1, <4>1 DEF Towards, Starting
    <3>3. /\ Stepped(x) \in MotorState /\ Stepped(x).start = r.start - 1
          /\ Stepped(x).orig = x.orig /\ Stepped(x).rate = x.rate
      BY <2>2, <2>4, SteppedKeeps
    <3>4. Starting(Stepped(x), t, Stepped(x).start + 1) /\ Stepped(x).start < PID_START_DELAY
      BY <1>1, <3>2, <3>3 DEF Starting
    <3>5. b = Advanced(Stepped(x))
      BY <2>1, <2>2, <2>4
    <3> QED
      BY <3>1, <3>3, <3>4, <3>5, AdvancedStarts
  <2> QED
    BY <1>1, <2>3, <2>4
<1> QED
  BY <1>2, <1>3

-----------------------------------------------------------------------------
(* The steps of motor_set, of the interrupt and of the main loop. *)
LEMMA FieldsKeepTypes ==
    /\ \A r \in MotorState, x \in Pcs : [r EXCEPT !.pc = x] \in MotorState
    /\ \A r \in MotorState, x \in Targets \cup {0} : [r EXCEPT !.wish = x] \in MotorState
    /\ \A r \in MotorState, x \in Targets \cup {0} : [r EXCEPT !.speed = x] \in MotorState
    /\ \A r \in MotorState, x \in BOOLEAN : [r EXCEPT !.kick = x] \in MotorState
    /\ \A r \in MotorState, x \in BOOLEAN : [r EXCEPT !.turned = x] \in MotorState
    /\ \A r \in MotorState, x \in BOOLEAN : [r EXCEPT !.timeCorrect = x] \in MotorState
    /\ \A r \in MotorState, x \in 0 .. PID_START_DELAY : [r EXCEPT !.start = x] \in MotorState
    /\ \A r \in MotorState, x \in 0 .. PID_START_DELAY : [r EXCEPT !.old = x] \in MotorState
    /\ \A r \in MotorState, x \in 0 .. 255 : [r EXCEPT !.rate = x] \in MotorState
    /\ \A r \in MotorState, x \in 0 .. 255 : [r EXCEPT !.orig = x] \in MotorState
    /\ \A r \in MotorState, x \in {-1, 1} : [r EXCEPT !.dir = x] \in MotorState
    /\ \A r \in MotorState, x \in {0, 1} : [r EXCEPT !.actVar = x] \in MotorState
    /\ \A r \in MotorState, x \in {0, 1} : [r EXCEPT !.edges = x] \in MotorState
<1>1. \A r \in MotorState, x \in Pcs : [r EXCEPT !.pc = x] \in MotorState
  BY DEF MotorState
<1>2. \A r \in MotorState, x \in Targets \cup {0} : [r EXCEPT !.wish = x] \in MotorState
  BY DEF MotorState
<1>3. \A r \in MotorState, x \in Targets \cup {0} : [r EXCEPT !.speed = x] \in MotorState
  BY DEF MotorState
<1>4. \A r \in MotorState, x \in BOOLEAN : [r EXCEPT !.kick = x] \in MotorState
  BY DEF MotorState
<1>5. \A r \in MotorState, x \in BOOLEAN : [r EXCEPT !.turned = x] \in MotorState
  BY DEF MotorState
<1>6. \A r \in MotorState, x \in BOOLEAN : [r EXCEPT !.timeCorrect = x] \in MotorState
  BY DEF MotorState
<1>7. \A r \in MotorState, x \in 0 .. PID_START_DELAY : [r EXCEPT !.start = x] \in MotorState
  BY DEF MotorState
<1>8. \A r \in MotorState, x \in 0 .. PID_START_DELAY : [r EXCEPT !.old = x] \in MotorState
  BY DEF MotorState
<1>9. \A r \in MotorState, x \in 0 .. 255 : [r EXCEPT !.rate = x] \in MotorState
  BY DEF MotorState
<1>10. \A r \in MotorState, x \in 0 .. 255 : [r EXCEPT !.orig = x] \in MotorState
  BY DEF MotorState
<1>11. \A r \in MotorState, x \in {-1, 1} : [r EXCEPT !.dir = x] \in MotorState
  BY DEF MotorState
<1>12. \A r \in MotorState, x \in {0, 1} : [r EXCEPT !.actVar = x] \in MotorState
  BY DEF MotorState
<1>13. \A r \in MotorState, x \in {0, 1} : [r EXCEPT !.edges = x] \in MotorState
  BY DEF MotorState
<1> QED
  BY <1>1, <1>2, <1>3, <1>4, <1>5, <1>6, <1>7, <1>8, <1>9, <1>10, <1>11, <1>12, <1>13

LEMMA MotorSetIsSound ==
    ASSUME Speeds, WheelInv, motor_set \/ SetTargetRate \/ StopsStarting \/ SetDirection \/ SetPwm
    PROVE  WheelInv'
<1>0. mo \in MotorState /\ Places(mo) /\ (~mo.turned => Follows(mo)) /\ PID_START_DELAY \in 4 .. 255
  BY DEF WheelInv, Speeds
<1>1. ASSUME motor_set
      PROVE  WheelInv'
  <2>1. PICK v \in Targets :
            mo' = [mo EXCEPT !.pc = "rate", !.wish = v, !.kick = mo.rate = 0,
                             !.start = IF mo.rate = 0 THEN PID_START_DELAY ELSE @]
    BY <1>1 DEF motor_set, Motor
  <2>2. mo.start \in 0 .. PID_START_DELAY /\ PID_START_DELAY \in 0 .. PID_START_DELAY /\ "rate" \in Pcs
    BY <1>0 DEF MotorState, Pcs
  <2>3. mo' \in MotorState
    <3>1. PICK k \in BOOLEAN, s \in 0 .. PID_START_DELAY :
              mo' = [mo EXCEPT !.pc = "rate", !.wish = v, !.kick = k, !.start = s]
      BY <2>1, <2>2
    <3> QED
      BY <1>0, <2>2, <3>1, FieldsKeepTypes
  <2>4. /\ mo'.pc = "rate" /\ mo'.rate = mo.rate
        /\ mo'.kick => mo'.rate = 0 /\ mo'.start = PID_START_DELAY
    BY <1>0, <2>1 DEF MotorState
  <2> QED
    BY <2>3, <2>4 DEF WheelInv, Places, Follows, Standing
<1>2. ASSUME SetTargetRate
      PROVE  WheelInv'
  <2>1. /\ mo.pc = "rate"
        /\ mo' = [mo EXCEPT !.rate = Rate(mo.wish), !.turned = mo.wish # 0 /\ mo.start \notin {0, PID_START_DELAY},
                            !.pc = IF mo.wish = 0 THEN "stop" ELSE "direction"]
    BY <1>2 DEF SetTargetRate, Motor, At, Rate
  <2>2. mo.wish \in Targets \cup {0} /\ mo.start \in 0 .. PID_START_DELAY
    BY <1>0 DEF MotorState
  <2>3. /\ Rate(mo.wish) \in 0 .. 255 /\ (mo.wish = 0 => Rate(mo.wish) = 0) /\ (mo.wish # 0 => Rate(mo.wish) > 0)
        /\ "stop" \in Pcs /\ "direction" \in Pcs
    BY <2>2, Rates DEF Pcs
  <2>4. mo' \in MotorState
    BY <1>0, <2>1, <2>3, FieldsKeepTypes
  <2>5. /\ mo'.wish = mo.wish /\ mo'.start = mo.start /\ mo'.rate = Rate(mo.wish)
        /\ mo'.pc = IF mo.wish = 0 THEN "stop" ELSE "direction"
        /\ ~mo'.turned /\ mo.wish # 0 => mo'.start \in {0, PID_START_DELAY}
    BY <1>0, <2>1 DEF MotorState
  <2>6. CASE mo.wish = 0
    BY <2>3, <2>4, <2>5, <2>6 DEF WheelInv, Places, Follows, Standing
  <2>7. CASE mo.wish # 0
    <3>1. mo'.pc = "direction" /\ mo'.rate = Rate(mo'.wish) /\ mo'.rate > 0
      BY <2>3, <2>5, <2>7
    <3>2. ~mo'.turned => Towards(mo', Rate(mo'.wish))
      BY <1>0, <2>5, <2>7, <3>1 DEF Towards
    <3> QED
      BY <2>4, <3>1, <3>2 DEF WheelInv, Places, Follows, Standing
  <2> QED
    BY <2>6, <2>7
<1>3. ASSUME StopsStarting
      PROVE  WheelInv'
  <2>1. mo.pc = "stop" /\ mo' = [mo EXCEPT !.start = 0, !.kick = FALSE, !.pc = "direction"]
    BY <1>3 DEF StopsStarting, Motor, At
  <2>2. mo' \in MotorState
    <3>1. "direction" \in Pcs /\ 0 \in 0 .. PID_START_DELAY /\ FALSE \in BOOLEAN
      BY <1>0 DEF Pcs
    <3> QED
      BY <1>0, <2>1, <3>1, FieldsKeepTypes
  <2>3. /\ mo'.wish = mo.wish /\ mo'.start = 0 /\ mo'.rate = mo.rate /\ mo'.pc = "direction"
        /\ mo.rate = 0 /\ mo.wish = 0
    BY <1>0, <2>1 DEF MotorState, Places
  <2>4. Rate(0) = 0
    BY DEF Rate, Abs
  <2> QED
    BY <1>0, <2>2, <2>3, <2>4 DEF WheelInv, Places, Follows, Standing, Towards
<1>4. ASSUME SetDirection
      PROVE  WheelInv'
  <2>1. /\ mo.pc = "direction"
        /\ mo' = [mo EXCEPT !.speed = mo.wish, !.dir = IF mo.wish = 0 THEN @ ELSE Sign(mo.wish),
                            !.pc = IF mo.kick THEN "pwm" ELSE "idle"]
    BY <1>4 DEF SetDirection, Motor, At
  <2>2. mo.wish \in Targets \cup {0} /\ mo.dir \in {-1, 1} /\ Sign(mo.wish) \in {-1, 1} /\ "pwm" \in Pcs /\ "idle" \in Pcs
    BY <1>0 DEF MotorState, Sign, Pcs
  <2>3. mo' \in MotorState
    BY <1>0, <2>1, <2>2, FieldsKeepTypes
  <2>4. /\ mo'.speed = mo.wish /\ mo'.start = mo.start /\ mo'.rate = mo.rate /\ mo'.orig = mo.orig
        /\ mo'.turned = mo.turned /\ mo'.pc \in {"pwm", "idle"}
    BY <1>0, <2>1 DEF MotorState
  <2> QED
    BY <1>0, <2>1, <2>3, <2>4 DEF WheelInv, Places, Follows, Standing, Towards, Starting
<1>5. ASSUME SetPwm
      PROVE  WheelInv'
  <2>1. mo.pc = "pwm" /\ mo' = [mo EXCEPT !.actVar = 1, !.pc = "idle"]
    BY <1>5 DEF SetPwm, Motor, At
  <2>2. mo' \in MotorState
    BY <1>0, <2>1, FieldsKeepTypes DEF Pcs
  <2>3. /\ mo'.speed = mo.speed /\ mo'.start = mo.start /\ mo'.rate = mo.rate /\ mo'.orig = mo.orig
        /\ mo'.turned = mo.turned /\ mo'.pc = "idle"
    BY <1>0, <2>1 DEF MotorState
  <2> QED
    BY <1>0, <2>1, <2>2, <2>3 DEF WheelInv, Places, Follows, Standing, Towards, Starting
<1> QED
  BY <1>1, <1>2, <1>3, <1>4, <1>5

(* The wheel is where it was, but for its voltage and the edges. *)
Same(s, r) ==
    /\ s.pc = r.pc /\ s.wish = r.wish /\ s.kick = r.kick /\ s.old = r.old /\ s.speed = r.speed
    /\ s.rate = r.rate /\ s.start = r.start /\ s.orig = r.orig /\ s.turned = r.turned

LEMMA SameFollows ==
    ASSUME NEW r, NEW s, Same(s, r), Follows(r)
    PROVE  Follows(s)
BY DEF Same, Follows, Towards, Starting

LEMMA EncoderIsSound ==
    ASSUME Speeds, WheelInv, bot_encoder_isr
    PROVE  WheelInv'
<1> DEFINE edge == [mo EXCEPT !.edges = IF mo.pc \in Standstill THEN 1 ELSE 0, !.timeCorrect = FALSE]
<1>1. mo \in MotorState /\ Places(mo) /\ (~mo.turned => Follows(mo)) /\ Standstill = Standing
  BY DEF WheelInv, Standstill, Standing
<1>2. mo' \in IF mo.timeCorrect THEN {edge} ELSE speed_control(edge)
  BY DEF bot_encoder_isr
<1>3. edge \in MotorState
  <2>1. (IF mo.pc \in Standstill THEN 1 ELSE 0) \in {0, 1} /\ FALSE \in BOOLEAN
    OBVIOUS
  <2> QED
    BY <1>1, <2>1, FieldsKeepTypes
<1>4. Same(edge, mo) /\ edge.edges = IF mo.pc \in Standing THEN 1 ELSE 0
  BY <1>1 DEF MotorState, Same
<1> HIDE DEF edge
<1>5. CASE mo' = edge
  <2>1. Places(mo')
    BY <1>1, <1>4, <1>5 DEF Places, Same
  <2>2. ~mo'.turned => Follows(mo')
    BY <1>1, <1>4, <1>5, SameFollows DEF Same
  <2> QED
    BY <1>3, <1>5, <2>1, <2>2 DEF WheelInv
<1>6. CASE ~mo.timeCorrect /\ mo' \in speed_control(edge)
  <2>1. mo.pc \notin Standing
    BY <1>1, <1>6 DEF bot_encoder_isr, Places
  <2>2. /\ mo' \in MotorState /\ Unchanged(mo', edge)
        /\ edge.rate = 0 => mo'.rate = 0 /\ mo'.start = edge.start
    BY <1>3, <1>6, ControlKeepsTypes
  <2>3. Places(mo')
    BY <1>1, <1>4, <2>1, <2>2 DEF Places, Same, Unchanged, Standing
  <2>4. ASSUME NEW t \in {0} \cup 12 .. 200, Towards(mo, t)
        PROVE  Towards(mo', t)
    <3>1. Towards(edge, t)
      BY <1>4, <2>4 DEF Towards, Starting, Same
    <3> QED
      BY <1>3, <1>6, <3>1, ControlGoesTowards
  <2>5. mo.speed \in Targets \cup {0} /\ mo.wish \in Targets \cup {0} /\ mo.pc \in Pcs
    BY <1>1 DEF MotorState
  <2>6. Rate(mo.speed) \in {0} \cup 12 .. 200 /\ Rate(mo.wish) \in {0} \cup 12 .. 200
    BY <2>5, Rates
  <2>7. /\ mo'.pc = mo.pc /\ mo'.speed = mo.speed /\ mo'.wish = mo.wish /\ mo'.turned = mo.turned
    BY <1>4, <2>2 DEF Same, Unchanged
  <2>8. ~mo'.turned => Follows(mo')
    <3>1. CASE mo.pc \in {"idle", "pwm"}
      BY <1>1, <2>4, <2>6, <2>7, <3>1 DEF Follows
    <3>2. CASE mo.pc = "direction"
      BY <1>1, <2>4, <2>6, <2>7, <3>2 DEF Follows
    <3>3. CASE mo.pc \in {"rate", "stop"}
      BY <2>7, <3>3 DEF Follows
    <3> QED
      BY <2>1, <2>5, <3>1, <3>2, <3>3 DEF Pcs, Standing
  <2> QED
    BY <2>2, <2>3, <2>8 DEF WheelInv
<1> QED
  BY <1>2, <1>5, <1>6

LEMMA MainLoopIsSound ==
    ASSUME Speeds, WheelInv, bot_sens_wheel \/ Control \/ Creep \/ Count \/ CountDown \/ Advance
    PROVE  WheelInv'
<1>0. mo \in MotorState /\ Places(mo) /\ (~mo.turned => Follows(mo)) /\ PID_START_DELAY \in 4 .. 255
  BY DEF WheelInv, Speeds
<1>1. /\ mo.start \in 0 .. PID_START_DELAY /\ mo.rate \in 0 .. 255 /\ mo.old \in 0 .. PID_START_DELAY
      /\ mo.speed \in Targets \cup {0} /\ SLOW \in 0 .. 255 /\ Standing \subseteq Pcs /\ "idle" \in Pcs
      /\ TRUE \in BOOLEAN
  BY <1>0 DEF MotorState, SLOW, Pcs
<1>2. Rate(mo.speed) \in {0} \cup 12 .. 200
  BY <1>1, Rates
<1>3. ASSUME bot_sens_wheel
      PROVE  WheelInv'
  <2>1. mo.pc = "idle" /\ mo' = [mo EXCEPT !.pc = "control", !.edges = 0, !.timeCorrect = TRUE]
    BY <1>3 DEF bot_sens_wheel, Motor, At
  <2>2. mo' \in MotorState
    BY <1>0, <1>1, <2>1, FieldsKeepTypes DEF Standing
  <2>3. /\ mo'.pc = "control" /\ mo'.timeCorrect /\ mo'.speed = mo.speed /\ mo'.start = mo.start
        /\ mo'.rate = mo.rate /\ mo'.orig = mo.orig /\ mo'.turned = mo.turned
    BY <1>0, <2>1 DEF MotorState
  <2> QED
    BY <1>0, <2>1, <2>2, <2>3 DEF WheelInv, Places, Follows, Towards, Starting
<1>4. ASSUME Control
      PROVE  WheelInv'
  <2>1. CASE mo.rate = 0
    <3>1. mo.pc = "control" /\ mo' = [mo EXCEPT !.actVar = 0, !.pc = "idle"]
      BY <1>4, <2>1 DEF Control, Motor, At
    <3>2. mo' \in MotorState
      BY <1>0, <1>1, <3>1, FieldsKeepTypes
    <3>3. /\ mo'.pc = "idle" /\ mo'.speed = mo.speed /\ mo'.start = mo.start
          /\ mo'.rate = mo.rate /\ mo'.orig = mo.orig /\ mo'.turned = mo.turned
      BY <1>0, <3>1 DEF MotorState
    <3> QED
      BY <1>0, <3>1, <3>2, <3>3 DEF WheelInv, Places, Follows, Towards, Starting, Standing
  <2>2. CASE mo.rate # 0 /\ mo.start = PID_START_DELAY
    <3>1. mo.pc = "control" /\ mo' = [mo EXCEPT !.orig = mo.rate, !.pc = "creep"]
      BY <1>4, <2>2 DEF Control, Motor, At
    <3>2. mo' \in MotorState
      BY <1>0, <1>1, <3>1, FieldsKeepTypes DEF Standing
    <3>3. /\ mo'.pc = "creep" /\ mo'.speed = mo.speed /\ mo'.start = mo.start /\ mo'.orig = mo.rate
          /\ mo'.turned = mo.turned /\ mo'.edges = mo.edges /\ mo'.timeCorrect = mo.timeCorrect
      BY <1>0, <3>1 DEF MotorState
    <3> QED
      BY <1>0, <2>2, <3>1, <3>2, <3>3 DEF WheelInv, Places, Follows, Towards, Standing
  <2>3. CASE mo.rate # 0 /\ mo.start # PID_START_DELAY
    <3>1. mo.pc = "control" /\ mo' \in Regulated([mo EXCEPT !.pc = "count"])
      BY <1>4, <2>3 DEF Control, Motor, At
    <3> DEFINE r == [mo EXCEPT !.pc = "count"]
    <3>2. r \in MotorState
      BY <1>0, <1>1, FieldsKeepTypes DEF Standing
    <3>3. /\ r.pc = "count" /\ r.speed = mo.speed /\ r.start = mo.start /\ r.rate = mo.rate /\ r.orig = mo.orig
          /\ r.turned = mo.turned /\ r.edges = mo.edges /\ r.timeCorrect = mo.timeCorrect
      BY <1>0 DEF MotorState
    <3> HIDE DEF r
    <3>4. /\ mo' \in MotorState /\ mo'.pc = "count" /\ mo'.speed = mo.speed /\ mo'.start = mo.start
          /\ mo'.rate = mo.rate /\ mo'.orig = mo.orig
          /\ mo'.turned = mo.turned /\ mo'.edges = mo.edges /\ mo'.timeCorrect = mo.timeCorrect
      BY <3>1, <3>2, <3>3, RegulatedKeeps DEF Unchanged, r
    <3>5. Places(mo')
      BY <1>0, <3>1, <3>4 DEF Places, Standing
    <3>6. ~mo'.turned => Follows(mo')
      BY <1>0, <1>1, <2>3, <3>1, <3>4 DEF Follows, Towards, Starting
    <3> QED
      BY <3>4, <3>5, <3>6 DEF WheelInv
  <2> QED
    BY <2>1, <2>2, <2>3
<1>5. ASSUME Creep
      PROVE  WheelInv'
  <2>1. mo.pc = "creep" /\ mo' = [mo EXCEPT !.rate = SLOW, !.pc = "count"]
    BY <1>5 DEF Creep, Motor, At
  <2>2. mo' \in MotorState
    BY <1>0, <1>1, <2>1, FieldsKeepTypes DEF Standing
  <2>3. /\ mo'.pc = "count" /\ mo'.speed = mo.speed /\ mo'.start = mo.start /\ mo'.orig = mo.orig
        /\ mo'.rate = SLOW /\ mo'.turned = mo.turned /\ mo'.edges = mo.edges /\ mo'.timeCorrect = mo.timeCorrect
    BY <1>0, <2>1 DEF MotorState
  <2>4. Reached(Rate(mo.speed), PID_START_DELAY) = SLOW
    BY <1>0, Quarters DEF Reached
  <2> QED
    BY <1>0, <2>1, <2>2, <2>3, <2>4 DEF WheelInv, Places, Follows, Starting, Standing
<1>6. ASSUME Count
      PROVE  WheelInv'
  <2>1. mo.pc = "count" /\ mo' = [mo EXCEPT !.old = mo.start, !.pc = IF mo.start = 0 THEN "idle" ELSE "write"]
    BY <1>6 DEF Count, Motor, At
  <2>2. mo' \in MotorState
    BY <1>0, <1>1, <2>1, FieldsKeepTypes DEF Standing
  <2>3. /\ mo'.pc = (IF mo.start = 0 THEN "idle" ELSE "write") /\ mo'.old = mo.start
        /\ mo'.speed = mo.speed /\ mo'.start = mo.start /\ mo'.orig = mo.orig
        /\ mo'.rate = mo.rate /\ mo'.turned = mo.turned /\ mo'.edges = mo.edges /\ mo'.timeCorrect = mo.timeCorrect
    BY <1>0, <2>1 DEF MotorState
  <2>4. Places(mo')
    <3>1. mo.edges = 0 => mo.timeCorrect
      BY <1>0, <2>1 DEF Places, Standing
    <3>2. CASE mo.start = 0
      BY <2>3, <3>2 DEF Places, Standing
    <3>3. CASE mo.start # 0
      BY <1>1, <2>3, <3>1, <3>3 DEF Places
    <3> QED
      BY <3>2, <3>3
  <2>5. ASSUME ~mo'.turned
        PROVE  Follows(mo')
    <3>1. IF mo.start = 0 THEN mo.rate = Rate(mo.speed) ELSE Starting(mo, Rate(mo.speed), mo.start)
      BY <1>0, <2>1, <2>3, <2>5 DEF Follows
    <3>2. CASE mo.start = 0
      BY <1>0, <2>3, <3>1, <3>2 DEF Follows, Towards
    <3>3. CASE mo.start # 0
      BY <2>3, <3>1, <3>3 DEF Follows, Starting
    <3> QED
      BY <3>2, <3>3
  <2> QED
    BY <2>2, <2>4, <2>5 DEF WheelInv
<1>7. ASSUME CountDown
      PROVE  WheelInv'
  <2>1. mo.pc = "write" /\ mo' = [mo EXCEPT !.start = mo.old - 1, !.pc = "advance"]
    BY <1>7 DEF CountDown, Motor, At
  <2>2. mo.old = mo.start /\ mo.start > 0 /\ mo.old - 1 \in 0 .. PID_START_DELAY
    BY <1>0, <1>1, <2>1 DEF Places
  <2>3. mo' \in MotorState
    BY <1>0, <1>1, <2>1, <2>2, FieldsKeepTypes DEF Standing
  <2>4. /\ mo'.pc = "advance" /\ mo'.speed = mo.speed /\ mo'.start = mo.old - 1 /\ mo'.orig = mo.orig
        /\ mo'.rate = mo.rate /\ mo'.turned = mo.turned /\ mo'.edges = mo.edges /\ mo'.timeCorrect = mo.timeCorrect
    BY <1>0, <2>1 DEF MotorState
  <2>5. Places(mo')
    BY <1>0, <1>1, <2>1, <2>2, <2>4 DEF Places, Standing
  <2>6. ~mo'.turned => Follows(mo')
    BY <1>0, <1>1, <2>1, <2>4 DEF Follows, Starting
  <2> QED
    BY <2>3, <2>5, <2>6 DEF WheelInv
<1>8. ASSUME Advance
      PROVE  WheelInv'
  <2>1. mo.pc = "advance" /\ mo' = [Advanced(mo) EXCEPT !.pc = "idle"]
    BY <1>8 DEF Advance, Motor, At
  <2>2. Advanced(mo) \in MotorState /\ Unchanged(Advanced(mo), mo) /\ Advanced(mo).start = mo.start
    BY <1>0, AdvancedKeepsTypes
  <2>3. /\ mo' \in MotorState /\ mo'.pc = "idle" /\ mo'.speed = mo.speed /\ mo'.turned = mo.turned
        /\ mo'.start = Advanced(mo).start /\ mo'.rate = Advanced(mo).rate /\ mo'.orig = Advanced(mo).orig
    <3> DEFINE a == Advanced(mo)
    <3>1. a \in MotorState /\ mo' = [a EXCEPT !.pc = "idle"] /\ a.speed = mo.speed /\ a.turned = mo.turned
      BY <2>1, <2>2 DEF Unchanged
    <3> HIDE DEF a
    <3>2. mo' \in MotorState
      BY <1>1, <3>1, FieldsKeepTypes
    <3>3. /\ mo'.pc = "idle" /\ mo'.speed = a.speed /\ mo'.turned = a.turned
          /\ mo'.start = a.start /\ mo'.rate = a.rate /\ mo'.orig = a.orig
      BY <3>1 DEF MotorState
    <3> QED
      BY <3>1, <3>2, <3>3 DEF a
  <2>4. ASSUME ~mo.turned
        PROVE  Towards(mo', Rate(mo.speed))
    <3>1. Starting(mo, Rate(mo.speed), mo.start + 1) /\ mo.start < PID_START_DELAY
      BY <1>0, <2>1, <2>4 DEF Follows, Places
    <3>2. Rate(mo.speed) \in 12 .. 200
      BY <1>2, <3>1 DEF Starting
    <3>3. Towards(Advanced(mo), Rate(mo.speed))
      BY <1>0, <3>1, <3>2, AdvancedStarts
    <3> QED
      BY <2>3, <3>3 DEF Towards, Starting
  <2> QED
    BY <2>3, <2>4 DEF WheelInv, Places, Follows, Standing
<1> QED
  BY <1>3, <1>4, <1>5, <1>6, <1>7, <1>8

LEMMA WheelInvIsInductive ==
    ASSUME Speeds, WheelInv, [WheelNext]_mo
    PROVE  WheelInv'
<1>1. CASE UNCHANGED mo
  BY <1>1 DEF WheelInv
<1>2. CASE WheelNext
  BY <1>2, MotorSetIsSound, EncoderIsSound, MainLoopIsSound DEF WheelNext
<1> QED
  BY <1>1, <1>2

LEMMA WheelInvObeys ==
    ASSUME Speeds, WheelInv
    PROVE  MotorsTypeOK /\ WheelObeys
<1>1. mo \in MotorState /\ Places(mo) /\ (~mo.turned => Follows(mo)) /\ PID_START_DELAY \in 4 .. 255
  BY DEF WheelInv, Speeds
<1>2. MotorsTypeOK
  BY <1>1 DEF MotorState, MotorsTypeOK
<1>3. ASSUME mo.pc = "idle", ~mo.turned
      PROVE  (mo.start = 0 => mo.rate = Rate(mo.speed)) /\ (mo.start > 0 => mo.rate > 0)
  <2>1. Towards(mo, Rate(mo.speed)) /\ mo.start \in 0 .. PID_START_DELAY /\ mo.speed \in Targets \cup {0}
    BY <1>1, <1>3 DEF Follows, MotorState
  <2>2. Rate(mo.speed) \in {0} \cup 12 .. 200
    BY <2>1, Rates
  <2>3. CASE mo.start \in 1 .. PID_START_DELAY - 1
    <3> DEFINE t == Rate(mo.speed)  s == mo.start
    <3>1. t \in 12 .. 200 /\ s \in Nat /\ mo.rate = Reached(t, s)
      BY <2>1, <2>2, <2>3 DEF Towards, Starting
    <3> HIDE DEF t, s
    <3>2. Reached(t, s) \in 13 .. 154
      BY <3>1, Reaches
    <3> QED
      BY <2>3, <3>1, <3>2
  <2>4. CASE mo.start \in {0, PID_START_DELAY}
    BY <1>1, <2>1, <2>4 DEF Towards
  <2> QED
    BY <1>1, <2>1, <2>3, <2>4
<1> QED
  BY <1>2, <1>3 DEF WheelObeys, At, Rate

LEMMA InitIsTyped ==
    ASSUME Speeds, MotorsInit
    PROVE  mo \in MotorState
<1>1. /\ 0 \in 0 .. PID_START_DELAY /\ 0 \in 0 .. 255 /\ 0 \in Targets \cup {0} /\ 1 \in {-1, 1} /\ 0 \in {0, 1}
      /\ "idle" \in Pcs /\ "idle" \in {"idle", "flag", "mask"} /\ 1 \in Servos /\ FALSE \in BOOLEAN
      /\ {} \in SUBSET Servos /\ {} \in SUBSET ({TOIE} \cup Servos)
  BY DEF Speeds, Pcs, Servos
<1> QED
  BY <1>1, Zenon DEF MotorsInit, MotorState

LEMMA InitIsOnWay ==
    ASSUME Speeds, MotorsInit
    PROVE  WheelInv
<1>1. mo \in MotorState
  BY InitIsTyped
<1>2. mo.pc = "idle" /\ mo.start = 0 /\ mo.rate = 0 /\ mo.speed = 0
  BY DEF MotorsInit
<1>3. Rate(0) = 0
  BY DEF Rate, Abs
<1>4. PID_START_DELAY \in 4 .. 255
  BY DEF Speeds
<1> QED
  BY <1>1, <1>2, <1>3, <1>4 DEF WheelInv, Places, Follows, Towards, Standing

-----------------------------------------------------------------------------
(* The servos.  A pin that is high will be cleared: by a compare match that  *)
(* is still to come, by the one after the next overflow if the pulse was     *)
(* changed in this period, or, for a servo whose interrupt is not yet        *)
(* enabled, as soon as it is.                                               *)
Cleared(r, s) ==
    IF s \in r.TIMSK
    THEN /\ s \notin r.passed \/ s \in r.fresh
         /\ r.spc = "flag" /\ r.servo = s /\ Other(s) \notin r.flags => s \notin r.passed
    ELSE r.spc = "mask" /\ r.servo = s /\ (s \notin r.passed \/ s \in r.pending)

Pulses(r) ==
    /\ r.spc = "mask" => r.servo \in r.flags
    /\ \A s \in r.fresh : s \in r.flags \/ (r.spc = "flag" /\ s = r.servo)
    /\ \A s \in r.flags : s \in r.TIMSK \/ (r.spc = "mask" /\ s = r.servo)
    /\ r.TIMSK # {} => TOIE \in r.TIMSK
    /\ r.pins # {} => TOIE \in r.TIMSK
    /\ \A s \in r.pins : Cleared(r, s)

ServoInv == mo \in MotorState /\ Pulses(mo)

LEMMA ServoFieldsKeepTypes ==
    /\ \A r \in MotorState, x \in {"idle", "flag", "mask"} : [r EXCEPT !.spc = x] \in MotorState
    /\ \A r \in MotorState, x \in Servos : [r EXCEPT !.servo = x] \in MotorState
    /\ \A r \in MotorState, x \in SUBSET Servos : [r EXCEPT !.flags = x] \in MotorState
    /\ \A r \in MotorState, x \in SUBSET ({TOIE} \cup Servos) : [r EXCEPT !.TIMSK = x] \in MotorState
    /\ \A r \in MotorState, x \in SUBSET Servos : [r EXCEPT !.pins = x] \in MotorState
    /\ \A r \in MotorState, x \in SUBSET Servos : [r EXCEPT !.passed = x] \in MotorState
    /\ \A r \in MotorState, x \in SUBSET Servos : [r EXCEPT !.pending = x] \in MotorState
    /\ \A r \in MotorState, x \in SUBSET Servos : [r EXCEPT !.fresh = x] \in MotorState
<1>1. \A r \in MotorState, x \in {"idle", "flag", "mask"} : [r EXCEPT !.spc = x] \in MotorState
  BY DEF MotorState
<1>2. \A r \in MotorState, x \in Servos : [r EXCEPT !.servo = x] \in MotorState
  BY DEF MotorState
<1>3. \A r \in MotorState, x \in SUBSET Servos : [r EXCEPT !.flags = x] \in MotorState
  BY DEF MotorState
<1>4. \A r \in MotorState, x \in SUBSET ({TOIE} \cup Servos) : [r EXCEPT !.TIMSK = x] \in MotorState
  BY DEF MotorState
<1>5. \A r \in MotorState, x \in SUBSET Servos : [r EXCEPT !.pins = x] \in MotorState
  BY DEF MotorState
<1>6. \A r \in MotorState, x \in SUBSET Servos : [r EXCEPT !.passed = x] \in MotorState
  BY DEF MotorState
<1>7. \A r \in MotorState, x \in SUBSET Servos : [r EXCEPT !.pending = x] \in MotorState
  BY DEF MotorState
<1>8. \A r \in MotorState, x \in SUBSET Servos : [r EXCEPT !.fresh = x] \in MotorState
  BY DEF MotorState
<1> QED
  BY <1>1, <1>2, <1>3, <1>4, <1>5, <1>6, <1>7, <1>8

LEMMA ServoLowIsSound ==
    ASSUME ServoInv, servo_low \/ SetFlag \/ SetMask \/ ServoOff
    PROVE  ServoInv'
<1>1. mo \in MotorState /\ Pulses(mo)
  BY DEF ServoInv
<1>2. /\ mo.spc \in {"idle", "flag", "mask"} /\ mo.servo \in Servos /\ mo.flags \subseteq Servos
      /\ mo.TIMSK \subseteq {TOIE} \cup Servos /\ mo.pins \subseteq Servos /\ mo.passed \subseteq Servos
      /\ mo.pending \subseteq Servos /\ mo.fresh \subseteq Servos
  BY <1>1 DEF MotorState
<1>3. \A s, p \in Servos : p # s => p = Other(s)
  BY DEF Servos, Other
<1>4. ASSUME servo_low
      PROVE  ServoInv'
  <2>1. PICK s \in Servos, passed \in SUBSET Servos :
            /\ Other(s) \in mo.flags => passed \in {mo.passed \cup {s}, mo.passed \ {s}}
            /\ Other(s) \notin mo.flags => passed = {}
            /\ mo' = [mo EXCEPT !.spc = "flag", !.servo = s, !.passed = passed, !.fresh = @ \cup {s}]
    BY <1>2, <1>4 DEF servo_low, Motor
  <2>2. mo.spc = "idle"
    BY <1>4 DEF servo_low, ServoAt
  <2>3. mo' \in MotorState
    BY <1>1, <1>2, <2>1, ServoFieldsKeepTypes
  <2>4. /\ mo'.spc = "flag" /\ mo'.servo = s /\ mo'.passed = passed /\ mo'.fresh = mo.fresh \cup {s}
        /\ mo'.flags = mo.flags /\ mo'.TIMSK = mo.TIMSK /\ mo'.pins = mo.pins /\ mo'.pending = mo.pending
    BY <1>1, <2>1 DEF MotorState
  <2>5. ASSUME NEW p \in mo'.pins
        PROVE  Cleared(mo', p)
    <3>1. p \in Servos /\ p \in mo.TIMSK /\ (p \notin mo.passed \/ p \in mo.fresh)
      BY <1>1, <1>2, <2>2, <2>4, <2>5 DEF Pulses, Cleared
    <3>2. CASE p = s
      BY <2>1, <2>4, <3>1, <3>2 DEF Cleared
    <3>3. CASE p # s
      BY <1>3, <2>1, <2>4, <3>1, <3>3 DEF Cleared
    <3> QED
      BY <3>2, <3>3
  <2> QED
    BY <1>1, <2>2, <2>3, <2>4, <2>5 DEF ServoInv, Pulses
<1>5. ASSUME SetFlag
      PROVE  ServoInv'
  <2>1. mo.spc = "flag" /\ mo' = [mo EXCEPT !.flags = @ \cup {mo.servo}, !.spc = "mask"]
    BY <1>5 DEF SetFlag, ServoAt, Motor
  <2>2. mo' \in MotorState
    BY <1>1, <1>2, <2>1, ServoFieldsKeepTypes
  <2>3. /\ mo'.spc = "mask" /\ mo'.servo = mo.servo /\ mo'.passed = mo.passed /\ mo'.fresh = mo.fresh
        /\ mo'.flags = mo.flags \cup {mo.servo} /\ mo'.TIMSK = mo.TIMSK /\ mo'.pins = mo.pins /\ mo'.pending = mo.pending
    BY <1>1, <2>1 DEF MotorState
  <2> QED
    BY <1>1, <2>1, <2>2, <2>3 DEF ServoInv, Pulses, Cleared
<1>6. ASSUME SetMask
      PROVE  ServoInv'
  <2>1. /\ mo.spc = "mask"
        /\ mo' = [mo EXCEPT !.TIMSK = @ \cup {TOIE, mo.servo}, !.spc = "idle",
                            !.pins = @ \ (mo.pending \cap {mo.servo}), !.pending = @ \ {mo.servo}]
    BY <1>6 DEF SetMask, ServoAt, Motor
  <2>2. mo' \in MotorState
    BY <1>1, <1>2, <2>1, ServoFieldsKeepTypes
  <2>3. /\ mo'.spc = "idle" /\ mo'.servo = mo.servo /\ mo'.passed = mo.passed /\ mo'.fresh = mo.fresh
        /\ mo'.flags = mo.flags /\ mo'.TIMSK = mo.TIMSK \cup {TOIE, mo.servo}
        /\ mo'.pins = mo.pins \ (mo.pending \cap {mo.servo})
    BY <1>1, <2>1 DEF MotorState
  <2>4. ASSUME NEW p \in mo'.pins
        PROVE  Cleared(mo', p)
    BY <1>1, <2>1, <2>3, <2>4 DEF Pulses, Cleared
  <2> QED
    BY <1>1, <2>1, <2>2, <2>3, <2>4 DEF ServoInv, Pulses
<1>7. ASSUME ServoOff
      PROVE  ServoInv'
  <2>1. mo.spc = "idle"
    BY <1>7 DEF ServoOff, ServoAt
  <2>2. PICK s \in Servos \ mo.fresh : mo' = [mo EXCEPT !.flags = @ \ {s}]
    BY <1>7 DEF ServoOff, Motor
  <2>3. mo' \in MotorState
    BY <1>1, <1>2, <2>2, ServoFieldsKeepTypes
  <2>4. /\ mo'.spc = "idle" /\ mo'.servo = mo.servo /\ mo'.passed = mo.passed /\ mo'.fresh = mo.fresh
        /\ mo'.flags = mo.flags \ {s} /\ mo'.TIMSK = mo.TIMSK /\ mo'.pins = mo.pins /\ mo'.pending = mo.pending
    BY <1>1, <2>1, <2>2 DEF MotorState
  <2> QED
    BY <1>1, <2>1, <2>2, <2>3, <2>4 DEF ServoInv, Pulses, Cleared
<1> QED
  BY <1>4, <1>5, <1>6, <1>7

LEMMA TimerIsSound ==
    ASSUME ServoInv, CompareMatch \/ TIMER3_OVF_vect
    PROVE  ServoInv'
<1>1. mo \in MotorState /\ Pulses(mo)
  BY DEF ServoInv
<1>2. /\ mo.servo \in Servos /\ mo.flags \subseteq Servos
      /\ mo.TIMSK \subseteq {TOIE} \cup Servos /\ mo.pins \subseteq Servos /\ mo.passed \subseteq Servos
      /\ mo.pending \subseteq Servos /\ mo.fresh \subseteq Servos
  BY <1>1 DEF MotorState
<1>3. ASSUME CompareMatch
      PROVE  ServoInv'
  <2>1. PICK s \in Servos \ mo.passed :
            /\ s \in mo.TIMSK => mo' = [mo EXCEPT !.passed = @ \cup {s}, !.pins = @ \ {s}]
            /\ s \notin mo.TIMSK => mo' = [mo EXCEPT !.passed = @ \cup {s}, !.pending = @ \cup {s}]
    BY <1>3 DEF CompareMatch, Motor
  <2> DEFINE pins == IF s \in mo.TIMSK THEN mo.pins \ {s} ELSE mo.pins
             pending == IF s \in mo.TIMSK THEN mo.pending ELSE mo.pending \cup {s}
             passed == mo.passed \cup {s}
  <2>2. mo' \in MotorState /\ mo'.pins = pins /\ mo'.pending = pending
    <3>1. CASE s \in mo.TIMSK
      <4>1. mo' = [mo EXCEPT !.passed = passed, !.pins = pins] /\ pending = mo.pending
        BY <2>1, <3>1
      <4>2. passed \in SUBSET Servos /\ pins \in SUBSET Servos
        BY <1>2
      <4> HIDE DEF passed, pins, pending
      <4>3. mo' \in MotorState
        BY <1>1, <4>1, <4>2, ServoFieldsKeepTypes
      <4>4. mo'.pins = pins /\ mo'.pending = pending
        BY <1>1, <4>1 DEF MotorState
      <4> QED
        BY <4>3, <4>4
    <3>2. CASE s \notin mo.TIMSK
      <4>1. mo' = [mo EXCEPT !.passed = passed, !.pending = pending] /\ pins = mo.pins
        BY <2>1, <3>2
      <4>2. passed \in SUBSET Servos /\ pending \in SUBSET Servos
        BY <1>2
      <4> HIDE DEF passed, pins, pending
      <4>3. mo' \in MotorState
        BY <1>1, <4>1, <4>2, ServoFieldsKeepTypes
      <4>4. mo'.pins = pins /\ mo'.pending = pending
        BY <1>1, <4>1 DEF MotorState
      <4> QED
        BY <4>3, <4>4
    <3> QED
      BY <3>1, <3>2
  <2>3. /\ mo'.spc = mo.spc /\ mo'.servo = mo.servo /\ mo'.passed = passed /\ mo'.fresh = mo.fresh
        /\ mo'.flags = mo.flags /\ mo'.TIMSK = mo.TIMSK
    <3> HIDE DEF passed
    <3>1. CASE s \in mo.TIMSK
      <4>1. mo' = [mo EXCEPT !.passed = passed, !.pins = @ \ {s}]
        BY <2>1, <3>1 DEF passed
      <4> QED
        BY <1>1, <4>1 DEF MotorState
    <3>2. CASE s \notin mo.TIMSK
      <4>1. mo' = [mo EXCEPT !.passed = passed, !.pending = @ \cup {s}]
        BY <2>1, <3>2 DEF passed
      <4> QED
        BY <1>1, <4>1 DEF MotorState
    <3> QED
      BY <3>1, <3>2
  <2>4. ASSUME NEW p \in mo'.pins
        PROVE  Cleared(mo', p)
    <3>1. p \in mo.pins /\ Cleared(mo, p)
      BY <1>1, <2>2, <2>4 DEF Pulses
    <3> QED
      BY <2>2, <2>3, <2>4, <3>1 DEF Cleared
  <2> QED
    BY <1>1, <2>2, <2>3, <2>4 DEF ServoInv, Pulses
<1>4. ASSUME TIMER3_OVF_vect
      PROVE  ServoInv'
  <2> DEFINE stops == TOIE \in mo.TIMSK /\ mo.flags = {}
  <2>1. /\ mo.passed = Servos
        /\ mo' = [mo EXCEPT !.passed = {}, !.fresh = {},
                            !.pins = IF TOIE \in mo.TIMSK THEN @ \cup mo.flags ELSE @,
                            !.TIMSK = IF stops THEN {} ELSE @]
    BY <1>4 DEF TIMER3_OVF_vect, Motor
  <2>2. mo' \in MotorState
    BY <1>1, <1>2, <2>1, ServoFieldsKeepTypes
  <2>3. /\ mo'.spc = mo.spc /\ mo'.servo = mo.servo /\ mo'.passed = {} /\ mo'.fresh = {}
        /\ mo'.flags = mo.flags /\ mo'.TIMSK = (IF stops THEN {} ELSE mo.TIMSK)
        /\ mo'.pins = (IF TOIE \in mo.TIMSK THEN mo.pins \cup mo.flags ELSE mo.pins) /\ mo'.pending = mo.pending
    BY <1>1, <2>1 DEF MotorState
  <2>4. CASE stops
    <3>1. ASSUME NEW p \in mo.pins
          PROVE  FALSE
      <4>1. Cleared(mo, p) /\ p \in mo.passed /\ mo.spc # "mask"
        BY <1>1, <1>2, <2>1, <2>4, <3>1 DEF Pulses
      <4>2. p \in mo.fresh
        BY <4>1 DEF Cleared
      <4>3. mo.spc = "flag" /\ mo.servo = p
        BY <1>1, <2>4, <4>2 DEF Pulses
      <4> QED
        BY <2>4, <4>1, <4>3 DEF Cleared
    <3>2. mo'.pins = {} /\ mo'.TIMSK = {} /\ mo'.flags = {}
      BY <2>3, <2>4, <3>1
    <3> QED
      BY <1>1, <2>2, <2>3, <2>4, <3>2 DEF ServoInv, Pulses
  <2>5. CASE ~stops
    <3>1. mo'.TIMSK = mo.TIMSK
      BY <2>3, <2>5
    <3>2. ASSUME NEW p \in mo'.pins
          PROVE  Cleared(mo', p)
      <4>1. CASE p \in mo.pins
        BY <1>1, <2>3, <3>1, <4>1 DEF Pulses, Cleared
      <4>2. CASE p \in mo.flags
        BY <1>1, <2>3, <3>1, <4>2 DEF Pulses, Cleared
      <4> QED
        BY <2>3, <3>2, <4>1, <4>2
    <3> QED
      BY <1>1, <2>2, <2>3, <3>1, <3>2 DEF ServoInv, Pulses
  <2> QED
    BY <2>4, <2>5
<1> QED
  BY <1>3, <1>4

LEMMA InitHasNoPulse ==
    ASSUME Speeds, MotorsInit
    PROVE  ServoInv
<1>1. mo \in MotorState
  BY InitIsTyped
<1>2. mo.spc = "idle" /\ mo.fresh = {} /\ mo.flags = {} /\ mo.TIMSK = {} /\ mo.pins = {}
  BY DEF MotorsInit
<1> QED
  BY <1>1, <1>2 DEF ServoInv, Pulses

-----------------------------------------------------------------------------
(* Wheel and servos share nothing but the processor. *)
ServosOf(r) == <<r.spc, r.servo, r.flags, r.TIMSK, r.pins, r.passed, r.pending, r.fresh>>

WheelOf(r) == <<r.pc, r.wish, r.kick, r.old, r.speed, r.rate, r.start, r.orig, r.timeCorrect, r.edges, r.turned>>

LEMMA ControlLeavesServos ==
    ASSUME Speeds, NEW r \in MotorState, NEW b \in speed_control(r)
    PROVE  ServosOf(b) = ServosOf(r)
<1>1. \A x \in Regulated(r) : ServosOf(x) = ServosOf(r)
  <2> SUFFICES ASSUME NEW x \in Regulated(r)
               PROVE  ServosOf(x) = ServosOf(r)
    OBVIOUS
  <2>1. PICK a \in {0, 1} : x = [r EXCEPT !.actVar = a]
    BY DEF Regulated
  <2> QED
    BY <2>1 DEF MotorState, ServosOf
<1>2. ASSUME NEW x \in Begun(r)
      PROVE  ServosOf(x) = ServosOf(r)
  <2>1. CASE x = [r EXCEPT !.orig = r.rate, !.rate = SLOW]
    BY <2>1 DEF MotorState, ServosOf
  <2>2. CASE x \in Regulated(r)
    BY <1>1, <2>2
  <2> QED
    BY <1>2, <2>1, <2>2 DEF Begun
<1>3. ASSUME NEW x \in MotorState
      PROVE  ServosOf(Stepped(x)) = ServosOf(x) /\ ServosOf(Advanced(x)) = ServosOf(x)
  <2>1. ServosOf(Stepped(x)) = ServosOf(x)
    BY DEF MotorState, ServosOf, Stepped
  <2>2. \E m : Advanced(x) = [x EXCEPT !.rate = m]
    BY DEF Advanced
  <2>3. ServosOf(Advanced(x)) = ServosOf(x)
    BY <2>2 DEF MotorState, ServosOf
  <2> QED
    BY <2>1, <2>3
<1>4. CASE r.rate = 0
  <2>1. b = [r EXCEPT !.actVar = 0]
    BY <1>4 DEF speed_control
  <2> QED
    BY <2>1 DEF MotorState, ServosOf
<1>5. CASE r.rate # 0
  <2>1. PICK x \in Begun(r) : b = IF x.start > 0 THEN Advanced(Stepped(x)) ELSE x
    BY <1>5, ControlSteps
  <2>2. x \in MotorState /\ ServosOf(x) = ServosOf(r)
    BY <1>2, BegunKeeps
  <2>3. CASE x.start > 0
    <3>1. Stepped(x) \in MotorState
      BY <2>2, <2>3, SteppedKeeps
    <3> QED
      BY <1>3, <2>1, <2>2, <2>3, <3>1
  <2>4. CASE ~(x.start > 0)
    BY <2>1, <2>2, <2>4
  <2> QED
    BY <2>3, <2>4
<1> QED
  BY <1>4, <1>5

LEMMA WheelLeavesServos ==
    ASSUME Speeds, mo \in MotorState, WheelNext
    PROVE  ServosOf(mo') = ServosOf(mo)
<1>1. CASE motor_set \/ SetTargetRate \/ StopsStarting \/ SetDirection \/ SetPwm
  <2>1. CASE motor_set
    BY <2>1 DEF motor_set, Motor, MotorState, ServosOf
  <2>2. CASE SetTargetRate
    BY <2>2 DEF SetTargetRate, Motor, MotorState, ServosOf
  <2>3. CASE StopsStarting \/ SetDirection \/ SetPwm
    BY <2>3 DEF StopsStarting, SetDirection, SetPwm, Motor, MotorState, ServosOf
  <2> QED
    BY <1>1, <2>1, <2>2, <2>3
<1>2. CASE bot_encoder_isr
  <2> DEFINE edge == [mo EXCEPT !.edges = IF mo.pc \in Standstill THEN 1 ELSE 0, !.timeCorrect = FALSE]
  <2>1. mo' \in IF mo.timeCorrect THEN {edge} ELSE speed_control(edge)
    BY <1>2 DEF bot_encoder_isr
  <2>2. edge \in MotorState
    <3>1. (IF mo.pc \in Standstill THEN 1 ELSE 0) \in {0, 1} /\ FALSE \in BOOLEAN
      OBVIOUS
    <3> QED
      BY <3>1, FieldsKeepTypes
  <2>3. ServosOf(edge) = ServosOf(mo)
    BY DEF MotorState, ServosOf
  <2> HIDE DEF edge
  <2> QED
    BY <2>1, <2>2, <2>3, ControlLeavesServos
<1>3. CASE bot_sens_wheel \/ Creep \/ Count \/ CountDown
  BY <1>3 DEF bot_sens_wheel, Creep, Count, CountDown, Motor, MotorState, ServosOf
<1>4. CASE Control
  <2>1. CASE mo' = [mo EXCEPT !.actVar = 0, !.pc = "idle"] \/ mo' = [mo EXCEPT !.orig = mo.rate, !.pc = "creep"]
    BY <2>1 DEF MotorState, ServosOf
  <2>2. CASE mo' \in Regulated([mo EXCEPT !.pc = "count"])
    <3>1. PICK a \in {0, 1} : mo' = [[mo EXCEPT !.pc = "count"] EXCEPT !.actVar = a]
      BY <2>2 DEF Regulated
    <3> QED
      BY <3>1 DEF MotorState, ServosOf
  <2> QED
    BY <1>4, <2>1, <2>2 DEF Control, Motor
<1>5. CASE Advance
  <2>1. PICK m : Advanced(mo) = [mo EXCEPT !.rate = m]
    BY DEF Advanced
  <2>2. mo' = [[mo EXCEPT !.rate = m] EXCEPT !.pc = "idle"]
    BY <1>5, <2>1 DEF Advance, Motor
  <2> QED
    BY <2>2 DEF MotorState, ServosOf
<1> QED
  BY <1>1, <1>2, <1>3, <1>4, <1>5 DEF WheelNext

LEMMA ServosLeaveWheel ==
    ASSUME mo \in MotorState, ServoNext
    PROVE  WheelOf(mo') = WheelOf(mo)
<1>1. CASE servo_low
  BY <1>1 DEF servo_low, Motor, MotorState, WheelOf
<1>2. CASE SetFlag \/ SetMask \/ ServoOff
  BY <1>2 DEF SetFlag, SetMask, ServoOff, Motor, MotorState, WheelOf
<1>3. CASE CompareMatch
  <2>1. PICK passed, pins, pending :
           mo' = [mo EXCEPT !.passed = passed, !.pins = pins] \/ mo' = [mo EXCEPT !.passed = passed, !.pending = pending]
    BY <1>3, Zenon DEF CompareMatch, Motor
  <2> QED
    BY <2>1 DEF MotorState, WheelOf
<1>4. CASE TIMER3_OVF_vect
  BY <1>4 DEF TIMER3_OVF_vect, Motor, MotorState, WheelOf
<1> QED
  BY <1>1, <1>2, <1>3, <1>4 DEF ServoNext

(* Both invariants survive all steps. *)
LEMMA MotorsInvIsInductive ==
    ASSUME Speeds, WheelInv, ServoInv, [MotorsNext]_mo
    PROVE  WheelInv' /\ ServoInv'
<1>1. mo \in MotorState /\ Pulses(mo) /\ Places(mo) /\ (~mo.turned => Follows(mo))
  BY DEF WheelInv, ServoInv
<1>2. CASE UNCHANGED mo
  BY <1>2 DEF WheelInv, ServoInv
<1>3. CASE WheelNext
  <2>1. WheelInv' /\ mo' \in MotorState
    BY <1>3, WheelInvIsInductive DEF WheelInv
  <2>2. ServosOf(mo') = ServosOf(mo)
    BY <1>1, <1>3, WheelLeavesServos
  <2>3. /\ mo'.spc = mo.spc /\ mo'.servo = mo.servo /\ mo'.flags = mo.flags /\ mo'.TIMSK = mo.TIMSK
        /\ mo'.pins = mo.pins /\ mo'.passed = mo.passed /\ mo'.pending = mo.pending /\ mo'.fresh = mo.fresh
    BY <2>2 DEF ServosOf
  <2>4. Pulses(mo')
    BY <1>1, <2>3 DEF Pulses, Cleared
  <2> QED
    BY <2>1, <2>4 DEF ServoInv
<1>4. CASE ServoNext
  <2>1. ServoInv' /\ mo' \in MotorState
    BY <1>4, ServoLowIsSound, TimerIsSound DEF ServoNext, ServoInv
  <2>2. WheelOf(mo') = WheelOf(mo)
    BY <1>1, <1>4, ServosLeaveWheel
  <2>3. /\ mo'.pc = mo.pc /\ mo'.wish = mo.wish /\ mo'.kick = mo.kick /\ mo'.old = mo.old
        /\ mo'.speed = mo.speed /\ mo'.rate = mo.rate /\ mo'.start = mo.start /\ mo'.orig = mo.orig
        /\ mo'.timeCorrect = mo.timeCorrect /\ mo'.edges = mo.edges /\ mo'.turned = mo.turned
    BY <2>2 DEF WheelOf
  <2>4. Places(mo') /\ (~mo'.turned => Follows(mo'))
    BY <1>1, <2>3 DEF Places, Follows, Towards, Starting
  <2> QED
    BY <2>1, <2>4 DEF WheelInv
<1> QED
  BY <1>2, <1>3, <1>4 DEF MotorsNext

(* For all legal targets and delays, whatever behaviours, main loop and      *)
(* interrupts do in between: rate and start stay in their bytes; a wheel     *)
(* that was not turned round while it started holds the speed that was asked *)
(* for when the start is over, and turns while it lasts (motor.c:218-231,    *)
(* 341-369).                                                                *)
THEOREM TheWheelObeys ==
    ASSUME Speeds
    PROVE  MotorsSpec => [](MotorsTypeOK /\ WheelObeys)
<1>1. MotorsInit => WheelInv /\ ServoInv
  BY InitIsOnWay, InitHasNoPulse
<1>2. WheelInv /\ ServoInv /\ [MotorsNext]_mo => WheelInv' /\ ServoInv'
  BY MotorsInvIsInductive
<1>3. WheelInv => MotorsTypeOK /\ WheelObeys
  BY WheelInvObeys
<1> QED
  BY <1>1, <1>2, <1>3, PTL DEF MotorsSpec

(* The timer is not stopped in the midst of a pulse (motor-low.c:184-223),   *)
(* as long as a servo is left on for a period; and the wheel obeys.          *)
THEOREM TheMotorsObey ==
    ASSUME Speeds
    PROVE  MotorsSpec => []MotorsObey
<1>1. MotorsInit => WheelInv /\ ServoInv
  BY InitIsOnWay, InitHasNoPulse
<1>2. WheelInv /\ ServoInv /\ [MotorsNext]_mo => WheelInv' /\ ServoInv'
  BY MotorsInvIsInductive
<1>3. WheelInv /\ ServoInv => MotorsObey
  <2>1. ServoInv => NoPulseHangs
    BY DEF ServoInv, Pulses, NoPulseHangs
  <2> QED
    BY <2>1, WheelInvObeys DEF MotorsObey
<1> QED
  BY <1>1, <1>2, <1>3, PTL DEF MotorsSpec

-----------------------------------------------------------------------------
(* A round.  What is still to be queued is an end of the round's list; what   *)
(* is queued lies between the place that is measured and the next free one.   *)
Slots == 0 .. CHANNELS - 1

Rests ==
    {<<"distL", "distR", "line", "border">>, <<"distL", "line", "border">>, <<"distR", "line", "border">>,
     <<"line", "border">>, <<"border">>, <<>>}

Named(t) == {t[i] : i \in DOMAIN t}

RoundState ==
    [pc : {"begin", "queue", "store", "left", "right", "rest"}, due : BOOLEAN, servo : BOOLEAN, todo : Rests,
     next : Slots \cup {CHANNELS}, act : Slots \cup {IDLE}, mux : Sensor,
     channels : [Slots -> [value : Sensor \cup {"null"}, channel : Sensor]],
     fresh : SUBSET Sensor, used : SUBSET Sensor, wild : BOOLEAN]

Runs(r) == r.act # IDLE
Waiting(r) == {r.channels[i].value : i \in Slots}
Due(r) == {"line", "border"} \cup (IF r.due THEN {"distL"} ELSE {}) \cup (IF r.due /\ ~r.servo THEN {"distR"} ELSE {})

(* The queue of the converter: a place holds a sensor exactly if it is in    *)
(* the queue, and then the sensor of its own pin.                           *)
QueueOK(r) ==
    /\ \A i \in Slots :
          IF Runs(r) /\ r.act <= i /\ i < r.next
          THEN r.channels[i].value \in Sensor /\ r.channels[i].channel = r.channels[i].value
          ELSE r.channels[i].value = "null"
    /\ Runs(r) => r.act < r.next /\ r.next + Len(r.todo) <= CHANNELS /\ r.mux = r.channels[r.act].value

(* The distance sensors come first: what their users wait for is the number  *)
(* of conversions.                                                          *)
PlacesOK(r) ==
    /\ "distL" \in Named(r.todo) => ~Runs(r)
    /\ \A i \in Slots : r.channels[i].value = "distL" => i = 0
    /\ \A i \in Slots : r.channels[i].value = "distR" => i <= 1

StepsOK(r) ==
    /\ r.pc = "begin" => ~Runs(r)
    /\ r.pc = "store" => r.todo # <<>> /\ (~Runs(r) => r.next = 0)
    /\ r.pc \in {"left", "right", "rest"} => r.todo = <<>>
    /\ r.pc \in {"left", "right"} => r.due
    /\ r.pc = "right" => ~r.servo
    /\ r.pc # "begin" => Due(r) \subseteq r.fresh \cup Waiting(r) \cup Named(r.todo)

RoundOK(r) == QueueOK(r) /\ PlacesOK(r) /\ StepsOK(r) /\ r.used \subseteq r.fresh /\ ~r.wild

RoundInv == sn \in RoundState /\ RoundOK(sn)

LEMMA RoundTypes ==
    ASSUME NEW r \in RoundState
    PROVE  /\ r.pc \in {"begin", "queue", "store", "left", "right", "rest"} /\ r.due \in BOOLEAN /\ r.servo \in BOOLEAN
           /\ r.todo \in Rests /\ r.next \in Int /\ 0 <= r.next /\ r.next <= 4 /\ r.act \in Int /\ 0 <= r.act
           /\ Runs(r) => r.act \in Slots /\ r.act < 4
           /\ ~Runs(r) => r.act = 255
           /\ r.channels \in [Slots -> [value : Sensor \cup {"null"}, channel : Sensor]]
           /\ r.mux \in Sensor /\ r.fresh \subseteq Sensor /\ r.used \subseteq Sensor /\ r.wild \in BOOLEAN
BY DEF RoundState, Slots, Runs, CHANNELS, IDLE

LEMMA NamesOfTheLists ==
    /\ Named(<<"distL", "distR", "line", "border">>) = {"distL", "distR", "line", "border"}
    /\ Named(<<"distL", "line", "border">>) = {"distL", "line", "border"}
    /\ Named(<<"distR", "line", "border">>) = {"distR", "line", "border"}
    /\ Named(<<"line", "border">>) = {"line", "border"}
    /\ Named(<<"border">>) = {"border"}
    /\ Named(<<>>) = {}
BY DEF Named

LEMMA EndsOfTheLists ==
    ASSUME NEW t \in Rests, t # <<>>
    PROVE  /\ Head(t) \in Sensor /\ Tail(t) \in Rests
           /\ Len(t) \in Nat /\ Len(t) > 0 /\ Len(t) <= 4 /\ Len(Tail(t)) = Len(t) - 1
           /\ Named(t) = {Head(t)} \cup Named(Tail(t))
           /\ "distL" \notin Named(Tail(t)) /\ (Head(t) = "distR" => Len(t) = 3)
<1>1. CASE t = <<"distL", "distR", "line", "border">>
  <2>1. Head(t) = "distL" /\ Tail(t) = <<"distR", "line", "border">> /\ Len(t) = 4 /\ Len(Tail(t)) = 3
    BY <1>1
  <2> QED
    BY <1>1, <2>1, NamesOfTheLists DEF Rests, Sensor
<1>2. CASE t = <<"distL", "line", "border">>
  <2>1. Head(t) = "distL" /\ Tail(t) = <<"line", "border">> /\ Len(t) = 3 /\ Len(Tail(t)) = 2
    BY <1>2
  <2> QED
    BY <1>2, <2>1, NamesOfTheLists DEF Rests, Sensor
<1>3. CASE t = <<"distR", "line", "border">>
  <2>1. Head(t) = "distR" /\ Tail(t) = <<"line", "border">> /\ Len(t) = 3 /\ Len(Tail(t)) = 2
    BY <1>3
  <2> QED
    BY <1>3, <2>1, NamesOfTheLists DEF Rests, Sensor
<1>4. CASE t = <<"line", "border">>
  <2>1. Head(t) = "line" /\ Tail(t) = <<"border">> /\ Len(t) = 2 /\ Len(Tail(t)) = 1
    BY <1>4
  <2> QED
    BY <1>4, <2>1, NamesOfTheLists DEF Rests, Sensor
<1>5. CASE t = <<"border">>
  <2>1. Head(t) = "border" /\ Tail(t) = <<>> /\ Len(t) = 1 /\ Len(Tail(t)) = 0
    BY <1>5
  <2> QED
    BY <1>5, <2>1, NamesOfTheLists DEF Rests, Sensor
<1> QED
  BY <1>1, <1>2, <1>3, <1>4, <1>5 DEF Rests

LEMMA JoinedLists ==
    ASSUME NEW a, NEW b, NEW c
    PROVE  /\ <<a>> \o <<b>> = <<a, b>>
           /\ <<a>> \o <<b, c>> = <<a, b, c>>
<1> DEFINE S == {a, b, c}
<1>1. <<a>> \o <<b>> = <<a, b>>
  <2>1. <<a>> \o <<b>> \in Seq(S) /\ <<a, b>> \in Seq(S) /\ Len(<<a>> \o <<b>>) = 2
    OBVIOUS
  <2>2. \A i \in 1 .. 2 : (<<a>> \o <<b>>)[i] = <<a, b>>[i]
    OBVIOUS
  <2> QED
    BY <2>1, <2>2, SeqEqual
<1>2. <<a>> \o <<b, c>> = <<a, b, c>>
  <2>1. <<a>> \o <<b, c>> \in Seq(S) /\ <<a, b, c>> \in Seq(S) /\ Len(<<a>> \o <<b, c>>) = 3
    OBVIOUS
  <2>2. \A i \in 1 .. 3 : (<<a>> \o <<b, c>>)[i] = <<a, b, c>>[i]
    OBVIOUS
  <2> QED
    BY <2>1, <2>2, SeqEqual
<1> QED
  BY <1>1, <1>2

LEMMA JoinedPairs == <<"distL", "distR">> \o <<"line", "border">> = <<"distL", "distR", "line", "border">>
<1> DEFINE S == Sensor
<1>1. /\ <<"distL", "distR">> \o <<"line", "border">> \in Seq(S) /\ <<"distL", "distR", "line", "border">> \in Seq(S)
      /\ Len(<<"distL", "distR">> \o <<"line", "border">>) = 4
  BY DEF Sensor
<1>2. \A i \in 1 .. 4 :
         (<<"distL", "distR">> \o <<"line", "border">>)[i] = <<"distL", "distR", "line", "border">>[i]
  OBVIOUS
<1> QED
  BY <1>1, <1>2, SeqEqual

(* The round begins with everything that is due on the list. *)
LEMMA BeginningOfARound ==
    ASSUME RoundInv, bot_sens
    PROVE  RoundInv'
<1>1. sn \in RoundState /\ RoundOK(sn) /\ sn.pc = "begin"
  BY DEF bot_sens, RoundAt, RoundInv
<1>2. PICK due, servo \in BOOLEAN :
         sn' = [sn EXCEPT !.pc = "queue", !.due = due, !.servo = servo, !.fresh = {}, !.used = {},
                          !.todo = (IF due THEN <<"distL">> ELSE <<>>) \o (IF due /\ ~servo THEN <<"distR">> ELSE <<>>)
                                   \o <<"line", "border">>]
  BY DEF bot_sens, Set
<1> DEFINE list == (IF due THEN <<"distL">> ELSE <<>>) \o (IF due /\ ~servo THEN <<"distR">> ELSE <<>>)
                   \o <<"line", "border">>
<1>3. list = (IF due THEN (IF servo THEN <<"distL", "line", "border">> ELSE <<"distL", "distR", "line", "border">>)
              ELSE <<"line", "border">>)
  <2>1. CASE ~due
    BY <2>1
  <2>2. CASE due /\ servo
    <3>1. <<"distL">> \o <<>> = <<"distL">>
      OBVIOUS
    <3>2. <<"distL">> \o <<"line", "border">> = <<"distL", "line", "border">>
      BY JoinedLists
    <3> QED
      BY <2>2, <3>1, <3>2
  <2>3. CASE due /\ ~servo
    <3>1. <<"distL">> \o <<"distR">> = <<"distL", "distR">>
      BY JoinedLists
    <3>2. <<"distL", "distR">> \o <<"line", "border">> = <<"distL", "distR", "line", "border">>
      BY JoinedPairs
    <3> QED
      BY <2>3, <3>1, <3>2
  <2> QED
    BY <2>1, <2>2, <2>3
<1>4. list \in Rests
  BY <1>3 DEF Rests
<1>5. Named(list) = {"line", "border"} \cup (IF due THEN {"distL"} ELSE {}) \cup (IF due /\ ~servo THEN {"distR"} ELSE {})
  BY <1>3, NamesOfTheLists
<1> HIDE DEF list
<1>6. sn' = [sn EXCEPT !.pc = "queue", !.due = due, !.servo = servo, !.fresh = {}, !.used = {}, !.todo = list]
  BY <1>2 DEF list
<1>7. sn' \in RoundState
  BY <1>1, <1>4, <1>6 DEF RoundState
<1>8. /\ sn'.pc = "queue" /\ sn'.due = due /\ sn'.servo = servo /\ sn'.fresh = {} /\ sn'.used = {} /\ sn'.todo = list
      /\ sn'.act = sn.act /\ sn'.next = sn.next /\ sn'.channels = sn.channels /\ sn'.mux = sn.mux /\ sn'.wild = sn.wild
  BY <1>1, <1>6 DEF RoundState
<1>9. ~Runs(sn) /\ ~Runs(sn')
  BY <1>1, <1>8 DEF RoundOK, StepsOK, Runs
<1>10. QueueOK(sn') /\ PlacesOK(sn')
  BY <1>1, <1>8, <1>9 DEF RoundOK, QueueOK, PlacesOK, Runs
<1>11. StepsOK(sn')
  BY <1>5, <1>8 DEF StepsOK, Due
<1> QED
  BY <1>1, <1>7, <1>8, <1>10, <1>11 DEF RoundInv, RoundOK

LEMMA TestIsSound ==
    ASSUME RoundInv, ReadTest
    PROVE  RoundInv'
<1>1. sn \in RoundState /\ RoundOK(sn) /\ sn.pc = "queue" /\ sn.todo # <<>>
  BY DEF ReadTest, RoundAt, RoundInv
<1>2. sn' = [sn EXCEPT !.pc = "store", !.next = IF ~Runs(sn) THEN 0 ELSE sn.next]
  BY DEF ReadTest, Set, Runs
<1>3. sn' \in RoundState
  <2> DEFINE next == IF ~Runs(sn) THEN 0 ELSE sn.next
  <2>1. next \in Slots \cup {CHANNELS}
    BY <1>1 DEF RoundState, Slots, CHANNELS
  <2>2. sn' = [sn EXCEPT !.pc = "store", !.next = next]
    BY <1>2
  <2> HIDE DEF next
  <2> QED
    BY <1>1, <2>1, <2>2 DEF RoundState
<1>4. /\ sn'.pc = "store" /\ sn'.due = sn.due /\ sn'.servo = sn.servo /\ sn'.fresh = sn.fresh /\ sn'.used = sn.used
      /\ sn'.todo = sn.todo /\ sn'.act = sn.act /\ sn'.next = (IF ~Runs(sn) THEN 0 ELSE sn.next)
      /\ sn'.channels = sn.channels /\ sn'.mux = sn.mux /\ sn'.wild = sn.wild
  BY <1>1, <1>2 DEF RoundState
<1>5. Runs(sn') <=> Runs(sn)
  BY <1>4 DEF Runs
<1>6. QueueOK(sn') /\ PlacesOK(sn')
  BY <1>1, <1>4, <1>5 DEF RoundOK, QueueOK, PlacesOK
<1>7. StepsOK(sn')
  BY <1>1, <1>4, <1>5 DEF RoundOK, StepsOK, Due, Waiting
<1> QED
  BY <1>1, <1>3, <1>4, <1>6, <1>7 DEF RoundInv, RoundOK

(* The converter is not through with a conversion between test and store, so *)
(* the place that was found is still free and behind the queue.              *)
LEMMA ReadIsSound ==
    ASSUME RoundInv, adc_read_int
    PROVE  RoundInv'
<1> DEFINE s == Head(sn.todo)  n == sn.next  rest == Tail(sn.todo)
<1>1. sn \in RoundState /\ RoundOK(sn) /\ sn.pc = "store" /\ sn.todo # <<>> /\ (~Runs(sn) => n = 0) /\ sn.todo \in Rests
  BY RoundTypes DEF adc_read_int, RoundAt, RoundInv, RoundOK, StepsOK
<1>2. /\ s \in Sensor /\ rest \in Rests /\ Len(sn.todo) \in Nat /\ Len(sn.todo) > 0 /\ Len(rest) = Len(sn.todo) - 1
      /\ Named(sn.todo) = {s} \cup Named(rest) /\ "distL" \notin Named(rest) /\ (s = "distR" => Len(sn.todo) = 3)
  BY <1>1, EndsOfTheLists
<1>3. n \in Int /\ 0 <= n /\ n < 4 /\ (Runs(sn) => sn.act < n /\ n + Len(sn.todo) <= 4)
  BY <1>1, <1>2, RoundTypes DEF RoundOK, QueueOK, CHANNELS
<1>4. s = "distL" => ~Runs(sn) /\ n = 0
  BY <1>1, <1>2 DEF RoundOK, PlacesOK
<1>5. s = "distR" => n <= 1
  <2> SUFFICES ASSUME s = "distR"
               PROVE  n <= 1
    OBVIOUS
  <2>1. Len(sn.todo) = 3
    BY <1>2
  <2>2. Runs(sn) => n + 3 <= 4
    BY <1>3, <2>1
  <2>3. n \in Int /\ (~Runs(sn) => n = 0)
    BY <1>1, <1>3
  <2> HIDE DEF n
  <2> QED
    BY <2>2, <2>3
<1> DEFINE act == IF Runs(sn) THEN sn.act ELSE 0
           mux == IF Runs(sn) THEN sn.mux ELSE s
           channels == [sn.channels EXCEPT ![n] = [value |-> s, channel |-> s]]
<1>6. sn' = [sn EXCEPT !.pc = "queue", !.todo = rest, !.next = n + 1, !.channels = channels, !.act = act, !.mux = mux]
  <2>1. ~(sn.next >= CHANNELS)
    BY <1>3 DEF CHANNELS
  <2>2. CASE Runs(sn)
    BY <1>1, <2>1, <2>2 DEF adc_read_int, Set, Runs, RoundState
  <2>3. CASE ~Runs(sn)
    BY <1>1, <2>1, <2>3 DEF adc_read_int, Set, Runs, RoundState
  <2> QED
    BY <2>2, <2>3
<1>7. n \in Slots /\ n + 1 \in Slots \cup {CHANNELS}
  BY <1>3 DEF Slots, CHANNELS
<1>8. channels \in [Slots -> [value : Sensor \cup {"null"}, channel : Sensor]]
  BY <1>1, <1>2, <1>7, RoundTypes
<1>9. act \in Slots /\ act <= n /\ act \in Int /\ (~Runs(sn) => n = 0) /\ mux \in Sensor /\ act # IDLE
  BY <1>1, <1>2, <1>3, RoundTypes DEF Slots, CHANNELS, IDLE
<1>10. /\ \A i \in Slots : i # n => channels[i] = sn.channels[i]
       /\ channels[n].value = s /\ channels[n].channel = s
  BY <1>1, <1>7, RoundTypes
<1>11. Runs(sn) => act = sn.act /\ mux = sn.mux
  OBVIOUS
<1>12. ~Runs(sn) => act = 0 /\ mux = s
  OBVIOUS
<1> HIDE DEF s, n, rest, act, mux, channels
<1>13. sn' \in RoundState
  <2> DEFINE next == n + 1
  <2>1. next \in Slots \cup {CHANNELS} /\ sn' = [sn EXCEPT !.pc = "queue", !.todo = rest, !.next = next, !.channels = channels, !.act = act, !.mux = mux]
    BY <1>6, <1>7
  <2> HIDE DEF next
  <2> QED
    BY <1>1, <1>2, <1>8, <1>9, <2>1 DEF RoundState
<1>14. /\ sn'.pc = "queue" /\ sn'.due = sn.due /\ sn'.servo = sn.servo /\ sn'.fresh = sn.fresh /\ sn'.used = sn.used
       /\ sn'.todo = rest /\ sn'.act = act /\ sn'.next = n + 1
       /\ sn'.channels = channels /\ sn'.mux = mux /\ sn'.wild = sn.wild
  BY <1>1, <1>6 DEF RoundState
<1>15. Runs(sn')
  BY <1>9, <1>14 DEF Runs
<1>16. \A i \in Slots : sn.channels[i].value # "null" => Runs(sn) /\ sn.act <= i /\ i < n
  BY <1>1 DEF RoundOK, QueueOK, n
<1>17. QueueOK(sn')
  <2>1. ASSUME NEW i \in Slots
        PROVE  IF act <= i /\ i < n + 1
               THEN channels[i].value \in Sensor /\ channels[i].channel = channels[i].value
               ELSE channels[i].value = "null"
    <3>1. CASE i = n
      BY <1>2, <1>3, <1>9, <1>10, <3>1
    <3>2. CASE i # n
      <4>1. i \in Int /\ 0 <= i
        BY DEF Slots, CHANNELS
      <4>2. (i < n + 1) <=> (i < n)
        BY <1>3, <3>2, <4>1
      <4>3. CASE Runs(sn)
        BY <1>1, <1>10, <1>11, <3>2, <4>2, <4>3 DEF RoundOK, QueueOK, n
      <4>4. CASE ~Runs(sn)
        BY <1>1, <1>9, <1>10, <3>2, <4>1, <4>2, <4>4 DEF RoundOK, QueueOK
      <4> QED
        BY <4>3, <4>4
    <3> QED
      BY <3>1, <3>2
  <2>2. act < n + 1 /\ n + 1 + Len(rest) <= 4
    <3> DEFINE l == Len(sn.todo)
    <3>1. l \in Int /\ Len(rest) = l - 1 /\ l <= 4 /\ (Runs(sn) => n + l <= 4)
      <4>1. l <= 4
        BY <1>1, EndsOfTheLists
      <4> QED
        BY <1>2, <1>3, <4>1
    <3> HIDE DEF l
    <3>2. n + l <= 4
      BY <1>3, <1>9, <3>1
    <3> QED
      BY <1>3, <1>9, <3>1, <3>2
  <2>3. mux = channels[act].value
    <3>1. CASE Runs(sn)
      BY <1>1, <1>3, <1>9, <1>10, <1>11, <3>1 DEF RoundOK, QueueOK
    <3>2. CASE ~Runs(sn)
      BY <1>9, <1>10, <1>12, <3>2
    <3> QED
      BY <3>1, <3>2
  <2> QED
    BY <1>14, <1>15, <2>1, <2>2, <2>3 DEF QueueOK, CHANNELS
<1>18. PlacesOK(sn')
  <2>1. \A i \in Slots : (channels[i].value = "distL" => i = 0) /\ (channels[i].value = "distR" => i <= 1)
    BY <1>1, <1>4, <1>5, <1>10 DEF RoundOK, PlacesOK
  <2> QED
    BY <1>2, <1>14, <2>1 DEF PlacesOK
<1>19. StepsOK(sn')
  <2>1. Due(sn) \subseteq sn.fresh \cup Waiting(sn) \cup Named(sn.todo)
    BY <1>1 DEF RoundOK, StepsOK
  <2>2. s \in Waiting(sn')
    BY <1>7, <1>10, <1>14 DEF Waiting
  <2>3. \A v \in Waiting(sn) : v # "null" => v \in Waiting(sn')
    <3> SUFFICES ASSUME NEW i \in Slots, sn.channels[i].value # "null"
                 PROVE  sn.channels[i].value \in Waiting(sn')
      BY DEF Waiting
    <3>1. i \in Int /\ i # n
      BY <1>3, <1>16 DEF Slots
    <3> QED
      BY <1>10, <1>14, <3>1 DEF Waiting
  <2>4. Due(sn') = Due(sn) /\ "null" \notin Due(sn)
    BY <1>14 DEF Due
  <2>5. Due(sn') \subseteq sn'.fresh \cup Waiting(sn') \cup Named(sn'.todo)
    BY <1>2, <1>14, <2>1, <2>2, <2>3, <2>4
  <2> QED
    BY <1>14, <2>5 DEF StepsOK
<1> QED
  BY <1>1, <1>13, <1>14, <1>17, <1>18, <1>19 DEF RoundInv, RoundOK

(* The converter has measured the sensor whose pin it was given. *)
LEMMA ConversionIsSound ==
    ASSUME ~TORN, RoundInv, ADC_vect
    PROVE  RoundInv'
<1> DEFINE a == sn.act  v == sn.channels[sn.act].value
           more == sn.act + 1 < CHANNELS /\ sn.channels[sn.act + 1].value # "null"
<1>1. sn \in RoundState /\ RoundOK(sn) /\ Runs(sn) /\ sn.pc # "store"
  BY DEF ADC_vect, RoundAt, RoundInv, Runs
<1>2. a \in Slots /\ a \in Int /\ 0 <= a /\ a < 4 /\ sn.next \in Int /\ sn.next <= 4 /\ a < sn.next
  BY <1>1, RoundTypes DEF RoundOK, QueueOK
<1>3. v \in Sensor /\ v = sn.mux /\ v # "null"
  BY <1>1, <1>2 DEF RoundOK, QueueOK, Sensor
<1>4. more => a + 1 \in Slots /\ a + 1 < sn.next
  <2> SUFFICES ASSUME more
               PROVE  a + 1 \in Slots /\ a + 1 < sn.next
    OBVIOUS
  <2>1. a + 1 \in Slots
    BY <1>2 DEF Slots, CHANNELS
  <2> QED
    BY <1>1, <2>1 DEF RoundOK, QueueOK
<1>5. ~more => sn.next = a + 1
  <2> SUFFICES ASSUME ~more, sn.next # a + 1
               PROVE  FALSE
    OBVIOUS
  <2>1. a + 1 < sn.next /\ a + 1 < CHANNELS /\ a + 1 \in Slots /\ a <= a + 1
    BY <1>2 DEF Slots, CHANNELS
  <2>2. sn.channels[a + 1].value \in Sensor
    BY <1>1, <2>1 DEF RoundOK, QueueOK
  <2> QED
    BY <2>1, <2>2 DEF Sensor
<1> DEFINE act == IF more THEN a + 1 ELSE IDLE
           mux == IF more THEN sn.channels[a + 1].channel ELSE sn.mux
           channels == [sn.channels EXCEPT ![a].value = "null"]
           fresh == sn.fresh \cup {v}
<1>6. sn' = [sn EXCEPT !.fresh = fresh, !.wild = FALSE, !.channels = channels, !.act = act, !.mux = mux]
  <2>1. sn.fresh \cup ({v} \ {"null"}) = fresh /\ (sn.wild \/ v # sn.mux) = FALSE
    BY <1>1, <1>3 DEF RoundOK
  <2> QED
    BY <1>1, <2>1 DEF ADC_vect, Set, RoundState
<1>7. channels \in [Slots -> [value : Sensor \cup {"null"}, channel : Sensor]]
  BY <1>1, <1>2, RoundTypes
<1>8. /\ \A i \in Slots : i # a => channels[i] = sn.channels[i]
      /\ channels[a].value = "null"
  BY <1>1, <1>2, RoundTypes
<1>9. act \in Slots \cup {IDLE} /\ mux \in Sensor /\ fresh \subseteq Sensor
  BY <1>1, <1>3, <1>4, RoundTypes
<1>10. CASE more
  <2>1. act = a + 1 /\ mux = sn.channels[a + 1].channel /\ act # IDLE /\ a + 1 \in Slots /\ a + 1 < sn.next
    BY <1>2, <1>4, <1>10 DEF IDLE
  <2> HIDE DEF a, v, act, mux, channels, fresh
  <2>2. sn' \in RoundState
    BY <1>1, <1>6, <1>7, <1>9 DEF RoundState
  <2>3. /\ sn'.pc = sn.pc /\ sn'.due = sn.due /\ sn'.servo = sn.servo /\ sn'.fresh = fresh /\ sn'.used = sn.used
        /\ sn'.todo = sn.todo /\ sn'.act = act /\ sn'.next = sn.next
        /\ sn'.channels = channels /\ sn'.mux = mux /\ ~sn'.wild
    BY <1>1, <1>6 DEF RoundState
  <2>4. Runs(sn')
    BY <2>1, <2>3 DEF Runs
  <2>5. ASSUME NEW i \in Slots
        PROVE  /\ i \in Int
               /\ i # a => ((a <= i /\ i < sn.next) <=> (a + 1 <= i /\ i < sn.next))
               /\ i = a => ~(a + 1 <= i)
    <3>1. i \in Int
      BY DEF Slots
    <3> QED
      BY <1>2, <3>1
  <2>6. QueueOK(sn')
    <3>1. ASSUME NEW i \in Slots
          PROVE  IF act <= i /\ i < sn.next
                 THEN channels[i].value \in Sensor /\ channels[i].channel = channels[i].value
                 ELSE channels[i].value = "null"
      <4>1. CASE i = a
        BY <1>8, <2>1, <2>5, <4>1
      <4>2. CASE i # a
        BY <1>1, <1>8, <2>1, <2>5, <4>2 DEF RoundOK, QueueOK, a
      <4> QED
        BY <4>1, <4>2
    <3>2. act < sn.next /\ (sn'.next + Len(sn'.todo) <= CHANNELS)
      BY <1>1, <2>1, <2>3 DEF RoundOK, QueueOK
    <3>3. mux = channels[act].value
      <4>1. a + 1 # a /\ act <= act /\ act < sn.next /\ act \in Slots
        BY <1>2, <2>1
      <4>2. channels[act].channel = channels[act].value
        BY <3>1, <4>1
      <4> QED
        BY <1>8, <2>1, <4>1, <4>2
    <3> QED
      BY <2>3, <2>4, <3>1, <3>2, <3>3 DEF QueueOK
  <2>7. PlacesOK(sn')
    BY <1>1, <1>8, <2>3 DEF RoundOK, PlacesOK
  <2>8. StepsOK(sn')
    <3>1. \A u \in Waiting(sn) : u = v \/ u \in Waiting(sn')
      BY <1>8, <2>3 DEF Waiting, v, a
    <3>2. Due(sn') = Due(sn)
      BY <2>3 DEF Due
    <3> QED
      BY <1>1, <2>3, <2>4, <3>1, <3>2 DEF RoundOK, StepsOK, fresh
  <2> QED
    BY <1>1, <2>2, <2>3, <2>6, <2>7, <2>8 DEF RoundInv, RoundOK, fresh
<1>11. CASE ~more
  <2>1. act = IDLE /\ mux = sn.mux /\ sn.next = a + 1
    BY <1>5, <1>11
  <2> HIDE DEF a, v, act, mux, channels, fresh
  <2>2. sn' \in RoundState
    BY <1>1, <1>6, <1>7, <1>9 DEF RoundState
  <2>3. /\ sn'.pc = sn.pc /\ sn'.due = sn.due /\ sn'.servo = sn.servo /\ sn'.fresh = fresh /\ sn'.used = sn.used
        /\ sn'.todo = sn.todo /\ sn'.act = act /\ sn'.next = sn.next
        /\ sn'.channels = channels /\ sn'.mux = mux /\ ~sn'.wild
    BY <1>1, <1>6 DEF RoundState
  <2>4. ~Runs(sn')
    BY <2>1, <2>3 DEF Runs
  <2>5. \A i \in Slots : channels[i].value = "null"
    <3> SUFFICES ASSUME NEW i \in Slots, i # a
                 PROVE  channels[i].value = "null"
      BY <1>8
    <3>1. ~(a <= i /\ i < a + 1)
      <4>1. i \in Int
        BY DEF Slots
      <4> QED
        BY <1>2, <4>1
    <3> QED
      BY <1>1, <1>8, <2>1, <3>1 DEF RoundOK, QueueOK, a
  <2>6. QueueOK(sn')
    BY <2>3, <2>4, <2>5 DEF QueueOK
  <2>7. PlacesOK(sn')
    BY <2>3, <2>4, <2>5 DEF PlacesOK
  <2>8. StepsOK(sn')
    <3>1. \A u \in Waiting(sn) : u = v \/ u \in Waiting(sn')
      BY <1>8, <2>3 DEF Waiting, v, a
    <3>2. Due(sn') = Due(sn)
      BY <2>3 DEF Due
    <3> QED
      BY <1>1, <2>3, <2>4, <3>1, <3>2 DEF RoundOK, StepsOK, fresh
  <2> QED
    BY <1>1, <2>2, <2>3, <2>6, <2>7, <2>8 DEF RoundInv, RoundOK, fresh
<1> QED
  BY <1>10, <1>11

(* A value is used when so many conversions are through that its own is one  *)
(* of them.                                                                 *)
LEMMA UsesAreSound ==
    ASSUME RoundInv, Queued \/ UseLeft \/ UseRight \/ UseRest
    PROVE  RoundInv'
<1> DEFINE SameQueue ==
        /\ sn'.due = sn.due /\ sn'.servo = sn.servo /\ sn'.fresh = sn.fresh /\ sn'.todo = sn.todo
        /\ sn'.act = sn.act /\ sn'.next = sn.next /\ sn'.channels = sn.channels /\ sn'.mux = sn.mux /\ sn'.wild = sn.wild
<1>1. sn \in RoundState /\ RoundOK(sn) /\ QueueOK(sn) /\ PlacesOK(sn) /\ StepsOK(sn)
  BY DEF RoundInv, RoundOK
<1>2. ASSUME SameQueue
      PROVE  QueueOK(sn') /\ PlacesOK(sn') /\ (Runs(sn') <=> Runs(sn)) /\ Due(sn') = Due(sn) /\ Waiting(sn') = Waiting(sn)
  BY <1>1, <1>2 DEF QueueOK, PlacesOK, Runs, Due, Waiting
<1>3. ASSUME sn.todo = <<>>, sn.pc # "begin"
      PROVE  Due(sn) \subseteq sn.fresh \cup Waiting(sn)
  BY <1>1, <1>3, NamesOfTheLists DEF StepsOK
<1>4. ASSUME ~Runs(sn)
      PROVE  Waiting(sn) \subseteq {"null"}
  BY <1>1, <1>4 DEF QueueOK, Waiting
<1>5. CASE Queued
  <2>1. sn.pc = "queue" /\ sn.todo = <<>> /\ sn' = [sn EXCEPT !.pc = IF sn.due THEN "left" ELSE "rest"]
    BY <1>5 DEF Queued, RoundAt, Set
  <2>2. sn' \in RoundState /\ SameQueue /\ sn'.used = sn.used /\ sn'.pc = (IF sn.due THEN "left" ELSE "rest")
    BY <1>1, <2>1 DEF RoundState
  <2>3. StepsOK(sn')
    BY <1>1, <1>2, <2>1, <2>2 DEF StepsOK
  <2> QED
    BY <1>1, <1>2, <2>2, <2>3 DEF RoundInv, RoundOK
<1>6. CASE UseLeft
  <2>1. sn.pc = "left" /\ ~(sn.act < 1) /\ sn' = [sn EXCEPT !.used = @ \cup {"distL"}, !.pc = IF sn.servo THEN "rest" ELSE "right"]
    BY <1>6 DEF UseLeft, RoundAt, Set
  <2>2. sn' \in RoundState
    BY <1>1, <2>1 DEF RoundState, Sensor
  <2>3. SameQueue /\ sn'.used = sn.used \cup {"distL"} /\ sn'.pc = (IF sn.servo THEN "rest" ELSE "right")
    BY <1>1, <2>1 DEF RoundState
  <2>4. sn.todo = <<>> /\ sn.due /\ Due(sn) \subseteq sn.fresh \cup Waiting(sn) \cup Named(sn.todo)
    BY <1>1, <2>1 DEF StepsOK
  <2>5. StepsOK(sn')
    <3>1. Due(sn') \subseteq sn'.fresh \cup Waiting(sn') \cup Named(sn'.todo)
      BY <1>2, <2>3, <2>4
    <3>2. sn'.todo = <<>> /\ sn'.due /\ sn'.pc \in {"rest", "right"} /\ (sn'.pc = "right" => ~sn'.servo)
      BY <2>3, <2>4
    <3> QED
      BY <3>1, <3>2 DEF StepsOK
  <2>6. "distL" \notin Waiting(sn)
    BY <1>1, <2>1, RoundTypes DEF QueueOK, PlacesOK, Waiting
  <2>7. "distL" \in sn.fresh
    BY <1>3, <2>1, <2>4, <2>6 DEF Due
  <2> QED
    BY <1>1, <1>2, <2>2, <2>3, <2>5, <2>7 DEF RoundInv, RoundOK
<1>7. CASE UseRight
  <2>1. sn.pc = "right" /\ ~(sn.act < 2) /\ sn' = [sn EXCEPT !.used = @ \cup {"distR"}, !.pc = "rest"]
    BY <1>7 DEF UseRight, RoundAt, Set
  <2>2. sn' \in RoundState
    BY <1>1, <2>1 DEF RoundState, Sensor
  <2>3. SameQueue /\ sn'.used = sn.used \cup {"distR"} /\ sn'.pc = "rest"
    BY <1>1, <2>1 DEF RoundState
  <2>4. sn.todo = <<>> /\ sn.due /\ ~sn.servo
    BY <1>1, <2>1 DEF StepsOK
  <2>5. StepsOK(sn')
    BY <1>1, <1>2, <2>1, <2>3, <2>4 DEF StepsOK
  <2>6. "distR" \notin Waiting(sn)
    <3> SUFFICES ASSUME NEW i \in Slots, sn.channels[i].value = "distR"
                 PROVE  FALSE
      BY DEF Waiting
    <3>1. i <= 1 /\ i \in Int /\ sn.act \in Int
      BY <1>1, RoundTypes DEF PlacesOK, Slots
    <3>2. ~(sn.act <= i)
      BY <2>1, <3>1
    <3> QED
      BY <1>1, <3>2 DEF QueueOK
  <2>7. "distR" \in sn.fresh
    BY <1>3, <2>1, <2>4, <2>6 DEF Due
  <2> QED
    BY <1>1, <1>2, <2>2, <2>3, <2>5, <2>7 DEF RoundInv, RoundOK
<1>8. CASE UseRest
  <2>1. sn.pc = "rest" /\ ~Runs(sn) /\ sn' = [sn EXCEPT !.used = @ \cup {"line", "border"}, !.pc = "begin"]
    BY <1>8 DEF UseRest, RoundAt, Set, Runs
  <2>2. sn' \in RoundState
    BY <1>1, <2>1 DEF RoundState, Sensor
  <2>3. SameQueue /\ sn'.used = sn.used \cup {"line", "border"} /\ sn'.pc = "begin"
    BY <1>1, <2>1 DEF RoundState
  <2>4. sn.todo = <<>>
    BY <1>1, <2>1 DEF StepsOK
  <2>5. StepsOK(sn')
    BY <1>2, <2>1, <2>3 DEF StepsOK
  <2>6. {"line", "border"} \subseteq sn.fresh
    BY <1>3, <1>4, <2>1, <2>4 DEF Due
  <2> QED
    BY <1>1, <1>2, <2>2, <2>3, <2>5, <2>6 DEF RoundInv, RoundOK
<1> QED
  BY <1>5, <1>6, <1>7, <1>8

(* If no conversion ends between the test and the store of adc_read_int, a   *)
(* value that is used is always of its own round and of its own sensor.      *)
THEOREM RoundsAreFresh ==
    ASSUME ~TORN
    PROVE  RoundInit /\ [][RoundNext]_sn => []ValuesAreFresh
<1>1. RoundInit => RoundInv
  <2> SUFFICES ASSUME RoundInit
               PROVE  RoundInv
    OBVIOUS
  <2>1. sn \in RoundState
    BY DEF RoundInit, RoundState, Rests, Slots, CHANNELS, IDLE, Sensor
  <2>2. /\ sn.pc = "begin" /\ sn.todo = <<>> /\ sn.act = IDLE /\ \A i \in Slots : sn.channels[i].value = "null"
        /\ sn.fresh = {} /\ sn.used = {} /\ sn.wild = FALSE
    BY DEF RoundInit, Slots
  <2>3. ~Runs(sn)
    BY <2>2 DEF Runs
  <2>4. QueueOK(sn) /\ PlacesOK(sn) /\ StepsOK(sn)
    BY <2>2, <2>3, NamesOfTheLists DEF QueueOK, PlacesOK, StepsOK
  <2> QED
    BY <2>1, <2>2, <2>4 DEF RoundInv, RoundOK
<1>2. RoundInv /\ [RoundNext]_sn => RoundInv'
  <2> SUFFICES ASSUME RoundInv, [RoundNext]_sn
               PROVE  RoundInv'
    OBVIOUS
  <2>1. CASE UNCHANGED sn
    BY <2>1 DEF RoundInv
  <2>2. CASE RoundNext
    BY <2>2, BeginningOfARound, TestIsSound, ReadIsSound, ConversionIsSound, UsesAreSound DEF RoundNext
  <2> QED
    BY <2>1, <2>2
<1>3. RoundInv => ValuesAreFresh
  BY DEF RoundInv, RoundOK, ValuesAreFresh
<1> QED
  BY <1>1, <1>2, <1>3, PTL

-----------------------------------------------------------------------------
(* The encoders.  Two numbers of edges that differ by whole turns of a        *)
(* counter are the same to it.                                              *)
Turn == 2 * ENC_HALF
Counter == {n \in Int : -ENC_HALF <= n /\ n < ENC_HALF}
SameCount(a, b) == \E k \in Int : a = b + k * Turn

LEMMA ModuloLeaves ==
    ASSUME NEW m \in Nat, m > 0, NEW a \in Int
    PROVE  /\ a % m \in Int /\ 0 <= a % m /\ a % m < m
           /\ \E k \in Int : a = (a % m) + k * m
<1>1. a % m \in Int /\ 0 <= a % m /\ a % m < m
  OBVIOUS
<1>2. a = (a % m) + (a \div m) * m /\ a \div m \in Int
  OBVIOUS
<1> QED
  BY <1>1, <1>2

LEMMA SameCounts ==
    ASSUME ENC_HALF \in Nat \ {0}
    PROVE  /\ \A a \in Int : SameCount(a, a)
           /\ \A a, b \in Int : SameCount(a, b) => SameCount(b, a)
           /\ \A a, b, c, d \in Int : SameCount(a, b) /\ SameCount(c, d) => SameCount(a + c, b + d)
           /\ \A a, b, c \in Int : SameCount(a, b) /\ SameCount(b, c) => SameCount(a, c)
           /\ \A a, b \in Counter : SameCount(a, b) => a = b
<1>0. Turn \in Int /\ Turn = 2 * ENC_HALF /\ ENC_HALF \in Int /\ ENC_HALF > 0
  BY DEF Turn
<1> HIDE DEF Turn
<1>1. \A a \in Int : SameCount(a, a)
  <2> SUFFICES ASSUME NEW a \in Int
               PROVE  SameCount(a, a)
    OBVIOUS
  <2>1. a = a + 0 * Turn /\ 0 \in Int
    BY <1>0
  <2> QED
    BY <2>1 DEF SameCount
<1>2. ASSUME NEW a \in Int, NEW b \in Int, SameCount(a, b)
      PROVE  SameCount(b, a)
  <2>1. PICK k \in Int : a = b + k * Turn
    BY <1>2 DEF SameCount
  <2>2. b = a + (-k) * Turn /\ -k \in Int
    BY <1>0, <2>1
  <2> QED
    BY <2>2 DEF SameCount
<1>3. ASSUME NEW a \in Int, NEW b \in Int, NEW c \in Int, NEW d \in Int, SameCount(a, b), SameCount(c, d)
      PROVE  SameCount(a + c, b + d)
  <2>1. PICK k \in Int : a = b + k * Turn
    BY <1>3 DEF SameCount
  <2>2. PICK l \in Int : c = d + l * Turn
    BY <1>3 DEF SameCount
  <2>3. a + c = (b + d) + (k + l) * Turn /\ k + l \in Int
    BY <1>0, <2>1, <2>2
  <2> QED
    BY <2>3 DEF SameCount
<1>4. ASSUME NEW a \in Int, NEW b \in Int, NEW c \in Int, SameCount(a, b), SameCount(b, c)
      PROVE  SameCount(a, c)
  <2>1. PICK k \in Int : a = b + k * Turn
    BY <1>4 DEF SameCount
  <2>2. PICK l \in Int : b = c + l * Turn
    BY <1>4 DEF SameCount
  <2>3. a = c + (k + l) * Turn /\ k + l \in Int
    BY <1>0, <2>1, <2>2
  <2> QED
    BY <2>3 DEF SameCount
<1>5. ASSUME NEW a \in Counter, NEW b \in Counter, SameCount(a, b)
      PROVE  a = b
  <2>1. PICK k \in Int : a = b + k * Turn
    BY <1>5 DEF SameCount
  <2>2. a \in Int /\ b \in Int /\ -ENC_HALF <= a /\ a < ENC_HALF /\ -ENC_HALF <= b /\ b < ENC_HALF
    BY DEF Counter
  <2>3. ~(k >= 1)
    <3> SUFFICES ASSUME k >= 1
                 PROVE  FALSE
      OBVIOUS
    <3>1. k * Turn >= Turn
      BY <1>0
    <3> QED
      BY <1>0, <2>1, <2>2, <3>1
  <2>4. ~(k <= -1)
    <3> SUFFICES ASSUME k <= -1
                 PROVE  FALSE
      OBVIOUS
    <3>1. k * Turn <= -Turn
      BY <1>0
    <3> QED
      BY <1>0, <2>1, <2>2, <3>1
  <2>5. k = 0
    BY <2>3, <2>4
  <2> QED
    BY <1>0, <2>1, <2>2, <2>5
<1> QED
  BY <1>1, <1>2, <1>3, <1>4, <1>5

LEMMA WrapKeepsCounts ==
    ASSUME ENC_HALF \in Nat \ {0}, NEW n \in Int
    PROVE  Wrap(n) \in Counter /\ SameCount(Wrap(n), n)
<1>1. ENC_HALF \in Int /\ ENC_HALF > 0 /\ 2 * ENC_HALF \in Nat /\ 2 * ENC_HALF > 0 /\ n + ENC_HALF \in Int
  OBVIOUS
<1> DEFINE r == (n + ENC_HALF) % (2 * ENC_HALF)
<1>2. r \in Int /\ 0 <= r /\ r < 2 * ENC_HALF /\ \E k \in Int : n + ENC_HALF = r + k * (2 * ENC_HALF)
  BY <1>1, ModuloLeaves
<1>3. Wrap(n) = r - ENC_HALF
  BY DEF Wrap
<1> HIDE DEF r
<1>4. Wrap(n) \in Counter
  BY <1>1, <1>2, <1>3 DEF Counter
<1>5. PICK k \in Int : n + ENC_HALF = r + k * (2 * ENC_HALF)
  BY <1>2
<1>6. r - ENC_HALF = n + (-k) * (2 * ENC_HALF) /\ -k \in Int
  BY <1>1, <1>2, <1>5
<1>7. SameCount(r - ENC_HALF, n)
  BY <1>6 DEF SameCount, Turn
<1> QED
  BY <1>3, <1>4, <1>7

OdometryState ==
    [pc : {"idle", "way", "speed"}, sensEnc : Int, lastEnc : Int, lastEnc1 : Int, seen : Int, way : Int,
     speed : Int, truth : Int, since : Int, late : Int, edges : Int]

(* What has come late is less than the interrupt can have counted since the  *)
(* snapshot.                                                                *)
LateOK(r) == -r.edges <= r.late /\ r.late <= r.edges /\ r.edges <= MAX_EDGES

(* The counter of the interrupt, the snapshot and the two counters that are   *)
(* remembered differ by the edges that came between them.                    *)
CountersOK(r) ==
    /\ r.sensEnc \in Counter /\ r.seen \in Counter /\ r.lastEnc \in Counter /\ r.lastEnc1 \in Counter
    /\ SameCount(r.sensEnc, r.seen + r.late)
    /\ SameCount(r.seen, r.lastEnc1 + (r.since - r.late))
    /\ r.since \in Counter /\ r.since - r.late \in Counter

WayOK(r) ==
    /\ r.pc # "way" => r.lastEnc = r.seen /\ r.way = -r.late
    /\ r.pc = "way" => /\ SameCount(r.seen, r.lastEnc - (r.way + r.late))
                       /\ -MAX_EDGES <= r.way + r.late /\ r.way + r.late <= MAX_EDGES
    /\ r.speed = r.truth

OdometryInv == odo \in OdometryState /\ LateOK(odo) /\ CountersOK(odo) /\ WayOK(odo)

SlowWheels == ENC_HALF \in Nat \ {0} /\ MAX_EDGES \in Nat /\ MAX_EDGES < ENC_HALF

LEMMA OdometryTypes ==
    ASSUME NEW r \in OdometryState
    PROVE  /\ r.sensEnc \in Int /\ r.lastEnc \in Int /\ r.lastEnc1 \in Int /\ r.seen \in Int /\ r.way \in Int
           /\ r.speed \in Int /\ r.truth \in Int /\ r.since \in Int /\ r.late \in Int /\ r.edges \in Int
           /\ r.pc \in {"idle", "way", "speed"}
BY DEF OdometryState

LEMMA OdometryFieldsKeepTypes ==
    ASSUME NEW r \in OdometryState, NEW a \in Int, NEW b \in Int, NEW c \in Int, NEW d \in Int, NEW e \in Int
    PROVE  /\ [r EXCEPT !.sensEnc = a, !.way = b, !.since = c, !.late = d, !.edges = e] \in OdometryState
           /\ [r EXCEPT !.pc = "way", !.seen = a, !.late = b, !.edges = c] \in OdometryState
           /\ [r EXCEPT !.way = a, !.lastEnc = b, !.pc = "speed"] \in OdometryState
           /\ [r EXCEPT !.pc = "idle"] \in OdometryState
           /\ [r EXCEPT !.pc = "idle", !.speed = a, !.lastEnc1 = b, !.truth = c, !.since = d] \in OdometryState
<1>1. [r EXCEPT !.sensEnc = a, !.way = b, !.since = c, !.late = d, !.edges = e] \in OdometryState
  BY DEF OdometryState
<1>2. [r EXCEPT !.pc = "way", !.seen = a, !.late = b, !.edges = c] \in OdometryState
  BY DEF OdometryState
<1>3. [r EXCEPT !.way = a, !.lastEnc = b, !.pc = "speed"] \in OdometryState
  BY DEF OdometryState
<1>4. [r EXCEPT !.pc = "idle"] \in OdometryState
  BY DEF OdometryState
<1>5. [r EXCEPT !.pc = "idle", !.speed = a, !.lastEnc1 = b, !.truth = c, !.since = d] \in OdometryState
  BY DEF OdometryState
<1> QED
  BY <1>1, <1>2, <1>3, <1>4, <1>5

LEMMA EdgesAreCounted ==
    ASSUME SlowWheels, OdometryInv, Edge
    PROVE  OdometryInv'
<1>1. /\ odo \in OdometryState /\ LateOK(odo) /\ CountersOK(odo) /\ WayOK(odo)
      /\ ENC_HALF \in Nat \ {0} /\ MAX_EDGES \in Int /\ odo.edges < MAX_EDGES
  BY DEF SlowWheels, OdometryInv, Edge
<1>2. PICK d \in {1, -1} :
         /\ Wrap(odo.since + d) = odo.since + d
         /\ odo' = [odo EXCEPT !.sensEnc = Wrap(@ + d), !.way = @ - d, !.since = @ + d,
                               !.late = @ + d, !.edges = @ + 1]
  BY DEF Edge, Counts
<1>3. /\ d \in Int /\ odo.sensEnc \in Int /\ odo.way \in Int /\ odo.since \in Int /\ odo.late \in Int /\ odo.edges \in Int
      /\ odo.seen \in Int /\ odo.lastEnc \in Int /\ odo.lastEnc1 \in Int /\ odo.edges + 1 \in Int
  BY <1>1, OdometryTypes
<1> DEFINE c == Wrap(odo.sensEnc + d)  way == odo.way - d  since == odo.since + d
           late == odo.late + d  edges == odo.edges + 1
<1>4. c \in Counter /\ SameCount(c, odo.sensEnc + d) /\ since \in Counter /\ c \in Int
  <2>1. odo.sensEnc + d \in Int /\ odo.since + d \in Int
    BY <1>3
  <2> QED
    BY <1>1, <1>2, <2>1, WrapKeepsCounts DEF Counter
<1>5. way \in Int /\ since \in Int /\ late \in Int /\ edges \in Int
  BY <1>3
<1>6. odo' = [odo EXCEPT !.sensEnc = c, !.way = way, !.since = since, !.late = late, !.edges = edges]
  BY <1>2
<1>7. way + late = odo.way + odo.late /\ since - late = odo.since - odo.late
  BY <1>3
<1>8. -edges <= late /\ late <= edges /\ edges <= MAX_EDGES
  <2>1. (d = 1 \/ d = -1) /\ -odo.edges <= odo.late /\ odo.late <= odo.edges
    BY <1>1 DEF LateOK
  <2> QED
    BY <1>1, <1>3, <2>1
<1>9. SameCount(c, odo.seen + late)
  <2> DEFINE p == odo.seen + odo.late  q == odo.sensEnc + d
  <2>1. SameCount(odo.sensEnc, p) /\ SameCount(d, d) /\ p \in Int /\ q \in Int /\ SameCount(c, q)
    <3>1. p \in Int /\ q \in Int
      BY <1>3
    <3>2. SameCount(odo.sensEnc, p)
      BY <1>1 DEF CountersOK
    <3>3. SameCount(d, d)
      BY <1>1, <1>3, SameCounts
    <3> QED
      BY <1>4, <3>1, <3>2, <3>3
  <2>2. odo.seen + late = p + d /\ q = odo.sensEnc + d /\ p + d \in Int
    BY <1>3
  <2> HIDE DEF p, q, c, late
  <2>3. SameCount(odo.sensEnc + d, p + d)
    BY <1>1, <1>3, <2>1, SameCounts
  <2> DEFINE r == p + d
  <2>4. SameCount(q, r) /\ r \in Int /\ odo.seen + late = r
    BY <2>2, <2>3
  <2> HIDE DEF r
  <2>5. SameCount(c, r)
    BY <1>1, <1>4, <2>1, <2>4, SameCounts
  <2> QED
    BY <2>4, <2>5
<1>10. odo.way = -odo.late => way = -late
  BY <1>3
<1> HIDE DEF c, way, since, late, edges
<1>11. odo' \in OdometryState
  BY <1>1, <1>4, <1>5, <1>6, OdometryFieldsKeepTypes
<1>12. /\ odo'.pc = odo.pc /\ odo'.sensEnc = c /\ odo'.lastEnc = odo.lastEnc /\ odo'.lastEnc1 = odo.lastEnc1
       /\ odo'.seen = odo.seen /\ odo'.way = way /\ odo'.speed = odo.speed /\ odo'.truth = odo.truth
       /\ odo'.since = since /\ odo'.late = late /\ odo'.edges = edges
  BY <1>1, <1>6 DEF OdometryState
<1>13. LateOK(odo')
  BY <1>8, <1>12 DEF LateOK
<1>14. CountersOK(odo')
  BY <1>1, <1>4, <1>7, <1>9, <1>12 DEF CountersOK
<1>15. WayOK(odo')
  BY <1>1, <1>7, <1>10, <1>12 DEF WayOK
<1> QED
  BY <1>11, <1>13, <1>14, <1>15 DEF OdometryInv

LEMMA SnapshotIsSound ==
    ASSUME SlowWheels, OdometryInv, Snapshot
    PROVE  OdometryInv'
<1>1. /\ odo \in OdometryState /\ LateOK(odo) /\ CountersOK(odo) /\ WayOK(odo)
      /\ ENC_HALF \in Nat \ {0} /\ MAX_EDGES \in Int /\ 0 <= MAX_EDGES
      /\ odo' = [odo EXCEPT !.pc = "way", !.seen = odo.sensEnc, !.late = 0, !.edges = 0] /\ odo.pc = "idle"
  BY DEF SlowWheels, OdometryInv, Snapshot, UpdateAt, Counts
<1>2. /\ odo.sensEnc \in Int /\ odo.way \in Int /\ odo.since \in Int /\ odo.late \in Int /\ odo.edges \in Int
      /\ odo.seen \in Int /\ odo.lastEnc \in Int /\ odo.lastEnc1 \in Int
  BY <1>1, OdometryTypes
<1>3. odo' \in OdometryState
  <2>1. 0 \in Int
    OBVIOUS
  <2> QED
    BY <1>1, <1>2, <2>1 DEF OdometryState
<1>4. /\ odo'.pc = "way" /\ odo'.sensEnc = odo.sensEnc /\ odo'.lastEnc = odo.lastEnc /\ odo'.lastEnc1 = odo.lastEnc1
      /\ odo'.seen = odo.sensEnc /\ odo'.way = odo.way /\ odo'.speed = odo.speed /\ odo'.truth = odo.truth
      /\ odo'.since = odo.since /\ odo'.late = 0 /\ odo'.edges = 0
  BY <1>1 DEF OdometryState
<1>5. odo.lastEnc = odo.seen /\ odo.way = -odo.late
  BY <1>1 DEF WayOK
<1>6. /\ SameCount(odo.sensEnc, odo.seen + odo.late)
      /\ SameCount(odo.seen, odo.lastEnc1 + (odo.since - odo.late))
  BY <1>1 DEF CountersOK
<1>7. SameCount(odo.sensEnc, odo.lastEnc1 + odo.since)
  <2>1. SameCount(odo.seen + odo.late, (odo.lastEnc1 + (odo.since - odo.late)) + odo.late)
    <3>1. SameCount(odo.late, odo.late) /\ odo.lastEnc1 + (odo.since - odo.late) \in Int
      BY <1>1, <1>2, SameCounts
    <3> QED
      BY <1>1, <1>2, <1>6, <3>1, SameCounts
  <2>2. (odo.lastEnc1 + (odo.since - odo.late)) + odo.late = odo.lastEnc1 + odo.since
    BY <1>2
  <2>3. odo.seen + odo.late \in Int /\ odo.lastEnc1 + odo.since \in Int
    BY <1>2
  <2> QED
    BY <1>1, <1>2, <1>6, <2>1, <2>2, <2>3, SameCounts
<1>8. CountersOK(odo')
  <2>1. SameCount(odo.sensEnc, odo.sensEnc + 0)
    <3>1. odo.sensEnc + 0 = odo.sensEnc
      BY <1>2
    <3> QED
      BY <1>1, <1>2, <3>1, SameCounts
  <2>2. odo.since - 0 = odo.since
    BY <1>2
  <2> QED
    BY <1>1, <1>4, <1>7, <2>1, <2>2 DEF CountersOK
<1>9. WayOK(odo')
  <2>1. odo.seen + odo.late = odo.lastEnc - (odo.way + 0)
    BY <1>2, <1>5
  <2>2. -MAX_EDGES <= odo.way + 0 /\ odo.way + 0 <= MAX_EDGES
    BY <1>1, <1>2, <1>5 DEF LateOK
  <2>3. odo.speed = odo.truth
    BY <1>1 DEF WayOK
  <2> QED
    BY <1>4, <1>6, <2>1, <2>2, <2>3 DEF WayOK
<1>10. LateOK(odo')
  BY <1>1, <1>4 DEF LateOK
<1> QED
  BY <1>3, <1>8, <1>9, <1>10 DEF OdometryInv

(* The counter has turned less than half since the last time, so the wrapped *)
(* difference is the true one.                                              *)
LEMMA UpdateIsSound ==
    ASSUME SlowWheels, OdometryInv, sensor_update
    PROVE  OdometryInv'
<1> DEFINE diff == Wrap(odo.seen - odo.lastEnc)  way == odo.way + Wrap(odo.seen - odo.lastEnc)
<1>1. /\ odo \in OdometryState /\ LateOK(odo) /\ CountersOK(odo) /\ WayOK(odo)
      /\ ENC_HALF \in Nat \ {0} /\ MAX_EDGES \in Int /\ MAX_EDGES < ENC_HALF
      /\ odo' = [odo EXCEPT !.way = way, !.lastEnc = odo.seen, !.pc = "speed"] /\ odo.pc = "way"
  BY DEF SlowWheels, OdometryInv, sensor_update, UpdateAt, Counts
<1>2. /\ odo.way \in Int /\ odo.late \in Int /\ odo.seen \in Int /\ odo.lastEnc \in Int /\ odo.edges \in Int
  BY <1>1, OdometryTypes
<1>3. diff \in Counter /\ SameCount(diff, odo.seen - odo.lastEnc) /\ diff \in Int /\ way = odo.way + diff
  <2>1. odo.seen - odo.lastEnc \in Int
    BY <1>2
  <2> QED
    BY <1>1, <2>1, WrapKeepsCounts DEF Counter
<1> HIDE DEF diff
<1> DEFINE d == -(odo.way + odo.late)
<1>4. SameCount(odo.seen, odo.lastEnc + d) /\ d \in Counter /\ d \in Int
  <2>1. odo.lastEnc - (odo.way + odo.late) = odo.lastEnc + d /\ d \in Int
    BY <1>2
  <2>2. -MAX_EDGES <= odo.way + odo.late /\ odo.way + odo.late <= MAX_EDGES /\ ENC_HALF \in Int
    BY <1>1 DEF WayOK
  <2>3. -ENC_HALF <= d /\ d < ENC_HALF
    BY <1>1, <1>2, <2>2
  <2> QED
    BY <1>1, <2>1, <2>3 DEF WayOK, Counter
<1>5. diff = d
  <2> HIDE DEF d
  <2>1. SameCount(odo.seen + (-odo.lastEnc), (odo.lastEnc + d) + (-odo.lastEnc))
    <3>1. SameCount(-odo.lastEnc, -odo.lastEnc) /\ -odo.lastEnc \in Int /\ odo.lastEnc + d \in Int
      BY <1>1, <1>2, <1>4, SameCounts
    <3> QED
      BY <1>1, <1>2, <1>4, <3>1, SameCounts
  <2>2. odo.seen + (-odo.lastEnc) = odo.seen - odo.lastEnc /\ (odo.lastEnc + d) + (-odo.lastEnc) = d
    BY <1>2, <1>4
  <2>3. SameCount(odo.seen - odo.lastEnc, d) /\ odo.seen - odo.lastEnc \in Int
    BY <1>2, <2>1, <2>2
  <2>4. SameCount(diff, d)
    BY <1>1, <1>3, <1>4, <2>3, SameCounts
  <2> QED
    BY <1>1, <1>3, <1>4, <2>4, SameCounts
<1>6. way = -odo.late /\ way \in Int
  BY <1>2, <1>3, <1>5
<1> HIDE DEF d, way
<1>7. odo' \in OdometryState
  BY <1>1, <1>2, <1>6, OdometryFieldsKeepTypes
<1>8. /\ odo'.pc = "speed" /\ odo'.sensEnc = odo.sensEnc /\ odo'.lastEnc = odo.seen /\ odo'.lastEnc1 = odo.lastEnc1
      /\ odo'.seen = odo.seen /\ odo'.way = way /\ odo'.speed = odo.speed /\ odo'.truth = odo.truth
      /\ odo'.since = odo.since /\ odo'.late = odo.late /\ odo'.edges = odo.edges
  BY <1>1 DEF OdometryState
<1>9. LateOK(odo') /\ CountersOK(odo')
  BY <1>1, <1>8 DEF LateOK, CountersOK
<1>10. WayOK(odo')
  BY <1>1, <1>6, <1>8 DEF WayOK
<1> QED
  BY <1>7, <1>9, <1>10 DEF OdometryInv

LEMMA SpeedIsSound ==
    ASSUME SlowWheels, OdometryInv, UpdateSpeed
    PROVE  OdometryInv'
<1> DEFINE diff == Wrap(odo.seen - odo.lastEnc1)  gone == odo.since - odo.late
<1>1. /\ odo \in OdometryState /\ LateOK(odo) /\ CountersOK(odo) /\ WayOK(odo)
      /\ ENC_HALF \in Nat \ {0} /\ MAX_EDGES \in Int /\ MAX_EDGES < ENC_HALF /\ odo.pc = "speed"
  BY DEF SlowWheels, OdometryInv, UpdateSpeed, UpdateAt
<1>2. /\ odo.late \in Int /\ odo.seen \in Int /\ odo.lastEnc1 \in Int /\ odo.since \in Int /\ odo.edges \in Int
  BY <1>1, OdometryTypes
<1>3. \/ odo' = [odo EXCEPT !.pc = "idle"]
      \/ odo' = [odo EXCEPT !.pc = "idle", !.speed = diff, !.lastEnc1 = odo.seen, !.truth = gone, !.since = odo.late]
  BY DEF UpdateSpeed, Counts
<1>4. CASE odo' = [odo EXCEPT !.pc = "idle"]
  <2>1. odo' \in OdometryState
    BY <1>1, <1>4 DEF OdometryState
  <2>2. /\ odo'.pc = "idle" /\ odo'.sensEnc = odo.sensEnc /\ odo'.lastEnc = odo.lastEnc /\ odo'.lastEnc1 = odo.lastEnc1
        /\ odo'.seen = odo.seen /\ odo'.way = odo.way /\ odo'.speed = odo.speed /\ odo'.truth = odo.truth
        /\ odo'.since = odo.since /\ odo'.late = odo.late /\ odo'.edges = odo.edges
    BY <1>1, <1>4 DEF OdometryState
  <2>3. LateOK(odo') /\ CountersOK(odo') /\ WayOK(odo')
    BY <1>1, <2>2 DEF LateOK, CountersOK, WayOK
  <2> QED
    BY <2>1, <2>3 DEF OdometryInv
<1>5. CASE odo' = [odo EXCEPT !.pc = "idle", !.speed = diff, !.lastEnc1 = odo.seen, !.truth = gone, !.since = odo.late]
  <2>1. diff \in Counter /\ diff \in Int /\ SameCount(diff, odo.seen - odo.lastEnc1)
    <3>1. odo.seen - odo.lastEnc1 \in Int
      BY <1>2
    <3> QED
      BY <1>1, <3>1, WrapKeepsCounts DEF Counter
  <2> HIDE DEF diff
  <2>2. gone \in Counter /\ gone \in Int /\ SameCount(odo.seen, odo.lastEnc1 + gone)
    BY <1>1, <1>2 DEF CountersOK
  <2>3. odo.late - odo.late = 0 /\ odo.seen + 0 = odo.seen
    BY <1>2
  <2> HIDE DEF gone
  <2>4. diff = gone
    <3>1. SameCount(odo.seen + (-odo.lastEnc1), (odo.lastEnc1 + gone) + (-odo.lastEnc1))
      <4>1. -odo.lastEnc1 \in Int /\ odo.lastEnc1 + gone \in Int
        BY <1>2, <2>2
      <4>2. SameCount(-odo.lastEnc1, -odo.lastEnc1)
        BY <1>1, <4>1, SameCounts
      <4> QED
        BY <1>1, <1>2, <2>2, <4>1, <4>2, SameCounts
    <3>2. odo.seen + (-odo.lastEnc1) = odo.seen - odo.lastEnc1 /\ (odo.lastEnc1 + gone) + (-odo.lastEnc1) = gone
      BY <1>2, <2>2
    <3>3. SameCount(odo.seen - odo.lastEnc1, gone) /\ odo.seen - odo.lastEnc1 \in Int
      BY <1>2, <3>1, <3>2
    <3>4. SameCount(diff, gone)
      BY <1>1, <2>1, <2>2, <3>3, SameCounts
    <3> QED
      BY <1>1, <2>1, <2>2, <3>4, SameCounts
  <2>5. odo' \in OdometryState
    BY <1>1, <1>2, <1>5, <2>1, <2>2, OdometryFieldsKeepTypes
  <2>6. /\ odo'.pc = "idle" /\ odo'.sensEnc = odo.sensEnc /\ odo'.lastEnc = odo.lastEnc /\ odo'.lastEnc1 = odo.seen
        /\ odo'.seen = odo.seen /\ odo'.way = odo.way /\ odo'.speed = diff /\ odo'.truth = gone
        /\ odo'.since = odo.late /\ odo'.late = odo.late /\ odo'.edges = odo.edges
    BY <1>1, <1>5 DEF OdometryState
  <2>7. LateOK(odo') /\ WayOK(odo')
    BY <1>1, <2>4, <2>6 DEF LateOK, WayOK
  <2>8. CountersOK(odo')
    <3>1. odo.late \in Counter /\ odo.late - odo.late \in Counter
      <4>1. ENC_HALF \in Int /\ ENC_HALF > 0 /\ -ENC_HALF <= odo.late /\ odo.late < ENC_HALF
        BY <1>1, <1>2 DEF LateOK
      <4> QED
        BY <1>2, <2>3, <4>1 DEF Counter
    <3>2. SameCount(odo.seen, odo.seen + (odo.late - odo.late))
      BY <1>1, <1>2, <2>3, SameCounts
    <3> QED
      BY <1>1, <2>6, <3>1, <3>2 DEF CountersOK
  <2> QED
    BY <2>5, <2>7, <2>8 DEF OdometryInv
<1> QED
  BY <1>3, <1>4, <1>5

(* No edge is lost or counted twice as long as fewer edges come between two   *)
(* rounds than half a counter holds.                                        *)
THEOREM EdgesBecomeWays ==
    ASSUME ENC_HALF \in Nat \ {0}, MAX_EDGES \in Nat, MAX_EDGES < ENC_HALF
    PROVE  OdometryInit /\ [][OdometryNext]_odo => []NoEdgeIsLost
<1>1. OdometryInit => OdometryInv
  <2> SUFFICES ASSUME OdometryInit
               PROVE  OdometryInv
    OBVIOUS
  <2>1. odo \in OdometryState
    BY DEF OdometryInit, OdometryState
  <2>2. /\ odo.pc = "idle" /\ odo.sensEnc = 0 /\ odo.lastEnc = 0 /\ odo.lastEnc1 = 0 /\ odo.seen = 0 /\ odo.way = 0
        /\ odo.speed = 0 /\ odo.truth = 0 /\ odo.since = 0 /\ odo.late = 0 /\ odo.edges = 0
    BY DEF OdometryInit
  <2>3. 0 \in Counter /\ SameCount(0, 0)
    BY SameCounts DEF Counter
  <2>4. LateOK(odo) /\ WayOK(odo)
    <3>1. odo.way = 0 - odo.late /\ odo.late = odo.edges /\ odo.edges >= 0 /\ odo.late \in Int /\ odo.way \in Int
      BY <2>2
    <3>2. odo.edges <= MAX_EDGES
      BY <2>2
    <3>3. odo.way = -odo.late /\ -odo.edges <= odo.late /\ odo.late <= odo.edges
      BY <3>1
    <3> QED
      BY <2>2, <3>2, <3>3 DEF LateOK, WayOK
  <2>5. CountersOK(odo)
    <3>1. 0 + 0 = 0 /\ 0 - 0 = 0
      OBVIOUS
    <3> QED
      BY <2>2, <2>3, <3>1 DEF CountersOK
  <2> QED
    BY <2>1, <2>4, <2>5 DEF OdometryInv
<1>2. OdometryInv /\ [OdometryNext]_odo => OdometryInv'
  <2> SUFFICES ASSUME OdometryInv, [OdometryNext]_odo
               PROVE  OdometryInv'
    OBVIOUS
  <2>1. SlowWheels
    BY DEF SlowWheels
  <2>2. CASE UNCHANGED odo
    BY <2>2 DEF OdometryInv
  <2>3. CASE OdometryNext
    BY <2>1, <2>3, EdgesAreCounted, SnapshotIsSound, UpdateIsSound, SpeedIsSound DEF OdometryNext
  <2> QED
    BY <2>2, <2>3
<1>3. OdometryInv => NoEdgeIsLost
  BY DEF OdometryInv, WayOK, NoEdgeIsLost, UpdateAt
<1> QED
  BY <1>1, <1>2, <1>3, PTL

-----------------------------------------------------------------------------
(* The table of a distance sensor: the voltages fall and the distances grow,  *)
(* from one entry to the next by less than a byte holds; the last distance is *)
(* beyond what the sensor can see.                                          *)
Volt(i) == SENSDIST_DATA[i].voltage
Dist(i) == SENSDIST_DATA[i].dist
Entries == 1 .. Len(SENSDIST_DATA)

TableIsSorted ==
    /\ SENSDIST_DATA \in Seq([voltage : Nat, dist : Nat]) /\ Len(SENSDIST_DATA) >= 2
    /\ \A i, j \in Entries : i < j => Volt(j) < Volt(i)
    /\ \A i \in Entries : i > 1 => Dist(i - 1) <= Dist(i) /\ Dist(i) <= Dist(i - 1) + 255
    /\ Dist(1) >= SENS_IR_MIN_DIST /\ Dist(Len(SENSDIST_DATA)) >= SENS_IR_MAX_DIST

(* Every set of numbers that is not empty has a least one.                  *)
LEMMA LeastOf ==
    ASSUME NEW S \in SUBSET Nat, S # {}
    PROVE  \E m \in S : \A n \in S : m <= n
<1> DEFINE R == OpToRel(<, Nat)
<1>1. \A x, y \in Nat : x < y => <<x, y>> \in R
  BY DEF OpToRel
<1>2. IsWellFoundedOn(R, Nat)
  BY NatLessThanWellFounded
<1> HIDE DEF R
<1>3. PICK m \in S : \A n \in S : ~(<<n, m>> \in R)
  BY <1>2, WFMin
<1>4. m \in Nat /\ \A n \in S : n \in Nat
  OBVIOUS
<1>5. \A n \in S : ~(n < m)
  BY <1>1, <1>3, <1>4
<1> QED
  BY <1>4, <1>5

LEMMA Products ==
    ASSUME NEW a \in Nat, NEW b \in Nat, NEW m \in Nat, a <= b
    PROVE  a * m \in Nat /\ b * m \in Nat /\ a * m <= b * m
<1>1. PICK c \in Nat : b = a + c
  <2>1. b - a \in Nat /\ b = a + (b - a)
    OBVIOUS
  <2> QED
    BY <2>1
<1>2. a * m \in Nat /\ c * m \in Nat /\ b * m = a * m + c * m
  BY <1>1
<1> QED
  BY <1>2

LEMMA Quotients ==
    ASSUME NEW a \in Nat, NEW d \in Nat, d > 0
    PROVE  a \div d \in Nat /\ d * (a \div d) <= a
<1>1. a = (a % d) + d * (a \div d) /\ 0 <= a % d /\ a % d \in Int /\ a \div d \in Int
  OBVIOUS
<1>2. ~(a \div d < 0)
  <2> DEFINE q == a \div d  r == a % d
  <2> SUFFICES ASSUME q < 0
               PROVE  FALSE
    OBVIOUS
  <2>1. q \in Int /\ r \in Int /\ r < d /\ a = r + d * q
    BY <1>1
  <2> HIDE DEF q, r
  <2>2. q <= -1 /\ d * q <= -d
    BY <2>1
  <2> QED
    BY <2>1, <2>2
<1> QED
  BY <1>1, <1>2

Slope(x1, y1, x2, y2) == ((y2 - y1) * 256) \div (x1 - x2)
Along(x1, m, xs) == (x1 - xs) * m

(* The arithmetic of 16 bits is exact: the slope times the way along it is    *)
(* no more than 256 times the difference of two distances.                   *)
LEMMA Interpolated ==
    ASSUME NEW x1 \in Nat, NEW y1 \in Nat, NEW x2 \in Nat, NEW y2 \in Nat, NEW xs \in Nat,
           x2 < xs, xs <= x1, y1 <= y2, y2 <= y1 + 255
    PROVE  /\ lin_interpolate(x1, y1, x2, y2, xs) = (Along(x1, Slope(x1, y1, x2, y2), xs) \div 256) + y1
           /\ Slope(x1, y1, x2, y2) \in Nat
           /\ Along(x1, Slope(x1, y1, x2, y2), xs) \in Nat
           /\ Along(x1, Slope(x1, y1, x2, y2), xs) <= (y2 - y1) * 256
<1> DEFINE m == ((y2 - y1) * 256) \div (x1 - x2)  dy == y2 - y1  dx == x1 - x2  go == x1 - xs
<1>1. dy \in Nat /\ dy <= 255 /\ dx \in Nat /\ dx > 0 /\ go \in Nat /\ go <= dx /\ x1 # x2
  OBVIOUS
<1>2. dy * 256 \in Nat /\ dy * 256 < 65536 /\ (dy * 256) % 65536 = dy * 256
  <2> HIDE DEF dy
  <2>1. dy * 256 \in Nat /\ dy * 256 < 65536
    BY <1>1
  <2> DEFINE z == dy * 256
  <2> HIDE DEF z
  <2>2. z % 65536 = z
    BY <2>1 DEF z
  <2> QED
    BY <2>1, <2>2 DEF z
<1>3. m \in Nat /\ dx * m <= dy * 256
  <2> HIDE DEF dy, dx
  <2> DEFINE z == dy * 256
  <2>1. z \in Nat
    BY <1>2
  <2> HIDE DEF z
  <2>2. z \div dx \in Nat /\ dx * (z \div dx) <= z
    BY <1>1, <2>1, Quotients
  <2> QED
    BY <2>2 DEF z, dy, dx
<1>4. go * m \in Nat /\ go * m <= dy * 256
  <2> HIDE DEF dy, dx, go, m
  <2>1. go * m <= dx * m /\ go * m \in Nat /\ dx * m \in Nat
    BY <1>1, <1>3, Products
  <2> DEFINE p == go * m  q == dx * m  z == dy * 256
  <2>2. p <= q /\ q <= z /\ p \in Nat /\ q \in Nat /\ z \in Nat
    BY <1>2, <1>3, <2>1
  <2> HIDE DEF p, q, z
  <2>3. p <= z
    BY <2>2
  <2> QED
    BY <2>2, <2>3 DEF p, z
<1>5. (go * m) % 65536 = go * m
  <2> DEFINE p == go * m
  <2>1. p \in Nat /\ p < 65536
    <3> HIDE DEF dy, m, go
    <3> DEFINE z == dy * 256
    <3>1. p \in Nat /\ p <= z /\ z < 65536 /\ z \in Nat
      BY <1>2, <1>4
    <3> HIDE DEF p, z
    <3> QED
      BY <3>1
  <2> HIDE DEF p
  <2> QED
    BY <2>1
<1>6. lin_interpolate(x1, y1, x2, y2, xs) = ((go * m) \div 256) + y1
  <2>1. ((dy * 256) % 65536) \div dx = m
    BY <1>2
  <2>2. lin_interpolate(x1, y1, x2, y2, xs)
        = (((go * (((dy * 256) % 65536) \div dx)) % 65536) \div 256) + y1
    BY <1>1 DEF lin_interpolate
  <2> HIDE DEF m, dy, dx, go
  <2>3. lin_interpolate(x1, y1, x2, y2, xs) = (((go * m) % 65536) \div 256) + y1
    BY <2>1, <2>2
  <2> DEFINE p == go * m
  <2>4. p % 65536 = p /\ lin_interpolate(x1, y1, x2, y2, xs) = ((p % 65536) \div 256) + y1
    BY <1>5, <2>3
  <2> HIDE DEF p
  <2>5. lin_interpolate(x1, y1, x2, y2, xs) = (p \div 256) + y1
    BY <2>4
  <2> QED
    BY <2>5 DEF p
<1>7. m = Slope(x1, y1, x2, y2) /\ go * m = Along(x1, m, xs)
  BY DEF Slope, Along
<1> HIDE DEF m, go
<1> QED
  BY <1>3, <1>4, <1>6, <1>7

(* What lies between two entries lies between their distances, and more      *)
(* voltage is less distance.                                                *)
LEMMA InterpolationFalls ==
    ASSUME NEW x1 \in Nat, NEW y1 \in Nat, NEW x2 \in Nat, NEW y2 \in Nat, NEW xs \in Nat, NEW xt \in Nat,
           x2 < xs, xs <= xt, xt <= x1, y1 <= y2, y2 <= y1 + 255
    PROVE  /\ lin_interpolate(x1, y1, x2, y2, xs) \in Nat
           /\ y1 <= lin_interpolate(x1, y1, x2, y2, xs) /\ lin_interpolate(x1, y1, x2, y2, xs) <= y2
           /\ lin_interpolate(x1, y1, x2, y2, xt) <= lin_interpolate(x1, y1, x2, y2, xs)
           /\ xs = x1 => lin_interpolate(x1, y1, x2, y2, xs) = y1
<1> DEFINE m == Slope(x1, y1, x2, y2)  p == Along(x1, m, xs)  q == Along(x1, m, xt)
<1>1. x2 < xt /\ xs <= x1
  OBVIOUS
<1>2. lin_interpolate(x1, y1, x2, y2, xs) = (p \div 256) + y1 /\ m \in Nat /\ p \in Nat /\ p <= (y2 - y1) * 256
  BY <1>1, Interpolated
<1>3. lin_interpolate(x1, y1, x2, y2, xt) = (q \div 256) + y1 /\ q \in Nat
  BY <1>1, Interpolated
<1>4. q <= p
  <2> DEFINE a == x1 - xt  b == x1 - xs
  <2>1. a \in Nat /\ b \in Nat /\ a <= b
    OBVIOUS
  <2> HIDE DEF m, a, b
  <2>2. a * m <= b * m
    BY <1>2, <2>1, Products
  <2> QED
    BY <2>2 DEF a, b, Along
<1>5. xs = x1 => p = 0
  <2> HIDE DEF m
  <2>1. xs = x1 => x1 - xs = 0
    OBVIOUS
  <2>2. 0 * m = 0
    BY <1>2
  <2> QED
    BY <2>1, <2>2 DEF Along
<1> HIDE DEF m, p, q
<1>6. p \div 256 \in Nat /\ q \div 256 \in Nat /\ p \div 256 <= y2 - y1 /\ q \div 256 <= p \div 256 /\ (p = 0 => p \div 256 = 0)
  BY <1>2, <1>3, <1>4
<1> DEFINE e == p \div 256  f == q \div 256
<1> HIDE DEF e, f
<1>7. e \in Nat /\ f \in Nat /\ e <= y2 - y1 /\ f <= e /\ (p = 0 => e = 0)
  BY <1>6 DEF e, f
<1>8. e + y1 \in Nat /\ y1 <= e + y1 /\ e + y1 <= y2 /\ f + y1 <= e + y1 /\ (p = 0 => e + y1 = y1)
  BY <1>7
<1> QED
  BY <1>2, <1>3, <1>5, <1>8 DEF e, f

Clipped(d) == IF d >= SENS_IR_MAX_DIST THEN SENS_IR_INFINITE ELSE d
Between(i, v) == lin_interpolate(Volt(i - 1), Dist(i - 1), Volt(i), Dist(i), v)

(* The entry a voltage leads to: the first below it. *)
Found(v, i) == i \in Entries /\ v > Volt(i) /\ \A k \in Entries : k < i => v <= Volt(k)
Below(v) == \A k \in Entries : v <= Volt(k)

LEMMA TableTypes ==
    ASSUME TableIsSorted
    PROVE  /\ Len(SENSDIST_DATA) \in Nat /\ Len(SENSDIST_DATA) >= 2
           /\ \A i \in Entries : Volt(i) \in Nat /\ Dist(i) \in Nat /\ i \in Nat /\ i >= 1 /\ i <= Len(SENSDIST_DATA)
           /\ 1 \in Entries
           /\ Len(SENSDIST_DATA) \div 2 \in Entries /\ Len(SENSDIST_DATA) \div 2 + 1 \in Entries
<1> DEFINE n == Len(SENSDIST_DATA)
<1>1. n \in Nat /\ n >= 2
  BY DEF TableIsSorted
<1>2. \A i \in Entries : SENSDIST_DATA[i] \in [voltage : Nat, dist : Nat]
  <2> DEFINE S == [voltage : Nat, dist : Nat]
  <2>1. SENSDIST_DATA \in Seq(S)
    BY DEF TableIsSorted
  <2> HIDE DEF S
  <2>2. \A i \in Entries : SENSDIST_DATA[i] \in S
    BY <2>1, ElementOfSeq DEF Entries
  <2> QED
    BY <2>2 DEF S
<1>3. n \div 2 \in Int /\ n \div 2 >= 1 /\ n \div 2 + 1 <= n
  <2> HIDE DEF n
  <2> QED
    BY <1>1
<1>4. 1 \in Entries /\ n \div 2 \in Entries /\ n \div 2 + 1 \in Entries
  BY <1>1, <1>3 DEF Entries
<1>5. \A i \in Entries : i \in Nat /\ i >= 1 /\ i <= n
  BY <1>1 DEF Entries
<1> QED
  BY <1>1, <1>2, <1>4, <1>5 DEF Volt, Dist

LEMMA EntryBefore ==
    ASSUME TableIsSorted, NEW i \in Entries, i # 1
    PROVE  i - 1 \in Entries /\ i - 1 < i
<1>1. i \in Nat /\ i >= 1 /\ i <= Len(SENSDIST_DATA) /\ Len(SENSDIST_DATA) \in Nat
  BY TableTypes
<1> DEFINE n == Len(SENSDIST_DATA)
<1>2. n \in Nat /\ i <= n /\ Entries = 1 .. n
  BY <1>1 DEF Entries
<1> HIDE DEF n
<1> QED
  BY <1>1, <1>2

LEMMA FoundOrBelow ==
    ASSUME TableIsSorted, NEW v \in Nat
    PROVE  Below(v) \/ \E i \in Entries : Found(v, i)
<1> SUFFICES ASSUME ~Below(v)
             PROVE  \E i \in Entries : Found(v, i)
  OBVIOUS
<1> DEFINE S == {i \in Entries : v > Volt(i)}
<1>1. S # {} /\ S \in SUBSET Nat
  <2>1. PICK k \in Entries : ~(v <= Volt(k))
    BY DEF Below
  <2>2. v > Volt(k) /\ \A i \in Entries : i \in Nat
    BY <2>1, TableTypes
  <2> QED
    BY <2>2
<1> HIDE DEF S
<1>2. PICK i \in S : \A k \in S : i <= k
  BY <1>1, LeastOf
<1>3. i \in Entries /\ v > Volt(i)
  BY <1>2 DEF S
<1>4. ASSUME NEW k \in Entries, k < i
      PROVE  v <= Volt(k)
  <2>0. i \in Nat /\ k \in Nat
    BY <1>3, TableTypes
  <2>1. k \notin S
    <3> SUFFICES ASSUME k \in S PROVE FALSE
      OBVIOUS
    <3>1. i <= k
      BY <1>2
    <3> QED
      BY <3>1, <2>0, <1>4
  <2>2. ~(v > Volt(k)) /\ Volt(k) \in Nat
    BY <2>1, TableTypes DEF S
  <2> QED
    BY <2>2
<1> QED
  BY <1>3, <1>4 DEF Found

(* The half of the table that is searched holds the entry. *)
LEMMA LookupFinds ==
    ASSUME TableIsSorted, NEW v \in Nat
    PROVE  /\ Below(v) => sensor_dist_lookup(v) = SENS_IR_INFINITE
           /\ \A i \in Entries :
                 Found(v, i) => sensor_dist_lookup(v)
                                = IF i = 1 THEN SENS_IR_MIN_DIST ELSE Clipped(Between(i, v))
<1> DEFINE n == Len(SENSDIST_DATA)
           half == n \div 2
           above == v > Volt(half)
           region == IF above THEN 1 .. half ELSE half + 1 .. n
           lower == {i \in region : v > Volt(i)}
           first == CHOOSE j \in lower : \A k \in lower : j <= k
<1>1. n \in Int /\ half \in Int /\ 1 <= half /\ half + 1 <= n
  BY TableTypes DEF Entries
<1>2. sensor_dist_lookup(v)
      = IF lower = {} THEN SENS_IR_INFINITE
        ELSE IF first = 1 THEN SENS_IR_MIN_DIST ELSE Clipped(Between(first, v))
  BY DEF sensor_dist_lookup, Volt, Dist, Clipped, Between
<1>3. region \subseteq Entries
  <2> HIDE DEF half, n
  <2>1. Entries = 1 .. n
    BY DEF Entries, n
  <2> QED
    BY <1>1, <2>1
<1>4. ASSUME Below(v)
      PROVE  lower = {}
  <2> SUFFICES ASSUME NEW k \in region, v > Volt(k)
               PROVE  FALSE
    OBVIOUS
  <2>1. v <= Volt(k) /\ Volt(k) \in Nat
    BY <1>3, <1>4, TableTypes DEF Below
  <2> QED
    BY <2>1
<1>5. ASSUME NEW i \in Entries, Found(v, i)
      PROVE  i \in lower /\ \A k \in lower : i <= k
  <2>1. v > Volt(i) /\ i \in Int /\ 1 <= i /\ i <= n /\ Volt(i) \in Nat /\ half \in Entries /\ Volt(half) \in Nat
    BY <1>5, TableTypes DEF Found
  <2>2. i \in region
    <3>1. CASE above
      <4>1. ~(half < i)
        <5> SUFFICES ASSUME half < i
                     PROVE  FALSE
          OBVIOUS
        <5>1. v <= Volt(half)
          BY <1>5, <2>1 DEF Found
        <5> QED
          BY <2>1, <3>1, <5>1
      <4> HIDE DEF half, n
      <4> QED
        BY <1>1, <2>1, <3>1, <4>1
    <3>2. CASE ~above
      <4>1. ~(i <= half)
        <5> SUFFICES ASSUME i <= half
                     PROVE  FALSE
          OBVIOUS
        <5>1. i < half => Volt(half) < Volt(i)
          BY <1>5, <2>1 DEF TableIsSorted
        <5>2. ~(v > Volt(half))
          BY <3>2
        <5> HIDE DEF half, n
        <5>3. i = half \/ i < half
          BY <1>1, <2>1
        <5> QED
          BY <2>1, <5>1, <5>2, <5>3
      <4> HIDE DEF half, n
      <4> QED
        BY <1>1, <2>1, <3>2, <4>1
    <3> QED
      BY <3>1, <3>2
  <2>3. ASSUME NEW k \in lower
        PROVE  i <= k
    <3>1. k \in Entries /\ v > Volt(k) /\ k \in Nat /\ Volt(k) \in Nat
      BY <1>3, TableTypes
    <3>2. ~(k < i)
      BY <1>5, <3>1 DEF Found
    <3> QED
      BY <2>1, <3>1, <3>2
  <2> QED
    BY <2>1, <2>2, <2>3
<1>6. ASSUME NEW i \in Entries, Found(v, i)
      PROVE  first = i /\ lower # {}
  <2>1. i \in lower /\ \A k \in lower : i <= k
    BY <1>5, <1>6
  <2>2. \A k \in lower : k \in Nat
    BY <1>3, TableTypes
  <2> HIDE DEF lower
  <2>3. first \in lower /\ \A k \in lower : first <= k
    BY <2>1
  <2>4. first <= i /\ i <= first /\ first \in Nat /\ i \in Nat
    BY <2>1, <2>2, <2>3
  <2> HIDE DEF first
  <2> QED
    BY <2>1, <2>4
<1> HIDE DEF lower, first
<1> QED
  BY <1>2, <1>4, <1>6

LEMMA Segments ==
    ASSUME TableIsSorted, NEW i \in Entries, i # 1, NEW v \in Nat, NEW w \in Nat, Volt(i) < v, v <= w, w <= Volt(i - 1)
    PROVE  /\ i - 1 \in Entries
           /\ Between(i, v) \in Nat /\ Between(i, w) \in Nat
           /\ Dist(i - 1) <= Between(i, v) /\ Between(i, v) <= Dist(i)
           /\ Between(i, w) <= Between(i, v) /\ Between(i, w) <= Dist(i)
           /\ v = Volt(i - 1) => Between(i, v) = Dist(i - 1)
<1>1. i - 1 \in Entries
  BY EntryBefore
<1>2. Volt(i) \in Nat /\ Dist(i) \in Nat /\ Volt(i - 1) \in Nat /\ Dist(i - 1) \in Nat
  BY <1>1, TableTypes
<1>3. Dist(i - 1) <= Dist(i) /\ Dist(i) <= Dist(i - 1) + 255
  <2>1. i > 1
    BY TableTypes
  <2> QED
    BY <2>1 DEF TableIsSorted
<1> DEFINE x1 == Volt(i - 1)  y1 == Dist(i - 1)  x2 == Volt(i)  y2 == Dist(i)
<1>4. x1 \in Nat /\ y1 \in Nat /\ x2 \in Nat /\ y2 \in Nat /\ x2 < v /\ v <= w /\ w <= x1 /\ y1 <= y2 /\ y2 <= y1 + 255
  BY <1>2, <1>3
<1>5. /\ Between(i, v) = lin_interpolate(x1, y1, x2, y2, v)
      /\ Between(i, w) = lin_interpolate(x1, y1, x2, y2, w)
  BY DEF Between
<1> HIDE DEF x1, y1, x2, y2
<1>6. x2 < w /\ w <= w
  BY <1>4
<1>7. /\ lin_interpolate(x1, y1, x2, y2, v) \in Nat
      /\ y1 <= lin_interpolate(x1, y1, x2, y2, v) /\ lin_interpolate(x1, y1, x2, y2, v) <= y2
      /\ lin_interpolate(x1, y1, x2, y2, w) <= lin_interpolate(x1, y1, x2, y2, v)
      /\ v = x1 => lin_interpolate(x1, y1, x2, y2, v) = y1
  <2>1. lin_interpolate(x1, y1, x2, y2, w) <= lin_interpolate(x1, y1, x2, y2, v)
    BY <1>4, InterpolationFalls
  <2>2. v <= v /\ v <= x1
    BY <1>4
  <2>3. /\ lin_interpolate(x1, y1, x2, y2, v) \in Nat
        /\ y1 <= lin_interpolate(x1, y1, x2, y2, v) /\ lin_interpolate(x1, y1, x2, y2, v) <= y2
    BY <1>4, <2>2, InterpolationFalls
  <2>4. v = x1 => lin_interpolate(x1, y1, x2, y2, v) = y1
    BY <1>4, <2>2, InterpolationFalls
  <2> QED
    BY <2>1, <2>3, <2>4
<1>8. lin_interpolate(x1, y1, x2, y2, w) \in Nat /\ lin_interpolate(x1, y1, x2, y2, w) <= y2
  BY <1>4, <1>6, InterpolationFalls
<1> QED
  BY <1>1, <1>5, <1>7, <1>8 DEF x1, y1, x2, y2

LEMMA LookupIsBounded ==
    ASSUME TableIsSorted, NEW v \in Nat
    PROVE  /\ sensor_dist_lookup(v) \in Nat
           /\ sensor_dist_lookup(v) <= SENS_IR_INFINITE
<1>1. CASE Below(v)
  BY <1>1, LookupFinds DEF SENS_IR_INFINITE
<1>2. CASE \E i \in Entries : Found(v, i)
  <2>1. PICK i \in Entries : Found(v, i)
    BY <1>2
  <2>2. sensor_dist_lookup(v) = IF i = 1 THEN SENS_IR_MIN_DIST ELSE Clipped(Between(i, v))
    BY <2>1, LookupFinds
  <2>3. CASE i = 1
    BY <2>2, <2>3 DEF SENS_IR_MIN_DIST, SENS_IR_INFINITE
  <2>4. CASE i # 1
    <3>1. Volt(i) < v /\ v <= v /\ v <= Volt(i - 1)
      <4>1. i \in Nat /\ i - 1 \in Entries /\ i - 1 < i /\ Volt(i) \in Nat
        BY <2>4, EntryBefore, TableTypes
      <4> QED
        BY <2>1, <4>1 DEF Found
    <3>2. Between(i, v) \in Nat
      BY <2>4, <3>1, Segments
    <3> QED
      BY <2>2, <2>4, <3>2 DEF Clipped, SENS_IR_MAX_DIST, SENS_IR_INFINITE
  <2> QED
    BY <2>3, <2>4
<1> QED
  BY <1>1, <1>2, FoundOrBelow

(* A little more voltage leads to the same entry, or, if the voltage was one  *)
(* of the table, to the entry before it.                                    *)
LEMMA MoreIsNearer ==
    ASSUME TableIsSorted, NEW v \in Nat
    PROVE  sensor_dist_lookup(v + 1) <= sensor_dist_lookup(v)
<1> DEFINE w == v + 1
<1>1. w \in Nat /\ v < w /\ v <= w
  OBVIOUS
<1>2. /\ sensor_dist_lookup(w) \in Nat /\ sensor_dist_lookup(w) <= SENS_IR_INFINITE
      /\ sensor_dist_lookup(v) \in Nat /\ sensor_dist_lookup(v) <= SENS_IR_INFINITE
  BY <1>1, LookupIsBounded
<1>3. \A x \in Nat : (x > v => x >= w) /\ (x < w => x <= v)
  OBVIOUS
<1> SUFFICES sensor_dist_lookup(w) <= sensor_dist_lookup(v)
  OBVIOUS
<1> HIDE DEF w
<1>4. CASE Below(v)
  BY <1>2, <1>4, LookupFinds
<1>5. CASE \E i \in Entries : Found(v, i)
  <2>1. PICK i \in Entries : Found(v, i)
    BY <1>5
  <2>2. v > Volt(i) /\ Volt(i) \in Nat /\ i \in Nat /\ \A k \in Entries : k < i => v <= Volt(k)
    BY <2>1, TableTypes DEF Found
  <2>3. w > Volt(i)
    BY <1>1, <2>2
  <2>4. PICK j \in Entries : Found(w, j)
    <3>1. ~Below(w)
      BY <1>1, <2>2, <2>3 DEF Below
    <3> QED
      BY <1>1, <3>1, FoundOrBelow
  <2>5. w > Volt(j) /\ Volt(j) \in Nat /\ j \in Nat /\ j >= 1 /\ \A k \in Entries : k < j => w <= Volt(k)
    BY <2>4, TableTypes DEF Found
  <2>6. j <= i
    <3>1. ~(i < j)
      BY <1>1, <2>2, <2>3, <2>5
    <3> QED
      BY <2>2, <2>5, <3>1
  <2>7. sensor_dist_lookup(v) = IF i = 1 THEN SENS_IR_MIN_DIST ELSE Clipped(Between(i, v))
    BY <2>1, LookupFinds
  <2>8. sensor_dist_lookup(w) = IF j = 1 THEN SENS_IR_MIN_DIST ELSE Clipped(Between(j, w))
    BY <1>1, <2>4, LookupFinds
  <2>9. CASE j = i
    <3>1. CASE i = 1
      BY <1>2, <2>7, <2>8, <2>9, <3>1
    <3>2. CASE i # 1
      <4>1. i - 1 \in Entries /\ i - 1 < i
        BY <2>2, <3>2, EntryBefore
      <4>2. w <= Volt(i - 1)
        BY <2>5, <2>9, <4>1
      <4>3. Between(i, w) <= Between(i, v) /\ Between(i, w) \in Nat /\ Between(i, v) \in Nat
        BY <1>1, <2>2, <3>2, <4>2, Segments
      <4> QED
        BY <2>7, <2>8, <2>9, <3>2, <4>3 DEF Clipped, SENS_IR_MAX_DIST, SENS_IR_INFINITE
    <3> QED
      BY <3>1, <3>2
  <2>10. CASE j # i
    <3>1. j < i
      BY <2>2, <2>5, <2>6, <2>10
    <3>2. v <= Volt(j) /\ Volt(j) <= v /\ v = Volt(j)
      BY <1>3, <2>2, <2>5, <3>1
    <3>3. j = i - 1
      <4>1. j + 1 \in Entries /\ j + 1 <= i
        <5>1. i <= Len(SENSDIST_DATA) /\ Len(SENSDIST_DATA) \in Nat
          BY TableTypes
        <5> DEFINE n == Len(SENSDIST_DATA)
        <5>2. n \in Nat /\ i <= n /\ Entries = 1 .. n
          BY <5>1 DEF Entries
        <5> HIDE DEF n
        <5> QED
          BY <2>2, <2>5, <3>1, <5>2
      <4>2. j < j + 1
        BY <2>5
      <4>3. Volt(j + 1) < Volt(j) /\ Volt(j + 1) \in Nat
        BY <4>1, <4>2, TableTypes DEF TableIsSorted
      <4>4. ~(j + 1 < i)
        BY <2>2, <3>2, <4>1, <4>3
      <4> QED
        BY <2>2, <2>5, <4>1, <4>4
    <3>4. i # 1 /\ v <= v /\ v <= Volt(i - 1) /\ v = Volt(i - 1)
      BY <2>2, <2>5, <3>1, <3>2, <3>3
    <3>5. Between(i, v) = Dist(j) /\ Dist(j) \in Nat
      BY <2>2, <3>3, <3>4, Segments, TableTypes
    <3>6. sensor_dist_lookup(v) = Clipped(Dist(j))
      BY <2>7, <3>4, <3>5
    <3>7. CASE j = 1
      <4>1. Dist(j) >= SENS_IR_MIN_DIST
        BY <3>7 DEF TableIsSorted
      <4> QED
        BY <2>8, <3>5, <3>6, <3>7, <4>1 DEF Clipped, SENS_IR_MAX_DIST, SENS_IR_INFINITE, SENS_IR_MIN_DIST
    <3>8. CASE j # 1
      <4>1. w <= w /\ w <= Volt(j - 1)
        <5>1. j - 1 \in Entries /\ j - 1 < j
          BY <2>5, <3>8, EntryBefore
        <5> QED
          BY <1>1, <2>5, <5>1
      <4>2. Between(j, w) \in Nat /\ Between(j, w) <= Dist(j)
        BY <1>1, <2>5, <3>8, <4>1, Segments
      <4> QED
        BY <2>8, <3>5, <3>6, <3>8, <4>2 DEF Clipped, SENS_IR_MAX_DIST, SENS_IR_INFINITE
    <3> QED
      BY <3>7, <3>8
  <2> QED
    BY <2>9, <2>10
<1> QED
  BY <1>4, <1>5, FoundOrBelow

LEMMA EntriesAreMet ==
    ASSUME TableIsSorted, NEW i \in Entries, i > 1, Dist(i) < SENS_IR_MAX_DIST
    PROVE  sensor_dist_lookup(Volt(i)) = Dist(i)
<1>1. /\ i \in Nat /\ i <= Len(SENSDIST_DATA) /\ Len(SENSDIST_DATA) \in Nat /\ Volt(i) \in Nat /\ Dist(i) \in Nat
      /\ Dist(Len(SENSDIST_DATA)) >= SENS_IR_MAX_DIST
  BY TableTypes DEF TableIsSorted
<1>2. i # Len(SENSDIST_DATA)
  BY <1>1 DEF SENS_IR_MAX_DIST
<1>3. i + 1 \in Entries /\ i < i + 1 /\ i + 1 # 1 /\ (i + 1) - 1 = i
  <2> DEFINE n == Len(SENSDIST_DATA)
  <2>1. n \in Nat /\ i <= n /\ i # n /\ Entries = 1 .. n
    BY <1>1, <1>2 DEF Entries
  <2> HIDE DEF n
  <2> QED
    BY <1>1, <2>1
<1> DEFINE j == i + 1
<1>4. j \in Entries /\ i < j /\ j # 1 /\ j - 1 = i /\ \A k \in Nat : k < j => k < i \/ k = i
  BY <1>1, <1>3
<1> HIDE DEF j
<1>5. Volt(j) < Volt(i) /\ Volt(j) \in Nat
  BY <1>4, TableTypes DEF TableIsSorted
<1>6. Found(Volt(i), j)
  <2>1. ASSUME NEW k \in Entries, k < j
        PROVE  Volt(i) <= Volt(k)
    <3>1. k \in Nat /\ Volt(k) \in Nat /\ (k < i \/ k = i)
      BY <1>4, <2>1, TableTypes
    <3>2. k < i => Volt(i) < Volt(k)
      BY DEF TableIsSorted
    <3> QED
      BY <1>1, <3>1, <3>2
  <2> QED
    BY <1>1, <1>4, <1>5, <2>1 DEF Found
<1>7. Between(j, Volt(i)) = Dist(i)
  <2>1. Volt(i) <= Volt(i) /\ Volt(i) = Volt(j - 1) /\ Volt(i) <= Volt(j - 1)
    BY <1>1, <1>4
  <2> QED
    BY <1>1, <1>4, <1>5, <2>1, Segments
<1>8. sensor_dist_lookup(Volt(i)) = Clipped(Dist(i))
  BY <1>1, <1>4, <1>6, <1>7, LookupFinds
<1> QED
  BY <1>1, <1>8 DEF Clipped, SENS_IR_MAX_DIST

LookupInv ==
    /\ looked.volt \in Nat /\ looked.dist = sensor_dist_lookup(looked.volt)
    /\ looked.dist <= looked.before

(* With every table that is sorted, more voltage is never more distance, and  *)
(* the entries of the table are met.                                        *)
THEOREM NearerIsAlwaysLess ==
    ASSUME TableIsSorted
    PROVE  LookupInit /\ [][LookupNext]_looked => []NearerIsLess
<1>1. LookupInit => LookupInv
  <2> SUFFICES ASSUME LookupInit
               PROVE  LookupInv
    OBVIOUS
  <2>1. looked.volt = 0 /\ looked.dist = SENS_IR_INFINITE /\ looked.before = SENS_IR_INFINITE
    BY DEF LookupInit
  <2>2. Below(0) /\ 0 \in Nat
    <3>1. \A k \in Entries : Volt(k) \in Nat
      BY TableTypes
    <3> QED
      BY <3>1 DEF Below
  <2>3. sensor_dist_lookup(0) = SENS_IR_INFINITE
    BY <2>2, LookupFinds
  <2>4. SENS_IR_INFINITE <= SENS_IR_INFINITE
    BY DEF SENS_IR_INFINITE
  <2> QED
    BY <2>1, <2>2, <2>3, <2>4 DEF LookupInv
<1>2. LookupInv /\ [LookupNext]_looked => LookupInv'
  <2> SUFFICES ASSUME LookupInv, [LookupNext]_looked
               PROVE  LookupInv'
    OBVIOUS
  <2>1. CASE UNCHANGED looked
    BY <2>1 DEF LookupInv
  <2>2. CASE LookupNext
    <3>1. /\ looked'.volt = looked.volt + 1 /\ looked'.dist = sensor_dist_lookup(looked.volt + 1)
          /\ looked'.before = looked.dist
      BY <2>2 DEF LookupNext
    <3>2. looked.volt \in Nat /\ looked.dist = sensor_dist_lookup(looked.volt) /\ looked.volt + 1 \in Nat
      BY DEF LookupInv
    <3>3. sensor_dist_lookup(looked.volt + 1) <= sensor_dist_lookup(looked.volt)
      BY <3>2, MoreIsNearer
    <3> QED
      BY <3>1, <3>2, <3>3 DEF LookupInv
  <2> QED
    BY <2>1, <2>2
<1>3. LookupInv => NearerIsLess
  <2> SUFFICES ASSUME LookupInv
               PROVE  NearerIsLess
    OBVIOUS
  <2>1. ASSUME NEW i \in DOMAIN SENSDIST_DATA, looked.volt = SENSDIST_DATA[i].voltage, i > 1,
               SENSDIST_DATA[i].dist < SENS_IR_MAX_DIST
        PROVE  looked.dist = SENSDIST_DATA[i].dist
    <3>1. i \in Entries
      BY DEF TableIsSorted, Entries
    <3> QED
      BY <2>1, <3>1, EntriesAreMet DEF Volt, Dist, LookupInv
  <2> QED
    BY <2>1 DEF NearerIsLess, LookupInv
<1> QED
  BY <1>1, <1>2, <1>3, PTL

-----------------------------------------------------------------------------
(* The bus.  What a user has still to do is a rest of one of the calls: its  *)
(* transfer has not begun, or has.                                          *)
Transfers == {Begin(t, n) : t \in Nat \ {0}, n \in Nat}

AfterBegin ==
    {<<Wait>>, <<OthersUse, Wait>>} \cup {<<WaitOrEnd, b, Wait>> : b \in Transfers}

Beginning ==
    {<<b, Wait>> : b \in Transfers} \cup {<<b, OthersUse, Wait>> : b \in Transfers}
    \cup {<<b, WaitOrEnd, c, Wait>> : b, c \in Transfers}

Preparing ==
    {<<w, b, Wait>> : w \in {Wait, Reset}, b \in Transfers}
    \cup {<<Reset, b, WaitOrEnd, c, Wait>> : b, c \in Transfers}
    \cup {<<Wait, Reset, b, Wait>> : b \in Transfers}
    \cup {<<Wait, Reset, b, WaitOrEnd, c, Wait>> : b, c \in Transfers}

Unbegun == Preparing \cup Beginning

BusState ==
    [todo : {<<>>} \cup AfterBegin \cup Unbegun, complete : BOOLEAN, error : BOOLEAN,
     txSize : Nat, rxSize : Nat, line : {"off", "start", "address W", "written", "address R", "ack", "nack"},
     asked : [op : {"none", "begin", "refused"}, tx : Nat, rx : Nat],
     sent : Nat, got : Nat, ok : BOOLEAN, missed : BOOLEAN]

(* How far the transfer has come: what is to be sent and received is what    *)
(* was asked for less what has been.                                        *)
UnderWay(r) ==
    /\ r.asked.op = "begin" /\ r.line # "off"
    /\ r.sent + r.txSize = r.asked.tx
    /\ r.line \in {"start", "address W", "written", "address R"} => r.got = 0 /\ r.rxSize = r.asked.rx
    /\ r.line = "address W" => r.txSize > 0
    /\ r.line = "start" => r.txSize > 0 \/ r.rxSize > 0
    /\ r.line \in {"address R", "ack", "nack"} => r.txSize = 0 /\ r.rxSize > 0 /\ r.got + r.rxSize = r.asked.rx
    /\ r.line = "ack" => r.rxSize > 1
    /\ r.line = "nack" => r.rxSize = 1

Whole(r) == r.asked.op = "begin" /\ r.sent = r.asked.tx /\ r.got = r.asked.rx

BusOK(r) ==
    /\ r.complete => r.line = "off"
    /\ r.todo \notin AfterBegin => r.complete
    /\ r.todo \in AfterBegin /\ ~r.complete => UnderWay(r)
    /\ r.todo \in AfterBegin /\ r.complete /\ ~r.error /\ ~r.missed => Whole(r)
    /\ r.todo = <<>> /\ r.ok /\ ~r.missed => Whole(r)
    /\ r.missed => r.todo \in {<<>>, <<Wait>>}

BusInv == bus \in BusState /\ BusOK(bus)

LEMMA Operations ==
    /\ Wait.op = "wait" /\ WaitOrEnd.op = "check" /\ OthersUse.op = "other" /\ Reset.op = "init"
    /\ \A b \in Transfers : b.op = "begin" /\ b.tx \in Nat /\ b.tx > 0 /\ b.rx \in Nat
BY DEF Wait, WaitOrEnd, OthersUse, Reset, Op, Transfers, Begin

LEMMA RestsOfCalls ==
    ASSUME Lengths \subseteq Nat \ {0}
    PROVE  BusCalls \subseteq Unbegun
<1>1. \A t \in {1, 2} \cup Lengths, n \in {0, 1, 2} \cup Lengths : Begin(t, n) \in Transfers
  BY DEF Transfers
<1>2. cmps03 \subseteq Unbegun
  BY <1>1 DEF cmps03, Unbegun, Beginning
<1>3. srf10 \subseteq Unbegun
  BY <1>1 DEF srf10, Unbegun, Beginning
<1>4. sp03 \subseteq Unbegun
  BY <1>1 DEF sp03, Unbegun, Preparing
<1>5. read_reg \subseteq Unbegun
  BY <1>1 DEF read_reg, Unbegun, Preparing
<1>6. write_reg \subseteq Unbegun
  BY <1>1 DEF write_reg, Unbegun, Preparing
<1>7. write_bytes \subseteq Unbegun
  BY <1>1 DEF write_bytes, Unbegun, Preparing
<1> QED
  BY <1>2, <1>3, <1>4, <1>5, <1>6, <1>7 DEF BusCalls

(* The operation that is next, and what is left behind it. *)
LEMMA FirstOfPreparing ==
    ASSUME NEW s \in Preparing
    PROVE  s # <<>> /\ Head(s).op \in {"wait", "init"} /\ Tail(s) \in Unbegun
<1>1. CASE s \in {<<w, b, Wait>> : w \in {Wait, Reset}, b \in Transfers}
  <2>1. PICK w \in {Wait, Reset}, b \in Transfers : s = <<w, b, Wait>>
    BY <1>1
  <2>2. Head(s) = w /\ Tail(s) = <<b, Wait>> /\ s # <<>>
    BY <2>1
  <2> QED
    BY <2>1, <2>2, Operations DEF Unbegun, Beginning
<1>2. CASE s \in {<<Reset, b, WaitOrEnd, c, Wait>> : b, c \in Transfers}
  <2>1. PICK b, c \in Transfers : s = <<Reset, b, WaitOrEnd, c, Wait>>
    BY <1>2
  <2>2. Head(s) = Reset /\ Tail(s) = <<b, WaitOrEnd, c, Wait>> /\ s # <<>>
    BY <2>1
  <2> QED
    BY <2>1, <2>2, Operations DEF Unbegun, Beginning
<1>3. CASE s \in {<<Wait, Reset, b, Wait>> : b \in Transfers}
  <2>1. PICK b \in Transfers : s = <<Wait, Reset, b, Wait>>
    BY <1>3
  <2>2. Head(s) = Wait /\ Tail(s) = <<Reset, b, Wait>> /\ s # <<>>
    BY <2>1
  <2> QED
    BY <2>1, <2>2, Operations DEF Unbegun, Preparing
<1>4. CASE s \in {<<Wait, Reset, b, WaitOrEnd, c, Wait>> : b, c \in Transfers}
  <2>1. PICK b, c \in Transfers : s = <<Wait, Reset, b, WaitOrEnd, c, Wait>>
    BY <1>4
  <2>2. Head(s) = Wait /\ Tail(s) = <<Reset, b, WaitOrEnd, c, Wait>> /\ s # <<>>
    BY <2>1
  <2> QED
    BY <2>1, <2>2, Operations DEF Unbegun, Preparing
<1> QED
  BY <1>1, <1>2, <1>3, <1>4 DEF Preparing

LEMMA FirstOfBeginning ==
    ASSUME NEW s \in Beginning
    PROVE  s # <<>> /\ Head(s) \in Transfers /\ Tail(s) \in AfterBegin
<1>1. CASE s \in {<<b, Wait>> : b \in Transfers}
  <2>1. PICK b \in Transfers : s = <<b, Wait>>
    BY <1>1
  <2>2. Head(s) = b /\ Tail(s) = <<Wait>> /\ s # <<>>
    BY <2>1
  <2> QED
    BY <2>1, <2>2 DEF AfterBegin
<1>2. CASE s \in {<<b, OthersUse, Wait>> : b \in Transfers}
  <2>1. PICK b \in Transfers : s = <<b, OthersUse, Wait>>
    BY <1>2
  <2>2. Head(s) = b /\ Tail(s) = <<OthersUse, Wait>> /\ s # <<>>
    BY <2>1
  <2> QED
    BY <2>1, <2>2 DEF AfterBegin
<1>3. CASE s \in {<<b, WaitOrEnd, c, Wait>> : b, c \in Transfers}
  <2>1. PICK b, c \in Transfers : s = <<b, WaitOrEnd, c, Wait>>
    BY <1>3
  <2>2. Head(s) = b /\ Tail(s) = <<WaitOrEnd, c, Wait>> /\ s # <<>>
    BY <2>1
  <2> QED
    BY <2>1, <2>2 DEF AfterBegin
<1> QED
  BY <1>1, <1>2, <1>3 DEF Beginning

LEMMA FirstOfBegun ==
    ASSUME NEW s \in AfterBegin
    PROVE  /\ s # <<>> /\ Head(s).op \in {"wait", "other", "check"}
           /\ Head(s).op = "wait" => Tail(s) = <<>>
           /\ Head(s).op = "other" => s # <<Wait>> /\ Tail(s) = <<Wait>>
           /\ Head(s).op = "check" => Tail(s) \in Beginning
<1>1. CASE s = <<Wait>>
  <2>1. Head(s) = Wait /\ Tail(s) = <<>> /\ s # <<>>
    BY <1>1
  <2> QED
    BY <2>1, Operations
<1>2. CASE s = <<OthersUse, Wait>>
  <2>1. Head(s) = OthersUse /\ Tail(s) = <<Wait>> /\ s # <<>>
    BY <1>2
  <2> QED
    BY <2>1, Operations DEF AfterBegin
<1>3. CASE s \in {<<WaitOrEnd, b, Wait>> : b \in Transfers}
  <2>1. PICK b \in Transfers : s = <<WaitOrEnd, b, Wait>>
    BY <1>3
  <2>2. Head(s) = WaitOrEnd /\ Tail(s) = <<b, Wait>> /\ s # <<>>
    BY <2>1
  <2> QED
    BY <2>1, <2>2, Operations DEF Beginning
<1> QED
  BY <1>1, <1>2, <1>3 DEF AfterBegin

(* A rest is one or the other: Preparing waits or resets first. *)
LEMMA RestsAreApart ==
    /\ \A s \in Beginning : s \notin AfterBegin /\ s # <<>>
    /\ \A s \in Preparing : s \notin AfterBegin /\ s # <<>>
    /\ <<>> \notin AfterBegin
<1>1. \A s \in Beginning : s \notin AfterBegin /\ s # <<>>
  BY FirstOfBeginning, FirstOfBegun, Operations
<1>2. <<>> \notin AfterBegin
  BY FirstOfBegun
<1>3. ASSUME NEW s \in Preparing, s \in AfterBegin
      PROVE  FALSE
  <2>1. Head(s).op = "wait" /\ Tail(s) = <<>> /\ Tail(s) \in Unbegun
    BY <1>3, FirstOfPreparing, FirstOfBegun
  <2> QED
    BY <2>1, FirstOfPreparing, FirstOfBeginning DEF Unbegun
<1> QED
  BY <1>1, <1>2, <1>3, FirstOfPreparing

-----------------------------------------------------------------------------
(* The steps on the bus. *)
LEMMA BusTypes ==
    ASSUME NEW r \in BusState
    PROVE  /\ r.txSize \in Nat /\ r.rxSize \in Nat /\ r.sent \in Nat /\ r.got \in Nat
           /\ r.asked.tx \in Nat /\ r.asked.rx \in Nat
BY DEF BusState

LEMMA BusFieldsKeepTypes ==
    ASSUME NEW r \in BusState, NEW x \in Nat, NEW y \in Nat,
           NEW l \in {"off", "start", "address W", "written", "address R", "ack", "nack"}, NEW c \in BOOLEAN
    PROVE  /\ [r EXCEPT !.txSize = x, !.sent = y, !.line = l] \in BusState
           /\ [r EXCEPT !.got = x, !.rxSize = y, !.line = l] \in BusState
           /\ [r EXCEPT !.line = l, !.complete = c, !.got = x] \in BusState
<1>1. [r EXCEPT !.txSize = x, !.sent = y, !.line = l] \in BusState
  BY DEF BusState
<1>2. [r EXCEPT !.got = x, !.rxSize = y, !.line = l] \in BusState
  BY DEF BusState
<1>3. [r EXCEPT !.line = l, !.complete = c, !.got = x] \in BusState
  BY DEF BusState
<1> QED
  BY <1>1, <1>2, <1>3

LEMMA CallIsSound ==
    ASSUME Lengths \subseteq Nat \ {0}, BusInv, Call
    PROVE  BusInv'
<1>1. PICK c \in BusCalls : bus' = [bus EXCEPT !.todo = c, !.ok = FALSE, !.missed = FALSE, !.asked = Op("none", 0, 0)]
  BY DEF Call, Put
<1>2. bus.todo = <<>> /\ bus \in BusState /\ BusOK(bus)
  BY DEF Call, BusIsBusy, BusInv
<1>3. c \in Unbegun /\ c # <<>> /\ c \notin AfterBegin
  BY RestsOfCalls, RestsAreApart DEF Unbegun
<1>4. bus' \in BusState
  <2>1. Op("none", 0, 0) \in [op : {"none", "begin", "refused"}, tx : Nat, rx : Nat]
    BY DEF Op
  <2> QED
    BY <1>1, <1>2, <1>3, <2>1 DEF BusState
<1>5. bus'.todo = c /\ bus'.complete = bus.complete /\ bus'.line = bus.line /\ bus'.missed = FALSE
  BY <1>1, <1>2 DEF BusState
<1>6. bus.complete
  BY <1>2, RestsAreApart DEF BusOK
<1> QED
  BY <1>2, <1>3, <1>4, <1>5, <1>6 DEF BusInv, BusOK

LEMMA InitIsSound ==
    ASSUME BusInv, i2c_init
    PROVE  BusInv'
<1>1. bus' = [bus EXCEPT !.todo = Tail(@), !.line = "off", !.error = FALSE, !.complete = TRUE]
  BY DEF i2c_init, Put, Later
<1>2. bus.todo # <<>> /\ Head(bus.todo).op = "init" /\ bus \in BusState /\ BusOK(bus)
  BY DEF i2c_init, IsDue, BusIsBusy, BusInv
<1>3. bus.todo \in Preparing
  BY <1>2, FirstOfBegun, FirstOfBeginning, Operations DEF BusState, Unbegun
<1>4. Tail(bus.todo) \in Unbegun /\ Tail(bus.todo) \notin AfterBegin /\ Tail(bus.todo) # <<>>
  BY <1>3, FirstOfPreparing, RestsAreApart DEF Unbegun
<1>5. bus' \in BusState
  BY <1>1, <1>2, <1>4 DEF BusState
<1>6. bus'.todo = Tail(bus.todo) /\ bus'.complete /\ bus'.line = "off" /\ bus'.missed = bus.missed
  BY <1>1, <1>2 DEF BusState
<1>7. ~bus.missed
  BY <1>2, <1>3, RestsAreApart DEF BusOK, AfterBegin
<1> QED
  BY <1>4, <1>5, <1>6, <1>7 DEF BusInv, BusOK

LEMMA BeginIsSound ==
    ASSUME BusInv, i2c_write_read
    PROVE  BusInv'
<1> DEFINE a == Head(bus.todo)
<1>1. bus.todo # <<>> /\ a.op = "begin" /\ bus \in BusState /\ BusOK(bus)
  BY DEF i2c_write_read, IsDue, BusIsBusy, BusInv
<1>2. bus.todo \in Beginning
  BY <1>1, FirstOfBegun, FirstOfPreparing DEF BusState, Unbegun
<1>3. a \in Transfers /\ Tail(bus.todo) \in AfterBegin /\ Tail(bus.todo) # <<>>
  BY <1>2, FirstOfBeginning, RestsAreApart
<1>4. bus.complete
  BY <1>1, <1>2, RestsAreApart DEF BusOK
<1>5. bus' = [bus EXCEPT !.todo = Tail(@), !.ok = FALSE, !.complete = FALSE, !.error = FALSE, !.txSize = a.tx,
                         !.rxSize = a.rx, !.line = "start", !.asked = a, !.sent = 0, !.got = 0]
  BY <1>1, <1>4 DEF i2c_write_read, Put, Later, BusState
<1>6. a \in [op : {"none", "begin", "refused"}, tx : Nat, rx : Nat] /\ a.tx > 0
  BY <1>3 DEF Transfers, Begin, Op
<1> HIDE DEF a
<1>7. bus' \in BusState
  BY <1>1, <1>3, <1>5, <1>6 DEF BusState
<1>8. /\ bus'.todo = Tail(bus.todo) /\ ~bus'.complete /\ bus'.line = "start" /\ bus'.asked = a
      /\ bus'.sent = 0 /\ bus'.got = 0 /\ bus'.txSize = a.tx /\ bus'.rxSize = a.rx /\ bus'.missed = bus.missed
  BY <1>1, <1>5 DEF BusState
<1>9. UnderWay(bus')
  BY <1>1, <1>6, <1>8 DEF UnderWay
<1>10. ~bus.missed
  BY <1>1, <1>2, RestsAreApart DEF BusOK, AfterBegin
<1> QED
  BY <1>3, <1>7, <1>8, <1>9, <1>10 DEF BusInv, BusOK

(* What stays the same for the user while the interrupt works. *)
SameUser(q, r) == q.todo = r.todo /\ q.asked = r.asked /\ q.ok = r.ok /\ q.missed = r.missed

LEMMA BusSteps ==
    ASSUME BusInv, SameUser(bus', bus), ~bus.complete, bus' \in BusState,
           bus'.complete => bus'.line = "off" /\ (~bus'.error => Whole(bus')),
           ~bus'.complete => UnderWay(bus')
    PROVE  BusInv'
BY RestsAreApart DEF BusInv, BusOK, SameUser

LEMMA InterruptIsSound ==
    ASSUME BusInv, TWI_vect
    PROVE  BusInv'
<1>1. bus \in BusState /\ BusOK(bus) /\ bus.line # "off"
  BY DEF TWI_vect, Started, Written, ReadAddressed, DataReceived, BusError, BusInv
<1>2. ~bus.complete /\ UnderWay(bus)
  BY <1>1 DEF BusOK
<1>3. CASE BusError
  <2>1. bus' = [bus EXCEPT !.line = "off", !.complete = TRUE, !.error = TRUE]
    BY <1>1, <1>3 DEF BusError, Stops, Put, BusState
  <2>2. /\ bus' \in BusState /\ SameUser(bus', bus) /\ bus'.complete /\ bus'.error /\ bus'.line = "off"
    BY <1>1, <2>1 DEF BusState, SameUser
  <2> QED
    BY <1>2, <2>2, BusSteps
<1>4. CASE Started
  <2>1. bus.line = "start" /\ bus' = [bus EXCEPT !.line = IF bus.txSize > 0 THEN "address W" ELSE "address R"]
    BY <1>4 DEF Started, Put
  <2>2. /\ bus' \in BusState /\ SameUser(bus', bus) /\ bus'.complete = bus.complete
        /\ bus'.line = (IF bus.txSize > 0 THEN "address W" ELSE "address R")
        /\ bus'.txSize = bus.txSize /\ bus'.rxSize = bus.rxSize /\ bus'.sent = bus.sent /\ bus'.got = bus.got
    BY <1>1, <2>1 DEF BusState, SameUser
  <2>3. bus.txSize \in Nat /\ bus.rxSize \in Nat /\ bus.asked.rx \in Nat
    BY <1>1, BusTypes
  <2>4. UnderWay(bus')
    <3>1. /\ bus.asked.op = "begin" /\ bus.sent + bus.txSize = bus.asked.tx /\ (bus.txSize > 0 \/ bus.rxSize > 0)
          /\ bus.got = 0 /\ bus.rxSize = bus.asked.rx
      BY <1>2, <2>1 DEF UnderWay
    <3>2. CASE bus.txSize > 0
      BY <2>2, <2>3, <3>1, <3>2 DEF UnderWay, SameUser
    <3>3. CASE ~(bus.txSize > 0)
      <4>1. bus.txSize = 0 /\ bus.rxSize > 0 /\ bus.got + bus.rxSize = bus.asked.rx
        BY <2>3, <3>1, <3>3
      <4>2. bus'.line = "address R" /\ bus'.txSize = 0
        BY <2>2, <3>3, <4>1
      <4> QED
        BY <2>2, <3>1, <4>1, <4>2 DEF UnderWay, SameUser
    <3> QED
      BY <3>2, <3>3
  <2> QED
    BY <1>2, <2>2, <2>4, BusSteps
<1>5. CASE Written
  <2>1. CASE bus' = Sends /\ bus.txSize > 0 /\ bus.line \in {"address W", "written"}
    <3>1. bus' = [bus EXCEPT !.txSize = @ - 1, !.sent = @ + 1, !.line = "written"]
      BY <2>1 DEF Sends
    <3>2. bus.txSize \in Nat /\ bus.sent \in Nat /\ bus.txSize - 1 \in Nat /\ bus.asked.tx \in Nat
      <4>1. bus.txSize > 0
        BY <2>1
      <4> QED
        BY <1>1, <4>1, BusTypes
    <3>3. bus' \in BusState
      <4> DEFINE n == bus.txSize - 1  m == bus.sent + 1
      <4>1. n \in Nat /\ m \in Nat /\ bus' = [bus EXCEPT !.txSize = n, !.sent = m, !.line = "written"]
        BY <3>1, <3>2
      <4> HIDE DEF n, m
      <4> QED
        BY <1>1, <4>1, BusFieldsKeepTypes
    <3>4. /\ SameUser(bus', bus) /\ bus'.complete = bus.complete
          /\ bus'.line = "written" /\ bus'.txSize = bus.txSize - 1 /\ bus'.rxSize = bus.rxSize
          /\ bus'.sent = bus.sent + 1 /\ bus'.got = bus.got
      BY <1>1, <3>1 DEF BusState, SameUser
    <3>5. UnderWay(bus')
      <4>1. bus.asked.op = "begin" /\ bus.sent + bus.txSize = bus.asked.tx /\ bus.got = 0 /\ bus.rxSize = bus.asked.rx
        BY <1>2, <2>1 DEF UnderWay
      <4> QED
        BY <3>2, <3>4, <4>1 DEF UnderWay, SameUser
    <3> QED
      BY <1>2, <3>3, <3>4, <3>5, BusSteps
  <2>2. CASE bus.line = "written" /\ ~(bus.txSize > 0) /\ bus.rxSize = 0 /\ bus' = Stops
    <3>1. bus' = [bus EXCEPT !.line = "off", !.complete = TRUE]
      BY <2>2 DEF Stops
    <3>2. /\ bus' \in BusState /\ SameUser(bus', bus) /\ bus'.complete /\ bus'.line = "off"
          /\ bus'.sent = bus.sent /\ bus'.got = bus.got
      BY <1>1, <3>1 DEF BusState, SameUser
    <3>3. bus.txSize \in Nat /\ bus.sent \in Nat
      BY <1>1 DEF BusState
    <3>4. Whole(bus')
      BY <1>2, <2>2, <3>2, <3>3 DEF UnderWay, Whole, SameUser
    <3> QED
      BY <1>2, <3>2, <3>4, BusSteps
  <2>3. CASE bus.line = "written" /\ ~(bus.txSize > 0) /\ bus.rxSize # 0 /\ bus' = [bus EXCEPT !.line = "start"]
    <3>1. /\ bus' \in BusState /\ SameUser(bus', bus) /\ bus'.complete = bus.complete /\ bus'.line = "start"
          /\ bus'.txSize = bus.txSize /\ bus'.rxSize = bus.rxSize /\ bus'.sent = bus.sent /\ bus'.got = bus.got
      BY <1>1, <2>3 DEF BusState, SameUser
    <3>2. bus.rxSize \in Nat
      BY <1>1 DEF BusState
    <3>3. UnderWay(bus')
      BY <1>2, <2>3, <3>1, <3>2 DEF UnderWay, SameUser
    <3> QED
      BY <1>2, <3>1, <3>3, BusSteps
  <2>4. bus.line = "address W" => bus.txSize > 0
    BY <1>2 DEF UnderWay
  <2> QED
    BY <1>5, <2>1, <2>2, <2>3, <2>4 DEF Written, Put
<1>6. CASE ReadAddressed
  <2>1. bus.line = "address R" /\ bus' = [bus EXCEPT !.line = IF bus.rxSize > 1 THEN "ack" ELSE "nack"]
    BY <1>6 DEF ReadAddressed, Put
  <2>2. /\ bus' \in BusState /\ SameUser(bus', bus) /\ bus'.complete = bus.complete
        /\ bus'.line = (IF bus.rxSize > 1 THEN "ack" ELSE "nack")
        /\ bus'.txSize = bus.txSize /\ bus'.rxSize = bus.rxSize /\ bus'.sent = bus.sent /\ bus'.got = bus.got
    BY <1>1, <2>1 DEF BusState, SameUser
  <2>3. bus.rxSize \in Nat
    BY <1>1 DEF BusState
  <2>4. UnderWay(bus')
    <3>1. /\ bus.asked.op = "begin" /\ bus.sent + bus.txSize = bus.asked.tx /\ bus.txSize = 0 /\ bus.rxSize > 0
          /\ bus.got + bus.rxSize = bus.asked.rx
      BY <1>2, <2>1 DEF UnderWay
    <3> QED
      BY <2>2, <2>3, <3>1 DEF UnderWay, SameUser
  <2> QED
    BY <1>2, <2>2, <2>4, BusSteps
<1>7. CASE DataReceived
  <2>1. CASE bus.line = "nack"
    <3>1. bus' = [bus EXCEPT !.line = "off", !.complete = TRUE, !.got = @ + 1]
      BY <1>1, <1>7, <2>1 DEF DataReceived, Stops, Put, BusState
    <3>2. bus.txSize \in Nat /\ bus.sent \in Nat /\ bus.got \in Nat
      BY <1>1, BusTypes
    <3>3. bus' \in BusState
      <4> DEFINE n == bus.got + 1
      <4>1. n \in Nat /\ bus' = [bus EXCEPT !.line = "off", !.complete = TRUE, !.got = n]
        BY <3>1, <3>2
      <4> HIDE DEF n
      <4> QED
        BY <1>1, <4>1, BusFieldsKeepTypes
    <3>4. /\ SameUser(bus', bus) /\ bus'.complete /\ bus'.line = "off"
          /\ bus'.sent = bus.sent /\ bus'.got = bus.got + 1
      BY <1>1, <3>1 DEF BusState, SameUser
    <3>5. Whole(bus')
      BY <1>2, <2>1, <3>2, <3>4 DEF UnderWay, Whole, SameUser
    <3> QED
      BY <1>2, <3>3, <3>4, <3>5, BusSteps
  <2>2. CASE bus.line = "ack"
    <3>1. bus' = [bus EXCEPT !.got = @ + 1, !.rxSize = @ - 1, !.line = IF bus.rxSize - 1 > 1 THEN "ack" ELSE "nack"]
      BY <1>1, <1>7, <2>2 DEF DataReceived, Stores, Put, BusState
    <3>2. bus.rxSize > 1
      BY <1>2, <2>2 DEF UnderWay
    <3>3. bus.rxSize \in Nat /\ bus.got \in Nat /\ bus.rxSize - 1 \in Nat /\ bus.asked.rx \in Nat
      BY <1>1, <3>2, BusTypes
    <3>4. bus' \in BusState
      <4> DEFINE n == bus.got + 1  m == bus.rxSize - 1  l == IF bus.rxSize - 1 > 1 THEN "ack" ELSE "nack"
      <4>1. n \in Nat /\ m \in Nat /\ l \in {"ack", "nack"}
        BY <3>3
      <4>2. bus' = [bus EXCEPT !.got = n, !.rxSize = m, !.line = l]
        BY <3>1
      <4> HIDE DEF n, m, l
      <4> QED
        BY <1>1, <4>1, <4>2, BusFieldsKeepTypes
    <3>5. /\ SameUser(bus', bus) /\ bus'.complete = bus.complete
          /\ bus'.line = (IF bus.rxSize - 1 > 1 THEN "ack" ELSE "nack")
          /\ bus'.txSize = bus.txSize /\ bus'.rxSize = bus.rxSize - 1 /\ bus'.sent = bus.sent /\ bus'.got = bus.got + 1
      BY <1>1, <3>1 DEF BusState, SameUser
    <3>6. UnderWay(bus')
      <4>1. /\ bus.asked.op = "begin" /\ bus.sent + bus.txSize = bus.asked.tx /\ bus.txSize = 0
            /\ bus.got + bus.rxSize = bus.asked.rx
        BY <1>2, <2>2 DEF UnderWay
      <4> QED
        BY <3>2, <3>3, <3>5, <4>1 DEF UnderWay, SameUser
    <3> QED
      BY <1>2, <3>4, <3>5, <3>6, BusSteps
  <2> QED
    BY <1>7, <2>1, <2>2 DEF DataReceived
<1> QED
  BY <1>3, <1>4, <1>5, <1>6, <1>7 DEF TWI_vect

LEMMA WaitsLeave ==
    ASSUME NEW s \in AfterBegin \cup Unbegun, Head(s).op \in {"wait", "check"}
    PROVE  \/ Head(s).op = "wait" /\ Tail(s) = <<>> /\ s \in AfterBegin
           \/ Head(s).op = "check" /\ Tail(s) \in Beginning /\ s \in AfterBegin /\ s \notin {<<>>, <<Wait>>}
           \/ Head(s).op = "wait" /\ Tail(s) \in Unbegun /\ s \in Unbegun /\ s \notin {<<>>, <<Wait>>}
<1>1. CASE s \in AfterBegin
  <2>1. Head(<<Wait>>).op = "wait"
    BY Operations
  <2> QED
    BY <1>1, <2>1, FirstOfBegun
<1>2. CASE s \in Preparing
  <2>1. s \notin {<<>>, <<Wait>>}
    BY <1>2, RestsAreApart DEF AfterBegin
  <2> QED
    BY <1>2, <2>1, FirstOfPreparing DEF Unbegun
<1>3. CASE s \in Beginning
  BY <1>3, FirstOfBeginning, Operations
<1> QED
  BY <1>1, <1>2, <1>3 DEF Unbegun

LEMMA WaitIsSound ==
    ASSUME BusInv, i2c_wait \/ WaitTimesOut \/ shift_data_out
    PROVE  BusInv'
<1>1. bus \in BusState /\ BusOK(bus) /\ bus.todo # <<>> /\ bus.todo \in AfterBegin \cup Unbegun
  BY DEF i2c_wait, WaitTimesOut, shift_data_out, Waits, IsDue, BusIsBusy, BusInv, BusState
<1> DEFINE op == Head(bus.todo).op  rest == Tail(bus.todo)
<1>2. CASE shift_data_out
  <2>1. op = "other" /\ bus' = [bus EXCEPT !.todo = rest, !.complete = TRUE, !.missed = ~bus.complete,
                                           !.line = IF bus.complete THEN @ ELSE "off"]
    BY <1>2 DEF shift_data_out, IsDue, Put, Later
  <2>2. bus.todo \in AfterBegin
    BY <1>1, <2>1, FirstOfBeginning, FirstOfPreparing, Operations DEF Unbegun
  <2>3. rest = <<Wait>> /\ rest \in AfterBegin /\ rest # <<>> /\ ~bus.missed
    <3>1. bus.todo # <<Wait>> /\ rest = <<Wait>>
      BY <2>1, <2>2, FirstOfBegun
    <3> QED
      BY <1>1, <3>1, RestsAreApart DEF BusOK, AfterBegin
  <2> HIDE DEF op, rest
  <2>4. bus' \in BusState
    BY <1>1, <2>1, <2>3 DEF BusState
  <2>5. /\ bus'.todo = rest /\ bus'.complete /\ bus'.missed = ~bus.complete /\ bus'.error = bus.error
        /\ bus'.line = (IF bus.complete THEN bus.line ELSE "off")
        /\ bus'.asked = bus.asked /\ bus'.sent = bus.sent /\ bus'.got = bus.got
    BY <1>1, <2>1 DEF BusState
  <2>6. ASSUME bus.complete, ~bus.error
        PROVE  Whole(bus)
    BY <1>1, <2>2, <2>3, <2>6 DEF BusOK
  <2> QED
    BY <1>1, <2>2, <2>3, <2>4, <2>5, <2>6 DEF BusInv, BusOK, Whole
<1>3. CASE i2c_wait
  <2>1. /\ op \in {"wait", "check"} /\ bus.complete
        /\ bus' = [bus EXCEPT !.todo = IF op = "check" /\ bus.error THEN <<>> ELSE rest, !.ok = ~bus.error]
    BY <1>1, <1>3 DEF i2c_wait, Waits, Told, IsDue, BusIsBusy, Put, Later, BusState
  <2>2. \/ op = "wait" /\ rest = <<>> /\ bus.todo \in AfterBegin
        \/ op = "check" /\ rest \in Beginning /\ bus.todo \in AfterBegin /\ ~bus.missed
        \/ op = "wait" /\ rest \in Unbegun /\ bus.todo \in Unbegun /\ ~bus.missed
    BY <1>1, <2>1, WaitsLeave DEF BusOK
  <2> HIDE DEF op, rest
  <2>3. rest \in {<<>>} \cup AfterBegin \cup Unbegun
    BY <2>2 DEF Unbegun
  <2>4. bus' \in BusState
    BY <1>1, <2>1, <2>3 DEF BusState
  <2>5. /\ bus'.todo = (IF op = "check" /\ bus.error THEN <<>> ELSE rest) /\ bus'.ok = ~bus.error
        /\ bus'.complete = bus.complete /\ bus'.line = bus.line /\ bus'.error = bus.error /\ bus'.missed = bus.missed
        /\ bus'.asked = bus.asked /\ bus'.sent = bus.sent /\ bus'.got = bus.got
    BY <1>1, <2>1 DEF BusState
  <2>6. bus.line = "off" /\ bus'.todo \notin AfterBegin
    BY <1>1, <2>1, <2>2, <2>5, RestsAreApart DEF BusOK, Unbegun
  <2>7. CASE bus'.todo = <<>>
    <3>1. bus'.ok /\ ~bus'.missed => Whole(bus)
      BY <1>1, <2>1, <2>2, <2>5, <2>7, RestsAreApart DEF BusOK, Unbegun
    <3> QED
      BY <2>1, <2>4, <2>5, <2>6, <2>7, <3>1 DEF BusInv, BusOK, Whole
  <2>8. CASE bus'.todo # <<>>
    <3>1. ~bus.missed
      BY <2>2, <2>5, <2>8
    <3> QED
      BY <2>1, <2>4, <2>5, <2>6, <2>8, <3>1 DEF BusInv, BusOK
  <2> QED
    BY <2>7, <2>8
<1>4. CASE WaitTimesOut
  <2>1. /\ op \in {"wait", "check"} /\ ~bus.complete
        /\ bus' = [bus EXCEPT !.todo = IF op = "check" THEN <<>> ELSE rest, !.ok = FALSE,
                              !.complete = TRUE, !.line = "off"]
    BY <1>1, <1>4 DEF WaitTimesOut, Waits, Told, IsDue, BusIsBusy, Put, Later, BusState
  <2>2. op = "wait" => rest = <<>>
    BY <1>1, <2>1, WaitsLeave, RestsAreApart DEF BusOK, Unbegun
  <2> HIDE DEF op, rest
  <2>3. bus' = [bus EXCEPT !.todo = <<>>, !.ok = FALSE, !.complete = TRUE, !.line = "off"]
    BY <2>1, <2>2
  <2>4. bus' \in BusState
    BY <1>1, <2>3 DEF BusState
  <2>5. bus'.todo = <<>> /\ ~bus'.ok /\ bus'.complete /\ bus'.line = "off"
    BY <1>1, <2>3 DEF BusState
  <2> QED
    BY <2>4, <2>5, RestsAreApart DEF BusInv, BusOK
<1> QED
  BY <1>2, <1>3, <1>4

THEOREM TheBusServes ==
    ASSUME Lengths \subseteq Nat \ {0}
    PROVE  BusInit /\ [][BusNext]_bus => [](SuccessIsWhole /\ BusIsLeft)
<1>1. BusInit => BusInv
  <2> SUFFICES ASSUME BusInit
               PROVE  BusInv
    OBVIOUS
  <2>1. bus \in BusState
    BY DEF BusInit, BusState, Op
  <2>2. bus.todo = <<>> /\ bus.complete /\ bus.line = "off" /\ ~bus.ok
    BY DEF BusInit
  <2> QED
    BY <2>1, <2>2, RestsAreApart DEF BusInv, BusOK
<1>2. BusInv /\ [BusNext]_bus => BusInv'
  <2> SUFFICES ASSUME BusInv, [BusNext]_bus
               PROVE  BusInv'
    OBVIOUS
  <2>1. CASE UNCHANGED bus
    BY <2>1 DEF BusInv, BusOK, UnderWay, Whole
  <2>2. CASE BusNext
    BY <2>2, CallIsSound, InitIsSound, BeginIsSound, InterruptIsSound, WaitIsSound DEF BusNext
  <2> QED
    BY <2>1, <2>2
<1>3. BusInv => SuccessIsWhole /\ BusIsLeft
  BY RestsAreApart DEF BusInv, BusOK, Whole, BusState, SuccessIsWhole, BusIsLeft, BusIsBusy
<1> QED
  BY <1>1, <1>2, <1>3, PTL

-----------------------------------------------------------------------------
(* All sensors together: with conversions that do not end between the two     *)
(* halves of adc_read_int, wheels that turn less than half a counter between  *)
(* two rounds and a sorted table, what the sensors tell is true.             *)
THEOREM TheSensorsAreTrue ==
    ASSUME ~TORN, ENC_HALF \in Nat \ {0}, MAX_EDGES \in Nat, MAX_EDGES < ENC_HALF, TableIsSorted, Lengths \subseteq Nat \ {0}
    PROVE  SensorsSpec => []SensorsAreTrue
<1>1. RoundInit /\ [][RoundNext]_sn => []ValuesAreFresh
  BY RoundsAreFresh
<1>2. OdometryInit /\ [][OdometryNext]_odo => []NoEdgeIsLost
  BY EdgesBecomeWays
<1>3. LookupInit /\ [][LookupNext]_looked => []NearerIsLess
  BY NearerIsAlwaysLess
<1>4. BusInit /\ [][BusNext]_bus => [](SuccessIsWhole /\ BusIsLeft)
  BY TheBusServes
<1> QED
  BY <1>1, <1>2, <1>3, <1>4, PTL DEF SensorsSpec, SensorsAreTrue
=============================================================================
