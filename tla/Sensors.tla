--------------------------------- MODULE Sensors ---------------------------------
(***************************************************************************)
(* The sensors (mcu/sensor-low.c, sensor.c).  One round of the main loop     *)
(* queues the analog sensors for the interrupt of the converter (mcu/adc.c)  *)
(* and uses their values as they come (RoundNext).  Edges of the wheels are   *)
(* counted by an interrupt and turned into a way by sensor_update            *)
(* (OdometryNext).  A voltage becomes a distance by a table (LookupNext).     *)
(* Compass and ultrasonic sensor are on the I2C bus (BusNext).               *)
(***************************************************************************)
EXTENDS Integers, Sequences

CONSTANTS
    TORN,               \* may a conversion end between test and store of adc_read_int?
    ENC_HALF,           \* half the range of an encoder counter: 2^15 in the code
    MAX_EDGES,          \* edges of a wheel between two rounds
    MAX_VOLT,
    SENSDIST_DATA,      \* the table: voltages with the distances they stand for
    Lengths             \* bytes of a transfer on the bus

VARIABLES
    sn,         \* the analog sensors
    odo,        \* the encoders
    looked,     \* what was looked up in the table
    bus

Sensor == {"distL", "distR", "line", "border"}
CHANNELS == 4           \* one place for each sensor: 8 in the code
IDLE == 255

Set(r) == sn' = r
RoundAt(pc) == sn.pc = pc

RoundInit ==
    sn = [pc |-> "begin", due |-> FALSE, servo |-> FALSE, todo |-> <<>>,
          next |-> 0, act |-> IDLE, mux |-> "distL",
          channels |-> [i \in 0 .. CHANNELS - 1 |-> [value |-> "null", channel |-> "distL"]],
          fresh |-> {},         \* sensors that were measured in this round
          used |-> {},          \* of these, those whose value was used up
          wild |-> FALSE]       \* a sample went to no sensor or to another one

-----------------------------------------------------------------------------
(* bot_sens: the distance sensors are due now and then, the right one only   *)
(* while the door before it does not move.                                  *)
bot_sens ==
    /\ RoundAt("begin")
    /\ \E due, servo \in BOOLEAN :
          Set([sn EXCEPT !.pc = "queue", !.due = due, !.servo = servo, !.fresh = {}, !.used = {},
                         !.todo = (IF due THEN <<"distL">> ELSE <<>>)
                                  \o (IF due /\ ~servo THEN <<"distR">> ELSE <<>>)
                                  \o <<"line", "border">>])

(* adc_read_int, up to the first test and behind it. *)
ReadTest ==
    /\ RoundAt("queue") /\ sn.todo # <<>>
    /\ Set([sn EXCEPT !.pc = "store", !.next = IF sn.act = IDLE THEN 0 ELSE @])

adc_read_int ==
    /\ RoundAt("store")
    /\ LET s == Head(sn.todo)
           queued == [sn EXCEPT !.pc = "queue", !.todo = Tail(@), !.next = @ + 1,
                                !.channels[sn.next] = [value |-> s, channel |-> s]]
       IN  Set(IF sn.next >= CHANNELS THEN [sn EXCEPT !.pc = "queue", !.todo = Tail(@)]
               ELSE IF sn.act = IDLE THEN [queued EXCEPT !.act = 0, !.mux = s]
               ELSE queued)

(* The interrupt at the end of a conversion. *)
ADC_vect ==
    /\ sn.act # IDLE
    /\ RoundAt("store") => TORN
    /\ LET v == sn.channels[sn.act].value
           n == sn.act + 1
           more == n < CHANNELS /\ sn.channels[n].value # "null"
       IN  Set([sn EXCEPT !.fresh = @ \cup ({v} \ {"null"}),
                          !.wild = @ \/ v # sn.mux,
                          !.channels[sn.act].value = "null",
                          !.act = IF more THEN n ELSE IDLE,
                          !.mux = IF more THEN sn.channels[n].channel ELSE @])

(* The values are waited for and used one by one.                           *)
Queued == RoundAt("queue") /\ sn.todo = <<>> /\ Set([sn EXCEPT !.pc = IF sn.due THEN "left" ELSE "rest"])

UseLeft ==
    /\ RoundAt("left") /\ ~(sn.act < 1)
    /\ Set([sn EXCEPT !.used = @ \cup {"distL"}, !.pc = IF sn.servo THEN "rest" ELSE "right"])

(* Mutant of UseRight: it waits for the first conversion only. *)
UseRightEarly ==
    /\ RoundAt("right") /\ ~(sn.act < 1)
    /\ Set([sn EXCEPT !.used = @ \cup {"distR"}, !.pc = "rest"])

UseRight ==
    /\ RoundAt("right") /\ ~(sn.act < 2)
    /\ Set([sn EXCEPT !.used = @ \cup {"distR"}, !.pc = "rest"])

UseRest ==
    /\ RoundAt("rest") /\ sn.act = IDLE
    /\ Set([sn EXCEPT !.used = @ \cup {"line", "border"}, !.pc = "begin"])

RoundNext == bot_sens \/ ReadTest \/ adc_read_int \/ ADC_vect \/ Queued \/ UseLeft \/ UseRight \/ UseRest

-----------------------------------------------------------------------------
(* bot_encoder_isr counts the edges of a wheel, up or down; a counter wraps.  *)
Wrap(n) == ((n + ENC_HALF) % (2 * ENC_HALF)) - ENC_HALF

Counts(r) == odo' = r
UpdateAt(pc) == odo.pc = pc

OdometryInit ==
    odo = [pc |-> "idle", sensEnc |-> 0, lastEnc |-> 0, lastEnc1 |-> 0, seen |-> 0,
          way |-> 0,        \* edges that have become a way since the beginning, less
          \* all edges: what the robot believes less what it has driven
          speed |-> 0,      \* edges of the last half second, by the code and in truth
          truth |-> 0,
          since |-> 0,      \* edges since the last speed
          late |-> 0,       \* edges since the last snapshot
          edges |-> 0]      \* and their number

Edge ==
    /\ odo.edges < MAX_EDGES
    /\ \E d \in {1, -1} :
          /\ Wrap(odo.since + d) = odo.since + d      \* less than half the range in half a second
          /\ Counts([odo EXCEPT !.sensEnc = Wrap(@ + d), !.way = @ - d, !.since = @ + d,
                            !.late = @ + d, !.edges = @ + 1])

(* The counters are copied with interrupts switched off. *)
Snapshot ==
    /\ UpdateAt("idle")
    /\ Counts([odo EXCEPT !.pc = "way", !.seen = odo.sensEnc, !.late = 0, !.edges = 0])

sensor_update ==
    /\ UpdateAt("way")
    /\ LET diffEnc == Wrap(odo.seen - odo.lastEnc)
       IN  Counts([odo EXCEPT !.way = @ + diffEnc, !.lastEnc = odo.seen, !.pc = "speed"])

(* Mutant of UpdateSpeed: it takes the counter anew. *)
SpeedCountsAnew ==
    /\ UpdateAt("speed")
    /\ \/ Counts([odo EXCEPT !.pc = "idle"])
       \/ Counts([odo EXCEPT !.pc = "idle", !.speed = Wrap(odo.seen - odo.lastEnc1), !.lastEnc1 = odo.sensEnc,
                         !.truth = odo.since - odo.late, !.since = odo.late])

(* Twice a second the edges since the last time give the speed. *)
UpdateSpeed ==
    /\ UpdateAt("speed")
    /\ \/ Counts([odo EXCEPT !.pc = "idle"])
       \/ Counts([odo EXCEPT !.pc = "idle", !.speed = Wrap(odo.seen - odo.lastEnc1), !.lastEnc1 = odo.seen,
                         !.truth = odo.since - odo.late, !.since = odo.late])

OdometryNext == Edge \/ Snapshot \/ sensor_update \/ UpdateSpeed

-----------------------------------------------------------------------------
(* sensor_dist_lookup: the half of the table is chosen first.                *)
SENS_IR_MIN_DIST == 100
SENS_IR_MAX_DIST == 690
SENS_IR_INFINITE == 9999

lin_interpolate(x1, y1, x2, y2, xs) ==
    IF x1 = x2 THEN 65535
    ELSE LET m == (((y2 - y1) * 256) % 65536) \div (x1 - x2)
         IN  ((((x1 - xs) * m) % 65536) \div 256) + y1

sensor_dist_lookup(volt) ==
    LET table == SENSDIST_DATA
        half == Len(table) \div 2
        above == volt > table[half].voltage
        region == IF above THEN 1 .. half ELSE half + 1 .. Len(table)
        lower == {i \in region : volt > table[i].voltage}
        i == CHOOSE j \in lower : \A k \in lower : j <= k
        d == lin_interpolate(table[i - 1].voltage, table[i - 1].dist, table[i].voltage, table[i].dist, volt)
    IN  IF lower = {} THEN SENS_IR_INFINITE
        ELSE IF i = 1 THEN SENS_IR_MIN_DIST
        ELSE IF d >= SENS_IR_MAX_DIST THEN SENS_IR_INFINITE ELSE d

LookupInit == looked = [volt |-> 0, dist |-> SENS_IR_INFINITE, before |-> SENS_IR_INFINITE]

LookupNext ==
    /\ looked.volt < MAX_VOLT
    /\ looked' = [volt |-> looked.volt + 1, dist |-> sensor_dist_lookup(looked.volt + 1), before |-> looked.dist]

-----------------------------------------------------------------------------
RoundTypeOK ==
    /\ sn.fresh \subseteq Sensor /\ sn.used \subseteq Sensor
    /\ sn.act \in 0 .. CHANNELS - 1 \cup {IDLE} /\ sn.next \in 0 .. CHANNELS

OdometryTypeOK == odo.sensEnc \in -ENC_HALF .. ENC_HALF - 1 /\ odo.lastEnc \in -ENC_HALF .. ENC_HALF - 1

(* adc.c, sensor-low.c:356-374: a value that is used was measured in the      *)
(* same round, at its own pin, however far the interrupt has come with the    *)
(* queue meanwhile.                                                         *)
ValuesAreFresh == sn.used \subseteq sn.fresh /\ ~sn.wild

(* sensor.c:300-330: no edge is lost or counted twice on the way from the     *)
(* interrupt's counter to the position and the speed, wherever edges come    *)
(* between the steps and though the counter wraps.                          *)
NoEdgeIsLost ==
    /\ UpdateAt("idle") => odo.way = -odo.late
    /\ odo.speed = odo.truth

(* sensor.c:148-210: the nearer an obstacle the higher the voltage, so more   *)
(* voltage never gives more distance, across the halves of the table and     *)
(* though all arithmetic is done in 16 bits.                                *)
NearerIsLess ==
    /\ looked.dist <= looked.before
    /\ \A i \in DOMAIN SENSDIST_DATA :
          looked.volt = SENSDIST_DATA[i].voltage /\ i > 1 /\ SENSDIST_DATA[i].dist < SENS_IR_MAX_DIST
          => looked.dist = SENSDIST_DATA[i].dist
-----------------------------------------------------------------------------
(* The I2C bus (mcu/i2c.c) and who uses it: compass, ultrasonic sensor,       *)
(* speech module, the wrapper for other devices, and the shift registers,    *)
(* which share its pins.  A transfer is driven by an interrupt; the devices  *)
(* may fail at any byte or never answer.                                    *)
Put(r) == bus' = r

(* What the users ask of the driver, step by step.                          *)
Op(op, tx, rx) == [op |-> op, tx |-> tx, rx |-> rx]
Wait == Op("wait", 0, 0)
WaitOrEnd == Op("check", 0, 0)  \* an error ends the call
Begin(tx, rx) == Op("begin", tx, rx)
OthersUse == Op("other", 0, 0)      \* shift_data waits for the bus, then uses its pins
Reset == Op("init", 0, 0)

cmps03 == {<<Begin(1, 2), Wait>>, <<Begin(1, 2), OthersUse, Wait>>}
srf10 == {<<Begin(2, 0), Wait>>, <<Begin(1, 1), Wait>>}
sp03 == {<<Wait, Begin(n, 0), Wait>> : n \in Lengths} \cup {<<Wait, Begin(1, 1), Wait>>}
read_reg == {<<Wait, Reset, Begin(t, n), Wait>> : t \in {1, 2}, n \in Lengths}
write_reg == {<<Wait, Reset, Begin(n, 0), Wait>> : n \in Lengths}
write_bytes == {<<Wait, Reset, Begin(1, 0), WaitOrEnd, Begin(n, 0), Wait>> : n \in Lengths}
BusCalls == cmps03 \cup srf10 \cup sp03 \cup read_reg \cup write_reg \cup write_bytes

BusInit ==
    bus = [todo |-> <<>>, complete |-> TRUE, error |-> FALSE,
           txSize |-> 0, rxSize |-> 0,
           line |-> "off",          \* what the interrupt tells when it comes next
           asked |-> Op("none", 0, 0), sent |-> 0, got |-> 0,     \* the transfer of the user
           ok |-> FALSE,            \* the user was told that all is well
           missed |-> FALSE]        \* somebody else has seen its time-out

BusIsBusy == bus.todo # <<>>
IsDue(op) == BusIsBusy /\ Head(bus.todo).op = op
Later == Tail(bus.todo)

Call == ~BusIsBusy /\ \E c \in BusCalls : Put([bus EXCEPT !.todo = c, !.ok = FALSE, !.missed = FALSE, !.asked = Op("none", 0, 0)])

-----------------------------------------------------------------------------
i2c_init == IsDue("init") /\ Put([bus EXCEPT !.todo = Later, !.line = "off", !.error = FALSE, !.complete = TRUE])

(* i2c_write_read does nothing while a transfer is under way. *)
i2c_write_read ==
    /\ IsDue("begin")
    /\ LET a == Head(bus.todo)
           call == [bus EXCEPT !.todo = Later, !.ok = FALSE]
       IN  Put(IF ~bus.complete THEN [call EXCEPT !.asked.op = "refused"]
               ELSE [call EXCEPT !.complete = FALSE, !.error = FALSE, !.txSize = a.tx, !.rxSize = a.rx,
                                 !.line = "start", !.asked = a, !.sent = 0, !.got = 0])

(* TWI_vect *)
Sends == [bus EXCEPT !.txSize = @ - 1, !.sent = @ + 1, !.line = "written"]
Stops == [bus EXCEPT !.line = "off", !.complete = TRUE]
Stores == [bus EXCEPT !.got = @ + 1]

(* Mutant of DataReceived: it counts the bytes before the one that is here. *)
ReceivedOneShort ==
    /\ bus.line \in {"ack", "nack"}
    /\ Put(IF bus.line = "nack" THEN [Stops EXCEPT !.got = @ + 1]
           ELSE [Stores EXCEPT !.rxSize = @ - 1, !.line = IF bus.rxSize > 3 THEN "ack" ELSE "nack"])

DataReceived ==
    /\ bus.line \in {"ack", "nack"}
    /\ Put(IF bus.line = "nack" THEN [Stops EXCEPT !.got = @ + 1]
           ELSE [Stores EXCEPT !.rxSize = @ - 1, !.line = IF bus.rxSize - 1 > 1 THEN "ack" ELSE "nack"])

Started == bus.line = "start" /\ Put([bus EXCEPT !.line = IF bus.txSize > 0 THEN "address W" ELSE "address R"])

Written ==
    \/ bus.line = "address W" /\ Put(Sends)
    \/ /\ bus.line = "written"
       /\ Put(IF bus.txSize > 0 THEN Sends ELSE IF bus.rxSize = 0 THEN Stops ELSE [bus EXCEPT !.line = "start"])

ReadAddressed == bus.line = "address R" /\ Put([bus EXCEPT !.line = IF bus.rxSize > 1 THEN "ack" ELSE "nack"])

BusError == bus.line # "off" /\ Put([Stops EXCEPT !.error = TRUE])

TWI_vect == Started \/ Written \/ ReadAddressed \/ DataReceived \/ BusError

-----------------------------------------------------------------------------
(* i2c_wait, of the user itself or of shift_data in between. *)
Waits == IsDue("wait") \/ IsDue("check")
Told(ok) == [bus EXCEPT !.todo = IF IsDue("check") /\ ~ok THEN <<>> ELSE Later, !.ok = ok]

i2c_wait == Waits /\ bus.complete /\ Put(Told(~bus.error))

(* Mutant of WaitTimesOut: the bus stays switched on. *)
TimeoutLeavesBus == Waits /\ ~bus.complete /\ Put([Told(FALSE) EXCEPT !.complete = TRUE])

WaitTimesOut == Waits /\ ~bus.complete /\ Put([Told(FALSE) EXCEPT !.complete = TRUE, !.line = "off"])

shift_data_out ==
    /\ IsDue("other")
    /\ Put([bus EXCEPT !.todo = Later, !.complete = TRUE, !.missed = ~bus.complete,
                       !.line = IF bus.complete THEN @ ELSE "off"])

BusNext == Call \/ i2c_init \/ i2c_write_read \/ TWI_vect \/ i2c_wait \/ WaitTimesOut \/ shift_data_out

-----------------------------------------------------------------------------
BusTypeOK == /\ bus.txSize >= 0 /\ bus.rxSize >= 0
             /\ bus.line \in {"off", "start", "address W", "written", "address R", "ack", "nack"}

(* i2c.h:75, cmps03.c:52: a user that is told of success has had all its       *)
(* bytes sent and all it asked for received, unless a wait of somebody else   *)
(* ran out in between: that is told to nobody (i2c.c:229-235).               *)
SuccessIsWhole ==
    ~BusIsBusy /\ bus.ok /\ ~bus.missed =>
        bus.asked.op = "begin" /\ bus.sent = bus.asked.tx /\ bus.got = bus.asked.rx

(* Nothing happens on the bus when the user has gone or the pins are used by  *)
(* another: the buffers of i2c_wrapper.cpp are on its stack.                 *)
BusIsLeft == ~BusIsBusy \/ bus.complete => bus.line = "off"

-----------------------------------------------------------------------------
(* The sensors side by side: they share the processor only. *)
SensorsSpec ==
    /\ RoundInit /\ [][RoundNext]_sn
    /\ OdometryInit /\ [][OdometryNext]_odo
    /\ LookupInit /\ [][LookupNext]_looked
    /\ BusInit /\ [][BusNext]_bus

(* All of the above: values are of their round and of their sensor, no edge  *)
(* is lost, less distance is never taken for more, and who is told of       *)
(* success on the bus has been served.                                      *)
SensorsAreTrue == ValuesAreFresh /\ NoEdgeIsLost /\ NearerIsLess /\ SuccessIsWhole /\ BusIsLeft
=============================================================================
