------------------------------ MODULE SimulatorLink ------------------------------
(***************************************************************************)
(* The rounds of the robot with those who give it its time.  First the      *)
(* robot on the PC and the simulator over TCP (pc/tcp.c,                     *)
(* pc/bot-2-sim_pc.c, command.c): the simulator sends the sensors and a     *)
(* DONE with its time, the robot answers with its orders and a DONE with    *)
(* the same time; a second thread (the one that sends the map) writes to    *)
(* the same connection.  Then the main program on an ARM board and the      *)
(* ATmega with its motors over a UART that damages and loses frames          *)
(* (mcu/bot-2-linux.c, pc/bot-2-atmega_pc.c): both wait for a DONE, the      *)
(* ATmega not for ever.                                                     *)
(***************************************************************************)
EXTENDS Integers, Sequences, SequencesExt, FiniteSets

CONSTANTS
    ROUNDS,         \* bound: rounds of the simulator, of the ATmega, and of the ARM board
    WRAP,           \* after this the simulator's clock starts again from 0
    BUFFER,         \* room in the send buffer, in pieces
    MAPS,           \* bound: blocks of the map that are sent
    Others,         \* other robots
    FAULTS,         \* bound: frames that the UART damages or loses
    TIMEOUTS        \* bound: times that somebody gives up waiting

VARIABLE sl

STEP == 10          \* of the simulator's clock
SEQUENCE == 256     \* numbers of frames are of 8 bits
NO_ADDRESS == 255   \* CMD_BROADCAST
Threads == {"main", "map"}
(* bot-2-bot.h *)
AVAILABLE == 0
GONE == 2
States == {AVAILABLE, 1, GONE}

Command(cmd, val, payload) == [cmd |-> cmd, val |-> val, state |-> AVAILABLE, payload |-> payload]
Plain(cmd, val) == Command(cmd, val, FALSE)

SimInit ==
    /\ \E time \in {0, WRAP - 2 * STEP}, addr \in {NO_ADDRESS, 1} :
          sl = [time |-> time, elapsed |-> 0, rounds |-> 0, turn |-> "send", seq |-> 1, open |-> FALSE,
                offers |-> FALSE,                   \* the simulator is asked for an address
                toBot |-> <<>>, toSim |-> <<>>, buffer |-> <<>>, count |-> 1,
                phase |-> "hello", simultime |-> time, ticks |-> 0, dist |-> 0, enc |-> 0, address |-> addr,
                bots |-> <<>>,
                cs |-> "nobody", command |-> Plain("DONE", 0), seqOf |-> 0, maps |-> MAPS,
                writes |-> [t \in Threads |-> <<>>], stage |-> [t \in Threads |-> "idle"],
                garbled |-> FALSE]

Sim(r) == sl' = r

-----------------------------------------------------------------------------
(* What the simulator mixes with the sensors: a greeting, an address, a key, *)
(* requests for the remote calls or the map, or a message of another robot.  *)
Extras ==
    {<<>>} \cup {<<Plain(c, 0)>> : c \in {"WELCOME", "RC5", "LIST", "MAP_REQUEST"}}
    \cup {<<Plain("GREETS", r)>> : r \in Others}
    \cup {<<[Plain("STATE", r) EXCEPT !.state = state]>> : r \in Others, state \in States}

(* tcp-server.c: a round of the simulator *)
SimulatorSends ==
    /\ sl.turn = "send" /\ sl.rounds < ROUNDS
    /\ \E extra \in IF sl.offers THEN {<<Plain("ID_OFFER", 128)>>} ELSE Extras :
          LET now == (sl.time + STEP) % WRAP
              IN  Sim([sl EXCEPT !.time = now, !.elapsed = @ + STEP, !.rounds = @ + 1, !.turn = "wait",
                             !.offers = FALSE,
                             !.toBot = @ \o <<Plain("SENS_IR", now), Plain("SENS_ENC", STEP)>>
                                         \o extra \o <<Plain("DONE", now)>>])

(* It reads frame by frame, the payload behind its frame, until the robot    *)
(* has done; with the wrong time it leaves.                                 *)
SimulatorReads ==
    /\ sl.turn = "wait" /\ sl.toSim # <<>>
    /\ LET piece == Head(sl.toSim)
           expected == IF sl.open THEN <<"payload", sl.seq>> ELSE <<"frame", sl.seq>>
           read == [sl EXCEPT !.toSim = Tail(@)]
       IN  IF <<piece.kind, piece.seq>> # expected THEN Sim([read EXCEPT !.garbled = TRUE])
           ELSE Sim([read EXCEPT
                       !.open = piece.kind = "frame" /\ piece.payload,
                       !.seq = IF piece.kind = "frame" /\ piece.payload THEN @ ELSE (@ + 1) % SEQUENCE,
                       !.offers = @ \/ (piece.kind = "frame" /\ piece.cmd = "ID_REQUEST"),
                       !.turn = IF piece.kind = "frame" /\ piece.cmd = "DONE"
                                THEN IF piece.val = sl.time THEN "send" ELSE "left"
                                ELSE @])

-----------------------------------------------------------------------------
(* tcp.c: what is written waits in a buffer. *)
flushSendBuffer(l) == [l EXCEPT !.toSim = @ \o l.buffer, !.buffer = <<>>]

copy2Buffer(l, piece) ==
    LET l1 == IF Len(l.buffer) = BUFFER THEN flushSendBuffer(l) ELSE l
    IN  [l1 EXCEPT !.buffer = Append(@, piece)]

(* Mutant of FreeToWrite: without the critical section. *)
FreeAtOnce(t) == sl.writes[t] # <<>> /\ sl.stage[t] = "idle"

FreeToWrite(t) == sl.writes[t] # <<>> /\ sl.stage[t] = "idle" /\ sl.cs = "nobody"

(* command_write_to_internal, behind os_enterCS(): one command is put        *)
(* together at a time, with the next number                                 *)
MakesCommand(t) ==
    /\ FreeToWrite(t)
    /\ Sim([sl EXCEPT !.cs = t, !.command = Head(sl.writes[t]), !.seqOf = sl.count,
                      !.count = (@ + 1) % SEQUENCE, !.stage[t] = "made"])

SendsFrame(t) ==
    /\ sl.stage[t] = "made"
    /\ Sim([copy2Buffer(sl, [kind |-> "frame", seq |-> sl.seqOf, cmd |-> sl.command.cmd,
                             val |-> sl.command.val, payload |-> sl.command.payload])
            EXCEPT !.stage[t] = IF Head(sl.writes[t]).payload THEN "payload" ELSE "leave"])

SendsPayload(t) ==
    /\ sl.stage[t] = "payload"
    /\ Sim([copy2Buffer(sl, [kind |-> "payload", seq |-> sl.seqOf]) EXCEPT !.stage[t] = "leave"])

(* Only DONE and what goes to other robots is sent at once, still inside.    *)
Flushes(cmd) == cmd \in {"DONE", "BOT_2_BOT"}
LeavesCS(t) ==
    /\ sl.stage[t] = "leave"
    /\ Sim([(IF Flushes(Head(sl.writes[t]).cmd) THEN flushSendBuffer(sl) ELSE sl)
            EXCEPT !.cs = "nobody", !.stage[t] = "idle", !.writes[t] = Tail(@)])

(* map_2_sim_main: the map's own thread has a block to send *)
MapThread ==
    /\ sl.maps > 0 /\ sl.writes["map"] = <<>>
    /\ Sim([sl EXCEPT !.maps = @ - 1, !.writes["map"] = <<Command("MAP", 0, TRUE)>>])

-----------------------------------------------------------------------------
(* bot-2-bot.c: the list of the other robots.  A new one takes the place of  *)
(* one that has gone, or comes to the end.                                  *)
Known(l, r) == \E i \in DOMAIN l.bots : l.bots[i].address = r
SetsState(l, r, state) ==
    [l EXCEPT !.bots = [i \in DOMAIN @ |-> IF @[i].address = r THEN [@[i] EXCEPT !.state = state] ELSE @[i]]]
IsGone(bot) == bot.state = GONE

add_bot_to_list(l, r) ==
    LET l1 == [l EXCEPT !.writes["main"] = Append(@, Plain("BOT_2_BOT", r))]
        gone == SelectInSeq(l.bots, IsGone)
        entry == [address |-> r, state |-> AVAILABLE]
    IN  CASE Known(l, r) -> SetsState(l1, r, AVAILABLE)
          [] ~Known(l, r) /\ gone > 0 -> [l1 EXCEPT !.bots[gone] = entry]
          [] ~Known(l, r) /\ gone = 0 -> [l1 EXCEPT !.bots = Append(@, entry)]

set_received_bot_state(l, r, state) ==
    IF Known(l, r) THEN SetsState(l, r, state) ELSE add_bot_to_list(l, r)

(* register_bot *)
Registers(l) == [l EXCEPT !.writes["main"] = Append(@, Plain("REGISTER", 0))]

(* system_time_isr: the simulator's clock starts again every WRAP.           *)
Advance(from, to) == IF to - from < 0 THEN to - from + WRAP ELSE to - from

(* command_evaluate: sensors, and the time *)
Sensed(l, c) ==
    CASE c.cmd = "SENS_IR"  -> [l EXCEPT !.dist = c.val]
      [] c.cmd = "SENS_ENC" -> [l EXCEPT !.enc = @ + c.val]
      [] c.cmd = "DONE"     -> [l EXCEPT !.ticks = @ + Advance(l.simultime, c.val), !.simultime = c.val]

(* ... and what the simulator asks for *)
Answered(l, c) ==
    CASE c.cmd = "WELCOME"  ->
            [Registers(l) EXCEPT !.writes["main"] =
                Append(@, IF l.address = NO_ADDRESS THEN Plain("ID_REQUEST", 0) ELSE Plain("GREETING", 0))]
      [] c.cmd = "ID_OFFER" ->
            [l EXCEPT !.address = c.val,
                      !.writes["main"] = @ \o <<Plain("ID_SET", c.val), Plain("GREETING", 0)>>]
      [] c.cmd = "LIST"     -> [l EXCEPT !.writes["main"] = @ \o <<Command("CALL", 1, TRUE), Command("CALL", 2, TRUE)>>]
      [] c.cmd = "MAP_REQUEST" -> [l EXCEPT !.writes["main"] = Append(@, Command("MAP", 0, TRUE))]
      [] c.cmd = "RC5"      -> l

(* ... and messages of other robots *)
Told(l, c) ==
    CASE c.cmd = "GREETS"   -> add_bot_to_list(l, c.val)
      [] c.cmd = "STATE"    -> set_received_bot_state(l, c.val, c.state)

Evaluated(l, c) ==
    CASE c.cmd \in {"SENS_IR", "SENS_ENC", "DONE"} -> Sensed(l, c)
      [] c.cmd \in {"GREETS", "STATE"} -> Told(l, c)
      [] OTHER -> Answered(l, c)

MainIsFree == sl.writes["main"] = <<>> /\ sl.stage["main"] = "idle"

(* bot_2_sim_init: the first rounds are answered at once. *)
bot_2_sim_init ==
    /\ sl.phase = "hello"
    /\ IF MainIsFree /\ sl.count = 1 THEN Sim(Registers(sl))
       ELSE MainIsFree /\ Sim([flushSendBuffer(sl) EXCEPT !.phase = "first"])

Waiting == {"first", "second", "listen"}

RoundEnds(c) == c.cmd = "DONE"

(* receive_until_frame(CMD_DONE); what a command makes the robot write is     *)
(* written before the next one is read                                      *)
receive_until_frame ==
    /\ sl.phase \in Waiting /\ MainIsFree /\ sl.toBot # <<>>
    /\ LET c == Head(sl.toBot)
           l == Evaluated([sl EXCEPT !.toBot = Tail(@)], c)
           answer == Plain("DONE", l.simultime)
       IN  IF ~RoundEnds(c) THEN Sim(l)
           ELSE CASE l.phase = "first"  -> Sim([l EXCEPT !.phase = "second", !.writes["main"] = Append(@, answer)])
                  [] l.phase = "second" ->
                        Sim([l EXCEPT !.phase = "listen",
                               !.writes["main"] = (IF l.address <= 127 THEN <<Plain("GREETING", 0)>> ELSE <<>>)
                                                  \o <<answer>>])
                  [] l.phase = "listen" -> Sim([l EXCEPT !.phase = "behave"])

(* bot_behave and post_behaviour: the motors every time, perhaps a message   *)
behave ==
    /\ sl.phase = "behave" /\ MainIsFree
    /\ \E also \in {<<>>, <<Command("LOG", 0, TRUE)>>, <<Plain("BOT_2_BOT", 0)>>} :
          Sim([sl EXCEPT !.phase = "listen",
                         !.writes["main"] = <<Plain("AKT_MOT", sl.simultime)>> \o also
                                            \o <<Plain("DONE", sl.simultime)>>])

SimNext ==
    \/ SimulatorSends
    \/ SimulatorReads
    \/ bot_2_sim_init
    \/ receive_until_frame
    \/ behave
    \/ MapThread
    \/ \E t \in Threads : MakesCommand(t)
    \/ \E t \in Threads : SendsFrame(t)
    \/ \E t \in Threads : SendsPayload(t)
    \/ \E t \in Threads : LeavesCS(t)

SimTypeOK ==
    /\ sl.turn \in {"send", "wait", "left"} /\ sl.phase \in Waiting \cup {"hello", "behave"}
    /\ sl.cs \in Threads \cup {"nobody"} /\ Len(sl.buffer) <= BUFFER /\ sl.seq \in 0 .. SEQUENCE - 1

(* command.c:441-524, pc/tcp.c:152: what two threads write arrives as whole   *)
(* frames, each with its payload, and numbered without a gap.               *)
StreamIsWhole == ~sl.garbled

(* pc/bot-2-sim_pc.c:128-151: every answer is to the simulator's last time,   *)
(* also while the robot starts, and both never wait for each other.         *)
AnswersInTime ==
    /\ sl.turn # "left"
    /\ ~( /\ sl.turn = "wait" /\ sl.toSim = <<>> /\ sl.toBot = <<>>
          /\ sl.phase \in Waiting /\ MainIsFree /\ sl.writes["map"] = <<>> )

(* pc/timer-low_pc.c:43: what the behaviours see is all of one round, no       *)
(* step of a wheel is lost, and their time passes as the simulator's.       *)
SeesOneRound ==
    sl.phase = "behave" => /\ sl.dist = sl.time /\ sl.simultime = sl.time
                           /\ sl.enc = sl.elapsed /\ sl.ticks = sl.elapsed

(* bot-2-bot.c:172-292: every robot is listed once.                          *)
ListedOnce == \A i, k \in DOMAIN sl.bots : sl.bots[i].address = sl.bots[k].address => i = k

-----------------------------------------------------------------------------
(* The ATmega (at) and the ARM board (lx), and the lines between them.       *)
Nothing == [cmd |-> "NONE", val |-> 0]
UartInit ==
    sl = [toLinux |-> <<>>, toAtmega |-> <<>>, faults |-> FAULTS, timeouts |-> 0, stale |-> 0, damaged |-> {},
          at |-> [phase |-> "inform", tick |-> 1, received |-> Nothing, motors |-> 0, done |-> 0],
          lx |-> [phase |-> "connect", round |-> 0, clock |-> 0, sens |-> 0]]

Frame(cmd, val) == [cmd |-> cmd, val |-> val, state |-> "whole"]
Damaged(f) == {[f EXCEPT !.state = "crc", !.val = -1], [f EXCEPT !.state = "garbage", !.val = -1]}
(* What can become of frames on the line. *)
Arrivals(frames) ==
    {frames} \cup (IF sl.faults = 0 THEN {}
                   ELSE {RemoveAt(frames, i) : i \in DOMAIN frames}
                        \cup UNION {{[frames EXCEPT ![i] = g] : g \in Damaged(frames[i])} : i \in DOMAIN frames})
FaultsLeft(frames, arrived) == IF arrived = frames THEN sl.faults ELSE sl.faults - 1

(* bot_2_linux_inform *)
bot_2_linux_inform ==
    /\ sl.at.phase = "inform" /\ sl.at.tick <= ROUNDS
    /\ LET frames == <<Frame("SENS", sl.at.tick), Frame("DONE", sl.at.tick)>>
       IN  \E arrived \in Arrivals(frames) :
              Sim([sl EXCEPT !.toLinux = @ \o arrived, !.faults = FaultsLeft(frames, arrived),
                             !.at.phase = "listen", !.at.tick = @ + 1])

(* command_read and command_evaluate: a frame with a wrong CRC is kept but    *)
(* not carried out, and garbage leaves what was received before.            *)
ReadByAtmega(at, f) ==
    CASE f.state = "garbage" -> at
      [] f.state = "crc"     -> [at EXCEPT !.received = [cmd |-> f.cmd, val |-> f.val]]
      [] f.state = "whole"   ->
            [at EXCEPT !.received = [cmd |-> f.cmd, val |-> f.val],
                       !.motors = IF f.cmd = "MOT" THEN f.val ELSE @,
                       !.done = IF f.cmd = "DONE" THEN f.val ELSE @]

(* bot_2_linux_listen returns at a DONE, or at the DONE it has seen before.  *)
bot_2_linux_listen ==
    /\ sl.at.phase = "listen" /\ sl.toAtmega # <<>>
    /\ LET f == Head(sl.toAtmega)
           at == ReadByAtmega(sl.at, f)
       IN  Sim([sl EXCEPT !.toAtmega = Tail(@),
                          !.stale = IF f.state = "garbage" /\ at.received.cmd = "DONE" THEN @ + 1 ELSE @,
                          !.at = IF at.received.cmd = "DONE" THEN [at EXCEPT !.phase = "inform"] ELSE at])

AtmegaGivesUp ==
    /\ sl.at.phase = "listen" /\ sl.toAtmega = <<>> /\ sl.timeouts < TIMEOUTS
    /\ Sim([sl EXCEPT !.timeouts = @ + 1, !.at.phase = "inform"])

LinuxWrites(frames, phase) ==
    \E arrived \in Arrivals(frames) :
       Sim([sl EXCEPT !.toAtmega = @ \o arrived, !.faults = FaultsLeft(frames, arrived), !.lx.phase = phase,
                      !.damaged = IF Head(frames) \in Range(arrived) THEN @ ELSE @ \cup {Head(frames).val}])

(* command_init, ctbot_init_low_last, and post_behaviour *)
LinuxStarts ==
    \/ sl.lx.phase = "connect" /\ LinuxWrites(<<Frame("DONE", 0)>>, "sync")
    \/ sl.lx.phase = "init" /\ LinuxWrites(<<Frame("DONE", 0)>>, "listen")

post_behaviour ==
    /\ sl.lx.phase = "work"
    /\ LinuxWrites(<<Frame("MOT", sl.lx.round), Frame("DONE", sl.lx.round)>>, "listen")

(* What comes behind a DONE, or behind the time-out. *)
GoesOn(lx) == IF lx.phase = "sync" THEN [lx EXCEPT !.phase = "init"]
              ELSE [lx EXCEPT !.phase = "work", !.round = @ + 1]

Heard(lx, f) ==
    CASE f.state = "whole" /\ f.cmd = "SENS" -> [lx EXCEPT !.sens = f.val]
      [] f.state = "whole" /\ f.cmd = "DONE" -> GoesOn([lx EXCEPT !.clock = f.val])
      [] f.state # "whole" -> lx

(* bot_2_atmega_listen, and command_init's only look for a DONE, which any    *)
(* frame that cannot be read ends.                                          *)
bot_2_atmega_listen ==
    /\ sl.lx.phase \in {"sync", "listen"} /\ sl.toLinux # <<>>
    /\ LET f == Head(sl.toLinux)
           unread == f.state = "garbage" \/ (f.state = "crc" /\ f.cmd = "DONE")
           read == [sl EXCEPT !.toLinux = Tail(@)]
       IN  \/ (~unread \/ sl.lx.phase = "listen") /\ sl.lx.round <= ROUNDS
              /\ Sim([read EXCEPT !.lx = Heard(@, f)])
           \/ unread /\ sl.lx.phase = "sync"
              /\ Sim([read EXCEPT !.lx = GoesOn(@), !.timeouts = @ + 1])
           \/ unread /\ sl.lx.phase = "listen" /\ sl.timeouts < TIMEOUTS /\ sl.lx.round <= ROUNDS
              /\ Sim([read EXCEPT !.lx = GoesOn(@), !.timeouts = @ + 1])

UartNext ==
    \/ bot_2_linux_inform
    \/ bot_2_linux_listen
    \/ AtmegaGivesUp
    \/ LinuxStarts
    \/ post_behaviour
    \/ bot_2_atmega_listen

UartTypeOK ==
    /\ sl.at.phase \in {"inform", "listen"} /\ sl.lx.phase \in {"connect", "sync", "init", "listen", "work"}
    /\ sl.faults \in 0 .. FAULTS

Dones(line) == Cardinality({i \in DOMAIN line : line[i].cmd = "DONE"})
One(p) == IF p THEN 1 ELSE 0

(* The rounds that are under way at the same time. *)
UnderWay == Dones(sl.toLinux) + Dones(sl.toAtmega)
            + One(sl.at.phase = "inform") + One(sl.lx.phase \in {"init", "work"})

(* mcu/bot-2-linux.c:109: the two rounds of the start are under way, and one   *)
(* more for each time-out and each return at a DONE of old, not for more.   *)
RoundsStayInStep == UnderWay <= 2 + sl.timeouts + sl.stale

(* command.c:258: no damaged order reaches the motors, and at the end of a     *)
(* round they have the order of this round if it came whole.                *)
MotorsAreOfTheirRound ==
    /\ sl.at.motors # -1
    /\ sl.at.phase = "inform" /\ sl.at.received = [cmd |-> "DONE", val |-> sl.at.done]
       => sl.at.motors = sl.at.done \/ sl.at.done \in sl.damaged

(* command.c:1017: the time on the board is that of the ATmega's round whose   *)
(* sensors it has, or of one before it where frames were damaged.           *)
ClockIsOfItsSensors ==
    /\ sl.lx.clock <= sl.at.tick
    /\ sl.lx.phase = "work" /\ sl.faults = FAULTS => sl.lx.clock = sl.lx.sens
=============================================================================
