-------------------------------- MODULE Panels --------------------------------
(***************************************************************************)
(* What the user has before him: the remote control, the keypad with its    *)
(* letters, the screens of the menu and the display (mcu/ir-rc5.c,          *)
(* ui/rc5.c, ui/gui.c, ui/misc.c, the screen of the remote calls in         *)
(* bot-logic/behaviour_remotecall.c, mcu/display.c, minilog.c).             *)
(*                                                                          *)
(* Parts that do not meet: the decoder of infrared frames up to the code of *)
(* a key; typing on the keypad; choosing a remote call with its parameters; *)
(* the speeds that the arrow keys set; the texts on the display; the log    *)
(* and its screen.                                                          *)
(***************************************************************************)
EXTENDS Integers, Sequences, SequencesExt, FiniteSetsExt

CONSTANTS
    SAMPLES_PER_BIT, PAUSE_SAMPLES, CAP,   \* of the decoder; CAP bounds its timer, in the code 255
    PRESSES,          \* key presses of a run
    WHOLE,            \* whether ir_read() is never interrupted
    KEYS_TYPED,       \* keys typed into one request
    ParamCounts,      \* of the remote calls, a sequence
    LENGTH,           \* characters of a row
    LOG_SCROLLBACK,   \* lines of the log that are known, in the code 128
    LOG_SIZE          \* bound: of the log

VARIABLE pn

-----------------------------------------------------------------------------
(* The decoder.  A frame has a start bit, the toggle bit and the code, here *)
(* of one bit; every bit is a change of the level in its middle, so the     *)
(* levels of its two halves differ.                                         *)
BITS == 3
EARLY == SAMPLES_PER_BIT - 2
LATE == SAMPLES_PER_BIT + 2
HALF == SAMPLES_PER_BIT \div 2
IR_SAMPLES_PER_BIT_MIN == 2

Word(press, code) == 4 + 2 * (press % 2) + code
Levels(w) == LET b == <<w \div 4, (w \div 2) % 2, w % 2>>
             IN  [i \in 1 .. 2 * BITS |-> IF i % 2 = 0 THEN b[i \div 2] ELSE 1 - b[(i + 1) \div 2]]

IrInit ==
    \E noise \in {"jitter", "glitch"} :
        pn = [timer |-> CAP, count |-> 0, tmp |-> 0, last |-> 0, data |-> 0,     \* ir_data_t
              toggle |-> 2, got |-> 0, reading |-> FALSE,                        \* rc5_control
              noise |-> noise, glitch |-> 0, glitches |-> 1,
              rest |-> <<>>, age |-> 0, gap |-> CAP,          \* the levels that are still to be sent
              press |-> 0, code |-> 0, cut |-> FALSE, heard |-> FALSE,
              words |-> {},                                   \* sent in full lately
              keys |-> <<>>]                                  \* the presses that were taken

(* One sample.  An edge soon after the last one is noise; one in the midst  *)
(* of a bit is ignored; no edge for long is the end.                        *)
Started(r, sample, t) == IF sample = 1 /\ t > PAUSE_SAMPLES
                         THEN [r EXCEPT !.tmp = 1, !.count = 1, !.timer = 0]
                         ELSE [r EXCEPT !.tmp = 0, !.timer = 0]
Bit(r, sample, t) ==
    IF t < EARLY THEN r
    ELSE IF t <= LATE THEN [r EXCEPT !.tmp = 2 * @ + sample, !.count = @ + 1, !.timer = 0]
    ELSE [r EXCEPT !.count = 0, !.timer = 0]

ir_isr(p, sample) ==
    LET t == Min({p.timer + 1, CAP})
        r == [p EXCEPT !.timer = t, !.last = sample]
    IN  CASE p.last = sample /\ t <= LATE -> r
          [] p.last = sample /\ t > LATE -> [r EXCEPT !.data = IF p.count = BITS THEN p.tmp ELSE @, !.count = 0]
          [] p.last # sample /\ t <= IR_SAMPLES_PER_BIT_MIN -> [r EXCEPT !.count = 0]
          [] p.last # sample /\ t > IR_SAMPLES_PER_BIT_MIN ->
                IF p.count = 0 THEN Started(r, sample, t) ELSE Bit(r, sample, t)

Jitter == IF pn.noise = "jitter" THEN 1 ELSE 0
Level(p) == IF p.rest = <<>> THEN 0 ELSE Head(p.rest)

(* The remote control: rest, begin a frame of the key held down or of a new *)
(* press, go on, or be cut off; either its timing is off by one, or the      *)
(* light of something else disturbs it once.  The main loop has run between  *)
(* two frames.                                                              *)
Begin(press, code) ==
    [pn EXCEPT !.press = press, !.code = code, !.rest = Levels(Word(press, code)), !.age = 1, !.gap = 0,
               !.cut = FALSE, !.heard = FALSE, !.words = {}]
Sent(p) == [p EXCEPT !.rest = <<>>, !.age = 0, !.words = @ \cup {Word(p.press, p.code)}]
NextHalf(p) ==
    IF Len(p.rest) > 1 THEN [p EXCEPT !.rest = Tail(@), !.age = 1]
    ELSE Sent(p)

(* Cut off in its last bit the frame may be complete. *)
CutOff == [pn EXCEPT !.rest = <<>>, !.age = 0, !.cut = TRUE,
                     !.words = IF pn.rest \in {<<0>>, <<1>>, <<1, 0>>} THEN Sent(pn).words ELSE @]

Sender ==
    IF pn.rest = <<>>
    THEN {[pn EXCEPT !.gap = Min({@ + 1, CAP})]}
         \cup (IF pn.gap <= PAUSE_SAMPLES \/ pn.data # 0 THEN {}
               ELSE {Begin(pn.press + 1, c) : c \in IF pn.press < PRESSES THEN {0, 1} ELSE {}}
                    \cup (IF pn.press = 0 THEN {} ELSE {Begin(pn.press, pn.code)}))
    ELSE (IF pn.age < HALF + Jitter THEN {[pn EXCEPT !.age = @ + 1]} ELSE {})
         \cup (IF pn.age >= HALF - Jitter THEN {NextHalf(pn)} ELSE {})
         \cup (IF pn.noise = "glitch" THEN {} ELSE {CutOff})

(* A glitch turns the level for one or two samples. *)
Glitched(p) ==
    IF p.glitch > 0 THEN {[p EXCEPT !.glitch = @ - 1]}
    ELSE {p} \cup (IF p.noise = "glitch" /\ p.glitches > 0
                   THEN {[p EXCEPT !.glitch = g, !.glitches = @ - 1] : g \in {1, 2}} ELSE {})

Sample ==
    /\ WHOLE => ~pn.reading
    /\ \E p \in Sender : \E q \in Glitched(p) :
           pn' = ir_isr(q, IF q.glitch > 0 THEN 1 - Level(q) ELSE Level(q))

(* The main loop fetches the word, and puts nothing in its place: two bytes  *)
(* each.  The toggle bit tells a new press from a repeated frame.           *)
ir_read ==
    /\ ~pn.reading /\ (WHOLE => pn.data # 0)
    /\ pn' = [pn EXCEPT !.reading = TRUE, !.got = pn.data % 2]

rc5_control ==
    /\ pn.reading
    /\ LET rc5 == pn.got + 2 * (pn.data \div 2)
           toggle == (rc5 \div 2) % 2
           p == [pn EXCEPT !.reading = FALSE, !.got = 0, !.data = 0, !.heard = TRUE]
       IN  pn' = IF rc5 = 0 \/ toggle = p.toggle THEN p
                 ELSE [p EXCEPT !.toggle = toggle,
                                !.keys = Append(@, [press |-> p.press, right |-> rc5 \in pn.words])]

IrNext == Sample \/ ir_read \/ rc5_control

(* What is received has been sent in full, whatever glitch or cut there was, *)
(* no press is taken twice, and without glitches no frame is missed         *)
(* (mcu/ir-rc5.c:67-112, ui/rc5.c:348).                                     *)
PressesAreTaken ==
    /\ pn.data # 0 /\ ~pn.reading => pn.data \in pn.words
    /\ \A i \in DOMAIN pn.keys : pn.keys[i].right /\ (i > 1 => pn.keys[i - 1].press < pn.keys[i].press)
    /\ pn.words # {} /\ pn.noise = "jitter" /\ ~pn.cut /\ pn.gap > LATE + 1 => pn.data # 0 \/ pn.heard

-----------------------------------------------------------------------------
(* The keypad.  A key stands for its letters one after the other when it is  *)
(* pressed again within a second, or for its digit in the second mode.      *)
gui_keypad_table ==
    ("1" :> <<"-", " ", "1">>) @@ ("2" :> <<"a", "b", "c", "2">>) @@ ("7" :> <<"p", "q", "r", "s", "7">>) @@ ("10" :> <<"-">>)
Keypad == DOMAIN gui_keypad_table
ENTRIES == 5      \* of a key in the table, the last ones may be empty

KeypadOff == [callback |-> "none", mode |-> 0, pos |-> 0, pressed |-> 0, last_rc5 |-> "none",
              buffer |-> <<>>, typed |-> <<>>]

gui_keypad_request(k, callback, mode) == [k EXCEPT !.callback = callback, !.mode = mode, !.pos = 0, !.typed = <<>>]

(* The entry after this one, from the first one again at the end. *)
Entry(key, n) == IF n < Len(gui_keypad_table[key]) THEN n ELSE 0

Types(k, key, quick) ==
    LET again == quick /\ key = k.last_rc5
        n == IF again THEN Entry(key, IF k.pressed + 1 >= ENTRIES THEN 0 ELSE k.pressed + 1) ELSE 0
        pos == IF again THEN k.pos ELSE k.pos + 1
        char == IF k.mode = 1 THEN Last(gui_keypad_table[key]) ELSE gui_keypad_table[key][n + 1]
    IN  [k EXCEPT !.pos = pos, !.pressed = n, !.last_rc5 = IF k.mode = 1 THEN "none" ELSE key,
                  !.buffer = IF pos > Len(@) THEN Append(@, char) ELSE [@ EXCEPT ![pos] = char],
                  !.typed = Append(@, [key |-> key, mode |-> k.mode, quick |-> quick])]

Closed(k) == [k EXCEPT !.callback = "none", !.buffer = <<>>]

TypingInit == pn = [keypad |-> KeypadOff, given |-> <<>>, meant |-> <<>>]

(* What the keys mean: a quick repetition of the last key, which was a      *)
(* letter, takes its next entry; any other key is a new character.          *)
Repeats(t, i) == i > 1 /\ t[i].quick /\ t[i].key = t[i - 1].key /\ t[i - 1].mode = 0
GroupStart(t, i) == Max({j \in 1 .. i : ~Repeats(t, j)})
Meant(t) ==
    LET Ends == SetToSortSeq({i \in DOMAIN t : i = Len(t) \/ ~Repeats(t, i + 1)}, <)
        Char(i) == LET letters == gui_keypad_table[t[i].key]
                   IN  IF t[i].mode = 1 THEN Last(letters) ELSE letters[((i - GroupStart(t, i)) % Len(letters)) + 1]
    IN  [n \in DOMAIN Ends |-> Char(Ends[n])]

(* The keys of an open request; the user takes more than a second from the  *)
(* last key of one request to the first one of the next, and the buffer of   *)
(* 21 characters is never full.                                             *)
TypingNext ==
    LET k == pn.keypad
    IN  \/ /\ k.callback = "none"
           /\ \E mode \in {0, 1} : pn' = [keypad |-> gui_keypad_request(k, "typing", mode), given |-> <<>>, meant |-> <<>>]
        \/ /\ k.callback # "none"
           /\ \/ pn' = [pn EXCEPT !.keypad.mode = 1 - @]                                           \* DOT
              \/ pn' = [keypad |-> Closed(k), given |-> <<>>, meant |-> <<>>]                       \* STOP
              \/ pn' = [keypad |-> Closed(k), given |-> k.buffer, meant |-> Meant(k.typed)]         \* PLAY
              \/ /\ Len(k.typed) < KEYS_TYPED
                 /\ \E key \in Keypad, quick \in BOOLEAN :
                        /\ k.typed = <<>> => ~quick
                        /\ pn' = [pn EXCEPT !.keypad = Types(k, key, quick)]

(* The function that asked gets what was typed since then, in the way the   *)
(* keys are labelled (ui/gui.c:218-282).                                    *)
KeypadAsTyped == pn.given = pn.meant

-----------------------------------------------------------------------------
(* The screen of the remote calls, and beside it the one for the address of *)
(* the robot.  Three calls are in sight; first_row is the upper one,        *)
(* selected_row the marked one among them; while the call at work is shown   *)
(* the list is not in sight.                                                *)
STORED_CALLS == Len(ParamCounts) + 1
Values == {1, 2}

Row(n) == IF n > STORED_CALLS - 2 THEN n - (STORED_CALLS - 1) ELSE n
Marked(m) == IF m.show_running_beh /\ m.running = "running" THEN 255 ELSE Row(m.first_row + m.selected_row)

MenuInit ==
    pn = [screen |-> "calls", callback |-> "none", bot_address |-> 1,
          first_row |-> 0, selected_row |-> 0, show_running_beh |-> FALSE, beh_selected |-> 0,
          params |-> <<>>,                                      \* keypad_params up to keypad_param_index
          running |-> "idle", function_id |-> 255, parameter_data |-> <<>>, mine |-> FALSE,   \* started by the last round
          marked |-> 0, chosen |-> 255, typed |-> <<>>]         \* what the user sees, and has done

(* A key moves the mark, chooses the marked call or cancels the one at work; *)
(* a key the screen does not take is left for default_key_handler().         *)
Cancelled(m) ==
    CASE m.running = "scheduled" -> [m EXCEPT !.running = "running"]
      [] OTHER -> [m EXCEPT !.running = "idle", !.function_id = IF m.running = "running" THEN 255 ELSE @]
Moved(m, n) == [m EXCEPT !.selected_row = @ + n, !.params = <<>>, !.beh_selected = 0, !.typed = <<>>, !.chosen = 255]

RowKey(m, key) ==
    CASE key = "up" -> Moved(m, -1)
      [] key = "down" -> IF m.running = "running" /\ m.show_running_beh THEN Cancelled(m) ELSE Moved(m, 1)
      [] key = "play" -> IF m.running = "running" THEN [m EXCEPT !.show_running_beh = ~@]
                         ELSE [m EXCEPT !.show_running_beh = TRUE, !.beh_selected = 1,
                                        !.first_row = Row(@ + m.selected_row), !.selected_row = 0,
                                        !.chosen = m.marked]
      [] OTHER -> m

Scrolled(m) ==
    CASE m.selected_row > 2 -> [m EXCEPT !.selected_row = 2,
                                         !.first_row = IF @ + 1 > STORED_CALLS - 2 THEN 0 ELSE @ + 1]
      [] m.selected_row < 0 -> [m EXCEPT !.selected_row = 0,
                                         !.first_row = IF @ = 0 THEN STORED_CALLS - 2 ELSE @ - 1]
      [] OTHER -> m

bot_remotecall_from_id(m, id, data) ==
    IF m.running # "idle" \/ id >= STORED_CALLS - 1 THEN m
    ELSE [m EXCEPT !.running = "scheduled", !.function_id = id,
                   !.parameter_data = SubSeq(data, 1, ParamCounts[id + 1])]

remotecall_display(m0, key) ==
    LET m == Scrolled(RowKey(IF m0.running = "idle" THEN [m0 EXCEPT !.show_running_beh = FALSE] ELSE m0, key))
        par_count == ParamCounts[m.first_row + 1]
        shown == [m EXCEPT !.marked = Marked(m), !.mine = FALSE, !.typed = IF m0.mine THEN <<>> ELSE @]
    IN  IF m.running = "running" /\ m.show_running_beh THEN shown
        ELSE IF Len(m.params) < par_count /\ m.beh_selected > 0
        THEN IF m.beh_selected = 1 THEN [shown EXCEPT !.beh_selected = 2, !.callback = "keypad_param"] ELSE shown
        ELSE IF par_count = Len(m.params) /\ m.running = "idle" /\ m.beh_selected = 1
        THEN [bot_remotecall_from_id([shown EXCEPT !.beh_selected = 0, !.params = <<>>], m.first_row, m.params)
                 EXCEPT !.show_running_beh = TRUE, !.mine = TRUE]
        ELSE shown

misc_display(m, key) == IF key = "mute" THEN [m EXCEPT !.callback = "change_bot_addr"] ELSE m

(* An open keypad takes every key, also the one that stops the robot; its    *)
(* callback runs before the screen's function.                              *)
keypad_callback(m, value) ==
    CASE m.callback = "keypad_param" ->
             [m EXCEPT !.callback = "none", !.beh_selected = 1,
                       !.params = IF value # 0 THEN Append(@, value) ELSE @,
                       !.typed = IF value # 0 THEN Append(@, value) ELSE @]
      [] m.callback = "change_bot_addr" ->
             [m EXCEPT !.callback = "none", !.bot_address = IF value # 0 THEN value ELSE @]
      [] OTHER -> m

default_key_handler(m, key) ==
    CASE key = "pwr" -> Cancelled(m)                              \* rc5_emergency_stop
      [] key = "ch_pc" -> [Cancelled(m) EXCEPT !.screen = "calls"] \* bot_reset
      [] key = "tv_vcr" -> [m EXCEPT !.screen = IF @ = "calls" THEN "misc" ELSE "calls"]
      [] OTHER -> m

Screen(m, key) == IF m.screen = "calls" THEN remotecall_display(m, key) ELSE misc_display(m, key)
Taken(m, key) == m.screen = "calls" /\ key \in {"up", "down"}

gui_display(key) ==
    LET m == Screen(pn, key)
    IN  IF Taken(pn, key) THEN m ELSE default_key_handler(m, key)

MenuNext ==
    \/ pn.callback = "none"
       /\ \E key \in {"none", "up", "down", "play", "mute", "pwr", "ch_pc", "tv_vcr"} : pn' = gui_display(key)
    \/ pn.callback # "none"
       /\ \E value \in Values \cup {0} : pn' = Screen(keypad_callback(pn, value), "none")
    \/ pn.running = "scheduled" /\ pn' = [pn EXCEPT !.running = "running"]                    \* bot_behave
    \/ pn.running = "running" /\ pn' = [pn EXCEPT !.running = "idle", !.function_id = 255]    \* has come back
    \/ /\ pn.running = "idle"                                             \* the simulator asks for a call
       /\ \E id \in 0 .. STORED_CALLS - 2 :
              pn' = [bot_remotecall_from_id(pn, id, <<1, 1, 1>>) EXCEPT !.mine = FALSE,
                                                   !.typed = IF pn.mine THEN <<>> ELSE @]

(* The call that the screen starts is the one that was marked when the user *)
(* chose it, and its parameters are those he has typed since, in their order *)
(* (bot-logic/behaviour_remotecall.c:598-763).                              *)
CallIsAsChosen ==
    pn.mine /\ pn.running = "scheduled" =>
        /\ pn.chosen # 255 => pn.function_id = pn.chosen
        /\ Len(pn.parameter_data) = ParamCounts[pn.function_id + 1]
        /\ pn.parameter_data = SubSeq(pn.typed, Len(pn.typed) - Len(pn.parameter_data) + 1, Len(pn.typed))

-----------------------------------------------------------------------------
(* The speeds that the keys ask for, in units of 5 mm/s and with a lower     *)
(* maximum, and the texts on the display and on the simulator's copy of it.  *)
BOT_SPEED_MIN == 5
BOT_SPEED_MAX == 16
BOT_SPEED_SLOW == 10
BOT_SPEED_NORMAL == 14

Changed(old, diff) ==
    LET v == IF old + diff \in -BOT_SPEED_MAX .. BOT_SPEED_MAX THEN old + diff ELSE old
    IN  CASE v \in 1 .. BOT_SPEED_MIN - 1 -> BOT_SPEED_MIN
          [] v \in -BOT_SPEED_MIN + 1 .. -1 -> -BOT_SPEED_MIN
          [] OTHER -> v
rc5_bot_change_speed(left, right) ==
    pn' = [pn EXCEPT !.l = Changed(@, left), !.r = Changed(@, right)]
rc5_number == \E v \in {0, BOT_SPEED_SLOW, BOT_SPEED_NORMAL} : pn' = [pn EXCEPT !.l = v, !.r = v]
SpeedKeys ==
    \/ \E d \in {<<2, 2>>, <<-2, -2>>, <<-2, 2>>, <<2, -2>>} : rc5_bot_change_speed(d[1], d[2])
    \/ rc5_number

(* Every row of the display has its address; the copy has rows and columns.  *)
RowAddress == <<0, 64, 20, 84>>
Chars == {" ", "x"}
Addresses == UNION {{RowAddress[r] + c : c \in 0 .. LENGTH - 1} : r \in 1 .. 4}
Blank == [a \in Addresses |-> " "]

SpeedInit == pn = [l |-> 0, r |-> 0]
SpeedNext == SpeedKeys

TextInit == pn = [lcd |-> Blank, cursor |-> 0, placed |-> FALSE,
                  copy |-> [r \in 0 .. 3 |-> [c \in 0 .. LENGTH - 1 |-> " "]],
                  remote_row |-> 0, remote_column |-> 0]

(* The simulator puts the text where the message says. *)
display_clear ==
    pn' = [pn EXCEPT !.lcd = Blank, !.cursor = 0, !.placed = FALSE,
                     !.copy = [r \in 0 .. 3 |-> [c \in 0 .. LENGTH - 1 |-> " "]]]
display_cursor(row, column) ==
    pn' = [pn EXCEPT !.cursor = RowAddress[row] + column - 1, !.placed = TRUE,
                     !.remote_row = row - 1, !.remote_column = column - 1]
display_puts(text) ==
    /\ pn.placed /\ pn.remote_column + Len(text) <= LENGTH
    /\ pn' = [pn EXCEPT !.lcd = [a \in Addresses |-> IF a \in pn.cursor .. pn.cursor + Len(text) - 1
                                                     THEN text[a - pn.cursor + 1] ELSE @[a]],
                        !.cursor = @ + Len(text),
                        !.copy[pn.remote_row] = [c \in DOMAIN @ |->
                            IF c \in pn.remote_column .. pn.remote_column + Len(text) - 1
                            THEN text[c - pn.remote_column + 1] ELSE @[c]],
                        !.remote_column = @ + Len(text)]

TextNext ==
    \/ display_clear
    \/ \E row \in 1 .. 4, column \in 1 .. LENGTH : display_cursor(row, column)
    \/ \E n \in 1 .. LENGTH : \E text \in [1 .. n -> Chars] : display_puts(text)

(* The keys never ask for a speed that the motors cannot hold, or for more  *)
(* than there is (ui/rc5.c:100-128).                                        *)
SpeedsCanBeHeld == \A v \in {pn.l, pn.r} : v = 0 \/ v \in BOT_SPEED_MIN .. BOT_SPEED_MAX
                                                \/ -v \in BOT_SPEED_MIN .. BOT_SPEED_MAX

(* As long as the texts fit into their rows, the simulator shows what the   *)
(* display of the robot shows (mcu/display.c:137-276).                      *)
CopyAgrees == \A r \in 0 .. 3, c \in 0 .. LENGTH - 1 : pn.copy[r][c] = pn.lcd[RowAddress[r + 1] + c]

-----------------------------------------------------------------------------
(* The log in a file on the card (minilog.c): where the last lines begin is  *)
(* kept, of each place only the lower part; the screen follows the log, and  *)
(* scrolls back.  A place of the file holds the number of its line.          *)
WORD == 8                             \* of places; in the code 2 ^ 16
NO_LINE == 15                         \* the greatest number of a line; in the code 2 ^ 16 - 1
None == -1

LogInit == pn = [file |-> <<>>, pos |-> 0, next_line |-> 0, line_displayed |-> 0, last_line |-> NO_LINE,
                 line_cache |-> [i \in 0 .. LOG_SCROLLBACK - 1 |-> 0], file_pos_off |-> 0, shown |-> None]

minilog_end(len) ==
    LET p == pn.pos
        text == [i \in 1 .. len |-> pn.next_line]
    IN  pn' = [pn EXCEPT !.file = SubSeq(@, 1, p) \o text \o SubSeq(@, p + len + 1, Len(@)),
                         !.pos = p + len,
                         !.line_cache[pn.next_line % LOG_SCROLLBACK] = p % WORD,
                         !.file_pos_off = p - (p % WORD),
                         !.line_displayed = IF pn.next_line = (@ + 1) % (NO_LINE + 1) THEN pn.next_line ELSE @,
                         !.next_line = @ + 1]

(* The keys for a line up, a line down, the beginning and the end. *)
LogKey(p, key) ==
    LET last == (p.next_line - 1) % (NO_LINE + 1)
        to == CASE key = "up" /\ p.line_displayed > 0 -> p.line_displayed - 1
                [] key = "down" /\ p.next_line # 0 /\ p.line_displayed < p.next_line - 1 -> p.line_displayed + 1
                [] key = "left" -> last - (last % LOG_SCROLLBACK)
                [] key = "right" -> last
                [] OTHER -> p.line_displayed
    IN  [p EXCEPT !.line_displayed = to]

(* What is read at the place that is known for the line. *)
Found(p, line) ==
    LET at == p.line_cache[line % LOG_SCROLLBACK] + p.file_pos_off
    IN  IF at < Len(p.file) THEN p.file[at + 1] ELSE None

log_mmc_display(key) ==
    LET p == LogKey(pn, key)
        found == Found(p, p.line_displayed)
    IN  pn' = IF p.next_line = 0 \/ found = None \/ p.line_displayed = p.last_line THEN p
              ELSE [p EXCEPT !.shown = found, !.last_line = p.line_displayed]

LogNext ==
    \/ \E len \in 1 .. 2 : Len(pn.file) + len <= LOG_SIZE /\ minilog_end(len)
    \/ \E key \in {"none", "up", "down", "left", "right"} :
           (key = "none" \/ pn.next_line > 0) /\ log_mmc_display(key)   \* keys before any line: see the README

(* The lines of the log stay in their order, and a line among the last ones *)
(* is found where it is, unless the lower part of its place has run over     *)
(* since; the newest one always is (minilog.c:119-136, 201-250).             *)
LogIsFound ==
    /\ \A i, j \in DOMAIN pn.file : i < j => pn.file[i] <= pn.file[j]
    /\ \A line \in 0 .. pn.next_line - 1 :
           LET place == Min({i \in DOMAIN pn.file : pn.file[i] = line}) - 1
           IN  pn.next_line - line <= LOG_SCROLLBACK /\ place >= pn.file_pos_off => Found(pn, line) = line
    /\ pn.last_line = pn.next_line - 1 => pn.shown = pn.last_line
=============================================================================
