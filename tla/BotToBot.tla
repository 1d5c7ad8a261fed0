-------------------------------- MODULE BotToBot --------------------------------
(***************************************************************************)
(* Robots talk to each other (bot-2-bot.c).  Each keeps a list of the       *)
(* others; a longer message is sent after a request, window by window, each *)
(* after an acknowledgement.  One set of static variables serves sending    *)
(* and receiving, and the order of a remote call is received into the       *)
(* buffer it is sent from.  Messages arrive in their order; they may get    *)
(* lost, and a robot may give up waiting (on the microcontroller).          *)
(***************************************************************************)
EXTENDS Integers, Sequences, SequencesExt, FiniteSetsExt

CONSTANTS
    Bots,
    Requesters,     \* the robots that send orders
    WINDOW,         \* BOT_2_BOT_PAYLOAD_WINDOW_SIZE
    Sizes,          \* of the data that is sent
    MAX_TRANSFERS,  \* bound: requests in a run
    LOSSES,         \* bound: messages that get lost; with 0 nobody waits in vain
    RETRY           \* whether a robot sends again when one was lost or given up

VARIABLE bb

NULL == -1

BotInit ==
    bb = [net |-> [b \in Bots |-> <<>>], losses |-> LOSSES, disturbed |-> FALSE,
          bots |-> [b \in Bots |-> [size |-> 0, data |-> NULL, callback |-> FALSE, addr |-> FALSE,
                                    sending |-> 0, buffer |-> <<>>]],
          list |-> [b \in Bots |-> "unknown"],          \* what the other one thinks of b
          transfers |-> <<>>,                           \* their sizes
          delivered |-> {}, torn |-> FALSE, succeeded |-> {}]

Longer(i, j) == IF i < j THEN j ELSE i
OtherBot(b) == CHOOSE c \in Bots : c # b

Data(t) == [i \in 1 .. bb.transfers[t] |-> <<t, i>>]

(* b becomes r and sends the messages; the ones it handles is taken away. *)
Replies(b, r, messages, handled) ==
    [bb EXCEPT !.bots[b] = r,
               !.net = [c \in Bots |-> IF c = b THEN (IF handled THEN Tail(@[c]) ELSE @[c]) ELSE @[c] \o messages]]

Closed(r) == [r EXCEPT !.data = NULL, !.callback = FALSE]

-----------------------------------------------------------------------------
(* bot_2_bot_start_remotecall, bot_2_bot_send_payload_request *)
bot_2_bot_send_payload_request(b) ==
    /\ bb.bots[b].sending = 0 /\ Len(bb.transfers) < MAX_TRANSFERS /\ (RETRY \/ ~bb.disturbed)
    /\ \E size \in Sizes :
          LET t == Len(bb.transfers) + 1
              r == [bb.bots[b] EXCEPT !.size = size, !.data = 0, !.addr = TRUE, !.sending = t,
                                      !.buffer = [i \in 1 .. size |-> <<t, i>>]]
          IN  bb' = [Replies(b, r, <<[cmd |-> "REQ", size |-> size]>>, FALSE) EXCEPT !.transfers = Append(@, size)]

(* The loop of the sender ends when the size tells the result. *)
SendReturns(b) ==
    LET r == bb.bots[b]
    IN  /\ r.sending # 0 /\ r.size < 0
        /\ bb' = [bb EXCEPT !.bots[b].sending = 0,
                            !.succeeded = IF r.size = -2 THEN @ \cup {r.sending} ELSE @]

(* COMMAND_TIMEOUT: everything stays as it is. *)
SendGivesUp(b) ==
    /\ LOSSES > 0 /\ bb.bots[b].sending # 0 /\ bb.bots[b].size >= 0
    /\ bb' = [bb EXCEPT !.bots[b].sending = 0, !.disturbed = TRUE]

-----------------------------------------------------------------------------
Ack(result) == <<[cmd |-> "ACK", result |-> result]>>

(* A robot that drives refuses; what it was sending is overwritten anyway. *)
handle_payload_request(b, m) ==
    \/ bb' = Replies(b, [bb.bots[b] EXCEPT !.size = 0], Ack(1), TRUE)
    \/ bb' = Replies(b, [bb.bots[b] EXCEPT !.size = m.size, !.callback = TRUE, !.data = 0, !.addr = TRUE],
                   Ack(0), TRUE)

(* The next window, taken from the buffer behind what was sent. *)
Window(r, n) == [i \in 1 .. n |-> IF r.data + i \in DOMAIN r.buffer THEN r.buffer[r.data + i] ELSE <<0, 0>>]

(* Mutant of Portion: a rest of no more than a window is not sent. *)
PortionSkips(r) ==
    IF r.size - WINDOW <= 0 THEN [n |-> 0, last |-> TRUE, rest |-> 0]
    ELSE [n |-> WINDOW, last |-> FALSE, rest |-> r.size - WINDOW]

Portion(r) ==
    IF r.size - WINDOW < 0 THEN [n |-> r.size, last |-> TRUE, rest |-> 0]
    ELSE [n |-> WINDOW, last |-> FALSE, rest |-> r.size - WINDOW]

handle_payload_ack(b, m) ==
    LET r == bb.bots[b]
        p == Portion(r)
    IN  CASE r.data = NULL \/ ~r.addr -> bb' = Replies(b, r, <<>>, TRUE)
          [] r.data # NULL /\ r.addr /\ m.result = 0 ->
                bb' = Replies(b, [r EXCEPT !.size = p.rest, !.data = @ + p.n],
                            <<[cmd |-> "PAYLOAD", last |-> p.last, data |-> Window(r, p.n)]>>, TRUE)
          [] r.data # NULL /\ r.addr /\ m.result = 1 ->
                bb' = Replies(b, [Closed(r) EXCEPT !.addr = FALSE, !.size = -1], <<>>, TRUE)
          [] r.data # NULL /\ r.addr /\ m.result = 2 ->
                bb' = Replies(b, [Closed(r) EXCEPT !.addr = FALSE, !.size = IF @ # 0 THEN -1 ELSE -2], <<>>, TRUE)

(* What the callback finds in the buffer. *)
Deliver(s, buffer) ==
    LET whole == {t \in DOMAIN bb.transfers :
                    Len(buffer) >= bb.transfers[t] /\ SubSeq(buffer, 1, bb.transfers[t]) = Data(t)}
    IN  [s EXCEPT !.delivered = @ \cup whole, !.torn = @ \/ whole = {}]

Filled(r, data) ==
    [i \in 1 .. Longer(Len(r.buffer), r.data + Len(data)) |->
        IF i > r.data /\ i <= r.data + Len(data) THEN data[i - r.data]
        ELSE IF i <= Len(r.buffer) THEN r.buffer[i] ELSE <<0, 0>>]

handle_payload_data(b, m) ==
    LET r == bb.bots[b]
        w == [r EXCEPT !.buffer = Filled(r, m.data), !.data = @ + Len(m.data)]
    IN  CASE ~r.addr -> bb' = Replies(b, r, <<>>, TRUE)
          [] r.addr /\ r.data = NULL ->            \* nowhere to write to: the program is lost
                bb' = [Replies(b, r, <<>>, TRUE) EXCEPT !.torn = TRUE]
          [] r.addr /\ r.data # NULL /\ m.last ->
                bb' = Deliver(Replies(b, [Closed(w) EXCEPT !.size = 0, !.addr = FALSE], Ack(2), TRUE), w.buffer)
          [] r.addr /\ r.data # NULL /\ ~m.last -> bb' = Replies(b, w, Ack(0), TRUE)

-----------------------------------------------------------------------------
(* add_bot_to_list, set_received_bot_state, publish_bot_state, delete_bot_from_list *)
Publish(b, state) ==
    /\ bb.transfers = <<>>                          \* bound: before the first request
    /\ \A c \in Bots : Len(bb.net[c]) < 2
    /\ bb' = Replies(b, bb.bots[b], <<[cmd |-> "STATE", state |-> state]>>, FALSE)

Welcome(b) ==
    /\ bb.transfers = <<>> /\ \A c \in Bots : bb.net[c] = <<>>
    /\ bb' = Replies(b, bb.bots[b], <<[cmd |-> "WELCOME"]>>, FALSE)

add_bot_to_list(b) ==
    bb' = [Replies(b, bb.bots[b], <<[cmd |-> "STATE", state |-> "available"]>>, TRUE)
             EXCEPT !.list[OtherBot(b)] = "available"]

(* An unknown one is added, and asked nothing: it gets our state. *)
set_received_bot_state(b, m) ==
    IF bb.list[OtherBot(b)] = "unknown" THEN add_bot_to_list(b)
    ELSE bb' = [Replies(b, bb.bots[b], <<>>, TRUE) EXCEPT !.list[OtherBot(b)] = m.state]

Handle(b) ==
    /\ bb.net[b] # <<>>
    /\ LET m == Head(bb.net[b])
       IN  CASE m.cmd = "REQ" -> handle_payload_request(b, m)
             [] m.cmd = "ACK" -> handle_payload_ack(b, m)
             [] m.cmd = "PAYLOAD" -> handle_payload_data(b, m)
             [] m.cmd = "WELCOME" -> add_bot_to_list(b)
             [] m.cmd = "STATE" -> set_received_bot_state(b, m)

Lose(b) ==
    /\ bb.losses > 0 /\ bb.net[b] # <<>>
    /\ bb' = [bb EXCEPT !.net[b] = Tail(@), !.losses = @ - 1, !.disturbed = TRUE]

BotNext ==
    \/ \E b \in Requesters : bot_2_bot_send_payload_request(b)
    \/ \E b \in Bots : SendReturns(b)
    \/ \E b \in Bots : SendGivesUp(b)
    \/ \E b \in Bots : Handle(b)
    \/ \E b \in Bots : Lose(b)
    \/ \E b \in Bots, s \in {"available", "busy"} : Publish(b, s)
    \/ \E b \in Bots : Welcome(b)

-----------------------------------------------------------------------------
BotTypeOK ==
    /\ \A b \in Bots : /\ bb.bots[b].size \in -2 .. Max(Sizes) /\ bb.bots[b].data \in Nat \cup {NULL}
                       /\ bb.list[b] \in {"unknown", "available", "busy"}
    /\ bb.delivered \cup bb.succeeded \subseteq DOMAIN bb.transfers

(* The callback of a transfer runs on data that was sent: all of it, in its *)
(* order, and nothing else in between.                                      *)
OrdersArriveWhole == ~bb.torn

(* Success is only reported for data that was transferred correctly          *)
(* (bot-2-bot.c:325).                                                       *)
SuccessIsTrue == bb.succeeded \subseteq bb.delivered

BotSpec == BotInit /\ [][BotNext]_bb

(* bot-2-bot.c: the orders another robot carries out are whole, and a robot  *)
(* that is told of success has sent one.                                    *)
TransfersAreTrue == OrdersArriveWhole /\ SuccessIsTrue
=============================================================================
