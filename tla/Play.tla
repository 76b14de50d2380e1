-------------------------------- MODULE Play --------------------------------
(***************************************************************************)
(* A game as its players see it: a session of the server (GameSession) and *)
(* the interfaces of the clients (Interface), with the messages between    *)
(* them.  To the steps of the session this module adds what each of them   *)
(* sends: the send_msg calls of server/game_session.cpp and of the         *)
(* handlers in server/client_data.cpp.                                     *)
(*                                                                         *)
(* Between the two are a socket pair, the client process and a connection. *)
(* They are one queue in each direction here: Delivery shows that messages *)
(* arrive once and in order unless a write fails or a receipt is late, and *)
(* the client process passes them on in order.  When a connection ends, a  *)
(* part of what is under way is lost, and the client process says so to    *)
(* the interface and keeps what it still has from the interface for the    *)
(* next connection; what it would send a second time is left to Delivery.  *)
(***************************************************************************)
EXTENDS GameSession, Interface

CONSTANTS
    Key,            \* the arrow keys that are used, a bound on the cells touched
    Prompt,         \* whether every message is processed before the server waits again
    MaxInFlight,    \* bound on the messages to one client at which no key is pressed
                    \* and the server does not wait
    MaxRequests,    \* bound on the requests for a game
    MaxBreaks       \* bound on the connections that break

ASSUME PlayAssumption ==
    /\ Key \subseteq Arrow
    /\ Prompt \in BOOLEAN
    /\ {MaxInFlight, MaxRequests, MaxBreaks} \subseteq Nat
    /\ {f \in Field : is_valid_start_field(f)} \subseteq SentField
    /\ Cell \subseteq Shot

VARIABLES
    interface,      \* of each client
    to_interface,   \* on the way to each client's interface
    to_session,     \* on the way from it
    connected,      \* has_server_connection of each client process
    requests,       \* counters for the bounds
    breaks

counters == <<requests, breaks>>
clientVars == <<interface, to_interface, to_session, connected, counters>>
playVars == <<vars, clientVars>>

PlayInit ==
    /\ Init
    /\ interface = [c \in Client |-> NewInterface]
    /\ to_interface = [c \in Client |-> <<>>]
    /\ to_session = [c \in Client |-> <<>>]
    /\ connected = [c \in Client |-> FALSE]
    /\ requests = 0
    /\ breaks = 0

-----------------------------------------------------------------------------
(***************************************************************************)
(* What the steps of the session send                                      *)
(***************************************************************************)

\* What each client gets of `sent', the messages for the player in each slot.
SentTo(sent, c) ==
    IF \E i \in PlayerNumber : players'[i] = c
    THEN sent[CHOOSE i \in PlayerNumber : players'[i] = c] ELSE <<>>

\* The players who are sent away or have left.
Gone == {c \in Client : HasPlayer(c) /\ \A i \in PlayerNumber : players'[i] # c}

Prefixes(s) == {SubSeq(s, 1, n) : n \in 0 .. Len(s)}
Suffixes(s) == {SubSeq(s, n + 1, Len(s)) : n \in 0 .. Len(s)}

\* These connections end: of what was under way some arrives and some is lost, in
\* both directions, and the client process tells the interface
\* (_on_broken_server_conn).  The others get what is sent.
SendAndClose(sent, closed) ==
    /\ \E arrived \in [closed -> UNION {Prefixes(to_interface[c]) : c \in closed}],
          kept \in [closed -> UNION {Suffixes(to_session[c]) : c \in closed}] :
          /\ \A c \in closed : /\ arrived[c] \in Prefixes(to_interface[c])
                               /\ kept[c] \in Suffixes(to_session[c])
          /\ to_interface' = [c \in Client |->
                                 IF c \in closed
                                 THEN Append(arrived[c], ServerConnStatusMsg(FALSE))
                                 ELSE to_interface[c] \o SentTo(sent, c)]
          /\ to_session' = [c \in Client |-> IF c \in closed THEN kept[c] ELSE to_session[c]]
    /\ connected' = [c \in Client |-> connected[c] /\ c \notin closed]
    /\ UNCHANGED interface

\* What is sent to the players by a step that sends nobody away.
Send(sent) ==
    /\ to_interface' = [c \in Client |-> to_interface[c] \o SentTo(sent, c)]
    /\ UNCHANGED <<interface, connected>>

Nothing == [i \in PlayerNumber |-> <<>>]

ToAll(msgs) == [i \in PlayerNumber |-> msgs]

\* send_game_state_for_all and the answer to a request.
StateSent == ToAll(<<GameStateMsg(state')>>)

\* Variant: the player is not shown his own field.
StartFieldsSent_enemys_only ==
    [i \in PlayerNumber |-> <<GameFieldMsg(get_for_enemy(fields[enemy_idx(i)]), FALSE)>>]

\* send_start_fields
StartFieldsSent ==
    [i \in PlayerNumber |-> <<GameFieldMsg(fields[i], TRUE),
                              GameFieldMsg(get_for_enemy(fields[enemy_idx(i)]), FALSE)>>]

\* _start_new_turn
TurnStarted ==
    [i \in PlayerNumber |-> <<StartTurnMsg(i = cur_turn_player_idx', TURN_DURATION)>>]

\* Variant: the stop of the turn is for the player in turn only.
TurnStopped_one ==
    [i \in PlayerNumber |->
        IF i = cur_turn_player_idx THEN <<StopTurnMsg(TRUE)>> ELSE <<>>]

\* end_turn
TurnStopped == [i \in PlayerNumber |-> <<StopTurnMsg(i = cur_turn_player_idx)>>]

\* Variant: the board that was shot at is shown to its owner only.
FieldsSent_owner_only ==
    [i \in PlayerNumber |->
        IF i = cur_turn_player_idx THEN <<>> ELSE <<GameFieldMsg(fields'[i], TRUE)>>]

\* _send_fields: the board that was shot at, for both.
FieldsSent ==
    [i \in PlayerNumber |->
        IF i = cur_turn_player_idx
        THEN <<GameFieldMsg(get_for_enemy(fields'[enemy_idx(i)]), FALSE)>>
        ELSE <<GameFieldMsg(fields'[i], TRUE)>>]

\* _send_game_result
ResultSent ==
    [i \in PlayerNumber |->
        <<GameStateMsg(IF i = cur_turn_player_idx THEN "WIN_GAME" ELSE "LOSE_GAME")>>]

Both(first, second) == [i \in PlayerNumber |-> first[i] \o second[i]]

-----------------------------------------------------------------------------
(***************************************************************************)
(* The session handles a message of a client                               *)
(***************************************************************************)

\* The next message of this client that the session sees.
Serve(c, type) ==
    /\ connected[c]
    /\ pc = "clients"
    /\ to_session[c] # <<>>
    /\ Head(to_session[c]).type = type
    /\ to_session' = [to_session EXCEPT ![c] = Tail(@)]
    /\ UNCHANGED counters

\* _process_game_session_req_msg, also from a player.
ServeSessionReq(c) ==
    /\ Serve(c, "GAME_SESSION_REQ")
    /\ \/ JoinFirst(c) /\ Send([Nothing EXCEPT ![FirstFree] = <<GameStateMsg(state')>>])
       \/ JoinSecond(c) /\ Send(ToAll(<<StartFieldReqMsg(PREPARATION_DURATION)>>))
       \/ /\ HasPlayer(c)
          /\ UNCHANGED vars
          /\ Send([Nothing EXCEPT ![Slot(c)] = <<GameStateMsg(state)>>])

\* _process_game_field_msg: a field that is refused is answered with an error,
\* which the interface does not show.
ServeField(c) ==
    /\ Serve(c, "GAME_FIELD")
    /\ LET f == Head(to_session[c]).field
       IN  \/ SendField(c, f)
           \/ /\ ~(HasPlayer(c) /\ is_valid_start_field(f) /\ state \in {"PREPARATION", "WAIT_START"})
              /\ UNCHANGED vars
    /\ Send(Nothing)

\* _process_game_move_msg
ServeMove(c) ==
    /\ Serve(c, "GAME_MOVE")
    /\ LET point == Head(to_session[c]).point
       IN  \/ Move(c, point) /\ Send(TurnStopped)
           \/ LateMove(c, point) /\ Send(Nothing)
           \/ /\ ~(/\ HasPlayer(c)
                   /\ state \in {"GAME_TURN", "PROCESS_TURN"}
                   /\ Slot(c) = cur_turn_player_idx
                   /\ ~has_last_shot)
              /\ UNCHANGED vars
              /\ Send(Nothing)

-----------------------------------------------------------------------------
(***************************************************************************)
(* The timeouts of the session                                             *)
(***************************************************************************)

\* Everything that was sent has arrived and has been processed.
AllArrived ==
    \A c \in Client : to_interface[c] = <<>> /\ (connected[c] => to_session[c] = <<>>)

Wait(ticks) ==
    /\ Select(ticks)
    /\ Prompt => AllArrived
    /\ \A c \in Client : Len(to_interface[c]) <= MaxInFlight
    /\ UNCHANGED clientVars

Pass == (TakeHandler \/ EndPass) /\ UNCHANGED clientVars

\* A timeout may also send players away.
Inform(sent) == SendAndClose(sent, Gone)

\* What the event of the handler that is due sends.
SessionEvent ==
    /\ \/ PreparationTimeout /\
              Inform(IF state = "PREPARATION"
                     THEN Both(ToAll(<<StopPreparationMsg>>), StateSent) ELSE Nothing)
       \/ CheckStartFieldsTimeout /\
              Inform(IF Cardinality({i \in PlayerNumber : players'[i] # None}) = 1 THEN StateSent
                     ELSE IF state' = "WAIT_START" THEN StartFieldsSent ELSE Nothing)
       \/ GameStartTimeout /\ Inform(IF state = "WAIT_START" THEN TurnStarted ELSE Nothing)
       \/ GameTurnTimeout /\ Inform(IF state = "GAME_TURN" THEN TurnStopped ELSE Nothing)
       \/ ChangeTurnTimeout /\
              Inform(IF state # "PROCESS_TURN" THEN Nothing
                     ELSE Both(FieldsSent, IF state' = "GAME_TURN" THEN TurnStarted ELSE ResultSent))
       \/ EndGameTimeout /\ Inform(Nothing)
    /\ UNCHANGED counters

-----------------------------------------------------------------------------
(***************************************************************************)
(* The clients                                                             *)
(***************************************************************************)

\* The player of this client presses a key, which changes his interface and may
\* send something.
KeyPressed(c, ui, msgs) ==
    /\ Len(to_session[c]) + Len(msgs) <= MaxInFlight
    /\ interface' = [interface EXCEPT ![c] = ui]
    /\ to_session' = [to_session EXCEPT ![c] = @ \o msgs]
    /\ UNCHANGED <<vars, to_interface, connected, breaks>>

PressKey(c, ui, msgs) == KeyPressed(c, ui, msgs) /\ UNCHANGED requests

PressArrow(c, key) ==
    CanMoveCursor(interface[c]) /\ PressKey(c, CursorMoved(interface[c], key), <<>>)

PrepareCell(c) ==
    CanPrepareCell(interface[c]) /\ PressKey(c, CellPrepared(interface[c]), <<>>)

Shoot(c) ==
    /\ CanShoot(interface[c])
    /\ LET ui == ShotSent(interface[c]) IN PressKey(c, ui, <<GameMoveMsg(ui.last_shot)>>)

AskForGame(c) ==
    /\ requests < MaxRequests
    /\ requests' = requests + 1
    /\ KeyPressed(c, interface[c], <<GameSessionReqMsg>>)

\* The key `c', and _connect_to_server of the client process.
Connect(c) ==
    /\ ~connected[c]
    /\ connected' = [connected EXCEPT ![c] = TRUE]
    /\ to_interface' = [to_interface EXCEPT ![c] = Append(@, ServerConnStatusMsg(TRUE))]
    /\ UNCHANGED <<vars, interface, to_session, counters>>

\* The interface processes the next message.
Deliver(c) ==
    /\ to_interface[c] # <<>>
    /\ LET msg == Head(to_interface[c])
       IN  /\ interface' = [interface EXCEPT ![c] = Handled(@, msg)]
           /\ to_session' = [to_session EXCEPT ![c] = @ \o Reply(interface[c], msg)]
    /\ to_interface' = [to_interface EXCEPT ![c] = Tail(@)]
    /\ UNCHANGED <<vars, connected, counters>>

\* A connection breaks, and the server reads the end of it.
Break(c) ==
    /\ connected[c]
    /\ breaks < MaxBreaks
    /\ breaks' = breaks + 1
    /\ \/ Leave(c)
       \/ ~HasPlayer(c) /\ UNCHANGED vars
    /\ SendAndClose(Nothing, {c})
    /\ UNCHANGED requests

PlayNext ==
    \/ \E ticks \in 0 .. MaxPassed : Wait(ticks)
    \/ Pass
    \/ SessionEvent
    \/ \E c \in Client :
          \/ ServeSessionReq(c) \/ ServeField(c) \/ ServeMove(c)
          \/ \E key \in Key : PressArrow(c, key)
          \/ PrepareCell(c) \/ Shoot(c) \/ AskForGame(c)
          \/ Connect(c) \/ Deliver(c) \/ Break(c)

PlaySpec == PlayInit /\ [][PlayNext]_playVars

-----------------------------------------------------------------------------
(***************************************************************************)
(* Properties                                                              *)
(***************************************************************************)

\* The members and messages of the clients have their types.
PlayTypeOK ==
    /\ interface \in [Client -> Interface]
    /\ to_interface \in [Client -> Seq(InterfaceMsg)]
    /\ to_session \in [Client -> Seq(SessionMsg)]
    /\ connected \in [Client -> BOOLEAN]

\* The session that these players use is one that GameSession describes: what it
\* takes from them is a legal field or a cell of the board, however their
\* interfaces came to send it, and nothing they do moves it in another way.
SessionSpec == Spec

\* Whatever a session sends and however long it takes, the cursor of a player is
\* on a cell of the field that he works on, and his count-down runs exactly as
\* long as a deadline is due.
CursorAndClockFit == \A c \in Client : CursorFits(interface[c]) /\ ClockFits(interface[c])

\* The player in slot i has processed all that he was sent, and the session all
\* that he sent.
UpToDate(i) ==
    /\ players[i] # None
    /\ to_interface[players[i]] = <<>>
    /\ to_session[players[i]] = <<>>

\* A player who is up to date works in the mode that the session's state calls
\* for, whoever played with him before and however that match broke off.  Two
\* things are not promised: a player whose partner has left is not told that he
\* waits, and works on in the mode he was in; and a shot that was left behind by
\* the turn in which a match broke off makes the session refuse the first shot.
InterfaceFollowsSession ==
    \A i \in PlayerNumber : UpToDate(i) =>
        LET mode == interface[players[i]].mode
        IN  /\ state = "PREPARATION" => mode = "PREPARATION_MODE"
            /\ state \in {"WAIT_START", "PROCESS_TURN"} => mode = "WAIT_MODE"
            /\ state = "GAME_TURN" /\ i # cur_turn_player_idx => mode = "ENEMY_TURN_MODE"
            /\ state = "GAME_TURN" /\ i = cur_turn_player_idx =>
                   mode = "OWN_TURN_MODE" \/ (mode = "WAIT_MODE" /\ has_last_shot)

\* While a turn is on or being processed, a player who is up to date sees the
\* enemy's board as the session has it, and his own too, once it has been shot at.
\* Before that he may see another field that is ready for the game: both boards are
\* shown when the fields are checked, and set_field goes on taking a field until
\* the first turn, so a field on its way for that long replaces the one that an
\* earlier player has left in the slot and has just been shown.  All this takes
\* starts that do not overlap (in the runs MaxTimers = 1): a timeout that is left
\* of an earlier match can start the first turn before the fields are checked and
\* shown.
ShownBoardsAgree ==
    state \in {"GAME_TURN", "PROCESS_TURN"} =>
        \A i \in PlayerNumber : UpToDate(i) =>
            LET shown == interface[players[i]].own_field
            IN  /\ interface[players[i]].enemy_field = get_for_enemy(fields[enemy_idx(i)])
                /\ \/ shown = fields[i]
                   \/ is_valid_start_field(shown) /\ is_valid_start_field(fields[i])

\* A shot that the session takes from a player is at a cell that can be shot at:
\* the check that the interface makes on the board it shows is good enough, and
\* no player loses his shot to a random one.  This takes messages that do not
\* outlive a turn (Prompt): a shot that arrives in a later turn of the same player
\* is taken for that turn, whatever has become of the cell.
ShotsCount ==
    [][last_shot' # last_shot /\ last_shot' # NoShot =>
           shot_result(fields[enemy_idx(cur_turn_player_idx)], last_shot') # "EMPTY"]_playVars

=============================================================================
