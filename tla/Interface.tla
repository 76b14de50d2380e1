------------------------------ MODULE Interface ------------------------------
(***************************************************************************)
(* What a player sees and what the keys do: client/ncurses/cursor.cpp, the *)
(* handlers of client/ncurses/ncurses_interface.cpp, the members of        *)
(* client/interface/game_interface.cpp, and the handlers of the messages   *)
(* in client/game/bs_game.cpp, which call them.                            *)
(*                                                                         *)
(* The module has no state.  An interface is a record of the members that  *)
(* decide what happens, and each operation is an operator that returns the *)
(* changed interface.  What is drawn follows from the record.              *)
(***************************************************************************)
EXTENDS GameField

CONSTANTS
    OwnFieldStart,      \* <<OWN_FIELD_START_X, OWN_FIELD_START_Y>> on the screen
    EnemyFieldStart     \* <<ENEMY_FIELD_START_X, ENEMY_FIELD_START_Y>>

ASSUME InterfaceAssumption == {OwnFieldStart, EnemyFieldStart} \subseteq Int \X Int

-----------------------------------------------------------------------------
(***************************************************************************)
(* Cursor                                                                  *)
(***************************************************************************)

Plus(p, q) == <<p[1] + q[1], p[2] + q[2]>>
Minus(p, q) == <<p[1] - q[1], p[2] - q[2]>>

\* set_boundary for the field that starts at this point of the screen.
CursorOn(start) ==
    [pos |-> start, min |-> start, max |-> Plus(start, <<FLD_SZ, FLD_SZ>>)]

\* _check_pos for one coordinate: over an edge and in again at the other side.
Wrapped(x, min, max) == IF x < min THEN max - 1 ELSE IF x >= max THEN min ELSE x

\* Variant: a position over the edge is kept.
At_unchecked(cursor, pos) == [cursor EXCEPT !.pos = pos]

\* set_pos and move.
At(cursor, pos) ==
    [cursor EXCEPT !.pos = <<Wrapped(pos[1], cursor.min[1], cursor.max[1]),
                             Wrapped(pos[2], cursor.min[2], cursor.max[2])>>]

set_related_pos(cursor, point) == At(cursor, Plus(point, cursor.min))
get_related_pos(cursor) == Minus(cursor.pos, cursor.min)

-----------------------------------------------------------------------------
(***************************************************************************)
(* The interface                                                           *)
(***************************************************************************)

InterfaceMode == {"IDLE_MODE", "WAIT_MODE", "PREPARATION_MODE", "OWN_TURN_MODE",
                  "ENEMY_TURN_MODE"}

ShownState == {"NO_VACANT_GAME", "WAIT_PLAYER", "PREPARATION", "WAIT_START", "GAME_TURN",
               "PROCESS_TURN", "OWN_TURN", "ENEMY_TURN", "WIN_GAME", "LOSE_GAME"}

\* The clock of the current mode: a stopped one, or the time it was started for.
INACTIVE == -1

Interface ==
    [mode : InterfaceMode, state : ShownState, own_field : Field, enemy_field : Field,
     last_shot : Cell, cursor : [pos : Int \X Int, min : Int \X Int, max : Int \X Int],
     timer : Nat \cup {INACTIVE}, has_sever_conn : BOOLEAN]

\* The constructors.
NewInterface ==
    [mode |-> "IDLE_MODE", state |-> "NO_VACANT_GAME",
     own_field |-> EmptyField, enemy_field |-> EmptyField, last_shot |-> <<0, 0>>,
     cursor |-> CursorOn(OwnFieldStart), timer |-> INACTIVE, has_sever_conn |-> FALSE]

\* timer.set_duration and timer.start: a deadline that has passed leaves 0.
Started(duration) == IF duration < 0 THEN 0 ELSE duration

activate_preparation_mode(ui, duration) ==
    [ui EXCEPT !.mode = "PREPARATION_MODE",
               !.cursor = CursorOn(OwnFieldStart),
               !.timer = Started(duration)]

stop_preparation_mode(ui) ==
    IF ui.mode # "PREPARATION_MODE" THEN ui
    ELSE [ui EXCEPT !.mode = "WAIT_MODE",
                    !.last_shot = <<0, 0>>,
                    !.timer = INACTIVE]

\* Variant: the cursor stays on the player's own field.
activate_own_turn_mode_elsewhere(ui, duration) ==
    [ui EXCEPT !.mode = "OWN_TURN_MODE",
               !.cursor = set_related_pos(ui.cursor, ui.last_shot),
               !.timer = Started(duration)]

\* The cursor is put where the player shot last.
activate_own_turn_mode(ui, duration) ==
    [ui EXCEPT !.mode = "OWN_TURN_MODE",
               !.cursor = set_related_pos(CursorOn(EnemyFieldStart), ui.last_shot),
               !.timer = Started(duration)]

activate_enemy_turn_mode(ui, duration) ==
    [ui EXCEPT !.mode = "ENEMY_TURN_MODE", !.timer = Started(duration)]

\* stop_own_turn_mode and stop_enemy_turn_mode.
stop_turn_mode(ui) == [ui EXCEPT !.mode = "WAIT_MODE", !.timer = INACTIVE]

-----------------------------------------------------------------------------
(***************************************************************************)
(* Keys                                                                    *)
(***************************************************************************)

\* KEY_UP, KEY_DOWN, KEY_LEFT and KEY_RIGHT as offsets of the cursor.
Arrow == {<<0, -1>>, <<0, 1>>, <<-1, 0>>, <<1, 0>>}

\* _process_move_input
CanMoveCursor(ui) == ui.mode \in {"PREPARATION_MODE", "OWN_TURN_MODE"}
CursorMoved(ui, arrow) == [ui EXCEPT !.cursor = At(@, Plus(@.pos, arrow))]

\* _process_enter_input during the preparation: the cell under the cursor is
\* taken or given up, whatever it holds from an earlier match.
CanPrepareCell(ui) == ui.mode = "PREPARATION_MODE" /\ contains(get_related_pos(ui.cursor))
CellPrepared(ui) ==
    LET cell == get_related_pos(ui.cursor)
    IN  [ui EXCEPT !.last_shot = cell,
                   !.own_field[cell] = IF @ = "EMPTY" THEN "UNHARMED" ELSE "EMPTY"]

\* _process_enter_input in the player's turn, at a cell that is shown empty, and
\* the reaction of BattleshipGame::_send_shot_pos, which sends last_shot.
CanShoot(ui) ==
    /\ ui.mode = "OWN_TURN_MODE"
    /\ get_state(ui.enemy_field, get_related_pos(ui.cursor)) = "EMPTY"

ShotSent(ui) == stop_turn_mode([ui EXCEPT !.last_shot = get_related_pos(ui.cursor)])

-----------------------------------------------------------------------------
(***************************************************************************)
(* Messages                                                                *)
(***************************************************************************)

\* From the session and the connection.  A deadline is told as the time left.
GameStateMsg(state) == [type |-> "GAME_STATE", state |-> state]
StartFieldReqMsg(duration) == [type |-> "START_FIELD_REQ", duration |-> duration]
StopPreparationMsg == [type |-> "STOP_PREPARATION"]
StartTurnMsg(is_own, duration) ==
    [type |-> "START_TURN", is_own |-> is_own, duration |-> duration]
StopTurnMsg(is_own) == [type |-> "STOP_TURN", is_own |-> is_own]
GameFieldMsg(field, is_own) == [type |-> "GAME_FIELD", field |-> field, is_own |-> is_own]
ServerConnStatusMsg(connected) == [type |-> "SERVER_CONN_STATUS", connected |-> connected]

\* To the session.
GameSessionReqMsg == [type |-> "GAME_SESSION_REQ"]
GameMoveMsg(point) == [type |-> "GAME_MOVE", point |-> point]

InterfaceMsg ==
    [type : {"GAME_STATE"}, state : ShownState]
        \cup [type : {"START_FIELD_REQ"}, duration : Int]
        \cup [type : {"STOP_PREPARATION"}]
        \cup [type : {"START_TURN"}, is_own : BOOLEAN, duration : Int]
        \cup [type : {"STOP_TURN"}, is_own : BOOLEAN]
        \cup [type : {"GAME_FIELD"}, field : Field, is_own : BOOLEAN]
        \cup [type : {"SERVER_CONN_STATUS"}, connected : BOOLEAN]

SessionMsg ==
    [type : {"GAME_SESSION_REQ"}]
        \cup [type : {"GAME_FIELD"}, field : Field, is_own : BOOLEAN]
        \cup [type : {"GAME_MOVE"}, point : Cell]

\* _process_msg_from_server: what becomes of the interface.
Handled(ui, msg) ==
    CASE msg.type = "GAME_STATE" -> [ui EXCEPT !.state = msg.state]
      [] msg.type = "START_FIELD_REQ" ->
             [activate_preparation_mode(ui, msg.duration) EXCEPT !.state = "PREPARATION"]
      [] msg.type = "STOP_PREPARATION" ->
             [stop_preparation_mode(ui) EXCEPT !.state = "WAIT_START"]
      [] msg.type = "START_TURN" /\ msg.is_own ->
             [activate_own_turn_mode(ui, msg.duration) EXCEPT !.state = "OWN_TURN"]
      [] msg.type = "START_TURN" /\ ~msg.is_own ->
             [activate_enemy_turn_mode(ui, msg.duration) EXCEPT !.state = "ENEMY_TURN"]
      [] msg.type = "STOP_TURN" -> [stop_turn_mode(ui) EXCEPT !.state = "PROCESS_TURN"]
      [] msg.type = "GAME_FIELD" /\ msg.is_own -> [ui EXCEPT !.own_field = msg.field]
      [] msg.type = "GAME_FIELD" /\ ~msg.is_own -> [ui EXCEPT !.enemy_field = msg.field]
      [] msg.type = "SERVER_CONN_STATUS" -> [ui EXCEPT !.has_sever_conn = msg.connected]

\* What is sent in reply: the end of the preparation calls for the field.
Reply(ui, msg) ==
    IF msg.type = "STOP_PREPARATION" THEN <<GameFieldMsg(ui.own_field, TRUE)>> ELSE <<>>

-----------------------------------------------------------------------------
(***************************************************************************)
(* What is right of an interface at any time                               *)
(***************************************************************************)

\* The cursor is on a cell of the field that starts at this point.
CursorIn(ui, start) ==
    /\ ui.cursor = [CursorOn(start) EXCEPT !.pos = ui.cursor.pos]
    /\ get_related_pos(ui.cursor) \in Cell

\* The cursor is on the field that the mode is about.
CursorFits(ui) ==
    /\ ui.mode = "PREPARATION_MODE" => CursorIn(ui, OwnFieldStart)
    /\ ui.mode = "OWN_TURN_MODE" => CursorIn(ui, EnemyFieldStart)

\* A clock runs in the modes that end at a deadline and in no other.
ClockFits(ui) ==
    ui.timer # INACTIVE <=>
        ui.mode \in {"PREPARATION_MODE", "OWN_TURN_MODE", "ENEMY_TURN_MODE"}

=============================================================================
