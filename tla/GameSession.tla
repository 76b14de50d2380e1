---------------------------- MODULE GameSession ----------------------------
(***************************************************************************)
(* One game session of the server: server/game_session.cpp, the message    *)
(* handlers of server/client_data.cpp that drive it, the timeout handlers  *)
(* of server/preparation_timeout.cpp and the pass of                       *)
(* BattleshipServer::_process_timeouts that fires them.                    *)
(*                                                                         *)
(* The server is one thread.  Each turn of its loop waits in select, lets  *)
(* the time spent there elapse on every timeout handler, oldest first, and *)
(* then handles what the clients sent.  A step of the model is one message *)
(* handler, or one timeout handler of the pass.  Timeout handlers are      *)
(* objects on a heap: the session keeps a pointer (turn_timeout) to one of *)
(* them, and nothing but the pass deletes them.                            *)
(***************************************************************************)
EXTENDS GameField, Functions

CONSTANTS
    Client,                 \* connections that may ask for a game
    Handle,                 \* addresses of timeout handlers
    None,                   \* the null pointer
    PREPARATION_DURATION,
    TURN_DURATION,
    WAIT_DURATION,          \* durations, in ticks of the server's clock
    MaxPassed,              \* bound on the ticks that pass in one select
    MaxTimers,              \* bound on the handlers alive when a game is joined
    SentField,              \* the fields that clients send
    Shot                    \* the points that clients shoot at

ASSUME SessionAssumption ==
    /\ None \notin Client
    /\ None \notin Handle
    /\ {PREPARATION_DURATION, TURN_DURATION, WAIT_DURATION} \subseteq Nat \ {0}
    /\ MaxPassed \in Nat
    /\ MaxTimers \in Nat
    /\ SentField \subseteq Field
    /\ Shot \subseteq Int \X Int

VARIABLES
    state,                  \* the members of GameSession
    players,
    fields,
    cur_turn_player_idx,
    last_shot,
    turn_timeout,
    told,                   \* the announcement last queued for each player
    timers,                 \* the timeout handlers of the session, by address
    timeout_handlers,       \* the server's list of them
    tmp,                    \* those a running pass keeps
    handler,                \* the handler whose event is due, else None
    passed,                 \* the time that pass lets elapse
    pc                      \* where the server's loop is

sessionVars == <<state, players, fields, cur_turn_player_idx, last_shot, turn_timeout, told>>
timerVars == <<timers, timeout_handlers>>
passVars == <<tmp, handler, passed, pc>>
vars == <<sessionVars, timerVars, passVars>>

-----------------------------------------------------------------------------

\* FIRST_PLAYER and SECOND_PLAYER.
PlayerNumber == {0, 1}

GameState == {"NO_VACANT_GAME", "WAIT_PLAYER", "PREPARATION", "WAIT_START",
              "GAME_TURN", "PROCESS_TURN"}

\* What a player can have been told last: a message, and for the messages that
\* carry a state or a flag, its value.
Announcement ==
    {"NOTHING", "WAIT_PLAYER", "START_FIELD_REQ", "WAIT_START", "START_OWN_TURN",
     "START_ENEMY_TURN", "STOP_OWN_TURN", "STOP_ENEMY_TURN", "WIN_GAME", "LOSE_GAME"}

TimeoutKind == {"Preparation", "CheckStartFields", "GameStart", "GameTurn",
                "ChangeTurn", "EndGame"}

\* A handler that has a kind is allocated; `left' is the time until it fires.
Timer == [kind : TimeoutKind \cup {"deleted"}, left : Nat]
Deleted == [kind |-> "deleted", left |-> 0]

\* Point(-1, -1), which stands for `no shot'.
NoShot == <<-1, -1>>

has_last_shot == last_shot # NoShot

Slot(client) == CHOOSE i \in PlayerNumber : players[i] = client
HasPlayer(client) == \E i \in PlayerNumber : players[i] = client
enemy_idx(i) == 1 - i

\* The players who are present are told `what'; an empty slot is told nothing.
TellAll(ps, what) ==
    [i \in PlayerNumber |-> IF ps[i] = None THEN told[i] ELSE what]

\* The player whose turn it is and his enemy are told different things.
TellTurn(cur, own, enemy) ==
    [i \in PlayerNumber |-> IF i = cur THEN own ELSE enemy]

\* Variant: nobody deletes the handler whose event has run.
Heap_leaking == timers

\* The heap once the handler whose event is running has been deleted, which
\* _process_timeouts does after the event.
Heap ==
    IF handler = None THEN timers ELSE [timers EXCEPT ![handler] = Deleted]

\* `new' of a handler for `duration' at the address h.
New(h, kind, duration) == [Heap EXCEPT ![h] = [kind |-> kind, left |-> duration]]

\* Variant: a null pointer is put on the list.
AddTimeoutHandler_null(h) ==
    /\ timers[h] = Deleted
    /\ timeout_handlers' = Append(timeout_handlers, None)

\* server->add_timeout_handler puts a new handler at the end of the list.
AddTimeoutHandler(h) ==
    /\ timers[h] = Deleted
    /\ timeout_handlers' = Append(timeout_handlers, h)

\* A new handler of this kind is added to the server's list.
StartTimeout(kind, duration) ==
    \E h \in Handle : AddTimeoutHandler(h) /\ timers' = New(h, kind, duration)

Init ==
    /\ state = "NO_VACANT_GAME"
    /\ players = [i \in PlayerNumber |-> None]
    /\ fields = [i \in PlayerNumber |-> EmptyField]
    /\ cur_turn_player_idx = 0
    /\ last_shot = NoShot
    /\ turn_timeout = None
    /\ told = [i \in PlayerNumber |-> "NOTHING"]
    /\ timers = [h \in Handle |-> Deleted]
    /\ timeout_handlers = <<>>
    /\ tmp = <<>>
    /\ handler = None
    /\ passed = 0
    /\ pc = "clients"

-----------------------------------------------------------------------------
(***************************************************************************)
(* Member functions of GameSession                                         *)
(***************************************************************************)

\* Variant: the session waits for a player even when nobody is left.
AfterLeaving_waits(s) == "WAIT_PLAYER"

\* disconnect_player: the state after one of the players is taken out.
AfterLeaving(s) == IF s = "WAIT_PLAYER" THEN "NO_VACANT_GAME" ELSE "WAIT_PLAYER"

\* disconnect_player for the players in the slots `gone', one after the other.
Remaining(gone) == [i \in PlayerNumber |-> IF i \in gone THEN None ELSE players[i]]

StateWithout(gone) ==
    IF gone = {} THEN state
    ELSE IF gone = PlayerNumber THEN AfterLeaving(AfterLeaving(state))
    ELSE AfterLeaving(state)

ToldWithout(gone) == [i \in PlayerNumber |-> IF i \in gone THEN "NOTHING" ELSE told[i]]

\* Variant: the check of the fields is not scheduled.
stop_preparation_unchecked ==
    /\ state = "PREPARATION"
    /\ state' = "WAIT_START"
    /\ told' = TellAll(players, "WAIT_START")
    /\ timers' = Heap
    /\ UNCHANGED <<players, fields, cur_turn_player_idx, last_shot, turn_timeout,
                   timeout_handlers>>

stop_preparation ==
    /\ state = "PREPARATION"
    /\ state' = "WAIT_START"
    /\ told' = TellAll(players, "WAIT_START")
    /\ StartTimeout("CheckStartFields", WAIT_DURATION)
    /\ UNCHANGED <<players, fields, cur_turn_player_idx, last_shot, turn_timeout>>

\* Slots whose player has no valid field when the fields are checked.
Unprepared ==
    {i \in PlayerNumber : players[i] # None /\ ~is_valid_start_field(fields[i])}

\* Both players stay: the fields are sent and the start is scheduled.  If only
\* one stays he waits again; this is done in whatever state the session is.
check_start_fields ==
    \E gone \in SUBSET PlayerNumber :
        /\ gone = Unprepared
        /\ players' = Remaining(gone)
        /\ UNCHANGED <<fields, cur_turn_player_idx, last_shot, turn_timeout>>
        /\ LET stay == {i \in PlayerNumber : players'[i] # None}
           IN  \/ /\ stay = PlayerNumber
                  /\ StartTimeout("GameStart", WAIT_DURATION)
                  /\ UNCHANGED <<state, told>>
               \/ /\ stay \notin {{}, PlayerNumber}
                  /\ state' = "WAIT_PLAYER"
                  /\ told' = [i \in PlayerNumber |->
                                 IF i \in stay THEN "WAIT_PLAYER" ELSE ToldWithout(gone)[i]]
                  /\ timers' = Heap
                  /\ UNCHANGED timeout_handlers
               \/ /\ stay = {}
                  /\ state' = StateWithout(gone)
                  /\ told' = ToldWithout(gone)
                  /\ timers' = Heap
                  /\ UNCHANGED timeout_handlers

\* Variant: the session does not remember the handler of the turn.
start_new_turn_forgetful(cur) ==
    /\ state \in {"WAIT_START", "PROCESS_TURN"}
    /\ state' = "GAME_TURN"
    /\ cur_turn_player_idx' = cur
    /\ told' = TellTurn(cur, "START_OWN_TURN", "START_ENEMY_TURN")
    /\ StartTimeout("GameTurn", TURN_DURATION)
    /\ UNCHANGED turn_timeout

\* Variant: the turn is announced before the player in turn is changed.
start_new_turn_early(cur) ==
    /\ state \in {"WAIT_START", "PROCESS_TURN"}
    /\ state' = "GAME_TURN"
    /\ cur_turn_player_idx' = cur
    /\ told' = TellTurn(cur_turn_player_idx, "START_OWN_TURN", "START_ENEMY_TURN")
    /\ \E h \in Handle :
          /\ AddTimeoutHandler(h)
          /\ timers' = New(h, "GameTurn", TURN_DURATION)
          /\ turn_timeout' = h

start_new_turn(cur) ==
    /\ state \in {"WAIT_START", "PROCESS_TURN"}
    /\ state' = "GAME_TURN"
    /\ cur_turn_player_idx' = cur
    /\ told' = TellTurn(cur, "START_OWN_TURN", "START_ENEMY_TURN")
    /\ \E h \in Handle :
          /\ AddTimeoutHandler(h)
          /\ timers' = New(h, "GameTurn", TURN_DURATION)
          /\ turn_timeout' = h

start_game ==
    /\ state = "WAIT_START"
    /\ \E first \in PlayerNumber : start_new_turn(first)
    /\ UNCHANGED <<players, fields, last_shot>>

\* TimeoutHandler::stop on the handler that turn_timeout points to.
StopTurnTimeout(heap) ==
    IF turn_timeout = None THEN heap ELSE [heap EXCEPT ![turn_timeout].left = 0]

end_turn ==
    /\ state = "GAME_TURN"
    /\ state' = "PROCESS_TURN"
    /\ told' = TellTurn(cur_turn_player_idx, "STOP_OWN_TURN", "STOP_ENEMY_TURN")
    /\ \E h \in Handle :
          /\ AddTimeoutHandler(h)
          /\ timers' = StopTurnTimeout(New(h, "ChangeTurn", WAIT_DURATION))
    /\ turn_timeout' = None
    /\ UNCHANGED <<players, fields, cur_turn_player_idx>>

\* Variant: a shot that hits nothing is not replaced.
EffectiveShot_unchecked(f) ==
    IF has_last_shot THEN {last_shot} ELSE {c \in Cell : shot_result(f, c) # "EMPTY"}

\* _register_shot: the shot of the player, and when there is none or it hits
\* nothing, random shots until one does.  With no cell left to hit the loop of
\* the code does not end, and the model has no step.
EffectiveShot(f) ==
    LET open == {c \in Cell : shot_result(f, c) # "EMPTY"}
    IN  IF has_last_shot /\ shot_result(f, last_shot) # "EMPTY" THEN {last_shot} ELSE open

change_turn_player ==
    LET cur   == cur_turn_player_idx
        enemy == enemy_idx(cur)
    IN  /\ state = "PROCESS_TURN"
        /\ last_shot' = NoShot
        /\ \E shot \in EffectiveShot(fields[enemy]) :
              /\ fields' = [fields EXCEPT ![enemy] = register_shot(@, shot)]
              /\ \/ /\ all_ships_destroyed(fields'[enemy])
                    /\ told' = TellTurn(cur, "WIN_GAME", "LOSE_GAME")
                    /\ StartTimeout("EndGame", WAIT_DURATION)
                    /\ UNCHANGED <<state, cur_turn_player_idx, turn_timeout>>
                 \/ /\ ~all_ships_destroyed(fields'[enemy])
                    /\ start_new_turn(IF shot_result(fields[enemy], shot) = "DAMAGED"
                                        THEN cur ELSE enemy)
        /\ UNCHANGED players

\* Variant: the players stay and start all over.
end_game_rematch ==
    /\ state' = "PREPARATION"
    /\ told' = TellAll(players, "START_FIELD_REQ")
    /\ StartTimeout("Preparation", PREPARATION_DURATION)
    /\ UNCHANGED <<players, fields, cur_turn_player_idx, last_shot, turn_timeout>>

\* Whoever plays is disconnected, in whatever state the session is.
end_game ==
    LET present == {i \in PlayerNumber : players[i] # None}
    IN  /\ players' = Remaining(present)
        /\ state' = StateWithout(present)
        /\ told' = ToldWithout(present)
        /\ timers' = Heap
        /\ UNCHANGED <<fields, cur_turn_player_idx, last_shot, turn_timeout, timeout_handlers>>

-----------------------------------------------------------------------------
(***************************************************************************)
(* Message handlers of ClientData, after the pass over the timeouts        *)
(***************************************************************************)

\* The first free slot takes the client that asks for a game.
FirstFree == IF players[0] = None THEN 0 ELSE 1

Asks(client) ==
    /\ pc = "clients"
    /\ ~HasPlayer(client)
    /\ \E i \in PlayerNumber : players[i] = None
    /\ players' = [players EXCEPT ![FirstFree] = client]
    /\ UNCHANGED <<fields, cur_turn_player_idx, last_shot, turn_timeout, passVars>>

\* _process_game_session_req_msg: the first player is told to wait ...
JoinFirst(client) ==
    /\ Asks(client)
    /\ state = "NO_VACANT_GAME"
    /\ state' = "WAIT_PLAYER"
    /\ told' = [told EXCEPT ![FirstFree] = "WAIT_PLAYER"]
    /\ UNCHANGED timerVars

\* ... and the second makes the session start the preparation.
JoinSecond(client) ==
    /\ Asks(client)
    /\ state # "NO_VACANT_GAME"
    /\ Len(timeout_handlers) < MaxTimers
    /\ state' = "PREPARATION"
    /\ told' = TellAll(players', "START_FIELD_REQ")
    /\ StartTimeout("Preparation", PREPARATION_DURATION)

\* read_msg found the connection broken: disconnect_client.  The timeouts of
\* the session, its fields and its last shot stay as they are.
Leave(client) ==
    /\ pc = "clients"
    /\ HasPlayer(client)
    /\ players' = Remaining({Slot(client)})
    /\ state' = StateWithout({Slot(client)})
    /\ told' = ToldWithout({Slot(client)})
    /\ UNCHANGED <<fields, cur_turn_player_idx, last_shot, turn_timeout, timerVars, passVars>>

\* Variant: a valid field is taken at any time.
SendField_late(client, f) ==
    /\ pc = "clients"
    /\ HasPlayer(client)
    /\ is_valid_start_field(f)
    /\ fields' = [fields EXCEPT ![Slot(client)] = f]
    /\ UNCHANGED <<state, players, cur_turn_player_idx, last_shot, turn_timeout, told,
                   timerVars, passVars>>

\* _process_game_field_msg: only a valid field in time is taken.
SendField(client, f) ==
    /\ pc = "clients"
    /\ HasPlayer(client)
    /\ is_valid_start_field(f)
    /\ state \in {"PREPARATION", "WAIT_START"}
    /\ fields' = [fields EXCEPT ![Slot(client)] = f]
    /\ UNCHANGED <<state, players, cur_turn_player_idx, last_shot, turn_timeout, told,
                   timerVars, passVars>>

\* set_last_shot: only the player in turn, and only one shot at a time.
SetLastShot(client, point) ==
    /\ pc = "clients"
    /\ HasPlayer(client)
    /\ Slot(client) = cur_turn_player_idx
    /\ ~has_last_shot
    /\ last_shot' = point

\* _process_game_move_msg: a shot ends the turn ...
Move(client, point) ==
    /\ SetLastShot(client, point)
    /\ end_turn
    /\ UNCHANGED passVars

\* ... and a shot that comes too late for the turn is kept all the same.
LateMove(client, point) ==
    /\ state = "PROCESS_TURN"
    /\ SetLastShot(client, point)
    /\ UNCHANGED <<state, players, fields, cur_turn_player_idx, turn_timeout, told,
                   timerVars, passVars>>

-----------------------------------------------------------------------------
(***************************************************************************)
(* The pass over the timeout handlers                                      *)
(***************************************************************************)

\* select returns after `ticks'.
Select(ticks) ==
    /\ pc = "clients"
    /\ timeout_handlers # <<>>
    /\ passed' = ticks
    /\ pc' = "timeouts"
    /\ UNCHANGED <<sessionVars, timerVars, tmp, handler>>

\* The oldest handler is taken off the list and `passed' elapses on it.  A
\* stopped one is deleted, one with time left is kept for the next pass, and
\* one whose time is up fires.
TakeHandler ==
    LET h == Head(timeout_handlers)
    IN  /\ pc = "timeouts"
        /\ handler = None
        /\ timeout_handlers # <<>>
        /\ timeout_handlers' = Tail(timeout_handlers)
        /\ \/ /\ timers[h].left = 0
              /\ timers' = [timers EXCEPT ![h] = Deleted]
              /\ UNCHANGED <<tmp, handler>>
           \/ /\ timers[h].left > passed
              /\ timers' = [timers EXCEPT ![h].left = @ - passed]
              /\ tmp' = Append(tmp, h)
              /\ UNCHANGED handler
           \/ /\ timers[h].left \in 1 .. passed
              /\ timers' = [timers EXCEPT ![h].left = 0]
              /\ handler' = h
              /\ UNCHANGED tmp
        /\ UNCHANGED <<sessionVars, passed, pc>>

\* The event of a handler of this kind is due; afterwards it is deleted.
Fires(kind) ==
    /\ handler # None
    /\ timers[handler].kind = kind
    /\ handler' = None
    /\ UNCHANGED <<tmp, passed, pc>>

\* The member function called returns at once.
Ignored ==
    /\ timers' = Heap
    /\ UNCHANGED <<sessionVars, timeout_handlers>>

PreparationTimeout ==
    /\ Fires("Preparation")
    /\ stop_preparation \/ (state # "PREPARATION" /\ Ignored)

CheckStartFieldsTimeout == Fires("CheckStartFields") /\ check_start_fields

GameStartTimeout ==
    /\ Fires("GameStart")
    /\ start_game \/ (state # "WAIT_START" /\ Ignored)

GameTurnTimeout ==
    /\ Fires("GameTurn")
    /\ \/ end_turn /\ UNCHANGED last_shot
       \/ state # "GAME_TURN" /\ Ignored

ChangeTurnTimeout ==
    /\ Fires("ChangeTurn")
    /\ change_turn_player \/ (state # "PROCESS_TURN" /\ Ignored)

EndGameTimeout == Fires("EndGame") /\ end_game

\* The list is empty: the handlers kept become the list.
EndPass ==
    /\ pc = "timeouts"
    /\ handler = None
    /\ timeout_handlers = <<>>
    /\ timeout_handlers' = tmp
    /\ tmp' = <<>>
    /\ passed' = 0
    /\ pc' = "clients"
    /\ UNCHANGED <<sessionVars, timers, handler>>

-----------------------------------------------------------------------------

ClientAction(client) ==
    \/ JoinFirst(client)
    \/ JoinSecond(client)
    \/ Leave(client)
    \/ \E f \in SentField : SendField(client, f)
    \/ \E point \in Shot : Move(client, point) \/ LateMove(client, point)

TimeoutEvent ==
    \/ PreparationTimeout
    \/ CheckStartFieldsTimeout
    \/ GameStartTimeout
    \/ GameTurnTimeout
    \/ ChangeTurnTimeout
    \/ EndGameTimeout

Next ==
    \/ \E client \in Client : ClientAction(client)
    \/ \E ticks \in 0 .. MaxPassed : Select(ticks)
    \/ TakeHandler
    \/ TimeoutEvent
    \/ EndPass

Spec == Init /\ [][Next]_vars

\* The loop goes on, and again and again some time passes in select.
Fairness ==
    /\ WF_vars(TakeHandler \/ TimeoutEvent \/ EndPass)
    /\ SF_vars(\E ticks \in 1 .. MaxPassed : Select(ticks))

FairSpec == Spec /\ Fairness

-----------------------------------------------------------------------------
(***************************************************************************)
(* Properties                                                              *)
(***************************************************************************)

\* Every member holds a value of its C++ type, and every pointer on a list is
\* the address of a handler.
TypeOK ==
    /\ state \in GameState
    /\ players \in [PlayerNumber -> Client \cup {None}]
    /\ fields \in [PlayerNumber -> Field]
    /\ cur_turn_player_idx \in PlayerNumber
    /\ last_shot \in Int \X Int
    /\ turn_timeout \in Handle \cup {None}
    /\ told \in [PlayerNumber -> Announcement]
    /\ timers \in [Handle -> Timer]
    /\ timeout_handlers \in Seq(Handle)
    /\ tmp \in Seq(Handle)
    /\ handler \in Handle \cup {None}
    /\ passed \in 0 .. MaxPassed
    /\ pc \in {"clients", "timeouts"}

Present == {i \in PlayerNumber : players[i] # None}

\* The state says how many players there are.  start_preparation, the turns and
\* the results send to players[0] and players[1] without looking: a null pointer
\* there would crash the server, and nothing but this keeps the pointers set in
\* the states in which those functions do anything, however clients come and go
\* and whichever old timeouts fire.
StateCountsPlayers ==
    /\ state = "NO_VACANT_GAME" <=> Present = {}
    /\ state = "WAIT_PLAYER" <=> \E i \in PlayerNumber : Present = {i}

\* Nothing but the pass deletes a handler, so every handler on the heap must be
\* in its hands: on the list, among those kept, or the one whose event runs, in
\* exactly one of these places, or it would leak, fire twice or be deleted twice.
HandlersOwned ==
    /\ \A h \in Handle :
           timers[h].kind # "deleted" <=>
               h \in Range(timeout_handlers) \cup Range(tmp) \cup {handler}
    /\ IsInjective(timeout_handlers)
    /\ IsInjective(tmp)
    /\ Range(timeout_handlers) \cap Range(tmp) = {}
    /\ handler \notin Range(timeout_handlers) \cup Range(tmp)

\* A handler that will fire.
Pending(kind) == \E h \in Handle : timers[h].kind = kind /\ (timers[h].left > 0 \/ h = handler)

\* end_turn calls turn_timeout->stop().  The pointer is left behind when a
\* player goes during a turn and the handler it points to is deleted later, so
\* it must not be followed then: whenever end_turn can follow it, it points to
\* a live turn timeout.
TurnTimeoutLive ==
    state = "GAME_TURN" =>
        /\ turn_timeout # None
        /\ timers[turn_timeout].kind = "GameTurn"
        /\ timers[turn_timeout].left > 0 \/ turn_timeout = handler

\* No match gets stuck: no message of a player can move it out of these states
\* but the move in GAME_TURN, so a timeout that will must be under way.
MatchHasTimeout ==
    /\ state = "PREPARATION" => Pending("Preparation")
    /\ state = "WAIT_START" => Pending("CheckStartFields") \/ Pending("GameStart")
    /\ state = "GAME_TURN" => Pending("GameTurn")
    /\ state = "PROCESS_TURN" => Pending("ChangeTurn") \/ Pending("EndGame")

\* Both players are always told a consistent story: who is in turn, whose turn
\* was stopped, who has won.
PlayersAgree ==
    LET Story(own, enemy) ==
            /\ told[cur_turn_player_idx] = own
            /\ told[enemy_idx(cur_turn_player_idx)] = enemy
    IN  /\ state = "GAME_TURN" => Story("START_OWN_TURN", "START_ENEMY_TURN")
        /\ state = "PROCESS_TURN" =>
               Story("STOP_OWN_TURN", "STOP_ENEMY_TURN") \/ Story("WIN_GAME", "LOSE_GAME")

\* The player who is told that he has won has destroyed all ships of the other.
WinnerDestroyedAll ==
    state = "PROCESS_TURN" =>
        \A i \in PlayerNumber :
            told[i] = "WIN_GAME" => all_ships_destroyed(fields[enemy_idx(i)])

\* After a result there is no further turn: the match can only break up.
ResultIsFinal ==
    [][state = "PROCESS_TURN" /\ "WIN_GAME" \in {told[0], told[1]}
          => state' \in {"PROCESS_TURN", "WAIT_PLAYER", "NO_VACANT_GAME"}]_vars

\* From one turn to the next exactly one shot is recorded, on the field of the
\* player who was not in turn; a hit keeps the turn and a miss hands it over,
\* whether the player shot, shot too late, shot nowhere or did not shoot.
TurnRecordsOneShot ==
    [][state = "PROCESS_TURN" /\ state' = "GAME_TURN" =>
          LET enemy == enemy_idx(cur_turn_player_idx)
              hit   == {c \in Cell : fields[enemy][c] = "UNHARMED" /\
                                     fields'[enemy][c] = "DAMAGED"}
          IN  /\ fields'[cur_turn_player_idx] = fields[cur_turn_player_idx]
              /\ fields'[enemy] # fields[enemy]
              /\ Cardinality(hit) <= 1
              /\ hit # {} <=> cur_turn_player_idx' = cur_turn_player_idx
              /\ last_shot' = NoShot]_vars

\* How far the match is, as Match counts.
Stage ==
    CASE state \in {"NO_VACANT_GAME", "WAIT_PLAYER"} -> "open"
      [] state = "PREPARATION" -> "preparing"
      [] state = "WAIT_START" -> "ready"
      [] state = "GAME_TURN" -> "turn"
      [] OTHER -> IF "WIN_GAME" \in {told[0], told[1]} THEN "over" ELSE "between"

M == INSTANCE Match WITH
         LegalField <- {f \in SentField : is_valid_start_field(f)},
         boards <- fields, stage <- Stage, turn <- cur_turn_player_idx

\* The session is a match: whatever timeouts of earlier matches fire into it, and
\* whatever messages come late, each step that a player can see is a step of
\* Match, and none is skipped or done twice.
MatchSpec == M!Spec

\* No match goes on for ever, whatever the players do or leave undone and even
\* when they come and go: again and again the session has a free place.
MatchesEnd == []<>(state \in {"NO_VACANT_GAME", "WAIT_PLAYER"})

=============================================================================
