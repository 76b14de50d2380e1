------------------------------- MODULE Match -------------------------------
(***************************************************************************)
(* What a session promises to its players, without the timeouts, pointers  *)
(* and messages of server/game_session.cpp: who sits where, the two        *)
(* boards, how far the match is and whose turn it is.  Each step may come  *)
(* at any time; GameSession implements this module and says when.  The     *)
(* rules of a board are parameters: GameField has them.                    *)
(***************************************************************************)
EXTENDS Integers

CONSTANTS
    Client,
    None,
    Cell,
    EmptyField,
    LegalField,             \* the boards that players may prepare
    shot_result(_, _),      \* of a shot at a board: DAMAGED, MISSED, or EMPTY if it counts not
    register_shot(_, _),    \* the board after the shot
    all_ships_destroyed(_)

VARIABLES
    players,        \* who sits at the two seats
    boards,
    stage,          \* open, preparing, ready, turn, between or over
    turn            \* whose turn it is; after the match, who has won

matchVars == <<players, boards, stage, turn>>

PlayerNumber == {0, 1}

Stage == {"open", "preparing", "ready", "turn", "between", "over"}

Seated == {i \in PlayerNumber : players[i] # None}

enemy_of(i) == 1 - i

Init ==
    /\ players = [i \in PlayerNumber |-> None]
    /\ boards = [i \in PlayerNumber |-> EmptyField]
    /\ stage = "open"
    /\ turn = 0

-----------------------------------------------------------------------------

\* A newcomer takes a free seat; with the second one the preparation begins.
TakeSeat(client) ==
    /\ \A i \in PlayerNumber : players[i] # client
    /\ \E i \in PlayerNumber \ Seated :
          /\ players' = [players EXCEPT ![i] = client]
          /\ stage' = IF Seated = {} THEN "open" ELSE "preparing"
    /\ UNCHANGED <<boards, turn>>

\* Some players leave or are sent away, at any time: the match is broken up.
BreakUp ==
    /\ \E gone \in SUBSET Seated :
          /\ gone # {}
          /\ players' = [i \in PlayerNumber |-> IF i \in gone THEN None ELSE players[i]]
    /\ stage' = "open"
    /\ UNCHANGED <<boards, turn>>

\* A legal field is taken as long as no turn has begun.
Prepare ==
    /\ stage \in {"preparing", "ready"}
    /\ \E i \in Seated, f \in LegalField : boards' = [boards EXCEPT ![i] = f]
    /\ UNCHANGED <<players, stage, turn>>

ClosePreparation ==
    /\ stage = "preparing"
    /\ stage' = "ready"
    /\ UNCHANGED <<players, boards, turn>>

\* Either player may begin.
Begin ==
    /\ stage = "ready"
    /\ stage' = "turn"
    /\ turn' \in PlayerNumber
    /\ UNCHANGED <<players, boards>>

\* A turn ends, by a shot or without.
EndTurn ==
    /\ stage = "turn"
    /\ stage' = "between"
    /\ UNCHANGED <<players, boards, turn>>

\* One shot at an open cell of the other's board is recorded.  When it sinks the
\* last ship the match is over; otherwise a hit keeps the turn.
RecordShot ==
    /\ stage = "between"
    /\ LET enemy == enemy_of(turn)
       IN  \E shot \in Cell :
              /\ shot_result(boards[enemy], shot) # "EMPTY"
              /\ boards' = [boards EXCEPT ![enemy] = register_shot(@, shot)]
              /\ IF all_ships_destroyed(boards'[enemy])
                 THEN /\ stage' = "over"
                      /\ UNCHANGED turn
                 ELSE /\ stage' = "turn"
                      /\ turn' = IF shot_result(boards[enemy], shot) = "DAMAGED"
                                   THEN turn ELSE enemy
    /\ UNCHANGED players

\* When the match is over, a change of turn that was left behind may still mark
\* water on the loser's board.
MarkAfterwards ==
    /\ stage = "over"
    /\ \E shot \in Cell :
          /\ shot_result(boards[enemy_of(turn)], shot) = "MISSED"
          /\ boards' = [boards EXCEPT ![enemy_of(turn)] = register_shot(@, shot)]
    /\ UNCHANGED <<players, stage, turn>>

Next ==
    \/ \E client \in Client : TakeSeat(client)
    \/ BreakUp
    \/ Prepare
    \/ ClosePreparation
    \/ Begin
    \/ EndTurn
    \/ RecordShot
    \/ MarkAfterwards

Spec == Init /\ [][Next]_matchVars

=============================================================================
