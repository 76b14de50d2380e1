----------------------------- MODULE FieldShots -----------------------------
(***************************************************************************)
(* One board of a match.  First its player prepares it: in preparation     *)
(* mode the Space key puts or takes away a ship cell under the cursor      *)
(* (client/ncurses/ncurses_interface.cpp), until the server accepts the    *)
(* field.  Then it is under fire: shots at any points, repeated or off the *)
(* board, in any order.                                                    *)
(*                                                                         *)
(* `start' and `shots' are history: the field as it was accepted and the   *)
(* cells fired at so far.                                                  *)
(***************************************************************************)
EXTENDS FieldRules

CONSTANTS
    Target,         \* the points to fire at
    MaxShots        \* bound on the number of different cells fired at

ASSUME ShotsAssumption == MaxShots \in Nat

VARIABLES
    field,
    accepted,       \* whether the preparation is over
    start,
    shots

vars == <<field, accepted, start, shots>>

Init ==
    /\ field = EmptyField
    /\ accepted = FALSE
    /\ start = EmptyField
    /\ shots = {}

\* Enter on one cell of the own field.
process_enter_input(pos) ==
    /\ ~accepted
    /\ contains(pos)
    /\ field' = [field EXCEPT ![pos] =
                    IF get_state(field, pos) = "EMPTY" THEN "UNHARMED" ELSE "EMPTY"]
    /\ UNCHANGED <<accepted, start, shots>>

\* GameSession takes the field and finds it valid.
Accept ==
    /\ ~accepted
    /\ is_valid_start_field(field)
    /\ accepted' = TRUE
    /\ start' = field
    /\ UNCHANGED <<field, shots>>

\* GameField::register_shot.
Shot(point) ==
    /\ accepted
    /\ point \in Cell \ shots => Cardinality(shots) < MaxShots
    /\ field' = register_shot(field, point)
    /\ shots' = IF contains(point) THEN shots \cup {point} ELSE shots
    /\ UNCHANGED <<accepted, start>>

Next ==
    \/ \E pos \in Cell : process_enter_input(pos)
    \/ Accept
    \/ \E point \in Target : Shot(point)

Spec == Init /\ [][Next]_vars

-----------------------------------------------------------------------------

\* The board is a board and the history is about it.
TypeOK ==
    /\ field \in Field
    /\ accepted \in BOOLEAN
    /\ start \in Field
    /\ shots \subseteq Cell

\* The row by row scan of is_valid_start_field accepts a board exactly when the
\* rules of the game do: ships that touch, bend, are too long or too many must
\* not get past the order in which the scan cuts ships out of the board.
ScanAcceptsLegalFields ==
    ~accepted => (is_valid_start_field(field) <=> LegalStart(field))

\* Whatever the order of the shots and the repetitions among them, the board
\* shows what the rules say of the set of cells fired at: register_shot never
\* marks a ship cell as a miss, declares a ship sunk neither early nor late and
\* surrounds it completely.
BoardFollowsRules == accepted => field = BoardAfter(start, shots)

\* What the opponent is shown (get_for_enemy) keeps the cells he has hit and
\* looks the same for every unharmed cell and untouched water, so that the
\* opponent's client can offer him as a target exactly the cells where
\* register_shot will record something.
EnemyTargetsAreOpen ==
    \A c \in Cell :
        get_for_enemy(field)[c] = "EMPTY" <=> shot_result(field, c) # "EMPTY"

\* A recorded shot is final: no later shot changes a damaged or missed cell,
\* and no shot makes more than one ship cell damaged.
MarksAreFinal ==
    [][accepted =>
       /\ \A c \in Cell : field[c] \in {"DAMAGED", "MISSED"} => field'[c] = field[c]
       /\ Cardinality({c \in Cell : field[c] = "UNHARMED" /\ field'[c] # "UNHARMED"}) <= 1]_vars

=============================================================================
