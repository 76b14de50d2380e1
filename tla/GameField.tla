----------------------------- MODULE GameField -----------------------------
(***************************************************************************)
(* The playing board of one player: core/game_field.cpp together with the  *)
(* part of core/ship.cpp it uses.                                          *)
(*                                                                         *)
(* The module has no state.  A field is a function from cells to cell      *)
(* states and each member function that changes the board is an operator   *)
(* that returns the changed board.  The board size and the fleet are       *)
(* constants: the program fixes them to 10 and to the fleet 2, 2, 1, 1, 1  *)
(* of lengths 1 to 5; the model checker uses smaller ones and the proofs   *)
(* hold for all.                                                           *)
(***************************************************************************)
EXTENDS Integers, Sequences, FiniteSets

CONSTANTS
    FLD_SZ,     \* the board is FLD_SZ cells wide and high
    Fleet       \* Fleet[n] ships of length n are to be placed, for n in 1..Len(Fleet)

ASSUME FieldAssumption ==
    /\ FLD_SZ \in Nat \ {0}
    /\ Fleet \in Seq(Nat)

-----------------------------------------------------------------------------
(***************************************************************************)
(* Points, cells, boards                                                   *)
(***************************************************************************)

Coord == 0 .. (FLD_SZ - 1)

\* Points <<x, y>> of the board.
Cell == Coord \X Coord

contains(point) == point \in Cell

CellState == {"EMPTY", "UNHARMED", "DAMAGED", "MISSED"}

Field == [Cell -> CellState]

\* The default constructor.
EmptyField == [c \in Cell |-> "EMPTY"]

\* get_state answers EMPTY off the board.
get_state(f, point) == IF contains(point) THEN f[point] ELSE "EMPTY"

\* The point k steps from `point' in direction `dir'.
Step(point, dir, k) == <<point[1] + k * dir[1], point[2] + k * dir[2]>>

Directions == {<<1, 0>>, <<-1, 0>>, <<0, 1>>, <<0, -1>>}

\* The `around' table: two different cells that touch, diagonals included.
Touching(c, d) ==
    /\ c # d
    /\ c[1] - d[1] \in -1 .. 1
    /\ c[2] - d[2] \in -1 .. 1

-----------------------------------------------------------------------------
(***************************************************************************)
(* Shots                                                                   *)
(***************************************************************************)

\* The damaged cells passed when walking from `point' in direction `dir'
\* until the first cell that is not damaged.
DamagedRun(f, point, dir) ==
    {Step(point, dir, k) : k \in {n \in Coord :
        \A j \in 0 .. n : get_state(f, Step(point, dir, j)) = "DAMAGED"}}

\* Variant: only the walks to the right and down look for unharmed cells.
ship_destroyed_forwards(f, point) ==
    /\ get_state(f, point) = "DAMAGED"
    /\ \A dir \in {<<1, 0>>, <<0, 1>>} : \A c \in DamagedRun(f, point, dir) :
           get_state(f, Step(c, dir, 1)) # "UNHARMED"

\* A ship is destroyed when none of the four walks from the damaged cell stops
\* at an unharmed cell.
ship_destroyed(f, point) ==
    /\ get_state(f, point) = "DAMAGED"
    /\ \A dir \in Directions : \A c \in DamagedRun(f, point, dir) :
           get_state(f, Step(c, dir, 1)) # "UNHARMED"

\* Variant: the surroundings are written without a look at what is there.
mark_boundary_over_ship(f, point) ==
    LET hull == UNION {DamagedRun(f, point, dir) : dir \in Directions}
    IN  [c \in Cell |-> IF \E h \in hull : Touching(c, h) THEN "MISSED" ELSE f[c]]

\* Every empty cell that touches a cell of one of the four walks is missed.
mark_destroyed_ship_boundary(f, point) ==
    LET hull == UNION {DamagedRun(f, point, dir) : dir \in Directions}
    IN  [c \in Cell |-> IF f[c] = "EMPTY" /\ \E h \in hull : Touching(c, h)
                          THEN "MISSED" ELSE f[c]]

\* Variant: a damaged cell can be hit again.
shot_result_again(f, point) ==
    CASE get_state(f, point) \in {"UNHARMED", "DAMAGED"} -> "DAMAGED"
      [] contains(point) /\ get_state(f, point) = "EMPTY" -> "MISSED"
      [] OTHER -> "EMPTY"

\* What register_shot returns.  EMPTY means that nothing was hit and nothing
\* was recorded: the point is off the board or was shot at before.
shot_result(f, point) ==
    CASE get_state(f, point) = "UNHARMED" -> "DAMAGED"
      [] contains(point) /\ get_state(f, point) = "EMPTY" -> "MISSED"
      [] OTHER -> "EMPTY"

\* What register_shot makes of the board.
register_shot(f, point) ==
    LET res  == shot_result(f, point)
        shot == [f EXCEPT ![point] = res]
    IN  IF res = "EMPTY" THEN f
        ELSE IF res = "DAMAGED" /\ ship_destroyed(shot, point)
               THEN mark_destroyed_ship_boundary(shot, point)
               ELSE shot

all_ships_destroyed(f) == \A c \in Cell : f[c] # "UNHARMED"

\* The copy of the board that is sent to the other player.
get_for_enemy(f) == [c \in Cell |-> IF f[c] = "UNHARMED" THEN "EMPTY" ELSE f[c]]

-----------------------------------------------------------------------------
(***************************************************************************)
(* Validation of a start field                                             *)
(***************************************************************************)

\* How many ships of the lengths 1 to n there are, for each n, and of all.
ShipsUpTo[n \in 0 .. Len(Fleet)] == IF n = 0 THEN 0 ELSE ShipsUpTo[n - 1] + Fleet[n]

SHIP_COUNT == ShipsUpTo[Len(Fleet)]

occupied(f, point) == get_state(f, point) # "EMPTY"

\* How many cells in a row are occupied, from `point' on in direction `dir'.
RunLength(f, point, dir) ==
    CHOOSE n \in 0 .. FLD_SZ :
        /\ \A k \in 0 .. (n - 1) : occupied(f, Step(point, dir, k))
        /\ ~occupied(f, Step(point, dir, n))

\* A ship is its head, its direction and its length.  The scan takes the
\* horizontal run; a run of one cell is tried downwards.
Ship(f, head) ==
    LET across == RunLength(f, head, <<1, 0>>)
    IN  IF across > 1
          THEN [head |-> head, delta |-> <<1, 0>>, len |-> across]
          ELSE [head |-> head, delta |-> <<0, 1>>, len |-> RunLength(f, head, <<0, 1>>)]

ship_cells(ship) == {Step(ship.head, ship.delta, k) : k \in 0 .. (ship.len - 1)}

remove_ship(f, ship) == [c \in Cell |-> IF c \in ship_cells(ship) THEN "EMPTY" ELSE f[c]]

\* The n-th cell in the order of the scan, row by row.
Position(n) == <<n % FLD_SZ, n \div FLD_SZ>>

\* A ship that the scan notes, and the scan on its way: the copy `rest' of the
\* board without the ships noted, and whether it goes on.
FoundShip == [head : Cell, delta : {<<1, 0>>, <<0, 1>>}, len : 1 .. Len(Fleet)]

ScanState == [rest : Field, ships : Seq(FoundShip), ok : BOOLEAN]

\* The scan at one cell: an occupied cell is the head of a ship, which is noted
\* and removed.  A ship longer than any of the fleet and a ship too many end the
\* scan: `ok' is false then.
scan_cell(point) ==
    [s \in ScanState |->
        IF ~s.ok \/ ~occupied(s.rest, point) THEN s
        ELSE LET ship == Ship(s.rest, point)
             IN  IF ship.len > Len(Fleet) \/ Len(s.ships) = SHIP_COUNT
                   THEN [s EXCEPT !.ok = FALSE]
                   ELSE [rest |-> remove_ship(s.rest, ship), ships |-> Append(s.ships, ship),
                         ok |-> TRUE]]

\* The scan after the first n cells, for each n.
scanned(f) ==
    LET after[n \in 0 .. FLD_SZ * FLD_SZ] ==
            IF n = 0 THEN [rest |-> f, ships |-> <<>>, ok |-> TRUE]
            ELSE scan_cell(Position(n - 1))[after[n - 1]]
    IN  after

scan_ships(f) == scanned(f)[FLD_SZ * FLD_SZ]

\* Variant: nobody looks whether ships touch.
is_valid_field_crowded(f) ==
    LET s == scan_ships(f)
    IN  /\ s.ok
        /\ \A n \in DOMAIN Fleet :
               Cardinality({i \in DOMAIN s.ships : s.ships[i].len = n}) = Fleet[n]

\* The scan found exactly the fleet, and no occupied cell touches a ship.  (A
\* bound variable stands for the scan, so that TLC does it once.)
is_valid_field(f) ==
    \E s \in {scan_ships(f)} :
        /\ s.ok
        /\ \A n \in DOMAIN Fleet :
               Cardinality({i \in DOMAIN s.ships : s.ships[i].len = n}) = Fleet[n]
        /\ \A i \in DOMAIN s.ships : \A c \in Cell \ ship_cells(s.ships[i]) :
               occupied(f, c) =>
                   \A d \in ship_cells(s.ships[i]) : ~Touching(c, d)

is_empty(f) == \A c \in Cell : f[c] = "EMPTY"

is_valid_start_field(f) ==
    /\ ~is_empty(f)
    /\ is_valid_field(f)
    /\ \A c \in Cell : f[c] \in {"EMPTY", "UNHARMED"}

=============================================================================
