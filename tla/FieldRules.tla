----------------------------- MODULE FieldRules -----------------------------
(***************************************************************************)
(* The rules of the game, stated without an algorithm: what a legal        *)
(* placement of the fleet is and what a board looks like after some shots. *)
(* The operators of GameField are compared with these.                     *)
(***************************************************************************)
EXTENDS GameField

\* Every straight ship of a length in the fleet that lies inside the board, as
\* a set of cells.
Segments ==
    {S \in {ship_cells(ship) :
               ship \in [head : Cell, delta : {<<1, 0>>, <<0, 1>>}, len : DOMAIN Fleet]} :
        S \subseteq Cell}

\* The segments filled by the set of cells `taken' that no other cell of
\* `taken' touches.
Ships(taken) ==
    {S \in Segments :
        /\ S \subseteq taken
        /\ \A c \in S, d \in taken \ S : ~Touching(c, d)}

ShipCells(f) == {c \in Cell : f[c] = "UNHARMED"}

\* A legal start: nothing but separate ships, as many of each length as the
\* fleet has.
LegalStart(f) ==
    /\ \A c \in Cell : f[c] \in {"EMPTY", "UNHARMED"}
    /\ ShipCells(f) # {}
    /\ UNION Ships(ShipCells(f)) = ShipCells(f)
    /\ \A n \in DOMAIN Fleet :
           Cardinality({S \in Ships(ShipCells(f)) : Cardinality(S) = n}) = Fleet[n]

\* The board `start' after shots at the cells `shots': hits and misses where
\* the shots fell, and misses all around every ship that is hit completely.
BoardAfter(start, shots) ==
    LET taken == ShipCells(start)
        sunk  == UNION {S \in Ships(taken) : S \subseteq shots}
    IN  [c \in Cell |->
            IF c \in taken
              THEN IF c \in shots THEN "DAMAGED" ELSE "UNHARMED"
              ELSE IF c \in shots \/ \E d \in sunk : Touching(c, d)
                     THEN "MISSED" ELSE "EMPTY"]

=============================================================================
