--------------------------- MODULE MCGameSession ---------------------------
(***************************************************************************)
(* GameSession for TLC.  The fields that are sent and the points that are  *)
(* shot at are derived from the board size and the fleet of the cfg.       *)
(***************************************************************************)
EXTENDS GameSession, TLC

\* On one cell, one ship: every shot ends a match, which leaves the room for
\* players who come and go and for the timeouts they leave behind.
OneShip == <<1>>

\* On four cells, one ship of two: hits, misses and matches of several turns.
TwoCells == <<0, 1>>

MCSentField ==
    {[c \in Cell |-> IF c[2] = 0 THEN "UNHARMED" ELSE "EMPTY"]}

\* A cell of a ship, a point off the board and Point(-1, -1), which the server
\* also uses for `no shot'.
MCShot == {<<0, 0>>, <<FLD_SZ, 0>>, <<-1, -1>>}

\* A shot at a ship and one off the board.
TwoShots == {<<0, 0>>, <<FLD_SZ, 0>>}

Symmetry == Permutations(Handle)

=============================================================================
