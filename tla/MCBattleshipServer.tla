------------------------- MODULE MCBattleshipServer -------------------------
(* BattleshipServer for TLC. *)
EXTENDS BattleshipServer, TLC

Symmetry == Permutations(Client)

=============================================================================
