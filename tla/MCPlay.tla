------------------------------- MODULE MCPlay -------------------------------
(***************************************************************************)
(* Play for TLC.                                                           *)
(***************************************************************************)
EXTENDS Play, TLC

OneShip == <<1>>
Left == {<<-1, 0>>}
NoKey == {}
ShipAnywhere ==
    {[c \in Cell |-> IF c = d THEN "UNHARMED" ELSE "EMPTY"] : d \in Cell}
AnyCell == Cell

MCOwnFieldStart == <<1, 1>>
MCEnemyFieldStart == <<4, 1>>

Symmetry == Permutations(Handle) \cup Permutations(Client)

=============================================================================
