---------------------------- MODULE MCFieldShots ----------------------------
(* FieldShots on a board small enough to reach every placement. *)
EXTENDS FieldShots

MCFleet == <<1, 1, 1>>

\* Every cell, and a point off the board in each dimension.
MCTarget == Cell \cup {<<-1, 0>>, <<0, FLD_SZ>>}

=============================================================================
