------------------------------ MODULE MCTimer ------------------------------
(* Timer with a negative, a zero and two positive durations. *)
EXTENDS Timer

MCDuration == {-1, 0, 2, 5}

=============================================================================
