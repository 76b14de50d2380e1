----------------------------- MODULE MCDelivery -----------------------------
(* Delivery for TLC. *)
EXTENDS Delivery, TLC

Symmetry == Permutations(Addr)

=============================================================================
