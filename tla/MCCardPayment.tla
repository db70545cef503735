--------------------------- MODULE MCCardPayment ---------------------------
(* CardPayment on small instances. *)
EXTENDS CardPayment, TLC

Symmetry == Permutations(Workers)
=============================================================================
