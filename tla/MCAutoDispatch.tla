--------------------------- MODULE MCAutoDispatch ---------------------------
(* AutoDispatch on small instances. *)
EXTENDS AutoDispatch
=============================================================================
