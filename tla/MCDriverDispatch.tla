-------------------------- MODULE MCDriverDispatch --------------------------
(* DriverDispatch on small instances. *)
EXTENDS DriverDispatch
=============================================================================
