---------------------------- MODULE MCSplitBill ----------------------------
(* SplitBill on small instances. *)
EXTENDS SplitBill
=============================================================================
