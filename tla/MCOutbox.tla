------------------------------ MODULE MCOutbox ------------------------------
(* Outbox on small instances. *)
EXTENDS Outbox, TLC

\* Every event its own jobId, as when an order takes each status once.
OwnJobs == [e \in Events |-> e]

Symmetry == Permutations(Instances)
=============================================================================
