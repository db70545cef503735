------------------------- MODULE MCOrderLifecycle -------------------------
(* OrderLifecycle on small instances: the handlers of each run. *)
EXTENDS OrderLifecycle, TLC

\* The writers that check their row, with the process dying anywhere.
GuardedHandlers == {"staff", "webhook", "autoAccept", "retail", "touch", "crash"}

\* Every writer of a status; creation and payment still touch the row.
EveryHandler == AllHandlers \ {"crash", "touch"}

Symmetry == Permutations(Requests)
=============================================================================
