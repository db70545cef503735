---------------------------- MODULE MCPrintJobs ----------------------------
(* PrintJobs on small instances. *)
EXTENDS PrintJobs, TLC

Symmetry == Permutations(Jobs) \union Permutations(Agents) \union Permutations(Ticks)
=============================================================================
