---------------------------- MODULE MCHostRegistry ----------------------------
(* Projects, places and threads are interchangeable. *)
EXTENDS HostRegistry, TLC

Symmetry == Permutations(Projects) \cup Permutations(Places) \cup Permutations(Threads)
=============================================================================
