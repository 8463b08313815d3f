---------------------------- MODULE MCModelGateway ----------------------------
(* Symmetry for the runs of ModelGateway that check invariants only. *)
EXTENDS ModelGateway, TLC

Symmetry == Permutations(Requests) \cup Permutations(Threads)
=============================================================================
