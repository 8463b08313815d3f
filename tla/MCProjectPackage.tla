--------------------------- MODULE MCProjectPackage ---------------------------
(* The processes are interchangeable, and so are the folders. *)
EXTENDS ProjectPackage, TLC

Symmetry == Permutations(Procs) \cup Permutations(Names)
=============================================================================
