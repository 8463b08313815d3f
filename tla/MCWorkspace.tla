----------------------------- MODULE MCWorkspace -----------------------------
(* Symmetry for the run of Workspace: its processes are alike. *)
EXTENDS Workspace, TLC

Symmetry == Permutations(Processes)
=============================================================================
