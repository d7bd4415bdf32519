--------------------------- MODULE MCUnmergedFiles ----------------------------
(* Instances of UnmergedFiles for TLC. *)
EXTENDS UnmergedFiles, TLC

Symmetry == Permutations(Procs) \cup Permutations(WorkUnits)

===============================================================================
