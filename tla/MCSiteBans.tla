------------------------------ MODULE MCSiteBans ------------------------------
(* Instances of SiteBans for TLC. *)
EXTENDS SiteBans, TLC

CONSTANTS u1, u2, v, T1, T2

MCUnitsOf == "w1" :> {u1, u2} @@ "w2" :> {v}
MCMaxRounds == "w1" :> 2 @@ "w2" :> 1

Symmetry == Permutations({u1, u2}) \cup Permutations(Sites)

===============================================================================
