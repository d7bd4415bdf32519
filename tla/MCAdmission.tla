------------------------------ MODULE MCAdmission ------------------------------
(* Instances of Admission for TLC. *)
EXTENDS Admission, TLC

MCRank == "r1" :> 1 @@ "r2" :> 2
MCRoundsOf == "r1" :> 2 @@ "r2" :> 1
MCSettings == {[limit |-> 1, pipelined |-> FALSE], [limit |-> 2, pipelined |-> TRUE]}

===============================================================================
