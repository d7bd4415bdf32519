------------------------------ MODULE MCWorkUnit ------------------------------
(* Instances of WorkUnit for TLC. *)
EXTENDS WorkUnit, TLC

MCSiteOf == "n1" :> "T1" @@ "n2" :> "T1" @@ "n3" :> "T2"

===============================================================================
