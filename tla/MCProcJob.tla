------------------------------- MODULE MCProcJob -------------------------------
(* Instances of ProcJob for TLC. *)
EXTENDS ProcJob

===============================================================================
