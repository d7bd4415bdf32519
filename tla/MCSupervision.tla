---------------------------- MODULE MCSupervision ----------------------------
(* Model-checking instance of Supervision: a few calls of the endpoint, and  *)
(* tasks enough that the bound on them stops nothing.                        *)
EXTENDS Supervision

===============================================================================
