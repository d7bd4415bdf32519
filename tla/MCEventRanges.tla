---------------------------- MODULE MCEventRanges -----------------------------
(* Instances of EventRanges for TLC. *)
EXTENDS EventRanges

===============================================================================
