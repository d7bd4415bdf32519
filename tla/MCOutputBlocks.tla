---------------------------- MODULE MCOutputBlocks ----------------------------
(* Instances of OutputBlocks for TLC: the second of three work units runs at *)
(* a site without a _Temp RSE.                                               *)
EXTENDS OutputBlocks

MCSiteOf == [w \in WorkUnits |-> IF w = 2 THEN "T1" ELSE "T2"]

===============================================================================
