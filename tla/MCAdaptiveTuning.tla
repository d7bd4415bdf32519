--------------------------- MODULE MCAdaptiveTuning ---------------------------
(* Instances of AdaptiveTuning for TLC. *)
EXTENDS AdaptiveTuning

MCWork == <<8, 72>>
MCMemories == {[mean |-> 3000, max |-> 3000], [mean |-> 6000, max |-> 14000]}
MCWrites == {<<5, 1>>, <<35, 30>>}
MCCgroups == {[anon |-> 0, tmpfs |-> 0, gridpack |-> 0, peak |-> 0],
              [anon |-> 9000, tmpfs |-> 0, gridpack |-> 3000, peak |-> 9000],
              [anon |-> 4000, tmpfs |-> 6000, gridpack |-> 3000, peak |-> 6000]}
===============================================================================
