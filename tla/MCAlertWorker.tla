---------------------------- MODULE MCAlertWorker ----------------------------
(* Instances of AlertWorker for TLC: a bus between two stops.  The stop of *)
(* s1 is at the far end; s2 has a wider radius that takes in the middle.   *)
EXTENDS AlertWorker

CONSTANTS s1, s2

Road == {"depot", "middle", "town"}

TwoRadii == [s \in Subs |-> IF s = s1 THEN {"town"} ELSE {"middle", "town"}]
=============================================================================
