------------------------------ MODULE MCSituation ------------------------------
(* A house with more open alerts than a section of the snapshot holds.          *)
EXTENDS Situation

Ids == <<"bin full", "house", "leak", "passing remark", "presence">>
Tokens == [i \in ToSet(Ids) |-> IF i \in Alerts THEN 2 ELSE 1]
=============================================================================
