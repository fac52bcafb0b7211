--------------------------- MODULE MCExpertFanout ---------------------------
(* ExpertFanout on two peers. *)
EXTENDS ExpertFanout

CONSTANTS self, b, c, e1, e2, e3, none

\* e1 is here and on b, e2 on b and c, e3 on c only; gossip may tell of a copy
\* of e3 on b.
OwnersOfThree == [e \in Expert |-> CASE e = e1 -> {self, b} [] e = e2 -> {b, c} [] e = e3 -> {c}]
ReplicasOfThree == [e \in Expert |-> IF e = e3 THEN {b} ELSE {}]
=============================================================================
