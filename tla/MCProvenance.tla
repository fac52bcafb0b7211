---------------------------- MODULE MCProvenance ----------------------------
(* Provenance on three stages; the middle one has the split layer. *)
EXTENDS Provenance

CONSTANTS self, head, tail, e1, e2, none

\* e1 is here and on head, e2 on head and tail; gossip may tell of a copy of e2 here.
OwnersOfTwo == [e \in Expert |-> IF e = e1 THEN {self, head} ELSE {head, tail}]
ReplicasOfTwo == [e \in Expert |-> IF e = e2 THEN {self} ELSE {}]

Stages == <<head, self, tail>>
Ranges == [n \in Node |-> CASE n = head -> [start |-> 0, end |-> 1]
                            [] n = self -> [start |-> 1, end |-> 4]
                            [] n = tail -> [start |-> 4, end |-> 5]]
=============================================================================
