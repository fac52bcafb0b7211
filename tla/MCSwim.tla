------------------------------- MODULE MCSwim -------------------------------
(* Instances of Swim for TLC. *)
EXTENDS Swim, TLC

\* Every node's shards.yaml lists every node.
FullPeers == [n \in Node |-> Node]

\* One model, configured everywhere.
OneModel == [n \in Node |-> "gemma"]

\* Only a node that bootstraps with a Join is configured with a model.
SomeModel == [n \in Node |-> IF n \in Joiners THEN "gemma" ELSE ""]

HelperSym == Permutations(Node \ Probers)
=============================================================================
