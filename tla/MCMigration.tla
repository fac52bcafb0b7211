----------------------------- MODULE MCMigration -----------------------------
(* Instances of Migration for TLC. *)
EXTENDS Migration, TLC

CONSTANTS n1, n2, n3, a, b, c

PairBootstrap == (n1 :> <<a, b, c>>) @@ (n2 :> <<c>>)
TrioBootstrap == (n1 :> <<a, b>>) @@ (n2 :> <<c>>) @@ (n3 :> <<c>>)
=============================================================================
