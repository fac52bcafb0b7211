----------------------------- MODULE MCPipeline -----------------------------
(* Pipeline on three stages. *)
EXTENDS Pipeline, TLC

CONSTANTS r1, r2

Symmetry == Permutations(Req)

Calm == [faults |-> 0, suspicions |-> 0, crashes |-> 0, restarts |-> 0, gone |-> 0]

\* One trouble of any kind
OneTrouble ==
  {[Calm EXCEPT !.faults = 1], [Calm EXCEPT !.suspicions = 1],
   [Calm EXCEPT !.crashes = 1], [Calm EXCEPT !.gone = 1]}

\* A failure next to a false suspicion or a crash, or a crash and a restart
Mixtures ==
  {[Calm EXCEPT !.faults = 1, !.suspicions = 1],
   [Calm EXCEPT !.faults = 1, !.crashes = 1],
   [Calm EXCEPT !.crashes = 1, !.restarts = 1]}

\* A failure, and nothing else
OneFault == {[Calm EXCEPT !.faults = 1]}
=============================================================================
