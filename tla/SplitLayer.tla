----------------------------- MODULE SplitLayer -----------------------------
(***************************************************************************)
(* What run_split_layer promises to run_layers, whoever computes what: the *)
(* experts the router picks are computed once each, by nodes that hold     *)
(* them, and the layer is aggregated when all of them are there; or it is  *)
(* given up, and then something is missing.                                *)
(***************************************************************************)
EXTENDS Integers

CONSTANTS
  Expert,     \* the experts of a split layer
  Holders,    \* [Expert -> set of nodes]: who may hold a copy
  Nobody,     \* no output yet
  Layers      \* number of split layers

VARIABLES
  phase,      \* "idle", "open", "done" or "raised"
  layer,      \* split layers done so far
  wanted,     \* the experts of the layer
  outputs     \* [Expert -> node or Nobody]

vars == <<phase, layer, wanted, outputs>>

\* New outputs may come at any time, and none of them goes or changes.
Extends(new, old) ==
  \A e \in Expert :
    \/ new[e] = old[e]
    \/ old[e] = Nobody /\ e \in wanted' /\ new[e] \in Holders[e]

Init ==
  /\ phase = "idle" /\ layer = 0 /\ wanted = {}
  /\ outputs = [e \in Expert |-> Nobody]

Open ==
  /\ phase = "idle" /\ phase' = "open"
  /\ wanted' \in (SUBSET Expert) \ {{}}
  /\ Extends(outputs', [e \in Expert |-> Nobody])
  /\ UNCHANGED layer

Compute ==
  /\ phase = "open"
  /\ UNCHANGED <<phase, layer, wanted>>
  /\ Extends(outputs', outputs)

Close ==
  /\ phase = "open"
  /\ \A e \in Expert : e \in wanted <=> outputs[e] # Nobody
  /\ layer' = layer + 1
  /\ phase' = IF layer' = Layers THEN "done" ELSE "idle"
  /\ UNCHANGED <<wanted, outputs>>

GiveUp ==
  /\ phase = "open" /\ phase' = "raised"
  /\ UNCHANGED <<layer, wanted>>
  /\ Extends(outputs', outputs)
  /\ \E e \in wanted : outputs'[e] = Nobody

Next == Open \/ Compute \/ Close \/ GiveUp

Spec == Init /\ [][Next]_vars
=============================================================================
