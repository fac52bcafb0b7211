------------------------- MODULE ExpertFanoutProofs -------------------------
(***************************************************************************)
(* Proofs about ExpertFanout, for every set of peers and experts, every    *)
(* placement, every number of attempts and every bound of the environment; *)
(* among them that it implements SplitLayer.                               *)
(***************************************************************************)
EXTENDS ExpertFanout, TLAPS

\* Where the thread is
PcInv ==
  /\ pc # "done" => layer < Layers
  /\ pc \in {"backoff", "retry"} => attempts < MaxAttempts /\ failed \in Peer

\* An expert is asked of one peer, which has it, and only that peer's answer
\* can have given its output.
AskedInv ==
  pc \in {"register", "gather", "backoff", "retry"} =>
    /\ \A p, q \in Peer : p # q => asked[p] \cap asked[q] = {}
    /\ \A p \in Peer : \A e \in asked[p] :
         /\ e \in wanted
         /\ p \in Owners[e] \cup Replicas[e]
         /\ outputs[e] \in {Unrouted, p}

\* The futures still waited for are those of the missing experts.
RemainingInv ==
  pc \in {"register", "gather"} =>
    /\ \A p \in remaining : asked[p] # {} /\ \A e \in asked[p] : outputs[e] = Unrouted
    /\ \A e \in wanted : outputs[e] = Unrouted => \E p \in remaining : e \in asked[p]

\* Nothing but what the router picked is computed.
OutputsInv == pc # "route" => \A e \in Expert : outputs[e] # Unrouted => e \in wanted

\* The inductive invariant
IInv ==
  /\ TypeOK /\ PcInv /\ AskedInv /\ RemainingInv /\ OutputsInv
  /\ Complete /\ NotAskedAgain /\ ExcludedNotAsked /\ RaisedInNeed /\ Released

\* TypeOK without registered, the only Boolean of it
Types ==
  /\ pc \in {"route", "submit", "register", "gather", "backoff", "retry", "aggregate",
             "done", "raised"}
  /\ layer \in 0..Layers /\ wanted \subseteq Expert
  /\ outputs \in [Expert -> Node \cup {Unrouted}]
  /\ asked \in [Peer -> SUBSET Expert] /\ status \in [Peer -> Status]
  /\ remaining \subseteq Peer /\ abort \subseteq Peer
  /\ attempts \in Nat /\ attempts <= IF MaxAttempts = 0 THEN 1 ELSE MaxAttempts
  /\ excluded \subseteq Peer /\ failed \in Peer \cup {Unrouted}
  /\ up \subseteq Peer /\ left \subseteq Peer
  /\ failures \in 0..MaxFailures /\ crashes \in 0..MaxCrashes /\ leaves \in 0..MaxLeaves

\* A step of SplitLayer, or none
PromiseStep == [Promise!Next]_(Promise!vars)
-----------------------------------------------------------------------------
(* The operators. *)

\* TypeOK in two parts, one for each prover.
LEMMA TypeParts == TypeOK <=> Types /\ registered \in BOOLEAN
BY Zenon DEF TypeOK, Types

\* What the phase is at each point of the thread.
LEMMA PhaseOf ==
  /\ pc = "route" => Phase = "idle"
  /\ pc = "done" => Phase = "done"
  /\ pc = "raised" => Phase = "raised"
  /\ pc \in {"submit", "register", "gather", "backoff", "retry", "aggregate"} => Phase = "open"
BY Zenon DEF Phase

\* Harvest gives each expert whose answer is looked at the peer it was asked
\* of, and leaves the outputs that are there.
LEMMA HarvestOf ==
  ASSUME TypeOK, AskedInv, pc \in {"gather", "backoff"}, NEW ps \in SUBSET Peer
  PROVE  /\ Harvest(outputs, ps) \in [Expert -> Node \cup {Unrouted}]
         /\ \A e \in Expert :
              \/ Harvest(outputs, ps)[e] = outputs[e]
              \/ /\ outputs[e] = Unrouted
                 /\ e \in wanted
                 /\ Harvest(outputs, ps)[e] \in Owners[e] \cup Replicas[e]
                 /\ Harvest(outputs, ps)[e] \in ps
                 /\ e \in asked[Harvest(outputs, ps)[e]]
         /\ \A p \in ps : status[p] = "done" =>
              \A e \in asked[p] : Harvest(outputs, ps)[e] = p
<1> DEFINE From(e) == {p \in ps : status[p] = "done" /\ e \in asked[p]}
           H == Harvest(outputs, ps)
<1>1. \A e \in Expert : H[e] = IF From(e) = {} THEN outputs[e] ELSE CHOOSE p \in From(e) : TRUE
  BY Zenon DEF Harvest
<1>2. \A e \in Expert : From(e) # {} => H[e] \in From(e)
  BY Zenon, <1>1
<1>3. \A e \in Expert : From(e) = {} => H[e] = outputs[e]
  BY Zenon, <1>1
<1>4. \A e \in Expert : H[e] \in Node \cup {Unrouted}
  <2> HIDE DEF H
  <2> QED  BY Zenon, <1>2, <1>3 DEF TypeOK, Node
<1>5. H \in [Expert -> Node \cup {Unrouted}]
  BY Zenon, <1>4 DEF Harvest
<1>6. ASSUME NEW e \in Expert, H[e] # outputs[e]
      PROVE  /\ outputs[e] = Unrouted /\ e \in wanted
             /\ H[e] \in Owners[e] \cup Replicas[e]
             /\ H[e] \in ps /\ e \in asked[H[e]]
  <2> HIDE DEF H
  <2>1. H[e] \in ps /\ e \in asked[H[e]]
    BY Zenon, <1>2, <1>3, <1>6
  <2> QED  BY Zenon, <2>1, <1>6 DEF AskedInv
<1>7. ASSUME NEW p \in ps, status[p] = "done", NEW e \in asked[p]
      PROVE  H[e] = p
  <2>1. e \in Expert /\ p \in From(e)
    BY Zenon, <1>7 DEF TypeOK
  <2> HIDE DEF H
  <2>2. H[e] \in ps /\ e \in asked[H[e]]
    BY Zenon, <2>1, <1>2
  <2> QED  BY Zenon, <2>2, <1>7 DEF AskedInv
<1> QED  BY Zenon, <1>5, <1>6, <1>7

\* Every expert is routed to a node that has it and is not excluded.
LEMMA RoutingOf ==
  ASSUME NEW ids \in SUBSET Expert, NEW known \in Known, NEW ex,
         NEW by \in Routings(ids, known, ex)
  PROVE  /\ DOMAIN by = ids
         /\ \A e \in ids : /\ by[e] \in Node /\ by[e] \notin ex
                           /\ by[e] \in Owners[e] \cup Replicas[e]
BY Zenon DEF Routings, Candidates, Known

\* What is computed here is what was routed here.
LEMMA RunLocalOf ==
  ASSUME NEW out \in [Expert -> Node \cup {Unrouted}], NEW by
  PROVE  /\ RunLocal(out, by) \in [Expert -> Node \cup {Unrouted}]
         /\ \A e \in Expert : RunLocal(out, by)[e] =
              IF e \in DOMAIN by /\ by[e] = Self THEN Self ELSE out[e]
BY Zenon DEF RunLocal, Node
-----------------------------------------------------------------------------
(* The steps of the thread. *)

\* The initial state is a good one, of both.
LEMMA InitGood == Init => IInv /\ Promise!Init
<1> SUFFICES ASSUME Init PROVE IInv /\ Promise!Init
  BY Zenon
<1>1. TypeOK
  <2>1. Types
    BY FanoutAssumption DEF Init, Types, NoOutputs, Node, Status
  <2>2. registered \in BOOLEAN
    BY Zenon DEF Init
  <2> QED  BY Zenon, <2>1, <2>2, TypeParts
<1>2. /\ PcInv /\ AskedInv /\ RemainingInv /\ OutputsInv
      /\ Complete /\ NotAskedAgain /\ ExcludedNotAsked /\ RaisedInNeed /\ Released
  BY FanoutAssumption DEF Init, PcInv, AskedInv, RemainingInv, OutputsInv, Complete,
     NotAskedAgain, ExcludedNotAsked, RaisedInNeed, Released
<1>3. Promise!Init
  BY Zenon, PhaseOf DEF Init, Promise!Init, NoOutputs
<1> QED  BY Zenon, <1>1, <1>2, <1>3 DEF IInv

\* Phase A opens a layer.
LEMMA RunPhaseAGood == IInv /\ RunPhaseA => IInv' /\ PromiseStep
<1> SUFFICES ASSUME IInv, RunPhaseA PROVE IInv' /\ PromiseStep
  BY Zenon
<1>0. PICK ids \in (SUBSET Expert) \ {{}}, known \in Known :
        \E by \in Routings(ids, known, {}) :
          wanted' = ids /\ outputs' = RunLocal(NoOutputs, by)
  BY Zenon DEF RunPhaseA
<1>1. PICK by \in Routings(ids, known, {}) :
        wanted' = ids /\ outputs' = RunLocal(NoOutputs, by)
  BY Zenon, <1>0
<1>2. NoOutputs \in [Expert -> Node \cup {Unrouted}]
  BY Zenon DEF NoOutputs
<1>3. /\ outputs' \in [Expert -> Node \cup {Unrouted}]
      /\ \A e \in Expert : outputs'[e] = IF e \in ids /\ by[e] = Self THEN Self ELSE Unrouted
      /\ \A e \in ids : by[e] \in Owners[e] \cup Replicas[e]
  <2>1. DOMAIN by = ids /\ \A e \in ids : by[e] \in Owners[e] \cup Replicas[e]
    BY Zenon, RoutingOf
  <2>2. /\ RunLocal(NoOutputs, by) \in [Expert -> Node \cup {Unrouted}]
        /\ \A e \in Expert : RunLocal(NoOutputs, by)[e] =
             IF e \in DOMAIN by /\ by[e] = Self THEN Self ELSE NoOutputs[e]
    BY Zenon, <1>2, RunLocalOf
  <2> QED  BY Zenon, <1>1, <2>1, <2>2 DEF NoOutputs
<1>4. TypeOK'
  <2>1. Types'
    BY Zenon, <1>1, <1>3, TypeParts DEF IInv, Types, RunPhaseA, rpcVars, retryVars, envVars
  <2>2. registered' \in BOOLEAN
    BY TypeParts, Zenon DEF IInv, RunPhaseA
  <2> QED  BY Zenon, <2>1, <2>2 DEF TypeOK, Types
<1>5. /\ PcInv' /\ AskedInv' /\ RemainingInv' /\ OutputsInv'
      /\ Complete' /\ NotAskedAgain' /\ ExcludedNotAsked' /\ RaisedInNeed' /\ Released'
  BY Zenon, <1>1, <1>3 DEF IInv, RunPhaseA, PcInv, AskedInv, RemainingInv, OutputsInv, Complete,
     NotAskedAgain, ExcludedNotAsked, RaisedInNeed, Released
<1>6. Promise!Open
  <2>1. Phase = "idle" /\ Phase' = "open"
    BY Zenon DEF RunPhaseA, Phase
  <2> QED  BY Zenon, <2>1, <1>1, <1>3 DEF RunPhaseA, Promise!Open, Promise!Extends
<1> QED  BY Zenon, <1>4, <1>5, <1>6 DEF IInv, PromiseStep, Promise!Next

\* What holds once the ids of a routing have been submitted.
LEMMA SubmitGood ==
  ASSUME IInv, pc \in {"submit", "retry"}, pc' = "register",
         NEW known \in Known, NEW ex \in SUBSET Peer, NEW by \in Routings(Missing, known, ex),
         outputs' = RunLocal(outputs, by), Submit(by), UNCHANGED <<layer, wanted>>,
         excluded' = ex
  PROVE  /\ outputs' \in [Expert -> Node \cup {Unrouted}]
         /\ asked' \in [Peer -> SUBSET Expert] /\ status' \in [Peer -> Status]
         /\ remaining' \subseteq Peer /\ abort' = {}
         /\ AskedInv' /\ RemainingInv' /\ OutputsInv' /\ NotAskedAgain' /\ ExcludedNotAsked'
         /\ PromiseStep
<1>1. Missing \in SUBSET Expert
  BY Zenon DEF Missing, IInv, TypeOK
<1>2. DOMAIN by = Missing
  BY Zenon, <1>1, RoutingOf
<1>3. /\ outputs' \in [Expert -> Node \cup {Unrouted}]
      /\ \A e \in Expert : outputs'[e] = IF e \in Missing /\ by[e] = Self THEN Self ELSE outputs[e]
      /\ \A e \in Missing : by[e] \in Node \ ex /\ by[e] \in Owners[e] \cup Replicas[e]
  <2>1. outputs \in [Expert -> Node \cup {Unrouted}]
    BY Zenon DEF IInv, TypeOK
  <2>2. /\ RunLocal(outputs, by) \in [Expert -> Node \cup {Unrouted}]
        /\ \A e \in Expert : RunLocal(outputs, by)[e] =
             IF e \in DOMAIN by /\ by[e] = Self THEN Self ELSE outputs[e]
    BY Zenon, <2>1, RunLocalOf
  <2> QED  BY Zenon, <2>2, <1>1, <1>2, RoutingOf
<1>4. /\ asked' \in [Peer -> SUBSET Expert] /\ status' \in [Peer -> Status]
      /\ remaining' \subseteq Peer /\ abort' = {}
  BY Zenon, <1>1, <1>2 DEF Submit, Status
<1>5. \A p \in Peer : asked'[p] = {e \in Missing : by[e] = p}
  BY Zenon, <1>2 DEF Submit
<1>6. remaining' = {p \in Peer : asked'[p] # {}}
  BY Zenon DEF Submit
<1>7. \A e \in Expert : e \in Missing <=> e \in wanted /\ outputs[e] = Unrouted
  BY Zenon DEF Missing, IInv, TypeOK
<1>8. \A p \in Peer : \A e \in asked'[p] :
         /\ e \in Expert /\ e \in wanted' /\ p \in Owners[e] \cup Replicas[e] /\ p \notin ex
         /\ outputs'[e] = Unrouted
  BY <1>1, <1>3, <1>5, <1>7, FanoutAssumption
<1>9. AskedInv' /\ NotAskedAgain' /\ ExcludedNotAsked'
  <2>1. \A p, q \in Peer : p # q => asked'[p] \cap asked'[q] = {}
    BY <1>5
  <2>2. AskedInv'
    BY Zenon, <2>1, <1>8 DEF AskedInv
  <2>3. NotAskedAgain'
    BY Zenon, <1>8 DEF NotAskedAgain
  <2>4. ExcludedNotAsked'
    BY Zenon, <1>8 DEF ExcludedNotAsked
  <2> QED  BY Zenon, <2>2, <2>3, <2>4
<1>10. RemainingInv'
  <2>1. ASSUME NEW e \in wanted', outputs'[e] = Unrouted
        PROVE  \E p \in remaining' : e \in asked'[p]
    <3>1. e \in Expert /\ e \in wanted
      BY Zenon DEF IInv, TypeOK
    <3>2. e \in Missing /\ by[e] # Self
      BY Zenon, <2>1, <3>1, <1>3, <1>7, FanoutAssumption
    <3>3. by[e] \in Peer /\ e \in asked'[by[e]]
      BY Zenon, <3>2, <1>3, <1>5 DEF Node
    <3> QED  BY Zenon, <3>3, <1>6
  <2>2. \A p \in remaining' : asked'[p] # {} /\ \A e \in asked'[p] : outputs'[e] = Unrouted
    BY Zenon, <1>6, <1>8
  <2> QED  BY Zenon, <2>1, <2>2 DEF RemainingInv
<1>11. OutputsInv'
  BY Zenon, <1>3, <1>7 DEF IInv, OutputsInv
<1>12. PromiseStep
  <2>1. Phase = "open" /\ Phase' = "open"
    BY Zenon DEF Phase
  <2>2. Promise!Extends(outputs', outputs)
    BY Zenon, <1>3, <1>7 DEF Promise!Extends
  <2> QED  BY Zenon, <2>1, <2>2 DEF PromiseStep, Promise!Next, Promise!Compute
<1> QED  BY Zenon, <1>3, <1>4, <1>9, <1>10, <1>11, <1>12

\* The first attempt asks for what is missing, of peers that have it.
LEMMA FanOutGood == IInv /\ FanOut => IInv' /\ PromiseStep
<1> SUFFICES ASSUME IInv, FanOut PROVE IInv' /\ PromiseStep
  BY Zenon
<1>1. /\ pc = "submit" /\ pc' = "register" /\ attempts' = 1 /\ excluded' = {}
      /\ failed' = Unrouted
      /\ UNCHANGED <<layer, wanted, up, left, failures, crashes, leaves>>
  BY Zenon DEF FanOut, layerVars, envVars
<1>2. UNCHANGED registered
  BY Zenon DEF FanOut
<1>3. PICK known \in Known :
        \E by \in Routings(Missing, known, {}) : outputs' = RunLocal(outputs, by) /\ Submit(by)
  BY Zenon DEF FanOut
<1>4. /\ outputs' \in [Expert -> Node \cup {Unrouted}]
      /\ asked' \in [Peer -> SUBSET Expert] /\ status' \in [Peer -> Status]
      /\ remaining' \subseteq Peer /\ abort' = {}
      /\ AskedInv' /\ RemainingInv' /\ OutputsInv' /\ NotAskedAgain' /\ ExcludedNotAsked'
      /\ PromiseStep
  BY Zenon, <1>1, <1>3, SubmitGood
<1>5. TypeOK'
  <2>1. Types'
    BY <1>1, <1>4, TypeParts, FanoutAssumption DEF IInv, Types
  <2>2. registered' \in BOOLEAN
    BY <1>2, TypeParts, Zenon DEF IInv
  <2> QED  BY Zenon, <2>1, <2>2 DEF TypeOK, Types
<1>6. PcInv' /\ Complete' /\ RaisedInNeed' /\ Released'
  BY Zenon, <1>1 DEF IInv, PcInv, Complete, RaisedInNeed, Released
<1> QED  BY Zenon, <1>4, <1>5, <1>6 DEF IInv

\* Registering the events changes nothing else.
LEMMA RegisterGood == IInv /\ Register => IInv' /\ PromiseStep
<1> SUFFICES ASSUME IInv, Register PROVE IInv' /\ PromiseStep
  BY Zenon
<1>1. /\ pc = "register" /\ pc' = "gather"
      /\ UNCHANGED <<layer, wanted, outputs, asked, status, remaining, abort, attempts, excluded,
                     failed, up, left, failures, crashes, leaves>>
  BY Zenon DEF Register, layerVars, rpcVars, retryVars, envVars
<1>2. TypeOK'
  <2>1. Types'
    BY Zenon, <1>1, TypeParts DEF IInv, Types
  <2>2. registered' \in BOOLEAN
    BY TypeParts, Zenon DEF IInv, Register
  <2> QED  BY Zenon, <2>1, <2>2 DEF TypeOK, Types
<1>3. AskedInv' /\ RemainingInv' /\ OutputsInv'
  BY <1>1 DEF IInv, AskedInv, RemainingInv, OutputsInv
<1>4. PcInv' /\ Complete' /\ NotAskedAgain' /\ ExcludedNotAsked' /\ RaisedInNeed' /\ Released'
  BY Zenon, <1>1 DEF IInv, PcInv, Complete, NotAskedAgain, ExcludedNotAsked, RaisedInNeed, Released
<1>5. PromiseStep
  BY Zenon, <1>1 DEF PromiseStep, Promise!vars, Phase
<1> QED  BY Zenon, <1>2, <1>3, <1>4, <1>5 DEF IInv

\* A step of gather or of what follows it, that only adds what answers brought
LEMMA HarvestPromise ==
  ASSUME IInv, pc \in {"gather", "backoff"}, NEW ps \in SUBSET Peer,
         outputs' = Harvest(outputs, ps), UNCHANGED <<layer, wanted>>,
         pc' \in {"gather", "backoff", "retry", "aggregate", "raised"}
  PROVE  /\ Promise!Extends(outputs', outputs)
         /\ pc' # "raised" => PromiseStep
         /\ pc' = "raised" /\ (\E e \in wanted : outputs'[e] = Unrouted) => PromiseStep
<1>1. Promise!Extends(outputs', outputs)
  BY Zenon, HarvestOf DEF Promise!Extends, IInv
<1>2. Phase = "open" /\ (pc' # "raised" => Phase' = "open") /\ (pc' = "raised" => Phase' = "raised")
  BY Zenon DEF Phase
<1>3. ASSUME pc' # "raised" PROVE PromiseStep
  BY Zenon, <1>1, <1>2, <1>3 DEF PromiseStep, Promise!Next, Promise!Compute
<1>4. ASSUME pc' = "raised", \E e \in wanted : outputs'[e] = Unrouted PROVE PromiseStep
  BY Zenon, <1>1, <1>2, <1>4 DEF PromiseStep, Promise!Next, Promise!GiveUp
<1> QED  BY Zenon, <1>1, <1>3, <1>4

\* An attempt that fails while something of the peer p is missing
LEMMA FailGood ==
  ASSUME IInv, pc = "gather", NEW ps \in SUBSET Peer, NEW p \in Peer,
         Fail(p, Harvest(outputs, ps)),
         \E e \in wanted : Harvest(outputs, ps)[e] = Unrouted,
         remaining' \subseteq Peer,
         UNCHANGED <<layerVars, asked, abort, envVars>>
  PROVE  IInv' /\ PromiseStep
<1>1. /\ outputs' = Harvest(outputs, ps)
      /\ status' = [q \in Peer |-> IF q \in remaining /\ status[q] = "queued" THEN "cancelled"
                                                                             ELSE status[q]]
      /\ UNCHANGED <<layer, wanted, asked, abort, up, left, failures, crashes, leaves>>
  BY Zenon DEF Fail, layerVars, envVars
<1>2. \/ /\ attempts >= MaxAttempts /\ pc' = "raised"
         /\ UNCHANGED <<attempts, excluded, failed>>
      \/ /\ attempts < MaxAttempts /\ pc' = "backoff"
         /\ excluded' = excluded \cup {p} /\ failed' = p /\ attempts' = attempts
  BY Zenon DEF Fail, Exit, retryVars
<1>3. /\ outputs' \in [Expert -> Node \cup {Unrouted}]
      /\ \A e \in Expert :
           \/ outputs'[e] = outputs[e]
           \/ /\ outputs[e] = Unrouted /\ e \in wanted
              /\ e \in asked[outputs'[e]] /\ outputs'[e] \in Peer
  <2>1. /\ Harvest(outputs, ps) \in [Expert -> Node \cup {Unrouted}]
        /\ \A e \in Expert :
             \/ Harvest(outputs, ps)[e] = outputs[e]
             \/ /\ outputs[e] = Unrouted /\ e \in wanted
                /\ Harvest(outputs, ps)[e] \in ps /\ e \in asked[Harvest(outputs, ps)[e]]
    BY Zenon, HarvestOf DEF IInv
  <2> QED  BY Zenon, <2>1, <1>1
<1>4. TypeOK'
  <2>1. Types'
    BY Zenon, <1>1, <1>2, <1>3, TypeParts DEF IInv, Types, Status
  <2>2. registered' \in BOOLEAN
    BY TypeParts, Zenon DEF IInv, Fail, Exit
  <2> QED  BY Zenon, <2>1, <2>2 DEF TypeOK, Types
<1>5. AskedInv'
  <2>1. ASSUME NEW q \in Peer, NEW e \in asked[q] PROVE outputs'[e] \in {Unrouted, q}
    <3>1. e \in Expert
      BY Zenon DEF IInv, TypeOK
    <3> QED  BY Zenon, <3>1, <1>3 DEF IInv, AskedInv
  <2> QED  BY Zenon, <2>1, <1>1 DEF IInv, AskedInv
<1>6. OutputsInv'
  BY Zenon, <1>1, <1>3 DEF IInv, OutputsInv
<1>7. pc' = "raised" => ~registered'
  BY <1>2, Zenon DEF Fail, Exit
<1>8. /\ PcInv' /\ RemainingInv' /\ Complete' /\ NotAskedAgain' /\ ExcludedNotAsked'
      /\ RaisedInNeed' /\ Released'
  BY Zenon, <1>1, <1>2, <1>7 DEF IInv, PcInv, RemainingInv, Complete, NotAskedAgain, ExcludedNotAsked,
     RaisedInNeed, Released
<1>9. PromiseStep
  BY Zenon, <1>1, <1>2, HarvestPromise
<1> QED  BY Zenon, <1>4, <1>5, <1>6, <1>8, <1>9 DEF IInv

\* A turn of _gather_with_abort keeps what came, and fails only when something is missing.
LEMMA PollGood == IInv /\ Poll => IInv' /\ PromiseStep
<1> SUFFICES ASSUME IInv, Poll PROVE IInv' /\ PromiseStep
  BY Zenon
<1> DEFINE done == {p \in remaining : status[p] = "done"}
           bad == {p \in remaining : status[p] \in {"failed", "cancelled"}}
<1>1. pc = "gather" /\ UNCHANGED <<layerVars, asked, abort, envVars>>
  BY Zenon DEF Poll
<1>2. remaining \in SUBSET Peer /\ done \in SUBSET Peer
  BY Zenon DEF IInv, TypeOK
<1>3. ASSUME NEW ps \in SUBSET done, NEW p \in remaining \ ps
      PROVE  \E e \in wanted : Harvest(outputs, ps)[e] = Unrouted
  <2>1. PICK e \in asked[p] : outputs[e] = Unrouted
    BY <1>1 DEF IInv, RemainingInv
  <2>2. p \in Peer /\ e \in wanted /\ e \in Expert /\ ps \in SUBSET Peer
    BY Zenon, <1>1, <1>2, <2>1 DEF IInv, AskedInv, TypeOK
  <2>3. ASSUME Harvest(outputs, ps)[e] # Unrouted PROVE FALSE
    <3>1. Harvest(outputs, ps)[e] \in ps /\ e \in asked[Harvest(outputs, ps)[e]]
      BY Zenon, <1>1, <2>1, <2>2, <2>3, HarvestOf DEF IInv
    <3> QED  BY Zenon, <3>1, <2>2, <1>1 DEF IInv, AskedInv
  <2> QED  BY Zenon, <2>2, <2>3
<1>4. ASSUME NEW p \in abort \cap remaining, Fail(p, outputs), UNCHANGED remaining
      PROVE  IInv' /\ PromiseStep
  <2>1. Harvest(outputs, {}) = outputs
    BY Zenon DEF Harvest, IInv, TypeOK
  <2>2. \E e \in wanted : Harvest(outputs, {})[e] = Unrouted
    BY Zenon, <1>3
  <2> QED  BY Zenon, <1>1, <1>2, <1>4, <2>1, <2>2, FailGood
<1>5. ASSUME NEW p \in bad, NEW before \in SUBSET done, Fail(p, Harvest(outputs, before)),
             UNCHANGED remaining
      PROVE  IInv' /\ PromiseStep
  <2>1. p \in remaining \ before /\ before \in SUBSET Peer
    BY Zenon, <1>2
  <2>2. \E e \in wanted : Harvest(outputs, before)[e] = Unrouted
    BY Zenon, <1>3, <2>1
  <2> QED  BY Zenon, <1>1, <1>2, <1>5, <2>1, <2>2, FailGood
<1>6. ASSUME remaining' = remaining \ done,
             NEW p \in remaining', Fail(p, Harvest(outputs, done))
      PROVE  IInv' /\ PromiseStep
  <2>1. p \in remaining \ done /\ remaining' \subseteq Peer /\ p \in Peer
    BY Zenon, <1>2, <1>6
  <2>2. \E e \in wanted : Harvest(outputs, done)[e] = Unrouted
    BY Zenon, <1>3, <2>1
  <2> QED  BY Zenon, <1>1, <1>2, <1>6, <2>1, <2>2, FailGood
<1>7. ASSUME remaining' = remaining \ done, outputs' = Harvest(outputs, done),
             UNCHANGED <<status, retryVars>>,
             \/ remaining' = {} /\ pc' = "aggregate" /\ registered' = FALSE
             \/ remaining' # {} /\ pc' = pc /\ registered' = registered
      PROVE  IInv' /\ PromiseStep
  <2>1. /\ pc = "gather"
        /\ UNCHANGED <<layer, wanted, asked, abort, up, left, failures, crashes, leaves,
                       status, attempts, excluded, failed>>
    BY Zenon, <1>1, <1>7 DEF layerVars, envVars, retryVars
  <2>2. \/ remaining' = {} /\ pc' = "aggregate"
        \/ remaining' # {} /\ pc' = "gather"
    BY Zenon, <1>1, <1>7
  <2>3. /\ outputs' \in [Expert -> Node \cup {Unrouted}]
        /\ \A e \in Expert :
             \/ outputs'[e] = outputs[e]
             \/ /\ outputs[e] = Unrouted /\ e \in wanted
                /\ e \in asked[outputs'[e]] /\ outputs'[e] \in done
        /\ \A p \in done : \A e \in asked[p] : outputs'[e] = p
    <3>1. /\ Harvest(outputs, done) \in [Expert -> Node \cup {Unrouted}]
          /\ \A e \in Expert :
               \/ Harvest(outputs, done)[e] = outputs[e]
               \/ /\ outputs[e] = Unrouted /\ e \in wanted
                  /\ Harvest(outputs, done)[e] \in done
                  /\ e \in asked[Harvest(outputs, done)[e]]
          /\ \A p \in done : status[p] = "done" =>
               \A e \in asked[p] : Harvest(outputs, done)[e] = p
      <4> HIDE DEF done
      <4> QED  BY Zenon, <1>1, <1>2, HarvestOf DEF IInv
    <3> QED  BY Zenon, <3>1, <1>7
  <2>4. TypeOK'
    <3>1. Types'
      BY <2>1, <2>2, <2>3, <1>2, <1>7, TypeParts DEF IInv, Types
    <3>2. registered' \in BOOLEAN
      BY <1>7, TypeParts, Zenon DEF IInv
    <3> QED  BY Zenon, <3>1, <3>2 DEF TypeOK, Types
  <2>5. AskedInv'
    <3>1. ASSUME NEW q \in Peer, NEW e \in asked[q] PROVE outputs'[e] \in {Unrouted, q}
      <4>1. e \in Expert
        BY Zenon DEF IInv, TypeOK
      <4> QED  BY Zenon, <4>1, <1>2, <2>1, <2>3 DEF IInv, AskedInv
    <3> QED  BY Zenon, <3>1, <2>1 DEF IInv, AskedInv
  <2>6. ASSUME NEW e \in wanted, outputs'[e] = Unrouted
        PROVE  \E p \in remaining' : e \in asked[p]
    <3>1. e \in Expert /\ outputs[e] = Unrouted
      BY Zenon, <2>3, <2>6, FanoutAssumption DEF IInv, TypeOK, Node
    <3>2. PICK p \in remaining : e \in asked[p]
      BY Zenon, <3>1, <2>1 DEF IInv, RemainingInv
    <3>3. p \notin done
      BY <3>2, <2>3, <2>6, <1>2, FanoutAssumption DEF Node
    <3> QED  BY Zenon, <3>2, <3>3, <1>7
  <2>7. ASSUME NEW p \in remaining', NEW e \in asked[p] PROVE outputs'[e] = Unrouted
    <3>1. p \in remaining /\ p \notin done /\ p \in Peer /\ e \in Expert /\ outputs[e] = Unrouted
      BY Zenon, <1>2, <1>7, <2>1 DEF IInv, RemainingInv, TypeOK
    <3> QED  BY <3>1, <1>2, <2>1, <2>3 DEF IInv, AskedInv
  <2>8. RemainingInv'
    BY Zenon, <2>1, <2>6, <2>7, <1>7 DEF IInv, RemainingInv
  <2>9. OutputsInv'
    BY Zenon, <2>1, <2>3 DEF IInv, OutputsInv
  <2>10. Complete'
    BY Zenon, <2>1, <2>2, <2>6, <2>9 DEF Complete, OutputsInv, IInv, TypeOK
  <2>11. PcInv' /\ NotAskedAgain' /\ ExcludedNotAsked' /\ RaisedInNeed'
    BY Zenon, <2>1, <2>2 DEF IInv, PcInv, NotAskedAgain, ExcludedNotAsked, RaisedInNeed
  <2>12. Released'
    BY <2>1, <1>7, Zenon DEF Released
  <2>13. PromiseStep
    BY Zenon, <2>1, <2>2, <1>2, <1>7, HarvestPromise
  <2> QED  BY Zenon, <2>4, <2>5, <2>8, <2>9, <2>10, <2>11, <2>12, <2>13 DEF IInv
<1> QED  BY Zenon, <1>4, <1>5, <1>6, <1>7 DEF Poll, Exit

\* What the survivors brought is kept.
LEMMA DrainGood == IInv /\ Drain => IInv' /\ PromiseStep
<1> SUFFICES ASSUME IInv, Drain PROVE IInv' /\ PromiseStep
  BY Zenon
<1> DEFINE ps == Peer \ {failed}
<1>1. /\ pc = "backoff" /\ pc' = "retry"
      /\ UNCHANGED <<layer, wanted, asked, status, remaining, abort, attempts, excluded,
                     failed, up, left, failures, crashes, leaves>>
  BY Zenon DEF Drain, layerVars, rpcVars, retryVars, envVars
<1>2. outputs' = Harvest(outputs, ps) /\ ps \in SUBSET Peer
  BY Zenon DEF Drain
<1> HIDE DEF ps
<1>3. /\ outputs' \in [Expert -> Node \cup {Unrouted}]
      /\ \A e \in Expert :
           \/ outputs'[e] = outputs[e]
           \/ /\ outputs[e] = Unrouted /\ e \in wanted
              /\ e \in asked[outputs'[e]] /\ outputs'[e] \in Peer
  <2>1. /\ Harvest(outputs, ps) \in [Expert -> Node \cup {Unrouted}]
        /\ \A e \in Expert :
             \/ Harvest(outputs, ps)[e] = outputs[e]
             \/ /\ outputs[e] = Unrouted /\ e \in wanted
                /\ Harvest(outputs, ps)[e] \in ps /\ e \in asked[Harvest(outputs, ps)[e]]
    BY Zenon, <1>1, <1>2, HarvestOf DEF IInv
  <2> QED  BY Zenon, <2>1, <1>2
<1>4. TypeOK'
  <2>1. Types'
    BY Zenon, <1>1, <1>3, TypeParts DEF IInv, Types
  <2>2. registered' \in BOOLEAN
    BY TypeParts, Zenon DEF IInv, Drain
  <2> QED  BY Zenon, <2>1, <2>2 DEF TypeOK, Types
<1>5. AskedInv'
  <2>1. ASSUME NEW q \in Peer, NEW e \in asked[q] PROVE outputs'[e] \in {Unrouted, q}
    <3>1. e \in Expert
      BY Zenon DEF IInv, TypeOK
    <3> QED  BY Zenon, <3>1, <1>1, <1>3 DEF IInv, AskedInv
  <2> QED  BY Zenon, <2>1, <1>1 DEF IInv, AskedInv
<1>6. OutputsInv'
  BY Zenon, <1>1, <1>3 DEF IInv, OutputsInv
<1>7. /\ PcInv' /\ RemainingInv' /\ Complete' /\ NotAskedAgain' /\ ExcludedNotAsked'
      /\ RaisedInNeed' /\ Released'
  BY Zenon, <1>1 DEF IInv, PcInv, RemainingInv, Complete, NotAskedAgain, ExcludedNotAsked,
     RaisedInNeed, Released
<1>8. PromiseStep
  BY Zenon, <1>1, <1>2, HarvestPromise
<1> QED  BY Zenon, <1>4, <1>5, <1>6, <1>7, <1>8 DEF IInv

\* An expert without a routing has no owner left.
LEMMA NoRouting ==
  ASSUME IInv, NEW known \in Known, RetryRoutings(known) = {}
  PROVE  \E e \in Missing : Owners[e] \subseteq excluded
<1> SUFFICES ASSUME \A e \in Missing : ~(Owners[e] \subseteq excluded) PROVE FALSE
  BY Zenon
<1> DEFINE by == [e \in Missing |-> CHOOSE n \in Owners[e] : n \notin excluded]
<1>1. \A e \in Missing : e \in Expert /\ \E n \in Owners[e] : n \notin excluded
  BY Zenon DEF IInv, TypeOK, Missing
<1>2. \A e \in Missing : by[e] \in Owners[e] /\ by[e] \notin excluded
  BY Zenon, <1>1
<1>3. \A e \in Missing : by[e] \in Node
  BY Zenon, <1>1, <1>2, FanoutAssumption DEF Node
<1>4. by \in [Missing -> Node]
  BY Zenon, <1>3
<1>5. by \in Routings(Missing, known, excluded)
  <2> HIDE DEF by
  <2> QED  BY Zenon, <1>2, <1>4 DEF Routings, Candidates
<1> QED  BY Zenon, <1>5 DEF RetryRoutings, RetryIds

\* A retry asks for the rest, or finds it complete, or has no owner left.
LEMMA RetryGood == IInv /\ Retry => IInv' /\ PromiseStep
<1> SUFFICES ASSUME IInv, Retry PROVE IInv' /\ PromiseStep
  BY Zenon
<1>1. /\ pc = "retry"
      /\ UNCHANGED <<layer, wanted, excluded, failed, up, left, failures, crashes, leaves>>
  BY Zenon DEF Retry, layerVars, envVars
<1>2. ASSUME NEW to \in {"aggregate", "raised"}, Exit(to),
             UNCHANGED <<outputs, rpcVars, abort, attempts>>,
             to = "aggregate" => Missing = {},
             to = "raised" => \E e \in Missing : Owners[e] \subseteq excluded
      PROVE  IInv' /\ PromiseStep
  <2>1. pc' = to /\ UNCHANGED <<outputs, asked, status, remaining, abort, attempts>>
    BY Zenon, <1>2 DEF Exit, rpcVars
  <2>2. TypeOK'
    <3>1. Types'
      BY Zenon, <1>1, <1>2, <2>1, TypeParts DEF IInv, Types
    <3>2. registered' \in BOOLEAN
      BY <1>2, Zenon DEF Exit
    <3> QED  BY Zenon, <3>1, <3>2 DEF TypeOK, Types
  <2>3. /\ PcInv' /\ AskedInv' /\ RemainingInv' /\ OutputsInv' /\ NotAskedAgain'
        /\ ExcludedNotAsked'
    BY Zenon, <1>1, <1>2, <2>1 DEF IInv, PcInv, AskedInv, RemainingInv, OutputsInv, NotAskedAgain,
       ExcludedNotAsked
  <2>4. Complete'
    BY Zenon, <1>1, <1>2, <2>1 DEF IInv, Complete, OutputsInv, Missing
  <2>5. RaisedInNeed'
    BY Zenon, <1>1, <1>2, <2>1 DEF RaisedInNeed, Missing
  <2>6. Released'
    BY <1>2, Zenon DEF Released, Exit
  <2>7. PromiseStep
    <3>1. Phase = "open" /\ Phase' = IF to = "raised" THEN "raised" ELSE "open"
      BY Zenon, <1>1, <1>2, <2>1 DEF Phase
    <3>2. CASE to = "aggregate"
      BY Zenon, <3>1, <3>2, <1>1, <2>1 DEF PromiseStep, Promise!vars
    <3>3. CASE to = "raised"
      <4>1. Promise!Extends(outputs', outputs)
        BY Zenon, <2>1 DEF Promise!Extends
      <4>2. \E e \in wanted : outputs'[e] = Unrouted
        BY Zenon, <1>2, <2>1, <3>3 DEF Missing
      <4> QED  BY Zenon, <3>1, <3>3, <4>1, <4>2, <1>1 DEF PromiseStep, Promise!Next, Promise!GiveUp
    <3> QED  BY Zenon, <3>2, <3>3
  <2> QED  BY Zenon, <2>2, <2>3, <2>4, <2>5, <2>6, <2>7 DEF IInv
<1>3. ASSUME NEW known \in Known, NEW by \in RetryRoutings(known),
             outputs' = RunLocal(outputs, by), Submit(by), attempts' = attempts + 1,
             pc' = "register", UNCHANGED registered
      PROVE  IInv' /\ PromiseStep
  <2>1. excluded \in SUBSET Peer /\ by \in Routings(Missing, known, excluded)
    BY Zenon DEF IInv, TypeOK, RetryRoutings, RetryIds
  <2>2. /\ outputs' \in [Expert -> Node \cup {Unrouted}]
        /\ asked' \in [Peer -> SUBSET Expert] /\ status' \in [Peer -> Status]
        /\ remaining' \subseteq Peer /\ abort' = {}
        /\ AskedInv' /\ RemainingInv' /\ OutputsInv' /\ NotAskedAgain' /\ ExcludedNotAsked'
        /\ PromiseStep
    BY Zenon, <1>1, <1>3, <2>1, SubmitGood
  <2>3. TypeOK'
    <3>1. Types'
      BY <1>1, <1>3, <2>2, TypeParts, FanoutAssumption DEF IInv, Types, PcInv
    <3>2. registered' \in BOOLEAN
      BY <1>3, TypeParts, Zenon DEF IInv
    <3> QED  BY Zenon, <3>1, <3>2 DEF TypeOK, Types
  <2>4. PcInv' /\ Complete' /\ RaisedInNeed' /\ Released'
    BY Zenon, <1>1, <1>3 DEF IInv, PcInv, Complete, RaisedInNeed, Released
  <2> QED  BY Zenon, <2>2, <2>3, <2>4 DEF IInv
<1>4. CASE RetryIds = {} /\ Exit("aggregate") /\ UNCHANGED <<outputs, rpcVars, abort, attempts>>
  BY Zenon, <1>2, <1>4 DEF RetryIds
<1>5. ASSUME NEW known \in Known, RetryRoutings(known) = {}, Exit("raised"),
             UNCHANGED <<outputs, rpcVars, abort, attempts>>
      PROVE  IInv' /\ PromiseStep
  BY Zenon, <1>2, <1>5, NoRouting
<1> QED  BY Zenon, <1>3, <1>4, <1>5 DEF Retry

\* Only a complete layer is aggregated.
LEMMA AggregateGood == IInv /\ Aggregate => IInv' /\ PromiseStep
<1> SUFFICES ASSUME IInv, Aggregate PROVE IInv' /\ PromiseStep
  BY Zenon
<1>1. /\ pc = "aggregate" /\ layer' = layer + 1
      /\ pc' = IF layer' = Layers THEN "done" ELSE "route"
      /\ UNCHANGED <<wanted, outputs, asked, status, remaining, abort, attempts, excluded,
                     failed, up, left, failures, crashes, leaves>>
  BY Zenon DEF Aggregate, rpcVars, retryVars, envVars
<1>2. TypeOK'
  <2>1. Types'
    BY <1>1, TypeParts, FanoutAssumption DEF IInv, Types, PcInv
  <2>2. registered' \in BOOLEAN
    BY TypeParts, Zenon DEF IInv, Aggregate
  <2> QED  BY Zenon, <2>1, <2>2 DEF TypeOK, Types
<1>3. PcInv'
  BY <1>1, FanoutAssumption DEF IInv, PcInv, TypeOK
<1>4. ~registered'
  <2>1. ~registered
    BY Zenon, <1>1 DEF IInv, Released
  <2> QED  BY <2>1, Zenon DEF Aggregate
<1>5. /\ AskedInv' /\ RemainingInv' /\ OutputsInv' /\ Complete' /\ NotAskedAgain'
      /\ ExcludedNotAsked' /\ RaisedInNeed' /\ Released'
  BY Zenon, <1>1, <1>4 DEF IInv, AskedInv, RemainingInv, OutputsInv, Complete, NotAskedAgain,
     ExcludedNotAsked, RaisedInNeed, Released
<1>6. Promise!Close
  <2>1. Phase = "open" /\ Phase' = IF layer' = Layers THEN "done" ELSE "idle"
    BY Zenon, <1>1 DEF Phase
  <2> QED  BY Zenon, <2>1, <1>1 DEF Promise!Close, IInv, Complete
<1> QED  BY Zenon, <1>2, <1>3, <1>5, <1>6 DEF IInv, PromiseStep, Promise!Next
-----------------------------------------------------------------------------
(* The other threads. *)

\* A call or a transition changes none of what the invariant is about but types.
LEMMA OthersGood ==
  ASSUME NEW p \in Peer,
         Call(p) \/ NotifyPeerLeftAlive(p) \/ PeerBack(p) \/ PeerCrash(p), IInv
  PROVE  IInv' /\ PromiseStep
<1>1. UNCHANGED <<pc, layer, wanted, outputs, asked, remaining, attempts, excluded, failed>>
  BY Zenon DEF Call, StartCall, CallReturns, CallRaises, NotifyPeerLeftAlive, PeerBack, PeerCrash,
     layerVars, rpcVars, retryVars
<1>2. UNCHANGED registered
  BY Zenon DEF Call, StartCall, CallReturns, CallRaises, NotifyPeerLeftAlive, PeerBack, PeerCrash
<1>3. TypeOK'
  <2>1. /\ status' \in [Peer -> Status] /\ abort' \subseteq Peer /\ up' \subseteq Peer
        /\ left' \subseteq Peer /\ failures' \in 0..MaxFailures /\ crashes' \in 0..MaxCrashes
        /\ leaves' \in 0..MaxLeaves
    <3> USE FanoutAssumption
    <3>0. Types
      BY Zenon, TypeParts DEF IInv
    <3>1. CASE StartCall(p) \/ CallReturns(p)
      BY Zenon, <3>0, <3>1 DEF Types, StartCall, CallReturns, SetStatus, Status, envVars
    <3>2. CASE CallRaises(p)
      BY <3>0, <3>2 DEF Types, CallRaises, SetStatus, Status
    <3>3. CASE NotifyPeerLeftAlive(p)
      BY <3>0, <3>3 DEF Types, NotifyPeerLeftAlive, rpcVars
    <3>4. CASE PeerBack(p)
      BY Zenon, <3>0, <3>4 DEF Types, PeerBack, rpcVars
    <3>5. CASE PeerCrash(p)
      BY <3>0, <3>5 DEF Types, PeerCrash, rpcVars
    <3> QED  BY Zenon, <3>1, <3>2, <3>3, <3>4, <3>5 DEF Call
  <2>2. Types'
    BY Zenon, <1>1, <2>1, TypeParts DEF IInv, Types
  <2>3. registered' \in BOOLEAN
    BY <1>2, TypeParts, Zenon DEF IInv
  <2> QED  BY Zenon, <2>2, <2>3 DEF TypeOK, Types
<1>4. AskedInv' /\ RemainingInv' /\ OutputsInv'
  BY Zenon, <1>1 DEF IInv, AskedInv, RemainingInv, OutputsInv
<1>5. PcInv' /\ Complete' /\ NotAskedAgain' /\ ExcludedNotAsked' /\ RaisedInNeed'
  BY Zenon, <1>1 DEF IInv, PcInv, Complete, NotAskedAgain, ExcludedNotAsked, RaisedInNeed, Missing
<1>6. Released'
  BY Zenon, <1>1, <1>2 DEF IInv, Released
<1>7. PromiseStep
  BY Zenon, <1>1 DEF PromiseStep, Promise!vars, Phase
<1> QED  BY Zenon, <1>3, <1>4, <1>5, <1>6, <1>7 DEF IInv

\* Every step preserves the invariant and is a step of SplitLayer, or none.
LEMMA NextGood == IInv /\ [Next]_vars => IInv' /\ PromiseStep
<1> SUFFICES ASSUME IInv, [Next]_vars PROVE IInv' /\ PromiseStep
  BY Zenon
<1>1. CASE Thread
  BY Zenon, <1>1, RunPhaseAGood, FanOutGood, RegisterGood, PollGood, DrainGood, RetryGood,
     AggregateGood DEF Thread
<1>2. ASSUME NEW p \in Peer,
             Call(p) \/ NotifyPeerLeftAlive(p) \/ PeerBack(p) \/ PeerCrash(p)
      PROVE  IInv' /\ PromiseStep
  BY Zenon, <1>2, OthersGood
<1>3. CASE UNCHANGED vars
  <2>1. /\ UNCHANGED <<pc, layer, wanted, outputs, asked, status, remaining, abort, attempts,
                       excluded, failed, up, left, failures, crashes, leaves>>
        /\ UNCHANGED registered
    BY Zenon, <1>3 DEF vars, layerVars, rpcVars, retryVars, envVars
  <2>2. TypeOK'
    BY Zenon, <2>1 DEF IInv, TypeOK
  <2>3. AskedInv' /\ RemainingInv' /\ OutputsInv'
    BY Zenon, <2>1 DEF IInv, AskedInv, RemainingInv, OutputsInv
  <2>4. PcInv' /\ Complete' /\ NotAskedAgain' /\ ExcludedNotAsked' /\ RaisedInNeed' /\ Released'
    BY Zenon, <2>1 DEF IInv, PcInv, Complete, NotAskedAgain, ExcludedNotAsked, RaisedInNeed, Released,
       Missing
  <2>5. PromiseStep
    BY Zenon, <2>1 DEF PromiseStep, Promise!vars, Phase
  <2> QED  BY Zenon, <2>2, <2>3, <2>4, <2>5 DEF IInv
<1> QED  BY Zenon, <1>1, <1>2, <1>3 DEF Next
-----------------------------------------------------------------------------
(* The theorems. *)

\* The inductive invariant holds of every behaviour.
LEMMA Invariance == Spec => []IInv
BY InitGood, NextGood, PTL DEF Spec

\* The thread never makes more attempts than retry_max_attempts allows, and its
\* state stays well typed (_phase_b_with_retry).
THEOREM FanoutTyped == Spec => []TypeOK
<1>1. IInv => TypeOK
  BY Zenon DEF IInv
<1> QED  BY <1>1, Invariance, PTL

\* aggregate_experts finds exactly the outputs of the experts the router picked.
THEOREM FanoutComplete == Spec => []Complete
<1>1. IInv => Complete
  BY Zenon DEF IInv
<1> QED  BY <1>1, Invariance, PTL

\* No attempt of _phase_b_with_retry asks for an expert whose output is there,
\* or asks a peer that has failed.
THEOREM RetriesDisciplined == Spec => []Disciplined
<1>1. IInv => Disciplined
  BY Zenon DEF IInv, Disciplined
<1> QED  BY <1>1, Invariance, PTL

\* _phase_b_with_retry raises only when the attempts or the owners of a missing
\* expert are used up.
THEOREM FanoutRaisedInNeed == Spec => []RaisedInNeed
<1>1. IInv => RaisedInNeed
  BY Zenon DEF IInv
<1> QED  BY <1>1, Invariance, PTL

\* Whichever way _phase_b_with_retry is left, _in_flight loses its entry.
THEOREM FanoutReleased == Spec => []Released
<1>1. IInv => Released
  BY Zenon DEF IInv
<1> QED  BY <1>1, Invariance, PTL

\* run_split_layer implements SplitLayer, whatever peers, calls and membership do.
THEOREM FanoutImplements == Spec => Implements
<1>1. IInv /\ [Next]_vars => [Promise!Next]_(Promise!vars)
  BY Zenon, NextGood DEF PromiseStep
<1>2. Init => Promise!Init
  BY Zenon, InitGood
<1> QED  BY <1>1, <1>2, Invariance, PTL DEF Spec, Implements, Promise!Spec
=============================================================================
