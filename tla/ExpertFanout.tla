---------------------------- MODULE ExpertFanout ----------------------------
(***************************************************************************)
(* The fan-out of a split layer: expert_orchestrator.py.  The thread of a  *)
(* request routes the experts of each split layer, runs its own, asks the  *)
(* peers for the others and retries what failed; the pool's threads make   *)
(* the RPCs, and the membership thread signals the peers that leave ALIVE. *)
(*                                                                         *)
(* An output is abstracted to the node that computed it.  Loads are left   *)
(* open: power of two choices may prefer any owner.  RPC threads of an     *)
(* abandoned attempt are left out, nobody looks at their results.          *)
(***************************************************************************)
EXTENDS Integers, FiniteSets

CONSTANTS
  Peer,          \* the other shards
  Self,          \* self_shard_id
  Expert,        \* the experts of a split layer
  Owners,        \* [Expert -> SUBSET (Peer \cup {Self})]: owners, of shards.yaml
  Replicas,      \* the same for the replicas that gossip may tell of
  Unrouted,      \* no output, no peer
  MaxAttempts,   \* retry_max_attempts
  Layers,        \* number of split layers
  MaxFailures, MaxCrashes, MaxLeaves   \* budgets of the environment

ASSUME FanoutAssumption ==
  /\ Self \notin Peer /\ Unrouted \notin Peer \cup {Self}
  /\ Owners \in [Expert -> (SUBSET (Peer \cup {Self})) \ {{}}]
  /\ Replicas \in [Expert -> SUBSET (Peer \cup {Self})]
  /\ MaxAttempts \in Nat /\ Layers \in Nat \ {0}
  /\ MaxFailures \in Nat /\ MaxCrashes \in Nat /\ MaxLeaves \in Nat

VARIABLES
  pc,          \* where the thread of the request is
  layer,       \* split layers done so far
  wanted,      \* all_ids: the experts the router picked
  outputs,     \* [Expert -> Node or Unrouted]
  asked,       \* [Peer -> SUBSET Expert]: the ids each future was submitted with
  status,      \* [Peer -> Status]: the futures
  remaining,   \* the futures _gather_with_abort still waits for
  abort,       \* the peers whose abort event is set
  registered,  \* whether _in_flight has an entry of the request
  attempts, excluded, failed,   \* of _phase_b_with_retry
  up,          \* the running peers
  left,        \* the peers whose last transition was out of ALIVE
  failures, crashes, leaves

layerVars == <<layer, wanted>>
rpcVars == <<asked, status, remaining>>
retryVars == <<attempts, excluded, failed>>
envVars == <<up, left, failures, crashes, leaves>>
vars == <<pc, layerVars, outputs, rpcVars, abort, registered, retryVars, envVars>>
-----------------------------------------------------------------------------
Node == Peer \cup {Self}
Status == {"none", "queued", "running", "done", "failed", "cancelled"}

NoOutputs == [e \in Expert |-> Unrouted]
Missing == {e \in wanted : outputs[e] = Unrouted}

\* group_expert_ids_by_owner_loaded: the ways to spread ids over their owners,
\* without the ones in ex.  There is none when an id has no owner: KeyError.
Candidates(e, known, ex) == (Owners[e] \cup known[e]) \ ex
Routings(ids, known, ex) ==
  {by \in [ids -> Node] : \A e \in ids : by[e] \in Candidates(e, known, ex)}

\* live_owners_provider: what gossip has told by now
Known == {k \in [Expert -> SUBSET Node] : \A e \in Expert : k[e] \subseteq Replicas[e]}

\* run_selected_experts, for the ids routed here
RunLocal(out, by) ==
  [e \in Expert |-> IF e \in DOMAIN by /\ by[e] = Self THEN Self ELSE out[e]]

\* What a finished future returned
Harvest(out, ps) ==
  [e \in Expert |->
     LET from == {p \in ps : status[p] = "done" /\ e \in asked[p]}
     IN IF from = {} THEN out[e] ELSE CHOOSE p \in from : TRUE]

\* The futures for a routing
Submit(by) ==
  /\ asked' = [p \in Peer |-> {e \in DOMAIN by : by[e] = p}]
  /\ status' = [p \in Peer |-> IF asked'[p] = {} THEN "none" ELSE "queued"]
  /\ remaining' = {p \in Peer : asked'[p] # {}}
  /\ abort' = {}
-----------------------------------------------------------------------------
(* The thread of the request. *)

\* Phase A of run_split_layer: attention and routing, and the local experts
RunPhaseA ==
  /\ pc = "route"
  /\ \E ids \in (SUBSET Expert) \ {{}}, known \in Known :
       \E by \in Routings(ids, known, {}) :
         /\ wanted' = ids
         /\ outputs' = RunLocal(NoOutputs, by)
  /\ pc' = "submit"
  /\ UNCHANGED <<layer, rpcVars, abort, registered, retryVars, envVars>>

\* _phase_b_with_retry routes the remote ids again, and submits them.
FanOut ==
  /\ pc = "submit"
  /\ \E known \in Known : \E by \in Routings(Missing, known, {}) :
       /\ outputs' = RunLocal(outputs, by)
       /\ Submit(by)
  /\ pc' = "register"
  /\ attempts' = 1 /\ excluded' = {} /\ failed' = Unrouted
  /\ UNCHANGED <<layerVars, registered, envVars>>

\* The abort events are registered after the futures have been submitted.
Register ==
  /\ pc = "register"
  /\ registered' = (registered \/ remaining # {})
  /\ pc' = "gather"
  /\ UNCHANGED <<layerVars, outputs, rpcVars, abort, retryVars, envVars>>

\* The finally of _phase_b_with_retry, and what comes after it
Exit(to) == pc' = to /\ registered' = FALSE

\* Mutant: an attempt is counted when it fails and when it is repeated.
FailCounted(p, out) ==
  /\ status' = [q \in Peer |-> IF q \in remaining /\ status[q] = "queued" THEN "cancelled"
                                                                       ELSE status[q]]
  /\ outputs' = out
  /\ \/ /\ attempts >= MaxAttempts
        /\ Exit("raised")
        /\ UNCHANGED retryVars
     \/ /\ attempts < MaxAttempts
        /\ excluded' = excluded \cup {p} /\ failed' = p /\ attempts' = attempts + 1
        /\ pc' = "backoff" /\ UNCHANGED registered

\* Mutant: the events stay registered.
FailRegistered(p, out) ==
  /\ status' = [q \in Peer |-> IF q \in remaining /\ status[q] = "queued" THEN "cancelled"
                                                                       ELSE status[q]]
  /\ outputs' = out
  /\ \/ /\ attempts >= MaxAttempts
        /\ pc' = "raised"
        /\ UNCHANGED <<registered, retryVars>>
     \/ /\ attempts < MaxAttempts
        /\ excluded' = excluded \cup {p} /\ failed' = p
        /\ pc' = "backoff" /\ UNCHANGED <<registered, attempts>>

\* Mutant: failures are neither counted nor remembered.
FailForgotten(p, out) ==
  /\ status' = [q \in Peer |-> IF q \in remaining /\ status[q] = "queued" THEN "cancelled"
                                                                       ELSE status[q]]
  /\ outputs' = out
  /\ failed' = p /\ attempts' = 0
  /\ pc' = "backoff"
  /\ UNCHANGED <<registered, excluded>>

\* ExpertRpcFailure: what is still queued is cancelled; then the last attempt
\* raises, and any other one excludes the peer and sleeps.
Fail(p, out) ==
  /\ status' = [q \in Peer |-> IF q \in remaining /\ status[q] = "queued" THEN "cancelled"
                                                                       ELSE status[q]]
  /\ outputs' = out
  /\ \/ /\ attempts >= MaxAttempts
        /\ Exit("raised")
        /\ UNCHANGED retryVars
     \/ /\ attempts < MaxAttempts
        /\ excluded' = excluded \cup {p} /\ failed' = p
        /\ pc' = "backoff" /\ UNCHANGED <<registered, attempts>>

\* One turn of the loop of _gather_with_abort.  An abort wins; then the
\* futures are looked at in some order up to the first that failed; then the
\* deadline may have passed.
Poll ==
  /\ pc = "gather"
  /\ LET done == {p \in remaining : status[p] = "done"}
         bad == {p \in remaining : status[p] \in {"failed", "cancelled"}}
     IN \/ \E p \in abort \cap remaining :
             Fail(p, outputs) /\ UNCHANGED remaining
        \/ /\ abort \cap remaining = {}
           /\ \E p \in bad, before \in SUBSET done :
                Fail(p, Harvest(outputs, before)) /\ UNCHANGED remaining
        \/ /\ abort \cap remaining = {} /\ bad = {}
           /\ remaining' = remaining \ done
           /\ \/ /\ remaining' = {}
                 /\ outputs' = Harvest(outputs, done)
                 /\ Exit("aggregate")
                 /\ UNCHANGED <<status, retryVars>>
              \/ /\ remaining' # {} /\ done # {}
                 /\ outputs' = Harvest(outputs, done)
                 /\ UNCHANGED <<pc, registered, status, retryVars>>
              \/ \E p \in remaining' : Fail(p, Harvest(outputs, done))
  /\ UNCHANGED <<layerVars, asked, abort, envVars>>

\* After the sleep, the survivors that have finished are counted.
Drain ==
  /\ pc = "backoff"
  /\ outputs' = Harvest(outputs, Peer \ {failed})
  /\ pc' = "retry"
  /\ UNCHANGED <<layerVars, rpcVars, abort, registered, retryVars, envVars>>

\* Mutant: only the experts of the peer that failed are asked for again.
RetryIdsOfFailed == {e \in Missing : e \in asked[failed]}

\* Mutant: what there is already is asked for again.
RetryIdsAll == {e \in wanted : outputs[e] # Self}

\* missing
RetryIds == Missing

\* Mutant: every peer stays a candidate.
RetryRoutingsOfAll(known) == Routings(RetryIds, known, {})

\* Mutant: the bootstrap owners are left out.
RetryRoutingsOfReplicas(known) ==
  {by \in [RetryIds -> Node] : \A e \in RetryIds : by[e] \in known[e] \ excluded}

\* The owners without the peers that failed
RetryRoutings(known) == Routings(RetryIds, known, excluded)

\* The rest is routed anew, to the owners that have not failed, and submitted.
\* If one has no such owner, the failure is raised again.
Retry ==
  /\ pc = "retry"
  /\ \/ /\ RetryIds = {}
        /\ Exit("aggregate")
        /\ UNCHANGED <<outputs, rpcVars, abort, attempts>>
     \/ /\ RetryIds # {}
        /\ \E known \in Known :
             \/ /\ RetryRoutings(known) = {}
                /\ Exit("raised")
                /\ UNCHANGED <<outputs, rpcVars, abort, attempts>>
             \/ \E by \in RetryRoutings(known) :
                  /\ outputs' = RunLocal(outputs, by)
                  /\ Submit(by)
                  /\ attempts' = attempts + 1
                  /\ pc' = "register" /\ UNCHANGED registered
  /\ UNCHANGED <<layerVars, excluded, failed, envVars>>

\* Phase C; then the next split layer
Aggregate ==
  /\ pc = "aggregate"
  /\ layer' = layer + 1
  /\ pc' = IF layer' = Layers THEN "done" ELSE "route"
  /\ UNCHANGED <<wanted, outputs, rpcVars, abort, registered, retryVars, envVars>>
-----------------------------------------------------------------------------
(* The threads of the pool: TcpPeerRPC.call. *)

SetStatus(p, s) == status' = [status EXCEPT ![p] = s]

StartCall(p) ==
  /\ status[p] = "queued"
  /\ SetStatus(p, "running")
  /\ UNCHANGED <<pc, layerVars, outputs, asked, remaining, abort, registered, retryVars, envVars>>

\* The peer computes all the experts it was asked for.
CallReturns(p) ==
  /\ status[p] = "running" /\ p \in up
  /\ SetStatus(p, "done")
  /\ UNCHANGED <<pc, layerVars, outputs, asked, remaining, abort, registered, retryVars, envVars>>

\* A refused connection, an error, a timeout
CallRaises(p) ==
  /\ status[p] = "running"
  /\ p \notin up \/ failures < MaxFailures
  /\ failures' = IF p \in up THEN failures + 1 ELSE failures
  /\ SetStatus(p, "failed")
  /\ UNCHANGED <<pc, layerVars, outputs, asked, remaining, abort, registered, retryVars,
                 up, left, crashes, leaves>>
-----------------------------------------------------------------------------
(* Membership. *)

\* The event a transition finds is the current one unless the thread is
\* between submitting and registering.
Signalled(p) == registered /\ pc # "register" /\ asked[p] # {}

\* notify_peer_left_alive
NotifyPeerLeftAlive(p) ==
  /\ p \notin left /\ leaves < MaxLeaves
  /\ leaves' = leaves + 1
  /\ left' = left \cup {p}
  /\ abort' = IF Signalled(p) THEN abort \cup {p} ELSE abort
  /\ UNCHANGED <<pc, layerVars, outputs, rpcVars, registered, retryVars, up, failures, crashes>>

PeerBack(p) ==
  /\ p \in left \cap up
  /\ left' = left \ {p}
  /\ UNCHANGED <<pc, layerVars, outputs, rpcVars, abort, registered, retryVars,
                 up, failures, crashes, leaves>>

PeerCrash(p) ==
  /\ p \in up /\ crashes < MaxCrashes
  /\ crashes' = crashes + 1
  /\ up' = up \ {p}
  /\ UNCHANGED <<pc, layerVars, outputs, rpcVars, abort, registered, retryVars,
                 left, failures, leaves>>
-----------------------------------------------------------------------------
Init ==
  /\ pc = "route"
  /\ layer = 0 /\ wanted = {} /\ outputs = NoOutputs
  /\ asked = [p \in Peer |-> {}] /\ status = [p \in Peer |-> "none"] /\ remaining = {}
  /\ abort = {} /\ registered = FALSE
  /\ attempts = 0 /\ excluded = {} /\ failed = Unrouted
  /\ up = Peer /\ left = {}
  /\ failures = 0 /\ crashes = 0 /\ leaves = 0

Thread ==
  RunPhaseA \/ FanOut \/ Register \/ Poll \/ Drain \/ Retry \/ Aggregate

Call(p) == StartCall(p) \/ CallReturns(p) \/ CallRaises(p)

Next ==
  \/ Thread
  \/ \E p \in Peer : \/ Call(p)
                     \/ NotifyPeerLeftAlive(p) \/ PeerBack(p) \/ PeerCrash(p)

Spec == Init /\ [][Next]_vars

\* The thread runs, and every call ends, at the latest by its socket timeout.
Fairness == WF_vars(Thread) /\ \A p \in Peer : WF_vars(Call(p))

FairSpec == Spec /\ Fairness
-----------------------------------------------------------------------------
(* Properties. *)

\* Types; in particular no more attempts are made than retry_max_attempts, or
\* one if that is 0.
TypeOK ==
  /\ pc \in {"route", "submit", "register", "gather", "backoff", "retry", "aggregate",
             "done", "raised"}
  /\ layer \in 0..Layers /\ wanted \subseteq Expert
  /\ outputs \in [Expert -> Node \cup {Unrouted}]
  /\ asked \in [Peer -> SUBSET Expert] /\ status \in [Peer -> Status]
  /\ remaining \subseteq Peer /\ abort \subseteq Peer
  /\ registered \in BOOLEAN
  /\ attempts \in Nat /\ attempts <= IF MaxAttempts = 0 THEN 1 ELSE MaxAttempts
  /\ excluded \subseteq Peer /\ failed \in Peer \cup {Unrouted}
  /\ up \subseteq Peer /\ left \subseteq Peer
  /\ failures \in 0..MaxFailures /\ crashes \in 0..MaxCrashes /\ leaves \in 0..MaxLeaves

\* aggregate_experts finds the output of every expert the router picked, and of
\* no other: it would raise a KeyError.
Complete ==
  pc = "aggregate" => \A e \in Expert : e \in wanted <=> outputs[e] # Unrouted

\* "experts that already completed (in outputs) are never re-dispatched"
\* (_phase_b_with_retry)
NotAskedAgain ==
  pc = "register" => \A p \in Peer, e \in Expert : e \in asked[p] => outputs[e] = Unrouted

\* A retry asks none of the peers that have failed in this fan-out.
ExcludedNotAsked == pc = "register" => \A p \in excluded : asked[p] = {}

\* A retry asks the right peers for the right experts.
Disciplined == NotAskedAgain /\ ExcludedNotAsked

\* The fan-out gives up only after the last attempt, or when every node that
\* shards.yaml lists for some missing expert has failed.
RaisedInNeed ==
  pc = "raised" => \/ attempts >= MaxAttempts
                   \/ \E e \in Missing : Owners[e] \subseteq excluded

\* _in_flight has no entry of a request that is not waiting for peers.
Released == pc \in {"route", "submit", "aggregate", "done", "raised"} => ~registered

\* The phase of the layer, in terms of SplitLayer
Phase ==
  IF pc = "route" THEN "idle" ELSE IF pc \in {"done", "raised"} THEN pc ELSE "open"

Promise ==
  INSTANCE SplitLayer
    WITH Holders <- [e \in Expert |-> Owners[e] \cup Replicas[e]],
         Nobody <- Unrouted,
         phase <- Phase

\* run_split_layer keeps the promise of SplitLayer: no output is replaced or
\* comes from a node that does not hold the expert, however late an answer is,
\* a layer is aggregated when it is complete, and given up only when it is not.
Implements == Promise!Spec

\* Every fan-out comes to an end.
Ends == <>(pc \in {"done", "raised"})
=============================================================================
