------------------------------ MODULE Provenance ------------------------------
(***************************************************************************)
(* The provenance chain of one forward pass: provenance.py, and the code   *)
(* of node.py, mlx_engine.py and expert_orchestrator.py that extends and   *)
(* checks the chain.  The activation goes from stage to stage; the stage   *)
(* Self has the split layers, and runs each of them by the fan-out of      *)
(* ExpertFanout, whose actions are extended here by what they do to the    *)
(* chain.                                                                  *)
(*                                                                         *)
(* In one pass an operation determines its output, and an entry of a node  *)
(* its parents, so a digest is abstracted to the node, the operation and   *)
(* the output it commits to.                                               *)
(* ENABLE_PROVENANCE and ENABLE_EXPERT_SHARD are read by each process from *)
(* its environment.                                                        *)
(***************************************************************************)
EXTENDS ExpertFanout, SequencesExt

CONSTANTS
  Route,    \* the shards in the order of their layers
  Bounds,   \* [Node -> [start, end]]: the layer range of each shard
  Split     \* the split layers, all of them in the range of Self

ASSUME ProvenanceAssumption ==
  /\ Route \in Seq(Node) /\ ToSet(Route) = Node
  /\ Bounds \in [Node -> [start : Nat, end : Nat]]
  /\ Split \subseteq Bounds[Self].start..(Bounds[Self].end - 1)
  /\ Cardinality(Split) = Layers

VARIABLES
  at,          \* the stage of Route the activation is at
  inside,      \* whether Self is running its layers
  chain,       \* the chain of the stage at work, or of the activation
  prefix,      \* pb_prefix: the chain sent with the expert requests
  refused,     \* the peers that have refused the chain of an expert request
  verdict,     \* "none", "rejected", or "sampled" when the tail has its token
  recording,   \* the nodes with ENABLE_PROVENANCE
  sharding     \* ENABLE_EXPERT_SHARD of Self

flags == <<recording, sharding>>
chainVars == <<at, inside, chain, prefix, refused, verdict, flags>>
-----------------------------------------------------------------------------
TotalLayers == Bounds[Route[Len(Route)]].end

\* OpDescriptor; 0 is the default of both ids.
NoId == 0
Op(t, l, e) == [t |-> t, l |-> l, e |-> e]
Embed == Op("OP_EMBED", NoId, NoId)
Atomic(l) == Op("OP_LAYER_ATOMIC", l, NoId)
AttentionRoute(l) == Op("OP_ATTENTION_ROUTE", l, NoId)
Shared(l) == Op("OP_SHARED_EXPERT", l, NoId)
ExpertOp(l, e) == Op("OP_EXPERT", l, e)
AggregateOp(l) == Op("OP_AGGREGATE", l, NoId)

\* The tensor an operation returns: the input of layer i is Hidden(i).
Hidden(i) == [t |-> "hidden", l |-> i, e |-> NoId]
Output(op) ==
  CASE op.t = "OP_EMBED" -> Hidden(0)
    [] op.t \in {"OP_LAYER_ATOMIC", "OP_AGGREGATE"} -> Hidden(op.l + 1)
    [] OTHER -> op

\* compute_hash and build_entry
ComputeHash(n, op, tensor) == [n |-> n, op |-> op, out |-> tensor]
BuildEntry(n, op, parents) ==
  [n |-> n, op |-> op, hash |-> ComputeHash(n, op, Output(op)), parents |-> parents]

\* The parent of an operation in sequence: the last entry, if there is one
LastHash(c) == IF c = <<>> THEN {} ELSE {Last(c).hash}
-----------------------------------------------------------------------------
(* validate_chain, for a receiver that knows the replicas of known. *)

OfType(c, types) == {i \in DOMAIN c : c[i].op.t \in types}
At(c, t, l) == {i \in OfType(c, {t}) : c[i].op.l = l}

\* The chain starts with the embedding, and only its last entry finalizes.
Rule1(c) ==
  /\ c[1].op.t = "OP_EMBED"
  /\ OfType(c, {"OP_FINALIZE"}) \subseteq {Len(c)}

\* No layer below the highest is left out.
Covered(c) == {c[i].op.l : i \in OfType(c, {"OP_LAYER_ATOMIC", "OP_AGGREGATE"})}
Rule2(c) ==
  IF OfType(c, {"OP_FINALIZE"}) # {}
  THEN 0..(TotalLayers - 1) \subseteq Covered(c)
  ELSE \A l \in Covered(c) : 0..l \subseteq Covered(c)

\* A split layer has one entry of each kind, an expert at most once, and an
\* aggregate that commits to the shared expert and to every expert.
SplitTypes == {"OP_ATTENTION_ROUTE", "OP_SHARED_EXPERT", "OP_EXPERT", "OP_AGGREGATE"}
Rule3(c) ==
  \A l \in {c[i].op.l : i \in OfType(c, SplitTypes)} :
    LET shared == At(c, "OP_SHARED_EXPERT", l)
        experts == At(c, "OP_EXPERT", l)
        aggregate == At(c, "OP_AGGREGATE", l)
    IN /\ Cardinality(At(c, "OP_ATTENTION_ROUTE", l)) = 1
       /\ Cardinality(shared) = 1 /\ experts # {} /\ Cardinality(aggregate) = 1
       /\ \A i, j \in experts : c[i].op.e = c[j].op.e => i = j
       /\ \A i \in shared \cup experts, j \in aggregate : c[i].hash \in c[j].parents

\* _split_layers_for_shard: the layers of moe_experts, whatever the flags say
SplitLayersFor(n) == IF \E e \in Expert : n \in Owners[e] THEN Split ELSE {}

\* Every node was entitled to what it did.
Authorized(x, known) ==
  LET b == Bounds[x.n]
      inRange == b.start <= x.op.l /\ x.op.l < b.end
  IN CASE x.op.t = "OP_EMBED" -> b.start = 0
       [] x.op.t = "OP_FINALIZE" -> b.end = TotalLayers
       [] x.op.t = "OP_LAYER_ATOMIC" -> inRange /\ x.op.l \notin SplitLayersFor(x.n)
       [] x.op.t = "OP_EXPERT" -> x.n \in Owners[x.op.e] \cup known[x.op.e]
       [] OTHER -> inRange /\ x.op.l \in SplitLayersFor(x.n)
Rule5(c, known) == \A i \in DOMAIN c : Authorized(c[i], known)

\* The last entry commits to the tensor that came with the chain.
Rule4(c, tensor) == ComputeHash(Last(c).n, Last(c).op, tensor) = Last(c).hash

Valid(c, known, tensor) ==
  Rule1(c) /\ Rule2(c) /\ Rule3(c) /\ Rule5(c, known) /\ Rule4(c, tensor)
-----------------------------------------------------------------------------
(* The stages. *)

\* run_layers, for the atomic layers of first..last
RunAtomic(n, c, first, last) ==
  FoldLeft(LAMBDA acc, l : Append(acc, BuildEntry(n, Atomic(l), LastHash(acc))),
           c, [i \in 1..(last - first + 1) |-> first + i - 1])

Recorded(n, c) == IF n \in recording THEN c ELSE <<>>

\* The layer before the next split one, or the last of Self
UpTo(l) ==
  LET ahead == {s \in Split : s >= l}
  IN (IF ahead = {} THEN Bounds[Self].end ELSE Min(ahead)) - 1

\* _handle_begin on the head
Begin ==
  /\ at = 1 /\ chain = <<>> /\ ~inside /\ verdict = "none"
  /\ LET n == Route[1] IN
       chain' = Recorded(n, RunAtomic(n, <<BuildEntry(n, Embed, {})>>,
                                      Bounds[n].start, Bounds[n].end - 1))
  /\ at' = 2
  /\ UNCHANGED <<vars, inside, prefix, refused, verdict, flags>>

\* _handle_activation: a recording stage checks the chain, if there is one;
\* then it runs its layers, Self only up to its first split one, and the tail
\* samples a token.
Activation ==
  /\ at \in 2..Len(Route) /\ ~inside /\ verdict = "none"
  /\ LET n == Route[at]
         b == Bounds[n]
         checked == n \in recording /\ chain # <<>>
         fanning == n = Self /\ sharding
     IN /\ n \in up \cup {Self}
        /\ \E known \in Known :
             \/ /\ checked /\ ~Valid(chain, known, Hidden(b.start))
                /\ verdict' = "rejected"
                /\ UNCHANGED <<at, inside, chain>>
             \/ /\ checked => Valid(chain, known, Hidden(b.start))
                /\ chain' = Recorded(n, RunAtomic(n, chain, b.start,
                                          IF fanning THEN UpTo(b.start) ELSE b.end - 1))
                /\ inside' = fanning
                /\ at' = IF fanning THEN at ELSE at + 1
                /\ verdict' = IF at = Len(Route) THEN "sampled" ELSE "none"
  /\ UNCHANGED <<vars, prefix, refused, flags>>
-----------------------------------------------------------------------------
(* The split layers of Self, in the thread of the pass. *)

\* The split layer the fan-out is at
CurrentLayer == SetToSortSeq(Split, <)[layer + 1]

Record(entries) == chain' = IF Self \in recording THEN chain \o entries ELSE chain

\* The entries of the experts this step has computed here
ExpertEntries(n, ids, parents) ==
  LET s == SetToSeq(ids)
  IN [i \in 1..Len(s) |-> BuildEntry(n, ExpertOp(CurrentLayer, s[i]), parents)]

RouteHash == {ComputeHash(Self, AttentionRoute(CurrentLayer),
                          Output(AttentionRoute(CurrentLayer)))}
ComputedHere == {e \in Expert : outputs'[e] = Self /\ (pc = "route" \/ outputs[e] # Self)}
LocalEntries == ExpertEntries(Self, ComputedHere, RouteHash)

ChainPhaseA ==
  /\ inside /\ RunPhaseA
  /\ Record(<<BuildEntry(Self, AttentionRoute(CurrentLayer), LastHash(chain)),
              BuildEntry(Self, Shared(CurrentLayer), RouteHash)>> \o LocalEntries)
  /\ UNCHANGED <<at, inside, prefix, refused, verdict, flags>>

\* The requests carry the chain as it is before this step.
ChainFanOut ==
  /\ FanOut
  /\ prefix' = chain
  /\ Record(LocalEntries)
  /\ UNCHANGED <<at, inside, refused, verdict, flags>>

\* Mutant: what is computed here in a retry is not recorded.
ChainRetryUnrecorded ==
  /\ Retry
  /\ UNCHANGED <<at, inside, chain, prefix, refused, verdict, flags>>

ChainRetry ==
  /\ Retry
  /\ Record(LocalEntries)
  /\ UNCHANGED <<at, inside, prefix, refused, verdict, flags>>

\* Mutant: the aggregate commits to what the router had placed here only.
AggregateParentsFirst == {chain[i].hash : i \in At(chain, "OP_SHARED_EXPERT", CurrentLayer)}

\* split_entries
AggregateParents ==
  {chain[i].hash : i \in At(chain, "OP_SHARED_EXPERT", CurrentLayer)
                           \cup At(chain, "OP_EXPERT", CurrentLayer)}

\* The aggregate, and the atomic layers up to the next split one
ChainAggregate ==
  /\ Aggregate
  /\ LET l == CurrentLayer
         c == Append(chain, BuildEntry(Self, AggregateOp(l), AggregateParents))
     IN chain' = Recorded(Self, RunAtomic(Self, c, l + 1, UpTo(l + 1)))
  /\ inside' = (pc' # "done")
  /\ at' = IF pc' = "done" THEN at + 1 ELSE at
  /\ UNCHANGED <<prefix, refused, verdict, flags>>
-----------------------------------------------------------------------------
(* The peers. *)

\* Mutant: a chain that comes with a request is not checked.
AcceptsUnchecked(p, known) == TRUE

\* _handle_expert_request checks a chain that comes with a request.
Accepts(p, known) ==
  p \in recording /\ prefix # <<>> =>
    Valid(prefix, known, Output(AttentionRoute(CurrentLayer)))

\* The entries of a recording peer's answer, one for every expert.  The fan-out
\* merges them into the chain, but NothingToMerge says that there are none.
AnswerEntries(p) ==
  IF p \in recording /\ prefix # <<>> THEN ExpertEntries(p, asked[p], LastHash(prefix)) ELSE <<>>

ChainReturns(p) ==
  /\ CallReturns(p)
  /\ \E known \in Known : Accepts(p, known)
  /\ UNCHANGED chainVars

\* ERR_INVALID_PROVENANCE: the call raises.
Refuse(p) ==
  /\ status[p] = "running" /\ p \in up
  /\ \E known \in Known : ~Accepts(p, known)
  /\ SetStatus(p, "failed")
  /\ refused' = refused \cup {p}
  /\ UNCHANGED <<pc, layerVars, outputs, asked, remaining, abort, registered, retryVars,
                 envVars, at, inside, chain, prefix, verdict, flags>>
-----------------------------------------------------------------------------
ChainInit ==
  /\ Init
  /\ at = 1 /\ inside = FALSE /\ chain = <<>> /\ prefix = <<>>
  /\ refused = {} /\ verdict = "none"
  /\ recording \in SUBSET Node /\ sharding \in BOOLEAN

\* What leaves the chain alone
Unrecorded(A) == A /\ UNCHANGED chainVars

ChainNext ==
  \/ Begin \/ Activation
  \/ ChainPhaseA \/ ChainFanOut \/ ChainRetry \/ ChainAggregate
  \/ Unrecorded(Register) \/ Unrecorded(Poll) \/ Unrecorded(Drain)
  \/ \E p \in Peer :
       \/ ChainReturns(p) \/ Refuse(p)
       \/ Unrecorded(StartCall(p)) \/ Unrecorded(CallRaises(p))
       \/ Unrecorded(NotifyPeerLeftAlive(p)) \/ Unrecorded(PeerBack(p))
       \/ Unrecorded(PeerCrash(p))

ChainSpec == ChainInit /\ [][ChainNext]_<<vars, chainVars>>
-----------------------------------------------------------------------------
(* Properties. *)

\* "Provenance is pure bookkeeping" (design of phase 6-B): where every process
\* records, expert sharding is on, and the experts were computed by owners that
\* shards.yaml lists, no stage rejects the chain of the pass, however often
\* the fan-outs had to retry.
ChainAccepted ==
  /\ verdict = "rejected"
  /\ recording = Node /\ sharding
  => \E i \in OfType(chain, {"OP_EXPERT"}) : chain[i].n \notin Owners[chain[i].op.e]

\* When a split layer is aggregated, the chain of a recording node has one entry
\* for every expert it has computed itself, in phase A, in the fan-out or in a
\* retry, and none for an expert whose output came from a peer.
ChainFaithful ==
  pc = "aggregate" /\ Self \in recording =>
    LET experts == At(chain, "OP_EXPERT", CurrentLayer)
    IN /\ Cardinality(experts) = Cardinality({e \in wanted : outputs[e] = Self})
       /\ \A i \in experts : chain[i].n = Self /\ outputs[chain[i].op.e] = Self

\* No answer brings an entry, whoever records: a recording peer refuses the
\* chain of a recording node, and a node that does not record sends none.  The
\* merges of _phase_b_with_retry (after the gather, and after the drain of a
\* failed attempt) therefore never add to the chain.
NothingToMerge ==
  \A p \in Peer, known \in Known :
    status[p] = "running" /\ Accepts(p, known) => AnswerEntries(p) = <<>>

\* "fan-out attaches the chain up to OP_ATTENTION_ROUTE; expert peer validates
\* (rules 1-5, tail = post_attn bytes)" (design of phase 6-B, 2.6): a peer does
\* not refuse what an honest fan-out sends.
RequestsAccepted == refused = {}
=============================================================================
