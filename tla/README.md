# model_shard: a TLA+ verification project

model_shard runs one mixture-of-experts language model on several machines. The
layers are cut into consecutive shards; a *head* takes requests and embeds
tokens, the shards pass activations down the chain over TCP, and the *tail*
samples tokens and sends them back to the head. The experts of some *split*
layers are spread over all nodes and are asked for by RPC. A SWIM failure
detector over UDP tells the nodes who is alive, and carries ownership, load and
heat reports. Hot experts are copied to other nodes, and cold copies evicted,
while requests are being served. Each node may record what it computes in a
*provenance chain* of hashes that the others check.

The models cover the parts of this in which order, loss and failure decide. The
tensor arithmetic is abstracted away. `PROJECT.json` maps every definition to
its source lines, and lists the components, runs, mutants, findings, hazards
and theorems.

## Inventory

| Component | State | Operations | Hard behaviours | What must hold |
|---|---|---|---|---|
| SWIM (`membership/state.py`) | member records, pending probe, help requests, backlog, incarnation | tick, handlers of Ping, Ack, PingReq, PingReqAck, Join, MembershipDelta | loss, duplication, reordering, restarts with a wall-clock incarnation, timers racing answers | nobody invents incarnations; suspicions get a verdict; a lost datagram is masked; a crash is detected, a one-sided false suspicion cleared |
| Runner (`membership/runner.py`) | inbox, transition log, ownership queue and view, load and heat reports | loop, announcements, observers | observers run after the sends; a full inbox | observers' picture equals the view |
| Ownership gossip (`node.py`, runner) | two last-writer-wins views per node, queue with a budget of rounds | announce ADD and REMOVE, deliver | equal timestamps, stale ADDs of crashed nodes, records that reach only some | views never go back; no invented claims; owners of shards.yaml are never forgotten |
| Migration (`migration.py`, `partial_load.py`, `node.py`) | stacked tensors and their id tuple, `_live_experts`, scanner | scan, pull, attach, evict, detach, serve an expert, slice weights | lookups before the lock, attach and detach racing requests | slots match ids; answers right; capacity; bootstrap experts kept |
| Pipeline (`node.py`) | head states and token queues, KV caches, one outbound connection per stage | begin, decode loop, activation, token, error, end, membership change | shared connections closed under other requests, a connection overtaking another, lost rounds | one round at a time, right tokens, every request answered, caches dropped |
| Fan-out (`expert_orchestrator.py`, routing of `moe.py`) | futures, abort events, outputs, excluded peers | route, submit, register, gather, retry, aggregate | failures of some of several RPCs, late answers, events registered late | complete outputs, no peer asked after it failed, termination |
| Provenance (`provenance.py`, callers in `node.py`, `expert_orchestrator.py`, `mlx_engine.py`) | chain of hashed entries | append, merge, validate | chains merged after retries, flags that differ between processes, views that lag | chains the system builds are accepted, and account for what was computed |
| Heat, load, framing, shard map, client, scripts | moving averages; streams; configuration | – | – | see "Not modelled" |
| Engines, backends, partial load of PyTorch | tensors | arithmetic | – | out of reach |

The runner drives SWIM and carries ownership. SWIM's transitions reach the
pipeline (close the connection, poison the queues) and the fan-out (abort).
Ownership gives the fan-out its candidates and the eviction its guard. A fan-out
that raises is a failing stage of the pipeline, and a chain that does not
validate a rejecting one. `Provenance` composes the fan-outs of `ExpertFanout`
with the stages before and after them.

## Modules

`Swim`, `Migration`, `Pipeline`, `ExpertFanout` and `Provenance` are the
specifications; `SplitLayer` is the abstract specification that `ExpertFanout`
implements. Each `MC...` module gives the constants values, with one `.cfg` per
question. A definition called a mutant in its comment is a plausible bug, kept to
show that a property notices it; no specification uses one.

### Swim

`node[n]` is the `MembershipState` of `n` with what its observers were told
(`log`, `seen`); `net` is the set of datagrams under way, with the receivers'
inboxes; `started` and `issued` remember incarnations. `Recv...` are the
handlers; `TickIdle`, `TickPeriod`, `TickNoPeers` and `TickEscalate` are the
outcomes of `tick`, with the timers that come before them; `FireObservers` is
the end of the runner's loop; `BootstrapJoin`, `Crash`, `Restart` and `Lose` are
the environment.

* Time is abstract. A timer may have expired at any tick, unless `Timely` says
  that a timeout outlasts the round trip it waits for, as the defaults of
  `SwimConfig` intend.
* Which backlog entries ride on a message, at most `KGossip`, is left open: their
  priority only says which ride first.
* `Joiners` use the Join of `bootstrap.py`. `node.py` does not call it, so what
  `swim_pair` says about joiners is about the library.
* A node learns of its own suspicion only through the ping of a third node: a
  direct message of the suspecting one goes to ALIVE peers only, and its Ack is
  preceded by the promotion of the sender.
* `Restart` begins with a fresh `MembershipState`, so the probe counter starts from
  0 again (`state.py:246`) and a new probe may have the id of one of the previous
  process. The failing PingReqAck of a helper that was asked by the previous
  process then counts against the new probe (`RecvPingReqAck` compares ids only),
  and its target can be suspected before the new process has asked anybody. The
  runs with a restart contain these behaviours. No property singles them out: the
  suspicion is one that the loss of the answers would have caused as well, and it
  meets the fate of any other.

### Migration

One split layer. `held` and `stack` are the id tuple and the nine tensors of a
node, a tensor row being abstracted to the expert whose weights it has, or
`Garbage` for an index past the end. `live`, `attachTs`, `view` are the fields of
`Node`; `rview` and `outq` the runner's; `last` remembers what each node last
announced. `scan` is where the scanner's thread is: `ScanPull`, `SliceLookup`,
`SliceTake`, `Attach`, `Register` and `AnnounceAgain`, then `EvictPick`, `Detach`
and `Unregister`, with the early ways out `ScanNothing`, `PullFails` and
`EvictNone`: one action per stretch of code between two locks. `ServeCheck` and
`ServeCompute` are an expert request, `GossipRound`, `Deliver` and `Lose` the
gossip.

* Heat and load are arbitrary: any expert may be hot, any owner least loaded, any
  eligible expert the coldest. A request asks for one expert; its malformed forms
  change no state and are left out.
* The clock is one for the cluster; the code compares timestamps of different
  nodes as if it were. A tick is longer than the moment between the two
  announcements of an attach, and no longer than the interval between scans.
* Every node has a bootstrap expert. (With an empty tuple `slice_expert` takes
  the slot to be the global id.)
* The queue is a set. A round sends all of it and a receiver ignores what it
  already has, so two equal records do what one does.

### Pipeline

`pc`, `generated`, `queue` and `states` are the thread and `_HeadRequestState` of
each request, `cache[n][r]` the number of rounds in a KV cache, `conns[n]` the
outbound connections of a stage by number: 0 is its `_out_stream`, the others
were closed and may still hold what their reader has not read. A message says
whether every stage so far had exactly the earlier rounds in its cache (`right`).

`BeginCheck`, `BeginRegister`, `Prefill` and `PrefillFails` are `_handle_begin`;
`Decode`, `DecodeStep`, `DecodeFails`, `Finish` and `Release` the decode loop;
`Abort`, `Hangup` and `EndAborted` its three handlers, which are the same.
`Handle...`, `RejectActivation` and `FailActivation` serve connections.
`LeaveAlive`, `BecomeDead` and `BecomeAlive` are `_on_membership_change`.

* A write to a connection whose reader closed it may raise or be lost.
* An Error that a stage writes back on its *inbound* connection is left out: no
  code reads from an outbound connection.
* One write is atomic, as is the computation of a stage with its forward. The
  head does not crash: its clients lose their connections then.
* A wrong layer index, a BeginRequest at another stage and unexpected messages
  return before any change of state. Debug captures are left out.
* Each behaviour draws a mixture of troubles from `Budgets` at its start.
  `EarlyCrash` lets a crash hit requests that are not in their decode loop;
  without it `Answered` asks what the design promises "mid-decode".

### ExpertFanout and SplitLayer

The thread of one request in a fan-out for each of `Layers` split layers:
`RunPhaseA`, `FanOut`, `Register`, `Poll` (one turn of `_gather_with_abort`),
`Drain` and `Retry`, `Aggregate`. `StartCall`, `CallReturns` and `CallRaises` are
the threads of the pool, `NotifyPeerLeftAlive` the membership callback. An output
is abstracted to the node that computed it.

* Power of two choices may pick any owner; `Known` is what gossip has told of
  the `Replicas`, anew at each routing.
* The deadline may have passed at any turn of the loop.
* RPCs of an abandoned attempt are left out: nobody reads their futures again.

`SplitLayer` says what `run_split_layer` promises its caller: the outputs of the
experts the router picks appear one by one, each from a holder of the expert and
none ever replaced; the layer closes when all are there, and is given up only
when one is missing. The refinement mapping folds the thread's places into four
phases (`Phase`) and hides attempts, futures and exclusions.

### Provenance

It extends `ExpertFanout`: one pass of an activation through the stages of
`Route`, of which `Self` has the split layers. `chain` is the chain of the stage
at work, `prefix` the one sent with the expert requests; `verdict` is the outcome.
The actions of the fan-out are extended by what they do to the chain: entries for
routing, shared expert and local experts, the refusal of a peer that validates the
prefix, and the aggregate. The rules of `validate_chain` are operators over chains.
Every process reads its own `ENABLE_PROVENANCE` and `ENABLE_EXPERT_SHARD`, so all
combinations are initial states.

The code also merges the entries that peers return. This half of it is dead: a
peer adds entries only when it records and got a chain, and exactly then it refuses
the request (`provenance_refused`). `AnswerEntries` is what an answer would bring,
`NothingToMerge` says that no answer that is given brings anything, and the merges
are therefore no part of the actions.

* A digest is abstracted to the node, the operation and the output it commits to,
  which in one pass determine each other. Encoding is left out.
* What a rejection does to the request is `RejectActivation` of `Pipeline`.

## Runs

All finish in under five minutes with two workers.

| Run | Instance | What it shows |
|---|---|---|
| `swim_pair` | 2 nodes, one of them joining and alone in having a model id; a loss, a duplicate, a crash and restart, any timer order; 457,612 states | `TypeOK`; observers heard exactly what the view went through (`ObserversFollowView`); foreign models stay out where `_admit` is asked (`ModelAdmitted`); a node never believes itself gone (`SelfRecord`); only first-hand evidence revives a member (`RevivalIsFirstHand`) |
| `swim_trio` | 3 nodes, indirect probes, timely timers, a loss, a crash and restart; 107,524 states | `DeadlineIffSuspect`, `IncarnationsIssued`, `GossipFresh`, `RevivalIsFirstHand`; one loss is masked by the indirect probe (`LossMasked`) |
| `swim_live` | 2 nodes, two losses, a crash and restart within the second, fairness; 6,108 states | a node that is down for good is DEAD to all (`CrashDetected`); a running node that believes in a peer is not held SUSPECT or DEAD by it for ever (`OneSidedCleared`) |
| `swim_mutual` | 2 nodes, two losses, no crash, fairness | `SuspicionCleared` violated: two nodes that suspect each other fall silent |
| `migration` | 2 nodes, one of which has room for two replicas and scans; requests, a loss, a crash and restart; 970,770 states | `TypeOK`, `LiveIsHeld`, `ServedRight`, `OwnClaim`, `Capacity`, `BootstrapKept`, `BootstrapOwned`, `NoInventedOwnership`, `SlotsMatch`, `OwnershipMonotone` |
| `migration_slice` | a pull from a node that evicts | `TransferRight` violated: the slot is looked up before the lock |
| `pipeline` | 3 stages, 2 requests; a failing head, a rejecting tail, a false suspicion, a crash mid-decode or a client that leaves; fairness; 263,747 states | `TypeOK`, `CachesDropped`, `Answered`; `NoKeyError` and `NothingAfterTheEnd`, while the head's two writers, its loop and the handler of an upstream error, are at work |
| `pipeline_mixed` | a fault at the middle stage together with a false suspicion or with a crash at any time, or a crash and a restart; 672,484 states | `OneRound`, `TokensRight`, `HeadReleased` |
| `pipeline_mid_fail` | an expert RPC of the middle stage fails | `Answered` violated: the head waits for ever |
| `fanout` | 2 layers, 3 experts, 2 peers and a replica; a failure, a crash, a transition; fairness; 130,260 states | `TypeOK`, `Complete`, `Disciplined`, `RaisedInNeed`, `Released`, the refinement `Implements`, and `Ends` |
| `provenance` | 3 stages, 2 split layers, all flags, 3 attempts, a failure, a crash, a transition; 819,100 states | the chain has an entry for each expert that `Self` computed and for no other (`ChainFaithful`); no answer brings entries (`NothingToMerge`); where all record and shard, only an expert of a replica unknown to shards.yaml gets a chain rejected (`ChainAccepted`) |
| `provenance_refused` | the same | `RequestsAccepted` violated: a recording peer refuses every expert request of a recording node |

The violated properties state what a docstring, a comment or a design document
says; the findings of `PROJECT.json` quote the line.

**Hypotheses of the properties.** Several properties hold only where the runs
look. Changing the constants of a run shows where that ends; these are the
limits of the code, and each is a hazard in `PROJECT.json` or follows from one.

* A suspicion is cleared for sure only while it is one-sided: the suspected node
  then pings, and a first-hand Ping revives it whatever the incarnations say
  (`_maybe_promote_sender_alive`). `node.py:196` says the opposite, that
  "SWIM's last-writer-wins won't let them re-admit it"; `OneSidedCleared` covers
  that case, with the restart at an equal incarnation. When both suspect each other
  nothing is sent any more, as probes go to ALIVE peers (`state.py:239`), and the
  design's promise of refutation fails (`swim_mutual`).
* `DeadlineIffSuspect` needs every shards.yaml to list every node: a newcomer
  learns of a SUSPECT member without a deadline (`state.py:357`).
* `ModelAdmitted` is about records with a model id: a Ping of a node of another
  model is promoted without `_admit` (`state.py:458`).
* The guard against the loss of the last replica (`node.py:1270`) asks for another
  owner in the view. `BootstrapOwned` shows that the owners of shards.yaml are in
  every view for ever, running or not. So the guard never refuses the eviction of
  an expert of the file, and one that happens while its owner in the file is down
  takes the last running copy, although `node.py:1246` speaks of "at least one other
  live owner". No property says that an eviction leaves a running replica, as with
  crashes it is false and without them it is `BootstrapKept`.
* `OwnClaim` and `NoInventedOwnership` fail with `Cooldown = 0`: an ADD and a
  REMOVE of one millisecond, of which the first wins (`node.py:1282`).
* No property says that all views agree in the end. A record is sent in five rounds
  (`runner.py:46`), each to one peer drawn at random (`state.py:245`), and nobody
  passes it on (`runner.py:236`): from three nodes on, a peer may be missed by all
  five, and convergence holds with some probability only.
* `Answered` also fails in `pipeline_mid_fail` if the middle stage rejects instead
  (`node.py:665`), and in `pipeline` with `EarlyCrash`: the check of the peers
  precedes the registration that a crash would poison (`node.py:443`).
* `HeadReleased` excepts a request whose prefill raised: `_handle_begin` has no
  handler for a forward that raises, so its state and cache stay on the head. Its
  thread is then in `pc = "raised"` without having generated a token.
* `CachesDropped` excludes suspicions: the EndRequest on the new connection
  overtakes an activation on the old one, which makes the cache anew
  (`node.py:606`).
* `TokensRight` excludes restarts: a stage that comes back between two rounds
  makes a new cache by `setdefault` and computes on it.
* The fan-out registers its abort events after it has submitted the calls
  (`expert_orchestrator.py:426`), sends healthy running calls again on a retry
  (`expert_orchestrator.py:472`) and routes to owners that the detector has given
  up (`moe.py:260`). None of this endangers the properties of `fanout`.
* `ChainAccepted` needs the flags to agree. With `ENABLE_EXPERT_SHARD` off, the
  shard records whole layers that shards.yaml calls split, and the tail
  rejects them; a node that does not record leaves a gap that a recording one
  finds. The engine for PyTorch does not extend the chain at all.

**Bounds.** Every budget counts a kind of adversity, and one or two of each are
what the counterexamples above need. Three nodes are the least with a helper, a
middle stage or a bystander of gossip; two requests the least that share a
connection; two layers the least in which a fan-out follows a failed one.
`MaxProbes` wraps probe ids. `MaxClock` allows an attach, the cooldown and an
eviction. Deadlock is checked in `Swim`, whose loops never stop, and not where
budgets or requests come to an end. Symmetry is used in two safety runs,
over nodes or requests that no constant tells apart.

**Fairness.** Each is that of a loop or thread that the code keeps running. In
`Swim`: weak for timers, observers and the receipt of what is not lost; strong
for probing each particular peer, because the candidate is drawn at random in
every period. `Migration` and `Provenance` assume none, and claim no liveness. In
`Pipeline`: weak for each request's thread, for serving each stage's
connections, and for noticing a peer that is down. In `ExpertFanout`: weak for
the thread and for each call, which a socket timeout ends at the latest.

## Proofs

TLAPS checks the following for every number of nodes and experts and all budgets,
from the named assumptions on the constants and the hypotheses stated here.

**`SwimProofs`.** The inductive invariant says of every local state that it has
its type, that its backlog is part of its view, that its own record is ALIVE at
its incarnation, that foreign models are absent, and that no incarnation in view
or backlog is above what its owner has issued; and the last also of every
datagram. None of `IncarnationsIssued`, `GossipFresh` and `SelfRecord` is
inductive alone: a handler merges deltas from the net, and an Ack repeats the
backlog. The helpers (`MarkSuspect`, `PromoteSenderAlive`, `Refute`,
`ApplyPeerDeltas`, ...) have a lemma each; a handler's proof chains those lemmas.
Results: `TypeCorrect`, `OnlyOwnersRaiseIncarnations`, `OwnRecordAlive`,
`GossipIsView`, `AdmissionHolds`; and `SuspicionsHaveDeadlines` if every
shards.yaml lists every node.

**`SwimHistory`.** What the observers are told (`ObserversAreTold`): the
invariant `WatchInv` says that a member's pending transitions lead, without a
gap, from what the observers were told last to the state in the view. It is
stated of the local states between the updates of one handler too, so each
helper keeps it and a handler's proof chains the helpers. `RevivalsAreFirstHand`
goes the same way with relations instead: every helper but one takes a record to
a later incarnation or a graver state (`Grown`), and
`_maybe_promote_sender_alive` spares all but the sender (`Lifted`).
`OneLossIsMasked` assumes what the property is about: every shards.yaml lists every
node (`Full`), and there are helpers to ask (`Helpers`: at least one other node
and `k_indirect > 0`); that nothing has crashed, that at most one datagram was
lost and that the timeouts outlast the round trips (`Timely`) are premises of
`LossMasked` itself. Its invariant `Serene` follows the round trip: as long as
nothing is lost, each probe has its Ping, or the Ack, under way; after the loss,
each indirect phase has a PingReq, a helper that waits for an Ack, or its answer
under way, and every such answer is a success.

**`MigrationProofs`.** `TypeStep` needs that the id tuple and the tensors have the
same length (`Aligned`), and that follows from `WeightInv`: for each node, by the
place of its scanner, how tuple, tensors, `_live_experts` and bootstrap experts
relate. Results: `TypeCorrect`, `LiveIsHeldAlways`, `BootstrapKeptAlways`,
`CapacityAlways`, `OwnershipMonotoneAlways`. `CapacityAlways` counts the rows of the
stack, so it needs that the id tuple has no duplicates: a scan that passed
`HasRoom` adds one id to fewer than the limit (`DistinctLength`).

`BootstrapOwnedAlways`, under no hypothesis: `SeedInv` says that nobody announces an
expert of its own shards.yaml entry, for a scan pulls only what the node lacks and
the eviction spares the bootstrap experts; so no queue and no datagram has a record
of one, and every view keeps the entry that it was seeded with.

Ids and weights agree in two cases. `SlotsMatchWithoutEviction` adds an
invariant of the scanner's lookups, and assumes that eviction is off: with it on, a
transfer may carry the wrong rows (`migration_slice`). `SlotsMatchIfTransfersExact`
allows eviction, and has the hypothesis that every transfer brings what it was asked
for (`[]TransfersExact`): all that is done to the stacks afterwards keeps them right,
so the unlocked lookup of `slice_expert` is the only flaw. `AnswersRight` is
`ServedRight` in either case: a request looks its slot up under the lock, so it is
right whenever the slots are.

**`MigrationGossip`.** Last-writer-wins is right only if two announcements with
one timestamp say the same. `ClockInv` orders the times of a node by the place of
its scanner: an attach announces after everything before its scan, because a scan
begins at a later tick than the one before it, and an eviction after the attach,
because of the cooldown. So each announcement is newer than the last, or equal to
it; `HeardInv` then says of every view, queue and datagram that it holds nothing
newer than, or at odds with, the last announcement. The two are inductive only
together: the timestamp of a REMOVE depends on the runner's view. Result:
`NoInventedOwnershipAlways`, for `Cooldown >= 1`. `OwnClaimAlways`, under the same
hypothesis and with any number of crashes, adds that a node is never sent what is
said of itself (`SentInv`: a record goes to others, and nobody passes it on), so
that a restarted node does not hear of its earlier life, and that both views agree
with `_live_experts` (`HonestInv`).

**`ExpertFanoutProofs`.** The inductive invariant adds to the properties that each
missing expert is waited for at one peer that may own it (`AskedInv`,
`RemainingInv`), and that nothing else was computed (`OutputsInv`). Without these
`Complete` is not inductive: it follows at the moment when nothing remains.
Results: `FanoutTyped`, `FanoutComplete`, `RetriesDisciplined`,
`FanoutRaisedInNeed`, `FanoutReleased`; and `FanoutImplements`: the initial states
map to those of `SplitLayer`, and every step to a step or a stutter.

**`PipelineTypes`, `PipelineProofs`, `PipelineEnds`.** No proof about a request
looks into a stream. `Flow` relates the connections of a stage before and after a
step: each message has a place of its own among the earlier ones, or is one that
the step writes. `Keeps` is the converse: which messages stay, and that no reader
is lost. Each action is put in these terms once (`...Carry`, `...Keeps`).

* `PipelineTyped`: `TypeOK`, with `CountInv`, which bounds the tokens of a request
  by where its thread is.
* `PipelineRequests`: `RequestInv` says of each request that at most one round of it
  exists, on a connection or in the queue; that the state and the cache of the head
  agree with where the thread is; and that what its client was told is in order. To
  a request a step is one of five kinds (`StepKinds`): its thread's, one that passes
  it by, a token, an error, a wake-up by membership. `OneRound` is not inductive
  alone: that the thread writes a round only when none is left depends on the
  queue, and what an error leaves in the queue on the state of the head.
  `PipelineOneRound`, `PipelineNoKeyError` and `PipelineNothingAfterTheEnd` follow,
  under no hypothesis.
* `PipelineHeadReleased`, under no hypothesis: the state and the cache of a request
  stay on the head only while its thread is at work, or if its prefill raised. Beside
  `RequestInv` it needs `RaiseInv`: a thread that raised before its loop has not
  generated anything, so that a failure in the loop, which is handled, is not mistaken
  for one in the prefill, which is not.
* `PipelineCachesDropped`, under no further hypothesis. `CalmInv`: as long as nothing
  has crashed or been suspected, some thread waits for a round that a stage has
  given up (the system is then not at rest), or each cache of a finished request
  has an EndRequest on its way to the stage.
* `PipelineTokensRight`, under no hypothesis. `EndInv`: an EndRequest is under way
  only after the loop. `RightInv`: unless a stage was restarted, the stages
  that the present round has passed hold it in their caches, and the others exactly
  the rounds before it.

**Only model-checked.** All liveness (`CrashDetected`, `OneSidedCleared`, `Answered`,
`Ends`): fairness is out of the prover's reach. `Provenance` (`ChainAccepted`,
`ChainFaithful`, `NothingToMerge`): its chains are folds over sets and sequences, and
what a recursively defined operator returns for every input needs an induction the
prover cannot do. The properties that runs find violated, of course, and `SlotsMatch`,
`ServedRight`, `LossMasked` and `DeadlineIffSuspect` outside the hypotheses named
above.

## Not modelled

* Tensor arithmetic (`mlx_engine.py`, `pytorch_engine.py`, `backends/`, most of
  `moe.py`, `pt_moe.py`, `pt_partial_load.py`, `load_model_partial`), generated
  protocol buffers, the parsing of shards.yaml, the reference decoder and the
  scripts: they have no state that concurrent steps share, or none a model
  checker can hold.
* Heat and load (`heat.py`, `load.py`) are moving averages in floating point. The
  models let them be arbitrary, so that no result depends on them.
* Below a whole frame: two writers on one TCP stream, and the bytes of a frame.
* The priorities of the SWIM backlog, and the order in which seeds are tried:
  any choice is allowed instead.
