------------------------------ MODULE Migration ------------------------------
(***************************************************************************)
(* Expert migration, eviction and ownership gossip of model_shard, for one *)
(* split layer: the scanner of migration.py and the attach and detach of   *)
(* node.py on the compact weight stack of partial_load.py, the handlers    *)
(* that serve experts and weights meanwhile, and the last-writer-wins      *)
(* ownership views of node.py and membership/runner.py.                    *)
(*                                                                         *)
(* Heat and load are abstract: any expert may be hot, any owner the least  *)
(* loaded, any eligible expert the coldest.  The clock is the wall clock   *)
(* of the cluster, which the code assumes synchronised.                    *)
(***************************************************************************)
EXTENDS Integers, Sequences, FiniteSets

CONSTANTS
  Node,        \* shard ids
  Expert,      \* expert ids of the layer
  Bootstrap,   \* [Node -> Seq(Expert)]: moe_experts of shards.yaml
  MaxExperts,  \* MIGRATION_MAX_EXPERTS_PER_LAYER
  Cooldown,    \* MIGRATION_EVICT_COOLDOWN_SECONDS, in clock ticks
  Evicting,    \* ENABLE_EVICTION
  TTL,         \* _DEFAULT_OWNERSHIP_TTL
  Garbage,     \* what an index past the end of a tensor yields
  Scanners,    \* bound: the nodes whose scanner runs
  Requested,   \* bound: the experts other nodes ask for
  MaxClock,    \* bound on the clock
  MaxNet,      \* bound on datagrams in flight
  MaxLosses, MaxCrashes   \* budgets of the environment

Ids(s) == {s[i] : i \in 1..Len(s)}
Max(a, b) == IF a >= b THEN a ELSE b

ASSUME MigrationAssumption ==
  /\ IsFiniteSet(Node) /\ IsFiniteSet(Expert)
  /\ Bootstrap \in [Node -> Seq(Expert)]
  /\ \A n \in Node : /\ Bootstrap[n] # <<>>
                     /\ \A i, j \in 1..Len(Bootstrap[n]) :
                          Bootstrap[n][i] = Bootstrap[n][j] => i = j
  /\ Garbage \notin Expert
  /\ MaxExperts \in Nat /\ Cooldown \in Nat /\ TTL \in Nat \ {0}
  /\ Evicting \in BOOLEAN
  /\ Scanners \subseteq Node /\ Requested \subseteq Expert
  /\ MaxClock \in Nat /\ MaxNet \in Nat
  /\ MaxLosses \in Nat /\ MaxCrashes \in Nat

VARIABLES
  held,      \* [Node -> Seq(Expert)]: held_ids_per_layer
  stack,     \* [Node -> Seq]: whose weights each slot of the stack holds
  live,      \* [Node -> SUBSET Expert]: _live_experts
  attachTs,  \* [Node -> [Expert -> Nat]]: _live_experts_attach_ts, 0 if unset
  view,      \* [Node -> View]: Node._ownership_view_internal
  rview,     \* [Node -> View]: MembershipRunner._ownership_view_internal
  outq,      \* [Node -> SUBSET Queued]: _outbound_ownership
  scan,      \* [Node -> Scan]: where the scanner thread is
  scanned,   \* when each node's latest scan ended, or the node started
  serving,   \* expert requests past the check, waiting for the compute lock
  answer,    \* the latest answer to an expert request
  last,      \* history: each node's latest announcement about each expert
  up, net, clock, losses, crashes

nodeVars == <<held, stack, live, attachTs, view, rview, outq, scan, scanned>>
envVars == <<up, clock, losses, crashes>>
vars == <<nodeVars, serving, answer, last, up, net, clock, losses, crashes>>
-----------------------------------------------------------------------------
(* Ownership views. *)

ADD == 0
REMOVE == 1

Key == Node \X Expert

\* A missing key loses to every delta and is no ADD.
NoEntry == [act |-> REMOVE, ts |-> -1]

Entry(act, ts) == [act |-> act, ts |-> ts]
Delta(n, e, act, ts) == [key |-> <<n, e>>, act |-> act, ts |-> ts]

\* _ownership_view_put: the last writer wins.
Put(v, d) ==
  IF d.ts > v[d.key].ts THEN [v EXCEPT ![d.key] = Entry(d.act, d.ts)] ELSE v

\* owners_of
Owners(n, e) == {m \in Node : view[n][<<m, e>>].act = ADD}

\* The deltas of batch b that the loop of _on_recv_decoded leaves in place for
\* key k: those with the highest timestamp.  A batch is in the order of the
\* announcements, and RemoveTs moves a REMOVE past what was announced before, so
\* of two with one timestamp the REMOVE came first and stays.
Newest(b, k) ==
  {d \in b : /\ d.key = k
             /\ \A x \in b : x.key = k =>
                  x.ts < d.ts \/ (x.ts = d.ts /\ x.act <= d.act)}

\* Mutant: the owners of an expert share one entry.
PutBatchByExpert(v, r, b) ==
  [k \in Key |->
     LET wins == {d \in b : d.key[2] = k[2] /\ d.ts > r[k].ts /\ d.ts > v[k].ts}
     IN IF wins = {} THEN v[k]
        ELSE LET d == CHOOSE d \in wins : TRUE IN Entry(d.act, d.ts)]

\* Batch b put on v where the runner's view r accepts it; with r = v this is
\* the runner's own update.
PutBatch(v, r, b) ==
  [k \in Key |->
     LET wins == {d \in Newest(b, k) : d.ts > r[k].ts /\ d.ts > v[k].ts}
     IN IF wins = {} THEN v[k]
        ELSE LET d == CHOOSE d \in wins : TRUE IN Entry(d.act, d.ts)]
-----------------------------------------------------------------------------
(* A node's weights. *)

Slot(s, e) == CHOOSE i \in 1..Len(s) : s[i] = e

\* The stack without slot i
RemoveSlot(s, i) == [j \in 1..(Len(s) - 1) |-> IF j < i THEN s[j] ELSE s[j + 1]]

\* Node.__init__: everything is seeded from shards.yaml.
SeedView ==
  [k \in Key |-> IF k[2] \in Ids(Bootstrap[k[1]]) THEN Entry(ADD, 0) ELSE NoEntry]

Idle == [pc |-> "idle"]
Evict == [pc |-> "evict"]

\* The capacity test of _select_candidate
HasRoom(n) == Cardinality(live[n]) < MaxExperts

\* Mutant: no interval between scans.
CanScanAtOnce(n) == n \in up \cap Scanners /\ scan[n] = Idle /\ clock > 0

\* The next scan comes after an interval.
CanScan(n) == n \in up \cap Scanners /\ scan[n] = Idle /\ scanned[n] < clock

Step(n, s) == scan' = [scan EXCEPT ![n] = s]

\* The end of _scan_once; _run_loop then waits.
ScanDone(n) ==
  /\ Step(n, Idle)
  /\ scanned' = [scanned EXCEPT ![n] = clock]

\* _scan_once whose _select_candidate finds nothing to pull
ScanNothing(n) ==
  /\ CanScan(n)
  /\ Step(n, Evict)
  /\ UNCHANGED <<held, stack, live, attachTs, view, rview, outq, scanned, serving,
                 answer, last, net, envVars>>

\* Mutant: an expert that is here already is a candidate, too.
ScanPullHeld(n, e, src) ==
  /\ CanScan(n)
  /\ HasRoom(n)
  /\ src \in Owners(n, e) \ {n}
  /\ Step(n, [pc |-> "asked", e |-> e, src |-> src])
  /\ UNCHANGED <<held, stack, live, attachTs, view, rview, outq, scanned, serving,
                 answer, last, net, envVars>>

\* _select_candidate returns e and src; pull sends its request
ScanPull(n, e, src) ==
  /\ CanScan(n)
  /\ e \notin live[n]
  /\ HasRoom(n)
  /\ src \in Owners(n, e) \ {n}
  /\ Step(n, [pc |-> "asked", e |-> e, src |-> src])
  /\ UNCHANGED <<held, stack, live, attachTs, view, rview, outq, scanned, serving,
                 answer, last, net, envVars>>

\* _handle_expert_weight_request on the source: slice_expert looks the slot up
\* before it takes the lock.
SliceLookup(n) ==
  /\ scan[n].pc = "asked" /\ scan[n].src \in up
  /\ LET s == scan[n]
     IN \/ /\ s.e \in Ids(held[s.src])
           /\ Step(n, [pc |-> "slicing", e |-> s.e, src |-> s.src,
                       slot |-> Slot(held[s.src], s.e)])
        \/ /\ s.e \notin Ids(held[s.src])
           /\ Step(n, Evict)
  /\ UNCHANGED <<held, stack, live, attachTs, view, rview, outq, scanned, serving,
                 answer, last, net, envVars>>

\* slice_expert under the lock; an index past the end reads what lies there
SliceTake(n) ==
  /\ scan[n].pc = "slicing"
  /\ LET s == scan[n]
         full == stack[s.src]
     IN Step(n, [pc |-> "attach", e |-> s.e,
                 w |-> IF s.slot <= Len(full) THEN full[s.slot] ELSE Garbage])
  /\ UNCHANGED <<held, stack, live, attachTs, view, rview, outq, scanned, serving,
                 answer, last, net, envVars>>

\* pull raises: no connection, a timeout, an error reply
PullFails(n) ==
  /\ scan[n].pc \in {"asked", "slicing"}
  /\ Step(n, Evict)
  /\ UNCHANGED <<held, stack, live, attachTs, view, rview, outq, scanned, serving,
                 answer, last, net, envVars>>

\* attach_expert under the lock.  A mutant that files the id before the
\* others while the tensors go behind them:
AttachInFront(n) ==
  /\ scan[n].pc = "attach"
  /\ held' = [held EXCEPT ![n] = <<scan[n].e>> \o @]
  /\ stack' = [stack EXCEPT ![n] = Append(@, scan[n].w)]
  /\ Step(n, [pc |-> "register", e |-> scan[n].e])
  /\ UNCHANGED <<live, attachTs, view, rview, outq, scanned, serving, answer, last,
                 net, envVars>>

Attach(n) ==
  /\ scan[n].pc = "attach"
  /\ held' = [held EXCEPT ![n] = Append(@, scan[n].e)]
  /\ stack' = [stack EXCEPT ![n] = Append(@, scan[n].w)]
  /\ Step(n, [pc |-> "register", e |-> scan[n].e])
  /\ UNCHANGED <<live, attachTs, view, rview, outq, scanned, serving, answer, last,
                 net, envVars>>

\* announce_ownership_add: the record is queued whether or not it wins.
AnnounceAdd(n, e) ==
  LET d == Delta(n, e, ADD, clock)
  IN /\ outq' = [outq EXCEPT ![n] = @ \cup {[rec |-> d, ttl |-> TTL]}]
     /\ rview' = [rview EXCEPT ![n] = Put(@, d)]
     /\ last' = [last EXCEPT ![n][e] = Entry(ADD, clock)]

\* The rest of migration_attach
Register(n) ==
  /\ scan[n].pc = "register"
  /\ LET e == scan[n].e
     IN /\ live' = [live EXCEPT ![n] = @ \cup {e}]
        /\ attachTs' = [attachTs EXCEPT ![n][e] = clock]
        /\ view' = [view EXCEPT ![n] = Put(@, Delta(n, e, ADD, clock))]
        /\ AnnounceAdd(n, e)
        /\ Step(n, [pc |-> "again", e |-> e])
  /\ UNCHANGED <<held, stack, scanned, serving, answer, net, envVars>>

\* _maybe_pull_one calls the ownership_announcer after the attacher has
\* already announced.
AnnounceAgain(n) ==
  /\ scan[n].pc = "again"
  /\ AnnounceAdd(n, scan[n].e)
  /\ Step(n, Evict)
  /\ UNCHANGED <<held, stack, live, attachTs, view, scanned, serving, answer, net,
                 envVars>>
-----------------------------------------------------------------------------
(* Eviction. *)

\* Mutants: no cooldown; bootstrap experts too.
EligibleAtOnce(n) == live[n] \ Ids(Bootstrap[n])
EligibleAny(n) == {e \in live[n] : clock - attachTs[n][e] >= Cooldown}

\* The eligible set of _maybe_evict_one, which migration_detach tests again
Eligible(n) ==
  {e \in live[n] \ Ids(Bootstrap[n]) : clock - attachTs[n][e] >= Cooldown}

Full(n) == Evicting /\ Cardinality(live[n]) >= MaxExperts

\* The last-replica guard of migration_detach
OthersOwn(n, e) == Owners(n, e) \ {n} # {}

\* _maybe_evict_one with nothing to evict, or a victim that is refused
EvictNone(n) ==
  /\ scan[n].pc = "evict"
  /\ ~Full(n) \/ Eligible(n) = {} \/ \E e \in Eligible(n) : ~OthersOwn(n, e)
  /\ ScanDone(n)
  /\ UNCHANGED <<held, stack, live, attachTs, view, rview, outq, serving, answer,
                 last, net, envVars>>

\* e is the coldest, and the guards of migration_detach let it go
EvictPick(n, e) ==
  /\ scan[n].pc = "evict"
  /\ Full(n)
  /\ e \in Eligible(n)
  /\ OthersOwn(n, e)
  /\ Step(n, [pc |-> "detach", e |-> e])
  /\ UNCHANGED <<held, stack, live, attachTs, view, rview, outq, scanned, serving,
                 answer, last, net, envVars>>

\* Mutant: the last row of the stack goes instead of the expert's.
DetachLastRow(n) ==
  /\ scan[n].pc = "detach"
  /\ LET i == Slot(held[n], scan[n].e)
     IN /\ held' = [held EXCEPT ![n] = RemoveSlot(@, i)]
        /\ stack' = [stack EXCEPT ![n] = RemoveSlot(@, Len(@))]
  /\ Step(n, [pc |-> "unregister", e |-> scan[n].e])
  /\ UNCHANGED <<live, attachTs, view, rview, outq, scanned, serving, answer, last,
                 net, envVars>>

\* detach_expert under the lock
Detach(n) ==
  /\ scan[n].pc = "detach"
  /\ LET i == Slot(held[n], scan[n].e)
     IN /\ held' = [held EXCEPT ![n] = RemoveSlot(@, i)]
        /\ stack' = [stack EXCEPT ![n] = RemoveSlot(@, i)]
  /\ Step(n, [pc |-> "unregister", e |-> scan[n].e])
  /\ UNCHANGED <<live, attachTs, view, rview, outq, scanned, serving, answer, last,
                 net, envVars>>

\* The timestamp of a REMOVE is moved past the entry it replaces.
RemoveTs(n, e) == Max(clock, Max(rview[n][<<n, e>>].ts, 0) + 1)

\* announce_ownership_remove
AnnounceRemove(n, e) ==
  LET d == Delta(n, e, REMOVE, RemoveTs(n, e))
  IN /\ outq' = [outq EXCEPT ![n] = @ \cup {[rec |-> d, ttl |-> TTL]}]
     /\ rview' = [rview EXCEPT ![n][<<n, e>>] = Entry(REMOVE, d.ts)]
     /\ last' = [last EXCEPT ![n][e] = Entry(REMOVE, d.ts)]

\* Mutant: _live_experts keeps the evicted expert.
UnregisterKeepsLive(n) ==
  /\ scan[n].pc = "unregister"
  /\ LET e == scan[n].e
     IN /\ view' = [view EXCEPT ![n] = Put(@, Delta(n, e, REMOVE, clock))]
        /\ AnnounceRemove(n, e)
        /\ attachTs' = [attachTs EXCEPT ![n][e] = 0]
  /\ ScanDone(n)
  /\ UNCHANGED <<held, stack, live, serving, answer, net, envVars>>

\* The rest of migration_detach
Unregister(n) ==
  /\ scan[n].pc = "unregister"
  /\ LET e == scan[n].e
     IN /\ live' = [live EXCEPT ![n] = @ \ {e}]
        /\ attachTs' = [attachTs EXCEPT ![n][e] = 0]
        /\ view' = [view EXCEPT ![n] = Put(@, Delta(n, e, REMOVE, clock))]
        /\ AnnounceRemove(n, e)
  /\ ScanDone(n)
  /\ UNCHANGED <<held, stack, serving, answer, net, envVars>>
-----------------------------------------------------------------------------
(* Serving experts. *)

WrongShard == "ERR_WRONG_SHARD"
Unavailable == "ERR_SHARD_UNAVAILABLE"
NoAnswer == [none |-> TRUE]

\* _handle_expert_request up to the lock: the check against _live_experts
ServeCheck(n, e) ==
  /\ n \in up
  /\ \/ /\ e \in live[n]
        /\ serving' = serving \cup {<<n, e>>}
        /\ answer' = answer
     \/ /\ e \notin live[n]
        /\ answer' = [e |-> e, w |-> WrongShard]
        /\ serving' = serving
  /\ UNCHANGED <<nodeVars, last, net, envVars>>

\* _handle_expert_request under the lock: run_selected_experts finds the slot
\* in held_ids_per_layer and raises when there is none.
ServeCompute(n, e) ==
  /\ <<n, e>> \in serving
  /\ serving' = serving \ {<<n, e>>}
  /\ answer' = [e |-> e,
                w |-> IF e \in Ids(held[n]) THEN stack[n][Slot(held[n], e)]
                                             ELSE Unavailable]
  /\ UNCHANGED <<nodeVars, last, net, envVars>>
-----------------------------------------------------------------------------
(* Ownership gossip. *)

\* Mutant: a spent record stays queued.
DrainKeepsSpent(q) == {[rec |-> o.rec, ttl |-> o.ttl - 1] : o \in q}

\* _drain_outbound_ownership: what is left in the queue after a round
Drain(q) == {[rec |-> o.rec, ttl |-> o.ttl - 1] : o \in {x \in q : x.ttl > 1}}

\* _run with messages to carry the batch: every one of them, to the peers T,
\* carries all of it.  A pass with nothing to send leaves the queue alone.
GossipRound(n, T) ==
  /\ n \in up /\ outq[n] # {}
  /\ LET batch == {o.rec : o \in outq[n]}
     IN net' = net \cup {[to |-> t, batch |-> batch] : t \in T}
  /\ Cardinality(net') <= MaxNet
  /\ outq' = [outq EXCEPT ![n] = Drain(@)]
  /\ UNCHANGED <<held, stack, live, attachTs, view, rview, scan, scanned, serving,
                 answer, last, envVars>>

\* Mutant: whatever arrives last is believed.
DeliverLatest(m) ==
  /\ m \in net /\ m.to \in up
  /\ net' = net \ {m}
  /\ LET latest(v) ==
           [k \in Key |-> IF Newest(m.batch, k) = {} THEN v[k]
                          ELSE LET d == CHOOSE d \in Newest(m.batch, k) : TRUE
                               IN Entry(d.act, d.ts)]
     IN /\ rview' = [rview EXCEPT ![m.to] = latest(@)]
        /\ view' = [view EXCEPT ![m.to] = latest(@)]
  /\ UNCHANGED <<held, stack, live, attachTs, outq, scan, scanned, serving, answer,
                 last, envVars>>

\* _on_recv_decoded, and the observer that relays what the runner accepted
\* into the node's view
Deliver(m) ==
  /\ m \in net /\ m.to \in up
  /\ net' = net \ {m}
  /\ rview' = [rview EXCEPT ![m.to] = PutBatch(@, @, m.batch)]
  /\ view' = [view EXCEPT ![m.to] = PutBatch(@, rview[m.to], m.batch)]
  /\ UNCHANGED <<held, stack, live, attachTs, outq, scan, scanned, serving, answer,
                 last, envVars>>

Lose(m) ==
  /\ m \in net
  /\ losses < MaxLosses \/ m.to \notin up
  /\ losses' = IF m.to \in up THEN losses + 1 ELSE losses
  /\ net' = net \ {m}
  /\ UNCHANGED <<nodeVars, serving, answer, last, up, clock, crashes>>
-----------------------------------------------------------------------------
(* The environment. *)

\* A tick is longer than the time between the two announcements of an attach.
Tick ==
  /\ clock < MaxClock
  /\ \A n \in Node : scan[n].pc # "again"
  /\ clock' = clock + 1
  /\ UNCHANGED <<nodeVars, serving, answer, last, net, up, losses, crashes>>

\* A crash loses everything but shards.yaml: the state a restart begins with is
\* laid out at once.  A pull from the crashed node fails.
Crash(n) ==
  /\ n \in up /\ crashes < MaxCrashes
  /\ crashes' = crashes + 1
  /\ up' = up \ {n}
  /\ held' = [held EXCEPT ![n] = Bootstrap[n]]
  /\ stack' = [stack EXCEPT ![n] = Bootstrap[n]]
  /\ live' = [live EXCEPT ![n] = Ids(Bootstrap[n])]
  /\ attachTs' = [attachTs EXCEPT ![n] = [e \in Expert |-> 0]]
  /\ view' = [view EXCEPT ![n] = SeedView]
  /\ rview' = [rview EXCEPT ![n] = [k \in Key |-> NoEntry]]
  /\ outq' = [outq EXCEPT ![n] = {}]
  /\ scan' = [m \in Node |->
                IF m = n THEN Idle
                ELSE IF scan[m].pc \in {"asked", "slicing"} /\ scan[m].src = n
                     THEN Evict ELSE scan[m]]
  /\ serving' = {r \in serving : r[1] # n}
  /\ UNCHANGED <<scanned, answer, last, net, clock, losses>>

\* Node.__init__; the first scan comes after an interval.
Restart(n) ==
  /\ n \notin up
  /\ up' = up \cup {n}
  /\ scanned' = [scanned EXCEPT ![n] = clock]
  /\ UNCHANGED <<held, stack, live, attachTs, view, rview, outq, scan, serving,
                 answer, last, net, clock, losses, crashes>>

Init ==
  /\ held = Bootstrap
  /\ stack = Bootstrap
  /\ live = [n \in Node |-> Ids(Bootstrap[n])]
  /\ attachTs = [n \in Node |-> [e \in Expert |-> 0]]
  /\ view = [n \in Node |-> SeedView]
  /\ rview = [n \in Node |-> [k \in Key |-> NoEntry]]
  /\ outq = [n \in Node |-> {}]
  /\ scan = [n \in Node |-> Idle]
  /\ scanned = [n \in Node |-> 0]
  /\ serving = {}
  /\ answer = NoAnswer
  /\ last = [n \in Node |-> [e \in Expert |-> SeedView[<<n, e>>]]]
  /\ up = Node
  /\ net = {}
  /\ clock = 0
  /\ losses = 0
  /\ crashes = 0

ScannerStep(n) ==
  \/ ScanNothing(n)
  \/ \E e \in Expert, src \in Node : ScanPull(n, e, src)
  \/ SliceLookup(n) \/ SliceTake(n) \/ PullFails(n)
  \/ Attach(n) \/ Register(n) \/ AnnounceAgain(n)
  \/ EvictNone(n) \/ (\E e \in Expert : EvictPick(n, e))
  \/ Detach(n) \/ Unregister(n)

Gossip(n) == \E T \in (SUBSET (Node \ {n})) \ {{}} : GossipRound(n, T)

Next ==
  \/ \E n \in Node :
       \/ ScannerStep(n)
       \/ Gossip(n)
       \/ \E e \in Requested : ServeCheck(n, e) \/ ServeCompute(n, e)
       \/ Crash(n) \/ Restart(n)
  \/ \E m \in net : Deliver(m) \/ Lose(m)
  \/ Tick

Spec == Init /\ [][Next]_vars
-----------------------------------------------------------------------------
(* Properties. *)

EntryType == [act : {ADD, REMOVE}, ts : Nat \cup {-1}]
ViewType == [Key -> EntryType]
DeltaType == [key : Key, act : {ADD, REMOVE}, ts : Nat]
Queued == [rec : DeltaType, ttl : 1..TTL]
Weights == Expert \cup {Garbage}

ScanType ==
  [pc : {"idle", "evict"}]
  \cup [pc : {"asked"}, e : Expert, src : Node]
  \cup [pc : {"slicing"}, e : Expert, src : Node, slot : Nat \ {0}]
  \cup [pc : {"attach"}, e : Expert, w : Weights]
  \cup [pc : {"register", "again", "detach", "unregister"}, e : Expert]

\* Types of the state.  In particular a queued ownership record has rounds
\* left: _drain_outbound_ownership never leaves a spent one.
TypeOK ==
  /\ held \in [Node -> Seq(Expert)]
  /\ stack \in [Node -> Seq(Weights)]
  /\ live \in [Node -> SUBSET Expert]
  /\ attachTs \in [Node -> [Expert -> Nat]]
  /\ view \in [Node -> ViewType]
  /\ rview \in [Node -> ViewType]
  /\ outq \in [Node -> SUBSET Queued]
  /\ scan \in [Node -> ScanType]
  /\ scanned \in [Node -> Nat]
  /\ serving \subseteq Node \X Expert
  /\ answer \in {NoAnswer} \cup [e : Expert, w : Weights \cup {WrongShard, Unavailable}]
  /\ last \in [Node -> [Expert -> EntryType]]
  /\ up \subseteq Node
  /\ net \subseteq [to : Node, batch : SUBSET DeltaType]
  /\ clock \in 0..MaxClock /\ losses \in 0..MaxLosses /\ crashes \in 0..MaxCrashes

\* held_ids_per_layer and the weight stack stay aligned: every slot holds the
\* weights of the expert it is filed under (partial_load.py attach_expert,
\* detach_expert, slice_expert).
SlotsMatch == stack = held

\* The experts of shards.yaml keep their slots and their weights for ever, so a
\* transfer of a bootstrap expert cannot pick another one's weights.
BootstrapKept ==
  \A n \in Node : \A i \in 1..Len(Bootstrap[n]) :
    /\ i <= Len(held[n]) /\ held[n][i] = Bootstrap[n][i]
    /\ i <= Len(stack[n]) /\ stack[n][i] = Bootstrap[n][i]

\* What _handle_expert_request offers is what the stack holds, but for the
\* moments between the two updates of an attach or a detach.
LiveIsHeld ==
  \A n \in Node :
    /\ scan[n].pc \notin {"register", "unregister"} => live[n] = Ids(held[n])
    /\ scan[n].pc = "register" => Ids(held[n]) = live[n] \cup {scan[n].e}
    /\ scan[n].pc = "unregister" => Ids(held[n]) = live[n] \ {scan[n].e}

\* The rows of a layer's stack never outnumber MIGRATION_MAX_EXPERTS_PER_LAYER,
\* unless shards.yaml itself gives the node more.
Capacity == \A n \in Node : Len(held[n]) <= Max(MaxExperts, Len(Bootstrap[n]))

\* Every view keeps every owner of shards.yaml, whatever is evicted, lost or
\* restarted: owners_of finds someone for each expert of the file.  It also
\* means that the last-replica guard of migration_detach always finds the owner
\* of the file, whether or not that node runs.
BootstrapOwned == \A n, m \in Node : \A e \in Ids(Bootstrap[m]) : m \in Owners(n, e)

\* An expert request is answered with the requested expert or an error.
ServedRight ==
  answer # NoAnswer => answer.w \in {answer.e, WrongShard, Unavailable}

\* Between scans a node's two ownership views tell the truth about itself
\* (the runner's view is not seeded with the bootstrap experts).
OwnClaim ==
  \A n \in up : scan[n].pc \in {"idle", "evict"} =>
    \A e \in Expert :
      /\ view[n][<<n, e>>].act = ADD <=> e \in live[n]
      /\ e \notin Ids(Bootstrap[n]) => (rview[n][<<n, e>>].act = ADD <=> e \in live[n])

\* Nobody believes about n what n has not said: an entry is no newer than n's
\* latest announcement, and is that announcement if it is as new.
NoInventedOwnership ==
  \A m, n \in Node, e \in Expert :
    \A x \in {view[m][<<n, e>>], rview[m][<<n, e>>]} :
      /\ x.ts <= last[n][e].ts
      /\ x.ts = last[n][e].ts => x.act = last[n][e].act

\* A running node never goes back to an older entry, whatever the order in
\* which datagrams arrive.
OwnershipMonotone ==
  [][\A m \in up \cap up' : \A k \in Key :
       /\ view'[m][k] = view[m][k] \/ view'[m][k].ts > view[m][k].ts
       /\ rview'[m][k] = rview[m][k] \/ rview'[m][k].ts > rview[m][k].ts]_vars

\* "Return the 9 tensors for one expert" (slice_expert): a transfer does not
\* carry the weights of another expert.
TransferRight ==
  \A n \in Node : scan[n].pc = "attach" => scan[n].w \in {scan[n].e, Garbage}
=============================================================================
