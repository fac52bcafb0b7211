-------------------------------- MODULE Swim --------------------------------
(***************************************************************************)
(* The SWIM membership protocol of model_shard: the state machine of       *)
(* membership/state.py on every node, driven by the loop of                *)
(* membership/runner.py over UDP datagrams that may be lost, duplicated    *)
(* and reordered, with crashes and restarts of nodes.                      *)
(*                                                                         *)
(* Time is abstract: a timer may have expired at any tick, unless Timely   *)
(* says that a timeout outlasts every round trip it waits for.  Gossip     *)
(* priorities are abstract: any KGossip entries of the backlog may be      *)
(* picked.  PingReq and PingReqAck carry deltas that no handler reads, so  *)
(* the messages here carry none.                                           *)
(***************************************************************************)
EXTENDS Naturals, Sequences, FiniteSets

CONSTANTS
  Node,        \* shard ids
  Peers,       \* [Node -> SUBSET Node]: a node's shards.yaml, itself included
  ModelId,     \* [Node -> STRING]: local model ids, "" when unset
  KIndirect,   \* SwimConfig.k_indirect
  KGossip,     \* SwimConfig.k_gossip
  StartInc,    \* wall-clock second of the first start, the first incarnation
  Joiners,     \* nodes that bootstrap with a Join
  Timely,      \* TRUE: timeouts are longer than the round trips they guard
  Probers,     \* bound: the nodes that start protocol periods
  Aging,       \* FALSE: no backlog entry gets old enough to be collected
  MaxClock,    \* bound on the wall clock, so on the incarnation of a restart
  MaxInc,      \* bound on incarnations
  MaxProbes,   \* probe counters wrap around at this bound
  MaxNet,      \* bound on datagrams in flight
  MaxLog,      \* bound on a member's transitions not yet observed
  MaxLosses, MaxDups, MaxCrashes   \* budgets of the environment

ALIVE == 0
SUSPECT == 1
DEAD == 2
Absent == 3   \* old_state of a member that enters the view
State == {ALIVE, SUSPECT, DEAD}

ASSUME ConstantsAssumption ==
  /\ IsFiniteSet(Node)
  /\ Peers \in [Node -> SUBSET Node]
  /\ \A n \in Node : n \in Peers[n]
  /\ ModelId \in [Node -> STRING]
  /\ Joiners \subseteq Node /\ Probers \subseteq Node
  /\ Timely \in BOOLEAN /\ Aging \in BOOLEAN
  /\ KIndirect \in Nat /\ KGossip \in Nat
  /\ StartInc \in Nat /\ MaxClock \in Nat /\ MaxInc \in Nat
  /\ StartInc <= MaxClock /\ MaxClock <= MaxInc
  /\ MaxProbes \in Nat \ {0}
  /\ MaxNet \in Nat /\ MaxLog \in Nat
  /\ MaxLosses \in Nat /\ MaxDups \in Nat /\ MaxCrashes \in Nat

VARIABLES
  node,      \* [Node -> LocalState]: the MembershipState of each node
  up,        \* nodes whose process runs
  net,       \* datagrams in flight, the receivers' inboxes included
  started,   \* incarnation of each node's latest start (wall clock)
  issued,    \* history: highest incarnation each node has ever taken
  losses, dups, crashes   \* what the environment has used of its budgets

vars == <<node, up, net, started, issued, losses, dups, crashes>>
-----------------------------------------------------------------------------
(* Data. *)

\* dict.update
Merge(f, g) ==
  [x \in DOMAIN f \cup DOMAIN g |-> IF x \in DOMAIN g THEN g[x] ELSE f[x]]

Min(a, b) == IF a <= b THEN a ELSE b
Max(a, b) == IF a >= b THEN a ELSE b

\* MemberRecord; "deadline" tells whether suspect_deadline is set.
MemberRecord ==
  [state : State, inc : 0..MaxInc, model : {ModelId[n] : n \in Node},
   deadline : BOOLEAN]

\* dict[str, MemberRecord]
MemberDict == UNION {[D -> MemberRecord] : D \in SUBSET Node}

\* _PendingProbe; "indirect" tells whether indirect_sent_at is set.
PendingProbe ==
  [id : Node \X (1..MaxProbes), target : Node, indirect : BOOLEAN,
   helpers : SUBSET Node, acks : Nat, success : BOOLEAN]

\* _PendingHelp
PendingHelp ==
  [id : Node \X (1..MaxProbes), target : Node, requester : Node]

\* StateTransition, kept per shard id.
Transition == [old : State \cup {Absent}, new : State]

\* The fields of MembershipState, and what the observers have been told.
LocalState ==
  [members : MemberDict, inc : 0..MaxInc, probe : SUBSET PendingProbe,
   counter : 0..MaxProbes, helps : SUBSET PendingHelp,
   backlog : MemberDict, log : [Node -> Seq(Transition)],
   seen : [Node -> State \cup {Absent}]]

\* A MemberRecord made by this node: it sets suspect_deadline iff SUSPECT.
Record(state, inc, model) ==
  [state |-> state, inc |-> inc, model |-> model, deadline |-> state = SUSPECT]

\* A MemberRecord read from the wire, which has no suspect_deadline
Decoded(r) ==
  [state |-> r.state, inc |-> r.inc, model |-> r.model, deadline |-> FALSE]

Wire(view) == [x \in DOMAIN view |-> Decoded(view[x])]

Ping(n, to, inc, deltas) ==
  [type |-> "Ping", from |-> n, to |-> to, inc |-> inc, deltas |-> Wire(deltas)]
Ack(n, to, inc, deltas) ==
  [type |-> "Ack", from |-> n, to |-> to, inc |-> inc, deltas |-> Wire(deltas)]
PingReq(n, to, probe) ==
  [type |-> "PingReq", from |-> n, to |-> to, id |-> probe.id,
   target |-> probe.target]
PingReqAck(n, help, success) ==
  [type |-> "PingReqAck", from |-> n, to |-> help.requester, id |-> help.id,
   target |-> help.target, success |-> success]
Join(n, to) ==
  [type |-> "Join", from |-> n, to |-> to,
   rec |-> Record(ALIVE, 0, ModelId[n])]
MembershipDelta(n, to, members) ==
  [type |-> "MembershipDelta", from |-> n, to |-> to, deltas |-> Wire(members)]
-----------------------------------------------------------------------------
(* The state machine's helpers, as operators on a local state s. *)

\* MembershipState.__init__ with initial_incarnation i
Fresh(n, i) ==
  LET members == [m \in Peers[n] |->
                   Record(ALIVE, IF m = n THEN i ELSE 0, ModelId[n])]
  IN [members |-> members, inc |-> i, probe |-> {}, counter |-> 0,
      helps |-> {},
      backlog |-> [x \in IF i > 0 THEN {n} ELSE {} |-> members[x]],
      log |-> [m \in Node |-> <<>>],
      seen |-> [m \in Node |-> IF m \in Peers[n] THEN ALIVE ELSE Absent]]

\* What every change of records does: store them, append the transitions and
\* (re)enqueue them for gossip.
Install(s, recs) ==
  [s EXCEPT
     !.members = Merge(@, recs),
     !.backlog = Merge(@, recs),
     !.log = [x \in Node |->
                IF x \in DOMAIN recs
                THEN Append(@[x],
                       [old |-> IF x \in DOMAIN s.members
                                THEN s.members[x].state ELSE Absent,
                        new |-> recs[x].state])
                ELSE @[x]]]

\* Mutant: every record is admitted.
AdmitAny(n, rec) == TRUE

\* _admit
Admit(n, rec) == ModelId[n] = "" \/ rec.model = ModelId[n]

\* Mutant: the later of two records of one incarnation wins.
SupersedesLater(d, prev) == d.inc >= prev.inc

\* The precedence rule of _maybe_apply_peer_delta
Supersedes(d, prev) ==
  \/ d.inc > prev.inc
  \/ d.inc = prev.inc /\ d.state > prev.state

AlivePeers(n, s) ==
  {x \in DOMAIN s.members : x # n /\ s.members[x].state = ALIVE}

\* Mutant: a suspicion raises the incarnation.
MarkSuspectBumps(s, targets) ==
  Install(s, [x \in {y \in targets : s.members[y].state = ALIVE} |->
                Record(SUSPECT, s.members[x].inc + 1, s.members[x].model)])

\* Mutant: no transition is appended.
MarkSuspectSilently(s, targets) ==
  [Install(s, [x \in {y \in targets : s.members[y].state = ALIVE} |->
                 Record(SUSPECT, s.members[x].inc, s.members[x].model)])
     EXCEPT !.log = s.log]

\* _mark_suspect, for every x in targets
MarkSuspect(s, targets) ==
  Install(s, [x \in {y \in targets : s.members[y].state = ALIVE} |->
                Record(SUSPECT, s.members[x].inc, s.members[x].model)])

\* Mutant: the promoted record is not enqueued.
PromoteUngossiped(n, s, sender, inc) ==
  [Install(s, [x \in {y \in {sender} \cap DOMAIN s.members :
                        y # n /\ s.members[y].state # ALIVE} |->
                 Record(ALIVE, Max(s.members[x].inc, inc), s.members[x].model)])
     EXCEPT !.backlog = s.backlog]

\* _maybe_promote_sender_alive
PromoteSenderAlive(n, s, sender, inc) ==
  Install(s, [x \in {y \in {sender} \cap DOMAIN s.members :
                       y # n /\ s.members[y].state # ALIVE} |->
                Record(ALIVE, Max(s.members[x].inc, inc), s.members[x].model)])

\* Mutant: the new incarnation is taken but not recorded.
RefuteUnrecorded(n, s, deltas) ==
  IF n \in DOMAIN deltas /\ deltas[n].state # ALIVE /\ deltas[n].inc >= s.inc
  THEN [s EXCEPT !.inc = deltas[n].inc + 1]
  ELSE s

\* _maybe_refute
Refute(n, s, deltas) ==
  IF n \in DOMAIN deltas /\ deltas[n].state # ALIVE /\ deltas[n].inc >= s.inc
  THEN LET i == deltas[n].inc + 1
       IN Install([s EXCEPT !.inc = i],
                  [x \in {n} |-> Record(ALIVE, i, s.members[n].model)])
  ELSE s

\* Mutant: the record is stored as it came, without a deadline.
ApplyDeltasAsTheyCame(n, s, deltas) ==
  Install(s, [x \in {y \in (DOMAIN deltas \cap DOMAIN s.members) \ {n} :
                       /\ Admit(n, deltas[y])
                       /\ Supersedes(deltas[y], s.members[y])} |-> deltas[x]])

\* _maybe_apply_peer_delta on every delta about a known peer
ApplyPeerDeltas(n, s, deltas) ==
  Install(s, [x \in {y \in (DOMAIN deltas \cap DOMAIN s.members) \ {n} :
                       /\ Admit(n, deltas[y])
                       /\ Supersedes(deltas[y], s.members[y])} |->
                Record(deltas[x].state, deltas[x].inc, deltas[x].model)])

\* _apply_deltas
ApplyDeltas(n, s, deltas) == Refute(n, ApplyPeerDeltas(n, s, deltas), deltas)

\* The possible results of _select_outgoing_deltas: the own record and
\* KGossip entries of the backlog.
OutgoingDeltas(n, s) ==
  {[x \in {n} \cup S |-> IF x = n THEN s.members[n] ELSE s.backlog[x]] :
     S \in {T \in SUBSET DOMAIN s.backlog :
              Cardinality(T) = Min(KGossip, Cardinality(DOMAIN s.backlog))}}
-----------------------------------------------------------------------------
(* The runner: a step of node n hands its state and its messages over. *)

\* The new local state, within the bounds
Become(n, s) ==
  /\ s.inc <= MaxInc
  /\ \A x \in Node : Len(s.log[x]) <= MaxLog
  /\ node' = [node EXCEPT ![n] = s]
  /\ issued' = [issued EXCEPT ![n] = Max(@, s.inc)]

\* _transport.send_to for every message whose target has an address
Send(n, before, out) ==
  /\ net' = before \cup {m \in out : m.to \in Peers[n]}
  /\ Cardinality(net') <= MaxNet

\* The runner takes m from its inbox; the network may deliver it again.
Receive(n, m, s, out) ==
  /\ Become(n, s)
  /\ \/ Send(n, net \ {m}, out) /\ UNCHANGED dups
     \/ Send(n, net, out) /\ dups < MaxDups /\ dups' = dups + 1
  /\ UNCHANGED <<up, started, losses, crashes>>

\* Mutant: the Ping of a peer that is not ALIVE is answered and otherwise ignored.
RecvPingOfLiving(n, m) ==
  /\ m.type = "Ping"
  /\ LET s == node[n]
         s1 == ApplyDeltas(n, s, m.deltas)
     IN \/ /\ m.from \notin AlivePeers(n, s)
           /\ Receive(n, m, s, {Ack(n, m.from, s.inc, <<>>)})
        \/ /\ m.from \in AlivePeers(n, s)
           /\ \E d \in OutgoingDeltas(n, s1) :
                Receive(n, m, s1, {Ack(n, m.from, s1.inc, d)})

\* _handle_ping
RecvPing(n, m) ==
  /\ m.type = "Ping"
  /\ LET s == node[n]
         s1 == ApplyDeltas(n, PromoteSenderAlive(n, s, m.from, m.inc), m.deltas)
     IN \/ /\ m.from \notin DOMAIN s.members
           /\ Receive(n, m, s, {})
        \/ /\ m.from \in DOMAIN s.members
           /\ \E d \in OutgoingDeltas(n, s1) :
                Receive(n, m, s1, {Ack(n, m.from, s1.inc, d)})

\* Mutant: the helper does not tell the requesters.
RecvAckKeepsHelps(n, m) ==
  /\ m.type = "Ack"
  /\ LET s == [node[n] EXCEPT !.probe = {p \in @ : p.target # m.from}]
     IN Receive(n, m, ApplyDeltas(n, PromoteSenderAlive(n, s, m.from, m.inc),
                                  m.deltas), {})

\* _handle_ack
RecvAck(n, m) ==
  /\ m.type = "Ack"
  /\ LET s == [node[n] EXCEPT !.probe = {p \in @ : p.target # m.from}]
         s1 == ApplyDeltas(n, PromoteSenderAlive(n, s, m.from, m.inc), m.deltas)
         helped == {h \in s.helps : h.target = m.from}
     IN Receive(n, m, [s1 EXCEPT !.helps = @ \ helped],
                {PingReqAck(n, h, TRUE) : h \in helped})

\* _handle_pingreq
RecvPingReq(n, m) ==
  /\ m.type = "PingReq"
  /\ LET s == node[n]
         help == [id |-> m.id, target |-> m.target, requester |-> m.from]
     IN \/ /\ m.target \notin DOMAIN s.members
           /\ Receive(n, m, s, {})
        \/ /\ m.target \in DOMAIN s.members
           /\ \E d \in OutgoingDeltas(n, s) :
                Receive(n, m, [s EXCEPT !.helps = @ \cup {help}],
                        {Ping(n, m.target, s.inc, d)})

\* _handle_pingreqack
RecvPingReqAck(n, m) ==
  /\ m.type = "PingReqAck"
  /\ LET s == node[n]
         clear == [s EXCEPT !.probe = {}]
     IN \/ /\ \A p \in s.probe : p.id # m.id
           /\ Receive(n, m, s, {})
        \/ \E p \in s.probe :
             /\ p.id = m.id
             /\ \/ /\ m.success
                   /\ Receive(n, m, clear, {})
                \/ /\ ~m.success
                   /\ p.acks + 1 >= Cardinality(p.helpers) /\ ~p.success
                   /\ Receive(n, m, MarkSuspect(clear, {p.target}), {})
                \/ /\ ~m.success
                   /\ ~(p.acks + 1 >= Cardinality(p.helpers) /\ ~p.success)
                   /\ Receive(n, m, [s EXCEPT !.probe = {[p EXCEPT !.acks = @ + 1]}], {})

\* Mutant: the newcomer replaces a DEAD record of a higher incarnation.
RecvJoinNoFloor(n, m) ==
  /\ m.type = "Join"
  /\ LET s1 == Install(node[n], [x \in {m.from} |-> m.rec])
     IN \/ /\ ~Admit(n, m.rec)
           /\ Receive(n, m, node[n], {})
        \/ /\ Admit(n, m.rec)
           /\ Receive(n, m, s1, {MembershipDelta(n, m.from, s1.members)})

\* _handle_join
RecvJoin(n, m) ==
  /\ m.type = "Join"
  /\ LET s == node[n]
         floor == /\ m.from \in DOMAIN s.members
                  /\ s.members[m.from].state = DEAD
                  /\ s.members[m.from].inc > m.rec.inc
         s1 == IF floor THEN s ELSE Install(s, [x \in {m.from} |-> m.rec])
     IN \/ /\ ~Admit(n, m.rec)
           /\ Receive(n, m, s, {})
        \/ /\ Admit(n, m.rec)
           /\ Receive(n, m, s1, {MembershipDelta(n, m.from, s1.members)})

\* _handle_delta: records of unknown members are stored as they came
RecvMembershipDelta(n, m) ==
  /\ m.type = "MembershipDelta"
  /\ LET s == node[n]
         new == {x \in DOMAIN m.deltas \ DOMAIN s.members :
                   x # n /\ Admit(n, m.deltas[x])}
         s1 == Install(ApplyPeerDeltas(n, s, m.deltas), [x \in new |-> m.deltas[x]])
     IN Receive(n, m, Refute(n, s1, m.deltas), {})
-----------------------------------------------------------------------------
(* tick *)

\* A Ping from n to t, or its Ack, is on its way.
Awaited(n, t) == \E m \in net :
  \/ m.type = "Ping" /\ m.from = n /\ m.to = t
  \/ m.type = "Ack" /\ m.from = t /\ m.to = n

\* The indirect phase of probe p has a message on its way or a helper at work.
IndirectAwaited(p) ==
  \/ \E m \in net : m.type \in {"PingReq", "PingReqAck"} /\ m.id = p.id
  \/ \E n \in up : \E h \in node[n].helps : h.id = p.id

\* Suspects whose deadline may pass
Suspects(s) ==
  {x \in DOMAIN s.members : s.members[x].state = SUSPECT /\ s.members[x].deadline}

\* Help requests that may time out
OverdueHelps(n) == {h \in node[n].helps : Timely => ~Awaited(n, h.target)}

\* Mutant: no suspect is promoted to DEAD.
AfterTimersNoVerdict(s, gone, late, dead) ==
  [s EXCEPT !.backlog = [x \in DOMAIN @ \ gone |-> @[x]], !.helps = @ \ late]

\* _gc_backlog, _maybe_timeout_helps and _maybe_promote_dead, with the sets of
\* entries whose time has come
AfterTimers(s, gone, late, dead) ==
  Install([s EXCEPT !.backlog = [x \in DOMAIN @ \ gone |-> @[x]],
                    !.helps = @ \ late],
          [x \in dead |-> Record(DEAD, s.members[x].inc, s.members[x].model)])

\* What may have expired at a tick
Expired(n) ==
  [gone : SUBSET (IF Aging THEN DOMAIN node[n].backlog ELSE {}),
   late : SUBSET OverdueHelps(n),
   dead : SUBSET Suspects(node[n])]

TimerResults(n) ==
  {[s |-> AfterTimers(node[n], e.gone, e.late, e.dead),
    out |-> {PingReqAck(n, h, FALSE) : h \in e.late}] : e \in Expired(n)}

\* The runner has fired the observers at the end of the previous iteration.
Ticking(n) == n \in up /\ node[n].log = [x \in Node |-> <<>>]

Emit(n, s, out) ==
  /\ Become(n, s)
  /\ Send(n, net, out)
  /\ UNCHANGED <<up, started, losses, dups, crashes>>

\* A tick that neither starts a period nor escalates
TickIdle(n) ==
  /\ Ticking(n)
  /\ \E r \in TimerResults(n) : Emit(n, r.s, r.out)

\* The probe of the ended period is dropped, its target suspected if the
\* indirect phase had no success.
EndPeriod(s) ==
  MarkSuspect([s EXCEPT !.probe = {}],
              {p.target : p \in {q \in s.probe : q.indirect /\ ~q.success}})

\* The period is twice t_timeout: with timely ticks an unanswered probe has been
\* escalated by its end; a late tick starts the next period without that.
PeriodOver(n) ==
  Timely => \A p \in node[n].probe : p.indirect /\ ~IndirectAwaited(p)

\* _start_protocol_period with candidates, of which target was drawn
TickPeriod(n, target) ==
  /\ Ticking(n) /\ n \in Probers
  /\ PeriodOver(n)
  /\ \E r \in TimerResults(n) :
       LET s == EndPeriod(r.s)
           c == IF s.counter = MaxProbes THEN 1 ELSE s.counter + 1
           probe == [id |-> <<n, c>>, target |-> target, indirect |-> FALSE,
                     helpers |-> {}, acks |-> 0, success |-> FALSE]
       IN /\ target \in AlivePeers(n, s)
          /\ \E d \in OutgoingDeltas(n, s) :
               Emit(n, [s EXCEPT !.counter = c, !.probe = {probe}],
                    r.out \cup {Ping(n, target, s.inc, d)})

\* _start_protocol_period without candidates
TickNoPeers(n) ==
  /\ Ticking(n)
  /\ PeriodOver(n)
  /\ \E r \in TimerResults(n) :
       /\ AlivePeers(n, EndPeriod(r.s)) = {}
       /\ Emit(n, EndPeriod(r.s), r.out)

\* _maybe_escalate_probe for the pending probe of target
TickEscalate(n, target) ==
  /\ Ticking(n)
  /\ \E r \in TimerResults(n), p \in node[n].probe :
       LET peers == AlivePeers(n, r.s) \ {target}
       IN /\ p.target = target /\ ~p.indirect
          /\ Timely => ~Awaited(n, target)
          /\ \/ /\ Min(KIndirect, Cardinality(peers)) > 0
                /\ \E chosen \in SUBSET peers :
                     /\ Cardinality(chosen) = Min(KIndirect, Cardinality(peers))
                     /\ Emit(n, [r.s EXCEPT !.probe =
                                   {[p EXCEPT !.indirect = TRUE, !.helpers = chosen]}],
                             r.out \cup {PingReq(n, h, p) : h \in chosen})
             \/ /\ Min(KIndirect, Cardinality(peers)) = 0
                /\ Emit(n, MarkSuspect([r.s EXCEPT !.probe = {}], {target}), r.out)

Tick(n) ==
  \/ TickIdle(n)
  \/ TickNoPeers(n)
  \/ \E target \in Node : TickPeriod(n, target) \/ TickEscalate(n, target)

\* _fire_observers for the transitions since the last iteration
FireObservers(n) ==
  LET s == node[n]
      told == [x \in Node |-> IF s.log[x] = <<>> THEN s.seen[x]
                              ELSE s.log[x][Len(s.log[x])].new]
  IN /\ n \in up
     /\ s.log # [x \in Node |-> <<>>]
     /\ node' = [node EXCEPT ![n] = [s EXCEPT !.log = [x \in Node |-> <<>>],
                                              !.seen = told]]
     /\ UNCHANGED <<up, net, started, issued, losses, dups, crashes>>
-----------------------------------------------------------------------------
(* Processes and the network. *)

\* bootstrap_sequential contacts a seed before the first protocol period
BootstrapJoin(n, seed) ==
  /\ n \in up \cap Joiners
  /\ node[n].counter = 0
  /\ seed \in Peers[n] \ {n}
  /\ Send(n, net, {Join(n, seed)})
  /\ UNCHANGED <<node, up, started, issued, losses, dups, crashes>>

Crash(n) ==
  /\ n \in up
  /\ crashes < MaxCrashes
  /\ up' = up \ {n}
  /\ crashes' = crashes + 1
  /\ UNCHANGED <<node, net, started, issued, losses, dups>>

\* A new process: initial_incarnation is the wall clock, which has not gone
\* back since the last start but may not have passed later refutations.
Restart(n) ==
  /\ n \in Node \ up
  /\ up' = up \cup {n}
  /\ \E i \in started[n]..MaxClock :
       /\ started' = [started EXCEPT ![n] = i]
       /\ Become(n, Fresh(n, i))
  /\ UNCHANGED <<net, losses, dups, crashes>>

\* A datagram is lost, or reaches a host where no process listens.
Lose(m) ==
  /\ net' = net \ {m}
  /\ \/ m.to \notin up /\ UNCHANGED losses
     \/ m.to \in up /\ losses < MaxLosses /\ losses' = losses + 1
  /\ UNCHANGED <<node, up, started, issued, dups, crashes>>

Init ==
  /\ node = [n \in Node |-> Fresh(n, StartInc)]
  /\ up = Node
  /\ net = {}
  /\ started = [n \in Node |-> StartInc]
  /\ issued = [n \in Node |-> StartInc]
  /\ losses = 0 /\ dups = 0 /\ crashes = 0

\* recv
Recv(n, m) ==
  /\ n \in up /\ m.to = n
  /\ \/ RecvPing(n, m)
     \/ RecvAck(n, m)
     \/ RecvPingReq(n, m)
     \/ RecvPingReqAck(n, m)
     \/ RecvJoin(n, m)
     \/ RecvMembershipDelta(n, m)

Next ==
  \/ \E n \in Node :
       \/ Tick(n)
       \/ FireObservers(n)
       \/ Crash(n)
       \/ Restart(n)
       \/ \E seed \in Node : BootstrapJoin(n, seed)
  \/ \E m \in net : Recv(m.to, m) \/ Lose(m)

Spec == Init /\ [][Next]_vars

\* Every timer that has expired is acted on: part of TickIdle
ExpireAll(n) ==
  LET late == OverdueHelps(n)
  IN /\ Ticking(n)
     /\ Emit(n, AfterTimers(node[n], {}, late, Suspects(node[n])),
             {PingReqAck(n, h, FALSE) : h \in late})

\* The runner's loop goes round and draws every candidate again and again;
\* a datagram that is not lost arrives.
Fairness ==
  /\ \A n \in Node :
       /\ WF_vars(ExpireAll(n))
       /\ WF_vars(TickNoPeers(n))
       /\ WF_vars(FireObservers(n))
       /\ \A x \in Node \ {n} : WF_vars(\E m \in net : m.from = x /\ Recv(n, m))
  /\ \A n \in Probers : \A x \in Node \ {n} :
       SF_vars(TickPeriod(n, x)) /\ SF_vars(TickEscalate(n, x))
  /\ WF_vars(\E m \in net : m.to \notin up /\ Lose(m))

FairSpec == Spec /\ Fairness
-----------------------------------------------------------------------------
(* Properties. *)

Message ==
  [type : {"Ping", "Ack"}, from : Node, to : Node, inc : 0..MaxInc,
   deltas : MemberDict]
  \cup [type : {"PingReq"}, from : Node, to : Node,
         id : Node \X (1..MaxProbes), target : Node]
  \cup [type : {"PingReqAck"}, from : Node, to : Node,
         id : Node \X (1..MaxProbes), target : Node, success : BOOLEAN]
  \cup [type : {"Join"}, from : Node, to : Node, rec : MemberRecord]
  \cup [type : {"MembershipDelta"}, from : Node, to : Node,
         deltas : MemberDict]

\* Types of the variables.
TypeOK ==
  /\ node \in [Node -> LocalState]
  /\ up \in SUBSET Node
  /\ net \in SUBSET Message
  /\ started \in [Node -> 0..MaxInc]
  /\ issued \in [Node -> 0..MaxInc]
  /\ losses \in Nat /\ dups \in Nat /\ crashes \in Nat

\* Only a node itself makes new incarnations of itself: no record of x, in any
\* view, backlog or datagram, however stale, is above what x has taken.
IncarnationsIssued ==
  /\ \A n \in Node :
       /\ node[n].inc <= issued[n]
       /\ \A x \in DOMAIN node[n].members : node[n].members[x].inc <= issued[x]
       /\ \A x \in DOMAIN node[n].backlog : node[n].backlog[x].inc <= issued[x]
  /\ \A m \in net :
       /\ m.type \in {"Ping", "Ack"} => m.inc <= issued[m.from]
       /\ m.type \in {"Ping", "Ack", "MembershipDelta"} =>
            \A x \in DOMAIN m.deltas : m.deltas[x].inc <= issued[x]

\* A node never believes gossip about itself: its own record stays ALIVE, at
\* its current incarnation and with its own model id.
SelfRecord ==
  \A n \in Node :
    /\ n \in DOMAIN node[n].members
    /\ node[n].members[n] = Record(ALIVE, node[n].inc, ModelId[n])

\* A node never gossips a record that its view has moved past.
GossipFresh ==
  \A n \in Node : \A x \in DOMAIN node[n].backlog :
    /\ x \in DOMAIN node[n].members
    /\ node[n].backlog[x] = node[n].members[x]

\* suspect_deadline is set iff the state is SUSPECT (records.py:33), so that no
\* suspicion waits for ever without a verdict.
DeadlineIffSuspect ==
  \A n \in Node : \A x \in DOMAIN node[n].members :
    node[n].members[x].deadline <=> node[n].members[x].state = SUSPECT

\* A node that has a model id keeps no record of another model, whichever of
\* the three ways (gossip, Join, MembershipDelta) it came.
ModelAdmitted ==
  \A n \in Node : ModelId[n] # "" =>
    \A x \in DOMAIN node[n].members : node[n].members[x].model = ModelId[n]

\* The transitions handed or still to be handed to the observers lead, one
\* from the other, from what they were told to the present view: no change of
\* a member's state is missed, reported twice or reported out of order.
ObserversFollowView ==
  \A n \in Node, x \in Node :
    LET log == node[n].log[x]
        now == IF x \in DOMAIN node[n].members
               THEN node[n].members[x].state ELSE Absent
    IN IF log = <<>> THEN node[n].seen[x] = now
       ELSE /\ log[1].old = node[n].seen[x]
            /\ log[Len(log)].new = now
            /\ \A i \in 1..(Len(log) - 1) : log[i + 1].old = log[i].new

\* A view of x goes back to a less severe state of the same incarnation only on
\* a datagram of x itself, and to a lower incarnation only on a Join of x that
\* finds x not DEAD (the floor rule of _handle_join).
RevivalIsFirstHand ==
  [][\A n \in up \cap up' : \A x \in DOMAIN node[n].members \ {n} :
       LET old == node[n].members[x]
           new == node'[n].members[x]
           heard(types) == \E m \in net : /\ m.from = x /\ m.to = n
                                          /\ m.type \in types
       IN /\ new.inc = old.inc /\ new.state < old.state =>
               heard({"Ping", "Ack", "Join"})
          /\ new.inc < old.inc => heard({"Join"}) /\ old.state # DEAD]_vars

\* The indirect probe masks a lost datagram: when timeouts outlast the round
\* trips and no process has crashed, one loss makes nobody suspected.
LossMasked ==
  Timely /\ crashes = 0 /\ losses <= 1 =>
    \A n, x \in Node : node[n].members[x].state = ALIVE

\* A crashed node that stays down is seen DEAD for good by every running node,
\* as long as some node probes.
CrashDetected ==
  \A x \in Node :
    <>[](x \notin up /\ up \cap Probers # {}) =>
      <>[](\A n \in up : node[n].members[x].state = DEAD)

\* A node that is running, and that a running peer holds SUSPECT or DEAD, is
\* ALIVE to that peer again as long as it believes in the peer itself: it pings
\* the peer sooner or later, and a Ping is evidence that no record outranks
\* (_maybe_promote_sender_alive), after a lost datagram as after a restart.
OneSidedCleared ==
  \A n, x \in Node :
    ~<>[](/\ {n, x} \subseteq up
          /\ node[n].members[x].state # ALIVE
          /\ node[x].members[n].state = ALIVE)

\* "if B is actually fine (just slow), ... every node clears the suspicion"
\* (design of phase 2, 4.3): a running node does not stay suspected by a running
\* node.
SuspicionCleared ==
  \A n, x \in Node : ~<>[]({n, x} \subseteq up /\ node[n].members[x].state # ALIVE)
=============================================================================
