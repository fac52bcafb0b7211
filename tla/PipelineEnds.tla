---------------------------- MODULE PipelineEnds ----------------------------
(***************************************************************************)
(* Proofs about Pipeline: what a request leaves.  The stages drop what     *)
(* they have cached for it, and every token that reaches a client is       *)
(* computed from the whole sequence before it.                             *)
(***************************************************************************)
EXTENDS PipelineProofs

(* The stages drop their caches *)

\* Nothing has crashed, and nobody was suspected.
Calm == crashes = 0 /\ suspicions = 0
AllAlive == \A n, p \in Node : seen[n][p] = "alive"

\* The thread of r waits for a round that a stage has given up.
Stuck(r) == pc[r] = "waiting" /\ queue[r] = <<>> /\ WayOf(conns, r) = {}

\* A round is under way only while the thread waits for it, and an error is
\* the last thing the thread hears of.
Waited(r) ==
  /\ WayOf(conns, r) # {} \/ RoundsOf(queue[r], r) # {} => pc[r] = "waiting"
  /\ Poisoned(queue[r]) => /\ WayOf(conns, r) = {} /\ RoundsOf(queue[r], r) = {}
                           /\ pc[r] \notin {"new", "checked", "prefill", "step"}

\* A cache that a stage holds for a finished request has an EndRequest on its
\* way to the stage.
EndBefore(n, r) == \E m \in Node : m < n /\ Carries(conns[m], End(r))
Dropped(r) ==
  \A n \in Node \ {head} : cache[n][r] # NoCache =>
    pc[r] \notin Early /\ (pc[r] \in {"release", "done"} => EndBefore(n, r))

\* In a calm state a request is stuck, or no connection has lost its reader and
\* every cache is accounted for.
CalmInv ==
  Calm => /\ AllAlive
          /\ \/ \E r \in Req : Stuck(r)
             \/ /\ \A n \in Node : AllRead(conns[n])
                /\ \A r \in Req : Waited(r) /\ Dropped(r)

\* A suspicion is counted.
LEMMA SuspicionStep ==
  ASSUME TypeOK, [Next]_vars
  PROVE  \/ suspicions' = suspicions
         \/ suspicions' = suspicions + 1
<1>1. ASSUME NEW r \in Req, Request(r) \/ ClientGone(r) PROVE suspicions' = suspicions
  BY Zenon, <1>1 DEF Request, BeginCheck, BeginRegister, Prefill, PrefillFails, Decode, DecodeStep,
              DecodeFails, Finish, Release, Hangup, EndAborted, ClientGone, budgets
<1>2. ASSUME NEW n \in Node, NEW i, Connection(n, i) PROVE suspicions' = suspicions
  BY Zenon, <1>2 DEF Connection, HandleActivation, RejectActivation, FailActivation, HandleSampledToken,
              HandleUpstreamError, HandleEnd, budgets
<1>3. ASSUME NEW n \in Node, NEW p, Membership(n, p)
      PROVE  suspicions' = suspicions \/ suspicions' = suspicions + 1
  BY Zenon, <1>3 DEF Membership, LeaveAlive, BecomeDead, BecomeAlive, budgets
<1>4. ASSUME NEW n \in Node, Crash(n) \/ Restart(n) PROVE suspicions' = suspicions
  BY Zenon, <1>4 DEF Crash, Restart
<1>5. ASSUME UNCHANGED vars PROVE suspicions' = suspicions
  BY Zenon, <1>5 DEF vars
<1> QED BY Zenon, <1>1, <1>2, <1>3, <1>4, <1>5 DEF Next, Serve

\* What cannot happen in a calm step
LEMMA CalmFacts ==
  ASSUME TypeOK, UpInv, [Next]_vars, Calm'
  PROVE  /\ Calm /\ up = Node
         /\ \A n \in Node : ~Crash(n)
         /\ \A n \in Node : \A p \in Watched(n) : ~LeaveAlive(n, p)
<1>0. crashes \in Nat /\ suspicions \in Nat
  BY Zenon DEF TypeOK
<1>1. crashes = 0
  BY <1>0, BudgetStep DEF Calm
<1>2. suspicions = 0
  BY <1>0, SuspicionStep DEF Calm
<1>3. up = Node
  BY Zenon, <1>1 DEF UpInv
<1>4. ASSUME NEW n \in Node, Crash(n) PROVE FALSE
  BY <1>0, <1>4 DEF Crash, Calm
<1>5. ASSUME NEW n \in Node, NEW p \in Watched(n), LeaveAlive(n, p) PROVE FALSE
  <2>1. p \in Node
    BY Zenon, NodeFacts DEF Watched
  <2>2. suspicions' = suspicions + 1
    BY Zenon, <1>3, <1>5, <2>1 DEF LeaveAlive
  <2> QED BY <1>0, <2>2 DEF Calm
<1> QED BY Zenon, <1>1, <1>2, <1>3, <1>4, <1>5 DEF Calm

\* Without one every stage sees all others alive.
LEMMA AliveStep ==
  ASSUME TypeOK, UpInv, [Next]_vars, Calm', AllAlive
  PROVE  AllAlive'
<1>1. ASSUME NEW r \in Req, Request(r) \/ ClientGone(r) PROVE seen' = seen
  BY Zenon, <1>1 DEF Request, BeginCheck, BeginRegister, Prefill, PrefillFails, Decode, DecodeStep,
              DecodeFails, Finish, Release, Hangup, EndAborted, ClientGone
<1>2. ASSUME NEW n \in Node, NEW i, Connection(n, i) PROVE seen' = seen
  BY Zenon, <1>2 DEF Connection, HandleActivation, RejectActivation, FailActivation, HandleSampledToken,
              HandleUpstreamError, HandleEnd
<1>3. ASSUME NEW n \in Node, NEW p \in Watched(n), BecomeDead(n, p) \/ BecomeAlive(n, p) PROVE FALSE
  <2>1. p \in Node
    BY Zenon, NodeFacts DEF Watched
  <2> QED BY Zenon, <1>3, <2>1 DEF BecomeDead, BecomeAlive, AllAlive
<1>4. ASSUME NEW n \in Node, Restart(n) PROVE seen' = seen
  BY Zenon, <1>4 DEF Restart
<1>5. seen' = seen
  BY Zenon, <1>1, <1>2, <1>3, <1>4, CalmFacts DEF Next, Serve, Membership, vars
<1> QED BY Zenon, <1>5 DEF AllAlive

\* Nothing but a suspicion or a crash moves a stuck request.
LEMMA StuckStep ==
  ASSUME TypeOK, UpInv, [Next]_vars, Calm', NEW r \in Req, Stuck(r)
  PROVE  Stuck(r)'
<1>1. CASE Handled(r)
  BY Zenon, <1>1 DEF Handled, Aside, Arrives, Strikes, WayEnds, WaySame, ThreadSame, Stuck
<1>2. CASE Request(r)
  BY Zenon, <1>2 DEF Stuck, Request, BeginCheck, BeginRegister, Prefill, PrefillFails, Decode, DecodeStep,
              DecodeFails, Finish, Release, Hangup, EndAborted
<1> QED BY Zenon, <1>1, <1>2, StepKinds, CalmFacts

\* A token is no poison.
LEMMA PoisonedAppend ==
  ASSUME NEW q \in Seq(SampledTokens \cup {Poison}), NEW m \in SampledTokens, Poisoned(Append(q, m))
  PROVE  Poisoned(q)
<1>1. /\ DOMAIN Append(q, m) = DOMAIN q \cup {Len(q) + 1} /\ Append(q, m)[Len(q) + 1] = m
      /\ \A j \in DOMAIN q : Append(q, m)[j] = q[j]
  OBVIOUS
<1>2. m # Poison
  BY DEF SampledTokens, Poison
<1> HIDE DEF Poison
<1> QED BY Zenon, <1>1, <1>2 DEF Poisoned

\* A poison after a get was there before.
LEMMA PoisonedTail ==
  ASSUME NEW q \in Seq(SampledTokens \cup {Poison}), q # <<>>
  PROVE  /\ Poisoned(Tail(q)) => Poisoned(q)
         /\ q[1] = Poison => Poisoned(q)
<1>1. 1 \in DOMAIN q /\ \A j \in DOMAIN Tail(q) : \E k \in DOMAIN q : Tail(q)[j] = q[k]
  BY Zenon, RoundsHead
<1> QED BY Zenon, <1>1 DEF Poisoned

\* Steps of others keep Waited.
LEMMA WaitedHandled ==
  ASSUME TypeOK, NEW r \in Req, RequestAt(r), Waited(r), Handled(r)
  PROVE  Waited(r)'
<1>0. queue[r] \in Seq(SampledTokens \cup {Poison})
  BY Zenon DEF TypeOK
<1>1. CASE Aside(r)
  BY Zenon, <1>1 DEF Waited, Aside, WaySame, ThreadSame
<1>2. CASE Arrives(r)
  <2>1. PICK m \in SampledTokens : m.r = r /\ queue'[r] = Append(queue[r], m)
    BY Zenon, <1>2 DEF Arrives
  <2>2. pc'[r] = "waiting" /\ ~Poisoned(queue[r])
    BY Zenon, <1>2 DEF Arrives, WayEnds, ThreadSame, Waited
  <2>3. ~Poisoned(queue'[r])
    BY Zenon, <1>0, <2>1, <2>2, PoisonedAppend
  <2> QED BY Zenon, <2>2, <2>3 DEF Waited
<1>3. CASE Strikes(r)
  <2>1. pc'[r] = pc[r] /\ pc[r] = "waiting"
    BY Zenon, <1>3 DEF Strikes, ThreadSame, WayEnds, Waited
  <2>2. RoundsOf(queue'[r], r) = RoundsOf(queue[r], r)
    BY Zenon, <1>0, <1>3, QueueFacts DEF Strikes
  <2>3. WayOf(conns', r) = {} /\ RoundsOf(queue'[r], r) = {}
    BY Zenon, <1>3, <2>2 DEF Strikes, WayEnds, RequestAt, RoundAt
  <2> QED BY Zenon, <2>1, <2>3 DEF Waited
<1> QED BY Zenon, <1>1, <1>2, <1>3 DEF Handled

\* A step of the thread outside its wait for a token
LEMMA WaitedOutside ==
  ASSUME NEW r \in Req, Waited(r), pc[r] # "waiting", WaySame(r), queue'[r] = queue[r],
         \/ pc[r] \in {"new", "checked", "prefill", "step"}
         \/ pc'[r] \notin {"new", "checked", "prefill", "step"}
  PROVE  Waited(r)'
BY Zenon DEF Waited, WaySame

\* Steps of its own thread keep Waited.
LEMMA WaitedOwn ==
  ASSUME TypeOK, NEW r \in Req, RequestAt(r), Waited(r), Request(r),
         AllRead(conns[head]), up = Node
  PROVE  Waited(r)'
<1>0. /\ pc \in [Req -> {"new", "checked", "prefill", "waiting", "step", "finish",
                         "release", "aborted", "closed", "done", "raised"}]
      /\ DOMAIN queue = Req /\ queue[r] \in Seq(SampledTokens \cup {Poison})
  BY Zenon DEF TypeOK
<1>1. (conns' = conns) => WaySame(r)
  BY SameCarry, CarryQuiet
<1>2. ASSUME pc[r] \in {"prefill", "step"}, pc'[r] = "waiting", queue'[r] = queue[r]
      PROVE  Waited(r)'
  BY Zenon, <1>2 DEF Waited
<1>3. ASSUME Prefill(r) PROVE Waited(r)'
  <2>1. PICK w \in Forward(r) : /\ conns' = [conns EXCEPT ![head] = w.c]
                                /\ At(r, IF w.raised THEN "raised" ELSE "waiting")
    BY Zenon, <1>3 DEF Prefill
  <2>2. w.raised = FALSE
    BY Zenon, <2>1, HeadWriteKeeps DEF Forward
  <2>3. pc'[r] = "waiting" /\ pc[r] = "prefill" /\ queue' = queue
    BY Zenon, <1>0, <1>3, <2>1, <2>2 DEF At, Prefill
  <2> QED BY Zenon, <1>2, <2>3
<1>4. ASSUME DecodeStep(r) PROVE Waited(r)'
  <2>1. pc[r] = "step" /\ queue' = queue
    BY Zenon, <1>4 DEF DecodeStep
  <2>2. pc'[r] = "waiting" \/ conns' = conns
    BY Zenon, <1>0, <1>4 DEF DecodeStep, Abort, At
  <2> QED BY Zenon, <1>1, <1>2, <2>1, <2>2, WaitedOutside
<1>5. ASSUME Decode(r) PROVE Waited(r)'
  <2>1. /\ pc[r] = "waiting" /\ queue[r] # <<>> /\ queue'[r] = Tail(queue[r]) /\ conns' = conns
        /\ pc'[r] \in {"aborted", "finish", "step"}
        /\ pc'[r] = "step" => queue[r][1] # Poison
    BY Zenon, <1>0, <1>5 DEF Decode, Abort, At
  <2>2. /\ RoundsOf(queue[r], r) = {} => RoundsOf(Tail(queue[r]), r) = {} /\ queue[r][1] = Poison
        /\ queue[r][1] # Poison => 1 \in RoundsOf(queue[r], r) /\ RoundsOf(Tail(queue[r]), r) = {}
    BY Zenon, <1>0, <2>1, TailFacts DEF RequestAt, RoundAt
  <2>3. /\ Poisoned(Tail(queue[r])) => Poisoned(queue[r])
        /\ queue[r][1] = Poison => Poisoned(queue[r])
    BY Zenon, <1>0, <2>1, PoisonedTail
  <2>4. WayOf(conns, r) = {} \/ RoundsOf(queue[r], r) = {}
    BY Zenon DEF RequestAt, RoundAt
  <2>5. CASE queue[r][1] = Poison
    BY Zenon, <2>1, <2>2, <2>3, <2>5 DEF Waited
  <2>6. CASE queue[r][1] # Poison
    <3>1. ~Poisoned(queue[r])
      BY Zenon, <2>2, <2>6 DEF Waited
    <3> QED BY Zenon, <2>1, <2>2, <2>3, <2>4, <2>6, <3>1 DEF Waited
  <2> QED BY Zenon, <2>5, <2>6
<1>6. ASSUME BeginCheck(r) \/ BeginRegister(r) \/ PrefillFails(r) \/ DecodeFails(r) PROVE Waited(r)'
  <2>1. conns' = conns /\ queue' = queue /\ pc[r] \in {"new", "checked", "prefill", "step"}
    BY Zenon, <1>6 DEF BeginCheck, BeginRegister, PrefillFails, DecodeFails, Abort
  <2> QED BY Zenon, <1>1, <2>1, WaitedOutside
<1>7. ASSUME Finish(r) \/ EndAborted(r) PROVE Waited(r)'
  <2>1. queue' = queue /\ pc[r] # "waiting" /\ pc'[r] \in {"release", "done"} /\ BroadcastEnd(r)
    BY Zenon, <1>0, <1>7 DEF Finish, EndAborted, At
  <2>2. WaySame(r)
    BY Zenon, <2>1, EndQuiet
  <2> QED BY Zenon, <2>1, <2>2, WaitedOutside
<1>8. ASSUME Release(r) \/ Hangup(r) PROVE Waited(r)'
  <2>1. /\ queue' = queue /\ pc[r] # "waiting" /\ pc'[r] \in {"closed", "done"}
        /\ conns' = [conns EXCEPT ![head] = CloseOutbound(@)]
    BY Zenon, <1>0, <1>8 DEF Release, Hangup, At
  <2>2. WaySame(r)
    BY Zenon, <2>1, CloseQuiet
  <2> QED BY Zenon, <2>1, <2>2, WaitedOutside
<1> QED BY Zenon, <1>3, <1>4, <1>5, <1>6, <1>7, <1>8 DEF Request

\* An EndRequest that no step takes stays ahead of the stage.
LEMMA EndStays ==
  ASSUME NEW n \in Node, NEW r, EndBefore(n, r),
         \A k \in Node : Carries(conns[k], End(r)) => Carries(conns'[k], End(r))
  PROVE  EndBefore(n, r)'
BY Zenon DEF EndBefore

\* No cache appears, no thread ends and no EndRequest goes.
LEMMA DroppedSame ==
  ASSUME NEW r \in Req, Dropped(r), pc'[r] = pc[r],
         \A n \in Node \ {head} : cache'[n][r] = cache[n][r] \/ cache'[n][r] = NoCache,
         \A k \in Node : Carries(conns[k], End(r)) => Carries(conns'[k], End(r))
  PROVE  Dropped(r)'
<1> SUFFICES ASSUME NEW n \in Node \ {head}, cache'[n][r] # NoCache
             PROVE  pc'[r] \notin Early /\ (pc'[r] \in {"release", "done"} => EndBefore(n, r)')
  BY Zenon DEF Dropped
<1>1. pc[r] \notin Early /\ (pc[r] \in {"release", "done"} => EndBefore(n, r))
  BY Zenon DEF Dropped
<1> QED BY Zenon, <1>1, EndStays

\* The thread of r keeps Dropped: where it ends its loop it sends the EndRequest.
LEMMA DroppedOwn ==
  ASSUME TypeOK, [Next]_vars, NEW r \in Req, Dropped(r), Request(r),
         AllRead(conns[head]), up = Node
  PROVE  Dropped(r)'
<1>0. /\ pc \in [Req -> {"new", "checked", "prefill", "waiting", "step", "finish",
                         "release", "aborted", "closed", "done", "raised"}]
      /\ DOMAIN cache = Node /\ head \in Node
  BY Zenon, PipelineAssumption DEF TypeOK, head, Node
<1> SUFFICES ASSUME NEW n \in Node \ {head}, cache'[n][r] # NoCache
             PROVE  pc'[r] \notin Early /\ (pc'[r] \in {"release", "done"} => EndBefore(n, r)')
  BY Zenon DEF Dropped
<1>1. cache'[n] = cache[n]
  BY Zenon, <1>0 DEF Request, BeginCheck, BeginRegister, Prefill, PrefillFails, Decode, DecodeStep,
              DecodeFails, Finish, Release, Hangup, EndAborted, Abort, DropCache, Grow, BroadcastEnd
<1>2. pc[r] \notin Early /\ (pc[r] \in {"release", "done"} => EndBefore(n, r))
  BY Zenon, <1>1 DEF Dropped
<1>3. pc'[r] \notin Early
  BY Zenon, <1>2, EarlyStep
<1>4. ASSUME pc'[r] \in {"release", "done"} PROVE EndBefore(n, r)'
  <2>1. pc[r] = "release" \/ BroadcastEnd(r)
    BY Zenon, <1>0, <1>2, <1>4
       DEF Request, BeginCheck, BeginRegister, Prefill, PrefillFails, Decode, DecodeStep,
           DecodeFails, Finish, Release, Hangup, EndAborted, Abort, At, Early
  <2>2. CASE pc[r] = "release"
    BY Zenon, <1>2, <2>2, EndStays, RequestKeeps DEF Keeps
  <2>3. CASE BroadcastEnd(r)
    <3>1. Carries(conns'[head], End(r))
      BY Zenon, <2>3, HeadWriteKeeps DEF BroadcastEnd
    <3>2. head < n
      BY DEF head, Node
    <3> QED BY Zenon, <1>0, <3>1, <3>2 DEF EndBefore
  <2> QED BY Zenon, <2>1, <2>2, <2>3
<1> QED BY Zenon, <1>3, <1>4

\* So does the thread of another request.
LEMMA DroppedOther ==
  ASSUME TypeOK, NEW r \in Req, Dropped(r), NEW s \in Req, s # r, Request(s)
  PROVE  Dropped(r)'
<1>0. DOMAIN cache = Node /\ head \in Node
  BY Zenon, PipelineAssumption DEF TypeOK, head, Node
<1>1. \A n \in Node \ {head} : cache'[n] = cache[n]
  BY Zenon, <1>0 DEF Request, BeginCheck, BeginRegister, Prefill, PrefillFails, Decode, DecodeStep,
              DecodeFails, Finish, Release, Hangup, EndAborted, Abort, DropCache, Grow, BroadcastEnd
<1>2. pc'[r] = pc[r]
  BY Zenon, OtherElsewhere DEF Handled, Aside, Arrives, Strikes, ThreadSame
<1>3. \A k \in Node : Carries(conns[k], End(r)) => Carries(conns'[k], End(r))
  BY Zenon, RequestKeeps DEF Keeps
<1> QED BY Zenon, <1>1, <1>2, <1>3, DroppedSame

\* _handle_end passes the EndRequest on.
LEMMA EndPassed ==
  ASSUME TypeOK, NEW n \in Node, NEW i, HandleEnd(n, i), n # tail,
         AllRead(conns[n]), up = Node
  PROVE  Carries(conns'[n], Message(n, i))
<1>1. Message(n, i) = End(Message(n, i).r) /\ Message(n, i).r \in Req
  BY Zenon, EndCarry
<1>2. PICK w \in WriteOut(n, conns[n], Message(n, i)) : Traffic(n, Taken(n, i), CloseOutbound(w.c))
  BY Zenon, <1>1 DEF HandleEnd
<1>3. Connections(conns[n], Sent(n)) /\ Downstream(n) \in up
  BY Zenon, ConnsTyped, NodeFacts
<1>4. Carries(w.c, Message(n, i))
  BY Zenon, <1>2, <1>3, KeepsWrite
<1>5. Message(n, i) \in Sent(n)
  <2>1. End(Message(n, i).r) \in Ends
    BY Zenon, <1>1, MessageTypes
  <2> QED BY Zenon, <1>1, <2>1 DEF Sent
<1>6. Connections(w.c, Sent(n))
  BY Zenon, <1>2, <1>3, <1>5, WriteTypes
<1>7. Keeps(CloseOutbound(w.c), w.c, {})
  BY Zenon, <1>6, KeepsClose
<1>8. conns'[n] = CloseOutbound(w.c)
  BY Zenon, <1>2, TrafficConns
<1> QED BY Zenon, <1>4, <1>7, <1>8 DEF Keeps

\* So does the thread of a connection: a cache appears only in a round, which is
\* under way only while the thread waits, and _handle_end moves the message on
\* before it drops the cache.
LEMMA DroppedConnection ==
  ASSUME TypeOK, NEW r \in Req, Dropped(r), Waited(r), NEW n \in Node, NEW i,
         Connection(n, i), ~FailActivation(n, i), \A k \in Node : AllRead(conns[k]), up = Node
  PROVE  Dropped(r)'
<1> DEFINE m == Message(n, i)
<1>0. /\ DOMAIN cache = Node /\ (\A k \in Node : DOMAIN cache[k] = Req)
      /\ \A k \in Node : Keeps(conns'[k], conns[k], IF k = Upstream(n) THEN {m} ELSE {})
      /\ Pending(n, i)
  BY Zenon, ConnectionKeeps
     DEF TypeOK, Connection, HandleActivation, RejectActivation, HandleSampledToken,
         HandleUpstreamError, HandleEnd
<1>1. ASSUME m # End(r)
      PROVE  \A k \in Node : Carries(conns[k], End(r)) => Carries(conns'[k], End(r))
  BY Zenon, <1>0, <1>1 DEF Keeps
<1>2. ASSUME m.t # "end" PROVE m # End(r)
  BY <1>2 DEF End
<1>3. pc'[r] = pc[r]
  BY Zenon, ConnectionElsewhere DEF Handled, Aside, Arrives, Strikes, ThreadSame
<1>4. ASSUME HandleActivation(n, i) PROVE Dropped(r)'
  <2>1. /\ m \in Activations
        /\ cache' = [cache EXCEPT ![n][m.r] = Held(n, m.r) + 1]
    BY Zenon, <1>4, ActivationCarry
  <2>2. m.t # "end"
    BY Zenon, <2>1 DEF Activations
  <2>3. CASE m.r # r
    <3>1. \A k \in Node : cache'[k][r] = cache[k][r]
      BY Zenon, <1>0, <2>1, <2>3
    <3> QED BY Zenon, <1>1, <1>2, <1>3, <2>2, <3>1, DroppedSame
  <2>4. CASE m.r = r
    <3>1. WayOf(conns, r) # {}
      BY Zenon, <1>0, <2>1, <2>4, TakenWay, RoundKinds
    <3>2. pc'[r] = "waiting"
      BY Zenon, <1>3, <3>1 DEF Waited
    <3> QED BY Zenon, <3>2 DEF Dropped, Early
  <2> QED BY Zenon, <2>3, <2>4
<1>5. ASSUME RejectActivation(n, i) \/ HandleSampledToken(n, i) PROVE Dropped(r)'
  <2>1. m.t # "end" /\ cache' = cache
    BY Zenon, <1>5 DEF RejectActivation, HandleSampledToken
  <2> QED BY Zenon, <1>1, <1>2, <1>3, <2>1, DroppedSame
<1>6. ASSUME HandleUpstreamError(n, i) PROVE Dropped(r)'
  <2>1. m.t # "end" /\ n = head /\ (cache' = cache \/ DropCache(head, m.r))
    BY Zenon, <1>6, ErrorCarry DEF HandleUpstreamError
  <2>2. \A k \in Node \ {head} : cache'[k][r] = cache[k][r]
    BY Zenon, <1>0, <2>1 DEF DropCache
  <2> QED BY Zenon, <1>1, <1>2, <1>3, <2>1, <2>2, DroppedSame
<1>7. ASSUME HandleEnd(n, i) PROVE Dropped(r)'
  <2>1. n # head /\ m = End(m.r) /\ m.r \in Req /\ DropCache(n, m.r)
    BY Zenon, <1>7, EndCarry
  <2>2. \A k \in Node : cache'[k][r] = cache[k][r] \/ cache'[k][r] = NoCache
    BY Zenon, <1>0, <2>1 DEF DropCache
  <2>3. CASE m # End(r)
    BY Zenon, <1>1, <1>3, <2>2, <2>3, DroppedSame
  <2>4. CASE m = End(r)
    <3>0. cache'[n][r] = NoCache
      <4>1. m.r = r
        BY <2>4 DEF End
      <4> QED BY Zenon, <1>0, <2>1, <4>1 DEF DropCache
    <3> SUFFICES ASSUME NEW k \in Node \ {head}, cache'[k][r] # NoCache
                 PROVE  pc'[r] \notin Early /\ (pc'[r] \in {"release", "done"} => EndBefore(k, r)')
      BY Zenon DEF Dropped
    <3>1. pc[r] \notin Early /\ (pc[r] \in {"release", "done"} => EndBefore(k, r))
      BY Zenon, <2>2 DEF Dropped
    <3>2. k # n
      BY Zenon, <3>0
    <3>3. ASSUME EndBefore(k, r) PROVE EndBefore(k, r)'
      <4>1. PICK j \in Node : j < k /\ Carries(conns[j], End(r))
        BY Zenon, <3>3 DEF EndBefore
      <4>2. k \in Int /\ n \in Int /\ j \in Int
        BY DEF Node
      <4>3. CASE n < k
        <5>1. n # tail
          BY <4>2, <4>3 DEF Node, tail
        <5>2. Carries(conns'[n], End(r))
          BY Zenon, <1>7, <2>4, <5>1, EndPassed
        <5> QED BY Zenon, <4>3, <5>2 DEF EndBefore
      <4>4. CASE k < n
        <5>1. Upstream(n) = n - 1
          BY Zenon, <2>1, NodeFacts
        <5>2. j # Upstream(n)
          BY <4>1, <4>2, <4>4, <5>1
        <5>3. Carries(conns'[j], End(r))
          BY Zenon, <1>0, <4>1, <5>2 DEF Keeps
        <5> QED BY Zenon, <4>1, <5>3 DEF EndBefore
      <4> QED BY <3>2, <4>2, <4>3, <4>4
    <3> QED BY Zenon, <1>3, <3>1, <3>3
  <2> QED BY Zenon, <2>3, <2>4
<1> QED BY Zenon, <1>4, <1>5, <1>6, <1>7 DEF Connection

\* A stage fails in the middle of a round: its request is stuck.
LEMMA FailSticks ==
  ASSUME TypeOK, NEW n \in Node, NEW i, FailActivation(n, i), NEW r \in Req, r = Message(n, i).r,
         RequestAt(r), Waited(r)
  PROVE  Stuck(r)'
<1>1. /\ Message(n, i) \in Activations /\ Pending(n, i)
      /\ Carry(n, {}, Upstream(n), {<<i, 1>>}) /\ UNCHANGED threads
  BY Zenon, FailCarry
<1>2. WayEnds(r)
  BY Zenon, <1>1, TakenEnds, RoundKinds
<1>3. WayOf(conns, r) # {} /\ WayOf(conns', r) = {}
  BY Zenon, <1>2 DEF WayEnds, RequestAt, RoundAt
<1>4. pc[r] = "waiting" /\ ~Poisoned(queue[r])
  BY Zenon, <1>3 DEF Waited
<1>5. RoundsOf(queue[r], r) = {} /\ Pure(queue[r], r)
  BY Zenon, <1>3 DEF RequestAt, RoundAt
<1>6. DOMAIN queue[r] = {}
  BY Zenon, <1>4, <1>5 DEF Pure, RoundsOf, Poisoned
<1>7. queue[r] = <<>>
  <2>1. queue[r] \in Seq(SampledTokens \cup {Poison})
    BY Zenon DEF TypeOK
  <2> QED BY Zenon, <1>6, <2>1, RoundsHead
<1> QED BY Zenon, <1>1, <1>3, <1>4, <1>7 DEF Stuck, threads

\* Every step without a failure keeps Dropped.
LEMMA DroppedStep ==
  ASSUME TypeOK, UpInv, [Next]_vars, Calm', NEW r \in Req, Dropped(r), Waited(r),
         \A k \in Node : AllRead(conns[k]),
         \A n \in Node : \A i : ~FailActivation(n, i)
  PROVE  Dropped(r)'
<1>0. up = Node /\ head \in Node
  BY CalmFacts, PipelineAssumption DEF head, Node
<1>1. ASSUME NEW s \in Req, Request(s) PROVE Dropped(r)'
  BY Zenon, <1>0, <1>1, DroppedOwn, DroppedOther
<1>2. ASSUME NEW s \in Req, ClientGone(s) PROVE Dropped(r)'
  <2>1. pc' = pc /\ cache' = cache /\ conns' = conns
    BY Zenon, <1>2 DEF ClientGone, threads
  <2> QED BY Zenon, <2>1, DroppedSame
<1>3. ASSUME NEW n \in Node, NEW i, Connection(n, i) PROVE Dropped(r)'
  BY Zenon, <1>0, <1>3, DroppedConnection
<1>4. ASSUME NEW n \in Node, NEW p \in Watched(n), Membership(n, p) PROVE Dropped(r)'
  <2>1. pc' = pc /\ cache' = cache
    BY Zenon, <1>4 DEF Membership, LeaveAlive, BecomeDead, BecomeAlive, threads
  <2>2. \A k \in Node : Carries(conns[k], End(r)) => Carries(conns'[k], End(r))
    BY Zenon, <1>4, MembershipKeeps DEF Keeps
  <2> QED BY Zenon, <2>1, <2>2, DroppedSame
<1>5. ASSUME NEW n \in Node, Restart(n) PROVE Dropped(r)'
  <2>1. pc' = pc /\ cache' = cache /\ conns' = conns
    BY Zenon, <1>5 DEF Restart, threads
  <2> QED BY Zenon, <2>1, DroppedSame
<1>6. ASSUME UNCHANGED vars PROVE Dropped(r)'
  <2>1. pc' = pc /\ cache' = cache /\ conns' = conns
    BY Zenon, <1>6 DEF vars
  <2> QED BY Zenon, <2>1, DroppedSame
<1> QED BY Zenon, <1>1, <1>2, <1>3, <1>4, <1>5, <1>6, CalmFacts DEF Next, Serve

\* The invariant is kept by every step ...
LEMMA CalmStep ==
  ASSUME RequestInv, UpInv, CalmInv, [Next]_vars
  PROVE  CalmInv'
<1> SUFFICES ASSUME Calm'
             PROVE  /\ AllAlive'
                    /\ \/ \E r \in Req : Stuck(r)'
                       \/ /\ \A n \in Node : AllRead(conns'[n])
                          /\ \A r \in Req : Waited(r)' /\ Dropped(r)'
  BY Zenon DEF CalmInv
<1>0. TypeOK /\ \A r \in Req : RequestAt(r)
  BY Zenon DEF RequestInv
<1>1. /\ Calm /\ up = Node
      /\ \A n \in Node : ~Crash(n)
      /\ \A n \in Node : \A p \in Watched(n) : ~LeaveAlive(n, p)
  BY Zenon, <1>0, CalmFacts
<1>2. AllAlive'
  BY Zenon, <1>0, <1>1, AliveStep DEF CalmInv
<1>3. CASE \E r \in Req : Stuck(r)
  BY Zenon, <1>0, <1>2, <1>3, StuckStep
<1>4. ASSUME \A n \in Node : AllRead(conns[n]), \A r \in Req : Waited(r) /\ Dropped(r),
             NEW n \in Node, NEW i, FailActivation(n, i)
      PROVE  \E r \in Req : Stuck(r)'
  <2>1. Message(n, i) \in Activations
    BY Zenon, <1>0, <1>4, FailCarry
  <2>2. Message(n, i).r \in Req
    BY Zenon, <2>1 DEF Activations
  <2> QED BY Zenon, <1>0, <1>4, <2>2, FailSticks
<1>5. ASSUME \A n \in Node : AllRead(conns[n]), \A r \in Req : Waited(r) /\ Dropped(r),
             \A n \in Node : \A i : ~FailActivation(n, i)
      PROVE  /\ \A n \in Node : AllRead(conns'[n])
             /\ \A r \in Req : Waited(r)' /\ Dropped(r)'
  <2>1. \A n \in Node : AllRead(conns'[n])
    BY Zenon, <1>0, <1>1, <1>5, ReadStep
  <2>2. ASSUME NEW r \in Req PROVE Waited(r)'
    <3>1. AllRead(conns[head])
      BY <1>5, PipelineAssumption DEF head, Node
    <3>2. Request(r) \/ Handled(r)
      BY Zenon, <1>0, <1>1, StepKinds
    <3> QED BY Zenon, <1>0, <1>1, <1>5, <3>1, <3>2, WaitedOwn, WaitedHandled
  <2>3. ASSUME NEW r \in Req PROVE Dropped(r)'
    BY Zenon, <1>0, <1>5, DroppedStep
  <2> QED BY Zenon, <2>1, <2>2, <2>3
<1> QED BY Zenon, <1>1, <1>2, <1>3, <1>4, <1>5 DEF CalmInv

\* ... and holds at the start.
LEMMA CalmInit == Init => UpInv /\ CalmInv
<1> SUFFICES ASSUME Init PROVE UpInv /\ CalmInv
  BY Zenon
<1>1. UpInv /\ AllAlive
  BY Zenon DEF Init, UpInv, AllAlive
<1>2. \A n \in Node : AllRead(conns[n])
  BY Zenon DEF Init, AllRead
<1>3. ASSUME NEW r \in Req PROVE Waited(r) /\ Dropped(r)
  <2>1. pc[r] = "new" /\ queue[r] = <<>> /\ \A n \in Node : cache[n][r] = NoCache
    BY Zenon DEF Init
  <2>2. WayOf(conns, r) = {} /\ RoundsOf(queue[r], r) = {}
    BY Zenon, <2>1, RequestInit DEF RequestInv, RequestAt, RoundAt
  <2>3. ~Poisoned(queue[r])
    BY <2>1 DEF Poisoned
  <2> QED BY Zenon, <2>1, <2>2, <2>3 DEF Waited, Dropped
<1> QED BY Zenon, <1>1, <1>2, <1>3 DEF CalmInv

\* When nothing has crashed or been suspected and nothing is left to do, no stage
\* still holds a cache of a finished request. The EndRequest that _broadcast_end
\* writes travels behind the rounds of its request and reaches every stage; if
\* a stage raises on the way, its request waits and the system is not at rest.
THEOREM PipelineCachesDropped == Spec => []CachesDropped
<1>1. RequestInv /\ UpInv /\ CalmInv /\ [Next]_vars => UpInv' /\ CalmInv'
  BY Zenon, CalmStep, UpStep DEF RequestInv
<1>2. RequestInv /\ CalmInv => CachesDropped
  <2> SUFFICES ASSUME RequestInv, CalmInv, Quiet, Calm, NEW n \in Node, NEW r \in Req,
                      cache[n][r] # NoCache
               PROVE  FALSE
    BY Zenon DEF CachesDropped, Calm
  <2>1. \A s \in Req : pc[s] = "done"
    BY Zenon DEF Quiet
  <2>2. Dropped(r)
    BY Zenon, <2>1 DEF CalmInv, Stuck
  <2>3. n # head
    BY Zenon, <2>1 DEF RequestInv, RequestAt, HeadAt
  <2>4. EndBefore(n, r)
    BY Zenon, <2>1, <2>2, <2>3 DEF Dropped
  <2>5. PICK m \in Node : Carries(conns[m], End(r))
    BY Zenon, <2>4 DEF EndBefore
  <2>6. PICK i \in DOMAIN conns[m] : \E j \in 1..Len(conns[m][i].q) : TRUE
    BY Zenon, <2>5 DEF Carries
  <2>7. conns[m][i].q = <<>>
    BY Zenon, <2>6 DEF Quiet
  <2> QED BY <2>6, <2>7
<1> QED BY <1>1, <1>2, CalmInit, PipelineRequests, PTL DEF Spec

-----------------------------------------------------------------------------
(* The tokens *)

\* An EndRequest is sent only when the thread has ended its loop.
EndInv ==
  \A n \in Node : \A p \in Places(conns[n]) :
    Msg(conns[n], p).t = "end" => pc[Msg(conns[n], p).r] \in {"release", "done"}

\* A message on a connection has the type of what its stage sends.
LEMMA MsgTyped ==
  ASSUME TypeOK, NEW n \in Node, NEW p \in Places(conns[n])
  PROVE  Msg(conns[n], p) \in Sent(n) /\ Msg(conns[n], p).r \in Req
<1>1. p[1] \in DOMAIN conns[n] /\ p[2] \in 1..Len(conns[n][p[1]].q)
  BY Zenon, PlacePair
<1>2. conns[n][p[1]] \in [q : Seq(Sent(n)), read : BOOLEAN]
  BY Zenon, <1>1, ConnsTyped DEF Connections
<1>3. Msg(conns[n], p) \in Sent(n)
  BY <1>1, <1>2 DEF Msg
<1> QED BY Zenon, <1>3, MessageKinds

\* A step that writes an EndRequest only for a thread that has ended its loop.
LEMMA EndCarried ==
  ASSUME TypeOK, EndInv, NEW a, NEW N, NEW u, NEW X, Carry(a, N, u, X),
         \A m \in N : m.t = "end" => pc'[m.r] \in {"release", "done"},
         \A r \in Req : pc[r] \in {"release", "done"} => pc'[r] \in {"release", "done"}
  PROVE  EndInv'
<1> SUFFICES ASSUME NEW n \in Node, NEW p \in Places(conns'[n]), Msg(conns'[n], p).t = "end"
             PROVE  pc'[Msg(conns'[n], p).r] \in {"release", "done"}
  BY Zenon DEF EndInv
<1>1. CASE Msg(conns'[n], p) \in N
  BY Zenon, <1>1
<1>2. ASSUME NEW o \in Places(conns[n]), Msg(conns'[n], p) = Msg(conns[n], o)
      PROVE  pc'[Msg(conns'[n], p).r] \in {"release", "done"}
  <2>1. Msg(conns[n], o).r \in Req
    BY Zenon, MsgTyped
  <2> QED BY Zenon, <1>2, <2>1 DEF EndInv
<1> QED BY <1>1, <1>2, Origin

\* A thread that has ended its loop does not start another round.
LEMMA DoneStep ==
  ASSUME TypeOK, [Next]_vars, NEW r \in Req, pc[r] \in {"release", "done"}
  PROVE  pc'[r] \in {"release", "done"}
<1>1. CASE Handled(r) \/ Wakes(r)
  BY Zenon, <1>1 DEF Handled, Aside, Arrives, Strikes, Wakes, ThreadSame
<1>2. CASE Request(r)
  <2>1. pc \in [Req -> {"new", "checked", "prefill", "waiting", "step", "finish",
                        "release", "aborted", "closed", "done", "raised"}]
    BY Zenon DEF TypeOK
  <2> QED BY Zenon, <1>2, <2>1
          DEF Request, BeginCheck, BeginRegister, Prefill, PrefillFails, Decode, DecodeStep,
              DecodeFails, Finish, Release, Hangup, EndAborted, At
<1> QED BY Zenon, <1>1, <1>2, StepKinds

\* Every step keeps it.
LEMMA EndStep ==
  ASSUME TypeOK, EndInv, [Next]_vars
  PROVE  EndInv'
<1>0. \A r \in Req : pc[r] \in {"release", "done"} => pc'[r] \in {"release", "done"}
  BY Zenon, DoneStep
<1>1. ASSUME NEW a, NEW u, NEW X, Carry(a, {}, u, X) PROVE EndInv'
  BY <1>0, <1>1, EndCarried
<1>2. ASSUME NEW a, NEW m, NEW u, NEW X, Carry(a, {m}, u, X), m.t # "end" PROVE EndInv'
  BY Zenon, <1>0, <1>2, EndCarried
<1>3. ASSUME NEW a, NEW u, NEW X, NEW r, Carry(a, {End(r)}, u, X), pc'[r] \in {"release", "done"}
      PROVE  EndInv'
  <2>1. \A m \in {End(r)} : m.t = "end" => pc'[m.r] \in {"release", "done"}
    BY <1>3 DEF End
  <2> QED BY Zenon, <1>0, <1>3, <2>1, EndCarried
<1>4. ASSUME conns' = conns PROVE EndInv'
  BY Zenon, <1>1, <1>4, SameCarry
<1>5. ASSUME NEW r \in Req, Request(r) PROVE EndInv'
  <2>0. pc \in [Req -> {"new", "checked", "prefill", "waiting", "step", "finish",
                        "release", "aborted", "closed", "done", "raised"}] /\ head \in Node
    BY Zenon, PipelineAssumption DEF TypeOK, head, Node
  <2>1. CASE Finish(r) \/ EndAborted(r)
    <3>1. BroadcastEnd(r) /\ pc'[r] \in {"release", "done"}
      BY Zenon, <2>0, <2>1 DEF Finish, EndAborted, At
    <3>2. Carry(head, {End(r)}, head, {})
      BY Zenon, <3>1, BroadcastCarry
    <3> QED BY Zenon, <1>3, <3>1, <3>2
  <2>2. CASE \E w \in Forward(r) : conns' = [conns EXCEPT ![head] = w.c]
    <3>1. Carry(head, {Started(r)}, head, {})
      BY Zenon, <2>2, ForwardCarry
    <3>2. Started(r).t # "end"
      BY Zenon DEF Started, Activation
    <3> QED BY Zenon, <1>2, <3>1, <3>2
  <2>3. CASE conns' = [conns EXCEPT ![head] = CloseOutbound(@)]
    BY Zenon, <1>1, <2>0, <2>3, CloseCarry
  <2> QED BY Zenon, <1>4, <1>5, <2>1, <2>2, <2>3
          DEF Request, BeginCheck, BeginRegister, Prefill, PrefillFails, Decode, DecodeStep,
              DecodeFails, Release, Hangup, Abort
<1>6. ASSUME NEW r \in Req, ClientGone(r) PROVE EndInv'
  BY Zenon, <1>4, <1>6 DEF ClientGone
<1>7. ASSUME NEW n \in Node, NEW i, Connection(n, i) PROVE EndInv'
  <2> DEFINE m == Message(n, i)
  <2>1. CASE HandleActivation(n, i)
    <3>1. Carry(n, {Out(n, m, m.right /\ Held(n, m.r) = m.k)}, Upstream(n), {<<i, 1>>})
      BY Zenon, <2>1, ActivationCarry
    <3>2. Out(n, m, m.right /\ Held(n, m.r) = m.k).t # "end"
      BY Zenon DEF Out, Activation, SampledToken
    <3> QED BY Zenon, <1>2, <3>1, <3>2
  <2>2. CASE RejectActivation(n, i)
    <3>1. \/ Carry(n, {}, Upstream(n), {<<i, 1>>})
          \/ Carry(n, {Error(m.r)}, Upstream(n), {<<i, 1>>})
      BY Zenon, <2>2, RejectCarry
    <3>2. Error(m.r).t # "end"
      BY Zenon DEF Error
    <3> QED BY Zenon, <1>1, <1>2, <3>1, <3>2
  <2>3. CASE FailActivation(n, i) \/ HandleSampledToken(n, i) \/ HandleUpstreamError(n, i)
    <3>1. Carry(n, {}, Upstream(n), {<<i, 1>>})
      BY Zenon, <2>3, FailCarry, TokenCarry, ErrorCarry
    <3> QED BY Zenon, <1>1, <3>1
  <2>4. CASE HandleEnd(n, i)
    <3>1. /\ m = End(m.r) /\ Pending(n, i) /\ m.r \in Req /\ pc' = pc
          /\ \/ Carry(n, {}, Upstream(n), {<<i, 1>>})
             \/ Carry(n, {End(m.r)}, Upstream(n), {<<i, 1>>})
      BY Zenon, <2>4, EndCarry DEF threads
    <3>2. Upstream(n) \in Node /\ <<i, 1>> \in Places(conns[Upstream(n)])
          /\ m = Msg(conns[Upstream(n)], <<i, 1>>)
      BY Zenon, <3>1, PendingFacts
    <3>3. m.t = "end"
      BY Zenon, <2>4 DEF HandleEnd
    <3>4. pc'[m.r] \in {"release", "done"}
      BY Zenon, <3>1, <3>2, <3>3 DEF EndInv
    <3> QED BY Zenon, <1>1, <1>3, <3>1, <3>4
  <2> QED BY Zenon, <1>7, <2>1, <2>2, <2>3, <2>4 DEF Connection
<1>8. ASSUME NEW n \in Node, NEW p \in Watched(n), Membership(n, p) PROVE EndInv'
  BY Zenon, <1>1, <1>8, MembershipCarry
<1>9. ASSUME NEW n \in Node, Crash(n) PROVE EndInv'
  BY Zenon, <1>1, <1>9, CrashCarry DEF Crash
<1>10. ASSUME NEW n \in Node, Restart(n) PROVE EndInv'
  BY Zenon, <1>4, <1>10 DEF Restart
<1>11. ASSUME UNCHANGED vars PROVE EndInv'
  BY Zenon, <1>4, <1>11 DEF vars
<1> QED BY Zenon, <1>5, <1>6, <1>7, <1>8, <1>9, <1>10, <1>11 DEF Next, Serve

\* The running stages up to a have computed the round, and those after it hold
\* exactly the rounds before it.
Before(x, k) == x = k \/ (k = 0 /\ x = NoCache)
Ready(r, a) ==
  \A n \in up \ {head} : IF n <= a THEN cache[n][r] = generated[r] + 1
                                   ELSE Before(cache[n][r], generated[r])

\* A message of round k, computed from full caches; all that is under way of r,
\* or in its queue, is right, and the stages up to it have computed the round
IsRight(m, k) == m.t \in {"activation", "sampled_token"} => m.k = k /\ m.right
RightWay(r) ==
  \A z \in WayOf(conns, r) : Msg(conns[z[1]], z[2]).t # "error" =>
    IsRight(Msg(conns[z[1]], z[2]), generated[r]) /\ Ready(r, z[1])
RightQueue(q, r) == \A j \in RoundsOf(q, r) : q[j].right

\* The caches of the stages agree with where the round of r is.
RightAt(r) ==
  /\ pc[r] = "waiting" =>
       /\ RightWay(r) /\ RightQueue(queue[r], r)
       /\ RoundsOf(queue[r], r) # {} => Ready(r, tail)
  /\ pc[r] \in {"new", "checked", "prefill", "step"} => Ready(r, 0)

\* A round of r that is under way was under way before.
LEMMA WayOrigin ==
  ASSUME NEW a, NEW N, NEW u, NEW X, Carry(a, N, u, X), NEW r,
         \A m \in N : ~OfRound(m, r), NEW z \in WayOf(conns', r)
  PROVE  \E o : /\ <<z[1], o>> \in WayOf(conns, r)
                /\ Msg(conns'[z[1]], z[2]) = Msg(conns[z[1]], o)
<1>1. /\ z[1] \in Node /\ z[2] \in Places(conns'[z[1]])
      /\ OfRound(Msg(conns'[z[1]], z[2]), r)
  BY Zenon, WayPair
<1>2. PICK o \in Places(conns[z[1]]) : Msg(conns'[z[1]], z[2]) = Msg(conns[z[1]], o)
  BY <1>1, Origin
<1> QED BY Zenon, <1>1, <1>2, WayDef

\* The caches of the running stages stay.
LEMMA ReadySame ==
  ASSUME NEW r, NEW a, Ready(r, a), generated'[r] = generated[r], up' \subseteq up,
         \A n \in up' \ {head} : cache'[n][r] = cache[n][r]
  PROVE  Ready(r, a)'
BY Zenon DEF Ready

\* A right token, or the poison, is put in the queue.
LEMMA RightAppend ==
  ASSUME NEW q \in Seq(SampledTokens \cup {Poison}), NEW x \in SampledTokens \cup {Poison}, NEW r,
         RightQueue(q, r), x = Poison \/ x.right
  PROVE  RightQueue(Append(q, x), r)
<1>1. /\ DOMAIN Append(q, x) = DOMAIN q \cup {Len(q) + 1} /\ Append(q, x)[Len(q) + 1] = x
      /\ \A j \in DOMAIN q : Append(q, x)[j] = q[j]
  OBVIOUS
<1>2. ~OfRound(Poison, r)
  BY Zenon DEF OfRound, Poison
<1> DEFINE d == Append(q, x)
           l == Len(q) + 1
<1>3. DOMAIN d = DOMAIN q \cup {l} /\ d[l] = x /\ \A j \in DOMAIN q : d[j] = q[j]
  BY Zenon, <1>1
<1> HIDE DEF d, l, Poison
<1>4. ASSUME NEW j \in RoundsOf(d, r) PROVE d[j].right
  <2>1. j \in DOMAIN d /\ OfRound(d[j], r)
    BY Zenon DEF RoundsOf
  <2>2. CASE j = l
    BY Zenon, <1>2, <1>3, <2>1, <2>2
  <2>3. CASE j \in DOMAIN q
    BY Zenon, <1>3, <2>1, <2>3 DEF RightQueue, RoundsOf
  <2> QED BY Zenon, <1>3, <2>1, <2>2, <2>3
<1> QED BY Zenon, <1>4 DEF RightQueue, d

\* Nothing of r is written, and its caches stay.
LEMMA RightQuiet ==
  ASSUME TypeOK, NEW r \in Req, RightAt(r), NEW a, NEW N, NEW u, NEW X, Carry(a, N, u, X),
         \A m \in N : ~OfRound(m, r),
         pc'[r] = pc[r], generated'[r] = generated[r], up' \subseteq up,
         \A n \in up' \ {head} : cache'[n][r] = cache[n][r],
         queue'[r] = queue[r] \/ queue'[r] = Append(queue[r], Poison)
  PROVE  RightAt(r)'
<1>0. queue[r] \in Seq(SampledTokens \cup {Poison})
  BY Zenon DEF TypeOK
<1>1. \A k : Ready(r, k) => Ready(r, k)'
  BY Zenon, ReadySame
<1>2. ASSUME pc'[r] = "waiting" PROVE RightWay(r)'
  <2> SUFFICES ASSUME NEW z \in WayOf(conns', r), Msg(conns'[z[1]], z[2]).t # "error"
               PROVE  IsRight(Msg(conns'[z[1]], z[2]), generated'[r]) /\ Ready(r, z[1])'
    BY Zenon DEF RightWay
  <2>1. PICK o : /\ <<z[1], o>> \in WayOf(conns, r)
                 /\ Msg(conns'[z[1]], z[2]) = Msg(conns[z[1]], o)
    BY Zenon, WayOrigin
  <2>2. RightWay(r)
    BY Zenon, <1>2 DEF RightAt
  <2>3. <<z[1], o>>[1] = z[1] /\ <<z[1], o>>[2] = o
    BY Zenon
  <2>4. IsRight(Msg(conns[z[1]], o), generated[r]) /\ Ready(r, z[1])
    BY Zenon, <2>1, <2>2, <2>3 DEF RightWay
  <2> QED BY Zenon, <1>1, <2>1, <2>4 DEF IsRight
<1>3. /\ RightQueue(queue[r], r) => RightQueue(queue'[r], r)
      /\ RoundsOf(queue'[r], r) = RoundsOf(queue[r], r)
  BY Zenon, <1>0, QueueFacts, RightAppend
<1> QED BY Zenon, <1>1, <1>2, <1>3 DEF RightAt

\* All that was under way of r is taken, and m written instead.
LEMMA RightMoved ==
  ASSUME NEW r \in Req, NEW a, NEW m, NEW u, NEW X, Carry(a, {m}, u, X),
         WayOf(conns, r) \subseteq {u} \X X, RoundsOf(queue'[r], r) = {},
         pc'[r] \notin {"new", "checked", "prefill", "step"},
         pc'[r] = "waiting" /\ m.t # "error" => IsRight(m, generated'[r]) /\ Ready(r, a)'
  PROVE  RightAt(r)'
<1>1. AllAt(conns', r, a, m)
  BY Zenon, WayMoved
<1>2. ASSUME pc'[r] = "waiting" PROVE RightWay(r)'
  BY Zenon, <1>1, <1>2 DEF RightWay, AllAt
<1> QED BY Zenon, <1>2 DEF RightAt, RightQueue

\* A round starts with the caches of all stages behind it.
LEMMA RightStart ==
  ASSUME TypeOK, CountInv, NEW r \in Req, RequestAt(r), RightAt(r), pc[r] \in {"prefill", "step"},
         Carry(head, {Started(r)}, head, {}), pc'[r] \in {"waiting", "raised"},
         generated'[r] = generated[r], queue'[r] = queue[r], up' = up,
         \A n \in Node \ {head} : cache'[n] = cache[n]
  PROVE  RightAt(r)'
<1> DEFINE m == Started(r)
<1>1. WayOf(conns, r) = {} /\ RoundsOf(queue'[r], r) = {}
  BY Zenon DEF RequestAt, RoundAt
<1>2. cache[head][r] = generated[r]
  BY Zenon DEF RequestAt, HeadAt, CountInv
<1>3. IsRight(m, generated'[r])
  BY Zenon, <1>2 DEF IsRight, Started, Activation
<1>4. Ready(r, head)'
  <2>1. Ready(r, 0)
    BY Zenon DEF RightAt
  <2>2. \A n \in up' \ {head} : cache'[n][r] = cache[n][r]
    BY Zenon DEF TypeOK
  <2> QED BY Zenon, <2>1, <2>2, ReadySame DEF head
<1>5. WayOf(conns, r) \subseteq {head} \X {}
  BY Zenon, <1>1
<1> HIDE DEF m
<1>6. Carry(head, {m}, head, {})
  BY Zenon DEF m
<1> QED BY Zenon, <1>1, <1>3, <1>4, <1>5, <1>6, RightMoved

\* The thread takes a token: it is right, and every stage has computed the round.
LEMMA RightDeliver ==
  ASSUME TypeOK, NEW r \in Req, RequestAt(r), RightAt(r), pc[r] = "waiting",
         queue[r] # <<>>, queue[r][1] # Poison, pc'[r] \in {"step", "finish", "aborted"},
         generated'[r] = generated[r] + 1, cache' = cache \/ pc'[r] # "step", up' = up
  PROVE  queue[r][1].right /\ RightAt(r)'
<1>0. /\ queue[r] \in Seq(SampledTokens \cup {Poison})
      /\ generated[r] \in Nat /\ up \subseteq Node
  BY DEF TypeOK
<1>1. 1 \in RoundsOf(queue[r], r)
  BY Zenon, <1>0, TailFacts DEF RequestAt, RoundAt
<1>2. queue[r][1].right /\ Ready(r, tail)
  BY Zenon, <1>1 DEF RightAt, RightQueue
<1>3. ASSUME pc'[r] = "step" PROVE Ready(r, 0)'
  <2> SUFFICES ASSUME NEW n \in up \ {head}
               PROVE  ~(n <= 0) /\ Before(cache[n][r], generated[r] + 1)
    BY Zenon, <1>3 DEF Ready
  <2>1. n \in Int /\ n <= tail /\ ~(n <= 0)
    BY <1>0, PipelineAssumption DEF Node, tail, head
  <2>2. cache[n][r] = generated[r] + 1
    BY Zenon, <1>2, <2>1 DEF Ready
  <2> QED BY Zenon, <2>1, <2>2 DEF Before
<1> QED BY Zenon, <1>2, <1>3 DEF RightAt

\* Every step of its own thread keeps RightAt.
LEMMA RightOwn ==
  ASSUME TypeOK, CountInv, NEW r \in Req, RequestAt(r), RightAt(r), Request(r)
  PROVE  RightAt(r)'
<1>0. /\ pc \in [Req -> {"new", "checked", "prefill", "waiting", "step", "finish",
                         "release", "aborted", "closed", "done", "raised"}]
      /\ DOMAIN cache = Node /\ head \in Node /\ DOMAIN generated = Req
  BY Zenon, PipelineAssumption DEF TypeOK, head, Node
<1>1. up' = up /\ \A n \in Node \ {head} : cache'[n] = cache[n]
  BY Zenon, <1>0 DEF Request, BeginCheck, BeginRegister, Prefill, PrefillFails, Decode, DecodeStep,
              DecodeFails, Finish, Release, Hangup, EndAborted, Abort, DropCache, Grow, BroadcastEnd
<1>2. ASSUME pc'[r] \in {"done", "aborted", "closed", "finish", "release", "raised"}
      PROVE  RightAt(r)'
  BY Zenon, <1>2 DEF RightAt
<1>3. ASSUME BeginCheck(r) \/ BeginRegister(r) PROVE RightAt(r)'
  <2>1. /\ pc'[r] \in {"done", "checked", "prefill"} /\ pc[r] \in {"new", "checked"}
        /\ generated' = generated
    BY Zenon, <1>0, <1>3 DEF BeginCheck, BeginRegister, At
  <2>2. Ready(r, 0)
    BY Zenon, <2>1 DEF RightAt
  <2>3. \A n \in up' \ {head} : cache'[n][r] = cache[n][r]
    BY Zenon, <1>1 DEF TypeOK
  <2>4. Ready(r, 0)'
    BY Zenon, <1>1, <2>1, <2>2, <2>3, ReadySame
  <2> QED BY Zenon, <2>1, <2>4 DEF RightAt
<1>4. ASSUME Prefill(r) PROVE RightAt(r)'
  <2>1. /\ pc[r] = "prefill" /\ pc'[r] \in {"waiting", "raised"}
        /\ generated' = generated /\ queue' = queue
    BY Zenon, <1>0, <1>4 DEF Prefill, At
  <2>2. Carry(head, {Started(r)}, head, {})
    BY Zenon, <1>4, ForwardCarry DEF Prefill
  <2> QED BY Zenon, <1>1, <2>1, <2>2, RightStart
<1>5. ASSUME DecodeStep(r) PROVE RightAt(r)'
  <2>1. /\ pc[r] = "step" /\ pc'[r] \in {"waiting", "raised", "aborted"}
        /\ generated' = generated /\ queue' = queue
    BY Zenon, <1>0, <1>5 DEF DecodeStep, Abort, At
  <2>2. pc'[r] = "waiting" => Carry(head, {Started(r)}, head, {})
    <3>1. pc'[r] = "waiting" => \E w \in Forward(r) : conns' = [conns EXCEPT ![head] = w.c]
      BY Zenon, <1>0, <1>5 DEF DecodeStep, Abort, At
    <3> QED BY Zenon, <3>1, ForwardCarry
  <2> QED BY Zenon, <1>1, <1>2, <2>1, <2>2, RightStart
<1>6. ASSUME Decode(r) PROVE RightAt(r)'
  <2>1. pc[r] = "waiting" /\ queue[r] # <<>> /\ pc'[r] \in {"step", "finish", "aborted"}
    BY Zenon, <1>0, <1>6 DEF Decode, Abort, At
  <2>2. CASE pc'[r] = "step"
    <3>1. queue[r][1] # Poison /\ generated'[r] = generated[r] + 1 /\ cache' = cache
      BY Zenon, <1>0, <1>6, <2>2 DEF Decode, Abort, At
    <3> QED BY Zenon, <1>1, <2>1, <3>1, RightDeliver
  <2> QED BY Zenon, <1>2, <2>1, <2>2
<1>7. ASSUME \/ PrefillFails(r) \/ DecodeFails(r) \/ Finish(r) \/ Release(r) \/ Hangup(r)
             \/ EndAborted(r)
      PROVE  RightAt(r)'
  <2>1. pc'[r] \in {"done", "aborted", "closed", "release"}
    BY Zenon, <1>0, <1>7 DEF PrefillFails, DecodeFails, Finish, Release, Hangup, EndAborted, Abort, At
  <2> QED BY Zenon, <1>2, <2>1
<1> QED BY Zenon, <1>3, <1>4, <1>5, <1>6, <1>7 DEF Request

\* Nothing of r is under way.
LEMMA RightGone ==
  ASSUME NEW r \in Req, WayOf(conns', r) = {}, RoundsOf(queue'[r], r) = {},
         pc'[r] \notin {"new", "checked", "prefill", "step"}
  PROVE  RightAt(r)'
BY Zenon DEF RightAt, RightWay, RightQueue

\* The message that a connection's thread takes
LEMMA RightTaken ==
  ASSUME TypeOK, NEW n \in Node, NEW i, Pending(n, i), NEW r \in Req, OfRound(Message(n, i), r),
         RequestAt(r), RightAt(r)
  PROVE  /\ pc[r] \notin {"new", "checked", "prefill", "step"}
         /\ RoundsOf(queue[r], r) = {} /\ One(WayOf(conns, r))
         /\ WayOf(conns, r) \subseteq {Upstream(n)} \X {<<i, 1>>}
         /\ pc[r] = "waiting" /\ Message(n, i).t # "error" =>
               IsRight(Message(n, i), generated[r]) /\ Ready(r, Upstream(n))
<1>1. /\ WayOf(conns, r) # {} /\ One(WayOf(conns, r))
      /\ WayOf(conns, r) \subseteq {Upstream(n)} \X {<<i, 1>>}
  BY Zenon, TakenWay DEF RequestAt, RoundAt
<1>2. pc[r] \notin {"new", "checked", "prefill", "step"} /\ RoundsOf(queue[r], r) = {}
  BY Zenon, <1>1 DEF RequestAt, RoundAt
<1> DEFINE z == <<Upstream(n), <<i, 1>>>>
<1>3. z \in WayOf(conns, r) /\ Message(n, i) = Msg(conns[Upstream(n)], <<i, 1>>)
  BY Zenon, PendingFacts, WayDef
<1>4. z[1] = Upstream(n) /\ z[2] = <<i, 1>>
  BY Zenon
<1> HIDE DEF z
<1>5. ASSUME pc[r] = "waiting", Message(n, i).t # "error"
      PROVE  IsRight(Message(n, i), generated[r]) /\ Ready(r, Upstream(n))
  <2>1. RightWay(r)
    BY Zenon, <1>5 DEF RightAt
  <2> QED BY Zenon, <1>3, <1>4, <1>5, <2>1 DEF RightWay
<1> QED BY Zenon, <1>1, <1>2, <1>5

\* The stage n computes the round.
LEMMA RightComputed ==
  ASSUME TypeOK, NEW n \in Node, NEW r \in Req, n \in up, n # head, Ready(r, n - 1),
         cache' = [cache EXCEPT ![n][r] = Held(n, r) + 1], up' = up, generated'[r] = generated[r]
  PROVE  Held(n, r) = generated[r] /\ Ready(r, n)'
<1>0. /\ generated[r] \in Nat /\ n \in Int /\ up \subseteq Node /\ DOMAIN cache = Node
      /\ \A k \in Node : DOMAIN cache[k] = Req
  BY NodeFacts DEF TypeOK
<1>1. Before(cache[n][r], generated[r])
  BY <1>0 DEF Ready
<1>2. Held(n, r) = generated[r]
  BY <1>0, <1>1 DEF Before, Held, NoCache
<1>3. cache'[n][r] = generated[r] + 1 /\ \A k \in Node : k # n => cache'[k] = cache[k]
  BY Zenon, <1>0, <1>2
<1>4. ASSUME NEW k \in up \ {head}
      PROVE  IF k <= n THEN cache'[k][r] = generated[r] + 1 ELSE Before(cache'[k][r], generated[r])
  <2>1. k \in Int /\ k \in Node
    BY <1>0 DEF Node
  <2>2. CASE k = n
    BY <1>3, <2>1, <2>2
  <2>3. CASE k # n
    <3>1. k <= n <=> k <= n - 1
      BY <1>0, <2>1, <2>3
    <3>2. cache'[k] = cache[k]
      BY Zenon, <1>3, <2>1, <2>3
    <3> QED BY Zenon, <3>1, <3>2 DEF Ready
  <2> QED BY Zenon, <2>2, <2>3
<1> QED BY Zenon, <1>2, <1>4 DEF Ready

\* _handle_activation passes on a right round as a right one.
LEMMA RightActivation ==
  ASSUME TypeOK, NEW n \in Node, NEW i, HandleActivation(n, i), NEW r \in Req,
         RequestAt(r), RightAt(r)
  PROVE  RightAt(r)'
<1> DEFINE m == Message(n, i)
           o == Out(n, m, m.right /\ Held(n, m.r) = m.k)
<1>0. /\ n # head /\ m \in Activations /\ Pending(n, i) /\ n \in up
      /\ cache' = [cache EXCEPT ![n][m.r] = Held(n, m.r) + 1]
      /\ Carry(n, {o}, Upstream(n), {<<i, 1>>})
      /\ pc' = pc /\ generated' = generated /\ queue' = queue /\ up' = up
  BY Zenon, ActivationCarry, PendingFacts DEF threads
<1>1. CASE m.r # r
  <2>1. \A k \in up' \ {head} : cache'[k][r] = cache[k][r]
    BY Zenon, <1>0, <1>1 DEF TypeOK
  <2>2. ~OfRound(o, r)
    BY Zenon, <1>1, OutRound
  <2> HIDE DEF o
  <2> QED BY Zenon, <1>0, <2>1, <2>2, RightQuiet
<1>2. CASE m.r = r
  <2>1. OfRound(m, r)
    BY Zenon, <1>0, <1>2, RoundKinds
  <2>2. /\ pc[r] \notin {"new", "checked", "prefill", "step"}
        /\ RoundsOf(queue[r], r) = {}
        /\ WayOf(conns, r) \subseteq {Upstream(n)} \X {<<i, 1>>}
        /\ pc[r] = "waiting" /\ m.t # "error" => IsRight(m, generated[r]) /\ Ready(r, Upstream(n))
    BY Zenon, <1>0, <2>1, RightTaken
  <2>3. ASSUME pc[r] = "waiting" PROVE IsRight(o, generated'[r]) /\ Ready(r, n)'
    <3>1. m.t = "activation"
      BY Zenon, <1>0 DEF Activations
    <3>2. m.k = generated[r] /\ m.right /\ Ready(r, n - 1)
      BY Zenon, <1>0, <2>2, <2>3, <3>1, NodeFacts DEF IsRight
    <3>3. Held(n, r) = generated[r] /\ Ready(r, n)'
      BY Zenon, <1>0, <1>2, <3>2, RightComputed
    <3>4. o.k = generated[r] /\ o.right
      BY Zenon, <1>2, <3>2, <3>3 DEF Out, Activation, SampledToken
    <3> QED BY Zenon, <1>0, <3>3, <3>4 DEF IsRight
  <2> HIDE DEF o
  <2> QED BY Zenon, <1>0, <2>2, <2>3, RightMoved
<1> QED BY Zenon, <1>1, <1>2

\* The thread of a connection keeps RightAt.
LEMMA RightConnection ==
  ASSUME TypeOK, EndInv, NEW n \in Node, NEW i, Connection(n, i), NEW r \in Req,
         RequestAt(r), RightAt(r)
  PROVE  RightAt(r)'
<1> DEFINE m == Message(n, i)
<1>0. /\ DOMAIN cache = Node /\ (\A k \in Node : DOMAIN cache[k] = Req) /\ DOMAIN queue = Req
      /\ up \subseteq Node /\ queue[r] \in Seq(SampledTokens \cup {Poison})
  BY Zenon DEF TypeOK
<1>1. ASSUME HandleActivation(n, i) PROVE RightAt(r)'
  BY Zenon, <1>1, RightActivation
<1>2. ASSUME m \in Activations, Pending(n, i), Carry(n, {}, Upstream(n), {<<i, 1>>}),
             pc' = pc, generated' = generated, queue' = queue, up' = up,
             cache' = cache \/ DropCache(n, m.r)
      PROVE  RightAt(r)'
  <2>1. CASE m.r # r
    <3>1. \A k \in up' \ {head} : cache'[k][r] = cache[k][r]
      BY <1>0, <1>2, <2>1 DEF DropCache
    <3> QED BY <1>2, <3>1, RightQuiet
  <2>2. CASE m.r = r
    <3>1. OfRound(m, r)
      BY Zenon, <1>2, <2>2, RoundKinds
    <3>2. /\ pc[r] \notin {"new", "checked", "prefill", "step"}
          /\ RoundsOf(queue[r], r) = {} /\ One(WayOf(conns, r))
      BY Zenon, <1>2, <3>1, RightTaken
    <3>3. WayOf(conns', r) = {}
      BY Zenon, <1>2, <3>1, <3>2, TakenEnds DEF WayEnds
    <3> QED BY Zenon, <1>2, <3>2, <3>3, RightGone
  <2> QED BY Zenon, <2>1, <2>2
<1>3. ASSUME RejectActivation(n, i) PROVE RightAt(r)'
  <2>1. /\ m \in Activations /\ Pending(n, i)
        /\ \/ Carry(n, {}, Upstream(n), {<<i, 1>>})
           \/ Carry(n, {Error(m.r)}, Upstream(n), {<<i, 1>>})
        /\ pc' = pc /\ generated' = generated /\ queue' = queue /\ up' = up /\ cache' = cache
    BY Zenon, <1>3, RejectCarry DEF threads
  <2>2. CASE Carry(n, {}, Upstream(n), {<<i, 1>>})
    BY Zenon, <1>2, <2>1, <2>2
  <2>3. CASE Carry(n, {Error(m.r)}, Upstream(n), {<<i, 1>>}) /\ m.r # r
    <3>1. ~OfRound(Error(m.r), r)
      BY Zenon, <2>3 DEF OfRound, Error
    <3> QED BY Zenon, <2>1, <2>3, <3>1, RightQuiet
  <2>4. CASE Carry(n, {Error(m.r)}, Upstream(n), {<<i, 1>>}) /\ m.r = r
    <3>1. OfRound(m, r)
      BY Zenon, <2>1, <2>4, RoundKinds
    <3>2. /\ pc[r] \notin {"new", "checked", "prefill", "step"}
          /\ RoundsOf(queue[r], r) = {}
          /\ WayOf(conns, r) \subseteq {Upstream(n)} \X {<<i, 1>>}
      BY Zenon, <2>1, <3>1, RightTaken
    <3>3. Error(m.r).t = "error"
      BY Zenon DEF Error
    <3> QED BY Zenon, <2>1, <2>4, <3>2, <3>3, RightMoved
  <2> QED BY Zenon, <2>1, <2>2, <2>3, <2>4
<1>4. ASSUME FailActivation(n, i) PROVE RightAt(r)'
  <2>1. /\ m \in Activations /\ Pending(n, i) /\ Carry(n, {}, Upstream(n), {<<i, 1>>})
        /\ DropCache(n, m.r)
        /\ pc' = pc /\ generated' = generated /\ queue' = queue /\ up' = up
    BY Zenon, <1>4, FailCarry DEF threads
  <2> QED BY Zenon, <1>2, <2>1
<1>5. ASSUME HandleSampledToken(n, i) PROVE RightAt(r)'
  <2>1. /\ Upstream(n) = tail /\ m \in SampledTokens /\ Pending(n, i)
        /\ Carry(n, {}, Upstream(n), {<<i, 1>>})
        /\ queue' = (IF m.r \in states THEN [queue EXCEPT ![m.r] = Append(@, m)] ELSE queue)
        /\ pc' = pc /\ generated' = generated /\ cache' = cache /\ up' = up
    BY Zenon, <1>5, TokenCarry
  <2>2. CASE queue'[r] = queue[r]
    BY <2>1, <2>2, RightQuiet
  <2>3. CASE queue'[r] # queue[r]
    <3>1. m.r = r /\ queue'[r] = Append(queue[r], m)
      BY Zenon, <1>0, <2>1, <2>3
    <3>2. OfRound(m, r)
      BY Zenon, <2>1, <3>1, RoundKinds
    <3>3. /\ pc[r] \notin {"new", "checked", "prefill", "step"}
          /\ RoundsOf(queue[r], r) = {} /\ One(WayOf(conns, r))
          /\ pc[r] = "waiting" /\ m.t # "error" => IsRight(m, generated[r]) /\ Ready(r, Upstream(n))
      BY Zenon, <2>1, <3>2, RightTaken
    <3>4. WayOf(conns', r) = {}
      BY Zenon, <2>1, <3>2, <3>3, TakenEnds DEF WayEnds
    <3>5. ASSUME pc[r] = "waiting" PROVE RightQueue(queue'[r], r) /\ Ready(r, tail)'
      <4>1. m.t = "sampled_token"
        BY Zenon, <2>1 DEF SampledTokens
      <4>2. m.right /\ Ready(r, tail)
        BY Zenon, <2>1, <3>3, <3>5, <4>1 DEF IsRight
      <4>3. RightQueue(queue[r], r)
        BY Zenon, <3>3 DEF RightQueue
      <4>4. RightQueue(queue'[r], r)
        BY Zenon, <1>0, <2>1, <3>1, <4>2, <4>3, RightAppend
      <4>5. Ready(r, tail)'
        BY Zenon, <2>1, <4>2, ReadySame
      <4> QED BY Zenon, <4>4, <4>5
    <3> QED BY Zenon, <2>1, <3>3, <3>4, <3>5 DEF RightAt, RightWay
  <2> QED BY Zenon, <2>2, <2>3
<1>6. ASSUME HandleUpstreamError(n, i) PROVE RightAt(r)'
  <2>1. /\ Carry(n, {}, Upstream(n), {<<i, 1>>}) /\ m.r \in Req
        /\ queue' = queue \/ queue' = [queue EXCEPT ![m.r] = Append(@, Poison)]
        /\ cache' = cache \/ DropCache(head, m.r)
        /\ pc' = pc /\ generated' = generated /\ up' = up
    BY Zenon, <1>6, ErrorCarry
  <2>2. queue'[r] = queue[r] \/ queue'[r] = Append(queue[r], Poison)
    BY Zenon, <1>0, <2>1
  <2>3. \A k \in up' \ {head} : cache'[k][r] = cache[k][r]
    BY Zenon, <1>0, <2>1 DEF DropCache
  <2> QED BY <2>1, <2>2, <2>3, RightQuiet
<1>7. ASSUME HandleEnd(n, i) PROVE RightAt(r)'
  <2>1. /\ m = End(m.r) /\ Pending(n, i) /\ m.r \in Req /\ DropCache(n, m.r)
        /\ \/ Carry(n, {}, Upstream(n), {<<i, 1>>})
           \/ Carry(n, {End(m.r)}, Upstream(n), {<<i, 1>>})
        /\ pc' = pc /\ generated' = generated /\ queue' = queue /\ up' = up
    BY Zenon, <1>7, EndCarry DEF threads
  <2>2. CASE m.r = r
    <3>1. Upstream(n) \in Node /\ <<i, 1>> \in Places(conns[Upstream(n)])
          /\ m = Msg(conns[Upstream(n)], <<i, 1>>)
      BY Zenon, <2>1, PendingFacts
    <3>2. m.t = "end"
      BY Zenon, <1>7 DEF HandleEnd
    <3>3. pc[r] \in {"release", "done"}
      BY Zenon, <2>2, <3>1, <3>2 DEF EndInv
    <3> QED BY Zenon, <2>1, <3>3 DEF RightAt
  <2>3. CASE m.r # r
    <3>1. \A k \in up' \ {head} : cache'[k][r] = cache[k][r]
      BY Zenon, <1>0, <2>1, <2>3 DEF DropCache
    <3>2. ~OfRound(End(m.r), r)
      BY Zenon, RoundKinds
    <3> QED BY <2>1, <3>1, <3>2, RightQuiet
  <2> QED BY Zenon, <2>2, <2>3
<1> QED BY Zenon, <1>1, <1>3, <1>4, <1>5, <1>6, <1>7 DEF Connection

\* Every token that a client got is right. A restart loses a cache, so nothing is
\* claimed after one.
AllRight(c) == \A i \in 1..Len(c) : c[i].t = "token" => c[i].right
RightInv == restarts = 0 => \A r \in Req : RightAt(r) /\ AllRight(client[r])

\* The next reply is right.
LEMMA AllRightAppend ==
  ASSUME NEW c \in Seq(Replies), AllRight(c), NEW m, m.t = "token" => m.right
  PROVE  AllRight(Append(c, m))
<1>1. /\ Len(Append(c, m)) = Len(c) + 1 /\ Append(c, m)[Len(c) + 1] = m /\ Len(c) \in Nat
      /\ \A j \in 1..Len(c) : Append(c, m)[j] = c[j]
  OBVIOUS
<1> DEFINE d == Append(c, m)
<1>2. Len(d) = Len(c) + 1 /\ d[Len(c) + 1] = m /\ \A j \in 1..Len(c) : d[j] = c[j]
  BY Zenon, <1>1
<1> HIDE DEF d
<1>3. ASSUME NEW i \in 1..Len(d), d[i].t = "token" PROVE d[i].right
  <2>1. CASE i = Len(c) + 1
    BY Zenon, <1>2, <1>3, <2>1
  <2>2. CASE i # Len(c) + 1
    BY <1>1, <1>2, <1>3, <2>2 DEF AllRight
  <2> QED BY Zenon, <2>1, <2>2
<1> QED BY Zenon, <1>3 DEF AllRight, d

\* Every token that goes to a client is right.
LEMMA AllRightStep ==
  ASSUME TypeOK, [Next]_vars, NEW r \in Req, RequestAt(r), RightAt(r), AllRight(client[r])
  PROVE  AllRight(client'[r])
<1>0. /\ client[r] \in Seq(Replies) /\ DOMAIN client = Req /\ DOMAIN generated = Req
      /\ pc \in [Req -> {"new", "checked", "prefill", "waiting", "step", "finish",
                         "release", "aborted", "closed", "done", "raised"}]
  BY Zenon DEF TypeOK
<1>1. Failure.t # "token"
  BY Zenon DEF Failure
<1>2. (client'[r] = client[r] \/ client'[r] = Append(client[r], Failure)) => AllRight(client'[r])
  BY Zenon, <1>0, <1>1, AllRightAppend
<1>3. CASE Handled(r) \/ Wakes(r)
  BY Zenon, <1>2, <1>3 DEF Handled, Aside, Arrives, Strikes, Wakes, HeadSame
<1>4. ASSUME Reply(r, Failure) PROVE AllRight(client'[r])
  BY Zenon, <1>0, <1>2, <1>4 DEF Reply
<1>5. CASE Request(r)
  <2>1. ASSUME Decode(r), ~Abort(r) PROVE AllRight(client'[r])
    <3> DEFINE g == generated[r] + 1
               t == Token(g - 1, g >= MaxNew, queue[r][1].right)
    <3>1. /\ pc[r] = "waiting" /\ queue[r] # <<>> /\ queue[r][1] # Poison
          /\ generated' = [generated EXCEPT ![r] = g] /\ Reply(r, t)
          /\ At(r, IF g >= MaxNew THEN "finish" ELSE "step") /\ cache' = cache /\ up' = up
      BY Zenon, <2>1 DEF Decode
    <3>2. t.right = queue[r][1].right
      BY Zenon DEF Token
    <3> HIDE DEF t
    <3>3. generated'[r] = generated[r] + 1
      BY Zenon, <1>0, <3>1
    <3> HIDE DEF g
    <3>4. pc'[r] \in {"finish", "step"}
      BY Zenon, <1>0, <3>1 DEF At
    <3>5. queue[r][1].right
      BY Zenon, <3>1, <3>3, <3>4, RightDeliver
    <3>6. client'[r] = client[r] \/ client'[r] = Append(client[r], t)
      BY Zenon, <1>0, <3>1 DEF Reply
    <3> QED BY Zenon, <1>0, <3>2, <3>5, <3>6, AllRightAppend
  <2>2. CASE Abort(r)
    BY Zenon, <1>4, <2>2 DEF Abort
  <2>3. CASE ~Decode(r) /\ ~Abort(r)
    <3>1. client' = client \/ Reply(r, Failure)
      BY Zenon, <1>5, <2>3
         DEF Request, BeginCheck, BeginRegister, Prefill, PrefillFails, DecodeStep,
             DecodeFails, Finish, Release, Hangup, EndAborted
    <3> QED BY Zenon, <1>2, <1>4, <3>1
  <2> QED BY Zenon, <2>1, <2>2, <2>3
<1> QED BY Zenon, <1>3, <1>5, StepKinds

\* Every step keeps it: a restart is the only one that loses a cache in a round.
LEMMA RightStep ==
  ASSUME RequestInv, EndInv, RightInv, [Next]_vars
  PROVE  RightInv'
<1> SUFFICES ASSUME restarts' = 0, NEW r \in Req PROVE RightAt(r)' /\ AllRight(client'[r])
  BY Zenon DEF RightInv
<1>0. TypeOK /\ CountInv /\ RequestAt(r) /\ restarts \in Nat
  BY Zenon DEF RequestInv, TypeOK
<1>1. ASSUME NEW s \in Req, Request(s) PROVE restarts' = restarts /\ (RightAt(r) => RightAt(r)')
  <2>1. restarts' = restarts /\ up' = up
    BY Zenon, <1>1 DEF Request, BeginCheck, BeginRegister, Prefill, PrefillFails, Decode, DecodeStep,
                DecodeFails, Finish, Release, Hangup, EndAborted, budgets
  <2>2. CASE s = r
    BY Zenon, <1>0, <1>1, <2>1, <2>2, RightOwn
  <2>3. CASE s # r
    <3>0. /\ DOMAIN cache = Node /\ head \in Node /\ up \subseteq Node
          /\ DOMAIN pc = Req /\ DOMAIN generated = Req /\ DOMAIN queue = Req
      BY Zenon, <1>0 DEF TypeOK
    <3>1. \A n \in up' \ {head} : cache'[n][r] = cache[n][r]
      BY Zenon, <1>1, <2>1, <3>0
         DEF Request, BeginCheck, BeginRegister, Prefill, PrefillFails, Decode, DecodeStep,
             DecodeFails, Finish, Release, Hangup, EndAborted, Abort, DropCache, Grow, BroadcastEnd
    <3>2. pc'[r] = pc[r] /\ generated'[r] = generated[r] /\ queue'[r] = queue[r]
      <4>1. pc'[r] = pc[r]
        BY Zenon, <1>1, <2>3, <3>0
           DEF Request, BeginCheck, BeginRegister, Prefill, PrefillFails, Decode, DecodeStep,
               DecodeFails, Finish, Release, Hangup, EndAborted, Abort, At
      <4>2. generated'[r] = generated[r] /\ queue'[r] = queue[r]
        BY Zenon, <1>1, <2>3, <3>0
           DEF Request, BeginCheck, BeginRegister, Prefill, PrefillFails, Decode, DecodeStep,
               DecodeFails, Finish, Release, Hangup, EndAborted
      <4> QED BY Zenon, <4>1, <4>2
    <3>3. PICK N \in SUBSET {Started(s), End(s)} : Carry(head, N, head, {})
      BY Zenon, <1>0, <1>1, RequestConns
    <3>4. \A m \in N : ~OfRound(m, r)
      BY <2>3 DEF OfRound, Started, Activation, End
    <3> QED BY Zenon, <1>0, <2>1, <3>1, <3>2, <3>3, <3>4, RightQuiet
  <2> QED BY Zenon, <2>1, <2>2, <2>3
<1>2. ASSUME NEW s \in Req, ClientGone(s) PROVE restarts' = restarts /\ (RightAt(r) => RightAt(r)')
  <2>1. /\ pc' = pc /\ generated' = generated /\ queue' = queue /\ cache' = cache /\ conns' = conns
        /\ up' = up /\ restarts' = restarts
    BY Zenon, <1>2 DEF ClientGone, threads, budgets
  <2>2. Carry(head, {}, head, {})
    BY Zenon, <1>0, <2>1, SameCarry
  <2> QED BY <1>0, <2>1, <2>2, RightQuiet
<1>3. ASSUME NEW n \in Node, NEW i, Connection(n, i)
      PROVE  restarts' = restarts /\ (RightAt(r) => RightAt(r)')
  <2>1. restarts' = restarts
    BY Zenon, <1>3 DEF Connection, HandleActivation, RejectActivation, FailActivation, HandleSampledToken,
                HandleUpstreamError, HandleEnd, budgets
  <2> QED BY Zenon, <1>0, <1>3, <2>1, RightConnection
<1>4. ASSUME NEW n \in Node, NEW p \in Watched(n), Membership(n, p)
      PROVE  restarts' = restarts /\ (RightAt(r) => RightAt(r)')
  <2>1. /\ pc' = pc /\ generated' = generated /\ cache' = cache /\ up' = up /\ restarts' = restarts
        /\ queue'[r] = queue[r] \/ queue'[r] = Append(queue[r], Poison)
    BY Zenon, <1>4 DEF Membership, LeaveAlive, BecomeDead, BecomeAlive, threads, budgets
  <2>2. Carry(head, {}, head, {}) \/ Carry(n, {}, n, {})
    BY Zenon, <1>0, <1>4, MembershipCarry
  <2> QED BY <1>0, <2>1, <2>2, RightQuiet
<1>5. ASSUME NEW n \in Node, Crash(n)
      PROVE  restarts' = restarts /\ (RightAt(r) => RightAt(r)')
  <2>1. /\ pc' = pc /\ generated' = generated /\ queue' = queue /\ restarts' = restarts
        /\ up' = up \ {n} /\ cache' = [cache EXCEPT ![n] = [s \in Req |-> NoCache]]
    BY Zenon, <1>5 DEF Crash, threads
  <2>2. \A k \in up' \ {head} : cache'[k][r] = cache[k][r]
    BY Zenon, <1>0, <2>1 DEF TypeOK
  <2>3. Carry(n, {}, Upstream(n), {})
    BY Zenon, <1>0, <1>5, CrashCarry DEF Crash
  <2> QED BY <1>0, <2>1, <2>2, <2>3, RightQuiet
<1>6. ASSUME NEW n \in Node, Restart(n) PROVE FALSE
  BY <1>0, <1>6 DEF Restart
<1>7. ASSUME UNCHANGED vars PROVE restarts' = restarts /\ (RightAt(r) => RightAt(r)')
  <2>1. /\ pc' = pc /\ generated' = generated /\ queue' = queue /\ cache' = cache /\ conns' = conns
        /\ up' = up /\ restarts' = restarts
    BY Zenon, <1>7 DEF vars
  <2>2. Carry(head, {}, head, {})
    BY Zenon, <1>0, <2>1, SameCarry
  <2> QED BY <1>0, <2>1, <2>2, RightQuiet
<1>8. restarts' = restarts /\ (RightAt(r) => RightAt(r)')
  BY Zenon, <1>1, <1>2, <1>3, <1>4, <1>5, <1>6, <1>7 DEF Next, Serve
<1>9. RightAt(r) /\ AllRight(client[r])
  BY Zenon, <1>8 DEF RightInv
<1> QED BY Zenon, <1>0, <1>8, <1>9, AllRightStep

\* It holds at the start.
LEMMA RightInit == Init => EndInv /\ RightInv
<1> SUFFICES ASSUME Init PROVE EndInv /\ RightInv
  BY Zenon
<1>1. ASSUME NEW n \in Node, NEW p \in Places(conns[n]) PROVE FALSE
  <2>1. DOMAIN conns[n] = {}
    BY Zenon DEF Init
  <2> QED BY Zenon, <2>1, PlacePair
<1>2. ASSUME NEW r \in Req PROVE RightAt(r) /\ AllRight(client[r])
  <2>1. /\ pc[r] = "new" /\ client[r] = <<>> /\ generated[r] = 0 /\ up = Node
        /\ \A n \in Node : cache[n][r] = NoCache
    BY Zenon DEF Init
  <2>2. Ready(r, 0)
    <3> SUFFICES ASSUME NEW n \in Node \ {head} PROVE ~(n <= 0) /\ Before(cache[n][r], generated[r])
      BY Zenon, <2>1 DEF Ready
    <3>1. ~(n <= 0)
      BY DEF Node, head
    <3> QED BY Zenon, <2>1, <3>1 DEF Before
  <2> QED BY <2>1, <2>2 DEF RightAt, AllRight
<1> QED BY Zenon, <1>1, <1>2 DEF EndInv, RightInv

\* The tokens of a client are numbered without a gap and, unless a stage has been
\* restarted, each was computed with the whole sequence before it in the cache of
\* every stage: _handle_activation's setdefault makes no cache anew in the middle
\* of a request, and no EndRequest overtakes a round.
THEOREM PipelineTokensRight == Spec => []TokensRight
<1>1. RequestInv /\ EndInv /\ RightInv /\ [Next]_vars => EndInv' /\ RightInv'
  BY Zenon, EndStep, RightStep DEF RequestInv
<1>2. RequestInv /\ RightInv => TokensRight
  BY Zenon DEF RequestInv, RequestAt, ClientAt, Counted, RightInv, AllRight, TokensRight
<1> QED BY <1>1, <1>2, RightInit, PipelineRequests, PTL DEF Spec
=============================================================================
