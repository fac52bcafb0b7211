------------------------------- MODULE Pipeline -------------------------------
(***************************************************************************)
(* The decode pipeline of model_shard's node.py: the head's thread of each *)
(* request, the threads that serve the TCP connections between the stages, *)
(* the one outbound connection each stage shares between all requests, and *)
(* the reactions to failures and to membership transitions.                *)
(*                                                                         *)
(* Tensors are abstract.  An activation carries the round it belongs to,   *)
(* and whether every stage so far had exactly the earlier rounds in its    *)
(* cache; the token sampled from it inherits that.                         *)
(***************************************************************************)
EXTENDS Integers, Sequences, FiniteSets

CONSTANTS
  Stages,       \* number of shards; shard 0 is the head, the last is the tail
  Req,          \* request ids (UUIDs of the clients)
  MaxNew,       \* max_new_tokens
  FailAt,       \* bound: the stages whose expert RPCs may fail
  RejectAt,     \* bound: the stages that may reject a provenance chain
  EarlyCrash,   \* bound: crashes also hit requests outside their decode loop
  Budgets       \* bound: the mixtures of trouble one behaviour may meet

ASSUME PipelineAssumption ==
  /\ Stages \in Nat /\ Stages >= 2
  /\ MaxNew \in Nat \ {0}
  /\ FailAt \subseteq 0..(Stages - 1) /\ RejectAt \subseteq 1..(Stages - 1)
  /\ EarlyCrash \in BOOLEAN
  /\ Budgets \subseteq
       [faults : Nat, suspicions : Nat, crashes : Nat, restarts : Nat, gone : Nat]

VARIABLES
  pc,         \* [Req -> PC]: the thread of _handle_begin
  generated,  \* [Req -> 0..MaxNew]: _HeadRequestState.generated
  queue,      \* [Req -> Seq]: _HeadRequestState.token_queue
  states,     \* the requests in the head's _head_states
  cache,      \* [Node -> [Req -> Int]]: rounds in _kv_caches, or NoCache
  conns,      \* [Node -> [numbers -> connection]]: the outbound connections of
              \* each stage; number 0 is _out_stream, the others are closed but
              \* not yet read to the end
  client,     \* [Req -> Seq]: the replies written to the client
  gone,       \* the clients that have gone away
  seen,       \* [Node -> [Node -> State]]: each stage's membership view
  up,         \* the running stages
  faults, suspicions, crashes, restarts

threads == <<pc, generated, queue, states, client>>
budgets == <<faults, suspicions, crashes, restarts>>
vars == <<pc, generated, queue, states, cache, conns, client, gone, seen, up,
          faults, suspicions, crashes, restarts>>
-----------------------------------------------------------------------------
Node == 0..(Stages - 1)
head == 0
tail == Stages - 1

\* _resolve_downstream
Downstream(n) == IF n = tail THEN head ELSE n + 1
Upstream(n) == IF n = head THEN tail ELSE n - 1

\* What the environment may still do
Within(f, s, c, r, g) ==
  \E b \in Budgets : /\ f <= b.faults /\ s <= b.suspicions /\ c <= b.crashes
                     /\ r <= b.restarts /\ g <= b.gone
MayFault == Within(faults + 1, suspicions, crashes, restarts, Cardinality(gone))
MaySuspect == Within(faults, suspicions + 1, crashes, restarts, Cardinality(gone))
MayCrash == Within(faults, suspicions, crashes + 1, restarts, Cardinality(gone))
MayRestart == Within(faults, suspicions, crashes, restarts + 1, Cardinality(gone))
MayGo == Within(faults, suspicions, crashes, restarts, Cardinality(gone) + 1)

NoCache == -1
Poison == [t |-> "poison"]

Activation(r, k, right) == [t |-> "activation", r |-> r, k |-> k, right |-> right]
SampledToken(r, k, right) == [t |-> "sampled_token", r |-> r, k |-> k, right |-> right]
Error(r) == [t |-> "error", r |-> r]
End(r) == [t |-> "end", r |-> r]

Token(pos, final, right) == [t |-> "token", pos |-> pos, final |-> final, right |-> right]
Failure == [t |-> "error"]
-----------------------------------------------------------------------------
(* Connections.  A record is a connection: what its reader has still to     *)
(* handle, and whether the reader holds it open.                            *)

IsOpen(c) == 0 \in DOMAIN c

\* A connection whose reader has closed it
Unread == [q |-> <<>>, read |-> FALSE]

With(c, i, x) == [j \in DOMAIN c \cup {i} |-> IF j = i THEN x ELSE c[j]]
Without(c, i) == [j \in DOMAIN c \ {i} |-> c[j]]

\* Connection i becomes x.  One that its writer has closed is forgotten when
\* nothing is left to read.
Becomes(c, i, x) == IF i # 0 /\ x.q = <<>> THEN Without(c, i) ELSE With(c, i, x)

\* _close_outbound: number 0 gets another number.
Highest(S) == CHOOSE k \in S \cup {0} : \A i \in S : i <= k
Unused(c) == CHOOSE i \in 1..(Highest(DOMAIN c) + 1) : i \notin DOMAIN c
CloseOutbound(c) ==
  IF IsOpen(c) THEN Becomes(Without(c, 0), Unused(c), c[0]) ELSE c

\* _ensure_out_stream, when it dials, and the first message
Dial(c, m) == With(c, 0, [q |-> <<m>>, read |-> TRUE])

\* _write_out of m: the connections it may leave, and whether it raised.  A
\* write to a connection that the reader has closed may still be accepted, and
\* is lost then.
WriteOut(n, c, m) ==
  IF IsOpen(c)
  THEN IF c[0].read
       THEN {[raised |-> FALSE, c |-> [c EXCEPT ![0].q = Append(@, m)]]}
       ELSE {[raised |-> FALSE, c |-> c], [raised |-> TRUE, c |-> c]}
  ELSE IF Downstream(n) \in up THEN {[raised |-> FALSE, c |-> Dial(c, m)]}
       ELSE {[raised |-> TRUE, c |-> c]}
-----------------------------------------------------------------------------
(* The thread of a request on the head. *)

At(r, p) == pc' = [pc EXCEPT ![r] = p]
\* A write to a client; one that fails is suppressed where it does not matter.
Reply(r, m) ==
  client' = IF r \in gone THEN client ELSE [client EXCEPT ![r] = Append(@, m)]
DropCache(n, r) == cache' = [cache EXCEPT ![n][r] = NoCache]

\* _unavailable_peer
SomePeerUnavailable == \E p \in Node \ {head} : seen[head][p] # "alive"

\* _handle_begin up to the check
BeginCheck(r) ==
  /\ pc[r] = "new"
  /\ \/ /\ SomePeerUnavailable
        /\ Reply(r, Failure) /\ At(r, "done")
     \/ /\ ~SomePeerUnavailable
        /\ At(r, "checked") /\ client' = client
  /\ UNCHANGED <<generated, queue, states, cache, conns, gone, seen, up, budgets>>

\* The request is registered, with an empty cache.
BeginRegister(r) ==
  /\ pc[r] = "checked"
  /\ states' = states \cup {r}
  /\ cache' = [cache EXCEPT ![head][r] = 0]
  /\ At(r, "prefill")
  /\ UNCHANGED <<generated, queue, conns, client, gone, seen, up, budgets>>

\* _run_my_layers and _forward_activation on the head: the round, marked right
\* if the cache holds exactly the rounds before it.
Forward(r) ==
  WriteOut(head, conns[head], Activation(r, generated[r], cache[head][r] = generated[r]))
Grow(r) == cache' = [cache EXCEPT ![head][r] = @ + 1]

\* The prefill is forwarded.  A forward that raises leaves _handle_begin by
\* the exception, which _handle_connection logs.
Prefill(r) ==
  /\ pc[r] = "prefill"
  /\ \E w \in Forward(r) :
       /\ conns' = [conns EXCEPT ![head] = w.c]
       /\ At(r, IF w.raised THEN "raised" ELSE "waiting")
  /\ Grow(r)
  /\ UNCHANGED <<generated, queue, states, client, gone, seen, up, budgets>>

\* An expert RPC of the prefill fails.
PrefillFails(r) ==
  /\ pc[r] = "prefill" /\ head \in FailAt /\ MayFault
  /\ faults' = faults + 1
  /\ Reply(r, Failure)
  /\ DropCache(head, r)
  /\ states' = states \ {r}
  /\ At(r, "done")
  /\ UNCHANGED <<generated, queue, conns, gone, seen, up, suspicions, crashes, restarts>>

\* Mutant: the client is told, but the loop goes on.
AbortAndLoop(r) ==
  /\ Reply(r, Failure)
  /\ At(r, "waiting")
  /\ UNCHANGED <<states, cache, conns>>

\* How each handler of _drive_decode_loop starts: an error to the client, and
\* the request forgotten.
Abort(r) ==
  /\ Reply(r, Failure)
  /\ DropCache(head, r)
  /\ states' = states \ {r}
  /\ At(r, "aborted")
  /\ conns' = conns

\* Then it closes the connection ...
Hangup(r) ==
  /\ pc[r] = "aborted"
  /\ conns' = [conns EXCEPT ![head] = CloseOutbound(@)]
  /\ At(r, "closed")
  /\ UNCHANGED <<generated, queue, states, cache, client, gone, seen, up, budgets>>

\* ... and sends an EndRequest on a new one: _broadcast_end.
BroadcastEnd(r) ==
  /\ \E w \in WriteOut(head, conns[head], End(r)) : conns' = [conns EXCEPT ![head] = w.c]
  /\ DropCache(head, r)

EndAborted(r) ==
  /\ pc[r] = "closed"
  /\ BroadcastEnd(r)
  /\ At(r, "done")
  /\ UNCHANGED <<generated, queue, states, client, gone, seen, up, budgets>>

\* Mutant: the poison is taken for a token.
DecodePoison(r) ==
  /\ pc[r] = "waiting" /\ queue[r] # <<>>
  /\ queue' = [queue EXCEPT ![r] = Tail(@)]
  /\ generated' = [generated EXCEPT ![r] = @ + 1]
  /\ LET g == generated[r] + 1
     IN /\ Reply(r, Token(g - 1, g >= MaxNew, FALSE))
        /\ At(r, IF g >= MaxNew THEN "finish" ELSE "step")
  /\ UNCHANGED <<states, cache, conns, gone, seen, up, budgets>>

\* _drive_decode_loop takes what the queue has: a token goes to the client, and
\* the poison ends the loop.  Writing to a client that is gone may raise.
Decode(r) ==
  /\ pc[r] = "waiting" /\ queue[r] # <<>>
  /\ queue' = [queue EXCEPT ![r] = Tail(@)]
  /\ LET x == queue[r][1]
         g == generated[r] + 1
     IN \/ /\ x = Poison
           /\ Abort(r)
           /\ generated' = generated
        \/ /\ x # Poison
           /\ generated' = [generated EXCEPT ![r] = g]
           /\ \/ /\ Reply(r, Token(g - 1, g >= MaxNew, x.right))
                 /\ At(r, IF g >= MaxNew THEN "finish" ELSE "step")
                 /\ UNCHANGED <<states, cache, conns>>
              \/ r \in gone /\ Abort(r)
  /\ UNCHANGED <<gone, seen, up, budgets>>

\* The next round.  The cache is looked up by the request id: a KeyError is
\* none of the exceptions the loop handles.
DecodeStep(r) ==
  /\ pc[r] = "step"
  /\ \/ /\ cache[head][r] = NoCache
        /\ At(r, "raised")
        /\ UNCHANGED <<states, cache, conns, client>>
     \/ /\ cache[head][r] # NoCache
        /\ \E w \in Forward(r) :
             \/ w.raised /\ Abort(r)
             \/ /\ ~w.raised
                /\ conns' = [conns EXCEPT ![head] = w.c]
                /\ Grow(r)
                /\ At(r, "waiting")
                /\ UNCHANGED <<states, client>>
  /\ UNCHANGED <<generated, queue, gone, seen, up, budgets>>

\* An expert RPC of the round fails.
DecodeFails(r) ==
  /\ pc[r] = "step" /\ cache[head][r] # NoCache
  /\ head \in FailAt /\ MayFault
  /\ faults' = faults + 1
  /\ Abort(r)
  /\ UNCHANGED <<generated, queue, gone, seen, up, suspicions, crashes, restarts>>

\* The end of the loop: _broadcast_end ...
Finish(r) ==
  /\ pc[r] = "finish"
  /\ BroadcastEnd(r)
  /\ At(r, "release")
  /\ UNCHANGED <<generated, queue, states, client, gone, seen, up, budgets>>

\* Mutant: the state stays registered.
ReleaseKeepsState(r) ==
  /\ pc[r] = "release"
  /\ conns' = [conns EXCEPT ![head] = CloseOutbound(@)]
  /\ At(r, "done")
  /\ UNCHANGED <<generated, queue, states, cache, client, gone, seen, up, budgets>>

\* ... then the state is dropped and the connection closed.
Release(r) ==
  /\ pc[r] = "release"
  /\ states' = states \ {r}
  /\ conns' = [conns EXCEPT ![head] = CloseOutbound(@)]
  /\ At(r, "done")
  /\ UNCHANGED <<generated, queue, cache, client, gone, seen, up, budgets>>
-----------------------------------------------------------------------------
(* The threads that serve connections. *)

\* Connection i into n, and what is left of the connections when its next
\* message has been taken
Pending(n, i) ==
  /\ n \in up /\ i \in DOMAIN conns[Upstream(n)]
  /\ conns[Upstream(n)][i].read /\ conns[Upstream(n)][i].q # <<>>
Message(n, i) == Head(conns[Upstream(n)][i].q)
Taken(n, i) ==
  LET c == conns[Upstream(n)] IN Becomes(c, i, [c[i] EXCEPT !.q = Tail(@)])

\* Both ends of n's traffic after a message: c to n, d from n
Traffic(n, c, d) == conns' = [conns EXCEPT ![Upstream(n)] = c, ![n] = d]

\* Mutant: every activation makes a new cache.
HandleActivationAnew(n, i) ==
  /\ Pending(n, i) /\ Message(n, i).t = "activation"
  /\ LET m == Message(n, i)
         out == IF n = tail THEN SampledToken(m.r, m.k, m.right /\ m.k = 0)
                            ELSE Activation(m.r, m.k, m.right /\ m.k = 0)
     IN /\ cache' = [cache EXCEPT ![n][m.r] = 1]
        /\ \E w \in WriteOut(n, conns[n], out) : Traffic(n, Taken(n, i), w.c)
  /\ UNCHANGED <<threads, gone, seen, up, budgets>>

\* _handle_activation: the layers run on the request's cache, which is made if
\* there is none; then the tail samples and the others forward.  If that write
\* raises, _handle_connection logs it.
HandleActivation(n, i) ==
  /\ Pending(n, i) /\ Message(n, i).t = "activation"
  /\ LET m == Message(n, i)
         k == IF cache[n][m.r] = NoCache THEN 0 ELSE cache[n][m.r]
         right == m.right /\ k = m.k
         out == IF n = tail THEN SampledToken(m.r, m.k, right)
                            ELSE Activation(m.r, m.k, right)
     IN /\ cache' = [cache EXCEPT ![n][m.r] = k + 1]
        /\ \E w \in WriteOut(n, conns[n], out) : Traffic(n, Taken(n, i), w.c)
  /\ UNCHANGED <<threads, gone, seen, up, budgets>>

\* validate_chain refuses the activation: the tail tells the head, any other
\* stage closes its own outbound connection.
RejectActivation(n, i) ==
  /\ Pending(n, i) /\ Message(n, i).t = "activation"
  /\ n \in RejectAt /\ MayFault
  /\ faults' = faults + 1
  /\ \/ /\ n # tail
        /\ Traffic(n, Taken(n, i), CloseOutbound(conns[n]))
     \/ /\ n = tail
        /\ \E w \in WriteOut(n, conns[n], Error(Message(n, i).r)) :
             Traffic(n, Taken(n, i), w.c)
  /\ UNCHANGED <<threads, cache, gone, seen, up, suspicions, crashes, restarts>>

\* An expert RPC of this stage fails: both connections are closed, and what
\* the inbound one still carried is lost.
FailActivation(n, i) ==
  /\ Pending(n, i) /\ Message(n, i).t = "activation"
  /\ n \in FailAt /\ MayFault
  /\ faults' = faults + 1
  /\ Traffic(n, Becomes(conns[Upstream(n)], i, Unread),
             CloseOutbound(conns[n]))
  /\ DropCache(n, Message(n, i).r)
  /\ UNCHANGED <<threads, gone, seen, up, suspicions, crashes, restarts>>

\* _handle_sampled_token on the head
HandleSampledToken(n, i) ==
  /\ Pending(n, i) /\ Message(n, i).t = "sampled_token"
  /\ LET m == Message(n, i)
     IN queue' = IF m.r \in states THEN [queue EXCEPT ![m.r] = Append(@, m)] ELSE queue
  /\ Traffic(n, Taken(n, i), conns[n])
  /\ UNCHANGED <<pc, generated, states, cache, client, gone, seen, up, budgets>>

\* Mutant: the caches of all requests are dropped.
HandleUpstreamErrorAll(n, i) ==
  /\ Pending(n, i) /\ Message(n, i).t = "error"
  /\ LET r == Message(n, i).r
     IN \/ /\ r \notin states
           /\ UNCHANGED <<queue, states, cache, client>>
        \/ /\ r \in states
           /\ Reply(r, Failure)
           /\ queue' = [queue EXCEPT ![r] = Append(@, Poison)]
           /\ cache' = [cache EXCEPT ![n] = [q \in Req |-> NoCache]]
           /\ states' = states \ {r}
  /\ Traffic(n, Taken(n, i), conns[n])
  /\ UNCHANGED <<pc, generated, gone, seen, up, budgets>>

\* _handle_upstream_error on the head
HandleUpstreamError(n, i) ==
  /\ Pending(n, i) /\ Message(n, i).t = "error"
  /\ LET r == Message(n, i).r
     IN \/ /\ r \notin states
           /\ UNCHANGED <<queue, states, cache, client>>
        \/ /\ r \in states
           /\ Reply(r, Failure)
           /\ queue' = [queue EXCEPT ![r] = Append(@, Poison)]
           /\ DropCache(n, r)
           /\ states' = states \ {r}
  /\ Traffic(n, Taken(n, i), conns[n])
  /\ UNCHANGED <<pc, generated, gone, seen, up, budgets>>

\* Mutant: the tail passes the EndRequest on, too.
HandleEndEverywhere(n, i) ==
  /\ Pending(n, i) /\ Message(n, i).t = "end"
  /\ DropCache(n, Message(n, i).r)
  /\ \E w \in WriteOut(n, conns[n], End(Message(n, i).r)) :
       Traffic(n, Taken(n, i), CloseOutbound(w.c))
  /\ UNCHANGED <<threads, gone, seen, up, budgets>>

\* Mutant: the EndRequest is not passed on.
HandleEndHere(n, i) ==
  /\ Pending(n, i) /\ Message(n, i).t = "end"
  /\ DropCache(n, Message(n, i).r)
  /\ Traffic(n, Taken(n, i), CloseOutbound(conns[n]))
  /\ UNCHANGED <<threads, gone, seen, up, budgets>>

\* _handle_end: the cache is dropped, the EndRequest passed on, the outbound
\* connection closed.
HandleEnd(n, i) ==
  /\ Pending(n, i) /\ Message(n, i).t = "end"
  /\ LET r == Message(n, i).r
     IN /\ DropCache(n, r)
        /\ \/ /\ n = tail
              /\ Traffic(n, Taken(n, i), CloseOutbound(conns[n]))
           \/ /\ n # tail
              /\ \E w \in WriteOut(n, conns[n], End(r)) :
                   Traffic(n, Taken(n, i), CloseOutbound(w.c))
  /\ UNCHANGED <<threads, gone, seen, up, budgets>>
-----------------------------------------------------------------------------
(* Membership and the environment. *)

\* The peers whose transitions a stage reacts to: the head to all of them, the
\* others to their downstream.
Watched(n) == IF n = head THEN Node \ {head} ELSE {Downstream(n)}

\* Mutant: the threads that wait for tokens are not woken.
LeaveAliveUnwoken(n, p) ==
  /\ n \in up /\ seen[n][p] = "alive"
  /\ p \notin up \/ MaySuspect
  /\ suspicions' = IF p \in up THEN suspicions + 1 ELSE suspicions
  /\ seen' = [seen EXCEPT ![n][p] = "suspect"]
  /\ conns' = IF p = Downstream(n) THEN [conns EXCEPT ![n] = CloseOutbound(@)] ELSE conns
  /\ UNCHANGED <<threads, cache, gone, up, faults, crashes, restarts>>

\* _on_membership_change: a peer leaves ALIVE, rightly or not.
LeaveAlive(n, p) ==
  /\ n \in up /\ seen[n][p] = "alive"
  /\ p \notin up \/ MaySuspect
  /\ suspicions' = IF p \in up THEN suspicions + 1 ELSE suspicions
  /\ seen' = [seen EXCEPT ![n][p] = "suspect"]
  /\ conns' = IF p = Downstream(n) THEN [conns EXCEPT ![n] = CloseOutbound(@)] ELSE conns
  /\ queue' = IF n = head THEN [r \in Req |-> IF r \in states THEN Append(queue[r], Poison)
                                                              ELSE queue[r]]
                          ELSE queue
  /\ UNCHANGED <<pc, generated, states, cache, client, gone, up, faults, crashes, restarts>>

\* A suspicion is confirmed: the connection is closed again, but nobody is woken.
BecomeDead(n, p) ==
  /\ n \in up /\ seen[n][p] = "suspect"
  /\ seen' = [seen EXCEPT ![n][p] = "dead"]
  /\ conns' = IF p = Downstream(n) THEN [conns EXCEPT ![n] = CloseOutbound(@)] ELSE conns
  /\ UNCHANGED <<threads, cache, gone, up, budgets>>

\* A peer is heard of again; the next write redials.
BecomeAlive(n, p) ==
  /\ {n, p} \subseteq up /\ seen[n][p] # "alive"
  /\ seen' = [seen EXCEPT ![n][p] = "alive"]
  /\ UNCHANGED <<threads, cache, conns, gone, up, budgets>>

\* A client closes its connection before the end.
ClientGone(r) ==
  /\ r \notin gone /\ pc[r] \notin {"new", "done"} /\ MayGo
  /\ gone' = gone \cup {r}
  /\ UNCHANGED <<threads, cache, conns, seen, up, budgets>>

\* A stage other than the head dies: its caches and connections go with it.
Crash(n) ==
  /\ n \in up \ {head} /\ MayCrash
  /\ EarlyCrash \/ \A r \in Req : pc[r] \notin {"new", "checked", "prefill"}
  /\ crashes' = crashes + 1
  /\ up' = up \ {n}
  /\ cache' = [cache EXCEPT ![n] = [r \in Req |-> NoCache]]
  /\ Traffic(n, [j \in {0} \cap DOMAIN conns[Upstream(n)] |-> Unread],
             CloseOutbound(conns[n]))
  /\ seen' = [seen EXCEPT ![n] = [p \in Node |-> "alive"]]
  /\ UNCHANGED <<threads, gone, faults, suspicions, restarts>>

Restart(n) ==
  /\ n \in Node \ up /\ MayRestart
  /\ restarts' = restarts + 1
  /\ up' = up \cup {n}
  /\ UNCHANGED <<threads, cache, conns, gone, seen, faults, suspicions, crashes>>

Init ==
  /\ pc = [r \in Req |-> "new"]
  /\ generated = [r \in Req |-> 0]
  /\ queue = [r \in Req |-> <<>>]
  /\ states = {}
  /\ cache = [n \in Node |-> [r \in Req |-> NoCache]]
  /\ conns = [n \in Node |-> [i \in {} |-> <<>>]]
  /\ client = [r \in Req |-> <<>>]
  /\ gone = {}
  /\ seen = [n \in Node |-> [p \in Node |-> "alive"]]
  /\ up = Node
  /\ faults = 0 /\ suspicions = 0 /\ crashes = 0 /\ restarts = 0

Request(r) ==
  \/ BeginCheck(r) \/ BeginRegister(r) \/ Prefill(r) \/ PrefillFails(r)
  \/ Decode(r) \/ DecodeStep(r) \/ DecodeFails(r)
  \/ Finish(r) \/ Release(r) \/ Hangup(r) \/ EndAborted(r)

Connection(n, i) ==
  \/ HandleActivation(n, i) \/ RejectActivation(n, i) \/ FailActivation(n, i)
  \/ HandleSampledToken(n, i) \/ HandleUpstreamError(n, i) \/ HandleEnd(n, i)

Serve(n) == \E i \in DOMAIN conns[Upstream(n)] : Connection(n, i)

Membership(n, p) == LeaveAlive(n, p) \/ BecomeDead(n, p) \/ BecomeAlive(n, p)

Next ==
  \/ \E r \in Req : Request(r) \/ ClientGone(r)
  \/ \E n \in Node : \/ Serve(n) \/ Crash(n) \/ Restart(n)
                     \/ \E p \in Watched(n) : Membership(n, p)

Spec == Init /\ [][Next]_vars

\* Every thread keeps running, and the detector finds a crash.
Fairness ==
  /\ \A r \in Req : WF_vars(Request(r))
  /\ \A n \in Node : /\ WF_vars(Serve(n))
                     /\ \A p \in Watched(n) : WF_vars(p \notin up /\ LeaveAlive(n, p))

FairSpec == Spec /\ Fairness
-----------------------------------------------------------------------------
(* Properties. *)

Activations == [t : {"activation"}, r : Req, k : Nat, right : BOOLEAN]
SampledTokens == [t : {"sampled_token"}, r : Req, k : Nat, right : BOOLEAN]
Errors == [t : {"error"}, r : Req]
Ends == [t : {"end"}, r : Req]
Replies ==
  [t : {"token"}, pos : Nat, final : BOOLEAN, right : BOOLEAN] \cup {Failure}

\* The outbound connections of a stage.  The tail sends sampled tokens and
\* errors to the head, the others send activations and EndRequests.  Finitely
\* many numbers are in use: every set of them has a highest.
Sent(n) == IF n = tail THEN SampledTokens \cup Errors ELSE Activations \cup Ends
Finite(D) == \A T \in SUBSET D : \E k \in T \cup {0} : \A i \in T : i <= k
Connections(c, S) ==
  /\ DOMAIN c \subseteq Nat /\ Finite(DOMAIN c)
  /\ \A i \in DOMAIN c : c[i] \in [q : Seq(S), read : BOOLEAN]

\* Types of the state: what each stage may be sent, in particular.
TypeOK ==
  /\ pc \in [Req -> {"new", "checked", "prefill", "waiting", "step", "finish",
                     "release", "aborted", "closed", "done", "raised"}]
  /\ generated \in [Req -> 0..MaxNew]
  /\ queue \in [Req -> Seq(SampledTokens \cup {Poison})]
  /\ states \subseteq Req
  /\ cache \in [Node -> [Req -> Nat \cup {NoCache}]]
  /\ DOMAIN conns = Node /\ \A n \in Node : Connections(conns[n], Sent(n))
  /\ client \in [Req -> Seq(Replies)]
  /\ gone \subseteq Req
  /\ seen \in [Node -> [Node -> {"alive", "suspect", "dead"}]]
  /\ up \subseteq Node /\ head \in up
  /\ faults \in Nat /\ suspicions \in Nat /\ crashes \in Nat /\ restarts \in Nat

\* The places of messages in the connections of a stage
Places(c) == UNION {{i} \X (1..Len(c[i].q)) : i \in DOMAIN c}
Msg(c, p) == c[p[1]].q[p[2]]

\* A message of a round of r: the round, the token it ends in, or its error
OfRound(m, r) == m.t \in {"activation", "sampled_token", "error"} /\ m.r = r

\* The places where a round of r is under way
OnTheWay(r) ==
  {z \in UNION {{n} \X Places(conns[n]) : n \in Node} : OfRound(Msg(conns[z[1]], z[2]), r)}
InQueue(r) == {j \in DOMAIN queue[r] : OfRound(queue[r][j], r)}

\* A request has at most one round under way, between all stages, connections
\* and the token queue: the head starts the next one only with the token of
\* the last (_drive_decode_loop).
OneRound ==
  \A r \in Req :
    /\ \A x, y \in OnTheWay(r) : x = y
    /\ \A x, y \in InQueue(r) : x = y
    /\ OnTheWay(r) = {} \/ InQueue(r) = {}
    /\ pc[r] \in {"new", "checked", "prefill", "step", "finish", "release"} =>
          OnTheWay(r) = {} /\ InQueue(r) = {}

\* The positions of the tokens a client gets count up, and as long as no stage
\* has restarted every token was computed with the whole sequence before it in
\* the cache of every stage (_handle_activation's setdefault must not make a
\* cache anew in the middle of a request).
TokensRight ==
  \A r \in Req : \A i \in 1..Len(client[r]) :
    client[r][i].t = "token" =>
      client[r][i].pos = i - 1 /\ (restarts = 0 => client[r][i].right)

\* A client that was told of an error, or got its final token, gets no token
\* any more.
NothingAfterTheEnd ==
  \A r \in Req : \A i \in 1..(Len(client[r]) - 1) :
    client[r][i] = Failure \/ client[r][i].final => client[r][i + 1] = Failure

\* The lookup of _drive_decode_loop, _kv_caches[request_id], never raises
\* although _handle_upstream_error drops caches in another thread.
NoKeyError == \A r \in Req : pc[r] = "step" => cache[head][r] # NoCache

\* The head keeps a state and a cache for a request only as long as its
\* thread works on it.  The code makes one exception: no handler surrounds the
\* forward of the prefill in _handle_begin, so a write that raises there ends
\* the thread before the first token and leaves both behind.
HeadReleased ==
  \A r \in Req :
    r \in states \/ cache[head][r] # NoCache =>
      \/ pc[r] \in {"prefill", "waiting", "step", "finish", "release"}
      \/ pc[r] = "raised" /\ generated[r] = 0

\* Every request is over and nothing is on its way.
Quiet ==
  /\ \A r \in Req : pc[r] = "done"
  /\ \A n \in Node : \A i \in DOMAIN conns[n] : conns[n][i].q = <<>>

\* "Send EndRequest downstream so peers drop their caches" (_broadcast_end):
\* once all is quiet, no stage has a cache, whatever failed, provided that no
\* connection was closed under an EndRequest on the word of the detector.
CachesDropped ==
  Quiet /\ crashes = 0 /\ suspicions = 0 =>
    \A n \in Node, r \in Req : cache[n][r] = NoCache

\* Every request that reaches the head is answered by a final token or an
\* error, unless its client goes away ("no hangs").
Answered ==
  \A r \in Req :
    pc[r] # "new" ~> \/ r \in gone
                     \/ /\ client[r] # <<>>
                        /\ LET last == client[r][Len(client[r])]
                           IN last = Failure \/ last.final
=============================================================================
