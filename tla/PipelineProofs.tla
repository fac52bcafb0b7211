--------------------------- MODULE PipelineProofs ---------------------------
(***************************************************************************)
(* Proofs about Pipeline: what a request goes through.                     *)
(*                                                                         *)
(* A request sees every step as one of five kinds: a step of its own       *)
(* thread; one that passes it by; its token arrives; an error arrives; the *)
(* head wakes it because a peer is no longer alive (StepKinds).  The       *)
(* invariants are shown to be kept kind by kind.                           *)
(*                                                                         *)
(* The head lets go of a request: Keeps is the converse of the Flow of     *)
(* PipelineTypes, and says which messages stay and that no reader is lost  *)
(* (the lemmas named ...Keeps).                                            *)
(***************************************************************************)
EXTENDS PipelineTypes

(* One round at a time. *)

\* At most one element
One(S) == \A x, y \in S : x = y

\* The same sets as OnTheWay and InQueue, of connections C and a queue q
WayOf(C, r) ==
  {z \in UNION {{n} \X Places(C[n]) : n \in Node} : OfRound(Msg(C[z[1]], z[2]), r)}
RoundsOf(q, r) == {j \in DOMAIN q : OfRound(q[j], r)}

\* A round of r under way is a stage and a place on its connections.
LEMMA WayDef ==
  ASSUME NEW C, NEW r, NEW n, NEW p
  PROVE  <<n, p>> \in WayOf(C, r) <=> n \in Node /\ p \in Places(C[n]) /\ OfRound(Msg(C[n], p), r)
<1>1. ASSUME n \in Node, p \in Places(C[n]), OfRound(Msg(C[n], p), r)
      PROVE  <<n, p>> \in WayOf(C, r)
  <2>1. <<n, p>> \in UNION {{k} \X Places(C[k]) : k \in Node}
    BY <1>1
  <2> QED BY Zenon, <1>1, <2>1 DEF WayOf
<1>2. ASSUME <<n, p>> \in WayOf(C, r)
      PROVE  n \in Node /\ p \in Places(C[n]) /\ OfRound(Msg(C[n], p), r)
  <2>1. PICK k \in Node : <<n, p>> \in {k} \X Places(C[k])
    BY Zenon, <1>2 DEF WayOf
  <2>2. n = k /\ p \in Places(C[k])
    BY Zenon, <2>1
  <2>3. OfRound(Msg(C[n], p), r)
    BY Zenon, <1>2 DEF WayOf
  <2> QED BY Zenon, <2>2, <2>3
<1> QED BY Zenon, <1>1, <1>2

\* The parts of one.
LEMMA WayPair ==
  ASSUME NEW C, NEW r, NEW z \in WayOf(C, r)
  PROVE  /\ z = <<z[1], z[2]>> /\ z[1] \in Node /\ z[2] \in Places(C[z[1]])
         /\ OfRound(Msg(C[z[1]], z[2]), r)
<1>1. PICK k \in Node : z \in {k} \X Places(C[k])
  BY Zenon DEF WayOf
<1>2. z = <<z[1], z[2]>> /\ z[1] = k /\ z[2] \in Places(C[k])
  BY <1>1
<1>3. OfRound(Msg(C[z[1]], z[2]), r)
  BY Zenon DEF WayOf
<1> QED BY Zenon, <1>2, <1>3

\* Where a message comes from
LEMMA Origin ==
  ASSUME NEW a, NEW N, NEW u, NEW X, Carry(a, N, u, X),
         NEW n \in Node, NEW p \in Places(conns'[n])
  PROVE  \/ n = a /\ Msg(conns'[n], p) \in N
         \/ \E o \in Places(conns[n]) : /\ n = u => o \notin X
                                        /\ Msg(conns'[n], p) = Msg(conns[n], o)
<1>1. Flow(conns'[n], conns[n], IF n = a THEN N ELSE {}, IF n = u THEN X ELSE {})
  BY Zenon DEF Carry
<1>2. PICK f \in [Places(conns'[n]) -> (Places(conns[n]) \ (IF n = u THEN X ELSE {})) \cup {New}] :
        \A q \in Places(conns'[n]) :
           IF f[q] = New THEN Msg(conns'[n], q) \in (IF n = a THEN N ELSE {})
                         ELSE Msg(conns'[n], q) = Msg(conns[n], f[q])
  BY Zenon, <1>1 DEF Flow
<1>3. CASE f[p] = New
  <2>1. Msg(conns'[n], p) \in (IF n = a THEN N ELSE {})
    BY Zenon, <1>2, <1>3
  <2> QED BY Zenon, <2>1
<1>4. CASE f[p] # New
  <2>1. f[p] \in Places(conns[n]) \ (IF n = u THEN X ELSE {})
    BY Zenon, <1>2, <1>4
  <2>2. Msg(conns'[n], p) = Msg(conns[n], f[p])
    BY Zenon, <1>2, <1>4
  <2>3. n = u => f[p] \notin X
    BY Zenon, <2>1
  <2> QED BY Zenon, <2>1, <2>2, <2>3
<1> QED BY Zenon, <1>3, <1>4

\* Two messages come from different places.
LEMMA Origins ==
  ASSUME NEW a, NEW N, NEW u, NEW X, Carry(a, N, u, X),
         NEW n \in Node, NEW p \in Places(conns'[n]), NEW q \in Places(conns'[n]), p # q
  PROVE  \E o1 \in Places(conns[n]) \cup {New}, o2 \in Places(conns[n]) \cup {New} :
           /\ o1 # o2
           /\ o1 = New => n = a /\ Msg(conns'[n], p) \in N
           /\ o1 # New => /\ Msg(conns'[n], p) = Msg(conns[n], o1)
                          /\ n = u => o1 \notin X
           /\ o2 = New => n = a /\ Msg(conns'[n], q) \in N
           /\ o2 # New => /\ Msg(conns'[n], q) = Msg(conns[n], o2)
                          /\ n = u => o2 \notin X
<1> DEFINE XN == IF n = u THEN X ELSE {}
           NN == IF n = a THEN N ELSE {}
<1>1. Flow(conns'[n], conns[n], NN, XN)
  BY Zenon DEF Carry
<1> HIDE DEF XN, NN
<1>2. PICK f \in [Places(conns'[n]) -> (Places(conns[n]) \ XN) \cup {New}] :
        /\ \A x, y \in Places(conns'[n]) : f[x] = f[y] => x = y
        /\ \A x \in Places(conns'[n]) :
             IF f[x] = New THEN Msg(conns'[n], x) \in NN
                           ELSE Msg(conns'[n], x) = Msg(conns[n], f[x])
  BY Zenon, <1>1 DEF Flow
<1>3. f[p] # f[q]
  BY Zenon, <1>2
<1>4. ASSUME NEW x \in Places(conns'[n])
      PROVE  /\ f[x] \in Places(conns[n]) \cup {New}
             /\ f[x] = New => n = a /\ Msg(conns'[n], x) \in N
             /\ f[x] # New => /\ Msg(conns'[n], x) = Msg(conns[n], f[x])
                              /\ n = u => f[x] \notin X
  <2>1. f[x] \in (Places(conns[n]) \ XN) \cup {New}
    BY Zenon, <1>2
  <2>2. IF f[x] = New THEN Msg(conns'[n], x) \in NN
                      ELSE Msg(conns'[n], x) = Msg(conns[n], f[x])
    BY Zenon, <1>2
  <2> QED BY ONLY Zenon, <2>1, <2>2 DEF XN, NN
<1>5. WITNESS f[p] \in Places(conns[n]) \cup {New}, f[q] \in Places(conns[n]) \cup {New}
<1> QED BY Zenon, <1>3, <1>4

\* Nothing of r is written.
LEMMA WayQuiet ==
  ASSUME NEW a, NEW N, NEW u, NEW X, Carry(a, N, u, X), NEW r,
         \A m \in N : ~OfRound(m, r)
  PROVE  /\ One(WayOf(conns, r)) => One(WayOf(conns', r))
         /\ WayOf(conns, r) \subseteq {u} \X X => WayOf(conns', r) = {}
         /\ WayOf(conns, r) = {} => WayOf(conns', r) = {}
<1>1. ASSUME NEW n \in Node, NEW p, <<n, p>> \in WayOf(conns', r)
      PROVE  \E o : <<n, o>> \in WayOf(conns, r) /\ ~(n = u /\ o \in X)
  <2>1. p \in Places(conns'[n]) /\ OfRound(Msg(conns'[n], p), r)
    BY Zenon, <1>1, WayDef
  <2>2. PICK o \in Places(conns[n]) : /\ n = u => o \notin X
                                      /\ Msg(conns'[n], p) = Msg(conns[n], o)
    BY <2>1, Origin
  <2> QED BY Zenon, <2>1, <2>2, WayDef
<1>2. ASSUME One(WayOf(conns, r)), NEW x \in WayOf(conns', r), NEW y \in WayOf(conns', r)
      PROVE  x = y
  <2>1. x = <<x[1], x[2]>> /\ x[1] \in Node /\ x[2] \in Places(conns'[x[1]])
        /\ OfRound(Msg(conns'[x[1]], x[2]), r)
    BY Zenon, WayPair
  <2>2. y = <<y[1], y[2]>> /\ y[1] \in Node /\ y[2] \in Places(conns'[y[1]])
        /\ OfRound(Msg(conns'[y[1]], y[2]), r)
    BY Zenon, WayPair
  <2>3. PICK o1 : <<x[1], o1>> \in WayOf(conns, r)
    BY Zenon, <1>1, <2>1
  <2>4. PICK o2 : <<y[1], o2>> \in WayOf(conns, r)
    BY Zenon, <1>1, <2>2
  <2>5. x[1] = y[1]
    <3>1. <<x[1], o1>> = <<y[1], o2>>
      BY Zenon, <1>2, <2>3, <2>4 DEF One
    <3> QED BY Zenon, <3>1
  <2>6. x[2] = y[2]
    <3> SUFFICES ASSUME x[2] # y[2] PROVE FALSE
      BY Zenon
    <3>1. y[2] \in Places(conns'[x[1]]) /\ OfRound(Msg(conns'[x[1]], y[2]), r)
      BY Zenon, <2>2, <2>5
    <3>2. PICK p1 \in Places(conns[x[1]]) \cup {New}, p2 \in Places(conns[x[1]]) \cup {New} :
            /\ p1 # p2
            /\ p1 = New => Msg(conns'[x[1]], x[2]) \in N
            /\ p1 # New => Msg(conns'[x[1]], x[2]) = Msg(conns[x[1]], p1)
            /\ p2 = New => Msg(conns'[x[1]], y[2]) \in N
            /\ p2 # New => Msg(conns'[x[1]], y[2]) = Msg(conns[x[1]], p2)
      BY <2>1, <3>1, Origins
    <3>3. p1 # New /\ p2 # New
      BY Zenon, <2>1, <3>1, <3>2
    <3>4. <<x[1], p1>> \in WayOf(conns, r) /\ <<x[1], p2>> \in WayOf(conns, r)
      BY Zenon, <2>1, <3>1, <3>2, <3>3, WayDef
    <3>5. <<x[1], p1>> = <<x[1], p2>>
      BY Zenon, <1>2, <3>4 DEF One
    <3>6. p1 = p2
      BY Zenon, <3>5
    <3> QED BY Zenon, <3>2, <3>6
  <2> QED BY Zenon, <2>1, <2>2, <2>5, <2>6
<1>3. ASSUME WayOf(conns, r) \subseteq {u} \X X, NEW x \in WayOf(conns', r) PROVE FALSE
  <2>1. x = <<x[1], x[2]>> /\ x[1] \in Node
    BY Zenon, WayPair
  <2>2. PICK o : <<x[1], o>> \in WayOf(conns, r) /\ ~(x[1] = u /\ o \in X)
    BY Zenon, <1>1, <1>3, <2>1
  <2>3. <<x[1], o>> \in {u} \X X
    BY Zenon, <1>3, <2>2
  <2> QED BY Zenon, <2>2, <2>3
<1> QED BY Zenon, <1>2, <1>3 DEF One

\* All that is under way of r is m, from a.
AllAt(C, r, a, m) == \A z \in WayOf(C, r) : z[1] = a /\ Msg(C[z[1]], z[2]) = m

\* Only m is written, and all that was under way of r is taken.
LEMMA WayMoved ==
  ASSUME NEW a, NEW m, NEW u, NEW X, Carry(a, {m}, u, X), NEW r,
         WayOf(conns, r) \subseteq {u} \X X
  PROVE  One(WayOf(conns', r)) /\ AllAt(conns', r, a, m)
<1>1. ASSUME NEW x \in WayOf(conns', r)
      PROVE  /\ x = <<x[1], x[2]>> /\ x[1] = a /\ a \in Node /\ x[2] \in Places(conns'[a])
             /\ Msg(conns'[x[1]], x[2]) = m /\ OfRound(Msg(conns'[a], x[2]), r)
  <2>1. /\ x = <<x[1], x[2]>> /\ x[1] \in Node /\ x[2] \in Places(conns'[x[1]])
        /\ OfRound(Msg(conns'[x[1]], x[2]), r)
    BY Zenon, WayPair
  <2>2. CASE x[1] = a /\ Msg(conns'[x[1]], x[2]) \in {m}
    BY Zenon, <2>1, <2>2
  <2>3. ASSUME NEW o \in Places(conns[x[1]]), x[1] = u => o \notin X,
               Msg(conns'[x[1]], x[2]) = Msg(conns[x[1]], o)
        PROVE  FALSE
    <3>1. <<x[1], o>> \in WayOf(conns, r)
      BY Zenon, <2>1, <2>3, WayDef
    <3>2. <<x[1], o>> \in {u} \X X
      BY Zenon, <3>1
    <3> QED BY Zenon, <2>3, <3>2
  <2> QED BY <2>1, <2>2, <2>3, Origin
<1>2. ASSUME NEW x \in WayOf(conns', r), NEW y \in WayOf(conns', r) PROVE x = y
  <2>1. /\ x = <<a, x[2]>> /\ a \in Node /\ x[2] \in Places(conns'[a]) /\ Msg(conns'[a], x[2]) = m
        /\ OfRound(Msg(conns'[a], x[2]), r)
    BY Zenon, <1>1
  <2>2. /\ y = <<a, y[2]>> /\ y[2] \in Places(conns'[a]) /\ Msg(conns'[a], y[2]) = m
        /\ OfRound(Msg(conns'[a], y[2]), r)
    BY Zenon, <1>1
  <2>3. ASSUME x[2] # y[2] PROVE FALSE
    <3>1. PICK p1 \in Places(conns[a]) \cup {New}, p2 \in Places(conns[a]) \cup {New} :
            /\ p1 # p2
            /\ p1 # New => Msg(conns'[a], x[2]) = Msg(conns[a], p1) /\ (a = u => p1 \notin X)
            /\ p2 # New => Msg(conns'[a], y[2]) = Msg(conns[a], p2) /\ (a = u => p2 \notin X)
      BY <2>1, <2>2, <2>3, Origins
    <3>2. ASSUME NEW p \in Places(conns[a]), Msg(conns[a], p) = m, a = u => p \notin X PROVE FALSE
      <4>1. <<a, p>> \in WayOf(conns, r)
        BY Zenon, <2>1, <3>2, WayDef
      <4>2. <<a, p>> \in {u} \X X
        BY Zenon, <4>1
      <4> QED BY Zenon, <3>2, <4>2
    <3>3. p1 = New
      BY Zenon, <2>1, <3>1, <3>2
    <3>4. p2 = New
      BY Zenon, <2>2, <3>1, <3>2
    <3> QED BY Zenon, <3>1, <3>3, <3>4
  <2> QED BY Zenon, <2>1, <2>2, <2>3
<1> QED BY Zenon, <1>1, <1>2 DEF One, AllAt
-----------------------------------------------------------------------------
(* Queues *)

\* The rounds in a queue after a put ...
LEMMA RoundsAppend ==
  ASSUME NEW S, NEW q \in Seq(S), NEW x \in S, NEW r
  PROVE  /\ ~OfRound(x, r) => RoundsOf(Append(q, x), r) = RoundsOf(q, r)
         /\ RoundsOf(q, r) = {} => One(RoundsOf(Append(q, x), r))
         /\ \A j \in RoundsOf(Append(q, x), r) : j \in RoundsOf(q, r) \/ j = Len(q) + 1
<1>1. /\ DOMAIN Append(q, x) = DOMAIN q \cup {Len(q) + 1} /\ Len(q) + 1 \notin DOMAIN q
      /\ Append(q, x)[Len(q) + 1] = x
      /\ \A j \in DOMAIN q : Append(q, x)[j] = q[j]
  OBVIOUS
<1> DEFINE t == Append(q, x)
           l == Len(q) + 1
<1>2. /\ DOMAIN t = DOMAIN q \cup {l} /\ l \notin DOMAIN q /\ t[l] = x
      /\ \A j \in DOMAIN q : t[j] = q[j]
  BY Zenon, <1>1
<1> HIDE DEF t, l
<1>3. \A j \in RoundsOf(t, r) : j \in RoundsOf(q, r) \/ (j = l /\ OfRound(x, r))
  BY Zenon, <1>2 DEF RoundsOf
<1>4. RoundsOf(q, r) \subseteq RoundsOf(t, r)
  BY Zenon, <1>2 DEF RoundsOf
<1>5. /\ ~OfRound(x, r) => RoundsOf(t, r) = RoundsOf(q, r)
      /\ RoundsOf(q, r) = {} => One(RoundsOf(t, r))
      /\ \A j \in RoundsOf(t, r) : j \in RoundsOf(q, r) \/ j = l
  BY Zenon, <1>3, <1>4 DEF One
<1> QED BY Zenon, <1>5 DEF t, l

\* ... and after a get.
LEMMA RoundsTail ==
  ASSUME NEW S, NEW q \in Seq(S), q # <<>>, NEW r, One(RoundsOf(q, r))
  PROVE  /\ One(RoundsOf(Tail(q), r))
         /\ OfRound(q[1], r) \/ RoundsOf(q, r) = {} => RoundsOf(Tail(q), r) = {}
<1> DEFINE t == Tail(q)
<1>1. \A j \in DOMAIN t : j \in Nat /\ j + 1 \in DOMAIN q /\ j + 1 # 1 /\ t[j] = q[j + 1]
  OBVIOUS
<1>2. 1 \in DOMAIN q
  OBVIOUS
<1> HIDE DEF t
<1>3. \A j \in RoundsOf(t, r) : j \in Nat /\ j + 1 \in RoundsOf(q, r) /\ j + 1 # 1
  BY Zenon, <1>1 DEF RoundsOf
<1>4. ASSUME NEW x \in RoundsOf(t, r), NEW y \in RoundsOf(t, r) PROVE x = y
  <2>1. x + 1 = y + 1 /\ x \in Nat /\ y \in Nat
    BY Zenon, <1>3 DEF One
  <2> QED BY <2>1
<1>5. ASSUME OfRound(q[1], r), NEW x \in RoundsOf(t, r) PROVE FALSE
  <2>1. 1 \in RoundsOf(q, r)
    BY Zenon, <1>2, <1>5 DEF RoundsOf
  <2> QED BY Zenon, <1>3, <2>1 DEF One
<1>6. RoundsOf(q, r) = {} => RoundsOf(t, r) = {}
  BY Zenon, <1>3
<1>7. One(RoundsOf(t, r))
  BY Zenon, <1>4 DEF One
<1> QED BY Zenon, <1>5, <1>6, <1>7 DEF t

\* What a get leaves was in the queue before.
LEMMA RoundsHead ==
  ASSUME NEW S, NEW q \in Seq(S), q # <<>>
  PROVE  1 \in DOMAIN q /\ \A j \in DOMAIN Tail(q) : \E k \in DOMAIN q : Tail(q)[j] = q[k]
<1>1. \A j \in DOMAIN Tail(q) : j \in Nat /\ j + 1 \in DOMAIN q /\ Tail(q)[j] = q[j + 1]
  OBVIOUS
<1>2. 1 \in DOMAIN q
  OBVIOUS
<1> QED BY Zenon, <1>1, <1>2
-----------------------------------------------------------------------------
(* One request, seen from the head *)

\* What a queue holds, and what a client was told
Poisoned(q) == \E j \in DOMAIN q : q[j] = Poison
Pure(q, r) == \A j \in DOMAIN q : q[j] = Poison \/ OfRound(q[j], r)
Told(c) == \E i \in DOMAIN c : c[i] = Failure
Unfinished(c) == \A i \in DOMAIN c : c[i] # Failure => ~c[i].final
Ordered(c) == \A i \in 1..(Len(c) - 1) : c[i] = Failure \/ c[i].final => c[i + 1] = Failure
Counted(c) == \A i \in 1..Len(c) : c[i].t = "token" => c[i].pos = i - 1

\* _handle_upstream_error has struck the request: its thread will find nothing
\* but the poison.
Struck(r) ==
  /\ WayOf(conns, r) = {} /\ RoundsOf(queue[r], r) = {}
  /\ Poisoned(queue[r]) /\ r \notin states

\* The rounds of r, and its queue
RoundAt(r) ==
  /\ One(WayOf(conns, r)) /\ One(RoundsOf(queue[r], r))
  /\ WayOf(conns, r) = {} \/ RoundsOf(queue[r], r) = {}
  /\ pc[r] \in {"new", "checked", "prefill", "step", "finish", "release"} =>
        WayOf(conns, r) = {} /\ RoundsOf(queue[r], r) = {}
  /\ Pure(queue[r], r)

\* The state and the cache that the head keeps for r
HeadAt(r) ==
  /\ r \in states \/ cache[head][r] # NoCache =>
        pc[r] \in {"prefill", "waiting", "step", "finish", "release", "raised"}
  /\ pc[r] = "prefill" => cache[head][r] = 0
  /\ pc[r] = "step" => cache[head][r] = generated[r]
  /\ pc[r] = "waiting" => \/ cache[head][r] = generated[r] + 1
                          \/ cache[head][r] = NoCache /\ Struck(r)
  /\ pc[r] = "release" => cache[head][r] = NoCache

\* What the client of r has been told
ClientAt(r) ==
  /\ Ordered(client[r]) /\ Counted(client[r])
  /\ pc[r] \in {"new", "checked", "prefill"} => client[r] = <<>>
  /\ pc[r] \in {"waiting", "step"} => Unfinished(client[r])
  /\ pc[r] = "step" => ~Told(client[r])
  /\ pc[r] = "waiting" /\ Told(client[r]) => Struck(r)
  /\ pc[r] \in {"waiting", "step"} /\ r \notin gone /\ ~Told(client[r]) =>
        Len(client[r]) = generated[r]

\* All that is known of a request
RequestAt(r) == RoundAt(r) /\ HeadAt(r) /\ ClientAt(r)

\* Telling a client of a failure keeps what it was told in order.
LEMMA ClientFacts ==
  ASSUME NEW c \in Seq(Replies)
  PROVE  /\ Told(Append(c, Failure))
         /\ Ordered(c) => Ordered(Append(c, Failure))
         /\ Counted(c) => Counted(Append(c, Failure))
         /\ Unfinished(c) => Unfinished(Append(c, Failure))
<1> DEFINE d == Append(c, Failure)
<1>1. /\ Len(d) = Len(c) + 1 /\ d[Len(c) + 1] = Failure
      /\ DOMAIN d = 1..(Len(c) + 1) /\ DOMAIN c = 1..Len(c) /\ Len(c) \in Nat
      /\ \A j \in 1..Len(c) : d[j] = c[j]
  OBVIOUS
<1> HIDE DEF d
<1>2. Told(d)
  BY <1>1 DEF Told
<1>3. ASSUME Ordered(c), NEW i \in 1..(Len(d) - 1), d[i] = Failure \/ d[i].final PROVE d[i + 1] = Failure
  <2>1. CASE i = Len(c)
    BY Zenon, <1>1, <2>1
  <2>2. CASE i # Len(c)
    <3> DEFINE n == Len(c)
    <3>1. Len(d) = n + 1 /\ n \in Nat /\ i # n
      BY Zenon, <1>1, <2>2
    <3> HIDE DEF n
    <3>2. i \in 1..(n - 1) /\ i \in 1..n /\ i + 1 \in 1..n
      BY <3>1
    <3>3. i \in 1..(Len(c) - 1) /\ i \in 1..Len(c) /\ i + 1 \in 1..Len(c)
      BY Zenon, <3>2 DEF n
    <3>4. d[i] = c[i] /\ d[i + 1] = c[i + 1]
      BY Zenon, <1>1, <3>3
    <3> QED BY Zenon, <1>3, <3>3, <3>4 DEF Ordered
  <2> QED BY Zenon, <2>1, <2>2
<1>4. ASSUME Counted(c), NEW i \in 1..Len(d), d[i].t = "token" PROVE d[i].pos = i - 1
  <2>1. CASE i = Len(c) + 1
    BY <1>1, <1>4, <2>1 DEF Failure
  <2>2. CASE i # Len(c) + 1
    BY <1>1, <1>4, <2>2 DEF Counted
  <2> QED BY Zenon, <2>1, <2>2
<1>5. ASSUME Unfinished(c) PROVE Unfinished(d)
  BY <1>1, <1>5 DEF Unfinished
<1> QED BY Zenon, <1>2, <1>3, <1>4, <1>5 DEF d, Ordered, Counted

\* So does the next token, unless the client has heard of the end.
LEMMA ClientToken ==
  ASSUME NEW c \in Seq(Replies), NEW f \in BOOLEAN, NEW b \in BOOLEAN,
         Ordered(c), Counted(c), Unfinished(c), ~Told(c)
  PROVE  LET d == Append(c, Token(Len(c), f, b))
         IN /\ ~Told(d) /\ Ordered(d) /\ Counted(d) /\ Len(d) = Len(c) + 1
            /\ ~f => Unfinished(d)
<1> DEFINE m == Token(Len(c), f, b)
           d == Append(c, m)
<1>1. /\ Len(d) = Len(c) + 1 /\ d[Len(c) + 1] = m
      /\ DOMAIN d = 1..(Len(c) + 1) /\ DOMAIN c = 1..Len(c) /\ Len(c) \in Nat
      /\ \A j \in 1..Len(c) : d[j] = c[j]
  OBVIOUS
<1>2. m.t = "token" /\ m.pos = Len(c) /\ m.final = f /\ m # Failure
  BY Zenon DEF Token, Failure
<1> HIDE DEF d, m
<1>3. ~Told(d)
  BY <1>1, <1>2 DEF Told
<1>4. ASSUME NEW i \in 1..(Len(d) - 1), d[i] = Failure \/ d[i].final PROVE d[i + 1] = Failure
  <2>1. i \in DOMAIN c /\ d[i] = c[i]
    BY <1>1
  <2> QED BY Zenon, <1>4, <2>1 DEF Unfinished, Told
<1>5. ASSUME NEW i \in 1..Len(d), d[i].t = "token" PROVE d[i].pos = i - 1
  <2>1. CASE i = Len(c) + 1
    BY <1>1, <1>2, <2>1
  <2>2. CASE i # Len(c) + 1
    BY <1>1, <1>5, <2>2 DEF Counted
  <2> QED BY Zenon, <2>1, <2>2
<1>6. ASSUME ~f PROVE Unfinished(d)
  BY <1>1, <1>2, <1>6 DEF Unfinished
<1> QED BY Zenon, <1>1, <1>3, <1>4, <1>5, <1>6 DEF d, m, Ordered, Counted

\* Putting a poison or a token of r keeps the queue of r.
LEMMA QueueFacts ==
  ASSUME NEW q \in Seq(SampledTokens \cup {Poison}), NEW x \in SampledTokens \cup {Poison}, NEW r
  PROVE  /\ x = Poison => RoundsOf(Append(q, x), r) = RoundsOf(q, r) /\ Poisoned(Append(q, x))
         /\ RoundsOf(q, r) = {} => One(RoundsOf(Append(q, x), r))
         /\ Pure(q, r) /\ (x = Poison \/ x.r = r) => Pure(Append(q, x), r)
<1> DEFINE T == SampledTokens \cup {Poison}
           d == Append(q, x)
<1>1. ~OfRound(Poison, r)
  BY Zenon DEF OfRound, Poison
<1>2. /\ ~OfRound(x, r) => RoundsOf(d, r) = RoundsOf(q, r)
      /\ RoundsOf(q, r) = {} => One(RoundsOf(d, r))
  <2> HIDE DEF T
  <2>1. q \in Seq(T) /\ x \in T
    BY Zenon DEF T
  <2> QED BY Zenon, <2>1, RoundsAppend
<1>3. /\ DOMAIN d = DOMAIN q \cup {Len(q) + 1}
      /\ d[Len(q) + 1] = x
      /\ \A j \in DOMAIN q : d[j] = q[j]
  OBVIOUS
<1>4. x # Poison /\ x.r = r => OfRound(x, r)
  BY Zenon DEF OfRound, SampledTokens
<1> HIDE DEF d
<1>5. x = Poison => Poisoned(d)
  BY Zenon, <1>3 DEF Poisoned
<1>6. Pure(q, r) /\ (x = Poison \/ x.r = r) => Pure(d, r)
  BY Zenon, <1>3, <1>4 DEF Pure
<1> QED BY Zenon, <1>1, <1>2, <1>5, <1>6 DEF d
-----------------------------------------------------------------------------
(* The steps of others, as the request sees them *)

\* No round of r appears; the one that was under way is gone.
WaySame(r) ==
  /\ One(WayOf(conns, r)) => One(WayOf(conns', r))
  /\ WayOf(conns, r) = {} => WayOf(conns', r) = {}
WayEnds(r) ==
  WayOf(conns, r) # {} /\ (One(WayOf(conns, r)) => WayOf(conns', r) = {})

\* What other threads leave alone
ThreadSame(r) == pc'[r] = pc[r] /\ generated'[r] = generated[r]
HeadSame(r) ==
  (r \in states' <=> r \in states) /\ cache'[head][r] = cache[head][r] /\ client'[r] = client[r]
GoneGrows(r) == r \in gone => r \in gone'

\* Messages move, are lost, or have nothing to do with r.
Aside(r) ==
  ThreadSame(r) /\ HeadSame(r) /\ GoneGrows(r) /\ queue'[r] = queue[r] /\ WaySame(r)
\* A token arrives.
Arrives(r) ==
  /\ ThreadSame(r) /\ HeadSame(r) /\ gone' = gone /\ r \in states /\ WayEnds(r)
  /\ \E m \in SampledTokens : m.r = r /\ queue'[r] = Append(queue[r], m)
\* An error arrives.
Strikes(r) ==
  /\ ThreadSame(r) /\ gone' = gone /\ WayEnds(r)
  /\ r \in states /\ r \notin states'
  /\ cache'[head][r] = NoCache
  /\ client'[r] = (IF r \in gone THEN client[r] ELSE Append(client[r], Failure))
  /\ queue'[r] = Append(queue[r], Poison)
\* The head loses confidence in a peer.
Wakes(r) ==
  /\ ThreadSame(r) /\ HeadSame(r) /\ gone' = gone /\ WaySame(r)
  /\ r \in states /\ queue'[r] = Append(queue[r], Poison)

\* The first of these steps keeps what is known of a request, ...
LEMMA AsideStep ==
  ASSUME NEW r \in Req, RequestAt(r), Aside(r)
  PROVE  RequestAt(r)'
<1>1. Struck(r) => Struck(r)'
  BY Zenon DEF Struck, Aside, WaySame, HeadSame
<1>2. RoundAt(r)'
  BY Zenon DEF RequestAt, RoundAt, Aside, WaySame, ThreadSame
<1>3. HeadAt(r)'
  BY Zenon, <1>1 DEF RequestAt, HeadAt, Aside, ThreadSame, HeadSame
<1>4. ClientAt(r)'
  BY Zenon, <1>1 DEF RequestAt, ClientAt, Aside, ThreadSame, HeadSame, GoneGrows
<1> QED BY Zenon, <1>2, <1>3, <1>4 DEF RequestAt

\* ... so does the second: the round leaves the way for the queue, ...
LEMMA ArrivesStep ==
  ASSUME TypeOK, NEW r \in Req, RequestAt(r), Arrives(r)
  PROVE  RequestAt(r)'
<1>0. queue[r] \in Seq(SampledTokens \cup {Poison})
  BY Zenon DEF TypeOK
<1>1. ~Struck(r)
  BY Zenon DEF Struck, Arrives
<1>2. RoundAt(r)'
  <2>1. PICK m \in SampledTokens : m.r = r /\ queue'[r] = Append(queue[r], m)
    BY Zenon DEF Arrives
  <2>2. /\ RoundsOf(queue[r], r) = {} => One(RoundsOf(queue'[r], r))
        /\ Pure(queue[r], r) => Pure(queue'[r], r)
    BY Zenon, <1>0, <2>1, QueueFacts
  <2>3. WayOf(conns, r) # {} /\ (One(WayOf(conns, r)) => WayOf(conns', r) = {}) /\ pc'[r] = pc[r]
    BY Zenon DEF Arrives, WayEnds, ThreadSame
  <2> QED BY Zenon, <2>2, <2>3 DEF RequestAt, RoundAt, One
<1>3. HeadAt(r)'
  BY Zenon, <1>1 DEF RequestAt, HeadAt, Arrives, ThreadSame, HeadSame
<1>4. ClientAt(r)'
  BY Zenon, <1>1 DEF RequestAt, ClientAt, Arrives, ThreadSame, HeadSame
<1> QED BY Zenon, <1>2, <1>3, <1>4 DEF RequestAt

\* ... the fourth: the thread finds a poison besides its token, ...
LEMMA WakesStep ==
  ASSUME TypeOK, NEW r \in Req, RequestAt(r), Wakes(r)
  PROVE  RequestAt(r)'
<1>0. queue[r] \in Seq(SampledTokens \cup {Poison})
  BY Zenon DEF TypeOK
<1>1. ~Struck(r)
  BY Zenon DEF Struck, Wakes
<1>2. RoundAt(r)'
  <2>1. /\ RoundsOf(queue'[r], r) = RoundsOf(queue[r], r)
        /\ Pure(queue[r], r) => Pure(queue'[r], r)
    BY Zenon, <1>0, QueueFacts DEF Wakes
  <2>2. WaySame(r) /\ pc'[r] = pc[r]
    BY Zenon DEF Wakes, ThreadSame
  <2> QED BY Zenon, <2>1, <2>2 DEF RequestAt, RoundAt, WaySame
<1>3. HeadAt(r)'
  BY Zenon, <1>1 DEF RequestAt, HeadAt, Wakes, ThreadSame, HeadSame
<1>4. ClientAt(r)'
  BY Zenon, <1>1 DEF RequestAt, ClientAt, Wakes, ThreadSame, HeadSame
<1> QED BY Zenon, <1>2, <1>3, <1>4 DEF RequestAt

\* ... and the third: nothing of the request is left but the poison.
LEMMA StrikesStep ==
  ASSUME TypeOK, NEW r \in Req, RequestAt(r), Strikes(r)
  PROVE  RequestAt(r)'
<1>0. queue[r] \in Seq(SampledTokens \cup {Poison}) /\ client[r] \in Seq(Replies)
  BY Zenon DEF TypeOK
<1>1. pc'[r] = pc[r] /\ generated'[r] = generated[r] /\ pc[r] \in {"waiting", "raised"}
  BY Zenon DEF Strikes, ThreadSame, WayEnds, RequestAt, RoundAt, HeadAt
<1>2. /\ RoundsOf(queue'[r], r) = RoundsOf(queue[r], r) /\ Poisoned(queue'[r])
      /\ Pure(queue[r], r) => Pure(queue'[r], r)
  BY Zenon, <1>0, QueueFacts DEF Strikes
<1>3. WayOf(conns', r) = {} /\ RoundsOf(queue'[r], r) = {} /\ Pure(queue'[r], r)
  BY Zenon, <1>2 DEF Strikes, WayEnds, RequestAt, RoundAt
<1>4. Struck(r)'
  BY Zenon, <1>2, <1>3 DEF Struck, Strikes
<1>5. RoundAt(r)'
  BY Zenon, <1>1, <1>3 DEF RoundAt, One
<1>6. HeadAt(r)'
  BY Zenon, <1>1, <1>4 DEF HeadAt, Strikes
<1>7. ClientAt(r)'
  <2>1. CASE r \in gone
    BY Zenon, <1>1, <1>4, <2>1 DEF RequestAt, ClientAt, Strikes
  <2>2. CASE r \notin gone
    <3>1. client'[r] = Append(client[r], Failure)
      BY Zenon, <2>2 DEF Strikes
    <3>2. /\ Told(client'[r]) /\ Ordered(client'[r]) /\ Counted(client'[r])
          /\ Unfinished(client[r]) => Unfinished(client'[r])
      BY Zenon, <1>0, <3>1, ClientFacts DEF RequestAt, ClientAt
    <3> QED BY Zenon, <1>1, <1>4, <3>2 DEF RequestAt, ClientAt
  <2> QED BY Zenon, <2>1, <2>2
<1> QED BY Zenon, <1>5, <1>6, <1>7 DEF RequestAt

\* A step that writes no round of r.
LEMMA CarryQuiet ==
  ASSUME NEW a, NEW N, NEW u, NEW X, Carry(a, N, u, X), NEW r, \A m \in N : ~OfRound(m, r)
  PROVE  WaySame(r)
BY Zenon, WayQuiet DEF WaySame

\* A round of r is taken ...
LEMMA TakenWay ==
  ASSUME TypeOK, NEW n \in Node, NEW i, Pending(n, i), NEW r, OfRound(Message(n, i), r)
  PROVE  /\ WayOf(conns, r) # {}
         /\ One(WayOf(conns, r)) => WayOf(conns, r) \subseteq {Upstream(n)} \X {<<i, 1>>}
<1> DEFINE z == <<Upstream(n), <<i, 1>>>>
<1>1. z \in WayOf(conns, r)
  BY Zenon, PendingFacts, WayDef
<1>2. z \in {Upstream(n)} \X {<<i, 1>>}
  BY Zenon
<1> HIDE DEF z
<1> QED BY Zenon, <1>1, <1>2 DEF One

\* ... and nothing written instead.
LEMMA TakenEnds ==
  ASSUME TypeOK, NEW n \in Node, NEW i, Pending(n, i), NEW r, OfRound(Message(n, i), r),
         Carry(n, {}, Upstream(n), {<<i, 1>>})
  PROVE  WayEnds(r)
<1>1. WayOf(conns, r) \subseteq {Upstream(n)} \X {<<i, 1>>} => WayOf(conns', r) = {}
  BY Zenon, WayQuiet
<1> QED BY Zenon, <1>1, TakenWay DEF WayEnds

\* ... and m written instead.
LEMMA TakenMoves ==
  ASSUME TypeOK, NEW n \in Node, NEW i, Pending(n, i), NEW r, NEW m,
         OfRound(m, r) => OfRound(Message(n, i), r),
         Carry(n, {m}, Upstream(n), {<<i, 1>>})
  PROVE  WaySame(r)
<1>1. CASE OfRound(m, r)
  <2>1. WayOf(conns, r) \subseteq {Upstream(n)} \X {<<i, 1>>} => One(WayOf(conns', r))
    BY Zenon, WayMoved
  <2> QED BY Zenon, <1>1, <2>1, TakenWay DEF WaySame
<1>2. CASE ~OfRound(m, r)
  BY <1>2, CarryQuiet
<1> QED BY Zenon, <1>1, <1>2

\* How a step that is not its own looks to a request
Handled(r) == Aside(r) \/ Arrives(r) \/ Strikes(r)
Elsewhere(r) == Handled(r) \/ Wakes(r)

\* Which messages are part of a round: all but the EndRequest.
LEMMA RoundKinds ==
  /\ \A m \in Activations : \A r : OfRound(m, r) <=> m.r = r
  /\ \A m \in SampledTokens : \A r : OfRound(m, r) <=> m.r = r
  /\ \A m \in Errors : \A r : OfRound(m, r) <=> m.r = r
  /\ \A s, r : ~OfRound(End(s), r)
BY Zenon DEF OfRound, Activations, SampledTokens, Errors, End

\* What a stage passes on belongs to the request it has computed for.
LEMMA OutRound ==
  ASSUME NEW n, NEW m, NEW b, NEW r
  PROVE  OfRound(Out(n, m, b), r) <=> m.r = r
BY Zenon DEF Out, OfRound, Activation, SampledToken

\* The thread of a connection, as any request sees it.
LEMMA ConnectionElsewhere ==
  ASSUME TypeOK, NEW n \in Node, NEW i, Connection(n, i), NEW r \in Req
  PROVE  Handled(r)
<1> DEFINE m == Message(n, i)
<1>0. head \in Node /\ DOMAIN cache = Node /\ (\A k \in Node : DOMAIN cache[k] = Req)
      /\ DOMAIN queue = Req /\ DOMAIN client = Req
  BY Zenon, NodeFacts DEF TypeOK
<1>1. ASSUME HandleActivation(n, i) PROVE Handled(r)
  <2>1. /\ n # head /\ m \in Activations /\ Pending(n, i)
        /\ cache' = [cache EXCEPT ![n][m.r] = Held(n, m.r) + 1]
        /\ Carry(n, {Out(n, m, m.right /\ Held(n, m.r) = m.k)}, Upstream(n), {<<i, 1>>})
        /\ UNCHANGED <<threads, gone, seen, up, budgets>>
    BY Zenon, <1>1, ActivationCarry
  <2>2. WaySame(r)
    BY Zenon, <2>1, TakenMoves, OutRound, RoundKinds
  <2>3. cache'[head][r] = cache[head][r]
    BY Zenon, <1>0, <2>1
  <2> QED BY Zenon, <2>1, <2>2, <2>3
          DEF Handled, Aside, ThreadSame, HeadSame, GoneGrows, threads
<1>2. ASSUME RejectActivation(n, i) PROVE Handled(r)
  <2>1. /\ m \in Activations /\ Pending(n, i) /\ Error(m.r) \in Errors
        /\ \/ Carry(n, {}, Upstream(n), {<<i, 1>>})
           \/ n = tail /\ Carry(n, {Error(m.r)}, Upstream(n), {<<i, 1>>})
        /\ UNCHANGED <<threads, cache, gone, seen, up, suspicions, crashes, restarts>>
    BY Zenon, <1>2, RejectCarry
  <2>2. OfRound(Error(m.r), r) => OfRound(m, r)
    BY Zenon, <2>1, RoundKinds DEF Error
  <2>3. WaySame(r)
    BY <2>1, <2>2, TakenMoves, CarryQuiet
  <2> QED BY Zenon, <2>1, <2>3
          DEF Handled, Aside, ThreadSame, HeadSame, GoneGrows, threads
<1>3. ASSUME FailActivation(n, i) PROVE Handled(r)
  <2>1. /\ n # head /\ m \in Activations /\ DropCache(n, m.r)
        /\ Carry(n, {}, Upstream(n), {<<i, 1>>})
        /\ UNCHANGED <<threads, gone, seen, up, suspicions, crashes, restarts>>
    BY Zenon, <1>3, FailCarry
  <2>2. WaySame(r)
    BY <2>1, CarryQuiet
  <2>3. cache'[head][r] = cache[head][r]
    BY Zenon, <1>0, <2>1 DEF DropCache
  <2> QED BY Zenon, <2>1, <2>2, <2>3
          DEF Handled, Aside, ThreadSame, HeadSame, GoneGrows, threads
<1>4. ASSUME HandleSampledToken(n, i) PROVE Handled(r)
  <2>1. /\ m \in SampledTokens /\ Pending(n, i)
        /\ Carry(n, {}, Upstream(n), {<<i, 1>>})
        /\ queue' = (IF m.r \in states THEN [queue EXCEPT ![m.r] = Append(@, m)] ELSE queue)
        /\ UNCHANGED <<pc, generated, states, cache, client, gone, seen, up, budgets>>
    BY Zenon, <1>4, TokenCarry
  <2>2. WaySame(r)
    BY <2>1, CarryQuiet
  <2>3. CASE m.r = r /\ r \in states
    <3>1. WayEnds(r)
      BY Zenon, <2>1, <2>3, TakenEnds, RoundKinds
    <3>2. queue'[r] = Append(queue[r], m)
      BY Zenon, <1>0, <2>1, <2>3
    <3> QED BY Zenon, <2>1, <2>3, <3>1, <3>2 DEF Handled, Arrives, ThreadSame, HeadSame
  <2>4. CASE ~(m.r = r /\ r \in states)
    <3>1. queue'[r] = queue[r]
      BY Zenon, <1>0, <2>1, <2>4
    <3> QED BY Zenon, <2>1, <2>2, <3>1 DEF Handled, Aside, ThreadSame, HeadSame, GoneGrows
  <2> QED BY Zenon, <2>3, <2>4
<1>5. ASSUME HandleUpstreamError(n, i) PROVE Handled(r)
  <2> DEFINE s == m.r
  <2>1. /\ m \in Errors /\ Pending(n, i) /\ s \in Req
        /\ Carry(n, {}, Upstream(n), {<<i, 1>>})
        /\ \/ s \notin states /\ UNCHANGED <<queue, states, cache, client>>
           \/ /\ s \in states /\ Reply(s, Failure) /\ DropCache(head, s)
              /\ queue' = [queue EXCEPT ![s] = Append(@, Poison)]
              /\ states' = states \ {s}
        /\ UNCHANGED <<pc, generated, gone, seen, up, budgets>>
    BY Zenon, <1>5, ErrorCarry
  <2>2. WaySame(r)
    BY <2>1, CarryQuiet
  <2>3. CASE s \notin states
    BY Zenon, <2>1, <2>2, <2>3 DEF Handled, Aside, ThreadSame, HeadSame, GoneGrows
  <2>4. CASE s \in states /\ s = r
    <3>1. WayEnds(r)
      BY Zenon, <2>1, <2>4, TakenEnds, RoundKinds
    <3>2. /\ cache'[head][r] = NoCache
          /\ queue'[r] = Append(queue[r], Poison)
          /\ client'[r] = (IF r \in gone THEN client[r] ELSE Append(client[r], Failure))
      <4>1. /\ Reply(r, Failure) /\ DropCache(head, r)
            /\ queue' = [queue EXCEPT ![r] = Append(@, Poison)]
        BY Zenon, <2>1, <2>4
      <4>2. cache'[head][r] = NoCache
        BY Zenon, <1>0, <4>1 DEF DropCache
      <4>3. queue'[r] = Append(queue[r], Poison)
        BY Zenon, <1>0, <4>1
      <4>4. client'[r] = (IF r \in gone THEN client[r] ELSE Append(client[r], Failure))
        BY Zenon, <1>0, <4>1 DEF Reply
      <4> QED BY Zenon, <4>2, <4>3, <4>4
    <3> QED BY Zenon, <2>1, <2>4, <3>1, <3>2 DEF Handled, Strikes, ThreadSame
  <2>5. CASE s \in states /\ s # r
    <3>1. /\ cache'[head][r] = cache[head][r]
          /\ queue'[r] = queue[r] /\ client'[r] = client[r]
      BY <1>0, <2>1, <2>5 DEF DropCache, Reply
    <3> QED BY Zenon, <2>1, <2>2, <2>5, <3>1 DEF Handled, Aside, ThreadSame, HeadSame, GoneGrows
  <2> QED BY Zenon, <2>3, <2>4, <2>5
<1>6. ASSUME HandleEnd(n, i) PROVE Handled(r)
  <2>1. /\ n # head /\ DropCache(n, m.r)
        /\ \/ n = tail /\ Carry(n, {}, Upstream(n), {<<i, 1>>})
           \/ n # tail /\ Carry(n, {End(m.r)}, Upstream(n), {<<i, 1>>})
        /\ UNCHANGED <<threads, gone, seen, up, budgets>>
    BY Zenon, <1>6, EndCarry
  <2>2. WaySame(r)
    BY <2>1, CarryQuiet, RoundKinds
  <2>3. cache'[head][r] = cache[head][r]
    BY Zenon, <1>0, <2>1 DEF DropCache
  <2> QED BY Zenon, <2>1, <2>2, <2>3
          DEF Handled, Aside, ThreadSame, HeadSame, GoneGrows, threads
<1> QED BY Zenon, <1>1, <1>2, <1>3, <1>4, <1>5, <1>6 DEF Connection

\* The failure detector: only a peer that is no longer alive wakes a request.
LEMMA MembershipElsewhere ==
  ASSUME TypeOK, NEW n \in Node, NEW p \in Watched(n), Membership(n, p), NEW r \in Req
  PROVE  Handled(r) \/ (Wakes(r) /\ LeaveAlive(n, p))
<1>1. WaySame(r)
  BY MembershipCarry, CarryQuiet
<1>2. CASE LeaveAlive(n, p) /\ n = head /\ r \in states
  <2>1. /\ queue' = [s \in Req |-> IF s \in states THEN Append(queue[s], Poison) ELSE queue[s]]
        /\ UNCHANGED <<pc, generated, states, cache, client, gone>>
    BY Zenon, <1>2 DEF LeaveAlive
  <2>2. queue'[r] = Append(queue[r], Poison)
    BY Zenon, <1>2, <2>1
  <2> QED BY Zenon, <1>1, <1>2, <2>1, <2>2 DEF Wakes, ThreadSame, HeadSame
<1>3. CASE LeaveAlive(n, p) /\ ~(n = head /\ r \in states)
  <2>1. /\ UNCHANGED <<pc, generated, states, cache, client, gone>>
        /\ queue' = (IF n = head THEN [s \in Req |-> IF s \in states THEN Append(queue[s], Poison)
                                                                     ELSE queue[s]]
                                 ELSE queue)
    BY Zenon, <1>3 DEF LeaveAlive
  <2>2. queue'[r] = queue[r]
    BY Zenon, <1>3, <2>1
  <2> QED BY Zenon, <1>1, <2>1, <2>2 DEF Handled, Aside, ThreadSame, HeadSame, GoneGrows
<1>4. CASE BecomeDead(n, p) \/ BecomeAlive(n, p)
  BY Zenon, <1>1, <1>4 DEF BecomeDead, BecomeAlive, Handled, Aside, ThreadSame, HeadSame, GoneGrows, threads
<1> QED BY Zenon, <1>2, <1>3, <1>4 DEF Membership

\* A crash or a restart of another stage.
LEMMA StageElsewhere ==
  ASSUME TypeOK, NEW n \in Node, Crash(n) \/ Restart(n), NEW r \in Req
  PROVE  Handled(r)
<1>1. WaySame(r)
  <2>1. CASE Crash(n)
    BY Zenon, <2>1, CrashCarry, CarryQuiet DEF Crash
  <2>2. CASE Restart(n)
    BY <2>2, SameCarry, CarryQuiet DEF Restart
  <2> QED BY Zenon, <2>1, <2>2
<1>2. cache'[head][r] = cache[head][r]
  BY Zenon, NodeFacts DEF Crash, Restart, TypeOK
<1> QED BY Zenon, <1>1, <1>2
        DEF Crash, Restart, Handled, Aside, ThreadSame, HeadSame, GoneGrows, threads

\* A client goes away.
LEMMA GoneElsewhere ==
  ASSUME TypeOK, NEW s \in Req, ClientGone(s), NEW r \in Req
  PROVE  Handled(r)
<1>1. WaySame(r)
  BY SameCarry, CarryQuiet DEF ClientGone
<1> QED BY Zenon, <1>1 DEF ClientGone, Handled, Aside, ThreadSame, HeadSame, GoneGrows, threads

\* What the thread of a request writes belongs to that request.
LEMMA OtherWay ==
  ASSUME TypeOK, NEW s \in Req, Request(s), NEW r \in Req, r # s
  PROVE  WaySame(r)
<1>1. PICK N \in SUBSET {Started(s), End(s)} : Carry(head, N, head, {})
  BY Zenon, RequestConns
<1>2. ~OfRound(Started(s), r) /\ ~OfRound(End(s), r)
  BY Zenon DEF OfRound, Started, Activation, End
<1> QED BY Zenon, <1>1, <1>2, CarryQuiet

\* The thread of another request.
LEMMA OtherElsewhere ==
  ASSUME TypeOK, NEW s \in Req, Request(s), NEW r \in Req, r # s
  PROVE  Handled(r)
<1>0. /\ pc \in [Req -> {"new", "checked", "prefill", "waiting", "step", "finish",
                         "release", "aborted", "closed", "done", "raised"}]
      /\ DOMAIN generated = Req /\ DOMAIN queue = Req /\ DOMAIN client = Req
      /\ DOMAIN cache = Node /\ head \in Node /\ DOMAIN cache[head] = Req
  BY Zenon, NodeFacts DEF TypeOK
<1>1. Aside(r)
  <2>1. pc'[r] = pc[r] /\ gone' = gone
    BY Zenon, <1>0 DEF Request, BeginCheck, BeginRegister, Prefill, PrefillFails, Decode, DecodeStep,
                DecodeFails, Finish, Release, Hangup, EndAborted, Abort, At
  <2>2. generated'[r] = generated[r] /\ queue'[r] = queue[r]
    BY Zenon, <1>0 DEF Request, BeginCheck, BeginRegister, Prefill, PrefillFails, Decode, DecodeStep,
                DecodeFails, Finish, Release, Hangup, EndAborted
  <2>3. r \in states' <=> r \in states
    BY Zenon DEF Request, BeginCheck, BeginRegister, Prefill, PrefillFails, Decode, DecodeStep,
           DecodeFails, Finish, Release, Hangup, EndAborted, Abort
  <2>4. cache'[head][r] = cache[head][r]
    BY Zenon, <1>0 DEF Request, BeginCheck, BeginRegister, Prefill, PrefillFails, Decode, DecodeStep,
                DecodeFails, Finish, Release, Hangup, EndAborted, Abort, DropCache, Grow, BroadcastEnd
  <2>5. client'[r] = client[r]
    BY Zenon, <1>0 DEF Request, BeginCheck, BeginRegister, Prefill, PrefillFails, Decode, DecodeStep,
                DecodeFails, Finish, Release, Hangup, EndAborted, Abort, Reply
  <2> QED BY Zenon, <2>1, <2>2, <2>3, <2>4, <2>5, OtherWay
          DEF Aside, ThreadSame, HeadSame, GoneGrows
<1> QED BY Zenon, <1>1 DEF Handled

-----------------------------------------------------------------------------
(* The steps of the request's own thread *)

\* The queue after the thread has taken its first entry.
LEMMA TailFacts ==
  ASSUME NEW q \in Seq(SampledTokens \cup {Poison}), q # <<>>, NEW r,
         One(RoundsOf(q, r)), Pure(q, r)
  PROVE  /\ One(RoundsOf(Tail(q), r)) /\ Pure(Tail(q), r)
         /\ RoundsOf(q, r) = {} => RoundsOf(Tail(q), r) = {} /\ q[1] = Poison
         /\ q[1] # Poison => 1 \in RoundsOf(q, r) /\ RoundsOf(Tail(q), r) = {}
<1> DEFINE T == SampledTokens \cup {Poison}
<1>1. q \in Seq(T)
  BY Zenon
<1> HIDE DEF T
<1>2. /\ One(RoundsOf(Tail(q), r))
      /\ OfRound(q[1], r) \/ RoundsOf(q, r) = {} => RoundsOf(Tail(q), r) = {}
  BY Zenon, <1>1, RoundsTail
<1>3. 1 \in DOMAIN q /\ \A j \in DOMAIN Tail(q) : \E k \in DOMAIN q : Tail(q)[j] = q[k]
  BY Zenon, <1>1, RoundsHead
<1>4. Pure(Tail(q), r)
  BY Zenon, <1>3 DEF Pure
<1>5. q[1] = Poison \/ (OfRound(q[1], r) /\ 1 \in RoundsOf(q, r))
  BY Zenon, <1>3 DEF Pure, RoundsOf
<1> QED BY Zenon, <1>2, <1>4, <1>5

\* The thread gives up, or is done.
LEMMA OverStep ==
  ASSUME TypeOK, NEW r \in Req, RequestAt(r), WaySame(r),
         pc'[r] \in {"aborted", "closed", "done"},
         r \notin states', cache'[head][r] = NoCache,
         queue'[r] = queue[r] \/ (queue[r] # <<>> /\ queue'[r] = Tail(queue[r])),
         client'[r] = client[r] \/ client'[r] = Append(client[r], Failure)
  PROVE  RequestAt(r)'
<1>0. queue[r] \in Seq(SampledTokens \cup {Poison}) /\ client[r] \in Seq(Replies)
  BY Zenon DEF TypeOK
<1>1. /\ One(RoundsOf(queue'[r], r)) /\ Pure(queue'[r], r)
      /\ RoundsOf(queue[r], r) = {} => RoundsOf(queue'[r], r) = {}
  BY <1>0, TailFacts DEF RequestAt, RoundAt
<1>2. RoundAt(r)'
  BY Zenon, <1>1 DEF RequestAt, RoundAt, WaySame
<1>3. HeadAt(r)'
  BY Zenon DEF HeadAt
<1>4. Ordered(client'[r]) /\ Counted(client'[r])
  BY Zenon, <1>0, ClientFacts DEF RequestAt, ClientAt
<1>5. ClientAt(r)'
  BY Zenon, <1>4 DEF ClientAt
<1> QED BY Zenon, <1>2, <1>3, <1>5 DEF RequestAt

\* A round starts: the prefill or the next one.
LEMMA StartStep ==
  ASSUME TypeOK, CountInv, NEW r \in Req, RequestAt(r), pc[r] \in {"prefill", "step"},
         Carry(head, {Started(r)}, head, {}), pc'[r] \in {"waiting", "raised"},
         generated'[r] = generated[r], queue'[r] = queue[r], client'[r] = client[r], gone' = gone,
         cache'[head][r] = cache[head][r] + 1
  PROVE  RequestAt(r)'
<1>1. WayOf(conns, r) = {} /\ RoundsOf(queue[r], r) = {} /\ Pure(queue[r], r)
  BY Zenon DEF RequestAt, RoundAt
<1>2. One(WayOf(conns', r))
  BY Zenon, <1>1, WayMoved
<1>3. RoundAt(r)'
  BY Zenon, <1>1, <1>2 DEF RoundAt, One
<1>4. cache[head][r] = generated[r] /\ generated[r] \in Nat /\ generated[r] < MaxNew
  <2>1. generated[r] \in Nat /\ MaxNew \in Nat \ {0}
    BY PipelineAssumption DEF TypeOK
  <2>2. CASE pc[r] = "step"
    BY Zenon, <2>1, <2>2 DEF RequestAt, HeadAt, CountInv
  <2>3. CASE pc[r] = "prefill"
    BY <2>1, <2>3 DEF RequestAt, HeadAt, CountInv
  <2> QED BY Zenon, <2>2, <2>3
<1>5. HeadAt(r)'
  BY Zenon, <1>4 DEF HeadAt
<1>6. /\ ~Told(client[r]) /\ Unfinished(client[r])
      /\ r \notin gone => Len(client[r]) = generated[r]
  <2>1. CASE pc[r] = "step"
    BY Zenon, <2>1 DEF RequestAt, ClientAt
  <2>2. CASE pc[r] = "prefill"
    <3>1. client[r] = <<>> /\ generated[r] = 0
      BY Zenon, <2>2 DEF RequestAt, ClientAt, CountInv
    <3> QED BY <3>1 DEF Told, Unfinished
  <2> QED BY Zenon, <2>1, <2>2
<1>7. ClientAt(r)'
  BY Zenon, <1>6 DEF RequestAt, ClientAt
<1> QED BY Zenon, <1>3, <1>5, <1>7 DEF RequestAt

\* A token goes to the client.
LEMMA DeliverStep ==
  ASSUME TypeOK, CountInv, NEW r \in Req, RequestAt(r), pc[r] = "waiting",
         queue[r] # <<>>, queue[r][1] # Poison, NEW g, g = generated[r] + 1,
         pc'[r] = (IF g >= MaxNew THEN "finish" ELSE "step"),
         generated'[r] = g, queue'[r] = Tail(queue[r]), gone' = gone, conns' = conns,
         cache'[head][r] = cache[head][r], NEW b \in BOOLEAN,
         client'[r] = IF r \in gone THEN client[r]
                      ELSE Append(client[r], Token(g - 1, g >= MaxNew, b))
  PROVE  RequestAt(r)'
<1>0. /\ queue[r] \in Seq(SampledTokens \cup {Poison}) /\ client[r] \in Seq(Replies)
      /\ generated[r] \in Nat /\ MaxNew \in Nat
  BY PipelineAssumption DEF TypeOK
<1>1. /\ 1 \in RoundsOf(queue[r], r) /\ RoundsOf(Tail(queue[r]), r) = {} /\ Pure(Tail(queue[r]), r)
  BY Zenon, <1>0, TailFacts DEF RequestAt, RoundAt
<1>2. WayOf(conns, r) = {} /\ ~Struck(r)
  BY Zenon, <1>1 DEF RequestAt, RoundAt, Struck
<1>3. RoundAt(r)'
  BY Zenon, <1>1, <1>2 DEF RoundAt, One
<1>4. cache[head][r] = generated[r] + 1
  BY Zenon, <1>2 DEF RequestAt, HeadAt
<1>5. HeadAt(r)'
  BY Zenon, <1>4 DEF HeadAt
<1>6. /\ ~Told(client[r]) /\ Unfinished(client[r]) /\ Ordered(client[r]) /\ Counted(client[r])
      /\ r \notin gone => Len(client[r]) = generated[r]
  BY Zenon, <1>2 DEF RequestAt, ClientAt
<1>7. CASE r \in gone
  <2>1. ClientAt(r)'
    BY Zenon, <1>6, <1>7 DEF ClientAt
  <2> QED BY Zenon, <1>3, <1>5, <2>1 DEF RequestAt
<1>8. CASE r \notin gone
  <2> DEFINE f == g >= MaxNew
  <2>1. f \in BOOLEAN /\ g - 1 = Len(client[r])
    BY <1>0, <1>6, <1>8
  <2>2. client'[r] = Append(client[r], Token(Len(client[r]), f, b))
    BY Zenon, <1>8, <2>1
  <2>3. pc'[r] \in {"step", "finish"} /\ (pc'[r] = "step" => ~f)
    BY Zenon
  <2> HIDE DEF f
  <2>4. /\ ~Told(client'[r]) /\ Ordered(client'[r]) /\ Counted(client'[r])
        /\ Len(client'[r]) = Len(client[r]) + 1
        /\ ~f => Unfinished(client'[r])
    BY ONLY <1>0, <1>6, <2>1, <2>2, b \in BOOLEAN, ClientToken
  <2>5. ClientAt(r)'
    BY Zenon, <1>6, <1>8, <2>3, <2>4 DEF ClientAt
  <2> QED BY Zenon, <1>3, <1>5, <2>5 DEF RequestAt
<1> QED BY Zenon, <1>7, <1>8

\* An exception in _drive_decode_loop
LEMMA AbortStep ==
  ASSUME TypeOK, NEW r \in Req, RequestAt(r), Abort(r),
         queue'[r] = queue[r] \/ (queue[r] # <<>> /\ queue'[r] = Tail(queue[r]))
  PROVE  RequestAt(r)'
<1>1. /\ pc'[r] = "aborted" /\ r \notin states' /\ cache'[head][r] = NoCache
      /\ client'[r] = client[r] \/ client'[r] = Append(client[r], Failure)
  BY Zenon, NodeFacts DEF Abort, At, DropCache, Reply, TypeOK
<1>2. WaySame(r)
  <2>1. conns' = conns
    BY Zenon DEF Abort
  <2>2. Carry(head, {}, head, {})
    BY Zenon, <2>1, SameCarry
  <2>3. \A m \in {} : ~OfRound(m, r)
    BY Zenon
  <2> QED BY ONLY <2>2, <2>3, CarryQuiet
<1> QED BY Zenon, <1>1, <1>2, OverStep

\* _broadcast_end writes no round ...
LEMMA EndQuiet ==
  ASSUME TypeOK, NEW s \in Req, BroadcastEnd(s), NEW r
  PROVE  WaySame(r)
<1>1. Carry(head, {End(s)}, head, {})
  BY Zenon, BroadcastCarry
<1>2. \A m \in {End(s)} : ~OfRound(m, r)
  BY Zenon, RoundKinds
<1> QED BY <1>1, <1>2, CarryQuiet

\* ... and neither does _close_outbound.
LEMMA CloseQuiet ==
  ASSUME TypeOK, conns' = [conns EXCEPT ![head] = CloseOutbound(@)], NEW r
  PROVE  WaySame(r)
<1>1. head \in Node
  BY PipelineAssumption DEF head, Node
<1>2. Carry(head, {}, head, {})
  BY Zenon, <1>1, CloseCarry
<1> QED BY <1>2, CarryQuiet

\* Every step of its own thread keeps what is known of a request.
LEMMA OwnStep ==
  ASSUME TypeOK, CountInv, NEW r \in Req, RequestAt(r), Request(r)
  PROVE  RequestAt(r)'
<1>0. /\ pc \in [Req -> {"new", "checked", "prefill", "waiting", "step", "finish",
                         "release", "aborted", "closed", "done", "raised"}]
      /\ generated \in [Req -> 0..MaxNew] /\ DOMAIN queue = Req /\ DOMAIN client = Req
      /\ DOMAIN cache = Node /\ head \in Node /\ DOMAIN cache[head] = Req
  BY Zenon, NodeFacts DEF TypeOK
<1>1. ASSUME BeginCheck(r) PROVE RequestAt(r)'
  <2>1. /\ conns' = conns /\ generated'[r] = generated[r] /\ queue'[r] = queue[r] /\ states' = states
        /\ cache'[head][r] = cache[head][r] /\ gone' = gone /\ pc[r] = "new"
        /\ \/ pc'[r] = "checked" /\ client'[r] = client[r]
           \/ /\ pc'[r] = "done"
              /\ client'[r] = client[r] \/ client'[r] = Append(client[r], Failure)
    BY Zenon, <1>0, <1>1 DEF BeginCheck, At, Reply
  <2>2. WaySame(r)
    BY <2>1, SameCarry, CarryQuiet
  <2>3. r \notin states' /\ cache'[head][r] = NoCache
    BY Zenon, <2>1 DEF RequestAt, HeadAt
  <2>4. CASE pc'[r] = "done"
    BY Zenon, <2>1, <2>2, <2>3, <2>4, OverStep
  <2>5. CASE pc'[r] = "checked" /\ client'[r] = client[r]
    <3>1. RoundAt(r)'
      BY Zenon, <2>1, <2>5 DEF RequestAt, RoundAt
    <3>2. HeadAt(r)'
      BY Zenon, <2>3, <2>5 DEF HeadAt
    <3>3. ClientAt(r)'
      BY Zenon, <2>1, <2>5 DEF RequestAt, ClientAt
    <3> QED BY Zenon, <3>1, <3>2, <3>3 DEF RequestAt
  <2> QED BY Zenon, <2>1, <2>4, <2>5
<1>2. ASSUME BeginRegister(r) PROVE RequestAt(r)'
  <2>1. /\ conns' = conns /\ queue'[r] = queue[r] /\ cache'[head][r] = 0
        /\ pc[r] = "checked" /\ pc'[r] = "prefill" /\ client'[r] = client[r]
    BY Zenon, <1>0, <1>2 DEF BeginRegister, At
  <2>2. RoundAt(r)'
    BY Zenon, <2>1 DEF RequestAt, RoundAt
  <2>3. HeadAt(r)'
    BY Zenon, <2>1 DEF HeadAt
  <2>4. ClientAt(r)'
    BY Zenon, <2>1 DEF RequestAt, ClientAt
  <2> QED BY Zenon, <2>2, <2>3, <2>4 DEF RequestAt
<1>3. ASSUME Prefill(r) PROVE RequestAt(r)'
  <2>1. /\ pc[r] = "prefill" /\ pc'[r] \in {"waiting", "raised"}
        /\ generated'[r] = generated[r] /\ queue'[r] = queue[r] /\ client'[r] = client[r]
        /\ gone' = gone /\ cache'[head][r] = cache[head][r] + 1
    BY Zenon, <1>0, <1>3 DEF Prefill, At, Grow
  <2>2. Carry(head, {Started(r)}, head, {})
    BY Zenon, <1>3, ForwardCarry DEF Prefill
  <2> QED BY Zenon, <2>1, <2>2, StartStep
<1>4. ASSUME PrefillFails(r) PROVE RequestAt(r)'
  <2>1. /\ pc'[r] = "done" /\ r \notin states' /\ cache'[head][r] = NoCache
        /\ client'[r] = client[r] \/ client'[r] = Append(client[r], Failure)
        /\ queue'[r] = queue[r] /\ conns' = conns
    BY Zenon, <1>0, <1>4 DEF PrefillFails, At, DropCache, Reply
  <2>2. WaySame(r)
    BY <2>1, SameCarry, CarryQuiet
  <2> QED BY Zenon, <2>1, <2>2, OverStep
<1>5. ASSUME Decode(r) PROVE RequestAt(r)'
  <2>1. pc[r] = "waiting" /\ queue[r] # <<>> /\ queue'[r] = Tail(queue[r])
    BY Zenon, <1>0, <1>5 DEF Decode
  <2>2. CASE Abort(r)
    BY Zenon, <2>1, <2>2, AbortStep
  <2>3. CASE ~Abort(r)
    <3> DEFINE g == generated[r] + 1
    <3>1. /\ queue[r][1] # Poison
          /\ generated' = [generated EXCEPT ![r] = g]
          /\ Reply(r, Token(g - 1, g >= MaxNew, queue[r][1].right))
          /\ At(r, IF g >= MaxNew THEN "finish" ELSE "step")
          /\ UNCHANGED <<states, cache, conns>> /\ gone' = gone
      BY Zenon, <1>5, <2>3 DEF Decode
    <3>2. queue[r][1].right \in BOOLEAN
      <4>1. queue[r] \in Seq(SampledTokens \cup {Poison})
        BY Zenon DEF TypeOK
      <4>2. queue[r][1] \in SampledTokens \cup {Poison}
        BY <2>1, <4>1
      <4> QED BY Zenon, <3>1, <4>2 DEF SampledTokens
    <3> HIDE DEF g
    <3>3. generated'[r] = g
      BY Zenon, <1>0, <3>1
    <3>4. pc'[r] = IF g >= MaxNew THEN "finish" ELSE "step"
      BY Zenon, <1>0, <3>1 DEF At
    <3>5. client'[r] = IF r \in gone THEN client[r]
                       ELSE Append(client[r], Token(g - 1, g >= MaxNew, queue[r][1].right))
      BY Zenon, <1>0, <3>1 DEF Reply
    <3>6. g = generated[r] + 1
      BY Zenon DEF g
    <3> QED BY Zenon, <2>1, <3>1, <3>2, <3>3, <3>4, <3>5, <3>6, DeliverStep
  <2> QED BY Zenon, <2>2, <2>3
<1>6. ASSUME DecodeStep(r) PROVE RequestAt(r)'
  <2>1. /\ pc[r] = "step" /\ generated' = generated /\ queue' = queue /\ gone' = gone
    BY Zenon, <1>6 DEF DecodeStep
  <2>2. cache[head][r] # NoCache
    BY <1>0, <2>1 DEF RequestAt, HeadAt, NoCache
  <2>3. CASE Abort(r)
    BY Zenon, <2>1, <2>3, AbortStep
  <2>4. CASE ~Abort(r)
    <3>1. PICK w \in Forward(r) : /\ conns' = [conns EXCEPT ![head] = w.c]
                                  /\ Grow(r) /\ At(r, "waiting") /\ client' = client
      BY Zenon, <1>6, <2>2, <2>4 DEF DecodeStep
    <3>2. Carry(head, {Started(r)}, head, {})
      BY Zenon, <3>1, ForwardCarry
    <3>3. cache'[head][r] = cache[head][r] + 1 /\ pc'[r] = "waiting"
      BY Zenon, <1>0, <3>1 DEF Grow, At
    <3> QED BY Zenon, <2>1, <3>1, <3>2, <3>3, StartStep
  <2> QED BY Zenon, <2>3, <2>4
<1>7. ASSUME DecodeFails(r) PROVE RequestAt(r)'
  BY Zenon, <1>7, AbortStep DEF DecodeFails
<1>8. ASSUME Finish(r) PROVE RequestAt(r)'
  <2>1. /\ pc[r] = "finish" /\ pc'[r] = "release" /\ cache'[head][r] = NoCache
        /\ queue'[r] = queue[r] /\ client'[r] = client[r] /\ BroadcastEnd(r)
    BY Zenon, <1>0, <1>8 DEF Finish, At, BroadcastEnd, DropCache
  <2>2. WaySame(r)
    BY Zenon, <2>1, EndQuiet
  <2>3. RoundAt(r)'
    BY Zenon, <2>1, <2>2 DEF RequestAt, RoundAt, WaySame
  <2>4. HeadAt(r)'
    BY Zenon, <2>1 DEF HeadAt
  <2>5. ClientAt(r)'
    BY Zenon, <2>1 DEF RequestAt, ClientAt
  <2> QED BY Zenon, <2>3, <2>4, <2>5 DEF RequestAt
<1>9. ASSUME Release(r) PROVE RequestAt(r)'
  <2>1. /\ pc[r] = "release" /\ pc'[r] = "done" /\ r \notin states' /\ cache' = cache
        /\ queue' = queue /\ client' = client
    BY Zenon, <1>0, <1>9 DEF Release, At
  <2>2. WaySame(r)
    BY Zenon, <1>9, CloseQuiet DEF Release
  <2>3. cache'[head][r] = NoCache
    BY Zenon, <2>1 DEF RequestAt, HeadAt
  <2> QED BY Zenon, <2>1, <2>2, <2>3, OverStep
<1>10. ASSUME Hangup(r) PROVE RequestAt(r)'
  <2>1. /\ pc[r] = "aborted" /\ pc'[r] = "closed" /\ states' = states /\ cache' = cache
        /\ queue' = queue /\ client' = client
    BY Zenon, <1>0, <1>10 DEF Hangup, At
  <2>2. WaySame(r)
    BY Zenon, <1>10, CloseQuiet DEF Hangup
  <2>3. r \notin states' /\ cache'[head][r] = NoCache
    BY Zenon, <2>1 DEF RequestAt, HeadAt
  <2> QED BY Zenon, <2>1, <2>2, <2>3, OverStep
<1>11. ASSUME EndAborted(r) PROVE RequestAt(r)'
  <2>1. /\ pc[r] = "closed" /\ pc'[r] = "done" /\ states' = states /\ cache'[head][r] = NoCache
        /\ queue' = queue /\ client' = client /\ BroadcastEnd(r)
    BY Zenon, <1>0, <1>11 DEF EndAborted, At, BroadcastEnd, DropCache
  <2>2. WaySame(r)
    BY Zenon, <2>1, EndQuiet
  <2>3. r \notin states'
    BY Zenon, <2>1 DEF RequestAt, HeadAt
  <2> QED BY Zenon, <2>1, <2>2, <2>3, OverStep
<1> QED BY Zenon, <1>1, <1>2, <1>3, <1>4, <1>5, <1>6, <1>7, <1>8, <1>9, <1>10, <1>11 DEF Request

\* And so does every other step.
LEMMA ElsewhereStep ==
  ASSUME TypeOK, NEW r \in Req, RequestAt(r), Elsewhere(r)
  PROVE  RequestAt(r)'
BY Zenon, AsideStep, ArrivesStep, StrikesStep, WakesStep DEF Elsewhere, Handled

\* The steps of Next, by who takes them
LEMMA StepKinds ==
  ASSUME TypeOK, [Next]_vars, NEW r \in Req
  PROVE  \/ Request(r) \/ Handled(r)
         \/ Wakes(r) /\ \E n \in Node : \E p \in Watched(n) : LeaveAlive(n, p)
<1>1. ASSUME NEW s \in Req, Request(s) PROVE Request(r) \/ Handled(r)
  BY Zenon, <1>1, OtherElsewhere
<1>2. ASSUME NEW s \in Req, ClientGone(s) PROVE Handled(r)
  BY Zenon, <1>2, GoneElsewhere
<1>3. ASSUME NEW n \in Node, Serve(n) PROVE Handled(r)
  BY Zenon, <1>3, ConnectionElsewhere DEF Serve
<1>4. ASSUME NEW n \in Node, Crash(n) \/ Restart(n) PROVE Handled(r)
  BY Zenon, <1>4, StageElsewhere
<1>5. ASSUME NEW n \in Node, NEW p \in Watched(n), Membership(n, p)
      PROVE  Handled(r) \/ (Wakes(r) /\ LeaveAlive(n, p))
  BY Zenon, <1>5, MembershipElsewhere
<1>6. ASSUME UNCHANGED vars PROVE Handled(r)
  <2>1. WaySame(r)
    BY <1>6, SameCarry, CarryQuiet DEF vars
  <2> QED BY Zenon, <1>6, <2>1 DEF vars, Handled, Aside, ThreadSame, HeadSame, GoneGrows
<1> QED BY Zenon, <1>1, <1>2, <1>3, <1>4, <1>5, <1>6 DEF Next

\* The inductive invariant of the requests
RequestInv == TypeOK /\ CountInv /\ \A r \in Req : RequestAt(r)

\* It holds at the start ...
LEMMA RequestInit == Init => RequestInv
<1> SUFFICES ASSUME Init PROVE RequestInv
  BY Zenon
<1>1. ASSUME NEW r \in Req PROVE RequestAt(r)
  <2>1. /\ pc[r] = "new" /\ generated[r] = 0 /\ queue[r] = <<>> /\ r \notin states
        /\ client[r] = <<>> /\ cache[head][r] = NoCache
    BY PipelineAssumption DEF Init, Node, head
  <2>2. WayOf(conns, r) = {}
    <3> SUFFICES ASSUME NEW z \in WayOf(conns, r) PROVE FALSE
      BY Zenon
    <3>1. z[1] \in Node /\ z[2] \in Places(conns[z[1]])
      BY Zenon, WayPair
    <3>2. DOMAIN conns[z[1]] = {}
      BY Zenon, <3>1 DEF Init
    <3> QED BY Zenon, <3>1, <3>2, PlacePair
  <2>3. RoundsOf(queue[r], r) = {} /\ Pure(queue[r], r)
    <3>1. DOMAIN queue[r] = {}
      BY <2>1
    <3> QED BY Zenon, <3>1 DEF RoundsOf, Pure
  <2>4. RoundAt(r)
    BY Zenon, <2>2, <2>3 DEF RoundAt, One
  <2>5. HeadAt(r)
    BY Zenon, <2>1 DEF HeadAt
  <2>6. Ordered(client[r]) /\ Counted(client[r])
    BY <2>1 DEF Ordered, Counted
  <2>7. ClientAt(r)
    BY Zenon, <2>1, <2>6 DEF ClientAt
  <2> QED BY Zenon, <2>4, <2>5, <2>7 DEF RequestAt
<1> QED BY Zenon, <1>1, TypeInit DEF RequestInv

\* ... and is kept by every step.
LEMMA RequestNext == RequestInv /\ [Next]_vars => RequestInv'
<1> SUFFICES ASSUME RequestInv, [Next]_vars PROVE RequestInv'
  BY Zenon
<1>1. TypeOK' /\ CountInv'
  BY Zenon, TypeStep DEF RequestInv
<1>2. ASSUME NEW r \in Req PROVE RequestAt(r)'
  <2>1. TypeOK /\ CountInv /\ RequestAt(r)
    BY Zenon DEF RequestInv
  <2> QED BY Zenon, <2>1, StepKinds, OwnStep, ElsewhereStep DEF Elsewhere
<1> QED BY Zenon, <1>1, <1>2 DEF RequestInv

\* The inductive invariant: of every request at most one round exists, on the way
\* or in the queue, what the head holds agrees with where its thread is, and what
\* its client was told is in order.
THEOREM PipelineRequests == Spec => []RequestInv
<1> QED BY RequestInit, RequestNext, PTL DEF Spec

\* Of every request at most one round exists at any time, on some stage's
\* connections or in the queue of its thread: the thread writes the next one only
\* after it has taken the token of the last, and an error ends the rounds.
THEOREM PipelineOneRound == Spec => []OneRound
<1>1. RequestInv => OneRound
  BY Zenon DEF RequestInv, RequestAt, RoundAt, OneRound, OnTheWay, InQueue, WayOf, RoundsOf, One
<1> QED BY <1>1, PipelineRequests, PTL

\* _drive_decode_loop's lookup _kv_caches[request_id] finds the cache, although
\* _handle_upstream_error drops caches from the thread of another connection:
\* when it has dropped this one, the next entry of the queue is the poison and
\* the thread does not get to the lookup.
THEOREM PipelineNoKeyError == Spec => []NoKeyError
<1>1. RequestInv => NoKeyError
  <2> SUFFICES ASSUME RequestInv, NEW r \in Req, pc[r] = "step" PROVE cache[head][r] # NoCache
    BY Zenon DEF NoKeyError
  <2>1. cache[head][r] = generated[r] /\ generated[r] \in Nat
    BY DEF RequestInv, RequestAt, HeadAt, TypeOK
  <2> QED BY <2>1 DEF NoCache
<1> QED BY <1>1, PipelineRequests, PTL

\* No token follows a final one or an error on a client's connection, although
\* _handle_upstream_error and _drive_decode_loop both write to it: the order of
\* the entries in the queue keeps the thread from sending one.
THEOREM PipelineNothingAfterTheEnd == Spec => []NothingAfterTheEnd
<1>1. RequestInv => NothingAfterTheEnd
  BY Zenon DEF RequestInv, RequestAt, ClientAt, Ordered, NothingAfterTheEnd
<1> QED BY <1>1, PipelineRequests, PTL

\* The connections of a stage have their type.
LEMMA ConnsTyped ==
  ASSUME TypeOK, NEW k \in Node
  PROVE  DOMAIN conns = Node /\ Connections(conns[k], Sent(k))
BY Zenon DEF TypeOK

-----------------------------------------------------------------------------
(* What a stage's connections keep: d, when they were c, are read if c were,  *)
(* and hold every message of c outside X.                                     *)

\* Every connection has a reader; m is on one of them; a change of the
\* connections that loses the reader of none and no message outside X
AllRead(c) == \A i \in DOMAIN c : c[i].read
Carries(c, m) == \E i \in DOMAIN c : \E j \in 1..Len(c[i].q) : c[i].q[j] = m
Keeps(d, c, X) ==
  /\ AllRead(c) => AllRead(d)
  /\ \A m : m \notin X /\ Carries(c, m) => Carries(d, m)

\* Connections that stay.
LEMMA KeepsSame == ASSUME NEW c, NEW X PROVE Keeps(c, c, X)
BY Zenon DEF Keeps

\* Two changes after one another.
LEMMA KeepsTrans ==
  ASSUME NEW c, NEW d, NEW e, NEW X, Keeps(d, c, X), Keeps(e, d, {})
  PROVE  Keeps(e, c, X)
BY Zenon DEF Keeps

\* Connection i of c becomes connection k of d; the others stay.
OthersStay(d, k, c, i) ==
  /\ \A j \in DOMAIN d : j = k \/ (j \in DOMAIN c /\ d[j] = c[j])
  /\ \A j \in DOMAIN c : j # i => j \in DOMAIN d /\ d[j] = c[j]
MovesOver(d, k, c, i, X) ==
  \A m : (i \in DOMAIN c /\ m \notin X /\ \E j \in 1..Len(c[i].q) : c[i].q[j] = m)
           => k \in DOMAIN d /\ \E j \in 1..Len(d[k].q) : d[k].q[j] = m

\* A change of one connection.
LEMMA KeepsOne ==
  ASSUME NEW c, NEW d, NEW X, NEW i, NEW k, OthersStay(d, k, c, i), MovesOver(d, k, c, i, X),
         AllRead(c) /\ k \in DOMAIN d => d[k].read
  PROVE  Keeps(d, c, X)
<1> USE DEF OthersStay, MovesOver
<1>1. AllRead(c) => AllRead(d)
  BY Zenon DEF AllRead
<1>2. ASSUME NEW m, m \notin X, Carries(c, m) PROVE Carries(d, m)
  <2>1. PICK a \in DOMAIN c : \E j \in 1..Len(c[a].q) : c[a].q[j] = m
    BY Zenon, <1>2 DEF Carries
  <2>2. CASE a = i
    BY <1>2, <2>1, <2>2 DEF Carries
  <2>3. CASE a # i
    BY <2>1, <2>3 DEF Carries
  <2> QED BY Zenon, <2>2, <2>3
<1> QED BY Zenon, <1>1, <1>2 DEF Keeps

\* Closing the outbound stream loses nothing that was written.
LEMMA KeepsClose ==
  ASSUME NEW c, NEW S, Connections(c, S)
  PROVE  Keeps(CloseOutbound(c), c, {})
<1>1. CASE ~IsOpen(c)
  BY Zenon, <1>1, KeepsSame DEF CloseOutbound
<1>2. CASE IsOpen(c)
  <2> DEFINE u == Unused(c)
             d == CloseOutbound(c)
             e == Without(c, 0)
  <2>1. u # 0 /\ u \notin DOMAIN c /\ 0 \in DOMAIN c
    BY Zenon, <1>2, UnusedIsFree DEF Connections, IsOpen
  <2>2. d = IF c[0].q = <<>> THEN Without(e, u) ELSE With(e, u, c[0])
    BY Zenon, <1>2, <2>1 DEF CloseOutbound, Becomes
  <2>3. DOMAIN e = DOMAIN c \ {0} /\ \A j \in DOMAIN e : e[j] = c[j]
    BY Zenon DEF Without
  <2> HIDE DEF u, d, e
  <2>4. CASE c[0].q = <<>>
    <3>1. d = Without(e, u)
      BY Zenon, <2>2, <2>4
    <3>2. DOMAIN d = DOMAIN c \ {0} /\ \A j \in DOMAIN d : d[j] = c[j]
      BY Zenon, <2>1, <2>3, <3>1 DEF Without
    <3>3. \A m : ~\E j \in 1..Len(c[0].q) : c[0].q[j] = m
      BY <2>4
    <3>4. OthersStay(d, u, c, 0) /\ MovesOver(d, u, c, 0, {})
      BY Zenon, <2>1, <3>2, <3>3 DEF OthersStay, MovesOver
    <3>5. u \notin DOMAIN d
      BY Zenon, <2>1, <3>2
    <3>6. Keeps(d, c, {})
      BY ONLY Zenon, <3>4, <3>5, KeepsOne
    <3> QED BY Zenon, <3>6 DEF d
  <2>5. CASE c[0].q # <<>>
    <3>1. d = With(e, u, c[0])
      BY Zenon, <2>2, <2>5
    <3>2. /\ DOMAIN d = (DOMAIN c \ {0}) \cup {u} /\ d[u] = c[0]
          /\ \A j \in DOMAIN d : j # u => d[j] = c[j]
      BY Zenon, <2>1, <2>3, <3>1 DEF With
    <3>3. AllRead(c) => d[u].read
      BY Zenon, <2>1, <3>2 DEF AllRead
    <3>4. OthersStay(d, u, c, 0) /\ MovesOver(d, u, c, 0, {})
      BY Zenon, <2>1, <3>2 DEF OthersStay, MovesOver
    <3>5. Keeps(d, c, {})
      BY ONLY Zenon, <3>3, <3>4, KeepsOne
    <3> QED BY Zenon, <3>5 DEF d
  <2> QED BY Zenon, <2>4, <2>5
<1> QED BY Zenon, <1>1, <1>2

\* Taking a message loses that message only.
LEMMA KeepsTake ==
  ASSUME NEW c, NEW S, Connections(c, S), NEW i \in DOMAIN c, c[i].q # <<>>
  PROVE  Keeps(Becomes(c, i, [c[i] EXCEPT !.q = Tail(@)]), c, {Head(c[i].q)})
<1> DEFINE x == [c[i] EXCEPT !.q = Tail(@)]
           d == Becomes(c, i, x)
           q == c[i].q
<1>1. c[i] \in [q : Seq(S), read : BOOLEAN]
  BY Zenon DEF Connections
<1>2. x.q = Tail(q) /\ x.read = c[i].read /\ q \in Seq(S)
  BY Zenon, <1>1
<1>3. \A m : m # Head(q) /\ (\E j \in 1..Len(q) : q[j] = m) => \E j \in 1..Len(Tail(q)) : Tail(q)[j] = m
  <2> HIDE DEF q
  <2> SUFFICES ASSUME NEW m, m # Head(q), NEW j \in 1..Len(q), q[j] = m
               PROVE  \E k \in 1..Len(Tail(q)) : Tail(q)[k] = m
    BY Zenon
  <2>1. j # 1 /\ Len(Tail(q)) = Len(q) - 1 /\ Len(q) \in Nat /\ q # <<>>
    BY <1>2 DEF q
  <2>2. j - 1 \in 1..Len(Tail(q)) /\ Tail(q)[j - 1] = m
    BY <1>2, <2>1
  <2> QED BY Zenon, <2>2
<1>4. /\ OthersStay(d, i, c, i)
      /\ i \in DOMAIN d => d[i] = x
      /\ i \in DOMAIN d \/ x.q = <<>>
  BY Zenon DEF Becomes, With, Without, OthersStay
<1> HIDE DEF x, d
<1>5. AllRead(c) /\ i \in DOMAIN d => d[i].read
  BY Zenon, <1>2, <1>4 DEF AllRead
<1>6. MovesOver(d, i, c, i, {Head(q)})
  <2> SUFFICES ASSUME NEW m, m # Head(q), \E j \in 1..Len(c[i].q) : c[i].q[j] = m
               PROVE  i \in DOMAIN d /\ \E j \in 1..Len(d[i].q) : d[i].q[j] = m
    BY Zenon DEF MovesOver
  <2>1. PICK j \in 1..Len(Tail(q)) : Tail(q)[j] = m
    BY Zenon, <1>3
  <2>2. Len(Tail(q)) # 0 /\ Len(<<>>) = 0
    BY <2>1
  <2> HIDE DEF q
  <2>3. x.q # <<>>
    BY ONLY Zenon, <1>2, <2>2
  <2> QED BY Zenon, <1>2, <1>4, <2>1, <2>3
<1>7. Keeps(d, c, {Head(q)})
  <2> HIDE DEF q
  <2> QED BY ONLY Zenon, <1>4, <1>5, <1>6, KeepsOne
<1> QED BY Zenon, <1>7 DEF d, x, q

\* A write loses nothing, and on streams that are read it arrives.
LEMMA KeepsWrite ==
  ASSUME NEW c, NEW S, Connections(c, S), NEW m, NEW n, NEW w \in WriteOut(n, c, m)
  PROVE  /\ Keeps(w.c, c, {})
         /\ AllRead(c) /\ Downstream(n) \in up => Carries(w.c, m) /\ w.raised = FALSE
<1>1. CASE /\ w.c = c
           /\ \/ IsOpen(c) /\ ~c[0].read
              \/ ~IsOpen(c) /\ Downstream(n) \notin up
  BY Zenon, <1>1, KeepsSame DEF AllRead, IsOpen
<1>2. CASE /\ IsOpen(c) /\ c[0].read /\ w.raised = FALSE
           /\ w.c = [c EXCEPT ![0].q = Append(@, m)]
  <2> DEFINE d == w.c
  <2>1. c[0] \in [q : Seq(S), read : BOOLEAN] /\ 0 \in DOMAIN c
    BY Zenon, <1>2 DEF Connections, IsOpen
  <2>2. /\ DOMAIN d = DOMAIN c /\ \A j \in DOMAIN c : j # 0 => d[j] = c[j]
        /\ d[0].q = Append(c[0].q, m) /\ d[0].read = c[0].read
    BY Zenon, <1>2, <2>1
  <2>3. c[0].q \in Seq(S)
    BY Zenon, <2>1
  <2>4. /\ Len(Append(c[0].q, m)) = Len(c[0].q) + 1 /\ Len(c[0].q) \in Nat
        /\ Append(c[0].q, m)[Len(c[0].q) + 1] = m
        /\ \A j \in 1..Len(c[0].q) : Append(c[0].q, m)[j] = c[0].q[j]
    BY <2>3
  <2> HIDE DEF d
  <2>5. \A x : (\E j \in 1..Len(c[0].q) : c[0].q[j] = x) => \E j \in 1..Len(d[0].q) : d[0].q[j] = x
    <3> SUFFICES ASSUME NEW x, NEW j \in 1..Len(c[0].q), c[0].q[j] = x
                 PROVE  j \in 1..Len(d[0].q) /\ d[0].q[j] = x
      BY Zenon
    <3> QED BY <2>2, <2>4
  <2>6. Keeps(d, c, {})
    <3>1. OthersStay(d, 0, c, 0) /\ MovesOver(d, 0, c, 0, {})
      BY Zenon, <2>1, <2>2, <2>5 DEF OthersStay, MovesOver
    <3>2. d[0].read
      BY Zenon, <1>2, <2>2
    <3> QED BY ONLY Zenon, <3>1, <3>2, KeepsOne
  <2>7. Carries(d, m)
    <3>1. Len(c[0].q) + 1 \in 1..Len(d[0].q) /\ d[0].q[Len(c[0].q) + 1] = m
      BY <2>2, <2>4
    <3> QED BY Zenon, <2>1, <2>2, <3>1 DEF Carries
  <2> QED BY Zenon, <1>2, <2>6, <2>7 DEF d
<1>3. CASE /\ ~IsOpen(c) /\ Downstream(n) \in up /\ w.raised = FALSE
           /\ w.c = Dial(c, m)
  <2> DEFINE d == w.c
  <2>1. /\ DOMAIN d = DOMAIN c \cup {0} /\ 0 \notin DOMAIN c
        /\ d[0] = [q |-> <<m>>, read |-> TRUE] /\ \A j \in DOMAIN c : d[j] = c[j]
    BY Zenon, <1>3 DEF Dial, With, IsOpen
  <2> HIDE DEF d
  <2>2. d[0].q = <<m>> /\ d[0].read
    BY <2>1
  <2>3. Keeps(d, c, {})
    <3>1. OthersStay(d, 0, c, 0) /\ MovesOver(d, 0, c, 0, {})
      BY Zenon, <2>1, <2>2 DEF OthersStay, MovesOver
    <3> QED BY ONLY Zenon, <2>2, <3>1, KeepsOne
  <2>4. 1 \in 1..Len(<<m>>) /\ <<m>>[1] = m
    OBVIOUS
  <2>5. Carries(d, m)
    BY <2>1, <2>2, <2>4 DEF Carries
  <2> QED BY Zenon, <1>3, <2>3, <2>5 DEF d
<1> QED BY Zenon, <1>1, <1>2, <1>3, WriteCases

\* The head writes m, which the next stage will get if it reads.
LEMMA HeadWriteKeeps ==
  ASSUME TypeOK, NEW m, NEW w \in WriteOut(head, conns[head], m),
         conns' = [conns EXCEPT ![head] = w.c]
  PROVE  /\ \A k \in Node : Keeps(conns'[k], conns[k], {})
         /\ AllRead(conns[head]) /\ up = Node => Carries(conns'[head], m) /\ w.raised = FALSE
<1>1. head \in Node /\ Downstream(head) \in Node /\ DOMAIN conns = Node
  BY Zenon, NodeFacts, PipelineAssumption DEF TypeOK, head, Node
<1>2. conns'[head] = w.c /\ \A k \in Node : k # head => conns'[k] = conns[k]
  BY Zenon, <1>1
<1>3. /\ Keeps(w.c, conns[head], {})
      /\ AllRead(conns[head]) /\ Downstream(head) \in up => Carries(w.c, m) /\ w.raised = FALSE
  BY Zenon, <1>1, ConnsTyped, KeepsWrite
<1> QED BY Zenon, <1>1, <1>2, <1>3, KeepsSame

\* A stage closes its outbound stream.
LEMMA CloseKeeps ==
  ASSUME TypeOK, NEW n \in Node, conns' = [conns EXCEPT ![n] = CloseOutbound(@)]
  PROVE  \A k \in Node : Keeps(conns'[k], conns[k], {})
<1>1. conns'[n] = CloseOutbound(conns[n]) /\ \A k \in Node : k # n => conns'[k] = conns[k]
  BY Zenon DEF TypeOK
<1>2. Keeps(CloseOutbound(conns[n]), conns[n], {})
  BY Zenon, ConnsTyped, KeepsClose
<1> QED BY Zenon, <1>1, <1>2, KeepsSame

\* No connection changes.
LEMMA SameKeeps ==
  ASSUME conns' = conns
  PROVE  \A k \in Node : Keeps(conns'[k], conns[k], {})
BY Zenon, KeepsSame

\* The thread of a request loses nothing that was written ...
LEMMA RequestKeeps ==
  ASSUME TypeOK, NEW r \in Req, Request(r)
  PROVE  \A k \in Node : Keeps(conns'[k], conns[k], {})
<1> DEFINE G == \A k \in Node : Keeps(conns'[k], conns[k], {})
<1>0. head \in Node
  BY PipelineAssumption DEF head, Node
<1>1. (conns' = conns) => G
  BY Zenon, SameKeeps
<1>2. (conns' = [conns EXCEPT ![head] = CloseOutbound(@)]) => G
  BY Zenon, <1>0, CloseKeeps
<1>3. ASSUME NEW m, NEW w \in WriteOut(head, conns[head], m), conns' = [conns EXCEPT ![head] = w.c]
      PROVE  G
  BY Zenon, <1>3, HeadWriteKeeps
<1>4. BroadcastEnd(r) => G
  BY Zenon, <1>3 DEF BroadcastEnd
<1>5. (\E w \in Forward(r) : conns' = [conns EXCEPT ![head] = w.c]) => G
  BY Zenon, <1>3 DEF Forward
<1> HIDE DEF G
<1>6. G
  BY Zenon, <1>1, <1>2, <1>4, <1>5
     DEF Request, BeginCheck, BeginRegister, Prefill, PrefillFails, Decode, DecodeStep,
         DecodeFails, Finish, Release, Hangup, EndAborted, Abort
<1> QED BY Zenon, <1>6 DEF G

\* ... nor does the failure detector.
LEMMA MembershipKeeps ==
  ASSUME TypeOK, NEW n \in Node, NEW p \in Watched(n), Membership(n, p)
  PROVE  \A k \in Node : Keeps(conns'[k], conns[k], {})
<1>1. conns' = conns \/ conns' = [conns EXCEPT ![n] = CloseOutbound(@)]
  BY Zenon DEF Membership, LeaveAlive, BecomeDead, BecomeAlive
<1> QED BY Zenon, <1>1, SameKeeps, CloseKeeps

\* The connections after a step of a connection's thread.
LEMMA TrafficConns ==
  ASSUME TypeOK, NEW n \in Node, NEW c, NEW d, Traffic(n, c, d)
  PROVE  /\ conns'[Upstream(n)] = c /\ conns'[n] = d
         /\ \A k \in Node : k # n /\ k # Upstream(n) => conns'[k] = conns[k]
BY Zenon, NodeFacts DEF TypeOK, Traffic

\* They keep all but the message taken.
LEMMA TrafficKeeps ==
  ASSUME TypeOK, NEW n \in Node, NEW i, Pending(n, i), NEW d, Traffic(n, Taken(n, i), d),
         Keeps(d, conns[n], {})
  PROVE  \A k \in Node :
           Keeps(conns'[k], conns[k], IF k = Upstream(n) THEN {Message(n, i)} ELSE {})
<1>1. Keeps(Taken(n, i), conns[Upstream(n)], {Message(n, i)})
  <2>1. /\ i \in DOMAIN conns[Upstream(n)] /\ conns[Upstream(n)][i].q # <<>>
        /\ Connections(conns[Upstream(n)], Sent(Upstream(n)))
    BY Zenon, PendingFacts
  <2> QED BY Zenon, <2>1, KeepsTake DEF Taken, Message
<1> QED BY <1>1, TrafficConns, KeepsSame, NodeFacts

\* So does every thread of a connection that does not raise.
LEMMA ConnectionKeeps ==
  ASSUME TypeOK, NEW n \in Node, NEW i, Connection(n, i), ~FailActivation(n, i)
  PROVE  \A k \in Node :
           Keeps(conns'[k], conns[k], IF k = Upstream(n) THEN {Message(n, i)} ELSE {})
<1>1. Pending(n, i)
  BY Zenon DEF Connection, HandleActivation, RejectActivation, HandleSampledToken, HandleUpstreamError,
         HandleEnd
<1>2. Connections(conns[n], Sent(n)) /\ Keeps(CloseOutbound(conns[n]), conns[n], {})
  BY Zenon, ConnsTyped, KeepsClose
<1>3. ASSUME NEW m, NEW w \in WriteOut(n, conns[n], m)
      PROVE  Keeps(w.c, conns[n], {})
  BY Zenon, <1>2, KeepsWrite
<1>4. ASSUME NEW m \in Sent(n), NEW w \in WriteOut(n, conns[n], m)
      PROVE  Keeps(CloseOutbound(w.c), conns[n], {})
  <2>1. Connections(w.c, Sent(n))
    BY Zenon, <1>2, WriteTypes
  <2>2. Keeps(CloseOutbound(w.c), w.c, {})
    BY Zenon, <2>1, KeepsClose
  <2> QED BY Zenon, <1>3, <2>2, KeepsTrans
<1> DEFINE G == \E d : Traffic(n, Taken(n, i), d) /\ Keeps(d, conns[n], {})
<1>5. G
  <2>1. ASSUME HandleActivation(n, i) PROVE G
    BY Zenon, <1>3, <2>1 DEF HandleActivation
  <2>2. ASSUME RejectActivation(n, i) PROVE G
    BY Zenon, <1>2, <1>3, <2>2 DEF RejectActivation
  <2>3. ASSUME HandleSampledToken(n, i) \/ HandleUpstreamError(n, i) PROVE G
    BY Zenon, <2>3, KeepsSame DEF HandleSampledToken, HandleUpstreamError
  <2>4. ASSUME HandleEnd(n, i) PROVE G
    <3>1. n # tail => End(Message(n, i).r) \in Sent(n)
      BY Zenon, <1>1, PendingFacts, MessageKinds, NodeFacts, MessageTypes DEF Sent
    <3>2. CASE n = tail
      BY Zenon, <1>2, <2>4, <3>2 DEF HandleEnd
    <3>3. CASE n # tail
      BY Zenon, <1>4, <2>4, <3>1, <3>3 DEF HandleEnd
    <3> QED BY Zenon, <3>2, <3>3
  <2> QED BY Zenon, <2>1, <2>2, <2>3, <2>4 DEF Connection
<1> QED BY Zenon, <1>1, <1>5, TrafficKeeps

-----------------------------------------------------------------------------
(* The head lets go of every request *)

\* The thread has not written anything yet.
Early == {"new", "checked", "prefill"}

\* Only a crash takes a stage down, and a thread raises only in its prefill.
UpInv == crashes = 0 => up = Node
RaiseInv ==
  \A r \in Req : pc[r] \in {"new", "checked", "prefill", "raised"} => generated[r] = 0

\* A stage goes down only in a crash, and a crash is counted.
LEMMA BudgetStep ==
  ASSUME TypeOK, [Next]_vars
  PROVE  \/ crashes' = crashes /\ (UpInv => UpInv')
         \/ crashes' = crashes + 1 /\ \E n \in Node : Crash(n)
<1>1. ASSUME NEW r \in Req, Request(r) PROVE crashes' = crashes /\ up' = up
  BY Zenon, <1>1 DEF Request, BeginCheck, BeginRegister, Prefill, PrefillFails, Decode, DecodeStep,
              DecodeFails, Finish, Release, Hangup, EndAborted, budgets
<1>2. ASSUME NEW r \in Req, ClientGone(r) PROVE crashes' = crashes /\ up' = up
  BY Zenon, <1>2 DEF ClientGone, budgets
<1>3. ASSUME NEW n \in Node, NEW i, Connection(n, i) PROVE crashes' = crashes /\ up' = up
  BY Zenon, <1>3 DEF Connection, HandleActivation, RejectActivation, FailActivation, HandleSampledToken,
              HandleUpstreamError, HandleEnd, budgets
<1>4. ASSUME NEW n \in Node, NEW p, Membership(n, p) PROVE crashes' = crashes /\ up' = up
  BY Zenon, <1>4 DEF Membership, LeaveAlive, BecomeDead, BecomeAlive, budgets
<1>5. ASSUME NEW n \in Node, Restart(n) PROVE crashes' = crashes /\ (UpInv => UpInv')
  BY Zenon, <1>5 DEF Restart, UpInv
<1>6. ASSUME NEW n \in Node, Crash(n) PROVE crashes' = crashes + 1
  BY Zenon, <1>6 DEF Crash
<1>7. ASSUME UNCHANGED vars PROVE crashes' = crashes /\ up' = up
  BY Zenon, <1>7 DEF vars
<1>8. crashes' = crashes /\ up' = up => (UpInv => UpInv')
  BY Zenon DEF UpInv
<1> QED BY Zenon, <1>1, <1>2, <1>3, <1>4, <1>5, <1>6, <1>7, <1>8 DEF Next, Serve

\* Without a crash every stage is up.
LEMMA UpStep ==
  ASSUME TypeOK, UpInv, [Next]_vars
  PROVE  UpInv'
<1>1. crashes \in Nat
  BY Zenon DEF TypeOK
<1>2. CASE crashes' = crashes + 1
  BY <1>1, <1>2 DEF UpInv
<1> QED BY Zenon, <1>2, BudgetStep

\* No thread comes back to its prefill.
LEMMA EarlyStep ==
  ASSUME TypeOK, [Next]_vars, NEW r \in Req, pc'[r] \in Early
  PROVE  pc[r] \in Early
<1>1. CASE Elsewhere(r)
  BY Zenon, <1>1 DEF Elsewhere, Handled, Aside, Arrives, Strikes, Wakes, ThreadSame
<1>2. CASE Request(r)
  <2>1. pc \in [Req -> {"new", "checked", "prefill", "waiting", "step", "finish",
                        "release", "aborted", "closed", "done", "raised"}]
    BY Zenon DEF TypeOK
  <2> QED BY Zenon, <1>2, <2>1
          DEF Request, BeginCheck, BeginRegister, Prefill, PrefillFails, Decode, DecodeStep,
              DecodeFails, Finish, Release, Hangup, EndAborted, Abort, At, Early
<1> QED BY Zenon, <1>1, <1>2, StepKinds DEF Elsewhere

\* Which steps leave a connection without a reader
LEMMA ReadStep ==
  ASSUME TypeOK, [Next]_vars, NEW k \in Node, AllRead(conns[k])
  PROVE  \/ AllRead(conns'[k])
         \/ \E n \in Node : Upstream(n) = k /\ (Crash(n) \/ \E i : FailActivation(n, i))
<1>1. ASSUME NEW r \in Req, Request(r) PROVE AllRead(conns'[k])
  BY Zenon, <1>1, RequestKeeps DEF Keeps
<1>2. ASSUME NEW r \in Req, ClientGone(r) PROVE AllRead(conns'[k])
  BY Zenon, <1>2 DEF ClientGone
<1>3. ASSUME NEW n \in Node, NEW i, Connection(n, i), ~FailActivation(n, i) PROVE AllRead(conns'[k])
  BY Zenon, <1>3, ConnectionKeeps DEF Keeps
<1>4. ASSUME NEW n \in Node, NEW p \in Watched(n), Membership(n, p) PROVE AllRead(conns'[k])
  BY Zenon, <1>4, MembershipKeeps DEF Keeps
<1>5. ASSUME NEW n \in Node, Restart(n) PROVE AllRead(conns'[k])
  BY Zenon, <1>5 DEF Restart
<1>6. ASSUME NEW n \in Node, Upstream(n) # k, NEW c, Traffic(n, c, CloseOutbound(conns[n]))
      PROVE  AllRead(conns'[k])
  <2>1. k # n => conns'[k] = conns[k]
    BY Zenon, <1>6, TrafficConns
  <2>2. k = n => conns'[k] = CloseOutbound(conns[k])
    BY <1>6, TrafficConns
  <2>3. Keeps(CloseOutbound(conns[k]), conns[k], {})
    BY Zenon, ConnsTyped, KeepsClose
  <2> QED BY Zenon, <2>1, <2>2, <2>3 DEF Keeps
<1>7. ASSUME NEW n \in Node, Crash(n), Upstream(n) # k PROVE AllRead(conns'[k])
  BY Zenon, <1>6, <1>7 DEF Crash
<1>8. ASSUME NEW n \in Node, NEW i, FailActivation(n, i), Upstream(n) # k PROVE AllRead(conns'[k])
  BY Zenon, <1>6, <1>8 DEF FailActivation
<1>9. ASSUME UNCHANGED vars PROVE AllRead(conns'[k])
  BY Zenon, <1>9 DEF vars
<1> QED BY Zenon, <1>1, <1>2, <1>3, <1>4, <1>5, <1>7, <1>8, <1>9 DEF Next, Serve

\* A thread that raises has not counted a token.
LEMMA RaiseStep ==
  ASSUME RequestInv, RaiseInv, [Next]_vars
  PROVE  RaiseInv'
<1>0. TypeOK
  BY Zenon DEF RequestInv
<1>1. ASSUME NEW r \in Req, pc'[r] \in {"new", "checked", "prefill", "raised"}
      PROVE  generated'[r] = 0
  <2>1. CASE Elsewhere(r)
    BY Zenon, <1>1, <2>1 DEF Elsewhere, Handled, Aside, Arrives, Strikes, Wakes, ThreadSame, RaiseInv
  <2>2. CASE Request(r)
    <3>0. pc \in [Req -> {"new", "checked", "prefill", "waiting", "step", "finish",
                          "release", "aborted", "closed", "done", "raised"}]
      BY Zenon, <1>0 DEF TypeOK
    <3>1. CASE DecodeStep(r)
      <4>1. cache[head][r] # NoCache
        <5>1. pc[r] = "step" /\ cache[head][r] = generated[r] /\ generated[r] \in Nat
          BY <3>1 DEF DecodeStep, RequestInv, RequestAt, HeadAt, TypeOK
        <5> QED BY <5>1 DEF NoCache
      <4> QED BY Zenon, <1>1, <3>0, <3>1, <4>1 DEF DecodeStep, Abort, At
    <3> QED BY Zenon, <1>1, <2>2, <3>0, <3>1
            DEF Request, BeginCheck, BeginRegister, Prefill, PrefillFails, Decode,
                DecodeFails, Finish, Release, Hangup, EndAborted, Abort, At, RaiseInv
  <2> QED BY Zenon, <1>0, <2>1, <2>2, StepKinds DEF Elsewhere
<1> QED BY Zenon, <1>1 DEF RaiseInv

\* The head keeps a state and a cache only for requests whose thread works on
\* them; whoever ends the request, the thread or an error, drops both.  The
\* thread whose prefill raised is the only one that leaves them behind.
THEOREM PipelineHeadReleased == Spec => []HeadReleased
<1>1. Init => RaiseInv
  BY Zenon DEF Init, RaiseInv
<1>2. RequestInv /\ RaiseInv /\ [Next]_vars => RaiseInv'
  BY Zenon, RaiseStep
<1>3. RequestInv /\ RaiseInv => HeadReleased
  BY Zenon DEF RequestInv, RequestAt, HeadAt, RaiseInv, HeadReleased
<1> QED BY <1>1, <1>2, <1>3, PipelineRequests, PTL DEF Spec
=============================================================================
