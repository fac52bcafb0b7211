--------------------------- MODULE PipelineTypes ----------------------------
(***************************************************************************)
(* Proofs about Pipeline, for every number of stages, requests and tokens  *)
(* and all bounds on faults: what the steps do to the connections, and the *)
(* types.                                                                  *)
(*                                                                         *)
(* The connections are reasoned about through a relation, so that no other *)
(* proof looks into a stream.  Flow says where every message comes from: a *)
(* step can lose messages and move them, but adds only those it writes.    *)
(* Each action is put in these terms once (the lemmas named ...Carry).     *)
(***************************************************************************)
EXTENDS Pipeline, TLAPS

\* Where the messages of a stage's connections d come from, when they were c:
\* each has a place of its own in c outside X, or is one of N.
New == <<0, 0>>
Flow(d, c, N, X) ==
  \E f \in [Places(d) -> (Places(c) \ X) \cup {New}] :
    /\ \A p, q \in Places(d) : f[p] = f[q] => p = q
    /\ \A p \in Places(d) :
         IF f[p] = New THEN Msg(d, p) \in N ELSE Msg(d, p) = Msg(c, f[p])

\* A place is a connection and a position in what it holds.
LEMMA PlaceDef ==
  ASSUME NEW c, NEW i, NEW j
  PROVE  <<i, j>> \in Places(c) <=> i \in DOMAIN c /\ j \in 1..Len(c[i].q)
<1>1. ASSUME i \in DOMAIN c, j \in 1..Len(c[i].q) PROVE <<i, j>> \in Places(c)
  BY <1>1 DEF Places
<1>2. ASSUME <<i, j>> \in Places(c) PROVE i \in DOMAIN c /\ j \in 1..Len(c[i].q)
  <2>1. PICK k \in DOMAIN c : <<i, j>> \in {k} \X (1..Len(c[k].q))
    BY Zenon, <1>2 DEF Places
  <2>2. i = k /\ j \in 1..Len(c[k].q)
    BY Zenon, <2>1
  <2> QED BY Zenon, <2>2
<1> QED BY Zenon, <1>1, <1>2

\* The parts of a place.
LEMMA PlacePair ==
  ASSUME NEW c, NEW p \in Places(c)
  PROVE  /\ p = <<p[1], p[2]>>
         /\ p[1] \in DOMAIN c /\ p[2] \in 1..Len(c[p[1]].q)
<1>1. PICK i \in DOMAIN c : p \in {i} \X (1..Len(c[i].q))
  BY Zenon DEF Places
<1> QED BY <1>1

\* New is no position: they start at 1.
LEMMA NewIsNoPlace ==
  ASSUME NEW c
  PROVE  New \notin Places(c)
<1>1. 0 \notin 1..Len(c[0].q)
  OBVIOUS
<1> QED BY Zenon, <1>1, PlaceDef DEF New

\* Every place of d is one of c, with the same message.
LEMMA FlowSame ==
  ASSUME NEW c, NEW d, NEW N, NEW X,
         \A p \in Places(d) : p \in Places(c) \ X /\ Msg(d, p) = Msg(c, p)
  PROVE  Flow(d, c, N, X)
<1> DEFINE f == [p \in Places(d) |-> p]
<1>1. f \in [Places(d) -> (Places(c) \ X) \cup {New}]
  BY Zenon
<1>2. \A p, q \in Places(d) : f[p] = f[q] => p = q
  BY Zenon
<1>3. \A p \in Places(d) :
         IF f[p] = New THEN Msg(d, p) \in N ELSE Msg(d, p) = Msg(c, f[p])
  BY Zenon, NewIsNoPlace
<1> HIDE DEF f
<1> QED BY Zenon, <1>1, <1>2, <1>3 DEF Flow

\* The same, but for one place z of d, whose message is new.
LEMMA FlowAdd ==
  ASSUME NEW c, NEW d, NEW m, NEW X, NEW z,
         \A p \in Places(d) : p # z => p \in Places(c) \ X /\ Msg(d, p) = Msg(c, p),
         z \in Places(d) => Msg(d, z) = m
  PROVE  Flow(d, c, {m}, X)
<1> DEFINE f == [p \in Places(d) |-> IF p = z THEN New ELSE p]
<1>0. New \notin Places(c)
  BY Zenon, NewIsNoPlace
<1>1. f \in [Places(d) -> (Places(c) \ X) \cup {New}]
  BY Zenon
<1>2. \A p, q \in Places(d) : f[p] = f[q] => p = q
  BY Zenon, <1>0
<1>3. \A p \in Places(d) :
         IF f[p] = New THEN Msg(d, p) \in {m} ELSE Msg(d, p) = Msg(c, f[p])
  BY Zenon, <1>0
<1> HIDE DEF f
<1> QED BY Zenon, <1>1, <1>2, <1>3 DEF Flow

\* A flow followed by one that writes and takes nothing.
LEMMA FlowTrans ==
  ASSUME NEW c, NEW d, NEW e, NEW N, NEW X, Flow(d, c, N, X), Flow(e, d, {}, {})
  PROVE  Flow(e, c, N, X)
<1>1. PICK f \in [Places(d) -> (Places(c) \ X) \cup {New}] :
        /\ \A p, q \in Places(d) : f[p] = f[q] => p = q
        /\ \A p \in Places(d) :
             IF f[p] = New THEN Msg(d, p) \in N ELSE Msg(d, p) = Msg(c, f[p])
  BY Zenon DEF Flow
<1>2. PICK g \in [Places(e) -> (Places(d) \ {}) \cup {New}] :
        /\ \A p, q \in Places(e) : g[p] = g[q] => p = q
        /\ \A p \in Places(e) :
             IF g[p] = New THEN Msg(e, p) \in {} ELSE Msg(e, p) = Msg(d, g[p])
  BY Zenon DEF Flow
<1>3. \A p \in Places(e) : g[p] \in Places(d) /\ Msg(e, p) = Msg(d, g[p])
  BY Zenon, <1>2
<1> DEFINE h == [p \in Places(e) |-> f[g[p]]]
<1>4. h \in [Places(e) -> (Places(c) \ X) \cup {New}]
  BY Zenon, <1>1, <1>3
<1>5. \A p, q \in Places(e) : h[p] = h[q] => p = q
  BY Zenon, <1>1, <1>2, <1>3
<1>6. \A p \in Places(e) :
         IF h[p] = New THEN Msg(e, p) \in N ELSE Msg(e, p) = Msg(c, h[p])
  BY Zenon, <1>1, <1>3
<1> HIDE DEF h
<1> QED BY Zenon, <1>4, <1>5, <1>6 DEF Flow
-----------------------------------------------------------------------------
(* The operations on connections. *)

\* A finite set of numbers stays one when it grows by one or shrinks.
LEMMA FiniteAdd ==
  ASSUME NEW D, D \subseteq Nat, Finite(D), NEW i \in Nat
  PROVE  Finite(D \cup {i})
<1> SUFFICES ASSUME NEW T \in SUBSET (D \cup {i})
             PROVE  \E k \in T \cup {0} : \A j \in T : j <= k
  BY Zenon DEF Finite
<1>1. PICK k \in (T \ {i}) \cup {0} : \A j \in T \ {i} : j <= k
  <2>1. T \ {i} \in SUBSET D
    BY Zenon
  <2> QED BY Zenon, <2>1 DEF Finite
<1>2. k \in Nat /\ \A j \in T : j \in Nat
  BY <1>1
<1>3. CASE i \in T /\ i > k
  BY <1>1, <1>2, <1>3
<1>4. CASE ~(i \in T /\ i > k)
  BY <1>1, <1>2, <1>4
<1> QED BY Zenon, <1>3, <1>4

LEMMA FiniteSub ==
  ASSUME NEW D, NEW E \in SUBSET D, Finite(D)
  PROVE  Finite(E)
BY Zenon DEF Finite

\* The number that _close_outbound moves a stream to was not in use.
LEMMA UnusedIsFree ==
  ASSUME NEW c, DOMAIN c \subseteq Nat, Finite(DOMAIN c)
  PROVE  Unused(c) \in Nat \ {0} /\ Unused(c) \notin DOMAIN c
<1> DEFINE D == DOMAIN c
           h == Highest(D)
<1>1. \E k \in D \cup {0} : \A i \in D : i <= k
  BY Zenon DEF Finite
<1>2. h \in D \cup {0} /\ \A i \in D : i <= h
  BY Zenon, <1>1 DEF Highest
<1>3. h \in Nat
  BY <1>2
<1> HIDE DEF h
<1>4. h + 1 \in 1..(h + 1) /\ h + 1 \notin D
  BY <1>2, <1>3
<1>5. Unused(c) \in 1..(h + 1) /\ Unused(c) \notin D
  BY Zenon, <1>4 DEF Unused, h
<1> QED BY <1>3, <1>5

\* Replacing or adding a connection keeps the type.
LEMMA BecomesTypes ==
  ASSUME NEW c, NEW S, Connections(c, S), NEW i \in Nat, NEW x \in [q : Seq(S), read : BOOLEAN]
  PROVE  Connections(Becomes(c, i, x), S) /\ Connections(With(c, i, x), S)
<1> USE DEF Connections
<1>1. Connections(With(c, i, x), S)
  <2>1. DOMAIN With(c, i, x) = DOMAIN c \cup {i}
    BY Zenon DEF With
  <2>2. Finite(DOMAIN c \cup {i})
    BY Zenon, FiniteAdd
  <2>3. \A j \in DOMAIN c \cup {i} : With(c, i, x)[j] = IF j = i THEN x ELSE c[j]
    BY Zenon DEF With
  <2> QED BY Zenon, <2>1, <2>2, <2>3
<1>2. Connections(Without(c, i), S)
  <2>1. DOMAIN Without(c, i) = DOMAIN c \ {i}
    BY Zenon DEF Without
  <2>2. Finite(DOMAIN c \ {i})
    BY Zenon, FiniteSub
  <2>3. \A j \in DOMAIN c \ {i} : Without(c, i)[j] = c[j]
    BY Zenon DEF Without
  <2> QED BY Zenon, <2>1, <2>2, <2>3
<1> QED BY Zenon, <1>1, <1>2 DEF Becomes

\* So does removing one ...
LEMMA WithoutTypes ==
  ASSUME NEW c, NEW S, Connections(c, S), NEW i
  PROVE  Connections(Without(c, i), S)
<1> USE DEF Connections
<1>1. DOMAIN Without(c, i) = DOMAIN c \ {i}
  BY Zenon DEF Without
<1>2. Finite(DOMAIN c \ {i})
  BY Zenon, FiniteSub
<1>3. \A j \in DOMAIN c \ {i} : Without(c, i)[j] = c[j]
  BY Zenon DEF Without
<1> QED BY Zenon, <1>1, <1>2, <1>3

\* ... and closing the outbound stream.
LEMMA CloseTypes ==
  ASSUME NEW c, NEW S, Connections(c, S)
  PROVE  Connections(CloseOutbound(c), S)
<1>1. CASE ~IsOpen(c)
  BY Zenon, <1>1 DEF CloseOutbound
<1>2. CASE IsOpen(c)
  <2>1. c[0] \in [q : Seq(S), read : BOOLEAN]
    BY Zenon, <1>2 DEF IsOpen, Connections
  <2>2. Unused(c) \in Nat
    BY Zenon, UnusedIsFree DEF Connections
  <2>3. Connections(Without(c, 0), S)
    BY Zenon, WithoutTypes
  <2> QED BY Zenon, <1>2, <2>1, <2>2, <2>3, BecomesTypes DEF CloseOutbound
<1> QED BY Zenon, <1>1, <1>2

\* The outcomes of a write: lost, on the open stream, or on one that
\* _ensure_out_stream has dialled for it.
LEMMA WriteCases ==
  ASSUME NEW c, NEW m, NEW n, NEW w \in WriteOut(n, c, m)
  PROVE  \/ /\ w.c = c /\ w.raised \in BOOLEAN
            /\ \/ IsOpen(c) /\ ~c[0].read
               \/ ~IsOpen(c) /\ Downstream(n) \notin up
         \/ /\ IsOpen(c) /\ c[0].read /\ w.raised = FALSE
            /\ w.c = [c EXCEPT ![0].q = Append(@, m)]
         \/ /\ ~IsOpen(c) /\ Downstream(n) \in up /\ w.raised = FALSE
            /\ w.c = Dial(c, m)
<1>1. CASE IsOpen(c) /\ c[0].read
  <2>1. w = [raised |-> FALSE, c |-> [c EXCEPT ![0].q = Append(@, m)]]
    BY Zenon, <1>1 DEF WriteOut
  <2> QED BY Zenon, <1>1, <2>1
<1>2. CASE IsOpen(c) /\ ~c[0].read
  <2>1. w = [raised |-> FALSE, c |-> c] \/ w = [raised |-> TRUE, c |-> c]
    BY Zenon, <1>2 DEF WriteOut
  <2>2. w.c = c
    BY <2>1
  <2>3. CASE w = [raised |-> FALSE, c |-> c]
    BY <1>2, <2>2, <2>3
  <2>4. CASE w = [raised |-> TRUE, c |-> c]
    BY <1>2, <2>2, <2>4
  <2> QED BY Zenon, <2>1, <2>3, <2>4
<1>3. CASE ~IsOpen(c) /\ Downstream(n) \in up
  <2>1. w = [raised |-> FALSE, c |-> Dial(c, m)]
    BY Zenon, <1>3 DEF WriteOut
  <2> QED BY Zenon, <1>3, <2>1
<1>4. CASE ~IsOpen(c) /\ Downstream(n) \notin up
  <2>1. w = [raised |-> TRUE, c |-> c]
    BY Zenon, <1>4 DEF WriteOut
  <2> QED BY Zenon, <1>4, <2>1
<1> QED BY Zenon, <1>1, <1>2, <1>3, <1>4

\* A write keeps the type.
LEMMA WriteTypes ==
  ASSUME NEW c, NEW S, Connections(c, S), NEW m \in S, NEW n, NEW w \in WriteOut(n, c, m)
  PROVE  Connections(w.c, S) /\ w.raised \in BOOLEAN
<1>1. CASE w.c = c /\ w.raised \in BOOLEAN
  BY Zenon, <1>1
<1>2. CASE /\ IsOpen(c) /\ c[0].read /\ w.raised = FALSE
           /\ w.c = [c EXCEPT ![0].q = Append(@, m)]
  <2>2. c[0] \in [q : Seq(S), read : BOOLEAN]
    BY Zenon, <1>2 DEF IsOpen, Connections
  <2>3. Append(c[0].q, m) \in Seq(S)
    BY <2>2
  <2>4. w.c = [c EXCEPT ![0] = [c[0] EXCEPT !.q = Append(c[0].q, m)]]
    BY Zenon, <1>2
  <2>5. [c[0] EXCEPT !.q = Append(c[0].q, m)] \in [q : Seq(S), read : BOOLEAN]
    BY Zenon, <2>2, <2>3
  <2> QED BY Zenon, <1>2, <2>4, <2>5 DEF Connections
<1>3. CASE ~IsOpen(c) /\ w.raised = FALSE /\ w.c = Dial(c, m)
  <2>1. [q |-> <<m>>, read |-> TRUE] \in [q : Seq(S), read : BOOLEAN]
    OBVIOUS
  <2>2. Connections(Dial(c, m), S)
    BY Zenon, <2>1, BecomesTypes DEF Dial
  <2> QED BY Zenon, <1>3, <2>2
<1> QED BY Zenon, <1>1, <1>2, <1>3, WriteCases

\* A write adds at most the message written.
LEMMA WriteFlow ==
  ASSUME NEW c, NEW S, Connections(c, S), NEW m, NEW n, NEW w \in WriteOut(n, c, m)
  PROVE  Flow(w.c, c, {m}, {})
<1>1. CASE w.c = c
  BY Zenon, <1>1, FlowSame
<1>2. CASE IsOpen(c) /\ w.c = [c EXCEPT ![0].q = Append(@, m)]
  <2> DEFINE z == <<0, Len(c[0].q) + 1>>
  <2>1. c[0] \in [q : Seq(S), read : BOOLEAN] /\ 0 \in DOMAIN c
    BY Zenon, <1>2 DEF IsOpen, Connections
  <2>2. /\ DOMAIN w.c = DOMAIN c
        /\ \A i \in DOMAIN c : i # 0 => w.c[i] = c[i]
        /\ w.c[0].q = Append(c[0].q, m)
    BY Zenon, <1>2, <2>1
  <2>3. /\ Len(c[0].q) \in Nat /\ Len(w.c[0].q) = Len(c[0].q) + 1
        /\ w.c[0].q[Len(c[0].q) + 1] = m
        /\ \A j \in 1..Len(c[0].q) : w.c[0].q[j] = c[0].q[j]
    BY <2>1, <2>2
  <2>4. ASSUME NEW p \in Places(w.c), p # z PROVE p \in Places(c) /\ Msg(w.c, p) = Msg(c, p)
    <3>1. p = <<p[1], p[2]>> /\ p[1] \in DOMAIN c /\ p[2] \in 1..Len(w.c[p[1]].q)
      BY Zenon, <2>2, PlacePair
    <3>2. p[2] \in 1..Len(c[p[1]].q) /\ w.c[p[1]].q[p[2]] = c[p[1]].q[p[2]]
      BY <2>2, <2>3, <2>4, <3>1
    <3> QED BY Zenon, <3>1, <3>2, PlaceDef DEF Msg
  <2>5. Msg(w.c, z) = m
    BY Zenon, <2>3 DEF Msg
  <2> HIDE DEF z
  <2> QED BY Zenon, <2>4, <2>5, FlowAdd
<1>3. CASE ~IsOpen(c) /\ w.c = Dial(c, m)
  <2> DEFINE z == <<0, 1>>
  <2>1. /\ DOMAIN w.c = DOMAIN c \cup {0} /\ 0 \notin DOMAIN c
        /\ \A i \in DOMAIN c : w.c[i] = c[i]
        /\ w.c[0].q = <<m>>
    BY <1>3 DEF Dial, With, IsOpen
  <2>2. ASSUME NEW p \in Places(w.c), p # z PROVE p \in Places(c) /\ Msg(w.c, p) = Msg(c, p)
    <3>1. p = <<p[1], p[2]>> /\ p[1] \in DOMAIN c \cup {0} /\ p[2] \in 1..Len(w.c[p[1]].q)
      BY Zenon, <2>1, PlacePair
    <3>2. p[1] \in DOMAIN c
      BY <2>1, <2>2, <3>1
    <3> QED BY <2>1, <3>1, <3>2, PlaceDef DEF Msg
  <2>3. Msg(w.c, z) = m
    BY <2>1 DEF Msg
  <2> HIDE DEF z
  <2> QED BY Zenon, <2>2, <2>3, FlowAdd
<1> QED BY Zenon, <1>1, <1>2, <1>3, WriteCases

\* Connections that hold nothing have no places.
LEMMA EmptyPlaces ==
  ASSUME NEW c, \A i \in DOMAIN c : c[i].q = <<>>
  PROVE  Places(c) = {}
<1> SUFFICES ASSUME NEW p \in Places(c) PROVE FALSE
  BY Zenon
<1>1. p[1] \in DOMAIN c /\ p[2] \in 1..Len(c[p[1]].q)
  BY Zenon, PlacePair
<1>2. Len(c[p[1]].q) = 0
  BY <1>1
<1> QED BY <1>1, <1>2

\* Closing moves what number 0 holds to a number that was not in use.
LEMMA CloseFlow ==
  ASSUME NEW c, NEW S, Connections(c, S)
  PROVE  Flow(CloseOutbound(c), c, {}, {})
<1>1. CASE ~IsOpen(c)
  BY Zenon, <1>1, FlowSame DEF CloseOutbound
<1>2. CASE IsOpen(c)
  <2> DEFINE k == Unused(c)
             b == Without(c, 0)
             d == CloseOutbound(c)
  <2>1. k \in Nat \ {0} /\ k \notin DOMAIN c /\ 0 \in DOMAIN c
    BY Zenon, <1>2, UnusedIsFree DEF Connections, IsOpen
  <2>2. DOMAIN b = DOMAIN c \ {0} /\ \A i \in DOMAIN b : b[i] = c[i]
    BY Zenon DEF Without
  <2>3. d = Becomes(b, k, c[0])
    BY Zenon, <1>2 DEF CloseOutbound
  <2>4. CASE c[0].q = <<>>
    <3>1. /\ DOMAIN d = DOMAIN c \ {0}
          /\ \A i \in DOMAIN d : d[i] = c[i]
      BY Zenon, <2>1, <2>2, <2>3, <2>4 DEF Becomes, Without
    <3> HIDE DEF d
    <3>2. ASSUME NEW p \in Places(d) PROVE p \in Places(c) \ {} /\ Msg(d, p) = Msg(c, p)
      <4>1. p = <<p[1], p[2]>> /\ p[1] \in DOMAIN d /\ p[2] \in 1..Len(d[p[1]].q)
        BY Zenon, PlacePair
      <4> QED BY <3>1, <4>1, PlaceDef DEF Msg
    <3>3. Flow(d, c, {}, {})
      BY Zenon, <3>2, FlowSame
    <3> QED BY Zenon, <3>3 DEF d
  <2>5. CASE c[0].q # <<>>
    <3>1. /\ DOMAIN d = (DOMAIN c \ {0}) \cup {k}
          /\ \A i \in DOMAIN d : d[i] = IF i = k THEN c[0] ELSE c[i]
      BY <2>1, <2>2, <2>3, <2>5 DEF Becomes, With
    <3> HIDE DEF d, k, b
    <3> DEFINE f == [p \in Places(d) |-> IF p[1] = k THEN <<0, p[2]>> ELSE p]
    <3>2. ASSUME NEW p \in Places(d)
          PROVE  /\ f[p] \in Places(c) /\ Msg(d, p) = Msg(c, f[p])
                 /\ p = <<p[1], p[2]>> /\ p[1] \in DOMAIN d
      <4>1. p = <<p[1], p[2]>> /\ p[1] \in DOMAIN d /\ p[2] \in 1..Len(d[p[1]].q)
        BY Zenon, PlacePair
      <4>2. CASE p[1] = k
        <5>1. f[p] = <<0, p[2]>>
          BY Zenon, <4>2
        <5>2. p[2] \in 1..Len(c[0].q) /\ d[p[1]].q[p[2]] = c[0].q[p[2]]
          BY Zenon, <3>1, <4>1, <4>2
        <5> QED BY <2>1, <4>1, <5>1, <5>2, PlaceDef DEF Msg
      <4>3. CASE p[1] # k
        <5>1. f[p] = p
          BY Zenon, <4>3
        <5>2. p[1] \in DOMAIN c /\ d[p[1]] = c[p[1]]
          BY Zenon, <3>1, <4>1, <4>3
        <5> QED BY Zenon, <4>1, <5>1, <5>2, PlaceDef DEF Msg
      <4> QED BY Zenon, <4>2, <4>3
    <3>3. ASSUME NEW p \in Places(d), NEW q \in Places(d), f[p] = f[q] PROVE p = q
      <4>1. p = <<p[1], p[2]>> /\ p[1] \in DOMAIN d /\ q = <<q[1], q[2]>> /\ q[1] \in DOMAIN d
        BY Zenon, <3>2
      <4>2. f[p] = (IF p[1] = k THEN <<0, p[2]>> ELSE p) /\ f[q] = (IF q[1] = k THEN <<0, q[2]>> ELSE q)
        BY Zenon
      <4>3. 0 \notin DOMAIN d
        BY Zenon, <2>1, <3>1
      <4> HIDE DEF f
      <4>4. CASE p[1] = k /\ q[1] = k
        <5>1. <<0, p[2]>> = <<0, q[2]>>
          BY Zenon, <3>3, <4>2, <4>4
        <5>2. p[2] = q[2]
          BY Zenon, <5>1
        <5> QED BY Zenon, <4>1, <4>4, <5>2
      <4>5. CASE p[1] = k /\ q[1] # k
        <5>1. <<0, p[2]>> = q
          BY Zenon, <3>3, <4>2, <4>5
        <5>2. q[1] = 0
          BY Zenon, <5>1
        <5> QED BY Zenon, <4>1, <4>3, <5>2
      <4>6. CASE p[1] # k /\ q[1] = k
        <5>1. <<0, q[2]>> = p
          BY Zenon, <3>3, <4>2, <4>6
        <5>2. p[1] = 0
          BY Zenon, <5>1
        <5> QED BY Zenon, <4>1, <4>3, <5>2
      <4>7. CASE p[1] # k /\ q[1] # k
        BY Zenon, <3>3, <4>2, <4>7
      <4> QED BY Zenon, <4>4, <4>5, <4>6, <4>7
    <3>4. f \in [Places(d) -> (Places(c) \ {}) \cup {New}]
      BY Zenon, <3>2
    <3>5. \A p \in Places(d) :
             IF f[p] = New THEN Msg(d, p) \in {} ELSE Msg(d, p) = Msg(c, f[p])
      BY Zenon, <3>2, NewIsNoPlace
    <3> HIDE DEF f
    <3>6. Flow(d, c, {}, {})
      BY Zenon, <3>3, <3>4, <3>5 DEF Flow
    <3> QED BY Zenon, <3>6 DEF d
  <2> QED BY Zenon, <2>4, <2>5
<1> QED BY Zenon, <1>1, <1>2

\* A message taken from the head of connection i shifts those behind it.
LEMMA TakeFlow ==
  ASSUME NEW c, NEW S, Connections(c, S), NEW i \in DOMAIN c, c[i].q # <<>>
  PROVE  Flow(Becomes(c, i, [c[i] EXCEPT !.q = Tail(@)]), c, {}, {<<i, 1>>})
<1> DEFINE x == [c[i] EXCEPT !.q = Tail(@)]
           d == Becomes(c, i, x)
<1>1. c[i] \in [q : Seq(S), read : BOOLEAN]
  BY Zenon DEF Connections
<1>2. /\ x.q = Tail(c[i].q) /\ Len(c[i].q) \in Nat \ {0}
      /\ Len(x.q) = Len(c[i].q) - 1
      /\ \A j \in 1..Len(x.q) : x.q[j] = c[i].q[j + 1]
  BY <1>1
<1>3. /\ DOMAIN d \subseteq DOMAIN c
      /\ \A j \in DOMAIN d : d[j] = IF j = i THEN x ELSE c[j]
  BY Zenon DEF Becomes, With, Without
<1> HIDE DEF d, x
<1> DEFINE f == [p \in Places(d) |-> IF p[1] = i THEN <<i, p[2] + 1>> ELSE p]
<1>4. ASSUME NEW p \in Places(d)
      PROVE  /\ f[p] \in Places(c) \ {<<i, 1>>} /\ Msg(d, p) = Msg(c, f[p])
             /\ p = <<p[1], p[2]>> /\ p[2] \in Nat \ {0}
  <2>1. p = <<p[1], p[2]>> /\ p[1] \in DOMAIN d /\ p[2] \in 1..Len(d[p[1]].q)
    BY Zenon, PlacePair
  <2>2. CASE p[1] = i
    <3>1. f[p] = <<i, p[2] + 1>>
      BY Zenon, <2>2
    <3>a. d[p[1]].q = x.q
      BY Zenon, <1>3, <2>1, <2>2
    <3>b. p[2] \in 1..Len(x.q)
      BY Zenon, <2>1, <3>a
    <3>2. /\ p[2] + 1 \in 1..Len(c[i].q) /\ d[p[1]].q[p[2]] = c[i].q[p[2] + 1]
          /\ p[2] \in Nat \ {0} /\ p[2] + 1 # 1
      BY ONLY <1>2, <3>a, <3>b
    <3> QED BY <2>1, <3>1, <3>2, PlaceDef DEF Msg
  <2>3. CASE p[1] # i
    <3>1. f[p] = p
      BY Zenon, <2>3
    <3>2. p[1] \in DOMAIN c /\ d[p[1]] = c[p[1]]
      BY Zenon, <1>3, <2>1, <2>3
    <3>3. p[2] \in Nat \ {0}
      BY <2>1
    <3> QED BY <2>1, <2>3, <3>1, <3>2, <3>3, PlaceDef DEF Msg
  <2> QED BY Zenon, <2>2, <2>3
<1>5. ASSUME NEW p \in Places(d), NEW q \in Places(d), f[p] = f[q] PROVE p = q
  <2>1. p = <<p[1], p[2]>> /\ q = <<q[1], q[2]>> /\ p[2] \in Nat /\ q[2] \in Nat
    BY Zenon, <1>4
  <2>2. f[p] = (IF p[1] = i THEN <<i, p[2] + 1>> ELSE p) /\ f[q] = (IF q[1] = i THEN <<i, q[2] + 1>> ELSE q)
    BY Zenon
  <2> HIDE DEF f
  <2>3. CASE p[1] = i /\ q[1] = i
    <3>1. <<i, p[2] + 1>> = <<i, q[2] + 1>>
      BY Zenon, <1>5, <2>2, <2>3
    <3>2. p[2] + 1 = q[2] + 1
      BY Zenon, <3>1
    <3> QED BY <2>1, <2>3, <3>2
  <2>4. CASE p[1] = i /\ q[1] # i
    <3>1. <<i, p[2] + 1>> = q
      BY Zenon, <1>5, <2>2, <2>4
    <3> QED BY Zenon, <2>4, <3>1
  <2>5. CASE p[1] # i /\ q[1] = i
    <3>1. <<i, q[2] + 1>> = p
      BY Zenon, <1>5, <2>2, <2>5
    <3> QED BY Zenon, <2>5, <3>1
  <2>6. CASE p[1] # i /\ q[1] # i
    BY Zenon, <1>5, <2>2, <2>6
  <2> QED BY Zenon, <2>3, <2>4, <2>5, <2>6
<1>6. f \in [Places(d) -> (Places(c) \ {<<i, 1>>}) \cup {New}]
  BY Zenon, <1>4
<1>7. \A p \in Places(d) :
         IF f[p] = New THEN Msg(d, p) \in {} ELSE Msg(d, p) = Msg(c, f[p])
  BY Zenon, <1>4, NewIsNoPlace
<1> HIDE DEF f
<1>8. Flow(d, c, {}, {<<i, 1>>})
  BY Zenon, <1>5, <1>6, <1>7 DEF Flow
<1> QED BY Zenon, <1>8 DEF d, x

\* When the reader closes connection i, all it held is lost.
LEMMA CutFlow ==
  ASSUME NEW c, NEW S, Connections(c, S), NEW i \in DOMAIN c
  PROVE  Flow(Becomes(c, i, Unread), c, {}, {<<i, 1>>})
<1> DEFINE d == Becomes(c, i, Unread)
<1>1. /\ DOMAIN d \subseteq DOMAIN c
      /\ \A j \in DOMAIN d : d[j] = IF j = i THEN Unread ELSE c[j]
  BY Zenon DEF Becomes, With, Without
<1> HIDE DEF d
<1>2. ASSUME NEW p \in Places(d)
      PROVE  p \in Places(c) \ {<<i, 1>>} /\ Msg(d, p) = Msg(c, p)
  <2>1. p = <<p[1], p[2]>> /\ p[1] \in DOMAIN d /\ p[2] \in 1..Len(d[p[1]].q)
    BY Zenon, PlacePair
  <2>2. p[1] # i
    BY <1>1, <2>1 DEF Unread
  <2>3. p[1] \in DOMAIN c /\ d[p[1]] = c[p[1]]
    BY Zenon, <1>1, <2>1, <2>2
  <2> QED BY <2>1, <2>2, <2>3, PlaceDef DEF Msg
<1>3. Flow(d, c, {}, {<<i, 1>>})
  BY Zenon, <1>2, FlowSame
<1> QED BY Zenon, <1>3 DEF d
-----------------------------------------------------------------------------
(* What the steps do to the connections. *)

\* The ring: the stages are numbered from the head, and the tail writes to it.
LEMMA NodeFacts ==
  ASSUME NEW n \in Node
  PROVE  /\ Upstream(n) \in Node /\ Downstream(n) \in Node /\ Upstream(n) # n
         /\ head \in Node /\ tail \in Node /\ head # tail /\ n \in Int
         /\ n = head <=> Upstream(n) = tail
         /\ n # head => Upstream(n) = n - 1
BY PipelineAssumption DEF Node, Upstream, Downstream, head, tail

\* The messages have their types.
LEMMA MessageTypes ==
  /\ \A r \in Req, k \in Nat, b \in BOOLEAN :
       Activation(r, k, b) \in Activations /\ SampledToken(r, k, b) \in SampledTokens
  /\ \A r \in Req : Error(r) \in Errors /\ End(r) \in Ends
BY Zenon DEF Activation, SampledToken, Error, End, Activations, SampledTokens, Errors, Ends

\* What kinds of messages there are on a connection.
LEMMA MessageKinds ==
  ASSUME NEW n \in Node, NEW m \in Sent(n)
  PROVE  /\ m.r \in Req
         /\ m.t = "activation" => n # tail /\ m \in Activations
         /\ m.t = "end" => n # tail /\ m \in Ends /\ m = End(m.r)
         /\ m.t = "sampled_token" => n = tail /\ m \in SampledTokens
         /\ m.t = "error" => n = tail /\ m \in Errors
         /\ m.t \in {"activation", "end", "sampled_token", "error"}
<1>1. CASE n = tail /\ m \in SampledTokens
  BY Zenon, <1>1 DEF SampledTokens
<1>2. CASE n = tail /\ m \in Errors
  BY Zenon, <1>2 DEF Errors
<1>3. CASE n # tail /\ m \in Activations
  BY Zenon, <1>3 DEF Activations
<1>4. CASE n # tail /\ m \in Ends
  BY Zenon, <1>4 DEF Ends, End
<1> QED BY Zenon, <1>1, <1>2, <1>3, <1>4 DEF Sent

\* The connections have their type, and their messages were on the same
\* stage's connections before, except those of N, which a has written; the
\* places X of u have been emptied.
Carry(a, N, u, X) ==
  /\ DOMAIN conns' = Node
  /\ \A k \in Node : Connections(conns'[k], Sent(k))
  /\ \A k \in Node :
       Flow(conns'[k], conns[k], IF k = a THEN N ELSE {}, IF k = u THEN X ELSE {})

\* Connections that stay.
LEMMA FlowRefl ==
  ASSUME NEW c
  PROVE  Flow(c, c, {}, {})
BY Zenon, FlowSame

\* No stage writes or takes anything.
LEMMA SameCarry ==
  ASSUME TypeOK, conns' = conns
  PROVE  Carry(head, {}, head, {})
<1>1. DOMAIN conns = Node /\ \A k \in Node : Connections(conns[k], Sent(k))
  BY Zenon DEF TypeOK
<1>2. \A k \in Node : Flow(conns[k], conns[k], {}, {})
  BY Zenon, FlowRefl
<1> QED BY Zenon, <1>1, <1>2 DEF Carry

\* One stage's connections change.
LEMMA OneCarry ==
  ASSUME TypeOK, NEW n \in Node, NEW d, NEW N, conns' = [conns EXCEPT ![n] = d],
         Connections(d, Sent(n)), Flow(d, conns[n], N, {})
  PROVE  Carry(n, N, n, {})
<1>1. DOMAIN conns = Node /\ \A k \in Node : Connections(conns[k], Sent(k))
  BY Zenon DEF TypeOK
<1>2. /\ DOMAIN conns' = Node /\ conns'[n] = d
      /\ \A k \in Node : k # n => conns'[k] = conns[k]
  BY Zenon, <1>1
<1>3. ASSUME NEW k \in Node
      PROVE  /\ Connections(conns'[k], Sent(k))
             /\ Flow(conns'[k], conns[k], IF k = n THEN N ELSE {}, IF k = n THEN {} ELSE {})
  <2>1. CASE k = n
    BY Zenon, <1>2, <2>1
  <2>2. CASE k # n
    BY Zenon, <1>1, <1>2, <2>2, FlowRefl
  <2> QED BY Zenon, <2>1, <2>2
<1> QED BY Zenon, <1>2, <1>3 DEF Carry

\* Both ends of a stage's traffic change.
LEMMA TrafficCarry ==
  ASSUME TypeOK, NEW n \in Node, NEW c, NEW d, NEW N, NEW X, Traffic(n, c, d),
         Connections(c, Sent(Upstream(n))), Flow(c, conns[Upstream(n)], {}, X),
         Connections(d, Sent(n)), Flow(d, conns[n], N, {})
  PROVE  Carry(n, N, Upstream(n), X)
<1>1. DOMAIN conns = Node /\ \A k \in Node : Connections(conns[k], Sent(k))
  BY Zenon DEF TypeOK
<1>2. Upstream(n) \in Node /\ Upstream(n) # n
  BY Zenon, NodeFacts
<1>3. /\ DOMAIN conns' = Node /\ conns'[n] = d /\ conns'[Upstream(n)] = c
      /\ \A k \in Node : k # n /\ k # Upstream(n) => conns'[k] = conns[k]
  BY Zenon, <1>1, <1>2 DEF Traffic
<1>4. ASSUME NEW k \in Node
      PROVE  /\ Connections(conns'[k], Sent(k))
             /\ Flow(conns'[k], conns[k], IF k = n THEN N ELSE {},
                     IF k = Upstream(n) THEN X ELSE {})
  <2>1. CASE k = n
    BY Zenon, <1>2, <1>3, <2>1
  <2>2. CASE k = Upstream(n)
    BY Zenon, <1>2, <1>3, <2>2
  <2>3. CASE k # n /\ k # Upstream(n)
    BY Zenon, <1>1, <1>3, <2>3, FlowRefl
  <2> QED BY Zenon, <2>1, <2>2, <2>3
<1> QED BY Zenon, <1>3, <1>4 DEF Carry

\* The head writes m.
LEMMA WriteHead ==
  ASSUME TypeOK, NEW m \in Sent(head), NEW w \in WriteOut(head, conns[head], m),
         conns' = [conns EXCEPT ![head] = w.c]
  PROVE  Carry(head, {m}, head, {})
<1>1. head \in Node
  BY PipelineAssumption DEF head, Node
<1>2. Connections(conns[head], Sent(head))
  BY Zenon, <1>1 DEF TypeOK
<1>3. Connections(w.c, Sent(head)) /\ Flow(w.c, conns[head], {m}, {})
  BY Zenon, <1>2, WriteTypes, WriteFlow
<1> QED BY Zenon, <1>1, <1>3, OneCarry

\* A stage closes its outbound stream.
LEMMA CloseCarry ==
  ASSUME TypeOK, NEW n \in Node, conns' = [conns EXCEPT ![n] = CloseOutbound(@)]
  PROVE  Carry(n, {}, n, {})
<1>1. Connections(conns[n], Sent(n))
  BY Zenon DEF TypeOK
<1>2. Connections(CloseOutbound(conns[n]), Sent(n)) /\ Flow(CloseOutbound(conns[n]), conns[n], {}, {})
  BY Zenon, <1>1, CloseTypes, CloseFlow
<1>3. conns' = [conns EXCEPT ![n] = CloseOutbound(conns[n])]
  BY Zenon
<1> HIDE DEF CloseOutbound
<1> QED BY Zenon, <1>2, <1>3, OneCarry

\* The place of the message that a connection's thread takes
LEMMA PendingFacts ==
  ASSUME TypeOK, NEW n \in Node, NEW i, Pending(n, i)
  PROVE  /\ Upstream(n) \in Node /\ i \in DOMAIN conns[Upstream(n)] /\ i \in Nat
         /\ Connections(conns[Upstream(n)], Sent(Upstream(n)))
         /\ conns[Upstream(n)][i].q # <<>> /\ n \in up
         /\ Message(n, i) \in Sent(Upstream(n))
         /\ <<i, 1>> \in Places(conns[Upstream(n)])
         /\ Message(n, i) = Msg(conns[Upstream(n)], <<i, 1>>)
<1>1. Upstream(n) \in Node
  BY Zenon, NodeFacts
<1>2. i \in DOMAIN conns[Upstream(n)] /\ conns[Upstream(n)][i].q # <<>> /\ n \in up
  BY Zenon DEF Pending
<1>3. Connections(conns[Upstream(n)], Sent(Upstream(n)))
  BY Zenon, <1>1 DEF TypeOK
<1>4. conns[Upstream(n)][i].q \in Seq(Sent(Upstream(n))) /\ i \in Nat
  BY Zenon, <1>2, <1>3 DEF Connections
<1>5. /\ Head(conns[Upstream(n)][i].q) \in Sent(Upstream(n))
      /\ Head(conns[Upstream(n)][i].q) = conns[Upstream(n)][i].q[1]
      /\ 1 \in 1..Len(conns[Upstream(n)][i].q)
  BY <1>2, <1>4
<1>6. <<i, 1>> \in Places(conns[Upstream(n)])
  BY Zenon, <1>2, <1>5, PlaceDef
<1> QED BY Zenon, <1>1, <1>2, <1>3, <1>4, <1>5, <1>6 DEF Message, Msg

\* Taking a message keeps the type, and takes that message only.
LEMMA TakenFacts ==
  ASSUME TypeOK, NEW n \in Node, NEW i, Pending(n, i)
  PROVE  /\ Connections(Taken(n, i), Sent(Upstream(n)))
         /\ Flow(Taken(n, i), conns[Upstream(n)], {}, {<<i, 1>>})
<1> DEFINE c == conns[Upstream(n)]
           x == [c[i] EXCEPT !.q = Tail(@)]
<1>1. /\ i \in DOMAIN c /\ i \in Nat /\ Connections(c, Sent(Upstream(n))) /\ c[i].q # <<>>
  BY Zenon, PendingFacts
<1>2. c[i] \in [q : Seq(Sent(Upstream(n))), read : BOOLEAN]
  BY Zenon, <1>1 DEF Connections
<1>a. c[i].q \in Seq(Sent(Upstream(n))) /\ c[i].q # <<>>
  BY Zenon, <1>1, <1>2
<1>b. Tail(c[i].q) \in Seq(Sent(Upstream(n)))
  BY ONLY <1>a
<1>3. x \in [q : Seq(Sent(Upstream(n))), read : BOOLEAN]
  BY Zenon, <1>2, <1>b
<1>4. Taken(n, i) = Becomes(c, i, x)
  BY Zenon DEF Taken
<1> HIDE DEF x
<1>5. Connections(Taken(n, i), Sent(Upstream(n)))
  BY <1>1, <1>3, <1>4, BecomesTypes
<1> USE DEF x
<1>6. Flow(Taken(n, i), c, {}, {<<i, 1>>})
  BY Zenon, <1>1, <1>4, TakeFlow
<1> QED BY Zenon, <1>5, <1>6

\* A stage takes a message and answers with m, or with nothing.
LEMMA AnswerCarry ==
  ASSUME TypeOK, NEW n \in Node, NEW i, Pending(n, i), NEW m \in Sent(n),
         NEW w \in WriteOut(n, conns[n], m), Traffic(n, Taken(n, i), w.c)
  PROVE  Carry(n, {m}, Upstream(n), {<<i, 1>>})
<1>1. Connections(conns[n], Sent(n))
  BY Zenon DEF TypeOK
<1>2. Connections(w.c, Sent(n)) /\ Flow(w.c, conns[n], {m}, {})
  BY Zenon, <1>1, WriteTypes, WriteFlow
<1> QED BY Zenon, <1>2, TakenFacts, TrafficCarry

\* The same when the stage closes its stream after the answer.
LEMMA AnswerCloseCarry ==
  ASSUME TypeOK, NEW n \in Node, NEW i, Pending(n, i), NEW m \in Sent(n),
         NEW w \in WriteOut(n, conns[n], m), Traffic(n, Taken(n, i), CloseOutbound(w.c))
  PROVE  Carry(n, {m}, Upstream(n), {<<i, 1>>})
<1>1. Connections(conns[n], Sent(n))
  BY Zenon DEF TypeOK
<1>2. Connections(w.c, Sent(n)) /\ Flow(w.c, conns[n], {m}, {})
  BY Zenon, <1>1, WriteTypes, WriteFlow
<1>3. Connections(CloseOutbound(w.c), Sent(n)) /\ Flow(CloseOutbound(w.c), w.c, {}, {})
  BY Zenon, <1>2, CloseTypes, CloseFlow
<1>4. Flow(CloseOutbound(w.c), conns[n], {m}, {})
  BY Zenon, <1>2, <1>3, FlowTrans
<1> QED BY Zenon, <1>3, <1>4, TakenFacts, TrafficCarry

\* A stage takes a message and writes nothing.
LEMMA TakeCarry ==
  ASSUME TypeOK, NEW n \in Node, NEW i, Pending(n, i), NEW d,
         d = conns[n] \/ d = CloseOutbound(conns[n]), Traffic(n, Taken(n, i), d)
  PROVE  Carry(n, {}, Upstream(n), {<<i, 1>>})
<1>1. Connections(conns[n], Sent(n))
  BY Zenon DEF TypeOK
<1>2. Connections(d, Sent(n)) /\ Flow(d, conns[n], {}, {})
  BY Zenon, <1>1, CloseTypes, CloseFlow, FlowRefl
<1> QED BY Zenon, <1>2, TakenFacts, TrafficCarry

\* The thread of a connection raises: what the connection held is lost.
LEMMA CutCarry ==
  ASSUME TypeOK, NEW n \in Node, NEW i, Pending(n, i),
         Traffic(n, Becomes(conns[Upstream(n)], i, Unread), CloseOutbound(conns[n]))
  PROVE  Carry(n, {}, Upstream(n), {<<i, 1>>})
<1>1. Connections(conns[n], Sent(n))
  BY Zenon DEF TypeOK
<1>2. Connections(CloseOutbound(conns[n]), Sent(n)) /\ Flow(CloseOutbound(conns[n]), conns[n], {}, {})
  BY Zenon, <1>1, CloseTypes, CloseFlow
<1>3. Connections(conns[Upstream(n)], Sent(Upstream(n))) /\ i \in DOMAIN conns[Upstream(n)] /\ i \in Nat
  BY Zenon, PendingFacts
<1>4. Unread \in [q : Seq(Sent(Upstream(n))), read : BOOLEAN]
  BY DEF Unread
<1>5. /\ Connections(Becomes(conns[Upstream(n)], i, Unread), Sent(Upstream(n)))
      /\ Flow(Becomes(conns[Upstream(n)], i, Unread), conns[Upstream(n)], {}, {<<i, 1>>})
  BY Zenon, <1>3, <1>4, BecomesTypes, CutFlow
<1> QED BY Zenon, <1>2, <1>5, TrafficCarry

\* A crash loses what was sent to the stage.
LEMMA CrashCarry ==
  ASSUME TypeOK, NEW n \in Node,
         Traffic(n, [j \in {0} \cap DOMAIN conns[Upstream(n)] |-> Unread],
                 CloseOutbound(conns[n]))
  PROVE  /\ Carry(n, {}, Upstream(n), {})
         /\ Places(conns'[Upstream(n)]) = {}
<1> DEFINE c == [j \in {0} \cap DOMAIN conns[Upstream(n)] |-> Unread]
<1>1. Connections(conns[n], Sent(n))
  BY Zenon DEF TypeOK
<1>2. Connections(CloseOutbound(conns[n]), Sent(n)) /\ Flow(CloseOutbound(conns[n]), conns[n], {}, {})
  BY Zenon, <1>1, CloseTypes, CloseFlow
<1>3. DOMAIN c = {0} \cap DOMAIN conns[Upstream(n)] /\ \A j \in DOMAIN c : c[j] = Unread
  BY Zenon
<1> HIDE DEF c
<1>4. Connections(c, Sent(Upstream(n)))
  <2>2. Finite(DOMAIN c)
    BY <1>3 DEF Finite
  <2>3. Unread \in [q : Seq(Sent(Upstream(n))), read : BOOLEAN]
    BY DEF Unread
  <2> QED BY <1>3, <2>2, <2>3 DEF Connections
<1>5. Places(c) = {}
  BY <1>3, EmptyPlaces DEF Unread
<1>6. Flow(c, conns[Upstream(n)], {}, {})
  BY Zenon, <1>5, FlowSame
<1>7. Traffic(n, c, CloseOutbound(conns[n]))
  BY Zenon DEF c
<1>8. conns'[Upstream(n)] = c
  <2>1. DOMAIN conns = Node
    BY Zenon DEF TypeOK
  <2> QED BY Zenon, <1>7, <2>1, NodeFacts DEF Traffic
<1> QED BY Zenon, <1>2, <1>4, <1>5, <1>6, <1>7, <1>8, TrafficCarry
-----------------------------------------------------------------------------
(* Types. *)

\* The conjuncts of TypeOK, without the connections
ThreadTypes ==
  /\ pc \in [Req -> {"new", "checked", "prefill", "waiting", "step", "finish",
                     "release", "aborted", "closed", "done", "raised"}]
  /\ generated \in [Req -> 0..MaxNew]
  /\ queue \in [Req -> Seq(SampledTokens \cup {Poison})]
  /\ states \subseteq Req
  /\ client \in [Req -> Seq(Replies)]
StageTypes ==
  /\ cache \in [Node -> [Req -> Nat \cup {NoCache}]]
  /\ gone \subseteq Req
  /\ seen \in [Node -> [Node -> {"alive", "suspect", "dead"}]]
  /\ up \subseteq Node /\ head \in up
  /\ faults \in Nat /\ suspicions \in Nat /\ crashes \in Nat /\ restarts \in Nat
ConnTypes == DOMAIN conns = Node /\ \A n \in Node : Connections(conns[n], Sent(n))

\* TypeOK is the three together.
LEMMA TypeParts == TypeOK <=> ThreadTypes /\ StageTypes /\ ConnTypes
BY Zenon DEF TypeOK, ThreadTypes, StageTypes, ConnTypes

\* The counter of tokens never passes the limit.
CountInv ==
  \A r \in Req : /\ pc[r] \in {"new", "checked", "prefill"} => generated[r] = 0
                 /\ pc[r] \in {"waiting", "step"} => generated[r] < MaxNew

\* What a client is told has its type ...
LEMMA FailureType ==
  Failure \in Replies /\ \A k \in Nat, b \in BOOLEAN, c \in BOOLEAN : Token(k, b, c) \in Replies
BY Zenon DEF Failure, Replies, Token

\* ... and so has all it was told.
LEMMA ReplyTypes ==
  ASSUME ThreadTypes, NEW r \in Req, NEW m \in Replies, Reply(r, m)
  PROVE  client' \in [Req -> Seq(Replies)]
<1>1. client \in [Req -> Seq(Replies)]
  BY Zenon DEF ThreadTypes
<1>2. Append(client[r], m) \in Seq(Replies)
  BY <1>1
<1> QED BY Zenon, <1>1, <1>2 DEF Reply

\* Dropping a cache keeps the type.
LEMMA DropTypes ==
  ASSUME StageTypes, NEW n \in Node, NEW r \in Req, DropCache(n, r)
  PROVE  cache' \in [Node -> [Req -> Nat \cup {NoCache}]]
BY Zenon DEF DropCache, StageTypes

\* What a handler of _drive_decode_loop starts with.
LEMMA AbortTypes ==
  ASSUME ThreadTypes, StageTypes, ConnTypes, NEW r \in Req, Abort(r)
  PROVE  /\ client' \in [Req -> Seq(Replies)]
         /\ cache' \in [Node -> [Req -> Nat \cup {NoCache}]]
         /\ states' \subseteq Req
         /\ pc' = [pc EXCEPT ![r] = "aborted"]
         /\ conns' = conns
<1>1. head \in Node
  BY PipelineAssumption DEF head, Node
<1>2. Reply(r, Failure) /\ DropCache(head, r) /\ states' = states \ {r} /\ conns' = conns
  BY Zenon DEF Abort
<1>3. client' \in [Req -> Seq(Replies)]
  BY Zenon, <1>2, FailureType, ReplyTypes
<1>4. cache' \in [Node -> [Req -> Nat \cup {NoCache}]]
  BY Zenon, <1>1, <1>2, DropTypes
<1> QED BY Zenon, <1>2, <1>3, <1>4 DEF Abort, At, ThreadTypes

\* The request's actions
LEMMA RequestThreads ==
  ASSUME TypeOK, CountInv, NEW r \in Req, Request(r)
  PROVE  ThreadTypes' /\ CountInv'
<1>0. /\ ThreadTypes /\ StageTypes /\ ConnTypes /\ head \in Node /\ Failure \in Replies
      /\ MaxNew \in Nat \ {0}
  BY TypeParts, FailureType, PipelineAssumption DEF head, Node
<1> DEFINE PCs == {"new", "checked", "prefill", "waiting", "step", "finish",
                     "release", "aborted", "closed", "done", "raised"}
<1>1. /\ pc \in [Req -> PCs] /\ generated \in [Req -> 0..MaxNew]
      /\ queue \in [Req -> Seq(SampledTokens \cup {Poison})] /\ states \subseteq Req
      /\ client \in [Req -> Seq(Replies)]
  BY Zenon, <1>0 DEF ThreadTypes
<1>2. \A x \in Req : /\ pc[x] \in {"new", "checked", "prefill"} => generated[x] = 0
                     /\ pc[x] \in {"waiting", "step"} => generated[x] < MaxNew
  BY Zenon DEF CountInv
<1> SUFFICES /\ pc' \in [Req -> PCs] /\ generated' \in [Req -> 0..MaxNew]
             /\ queue' \in [Req -> Seq(SampledTokens \cup {Poison})] /\ states' \subseteq Req
             /\ client' \in [Req -> Seq(Replies)]
             /\ \A x \in Req : /\ pc'[x] \in {"new", "checked", "prefill"} => generated'[x] = 0
                               /\ pc'[x] \in {"waiting", "step"} => generated'[x] < MaxNew
  BY Zenon DEF ThreadTypes, CountInv
<1>3. CASE BeginCheck(r)
  <2>1. CASE Reply(r, Failure) /\ At(r, "done")
    BY Zenon, <1>0, <1>1, <1>2, <1>3, <2>1, ReplyTypes DEF BeginCheck, At
  <2>2. CASE At(r, "checked") /\ client' = client
    BY Zenon, <1>0, <1>1, <1>2, <1>3, <2>2 DEF BeginCheck, At
  <2> QED BY Zenon, <1>3, <2>1, <2>2 DEF BeginCheck
<1>4. CASE BeginRegister(r)
  BY Zenon, <1>0, <1>1, <1>2, <1>4 DEF BeginRegister, At
<1>5. CASE Prefill(r)
  <2>1. \E p \in {"raised", "waiting"} : pc' = [pc EXCEPT ![r] = p]
    BY Zenon, <1>5 DEF Prefill, At
  <2> QED BY <1>0, <1>1, <1>2, <1>5, <2>1 DEF Prefill
<1>6. CASE PrefillFails(r)
  <2>1. client' \in [Req -> Seq(Replies)]
    BY Zenon, <1>0, <1>6, ReplyTypes DEF PrefillFails
  <2> QED BY Zenon, <1>1, <1>2, <1>6, <2>1 DEF PrefillFails, At
<1>7. CASE Decode(r)
  <2> DEFINE g == generated[r] + 1
  <2>1. queue' \in [Req -> Seq(SampledTokens \cup {Poison})]
    <3>1. queue[r] \in Seq(SampledTokens \cup {Poison}) /\ queue[r] # <<>>
      BY Zenon, <1>1, <1>7 DEF Decode
    <3>2. Tail(queue[r]) \in Seq(SampledTokens \cup {Poison})
      BY ONLY <3>1
    <3> QED BY Zenon, <1>1, <1>7, <3>2 DEF Decode
  <2>2. pc[r] = "waiting" /\ g \in 1..MaxNew
    BY <1>0, <1>1, <1>2, <1>7 DEF Decode
  <2>3. CASE Abort(r) /\ generated' = generated
    BY Zenon, <1>0, <1>1, <1>2, <2>1, <2>3, AbortTypes
  <2> HIDE DEF g
  <2>a. ASSUME generated' = [generated EXCEPT ![r] = g]
        PROVE  /\ generated' \in [Req -> 0..MaxNew] /\ generated'[r] = g
               /\ \A x \in Req : x # r => generated'[x] = generated[x]
    <3>1. g \in 0..MaxNew
      BY <1>0, <2>2
    <3> QED BY Zenon, <1>1, <2>a, <3>1
  <2>4. CASE Abort(r) /\ generated' = [generated EXCEPT ![r] = g]
    <3>1. /\ client' \in [Req -> Seq(Replies)] /\ states' \subseteq Req
          /\ pc' = [pc EXCEPT ![r] = "aborted"]
      BY Zenon, <1>0, <2>4, AbortTypes
    <3>2. pc' \in [Req -> PCs] /\ pc'[r] = "aborted" /\ \A x \in Req : x # r => pc'[x] = pc[x]
      BY Zenon, <1>1, <3>1
    <3>3. ASSUME NEW x \in Req
          PROVE  /\ pc'[x] \in {"new", "checked", "prefill"} => generated'[x] = 0
                 /\ pc'[x] \in {"waiting", "step"} => generated'[x] < MaxNew
      BY Zenon, <1>2, <2>4, <2>a, <3>2
    <3> QED BY Zenon, <2>1, <2>4, <2>a, <3>1, <3>2, <3>3
  <2>5. CASE /\ queue[r][1] # Poison /\ generated' = [generated EXCEPT ![r] = g]
             /\ Reply(r, Token(g - 1, g >= MaxNew, queue[r][1].right))
             /\ At(r, IF g >= MaxNew THEN "finish" ELSE "step")
             /\ UNCHANGED <<states, cache, conns>>
    <3>1. queue[r] \in Seq(SampledTokens \cup {Poison}) /\ queue[r] # <<>>
      BY Zenon, <1>1, <1>7 DEF Decode
    <3>2. queue[r][1] \in SampledTokens \cup {Poison}
      BY ONLY <3>1
    <3>3. queue[r][1].right \in BOOLEAN
      BY Zenon, <2>5, <3>2 DEF SampledTokens
    <3>a. g - 1 \in Nat
      BY <1>0, <2>2
    <3>b. (g >= MaxNew) \in BOOLEAN
      OBVIOUS
    <3>4. Token(g - 1, g >= MaxNew, queue[r][1].right) \in Replies
      BY Zenon, <3>3, <3>a, <3>b, FailureType
    <3>5. client' \in [Req -> Seq(Replies)]
      BY Zenon, <1>0, <2>5, <3>4, ReplyTypes
    <3>6. /\ pc' \in [Req -> PCs] /\ pc'[r] = (IF g >= MaxNew THEN "finish" ELSE "step")
          /\ \A x \in Req : x # r => pc'[x] = pc[x]
      BY Zenon, <1>1, <2>5 DEF At
    <3>7. ASSUME NEW x \in Req
          PROVE  /\ pc'[x] \in {"new", "checked", "prefill"} => generated'[x] = 0
                 /\ pc'[x] \in {"waiting", "step"} => generated'[x] < MaxNew
      <4>1. CASE x = r
        BY <1>0, <2>2, <2>5, <2>a, <3>6, <4>1
      <4>2. CASE x # r
        BY Zenon, <1>2, <2>5, <2>a, <3>6, <4>2
      <4> QED BY Zenon, <4>1, <4>2
    <3> QED BY Zenon, <1>1, <2>1, <2>5, <2>a, <3>5, <3>6, <3>7
  <2> QED BY Zenon, <1>7, <2>3, <2>4, <2>5 DEF Decode, g
<1>8. CASE DecodeStep(r)
  <2>1. CASE At(r, "raised") /\ UNCHANGED <<states, cache, conns, client>>
    BY Zenon, <1>1, <1>2, <1>8, <2>1 DEF DecodeStep, At
  <2>2. CASE Abort(r)
    BY Zenon, <1>0, <1>1, <1>2, <1>8, <2>2, AbortTypes DEF DecodeStep
  <2>3. CASE At(r, "waiting") /\ UNCHANGED <<states, client>>
    BY Zenon, <1>1, <1>2, <1>8, <2>3 DEF DecodeStep, At
  <2> QED BY Zenon, <1>8, <2>1, <2>2, <2>3 DEF DecodeStep
<1>9. CASE DecodeFails(r)
  BY Zenon, <1>0, <1>1, <1>2, <1>9, AbortTypes DEF DecodeFails
<1>10. CASE Finish(r)
  BY Zenon, <1>1, <1>2, <1>10 DEF Finish, At
<1>11. CASE Release(r)
  BY Zenon, <1>1, <1>2, <1>11 DEF Release, At
<1>12. CASE Hangup(r)
  BY Zenon, <1>1, <1>2, <1>12 DEF Hangup, At
<1>13. CASE EndAborted(r)
  BY Zenon, <1>1, <1>2, <1>13 DEF EndAborted, At
<1> QED BY Zenon, <1>3, <1>4, <1>5, <1>6, <1>7, <1>8, <1>9, <1>10, <1>11, <1>12, <1>13 DEF Request
-----------------------------------------------------------------------------
(* The threads that serve connections, by what they do to the connections. *)

\* What a stage forwards
Held(n, r) == IF cache[n][r] = NoCache THEN 0 ELSE cache[n][r]
Out(n, m, right) ==
  IF n = tail THEN SampledToken(m.r, m.k, right) ELSE Activation(m.r, m.k, right)

\* _handle_activation, in terms of Carry: one message taken, one written.
LEMMA ActivationCarry ==
  ASSUME TypeOK, NEW n \in Node, NEW i, HandleActivation(n, i), NEW m, m = Message(n, i)
  PROVE  /\ n # head /\ m \in Activations /\ Pending(n, i)
         /\ Held(n, m.r) \in Nat
         /\ cache' = [cache EXCEPT ![n][m.r] = Held(n, m.r) + 1]
         /\ Out(n, m, m.right /\ Held(n, m.r) = m.k) \in Sent(n)
         /\ Carry(n, {Out(n, m, m.right /\ Held(n, m.r) = m.k)}, Upstream(n), {<<i, 1>>})
         /\ UNCHANGED <<threads, gone, seen, up, budgets>>
<1> DEFINE out == Out(n, m, m.right /\ Held(n, m.r) = m.k)
<1>1. Pending(n, i) /\ m.t = "activation"
  BY Zenon DEF HandleActivation
<1>2. m \in Sent(Upstream(n)) /\ Upstream(n) \in Node
  BY Zenon, <1>1, PendingFacts
<1>3. Upstream(n) # tail /\ m \in Activations
  BY Zenon, <1>1, <1>2, MessageKinds
<1>4. n # head
  BY Zenon, <1>3, NodeFacts
<1>5. m.r \in Req /\ m.k \in Nat /\ m.right \in BOOLEAN
  BY Zenon, <1>3 DEF Activations
<1>6. Held(n, m.r) \in Nat
  <2>1. cache[n][m.r] \in Nat \cup {NoCache}
    BY <1>5 DEF TypeOK
  <2> QED BY Zenon, <2>1 DEF Held, NoCache
<1>7. out \in Sent(n)
  BY Zenon, <1>5, MessageTypes DEF Out, Sent
<1>8. PICK w \in WriteOut(n, conns[n], out) : Traffic(n, Taken(n, i), w.c)
  BY Zenon DEF HandleActivation, Out, Held
<1>9. cache' = [cache EXCEPT ![n][m.r] = Held(n, m.r) + 1]
  BY Zenon DEF HandleActivation, Held
<1>10. UNCHANGED <<threads, gone, seen, up, budgets>>
  BY Zenon DEF HandleActivation
<1> HIDE DEF out
<1>11. Carry(n, {out}, Upstream(n), {<<i, 1>>})
  BY Zenon, <1>1, <1>7, <1>8, AnswerCarry
<1> QED BY Zenon, <1>1, <1>3, <1>4, <1>6, <1>7, <1>9, <1>10, <1>11 DEF out

\* _handle_activation with a mismatch: taken, and answered by the tail only.
LEMMA RejectCarry ==
  ASSUME TypeOK, NEW n \in Node, NEW i, RejectActivation(n, i), NEW m, m = Message(n, i)
  PROVE  /\ n # head /\ m \in Activations /\ Pending(n, i) /\ Error(m.r) \in Errors
         /\ \/ Carry(n, {}, Upstream(n), {<<i, 1>>})
            \/ n = tail /\ Carry(n, {Error(m.r)}, Upstream(n), {<<i, 1>>})
         /\ faults' = faults + 1
         /\ UNCHANGED <<threads, cache, gone, seen, up, suspicions, crashes, restarts>>
<1>1. Pending(n, i) /\ m.t = "activation" /\ faults' = faults + 1
  BY Zenon DEF RejectActivation
<1>2. m \in Sent(Upstream(n)) /\ Upstream(n) \in Node
  BY Zenon, <1>1, PendingFacts
<1>3. Upstream(n) # tail /\ m \in Activations
  BY Zenon, <1>1, <1>2, MessageKinds
<1>4. n # head
  BY Zenon, <1>3, NodeFacts
<1>5. Error(m.r) \in Errors
  BY Zenon, <1>3, MessageTypes DEF Activations
<1>6. CASE Traffic(n, Taken(n, i), CloseOutbound(conns[n]))
  <2>1. Carry(n, {}, Upstream(n), {<<i, 1>>})
    BY Zenon, <1>1, <1>6, TakeCarry
  <2> QED BY Zenon, <1>1, <1>3, <1>4, <1>5, <2>1 DEF RejectActivation
<1>7. CASE n = tail /\ \E w \in WriteOut(n, conns[n], Error(m.r)) : Traffic(n, Taken(n, i), w.c)
  <2>1. Error(m.r) \in Sent(n)
    BY Zenon, <1>5, <1>7 DEF Sent
  <2>2. PICK w \in WriteOut(n, conns[n], Error(m.r)) : Traffic(n, Taken(n, i), w.c)
    BY Zenon, <1>7
  <2>3. Carry(n, {Error(m.r)}, Upstream(n), {<<i, 1>>})
    BY Zenon, <1>1, <2>1, <2>2, AnswerCarry
  <2> QED BY Zenon, <1>1, <1>3, <1>4, <1>5, <1>7, <2>3 DEF RejectActivation
<1> QED BY Zenon, <1>6, <1>7 DEF RejectActivation

\* _handle_activation that raises: taken, the cache dropped, nothing written.
LEMMA FailCarry ==
  ASSUME TypeOK, NEW n \in Node, NEW i, FailActivation(n, i), NEW m, m = Message(n, i)
  PROVE  /\ n # head /\ m \in Activations /\ Pending(n, i) /\ n \in FailAt
         /\ Carry(n, {}, Upstream(n), {<<i, 1>>})
         /\ DropCache(n, m.r) /\ faults' = faults + 1
         /\ UNCHANGED <<threads, gone, seen, up, suspicions, crashes, restarts>>
<1>1. Pending(n, i) /\ m.t = "activation"
  BY Zenon DEF FailActivation
<1>2. m \in Sent(Upstream(n)) /\ Upstream(n) \in Node
  BY Zenon, <1>1, PendingFacts
<1>3. Upstream(n) # tail /\ m \in Activations
  BY Zenon, <1>1, <1>2, MessageKinds
<1>4. n # head
  BY Zenon, <1>3, NodeFacts
<1>5. Carry(n, {}, Upstream(n), {<<i, 1>>})
  BY Zenon, <1>1, CutCarry DEF FailActivation
<1> QED BY Zenon, <1>1, <1>3, <1>4, <1>5 DEF FailActivation

\* _handle_sampled_token: the token goes to the queue of a registered request.
LEMMA TokenCarry ==
  ASSUME TypeOK, NEW n \in Node, NEW i, HandleSampledToken(n, i), NEW m, m = Message(n, i)
  PROVE  /\ n = head /\ Upstream(n) = tail /\ m \in SampledTokens /\ Pending(n, i)
         /\ Carry(n, {}, Upstream(n), {<<i, 1>>})
         /\ queue' = (IF m.r \in states THEN [queue EXCEPT ![m.r] = Append(@, m)] ELSE queue)
         /\ UNCHANGED <<pc, generated, states, cache, client, gone, seen, up, budgets>>
<1>1. Pending(n, i) /\ m.t = "sampled_token"
  BY Zenon DEF HandleSampledToken
<1>2. m \in Sent(Upstream(n)) /\ Upstream(n) \in Node
  BY Zenon, <1>1, PendingFacts
<1>3. Upstream(n) = tail /\ m \in SampledTokens
  BY Zenon, <1>1, <1>2, MessageKinds
<1>4. n = head
  BY Zenon, <1>3, NodeFacts
<1>5. Carry(n, {}, Upstream(n), {<<i, 1>>})
  BY Zenon, <1>1, TakeCarry DEF HandleSampledToken
<1> QED BY Zenon, <1>1, <1>3, <1>4, <1>5 DEF HandleSampledToken

\* _handle_upstream_error: a registered request is told, poisoned and dropped.
LEMMA ErrorCarry ==
  ASSUME TypeOK, NEW n \in Node, NEW i, HandleUpstreamError(n, i), NEW r, r = Message(n, i).r
  PROVE  /\ n = head /\ Upstream(n) = tail /\ Message(n, i) \in Errors /\ Pending(n, i)
         /\ r \in Req
         /\ Carry(n, {}, Upstream(n), {<<i, 1>>})
         /\ \/ r \notin states /\ UNCHANGED <<queue, states, cache, client>>
            \/ /\ r \in states /\ Reply(r, Failure) /\ DropCache(head, r)
               /\ queue' = [queue EXCEPT ![r] = Append(@, Poison)]
               /\ states' = states \ {r}
         /\ UNCHANGED <<pc, generated, gone, seen, up, budgets>>
<1>1. Pending(n, i) /\ Message(n, i).t = "error"
  BY Zenon DEF HandleUpstreamError
<1>2. Message(n, i) \in Sent(Upstream(n)) /\ Upstream(n) \in Node
  BY Zenon, <1>1, PendingFacts
<1>3. Upstream(n) = tail /\ Message(n, i) \in Errors
  BY Zenon, <1>1, <1>2, MessageKinds
<1>4. n = head
  BY Zenon, <1>3, NodeFacts
<1>5. Carry(n, {}, Upstream(n), {<<i, 1>>})
  BY Zenon, <1>1, TakeCarry DEF HandleUpstreamError
<1>6. r \in Req
  BY Zenon, <1>3 DEF Errors
<1> QED BY Zenon, <1>1, <1>3, <1>4, <1>5, <1>6 DEF HandleUpstreamError

\* _handle_end: the cache is dropped and the message passed on.
LEMMA EndCarry ==
  ASSUME TypeOK, NEW n \in Node, NEW i, HandleEnd(n, i), NEW r, r = Message(n, i).r
  PROVE  /\ n # head /\ Message(n, i) = End(r) /\ Pending(n, i) /\ r \in Req
         /\ \/ n = tail /\ Carry(n, {}, Upstream(n), {<<i, 1>>})
            \/ n # tail /\ Carry(n, {End(r)}, Upstream(n), {<<i, 1>>})
         /\ DropCache(n, r)
         /\ UNCHANGED <<threads, gone, seen, up, budgets>>
<1>1. Pending(n, i) /\ Message(n, i).t = "end"
  BY Zenon DEF HandleEnd
<1>2. Message(n, i) \in Sent(Upstream(n)) /\ Upstream(n) \in Node
  BY Zenon, <1>1, PendingFacts
<1>3. Upstream(n) # tail /\ Message(n, i) \in Ends /\ Message(n, i) = End(r)
  BY Zenon, <1>1, <1>2, MessageKinds
<1>4. n # head /\ r \in Req
  BY Zenon, <1>3, NodeFacts DEF Ends
<1>5. DropCache(n, r) /\ UNCHANGED <<threads, gone, seen, up, budgets>>
  BY Zenon DEF HandleEnd
<1>6. CASE n = tail /\ Traffic(n, Taken(n, i), CloseOutbound(conns[n]))
  BY Zenon, <1>1, <1>3, <1>4, <1>5, <1>6, TakeCarry
<1>7. CASE n # tail /\ \E w \in WriteOut(n, conns[n], End(r)) : Traffic(n, Taken(n, i), CloseOutbound(w.c))
  <2>1. End(r) \in Sent(n)
    BY Zenon, <1>4, <1>7, MessageTypes DEF Sent
  <2>2. PICK w \in WriteOut(n, conns[n], End(r)) : Traffic(n, Taken(n, i), CloseOutbound(w.c))
    BY Zenon, <1>7
  <2>3. Carry(n, {End(r)}, Upstream(n), {<<i, 1>>})
    BY Zenon, <1>1, <2>1, <2>2, AnswerCloseCarry
  <2> QED BY Zenon, <1>1, <1>3, <1>4, <1>5, <1>7, <2>3
<1> QED BY Zenon, <1>6, <1>7 DEF HandleEnd
-----------------------------------------------------------------------------
(* The thread of a request, by what it does to the connections. *)

\* The message that starts a round
Started(r) == Activation(r, generated[r], cache[head][r] = generated[r])

\* The head starts a round.
LEMMA ForwardCarry ==
  ASSUME TypeOK, NEW r \in Req, NEW w \in Forward(r), conns' = [conns EXCEPT ![head] = w.c]
  PROVE  Carry(head, {Started(r)}, head, {}) /\ Started(r) \in Sent(head)
<1>1. generated[r] \in Nat /\ head # tail /\ head \in Node
  BY PipelineAssumption DEF TypeOK, head, tail, Node
<1>2. (cache[head][r] = generated[r]) \in BOOLEAN
  BY Zenon
<1>3. Started(r) \in Sent(head)
  BY Zenon, <1>1, <1>2, MessageTypes DEF Sent, Started
<1> QED BY Zenon, <1>3, WriteHead DEF Forward, Started

\* _broadcast_end writes one EndRequest and drops the head's cache.
LEMMA BroadcastCarry ==
  ASSUME TypeOK, NEW r \in Req, BroadcastEnd(r)
  PROVE  Carry(head, {End(r)}, head, {}) /\ DropCache(head, r)
<1>1. End(r) \in Sent(head)
  BY MessageTypes, PipelineAssumption DEF Sent, head, tail
<1> QED BY Zenon, <1>1, WriteHead DEF BroadcastEnd

\* What the thread of r writes is a round of r or the EndRequest of r.
LEMMA RequestConns ==
  ASSUME TypeOK, NEW r \in Req, Request(r)
  PROVE  \E N \in SUBSET {Started(r), End(r)} : Carry(head, N, head, {})
<1>0. head \in Node
  BY PipelineAssumption DEF head, Node
<1>1. CASE conns' = conns
  BY Zenon, <1>1, SameCarry
<1>2. CASE Prefill(r)
  BY Zenon, <1>2, ForwardCarry DEF Prefill
<1>3. CASE DecodeStep(r)
  BY Zenon, <1>1, <1>3, ForwardCarry DEF DecodeStep, Abort
<1>4. CASE Finish(r) \/ EndAborted(r)
  BY Zenon, <1>4, BroadcastCarry DEF Finish, EndAborted
<1>5. CASE Release(r) \/ Hangup(r)
  BY Zenon, <1>0, <1>5, CloseCarry DEF Release, Hangup
<1>6. CASE Decode(r)
  BY Zenon, <1>1, <1>6 DEF Decode, Abort
<1> QED BY Zenon, <1>1, <1>2, <1>3, <1>4, <1>5, <1>6
     DEF Request, BeginCheck, BeginRegister, PrefillFails, DecodeFails, Abort

\* The failure detector writes nothing.
LEMMA MembershipCarry ==
  ASSUME TypeOK, NEW n \in Node, NEW p \in Watched(n), Membership(n, p)
  PROVE  Carry(head, {}, head, {}) \/ Carry(n, {}, n, {})
<1>1. conns' = conns \/ conns' = [conns EXCEPT ![n] = CloseOutbound(@)]
  BY Zenon DEF Membership, LeaveAlive, BecomeDead, BecomeAlive
<1> QED BY Zenon, <1>1, SameCarry, CloseCarry
-----------------------------------------------------------------------------

\* Carry holds the type of the connections.
LEMMA CarryTypes ==
  ASSUME NEW a, NEW N, NEW u, NEW X, Carry(a, N, u, X)
  PROVE  ConnTypes'
BY Zenon DEF Carry, ConnTypes

\* The thread of a request keeps the types of the stages.
LEMMA RequestStages ==
  ASSUME TypeOK, NEW r \in Req, Request(r)
  PROVE  StageTypes'
<1>0. ThreadTypes /\ StageTypes /\ ConnTypes /\ head \in Node
  BY TypeParts, PipelineAssumption DEF head, Node
<1>1. /\ cache \in [Node -> [Req -> Nat \cup {NoCache}]] /\ gone \subseteq Req
      /\ seen \in [Node -> [Node -> {"alive", "suspect", "dead"}]]
      /\ up \subseteq Node /\ head \in up
      /\ faults \in Nat /\ suspicions \in Nat /\ crashes \in Nat /\ restarts \in Nat
  BY Zenon, <1>0 DEF StageTypes
<1>2. UNCHANGED <<gone, seen, up, suspicions, crashes, restarts>> /\ faults' \in Nat
  <2>1. CASE BeginCheck(r) \/ BeginRegister(r) \/ Prefill(r)
    BY Zenon, <1>1, <2>1 DEF BeginCheck, BeginRegister, Prefill, budgets
  <2>2. CASE PrefillFails(r)
    BY <1>1, <2>2 DEF PrefillFails
  <2>3. CASE Decode(r) \/ DecodeStep(r)
    BY Zenon, <1>1, <2>3 DEF Decode, DecodeStep, budgets
  <2>4. CASE DecodeFails(r)
    BY <1>1, <2>4 DEF DecodeFails
  <2>5. CASE Finish(r) \/ Release(r) \/ Hangup(r) \/ EndAborted(r)
    BY Zenon, <1>1, <2>5 DEF Finish, Release, Hangup, EndAborted, budgets
  <2> QED BY Zenon, <2>1, <2>2, <2>3, <2>4, <2>5 DEF Request
<1> SUFFICES cache' \in [Node -> [Req -> Nat \cup {NoCache}]]
  BY Zenon, <1>1, <1>2 DEF StageTypes
<1>3. CASE cache' = cache
  BY Zenon, <1>1, <1>3
<1>4. CASE DropCache(head, r)
  BY Zenon, <1>0, <1>4, DropTypes
<1>5. CASE Grow(r)
  <2>1. cache[head][r] + 1 \in Nat
    <3>1. cache[head][r] \in Nat \cup {NoCache}
      BY Zenon, <1>0, <1>1
    <3> QED BY <3>1 DEF NoCache
  <2> QED BY Zenon, <1>0, <1>1, <1>5, <2>1 DEF Grow
<1>6. CASE cache' = [cache EXCEPT ![head][r] = 0]
  BY Zenon, <1>0, <1>1, <1>6
<1> QED BY Zenon, <1>3, <1>4, <1>5, <1>6
     DEF Request, BeginCheck, BeginRegister, Prefill, PrefillFails, Decode, DecodeStep,
         DecodeFails, Finish, Release, Hangup, EndAborted, Abort, BroadcastEnd

\* A step that leaves the threads alone keeps their types.
LEMMA ThreadsSame ==
  ASSUME UNCHANGED threads
  PROVE  (ThreadTypes <=> ThreadTypes') /\ (CountInv <=> CountInv')
BY Zenon DEF threads, ThreadTypes, CountInv

\* The thread of a connection keeps the types.
LEMMA ConnectionTypes ==
  ASSUME TypeOK, CountInv, NEW n \in Node, NEW i, Connection(n, i)
  PROVE  ThreadTypes' /\ StageTypes' /\ ConnTypes' /\ CountInv'
<1>0. ThreadTypes /\ StageTypes /\ ConnTypes
  BY Zenon, TypeParts
<1>1. /\ cache \in [Node -> [Req -> Nat \cup {NoCache}]] /\ gone \subseteq Req
      /\ seen \in [Node -> [Node -> {"alive", "suspect", "dead"}]]
      /\ up \subseteq Node /\ head \in up
      /\ faults \in Nat /\ suspicions \in Nat /\ crashes \in Nat /\ restarts \in Nat
  BY Zenon, <1>0 DEF StageTypes
<1> DEFINE m == Message(n, i)
<1>2. CASE HandleActivation(n, i)
  <2>1. /\ cache' = [cache EXCEPT ![n][m.r] = Held(n, m.r) + 1] /\ m \in Activations
        /\ Held(n, m.r) \in Nat /\ UNCHANGED <<threads, gone, seen, up, budgets>>
        /\ ConnTypes'
    BY Zenon, <1>2, ActivationCarry, CarryTypes
  <2> HIDE DEF m
  <2>2. m.r \in Req /\ Held(n, m.r) + 1 \in Nat
    BY <2>1 DEF Activations
  <2>3. cache' \in [Node -> [Req -> Nat \cup {NoCache}]]
    BY Zenon, <1>1, <2>1, <2>2
  <2> QED BY Zenon, <1>0, <1>1, <2>1, <2>3, ThreadsSame DEF StageTypes, budgets
<1>3. CASE RejectActivation(n, i)
  <2>1. /\ UNCHANGED <<threads, cache, gone, seen, up, suspicions, crashes, restarts>>
        /\ ConnTypes' /\ faults' = faults + 1
    BY Zenon, <1>3, RejectCarry, CarryTypes
  <2> QED BY <1>0, <1>1, <2>1, ThreadsSame DEF StageTypes
<1>4. CASE FailActivation(n, i)
  <2>1. /\ UNCHANGED <<threads, gone, seen, up, suspicions, crashes, restarts>>
        /\ ConnTypes' /\ faults' = faults + 1 /\ DropCache(n, m.r) /\ m \in Activations
    BY Zenon, <1>4, FailCarry, CarryTypes
  <2>2. cache' \in [Node -> [Req -> Nat \cup {NoCache}]]
    BY Zenon, <1>0, <2>1, DropTypes DEF Activations
  <2> QED BY <1>0, <1>1, <2>1, <2>2, ThreadsSame DEF StageTypes
<1>5. CASE HandleSampledToken(n, i)
  <2>1. /\ queue' = (IF m.r \in states THEN [queue EXCEPT ![m.r] = Append(@, m)] ELSE queue)
        /\ UNCHANGED <<pc, generated, states, cache, client, gone, seen, up, budgets>>
        /\ m \in SampledTokens /\ ConnTypes'
    BY Zenon, <1>5, TokenCarry, CarryTypes
  <2> HIDE DEF m
  <2>2. queue \in [Req -> Seq(SampledTokens \cup {Poison})] /\ m.r \in Req
    BY Zenon, <1>0, <2>1 DEF ThreadTypes, SampledTokens
  <2>3. Append(queue[m.r], m) \in Seq(SampledTokens \cup {Poison})
    BY <2>1, <2>2
  <2>4. queue' \in [Req -> Seq(SampledTokens \cup {Poison})]
    BY Zenon, <2>1, <2>2, <2>3
  <2>5. ThreadTypes' /\ CountInv'
    BY Zenon, <1>0, <2>1, <2>4 DEF ThreadTypes, CountInv
  <2> QED BY Zenon, <1>1, <2>1, <2>5 DEF StageTypes, budgets
<1>6. CASE HandleUpstreamError(n, i)
  <2> DEFINE r == m.r
  <2>1. /\ r \in Req /\ ConnTypes'
        /\ \/ r \notin states /\ UNCHANGED <<queue, states, cache, client>>
           \/ /\ r \in states /\ Reply(r, Failure) /\ DropCache(head, r)
              /\ queue' = [queue EXCEPT ![r] = Append(@, Poison)]
              /\ states' = states \ {r}
        /\ UNCHANGED <<pc, generated, gone, seen, up, budgets>>
        /\ head \in Node
    BY Zenon, <1>6, ErrorCarry, CarryTypes
  <2> HIDE DEF r
  <2>2. CASE UNCHANGED <<queue, states, cache, client>>
    BY Zenon, <1>0, <2>1, <2>2 DEF ThreadTypes, CountInv, StageTypes, budgets
  <2>3. CASE /\ Reply(r, Failure) /\ DropCache(head, r)
             /\ queue' = [queue EXCEPT ![r] = Append(@, Poison)]
             /\ states' = states \ {r}
    <3>1. client' \in [Req -> Seq(Replies)]
      BY Zenon, <1>0, <2>1, <2>3, FailureType, ReplyTypes
    <3>2. cache' \in [Node -> [Req -> Nat \cup {NoCache}]]
      BY Zenon, <1>0, <2>1, <2>3, DropTypes
    <3>3. queue \in [Req -> Seq(SampledTokens \cup {Poison})]
      BY Zenon, <1>0 DEF ThreadTypes
    <3>4. Append(queue[r], Poison) \in Seq(SampledTokens \cup {Poison})
      BY <2>1, <3>3
    <3>5. queue' \in [Req -> Seq(SampledTokens \cup {Poison})]
      BY Zenon, <2>3, <3>3, <3>4
    <3>6. ThreadTypes' /\ CountInv'
      BY Zenon, <1>0, <2>1, <2>3, <3>1, <3>5 DEF ThreadTypes, CountInv
    <3> QED BY Zenon, <1>1, <2>1, <3>2, <3>6 DEF StageTypes, budgets
  <2> QED BY Zenon, <2>1, <2>2, <2>3
<1>7. CASE HandleEnd(n, i)
  <2>a. /\ UNCHANGED <<threads, gone, seen, up, budgets>> /\ m.r \in Req
        /\ DropCache(n, m.r)
        /\ \/ Carry(n, {}, Upstream(n), {<<i, 1>>})
           \/ Carry(n, {End(m.r)}, Upstream(n), {<<i, 1>>})
    BY Zenon, <1>7, EndCarry
  <2>1. /\ UNCHANGED <<threads, gone, seen, up, budgets>> /\ m.r \in Req
        /\ ConnTypes' /\ DropCache(n, m.r)
    BY Zenon, <2>a, CarryTypes
  <2>2. cache' \in [Node -> [Req -> Nat \cup {NoCache}]]
    BY Zenon, <1>0, <2>1, DropTypes
  <2> QED BY Zenon, <1>0, <1>1, <2>1, <2>2, ThreadsSame DEF StageTypes, budgets
<1> QED BY Zenon, <1>2, <1>3, <1>4, <1>5, <1>6, <1>7 DEF Connection

\* The failure detector keeps the types.
LEMMA MembershipTypes ==
  ASSUME TypeOK, CountInv, NEW n \in Node, NEW p \in Watched(n), Membership(n, p)
  PROVE  ThreadTypes' /\ StageTypes' /\ ConnTypes' /\ CountInv'
<1>0. ThreadTypes /\ StageTypes /\ ConnTypes
  BY Zenon, TypeParts
<1>1. ConnTypes'
  BY Zenon, MembershipCarry, CarryTypes
<1>2. p \in Node
  BY Zenon, NodeFacts DEF Watched
<1>3. /\ cache \in [Node -> [Req -> Nat \cup {NoCache}]] /\ gone \subseteq Req
      /\ seen \in [Node -> [Node -> {"alive", "suspect", "dead"}]]
      /\ up \subseteq Node /\ head \in up
      /\ faults \in Nat /\ suspicions \in Nat /\ crashes \in Nat /\ restarts \in Nat
  BY Zenon, <1>0 DEF StageTypes
<1>4. \E v \in {"alive", "suspect", "dead"} : seen' = [seen EXCEPT ![n][p] = v]
  BY Zenon DEF Membership, LeaveAlive, BecomeDead, BecomeAlive
<1>5. seen' \in [Node -> [Node -> {"alive", "suspect", "dead"}]]
  BY <1>2, <1>3, <1>4
<1>6. /\ UNCHANGED <<pc, generated, states, cache, client, gone, up, faults, crashes, restarts>>
      /\ suspicions' \in {suspicions, suspicions + 1}
  BY Zenon DEF Membership, LeaveAlive, BecomeDead, BecomeAlive, threads, budgets
<1>7. StageTypes'
  BY <1>3, <1>5, <1>6 DEF StageTypes
<1>8. queue' \in [Req -> Seq(SampledTokens \cup {Poison})]
  <2>1. queue \in [Req -> Seq(SampledTokens \cup {Poison})]
    BY Zenon, <1>0 DEF ThreadTypes
  <2>2. CASE queue' = queue
    BY Zenon, <2>1, <2>2
  <2>3. CASE queue' = [r \in Req |-> IF r \in states THEN Append(queue[r], Poison) ELSE queue[r]]
    <3>1. ASSUME NEW r \in Req PROVE Append(queue[r], Poison) \in Seq(SampledTokens \cup {Poison})
      BY <2>1
    <3> QED BY Zenon, <2>1, <2>3, <3>1
  <2> QED BY Zenon, <2>2, <2>3 DEF Membership, LeaveAlive, BecomeDead, BecomeAlive, threads
<1>9. ThreadTypes' /\ CountInv'
  BY Zenon, <1>0, <1>6, <1>8 DEF ThreadTypes, CountInv
<1> QED BY Zenon, <1>1, <1>7, <1>9

\* So do a crash and a restart.
LEMMA CrashTypes ==
  ASSUME TypeOK, CountInv, NEW n \in Node, Crash(n) \/ Restart(n)
  PROVE  ThreadTypes' /\ StageTypes' /\ ConnTypes' /\ CountInv'
<1>0. ThreadTypes /\ StageTypes /\ ConnTypes
  BY Zenon, TypeParts
<1>1. ThreadTypes' /\ CountInv'
  BY Zenon, <1>0, ThreadsSame DEF Crash, Restart
<1>2. CASE Crash(n)
  <2>1. Carry(n, {}, Upstream(n), {})
    BY Zenon, <1>2, CrashCarry DEF Crash
  <2>2. ConnTypes'
    BY Zenon, <2>1, CarryTypes
  <2>3. StageTypes'
    <3>1. /\ cache \in [Node -> [Req -> Nat \cup {NoCache}]] /\ gone \subseteq Req
          /\ seen \in [Node -> [Node -> {"alive", "suspect", "dead"}]]
          /\ up \subseteq Node /\ head \in up
          /\ faults \in Nat /\ suspicions \in Nat /\ crashes \in Nat /\ restarts \in Nat
      BY Zenon, <1>0 DEF StageTypes
    <3>2. /\ crashes' = crashes + 1 /\ UNCHANGED <<gone, faults, suspicions, restarts>>
          /\ up' = up \ {n} /\ n # head
      BY Zenon, <1>2 DEF Crash
    <3>3. cache' \in [Node -> [Req -> Nat \cup {NoCache}]]
      BY Zenon, <1>2, <3>1 DEF Crash
    <3>4. seen' \in [Node -> [Node -> {"alive", "suspect", "dead"}]]
      BY Zenon, <1>2, <3>1 DEF Crash
    <3> QED BY <3>1, <3>2, <3>3, <3>4 DEF StageTypes
  <2> QED BY Zenon, <1>1, <2>2, <2>3
<1>3. CASE Restart(n)
  <2>1. conns' = conns
    BY Zenon, <1>3 DEF Restart
  <2>2. ConnTypes'
    BY Zenon, <1>0, <2>1 DEF ConnTypes
  <2>3. StageTypes'
    BY <1>0, <1>3 DEF StageTypes, Restart
  <2> QED BY Zenon, <1>1, <2>2, <2>3
<1> QED BY Zenon, <1>2, <1>3

\* The initial state has its type.
LEMMA TypeInit == Init => TypeOK /\ CountInv
<1> SUFFICES ASSUME Init PROVE TypeOK /\ CountInv
  BY Zenon
<1>0. head \in Node /\ MaxNew \in Nat
  BY PipelineAssumption DEF head, Node
<1>1. ThreadTypes /\ CountInv
  BY <1>0 DEF Init, ThreadTypes, CountInv
<1>2. StageTypes
  BY Zenon, <1>0 DEF Init, StageTypes, NoCache
<1>3. ConnTypes
  <2> DEFINE none == [i \in {} |-> <<>>]
  <2>1. DOMAIN conns = Node /\ \A n \in Node : conns[n] = none
    BY Zenon DEF Init
  <2>2. DOMAIN none = {}
    BY Zenon
  <2>3. \A n \in Node : Connections(none, Sent(n))
    BY Zenon, <2>2 DEF Connections, Finite
  <2> HIDE DEF none
  <2> QED BY Zenon, <2>1, <2>3 DEF ConnTypes
<1> QED BY Zenon, <1>1, <1>2, <1>3, TypeParts

\* Every step keeps the types and the bound on the counter.
LEMMA TypeStep == TypeOK /\ CountInv /\ [Next]_vars => TypeOK' /\ CountInv'
<1> SUFFICES ASSUME TypeOK, CountInv, [Next]_vars PROVE TypeOK' /\ CountInv'
  BY Zenon
<1> SUFFICES ThreadTypes' /\ StageTypes' /\ ConnTypes' /\ CountInv'
  BY Zenon DEF TypeOK, ThreadTypes, StageTypes, ConnTypes
<1>1. ASSUME NEW r \in Req, Request(r)
      PROVE  ThreadTypes' /\ StageTypes' /\ ConnTypes' /\ CountInv'
  BY Zenon, <1>1, RequestThreads, RequestStages, RequestConns, CarryTypes
<1>2. ASSUME NEW r \in Req, ClientGone(r)
      PROVE  ThreadTypes' /\ StageTypes' /\ ConnTypes' /\ CountInv'
  <2>1. ThreadTypes' /\ CountInv'
    BY Zenon, <1>2, ThreadsSame, TypeParts DEF ClientGone
  <2>2. StageTypes' /\ ConnTypes'
    BY Zenon, <1>2, TypeParts DEF ClientGone, StageTypes, ConnTypes, budgets
  <2> QED BY Zenon, <2>1, <2>2
<1>3. ASSUME NEW n \in Node, NEW i, Connection(n, i)
      PROVE  ThreadTypes' /\ StageTypes' /\ ConnTypes' /\ CountInv'
  BY Zenon, <1>3, ConnectionTypes
<1>4. ASSUME NEW n \in Node, Crash(n) \/ Restart(n)
      PROVE  ThreadTypes' /\ StageTypes' /\ ConnTypes' /\ CountInv'
  BY Zenon, <1>4, CrashTypes
<1>5. ASSUME NEW n \in Node, NEW p \in Watched(n), Membership(n, p)
      PROVE  ThreadTypes' /\ StageTypes' /\ ConnTypes' /\ CountInv'
  BY Zenon, <1>5, MembershipTypes
<1>6. CASE UNCHANGED vars
  BY Zenon, <1>6, TypeParts DEF vars, ThreadTypes, StageTypes, ConnTypes, CountInv
<1> QED BY Zenon, <1>1, <1>2, <1>3, <1>4, <1>5, <1>6 DEF Next, Serve

\* Type correctness, for every number of stages, requests and tokens: every
\* variable has its type. A stage's connections hold only the kinds of message
\* that the stage sends, and _drive_decode_loop never counts past max_new_tokens.
THEOREM PipelineTyped == Spec => []TypeOK
<1>1. TypeOK /\ CountInv /\ [Next]_vars => TypeOK' /\ CountInv'
  BY Zenon, TypeStep
<1>2. Init => TypeOK /\ CountInv
  BY Zenon, TypeInit
<1> QED BY <1>1, <1>2, PTL DEF Spec
=============================================================================
