----------------------------- MODULE SwimProofs -----------------------------
(***************************************************************************)
(* Proofs about Swim, for every set of nodes, every shards.yaml and every  *)
(* bound.                                                                  *)
(***************************************************************************)
EXTENDS Swim, TLAPS

\* Every shards.yaml lists every node.
Full == \A n \in Node : Peers[n] = Node

\* A record of x that node n may hold when x has issued incarnations up to b[x]
GoodRecord(n, x, r, b) ==
  /\ r \in MemberRecord
  /\ r.inc <= b[x]
  /\ ModelId[n] # "" => r.model = ModelId[n]
  /\ Full => (r.deadline <=> r.state = SUSPECT)

\* The inductive invariant of a local state s of node n
LocalInv(n, s, b) ==
  /\ s \in LocalState
  /\ Peers[n] \subseteq DOMAIN s.members
  /\ \A x \in DOMAIN s.members : GoodRecord(n, x, s.members[x], b)
  /\ n \in DOMAIN s.members
  /\ s.members[n] = Record(ALIVE, s.inc, ModelId[n])
  /\ \A x \in DOMAIN s.backlog :
       x \in DOMAIN s.members /\ s.backlog[x] = s.members[x]
  /\ \A p \in s.probe : p.target \in DOMAIN s.members \ {n}

\* The inductive invariant of a datagram m
MessageInv(m, b) ==
  /\ m \in Message
  /\ m.type \in {"Ping", "Ack"} => m.inc <= b[m.from]
  /\ m.type \in {"Ping", "Ack", "MembershipDelta"} =>
       \A x \in DOMAIN m.deltas : m.deltas[x].inc <= b[x]
  /\ m.type = "Join" =>
       /\ m.from # m.to
       /\ m.rec.state = ALIVE /\ m.rec.inc = 0 /\ ~m.rec.deadline

\* The inductive invariant
IInv ==
  /\ TypeOK
  /\ \A n \in Node : LocalInv(n, node[n], issued)
  /\ \A m \in net : MessageInv(m, issued)
-----------------------------------------------------------------------------
(* Records and dicts. *)

\* A dictionary is a function on some of the nodes.
LEMMA DictElim ==
  ASSUME NEW f \in MemberDict
  PROVE  /\ DOMAIN f \subseteq Node
         /\ f \in [DOMAIN f -> MemberRecord]
BY Zenon DEF MemberDict

\* A function on some of the nodes with records as values is a dictionary.
LEMMA DictIntro ==
  ASSUME NEW D \in SUBSET Node, NEW f \in [D -> MemberRecord]
  PROVE  f \in MemberDict
BY Zenon DEF MemberDict

\* dict.update of two dictionaries is a dictionary.
LEMMA MergeType ==
  ASSUME NEW f \in MemberDict, NEW g \in MemberDict
  PROVE  /\ Merge(f, g) \in MemberDict
         /\ DOMAIN Merge(f, g) = DOMAIN f \cup DOMAIN g
         /\ \A x \in DOMAIN g : Merge(f, g)[x] = g[x]
         /\ \A x \in DOMAIN f \ DOMAIN g : Merge(f, g)[x] = f[x]
<1>1. Merge(f, g) \in [DOMAIN f \cup DOMAIN g -> MemberRecord]
  BY Zenon, DictElim DEF Merge
<1>2. DOMAIN f \cup DOMAIN g \in SUBSET Node
  BY Zenon, DictElim
<1> QED  BY Zenon, <1>1, <1>2, DictIntro DEF Merge

\* The fields of a record the node makes itself.
LEMMA RecordFields ==
  ASSUME NEW st, NEW i, NEW md
  PROVE  /\ Record(st, i, md).state = st
         /\ Record(st, i, md).inc = i
         /\ Record(st, i, md).model = md
         /\ Record(st, i, md).deadline <=> st = SUSPECT
BY Zenon DEF Record

\* A record the node makes itself is a MemberRecord.
LEMMA RecordType ==
  ASSUME NEW st \in State, NEW i \in 0..MaxInc, NEW md \in {ModelId[x] : x \in Node}
  PROVE  Record(st, i, md) \in MemberRecord
BY Zenon DEF Record, MemberRecord

\* A record made from a legal state, incarnation and model satisfies GoodRecord.
LEMMA RecordGood ==
  ASSUME NEW n, NEW x, NEW b, NEW st \in State, NEW i \in 0..MaxInc,
         NEW md \in {ModelId[y] : y \in Node},
         i <= b[x], ModelId[n] # "" => md = ModelId[n]
  PROVE  GoodRecord(n, x, Record(st, i, md), b)
<1> DEFINE r == Record(st, i, md)
<1>1. r \in MemberRecord
  BY Zenon, RecordType
<1>2. r.inc <= b[x]
  BY Zenon DEF Record
<1>3. ModelId[n] # "" => r.model = ModelId[n]
  BY Zenon DEF Record
<1>4. r.deadline <=> r.state = SUSPECT
  BY Zenon DEF Record
<1> HIDE DEF r
<1>5. GoodRecord(n, x, r, b)
  BY Zenon, <1>1, <1>2, <1>3, <1>4 DEF GoodRecord
<1> QED  BY Zenon, <1>5 DEF r

\* What Install changes in a local state and what it keeps.
LEMMA InstallFields ==
  ASSUME NEW s \in LocalState, NEW recs \in MemberDict
  PROVE  /\ Install(s, recs) \in LocalState
         /\ Install(s, recs).members = Merge(s.members, recs)
         /\ Install(s, recs).backlog = Merge(s.backlog, recs)
         /\ Install(s, recs).inc = s.inc
         /\ Install(s, recs).probe = s.probe
         /\ Install(s, recs).helps = s.helps
         /\ Install(s, recs).counter = s.counter
<1> DEFINE log(x) == Append(s.log[x],
                       [old |-> IF x \in DOMAIN s.members
                                THEN s.members[x].state ELSE Absent,
                        new |-> recs[x].state])
           logs == [x \in Node |-> IF x \in DOMAIN recs THEN log(x) ELSE s.log[x]]
<1>1. ASSUME NEW x \in Node, x \in DOMAIN recs
      PROVE  log(x) \in Seq(Transition)
  <2>1. recs[x].state \in State
    BY Zenon, <1>1, DictElim DEF MemberRecord
  <2>2. (IF x \in DOMAIN s.members THEN s.members[x].state ELSE Absent)
          \in State \cup {Absent}
    BY Zenon, DictElim DEF MemberRecord, LocalState
  <2>3. s.log[x] \in Seq(Transition)
    BY Zenon DEF LocalState
  <2> QED  BY <2>1, <2>2, <2>3 DEF Transition
<1>2. logs \in [Node -> Seq(Transition)]
  BY Zenon, <1>1 DEF LocalState
<1>3. /\ Merge(s.members, recs) \in MemberDict
      /\ Merge(s.backlog, recs) \in MemberDict
  BY Zenon, MergeType DEF LocalState
<1>4. Install(s, recs) = [s EXCEPT !.members = Merge(s.members, recs),
                                   !.backlog = Merge(s.backlog, recs),
                                   !.log = logs]
  BY Zenon DEF Install, LocalState
<1> QED  BY Zenon, <1>2, <1>3, <1>4 DEF LocalState
-----------------------------------------------------------------------------
(* The helpers of the state machine preserve the invariant of a local state. *)

\* A change that leaves the view alone
LEMMA SameView ==
  ASSUME NEW n \in Node, NEW b, NEW s, LocalInv(n, s, b),
         NEW t \in LocalState,
         t.members = s.members, t.inc = s.inc,
         \A x \in DOMAIN t.backlog :
           x \in DOMAIN s.backlog /\ t.backlog[x] = s.backlog[x],
         \A p \in t.probe : p.target \in DOMAIN s.members \ {n}
  PROVE  LocalInv(n, t, b)
BY Zenon DEF LocalInv

\* Installing good records of peers keeps the local invariant.
LEMMA InstallInv ==
  ASSUME NEW n \in Node, NEW b, NEW s, LocalInv(n, s, b),
         NEW recs \in MemberDict, n \notin DOMAIN recs,
         \A x \in DOMAIN recs : GoodRecord(n, x, recs[x], b)
  PROVE  /\ LocalInv(n, Install(s, recs), b)
         /\ Install(s, recs).inc = s.inc
         /\ Install(s, recs).probe = s.probe
<1> DEFINE t == Install(s, recs)
<1>1. /\ s \in LocalState /\ s.members \in MemberDict /\ s.backlog \in MemberDict
  BY Zenon DEF LocalInv, LocalState
<1>2. /\ t \in LocalState
      /\ t.members = Merge(s.members, recs)
      /\ t.backlog = Merge(s.backlog, recs)
      /\ t.inc = s.inc /\ t.probe = s.probe
  BY Zenon, <1>1, InstallFields
<1> HIDE DEF t
<1>3. /\ DOMAIN t.members = DOMAIN s.members \cup DOMAIN recs
      /\ \A x \in DOMAIN recs : t.members[x] = recs[x]
      /\ \A x \in DOMAIN s.members \ DOMAIN recs : t.members[x] = s.members[x]
  BY Zenon, <1>2 DEF Merge
<1>4. /\ DOMAIN t.backlog = DOMAIN s.backlog \cup DOMAIN recs
      /\ \A x \in DOMAIN recs : t.backlog[x] = recs[x]
      /\ \A x \in DOMAIN s.backlog \ DOMAIN recs : t.backlog[x] = s.backlog[x]
  BY Zenon, <1>2 DEF Merge
<1>5. \A x \in DOMAIN t.members : GoodRecord(n, x, t.members[x], b)
  BY Zenon, <1>3 DEF LocalInv
<1>6. n \in DOMAIN t.members /\ t.members[n] = s.members[n]
  BY Zenon, <1>3 DEF LocalInv
<1>7. \A x \in DOMAIN t.backlog :
        x \in DOMAIN t.members /\ t.backlog[x] = t.members[x]
  BY Zenon, <1>3, <1>4 DEF LocalInv
<1>8. \A p \in t.probe : p.target \in DOMAIN t.members \ {n}
  BY Zenon, <1>2, <1>3 DEF LocalInv
<1>9. LocalInv(n, t, b)
  BY Zenon, <1>2, <1>3, <1>5, <1>6, <1>7, <1>8 DEF LocalInv
<1> QED  BY Zenon, <1>2, <1>9 DEF t

\* _mark_suspect keeps the local invariant.
LEMMA MarkSuspectInv ==
  ASSUME NEW n \in Node, NEW b, NEW s, LocalInv(n, s, b),
         NEW targets, targets \subseteq DOMAIN s.members \ {n}
  PROVE  /\ LocalInv(n, MarkSuspect(s, targets), b)
         /\ MarkSuspect(s, targets).inc = s.inc
         /\ MarkSuspect(s, targets).probe = s.probe
<1> DEFINE D == {y \in targets : s.members[y].state = ALIVE}
           new(x) == Record(SUSPECT, s.members[x].inc, s.members[x].model)
           recs == [x \in D |-> new(x)]
<1>1. DOMAIN s.members \subseteq Node
  BY Zenon, DictElim DEF LocalInv, LocalState
<1>2. ASSUME NEW x \in D
      PROVE  GoodRecord(n, x, new(x), b)
  <2>1. GoodRecord(n, x, s.members[x], b)
    BY Zenon DEF LocalInv
  <2>2. /\ s.members[x].inc \in 0..MaxInc /\ s.members[x].inc <= b[x]
        /\ s.members[x].model \in {ModelId[y] : y \in Node}
        /\ ModelId[n] # "" => s.members[x].model = ModelId[n]
    BY Zenon, <2>1 DEF GoodRecord, MemberRecord
  <2> QED  BY Zenon, <2>2, RecordGood DEF State
<1>3. recs \in MemberDict
  BY Zenon, <1>1, <1>2, DictIntro DEF GoodRecord
<1>4. n \notin DOMAIN recs /\ \A x \in DOMAIN recs : GoodRecord(n, x, recs[x], b)
  BY Zenon, <1>2
<1>5. MarkSuspect(s, targets) = Install(s, recs)
  BY Zenon DEF MarkSuspect
<1> HIDE DEF recs
<1> QED  BY <1>3, <1>4, <1>5, InstallInv

\* _maybe_promote_sender_alive keeps it when the sender has taken the incarnation.
LEMMA PromoteInv ==
  ASSUME NEW n \in Node, NEW b \in [Node -> Nat], NEW s, LocalInv(n, s, b),
         NEW sender \in Node, NEW inc \in 0..MaxInc, inc <= b[sender]
  PROVE  /\ LocalInv(n, PromoteSenderAlive(n, s, sender, inc), b)
         /\ PromoteSenderAlive(n, s, sender, inc).inc = s.inc
         /\ PromoteSenderAlive(n, s, sender, inc).probe = s.probe
<1> DEFINE D == {y \in {sender} \cap DOMAIN s.members :
                   y # n /\ s.members[y].state # ALIVE}
           new(x) == Record(ALIVE, Max(s.members[x].inc, inc), s.members[x].model)
           recs == [x \in D |-> new(x)]
<1>1. DOMAIN s.members \subseteq Node
  BY Zenon, DictElim DEF LocalInv, LocalState
<1>2. ASSUME NEW x \in D
      PROVE  GoodRecord(n, x, new(x), b)
  <2>1. GoodRecord(n, x, s.members[x], b) /\ x = sender
    BY Zenon DEF LocalInv
  <2>2. Max(s.members[x].inc, inc) \in 0..MaxInc /\ Max(s.members[x].inc, inc) <= b[x]
    BY Zenon, <2>1 DEF GoodRecord, MemberRecord, Max
  <2>3. /\ s.members[x].inc \in 0..MaxInc /\ s.members[x].inc <= b[x]
        /\ s.members[x].model \in {ModelId[y] : y \in Node}
        /\ ModelId[n] # "" => s.members[x].model = ModelId[n]
    BY Zenon, <2>1 DEF GoodRecord, MemberRecord
  <2> QED  BY Zenon, <2>2, <2>3, RecordGood DEF State
<1>3. recs \in MemberDict
  BY Zenon, <1>1, <1>2, DictIntro DEF GoodRecord
<1>4. n \notin DOMAIN recs /\ \A x \in DOMAIN recs : GoodRecord(n, x, recs[x], b)
  BY Zenon, <1>2
<1>5. PromoteSenderAlive(n, s, sender, inc) = Install(s, recs)
  BY Zenon DEF PromoteSenderAlive
<1> HIDE DEF recs
<1> QED  BY <1>3, <1>4, <1>5, InstallInv

\* _maybe_apply_peer_delta keeps it when the deltas are bounded.
LEMMA ApplyPeerDeltasInv ==
  ASSUME NEW n \in Node, NEW b, NEW s, LocalInv(n, s, b),
         NEW deltas \in MemberDict,
         \A x \in DOMAIN deltas : deltas[x].inc <= b[x]
  PROVE  /\ LocalInv(n, ApplyPeerDeltas(n, s, deltas), b)
         /\ ApplyPeerDeltas(n, s, deltas).inc = s.inc
         /\ ApplyPeerDeltas(n, s, deltas).probe = s.probe
<1> DEFINE D == {y \in (DOMAIN deltas \cap DOMAIN s.members) \ {n} :
                   /\ Admit(n, deltas[y])
                   /\ Supersedes(deltas[y], s.members[y])}
           new(x) == Record(deltas[x].state, deltas[x].inc, deltas[x].model)
           recs == [x \in D |-> new(x)]
<1>1. DOMAIN deltas \subseteq Node
  BY Zenon, DictElim
<1>2. ASSUME NEW x \in D
      PROVE  GoodRecord(n, x, new(x), b)
  <2>1. deltas[x] \in MemberRecord /\ Admit(n, deltas[x]) /\ deltas[x].inc <= b[x]
    BY Zenon, DictElim
  <2> QED  BY Zenon, <2>1, RecordGood DEF MemberRecord, Admit
<1>3. recs \in MemberDict
  BY Zenon, <1>1, <1>2, DictIntro DEF GoodRecord
<1>4. n \notin DOMAIN recs /\ \A x \in DOMAIN recs : GoodRecord(n, x, recs[x], b)
  BY Zenon, <1>2
<1>5. ApplyPeerDeltas(n, s, deltas) = Install(s, recs)
  BY Zenon DEF ApplyPeerDeltas
<1> HIDE DEF recs
<1> QED  BY <1>3, <1>4, <1>5, InstallInv

\* issued' when node n becomes a state of incarnation i
Raise(b, n, i) == [b EXCEPT ![n] = Max(@, i)]

\* Raising a node's own incarnation only raises the bound.
LEMMA RaiseBound ==
  ASSUME NEW b \in [Node -> 0..MaxInc], NEW n \in Node, NEW i \in 0..MaxInc
  PROVE  /\ Raise(b, n, i) \in [Node -> 0..MaxInc]
         /\ i <= Raise(b, n, i)[n]
         /\ \A x \in Node : b[x] <= Raise(b, n, i)[x]
BY ConstantsAssumption DEF Raise, Max

\* The local invariant survives a raise of the issued incarnations.
LEMMA LocalInvMonotone ==
  ASSUME NEW n \in Node, NEW s, NEW b \in [Node -> 0..MaxInc],
         NEW c \in [Node -> 0..MaxInc], \A x \in Node : b[x] <= c[x],
         LocalInv(n, s, b)
  PROVE  LocalInv(n, s, c)
<1>1. DOMAIN s.members \subseteq Node
  BY Zenon, DictElim DEF LocalInv, LocalState
<1>2. ASSUME NEW x \in DOMAIN s.members
      PROVE  GoodRecord(n, x, s.members[x], c)
  <2>1. GoodRecord(n, x, s.members[x], b) /\ x \in Node
    BY Zenon, <1>1 DEF LocalInv
  <2>2. s.members[x].inc \in 0..MaxInc /\ s.members[x].inc <= b[x]
    BY Zenon, <2>1 DEF GoodRecord, MemberRecord
  <2>3. b[x] \in Nat /\ c[x] \in Nat /\ b[x] <= c[x]
    BY <2>1, ConstantsAssumption
  <2>4. s.members[x].inc <= c[x]
    BY <2>2, <2>3, ConstantsAssumption
  <2> QED  BY Zenon, <2>1, <2>4 DEF GoodRecord
<1> QED  BY Zenon, <1>2 DEF LocalInv

\* So does the invariant of a datagram.
LEMMA MessageInvMonotone ==
  ASSUME NEW m, NEW b \in [Node -> 0..MaxInc],
         NEW c \in [Node -> 0..MaxInc], \A x \in Node : b[x] <= c[x],
         MessageInv(m, b)
  PROVE  MessageInv(m, c)
<1>1. ASSUME m.type \in {"Ping", "Ack"}
      PROVE  m.inc <= c[m.from]
  <2>1. m.inc \in 0..MaxInc /\ m.from \in Node /\ m.inc <= b[m.from]
    BY Zenon, <1>1 DEF MessageInv, Message
  <2> QED  BY <2>1, ConstantsAssumption
<1>2. ASSUME m.type \in {"Ping", "Ack", "MembershipDelta"}
      PROVE  \A x \in DOMAIN m.deltas : m.deltas[x].inc <= c[x]
  <2>1. m.deltas \in MemberDict
    BY Zenon, <1>2 DEF MessageInv, Message
  <2>2. ASSUME NEW x \in DOMAIN m.deltas
        PROVE  m.deltas[x].inc <= c[x]
    <3>1. m.deltas[x].inc <= b[x]
      BY Zenon, <1>2 DEF MessageInv
    <3>2. x \in Node /\ m.deltas[x].inc \in 0..MaxInc
      BY Zenon, <2>1, DictElim DEF MemberRecord
    <3> QED  BY <3>1, <3>2, ConstantsAssumption
  <2> QED  BY Zenon, <2>2
<1> QED  BY Zenon, <1>1, <1>2 DEF MessageInv

\* _maybe_refute keeps the local invariant under the raised bound.
LEMMA RefuteInv ==
  ASSUME NEW n \in Node, NEW b \in [Node -> 0..MaxInc], NEW s, LocalInv(n, s, b),
         NEW deltas \in MemberDict, Refute(n, s, deltas).inc <= MaxInc
  PROVE  /\ Refute(n, s, deltas).inc \in 0..MaxInc
         /\ LocalInv(n, Refute(n, s, deltas),
                     Raise(b, n, Refute(n, s, deltas).inc))
         /\ Refute(n, s, deltas).probe = s.probe
<1>0. s \in LocalState /\ s.inc \in 0..MaxInc
  BY Zenon DEF LocalInv, LocalState
<1>1. CASE ~(n \in DOMAIN deltas /\ deltas[n].state # ALIVE /\ deltas[n].inc >= s.inc)
  <2>1. Refute(n, s, deltas) = s
    BY Zenon, <1>1 DEF Refute
  <2> QED  BY Zenon, <2>1, <1>0, RaiseBound, LocalInvMonotone
<1>2. CASE n \in DOMAIN deltas /\ deltas[n].state # ALIVE /\ deltas[n].inc >= s.inc
  <2> DEFINE i == deltas[n].inc + 1
             own == Record(ALIVE, i, ModelId[n])
             recs == [x \in {n} |-> own]
             s1 == [s EXCEPT !.inc = i]
             t == Install(s1, recs)
             c == Raise(b, n, i)
  <2>1. deltas[n].inc \in 0..MaxInc
    BY Zenon, <1>2, DictElim DEF MemberRecord
  <2>2. s.members[n].model = ModelId[n]
    BY RecordFields DEF LocalInv
  <2>3. Refute(n, s, deltas) = t
    BY Zenon, <1>2, <2>2 DEF Refute
  <2>4. t.inc = i
    BY Zenon, <1>0 DEF Install, LocalState
  <2>5. i \in 0..MaxInc
    BY <2>1, <2>3, <2>4, ConstantsAssumption
  <2>6. own \in MemberRecord
    BY Zenon, <2>5, RecordType DEF State
  <2>7. recs \in MemberDict
    BY Zenon, <2>6, DictIntro
  <2>8. s1 \in LocalState /\ s1.members = s.members /\ s1.backlog = s.backlog
        /\ s1.probe = s.probe
    BY Zenon, <1>0, <2>5 DEF LocalState
  <2>9. /\ t \in LocalState /\ t.probe = s.probe
        /\ t.members = Merge(s.members, recs)
        /\ t.backlog = Merge(s.backlog, recs)
    BY <2>7, <2>8, InstallFields, ZenonT(40)
  <2>10. s.members \in MemberDict /\ s.backlog \in MemberDict
    BY Zenon, <1>0 DEF LocalState
  <2>11. c \in [Node -> 0..MaxInc] /\ i <= c[n] /\ LocalInv(n, s, c)
    BY Zenon, <2>5, RaiseBound, LocalInvMonotone
  <2>12. GoodRecord(n, n, own, c)
    BY Zenon, <2>5, <2>11, RecordGood DEF State
  <2>13. DOMAIN recs = {n} /\ recs[n] = own
    BY Zenon
  <2> HIDE DEF t, recs, own, s1, c, i
  <2>14. /\ DOMAIN t.members = DOMAIN s.members
         /\ t.members[n] = own
         /\ \A x \in DOMAIN s.members \ {n} : t.members[x] = s.members[x]
    <3>1. n \in DOMAIN s.members
      BY Zenon DEF LocalInv
    <3>2. /\ DOMAIN t.members = DOMAIN s.members \cup DOMAIN recs
          /\ \A x \in DOMAIN recs : t.members[x] = recs[x]
          /\ \A x \in DOMAIN s.members \ DOMAIN recs : t.members[x] = s.members[x]
      BY Zenon, <2>9 DEF Merge
    <3> QED  BY Zenon, <3>1, <3>2, <2>13
  <2>15. /\ DOMAIN t.backlog = DOMAIN s.backlog \cup {n}
         /\ t.backlog[n] = own
         /\ \A x \in DOMAIN s.backlog \ {n} : t.backlog[x] = s.backlog[x]
    <3>1. /\ DOMAIN t.backlog = DOMAIN s.backlog \cup DOMAIN recs
          /\ \A x \in DOMAIN recs : t.backlog[x] = recs[x]
          /\ \A x \in DOMAIN s.backlog \ DOMAIN recs : t.backlog[x] = s.backlog[x]
      BY Zenon, <2>9 DEF Merge
    <3> QED  BY Zenon, <3>1, <2>13
  <2>16. \A x \in DOMAIN t.members : GoodRecord(n, x, t.members[x], c)
    BY Zenon, <2>11, <2>12, <2>14 DEF LocalInv
  <2>17. t.members[n] = Record(ALIVE, t.inc, ModelId[n])
    BY Zenon, <2>14, <2>4 DEF own
  <2>18. \A x \in DOMAIN t.backlog :
           x \in DOMAIN t.members /\ t.backlog[x] = t.members[x]
    BY Zenon, <2>14, <2>15 DEF LocalInv
  <2>19. LocalInv(n, t, c)
    BY Zenon, <2>9, <2>14, <2>16, <2>17, <2>18 DEF LocalInv
  <2> QED  BY Zenon, <2>3, <2>4, <2>5, <2>9, <2>19 DEF c
<1> QED  BY Zenon, <1>1, <1>2

\* _apply_deltas keeps the local invariant under the raised bound.
LEMMA ApplyDeltasInv ==
  ASSUME NEW n \in Node, NEW b \in [Node -> 0..MaxInc], NEW s, LocalInv(n, s, b),
         NEW deltas \in MemberDict,
         \A x \in DOMAIN deltas : deltas[x].inc <= b[x],
         ApplyDeltas(n, s, deltas).inc <= MaxInc
  PROVE  /\ ApplyDeltas(n, s, deltas).inc \in 0..MaxInc
         /\ LocalInv(n, ApplyDeltas(n, s, deltas),
                     Raise(b, n, ApplyDeltas(n, s, deltas).inc))
         /\ ApplyDeltas(n, s, deltas).probe = s.probe
BY ApplyPeerDeltasInv, RefuteInv DEF ApplyDeltas

\* The timers of a tick keep the local invariant.
LEMMA AfterTimersInv ==
  ASSUME NEW n \in Node, NEW b, NEW s, LocalInv(n, s, b),
         NEW gone, NEW late, NEW dead \in SUBSET Suspects(s)
  PROVE  /\ LocalInv(n, AfterTimers(s, gone, late, dead), b)
         /\ AfterTimers(s, gone, late, dead).inc = s.inc
         /\ AfterTimers(s, gone, late, dead).probe = s.probe
<1> DEFINE new(x) == Record(DEAD, s.members[x].inc, s.members[x].model)
           recs == [x \in dead |-> new(x)]
           rest == [x \in DOMAIN s.backlog \ gone |-> s.backlog[x]]
           s1 == [s EXCEPT !.backlog = rest, !.helps = @ \ late]
<1>0. s \in LocalState /\ s.members \in MemberDict /\ s.backlog \in MemberDict
  BY Zenon DEF LocalInv, LocalState
<1>1. DOMAIN s.members \subseteq Node
  BY Zenon, <1>0, DictElim
<1>2. ASSUME NEW x \in dead
      PROVE  GoodRecord(n, x, new(x), b) /\ x # n
  <2>1. x \in DOMAIN s.members /\ s.members[x].state = SUSPECT
    BY Zenon DEF Suspects
  <2>2. GoodRecord(n, x, s.members[x], b) /\ x # n
    BY <2>1, RecordFields DEF LocalInv, ALIVE, SUSPECT
  <2>3. /\ s.members[x].inc \in 0..MaxInc /\ s.members[x].inc <= b[x]
        /\ s.members[x].model \in {ModelId[y] : y \in Node}
        /\ ModelId[n] # "" => s.members[x].model = ModelId[n]
    BY Zenon, <2>2 DEF GoodRecord, MemberRecord
  <2> QED  BY Zenon, <2>2, <2>3, RecordGood DEF State
<1>3. recs \in MemberDict
  <2>1. dead \in SUBSET Node
    BY Zenon, <1>1 DEF Suspects
  <2> QED  BY Zenon, <2>1, <1>2, DictIntro DEF GoodRecord
<1>4. n \notin DOMAIN recs /\ \A x \in DOMAIN recs : GoodRecord(n, x, recs[x], b)
  BY Zenon, <1>2
<1>5. rest \in MemberDict
  <2>1. DOMAIN s.backlog \ gone \in SUBSET Node
    BY Zenon, <1>0, DictElim
  <2>2. rest \in [DOMAIN s.backlog \ gone -> MemberRecord]
    BY Zenon, <1>0, DictElim
  <2> QED  BY Zenon, <2>1, <2>2, DictIntro
<1>6. /\ s1 \in LocalState /\ s1.members = s.members /\ s1.inc = s.inc
      /\ s1.probe = s.probe /\ s1.backlog = rest
  BY Zenon, <1>0, <1>5 DEF LocalState
<1>7. LocalInv(n, s1, b)
  <2>1. \A x \in DOMAIN s1.backlog :
          x \in DOMAIN s.backlog /\ s1.backlog[x] = s.backlog[x]
    BY Zenon, <1>6
  <2>2. \A p \in s1.probe : p.target \in DOMAIN s.members \ {n}
    BY Zenon, <1>6 DEF LocalInv
  <2> HIDE DEF s1
  <2> QED  BY Zenon, <1>6, <2>1, <2>2, SameView
<1>8. AfterTimers(s, gone, late, dead) = Install(s1, recs)
  BY Zenon, <1>0 DEF AfterTimers, LocalState
<1> HIDE DEF recs, s1
<1> QED  BY <1>3, <1>4, <1>6, <1>7, <1>8, InstallInv

\* The end of a protocol period keeps the local invariant.
LEMMA EndPeriodInv ==
  ASSUME NEW n \in Node, NEW b, NEW s, LocalInv(n, s, b)
  PROVE  /\ LocalInv(n, EndPeriod(s), b)
         /\ EndPeriod(s).inc = s.inc
         /\ EndPeriod(s).probe = {}
<1> DEFINE s1 == [s EXCEPT !.probe = {}]
           targets == {p.target : p \in {q \in s.probe : q.indirect /\ ~q.success}}
<1>1. /\ s1 \in LocalState /\ s1.members = s.members /\ s1.inc = s.inc
      /\ s1.probe = {} /\ s1.backlog = s.backlog
  BY Zenon DEF LocalInv, LocalState
<1>2. targets \subseteq DOMAIN s.members \ {n}
  BY Zenon DEF LocalInv
<1>3. EndPeriod(s) = MarkSuspect(s1, targets)
  BY Zenon DEF EndPeriod
<1> HIDE DEF s1, targets
<1>4. LocalInv(n, s1, b)
  BY Zenon, <1>1, SameView
<1> QED  BY <1>1, <1>2, <1>3, <1>4, MarkSuspectInv

\* A new process satisfies the local invariant at its own incarnation.
LEMMA FreshInv ==
  ASSUME NEW n \in Node, NEW i \in 0..MaxInc,
         NEW b \in [Node -> 0..MaxInc], i <= b[n]
  PROVE  /\ LocalInv(n, Fresh(n, i), b)
         /\ Fresh(n, i).inc = i
<1> DEFINE inc(m) == IF m = n THEN i ELSE 0
           members == [m \in Peers[n] |-> Record(ALIVE, inc(m), ModelId[n])]
           D == IF i > 0 THEN {n} ELSE {}
           backlog == [x \in D |-> members[x]]
           log == [m \in Node |-> <<>>]
           seen == [m \in Node |-> IF m \in Peers[n] THEN ALIVE ELSE Absent]
<1>1. Peers[n] \in SUBSET Node /\ n \in Peers[n] /\ D \subseteq {n}
  BY Zenon, ConstantsAssumption
<1>2. ASSUME NEW m \in Peers[n]
      PROVE  GoodRecord(n, m, members[m], b)
  <2>1. inc(m) \in 0..MaxInc /\ inc(m) <= b[m]
    BY <1>1, ConstantsAssumption
  <2>2. ModelId[n] \in {ModelId[y] : y \in Node}
    BY Zenon
  <2>3. GoodRecord(n, m, Record(ALIVE, inc(m), ModelId[n]), b)
    BY Zenon, <2>1, <2>2, RecordGood DEF State
  <2> QED  BY Zenon, <2>3
<1>3. members \in MemberDict
  <2>1. members \in [Peers[n] -> MemberRecord]
    BY Zenon, <1>2 DEF GoodRecord
  <2> QED  BY Zenon, <1>1, <2>1, DictIntro
<1>4. backlog \in MemberDict
  <2>1. backlog \in [D -> MemberRecord]
    BY Zenon, <1>1, <1>2 DEF GoodRecord
  <2>2. D \in SUBSET Node
    BY Zenon
  <2> QED  BY Zenon, <2>1, <2>2, DictIntro
<1>5. members[n] = Record(ALIVE, i, ModelId[n])
  BY Zenon, <1>1
<1>6. \A x \in DOMAIN backlog : x \in DOMAIN members /\ backlog[x] = members[x]
  BY Zenon, <1>1
<1>7. DOMAIN members = Peers[n]
  BY Zenon
<1>8. log \in [Node -> Seq(Transition)]
  OBVIOUS
<1>9. seen \in [Node -> State \cup {Absent}]
  BY Zenon DEF State
<1> HIDE DEF members, backlog, log, seen
<1> DEFINE t == [members |-> members, inc |-> i, probe |-> {}, counter |-> 0,
                 helps |-> {}, backlog |-> backlog, log |-> log, seen |-> seen]
<1>10. Fresh(n, i) = t
  BY Zenon DEF Fresh, members, backlog, log, seen
<1>11. t \in LocalState
  BY <1>3, <1>4, <1>8, <1>9, ConstantsAssumption DEF LocalState
<1>12. LocalInv(n, t, b)
  BY Zenon, <1>1, <1>2, <1>5, <1>6, <1>7, <1>11 DEF LocalInv
<1> QED  BY <1>10, <1>12
-----------------------------------------------------------------------------
(* The messages a node sends satisfy the invariant of a datagram. *)

\* A dict of records within the bound b
Bounded(d, b) == d \in MemberDict /\ \A x \in DOMAIN d : d[x].inc <= b[x]

\* A view under the invariant is bounded by the issued incarnations.
LEMMA LocalBounded ==
  ASSUME NEW n \in Node, NEW b, NEW s, LocalInv(n, s, b)
  PROVE  Bounded(s.members, b) /\ s.inc \in 0..MaxInc /\ s.inc <= b[n]
<1>1. s.members \in MemberDict /\ s.inc \in 0..MaxInc
  BY Zenon DEF LocalInv, LocalState
<1>2. \A x \in DOMAIN s.members : s.members[x].inc <= b[x]
  BY Zenon DEF LocalInv, GoodRecord
<1>3. s.inc <= b[n]
  BY <1>2 DEF LocalInv, Record
<1> QED  BY Zenon, <1>1, <1>2, <1>3 DEF Bounded

\* What _select_outgoing_deltas returns is bounded and has the type of a dictionary.
LEMMA OutgoingBounded ==
  ASSUME NEW n \in Node, NEW b, NEW s, LocalInv(n, s, b),
         NEW d \in OutgoingDeltas(n, s)
  PROVE  Bounded(d, b)
<1>1. PICK S \in SUBSET DOMAIN s.backlog :
        d = [x \in {n} \cup S |-> IF x = n THEN s.members[n] ELSE s.backlog[x]]
  BY Zenon DEF OutgoingDeltas
<1>2. DOMAIN s.backlog \subseteq DOMAIN s.members /\ n \in DOMAIN s.members
  BY Zenon DEF LocalInv
<1>3. \A x \in {n} \cup S : d[x] = s.members[x]
  BY Zenon, <1>1, <1>2 DEF LocalInv
<1>4. s.members \in MemberDict
  BY Zenon DEF LocalInv, LocalState
<1>5. {n} \cup S \in SUBSET Node /\ d \in [{n} \cup S -> MemberRecord]
  BY Zenon, <1>1, <1>2, <1>3, <1>4, DictElim
<1>6. d \in MemberDict
  BY Zenon, <1>5, DictIntro
<1>7. \A x \in DOMAIN d : d[x].inc <= b[x]
  BY Zenon, <1>1, <1>2, <1>3 DEF LocalInv, GoodRecord
<1> QED  BY Zenon, <1>6, <1>7 DEF Bounded

\* The conversion to the wire keeps bounds and types.
LEMMA WireBounded ==
  ASSUME NEW b, NEW d, Bounded(d, b)
  PROVE  Bounded(Wire(d), b)
<1>1. DOMAIN d \in SUBSET Node /\ d \in [DOMAIN d -> MemberRecord]
  BY Zenon, DictElim DEF Bounded
<1>2. ASSUME NEW x \in DOMAIN d
      PROVE  Decoded(d[x]) \in MemberRecord /\ Decoded(d[x]).inc = d[x].inc
  BY Zenon, <1>1 DEF Decoded, MemberRecord
<1>3. Wire(d) \in [DOMAIN d -> MemberRecord]
  BY Zenon, <1>2 DEF Wire
<1>4. Wire(d) \in MemberDict
  BY Zenon, <1>1, <1>3, DictIntro
<1>5. \A x \in DOMAIN Wire(d) : Wire(d)[x].inc <= b[x]
  BY Zenon, <1>2 DEF Wire, Bounded
<1> QED  BY Zenon, <1>4, <1>5 DEF Bounded

\* A Ping or an Ack of a node under the invariant is a good datagram.
LEMMA PingAckInv ==
  ASSUME NEW n \in Node, NEW to \in Node, NEW b,
         NEW inc \in 0..MaxInc, inc <= b[n], NEW d, Bounded(d, b)
  PROVE  MessageInv(Ping(n, to, inc, d), b) /\ MessageInv(Ack(n, to, inc, d), b)
<1>1. Wire(d) \in MemberDict /\ \A x \in DOMAIN Wire(d) : Wire(d)[x].inc <= b[x]
  BY Zenon, WireBounded DEF Bounded
<1>2. Ping(n, to, inc, d) \in Message /\ Ack(n, to, inc, d) \in Message
  BY Zenon, <1>1 DEF Message, Ping, Ack
<1> QED  BY Zenon, <1>1, <1>2 DEF MessageInv, Ping, Ack

\* A PingReq is a good datagram.
LEMMA PingReqInv ==
  ASSUME NEW n \in Node, NEW to \in Node, NEW b, NEW p \in PendingProbe
  PROVE  MessageInv(PingReq(n, to, p), b)
<1>1. PingReq(n, to, p) \in Message
  BY Zenon DEF Message, PingReq, PendingProbe
<1> QED  BY Zenon, <1>1 DEF MessageInv, PingReq

\* A PingReqAck is a good datagram.
LEMMA PingReqAckInv ==
  ASSUME NEW n \in Node, NEW b, NEW h \in PendingHelp, NEW ok \in BOOLEAN
  PROVE  MessageInv(PingReqAck(n, h, ok), b)
<1>1. PingReqAck(n, h, ok) \in Message
  BY Zenon DEF Message, PingReqAck, PendingHelp
<1> QED  BY Zenon, <1>1 DEF MessageInv, PingReqAck

\* A Join is a good datagram.
LEMMA JoinInv ==
  ASSUME NEW n \in Node, NEW to \in Node \ {n}, NEW b
  PROVE  MessageInv(Join(n, to), b)
<1>1. Record(ALIVE, 0, ModelId[n]) \in MemberRecord
  BY RecordType, ConstantsAssumption DEF State
<1>2. Join(n, to) \in Message
  BY Zenon, <1>1 DEF Message, Join
<1> DEFINE r == Record(ALIVE, 0, ModelId[n])
<1>3. r.state = ALIVE /\ r.inc = 0 /\ (r.deadline <=> ALIVE = SUSPECT)
  BY Zenon DEF Record
<1>4. ALIVE # SUSPECT
  BY DEF ALIVE, SUSPECT
<1>5. Join(n, to).rec = r /\ Join(n, to).type = "Join"
      /\ Join(n, to).from = n /\ Join(n, to).to = to
  BY Zenon DEF Join
<1> HIDE DEF r
<1> QED  BY Zenon, <1>2, <1>3, <1>4, <1>5 DEF MessageInv

\* The reply to a Join is a good datagram.
LEMMA MembershipDeltaInv ==
  ASSUME NEW n \in Node, NEW to \in Node, NEW b, NEW d, Bounded(d, b)
  PROVE  MessageInv(MembershipDelta(n, to, d), b)
<1>1. Wire(d) \in MemberDict /\ \A x \in DOMAIN Wire(d) : Wire(d)[x].inc <= b[x]
  BY Zenon, WireBounded DEF Bounded
<1>2. MembershipDelta(n, to, d) \in Message
  BY Zenon, <1>1 DEF Message, MembershipDelta
<1> QED  BY Zenon, <1>1, <1>2 DEF MessageInv, MembershipDelta
-----------------------------------------------------------------------------
(* Every step preserves the invariant. *)

\* Become raises the issued incarnations as Raise does.
LEMMA RaiseLocal ==
  ASSUME NEW n \in Node, NEW b \in [Node -> 0..MaxInc], NEW s, LocalInv(n, s, b)
  PROVE  LocalInv(n, s, Raise(b, n, s.inc))
<1>1. s.inc \in 0..MaxInc
  BY Zenon, LocalBounded
<1> QED  BY Zenon, <1>1, RaiseBound, LocalInvMonotone

\* A step of one node keeps the invariant if its new state and its datagrams are good.
LEMMA StepInv ==
  ASSUME IInv, NEW n \in Node, NEW s, NEW out,
         s.inc \in 0..MaxInc, LocalInv(n, s, Raise(issued, n, s.inc)),
         \A m \in out : MessageInv(m, Raise(issued, n, s.inc)),
         Become(n, s), net' \subseteq net \cup out,
         up' \in SUBSET Node, started' \in [Node -> 0..MaxInc],
         losses' \in Nat, dups' \in Nat, crashes' \in Nat
  PROVE  IInv'
<1>1. /\ issued \in [Node -> 0..MaxInc] /\ node \in [Node -> LocalState]
      /\ \A m \in net : m \in Message
  BY Zenon DEF IInv, TypeOK
<1>2. /\ node' = [node EXCEPT ![n] = s]
      /\ issued' = Raise(issued, n, s.inc)
  BY Zenon DEF Become, Raise
<1>3. /\ issued' \in [Node -> 0..MaxInc]
      /\ \A x \in Node : issued[x] <= issued'[x]
  BY Zenon, <1>1, <1>2, RaiseBound
<1>4. \A x \in Node : LocalInv(x, node'[x], issued')
  <2>1. CASE TRUE
    <3> TAKE x \in Node
    <3>1. CASE x = n
      BY Zenon, <3>1, <1>1, <1>2
    <3>2. CASE x # n
      <4>1. node'[x] = node[x] /\ LocalInv(x, node[x], issued)
        BY Zenon, <3>2, <1>1, <1>2 DEF IInv
      <4> QED  BY Zenon, <4>1, <1>1, <1>3, LocalInvMonotone
    <3> QED  BY Zenon, <3>1, <3>2
  <2> QED  BY Zenon, <2>1
<1>5. \A m \in net' : MessageInv(m, issued')
  <2> TAKE m \in net'
  <2>1. CASE m \in out
    BY Zenon, <2>1, <1>2
  <2>2. CASE m \in net
    <3>1. MessageInv(m, issued)
      BY Zenon, <2>2 DEF IInv
    <3> QED  BY Zenon, <3>1, <1>1, <1>3, MessageInvMonotone
  <2> QED  BY Zenon, <2>1, <2>2
<1>6. node' \in [Node -> LocalState]
  BY Zenon, <1>1, <1>2 DEF LocalInv
<1>7. net' \subseteq Message
  BY Zenon, <1>5 DEF MessageInv
<1>8. TypeOK'
  BY Zenon, <1>3, <1>6, <1>7 DEF TypeOK
<1> QED  BY Zenon, <1>4, <1>5, <1>8 DEF IInv

\* The same for a step that receives a datagram.
LEMMA ReceiveInv ==
  ASSUME IInv, NEW n \in Node, NEW s, NEW out, NEW m,
         s.inc \in 0..MaxInc, LocalInv(n, s, Raise(issued, n, s.inc)),
         \A x \in out : MessageInv(x, Raise(issued, n, s.inc)),
         Receive(n, m, s, out)
  PROVE  IInv'
<1>1. Become(n, s) /\ UNCHANGED <<up, started, losses, crashes>>
  BY Zenon DEF Receive
<1>2. net' \subseteq net \cup out
  BY Zenon DEF Receive, Send
<1>3. dups' \in Nat
  BY DEF Receive, IInv, TypeOK
<1>4. /\ up' \in SUBSET Node /\ started' \in [Node -> 0..MaxInc]
      /\ losses' \in Nat /\ crashes' \in Nat
  BY Zenon, <1>1 DEF IInv, TypeOK
<1> QED  BY Zenon, <1>1, <1>2, <1>3, <1>4, StepInv

\* The same for a tick.
LEMMA EmitInv ==
  ASSUME IInv, NEW n \in Node, NEW s, NEW out,
         LocalInv(n, s, issued), \A x \in out : MessageInv(x, issued),
         Emit(n, s, out)
  PROVE  IInv'
<1>1. Become(n, s) /\ UNCHANGED <<up, started, losses, dups, crashes>>
  BY Zenon DEF Emit
<1>2. net' \subseteq net \cup out
  BY Zenon DEF Emit, Send
<1>3. /\ up' \in SUBSET Node /\ started' \in [Node -> 0..MaxInc]
      /\ losses' \in Nat /\ dups' \in Nat /\ crashes' \in Nat
      /\ issued \in [Node -> 0..MaxInc]
  BY Zenon, <1>1 DEF IInv, TypeOK
<1>4. s.inc \in 0..MaxInc /\ LocalInv(n, s, Raise(issued, n, s.inc))
  BY Zenon, <1>3, RaiseLocal, LocalBounded
<1>5. \A x \in out : MessageInv(x, Raise(issued, n, s.inc))
  <2> TAKE x \in out
  <2>1. /\ Raise(issued, n, s.inc) \in [Node -> 0..MaxInc]
        /\ \A y \in Node : issued[y] <= Raise(issued, n, s.inc)[y]
    BY Zenon, <1>3, <1>4, RaiseBound
  <2>2. MessageInv(x, issued)
    BY Zenon
  <2> QED  BY Zenon, <2>1, <2>2, <1>3, MessageInvMonotone
<1> QED  BY Zenon, <1>1, <1>2, <1>3, <1>4, <1>5, StepInv

\* What the invariant says of the node and of the datagram of a receive step
LEMMA ReceiveFacts ==
  ASSUME IInv, NEW n \in Node, NEW m \in net
  PROVE  /\ issued \in [Node -> 0..MaxInc]
         /\ LocalInv(n, node[n], issued)
         /\ m \in Message /\ MessageInv(m, issued)
         /\ m.type \in {"Ping", "Ack"} =>
              m.from \in Node /\ m.inc \in 0..MaxInc /\ m.inc <= issued[m.from]
         /\ m.type \in {"Ping", "Ack", "MembershipDelta"} =>
              /\ m.deltas \in MemberDict
              /\ \A x \in DOMAIN m.deltas : m.deltas[x].inc <= issued[x]
<1>1. /\ issued \in [Node -> 0..MaxInc] /\ LocalInv(n, node[n], issued)
      /\ MessageInv(m, issued)
  BY Zenon DEF IInv, TypeOK
<1>2. m \in Message
  BY Zenon, <1>1 DEF MessageInv
<1>3. m.type \in {"Ping", "Ack"} => m.from \in Node /\ m.inc \in 0..MaxInc
  BY Zenon, <1>2 DEF Message
<1>4. m.type \in {"Ping", "Ack", "MembershipDelta"} => m.deltas \in MemberDict
  BY Zenon, <1>2 DEF Message
<1> QED  BY Zenon, <1>1, <1>2, <1>3, <1>4 DEF MessageInv

\* _handle_ping preserves the invariant.
LEMMA RecvPingInv ==
  ASSUME IInv, NEW n \in Node, NEW m \in net, RecvPing(n, m)
  PROVE  IInv'
<1> DEFINE s == node[n]
           s0 == PromoteSenderAlive(n, s, m.from, m.inc)
           s1 == ApplyDeltas(n, s0, m.deltas)
           c == Raise(issued, n, s1.inc)
<1>1. /\ m.type = "Ping" /\ issued \in [Node -> 0..MaxInc] /\ LocalInv(n, s, issued)
      /\ m.from \in Node /\ m.inc \in 0..MaxInc /\ m.inc <= issued[m.from]
      /\ m.deltas \in MemberDict
      /\ \A x \in DOMAIN m.deltas : m.deltas[x].inc <= issued[x]
  BY Zenon, ReceiveFacts DEF RecvPing
<1>2. CASE Receive(n, m, s, {})
  <2>1. s.inc \in 0..MaxInc /\ LocalInv(n, s, Raise(issued, n, s.inc))
    BY Zenon, <1>1, RaiseLocal, LocalBounded
  <2> DEFINE out == {}
  <2>2. Receive(n, m, s, out) /\ \A x \in out : MessageInv(x, Raise(issued, n, s.inc))
    BY Zenon, <1>2
  <2> HIDE DEF s, out
  <2> QED  BY Zenon, <2>1, <2>2, ReceiveInv
<1>3. ASSUME NEW d \in OutgoingDeltas(n, s1),
             Receive(n, m, s1, {Ack(n, m.from, s1.inc, d)})
      PROVE  IInv'
  <2>0. issued \in [Node -> Nat]
    BY <1>1, ConstantsAssumption
  <2>1. LocalInv(n, s0, issued)
    BY Zenon, <1>1, <2>0, PromoteInv
  <2>2. s1.inc <= MaxInc
    BY Zenon, <1>3 DEF Receive, Become
  <2> HIDE DEF s0
  <2>3. s1.inc \in 0..MaxInc /\ LocalInv(n, s1, c)
    BY Zenon, <1>1, <2>1, <2>2, ApplyDeltasInv
  <2> HIDE DEF s1
  <2>4. Bounded(d, c) /\ s1.inc <= c[n]
    BY Zenon, <1>3, <2>3, OutgoingBounded, LocalBounded
  <2>5. MessageInv(Ack(n, m.from, s1.inc, d), c)
    BY Zenon, <1>1, <2>3, <2>4, PingAckInv
  <2> QED  BY <1>3, <2>3, <2>5, ReceiveInv
<1>4. \/ Receive(n, m, s, {})
      \/ \E d \in OutgoingDeltas(n, s1) : Receive(n, m, s1, {Ack(n, m.from, s1.inc, d)})
  BY Zenon DEF RecvPing
<1> QED  BY Zenon, <1>2, <1>3, <1>4

\* _handle_ack preserves the invariant.
LEMMA RecvAckInv ==
  ASSUME IInv, NEW n \in Node, NEW m \in net, RecvAck(n, m)
  PROVE  IInv'
<1> DEFINE s == [node[n] EXCEPT !.probe = {p \in @ : p.target # m.from}]
           s0 == PromoteSenderAlive(n, s, m.from, m.inc)
           s1 == ApplyDeltas(n, s0, m.deltas)
           helped == {h \in s.helps : h.target = m.from}
           t == [s1 EXCEPT !.helps = @ \ helped]
           out == {PingReqAck(n, h, TRUE) : h \in helped}
           c == Raise(issued, n, s1.inc)
<1>1. /\ m.type = "Ack" /\ issued \in [Node -> 0..MaxInc]
      /\ LocalInv(n, node[n], issued) /\ node[n] \in LocalState
      /\ m.from \in Node /\ m.inc \in 0..MaxInc /\ m.inc <= issued[m.from]
      /\ m.deltas \in MemberDict
      /\ \A x \in DOMAIN m.deltas : m.deltas[x].inc <= issued[x]
  BY Zenon, ReceiveFacts DEF RecvAck, LocalInv
<1>2. Receive(n, m, t, out)
  BY Zenon DEF RecvAck
<1>3. /\ s \in LocalState /\ s.members = node[n].members /\ s.inc = node[n].inc
      /\ s.backlog = node[n].backlog /\ s.probe \subseteq node[n].probe
      /\ s.helps = node[n].helps
  BY Zenon, <1>1 DEF LocalState
<1>4. helped \subseteq PendingHelp
  BY Zenon, <1>1, <1>3 DEF LocalState
<1> HIDE DEF s
<1>5. LocalInv(n, s, issued)
  <2>1. \A p \in s.probe : p.target \in DOMAIN node[n].members \ {n}
    BY Zenon, <1>1, <1>3 DEF LocalInv
  <2> QED  BY Zenon, <1>1, <1>3, <2>1, SameView
<1>6. LocalInv(n, s0, issued)
  <2>1. issued \in [Node -> Nat]
    BY <1>1, ConstantsAssumption
  <2> QED  BY Zenon, <1>1, <1>5, <2>1, PromoteInv
<1>7. s0 \in LocalState
  BY Zenon, <1>6 DEF LocalInv
<1> HIDE DEF s0, helped
<1>8. t.inc = s1.inc
  BY Zenon, <1>7 DEF ApplyDeltas, ApplyPeerDeltas, Refute, Install, LocalState
<1>9. s1.inc <= MaxInc
  BY Zenon, <1>2, <1>8 DEF Receive, Become
<1>10. s1.inc \in 0..MaxInc /\ LocalInv(n, s1, c)
  BY Zenon, <1>1, <1>6, <1>9, ApplyDeltasInv
<1> HIDE DEF s1
<1>11. /\ t \in LocalState /\ t.members = s1.members /\ t.backlog = s1.backlog
       /\ t.probe = s1.probe
  BY Zenon, <1>10 DEF LocalInv, LocalState
<1> HIDE DEF t
<1>12. LocalInv(n, t, c)
  <2>1. \A p \in t.probe : p.target \in DOMAIN s1.members \ {n}
    BY Zenon, <1>10, <1>11 DEF LocalInv
  <2> HIDE DEF c
  <2> QED  BY Zenon, <1>8, <1>10, <1>11, <2>1, SameView
<1>13. \A x \in out : MessageInv(x, c)
  BY Zenon, <1>4, PingReqAckInv
<1> QED  BY Zenon, <1>2, <1>8, <1>10, <1>12, <1>13, ReceiveInv

\* _handle_pingreq preserves the invariant.
LEMMA RecvPingReqInv ==
  ASSUME IInv, NEW n \in Node, NEW m \in net, RecvPingReq(n, m)
  PROVE  IInv'
<1> DEFINE s == node[n]
           help == [id |-> m.id, target |-> m.target, requester |-> m.from]
           t == [s EXCEPT !.helps = @ \cup {help}]
<1>1. /\ m.type = "PingReq" /\ issued \in [Node -> 0..MaxInc]
      /\ LocalInv(n, s, issued) /\ s \in LocalState /\ m \in Message
  BY Zenon, ReceiveFacts DEF RecvPingReq, LocalInv
<1>2. help \in PendingHelp /\ m.target \in Node
  BY Zenon, <1>1 DEF Message, PendingHelp
<1>3. s.inc \in 0..MaxInc /\ s.inc <= issued[n]
      /\ LocalInv(n, s, Raise(issued, n, s.inc))
  BY Zenon, <1>1, RaiseLocal, LocalBounded
<1>4. CASE Receive(n, m, s, {})
  <2> DEFINE out == {}
  <2>1. Receive(n, m, s, out) /\ \A x \in out : MessageInv(x, Raise(issued, n, s.inc))
    BY Zenon, <1>4
  <2> HIDE DEF s, out
  <2> QED  BY Zenon, <1>3, <2>1, ReceiveInv
<1>5. ASSUME NEW d \in OutgoingDeltas(n, s),
             Receive(n, m, t, {Ping(n, m.target, s.inc, d)})
      PROVE  IInv'
  <2> DEFINE c == Raise(issued, n, s.inc)
  <2>1. /\ t \in LocalState /\ t.members = s.members /\ t.backlog = s.backlog
        /\ t.probe = s.probe /\ t.inc = s.inc
    BY Zenon, <1>1, <1>2 DEF LocalState
  <2> HIDE DEF t
  <2>2. LocalInv(n, t, c)
    BY <1>3, <2>1, SameView DEF LocalInv
  <2>3. Bounded(d, c) /\ s.inc <= c[n]
    BY Zenon, <1>3, <1>5, OutgoingBounded, LocalBounded
  <2>4. MessageInv(Ping(n, m.target, s.inc, d), c)
    BY Zenon, <1>2, <1>3, <2>3, PingAckInv
  <2> DEFINE out == {Ping(n, m.target, s.inc, d)}
  <2>5. Receive(n, m, t, out) /\ \A x \in out : MessageInv(x, c)
    BY Zenon, <1>5, <2>4
  <2> HIDE DEF s, out
  <2> QED  BY Zenon, <1>3, <2>1, <2>2, <2>5, ReceiveInv
<1>6. \/ Receive(n, m, s, {})
      \/ \E d \in OutgoingDeltas(n, s) : Receive(n, m, t, {Ping(n, m.target, s.inc, d)})
  BY Zenon DEF RecvPingReq
<1> QED  BY Zenon, <1>4, <1>5, <1>6

\* _handle_pingreqack preserves the invariant.
LEMMA RecvPingReqAckInv ==
  ASSUME IInv, NEW n \in Node, NEW m \in net, RecvPingReqAck(n, m)
  PROVE  IInv'
<1> DEFINE s == node[n]
           clear == [s EXCEPT !.probe = {}]
           counted(p) == [s EXCEPT !.probe = {[p EXCEPT !.acks = @ + 1]}]
<1>1. /\ issued \in [Node -> 0..MaxInc]
      /\ LocalInv(n, s, issued) /\ s \in LocalState
  BY Zenon, ReceiveFacts DEF LocalInv
<1>2. /\ clear \in LocalState /\ clear.members = s.members
      /\ clear.backlog = s.backlog /\ clear.probe = {} /\ clear.inc = s.inc
  BY Zenon, <1>1 DEF LocalState
<1> HIDE DEF clear
<1>3. LocalInv(n, clear, issued)
  BY Zenon, <1>1, <1>2, SameView
<1>4. ASSUME NEW t, LocalInv(n, t, issued), Receive(n, m, t, {})
      PROVE  IInv'
  <2>1. t.inc \in 0..MaxInc /\ LocalInv(n, t, Raise(issued, n, t.inc))
    BY Zenon, <1>1, <1>4, RaiseLocal, LocalBounded
  <2> QED  BY <1>4, <2>1, ReceiveInv
<1>5. ASSUME NEW p \in s.probe
      PROVE  LocalInv(n, MarkSuspect(clear, {p.target}), issued)
  <2>1. {p.target} \subseteq DOMAIN clear.members \ {n}
    BY Zenon, <1>1, <1>2 DEF LocalInv
  <2> QED  BY Zenon, <1>3, <2>1, MarkSuspectInv
<1>6. ASSUME NEW p \in s.probe
      PROVE  LocalInv(n, counted(p), issued)
  <2> DEFINE q == [p EXCEPT !.acks = @ + 1]
             t == [s EXCEPT !.probe = {q}]
  <2>1. p \in PendingProbe /\ p.target \in DOMAIN s.members \ {n}
    BY Zenon, <1>1 DEF LocalInv, LocalState
  <2>2. q \in PendingProbe /\ q.target = p.target
    BY <2>1 DEF PendingProbe
  <2> HIDE DEF q
  <2>3. /\ t \in LocalState /\ t.members = s.members
        /\ t.backlog = s.backlog /\ t.probe = {q} /\ t.inc = s.inc
    BY Zenon, <1>1, <2>2 DEF LocalState
  <2>4. LocalInv(n, t, issued)
    <3> HIDE DEF t
    <3> QED  BY Zenon, <1>1, <2>1, <2>2, <2>3, SameView
  <2> QED  BY Zenon, <2>4 DEF q
<1>7. \/ Receive(n, m, s, {})
      \/ Receive(n, m, clear, {})
      \/ \E p \in s.probe : \/ Receive(n, m, MarkSuspect(clear, {p.target}), {})
                            \/ Receive(n, m, counted(p), {})
  BY Zenon DEF RecvPingReqAck, clear
<1> HIDE DEF counted, s
<1> QED  BY Zenon, <1>1, <1>3, <1>4, <1>5, <1>6, <1>7

\* _handle_join preserves the invariant.
LEMMA RecvJoinInv ==
  ASSUME IInv, NEW n \in Node, NEW m \in net, m.to = n, RecvJoin(n, m)
  PROVE  IInv'
<1> DEFINE s == node[n]
           recs == [x \in {m.from} |-> m.rec]
           t == Install(s, recs)
           answer(u) == {MembershipDelta(n, m.from, u.members)}
<1>1. /\ m.type = "Join" /\ issued \in [Node -> 0..MaxInc]
      /\ LocalInv(n, s, issued) /\ m \in Message /\ MessageInv(m, issued)
  BY Zenon, ReceiveFacts DEF RecvJoin
<1>2. /\ m.from \in Node /\ m.rec \in MemberRecord
      /\ m.from # n /\ m.rec.state = ALIVE /\ m.rec.inc = 0 /\ ~m.rec.deadline
  BY Zenon, <1>1 DEF MessageInv, Message
<1>3. ASSUME NEW u, LocalInv(n, u, issued), NEW out,
             out = {} \/ out = answer(u), Receive(n, m, u, out)
      PROVE  IInv'
  <2> DEFINE c == Raise(issued, n, u.inc)
  <2>1. u.inc \in 0..MaxInc /\ LocalInv(n, u, c)
    BY Zenon, <1>1, <1>3, RaiseLocal, LocalBounded
  <2>2. Bounded(u.members, c)
    BY Zenon, <2>1, LocalBounded
  <2>3. MessageInv(MembershipDelta(n, m.from, u.members), c)
    BY Zenon, <1>2, <2>2, MembershipDeltaInv
  <2>4. \A x \in out : MessageInv(x, c)
    BY Zenon, <1>3, <2>3
  <2> QED  BY Zenon, <1>3, <2>1, <2>4, ReceiveInv
<1>4. ASSUME Admit(n, m.rec)
      PROVE  LocalInv(n, t, issued)
  <2>1. GoodRecord(n, m.from, m.rec, issued)
    <3>1. 0 <= issued[m.from]
      BY <1>1, <1>2, ConstantsAssumption
    <3>2. ModelId[n] # "" => m.rec.model = ModelId[n]
      BY Zenon, <1>4 DEF Admit
    <3>3. m.rec.state # SUSPECT
      BY <1>2 DEF ALIVE, SUSPECT
    <3> QED  BY Zenon, <1>2, <3>1, <3>2, <3>3 DEF GoodRecord
  <2>2. recs \in MemberDict
    BY Zenon, <1>2, DictIntro
  <2>3. n \notin DOMAIN recs /\ \A x \in DOMAIN recs : GoodRecord(n, x, recs[x], issued)
    BY Zenon, <1>2, <2>1
  <2> HIDE DEF recs
  <2> QED  BY Zenon, <1>1, <2>2, <2>3, InstallInv
<1>5. \/ Receive(n, m, s, {})
      \/ Receive(n, m, s, answer(s))
      \/ Admit(n, m.rec) /\ Receive(n, m, t, answer(t))
  BY Zenon DEF RecvJoin
<1> HIDE DEF s, t
<1> QED  BY Zenon, <1>1, <1>3, <1>4, <1>5

\* _handle_delta preserves the invariant.
LEMMA RecvMembershipDeltaInv ==
  ASSUME IInv, NEW n \in Node, NEW m \in net, RecvMembershipDelta(n, m)
  PROVE  IInv'
<1> DEFINE s == node[n]
           new == {x \in DOMAIN m.deltas \ DOMAIN s.members :
                     x # n /\ Admit(n, m.deltas[x])}
           recs == [x \in new |-> m.deltas[x]]
           s0 == ApplyPeerDeltas(n, s, m.deltas)
           s1 == Install(s0, recs)
           t == Refute(n, s1, m.deltas)
<1>1. /\ issued \in [Node -> 0..MaxInc] /\ LocalInv(n, s, issued)
      /\ m.deltas \in MemberDict
      /\ \A x \in DOMAIN m.deltas : m.deltas[x].inc <= issued[x]
  BY Zenon, ReceiveFacts DEF RecvMembershipDelta
<1>2. LocalInv(n, s0, issued)
  BY Zenon, <1>1, ApplyPeerDeltasInv
<1>3. new \in SUBSET Node /\ \A x \in new : m.deltas[x] \in MemberRecord
  BY Zenon, <1>1, DictElim
<1>4. Full => new = {}
  BY Zenon, <1>1, <1>3 DEF Full, LocalInv
<1>5. recs \in MemberDict
  BY Zenon, <1>3, DictIntro
<1>6. ASSUME NEW x \in new
      PROVE  GoodRecord(n, x, m.deltas[x], issued)
  <2>1. ModelId[n] # "" => m.deltas[x].model = ModelId[n]
    BY Zenon DEF Admit
  <2> QED  BY Zenon, <1>1, <1>3, <1>4, <2>1 DEF GoodRecord
<1>7. n \notin DOMAIN recs /\ \A x \in DOMAIN recs : GoodRecord(n, x, recs[x], issued)
  BY Zenon, <1>6
<1>8. Receive(n, m, t, {})
  BY Zenon DEF RecvMembershipDelta
<1> HIDE DEF s0, recs
<1>9. LocalInv(n, s1, issued)
  BY Zenon, <1>2, <1>5, <1>7, InstallInv
<1>10. t.inc <= MaxInc
  BY Zenon, <1>8 DEF Receive, Become
<1> HIDE DEF s1
<1>11. t.inc \in 0..MaxInc /\ LocalInv(n, t, Raise(issued, n, t.inc))
  BY Zenon, <1>1, <1>9, <1>10, RefuteInv
<1> HIDE DEF t
<1> QED  BY <1>8, <1>11, ReceiveInv

\* The timers' part of a tick
LEMMA TimerResultsInv ==
  ASSUME IInv, NEW n \in Node, NEW r \in TimerResults(n)
  PROVE  /\ LocalInv(n, r.s, issued)
         /\ r.s.probe = node[n].probe
         /\ \A x \in r.out : MessageInv(x, issued)
<1>1. LocalInv(n, node[n], issued)
  BY Zenon DEF IInv
<1>2. PICK e \in Expired(n) :
        r = [s |-> AfterTimers(node[n], e.gone, e.late, e.dead),
             out |-> {PingReqAck(n, h, FALSE) : h \in e.late}]
  BY Zenon DEF TimerResults
<1>3. e.late \subseteq PendingHelp /\ e.dead \in SUBSET Suspects(node[n])
  BY Zenon, <1>1 DEF Expired, OverdueHelps, LocalInv, LocalState
<1>4. \A x \in r.out : MessageInv(x, issued)
  BY Zenon, <1>2, <1>3, PingReqAckInv
<1>5. /\ LocalInv(n, AfterTimers(node[n], e.gone, e.late, e.dead), issued)
      /\ AfterTimers(node[n], e.gone, e.late, e.dead).probe = node[n].probe
  BY <1>1, <1>3, AfterTimersInv, SMTT(30)
<1> QED  BY Zenon, <1>2, <1>4, <1>5

\* The candidates of a probe are nodes.
LEMMA AlivePeersType ==
  ASSUME NEW n \in Node, NEW b, NEW s, LocalInv(n, s, b)
  PROVE  AlivePeers(n, s) \subseteq DOMAIN s.members \ {n}
         /\ AlivePeers(n, s) \subseteq Node
<1>1. DOMAIN s.members \subseteq Node
  BY Zenon, DictElim DEF LocalInv, LocalState
<1> QED  BY Zenon, <1>1 DEF AlivePeers

\* A tick that only runs the timers preserves the invariant.
LEMMA TickIdleInv ==
  ASSUME IInv, NEW n \in Node, TickIdle(n)
  PROVE  IInv'
BY Zenon, TimerResultsInv, EmitInv DEF TickIdle

\* A period without candidates preserves the invariant.
LEMMA TickNoPeersInv ==
  ASSUME IInv, NEW n \in Node, TickNoPeers(n)
  PROVE  IInv'
<1>1. PICK r \in TimerResults(n) : Emit(n, EndPeriod(r.s), r.out)
  BY Zenon DEF TickNoPeers
<1>2. LocalInv(n, r.s, issued) /\ \A x \in r.out : MessageInv(x, issued)
  BY Zenon, TimerResultsInv
<1>3. LocalInv(n, EndPeriod(r.s), issued)
  BY Zenon, <1>2, EndPeriodInv
<1> QED  BY Zenon, <1>1, <1>2, <1>3, EmitInv

\* A period that pings its target preserves the invariant.
LEMMA TickPeriodInv ==
  ASSUME IInv, NEW n \in Node, NEW target \in Node, TickPeriod(n, target)
  PROVE  IInv'
<1> DEFINE next(s) == IF s.counter = MaxProbes THEN 1 ELSE s.counter + 1
           probe(c) == [id |-> <<n, c>>, target |-> target, indirect |-> FALSE,
                        helpers |-> {}, acks |-> 0, success |-> FALSE]
           after(s) == [s EXCEPT !.counter = next(s), !.probe = {probe(next(s))}]
<1>1. PICK r \in TimerResults(n) :
        /\ target \in AlivePeers(n, EndPeriod(r.s))
        /\ \E d \in OutgoingDeltas(n, EndPeriod(r.s)) :
             Emit(n, after(EndPeriod(r.s)),
                  r.out \cup {Ping(n, target, EndPeriod(r.s).inc, d)})
  BY Zenon DEF TickPeriod
<1> DEFINE s == EndPeriod(r.s)
           t == after(s)
<1>2. LocalInv(n, r.s, issued) /\ \A x \in r.out : MessageInv(x, issued)
  BY Zenon, TimerResultsInv
<1>3. LocalInv(n, s, issued)
  BY Zenon, <1>2, EndPeriodInv
<1>4. PICK d \in OutgoingDeltas(n, s) :
        Emit(n, t, r.out \cup {Ping(n, target, s.inc, d)})
  BY Zenon, <1>1
<1>5. target \in DOMAIN s.members \ {n}
  BY Zenon, <1>1, <1>3, AlivePeersType
<1> HIDE DEF s
<1>6. s \in LocalState /\ next(s) \in 1..MaxProbes /\ next(s) \in 0..MaxProbes
  <2>1. s \in LocalState
    BY Zenon, <1>3 DEF LocalInv
  <2>2. s.counter \in 0..MaxProbes
    BY Zenon, <2>1 DEF LocalState
  <2>3. MaxProbes \in Nat \ {0}
    BY Zenon, ConstantsAssumption
  <2> QED  BY <2>1, <2>2, <2>3
<1> HIDE DEF next
<1>7. probe(next(s)) \in PendingProbe /\ probe(next(s)).target = target
  BY Zenon, <1>6 DEF PendingProbe
<1> HIDE DEF probe
<1>8. /\ t \in LocalState /\ t.members = s.members /\ t.inc = s.inc
      /\ t.backlog = s.backlog /\ t.probe = {probe(next(s))}
  BY Zenon, <1>6, <1>7 DEF LocalState
<1> HIDE DEF t
<1>9. LocalInv(n, t, issued)
  BY Zenon, <1>3, <1>5, <1>7, <1>8, SameView
<1>10. MessageInv(Ping(n, target, s.inc, d), issued)
  <2>1. s.inc \in 0..MaxInc /\ s.inc <= issued[n] /\ Bounded(d, issued)
    BY Zenon, <1>3, <1>4, LocalBounded, OutgoingBounded
  <2> QED  BY Zenon, <2>1, PingAckInv
<1>11. \A x \in r.out \cup {Ping(n, target, s.inc, d)} : MessageInv(x, issued)
  BY Zenon, <1>2, <1>10
<1> QED  BY Zenon, <1>4, <1>9, <1>11, EmitInv

\* The escalation to indirect probes preserves the invariant.
LEMMA TickEscalateInv ==
  ASSUME IInv, NEW n \in Node, NEW target \in Node, TickEscalate(n, target)
  PROVE  IInv'
<1> DEFINE escalated(p, chosen) == [p EXCEPT !.indirect = TRUE, !.helpers = chosen]
<1>1. PICK r \in TimerResults(n), p \in node[n].probe :
        /\ p.target = target
        /\ \/ \E chosen \in SUBSET (AlivePeers(n, r.s) \ {target}) :
                Emit(n, [r.s EXCEPT !.probe = {escalated(p, chosen)}],
                     r.out \cup {PingReq(n, h, p) : h \in chosen})
           \/ Emit(n, MarkSuspect([r.s EXCEPT !.probe = {}], {target}), r.out)
  BY Zenon DEF TickEscalate
<1>2. /\ LocalInv(n, r.s, issued) /\ r.s \in LocalState /\ r.s.probe = node[n].probe
      /\ \A x \in r.out : MessageInv(x, issued)
  BY Zenon, TimerResultsInv DEF LocalInv
<1>3. p \in PendingProbe /\ target \in DOMAIN r.s.members \ {n}
  BY Zenon, <1>1, <1>2 DEF LocalInv, LocalState
<1>4. ASSUME NEW chosen \in SUBSET (AlivePeers(n, r.s) \ {target}),
             Emit(n, [r.s EXCEPT !.probe = {escalated(p, chosen)}],
                  r.out \cup {PingReq(n, h, p) : h \in chosen})
      PROVE  IInv'
  <2> DEFINE q == escalated(p, chosen)
             t == [r.s EXCEPT !.probe = {q}]
             out == r.out \cup {PingReq(n, h, p) : h \in chosen}
  <2>1. chosen \subseteq Node
    BY Zenon, <1>2, AlivePeersType
  <2>2. q \in PendingProbe /\ q.target = target
    BY Zenon, <1>1, <1>3, <2>1 DEF PendingProbe
  <2>3. \A x \in out : MessageInv(x, issued)
    BY <1>2, <1>3, <2>1, PingReqInv
  <2> HIDE DEF q, out
  <2>4. /\ t \in LocalState /\ t.members = r.s.members /\ t.inc = r.s.inc
        /\ t.backlog = r.s.backlog /\ t.probe = {q}
    BY Zenon, <1>2, <2>2 DEF LocalState
  <2>5. Emit(n, t, out)
    BY Zenon, <1>4 DEF q, out
  <2> HIDE DEF t
  <2>6. LocalInv(n, t, issued)
    BY Zenon, <1>2, <1>3, <2>2, <2>4, SameView
  <2> QED  BY Zenon, <2>3, <2>5, <2>6, EmitInv
<1>5. CASE Emit(n, MarkSuspect([r.s EXCEPT !.probe = {}], {target}), r.out)
  <2> DEFINE s == [r.s EXCEPT !.probe = {}]
  <2>1. /\ s \in LocalState /\ s.members = r.s.members /\ s.inc = r.s.inc
        /\ s.backlog = r.s.backlog /\ s.probe = {}
    BY Zenon, <1>2 DEF LocalState
  <2>2. Emit(n, MarkSuspect(s, {target}), r.out)
    BY Zenon, <1>5
  <2> HIDE DEF s
  <2>3. LocalInv(n, s, issued)
    BY Zenon, <1>2, <2>1, SameView
  <2>4. LocalInv(n, MarkSuspect(s, {target}), issued)
    BY Zenon, <1>3, <2>1, <2>3, MarkSuspectInv
  <2> QED  BY Zenon, <1>2, <2>2, <2>4, EmitInv
<1> QED  BY Zenon, <1>1, <1>4, <1>5

\* _fire_observers preserves the invariant.
LEMMA FireObserversInv ==
  ASSUME IInv, NEW n \in Node, FireObservers(n)
  PROVE  IInv'
<1> DEFINE s == node[n]
           seen == [x \in Node |-> IF s.log[x] = <<>> THEN s.seen[x]
                                   ELSE s.log[x][Len(s.log[x])].new]
           empty == [x \in Node |-> <<>>]
           t == [s EXCEPT !.log = empty, !.seen = seen]
<1>1. /\ node \in [Node -> LocalState] /\ LocalInv(n, s, issued) /\ s \in LocalState
      /\ issued \in [Node -> 0..MaxInc]
  BY Zenon DEF IInv, TypeOK
<1>2. ASSUME NEW x \in Node
      PROVE  seen[x] \in State \cup {Absent}
  <2>1. s.log[x] \in Seq(Transition) /\ s.seen[x] \in State \cup {Absent}
    BY Zenon, <1>1 DEF LocalState
  <2>2. CASE s.log[x] # <<>>
    <3>1. Len(s.log[x]) \in 1..Len(s.log[x])
      BY <2>1, <2>2
    <3>2. s.log[x][Len(s.log[x])] \in Transition
      BY <2>1, <3>1
    <3> QED  BY Zenon, <2>2, <3>2 DEF Transition
  <2> QED  BY Zenon, <2>1, <2>2
<1>3. seen \in [Node -> State \cup {Absent}] /\ empty \in [Node -> Seq(Transition)]
  BY <1>2
<1>4. node' = [node EXCEPT ![n] = t]
  BY Zenon DEF FireObservers
<1> HIDE DEF seen, empty
<1>5. /\ t \in LocalState /\ t.members = s.members /\ t.inc = s.inc
      /\ t.backlog = s.backlog /\ t.probe = s.probe
  BY Zenon, <1>1, <1>3 DEF LocalState
<1> HIDE DEF t
<1>6. LocalInv(n, t, issued)
  BY <1>1, <1>5, SameView DEF LocalInv
<1>7. UNCHANGED <<up, net, started, issued, losses, dups, crashes>>
  BY Zenon DEF FireObservers
<1>8. \A x \in Node : LocalInv(x, node'[x], issued')
  BY Zenon, <1>1, <1>4, <1>6, <1>7 DEF IInv
<1>9. node' \in [Node -> LocalState]
  BY Zenon, <1>1, <1>4, <1>5
<1>10. TypeOK'
  BY Zenon, <1>7, <1>9 DEF IInv, TypeOK
<1>11. \A m \in net' : MessageInv(m, issued')
  BY Zenon, <1>7 DEF IInv
<1> QED  BY Zenon, <1>8, <1>10, <1>11 DEF IInv

\* A restart preserves the invariant.
LEMMA RestartInv ==
  ASSUME IInv, NEW n \in Node, Restart(n)
  PROVE  IInv'
<1>1. PICK i \in started[n]..MaxClock :
        started' = [started EXCEPT ![n] = i] /\ Become(n, Fresh(n, i))
  BY Zenon DEF Restart
<1>2. /\ issued \in [Node -> 0..MaxInc] /\ started \in [Node -> 0..MaxInc]
      /\ up \in SUBSET Node
  BY Zenon DEF IInv, TypeOK
<1>3. i \in 0..MaxInc
  BY <1>2, ConstantsAssumption
<1> DEFINE c == Raise(issued, n, i)
<1>4. c \in [Node -> 0..MaxInc] /\ i <= c[n]
  BY Zenon, <1>2, <1>3, RaiseBound
<1>5. LocalInv(n, Fresh(n, i), c) /\ Fresh(n, i).inc = i
  <2> HIDE DEF c
  <2> QED  BY Zenon, <1>3, <1>4, FreshInv
<1> DEFINE out == {}
<1>6. /\ up' \in SUBSET Node /\ started' \in [Node -> 0..MaxInc]
      /\ losses' \in Nat /\ dups' \in Nat /\ crashes' \in Nat
      /\ net' \subseteq net \cup out
      /\ \A m \in out : MessageInv(m, c)
  BY Zenon, <1>1, <1>2, <1>3 DEF Restart, IInv, TypeOK
<1> HIDE DEF out
<1> QED  BY Zenon, <1>1, <1>3, <1>5, <1>6, StepInv

\* A step that touches no local state and adds only good datagrams
LEMMA NetworkInv ==
  ASSUME IInv, NEW out, \A m \in out : MessageInv(m, issued),
         net' \subseteq net \cup out,
         UNCHANGED <<node, started, issued, dups>>,
         up' \in SUBSET Node, losses' \in Nat, crashes' \in Nat
  PROVE  IInv'
<1>1. \A m \in net' : MessageInv(m, issued')
  BY Zenon DEF IInv
<1>2. net' \subseteq Message
  BY Zenon, <1>1 DEF MessageInv
<1>3. TypeOK'
  BY Zenon, <1>2 DEF IInv, TypeOK
<1>4. \A n \in Node : LocalInv(n, node'[n], issued')
  BY Zenon DEF IInv
<1> QED  BY Zenon, <1>1, <1>3, <1>4 DEF IInv

\* Crashes, losses and bootstrap contacts preserve the invariant.
LEMMA EnvironmentInv ==
  ASSUME IInv
  PROVE  /\ \A n, seed \in Node : BootstrapJoin(n, seed) => IInv'
         /\ \A n \in Node : Crash(n) => IInv'
         /\ \A m \in net : Lose(m) => IInv'
<1>1. ASSUME NEW n \in Node, NEW seed \in Node, BootstrapJoin(n, seed)
      PROVE  IInv'
  <2>1. /\ seed \in Node \ {n} /\ net' \subseteq net \cup {Join(n, seed)}
        /\ UNCHANGED <<node, up, started, issued, losses, dups, crashes>>
    BY Zenon, <1>1 DEF BootstrapJoin, Send
  <2>2. \A m \in {Join(n, seed)} : MessageInv(m, issued)
    BY Zenon, <2>1, JoinInv
  <2>3. up' \in SUBSET Node /\ losses' \in Nat /\ crashes' \in Nat
    BY Zenon, <2>1 DEF IInv, TypeOK
  <2> QED  BY Zenon, <2>1, <2>2, <2>3, NetworkInv
<1>2. ASSUME NEW n \in Node, Crash(n)
      PROVE  IInv'
  <2>1. /\ up' \in SUBSET Node /\ losses' \in Nat /\ crashes' \in Nat
        /\ net' \subseteq net \cup net /\ \A x \in net : MessageInv(x, issued)
        /\ UNCHANGED <<node, started, issued, dups>>
    BY <1>2 DEF Crash, IInv, TypeOK
  <2> QED  BY Zenon, <2>1, NetworkInv
<1>3. ASSUME NEW m \in net, Lose(m)
      PROVE  IInv'
  <2>1. /\ up' \in SUBSET Node /\ losses' \in Nat /\ crashes' \in Nat
        /\ net' \subseteq net \cup net /\ \A x \in net : MessageInv(x, issued)
        /\ UNCHANGED <<node, started, issued, dups>>
    BY <1>3 DEF Lose, IInv, TypeOK
  <2> QED  BY Zenon, <2>1, NetworkInv
<1> QED  BY Zenon, <1>1, <1>2, <1>3
-----------------------------------------------------------------------------
(* The theorems. *)

\* The states MembershipState.__init__ starts the nodes in satisfy the invariant.
LEMMA InitInv ==
  Init => IInv
<1> SUFFICES ASSUME Init PROVE IInv
  BY Zenon
<1>1. StartInc \in 0..MaxInc
  BY ConstantsAssumption
<1>2. /\ issued \in [Node -> 0..MaxInc] /\ started \in [Node -> 0..MaxInc]
      /\ \A n \in Node : StartInc <= issued[n]
  BY <1>1, ConstantsAssumption DEF Init
<1>3. \A n \in Node : LocalInv(n, Fresh(n, StartInc), issued)
  BY Zenon, <1>1, <1>2, FreshInv
<1>4. \A n \in Node : LocalInv(n, node[n], issued)
  BY Zenon, <1>3 DEF Init
<1>5. node \in [Node -> LocalState]
  BY Zenon, <1>3 DEF Init, LocalInv
<1>6. TypeOK
  BY Zenon, <1>2, <1>5 DEF Init, TypeOK
<1> QED  BY Zenon, <1>4, <1>6 DEF Init, IInv

\* Every tick, datagram, observer call, crash, restart and loss preserves it.
LEMMA NextInv ==
  IInv /\ [Next]_vars => IInv'
<1> SUFFICES ASSUME IInv, [Next]_vars PROVE IInv'
  BY Zenon
<1>1. ASSUME NEW n \in Node, Tick(n) PROVE IInv'
  BY Zenon, <1>1, TickIdleInv, TickNoPeersInv, TickPeriodInv, TickEscalateInv DEF Tick
<1>2. ASSUME NEW m \in net, Recv(m.to, m) PROVE IInv'
  <2>1. m.to \in Node
    BY Zenon, <1>2 DEF Recv, IInv, TypeOK
  <2> QED  BY Zenon, <1>2, <2>1, RecvPingInv, RecvAckInv, RecvPingReqInv,
              RecvPingReqAckInv, RecvJoinInv, RecvMembershipDeltaInv DEF Recv
<1>3. CASE UNCHANGED vars
  BY Zenon, <1>3 DEF vars, IInv, TypeOK
<1> QED  BY Zenon, <1>1, <1>2, <1>3, FireObserversInv, RestartInv, EnvironmentInv DEF Next

\* The inductive invariant holds of every reachable state.
THEOREM Invariance ==
  Spec => []IInv
<1>1. Init => IInv
  BY Zenon, InitInv
<1>2. IInv /\ [Next]_vars => IInv'
  BY Zenon, NextInv
<1> QED  BY <1>1, <1>2, PTL DEF Spec

\* The variables keep their types, whatever the handlers receive.
THEOREM TypeCorrect ==
  Spec => []TypeOK
<1>1. IInv => TypeOK
  BY Zenon DEF IInv
<1> QED  BY <1>1, Invariance, PTL

\* No record of a node, in any view, backlog or datagram, is above the
\* incarnations the node itself has taken: only _maybe_refute and a restart
\* make new ones.
THEOREM OnlyOwnersRaiseIncarnations ==
  Spec => []IncarnationsIssued
<1>1. IInv => IncarnationsIssued
  <2> SUFFICES ASSUME IInv PROVE IncarnationsIssued
    BY Zenon
  <2>1. ASSUME NEW n \in Node
        PROVE  /\ node[n].inc <= issued[n]
               /\ \A x \in DOMAIN node[n].members : node[n].members[x].inc <= issued[x]
               /\ \A x \in DOMAIN node[n].backlog : node[n].backlog[x].inc <= issued[x]
    <3>1. LocalInv(n, node[n], issued)
      BY Zenon DEF IInv
    <3>2. /\ node[n].inc <= issued[n]
          /\ \A x \in DOMAIN node[n].members : node[n].members[x].inc <= issued[x]
      BY Zenon, <3>1, LocalBounded DEF Bounded
    <3> QED  BY Zenon, <3>1, <3>2 DEF LocalInv
  <2> QED  BY Zenon, <2>1 DEF IncarnationsIssued, IInv, MessageInv
<1> QED  BY <1>1, Invariance, PTL

\* No gossip makes a node believe that it is not alive.
THEOREM OwnRecordAlive ==
  Spec => []SelfRecord
<1>1. IInv => SelfRecord
  BY Zenon DEF IInv, LocalInv, SelfRecord
<1> QED  BY <1>1, Invariance, PTL

\* What a node gossips is what its view says.
THEOREM GossipIsView ==
  Spec => []GossipFresh
<1>1. IInv => GossipFresh
  BY Zenon DEF IInv, LocalInv, GossipFresh
<1> QED  BY <1>1, Invariance, PTL

\* _admit keeps every record of another model out of the view.
THEOREM AdmissionHolds ==
  Spec => []ModelAdmitted
<1>1. IInv => ModelAdmitted
  BY Zenon DEF IInv, LocalInv, GoodRecord, ModelAdmitted
<1> QED  BY <1>1, Invariance, PTL

\* When every shards.yaml lists every node, each suspicion has a deadline, so
\* _maybe_promote_dead will rule on it.
THEOREM SuspicionsHaveDeadlines ==
  ASSUME Full
  PROVE  Spec => []DeadlineIffSuspect
<1>1. IInv => DeadlineIffSuspect
  <2> SUFFICES ASSUME IInv, NEW n \in Node, NEW x \in DOMAIN node[n].members
               PROVE  node[n].members[x].deadline <=> node[n].members[x].state = SUSPECT
    BY Zenon DEF DeadlineIffSuspect
  <2>1. GoodRecord(n, x, node[n].members[x], issued)
    BY Zenon DEF IInv, LocalInv
  <2> QED  BY Zenon, <2>1 DEF GoodRecord
<1> QED  BY <1>1, Invariance, PTL
=============================================================================
