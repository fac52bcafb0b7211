----------------------------- MODULE SwimHistory ----------------------------
(***************************************************************************)
(* Proofs about Swim: what the observers are told, what a view may go back *)
(* to, and that one lost datagram raises no suspicion.                     *)
(***************************************************************************)
EXTENDS SwimProofs

(* What the observers are told, and what a view may go back to. *)

\* The transitions q lead from state a to state b.
Chain(q, a, b) ==
  IF q = <<>> THEN a = b
  ELSE /\ q[1].old = a /\ q[Len(q)].new = b
       /\ \A i \in 1..(Len(q) - 1) : q[i + 1].old = q[i].new

Now(s, x) == IF x \in DOMAIN s.members THEN s.members[x].state ELSE Absent

\* The part of a local state that this section is about; the states between the
\* updates of one handler have it too.
Change == [old : Nat, new : Nat]
Shape(s) ==
  /\ DOMAIN s = {"members", "inc", "probe", "counter", "helps", "backlog", "log", "seen"}
  /\ s.log \in [Node -> Seq(Change)]
  /\ \A x \in DOMAIN s.members : s.members[x].inc \in Nat /\ s.members[x].state \in Nat
Watch(s) == Shape(s) /\ \A x \in Node : Chain(s.log[x], s.seen[x], Now(s, x))

WatchInv == \A n \in Node : Watch(node[n])

\* A record o is followed by a record w, and so are all of a view but n's own.
Later(o, w) == w.inc >= o.inc /\ (w.inc = o.inc => w.state >= o.state)
Grown(n, s, t) ==
  \A x \in DOMAIN s.members \ {n} : x \in DOMAIN t.members /\ Later(s.members[x], t.members[x])

\* One more transition
LEMMA ChainAppend ==
  ASSUME NEW q \in Seq(Change), NEW a, NEW b \in Nat, NEW c \in Nat, Chain(q, a, b)
  PROVE  Chain(Append(q, [old |-> b, new |-> c]), a, c)
<1> DEFINE e == [old |-> b, new |-> c]
           d == Append(q, e)
<1> SUFFICES Chain(d, a, c)
  BY Zenon
<1>1. e.old = b /\ e.new = c /\ e \in Change
  BY Zenon DEF Change
<1> HIDE DEF e
<1>2. /\ Len(d) = Len(q) + 1 /\ d[Len(q) + 1] = e /\ Len(q) \in Nat
      /\ \A i \in 1..Len(q) : d[i] = q[i]
  BY <1>1
<1>3. q # <<>> => Len(q) > 0
  OBVIOUS
<1>4. q = <<>> => Len(q) = 0
  OBVIOUS
<1>5. d # <<>>
  BY <1>2
<1> HIDE DEF d
<1>6. CASE q = <<>>
  BY <1>1, <1>2, <1>4, <1>5, <1>6 DEF Chain
<1>7. CASE q # <<>>
  <2>1. d[1].old = a /\ d[Len(d)].new = c
    BY <1>1, <1>2, <1>3, <1>7 DEF Chain
  <2>2. ASSUME NEW i \in 1..(Len(d) - 1) PROVE d[i + 1].old = d[i].new
    <3>1. CASE i = Len(q)
      BY <1>1, <1>2, <1>3, <1>7, <3>1 DEF Chain
    <3>2. CASE i # Len(q)
      <4>1. i \in 1..(Len(q) - 1) /\ i \in 1..Len(q) /\ i + 1 \in 1..Len(q)
        BY <1>2, <3>2
      <4>2. d[i] = q[i] /\ d[i + 1] = q[i + 1] /\ q[i + 1].old = q[i].new
        BY Zenon, <1>2, <1>7, <4>1 DEF Chain
      <4> QED BY Zenon, <4>2
    <3> QED BY Zenon, <3>1, <3>2
  <2>3. \A i \in 1..(Len(d) - 1) : d[i + 1].old = d[i].new
    BY Zenon, <2>2
  <2> QED BY ONLY Zenon, <1>5, <2>1, <2>3 DEF Chain
<1> QED BY Zenon, <1>6, <1>7

\* Install appends a transition for every record it stores.
LEMMA WatchInstall ==
  ASSUME NEW s, Watch(s), NEW recs,
         \A x \in DOMAIN recs : recs[x].inc \in Nat /\ recs[x].state \in Nat
  PROVE  /\ Watch(Install(s, recs))
         /\ DOMAIN Install(s, recs).members = DOMAIN s.members \cup DOMAIN recs
         /\ \A x \in DOMAIN recs : Install(s, recs).members[x] = recs[x]
         /\ \A x \in DOMAIN s.members \ DOMAIN recs :
              Install(s, recs).members[x] = s.members[x]
<1> DEFINE t == Install(s, recs)
           new(x) == [old |-> Now(s, x), new |-> recs[x].state]
           logs == [x \in Node |-> IF x \in DOMAIN recs THEN Append(s.log[x], new(x))
                                   ELSE s.log[x]]
<1>1. DOMAIN s = {"members", "inc", "probe", "counter", "helps", "backlog", "log", "seen"}
  BY Zenon DEF Watch, Shape
<1>2. /\ DOMAIN t = DOMAIN s /\ t.members = Merge(s.members, recs)
      /\ t.seen = s.seen /\ t.log = logs
  BY Zenon, <1>1 DEF Install, Now
<1>3. /\ DOMAIN t.members = DOMAIN s.members \cup DOMAIN recs
      /\ \A x \in DOMAIN recs : t.members[x] = recs[x]
      /\ \A x \in DOMAIN s.members \ DOMAIN recs : t.members[x] = s.members[x]
  BY Zenon, <1>2 DEF Merge
<1>4. s.log \in [Node -> Seq(Change)]
  BY Zenon DEF Watch, Shape
<1>5. ASSUME NEW x PROVE Now(s, x) \in Nat
  BY Zenon DEF Watch, Shape, Now, Absent
<1>6. ASSUME NEW x \in Node, x \in DOMAIN recs PROVE new(x) \in Change
  BY Zenon, <1>5, <1>6 DEF Change
<1> HIDE DEF t
<1>7. ASSUME NEW x \in Node PROVE logs[x] \in Seq(Change)
  BY <1>4, <1>6
<1>8. t.log \in [Node -> Seq(Change)]
  BY Zenon, <1>2, <1>7
<1>9. \A x \in DOMAIN t.members : t.members[x].inc \in Nat /\ t.members[x].state \in Nat
  BY Zenon, <1>3 DEF Watch, Shape
<1>10. ASSUME NEW x \in Node PROVE Chain(t.log[x], t.seen[x], Now(t, x))
  <2>1. Chain(s.log[x], s.seen[x], Now(s, x)) /\ s.log[x] \in Seq(Change)
    BY Zenon, <1>4 DEF Watch
  <2>2. CASE x \in DOMAIN recs
    <3>1. t.log[x] = Append(s.log[x], [old |-> Now(s, x), new |-> recs[x].state])
      BY Zenon, <1>2, <2>2
    <3>2. Now(t, x) = recs[x].state /\ recs[x].state \in Nat
      BY Zenon, <1>3, <2>2 DEF Now
    <3> QED BY <1>2, <1>5, <2>1, <3>1, <3>2, ChainAppend
  <2>3. CASE x \notin DOMAIN recs
    <3>1. t.log[x] = s.log[x]
      BY Zenon, <1>2, <2>3
    <3>2. Now(t, x) = Now(s, x)
      BY Zenon, <1>3, <2>3 DEF Now
    <3> QED BY Zenon, <1>2, <2>1, <3>1, <3>2
  <2> QED BY Zenon, <2>2, <2>3
<1>11. Watch(t)
  BY Zenon, <1>1, <1>2, <1>8, <1>9, <1>10 DEF Watch, Shape
<1> QED BY Zenon, <1>3, <1>11 DEF t

\* A change of the other fields
LEMMA WatchSame ==
  ASSUME NEW s, Watch(s), NEW t, DOMAIN t = DOMAIN s,
         t.members = s.members, t.log = s.log, t.seen = s.seen
  PROVE  Watch(t)
<1>1. \A x : Now(t, x) = Now(s, x)
  BY Zenon DEF Now
<1> QED BY Zenon, <1>1 DEF Watch, Shape

\* A step of a view after another
LEMMA GrownTrans ==
  ASSUME NEW n, NEW s, NEW t, NEW u, Watch(s), Watch(t), Watch(u), Grown(n, s, t), Grown(n, t, u)
  PROVE  Grown(n, s, u)
<1> SUFFICES ASSUME NEW x \in DOMAIN s.members \ {n}
             PROVE  x \in DOMAIN u.members /\ Later(s.members[x], u.members[x])
  BY Zenon DEF Grown
<1>1. x \in DOMAIN t.members /\ Later(s.members[x], t.members[x])
  BY Zenon DEF Grown
<1>2. x \in DOMAIN u.members /\ Later(t.members[x], u.members[x])
  BY Zenon, <1>1 DEF Grown
<1>3. /\ s.members[x].inc \in Nat /\ s.members[x].state \in Nat
      /\ t.members[x].inc \in Nat /\ t.members[x].state \in Nat
      /\ u.members[x].inc \in Nat /\ u.members[x].state \in Nat
  BY Zenon, <1>1, <1>2 DEF Watch, Shape
<1> QED BY <1>1, <1>2, <1>3 DEF Later

\* A view that stays
LEMMA GrownSame ==
  ASSUME NEW n, NEW s, Watch(s), NEW t, t.members = s.members
  PROVE  Grown(n, s, t)
<1>1. \A x \in DOMAIN s.members : s.members[x].inc \in Nat /\ s.members[x].state \in Nat
  BY Zenon DEF Watch, Shape
<1> QED BY <1>1 DEF Grown, Later

\* Records that are later than those they replace
LEMMA GrownInstall ==
  ASSUME NEW n, NEW s, Watch(s), NEW recs,
         \A x \in DOMAIN recs : recs[x].inc \in Nat /\ recs[x].state \in Nat,
         \A x \in (DOMAIN recs \cap DOMAIN s.members) \ {n} : Later(s.members[x], recs[x])
  PROVE  Watch(Install(s, recs)) /\ Grown(n, s, Install(s, recs))
<1> DEFINE t == Install(s, recs)
<1>1. /\ Watch(t) /\ DOMAIN t.members = DOMAIN s.members \cup DOMAIN recs
      /\ \A x \in DOMAIN recs : t.members[x] = recs[x]
      /\ \A x \in DOMAIN s.members \ DOMAIN recs : t.members[x] = s.members[x]
  BY WatchInstall
<1> HIDE DEF t
<1>2. \A x \in DOMAIN s.members : s.members[x].inc \in Nat /\ s.members[x].state \in Nat
  BY Zenon DEF Watch, Shape
<1>3. ASSUME NEW x \in DOMAIN s.members \ {n}
      PROVE  x \in DOMAIN t.members /\ Later(s.members[x], t.members[x])
  <2>1. CASE x \in DOMAIN recs
    BY Zenon, <1>1, <2>1
  <2>2. CASE x \notin DOMAIN recs
    BY <1>1, <1>2, <2>2 DEF Later
  <2> QED BY Zenon, <2>1, <2>2
<1> QED BY Zenon, <1>1, <1>3 DEF Grown, t

\* _mark_suspect makes a view more severe.
LEMMA WatchSuspect ==
  ASSUME NEW n, NEW s, Watch(s), NEW targets, targets \subseteq DOMAIN s.members
  PROVE  Watch(MarkSuspect(s, targets)) /\ Grown(n, s, MarkSuspect(s, targets))
<1> DEFINE D == {y \in targets : s.members[y].state = ALIVE}
           recs == [x \in D |-> Record(SUSPECT, s.members[x].inc, s.members[x].model)]
<1>1. MarkSuspect(s, targets) = Install(s, recs)
  BY Zenon DEF MarkSuspect
<1>2. ASSUME NEW x \in DOMAIN recs
      PROVE  /\ recs[x].inc \in Nat /\ recs[x].state \in Nat
             /\ Later(s.members[x], recs[x])
  <2>1. /\ s.members[x].inc \in Nat /\ s.members[x].state = ALIVE
        /\ recs[x] = Record(SUSPECT, s.members[x].inc, s.members[x].model)
    BY Zenon DEF Watch, Shape
  <2>2. recs[x].inc = s.members[x].inc /\ recs[x].state = SUSPECT
    BY <2>1, RecordFields
  <2> QED BY <2>1, <2>2 DEF Later, ALIVE, SUSPECT
<1> HIDE DEF recs
<1> QED BY Zenon, <1>1, <1>2, GrownInstall

\* _maybe_apply_peer_delta replaces a record by a later one only.
LEMMA WatchDeltas ==
  ASSUME NEW n, NEW s, Watch(s), NEW deltas \in MemberDict
  PROVE  /\ Watch(ApplyPeerDeltas(n, s, deltas))
         /\ Grown(n, s, ApplyPeerDeltas(n, s, deltas))
         /\ DOMAIN ApplyPeerDeltas(n, s, deltas).members = DOMAIN s.members
<1> DEFINE D == {y \in (DOMAIN deltas \cap DOMAIN s.members) \ {n} :
                   /\ Admit(n, deltas[y])
                   /\ Supersedes(deltas[y], s.members[y])}
           recs == [x \in D |-> Record(deltas[x].state, deltas[x].inc, deltas[x].model)]
<1>1. ApplyPeerDeltas(n, s, deltas) = Install(s, recs)
  BY Zenon DEF ApplyPeerDeltas
<1>2. ASSUME NEW x \in DOMAIN recs
      PROVE  /\ recs[x].inc \in Nat /\ recs[x].state \in Nat
             /\ Later(s.members[x], recs[x])
  <2>1. /\ s.members[x].inc \in Nat /\ s.members[x].state \in Nat
        /\ Supersedes(deltas[x], s.members[x]) /\ x \in DOMAIN deltas
        /\ recs[x] = Record(deltas[x].state, deltas[x].inc, deltas[x].model)
    BY Zenon DEF Watch, Shape
  <2>2. deltas[x].inc \in Nat /\ deltas[x].state \in Nat
    <3>1. deltas[x] \in MemberRecord
      BY Zenon, <2>1, DictElim
    <3> QED BY <3>1, ConstantsAssumption DEF MemberRecord, State, ALIVE, SUSPECT, DEAD
  <2>3. recs[x].inc = deltas[x].inc /\ recs[x].state = deltas[x].state
    BY <2>1, RecordFields
  <2> HIDE DEF recs
  <2> QED BY <2>1, <2>2, <2>3 DEF Later, Supersedes
<1>3. DOMAIN recs \subseteq DOMAIN s.members
  BY Zenon
<1> HIDE DEF recs
<1>4. DOMAIN Install(s, recs).members = DOMAIN s.members \cup DOMAIN recs
  BY Zenon, <1>2, WatchInstall
<1> QED BY Zenon, <1>1, <1>2, <1>3, <1>4, GrownInstall

\* _maybe_refute changes the own record only.
LEMMA WatchRefute ==
  ASSUME NEW n, NEW s, Watch(s), NEW deltas \in MemberDict
  PROVE  Watch(Refute(n, s, deltas)) /\ Grown(n, s, Refute(n, s, deltas))
<1>1. CASE ~(n \in DOMAIN deltas /\ deltas[n].state # ALIVE /\ deltas[n].inc >= s.inc)
  <2>1. Refute(n, s, deltas) = s
    BY Zenon, <1>1 DEF Refute
  <2> QED BY Zenon, <2>1, GrownSame
<1>2. CASE n \in DOMAIN deltas /\ deltas[n].state # ALIVE /\ deltas[n].inc >= s.inc
  <2> DEFINE i == deltas[n].inc + 1
             s1 == [s EXCEPT !.inc = i]
             recs == [x \in {n} |-> Record(ALIVE, i, s.members[n].model)]
  <2>1. Refute(n, s, deltas) = Install(s1, recs)
    BY Zenon, <1>2 DEF Refute
  <2>2. DOMAIN s1 = DOMAIN s /\ s1.members = s.members /\ s1.log = s.log /\ s1.seen = s.seen
    BY Zenon DEF Watch, Shape
  <2>3. i \in Nat
    <3>1. deltas[n] \in MemberRecord
      BY Zenon, <1>2, DictElim
    <3> QED BY <3>1, ConstantsAssumption DEF MemberRecord
  <2> HIDE DEF i
  <2>4. ASSUME NEW x \in DOMAIN recs
        PROVE  recs[x].inc \in Nat /\ recs[x].state \in Nat /\ x = n
    <3>1. recs[x] = Record(ALIVE, i, s.members[n].model) /\ x = n
      BY Zenon
    <3>2. recs[x].inc = i /\ recs[x].state = ALIVE
      BY <3>1, RecordFields
    <3> QED BY <2>3, <3>1, <3>2 DEF ALIVE
  <2> HIDE DEF s1, recs
  <2>5. Watch(s1) /\ Grown(n, s, s1)
    BY Zenon, <2>2, WatchSame, GrownSame
  <2>6. Watch(Install(s1, recs)) /\ Grown(n, s1, Install(s1, recs))
    BY Zenon, <2>4, <2>5, GrownInstall
  <2> QED BY Zenon, <2>1, <2>5, <2>6, GrownTrans
<1> QED BY Zenon, <1>1, <1>2

\* _apply_deltas
LEMMA WatchApply ==
  ASSUME NEW n, NEW s, Watch(s), NEW deltas \in MemberDict
  PROVE  Watch(ApplyDeltas(n, s, deltas)) /\ Grown(n, s, ApplyDeltas(n, s, deltas))
<1> DEFINE t == ApplyPeerDeltas(n, s, deltas)
<1>1. Watch(t) /\ Grown(n, s, t)
  BY Zenon, WatchDeltas
<1>2. ApplyDeltas(n, s, deltas) = Refute(n, t, deltas)
  BY Zenon DEF ApplyDeltas
<1> HIDE DEF t
<1> QED BY Zenon, <1>1, <1>2, WatchRefute, GrownTrans

\* The timers of a tick turn suspects into dead.
LEMMA WatchTimers ==
  ASSUME NEW n, NEW s, Watch(s), NEW gone, NEW late, NEW dead \in SUBSET Suspects(s)
  PROVE  Watch(AfterTimers(s, gone, late, dead)) /\ Grown(n, s, AfterTimers(s, gone, late, dead))
<1> DEFINE s1 == [s EXCEPT !.backlog = [x \in DOMAIN @ \ gone |-> @[x]], !.helps = @ \ late]
           recs == [x \in dead |-> Record(DEAD, s.members[x].inc, s.members[x].model)]
<1>1. AfterTimers(s, gone, late, dead) = Install(s1, recs)
  BY Zenon DEF AfterTimers
<1>2. DOMAIN s1 = DOMAIN s /\ s1.members = s.members /\ s1.log = s.log /\ s1.seen = s.seen
  BY Zenon DEF Watch, Shape
<1>3. ASSUME NEW x \in DOMAIN recs
      PROVE  /\ recs[x].inc \in Nat /\ recs[x].state \in Nat
             /\ Later(s.members[x], recs[x])
  <2>1. /\ s.members[x].inc \in Nat /\ s.members[x].state = SUSPECT
        /\ recs[x] = Record(DEAD, s.members[x].inc, s.members[x].model)
    BY Zenon DEF Watch, Shape, Suspects
  <2>2. recs[x].inc = s.members[x].inc /\ recs[x].state = DEAD
    BY <2>1, RecordFields
  <2> QED BY <2>1, <2>2 DEF Later, DEAD, SUSPECT
<1> HIDE DEF s1, recs
<1>4. Watch(s1) /\ Grown(n, s, s1)
  BY Zenon, <1>2, WatchSame, GrownSame
<1>5. Watch(Install(s1, recs)) /\ Grown(n, s1, Install(s1, recs))
  BY Zenon, <1>2, <1>3, <1>4, GrownInstall
<1> QED BY Zenon, <1>1, <1>4, <1>5, GrownTrans

\* The end of a protocol period
LEMMA WatchPeriod ==
  ASSUME NEW n, NEW s, Watch(s), \A p \in s.probe : p.target \in DOMAIN s.members
  PROVE  Watch(EndPeriod(s)) /\ Grown(n, s, EndPeriod(s))
<1> DEFINE s1 == [s EXCEPT !.probe = {}]
           targets == {p.target : p \in {q \in s.probe : q.indirect /\ ~q.success}}
<1>1. EndPeriod(s) = MarkSuspect(s1, targets)
  BY Zenon DEF EndPeriod
<1>2. DOMAIN s1 = DOMAIN s /\ s1.members = s.members /\ s1.log = s.log /\ s1.seen = s.seen
  BY Zenon DEF Watch, Shape
<1>3. targets \subseteq DOMAIN s.members
  BY Zenon
<1> HIDE DEF s1, targets
<1>4. Watch(s1) /\ Grown(n, s, s1)
  BY Zenon, <1>2, WatchSame, GrownSame
<1>5. Watch(MarkSuspect(s1, targets)) /\ Grown(n, s1, MarkSuspect(s1, targets))
  BY Zenon, <1>2, <1>3, <1>4, WatchSuspect
<1> QED BY Zenon, <1>1, <1>4, <1>5, GrownTrans

\* _maybe_promote_sender_alive makes the sender's record less severe, but never
\* of a lower incarnation, and leaves the others alone.
Lifted(n, s, t, from) ==
  \A x \in DOMAIN s.members \ {n} :
    /\ x \in DOMAIN t.members /\ t.members[x].inc >= s.members[x].inc
    /\ x # from => Later(s.members[x], t.members[x])

LEMMA WatchPromote ==
  ASSUME NEW n, NEW s, Watch(s), NEW from, NEW inc \in Nat
  PROVE  /\ Watch(PromoteSenderAlive(n, s, from, inc))
         /\ Lifted(n, s, PromoteSenderAlive(n, s, from, inc), from)
<1> DEFINE D == {y \in {from} \cap DOMAIN s.members : y # n /\ s.members[y].state # ALIVE}
           recs == [x \in D |-> Record(ALIVE, Max(s.members[x].inc, inc), s.members[x].model)]
           t == Install(s, recs)
<1>0. \A x \in DOMAIN s.members : s.members[x].inc \in Nat /\ s.members[x].state \in Nat
  BY Zenon DEF Watch, Shape
<1>1. PromoteSenderAlive(n, s, from, inc) = t
  BY Zenon DEF PromoteSenderAlive
<1>2. ASSUME NEW x \in DOMAIN recs
      PROVE  /\ recs[x].inc \in Nat /\ recs[x].state \in Nat
             /\ x = from /\ recs[x].inc >= s.members[x].inc
  <2>1. /\ s.members[x].inc \in Nat /\ x = from
        /\ recs[x] = Record(ALIVE, Max(s.members[x].inc, inc), s.members[x].model)
    BY Zenon, <1>0
  <2>2. recs[x].inc = Max(s.members[x].inc, inc) /\ recs[x].state = ALIVE
    BY <2>1, RecordFields
  <2> HIDE DEF recs
  <2> QED BY <2>1, <2>2 DEF Max, ALIVE
<1> HIDE DEF recs
<1>3. /\ Watch(t) /\ DOMAIN t.members = DOMAIN s.members \cup DOMAIN recs
      /\ \A x \in DOMAIN recs : t.members[x] = recs[x]
      /\ \A x \in DOMAIN s.members \ DOMAIN recs : t.members[x] = s.members[x]
  BY <1>2, WatchInstall
<1> HIDE DEF t
<1>4. ASSUME NEW x \in DOMAIN s.members \ {n}
      PROVE  /\ x \in DOMAIN t.members /\ t.members[x].inc >= s.members[x].inc
             /\ x # from => Later(s.members[x], t.members[x])
  <2>1. CASE x \in DOMAIN recs
    BY Zenon, <1>2, <1>3, <2>1
  <2>2. CASE x \notin DOMAIN recs
    BY <1>0, <1>3, <2>2 DEF Later
  <2> QED BY Zenon, <2>1, <2>2
<1> QED BY Zenon, <1>1, <1>3, <1>4 DEF Lifted

\* A handler that promotes the sender and then applies deltas
LEMMA LiftedGrown ==
  ASSUME NEW n, NEW s, NEW t, NEW u, Watch(s), Watch(t), Watch(u), NEW from,
         Lifted(n, s, t, from), Grown(n, t, u)
  PROVE  Lifted(n, s, u, from)
<1> SUFFICES ASSUME NEW x \in DOMAIN s.members \ {n}
             PROVE  /\ x \in DOMAIN u.members /\ u.members[x].inc >= s.members[x].inc
                    /\ x # from => Later(s.members[x], u.members[x])
  BY Zenon DEF Lifted
<1>1. /\ x \in DOMAIN t.members /\ t.members[x].inc >= s.members[x].inc
      /\ x # from => Later(s.members[x], t.members[x])
  BY Zenon DEF Lifted
<1>2. x \in DOMAIN u.members /\ Later(t.members[x], u.members[x])
  BY Zenon, <1>1 DEF Grown
<1>3. /\ s.members[x].inc \in Nat /\ s.members[x].state \in Nat
      /\ t.members[x].inc \in Nat /\ t.members[x].state \in Nat
      /\ u.members[x].inc \in Nat /\ u.members[x].state \in Nat
  BY Zenon, <1>1, <1>2 DEF Watch, Shape
<1> QED BY <1>1, <1>2, <1>3 DEF Later

\* What RevivalIsFirstHand asks of one node when its local state becomes t, and
\* of a step
Heeds(n, t) ==
  \A x \in DOMAIN node[n].members \ {n} :
    LET old == node[n].members[x]
        new == t.members[x]
        heard(types) == \E m \in net : /\ m.from = x /\ m.to = n
                                       /\ m.type \in types
    IN /\ new.inc = old.inc /\ new.state < old.state =>
            heard({"Ping", "Ack", "Join"})
       /\ new.inc < old.inc => heard({"Join"}) /\ old.state # DEAD
FirstHand == \A n \in up \cap up' : Heeds(n, node'[n])

\* A view whose records are followed by later ones owes nobody an answer.
LEMMA GrownHeeds ==
  ASSUME NEW n, NEW t, Watch(node[n]), Watch(t), Grown(n, node[n], t)
  PROVE  Heeds(n, t)
<1> SUFFICES ASSUME NEW x \in DOMAIN node[n].members \ {n}
             PROVE  LET old == node[n].members[x]
                        new == t.members[x]
                    IN ~(new.inc = old.inc /\ new.state < old.state) /\ ~(new.inc < old.inc)
  BY Zenon DEF Heeds
<1>1. x \in DOMAIN t.members /\ Later(node[n].members[x], t.members[x])
  BY Zenon DEF Grown
<1>2. /\ node[n].members[x].inc \in Nat /\ node[n].members[x].state \in Nat
      /\ t.members[x].inc \in Nat /\ t.members[x].state \in Nat
  BY Zenon, <1>1 DEF Watch, Shape
<1> QED BY <1>1, <1>2 DEF Later

\* Neither does one that only its correspondent makes less severe.
LEMMA LiftedHeeds ==
  ASSUME NEW n, NEW t, Watch(node[n]), Watch(t), NEW m \in net, m.to = n,
         m.type \in {"Ping", "Ack"}, Lifted(n, node[n], t, m.from)
  PROVE  Heeds(n, t)
<1> SUFFICES ASSUME NEW x \in DOMAIN node[n].members \ {n}
             PROVE  LET old == node[n].members[x]
                        new == t.members[x]
                    IN /\ new.inc = old.inc /\ new.state < old.state => m.from = x
                       /\ ~(new.inc < old.inc)
  BY DEF Heeds
<1>1. /\ x \in DOMAIN t.members /\ t.members[x].inc >= node[n].members[x].inc
      /\ x # m.from => Later(node[n].members[x], t.members[x])
  BY Zenon DEF Lifted
<1>2. /\ node[n].members[x].inc \in Nat /\ node[n].members[x].state \in Nat
      /\ t.members[x].inc \in Nat /\ t.members[x].state \in Nat
  BY Zenon, <1>1 DEF Watch, Shape
<1> QED BY <1>1, <1>2 DEF Later

\* A step of one node
LEMMA WatchStep ==
  ASSUME IInv, WatchInv, NEW n \in Node, NEW t, node' = [node EXCEPT ![n] = t],
         Watch(t), n \in up => Heeds(n, t)
  PROVE  WatchInv' /\ FirstHand
<1>1. node \in [Node -> LocalState] /\ up \subseteq Node
  BY Zenon DEF IInv, TypeOK
<1>2. node'[n] = t /\ \A x \in Node \ {n} : node'[x] = node[x]
  BY Zenon, <1>1
<1>3. ASSUME NEW x \in Node
      PROVE  Watch(node'[x]) /\ (x \in up => Heeds(x, node'[x]))
  <2>1. CASE x = n
    BY Zenon, <1>2, <2>1
  <2>2. CASE x # n
    <3>1. node'[x] = node[x] /\ Watch(node[x])
      BY Zenon, <1>2, <2>2 DEF WatchInv
    <3>2. Grown(x, node[x], node[x])
      BY Zenon, <3>1, GrownSame
    <3> QED BY Zenon, <3>1, <3>2, GrownHeeds
  <2> QED BY Zenon, <2>1, <2>2
<1>4. WatchInv'
  BY <1>3 DEF WatchInv, Watch, Shape, Chain, Now
<1> QED BY Zenon, <1>1, <1>3, <1>4 DEF FirstHand

\* A step that makes the view of one node later
LEMMA WatchGrown ==
  ASSUME IInv, WatchInv, NEW n \in Node, NEW t, node' = [node EXCEPT ![n] = t],
         Watch(t), Grown(n, node[n], t)
  PROVE  WatchInv' /\ FirstHand
<1>1. Watch(node[n])
  BY Zenon DEF WatchInv
<1> QED BY Zenon, <1>1, GrownHeeds, WatchStep

\* A step that leaves every view alone
LEMMA WatchQuiet ==
  ASSUME IInv, WatchInv, UNCHANGED node
  PROVE  WatchInv' /\ FirstHand
<1>1. ASSUME NEW x \in Node
      PROVE  Watch(node[x]) /\ Heeds(x, node[x])
  <2>1. Watch(node[x])
    BY Zenon DEF WatchInv
  <2> QED BY Zenon, <2>1, GrownSame, GrownHeeds
<1>2. up \subseteq Node
  BY Zenon DEF IInv, TypeOK
<1>3. WatchInv'
  BY DEF WatchInv, Watch, Shape, Chain, Now
<1> QED BY Zenon, <1>1, <1>2, <1>3 DEF FirstHand

\* What a handler starts from
LEMMA WatchFacts ==
  ASSUME IInv, WatchInv, NEW n \in Node
  PROVE  /\ Watch(node[n]) /\ LocalInv(n, node[n], issued) /\ node[n] \in LocalState
         /\ \A p \in node[n].probe : p.target \in DOMAIN node[n].members
         /\ \A t, out, m : Receive(n, m, t, out) => node' = [node EXCEPT ![n] = t]
         /\ \A t, out : Emit(n, t, out) => node' = [node EXCEPT ![n] = t]
<1>1. Watch(node[n]) /\ LocalInv(n, node[n], issued)
  BY Zenon DEF WatchInv, IInv
<1> QED BY Zenon, <1>1 DEF LocalInv, Receive, Emit, Become

\* _handle_ping
LEMMA RecvPingWatch ==
  ASSUME IInv, WatchInv, NEW n \in Node, NEW m \in net, m.to = n, RecvPing(n, m)
  PROVE  WatchInv' /\ FirstHand
<1> DEFINE s == node[n]
           s0 == PromoteSenderAlive(n, s, m.from, m.inc)
           s1 == ApplyDeltas(n, s0, m.deltas)
<1>1. m.type = "Ping" /\ m.inc \in 0..MaxInc /\ m.deltas \in MemberDict
  BY Zenon, ReceiveFacts DEF RecvPing
<1>2. m.inc \in Nat
  BY <1>1, ConstantsAssumption
<1>3. Watch(s)
  BY Zenon, WatchFacts
<1>4. node' = [node EXCEPT ![n] = s] \/ node' = [node EXCEPT ![n] = s1]
  BY Zenon, WatchFacts DEF RecvPing
<1>5. Watch(s0) /\ Lifted(n, s, s0, m.from)
  BY Zenon, <1>2, <1>3, WatchPromote
<1> HIDE DEF s0
<1>6. Watch(s1) /\ Grown(n, s0, s1)
  BY Zenon, <1>1, <1>5, WatchApply
<1> HIDE DEF s1
<1>7. Lifted(n, s, s1, m.from)
  BY Zenon, <1>3, <1>5, <1>6, LiftedGrown
<1>8. Heeds(n, s1)
  BY Zenon, <1>1, <1>3, <1>6, <1>7, LiftedHeeds
<1>9. Grown(n, s, s)
  BY Zenon, <1>3, GrownSame
<1> QED BY <1>3, <1>4, <1>6, <1>8, <1>9, WatchStep, WatchGrown

\* _handle_ack
LEMMA RecvAckWatch ==
  ASSUME IInv, WatchInv, NEW n \in Node, NEW m \in net, m.to = n, RecvAck(n, m)
  PROVE  WatchInv' /\ FirstHand
<1> DEFINE s == [node[n] EXCEPT !.probe = {p \in @ : p.target # m.from}]
           s0 == PromoteSenderAlive(n, s, m.from, m.inc)
           s1 == ApplyDeltas(n, s0, m.deltas)
           helped == {h \in s.helps : h.target = m.from}
           t == [s1 EXCEPT !.helps = @ \ helped]
           out == {PingReqAck(n, h, TRUE) : h \in helped}
<1>1. m.type = "Ack" /\ m.inc \in 0..MaxInc /\ m.deltas \in MemberDict
  BY Zenon, ReceiveFacts DEF RecvAck
<1>2. m.inc \in Nat
  BY <1>1, ConstantsAssumption
<1>3. Watch(node[n])
  BY Zenon, WatchFacts
<1>4. node' = [node EXCEPT ![n] = t]
  <2>1. Receive(n, m, t, out)
    BY Zenon DEF RecvAck
  <2> HIDE DEF t, out
  <2> QED BY Zenon, <2>1, WatchFacts
<1>5. /\ DOMAIN s = DOMAIN node[n] /\ s.members = node[n].members
      /\ s.log = node[n].log /\ s.seen = node[n].seen
  BY Zenon, <1>3 DEF Watch, Shape
<1> HIDE DEF s, helped
<1>6. Watch(s)
  BY Zenon, <1>3, <1>5, WatchSame
<1>7. Watch(s0) /\ Lifted(n, s, s0, m.from)
  BY Zenon, <1>2, <1>6, WatchPromote
<1> HIDE DEF s0
<1>8. Watch(s1) /\ Grown(n, s0, s1)
  BY Zenon, <1>1, <1>7, WatchApply
<1> HIDE DEF s1
<1>9. Lifted(n, s, s1, m.from)
  BY Zenon, <1>6, <1>7, <1>8, LiftedGrown
<1>10. DOMAIN t = DOMAIN s1 /\ t.members = s1.members /\ t.log = s1.log /\ t.seen = s1.seen
  BY Zenon, <1>8 DEF Watch, Shape
<1> HIDE DEF t
<1>11. Watch(t)
  BY Zenon, <1>8, <1>10, WatchSame
<1>12. Lifted(n, node[n], t, m.from)
  BY Zenon, <1>5, <1>9, <1>10 DEF Lifted
<1>13. Heeds(n, t)
  BY Zenon, <1>1, <1>3, <1>11, <1>12, LiftedHeeds
<1> QED BY Zenon, <1>4, <1>11, <1>13, WatchStep

\* _handle_pingreq
LEMMA RecvPingReqWatch ==
  ASSUME IInv, WatchInv, NEW n \in Node, NEW m \in net, RecvPingReq(n, m)
  PROVE  WatchInv' /\ FirstHand
<1> DEFINE s == node[n]
           help == [id |-> m.id, target |-> m.target, requester |-> m.from]
           t == [s EXCEPT !.helps = @ \cup {help}]
<1>1. Watch(s)
  BY Zenon, WatchFacts
<1>2. node' = [node EXCEPT ![n] = s] \/ node' = [node EXCEPT ![n] = t]
  BY Zenon, WatchFacts DEF RecvPingReq
<1>3. DOMAIN t = DOMAIN s /\ t.members = s.members /\ t.log = s.log /\ t.seen = s.seen
  BY Zenon, <1>1 DEF Watch, Shape
<1> HIDE DEF t
<1>4. Watch(t) /\ Grown(n, s, t) /\ Grown(n, s, s)
  BY Zenon, <1>1, <1>3, WatchSame, GrownSame
<1> QED BY Zenon, <1>1, <1>2, <1>4, WatchGrown

\* _handle_pingreqack
LEMMA RecvPingReqAckWatch ==
  ASSUME IInv, WatchInv, NEW n \in Node, NEW m \in net, RecvPingReqAck(n, m)
  PROVE  WatchInv' /\ FirstHand
<1> DEFINE s == node[n]
           clear == [s EXCEPT !.probe = {}]
           counted(p) == [s EXCEPT !.probe = {[p EXCEPT !.acks = @ + 1]}]
<1>1. Watch(s) /\ \A p \in s.probe : p.target \in DOMAIN s.members
  BY Zenon, WatchFacts
<1>2. Grown(n, s, s)
  BY Zenon, <1>1, GrownSame
<1>3. \/ node' = [node EXCEPT ![n] = s]
      \/ node' = [node EXCEPT ![n] = clear]
      \/ \E p \in s.probe : \/ node' = [node EXCEPT ![n] = MarkSuspect(clear, {p.target})]
                            \/ node' = [node EXCEPT ![n] = counted(p)]
  BY Zenon, WatchFacts DEF RecvPingReqAck
<1>4. /\ DOMAIN clear = DOMAIN s /\ clear.members = s.members
      /\ clear.log = s.log /\ clear.seen = s.seen
  BY Zenon, <1>1 DEF Watch, Shape
<1>5. ASSUME NEW p
      PROVE  /\ DOMAIN counted(p) = DOMAIN s /\ counted(p).members = s.members
             /\ counted(p).log = s.log /\ counted(p).seen = s.seen
  BY Zenon, <1>1 DEF Watch, Shape
<1> HIDE DEF clear, counted
<1>6. Watch(clear) /\ Grown(n, s, clear)
  BY Zenon, <1>1, <1>4, WatchSame, GrownSame
<1>7. ASSUME NEW p
      PROVE  Watch(counted(p)) /\ Grown(n, s, counted(p))
  BY Zenon, <1>1, <1>5, WatchSame, GrownSame
<1>8. ASSUME NEW p \in s.probe
      PROVE  /\ Watch(MarkSuspect(clear, {p.target}))
             /\ Grown(n, s, MarkSuspect(clear, {p.target}))
  <2>1. {p.target} \subseteq DOMAIN clear.members
    BY Zenon, <1>1, <1>4
  <2>2. /\ Watch(MarkSuspect(clear, {p.target}))
        /\ Grown(n, clear, MarkSuspect(clear, {p.target}))
    BY Zenon, <1>6, <2>1, WatchSuspect
  <2> QED BY Zenon, <1>1, <1>6, <2>2, GrownTrans
<1> QED BY Zenon, <1>1, <1>2, <1>3, <1>6, <1>7, <1>8, WatchGrown

\* _handle_join: the record of the newcomer may be of a lower incarnation than
\* the one it replaces, unless that one is DEAD.
LEMMA RecvJoinWatch ==
  ASSUME IInv, WatchInv, NEW n \in Node, NEW m \in net, m.to = n, RecvJoin(n, m)
  PROVE  WatchInv' /\ FirstHand
<1> DEFINE s == node[n]
           floor == /\ m.from \in DOMAIN s.members
                    /\ s.members[m.from].state = DEAD
                    /\ s.members[m.from].inc > m.rec.inc
           recs == [x \in {m.from} |-> m.rec]
           t == Install(s, recs)
           answer(u) == {MembershipDelta(n, m.from, u.members)}
<1>1. m.type = "Join" /\ m.rec.inc \in Nat /\ m.rec.state \in Nat
  <2>1. m \in Message /\ m.type = "Join" /\ MessageInv(m, issued)
    BY Zenon, ReceiveFacts DEF RecvJoin
  <2> QED BY <2>1 DEF MessageInv, ALIVE
<1>2. Watch(s) /\ Grown(n, s, s)
  BY Zenon, WatchFacts, GrownSame
<1>3. node' = [node EXCEPT ![n] = s] \/ (~floor /\ node' = [node EXCEPT ![n] = t])
  <2>1. \/ Receive(n, m, s, {})
        \/ Receive(n, m, IF floor THEN s ELSE t, answer(IF floor THEN s ELSE t))
    BY Zenon DEF RecvJoin
  <2>2. node' = [node EXCEPT ![n] = s] \/ node' = [node EXCEPT ![n] = IF floor THEN s ELSE t]
    <3> HIDE DEF s, t, floor, answer
    <3> QED BY Zenon, <2>1, WatchFacts
  <2> HIDE DEF s, t, floor
  <2> QED BY Zenon, <2>2
<1>4. /\ DOMAIN recs = {m.from} /\ recs[m.from] = m.rec
      /\ \A x \in DOMAIN recs : recs[x].inc \in Nat /\ recs[x].state \in Nat
  BY Zenon, <1>1
<1> HIDE DEF recs
<1>5. /\ Watch(t) /\ t.members[m.from] = m.rec
      /\ \A x \in DOMAIN s.members \ {m.from} : t.members[x] = s.members[x]
  BY <1>2, <1>4, WatchInstall
<1> HIDE DEF t
<1>6. ASSUME ~floor
      PROVE  Heeds(n, t)
  <2> SUFFICES ASSUME NEW x \in DOMAIN s.members \ {n}
               PROVE  LET old == s.members[x]
                          new == t.members[x]
                      IN /\ new.inc = old.inc /\ new.state < old.state => m.from = x
                         /\ new.inc < old.inc => m.from = x /\ old.state # DEAD
    BY Zenon, <1>1 DEF Heeds
  <2>1. s.members[x].inc \in Nat /\ s.members[x].state \in Nat
    BY Zenon, <1>2 DEF Watch, Shape
  <2>2. CASE x = m.from
    BY Zenon, <1>1, <1>5, <1>6, <2>1, <2>2
  <2>3. CASE x # m.from
    BY <1>5, <2>1, <2>3
  <2> QED BY Zenon, <2>2, <2>3
<1> HIDE DEF floor
<1> QED BY Zenon, <1>2, <1>3, <1>5, <1>6, WatchStep, WatchGrown

\* _handle_delta
LEMMA RecvMembershipDeltaWatch ==
  ASSUME IInv, WatchInv, NEW n \in Node, NEW m \in net, RecvMembershipDelta(n, m)
  PROVE  WatchInv' /\ FirstHand
<1> DEFINE s == node[n]
           new == {x \in DOMAIN m.deltas \ DOMAIN s.members :
                     x # n /\ Admit(n, m.deltas[x])}
           recs == [x \in new |-> m.deltas[x]]
           s0 == ApplyPeerDeltas(n, s, m.deltas)
           s1 == Install(s0, recs)
           t == Refute(n, s1, m.deltas)
<1>1. m.deltas \in MemberDict
  BY Zenon, ReceiveFacts DEF RecvMembershipDelta
<1>2. Watch(s)
  BY Zenon, WatchFacts
<1>3. node' = [node EXCEPT ![n] = t]
  <2>1. Receive(n, m, t, {})
    BY Zenon DEF RecvMembershipDelta
  <2> HIDE DEF t
  <2> QED BY Zenon, <2>1, WatchFacts
<1>4. Watch(s0) /\ Grown(n, s, s0) /\ DOMAIN s0.members = DOMAIN s.members
  BY Zenon, <1>1, <1>2, WatchDeltas
<1>5. DOMAIN recs \cap DOMAIN s.members = {}
  BY Zenon
<1>6. ASSUME NEW x \in DOMAIN recs
      PROVE  recs[x].inc \in Nat /\ recs[x].state \in Nat
  <2>1. x \in DOMAIN m.deltas /\ recs[x] = m.deltas[x]
    BY Zenon
  <2>2. m.deltas[x] \in MemberRecord
    BY Zenon, <1>1, <2>1, DictElim
  <2> QED BY <2>1, <2>2, ConstantsAssumption DEF MemberRecord, State, ALIVE, SUSPECT, DEAD
<1> HIDE DEF s0, recs
<1>7. Watch(s1) /\ Grown(n, s0, s1)
  BY Zenon, <1>4, <1>5, <1>6, GrownInstall
<1> HIDE DEF s1
<1>8. Watch(t) /\ Grown(n, s1, t)
  BY Zenon, <1>1, <1>7, WatchRefute
<1> HIDE DEF t
<1>9. Grown(n, s, t)
  BY Zenon, <1>2, <1>4, <1>7, <1>8, GrownTrans
<1> QED BY Zenon, <1>3, <1>8, <1>9, WatchGrown

\* The timers' part of a tick
LEMMA TimerResultsWatch ==
  ASSUME IInv, WatchInv, NEW n \in Node, NEW r \in TimerResults(n)
  PROVE  /\ Watch(r.s) /\ Grown(n, node[n], r.s) /\ r.s.probe = node[n].probe
         /\ \A p \in r.s.probe : p.target \in DOMAIN r.s.members
<1>1. Watch(node[n])
  BY Zenon, WatchFacts
<1>2. PICK e \in Expired(n) :
        r = [s |-> AfterTimers(node[n], e.gone, e.late, e.dead),
             out |-> {PingReqAck(n, h, FALSE) : h \in e.late}]
  BY Zenon DEF TimerResults
<1>3. e.dead \in SUBSET Suspects(node[n])
  BY Zenon DEF Expired
<1>4. r.s = AfterTimers(node[n], e.gone, e.late, e.dead)
  BY Zenon, <1>2
<1>5. Watch(r.s) /\ Grown(n, node[n], r.s)
  BY Zenon, <1>1, <1>3, <1>4, WatchTimers
<1>6. LocalInv(n, r.s, issued) /\ r.s.probe = node[n].probe
  BY Zenon, TimerResultsInv
<1> QED BY Zenon, <1>5, <1>6 DEF LocalInv

\* The ticks that send no Ping
LEMMA TickWatch ==
  ASSUME IInv, WatchInv, NEW n \in Node, TickIdle(n) \/ TickNoPeers(n)
  PROVE  WatchInv' /\ FirstHand
<1>1. PICK r \in TimerResults(n) :
        node' = [node EXCEPT ![n] = r.s] \/ node' = [node EXCEPT ![n] = EndPeriod(r.s)]
  BY Zenon, WatchFacts DEF TickIdle, TickNoPeers
<1>2. /\ Watch(node[n]) /\ Watch(r.s) /\ Grown(n, node[n], r.s)
      /\ \A p \in r.s.probe : p.target \in DOMAIN r.s.members
  BY Zenon, WatchFacts, TimerResultsWatch
<1>3. Watch(EndPeriod(r.s)) /\ Grown(n, r.s, EndPeriod(r.s))
  BY Zenon, <1>2, WatchPeriod
<1>4. Grown(n, node[n], EndPeriod(r.s))
  BY Zenon, <1>2, <1>3, GrownTrans
<1> QED BY Zenon, <1>1, <1>2, <1>3, <1>4, WatchGrown

\* A period that pings its target
LEMMA TickPeriodWatch ==
  ASSUME IInv, WatchInv, NEW n \in Node, NEW target \in Node, TickPeriod(n, target)
  PROVE  WatchInv' /\ FirstHand
<1> DEFINE next(s) == IF s.counter = MaxProbes THEN 1 ELSE s.counter + 1
           probe(c) == [id |-> <<n, c>>, target |-> target, indirect |-> FALSE,
                        helpers |-> {}, acks |-> 0, success |-> FALSE]
           after(s) == [s EXCEPT !.counter = next(s), !.probe = {probe(next(s))}]
<1>1. PICK r \in TimerResults(n) :
        \E d : Emit(n, after(EndPeriod(r.s)),
                    r.out \cup {Ping(n, target, EndPeriod(r.s).inc, d)})
  BY Zenon DEF TickPeriod
<1> DEFINE s == EndPeriod(r.s)
           t == after(s)
<1>2. node' = [node EXCEPT ![n] = t]
  <2>1. PICK d : Emit(n, t, r.out \cup {Ping(n, target, EndPeriod(r.s).inc, d)})
    BY Zenon, <1>1
  <2> HIDE DEF t
  <2> QED BY Zenon, <2>1, WatchFacts
<1>3. /\ Watch(node[n]) /\ Watch(r.s) /\ Grown(n, node[n], r.s)
      /\ \A p \in r.s.probe : p.target \in DOMAIN r.s.members
  BY Zenon, WatchFacts, TimerResultsWatch
<1>4. Watch(s) /\ Grown(n, r.s, s)
  BY Zenon, <1>3, WatchPeriod
<1> HIDE DEF s, next, probe
<1>5. DOMAIN t = DOMAIN s /\ t.members = s.members /\ t.log = s.log /\ t.seen = s.seen
  BY Zenon, <1>4 DEF Watch, Shape
<1> HIDE DEF t
<1>6. Watch(t) /\ Grown(n, s, t)
  BY Zenon, <1>4, <1>5, WatchSame, GrownSame
<1>7. Grown(n, node[n], t)
  BY Zenon, <1>3, <1>4, <1>6, GrownTrans
<1> QED BY Zenon, <1>2, <1>6, <1>7, WatchGrown

\* The escalation to indirect probes
LEMMA TickEscalateWatch ==
  ASSUME IInv, WatchInv, NEW n \in Node, NEW target \in Node, TickEscalate(n, target)
  PROVE  WatchInv' /\ FirstHand
<1> DEFINE with(s, q) == [s EXCEPT !.probe = q]
<1>1. PICK r \in TimerResults(n), p \in node[n].probe :
        /\ p.target = target
        /\ \/ \E q, out : Emit(n, with(r.s, q), out)
           \/ Emit(n, MarkSuspect(with(r.s, {}), {target}), r.out)
  BY Zenon DEF TickEscalate
<1>2. /\ Watch(node[n]) /\ Watch(r.s) /\ Grown(n, node[n], r.s)
      /\ r.s.probe = node[n].probe
      /\ \A x \in r.s.probe : x.target \in DOMAIN r.s.members
  BY Zenon, WatchFacts, TimerResultsWatch
<1>3. ASSUME NEW q
      PROVE  /\ DOMAIN with(r.s, q) = DOMAIN r.s /\ with(r.s, q).members = r.s.members
             /\ with(r.s, q).log = r.s.log /\ with(r.s, q).seen = r.s.seen
  BY Zenon, <1>2 DEF Watch, Shape
<1> HIDE DEF with
<1>4. ASSUME NEW q
      PROVE  Watch(with(r.s, q)) /\ Grown(n, node[n], with(r.s, q))
  <2>1. Watch(with(r.s, q)) /\ Grown(n, r.s, with(r.s, q))
    BY Zenon, <1>2, <1>3, WatchSame, GrownSame
  <2> QED BY Zenon, <1>2, <2>1, GrownTrans
<1> DEFINE s == with(r.s, {})
           t == MarkSuspect(s, {target})
<1>5. Watch(s) /\ Grown(n, node[n], s) /\ {target} \subseteq DOMAIN s.members
  BY Zenon, <1>1, <1>2, <1>3, <1>4
<1>6. \/ \E q : node' = [node EXCEPT ![n] = with(r.s, q)]
      \/ node' = [node EXCEPT ![n] = t]
  <2>1. (\E q, out : Emit(n, with(r.s, q), out)) \/ Emit(n, t, r.out)
    BY Zenon, <1>1
  <2> HIDE DEF t
  <2> QED BY Zenon, <2>1, WatchFacts
<1> HIDE DEF s
<1>7. Watch(t) /\ Grown(n, s, t)
  BY Zenon, <1>5, WatchSuspect
<1> HIDE DEF t
<1>8. Grown(n, node[n], t)
  BY Zenon, <1>2, <1>5, <1>7, GrownTrans
<1> QED BY Zenon, <1>4, <1>6, <1>7, <1>8, WatchGrown

\* _fire_observers tells the last of the transitions, which is the present view.
LEMMA FireObserversWatch ==
  ASSUME IInv, WatchInv, NEW n \in Node, FireObservers(n)
  PROVE  WatchInv' /\ FirstHand
<1> DEFINE s == node[n]
           told == [x \in Node |-> IF s.log[x] = <<>> THEN s.seen[x]
                                   ELSE s.log[x][Len(s.log[x])].new]
           empty == [x \in Node |-> <<>>]
           t == [s EXCEPT !.log = empty, !.seen = told]
<1>1. Watch(s)
  BY Zenon, WatchFacts
<1>2. node' = [node EXCEPT ![n] = t]
  BY Zenon DEF FireObservers
<1>3. empty \in [Node -> Seq(Change)] /\ \A x \in Node : empty[x] = <<>>
  OBVIOUS
<1>4. ASSUME NEW x \in Node
      PROVE  told[x] = Now(s, x)
  <2>1. Chain(s.log[x], s.seen[x], Now(s, x))
    BY Zenon, <1>1 DEF Watch
  <2> QED BY Zenon, <2>1 DEF Chain
<1> HIDE DEF told, empty
<1>5. DOMAIN t = DOMAIN s /\ t.members = s.members /\ t.log = empty /\ t.seen = told
  BY Zenon, <1>1 DEF Watch, Shape
<1> HIDE DEF t
<1>6. ASSUME NEW x \in Node
      PROVE  Chain(t.log[x], t.seen[x], Now(t, x))
  <2>1. t.log[x] = <<>> /\ t.seen[x] = Now(s, x) /\ Now(t, x) = Now(s, x)
    BY Zenon, <1>3, <1>4, <1>5 DEF Now
  <2> QED BY Zenon, <2>1 DEF Chain
<1>7. Watch(t)
  BY Zenon, <1>1, <1>3, <1>5, <1>6 DEF Watch, Shape
<1>8. Grown(n, s, t)
  BY Zenon, <1>1, <1>5, GrownSame
<1> QED BY Zenon, <1>2, <1>7, <1>8, WatchGrown

\* A new process has told nothing and sees every configured peer ALIVE.
LEMMA WatchFresh ==
  ASSUME NEW n \in Node, NEW i \in Nat
  PROVE  Watch(Fresh(n, i))
<1> DEFINE s == Fresh(n, i)
           members == [m \in Peers[n] |->
                        Record(ALIVE, IF m = n THEN i ELSE 0, ModelId[n])]
           empty == [m \in Node |-> <<>>]
           seen == [m \in Node |-> IF m \in Peers[n] THEN ALIVE ELSE Absent]
<1>1. /\ DOMAIN s = {"members", "inc", "probe", "counter", "helps", "backlog", "log", "seen"}
      /\ s.members = members /\ s.log = empty /\ s.seen = seen
  BY Zenon DEF Fresh
<1>2. /\ DOMAIN members = Peers[n]
      /\ \A x \in Peers[n] : members[x] = Record(ALIVE, IF x = n THEN i ELSE 0, ModelId[n])
      /\ \A x \in Node : empty[x] = <<>>
      /\ \A x \in Node : seen[x] = IF x \in Peers[n] THEN ALIVE ELSE Absent
      /\ empty \in [Node -> Seq(Change)]
  OBVIOUS
<1> HIDE DEF s, members, empty, seen
<1>3. ASSUME NEW x \in Peers[n]
      PROVE  members[x].inc \in Nat /\ members[x].state = ALIVE
  <2> DEFINE j == IF x = n THEN i ELSE 0
  <2>1. members[x] = Record(ALIVE, j, ModelId[n]) /\ j \in Nat
    BY Zenon, <1>2
  <2> HIDE DEF j
  <2> QED BY <2>1, RecordFields
<1>4. Shape(s)
  BY <1>1, <1>2, <1>3 DEF Shape, ALIVE
<1>5. ASSUME NEW x \in Node
      PROVE  Chain(s.log[x], s.seen[x], Now(s, x))
  BY Zenon, <1>1, <1>2, <1>3 DEF Chain, Now
<1> QED BY Zenon, <1>4, <1>5 DEF Watch, s

\* A restart: the node was not running, so nothing is asked of its view.
LEMMA RestartWatch ==
  ASSUME IInv, WatchInv, NEW n \in Node, Restart(n)
  PROVE  WatchInv' /\ FirstHand
<1>1. PICK i \in started[n]..MaxClock : node' = [node EXCEPT ![n] = Fresh(n, i)]
  BY Zenon DEF Restart, Become
<1>2. i \in Nat /\ n \notin up
  BY <1>1, ConstantsAssumption DEF IInv, TypeOK, Restart
<1> QED BY Zenon, <1>1, <1>2, WatchFresh, WatchStep

\* Every step keeps the log of transitions in line with the view, and no step
\* but a datagram of the member itself takes a view back.
LEMMA WatchNext ==
  IInv /\ WatchInv /\ [Next]_vars => WatchInv' /\ FirstHand
<1> SUFFICES ASSUME IInv, WatchInv, [Next]_vars PROVE WatchInv' /\ FirstHand
  BY Zenon
<1>1. ASSUME NEW n \in Node, Tick(n) PROVE WatchInv' /\ FirstHand
  BY Zenon, <1>1, TickWatch, TickPeriodWatch, TickEscalateWatch DEF Tick
<1>2. ASSUME NEW m \in net, Recv(m.to, m) PROVE WatchInv' /\ FirstHand
  <2>1. m.to \in Node
    BY Zenon, <1>2 DEF Recv, IInv, TypeOK
  <2> QED BY Zenon, <1>2, <2>1, RecvPingWatch, RecvAckWatch, RecvPingReqWatch,
             RecvPingReqAckWatch, RecvJoinWatch, RecvMembershipDeltaWatch DEF Recv
<1>3. ASSUME NEW n \in Node, NEW seed \in Node, Crash(n) \/ BootstrapJoin(n, seed)
      PROVE  UNCHANGED node
  BY Zenon, <1>3 DEF Crash, BootstrapJoin
<1>4. ASSUME NEW m \in net, Lose(m) PROVE UNCHANGED node
  BY Zenon, <1>4 DEF Lose
<1>5. CASE UNCHANGED vars
  BY Zenon, <1>5, WatchQuiet DEF vars
<1> QED BY Zenon, <1>1, <1>2, <1>3, <1>4, <1>5, FireObserversWatch, RestartWatch, WatchQuiet DEF Next

\* In the initial states nobody has been told anything.
LEMMA WatchInit ==
  Init => WatchInv
<1> SUFFICES ASSUME Init, NEW n \in Node PROVE Watch(node[n])
  BY Zenon DEF WatchInv
<1>1. node[n] = Fresh(n, StartInc) /\ StartInc \in Nat
  BY Zenon, ConstantsAssumption DEF Init
<1> QED BY Zenon, <1>1, WatchFresh

\* What the observers are told, together with the transitions still to be
\* handed to them, is the history of the view: _fire_observers misses, repeats
\* and reorders nothing.
THEOREM ObserversAreTold ==
  Spec => []ObserversFollowView
<1>1. Init => WatchInv
  BY Zenon, WatchInit
<1>2. IInv /\ WatchInv /\ [Next]_vars => WatchInv'
  BY Zenon, WatchNext
<1>3. WatchInv => ObserversFollowView
  BY DEF WatchInv, Watch, Chain, Now, ObserversFollowView
<1> QED BY <1>1, <1>2, <1>3, Invariance, PTL DEF Spec

\* No timer, rumour or helper takes a view of a peer back: only a datagram of
\* the peer itself does (_maybe_promote_sender_alive, _handle_join), and a
\* lower incarnation comes only with a Join that finds the peer not DEAD.
THEOREM RevivalsAreFirstHand ==
  Spec => RevivalIsFirstHand
<1> DEFINE A == \A n \in up \cap up' : \A x \in DOMAIN node[n].members \ {n} :
       LET old == node[n].members[x]
           new == node'[n].members[x]
           heard(types) == \E m \in net : /\ m.from = x /\ m.to = n
                                          /\ m.type \in types
       IN /\ new.inc = old.inc /\ new.state < old.state =>
               heard({"Ping", "Ack", "Join"})
          /\ new.inc < old.inc => heard({"Join"}) /\ old.state # DEAD
<1>1. Init => WatchInv
  BY Zenon, WatchInit
<1>2. IInv /\ WatchInv /\ [Next]_vars => WatchInv'
  BY Zenon, WatchNext
<1>3. FirstHand => A
  BY Zenon DEF FirstHand, Heeds
<1>4. IInv /\ WatchInv /\ [Next]_vars => [A]_vars
  BY Zenon, <1>3, WatchNext
<1>5. RevivalIsFirstHand <=> [][A]_vars
  BY Zenon DEF RevivalIsFirstHand
<1> HIDE DEF A
<1> QED BY <1>1, <1>2, <1>4, <1>5, Invariance, PTL DEF Spec

-----------------------------------------------------------------------------
(* One loss: the indirect probe masks it. *)

\* A view, or what a datagram tells of one, in which everybody is ALIVE
AllAlive(d) == \A x \in DOMAIN d : d[x].state = ALIVE

\* A datagram that raises no suspicion
Cheerful(m) ==
  /\ m.type \in {"Ping", "Ack", "MembershipDelta"} => AllAlive(m.deltas)
  /\ m.type = "PingReqAck" => m.success

\* Somebody still works on the indirect phase of probe p of node n.
Helped(n, p) ==
  \/ \E m \in net : m.type = "PingReq" /\ m.from = n /\ m.id = p.id
  \/ \E k \in Node : \E h \in node[k].helps : h.requester = n /\ h.id = p.id
  \/ \E m \in net : m.type = "PingReqAck" /\ m.to = n /\ m.id = p.id

\* Every help request and every indirect phase will be answered; as long as
\* nothing has been lost, every probe will be, and nobody asks for help.
Serene ==
  /\ up = Node
  /\ \A n \in Node :
       /\ AllAlive(node[n].members)
       /\ \A h \in node[n].helps : Awaited(n, h.target)
       /\ \A p \in node[n].probe : p.indirect => Helped(n, p)
  /\ \A m \in net : Cheerful(m)
  /\ losses = 0 =>
       /\ \A n \in Node : /\ node[n].helps = {}
                          /\ \A p \in node[n].probe : ~p.indirect /\ Awaited(n, p.target)
       /\ \A m \in net : m.type \notin {"PingReq", "PingReqAck"}

LossInv == Timely /\ crashes = 0 /\ losses <= 1 => Serene

\* Node n goes to t; of the datagrams only some of D go, and those of out come.
Took(n, t, D, out) ==
  /\ node' = [node EXCEPT ![n] = t]
  /\ net' \subseteq net \cup out /\ net \ D \subseteq net' /\ out \subseteq net'
  /\ UNCHANGED <<up, losses, crashes>>

Pings(n, x, out) == \E y \in out : y.type = "Ping" /\ y.from = n /\ y.to = x
AckFrom(x, D) == \E y \in D : y.type = "Ack" /\ y.from = x

\* What n takes it answers, or keeps in mind.
Answers(n, t, D, out) ==
  /\ \A x \in D : x.type = "Ping" =>
       \E y \in out : y.type = "Ack" /\ y.from = n /\ y.to = x.from
  /\ \A x \in D : x.type = "PingReq" =>
       \E h \in t.helps : h.requester = x.from /\ h.id = x.id
  /\ \A h \in node[n].helps \ t.helps :
       \E y \in out : y.type = "PingReqAck" /\ y.to = h.requester /\ y.id = h.id

\* What n waits for in state t has been asked for, and not been received.
Asks(n, t, D, out) ==
  /\ \A h \in t.helps :
       Pings(n, h.target, out) \/ (h \in node[n].helps /\ ~AckFrom(h.target, D))
  /\ \A p \in t.probe : p.indirect =>
       \/ \E y \in out : y.type = "PingReq" /\ y.from = n /\ y.id = p.id
       \/ /\ p \in node[n].probe
          /\ \A x \in D : x.type = "PingReqAck" => x.id # p.id

\* Nobody is asked for help.
Direct(n, t, D, out) ==
  /\ t.helps = {}
  /\ \A x \in out : x.type \notin {"PingReq", "PingReqAck"}
  /\ \A p \in t.probe :
       /\ ~p.indirect
       /\ Pings(n, p.target, out) \/ (p \in node[n].probe /\ ~AckFrom(p.target, D))

\* A Ping on its way, or its Ack, stays on its way until n has the Ack.
LEMMA AwaitedStep ==
  ASSUME NEW n \in Node, NEW t, NEW D, NEW out, Took(n, t, D, out), Answers(n, t, D, out),
         \A x \in D : x.to = n,
         NEW k, NEW x, Awaited(k, x), k = n => ~AckFrom(x, D)
  PROVE  Awaited(k, x)'
<1>1. PICK m \in net : \/ m.type = "Ping" /\ m.from = k /\ m.to = x
                       \/ m.type = "Ack" /\ m.from = x /\ m.to = k
  BY Zenon DEF Awaited
<1>2. CASE m \in net'
  BY Zenon, <1>1, <1>2 DEF Awaited
<1>3. CASE m \in D /\ m.type = "Ping"
  <2>1. PICK y \in out : y.type = "Ack" /\ y.from = n /\ y.to = m.from
    BY Zenon, <1>3 DEF Answers
  <2>2. y \in net' /\ y.from = x /\ y.to = k
    BY Zenon, <1>1, <1>3, <2>1 DEF Took
  <2> QED BY Zenon, <2>1, <2>2 DEF Awaited
<1>4. CASE m \in D /\ m.type = "Ack"
  BY Zenon, <1>1, <1>4 DEF AckFrom
<1> QED BY Zenon, <1>1, <1>2, <1>3, <1>4 DEF Took

\* A Ping of this step is on its way.
LEMMA PingAwaited ==
  ASSUME NEW n, NEW t, NEW D, NEW out, Took(n, t, D, out), NEW x, Pings(n, x, out)
  PROVE  Awaited(n, x)'
BY Zenon DEF Took, Pings, Awaited

\* An indirect phase stays at work until n has a PingReqAck.
LEMMA HelpedStep ==
  ASSUME NEW n \in Node, NEW t, NEW D, NEW out, Took(n, t, D, out), Answers(n, t, D, out),
         \A x \in D : x.to = n, node \in [Node -> LocalState],
         NEW k, NEW p, Helped(k, p), k = n => \A x \in D : x.type = "PingReqAck" => x.id # p.id
  PROVE  Helped(k, p)'
<1>0. node'[n] = t /\ \A j \in Node \ {n} : node'[j] = node[j]
  BY Zenon DEF Took
<1>1. ASSUME NEW m \in net, m.type = "PingReq" /\ m.from = k /\ m.id = p.id
      PROVE  Helped(k, p)'
  <2>1. CASE m \in net'
    BY Zenon, <1>1, <2>1 DEF Helped
  <2>2. CASE m \in D
    <3>1. PICK h \in t.helps : h.requester = k /\ h.id = p.id
      BY <1>1, <2>2 DEF Answers
    <3> QED BY Zenon, <1>0, <3>1 DEF Helped
  <2> QED BY Zenon, <2>1, <2>2 DEF Took
<1>2. ASSUME NEW j \in Node, NEW h \in node[j].helps, h.requester = k /\ h.id = p.id
      PROVE  Helped(k, p)'
  <2>1. CASE h \in node'[j].helps
    BY Zenon, <1>2, <2>1 DEF Helped
  <2>2. CASE j = n /\ h \notin t.helps
    <3>1. PICK y \in out : y.type = "PingReqAck" /\ y.to = k /\ y.id = p.id
      BY <1>2, <2>2 DEF Answers
    <3> QED BY Zenon, <3>1 DEF Helped, Took
  <2> QED BY Zenon, <1>0, <2>1, <2>2
<1>3. ASSUME NEW m \in net, m.type = "PingReqAck" /\ m.to = k /\ m.id = p.id
      PROVE  Helped(k, p)'
  <2>1. m \notin D
    BY Zenon, <1>3
  <2>2. m \in net'
    BY Zenon, <2>1 DEF Took
  <2> QED BY Zenon, <1>3, <2>2 DEF Helped
<1> QED BY Zenon, <1>1, <1>2, <1>3 DEF Helped

\* A step that answers what it takes and waits only for what it has asked for
LEMMA SereneStep ==
  ASSUME IInv, Serene, NEW n \in Node, NEW t, NEW D, NEW out, Took(n, t, D, out),
         \A x \in D : x.to = n, AllAlive(t.members), \A x \in out : Cheerful(x),
         Answers(n, t, D, out), Asks(n, t, D, out), losses = 0 => Direct(n, t, D, out)
  PROVE  Serene'
<1>0. node \in [Node -> LocalState]
  BY Zenon DEF IInv, TypeOK
<1>1. node'[n] = t /\ \A k \in Node \ {n} : node'[k] = node[k]
  BY Zenon, <1>0 DEF Took
<1>2. up' = Node /\ losses' = losses
  BY Zenon DEF Took, Serene
<1>3. \A m \in net' : Cheerful(m)
  BY Zenon DEF Took, Serene
<1>4. ASSUME NEW k \in Node
      PROVE  AllAlive(node'[k].members)
  BY Zenon, <1>1 DEF Serene
<1>5. ASSUME NEW k \in Node, NEW h \in node'[k].helps
      PROVE  Awaited(k, h.target)'
  <2>1. CASE k # n
    <3>1. Awaited(k, h.target)
      BY Zenon, <1>1, <1>5, <2>1 DEF Serene
    <3> QED BY Zenon, <2>1, <3>1, AwaitedStep
  <2>2. CASE k = n /\ Pings(n, h.target, out)
    BY Zenon, <2>2, PingAwaited
  <2>3. CASE k = n /\ h \in node[n].helps /\ ~AckFrom(h.target, D)
    <3>1. Awaited(k, h.target)
      BY Zenon, <2>3 DEF Serene
    <3> QED BY Zenon, <2>3, <3>1, AwaitedStep
  <2> QED BY <1>1, <1>5, <2>1, <2>2, <2>3 DEF Asks
<1>6. ASSUME NEW k \in Node, NEW p \in node'[k].probe, p.indirect
      PROVE  Helped(k, p)'
  <2>1. CASE k # n
    <3>1. Helped(k, p)
      BY Zenon, <1>1, <1>6, <2>1 DEF Serene
    <3> QED BY Zenon, <1>0, <2>1, <3>1, HelpedStep
  <2>2. CASE k = n /\ \E y \in out : y.type = "PingReq" /\ y.from = n /\ y.id = p.id
    BY Zenon, <2>2 DEF Helped, Took
  <2>3. CASE /\ k = n /\ p \in node[n].probe
             /\ \A x \in D : x.type = "PingReqAck" => x.id # p.id
    <3>1. Helped(k, p)
      BY Zenon, <1>6, <2>3 DEF Serene
    <3> QED BY <1>0, <2>3, <3>1, HelpedStep
  <2> QED BY Zenon, <1>1, <1>6, <2>1, <2>2, <2>3 DEF Asks
<1>7. ASSUME losses = 0, NEW k \in Node
      PROVE  /\ node'[k].helps = {}
             /\ \A p \in node'[k].probe : ~p.indirect /\ Awaited(k, p.target)'
  <2>1. CASE k # n
    <3>1. node'[k].helps = {} /\ \A p \in node'[k].probe : ~p.indirect /\ Awaited(k, p.target)
      BY <1>1, <1>7, <2>1 DEF Serene
    <3> QED BY Zenon, <2>1, <3>1, AwaitedStep
  <2>2. CASE k = n
    <3>1. t.helps = {} /\ \A p \in t.probe : ~p.indirect
      BY Zenon, <1>7 DEF Direct
    <3>2. ASSUME NEW p \in t.probe PROVE Awaited(n, p.target)'
      <4>1. CASE Pings(n, p.target, out)
        BY Zenon, <4>1, PingAwaited
      <4>2. CASE p \in node[n].probe /\ ~AckFrom(p.target, D)
        <5>1. Awaited(n, p.target)
          BY Zenon, <1>7, <4>2 DEF Serene
        <5> QED BY Zenon, <4>2, <5>1, AwaitedStep
      <4> QED BY Zenon, <1>7, <4>1, <4>2 DEF Direct
    <3> QED BY Zenon, <1>1, <2>2, <3>1, <3>2
  <2> QED BY Zenon, <2>1, <2>2
<1>8. ASSUME losses = 0, NEW m \in net' PROVE m.type \notin {"PingReq", "PingReqAck"}
  BY Zenon, <1>8 DEF Took, Direct, Serene
<1> QED BY <1>2, <1>3, <1>4, <1>5, <1>6, <1>7, <1>8 DEF Serene, Cheerful, AllAlive

\* The runner's step, when every node has the address of every other
LEMMA ReceiveTook ==
  ASSUME Full, NEW n \in Node, NEW m, NEW t, NEW out, \A x \in out : x.to \in Node,
         Receive(n, m, t, out)
  PROVE  Took(n, t, {m}, out)
<1>1. out = {x \in out : x.to \in Peers[n]}
  BY Zenon DEF Full
<1> QED BY Zenon, <1>1 DEF Receive, Become, Send, Took

LEMMA EmitTook ==
  ASSUME Full, NEW n \in Node, NEW t, NEW out, \A x \in out : x.to \in Node,
         Emit(n, t, out)
  PROVE  Took(n, t, {}, out)
<1>1. out = {x \in out : x.to \in Peers[n]}
  BY Zenon DEF Full
<1> QED BY Zenon, <1>1 DEF Emit, Become, Send, Took

\* A change of records that keeps everybody ALIVE
Same(t, s) == t \in LocalState /\ AllAlive(t.members) /\ t.helps = s.helps /\ t.probe = s.probe

LEMMA InstallAlive ==
  ASSUME NEW s \in LocalState, AllAlive(s.members), NEW recs \in MemberDict, AllAlive(recs)
  PROVE  Same(Install(s, recs), s)
<1>1. s.members \in MemberDict
  BY Zenon DEF LocalState
<1>2. AllAlive(Merge(s.members, recs))
  <2> DEFINE M == Merge(s.members, recs)
  <2>1. /\ DOMAIN M = DOMAIN s.members \cup DOMAIN recs
        /\ \A x \in DOMAIN recs : M[x] = recs[x]
        /\ \A x \in DOMAIN s.members \ DOMAIN recs : M[x] = s.members[x]
    BY Zenon, <1>1, MergeType
  <2> SUFFICES AllAlive(M)
    BY Zenon
  <2> HIDE DEF M
  <2> QED BY Zenon, <2>1 DEF AllAlive
<1> QED BY Zenon, <1>2, InstallFields DEF Same

\* _maybe_promote_sender_alive
LEMMA PromoteAlive ==
  ASSUME NEW n, NEW s \in LocalState, AllAlive(s.members), NEW sender, NEW inc
  PROVE  Same(PromoteSenderAlive(n, s, sender, inc), s)
<1> DEFINE recs == [x \in {y \in {sender} \cap DOMAIN s.members :
                             y # n /\ s.members[y].state # ALIVE} |->
                      Record(ALIVE, Max(s.members[x].inc, inc), s.members[x].model)]
<1>1. DOMAIN recs = {}
  BY Zenon DEF AllAlive
<1>2. PromoteSenderAlive(n, s, sender, inc) = Install(s, recs)
  BY Zenon DEF PromoteSenderAlive
<1>3. recs \in [{} -> MemberRecord]
  BY Zenon, <1>1
<1> HIDE DEF recs
<1>4. recs \in MemberDict /\ AllAlive(recs)
  BY Zenon, <1>1, <1>3, DictIntro DEF AllAlive
<1> QED BY Zenon, <1>2, <1>4, InstallAlive

\* _maybe_apply_peer_delta
LEMMA DeltasAlive ==
  ASSUME NEW n \in Node, NEW b, NEW s, LocalInv(n, s, b), AllAlive(s.members),
         NEW d \in MemberDict, AllAlive(d)
  PROVE  Same(ApplyPeerDeltas(n, s, d), s)
<1> DEFINE recs == [x \in {y \in (DOMAIN d \cap DOMAIN s.members) \ {n} :
                              /\ Admit(n, d[y])
                              /\ Supersedes(d[y], s.members[y])} |->
                      Record(d[x].state, d[x].inc, d[x].model)]
<1>1. s \in LocalState
  BY Zenon DEF LocalInv
<1>2. ASSUME NEW x \in DOMAIN recs
      PROVE  x \in Node /\ recs[x] \in MemberRecord /\ recs[x].state = ALIVE
  <2>1. x \in DOMAIN d /\ recs[x] = Record(d[x].state, d[x].inc, d[x].model)
    BY Zenon
  <2>2. x \in Node /\ d[x] \in MemberRecord /\ d[x].state = ALIVE
    BY Zenon, <2>1, DictElim DEF AllAlive
  <2> HIDE DEF recs
  <2> QED BY <2>1, <2>2, RecordType, RecordFields DEF MemberRecord
<1>3. recs \in [DOMAIN recs -> MemberRecord] /\ DOMAIN recs \in SUBSET Node
  BY Zenon, <1>2
<1>4. ApplyPeerDeltas(n, s, d) = Install(s, recs)
  BY Zenon DEF ApplyPeerDeltas
<1> HIDE DEF recs
<1>5. recs \in MemberDict /\ AllAlive(recs)
  BY Zenon, <1>2, <1>3, DictIntro DEF AllAlive
<1> QED BY Zenon, <1>1, <1>4, <1>5, InstallAlive

\* There is nothing to refute.
LEMMA NoRefute ==
  ASSUME NEW n, NEW s, NEW d, AllAlive(d)
  PROVE  Refute(n, s, d) = s
BY Zenon DEF Refute, AllAlive

\* What a view with everybody ALIVE puts on the wire
LEMMA WireAlive ==
  ASSUME NEW d, AllAlive(d)
  PROVE  AllAlive(Wire(d))
BY Zenon DEF AllAlive, Wire, Decoded

LEMMA OutgoingAlive ==
  ASSUME NEW n \in Node, NEW b, NEW s, LocalInv(n, s, b), AllAlive(s.members),
         NEW d \in OutgoingDeltas(n, s)
  PROVE  AllAlive(Wire(d))
<1>1. PICK S \in SUBSET DOMAIN s.backlog :
        d = [x \in {n} \cup S |-> IF x = n THEN s.members[n] ELSE s.backlog[x]]
  BY Zenon DEF OutgoingDeltas
<1>2. DOMAIN s.backlog \subseteq DOMAIN s.members /\ n \in DOMAIN s.members
  BY Zenon DEF LocalInv
<1>3. \A x \in {n} \cup S : d[x] = s.members[x]
  BY Zenon, <1>1, <1>2 DEF LocalInv
<1>4. AllAlive(d)
  BY Zenon, <1>1, <1>2, <1>3 DEF AllAlive
<1> QED BY Zenon, <1>4, WireAlive

\* The datagrams of such a node
LEMMA SendsCheer ==
  ASSUME NEW n, NEW to, NEW inc, NEW d, AllAlive(Wire(d)), NEW p, NEW h
  PROVE  /\ Cheerful(Ping(n, to, inc, d)) /\ Cheerful(Ack(n, to, inc, d))
         /\ Cheerful(MembershipDelta(n, to, d)) /\ Cheerful(Join(n, to))
         /\ Cheerful(PingReq(n, to, p)) /\ Cheerful(PingReqAck(n, h, TRUE))
BY Zenon DEF Cheerful, Ping, Ack, MembershipDelta, Join, PingReq, PingReqAck

\* A Ping or an Ack is heard.
LEMMA HearsAlive ==
  ASSUME IInv, Serene, NEW n \in Node, NEW m \in net, m.type \in {"Ping", "Ack"},
         NEW s, LocalInv(n, s, issued), AllAlive(s.members)
  PROVE  LET t == ApplyDeltas(n, PromoteSenderAlive(n, s, m.from, m.inc), m.deltas)
         IN  Same(t, s) /\ LocalInv(n, t, issued)
<1> DEFINE s0 == PromoteSenderAlive(n, s, m.from, m.inc)
           t == ApplyPeerDeltas(n, s0, m.deltas)
<1>1. /\ issued \in [Node -> 0..MaxInc] /\ issued \in [Node -> Nat] /\ m.deltas \in MemberDict
      /\ m.from \in Node /\ m.inc \in 0..MaxInc /\ m.inc <= issued[m.from]
      /\ \A x \in DOMAIN m.deltas : m.deltas[x].inc <= issued[x]
  BY ReceiveFacts, ConstantsAssumption
<1>2. AllAlive(m.deltas)
  BY Zenon DEF Serene, Cheerful
<1>3. s \in LocalState
  BY Zenon DEF LocalInv
<1>4. Same(s0, s) /\ LocalInv(n, s0, issued)
  BY Zenon, <1>1, <1>3, PromoteAlive, PromoteInv
<1> HIDE DEF s0
<1>5. AllAlive(s0.members)
  BY Zenon, <1>4 DEF Same
<1>6. Same(t, s0) /\ LocalInv(n, t, issued)
  BY <1>1, <1>2, <1>4, <1>5, DeltasAlive, ApplyPeerDeltasInv
<1>7. ApplyDeltas(n, s0, m.deltas) = t
  BY Zenon, <1>2, NoRefute DEF ApplyDeltas
<1> HIDE DEF t
<1>8. Same(t, s)
  BY Zenon, <1>4, <1>6 DEF Same
<1> QED BY Zenon, <1>6, <1>7, <1>8 DEF s0

\* What a handler starts from
LEMMA LossFacts ==
  ASSUME IInv, Serene, Full, NEW n \in Node
  PROVE  /\ LocalInv(n, node[n], issued) /\ node[n] \in LocalState
         /\ AllAlive(node[n].members) /\ DOMAIN node[n].members = Node
         /\ \A m \in net : Cheerful(m) /\ m.from \in Node /\ m.to \in Node
<1>1. LocalInv(n, node[n], issued) /\ \A m \in net : m \in Message
  BY Zenon DEF IInv, MessageInv
<1>2. node[n] \in LocalState /\ Node \subseteq DOMAIN node[n].members
  BY Zenon, <1>1 DEF LocalInv, Full
<1>3. DOMAIN node[n].members \subseteq Node
  BY Zenon, <1>2, DictElim DEF LocalState
<1>4. \A m \in net : m.from \in Node /\ m.to \in Node
  BY Zenon, <1>1 DEF Message
<1> QED BY Zenon, <1>1, <1>2, <1>3, <1>4 DEF Serene
\* A handler that keeps probe and helps and has no answer to give
LEMMA QuietReceive ==
  ASSUME IInv, Serene, Full, NEW n \in Node, NEW m \in net, m.to = n,
         m.type \in {"Join", "MembershipDelta"}, NEW t, Same(t, node[n]),
         NEW out, Receive(n, m, t, out),
         \A x \in out : x.to \in Node /\ Cheerful(x) /\ x.type = "MembershipDelta"
  PROVE  Serene'
<1>1. Took(n, t, {m}, out)
  BY Zenon, ReceiveTook
<1>2. Answers(n, t, {m}, out) /\ Asks(n, t, {m}, out)
  BY Zenon DEF Answers, Asks, Same, AckFrom
<1>3. losses = 0 => Direct(n, t, {m}, out)
  BY Zenon DEF Direct, Same, AckFrom, Serene
<1>4. AllAlive(t.members)
  BY Zenon DEF Same
<1> QED BY <1>1, <1>2, <1>3, <1>4, SereneStep

\* _handle_ping
LEMMA RecvPingSerene ==
  ASSUME IInv, Serene, Full, NEW n \in Node, NEW m \in net, m.to = n, RecvPing(n, m)
  PROVE  Serene'
<1> DEFINE s == node[n]
           t == ApplyDeltas(n, PromoteSenderAlive(n, s, m.from, m.inc), m.deltas)
<1>1. LocalInv(n, s, issued) /\ AllAlive(s.members) /\ m.from \in DOMAIN s.members /\ m.from \in Node
  BY Zenon, LossFacts
<1>2. m.type = "Ping"
  BY Zenon DEF RecvPing
<1>3. PICK d \in OutgoingDeltas(n, t) : Receive(n, m, t, {Ack(n, m.from, t.inc, d)})
  BY Zenon, <1>1 DEF RecvPing
<1>4. Same(t, s) /\ LocalInv(n, t, issued)
  BY <1>1, <1>2, HearsAlive
<1> HIDE DEF t
<1> DEFINE a == Ack(n, m.from, t.inc, d)
<1>5. a.type = "Ack" /\ a.from = n /\ a.to = m.from
  BY Zenon DEF Ack
<1>6. Cheerful(a)
  BY Zenon, <1>4, OutgoingAlive, SendsCheer DEF Same
<1> HIDE DEF a
<1>7. Took(n, t, {m}, {a})
  BY <1>1, <1>3, <1>5, ReceiveTook DEF a
<1>8. Answers(n, t, {m}, {a}) /\ Asks(n, t, {m}, {a})
  BY Zenon, <1>2, <1>4, <1>5 DEF Answers, Asks, Same, AckFrom
<1>9. losses = 0 => Direct(n, t, {m}, {a})
  BY Zenon, <1>2, <1>4, <1>5 DEF Direct, Same, AckFrom, Serene
<1>10. AllAlive(t.members)
  BY Zenon, <1>4 DEF Same
<1> QED BY <1>6, <1>7, <1>8, <1>9, <1>10, SereneStep

\* _handle_ack
LEMMA RecvAckSerene ==
  ASSUME IInv, Serene, Full, NEW n \in Node, NEW m \in net, m.to = n, RecvAck(n, m)
  PROVE  Serene'
<1> DEFINE s == [node[n] EXCEPT !.probe = {p \in @ : p.target # m.from}]
           s1 == ApplyDeltas(n, PromoteSenderAlive(n, s, m.from, m.inc), m.deltas)
           helped == {h \in s.helps : h.target = m.from}
           t == [s1 EXCEPT !.helps = @ \ helped]
           out == {PingReqAck(n, h, TRUE) : h \in helped}
<1>1. LocalInv(n, node[n], issued) /\ AllAlive(node[n].members) /\ node[n] \in LocalState
  BY Zenon, LossFacts
<1>2. m.type = "Ack" /\ Receive(n, m, t, out)
  BY Zenon DEF RecvAck
<1>3. /\ s \in LocalState /\ s.members = node[n].members /\ s.inc = node[n].inc
      /\ s.backlog = node[n].backlog /\ s.helps = node[n].helps
      /\ s.probe = {p \in node[n].probe : p.target # m.from}
  BY Zenon, <1>1 DEF LocalState
<1> HIDE DEF s
<1>4. LocalInv(n, s, issued)
  <2>1. \A p \in s.probe : p.target \in DOMAIN node[n].members \ {n}
    BY Zenon, <1>1, <1>3 DEF LocalInv
  <2> QED  BY <1>1, <1>3, <2>1, SameView
<1>5. Same(s1, s)
  BY <1>1, <1>2, <1>3, <1>4, HearsAlive
<1> HIDE DEF s1
<1>6. /\ t.members = s1.members /\ t.helps = s.helps \ helped /\ t.probe = s.probe
  BY Zenon, <1>5 DEF Same, LocalState
<1>7. helped \subseteq PendingHelp
  BY Zenon, <1>1, <1>3 DEF LocalState
<1>8. \A h \in PendingHelp :
        LET y == PingReqAck(n, h, TRUE)
        IN  y.type = "PingReqAck" /\ y.to = h.requester /\ y.id = h.id /\ y.to \in Node
  BY Zenon DEF PingReqAck, PendingHelp
<1>9. \A x \in out : Cheerful(x) /\ x.to \in Node
  BY <1>7, <1>8 DEF Cheerful, PingReqAck
<1>10. \A h \in helped : \E y \in out : y.type = "PingReqAck" /\ y.to = h.requester /\ y.id = h.id
  BY Zenon, <1>7, <1>8
<1>11. \A h \in node[n].helps \ t.helps : h \in helped
  BY Zenon, <1>3, <1>6
<1>12. /\ \A h \in t.helps : h \in node[n].helps /\ h.target # m.from
       /\ \A p \in t.probe : p \in node[n].probe /\ p.target # m.from
  BY Zenon, <1>3, <1>6
<1>13. node[n].helps = {} => out = {} /\ t.helps = {}
  BY Zenon, <1>3, <1>6
<1>14. AllAlive(t.members)
  BY Zenon, <1>5, <1>6 DEF Same
<1> HIDE DEF t, out, helped
<1>15. Took(n, t, {m}, out)
  BY <1>2, <1>9, ReceiveTook
<1>16. Answers(n, t, {m}, out)
  BY Zenon, <1>2, <1>10, <1>11 DEF Answers
<1>17. Asks(n, t, {m}, out)
  BY Zenon, <1>2, <1>12 DEF Asks, AckFrom
<1>18. losses = 0 => Direct(n, t, {m}, out)
  BY Zenon, <1>12, <1>13 DEF Direct, AckFrom, Serene
<1> QED BY <1>9, <1>14, <1>15, <1>16, <1>17, <1>18, SereneStep
\* _handle_pingreq
LEMMA RecvPingReqSerene ==
  ASSUME IInv, Serene, Full, NEW n \in Node, NEW m \in net, m.to = n, RecvPingReq(n, m)
  PROVE  Serene'
<1> DEFINE s == node[n]
           help == [id |-> m.id, target |-> m.target, requester |-> m.from]
           t == [s EXCEPT !.helps = @ \cup {help}]
<1>1. /\ LocalInv(n, s, issued) /\ AllAlive(s.members) /\ s \in LocalState
      /\ DOMAIN s.members = Node /\ m \in Message
  BY Zenon, LossFacts, ReceiveFacts
<1>2. m.type = "PingReq" /\ m.target \in Node
  BY Zenon, <1>1 DEF RecvPingReq, Message
<1>3. PICK d \in OutgoingDeltas(n, s) : Receive(n, m, t, {Ping(n, m.target, s.inc, d)})
  BY Zenon, <1>1, <1>2 DEF RecvPingReq
<1> DEFINE a == Ping(n, m.target, s.inc, d)
<1>4. a.type = "Ping" /\ a.from = n /\ a.to = m.target
  BY Zenon DEF Ping
<1>5. Cheerful(a)
  BY Zenon, <1>1, OutgoingAlive, SendsCheer
<1>6. t.members = s.members /\ t.helps = s.helps \cup {help} /\ t.probe = s.probe
  BY Zenon, <1>1 DEF LocalState
<1>7. Receive(n, m, t, {a})
  BY Zenon, <1>3
<1> HIDE DEF a, t
<1>8. Took(n, t, {m}, {a})
  BY Zenon, <1>2, <1>4, <1>7, ReceiveTook
<1>9. Answers(n, t, {m}, {a})
  <2>1. help.requester = m.from /\ help.id = m.id /\ help \in t.helps
    BY Zenon, <1>6
  <2> HIDE DEF help
  <2> QED BY Zenon, <1>2, <1>6, <2>1 DEF Answers
<1>10. Asks(n, t, {m}, {a})
  BY <1>2, <1>4, <1>6 DEF Asks, AckFrom, Pings
<1>11. losses # 0
  BY Zenon, <1>2 DEF Serene
<1> QED BY <1>1, <1>5, <1>6, <1>8, <1>9, <1>10, <1>11, SereneStep

\* _handle_pingreqack
LEMMA RecvPingReqAckSerene ==
  ASSUME IInv, Serene, Full, NEW n \in Node, NEW m \in net, m.to = n, RecvPingReqAck(n, m)
  PROVE  Serene'
<1> DEFINE s == node[n]
           clear == [s EXCEPT !.probe = {}]
<1>1. AllAlive(s.members) /\ s \in LocalState /\ Cheerful(m)
  BY Zenon, LossFacts
<1>2. m.type = "PingReqAck" /\ m.success
  BY Zenon, <1>1 DEF RecvPingReqAck, Cheerful
<1>3. clear.members = s.members /\ clear.helps = s.helps /\ clear.probe = {}
  BY Zenon, <1>1 DEF LocalState
<1>4. ASSUME NEW t, t = s \/ t = clear, Receive(n, m, t, {}),
             \A p \in t.probe : p.id # m.id
      PROVE  Serene'
  <2>1. t.members = s.members /\ t.helps = s.helps /\ t.probe \subseteq s.probe
    BY Zenon, <1>3, <1>4
  <2> HIDE DEF clear
  <2>2. Took(n, t, {m}, {})
    BY Zenon, <1>4, ReceiveTook
  <2>3. Answers(n, t, {m}, {}) /\ Asks(n, t, {m}, {})
    BY <1>2, <1>4, <2>1 DEF Answers, Asks, AckFrom
  <2>4. losses # 0
    BY Zenon, <1>2 DEF Serene
  <2> QED BY <1>1, <2>1, <2>2, <2>3, <2>4, SereneStep
<1>5. \/ Receive(n, m, s, {}) /\ \A p \in s.probe : p.id # m.id
      \/ Receive(n, m, clear, {})
  BY Zenon, <1>2 DEF RecvPingReqAck
<1> HIDE DEF s, clear
<1> QED BY Zenon, <1>3, <1>4, <1>5

\* _handle_join
LEMMA RecvJoinSerene ==
  ASSUME IInv, Serene, Full, NEW n \in Node, NEW m \in net, m.to = n, RecvJoin(n, m)
  PROVE  Serene'
<1> DEFINE s == node[n]
           recs == [x \in {m.from} |-> m.rec]
           t == Install(s, recs)
           answer(u) == {MembershipDelta(n, m.from, u.members)}
<1>1. AllAlive(s.members) /\ s \in LocalState /\ m.from \in Node /\ m \in Message /\ MessageInv(m, issued)
  BY Zenon, LossFacts, ReceiveFacts
<1>2. m.type = "Join"
  BY Zenon DEF RecvJoin
<1>3. m.rec \in MemberRecord /\ m.rec.state = ALIVE
  BY Zenon, <1>1, <1>2 DEF Message, MessageInv
<1>4. recs \in MemberDict
  BY <1>1, <1>3, DictIntro
<1>5. AllAlive(recs)
  BY Zenon, <1>3 DEF AllAlive
<1> HIDE DEF recs
<1>6. Same(t, s) /\ Same(s, s)
  BY <1>1, <1>4, <1>5, InstallAlive DEF Same
<1>7. ASSUME NEW u, Same(u, s), NEW out, out = {} \/ out = answer(u), Receive(n, m, u, out)
      PROVE  Serene'
  <2>1. Cheerful(MembershipDelta(n, m.from, u.members))
    BY Zenon, <1>7, WireAlive, SendsCheer DEF Same
  <2>2. \A x \in out : x.to \in Node /\ Cheerful(x) /\ x.type = "MembershipDelta"
    BY <1>1, <1>7, <2>1 DEF MembershipDelta
  <2> QED BY <1>2, <1>7, <2>2, QuietReceive
<1>8. \/ Receive(n, m, s, {})
      \/ Receive(n, m, s, answer(s))
      \/ Receive(n, m, t, answer(t))
  BY Zenon DEF RecvJoin, recs
<1> HIDE DEF s, t
<1> QED BY <1>6, <1>7, <1>8

\* _handle_delta
LEMMA RecvMembershipDeltaSerene ==
  ASSUME IInv, Serene, Full, NEW n \in Node, NEW m \in net, m.to = n,
         RecvMembershipDelta(n, m)
  PROVE  Serene'
<1> DEFINE s == node[n]
           new == {x \in DOMAIN m.deltas \ DOMAIN s.members :
                     x # n /\ Admit(n, m.deltas[x])}
           recs == [x \in new |-> m.deltas[x]]
           s0 == ApplyPeerDeltas(n, s, m.deltas)
           t == Install(s0, recs)
<1>1. /\ LocalInv(n, s, issued) /\ AllAlive(s.members) /\ DOMAIN s.members = Node
      /\ Cheerful(m)
  BY Zenon, LossFacts
<1>2. m.type = "MembershipDelta" /\ Receive(n, m, Refute(n, t, m.deltas), {})
  BY Zenon DEF RecvMembershipDelta
<1>3. m.deltas \in MemberDict /\ AllAlive(m.deltas)
  BY Zenon, <1>1, <1>2, ReceiveFacts DEF Cheerful
<1>4. new = {}
  BY Zenon, <1>1, <1>3, DictElim
<1>5. recs \in MemberDict /\ AllAlive(recs)
  BY Zenon, <1>4, DictIntro DEF AllAlive
<1>6. Same(s0, s)
  BY Zenon, <1>1, <1>3, DeltasAlive
<1> HIDE DEF s0, recs
<1>7. Same(t, s)
  <2>1. Same(t, s0)
    BY Zenon, <1>5, <1>6, InstallAlive DEF Same
  <2> HIDE DEF t
  <2> QED BY Zenon, <1>6, <2>1 DEF Same
<1> HIDE DEF t
<1>8. Receive(n, m, t, {})
  BY Zenon, <1>2, <1>3, NoRefute
<1> QED BY <1>2, <1>7, <1>8, QuietReceive
\* No timer of the node expires.
LEMMA TimersSerene ==
  ASSUME IInv, Serene, Full, Timely, NEW n \in Node, NEW r \in TimerResults(n)
  PROVE  r.out = {} /\ Same(r.s, node[n]) /\ LocalInv(n, r.s, issued)
<1> DEFINE s == node[n]
<1>1. LocalInv(n, s, issued) /\ s \in LocalState /\ AllAlive(s.members)
  BY Zenon, LossFacts
<1>2. PICK e \in Expired(n) :
        r = [s |-> AfterTimers(s, e.gone, e.late, e.dead),
             out |-> {PingReqAck(n, h, FALSE) : h \in e.late}]
  BY Zenon DEF TimerResults
<1>3. e.late = {}
  BY Zenon DEF Expired, OverdueHelps, Serene
<1>4. e.dead = {}
  <2>1. Suspects(s) = {}
    BY <1>1 DEF Suspects, AllAlive, ALIVE, SUSPECT
  <2> QED BY Zenon, <2>1 DEF Expired
<1> DEFINE u == [s EXCEPT !.backlog = [x \in DOMAIN @ \ e.gone |-> @[x]], !.helps = @ \ e.late]
           recs == [x \in e.dead |-> Record(DEAD, s.members[x].inc, s.members[x].model)]
           rest == [x \in DOMAIN s.backlog \ e.gone |-> s.backlog[x]]
<1>5. rest \in MemberDict
  <2>1. s.backlog \in MemberDict
    BY Zenon, <1>1 DEF LocalState
  <2>2. DOMAIN s.backlog \subseteq Node /\ s.backlog \in [DOMAIN s.backlog -> MemberRecord]
    BY Zenon, <2>1, DictElim
  <2>3. rest \in [DOMAIN s.backlog \ e.gone -> MemberRecord]
    BY Zenon, <2>2
  <2> QED BY Zenon, <2>2, <2>3, DictIntro
<1>6. u \in LocalState /\ u.members = s.members /\ u.helps = s.helps /\ u.probe = s.probe
  <2> HIDE DEF rest
  <2>1. u = [s EXCEPT !.backlog = rest, !.helps = @ \ {}]
    BY Zenon, <1>3 DEF rest
  <2> QED BY Zenon, <1>1, <1>5, <2>1 DEF LocalState
<1>7. recs \in MemberDict /\ AllAlive(recs)
  BY Zenon, <1>4, DictIntro DEF AllAlive
<1>8. AfterTimers(s, e.gone, e.late, e.dead) = Install(u, recs)
  BY Zenon DEF AfterTimers
<1> HIDE DEF u, recs
<1>9. Same(Install(u, recs), u)
  BY <1>1, <1>6, <1>7, InstallAlive
<1>10. Same(r.s, s)
  BY Zenon, <1>2, <1>6, <1>8, <1>9 DEF Same
<1> QED BY <1>2, <1>3, <1>10, TimerResultsInv

\* With timely ticks a period ends only when its probe has been answered.
LEMMA PeriodSerene ==
  ASSUME Serene, Timely, NEW n \in Node, PeriodOver(n)
  PROVE  node[n].probe = {}
<1> SUFFICES ASSUME NEW p \in node[n].probe PROVE FALSE
  BY Zenon
<1>1. p.indirect /\ ~IndirectAwaited(p)
  BY Zenon DEF PeriodOver
<1>2. Helped(n, p) /\ up = Node
  BY Zenon, <1>1 DEF Serene
<1> QED BY Zenon, <1>1, <1>2 DEF Helped, IndirectAwaited

LEMMA EndSerene ==
  ASSUME NEW s \in LocalState, AllAlive(s.members), s.probe = {}
  PROVE  Same(EndPeriod(s), s)
<1> DEFINE u == [s EXCEPT !.probe = {}]
           ts == {p.target : p \in {q \in s.probe : q.indirect /\ ~q.success}}
           recs == [x \in {y \in ts : u.members[y].state = ALIVE} |->
                      Record(SUSPECT, u.members[x].inc, u.members[x].model)]
<1>1. ts = {}
  BY Zenon
<1>2. EndPeriod(s) = Install(u, recs)
  BY Zenon DEF EndPeriod, MarkSuspect
<1>3. recs \in MemberDict /\ AllAlive(recs)
  BY Zenon, <1>1, DictIntro DEF AllAlive
<1>4. u = s
  BY Zenon DEF LocalState
<1> HIDE DEF u, recs
<1> QED BY <1>2, <1>3, <1>4, InstallAlive

\* A tick that sends nothing
LEMMA QuietEmit ==
  ASSUME IInv, Serene, Full, NEW n \in Node, NEW t, Same(t, node[n]), Emit(n, t, {})
  PROVE  Serene'
<1>1. Took(n, t, {}, {})
  BY Zenon, EmitTook
<1>2. Answers(n, t, {}, {}) /\ Asks(n, t, {}, {})
  BY Zenon DEF Answers, Asks, Same, AckFrom
<1>3. losses = 0 => Direct(n, t, {}, {})
  BY Zenon DEF Direct, Same, AckFrom, Serene
<1>4. AllAlive(t.members)
  BY Zenon DEF Same
<1> QED BY <1>1, <1>2, <1>3, <1>4, SereneStep

LEMMA TickSerene ==
  ASSUME IInv, Serene, Full, Timely, NEW n \in Node, TickIdle(n) \/ TickNoPeers(n)
  PROVE  Serene'
<1>1. CASE TickIdle(n)
  BY Zenon, <1>1, TimersSerene, QuietEmit DEF TickIdle
<1>2. CASE TickNoPeers(n)
  <2>1. PICK r \in TimerResults(n) : Emit(n, EndPeriod(r.s), r.out)
    BY Zenon, <1>2 DEF TickNoPeers
  <2>2. r.out = {} /\ Same(r.s, node[n]) /\ node[n].probe = {}
    BY Zenon, <1>2, TimersSerene, PeriodSerene DEF TickNoPeers
  <2>3. Same(EndPeriod(r.s), r.s)
    BY Zenon, <2>2, EndSerene DEF Same
  <2>4. Same(EndPeriod(r.s), node[n])
    BY Zenon, <2>2, <2>3 DEF Same
  <2> QED BY <2>1, <2>2, <2>4, QuietEmit
<1> QED BY Zenon, <1>1, <1>2
\* _start_protocol_period
LEMMA TickPeriodSerene ==
  ASSUME IInv, Serene, Full, Timely, NEW n \in Node, NEW target \in Node,
         TickPeriod(n, target)
  PROVE  Serene'
<1> DEFINE new(c) == [id |-> <<n, c>>, target |-> target, indirect |-> FALSE,
                      helpers |-> {}, acks |-> 0, success |-> FALSE]
<1>0. PICK r \in TimerResults(n) : \E c : \E d \in OutgoingDeltas(n, EndPeriod(r.s)) :
        Emit(n, [EndPeriod(r.s) EXCEPT !.counter = c, !.probe = {new(c)}],
             r.out \cup {Ping(n, target, EndPeriod(r.s).inc, d)})
  BY Zenon DEF TickPeriod
<1>1. PICK c : \E d \in OutgoingDeltas(n, EndPeriod(r.s)) :
        Emit(n, [EndPeriod(r.s) EXCEPT !.counter = c, !.probe = {new(c)}],
             r.out \cup {Ping(n, target, EndPeriod(r.s).inc, d)})
  BY Zenon, <1>0
<1>2. r.out = {} /\ Same(r.s, node[n]) /\ LocalInv(n, r.s, issued) /\ node[n].probe = {}
  BY Zenon, TimersSerene, PeriodSerene DEF TickPeriod
<1> DEFINE s == EndPeriod(r.s)
           t == [s EXCEPT !.counter = c, !.probe = {new(c)}]
<1>a. PICK d \in OutgoingDeltas(n, s) : Emit(n, t, {Ping(n, target, s.inc, d)})
  BY Zenon, <1>1, <1>2
<1> DEFINE a == Ping(n, target, s.inc, d)
<1>3. Same(s, r.s) /\ LocalInv(n, s, issued)
  BY Zenon, <1>2, EndSerene, EndPeriodInv DEF Same
<1> HIDE DEF s
<1>4. t.members = s.members /\ t.helps = node[n].helps /\ t.probe = {new(c)}
  BY Zenon, <1>2, <1>3 DEF Same, LocalState
<1>5. new(c).target = target /\ ~new(c).indirect
  BY Zenon
<1>6. a.type = "Ping" /\ a.from = n /\ a.to = target
  BY Zenon DEF Ping
<1>7. Cheerful(a) /\ AllAlive(t.members)
  BY Zenon, <1>3, <1>4, OutgoingAlive, SendsCheer DEF Same
<1>8. Emit(n, t, {a})
  BY Zenon, <1>a
<1> HIDE DEF a, t, new
<1>9. Took(n, t, {}, {a})
  BY Zenon, <1>6, <1>8, EmitTook
<1>10. Answers(n, t, {}, {a}) /\ Asks(n, t, {}, {a})
  BY Zenon, <1>4, <1>5 DEF Answers, Asks, AckFrom
<1>11. losses = 0 => Direct(n, t, {}, {a})
  BY Zenon, <1>4, <1>5, <1>6 DEF Direct, Pings, Serene
<1> QED BY <1>7, <1>9, <1>10, <1>11, SereneStep

\* Helpers enough: there is another node to ask, and one is asked.
Helpers == KIndirect > 0 /\ \A n, t \in Node : Cardinality(Node \ {n, t}) > 0

LEMMA EmptyCard == Cardinality({}) = 0
BY Zenon DEF Cardinality

\* _maybe_escalate_probe
LEMMA TickEscalateSerene ==
  ASSUME IInv, Serene, Full, Timely, Helpers, NEW n \in Node, NEW target \in Node,
         TickEscalate(n, target)
  PROVE  Serene'
<1> DEFINE asked(r, p, chosen) ==
             Emit(n, [r.s EXCEPT !.probe = {[p EXCEPT !.indirect = TRUE, !.helpers = chosen]}],
                  r.out \cup {PingReq(n, h, p) : h \in chosen})
           few(peers) == Min(KIndirect, Cardinality(peers))
<1>1. PICK r \in TimerResults(n), p \in node[n].probe :
        LET peers == AlivePeers(n, r.s) \ {target}
        IN  /\ p.target = target /\ ~p.indirect
            /\ Timely => ~Awaited(n, target)
            /\ \/ \E chosen \in SUBSET peers :
                    Cardinality(chosen) = few(peers) /\ asked(r, p, chosen)
               \/ few(peers) = 0
  BY Zenon DEF TickEscalate
<1> HIDE DEF asked
<1>2. r.out = {} /\ Same(r.s, node[n]) /\ LocalInv(n, r.s, issued) /\ r.s \in LocalState
  BY TimersSerene DEF LocalInv
<1>3. losses # 0
  BY Zenon, <1>1 DEF Serene
<1>4. AlivePeers(n, r.s) \ {target} = Node \ {n, target}
  <2>1. DOMAIN r.s.members = Node
    BY Zenon, <1>2, DictElim DEF LocalInv, LocalState, Full
  <2> QED BY Zenon, <1>2, <2>1 DEF AlivePeers, Same, AllAlive
<1>5. few(Node \ {n, target}) > 0
  BY Zenon DEF Min, Helpers
<1> HIDE DEF few
<1>6. PICK chosen \in SUBSET (Node \ {n, target}) :
        Cardinality(chosen) = few(Node \ {n, target}) /\ asked(r, p, chosen)
  BY <1>1, <1>4, <1>5
<1> DEFINE q == [p EXCEPT !.indirect = TRUE, !.helpers = chosen]
           t == [r.s EXCEPT !.probe = {q}]
           out == {PingReq(n, h, p) : h \in chosen}
<1>7. q.id = p.id
  <2>1. p \in PendingProbe
    BY Zenon, <1>2 DEF Same, LocalState
  <2> QED BY Zenon, <2>1 DEF PendingProbe
<1>8. t.members = r.s.members /\ t.helps = node[n].helps /\ t.probe = {q}
  BY Zenon, <1>2 DEF Same, LocalState
<1>9. PICK h \in chosen : TRUE
  BY <1>5, <1>6, EmptyCard
<1>10. \A x \in out : /\ x.to \in Node /\ Cheerful(x) /\ x.type = "PingReq"
                      /\ x.from = n /\ x.id = p.id
  BY DEF PingReq, Cheerful
<1>11. PingReq(n, h, p) \in out
  BY Zenon, <1>9
<1>12. Emit(n, t, out)
  BY Zenon, <1>2, <1>6 DEF asked
<1> HIDE DEF q, t, out
<1>13. Took(n, t, {}, out)
  BY <1>10, <1>12, EmitTook
<1>14. Answers(n, t, {}, out) /\ Asks(n, t, {}, out)
  BY <1>7, <1>8, <1>10, <1>11 DEF Answers, Asks, AckFrom
<1> QED BY <1>2, <1>3, <1>8, <1>10, <1>13, <1>14, SereneStep DEF Same
\* The runner tells its observers, or a node joins again.
LEMMA OtherSerene ==
  ASSUME IInv, Serene, Full, NEW n \in Node,
         FireObservers(n) \/ \E seed \in Node : BootstrapJoin(n, seed)
  PROVE  Serene'
<1>0. AllAlive(node[n].members) /\ node[n] \in LocalState /\ node \in [Node -> LocalState]
  BY Zenon, LossFacts DEF IInv, TypeOK
<1>1. ASSUME NEW t, t.members = node[n].members, t.helps = node[n].helps,
             t.probe = node[n].probe, NEW out, Took(n, t, {}, out),
             \A x \in out : Cheerful(x) /\ x.type = "Join"
      PROVE  Serene'
  <2>1. Answers(n, t, {}, out) /\ Asks(n, t, {}, out)
    BY Zenon, <1>1 DEF Answers, Asks, AckFrom
  <2>2. losses = 0 => Direct(n, t, {}, out)
    BY Zenon, <1>1 DEF Direct, AckFrom, Serene
  <2> QED BY <1>0, <1>1, <2>1, <2>2, SereneStep
<1>2. CASE FireObservers(n)
  <2>1. PICK told : /\ node' = [node EXCEPT ![n] = [node[n] EXCEPT !.log = [x \in Node |-> <<>>],
                                                                   !.seen = told]]
                    /\ UNCHANGED <<up, net, losses, crashes>>
    BY Zenon, <1>2 DEF FireObservers
  <2> DEFINE t == [node[n] EXCEPT !.log = [x \in Node |-> <<>>], !.seen = told]
  <2>2. t.members = node[n].members /\ t.helps = node[n].helps /\ t.probe = node[n].probe
    BY Zenon, <1>0 DEF LocalState
  <2>3. Took(n, t, {}, {})
    BY Zenon, <2>1 DEF Took
  <2> HIDE DEF t
  <2> QED BY <1>1, <2>2, <2>3
<1>3. ASSUME NEW seed \in Node, BootstrapJoin(n, seed)
      PROVE  Serene'
  <2>1. Cheerful(Join(n, seed)) /\ Join(n, seed).type = "Join" /\ Join(n, seed).to = seed
    BY Zenon DEF Cheerful, Join
  <2>2. node' = [node EXCEPT ![n] = node[n]]
    BY Zenon, <1>0, <1>3 DEF BootstrapJoin
  <2>3. net' = net \cup {Join(n, seed)}
    BY Zenon, <1>3, <2>1 DEF BootstrapJoin, Send
  <2>4. Took(n, node[n], {}, {Join(n, seed)})
    BY Zenon, <1>3, <2>2, <2>3 DEF Took, BootstrapJoin
  <2> QED BY Zenon, <1>1, <2>1, <2>4
<1> QED BY Zenon, <1>2, <1>3

\* The first loss: nothing has been asked of anybody yet.
LEMMA LoseSerene ==
  ASSUME IInv, Serene, Full, NEW m \in net, Lose(m), losses' <= 1
  PROVE  Serene'
<1>1. losses = 0 /\ losses' # 0 /\ net' \subseteq net /\ node' = node /\ up' = up
  BY DEF Lose, IInv, TypeOK, Serene, Message
<1>2. \A n \in Node : /\ AllAlive(node'[n].members) /\ node'[n].helps = {}
                      /\ \A p \in node'[n].probe : ~p.indirect
  BY Zenon, <1>1 DEF Serene
<1> QED BY <1>1, <1>2 DEF Serene, Cheerful, AllAlive

LEMMA LossInit ==
  Init => LossInv
<1> SUFFICES ASSUME Init PROVE Serene
  BY Zenon DEF LossInv
<1>1. ASSUME NEW n \in Node
      PROVE  AllAlive(node[n].members) /\ node[n].helps = {} /\ node[n].probe = {}
  BY Zenon DEF Init, Fresh, AllAlive, Record
<1> QED BY Zenon, <1>1 DEF Serene, Init

LEMMA LossNext ==
  ASSUME Full, Helpers, IInv, LossInv, [Next]_vars
  PROVE  LossInv'
<1> SUFFICES ASSUME Timely, crashes' = 0, losses' <= 1 PROVE Serene'
  BY Zenon DEF LossInv
<1>0. crashes \in Nat /\ losses \in Nat
  BY Zenon DEF IInv, TypeOK
<1>1. ASSUME NEW n \in Node, Tick(n) PROVE Serene'
  <2>1. UNCHANGED <<losses, crashes>>
    BY Zenon, <1>1 DEF Tick, TickIdle, TickNoPeers, TickPeriod, TickEscalate, Emit
  <2>2. Serene
    BY Zenon, <2>1 DEF LossInv
  <2> QED BY <1>1, <2>2, TickSerene, TickPeriodSerene, TickEscalateSerene DEF Tick
<1>2. ASSUME NEW m \in net, Recv(m.to, m) PROVE Serene'
  <2>1. UNCHANGED <<losses, crashes>>
    BY Zenon, <1>2 DEF Recv, RecvPing, RecvAck, RecvPingReq, RecvPingReqAck, RecvJoin,
                RecvMembershipDelta, Receive
  <2>2. Serene /\ m.to \in Node
    BY <1>2, <2>1 DEF LossInv, Recv, IInv, TypeOK
  <2> QED BY Zenon, <1>2, <2>2, RecvPingSerene, RecvAckSerene, RecvPingReqSerene,
             RecvPingReqAckSerene, RecvJoinSerene, RecvMembershipDeltaSerene DEF Recv
<1>3. ASSUME NEW n \in Node, FireObservers(n) \/ \E seed \in Node : BootstrapJoin(n, seed)
      PROVE  Serene'
  <2>1. Serene
    BY Zenon, <1>3 DEF FireObservers, BootstrapJoin, LossInv
  <2> QED BY Zenon, <1>3, <2>1, OtherSerene
<1>4. ASSUME NEW n \in Node, Crash(n) PROVE Serene'
  BY <1>0, <1>4 DEF Crash
<1>5. ASSUME NEW n \in Node, Restart(n) PROVE Serene'
  <2>1. Serene
    BY Zenon, <1>5 DEF Restart, LossInv
  <2> QED BY <1>5, <2>1 DEF Restart, Serene
<1>6. ASSUME NEW m \in net, Lose(m) PROVE Serene'
  <2>1. crashes = 0 /\ losses <= 1
    BY <1>0, <1>6 DEF Lose
  <2>2. Serene
    BY Zenon, <2>1 DEF LossInv
  <2> QED BY <1>6, <2>2, LoseSerene
<1>7. CASE UNCHANGED vars
  <2>1. UNCHANGED <<node, up, net, losses, crashes>>
    BY Zenon, <1>7 DEF vars
  <2>2. Serene
    BY Zenon, <2>1 DEF LossInv
  <2> QED BY <2>1, <2>2 DEF Serene, Cheerful, AllAlive, Awaited, Helped
<1> QED BY Zenon, <1>1, <1>2, <1>3, <1>4, <1>5, <1>6, <1>7 DEF Next

\* In a full mesh of three nodes or more that use indirect probes, one lost
\* datagram makes nobody suspected as long as no process crashes and timeouts
\* outlast the round trips.
THEOREM OneLossIsMasked ==
  ASSUME Full, Helpers
  PROVE  Spec => []LossMasked
<1>1. Init => LossInv
  BY Zenon, LossInit
<1>2. IInv /\ LossInv /\ [Next]_vars => LossInv'
  BY Zenon, LossNext
<1>3. IInv /\ LossInv => LossMasked
  <2> SUFFICES ASSUME IInv, LossInv, Timely /\ crashes = 0 /\ losses <= 1,
                      NEW n \in Node, NEW x \in Node
               PROVE  node[n].members[x].state = ALIVE
    BY Zenon DEF LossMasked
  <2>1. Serene
    BY Zenon DEF LossInv
  <2> QED BY Zenon, <2>1, LossFacts DEF AllAlive
<1> QED BY <1>1, <1>2, <1>3, Invariance, PTL DEF Spec
=============================================================================
