-------------------------- MODULE MigrationProofs ---------------------------
(***************************************************************************)
(* Proofs about Migration, for every cluster, every shards.yaml and every  *)
(* policy: the operators it is built from, its types, the safety of the    *)
(* weight stack and of the ownership views, and the alignment of ids and   *)
(* weights: without eviction, or as long as every transfer brings the      *)
(* weights it was asked for.                                               *)
(***************************************************************************)
EXTENDS Migration, FiniteSetTheorems, TLAPS

(* Sequences of distinct elements. *)

Distinct(s) == \A i, j \in 1..Len(s) : s[i] = s[j] => i = j

\* The slot of an element is where it is.
LEMMA SlotFact ==
  ASSUME NEW S, NEW s \in Seq(S), NEW e \in Ids(s)
  PROVE  Slot(s, e) \in 1..Len(s) /\ s[Slot(s, e)] = e
BY Zenon DEF Slot, Ids

\* attach_expert adds one element.
LEMMA AppendFact ==
  ASSUME NEW S, NEW s \in Seq(S), NEW e \in S
  PROVE  /\ Append(s, e) \in Seq(S)
         /\ Len(Append(s, e)) = Len(s) + 1
         /\ \A i \in 1..Len(s) : Append(s, e)[i] = s[i]
         /\ Append(s, e)[Len(s) + 1] = e
         /\ Ids(Append(s, e)) = Ids(s) \cup {e}
         /\ Distinct(s) /\ e \notin Ids(s) => Distinct(Append(s, e))
<1> DEFINE t == Append(s, e)
<1>1. t \in Seq(S) /\ Len(t) = Len(s) + 1 /\ t[Len(s) + 1] = e
  OBVIOUS
<1>2. \A i \in 1..Len(s) : t[i] = s[i]
  OBVIOUS
<1>3. Len(s) \in Nat
  OBVIOUS
<1> HIDE DEF t
<1>4. \A i \in 1..Len(t) : i \in 1..Len(s) \/ i = Len(s) + 1
  BY <1>1, <1>3
<1>5. 1..Len(s) \subseteq 1..Len(t) /\ Len(s) + 1 \in 1..Len(t)
  BY <1>1, <1>3
<1>6. Ids(t) = Ids(s) \cup {e}
  BY Zenon, <1>1, <1>2, <1>4, <1>5 DEF Ids
<1>7. Distinct(s) /\ e \notin Ids(s) => Distinct(t)
  BY Zenon, <1>1, <1>2, <1>3, <1>4 DEF Ids, Distinct
<1> QED
  BY Zenon, <1>1, <1>2, <1>6, <1>7 DEF t

\* A stack without a slot is a stack.
LEMMA RemoveSlotType ==
  ASSUME NEW S, NEW s \in Seq(S), NEW i
  PROVE  RemoveSlot(s, i) \in Seq(S)
<1>1. Len(s) \in Nat
  OBVIOUS
<1> DEFINE k == IF Len(s) = 0 THEN 0 ELSE Len(s) - 1
<1>2. k \in Nat /\ 1..(Len(s) - 1) = 1..k
  BY <1>1
<1>3. \A j \in 1..(Len(s) - 1) : s[j] \in S /\ s[j + 1] \in S
  BY <1>1
<1>4. \A j \in 1..(Len(s) - 1) : (IF j < i THEN s[j] ELSE s[j + 1]) \in S
  BY Zenon, <1>3
<1> HIDE DEF k
<1>5. RemoveSlot(s, i) = [j \in 1..k |-> IF j < i THEN s[j] ELSE s[j + 1]]
  BY Zenon, <1>2 DEF RemoveSlot
<1>6. \A j \in 1..k : (IF j < i THEN s[j] ELSE s[j + 1]) \in S
  BY Zenon, <1>2, <1>4
<1> QED BY <1>2, <1>5, <1>6

\* detach_expert takes one slot away and moves the later ones down.
LEMMA RemoveSlotFact ==
  ASSUME NEW S, NEW s \in Seq(S), NEW i \in 1..Len(s)
  PROVE  /\ RemoveSlot(s, i) \in Seq(S)
         /\ Len(RemoveSlot(s, i)) = Len(s) - 1
         /\ \A j \in 1..(i - 1) : RemoveSlot(s, i)[j] = s[j]
         /\ Distinct(s) => /\ Distinct(RemoveSlot(s, i))
                           /\ Ids(RemoveSlot(s, i)) = Ids(s) \ {s[i]}
<1> DEFINE t == RemoveSlot(s, i)
<1>1. Len(s) \in Nat /\ Len(s) >= 1 /\ i \in Nat /\ 1 <= i /\ i <= Len(s)
  OBVIOUS
<1>2. \A j \in 1..(Len(s) - 1) : j \in 1..Len(s) /\ j + 1 \in 1..Len(s)
  BY <1>1
<1>3. t = [j \in 1..(Len(s) - 1) |-> IF j < i THEN s[j] ELSE s[j + 1]]
  BY Zenon DEF RemoveSlot
<1>4. \A j \in 1..(Len(s) - 1) : (IF j < i THEN s[j] ELSE s[j + 1]) \in S
  BY <1>2
<1>5. Len(s) - 1 \in Nat
  BY <1>1
<1>6. t \in Seq(S) /\ Len(t) = Len(s) - 1
  BY <1>3, <1>4, <1>5
<1>7. \A j \in 1..(Len(s) - 1) : t[j] = IF j < i THEN s[j] ELSE s[j + 1]
  BY Zenon, <1>3
<1> HIDE DEF t
<1>8. \A j \in 1..(i - 1) : t[j] = s[j]
  BY <1>1, <1>7
<1>9. ASSUME Distinct(s) PROVE Distinct(t)
  <2> DEFINE old(j) == IF j < i THEN j ELSE j + 1
  <2>1. \A j \in 1..(Len(s) - 1) : old(j) \in 1..Len(s) /\ t[j] = s[old(j)]
    BY Zenon, <1>2, <1>7
  <2>2. \A j, k \in 1..(Len(s) - 1) : old(j) = old(k) => j = k
    BY <1>1
  <2> HIDE DEF old
  <2>3. \A j, k \in 1..Len(s) : s[j] = s[k] => j = k
    BY Zenon, <1>9 DEF Distinct
  <2>4. ASSUME NEW j \in 1..(Len(s) - 1), NEW k \in 1..(Len(s) - 1), t[j] = t[k]
        PROVE  j = k
    BY <2>1, <2>2, <2>3, <2>4
  <2> QED BY Zenon, <1>6, <2>4 DEF Distinct
<1>10. ASSUME Distinct(s) PROVE Ids(t) = Ids(s) \ {s[i]}
  <2>1. ASSUME NEW j \in 1..(Len(s) - 1) PROVE t[j] \in Ids(s) \ {s[i]}
    <3>1. PICK k \in 1..Len(s) : k # i /\ t[j] = s[k]
      BY <1>1, <1>2, <1>7
    <3>2. s[k] # s[i]
      BY Zenon, <1>10, <2>1, <3>1, <1>1 DEF Distinct
    <3> QED BY Zenon, <3>1, <3>2 DEF Ids
  <2>2. ASSUME NEW j \in 1..Len(s), j # i PROVE s[j] \in Ids(t)
    <3>1. CASE j < i
      BY <1>1, <1>6, <1>7, <3>1 DEF Ids
    <3>2. CASE j > i
      <4>1. j - 1 \in 1..(Len(s) - 1) /\ ~(j - 1 < i) /\ (j - 1) + 1 = j
        BY <1>1, <3>2
      <4> QED BY Zenon, <1>6, <1>7, <4>1 DEF Ids
    <3> QED BY <1>1, <2>2, <3>1, <3>2
  <2> QED BY Zenon, <1>6, <2>1, <2>2 DEF Ids
<1> QED
  BY Zenon, <1>6, <1>8, <1>9, <1>10 DEF t
-----------------------------------------------------------------------------
(* Types. *)

\* The fields that a scanner's place in its scan gives it.
LEMMA ScanFields ==
  ASSUME NEW s \in ScanType
  PROVE  /\ s.pc \in {"asked", "slicing"} => s.e \in Expert /\ s.src \in Node
         /\ s.pc = "slicing" => s.slot \in Nat \ {0}
         /\ s.pc = "attach" => s.e \in Expert /\ s.w \in Weights
         /\ s.pc \in {"register", "again", "detach", "unregister"} => s.e \in Expert
BY Zenon DEF ScanType

\* Every place the code moves a scanner to is a place.
LEMMA ScanPlaces ==
  /\ Idle \in ScanType /\ Evict \in ScanType
  /\ \A e \in Expert, src \in Node :
       [pc |-> "asked", e |-> e, src |-> src] \in ScanType
  /\ \A e \in Expert, src \in Node, i \in Nat \ {0} :
       [pc |-> "slicing", e |-> e, src |-> src, slot |-> i] \in ScanType
  /\ \A e \in Expert, w \in Weights :
       [pc |-> "attach", e |-> e, w |-> w] \in ScanType
  /\ \A e \in Expert, p \in {"register", "again", "detach", "unregister"} :
       [pc |-> p, e |-> e] \in ScanType
BY Zenon DEF ScanType, Idle, Evict

\* The seeded view is a view.
LEMMA SeedFact == SeedView \in ViewType /\ [k \in Key |-> NoEntry] \in ViewType
BY Zenon DEF SeedView, ViewType, EntryType, Entry, NoEntry, ADD, REMOVE, Key

\* _ownership_view_put keeps a view a view and never goes back.
LEMMA PutFact ==
  ASSUME NEW v \in ViewType, NEW d \in DeltaType
  PROVE  /\ Put(v, d) \in ViewType
         /\ \A k \in Key : Put(v, d)[k] = v[k] \/ Put(v, d)[k].ts > v[k].ts
<1>1. CASE d.ts > v[d.key].ts
  <2>1. Put(v, d) = [v EXCEPT ![d.key] = Entry(d.act, d.ts)]
    BY Zenon, <1>1 DEF Put
  <2>2. Entry(d.act, d.ts) \in EntryType /\ Entry(d.act, d.ts).ts = d.ts
    BY Zenon DEF Entry, EntryType, DeltaType
  <2> QED BY Zenon, <1>1, <2>1, <2>2 DEF ViewType
<1>2. CASE ~(d.ts > v[d.key].ts)
  BY Zenon, <1>2 DEF Put
<1> QED BY Zenon, <1>1, <1>2

\* Nor does a received batch.
LEMMA PutBatchFact ==
  ASSUME NEW v \in ViewType, NEW r \in ViewType, NEW b \in SUBSET DeltaType
  PROVE  /\ PutBatch(v, r, b) \in ViewType
         /\ \A k \in Key :
              PutBatch(v, r, b)[k] = v[k] \/ PutBatch(v, r, b)[k].ts > v[k].ts
<1> DEFINE wins(k) == {d \in Newest(b, k) : d.ts > r[k].ts /\ d.ts > v[k].ts}
           pick(k) == CHOOSE d \in wins(k) : TRUE
           new(k) == IF wins(k) = {} THEN v[k] ELSE Entry(pick(k).act, pick(k).ts)
<1>1. PutBatch(v, r, b) = [k \in Key |-> new(k)]
  BY Zenon DEF PutBatch
<1>2. ASSUME NEW k \in Key, wins(k) # {}
      PROVE  new(k) \in EntryType /\ new(k).ts > v[k].ts
  <2>1. pick(k) \in wins(k)
    BY Zenon, <1>2
  <2>2. wins(k) \subseteq b
    BY Zenon DEF Newest
  <2>3. pick(k) \in DeltaType /\ pick(k).ts > v[k].ts
    BY Zenon, <2>1, <2>2
  <2>4. new(k) = Entry(pick(k).act, pick(k).ts)
    BY Zenon, <1>2
  <2> HIDE DEF pick, wins, new
  <2> QED BY <2>3, <2>4 DEF Entry, EntryType, DeltaType
<1>3. ASSUME NEW k \in Key, wins(k) = {} PROVE new(k) = v[k]
  BY Zenon, <1>3
<1> HIDE DEF wins, pick, new
<1>4. \A k \in Key : v[k] \in EntryType
  BY Zenon DEF ViewType
<1>5. \A k \in Key : new(k) \in EntryType /\ (new(k) = v[k] \/ new(k).ts > v[k].ts)
  BY Zenon, <1>2, <1>3, <1>4
<1> QED BY Zenon, <1>1, <1>5 DEF ViewType

\* The timestamps of announcements are times.
LEMMA DeltaFact ==
  ASSUME TypeOK, NEW n \in Node, NEW e \in Expert
  PROVE  /\ clock \in Nat
         /\ Delta(n, e, ADD, clock) \in DeltaType
         /\ Delta(n, e, REMOVE, clock) \in DeltaType
         /\ RemoveTs(n, e) \in Nat
         /\ RemoveTs(n, e) > rview[n][<<n, e>>].ts
         /\ Delta(n, e, REMOVE, RemoveTs(n, e)) \in DeltaType
<1>1. clock \in Nat
  BY MigrationAssumption DEF TypeOK
<1>2. <<n, e>> \in Key
  BY Zenon DEF Key
<1>3. rview[n][<<n, e>>].ts \in Nat \cup {-1}
  BY <1>2 DEF TypeOK, ViewType, EntryType
<1> DEFINE t == rview[n][<<n, e>>].ts
<1> HIDE DEF t
<1>4. t \in Nat \cup {-1} => /\ Max(clock, Max(t, 0) + 1) \in Nat
                             /\ Max(clock, Max(t, 0) + 1) > t
  BY <1>1 DEF Max
<1>5. RemoveTs(n, e) \in Nat /\ RemoveTs(n, e) > rview[n][<<n, e>>].ts
  BY Zenon, <1>3, <1>4 DEF RemoveTs, t
<1> QED BY Zenon, <1>1, <1>2, <1>5 DEF Delta, DeltaType, ADD, REMOVE

\* The variables a scanner's step leaves to other steps.
LEMMA AnnounceAddType ==
  ASSUME TypeOK, NEW n \in Node, NEW e \in Expert, AnnounceAdd(n, e)
  PROVE  /\ outq' \in [Node -> SUBSET Queued]
         /\ rview' \in [Node -> ViewType]
         /\ last' \in [Node -> [Expert -> EntryType]]
<1> DEFINE d == Delta(n, e, ADD, clock)
<1>0. d \in DeltaType /\ clock \in Nat
  BY Zenon, DeltaFact
<1> HIDE DEF d
<1>1. d \in DeltaType /\ Entry(ADD, clock) \in EntryType
  BY Zenon, <1>0 DEF Entry, EntryType, ADD
<1>2. [rec |-> d, ttl |-> TTL] \in Queued
  BY <1>1, MigrationAssumption DEF Queued
<1>3. Put(rview[n], d) \in ViewType
  BY Zenon, <1>1, PutFact DEF TypeOK
<1>4. /\ outq' = [outq EXCEPT ![n] = @ \cup {[rec |-> d, ttl |-> TTL]}]
      /\ rview' = [rview EXCEPT ![n] = Put(@, d)]
      /\ last' = [last EXCEPT ![n][e] = Entry(ADD, clock)]
  BY Zenon DEF AnnounceAdd, d
<1> QED BY Zenon, <1>1, <1>2, <1>3, <1>4 DEF TypeOK

\* The same for a retraction.
LEMMA AnnounceRemoveType ==
  ASSUME TypeOK, NEW n \in Node, NEW e \in Expert, AnnounceRemove(n, e)
  PROVE  /\ outq' \in [Node -> SUBSET Queued]
         /\ rview' \in [Node -> ViewType]
         /\ last' \in [Node -> [Expert -> EntryType]]
<1> DEFINE t == RemoveTs(n, e)
           d == Delta(n, e, REMOVE, t)
<1>1. d \in DeltaType /\ t \in Nat
  BY Zenon, DeltaFact
<1>2. d.ts = t
  BY Zenon DEF Delta
<1>3. /\ outq' = [outq EXCEPT ![n] = @ \cup {[rec |-> d, ttl |-> TTL]}]
      /\ rview' = [rview EXCEPT ![n][<<n, e>>] = Entry(REMOVE, t)]
      /\ last' = [last EXCEPT ![n][e] = Entry(REMOVE, t)]
  BY Zenon, <1>2 DEF AnnounceRemove
<1> HIDE DEF d, t
<1>4. [rec |-> d, ttl |-> TTL] \in Queued
  BY <1>1, MigrationAssumption DEF Queued
<1>5. Entry(REMOVE, t) \in EntryType
  BY Zenon, <1>1 DEF Entry, EntryType, REMOVE
<1>6. rview' \in [Node -> ViewType]
  BY Zenon, <1>3, <1>5 DEF TypeOK, ViewType
<1> QED BY Zenon, <1>3, <1>4, <1>5, <1>6 DEF TypeOK

\* The initial state has the types.
LEMMA TypeInit == Init => TypeOK
<1> SUFFICES ASSUME Init PROVE TypeOK
  BY Zenon
<1>1. \A n \in Node : Bootstrap[n] \in Seq(Expert) /\ Ids(Bootstrap[n]) \subseteq Expert
  BY MigrationAssumption DEF Ids
<1>2. Bootstrap \in [Node -> Seq(Expert)] /\ Bootstrap \in [Node -> Seq(Weights)]
  BY MigrationAssumption DEF Weights
<1>3. view \in [Node -> ViewType] /\ rview \in [Node -> ViewType]
  BY Zenon, SeedFact DEF Init
<1>4. last \in [Node -> [Expert -> EntryType]]
  <2>1. \A n \in Node, e \in Expert : SeedView[<<n, e>>] \in EntryType
    BY Zenon, SeedFact DEF ViewType, Key
  <2> QED BY Zenon, <2>1 DEF Init
<1>5. scan \in [Node -> ScanType]
  BY Zenon, ScanPlaces DEF Init
<1>6. /\ clock \in 0..MaxClock /\ losses \in 0..MaxLosses /\ crashes \in 0..MaxCrashes
      /\ scanned \in [Node -> Nat] /\ attachTs \in [Node -> [Expert -> Nat]]
  BY MigrationAssumption DEF Init
<1> QED BY Zenon, <1>1, <1>2, <1>3, <1>4, <1>5, <1>6 DEF Init, TypeOK

Aligned == \A n \in Node : Len(stack[n]) = Len(held[n])

\* Every step keeps the types.
LEMMA TypeStep == TypeOK /\ Aligned /\ [Next]_vars => TypeOK'
<1> SUFFICES ASSUME TypeOK, Aligned, [Next]_vars PROVE TypeOK'
  BY Zenon
<1> USE DEF nodeVars, envVars
<1>1. ASSUME NEW n \in Node, NEW s \in ScanType, Step(n, s) PROVE scan' \in [Node -> ScanType]
  BY Zenon, <1>1 DEF Step, TypeOK
<1>2. ASSUME NEW n \in Node, ScannerStep(n) PROVE TypeOK'
  <2>0. scan[n] \in ScanType /\ clock \in Nat
    BY MigrationAssumption DEF TypeOK
  <2>1. CASE ScanNothing(n)
    <3>1. scan' \in [Node -> ScanType]
      BY Zenon, <1>1, <2>1, ScanPlaces DEF ScanNothing
    <3> QED BY Zenon, <2>1, <3>1 DEF ScanNothing, TypeOK
  <2>2. ASSUME NEW e \in Expert, NEW src \in Node, ScanPull(n, e, src) PROVE TypeOK'
    <3>1. scan' \in [Node -> ScanType]
      BY Zenon, <1>1, <2>2, ScanPlaces DEF ScanPull
    <3> QED BY Zenon, <2>2, <3>1 DEF ScanPull, TypeOK
  <2>3. CASE SliceLookup(n)
    <3>1. scan[n].e \in Expert /\ scan[n].src \in Node
      BY Zenon, <2>0, <2>3, ScanFields DEF SliceLookup
    <3>2. held[scan[n].src] \in Seq(Expert)
      BY Zenon, <3>1 DEF TypeOK
    <3>3. CASE scan[n].e \in Ids(held[scan[n].src])
      <4> DEFINE i == Slot(held[scan[n].src], scan[n].e)
      <4>1. i \in 1..Len(held[scan[n].src])
        BY Zenon, <3>2, <3>3, SlotFact
      <4>2. i \in Nat \ {0}
        BY <3>2, <4>1
      <4>3. Step(n, [pc |-> "slicing", e |-> scan[n].e, src |-> scan[n].src, slot |-> i])
        BY Zenon, <2>3, <3>3 DEF SliceLookup
      <4> HIDE DEF i
      <4>4. scan' \in [Node -> ScanType]
        BY Zenon, <1>1, <3>1, <4>2, <4>3, ScanPlaces
      <4> QED BY Zenon, <2>3, <4>4 DEF SliceLookup, TypeOK
    <3>4. CASE scan[n].e \notin Ids(held[scan[n].src])
      <4>1. scan' \in [Node -> ScanType]
        BY Zenon, <1>1, <2>3, <3>4, ScanPlaces DEF SliceLookup
      <4> QED BY Zenon, <2>3, <4>1 DEF SliceLookup, TypeOK
    <3> QED BY Zenon, <3>3, <3>4
  <2>4. CASE SliceTake(n)
    <3> DEFINE full == stack[scan[n].src]
               w == IF scan[n].slot <= Len(full) THEN full[scan[n].slot] ELSE Garbage
    <3>1. scan[n].e \in Expert /\ scan[n].src \in Node /\ scan[n].slot \in Nat \ {0}
      BY Zenon, <2>0, <2>4, ScanFields DEF SliceTake
    <3>2. full \in Seq(Weights)
      BY Zenon, <3>1 DEF TypeOK
    <3>3. w \in Weights
      <4>1. scan[n].slot <= Len(full) => full[scan[n].slot] \in Weights
        <5> HIDE DEF full
        <5> QED BY <3>1, <3>2
      <4> QED BY Zenon, <4>1 DEF Weights
    <3>4. Step(n, [pc |-> "attach", e |-> scan[n].e, w |-> w])
      BY Zenon, <2>4 DEF SliceTake
    <3> HIDE DEF w
    <3>5. scan' \in [Node -> ScanType]
      BY Zenon, <1>1, <3>1, <3>3, <3>4, ScanPlaces
    <3> QED BY Zenon, <2>4, <3>5 DEF SliceTake, TypeOK
  <2>5. CASE PullFails(n)
    <3>1. scan' \in [Node -> ScanType]
      BY Zenon, <1>1, <2>5, ScanPlaces DEF PullFails
    <3> QED BY Zenon, <2>5, <3>1 DEF PullFails, TypeOK
  <2>6. CASE Attach(n)
    <3>1. scan[n].e \in Expert /\ scan[n].w \in Weights
      BY Zenon, <2>0, <2>6, ScanFields DEF Attach
    <3>2. scan' \in [Node -> ScanType]
      BY Zenon, <1>1, <2>6, <3>1, ScanPlaces DEF Attach
    <3>3. Append(held[n], scan[n].e) \in Seq(Expert)
      BY <3>1 DEF TypeOK
    <3>4. Append(stack[n], scan[n].w) \in Seq(Weights)
      BY <3>1 DEF TypeOK
    <3> QED BY Zenon, <2>6, <3>2, <3>3, <3>4 DEF Attach, TypeOK
  <2>7. CASE Register(n)
    <3> DEFINE e == scan[n].e
    <3>1. e \in Expert
      BY Zenon, <2>0, <2>7, ScanFields DEF Register
    <3>2. scan' \in [Node -> ScanType]
      BY Zenon, <1>1, <2>7, <3>1, ScanPlaces DEF Register
    <3>3. Put(view[n], Delta(n, e, ADD, clock)) \in ViewType
      BY Zenon, <3>1, DeltaFact, PutFact DEF TypeOK
    <3>4. AnnounceAdd(n, e)
      BY Zenon, <2>7 DEF Register
    <3>5. /\ outq' \in [Node -> SUBSET Queued]
          /\ rview' \in [Node -> ViewType]
          /\ last' \in [Node -> [Expert -> EntryType]]
      BY Zenon, <3>1, <3>4, AnnounceAddType
    <3> QED BY Zenon, <2>0, <2>7, <3>1, <3>2, <3>3, <3>5 DEF Register, TypeOK
  <2>8. CASE AnnounceAgain(n)
    <3>1. scan[n].e \in Expert
      BY Zenon, <2>0, <2>8, ScanFields DEF AnnounceAgain
    <3>2. scan' \in [Node -> ScanType]
      BY Zenon, <1>1, <2>8, ScanPlaces DEF AnnounceAgain
    <3>3. AnnounceAdd(n, scan[n].e)
      BY Zenon, <2>8 DEF AnnounceAgain
    <3>4. /\ outq' \in [Node -> SUBSET Queued]
          /\ rview' \in [Node -> ViewType]
          /\ last' \in [Node -> [Expert -> EntryType]]
      BY Zenon, <3>1, <3>3, AnnounceAddType
    <3> QED BY Zenon, <2>8, <3>2, <3>4 DEF AnnounceAgain, TypeOK
  <2>9. CASE EvictNone(n)
    <3>1. scan' \in [Node -> ScanType]
      BY Zenon, <1>1, <2>9, ScanPlaces DEF EvictNone, ScanDone
    <3> QED BY Zenon, <2>0, <2>9, <3>1 DEF EvictNone, ScanDone, TypeOK
  <2>10. ASSUME NEW e \in Expert, EvictPick(n, e) PROVE TypeOK'
    <3>1. scan' \in [Node -> ScanType]
      BY Zenon, <1>1, <2>10, ScanPlaces DEF EvictPick
    <3> QED BY Zenon, <2>10, <3>1 DEF EvictPick, TypeOK
  <2>11. CASE Detach(n)
    <3>1. scan[n].e \in Expert
      BY Zenon, <2>0, <2>11, ScanFields DEF Detach
    <3>2. scan' \in [Node -> ScanType]
      BY Zenon, <1>1, <2>11, <3>1, ScanPlaces DEF Detach
    <3> DEFINE i == Slot(held[n], scan[n].e)
    <3>3. /\ held' = [held EXCEPT ![n] = RemoveSlot(@, i)]
          /\ stack' = [stack EXCEPT ![n] = RemoveSlot(@, i)]
      BY Zenon, <2>11 DEF Detach
    <3> HIDE DEF i
    <3>4. RemoveSlot(held[n], i) \in Seq(Expert) /\ RemoveSlot(stack[n], i) \in Seq(Weights)
      BY Zenon, RemoveSlotType DEF TypeOK
    <3>5. held' \in [Node -> Seq(Expert)] /\ stack' \in [Node -> Seq(Weights)]
      BY Zenon, <3>3, <3>4 DEF TypeOK
    <3> QED BY Zenon, <2>11, <3>2, <3>5 DEF Detach, TypeOK
  <2>12. CASE Unregister(n)
    <3> DEFINE e == scan[n].e
    <3>1. e \in Expert
      BY Zenon, <2>0, <2>12, ScanFields DEF Unregister
    <3>2. scan' \in [Node -> ScanType]
      BY Zenon, <1>1, <2>12, ScanPlaces DEF Unregister, ScanDone
    <3>3. Put(view[n], Delta(n, e, REMOVE, clock)) \in ViewType
      BY Zenon, <3>1, DeltaFact, PutFact DEF TypeOK
    <3>4. AnnounceRemove(n, e)
      BY Zenon, <2>12 DEF Unregister
    <3>5. /\ outq' \in [Node -> SUBSET Queued]
          /\ rview' \in [Node -> ViewType]
          /\ last' \in [Node -> [Expert -> EntryType]]
      BY Zenon, <3>1, <3>4, AnnounceRemoveType
    <3> QED BY Zenon, <2>0, <2>12, <3>1, <3>2, <3>3, <3>5 DEF Unregister, ScanDone, TypeOK
  <2> QED BY Zenon, <1>2, <2>1, <2>2, <2>3, <2>4, <2>5, <2>6, <2>7, <2>8, <2>9, <2>10,
             <2>11, <2>12 DEF ScannerStep
<1>3. ASSUME NEW n \in Node, Gossip(n) PROVE TypeOK'
  <2>1. PICK T \in (SUBSET (Node \ {n})) \ {{}} : GossipRound(n, T)
    BY Zenon, <1>3 DEF Gossip
  <2> DEFINE batch == {o.rec : o \in outq[n]}
  <2>2. outq[n] \subseteq Queued
    BY Zenon DEF TypeOK
  <2>3. batch \in SUBSET DeltaType
    BY Zenon, <2>2 DEF Queued
  <2>4. net' = net \cup {[to |-> t, batch |-> batch] : t \in T}
    BY Zenon, <2>1 DEF GossipRound
  <2> HIDE DEF batch
  <2>5. net' \subseteq [to : Node, batch : SUBSET DeltaType]
    BY <2>3, <2>4 DEF TypeOK
  <2>6. Drain(outq[n]) \subseteq Queued
    <3>1. ASSUME NEW o \in Queued, o.ttl > 1 PROVE [rec |-> o.rec, ttl |-> o.ttl - 1] \in Queued
      BY <3>1, MigrationAssumption DEF Queued
    <3> QED BY Zenon, <2>2, <3>1 DEF Drain
  <2>7. outq' \in [Node -> SUBSET Queued]
    BY Zenon, <2>1, <2>6 DEF GossipRound, TypeOK
  <2> QED BY Zenon, <2>1, <2>5, <2>7 DEF GossipRound, TypeOK
<1>4. ASSUME NEW n \in Node, NEW e \in Requested, ServeCheck(n, e) PROVE TypeOK'
  <2>1. e \in Expert
    BY Zenon, MigrationAssumption
  <2>2. answer' \in {NoAnswer} \cup [e : Expert, w : Weights \cup {WrongShard, Unavailable}]
    BY <1>4, <2>1 DEF ServeCheck, TypeOK
  <2>3. serving' \subseteq Node \X Expert
    BY <1>4, <2>1 DEF ServeCheck, TypeOK
  <2> QED BY Zenon, <1>4, <2>2, <2>3 DEF ServeCheck, TypeOK
<1>5. ASSUME NEW n \in Node, NEW e \in Requested, ServeCompute(n, e) PROVE TypeOK'
  <2>1. e \in Expert
    BY Zenon, MigrationAssumption
  <2> DEFINE w == IF e \in Ids(held[n]) THEN stack[n][Slot(held[n], e)] ELSE Unavailable
  <2>2. held[n] \in Seq(Expert) /\ stack[n] \in Seq(Weights)
    BY Zenon DEF TypeOK
  <2>3. w \in Weights \cup {WrongShard, Unavailable}
    <3>1. CASE e \in Ids(held[n])
      <4>1. Slot(held[n], e) \in 1..Len(stack[n])
        BY Zenon, <2>2, <3>1, SlotFact DEF Aligned
      <4> QED BY <2>2, <3>1, <4>1
    <3> QED BY Zenon, <3>1
  <2>4. answer' = [e |-> e, w |-> w]
    BY Zenon, <1>5 DEF ServeCompute
  <2> HIDE DEF w
  <2>5. answer' \in {NoAnswer} \cup [e : Expert, w : Weights \cup {WrongShard, Unavailable}]
    BY Zenon, <2>1, <2>3, <2>4
  <2> QED BY Zenon, <1>5, <2>5 DEF ServeCompute, TypeOK
<1>6. ASSUME NEW n \in Node, Crash(n) PROVE TypeOK'
  <2>1. /\ Bootstrap[n] \in Seq(Expert) /\ Bootstrap[n] \in Seq(Weights)
        /\ Ids(Bootstrap[n]) \subseteq Expert
    BY MigrationAssumption DEF Ids, Weights
  <2>2. scan' \in [Node -> ScanType]
    BY Zenon, <1>6, ScanPlaces DEF Crash, TypeOK
  <2>3. view' \in [Node -> ViewType] /\ rview' \in [Node -> ViewType]
    BY Zenon, <1>6, SeedFact DEF Crash, TypeOK
  <2>4. crashes' \in 0..MaxCrashes
    BY <1>6, MigrationAssumption DEF Crash, TypeOK
  <2>5. held' \in [Node -> Seq(Expert)] /\ stack' \in [Node -> Seq(Weights)]
    BY Zenon, <1>6, <2>1 DEF Crash, TypeOK
  <2>6. /\ live' \in [Node -> SUBSET Expert] /\ attachTs' \in [Node -> [Expert -> Nat]]
        /\ outq' \in [Node -> SUBSET Queued]
    BY Zenon, <1>6, <2>1 DEF Crash, TypeOK
  <2> QED BY Zenon, <1>6, <2>2, <2>3, <2>4, <2>5, <2>6 DEF Crash, TypeOK
<1>7. ASSUME NEW n \in Node, Restart(n) PROVE TypeOK'
  BY <1>7, MigrationAssumption DEF Restart, TypeOK
<1>8. ASSUME NEW m \in net, Deliver(m) PROVE TypeOK'
  <2>1. m.to \in Node /\ m.batch \in SUBSET DeltaType
    BY Zenon DEF TypeOK
  <2>2. view[m.to] \in ViewType /\ rview[m.to] \in ViewType
    BY Zenon, <2>1 DEF TypeOK
  <2>3. /\ PutBatch(rview[m.to], rview[m.to], m.batch) \in ViewType
        /\ PutBatch(view[m.to], rview[m.to], m.batch) \in ViewType
    BY Zenon, <2>1, <2>2, PutBatchFact
  <2>4. view' \in [Node -> ViewType] /\ rview' \in [Node -> ViewType]
    BY Zenon, <1>8, <2>3 DEF Deliver, TypeOK
  <2> QED BY Zenon, <1>8, <2>4 DEF Deliver, TypeOK
<1>9. ASSUME NEW m \in net, Lose(m) PROVE TypeOK'
  <2>1. m.to \in up => losses < MaxLosses
    BY Zenon, <1>9 DEF Lose
  <2>2. losses' \in 0..MaxLosses
    BY <1>9, <2>1, MigrationAssumption DEF Lose, TypeOK
  <2> QED BY Zenon, <1>9, <2>2 DEF Lose, TypeOK
<1>10. CASE Tick
  <2>1. clock' \in 0..MaxClock
    BY <1>10, MigrationAssumption DEF Tick, TypeOK
  <2> QED BY Zenon, <1>10, <2>1 DEF Tick, TypeOK
<1>11. CASE UNCHANGED vars
  BY Zenon, <1>11 DEF vars, TypeOK
<1> QED BY Zenon, <1>2, <1>3, <1>4, <1>5, <1>6, <1>7, <1>8, <1>9, <1>10, <1>11 DEF Next
-----------------------------------------------------------------------------
(* The weight stack. *)

\* Slots and weights of the experts of shards.yaml
Prefix(n, h, st) ==
  \A i \in 1..Len(Bootstrap[n]) :
    /\ i <= Len(h) /\ h[i] = Bootstrap[n][i]
    /\ i <= Len(st) /\ st[i] = Bootstrap[n][i]

\* _live_experts and the stack agree up to the scanner's place s.
Agree(h, l, s) ==
  /\ s.pc \notin {"register", "unregister"} => l = Ids(h)
  /\ s.pc = "register" => Ids(h) = l \cup {s.e}
  /\ s.pc = "unregister" => Ids(h) = l \ {s.e}

\* What the tests made on the way to place s still guarantee there: only this
\* scanner changes the node's experts.
Tested(n, l, s) ==
  /\ s.pc \in {"asked", "slicing", "attach", "register"} =>
       s.e \notin l /\ Cardinality(l) < MaxExperts
  /\ s.pc \in {"detach", "unregister"} => s.e \in l \ Ids(Bootstrap[n])

Bound(n) == Max(MaxExperts, Cardinality(Ids(Bootstrap[n])))

NodeInv(n, h, st, l, s) ==
  /\ Distinct(h) /\ Len(st) = Len(h)
  /\ Prefix(n, h, st)
  /\ Agree(h, l, s)
  /\ Tested(n, l, s)
  /\ Cardinality(l) <= Bound(n)

\* The inductive invariant: LiveIsHeld, BootstrapKept and Capacity with what
\* the steps of a scan need of each other.
WeightInv == \A n \in Node : NodeInv(n, held[n], stack[n], live[n], scan[n])

\* The sets of experts are finite.
LEMMA ExpertsFinite ==
  ASSUME NEW l \in SUBSET Expert
  PROVE  IsFiniteSet(l) /\ Cardinality(l) \in Nat
BY Zenon, MigrationAssumption, FS_Subset, FS_CardinalityType

\* Distinct elements are as many as their places.
LEMMA DistinctLength ==
  ASSUME NEW h \in Seq(Expert), Distinct(h)
  PROVE  Cardinality(Ids(h)) = Len(h)
<1>1. Len(h) \in Nat /\ h \in [1..Len(h) -> Ids(h)] /\ DOMAIN h = 1..Len(h)
  BY DEF Ids
<1>2. h \in Bijection(1..Len(h), Ids(h))
  BY Zenon, <1>1 DEF Bijection, Injection, Surjection, IsInjective, Distinct, Ids
<1> QED BY Zenon, <1>1, <1>2, FS_CountingElements DEF ExistsBijection

\* Bounds are numbers.
LEMMA BoundFact ==
  ASSUME NEW n \in Node
  PROVE  /\ Bound(n) \in Nat /\ MaxExperts <= Bound(n)
         /\ Cardinality(Ids(Bootstrap[n])) <= Bound(n)
<1>1. Ids(Bootstrap[n]) \in SUBSET Expert
  BY MigrationAssumption DEF Ids
<1>2. Cardinality(Ids(Bootstrap[n])) \in Nat
  BY Zenon, <1>1, ExpertsFinite
<1>3. MaxExperts \in Nat
  BY Zenon, MigrationAssumption
<1> QED BY <1>2, <1>3 DEF Bound, Max

\* A node as shards.yaml makes it
LEMMA FreshNode ==
  ASSUME NEW n \in Node
  PROVE  NodeInv(n, Bootstrap[n], Bootstrap[n], Ids(Bootstrap[n]), Idle)
<1>1. Distinct(Bootstrap[n])
  BY Zenon, MigrationAssumption DEF Distinct
<1>2. Prefix(n, Bootstrap[n], Bootstrap[n])
  <2>1. Bootstrap[n] \in Seq(Expert)
    BY Zenon, MigrationAssumption
  <2>2. Len(Bootstrap[n]) \in Nat
    BY <2>1
  <2> QED BY <2>2 DEF Prefix
<1>3. Agree(Bootstrap[n], Ids(Bootstrap[n]), Idle) /\ Tested(n, Ids(Bootstrap[n]), Idle)
  BY Zenon DEF Agree, Tested, Idle
<1> QED BY Zenon, <1>1, <1>2, <1>3, BoundFact DEF NodeInv

\* A step that moves the scanner only, to a place with nothing to guarantee
LEMMA MoveAway ==
  ASSUME NEW n, NEW h, NEW st, NEW l, NEW s, NEW t,
         NodeInv(n, h, st, l, s),
         s.pc \notin {"register", "unregister"}, t \in {Idle, Evict}
  PROVE  NodeInv(n, h, st, l, t)
BY DEF NodeInv, Agree, Tested, Idle, Evict

\* _select_candidate's tests
LEMMA MoveToPull ==
  ASSUME NEW n, NEW h, NEW st, NEW l, NEW s, NEW t, NodeInv(n, h, st, l, s),
         s.pc \notin {"register", "unregister"},
         t.pc \in {"asked", "slicing", "attach"},
         t.e \notin l, Cardinality(l) < MaxExperts
  PROVE  NodeInv(n, h, st, l, t)
BY Zenon DEF NodeInv, Agree, Tested

\* The guards of migration_detach
LEMMA MoveToDetach ==
  ASSUME NEW n, NEW h, NEW st, NEW l, NEW s, NEW t, NodeInv(n, h, st, l, s),
         s.pc \notin {"register", "unregister"},
         t.pc = "detach", t.e \in l \ Ids(Bootstrap[n])
  PROVE  NodeInv(n, h, st, l, t)
BY Zenon DEF NodeInv, Agree, Tested

\* attach_expert
LEMMA AttachNode ==
  ASSUME NEW n \in Node, NEW h \in Seq(Expert), NEW st \in Seq(Weights),
         NEW l \in SUBSET Expert, NEW s, NEW e \in Expert, NEW w \in Weights,
         NodeInv(n, h, st, l, s), s.pc = "attach", s.e = e
  PROVE  NodeInv(n, Append(h, e), Append(st, w), l, [pc |-> "register", e |-> e])
<1> DEFINE h2 == Append(h, e)
           st2 == Append(st, w)
           t == [pc |-> "register", e |-> e]
<1>1. /\ Distinct(h) /\ Len(st) = Len(h) /\ Prefix(n, h, st) /\ l = Ids(h)
      /\ e \notin l /\ Cardinality(l) < MaxExperts /\ Cardinality(l) <= Bound(n)
  BY Zenon DEF NodeInv, Agree, Tested
<1>2. /\ h2 \in Seq(Expert) /\ Len(h2) = Len(h) + 1
      /\ \A i \in 1..Len(h) : h2[i] = h[i]
      /\ Ids(h2) = Ids(h) \cup {e} /\ Distinct(h2)
  BY <1>1, AppendFact
<1>3. /\ Len(st2) = Len(st) + 1
      /\ \A i \in 1..Len(st) : st2[i] = st[i]
  BY AppendFact
<1>4. Len(h) \in Nat
  OBVIOUS
<1>5. t.pc = "register" /\ t.e = e
  BY Zenon
<1> HIDE DEF h2, st2, t
<1>6. Prefix(n, h2, st2)
  <2> SUFFICES ASSUME NEW i \in 1..Len(Bootstrap[n])
               PROVE  /\ i <= Len(h2) /\ h2[i] = Bootstrap[n][i]
                      /\ i <= Len(st2) /\ st2[i] = Bootstrap[n][i]
    BY Zenon DEF Prefix
  <2>0. i \in Nat \ {0}
    <3>1. Len(Bootstrap[n]) \in Nat
      BY MigrationAssumption
    <3> QED BY <3>1
  <2>1. i <= Len(h) /\ h[i] = Bootstrap[n][i] /\ st[i] = Bootstrap[n][i]
    BY Zenon, <1>1 DEF Prefix
  <2>2. i \in 1..Len(h) /\ i \in 1..Len(st)
    BY <1>1, <1>4, <2>0, <2>1
  <2> QED BY <1>1, <1>2, <1>3, <1>4, <2>0, <2>1, <2>2
<1>7. Agree(h2, l, t) /\ Tested(n, l, t)
  BY Zenon, <1>1, <1>2, <1>5 DEF Agree, Tested
<1>8. Len(st2) = Len(h2)
  BY Zenon, <1>1, <1>2, <1>3
<1> QED
  <2>1. NodeInv(n, h2, st2, l, t)
    BY Zenon, <1>1, <1>2, <1>6, <1>7, <1>8 DEF NodeInv
  <2> QED BY Zenon, <2>1 DEF h2, st2, t

\* The rest of migration_attach
LEMMA RegisterNode ==
  ASSUME NEW n \in Node, NEW h, NEW st, NEW l \in SUBSET Expert, NEW s,
         NodeInv(n, h, st, l, s), s.pc = "register", s.e \in Expert,
         NEW t, t.pc = "again"
  PROVE  NodeInv(n, h, st, l \cup {s.e}, t)
<1>1. Cardinality(l \cup {s.e}) = Cardinality(l) + 1
  BY Zenon, ExpertsFinite, FS_AddElement DEF NodeInv, Tested
<1>2. Cardinality(l) \in Nat /\ Cardinality(l) < MaxExperts /\ MaxExperts \in Nat
  BY Zenon, ExpertsFinite, MigrationAssumption DEF NodeInv, Tested
<1>3. Bound(n) \in Nat /\ MaxExperts <= Bound(n)
  BY Zenon, BoundFact
<1>4. Cardinality(l \cup {s.e}) <= Bound(n)
  BY <1>1, <1>2, <1>3
<1>5. Agree(h, l \cup {s.e}, t) /\ Tested(n, l \cup {s.e}, t)
  BY Zenon DEF NodeInv, Agree, Tested
<1> QED BY Zenon, <1>4, <1>5 DEF NodeInv

\* detach_expert
LEMMA DetachNode ==
  ASSUME NEW n \in Node, NEW h \in Seq(Expert), NEW st \in Seq(Weights),
         NEW l, NEW s, NEW e, NodeInv(n, h, st, l, s), s.pc = "detach", s.e = e
  PROVE  NodeInv(n, RemoveSlot(h, Slot(h, e)), RemoveSlot(st, Slot(h, e)), l,
                 [pc |-> "unregister", e |-> e])
<1> DEFINE i == Slot(h, e)
           h2 == RemoveSlot(h, i)
           st2 == RemoveSlot(st, i)
           t == [pc |-> "unregister", e |-> e]
<1>1. /\ Distinct(h) /\ Len(st) = Len(h) /\ Prefix(n, h, st) /\ l = Ids(h)
      /\ e \in l \ Ids(Bootstrap[n]) /\ Cardinality(l) <= Bound(n)
  BY Zenon DEF NodeInv, Agree, Tested
<1>2. i \in 1..Len(h) /\ h[i] = e
  BY Zenon, <1>1, SlotFact
<1>3. t.pc = "unregister" /\ t.e = e
  BY Zenon
<1> HIDE DEF i, t
<1>4. /\ Len(h2) = Len(h) - 1 /\ \A j \in 1..(i - 1) : h2[j] = h[j]
      /\ Distinct(h2) /\ Ids(h2) = Ids(h) \ {e}
  BY <1>1, <1>2, RemoveSlotFact
<1>5. i \in 1..Len(st)
  BY Zenon, <1>1, <1>2
<1>6. Len(st2) = Len(st) - 1 /\ \A j \in 1..(i - 1) : st2[j] = st[j]
  BY <1>5, RemoveSlotFact
<1>7. Len(h) \in Nat /\ Len(Bootstrap[n]) \in Nat
  BY MigrationAssumption
<1> HIDE DEF h2, st2
<1>8. \A j \in 1..Len(Bootstrap[n]) : j # i
  BY Zenon, <1>1, <1>2 DEF Prefix, Ids
<1>9. i > Len(Bootstrap[n])
  BY <1>2, <1>7, <1>8
<1>10. Prefix(n, h2, st2)
  <2> SUFFICES ASSUME NEW j \in 1..Len(Bootstrap[n])
               PROVE  /\ j <= Len(h2) /\ h2[j] = Bootstrap[n][j]
                      /\ j <= Len(st2) /\ st2[j] = Bootstrap[n][j]
    BY Zenon DEF Prefix
  <2>1. h[j] = Bootstrap[n][j] /\ st[j] = Bootstrap[n][j]
    BY Zenon, <1>1 DEF Prefix
  <2>2. j \in 1..(i - 1) /\ j <= Len(h) - 1
    BY <1>2, <1>7, <1>9
  <2> QED BY Zenon, <1>1, <1>4, <1>6, <2>1, <2>2
<1>11. Agree(h2, l, t) /\ Tested(n, l, t)
  BY Zenon, <1>1, <1>3, <1>4 DEF Agree, Tested
<1> QED
  <2>1. NodeInv(n, h2, st2, l, t)
    BY Zenon, <1>1, <1>4, <1>6, <1>10, <1>11 DEF NodeInv
  <2> QED BY Zenon, <2>1 DEF h2, st2, t, i

\* The rest of migration_detach
LEMMA UnregisterNode ==
  ASSUME NEW n \in Node, NEW h, NEW st, NEW l \in SUBSET Expert, NEW s,
         NodeInv(n, h, st, l, s), s.pc = "unregister"
  PROVE  NodeInv(n, h, st, l \ {s.e}, Idle)
<1>1. l \ {s.e} \in SUBSET Expert
  BY Zenon
<1>2. Cardinality(l \ {s.e}) <= Cardinality(l)
  BY Zenon, ExpertsFinite, FS_Subset
<1>3. /\ Cardinality(l) \in Nat /\ Cardinality(l \ {s.e}) \in Nat
      /\ Bound(n) \in Nat /\ Cardinality(l) <= Bound(n)
  BY Zenon, <1>1, ExpertsFinite, BoundFact DEF NodeInv
<1>4. Cardinality(l \ {s.e}) <= Bound(n)
  BY <1>2, <1>3
<1>5. Agree(h, l \ {s.e}, Idle) /\ Tested(n, l \ {s.e}, Idle)
  BY Zenon DEF NodeInv, Agree, Tested, Idle
<1> QED BY Zenon, <1>4, <1>5 DEF NodeInv

\* A step of node n leaves the other nodes' weights and scanners alone.
LEMMA LocalStep ==
  ASSUME WeightInv, NEW n \in Node,
         \A m \in Node \ {n} : /\ held'[m] = held[m] /\ stack'[m] = stack[m]
                               /\ live'[m] = live[m] /\ scan'[m] = scan[m],
         NodeInv(n, held'[n], stack'[n], live'[n], scan'[n])
  PROVE  WeightInv'
BY Zenon DEF WeightInv

\* A step that changes no weights and no scanner
LEMMA ElsewhereStep ==
  ASSUME WeightInv, UNCHANGED <<held, stack, live, scan>>
  PROVE  WeightInv'
BY Zenon DEF WeightInv

\* A scanner's step keeps the invariant.
LEMMA WeightScannerStep ==
  ASSUME TypeOK, WeightInv, NEW n \in Node, ScannerStep(n)
  PROVE  WeightInv'
<1> USE DEF nodeVars, envVars
<1> DEFINE s == scan[n]
           Inv(t) == NodeInv(n, held[n], stack[n], live[n], t)
<1>0. /\ s \in ScanType /\ held[n] \in Seq(Expert) /\ stack[n] \in Seq(Weights)
      /\ live[n] \in SUBSET Expert
  BY Zenon DEF TypeOK
<1>1. Inv(s)
  BY Zenon DEF WeightInv
<1>2. ASSUME NEW t, Step(n, t)
      PROVE  scan'[n] = t /\ \A m \in Node \ {n} : scan'[m] = scan[m]
  BY Zenon, <1>2 DEF Step, TypeOK
<1>3. ASSUME NEW t, Step(n, t), Inv(t), UNCHANGED <<held, stack, live>> PROVE WeightInv'
  <2>1. scan'[n] = t /\ \A m \in Node \ {n} : scan'[m] = scan[m]
    BY Zenon, <1>2, <1>3
  <2> QED BY Zenon, <1>3, <2>1, LocalStep
<1>4. CASE ScanNothing(n)
  <2>1. s.pc = "idle"
    BY <1>4 DEF ScanNothing, CanScan, Idle
  <2>2. Inv(Evict)
    BY Zenon, <1>1, <2>1, MoveAway
  <2> QED BY Zenon, <1>3, <1>4, <2>2 DEF ScanNothing
<1>5. ASSUME NEW e \in Expert, NEW src \in Node, ScanPull(n, e, src) PROVE WeightInv'
  <2> DEFINE t == [pc |-> "asked", e |-> e, src |-> src]
  <2>1. s.pc = "idle" /\ t.pc = "asked" /\ t.e = e
    BY <1>5 DEF ScanPull, CanScan, Idle
  <2>2. e \notin live[n] /\ Cardinality(live[n]) < MaxExperts /\ Step(n, t)
        /\ UNCHANGED <<held, stack, live>>
    BY Zenon, <1>5 DEF ScanPull, HasRoom
  <2> HIDE DEF t
  <2>3. Inv(t)
    BY Zenon, <1>1, <2>1, <2>2, MoveToPull
  <2> QED BY Zenon, <1>3, <2>2, <2>3
<1>6. CASE SliceLookup(n)
  <2>1. /\ s.pc = "asked" /\ s.e \notin live[n] /\ Cardinality(live[n]) < MaxExperts
        /\ UNCHANGED <<held, stack, live>>
    BY Zenon, <1>1, <1>6 DEF SliceLookup, NodeInv, Tested
  <2> DEFINE t == [pc |-> "slicing", e |-> s.e, src |-> s.src,
                   slot |-> Slot(held[s.src], s.e)]
  <2>2. Step(n, t) \/ Step(n, Evict)
    BY Zenon, <1>6 DEF SliceLookup
  <2>3. t.pc = "slicing" /\ t.e = s.e
    BY Zenon
  <2> HIDE DEF t
  <2>4. Inv(t)
    BY Zenon, <1>1, <2>1, <2>3, MoveToPull
  <2>5. Inv(Evict)
    BY Zenon, <1>1, <2>1, MoveAway
  <2> QED BY Zenon, <1>3, <2>1, <2>2, <2>4, <2>5
<1>7. CASE SliceTake(n)
  <2>1. /\ s.pc = "slicing" /\ s.e \notin live[n] /\ Cardinality(live[n]) < MaxExperts
        /\ UNCHANGED <<held, stack, live>>
    BY Zenon, <1>1, <1>7 DEF SliceTake, NodeInv, Tested
  <2> DEFINE full == stack[s.src]
             t == [pc |-> "attach", e |-> s.e,
                   w |-> IF s.slot <= Len(full) THEN full[s.slot] ELSE Garbage]
  <2>2. Step(n, t)
    BY Zenon, <1>7 DEF SliceTake
  <2>3. t.pc = "attach" /\ t.e = s.e
    BY Zenon
  <2> HIDE DEF t
  <2>4. Inv(t)
    BY Zenon, <1>1, <2>1, <2>3, MoveToPull
  <2> QED BY Zenon, <1>3, <2>1, <2>2, <2>4
<1>8. CASE PullFails(n)
  <2>1. Inv(Evict)
    BY Zenon, <1>1, <1>8, MoveAway DEF PullFails
  <2> QED BY Zenon, <1>3, <1>8, <2>1 DEF PullFails
<1>9. CASE Attach(n)
  <2>1. s.pc = "attach" /\ s.e \in Expert /\ s.w \in Weights
    BY Zenon, <1>0, <1>9, ScanFields DEF Attach
  <2>2. NodeInv(n, Append(held[n], s.e), Append(stack[n], s.w), live[n],
                [pc |-> "register", e |-> s.e])
    BY Zenon, <1>0, <1>1, <2>1, AttachNode
  <2>3. /\ held'[n] = Append(held[n], s.e) /\ stack'[n] = Append(stack[n], s.w)
        /\ live' = live
        /\ \A m \in Node \ {n} : held'[m] = held[m] /\ stack'[m] = stack[m]
    BY Zenon, <1>9 DEF Attach, TypeOK
  <2>4. /\ scan'[n] = [pc |-> "register", e |-> s.e]
        /\ \A m \in Node \ {n} : scan'[m] = scan[m]
    BY Zenon, <1>2, <1>9 DEF Attach
  <2> QED BY Zenon, <2>2, <2>3, <2>4, LocalStep
<1>10. CASE Register(n)
  <2> DEFINE t == [pc |-> "again", e |-> s.e]
  <2>1. s.pc = "register" /\ s.e \in Expert /\ t.pc = "again"
    BY Zenon, <1>0, <1>10, ScanFields DEF Register
  <2>2. Step(n, t)
    BY Zenon, <1>10 DEF Register
  <2> HIDE DEF t
  <2>3. NodeInv(n, held[n], stack[n], live[n] \cup {s.e}, t)
    BY Zenon, <1>0, <1>1, <2>1, RegisterNode
  <2>4. /\ live'[n] = live[n] \cup {s.e} /\ UNCHANGED <<held, stack>>
        /\ \A m \in Node \ {n} : live'[m] = live[m]
    BY Zenon, <1>10 DEF Register, TypeOK
  <2>5. scan'[n] = t /\ \A m \in Node \ {n} : scan'[m] = scan[m]
    BY Zenon, <1>2, <2>2
  <2> QED BY Zenon, <2>3, <2>4, <2>5, LocalStep
<1>11. CASE AnnounceAgain(n)
  <2>1. Inv(Evict)
    BY Zenon, <1>1, <1>11, MoveAway DEF AnnounceAgain
  <2> QED BY Zenon, <1>3, <1>11, <2>1 DEF AnnounceAgain
<1>12. CASE EvictNone(n)
  <2>1. Inv(Idle)
    BY Zenon, <1>1, <1>12, MoveAway DEF EvictNone
  <2> QED BY Zenon, <1>3, <1>12, <2>1 DEF EvictNone, ScanDone
<1>13. ASSUME NEW e \in Expert, EvictPick(n, e) PROVE WeightInv'
  <2> DEFINE t == [pc |-> "detach", e |-> e]
  <2>1. /\ s.pc = "evict" /\ t.pc = "detach" /\ t.e = e
        /\ e \in live[n] \ Ids(Bootstrap[n]) /\ Step(n, t)
        /\ UNCHANGED <<held, stack, live>>
    BY Zenon, <1>13 DEF EvictPick, Eligible
  <2> HIDE DEF t
  <2>2. Inv(t)
    BY Zenon, <1>1, <2>1, MoveToDetach
  <2> QED BY Zenon, <1>3, <2>1, <2>2
<1>14. CASE Detach(n)
  <2> DEFINE i == Slot(held[n], s.e)
  <2>1. s.pc = "detach"
    BY Zenon, <1>14 DEF Detach
  <2>2. NodeInv(n, RemoveSlot(held[n], i), RemoveSlot(stack[n], i), live[n],
                [pc |-> "unregister", e |-> s.e])
    BY Zenon, <1>0, <1>1, <2>1, DetachNode
  <2>3. /\ held'[n] = RemoveSlot(held[n], i) /\ stack'[n] = RemoveSlot(stack[n], i)
        /\ live' = live
        /\ \A m \in Node \ {n} : held'[m] = held[m] /\ stack'[m] = stack[m]
    BY Zenon, <1>14 DEF Detach, TypeOK
  <2>4. /\ scan'[n] = [pc |-> "unregister", e |-> s.e]
        /\ \A m \in Node \ {n} : scan'[m] = scan[m]
    BY Zenon, <1>2, <1>14 DEF Detach
  <2> HIDE DEF i
  <2> QED BY Zenon, <2>2, <2>3, <2>4, LocalStep
<1>15. CASE Unregister(n)
  <2>1. s.pc = "unregister"
    BY Zenon, <1>15 DEF Unregister
  <2>2. NodeInv(n, held[n], stack[n], live[n] \ {s.e}, Idle)
    BY Zenon, <1>0, <1>1, <2>1, UnregisterNode
  <2>3. /\ live'[n] = live[n] \ {s.e} /\ UNCHANGED <<held, stack>>
        /\ \A m \in Node \ {n} : live'[m] = live[m]
    BY Zenon, <1>15 DEF Unregister, TypeOK
  <2>4. scan'[n] = Idle /\ \A m \in Node \ {n} : scan'[m] = scan[m]
    BY Zenon, <1>2, <1>15 DEF Unregister, ScanDone
  <2> QED BY Zenon, <2>2, <2>3, <2>4, LocalStep
<1> QED BY Zenon, <1>4, <1>5, <1>6, <1>7, <1>8, <1>9, <1>10, <1>11, <1>12, <1>13, <1>14,
           <1>15 DEF ScannerStep

\* So does a crash, which also ends the pulls from the crashed node.
LEMMA WeightCrash ==
  ASSUME TypeOK, WeightInv, NEW n \in Node, Crash(n)
  PROVE  WeightInv'
<1>1. ASSUME NEW m \in Node PROVE NodeInv(m, held'[m], stack'[m], live'[m], scan'[m])
  <2>1. CASE m = n
    <3>1. /\ held'[m] = Bootstrap[m] /\ stack'[m] = Bootstrap[m]
          /\ live'[m] = Ids(Bootstrap[m]) /\ scan'[m] = Idle
      BY Zenon, <2>1 DEF Crash, TypeOK
    <3> QED BY Zenon, <3>1, FreshNode
  <2>2. CASE m # n
    <3>1. /\ held'[m] = held[m] /\ stack'[m] = stack[m] /\ live'[m] = live[m]
          /\ scan'[m] = IF scan[m].pc \in {"asked", "slicing"} /\ scan[m].src = n
                        THEN Evict ELSE scan[m]
      BY Zenon, <2>2 DEF Crash, TypeOK
    <3>2. NodeInv(m, held[m], stack[m], live[m], scan[m])
      BY Zenon DEF WeightInv
    <3>3. CASE scan[m].pc \in {"asked", "slicing"}
      <4>1. NodeInv(m, held[m], stack[m], live[m], Evict)
        BY Zenon, <3>2, <3>3, MoveAway
      <4> QED BY Zenon, <3>1, <3>2, <4>1
    <3> QED BY Zenon, <3>1, <3>2, <3>3
  <2> QED BY Zenon, <2>1, <2>2
<1> QED BY Zenon, <1>1 DEF WeightInv

\* The invariant is inductive.
LEMMA WeightStep == TypeOK /\ WeightInv /\ [Next]_vars => WeightInv'
<1> SUFFICES ASSUME TypeOK, WeightInv, [Next]_vars PROVE WeightInv'
  BY Zenon
<1> USE DEF nodeVars, envVars
<1>1. ASSUME NEW n \in Node, Gossip(n) PROVE WeightInv'
  BY Zenon, <1>1, ElsewhereStep DEF Gossip, GossipRound
<1>2. ASSUME NEW n \in Node, NEW e \in Requested, ServeCheck(n, e) \/ ServeCompute(n, e)
      PROVE  WeightInv'
  BY Zenon, <1>2, ElsewhereStep DEF ServeCheck, ServeCompute
<1>3. ASSUME NEW n \in Node, Restart(n) PROVE WeightInv'
  BY Zenon, <1>3, ElsewhereStep DEF Restart
<1>4. ASSUME NEW m \in net, Deliver(m) \/ Lose(m) PROVE WeightInv'
  BY Zenon, <1>4, ElsewhereStep DEF Deliver, Lose
<1>5. CASE Tick \/ UNCHANGED vars
  BY Zenon, <1>5, ElsewhereStep DEF Tick, vars
<1> QED BY Zenon, <1>1, <1>2, <1>3, <1>4, <1>5, WeightScannerStep, WeightCrash DEF Next

\* The initial state satisfies it.
LEMMA WeightInit == Init => WeightInv
<1> SUFFICES ASSUME Init, NEW n \in Node
             PROVE  NodeInv(n, held[n], stack[n], live[n], scan[n])
  BY Zenon DEF WeightInv
<1>1. /\ held[n] = Bootstrap[n] /\ stack[n] = Bootstrap[n]
      /\ live[n] = Ids(Bootstrap[n]) /\ scan[n] = Idle
  BY Zenon DEF Init
<1> QED BY Zenon, <1>1, FreshNode

\* The equal lengths that TypeStep needs are part of it.
LEMMA WeightAligned == WeightInv => Aligned
BY Zenon DEF WeightInv, NodeInv, Aligned

\* Types and invariant hold together.
LEMMA Inductive == Spec => [](TypeOK /\ WeightInv)
<1>1. Init => TypeOK /\ WeightInv
  BY Zenon, TypeInit, WeightInit
<1>2. TypeOK /\ WeightInv /\ [Next]_vars => (TypeOK /\ WeightInv)'
  BY Zenon, TypeStep, WeightStep, WeightAligned
<1> QED BY <1>1, <1>2, PTL DEF Spec
-----------------------------------------------------------------------------
(* Results. *)

\* The state keeps its types; in particular no spent record is ever queued.
THEOREM TypeCorrect == Spec => []TypeOK
BY Inductive, PTL

\* _live_experts and the stack agree outside the two windows of an update.
THEOREM LiveIsHeldAlways == Spec => []LiveIsHeld
<1>1. WeightInv => LiveIsHeld
  BY Zenon DEF WeightInv, NodeInv, Agree, LiveIsHeld
<1> QED BY <1>1, Inductive, PTL

\* Whatever is pulled, evicted, lost or restarted, the experts of shards.yaml
\* keep their slots and weights.
THEOREM BootstrapKeptAlways == Spec => []BootstrapKept
<1>1. WeightInv => BootstrapKept
  BY Zenon DEF WeightInv, NodeInv, Prefix, BootstrapKept
<1> QED BY <1>1, Inductive, PTL

\* No stack grows past the policy's limit or its bootstrap size.
THEOREM CapacityAlways == Spec => []Capacity
<1>1. TypeOK /\ WeightInv => Capacity
  <2> SUFFICES ASSUME TypeOK, WeightInv, NEW n \in Node
               PROVE  Len(held[n]) <= Max(MaxExperts, Len(Bootstrap[n]))
    BY Zenon DEF Capacity
  <2>0. Len(held[n]) = Cardinality(Ids(held[n])) /\ Bound(n) = Max(MaxExperts, Len(Bootstrap[n]))
    <3>1. held[n] \in Seq(Expert) /\ Distinct(held[n])
      BY Zenon DEF TypeOK, WeightInv, NodeInv
    <3>2. Bootstrap[n] \in Seq(Expert) /\ Distinct(Bootstrap[n])
      BY Zenon, MigrationAssumption DEF Distinct
    <3> QED BY Zenon, <3>1, <3>2, DistinctLength DEF Bound
  <2> SUFFICES Cardinality(Ids(held[n])) <= Bound(n)
    BY Zenon, <2>0
  <2> DEFINE l == live[n]
             s == scan[n]
  <2>1. NodeInv(n, held[n], stack[n], l, s)
    BY Zenon DEF WeightInv
  <2>2. l \in SUBSET Expert /\ s \in ScanType
    BY Zenon DEF TypeOK
  <2>3. Cardinality(l) \in Nat /\ IsFiniteSet(l) /\ Cardinality(l) <= Bound(n)
    BY Zenon, <2>1, <2>2, ExpertsFinite DEF NodeInv
  <2>4. Bound(n) \in Nat /\ MaxExperts <= Bound(n) /\ MaxExperts \in Nat
    BY Zenon, BoundFact, MigrationAssumption
  <2> HIDE DEF l, s
  <2>5. CASE s.pc \notin {"register", "unregister"}
    BY Zenon, <2>1, <2>3, <2>5 DEF NodeInv, Agree
  <2>6. CASE s.pc = "register"
    <3>1. Ids(held[n]) = l \cup {s.e} /\ s.e \notin l /\ Cardinality(l) < MaxExperts
      BY Zenon, <2>1, <2>6 DEF NodeInv, Agree, Tested
    <3>2. Cardinality(l \cup {s.e}) = Cardinality(l) + 1
      BY Zenon, <2>3, <3>1, FS_AddElement
    <3> QED BY <2>3, <2>4, <3>1, <3>2
  <2>7. CASE s.pc = "unregister"
    <3>1. Ids(held[n]) = l \ {s.e}
      BY Zenon, <2>1, <2>7 DEF NodeInv, Agree
    <3>2. Cardinality(l \ {s.e}) <= Cardinality(l) /\ Cardinality(l \ {s.e}) \in Nat
      BY Zenon, <2>2, <2>3, FS_Subset, ExpertsFinite
    <3> QED BY <2>3, <2>4, <3>1, <3>2
  <2> QED BY Zenon, <2>5, <2>6, <2>7
<1> QED BY <1>1, Inductive, PTL

\* A running node's entries only ever move to later timestamps, in whatever
\* order batches arrive.
THEOREM OwnershipMonotoneAlways == Spec => OwnershipMonotone
<1> DEFINE
      Mono(v, w) == \A k \in Key : w[k] = v[k] \/ w[k].ts > v[k].ts
      Act == \A m \in up \cap up' : /\ Mono(view[m], view'[m])
                                    /\ Mono(rview[m], rview'[m])
<1>1. ASSUME TypeOK, [Next]_vars PROVE Act
  <2> USE DEF nodeVars, envVars
  <2> SUFFICES ASSUME NEW m \in up \cap up'
               PROVE  Mono(view[m], view'[m]) /\ Mono(rview[m], rview'[m])
    BY Zenon
  <2>0. m \in Node /\ view[m] \in ViewType /\ rview[m] \in ViewType
    BY Zenon, <1>1 DEF TypeOK
  <2>1. ASSUME NEW v PROVE Mono(v, v)
    BY Zenon
  <2>2. ASSUME NEW n \in Node, NEW e \in Expert, NEW a \in {ADD, REMOVE},
               Delta(n, e, a, clock) \in DeltaType, NEW v \in ViewType
        PROVE  Mono(v, Put(v, Delta(n, e, a, clock)))
    BY Zenon, <2>2, PutFact
  <2>3. ASSUME NEW v \in ViewType, NEW r \in ViewType, NEW b \in SUBSET DeltaType
        PROVE  Mono(v, PutBatch(v, r, b))
    BY Zenon, PutBatchFact
  <2> HIDE DEF Mono
  <2>4. CASE UNCHANGED <<view, rview>>
    BY Zenon, <2>1, <2>4
  <2>5. ASSUME NEW n \in Node, NEW e \in Expert, AnnounceAdd(n, e)
        PROVE  Mono(rview[m], rview'[m])
    <3>1. Delta(n, e, ADD, clock) \in DeltaType
      BY Zenon, <1>1, DeltaFact
    <3>2. rview'[m] = rview[m] \/ rview'[m] = Put(rview[m], Delta(n, e, ADD, clock))
      BY Zenon, <1>1, <2>0, <2>5 DEF AnnounceAdd, TypeOK
    <3> QED BY Zenon, <2>0, <2>1, <2>2, <3>1, <3>2
  <2>6. ASSUME NEW n \in Node, NEW e \in Expert, AnnounceRemove(n, e)
        PROVE  Mono(rview[m], rview'[m])
    <3> DEFINE t == RemoveTs(n, e)
    <3>1. t > rview[n][<<n, e>>].ts
      BY Zenon, <1>1, DeltaFact
    <3>2. rview' = [rview EXCEPT ![n][<<n, e>>] = Entry(REMOVE, t)]
      BY Zenon, <2>6 DEF AnnounceRemove, Delta
    <3>3. Entry(REMOVE, t).ts = t
      BY Zenon DEF Entry
    <3> HIDE DEF t
    <3>4. \A k \in Key : rview'[m][k] = rview[m][k] \/ rview'[m][k].ts > rview[m][k].ts
      BY Zenon, <1>1, <2>0, <3>1, <3>2, <3>3 DEF TypeOK, ViewType
    <3> QED BY Zenon, <3>4 DEF Mono
  <2>7. ASSUME NEW n \in Node, ScannerStep(n)
        PROVE  Mono(view[m], view'[m]) /\ Mono(rview[m], rview'[m])
    <3>0. scan[n] \in ScanType
      BY Zenon, <1>1 DEF TypeOK
    <3>1. CASE Register(n)
      <4> DEFINE e == scan[n].e
      <4>1. e \in Expert /\ AnnounceAdd(n, e)
        BY Zenon, <3>0, <3>1, ScanFields DEF Register
      <4>2. view' = [view EXCEPT ![n] = Put(@, Delta(n, e, ADD, clock))]
        BY Zenon, <3>1 DEF Register
      <4> HIDE DEF e
      <4>3. Delta(n, e, ADD, clock) \in DeltaType
        BY Zenon, <1>1, <4>1, DeltaFact
      <4>4. view'[m] = view[m] \/ view'[m] = Put(view[m], Delta(n, e, ADD, clock))
        BY Zenon, <1>1, <2>0, <4>2 DEF TypeOK
      <4> QED BY Zenon, <2>0, <2>1, <2>2, <2>5, <4>1, <4>3, <4>4
    <3>2. CASE AnnounceAgain(n)
      <4>1. scan[n].e \in Expert /\ AnnounceAdd(n, scan[n].e) /\ view' = view
        BY Zenon, <3>0, <3>2, ScanFields DEF AnnounceAgain
      <4> QED BY Zenon, <2>1, <2>5, <4>1
    <3>3. CASE Unregister(n)
      <4> DEFINE e == scan[n].e
      <4>1. e \in Expert /\ AnnounceRemove(n, e)
        BY Zenon, <3>0, <3>3, ScanFields DEF Unregister
      <4>2. view' = [view EXCEPT ![n] = Put(@, Delta(n, e, REMOVE, clock))]
        BY Zenon, <3>3 DEF Unregister
      <4> HIDE DEF e
      <4>3. Delta(n, e, REMOVE, clock) \in DeltaType
        BY Zenon, <1>1, <4>1, DeltaFact
      <4>4. view'[m] = view[m] \/ view'[m] = Put(view[m], Delta(n, e, REMOVE, clock))
        BY Zenon, <1>1, <2>0, <4>2 DEF TypeOK
      <4> QED BY Zenon, <2>0, <2>1, <2>2, <2>6, <4>1, <4>3, <4>4
    <3>4. CASE ~(Register(n) \/ AnnounceAgain(n) \/ Unregister(n))
      <4>1. UNCHANGED <<view, rview>>
        BY Zenon, <2>7, <3>4 DEF ScannerStep, ScanNothing, ScanPull, SliceLookup, SliceTake,
             PullFails, Attach, EvictNone, EvictPick, Detach
      <4> QED BY Zenon, <2>4, <4>1
    <3> QED BY Zenon, <3>1, <3>2, <3>3, <3>4
  <2>8. ASSUME NEW n \in Node, Crash(n)
        PROVE  Mono(view[m], view'[m]) /\ Mono(rview[m], rview'[m])
    <3>1. m # n
      BY Zenon, <2>8 DEF Crash
    <3>2. view'[m] = view[m] /\ rview'[m] = rview[m]
      BY Zenon, <1>1, <2>0, <2>8, <3>1 DEF Crash, TypeOK
    <3> QED BY Zenon, <2>1, <3>2
  <2>9. ASSUME NEW p \in net, Deliver(p)
        PROVE  Mono(view[m], view'[m]) /\ Mono(rview[m], rview'[m])
    <3>1. p.to \in Node /\ p.batch \in SUBSET DeltaType
      BY Zenon, <1>1 DEF TypeOK
    <3>2. CASE m = p.to
      <4>1. /\ rview'[m] = PutBatch(rview[m], rview[m], p.batch)
            /\ view'[m] = PutBatch(view[m], rview[m], p.batch)
        BY Zenon, <1>1, <2>0, <2>9, <3>2 DEF Deliver, TypeOK
      <4> QED BY Zenon, <2>0, <2>3, <3>1, <4>1
    <3>3. CASE m # p.to
      <4>1. view'[m] = view[m] /\ rview'[m] = rview[m]
        BY Zenon, <1>1, <2>0, <2>9, <3>3 DEF Deliver, TypeOK
      <4> QED BY Zenon, <2>1, <4>1
    <3> QED BY Zenon, <3>2, <3>3
  <2>10. ASSUME NEW n \in Node,
                Gossip(n) \/ Restart(n)
                  \/ \E e \in Requested : ServeCheck(n, e) \/ ServeCompute(n, e)
         PROVE  UNCHANGED <<view, rview>>
    BY Zenon, <2>10 DEF Gossip, GossipRound, Restart, ServeCheck, ServeCompute
  <2>11. ASSUME NEW p \in net, Lose(p) PROVE UNCHANGED <<view, rview>>
    BY Zenon, <2>11 DEF Lose
  <2>12. CASE Tick \/ UNCHANGED vars
    BY Zenon, <2>4, <2>12 DEF Tick, vars
  <2> QED BY Zenon, <1>1, <2>4, <2>7, <2>8, <2>9, <2>10, <2>11, <2>12 DEF Next
<1>2. Act => \A m \in up \cap up' : \A k \in Key :
               /\ view'[m][k] = view[m][k] \/ view'[m][k].ts > view[m][k].ts
               /\ rview'[m][k] = rview[m][k] \/ rview'[m][k].ts > rview[m][k].ts
  BY Zenon
<1>3. TypeOK /\ [Next]_vars =>
        [\A m \in up \cap up' : \A k \in Key :
           /\ view'[m][k] = view[m][k] \/ view'[m][k].ts > view[m][k].ts
           /\ rview'[m][k] = rview[m][k] \/ rview'[m][k].ts > rview[m][k].ts]_vars
  BY Zenon, <1>1, <1>2
<1> QED BY <1>3, TypeCorrect, PTL DEF Spec, OwnershipMonotone
-----------------------------------------------------------------------------
(* The owners of shards.yaml. *)

\* A view as seeded on the keys of shards.yaml, and a delta about another key
Seeded(v) == \A k \in Key : k[2] \in Ids(Bootstrap[k[1]]) => v[k] = Entry(ADD, 0)
Foreign(d) == d.key[2] \notin Ids(Bootstrap[d.key[1]])

\* Nobody announces an expert of its own shards.yaml entry.
SeedInv ==
  /\ \A n \in Node : scan[n].pc \in {"register", "again"} => scan[n].e \notin Ids(Bootstrap[n])
  /\ \A n \in Node : Seeded(view[n])
  /\ \A n \in Node : \A o \in outq[n] : Foreign(o.rec)
  /\ \A m \in net : \A d \in m.batch : Foreign(d)

LEMMA PutSeeded ==
  ASSUME NEW v \in ViewType, Seeded(v), NEW d, Foreign(d)
  PROVE  Seeded(Put(v, d))
<1> SUFFICES ASSUME NEW k \in Key, k[2] \in Ids(Bootstrap[k[1]]) PROVE Put(v, d)[k] = v[k]
  BY Zenon DEF Seeded
<1>1. k # d.key
  BY Zenon DEF Foreign
<1> QED BY Zenon, <1>1 DEF Put, ViewType

LEMMA PutBatchSeeded ==
  ASSUME NEW v, Seeded(v), NEW r, NEW b, \A d \in b : Foreign(d)
  PROVE  Seeded(PutBatch(v, r, b))
<1> SUFFICES ASSUME NEW k \in Key, k[2] \in Ids(Bootstrap[k[1]]) PROVE PutBatch(v, r, b)[k] = v[k]
  BY Zenon DEF Seeded
<1>1. Newest(b, k) = {}
  BY Zenon DEF Newest, Foreign
<1>2. {d \in Newest(b, k) : d.ts > r[k].ts /\ d.ts > v[k].ts} = {}
  BY Zenon, <1>1
<1> QED BY Zenon, <1>2 DEF PutBatch

\* A step of scanner n: what it announces is foreign, and its view stays seeded.
LEMMA SeedMove ==
  ASSUME TypeOK, SeedInv, NEW n \in Node, NEW t, Step(n, t), net' = net,
         t.pc \in {"register", "again"} => t.e \notin Ids(Bootstrap[n]),
         \A m \in Node \ {n} : view'[m] = view[m] /\ outq'[m] = outq[m],
         Seeded(view'[n]), \A o \in outq'[n] : Foreign(o.rec)
  PROVE  SeedInv'
<1>1. scan' = [scan EXCEPT ![n] = t] /\ scan \in [Node -> ScanType]
  BY Zenon DEF Step, TypeOK
<1>2. \A m \in Node : scan'[m].pc \in {"register", "again"} => scan'[m].e \notin Ids(Bootstrap[m])
  BY Zenon, <1>1 DEF SeedInv
<1>3. \A m \in Node : Seeded(view'[m]) /\ \A o \in outq'[m] : Foreign(o.rec)
  BY Zenon DEF SeedInv
<1> QED BY Zenon, <1>2, <1>3 DEF SeedInv

\* A step that sends nothing and changes no view
LEMMA SeedQuiet ==
  ASSUME TypeOK, SeedInv, NEW n \in Node, NEW t, Step(n, t), UNCHANGED <<view, outq, net>>,
         t.pc \in {"register", "again"} => t.e \notin Ids(Bootstrap[n])
  PROVE  SeedInv'
<1>1. Seeded(view'[n]) /\ \A o \in outq'[n] : Foreign(o.rec)
  BY Zenon DEF SeedInv
<1> QED BY Zenon, <1>1, SeedMove

\* A scanner attaches and detaches only what shards.yaml does not give the node.
LEMMA SeedScannerStep ==
  ASSUME TypeOK, WeightInv, SeedInv, NEW n \in Node, ScannerStep(n)
  PROVE  SeedInv'
<1> USE DEF nodeVars, envVars
<1> DEFINE s == scan[n]
           e == s.e
<1>0. /\ s \in ScanType /\ NodeInv(n, held[n], stack[n], live[n], s)
      /\ view \in [Node -> ViewType] /\ outq \in [Node -> SUBSET Queued]
      /\ Seeded(view[n]) /\ \A o \in outq[n] : Foreign(o.rec)
  BY Zenon DEF TypeOK, WeightInv, SeedInv
<1>1. CASE ScanNothing(n) \/ PullFails(n)
  BY Zenon, <1>1, SeedQuiet DEF ScanNothing, PullFails, Evict
<1>2. CASE EvictNone(n)
  BY Zenon, <1>2, SeedQuiet DEF EvictNone, ScanDone, Idle
<1>3. ASSUME NEW x \in Expert, NEW src \in Node, ScanPull(n, x, src) PROVE SeedInv'
  BY Zenon, <1>3, SeedQuiet DEF ScanPull
<1>4. CASE SliceLookup(n)
  BY Zenon, <1>4, SeedQuiet DEF SliceLookup, Evict
<1>5. CASE SliceTake(n)
  BY Zenon, <1>5, SeedQuiet DEF SliceTake
<1>6. CASE Attach(n)
  <2>1. e \notin Ids(held[n])
    BY Zenon, <1>0, <1>6 DEF Attach, NodeInv, Agree, Tested
  <2>2. e \notin Ids(Bootstrap[n])
    <3>1. Prefix(n, held[n], stack[n]) /\ Len(Bootstrap[n]) \in Nat /\ Len(held[n]) \in Nat
      BY <1>0, MigrationAssumption DEF NodeInv, TypeOK
    <3>2. ASSUME NEW i \in 1..Len(Bootstrap[n]) PROVE Bootstrap[n][i] \in Ids(held[n])
      <4>1. i \in 1..Len(held[n]) /\ held[n][i] = Bootstrap[n][i]
        BY <3>1 DEF Prefix
      <4> QED BY Zenon, <4>1 DEF Ids
    <3> QED BY Zenon, <2>1, <3>2 DEF Ids
  <2> HIDE DEF e
  <2>3. Step(n, [pc |-> "register", e |-> e]) /\ UNCHANGED <<view, outq, net>>
    BY Zenon, <1>6 DEF Attach, e
  <2> QED BY Zenon, <2>2, <2>3, SeedQuiet
<1>7. ASSUME NEW d, Foreign(d), NEW t, Step(n, t), net' = net,
             t.pc \in {"register", "again"} => t.e \notin Ids(Bootstrap[n]),
             outq' = [outq EXCEPT ![n] = @ \cup {[rec |-> d, ttl |-> TTL]}],
             \/ view' = view
             \/ \E x : Foreign(x) /\ view' = [view EXCEPT ![n] = Put(@, x)]
      PROVE  SeedInv'
  <2>1. \A m \in Node \ {n} : view'[m] = view[m] /\ outq'[m] = outq[m]
    BY Zenon, <1>0, <1>7
  <2>2. Seeded(view'[n])
    <3>1. CASE view' = view
      BY Zenon, <1>0, <3>1
    <3>2. ASSUME NEW x, Foreign(x), view' = [view EXCEPT ![n] = Put(@, x)] PROVE Seeded(view'[n])
      <4>1. view'[n] = Put(view[n], x) /\ view[n] \in ViewType
        BY Zenon, <1>0, <3>2
      <4> QED BY Zenon, <1>0, <3>2, <4>1, PutSeeded
    <3> QED BY Zenon, <1>7, <3>1, <3>2
  <2>3. \A o \in outq'[n] : Foreign(o.rec)
    <3>1. outq'[n] = outq[n] \cup {[rec |-> d, ttl |-> TTL]}
      BY Zenon, <1>0, <1>7
    <3>2. [rec |-> d, ttl |-> TTL].rec = d
      BY Zenon
    <3> HIDE DEF s
    <3> QED BY <1>0, <1>7, <3>1, <3>2
  <2> QED BY Zenon, <1>7, <2>1, <2>2, <2>3, SeedMove
<1>8. ASSUME e \notin Ids(Bootstrap[n]), NEW act, NEW ts PROVE Foreign(Delta(n, e, act, ts))
  BY Zenon, <1>8 DEF Foreign, Delta
<1>9. CASE Register(n)
  <2>1. e \notin Ids(Bootstrap[n])
    BY Zenon, <1>9 DEF Register, SeedInv
  <2>2. Foreign(Delta(n, e, ADD, clock))
    BY Zenon, <1>8, <2>1
  <2>3. /\ Step(n, [pc |-> "again", e |-> e]) /\ net' = net
        /\ view' = [view EXCEPT ![n] = Put(@, Delta(n, e, ADD, clock))]
        /\ outq' = [outq EXCEPT ![n] = @ \cup {[rec |-> Delta(n, e, ADD, clock), ttl |-> TTL]}]
    BY Zenon, <1>9 DEF Register, AnnounceAdd
  <2> HIDE DEF e
  <2> QED BY Zenon, <1>7, <2>1, <2>2, <2>3
<1>10. CASE AnnounceAgain(n)
  <2>1. e \notin Ids(Bootstrap[n])
    BY Zenon, <1>10 DEF AnnounceAgain, SeedInv
  <2>2. Foreign(Delta(n, e, ADD, clock))
    BY Zenon, <1>8, <2>1
  <2>3. /\ Step(n, Evict) /\ net' = net /\ view' = view
        /\ outq' = [outq EXCEPT ![n] = @ \cup {[rec |-> Delta(n, e, ADD, clock), ttl |-> TTL]}]
    BY Zenon, <1>10 DEF AnnounceAgain, AnnounceAdd
  <2>4. Evict.pc \notin {"register", "again"}
    BY Zenon DEF Evict
  <2> HIDE DEF e
  <2> QED BY Zenon, <1>7, <2>2, <2>3, <2>4
<1>11. ASSUME NEW x \in Expert, EvictPick(n, x) PROVE SeedInv'
  BY Zenon, <1>11, SeedQuiet DEF EvictPick
<1>12. CASE Detach(n)
  BY Zenon, <1>12, SeedQuiet DEF Detach
<1>13. CASE Unregister(n)
  <2>1. e \notin Ids(Bootstrap[n])
    BY Zenon, <1>0, <1>13 DEF Unregister, NodeInv, Tested
  <2>2. Foreign(Delta(n, e, REMOVE, clock)) /\ Foreign(Delta(n, e, REMOVE, RemoveTs(n, e)))
    BY Zenon, <1>8, <2>1
  <2>3. /\ Step(n, Idle) /\ net' = net
        /\ view' = [view EXCEPT ![n] = Put(@, Delta(n, e, REMOVE, clock))]
        /\ outq' = [outq EXCEPT ![n] =
                      @ \cup {[rec |-> Delta(n, e, REMOVE, RemoveTs(n, e)), ttl |-> TTL]}]
    BY Zenon, <1>13 DEF Unregister, ScanDone, AnnounceRemove
  <2>4. Idle.pc \notin {"register", "again"}
    BY Zenon DEF Idle
  <2> HIDE DEF e
  <2> QED BY Zenon, <1>7, <2>2, <2>3, <2>4
<1> QED BY Zenon, <1>1, <1>2, <1>3, <1>4, <1>5, <1>6, <1>9, <1>10, <1>11, <1>12, <1>13
        DEF ScannerStep

LEMMA SeedStep ==
  ASSUME TypeOK, WeightInv, SeedInv, [Next]_vars
  PROVE  SeedInv'
<1> USE DEF nodeVars, envVars
<1>0. ASSUME UNCHANGED <<scan, view, outq>>, net' \subseteq net PROVE SeedInv'
  BY Zenon, <1>0 DEF SeedInv
<1>1. ASSUME NEW n \in Node, Gossip(n) PROVE SeedInv'
  <2>1. PICK T \in SUBSET (Node \ {n}) : GossipRound(n, T)
    BY Zenon, <1>1 DEF Gossip
  <2>2. /\ UNCHANGED <<scan, view>> /\ outq' = [outq EXCEPT ![n] = Drain(@)]
        /\ net' = net \cup {[to |-> t, batch |-> {o.rec : o \in outq[n]}] : t \in T}
    BY Zenon, <2>1 DEF GossipRound
  <2>3. \A m \in Node : \A o \in outq'[m] : Foreign(o.rec)
    <3>1. outq \in [Node -> SUBSET Queued]
      BY Zenon DEF TypeOK
    <3>2. \A o \in Drain(outq[n]) : \E x \in outq[n] : o.rec = x.rec
      BY DEF Drain
    <3> QED BY Zenon, <2>2, <3>1, <3>2 DEF SeedInv
  <2>4. \A m \in net' : \A d \in m.batch : Foreign(d)
    <3>1. ASSUME NEW m \in net', NEW d \in m.batch, m \notin net PROVE Foreign(d)
      <4>1. m.batch = {o.rec : o \in outq[n]}
        BY <2>2, <3>1
      <4> QED BY Zenon, <3>1, <4>1 DEF SeedInv
    <3> QED BY Zenon, <3>1 DEF SeedInv
  <2> QED BY Zenon, <2>2, <2>3, <2>4 DEF SeedInv
<1>2. ASSUME NEW m \in net, Deliver(m) PROVE SeedInv'
  <2>1. /\ UNCHANGED <<scan, outq>> /\ net' \subseteq net
        /\ view' = [view EXCEPT ![m.to] = PutBatch(@, rview[m.to], m.batch)]
    BY Zenon, <1>2 DEF Deliver
  <2>2. ASSUME NEW n \in Node PROVE Seeded(view'[n])
    <3>1. Seeded(view[n]) /\ view \in [Node -> ViewType] /\ \A d \in m.batch : Foreign(d)
      BY Zenon, <1>2 DEF SeedInv, TypeOK
    <3>2. CASE n = m.to
      <4>1. view'[n] = PutBatch(view[n], rview[n], m.batch)
        BY Zenon, <2>1, <3>1, <3>2
      <4> QED BY Zenon, <3>1, <4>1, PutBatchSeeded
    <3>3. CASE n # m.to
      BY Zenon, <2>1, <3>1, <3>3
    <3> QED BY Zenon, <3>2, <3>3
  <2> QED BY Zenon, <2>1, <2>2 DEF SeedInv
<1>3. ASSUME NEW n \in Node, Crash(n) PROVE SeedInv'
  <2>1. /\ view' = [view EXCEPT ![n] = SeedView] /\ outq' = [outq EXCEPT ![n] = {}] /\ net' = net
        /\ \A m \in Node : scan'[m] \in {Idle, Evict, scan[m]}
    BY Zenon, <1>3 DEF Crash
  <2>2. view \in [Node -> ViewType] /\ outq \in [Node -> SUBSET Queued]
    BY Zenon DEF TypeOK
  <2>3. Seeded(SeedView)
    BY Zenon DEF Seeded, SeedView
  <2>4. \A m \in Node : Seeded(view'[m]) /\ \A o \in outq'[m] : Foreign(o.rec)
    BY Zenon, <2>1, <2>2, <2>3 DEF SeedInv
  <2>5. Idle.pc \notin {"register", "again"} /\ Evict.pc \notin {"register", "again"}
    BY Zenon DEF Idle, Evict
  <2> QED BY Zenon, <2>1, <2>4, <2>5 DEF SeedInv
<1>4. ASSUME NEW n \in Node, Restart(n) PROVE SeedInv'
  BY Zenon, <1>0, <1>4 DEF Restart
<1>5. ASSUME NEW n \in Node, NEW e \in Requested, ServeCheck(n, e) \/ ServeCompute(n, e)
      PROVE  SeedInv'
  BY Zenon, <1>0, <1>5 DEF ServeCheck, ServeCompute
<1>6. ASSUME NEW m \in net, Lose(m) PROVE SeedInv'
  BY Zenon, <1>0, <1>6 DEF Lose
<1>7. CASE Tick \/ UNCHANGED vars
  BY Zenon, <1>0, <1>7 DEF Tick, vars
<1> QED BY Zenon, <1>1, <1>2, <1>3, <1>4, <1>5, <1>6, <1>7, SeedScannerStep DEF Next

\* Whatever is pulled, evicted, lost, delayed or restarted, every view keeps
\* every owner of shards.yaml.  Hence owners_of never comes back empty for an
\* expert of the file, and the last-replica guard of migration_detach never
\* refuses one: it counts the owner of the file whether or not that node runs.
THEOREM BootstrapOwnedAlways == Spec => []BootstrapOwned
<1>1. Init => SeedInv
  <2>1. Seeded(SeedView)
    BY Zenon DEF Seeded, SeedView
  <2>2. Idle.pc \notin {"register", "again"}
    BY Zenon DEF Idle
  <2> QED BY Zenon, <2>1, <2>2 DEF Init, SeedInv
<1>2. TypeOK /\ WeightInv /\ SeedInv /\ [Next]_vars => SeedInv'
  BY Zenon, SeedStep
<1>3. SeedInv => BootstrapOwned
  <2> SUFFICES ASSUME SeedInv, NEW n \in Node, NEW m \in Node, NEW e \in Ids(Bootstrap[m])
               PROVE  view[n][<<m, e>>].act = ADD
    BY Zenon DEF BootstrapOwned, Owners
  <2>1. e \in Expert
    BY MigrationAssumption DEF Ids
  <2>2. view[n][<<m, e>>] = Entry(ADD, 0)
    BY <2>1 DEF SeedInv, Seeded, Key
  <2> QED BY <2>2 DEF Entry
<1> QED BY <1>1, <1>2, <1>3, Inductive, PTL DEF Spec
-----------------------------------------------------------------------------
\* Without eviction nothing a scanner has seen moves: the slot it looked up in h
\* stays the expert's.
ScanOK(h, s) ==
  /\ s.pc = "slicing" => s.slot \in 1..Len(h[s.src]) /\ h[s.src][s.slot] = s.e
  /\ s.pc = "attach" => s.w = s.e
  /\ s.pc # "detach"

SlotInv == stack = held /\ \A n \in Node : ScanOK(held, scan[n])

LEMMA QuietScan ==
  ASSUME NEW h, NEW s, s.pc \notin {"slicing", "attach", "detach"}
  PROVE  ScanOK(h, s)
BY Zenon DEF ScanOK

LEMMA SlicingScan ==
  ASSUME NEW h, NEW e, NEW src, NEW i \in 1..Len(h[src]), h[src][i] = e
  PROVE  ScanOK(h, [pc |-> "slicing", e |-> e, src |-> src, slot |-> i])
BY Zenon DEF ScanOK

LEMMA AttachScan ==
  ASSUME NEW h, NEW e
  PROVE  ScanOK(h, [pc |-> "attach", e |-> e, w |-> e])
BY Zenon DEF ScanOK

\* Stacks that keep their slots keep what the scanners have seen.
LEMMA KeptScan ==
  ASSUME NEW h, NEW h2, NEW s, ScanOK(h, s),
         s.pc = "slicing" =>
           \A i \in 1..Len(h[s.src]) : i \in 1..Len(h2[s.src]) /\ h2[s.src][i] = h[s.src][i]
  PROVE  ScanOK(h2, s)
BY Zenon DEF ScanOK

\* A step of one scanner
LEMMA SlotScan ==
  ASSUME TypeOK, NEW n \in Node, NEW t, Step(n, t), ScanOK(held', t),
         \A m \in Node \ {n} : ScanOK(held', scan[m]), stack' = held'
  PROVE  SlotInv'
<1>1. scan' = [scan EXCEPT ![n] = t] /\ scan \in [Node -> ScanType]
  BY Zenon DEF Step, TypeOK
<1>2. \A m \in Node : ScanOK(held', scan'[m])
  BY Zenon, <1>1
<1> QED BY Zenon, <1>2 DEF SlotInv

\* One that leaves the stacks alone
LEMMA SlotMove ==
  ASSUME TypeOK, SlotInv, NEW n \in Node, NEW t, Step(n, t), ScanOK(held, t),
         UNCHANGED <<held, stack>>
  PROVE  SlotInv'
<1>1. ScanOK(held', t) /\ stack' = held' /\ \A m \in Node \ {n} : ScanOK(held', scan[m])
  BY Zenon DEF SlotInv
<1> QED BY Zenon, <1>1, SlotScan

\* A step that changes neither stacks nor scanners
LEMMA SlotElsewhere ==
  ASSUME SlotInv, UNCHANGED <<held, stack, scan>>
  PROVE  SlotInv'
BY Zenon DEF SlotInv

\* SlotInv is inductive when ENABLE_EVICTION is off.
LEMMA SlotScannerStep ==
  ASSUME ~Evicting, TypeOK, SlotInv, NEW n \in Node, ScannerStep(n)
  PROVE  SlotInv'
<1> DEFINE s == scan[n]
<1>0. s \in ScanType
  BY Zenon DEF TypeOK
<1>1. ASSUME NEW t, Step(n, t), UNCHANGED <<held, stack>>,
             t.pc \notin {"slicing", "attach", "detach"}
      PROVE  SlotInv'
  BY Zenon, <1>1, QuietScan, SlotMove
<1>2. CASE ScanNothing(n) \/ PullFails(n)
  BY Zenon, <1>1, <1>2 DEF ScanNothing, PullFails, Evict
<1>3. CASE EvictNone(n)
  BY Zenon, <1>1, <1>3 DEF EvictNone, ScanDone, Idle
<1>4. ASSUME NEW e \in Expert, NEW src \in Node, ScanPull(n, e, src) PROVE SlotInv'
  BY Zenon, <1>1, <1>4 DEF ScanPull
<1>5. CASE SliceLookup(n)
  <2>1. s.e \in Expert /\ s.src \in Node
    BY Zenon, <1>0, <1>5, ScanFields DEF SliceLookup
  <2>2. held[s.src] \in Seq(Expert)
    BY Zenon, <2>1 DEF TypeOK
  <2>3. CASE s.e \in Ids(held[s.src])
    <3> DEFINE i == Slot(held[s.src], s.e)
               t == [pc |-> "slicing", e |-> s.e, src |-> s.src, slot |-> i]
    <3>1. i \in 1..Len(held[s.src]) /\ held[s.src][i] = s.e
      BY Zenon, <2>2, <2>3, SlotFact
    <3>2. Step(n, t) /\ UNCHANGED <<held, stack>>
      BY Zenon, <1>5, <2>3 DEF SliceLookup
    <3> HIDE DEF i, s
    <3>3. ScanOK(held, t)
      BY Zenon, <3>1, SlicingScan
    <3> HIDE DEF t
    <3> QED BY Zenon, <3>2, <3>3, SlotMove
  <2>4. CASE s.e \notin Ids(held[s.src])
    BY Zenon, <1>1, <1>5, <2>4 DEF SliceLookup, Evict
  <2> QED BY Zenon, <2>3, <2>4
<1>6. CASE SliceTake(n)
  <2> DEFINE full == stack[s.src]
             w == IF s.slot <= Len(full) THEN full[s.slot] ELSE Garbage
             t == [pc |-> "attach", e |-> s.e, w |-> w]
  <2>1. s.pc = "slicing" /\ Step(n, t) /\ UNCHANGED <<held, stack>> /\ s.src \in Node
    BY Zenon, <1>0, <1>6, ScanFields DEF SliceTake
  <2>2. held[s.src] \in Seq(Expert)
    BY Zenon, <2>1 DEF TypeOK
  <2>3. stack = held /\ ScanOK(held, s)
    BY Zenon DEF SlotInv
  <2> HIDE DEF s
  <2>4. s.slot \in 1..Len(held[s.src]) /\ held[s.src][s.slot] = s.e
    BY Zenon, <2>1, <2>3 DEF ScanOK
  <2>5. w = s.e
    BY <2>2, <2>3, <2>4
  <2> HIDE DEF w
  <2>6. ScanOK(held, t)
    BY Zenon, <2>5, AttachScan
  <2> HIDE DEF t
  <2> QED BY Zenon, <2>1, <2>6, SlotMove
<1>7. CASE Attach(n)
  <2> DEFINE e == s.e
             t == [pc |-> "register", e |-> e]
  <2>1. s.pc = "attach" /\ e \in Expert
    BY Zenon, <1>0, <1>7, ScanFields DEF Attach
  <2>2. stack = held /\ ScanOK(held, s)
    BY Zenon DEF SlotInv
  <2>3. s.w = e
    BY Zenon, <2>1, <2>2 DEF ScanOK
  <2>4. /\ Step(n, t) /\ ScanOK(held', t)
        /\ held' = [held EXCEPT ![n] = Append(@, e)]
        /\ stack' = held'
    BY <1>7, <2>2, <2>3, QuietScan DEF Attach
  <2> HIDE DEF t, e, s
  <2>5. held \in [Node -> Seq(Expert)]
    BY Zenon DEF TypeOK
  <2>6. ASSUME NEW x \in Node, NEW i \in 1..Len(held[x])
        PROVE  i \in 1..Len(held'[x]) /\ held'[x][i] = held[x][i]
    <3>1. CASE x = n
      <4>1. held[n] \in Seq(Expert) /\ held'[n] = Append(held[n], e)
        BY Zenon, <2>4, <2>5
      <4>2. /\ Len(Append(held[n], e)) = Len(held[n]) + 1
            /\ \A j \in 1..Len(held[n]) : Append(held[n], e)[j] = held[n][j]
        BY <2>1, <4>1, AppendFact
      <4>3. Len(held[n]) \in Nat
        BY <4>1
      <4> QED BY <3>1, <4>1, <4>2, <4>3
    <3>2. CASE x # n
      BY Zenon, <2>4, <2>5, <3>2
    <3> QED BY Zenon, <3>1, <3>2
  <2>7. ASSUME NEW m \in Node \ {n} PROVE ScanOK(held', scan[m])
    <3>1. scan[m] \in ScanType /\ ScanOK(held, scan[m])
      BY Zenon DEF TypeOK, SlotInv
    <3>2. scan[m].pc = "slicing" => scan[m].src \in Node
      BY Zenon, <3>1, ScanFields
    <3> QED BY <2>6, <3>1, <3>2, KeptScan
  <2> QED BY Zenon, <2>4, <2>7, SlotScan
<1>8. CASE Register(n)
  BY Zenon, <1>1, <1>8 DEF Register
<1>9. CASE AnnounceAgain(n)
  BY Zenon, <1>1, <1>9 DEF AnnounceAgain, Evict
<1>10. ASSUME NEW e \in Expert, EvictPick(n, e) PROVE FALSE
  BY Zenon, <1>10 DEF EvictPick, Full
<1>11. ASSUME Detach(n) PROVE FALSE
  BY Zenon, <1>11 DEF Detach, SlotInv, ScanOK
<1>12. CASE Unregister(n)
  BY Zenon, <1>1, <1>12 DEF Unregister, ScanDone, Idle
<1> QED BY Zenon, <1>2, <1>3, <1>4, <1>5, <1>6, <1>7, <1>8, <1>9, <1>10, <1>11, <1>12
        DEF ScannerStep

\* A crash fails the pulls from the crashed node and lays its stack out anew.
LEMMA SlotCrash ==
  ASSUME TypeOK, SlotInv, NEW n \in Node, Crash(n)
  PROVE  SlotInv'
<1>1. /\ held' = [held EXCEPT ![n] = Bootstrap[n]]
      /\ stack' = [stack EXCEPT ![n] = Bootstrap[n]]
  BY Zenon DEF Crash
<1>2. stack' = held'
  BY Zenon, <1>1 DEF SlotInv
<1>3. ASSUME NEW m \in Node PROVE ScanOK(held', scan'[m])
  <2>0. ScanOK(held, scan[m]) /\ scan[m] \in ScanType
    BY Zenon DEF SlotInv, TypeOK
  <2>1. \/ scan'[m] = Idle \/ scan'[m] = Evict
        \/ /\ scan'[m] = scan[m]
           /\ scan[m].pc = "slicing" => scan[m].src # n
    BY Zenon DEF Crash
  <2>2. CASE scan'[m] = Idle \/ scan'[m] = Evict
    BY <2>2, QuietScan DEF Idle, Evict
  <2>3. CASE scan'[m] = scan[m] /\ (scan[m].pc = "slicing" => scan[m].src # n)
    <3>1. scan[m].pc = "slicing" => scan[m].src \in Node
      BY Zenon, <2>0, ScanFields
    <3>2. held \in [Node -> Seq(Expert)]
      BY Zenon DEF TypeOK
    <3>3. scan[m].pc = "slicing" => held'[scan[m].src] = held[scan[m].src]
      BY Zenon, <1>1, <2>3, <3>1, <3>2
    <3>4. ScanOK(held', scan[m])
      BY Zenon, <2>0, <3>3, KeptScan
    <3> QED BY Zenon, <2>3, <3>4
  <2> QED BY Zenon, <2>1, <2>2, <2>3
<1> QED BY Zenon, <1>2, <1>3 DEF SlotInv

LEMMA SlotStep ==
  ASSUME ~Evicting, TypeOK, SlotInv, [Next]_vars
  PROVE  SlotInv'
<1> USE DEF nodeVars, envVars
<1>1. ASSUME NEW n \in Node, Gossip(n) \/ Restart(n) PROVE SlotInv'
  BY Zenon, <1>1, SlotElsewhere DEF Gossip, GossipRound, Restart
<1>2. ASSUME NEW n \in Node, NEW e \in Requested, ServeCheck(n, e) \/ ServeCompute(n, e)
      PROVE  SlotInv'
  BY Zenon, <1>2, SlotElsewhere DEF ServeCheck, ServeCompute
<1>3. ASSUME NEW m \in net, Deliver(m) \/ Lose(m) PROVE SlotInv'
  BY Zenon, <1>3, SlotElsewhere DEF Deliver, Lose
<1>4. CASE Tick \/ UNCHANGED vars
  BY Zenon, <1>4, SlotElsewhere DEF Tick, vars
<1> QED BY Zenon, <1>1, <1>2, <1>3, <1>4, SlotScannerStep, SlotCrash DEF Next

\* With ENABLE_EVICTION off, every slot of every stack holds the weights of the
\* expert it is filed under, so every answer and every transfer is right.
THEOREM SlotsMatchWithoutEviction == ~Evicting => (Spec => []SlotsMatch)
<1> SUFFICES ASSUME ~Evicting PROVE Spec => []SlotsMatch
  BY Zenon
<1>1. Init => SlotInv
  <2>1. \A h : ScanOK(h, Idle)
    BY QuietScan DEF Idle
  <2> QED BY <2>1 DEF Init, SlotInv
<1>2. TypeOK /\ SlotInv /\ [Next]_vars => SlotInv'
  BY Zenon, SlotStep
<1>3. SlotInv => SlotsMatch
  BY Zenon DEF SlotInv, SlotsMatch
<1> QED BY <1>1, <1>2, <1>3, TypeCorrect, PTL DEF Spec

-----------------------------------------------------------------------------
(* With eviction. *)

\* Every transfer brings the weights of the expert it was asked for.
TransfersExact == \A n \in Node : scan[n].pc = "attach" => scan[n].w = scan[n].e

LEMMA ExactStep ==
  ASSUME TransfersExact, SlotsMatch, [Next]_vars
  PROVE  SlotsMatch'
<1> USE DEF nodeVars, envVars
<1>0. ASSUME UNCHANGED <<held, stack>> PROVE SlotsMatch'
  BY Zenon, <1>0 DEF SlotsMatch
<1>1. ASSUME NEW n \in Node, Attach(n) PROVE SlotsMatch'
  <2>1. scan[n].w = scan[n].e /\ stack = held
    BY Zenon, <1>1 DEF Attach, TransfersExact, SlotsMatch
  <2> QED BY Zenon, <1>1, <2>1 DEF Attach, SlotsMatch
<1>2. ASSUME NEW n \in Node, Detach(n) \/ Crash(n) PROVE SlotsMatch'
  BY Zenon, <1>2 DEF Detach, Crash, SlotsMatch
<1>3. ASSUME NEW n \in Node, ScannerStep(n), ~Attach(n), ~Detach(n) PROVE SlotsMatch'
  BY Zenon, <1>0, <1>3 DEF ScannerStep, ScanNothing, ScanPull, SliceLookup, SliceTake,
       PullFails, Register, AnnounceAgain, EvictNone, EvictPick, Unregister
<1>4. ASSUME NEW n \in Node, Gossip(n) \/ Restart(n) PROVE SlotsMatch'
  BY Zenon, <1>0, <1>4 DEF Gossip, GossipRound, Restart
<1>5. ASSUME NEW n \in Node, NEW e \in Requested, ServeCheck(n, e) \/ ServeCompute(n, e)
      PROVE  SlotsMatch'
  BY Zenon, <1>0, <1>5 DEF ServeCheck, ServeCompute
<1>6. ASSUME NEW m \in net, Deliver(m) \/ Lose(m) PROVE SlotsMatch'
  BY Zenon, <1>0, <1>6 DEF Deliver, Lose
<1>7. CASE Tick \/ UNCHANGED vars
  BY Zenon, <1>0, <1>7 DEF Tick, vars
<1> QED BY Zenon, <1>1, <1>2, <1>3, <1>4, <1>5, <1>6, <1>7 DEF Next

\* With ENABLE_EVICTION on, the unlocked lookup of slice_expert is the only thing
\* that can file weights under a wrong id: as long as transfers bring what they
\* were asked for, attaches, evictions, crashes and restarts keep ids and
\* weights aligned on every node.
THEOREM SlotsMatchIfTransfersExact == Spec /\ []TransfersExact => []SlotsMatch
<1>1. Init => SlotsMatch
  BY Zenon DEF Init, SlotsMatch
<1>2. TransfersExact /\ SlotsMatch /\ [Next]_vars => SlotsMatch'
  BY Zenon, ExactStep
<1> QED BY <1>1, <1>2, PTL DEF Spec

\* While ids and weights are aligned, answers are right.
LEMMA AnswerStep ==
  ASSUME TypeOK, SlotsMatch, ServedRight, [Next]_vars
  PROVE  ServedRight'
<1> USE DEF nodeVars, envVars
<1>0. ASSUME answer' = answer PROVE ServedRight'
  BY Zenon, <1>0 DEF ServedRight
<1>1. ASSUME NEW n \in Node, ScannerStep(n) \/ Gossip(n) \/ Crash(n) \/ Restart(n)
      PROVE  ServedRight'
  <2>1. answer' = answer
    BY Zenon, <1>1 DEF ScannerStep, ScanNothing, ScanPull, SliceLookup, SliceTake, PullFails,
         Attach, Register, AnnounceAgain, EvictNone, EvictPick, Detach, Unregister,
         Gossip, GossipRound, Crash, Restart
  <2> QED BY Zenon, <1>0, <2>1
<1>2. ASSUME NEW n \in Node, NEW e \in Requested, ServeCheck(n, e) PROVE ServedRight'
  <2>1. answer' = answer \/ answer' = [e |-> e, w |-> WrongShard]
    BY Zenon, <1>2 DEF ServeCheck
  <2> QED BY <1>0, <2>1 DEF ServedRight
<1>3. ASSUME NEW n \in Node, NEW e \in Requested, ServeCompute(n, e) PROVE ServedRight'
  <2> DEFINE w == IF e \in Ids(held[n]) THEN stack[n][Slot(held[n], e)] ELSE Unavailable
  <2>1. answer' = [e |-> e, w |-> w]
    BY Zenon, <1>3 DEF ServeCompute
  <2>2. w = e \/ w = Unavailable
    <3>1. held[n] \in Seq(Expert) /\ stack = held
      BY Zenon DEF TypeOK, SlotsMatch
    <3> QED BY Zenon, <3>1, SlotFact
  <2> HIDE DEF w
  <2> QED BY Zenon, <2>1, <2>2 DEF ServedRight
<1>4. ASSUME NEW m \in net, Deliver(m) \/ Lose(m) PROVE ServedRight'
  BY Zenon, <1>0, <1>4 DEF Deliver, Lose
<1>5. CASE Tick \/ UNCHANGED vars
  BY Zenon, <1>0, <1>5 DEF Tick, vars
<1> QED BY Zenon, <1>1, <1>2, <1>3, <1>4, <1>5 DEF Next

\* _handle_expert_request answers with the expert that was asked for, or with an
\* error, although evictions and attaches come between its check and its
\* computation: the slot is looked up under the lock.  Only a wrong transfer
\* can make an answer wrong, and without eviction there is none.
THEOREM AnswersRight ==
  /\ Spec /\ []TransfersExact => []ServedRight
  /\ ~Evicting => (Spec => []ServedRight)
<1>1. Init => ServedRight
  BY Zenon DEF Init, ServedRight
<1>2. TypeOK /\ SlotsMatch /\ ServedRight /\ [Next]_vars => ServedRight'
  BY Zenon, AnswerStep
<1>3. Spec /\ []SlotsMatch => []ServedRight
  BY <1>1, <1>2, TypeCorrect, PTL DEF Spec
<1>4. Spec /\ []TransfersExact => []ServedRight
  BY <1>3, SlotsMatchIfTransfersExact, PTL
<1>5. ASSUME ~Evicting PROVE Spec => []ServedRight
  <2>1. Spec => []SlotsMatch
    BY Zenon, <1>5, SlotsMatchWithoutEviction
  <2> QED BY <1>3, <2>1, PTL
<1> QED BY Zenon, <1>4, <1>5
=============================================================================
