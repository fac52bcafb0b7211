-------------------------- MODULE MigrationGossip ---------------------------
(***************************************************************************)
(* Proofs about Migration: the timestamps of announcements, and what nodes *)
(* believe about each other and about themselves.  Two announcements of a  *)
(* node about an expert never share a timestamp unless they say the same,  *)
(* if the cooldown is at least one tick; so the last writer that wins is   *)
(* the last one that wrote.                                                *)
(***************************************************************************)
EXTENDS MigrationProofs

\* What entry or delta x says about key k is not news to the announcements l:
\* it is older than the last one, or says the same.
Told(l, k, x) ==
  /\ x.ts <= l[k[1]][k[2]].ts
  /\ x.ts = l[k[1]][k[2]].ts => x.act = l[k[1]][k[2]].act

\* Every entry and every delta on its way has been announced, and so has what a
\* restart begins with.
HeardInv ==
  /\ \A k \in Key :
       /\ Told(last, k, SeedView[k]) /\ Told(last, k, NoEntry)
       /\ \A m \in Node : Told(last, k, view[m][k]) /\ Told(last, k, rview[m][k])
  /\ \A m \in Node : \A o \in outq[m] : Told(last, o.rec.key, o.rec)
  /\ \A p \in net : \A d \in p.batch : Told(last, d.key, d)

Pulling == {"asked", "slicing", "attach", "register"}

\* The timestamps of node n with its scanner at s: an announcement of a scan is
\* later than every one before the scan, and an eviction later than the attach.
TimesInv(n, s, sc, at, l, la, now) ==
  /\ sc <= now
  /\ \A e \in Expert : /\ la[e].ts <= now
                       /\ e \in l \ Ids(Bootstrap[n]) => la[e].ts <= at[e]
  /\ s.pc \in Pulling => sc < now
  /\ s.pc \in Pulling \cup {"idle"} => \A e \in Expert : la[e].ts <= sc
  /\ s.pc = "again" => at[s.e] = now /\ la[s.e] = Entry(ADD, now)
  /\ s.pc \in {"detach", "unregister"} => at[s.e] < now

\* The same for every running node; the scanner of another one is at rest and
\* its announcements are past.
ClockInv ==
  \A n \in Node :
    /\ n \in up => TimesInv(n, scan[n], scanned[n], attachTs[n], live[n], last[n], clock)
    /\ n \notin up => /\ scan[n] = Idle /\ live[n] = Ids(Bootstrap[n])
                      /\ \A e \in Expert : last[n][e].ts <= clock
-----------------------------------------------------------------------------
(* Timestamps. *)

\* The timestamps of a node are numbers.
LEMMA TimeTypes ==
  ASSUME TypeOK, NEW n \in Node
  PROVE  /\ clock \in Nat /\ scanned[n] \in Nat /\ scan[n] \in ScanType
         /\ live[n] \in SUBSET Expert
         /\ \A e \in Expert : /\ last[n][e].ts \in Int /\ attachTs[n][e] \in Nat
                              /\ rview[n][<<n, e>>].ts \in Int
<1>1. clock \in Nat
  BY MigrationAssumption DEF TypeOK
<1>2. scanned[n] \in Nat /\ scan[n] \in ScanType /\ live[n] \in SUBSET Expert
  BY Zenon DEF TypeOK
<1>3. ASSUME NEW e \in Expert
      PROVE  /\ last[n][e].ts \in Int /\ attachTs[n][e] \in Nat
             /\ rview[n][<<n, e>>].ts \in Int
  <2>1. last[n][e] \in EntryType /\ attachTs[n][e] \in Nat
    BY DEF TypeOK
  <2>2. <<n, e>> \in Key
    BY Zenon DEF Key
  <2>3. rview[n][<<n, e>>] \in EntryType
    BY <2>2 DEF TypeOK, ViewType
  <2> QED BY <2>1, <2>3 DEF EntryType
<1> QED BY Zenon, <1>1, <1>2, <1>3

\* The fields of entries, records and queued records
LEMMA RecordFacts ==
  /\ \A x \in EntryType : x.ts \in Int
  /\ \A d \in DeltaType : d.key \in Key /\ d.ts \in Int
  /\ \A o \in Queued : o.rec \in DeltaType
BY DEF EntryType, DeltaType, Queued

\* Only a running node's scanner moves.
LEMMA Running ==
  ASSUME ClockInv, NEW n \in Node, ScannerStep(n)
  PROVE  n \in up
<1>1. CASE scan[n] = Idle
  <2>1. scan[n].pc = "idle"
    BY <1>1 DEF Idle
  <2> QED BY <2>1, Zenon DEF ScannerStep, CanScan, ScanNothing, ScanPull, SliceLookup, SliceTake,
        PullFails, Attach, Register, AnnounceAgain, EvictNone, EvictPick, Detach, Unregister
<1> QED BY Zenon, <1>1 DEF ClockInv

\* An attach announces later than everything the node announced before.
LEMMA RegisterTime ==
  ASSUME TypeOK, ClockInv, NEW n \in up, scan[n].pc = "register", NEW e \in Expert
  PROVE  last[n][e].ts < clock
<1>1. n \in Node
  BY Zenon DEF TypeOK
<1>2. last[n][e].ts <= scanned[n] /\ scanned[n] < clock
  BY Zenon, <1>1 DEF ClockInv, TimesInv, Pulling
<1>3. last[n][e].ts \in Int /\ scanned[n] \in Nat /\ clock \in Nat
  BY <1>1, TimeTypes, Zenon
<1> QED BY <1>2, <1>3

\* So does an eviction: its REMOVE has the time of the clock.
LEMMA RemoveTime ==
  ASSUME TypeOK, WeightInv, HeardInv, ClockInv, NEW n \in up, scan[n].pc = "unregister"
  PROVE  /\ RemoveTs(n, scan[n].e) = clock
         /\ last[n][scan[n].e].ts < clock
<1> DEFINE e == scan[n].e
           r == rview[n][<<n, e>>].ts
<1>0. n \in Node /\ scan[n] \in ScanType
  BY Zenon DEF TypeOK
<1>1. e \in Expert
  BY Zenon, <1>0, ScanFields
<1>2. e \in live[n] \ Ids(Bootstrap[n])
  BY Zenon, <1>0 DEF WeightInv, NodeInv, Tested
<1>3. last[n][e].ts <= attachTs[n][e] /\ attachTs[n][e] < clock
  BY Zenon, <1>0, <1>1, <1>2 DEF ClockInv, TimesInv
<1>4. <<n, e>> \in Key /\ <<n, e>>[1] = n /\ <<n, e>>[2] = e
  BY Zenon, <1>0, <1>1 DEF Key
<1>5. r <= last[n][e].ts
  BY Zenon, <1>0, <1>4 DEF HeardInv, Told
<1>6. /\ clock \in Nat /\ attachTs[n][e] \in Nat /\ last[n][e].ts \in Int
      /\ r \in Int
  BY Zenon, <1>0, <1>1, TimeTypes
<1> HIDE DEF r, e
<1>7. last[n][e].ts < clock /\ r < clock /\ 0 < clock
  BY <1>3, <1>5, <1>6
<1>8. Max(clock, Max(r, 0) + 1) = clock
  BY <1>6, <1>7 DEF Max
<1> QED BY Zenon, <1>7, <1>8 DEF RemoveTs, r, e

\* A step of node n that leaves the other nodes' times alone
LEMMA LocalTimes ==
  ASSUME ClockInv, NEW n \in up, UNCHANGED <<up, clock>>,
         \A m \in Node \ {n} :
           /\ scan'[m] = scan[m] /\ scanned'[m] = scanned[m] /\ live'[m] = live[m]
           /\ attachTs'[m] = attachTs[m] /\ last'[m] = last[m],
         TimesInv(n, scan'[n], scanned'[n], attachTs'[n], live'[n], last'[n], clock)
  PROVE  ClockInv'
<1> SUFFICES ASSUME NEW m \in Node
             PROVE  /\ m \in up => TimesInv(m, scan'[m], scanned'[m], attachTs'[m],
                                            live'[m], last'[m], clock)
                    /\ m \notin up => /\ scan'[m] = Idle /\ live'[m] = Ids(Bootstrap[m])
                                      /\ \A e \in Expert : last'[m][e].ts <= clock
  BY Zenon DEF ClockInv
<1>1. CASE m = n
  BY Zenon, <1>1
<1>2. CASE m # n
  BY Zenon, <1>2 DEF ClockInv
<1> QED BY Zenon, <1>1, <1>2

\* Moves of the scanner within a pull, and to the eviction
LEMMA MoveTimes ==
  ASSUME NEW n, NEW s, NEW t, NEW sc, NEW at, NEW l, NEW la, NEW now,
         TimesInv(n, s, sc, at, l, la, now),
         t = Evict \/ (s.pc \in Pulling /\ t.pc \in Pulling)
  PROVE  TimesInv(n, t, sc, at, l, la, now)
BY DEF TimesInv, Pulling, Evict

\* A scanner's step keeps the times in order.
LEMMA ClockScannerStep ==
  ASSUME Cooldown >= 1, TypeOK, WeightInv, HeardInv, ClockInv, NEW n \in Node,
         ScannerStep(n)
  PROVE  ClockInv'
<1> USE DEF nodeVars, envVars
<1> DEFINE s == scan[n]
           Inv(t) == TimesInv(n, t, scanned[n], attachTs[n], live[n], last[n], clock)
<1>0. n \in up /\ s \in ScanType
  BY Zenon, Running DEF TypeOK
<1>1. Inv(s)
  BY Zenon, <1>0 DEF ClockInv
<1>2. ASSUME NEW t, Step(n, t)
      PROVE  scan'[n] = t /\ \A m \in Node \ {n} : scan'[m] = scan[m]
  BY Zenon, <1>2 DEF Step, TypeOK
<1>3. ASSUME NEW t, Step(n, t), Inv(t), UNCHANGED <<scanned, attachTs, live, last, up, clock>>
      PROVE  ClockInv'
  <2>1. scan'[n] = t /\ \A m \in Node \ {n} : scan'[m] = scan[m]
    BY Zenon, <1>2, <1>3
  <2> QED BY Zenon, <1>0, <1>3, <2>1, LocalTimes
<1>4. Inv(Evict)
  BY Zenon, <1>1, MoveTimes
<1>5. ASSUME NEW t, s.pc \in Pulling, t.pc \in Pulling PROVE Inv(t)
  BY Zenon, <1>1, <1>5, MoveTimes
<1>6. CASE ScanNothing(n) \/ PullFails(n)
  BY Zenon, <1>3, <1>4, <1>6 DEF ScanNothing, PullFails
<1>7. ASSUME NEW e \in Expert, NEW src \in Node, ScanPull(n, e, src) PROVE ClockInv'
  <2> DEFINE t == [pc |-> "asked", e |-> e, src |-> src]
  <2>1. s = Idle /\ scanned[n] < clock /\ Step(n, t)
        /\ UNCHANGED <<scanned, attachTs, live, last, up, clock>>
    BY Zenon, <1>7 DEF ScanPull, CanScan
  <2>2. s.pc = "idle" /\ t.pc = "asked"
    BY <2>1 DEF Idle
  <2> HIDE DEF t
  <2>3. Inv(t)
    BY Zenon, <1>1, <2>1, <2>2 DEF TimesInv, Pulling
  <2> QED BY Zenon, <1>3, <2>1, <2>3
<1>8. CASE SliceLookup(n)
  <2> DEFINE t == [pc |-> "slicing", e |-> s.e, src |-> s.src,
                   slot |-> Slot(held[s.src], s.e)]
  <2>1. /\ Step(n, t) \/ Step(n, Evict)
        /\ UNCHANGED <<scanned, attachTs, live, last, up, clock>>
    BY Zenon, <1>8 DEF SliceLookup
  <2>2. s.pc \in Pulling /\ t.pc \in Pulling
    BY Zenon, <1>8 DEF SliceLookup, Pulling
  <2> HIDE DEF t
  <2> QED BY Zenon, <1>3, <1>4, <1>5, <2>1, <2>2
<1>9. CASE SliceTake(n)
  <2> DEFINE full == stack[s.src]
             t == [pc |-> "attach", e |-> s.e,
                   w |-> IF s.slot <= Len(full) THEN full[s.slot] ELSE Garbage]
  <2>1. Step(n, t) /\ UNCHANGED <<scanned, attachTs, live, last, up, clock>>
    BY Zenon, <1>9 DEF SliceTake
  <2>2. s.pc \in Pulling /\ t.pc \in Pulling
    BY Zenon, <1>9 DEF SliceTake, Pulling
  <2> HIDE DEF t
  <2> QED BY Zenon, <1>3, <1>5, <2>1, <2>2
<1>10. CASE Attach(n)
  <2> DEFINE t == [pc |-> "register", e |-> s.e]
  <2>1. Step(n, t) /\ UNCHANGED <<scanned, attachTs, live, last, up, clock>>
    BY Zenon, <1>10 DEF Attach
  <2>2. s.pc \in Pulling /\ t.pc \in Pulling
    BY Zenon, <1>10 DEF Attach, Pulling
  <2> HIDE DEF t
  <2> QED BY Zenon, <1>3, <1>5, <2>1, <2>2
<1>11. CASE Register(n)
  <2> DEFINE e == s.e
             t == [pc |-> "again", e |-> e]
  <2>1. e \in Expert /\ t.pc = "again" /\ t.e = e
    BY Zenon, <1>0, <1>11, ScanFields DEF Register
  <2>2. Step(n, t)
    BY Zenon, <1>11 DEF Register
  <2>3. /\ live' = [live EXCEPT ![n] = @ \cup {e}]
        /\ attachTs' = [attachTs EXCEPT ![n][e] = clock]
        /\ last' = [last EXCEPT ![n][e] = Entry(ADD, clock)]
        /\ UNCHANGED <<scanned, up, clock>>
    BY Zenon, <1>11 DEF Register, AnnounceAdd
  <2> HIDE DEF t, e
  <2>4. scan'[n] = t /\ \A m \in Node \ {n} : scan'[m] = scan[m]
    BY Zenon, <1>2, <2>2
  <2>5. \A m \in Node \ {n} : /\ live'[m] = live[m] /\ attachTs'[m] = attachTs[m]
                              /\ last'[m] = last[m]
    BY Zenon, <2>3 DEF TypeOK
  <2>6. /\ live'[n] = live[n] \cup {e}
        /\ attachTs'[n][e] = clock /\ last'[n][e] = Entry(ADD, clock)
        /\ \A f \in Expert \ {e} : /\ attachTs'[n][f] = attachTs[n][f]
                                   /\ last'[n][f] = last[n][f]
    BY Zenon, <2>1, <2>3 DEF TypeOK
  <2>7. Entry(ADD, clock).ts = clock /\ clock \in Nat
    BY Zenon, TimeTypes DEF Entry
  <2>8. TimesInv(n, t, scanned[n], attachTs'[n], live'[n], last'[n], clock)
    BY <1>1, <2>1, <2>6, <2>7 DEF TimesInv, Pulling
  <2> QED BY <1>0, <2>3, <2>4, <2>5, <2>8, LocalTimes, Zenon
<1>12. CASE AnnounceAgain(n)
  <2>1. s.e \in Expert /\ s.pc = "again"
    BY Zenon, <1>0, <1>12, ScanFields DEF AnnounceAgain
  <2>2. last[n][s.e] = Entry(ADD, clock)
    BY Zenon, <1>1, <2>1 DEF TimesInv
  <2>3. last' = [last EXCEPT ![n][s.e] = Entry(ADD, clock)]
    BY Zenon, <1>12 DEF AnnounceAgain, AnnounceAdd
  <2>4. last' = last
    BY Zenon, <2>1, <2>2, <2>3 DEF TypeOK
  <2> QED BY Zenon, <1>3, <1>4, <1>12, <2>4 DEF AnnounceAgain
<1>13. CASE EvictNone(n)
  <2>1. /\ Step(n, Idle) /\ scanned' = [scanned EXCEPT ![n] = clock]
        /\ UNCHANGED <<attachTs, live, last, up, clock>>
    BY Zenon, <1>13 DEF EvictNone, ScanDone
  <2>2. scan'[n] = Idle /\ \A m \in Node \ {n} : scan'[m] = scan[m]
    BY Zenon, <1>2, <2>1
  <2>3. scanned'[n] = clock /\ \A m \in Node \ {n} : scanned'[m] = scanned[m]
    BY Zenon, <2>1 DEF TypeOK
  <2>4. Idle.pc = "idle" /\ clock \in Nat
    BY Zenon, TimeTypes DEF Idle
  <2>5. TimesInv(n, Idle, clock, attachTs[n], live[n], last[n], clock)
    BY <1>1, <2>4 DEF TimesInv, Pulling
  <2> QED BY Zenon, <1>0, <2>1, <2>2, <2>3, <2>5, LocalTimes
<1>14. ASSUME NEW e \in Expert, EvictPick(n, e) PROVE ClockInv'
  <2> DEFINE t == [pc |-> "detach", e |-> e]
  <2>1. Step(n, t) /\ UNCHANGED <<scanned, attachTs, live, last, up, clock>>
    BY Zenon, <1>14 DEF EvictPick
  <2>2. clock - attachTs[n][e] >= Cooldown
    BY Zenon, <1>14 DEF EvictPick, Eligible
  <2>3. attachTs[n][e] \in Nat /\ clock \in Nat /\ Cooldown \in Nat
    BY TimeTypes, MigrationAssumption, Zenon
  <2>4. attachTs[n][e] < clock
    BY <2>2, <2>3
  <2>5. t.pc = "detach" /\ t.e = e
    BY Zenon
  <2> HIDE DEF t
  <2>6. Inv(t)
    BY Zenon, <1>1, <2>4, <2>5 DEF TimesInv, Pulling
  <2> QED BY Zenon, <1>3, <2>1, <2>6
<1>15. CASE Detach(n)
  <2> DEFINE t == [pc |-> "unregister", e |-> s.e]
  <2>1. s.pc = "detach" /\ Step(n, t)
        /\ UNCHANGED <<scanned, attachTs, live, last, up, clock>>
    BY Zenon, <1>15 DEF Detach
  <2>2. t.pc = "unregister" /\ t.e = s.e
    BY Zenon
  <2> HIDE DEF t
  <2>3. Inv(t)
    BY Zenon, <1>1, <2>1, <2>2 DEF TimesInv, Pulling
  <2> QED BY Zenon, <1>3, <2>1, <2>3
<1>16. CASE Unregister(n)
  <2> DEFINE e == s.e
  <2>1. e \in Expert /\ s.pc = "unregister"
    BY Zenon, <1>0, <1>16, ScanFields DEF Unregister
  <2>2. RemoveTs(n, e) = clock
    BY Zenon, <1>0, <2>1, RemoveTime
  <2>3. /\ live' = [live EXCEPT ![n] = @ \ {e}]
        /\ attachTs' = [attachTs EXCEPT ![n][e] = 0]
        /\ last' = [last EXCEPT ![n][e] = Entry(REMOVE, RemoveTs(n, e))]
        /\ Step(n, Idle) /\ scanned' = [scanned EXCEPT ![n] = clock]
        /\ UNCHANGED <<up, clock>>
    BY Zenon, <1>16 DEF Unregister, AnnounceRemove, ScanDone, Delta
  <2> HIDE DEF e
  <2>4. scan'[n] = Idle /\ \A m \in Node \ {n} : scan'[m] = scan[m]
    BY Zenon, <1>2, <2>3
  <2>5. \A m \in Node \ {n} : /\ live'[m] = live[m] /\ attachTs'[m] = attachTs[m]
                              /\ last'[m] = last[m] /\ scanned'[m] = scanned[m]
    BY Zenon, <2>3 DEF TypeOK
  <2>6. /\ live'[n] = live[n] \ {e} /\ scanned'[n] = clock
        /\ last'[n][e] = Entry(REMOVE, clock)
        /\ \A f \in Expert \ {e} : /\ attachTs'[n][f] = attachTs[n][f]
                                   /\ last'[n][f] = last[n][f]
    BY Zenon, <2>1, <2>2, <2>3 DEF TypeOK
  <2>7. Entry(REMOVE, clock).ts = clock /\ clock \in Nat /\ Idle.pc = "idle"
    BY Zenon, TimeTypes DEF Entry, Idle
  <2>8. TimesInv(n, Idle, clock, attachTs'[n], live'[n], last'[n], clock)
    <3>1. \A f \in Expert : last[n][f].ts <= clock
      BY Zenon, <1>1 DEF TimesInv
    <3>2. \A f \in Expert : last'[n][f].ts <= clock
      BY <2>6, <2>7, <3>1
    <3>3. \A f \in live[n] \ Ids(Bootstrap[n]) : f \in Expert => last[n][f].ts <= attachTs[n][f]
      BY Zenon, <1>1 DEF TimesInv
    <3>4. \A f \in Expert :
            f \in live'[n] \ Ids(Bootstrap[n]) => last'[n][f].ts <= attachTs'[n][f]
      BY Zenon, <2>6, <3>3
    <3>5. clock <= clock
      BY <2>7
    <3> QED BY ONLY Zenon, <2>7, <3>2, <3>4, <3>5 DEF TimesInv, Pulling
  <2> QED BY <1>0, <2>3, <2>4, <2>5, <2>6, <2>8, LocalTimes, Zenon
<1> QED BY Zenon, <1>6, <1>7, <1>8, <1>9, <1>10, <1>11, <1>12, <1>13, <1>14, <1>15, <1>16
        DEF ScannerStep

\* Every step does.
LEMMA ClockStep ==
  ASSUME Cooldown >= 1, TypeOK, WeightInv, HeardInv, ClockInv, [Next]_vars
  PROVE  ClockInv'
<1> USE DEF nodeVars, envVars
<1>1. ASSUME UNCHANGED <<scan, scanned, attachTs, live, last, up, clock>> PROVE ClockInv'
  BY Zenon, <1>1 DEF ClockInv
<1>2. ASSUME NEW n \in Node, Gossip(n) PROVE ClockInv'
  BY Zenon, <1>1, <1>2 DEF Gossip, GossipRound
<1>3. ASSUME NEW n \in Node, NEW e \in Requested, ServeCheck(n, e) \/ ServeCompute(n, e)
      PROVE  ClockInv'
  BY Zenon, <1>1, <1>3 DEF ServeCheck, ServeCompute
<1>4. ASSUME NEW m \in net, Deliver(m) \/ Lose(m) PROVE ClockInv'
  BY Zenon, <1>1, <1>4 DEF Deliver, Lose
<1>5. CASE UNCHANGED vars
  BY Zenon, <1>1, <1>5 DEF vars
<1>6. ASSUME NEW n \in Node, Crash(n) PROVE ClockInv'
  <2> SUFFICES ASSUME NEW m \in Node
               PROVE  /\ m \in up' => TimesInv(m, scan'[m], scanned[m], attachTs'[m],
                                               live'[m], last[m], clock)
                      /\ m \notin up' => /\ scan'[m] = Idle /\ live'[m] = Ids(Bootstrap[m])
                                         /\ \A e \in Expert : last[m][e].ts <= clock
    BY <1>6, Zenon DEF ClockInv, Crash
  <2>1. CASE m = n
    <3>1. m \notin up' /\ scan'[m] = Idle /\ live'[m] = Ids(Bootstrap[m])
      BY Zenon, <1>6, <2>1 DEF Crash, TypeOK
    <3>2. \A e \in Expert : last[m][e].ts <= clock
      <4>1. m \in up
        BY Zenon, <1>6, <2>1 DEF Crash
      <4>2. TimesInv(m, scan[m], scanned[m], attachTs[m], live[m], last[m], clock)
        BY <4>1, Zenon DEF ClockInv
      <4> QED BY ONLY <4>2, Zenon DEF TimesInv
    <3> QED BY Zenon, <3>1, <3>2
  <2>2. CASE m # n
    <3>1. /\ m \in up' <=> m \in up
          /\ live'[m] = live[m] /\ attachTs'[m] = attachTs[m]
          /\ scan'[m] = scan[m] \/ (scan'[m] = Evict /\ scan[m].pc \in {"asked", "slicing"})
      <4>1. /\ up' = up \ {n} /\ live' = [live EXCEPT ![n] = Ids(Bootstrap[n])]
            /\ attachTs' = [attachTs EXCEPT ![n] = [e \in Expert |-> 0]]
            /\ scan'[m] = scan[m] \/ (scan'[m] = Evict /\ scan[m].pc \in {"asked", "slicing"})
        BY Zenon, <1>6, <2>2 DEF Crash
      <4>2. /\ live \in [Node -> SUBSET Expert] /\ attachTs \in [Node -> [Expert -> Nat]]
        BY ONLY Zenon, TypeOK DEF TypeOK
      <4> QED BY ONLY Zenon, <2>2, <4>1, <4>2, m \in Node
    <3>2. CASE m \in up
      <4>1. TimesInv(m, scan[m], scanned[m], attachTs[m], live[m], last[m], clock)
        BY Zenon, <3>2 DEF ClockInv
      <4>2. TimesInv(m, Evict, scanned[m], attachTs[m], live[m], last[m], clock)
        BY Zenon, <4>1, MoveTimes
      <4> QED BY Zenon, <3>1, <3>2, <4>1, <4>2
    <3>3. CASE m \notin up
      <4>1. scan[m] = Idle /\ live[m] = Ids(Bootstrap[m])
            /\ \A e \in Expert : last[m][e].ts <= clock
        BY Zenon, <3>3 DEF ClockInv
      <4>2. scan[m].pc = "idle"
        BY <4>1 DEF Idle
      <4> QED BY Zenon, <3>1, <3>3, <4>1, <4>2
    <3> QED BY Zenon, <3>2, <3>3
  <2> QED BY Zenon, <2>1, <2>2
<1>7. ASSUME NEW n \in Node, Restart(n) PROVE ClockInv'
  <2> SUFFICES ASSUME NEW m \in Node
               PROVE  /\ m \in up' => TimesInv(m, scan[m], scanned'[m], attachTs[m],
                                               live[m], last[m], clock)
                      /\ m \notin up' => /\ scan[m] = Idle /\ live[m] = Ids(Bootstrap[m])
                                         /\ \A e \in Expert : last[m][e].ts <= clock
    BY <1>7, Zenon DEF ClockInv, Restart
  <2>1. CASE m = n
    <3>1. m \in up' /\ scanned'[m] = clock
      BY Zenon, <1>7, <2>1 DEF Restart, TypeOK
    <3>2. /\ scan[m] = Idle /\ live[m] = Ids(Bootstrap[m])
          /\ \A e \in Expert : last[m][e].ts <= clock
      BY Zenon, <1>7, <2>1 DEF ClockInv, Restart
    <3>3. Idle.pc = "idle" /\ clock \in Nat
      BY Zenon, TimeTypes DEF Idle
    <3>4. TimesInv(m, Idle, clock, attachTs[m], live[m], last[m], clock)
      BY <3>2, <3>3 DEF TimesInv, Pulling
    <3> QED BY Zenon, <3>1, <3>2, <3>4
  <2>2. CASE m # n
    <3>1. (m \in up' <=> m \in up) /\ scanned'[m] = scanned[m]
      BY Zenon, <1>7, <2>2 DEF Restart, TypeOK
    <3> QED BY Zenon, <3>1 DEF ClockInv
  <2> QED BY Zenon, <2>1, <2>2
<1>8. CASE Tick
  <2> SUFFICES ASSUME NEW m \in Node
               PROVE  /\ m \in up => TimesInv(m, scan[m], scanned[m], attachTs[m],
                                              live[m], last[m], clock + 1)
                      /\ m \notin up => /\ scan[m] = Idle /\ live[m] = Ids(Bootstrap[m])
                                        /\ \A e \in Expert : last[m][e].ts <= clock + 1
    BY Zenon, <1>8 DEF ClockInv, Tick
  <2>1. scan[m].pc # "again"
    BY Zenon, <1>8 DEF Tick
  <2>2. /\ clock \in Nat /\ scanned[m] \in Nat
        /\ \A e \in Expert : last[m][e].ts \in Int /\ attachTs[m][e] \in Nat
    BY TimeTypes, Zenon
  <2>3. \A e \in Expert : last[m][e].ts <= clock => last[m][e].ts <= clock + 1
    BY <2>2
  <2>4. CASE m \in up
    <3> DEFINE s == scan[m]
    <3>1. TimesInv(m, s, scanned[m], attachTs[m], live[m], last[m], clock)
      BY Zenon, <2>4 DEF ClockInv
    <3>2. s.pc \in {"detach", "unregister"} => s.e \in Expert
      BY Zenon, TimeTypes, ScanFields
    <3>3. s.pc \in {"detach", "unregister"} => attachTs[m][s.e] < clock + 1
      BY <2>2, <3>1, <3>2 DEF TimesInv
    <3>4. scanned[m] <= clock + 1 /\ (s.pc \in Pulling => scanned[m] < clock + 1)
      BY <2>2, <3>1 DEF TimesInv
    <3> HIDE DEF s
    <3>5. TimesInv(m, s, scanned[m], attachTs[m], live[m], last[m], clock + 1)
      BY Zenon, <2>1, <2>3, <3>1, <3>3, <3>4 DEF TimesInv, s
    <3> QED BY Zenon, <2>4, <3>5 DEF s
  <2>5. CASE m \notin up
    BY Zenon, <2>3, <2>5 DEF ClockInv
  <2> QED BY Zenon, <2>4, <2>5
<1> QED BY Zenon, <1>2, <1>3, <1>4, <1>5, <1>6, <1>7, <1>8, ClockScannerStep DEF Next
-----------------------------------------------------------------------------
(* What nodes hear. *)

\* _ownership_view_put leaves an entry or replaces it by the delta.
LEMMA PutSource ==
  ASSUME NEW v \in ViewType, NEW d \in DeltaType, NEW k \in Key
  PROVE  \/ Put(v, d)[k] = v[k]
         \/ k = d.key /\ d.ts > v[k].ts /\ Put(v, d)[k] = Entry(d.act, d.ts)
<1>1. CASE d.ts > v[d.key].ts
  <2>1. Put(v, d) = [v EXCEPT ![d.key] = Entry(d.act, d.ts)]
    BY Zenon, <1>1 DEF Put
  <2> QED BY Zenon, <1>1, <2>1 DEF ViewType
<1>2. CASE ~(d.ts > v[d.key].ts)
  BY Zenon, <1>2 DEF Put
<1> QED BY Zenon, <1>1, <1>2

\* A received batch leaves an entry or replaces it by one of its deltas.
LEMMA BatchSource ==
  ASSUME NEW v, NEW r, NEW b, NEW k \in Key
  PROVE  \/ PutBatch(v, r, b)[k] = v[k]
         \/ \E d \in b : /\ d.key = k /\ d.ts > v[k].ts
                         /\ PutBatch(v, r, b)[k] = Entry(d.act, d.ts)
<1> DEFINE wins == {d \in Newest(b, k) : d.ts > r[k].ts /\ d.ts > v[k].ts}
           pick == CHOOSE d \in wins : TRUE
<1>1. PutBatch(v, r, b)[k] = IF wins = {} THEN v[k] ELSE Entry(pick.act, pick.ts)
  BY Zenon DEF PutBatch
<1>2. CASE wins # {}
  <2>1. pick \in wins
    BY Zenon, <1>2
  <2>2. pick \in b /\ pick.key = k /\ pick.ts > v[k].ts
    BY Zenon, <2>1 DEF Newest
  <2> HIDE DEF pick, wins
  <2> QED BY Zenon, <1>1, <1>2, <2>2
<1> QED BY Zenon, <1>1, <1>2

\* A batch leaves alone what it does not speak of.
LEMMA BatchOther ==
  ASSUME NEW v, NEW r, NEW b, NEW k \in Key, \A d \in b : d.key # k
  PROVE  PutBatch(v, r, b)[k] = v[k]
<1> DEFINE wins == {d \in Newest(b, k) : d.ts > r[k].ts /\ d.ts > v[k].ts}
<1>1. wins = {}
  BY Zenon DEF Newest
<1> QED BY ONLY Zenon, <1>1, k \in Key DEF PutBatch

\* An entry that came from an announced delta has been announced.
LEMMA ToldEntry ==
  ASSUME NEW l, NEW k, NEW x, Told(l, k, x)
  PROVE  Told(l, k, Entry(x.act, x.ts))
BY Zenon DEF Told, Entry

\* Views, queues and datagrams of the next state hold what was announced
\* before, or the announcement of the step itself, and this one is newer.
LEMMA HeardNext ==
  ASSUME TypeOK, TypeOK', HeardInv,
         \A k \in Key : \/ last'[k[1]][k[2]] = last[k[1]][k[2]]
                        \/ last[k[1]][k[2]].ts < last'[k[1]][k[2]].ts,
         \A m \in Node, k \in Key :
           /\ Told(last, k, view'[m][k]) \/ Told(last', k, view'[m][k])
           /\ Told(last, k, rview'[m][k]) \/ Told(last', k, rview'[m][k]),
         \A m \in Node : \A o \in outq'[m] :
           Told(last, o.rec.key, o.rec) \/ Told(last', o.rec.key, o.rec),
         \A p \in net' : \A d \in p.batch : Told(last, d.key, d) \/ Told(last', d.key, d)
  PROVE  HeardInv'
<1>1. ASSUME NEW k \in Key, NEW x, x.ts \in Int, Told(last, k, x) \/ Told(last', k, x)
      PROVE  Told(last', k, x)
  <2>1. k[1] \in Node /\ k[2] \in Expert
    BY Zenon DEF Key
  <2> DEFINE old == last[k[1]][k[2]]
             new == last'[k[1]][k[2]]
  <2>2. /\ last \in [Node -> [Expert -> EntryType]]
        /\ last' \in [Node -> [Expert -> EntryType]]
    BY Zenon DEF TypeOK
  <2>3. old \in EntryType /\ new \in EntryType
    BY Zenon, <2>1, <2>2
  <2>4. new = old \/ old.ts < new.ts
    BY Zenon
  <2>5. \/ x.ts <= old.ts /\ (x.ts = old.ts => x.act = old.act)
        \/ x.ts <= new.ts /\ (x.ts = new.ts => x.act = new.act)
    BY <1>1, Zenon DEF Told
  <2> HIDE DEF old, new
  <2>6. old.ts \in Int /\ new.ts \in Int
    BY ONLY Zenon, <2>3, RecordFacts
  <2>7. x.ts <= new.ts /\ (x.ts = new.ts => x.act = new.act)
    <3>1. x.ts \in Int
      BY Zenon, <1>1
    <3> QED BY ONLY <2>4, <2>5, <2>6, <3>1
  <2> QED BY <2>7, Zenon DEF Told, new
<1>2. ASSUME NEW k \in Key PROVE Told(last', k, SeedView[k]) /\ Told(last', k, NoEntry)
  <2>1. Told(last, k, SeedView[k]) /\ Told(last, k, NoEntry)
    BY Zenon DEF HeardInv
  <2>2. SeedView[k].ts \in Int /\ NoEntry.ts \in Int
    <3>1. SeedView[k] \in EntryType
      BY ONLY Zenon, k \in Key, SeedFact DEF ViewType
    <3>2. NoEntry.ts \in Int
      BY ONLY TRUE DEF NoEntry
    <3> QED BY ONLY Zenon, <3>1, <3>2, RecordFacts
  <2> QED BY <1>1, <2>1, <2>2, Zenon
<1>3. ASSUME NEW k \in Key, NEW m \in Node
      PROVE  Told(last', k, view'[m][k]) /\ Told(last', k, rview'[m][k])
  <2>1. view' \in [Node -> ViewType] /\ rview' \in [Node -> ViewType]
    BY ONLY Zenon, TypeOK' DEF TypeOK
  <2>2. view'[m][k].ts \in Int /\ rview'[m][k].ts \in Int
    <3>1. view'[m][k] \in EntryType /\ rview'[m][k] \in EntryType
      BY ONLY Zenon, <2>1, m \in Node, k \in Key DEF ViewType
    <3> QED BY ONLY Zenon, <3>1, RecordFacts
  <2> QED BY Zenon, <1>1, <2>2
<1>4. ASSUME NEW m \in Node, NEW o \in outq'[m] PROVE Told(last', o.rec.key, o.rec)
  <2>1. o \in Queued
    BY Zenon DEF TypeOK
  <2>2. o.rec.key \in Key /\ o.rec.ts \in Int
    BY ONLY Zenon, <2>1, RecordFacts
  <2> QED BY Zenon, <1>1, <2>2
<1>5. ASSUME NEW p \in net', NEW d \in p.batch PROVE Told(last', d.key, d)
  <2>1. d \in DeltaType
    BY Zenon DEF TypeOK
  <2>2. d.key \in Key /\ d.ts \in Int
    BY ONLY Zenon, <2>1, RecordFacts
  <2> QED BY Zenon, <1>1, <2>2
<1> QED BY Zenon, <1>2, <1>3, <1>4, <1>5 DEF HeardInv

\* An announcement that is newer than the last one, or repeats it
LEMMA HeardAnnounce ==
  ASSUME TypeOK, TypeOK', HeardInv, NEW n \in Node, NEW e \in Expert,
         NEW a \in {ADD, REMOVE},
         last[n][e].ts < clock \/ last[n][e] = Entry(a, clock),
         last' = [last EXCEPT ![n][e] = Entry(a, clock)],
         \A m \in Node, k \in Key :
           /\ view'[m][k] = view[m][k] \/ (k = <<n, e>> /\ view'[m][k] = Entry(a, clock))
           /\ rview'[m][k] = rview[m][k] \/ (k = <<n, e>> /\ rview'[m][k] = Entry(a, clock)),
         \A m \in Node : \A o \in outq'[m] : o \in outq[m] \/ o.rec = Delta(n, e, a, clock),
         net' = net
  PROVE  HeardInv'
<1> DEFINE x == Entry(a, clock)
           d == Delta(n, e, a, clock)
           key == <<n, e>>
<1>1. key \in Key /\ key[1] = n /\ key[2] = e
  BY Zenon DEF Key
<1>2. /\ x.ts = clock /\ x.act = a
      /\ d.ts = clock /\ d.act = a /\ d.key = key
  BY Zenon DEF Entry, Delta
<1>3. last'[n][e] = x
  BY Zenon DEF TypeOK
<1>4. clock \in Nat
  BY Zenon, TimeTypes
<1> HIDE DEF x, d, key
<1>5. Told(last', key, x) /\ Told(last', d.key, d)
  <2>1. clock <= clock
    BY ONLY <1>4
  <2>2. last'[key[1]][key[2]] = x
    BY ONLY Zenon, <1>1, <1>3
  <2> QED BY ONLY Zenon, <1>2, <2>1, <2>2 DEF Told
<1>6. ASSUME NEW k \in Key
      PROVE  \/ last'[k[1]][k[2]] = last[k[1]][k[2]]
             \/ last[k[1]][k[2]].ts < last'[k[1]][k[2]].ts
  <2>1. k[1] \in Node /\ k[2] \in Expert
    BY Zenon DEF Key
  <2>2. CASE k[1] = n /\ k[2] = e
    BY Zenon, <1>2, <1>3, <2>2 DEF x
  <2>3. CASE ~(k[1] = n /\ k[2] = e)
    <3>1. last \in [Node -> [Expert -> EntryType]]
      BY Zenon DEF TypeOK
    <3>2. last'[k[1]][k[2]] = last[k[1]][k[2]]
      BY <2>1, <2>3, <3>1, Zenon
    <3> QED BY Zenon, <3>2
  <2> QED BY Zenon, <2>2, <2>3
<1>7. ASSUME NEW m \in Node, NEW k \in Key
      PROVE  /\ Told(last, k, view'[m][k]) \/ Told(last', k, view'[m][k])
             /\ Told(last, k, rview'[m][k]) \/ Told(last', k, rview'[m][k])
  <2>1. Told(last, k, view[m][k]) /\ Told(last, k, rview[m][k])
    BY Zenon DEF HeardInv
  <2>2. /\ view'[m][k] = view[m][k] \/ (k = key /\ view'[m][k] = x)
        /\ rview'[m][k] = rview[m][k] \/ (k = key /\ rview'[m][k] = x)
    BY Zenon DEF key, x
  <2> QED BY Zenon, <1>5, <2>1, <2>2
<1>8. ASSUME NEW m \in Node, NEW o \in outq'[m]
      PROVE  Told(last, o.rec.key, o.rec) \/ Told(last', o.rec.key, o.rec)
  <2>1. o \in outq[m] \/ o.rec = d
    BY Zenon DEF d
  <2> QED BY Zenon, <1>5, <2>1 DEF HeardInv
<1>9. \A p \in net' : \A y \in p.batch : Told(last, y.key, y)
  BY Zenon DEF HeardInv
<1> QED BY <1>6, <1>7, <1>8, <1>9, HeardNext, Zenon

\* A scanner announces nothing that contradicts what it announced before.
LEMMA HeardScannerStep ==
  ASSUME TypeOK, TypeOK', WeightInv, HeardInv, ClockInv, NEW n \in Node, ScannerStep(n)
  PROVE  HeardInv'
<1> USE DEF nodeVars, envVars
<1>0. n \in up /\ scan[n] \in ScanType
  BY Zenon, Running DEF TypeOK
<1>1. /\ view \in [Node -> ViewType] /\ rview \in [Node -> ViewType]
      /\ outq \in [Node -> SUBSET Queued]
  BY Zenon DEF TypeOK
<1>2. ASSUME NEW e \in Expert, NEW a \in {ADD, REMOVE},
             Delta(n, e, a, clock) \in DeltaType, NEW v \in ViewType, NEW k \in Key
      PROVE  \/ Put(v, Delta(n, e, a, clock))[k] = v[k]
             \/ k = <<n, e>> /\ Put(v, Delta(n, e, a, clock))[k] = Entry(a, clock)
  <2>1. /\ Delta(n, e, a, clock).key = <<n, e>> /\ Delta(n, e, a, clock).ts = clock
        /\ Delta(n, e, a, clock).act = a
    BY Zenon DEF Delta
  <2> QED BY <1>2, <2>1, PutSource, Zenon
<1>3. ASSUME NEW e \in Expert, AnnounceAdd(n, e)
      PROVE  /\ \A m \in Node, k \in Key :
                  rview'[m][k] = rview[m][k] \/ (k = <<n, e>> /\ rview'[m][k] = Entry(ADD, clock))
             /\ \A m \in Node : \A o \in outq'[m] :
                  o \in outq[m] \/ o.rec = Delta(n, e, ADD, clock)
             /\ last' = [last EXCEPT ![n][e] = Entry(ADD, clock)]
  <2> DEFINE d == Delta(n, e, ADD, clock)
  <2>1. /\ outq' = [outq EXCEPT ![n] = @ \cup {[rec |-> d, ttl |-> TTL]}]
        /\ rview' = [rview EXCEPT ![n] = Put(@, d)]
        /\ last' = [last EXCEPT ![n][e] = Entry(ADD, clock)]
    BY Zenon, <1>3 DEF AnnounceAdd
  <2>2. d \in DeltaType
    BY DeltaFact, Zenon
  <2>3. ASSUME NEW m \in Node, NEW k \in Key
        PROVE  rview'[m][k] = rview[m][k] \/ (k = <<n, e>> /\ rview'[m][k] = Entry(ADD, clock))
    <3>1. rview[n] \in ViewType
      BY Zenon, <1>1
    <3>2. Put(rview[n], d)[k] = rview[n][k]
          \/ (k = <<n, e>> /\ Put(rview[n], d)[k] = Entry(ADD, clock))
      BY Zenon, <1>2, <2>2, <3>1
    <3> HIDE DEF d
    <3>3. rview'[m] = IF m = n THEN Put(rview[n], d) ELSE rview[m]
      BY Zenon, <1>1, <2>1
    <3> QED BY Zenon, <3>2, <3>3
  <2> HIDE DEF d
  <2>4. \A m \in Node : \A o \in outq'[m] : o \in outq[m] \/ o.rec = d
    BY <1>1, <2>1
  <2> QED BY Zenon, <2>1, <2>3, <2>4 DEF d
<1>4. CASE Register(n)
  <2> DEFINE e == scan[n].e
  <2>1. /\ e \in Expert /\ scan[n].pc = "register" /\ AnnounceAdd(n, e)
        /\ view' = [view EXCEPT ![n] = Put(@, Delta(n, e, ADD, clock))] /\ net' = net
    BY Zenon, <1>0, <1>4, ScanFields DEF Register
  <2> HIDE DEF e
  <2>2. last[n][e].ts < clock
    BY Zenon, <1>0, <2>1, RegisterTime
  <2>3. ASSUME NEW m \in Node, NEW k \in Key
        PROVE  view'[m][k] = view[m][k] \/ (k = <<n, e>> /\ view'[m][k] = Entry(ADD, clock))
    <3>1. view[n] \in ViewType /\ Delta(n, e, ADD, clock) \in DeltaType
      BY <1>1, <2>1, DeltaFact, Zenon
    <3>2. Put(view[n], Delta(n, e, ADD, clock))[k] = view[n][k]
          \/ (k = <<n, e>> /\ Put(view[n], Delta(n, e, ADD, clock))[k] = Entry(ADD, clock))
      BY Zenon, <1>2, <2>1, <3>1
    <3>3. view'[m] = IF m = n THEN Put(view[n], Delta(n, e, ADD, clock)) ELSE view[m]
      BY Zenon, <1>1, <2>1
    <3> QED BY Zenon, <3>2, <3>3
  <2> QED BY <1>3, <2>1, <2>2, <2>3, HeardAnnounce
<1>5. CASE AnnounceAgain(n)
  <2> DEFINE e == scan[n].e
  <2>1. /\ e \in Expert /\ scan[n].pc = "again" /\ AnnounceAdd(n, e)
        /\ view' = view /\ net' = net
    BY Zenon, <1>0, <1>5, ScanFields DEF AnnounceAgain
  <2>2. last[n][e] = Entry(ADD, clock)
    BY Zenon, <1>0, <2>1 DEF ClockInv, TimesInv
  <2> HIDE DEF e
  <2> QED BY <1>3, <2>1, <2>2, HeardAnnounce
<1>6. CASE Unregister(n)
  <2> DEFINE e == scan[n].e
             d == Delta(n, e, REMOVE, clock)
  <2>1. /\ e \in Expert /\ scan[n].pc = "unregister" /\ AnnounceRemove(n, e)
        /\ view' = [view EXCEPT ![n] = Put(@, d)] /\ net' = net
    BY Zenon, <1>0, <1>6, ScanFields DEF Unregister
  <2>2. RemoveTs(n, e) = clock /\ last[n][e].ts < clock
    BY <1>0, <2>1, RemoveTime, Zenon
  <2> HIDE DEF e
  <2>3. d.ts = clock /\ d \in DeltaType
    BY <2>1, DeltaFact, Zenon DEF Delta
  <2>4. /\ outq' = [outq EXCEPT ![n] = @ \cup {[rec |-> d, ttl |-> TTL]}]
        /\ rview' = [rview EXCEPT ![n][<<n, e>>] = Entry(REMOVE, clock)]
        /\ last' = [last EXCEPT ![n][e] = Entry(REMOVE, clock)]
    BY Zenon, <2>1, <2>2, <2>3 DEF AnnounceRemove
  <2>5. ASSUME NEW m \in Node, NEW k \in Key
        PROVE  view'[m][k] = view[m][k] \/ (k = <<n, e>> /\ view'[m][k] = Entry(REMOVE, clock))
    <3>1. view[n] \in ViewType
      BY Zenon, <1>1
    <3>2. Put(view[n], d)[k] = view[n][k]
          \/ (k = <<n, e>> /\ Put(view[n], d)[k] = Entry(REMOVE, clock))
      BY <1>2, <2>1, <2>3, <3>1, Zenon
    <3> HIDE DEF d
    <3>3. view'[m] = IF m = n THEN Put(view[n], d) ELSE view[m]
      BY ONLY Zenon, <1>1, <2>1, n \in Node, m \in Node
    <3> QED BY <3>2, <3>3, Zenon
  <2>6. ASSUME NEW m \in Node, NEW k \in Key
        PROVE  rview'[m][k] = rview[m][k] \/ (k = <<n, e>> /\ rview'[m][k] = Entry(REMOVE, clock))
    <3>1. rview'[m] = IF m = n THEN [rview[n] EXCEPT ![<<n, e>>] = Entry(REMOVE, clock)]
                               ELSE rview[m]
      BY ONLY Zenon, <1>1, <2>4, m \in Node, n \in Node
    <3>2. rview[n] \in [Key -> EntryType]
      BY ONLY Zenon, <1>1, n \in Node DEF ViewType
    <3> QED BY ONLY Zenon, <3>1, <3>2, k \in Key
  <2> HIDE DEF d
  <2>7. ASSUME NEW m \in Node, NEW o \in outq'[m] PROVE o \in outq[m] \/ o.rec = d
    <3>1. outq'[m] = IF m = n THEN outq[n] \cup {[rec |-> d, ttl |-> TTL]} ELSE outq[m]
      BY ONLY Zenon, <1>1, <2>4, m \in Node, n \in Node
    <3> QED BY ONLY <3>1, o \in outq'[m]
  <2>8. \A m \in Node : \A o \in outq'[m] :
          o \in outq[m] \/ o.rec = Delta(n, e, REMOVE, clock)
    BY Zenon, <2>7 DEF d
  <2>9. REMOVE \in {ADD, REMOVE}
    BY Zenon
  <2>10. \A m \in Node, k \in Key :
           /\ view'[m][k] = view[m][k]
              \/ (k = <<n, e>> /\ view'[m][k] = Entry(REMOVE, clock))
           /\ rview'[m][k] = rview[m][k]
              \/ (k = <<n, e>> /\ rview'[m][k] = Entry(REMOVE, clock))
    BY ONLY Zenon, <2>5, <2>6
  <2>11. e \in Expert /\ net' = net /\ last[n][e].ts < clock
    BY Zenon, <2>1, <2>2
  <2> QED BY ONLY TypeOK, TypeOK', HeardInv, n \in Node, <2>4, <2>8, <2>9, <2>10, <2>11,
                  HeardAnnounce, Zenon
<1>7. CASE ~(Register(n) \/ AnnounceAgain(n) \/ Unregister(n))
  <2>1. UNCHANGED <<view, rview, outq, last, net>>
    BY <1>7, Zenon DEF ScannerStep, ScanNothing, ScanPull, SliceLookup, SliceTake,
       PullFails, Attach, EvictNone, EvictPick, Detach
  <2> QED BY Zenon, <2>1 DEF HeardInv
<1> QED BY Zenon, <1>4, <1>5, <1>6, <1>7

\* Gossip carries what was announced and nothing else, and a restart begins with
\* what was announced.
LEMMA HeardStep ==
  ASSUME TypeOK, TypeOK', WeightInv, HeardInv, ClockInv, [Next]_vars
  PROVE  HeardInv'
<1> USE DEF nodeVars, envVars
<1>0. /\ view \in [Node -> ViewType] /\ rview \in [Node -> ViewType]
      /\ outq \in [Node -> SUBSET Queued]
  BY Zenon DEF TypeOK
<1>1. ASSUME UNCHANGED <<view, rview, outq, last>>, net' \subseteq net PROVE HeardInv'
  BY <1>1, Zenon DEF HeardInv
<1>2. ASSUME NEW n \in Node, Gossip(n) PROVE HeardInv'
  <2>1. PICK T \in (SUBSET (Node \ {n})) \ {{}} : GossipRound(n, T)
    BY Zenon, <1>2 DEF Gossip
  <2>2. /\ net' = net \cup {[to |-> t, batch |-> {o.rec : o \in outq[n]}] : t \in T}
        /\ outq' = [outq EXCEPT ![n] = Drain(@)]
        /\ UNCHANGED <<view, rview, last>>
    BY Zenon, <2>1 DEF GossipRound
  <2>3. ASSUME NEW p \in net', NEW d \in p.batch PROVE Told(last, d.key, d)
    <3>1. CASE p \in net
      BY Zenon, <3>1 DEF HeardInv
    <3>2. CASE p.batch = {o.rec : o \in outq[n]}
      <4>1. PICK o \in outq[n] : d = o.rec
        BY ONLY Zenon, <3>2, d \in p.batch
      <4> QED BY Zenon, <4>1 DEF HeardInv
    <3>3. p \in net \/ \E t \in T : p = [to |-> t, batch |-> {o.rec : o \in outq[n]}]
      BY ONLY Zenon, <2>2, p \in net'
    <3>4. p \in net \/ p.batch = {o.rec : o \in outq[n]}
      BY ONLY <3>3
    <3> QED BY ONLY Zenon, <3>1, <3>2, <3>4
  <2>4. \A o \in Drain(outq[n]) : \E x \in outq[n] : o.rec = x.rec
    BY ONLY TRUE DEF Drain
  <2>5. \A m \in Node : \A o \in outq'[m] : \E x \in outq[m] : o.rec = x.rec
    BY <1>0, <2>2, <2>4, Zenon
  <2>6. \A m \in Node : \A o \in outq'[m] : Told(last, o.rec.key, o.rec)
    BY <2>5, Zenon DEF HeardInv
  <2> QED BY Zenon, <2>2, <2>3, <2>6 DEF HeardInv
<1>3. ASSUME NEW n \in Node, NEW e \in Requested, ServeCheck(n, e) \/ ServeCompute(n, e)
      PROVE  HeardInv'
  BY Zenon, <1>1, <1>3 DEF ServeCheck, ServeCompute
<1>4. ASSUME NEW p \in net, Lose(p) PROVE HeardInv'
  BY Zenon, <1>1, <1>4 DEF Lose
<1>5. CASE Tick \/ UNCHANGED vars
  BY Zenon, <1>1, <1>5 DEF Tick, vars
<1>6. ASSUME NEW n \in Node, Restart(n) PROVE HeardInv'
  BY Zenon, <1>1, <1>6 DEF Restart
<1>7. ASSUME NEW p \in net, Deliver(p) PROVE HeardInv'
  <2>1. p.to \in Node
    BY Zenon DEF TypeOK
  <2>2. ASSUME NEW k \in Key, NEW v, NEW r, Told(last, k, v[k])
        PROVE  Told(last, k, PutBatch(v, r, p.batch)[k])
    <3>1. CASE PutBatch(v, r, p.batch)[k] = v[k]
      BY Zenon, <2>2, <3>1
    <3>2. ASSUME NEW d \in p.batch, d.key = k,
                 PutBatch(v, r, p.batch)[k] = Entry(d.act, d.ts)
          PROVE  Told(last, k, PutBatch(v, r, p.batch)[k])
      <4>1. Told(last, k, d)
        BY Zenon, <3>2 DEF HeardInv
      <4> QED BY Zenon, <3>2, <4>1, ToldEntry
    <3>3. \/ PutBatch(v, r, p.batch)[k] = v[k]
          \/ \E d \in p.batch : /\ d.key = k /\ d.ts > v[k].ts
                                /\ PutBatch(v, r, p.batch)[k] = Entry(d.act, d.ts)
      BY ONLY k \in Key, BatchSource
    <3> QED BY ONLY <3>1, <3>2, <3>3, Zenon
  <2>3. ASSUME NEW k \in Key, NEW m \in Node
        PROVE  Told(last, k, view'[m][k]) /\ Told(last, k, rview'[m][k])
    <3>1. Told(last, k, view[m][k]) /\ Told(last, k, rview[m][k])
      BY Zenon DEF HeardInv
    <3>2. /\ view'[m] = IF m = p.to THEN PutBatch(view[m], rview[m], p.batch) ELSE view[m]
          /\ rview'[m] = IF m = p.to THEN PutBatch(rview[m], rview[m], p.batch) ELSE rview[m]
      BY Zenon, <1>0, <1>7, <2>1 DEF Deliver
    <3>3. CASE m = p.to
      BY ONLY Zenon, <2>2, <3>1, <3>2, <3>3, k \in Key
    <3>4. CASE m # p.to
      BY ONLY Zenon, <3>1, <3>2, <3>4
    <3> QED BY ONLY Zenon, <3>3, <3>4
  <2> QED BY <1>7, <2>3, Zenon DEF HeardInv, Deliver
<1>8. ASSUME NEW n \in Node, Crash(n) PROVE HeardInv'
  <2>1. ASSUME NEW k \in Key, NEW m \in Node
        PROVE  Told(last, k, view'[m][k]) /\ Told(last, k, rview'[m][k])
    <3>1. /\ view'[m] = IF m = n THEN SeedView ELSE view[m]
          /\ rview'[m] = IF m = n THEN [x \in Key |-> NoEntry] ELSE rview[m]
      BY <1>0, <1>8, Zenon DEF Crash
    <3> QED BY Zenon, <3>1 DEF HeardInv
  <2>2. \A m \in Node : outq'[m] \subseteq outq[m]
    BY Zenon, <1>0, <1>8 DEF Crash
  <2>3. UNCHANGED <<last, net>>
    BY Zenon, <1>8 DEF Crash
  <2> QED BY Zenon, <2>1, <2>2, <2>3 DEF HeardInv
<1> QED BY Zenon, <1>2, <1>3, <1>4, <1>5, <1>6, <1>7, <1>8, HeardScannerStep DEF Next

\* The initial state satisfies both invariants.
LEMMA GossipInit == Init => HeardInv /\ ClockInv
<1> SUFFICES ASSUME Init PROVE HeardInv /\ ClockInv
  BY Zenon
<1>1. \A k \in Key : k[1] \in Node /\ k[2] \in Expert /\ <<k[1], k[2]>> = k
  BY DEF Key
<1>2. \A k \in Key : last[k[1]][k[2]] = SeedView[k]
  BY Zenon, <1>1 DEF Init
<1>3. \A k \in Key : /\ SeedView[k] = NoEntry \/ SeedView[k] = Entry(ADD, 0)
  BY Zenon DEF SeedView
<1>4. NoEntry.ts = -1 /\ Entry(ADD, 0).ts = 0
  BY Zenon DEF NoEntry, Entry
<1>5. ASSUME NEW k \in Key PROVE Told(last, k, SeedView[k]) /\ Told(last, k, NoEntry)
  <2> DEFINE l == last[k[1]][k[2]]
  <2>1. SeedView[k] = l /\ (l = NoEntry \/ l = Entry(ADD, 0))
    BY ONLY Zenon, <1>2, <1>3, k \in Key
  <2> HIDE DEF l
  <2>2. l.ts <= l.ts /\ NoEntry.ts <= l.ts
    BY ONLY <1>4, <2>1
  <2>3. NoEntry.ts = l.ts => NoEntry = l
    BY ONLY <1>4, <2>1
  <2> QED BY ONLY Zenon, <2>1, <2>2, <2>3 DEF Told, l
<1>6. HeardInv
  BY <1>5, Zenon DEF HeardInv, Init
<1>7. ASSUME NEW n \in Node
      PROVE  /\ n \in up
             /\ TimesInv(n, scan[n], scanned[n], attachTs[n], live[n], last[n], clock)
  <2>1. /\ scan[n] = Idle /\ scanned[n] = 0 /\ clock = 0 /\ live[n] = Ids(Bootstrap[n])
        /\ n \in up
    BY Zenon DEF Init
  <2>2. ASSUME NEW e \in Expert PROVE last[n][e].ts <= 0
    <3>1. <<n, e>> \in Key /\ last[n][e] = SeedView[<<n, e>>]
      BY Zenon DEF Key, Init
    <3> QED BY <1>3, <1>4, <3>1
  <2>3. Idle.pc = "idle"
    BY Zenon DEF Idle
  <2>4. live[n] \ Ids(Bootstrap[n]) = {} /\ 0 <= 0
    BY ONLY <2>1
  <2> QED BY ONLY Zenon, <2>1, <2>2, <2>3, <2>4 DEF TimesInv, Pulling
<1>8. ClockInv
  BY Zenon, <1>7 DEF ClockInv
<1> QED BY Zenon, <1>6, <1>8

GossipInv == Cooldown >= 1 /\ TypeOK /\ WeightInv /\ HeardInv /\ ClockInv

\* They are inductive together with the types and the weights.
LEMMA GossipInductive == GossipInv /\ [Next]_vars => GossipInv'
<1> SUFFICES ASSUME GossipInv, [Next]_vars PROVE GossipInv'
  BY Zenon
<1>1. Cooldown >= 1 /\ TypeOK /\ WeightInv /\ HeardInv /\ ClockInv
  BY Zenon DEF GossipInv
<1>2. TypeOK' /\ WeightInv'
  BY Zenon, <1>1, TypeStep, WeightStep, WeightAligned
<1>3. HeardInv'
  BY Zenon, <1>1, <1>2, HeardStep
<1>4. ClockInv'
  BY Zenon, <1>1, ClockStep
<1> QED BY Zenon, <1>1, <1>2, <1>3, <1>4 DEF GossipInv

\* With a cooldown of at least a tick, and whatever is lost, reordered or
\* restarted, no node ever believes of another what that one has not said.
THEOREM NoInventedOwnershipAlways == Cooldown >= 1 /\ Spec => []NoInventedOwnership
<1>1. Cooldown >= 1 /\ Init => GossipInv
  BY Zenon, TypeInit, WeightInit, GossipInit DEF GossipInv
<1>2. GossipInv => NoInventedOwnership
  <2> SUFFICES ASSUME GossipInv, NEW m \in Node, NEW n \in Node, NEW e \in Expert,
                      NEW x \in {view[m][<<n, e>>], rview[m][<<n, e>>]}
               PROVE  /\ x.ts <= last[n][e].ts
                      /\ x.ts = last[n][e].ts => x.act = last[n][e].act
    BY Zenon DEF NoInventedOwnership
  <2>1. <<n, e>> \in Key /\ <<n, e>>[1] = n /\ <<n, e>>[2] = e
    BY Zenon DEF Key
  <2>2. Told(last, <<n, e>>, view[m][<<n, e>>]) /\ Told(last, <<n, e>>, rview[m][<<n, e>>])
    BY <2>1, Zenon DEF GossipInv, HeardInv
  <2> QED BY Zenon, <2>1, <2>2 DEF Told
<1> QED BY <1>1, <1>2, GossipInductive, PTL DEF Spec
-----------------------------------------------------------------------------
(* What a node says of itself. *)

\* Both views v and r of node n tell of expert e what l does; the runner's is
\* not seeded with the bootstrap experts.
Honest(n, e, v, r, l) ==
  /\ v[<<n, e>>].act = ADD <=> e \in l
  /\ e \notin Ids(Bootstrap[n]) => (r[<<n, e>>].act = ADD <=> e \in l)

\* A node queues announcements of its own only, and nobody is sent what is said
\* of itself: records are not passed on.
SentInv ==
  /\ \A n \in Node : \A o \in outq[n] : o.rec.key[1] = n
  /\ \A p \in net : \A d \in p.batch : d.key[1] # p.to

\* What is about to be announced once more is live.
AgainInv == \A n \in Node : scan[n].pc = "again" => scan[n].e \in live[n]

HonestInv == \A n \in Node, e \in Expert : Honest(n, e, view[n], rview[n], live[n])

\* The senders stay honest about where a record may go.
LEMMA SentStep ==
  ASSUME TypeOK, SentInv, [Next]_vars
  PROVE  SentInv'
<1> USE DEF nodeVars, envVars
<1>0. outq \in [Node -> SUBSET Queued]
  BY Zenon DEF TypeOK
<1>1. ASSUME outq' = outq, net' \subseteq net PROVE SentInv'
  BY Zenon, <1>1 DEF SentInv
<1>2. ASSUME NEW n \in Node, NEW d, d.key[1] = n, net' = net,
             outq' = [outq EXCEPT ![n] = @ \cup {[rec |-> d, ttl |-> TTL]}]
      PROVE  SentInv'
  <2>1. ASSUME NEW m \in Node, NEW o \in outq'[m]
        PROVE  o \in outq[m] \/ (m = n /\ o.rec = d)
    <3>1. outq'[m] = IF m = n THEN outq[n] \cup {[rec |-> d, ttl |-> TTL]} ELSE outq[m]
      BY Zenon, <1>0, <1>2
    <3> QED BY ONLY o \in outq'[m], <3>1
  <2> QED BY Zenon, <1>2, <2>1 DEF SentInv
<1>3. \A n, e, a, t : Delta(n, e, a, t).key[1] = n
  BY Zenon DEF Delta
<1>4. ASSUME NEW n \in Node, ScannerStep(n) PROVE SentInv'
  <2>1. CASE Register(n)
    <3> DEFINE d == Delta(n, scan[n].e, ADD, clock)
    <3>1. net' = net /\ outq' = [outq EXCEPT ![n] = @ \cup {[rec |-> d, ttl |-> TTL]}]
      BY Zenon, <2>1 DEF Register, AnnounceAdd
    <3>2. d.key[1] = n
      BY <1>3
    <3> QED BY <1>2, <3>1, <3>2, Zenon
  <2>2. CASE AnnounceAgain(n)
    <3> DEFINE d == Delta(n, scan[n].e, ADD, clock)
    <3>1. net' = net /\ outq' = [outq EXCEPT ![n] = @ \cup {[rec |-> d, ttl |-> TTL]}]
      BY Zenon, <2>2 DEF AnnounceAgain, AnnounceAdd
    <3>2. d.key[1] = n
      BY <1>3
    <3> QED BY <1>2, <3>1, <3>2, Zenon
  <2>3. CASE Unregister(n)
    <3> DEFINE d == Delta(n, scan[n].e, REMOVE, RemoveTs(n, scan[n].e))
    <3>1. net' = net /\ outq' = [outq EXCEPT ![n] = @ \cup {[rec |-> d, ttl |-> TTL]}]
      BY Zenon, <2>3 DEF Unregister, AnnounceRemove
    <3>2. d.key[1] = n
      BY <1>3
    <3> QED BY <1>2, <3>1, <3>2, Zenon
  <2>4. CASE ~(Register(n) \/ AnnounceAgain(n) \/ Unregister(n))
    BY <1>1, <1>4, <2>4, Zenon DEF ScannerStep, ScanNothing, ScanPull, SliceLookup, SliceTake,
       PullFails, Attach, EvictNone, EvictPick, Detach
  <2> QED BY Zenon, <2>1, <2>2, <2>3, <2>4
<1>5. ASSUME NEW n \in Node, Gossip(n) PROVE SentInv'
  <2>1. PICK T \in (SUBSET (Node \ {n})) \ {{}} : GossipRound(n, T)
    BY Zenon, <1>5 DEF Gossip
  <2>2. /\ net' = net \cup {[to |-> t, batch |-> {o.rec : o \in outq[n]}] : t \in T}
        /\ outq' = [outq EXCEPT ![n] = Drain(@)]
    BY <2>1, Zenon DEF GossipRound
  <2>3. ASSUME NEW p \in net', NEW d \in p.batch PROVE d.key[1] # p.to
    <3>1. CASE p \in net
      BY Zenon, <3>1 DEF SentInv
    <3>2. ASSUME NEW t \in T, p = [to |-> t, batch |-> {o.rec : o \in outq[n]}]
          PROVE  d.key[1] # p.to
      <4>1. p.to = t /\ p.batch = {o.rec : o \in outq[n]} /\ t # n
        BY ONLY Zenon, <3>2, T \in (SUBSET (Node \ {n})) \ {{}}
      <4>2. PICK o \in outq[n] : d = o.rec
        BY ONLY Zenon, <4>1, d \in p.batch
      <4>3. o.rec.key[1] = n
        BY ONLY Zenon, SentInv, n \in Node, o \in outq[n] DEF SentInv
      <4> QED BY ONLY Zenon, <4>1, <4>2, <4>3
    <3>3. p \in net \/ \E t \in T : p = [to |-> t, batch |-> {o.rec : o \in outq[n]}]
      BY ONLY Zenon, <2>2, p \in net'
    <3> QED BY ONLY Zenon, <3>1, <3>2, <3>3
  <2>4. \A o \in Drain(outq[n]) : \E x \in outq[n] : o.rec = x.rec
    BY ONLY TRUE DEF Drain
  <2>5. \A m \in Node : \A o \in outq'[m] : \E x \in outq[m] : o.rec = x.rec
    BY Zenon, <1>0, <2>2, <2>4
  <2>6. ASSUME NEW m \in Node, NEW o \in outq'[m] PROVE o.rec.key[1] = m
    <3>1. PICK x \in outq[m] : o.rec = x.rec
      BY Zenon, <2>5
    <3>2. x.rec.key[1] = m
      BY ONLY Zenon, SentInv, m \in Node, x \in outq[m] DEF SentInv
    <3> QED BY ONLY Zenon, <3>1, <3>2
  <2> QED BY ONLY Zenon, <2>3, <2>6 DEF SentInv
<1>6. ASSUME NEW n \in Node, Crash(n) PROVE SentInv'
  <2>1. net' = net /\ \A m \in Node : outq'[m] \subseteq outq[m]
    BY <1>0, <1>6, Zenon DEF Crash
  <2> QED BY Zenon, <2>1 DEF SentInv
<1>7. ASSUME NEW n \in Node,
             Restart(n) \/ \E e \in Requested : ServeCheck(n, e) \/ ServeCompute(n, e)
      PROVE  SentInv'
  BY <1>1, <1>7, Zenon DEF Restart, ServeCheck, ServeCompute
<1>8. ASSUME NEW p \in net, Deliver(p) \/ Lose(p) PROVE SentInv'
  BY Zenon, <1>1, <1>8 DEF Deliver, Lose
<1>9. CASE Tick \/ UNCHANGED vars
  BY <1>1, <1>9, Zenon DEF Tick, vars
<1> QED BY Zenon, <1>4, <1>5, <1>6, <1>7, <1>8, <1>9 DEF Next

\* _ownership_view_put of an announcement of node n about expert e
LEMMA PutOwn ==
  ASSUME TypeOK, NEW n \in Node, NEW e \in Expert, NEW a \in {ADD, REMOVE},
         NEW v \in ViewType
  PROVE  LET w == Put(v, Delta(n, e, a, clock))
         IN /\ \A k \in Key : k # <<n, e>> => w[k] = v[k]
            /\ w[<<n, e>>] = IF clock > v[<<n, e>>].ts THEN Entry(a, clock)
                                                       ELSE v[<<n, e>>]
<1> DEFINE d == Delta(n, e, a, clock)
<1>1. d.key = <<n, e>> /\ d.ts = clock /\ d.act = a
  BY Zenon DEF Delta
<1>2. <<n, e>> \in Key
  BY Zenon DEF Key
<1> HIDE DEF d
<1>3. Put(v, d) = IF clock > v[<<n, e>>].ts
                  THEN [v EXCEPT ![<<n, e>>] = Entry(a, clock)] ELSE v
  BY Zenon, <1>1 DEF Put
<1> QED BY Zenon, <1>2, <1>3 DEF ViewType, d

\* A node's own entries are no newer than its last announcement.
LEMMA OwnTime ==
  ASSUME TypeOK, HeardInv, NEW n \in Node, NEW e \in Expert, last[n][e].ts < clock
  PROVE  view[n][<<n, e>>].ts < clock /\ rview[n][<<n, e>>].ts < clock
<1>1. <<n, e>> \in Key /\ <<n, e>>[1] = n /\ <<n, e>>[2] = e
  BY Zenon DEF Key
<1>2. view[n][<<n, e>>].ts <= last[n][e].ts /\ rview[n][<<n, e>>].ts <= last[n][e].ts
  BY <1>1, Zenon DEF HeardInv, Told
<1>3. view[n][<<n, e>>] \in EntryType /\ rview[n][<<n, e>>] \in EntryType
  BY <1>1 DEF TypeOK, ViewType
<1>4. /\ view[n][<<n, e>>].ts \in Int /\ rview[n][<<n, e>>].ts \in Int
      /\ last[n][e].ts \in Int /\ clock \in Nat
  <2>1. last[n][e].ts \in Int /\ clock \in Nat
    BY TimeTypes, Zenon
  <2> QED BY ONLY Zenon, <1>3, <2>1, RecordFacts
<1> QED BY ONLY last[n][e].ts < clock, <1>2, <1>4

\* A node that has just started is honest.
LEMMA SeedHonest ==
  ASSUME NEW n \in Node, NEW e \in Expert
  PROVE  Honest(n, e, SeedView, [k \in Key |-> NoEntry], Ids(Bootstrap[n]))
<1>1. <<n, e>> \in Key
  BY Zenon DEF Key
<1>2. SeedView[<<n, e>>] = IF e \in Ids(Bootstrap[n]) THEN Entry(ADD, 0) ELSE NoEntry
  BY Zenon, <1>1 DEF SeedView
<1>3. Entry(ADD, 0).act = ADD /\ NoEntry.act # ADD
  BY DEF Entry, NoEntry, ADD, REMOVE
<1> QED BY Zenon, <1>1, <1>2, <1>3 DEF Honest

LEMMA AgainStep ==
  ASSUME TypeOK, AgainInv, [Next]_vars
  PROVE  AgainInv'
<1> USE DEF nodeVars, envVars
<1>0. scan \in [Node -> ScanType] /\ live \in [Node -> SUBSET Expert]
  BY Zenon DEF TypeOK
<1>1. CASE UNCHANGED <<scan, live>>
  BY Zenon, <1>1 DEF AgainInv
<1>2. ASSUME NEW n \in Node, NEW s, Step(n, s),
             s.pc = "again" => s.e \in live'[n],
             \A m \in Node \ {n} : live'[m] = live[m]
      PROVE  AgainInv'
  BY Zenon, <1>0, <1>2 DEF AgainInv, Step
<1>3. ASSUME NEW n \in Node, ScannerStep(n) PROVE AgainInv'
  <2>1. CASE Register(n)
    <3>1. /\ Step(n, [pc |-> "again", e |-> scan[n].e])
          /\ live' = [live EXCEPT ![n] = @ \cup {scan[n].e}]
      BY Zenon, <2>1 DEF Register
    <3>2. scan[n].e \in live'[n] /\ \A m \in Node \ {n} : live'[m] = live[m]
      BY Zenon, <1>0, <3>1
    <3> QED BY Zenon, <1>2, <3>1, <3>2
  <2>2. CASE Unregister(n)
    <3>1. Step(n, Idle) /\ live' = [live EXCEPT ![n] = @ \ {scan[n].e}]
      BY Zenon, <2>2 DEF Unregister, ScanDone
    <3>2. Idle.pc # "again" /\ \A m \in Node \ {n} : live'[m] = live[m]
      BY Zenon, <1>0, <3>1 DEF Idle
    <3> QED BY Zenon, <1>2, <3>1, <3>2
  <2>3. CASE ~(Register(n) \/ Unregister(n))
    <3>1. live' = live
      BY <1>3, <2>3, Zenon DEF ScannerStep, ScanNothing, ScanPull, SliceLookup, SliceTake,
         PullFails, Attach, AnnounceAgain, EvictNone, EvictPick, Detach
    <3>2. ASSUME NEW s, Step(n, s), s.pc # "again" PROVE AgainInv'
      BY Zenon, <1>2, <3>1, <3>2
    <3>3. CASE ScanNothing(n) \/ PullFails(n) \/ AnnounceAgain(n) \/ EvictNone(n)
      <4>1. Step(n, Evict) \/ Step(n, Idle)
        BY <3>3, Zenon DEF ScanNothing, PullFails, AnnounceAgain, EvictNone, ScanDone
      <4> QED BY Zenon, <3>2, <4>1 DEF Idle, Evict
    <3>4. CASE \E e \in Expert, src \in Node : ScanPull(n, e, src)
      BY <3>2, <3>4, Zenon DEF ScanPull
    <3>5. CASE SliceLookup(n)
      BY <3>2, <3>5, Zenon DEF SliceLookup, Evict
    <3>6. CASE SliceTake(n)
      BY Zenon, <3>2, <3>6 DEF SliceTake
    <3>7. CASE Attach(n)
      BY Zenon, <3>2, <3>7 DEF Attach
    <3>8. CASE \E e \in Expert : EvictPick(n, e)
      BY Zenon, <3>2, <3>8 DEF EvictPick
    <3>9. CASE Detach(n)
      BY Zenon, <3>2, <3>9 DEF Detach
    <3> QED BY Zenon, <1>3, <2>3, <3>3, <3>4, <3>5, <3>6, <3>7, <3>8, <3>9 DEF ScannerStep
  <2> QED BY Zenon, <2>1, <2>2, <2>3
<1>4. ASSUME NEW n \in Node, Crash(n) PROVE AgainInv'
  <2>1. \A m \in Node : \/ scan'[m] = Idle \/ scan'[m] = Evict
                        \/ scan'[m] = scan[m] /\ live'[m] = live[m]
    BY <1>0, <1>4, Zenon DEF Crash
  <2>2. Idle.pc # "again" /\ Evict.pc # "again"
    BY Zenon DEF Idle, Evict
  <2> QED BY Zenon, <2>1, <2>2 DEF AgainInv
<1>5. ASSUME NEW n \in Node,
             Gossip(n) \/ Restart(n)
               \/ \E e \in Requested : ServeCheck(n, e) \/ ServeCompute(n, e)
      PROVE  AgainInv'
  BY <1>1, <1>5, Zenon DEF Gossip, GossipRound, Restart, ServeCheck, ServeCompute
<1>6. ASSUME NEW p \in net, Deliver(p) \/ Lose(p) PROVE AgainInv'
  BY Zenon, <1>1, <1>6 DEF Deliver, Lose
<1>7. CASE Tick \/ UNCHANGED vars
  BY Zenon, <1>1, <1>7 DEF Tick, vars
<1> QED BY Zenon, <1>3, <1>4, <1>5, <1>6, <1>7 DEF Next

\* A step that changes what nodes say of themselves only for n and e
Kept(n, e) ==
  \A m \in Node, f \in Expert : <<m, f>> # <<n, e>> =>
    /\ view'[m][<<m, f>>] = view[m][<<m, f>>]
    /\ rview'[m][<<m, f>>] = rview[m][<<m, f>>]
    /\ f \in live'[m] <=> f \in live[m]

LEMMA HonestStep ==
  ASSUME GossipInv, SentInv, AgainInv, HonestInv, [Next]_vars
  PROVE  HonestInv'
<1> USE DEF nodeVars, envVars
<1>0. TypeOK /\ WeightInv /\ HeardInv /\ ClockInv
  BY Zenon DEF GossipInv
<1>1. /\ view \in [Node -> ViewType] /\ rview \in [Node -> ViewType]
      /\ live \in [Node -> SUBSET Expert]
  BY Zenon, <1>0 DEF TypeOK
<1>2. CASE UNCHANGED <<view, rview, live>>
  BY <1>2, Zenon DEF HonestInv, Honest
<1>3. ADD # REMOVE /\ \A a, t : Entry(a, t).act = a /\ Entry(a, t).ts = t
  BY DEF ADD, REMOVE, Entry
<1>4. \A n \in Node, e \in Expert : <<n, e>> \in Key
  BY Zenon DEF Key
\* What a step must do to the entries of node n and expert e, if it changes them
<1>5. ASSUME NEW n \in Node, NEW e \in Expert,
             Kept(n, e), Honest(n, e, view'[n], rview'[n], live'[n])
      PROVE  HonestInv'
  <2> SUFFICES ASSUME NEW m \in Node, NEW f \in Expert
               PROVE  Honest(m, f, view'[m], rview'[m], live'[m])
    BY Zenon DEF HonestInv, Honest
  <2>1. CASE m = n /\ f = e
    BY Zenon, <1>5, <2>1
  <2>2. CASE ~(m = n /\ f = e)
    <3>1. Honest(m, f, view[m], rview[m], live[m])
      BY Zenon DEF HonestInv
    <3>2. <<m, f>> # <<n, e>>
      BY Zenon, <2>2
    <3>3. /\ view'[m][<<m, f>>] = view[m][<<m, f>>]
          /\ rview'[m][<<m, f>>] = rview[m][<<m, f>>]
          /\ f \in live'[m] <=> f \in live[m]
      BY ONLY Zenon, <1>5, <3>2, m \in Node, f \in Expert DEF Kept
    <3> QED BY ONLY <3>1, <3>3, Zenon DEF Honest
  <2> QED BY Zenon, <2>1, <2>2
<1>6. ASSUME NEW n \in Node, ScannerStep(n) PROVE HonestInv'
  <2>0. n \in up /\ scan[n] \in ScanType /\ clock \in Nat
    BY <1>0, <1>6, Running, TimeTypes, Zenon
  <2> DEFINE e == scan[n].e
  <2>1. CASE Register(n)
    <3> DEFINE v == Put(view[n], Delta(n, e, ADD, clock))
               r == Put(rview[n], Delta(n, e, ADD, clock))
    <3>1. /\ e \in Expert /\ scan[n].pc = "register"
          /\ view' = [view EXCEPT ![n] = v] /\ rview' = [rview EXCEPT ![n] = r]
          /\ live' = [live EXCEPT ![n] = @ \cup {e}]
      BY Zenon, <2>0, <2>1, ScanFields DEF Register, AnnounceAdd
    <3>2. last[n][e].ts < clock
      BY <1>0, <2>0, <3>1, RegisterTime, Zenon
    <3> HIDE DEF e
    <3>3. view[n] \in ViewType /\ rview[n] \in ViewType
      BY Zenon, <1>1
    <3>4. /\ \A k \in Key : k # <<n, e>> => v[k] = view[n][k]
          /\ v[<<n, e>>] = IF clock > view[n][<<n, e>>].ts THEN Entry(ADD, clock)
                           ELSE view[n][<<n, e>>]
      BY <1>0, <3>1, <3>3, PutOwn, Zenon
    <3>5. /\ \A k \in Key : k # <<n, e>> => r[k] = rview[n][k]
          /\ r[<<n, e>>] = IF clock > rview[n][<<n, e>>].ts THEN Entry(ADD, clock)
                           ELSE rview[n][<<n, e>>]
      BY <1>0, <3>1, <3>3, PutOwn, Zenon
    <3> HIDE DEF v, r
    <3>6. view[n][<<n, e>>].ts < clock /\ rview[n][<<n, e>>].ts < clock
      BY <1>0, <3>1, <3>2, OwnTime, Zenon
    <3>7. /\ view'[n] = v /\ rview'[n] = r /\ live'[n] = live[n] \cup {e}
          /\ \A m \in Node \ {n} : /\ view'[m] = view[m] /\ rview'[m] = rview[m]
                                   /\ live'[m] = live[m]
      BY Zenon, <1>1, <3>1
    <3>8. Honest(n, e, view'[n], rview'[n], live'[n])
      <4>1. v[<<n, e>>] = Entry(ADD, clock) /\ r[<<n, e>>] = Entry(ADD, clock)
        <5>1. clock > view[n][<<n, e>>].ts /\ clock > rview[n][<<n, e>>].ts
          BY ONLY Zenon, <3>6
        <5> QED BY ONLY Zenon, <3>4, <3>5, <5>1
      <4>2. view'[n][<<n, e>>].act = ADD /\ rview'[n][<<n, e>>].act = ADD /\ e \in live'[n]
        <5>1. Entry(ADD, clock).act = ADD
          BY ONLY Zenon, <1>3
        <5> QED BY ONLY Zenon, <3>7, <4>1, <5>1
      <4> QED BY ONLY <4>2, Zenon DEF Honest
    <3>9. ASSUME NEW m \in Node, NEW f \in Expert, <<m, f>> # <<n, e>>
          PROVE  /\ view'[m][<<m, f>>] = view[m][<<m, f>>]
                 /\ rview'[m][<<m, f>>] = rview[m][<<m, f>>]
                 /\ f \in live'[m] <=> f \in live[m]
      <4>1. CASE m = n
        <5>1. <<m, f>> \in Key /\ f # e
          BY Zenon, <1>4, <3>9, <4>1
        <5>2. v[<<m, f>>] = view[n][<<m, f>>] /\ r[<<m, f>>] = rview[n][<<m, f>>]
          BY ONLY <3>4, <3>5, <3>9, <5>1, Zenon
        <5>3. f \in live'[n] <=> f \in live[n]
          BY ONLY Zenon, <3>7, <5>1
        <5> QED BY ONLY <3>7, <4>1, <5>2, <5>3, Zenon
      <4>2. CASE m # n
        BY ONLY Zenon, <3>7, <4>2, m \in Node
      <4> QED BY ONLY Zenon, <4>1, <4>2
    <3>10. Kept(n, e) /\ e \in Expert
      BY ONLY Zenon, <3>1, <3>9 DEF Kept
    <3> QED BY ONLY Zenon, <1>5, <3>8, <3>10, n \in Node
  <2>2. CASE AnnounceAgain(n)
    <3> DEFINE r == Put(rview[n], Delta(n, e, ADD, clock))
    <3>1. /\ e \in Expert /\ scan[n].pc = "again" /\ view' = view /\ live' = live
          /\ rview' = [rview EXCEPT ![n] = r]
      BY Zenon, <2>0, <2>2, ScanFields DEF AnnounceAgain, AnnounceAdd
    <3>2. e \in live[n]
      BY <3>1, Zenon DEF AgainInv
    <3> HIDE DEF e
    <3>3. rview[n] \in ViewType
      BY Zenon, <1>1
    <3>4. /\ \A k \in Key : k # <<n, e>> => r[k] = rview[n][k]
          /\ r[<<n, e>>] = IF clock > rview[n][<<n, e>>].ts THEN Entry(ADD, clock)
                           ELSE rview[n][<<n, e>>]
      BY <1>0, <3>1, <3>3, PutOwn, Zenon
    <3> HIDE DEF r
    <3>5. rview'[n] = r /\ \A m \in Node \ {n} : rview'[m] = rview[m]
      BY Zenon, <1>1, <3>1
    <3>6. Honest(n, e, view[n], rview[n], live[n])
      BY Zenon, <3>1 DEF HonestInv
    <3>7. Honest(n, e, view'[n], rview'[n], live'[n])
      <4>1. \/ rview'[n][<<n, e>>] = Entry(ADD, clock)
            \/ rview'[n][<<n, e>>] = rview[n][<<n, e>>]
        BY ONLY <3>4, <3>5, Zenon
      <4>2. /\ view[n][<<n, e>>].act = ADD
            /\ e \notin Ids(Bootstrap[n]) => rview[n][<<n, e>>].act = ADD
        BY ONLY <3>2, <3>6, Zenon DEF Honest
      <4>3. /\ view'[n][<<n, e>>].act = ADD /\ e \in live'[n]
            /\ e \notin Ids(Bootstrap[n]) => rview'[n][<<n, e>>].act = ADD
        <5>1. Entry(ADD, clock).act = ADD
          BY ONLY Zenon, <1>3
        <5>2. view'[n] = view[n] /\ live'[n] = live[n]
          BY ONLY Zenon, <3>1
        <5> QED BY ONLY <3>2, <4>1, <4>2, <5>1, <5>2, Zenon
      <4> QED BY ONLY <4>3, Zenon DEF Honest
    <3>8. ASSUME NEW m \in Node, NEW f \in Expert, <<m, f>> # <<n, e>>
          PROVE  /\ view'[m][<<m, f>>] = view[m][<<m, f>>]
                 /\ rview'[m][<<m, f>>] = rview[m][<<m, f>>]
                 /\ f \in live'[m] <=> f \in live[m]
      <4>1. view'[m] = view[m] /\ live'[m] = live[m]
        BY ONLY Zenon, <3>1
      <4>2. CASE m = n
        <5>1. <<m, f>> \in Key
          BY Zenon, <1>4
        <5>2. r[<<m, f>>] = rview[n][<<m, f>>]
          BY ONLY <3>4, <3>8, <5>1, Zenon
        <5> QED BY ONLY Zenon, <3>5, <4>1, <4>2, <5>2
      <4>3. CASE m # n
        BY ONLY Zenon, <3>5, <4>1, <4>3, m \in Node
      <4> QED BY ONLY Zenon, <4>2, <4>3
    <3>9. Kept(n, e) /\ e \in Expert
      BY ONLY Zenon, <3>1, <3>8 DEF Kept
    <3> QED BY ONLY Zenon, <1>5, <3>7, <3>9, n \in Node
  <2>3. CASE Unregister(n)
    <3> DEFINE v == Put(view[n], Delta(n, e, REMOVE, clock))
    <3>1. /\ e \in Expert /\ scan[n].pc = "unregister"
          /\ view' = [view EXCEPT ![n] = v]
          /\ rview' = [rview EXCEPT ![n][<<n, e>>] = Entry(REMOVE, RemoveTs(n, e))]
          /\ live' = [live EXCEPT ![n] = @ \ {e}]
      <4>1. scan[n].pc = "unregister"
        BY Zenon, <2>3 DEF Unregister
      <4>2. e \in Expert
        BY Zenon, <2>0, <4>1, ScanFields
      <4> QED BY <2>3, <4>1, <4>2, Zenon DEF Unregister, AnnounceRemove, Delta
    <3>2. last[n][e].ts < clock
      BY Zenon, <1>0, <2>0, <3>1, RemoveTime
    <3> HIDE DEF e
    <3>3. view[n] \in ViewType
      BY Zenon, <1>1
    <3>4. /\ \A k \in Key : k # <<n, e>> => v[k] = view[n][k]
          /\ v[<<n, e>>] = IF clock > view[n][<<n, e>>].ts THEN Entry(REMOVE, clock)
                           ELSE view[n][<<n, e>>]
      BY Zenon, <1>0, <3>1, <3>3, PutOwn
    <3> HIDE DEF v
    <3>5. view[n][<<n, e>>].ts < clock
      BY Zenon, <1>0, <3>1, <3>2, OwnTime
    <3>6. /\ view'[n] = v /\ live'[n] = live[n] \ {e}
          /\ \A m \in Node \ {n} : /\ view'[m] = view[m] /\ rview'[m] = rview[m]
                                   /\ live'[m] = live[m]
      BY ONLY Zenon, <1>1, <3>1, n \in Node
    <3>7. /\ rview'[n][<<n, e>>] = Entry(REMOVE, RemoveTs(n, e))
          /\ \A k \in Key : k # <<n, e>> => rview'[n][k] = rview[n][k]
      <4>1. rview'[n] = [rview[n] EXCEPT ![<<n, e>>] = Entry(REMOVE, RemoveTs(n, e))]
        BY ONLY Zenon, <1>1, <3>1, n \in Node
      <4>2. rview[n] \in [Key -> EntryType] /\ <<n, e>> \in Key
        BY ONLY Zenon, <1>1, <1>4, <3>1, n \in Node DEF ViewType
      <4> QED BY ONLY Zenon, <4>1, <4>2
    <3>8. Honest(n, e, view'[n], rview'[n], live'[n])
      <4>1. v[<<n, e>>] = Entry(REMOVE, clock)
        <5>1. clock > view[n][<<n, e>>].ts
          BY ONLY Zenon, <3>5
        <5> QED BY ONLY Zenon, <3>4, <5>1
      <4>2. view'[n][<<n, e>>].act # ADD /\ rview'[n][<<n, e>>].act # ADD /\ e \notin live'[n]
        <5>1. \A t : Entry(REMOVE, t).act # ADD
          BY ONLY Zenon, <1>3
        <5>2. view'[n][<<n, e>>].act # ADD
          BY ONLY Zenon, <3>6, <4>1, <5>1
        <5>3. rview'[n][<<n, e>>].act # ADD
          BY ONLY Zenon, <3>7, <5>1
        <5>4. e \notin live'[n]
          BY ONLY Zenon, <3>6
        <5> QED BY ONLY Zenon, <5>2, <5>3, <5>4
      <4> QED BY ONLY Zenon, <4>2 DEF Honest
    <3>9. ASSUME NEW m \in Node, NEW f \in Expert, <<m, f>> # <<n, e>>
          PROVE  /\ view'[m][<<m, f>>] = view[m][<<m, f>>]
                 /\ rview'[m][<<m, f>>] = rview[m][<<m, f>>]
                 /\ f \in live'[m] <=> f \in live[m]
      <4>1. CASE m = n
        <5>1. <<m, f>> \in Key /\ f # e
          BY Zenon, <1>4, <3>9, <4>1
        <5>2. v[<<m, f>>] = view[n][<<m, f>>] /\ rview'[n][<<m, f>>] = rview[n][<<m, f>>]
          BY ONLY <3>4, <3>7, <3>9, <5>1, Zenon
        <5>3. f \in live'[n] <=> f \in live[n]
          BY ONLY Zenon, <3>6, <5>1
        <5> QED BY ONLY <3>6, <4>1, <5>2, <5>3, Zenon
      <4>2. CASE m # n
        BY ONLY Zenon, <3>6, <4>2, m \in Node
      <4> QED BY ONLY Zenon, <4>1, <4>2
    <3>10. Kept(n, e) /\ e \in Expert
      BY ONLY Zenon, <3>1, <3>9 DEF Kept
    <3> QED BY ONLY Zenon, <1>5, <3>8, <3>10, n \in Node
  <2>4. CASE ~(Register(n) \/ AnnounceAgain(n) \/ Unregister(n))
    <3>1. UNCHANGED <<view, rview, live>>
      BY <1>6, <2>4, Zenon DEF ScannerStep, ScanNothing, ScanPull, SliceLookup, SliceTake,
         PullFails, Attach, EvictNone, EvictPick, Detach
    <3> QED BY Zenon, <1>2, <3>1
  <2> QED BY Zenon, <2>1, <2>2, <2>3, <2>4
<1>7. ASSUME NEW p \in net, Deliver(p) PROVE HonestInv'
  <2>1. p.to \in Node /\ live' = live
    BY Zenon, <1>0, <1>7 DEF TypeOK, Deliver
  <2>2. ASSUME NEW e \in Expert, NEW v, NEW r
        PROVE  PutBatch(v, r, p.batch)[<<p.to, e>>] = v[<<p.to, e>>]
    <3> DEFINE k == <<p.to, e>>
    <3>1. k[1] = p.to /\ \A d \in p.batch : d.key[1] # p.to
      BY Zenon DEF SentInv
    <3>2. k \in Key
      BY ONLY Zenon, <1>4, <2>1, e \in Expert
    <3> HIDE DEF k
    <3>3. \A d \in p.batch : d.key # k
      BY ONLY <3>1, Zenon
    <3>4. PutBatch(v, r, p.batch)[k] = v[k]
      BY ONLY <3>2, <3>3, BatchOther
    <3> QED BY ONLY Zenon, <3>4 DEF k
  <2>3. ASSUME NEW n \in Node, NEW e \in Expert
        PROVE  Honest(n, e, view'[n], rview'[n], live'[n])
    <3>1. /\ view'[n] = IF n = p.to THEN PutBatch(view[n], rview[n], p.batch) ELSE view[n]
          /\ rview'[n] = IF n = p.to THEN PutBatch(rview[n], rview[n], p.batch) ELSE rview[n]
      BY Zenon, <1>1, <1>7, <2>1 DEF Deliver
    <3>2. /\ view'[n][<<n, e>>] = view[n][<<n, e>>]
          /\ rview'[n][<<n, e>>] = rview[n][<<n, e>>]
      <4>1. CASE n = p.to
        <5>1. /\ PutBatch(view[n], rview[n], p.batch)[<<n, e>>] = view[n][<<n, e>>]
              /\ PutBatch(rview[n], rview[n], p.batch)[<<n, e>>] = rview[n][<<n, e>>]
          <6>1. \A v, r : PutBatch(v, r, p.batch)[<<p.to, e>>] = v[<<p.to, e>>]
            BY ONLY <2>2, e \in Expert, Zenon
          <6> QED BY ONLY <4>1, <6>1, Zenon
        <5> QED BY ONLY <3>1, <4>1, <5>1, Zenon
      <4>2. CASE n # p.to
        BY ONLY Zenon, <3>1, <4>2
      <4> QED BY ONLY <4>1, <4>2, Zenon
    <3>3. Honest(n, e, view[n], rview[n], live[n])
      BY Zenon DEF HonestInv
    <3> QED BY <2>1, <3>2, <3>3, Zenon DEF Honest
  <2> QED BY <2>3, Zenon DEF HonestInv, Honest
<1>8. ASSUME NEW n \in Node, Crash(n) PROVE HonestInv'
  <2>1. ASSUME NEW m \in Node, NEW e \in Expert
        PROVE  Honest(m, e, view'[m], rview'[m], live'[m])
    <3>1. CASE m = n
      <4>1. /\ view'[m] = SeedView /\ rview'[m] = [k \in Key |-> NoEntry]
            /\ live'[m] = Ids(Bootstrap[m])
        BY <1>1, <1>8, <3>1, Zenon DEF Crash
      <4> QED BY Zenon, <4>1, SeedHonest
    <3>2. CASE m # n
      <4>1. view'[m] = view[m] /\ rview'[m] = rview[m] /\ live'[m] = live[m]
        BY <1>1, <1>8, <3>2, Zenon DEF Crash
      <4> QED BY Zenon, <4>1 DEF HonestInv
    <3> QED BY <3>1, <3>2, Zenon
  <2> QED BY <2>1, Zenon DEF HonestInv, Honest
<1>9. ASSUME NEW n \in Node,
             Gossip(n) \/ Restart(n)
               \/ \E e \in Requested : ServeCheck(n, e) \/ ServeCompute(n, e)
      PROVE  UNCHANGED <<view, rview, live>>
  BY <1>9, Zenon DEF Gossip, GossipRound, Restart, ServeCheck, ServeCompute
<1>10. ASSUME NEW p \in net, Lose(p) PROVE UNCHANGED <<view, rview, live>>
  BY Zenon, <1>10 DEF Lose
<1>11. CASE Tick \/ UNCHANGED vars
  BY <1>2, <1>11, Zenon DEF Tick, vars
<1> QED BY Zenon, <1>2, <1>6, <1>7, <1>8, <1>9, <1>10, <1>11 DEF Next

\* With a cooldown of at least a tick, and whatever crashes, each node's two
\* ownership views tell the truth about itself: the REMOVE of an eviction is
\* newer than the ADD it takes back, and no record of a node's earlier life
\* comes back to it.
THEOREM OwnClaimAlways == Cooldown >= 1 /\ Spec => []OwnClaim
<1> DEFINE Inv == GossipInv /\ SentInv /\ AgainInv /\ HonestInv
<1>1. Cooldown >= 1 /\ Init => Inv
  <2> SUFFICES ASSUME Cooldown >= 1, Init PROVE Inv
    BY Zenon
  <2>1. GossipInv
    BY Zenon, TypeInit, WeightInit, GossipInit DEF GossipInv
  <2>2. SentInv /\ AgainInv
    BY Zenon DEF Init, Idle, SentInv, AgainInv
  <2>3. HonestInv
    BY SeedHonest, Zenon DEF Init, HonestInv
  <2> QED BY Zenon, <2>1, <2>2, <2>3
<1>2. Inv /\ [Next]_vars => Inv'
  BY Zenon, GossipInductive, SentStep, AgainStep, HonestStep DEF GossipInv
<1>3. Inv => OwnClaim
  BY Zenon DEF HonestInv, Honest, OwnClaim, GossipInv, TypeOK
<1> QED BY <1>1, <1>2, <1>3, PTL DEF Spec
=============================================================================
