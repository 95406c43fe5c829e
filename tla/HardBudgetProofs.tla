-------------------------- MODULE HardBudgetProofs --------------------------
(***************************************************************************)
(* Theorems about HardBudget, for any set of replicas and namespaces, any  *)
(* ceilings, policies, costs and bounds.                                   *)
(***************************************************************************)
EXTENDS HardBudget, FiniteSetTheorems, WellFoundedInduction, TLAPS

\* A sum of naturals over a finite set is a natural number.
LEMMA TotalType ==
  ASSUME NEW S, IsFiniteSet(S), NEW f, \A k \in S : f[k] \in Nat
  PROVE  Total(f, S) \in Nat
<1> DEFINE part == [k \in S |-> {k} \X (1..f[k])]
           parts == {part[k] : k \in S}
<1>1. part \in Surjection(S, parts)
  BY ZenonT(60) DEF Surjection
<1>2. IsFiniteSet(parts)
  BY <1>1, FS_Surjection
<1>3. \A p \in parts : IsFiniteSet(p)
  <2> SUFFICES ASSUME NEW k \in S
               PROVE  IsFiniteSet({k} \X (1..f[k]))
    OBVIOUS
  <2>1. IsFiniteSet(1..f[k])
    BY FS_Interval
  <2>2. IsFiniteSet({k})
    BY ZenonT(60), FS_Singleton
  <2> QED
    BY ZenonT(60), <2>1, <2>2, FS_Product
<1>4. Units(f, S) = UNION parts
  BY DEF Units
<1>5. IsFiniteSet(Units(f, S))
  BY ZenonT(60), <1>2, <1>3, <1>4, FS_UNION
<1> QED
  BY <1>5, FS_CardinalityType DEF Total

\* The periods do not run backwards.
LEMMA PeriodMonotone ==
  ASSUME NEW t \in Nat
  PROVE  /\ PeriodKey(t) \in Nat
         /\ PeriodKey(t) <= PeriodKey(t + 1)
BY PartialsAssumption DEF PeriodKey

LEMMA CentsType ==
  ASSUME NEW v \in Nat
  PROVE  Cents(v) \in Nat
BY PartialsAssumption DEF Cents

LEMMA PartialType ==
  ASSUME NEW p \in Nat, NEW s \in Spend
  PROVE  MakePartial(p, s) \in Partial
BY CentsType DEF MakePartial, Partial, RoundSpend, Spend

\* A fold of partials is a spend again.
LEMMA FoldType ==
  ASSUME NEW d \in [Replicas -> Partial], NEW r, NEW p
  PROVE  FoldPartials(d, r, p) \in Spend
<1> DEFINE keys == KeysOf(d, DOMAIN d \ {r}, p)
<1>1. keys \subseteq Replicas
  BY DEF KeysOf
<1>2. IsFiniteSet(keys)
  BY ZenonT(60), <1>1, FS_Subset, HardBudgetAssumption
<1>3. ASSUME NEW ns \in Namespaces
      PROVE  Total([k \in keys |-> d[k].spend[ns]], keys) \in Nat
  <2>1. \A k \in keys : [j \in keys |-> d[j].spend[ns]][k] \in Nat
    BY <1>1 DEF Partial, Spend
  <2> QED
    BY ZenonT(60), <1>2, <2>1, TotalType
<1> QED
  BY ZenonT(60), <1>3 DEF FoldPartials, SumPartials, Spend

-----------------------------------------------------------------------------
(* The operations on a ledger keep its type *)

LEMMA FreshType ==
  ASSUME now \in Nat
  PROVE  FreshLedger \in Ledger
<1>1. NoSpend \in Spend
  BY DEF NoSpend, Spend
<1> QED
  BY <1>1, PeriodMonotone DEF FreshLedger, Ledger

LEMMA LedgerForType ==
  ASSUME now \in Nat, NEW l \in Ledger
  PROVE  /\ LedgerFor(l) \in Ledger
         /\ LedgerFor(l).period = PeriodKey(now)
         /\ LedgerFor(l).nextToken = l.nextToken
BY ZenonT(60), FreshType DEF LedgerFor, Ledger, FreshLedger

LEMMA TrackType ==
  ASSUME now \in Nat, NEW l \in Ledger, NEW cost \in Nat
  PROVE  /\ Track(l, cost) \in Ledger
         /\ Track(l, cost).own = l.own
         /\ Track(l, cost).loose = l.loose
         /\ Track(l, cost).adm = l.adm
         /\ Track(l, cost).period = l.period
         /\ Track(l, cost).nextToken = l.nextToken
         /\ Track(l, cost).dirtySince = l.dirtySince
<1> DEFINE fresh == l.rateStart = 0 \/ now - l.rateStart >= BucketWidth
           maxCost == Larger(l.maxCost, cost)
           peakRate == IF fresh THEN Larger(l.peakRate, l.rateSum) ELSE l.peakRate
           rateStart == IF fresh THEN now ELSE l.rateStart
           rateSum == IF fresh THEN cost ELSE l.rateSum + cost
<1>1. /\ maxCost \in Nat /\ peakRate \in Nat
      /\ rateStart \in Nat /\ rateSum \in Nat
  BY DEF Larger, Ledger
<1>2. Track(l, cost) = [l EXCEPT !.maxCost = maxCost, !.peakRate = peakRate,
                                 !.rateStart = rateStart, !.rateSum = rateSum]
  BY DEF Track
<1> HIDE DEF maxCost, peakRate, rateStart, rateSum
<1>3. Track(l, cost) \in Ledger
  BY ZenonT(60), <1>1, <1>2 DEF Ledger
<1>4. /\ Track(l, cost).own = l.own
      /\ Track(l, cost).loose = l.loose
      /\ Track(l, cost).adm = l.adm
      /\ Track(l, cost).period = l.period
      /\ Track(l, cost).nextToken = l.nextToken
      /\ Track(l, cost).dirtySince = l.dirtySince
  BY <1>2 DEF Ledger
<1> QED
  BY <1>3, <1>4

LEMMA RecordFrame ==
  ASSUME now \in Nat, NEW l \in Ledger, NEW ns \in Namespaces,
         NEW cost \in Nat, NEW isLoose \in BOOLEAN
  PROVE  /\ Record(l, ns, cost, isLoose) \in Ledger
         /\ Record(l, ns, cost, isLoose).adm = l.adm
         /\ Record(l, ns, cost, isLoose).period = l.period
         /\ Record(l, ns, cost, isLoose).nextToken = l.nextToken
<1> DEFINE t == Track(l, cost)
           own == [l.own EXCEPT ![ns] = @ + cost]
           dirty == IF l.dirtySince = 0 THEN now ELSE l.dirtySince
           loose == IF isLoose THEN [l.loose EXCEPT ![ns] = @ + cost] ELSE l.loose
<1>1. /\ l.own \in Spend /\ l.loose \in Spend /\ l.dirtySince \in Nat
  BY DEF Ledger
<1>2. own \in Spend /\ loose \in Spend /\ dirty \in Nat
  BY <1>1 DEF Spend
<1>3. t \in Ledger /\ t.adm = l.adm /\ t.period = l.period
      /\ t.nextToken = l.nextToken
  BY TrackType
<1>4. Record(l, ns, cost, isLoose) =
        [t EXCEPT !.own = own, !.dirtySince = dirty, !.loose = loose]
  BY DEF Record
<1> HIDE DEF t, own, dirty, loose
<1>5. Record(l, ns, cost, isLoose) \in Ledger
  BY ZenonT(60), <1>2, <1>3, <1>4 DEF Ledger
<1> QED
  BY <1>3, <1>4, <1>5 DEF Ledger

LEMMA FreeSlotsType ==
  ASSUME NEW l \in Ledger, NEW req \in Request
  PROVE  /\ FreeSlots(l, req) \in Ledger
         /\ FreeSlots(l, req).period = l.period
         /\ FreeSlots(l, req).nextToken = l.nextToken
         /\ FreeSlots(l, req).own = l.own
         /\ FreeSlots(l, req).loose = l.loose
         /\ FreeSlots(l, req).adm =
              [k \in SlotKeys |->
                 IF l.period = req.period /\ k \in req.keys
                    /\ l.adm[k] = req.token
                 THEN 0 ELSE l.adm[k]]
<1> DEFINE adm == [k \in SlotKeys |->
                     IF k \in req.keys /\ l.adm[k] = req.token THEN 0
                     ELSE l.adm[k]]
<1>1. l.adm \in [SlotKeys -> Nat]
  BY DEF Ledger
<1>2. adm \in [SlotKeys -> Nat]
  BY <1>1
<1>3. CASE l.period = req.period
  <2>1. FreeSlots(l, req) = [l EXCEPT !.adm = adm]
    BY <1>3 DEF FreeSlots
  <2> HIDE DEF adm
  <2>2. [l EXCEPT !.adm = adm].adm = adm
    BY DEF Ledger
  <2> QED
    BY <1>2, <1>3, <2>1, <2>2 DEF Ledger, adm
<1>4. CASE l.period # req.period
  BY <1>1, <1>4 DEF FreeSlots
<1> QED
  BY <1>3, <1>4

LEMMA MarkPublishedType ==
  ASSUME NEW l \in Ledger, NEW snapshot
  PROVE  /\ MarkPublished(l, snapshot) \in Ledger
         /\ MarkPublished(l, snapshot).period = l.period
         /\ MarkPublished(l, snapshot).nextToken = l.nextToken
         /\ MarkPublished(l, snapshot).adm = l.adm
         /\ MarkPublished(l, snapshot).own = l.own
         /\ MarkPublished(l, snapshot).loose = l.loose
<1>1. [l EXCEPT !.dirtySince = 0] \in Ledger
  BY DEF Ledger
<1>2. MarkPublished(l, snapshot) \in {l, [l EXCEPT !.dirtySince = 0]}
  BY DEF MarkPublished
<1> QED
  BY <1>1, <1>2 DEF Ledger

LEMMA FoldPeersType ==
  ASSUME now \in Nat, NEW l \in Ledger, NEW peers \in Spend
  PROVE  /\ FoldPeers(l, peers) \in Ledger
         /\ FoldPeers(l, peers).period = LedgerFor(l).period
         /\ FoldPeers(l, peers).nextToken = LedgerFor(l).nextToken
         /\ FoldPeers(l, peers).adm = LedgerFor(l).adm
         /\ FoldPeers(l, peers).own = LedgerFor(l).own
         /\ FoldPeers(l, peers).loose = LedgerFor(l).loose
<1> DEFINE m == LedgerFor(l)
<1>1. m \in Ledger
  BY LedgerForType
<1>2. FoldPeers(l, peers) = [m EXCEPT !.peers = peers, !.lastFoldOK = now]
  BY DEF FoldPeers
<1> HIDE DEF m
<1>3. FoldPeers(l, peers) \in Ledger
  BY ZenonT(60), <1>1, <1>2 DEF Ledger
<1> QED
  BY <1>1, <1>2, <1>3 DEF Ledger, m

LEMMA IdleType == Idle \in Publisher
<1>1. NoSpend \in Spend
  BY DEF NoSpend, Spend
<1> QED
  BY <1>1 DEF Idle, Publisher, NoPartial, Partial

-----------------------------------------------------------------------------
(* Type correctness *)

LEMMA CostType == Costs \subseteq Nat
BY HardBudgetAssumption

LEMMA InitType == Init => TypeOK
<1> SUFFICES ASSUME Init PROVE TypeOK
  OBVIOUS
<1>1. FreshLedger \in Ledger
  BY FreshType DEF Init
<1>2. NoPartial \in Partial
  BY Zenon DEF NoPartial, Partial, NoSpend, Spend
<1> QED
  BY <1>1, <1>2, IdleType DEF Init, TypeOK

LEMMA NextType == TypeOK /\ [Next]_vars => TypeOK'
<1> SUFFICES ASSUME TypeOK, [Next]_vars PROVE TypeOK'
  OBVIOUS
<1> USE DEF TypeOK
<1>1. ASSUME NEW r \in Replicas, NEW ns \in Namespaces, AdmitFree(r, ns)
      PROVE  TypeOK'
  <2>1. LedgerFor(ledger[r]) \in Ledger
    BY LedgerForType
  <2>2. running' \in [Replicas -> [Namespaces -> Nat]]
    BY <1>1 DEF AdmitFree
  <2> QED
    BY <1>1, <2>1, <2>2 DEF AdmitFree
<1>2. ASSUME NEW r \in Replicas, NEW ns \in Namespaces, AdmitSlot(r, ns)
      PROVE  TypeOK'
  <2> DEFINE l == LedgerFor(ledger[r])
             keys == BoundaryKeys(l, ns)
             token == l.nextToken + 1
             widened == \E k \in keys :
                          Margin(l, CeilingOf(k)) > MarginPercent * CeilingOf(k)
             raised == l.marginRaised \/ widened
             adm == [k \in SlotKeys |-> IF k \in keys THEN token ELSE l.adm[k]]
             req == [ns |-> ns, keys |-> keys, token |-> token,
                     period |-> l.period]
  <2>1. l \in Ledger
    BY LedgerForType
  <2>2. keys \subseteq SlotKeys
    BY DEF BoundaryKeys, SlotKeys
  <2>3. /\ ledger' = [ledger EXCEPT ![r] =
             [l EXCEPT !.marginRaised = raised, !.nextToken = token, !.adm = adm]]
        /\ held' = [held EXCEPT ![r] = @ \cup {req}]
        /\ UNCHANGED <<now, running, pub, kick, data>>
    BY <1>2 DEF AdmitSlot
  <2>4. token \in Nat /\ adm \in [SlotKeys -> Nat] /\ raised \in BOOLEAN
    BY <2>1 DEF Ledger
  <2>5. req \in Request
    BY <2>1, <2>2, <2>4 DEF Request, Ledger
  <2> HIDE DEF l, keys, token, widened, raised, adm, req
  <2>6. [l EXCEPT !.marginRaised = raised, !.nextToken = token, !.adm = adm]
          \in Ledger
    BY ZenonT(60), <2>1, <2>4 DEF Ledger
  <2> QED
    BY <2>3, <2>5, <2>6
<1>3. ASSUME NEW r \in Replicas, NEW ns \in Namespaces, AdmitReject(r, ns)
      PROVE  TypeOK'
  BY <1>3, LedgerForType DEF AdmitReject
<1>4. ASSUME NEW r \in Replicas, NEW ns \in Namespaces, NEW cost \in Costs,
             Add(r, ns, cost)
      PROVE  TypeOK'
  <2>1. Record(LedgerFor(ledger[r]), ns, cost, TRUE) \in Ledger
    BY ZenonT(60), LedgerForType, RecordFrame, CostType
  <2>2. running' \in [Replicas -> [Namespaces -> Nat]]
    BY <1>4 DEF Add
  <2> QED
    BY ZenonT(60), <1>4, <2>1, <2>2 DEF Add
<1>5. ASSUME NEW r \in Replicas, NEW req \in held[r], NEW cost \in Costs,
             Settle(r, req, cost)
      PROVE  TypeOK'
  <2> DEFINE l == LedgerFor(ledger[r])
             freed == FreeSlots(l, req)
             recorded == Record(freed, req.ns, cost, l.period # req.period)
  <2>1. req \in Request
    OBVIOUS
  <2>2. freed \in Ledger
    BY ZenonT(60), <2>1, LedgerForType, FreeSlotsType
  <2>3. recorded \in Ledger
    BY ZenonT(60), <2>1, <2>2, RecordFrame, CostType DEF Request
  <2>4. /\ ledger' = [ledger EXCEPT ![r] = IF cost = 0 THEN freed ELSE recorded]
        /\ held' = [held EXCEPT ![r] = @ \ {req}]
        /\ kick' = [kick EXCEPT ![r] = @ \/ cost # 0]
        /\ UNCHANGED <<now, running, pub, data>>
    BY <1>5 DEF Settle
  <2> HIDE DEF l, freed, recorded
  <2> QED
    BY <2>2, <2>3, <2>4
<1>6. ASSUME NEW r \in Replicas, NEW tick \in BOOLEAN, PublishSnapshot(r, tick)
      PROVE  TypeOK'
  <2>1. MakePartial(ledger[r].period, ledger[r].own) \in Partial
    BY PartialType DEF Ledger
  <2>2. pub' \in [Replicas -> Publisher]
    BY ZenonT(60), <1>6, <2>1, IdleType DEF PublishSnapshot, Publisher
  <2>3. kick' \in [Replicas -> BOOLEAN]
    BY <1>6 DEF PublishSnapshot
  <2> QED
    BY <1>6, <2>2, <2>3 DEF PublishSnapshot
<1>7. ASSUME NEW r \in Replicas PROVE AfterPublish(r) \in Publisher
  BY ZenonT(60), IdleType DEF AfterPublish, Publisher
<1>8. ASSUME NEW r \in Replicas, PublishApplied(r)
      PROVE  TypeOK'
  <2>1. MarkPublished(ledger[r], pub[r].snapshot) \in Ledger
    BY MarkPublishedType
  <2>2. pub[r].partial \in Partial
    BY DEF Publisher
  <2> QED
    BY <1>7, <1>8, <2>1, <2>2 DEF PublishApplied
<1>9. ASSUME NEW r \in Replicas, PublishFailed(r)
      PROVE  TypeOK'
  BY <1>7, <1>9 DEF PublishFailed
<1>10. ASSUME NEW r \in Replicas, FoldRead(r)
       PROVE  TypeOK'
  <2>1. FoldPartials(data, r, PeriodKey(now)) \in Spend
    BY FoldType
  <2>2. [Idle EXCEPT !.step = "install",
                     !.peers = FoldPartials(data, r, PeriodKey(now))] \in Publisher
    BY ZenonT(60), <2>1, IdleType DEF Publisher
  <2> QED
    BY <1>10, <2>2 DEF FoldRead
<1>11. ASSUME NEW r \in Replicas, FoldFailed(r)
       PROVE  TypeOK'
  BY Zenon, <1>11, IdleType DEF FoldFailed
<1>12. ASSUME NEW r \in Replicas, NEW peers \in Spend
       PROVE  FoldPeers(ledger[r], peers) \in Ledger
  BY FoldPeersType
<1>13. ASSUME NEW r \in Replicas, FoldInstall(r)
       PROVE  TypeOK'
  <2>1. pub[r].peers \in Spend
    BY DEF Publisher
  <2> QED
    BY <1>12, <1>13, <2>1, IdleType DEF FoldInstall
<1>14. ASSUME NEW r \in Replicas, WatchFold(r)
       PROVE  TypeOK'
  BY Zenon, <1>12, <1>14, FoldType DEF WatchFold
<1>15. CASE Tick
  BY <1>15 DEF Tick
<1>16. CASE UNCHANGED vars
  BY <1>16 DEF vars
<1> QED
  BY ZenonT(30), <1>1, <1>2, <1>3, <1>4, <1>5, <1>6, <1>8, <1>9, <1>10, <1>11, <1>13,
     <1>14, <1>15, <1>16 DEF Next, SettleSome

\* The ledgers, requests, publishers and the exchanged partials always have
\* their types; in particular no counter of a ledger (budget.go) goes negative.
THEOREM TypeCorrect == Spec => []TypeOK
BY InitType, NextType, PTL DEF Spec

-----------------------------------------------------------------------------
(* Boundary slots *)

\* What a ledger and the requests that hold its slots satisfy, replica by
\* replica: tokens are unique and were handed out, requests name the slots
\* they may hold, and the slots of the ledger's period match their holders.
SlotInv(l, reqs) ==
  /\ \A req \in reqs :
       /\ req.token \in 1..l.nextToken
       /\ req.period <= l.period
       /\ req.keys # {} /\ req.keys \subseteq {req.ns, Cluster}
       /\ Cluster \in req.keys => ClusterUSD > 0
  /\ \A p, q \in reqs : p.token = q.token => p = q
  /\ \A p, q \in reqs : p.period = l.period /\ q.period = l.period
                          /\ p.ns = q.ns => p = q
  /\ \A k \in SlotKeys :
       /\ \A req \in reqs : req.period = l.period /\ k \in req.keys
                              => l.adm[k] = req.token
       /\ l.adm[k] # 0 => \E req \in reqs : /\ req.period = l.period
                                            /\ k \in req.keys
                                            /\ req.token = l.adm[k]

IInv ==
  /\ TypeOK
  /\ \A r \in Replicas : /\ ledger[r].period <= PeriodKey(now)
                         /\ SlotInv(ledger[r], held[r])

\* Only the period, the tokens and the slots of a ledger matter to SlotInv.
LEMMA SlotFrame ==
  ASSUME NEW l \in Ledger, NEW m \in Ledger, NEW reqs \in SUBSET Request,
         m.period = l.period, m.nextToken = l.nextToken, m.adm = l.adm,
         SlotInv(l, reqs)
  PROVE  SlotInv(m, reqs)
BY DEF SlotInv

\* A rollover frees every slot and leaves no holder in the new period.
LEMMA SlotRollover ==
  ASSUME now \in Nat, NEW l \in Ledger, NEW reqs \in SUBSET Request,
         l.period <= PeriodKey(now), SlotInv(l, reqs)
  PROVE  SlotInv(LedgerFor(l), reqs)
<1> DEFINE m == LedgerFor(l)
<1>1. CASE l.period = PeriodKey(now)
  BY Zenon, <1>1 DEF LedgerFor
<1>2. CASE l.period # PeriodKey(now)
  <2>1. m \in Ledger /\ m.period = PeriodKey(now) /\ m.nextToken = l.nextToken
    BY LedgerForType
  <2>2. PeriodKey(now) \in Nat /\ l.period \in Nat
    BY PeriodMonotone DEF Ledger
  <2>3. \A k \in SlotKeys : m.adm[k] = 0
    BY <1>2 DEF LedgerFor, FreshLedger
  <2>4. \A req \in reqs : req.period \in Nat /\ req.period < m.period
    BY SMTT(60), <1>2, <2>1, <2>2 DEF SlotInv, Request
  <2> HIDE DEF m
  <2> QED
    BY SMTT(60), <2>1, <2>2, <2>3, <2>4 DEF SlotInv, m
<1> QED
  BY <1>1, <1>2

\* Taking the governed slots: none of them was held.
LEMMA SlotTaken ==
  ASSUME now \in Nat, NEW l \in Ledger, NEW m \in Ledger,
         NEW reqs \in SUBSET Request, NEW req \in Request,
         SlotInv(l, reqs),
         req.keys = BoundaryKeys(l, req.ns), req.keys # {},
         req.token = l.nextToken + 1, req.period = l.period,
         ~Throttled(l, req.ns),
         m.period = l.period, m.nextToken = l.nextToken + 1,
         m.adm = [k \in SlotKeys |-> IF k \in req.keys THEN req.token
                                     ELSE l.adm[k]]
  PROVE  SlotInv(m, reqs \cup {req})
<1>1. l.nextToken \in Nat /\ l.period \in Nat /\ l.adm \in [SlotKeys -> Nat]
  BY DEF Ledger
<1>2. /\ req.keys \subseteq {req.ns, Cluster}
      /\ Cluster \in req.keys => ClusterUSD > 0
  BY Zenon, HardBudgetAssumption DEF BoundaryKeys, InBoundary, Request
<1>3. req.ns \in SlotKeys /\ Cluster \in SlotKeys
  BY DEF SlotKeys, Request
<1>4. \A k \in req.keys : l.adm[k] = 0
  BY Zenon, <1>2 DEF Throttled
<1>5. \A p \in reqs : p.token \in Nat /\ p.token <= l.nextToken
  BY SMTT(60), <1>1 DEF SlotInv
<1>6. \A p \in reqs : p.period = l.period => p.keys \cap req.keys = {}
  <2> SUFFICES ASSUME NEW p \in reqs, p.period = l.period, NEW k \in p.keys,
                      k \in req.keys
               PROVE  FALSE
    OBVIOUS
  <2>1. k \in SlotKeys
    BY Zenon, <1>2, <1>3
  <2>2. l.adm[k] = p.token /\ p.token \in 1..l.nextToken
    BY Zenon, <2>1 DEF SlotInv
  <2> QED
    BY <1>1, <1>4, <2>2
<1>7. \A p \in reqs : p.period = l.period => p.ns # req.ns
  <2> SUFFICES ASSUME NEW p \in reqs, p.period = l.period, p.ns = req.ns
               PROVE  FALSE
    BY Zenon
  <2>1. PICK k \in p.keys : TRUE
    BY ZenonT(30) DEF SlotInv
  <2>2. k \in {req.ns, Cluster} /\ (k = Cluster => ClusterUSD > 0)
    BY SMTT(60), <2>1 DEF SlotInv
  <2>3. l.adm[k] = p.token /\ p.token \in 1..l.nextToken
    BY ZenonT(30), <1>3, <2>1, <2>2 DEF SlotInv
  <2> QED
    BY <1>1, <2>2, <2>3 DEF Throttled
<1>8. \A p \in reqs \cup {req} : /\ p.token \in 1..m.nextToken
                                 /\ p.period <= m.period
                                 /\ p.keys # {} /\ p.keys \subseteq {p.ns, Cluster}
                                 /\ Cluster \in p.keys => ClusterUSD > 0
  BY SMTT(60), <1>1, <1>2, <1>5 DEF SlotInv
<1>9. \A p, q \in reqs \cup {req} : p.token = q.token => p = q
  BY SMTT(60), <1>1, <1>5 DEF SlotInv
<1>10. \A p, q \in reqs \cup {req} :
         p.period = m.period /\ q.period = m.period /\ p.ns = q.ns => p = q
  BY ZenonT(30), <1>7 DEF SlotInv
<1>11. ASSUME NEW k \in SlotKeys
       PROVE  /\ \A p \in reqs \cup {req} : p.period = m.period /\ k \in p.keys
                                              => m.adm[k] = p.token
              /\ m.adm[k] # 0 => \E p \in reqs \cup {req} :
                                   /\ p.period = m.period
                                   /\ k \in p.keys
                                   /\ p.token = m.adm[k]
  <2>1. CASE k \in req.keys
    BY Zenon, <1>6, <2>1
  <2>2. CASE k \notin req.keys
    BY SMTT(60), <2>2 DEF SlotInv
  <2> QED
    BY Zenon, <2>1, <2>2
<1> QED
  BY <1>8, <1>9, <1>10, <1>11 DEF SlotInv

\* Settling gives back the slots of one request and of no other.
LEMMA SlotFreed ==
  ASSUME now \in Nat, NEW l \in Ledger, NEW m \in Ledger,
         NEW reqs \in SUBSET Request, NEW req \in reqs,
         SlotInv(l, reqs),
         m.period = l.period, m.nextToken = l.nextToken,
         m.adm = FreeSlots(l, req).adm
  PROVE  SlotInv(m, reqs \ {req})
<1>1. m.adm = [k \in SlotKeys |->
                 IF l.period = req.period /\ k \in req.keys
                    /\ l.adm[k] = req.token
                 THEN 0 ELSE l.adm[k]]
  BY ZenonT(30), FreeSlotsType
<1>2. ASSUME NEW k \in SlotKeys
      PROVE  /\ \A p \in reqs \ {req} : p.period = m.period /\ k \in p.keys
                                          => m.adm[k] = p.token
             /\ m.adm[k] # 0 => \E p \in reqs \ {req} :
                                  /\ p.period = m.period
                                  /\ k \in p.keys
                                  /\ p.token = m.adm[k]
  BY SMTT(60), <1>1 DEF SlotInv
<1> QED
  BY SMTT(60), <1>2 DEF SlotInv

\* A step that changes the ledger and the requests of one replica only.
LEMMA OneReplica ==
  ASSUME IInv, TypeOK', now' = now, NEW r \in Replicas,
         NEW l \in Ledger, NEW reqs \in SUBSET Request,
         ledger' = [ledger EXCEPT ![r] = l], held' = [held EXCEPT ![r] = reqs],
         l.period <= PeriodKey(now), SlotInv(l, reqs)
  PROVE  IInv'
<1>1. ASSUME NEW s \in Replicas
      PROVE  /\ ledger'[s].period <= PeriodKey(now)
             /\ SlotInv(ledger'[s], held'[s])
  BY DEF IInv, TypeOK
<1>2. PeriodKey(now)' = PeriodKey(now)
  BY DEF PeriodKey
<1> QED
  BY <1>1, <1>2 DEF IInv

\* LedgerFor at the current time, for a replica that satisfies IInv.
LEMMA Rolled ==
  ASSUME IInv, NEW r \in Replicas
  PROVE  /\ LedgerFor(ledger[r]) \in Ledger
         /\ LedgerFor(ledger[r]).period = PeriodKey(now)
         /\ PeriodKey(now) \in Nat
         /\ held[r] \in SUBSET Request
         /\ SlotInv(LedgerFor(ledger[r]), held[r])
BY Zenon, LedgerForType, SlotRollover, PeriodMonotone DEF IInv, TypeOK

LEMMA InitInv == Init => IInv
<1> SUFFICES ASSUME Init PROVE IInv
  OBVIOUS
<1>1. TypeOK
  BY InitType
<1>2. ASSUME NEW r \in Replicas
      PROVE  /\ ledger[r].period <= PeriodKey(now)
             /\ SlotInv(ledger[r], held[r])
  <2>1. ledger[r] = FreshLedger /\ held[r] = {} /\ now = 1
    BY DEF Init
  <2>2. /\ FreshLedger.period = PeriodKey(now)
        /\ FreshLedger.adm = [k \in SlotKeys |-> 0]
    BY DEF FreshLedger
  <2>3. PeriodKey(now) \in Nat
    BY Zenon, <2>1, PeriodMonotone
  <2> HIDE DEF FreshLedger
  <2>4. SlotInv(FreshLedger, {})
    BY Zenon, <2>2 DEF SlotInv
  <2> QED
    BY <2>1, <2>2, <2>3, <2>4
<1> QED
  BY <1>1, <1>2 DEF IInv

LEMMA NextInv == IInv /\ [Next]_vars => IInv'
<1> SUFFICES ASSUME IInv, [Next]_vars PROVE IInv'
  OBVIOUS
<1>t. TypeOK'
  BY NextType DEF IInv
<1>k. TypeOK
  BY DEF IInv
<1>s. ASSUME NEW r \in Replicas, NEW l \in Ledger, now' = now,
             ledger' = [ledger EXCEPT ![r] = l], held' = held,
             l.period = PeriodKey(now), l.adm = LedgerFor(ledger[r]).adm,
             l.nextToken = LedgerFor(ledger[r]).nextToken
      PROVE  IInv'
  <2>1. SlotInv(l, held[r])
    BY Zenon, <1>s, Rolled, SlotFrame
  <2>2. held' = [held EXCEPT ![r] = held[r]]
    BY ZenonT(30), <1>s, <1>k DEF TypeOK
  <2>3. l.period <= PeriodKey(now) /\ held[r] \in SUBSET Request
    BY SMTT(60), <1>s, Rolled
  <2> QED
    BY ZenonT(60), <1>s, <1>t, <2>1, <2>2, <2>3, OneReplica
<1>1. ASSUME NEW r \in Replicas, NEW ns \in Namespaces, AdmitFree(r, ns)
      PROVE  IInv'
  BY ZenonT(60), <1>1, <1>s, Rolled DEF AdmitFree
<1>2. ASSUME NEW r \in Replicas, NEW ns \in Namespaces, AdmitSlot(r, ns)
      PROVE  IInv'
  <2> DEFINE l == LedgerFor(ledger[r])
             keys == BoundaryKeys(l, ns)
             token == l.nextToken + 1
             adm == [k \in SlotKeys |-> IF k \in keys THEN token ELSE l.adm[k]]
             req == [ns |-> ns, keys |-> keys, token |-> token,
                     period |-> l.period]
             m == ledger'[r]
  <2>1. l \in Ledger /\ l.period = PeriodKey(now) /\ SlotInv(l, held[r])
    BY Rolled
  <2>2. PICK raised : m = [l EXCEPT !.marginRaised = raised,
                                    !.nextToken = token, !.adm = adm]
    BY ZenonT(60), <1>2, <1>k DEF AdmitSlot, TypeOK
  <2>3. /\ ledger' = [ledger EXCEPT ![r] = m]
        /\ held' = [held EXCEPT ![r] = held[r] \cup {req}]
        /\ now' = now
        /\ ~Throttled(l, ns) /\ keys # {}
    BY ZenonT(60), <1>2, <1>k DEF AdmitSlot, TypeOK
  <2>4. m \in Ledger /\ held[r] \cup {req} \in SUBSET Request /\ req \in Request
    BY Zenon, <1>t, <1>k, <2>3 DEF TypeOK
  <2>5. m.period = l.period /\ m.nextToken = token /\ m.adm = adm
    <3> HIDE DEF l, token, adm, m
    <3> QED
      BY Zenon, <2>1, <2>2 DEF Ledger
  <2>6. SlotInv(m, held[r] \cup {req})
    <3>1. /\ req.keys = BoundaryKeys(l, req.ns) /\ req.keys # {}
          /\ req.token = l.nextToken + 1 /\ req.period = l.period
          /\ ~Throttled(l, req.ns)
          /\ m.adm = [k \in SlotKeys |-> IF k \in req.keys THEN req.token
                                         ELSE l.adm[k]]
      BY ZenonT(60), <2>3, <2>5
    <3>2. now \in Nat /\ held[r] \in SUBSET Request
      BY ZenonT(30), <1>k DEF TypeOK
    <3> HIDE DEF l, req, m
    <3> QED
      BY ZenonT(30), <2>1, <2>4, <2>5, <3>1, <3>2, SlotTaken DEF token
  <2>7. m.period <= PeriodKey(now)
    BY SMTT(60), <2>1, <2>5, Rolled
  <2> HIDE DEF l, keys, token, adm, req, m
  <2> QED
    BY ZenonT(60), <1>t, <2>3, <2>4, <2>6, <2>7, OneReplica
<1>3. ASSUME NEW r \in Replicas, NEW ns \in Namespaces, AdmitReject(r, ns)
      PROVE  IInv'
  BY ZenonT(60), <1>3, <1>s, Rolled DEF AdmitReject
<1>u. ASSUME UNCHANGED <<now, ledger, held>>
      PROVE  IInv'
  <2>1. PeriodKey(now)' = PeriodKey(now)
    BY <1>u DEF PeriodKey
  <2> QED
    BY <1>u, <1>t, <2>1 DEF IInv
<1>4. ASSUME NEW r \in Replicas, NEW ns \in Namespaces, NEW cost \in Costs,
             Add(r, ns, cost)
      PROVE  IInv'
  <2>1. CASE cost = 0
    BY <1>4, <1>u, <2>1 DEF Add
  <2>2. CASE cost # 0
    <3> DEFINE l == LedgerFor(ledger[r])
               m == Record(l, ns, cost, TRUE)
    <3>1. l \in Ledger /\ l.period = PeriodKey(now)
      BY Rolled
    <3>2. now \in Nat /\ cost \in Nat
      BY <1>k, CostType DEF TypeOK
    <3>3. ledger' = [ledger EXCEPT ![r] = m] /\ held' = held /\ now' = now
      BY <1>4, <2>2 DEF Add
    <3> HIDE DEF l
    <3>4. /\ m \in Ledger /\ m.period = l.period
          /\ m.adm = l.adm /\ m.nextToken = l.nextToken
      BY ZenonT(60), <3>1, <3>2, RecordFrame
    <3> HIDE DEF m
    <3> QED
      BY ZenonT(60), <1>s, <3>1, <3>3, <3>4 DEF l
  <2> QED
    BY <2>1, <2>2
<1>5. ASSUME NEW r \in Replicas, NEW req \in held[r], NEW cost \in Costs,
             Settle(r, req, cost)
      PROVE  IInv'
  <2> DEFINE l == LedgerFor(ledger[r])
             freed == FreeSlots(l, req)
             recorded == Record(freed, req.ns, cost, l.period # req.period)
             m == IF cost = 0 THEN freed ELSE recorded
  <2>1. l \in Ledger /\ l.period = PeriodKey(now) /\ SlotInv(l, held[r])
        /\ held[r] \in SUBSET Request /\ PeriodKey(now) \in Nat
    BY Zenon, Rolled
  <2>2. req \in Request
    BY <2>1
  <2>3. /\ freed \in Ledger /\ freed.period = l.period
        /\ freed.nextToken = l.nextToken
    BY ZenonT(60), <2>1, <2>2, FreeSlotsType
  <2>4. /\ recorded \in Ledger /\ recorded.period = l.period
        /\ recorded.nextToken = l.nextToken /\ recorded.adm = freed.adm
    <3>1. now \in Nat /\ cost \in Nat /\ req.ns \in Namespaces
      BY <1>k, <2>2, CostType DEF Request, TypeOK
    <3>2. (l.period # req.period) \in BOOLEAN
      OBVIOUS
    <3> HIDE DEF l, freed
    <3>3. /\ recorded \in Ledger /\ recorded.period = freed.period
          /\ recorded.nextToken = freed.nextToken
          /\ recorded.adm = freed.adm
      BY ZenonT(60), <2>3, <3>1, <3>2, RecordFrame
    <3> QED
      BY <2>3, <3>3
  <2>5. /\ m \in Ledger /\ m.period = l.period /\ m.nextToken = l.nextToken
        /\ m.adm = freed.adm
    BY ZenonT(60), <2>3, <2>4
  <2>6. /\ ledger' = [ledger EXCEPT ![r] = m]
        /\ held' = [held EXCEPT ![r] = held[r] \ {req}]
        /\ now' = now
    BY ZenonT(60), <1>5, <1>k DEF Settle, TypeOK
  <2> HIDE DEF l, m
  <2>7. SlotInv(m, held[r] \ {req})
    BY ZenonT(60), <1>k, <2>1, <2>5, SlotFreed DEF TypeOK
  <2>8. held[r] \ {req} \in SUBSET Request /\ m.period <= PeriodKey(now)
    BY SMTT(60), <2>1, <2>5
  <2> HIDE DEF freed
  <2> QED
    BY ZenonT(60), <1>t, <2>5, <2>6, <2>7, <2>8, OneReplica
<1>6. ASSUME NEW r \in Replicas, PublishApplied(r)
      PROVE  IInv'
  <2> DEFINE m == MarkPublished(ledger[r], pub[r].snapshot)
  <2>1. /\ m \in Ledger /\ m.period = ledger[r].period
        /\ m.nextToken = ledger[r].nextToken /\ m.adm = ledger[r].adm
    BY <1>k, MarkPublishedType DEF TypeOK
  <2>2. ledger' = [ledger EXCEPT ![r] = m] /\ held' = held /\ now' = now
    BY Zenon, <1>6 DEF PublishApplied
  <2> HIDE DEF m
  <2>3. SlotInv(m, held[r]) /\ m.period <= PeriodKey(now)
    BY ZenonT(60), <1>k, <2>1, SlotFrame DEF IInv, TypeOK
  <2>4. held' = [held EXCEPT ![r] = held[r]] /\ held[r] \in SUBSET Request
    BY SMTT(60), <1>k, <2>2 DEF TypeOK
  <2> QED
    BY ZenonT(60), <1>t, <2>1, <2>2, <2>3, <2>4, OneReplica
<1>7. ASSUME NEW r \in Replicas, NEW peers \in Spend, now' = now, held' = held,
             ledger' = [ledger EXCEPT ![r] = FoldPeers(@, peers)]
      PROVE  IInv'
  <2> DEFINE m == FoldPeers(ledger[r], peers)
  <2>1. /\ m \in Ledger /\ m.period = PeriodKey(now)
        /\ m.adm = LedgerFor(ledger[r]).adm
        /\ m.nextToken = LedgerFor(ledger[r]).nextToken
    BY Zenon, <1>k, Rolled, FoldPeersType DEF TypeOK
  <2>2. ledger' = [ledger EXCEPT ![r] = m]
    BY SMTT(60), <1>7
  <2> HIDE DEF m
  <2> QED
    BY ZenonT(60), <1>7, <1>s, <2>1, <2>2
<1>8. ASSUME NEW r \in Replicas, FoldInstall(r)
      PROVE  IInv'
  <2>1. pub[r].peers \in Spend
    BY <1>k DEF TypeOK, Publisher
  <2> QED
    BY ZenonT(60), <1>7, <1>8, <2>1 DEF FoldInstall
<1>9. ASSUME NEW r \in Replicas, WatchFold(r)
      PROVE  IInv'
  BY ZenonT(60), <1>7, <1>9, <1>k, FoldType DEF WatchFold, TypeOK
<1>10. ASSUME NEW r \in Replicas,
              \/ \E tick \in BOOLEAN : PublishSnapshot(r, tick)
              \/ PublishFailed(r) \/ FoldRead(r) \/ FoldFailed(r)
       PROVE  IInv'
  BY ZenonT(60), <1>10, <1>u DEF PublishSnapshot, PublishFailed, FoldRead, FoldFailed
<1>11. CASE Tick
  <2>1. now \in Nat /\ now' = now + 1 /\ ledger' = ledger /\ held' = held
    BY <1>11, <1>k DEF Tick, TypeOK
  <2>2. PeriodKey(now) <= PeriodKey(now)' /\ PeriodKey(now) \in Nat
        /\ PeriodKey(now)' \in Nat
    BY <2>1, PeriodMonotone DEF PeriodKey
  <2>3. \A r \in Replicas : ledger[r].period \in Nat
    BY <1>k DEF TypeOK, Ledger
  <2> QED
    BY SMTT(60), <1>t, <2>1, <2>2, <2>3 DEF IInv
<1>12. CASE UNCHANGED vars
  BY <1>12, <1>u DEF vars
<1> QED
  BY ZenonT(30), <1>1, <1>2, <1>3, <1>4, <1>5, <1>6, <1>8, <1>9, <1>10, <1>11, <1>12
  DEF Next, SettleSome

\* Serialized admission (Admit and settle in budget_hard.go), for any number of
\* replicas and namespaces: a slot is held exactly while its request is in
\* flight in the ledger's period.
THEOREM SlotsCorrect == Spec => []SlotsMatchHolders
<1>1. IInv => SlotsMatchHolders
  BY SMTT(60) DEF IInv, SlotInv, SlotsMatchHolders, Holders
<1> QED
  BY <1>1, InitInv, NextInv, PTL DEF Spec

\* At most one request of a namespace, and one holder of the cluster's slot,
\* is in flight inside the boundary region of a replica.
THEOREM Serialized == Spec => []OneHolderPerCeiling
<1>1. IInv => OneHolderPerCeiling
  <2> SUFFICES ASSUME IInv, NEW r \in Replicas,
                      NEW p \in Holders(r), NEW q \in Holders(r), p # q
               PROVE  p.ns # q.ns /\ p.keys \cap q.keys = {}
    BY DEF OneHolderPerCeiling
  <2>1. /\ p \in held[r] /\ q \in held[r] /\ p \in Request /\ q \in Request
        /\ p.period = ledger[r].period /\ q.period = ledger[r].period
    BY Zenon, SMTT(60) DEF Holders, IInv, TypeOK
  <2>2. p.ns # q.ns
    BY ZenonT(30), <2>1 DEF IInv, SlotInv
  <2>3. ASSUME NEW k \in p.keys, k \in q.keys PROVE FALSE
    <3>1. k \in SlotKeys
      BY <2>1 DEF Request
    <3> QED
      BY SMTT(60), <2>1, <2>3, <3>1 DEF IInv, SlotInv
  <2> QED
    BY <2>2, <2>3
<1> QED
  BY <1>1, InitInv, NextInv, PTL DEF Spec

-----------------------------------------------------------------------------
(* The cap on serialized spend *)

\* A non-empty set of natural numbers has a least element.
LEMMA LeastNatural ==
  ASSUME NEW S, S \subseteq Nat, S # {}
  PROVE  \E n \in S : \A m \in S : n <= m
<1> DEFINE R == OpToRel(<, Nat)
<1>1. IsWellFoundedOn(R, Nat)
  BY ZenonT(60), NatLessThanWellFounded
<1>2. \A x, y \in Nat : <<x, y>> \in R <=> x < y
  BY DEF OpToRel
<1> HIDE DEF R
<1>3. PICK x \in S : \A y \in S : ~(<<y, x>> \in R)
  BY ZenonT(60), <1>1, WFMin
<1>4. \A m \in S : ~(m < x) /\ m \in Nat /\ x \in Nat
  BY ZenonT(60), <1>2, <1>3
<1>5. \A m \in S : x <= m
  BY <1>4
<1> QED
  BY <1>5

LEMMA PolicyTypes ==
  /\ DOMAIN Policies \subseteq Nat
  /\ \A i \in DOMAIN Policies : Policies[i].at \in 0..100
<1> DEFINE Policy == [at : 0..100, action : {"warn", "degrade", "block"}]
<1>1. Policies \in Seq(Policy)
  BY HardBudgetAssumption
<1>2. \A p \in Policy : p.at \in 0..100
  OBVIOUS
<1> HIDE DEF Policy
<1>3. DOMAIN Policies \subseteq Nat /\ \A i \in DOMAIN Policies : Policies[i] \in Policy
  BY <1>1
<1> QED
  BY <1>2, <1>3

LEMMA MinBlock ==
  /\ MinBlockAt \in Nat
  /\ BlockPolicies # {} => \E i \in BlockPolicies : Policies[i].at = MinBlockAt
<1> DEFINE S == {101} \cup {Policies[i].at : i \in BlockPolicies}
<1>1. S \subseteq Nat /\ S # {}
  BY PolicyTypes DEF BlockPolicies
<1>2. \E n \in S : \A m \in S : n <= m
  BY ZenonT(60), <1>1, LeastNatural
<1>3. MinBlockAt \in S /\ \A m \in S : MinBlockAt <= m
  BY ZenonT(60), <1>2 DEF MinBlockAt, Min
<1>4. ASSUME NEW i \in BlockPolicies PROVE MinBlockAt # 101
  <2>1. Policies[i].at \in S /\ Policies[i].at \in 0..100
    BY Zenon, PolicyTypes DEF BlockPolicies
  <2> QED
    BY SMTT(60), <1>1, <1>3, <2>1
<1> QED
  BY <1>1, <1>3, <1>4

\* decide returns block as soon as the namespace reaches the lowest block
\* threshold, if only block policies lie there and above.
LEMMA BlockDecided ==
  ASSUME BlocksOnTop, HardActive, NsUSD > 0, NEW l \in Ledger,
         NEW ns \in Namespaces, ~Decides(l, ns, "block")
  PROVE  100 * NsSpent(l, ns) < MinBlockAt * NsUSD
<1>0. /\ NsUSD \in Nat /\ MinBlockAt \in Nat /\ NsSpent(l, ns) \in Nat
  <2>1. l.own[ns] \in Nat /\ l.peers[ns] \in Nat
    BY Zenon DEF Ledger, Spend
  <2>2. NsSpent(l, ns) \in Nat
    BY <2>1 DEF NsSpent
  <2> QED
    BY <2>2, HardBudgetAssumption, MinBlock
<1>1. /\ 100 * NsSpent(l, ns) \in Nat /\ MinBlockAt * NsUSD \in Nat
  BY <1>0
<1> SUFFICES ASSUME 100 * NsSpent(l, ns) >= MinBlockAt * NsUSD
             PROVE  Decides(l, ns, "block")
  BY <1>1
<1> DEFINE fired == {i \in DOMAIN Policies : Reaches(l, ns, Policies[i].at)}
           above == {100 - Policies[i].at : i \in fired}
<1>2. PICK b \in BlockPolicies : Policies[b].at = MinBlockAt
  BY Zenon, MinBlock DEF HardActive
<1>3. b \in fired
  BY Zenon, <1>2 DEF BlockPolicies, Reaches, NsReaches
<1>4. \A i \in fired : Policies[i].at \in 0..100 /\ i \in Nat
  BY ZenonT(30), PolicyTypes
<1>5. above \subseteq Nat /\ above # {}
  BY SMTT(60), <1>3, <1>4
<1>6. PICK m \in above : \A n \in above : m <= n
  BY ZenonT(60), <1>5, LeastNatural
<1> DEFINE top == {i \in fired : 100 - Policies[i].at = m}
<1>7. top \subseteq Nat /\ top # {}
  BY <1>4, <1>6
<1>8. PICK i \in top : \A j \in top : i <= j
  BY ZenonT(60), <1>7, LeastNatural
<1>9. i \in fired /\ Policies[i].at = 100 - m /\ m \in Nat
  <2>1. i \in fired /\ 100 - Policies[i].at = m
    BY Zenon
  <2>2. Policies[i].at \in 0..100
    BY Zenon, <1>4, <2>1
  <2>3. m \in Nat
    BY Zenon, <1>5
  <2> HIDE DEF fired, above, top
  <2> QED
    BY <2>1, <2>2, <2>3
<1>10. ASSUME NEW j \in fired
       PROVE  \/ Policies[j].at < Policies[i].at
              \/ Policies[j].at = Policies[i].at /\ i <= j
  <2>1. m <= 100 - Policies[j].at
    BY ZenonT(60), <1>6
  <2>2. 100 - Policies[j].at = m => i <= j
    BY ZenonT(30), <1>8
  <2>3. /\ Policies[j].at \in 0..100 /\ Policies[i].at = 100 - m /\ m \in Nat
    BY ZenonT(30), <1>4, <1>9
  <2> HIDE DEF fired, above, top
  <2> QED
    BY <2>1, <2>2, <2>3
<1>11. Policies[i].at >= MinBlockAt
  <2>1. /\ Policies[b].at < Policies[i].at \/ Policies[b].at = Policies[i].at
        /\ Policies[b].at \in 0..100 /\ Policies[i].at \in 0..100 /\ Policies[b].at = MinBlockAt
    BY ZenonT(30), <1>2, <1>3, <1>4, <1>9, <1>10
  <2> HIDE DEF fired, above, top
  <2>2. \A x, y \in 0..100 : x < y \/ x = y => y >= x
    OBVIOUS
  <2> QED
    BY ZenonT(30), <2>1, <2>2
<1>12. Policies[i].action = "block"
  BY <1>9, <1>11 DEF BlocksOnTop
<1> HIDE DEF fired
<1> QED
  BY ZenonT(30), <1>9, <1>10, <1>12 DEF Decides, fired

\* While a namespace has a holder its serialized spend is below the threshold
\* that admitted the holder; otherwise one more call may have landed.
CapInv(l, reqs) ==
  \A ns \in Namespaces :
    LET serial == l.own[ns] - l.loose[ns]
    IN /\ serial >= 0
       /\ serial > 0 => 100 * serial < MinBlockAt * NsUSD + 100 * MaxCost
       /\ (\E req \in reqs : req.period = l.period /\ req.ns = ns)
            => 100 * serial < MinBlockAt * NsUSD

CInv == IInv /\ \A r \in Replicas : CapInv(ledger[r], held[r])

\* Facts that need no invariant: both spends are naturals.
LEMMA SerialType ==
  ASSUME NEW l \in Ledger, NEW ns \in Namespaces
  PROVE  l.own[ns] \in Nat /\ l.loose[ns] \in Nat /\ l.peers[ns] \in Nat
BY ZenonT(60) DEF Ledger, Spend

LEMMA CapFrame ==
  ASSUME NEW l, NEW m, NEW reqs, CapInv(l, reqs),
         m.own = l.own, m.loose = l.loose, m.period = l.period
  PROVE  CapInv(m, reqs)
BY SMTT(60) DEF CapInv

\* A rollover starts from zero, and no request holds a slot of the new period.
LEMMA CapRollover ==
  ASSUME now \in Nat, NEW l \in Ledger, NEW reqs \in SUBSET Request,
         l.period <= PeriodKey(now), SlotInv(l, reqs), CapInv(l, reqs)
  PROVE  CapInv(LedgerFor(l), reqs)
<1> DEFINE m == LedgerFor(l)
<1>1. CASE l.period = PeriodKey(now)
  BY ZenonT(60), <1>1 DEF LedgerFor
<1>2. CASE l.period # PeriodKey(now)
  <2>1. m.period = PeriodKey(now) /\ m.own = NoSpend /\ m.loose = NoSpend
    BY <1>2 DEF LedgerFor, FreshLedger
  <2>2. PeriodKey(now) \in Nat /\ l.period \in Nat
    BY ZenonT(30), PeriodMonotone DEF Ledger
  <2>3. \A req \in reqs : req.period # m.period
    BY SMTT(60), <1>2, <2>1, <2>2 DEF SlotInv, Request
  <2>4. \A ns \in Namespaces : m.own[ns] - m.loose[ns] = 0
    BY <2>1 DEF NoSpend
  <2> HIDE DEF m
  <2> QED
    BY SMTT(60), <2>3, <2>4 DEF CapInv, m
<1> QED
  BY <1>1, <1>2

LEMMA Numbers ==
  /\ NsUSD \in Nat /\ MaxCost \in Nat /\ MinBlockAt \in Nat
  /\ MinBlockAt * NsUSD \in Nat
<1>1. NsUSD \in Nat /\ MaxCost \in Nat /\ MinBlockAt \in Nat
  BY Zenon, HardBudgetAssumption, MinBlock
<1> QED
  BY <1>1

\* Admission of a holder: decide did not block, so its namespace is below.
LEMMA CapTaken ==
  ASSUME BlocksOnTop, HardActive, NsUSD > 0,
         NEW l \in Ledger, NEW m \in Ledger, NEW reqs, NEW req \in Request,
         CapInv(l, reqs), ~Decides(l, req.ns, "block"),
         m.own = l.own, m.loose = l.loose, m.period = l.period
  PROVE  CapInv(m, reqs \cup {req})
<1> SUFFICES ASSUME NEW ns \in Namespaces
             PROVE  LET serial == l.own[ns] - l.loose[ns]
                    IN /\ serial >= 0
                       /\ serial > 0 => 100 * serial < MinBlockAt * NsUSD + 100 * MaxCost
                       /\ (\E p \in reqs \cup {req} : p.period = l.period /\ p.ns = ns)
                            => 100 * serial < MinBlockAt * NsUSD
  BY SMTT(60) DEF CapInv
<1>1. l.own[ns] \in Nat /\ l.loose[ns] \in Nat /\ l.peers[ns] \in Nat
  BY ZenonT(60), SerialType
<1>2. CASE ns = req.ns
  <2>1. 100 * NsSpent(l, ns) < MinBlockAt * NsUSD
    BY ZenonT(60), <1>2, BlockDecided
  <2>2. 100 * (l.own[ns] - l.loose[ns]) < MinBlockAt * NsUSD
    BY SMTT(60), <1>1, <2>1, Numbers DEF NsSpent
  <2> QED
    BY <2>2 DEF CapInv
<1>3. CASE ns # req.ns
  BY ZenonT(60), <1>3 DEF CapInv
<1> QED
  BY ZenonT(60), <1>2, <1>3

\* A cost that is not settled through a slot of the period moves own and loose
\* alike.
LEMMA CapLoose ==
  ASSUME NEW l \in Ledger, NEW m \in Ledger, NEW reqs, NEW ns \in Namespaces,
         NEW cost \in Nat, CapInv(l, reqs), m.period = l.period,
         \A n \in Namespaces :
           /\ m.own[n] = IF n = ns THEN l.own[n] + cost ELSE l.own[n]
           /\ m.loose[n] = IF n = ns THEN l.loose[n] + cost ELSE l.loose[n]
  PROVE  CapInv(m, reqs)
<1>1. \A n \in Namespaces : l.own[n] \in Nat /\ l.loose[n] \in Nat
  BY ZenonT(30), SerialType
<1>2. \A n \in Namespaces : m.own[n] - m.loose[n] = l.own[n] - l.loose[n]
  BY SMTT(60), <1>1
<1> QED
  BY SMTT(60), <1>2 DEF CapInv

\* The only holder of a namespace settles: at most one call on top.
LEMMA CapSettled ==
  ASSUME NEW l \in Ledger, NEW m \in Ledger, NEW reqs \in SUBSET Request,
         NEW req \in reqs, SlotInv(l, reqs), CapInv(l, reqs),
         NEW cost \in Nat, cost <= MaxCost, req.period = l.period,
         m.period = l.period,
         \A n \in Namespaces :
           /\ m.own[n] = IF n = req.ns THEN l.own[n] + cost ELSE l.own[n]
           /\ m.loose[n] = l.loose[n]
  PROVE  CapInv(m, reqs \ {req})
<1> SUFFICES ASSUME NEW ns \in Namespaces
             PROVE  LET serial == m.own[ns] - m.loose[ns]
                    IN /\ serial >= 0
                       /\ serial > 0 => 100 * serial < MinBlockAt * NsUSD + 100 * MaxCost
                       /\ (\E p \in reqs \ {req} : p.period = m.period /\ p.ns = ns)
                            => 100 * serial < MinBlockAt * NsUSD
  BY ZenonT(60) DEF CapInv
<1>1. /\ l.own[ns] \in Nat /\ l.loose[ns] \in Nat
      /\ m.loose[ns] = l.loose[ns]
  BY ZenonT(60), SerialType
<1>2. CASE ns = req.ns
  <2>1. m.own[ns] = l.own[ns] + cost
    BY ZenonT(60), <1>2
  <2>2. ~ \E p \in reqs \ {req} : p.period = m.period /\ p.ns = ns
    BY SMTT(60), <1>2 DEF SlotInv
  <2>3. /\ l.own[ns] - l.loose[ns] >= 0
        /\ 100 * (l.own[ns] - l.loose[ns]) < MinBlockAt * NsUSD
    BY ZenonT(60), <1>2 DEF CapInv
  <2> QED
    BY SMTT(60), <1>1, <2>1, <2>2, <2>3, Numbers
<1>3. CASE ns # req.ns
  <2>1. m.own[ns] = l.own[ns]
    BY ZenonT(30), <1>3
  <2> QED
    BY SMTT(60), <1>1, <2>1 DEF CapInv
<1> QED
  BY Zenon, <1>2, <1>3

LEMMA CapFewer ==
  ASSUME NEW l, NEW reqs, NEW fewer, fewer \subseteq reqs, CapInv(l, reqs)
  PROVE  CapInv(l, fewer)
BY DEF CapInv

LEMMA CapOneReplica ==
  ASSUME CInv, IInv', NEW r \in Replicas, NEW l, NEW reqs,
         ledger' = [ledger EXCEPT ![r] = l], held' = [held EXCEPT ![r] = reqs],
         CapInv(l, reqs)
  PROVE  CInv'
<1>1. ASSUME NEW s \in Replicas PROVE CapInv(ledger'[s], held'[s])
  BY Zenon DEF CInv, IInv, TypeOK
<1> QED
  BY Zenon, <1>1 DEF CInv

LEMMA CapRolled ==
  ASSUME CInv, NEW r \in Replicas
  PROVE  CapInv(LedgerFor(ledger[r]), held[r])
BY Zenon, CapRollover DEF CInv, IInv, TypeOK

LEMMA InitCap == Init => CInv
<1> SUFFICES ASSUME Init PROVE CInv
  OBVIOUS
<1>1. ASSUME NEW r \in Replicas PROVE CapInv(ledger[r], held[r])
  <2>1. ledger[r].own = NoSpend /\ ledger[r].loose = NoSpend /\ held[r] = {}
    BY DEF Init, FreshLedger
  <2>2. \A ns \in Namespaces : ledger[r].own[ns] - ledger[r].loose[ns] = 0
    BY SMTT(60), <2>1 DEF NoSpend
  <2> QED
    BY SMTT(60), <2>1, <2>2 DEF CapInv
<1> QED
  BY ZenonT(30), <1>1, InitInv DEF CInv

LEMMA NextCap ==
  ASSUME BlocksOnTop, HardActive, NsUSD > 0
  PROVE  CInv /\ [Next]_vars => CInv'
<1> SUFFICES ASSUME CInv, [Next]_vars PROVE CInv'
  BY SMTT(60)
<1>i. IInv /\ IInv' /\ TypeOK /\ TypeOK'
  BY ZenonT(60), NextInv DEF CInv, IInv
<1>s. ASSUME NEW r \in Replicas, NEW l, held' = held,
             ledger' = [ledger EXCEPT ![r] = l], CapInv(l, held[r])
      PROVE  CInv'
  <2>1. held' = [held EXCEPT ![r] = held[r]]
    BY Zenon, <1>i, <1>s DEF TypeOK
  <2> QED
    BY ZenonT(60), <1>i, <1>s, <2>1, CapOneReplica
<1>u. ASSUME UNCHANGED <<ledger, held>> PROVE CInv'
  BY ZenonT(60), <1>i, <1>u DEF CInv
<1>1. ASSUME NEW r \in Replicas, NEW ns \in Namespaces,
             AdmitFree(r, ns) \/ AdmitReject(r, ns)
      PROVE  CInv'
  BY <1>1, <1>s, CapRolled DEF AdmitFree, AdmitReject
<1>2. ASSUME NEW r \in Replicas, NEW ns \in Namespaces, AdmitSlot(r, ns)
      PROVE  CInv'
  <2> DEFINE l == LedgerFor(ledger[r])
             keys == BoundaryKeys(l, ns)
             token == l.nextToken + 1
             adm == [k \in SlotKeys |-> IF k \in keys THEN token ELSE l.adm[k]]
             req == [ns |-> ns, keys |-> keys, token |-> token,
                     period |-> l.period]
             m == ledger'[r]
  <2>1. l \in Ledger /\ CapInv(l, held[r])
    BY <1>i, Rolled, CapRolled
  <2>2. PICK raised : m = [l EXCEPT !.marginRaised = raised,
                                    !.nextToken = token, !.adm = adm]
    BY ZenonT(60), <1>2, <1>i DEF AdmitSlot, TypeOK
  <2>3. /\ ledger' = [ledger EXCEPT ![r] = m]
        /\ held' = [held EXCEPT ![r] = held[r] \cup {req}]
        /\ ~Decides(l, ns, "block")
    BY ZenonT(60), <1>2, <1>i DEF AdmitSlot, TypeOK
  <2>4. m \in Ledger /\ req \in Request /\ req.ns = ns
    BY <1>i, <2>3 DEF TypeOK
  <2> HIDE DEF l, keys, token, adm, m, req
  <2>5. m.period = l.period /\ m.own = l.own /\ m.loose = l.loose
    BY Zenon, <2>1, <2>2 DEF Ledger
  <2>6. CapInv(m, held[r] \cup {req})
    BY ZenonT(30), <2>1, <2>3, <2>4, <2>5, CapTaken
  <2> QED
    BY ZenonT(60), <1>i, <2>3, <2>6, CapOneReplica
<1>3. ASSUME NEW r \in Replicas, NEW ns \in Namespaces, NEW cost \in Costs,
             Add(r, ns, cost)
      PROVE  CInv'
  <2>1. CASE cost = 0
    BY <1>3, <1>u, <2>1 DEF Add
  <2>2. CASE cost # 0
    <3> DEFINE l == LedgerFor(ledger[r])
               m == Record(l, ns, cost, TRUE)
    <3>1. l \in Ledger /\ CapInv(l, held[r])
      BY Zenon, <1>i, Rolled, CapRolled
    <3>2. now \in Nat /\ cost \in Nat
      BY ZenonT(30), <1>i, CostType DEF TypeOK
    <3>3. ledger' = [ledger EXCEPT ![r] = m] /\ held' = held
      BY <1>3, <2>2 DEF Add
    <3> HIDE DEF l
    <3>4. /\ m \in Ledger /\ m.period = l.period
      BY ZenonT(60), <3>1, <3>2, RecordFrame
    <3>5. ASSUME NEW n \in Namespaces
          PROVE  /\ m.own[n] = IF n = ns THEN l.own[n] + cost ELSE l.own[n]
                 /\ m.loose[n] = IF n = ns THEN l.loose[n] + cost ELSE l.loose[n]
      BY <3>1, <3>2, TrackType DEF Record, Ledger, Spend
    <3> HIDE DEF m
    <3>6. CapInv(m, held[r])
      BY SMTT(60), <3>1, <3>2, <3>4, <3>5, CapLoose
    <3> QED
      BY ZenonT(60), <1>s, <3>3, <3>6
  <2> QED
    BY ZenonT(30), <2>1, <2>2
<1>4. ASSUME NEW r \in Replicas, NEW req \in held[r], NEW cost \in Costs,
             Settle(r, req, cost)
      PROVE  CInv'
  <2> DEFINE l == LedgerFor(ledger[r])
             freed == FreeSlots(l, req)
             isLoose == l.period # req.period
             recorded == Record(freed, req.ns, cost, isLoose)
             m == IF cost = 0 THEN freed ELSE recorded
  <2>1. l \in Ledger /\ CapInv(l, held[r]) /\ SlotInv(l, held[r])
        /\ held[r] \in SUBSET Request
    BY Zenon, <1>i, Rolled, CapRolled
  <2>2. /\ req \in Request /\ now \in Nat /\ cost \in Nat
        /\ cost <= MaxCost /\ req.ns \in Namespaces
    <3>1. req \in Request
      BY Zenon, <2>1
    <3>2. now \in Nat
      BY ZenonT(30), <1>i DEF TypeOK
    <3>3. cost \in Nat /\ cost <= MaxCost
      BY HardBudgetAssumption
    <3>4. req.ns \in Namespaces
      BY SMTT(60), <3>1 DEF Request
    <3> QED
      BY Zenon, <3>1, <3>2, <3>3, <3>4
  <2>3. /\ ledger' = [ledger EXCEPT ![r] = m]
        /\ held' = [held EXCEPT ![r] = held[r] \ {req}]
    <3>1. held' = [held EXCEPT ![r] = held[r] \ {req}]
      BY ZenonT(60), <1>4 DEF Settle
    <3>2. ledger' = [ledger EXCEPT ![r] = m]
      BY ZenonT(60), <1>4 DEF Settle
    <3> QED
      BY ZenonT(60), <3>1, <3>2
  <2>4. /\ freed \in Ledger /\ freed.period = l.period
        /\ freed.own = l.own /\ freed.loose = l.loose
    BY ZenonT(60), <2>1, <2>2, FreeSlotsType
  <2> HIDE DEF l, freed
  <2>5. CapInv(freed, held[r]) /\ CapInv(freed, held[r] \ {req})
    BY SMTT(60), <2>1, <2>4, CapFrame, CapFewer
  <2>6. CASE cost = 0
    BY ZenonT(60), <1>i, <2>3, <2>5, <2>6, CapOneReplica
  <2>7. CASE cost # 0 /\ l.period # req.period
    <3> DEFINE n == Record(freed, req.ns, cost, TRUE)
    <3>1. m = n
      BY ZenonT(60), <2>7
    <3>2. /\ n \in Ledger /\ n.period = freed.period
      BY ZenonT(60), <2>2, <2>4, RecordFrame
    <3>3. ASSUME NEW k \in Namespaces
          PROVE  /\ n.own[k] =
                      IF k = req.ns THEN freed.own[k] + cost ELSE freed.own[k]
                 /\ n.loose[k] =
                      IF k = req.ns THEN freed.loose[k] + cost ELSE freed.loose[k]
      BY <2>2, <2>4, TrackType DEF Record, Ledger, Spend
    <3> HIDE DEF n
    <3>4. CapInv(n, held[r] \ {req})
      BY SMTT(60), <2>2, <2>4, <2>5, <3>2, <3>3, CapLoose
    <3> QED
      BY ZenonT(60), <1>i, <2>3, <3>1, <3>4, CapOneReplica
  <2>8. CASE cost # 0 /\ l.period = req.period
    <3> DEFINE n == Record(freed, req.ns, cost, FALSE)
    <3>1. m = n
      BY ZenonT(60), <2>8
    <3>2. /\ n \in Ledger /\ n.period = l.period
      BY ZenonT(60), <2>2, <2>4, RecordFrame
    <3>3. ASSUME NEW k \in Namespaces
          PROVE  /\ n.own[k] = IF k = req.ns THEN l.own[k] + cost ELSE l.own[k]
                 /\ n.loose[k] = l.loose[k]
      BY <2>2, <2>4, TrackType DEF Record, Ledger, Spend
    <3> HIDE DEF n
    <3>4. CapInv(n, held[r] \ {req})
      BY ZenonT(30), <2>1, <2>2, <2>8, <3>2, <3>3, CapSettled
    <3> QED
      BY ZenonT(60), <1>i, <2>3, <3>1, <3>4, CapOneReplica
  <2> QED
    BY Zenon, <2>6, <2>7, <2>8
<1>5. ASSUME NEW r \in Replicas, PublishApplied(r)
      PROVE  CInv'
  <2> DEFINE m == MarkPublished(ledger[r], pub[r].snapshot)
  <2>1. /\ m.period = ledger[r].period /\ m.own = ledger[r].own
        /\ m.loose = ledger[r].loose
    BY <1>i, MarkPublishedType DEF TypeOK
  <2>2. ledger' = [ledger EXCEPT ![r] = m] /\ held' = held
    BY ZenonT(30), <1>5 DEF PublishApplied
  <2> HIDE DEF m
  <2>3. CapInv(m, held[r])
    BY <2>1, CapFrame DEF CInv
  <2> QED
    BY ZenonT(60), <1>s, <2>2, <2>3
<1>6. ASSUME NEW r \in Replicas, NEW peers \in Spend, held' = held,
             ledger' = [ledger EXCEPT ![r] = FoldPeers(@, peers)]
      PROVE  CInv'
  <2> DEFINE l == LedgerFor(ledger[r])
             m == FoldPeers(ledger[r], peers)
  <2>1. /\ m.period = l.period /\ m.own = l.own /\ m.loose = l.loose
    BY ZenonT(60), <1>i, FoldPeersType DEF TypeOK
  <2>2. ledger' = [ledger EXCEPT ![r] = m] /\ CapInv(l, held[r])
    BY Zenon, <1>6, CapRolled
  <2> HIDE DEF l, m
  <2>3. CapInv(m, held[r])
    BY Zenon, <2>1, <2>2, CapFrame
  <2> QED
    BY ZenonT(60), <1>6, <1>s, <2>2, <2>3
<1>7. ASSUME NEW r \in Replicas, FoldInstall(r) \/ WatchFold(r)
      PROVE  CInv'
  <2>1. pub[r].peers \in Spend
    BY ZenonT(30), <1>i DEF TypeOK, Publisher
  <2>2. FoldPartials(data, r, PeriodKey(now)) \in Spend
    BY SMTT(60), <1>i, FoldType DEF TypeOK
  <2> QED
    BY ZenonT(30), <1>6, <1>7, <2>1, <2>2 DEF FoldInstall, WatchFold
<1>8. ASSUME NEW r \in Replicas,
             \/ \E tick \in BOOLEAN : PublishSnapshot(r, tick)
             \/ PublishFailed(r) \/ FoldRead(r) \/ FoldFailed(r)
      PROVE  CInv'
  BY ZenonT(60), <1>8, <1>u DEF PublishSnapshot, PublishFailed, FoldRead, FoldFailed
<1>9. CASE Tick
  BY <1>9, <1>u DEF Tick
<1>10. CASE UNCHANGED vars
  BY <1>10, <1>u DEF vars
<1> QED
  BY ZenonT(60), <1>1, <1>2, <1>3, <1>4, <1>5, <1>7, <1>8, <1>9, <1>10
  DEF Next, SettleSome

\* The cap of hard enforcement (Admit and settle in budget_hard.go): when only
\* block policies lie at or above the lowest block threshold, what a replica
\* settles through boundary slots in a period stays below the threshold plus
\* the cost of one call, for any ceilings, policies and costs.
THEOREM Capped == BlocksOnTop => (Spec => []SerializedSpendCapped)
<1> SUFFICES ASSUME BlocksOnTop PROVE Spec => []SerializedSpendCapped
  OBVIOUS
<1>1. CASE HardActive /\ NsUSD > 0
  <2>1. CInv /\ [Next]_vars => CInv'
    BY ZenonT(30), <1>1, NextCap
  <2>2. CInv => SerializedSpendCapped
    BY DEF CInv, CapInv, SerializedSpendCapped
  <2> QED
    BY <2>1, <2>2, InitCap, PTL DEF Spec
<1>2. CASE ~(HardActive /\ NsUSD > 0)
  <2>1. SerializedSpendCapped
    BY <1>2 DEF SerializedSpendCapped
  <2> QED
    BY <2>1, PTL
<1> QED
  BY <1>1, <1>2

-----------------------------------------------------------------------------
(* What a replica knows of its peers *)

LEMMA UnitsFinite ==
  ASSUME NEW S, IsFiniteSet(S), NEW f, \A k \in S : f[k] \in Nat
  PROVE  IsFiniteSet(Units(f, S))
<1> DEFINE part == [k \in S |-> {k} \X (1..f[k])]
           parts == {part[k] : k \in S}
<1>1. part \in Surjection(S, parts)
  BY ZenonT(60) DEF Surjection
<1>2. IsFiniteSet(parts)
  BY <1>1, FS_Surjection
<1>3. \A p \in parts : IsFiniteSet(p)
  <2> SUFFICES ASSUME NEW k \in S
               PROVE  IsFiniteSet({k} \X (1..f[k]))
    OBVIOUS
  <2>1. IsFiniteSet(1..f[k])
    BY FS_Interval
  <2>2. IsFiniteSet({k})
    BY ZenonT(60), FS_Singleton
  <2> QED
    BY ZenonT(60), <2>1, <2>2, FS_Product
<1>4. Units(f, S) = UNION parts
  BY DEF Units
<1> QED
  BY ZenonT(60), <1>2, <1>3, <1>4, FS_UNION

\* More keys and larger numbers make no smaller sum.
LEMMA TotalMonotone ==
  ASSUME NEW T, IsFiniteSet(T), NEW S \in SUBSET T, NEW f, NEW g,
         \A k \in T : g[k] \in Nat, \A k \in S : f[k] \in Nat /\ f[k] <= g[k]
  PROVE  Total(f, S) <= Total(g, T)
<1>1. IsFiniteSet(Units(g, T))
  BY UnitsFinite
<1>2. ASSUME NEW k \in S PROVE 1..f[k] \subseteq 1..g[k]
  OBVIOUS
<1>3. Units(f, S) \subseteq Units(g, T)
  BY <1>2 DEF Units
<1> QED
  BY <1>1, <1>3, FS_Subset DEF Total

LEMMA CentsMonotone ==
  ASSUME NEW v \in Nat, NEW w \in Nat, v <= w
  PROVE  Cents(v) <= Cents(w)
<1>1. Cent \in Nat \ {0} /\ Cent \div 2 \in Nat
  BY PartialsAssumption
<1>2. ASSUME NEW a \in Nat, NEW b \in Nat, a <= b
      PROVE  /\ a \div Cent \in Nat /\ b \div Cent \in Nat
             /\ a \div Cent <= b \div Cent
  BY <1>1, <1>2
<1>3. ASSUME NEW a \in Nat, NEW b \in Nat, a <= b PROVE a * Cent <= b * Cent
  BY <1>1, <1>3
<1> QED
  BY <1>1, <1>2, <1>3 DEF Cents

Below(a, b) == \A ns \in Namespaces : a[ns] <= b[ns]

\* What k has published of the first period is still there, and no less of it.
Grows(x, y) ==
  x.present /\ x.period = 0 => y.present /\ y.period = 0 /\ Below(x.spend, y.spend)

\* The peer view grows with what is published.
LEMMA FoldMonotone ==
  ASSUME NEW d \in [Replicas -> Partial], NEW e \in [Replicas -> Partial], NEW r \in Replicas,
         \A k \in Replicas : Grows(d[k], e[k])
  PROVE  Below(FoldPartials(d, r, 0), FoldPartials(e, r, 0))
<1> DEFINE S == KeysOf(d, DOMAIN d \ {r}, 0)
           T == KeysOf(e, DOMAIN e \ {r}, 0)
<1>1. S \in SUBSET T /\ T \subseteq Replicas
  BY DEF KeysOf, Grows
<1>2. IsFiniteSet(T)
  BY ZenonT(60), <1>1, FS_Subset, HardBudgetAssumption
<1>3. ASSUME NEW k \in S
      PROVE  Below(d[k].spend, e[k].spend) /\ k \in Replicas
  BY DEF KeysOf, Grows
<1>4. \A k \in Replicas : d[k].spend \in Spend /\ e[k].spend \in Spend
  BY DEF Partial
<1> HIDE DEF S, T
<1>5. ASSUME NEW ns \in Namespaces
      PROVE  Total([k \in S |-> d[k].spend[ns]], S) <= Total([k \in T |-> e[k].spend[ns]], T)
  <2> DEFINE f == [k \in S |-> d[k].spend[ns]]
             g == [k \in T |-> e[k].spend[ns]]
  <2>1. \A k \in T : g[k] \in Nat
    BY <1>1, <1>4 DEF Spend
  <2>2. \A k \in S : f[k] \in Nat /\ f[k] <= g[k]
    BY <1>1, <1>3, <1>4 DEF Spend, Below
  <2> HIDE DEF f, g
  <2>3. Total(f, S) <= Total(g, T)
    BY <1>1, <1>2, <2>1, <2>2, TotalMonotone
  <2> QED
    BY <2>3 DEF f, g
<1> QED
  BY ZenonT(60), <1>5 DEF Below, FoldPartials, SumPartials, S, T

\* What ties a replica's ledger, its publisher and its key together while the
\* first period lasts: its key holds no more than it has spent, a partial on its
\* way holds no less than its key, and a peer view, installed or on its way, is
\* at most what the peers' keys hold now.
PeerInv(l, p, d, r) ==
  /\ l.period = 0
  /\ d[r].present => d[r].period = 0 /\ Below(d[r].spend, RoundSpend(l.own))
  /\ p.step = "apply" => /\ p.partial.present /\ p.partial.period = 0
                         /\ Below(p.partial.spend, RoundSpend(l.own))
                         /\ Grows(d[r], p.partial)
  /\ p.step = "install" => Below(p.peers, FoldPartials(d, r, 0))
  /\ Below(l.peers, FoldPartials(d, r, 0))

PInv ==
  /\ TypeOK
  /\ now < PeriodLength
  /\ \A r \in Replicas : PeerInv(ledger[r], pub[r], data, r)

\* Time does not leave the first period.
WithinOnePeriod == 1 < PeriodLength /\ MaxTime < PeriodLength

LEMMA OnePeriod ==
  ASSUME NEW t \in Nat, t < PeriodLength
  PROVE  PeriodKey(t) = 0
BY PartialsAssumption DEF PeriodKey

LEMMA BelowTransitive ==
  ASSUME NEW a \in Spend, NEW b \in Spend, NEW c \in Spend, Below(a, b), Below(b, c)
  PROVE  Below(a, c)
BY DEF Below, Spend

LEMMA RoundMonotone ==
  ASSUME NEW a \in Spend, NEW b \in Spend, Below(a, b)
  PROVE  /\ RoundSpend(a) \in Spend /\ RoundSpend(b) \in Spend
         /\ Below(RoundSpend(a), RoundSpend(b))
<1>1. \A ns \in Namespaces : /\ Cents(a[ns]) \in Nat /\ Cents(b[ns]) \in Nat
                             /\ Cents(a[ns]) <= Cents(b[ns])
  BY CentsType, CentsMonotone DEF Below, Spend
<1> QED
  BY <1>1 DEF RoundSpend, Spend, Below

\* A ledger that has spent more and whose peer view is no newer than the keys.
LEMMA PeerFrame ==
  ASSUME NEW l \in Ledger, NEW m \in Ledger, NEW p \in Publisher, NEW r \in Replicas,
         NEW d \in [Replicas -> Partial], PeerInv(l, p, d, r),
         m.period = 0, Below(l.own, m.own), Below(m.peers, FoldPartials(d, r, 0))
  PROVE  PeerInv(m, p, d, r)
<1>1. /\ l.own \in Spend /\ m.own \in Spend /\ p.partial.spend \in Spend /\ d[r].spend \in Spend
  BY DEF Ledger, Publisher, Partial
<1>2. /\ RoundSpend(l.own) \in Spend /\ RoundSpend(m.own) \in Spend
      /\ Below(RoundSpend(l.own), RoundSpend(m.own))
  BY ZenonT(60), <1>1, RoundMonotone
<1>3. /\ d[r].present => d[r].period = 0 /\ Below(d[r].spend, RoundSpend(m.own))
  BY ZenonT(60), <1>1, <1>2, BelowTransitive DEF PeerInv
<1>4. p.step = "apply" => Below(p.partial.spend, RoundSpend(m.own))
  BY ZenonT(60), <1>1, <1>2, BelowTransitive DEF PeerInv
<1> QED
  BY ZenonT(60), <1>3, <1>4 DEF PeerInv

\* A step of one replica that leaves the ConfigMap alone.
LEMMA OnePeer ==
  ASSUME PInv, TypeOK', now' = now, data' = data, NEW r \in Replicas, NEW l, NEW p,
         ledger' = [ledger EXCEPT ![r] = l], pub' = [pub EXCEPT ![r] = p],
         PeerInv(l, p, data, r)
  PROVE  PInv'
<1>1. ASSUME NEW s \in Replicas PROVE PeerInv(ledger'[s], pub'[s], data, s)
  BY DEF PInv, TypeOK
<1> QED
  BY <1>1 DEF PInv

LEMMA LedgerGoesOn ==
  ASSUME PInv, TypeOK', now' = now, data' = data, pub' = pub, NEW r \in Replicas,
         NEW m, ledger' = [ledger EXCEPT ![r] = m],
         m.period = 0, Below(ledger[r].own, m.own),
         Below(m.peers, FoldPartials(data, r, 0))
  PROVE  PInv'
<1>1. /\ m \in Ledger /\ ledger[r] \in Ledger /\ pub[r] \in Publisher
      /\ data \in [Replicas -> Partial] /\ pub' = [pub EXCEPT ![r] = pub[r]]
  BY ZenonT(60) DEF PInv, TypeOK
<1>2. PeerInv(m, pub[r], data, r)
  BY <1>1, PeerFrame DEF PInv
<1> QED
  BY ZenonT(60), <1>1, <1>2, OnePeer

LEMMA BelowItself == ASSUME NEW a \in Spend PROVE Below(a, a)
BY DEF Below, Spend

\* There is no rollover: ledgerFor returns the ledger as it is.
LEMMA NoRollover ==
  ASSUME PInv, NEW r \in Replicas
  PROVE  /\ LedgerFor(ledger[r]) = ledger[r] /\ ledger[r] \in Ledger /\ PeriodKey(now) = 0
         /\ ledger[r].own \in Spend /\ ledger[r].peers \in Spend /\ ledger[r].period = 0
         /\ Below(ledger[r].own, ledger[r].own)
         /\ Below(ledger[r].peers, FoldPartials(data, r, 0))
<1>1. PeriodKey(now) = 0
  BY OnePeriod DEF PInv, TypeOK
<1>2. ledger[r] \in Ledger /\ ledger[r].period = 0
      /\ Below(ledger[r].peers, FoldPartials(data, r, 0))
  BY ZenonT(60) DEF PInv, TypeOK, PeerInv
<1> QED
  BY <1>1, <1>2, BelowItself DEF LedgerFor, Ledger

LEMMA RecordGrows ==
  ASSUME now \in Nat, NEW l \in Ledger, NEW ns \in Namespaces, NEW cost \in Nat,
         NEW isLoose \in BOOLEAN
  PROVE  /\ Record(l, ns, cost, isLoose).period = l.period
         /\ Record(l, ns, cost, isLoose).peers = l.peers
         /\ Below(l.own, Record(l, ns, cost, isLoose).own)
<1> DEFINE own == [l.own EXCEPT ![ns] = @ + cost]
<1>1. l.own \in Spend
  BY DEF Ledger
<1>2. Below(l.own, own)
  BY <1>1 DEF Below, Spend
<1> HIDE DEF own
<1>3. /\ Record(l, ns, cost, isLoose).own = own
      /\ Record(l, ns, cost, isLoose).peers = l.peers
      /\ Record(l, ns, cost, isLoose).period = l.period
  BY Zenon DEF Record, Track, Ledger, own
<1> QED
  BY <1>2, <1>3

LEMMA InitPeers == ASSUME WithinOnePeriod, Init PROVE PInv
<1>1. TypeOK /\ now = 1 /\ now < PeriodLength
  BY InitType DEF Init, WithinOnePeriod
<1>2. PeriodKey(now) = 0
  BY <1>1, OnePeriod
<1>3. ASSUME NEW r \in Replicas PROVE PeerInv(ledger[r], pub[r], data, r)
  <2>1. /\ ledger[r].period = 0 /\ ledger[r].peers = NoSpend
        /\ pub[r].step = "idle" /\ ~data[r].present
    BY Zenon, <1>2 DEF Init, FreshLedger, Idle, NoPartial
  <2>2. FoldPartials(data, r, 0) \in Spend
    BY <1>1, FoldType DEF TypeOK
  <2>3. Below(NoSpend, FoldPartials(data, r, 0))
    BY <2>2 DEF Below, NoSpend, Spend
  <2> QED
    BY ZenonT(60), <2>1, <2>3 DEF PeerInv
<1> QED
  BY <1>1, <1>3 DEF PInv

\* A publisher that neither writes a partial nor installs a view.
LEMMA PublisherRests ==
  ASSUME PInv, TypeOK', now' = now, data' = data, ledger' = ledger, NEW r \in Replicas,
         NEW p, pub' = [pub EXCEPT ![r] = p], p.step \notin {"apply", "install"}
  PROVE  PInv'
<1>1. ledger' = [ledger EXCEPT ![r] = ledger[r]]
  BY DEF PInv, TypeOK
<1>2. PeerInv(ledger[r], p, data, r)
  BY Zenon DEF PInv, PeerInv
<1> QED
  BY ZenonT(60), <1>1, <1>2, OnePeer

LEMMA PeersSnapshot ==
  ASSUME PInv, TypeOK', NEW r \in Replicas, NEW tick \in BOOLEAN, PublishSnapshot(r, tick)
  PROVE  PInv'
<1> DEFINE l == ledger[r]
           p == [Idle EXCEPT !.step = "apply", !.tick = tick, !.snapshot = now,
                             !.partial = MakePartial(l.period, l.own)]
<1>1. now' = now /\ data' = data /\ ledger' = ledger
  BY DEF PublishSnapshot
<1>2. CASE l.own # NoSpend
  <2>1. pub' = [pub EXCEPT ![r] = p] /\ ledger' = [ledger EXCEPT ![r] = l]
    BY <1>2 DEF PublishSnapshot, PInv, TypeOK
  <2>2. /\ p.step = "apply" /\ p.partial.present /\ p.partial.period = l.period
        /\ p.partial.spend = RoundSpend(l.own)
    BY DEF Idle, MakePartial
  <2>3. l.own \in Spend /\ l.period = 0 /\ PeerInv(l, pub[r], data, r)
    BY ZenonT(60), NoRollover DEF PInv
  <2>4. Below(RoundSpend(l.own), RoundSpend(l.own))
    BY ZenonT(60), <2>3, RoundMonotone, BelowItself
  <2> HIDE DEF p
  <2>5. PeerInv(l, p, data, r)
    BY Zenon, <2>2, <2>3, <2>4 DEF PeerInv, Grows
  <2> QED
    BY Zenon, <1>1, <2>1, <2>5, OnePeer
<1>3. CASE l.own = NoSpend
  <2>1. PICK q \in {[Idle EXCEPT !.step = "fold"], Idle} : pub' = [pub EXCEPT ![r] = q]
    BY <1>3, Zenon DEF PublishSnapshot
  <2>2. q.step \notin {"apply", "install"}
    BY DEF Idle
  <2> QED
    BY Zenon, <1>1, <2>1, <2>2, PublisherRests
<1> QED
  BY <1>2, <1>3

\* A publish replaces the replica's key by one that holds no less.
LEMMA PeersApplied ==
  ASSUME PInv, TypeOK', NEW r \in Replicas, PublishApplied(r)
  PROVE  PInv'
<1> DEFINE m == MarkPublished(ledger[r], pub[r].snapshot)
<1>1. /\ pub[r].step = "apply" /\ data' = [data EXCEPT ![r] = pub[r].partial] /\ now' = now
      /\ ledger' = [ledger EXCEPT ![r] = m] /\ pub' = [pub EXCEPT ![r] = AfterPublish(r)]
  BY Zenon DEF PublishApplied
<1>2. /\ data \in [Replicas -> Partial] /\ data' \in [Replicas -> Partial]
      /\ ledger[r] \in Ledger /\ PeerInv(ledger[r], pub[r], data, r)
  BY DEF PInv, TypeOK
<1>3. m.period = ledger[r].period /\ m.own = ledger[r].own /\ m.peers = ledger[r].peers
  BY <1>2 DEF MarkPublished, Ledger
<1>4. AfterPublish(r).step \notin {"apply", "install"}
  BY DEF AfterPublish, Idle
<1> HIDE DEF m
<1>5. data'[r] = pub[r].partial /\ \A k \in Replicas : k # r => data'[k] = data[k]
  BY ZenonT(60), <1>1, <1>2
<1>6. \A k \in Replicas : Grows(data[k], data'[k])
  <2>1. Grows(data[r], data'[r])
    BY ZenonT(60), <1>1, <1>2, <1>5 DEF PeerInv
  <2>2. \A k \in Replicas : Grows(data[k], data[k])
    BY ZenonT(60), <1>2, BelowItself DEF Grows, Partial
  <2> QED
    BY Zenon, <1>5, <2>1, <2>2
<1>7. ASSUME NEW s \in Replicas
      PROVE  /\ FoldPartials(data, s, 0) \in Spend /\ FoldPartials(data', s, 0) \in Spend
             /\ Below(FoldPartials(data, s, 0), FoldPartials(data', s, 0))
  BY ZenonT(60), <1>2, <1>6, FoldType, FoldMonotone
<1>8. ASSUME NEW s \in Replicas, NEW a \in Spend, Below(a, FoldPartials(data, s, 0))
      PROVE  Below(a, FoldPartials(data', s, 0))
  BY <1>7, <1>8, BelowTransitive
<1>9. ASSUME NEW s \in Replicas, s # r
      PROVE  PeerInv(ledger'[s], pub'[s], data', s)
  <2>1. ledger'[s] = ledger[s] /\ pub'[s] = pub[s] /\ data'[s] = data[s]
    BY ZenonT(60), <1>1, <1>5, <1>9 DEF PInv, TypeOK
  <2>2. ledger[s].peers \in Spend /\ pub[s].peers \in Spend /\ PeerInv(ledger[s], pub[s], data, s)
    BY ZenonT(60) DEF PInv, TypeOK, Ledger, Publisher
  <2> QED
    BY ZenonT(60), <1>8, <2>1, <2>2 DEF PeerInv
<1>10. PeerInv(ledger'[r], pub'[r], data', r)
  <2>1. ledger'[r] = m /\ pub'[r] = AfterPublish(r)
    BY ZenonT(60), <1>1 DEF PInv, TypeOK
  <2>2. m.peers \in Spend /\ Below(m.peers, FoldPartials(data, r, 0))
    BY Zenon, <1>2, <1>3 DEF PeerInv, Ledger
  <2>3. data'[r].period = 0 /\ Below(data'[r].spend, RoundSpend(m.own)) /\ m.period = 0
    BY ZenonT(60), <1>1, <1>2, <1>3, <1>5 DEF PeerInv
  <2> QED
    BY Zenon, <1>4, <1>8, <2>1, <2>2, <2>3 DEF PeerInv
<1> QED
  BY Zenon, <1>1, <1>9, <1>10 DEF PInv

LEMMA NextPeers == ASSUME WithinOnePeriod, PInv, [Next]_vars PROVE PInv'
<1>t. TypeOK /\ TypeOK' /\ now \in Nat
  BY Zenon, NextType DEF PInv, TypeOK
<1>1. ASSUME NEW r \in Replicas, NEW ns \in Namespaces, AdmitFree(r, ns) \/ AdmitReject(r, ns)
      PROVE  PInv'
  <2>1. /\ now' = now /\ data' = data /\ pub' = pub
        /\ ledger' = [ledger EXCEPT ![r] = LedgerFor(ledger[r])]
    BY Zenon, <1>1 DEF AdmitFree, AdmitReject
  <2> QED
    BY Zenon, <1>t, <2>1, NoRollover, LedgerGoesOn
<1>2. ASSUME NEW r \in Replicas, NEW ns \in Namespaces, AdmitSlot(r, ns)
      PROVE  PInv'
  <2> DEFINE l == ledger[r]
  <2>1. LedgerFor(l) = l /\ l \in Ledger
    BY Zenon, NoRollover
  <2>2. PICK raised, token, adm :
          ledger' = [ledger EXCEPT ![r] = [l EXCEPT !.marginRaised = raised, !.nextToken = token,
                                                    !.adm = adm]]
    BY ZenonT(60), <1>2, <2>1 DEF AdmitSlot
  <2>3. now' = now /\ data' = data /\ pub' = pub
    BY Zenon, <1>2 DEF AdmitSlot
  <2> DEFINE m == [l EXCEPT !.marginRaised = raised, !.nextToken = token, !.adm = adm]
  <2>4. m.period = l.period /\ m.own = l.own /\ m.peers = l.peers
    BY <2>1 DEF Ledger
  <2> HIDE DEF m
  <2> QED
    BY Zenon, <1>t, <2>2, <2>3, <2>4, NoRollover, LedgerGoesOn DEF m
<1>3. ASSUME NEW r \in Replicas, NEW ns \in Namespaces, NEW cost \in Nat, NEW loose \in BOOLEAN,
             NEW l \in Ledger, l.own = ledger[r].own, l.peers = ledger[r].peers,
             l.period = ledger[r].period, now' = now, data' = data, pub' = pub,
             ledger' = [ledger EXCEPT ![r] = Record(l, ns, cost, loose)]
      PROVE  PInv'
  <2>1. /\ Record(l, ns, cost, loose).period = l.period
        /\ Record(l, ns, cost, loose).peers = l.peers
        /\ Below(l.own, Record(l, ns, cost, loose).own)
    BY Zenon, <1>t, <1>3, RecordGrows
  <2> QED
    BY Zenon, <1>t, <1>3, <2>1, NoRollover, LedgerGoesOn
<1>u. ASSUME UNCHANGED <<now, ledger, pub, data>> PROVE PInv'
  BY <1>u, <1>t DEF PInv
<1>4. ASSUME NEW r \in Replicas, NEW ns \in Namespaces, NEW cost \in Costs, Add(r, ns, cost)
      PROVE  PInv'
  <2>1. CASE cost = 0
    BY Zenon, <1>4, <1>u, <2>1 DEF Add
  <2>2. CASE cost # 0
    <3>1. /\ now' = now /\ data' = data /\ pub' = pub /\ cost \in Nat
          /\ ledger' = [ledger EXCEPT ![r] = Record(LedgerFor(ledger[r]), ns, cost, TRUE)]
      BY Zenon, <1>4, <2>2, CostType DEF Add
    <3> QED
      BY Zenon, <1>3, <3>1, NoRollover
  <2> QED
    BY <2>1, <2>2
<1>5. ASSUME NEW r \in Replicas, NEW req \in held[r], NEW cost \in Costs, Settle(r, req, cost)
      PROVE  PInv'
  <2> DEFINE l == ledger[r]
             freed == FreeSlots(l, req)
  <2>1. LedgerFor(l) = l /\ l \in Ledger /\ req \in Request /\ cost \in Nat /\ req.ns \in Namespaces
    <3>1. ledger \in [Replicas -> Ledger] /\ held \in [Replicas -> SUBSET Request]
      BY Zenon, <1>t DEF TypeOK
    <3>2. req \in Request /\ l \in Ledger
      BY ZenonT(60), <3>1
    <3>3. req.ns \in Namespaces
      BY <3>2 DEF Request
    <3> QED
      BY Zenon, <1>t, <3>2, <3>3, NoRollover, CostType
  <2>2. freed \in Ledger /\ freed.period = l.period /\ freed.own = l.own
    BY ZenonT(60), <2>1, FreeSlotsType
  <2>3. freed.peers = l.peers
    BY <2>1 DEF FreeSlots, Ledger
  <2>4. /\ now' = now /\ data' = data /\ pub' = pub
        /\ ledger' = [ledger EXCEPT ![r] =
             IF cost = 0 THEN freed ELSE Record(freed, req.ns, cost, l.period # req.period)]
    BY ZenonT(30), <1>5, <2>1 DEF Settle
  <2> HIDE DEF freed
  <2>5. CASE cost = 0
    <3>1. ledger' = [ledger EXCEPT ![r] = freed]
      BY Zenon, <2>4, <2>5
    <3>2. /\ ledger[r].period = 0 /\ Below(ledger[r].own, ledger[r].own)
          /\ Below(ledger[r].peers, FoldPartials(data, r, 0))
      BY Zenon, NoRollover
    <3>3. /\ freed.period = 0 /\ Below(ledger[r].own, freed.own)
          /\ Below(freed.peers, FoldPartials(data, r, 0))
      BY Zenon, <2>2, <2>3, <3>2
    <3> QED
      BY ZenonT(60), <1>t, <2>4, <3>1, <3>3, LedgerGoesOn
  <2>6. CASE cost # 0
    <3>1. PICK f, loose, ns : /\ f = freed /\ loose = (l.period # req.period)
                              /\ ns = req.ns
      BY Zenon
    <3>2. ledger' = [ledger EXCEPT ![r] = Record(f, ns, cost, loose)]
      BY Zenon, <2>4, <2>6, <3>1
    <3>3. /\ f \in Ledger /\ f.own = ledger[r].own /\ f.peers = ledger[r].peers
          /\ f.period = ledger[r].period /\ ns \in Namespaces /\ loose \in BOOLEAN
      BY ZenonT(60), <2>1, <2>2, <2>3, <3>1
    <3>4. cost \in Nat /\ now' = now /\ data' = data /\ pub' = pub
      BY ZenonT(60), <2>1, <2>4
    <3> QED
      BY Zenon, <1>3, <3>2, <3>3, <3>4
  <2> QED
    BY <2>5, <2>6
<1>6. ASSUME NEW r \in Replicas, PublishFailed(r) \/ FoldFailed(r)
      PROVE  PInv'
  <2>1. PICK q \in {AfterPublish(r), Idle} : pub' = [pub EXCEPT ![r] = q]
    BY Zenon, <1>6 DEF PublishFailed, FoldFailed
  <2>2. now' = now /\ data' = data /\ ledger' = ledger
    BY Zenon, <1>6 DEF PublishFailed, FoldFailed
  <2>3. q.step \notin {"apply", "install"}
    BY DEF AfterPublish, Idle
  <2> QED
    BY Zenon, <1>t, <2>1, <2>2, <2>3, PublisherRests
<1>f. ASSUME NEW r \in Replicas
      PROVE  /\ FoldPartials(data, r, 0) \in Spend /\ PeriodKey(now) = 0
             /\ Below(FoldPartials(data, r, 0), FoldPartials(data, r, 0))
  BY ZenonT(60), <1>t, FoldType, BelowItself, NoRollover DEF TypeOK
<1>7. ASSUME NEW r \in Replicas, FoldRead(r)
      PROVE  PInv'
  <2> DEFINE peers == FoldPartials(data, r, 0)
             p == [Idle EXCEPT !.step = "install", !.peers = peers]
  <2>1. /\ pub' = [pub EXCEPT ![r] = p] /\ now' = now /\ data' = data
        /\ ledger' = [ledger EXCEPT ![r] = ledger[r]]
    BY Zenon, <1>t, <1>f, <1>7 DEF FoldRead, TypeOK
  <2> HIDE DEF peers
  <2>2. p.step = "install" /\ p.peers = peers
    BY DEF Idle
  <2> HIDE DEF p
  <2>3. PeerInv(ledger[r], p, data, r)
    BY ZenonT(60), <1>f, <2>2 DEF PInv, PeerInv, peers
  <2> QED
    BY Zenon, <1>t, <2>1, <2>3, OnePeer
<1>8. ASSUME NEW r \in Replicas, NEW peers \in Spend, Below(peers, FoldPartials(data, r, 0)),
             NEW p, p = Idle \/ p = pub[r]
      PROVE  PeerInv(FoldPeers(ledger[r], peers), p, data, r)
  <2> DEFINE l == ledger[r]
             m == [l EXCEPT !.peers = peers, !.lastFoldOK = now]
  <2>1. LedgerFor(l) = l /\ l \in Ledger /\ PeerInv(l, pub[r], data, r)
    BY ZenonT(60), NoRollover DEF PInv
  <2>2. FoldPeers(l, peers) = m
    BY <2>1 DEF FoldPeers
  <2>3. m.period = l.period /\ m.own = l.own /\ m.peers = peers
    BY <2>1 DEF Ledger
  <2>4. Idle.step = "idle"
    BY ZenonT(60) DEF Idle
  <2> HIDE DEF m, l
  <2>5. PeerInv(m, p, data, r)
    BY ZenonT(60), <1>8, <2>1, <2>3, <2>4 DEF PeerInv
  <2> QED
    BY <2>2, <2>5 DEF l
<1>9. ASSUME NEW r \in Replicas, FoldInstall(r)
      PROVE  PInv'
  <2>1. /\ pub[r].step = "install" /\ ledger' = [ledger EXCEPT ![r] = FoldPeers(ledger[r], pub[r].peers)]
        /\ pub' = [pub EXCEPT ![r] = Idle] /\ now' = now /\ data' = data
    BY Zenon, <1>9 DEF FoldInstall
  <2>2. pub[r].peers \in Spend /\ Below(pub[r].peers, FoldPartials(data, r, 0))
    BY Zenon, <2>1 DEF PInv, TypeOK, Publisher, PeerInv
  <2>3. PeerInv(FoldPeers(ledger[r], pub[r].peers), Idle, data, r)
    BY Zenon, <1>8, <2>2
  <2> QED
    BY Zenon, <1>t, <2>1, <2>3, OnePeer
<1>10. ASSUME NEW r \in Replicas, WatchFold(r)
       PROVE  PInv'
  <2>1. /\ ledger' = [ledger EXCEPT ![r] = FoldPeers(ledger[r], FoldPartials(data, r, 0))]
        /\ now' = now /\ data' = data
    BY Zenon, <1>10, <1>f DEF WatchFold
  <2>2. pub' = [pub EXCEPT ![r] = pub[r]]
    BY ZenonT(60), <1>10, <1>t DEF WatchFold, TypeOK
  <2>3. PeerInv(FoldPeers(ledger[r], FoldPartials(data, r, 0)), pub[r], data, r)
    BY Zenon, <1>8, <1>f
  <2> QED
    BY Zenon, <1>t, <2>1, <2>2, <2>3, OnePeer
<1>11. CASE Tick
  <2>1. now' < PeriodLength /\ UNCHANGED <<ledger, pub, data>>
    BY <1>11, <1>t, PartialsAssumption, HardBudgetAssumption DEF Tick, WithinOnePeriod
  <2> QED
    BY <1>t, <2>1 DEF PInv
<1>12. CASE UNCHANGED vars
  BY <1>12, <1>u DEF vars
<1> QED
  BY ZenonT(30), <1>t, <1>1, <1>2, <1>4, <1>5, <1>6, <1>7, <1>9, <1>10, <1>11, <1>12,
     PeersSnapshot, PeersApplied DEF Next, SettleSome

\* FoldPartials and FoldPeers (budget.go), for any number of replicas and
\* namespaces, costs, failed and delayed publishes: as long as the period does not
\* roll over, no replica's peer view holds more than its peers have published.
THEOREM PeersPublished ==
  ASSUME WithinOnePeriod PROVE Spec => []PeersWerePublished
<1>1. PInv => PeersWerePublished
  <2> SUFFICES ASSUME PInv, NEW r \in Replicas, NEW ns \in Namespaces
               PROVE  ledger[r].peers[ns]
                        <= SumPartials(data, KeysOf(data, Replicas \ {r}, ledger[r].period))[ns]
    BY ZenonT(60) DEF PeersWerePublished
  <2>1. DOMAIN data = Replicas /\ ledger[r].period = 0
        /\ Below(ledger[r].peers, FoldPartials(data, r, 0))
    BY Zenon DEF PInv, TypeOK, PeerInv
  <2> QED
    BY ZenonT(60), <2>1 DEF Below, FoldPartials
<1>2. Init => PInv
  BY InitPeers
<1>3. PInv /\ [Next]_vars => PInv'
  BY NextPeers
<1> QED
  BY <1>1, <1>2, <1>3, PTL DEF Spec
=============================================================================
