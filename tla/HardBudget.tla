----------------------------- MODULE HardBudget -----------------------------
(***************************************************************************)
(* Budget enforcement on the LLM path for one ModelProvider: the ledger of *)
(* every gateway replica, admission (soft, and hard with its serialized    *)
(* boundary region), settlement of the actual cost, and the publisher that *)
(* exchanges partials through the budget ConfigMap.                        *)
(*                                                                         *)
(* Each operation under the ledger mutex is one action.  The publisher     *)
(* goroutine releases the mutex while it talks to the API server, so a     *)
(* publish and a fold take two steps each.  Clock reads of one replica     *)
(* that happen in a fixed order return increasing times.                   *)
(***************************************************************************)
EXTENDS BudgetPartials, FiniteSetsExt, Sequences

CONSTANTS
  Replicas,         \* gateway Pods
  Cluster,          \* clusterSlotKey, distinct from every namespace
  NsUSD,            \* perNamespaceUSD, 0 when unset
  ClusterUSD,       \* clusterUSD, 0 when unset
  Policies,         \* sequence of [at, action]
  MarginPercent,    \* hard.boundaryMarginPercent
  Hard,             \* spec.budget.enforcement = hard
  StalenessWindow,  \* three publish intervals
  BucketWidth,      \* rateBucketWidth
  Costs,            \* what one call may turn out to cost
  MaxCost,          \* the largest of them
  MaxRunning,       \* bound: concurrent requests without a slot, per namespace
  MaxTime,          \* bound: clock
  MaxToken          \* bound: boundary admissions per replica

ASSUME HardBudgetAssumption ==
  /\ IsFiniteSet(Replicas)
  /\ Cluster \notin Namespaces
  /\ Costs \subseteq 0..MaxCost
  /\ {NsUSD, ClusterUSD, MarginPercent, MaxCost, MaxRunning, MaxTime, MaxToken,
      StalenessWindow} \subseteq Nat
  /\ BucketWidth \in Nat \ {0}
  /\ Hard \in BOOLEAN
  /\ Policies \in Seq([at : 0..100, action : {"warn", "degrade", "block"}])
  /\ Policies # <<>>

VARIABLES
  now,      \* the clock, 0 is time.Time{}
  ledger,   \* providerLedger of each replica
  running,  \* requests in flight without a slot, per replica and namespace
  held,     \* requests in flight that hold boundary slots, per replica
  pub,      \* the publisher goroutine of each replica
  kick,     \* a settle-publish is queued on the kick channel
  data      \* the budget ConfigMap: one partial per replica

vars == <<now, ledger, running, held, pub, kick, data>>

SlotKeys == Namespaces \cup {Cluster}
Larger(a, b) == IF a > b THEN a ELSE b

\* adm maps a slot key to the token of its holder, 0 for a free slot.  The
\* field loose is a ghost: the spend of this period that was not settled
\* through a slot held in this period.
Ledger == [period : Nat, own : Spend, peers : Spend, adm : [SlotKeys -> Nat],
           nextToken : Nat, maxCost : Nat, rateStart : Nat, rateSum : Nat,
           peakRate : Nat, dirtySince : Nat, lastFoldOK : Nat,
           marginRaised : BOOLEAN, loose : Spend]

Request == [ns : Namespaces, keys : SUBSET SlotKeys, token : Nat, period : Nat]

Publisher == [step : {"idle", "apply", "fold", "install"}, tick : BOOLEAN,
              snapshot : Nat, partial : Partial, peers : Spend]

Idle == [step |-> "idle", tick |-> FALSE, snapshot |-> 0,
         partial |-> NoPartial, peers |-> NoSpend]

FreshLedger ==
  [period |-> PeriodKey(now), own |-> NoSpend, peers |-> NoSpend,
   adm |-> [k \in SlotKeys |-> 0], nextToken |-> 0, maxCost |-> 0,
   rateStart |-> 0, rateSum |-> 0, peakRate |-> 0, dirtySince |-> 0,
   lastFoldOK |-> 0, marginRaised |-> FALSE, loose |-> NoSpend]

\* ledgerFor: a crossed period boundary resets every counter and slot of the
\* period; the tokens and the two staleness signals survive.
LedgerFor(l) ==
  IF l.period = PeriodKey(now)
  THEN l
  ELSE [FreshLedger EXCEPT !.nextToken = l.nextToken,
                           !.dirtySince = l.dirtySince,
                           !.lastFoldOK = l.lastFoldOK]
-----------------------------------------------------------------------------
(* The enforcement decision *)

NsSpent(l, ns) == l.own[ns] + l.peers[ns]
ClusterSpent(l) == Total(l.own, Namespaces) + Total(l.peers, Namespaces)

\* Mutant: the threshold has to be exceeded.
NsReachesAbove(l, ns, at) == NsUSD > 0 /\ 100 * NsSpent(l, ns) > at * NsUSD

NsReaches(l, ns, at) == NsUSD > 0 /\ 100 * NsSpent(l, ns) >= at * NsUSD
ClusterReaches(l, at) == ClusterUSD > 0 /\ 100 * ClusterSpent(l) >= at * ClusterUSD

\* The worse of the two utilizations is at or above the threshold.
Reaches(l, ns, at) == at = 0 \/ NsReaches(l, ns, at) \/ ClusterReaches(l, at)

\* decide: the highest threshold reached wins, the earliest policy on a tie.
Decides(l, ns, action) ==
  LET fired == {i \in DOMAIN Policies : Reaches(l, ns, Policies[i].at)}
  IN \E i \in fired :
       /\ Policies[i].action = action
       /\ \A j \in fired : \/ Policies[j].at < Policies[i].at
                           \/ Policies[j].at = Policies[i].at /\ i <= j

BlockPolicies == {i \in DOMAIN Policies : Policies[i].action = "block"}
HardActive == Hard /\ BlockPolicies # {}
MinBlockAt == Min({101} \cup {Policies[i].at : i \in BlockPolicies})

\* The effective margin below a ceiling, in percent times dollars.
Margin(l, ceiling) ==
  LET reps == Larger(Cardinality(Replicas), 1)
  IN Larger(MarginPercent * ceiling,
            100 * (reps * l.maxCost
                   + ((reps - 1) * l.peakRate * StalenessWindow) \div BucketWidth))

InBoundary(l, spent, ceiling) ==
  ceiling > 0 /\ 100 * spent + Margin(l, ceiling) >= MinBlockAt * ceiling

\* The governed ceilings whose boundary region the request is in.
BoundaryKeys(l, ns) ==
  {k \in {ns} : InBoundary(l, NsSpent(l, ns), NsUSD)}
    \cup {k \in {Cluster} : InBoundary(l, ClusterSpent(l), ClusterUSD)}

CeilingOf(k) == IF k = Cluster THEN ClusterUSD ELSE NsUSD

\* A held slot throttles, whatever the utilization has become since.
Throttled(l, ns) == l.adm[ns] # 0 \/ (l.adm[Cluster] # 0 /\ ClusterUSD > 0)

StaleWrite(l) == l.dirtySince # 0 /\ now - l.dirtySince > StalenessWindow
StaleRead(l) == l.lastFoldOK = 0 \/ now - l.lastFoldOK > StalenessWindow
Unverifiable(l) == StaleWrite(l) \/ StaleRead(l)
-----------------------------------------------------------------------------
(* Requests *)

\* Admit without a slot: soft mode, or outside every boundary region.
AdmitFree(r, ns) ==
  LET l == LedgerFor(ledger[r])
  IN /\ running[r][ns] < MaxRunning
     /\ ~Decides(l, ns, "block")
     /\ HardActive => ~Throttled(l, ns) /\ BoundaryKeys(l, ns) = {}
     /\ ledger' = [ledger EXCEPT ![r] = l]
     /\ running' = [running EXCEPT ![r][ns] = @ + 1]
     /\ UNCHANGED <<now, held, pub, kick, data>>

\* Admit inside a boundary region: take every governed slot in one step.
AdmitSlot(r, ns) ==
  LET l == LedgerFor(ledger[r])
      keys == BoundaryKeys(l, ns)
      token == l.nextToken + 1
      widened == \E k \in keys : Margin(l, CeilingOf(k)) > MarginPercent * CeilingOf(k)
  IN /\ HardActive
     /\ token <= MaxToken
     /\ ~Decides(l, ns, "block")
     /\ ~Throttled(l, ns)
     /\ keys # {}
     /\ ~Unverifiable(l)
     /\ ledger' = [ledger EXCEPT ![r] =
          [l EXCEPT !.marginRaised = @ \/ widened,
                    !.nextToken = token,
                    !.adm = [k \in SlotKeys |-> IF k \in keys THEN token ELSE l.adm[k]]]]
     /\ held' = [held EXCEPT ![r] = @ \cup
          {[ns |-> ns, keys |-> keys, token |-> token, period |-> l.period]}]
     /\ UNCHANGED <<now, running, pub, kick, data>>

\* Blocked, throttled or failed closed: only the rollover is left behind.
AdmitReject(r, ns) ==
  LET l == LedgerFor(ledger[r])
  IN /\ \/ Decides(l, ns, "block")
        \/ HardActive /\ Throttled(l, ns)
        \/ HardActive /\ BoundaryKeys(l, ns) # {} /\ Unverifiable(l)
     /\ ledger' = [ledger EXCEPT ![r] = l]
     /\ UNCHANGED <<now, running, held, pub, kick, data>>

\* trackLocked: the largest call and the busiest bucket of the period.
Track(l, cost) ==
  LET fresh == l.rateStart = 0 \/ now - l.rateStart >= BucketWidth
  IN [l EXCEPT !.maxCost = Larger(l.maxCost, cost),
               !.peakRate = IF fresh THEN Larger(l.peakRate, l.rateSum)
                            ELSE l.peakRate,
               !.rateStart = IF fresh THEN now ELSE l.rateStart,
               !.rateSum = IF fresh THEN cost ELSE l.rateSum + cost]

\* A cost lands on the counters and the write path becomes dirty.
Record(l, ns, cost, isLoose) ==
  [Track(l, cost) EXCEPT
     !.own = [l.own EXCEPT ![ns] = @ + cost],
     !.dirtySince = IF l.dirtySince = 0 THEN now ELSE l.dirtySince,
     !.loose = IF isLoose THEN [l.loose EXCEPT ![ns] = @ + cost] ELSE l.loose]

\* The clock moves between a publish snapshot and a later settle.
ClockPassed(r) == pub[r].step = "apply" => pub[r].snapshot < now

\* A request without a slot completes: BudgetLedger.Add.
Add(r, ns, cost) ==
  /\ running[r][ns] > 0
  /\ ClockPassed(r)
  /\ running' = [running EXCEPT ![r][ns] = @ - 1]
  /\ ledger' = IF cost = 0 THEN ledger
               ELSE [ledger EXCEPT ![r] = Record(LedgerFor(@), ns, cost, TRUE)]
  /\ UNCHANGED <<now, held, pub, kick, data>>

\* Mutant: the slots are not freed.
FreeSlotsLater(l, req) == l

\* A slot holder completes: its slots free and its cost lands in one critical
\* section, then the publisher is kicked.  After a rollover the slots are gone
\* already and the cost lands in the new period.
FreeSlots(l, req) ==
  IF l.period = req.period
  THEN [l EXCEPT !.adm = [k \in SlotKeys |->
          IF k \in req.keys /\ l.adm[k] = req.token THEN 0 ELSE l.adm[k]]]
  ELSE l

\* Mutant: the kick is sent first, and blocks while an earlier one is pending.
SettleAwaitsKick(r, req, cost) ==
  LET freed == FreeSlots(LedgerFor(ledger[r]), req)
  IN /\ req \in held[r]
     /\ ClockPassed(r)
     /\ ~kick[r]
     /\ held' = [held EXCEPT ![r] = @ \ {req}]
     /\ ledger' = [ledger EXCEPT ![r] =
          IF cost = 0 THEN freed
          ELSE Record(freed, req.ns, cost, freed.period # req.period)]
     /\ kick' = [kick EXCEPT ![r] = cost # 0]
     /\ UNCHANGED <<now, running, pub, data>>

Settle(r, req, cost) ==
  LET l == LedgerFor(ledger[r])
      freed == FreeSlots(l, req)
  IN /\ req \in held[r]
     /\ ClockPassed(r)
     /\ held' = [held EXCEPT ![r] = @ \ {req}]
     /\ ledger' = [ledger EXCEPT ![r] =
          IF cost = 0 THEN freed
          ELSE Record(freed, req.ns, cost, l.period # req.period)]
     /\ kick' = [kick EXCEPT ![r] = @ \/ cost # 0]
     /\ UNCHANGED <<now, running, pub, data>>
-----------------------------------------------------------------------------
(* The publisher goroutine *)

\* publish: read the clock, snapshot the counters (without a rollover).  With
\* nothing to publish a tick goes on to its fold, a kick is over.
PublishSnapshot(r, tick) ==
  /\ pub[r].step = "idle"
  /\ tick \/ kick[r]
  /\ kick' = [kick EXCEPT ![r] = tick /\ @]
  /\ pub' = [pub EXCEPT ![r] =
       IF ledger[r].own # NoSpend
       THEN [Idle EXCEPT !.step = "apply", !.tick = tick, !.snapshot = now,
                         !.partial = MakePartial(ledger[r].period, ledger[r].own)]
       ELSE IF tick THEN [Idle EXCEPT !.step = "fold"] ELSE Idle]
  /\ UNCHANGED <<now, ledger, running, held, data>>

AfterPublish(r) == [Idle EXCEPT !.step = IF pub[r].tick THEN "fold" ELSE "idle"]

\* MarkPublished: clear the write-path signal unless it is newer than the
\* snapshot.
MarkPublished(l, snapshot) ==
  IF l.dirtySince <= snapshot THEN [l EXCEPT !.dirtySince = 0] ELSE l

PublishApplied(r) ==
  /\ pub[r].step = "apply"
  /\ data' = [data EXCEPT ![r] = pub[r].partial]
  /\ ledger' = [ledger EXCEPT ![r] = MarkPublished(@, pub[r].snapshot)]
  /\ pub' = [pub EXCEPT ![r] = AfterPublish(r)]
  /\ UNCHANGED <<now, running, held, kick>>

PublishFailed(r) ==
  /\ pub[r].step = "apply"
  /\ pub' = [pub EXCEPT ![r] = AfterPublish(r)]
  /\ UNCHANGED <<now, ledger, running, held, kick, data>>

\* fold on the tick: read and sum the ConfigMap ...
FoldRead(r) ==
  /\ pub[r].step = "fold"
  /\ pub' = [pub EXCEPT ![r] =
       [Idle EXCEPT !.step = "install", !.peers = FoldPartials(data, r, PeriodKey(now))]]
  /\ UNCHANGED <<now, ledger, running, held, kick, data>>

FoldFailed(r) ==
  /\ pub[r].step = "fold"
  /\ pub' = [pub EXCEPT ![r] = Idle]
  /\ UNCHANGED <<now, ledger, running, held, kick, data>>

\* ... then install it: FoldPeers.
FoldPeers(l, peers) == [LedgerFor(l) EXCEPT !.peers = peers, !.lastFoldOK = now]

FoldInstall(r) ==
  /\ pub[r].step = "install"
  /\ ledger' = [ledger EXCEPT ![r] = FoldPeers(@, pub[r].peers)]
  /\ pub' = [pub EXCEPT ![r] = Idle]
  /\ UNCHANGED <<now, running, held, kick, data>>

\* FoldBudgetConfigMapEvent: a watch event refolds at once.
WatchFold(r) ==
  /\ \E k \in Replicas : data[k].present
  /\ ledger' = [ledger EXCEPT ![r] =
       FoldPeers(@, FoldPartials(data, r, PeriodKey(now)))]
  /\ UNCHANGED <<now, running, held, pub, kick, data>>

Tick ==
  /\ now < MaxTime
  /\ now' = now + 1
  /\ UNCHANGED <<ledger, running, held, pub, kick, data>>
-----------------------------------------------------------------------------
Init ==
  /\ now = 1
  /\ ledger = [r \in Replicas |-> FreshLedger]
  /\ running = [r \in Replicas |-> [ns \in Namespaces |-> 0]]
  /\ held = [r \in Replicas |-> {}]
  /\ pub = [r \in Replicas |-> Idle]
  /\ kick = [r \in Replicas |-> FALSE]
  /\ data = [r \in Replicas |-> NoPartial]

SettleSome(r) == \E req \in held[r], cost \in Costs : Settle(r, req, cost)

Next ==
  \/ \E r \in Replicas, ns \in Namespaces :
       \/ AdmitFree(r, ns)
       \/ AdmitSlot(r, ns)
       \/ AdmitReject(r, ns)
       \/ \E cost \in Costs : Add(r, ns, cost)
  \/ \E r \in Replicas :
       \/ SettleSome(r)
       \/ \E tick \in BOOLEAN : PublishSnapshot(r, tick)
       \/ PublishApplied(r)
       \/ PublishFailed(r)
       \/ FoldRead(r)
       \/ FoldFailed(r)
       \/ FoldInstall(r)
       \/ WatchFold(r)
  \/ Tick

Spec == Init /\ [][Next]_vars

\* Every handler returns (each upstream call has a timeout) and settles in a
\* defer; strong fairness, because the model makes a settle wait for the clock
\* to pass a publish snapshot.  An Apply call returns, with or without error.
Fairness ==
  /\ WF_vars(Tick)
  /\ \A r \in Replicas :
       /\ SF_vars(SettleSome(r))
       /\ WF_vars(PublishApplied(r) \/ PublishFailed(r))

FairSpec == Spec /\ Fairness

-----------------------------------------------------------------------------
(* Properties *)

\* Type invariant; no counter of a ledger goes negative.
TypeOK ==
  /\ now \in Nat
  /\ ledger \in [Replicas -> Ledger]
  /\ running \in [Replicas -> [Namespaces -> Nat]]
  /\ held \in [Replicas -> SUBSET Request]
  /\ pub \in [Replicas -> Publisher]
  /\ kick \in [Replicas -> BOOLEAN]
  /\ data \in [Replicas -> Partial]

\* The requests of a replica whose slots belong to the ledger's period.
Holders(r) == {req \in held[r] : req.period = ledger[r].period}

\* Serialized admission (Admit, settle): a slot is held exactly while the one
\* in-flight request that took it is unsettled.  No slot is shared by two
\* requests, and no slot outlives its request, which would throttle the
\* namespace for the rest of the period.
SlotsMatchHolders ==
  \A r \in Replicas, k \in SlotKeys :
    /\ \A req \in Holders(r) : k \in req.keys => ledger[r].adm[k] = req.token
    /\ ledger[r].adm[k] # 0 =>
         \E req \in Holders(r) : k \in req.keys /\ req.token = ledger[r].adm[k]

\* Inside the boundary region a replica has at most one request of a namespace
\* in flight, and with a cluster ceiling at most one that holds its slot, even
\* when a fold moves utilization across the boundary while requests run.
OneHolderPerCeiling ==
  \A r \in Replicas : \A p, q \in Holders(r) :
    p # q => p.ns # q.ns /\ p.keys \cap q.keys = {}

\* No warn or degrade policy sits at or above the lowest block threshold; the
\* API does not ask for this.
BlocksOnTop ==
  \A i \in DOMAIN Policies :
    Policies[i].at >= MinBlockAt => Policies[i].action = "block"

\* The ladder of the documentation's examples, for instances of Policies.
ExamplePolicies == <<[at |-> 50, action |-> "warn"], [at |-> 100, action |-> "block"]>>

\* The cap of hard mode: what a replica settles through boundary slots in one
\* period stays below the lowest block threshold plus one call, because the
\* next admission sees the previous request's real cost.  Spend admitted
\* outside the region (loose) is what the margin has to cover.
SerializedSpendCapped ==
  HardActive /\ NsUSD > 0 =>
    \A r \in Replicas, ns \in Namespaces :
      LET serial == ledger[r].own[ns] - ledger[r].loose[ns]
      IN serial > 0 => 100 * serial < MinBlockAt * NsUSD + 100 * MaxCost

\* FoldPartials skips the replica's own key and other periods' keys: the peer
\* view never holds more than the peers have published for the period, so own
\* spend is not counted twice (periods without a rollover in between).
PeersWerePublished ==
  \A r \in Replicas, ns \in Namespaces :
    LET others == KeysOf(data, Replicas \ {r}, ledger[r].period)
    IN ledger[r].peers[ns] <= SumPartials(data, others)[ns]

\* Every slot taken in the boundary region is given back: once the requests
\* cease, as they do when MaxToken is used up, no ceiling stays held, so a
\* throttled namespace is not throttled for good.
SlotReleased ==
  <>[](\A r \in Replicas, k \in SlotKeys : ledger[r].adm[k] = 0)

\* The replica refuses a namespace because of its write-path signal.
FailsClosedOnWrite(r, ns) ==
  LET l == LedgerFor(ledger[r])
  IN /\ HardActive /\ ~Decides(l, ns, "block") /\ ~Throttled(l, ns)
     /\ BoundaryKeys(l, ns) # {} /\ StaleWrite(l)

\* "Recovery is automatic on the first successful publish or fold": a replica
\* that has nothing left to publish does not fail closed on its write path
\* once its tick has ended with a successful fold of the current partials.
FoldRecovers ==
  [][\A r \in Replicas, ns \in Namespaces :
       (/\ pub[r].step = "install" /\ pub'[r] = Idle
        /\ pub[r].peers = FoldPartials(data, r, PeriodKey(now))
        /\ ledger'[r].own = NoSpend)
         => ~FailsClosedOnWrite(r, ns)']_vars
=============================================================================
