--------------------------- MODULE BudgetExchange ---------------------------
(***************************************************************************)
(* The exchange of spend between gateway Pods over their whole life: they  *)
(* start, publish partials, fold those of the others, terminate and are    *)
(* replaced, while the ModelProviderReconciler prunes the keys of Pods     *)
(* that are gone into _retired, writes _canonical, archives old periods    *)
(* and reports usage.                                                      *)
(*                                                                         *)
(* Admission is not part of it (see HardBudget), and a publish is one      *)
(* step.  A reducer pass lists the Pods and reads the ConfigMap, updates   *)
(* it under its resource version, and writes the status.  The list and the *)
(* read are one step: a new Pod publishes no sooner than a tick after it   *)
(* appears.                                                                *)
(***************************************************************************)
EXTENDS BudgetPartials

CONSTANTS
  Pods,       \* names of gateway Pods, each used once
  Retired,    \* RetiredKey, distinct from every Pod name
  Cost,       \* what a call costs
  MaxSpend,   \* bound: what a Pod spends in a namespace and period
  MaxTime,    \* bound: clock
  MaxFaults   \* bound: restarts in place and publishes of terminating Pods

\* What the constants must be.
BudgetExchangeAssumption ==
  /\ IsFiniteSet(Pods) /\ Retired \notin Pods
  /\ {MaxSpend, MaxTime, MaxFaults} \subseteq Nat /\ Cost \in Nat \ {0}

VARIABLES
  now,       \* the clock
  pod,       \* each Pod: its state and its ledger
  created,   \* the ConfigMap exists
  data,      \* the partials in the ConfigMap, by key
  canonical, \* its _canonical key
  usage,     \* status.budgetUsage: spend by period
  pass,      \* the reducer pass under way
  published, \* history: what each Pod has published in a period
  late,      \* history: publishes of terminating Pods
  restarts   \* history: restarts in place

vars == <<now, pod, created, data, canonical, usage, pass, published, late, restarts>>
clusterVars == <<now, late, restarts>>

Keys == Pods \cup {Retired}
Now == PeriodKey(now)
Plus(s, t) == [ns \in Namespaces |-> s[ns] + t[ns]]

NoUsage == [period |-> 0, spend |-> NoSpend, archived |-> {}, archive |-> NoSpend]

Idle == [at |-> "idle", read |-> [k \in Keys |-> NoPartial], canonical |-> NoSpend,
         new |-> [k \in Keys |-> NoPartial], usage |-> NoUsage]

\* prior counts the incarnations of the Pod before its last restart.
NoHistory == [period |-> 0, prior |-> NoSpend, last |-> NoSpend]

-----------------------------------------------------------------------------
(* Gateway Pods *)

Serving(p) == pod[p].state \in {"live", "terminating"}

LedgerFor(l) ==
  IF l.period = Now THEN l
  ELSE [l EXCEPT !.period = Now, !.own = NoSpend, !.peers = NoSpend]

\* SeedFromCanonical on an empty ledger.
Seeded == [state |-> "live", period |-> Now, own |-> NoSpend, peers |-> canonical]

Start(p) ==
  /\ pod[p].state = "none"
  /\ pod' = [pod EXCEPT ![p] = Seeded]
  /\ UNCHANGED <<created, data, canonical, usage, pass, published, clusterVars>>

\* The container restarts in its Pod: the ledger is gone, the key stays.
Restart(p) ==
  /\ pod[p].state = "live" /\ late + restarts < MaxFaults
  /\ restarts' = restarts + 1
  /\ pod' = [pod EXCEPT ![p] = Seeded]
  /\ published' = [published EXCEPT ![p].prior = Plus(@, published[p].last),
                                    ![p].last = NoSpend]
  /\ UNCHANGED <<now, created, data, canonical, usage, pass, late>>

Add(p, ns) ==
  LET l == LedgerFor(pod[p])
  IN /\ Serving(p)
     /\ l.own[ns] + Cost <= MaxSpend
     /\ pod' = [pod EXCEPT ![p] = [l EXCEPT !.own[ns] = @ + Cost]]
     /\ UNCHANGED <<created, data, canonical, usage, pass, published, clusterVars>>

\* publish, without a rollover; a terminating Pod may still get to it.
Publish(p) ==
  LET partial == MakePartial(pod[p].period, pod[p].own)
      h == published[p]
  IN /\ Serving(p) /\ pod[p].own # NoSpend
     /\ created' = TRUE
     /\ data' = [data EXCEPT ![p] = partial]
     /\ published' = [published EXCEPT ![p] =
          [period |-> partial.period, last |-> partial.spend,
           prior |-> IF h.period = partial.period THEN h.prior ELSE NoSpend]]
     /\ late' = IF pod[p].state = "terminating" THEN late + 1 ELSE late
     /\ late' + restarts <= MaxFaults
     /\ UNCHANGED <<now, pod, canonical, usage, pass, restarts>>

\* FoldPeers, on the tick or on a watch event: the view is replaced.
Fold(p) ==
  /\ Serving(p)
  /\ pod' = [pod EXCEPT ![p] = [LedgerFor(@) EXCEPT
       !.peers = FoldPartials(data, p, Now)]]
  /\ UNCHANGED <<created, data, canonical, usage, pass, published, clusterVars>>

Terminate(p) ==
  /\ pod[p].state = "live"
  /\ pod' = [pod EXCEPT ![p].state = "terminating"]
  /\ UNCHANGED <<created, data, canonical, usage, pass, published, clusterVars>>

Stop(p) ==
  /\ pod[p].state = "terminating"
  /\ pod' = [pod EXCEPT ![p].state = "gone"]
  /\ UNCHANGED <<created, data, canonical, usage, pass, published, clusterVars>>

-----------------------------------------------------------------------------
(* The reducer *)

\* gatewayPods: the Pods that are not being deleted.
Live == {p \in Pods : pod[p].state = "live"}

\* Current-period keys of Pods that are not live, and keys of other periods.
Pruned == KeysOf(data, Pods \ Live, Now)
Stale == {k \in Keys : data[k].present /\ data[k].period # Now}

\* Mutant: a pruned key is retired and left in place.
FoldedTwice ==
  [k \in Keys |->
     CASE k = Retired /\ Pruned # {} ->
            MakePartial(Now, SumPartials(data, KeysOf(data, {Retired}, Now) \cup Pruned))
       [] k = Retired /\ Pruned = {} -> IF k \in Stale THEN NoPartial ELSE data[k]
       [] k # Retired -> IF k \in Stale THEN NoPartial ELSE data[k]]

\* foldBudgetKeys on the keys: pruned spend moves to _retired, stale keys go.
FoldedKeys ==
  [k \in Keys |->
     CASE k = Retired /\ Pruned # {} ->
            MakePartial(Now, SumPartials(data, KeysOf(data, {Retired}, Now) \cup Pruned))
       [] k = Retired /\ Pruned = {} -> IF k \in Stale THEN NoPartial ELSE data[k]
       [] k # Retired -> IF k \in Stale \cup Pruned THEN NoPartial ELSE data[k]]

\* Current usage is live plus retired; what is stale is summed under the tag of
\* whichever stale key came last.
FoldedUsage(tags) ==
  [period |-> Now, spend |-> SumPartials(data, KeysOf(data, Keys, Now)),
   archived |-> tags, archive |-> SumPartials(data, Stale)]

ReduceRead ==
  /\ pass.at = "idle"
  /\ created
  /\ \E tags \in IF Stale = {} THEN {{}} ELSE {{data[k].period} : k \in Stale} :
       pass' = [at |-> "update", read |-> data, canonical |-> canonical,
                new |-> FoldedKeys, usage |-> FoldedUsage(tags)]
  /\ UNCHANGED <<pod, created, data, canonical, usage, published, clusterVars>>

\* The ConfigMap is updated if anything changed; refused if it moved meanwhile.
ReduceUpdate ==
  LET changed == pass.new # pass.read \/ RoundSpend(pass.usage.spend) # pass.canonical
  IN /\ pass.at = "update"
     /\ IF changed /\ <<data, canonical>> # <<pass.read, pass.canonical>>
        THEN pass' = Idle /\ UNCHANGED <<data, canonical>>
        ELSE /\ pass' = [pass EXCEPT !.at = "status"]
             /\ data' = IF changed THEN pass.new ELSE data
             /\ canonical' = IF changed THEN RoundSpend(pass.usage.spend) ELSE canonical
     /\ UNCHANGED <<pod, created, usage, published, clusterVars>>

ReduceStatus ==
  /\ pass.at = "status"
  /\ usage' = pass.usage
  /\ pass' = Idle
  /\ UNCHANGED <<pod, created, data, canonical, published, clusterVars>>

\* A later call of the pass fails, or the controller restarts.
Interrupt ==
  /\ pass.at # "idle"
  /\ pass' = Idle
  /\ UNCHANGED <<pod, created, data, canonical, usage, published, clusterVars>>

Tick ==
  /\ now < MaxTime
  /\ now' = now + 1
  /\ UNCHANGED <<pod, created, data, canonical, usage, pass, published, late, restarts>>

-----------------------------------------------------------------------------
Init ==
  /\ now = 1
  /\ pod = [p \in Pods |-> [state |-> "none", period |-> 0, own |-> NoSpend,
                            peers |-> NoSpend]]
  /\ created = FALSE
  /\ data = [k \in Keys |-> NoPartial]
  /\ canonical = NoSpend
  /\ usage = NoUsage
  /\ pass = Idle
  /\ published = [p \in Pods |-> NoHistory]
  /\ late = 0
  /\ restarts = 0

Next ==
  \/ \E p \in Pods :
       \/ Start(p) \/ Restart(p) \/ Terminate(p) \/ Stop(p)
       \/ \E ns \in Namespaces : Add(p, ns)
       \/ Publish(p) \/ Fold(p)
  \/ ReduceRead \/ ReduceUpdate \/ ReduceStatus \/ Interrupt
  \/ Tick

Spec == Init /\ [][Next]_vars

-----------------------------------------------------------------------------
(* Properties *)

\* What all Pods, dead or alive, have published in the current period, and what
\* the ConfigMap says they have.
PublishedNow(ns) ==
  Total([p \in Pods |-> IF published[p].period = Now
                        THEN published[p].prior[ns] + published[p].last[ns]
                        ELSE 0], Pods)
RecordedNow(ns) == SumPartials(data, KeysOf(data, Keys, Now))[ns]

\* The ConfigMap accounts for what Pods have published in the period, through
\* scale-downs, rollouts, pruning, rollovers and interrupted passes that race
\* publishes.  Deleting a key does not delete the spend it recorded (no container
\* restarts in place), and the fold into _retired does not count it twice (no
\* Pod publishes once it is terminating, or it would be folded each time).
PublishedSpendAccounted ==
  \A ns \in Namespaces :
    /\ restarts = 0 => RecordedNow(ns) >= PublishedNow(ns)
    /\ late = 0 => RecordedNow(ns) <= PublishedNow(ns)

\* "A restarting replica seeds from _canonical and folds live partials on top":
\* whatever restarts, the view a replica has after a fold covers all spend
\* published in the period, so that a ceiling is never judged too low.
ViewCoversPublished ==
  [][\A p \in Pods, ns \in Namespaces :
       Fold(p) => Cents(pod'[p].own[ns]) + pod'[p].peers[ns] >= PublishedNow(ns)]_vars
=============================================================================
