----------------------------- MODULE Catalogue -----------------------------
(***************************************************************************)
(* The reconcilers of the cluster-scoped catalogue: ModelProvider,         *)
(* ToolProvider and AgentClass (internal/controller).  One object of each  *)
(* kind is followed, with the workloads that reference it, the credential  *)
(* Secret both providers name and the ModelProvider's fallback.  The API   *)
(* server holds api; every kind has an informer whose cache lags behind    *)
(* it; an event delivered to the cache enqueues what the map functions of  *)
(* SetupWithManager name.  A reconcile reads the caches only and writes    *)
(* with optimistic concurrency, so that it fails (and is retried) when the *)
(* copy it read is not the one the API server has.                         *)
(***************************************************************************)
EXTENDS Naturals, FiniteSets

CONSTANTS Workloads,      \* Agents and AgentTasks that may reference the catalogue
          Settings        \* the specs examined: kinds of objects, probing, spend tracking,
                          \* hosts, mistakes; bound, edits: what users, upstreams and
                          \* the process may do to them

VARIABLES
    api,        \* kind -> the object the API server has
    cache,      \* kind -> the copy the controller's informer has
    queue,      \* the work queue: names waiting for a reconcile
    timed,      \* names with a RequeueAfter pending
    upstream,   \* what a probe of either provider's endpoint answers
    cni,        \* whether the cluster's CNI enforces FQDN policies
    probedCNI,  \* the reconciler's cached answer, "no" before the first look
    setting,    \* frozen: the spec fields that no edit of this model changes
    left        \* disturbances left

vars == <<api, cache, queue, timed, upstream, cni, probedCNI, setting, left>>

Providers == {"model", "tool"}
Held == Providers \cup {"class"}             \* the kinds with a finalizer
Referrers == Workloads \cup {"class"}        \* the kinds that may name a provider
Kinds == Held \cup Workloads \cup {"secret", "child"}

\* What the constants must be: a workload is none of the other kinds.
CatalogueAssumption == Workloads \cap (Held \cup {"secret", "child"}) = {}

\* What an object of a kind may reference: a workload its class and its
\* providers, a class its allowed providers, a provider its credential, and
\* a ModelProvider its fallback.
MayReference(k) ==
    CASE k \in Workloads -> Held
      [] k = "class"     -> Providers
      [] k = "model"     -> {"secret", "child"}
      [] k = "tool"      -> {"secret"}
      [] OTHER           -> {}

New(refs) ==
    [exists |-> TRUE, deleting |-> FALSE, finalizer |-> FALSE, refs |-> refs,
     ready |-> "Unset", healthy |-> "Unset", users |-> 0, fqdn |-> "Unset"]

Gone == [New({}) EXCEPT !.exists = FALSE]

Upstreams == {"2xx", "401/403", "5xx"}

Live(o) == o.exists /\ ~o.deleting /\ o.finalizer

-----------------------------------------------------------------------------
(***************************************************************************)
(* Watches and the work queue                                              *)
(***************************************************************************)

\* Mutant: providersForWorkload and providersForClass see the new state only.
ModelProvidersForNew(k, old, new) ==
    {p \in {"model"} : k = p \/ (k \in Referrers /\ p \in new.refs)}

\* SetupWithManager of the ModelProviders: the object, and what a workload or
\* a class references, before and after the change (an update event maps both
\* objects).  Nothing maps a Secret or a fallback to a ModelProvider.
ModelProvidersFor(k, old, new) ==
    {p \in {"model"} : k = p \/ (k \in Referrers /\ p \in old.refs \cup new.refs)}

\* Of the ToolProviders: the same, and the Secret one names.
ToolProvidersFor(k, old, new) ==
    {p \in {"tool"} : \/ k = p
                      \/ k \in Referrers /\ p \in old.refs \cup new.refs
                      \/ k = "secret" /\ k \in cache[p].refs}

\* Mutant: the class reconciler has no provider watches.
ClassesForWorkload(k, old, new) ==
    {c \in {"class"} : k = c \/ (k \in Workloads /\ c \in old.refs \cup new.refs)}

\* Of the AgentClasses: the class a workload references, and the classes that
\* list a provider.
ClassesFor(k, old, new) ==
    {c \in {"class"} : \/ k = c
                       \/ k \in Workloads /\ c \in old.refs \cup new.refs
                       \/ k \in Providers /\ k \in cache[c].refs}

Enqueued(k, old, new) ==
    ModelProvidersFor(k, old, new) \cup ToolProvidersFor(k, old, new) \cup ClassesFor(k, old, new)

\* The informer of k delivers the API server's object to the cache.
Deliver(k) ==
    /\ cache[k] # api[k]
    /\ cache' = [cache EXCEPT ![k] = api[k]]
    /\ queue' = queue \cup Enqueued(k, cache[k], api[k])
    /\ UNCHANGED <<api, timed, upstream, cni, probedCNI, setting, left>>

\* A pending RequeueAfter comes due.
Fire(k) ==
    /\ k \in timed
    /\ timed' = timed \ {k}
    /\ queue' = queue \cup {k}
    /\ UNCHANGED <<api, cache, upstream, cni, probedCNI, setting, left>>

\* The reconcile of k ends without a write.
Done(k) ==
    /\ queue' = queue \ {k}
    /\ UNCHANGED <<api, timed>>

\* The reconcile of k writes its object: a copy that is not the API server's
\* is a conflict, an error, and k is queued again.  again: the result asks
\* for a requeue; after: it asks for one after an interval.
Update(k, new, again, after) ==
    IF cache[k] = api[k]
      THEN /\ api' = [api EXCEPT ![k] = new]
           /\ queue' = IF again THEN queue ELSE queue \ {k}
           /\ timed' = IF after THEN timed \cup {k} ELSE timed
      ELSE UNCHANGED <<api, queue, timed>>

-----------------------------------------------------------------------------
(***************************************************************************)
(* What every reconciler does before it looks at the specification         *)
(***************************************************************************)

\* A deleted object is held while it is referenced.
ReconcileDelete(k, referenced) ==
    IF cache[k].finalizer /\ ~referenced
      THEN Update(k, Gone, FALSE, FALSE)
      ELSE Done(k)

\* The part of Reconcile shared by the three kinds; delete ends the reconcile
\* of a deleted object, status that of a live one.
Preamble(k, delete, status) ==
    IF ~cache[k].exists THEN Done(k)
    ELSE IF cache[k].deleting THEN delete
    ELSE IF ~cache[k].finalizer
      THEN Update(k, [cache[k] EXCEPT !.finalizer = TRUE], TRUE, FALSE)
    ELSE status

\* What the result of a probe makes of the conditions.
Probed(o, result) ==
    CASE result = "AuthFailed" ->
           [o EXCEPT !.healthy = "False", !.ready = "CredentialsInvalid"]
      [] result = "Skipped" -> [o EXCEPT !.healthy = "Unknown", !.ready = "True"]
      [] result = "Err"     -> [o EXCEPT !.healthy = "False", !.ready = "True"]
      [] result = "Healthy" -> [o EXCEPT !.healthy = "True", !.ready = "True"]

-----------------------------------------------------------------------------
(***************************************************************************)
(* ModelProviderReconciler                                                 *)
(***************************************************************************)

\* isReferenced: who names the provider, as the caches have it.
ModelReferenced == \E w \in Referrers : "model" \in cache[w].refs

\* The credential, a key of a Secret, can be read.
ModelCredential == cache["secret"].exists

\* Any status but 2xx, 401 and 403 is an error, as is no answer in time; there
\* is no probe for one type of provider.
ModelProbe ==
    IF setting.probe = "skipped" THEN "Skipped"
    ELSE CASE upstream = "2xx"     -> "Healthy"
           [] upstream = "401/403" -> "AuthFailed"
           [] OTHER                -> "Err"

\* The problems of the specification, those of the fallback included (the
\* walk itself is FallbackChain), and the reason they are reported under: the
\* sorted list is scanned for the first of the three named kinds.
Problems(o) ==
    (setting.wrong \ {"egress"})
    \cup {p \in {"fallback"} : \E f \in o.refs \cap {"child"} : ~cache[f].exists}

Reason(problems) ==
    CASE "degradeTo" \in problems -> "InvalidDegradeTarget"
      [] "degradeTo" \notin problems /\ "unpriced" \in problems -> "HardBudgetUnpriced"
      [] OTHER -> IF "modelMap" \in problems THEN "InvalidModelMap" ELSE "FallbackIneligible"

\* The credential, then the specification, then the probe.  An invalid
\* provider is not requeued; a probed one is, at the probe interval; one that
\* is not probed only when its spend is tracked, every minute.
ModelStatus ==
    LET o == cache["model"] IN
    IF ~ModelCredential
      THEN Update("model", [o EXCEPT !.ready = "CredentialsMissing"], FALSE, FALSE)
    ELSE IF Problems(o) # {}
      THEN Update("model", [o EXCEPT !.ready = Reason(Problems(o))], FALSE, FALSE)
    ELSE IF setting.probe = "off"
      THEN Update("model", [o EXCEPT !.ready = "True"], FALSE, setting.budget)
    ELSE Update("model", Probed(o, ModelProbe), FALSE,
                ModelProbe # "Skipped" \/ setting.budget)

ReconcileModelProvider ==
    /\ "model" \in queue
    /\ Preamble("model", ReconcileDelete("model", ModelReferenced), ModelStatus)
    /\ UNCHANGED <<cache, upstream, cni, probedCNI, setting, left>>

-----------------------------------------------------------------------------
(***************************************************************************)
(* ToolProviderReconciler: the credential is optional, and a provider that *)
(* lost it is woken by the Secret's watch                                  *)
(***************************************************************************)

ToolReferenced == \E w \in Referrers : "tool" \in cache[w].refs

DeleteToolProvider == ReconcileDelete("tool", ToolReferenced)

ToolCredential == "secret" \in cache["tool"].refs => cache["secret"].exists

\* server/discover, or else initialize, then tools/list: the first failure is
\* the result.
ToolProbe ==
    CASE upstream = "2xx"     -> "Healthy"
      [] upstream = "401/403" -> "AuthFailed"
      [] OTHER                -> "Err"

ToolStatus ==
    LET o == cache["tool"] IN
    IF ~ToolCredential
      THEN Update("tool", [o EXCEPT !.ready = "CredentialsMissing"], FALSE, FALSE)
    ELSE IF setting.probe = "on"
      THEN Update("tool", Probed(o, ToolProbe), FALSE, TRUE)
    ELSE Update("tool", [o EXCEPT !.ready = "True"], FALSE, FALSE)

ReconcileToolProvider ==
    /\ "tool" \in queue
    /\ Preamble("tool", DeleteToolProvider, ToolStatus)
    /\ UNCHANGED <<cache, upstream, cni, probedCNI, setting, left>>

-----------------------------------------------------------------------------
(***************************************************************************)
(* AgentClassReconciler                                                    *)
(***************************************************************************)

\* The class is ready when every provider it lists exists and the CIDRs and
\* hosts of its egress rules are well-formed.
ClassReady(o) ==
    IF (\A p \in o.refs : cache[p].exists) /\ "egress" \notin setting.wrong
      THEN "True" ELSE "InvalidReference"

CountUsers == Cardinality({w \in Workloads : "class" \in cache[w].refs})

DeleteAgentClass == ReconcileDelete("class", CountUsers > 0)

\* The CNI is looked at once per process, and only for a class with hosts.
ProbeFQDNPolicySupport == IF cni THEN "Supported" ELSE "Unsupported"

FQDNSupport == IF probedCNI = "no" THEN ProbeFQDNPolicySupport ELSE probedCNI

ClassFQDN == IF setting.hosts THEN FQDNSupport ELSE "NoHostsRequested"

ClassStatus ==
    LET o == cache["class"] IN
    Update("class",
           [o EXCEPT !.ready = ClassReady(o), !.users = CountUsers, !.fqdn = ClassFQDN],
           FALSE, FALSE)

ReconcileAgentClass ==
    /\ "class" \in queue
    /\ Preamble("class", DeleteAgentClass, ClassStatus)
    /\ probedCNI' = IF setting.hosts /\ Live(cache["class"]) THEN FQDNSupport ELSE probedCNI
    /\ UNCHANGED <<cache, upstream, cni, setting, left>>

-----------------------------------------------------------------------------
(***************************************************************************)
(* Users, upstreams and the controller process                             *)
(***************************************************************************)

Edited(k, new) ==
    /\ left > 0
    /\ left' = left - 1
    /\ api' = [api EXCEPT ![k] = new]
    /\ UNCHANGED <<cache, queue, timed, upstream, cni, probedCNI, setting>>

Create(k) ==
    /\ k \in setting.kinds /\ ~api[k].exists
    /\ \E refs \in {{}, MayReference(k) \cap setting.kinds} : Edited(k, New(refs))

\* A kubectl delete: an object with a finalizer only gets its timestamp.
Delete(k) ==
    /\ api[k].exists /\ ~api[k].deleting
    /\ Edited(k, IF api[k].finalizer THEN [api[k] EXCEPT !.deleting = TRUE] ELSE Gone)

\* An edit of what a workload or a class references.
Rewire(k) ==
    /\ api[k].exists
    /\ \E r \in MayReference(k) \cap setting.kinds :
         Edited(k, [api[k] EXCEPT !.refs = IF r \in @ THEN @ \ {r} ELSE @ \cup {r}])

UpstreamChanges ==
    /\ left > 0
    /\ left' = left - 1
    /\ upstream' \in Upstreams \ {upstream}
    /\ UNCHANGED <<api, cache, queue, timed, cni, probedCNI, setting>>

CNIChanges ==
    /\ setting.hosts
    /\ left > 0
    /\ left' = left - 1
    /\ cni' = ~cni
    /\ UNCHANGED <<api, cache, queue, timed, upstream, probedCNI, setting>>

\* The controller restarts: its queue, its timers and its cached CNI answer
\* are gone, and the first list of every informer enqueues every object.
Restart ==
    /\ left > 0
    /\ left' = left - 1
    /\ cache' = api
    /\ queue' = {k \in Held : api[k].exists}
    /\ timed' = {}
    /\ probedCNI' = "no"
    /\ UNCHANGED <<api, upstream, cni, setting>>

-----------------------------------------------------------------------------

\* The catalogue has just been applied, in any order: each object may still
\* be missing.  Nothing was reconciled yet.
Init ==
    /\ setting \in Settings
    /\ api \in {[k \in Kinds |-> IF k \in setting.kinds \ {absent}
                                 THEN New(MayReference(k) \cap setting.kinds) ELSE Gone] :
                  absent \in {"none", "secret", "child"}}
    /\ cache = api
    /\ queue = {k \in Held : api[k].exists}
    /\ timed = {}
    /\ upstream = "2xx"
    /\ cni = FALSE
    /\ probedCNI = "no"
    /\ left = setting.edits

Controller ==
    \/ ReconcileModelProvider
    \/ ReconcileToolProvider
    \/ ReconcileAgentClass
    \/ \E k \in Kinds : Deliver(k)
    \/ \E k \in Held : Fire(k)

Users ==
    \/ \E k \in Kinds : Create(k)
    \/ \E k \in Kinds : Delete(k)
    \/ \E k \in Referrers : Rewire(k)
    \/ UpstreamChanges
    \/ CNIChanges
    \/ Restart

\* Nothing is pending: a catalogue at rest.
AtRest ==
    /\ queue = {} /\ timed = {} /\ cache = api /\ left = 0
    /\ UNCHANGED vars

Next == Controller \/ Users \/ AtRest

\* The work queue serves every request and every informer delivers: the
\* controller's goroutines are scheduled.  Nothing is assumed of the users.
Fairness ==
    /\ WF_vars(ReconcileModelProvider)
    /\ WF_vars(ReconcileToolProvider)
    /\ WF_vars(ReconcileAgentClass)
    /\ WF_vars(\E k \in Kinds : Deliver(k))

Spec == Init /\ [][Next]_vars /\ Fairness
-----------------------------------------------------------------------------
(***************************************************************************)
(* Properties                                                              *)
(***************************************************************************)

\* The reconciler is done with k: nothing is queued, nothing undelivered.
Settled(k) == k \notin queue /\ cache[k] = api[k] /\ Live(api[k])

\* agentclass_controller.go and toolprovider_controller.go are driven by
\* events: whenever a class or a ToolProvider is not queued, its status is the
\* one its reconcile would compute from what the caches hold now.  The status
\* is never left behind by an event that enqueued nobody, in whatever order
\* the informers deliver, through conflicts and restarts.
VerdictsStand ==
    /\ Settled("class") =>
         /\ api["class"].ready = ClassReady(api["class"])
         /\ api["class"].users = CountUsers
    /\ Settled("tool") =>
         (api["tool"].ready = "CredentialsMissing"
            <=> "secret" \in api["tool"].refs /\ ~cache["secret"].exists)

\* "Their watches re-enqueue us when a referrer goes away": a deleted object
\* does not stay in Terminating once nothing references it.
DeletionCompletes ==
    \A k \in Held :
        api[k].deleting ~> (~api[k].exists \/ \E w \in Kinds : k \in api[w].refs)
=============================================================================
