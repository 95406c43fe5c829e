----------------------------- MODULE LLMRequest -----------------------------
(***************************************************************************)
(* The LLM proxy: handleLLMProxy from the parsed request to the end of the *)
(* relay, with the depth-first fallback walk, the admission slots of hard  *)
(* budgets and the charging of usage.                                      *)
(*                                                                         *)
(* Requests have arrived when a behaviour starts; each runs its handler    *)
(* and handlers interleave between their accesses to shared state: the     *)
(* ledger, the rate limiter, the upstream.  The recursion of               *)
(* tryWithFallbacks and walkChildren is an explicit stack of frames.       *)
(***************************************************************************)
EXTENDS Integers, Sequences, FiniteSets

CONSTANTS
  Requests,
  Providers,        \* names of ModelProviders, existing or not
  Models,
  Catalogues,       \* the sets of ModelProviders considered
  Asks,             \* what each request may ask for
  MaxFallbackDepth, \* the gateway's maxFallbackDepth
  MaxUsage          \* bound: usage one response reports

VARIABLES
  catalogue, \* the ModelProviders: type, allowed, models, degradeTo, fallback
  req,       \* per request, the local state of its handler
  slot,      \* per provider, the request that holds its boundary slot
  ledger,    \* per provider, the spend recorded
  metered    \* ghost: per provider, the usage read from the responses relayed

vars == <<catalogue, req, slot, ledger, metered>>

Free == "free"
NoModel == "noModel"

\* What the gateway itself answers: before the walk, and when it is exhausted.
Denials == {"forbidden", "badRequest", "block", "unavailable", "throttled", "rateLimited"}
Exhaustions == {"unreachable", "timedOut", "providerError", "budgetExhausted",
                "budgetUnavailable"}

\* An ask: the path, the qualified model, and what the lookups of the caller's
\* workload and class find ("none": a token caller, which has no workload).
Paths == {"/v1/messages", "/v1/chat/completions", "/v1/completions"}
Chains == {"none", "ok", "noWorkload", "notReferenced", "noClass", "notAllowed"}

\* The catalogue names only Providers, and its edges map every model; requests
\* and providers have names that mean nothing else here.
ASSUME LLMRequestAssumption ==
  /\ \A cat \in Catalogues : DOMAIN cat \subseteq Providers /\ \A p \in DOMAIN cat :
       /\ cat[p].degradeTo \in Models
       /\ cat[p].fallback \in Seq([to : Providers, modelMap : [Models -> Models]])
  /\ Asks \in [Requests -> SUBSET [path : Paths, chain : Chains, primary : Providers,
                                   model : Models, translatable : BOOLEAN]]
  /\ MaxFallbackDepth \in Nat /\ MaxUsage \in Nat /\ IsFiniteSet(Requests)
  /\ Free \notin Requests /\ NoModel \notin Models
  /\ Providers \cap (Denials \cup Exhaustions \cup {"none", "denied", "exhausted"}) = {}

Exists(p) == p \in DOMAIN catalogue

\* formatForType and adapterForPath: the formats the translator speaks.
FormatForType(type) ==
  CASE type = "anthropic" -> "anthropic"
    [] type \in {"openai", "openai-compatible"} -> "openai"
    [] OTHER -> ""

\* The legacy completions shape never crosses.
InboundFormat(ask) ==
  CASE ask.path = "/v1/messages" -> "anthropic"
    [] ask.path = "/v1/chat/completions" -> "openai"
    [] OTHER -> ""

\* ProviderFormat, FallbackFormatCompatible and FallbackCrossesFormat.
ProviderFormat(type) == IF type = "openai-compatible" THEN "openai" ELSE type
Translatable(type) == type \in {"anthropic", "openai", "openai-compatible"}
FormatCompatible(parent, child) ==
  parent = child \/ (Translatable(parent) /\ Translatable(child))
CrossesFormat(parent, child) == ProviderFormat(parent) # ProviderFormat(child)

\* authorizeRoute: the workload's gates, then the provider, its namespaces,
\* and last its models.
AuthorizeRoute(ask) ==
  CASE ask.chain \notin {"none", "ok"} -> "forbidden"
    [] ~Exists(ask.primary) -> "badRequest"
    [] ~catalogue[ask.primary].allowed -> "forbidden"
    [] ask.model \notin catalogue[ask.primary].models -> "badRequest"
    [] OTHER -> "ok"

-----------------------------------------------------------------------------
(* The handler's local state *)

\* modelFor is the model of each candidate; observed are the failure classes the
\* walk has collected; usage is what the response being relayed has reported.
\* tries is a history: the attempt slots used, with the model asked for and what
\* became of each.
NewRequest(ask) ==
  [at |-> "route", ask |-> ask, model |-> ask.model, stack |-> <<>>,
   visited |-> {}, observed |-> {}, tries |-> <<>>, modelFor |-> [p \in Providers |-> NoModel],
   usage |-> 0, answer |-> "none"]

\* A frame of the walk: tryWithFallbacks at "enter" and "attempt", then
\* walkChildren, which has captured the parent's model, before child i.
Frame(p) == [p |-> p, stage |-> "enter", model |-> NoModel, i |-> 1]

Primary(q) == req[q].ask.primary
Last(s) == s[Len(s)]
Top(q) == Last(req[q].stack)
SetTop(q, frame) == [req[q].stack EXCEPT ![Len(req[q].stack)] = frame]

\* candidateModel.
CandidateModel(q, p) ==
  IF req[q].modelFor[p] # NoModel THEN req[q].modelFor[p] ELSE req[q].model

\* The idempotent settle of the slot a request holds on a provider: the slot
\* is freed and the cost recorded in one step.  Nil when it holds none.
SettleSlot(q, p, cost) ==
  /\ slot' = IF slot[p] = q THEN [slot EXCEPT ![p] = Free] ELSE slot
  /\ ledger' = IF slot[p] = q THEN [ledger EXCEPT ![p] = @ + cost] ELSE ledger

\* A return of the handler: the deferred primarySettle(0) runs.
Return(q, answer) ==
  /\ req' = [req EXCEPT ![q].at = "done", ![q].answer = answer, ![q].stack = <<>>]
  /\ IF Exists(Primary(q)) THEN SettleSlot(q, Primary(q), 0)
     ELSE UNCHANGED <<slot, ledger>>

-----------------------------------------------------------------------------
(* Before the walk *)

\* Parse, authorize, and check the provider's type.
Route(q) ==
  /\ req[q].at = "route"
  /\ IF AuthorizeRoute(req[q].ask) # "ok"
       THEN Return(q, AuthorizeRoute(req[q].ask))
       ELSE req' = [req EXCEPT ![q].at = "admit"] /\ UNCHANGED <<slot, ledger>>
  /\ UNCHANGED <<catalogue, metered>>

\* What Budget.Admit may answer.  "slot" is the boundary region with its slot
\* free, "throttled" the region with the slot taken; HardBudget has the
\* decision itself.
Decisions(p) ==
  {"allow", "degrade", "block", "unavailable"}
    \cup (IF slot[p] = Free THEN {"slot", "degradeSlot"} ELSE {"throttled"})
TakesSlot(d) == d \in {"slot", "degradeSlot"}
Degrades(d) == d \in {"degrade", "degradeSlot"}
BudgetDenies(d) == d \in {"block", "unavailable", "throttled"}
Take(q, p, d) == slot' = IF TakesSlot(d) THEN [slot EXCEPT ![p] = q] ELSE slot

\* Budget.Admit on the primary and applyBudgetDecision: a denial is the answer,
\* a degrade rewrites the model.
AdmitPrimary(q) ==
  /\ req[q].at = "admit"
  /\ \E d \in Decisions(Primary(q)) :
       \/ BudgetDenies(d) /\ Return(q, d)
       \/ /\ ~BudgetDenies(d)
          /\ req' = [req EXCEPT ![q].at = "rate",
                       ![q].model = IF Degrades(d) THEN catalogue[Primary(q)].degradeTo
                                    ELSE @]
          /\ Take(q, Primary(q), d)
          /\ UNCHANGED ledger
  /\ UNCHANGED <<catalogue, metered>>

\* The rate limiter answers; then the walk starts at the primary.
TakeToken(q) ==
  /\ req[q].at = "rate"
  /\ \/ Return(q, "rateLimited")
     \/ /\ req' = [req EXCEPT ![q].at = "walk", ![q].stack = <<Frame(Primary(q))>>,
                              ![q].modelFor[Primary(q)] = req[q].model]
        /\ UNCHANGED <<slot, ledger>>
  /\ UNCHANGED <<catalogue, metered>>

-----------------------------------------------------------------------------
(* The fallback walk *)

\* staticallyIneligible.
Crosses(q, p) ==
  LET target == FormatForType(catalogue[p].type)
      inbound == InboundFormat(req[q].ask)
  IN inbound # "" /\ target # "" /\ target # inbound

StaticallyIneligible(q, p) ==
  LET type == catalogue[Primary(q)].type
  IN \/ /\ p # Primary(q)
        /\ \/ ~FormatCompatible(type, catalogue[p].type)
           \/ CrossesFormat(type, catalogue[p].type)
                /\ InboundFormat(req[q].ask) = ""
     \/ ~catalogue[p].allowed
     \/ CandidateModel(q, p) \notin catalogue[p].models
     \/ Crosses(q, p) /\ ~req[q].ask.translatable

\* exhaustionError maps the classes observed to the answer.
ExhaustionError(q) ==
  LET observed == req[q].observed IN
  CASE observed # {} /\ observed \subseteq {"budget", "unavailable"} ->
         IF "unavailable" \in observed THEN "budgetUnavailable" ELSE "budgetExhausted"
    [] observed = {"connect"} -> "unreachable"
    [] observed = {"timeout"} -> "timedOut"
    [] OTHER -> "providerError"

\* The last frame returns "not ok": the walk goes on in the frame below, and is
\* exhausted at the root.
NotOk(q, visited) ==
  \/ Len(req[q].stack) = 1 /\ Return(q, ExhaustionError(q))
  \/ /\ Len(req[q].stack) > 1
     /\ req' = [req EXCEPT ![q].stack = SubSeq(@, 1, Len(@) - 1), ![q].visited = visited]
     /\ UNCHANGED <<slot, ledger>>

Entering(q) == req[q].at = "walk" /\ Top(q).stage = "enter"
Eligible(q) ==
  /\ Top(q).p \notin req[q].visited
  /\ ~StaticallyIneligible(q, Top(q).p)
  /\ Len(req[q].tries) < MaxFallbackDepth

\* A candidate visited before, ineligible, or beyond the depth: no slot of the
\* walk is used and its children are not walked.
Skip(q) ==
  /\ Entering(q) /\ ~Eligible(q)
  /\ NotOk(q, req[q].visited \cup {Top(q).p})
  /\ UNCHANGED <<catalogue, metered>>

\* Mutant: a candidate its budget refuses is not noted as a failure.
UseAttemptUnnoted(q, how, frame) ==
  [req[q] EXCEPT !.visited = @ \cup {Top(q).p},
     !.tries = Append(@, [p |-> Top(q).p, how |-> how,
                          model |-> CandidateModel(q, Top(q).p)]),
     !.stack = SetTop(q, frame)]

\* The attempt slot is used; the frame goes on as given.  A budget's refusal is
\* observed at once, what an upstream does when it has done it.
UseAttempt(q, how, frame) ==
  [req[q] EXCEPT !.visited = @ \cup {Top(q).p},
     !.observed = @ \cup ({how} \ {"started"}),
     !.tries = Append(@, [p |-> Top(q).p, how |-> how,
                          model |-> CandidateModel(q, Top(q).p)]),
     !.stack = SetTop(q, frame)]

\* walkChildren starts: it captures the parent's model.
Children(q) ==
  [Top(q) EXCEPT !.stage = "children", !.model = CandidateModel(q, Top(q).p)]
Attempting(q) == [Top(q) EXCEPT !.stage = "attempt"]

\* The primary was admitted before the walk.
EnterPrimary(q) ==
  /\ Entering(q) /\ Eligible(q) /\ Top(q).p = Primary(q)
  /\ req' = [req EXCEPT ![q] = UseAttempt(q, "started", Attempting(q))]
  /\ UNCHANGED <<catalogue, slot, ledger, metered>>

\* Any other candidate is admitted here.  When its budget refuses, the attempt
\* is used up and its children are walked without an upstream call.
EnterFallback(q) ==
  /\ Entering(q) /\ Eligible(q) /\ Top(q).p # Primary(q)
  /\ \E d \in Decisions(Top(q).p) :
       /\ req' = [req EXCEPT ![q] =
            CASE d = "unavailable" -> UseAttempt(q, d, Children(q))
              [] d \in {"throttled", "block"} -> UseAttempt(q, "budget", Children(q))
              [] OTHER -> UseAttempt(q, "started", Attempting(q))]
       /\ Take(q, Top(q).p, d)
  /\ UNCHANGED <<catalogue, ledger, metered>>

Outcome(q, how) == [req[q].tries EXCEPT ![Len(req[q].tries)].how = how]

\* forwardOnce's class of what happened: a response whose body cannot be read
\* counts as a connection error.
ClassOf(how) == IF how = "cut" THEN "connect" ELSE how
Failures == {"connect", "cut", "timeout", "upstream"}
Forwarding(q) == req[q].at = "walk" /\ Top(q).stage = "attempt"

\* Mutant: the slot is freed when the handler returns, after the walk.
AttemptFailsKeepingSlot(q) ==
  /\ Forwarding(q)
  /\ \E how \in Failures :
       req' = [req EXCEPT ![q].tries = Outcome(q, how),
                          ![q].observed = @ \cup {ClassOf(how)},
                          ![q].stack = SetTop(q, Children(q))]
  /\ UNCHANGED <<catalogue, slot, ledger, metered>>

\* A fallbackable failure: no credential or connection, a body cut off, a
\* timeout, or 429, 5xx, 401, 403.  The slot is freed before the walk descends.
AttemptFails(q) ==
  /\ Forwarding(q)
  /\ \E how \in Failures :
       req' = [req EXCEPT ![q].tries = Outcome(q, how),
                          ![q].observed = @ \cup {ClassOf(how)},
                          ![q].stack = SetTop(q, Children(q))]
  /\ SettleSlot(q, Top(q).p, 0)
  /\ UNCHANGED <<catalogue, metered>>

\* A 2xx, or a 4xx that is the caller's own: the walk ends here.
AttemptAnswers(q) ==
  /\ Forwarding(q)
  /\ \E how \in {"ok", "rejected"} :
       req' = [req EXCEPT ![q].tries = Outcome(q, how), ![q].stack = <<>>,
                 ![q].observed = @ \cup ({how} \ {"ok"}),
                 ![q].at = IF how = "ok" THEN "relay" ELSE "reject"]
  /\ UNCHANGED <<catalogue, slot, ledger, metered>>

\* walkChildren: the next child, with the edge's model map applied, or the end.
\* A child that does not exist is passed over.
NextChild(q) ==
  LET f == Top(q)
      refs == catalogue[f.p].fallback
      ref == refs[f.i]
      on == [f EXCEPT !.i = @ + 1]
  IN
  /\ req[q].at = "walk" /\ f.stage = "children"
  /\ \/ f.i > Len(refs) /\ NotOk(q, req[q].visited)
     \/ /\ f.i <= Len(refs)
        /\ req' = [req EXCEPT ![q] =
             IF Exists(ref.to)
               THEN [req[q] EXCEPT !.stack = Append(SetTop(q, on), Frame(ref.to)),
                                   !.modelFor[ref.to] = ref.modelMap[f.model]]
               ELSE [req[q] EXCEPT !.stack = SetTop(q, on)]]
        /\ UNCHANGED <<slot, ledger>>
  /\ UNCHANGED <<catalogue, metered>>

-----------------------------------------------------------------------------
(* The answer: writeWalkResult *)

Winner(q) == Last(req[q].tries).p

\* A caller's error is relayed as it is; nothing is charged.
RelayError(q) ==
  /\ req[q].at = "reject"
  /\ req' = [req EXCEPT ![q].at = "done", ![q].answer = Winner(q)]
  /\ SettleSlot(q, Winner(q), 0)
  /\ UNCHANGED <<catalogue, metered>>

\* Upstream events are read and relayed one by one; usage is folded out of them.
RelayEvent(q) ==
  /\ req[q].at = "relay" /\ req[q].usage < MaxUsage
  /\ req' = [req EXCEPT ![q].usage = @ + 1]
  /\ metered' = [metered EXCEPT ![Winner(q)] = @ + 1]
  /\ UNCHANGED <<catalogue, slot, ledger>>

\* Mutant: a relay that breaks off drops the usage it has read.
RelayEndDropping(q) ==
  /\ req[q].at = "relay"
  /\ req' = [req EXCEPT ![q].at = "done", ![q].answer = Winner(q)]
  /\ \/ IF slot[Winner(q)] = q THEN SettleSlot(q, Winner(q), req[q].usage)
        ELSE /\ ledger' = [ledger EXCEPT ![Winner(q)] = @ + req[q].usage]
             /\ UNCHANGED slot
     \/ SettleSlot(q, Winner(q), 0)
  /\ UNCHANGED <<catalogue, metered>>

\* The relay ends: the response is complete, the upstream breaks off, the caller
\* is gone, or a buffered body cannot be translated back.  The usage read so far
\* is charged to the provider that served, through the slot when one is held.
RelayEnd(q) ==
  /\ req[q].at = "relay"
  /\ req' = [req EXCEPT ![q].at = "done", ![q].answer = Winner(q)]
  /\ IF slot[Winner(q)] = q THEN SettleSlot(q, Winner(q), req[q].usage)
     ELSE /\ ledger' = [ledger EXCEPT ![Winner(q)] = @ + req[q].usage]
          /\ UNCHANGED slot
  /\ UNCHANGED <<catalogue, metered>>

-----------------------------------------------------------------------------
Init ==
  /\ catalogue \in Catalogues
  /\ req \in {[q \in Requests |-> NewRequest(asks[q])] :
               asks \in {f \in [Requests -> UNION {Asks[q] : q \in Requests}] :
                          \A q \in Requests : f[q] \in Asks[q]}}
  /\ slot = [p \in Providers |-> Free]
  /\ ledger = [p \in Providers |-> 0]
  /\ metered = [p \in Providers |-> 0]

Handle(q) ==
  \/ Route(q) \/ AdmitPrimary(q) \/ TakeToken(q)
  \/ Skip(q) \/ EnterPrimary(q) \/ EnterFallback(q)
  \/ AttemptFails(q) \/ AttemptAnswers(q) \/ NextChild(q)
  \/ RelayError(q) \/ RelayEvent(q) \/ RelayEnd(q)

AllDone == \A q \in Requests : req[q].at = "done"
Finished == AllDone /\ UNCHANGED vars

Next == (\E q \in Requests : Handle(q)) \/ Finished

Spec == Init /\ [][Next]_vars

-----------------------------------------------------------------------------
(* Properties *)

\* The promise of RequestOutcome, over the walk's own state: providers are tried
\* once each and within the depth, a slot is never held across another
\* provider's upstream call (tryWithFallbacks settles before it descends), and
\* a handler answers once and leaves no slot behind.
TriedBy(q) == [i \in DOMAIN req[q].tries |-> req[q].tries[i].p]
HeldBy(q) == {p \in Providers : slot[p] = q}
AnswerOf(q) ==
  CASE req[q].answer \in Providers \cup {"none"} -> req[q].answer
    [] req[q].answer \in Exhaustions -> "exhausted"
    [] OTHER -> "denied"
Outcomes ==
  INSTANCE RequestOutcome WITH
    MaxDepth <- MaxFallbackDepth,
    tried <- [q \in Requests |-> TriedBy(q)],
    held <- [q \in Requests |-> HeldBy(q)],
    answer <- [q \in Requests |-> AnswerOf(q)]
ImplementsOutcome == Outcomes!Spec

\* The units of usage that relays in progress have read from p's responses.
Unbilled(p) ==
  {u \in Requests \X (1..MaxUsage) :
     req[u[1]].at = "relay" /\ Winner(u[1]) = p /\ u[2] <= req[u[1]].usage}

\* Spend follows the response: the ledger of a provider is the usage read from
\* the responses it served, less what the relays in progress have yet to
\* charge.  A broken relay, a body that cannot be translated and the settle of a
\* slot each charge exactly once, and only the provider that served.
ChargedWhatWasRead ==
  \A p \in Providers : metered[p] = ledger[p] + Cardinality(Unbilled(p))

\* The caller can tell why the walk failed, from what was collected along the
\* recursion: exhaustionError says "unreachable" exactly when no attempt got a
\* whole answer out of an upstream, and "timed out" exactly when every one timed
\* out, so neither a budget's refusal nor an upstream's error is hidden behind
\* the connection errors of others.  It never blames the budget: the primary,
\* which every walk tries first, has passed its own budget check.
AnswerNamesTheCause ==
  \A q \in Requests : req[q].answer \in Exhaustions =>
    LET all(hows) == /\ req[q].tries # <<>>
                     /\ \A i \in DOMAIN req[q].tries : req[q].tries[i].how \in hows
    IN /\ req[q].answer = "unreachable" <=> all({"connect", "cut"})
       /\ req[q].answer = "timedOut" <=> all({"timeout"})
       /\ req[q].answer \notin {"budgetExhausted", "budgetUnavailable"}
=============================================================================
