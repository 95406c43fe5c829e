# Kaalm in TLA+

Kaalm is a Kubernetes operator for AI agents. Its **controller** reconciles six
custom resources (AgentClass, Agent, AgentTask, AgentChannel, ModelProvider,
ToolProvider). Its **gateway**, a Deployment of several replicas, stands between
the agents and everything outside: it forwards LLM calls under budgets and rate
limits, brokers tool calls, delivers messages to agents and takes their
completion reports. The **agent runtime** is the library inside an agent's Pod.
The parts communicate through the API server (objects, status, ConfigMaps,
annotations) and a few mTLS endpoints. Nearly everything hard about the program
comes from that: a pass of a reconciler is a sequence of separate API calls made
on cached reads, gateway replicas share no memory, and any process may stop
between two calls.

`PROJECT.json` lists every part with its files, maps every definition to the
lines it models, and lists the hazards with the line at which each bites and the
properties that cover it.

## The parts and their modules

Paths are under `src/internal/` unless they start with another directory.

| Part | Module | State | What is hard about it |
|---|---|---|---|
| Hard budgets (`gateway/budget*.go`) | `HardBudget`, `BudgetPartials` | a ledger per replica, admission slots, the publisher goroutine, the budget ConfigMap | admission races folds; settles after a rollover; publishes that fail |
| Budget exchange (`controller/modelprovider_budget.go`) | `BudgetExchange` | keys of the ConfigMap over the life of the gateway Pods, `_retired`, `_canonical` | keys pruned while Pods publish; restarts; interrupted passes |
| LLM requests (`gateway/proxy.go`, `fallback.go`) | `LLMRequest`, `RequestOutcome` | the walk's stack, slots, charges, the relay | recursion over shared fallbacks, a slot per attempt, relays that break |
| LLM translation (`llmtranslate/`, `gateway/spend.go`) | `StreamTranslation`, `RequestTranslation` | open blocks, indices, usage; conversations | any chunking, any cut, turns that merge or split |
| Rate limiter (`gateway/ratelimit.go`) | `RateLimit` | a bucket per replica | the share changes under a bucket |
| MCP broker (`gateway/mcpbroker.go`, `mcpsession.go`) | `ToolBroker` | calls in flight, grants, sessions | a filter taken before the body is read |
| Caller authentication (`gateway/auth.go`, `tokenauth.go`, `identity.go`) | `CallerAuth` | the review cache, the Pod informer | verdicts older than a revocation |
| Provider and class reconcilers (`controller/modelprovider_controller.go`, `toolprovider_controller.go`, `agentclass_controller.go`, `indexers.go`) | `Catalogue`, `FallbackChain` | objects, caches, work queue | an event that enqueues nobody; deletions held for ever |
| Agents (`controller/agent*.go`, `activator.go`, `gateway/activity.go`) | `AgentLifecycle` | Agent, Pod, volume, activity stores, a read cache, the wake annotation | hibernation decided on cached and partial data; wakes racing passes |
| Tasks (`controller/agenttask_*.go`, `gateway/completion.go`, `agentruntime/complete.go`) | `AgentTask` | AgentTask, its Pods, the completion mailbox | a retry is four writes; late reports and late Pods |
| Messages (`gateway/user.go`, `platform.go`, `adapters.go`, `discord.go`, `whatsapp.go`, `testchat.go`, `agentruntime/agent.go`, `store.go`) | `ChannelDelivery`, `AgentRuntime`, `ReplyChunks` | pipelines in memory, the deduplication window, the chat | answers lost after the work was done; redelivery; restarts |
| Asynchronous webhooks (`gateway/async.go`) | `AsyncChannel` | polling records, pipelines, the delete handshake | crashes after the 202; ambiguous writes; a sweep racing creates |
| Channels (`controller/agentchannel_*.go`, `gateway/channelhealth.go`) | `ChannelReconciler`, `ChannelHealth` | verdicts, Roles and RoleBindings, health stores | what is not watched; leftovers of an earlier channel; replicas that do not answer |
| Callback policy (`callbackpolicy/policy.go`) | `CallbackPolicy` | the allowlist, DNS answers | names that resolve differently at check and dial |
| TLS material (`tlsutil/loader.go`, `agentruntime/tls.go`) | `TrustLoader`, `RuntimeTLS` | files, loaded pool and pair, generations | rewrites between two reads |
| Secret reads (`gateway/secretwatch.go`) | `SecretWatch` | an informer per Secret | a janitor against readers |
| Storage migration (`storagemigration/migrator.go`) | `StorageMigration` | stored versions, pages | writes between pages; a new leader |

Each module has the component's state as its variables and one action per
operation, handler or step between two accesses to shared state. Some
conventions recur:

- A **pass** of a reconciler is `Begin`, which reads, and then one step per API
  call that changes something. A write carries the resource version that was
  read, so that it fails if the object changed meanwhile. Where only the verdict
  matters (`Catalogue`, `ChannelReconciler`) a pass is one step on cached objects,
  and the lag is in the delivery of events to the caches.
- A variable called `setting` or `may` is **frozen**: it holds the user's
  specification and what the environment may do in this behaviour, so that one
  run covers several configurations.
- **History** variables and fields (`loose`, `published`, `late`, `woke`,
  `opened`, `metered`) record what happened for the properties; no condition of
  the code depends on them.
- Text, money and time are abstract: a text is a sequence of numbered pieces,
  money is a natural number of ledger units, the clock counts ticks.

### Notes on single modules

`BudgetPartials` holds the wire format of the budget exchange: `PeriodKey`, the
rounding to cents, `MakePartial` and `FoldPartials`. A sum over namespaces,
replicas or ticks (`Total`, in `Sums`) is the cardinality of a set of units, so
that the theorems on finite sets apply to it.

`RateLimit` counts in parts of a token. `Grain` is the number of parts per tick of
a minute and is divisible by every number of replicas, so that a share and its
refill, fractions in the code, are whole numbers.

`HardBudget`: `AdmitFree`, `AdmitSlot` and `AdmitReject` are the outcomes of
`Admit`; `Add` and `Settle` are the two ways a cost lands; the `Publish` and
`Fold` actions are the publisher goroutine, which drops the mutex around its API
calls; `WatchFold` is the informer; `LedgerFor` is the lazy rollover with which
every operation under the mutex begins. `BudgetExchange` leaves admission out and
lets Pods come and go instead.

`LLMRequest` keeps the recursion of `tryWithFallbacks` as an explicit stack of
frames and implements `RequestOutcome`, the promise to the caller: providers are
tried one at a time, none twice and at most `MaxFallbackDepth` of them, at most
one slot is held, one answer is given, and then nothing is held. The mapping
reads the providers tried, the slot and the answer off the stack and the record
of the request.

`StreamTranslation` runs the translator between an upstream that sends any legal
sequence of events, cut off anywhere, and a strict client of the caller's format,
beside the adapter that meters the upstream's usage. An Anthropic upstream may
correct its input count at the end.
`RequestTranslation` grows a conversation turn by turn and translates it whole.

`AgentTask`: the retry is `Retried`, `RetryDeletePod`, `RetryResetMailbox`,
`RetryReopen`, and a pass that finds it half done takes `ResumeRetry`; `Post` and
`Patch` are the gateway's completion handler, whose gate and whose write are
separate. `AgentLifecycle`: `CommitWake` and `RemoveWake` are the writes of
`handleWake`, `Evaluate` fetches activity from the cache or from any subset of the
replicas, `BeginTeardown` to `RemoveFinalizer` are `reconcileDelete`. Of the
Degraded cross-checks only the verdict is kept, of the Pod specification only
whether its hash has drifted.

`ChannelDelivery` composes the gateway's pipelines with the agent of
`AgentRuntime`: an attempt that gives up does not stop the handler it started,
and a repeated attempt meets what the first one left in the window. A sender that
hangs up ends the context of its delivery, if the server notices. `ChannelHealth`
keeps of each replica's list what `record` keeps, the window and its bound, and
remembers apart what was dropped. `CallbackPolicy` has a request accepted while the
channel is Ready and called back whatever it is by then. In
`AsyncChannel` every call to the API server may fail, and a failed create, patch
or callback may have happened all the same.

`Catalogue` follows one object of each kind with its referrers. Events reach the
caches in any order, the map functions of `SetupWithManager` turn them into queue
entries, and a requeue timer is a member of `timed`. `ChannelReconciler` has two
channels of a namespace, the Role of each and its two RoleBindings by owner, so that
what an earlier channel of the name left behind is there until it is collected; any
of the writes of `ensureCredentialRole` may fail. In `FallbackChain` any set of
providers fails to be read. In `TrustLoader` a file being written has nothing that
parses, or a part that does.

## What the runs show

A run that holds several modules lets `focus` choose one, and the others rest: it
is a collection of instances, not a product of them. Modules that really interact
are composed in a module (`ChannelDelivery` with `AgentRuntime`, `LLMRequest` with
the slots of the budget, `AgentTask` with gateway and runtime, `AgentLifecycle`
with the gateways' stores). Where such a collection has proofs, its instances and
its properties stand in a module of their own (`WireParts`, `CatalogueParts`,
`GatewayParts`, `WorkloadsParts`), which the module of the run and the module of
the proofs both extend: what TLC checks and what is proved is one definition.

| Run | Instance | Shows |
|---|---|---|
| `Live` | one replica, two namespaces, both ceilings, a rollover; an Agent with one wake; one asynchronous request with one crash; two channels that contest a path, one edit or failing write, leftovers of earlier channels | slots and the requests that hold them agree (`SlotsMatchHolders`) and come back (`SlotReleased`); spend through slots stays below the block threshold plus one call (`SerializedSpendCapped`); a wake is served (`WakeServed`); a deleted channel goes although no gateway may ever confirm (`DeletionCompletes`); verdicts, Roles and RoleBindings of channels settle on what the cluster holds although Secrets and addresses are not watched (`VerdictsSettle`) |
| `BudgetPeers` | two replicas in one period; two Pods, a rollover, one restart or late publish | a replica never believes that its peers spent more than they published (`PeersWerePublished`); published spend is neither lost nor counted twice (`PublishedSpendAccounted`) |
| `Task` | a reported and an exit-code task, one retry, one eviction, a timeout, a TTL | every task settles (`EventuallySettles`) |
| `Workloads` | a task with slow terminations, interrupted passes, lagging caches and deletion; a new Agent and one that sleeps, each with one disruption of any kind and a deletion at any step | an outcome never changes (`OutcomeIsFinal`), success was reported or exited with by a counted attempt (`SuccessWasReported`), Pods are created only for counted attempts within the backoff limit (`EveryAttemptCounts`); a retained volume survives (`RetainedVolumeSurvives`), a wake is not dropped (`WakeNotDropped`), a woken agent gets its full time (`WokenStaysUp`), and an agent sleeps only when the replicas that answered saw no traffic (`SleepsOnlyWhenSilent`) |
| `LLMRequest` | two requests; a diamond of four providers with cycles, and a chain of candidates that must be skipped; depth 3 | the handler implements `RequestOutcome` (`ImplementsOutcome`), ledgers hold what the relays read (`ChargedWhatWasRead`), the error after an exhausted walk says unreachable, or timed out, exactly when all attempts were (`AnswerNamesTheCause`) |
| `Wire` | two replicas and a limit that does not divide by their number; two MCP calls by two callers under edits; streams of three parts and blocks, both ways; conversations of five messages, both ways; two requests with one token | `MinuteBound`, `SessionsStayWithTheirOwner`, `ListedIsCallable`, `WellFormedForTheCaller`, `NothingLostInTranslation`, `TranslatesFaithfully`, `RevocationTakesHold` |
| `Catalogue` | one object of each kind in six settings with two or three edits; every chain of three providers, with repeated and dangling references and providers that cannot be read; objects on two pages with two disturbances; both loaders with three writes; two readers of a Secret with three rotations | `VerdictsStand` (no event enqueues nobody), `DeletionCompletes`, `AcceptsFollowable` (what the walk accepts is sound and ends; what it rejects is faulty or shared), `NeverLies` (storedVersions), `FreshWhenQuiet`, `ServedByARunningInformer` |
| `Gateway` | an asynchronous request beside an abandoned one with a crash; messages on the four kinds of channel with retries and restarts; two replicas' health stores; every allowlist over the names and ranges of the model; three swaps of the TLS mount; replies of eight characters in chunks of three | `SettledReachesCaller`, `RepliesWhole`, `HealthIsEarned`, `AnsweredIsNotReprocessed`, `SilenceIsReal`, `NeverDialsBlocked`, `TransportTrustsCurrent`, `ChunksAreTheReply` |
| `HardBudgetRecovery` | two replicas across a rollover | **violation** of "Recovery is automatic on the first successful publish or fold": `dirtySince` survives the rollover that empties the counters, so there is nothing to publish and nothing clears it |
| `TaskInterrupted` | a task whose passes may end between two calls | **violation**: a resumed retry skips the mailbox reset, and the next attempt can complete from the old payload |
| `BudgetRestart` | one Pod that restarts in place | **violation** of "A restarting replica seeds from `_canonical` and folds live partials on top": the first fold replaces the seed and leaves out the Pod's own key |
| `AsyncSweep` | two replicas, no crash | **violation** of "no replica creates a record after this point, so the single sweep is final": a request past the write gate creates its record after the sweep's list |

Every property stands with a comment in its module that says what it means and
which code it is about. Every property of a passing run is violated by at least
one plausible mistake in the code (`mutants` in `PROJECT.json`): a dropped guard,
a missing watch, an off-by-one, a swapped order.

**Bounds.** The `Max...` constants, `Disturbances`, `Rotations` and `Horizon` cap
counters in the guards of the actions that raise them. They are chosen so that
each case can happen and meet the others. Three tokens let a second and a third
request meet a held slot; the clocks of the budget runs cross a period; three
Pods are two attempts and an evicted one; a new
agent whose timeouts are one tick each has the time to go to sleep, and one that
starts asleep (`Bedtime`, `Asleep`) the time to wake and sleep again; a chain of three providers and a dangling
name, each list of at most two, has every cycle, diamond and broken edge a longer one is built of; a page of
two leaves objects on both sides of a page boundary; a window of two ticks with a
cache of two lets a health answer outlive what it reports, and a list that keeps one
observation before the newest drops one from the window with the third; chunks of three have a
second half that may or may not hold a newline. Model values are symmetric only
in `BudgetPeers`, where no liveness is checked; its view leaves out the reported
usage, which nothing reads.

**Deadlock** is checked in every passing run but `Task`. Where a component may
really stop (a deleted object, a clock at its bound) a named step lets it rest:
`Rests`, `ClockEnds`, `StreamDone`, `ToolDone`, `ChunksDone`, `PolicyRests`. A
task that has settled stops, so `Task` does not check it.

**Fairness.** Request handlers return and settle in a `defer`; API calls return,
with or without an error; the clock advances. The work queue hands an object to
its reconciler whenever something it watches changes and when a requeue is due,
so the start of a pass is weakly fair, and so is the delivery of events to
informers. A pass may fail or be held any number of times but not for ever, so the
steps that make progress are strongly fair. Pods start, and deleted Pods go. For
the deletion of a channel only the reconciler and the clock are fair. Nothing is
assumed of users, agents, classes, traffic, upstreams or, there, the gateways. The
safety runs assume no fairness.

## What is proved

Eight modules hold proofs. Each theorem is for any sets of replicas, requests,
objects and the like and for any timeouts and bounds that satisfy the component's
named assumption; `ASSUME ConstantsAssumption` in the modules of the runs has TLC
evaluate those of the instances. No property is inductive as it stands, except
`OutcomeIsFinal`; what each proof turns on is the strengthening. Every proof has
one step, or one lemma, per action.

| Module | Theorem | States | The argument |
|---|---|---|---|
| `HardBudgetProofs` | `TypeCorrect` | types | lemmas on the operations on a ledger (`LedgerForType`, `RecordFrame`, `FreeSlotsType`, `FoldPeersType`) |
| | `SlotsCorrect`, `Serialized` | `SlotsMatchHolders`; no two requests share a ceiling's slot | tokens in use were issued, so a new one is fresh; no ledger is ahead of the clock, so a rollover never returns to a period with holders; a request in flight occupies the slot of its own namespace or of the cluster with its own token |
| | `Capped` | `SerializedSpendCapped` with `BlocksOnTop` | a namespace with a holder was below the threshold when the holder was admitted and has had no serialized spend since, which needs `Serialized` |
| | `PeersPublished` | `PeersWerePublished` with `WithinOnePeriod` | what was folded, what a publish under way will write and what is published are each below what the replica's own ledger holds, cents by cents, because spend only grows (`Below`, and lemmas that rounding and folding are monotone) |
| `AgentTaskProofs` | `Invariant`, `OutcomeFinal` | types; `OutcomeIsFinal` | every write is conditional on the version the pass read |
| | `AttemptsCounted`, `SuccessReported` | `EveryAttemptCounts`, `SuccessWasReported`, in every setting | every copy of the task that a pass holds is no further than the stored one, and what can still be written from it counts no less; every success on its way (in a handler, the mailbox, a cached mailbox, a pass that completes) was reported by a Pod of a counted attempt (`TruthInv`) |
| `AgentLifecycleProofs` | `Invariant`, `VolumeSurvives`, `WakeKept`, `WokenStays`, `SleepsOnSilence` | `RetainedVolumeSurvives`, `WakeNotDropped`, `WokenStaysUp`, `SleepsOnlyWhenSilent` | what a pass under way may still believe: its copy is no newer than the object, its activity no newer than the clock, and a copy that predates a wake can no longer be written |
| `LLMRequestProofs` | `Invariant` | only the top frame of the walk is not waiting for a fallback, every provider tried has been visited, and a handler's slot is the primary's, the attempt's or the winner's | lemmas on what a replaced, pushed or popped frame leaves of the stack (`Replaced`, `Appended`, `Popped`) |
| | `Implements` | `ImplementsOutcome`: the recursive walk implements `RequestOutcome` | initial states map to initial states, and each action to one abstract step or none |
| | `CauseNamed` | `AnswerNamesTheCause` | what the walk has observed is what became of the attempts that have ended, the primary is tried first and was let through by its budget, and nothing is tried after the answer; so the classes `exhaustionError` reads are those of the tries |
| | `ChargedInFull` | `ChargedWhatWasRead` | usage is read only by a relay and charged in the step that ends it, so the units not yet charged are a finite set that grows by one element per read (`ReadsOne`) and empties into the ledger (`ChargesAll`) |
| `WireProofs` | `Invariant`, `SessionsOwned`, `ListedCallable` (`ToolBroker`) | `SessionsStayWithTheirOwner`, `ListedIsCallable` | a call keeps the policy it was checked against, and a session the caller it was opened for |
| | `RevocationBounded` (`CallerAuth`) | `RevocationTakesHold` | no verdict of a review begun after the revocation is accepted or cached, and `cacheTTL` is between nothing and its cap |
| | `WithinTwiceTheLimit` (`RateLimit`) | `MinuteBound` | for every number of ticks since the replicas changed, what a bucket holds and what it let through in them is no more than a full bucket and the refills of those ticks; lemmas on sums (`SumGrows`, `SumShifts`, `SharesAdd`) carry it over an allowed request, a tick and the replicas |
| `AsyncChannelProofs` | `Invariant`, `AnswerReachesCaller` | `SettledReachesCaller` | record and 202 carry one time, so pruning, the gateway's expiry and the sweep all come after the hour or the deletion; `RecordsGo` is the lemma for the three |
| `CatalogueProofs` | `Invariant`, `TrimmedIsTrue` (`StorageMigration`) | `NeverLies` | an object still stored at the old version is on the page in hand or after it |
| | `SecretsServedLive` (`SecretWatch`) | `ServedByARunningInformer` | a waiting read holds the informer of the map, used since the read began, and waits less than the lease; needs `SyncTimeout` below `IdleTTL` (2 s and 1 h in the code) |
| | `LoadsFresh` (`TrustLoader`) | `FreshWhenQuiet` | a modification time identifies a version, number and form, for what is cached and for what a load has read so far |
| | `StatusStands` (`Catalogue`) | `VerdictsStand` | a class or ToolProvider that is not queued carries the verdict of the caches as they are, also while its own last write is undelivered; each delivery that could change the verdict enqueues it (`ClassesFor`, `ToolProvidersFor`) |
| | `FollowableAccepted` (`FallbackChain`) | `AcceptsFollowable` | the queue holds edges of visited providers, none twice; what is visited is the primary and the ends of the edges walked and lies in every closed set; a problem is a fault of an edge walked or a name met twice. With the queue empty the visited names are closed, so they are the reachable ones; and each name is first met from one visited before it, so that without a second meeting no set of providers falls back only on itself |
| `GatewayProofs` | `TransportCurrent` (`RuntimeTLS`) | `TransportTrustsCurrent` | neither a transport nor a request under way is ahead of the reloader's generation |
| | `DialsAllowed` (`CallbackPolicy`) | `NeverDialsBlocked` | the policy is the one of the entries, and what was checked by it may be dialed, whatever the name resolves to later |
| | `SilenceJudgedRight` (`ChannelHealth`) | `SilenceIsReal` | a replica that answered with silence held nothing from the window when it was asked, and what it has lost since is from before its start or the window, or was pushed out of its list by a later observation that it holds |
| | `AnsweredOnce` (`AgentRuntime` in `ChannelDelivery`) | `AnsweredIsNotReprocessed` | a reply counts as kept only while it is in the window and, with a volume, on it; lemmas on what remembering an id does to the order |
| | `RepliesAreWhole`, `HealthEarned` (`ChannelDelivery`) | `RepliesWhole`, `HealthIsEarned` | what holds of one message at each stage of its pipeline, chat, health and context; a step for one message leaves the others alone |

Which attempt a task's payload comes from is another matter than that it was
reported. `PayloadOfThisAttempt` holds of the code only in calm settings: a deleted
Pod is gone at once, no pass is interrupted, the manager's cache is current and the gateway decides a completion on a current task.
TLC violates it when any one of the four is dropped: `TaskInterrupted` keeps the
interrupted pass, "Where code and text part" says what the lagging cache and the
slow termination do, and a completion decided on an old task lands in the mailbox of
the next attempt. So it is not claimed, only refuted, in `TaskInterrupted`; `EveryAttemptCounts` and `SuccessWasReported` are what is left of it in
every setting, and are checked in `Workloads` and proved.

`WithinOnePeriod` keeps the clock in the first period. Across a rollover
`PeersWerePublished` does not hold of the code: a fold read before it and installed
after it overcounts for one publish interval (see below). The run `BudgetPeers`
checks the property on an instance within one period.

What stays with TLC:

- Liveness (`SlotReleased`, `WakeServed`, `DeletionCompletes`, `VerdictsSettle`,
  `EventuallySettles`): fairness and `ENABLED` are out of the prover's reach.
- What a recursion over data computes, which would need induction:
  `TranslatesFaithfully`, `WellFormedForTheCaller`, `NothingLostInTranslation`,
  `ChunksAreTheReply`.
- `PublishedSpendAccounted` equates sums over Pods that come and go, which would
  need induction over the set of Pods.

## Where code and text part

Besides the four violations, these were met while modelling. The models follow
the code; where a property stops short because of one, its comment says so.

- **Budgets.** A settle that lands between a publish snapshot and its
  acknowledgement is cleared from `dirtySince` when both carry the same clock
  reading (`gateway/budget.go:410`); `HardBudget` makes a settle wait for the clock
  to pass a pending snapshot. A fold read before a rollover and installed after it
  overcounts for one publish interval (`budget.go:641`). A terminating Pod that
  publishes after its key was retired is retired again and counted twice. The
  archive of a period in `status.budgetUsage` lasts one pass. A warn or degrade
  policy above the block threshold lifts the cap, because the highest threshold
  reached wins.
- **Tasks.** A pass over a lagging Pod cache can create a second Pod
  (`agenttask_controller.go:203`). With slow terminations the pass after a retry
  stamps the terminating Pod again and re-opens the completion gate for it. A
  reported task without a timeout whose Pod exits 0 without a report stays Running.
- **Agents.** A gateway replica that restarts forgets the activity it saw, and after
  `idleTimeout` its empty store counts as silence; the documentation also compares
  the restart with `phaseTransitionTime`, `evaluateActivity` does not. A class that
  cannot be read during deletion counts as retention `Delete`
  (`agent_controller.go:866`). A wake in any phase but Hibernated is removed and
  ignored.
- **Messages.** The agent runtime looks a message up before the handler runs and
  remembers it afterwards, so that two attempts in flight together both run it;
  `docs` and the comment on `messageHandler` speak of a message handled once.
  `AnsweredIsNotReprocessed` is about attempts that come after the reply is
  remembered. Meta repeats an event whose 200 was lost, and
  the repetition is delivered as a new message, although the comment at
  `whatsapp.go:221` says that the retry "never duplicates a message the gateway
  accepted". Past its ten-minute deadline an
  asynchronous pipeline ends without storing even an error, although the comment on
  `runAsyncPipeline` says it has no deadline. The cap on pending records is checked
  before the create, so it is approximate.
- **Channels.** `validateDiscordPublicKey` (`agentchannel_controller.go:431`) trims
  white space before it decodes the key and calls the result "the only shape the
  adapter's verifier accepts"; the adapter (`gateway/discord.go:234`) decodes the
  value as it is. A key with a trailing newline makes a channel Ready whose every
  interaction is refused. In `ChannelReconciler` a `"padded"` key counts as valid,
  as it does in that code.
- **Catalogue.** `reconcilers.md` has the ModelProvider watch its Secret, which it does
  not, and a network error or 5xx of the probe leave Ready as it was, where the code
  sets it to True, also after a rejected credential. A diamond of fallbacks, and a provider
  named twice, are rejected as circular, although rule 11
  (`validation-and-defaulting.md:30`, `reconcilers.md:77`) is that chains end and the
  gateway would try the provider once. A fallback whose Get fails otherwise than with
  NotFound is passed over (`modelprovider_controller.go:241`), and what is behind it is
  accepted unchecked until the next pass. A hold on deletion reads caches, so
  a reference created at the last moment may be missed.
- **Wire.** The comment at `ratelimit.go:28` has bursts exceed the limit "by up to one
  replica's share"; every replica's bucket may be full when a minute begins, so that the
  bound that holds, and that `MinuteBound` states, is twice the limit. An input count
  that an Anthropic upstream corrects in `message_delta` is told to the caller but not
  metered: `accumulateStreamUsage` reads it from `message_start` alone. A replica's
  bucket is capped at its share of the limit, so that a limit
  below the number of replicas lets nothing through at all. A delta of an OpenAI tool
  call that comes after the next call has begun goes to a block already closed; `StreamTranslation` has upstreams that finish a call
  first. A buffered response with tool calls and finish reason `length` or
  `content_filter` gets another stop reason than the same response streamed.
  `workload-identity.md` has the gateway list Pods live before it declares a failed
  cross-check on a completion; `auth.go:98` does so when its cache knows no Pod at
  the address, not when it knows an old one.

## Not modelled

- **Console** (`console/`): views over the cluster and a relay of test chats whose
  gateway side is in `ChannelDelivery`; its reviewed tokens and sessions are maps
  with an expiry that nothing else uses.
- **Conversion, API types and defaults** (`api/`): a field-by-field copy without
  state, apart from the compatibility of fallback formats in `FallbackChain`.
- **Builders of derived objects** (`*_desired.go`): pure functions from a
  specification to a Pod, Service, NetworkPolicy or ConfigMap. That they are created,
  hashed, replaced and removed is modelled; their contents are data.
- **Clients and process start-up** (`mcp/`, `probe_client.go`, `vertex.go`, `cmd/`,
  `gateway/server.go`): I/O whose outcomes are the nondeterministic answers of the
  modules that call them.
- **Metrics, tracing, events, audit records and the per-workload figures of spend**
  (`modelprovider_agentspend.go`): derived data that nothing decides on.
- **Signatures, certificates and payload formats**: verdicts in `CallerAuth` and
  `ChannelDelivery`.
- Inside modelled parts: the guard of the channel reconciler against the system
  namespace, the switch that turns the source address check off, sampling parameters
  and buffered response bodies in translation, the drift report of tool catalogues.
