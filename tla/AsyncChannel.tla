---------------------------- MODULE AsyncChannel ----------------------------
(***************************************************************************)
(* Asynchronous webhook requests of one AgentChannel: a gateway replica    *)
(* accepts a message with 202 once it has created the polling record, then *)
(* wakes the agent, delivers the message, sends the answer to the callback *)
(* URL or stores it in the record, all in memory.  Meanwhile the           *)
(* AgentChannelReconciler prunes expired records, and, when the channel is *)
(* deleted, announces it, waits for a gateway to confirm, sweeps the       *)
(* records and lets the channel go.                                        *)
(*                                                                         *)
(* The agent, the callback receiver and the API server answer as they      *)
(* please; the channel is Ready as long as it exists.  Requests that are   *)
(* turned away before the pending count leave no trace and are not steps.  *)
(***************************************************************************)
EXTENDS Integers, FiniteSets

CONSTANTS
  Replicas, Requests,
  Abandoned,          \* requests lost with their replica beforehand, polled in vain
  MaxPending,         \* spec.webhook.maxPendingAsyncResponses
  HasCallback,        \* spec.webhook.callbackUrl is set
  Attempts,           \* attempts of the bounded retry schedule
  AsyncTTL,           \* lifetime of a record
  PipelineTimeout,    \* deadline of the background pipeline
  DisconnectTimeout,  \* how long the finalizer waits for a gateway
  MaxCrashes,         \* bound: replica crashes
  MaxTime             \* bound: clock

\* What the constants must be.
AsyncChannelAssumption ==
  /\ IsFiniteSet(Replicas) /\ IsFiniteSet(Requests) /\ Abandoned \subseteq Requests
  /\ HasCallback \in BOOLEAN
  /\ {AsyncTTL, PipelineTimeout, DisconnectTimeout, MaxCrashes, MaxTime} \subseteq Nat
  /\ {MaxPending, Attempts} \subseteq Nat \ {0}

VARIABLES
  now,      \* the clock
  channel,  \* the AgentChannel in the API server
  seen,     \* the phase each replica has in its cache
  req,      \* each request, in the memory of the replica that took it
  record,   \* the kaalm-async-{requestId} ConfigMaps
  sweep,    \* the finalizer's progress
  crashes

vars == <<now, channel, seen, req, record, sweep, crashes>>

Never == MaxTime + 1
NoRecord == [present |-> FALSE, createdAt |-> 0, payload |-> FALSE]
NotSweeping == [at |-> "idle", listed |-> {}]

\* A request moves through the stages; how it ended is in end.
NoReplica == "none"
NewRequest == [stage |-> "new", replica |-> NoReplica, tries |-> 0,
               accepted |-> FALSE, startedAt |-> 0, received |-> FALSE, end |-> "none"]
Ended(r, how) ==
  [r EXCEPT !.stage = "done", !.end = how, !.replica = NoReplica, !.tries = 0]

\* The polling record's age in the gateway's eyes.
Expired(q) == now - record[q].createdAt > AsyncTTL

-----------------------------------------------------------------------------
(* Intake *)

Step(q, r) == req' = [req EXCEPT ![q] = r]
End(q, how) == Step(q, Ended(req[q], how))

\* handleWebhook up to the write gate, judged on the replica's cache.
Intake(q, r) ==
  /\ req[q].stage = "new"
  /\ seen[r] = "Active"
  /\ Step(q, [req[q] EXCEPT !.stage = "count", !.replica = r])
  /\ UNCHANGED <<now, channel, seen, record, sweep, crashes>>

CountPending == Cardinality({q \in Requests : record[q].present})

\* The pending cap; an error of the list lets the request through.
Count(q) ==
  /\ req[q].stage = "count"
  /\ \/ CountPending >= MaxPending /\ End(q, "refused")
     \/ Step(q, [req[q] EXCEPT !.stage = "create"])
  /\ UNCHANGED <<now, channel, seen, record, sweep, crashes>>

Placeholder == [present |-> TRUE, createdAt |-> now, payload |-> FALSE]
Accepted(q) == [req[q] EXCEPT !.accepted = TRUE, !.startedAt = now]

\* The placeholder, then the 202 and the pipeline; the agent is woken first if
\* the cache says it hibernates.  A create that fails may still have happened.
Create(q) ==
  /\ req[q].stage = "create"
  /\ \/ /\ record' = [record EXCEPT ![q] = Placeholder]
        /\ \E stage \in {"wake", "deliver"} : Step(q, [Accepted(q) EXCEPT !.stage = stage])
     \/ /\ record' \in {record, [record EXCEPT ![q] = Placeholder]}
        /\ End(q, "refused")
  /\ UNCHANGED <<now, channel, seen, sweep, crashes>>

-----------------------------------------------------------------------------
(* The background pipeline *)

TimedOut(q) == now - req[q].startedAt > PipelineTimeout

\* The answer, or the error envelope, is ready to be handed over.
Dispatch(q) ==
  Step(q, [req[q] EXCEPT !.stage = IF HasCallback THEN "callback" ELSE "patch", !.tries = 0])

\* An attempt failed: try again while the schedule and the deadline allow it.
RetryOr(q, r, giveUp) ==
  IF r.tries + 1 < Attempts /\ ~TimedOut(q)
  THEN Step(q, [r EXCEPT !.tries = @ + 1])
  ELSE giveUp

\* Activator.Wake and waitAgentReachable.
Wake(q) ==
  /\ req[q].stage = "wake"
  /\ \/ ~TimedOut(q) /\ Step(q, [req[q] EXCEPT !.stage = "deliver"])
     \/ Dispatch(q)
  /\ UNCHANGED <<now, channel, seen, record, sweep, crashes>>

\* deliverToAgent: an answer or one that is too large ends it, an error is retried.
Deliver(q) ==
  /\ req[q].stage = "deliver"
  /\ \/ ~TimedOut(q) /\ Dispatch(q)
     \/ RetryOr(q, req[q], Dispatch(q))
  /\ UNCHANGED <<now, channel, seen, record, sweep, crashes>>

ToPatch(q, r) == Step(q, [r EXCEPT !.stage = "patch", !.tries = 0])

\* Mutant: a callback that is given up counts as handed over.
CallbackForgets(q) ==
  /\ req[q].stage = "callback"
  /\ \/ ~TimedOut(q) /\ Step(q, Ended([req[q] EXCEPT !.received = TRUE], "delivered"))
     \/ RetryOr(q, req[q], End(q, "delivered"))
  /\ UNCHANGED <<now, channel, seen, record, sweep, crashes>>

\* sendCallback: delivered; invalid or rejected at once; or retried, in which
\* case the receiver may have got it all the same.
Callback(q) ==
  /\ req[q].stage = "callback"
  /\ \/ /\ ~TimedOut(q)
        /\ Step(q, Ended([req[q] EXCEPT !.received = TRUE], "delivered"))
     \/ ToPatch(q, req[q])
     \/ \E got \in {req[q].received, ~TimedOut(q) \/ req[q].received} :
          LET r == [req[q] EXCEPT !.received = got] IN RetryOr(q, r, ToPatch(q, r))
  /\ UNCHANGED <<now, channel, seen, record, sweep, crashes>>

Patched(q) == [record EXCEPT ![q].payload = TRUE]

\* patchWithRetry: fails for good on a record that is gone; past the deadline it
\* returns without even the metric.  A patch that fails may still have happened.
Patch(q) ==
  /\ req[q].stage = "patch"
  /\ \/ ~TimedOut(q) /\ record[q].present /\ record' = Patched(q) /\ End(q, "stored")
     \/ /\ record' = record \/ (~TimedOut(q) /\ record[q].present /\ record' = Patched(q))
        /\ RetryOr(q, req[q], End(q, IF TimedOut(q) THEN "timedOut" ELSE "dropped"))
  /\ UNCHANGED <<now, channel, seen, sweep, crashes>>

\* The replica dies, and what it had in memory with it.
Crash(r) ==
  /\ crashes < MaxCrashes
  /\ crashes' = crashes + 1
  /\ req' = [q \in Requests |->
       IF req[q].replica = r THEN Ended(req[q], "lost") ELSE req[q]]
  /\ seen' = [seen EXCEPT ![r] = channel.phase]
  /\ UNCHANGED <<now, channel, record, sweep>>

-----------------------------------------------------------------------------
(* The channel and its deletion *)

\* The replica's watch catches up.
Observe(r) ==
  /\ seen[r] # channel.phase
  /\ seen' = [seen EXCEPT ![r] = channel.phase]
  /\ UNCHANGED <<now, channel, req, record, sweep, crashes>>

\* Any replica that has seen the announcement confirms for all of them.
Confirm(r) ==
  /\ seen[r] = "Terminating" /\ channel.phase # "Gone" /\ ~channel.disconnected
  /\ channel' = [channel EXCEPT !.disconnected = TRUE]
  /\ UNCHANGED <<now, seen, req, record, sweep, crashes>>

\* pruneAsyncConfigMaps on a live channel: records at or past their expiry.
Prune ==
  LET due == {q \in Requests : record[q].present /\ record[q].createdAt + AsyncTTL <= now}
  IN /\ channel.deletedAt = Never
     /\ due # {}
     /\ record' = [q \in Requests |-> IF q \in due THEN NoRecord ELSE record[q]]
     /\ UNCHANGED <<now, channel, seen, req, sweep, crashes>>

UserDeletes ==
  /\ channel.deletedAt = Never /\ now + DisconnectTimeout <= MaxTime
  /\ channel' = [channel EXCEPT !.deletedAt = now]
  /\ UNCHANGED <<now, seen, req, record, sweep, crashes>>

Announce ==
  /\ channel.deletedAt # Never /\ channel.phase = "Active"
  /\ channel' = [channel EXCEPT !.phase = "Terminating"]
  /\ UNCHANGED <<now, seen, req, record, sweep, crashes>>

Listed == [at |-> "listed", listed |-> {q \in Requests : record[q].present}]

\* Mutant: the finalizer waits for the gateway without a bound.
SweepListUnbounded ==
  /\ channel.phase = "Terminating" /\ sweep.at = "idle"
  /\ channel.disconnected
  /\ sweep' = Listed
  /\ UNCHANGED <<now, channel, seen, req, record, crashes>>

\* A gateway has confirmed, or has had its time: list the records.
SweepList ==
  /\ channel.phase = "Terminating" /\ sweep.at = "idle"
  /\ channel.disconnected \/ now - channel.deletedAt >= DisconnectTimeout
  /\ sweep' = Listed
  /\ UNCHANGED <<now, channel, seen, req, record, crashes>>

Without(S) == [q \in Requests |-> IF q \in S THEN NoRecord ELSE record[q]]

SweepDelete ==
  /\ sweep.at = "listed"
  /\ record' = Without(sweep.listed)
  /\ sweep' = [NotSweeping EXCEPT !.at = "swept"]
  /\ UNCHANGED <<now, channel, seen, req, crashes>>

\* One of the deletes, or the release, fails: the next pass starts over.
SweepFails ==
  /\ sweep.at # "idle"
  /\ \E S \in SUBSET sweep.listed : record' = Without(S)
  /\ sweep' = NotSweeping
  /\ UNCHANGED <<now, channel, seen, req, crashes>>

Release ==
  /\ sweep.at = "swept"
  /\ channel' = [channel EXCEPT !.phase = "Gone"]
  /\ sweep' = NotSweeping
  /\ UNCHANGED <<now, seen, req, record, crashes>>

Tick ==
  /\ now < MaxTime
  /\ now' = now + 1
  /\ UNCHANGED <<channel, seen, req, record, sweep, crashes>>

-----------------------------------------------------------------------------
Init ==
  /\ now = 0
  /\ channel = [phase |-> "Active", deletedAt |-> Never, disconnected |-> FALSE]
  /\ seen = [r \in Replicas |-> "Active"]
  /\ req = [q \in Requests |->
              IF q \in Abandoned THEN Ended([NewRequest EXCEPT !.accepted = TRUE], "lost")
              ELSE NewRequest]
  /\ record = [q \in Requests |-> IF q \in Abandoned THEN Placeholder ELSE NoRecord]
  /\ sweep = NotSweeping
  /\ crashes = 0

Next ==
  \/ \E q \in Requests :
       \/ \E r \in Replicas : Intake(q, r)
       \/ Count(q) \/ Create(q) \/ Wake(q) \/ Deliver(q) \/ Callback(q) \/ Patch(q)
  \/ \E r \in Replicas : Crash(r) \/ Observe(r) \/ Confirm(r)
  \/ Prune \/ UserDeletes \/ Announce
  \/ SweepList \/ SweepDelete \/ SweepFails \/ Release
  \/ Tick

Spec == Init /\ [][Next]_vars

\* The reconciler retries until a pass goes through, and time passes.  Nothing
\* is asked of the gateways: they may all be dead.
FairSpec ==
  /\ Spec
  /\ WF_vars(Announce \/ SweepList) /\ WF_vars(Tick)
  /\ SF_vars(SweepDelete) /\ SF_vars(Release)

-----------------------------------------------------------------------------
(* Properties *)

\* handlePoll on a channel that still exists.
Poll(q) ==
  IF ~record[q].present \/ Expired(q) THEN "404"
  ELSE IF record[q].payload THEN "200" ELSE "202"

\* An answer is never lost between callback and polling: when the pipeline of a
\* request ends otherwise than by a crash, its deadline or a patch given up,
\* the receiver has got the answer, or polling serves it, until the hour is
\* over or the channel is deleted.
SettledReachesCaller ==
  \A q \in Requests :
    req[q].end \in {"delivered", "stored"} =>
      \/ req[q].received
      \/ Poll(q) = "200"
      \/ channel.deletedAt # Never
      \/ now >= req[q].startedAt + AsyncTTL

\* A deleted channel goes away even if no gateway ever confirms and passes fail
\* on the way: the wait for the disconnect annotation is bounded.
DeletionCompletes == channel.deletedAt # Never ~> channel.phase = "Gone"

\* "No replica creates a record after this point, so the single sweep is final":
\* once a gateway has confirmed the disconnect and the channel is gone, none of
\* its records is left behind.
SweepIsFinal ==
  channel.phase = "Gone" /\ channel.disconnected =>
    \A q \in Requests : ~record[q].present
=============================================================================
