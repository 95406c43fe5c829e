------------------------------- MODULE MCLive -------------------------------
(***************************************************************************)
(* What must eventually happen outside tasks and the catalogue, on small   *)
(* instances, one part at a time: the slots of HardBudget, with its safety *)
(* on one replica, the wake of an Agent, the deletion of a channel with    *)
(* asynchronous requests, and the verdicts of the channel reconciler.      *)
(* focus names the part that runs, and the others rest in an initial       *)
(* state.  The safety of the other parts is checked on larger instances.   *)
(***************************************************************************)
EXTENDS HardBudget

CONSTANTS
  Gateways,                                                  \* gateway replicas
  IdleTimeout, HibernationDelay, CacheWindow, MaxWakes, AgentTime,   \* AgentLifecycle
  Requests, MaxPending, Attempts, AsyncTTL, PipelineTimeout,
  DisconnectTimeout, MaxCrashes, AsyncTime,                  \* AsyncChannel
  MaxEdits                                                   \* ChannelReconciler

VARIABLES
  focus,
  agentClock, agent, pod, volume, violates, store, fetched, pass, woke, wakes, troubles,
  asyncClock, channel, seen, req, record, sweep, crashes,
  api, cache, role, bindings, seenRole, addrs, queue, timed, edits, may

\* Two channels that claim one path, or one, and what may happen to them.
NewChannel(exists, second, type) ==
  [exists |-> exists, deleting |-> FALSE, finalizer |-> FALSE, second |-> second, uid |-> 0,
   type |-> type, path |-> "p", refs |-> {"s"}, ready |-> FALSE, phase |-> "none",
   disconnected |-> FALSE]
ChannelStart(a, b, secret, leftovers, kinds) ==
  [api |-> [a |-> a, b |-> b, agent |-> "running", secret |-> secret],
   addrs |-> {"public"}, leftovers |-> leftovers, may |-> kinds]
ChannelStarts ==
  {ChannelStart(NewChannel(TRUE, 0, "webhook"), NewChannel(TRUE, 1, "webhook"), "good",
                {}, {"delete"}),
   ChannelStart(NewChannel(TRUE, 0, "webhook"), NewChannel(FALSE, 0, "webhook"), "good",
                {}, {"create"}),
   ChannelStart(NewChannel(TRUE, 1, "webhook"), NewChannel(TRUE, 1, "discord"), "good",
                {}, {"spec", "restart"}),
   ChannelStart(NewChannel(FALSE, 1, "discord"), NewChannel(TRUE, 1, "discord"), "padded",
                {}, {"agent", "secret", "fault"}),
   ChannelStart(NewChannel(TRUE, 1, "webhook"), NewChannel(FALSE, 0, "discord"), "good",
                {}, {"agent", "addrs", "rbac"}),
   ChannelStart(NewChannel(TRUE, 1, "webhook"), NewChannel(FALSE, 0, "discord"), "good",
                {"a"}, {"restart", "fault"})}

Agent == INSTANCE AgentLifecycle WITH
  Replicas <- Gateways, Retain <- TRUE, ClassReadFails <- TRUE, MaxTime <- AgentTime,
  MaxTroubles <- 0, now <- agentClock
Async == INSTANCE AsyncChannel WITH
  Replicas <- Gateways, Abandoned <- {}, HasCallback <- TRUE, MaxTime <- AsyncTime,
  now <- asyncClock
Reconciler == INSTANCE ChannelReconciler WITH Starts <- ChannelStarts

ASSUME ConstantsAssumption == Agent!AgentLifecycleAssumption /\ Async!AsyncChannelAssumption

agentVars == <<agentClock, agent, pod, volume, violates, store, fetched, pass, woke, wakes, troubles>>
asyncVars == <<asyncClock, channel, seen, req, record, sweep, crashes>>
reconcilerVars == <<api, cache, role, bindings, seenRole, addrs, queue, timed, edits, may>>

LiveInit ==
  /\ focus \in {"budget", "agent", "async", "reconciler"}
  /\ Init
  /\ Agent!Init /\ (focus # "agent" => ~violates)
  /\ Async!Init
  /\ Reconciler!Init /\ (focus # "reconciler" => may = {"create"})

\* The clocks of the Agent and of the records end, and a deleted Agent is gone.
Rests ==
  /\ \/ focus = "agent" /\ (agentClock = AgentTime \/ ~agent.exists)
     \/ focus = "async" /\ asyncClock = AsyncTime
  /\ UNCHANGED <<focus, vars, agentVars, asyncVars, reconcilerVars>>

\* The steps of each part leave the others alone.
InBudget == focus = "budget" /\ UNCHANGED <<focus, agentVars, asyncVars, reconcilerVars>>
InAgent == focus = "agent" /\ UNCHANGED <<focus, vars, asyncVars, reconcilerVars>>
InAsync == focus = "async" /\ UNCHANGED <<focus, vars, agentVars, reconcilerVars>>
InReconciler == focus = "reconciler" /\ UNCHANGED <<focus, vars, agentVars, asyncVars>>

LiveNext ==
  \/ InBudget /\ Next
  \/ InAgent /\ Agent!Next
  \/ InAsync /\ Async!Next
  \/ InReconciler /\ Reconciler!Next
  \/ Rests

\* The fairness of each part, while it is the one that runs.  As only one runs,
\* fairness of a disjunction over parts is the fairness of each.
all == <<focus, vars, agentVars, asyncVars, reconcilerVars>>
LiveFairness ==
  /\ SF_all(\/ InBudget /\ \E r \in Replicas : SettleSome(r)
            \/ InAgent /\ (Agent!CommitWake \/ Agent!RemoveWake \/ Agent!Degrade
                                   \/ Agent!BeginTeardown)
            \/ InAsync /\ Async!SweepDelete)
  /\ SF_all(\/ InAgent /\ Agent!Converge
            \/ InAsync /\ Async!Release)
  /\ SF_all(InAgent /\ Agent!Evaluate)
  /\ SF_all(InAgent /\ Agent!WriteStatus)
  /\ WF_all(\/ InBudget /\ Tick
            \/ InAgent /\ (Agent!Begin \/ Agent!StayHibernated)
            \/ InAsync /\ (Async!Announce \/ Async!SweepList)
            \/ InReconciler /\ Reconciler!Informed)
  /\ WF_all(\/ InBudget /\ \E r \in Replicas : PublishApplied(r) \/ PublishFailed(r)
            \/ InAgent /\ (Agent!PodStarts \/ Agent!PodGone)
            \/ InAsync /\ Async!Tick
            \/ InReconciler /\ Reconciler!Reconcile("a"))
  /\ WF_all(InReconciler /\ Reconciler!Reconcile("b"))
  /\ WF_all(InReconciler /\ Reconciler!Fire("a"))
  /\ WF_all(InReconciler /\ Reconciler!Fire("b"))

LiveSpec == LiveInit /\ [][LiveNext]_all /\ LiveFairness

-----------------------------------------------------------------------------
\* A wake on a hibernated agent brings it up, unless something is wrong with it.
WakeServed == Agent!WakeServed

\* A deleted channel goes away though no gateway confirms.
DeletionCompletes == Async!DeletionCompletes

\* When edits cease, what the status of each channel says becomes and stays so.
VerdictsSettle == <>[](focus = "reconciler" => Reconciler!AsDeclared)
=============================================================================
