--------------------------- MODULE WorkloadsParts ---------------------------
(***************************************************************************)
(* The Agent next to a task: what AgentLifecycle promises is stated here   *)
(* once, for the run that checks it and the proof of it.                   *)
(***************************************************************************)
EXTENDS Integers, FiniteSets

CONSTANTS
  Replicas, IdleTimeout, HibernationDelay, CacheWindow, Retain, ClassReadFails, MaxTime,
  MaxWakes, MaxTroubles  \* AgentLifecycle

VARIABLES
  now, agent, pod, volume, violates, store, fetched, agentPass, woke, wakes, troubles

Agent == INSTANCE AgentLifecycle WITH pass <- agentPass

lifecycleVars == <<now, agent, pod, volume, violates, store, fetched, agentPass, woke, wakes, troubles>>

\* A retained volume outlives its Agent.
RetainedVolumeSurvives == Agent!RetainedVolumeSurvives

\* A wake on a hibernated agent is never dropped.
WakeNotDropped == Agent!WakeNotDropped

\* A woken agent gets its whole idle time before it sleeps again.
WokenStaysUp == Agent!WokenStaysUp

\* An agent goes to sleep only if every replica that answered saw no traffic.
SleepsOnlyWhenSilent == Agent!SleepsOnlyWhenSilent
=============================================================================
