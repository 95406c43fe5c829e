---------------------------- MODULE MCWorkloads ----------------------------
(***************************************************************************)
(* AgentTask and AgentLifecycle on small instances, one at a time: focus   *)
(* names the part that runs, and the Agent rests in an initial state while *)
(* the task runs.                                                          *)
(*                                                                         *)
(* The Agent is new, has time for one sleep and is disturbed once, or is   *)
(* left alone under the eyes of two gateway replicas; or it is asleep and  *)
(* has time for another sleep.                                             *)
(***************************************************************************)
EXTENDS MCAgentTask, WorkloadsParts

VARIABLE focus

ASSUME ConstantsAssumption == AgentTaskAssumption /\ Agent!AgentLifecycleAssumption

\* When an Agent that was up at 1 and saw no later traffic goes to sleep.
Bedtime == 2 + IdleTimeout + HibernationDelay

\* It sleeps since then; a gateway saw its last request, or has restarted.
Asleep ==
  /\ now = Bedtime
  /\ agent = [Agent!NewAgent EXCEPT !.finalizer = TRUE, !.phase = "Hibernated",
                                    !.last = 1, !.since = Bedtime]
  /\ pod = Agent!NoPod /\ volume = "owned"
  /\ violates \in BOOLEAN
  /\ store \in [Replicas -> [started : {1}, traffic : {Agent!Never, 1}]]
  /\ fetched = Agent!NothingFetched /\ agentPass = Agent!Idling
  /\ woke = Agent!Never /\ wakes = 0 /\ troubles = 0

\* Bounds: the clock of a new Agent ends when it may sleep.  A pair of gateway
\* replicas watches an Agent that nothing disturbs or wakes; otherwise one replica
\* cannot be reached and sees nothing.
AgentTime == IF focus = "sleeper" THEN MaxTime ELSE Bedtime
Reached == CHOOSE r \in Replicas : TRUE
WithinBounds ==
  /\ now <= AgentTime
  /\ IF focus = "pair" THEN troubles = 0 /\ wakes = 0
     ELSE \A r \in Replicas \ {Reached} :
            store[r] = [started |-> 1, traffic |-> Agent!Never] /\ r \notin DOMAIN fetched.replicas

WorkloadsInit ==
  /\ focus \in {"task", "agent", "pair", "sleeper"}
  /\ IF focus = "task" THEN Init
     ELSE /\ setting = 0 /\ task = NoTask /\ pods = 0 /\ mailbox = 0 /\ expired = 0 /\ report = 0
          /\ posts = 0 /\ inflight = 0 /\ evictions = 0 /\ pass = 0
          /\ tcache = 0 /\ pcache = 0 /\ mcache = 0 /\ gtask = 0
  /\ IF focus = "sleeper" THEN Asleep ELSE Agent!Init
  /\ focus = "task" => ~violates
  /\ WithinBounds

\* A settled task, a deleted Agent and a clock at its end may rest.
Rests ==
  /\ IF focus = "task" THEN task.done \/ ~task.exists
     ELSE now = AgentTime \/ ~agent.exists
  /\ UNCHANGED <<focus, vars, lifecycleVars>>

WorkloadsNext ==
  \/ focus = "task" /\ Next /\ UNCHANGED <<focus, lifecycleVars>>
  \/ focus # "task" /\ Agent!Next /\ UNCHANGED <<focus, vars>> /\ WithinBounds'
  \/ Rests

WorkloadsSpec == WorkloadsInit /\ [][WorkloadsNext]_<<focus, vars, lifecycleVars>>
=============================================================================
