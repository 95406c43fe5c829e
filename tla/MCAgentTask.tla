---------------------------- MODULE MCAgentTask -----------------------------
(* Instances of AgentTask for TLC: task specifications in environments. *)
EXTENDS AgentTask

\* Reported by the agent, with a timeout and a TTL, undisturbed.
Reported == [reported |-> TRUE, timeout |-> TRUE, succeed |-> FALSE, ttl |-> TRUE,
             slow |-> FALSE, interrupts |-> FALSE, lag |-> FALSE,
             gatewayLag |-> FALSE]
\* Completed by the exit of the container; a timeout is a success.
ByExit == [Reported EXCEPT !.reported = FALSE, !.succeed = TRUE]

Calm == {Reported, ByExit}
Hostile ==
  {[Reported EXCEPT !.ttl = FALSE, !.slow = TRUE, !.interrupts = TRUE,
                    !.gatewayLag = TRUE],
   [ByExit EXCEPT !.succeed = FALSE, !.timeout = FALSE, !.interrupts = TRUE,
                  !.lag = TRUE]}
InterruptedPasses ==
  {[Reported EXCEPT !.ttl = FALSE, !.timeout = FALSE, !.interrupts = TRUE]}
=============================================================================
