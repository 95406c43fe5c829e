----------------------------- MODULE AgentTask ------------------------------
(***************************************************************************)
(* The life of one AgentTask: the AgentTaskReconciler, the Pods it creates *)
(* for the attempts, the completion mailbox, the gateway's identity gate   *)
(* in front of it and the runtime's completion call.                       *)
(*                                                                         *)
(* A reconcile pass reads the task, its Pod and the mailbox from informer  *)
(* caches and then makes its API calls one by one; every call is a step of *)
(* its own.  A status write carries the resource version that was read: it *)
(* succeeds only on the current object, otherwise the pass ends in error.  *)
(***************************************************************************)
EXTENDS Integers, FiniteSets

CONSTANTS
  Settings,         \* the task specifications and environments considered
  BackoffLimit,     \* completion.backoffLimit
  MaxPods,          \* bound: Pods created
  MaxEvictions,     \* bound: Pods deleted by others (eviction, node loss)
  MaxPosts          \* attempts of one CompleteTask call

\* What the constants must be.
AgentTaskAssumption ==
  /\ Settings \subseteq [reported : BOOLEAN, timeout : BOOLEAN,
                        succeed : BOOLEAN, ttl : BOOLEAN,
                        slow : BOOLEAN, interrupts : BOOLEAN,
                        lag : BOOLEAN, gatewayLag : BOOLEAN]
  /\ BackoffLimit \in Nat
  /\ {MaxPods, MaxEvictions, MaxPosts} \subseteq Nat

VARIABLES
  setting,  \* the user's specification and what the environment may do
  task,     \* the AgentTask in the API server
  pods,     \* the Pods of the task
  mailbox,  \* the {task}-completion ConfigMap
  expired,  \* the timeout has passed since startTime
  report,   \* what each Pod reports: by its call, or by its exit
  posts,    \* attempts each Pod's completion call has used
  inflight, \* completion handlers past the gate, before their patch
  evictions, \* Pods deleted by others so far
  pass,     \* the reconcile pass under way
  tcache, pcache, mcache,  \* the controller's caches
  gtask     \* the gateway's cached AgentTask

moving == <<task, pods, mailbox, expired, report, posts, inflight, evictions,
            pass, tcache, pcache, mcache, gtask>>
vars == <<setting, moving>>
cacheVars == <<tcache, pcache, mcache, gtask>>
agentVars == <<report, posts, inflight, evictions>>

\* The user's specification: completion.condition is agentReported,
\* completion.timeout is positive, completion.onTimeout is Succeed,
\* ttlSecondsAfterFinished is set.
AgentReported == setting.reported
HasTimeout == setting.timeout
OnTimeoutSucceed == setting.succeed
HasTTL == setting.ttl

\* The environment: a deleted Pod runs on through its grace period, a pass may
\* end between two calls (an error or a crash), the controller's caches lag the
\* API server, the gateway's cache lags and its handler takes time.
SlowTermination == setting.slow
Interrupts == setting.interrupts
CacheLag == setting.lag
GatewayLag == setting.gatewayLag

PodIDs == 1..MaxPods
NoPod == 0
Empty == [status |-> "none", from |-> NoPod]

\* attempt is a ghost: the retry count the Pod was created for.
NewPod == [state |-> "none", deleting |-> FALSE, attempt |-> 0]

\* The Pod created for a task.
DesiredTaskPod(t) == [state |-> "pending", deleting |-> FALSE, attempt |-> t.retries]

\* uid is status.currentPodUID; started and done say that startTime and
\* completionTime are set.
NoTask == [exists |-> FALSE, finalizer |-> FALSE, deleting |-> FALSE, phase |-> "Pending",
           retries |-> 0, uid |-> NoPod, started |-> FALSE, done |-> FALSE]
InitTask == [NoTask EXCEPT !.exists = TRUE]

Idle == [at |-> "idle", task |-> NoTask, pod |-> NoPod, seen |-> NewPod]

Running(state) == state \in {"pending", "ready"}
Exited(state) == state \in {"succeeded", "failed"}
Terminal(t) ==
  \/ t.phase \in {"Succeeded", "TimedOut", "Terminating"}
  \/ t.phase = "Failed" /\ t.done

\* What the controller reads: its caches, which may lag.
TaskView == IF CacheLag THEN tcache ELSE task
PodView == IF CacheLag THEN pcache ELSE pods
BoxView == IF CacheLag THEN mcache ELSE mailbox

\* ownedTaskPod: a Pod that is not being deleted, or else one that is.
OwnedTaskPod(view) ==
  LET present == {p \in PodIDs : view[p].state \notin {"none", "gone"}}
      live == {p \in present : ~view[p].deleting}
  IN IF live # {} THEN live ELSE IF present # {} THEN present ELSE {NoPod}

SeenPod(view, p) == IF p = NoPod THEN NewPod ELSE view[p]

Deleted(pod) ==
  IF SlowTermination THEN [pod EXCEPT !.deleting = TRUE]
  ELSE [pod EXCEPT !.deleting = TRUE, !.state = "gone"]

TimedOut(t) == HasTimeout /\ t.started /\ expired

-----------------------------------------------------------------------------
(* Writes of the reconciler *)

EndPass == pass' = Idle

\* Mutant: the resource version is not sent along.
WriteBlindly(new, next) ==
  /\ task' = new
  /\ pass' = IF next = "idle" THEN Idle
             ELSE [pass EXCEPT !.at = next, !.task = new]

\* A status write and the next call of the pass.  It is refused when the task
\* has changed since it was read; the error ends the pass.
Write(new, next) ==
  IF task = pass.task
    THEN /\ task' = new
         /\ pass' = IF next = "idle" THEN Idle
                    ELSE [pass EXCEPT !.at = next, !.task = new]
    ELSE UNCHANGED task /\ EndPass

Settled(t, phase) == [t EXCEPT !.phase = phase, !.done = TRUE]

Settle(phase) == Write(Settled(pass.task, phase), "idle")

SettleTimeout == Settle(IF OnTimeoutSucceed THEN "Succeeded" ELSE "TimedOut")

\* The first write of the retry sequence: the counter moves, the gate closes.
Retried(t) ==
  [t EXCEPT !.retries = @ + 1, !.uid = NoPod, !.started = FALSE,
            !.phase = "Failed"]

\* Mutant: one retry more than the limit.
FailOrRetryOnceMore ==
  IF pass.task.retries <= BackoffLimit
    THEN Write(Retried(pass.task), "delete")
    ELSE Settle("Failed")

FailOrRetry ==
  IF pass.task.retries < BackoffLimit
    THEN Write(Retried(pass.task), "delete")
    ELSE Settle("Failed")

-----------------------------------------------------------------------------
(* Reconcile *)

\* Reading the task and listing its Pods.
Begin ==
  /\ pass = Idle
  /\ TaskView.exists
  /\ \E p \in OwnedTaskPod(PodView) :
       pass' = [at |-> "drive", task |-> TaskView, pod |-> p,
                seen |-> SeenPod(PodView, p)]
  /\ UNCHANGED <<task, pods, mailbox, expired, agentVars, cacheVars>>

At(step) == pass.at = step /\ UNCHANGED <<agentVars, cacheVars>>
Reading == At("drive") /\ ~pass.task.deleting

AddFinalizer ==
  /\ Reading
  /\ ~pass.task.finalizer
  /\ Write([pass.task EXCEPT !.finalizer = TRUE], "idle")
  /\ UNCHANGED <<pods, mailbox, expired>>

\* A Failed task without completionTime is an interrupted retry.
ResumeRetry ==
  /\ Reading
  /\ pass.task.finalizer
  /\ pass.task.phase = "Failed" /\ ~pass.task.done
  /\ Write([pass.task EXCEPT !.phase = "Provisioning"], "idle")
  /\ UNCHANGED <<pods, mailbox, expired>>

\* handleTTL: the TTL has not run out, or there is none.
AwaitTTL ==
  /\ Reading
  /\ pass.task.finalizer
  /\ Terminal(pass.task)
  /\ EndPass
  /\ UNCHANGED <<task, pods, mailbox, expired>>

ExpireTTL ==
  /\ Reading
  /\ pass.task.finalizer
  /\ Terminal(pass.task) /\ pass.task.done
  /\ HasTTL
  /\ Write([pass.task EXCEPT !.phase = "Terminating"], "ttl")
  /\ UNCHANGED <<pods, mailbox, expired>>

\* The delete call of a task that has its finalizer.
TTLDelete ==
  /\ At("ttl")
  /\ task' = [task EXCEPT !.deleting = task.exists]
  /\ EndPass
  /\ UNCHANGED <<pods, mailbox, expired>>

\* reconcileDelete: first the Pod, then the finalizer.
DeletePod ==
  /\ At("drive")
  /\ pass.task.deleting /\ pass.task.finalizer
  /\ pass.pod # NoPod
  /\ pods' = IF pass.seen.deleting THEN pods
             ELSE [pods EXCEPT ![pass.pod] = Deleted(@)]
  /\ EndPass
  /\ UNCHANGED <<task, mailbox, expired>>

RemoveFinalizer ==
  /\ At("drive")
  /\ pass.task.deleting /\ pass.task.finalizer
  /\ pass.pod = NoPod
  /\ Write([pass.task EXCEPT !.finalizer = FALSE, !.exists = FALSE], "idle")
  /\ UNCHANGED <<pods, mailbox, expired>>

Driving(phases) ==
  /\ Reading
  /\ pass.task.finalizer
  /\ pass.task.phase \in phases

\* A pass that only records a condition: the class or an image pull secret is
\* missing, there is no image, or the task is in the operator's namespace.
Gated ==
  /\ Driving({"Pending", "Provisioning", "Running", "Completing"})
  /\ EndPass
  /\ UNCHANGED <<task, pods, mailbox, expired>>

-----------------------------------------------------------------------------
(* driveProvisioning *)

Provisioning == Driving({"Pending", "Provisioning"})

\* taskViolation: a spec its class does not allow is terminal.
Reject ==
  /\ Provisioning
  /\ pass.pod = NoPod
  /\ Settle("Failed")
  /\ UNCHANGED <<pods, mailbox, expired>>

AwaitCertificate ==
  /\ Provisioning
  /\ pass.pod = NoPod
  /\ Write([pass.task EXCEPT !.phase = "Provisioning"], "idle")
  /\ UNCHANGED <<pods, mailbox, expired>>

CreatePod ==
  /\ Provisioning
  /\ pass.pod = NoPod
  /\ \E p \in PodIDs :
       /\ pods[p].state = "none"
       /\ \A q \in 1..(p - 1) : pods[q].state # "none"
       /\ pods' = [pods EXCEPT ![p] = DesiredTaskPod(pass.task)]
       /\ pass' = [pass EXCEPT !.at = "stamp", !.pod = p]
  /\ UNCHANGED <<task, mailbox, expired>>

\* The status write that follows the creation of the Pod.
StampNew ==
  /\ At("stamp")
  /\ Write([pass.task EXCEPT
              !.phase = "Provisioning",
              !.uid = IF AgentReported THEN pass.pod ELSE @], "idle")
  /\ UNCHANGED <<pods, mailbox, expired>>

Unstamped == AgentReported /\ pass.task.uid # pass.pod

\* The observed Pod, live or terminating, becomes the one the gate admits.
StampObserved ==
  /\ Provisioning
  /\ pass.pod # NoPod
  /\ Unstamped
  /\ Write([pass.task EXCEPT !.uid = pass.pod], "drive")
  /\ UNCHANGED <<pods, mailbox, expired>>

WithPod == Provisioning /\ pass.pod # NoPod /\ ~Unstamped

BecomeRunning ==
  /\ WithPod
  /\ pass.seen.state = "ready"
  /\ Write([pass.task EXCEPT !.phase = "Running", !.started = TRUE], "idle")
  /\ expired' = (expired /\ task # pass.task)
  /\ UNCHANGED <<pods, mailbox>>

\* A Pod that ended before it was ever seen Ready.
EarlyExit ==
  /\ WithPod
  /\ Exited(pass.seen.state)
  /\ IF ~AgentReported /\ pass.seen.state = "succeeded"
       THEN Write([pass.task EXCEPT !.phase = "Completing"], "completing")
       ELSE FailOrRetry
  /\ UNCHANGED <<pods, mailbox, expired>>

\* A configuration error of the Pod, or the provisioning deadline.
StartFailure ==
  /\ WithPod
  /\ pass.seen.state = "pending"
  /\ FailOrRetry
  /\ UNCHANGED <<pods, mailbox, expired>>

AwaitReady ==
  /\ WithPod
  /\ pass.seen.state = "pending"
  /\ EndPass
  /\ UNCHANGED <<task, pods, mailbox, expired>>

-----------------------------------------------------------------------------
(* driveRunning and driveCompleting *)

\* Mutant: only the mailbox ends an agentReported task.
SignalledByMailbox ==
  \/ AgentReported /\ BoxView # Empty
  \/ ~AgentReported /\ pass.pod # NoPod /\ Exited(pass.seen.state)

\* The completion signals of a running task, the mailbox first.
Signalled ==
  \/ AgentReported /\ BoxView # Empty
  \/ ~AgentReported /\ pass.pod # NoPod /\ Exited(pass.seen.state)
  \/ TimedOut(pass.task)

Lost == pass.pod = NoPod \/ (AgentReported /\ pass.seen.state = "failed")

DriveRunning ==
  /\ Driving({"Running"})
  /\ \/ /\ Signalled
        /\ Write([pass.task EXCEPT !.phase = "Completing"], "completing")
     \/ ~Signalled /\ Lost /\ FailOrRetry
     \/ ~Signalled /\ ~Lost /\ EndPass /\ UNCHANGED task
  /\ UNCHANGED <<pods, mailbox, expired>>

\* Mutant: the exit code is not looked at.
OutcomeOfAnyExit ==
  CASE AgentReported -> BoxView.status
    [] ~AgentReported /\ Exited(pass.seen.state) -> "success"
    [] OTHER -> "none"

\* The outcome is derived again: the mailbox or the exit, else the clock.
Outcome ==
  CASE AgentReported -> BoxView.status
    [] ~AgentReported /\ pass.seen.state = "succeeded" -> "success"
    [] ~AgentReported /\ pass.seen.state = "failed" -> "failure"
    [] OTHER -> "none"

DriveCompleting ==
  /\ \/ At("completing")
     \/ Driving({"Completing"})
  /\ \/ Outcome = "success" /\ Settle("Succeeded")
     \/ Outcome = "success" /\ AgentReported /\ FailOrRetry  \* artifact names
     \/ Outcome = "failure" /\ FailOrRetry
     \/ Outcome = "none" /\ TimedOut(pass.task) /\ SettleTimeout
     \/ Outcome = "none" /\ ~TimedOut(pass.task) /\ FailOrRetry
  /\ UNCHANGED <<pods, mailbox, expired>>

-----------------------------------------------------------------------------
(* retry, after its first write *)

RetryDeletePod ==
  /\ At("delete")
  /\ \E p \in OwnedTaskPod(PodView) :
       pods' = IF p = NoPod \/ SeenPod(PodView, p).deleting THEN pods
               ELSE [pods EXCEPT ![p] = Deleted(@)]
  /\ pass' = [pass EXCEPT !.at = "reset"]
  /\ UNCHANGED <<task, mailbox, expired>>

\* The mailbox is emptied if the cache shows data in it; the update is refused
\* when the mailbox has changed since.
RetryResetMailbox ==
  /\ At("reset")
  /\ IF ~AgentReported \/ BoxView = Empty
       THEN UNCHANGED mailbox /\ pass' = [pass EXCEPT !.at = "reopen"]
       ELSE IF BoxView = mailbox
         THEN mailbox' = Empty /\ pass' = [pass EXCEPT !.at = "reopen"]
         ELSE UNCHANGED mailbox /\ EndPass
  /\ UNCHANGED <<task, pods, expired>>

RetryReopen ==
  /\ At("reopen")
  /\ Write([pass.task EXCEPT !.phase = "Provisioning"], "idle")
  /\ UNCHANGED <<pods, mailbox, expired>>

\* An API call fails, or the controller restarts: the pass is dropped.
Interrupt ==
  /\ Interrupts
  /\ pass # Idle
  /\ EndPass
  /\ UNCHANGED <<task, pods, mailbox, expired, agentVars, cacheVars>>

-----------------------------------------------------------------------------
(* The runtime's completion call and the gateway's handler *)

Alive(p) == Running(pods[p].state)

\* The agent decides how the task went.
Decide(p, status) ==
  /\ AgentReported
  /\ Alive(p)
  /\ report[p] = "none"
  /\ report' = [report EXCEPT ![p] = status]
  /\ UNCHANGED <<task, pods, mailbox, expired, posts, inflight, evictions,
                 pass, cacheVars>>

GateTask == IF GatewayLag THEN gtask ELSE task

PayloadOf(p) == [status |-> report[p], from |-> p]

\* handleTaskComplete up to the patch: no task or a finished one, a Pod the
\* gate does not name, or the patch, which without GatewayLag is immediate.
\* CompleteTask retries StalePodCompletion, and a call whose answer is lost,
\* for MaxPosts calls in all.
Post(p) ==
  /\ Alive(p)
  /\ report[p] # "none"
  /\ posts[p] < MaxPosts
  /\ LET closed == \/ ~GateTask.exists
                   \/ GateTask.phase \in {"Succeeded", "Failed", "TimedOut"}
         stale == ~closed /\ GateTask.uid # p
         admitted == ~closed /\ ~stale
     IN /\ \E lost \in IF Interrupts THEN BOOLEAN ELSE {FALSE} :
             posts' = [posts EXCEPT ![p] = IF stale \/ lost THEN @ + 1 ELSE MaxPosts]
        /\ inflight' = IF admitted /\ GatewayLag THEN inflight \cup {p}
                       ELSE inflight
        /\ mailbox' = IF admitted /\ ~GatewayLag THEN PayloadOf(p) ELSE mailbox
  /\ UNCHANGED <<task, pods, expired, report, evictions, pass, cacheVars>>

\* PatchMailbox writes whatever the task has become meanwhile.
Patch(p) ==
  /\ p \in inflight
  /\ inflight' = inflight \ {p}
  /\ mailbox' = IF task.exists THEN PayloadOf(p) ELSE mailbox
  /\ UNCHANGED <<task, pods, expired, report, posts, evictions, pass,
                 cacheVars>>

\* The patch fails; CompleteTask does not retry the 503 it gets.
PatchFails(p) ==
  /\ Interrupts
  /\ p \in inflight
  /\ inflight' = inflight \ {p}
  /\ UNCHANGED <<task, pods, mailbox, expired, report, posts, evictions, pass,
                 cacheVars>>

-----------------------------------------------------------------------------
(* The cluster: Pods, the clock, the user and the caches *)

SetPod(p, pod) ==
  /\ pods' = [pods EXCEPT ![p] = pod]
  /\ UNCHANGED <<task, mailbox, expired, posts, inflight, pass, cacheVars>>

PodReady(p) ==
  /\ pods[p].state = "pending" /\ ~pods[p].deleting
  /\ SetPod(p, [pods[p] EXCEPT !.state = "ready"])
  /\ UNCHANGED <<report, evictions>>

PodExits(p, state) ==
  /\ Alive(p)
  /\ SetPod(p, [pods[p] EXCEPT !.state = state])
  /\ report' = IF AgentReported THEN report
               ELSE [report EXCEPT ![p] = IF state = "succeeded" THEN "success"
                                          ELSE "failure"]
  /\ UNCHANGED evictions

PodEvicted(p) ==
  /\ evictions < MaxEvictions
  /\ pods[p].state \notin {"none", "gone"} /\ ~pods[p].deleting
  /\ SetPod(p, Deleted(pods[p]))
  /\ evictions' = evictions + 1
  /\ UNCHANGED report

PodGone(p) ==
  /\ pods[p].deleting /\ pods[p].state # "gone"
  /\ SetPod(p, [pods[p] EXCEPT !.state = "gone"])
  /\ UNCHANGED <<report, evictions>>

Expire ==
  /\ HasTimeout
  /\ task.started /\ ~expired
  /\ expired' = TRUE
  /\ UNCHANGED <<task, pods, mailbox, agentVars, pass, cacheVars>>

UserDelete ==
  /\ task.exists /\ ~task.deleting
  /\ task' = IF task.finalizer THEN [task EXCEPT !.deleting = TRUE]
             ELSE [task EXCEPT !.exists = FALSE]
  /\ UNCHANGED <<pods, mailbox, expired, agentVars, pass, cacheVars>>

SyncCaches ==
  /\ CacheLag
  /\ \/ tcache' = task /\ UNCHANGED <<pcache, mcache>>
     \/ pcache' = pods /\ UNCHANGED <<tcache, mcache>>
     \/ mcache' = mailbox /\ UNCHANGED <<tcache, pcache>>
  /\ UNCHANGED <<task, pods, mailbox, expired, agentVars, pass, gtask>>

SyncGateway ==
  /\ GatewayLag
  /\ gtask' = task
  /\ UNCHANGED <<task, pods, mailbox, expired, agentVars, pass, tcache, pcache,
                 mcache>>

-----------------------------------------------------------------------------
Init ==
  /\ setting \in Settings
  /\ task = InitTask
  /\ pods = [p \in PodIDs |-> NewPod]
  /\ mailbox = Empty
  /\ expired = FALSE
  /\ report = [p \in PodIDs |-> "none"]
  /\ posts = [p \in PodIDs |-> 0]
  /\ inflight = {}
  /\ evictions = 0
  /\ pass = Idle
  /\ tcache = task /\ pcache = pods /\ mcache = mailbox /\ gtask = task

Settling == AddFinalizer \/ ResumeRetry \/ ExpireTTL \/ TTLDelete
            \/ DeletePod \/ RemoveFinalizer \/ StampNew \/ StampObserved
            \/ BecomeRunning \/ EarlyExit \/ DriveRunning \/ DriveCompleting
            \/ RetryDeletePod \/ RetryResetMailbox \/ RetryReopen

Waiting == AwaitTTL \/ Gated \/ AwaitCertificate \/ AwaitReady

Reconcile == Begin \/ Settling \/ Waiting \/ Reject \/ CreatePod \/ StartFailure

PodStep(p) ==
  \/ \E s \in {"success", "failure"} : Decide(p, s)
  \/ Post(p) \/ Patch(p) \/ PatchFails(p)
  \/ PodReady(p) \/ PodEvicted(p) \/ PodGone(p)
  \/ \E s \in {"succeeded", "failed"} : PodExits(p, s)

Next ==
  /\ \/ Reconcile
     \/ Interrupt
     \/ \E p \in PodIDs : PodStep(p)
     \/ Expire
     \/ UserDelete
     \/ SyncCaches
     \/ SyncGateway
  /\ UNCHANGED setting

Spec == Init /\ [][Next]_vars

\* The work queue hands the task to the controller again and again: every
\* change of the task, its Pod or its mailbox enqueues it, and a timer does
\* when a deadline is due.  Certificates are issued, Pods start and deleted
\* Pods go, the clock advances, and passes are not gated forever.
Fairness ==
  /\ WF_moving(Begin) /\ WF_moving(Waiting)
  /\ SF_moving(Settling) /\ SF_moving(CreatePod)
  /\ WF_moving(Expire)
  /\ \A p \in PodIDs : WF_moving(PodReady(p)) /\ WF_moving(PodGone(p))

FairSpec == Spec /\ Fairness

-----------------------------------------------------------------------------
(* Properties *)

\* Once the retry sequence has reached Provisioning, what the mailbox holds was
\* reported by a Pod of the attempt under way, never by an earlier one.
PayloadOfThisAttempt ==
  mailbox # Empty /\ task.phase \in {"Provisioning", "Running", "Completing"}
    => pods[mailbox.from].attempt = task.retries

\* In every setting, success is not made up: on the way from the agent's call or
\* the exit code through handler, mailbox, caches, an interrupted pass and its
\* successor, nothing turns a failure or silence into the outcome success; only
\* onTimeout Succeed may.
SuccessWasReported ==
  task.phase = "Succeeded" =>
    \/ OnTimeoutSucceed /\ expired
    \/ \E p \in PodIDs : report[p] = "success" /\ pods[p].attempt <= task.retries

\* In every setting, backoffLimit bounds the attempts: a Pod is created for an
\* attempt that is counted, and no write based on a stale read, and no retry that
\* is resumed, turns the count back or moves it past the limit.
EveryAttemptCounts ==
  task.exists =>
    /\ task.retries <= BackoffLimit
    /\ \A p \in PodIDs : pods[p].attempt <= task.retries

\* A settled task stays as it settled until it is deleted: no pass that is
\* resumed, delayed or based on a stale read settles it again or retries it.
OutcomeIsFinal ==
  [][task.done /\ task'.exists
       => /\ task'.phase \in {task.phase, "Terminating"}
          /\ task'.retries = task.retries /\ task'.done]_vars

\* A task with a timeout, or one that completes by the exit of its container,
\* settles or is deleted.
EventuallySettles == <>(task.done \/ ~task.exists)
=============================================================================
