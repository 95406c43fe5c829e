--------------------------- MODULE AgentLifecycle ---------------------------
(***************************************************************************)
(* The life of one Agent: the AgentReconciler, its Pod and volume, the     *)
(* activity stores of the gateway replicas that decide when it sleeps, and *)
(* the wake annotation that ends its sleep.                                *)
(*                                                                         *)
(* A reconcile pass reads the Agent, makes its API calls one by one, and   *)
(* ends with a write that carries the resource version it read: the write  *)
(* succeeds only if nobody changed the Agent meanwhile.  A pass is short   *)
(* against a tick of the clock.  Of an activity record only the source the *)
(* Agent selects (activitySource) is kept.                                 *)
(***************************************************************************)
EXTENDS Integers, FiniteSets

CONSTANTS
  Replicas,         \* gateway replicas
  IdleTimeout,      \* lifecycle.idleTimeout
  HibernationDelay, \* lifecycle.hibernationDelay
  CacheWindow,      \* activityCacheWindow
  Retain,           \* the class's pvcRetention is Retain
  ClassReadFails,   \* the read of the class during deletion may fail
  MaxTime,          \* bound: clock
  MaxWakes,         \* bound: wake requests
  MaxTroubles       \* bound: disruptions, drifts, class changes, restarts

\* What the constants must be.
AgentLifecycleAssumption ==
  /\ IdleTimeout \in Nat \ {0} /\ CacheWindow \in Nat \ {0}
  /\ {HibernationDelay, MaxTime, MaxWakes, MaxTroubles} \subseteq Nat
  /\ {Retain, ClassReadFails} \subseteq BOOLEAN

VARIABLES
  now,      \* the clock
  agent,    \* the Agent in the API server
  pod,      \* its Pod
  volume,   \* its PersistentVolumeClaim
  violates, \* some cross-check of the spec against its class fails
  store,    \* activity store of each gateway replica
  fetched,  \* the controller's cached activity read
  pass,     \* the reconcile pass under way
  woke,     \* time of the last wake (history)
  wakes, troubles  \* counts against the bounds

vars == <<now, agent, pod, volume, violates, store, fetched, pass, woke, wakes,
          troubles>>
world == <<now, violates, store, wakes, troubles>>

Never == 0

\* pre is preDegradedPhase, last is lastActivityTime, since phaseTransitionTime.
NewAgent == [exists |-> TRUE, finalizer |-> FALSE, deleting |-> FALSE,
             wake |-> FALSE, phase |-> "Pending", pre |-> "none",
             last |-> Never, since |-> Never]

\* drifted: the stamped hash is not that of the Pod spec derived now.
NoPod == [state |-> "none", deleting |-> FALSE, drifted |-> FALSE]
\* The Pod created for the Agent.
DesiredPod == [NoPod EXCEPT !.state = "starting"]

NothingFetched == [at |-> Never, replicas |-> <<>>]
Idling == [at |-> "idle", read |-> NewAgent, new |-> NewAgent]

SetPhase(a, phase) ==
  IF a.phase = phase THEN a ELSE [a EXCEPT !.phase = phase, !.since = now]

Latest(S) == IF S = {} THEN Never ELSE CHOOSE t \in S : \A u \in S : u <= t
Later(t, u) == Latest({t, u})

-----------------------------------------------------------------------------
(* A pass *)

Begin ==
  /\ pass.at = "idle" /\ agent.exists
  /\ pass' = [at |-> "drive", read |-> agent, new |-> agent]
  /\ UNCHANGED <<agent, pod, volume, fetched, woke, world>>

EndPass == pass' = Idling

\* An update of the Agent, of its status or of its metadata: refused when the
\* Agent is not the one the pass read, which ends the pass with an error.
Write(new, next) ==
  IF agent = pass.read
  THEN /\ agent' = new
       /\ pass' = IF next = "idle" THEN Idling
                  ELSE [at |-> next, read |-> new, new |-> new]
  ELSE UNCHANGED agent /\ EndPass

At(step) == pass.at = step /\ UNCHANGED world
Driving == At("drive") /\ ~pass.read.deleting
Awake == Driving /\ pass.read.finalizer /\ ~pass.read.wake
Admitted == Awake /\ ~violates /\ pass.read.phase # "Degraded"

AddFinalizer ==
  /\ Driving /\ ~pass.read.finalizer
  /\ Write([pass.read EXCEPT !.finalizer = TRUE], "idle")
  /\ UNCHANGED <<pod, volume, fetched, woke>>

\* Mutant: the wake is not stamped as activity.
WakeUnmarked ==
  /\ Driving /\ pass.read.finalizer /\ pass.read.wake
  /\ pass.read.phase = "Hibernated"
  /\ Write(SetPhase(pass.read, "Resuming"), "unwake")
  /\ woke' = IF agent = pass.read THEN now ELSE woke
  /\ UNCHANGED <<pod, volume, fetched>>

\* handleWake on a Hibernated agent: the transition is committed first, with
\* the wake stamped as activity; the annotation goes in a second write.
CommitWake ==
  /\ Driving /\ pass.read.finalizer /\ pass.read.wake
  /\ pass.read.phase = "Hibernated"
  /\ Write([SetPhase(pass.read, "Resuming") EXCEPT !.last = now], "unwake")
  /\ woke' = IF agent = pass.read THEN now ELSE woke
  /\ UNCHANGED <<pod, volume, fetched>>

\* Mutant: whatever the phase, the annotation goes first.
RemoveWakeAlways ==
  /\ \/ At("unwake")
     \/ Driving /\ pass.read.finalizer /\ pass.read.wake
  /\ Write([pass.read EXCEPT !.wake = FALSE], "idle")
  /\ UNCHANGED <<pod, volume, fetched, woke>>

\* The annotation goes after that commit, or at once on any other phase.
RemoveWake ==
  /\ \/ At("unwake")
     \/ /\ Driving /\ pass.read.finalizer /\ pass.read.wake
        /\ pass.read.phase # "Hibernated"
  /\ Write([pass.read EXCEPT !.wake = FALSE], "idle")
  /\ UNCHANGED <<pod, volume, fetched, woke>>

\* The class cannot be read, or a readiness gate holds: the pass ends without
\* moving the phase.
Hold ==
  /\ Awake
  /\ EndPass
  /\ UNCHANGED <<agent, pod, volume, fetched, woke>>

\* enterOrStayDegraded: the phase to return to is recorded on entry only.
Degrade ==
  /\ Awake /\ violates
  /\ Write(IF pass.read.phase = "Degraded" THEN pass.read
           ELSE [SetPhase(pass.read, "Degraded") EXCEPT !.pre = pass.read.phase],
           "idle")
  /\ UNCHANGED <<pod, volume, fetched, woke>>

\* Every reason has cleared: the phase is restored and forgotten in one write.
Recover ==
  /\ Awake /\ ~violates /\ pass.read.phase = "Degraded"
  /\ Write([SetPhase(pass.read, IF pass.read.pre = "none" THEN "Pending"
                                ELSE pass.read.pre) EXCEPT !.pre = "none"],
           "idle")
  /\ UNCHANGED <<pod, volume, fetched, woke>>

DeletedPod == IF pod.deleting THEN pod ELSE [pod EXCEPT !.deleting = TRUE]

DriveHibernating ==
  /\ Admitted /\ pass.read.phase = "Hibernating"
  /\ IF pod # NoPod
     THEN pod' = DeletedPod /\ EndPass /\ UNCHANGED agent
     ELSE Write(SetPhase(pass.read, "Hibernated"), "idle") /\ UNCHANGED pod
  /\ UNCHANGED <<volume, fetched, woke>>

StayHibernated ==
  /\ Admitted /\ pass.read.phase = "Hibernated"
  /\ EndPass
  /\ UNCHANGED <<agent, pod, volume, fetched, woke>>

\* Mutant: a resuming agent is held like a hibernated one.
PodBearingOnceResumed ==
  Admitted /\ pass.read.phase \notin {"Hibernating", "Hibernated", "Resuming"}

\* Hibernating and Hibernated agents are handled above; the others have a Pod.
PodBearing == Admitted /\ pass.read.phase \notin {"Hibernating", "Hibernated"}

AwaitCertificate ==
  /\ PodBearing
  /\ Write(IF pass.read.phase = "Pending"
           THEN SetPhase(pass.read, "Provisioning") ELSE pass.read, "idle")
  /\ UNCHANGED <<pod, volume, fetched, woke>>

\* The phase convergePod derives from the Pod it finds.
PodPhase ==
  IF pod = NoPod \/ pod.deleting THEN "Provisioning"
  ELSE CASE pod.state = "looping" -> "Failed"
         [] pod.state = "ready" /\ ~pod.drifted ->
              IF pass.read.phase = "Idle" THEN "Idle" ELSE "Running"
         [] OTHER -> "Provisioning"

\* ensureChildren and convergePod: the volume is created once, a missing Pod is
\* created, a terminal or drifted one deleted.
Converge ==
  LET new == SetPhase(pass.read, PodPhase)
  IN /\ PodBearing
     /\ volume' = IF volume = "none" THEN "owned" ELSE volume
     /\ pod' = IF pod = NoPod THEN DesiredPod
               ELSE IF \/ pod.state = "terminal"
                       \/ pod.drifted /\ pod.state # "looping"
               THEN DeletedPod ELSE pod
     /\ pass' = [pass EXCEPT !.new = new,
                   !.at = IF new.phase \in {"Running", "Idle"}
                          THEN "evaluate" ELSE "status"]
     /\ UNCHANGED <<agent, fetched, woke>>

-----------------------------------------------------------------------------
(* Activity *)

\* Mutant: the oldest record of the replicas is taken.
MergedOldest(replicas) ==
  LET T == {replicas[r].traffic : r \in DOMAIN replicas} \ {Never}
  IN IF T = {} THEN Never ELSE CHOOSE t \in T : \A u \in T : t <= u

\* mergedActivity: the most recent record of the replicas that answered.
MergedActivity(replicas) == Latest({replicas[r].traffic : r \in DOMAIN replicas})

\* Silence counts once some replica has watched for idleTimeout.
Qualified(replicas) ==
  \E r \in DOMAIN replicas : now - replicas[r].started >= IdleTimeout

\* evaluateActivity on the records in hand.  Without any record the last phase
\* transition stands in for it, but never as fresh activity.
Evaluated(a, replicas) ==
  LET recorded == MergedActivity(replicas)
      synthetic == recorded = Never
      last == IF synthetic THEN a.since ELSE recorded
      marker == Later(last, a.last)
      silence == IF synthetic /\ a.last # Never THEN a.last ELSE marker
      known == ~synthetic \/ (Qualified(replicas) /\ a.since # Never)
      fresh == ~synthetic /\ a.last # Never /\ last > a.last
  IN CASE known /\ a.phase = "Running" /\ now - marker > IdleTimeout ->
            [SetPhase(a, "Idle") EXCEPT !.last = marker]
       [] known /\ a.phase = "Idle" /\ fresh ->
            [SetPhase(a, "Running") EXCEPT !.last = last]
       [] known /\ a.phase = "Idle" /\ ~fresh
          /\ now - silence > IdleTimeout + HibernationDelay ->
            SetPhase(a, "Hibernating")
       [] OTHER -> a

\* NamespaceActivity: a cached read within the window, otherwise a fan-out that
\* any replica may fail to answer.
Evaluate ==
  /\ At("evaluate")
  /\ \/ /\ fetched.at # Never /\ now - fetched.at < CacheWindow
        /\ UNCHANGED fetched
     \/ /\ fetched.at = Never \/ now - fetched.at >= CacheWindow
        /\ \E R \in SUBSET Replicas :
             fetched' = [at |-> now, replicas |-> [r \in R |-> store[r]]]
  /\ pass' = [pass EXCEPT !.at = "status",
                          !.new = Evaluated(@, fetched'.replicas)]
  /\ UNCHANGED <<agent, pod, volume, woke>>

\* The pods of the gateway cannot be listed: no data, nothing cached.
EvaluateFails ==
  /\ At("evaluate")
  /\ pass' = [pass EXCEPT !.at = "status"]
  /\ UNCHANGED <<agent, pod, volume, fetched, woke>>

WriteStatus ==
  /\ At("status")
  /\ Write(pass.new, "idle")
  /\ UNCHANGED <<pod, volume, fetched, woke>>

-----------------------------------------------------------------------------
(* Deletion *)

Deleting == At("drive") /\ pass.read.deleting /\ pass.read.finalizer
Torn == (Deleting /\ pass.read.phase = "Terminating") \/ At("teardown")

BeginTeardown ==
  /\ Deleting /\ pass.read.phase # "Terminating"
  /\ Write([SetPhase(pass.read, "Terminating") EXCEPT !.pre = "none"], "teardown")
  /\ UNCHANGED <<pod, volume, fetched, woke>>

TeardownPod ==
  /\ Torn /\ pod # NoPod
  /\ pod' = DeletedPod
  /\ EndPass
  /\ UNCHANGED <<agent, volume, fetched, woke>>

\* The volume loses its owner before the finalizer goes, if it is retained.  A
\* class that cannot be read counts as one that deletes it.
ReleaseVolume ==
  /\ Torn /\ pod = NoPod
  /\ \/ volume' = IF Retain /\ volume = "owned" THEN "kept" ELSE volume
     \/ ClassReadFails /\ UNCHANGED volume
  /\ pass' = [pass EXCEPT !.at = "release"]
  /\ UNCHANGED <<agent, pod, fetched, woke>>

\* Mutant: the finalizer goes as soon as the Pod does.
RemoveFinalizerEarly ==
  /\ At("release") \/ (Torn /\ pod = NoPod)
  /\ Write([pass.read EXCEPT !.exists = FALSE, !.finalizer = FALSE], "idle")
  /\ volume' = IF agent'.exists \/ volume # "owned" THEN volume ELSE "gone"
  /\ UNCHANGED <<pod, fetched, woke>>

\* Without its finalizer the Agent goes, and what it owns with it.
RemoveFinalizer ==
  /\ At("release")
  /\ Write([pass.read EXCEPT !.exists = FALSE, !.finalizer = FALSE], "idle")
  /\ volume' = IF agent'.exists \/ volume # "owned" THEN volume ELSE "gone"
  /\ UNCHANGED <<pod, fetched, woke>>

\* A call of the pass fails, or the controller restarts and its cache is empty.
Interrupt ==
  /\ pass.at # "idle"
  /\ EndPass
  /\ fetched' \in {fetched, NothingFetched}
  /\ UNCHANGED <<agent, pod, volume, woke, world>>

-----------------------------------------------------------------------------
(* The environment *)

Trouble == troubles < MaxTroubles /\ troubles' = troubles + 1
quiet == <<now, agent, volume, fetched, pass, woke, wakes>>

PodStarts ==
  /\ pod.state \in {"starting", "looping"}
  /\ pod' = [pod EXCEPT !.state = "ready"]
  /\ UNCHANGED <<quiet, violates, store, troubles>>

PodFails(state) ==
  /\ pod.state \in {"starting", "ready"} /\ Trouble
  /\ pod' = [pod EXCEPT !.state = state]
  /\ UNCHANGED <<quiet, violates, store>>

PodDrifts ==
  /\ pod # NoPod /\ Trouble
  /\ pod' = [pod EXCEPT !.drifted = TRUE]
  /\ UNCHANGED <<quiet, violates, store>>

PodGone ==
  /\ pod.deleting
  /\ pod' = NoPod
  /\ UNCHANGED <<quiet, violates, store, troubles>>

ClassChanges ==
  /\ Trouble
  /\ violates' = ~violates
  /\ UNCHANGED <<quiet, pod, store>>

\* A request of the agent, or a message delivered to it, passes replica r.
RecordTraffic(r) ==
  /\ pod.state = "ready" /\ store[r].traffic # now
  /\ store' = [store EXCEPT ![r].traffic = now]
  /\ UNCHANGED <<quiet, pod, violates, troubles>>

ReplicaRestarts(r) ==
  /\ Trouble
  /\ store' = [store EXCEPT ![r] = [started |-> now, traffic |-> Never]]
  /\ UNCHANGED <<quiet, pod, violates>>

\* handleActivate, or a user's annotation, in whatever phase.
Activate ==
  /\ agent.exists /\ wakes < MaxWakes
  /\ agent' = [agent EXCEPT !.wake = TRUE]
  /\ wakes' = wakes + 1
  /\ UNCHANGED <<now, pod, volume, violates, store, fetched, pass, woke, troubles>>

UserDeletes ==
  /\ agent.exists /\ ~agent.deleting
  /\ agent' = [agent EXCEPT !.deleting = TRUE, !.exists = agent.finalizer]
  /\ UNCHANGED <<now, pod, volume, violates, store, fetched, pass, woke, wakes,
                 troubles>>

\* A cached read that leaves the window is never used again.
Tick ==
  /\ now < MaxTime /\ pass.at = "idle"
  /\ now' = now + 1
  /\ fetched' = IF now' - fetched.at < CacheWindow THEN fetched ELSE NothingFetched
  /\ UNCHANGED <<agent, pod, volume, violates, store, pass, woke, wakes, troubles>>

Init ==
  /\ now = 1
  /\ agent = NewAgent
  /\ pod = NoPod
  /\ volume = "none"
  /\ violates \in BOOLEAN
  /\ store = [r \in Replicas |-> [started |-> 1, traffic |-> Never]]
  /\ fetched = NothingFetched
  /\ pass = Idling
  /\ woke = Never
  /\ wakes = 0 /\ troubles = 0

Work == AddFinalizer \/ CommitWake \/ RemoveWake \/ Degrade \/ Recover
        \/ DriveHibernating \/ Converge \/ Evaluate \/ WriteStatus
        \/ BeginTeardown \/ TeardownPod \/ ReleaseVolume \/ RemoveFinalizer

Reconcile == Begin \/ Work \/ Hold \/ StayHibernated \/ AwaitCertificate
             \/ EvaluateFails \/ Interrupt

Next ==
  \/ Reconcile
  \/ PodStarts \/ PodDrifts \/ PodGone
  \/ \E state \in {"starting", "looping", "terminal"} : PodFails(state)
  \/ ClassChanges
  \/ \E r \in Replicas : RecordTraffic(r) \/ ReplicaRestarts(r)
  \/ Activate \/ UserDeletes \/ Tick

Spec == Init /\ [][Next]_vars

\* The work queue runs passes for as long as anything changes or a requeue is
\* due; a pass is not interrupted or held for ever; Pods start and terminate.
Fairness ==
  /\ WF_vars(Begin \/ StayHibernated)
  /\ SF_vars(CommitWake \/ RemoveWake \/ Degrade \/ BeginTeardown)
  /\ SF_vars(Converge) /\ SF_vars(Evaluate) /\ SF_vars(WriteStatus)
  /\ WF_vars(PodStarts \/ PodGone)

FairSpec == Spec /\ Fairness

-----------------------------------------------------------------------------
(* Properties *)

\* A retained volume outlives its Agent, whatever interrupts the deletion, as
\* long as reconcileDelete can read the class.
RetainedVolumeSurvives == Retain /\ ~ClassReadFails => volume # "gone"

\* A wake on a hibernated agent is never dropped: the annotation goes only once
\* the agent has left Hibernated (handleWake commits Resuming first).
WakeNotDropped ==
  [][agent.phase = "Hibernated" /\ agent.wake /\ agent'.exists
       => agent'.wake]_vars

\* A woken agent gets the whole idleTimeout and hibernationDelay before it is
\* put to sleep again, although the gateways may know no activity but that from
\* before its sleep (handleWake stamps lastActivityTime as a floor).
WokenStaysUp ==
  [][agent'.phase = "Hibernating" /\ agent.phase = "Idle" /\ woke # Never
       => now - woke > IdleTimeout + HibernationDelay]_vars

\* An agent goes to sleep only if every replica that answered has seen no
\* traffic for idleTimeout plus hibernationDelay, except within the cache
\* window (evaluateActivity on a cached fan-out).
SleepsOnlyWhenSilent ==
  [][agent'.phase = "Hibernating" /\ agent.phase = "Idle" =>
       \A r \in DOMAIN fetched.replicas :
         \/ store[r].traffic = Never
         \/ now - store[r].traffic > IdleTimeout + HibernationDelay
         \/ now - store[r].traffic < CacheWindow]_vars

\* A wake on a hibernated agent brings it up, unless it is degraded, failing or
\* deleted instead.
WakeServed ==
  (agent.exists /\ agent.phase = "Hibernated" /\ agent.wake)
    ~> (agent.phase \in {"Running", "Idle", "Degraded", "Failed", "Terminating"}
        \/ ~agent.exists)
=============================================================================
