------------------------ MODULE AgentLifecycleProofs ------------------------
(***************************************************************************)
(* Theorems about AgentLifecycle, for any set of gateway replicas, any     *)
(* timeouts, delays and windows, and any number of wakes and disruptions.  *)
(***************************************************************************)
EXTENDS WorkloadsParts, WellFoundedInduction, TLAPS

Phases == {"Pending", "Provisioning", "Running", "Idle", "Hibernating", "Hibernated",
           "Resuming", "Degraded", "Failed", "Terminating"}
Agents == [exists : BOOLEAN, finalizer : BOOLEAN, deleting : BOOLEAN, wake : BOOLEAN,
           phase : Phases, pre : Phases \cup {"none"}, last : Nat, since : Nat]
Pods == [state : {"none", "starting", "ready", "looping", "terminal"},
         deleting : BOOLEAN, drifted : BOOLEAN]
Steps == {"idle", "drive", "unwake", "evaluate", "status", "teardown", "release"}

TypeOK ==
  /\ now \in Nat
  /\ agent \in Agents
  /\ pod \in Pods
  /\ volume \in {"none", "owned", "kept", "gone"}
  /\ violates \in BOOLEAN
  /\ store \in [Replicas -> [started : Nat, traffic : Nat]]
  /\ fetched.at \in Nat
  /\ agentPass \in [at : Steps, read : Agents, new : Agents]
  /\ woke \in Nat /\ wakes \in Nat /\ troubles \in Nat

\* Records do not come from the future, and those the controller has cached are
\* those of the stores, unless the store has forgotten or has seen traffic since.
RecordsTrue ==
  /\ fetched.at <= now
  /\ \A r \in Replicas : store[r].traffic <= now
  /\ \A r \in DOMAIN fetched.replicas :
       /\ r \in Replicas
       /\ fetched.replicas[r].traffic \in 0..now
       /\ \/ store[r].traffic \in {Agent!Never, fetched.replicas[r].traffic}
          \/ store[r].traffic >= fetched.at

\* What a pass is about to write: it derives from what it read, it never moves
\* the activity marker back, and the wake annotation goes last.
PassTrue ==
  /\ agentPass.new.wake = agentPass.read.wake
  /\ agentPass.read.last <= agentPass.new.last
  /\ agentPass.at = "unwake" => agentPass.read.phase # "Hibernated"
  /\ agentPass.at = "evaluate" =>
       agentPass.new.last = agentPass.read.last /\ agentPass.new.phase \in {"Running", "Idle"}

\* A pass that is about to put an idle agent to sleep.
Retiring ==
  agentPass.at = "status" /\ agentPass.new.phase = "Hibernating" /\ agentPass.read.phase = "Idle"

\* It has judged the silence since the marker it read, and of every replica.
SilenceJudged ==
  Retiring =>
    /\ agentPass.read.last # Agent!Never =>
         now - agentPass.read.last > IdleTimeout + HibernationDelay
    /\ \A r \in DOMAIN fetched.replicas :
         \/ store[r].traffic = Agent!Never
         \/ now - store[r].traffic > IdleTimeout + HibernationDelay
         \/ now - store[r].traffic < CacheWindow

\* The volume is released before the finalizer goes.
VolumeReleased ==
  Retain /\ ~ClassReadFails =>
    /\ volume # "gone"
    /\ agentPass.at = "release" => volume # "owned"

\* The inductive invariant.
IInv ==
  /\ TypeOK /\ RecordsTrue /\ PassTrue /\ SilenceJudged /\ VolumeReleased
  /\ woke <= agent.last

-----------------------------------------------------------------------------
(* The operators *)

\* A bounded, non-empty set of natural numbers has a greatest element, and that
\* is Latest.
LEMMA LatestIsGreatest ==
  ASSUME NEW n \in Nat, NEW S, S \subseteq 0..n, S # {}
  PROVE  Agent!Latest(S) \in S /\ \A t \in S : t <= Agent!Latest(S)
<1> DEFINE R == OpToRel(<, Nat)
           T == {n - t : t \in S}
<1>1. IsWellFoundedOn(R, Nat)
  BY ZenonT(60), NatLessThanWellFounded
<1>2. \A x, y \in Nat : <<x, y>> \in R <=> x < y
  BY DEF OpToRel
<1>3. T \subseteq Nat /\ T # {}
  <2>1. \A t \in S : n - t \in Nat
    OBVIOUS
  <2> QED
    BY ZenonT(60), <2>1
<1> HIDE DEF R
<1>4. PICK x \in T : \A y \in T : ~(<<y, x>> \in R)
  <2> HIDE DEF T
  <2> QED BY ZenonT(60), <1>1, <1>3, WFMin
<1>5. PICK t \in S : x = n - t
  OBVIOUS
<1>6. \A u \in S : ~(n - u < n - t)
  BY Zenon, <1>2, <1>3, <1>4, <1>5
<1>7. \A u \in S : u <= t
  <2>1. SUFFICES ASSUME NEW u \in S PROVE u <= t
    OBVIOUS
  <2>2. u \in Int /\ t \in Int /\ ~(n - u < n - t)
    BY <1>6
  <2> QED
    BY <2>2
<1> QED
  BY Zenon, <1>7 DEF Agent!Latest

\* The greater of two times.
LEMMA LaterIsGreater ==
  ASSUME NEW t \in Nat, NEW u \in Nat
  PROVE  Agent!Later(t, u) \in {t, u} /\ t <= Agent!Later(t, u) /\ u <= Agent!Later(t, u)
BY DEF Agent!Later, Agent!Latest

LEMMA SetPhaseType ==
  ASSUME now \in Nat, NEW a \in Agents, NEW phase \in Phases
  PROVE  /\ Agent!SetPhase(a, phase) \in Agents
         /\ Agent!SetPhase(a, phase).phase = phase
         /\ Agent!SetPhase(a, phase).wake = a.wake
         /\ Agent!SetPhase(a, phase).last = a.last
         /\ Agent!SetPhase(a, phase).pre = a.pre
BY Zenon DEF Agent!SetPhase, Agents

\* The most recent record of the replicas that answered is a time, and no
\* record is more recent.
LEMMA MergedIsGreatest ==
  ASSUME now \in Nat, NEW replicas,
         \A r \in DOMAIN replicas : replicas[r].traffic \in 0..now
  PROVE  /\ Agent!MergedActivity(replicas) \in 0..now
         /\ \A r \in DOMAIN replicas : replicas[r].traffic <= Agent!MergedActivity(replicas)
<1> DEFINE S == {replicas[r].traffic : r \in DOMAIN replicas}
<1>1. S \subseteq 0..now
  OBVIOUS
<1>2. CASE S = {}
  BY <1>2 DEF Agent!MergedActivity, Agent!Latest, Agent!Never
<1>3. CASE S # {}
  <2>1. Agent!Latest(S) \in S /\ \A t \in S : t <= Agent!Latest(S)
    <3> HIDE DEF S
    <3> QED BY ZenonT(60), <1>1, <1>3, LatestIsGreatest
  <2> QED
    BY <1>1, <2>1 DEF Agent!MergedActivity
<1> QED
  BY <1>2, <1>3

\* evaluateActivity moves the marker forward only, and puts an idle agent to
\* sleep only on silence since the marker and since every record.
LEMMA EvaluatedSound ==
  ASSUME Agent!AgentLifecycleAssumption, now \in Nat, NEW a \in Agents, NEW replicas,
         \A r \in DOMAIN replicas : replicas[r].traffic \in 0..now
  PROVE  /\ Agent!Evaluated(a, replicas) \in Agents
         /\ Agent!Evaluated(a, replicas).wake = a.wake
         /\ a.last <= Agent!Evaluated(a, replicas).last
         /\ a.phase \in {"Running", "Idle"} /\ Agent!Evaluated(a, replicas).phase = "Hibernating" =>
              /\ a.last # Agent!Never => now - a.last > IdleTimeout + HibernationDelay
              /\ \A r \in DOMAIN replicas :
                   \/ replicas[r].traffic = Agent!Never
                   \/ now - replicas[r].traffic > IdleTimeout + HibernationDelay
<1> DEFINE recorded == Agent!MergedActivity(replicas)
           synthetic == recorded = Agent!Never
           last == IF synthetic THEN a.since ELSE recorded
           marker == Agent!Later(last, a.last)
           silence == IF synthetic /\ a.last # Agent!Never THEN a.last ELSE marker
           known == ~synthetic \/ (Agent!Qualified(replicas) /\ a.since # Agent!Never)
           fresh == ~synthetic /\ a.last # Agent!Never /\ last > a.last
           e == Agent!Evaluated(a, replicas)
<1>1. recorded \in Nat /\ \A r \in DOMAIN replicas : replicas[r].traffic <= recorded
  BY MergedIsGreatest
<1>2. a.last \in Nat /\ a.since \in Nat /\ last \in Nat
  BY <1>1 DEF Agents
<1>3. marker \in Nat /\ a.last <= marker /\ last <= marker
  BY <1>2, LaterIsGreater
<1>4. /\ IdleTimeout \in Nat /\ HibernationDelay \in Nat
  BY DEF Agent!AgentLifecycleAssumption
<1>5. \/ a.phase = "Running" /\ e = [Agent!SetPhase(a, "Idle") EXCEPT !.last = marker]
      \/ a.phase = "Idle" /\ fresh /\ e = [Agent!SetPhase(a, "Running") EXCEPT !.last = last]
      \/ /\ a.phase = "Idle" /\ now - silence > IdleTimeout + HibernationDelay
         /\ e = Agent!SetPhase(a, "Hibernating")
      \/ e = a
  BY ZenonT(60) DEF Agent!Evaluated
<1> HIDE DEF recorded, marker
<1>6. CASE a.phase = "Running" /\ e = [Agent!SetPhase(a, "Idle") EXCEPT !.last = marker]
  BY <1>2, <1>3, <1>6, SetPhaseType DEF Agents, Phases
<1>7. CASE a.phase = "Idle" /\ fresh /\ e = [Agent!SetPhase(a, "Running") EXCEPT !.last = last]
  BY <1>2, <1>7, SetPhaseType DEF Agents, Phases
<1>8. CASE /\ a.phase = "Idle" /\ now - silence > IdleTimeout + HibernationDelay
           /\ e = Agent!SetPhase(a, "Hibernating")
  <2>1. a.last # Agent!Never => a.last <= silence
    BY <1>2, <1>3
  <2>2. \A r \in DOMAIN replicas :
          replicas[r].traffic = Agent!Never \/ replicas[r].traffic <= silence
    BY <1>1, <1>2, <1>3 DEF Agent!Never
  <2>3. silence \in Nat
    BY <1>2, <1>3
  <2>4. e \in Agents /\ e.wake = a.wake /\ e.last = a.last
    BY <1>8, SetPhaseType DEF Phases
  <2> QED
    BY <1>2, <1>4, <1>8, <2>1, <2>2, <2>3, <2>4
<1>9. CASE e = a
  BY <1>2, <1>9
<1> QED
  BY <1>5, <1>6, <1>7, <1>8, <1>9

-----------------------------------------------------------------------------
(* The invariant *)

LEMMA InitInv ==
  ASSUME Agent!Init
  PROVE  IInv
<1>1. Agent!NewAgent \in Agents
  BY DEF Agent!NewAgent, Agents, Phases, Agent!Never
<1>2. TypeOK
  BY <1>1 DEF Agent!Init, TypeOK, Agent!NoPod, Pods, Agent!NothingFetched, Agent!Idling, Steps,
              Agent!Never
<1> QED
  BY <1>1, <1>2 DEF Agent!Init, IInv, RecordsTrue, PassTrue, SilenceJudged, Retiring,
                    VolumeReleased, Agent!NothingFetched, Agent!Idling, Agent!NewAgent,
                    Agent!Never

\* Between reading and evaluating, the pass holds nothing to be judged.
LEMMA IdlingType ==
  /\ Agent!Idling \in [at : Steps, read : Agents, new : Agents]
  /\ Agent!Idling.at = "idle" /\ Agent!Idling.new.wake = Agent!Idling.read.wake
  /\ Agent!Idling.read.last <= Agent!Idling.new.last
BY DEF Agent!Idling, Steps, Agent!NewAgent, Agents, Phases, Agent!Never

\* A write of what was read: the marker does not move back, and the wake is
\* the new marker.
LEMMA WriteStep ==
  ASSUME IInv, NEW new \in Agents, NEW next \in {"idle", "unwake", "teardown"},
         Agent!Write(new, next),
         next = "unwake" => new.phase # "Hibernated",
         UNCHANGED <<Agent!world, pod, fetched>>,
         \/ woke' = woke /\ (agent = agentPass.read => agentPass.read.last <= new.last)
         \/ woke' = new.last /\ agent = agentPass.read,
         volume' \in {volume, "gone"}, Retain /\ ~ClassReadFails => volume' = volume
  PROVE  IInv'
<1>1. agent' \in Agents /\ woke' \in Nat /\ woke' <= agent'.last
  BY DEF IInv, TypeOK, Agent!Write, Agent!EndPass, Agents
<1>2. /\ agentPass' \in [at : Steps, read : Agents, new : Agents]
      /\ agentPass'.at \in {"idle", "unwake", "teardown"}
      /\ PassTrue'
  BY IdlingType DEF IInv, TypeOK, Agent!Write, Agent!EndPass, PassTrue, Agents, Steps
<1> QED
  BY <1>1, <1>2 DEF IInv, TypeOK, RecordsTrue, SilenceJudged, Retiring, VolumeReleased,
                    Agent!world

\* A pass that ends without a write.
LEMMA EndStep ==
  ASSUME IInv, Agent!EndPass, UNCHANGED <<Agent!world, agent, volume, woke>>,
         pod' \in Pods, fetched' \in {fetched, Agent!NothingFetched}
  PROVE  IInv'
<1>1. RecordsTrue'
  BY DEF IInv, TypeOK, RecordsTrue, Agent!NothingFetched, Agent!Never, Agent!world
<1> QED
  BY <1>1, IdlingType DEF IInv, TypeOK, PassTrue, SilenceJudged, Retiring, VolumeReleased,
     Agent!EndPass, Agent!NothingFetched, Agent!Never, Agent!world

\* A step of the pass that leaves the Agent alone and does not evaluate.
LEMMA MoveStep ==
  ASSUME IInv, UNCHANGED <<Agent!world, agent, fetched, woke>>,
         pod' \in Pods, volume' \in {"none", "owned", "kept", "gone"},
         agentPass' \in [at : Steps, read : Agents, new : Agents],
         PassTrue', ~Retiring', VolumeReleased'
  PROVE  IInv'
BY DEF IInv, TypeOK, RecordsTrue, SilenceJudged, Agent!world

\* A step of the world around the pass.
LEMMA WorldStep ==
  ASSUME Agent!AgentLifecycleAssumption, IInv, UNCHANGED <<Agent!quiet>>,
         pod' \in Pods, violates' \in BOOLEAN, troubles' \in Nat,
         \/ UNCHANGED store
         \/ \E r \in Replicas :
              \/ store' = [store EXCEPT ![r].traffic = now]
              \/ store' = [store EXCEPT ![r] = [started |-> now, traffic |-> Agent!Never]]
  PROVE  IInv'
<1>1. /\ store' \in [Replicas -> [started : Nat, traffic : Nat]]
      /\ \A r \in Replicas : store'[r].traffic \in {store[r].traffic, now, Agent!Never}
  BY DEF IInv, TypeOK, Agent!quiet, Agent!Never
<1>2. now \in Nat /\ fetched.at \in Nat /\ CacheWindow \in Nat \ {0}
  BY DEF IInv, TypeOK, Agent!AgentLifecycleAssumption
<1>3. RecordsTrue'
  BY <1>1, <1>2 DEF IInv, RecordsTrue, TypeOK, Agent!quiet, Agent!Never
<1>4. SilenceJudged'
  BY <1>1, <1>2 DEF IInv, RecordsTrue, SilenceJudged, Retiring, TypeOK, Agent!quiet, Agent!Never
<1> QED
  BY <1>1, <1>3, <1>4 DEF IInv, TypeOK, PassTrue, VolumeReleased, Agent!quiet

\* One step per action.
LEMMA NextInv ==
  ASSUME Agent!AgentLifecycleAssumption, IInv, [Agent!Next]_(Agent!vars)
  PROVE  IInv'
<1> USE DEF Agent!Never
<1> DEFINE read == agentPass.read
<1>1. read \in Agents /\ now \in Nat /\ pod \in Pods
  BY DEF IInv, TypeOK
<1>2. ASSUME NEW phase \in Phases
      PROVE  Agent!SetPhase(read, phase) \in Agents /\ read.last <= Agent!SetPhase(read, phase).last
  BY <1>1, SetPhaseType DEF Agents
<1>3. Agent!NoPod \in Pods /\ Agent!DesiredPod \in Pods /\ Agent!DeletedPod \in Pods
  BY ZenonT(30), <1>1 DEF Agent!NoPod, Agent!DesiredPod, Agent!DeletedPod, Pods
<1>begin. ASSUME Agent!Begin PROVE IInv'
  BY <1>begin, MoveStep
     DEF Agent!Begin, IInv, TypeOK, PassTrue, Retiring, VolumeReleased, Agent!world, Agents, Steps
<1>finalizer. ASSUME Agent!AddFinalizer PROVE IInv'
  <2> DEFINE new == [read EXCEPT !.finalizer = TRUE]
  <2>1. new \in Agents
    BY ZenonT(30), <1>1 DEF Agents
  <2>2. read.last <= new.last
    BY <1>1, SetPhaseType DEF Agents, Phases
  <2>3. Agent!Write(new, "idle") /\ UNCHANGED <<Agent!world, pod, volume, fetched, woke>>
    BY <1>finalizer DEF Agent!AddFinalizer, Agent!Driving, Agent!At
  <2> HIDE DEF new
  <2> QED
    BY <2>1, <2>2, <2>3, WriteStep
<1>wake. ASSUME Agent!CommitWake PROVE IInv'
  <2> DEFINE new == [Agent!SetPhase(read, "Resuming") EXCEPT !.last = now]
  <2>1. new \in Agents /\ new.last = now /\ new.phase = "Resuming"
    BY <1>1, SetPhaseType DEF Agents, Phases
  <2>2. /\ Agent!Write(new, "unwake") /\ UNCHANGED <<Agent!world, pod, volume, fetched>>
        /\ woke' = IF agent = read THEN now ELSE woke
    BY <1>wake DEF Agent!CommitWake, Agent!Driving, Agent!At
  <2> HIDE DEF new
  <2> QED
    BY <2>1, <2>2, WriteStep
<1>unwake. ASSUME Agent!RemoveWake PROVE IInv'
  <2> DEFINE new == [read EXCEPT !.wake = FALSE]
  <2>1. new \in Agents
    BY ZenonT(30), <1>1 DEF Agents
  <2>2. read.last <= new.last
    BY <1>1, SetPhaseType DEF Agents, Phases
  <2>3. Agent!Write(new, "idle") /\ UNCHANGED <<Agent!world, pod, volume, fetched, woke>>
    BY <1>unwake DEF Agent!RemoveWake, Agent!Driving, Agent!At
  <2> HIDE DEF new
  <2> QED
    BY <2>1, <2>2, <2>3, WriteStep
<1>hold. ASSUME Agent!Hold \/ Agent!StayHibernated PROVE IInv'
  BY <1>hold, <1>1, EndStep DEF Agent!Hold, Agent!StayHibernated, Agent!Admitted, Agent!Awake,
                                Agent!Driving, Agent!At
<1>degrade. ASSUME Agent!Degrade PROVE IInv'
  <2> DEFINE new == IF read.phase = "Degraded" THEN read
                    ELSE [Agent!SetPhase(read, "Degraded") EXCEPT !.pre = read.phase]
  <2>1. new \in Agents
    BY <1>1, SetPhaseType DEF Agents, Phases
  <2>2. read.last <= new.last
    BY <1>1, SetPhaseType DEF Agents, Phases
  <2>3. Agent!Write(new, "idle") /\ UNCHANGED <<Agent!world, pod, volume, fetched, woke>>
    BY <1>degrade DEF Agent!Degrade, Agent!Awake, Agent!Driving, Agent!At
  <2> HIDE DEF new
  <2> QED
    BY <2>1, <2>2, <2>3, WriteStep
<1>recover. ASSUME Agent!Recover PROVE IInv'
  <2> DEFINE new == [Agent!SetPhase(read, IF read.pre = "none" THEN "Pending" ELSE read.pre)
                      EXCEPT !.pre = "none"]
  <2>1. new \in Agents
    BY <1>1, SetPhaseType DEF Agents, Phases
  <2>2. read.last <= new.last
    BY <1>1, SetPhaseType DEF Agents, Phases
  <2>3. Agent!Write(new, "idle") /\ UNCHANGED <<Agent!world, pod, volume, fetched, woke>>
    BY <1>recover DEF Agent!Recover, Agent!Awake, Agent!Driving, Agent!At
  <2> HIDE DEF new
  <2> QED
    BY <2>1, <2>2, <2>3, WriteStep
<1>hibernate. ASSUME Agent!DriveHibernating PROVE IInv'
  <2>1. CASE pod # Agent!NoPod
    BY <1>hibernate, <1>3, <2>1, EndStep
       DEF Agent!DriveHibernating, Agent!Admitted, Agent!Awake, Agent!Driving, Agent!At
  <2>2. CASE pod = Agent!NoPod
    <3> DEFINE new == Agent!SetPhase(read, "Hibernated")
    <3>1. new \in Agents /\ read.last <= new.last
      BY <1>2 DEF Phases
    <3>2. Agent!Write(new, "idle") /\ UNCHANGED <<Agent!world, pod, volume, fetched, woke>>
      BY ZenonT(30), <1>hibernate, <2>2 DEF Agent!DriveHibernating, Agent!Admitted, Agent!Awake,
                                            Agent!Driving, Agent!At
    <3> HIDE DEF new
    <3> QED
      BY <3>1, <3>2, WriteStep
  <2> QED
    BY <2>1, <2>2
<1>certificate. ASSUME Agent!AwaitCertificate PROVE IInv'
  <2> DEFINE new == IF read.phase = "Pending" THEN Agent!SetPhase(read, "Provisioning") ELSE read
  <2>1. new \in Agents
    BY <1>1, SetPhaseType DEF Agents, Phases
  <2>2. read.last <= new.last
    BY <1>1, SetPhaseType DEF Agents, Phases
  <2>3. Agent!Write(new, "idle") /\ UNCHANGED <<Agent!world, pod, volume, fetched, woke>>
    BY <1>certificate DEF Agent!AwaitCertificate, Agent!PodBearing, Agent!Admitted, Agent!Awake,
                          Agent!Driving, Agent!At
  <2> HIDE DEF new
  <2> QED
    BY <2>1, <2>2, <2>3, WriteStep
<1>converge. ASSUME Agent!Converge PROVE IInv'
  <2> DEFINE new == Agent!SetPhase(read, Agent!PodPhase)
  <2>1. Agent!PodPhase \in {"Provisioning", "Failed", "Idle", "Running"}
    BY DEF Agent!PodPhase
  <2>2. new \in Agents /\ new.last = read.last /\ new.wake = read.wake /\ new.phase = Agent!PodPhase
    BY <1>1, <2>1, SetPhaseType DEF Phases
  <2>3. /\ UNCHANGED <<Agent!world, agent, fetched, woke>>
        /\ pod' \in {Agent!DesiredPod, Agent!DeletedPod, pod}
        /\ volume' \in {volume, "owned"}
        /\ agentPass' = [agentPass EXCEPT !.new = new,
                      !.at = IF new.phase \in {"Running", "Idle"} THEN "evaluate" ELSE "status"]
    BY <1>converge DEF Agent!Converge, Agent!PodBearing, Agent!Admitted, Agent!Awake,
                       Agent!Driving, Agent!At
  <2> HIDE DEF new
  <2>4. pod' \in Pods /\ volume' \in {"none", "owned", "kept", "gone"}
    BY <1>1, <1>3, <2>3 DEF IInv, TypeOK
  <2>5. agentPass' \in [at : Steps, read : Agents, new : Agents]
    BY Zenon, <2>2, <2>3 DEF IInv, TypeOK, Steps
  <2>6. PassTrue' /\ ~Retiring' /\ VolumeReleased'
    BY <1>1, <2>1, <2>2, <2>3
       DEF IInv, TypeOK, PassTrue, Retiring, VolumeReleased, Agents
  <2> QED
    BY <2>3, <2>4, <2>5, <2>6, MoveStep
<1>evaluate. ASSUME Agent!Evaluate PROVE IInv'
  <2> DEFINE new == Agent!Evaluated(agentPass.new, fetched'.replicas)
  <2>1. /\ UNCHANGED <<Agent!world, agent, pod, volume, woke>>
        /\ agentPass.at = "evaluate"
        /\ agentPass' = [agentPass EXCEPT !.at = "status", !.new = new]
        /\ \/ now - fetched.at < CacheWindow /\ UNCHANGED fetched
           \/ \E R \in SUBSET Replicas :
                fetched' = [at |-> now, replicas |-> [r \in R |-> store[r]]]
    BY <1>evaluate DEF Agent!Evaluate, Agent!At
  <2>2. CacheWindow \in Nat \ {0}
    BY DEF Agent!AgentLifecycleAssumption
  <2>3. /\ fetched'.at \in Nat /\ now - fetched'.at < CacheWindow
        /\ RecordsTrue'
    <3>1. CASE now - fetched.at < CacheWindow /\ UNCHANGED fetched
      BY <2>1, <3>1 DEF IInv, TypeOK, RecordsTrue, Agent!world
    <3>2. ASSUME NEW R \in SUBSET Replicas,
                 fetched' = [at |-> now, replicas |-> [r \in R |-> store[r]]]
          PROVE  fetched'.at \in Nat /\ now - fetched'.at < CacheWindow /\ RecordsTrue'
      BY <2>1, <2>2, <3>2 DEF IInv, TypeOK, RecordsTrue, Agent!world
    <3> QED
      BY <2>1, <3>1, <3>2
  <2>4. \A r \in DOMAIN fetched'.replicas : fetched'.replicas[r].traffic \in 0..now
    BY <2>1, <2>3 DEF RecordsTrue, Agent!world
  <2>5. /\ agentPass.new \in Agents /\ agentPass.new.last = read.last
        /\ agentPass.new.phase \in {"Running", "Idle"} /\ agentPass.new.wake = read.wake
    BY <2>1 DEF IInv, TypeOK, PassTrue
  <2>6. /\ new \in Agents /\ new.wake = read.wake /\ read.last <= new.last
        /\ new.phase = "Hibernating" =>
             /\ read.last # Agent!Never => now - read.last > IdleTimeout + HibernationDelay
             /\ \A r \in DOMAIN fetched'.replicas :
                  \/ fetched'.replicas[r].traffic = Agent!Never
                  \/ now - fetched'.replicas[r].traffic > IdleTimeout + HibernationDelay
    <3> DEFINE replicas == fetched'.replicas
    <3> HIDE DEF replicas
    <3>1. \A r \in DOMAIN replicas : replicas[r].traffic \in 0..now
      BY <2>4 DEF replicas
    <3> QED
      BY <1>1, <2>5, <3>1, EvaluatedSound DEF replicas
  <2> HIDE DEF new
  <2>7. agentPass' \in [at : Steps, read : Agents, new : Agents] /\ PassTrue'
    BY Zenon, <2>1, <2>6 DEF IInv, TypeOK, Steps, PassTrue
  <2>8. SilenceJudged'
    <3>1. \A r \in DOMAIN fetched'.replicas :
            /\ store[r].traffic \in Nat
            /\ \/ store[r].traffic \in {Agent!Never, fetched'.replicas[r].traffic}
               \/ store[r].traffic >= fetched'.at
      BY <2>1, <2>3 DEF IInv, TypeOK, RecordsTrue, Agent!world
    <3> QED
      BY <1>1, <2>1, <2>2, <2>3, <2>6, <3>1 DEF IInv, TypeOK, SilenceJudged, Retiring, Agent!world
  <2> QED
    BY <2>1, <2>3, <2>7, <2>8 DEF IInv, TypeOK, VolumeReleased, Agent!world
<1>unknown. ASSUME Agent!EvaluateFails PROVE IInv'
  <2>1. /\ UNCHANGED <<Agent!world, agent, pod, volume, fetched, woke>>
        /\ agentPass.at = "evaluate" /\ agentPass' = [agentPass EXCEPT !.at = "status"]
    BY <1>unknown DEF Agent!EvaluateFails, Agent!At
  <2>2. agentPass' \in [at : Steps, read : Agents, new : Agents] /\ PassTrue' /\ ~Retiring'
    BY <2>1 DEF IInv, TypeOK, Steps, PassTrue, Retiring
  <2>3. VolumeReleased'
    BY <2>1 DEF IInv, TypeOK, VolumeReleased
  <2> QED
    BY <1>1, <2>1, <2>2, <2>3, MoveStep DEF IInv, TypeOK
<1>status. ASSUME Agent!WriteStatus PROVE IInv'
  <2>1. Agent!Write(agentPass.new, "idle") /\ UNCHANGED <<Agent!world, pod, volume, fetched, woke>>
    BY <1>status DEF Agent!WriteStatus, Agent!At
  <2>2. agentPass.new \in Agents /\ read.last <= agentPass.new.last
    BY DEF IInv, TypeOK, PassTrue
  <2> QED
    BY <2>1, <2>2, WriteStep
<1>teardown. ASSUME Agent!BeginTeardown PROVE IInv'
  <2> DEFINE new == [Agent!SetPhase(read, "Terminating") EXCEPT !.pre = "none"]
  <2>1. new \in Agents /\ read.last <= new.last
    BY <1>1, SetPhaseType DEF Agents, Phases
  <2>2. Agent!Write(new, "teardown") /\ UNCHANGED <<Agent!world, pod, volume, fetched, woke>>
    BY <1>teardown DEF Agent!BeginTeardown, Agent!Deleting, Agent!At
  <2> HIDE DEF new
  <2> QED
    BY <2>1, <2>2, WriteStep
<1>deletePod. ASSUME Agent!TeardownPod PROVE IInv'
  BY <1>deletePod, <1>3, EndStep DEF Agent!TeardownPod, Agent!Torn, Agent!Deleting, Agent!At
<1>release. ASSUME Agent!ReleaseVolume PROVE IInv'
  <2>1. /\ UNCHANGED <<Agent!world, agent, pod, fetched, woke>>
        /\ agentPass' = [agentPass EXCEPT !.at = "release"]
        /\ \/ volume' = IF Retain /\ volume = "owned" THEN "kept" ELSE volume
           \/ ClassReadFails /\ UNCHANGED volume
    BY <1>release DEF Agent!ReleaseVolume, Agent!Torn, Agent!Deleting, Agent!At
  <2>2. agentPass' \in [at : Steps, read : Agents, new : Agents] /\ PassTrue' /\ ~Retiring'
    BY <2>1 DEF IInv, TypeOK, Steps, PassTrue, Retiring
  <2>3. VolumeReleased' /\ volume' \in {"none", "owned", "kept", "gone"}
    BY <2>1 DEF IInv, TypeOK, VolumeReleased
  <2> QED
    BY <1>1, <2>1, <2>2, <2>3, MoveStep DEF IInv, TypeOK
<1>remove. ASSUME Agent!RemoveFinalizer PROVE IInv'
  <2> DEFINE new == [read EXCEPT !.exists = FALSE, !.finalizer = FALSE]
  <2>1. new \in Agents
    BY ZenonT(30), <1>1 DEF Agents
  <2>2. read.last <= new.last
    BY <1>1 DEF Agents
  <2>3. /\ Agent!Write(new, "idle") /\ UNCHANGED <<Agent!world, pod, fetched, woke>>
        /\ agentPass.at = "release"
        /\ volume' = IF agent'.exists \/ volume # "owned" THEN volume ELSE "gone"
    BY <1>remove DEF Agent!RemoveFinalizer, Agent!At
  <2>4. volume' \in {volume, "gone"} /\ (Retain /\ ~ClassReadFails => volume' = volume)
    BY <2>3 DEF IInv, VolumeReleased
  <2> HIDE DEF new
  <2> QED
    BY <2>1, <2>2, <2>3, <2>4, WriteStep
<1>interrupt. ASSUME Agent!Interrupt PROVE IInv'
  BY <1>interrupt, <1>1, EndStep DEF Agent!Interrupt
<1>pod. ASSUME Agent!PodStarts \/ Agent!PodDrifts \/ Agent!PodGone
               \/ \E state \in {"starting", "looping", "terminal"} : Agent!PodFails(state)
        PROVE  IInv'
  <2>1. /\ UNCHANGED <<Agent!quiet, violates, store>>
        /\ troubles' \in {troubles, troubles + 1}
        /\ \/ \E state \in {"starting", "ready", "looping", "terminal"} :
                pod' = [pod EXCEPT !.state = state]
           \/ pod' = [pod EXCEPT !.drifted = TRUE]
           \/ pod' = Agent!NoPod
    BY <1>pod DEF Agent!PodStarts, Agent!PodDrifts, Agent!PodGone, Agent!PodFails, Agent!Trouble
  <2>2. [pod EXCEPT !.drifted = TRUE] \in Pods
    BY ZenonT(30), <1>1 DEF Pods
  <2>3. pod' \in Pods
    BY ZenonT(30), <1>1, <1>3, <2>1, <2>2 DEF Pods
  <2> QED
    BY <2>1, <2>3, WorldStep DEF IInv, TypeOK
<1>class. ASSUME Agent!ClassChanges PROVE IInv'
  <2>1. UNCHANGED <<Agent!quiet, pod, store>> /\ violates' \in BOOLEAN /\ troubles' = troubles + 1
    BY <1>class DEF Agent!ClassChanges, Agent!Trouble
  <2> QED
    BY <1>1, <2>1, WorldStep DEF IInv, TypeOK
<1>store. ASSUME NEW r \in Replicas, Agent!RecordTraffic(r) \/ Agent!ReplicaRestarts(r) PROVE IInv'
  <2>1. /\ UNCHANGED <<Agent!quiet, pod, violates>> /\ troubles' \in {troubles, troubles + 1}
        /\ \/ store' = [store EXCEPT ![r].traffic = now]
           \/ store' = [store EXCEPT ![r] = [started |-> now, traffic |-> Agent!Never]]
    BY <1>store DEF Agent!RecordTraffic, Agent!ReplicaRestarts, Agent!Trouble
  <2> QED
    BY <1>1, <2>1, WorldStep DEF IInv, TypeOK
<1>user. ASSUME Agent!Activate \/ Agent!UserDeletes PROVE IInv'
  <2>1. /\ UNCHANGED <<now, pod, volume, violates, store, fetched, agentPass, woke, troubles>>
        /\ wakes' \in {wakes, wakes + 1}
    BY <1>user DEF Agent!Activate, Agent!UserDeletes
  <2>2. agent' \in Agents
    <3>1. agent \in Agents
      BY DEF IInv, TypeOK
    <3>2. CASE Agent!Activate
      BY ZenonT(30), <3>1, <3>2 DEF Agent!Activate, Agents
    <3>3. CASE Agent!UserDeletes
      BY ZenonT(30), <3>1, <3>3 DEF Agent!UserDeletes, Agents
    <3> QED
      BY <1>user, <3>2, <3>3
  <2>3. agent'.last = agent.last
    BY ZenonT(60), <1>user DEF Agent!Activate, Agent!UserDeletes, IInv, TypeOK, Agents
  <2> QED
    BY <2>1, <2>2, <2>3 DEF IInv, TypeOK, RecordsTrue, PassTrue, SilenceJudged, Retiring,
                            VolumeReleased
<1>tick. ASSUME Agent!Tick PROVE IInv'
  <2>1. /\ UNCHANGED <<agent, pod, volume, violates, store, agentPass, woke, wakes, troubles>>
        /\ now' = now + 1 /\ agentPass.at = "idle"
        /\ fetched' \in {fetched, Agent!NothingFetched}
    BY <1>tick DEF Agent!Tick
  <2>2. RecordsTrue'
    BY <1>1, <2>1 DEF IInv, TypeOK, RecordsTrue, Agent!NothingFetched
  <2> QED
    BY <2>1, <2>2 DEF IInv, TypeOK, PassTrue, SilenceJudged, Retiring, VolumeReleased,
                      Agent!NothingFetched
<1>stutter. ASSUME UNCHANGED Agent!vars PROVE IInv'
  BY <1>stutter DEF Agent!vars, IInv, TypeOK, RecordsTrue, PassTrue, SilenceJudged, Retiring,
                    VolumeReleased
<1> QED
  BY ZenonT(30), <1>begin, <1>finalizer, <1>wake, <1>unwake, <1>hold, <1>degrade, <1>recover,
     <1>hibernate, <1>certificate, <1>converge, <1>evaluate, <1>unknown, <1>status,
     <1>teardown, <1>deletePod, <1>release, <1>remove, <1>interrupt, <1>pod, <1>class,
     <1>store, <1>user, <1>tick, <1>stutter
     DEF Agent!Next, Agent!Reconcile, Agent!Work

\* The invariant holds in every state of every behaviour.
THEOREM Invariant ==
  ASSUME Agent!AgentLifecycleAssumption
  PROVE  Agent!Spec => []IInv
<1>1. Agent!Init => IInv
  BY InitInv
<1>2. IInv /\ [Agent!Next]_(Agent!vars) => IInv'
  BY NextInv
<1> QED
  BY <1>1, <1>2, PTL DEF Agent!Spec

-----------------------------------------------------------------------------
(* What it is for *)

\* A retained volume outlives its Agent: the owner reference goes before the
\* finalizer, whatever interrupts or repeats the passes of the deletion.
THEOREM VolumeSurvives ==
  ASSUME Agent!AgentLifecycleAssumption
  PROVE  Agent!Spec => []RetainedVolumeSurvives
<1>1. IInv => RetainedVolumeSurvives
  BY DEF IInv, VolumeReleased, RetainedVolumeSurvives, Agent!RetainedVolumeSurvives
<1> QED
  BY <1>1, Invariant, PTL

\* The steps of the pass that do not write the status: the Agent is as it was,
\* or it is as read but for what the step changes.  The annotation goes only
\* from an agent that is not hibernated, and none of them starts a sleep.
LEMMA OtherSteps ==
  ASSUME IInv, Agent!Reconcile, ~Agent!WriteStatus
  PROVE  /\ agent.phase = "Hibernated" /\ agent.wake => agent'.wake
         /\ agent.phase = "Idle" => agent'.phase # "Hibernating"
<1> DEFINE Goal == /\ agent.phase = "Hibernated" /\ agent.wake => agent'.wake
                   /\ agent.phase = "Idle" => agent'.phase # "Hibernating"
<1>1. agentPass.read \in Agents /\ now \in Nat
  BY DEF IInv, TypeOK
<1>2. ASSUME NEW new \in Agents, NEW next, Agent!Write(new, next),
             \/ new.wake = agentPass.read.wake
             \/ agentPass.read.phase # "Hibernated",
             new.phase \in {agentPass.read.phase, "Hibernated", "Resuming", "Provisioning",
                           "Degraded", "Terminating"}
                \/ agentPass.read.phase = "Degraded"
      PROVE  Goal
  BY <1>2 DEF Agent!Write, Agent!EndPass
<1>3. CASE UNCHANGED agent
  BY <1>3
<1>4. CASE Agent!AddFinalizer \/ Agent!RemoveFinalizer \/ Agent!RemoveWake
  <2> DEFINE add == [agentPass.read EXCEPT !.finalizer = TRUE]
             rem == [agentPass.read EXCEPT !.exists = FALSE, !.finalizer = FALSE]
             unw == [agentPass.read EXCEPT !.wake = FALSE]
  <2>1. add \in Agents /\ rem \in Agents /\ unw \in Agents
    BY ZenonT(30), <1>1 DEF Agents
  <2>2. /\ add.wake = agentPass.read.wake /\ add.phase = agentPass.read.phase
        /\ rem.wake = agentPass.read.wake /\ rem.phase = agentPass.read.phase
        /\ unw.phase = agentPass.read.phase
    BY <1>1 DEF Agents
  <2>3. \/ Agent!Write(add, "idle") \/ Agent!Write(rem, "idle")
        \/ Agent!Write(unw, "idle") /\ agentPass.read.phase # "Hibernated"
    BY <1>4 DEF Agent!AddFinalizer, Agent!RemoveFinalizer, Agent!RemoveWake, Agent!At, IInv,
                PassTrue
  <2> HIDE DEF add, rem, unw
  <2> QED
    BY <1>2, <2>1, <2>2, <2>3
<1>5. CASE \/ Agent!CommitWake \/ Agent!Degrade \/ Agent!Recover \/ Agent!DriveHibernating
           \/ Agent!AwaitCertificate \/ Agent!BeginTeardown
  <2> DEFINE resumes == [Agent!SetPhase(agentPass.read, "Resuming") EXCEPT !.last = now]
             falls == [Agent!SetPhase(agentPass.read, "Degraded") EXCEPT !.pre = agentPass.read.phase]
             rises == [Agent!SetPhase(agentPass.read, IF agentPass.read.pre = "none" THEN "Pending"
                                           ELSE agentPass.read.pre) EXCEPT !.pre = "none"]
             sleeps == Agent!SetPhase(agentPass.read, "Hibernated")
             waits == Agent!SetPhase(agentPass.read, "Provisioning")
             ends == [Agent!SetPhase(agentPass.read, "Terminating") EXCEPT !.pre = "none"]
  <2>1. \A new \in {resumes, falls, rises, sleeps, waits, ends} :
          new \in Agents /\ new.wake = agentPass.read.wake
    BY <1>1, SetPhaseType DEF Agents, Phases
  <2>2. /\ resumes.phase = "Resuming" /\ falls.phase = "Degraded" /\ sleeps.phase = "Hibernated"
        /\ waits.phase = "Provisioning" /\ ends.phase = "Terminating"
    BY <1>1, SetPhaseType DEF Agents, Phases
  <2>3. \/ UNCHANGED agent
        \/ Agent!Write(agentPass.read, "idle")
        \/ \E new \in {resumes, falls, sleeps, waits, ends} : \E next : Agent!Write(new, next)
        \/ Agent!Write(rises, "idle") /\ agentPass.read.phase = "Degraded"
    BY <1>5 DEF Agent!CommitWake, Agent!Degrade, Agent!Recover, Agent!DriveHibernating,
                Agent!AwaitCertificate, Agent!BeginTeardown
  <2> HIDE DEF resumes, falls, rises, sleeps, waits, ends
  <2> QED
    BY <1>1, <1>2, <1>3, <2>1, <2>2, <2>3
<1> QED
  BY <1>3, <1>4, <1>5 DEF Agent!Reconcile, Agent!Work, Agent!Begin, Agent!Hold,
                          Agent!StayHibernated, Agent!Converge, Agent!Evaluate,
     Agent!EvaluateFails, Agent!Interrupt, Agent!TeardownPod, Agent!ReleaseVolume

\* The steps of the world start no sleep and drop no wake.
LEMMA WorldSteps ==
  ASSUME IInv, [Agent!Next]_(Agent!vars), ~Agent!Reconcile
  PROVE  /\ agent.phase = "Hibernated" /\ agent.wake => agent'.wake
         /\ agent.phase = "Idle" => agent'.phase # "Hibernating"
<1>1. \/ UNCHANGED agent
      \/ agent' = [agent EXCEPT !.wake = TRUE]
      \/ agent' = [agent EXCEPT !.deleting = TRUE, !.exists = agent.finalizer]
  BY DEF Agent!Next, Agent!vars, Agent!PodStarts, Agent!PodDrifts, Agent!PodGone, Agent!PodFails,
         Agent!ClassChanges, Agent!RecordTraffic,
         Agent!ReplicaRestarts, Agent!Activate, Agent!UserDeletes, Agent!Tick, Agent!quiet
<1>2. agent \in Agents
  BY DEF IInv, TypeOK
<1> QED
  BY Zenon, <1>1, <1>2 DEF Agents

\* A wake on a hibernated agent is never dropped: handleWake commits Resuming
\* before it removes the annotation, and every other write leaves it.
THEOREM WakeKept ==
  ASSUME Agent!AgentLifecycleAssumption
  PROVE  Agent!Spec => WakeNotDropped
<1>1. IInv /\ [Agent!Next]_(Agent!vars) =>
        [agent.phase = "Hibernated" /\ agent.wake /\ agent'.exists => agent'.wake]_(Agent!vars)
  <2> SUFFICES ASSUME IInv, [Agent!Next]_(Agent!vars), agent.phase = "Hibernated", agent.wake
               PROVE  agent'.wake
    OBVIOUS
  <2>1. CASE Agent!WriteStatus
    BY <2>1 DEF Agent!WriteStatus, Agent!Write, Agent!EndPass, IInv, PassTrue
  <2> QED
    BY <2>1, OtherSteps, WorldSteps
<1> QED
  BY <1>1, Invariant, PTL DEF Agent!Spec, WakeNotDropped, Agent!WakeNotDropped

\* Only a pass that has judged the silence puts an idle agent to sleep.
LEMMA SleepIsJudged ==
  ASSUME IInv, [Agent!Next]_(Agent!vars), agent'.phase = "Hibernating", agent.phase = "Idle"
  PROVE  agent = agentPass.read /\ Retiring
<1>1. Agent!WriteStatus
  BY OtherSteps, WorldSteps
<1> QED
  BY <1>1 DEF Agent!WriteStatus, Agent!At, Agent!Write, Agent!EndPass, Retiring

\* A woken agent gets the whole idleTimeout and hibernationDelay before it
\* sleeps again: the wake is a floor under lastActivityTime, which evaluations
\* on however old records never lower.
THEOREM WokenStays ==
  ASSUME Agent!AgentLifecycleAssumption
  PROVE  Agent!Spec => WokenStaysUp
<1>1. IInv /\ [Agent!Next]_(Agent!vars) =>
        [agent'.phase = "Hibernating" /\ agent.phase = "Idle" /\ woke # Agent!Never
           => now - woke > IdleTimeout + HibernationDelay]_(Agent!vars)
  <2> SUFFICES ASSUME IInv, [Agent!Next]_(Agent!vars), agent'.phase = "Hibernating",
                      agent.phase = "Idle", woke # Agent!Never
               PROVE  now - woke > IdleTimeout + HibernationDelay
    OBVIOUS
  <2>1. woke \in Nat /\ agent.last \in Nat /\ now \in Nat /\ woke <= agent.last
    BY DEF IInv, TypeOK, Agents
  <2>2. now - agent.last > IdleTimeout + HibernationDelay
    BY <2>1, SleepIsJudged DEF IInv, SilenceJudged, Agent!Never
  <2> QED
    BY <2>1, <2>2 DEF Agent!AgentLifecycleAssumption
<1> QED
  BY <1>1, Invariant, PTL DEF Agent!Spec, WokenStaysUp, Agent!WokenStaysUp

\* An agent goes to sleep only on the silence of every replica that answered,
\* but for traffic within the cache window of the read.
THEOREM SleepsOnSilence ==
  ASSUME Agent!AgentLifecycleAssumption
  PROVE  Agent!Spec => SleepsOnlyWhenSilent
<1> DEFINE Silent ==
      \A r \in DOMAIN fetched.replicas :
        \/ store[r].traffic = Agent!Never
        \/ now - store[r].traffic > IdleTimeout + HibernationDelay
        \/ now - store[r].traffic < CacheWindow
<1>1. IInv /\ [Agent!Next]_(Agent!vars) =>
        [agent'.phase = "Hibernating" /\ agent.phase = "Idle" => Silent]_(Agent!vars)
  BY SleepIsJudged DEF IInv, SilenceJudged
<1> QED
  BY <1>1, Invariant, PTL DEF Agent!Spec, SleepsOnlyWhenSilent, Agent!SleepsOnlyWhenSilent
=============================================================================
