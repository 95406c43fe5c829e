-------------------------- MODULE AgentTaskProofs ---------------------------
(***************************************************************************)
(* Theorems about AgentTask, for any backoff limit and any number of Pods, *)
(* evictions and completion calls, and in every setting: whatever passes   *)
(* are interrupted, however stale their reads and slow the terminations, a *)
(* settled task stays settled, every attempt counts against the limit, and *)
(* success is never made up.                                               *)
(***************************************************************************)
EXTENDS AgentTask, TLAPS

Active == {"Pending", "Provisioning", "Running", "Completing"}
Final == {"Succeeded", "TimedOut", "Failed", "Terminating"}
PodNames == PodIDs \cup {NoPod}

Tasks == [exists : BOOLEAN, finalizer : BOOLEAN, deleting : BOOLEAN,
          phase : Active \cup Final, retries : Nat, uid : PodNames,
          started : BOOLEAN, done : BOOLEAN]
TaskPods == [state : {"none", "pending", "ready", "succeeded", "failed", "gone"},
             deleting : BOOLEAN, attempt : Nat]
Statuses == {"none", "success", "failure"}
Mailboxes == [status : Statuses, from : PodNames]
Steps == {"idle", "drive", "ttl", "stamp", "completing", "delete", "reset", "reopen"}
Passes == [at : Steps, task : Tasks, pod : PodNames, seen : TaskPods]

TypeOK ==
  /\ setting \in Settings
  /\ task \in Tasks /\ tcache \in Tasks /\ gtask \in Tasks
  /\ pods \in [PodIDs -> TaskPods] /\ pcache \in [PodIDs -> TaskPods]
  /\ mailbox \in Mailboxes /\ mcache \in Mailboxes
  /\ expired \in BOOLEAN
  /\ report \in [PodIDs -> Statuses]
  /\ posts \in [PodIDs -> Nat]
  /\ inflight \subseteq PodIDs
  /\ evictions \in Nat
  /\ pass \in Passes

\* A task that has its completionTime is in a final phase, in the API server, in
\* the controller's cache and in what a pass holds; and a pass that is past its
\* first write holds none that has it.
DoneIsFinal ==
  /\ \A t \in {task, tcache, pass.task} : t.done => t.phase \in Final
  /\ pass.at \in {"stamp", "completing", "delete", "reset", "reopen"} => ~pass.task.done

IInv == TypeOK /\ DoneIsFinal

\* Only the user's deletion marks differ.
SameButDeleted(t, u) ==
  /\ t.finalizer = u.finalizer /\ t.phase = u.phase /\ t.retries = u.retries
  /\ t.uid = u.uid /\ t.started = u.started /\ t.done = u.done

-----------------------------------------------------------------------------
(* The tasks that are written *)

LEMMA SettledForm ==
  ASSUME NEW t \in Tasks, NEW phase \in Final
  PROVE  /\ Settled(t, phase) \in Tasks
         /\ Settled(t, phase).phase = phase /\ Settled(t, phase).done
         /\ Settled(t, phase).exists = t.exists /\ Settled(t, phase).deleting = t.deleting
         /\ Settled(t, phase).retries = t.retries /\ Settled(t, phase).uid = t.uid
<1>1. Settled(t, phase) \in Tasks
  BY ZenonT(30) DEF Settled, Tasks
<1> QED
  BY <1>1 DEF Settled, Tasks

LEMMA RetriedForm ==
  ASSUME NEW t \in Tasks
  PROVE  /\ Retried(t) \in Tasks
         /\ Retried(t).phase = "Failed" /\ Retried(t).uid = NoPod
         /\ Retried(t).retries = t.retries + 1
         /\ Retried(t).exists = t.exists /\ Retried(t).deleting = t.deleting
         /\ Retried(t).done = t.done
<1>1. t.retries + 1 \in Nat /\ NoPod \in PodNames /\ "Failed" \in Active \cup Final
  BY DEF Tasks, PodNames, Final
<1>2. Retried(t) \in Tasks
  BY ZenonT(30), <1>1 DEF Retried, Tasks
<1> QED
  BY <1>2 DEF Retried, Tasks

LEMMA PhaseForm ==
  ASSUME NEW t \in Tasks, NEW phase \in Active \cup Final
  PROVE  /\ [t EXCEPT !.phase = phase] \in Tasks
         /\ [t EXCEPT !.phase = phase].phase = phase
         /\ [t EXCEPT !.phase = phase].exists = t.exists
         /\ [t EXCEPT !.phase = phase].deleting = t.deleting
         /\ [t EXCEPT !.phase = phase].done = t.done
         /\ [t EXCEPT !.phase = phase].retries = t.retries
         /\ [t EXCEPT !.phase = phase].uid = t.uid
BY DEF Tasks

LEMMA GateForm ==
  ASSUME NEW t \in Tasks, NEW p \in PodNames
  PROVE  LET u == [t EXCEPT !.uid = p] IN
         /\ u \in Tasks /\ u.phase = t.phase /\ u.exists = t.exists
         /\ u.deleting = t.deleting /\ u.done = t.done /\ u.retries = t.retries
         /\ u.uid = p
BY DEF Tasks

LEMMA RunningForm ==
  ASSUME NEW t \in Tasks
  PROVE  LET u == [t EXCEPT !.phase = "Running", !.started = TRUE] IN
         /\ u \in Tasks /\ u.phase = "Running" /\ u.exists = t.exists
         /\ u.deleting = t.deleting /\ u.done = t.done /\ u.retries = t.retries
         /\ u.uid = t.uid
<1> DEFINE u == [t EXCEPT !.phase = "Running", !.started = TRUE]
<1>1. u \in Tasks
  BY ZenonT(30) DEF Tasks, Active
<1> QED
  BY <1>1 DEF Tasks

LEMMA FinalizerForm ==
  ASSUME NEW t \in Tasks
  PROVE  LET u == [t EXCEPT !.finalizer = TRUE]
             v == [t EXCEPT !.finalizer = FALSE, !.exists = FALSE]
         IN
         /\ u \in Tasks /\ u.phase = t.phase /\ u.exists = t.exists
         /\ u.deleting = t.deleting /\ u.done = t.done /\ u.retries = t.retries
         /\ u.uid = t.uid
         /\ v \in Tasks /\ v.phase = t.phase /\ ~v.exists
         /\ v.deleting = t.deleting /\ v.done = t.done /\ v.retries = t.retries
         /\ v.uid = t.uid
<1> DEFINE u == [t EXCEPT !.finalizer = TRUE]
           v == [t EXCEPT !.finalizer = FALSE, !.exists = FALSE]
<1>1. u \in Tasks /\ v \in Tasks
  BY ZenonT(30) DEF Tasks
<1> QED
  BY <1>1 DEF Tasks

LEMMA DeletingForm ==
  ASSUME NEW t \in Tasks, NEW b \in BOOLEAN
  PROVE  /\ [t EXCEPT !.deleting = b] \in Tasks /\ [t EXCEPT !.exists = b] \in Tasks
         /\ SameButDeleted([t EXCEPT !.deleting = b], t)
         /\ SameButDeleted([t EXCEPT !.exists = b], t)
         /\ [t EXCEPT !.deleting = b].deleting = b
         /\ [t EXCEPT !.exists = b].exists = b
         /\ [t EXCEPT !.deleting = b].exists = t.exists
<1>1. [t EXCEPT !.deleting = b] \in Tasks /\ [t EXCEPT !.exists = b] \in Tasks
  BY ZenonT(30) DEF Tasks
<1> QED
  BY <1>1 DEF Tasks, SameButDeleted

-----------------------------------------------------------------------------
(* A settled task stays settled, in every setting *)

LEMMA InitInv ==
  ASSUME Init
  PROVE  IInv
<1>1. InitTask \in Tasks /\ NoTask \in Tasks /\ ~InitTask.done /\ ~NoTask.done
  <2>1. NoTask \in Tasks
    BY ZenonT(30) DEF NoTask, Tasks, Active, PodNames
  <2>2. InitTask \in Tasks
    BY ZenonT(30), <2>1 DEF InitTask, Tasks
  <2> QED
    BY <2>1, <2>2 DEF InitTask, NoTask
<1>2. NewPod \in TaskPods /\ Empty \in Mailboxes
  BY DEF NewPod, TaskPods, Empty, Mailboxes, Statuses, PodNames
<1>3. TypeOK
  BY Zenon, <1>1, <1>2 DEF Init, TypeOK, Idle, Passes, Steps, PodNames, Statuses
<1> QED
  BY <1>1, <1>3 DEF Init, IInv, DoneIsFinal, Idle

LEMMA IdleType == Idle \in Passes /\ Idle.at = "idle" /\ ~Idle.task.done
<1>1. NoTask \in Tasks
  BY ZenonT(30) DEF NoTask, Tasks, Active, PodNames
<1> QED
  BY <1>1 DEF Idle, Passes, Steps, NoTask, NewPod, TaskPods, PodNames

\* What a step may not do to a settled task.
Kept ==
  task.done /\ task'.exists
    => /\ task'.phase \in {task.phase, "Terminating"}
       /\ task'.retries = task.retries /\ task'.done

Sound == IInv' /\ Kept

\* Everything but the task and the pass, well typed.
RestTyped ==
  /\ UNCHANGED setting
  /\ pods' \in [PodIDs -> TaskPods] /\ pcache' \in [PodIDs -> TaskPods]
  /\ mailbox' \in Mailboxes /\ mcache' \in Mailboxes
  /\ expired' \in BOOLEAN
  /\ report' \in [PodIDs -> Statuses]
  /\ posts' \in [PodIDs -> Nat]
  /\ inflight' \subseteq PodIDs
  /\ evictions' \in Nat

\* A write that keeps a settled task, and the step of the pass it leads to.
LEMMA WriteStep ==
  ASSUME IInv, RestTyped, UNCHANGED <<tcache, gtask>>,
         NEW new \in Tasks, NEW next \in Steps, Write(new, next),
         new.done => new.phase \in Final,
         pass.task.done /\ new.exists =>
           /\ new.phase \in {pass.task.phase, "Terminating"}
           /\ new.retries = pass.task.retries /\ new.done,
         next \in {"stamp", "completing", "delete", "reset", "reopen"} => ~new.done
  PROVE  Sound
<1>1. pass' \in Passes /\ (pass'.task.done => pass'.task.phase \in Final)
      /\ (pass'.at \in {"stamp", "completing", "delete", "reset", "reopen"} => ~pass'.task.done)
  BY ZenonT(60), IdleType DEF IInv, TypeOK, DoneIsFinal, Write, EndPass, Passes
<1>2. task' \in {task, new} /\ (task' # task => task = pass.task)
  BY DEF Write
<1>3. task' \in Tasks /\ (task'.done => task'.phase \in Final)
  BY <1>2 DEF IInv, TypeOK, DoneIsFinal
<1>4. Kept
  BY <1>2 DEF Kept
<1> QED
  BY <1>1, <1>3, <1>4 DEF Sound, IInv, TypeOK, DoneIsFinal, RestTyped

\* A step that leaves the task, and may move the pass on.
LEMMA MoveStep ==
  ASSUME IInv, RestTyped, UNCHANGED <<task, tcache, gtask>>, pass' \in Passes,
         pass' = Idle \/ pass'.task = pass.task,
         pass'.at \in {"stamp", "completing", "delete", "reset", "reopen"} => ~pass'.task.done
  PROVE  Sound
BY IdleType DEF Sound, Kept, IInv, TypeOK, DoneIsFinal, RestTyped

\* FailOrRetry and Settle on a task that is not settled.
LEMMA FailOrRetryStep ==
  ASSUME IInv, RestTyped, UNCHANGED <<tcache, gtask>>, ~pass.task.done, FailOrRetry
  PROVE  Sound
<1>1. pass.task \in Tasks
  BY DEF IInv, TypeOK, Passes
<1> DEFINE ret == Retried(pass.task)
           set == Settled(pass.task, "Failed")
<1>2. /\ ret \in Tasks /\ ~ret.done /\ set \in Tasks /\ set.phase = "Failed"
  BY <1>1, SettledForm, RetriedForm DEF Final
<1>3. Write(ret, "delete") \/ Write(set, "idle")
  BY DEF FailOrRetry, Settle
<1> HIDE DEF ret, set
<1> QED
  BY <1>2, <1>3, WriteStep DEF Steps, Final

LEMMA SettleStep ==
  ASSUME IInv, RestTyped, UNCHANGED <<tcache, gtask>>, ~pass.task.done,
         NEW phase \in Final, Settle(phase)
  PROVE  Sound
<1>1. pass.task \in Tasks
  BY DEF IInv, TypeOK, Passes
<1> DEFINE set == Settled(pass.task, phase)
<1>2. set \in Tasks /\ set.phase = phase
  BY <1>1, SettledForm
<1>3. Write(set, "idle")
  BY DEF Settle
<1> HIDE DEF set
<1> QED
  BY <1>2, <1>3, WriteStep DEF Steps

\* One step per action.
LEMMA NextSound ==
  ASSUME AgentTaskAssumption, IInv, Next
  PROVE  Sound
<1> USE DEF agentVars, cacheVars
<1>0. /\ pass.task \in Tasks /\ pass \in Passes /\ task \in Tasks /\ tcache \in Tasks
      /\ pass.task.done => pass.task.phase \in Final
      /\ UNCHANGED setting
  BY DEF IInv, TypeOK, DoneIsFinal, Passes, Next
<1>same. ASSUME UNCHANGED <<pods, mailbox, agentVars, cacheVars>>, expired' \in BOOLEAN
         PROVE  RestTyped
  BY <1>0, <1>same DEF IInv, TypeOK, RestTyped
<1>bool. ASSUME UNCHANGED expired PROVE expired' \in BOOLEAN
  BY <1>bool DEF IInv, TypeOK
<1> USE <1>bool
<1>deleted. \A p \in PodIDs : Deleted(pods[p]) \in TaskPods
  <2>1. ASSUME NEW p \in PodIDs PROVE Deleted(pods[p]) \in TaskPods
    <3>1. pods[p] \in TaskPods
      BY DEF IInv, TypeOK
    <3> QED
      BY ZenonT(30), <3>1 DEF Deleted, TaskPods
  <2> QED
    BY <2>1
<1>active. pass.task.phase \in Active => ~pass.task.done
  BY <1>0 DEF Active, Final
<1>begin. ASSUME Begin PROVE Sound
  <2>1. PICK p \in OwnedTaskPod(PodView) :
          pass' = [at |-> "drive", task |-> TaskView, pod |-> p, seen |-> SeenPod(PodView, p)]
    BY <1>begin DEF Begin
  <2>2. PodView \in [PodIDs -> TaskPods]
    BY DEF PodView, IInv, TypeOK
  <2>3. p \in PodNames
    BY <2>1 DEF OwnedTaskPod, PodNames
  <2>4. SeenPod(PodView, p) \in TaskPods
    BY <2>2, <2>3 DEF SeenPod, PodNames, NewPod, TaskPods
  <2>5. TaskView \in Tasks /\ (TaskView.done => TaskView.phase \in Final)
    BY <1>0 DEF TaskView, IInv, DoneIsFinal
  <2>6. UNCHANGED <<task, tcache, gtask>> /\ RestTyped
    BY <1>begin, <1>same DEF Begin
  <2>7. pass' \in Passes /\ pass'.at = "drive" /\ pass'.task = TaskView
    BY <2>1, <2>3, <2>4, <2>5 DEF Passes, Steps
  <2> QED
    BY <2>5, <2>6, <2>7 DEF Sound, Kept, IInv, TypeOK, DoneIsFinal, RestTyped
<1>finalizer. ASSUME AddFinalizer PROVE Sound
  <2> DEFINE new == [pass.task EXCEPT !.finalizer = TRUE]
  <2>1. new \in Tasks /\ new.phase = pass.task.phase /\ new.done = pass.task.done /\ new.retries = pass.task.retries
    BY Zenon, <1>0, <1>finalizer, FinalizerForm DEF AddFinalizer
  <2>2. Write(new, "idle") /\ RestTyped /\ UNCHANGED <<tcache, gtask>>
    BY <1>same, <1>finalizer DEF AddFinalizer, Driving, Reading, At
  <2> HIDE DEF new
  <2> QED
    BY Zenon, <1>0, <2>1, <2>2, WriteStep DEF Steps
<1>resume. ASSUME ResumeRetry PROVE Sound
  <2> DEFINE new == [pass.task EXCEPT !.phase = "Provisioning"]
  <2>1. new \in Tasks /\ ~new.done /\ ~pass.task.done
    BY <1>0, <1>resume, PhaseForm DEF ResumeRetry, Active
  <2>2. Write(new, "idle") /\ RestTyped /\ UNCHANGED <<tcache, gtask>>
    BY <1>same, <1>resume DEF ResumeRetry, Driving, Reading, At
  <2> HIDE DEF new
  <2> QED
    BY <1>0, <2>1, <2>2, WriteStep DEF Steps
<1>wait. ASSUME AwaitTTL \/ Gated \/ AwaitReady PROVE Sound
  <2>1. UNCHANGED <<task, tcache, gtask>> /\ pass' = Idle /\ RestTyped
    BY <1>wait, <1>same DEF AwaitTTL, Gated, AwaitReady, WithPod, Provisioning, EndPass, Driving, Reading, At
  <2> QED
    BY <2>1, IdleType, MoveStep
<1>expire. ASSUME ExpireTTL PROVE Sound
  <2> DEFINE new == [pass.task EXCEPT !.phase = "Terminating"]
  <2>1. new \in Tasks /\ new.done /\ new.phase = "Terminating" /\ new.retries = pass.task.retries
    BY <1>0, <1>expire, PhaseForm DEF ExpireTTL, Final
  <2>2. Write(new, "ttl") /\ RestTyped /\ UNCHANGED <<tcache, gtask>>
    BY <1>same, <1>expire DEF ExpireTTL, Driving, Reading, At
  <2> HIDE DEF new
  <2> QED
    BY <1>0, <2>1, <2>2, WriteStep DEF Steps, Final
<1>ttl. ASSUME TTLDelete PROVE Sound
  <2>1. /\ task' = [task EXCEPT !.deleting = task.exists] /\ pass' = Idle
        /\ UNCHANGED <<tcache, gtask>> /\ RestTyped
    BY <1>ttl, <1>same DEF TTLDelete, At, EndPass
  <2>2. task' \in Tasks /\ SameButDeleted(task', task)
    <3>1. task.exists \in BOOLEAN
      BY <1>0 DEF Tasks
    <3> QED
      BY ZenonT(30), <1>0, <2>1, <3>1, DeletingForm
  <2> QED
    BY <2>1, <2>2, IdleType
       DEF Sound, Kept, IInv, TypeOK, DoneIsFinal, RestTyped, SameButDeleted
<1>deletePod. ASSUME DeletePod PROVE Sound
  <2>1. /\ UNCHANGED <<task, tcache, gtask>> /\ pass' = Idle
        /\ UNCHANGED <<mailbox, expired, agentVars, cacheVars>>
        /\ pods' = pods \/ pods' = [pods EXCEPT ![pass.pod] = Deleted(@)]
        /\ pass.pod \in PodIDs
    BY <1>deletePod, <1>0 DEF DeletePod, At, EndPass, Passes, PodNames
  <2>2. pods' \in [PodIDs -> TaskPods]
    BY <1>deleted, <2>1 DEF IInv, TypeOK
  <2> QED
    BY <1>0, <2>1, <2>2, IdleType, MoveStep DEF RestTyped, IInv, TypeOK
<1>remove. ASSUME RemoveFinalizer PROVE Sound
  <2> DEFINE new == [pass.task EXCEPT !.finalizer = FALSE, !.exists = FALSE]
  <2>1. new \in Tasks /\ new.phase = pass.task.phase /\ new.done = pass.task.done /\ ~new.exists
    BY Zenon, <1>0, <1>remove, FinalizerForm DEF RemoveFinalizer
  <2>2. Write(new, "idle") /\ RestTyped /\ UNCHANGED <<tcache, gtask>>
    BY <1>same, <1>remove DEF RemoveFinalizer, Driving, Reading, At
  <2> HIDE DEF new
  <2> QED
    BY Zenon, <1>0, <2>1, <2>2, WriteStep DEF Steps
<1>reject. ASSUME Reject PROVE Sound
  <2>1. Settle("Failed") /\ RestTyped /\ UNCHANGED <<tcache, gtask>> /\ ~pass.task.done
    BY <1>same, <1>active, <1>reject DEF Reject, Provisioning, Driving, Reading, At, Active
  <2> QED
    BY <2>1, SettleStep DEF Final
<1>certificate. ASSUME AwaitCertificate PROVE Sound
  <2> DEFINE new == [pass.task EXCEPT !.phase = "Provisioning"]
  <2>1. new \in Tasks /\ ~new.done /\ ~pass.task.done
    BY <1>0, <1>active, <1>certificate, PhaseForm DEF AwaitCertificate, Provisioning, Driving, Reading, At, Active
  <2>2. Write(new, "idle") /\ RestTyped /\ UNCHANGED <<tcache, gtask>>
    BY <1>same, <1>certificate DEF AwaitCertificate, Provisioning, Driving, Reading, At
  <2> HIDE DEF new
  <2> QED
    BY <1>0, <2>1, <2>2, WriteStep DEF Steps
<1>create. ASSUME CreatePod PROVE Sound
  <2>1. PICK p \in PodIDs :
          /\ pods' = [pods EXCEPT ![p] = DesiredTaskPod(pass.task)]
          /\ pass' = [pass EXCEPT !.at = "stamp", !.pod = p]
    BY Zenon, <1>create DEF CreatePod
  <2>2. /\ UNCHANGED <<task, mailbox, expired, agentVars, cacheVars>>
        /\ ~pass.task.done
    BY <1>create, <1>active DEF CreatePod, Provisioning, Driving, Reading, At, Active
  <2>3. DesiredTaskPod(pass.task) \in TaskPods
    BY <1>0 DEF DesiredTaskPod, TaskPods, Tasks
  <2>4. pods' \in [PodIDs -> TaskPods]
    BY <2>1, <2>3 DEF IInv, TypeOK
  <2>5. pass' \in Passes /\ pass'.task = pass.task
    BY Zenon, <1>0, <2>1 DEF Passes, Steps, PodNames
  <2> QED
    BY Zenon, <1>0, <2>2, <2>4, <2>5, MoveStep DEF RestTyped, IInv, TypeOK
<1>stamp. ASSUME StampNew PROVE Sound
  <2> DEFINE p == IF AgentReported THEN pass.pod ELSE pass.task.uid
             new == [pass.task EXCEPT !.phase = "Provisioning", !.uid = p]
  <2>1. p \in PodNames /\ ~pass.task.done
    BY <1>0, <1>stamp DEF Passes, Tasks, StampNew, At, IInv, DoneIsFinal
  <2>2. new \in Tasks /\ ~new.done
    <3> HIDE DEF p
    <3>1. "Provisioning" \in Active \cup Final
      BY DEF Active
    <3>2. new \in Tasks /\ new.done = pass.task.done
      BY Zenon, <1>0, <2>1, <3>1 DEF Tasks
    <3> QED
      BY <2>1, <3>2
  <2>3. Write(new, "idle") /\ RestTyped /\ UNCHANGED <<tcache, gtask>>
    BY <1>same, <1>stamp DEF StampNew, At
  <2> HIDE DEF new
  <2> QED
    BY <2>1, <2>2, <2>3, WriteStep DEF Steps
<1>observed. ASSUME StampObserved PROVE Sound
  <2> DEFINE new == [pass.task EXCEPT !.uid = pass.pod]
  <2>1. new \in Tasks /\ ~new.done /\ ~pass.task.done
    <3>1. pass.pod \in PodNames
      BY <1>0 DEF Passes
    <3>2. new \in Tasks /\ new.done = pass.task.done
      BY ZenonT(30), <1>0, <3>1, GateForm
    <3> QED
      BY <1>active, <1>observed, <3>2 DEF StampObserved, Provisioning, Driving, Reading, At, Active
  <2>2. Write(new, "drive") /\ RestTyped /\ UNCHANGED <<tcache, gtask>>
    BY <1>same, <1>observed DEF StampObserved, Provisioning, Driving, Reading, At
  <2> HIDE DEF new
  <2> QED
    BY <2>1, <2>2, WriteStep DEF Steps
<1>run. ASSUME BecomeRunning PROVE Sound
  <2> DEFINE new == [pass.task EXCEPT !.phase = "Running", !.started = TRUE]
  <2>1. new \in Tasks /\ ~new.done /\ ~pass.task.done
    BY Zenon, <1>0, <1>active, <1>run, RunningForm DEF BecomeRunning, WithPod, Provisioning, Driving, Reading, At, Active
  <2>2. expired' \in BOOLEAN
    BY ZenonT(30), <1>run DEF BecomeRunning
  <2>3. Write(new, "idle") /\ RestTyped /\ UNCHANGED <<tcache, gtask>>
    BY <1>same, <1>run, <2>2 DEF BecomeRunning, WithPod, Provisioning, Driving, Reading, At
  <2> HIDE DEF new
  <2> QED
    BY Zenon, <2>1, <2>3, WriteStep DEF Steps
<1>completing. ~pass.task.done =>
    LET new == [pass.task EXCEPT !.phase = "Completing"]
    IN  new \in Tasks /\ ~new.done
  BY <1>0, PhaseForm DEF Active
<1>early. ASSUME EarlyExit PROVE Sound
  <2> DEFINE new == [pass.task EXCEPT !.phase = "Completing"]
  <2>1. /\ RestTyped /\ UNCHANGED <<tcache, gtask>> /\ ~pass.task.done
        /\ Write(new, "completing") \/ FailOrRetry
    BY <1>same, <1>active, <1>early DEF EarlyExit, WithPod, Provisioning, Driving, Reading, At, Active
  <2>2. new \in Tasks /\ ~new.done
    BY <1>completing, <2>1
  <2> HIDE DEF new
  <2> QED
    BY <2>1, <2>2, WriteStep, FailOrRetryStep DEF Steps
<1>start. ASSUME StartFailure PROVE Sound
  BY <1>same, <1>active, <1>start, FailOrRetryStep DEF StartFailure, WithPod, Provisioning, Driving, Reading, At, Active
<1>running. ASSUME DriveRunning PROVE Sound
  <2> DEFINE new == [pass.task EXCEPT !.phase = "Completing"]
  <2>1. /\ RestTyped /\ UNCHANGED <<tcache, gtask>> /\ ~pass.task.done
        /\ \/ Write(new, "completing") \/ FailOrRetry
           \/ pass' = Idle /\ UNCHANGED task
    BY <1>same, <1>active, <1>running DEF DriveRunning, EndPass, Driving, Reading, At, Active
  <2>2. new \in Tasks /\ ~new.done
    BY <1>completing, <2>1
  <2> HIDE DEF new
  <2> QED
    BY <2>1, <2>2, WriteStep, FailOrRetryStep, MoveStep, IdleType DEF Steps
<1>complete. ASSUME DriveCompleting PROVE Sound
  <2>1. /\ RestTyped /\ UNCHANGED <<tcache, gtask>> /\ ~pass.task.done
        /\ FailOrRetry \/ \E phase \in {"Succeeded", "TimedOut"} : Settle(phase)
    BY <1>same, <1>active, <1>complete
       DEF DriveCompleting, SettleTimeout, Driving, Reading, At, Active, IInv, DoneIsFinal
  <2> QED
    BY <2>1, SettleStep, FailOrRetryStep DEF Final
<1>retryPod. ASSUME RetryDeletePod PROVE Sound
  <2>1. PICK p \in OwnedTaskPod(PodView) :
          pods' = IF p = NoPod \/ SeenPod(PodView, p).deleting THEN pods
                  ELSE [pods EXCEPT ![p] = Deleted(@)]
    BY Zenon, <1>retryPod DEF RetryDeletePod
  <2>2. p \in PodIDs \/ p = NoPod
    BY <2>1 DEF OwnedTaskPod
  <2>3. pods' \in [PodIDs -> TaskPods]
    BY <1>deleted, <2>1, <2>2 DEF IInv, TypeOK
  <2>4. /\ pass' = [pass EXCEPT !.at = "reset"] /\ pass.at = "delete"
        /\ UNCHANGED <<task, mailbox, expired, agentVars, cacheVars>>
    BY <1>retryPod DEF RetryDeletePod, At
  <2>5. pass' \in Passes /\ pass'.task = pass.task /\ ~pass.task.done
    BY <1>0, <2>4 DEF Passes, Steps, IInv, DoneIsFinal
  <2> QED
    BY <1>0, <2>3, <2>4, <2>5, MoveStep DEF RestTyped, IInv, TypeOK
<1>retryMailbox. ASSUME RetryResetMailbox PROVE Sound
  <2>1. /\ pass' \in {Idle, [pass EXCEPT !.at = "reopen"]} /\ pass.at = "reset"
        /\ mailbox' \in {mailbox, Empty}
        /\ UNCHANGED <<task, pods, expired, agentVars, cacheVars>>
    BY <1>retryMailbox DEF RetryResetMailbox, At, EndPass
  <2>2. mailbox' \in Mailboxes
    BY <2>1 DEF IInv, TypeOK, Empty, Mailboxes, Statuses, PodNames
  <2>3. /\ pass' \in Passes /\ (pass' = Idle \/ pass'.task = pass.task) /\ ~pass.task.done
        /\ ~pass'.task.done
    BY <1>0, <2>1, IdleType DEF Passes, Steps, IInv, DoneIsFinal
  <2> QED
    BY <1>0, <2>1, <2>2, <2>3, MoveStep DEF RestTyped, IInv, TypeOK
<1>retryOpen. ASSUME RetryReopen PROVE Sound
  <2> DEFINE new == [pass.task EXCEPT !.phase = "Provisioning"]
  <2>1. new \in Tasks /\ ~new.done /\ ~pass.task.done
    BY <1>0, <1>retryOpen, PhaseForm DEF RetryReopen, At, Active, IInv, DoneIsFinal
  <2>2. Write(new, "idle") /\ RestTyped /\ UNCHANGED <<tcache, gtask>>
    BY <1>same, <1>retryOpen DEF RetryReopen, At
  <2> HIDE DEF new
  <2> QED
    BY <2>1, <2>2, WriteStep DEF Steps
<1>interrupt. ASSUME Interrupt PROVE Sound
  BY <1>same, <1>interrupt, IdleType, MoveStep DEF Interrupt, EndPass
<1>agent. ASSUME NEW p \in PodIDs,
                 \/ \E status \in {"success", "failure"} : Decide(p, status)
                 \/ Post(p) \/ Patch(p) \/ PatchFails(p)
          PROVE  Sound
  <2>1. UNCHANGED <<task, pods, expired, evictions, pass, cacheVars>>
    BY Zenon, <1>agent DEF Decide, Post, Patch, PatchFails
  <2>2. report' \in [PodIDs -> Statuses]
    BY Zenon, <1>agent DEF Decide, Post, Patch, PatchFails, IInv, TypeOK, Statuses
  <2>3. posts' \in [PodIDs -> Nat]
    <3>1. posts' = posts \/ \E n \in {posts[p] + 1, MaxPosts} : posts' = [posts EXCEPT ![p] = n]
      BY Zenon, <1>agent DEF Decide, Post, Patch, PatchFails
    <3>2. {posts[p] + 1, MaxPosts} \subseteq Nat
      BY DEF IInv, TypeOK, AgentTaskAssumption
    <3> QED
      BY <3>1, <3>2 DEF IInv, TypeOK
  <2>4. inflight' \subseteq PodIDs
    BY ZenonT(30), <1>agent DEF Decide, Post, Patch, PatchFails, IInv, TypeOK
  <2>5. PayloadOf(p) \in Mailboxes
    BY DEF PayloadOf, Mailboxes, IInv, TypeOK, PodNames
  <2>6. mailbox' \in Mailboxes
    BY Zenon, <1>agent, <2>5 DEF Decide, Post, Patch, PatchFails, IInv, TypeOK
  <2> QED
    BY <1>0, <2>1, <2>2, <2>3, <2>4, <2>6, MoveStep DEF RestTyped, IInv, TypeOK, DoneIsFinal
<1>pod. ASSUME NEW p \in PodIDs,
               \/ PodReady(p) \/ PodEvicted(p) \/ PodGone(p)
               \/ \E state \in {"succeeded", "failed"} : PodExits(p, state)
        PROVE  Sound
  <2>1. UNCHANGED <<task, mailbox, expired, posts, inflight, pass, cacheVars>>
    BY <1>pod DEF PodReady, PodExits, PodEvicted, PodGone, SetPod
  <2>2. pods' \in [PodIDs -> TaskPods]
    <3>1. \/ pods' = [pods EXCEPT ![p] = Deleted(pods[p])]
          \/ \E state \in {"ready", "succeeded", "failed", "gone"} :
               pods' = [pods EXCEPT ![p] = [pods[p] EXCEPT !.state = state]]
      BY <1>pod DEF PodReady, PodExits, PodEvicted, PodGone, SetPod
    <3>2. \A state \in {"ready", "succeeded", "failed", "gone"} :
            [pods[p] EXCEPT !.state = state] \in TaskPods
      BY DEF IInv, TypeOK, TaskPods
    <3>3. Deleted(pods[p]) \in TaskPods
      BY <1>deleted DEF IInv, TypeOK
    <3> QED
      BY <3>1, <3>2, <3>3 DEF IInv, TypeOK
  <2>3. report' \in [PodIDs -> Statuses]
    BY <1>pod DEF PodReady, PodExits, PodEvicted, PodGone, IInv, TypeOK, Statuses
  <2>4. evictions' \in Nat
    BY <1>pod DEF PodReady, PodExits, PodEvicted, PodGone, IInv, TypeOK
  <2> QED
    BY <1>0, <2>1, <2>2, <2>3, <2>4, MoveStep DEF RestTyped, IInv, TypeOK, DoneIsFinal
<1>clock. ASSUME Expire PROVE Sound
  <2>1. UNCHANGED <<task, pods, mailbox, agentVars, pass, cacheVars>> /\ expired' = TRUE
    BY <1>clock DEF Expire
  <2>2. RestTyped
    BY <1>same, <2>1
  <2> QED
    BY <1>0, <2>1, <2>2, MoveStep DEF IInv, DoneIsFinal
<1>user. ASSUME UserDelete PROVE Sound
  <2>1. /\ UNCHANGED <<pods, mailbox, expired, agentVars, pass, cacheVars>>
        /\ \/ task' = [task EXCEPT !.deleting = TRUE]
           \/ task' = [task EXCEPT !.exists = FALSE]
    BY <1>user DEF UserDelete
  <2>2. task' \in Tasks /\ SameButDeleted(task', task)
    <3>1. \A b \in BOOLEAN : /\ [task EXCEPT !.deleting = b] \in Tasks
                             /\ [task EXCEPT !.exists = b] \in Tasks
                             /\ SameButDeleted([task EXCEPT !.deleting = b], task)
                             /\ SameButDeleted([task EXCEPT !.exists = b], task)
      BY <1>0, DeletingForm
    <3> QED
      BY ZenonT(30), <2>1, <3>1
  <2>3. RestTyped
    BY <1>same, <2>1
  <2> QED
    BY <1>0, <2>1, <2>2, <2>3
       DEF Sound, Kept, IInv, TypeOK, DoneIsFinal, RestTyped, SameButDeleted
<1>sync. ASSUME SyncCaches \/ SyncGateway PROVE Sound
  <2>1. /\ UNCHANGED <<task, pods, mailbox, expired, agentVars, pass>>
        /\ tcache' \in {tcache, task} /\ gtask' \in {gtask, task}
        /\ pcache' \in {pcache, pods} /\ mcache' \in {mcache, mailbox}
    BY <1>sync DEF SyncCaches, SyncGateway
  <2> QED
    BY <1>0, <2>1 DEF Sound, Kept, IInv, TypeOK, DoneIsFinal
<1> QED
  BY ZenonT(30), <1>begin, <1>finalizer, <1>resume, <1>wait, <1>expire, <1>ttl, <1>deletePod, <1>remove,
     <1>reject, <1>certificate, <1>create, <1>stamp, <1>observed, <1>run, <1>early,
     <1>start, <1>running, <1>complete, <1>retryPod, <1>retryMailbox, <1>retryOpen,
     <1>interrupt, <1>agent, <1>pod, <1>clock, <1>user, <1>sync
     DEF Next, Reconcile, Settling, Waiting, PodStep

\* Types, and that completionTime comes with a final phase.
THEOREM Invariant ==
  ASSUME AgentTaskAssumption
  PROVE  Spec => []IInv
<1>1. Init => IInv
  BY InitInv
<1>2. IInv /\ [Next]_vars => IInv'
  <2>1. IInv /\ Next => IInv'
    BY NextSound DEF Sound
  <2>2. IInv /\ UNCHANGED vars => IInv'
    BY DEF vars, moving, IInv, TypeOK, DoneIsFinal
  <2> QED
    BY <2>1, <2>2
<1> QED
  BY <1>1, <1>2, PTL DEF Spec

\* A settled task stays as it settled until it is deleted, in every setting:
\* whatever passes are interrupted, however stale what they read, and whoever
\* reports late.  The resource version of a write is what makes it so.
THEOREM OutcomeFinal ==
  ASSUME AgentTaskAssumption
  PROVE  Spec => OutcomeIsFinal
<1>1. IInv /\ [Next]_vars =>
        [task.done /\ task'.exists
           => /\ task'.phase \in {task.phase, "Terminating"}
              /\ task'.retries = task.retries /\ task'.done]_vars
  BY Zenon, NextSound DEF Sound, Kept
<1> QED
  BY <1>1, Invariant, PTL DEF Spec, OutcomeIsFinal

-----------------------------------------------------------------------------
(* Attempts are counted and success is reported, in every setting *)

\* No copy of the task, and no Pod, is ahead of the count in the API server.
Counted ==
  /\ task.retries <= BackoffLimit
  /\ tcache.retries <= task.retries /\ pass.task.retries <= task.retries
  /\ \A p \in PodIDs : pods[p].attempt <= task.retries

Earned == (OnTimeoutSucceed /\ expired) \/ \E p \in PodIDs : report[p] = "success"

Told == task.phase = "Succeeded" => Earned

\* Where a pass may read a success, some Pod has reported it: in the mailbox and
\* its cached copy, or as the exit of a Pod, of its cached copy, and of the Pod
\* the pass has seen.  A Pod that has not ended has not reported by its exit.
Sourced ==
  /\ \A box \in {mailbox, mcache} :
       box.status = "success" => box.from \in PodIDs /\ report[box.from] = "success"
  /\ ~AgentReported =>
       /\ \A p \in PodIDs :
            /\ pods[p].state \in {"none", "pending", "ready"} => report[p] = "none"
            /\ "succeeded" \in {pods[p].state, pcache[p].state} => report[p] = "success"
       /\ pass.seen.state = "succeeded" =>
            pass.pod \in PodIDs /\ report[pass.pod] = "success"

TruthInv == Counted /\ Told /\ Sourced

LEMMA IdleForm ==
  /\ Idle.task = NoTask /\ Idle.task.retries = 0 /\ Idle.task.phase = "Pending"
  /\ Idle.pod = NoPod /\ Idle.seen = NewPod /\ Idle.seen.state = "none"
BY DEF Idle, NoTask, NewPod

LEMMA InitTruth ==
  ASSUME AgentTaskAssumption, Init
  PROVE  TruthInv
<1>1. InitTask.retries = 0 /\ InitTask.phase = "Pending" /\ NewPod.attempt = 0 /\ NewPod.state = "none"
  BY DEF InitTask, NoTask, NewPod
<1>2. Counted
  BY <1>1, IdleForm DEF Init, Counted, AgentTaskAssumption
<1>3. Told
  BY <1>1 DEF Init, Told
<1>4. Sourced
  BY <1>1, IdleForm DEF Init, Sourced, Empty
<1> QED
  BY <1>2, <1>3, <1>4 DEF TruthInv

\* What a pass may write: the count moves on, within the limit, and a success has
\* its report.
Rightful(new) ==
  /\ pass.task.retries <= new.retries
  /\ new.retries <= BackoffLimit \/ new.retries = pass.task.retries
  /\ new.phase = "Succeeded" => pass.task.phase = "Succeeded" \/ Earned

\* The clock restarts with the write that makes the task Running.
ClockKept(new) ==
  \/ expired' = expired
  \/ new.phase = "Running" /\ expired' = (expired /\ task # pass.task)

LEMMA WriteTruth ==
  ASSUME AgentTaskAssumption, IInv, TruthInv,
         NEW new \in Tasks, NEW next \in Steps, Write(new, next), Rightful(new), ClockKept(new),
         UNCHANGED <<setting, pods, mailbox, agentVars, cacheVars>>
  PROVE  TruthInv'
<1> USE DEF agentVars, cacheVars
<1>0. /\ task \in Tasks /\ pass \in Passes /\ tcache \in Tasks /\ pass.task \in Tasks
      /\ pods \in [PodIDs -> TaskPods]
  BY DEF IInv, TypeOK, Passes
<1>1. /\ \/ task = pass.task /\ task' = new
         \/ task # pass.task /\ task' = task
      /\ \/ pass' = Idle
         \/ task' = new /\ pass' = [pass EXCEPT !.at = next, !.task = new]
  BY DEF Write, EndPass
<1>2. /\ task.retries \in Nat /\ pass.task.retries \in Nat /\ new.retries \in Nat
      /\ tcache.retries \in Nat /\ BackoffLimit \in Nat /\ \A p \in PodIDs : pods[p].attempt \in Nat
  BY <1>0 DEF Tasks, TaskPods, AgentTaskAssumption
<1>3. /\ pass' = Idle \/ (task' = new /\ pass'.task = new)
      /\ pass' = Idle \/ (pass'.pod = pass.pod /\ pass'.seen = pass.seen)
  BY Zenon, <1>0, <1>1 DEF Passes
<1>4. task.retries <= task'.retries /\ task'.retries <= BackoffLimit
  BY <1>1, <1>2 DEF TruthInv, Counted, Rightful
<1>5. pass'.task.retries <= task'.retries
  <2>1. CASE pass' = Idle
    <3>1. pass'.task.retries = 0
      BY <2>1, IdleForm
    <3>2. task'.retries \in Nat
      BY <1>1, <1>2
    <3> QED
      BY <3>1, <3>2
  <2>2. CASE task' = new /\ pass'.task = new
    BY <1>2, <2>2
  <2> QED
    BY <1>3, <2>1, <2>2
<1>6. Counted'
  <2>1. task'.retries \in Nat
    BY <1>1, <1>2
  <2> QED
    BY <1>2, <1>4, <1>5, <2>1 DEF TruthInv, Counted
<1>7. Told'
  <2> SUFFICES ASSUME task'.phase = "Succeeded" PROVE Earned'
    BY DEF Told
  <2>1. expired' = expired
    <3>1. expired \in BOOLEAN
      BY DEF IInv, TypeOK
    <3>2. task # pass.task \/ new.phase # "Running"
      BY <1>1
    <3> QED
      BY Zenon, <3>1, <3>2 DEF ClockKept
  <2>2. Earned
    BY <1>1 DEF Rightful, TruthInv, Told
  <2> QED
    BY <2>1, <2>2 DEF Earned, OnTimeoutSucceed
<1>8. Sourced'
  BY <1>3, IdleForm DEF TruthInv, Sourced, AgentReported
<1> QED
  BY <1>6, <1>7, <1>8 DEF TruthInv

\* A step that leaves the count and the outcome.
LEMMA StillTruth ==
  ASSUME AgentTaskAssumption, IInv, TruthInv, UNCHANGED <<setting, tcache>>,
         task'.retries = task.retries, task'.phase = task.phase,
         pass' = Idle \/ pass'.task = pass.task,
         \A p \in PodIDs : pods'[p].attempt \in {pods[p].attempt, pass.task.retries},
         expired => expired',
         \A p \in PodIDs : report[p] = "success" => report'[p] = "success"
  PROVE  Counted' /\ Told'
<1>1. task.retries \in Nat
  BY DEF IInv, TypeOK, Tasks
<1>2. pass'.task.retries <= task.retries
  BY <1>1, IdleForm DEF TruthInv, Counted
<1>3. Counted'
  BY <1>2 DEF TruthInv, Counted
<1>4. Told'
  BY DEF TruthInv, Told, Earned, OnTimeoutSucceed
<1> QED
  BY <1>3, <1>4

\* A step of the pass that leaves what Pods have reported.
LEMMA StillSourced ==
  ASSUME Sourced, UNCHANGED <<setting, report, pcache, mcache>>,
         mailbox' \in {mailbox, Empty},
         \A p \in PodIDs : pods'[p].state \in {pods[p].state, "gone"},
         pass' = Idle \/ (pass'.pod = pass.pod /\ pass'.seen = pass.seen)
  PROVE  Sourced'
<1>1. Empty.status = "none"
  BY DEF Empty
<1> QED
  BY <1>1, IdleForm DEF Sourced, AgentReported

\* The actions that write the status, or the finalizer, of the task.
Writing ==
  \/ AddFinalizer \/ ResumeRetry \/ ExpireTTL \/ RemoveFinalizer \/ Reject
  \/ AwaitCertificate \/ StampNew \/ StampObserved \/ BecomeRunning \/ EarlyExit
  \/ StartFailure \/ DriveRunning \/ DriveCompleting \/ RetryReopen

Written == \E new \in Tasks, next \in Steps : Write(new, next) /\ Rightful(new) /\ ClockKept(new)

\* A write that leaves the count and sets a phase other than Succeeded.
LEMMA PlainWrite ==
  ASSUME IInv, UNCHANGED expired, NEW new \in Tasks, NEW next \in Steps, Write(new, next),
         new.retries = pass.task.retries,
         new.phase \in {pass.task.phase, "Provisioning", "Running", "Completing", "Terminating", "Failed",
                        "TimedOut"}
  PROVE  Written
<1>1. pass.task.retries \in Nat
  BY DEF IInv, TypeOK, Passes, Tasks
<1>2. Rightful(new) /\ ClockKept(new)
  BY <1>1 DEF Rightful, ClockKept
<1> QED
  BY <1>2 DEF Written

LEMMA FailOrRetryWrites ==
  ASSUME AgentTaskAssumption, IInv, UNCHANGED expired, FailOrRetry
  PROVE  Written
<1>1. pass.task \in Tasks
  BY DEF IInv, TypeOK, Passes
<1> DEFINE ret == Retried(pass.task)
           set == Settled(pass.task, "Failed")
<1>2. /\ ret \in Tasks /\ ret.phase = "Failed" /\ ret.retries = pass.task.retries + 1
      /\ set \in Tasks /\ set.phase = "Failed" /\ set.retries = pass.task.retries
  BY <1>1, SettledForm, RetriedForm DEF Final
<1>3. \/ pass.task.retries < BackoffLimit /\ Write(ret, "delete")
      \/ Write(set, "idle")
  BY DEF FailOrRetry, Settle
<1>4. pass.task.retries \in Nat /\ BackoffLimit \in Nat
  BY <1>1 DEF Tasks, AgentTaskAssumption
<1> HIDE DEF ret, set
<1>5. CASE pass.task.retries < BackoffLimit /\ Write(ret, "delete")
  <2>1. Rightful(ret) /\ ClockKept(ret)
    BY <1>2, <1>4, <1>5 DEF Rightful, ClockKept
  <2> QED
    BY <1>2, <1>5, <2>1 DEF Written, Steps
<1>6. CASE Write(set, "idle")
  BY <1>2, <1>6, PlainWrite DEF Steps
<1> QED
  BY <1>3, <1>5, <1>6

LEMMA SettleWrites ==
  ASSUME IInv, UNCHANGED expired, NEW phase \in Final, Settle(phase), phase = "Succeeded" => Earned
  PROVE  Written
<1>1. pass.task \in Tasks
  BY DEF IInv, TypeOK, Passes
<1> DEFINE set == Settled(pass.task, phase)
<1>2. set \in Tasks /\ set.phase = phase /\ set.retries = pass.task.retries /\ set.retries \in Nat
  BY <1>1, SettledForm DEF Tasks
<1>3. Write(set, "idle")
  BY DEF Settle
<1> HIDE DEF set
<1>4. Rightful(set) /\ ClockKept(set)
  BY <1>2 DEF Rightful, ClockKept
<1> QED
  BY <1>2, <1>3, <1>4 DEF Written, Steps

\* A success the pass derives has been reported, or is the timeout's.
LEMMA OutcomeEarned ==
  ASSUME IInv, Sourced, Outcome = "success"
  PROVE  Earned
<1>1. CASE AgentReported
  <2>1. BoxView.status = "success"
    BY <1>1 DEF Outcome
  <2>2. BoxView \in {mailbox, mcache}
    BY DEF BoxView
  <2> QED
    BY <2>1, <2>2 DEF Sourced, Earned
<1>2. CASE ~AgentReported
  <2>1. pass.seen.state = "succeeded"
    BY <1>2 DEF Outcome
  <2> QED
    BY <1>2, <2>1 DEF Sourced, Earned
<1> QED
  BY <1>1, <1>2

\* One step per action that writes.
LEMMA WritingWrites ==
  ASSUME AgentTaskAssumption, IInv, Sourced, Writing
  PROVE  \/ Written
         \/ pass' = Idle /\ UNCHANGED <<task, expired>>
<1>0. pass.task \in Tasks /\ pass.pod \in PodNames /\ pass \in Passes
  BY DEF IInv, TypeOK, Passes
<1>phases. {"Provisioning", "Running", "Completing", "Terminating"} \subseteq Active \cup Final
  BY DEF Active, Final
<1>finalizer. ASSUME AddFinalizer PROVE Written
  <2> DEFINE new == [pass.task EXCEPT !.finalizer = TRUE]
  <2>1. new \in Tasks /\ new.retries = pass.task.retries /\ new.phase = pass.task.phase
    BY Zenon, <1>0, FinalizerForm
  <2>2. Write(new, "idle") /\ UNCHANGED expired
    BY <1>finalizer DEF AddFinalizer
  <2> HIDE DEF new
  <2> QED
    BY <2>1, <2>2, PlainWrite DEF Steps
<1>resume. ASSUME ResumeRetry PROVE Written
  <2> DEFINE new == [pass.task EXCEPT !.phase = "Provisioning"]
  <2>1. new \in Tasks /\ new.retries = pass.task.retries /\ new.phase = "Provisioning"
    BY Zenon, <1>0, <1>phases, PhaseForm
  <2>2. Write(new, "idle") /\ UNCHANGED expired
    BY <1>resume DEF ResumeRetry
  <2> HIDE DEF new
  <2> QED
    BY <2>1, <2>2, PlainWrite DEF Steps
<1>expire. ASSUME ExpireTTL PROVE Written
  <2> DEFINE new == [pass.task EXCEPT !.phase = "Terminating"]
  <2>1. new \in Tasks /\ new.retries = pass.task.retries /\ new.phase = "Terminating"
    BY Zenon, <1>0, <1>phases, PhaseForm
  <2>2. Write(new, "ttl") /\ UNCHANGED expired
    BY <1>expire DEF ExpireTTL
  <2> HIDE DEF new
  <2> QED
    BY <2>1, <2>2, PlainWrite DEF Steps
<1>remove. ASSUME RemoveFinalizer PROVE Written
  <2> DEFINE new == [pass.task EXCEPT !.finalizer = FALSE, !.exists = FALSE]
  <2>1. new \in Tasks /\ new.retries = pass.task.retries /\ new.phase = pass.task.phase
    BY Zenon, <1>0, FinalizerForm
  <2>2. Write(new, "idle") /\ UNCHANGED expired
    BY <1>remove DEF RemoveFinalizer
  <2> HIDE DEF new
  <2> QED
    BY <2>1, <2>2, PlainWrite DEF Steps
<1>reject. ASSUME Reject PROVE Written
  <2>1. Settle("Failed") /\ UNCHANGED expired
    BY <1>reject DEF Reject
  <2> QED
    BY <2>1, SettleWrites DEF Final
<1>certificate. ASSUME AwaitCertificate PROVE Written
  <2> DEFINE new == [pass.task EXCEPT !.phase = "Provisioning"]
  <2>1. new \in Tasks /\ new.retries = pass.task.retries /\ new.phase = "Provisioning"
    BY Zenon, <1>0, <1>phases, PhaseForm
  <2>2. Write(new, "idle") /\ UNCHANGED expired
    BY <1>certificate DEF AwaitCertificate
  <2> HIDE DEF new
  <2> QED
    BY <2>1, <2>2, PlainWrite DEF Steps
<1>stamp. ASSUME StampNew PROVE Written
  <2> DEFINE p == IF AgentReported THEN pass.pod ELSE pass.task.uid
             new == [pass.task EXCEPT !.phase = "Provisioning", !.uid = p]
  <2>1. p \in PodNames
    BY <1>0 DEF Tasks
  <2>2. new \in Tasks /\ new.retries = pass.task.retries /\ new.phase = "Provisioning"
    <3> HIDE DEF p
    <3>1. "Provisioning" \in Active \cup Final
      BY DEF Active
    <3> QED
      BY Zenon, <1>0, <2>1, <3>1 DEF Tasks
  <2>3. Write(new, "idle") /\ UNCHANGED expired
    BY <1>stamp DEF StampNew
  <2> HIDE DEF new
  <2> QED
    BY <2>2, <2>3, PlainWrite DEF Steps
<1>observed. ASSUME StampObserved PROVE Written
  <2> DEFINE new == [pass.task EXCEPT !.uid = pass.pod]
  <2>1. new \in Tasks /\ new.retries = pass.task.retries /\ new.phase = pass.task.phase
    BY Zenon, <1>0, GateForm
  <2>2. Write(new, "drive") /\ UNCHANGED expired
    BY <1>observed DEF StampObserved
  <2> HIDE DEF new
  <2> QED
    BY <2>1, <2>2, PlainWrite DEF Steps
<1>run. ASSUME BecomeRunning PROVE Written
  <2> DEFINE new == [pass.task EXCEPT !.phase = "Running", !.started = TRUE]
  <2>1. new \in Tasks /\ new.retries = pass.task.retries /\ new.phase = "Running"
    BY Zenon, <1>0, RunningForm
  <2>2. Write(new, "idle") /\ expired' = (expired /\ task # pass.task)
    BY <1>run DEF BecomeRunning
  <2>3. pass.task.retries \in Nat
    BY <1>0 DEF Tasks
  <2> HIDE DEF new
  <2>4. Rightful(new)
    BY <2>1, <2>3 DEF Rightful
  <2>5. ClockKept(new)
    BY Zenon, <2>1, <2>2 DEF ClockKept
  <2> QED
    BY <2>1, <2>2, <2>4, <2>5 DEF Written, Steps
<1>completing. ASSUME UNCHANGED expired, Write([pass.task EXCEPT !.phase = "Completing"], "completing")
               PROVE  Written
  <2> DEFINE new == [pass.task EXCEPT !.phase = "Completing"]
  <2>1. new \in Tasks /\ new.retries = pass.task.retries /\ new.phase = "Completing"
    BY Zenon, <1>0, <1>phases, PhaseForm
  <2>2. Write(new, "completing") /\ UNCHANGED expired
    BY <1>completing
  <2> HIDE DEF new
  <2> QED
    BY <2>1, <2>2, PlainWrite DEF Steps
<1>early. ASSUME EarlyExit PROVE Written
  <2>1. /\ UNCHANGED expired
        /\ Write([pass.task EXCEPT !.phase = "Completing"], "completing") \/ FailOrRetry
    BY Zenon, <1>early DEF EarlyExit
  <2> QED
    BY Zenon, <1>completing, <2>1, FailOrRetryWrites
<1>start. ASSUME StartFailure PROVE Written
  BY Zenon, <1>start, FailOrRetryWrites DEF StartFailure
<1>running. ASSUME DriveRunning PROVE Written \/ (pass' = Idle /\ UNCHANGED <<task, expired>>)
  <2>1. /\ UNCHANGED expired
        /\ \/ Write([pass.task EXCEPT !.phase = "Completing"], "completing") \/ FailOrRetry
           \/ pass' = Idle /\ UNCHANGED task
    BY Zenon, <1>running DEF DriveRunning, EndPass
  <2> QED
    BY Zenon, <1>completing, <2>1, FailOrRetryWrites
<1>complete. ASSUME DriveCompleting PROVE Written
  <2>1. UNCHANGED expired
    BY <1>complete DEF DriveCompleting
  <2>2. \/ FailOrRetry
        \/ Outcome = "success" /\ Settle("Succeeded")
        \/ TimedOut(pass.task) /\ OnTimeoutSucceed /\ Settle("Succeeded")
        \/ Settle("TimedOut")
    BY Zenon, <1>complete DEF DriveCompleting, SettleTimeout
  <2>3. CASE FailOrRetry
    BY <2>1, <2>3, FailOrRetryWrites
  <2>4. CASE Outcome = "success" /\ Settle("Succeeded")
    BY <2>1, <2>4, OutcomeEarned, SettleWrites DEF Final
  <2>5. CASE TimedOut(pass.task) /\ OnTimeoutSucceed /\ Settle("Succeeded")
    <3>1. Earned
      BY <2>5 DEF TimedOut, Earned
    <3> QED
      BY <2>1, <2>5, <3>1, SettleWrites DEF Final
  <2>6. CASE Settle("TimedOut")
    BY <2>1, <2>6, SettleWrites DEF Final
  <2> QED
    BY <2>2, <2>3, <2>4, <2>5, <2>6
<1>retryOpen. ASSUME RetryReopen PROVE Written
  <2> DEFINE new == [pass.task EXCEPT !.phase = "Provisioning"]
  <2>1. new \in Tasks /\ new.retries = pass.task.retries /\ new.phase = "Provisioning"
    BY Zenon, <1>0, <1>phases, PhaseForm
  <2>2. Write(new, "idle") /\ UNCHANGED expired
    BY <1>retryOpen DEF RetryReopen
  <2> HIDE DEF new
  <2> QED
    BY <2>1, <2>2, PlainWrite DEF Steps
<1> QED
  BY Zenon, <1>finalizer, <1>resume, <1>expire, <1>remove, <1>reject, <1>certificate, <1>stamp,
     <1>observed, <1>run, <1>early, <1>start, <1>running, <1>complete, <1>retryOpen DEF Writing

\* One step per kind of action.
LEMMA NextTruth ==
  ASSUME AgentTaskAssumption, IInv, TruthInv, Next
  PROVE  TruthInv'
<1> USE DEF agentVars, cacheVars
<1>0. /\ pass.task \in Tasks /\ pass \in Passes /\ task \in Tasks /\ tcache \in Tasks
      /\ pods \in [PodIDs -> TaskPods] /\ pcache \in [PodIDs -> TaskPods]
      /\ report \in [PodIDs -> Statuses] /\ Sourced /\ UNCHANGED setting
      /\ NoPod \notin PodIDs
  BY DEF IInv, TypeOK, Passes, Next, TruthInv, PodIDs, NoPod
<1>deleted. \A p \in PodIDs : /\ Deleted(pods[p]).attempt = pods[p].attempt
                              /\ Deleted(pods[p]).state \in {pods[p].state, "gone"}
  BY <1>0 DEF Deleted, TaskPods
<1>still. ASSUME UNCHANGED <<task, tcache, expired, report>>, pass' = Idle \/ pass'.task = pass.task,
                 \A p \in PodIDs : pods'[p].attempt \in {pods[p].attempt, pass.task.retries}
          PROVE  Counted' /\ Told'
  BY Zenon, <1>0, <1>still, StillTruth
<1>begin. ASSUME Begin PROVE TruthInv'
  <2>1. PICK p \in OwnedTaskPod(PodView) :
          pass' = [at |-> "drive", task |-> TaskView, pod |-> p, seen |-> SeenPod(PodView, p)]
    BY Zenon, <1>begin DEF Begin
  <2>2. UNCHANGED <<task, pods, mailbox, expired, agentVars, cacheVars>>
    BY Zenon, <1>begin DEF Begin
  <2>3. pass'.task \in {task, tcache} /\ pass'.pod = p /\ pass'.seen = SeenPod(PodView, p)
    BY <2>1 DEF TaskView
  <2>4. task.retries \in Nat /\ tcache.retries \in Nat
    BY <1>0 DEF Tasks
  <2>5. Counted'
    BY <2>2, <2>3, <2>4 DEF TruthInv, Counted
  <2>6. Told'
    BY <1>0, <2>2 DEF TruthInv, Told, Earned, OnTimeoutSucceed
  <2>7. p = NoPod \/ p \in PodIDs
    BY <2>1 DEF OwnedTaskPod
  <2>8. ~AgentReported /\ pass'.seen.state = "succeeded" =>
          pass'.pod \in PodIDs /\ report[pass'.pod] = "success"
    <3>1. CASE p = NoPod
      <4>1. pass'.seen.state = "none"
        BY <2>3, <3>1 DEF SeenPod, NewPod
      <4> QED
        BY <4>1
    <3>2. CASE p \in PodIDs
      <4>1. pass'.seen \in {pods[p], pcache[p]}
        BY ZenonT(60), <1>0, <2>3, <3>2 DEF SeenPod, PodView
      <4> QED
        BY <1>0, <2>3, <3>2, <4>1 DEF Sourced
    <3> QED
      BY <2>7, <3>1, <3>2
  <2>9. Sourced'
    BY <1>0, <2>2, <2>8 DEF Sourced, AgentReported
  <2> QED
    BY <2>5, <2>6, <2>9 DEF TruthInv
<1>writing. ASSUME Writing PROVE TruthInv'
  <2>1. UNCHANGED <<pods, mailbox, agentVars, cacheVars>>
    BY Zenon, <1>writing
       DEF Writing, AddFinalizer, ResumeRetry, ExpireTTL, RemoveFinalizer, Reject, AwaitCertificate,
           StampNew, StampObserved, BecomeRunning, EarlyExit, StartFailure, DriveRunning,
           DriveCompleting, RetryReopen, WithPod, Provisioning, Driving, Reading, At
  <2>2. CASE Written
    BY Zenon, <1>0, <2>1, <2>2, WriteTruth DEF Written
  <2>3. CASE pass' = Idle /\ UNCHANGED <<task, expired>>
    <3>1. Counted' /\ Told'
      BY <1>still, <2>1, <2>3
    <3>2. Sourced'
      BY <1>0, <2>1, <2>3, StillSourced
    <3> QED
      BY <3>1, <3>2 DEF TruthInv
  <2> QED
    BY <1>0, <1>writing, <2>2, <2>3, WritingWrites
<1>wait. ASSUME AwaitTTL \/ Gated \/ AwaitReady \/ Interrupt PROVE TruthInv'
  <2>1. pass' = Idle /\ UNCHANGED <<task, pods, mailbox, expired, agentVars, cacheVars>>
    BY Zenon, <1>wait DEF AwaitTTL, Gated, AwaitReady, Interrupt, WithPod, Provisioning, EndPass, Driving, Reading, At
  <2>2. Counted' /\ Told'
    BY <1>still, <2>1
  <2>3. Sourced'
    BY <1>0, <2>1, StillSourced
  <2> QED
    BY <2>2, <2>3 DEF TruthInv
<1>mark. ASSUME TTLDelete \/ UserDelete PROVE TruthInv'
  <2>1. /\ pass' \in {Idle, pass}
        /\ UNCHANGED <<pods, mailbox, expired, agentVars, cacheVars>>
        /\ \E b \in {task.exists, TRUE, FALSE} : \/ task' = [task EXCEPT !.deleting = b]
                                                 \/ task' = [task EXCEPT !.exists = b]
    BY Zenon, <1>mark DEF TTLDelete, UserDelete, At, EndPass
  <2>2. task'.retries = task.retries /\ task'.phase = task.phase
    BY <1>0, <2>1 DEF Tasks
  <2>3. Counted' /\ Told'
    BY Zenon, <1>0, <2>1, <2>2, StillTruth
  <2>4. Sourced'
    BY <1>0, <2>1, StillSourced
  <2> QED
    BY <2>3, <2>4 DEF TruthInv
<1>deletePod. ASSUME DeletePod \/ RetryDeletePod \/ RetryResetMailbox PROVE TruthInv'
  <2>1. /\ UNCHANGED <<task, expired, agentVars, cacheVars>>
        /\ mailbox' \in {mailbox, Empty}
        /\ pass' = Idle \/ \E step \in Steps : pass' = [pass EXCEPT !.at = step]
    BY Zenon, <1>deletePod DEF DeletePod, RetryDeletePod, RetryResetMailbox, At, EndPass, Steps
  <2>2. pods' = pods \/ \E p \in PodNames : pods' = [pods EXCEPT ![p] = Deleted(@)]
    <3>1. pass.pod \in PodNames
      BY <1>0 DEF Passes
    <3>2. OwnedTaskPod(PodView) \subseteq PodNames
      BY DEF OwnedTaskPod, PodNames
    <3> QED
      BY Zenon, <1>deletePod, <3>1, <3>2 DEF DeletePod, RetryDeletePod, RetryResetMailbox
  <2>3. pass' = Idle \/ (pass'.task = pass.task /\ pass'.pod = pass.pod /\ pass'.seen = pass.seen)
    BY Zenon, <1>0, <2>1 DEF Passes
  <2>4. \A p \in PodIDs : pods'[p] \in {pods[p], Deleted(pods[p])}
    BY <1>0, <2>2
  <2>5. \A p \in PodIDs : /\ pods'[p].attempt = pods[p].attempt
                          /\ pods'[p].state \in {pods[p].state, "gone"}
    BY <1>deleted, <2>4
  <2>6. Counted' /\ Told'
    BY Zenon, <1>still, <2>1, <2>3, <2>5
  <2>7. Sourced'
    BY <1>0, <2>1, <2>3, <2>5, StillSourced
  <2> QED
    BY <2>6, <2>7 DEF TruthInv
<1>create. ASSUME CreatePod PROVE TruthInv'
  <2>1. PICK p \in PodIDs :
          /\ pods[p].state = "none"
          /\ pods' = [pods EXCEPT ![p] = DesiredTaskPod(pass.task)]
          /\ pass' = [pass EXCEPT !.at = "stamp", !.pod = p]
    BY Zenon, <1>create DEF CreatePod
  <2>2. /\ UNCHANGED <<task, mailbox, expired, agentVars, cacheVars>>
        /\ pass.pod = NoPod
    BY Zenon, <1>create DEF CreatePod, Provisioning, Driving, Reading, At
  <2>3. /\ DesiredTaskPod(pass.task).attempt = pass.task.retries
        /\ DesiredTaskPod(pass.task).state = "pending"
    BY DEF DesiredTaskPod
  <2>4. pass'.task = pass.task /\ pass'.seen = pass.seen
    BY Zenon, <1>0, <2>1 DEF Passes
  <2>5. \A q \in PodIDs : /\ pods'[q].attempt \in {pods[q].attempt, pass.task.retries}
                          /\ pods'[q].state = pods[q].state \/ (q = p /\ pods'[q].state = "pending")
    BY <1>0, <2>1, <2>3
  <2>6. Counted' /\ Told'
    BY Zenon, <1>still, <2>2, <2>4, <2>5
  <2>7. ~AgentReported => pass.seen.state # "succeeded"
    BY <1>0, <2>2 DEF Sourced
  <2>8. Sourced'
    BY <1>0, <2>1, <2>2, <2>4, <2>5, <2>7 DEF Sourced, AgentReported
  <2> QED
    BY <2>6, <2>8 DEF TruthInv
<1>agent. ASSUME NEW p \in PodIDs,
                 \/ \E status \in {"success", "failure"} : Decide(p, status)
                 \/ Post(p) \/ Patch(p) \/ PatchFails(p)
          PROVE  TruthInv'
  <2>1. UNCHANGED <<task, pods, expired, pass, cacheVars>>
    BY Zenon, <1>agent DEF Decide, Post, Patch, PatchFails
  <2>2. \/ UNCHANGED report /\ mailbox' \in {mailbox, PayloadOf(p)}
        \/ /\ AgentReported /\ UNCHANGED mailbox /\ report[p] = "none"
           /\ \E status \in {"success", "failure"} : report' = [report EXCEPT ![p] = status]
    BY Zenon, <1>agent DEF Decide, Post, Patch, PatchFails
  <2>3. \A q \in PodIDs : report[q] = "success" => report'[q] = "success"
    BY <1>0, <2>2
  <2>4. Counted' /\ Told'
    BY Zenon, <1>0, <2>1, <2>3, StillTruth
  <2>5. \A box \in {mailbox', mcache'} :
          box.status = "success" => box.from \in PodIDs /\ report'[box.from] = "success"
    <3>1. PayloadOf(p).status = report[p] /\ PayloadOf(p).from = p
      BY DEF PayloadOf
    <3> QED
      BY <1>0, <2>1, <2>2, <2>3, <3>1 DEF Sourced
  <2>6. ~AgentReported => UNCHANGED report
    BY <2>2
  <2>7. Sourced'
    BY <1>0, <2>1, <2>5, <2>6 DEF Sourced, AgentReported
  <2> QED
    BY <2>4, <2>7 DEF TruthInv
<1>pod. ASSUME NEW p \in PodIDs,
               \/ PodReady(p) \/ PodEvicted(p) \/ PodGone(p)
               \/ \E state \in {"succeeded", "failed"} : PodExits(p, state)
        PROVE  TruthInv'
  <2>1. UNCHANGED <<task, mailbox, expired, pass, cacheVars>>
    BY Zenon, <1>pod DEF PodReady, PodExits, PodEvicted, PodGone, SetPod
  <2>2. PICK new \in TaskPods :
          /\ pods' = [pods EXCEPT ![p] = new]
          /\ new.attempt = pods[p].attempt
          /\ \/ UNCHANGED report /\ new.state \in {pods[p].state, "gone"}
             \/ UNCHANGED report /\ pods[p].state = "pending" /\ new.state = "ready"
             \/ /\ pods[p].state \in {"pending", "ready"} /\ new.state \in {"succeeded", "failed"}
                /\ report' = IF AgentReported THEN report
                             ELSE [report EXCEPT ![p] = IF new.state = "succeeded" THEN "success"
                                                        ELSE "failure"]
    <3>0. pods[p] \in TaskPods
      BY <1>0
    <3>1. \A state \in {"ready", "succeeded", "failed", "gone"} :
            /\ [pods[p] EXCEPT !.state = state] \in TaskPods
            /\ [pods[p] EXCEPT !.state = state].state = state
            /\ [pods[p] EXCEPT !.state = state].attempt = pods[p].attempt
      BY <3>0 DEF TaskPods
    <3>2. Deleted(pods[p]) \in TaskPods
      BY ZenonT(30), <3>0 DEF Deleted, TaskPods
    <3>3. CASE PodReady(p)
      BY ZenonT(30), <3>1, <3>3 DEF PodReady, SetPod
    <3>4. CASE PodEvicted(p)
      BY ZenonT(30), <1>deleted, <3>2, <3>4 DEF PodEvicted, SetPod
    <3>5. CASE PodGone(p)
      BY ZenonT(30), <3>1, <3>5 DEF PodGone, SetPod
    <3>6. ASSUME NEW state \in {"succeeded", "failed"}, PodExits(p, state)
          PROVE  /\ pods' = [pods EXCEPT ![p] = [pods[p] EXCEPT !.state = state]]
                 /\ pods[p].state \in {"pending", "ready"}
                 /\ report' = IF AgentReported THEN report
                              ELSE [report EXCEPT ![p] = IF state = "succeeded" THEN "success"
                                                         ELSE "failure"]
      BY Zenon, <3>6 DEF PodExits, SetPod, Alive, Running
    <3> QED
      BY ZenonT(60), <1>pod, <3>1, <3>3, <3>4, <3>5, <3>6
  <2>3. \A q \in PodIDs : /\ q # p => pods'[q] = pods[q] /\ report'[q] = report[q]
                          /\ q = p => pods'[q] = new
    BY <1>0, <2>2
  <2>4. AgentReported => UNCHANGED report
    BY <2>2
  <2>5. ~AgentReported =>
          /\ new.state \in {"none", "pending", "ready"} => report'[p] = "none"
          /\ new.state = "succeeded" => report'[p] = "success"
          /\ report[p] = "success" => report'[p] = "success"
    BY <1>0, <2>2 DEF Sourced
  <2>6. \A q \in PodIDs : report[q] = "success" => report'[q] = "success"
    BY <2>3, <2>4, <2>5
  <2>7. \A q \in PodIDs : pods'[q].attempt = pods[q].attempt
    BY <2>2, <2>3
  <2>8. Counted' /\ Told'
    BY Zenon, <1>0, <2>1, <2>6, <2>7, StillTruth
  <2>9. Sourced'
    BY <1>0, <2>1, <2>3, <2>5, <2>6 DEF Sourced, AgentReported
  <2> QED
    BY <2>8, <2>9 DEF TruthInv
<1>clock. ASSUME Expire PROVE TruthInv'
  <2>1. UNCHANGED <<task, pods, mailbox, agentVars, pass, cacheVars>> /\ expired' = TRUE
    BY Zenon, <1>clock DEF Expire
  <2>2. Counted' /\ Told'
    BY Zenon, <1>0, <2>1, StillTruth
  <2>3. Sourced'
    BY <1>0, <2>1, StillSourced
  <2> QED
    BY <2>2, <2>3 DEF TruthInv
<1>sync. ASSUME SyncCaches \/ SyncGateway PROVE TruthInv'
  <2>1. /\ UNCHANGED <<task, pods, mailbox, expired, agentVars, pass>>
        /\ tcache' \in {tcache, task}
        /\ pcache' \in {pcache, pods} /\ mcache' \in {mcache, mailbox}
    BY Zenon, <1>sync DEF SyncCaches, SyncGateway
  <2>2. task.retries \in Nat
    BY <1>0 DEF Tasks
  <2>3. Counted'
    BY <2>1, <2>2 DEF TruthInv, Counted
  <2>4. Told'
    BY <1>0, <2>1 DEF TruthInv, Told, Earned, OnTimeoutSucceed
  <2>5. Sourced'
    BY <1>0, <2>1 DEF Sourced, AgentReported
  <2> QED
    BY <2>3, <2>4, <2>5 DEF TruthInv
<1> QED
  BY ZenonT(30), <1>begin, <1>writing, <1>wait, <1>mark, <1>deletePod, <1>create, <1>agent, <1>pod,
     <1>clock, <1>sync
     DEF Next, Reconcile, Settling, Waiting, PodStep, Writing

LEMMA TruthInvariant ==
  ASSUME AgentTaskAssumption
  PROVE  Spec => []TruthInv
<1>1. Init => TruthInv
  BY InitTruth
<1>2. IInv /\ TruthInv /\ [Next]_vars => TruthInv'
  <2>1. IInv /\ TruthInv /\ Next => TruthInv'
    BY NextTruth
  <2>2. TruthInv /\ UNCHANGED vars => TruthInv'
    <3> SUFFICES ASSUME TruthInv, UNCHANGED vars PROVE TruthInv'
      OBVIOUS
    <3>1. UNCHANGED <<setting, task, pods, mailbox, expired, report, pass, tcache, pcache, mcache>>
      BY DEF vars, moving
    <3>2. Counted'
      BY <3>1 DEF TruthInv, Counted
    <3>3. Told'
      BY <3>1 DEF TruthInv, Told, Earned, OnTimeoutSucceed
    <3>4. Sourced'
      BY <3>1 DEF TruthInv, Sourced, AgentReported
    <3> QED
      BY <3>2, <3>3, <3>4 DEF TruthInv
  <2> QED
    BY <2>1, <2>2
<1> QED
  BY <1>1, <1>2, Invariant, PTL DEF Spec

\* The backoff limit bounds the attempts, and every Pod is of an attempt that is
\* counted, in every setting: a pass may be interrupted anywhere in the retry
\* sequence, resumed by another, or work on a stale task and stale Pods.
THEOREM AttemptsCounted ==
  ASSUME AgentTaskAssumption
  PROVE  Spec => []EveryAttemptCounts
<1>1. TruthInv => EveryAttemptCounts
  BY DEF TruthInv, Counted, EveryAttemptCounts
<1> QED
  BY <1>1, TruthInvariant, PTL

\* Success has been reported by a Pod of a counted attempt, or is the timeout's, in
\* every setting: with terminating Pods, late patches, stale caches and resumed
\* retries too.  Which attempt reported it is another matter; see
\* PayloadOfThisAttempt.
THEOREM SuccessReported ==
  ASSUME AgentTaskAssumption
  PROVE  Spec => []SuccessWasReported
<1>1. TruthInv => SuccessWasReported
  BY DEF TruthInv, Counted, Told, Earned, SuccessWasReported
<1> QED
  BY <1>1, TruthInvariant, PTL

=============================================================================
