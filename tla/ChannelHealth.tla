--------------------------- MODULE ChannelHealth ---------------------------
(***************************************************************************)
(* The health of one channel: each gateway replica keeps what it observed  *)
(* of its deliveries over a rolling window, in memory; the controller asks *)
(* the replicas it can reach, keeps the answers for a while, and reduces   *)
(* them to the PlatformConnected condition.                                *)
(***************************************************************************)
EXTENDS Integers, FiniteSets

CONSTANTS
  Replicas,
  Window,    \* the rolling window of a ChannelHealthStore
  MaxKept,   \* the observations in the window that a new one keeps, 256
  CacheFor,  \* activityCacheWindow
  MaxEvents, \* bound: observations
  MaxBoots,  \* bound: restarts of replicas
  MaxTime    \* bound: the clock

VARIABLES
  now,
  store,   \* store[g]: the observations of replica g, [at, ok, n], n-th of all
  started, \* started[g]: startedAt
  fetched, \* the cached answers: when, and from whom
  cond,    \* PlatformConnected
  lost,    \* the observations that replicas no longer hold, [by, at]
  count    \* [events, boots]

vars == <<now, store, started, fetched, cond, lost, count>>

ChannelHealthAssumption == {Window, MaxKept, CacheFor, MaxTime} \subseteq Nat

Never == -MaxTime

Recent(g) == {o \in store[g] : o.at > now - Window}

\* record: what has left the window is dropped, and of the rest all but the last
\* MaxKept.
Kept(g) ==
  {o \in Recent(g) : Cardinality({p \in Recent(g) : p.n > o.n}) < MaxKept}

Forget(g, gone) == lost' = lost \cup {[by |-> g, at |-> o.at] : o \in gone}

\* RecordSuccess and RecordFailure.
Record(g, ok) ==
  /\ count.events < MaxEvents
  /\ count' = [count EXCEPT !.events = @ + 1]
  /\ store' = [store EXCEPT ![g] = Kept(g) \cup {[at |-> now, ok |-> ok, n |-> count.events]}]
  /\ Forget(g, store[g] \ Kept(g))
  /\ UNCHANGED <<now, started, fetched, cond>>

\* Snapshot: a success in the window outranks every failure in it.
Snapshot(g) ==
  [state |-> IF \E o \in Recent(g) : o.ok THEN "success"
             ELSE IF Recent(g) # {} THEN "failure" ELSE "empty",
   started |-> started[g]]

\* Mutant: silence is believed of replicas that have just started.
ReducedAtOnce(answers) ==
  LET states == {answers[g].state : g \in DOMAIN answers}
  IN  IF "success" \in states THEN "True"
      ELSE IF "failure" \in states THEN "False"
      ELSE IF answers # <<>> THEN "Unknown" ELSE cond

\* reduceChannelHealth: the four rules.
Reduced(answers) ==
  LET states == {answers[g].state : g \in DOMAIN answers}
      fullWindow == \E g \in DOMAIN answers : now - answers[g].started >= Window
  IN  IF "success" \in states THEN "True"
      ELSE IF "failure" \in states THEN "False"
      ELSE IF fullWindow THEN "Unknown" ELSE cond

\* A pass over a valid channel: NamespaceChannelHealth answers from its cache,
\* or asks every replica and keeps what the reachable ones say.
Reduce ==
  /\ IF now - fetched.at < CacheFor
     THEN cond' = Reduced(fetched.answers) /\ UNCHANGED fetched
     ELSE \E heard \in SUBSET Replicas :
            LET answers == [g \in heard |-> Snapshot(g)]
            IN  /\ cond' = Reduced(answers)
                /\ fetched' = [at |-> now, answers |-> answers]
  /\ UNCHANGED <<now, store, started, lost, count>>

Boot(g) ==
  /\ count.boots < MaxBoots
  /\ count' = [count EXCEPT !.boots = @ + 1]
  /\ Forget(g, store[g])
  /\ store' = [store EXCEPT ![g] = {}]
  /\ started' = [started EXCEPT ![g] = now]
  /\ UNCHANGED <<now, fetched, cond>>

Tick ==
  /\ now < MaxTime
  /\ now' = now + 1
  /\ UNCHANGED <<store, started, fetched, cond, lost, count>>

Init ==
  /\ now = 0
  /\ store = [g \in Replicas |-> {}]
  /\ \E t \in {0, -Window} : started = [g \in Replicas |-> t]
  /\ fetched = [at |-> Never, answers |-> <<>>]
  /\ cond = "none"
  /\ lost = {} /\ count = [events |-> 0, boots |-> 0]

Next ==
  \/ Reduce \/ Tick
  \/ \E g \in Replicas : Boot(g) \/ \E ok \in BOOLEAN : Record(g, ok)

Spec == Init /\ [][Next]_vars

-----------------------------------------------------------------------------
(* Properties *)

\* "no webhook traffic observed within the health window": when a pass turns
\* the condition to Unknown, no replica that was heard still holds an
\* observation from within the window, up to the moment it was asked; and one
\* of them has been up for the whole window and saw none in it, not even one
\* that a restart or the bound on its list has taken since.
SilenceIsReal ==
  [][ cond' # cond /\ cond' = "Unknown" =>
        LET heard == fetched'.answers
            recent(at) == at > now - Window /\ at < fetched'.at
        IN  /\ \A g \in DOMAIN heard : \A o \in store[g] : ~recent(o.at)
            /\ \E g \in DOMAIN heard :
                 \A l \in lost : l.by = g => ~recent(l.at) ]_vars
=============================================================================
