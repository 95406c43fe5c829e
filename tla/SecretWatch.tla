---------------------------- MODULE SecretWatch ----------------------------
(***************************************************************************)
(* The gateway's Secret reads (internal/gateway/secretwatch.go): one       *)
(* informer per Secret, started by the first read, stopped by a janitor    *)
(* once nobody has read it for IdleTTL, with a live read when its first    *)
(* GET takes longer than SyncTimeout.  One Secret is followed.  Requests   *)
(* read it concurrently; what they hold of an informer may outlive it.     *)
(***************************************************************************)
EXTENDS Naturals, FiniteSets

CONSTANTS Readers,       \* requests
          SyncTimeout,   \* bound on the wait for an informer's first GET
          IdleTTL,       \* idle time after which an informer is stopped
          Rotations,     \* bound: changes of the Secret
          MaxInformers,  \* bound: informers started
          Horizon        \* bound: the clock

\* What the constants must be: an informer outlives the longest wait for it.
SecretWatchAssumption ==
    /\ {SyncTimeout, IdleTTL, Rotations, MaxInformers, Horizon} \subseteq Nat
    /\ SyncTimeout < IdleTTL

VARIABLES
    time,       \* the clock
    secret,     \* the Secret's version at the API server, 0 when absent
    rotated,    \* changes so far
    current,    \* the informer in the watcher's map, 0 for none
    informer,   \* informer -> [state, synced, store, lastUsed]
    reader,     \* reader -> [at, entry, since]
    answer,     \* the last value a read returned: [of, version]
    open        \* the watcher's context has not ended

secretVars == <<time, secret, rotated, current, informer, reader, answer, open>>

Informers == 1..MaxInformers
Unborn == [state |-> "none", synced |-> FALSE, store |-> 0, lastUsed |-> 0]
Idle == [at |-> "idle", entry |-> 0, since |-> 0]
NoAnswer == [from |-> "none", version |-> 0]

-----------------------------------------------------------------------------
(***************************************************************************)
(* Get                                                                     *)
(***************************************************************************)

\* Mutant: a hit does not count as a use.
UsedOnce(e) == e

\* A hit renews the informer's lease.
Used(e) == [e EXCEPT !.lastUsed = time]

\* The next informer that has not been started.
Fresh == 1 + Cardinality({i \in Informers : informer[i].state # "none"})

\* entryFor: the informer in the map, or a new one.
EntryFor(r) ==
    /\ open /\ reader[r].at = "idle"
    /\ LET i == IF current # 0 THEN current ELSE Fresh IN
       /\ i \in Informers
       /\ current' = i
       /\ informer' = [informer EXCEPT ![i] =
             IF current # 0 THEN Used(@)
             ELSE [Unborn EXCEPT !.state = "running", !.lastUsed = time]]
       /\ reader' = [reader EXCEPT ![r] = [at |-> "wait", entry |-> i, since |-> time]]
    /\ answer' = NoAnswer
    /\ UNCHANGED <<time, secret, rotated, open>>

\* waitSynced succeeded: the informer's store answers.
ReadStore(r) ==
    LET e == informer[reader[r].entry] IN
    /\ reader[r].at = "wait" /\ e.synced
    /\ reader' = [reader EXCEPT ![r] = Idle]
    /\ answer' = [from |-> e.state, version |-> e.store]
    /\ UNCHANGED <<time, secret, rotated, current, informer, open>>

\* waitSynced gave up: the API server answers.
ReadLive(r) ==
    /\ reader[r].at = "wait" /\ ~informer[reader[r].entry].synced
    /\ time - reader[r].since > SyncTimeout
    /\ reader' = [reader EXCEPT ![r] = Idle]
    /\ answer' = [from |-> "live", version |-> secret]
    /\ UNCHANGED <<time, secret, rotated, current, informer, open>>

\* A read waits for a scheduler's turn, not for hours: SyncTimeout bounds the
\* waiting, and what follows it is immediate.
InTime == \A r \in Readers :
    reader[r].at = "wait" => time - reader[r].since <= SyncTimeout

Tick ==
    /\ time < Horizon /\ InTime
    /\ time' = time + 1
    /\ answer' = NoAnswer
    /\ UNCHANGED <<secret, rotated, current, informer, reader, open>>

-----------------------------------------------------------------------------
(***************************************************************************)
(* The informer and the janitor                                            *)
(***************************************************************************)

\* The first GET, an absent Secret being an empty list, then watch events.
Observe(i) ==
    /\ informer[i].state = "running"
    /\ ~informer[i].synced \/ informer[i].store # secret
    /\ informer' = [informer EXCEPT ![i].synced = TRUE, ![i].store = secret]
    /\ answer' = NoAnswer
    /\ UNCHANGED <<time, secret, rotated, current, reader, open>>

\* close(entry.stop) and the delete from the map.
StopCurrent ==
    /\ current' = 0
    /\ informer' = [informer EXCEPT ![current].state = "stopped"]
    /\ answer' = NoAnswer

\* The janitor's tick.
Sweep ==
    /\ open /\ current # 0
    /\ time - informer[current].lastUsed > IdleTTL
    /\ StopCurrent
    /\ UNCHANGED <<time, secret, rotated, reader, open>>

\* The watcher's context ends with the process: every informer is stopped.
End ==
    /\ open
    /\ open' = FALSE
    /\ IF current # 0 THEN StopCurrent ELSE UNCHANGED <<current, informer>> /\ answer' = NoAnswer
    /\ UNCHANGED <<time, secret, rotated, reader>>

\* The Secret is created, rotated or deleted.
Rotate ==
    /\ rotated < Rotations
    /\ rotated' = rotated + 1
    /\ secret' \in {0, rotated + 1} \ {secret}
    /\ answer' = NoAnswer
    /\ UNCHANGED <<time, current, informer, reader, open>>

-----------------------------------------------------------------------------

Init ==
    /\ time = 0 /\ secret \in {0, 1} /\ rotated = 1 /\ current = 0
    /\ informer = [i \in Informers |-> Unborn]
    /\ reader = [r \in Readers |-> Idle]
    /\ answer = NoAnswer
    /\ open = TRUE

\* The clock has reached its bound.
WatchDone == time = Horizon /\ UNCHANGED secretVars

Next ==
    \/ \E r \in Readers : EntryFor(r) \/ ReadStore(r) \/ ReadLive(r)
    \/ \E i \in Informers : Observe(i)
    \/ Tick \/ Sweep \/ End \/ Rotate
    \/ WatchDone

Spec == Init /\ [][Next]_secretVars

-----------------------------------------------------------------------------
(***************************************************************************)
(* Properties                                                              *)
(***************************************************************************)

\* secretwatch.go:173: the janitor never stops an informer a request still
\* reads from, so that no answer comes from a store nothing updates any more
\* (until the process ends).
ServedByARunningInformer == open => answer.from # "stopped"
=============================================================================
