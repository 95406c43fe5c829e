------------------------- MODULE ChannelReconciler -------------------------
(***************************************************************************)
(* The AgentChannelReconciler over two channels of a namespace that may    *)
(* claim the same path, their Agent, the Secret they name, the Role that   *)
(* grants it with its two RoleBindings, and the addresses of a callback    *)
(* host.  The API server's objects reach the reconciler through informer   *)
(* caches; a write from a stale copy is a conflict.  Only channels, Roles, *)
(* RoleBindings and the Agent are watched: a Secret or an address that     *)
(* changes is noticed by a later pass.                                     *)
(*                                                                         *)
(* The pruning and the sweep of async records are AsyncChannel's, the      *)
(* health poll is ChannelHealth's.                                         *)
(***************************************************************************)
EXTENDS Integers, FiniteSets

CONSTANTS
  Starts,   \* bound: what users have created at the start, and the kinds of edit
  MaxEdits  \* bound: edits of users and changes outside

VARIABLES
  api,      \* the API server's objects
  cache,    \* the informer caches
  role,     \* the per-channel Roles
  seenRole, \* the Roles, as the cache has them
  bindings, \* the owners of the RoleBindings of each channel
  addrs,    \* what the callback host resolves to
  queue,    \* channels with a reconcile pending
  timed,    \* channels with a RequeueAfter pending
  edits,    \* how many edits and faults there were
  may       \* the kinds of edit there may be; fixed

rbac == <<role, bindings>>
vars == <<api, cache, rbac, seenRole, addrs, queue, timed, edits, may>>

Channels == {"a", "b"}
Objects == Channels \cup {"agent", "secret"}

\* An AgentChannel.  second: its creationTimestamp; uid: which object of its
\* name it is; refs: the Secrets its credentials name.
Channel == [exists : {TRUE}, deleting : {FALSE}, finalizer : {FALSE}, second : 0..1, uid : 0..MaxEdits,
            type : {"webhook", "discord"}, path : {"p", "q", "foreign"}, refs : {{"s"}, {"s", "t"}},
            ready : {FALSE}, phase : {"none"}, disconnected : {FALSE}]
Gone(c) == [api[c] EXCEPT !.exists = FALSE]
Nobody == -1
NoRole == [refs |-> {}, owner |-> Nobody]

\* The service accounts a Role is bound to.
Accounts == {"gateway", "controller"}

\* The states of the Agent and of a credential: a "padded" publicKey is a
\* good one with white space around it, "malformed" is no key.
Agents == {"none", "noService", "degraded", "running"}
Secrets == {"none", "malformed", "padded", "good"}

-----------------------------------------------------------------------------
(* validateChannel *)

\* The earliest creationTimestamp wins, then the name.
Older(o, p, name, other) == p.second < o.second \/ (p.second = o.second /\ other = "a" /\ name = "b")

Conflict(c, objects) ==
  \E o \in Channels \ {c} :
    /\ objects[o].exists /\ objects[o].path = objects[c].path
    /\ Older(objects[c], objects[o], c, o)

\* The checks before the Role: the Service, the path's prefix, the conflict.
PathRefused(c, objects) ==
  \/ objects["agent"] = "noService"
  \/ objects[c].path = "foreign"
  \/ Conflict(c, objects)

\* validateDiscordPublicKey trims the value before it decodes it.
KeyAccepted(value) == value \in {"padded", "good"}

\* validateSecrets: every key is there; for Discord the publicKey has its shape.
SecretUnusable(ch, value) ==
  \/ value = "none"
  \/ ch.type = "discord" /\ ~KeyAccepted(value)

\* validateCallbackURL: a host that does not resolve is left to the gateway.
CallbackRefused(ch) == ch.type = "webhook" /\ "internal" \in addrs

\* The first half of ensureCredentialRole: the Role after it, and whether the
\* write was refused.
EnsureRole(c) ==
  LET want == [refs |-> cache[c].refs, owner |-> cache[c].uid]
  IN  CASE seenRole[c] = NoRole ->
             IF role[c] = NoRole THEN [role |-> want, err |-> FALSE]
                                 ELSE [role |-> role[c], err |-> TRUE]
        [] seenRole[c] # NoRole /\ seenRole[c].refs = want.refs -> [role |-> role[c], err |-> FALSE]
        [] OTHER ->
             IF role[c] = seenRole[c] THEN [role |-> [role[c] EXCEPT !.refs = want.refs], err |-> FALSE]
                                      ELSE [role |-> role[c], err |-> TRUE]

\* The second half: the RoleBindings after it, when it reaches those of the given
\* accounts.  One that is there already is left as it is, whoever owns it.
EnsureBindings(c, accounts) ==
  [a \in Accounts |-> IF a \in accounts /\ bindings[c][a] = Nobody THEN cache[c].uid
                      ELSE bindings[c][a]]

\* ensureCredentialRole, whose first failing write ends it: a conflict of the
\* Role, or a fault of the API server on the Role or on either binding.
EnsureCredentialRole(c, fault) ==
  LET ensured == IF fault = "role" THEN [role |-> role[c], err |-> TRUE] ELSE EnsureRole(c)
      reached == CASE ensured.err \/ fault = "gateway" -> {}
                   [] ~ensured.err /\ fault = "controller" -> {"gateway"}
                   [] OTHER -> Accounts
  IN  /\ role' = [role EXCEPT ![c] = ensured.role]
      /\ bindings' = [bindings EXCEPT ![c] = EnsureBindings(c, reached)]

EnsureFails(c, fault) == fault # "none" \/ EnsureRole(c).err

-----------------------------------------------------------------------------
(* Reconcile *)

\* The pass ends with a write of c's object: a conflict, and a retry, if its
\* copy is not the API server's.
Update(c, new, again, after) ==
  IF cache[c] = api[c]
  THEN /\ api' = [api EXCEPT ![c] = new]
       /\ queue' = IF again THEN queue ELSE queue \ {c}
       /\ timed' = IF after THEN timed \cup {c} ELSE timed
  ELSE UNCHANGED <<api, queue, timed>>

\* reducePhase
ReducedPhase == IF cache["agent"] = "degraded" THEN "Degraded" ELSE "Active"

\* reconcileDelete: announce, wait for the disconnect or its timeout, release.
ReconcileDelete(c) ==
  LET ch == cache[c]
  IN  /\ UNCHANGED <<rbac, edits>>
      /\ CASE ~ch.finalizer -> queue' = queue \ {c} /\ UNCHANGED <<api, timed>>
           [] ch.finalizer /\ ~ch.disconnected ->
                Update(c, [ch EXCEPT !.phase = "Terminating"], FALSE, TRUE)
           [] ch.finalizer /\ ch.disconnected -> Update(c, Gone(c), FALSE, FALSE)

\* Mutant: a channel that is not valid is not looked at again.
VerdictNotRequeued(c, ok) ==
  Update(c, [cache[c] EXCEPT !.ready = ok, !.phase = ReducedPhase], FALSE, ok)

\* The status of a channel with an Agent; valid or not, it is looked at again.
Verdict(c, ok) ==
  Update(c, [cache[c] EXCEPT !.ready = ok, !.phase = ReducedPhase], FALSE, TRUE)

\* The API server may fail a write.
Faults == {"none"} \cup IF "fault" \in may /\ edits < MaxEdits THEN Accounts \cup {"role"} ELSE {}

ReconcileLive(c) ==
  LET ch == cache[c]
  IN  CASE cache["agent"] = "none" ->
             /\ Update(c, [ch EXCEPT !.ready = FALSE, !.phase = "Failed"], FALSE, FALSE)
             /\ UNCHANGED <<rbac, edits>>
        [] cache["agent"] # "none" /\ PathRefused(c, cache) ->
             Verdict(c, FALSE) /\ UNCHANGED <<rbac, edits>>
        [] OTHER ->
             \E fault \in Faults :
               /\ edits' = IF fault = "none" THEN edits ELSE edits + 1
               /\ EnsureCredentialRole(c, fault)
               /\ Verdict(c, /\ ~EnsureFails(c, fault)
                             /\ ~SecretUnusable(ch, cache["secret"])
                             /\ ~CallbackRefused(ch))

Reconcile(c) ==
  LET ch == cache[c]
  IN  /\ c \in queue
      /\ CASE ~ch.exists -> queue' = queue \ {c} /\ UNCHANGED <<api, timed, rbac, edits>>
           [] ch.exists /\ ch.deleting -> ReconcileDelete(c)
           [] ch.exists /\ ~ch.deleting /\ ~ch.finalizer ->
                /\ Update(c, [ch EXCEPT !.finalizer = TRUE], TRUE, FALSE)
                /\ UNCHANGED <<rbac, edits>>
           [] OTHER -> ReconcileLive(c)
      /\ UNCHANGED <<cache, seenRole, addrs, may>>

-----------------------------------------------------------------------------
(* Watches and timers *)

\* SetupWithManager and channelsForAgent: both channels name the one Agent.
Enqueued(k) == IF k \in Channels THEN {k} ELSE IF k = "agent" THEN Channels ELSE {}

Deliver(k) ==
  /\ cache[k] # api[k]
  /\ cache' = [cache EXCEPT ![k] = api[k]]
  /\ queue' = queue \cup Enqueued(k)
  /\ UNCHANGED <<api, rbac, seenRole, addrs, timed, edits, may>>

DeliverRole(c) ==
  /\ seenRole[c] # role[c]
  /\ seenRole' = [seenRole EXCEPT ![c] = role[c]]
  /\ queue' = queue \cup {c}
  /\ UNCHANGED <<api, cache, rbac, addrs, timed, edits, may>>

Fire(c) ==
  /\ c \in timed
  /\ timed' = timed \ {c} /\ queue' = queue \cup {c}
  /\ UNCHANGED <<api, cache, rbac, seenRole, addrs, edits, may>>

\* The Role, or a RoleBinding, of c is removed.  No cache of RoleBindings is read,
\* so the event of one does no more than to ask for a pass.
RemoveRole(c) == role[c] # NoRole /\ role' = [role EXCEPT ![c] = NoRole] /\ UNCHANGED <<bindings, queue>>
RemoveBinding(c, a) ==
  /\ bindings[c][a] # Nobody
  /\ bindings' = [bindings EXCEPT ![c][a] = Nobody] /\ queue' = queue \cup {c}
  /\ UNCHANGED role

\* The garbage collector removes what a channel that is gone has owned.
Orphan(c, owner) == ~(api[c].exists /\ owner = api[c].uid)
Collect(c) ==
  /\ \/ Orphan(c, role[c].owner) /\ RemoveRole(c)
     \/ \E a \in Accounts : Orphan(c, bindings[c][a]) /\ RemoveBinding(c, a)
  /\ UNCHANGED <<api, cache, seenRole, addrs, timed, edits, may>>

\* A gateway confirms the disconnect of a terminating channel, or the wait for
\* it has been long enough.
Disconnect(c) ==
  /\ api[c].exists /\ api[c].phase = "Terminating" /\ ~api[c].disconnected
  /\ api' = [api EXCEPT ![c].disconnected = TRUE]
  /\ UNCHANGED <<cache, rbac, seenRole, addrs, queue, timed, edits, may>>

-----------------------------------------------------------------------------
(* Users and the world outside *)

Happens(kind) ==
  /\ kind \in may /\ edits < MaxEdits
  /\ edits' = edits + 1
  /\ UNCHANGED may

Edit(kind, k, new) ==
  /\ Happens(kind)
  /\ api[k] # new
  /\ api' = [api EXCEPT ![k] = new]
  /\ UNCHANGED <<cache, rbac, seenRole, addrs, queue, timed>>

\* A channel is created, in the second of the youngest one or a later one.
CreateChannel(c) ==
  /\ ~api[c].exists
  /\ \E ch \in {x \in Channel : x.uid = edits /\ x.path # "q" /\ x.refs = {"s"}} :
       /\ \A o \in Channels \ {c} : api[o].exists => ch.second >= api[o].second
       /\ Edit("create", c, ch)

EditChannel(c) ==
  LET ch == api[c]
  IN  /\ ch.exists
      /\ \/ \E p \in {"p", "q"}, refs \in {{"s"}, {"s", "t"}} :
              Edit("spec", c, [ch EXCEPT !.path = p, !.refs = refs])
         \/ ~ch.deleting /\ Edit("delete", c, IF ch.finalizer THEN [ch EXCEPT !.deleting = TRUE] ELSE Gone(c))

Outside ==
  \/ \E a \in Agents : Edit("agent", "agent", a)
  \/ \E s \in Secrets : Edit("secret", "secret", s)
  \/ /\ Happens("addrs")
     /\ addrs' \in {{}, {"public"}, {"public", "internal"}} \ {addrs}
     /\ UNCHANGED <<api, cache, rbac, seenRole, queue, timed>>
  \/ /\ Happens("rbac")
     /\ \E c \in Channels : RemoveRole(c) \/ \E a \in Accounts : RemoveBinding(c, a)
     /\ UNCHANGED <<api, cache, seenRole, addrs, timed>>

\* A new process reconciles everything there is.
RestartController ==
  /\ Happens("restart")
  /\ cache' = api /\ seenRole' = role
  /\ queue' = {c \in Channels : api[c].exists} /\ timed' = {}
  /\ UNCHANGED <<api, role, bindings, addrs>>

\* Roles and bindings of earlier channels of the same names may be left over.
Earlier == -2
Init ==
  /\ \E start \in Starts :
       /\ api = start.api /\ addrs = start.addrs /\ may = start.may
       /\ role = [c \in Channels |->
                   IF c \in start.leftovers THEN [refs |-> {"s"}, owner |-> Earlier] ELSE NoRole]
       /\ bindings = [c \in Channels |->
                       [a \in Accounts |-> IF c \in start.leftovers THEN Earlier ELSE Nobody]]
  /\ cache = api /\ seenRole = role
  /\ queue = {c \in Channels : api[c].exists}
  /\ timed = {} /\ edits = 0

Controller ==
  \/ \E c \in Channels : \/ Reconcile(c) \/ DeliverRole(c) \/ Fire(c)
                         \/ Collect(c) \/ Disconnect(c)
  \/ \E k \in Objects : Deliver(k)

\* Without an Agent, or without channels, the reconciler comes to rest.
ReconcilerRests ==
  /\ edits = MaxEdits /\ cache = api /\ seenRole = role /\ queue = {} /\ timed = {}
  /\ UNCHANGED vars

Users == Outside \/ RestartController \/ \E c \in Channels : CreateChannel(c) \/ EditChannel(c)

Next == Controller \/ Users \/ ReconcilerRests

\* Informers deliver, the queue is worked off and timers fire.
Informed ==
  \/ \E k \in Objects : Deliver(k)
  \/ \E c \in Channels : DeliverRole(c) \/ Collect(c) \/ Disconnect(c)
Fairness ==
  /\ WF_vars(Informed)
  /\ \A c \in Channels : WF_vars(Reconcile(c)) /\ WF_vars(Fire(c))

Spec == Init /\ [][Next]_vars /\ Fairness

-----------------------------------------------------------------------------
(* Properties *)

Valid(c) ==
  /\ api["agent"] # "none" /\ ~PathRefused(c, api)
  /\ ~SecretUnusable(api[c], api["secret"]) /\ ~CallbackRefused(api[c])

\* What the status of every channel says is so, the Role of a channel that
\* passed the path checks grants what it names, to the gateway and to the
\* controller, and a deleted channel is gone.
AsDeclared ==
  \A c \in Channels :
    IF ~api[c].exists THEN role[c] = NoRole /\ \A a \in Accounts : bindings[c][a] = Nobody
    ELSE /\ ~api[c].deleting
         /\ api[c].ready = Valid(c)
         /\ api["agent"] # "none" /\ ~PathRefused(c, api) =>
              /\ role[c] = [refs |-> api[c].refs, owner |-> api[c].uid]
              /\ \A a \in Accounts : bindings[c][a] = api[c].uid

\* Reconcile, its watches and its one-minute requeue: once users stop, every
\* channel's Ready condition comes to say whether it is valid, whatever order
\* informers deliver in and although no Secret, no address and no conflicting
\* channel is watched; so one channel owns a contested path, the loser takes
\* over when the owner goes, and Roles and RoleBindings grant what the channels
\* name, although those of an earlier channel of the name may be in their way.
VerdictsSettle == <>[]AsDeclared
=============================================================================
