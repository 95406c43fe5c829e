----------------------------- MODULE CallerAuth -----------------------------
(***************************************************************************)
(* Who is calling: Authenticator's regimes for the gateway's paths, the    *)
(* cache of TokenReview verdicts, and the check that the Pod at the source *)
(* address is in the authenticated namespace, against a Pod informer that  *)
(* lags behind the cluster.  late marks a review begun after the token was *)
(* revoked.  One source address, one bearer token, several requests in     *)
(* flight.  Time is in ticks.                                              *)
(***************************************************************************)
EXTENDS Integers, FiniteSetsExt

CONSTANTS
  Requests,   \* bound: requests
  MaxTTL,     \* tokenCacheMaxTTL
  Margin,     \* tokenCacheSafetyMargin
  Lifetime,   \* when the token expires
  Horizon     \* bound: ticks

\* What the constants must be: tokenCacheMaxTTL is a positive duration.
CallerAuthAssumption == MaxTTL \in Nat \ {0} /\ {Margin, Lifetime, Horizon} \subseteq Nat

VARIABLES
  now,        \* the clock
  pod,        \* the Pod at the source address: namespace, managed by Kaalm or not
  informer,   \* what the gateway's Pod informer holds for that address
  revoked,    \* whether the token's ServiceAccount has been deleted
  cache,      \* the token's cache entry
  request,    \* the requests whose token is being reviewed
  last        \* ghost: the decision of the last step

authVars == <<now, pod, informer, revoked, cache, request, last>>

NoPod == [namespace |-> "nowhere", managed |-> FALSE]
Pods == {[namespace |-> "team", managed |-> FALSE], [namespace |-> "team", managed |-> TRUE],
         [namespace |-> "other", managed |-> FALSE]}
NoEntry == [expires |-> 0, late |-> FALSE, reviewed |-> 0]
Idle == [pc |-> "idle", late |-> FALSE]
NoDecision == [path |-> "none", verdict |-> "none", late |-> FALSE, reviewed |-> 0]

\* The certificates a caller of namespace "team" may present, and the paths.
Certificates == {"agent", "task", "controller", "console", "unrecognised"}
Paths == {"proxy", "heartbeat", "complete", "controller", "console"}

Decision(path, verdict) == [NoDecision EXCEPT !.path = path, !.verdict = verdict]
Verdict(ok) == IF ok THEN "ok" ELSE "unauthorized"

\* The Pod at the source address, as the informer has it, and as the API server
\* has it when it is asked about the caller's namespace only.
PodByIP == informer
PodByIPLive == IF pod.namespace = "team" THEN pod ELSE NoPod

\* crossCheck.
CrossCheck == PodByIP # NoPod /\ PodByIP.namespace = "team"

\* crossCheckLive: only a miss is looked up live.
CrossCheckLive ==
  LET p == IF PodByIP = NoPod THEN PodByIPLive ELSE PodByIP
  IN  p # NoPod /\ p.namespace = "team"

-----------------------------------------------------------------------------
\* The regimes, for a request that presents a certificate; a bearer token
\* beside it is ignored.
DualModePaths(cert) ==
  IF cert \in {"agent", "task"} THEN Verdict(CrossCheck) ELSE "forbidden"

AgentReportPaths(kind, cert) ==
  IF cert = kind THEN Verdict(IF kind = "task" THEN CrossCheckLive ELSE CrossCheck)
  ELSE "forbidden"

ServicePaths(service, cert) == IF cert = service THEN "ok" ELSE "forbidden"

Regime(path, cert) ==
  CASE path = "proxy"      -> DualModePaths(cert)
    [] path = "heartbeat"  -> AgentReportPaths("agent", cert)
    [] path = "complete"   -> AgentReportPaths("task", cert)
    [] path = "controller" -> ServicePaths("controller", cert)
    [] path = "console"    -> ServicePaths("console", cert)

\* One step: nothing is waited for but the live List.
WithCertificate(path, cert) ==
  /\ last' = Decision(path, Regime(path, cert))
  /\ UNCHANGED <<now, pod, informer, revoked, cache, request>>

\* A path that needs a certificate, and none presented.
WithoutCertificate(path) ==
  /\ path # "proxy"
  /\ last' = Decision(path, "no_certificate")
  /\ UNCHANGED <<now, pod, informer, revoked, cache, request>>

\* Mutant: no cap of MaxTTL.
CacheTTLUncapped == Max({0, Lifetime - now - Margin})

\* cacheTTL: what is left of the token's life less the margin, at most MaxTTL.
CacheTTL == Max({0, Min({MaxTTL, Lifetime - now - Margin})})

\* A bearer token on a dual-mode path: Kaalm's own Pods are turned away before
\* the token is looked at; a fresh cache entry answers for it at once.
WithToken(r) ==
  /\ request[r] = Idle
  /\ CASE informer.managed ->
            last' = Decision("token", "unauthorized") /\ UNCHANGED request
       [] ~informer.managed /\ now < cache.expires ->
            /\ last' = [path |-> "token", verdict |-> Verdict(CrossCheck),
                        late |-> cache.late, reviewed |-> cache.reviewed]
            /\ UNCHANGED request
       [] ~informer.managed /\ now >= cache.expires ->
            /\ request' = [request EXCEPT ![r] = [pc |-> "reviewing", late |-> revoked]]
            /\ last' = NoDecision
  /\ UNCHANGED <<now, pod, informer, revoked, cache>>

\* The API server judges the token, good until it expires or is revoked, or
\* cannot be reached.
Review(r) ==
  /\ request[r].pc = "reviewing"
  /\ \/ /\ request' = [request EXCEPT ![r].pc =
             IF now < Lifetime /\ ~revoked THEN "accepted" ELSE "rejected"]
        /\ last' = NoDecision
     \/ request' = [request EXCEPT ![r] = Idle] /\ last' = Decision("token", "unavailable")
  /\ UNCHANGED <<now, pod, informer, revoked, cache>>

\* The verdict comes back.  A rejected token leaves the cache alone; an accepted
\* one is cached from now, and the source address is checked.
Reviewed(r) ==
  /\ \/ /\ request[r].pc = "rejected"
        /\ last' = Decision("token", "unauthorized")
        /\ UNCHANGED cache
     \/ /\ request[r].pc = "accepted"
        /\ cache' = [expires |-> now + CacheTTL, late |-> request[r].late, reviewed |-> now]
        /\ last' = [path |-> "token", verdict |-> Verdict(CrossCheck),
                    late |-> request[r].late, reviewed |-> now]
  /\ request' = [request EXCEPT ![r] = Idle]
  /\ UNCHANGED <<now, pod, informer, revoked>>

-----------------------------------------------------------------------------
Tick ==
  /\ now < Horizon
  /\ now' = now + 1
  /\ last' = NoDecision
  /\ UNCHANGED <<pod, informer, revoked, cache, request>>

\* The address changes hands: a Pod ends, another starts.
PodChanges ==
  /\ IF pod = NoPod THEN pod' \in Pods ELSE pod' = NoPod
  /\ last' = NoDecision
  /\ UNCHANGED <<now, informer, revoked, cache, request>>

\* The informer catches up.
Informed ==
  /\ informer # pod
  /\ informer' = pod
  /\ last' = NoDecision
  /\ UNCHANGED <<now, pod, revoked, cache, request>>

Revoke ==
  /\ ~revoked
  /\ revoked' = TRUE
  /\ last' = NoDecision
  /\ UNCHANGED <<now, pod, informer, cache, request>>

Init ==
  /\ now = 0
  /\ pod = NoPod
  /\ informer = NoPod
  /\ revoked = FALSE
  /\ cache = NoEntry
  /\ request = [r \in Requests |-> Idle]
  /\ last = NoDecision

AuthNext ==
  \/ Tick \/ PodChanges \/ Informed \/ Revoke
  \/ \E path \in Paths, cert \in Certificates : WithCertificate(path, cert)
  \/ \E path \in Paths : WithoutCertificate(path)
  \/ \E r \in Requests : WithToken(r) \/ Review(r) \/ Reviewed(r)

Spec == Init /\ [][AuthNext]_authVars

-----------------------------------------------------------------------------
AcceptedToken == last.path = "token" /\ last.verdict = "ok"

\* tokenCacheMaxTTL bounds how long a revoked token is honoured: it is accepted
\* only within MaxTTL of the return of a review that was under way while the
\* token was still good.
RevocationTakesHold ==
  AcceptedToken /\ revoked => ~last.late /\ now < last.reviewed + MaxTTL
=============================================================================
