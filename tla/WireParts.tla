----------------------------- MODULE WireParts -----------------------------
(***************************************************************************)
(* Two parts of the gateway's per-request machinery that share no state:   *)
(* the rate limiter and the authentication of callers.  What each promises *)
(* is stated here once, for the run that checks it and the proof of it.    *)
(***************************************************************************)
EXTENDS Integers

CONSTANTS
  Replicas, Limit, Minute, Grain,                     \* RateLimit
  Requests, MaxTTL, Margin, Lifetime, Horizon         \* CallerAuth

VARIABLES
  live, seen, bucket, steady, allowed,
  now, pod, podInformer, revoked, cache, request, last

Rate == INSTANCE RateLimit
Auth == INSTANCE CallerAuth WITH informer <- podInformer

rateVars == <<live, seen, bucket, steady, allowed>>
authVars == <<now, pod, podInformer, revoked, cache, request, last>>

\* RateLimiter.allow: in a minute without scaling, all replicas together let
\* through at most twice the limit.
MinuteBound == Rate!MinuteBound

\* A revoked token is honoured for MaxTTL after its last review, no longer.
RevocationTakesHold == Auth!RevocationTakesHold
=============================================================================
