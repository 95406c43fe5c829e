----------------------------- MODULE RateLimit ------------------------------
(***************************************************************************)
(* The gateway's token buckets: RateLimiter.allow on every replica for one *)
(* key, (namespace, model) or (namespace, ToolProvider), while the number  *)
(* of live replicas changes.  A replica's bucket holds its share of the    *)
(* limit and refills at its share per minute.                              *)
(***************************************************************************)
EXTENDS Sums

CONSTANTS
  Replicas,   \* gateway replicas that may be live
  Limit,      \* requestsPerMinute
  Minute,     \* ticks in a minute
  Grain       \* parts of a token per tick of a minute

VARIABLES
  live,      \* the live replicas
  seen,      \* per replica, how many its Pod informer counts
  bucket,    \* per replica, its bucket once one exists
  steady,    \* ghost: ticks since a replica count changed, up to a minute
  allowed    \* ghost: per replica, requests its process allowed so many ticks ago

vars == <<live, seen, bucket, steady, allowed>>

\* Tokens are counted in parts, so that shares and refills are whole numbers
\* whatever the number of replicas.
RateLimitAssumption ==
  /\ IsFiniteSet(Replicas) /\ Limit \in Nat \ {0} /\ Minute \in Nat \ {0}
  /\ Grain \in Nat \ {0} /\ \A n \in 1..Cardinality(Replicas) : Grain % n = 0
Token == Minute * Grain
Lesser(a, b) == IF a <= b THEN a ELSE b
NoBucket == [tokens |-> 0, age |-> -1]

\* Mutant: every replica takes the whole limit.
ShareUndivided(r) == Limit * Token

\* perReplica.
Share(r) == (Limit * Token) \div (IF seen[r] < 1 THEN 1 ELSE seen[r])

\* The bucket's tokens now: a first use finds it full, a later one refills by the
\* time since the last refill, capped at the share of today.
Refilled(r) ==
  IF bucket[r] = NoBucket THEN Share(r)
  ELSE Lesser(Share(r), bucket[r].tokens + (bucket[r].age * Share(r)) \div Minute)

\* allow takes a token, or refuses; both keep the refill.
Allow(r) ==
  /\ r \in live
  /\ LET tokens == Refilled(r)
         ok == tokens >= Token
     IN /\ bucket' = [bucket EXCEPT ![r] =
             [tokens |-> IF ok THEN tokens - Token ELSE tokens, age |-> 0]]
        /\ allowed' = IF ok THEN [allowed EXCEPT ![r][0] = @ + 1] ELSE allowed
  /\ UNCHANGED <<live, seen, steady>>

\* Time passes; what was allowed a minute ago leaves the window.
Tick ==
  /\ bucket' = [r \in Replicas |->
       IF bucket[r] = NoBucket THEN NoBucket
       ELSE [bucket[r] EXCEPT !.age = Lesser(@ + 1, Minute)]]
  /\ steady' = Lesser(steady + 1, Minute)
  /\ allowed' = [r \in Replicas |-> [t \in 0..(Minute - 1) |->
                   IF t = 0 THEN 0 ELSE allowed[r][t - 1]]]
  /\ UNCHANGED <<live, seen>>

\* A replica starts, with no buckets and a synced informer, or stops.
Scale(r) ==
  /\ live' = IF r \in live THEN live \ {r} ELSE live \cup {r}
  /\ seen' = [seen EXCEPT ![r] = Cardinality(live')]
  /\ bucket' = [bucket EXCEPT ![r] = NoBucket]
  /\ allowed' = [allowed EXCEPT ![r] = [t \in 0..(Minute - 1) |-> 0]]
  /\ steady' = 0

\* A replica's Pod informer catches up with the others' coming and going.
Observe(r) ==
  /\ seen[r] # Cardinality(live)
  /\ seen' = [seen EXCEPT ![r] = Cardinality(live)]
  /\ steady' = 0
  /\ UNCHANGED <<live, bucket, allowed>>

Init ==
  /\ live = Replicas
  /\ seen = [r \in Replicas |-> Cardinality(Replicas)]
  /\ bucket = [r \in Replicas |-> NoBucket]
  /\ steady = Minute
  /\ allowed = [r \in Replicas |-> [t \in 0..(Minute - 1) |-> 0]]

Next == Tick \/ \E r \in Replicas : Allow(r) \/ Scale(r) \/ Observe(r)
Spec == Init /\ [][Next]_vars

-----------------------------------------------------------------------------
Settled == steady = Minute /\ \A r \in live : seen[r] = Cardinality(live)
LastMinute(r) == Total(allowed[r], 0..(Minute - 1))

\* The bound the documentation of the limiter gives: in any minute a replica lets
\* through at most its refill and one full bucket, so all of them together stay
\* within twice the limit, as long as the replicas have not changed meanwhile.
MinuteBound ==
  Settled => Total([r \in live |-> LastMinute(r)], live) <= 2 * Limit
=============================================================================
