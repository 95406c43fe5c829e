-------------------------- MODULE LLMRequestProofs --------------------------
(***************************************************************************)
(* Theorems about LLMRequest, for any catalogue, any requests and any      *)
(* fallback depth: the walk implements RequestOutcome, and the answer of a *)
(* walk that failed names its cause.                                       *)
(***************************************************************************)
EXTENDS LLMRequest, FiniteSetTheorems, TLAPS

Hows == {"started", "connect", "cut", "timeout", "upstream", "ok", "rejected", "budget",
         "unavailable"}
Tries == [p : Providers, how : Hows, model : Models]
Frames == [p : Providers, stage : {"enter", "attempt", "children"},
           model : Models \cup {NoModel}, i : Nat \ {0}]
Stages == {"route", "admit", "rate", "walk", "relay", "reject", "done"}
AllAsks == [path : Paths, chain : Chains, primary : Providers, model : Models,
            translatable : BOOLEAN]
Answers == Providers \cup Denials \cup Exhaustions \cup {"none"}
Handlers == [at : Stages, ask : AllAsks, model : Models, stack : Seq(Frames),
             visited : SUBSET Providers, observed : SUBSET Hows, tries : Seq(Tries),
             modelFor : [Providers -> Models \cup {NoModel}], usage : Nat, answer : Answers]

TypeOK ==
  /\ catalogue \in Catalogues
  /\ req \in [Requests -> Handlers]
  /\ slot \in [Providers -> Requests \cup {Free}]

-----------------------------------------------------------------------------
(* The inductive invariant, over the local state h of a handler *)

\* One answer, at the end.
AnsweredOnce(h) == h.answer = "none" <=> h.at # "done"

\* The walk: only the frame at the top is not waiting for its children; every
\* provider tried has been visited; the primary is tried first, and an attempt
\* under way is the last try.
Walk(h) ==
  /\ h.stack # <<>>
  /\ \A i \in 1..Len(h.stack) : h.stack[i].p \in DOMAIN catalogue
  /\ \A i \in 1..Len(h.stack) : i # Len(h.stack) => h.stack[i].stage = "children"
  /\ h.tries = <<>> =>
       /\ Len(h.stack) = 1 /\ Last(h.stack).stage = "enter"
       /\ Last(h.stack).p = h.ask.primary
  /\ h.tries # <<>> => h.ask.primary \in h.visited
  /\ Last(h.stack).stage = "attempt" => h.tries # <<>> /\ Last(h.tries).p = Last(h.stack).p
  /\ \A i \in 1..Len(h.stack) : h.stack[i].stage = "children" => h.stack[i].model # NoModel
Shape(h) ==
  /\ h.at \in {"route", "admit", "rate"} => h.tries = <<>>
  /\ h.at \in {"relay", "reject"} => h.tries # <<>>
  /\ h.at \notin {"route", "done"} => h.ask.primary \in DOMAIN catalogue
  /\ h.at = "walk" => Walk(h)
  /\ \A i \in 1..Len(h.tries) : h.tries[i].p \in h.visited

\* The only slot a handler may hold: the primary's before the walk, that of the
\* attempt under way, and the winner's during the relay.
MayHold(h, p) ==
  \/ h.at = "rate" /\ p = h.ask.primary
  \/ h.at = "walk" /\ h.tries = <<>> /\ p = h.ask.primary
  \/ h.at = "walk" /\ h.tries # <<>> /\ Last(h.stack).stage = "attempt" /\ p = Last(h.stack).p
  \/ h.at \in {"relay", "reject"} /\ p = Last(h.tries).p

IInv ==
  /\ TypeOK
  /\ \A q \in Requests : AnsweredOnce(req[q]) /\ Shape(req[q])
  /\ \A q \in Requests, p \in Providers : slot[p] = q => MayHold(req[q], p)

-----------------------------------------------------------------------------
(* Charging *)

\* Usage is read by relays only, no more than the bound, and is charged in full.
\* Nothing else of the handlers matters here.
Reading(h) ==
  /\ {"at", "tries", "usage"} \subseteq DOMAIN h
  /\ h.usage \in 0..MaxUsage
  /\ h.at \notin {"relay", "done"} => h.usage = 0
ChargeInv ==
  /\ DOMAIN req = Requests /\ \A q \in Requests : Reading(req[q])
  /\ ledger \in [Providers -> Nat] /\ metered \in [Providers -> Nat]
  /\ ChargedWhatWasRead

LEMMA UnbilledFinite ==
  ASSUME NEW p PROVE IsFiniteSet(Unbilled(p)) /\ Cardinality(Unbilled(p)) \in Nat
<1>1. IsFiniteSet(Requests) /\ IsFiniteSet(1..MaxUsage)
  BY FS_Interval, LLMRequestAssumption
<1>2. IsFiniteSet(Requests \X (1..MaxUsage))
  BY Zenon, <1>1, FS_Product
<1>3. Unbilled(p) \subseteq Requests \X (1..MaxUsage)
  BY DEF Unbilled
<1> QED
  BY <1>2, <1>3, FS_Subset, FS_CardinalityType

\* A step of q that leaves the counters alone and is not within a relay.
LEMMA NotRelaying ==
  ASSUME ChargeInv, NEW q \in Requests, req[q].at \notin {"relay", "done"},
         DOMAIN req' = Requests, \A r \in Requests : r # q => req'[r] = req[r],
         DOMAIN req'[q] = DOMAIN req[q], req'[q].usage = req[q].usage,
         ledger' = ledger, metered' = metered
  PROVE  ChargeInv'
<1>1. req'[q].usage = 0 /\ MaxUsage \in Nat
  BY LLMRequestAssumption DEF ChargeInv, Reading
<1>2. ASSUME NEW p PROVE Unbilled(p)' = Unbilled(p)
  <2>1. ASSUME NEW u \in Requests \X (1..MaxUsage)
        PROVE  (req[u[1]].at = "relay" /\ Winner(u[1]) = p /\ u[2] <= req[u[1]].usage)'
                 <=> req[u[1]].at = "relay" /\ Winner(u[1]) = p /\ u[2] <= req[u[1]].usage
    <3>1. u[1] \in Requests /\ u[2] \in 1..MaxUsage
      OBVIOUS
    <3>2. CASE u[1] = q
      BY <1>1, <3>1, <3>2
    <3>3. CASE u[1] # q
      BY <1>1, <3>1, <3>3 DEF Winner
    <3> QED
      BY <3>2, <3>3
  <2> QED
    BY Zenon, <2>1 DEF Unbilled
<1>3. ChargedWhatWasRead'
  BY Zenon, <1>2 DEF ChargeInv, ChargedWhatWasRead
<1>4. \A r \in Requests : Reading(req'[r])
  BY <1>1 DEF ChargeInv, Reading
<1> QED
  BY <1>3, <1>4 DEF ChargeInv

\* The deferred settle charges nothing.
LEMMA NothingSettled ==
  ASSUME ledger \in [Providers -> Nat], NEW q, NEW p, SettleSlot(q, p, 0)
  PROVE  ledger' = ledger
BY DEF SettleSlot

LEMMA ReturnCharges ==
  ASSUME ledger \in [Providers -> Nat], NEW q, NEW answer, Return(q, answer)
  PROVE  /\ ledger' = ledger
         /\ req' = [req EXCEPT ![q].at = "done", ![q].answer = answer, ![q].stack = <<>>]
BY Zenon, NothingSettled DEF Return

\* Every action but the two of the relay leaves the usage and the counters alone.
LEMMA QuietSteps ==
  ASSUME ChargeInv, NEW q \in Requests,
         \/ Route(q) \/ AdmitPrimary(q) \/ TakeToken(q)
         \/ Skip(q) \/ EnterPrimary(q) \/ EnterFallback(q)
         \/ AttemptFails(q) \/ AttemptAnswers(q) \/ NextChild(q) \/ RelayError(q)
  PROVE  ChargeInv'
<1>1. ledger \in [Providers -> Nat]
  BY DEF ChargeInv
<1>2. req[q].at \notin {"relay", "done"}
  BY Zenon DEF Route, AdmitPrimary, TakeToken, Skip, Entering, EnterPrimary, EnterFallback,
         AttemptFails, AttemptAnswers, Forwarding, NextChild, RelayError
<1>3. ledger' = ledger /\ metered' = metered
  BY Zenon, <1>1, NothingSettled, ReturnCharges
     DEF Route, AdmitPrimary, TakeToken, Skip, NotOk, EnterPrimary, EnterFallback,
         AttemptFails, AttemptAnswers, NextChild, RelayError
<1>4. DOMAIN req = Requests /\ "usage" \in DOMAIN req[q]
  BY DEF ChargeInv, Reading
<1> DEFINE Quiet == /\ DOMAIN req' = Requests /\ DOMAIN req'[q] = DOMAIN req[q]
                    /\ req'[q].usage = req[q].usage
                    /\ \A r \in Requests : r # q => req'[r] = req[r]
<1>5. Quiet
  <2>1. CASE \E answer : Return(q, answer)
    BY <1>4, <2>1 DEF Return
  <2>2. CASE Route(q)
    BY <1>4, <2>1, <2>2 DEF Route
  <2>3. CASE AdmitPrimary(q)
    BY <1>4, <2>1, <2>3 DEF AdmitPrimary
  <2>4. CASE TakeToken(q)
    BY <1>4, <2>1, <2>4 DEF TakeToken
  <2>5. CASE Skip(q)
    BY <1>4, <2>1, <2>5 DEF Skip, NotOk
  <2>6. CASE NextChild(q)
    <3>1. CASE NotOk(q, req[q].visited)
      BY <1>4, <2>1, <3>1 DEF NotOk
    <3>2. CASE ~NotOk(q, req[q].visited)
      <4>1. PICK to, m, s, t : req' = [req EXCEPT ![q] =
              IF Exists(to) THEN [req[q] EXCEPT !.stack = s, !.modelFor[to] = m]
              ELSE [req[q] EXCEPT !.stack = t]]
        BY Zenon, <2>6, <3>2 DEF NextChild
      <4>2. CASE Exists(to)
        BY <1>4, <4>1, <4>2
      <4>3. CASE ~Exists(to)
        BY <1>4, <4>1, <4>3
      <4> QED
        BY <4>2, <4>3
    <3> QED
      BY <3>1, <3>2
  <2>7. CASE EnterPrimary(q) \/ EnterFallback(q)
    <3>1. ASSUME NEW how, NEW frame
          PROVE  /\ DOMAIN UseAttempt(q, how, frame) = DOMAIN req[q]
                 /\ UseAttempt(q, how, frame).usage = req[q].usage
      BY <1>4 DEF UseAttempt
    <3>2. PICK how, frame : req' = [req EXCEPT ![q] = UseAttempt(q, how, frame)]
      <4>1. CASE EnterPrimary(q)
        BY Zenon, <4>1 DEF EnterPrimary
      <4>2. CASE EnterFallback(q)
        <5>1. PICK d : req' = [req EXCEPT ![q] =
                         CASE d = "unavailable" -> UseAttempt(q, d, Children(q))
                           [] d \in {"throttled", "block"} ->
                                UseAttempt(q, "budget", Children(q))
                           [] OTHER -> UseAttempt(q, "started", Attempting(q))]
          BY Zenon, <4>2 DEF EnterFallback
        <5> QED
          BY Zenon, <5>1
      <4> QED
        BY <2>7, <4>1, <4>2
    <3> QED
      BY <1>4, <3>1, <3>2
  <2>8. CASE AttemptFails(q)
    <3>1. PICK t, o, s : req' = [req EXCEPT ![q].tries = t, ![q].observed = @ \cup o,
                                            ![q].stack = s]
      BY Zenon, <2>8 DEF AttemptFails
    <3> QED
      BY <1>4, <3>1
  <2>9. CASE AttemptAnswers(q)
    <3>1. PICK how, t : req' = [req EXCEPT ![q].tries = t, ![q].stack = <<>>,
                                           ![q].observed = @ \cup ({how} \ {"ok"}),
                                           ![q].at = IF how = "ok" THEN "relay" ELSE "reject"]
      BY Zenon, <2>9 DEF AttemptAnswers
    <3> QED
      BY <1>4, <3>1
  <2>10. CASE RelayError(q)
    BY <1>4, <2>10 DEF RelayError
  <2> QED
    BY Zenon, <2>2, <2>3, <2>4, <2>5, <2>6, <2>7, <2>8, <2>9, <2>10
<1> QED
  BY <1>2, <1>3, <1>5, NotRelaying

\* Reading one more unit adds it to what is unbilled.
LEMMA ReadsOne ==
  ASSUME ChargeInv, NEW q \in Requests, RelayEvent(q)
  PROVE  ChargeInv'
<1>0. PICK n, w : n = req[q].usage + 1 /\ w = Winner(q)
  OBVIOUS
<1>1. /\ DOMAIN req = Requests /\ {"at", "tries", "usage"} \subseteq DOMAIN req[q]
      /\ req[q].usage \in Nat /\ MaxUsage \in Nat /\ n \in 1..MaxUsage /\ req[q].at = "relay"
      /\ metered \in [Providers -> Nat]
  BY <1>0, LLMRequestAssumption DEF ChargeInv, Reading, RelayEvent
<1>2. /\ ledger' = ledger /\ metered' = [metered EXCEPT ![w] = @ + 1]
      /\ req' = [req EXCEPT ![q].usage = n]
  BY <1>0 DEF RelayEvent
<1>3. /\ DOMAIN req' = Requests /\ \A r \in Requests : r # q => req'[r] = req[r]
      /\ DOMAIN req'[q] = DOMAIN req[q] /\ req'[q].usage = n
      /\ req'[q].at = req[q].at /\ req'[q].tries = req[q].tries
  BY <1>1, <1>2
<1>4. \A r \in Requests : Winner(r)' = Winner(r) /\ req'[r].at = req[r].at
  BY <1>3 DEF Winner
<1>5. <<q, n>> \notin Unbilled(w)
  BY <1>0, <1>1 DEF Unbilled
<1>6. Unbilled(w)' = Unbilled(w) \cup {<<q, n>>}
  <2>1. ASSUME NEW u \in Requests \X (1..MaxUsage)
        PROVE  u \in Unbilled(w)' <=> u \in Unbilled(w) \/ u = <<q, n>>
    <3>1. u[1] \in Requests /\ u[2] \in 1..MaxUsage /\ u = <<u[1], u[2]>>
      OBVIOUS
    <3>2. CASE u[1] # q
      <4>1. u # <<q, n>> /\ req'[u[1]] = req[u[1]] /\ Winner(u[1])' = Winner(u[1])
        BY <1>3, <1>4, <3>1, <3>2
      <4> QED
        BY Zenon, <4>1 DEF Unbilled
    <3>3. CASE u[1] = q
      <4>1. u[2] <= n <=> u[2] <= req[q].usage \/ u[2] = n
        BY <1>0, <1>1, <3>1
      <4> QED
        BY <1>0, <1>1, <1>3, <1>4, <3>1, <3>3, <4>1 DEF Unbilled
    <3> QED
      BY <3>2, <3>3
  <2>2. <<q, n>> \in Requests \X (1..MaxUsage)
    BY <1>1
  <2> QED
    BY <2>1, <2>2 DEF Unbilled
<1>7. ASSUME NEW p, p # w PROVE Unbilled(p)' = Unbilled(p)
  <2>1. ASSUME NEW u \in Requests \X (1..MaxUsage)
        PROVE  u \in Unbilled(p)' <=> u \in Unbilled(p)
    <3>1. u[1] \in Requests
      OBVIOUS
    <3>2. CASE u[1] # q
      BY <1>3, <1>4, <3>1, <3>2 DEF Unbilled
    <3>3. CASE u[1] = q
      BY <1>0, <1>4, <1>7, <3>1, <3>3 DEF Unbilled
    <3> QED
      BY <3>2, <3>3
  <2> QED
    BY <2>1 DEF Unbilled
<1>8. Cardinality(Unbilled(w) \cup {<<q, n>>}) = Cardinality(Unbilled(w)) + 1
  BY Zenon, <1>5, UnbilledFinite, FS_AddElement
<1>9. ChargedWhatWasRead'
  <2> SUFFICES ASSUME NEW p \in Providers
               PROVE  metered'[p] = ledger[p] + Cardinality(Unbilled(p)')
    BY <1>2 DEF ChargedWhatWasRead
  <2>1. /\ metered[p] = ledger[p] + Cardinality(Unbilled(p)) /\ metered[p] \in Nat
        /\ ledger[p] \in Nat /\ Cardinality(Unbilled(p)) \in Nat
    BY UnbilledFinite DEF ChargeInv, ChargedWhatWasRead
  <2>2. CASE p = w
    <3>1. metered'[w] = metered[w] + 1
      BY <1>1, <1>2, <2>1, <2>2
    <3>2. Cardinality(Unbilled(w)') = Cardinality(Unbilled(w)) + 1
      BY Zenon, <1>6, <1>8
    <3> QED
      BY <2>1, <2>2, <3>1, <3>2
  <2>3. CASE p # w
    <3>1. metered'[p] = metered[p]
      BY <1>1, <1>2, <2>3
    <3> QED
      BY <1>7, <2>1, <2>3, <3>1
  <2> QED
    BY <2>2, <2>3
<1>10. \A r \in Requests : Reading(req'[r])
  BY <1>1, <1>3 DEF ChargeInv, Reading
<1>11. metered' \in [Providers -> Nat]
  <2>1. metered' = [p \in Providers |-> IF p = w THEN metered[p] + 1 ELSE metered[p]]
    BY Zenon, <1>1, <1>2
  <2> QED
    BY <1>1, <2>1
<1> QED
  BY <1>2, <1>3, <1>9, <1>10, <1>11 DEF ChargeInv

\* The end of a relay charges what it had read, and nothing else.
LEMMA ChargesAll ==
  ASSUME ChargeInv, NEW q \in Requests, RelayEnd(q)
  PROVE  ChargeInv'
<1>0. PICK n, w : n = req[q].usage /\ w = Winner(q)
  OBVIOUS
<1> DEFINE read == {q} \X (1..n)
<1>1. /\ DOMAIN req = Requests /\ {"at", "tries", "usage"} \subseteq DOMAIN req[q]
      /\ n \in Nat /\ MaxUsage \in Nat /\ n <= MaxUsage /\ req[q].at = "relay"
      /\ ledger \in [Providers -> Nat]
  BY <1>0, LLMRequestAssumption DEF ChargeInv, Reading, RelayEnd
<1>2. /\ ledger' = [ledger EXCEPT ![w] = @ + n] /\ metered' = metered
      /\ req' = [req EXCEPT ![q].at = "done", ![q].answer = w]
  BY Zenon, <1>0 DEF RelayEnd, SettleSlot
<1>3. /\ DOMAIN req' = Requests /\ \A r \in Requests : r # q => req'[r] = req[r]
      /\ DOMAIN req'[q] = DOMAIN req[q] /\ req'[q].at = "done" /\ req'[q].usage = n
  BY <1>0, <1>1, <1>2
<1>4. \A r \in Requests : r # q => Winner(r)' = Winner(r)
  BY <1>3 DEF Winner
<1>5. read \subseteq Unbilled(w)
  BY <1>0, <1>1 DEF Unbilled
<1>6. ASSUME NEW p, NEW u \in Requests \X (1..MaxUsage)
      PROVE  u \in Unbilled(p)' <=> u \in Unbilled(p) /\ u[1] # q
  <2>1. u[1] \in Requests
    OBVIOUS
  <2> QED
    BY <1>3, <1>4, <2>1 DEF Unbilled
<1>7. Unbilled(w)' = Unbilled(w) \ read
  <2>1. ASSUME NEW u \in Unbilled(w) PROVE u[1] = q <=> u \in read
    BY <1>0, <1>1 DEF Unbilled
  <2>2. /\ Unbilled(w) \subseteq Requests \X (1..MaxUsage)
        /\ Unbilled(w)' \subseteq Requests \X (1..MaxUsage)
    BY DEF Unbilled
  <2>3. ASSUME NEW u PROVE u \in Unbilled(w)' <=> u \in Unbilled(w) /\ u \notin read
    <3> HIDE DEF read
    <3> QED
      BY Zenon, <1>6, <2>1, <2>2
  <2> QED
    BY Zenon, <2>3
<1>8. ASSUME NEW p, p # w PROVE Unbilled(p)' = Unbilled(p)
  <2>1. ASSUME NEW u \in Unbilled(p) PROVE u[1] # q
    BY <1>0, <1>8 DEF Unbilled
  <2>2. /\ Unbilled(p) \subseteq Requests \X (1..MaxUsage)
        /\ Unbilled(p)' \subseteq Requests \X (1..MaxUsage)
    BY DEF Unbilled
  <2>3. ASSUME NEW u PROVE u \in Unbilled(p)' <=> u \in Unbilled(p)
    BY Zenon, <1>6, <2>1, <2>2
  <2> QED
    BY Zenon, <2>3
<1>9. IsFiniteSet(read) /\ Cardinality(read) = n
  <2>1. IsFiniteSet({q}) /\ Cardinality({q}) = 1
    BY Zenon, FS_Singleton
  <2>2. IsFiniteSet(1..n) /\ Cardinality(1..n) = n
    BY <1>1, FS_Interval
  <2>3. IsFiniteSet(read) /\ Cardinality(read) = Cardinality({q}) * Cardinality(1..n)
    BY Zenon, <2>1, <2>2, FS_Product
  <2> QED
    BY <1>1, <2>1, <2>2, <2>3
<1>10. Cardinality(Unbilled(w)') = Cardinality(Unbilled(w)) - n
  <2>1. Unbilled(w) \cap read = read
    BY <1>5
  <2>2. Cardinality(Unbilled(w) \ read)
          = Cardinality(Unbilled(w)) - Cardinality(Unbilled(w) \cap read)
    BY Zenon, UnbilledFinite, FS_Difference
  <2> QED
    BY Zenon, <1>7, <1>9, <2>1, <2>2
<1> HIDE DEF read
<1>11. ChargedWhatWasRead'
  <2> SUFFICES ASSUME NEW p \in Providers
               PROVE  metered[p] = ledger'[p] + Cardinality(Unbilled(p)')
    BY <1>2 DEF ChargedWhatWasRead
  <2>1. /\ metered[p] = ledger[p] + Cardinality(Unbilled(p)) /\ metered[p] \in Nat
        /\ ledger[p] \in Nat /\ Cardinality(Unbilled(p)) \in Nat
    BY UnbilledFinite DEF ChargeInv, ChargedWhatWasRead
  <2>2. CASE p = w
    <3>1. ledger'[w] = ledger[w] + n
      BY <1>1, <1>2, <2>2
    <3> QED
      BY <1>1, <1>10, <2>1, <2>2, <3>1
  <2>3. CASE p # w
    <3>1. ledger'[p] = ledger[p]
      BY <1>1, <1>2, <2>3
    <3> QED
      BY <1>8, <2>1, <2>3, <3>1
  <2> QED
    BY <2>2, <2>3
<1>12. \A r \in Requests : Reading(req'[r])
  BY <1>1, <1>3 DEF ChargeInv, Reading
<1>13. ledger' \in [Providers -> Nat] /\ metered' \in [Providers -> Nat]
  <2>1. ledger' = [p \in Providers |-> IF p = w THEN ledger[p] + n ELSE ledger[p]]
    BY Zenon, <1>1, <1>2
  <2>2. ledger' \in [Providers -> Nat]
    BY <1>1, <2>1
  <2> QED
    BY Zenon, <1>2, <2>2 DEF ChargeInv
<1> QED
  BY <1>3, <1>11, <1>12, <1>13 DEF ChargeInv

LEMMA ChargeStarts == ASSUME Init PROVE ChargeInv
<1>1. /\ ledger = [p \in Providers |-> 0] /\ metered = [p \in Providers |-> 0]
      /\ MaxUsage \in Nat
  BY LLMRequestAssumption DEF Init
<1>2. PICK asks : req = [q \in Requests |-> NewRequest(asks[q])]
  BY Zenon DEF Init
<1>3. ASSUME NEW q \in Requests PROVE Reading(req[q]) /\ req[q].at = "route"
  <2>1. req[q] = NewRequest(asks[q])
    BY Zenon, <1>2
  <2> QED
    BY <1>1, <2>1 DEF NewRequest, Reading
<1>4. \A p : Unbilled(p) = {}
  BY <1>3 DEF Unbilled
<1>5. ChargedWhatWasRead
  BY <1>1, <1>4, FS_EmptySet DEF ChargedWhatWasRead
<1> QED
  BY <1>1, <1>2, <1>3, <1>5 DEF ChargeInv

LEMMA ChargeKeeps == ASSUME ChargeInv, [Next]_vars PROVE ChargeInv'
<1>1. CASE UNCHANGED vars
  BY <1>1 DEF vars, ChargeInv, Reading, ChargedWhatWasRead, Unbilled, Winner
<1>2. CASE \E q \in Requests : Handle(q)
  BY Zenon, <1>2, QuietSteps, ReadsOne, ChargesAll DEF Handle
<1> QED
  BY <1>1, <1>2 DEF Next, Finished

\* writeWalkResult and the settle functions, for any catalogue and requests: what
\* a provider is charged is the usage read from the responses it served, once,
\* through the slot or without it, also when a relay breaks off.
THEOREM ChargedInFull == Spec => []ChargedWhatWasRead
<1>1. ChargeInv => ChargedWhatWasRead
  BY DEF ChargeInv
<1>2. Init => ChargeInv
  BY ChargeStarts
<1>3. ChargeInv /\ [Next]_vars => ChargeInv'
  BY ChargeKeeps
<1> QED
  BY <1>1, <1>2, <1>3, PTL DEF Spec

-----------------------------------------------------------------------------
(* Stacks and tries *)

LEMMA SeqAsFunction ==
  ASSUME NEW S, NEW s \in Seq(S) PROVE s \in [1..Len(s) -> S] /\ Len(s) \in Nat
OBVIOUS

LEMMA FunctionAsSeq ==
  ASSUME NEW S, NEW n \in Nat, NEW s \in [1..n -> S] PROVE s \in Seq(S) /\ Len(s) = n
OBVIOUS

LEMMA TopOf ==
  ASSUME NEW S, NEW s \in Seq(S), s # <<>>
  PROVE  Len(s) \in Nat /\ Len(s) >= 1 /\ Last(s) \in S
BY DEF Last

LEMMA EndOf ==
  ASSUME NEW S, NEW s \in Seq(S), NEW n \in Nat, n >= 1, Len(s) = n
  PROVE  s # <<>> /\ Last(s) = s[n]
BY DEF Last

IsReplaced(t, S, s, x) ==
  /\ t \in Seq(S) /\ t # <<>> /\ Len(t) = Len(s) /\ Last(t) = x
  /\ \A i \in 1..Len(s) : i # Len(s) => t[i] = s[i]

LEMMA Replaced ==
  ASSUME NEW S, NEW s \in Seq(S), s # <<>>, NEW x \in S, NEW t, t = [s EXCEPT ![Len(s)] = x]
  PROVE  IsReplaced(t, S, s, x)
<1>1. Len(s) \in Nat /\ Len(s) >= 1
  BY TopOf
<1>2. /\ t \in [1..Len(s) -> S]
      /\ t[Len(s)] = x /\ \A i \in 1..Len(s) : i # Len(s) => t[i] = s[i]
  BY <1>1, SeqAsFunction
<1>3. t \in Seq(S) /\ Len(t) = Len(s)
  BY Zenon, <1>1, <1>2, FunctionAsSeq
<1>4. t # <<>> /\ Last(t) = t[Len(s)]
  BY Zenon, <1>1, <1>3, EndOf
<1> QED
  BY <1>2, <1>3, <1>4, Zenon DEF IsReplaced

IsAppended(t, S, s, x) ==
  /\ t \in Seq(S) /\ t # <<>> /\ Len(t) = Len(s) + 1 /\ Last(t) = x
  /\ \A i \in 1..Len(s) : t[i] = s[i]

LEMMA Appended ==
  ASSUME NEW S, NEW s \in Seq(S), NEW x \in S, NEW t, t = Append(s, x)
  PROVE  IsAppended(t, S, s, x)
BY DEF Last, IsAppended

IsPopped(t, S, s) ==
  /\ t \in Seq(S) /\ t # <<>> /\ Len(t) = Len(s) - 1 /\ Last(t) = s[Len(s) - 1]
  /\ \A i \in 1..(Len(s) - 1) : t[i] = s[i]

LEMMA Popped ==
  ASSUME NEW S, NEW s \in Seq(S), Len(s) > 1, NEW t, t = SubSeq(s, 1, Len(s) - 1)
  PROVE  IsPopped(t, S, s)
<1>1. Len(s) \in Nat
  OBVIOUS
<1>2. t \in Seq(S) /\ Len(t) = Len(s) - 1 /\ \A i \in 1..(Len(s) - 1) : t[i] = s[i]
  BY <1>1
<1>3. Len(s) - 1 \in Nat /\ Len(s) - 1 >= 1
  BY <1>1
<1>4. t # <<>> /\ Last(t) = t[Len(s) - 1]
  BY ZenonT(30), <1>2, <1>3, EndOf
<1> QED
  BY <1>2, <1>3, <1>4 DEF IsPopped

-----------------------------------------------------------------------------
(* A step of one handler *)

\* The handler q becomes new; slots change hands between it and nobody.
Moves(q, new) ==
  /\ UNCHANGED catalogue
  /\ req' = [req EXCEPT ![q] = new]
  /\ slot' \in [Providers -> Requests \cup {Free}]
  /\ \A p \in Providers, other \in Requests : other # q => (slot'[p] = other <=> slot[p] = other)

LEMMA HandlerStep ==
  ASSUME IInv, NEW q \in Requests, NEW new \in Handlers, Moves(q, new),
         AnsweredOnce(new), Shape(new),
         \A p \in Providers : slot'[p] = q => MayHold(new, p)
  PROVE  IInv'
<1>1. /\ req'[q] = new /\ \A other \in Requests : other # q => req'[other] = req[other]
      /\ req' \in [Requests -> Handlers]
  BY DEF IInv, TypeOK, Moves
<1>2. TypeOK'
  BY <1>1 DEF IInv, TypeOK, Moves
<1>3. ASSUME NEW o \in Requests PROVE (AnsweredOnce(req[o]) /\ Shape(req[o]))'
  <2>1. CASE o = q
    BY ZenonT(60), <1>1, <2>1 DEF Moves, AnsweredOnce, Shape, Walk
  <2>2. CASE o # q
    <3>1. /\ req'[o] = req[o] /\ UNCHANGED catalogue
          /\ AnsweredOnce(req[o]) /\ Shape(req[o])
      BY Zenon, <1>1, <2>2 DEF IInv, Moves
    <3>2. AnsweredOnce(req[o])'
      BY <3>1 DEF AnsweredOnce
    <3>3. Walk(req[o])' <=> Walk(req[o])
      BY <3>1 DEF Walk
    <3>4. Shape(req[o])'
      BY ZenonT(30), <3>1, <3>3 DEF Shape
    <3> QED
      BY <3>2, <3>4
  <2> QED
    BY <2>1, <2>2
<1>4. ASSUME NEW o \in Requests, NEW p \in Providers, slot'[p] = o PROVE MayHold(req[o], p)'
  <2>1. CASE o = q
    BY <1>1, <1>4, <2>1 DEF MayHold
  <2>2. CASE o # q
    BY <1>1, <1>4, <2>2 DEF IInv, Moves, MayHold
  <2> QED
    BY <2>1, <2>2
<1> QED
  BY <1>2, <1>3, <1>4 DEF IInv

\* What RequestOutcome sees of a handler.
TriedOf(h) == [i \in DOMAIN h.tries |-> h.tries[i].p]
Word(a) == CASE a \in Providers \cup {"none"} -> a
             [] a \in Exhaustions -> "exhausted"
             [] OTHER -> "denied"
T == [q \in Requests |-> TriedBy(q)]
H == [q \in Requests |-> HeldBy(q)]
A == [q \in Requests |-> AnswerOf(q)]

\* What a step of q looks like to RequestOutcome.
MapsTo(q, new) ==
  /\ T' = [T EXCEPT ![q] = TriedOf(new)]
  /\ H' = [H EXCEPT ![q] = HeldBy(q)']
  /\ A' = [A EXCEPT ![q] = Word(new.answer)]
  /\ T[q] = TriedOf(req[q]) /\ A[q] = Word(req[q].answer)
  /\ \A o \in Requests : H[o] = HeldBy(o)
  /\ T = [o \in Requests |-> T[o]] /\ H = [o \in Requests |-> H[o]]
  /\ A = [o \in Requests |-> A[o]]

LEMMA Mapped ==
  ASSUME IInv, NEW q \in Requests, NEW new \in Handlers, Moves(q, new)
  PROVE  MapsTo(q, new)
<1>1. /\ req'[q] = new /\ \A other \in Requests : other # q => req'[other] = req[other]
  BY DEF IInv, TypeOK, Moves
<1>2. T' = [T EXCEPT ![q] = TriedOf(new)]
  <2>1. TriedBy(q)' = TriedOf(new)
    BY <1>1 DEF TriedBy, TriedOf
  <2>2. ASSUME NEW o \in Requests, o # q PROVE TriedBy(o)' = TriedBy(o)
    BY <1>1, <2>2 DEF TriedBy
  <2> QED
    BY Zenon, <2>1, <2>2 DEF T
<1>3. A' = [A EXCEPT ![q] = Word(new.answer)]
  <2>1. AnswerOf(q)' = Word(new.answer)
    BY <1>1 DEF AnswerOf, Word
  <2>2. ASSUME NEW o \in Requests, o # q PROVE AnswerOf(o)' = AnswerOf(o)
    BY <1>1, <2>2 DEF AnswerOf
  <2> QED
    BY Zenon, <2>1, <2>2 DEF A
<1>4. H' = [H EXCEPT ![q] = HeldBy(q)']
  <2>1. ASSUME NEW o \in Requests, o # q PROVE HeldBy(o)' = HeldBy(o)
    BY <2>1 DEF HeldBy, Moves
  <2> QED
    BY Zenon, <2>1 DEF H
<1>5. T[q] = TriedOf(req[q]) /\ A[q] = Word(req[q].answer)
  BY DEF T, A, TriedBy, TriedOf, AnswerOf, Word
<1>6. /\ \A o \in Requests : H[o] = HeldBy(o)
      /\ T = [o \in Requests |-> T[o]] /\ H = [o \in Requests |-> H[o]]
      /\ A = [o \in Requests |-> A[o]]
  BY DEF T, A, H
<1> QED
  BY <1>2, <1>3, <1>4, <1>5, <1>6 DEF MapsTo

\* The steps of RequestOutcome.  What it does not see:
LEMMA Stutters ==
  ASSUME IInv, NEW q \in Requests, NEW new \in Handlers, Moves(q, new),
         TriedOf(new) = TriedOf(req[q]), new.answer = req[q].answer,
         \A p \in Providers : slot'[p] = q <=> slot[p] = q
  PROVE  UNCHANGED Outcomes!vars
<1>m. MapsTo(q, new)
  BY Mapped
<1>1. T' = T /\ A' = A
  BY Zenon, <1>m DEF MapsTo
<1>2. H' = H
  <2>1. HeldBy(q)' = HeldBy(q)
    BY DEF HeldBy
  <2> QED
    BY Zenon, <1>m, <2>1 DEF MapsTo
<1> QED
  BY <1>1, <1>2 DEF Outcomes!vars, T, A, H

\* The one answer, after which nothing is held.
LEMMA Answers1 ==
  ASSUME IInv, NEW q \in Requests, NEW new \in Handlers, Moves(q, new),
         req[q].at # "done", new.tries = req[q].tries,
         \A p \in Providers : slot'[p] # q,
         \/ new.answer \in Denials /\ req[q].tries = <<>>
         \/ new.answer \in Exhaustions
         \/ req[q].tries # <<>> /\ new.answer = Last(req[q].tries).p
  PROVE  Outcomes!Answer(q)
<1> DEFINE a == Word(new.answer)
           tried == {T[q][i] : i \in DOMAIN T[q]}
<1>m. MapsTo(q, new)
  BY Mapped
<1>0. req[q].tries \in Seq(Tries)
  BY DEF IInv, TypeOK, Handlers
<1>1. A[q] = "none"
  <2>1. req[q].answer = "none"
    BY DEF IInv, AnsweredOnce
  <2>2. Word("none") = "none"
    BY DEF Word, Exhaustions
  <2> QED
    BY <1>m, <2>1, <2>2 DEF MapsTo
<1>2. T' = T
  <2>1. TriedOf(new) = TriedOf(req[q])
    BY DEF TriedOf
  <2> QED
    BY Zenon, <1>m, <2>1 DEF MapsTo
<1>3. H' = [H EXCEPT ![q] = {}]
  <2>1. HeldBy(q)' = {}
    BY DEF HeldBy
  <2> QED
    BY <1>m, <2>1 DEF MapsTo
<1>4. A' = [A EXCEPT ![q] = a]
  BY <1>m DEF MapsTo
<1>5. T[q] = [i \in 1..Len(req[q].tries) |-> req[q].tries[i].p]
  BY <1>0, <1>m DEF MapsTo, TriedOf
<1>6. /\ a \in {"denied", "exhausted"} \cup tried
      /\ a \in Providers => a = T[q][Len(T[q])]
      /\ a = "denied" => T[q] = <<>>
  <2>1. CASE new.answer \in Denials /\ req[q].tries = <<>>
    <3>1. a = "denied"
      BY <2>1, LLMRequestAssumption DEF Word, Denials, Exhaustions
    <3>2. T[q] = <<>>
      BY <2>1, <1>5
    <3> QED
      BY Zenon, <3>1, <3>2, LLMRequestAssumption
  <2>2. CASE new.answer \in Exhaustions
    <3>1. a = "exhausted"
      BY <2>2, LLMRequestAssumption DEF Word, Exhaustions
    <3> QED
      BY <3>1, LLMRequestAssumption
  <2>3. CASE req[q].tries # <<>> /\ new.answer = Last(req[q].tries).p
    <3>1. Len(req[q].tries) \in Nat /\ Len(req[q].tries) >= 1 /\ Last(req[q].tries) \in Tries
      BY <1>0, <2>3, TopOf
    <3>2. a = Last(req[q].tries).p /\ a \in Providers
      BY <2>3, <3>1, LLMRequestAssumption DEF Word, Tries
    <3>3. Len(T[q]) = Len(req[q].tries)
      BY <1>5, <3>1
    <3>4. a = T[q][Len(T[q])] /\ Len(T[q]) \in DOMAIN T[q]
      BY <1>5, <3>1, <3>2, <3>3 DEF Last
    <3> QED
      BY <3>2, <3>4, LLMRequestAssumption
  <2> QED
    BY <2>1, <2>2, <2>3
<1> HIDE DEF a
<1> QED
  BY Zenon, <1>1, <1>2, <1>3, <1>4, <1>6
     DEF Outcomes!Answer, Outcomes!Tried, Outcomes!NoAnswer, Outcomes!Denied,
         Outcomes!Exhausted, T, H, A

\* The next try, on a provider not tried before.
LEMMA AppendIs ==
  ASSUME NEW S, NEW s \in Seq(S), NEW e \in S, NEW n, n = Len(s)
  PROVE  Append(s, e) = [i \in 1..(n + 1) |-> IF i <= n THEN s[i] ELSE e]
<1>1. n \in Nat /\ DOMAIN s = 1..n
  OBVIOUS
<1>2. DOMAIN Append(s, e) = 1..(n + 1)
  OBVIOUS
<1>3. \A i \in 1..(n + 1) : Append(s, e)[i] = IF i <= n THEN s[i] ELSE e
  BY <1>1
<1>4. PICK f : f = Append(s, e)
  BY Zenon
<1>5. Append(s, e) \in Seq(S) /\ Len(Append(s, e)) = n + 1
  OBVIOUS
<1>6. f \in Seq(S) /\ Len(f) = n + 1
  BY Zenon, <1>4, <1>5
<1>7. f \in [1..Len(f) -> S]
  BY <1>6
<1>8. f \in [1..(n + 1) -> S] /\ \A i \in 1..(n + 1) : f[i] = IF i <= n THEN s[i] ELSE e
  BY Zenon, <1>3, <1>4, <1>6, <1>7
<1>9. f = [i \in 1..(n + 1) |-> IF i <= n THEN s[i] ELSE e]
  BY Zenon, <1>8
<1> QED
  BY Zenon, <1>4, <1>9

LEMMA Tries1 ==
  ASSUME IInv, NEW q \in Requests, NEW new \in Handlers, Moves(q, new),
         req[q].answer = "none", new.answer = "none",
         NEW p \in Providers, \A i \in 1..Len(req[q].tries) : req[q].tries[i].p # p,
         Len(req[q].tries) < MaxFallbackDepth,
         NEW try \in Tries, try.p = p, new.tries = Append(req[q].tries, try),
         \/ HeldBy(q) \subseteq {p} /\ HeldBy(q)' = HeldBy(q)
         \/ HeldBy(q) = {} /\ slot[p] = Free /\ HeldBy(q)' = {p}
  PROVE  Outcomes!Try(q)
<1>m. MapsTo(q, new)
  BY Mapped
<1>0. req[q].tries \in Seq(Tries) /\ new.tries \in Seq(Tries)
  BY DEF IInv, TypeOK, Handlers
<1>1. Word("none") = "none"
  BY DEF Word, Exhaustions
<1>2. A[q] = "none" /\ A' = A
  BY <1>1, <1>m DEF MapsTo
<1>3. /\ T[q] = [i \in 1..Len(req[q].tries) |-> req[q].tries[i].p]
      /\ Len(T[q]) = Len(req[q].tries) /\ DOMAIN T[q] = 1..Len(req[q].tries)
      /\ T[q] \in Seq(Providers)
  <2>1. T[q] = [i \in 1..Len(req[q].tries) |-> req[q].tries[i].p]
    BY <1>0, <1>m DEF MapsTo, TriedOf
  <2>2. \A i \in 1..Len(req[q].tries) : req[q].tries[i].p \in Providers
    <3>1. \A i \in 1..Len(req[q].tries) : req[q].tries[i] \in Tries
      BY <1>0
    <3> QED
      BY <3>1 DEF Tries
  <2> QED
    BY <1>0, <2>1, <2>2
<1>4. TriedOf(new) = Append(T[q], p)
  <2>1. TriedOf(new) = [i \in 1..(Len(req[q].tries) + 1) |-> Append(req[q].tries, try)[i].p]
    BY <1>0 DEF TriedOf
  <2>2. \A i \in 1..(Len(req[q].tries) + 1) :
          Append(req[q].tries, try)[i].p = IF i <= Len(req[q].tries) THEN T[q][i] ELSE p
    <3>1. ASSUME NEW i \in 1..Len(req[q].tries)
          PROVE  /\ Append(req[q].tries, try)[i] = req[q].tries[i] /\ i <= Len(req[q].tries)
                 /\ T[q][i] = req[q].tries[i].p
      BY <1>0, <1>3
    <3>2. /\ Append(req[q].tries, try)[Len(req[q].tries) + 1] = try
          /\ ~(Len(req[q].tries) + 1 <= Len(req[q].tries))
      BY <1>0
    <3>3. \A i \in 1..(Len(req[q].tries) + 1) :
            i \in 1..Len(req[q].tries) \/ i = Len(req[q].tries) + 1
      BY <1>0
    <3> QED
      BY Zenon, <3>1, <3>2, <3>3
  <2>3. Append(T[q], p) = [i \in 1..(Len(req[q].tries) + 1) |->
                            IF i <= Len(req[q].tries) THEN T[q][i] ELSE p]
    <3>1. PICK s, n : s = T[q] /\ n = Len(req[q].tries)
      BY Zenon
    <3>2. s \in Seq(Providers) /\ n = Len(s)
      BY Zenon, <1>3, <3>1
    <3>3. Append(s, p) = [i \in 1..(n + 1) |-> IF i <= n THEN s[i] ELSE p]
      BY <3>2, AppendIs
    <3> QED
      BY Zenon, <3>1, <3>3
  <2> QED
    BY ZenonT(60), <2>1, <2>2, <2>3
<1>5. T' = [T EXCEPT ![q] = Append(@, p)]
  BY ZenonT(60), <1>4, <1>m DEF MapsTo
<1>6. p \in Providers \ {T[q][i] : i \in DOMAIN T[q]}
  BY <1>3
<1>7. \/ H[q] \subseteq {p} /\ H' = H
      \/ /\ H[q] = {} /\ \A other \in Requests : p \notin H[other]
         /\ H' = [H EXCEPT ![q] = {p}]
  <2>1. slot[p] = Free => \A other \in Requests : p \notin HeldBy(other)
    BY Zenon, LLMRequestAssumption DEF HeldBy
  <2> QED
    BY Zenon, <1>m, <2>1 DEF MapsTo
<1> QED
  BY ZenonT(30), <1>2, <1>3, <1>5, <1>6, <1>7
     DEF Outcomes!Try, Outcomes!Tried, Outcomes!NoAnswer, Outcomes!Grant, T, H, A

\* The primary's slot, before the walk.
LEMMA Admits1 ==
  ASSUME IInv, NEW q \in Requests, NEW new \in Handlers, Moves(q, new),
         req[q].answer = "none", new.answer = "none",
         req[q].tries = <<>>, new.tries = <<>>, HeldBy(q) = {},
         NEW p \in Providers, slot[p] = Free, HeldBy(q)' = {p}
  PROVE  Outcomes!Admit(q)
<1>m. MapsTo(q, new)
  BY Mapped
<1>1. Word("none") = "none"
  BY DEF Word, Exhaustions
<1>2. A[q] = "none" /\ A' = A
  BY <1>1, <1>m DEF MapsTo
<1>3. TriedOf(new) = <<>> /\ TriedOf(req[q]) = <<>>
  BY DEF TriedOf
<1>4. T[q] = <<>> /\ T' = T
  BY ZenonT(60), <1>3, <1>m DEF MapsTo
<1>5. \A other \in Requests : p \notin HeldBy(other)
  BY LLMRequestAssumption DEF HeldBy
<1>6. H[q] = {} /\ H' = [H EXCEPT ![q] = {p}] /\ \A other \in Requests : p \notin H[other]
  BY <1>5, <1>m DEF MapsTo
<1> QED
  BY ZenonT(60), <1>2, <1>4, <1>6 DEF Outcomes!Admit, Outcomes!NoAnswer, Outcomes!Grant, T, H, A

\* A slot given back, or none that was held.
LEMMA GivesBack1 ==
  ASSUME IInv, NEW q \in Requests, NEW new \in Handlers, Moves(q, new),
         req[q].answer = "none", new.answer = "none",
         TriedOf(new) = TriedOf(req[q]), HeldBy(q)' = {}
  PROVE  Outcomes!GiveBack(q) \/ UNCHANGED Outcomes!vars
<1>m. MapsTo(q, new)
  BY Mapped
<1>1. Word("none") = "none"
  BY DEF Word, Exhaustions
<1>2. A[q] = "none" /\ A' = A /\ T' = T /\ H' = [H EXCEPT ![q] = {}]
  BY Zenon, <1>1, <1>m DEF MapsTo
<1>3. H[q] = {} => H' = H
  BY ZenonT(60), <1>m, <1>2 DEF MapsTo
<1> QED
  BY ZenonT(60), <1>2, <1>3 DEF Outcomes!GiveBack, Outcomes!NoAnswer, Outcomes!vars, T, H, A

-----------------------------------------------------------------------------
(* The pieces of the handler *)

Sound == IInv' /\ (Outcomes!Next \/ UNCHANGED Outcomes!vars)

LEMMA HandlerFacts ==
  ASSUME IInv, NEW q \in Requests
  PROVE  /\ req[q] \in Handlers /\ req[q].ask \in AllAsks /\ Primary(q) \in Providers
         /\ req[q].stack \in Seq(Frames) /\ req[q].tries \in Seq(Tries)
         /\ req[q].modelFor \in [Providers -> Models \cup {NoModel}]
         /\ req[q].model \in Models
         /\ AnsweredOnce(req[q]) /\ Shape(req[q])
         /\ \A p \in Providers : slot[p] = q => MayHold(req[q], p)
         /\ catalogue \in Catalogues /\ DOMAIN catalogue \subseteq Providers
BY Zenon, LLMRequestAssumption DEF IInv, TypeOK, Handlers, AllAsks, Primary

LEMMA NewFrame ==
  ASSUME NEW p \in Providers
  PROVE  Frame(p) \in Frames /\ Frame(p).p = p /\ Frame(p).stage = "enter"
BY DEF Frame, Frames

LEMMA Settles ==
  ASSUME IInv, NEW q \in Requests, NEW p \in Providers, NEW cost, SettleSlot(q, p, cost)
  PROVE  /\ slot' \in [Providers -> Requests \cup {Free}]
         /\ \A r \in Providers, other \in Requests :
              other # q => (slot'[r] = other <=> slot[r] = other)
         /\ \A r \in Providers : slot'[r] = q <=> slot[r] = q /\ r # p
BY LLMRequestAssumption DEF IInv, TypeOK, SettleSlot

LEMMA Takes ==
  ASSUME IInv, NEW q \in Requests, NEW p \in Providers, NEW d \in Decisions(p), Take(q, p, d),
         HeldBy(q) = {}
  PROVE  /\ slot' \in [Providers -> Requests \cup {Free}]
         /\ \A r \in Providers, other \in Requests :
              other # q => (slot'[r] = other <=> slot[r] = other)
         /\ \/ ~TakesSlot(d) /\ slot' = slot
            \/ TakesSlot(d) /\ slot[p] = Free /\ HeldBy(q)' = {p}
         /\ \A r \in Providers : slot'[r] = q => r = p /\ TakesSlot(d)
<1>1. TakesSlot(d) => slot[p] = Free
  BY ZenonT(30) DEF TakesSlot, Decisions
<1> QED
  BY <1>1, LLMRequestAssumption DEF IInv, TypeOK, Take, HeldBy

LEMMA ExhaustionAnswers ==
  ASSUME NEW q PROVE ExhaustionError(q) \in Exhaustions
BY DEF ExhaustionError, Exhaustions

\* A return before the relay: denied before the walk, or exhausted.
LEMMA Returns ==
  ASSUME IInv, NEW q \in Requests, NEW a, Return(q, a), UNCHANGED catalogue,
         req[q].at \notin {"relay", "reject", "done"},
         \/ a \in Denials /\ req[q].tries = <<>>
         \/ a = ExhaustionError(q),
         \A p \in Providers : slot[p] = q => p = Primary(q) /\ Exists(p)
  PROVE  Sound
<1> DEFINE new == [req[q] EXCEPT !.at = "done", !.answer = a, !.stack = <<>>]
<1>0. /\ a \in Denials \cup Exhaustions
      /\ a \in Answers /\ a # "none"
  BY ExhaustionAnswers DEF Answers, Denials, Exhaustions
<1>1. req' = [req EXCEPT ![q] = new]
  BY Zenon, HandlerFacts DEF Return, IInv, TypeOK, Handlers
<1>2. /\ new \in Handlers /\ new.at = "done" /\ new.answer = a /\ new.tries = req[q].tries
      /\ new.visited = req[q].visited
  <2>1. req[q] \in Handlers /\ <<>> \in Seq(Frames) /\ "done" \in Stages
    BY HandlerFacts DEF Stages
  <2>2. new \in Handlers
    BY Zenon, <1>0, <2>1 DEF Handlers
  <2>3. /\ new.at = "done" /\ new.answer = a /\ new.tries = req[q].tries
        /\ new.visited = req[q].visited
    BY <2>1 DEF Handlers
  <2> QED
    BY ZenonT(60), <2>2, <2>3
<1>3. /\ slot' \in [Providers -> Requests \cup {Free}]
      /\ \A r \in Providers, other \in Requests :
           other # q => (slot'[r] = other <=> slot[r] = other)
      /\ \A r \in Providers : slot'[r] # q
  <2>1. CASE Exists(Primary(q))
    BY <2>1, HandlerFacts, Settles DEF Return
  <2>2. CASE ~Exists(Primary(q))
    BY <2>2 DEF Return, IInv, TypeOK
  <2> QED
    BY <2>1, <2>2
<1> HIDE DEF new
<1>4. Moves(q, new)
  BY Zenon, <1>1, <1>3 DEF Moves
<1>5. AnsweredOnce(new) /\ Shape(new)
  BY ZenonT(60), <1>0, <1>2, HandlerFacts DEF AnsweredOnce, Shape
<1>7. IInv'
  BY ZenonT(30), <1>2, <1>3, <1>4, <1>5, HandlerStep
<1>8. Outcomes!Answer(q)
  <2>1. a \in Exhaustions \/ (a \in Denials /\ req[q].tries = <<>>)
    BY Zenon, ExhaustionAnswers
  <2> QED
    BY Zenon, <1>0, <1>2, <1>3, <1>4, <2>1, Answers1
<1> QED
  BY Zenon, <1>7, <1>8 DEF Sound, Outcomes!Next

\* A step after which the handler goes on.
LEMMA GoesOn ==
  ASSUME IInv, NEW q \in Requests, NEW new \in Handlers, Moves(q, new),
         new.answer = "none", new.at # "done", Shape(new),
         \A p \in Providers : slot'[p] = q => MayHold(new, p)
  PROVE  IInv'
<1>1. AnsweredOnce(new)
  BY DEF AnsweredOnce
<1> QED
  BY <1>1, HandlerStep

-----------------------------------------------------------------------------
(* Before the walk *)

LEMMA RouteSound ==
  ASSUME IInv, NEW q \in Requests, Route(q) PROVE Sound
<1>0. /\ req[q].at = "route" /\ req[q].tries = <<>> /\ req[q].answer = "none"
      /\ \A p \in Providers : slot[p] # q
  BY HandlerFacts DEF Route, Shape, MayHold, AnsweredOnce
<1>1. CASE AuthorizeRoute(req[q].ask) # "ok"
  <2>1. AuthorizeRoute(req[q].ask) \in Denials
    BY Zenon, <1>1 DEF AuthorizeRoute, Denials
  <2>2. Return(q, AuthorizeRoute(req[q].ask)) /\ UNCHANGED catalogue
    BY <1>1 DEF Route
  <2> QED
    BY ZenonT(60), <1>0, <2>1, <2>2, Returns
<1>2. CASE AuthorizeRoute(req[q].ask) = "ok"
  <2> DEFINE new == [req[q] EXCEPT !.at = "admit"]
  <2>1. /\ req' = [req EXCEPT ![q] = new] /\ UNCHANGED <<catalogue, slot>>
    BY <1>2, HandlerFacts DEF Route
  <2>2. req[q] \in Handlers /\ "admit" \in Stages
    BY HandlerFacts DEF Stages
  <2>3. new \in Handlers
    BY Zenon, <2>2 DEF Handlers
  <2>4. /\ new.at = "admit" /\ new.answer = "none" /\ new.tries = <<>> /\ new.ask = req[q].ask
    BY <1>0, <2>2 DEF Handlers
  <2> HIDE DEF new
  <2>5. Moves(q, new)
    BY <2>1 DEF Moves, IInv, TypeOK
  <2>6. Shape(new)
    <3>1. req[q].ask.primary \in DOMAIN catalogue
      BY Zenon, <1>2 DEF AuthorizeRoute, Exists
    <3> QED
      BY <2>4, <3>1 DEF Shape
  <2>7. IInv'
    BY Zenon, <1>0, <2>1, <2>3, <2>4, <2>5, <2>6, GoesOn
  <2>8. UNCHANGED Outcomes!vars
    <3>1. TriedOf(new) = TriedOf(req[q])
      BY <1>0, <2>4 DEF TriedOf
    <3> QED
      BY Zenon, <1>0, <2>1, <2>3, <2>4, <2>5, <3>1, Stutters
  <2> QED
    BY <2>7, <2>8 DEF Sound
<1> QED
  BY <1>1, <1>2

LEMMA AdmitPrimarySound ==
  ASSUME IInv, NEW q \in Requests, AdmitPrimary(q) PROVE Sound
<1>0. /\ req[q].at = "admit" /\ req[q].tries = <<>> /\ req[q].answer = "none"
      /\ HeldBy(q) = {} /\ \A p \in Providers : slot[p] # q
      /\ Primary(q) \in Providers /\ Primary(q) \in DOMAIN catalogue
  BY Zenon, HandlerFacts DEF AdmitPrimary, Shape, MayHold, AnsweredOnce, HeldBy, Primary
<1>1. PICK d \in Decisions(Primary(q)) :
        \/ BudgetDenies(d) /\ Return(q, d)
        \/ /\ ~BudgetDenies(d)
           /\ req' = [req EXCEPT ![q].at = "rate",
                        ![q].model = IF Degrades(d) THEN catalogue[Primary(q)].degradeTo
                                     ELSE @]
           /\ Take(q, Primary(q), d)
  BY DEF AdmitPrimary
<1>2. UNCHANGED catalogue
  BY DEF AdmitPrimary
<1>3. CASE BudgetDenies(d) /\ Return(q, d)
  <2>1. d \in Denials
    BY <1>3 DEF BudgetDenies, Denials
  <2> QED
    BY ZenonT(60), <1>0, <1>2, <1>3, <2>1, Returns
<1>4. CASE /\ ~BudgetDenies(d)
           /\ req' = [req EXCEPT ![q].at = "rate",
                        ![q].model = IF Degrades(d) THEN catalogue[Primary(q)].degradeTo
                                     ELSE @]
           /\ Take(q, Primary(q), d)
  <2> DEFINE m == IF Degrades(d) THEN catalogue[Primary(q)].degradeTo ELSE req[q].model
             new == [req[q] EXCEPT !.at = "rate", !.model = m]
  <2>1. req' = [req EXCEPT ![q] = new]
    BY ZenonT(60), <1>4, HandlerFacts DEF Handlers, IInv, TypeOK
  <2>2. req[q] \in Handlers /\ "rate" \in Stages /\ m \in Models
    BY Zenon, <1>0, HandlerFacts, LLMRequestAssumption DEF Stages
  <2> HIDE DEF m
  <2>3. new \in Handlers
    BY Zenon, <2>2 DEF Handlers
  <2>4. /\ new.at = "rate" /\ new.answer = "none" /\ new.tries = <<>> /\ new.ask = req[q].ask
    BY <1>0, <2>2 DEF Handlers
  <2>5. /\ slot' \in [Providers -> Requests \cup {Free}]
        /\ \A r \in Providers, other \in Requests :
             other # q => (slot'[r] = other <=> slot[r] = other)
        /\ \/ ~TakesSlot(d) /\ slot' = slot
           \/ TakesSlot(d) /\ slot[Primary(q)] = Free /\ HeldBy(q)' = {Primary(q)}
        /\ \A r \in Providers : slot'[r] = q => r = Primary(q) /\ TakesSlot(d)
    BY <1>0, <1>1, <1>4, Takes
  <2> HIDE DEF new
  <2>6. Moves(q, new)
    BY ZenonT(30), <1>2, <2>1, <2>5 DEF Moves
  <2>7. Shape(new)
    BY <1>0, <2>4 DEF Shape, Primary
  <2>8. IInv'
    <3>1. \A p \in Providers : slot'[p] = q => MayHold(new, p)
      BY ZenonT(60), <2>4, <2>5 DEF MayHold, Primary
    <3> QED
      BY ZenonT(30), <2>3, <2>4, <2>6, <2>7, <3>1, GoesOn
  <2>9. Outcomes!Admit(q) \/ UNCHANGED Outcomes!vars
    <3>1. CASE ~TakesSlot(d) /\ slot' = slot
      <4>1. TriedOf(new) = TriedOf(req[q])
        BY ZenonT(30), <1>0, <2>4 DEF TriedOf
      <4> QED
        BY Zenon, <1>0, <2>3, <2>4, <2>6, <3>1, <4>1, Stutters
    <3>2. CASE TakesSlot(d) /\ slot[Primary(q)] = Free /\ HeldBy(q)' = {Primary(q)}
      BY Zenon, <1>0, <2>3, <2>4, <2>6, <3>2, Admits1
    <3> QED
      BY Zenon, <2>5, <3>1, <3>2
  <2> QED
    BY <2>8, <2>9 DEF Sound, Outcomes!Next
<1> QED
  BY ZenonT(60), <1>1, <1>3, <1>4

LEMMA TakeTokenSound ==
  ASSUME IInv, NEW q \in Requests, TakeToken(q) PROVE Sound
<1>0. /\ req[q].at = "rate" /\ req[q].tries = <<>> /\ req[q].answer = "none"
      /\ Primary(q) \in Providers /\ Primary(q) \in DOMAIN catalogue
      /\ \A p \in Providers : slot[p] = q => p = Primary(q) /\ Exists(p)
  BY ZenonT(60), HandlerFacts DEF TakeToken, Shape, MayHold, AnsweredOnce, Primary, Exists
<1>1. CASE Return(q, "rateLimited") /\ UNCHANGED catalogue
  <2>1. "rateLimited" \in Denials
    BY DEF Denials
  <2> QED
    BY <1>0, <1>1, <2>1, Returns
<1>2. CASE /\ req' = [req EXCEPT ![q].at = "walk", ![q].stack = <<Frame(Primary(q))>>,
                                 ![q].modelFor[Primary(q)] = req[q].model]
           /\ UNCHANGED <<catalogue, slot>>
  <2> DEFINE st == <<Frame(Primary(q))>>
             mf == [req[q].modelFor EXCEPT ![Primary(q)] = req[q].model]
             new == [req[q] EXCEPT !.at = "walk", !.stack = st, !.modelFor = mf]
  <2>1. req' = [req EXCEPT ![q] = new]
    BY ZenonT(30), <1>2, HandlerFacts DEF Handlers, IInv, TypeOK
  <2>2. req[q] \in Handlers /\ "walk" \in Stages
    BY ZenonT(60), HandlerFacts DEF Stages
  <2>3. mf \in [Providers -> Models \cup {NoModel}]
    BY ZenonT(60), <1>0, HandlerFacts
  <2>4. /\ st \in Seq(Frames) /\ st # <<>> /\ Len(st) = 1
        /\ st[1].p = Primary(q) /\ st[1].stage = "enter" /\ Last(st) = st[1]
    <3>1. Frame(Primary(q)) \in Frames
      BY <1>0 DEF Frame, Frames
    <3>2. st \in Seq(Frames) /\ Len(st) = 1 /\ st[1] = Frame(Primary(q))
      BY <3>1
    <3>3. st # <<>> /\ Last(st) = st[1]
      BY <3>2 DEF Last
    <3>4. st[1].p = Primary(q) /\ st[1].stage = "enter"
      BY <3>2 DEF Frame
    <3> QED
      BY Zenon, <3>2, <3>3, <3>4
  <2> HIDE DEF st, mf
  <2>5. new \in Handlers
    BY Zenon, <2>2, <2>3, <2>4 DEF Handlers
  <2>6. /\ new.at = "walk" /\ new.answer = "none" /\ new.tries = <<>> /\ new.ask = req[q].ask
        /\ new.stack = st
    BY <1>0, <2>2 DEF Handlers
  <2> HIDE DEF new
  <2>7. Moves(q, new)
    BY ZenonT(60), <1>2, <2>1 DEF Moves, IInv, TypeOK
  <2>8. Shape(new)
    <3>1. Walk(new)
      <4>1. /\ \A i \in 1..Len(st) : i = 1 /\ st[i].p = new.ask.primary /\ st[i].stage = "enter"
            /\ new.ask.primary \in DOMAIN catalogue
        BY <1>0, <2>4, <2>6 DEF Primary
      <4>2. Last(st).p = new.ask.primary /\ Last(st).stage = "enter"
        BY <2>4, <2>6 DEF Primary
      <4> QED
        BY ZenonT(30), <2>4, <2>6, <4>1, <4>2 DEF Walk
    <3> QED
      BY <1>0, <2>6, <3>1 DEF Shape, Primary
  <2>9. IInv'
    <3>1. \A p \in Providers : slot'[p] = q => MayHold(new, p)
      BY <1>0, <1>2, <2>6 DEF MayHold, Primary
    <3> QED
      BY Zenon, <2>5, <2>6, <2>7, <2>8, <3>1, GoesOn
  <2>10. UNCHANGED Outcomes!vars
    <3>1. TriedOf(new) = TriedOf(req[q])
      BY ZenonT(60), <1>0, <2>6 DEF TriedOf
    <3> QED
      BY Zenon, <1>0, <1>2, <2>5, <2>6, <2>7, <3>1, Stutters
  <2> QED
    BY <2>9, <2>10 DEF Sound
<1> QED
  BY ZenonT(60), <1>1, <1>2 DEF TakeToken

-----------------------------------------------------------------------------
(* The walk *)

LEMMA TopFacts ==
  ASSUME IInv, NEW q \in Requests, req[q].at = "walk"
  PROVE  /\ Walk(req[q]) /\ req[q].answer = "none" /\ Len(req[q].stack) \in Nat
         /\ Len(req[q].stack) >= 1 /\ Top(q) \in Frames /\ Top(q).p \in Providers
         /\ Top(q) = req[q].stack[Len(req[q].stack)]
         /\ Exists(Top(q).p) /\ Exists(Primary(q))
         /\ \A p \in Providers : CandidateModel(q, p) \in Models
<1>1. /\ Walk(req[q]) /\ req[q].answer = "none" /\ Exists(Primary(q))
  BY ZenonT(60), HandlerFacts DEF Shape, AnsweredOnce, Exists, Primary
<1>2. /\ Len(req[q].stack) \in Nat /\ Len(req[q].stack) >= 1 /\ Top(q) \in Frames
  BY ZenonT(60), <1>1, HandlerFacts, TopOf DEF Walk, Top
<1>3. Top(q) = req[q].stack[Len(req[q].stack)]
  BY ZenonT(60) DEF Top, Last
<1>4. Exists(Top(q).p) /\ Top(q).p \in Providers
  <2>1. Len(req[q].stack) \in 1..Len(req[q].stack)
    BY <1>2
  <2>2. Exists(Top(q).p)
    BY Zenon, <1>1, <1>3, <2>1 DEF Walk, Exists
  <2> QED
    BY Zenon, <2>2, HandlerFacts DEF Exists
<1>5. \A p \in Providers : CandidateModel(q, p) \in Models
  BY Zenon, HandlerFacts DEF CandidateModel
<1> QED
  BY Zenon, <1>1, <1>2, <1>3, <1>4, <1>5

LEMMA NotOkSound ==
  ASSUME IInv, NEW q \in Requests, req[q].at = "walk", Top(q).stage # "attempt",
         NEW visited \in SUBSET Providers, req[q].visited \subseteq visited,
         NotOk(q, visited), UNCHANGED catalogue
  PROVE  Sound
<1>0. /\ Walk(req[q]) /\ req[q].answer = "none" /\ Len(req[q].stack) \in Nat
  BY TopFacts
<1>1. CASE Len(req[q].stack) = 1 /\ Return(q, ExhaustionError(q))
  <2>1. \A p \in Providers : slot[p] = q => p = Primary(q) /\ Exists(p)
    BY ZenonT(60), TopFacts, HandlerFacts DEF MayHold, Top, Primary
  <2> QED
    BY ZenonT(30), <1>1, <2>1, Returns
<1>2. CASE /\ Len(req[q].stack) > 1
           /\ req' = [req EXCEPT ![q].stack = SubSeq(@, 1, Len(@) - 1), ![q].visited = visited]
           /\ UNCHANGED slot
  <2> DEFINE st == SubSeq(req[q].stack, 1, Len(req[q].stack) - 1)
             new == [req[q] EXCEPT !.stack = st, !.visited = visited]
  <2>1. req' = [req EXCEPT ![q] = new]
    BY Zenon, <1>2, HandlerFacts DEF Handlers, IInv, TypeOK
  <2>2. /\ st \in Seq(Frames) /\ st # <<>> /\ Len(st) = Len(req[q].stack) - 1
        /\ Last(st) = req[q].stack[Len(req[q].stack) - 1]
        /\ \A i \in 1..(Len(req[q].stack) - 1) : st[i] = req[q].stack[i]
    <3>1. /\ req[q].stack \in Seq(Frames) /\ Len(req[q].stack) > 1
          /\ st = SubSeq(req[q].stack, 1, Len(req[q].stack) - 1)
      BY <1>2, HandlerFacts
    <3> HIDE DEF st
    <3>2. IsPopped(st, Frames, req[q].stack)
      BY ZenonT(30), <3>1, Popped
    <3> QED
      BY <3>2 DEF IsPopped
  <2>3. req[q] \in Handlers
    BY Zenon, HandlerFacts
  <2> HIDE DEF st
  <2>4. new \in Handlers
    BY Zenon, <2>2, <2>3 DEF Handlers
  <2>5. /\ new.at = "walk" /\ new.answer = "none" /\ new.tries = req[q].tries
        /\ new.ask = req[q].ask /\ new.stack = st /\ new.visited = visited
    BY <1>0, <2>3 DEF Handlers
  <2> HIDE DEF new
  <2>6. Moves(q, new)
    BY ZenonT(30), <1>2, <2>1 DEF Moves, IInv, TypeOK
  <2>i. /\ Len(req[q].stack) # 1 /\ Len(st) \in 1..Len(st)
        /\ \A i \in 1..Len(st) : /\ i \in 1..Len(req[q].stack) /\ i # Len(req[q].stack)
                                 /\ st[i] = req[q].stack[i]
    <3>1. \A n \in Nat : n > 1 => /\ n # 1 /\ n - 1 \in 1..(n - 1)
                                  /\ \A i \in 1..(n - 1) : i \in 1..n /\ i # n
      OBVIOUS
    <3> QED
      <4>1. /\ Len(req[q].stack) # 1 /\ Len(req[q].stack) - 1 \in 1..(Len(req[q].stack) - 1)
            /\ \A i \in 1..(Len(req[q].stack) - 1) :
                 i \in 1..Len(req[q].stack) /\ i # Len(req[q].stack)
        BY Zenon, <1>0, <1>2, <3>1
      <4>2. Len(st) = Len(req[q].stack) - 1
        BY Zenon, <2>2
      <4>3. \A i \in 1..(Len(req[q].stack) - 1) : st[i] = req[q].stack[i]
        BY ZenonT(60), <2>2
      <4> QED
        BY Zenon, <4>1, <4>2, <4>3
  <2>7. req[q].tries # <<>> /\ Last(st).stage = "children"
    BY Zenon, <1>0, <2>i DEF Walk, Last
  <2>8. Shape(new)
    <3>1. Walk(new)
      <4>1. \A i \in 1..Len(st) : st[i].p \in DOMAIN catalogue
        BY Zenon, <1>0, <2>i DEF Walk
      <4>2. \A i \in 1..Len(st) : st[i].stage = "children" /\ st[i].model # NoModel
        BY ZenonT(60), <1>0, <2>i DEF Walk
      <4> QED
        BY Zenon, <1>0, <2>2, <2>5, <2>7, <4>1, <4>2 DEF Walk
    <3> QED
      BY Zenon, <2>5, <3>1, HandlerFacts DEF Shape
  <2>9. IInv'
    <3>1. \A p \in Providers : slot'[p] # q
      BY ZenonT(30), <1>2, <2>7, HandlerFacts DEF MayHold, Top
    <3> QED
      BY Zenon, <2>4, <2>5, <2>6, <2>8, <3>1, GoesOn
  <2>10. UNCHANGED Outcomes!vars
    <3>1. TriedOf(new) = TriedOf(req[q])
      BY ZenonT(60), <2>5 DEF TriedOf
    <3> QED
      BY Zenon, <1>0, <1>2, <2>4, <2>5, <2>6, <3>1, Stutters
  <2> QED
    BY <2>9, <2>10 DEF Sound
<1> QED
  BY ZenonT(60), <1>1, <1>2 DEF NotOk

LEMMA SkipSound ==
  ASSUME IInv, NEW q \in Requests, Skip(q) PROVE Sound
<1>1. /\ req[q].at = "walk" /\ Top(q).stage # "attempt" /\ UNCHANGED catalogue
      /\ NotOk(q, req[q].visited \cup {Top(q).p})
  BY DEF Skip, Entering
<1>2. req[q].visited \cup {Top(q).p} \in SUBSET Providers
  BY ZenonT(60), <1>1, TopFacts, HandlerFacts DEF Handlers
<1> QED
  BY Zenon, <1>1, <1>2, NotOkSound

\* What a request is when it has used an attempt of its top provider, and goes on at frame.
Used(q, frame, new) ==
  /\ new \in Handlers /\ new.at = "walk" /\ new.answer = "none" /\ Shape(new)
  /\ \E try \in Tries : try.p = Top(q).p /\ new.tries = Append(req[q].tries, try)
  /\ new.tries # <<>> /\ Last(new.stack) = frame /\ Last(new.stack).p = Top(q).p
  /\ \A i \in 1..Len(req[q].tries) : req[q].tries[i].p # Top(q).p
  /\ Len(req[q].tries) < MaxFallbackDepth
  /\ frame.stage = IF frame = Attempting(q) THEN "attempt" ELSE "children"

\* What UseAttempt does to the handler, with either frame.
LEMMA AttemptUsed ==
  ASSUME IInv, NEW q \in Requests, Entering(q), Eligible(q), NEW how \in Hows,
         NEW frame \in {Children(q), Attempting(q)},
         NEW new, new = UseAttempt(q, how, frame), UNCHANGED catalogue
  PROVE  Used(q, frame, new)
<1> DEFINE p == Top(q).p
           vis == req[q].visited \cup {p}
           seen == req[q].observed \cup ({how} \ {"started"})
           try == [p |-> p, how |-> how, model |-> CandidateModel(q, p)]
           ts == Append(req[q].tries, try)
           st == SetTop(q, frame)
<1>0. /\ req[q] \in Handlers /\ req[q].at = "walk" /\ Walk(req[q]) /\ req[q].answer = "none"
      /\ Top(q) \in Frames /\ p \in Providers /\ Top(q).stage = "enter"
      /\ p \notin req[q].visited /\ Len(req[q].tries) < MaxFallbackDepth
      /\ p \in DOMAIN catalogue /\ CandidateModel(q, p) \in Models
      /\ req[q].visited \subseteq Providers
  BY ZenonT(30), TopFacts, HandlerFacts DEF Entering, Eligible, Exists, Handlers
<1>1. /\ frame \in Frames /\ frame.p = p
      /\ frame.stage = IF frame = Attempting(q) THEN "attempt" ELSE "children"
      /\ frame.stage = "children" => frame.model # NoModel
  <2>1. CASE frame = Children(q)
    <3>1. /\ frame \in Frames /\ frame.p = p /\ frame.stage = "children"
          /\ frame.model = CandidateModel(q, p)
      BY ZenonT(30), <1>0, <2>1 DEF Children, Frames
    <3>2. Attempting(q).stage = "attempt"
      BY <1>0 DEF Attempting, Frames
    <3> QED
      BY ZenonT(60), <1>0, <3>1, <3>2, LLMRequestAssumption
  <2>2. CASE frame = Attempting(q)
    BY <1>0, <2>2 DEF Attempting, Frames
  <2> QED
    BY ZenonT(60), <2>1, <2>2
<1>2. /\ st \in Seq(Frames) /\ st # <<>> /\ Len(st) = Len(req[q].stack) /\ Last(st) = frame
      /\ \A i \in 1..Len(req[q].stack) : i # Len(req[q].stack) => st[i] = req[q].stack[i]
  <2>1. st = [req[q].stack EXCEPT ![Len(req[q].stack)] = frame]
    BY Zenon DEF SetTop
  <2>2. req[q].stack \in Seq(Frames) /\ req[q].stack # <<>>
    BY ZenonT(30), <1>0, HandlerFacts DEF Walk
  <2>3. frame \in Frames
    BY Zenon, <1>1
  <2> HIDE DEF st
  <2>4. IsReplaced(st, Frames, req[q].stack, frame)
    BY ZenonT(30), <2>1, <2>2, <2>3, Replaced
  <2> QED
    BY Zenon, <2>4 DEF IsReplaced
<1>3. try \in Tries /\ try.p = p
  BY Zenon, <1>0 DEF Tries
<1>4. /\ ts \in Seq(Tries) /\ ts # <<>> /\ Len(ts) = Len(req[q].tries) + 1 /\ Last(ts) = try
      /\ \A i \in 1..Len(req[q].tries) : ts[i] = req[q].tries[i]
  <2>1. ts = Append(req[q].tries, try) /\ req[q].tries \in Seq(Tries)
    BY ZenonT(60), HandlerFacts
  <2>2. try \in Tries
    BY <1>3
  <2> HIDE DEF ts, try
  <2>3. IsAppended(ts, Tries, req[q].tries, try)
    BY Zenon, <2>1, <2>2, Appended
  <2> QED
    BY ZenonT(30), <2>3 DEF IsAppended
<1>5. new = [req[q] EXCEPT !.visited = vis, !.observed = seen, !.tries = ts, !.stack = st]
  BY ZenonT(30), <1>0 DEF UseAttempt, Handlers
<1>6. vis \in SUBSET Providers /\ seen \in SUBSET Hows
  BY ZenonT(60), <1>0 DEF Handlers
<1>7. ts = Append(req[q].tries, try)
  OBVIOUS
<1>v. req[q].visited \subseteq vis /\ p \in vis
  BY Zenon
<1> HIDE DEF p, vis, seen, try, ts, st
<1>8. new \in Handlers
  BY ZenonT(60), <1>0, <1>2, <1>4, <1>5, <1>6 DEF Handlers
<1>9. /\ new.at = "walk" /\ new.answer = "none" /\ new.ask = req[q].ask
      /\ new.visited = vis /\ new.tries = ts /\ new.stack = st
  BY <1>0, <1>5 DEF Handlers
<1>10. \A i \in 1..Len(req[q].tries) : req[q].tries[i].p \in req[q].visited
  BY Zenon, HandlerFacts DEF Shape
<1>11. \A i \in 1..Len(ts) : ts[i].p \in vis
  <2>1. Len(req[q].tries) \in Nat
    BY HandlerFacts, SMTT(30)
  <2>2. ts[Len(ts)].p = p
    BY ZenonT(30), <1>3, <1>4 DEF Last
  <2> QED
    <3>1. \A i \in 1..Len(ts) : i = Len(ts) \/ (/\ i \in 1..Len(req[q].tries)
                                                /\ ts[i] = req[q].tries[i])
      <4>1. \A n \in Nat : \A i \in 1..(n + 1) : i = n + 1 \/ i \in 1..n
        OBVIOUS
      <4> QED
        BY ZenonT(30), <1>4, <2>1, <4>1
    <3> QED
      BY ZenonT(60), <1>10, <1>v, <2>2, <3>1
<1>12. Walk(new)
  <2>0. Len(st) \in Nat /\ Len(st) >= 1 /\ st[Len(st)] = frame
    BY Zenon, <1>2, TopOf DEF Last
  <2>1. \A i \in 1..Len(st) : st[i].p \in DOMAIN catalogue
    BY ZenonT(60), <1>0, <1>1, <1>2, <2>0 DEF Walk
  <2>2. \A i \in 1..Len(st) : i # Len(st) => st[i].stage = "children"
    BY Zenon, <1>0, <1>2, <2>0 DEF Walk
  <2>3. \A i \in 1..Len(st) : st[i].stage = "children" => st[i].model # NoModel
    BY ZenonT(60), <1>0, <1>1, <1>2, <2>0 DEF Walk
  <2>4. req[q].ask.primary \in vis
    <3>1. CASE req[q].tries = <<>>
      BY ZenonT(30), <1>0, <1>v, <3>1 DEF Walk, Top, p
    <3>2. CASE req[q].tries # <<>>
      BY ZenonT(30), <1>0, <1>v, <3>2 DEF Walk
    <3> QED
      BY Zenon, <3>1, <3>2
  <2>5. Last(st).stage = "attempt" => Last(ts).p = Last(st).p
    BY Zenon, <1>1, <1>2, <1>3, <1>4
  <2>6. st # <<>> /\ ts # <<>>
    BY Zenon, <1>2, <1>4
  <2>7. new.stack = st /\ new.tries = ts /\ new.visited = vis /\ new.ask = req[q].ask
    BY Zenon, <1>9
  <2> QED
    BY ZenonT(60), <2>1, <2>2, <2>3, <2>4, <2>5, <2>6, <2>7 DEF Walk
<1>13. Shape(new)
  BY ZenonT(30), <1>0, <1>9, <1>11, <1>12, HandlerFacts DEF Shape
<1>14. \A i \in 1..Len(req[q].tries) : req[q].tries[i].p # p
  BY ZenonT(60), <1>0, <1>10
<1> QED
  BY ZenonT(30), <1>0, <1>1, <1>2, <1>3, <1>4, <1>7, <1>8, <1>9, <1>13, <1>14 DEF p, Used

LEMMA EnterPrimarySound ==
  ASSUME IInv, NEW q \in Requests, EnterPrimary(q) PROVE Sound
<1> DEFINE new == UseAttempt(q, "started", Attempting(q))
<1>0. /\ Entering(q) /\ Eligible(q) /\ Top(q).p = Primary(q) /\ req' = [req EXCEPT ![q] = new]
      /\ UNCHANGED <<catalogue, slot>> /\ req[q].at = "walk"
      /\ "started" \in Hows /\ Attempting(q) \in {Children(q), Attempting(q)}
  BY ZenonT(30) DEF EnterPrimary, Entering, Hows
<1>1. /\ new \in Handlers /\ new.at = "walk" /\ new.answer = "none" /\ Shape(new)
      /\ \E try \in Tries : try.p = Top(q).p /\ new.tries = Append(req[q].tries, try)
      /\ new.tries # <<>> /\ Last(new.stack).stage = "attempt" /\ Last(new.stack).p = Top(q).p
      /\ \A i \in 1..Len(req[q].tries) : req[q].tries[i].p # Top(q).p
      /\ Len(req[q].tries) < MaxFallbackDepth
  <2>1. PICK n, frame : n = new /\ frame = Attempting(q)
    BY Zenon
  <2> HIDE DEF new
  <2>2. n = UseAttempt(q, "started", frame) /\ frame \in {Children(q), Attempting(q)}
    BY Zenon, <1>0, <2>1 DEF new
  <2>3. Used(q, frame, n)
    <3>1. Entering(q) /\ Eligible(q) /\ "started" \in Hows /\ UNCHANGED catalogue
      BY <1>0
    <3> QED
      BY Zenon, <2>2, <3>1, AttemptUsed
  <2>4. Last(n.stack).stage = "attempt"
    BY Zenon, <2>1, <2>3 DEF Used
  <2> QED
    BY Zenon, <2>1, <2>3, <2>4 DEF Used
<1> HIDE DEF new
<1>2. Moves(q, new)
  BY ZenonT(60), <1>0 DEF Moves, IInv, TypeOK
<1>3. Top(q).p \in Providers /\ req[q].answer = "none"
  BY Zenon, <1>0, TopFacts
<1>4. \A p \in Providers : slot[p] = q => p = Top(q).p
  BY ZenonT(30), <1>0, HandlerFacts DEF MayHold, Top, Entering, Primary
<1>5. IInv'
  <2>1. \A p \in Providers : slot'[p] = q => MayHold(new, p)
    BY Zenon, <1>0, <1>1, <1>4 DEF MayHold
  <2> QED
    BY Zenon, <1>1, <1>2, <2>1, GoesOn
<1>6. Outcomes!Try(q)
  <2>1. HeldBy(q) \subseteq {Top(q).p} /\ HeldBy(q)' = HeldBy(q)
    BY ZenonT(60), <1>0, <1>4 DEF HeldBy
  <2> QED
    BY ZenonT(30), <1>1, <1>2, <1>3, <2>1, Tries1
<1> QED
  BY <1>5, <1>6 DEF Sound, Outcomes!Next

LEMMA EnterFallbackSound ==
  ASSUME IInv, NEW q \in Requests, EnterFallback(q) PROVE Sound
<1>0. /\ Entering(q) /\ Eligible(q) /\ Top(q).p # Primary(q)
      /\ UNCHANGED catalogue /\ req[q].at = "walk" /\ Top(q).stage = "enter"
  BY DEF EnterFallback, Entering
<1>1. PICK d \in Decisions(Top(q).p) :
        /\ req' = [req EXCEPT ![q] =
             CASE d = "unavailable" -> UseAttempt(q, d, Children(q))
               [] d \in {"throttled", "block"} -> UseAttempt(q, "budget", Children(q))
               [] OTHER -> UseAttempt(q, "started", Attempting(q))]
        /\ Take(q, Top(q).p, d)
  BY ZenonT(60) DEF EnterFallback
<1>2. Top(q).p \in Providers /\ req[q].answer = "none" /\ Walk(req[q])
  BY Zenon, <1>0, TopFacts
<1>3. HeldBy(q) = {}
  <2>1. \A p \in Providers : slot[p] # q
    BY Zenon, <1>0, <1>2, HandlerFacts DEF MayHold, Top, Walk, Primary
  <2> QED
    BY <2>1 DEF HeldBy
<1>4. /\ slot' \in [Providers -> Requests \cup {Free}]
      /\ \A r \in Providers, other \in Requests :
           other # q => (slot'[r] = other <=> slot[r] = other)
      /\ \/ ~TakesSlot(d) /\ slot' = slot
         \/ TakesSlot(d) /\ slot[Top(q).p] = Free /\ HeldBy(q)' = {Top(q).p}
      /\ \A r \in Providers : slot'[r] = q => r = Top(q).p /\ TakesSlot(d)
  BY Zenon, <1>1, <1>2, <1>3, Takes
<1>5. \E how \in Hows, frame \in {Children(q), Attempting(q)} :
        /\ req' = [req EXCEPT ![q] = UseAttempt(q, how, frame)]
        /\ TakesSlot(d) => frame = Attempting(q)
  <2>1. CASE d = "unavailable"
    <3>1. ~TakesSlot(d) /\ d \in Hows
      BY <2>1 DEF TakesSlot, Hows
    <3>2. req' = [req EXCEPT ![q] = UseAttempt(q, d, Children(q))]
      BY <1>1, <2>1
    <3> QED
      BY Zenon, <3>1, <3>2
  <2>2. CASE d \in {"throttled", "block"}
    <3>1. ~TakesSlot(d) /\ "budget" \in Hows
      BY <2>2 DEF TakesSlot, Hows
    <3>2. req' = [req EXCEPT ![q] = UseAttempt(q, "budget", Children(q))]
      BY <1>1, <2>2
    <3> QED
      BY Zenon, <3>1, <3>2
  <2>3. CASE d \notin {"unavailable", "throttled", "block"}
    <3>1. "started" \in Hows
      BY DEF Hows
    <3>2. req' = [req EXCEPT ![q] = UseAttempt(q, "started", Attempting(q))]
      BY Zenon, <1>1, <2>3
    <3> QED
      BY Zenon, <3>1, <3>2
  <2> QED
    BY ZenonT(60), <2>1, <2>2, <2>3
<1>6. PICK how \in Hows, frame \in {Children(q), Attempting(q)} :
        /\ req' = [req EXCEPT ![q] = UseAttempt(q, how, frame)]
        /\ TakesSlot(d) => frame = Attempting(q)
  BY Zenon, <1>5
<1> DEFINE new == UseAttempt(q, how, frame)
<1>7. /\ new \in Handlers /\ new.at = "walk" /\ new.answer = "none" /\ Shape(new)
      /\ \E try \in Tries : try.p = Top(q).p /\ new.tries = Append(req[q].tries, try)
      /\ new.tries # <<>> /\ Last(new.stack) = frame /\ Last(new.stack).p = Top(q).p
      /\ \A i \in 1..Len(req[q].tries) : req[q].tries[i].p # Top(q).p
      /\ Len(req[q].tries) < MaxFallbackDepth
      /\ frame.stage = IF frame = Attempting(q) THEN "attempt" ELSE "children"
  BY Zenon, <1>0, AttemptUsed DEF Used
<1>8. req' = [req EXCEPT ![q] = new]
  BY Zenon, <1>6
<1> HIDE DEF new
<1>9. Moves(q, new)
  BY Zenon, <1>0, <1>4, <1>8 DEF Moves
<1>10. IInv'
  <2>1. ASSUME NEW p \in Providers, slot'[p] = q PROVE MayHold(new, p)
    <3>1. p = Top(q).p /\ Last(new.stack).stage = "attempt"
      BY Zenon, <1>4, <1>6, <1>7, <2>1
    <3> QED
      BY Zenon, <1>7, <3>1 DEF MayHold
  <2> QED
    BY Zenon, <1>7, <1>9, <2>1, GoesOn
<1>11. Outcomes!Try(q)
  <2>1. \/ HeldBy(q) \subseteq {Top(q).p} /\ HeldBy(q)' = HeldBy(q)
        \/ HeldBy(q) = {} /\ slot[Top(q).p] = Free /\ HeldBy(q)' = {Top(q).p}
    <3>1. slot' = slot => HeldBy(q)' = HeldBy(q)
      BY Zenon DEF HeldBy
    <3> QED
      BY <1>3, <1>4, <3>1
  <2>2. /\ \E try \in Tries : try.p = Top(q).p /\ new.tries = Append(req[q].tries, try)
        /\ \A i \in 1..Len(req[q].tries) : req[q].tries[i].p # Top(q).p
        /\ Len(req[q].tries) < MaxFallbackDepth /\ new \in Handlers /\ new.answer = "none"
    BY Zenon, <1>7
  <2> QED
    BY ZenonT(30), <1>2, <1>9, <2>1, <2>2, Tries1
<1> QED
  BY <1>10, <1>11 DEF Sound, Outcomes!Next

\* Outcome rewrites how the last try ended, and nothing else of the tries.
LEMMA OutcomeOf ==
  ASSUME IInv, NEW q \in Requests, Forwarding(q), NEW how \in Hows
  PROVE  /\ Outcome(q, how) \in Seq(Tries) /\ Outcome(q, how) # <<>>
         /\ Last(Outcome(q, how)).p = Top(q).p
         /\ Len(Outcome(q, how)) = Len(req[q].tries)
         /\ \A i \in 1..Len(req[q].tries) : Outcome(q, how)[i].p = req[q].tries[i].p
<1> DEFINE ts == req[q].tries
           last == [Last(ts) EXCEPT !.how = how]
           out == [ts EXCEPT ![Len(ts)] = last]
<1>1. ts \in Seq(Tries) /\ ts # <<>> /\ Last(ts).p = Top(q).p
  BY Zenon, HandlerFacts, TopFacts DEF Forwarding, Walk, Top
<1>2. Len(ts) \in Nat /\ Len(ts) >= 1 /\ Last(ts) \in Tries /\ Last(ts) = ts[Len(ts)]
  BY Zenon, <1>1, TopOf DEF Last
<1>3. last \in Tries /\ last.p = Top(q).p
  BY <1>1, <1>2 DEF Tries
<1>4. Outcome(q, how) = out
  BY Zenon, <1>1, <1>2 DEF Outcome
<1>5. IsReplaced(out, Tries, ts, last)
  <2>1. out = [ts EXCEPT ![Len(ts)] = last]
    OBVIOUS
  <2> HIDE DEF ts, last, out
  <2> QED
    BY Zenon, <1>1, <1>3, <2>1, Replaced
<1> HIDE DEF ts, last, out
<1>6. \A i \in 1..Len(ts) : out[i].p = ts[i].p
  <2>1. out[Len(ts)] = last
    BY <1>5 DEF IsReplaced, Last
  <2>2. last.p = ts[Len(ts)].p
    BY <1>1, <1>2, <1>3
  <2> QED
    BY <1>5, <2>1, <2>2 DEF IsReplaced
<1> QED
  BY ZenonT(30), <1>3, <1>4, <1>5, <1>6 DEF IsReplaced, ts

LEMMA SameTried ==
  ASSUME NEW h \in Handlers, NEW g \in Handlers, Len(g.tries) = Len(h.tries),
         \A i \in 1..Len(h.tries) : g.tries[i].p = h.tries[i].p
  PROVE  TriedOf(g) = TriedOf(h)
<1>1. DOMAIN h.tries = 1..Len(h.tries) /\ DOMAIN g.tries = 1..Len(h.tries)
  BY DEF Handlers
<1> QED
  BY Zenon, <1>1 DEF TriedOf

LEMMA AttemptFailsSound ==
  ASSUME IInv, NEW q \in Requests, AttemptFails(q) PROVE Sound
<1>1. PICK how \in Failures :
        req' = [req EXCEPT ![q].tries = Outcome(q, how), ![q].observed = @ \cup {ClassOf(how)},
                           ![q].stack = SetTop(q, Children(q))]
  BY Zenon DEF AttemptFails
<1>2. /\ Forwarding(q) /\ req[q].at = "walk" /\ Top(q).stage = "attempt" /\ how \in Hows
      /\ UNCHANGED catalogue /\ SettleSlot(q, Top(q).p, 0)
  BY DEF AttemptFails, Forwarding, Hows, Failures
<1> DEFINE ts == Outcome(q, how)
           child == Children(q)
           st == SetTop(q, child)
           seen == req[q].observed \cup {ClassOf(how)}
           new == [req[q] EXCEPT !.tries = ts, !.observed = seen, !.stack = st]
<1>3. req' = [req EXCEPT ![q] = new]
  BY ZenonT(60), <1>1, HandlerFacts DEF Handlers, IInv, TypeOK
<1>4. /\ ts \in Seq(Tries) /\ ts # <<>> /\ Len(ts) = Len(req[q].tries)
      /\ \A i \in 1..Len(req[q].tries) : ts[i].p = req[q].tries[i].p
  BY <1>2, OutcomeOf
<1>5. /\ Walk(req[q]) /\ req[q].answer = "none" /\ Top(q) \in Frames /\ Top(q).p \in Providers
      /\ Top(q).p \in DOMAIN catalogue /\ CandidateModel(q, Top(q).p) \in Models
      /\ req[q].stack \in Seq(Frames) /\ req[q].stack # <<>> /\ req[q] \in Handlers
  BY ZenonT(30), <1>2, TopFacts, HandlerFacts DEF Walk, Exists
<1>6. /\ child \in Frames /\ child.p = Top(q).p /\ child.stage = "children"
      /\ child.model # NoModel
  <2>1. /\ child \in Frames /\ child.p = Top(q).p /\ child.stage = "children"
        /\ child.model = CandidateModel(q, Top(q).p)
    BY Zenon, <1>5 DEF Children, Frames
  <2> QED
    BY Zenon, <1>5, <2>1, LLMRequestAssumption
<1>7. IsReplaced(st, Frames, req[q].stack, child)
  <2>1. st = [req[q].stack EXCEPT ![Len(req[q].stack)] = child]
    BY Zenon DEF SetTop
  <2>2. child \in Frames /\ req[q].stack \in Seq(Frames) /\ req[q].stack # <<>>
    BY <1>5, <1>6
  <2> HIDE DEF st, child
  <2> QED
    BY <2>1, <2>2, Replaced
<1>s. seen \in SUBSET Hows
  <2>1. req[q].observed \in SUBSET Hows
    BY Zenon, <1>5 DEF Handlers
  <2>2. ClassOf(how) \in Hows
    BY DEF ClassOf, Failures, Hows
  <2> QED
    BY Zenon, <2>1, <2>2
<1> HIDE DEF ts, child, st, seen
<1>8. new \in Handlers
  <2>1. st \in Seq(Frames) /\ ts \in Seq(Tries) /\ req[q] \in Handlers
    BY <1>4, <1>5, <1>7 DEF IsReplaced
  <2> QED
    BY ZenonT(30), <1>s, <2>1 DEF Handlers
<1>9. /\ new.at = "walk" /\ new.answer = "none" /\ new.ask = req[q].ask
      /\ new.tries = ts /\ new.stack = st /\ new.visited = req[q].visited
  BY ZenonT(60), <1>2, <1>5 DEF Handlers
<1> HIDE DEF new
<1>10. /\ slot' \in [Providers -> Requests \cup {Free}]
       /\ \A r \in Providers, other \in Requests :
            other # q => (slot'[r] = other <=> slot[r] = other)
       /\ \A r \in Providers : slot'[r] = q <=> slot[r] = q /\ r # Top(q).p
  BY <1>2, <1>5, Settles
<1>11. \A r \in Providers : slot'[r] # q
  <2>1. req[q].tries # <<>>
    BY ZenonT(30), <1>2, <1>5 DEF Walk, Top
  <2> QED
    BY ZenonT(30), <1>2, <1>10, <2>1, HandlerFacts DEF MayHold, Top
<1>12. Moves(q, new)
  BY ZenonT(30), <1>2, <1>3, <1>10 DEF Moves
<1>13. Shape(new)
  <2>0. Len(st) \in Nat /\ Len(st) >= 1 /\ st[Len(st)] = child /\ Last(st) = child
        /\ Len(st) = Len(req[q].stack) /\ st # <<>>
        /\ \A i \in 1..Len(st) : i # Len(st) => st[i] = req[q].stack[i]
    <3>1. st \in Seq(Frames) /\ st # <<>>
      BY Zenon, <1>7 DEF IsReplaced
    <3> QED
      BY <1>7, <3>1, TopOf DEF IsReplaced, Last
  <2>1. \A i \in 1..Len(st) : st[i].p \in DOMAIN catalogue
    BY ZenonT(30), <1>5, <1>6, <2>0 DEF Walk
  <2>2. \A i \in 1..Len(st) : st[i].stage = "children" /\ st[i].model # NoModel
    BY ZenonT(60), <1>5, <1>6, <2>0 DEF Walk
  <2>3. req[q].ask.primary \in req[q].visited
    BY Zenon, <1>2, <1>5 DEF Walk, Top
  <2>4. Walk(new)
    BY ZenonT(30), <1>4, <1>6, <1>9, <2>0, <2>1, <2>2, <2>3 DEF Walk
  <2> QED
    BY ZenonT(30), <1>2, <1>4, <1>9, <2>4, HandlerFacts DEF Shape
<1>14. IInv'
  BY Zenon, <1>8, <1>9, <1>11, <1>12, <1>13, GoesOn
<1>15. Outcomes!GiveBack(q) \/ UNCHANGED Outcomes!vars
  <2>1. TriedOf(new) = TriedOf(req[q])
    BY Zenon, <1>4, <1>5, <1>8, <1>9, SameTried
  <2>2. HeldBy(q)' = {}
    BY <1>11 DEF HeldBy
  <2> QED
    BY Zenon, <1>5, <1>8, <1>9, <1>12, <2>1, <2>2, GivesBack1
<1> QED
  BY <1>14, <1>15 DEF Sound, Outcomes!Next

LEMMA AttemptAnswersSound ==
  ASSUME IInv, NEW q \in Requests, AttemptAnswers(q) PROVE Sound
<1>1. PICK how \in {"ok", "rejected"} :
        req' = [req EXCEPT ![q].tries = Outcome(q, how), ![q].stack = <<>>,
                  ![q].observed = @ \cup ({how} \ {"ok"}),
                  ![q].at = IF how = "ok" THEN "relay" ELSE "reject"]
  BY Zenon DEF AttemptAnswers
<1>2. /\ Forwarding(q) /\ req[q].at = "walk" /\ Top(q).stage = "attempt" /\ how \in Hows
      /\ UNCHANGED <<catalogue, slot>>
  BY DEF AttemptAnswers, Forwarding, Hows
<1> DEFINE ts == Outcome(q, how)
           at == IF how = "ok" THEN "relay" ELSE "reject"
           seen == req[q].observed \cup ({how} \ {"ok"})
           new == [req[q] EXCEPT !.tries = ts, !.stack = <<>>, !.observed = seen, !.at = at]
<1>3. req' = [req EXCEPT ![q] = new]
  BY ZenonT(60), <1>1, HandlerFacts DEF Handlers, IInv, TypeOK
<1>4. /\ ts \in Seq(Tries) /\ ts # <<>> /\ Len(ts) = Len(req[q].tries)
      /\ Last(ts).p = Top(q).p
      /\ \A i \in 1..Len(req[q].tries) : ts[i].p = req[q].tries[i].p
  BY Zenon, <1>2, OutcomeOf
<1>5. /\ Walk(req[q]) /\ req[q].answer = "none" /\ req[q] \in Handlers
      /\ Exists(Primary(q)) /\ req[q].tries # <<>>
  BY Zenon, <1>2, TopFacts, HandlerFacts DEF Walk, Top
<1>6. at \in {"relay", "reject"} /\ at \in Stages /\ <<>> \in Seq(Frames)
  BY DEF Stages
<1>s. seen \in SUBSET Hows
  BY Zenon, <1>2, <1>5 DEF Handlers
<1> HIDE DEF ts, at, seen
<1>7. new \in Handlers
  BY Zenon, <1>4, <1>5, <1>6, <1>s DEF Handlers
<1>8. /\ new.at = at /\ new.answer = "none" /\ new.ask = req[q].ask
      /\ new.tries = ts /\ new.visited = req[q].visited
  BY <1>5 DEF Handlers
<1> HIDE DEF new
<1>9. Moves(q, new)
  BY <1>2, <1>3 DEF Moves, IInv, TypeOK
<1>10. Shape(new)
  BY ZenonT(30), <1>4, <1>5, <1>6, <1>8, HandlerFacts DEF Shape, Exists, Primary
<1>11. IInv'
  <2>1. \A p \in Providers : slot'[p] = q => MayHold(new, p)
    BY ZenonT(30), <1>2, <1>4, <1>5, <1>6, <1>8, HandlerFacts DEF MayHold, Top
  <2> QED
    BY ZenonT(30), <1>6, <1>7, <1>8, <1>9, <1>10, <2>1, GoesOn
<1>12. UNCHANGED Outcomes!vars
  <2>1. TriedOf(new) = TriedOf(req[q])
    BY Zenon, <1>4, <1>5, <1>7, <1>8, SameTried
  <2> QED
    BY ZenonT(30), <1>2, <1>5, <1>7, <1>8, <1>9, <2>1, Stutters
<1> QED
  BY <1>11, <1>12 DEF Sound

\* The stack after a step of walkChildren: every frame but the last waits for its
\* children, and the last is a child that was pushed or the parent itself.
Grown(st) ==
  /\ st \in Seq(Frames) /\ st # <<>> /\ Last(st).stage # "attempt"
  /\ \A i \in 1..Len(st) :
       /\ st[i].p \in DOMAIN catalogue
       /\ i # Len(st) => st[i].stage = "children"
       /\ st[i].stage = "children" => st[i].model # NoModel

LEMMA ChildStep ==
  ASSUME IInv, NEW q \in Requests, req[q].at = "walk", Top(q).stage = "children",
         NEW st, Grown(st), NEW mf \in [Providers -> Models \cup {NoModel}],
         req' = [req EXCEPT ![q] = [req[q] EXCEPT !.stack = st, !.modelFor = mf]],
         UNCHANGED <<catalogue, slot>>
  PROVE  Sound
<1> DEFINE new == [req[q] EXCEPT !.stack = st, !.modelFor = mf]
<1>1. /\ Walk(req[q]) /\ req[q].answer = "none" /\ req[q] \in Handlers /\ req[q].tries # <<>>
      /\ req[q].ask.primary \in req[q].visited
  BY TopFacts, HandlerFacts DEF Walk, Top
<1>2. st \in Seq(Frames)
  BY DEF Grown
<1>3. new \in Handlers
  BY Zenon, <1>1, <1>2 DEF Handlers
<1>4. /\ new.at = "walk" /\ new.answer = "none" /\ new.ask = req[q].ask
      /\ new.tries = req[q].tries /\ new.stack = st /\ new.visited = req[q].visited
  BY <1>1 DEF Handlers
<1>5. req' = [req EXCEPT ![q] = new]
  OBVIOUS
<1> HIDE DEF new
<1>6. Moves(q, new)
  BY ZenonT(60), <1>5 DEF Moves, IInv, TypeOK
<1>7. Walk(new)
  BY <1>1, <1>4 DEF Walk, Grown
<1>8. Shape(new)
  BY <1>1, <1>4, <1>7, HandlerFacts DEF Shape
<1>9. IInv'
  <2>1. \A p \in Providers : slot'[p] # q
    BY <1>1, HandlerFacts DEF MayHold, Top
  <2> QED
    BY Zenon, <1>3, <1>4, <1>6, <1>8, <2>1, GoesOn
<1>10. UNCHANGED Outcomes!vars
  <2>1. TriedOf(new) = TriedOf(req[q])
    BY Zenon, <1>4 DEF TriedOf
  <2> QED
    BY <1>1, <1>3, <1>4, <1>6, <2>1, Stutters
<1> QED
  BY ZenonT(60), <1>9, <1>10 DEF Sound

LEMMA NextChildSound ==
  ASSUME IInv, NEW q \in Requests, NextChild(q) PROVE Sound
<1> DEFINE f == Top(q)
           refs == catalogue[f.p].fallback
           ref == refs[f.i]
           on == [f EXCEPT !.i = @ + 1]
           st == SetTop(q, on)
<1>0. req[q].at = "walk" /\ f.stage = "children" /\ UNCHANGED catalogue
  BY Zenon DEF NextChild
<1>1. /\ Walk(req[q]) /\ f \in Frames /\ f.p \in DOMAIN catalogue /\ req[q] \in Handlers
      /\ f = req[q].stack[Len(req[q].stack)] /\ Len(req[q].stack) \in Nat
      /\ Len(req[q].stack) >= 1
  BY ZenonT(30), <1>0, TopFacts, HandlerFacts DEF Exists
<1>2. f.model \in Models /\ f.i \in Nat \ {0}
  <2>1. f.model \in Models \cup {NoModel} /\ f.i \in Nat \ {0}
    BY <1>1 DEF Frames
  <2>2. \A i \in 1..Len(req[q].stack) :
          req[q].stack[i].stage = "children" => req[q].stack[i].model # NoModel
    BY Zenon, <1>1 DEF Walk
  <2>3. Len(req[q].stack) \in 1..Len(req[q].stack)
    BY <1>1
  <2>4. f.model # NoModel
    BY Zenon, <1>0, <1>1, <2>2, <2>3
  <2> QED
    BY ZenonT(60), <2>1, <2>4
<1>3. refs \in Seq([to : Providers, modelMap : [Models -> Models]])
  BY ZenonT(30), <1>1, HandlerFacts, LLMRequestAssumption
<1>4. CASE f.i > Len(refs) /\ NotOk(q, req[q].visited)
  <2>1. req[q].visited \in SUBSET Providers
    BY Zenon, <1>1 DEF Handlers
  <2> QED
    BY Zenon, <1>0, <1>4, <2>1, NotOkSound
<1>5. CASE /\ f.i <= Len(refs) /\ UNCHANGED slot
           /\ req' = [req EXCEPT ![q] =
                IF Exists(ref.to)
                  THEN [req[q] EXCEPT !.stack = Append(st, Frame(ref.to)),
                                      !.modelFor[ref.to] = ref.modelMap[f.model]]
                  ELSE [req[q] EXCEPT !.stack = st]]
  <2>1. ref.to \in Providers /\ ref.modelMap[f.model] \in Models
    <3>1. ref \in [to : Providers, modelMap : [Models -> Models]]
      <4>1. f.i <= Len(refs)
        BY <1>5
      <4> DEFINE i == f.i
                 S == [to : Providers, modelMap : [Models -> Models]]
      <4>2. i \in Nat \ {0} /\ refs \in Seq(S) /\ i <= Len(refs)
        BY <1>2, <1>3, <4>1
      <4> HIDE DEF refs, i, S
      <4>3. refs[i] \in S
        BY <4>2
      <4> QED
        BY ZenonT(60), <4>3 DEF i, S
    <3> QED
      BY Zenon, <1>2, <3>1
  <2>2. on \in Frames /\ on.p = f.p /\ on.stage = "children" /\ on.model = f.model
    BY <1>0, <1>1 DEF Frames
  <2>3. IsReplaced(st, Frames, req[q].stack, on)
    <3>1. st = [req[q].stack EXCEPT ![Len(req[q].stack)] = on]
      BY Zenon DEF SetTop
    <3>2. on \in Frames /\ req[q].stack \in Seq(Frames) /\ req[q].stack # <<>>
      BY ZenonT(60), <1>1, <2>2, HandlerFacts DEF Walk
    <3> HIDE DEF st, on
    <3> QED
      BY <3>1, <3>2, Replaced
  <2> HIDE DEF st, on
  <2>4. /\ st \in Seq(Frames) /\ st # <<>> /\ Last(st).stage = "children"
        /\ Len(st) \in Nat
        /\ \A i \in 1..Len(st) : /\ st[i].p \in DOMAIN catalogue /\ st[i].stage = "children"
                                 /\ st[i].model # NoModel
    <3>1. st \in Seq(Frames) /\ st # <<>> /\ Last(st) = on /\ Len(st) = Len(req[q].stack)
      BY <2>3 DEF IsReplaced
    <3>2. st[Len(st)] = on
      BY Zenon, <3>1 DEF Last
    <3>3. \A i \in 1..Len(st) : i # Len(st) => st[i] = req[q].stack[i]
      BY Zenon, <2>3, <3>1 DEF IsReplaced
    <3>4. f.model # NoModel
      BY Zenon, <1>2, LLMRequestAssumption
    <3>5. \A i \in 1..Len(st) : /\ st[i].p \in DOMAIN catalogue /\ st[i].stage = "children"
                                /\ st[i].model # NoModel
      BY ZenonT(60), <1>1, <2>2, <3>1, <3>2, <3>3, <3>4 DEF Walk
    <3> QED
      BY <2>2, <3>1, <3>5
  <2>5. CASE Exists(ref.to)
    <3> DEFINE child == Frame(ref.to)
               pushed == Append(st, child)
               mf == [req[q].modelFor EXCEPT ![ref.to] = ref.modelMap[f.model]]
    <3>1. req' = [req EXCEPT ![q] = [req[q] EXCEPT !.stack = pushed, !.modelFor = mf]]
      BY ZenonT(30), <1>1, <1>5, <2>5 DEF Handlers
    <3>2. mf \in [Providers -> Models \cup {NoModel}]
      BY ZenonT(30), <2>1, HandlerFacts
    <3>3. child \in Frames /\ child.p = ref.to /\ child.stage = "enter"
      BY Zenon, <2>1, NewFrame
    <3>4. IsAppended(pushed, Frames, st, child)
      <4>1. st \in Seq(Frames) /\ child \in Frames /\ pushed = Append(st, child)
        BY Zenon, <2>4, <3>3
      <4> HIDE DEF pushed, child
      <4> QED
        BY ZenonT(30), <4>1, Appended
    <3> HIDE DEF pushed, child, mf
    <3>5. Grown(pushed)
      <4>1. /\ pushed \in Seq(Frames) /\ pushed # <<>> /\ Last(pushed) = child
            /\ Len(pushed) = Len(st) + 1 /\ pushed[Len(st) + 1] = child
            /\ \A i \in 1..Len(st) : pushed[i] = st[i]
        BY ZenonT(60), <3>4 DEF IsAppended, Last
      <4>2. child.p \in DOMAIN catalogue
        BY <2>5, <3>3 DEF Exists
      <4>3. \A i \in 1..Len(pushed) : i # Len(pushed) => i \in 1..Len(st)
        BY <2>4, <4>1
      <4> QED
        BY Zenon, <2>4, <3>3, <4>1, <4>2, <4>3 DEF Grown
    <3> QED
      BY ZenonT(30), <1>0, <1>5, <3>1, <3>2, <3>5, ChildStep
  <2>6. CASE ~Exists(ref.to)
    <3>1. req' = [req EXCEPT ![q] = [req[q] EXCEPT !.stack = st, !.modelFor = req[q].modelFor]]
      BY ZenonT(30), <1>1, <1>5, <2>6 DEF Handlers
    <3>2. Grown(st)
      BY Zenon, <2>4 DEF Grown
    <3>3. req[q].modelFor \in [Providers -> Models \cup {NoModel}]
      BY Zenon, HandlerFacts
    <3> QED
      BY ZenonT(60), <1>0, <1>5, <3>1, <3>2, <3>3, ChildStep
  <2> QED
    BY Zenon, <2>5, <2>6
<1> QED
  BY Zenon, <1>4, <1>5 DEF NextChild

-----------------------------------------------------------------------------
(* The answer *)

LEMMA WinnerFacts ==
  ASSUME IInv, NEW q \in Requests, req[q].at \in {"relay", "reject"}
  PROVE  /\ req[q].tries # <<>> /\ Winner(q) \in Providers /\ req[q].answer = "none"
         /\ \A p \in Providers : slot[p] = q => p = Winner(q)
<1>1. req[q].tries \in Seq(Tries) /\ req[q].tries # <<>> /\ req[q].answer = "none"
  BY Zenon, HandlerFacts DEF Shape, AnsweredOnce
<1>2. Last(req[q].tries) \in Tries
  BY Zenon, <1>1, TopOf
<1>3. Winner(q) \in Providers
  BY <1>2 DEF Winner, Tries
<1> QED
  BY Zenon, <1>1, <1>3, HandlerFacts DEF MayHold, Winner

\* The winner's answer, with its slot settled.
LEMMA WinnerAnswers ==
  ASSUME IInv, NEW q \in Requests, req[q].at \in {"relay", "reject"},
         req' = [req EXCEPT ![q].at = "done", ![q].answer = Winner(q)], UNCHANGED catalogue,
         NEW cost, SettleSlot(q, Winner(q), cost) \/ (slot[Winner(q)] # q /\ UNCHANGED slot)
  PROVE  Sound
<1> DEFINE new == [req[q] EXCEPT !.at = "done", !.answer = Winner(q)]
<1>0. /\ req[q].tries # <<>> /\ Winner(q) \in Providers /\ req[q].answer = "none"
      /\ \A p \in Providers : slot[p] = q => p = Winner(q)
  BY WinnerFacts
<1>1. req' = [req EXCEPT ![q] = new]
  BY Zenon, HandlerFacts DEF Handlers, IInv, TypeOK
<1>2. req[q] \in Handlers /\ "done" \in Stages /\ Winner(q) \in Answers
  BY <1>0, HandlerFacts DEF Stages, Answers
<1>3. new \in Handlers
  BY Zenon, <1>2 DEF Handlers
<1>4. /\ new.at = "done" /\ new.answer = Winner(q) /\ new.tries = req[q].tries
      /\ new.visited = req[q].visited
  BY <1>2 DEF Handlers
<1> HIDE DEF new
<1>5. /\ slot' \in [Providers -> Requests \cup {Free}]
      /\ \A r \in Providers, other \in Requests :
           other # q => (slot'[r] = other <=> slot[r] = other)
      /\ \A r \in Providers : slot'[r] # q
  <2>1. CASE SettleSlot(q, Winner(q), cost)
    BY <1>0, <2>1, Settles
  <2>2. CASE slot[Winner(q)] # q /\ UNCHANGED slot
    BY <1>0, <2>2 DEF IInv, TypeOK
  <2> QED
    BY <2>1, <2>2
<1>6. Moves(q, new)
  BY Zenon, <1>1, <1>5 DEF Moves
<1>7. /\ new.answer \notin Exhaustions /\ new.answer # "none"
  BY Zenon, <1>0, <1>4, LLMRequestAssumption
<1>8. AnsweredOnce(new) /\ Shape(new)
  <2>1. Shape(new)
    BY <1>4, HandlerFacts DEF Shape
  <2> QED
    BY ZenonT(60), <1>4, <1>7, <2>1 DEF AnsweredOnce
<1>9. IInv'
  BY Zenon, <1>3, <1>5, <1>6, <1>8, HandlerStep
<1>10. Outcomes!Answer(q)
  BY Zenon, <1>0, <1>3, <1>4, <1>5, <1>6, Answers1 DEF Winner
<1> QED
  BY <1>9, <1>10 DEF Sound, Outcomes!Next

LEMMA RelayErrorSound ==
  ASSUME IInv, NEW q \in Requests, RelayError(q) PROVE Sound
BY Zenon, WinnerAnswers DEF RelayError

LEMMA RelayEndSound ==
  ASSUME IInv, NEW q \in Requests, RelayEnd(q) PROVE Sound
<1>1. CASE slot[Winner(q)] = q
  BY Zenon, <1>1, WinnerAnswers DEF RelayEnd
<1>2. CASE slot[Winner(q)] # q
  BY Zenon, <1>2, WinnerAnswers DEF RelayEnd
<1> QED
  BY <1>1, <1>2

LEMMA RelayEventSound ==
  ASSUME IInv, NEW q \in Requests, RelayEvent(q) PROVE Sound
<1> DEFINE new == [req[q] EXCEPT !.usage = @ + 1]
<1>0. /\ req[q].at = "relay" /\ UNCHANGED <<catalogue, slot>> /\ req' = [req EXCEPT ![q] = new]
  BY HandlerFacts DEF RelayEvent, Handlers, IInv, TypeOK
<1>1. /\ req[q] \in Handlers /\ req[q].answer = "none"
  BY <1>0, HandlerFacts, WinnerFacts
<1>u. req[q].usage \in Nat
  BY ZenonT(60), <1>1 DEF Handlers
<1>w. req[q].usage + 1 \in Nat
  BY <1>u
<1>2. new \in Handlers
  BY ZenonT(60), <1>1, <1>w DEF Handlers
<1>3. /\ new.at = "relay" /\ new.answer = "none" /\ new.tries = req[q].tries
      /\ new.visited = req[q].visited /\ new.ask = req[q].ask
  BY <1>0, <1>1 DEF Handlers
<1> HIDE DEF new
<1>4. Moves(q, new)
  BY Zenon, <1>0 DEF Moves, IInv, TypeOK
<1>5. Shape(new)
  BY ZenonT(30), <1>0, <1>3, HandlerFacts DEF Shape
<1>6. IInv'
  <2>1. \A p \in Providers : slot'[p] = q => MayHold(new, p)
    BY Zenon, <1>0, <1>3, WinnerFacts DEF MayHold, Winner
  <2> QED
    BY ZenonT(30), <1>2, <1>3, <1>4, <1>5, <2>1, GoesOn
<1>7. UNCHANGED Outcomes!vars
  <2>1. TriedOf(new) = TriedOf(req[q])
    BY <1>3 DEF TriedOf
  <2> QED
    BY ZenonT(30), <1>0, <1>1, <1>2, <1>3, <1>4, <2>1, Stutters
<1> QED
  BY <1>6, <1>7 DEF Sound

-----------------------------------------------------------------------------
(* The theorems *)

LEMMA InitSound == Init => IInv /\ Outcomes!Init
<1> SUFFICES ASSUME Init PROVE IInv /\ Outcomes!Init
  BY Zenon
<1>1. PICK asks \in [Requests -> UNION {Asks[q] : q \in Requests}] :
        /\ \A q \in Requests : asks[q] \in Asks[q]
        /\ req = [q \in Requests |-> NewRequest(asks[q])]
  BY DEF Init
<1>2. \A q \in Requests : asks[q] \in AllAsks
  BY ZenonT(60), <1>1, LLMRequestAssumption DEF AllAsks
<1>3. ASSUME NEW q \in Requests
      PROVE  /\ req[q] \in Handlers /\ req[q].at = "route" /\ req[q].answer = "none"
             /\ req[q].tries = <<>>
  <2>1. /\ asks[q] \in AllAsks /\ asks[q].model \in Models
    BY <1>2 DEF AllAsks
  <2>2. req[q] = NewRequest(asks[q])
    BY <1>1
  <2>3. /\ <<>> \in Seq(Frames) /\ <<>> \in Seq(Tries) /\ "route" \in Stages
        /\ "none" \in Answers /\ {} \in SUBSET Providers /\ {} \in SUBSET Hows /\ 0 \in Nat
        /\ [p \in Providers |-> NoModel] \in [Providers -> Models \cup {NoModel}]
    BY DEF Stages, Answers
  <2>4. req[q] \in Handlers
    BY SMTT(60), <2>1, <2>2, <2>3 DEF NewRequest, Handlers
  <2> QED
    BY <2>2, <2>4 DEF NewRequest
<1>4. slot \in [Providers -> Requests \cup {Free}] /\ \A p \in Providers : slot[p] = Free
  BY Zenon DEF Init
<1>5. IInv
  <2>1. req \in [Requests -> Handlers]
    BY ZenonT(30), <1>1, <1>3
  <2>2. TypeOK
    BY <1>4, <2>1 DEF Init, TypeOK
  <2>3. \A q \in Requests : AnsweredOnce(req[q]) /\ Shape(req[q])
    <3> SUFFICES ASSUME NEW q \in Requests
                 PROVE  AnsweredOnce(req[q]) /\ Shape(req[q])
      OBVIOUS
    <3>1. /\ req[q].at = "route" /\ req[q].answer = "none" /\ req[q].tries = <<>>
          /\ 1..Len(req[q].tries) = {}
      BY <1>3
    <3>2. AnsweredOnce(req[q])
      BY Zenon, <3>1 DEF AnsweredOnce
    <3>3. Shape(req[q])
      BY Zenon, <3>1 DEF Shape
    <3> QED
      BY <3>2, <3>3
  <2>4. \A q \in Requests, p \in Providers : slot[p] # q
    BY <1>4, LLMRequestAssumption
  <2> QED
    BY Zenon, <2>2, <2>3, <2>4 DEF IInv
<1>6. \A q \in Requests : TriedBy(q) = <<>> /\ HeldBy(q) = {} /\ AnswerOf(q) = "none"
  <2>1. \A q \in Requests : TriedBy(q) = <<>>
    BY <1>3 DEF TriedBy
  <2>2. \A q \in Requests : HeldBy(q) = {}
    BY <1>4, LLMRequestAssumption DEF HeldBy
  <2>3. \A q \in Requests : AnswerOf(q) = "none"
    BY <1>3 DEF AnswerOf, Exhaustions
  <2> QED
    BY ZenonT(30), <2>1, <2>2, <2>3
<1> QED
  BY <1>5, <1>6 DEF Outcomes!Init, Outcomes!NoAnswer

LEMMA NextSound == IInv /\ [Next]_vars => Sound
<1> SUFFICES ASSUME IInv, [Next]_vars PROVE Sound
  OBVIOUS
<1>1. CASE UNCHANGED vars
  <2>1. UNCHANGED <<catalogue, req, slot>>
    BY Zenon, <1>1 DEF vars
  <2>2. IInv'
    <3>1. TypeOK'
      BY <2>1 DEF IInv, TypeOK
    <3>2. ASSUME NEW q \in Requests
          PROVE  (AnsweredOnce(req[q]) /\ Shape(req[q]))'
      <4>1. AnsweredOnce(req[q])'
        BY Zenon, <2>1 DEF IInv, AnsweredOnce
      <4>2. Shape(req[q])'
        BY ZenonT(30), <2>1 DEF IInv, Shape, Walk
      <4> QED
        BY ZenonT(30), <4>1, <4>2
    <3>3. ASSUME NEW q \in Requests, NEW p \in Providers PROVE (slot[p] = q => MayHold(req[q], p))'
      BY <2>1 DEF IInv, MayHold
    <3> QED
      BY Zenon, <3>1, <3>2, <3>3 DEF IInv
  <2>3. UNCHANGED Outcomes!vars
    BY <2>1 DEF Outcomes!vars, TriedBy, HeldBy, AnswerOf
  <2> QED
    BY <2>2, <2>3 DEF Sound
<1>2. ASSUME NEW q \in Requests, Handle(q) PROVE Sound
  BY Zenon, <1>2, RouteSound, AdmitPrimarySound, TakeTokenSound, SkipSound, EnterPrimarySound,
     EnterFallbackSound, AttemptFailsSound, AttemptAnswersSound, NextChildSound,
     RelayErrorSound, RelayEventSound, RelayEndSound DEF Handle
<1> QED
  BY <1>1, <1>2 DEF Next, Finished

\* The handlers' invariant: one answer at the end, a walk whose parents wait for
\* their children and whose tries were all visited, and no slot but the one of
\* the provider a handler is about (MayHold).
THEOREM Invariant == Spec => []IInv
<1>1. Init => IInv
  BY InitSound
<1>2. IInv /\ [Next]_vars => IInv'
  BY NextSound DEF Sound
<1> QED
  BY <1>1, <1>2, PTL DEF Spec

\* tryWithFallbacks and walkChildren implement RequestOutcome, whatever the
\* fallback graph: no provider is tried twice, no more of them than
\* maxFallbackDepth, one slot at most and that of the provider at work, one
\* answer with nothing held after it.
THEOREM Implements == Spec => ImplementsOutcome
<1>1. Init => Outcomes!Init
  BY InitSound
<1>2. IInv /\ [Next]_vars => [Outcomes!Next]_(Outcomes!vars)
  BY NextSound DEF Sound
<1> QED
  BY <1>1, <1>2, Invariant, PTL DEF Spec, ImplementsOutcome, Outcomes!Spec

-----------------------------------------------------------------------------
(* The cause *)

\* What the walk has collected: O are the classes of the tries that are over, the
\* only try that is not over is the last one, while it is being forwarded, and
\* the first try is the primary's, which no budget refuses here.
Gathered(ts, O, busy) ==
  /\ \A i \in 1..Len(ts) : ts[i].how # "started" =>
       ts[i].how \in Failures \cup {"budget", "unavailable"} /\ ClassOf(ts[i].how) \in O
  /\ \A c \in O : \E i \in 1..Len(ts) : ts[i].how # "started" /\ ClassOf(ts[i].how) = c
  /\ \A i \in 1..Len(ts) : ts[i].how = "started" => i = Len(ts) /\ busy
  /\ busy => ts # <<>> /\ ts[Len(ts)].how = "started"
  /\ ts # <<>> => ts[1].how \notin {"budget", "unavailable"}

\* AnswerNamesTheCause, of one handler's tries and answer.
Names(ts, a) ==
  LET all(hows) == ts # <<>> /\ \A i \in 1..Len(ts) : ts[i].how \in hows
  IN a \in Exhaustions =>
       /\ a = "unreachable" <=> all({"connect", "cut"})
       /\ a = "timedOut" <=> all({"timeout"})
       /\ a \notin {"budgetExhausted", "budgetUnavailable"}

Traced(h) ==
  /\ h.at \in {"route", "admit", "rate"} => h.observed = {}
  /\ h.at = "walk" => Gathered(h.tries, h.observed, Last(h.stack).stage = "attempt")
  /\ Names(h.tries, h.answer)
CauseInv == \A q \in Requests : Traced(req[q])

LEMMA GatheredUse ==
  ASSUME NEW ts \in Seq(Tries), NEW O, Gathered(ts, O, FALSE), NEW try \in Tries,
         try.how \in {"started", "budget", "unavailable"}, ts = <<>> => try.how = "started",
         NEW us, IsAppended(us, Tries, ts, try)
  PROVE  Gathered(us, O \cup ({try.how} \ {"started"}), try.how = "started")
<1> DEFINE n == Len(ts)
           P == O \cup ({try.how} \ {"started"})
<1>1. /\ n \in Nat /\ Len(us) = n + 1 /\ us[n + 1] = try /\ us # <<>>
      /\ \A i \in 1..n : us[i] = ts[i] /\ us[i].how # "started"
      /\ \A i \in 1..(n + 1) : i = n + 1 \/ i \in 1..n
      /\ \A i \in 1..n : i \in 1..(n + 1)
  BY DEF IsAppended, Last, Gathered
<1>2. ClassOf(try.how) = try.how
  BY DEF ClassOf
<1>3. \A i \in 1..Len(us) : us[i].how # "started" =>
        us[i].how \in Failures \cup {"budget", "unavailable"} /\ ClassOf(us[i].how) \in P
  <2> SUFFICES ASSUME NEW i \in 1..(n + 1), us[i].how # "started"
               PROVE  us[i].how \in Failures \cup {"budget", "unavailable"} /\ ClassOf(us[i].how) \in P
    BY Zenon, <1>1
  <2>1. CASE i = n + 1
    BY <1>1, <1>2, <2>1
  <2>2. CASE i \in 1..n
    BY Zenon, <1>1, <2>2 DEF Gathered
  <2> QED
    BY Zenon, <1>1, <2>1, <2>2
<1>4. \A c \in P : \E i \in 1..Len(us) : us[i].how # "started" /\ ClassOf(us[i].how) = c
  <2> SUFFICES ASSUME NEW c \in P
               PROVE  \E i \in 1..(n + 1) : us[i].how # "started" /\ ClassOf(us[i].how) = c
    BY Zenon, <1>1
  <2>1. CASE c \in O
    <3>1. PICK i \in 1..n : ts[i].how # "started" /\ ClassOf(ts[i].how) = c
      BY Zenon, <2>1 DEF Gathered
    <3> QED
      BY Zenon, <1>1, <3>1
  <2>2. CASE c \notin O
    <3>1. c = try.how /\ try.how # "started"
      BY Zenon, <2>2
    <3>2. n + 1 \in 1..(n + 1)
      BY <1>1
    <3> QED
      BY Zenon, <1>1, <1>2, <3>1, <3>2
  <2> QED
    BY Zenon, <2>1, <2>2
<1>5. us[1].how \notin {"budget", "unavailable"}
  <2>1. CASE ts = <<>>
    <3>1. n = 0
      BY <2>1
    <3> QED
      BY <1>1, <2>1, <3>1
  <2>2. CASE ts # <<>>
    <3>1. 1 \in 1..n
      BY <2>2
    <3> QED
      BY Zenon, <1>1, <2>2, <3>1 DEF Gathered
  <2> QED
    BY Zenon, <2>1, <2>2
<1> HIDE DEF n, P
<1>6. \A i \in 1..Len(us) : us[i].how = "started" => i = Len(us) /\ try.how = "started"
  BY Zenon, <1>1
<1>7. Gathered(us, P, try.how = "started")
  BY Zenon, <1>1, <1>3, <1>4, <1>5, <1>6 DEF Gathered
<1> QED
  BY Zenon, <1>7 DEF P

LEMMA GatheredFailure ==
  ASSUME NEW ts \in Seq(Tries), NEW O, Gathered(ts, O, TRUE), NEW last \in Tries,
         last.how \in Failures, NEW us, IsReplaced(us, Tries, ts, last)
  PROVE  Gathered(us, O \cup {ClassOf(last.how)}, FALSE)
<1> DEFINE n == Len(ts)
           P == O \cup {ClassOf(last.how)}
<1>1. /\ n \in Nat /\ n >= 1 /\ Len(us) = n /\ us[n] = last /\ n \in 1..n /\ 1 \in 1..n
      /\ ts # <<>> /\ ts[n].how = "started"
      /\ \A i \in 1..n : i # n => us[i] = ts[i]
      /\ \A i \in 1..n : i # n => ts[i].how # "started"
  <2>1. ts # <<>> /\ ts[n].how = "started"
    BY Zenon DEF Gathered
  <2>2. n \in Nat /\ n >= 1
    BY <2>1
  <2>3. n \in 1..n /\ 1 \in 1..n
    BY <2>2
  <2>4. \A i \in 1..n : i # n => ts[i].how # "started"
    BY Zenon DEF Gathered
  <2> QED
    BY Zenon, <2>1, <2>2, <2>3, <2>4 DEF IsReplaced, Last
<1>2. last.how # "started" /\ last.how \notin {"budget", "unavailable"}
  BY DEF Failures
<1> HIDE DEF n
<1>3. \A i \in 1..Len(us) : us[i].how # "started" /\
        us[i].how \in Failures \cup {"budget", "unavailable"} /\ ClassOf(us[i].how) \in P
  <2> SUFFICES ASSUME NEW i \in 1..n
               PROVE  /\ us[i].how # "started" /\ ClassOf(us[i].how) \in P
                      /\ us[i].how \in Failures \cup {"budget", "unavailable"}
    BY Zenon, <1>1
  <2>1. CASE i = n
    BY Zenon, <1>1, <1>2, <2>1
  <2>2. CASE i # n
    <3>1. us[i] = ts[i] /\ ts[i].how # "started"
      BY Zenon, <1>1, <2>2
    <3> QED
      BY Zenon, <3>1 DEF Gathered, n
  <2> QED
    BY Zenon, <2>1, <2>2
<1>4. \A c \in P : \E i \in 1..Len(us) : us[i].how # "started" /\ ClassOf(us[i].how) = c
  <2> SUFFICES ASSUME NEW c \in P PROVE \E i \in 1..n : ClassOf(us[i].how) = c
    BY Zenon, <1>1, <1>3
  <2>1. CASE c \in O
    <3>1. PICK i \in 1..n : ts[i].how # "started" /\ ClassOf(ts[i].how) = c
      BY Zenon, <2>1 DEF Gathered, n
    <3> QED
      BY Zenon, <1>1, <3>1
  <2>2. CASE c = ClassOf(last.how)
    BY Zenon, <1>1, <2>2
  <2> QED
    BY Zenon, <2>1, <2>2
<1>5. us[1].how \notin {"budget", "unavailable"}
  <2>1. CASE n = 1
    BY Zenon, <1>1, <1>2, <2>1
  <2>2. CASE n # 1
    BY Zenon, <1>1, <2>2 DEF Gathered
  <2> QED
    BY Zenon, <2>1, <2>2
<1> HIDE DEF P
<1>6. Gathered(us, P, FALSE)
  BY Zenon, <1>3, <1>4, <1>5 DEF Gathered
<1> QED
  BY Zenon, <1>6 DEF P

\* exhaustionError, of what the walk has collected.
LEMMA GatheredCause ==
  ASSUME NEW q, NEW ts \in Seq(Tries), Gathered(ts, req[q].observed, FALSE)
  PROVE  Names(ts, ExhaustionError(q))
<1> DEFINE O == req[q].observed
           a == ExhaustionError(q)
           all(hows) == ts # <<>> /\ \A i \in 1..Len(ts) : ts[i].how \in hows
<1>1. /\ \A i \in 1..Len(ts) : ts[i].how \in Failures \cup {"budget", "unavailable"}
      /\ \A i \in 1..Len(ts) : ClassOf(ts[i].how) \in O
      /\ \A c \in O : \E i \in 1..Len(ts) : ClassOf(ts[i].how) = c
  BY Zenon DEF Gathered
<1>2. CASE ts = <<>>
  <2>1. 1..Len(ts) = {}
    BY <1>2
  <2>2. O = {}
    BY Zenon, <1>1, <2>1
  <2>3. a = "providerError"
    BY <2>2 DEF ExhaustionError
  <2> QED
    BY <1>2, <2>3 DEF Names
<1>3. CASE ts # <<>>
  <2>0. 1 \in 1..Len(ts)
    BY <1>3
  <2>1. ~(O \subseteq {"budget", "unavailable"})
    <3>1. ts[1].how \in Failures
      BY Zenon, <1>1, <1>3, <2>0 DEF Gathered
    <3>2. ClassOf(ts[1].how) \notin {"budget", "unavailable"}
      BY <3>1 DEF ClassOf, Failures
    <3> QED
      BY Zenon, <1>1, <2>0, <3>2
  <2>2. O # {}
    BY Zenon, <2>1
  <2>3. a = IF O = {"connect"} THEN "unreachable"
            ELSE IF O = {"timeout"} THEN "timedOut" ELSE "providerError"
    BY <2>1 DEF ExhaustionError
  <2>4. O = {"connect"} <=> all({"connect", "cut"})
    <3>1. ASSUME NEW h \in Failures \cup {"budget", "unavailable"}
          PROVE  ClassOf(h) = "connect" <=> h \in {"connect", "cut"}
      BY DEF ClassOf, Failures
    <3>2. ASSUME O = {"connect"} PROVE all({"connect", "cut"})
      <4>1. \A i \in 1..Len(ts) : ClassOf(ts[i].how) = "connect"
        BY Zenon, <1>1, <3>2
      <4> QED
        BY Zenon, <1>1, <1>3, <3>1, <4>1
    <3>3. ASSUME all({"connect", "cut"}) PROVE O = {"connect"}
      <4>1. \A i \in 1..Len(ts) : ClassOf(ts[i].how) = "connect"
        BY Zenon, <1>1, <3>1, <3>3
      <4>2. \A x \in O : x = "connect"
        BY Zenon, <1>1, <4>1
      <4> QED
        BY Zenon, <2>2, <4>2
    <3> QED
      BY Zenon, <3>2, <3>3
  <2>5. O = {"timeout"} <=> all({"timeout"})
    <3>1. ASSUME NEW h \in Failures \cup {"budget", "unavailable"}
          PROVE  ClassOf(h) = "timeout" <=> h \in {"timeout"}
      BY DEF ClassOf, Failures
    <3>2. ASSUME O = {"timeout"} PROVE all({"timeout"})
      <4>1. \A i \in 1..Len(ts) : ClassOf(ts[i].how) = "timeout"
        BY Zenon, <1>1, <3>2
      <4> QED
        BY Zenon, <1>1, <1>3, <3>1, <4>1
    <3>3. ASSUME all({"timeout"}) PROVE O = {"timeout"}
      <4>1. \A i \in 1..Len(ts) : ClassOf(ts[i].how) = "timeout"
        BY Zenon, <1>1, <3>1, <3>3
      <4>2. \A x \in O : x = "timeout"
        BY Zenon, <1>1, <4>1
      <4> QED
        BY Zenon, <2>2, <4>2
    <3> QED
      BY Zenon, <3>2, <3>3
  <2> HIDE DEF O, a
  <2>6. /\ a = "unreachable" <=> O = {"connect"}
        /\ a = "timedOut" <=> O = {"timeout"}
        /\ a \notin {"budgetExhausted", "budgetUnavailable"}
    BY <2>3
  <2> QED
    BY Zenon, <2>4, <2>5, <2>6 DEF Names, a
<1> QED
  BY Zenon, <1>2, <1>3

LEMMA NamesNone ==
  ASSUME NEW ts, NEW a, a \notin Exhaustions PROVE Names(ts, a)
BY Zenon DEF Names

LEMMA TracedStep ==
  ASSUME IInv, CauseInv, NEW q \in Requests, NEW new, req' = [req EXCEPT ![q] = new], Traced(new)
  PROVE  CauseInv'
<1>1. DOMAIN req = Requests
  BY Zenon DEF IInv, TypeOK
<1>2. \A o \in Requests : req'[o] = new \/ req'[o] = req[o]
  BY Zenon, <1>1
<1>3. \A o \in Requests : Traced(req'[o])
  BY Zenon, <1>2 DEF CauseInv
<1> QED
  BY Zenon, <1>3 DEF CauseInv

\* The fields the lemmas below read.
Read(h) == {"at", "answer", "observed", "tries", "stack"} \subseteq DOMAIN h
LEMMA Reads ==
  ASSUME IInv, NEW q \in Requests PROVE DOMAIN req = Requests /\ Read(req[q])
<1>1. DOMAIN req = Requests /\ req[q] \in Handlers
  BY Zenon DEF IInv, TypeOK
<1> QED
  BY <1>1 DEF Handlers, Read

\* A return with an answer that is no exhaustion, and one with what the walk says.
LEMMA ReturnTraced ==
  ASSUME IInv, CauseInv, NEW q \in Requests, NEW a, Return(q, a),
         a \notin Exhaustions \/ (/\ a = ExhaustionError(q)
                                  /\ req[q].at = "walk" /\ Top(q).stage # "attempt")
  PROVE  CauseInv'
<1> DEFINE new == [req[q] EXCEPT !.at = "done", !.answer = a, !.stack = <<>>]
<1>1. req' = [req EXCEPT ![q] = new] /\ Read(req[q])
  BY ZenonT(60), Reads DEF Return, Read
<1>2. new.at = "done" /\ new.answer = a /\ new.tries = req[q].tries
  BY <1>1 DEF Read
<1> HIDE DEF new
<1>3. Names(req[q].tries, a)
  <2>1. CASE a \notin Exhaustions
    BY Zenon, <2>1, NamesNone
  <2>2. CASE a = ExhaustionError(q) /\ req[q].at = "walk" /\ Top(q).stage # "attempt"
    <3>1. Gathered(req[q].tries, req[q].observed, Last(req[q].stack).stage = "attempt")
      BY Zenon, <2>2 DEF CauseInv, Traced
    <3>2. Gathered(req[q].tries, req[q].observed, FALSE)
      BY Zenon, <2>2, <3>1 DEF Gathered, Top
    <3>3. req[q].tries \in Seq(Tries)
      BY Zenon, HandlerFacts
    <3> QED
      BY Zenon, <2>2, <3>2, <3>3, GatheredCause
  <2> QED
    BY Zenon, <2>1, <2>2
<1>4. Traced(new)
  BY Zenon, <1>2, <1>3 DEF Traced
<1> QED
  BY Zenon, <1>1, <1>4, TracedStep


LEMMA NoneIsNoExhaustion == "none" \notin Exhaustions
BY DEF Exhaustions

\* A step of the walk that moves between frames, none of which is being forwarded.
LEMMA FrameTraced ==
  ASSUME IInv, CauseInv, NEW q \in Requests, req[q].at = "walk", Top(q).stage # "attempt",
         NEW new, req' = [req EXCEPT ![q] = new], new.at = "walk", new.answer = req[q].answer,
         new.tries = req[q].tries, new.observed = req[q].observed,
         Last(new.stack).stage # "attempt"
  PROVE  CauseInv'
<1>1. Gathered(req[q].tries, req[q].observed, Last(req[q].stack).stage = "attempt")
  BY Zenon DEF CauseInv, Traced
<1>2. Gathered(new.tries, new.observed, Last(new.stack).stage = "attempt")
  BY Zenon, <1>1 DEF Gathered, Top
<1>3. Names(new.tries, new.answer)
  BY Zenon DEF CauseInv, Traced
<1>4. Traced(new)
  BY Zenon, <1>2, <1>3 DEF Traced
<1> QED
  BY Zenon, <1>4, TracedStep

LEMMA NotOkTraced ==
  ASSUME IInv, CauseInv, NEW q \in Requests, req[q].at = "walk", Top(q).stage # "attempt",
         NEW visited, NotOk(q, visited)
  PROVE  CauseInv'
<1>1. CASE Len(req[q].stack) = 1 /\ Return(q, ExhaustionError(q))
  BY Zenon, <1>1, ReturnTraced
<1>2. CASE /\ Len(req[q].stack) > 1
           /\ req' = [req EXCEPT ![q].stack = SubSeq(@, 1, Len(@) - 1), ![q].visited = visited]
  <2> DEFINE st == SubSeq(req[q].stack, 1, Len(req[q].stack) - 1)
             new == [req[q] EXCEPT !.stack = st, !.visited = visited]
  <2>1. req' = [req EXCEPT ![q] = new] /\ Read(req[q])
    BY ZenonT(60), <1>2, Reads DEF Read
  <2>2. Last(st).stage = "children"
    <3>1. /\ req[q].stack \in Seq(Frames) /\ Walk(req[q])
          /\ st = SubSeq(req[q].stack, 1, Len(req[q].stack) - 1)
      BY Zenon, HandlerFacts, TopFacts
    <3> HIDE DEF st
    <3>2. Last(st) = req[q].stack[Len(req[q].stack) - 1]
      BY ZenonT(30), <1>2, <3>1, Popped DEF IsPopped
    <3>3. /\ Len(req[q].stack) - 1 \in 1..Len(req[q].stack)
          /\ Len(req[q].stack) - 1 # Len(req[q].stack)
      BY <1>2, <3>1
    <3> QED
      BY Zenon, <3>1, <3>2, <3>3 DEF Walk
  <2> HIDE DEF st
  <2>3. /\ new.at = "walk" /\ new.answer = req[q].answer /\ new.tries = req[q].tries
        /\ new.observed = req[q].observed /\ new.stack = st
    BY <2>1 DEF Read
  <2> HIDE DEF new
  <2>4. Last(new.stack).stage # "attempt"
    BY <2>2, <2>3
  <2> QED
    BY Zenon, <2>1, <2>3, <2>4, FrameTraced
<1> QED
  BY Zenon, <1>1, <1>2 DEF NotOk

LEMMA NextChildTraced ==
  ASSUME IInv, CauseInv, NEW q \in Requests, NextChild(q) PROVE CauseInv'
<1> DEFINE f == Top(q)
           on == [f EXCEPT !.i = @ + 1]
           st == SetTop(q, on)
<1>0. /\ req[q].at = "walk" /\ f.stage = "children" /\ f \in Frames
      /\ req[q].stack \in Seq(Frames) /\ req[q].stack # <<>>
  BY Zenon, TopFacts, HandlerFacts DEF NextChild, Walk
<1>1. f.stage # "attempt"
  BY <1>0
<1>2. on \in Frames /\ on.stage = "children"
  BY <1>0 DEF Frames
<1>3. st \in Seq(Frames) /\ Last(st) = on
  <2>1. st = [req[q].stack EXCEPT ![Len(req[q].stack)] = on]
    BY Zenon DEF SetTop
  <2> HIDE DEF st, on
  <2>2. IsReplaced(st, Frames, req[q].stack, on)
    BY <1>0, <1>2, <2>1, Replaced
  <2> QED
    BY Zenon, <2>2 DEF IsReplaced
<1>4. CASE NotOk(q, req[q].visited)
  BY Zenon, <1>0, <1>1, <1>4, NotOkTraced
<1>5. CASE ~NotOk(q, req[q].visited)
  <2>1. PICK ref : req' = [req EXCEPT ![q] =
            IF Exists(ref.to)
              THEN [req[q] EXCEPT !.stack = Append(st, Frame(ref.to)),
                                  !.modelFor[ref.to] = ref.modelMap[f.model]]
              ELSE [req[q] EXCEPT !.stack = st]]
    <3> DEFINE r == catalogue[f.p].fallback[f.i]
    <3>1. req' = [req EXCEPT ![q] =
            IF Exists(r.to)
              THEN [req[q] EXCEPT !.stack = Append(st, Frame(r.to)),
                                  !.modelFor[r.to] = r.modelMap[f.model]]
              ELSE [req[q] EXCEPT !.stack = st]]
      BY Zenon, <1>5 DEF NextChild
    <3> HIDE DEF r, st
    <3> QED
      BY Zenon, <3>1
  <2> HIDE DEF st, on
  <2>2. Last(Append(st, Frame(ref.to))).stage = "enter"
    BY <1>3 DEF Last, Frame
  <2>3. PICK new, s : /\ req' = [req EXCEPT ![q] = new]
                      /\ \/ new = [req[q] EXCEPT !.stack = s,
                                                 !.modelFor[ref.to] = ref.modelMap[f.model]]
                         \/ new = [req[q] EXCEPT !.stack = s]
                      /\ Last(s).stage \in {"enter", "children"}
    <3>1. CASE Exists(ref.to)
      BY Zenon, <2>1, <2>2, <3>1
    <3>2. CASE ~Exists(ref.to)
      BY Zenon, <1>2, <1>3, <2>1, <3>2
    <3> QED
      BY Zenon, <3>1, <3>2
  <2>4. Read(req[q])
    BY Zenon, Reads
  <2>5. /\ new.at = "walk" /\ new.answer = req[q].answer /\ new.tries = req[q].tries
        /\ new.observed = req[q].observed /\ new.stack = s
    BY ZenonT(60), <1>0, <2>3, <2>4 DEF Read
  <2>6. Last(new.stack).stage # "attempt"
    BY <2>3, <2>5
  <2> QED
    BY Zenon, <1>0, <1>1, <2>3, <2>5, <2>6, FrameTraced
<1> QED
  BY Zenon, <1>4, <1>5


\* An attempt used in a walk that has gathered what it has.
LEMMA UseTraced ==
  ASSUME IInv, CauseInv, NEW q \in Requests, Entering(q), Eligible(q),
         NEW how \in {"started", "budget", "unavailable"},
         req[q].tries = <<>> => how = "started",
         NEW frame, \/ how = "started" /\ frame = Attempting(q)
                    \/ how # "started" /\ frame = Children(q),
         req' = [req EXCEPT ![q] = UseAttempt(q, how, frame)]
  PROVE  CauseInv'
<1> DEFINE p == Top(q).p
           try == [p |-> p, how |-> how, model |-> CandidateModel(q, p)]
           seen == req[q].observed \cup ({how} \ {"started"})
           ts == Append(req[q].tries, try)
           st == SetTop(q, frame)
           new == UseAttempt(q, how, frame)
<1>0. /\ req[q].at = "walk" /\ Top(q).stage = "enter" /\ Top(q) \in Frames /\ p \in Providers
      /\ req[q].tries \in Seq(Tries) /\ req[q].stack \in Seq(Frames) /\ req[q].stack # <<>>
      /\ CandidateModel(q, p) \in Models /\ req[q].answer = "none"
  BY Zenon, TopFacts, HandlerFacts DEF Entering, Walk
<1>1. /\ new.at = "walk" /\ new.answer = "none" /\ new.observed = seen /\ new.tries = ts
      /\ new.stack = st
  <2>1. Read(req[q])
    BY Zenon, Reads
  <2> HIDE DEF p, try, st
  <2> QED
    BY <1>0, <2>1 DEF Read, UseAttempt, p, try, st
<1>2. frame \in Frames /\ (frame.stage = "attempt" <=> how = "started")
  <2>1. CASE how = "started"
    BY <1>0, <2>1 DEF Attempting, Frames
  <2>2. CASE how # "started"
    <3>1. frame = Children(q)
      BY Zenon, <2>2
    <3>2. frame \in Frames /\ frame.stage = "children"
      BY Zenon, <1>0, <3>1 DEF Children, Frames
    <3> QED
      BY <2>2, <3>2
  <2> QED
    BY Zenon, <2>1, <2>2
<1>3. Last(st) = frame
  <2>1. st = [req[q].stack EXCEPT ![Len(req[q].stack)] = frame]
    BY Zenon DEF SetTop
  <2> HIDE DEF st
  <2>2. IsReplaced(st, Frames, req[q].stack, frame)
    BY <1>0, <1>2, <2>1, Replaced
  <2> QED
    BY Zenon, <2>2 DEF IsReplaced
<1>4. try \in Tries /\ try.how = how
  <2>1. how \in Hows
    BY DEF Hows
  <2> QED
    BY Zenon, <1>0, <2>1 DEF Tries
<1>5. IsAppended(ts, Tries, req[q].tries, try)
  <2>1. ts = Append(req[q].tries, try)
    OBVIOUS
  <2> HIDE DEF ts, try
  <2> QED
    BY Zenon, <1>0, <1>4, <2>1, Appended
<1> HIDE DEF new, ts, try, st, seen, p
<1>6. Gathered(req[q].tries, req[q].observed, FALSE)
  <2>1. Gathered(req[q].tries, req[q].observed, Last(req[q].stack).stage = "attempt")
    BY Zenon, <1>0 DEF CauseInv, Traced
  <2>2. Last(req[q].stack).stage # "attempt"
    BY <1>0 DEF Top
  <2> QED
    BY Zenon, <2>1, <2>2 DEF Gathered
<1>7. Gathered(ts, seen, how = "started")
  <2>1. Gathered(ts, req[q].observed \cup ({try.how} \ {"started"}), try.how = "started")
    BY Zenon, <1>0, <1>4, <1>5, <1>6, GatheredUse
  <2> QED
    BY Zenon, <1>4, <2>1 DEF seen
<1>8. Gathered(new.tries, new.observed, Last(new.stack).stage = "attempt")
  BY Zenon, <1>1, <1>2, <1>3, <1>7 DEF Gathered
<1>9. Names(new.tries, new.answer)
  BY Zenon, <1>1, NamesNone, NoneIsNoExhaustion
<1>10. Traced(new)
  BY Zenon, <1>1, <1>8, <1>9 DEF Traced
<1> QED
  BY Zenon, <1>10, TracedStep DEF new

LEMMA EnterFallbackTraced ==
  ASSUME IInv, CauseInv, NEW q \in Requests, EnterFallback(q) PROVE CauseInv'
<1>1. /\ Entering(q) /\ Eligible(q) /\ Top(q).p # Primary(q) /\ req[q].at = "walk"
  BY Zenon DEF EnterFallback, Entering
<1>2. req[q].tries # <<>>
  BY Zenon, <1>1, TopFacts DEF Walk, Top, Primary
<1>3. PICK d : req' = [req EXCEPT ![q] =
                 CASE d = "unavailable" -> UseAttempt(q, d, Children(q))
                   [] d \in {"throttled", "block"} -> UseAttempt(q, "budget", Children(q))
                   [] OTHER -> UseAttempt(q, "started", Attempting(q))]
  BY Zenon DEF EnterFallback
<1>4. CASE d = "unavailable"
  <2>1. req' = [req EXCEPT ![q] = UseAttempt(q, "unavailable", Children(q))]
    BY Zenon, <1>3, <1>4
  <2>2. "unavailable" \in {"started", "budget", "unavailable"} /\ "unavailable" # "started"
    OBVIOUS
  <2> QED
    BY Zenon, <1>1, <1>2, <2>1, <2>2, UseTraced
<1>5. CASE d # "unavailable" /\ d \in {"throttled", "block"}
  <2>1. req' = [req EXCEPT ![q] = UseAttempt(q, "budget", Children(q))]
    BY Zenon, <1>3, <1>5
  <2>2. "budget" \in {"started", "budget", "unavailable"} /\ "budget" # "started"
    OBVIOUS
  <2> QED
    BY Zenon, <1>1, <1>2, <2>1, <2>2, UseTraced
<1>6. CASE d \notin {"unavailable", "throttled", "block"}
  <2>1. req' = [req EXCEPT ![q] = UseAttempt(q, "started", Attempting(q))]
    BY Zenon, <1>3, <1>6
  <2> QED
    BY Zenon, <1>1, <2>1, UseTraced
<1> QED
  BY Zenon, <1>4, <1>5, <1>6

LEMMA AttemptFailsTraced ==
  ASSUME IInv, CauseInv, NEW q \in Requests, AttemptFails(q) PROVE CauseInv'
<1>1. PICK how \in Failures :
        req' = [req EXCEPT ![q].tries = Outcome(q, how), ![q].observed = @ \cup {ClassOf(how)},
                           ![q].stack = SetTop(q, Children(q))]
  BY Zenon DEF AttemptFails
<1>2. /\ Forwarding(q) /\ req[q].at = "walk" /\ Top(q).stage = "attempt" /\ how \in Hows
  BY DEF AttemptFails, Forwarding, Hows, Failures
<1> DEFINE ts == req[q].tries
           last == [Last(ts) EXCEPT !.how = how]
           out == Outcome(q, how)
           child == Children(q)
           st == SetTop(q, child)
           seen == req[q].observed \cup {ClassOf(how)}
           new == [req[q] EXCEPT !.tries = out, !.observed = seen, !.stack = st]
<1>3. /\ ts \in Seq(Tries) /\ ts # <<>> /\ Top(q) \in Frames /\ Top(q).p \in Providers
      /\ CandidateModel(q, Top(q).p) \in Models /\ req[q].answer = "none"
      /\ req[q].stack \in Seq(Frames) /\ req[q].stack # <<>>
  BY Zenon, <1>2, TopFacts, HandlerFacts DEF Walk, Top
<1>4. Len(ts) \in Nat /\ Len(ts) >= 1 /\ Last(ts) \in Tries /\ Last(ts) = ts[Len(ts)]
  BY Zenon, <1>3, TopOf DEF Last
<1>5. last \in Tries /\ last.how = how
  BY <1>2, <1>4 DEF Tries
<1>6. IsReplaced(out, Tries, ts, last)
  <2>1. out = [ts EXCEPT ![Len(ts)] = last]
    BY Zenon, <1>3, <1>4 DEF Outcome
  <2> HIDE DEF ts, last, out
  <2> QED
    BY Zenon, <1>3, <1>5, <2>1, Replaced
<1>7. child \in Frames /\ child.stage = "children"
  BY Zenon, <1>3 DEF Children, Frames
<1>8. Last(st) = child
  <2>1. st = [req[q].stack EXCEPT ![Len(req[q].stack)] = child]
    BY Zenon DEF SetTop
  <2> HIDE DEF st, child
  <2>2. IsReplaced(st, Frames, req[q].stack, child)
    BY <1>3, <1>7, <2>1, Replaced
  <2> QED
    BY Zenon, <2>2 DEF IsReplaced
<1>9. req' = [req EXCEPT ![q] = new]
  <2> HIDE DEF out, st
  <2> QED
    BY ZenonT(60), <1>1, Reads DEF Read, out, st
<1> HIDE DEF out, st, seen, child, last
<1>10. /\ new.at = "walk" /\ new.answer = "none" /\ new.observed = seen /\ new.tries = out
       /\ new.stack = st
  BY <1>2, <1>3, Reads DEF Read
<1> HIDE DEF new
<1>11. Gathered(ts, req[q].observed, TRUE)
  <2>1. Gathered(ts, req[q].observed, Last(req[q].stack).stage = "attempt")
    BY Zenon, <1>2 DEF CauseInv, Traced
  <2>2. Last(req[q].stack).stage = "attempt"
    BY <1>2 DEF Top
  <2> QED
    BY Zenon, <2>1, <2>2 DEF Gathered
<1>12. Gathered(out, seen, FALSE)
  <2>1. Gathered(out, req[q].observed \cup {ClassOf(last.how)}, FALSE)
    BY Zenon, <1>3, <1>5, <1>6, <1>11, GatheredFailure
  <2> QED
    BY Zenon, <1>5, <2>1 DEF seen
<1>13. Last(new.stack).stage # "attempt"
  BY <1>7, <1>8, <1>10
<1>14. Gathered(new.tries, new.observed, Last(new.stack).stage = "attempt")
  BY Zenon, <1>10, <1>12, <1>13 DEF Gathered
<1>15. Names(new.tries, new.answer)
  BY Zenon, <1>10, NamesNone, NoneIsNoExhaustion
<1>16. Traced(new)
  BY Zenon, <1>10, <1>14, <1>15 DEF Traced
<1> QED
  BY Zenon, <1>9, <1>16, TracedStep

\* Before and after the walk nothing is collected.
LEMMA OutsideTraced ==
  ASSUME IInv, CauseInv, NEW q \in Requests, NEW new, req' = [req EXCEPT ![q] = new],
         new.at # "walk", new.at \in {"admit", "rate"} => new.observed = {},
         new.at # "route", new.answer \notin Exhaustions
  PROVE  CauseInv'
<1>1. Names(new.tries, new.answer)
  BY Zenon, NamesNone
<1>2. Traced(new)
  BY Zenon, <1>1 DEF Traced
<1> QED
  BY Zenon, <1>2, TracedStep

LEMMA BeforeTraced ==
  ASSUME IInv, CauseInv, NEW q \in Requests, Route(q) \/ AdmitPrimary(q) \/ TakeToken(q)
  PROVE  CauseInv'
<1>0. Read(req[q]) /\ DOMAIN req = Requests
  BY Zenon, Reads
<1>1. /\ req[q].at \in {"route", "admit", "rate"} /\ req[q].tries = <<>>
      /\ req[q].answer = "none" /\ req[q].observed = {}
  <2>1. req[q].at \in {"route", "admit", "rate"}
    BY Zenon DEF Route, AdmitPrimary, TakeToken
  <2>2. req[q].answer = "none"
    BY <2>1, HandlerFacts DEF AnsweredOnce
  <2> QED
    BY Zenon, <2>1, <2>2, HandlerFacts DEF Shape, CauseInv, Traced
<1>2. ASSUME NEW a \in Denials, Return(q, a) PROVE CauseInv'
  <2>1. a \notin Exhaustions
    BY DEF Denials, Exhaustions
  <2> QED
    BY Zenon, <1>2, <2>1, ReturnTraced
<1>3. CASE Route(q)
  <2>1. CASE AuthorizeRoute(req[q].ask) # "ok"
    <3>1. AuthorizeRoute(req[q].ask) \in Denials /\ Return(q, AuthorizeRoute(req[q].ask))
      BY Zenon, <1>3, <2>1 DEF Route, AuthorizeRoute, Denials
    <3> QED
      BY Zenon, <1>2, <3>1
  <2>2. CASE AuthorizeRoute(req[q].ask) = "ok"
    <3> DEFINE new == [req[q] EXCEPT !.at = "admit"]
    <3>1. req' = [req EXCEPT ![q] = new]
      BY <1>3, <2>2 DEF Route
    <3>2. new.at = "admit" /\ new.observed = {} /\ new.answer = "none"
      BY <1>0, <1>1 DEF Read
    <3> HIDE DEF new
    <3>3. new.at # "walk" /\ new.at # "route"
      BY <3>2
    <3> QED
      BY Zenon, <3>1, <3>2, <3>3, OutsideTraced, NoneIsNoExhaustion
  <2> QED
    BY Zenon, <2>1, <2>2
<1>4. CASE AdmitPrimary(q)
  <2>1. PICK d : \/ BudgetDenies(d) /\ Return(q, d)
                 \/ req' = [req EXCEPT ![q].at = "rate",
                              ![q].model = IF Degrades(d) THEN catalogue[Primary(q)].degradeTo
                                           ELSE @]
    BY Zenon, <1>4 DEF AdmitPrimary
  <2>2. CASE BudgetDenies(d) /\ Return(q, d)
    BY <1>2, <2>2 DEF BudgetDenies, Denials
  <2>3. CASE req' = [req EXCEPT ![q].at = "rate",
                       ![q].model = IF Degrades(d) THEN catalogue[Primary(q)].degradeTo ELSE @]
    <3> DEFINE m == IF Degrades(d) THEN catalogue[Primary(q)].degradeTo ELSE req[q].model
               new == [req[q] EXCEPT !.at = "rate", !.model = m]
    <3>1. req' = [req EXCEPT ![q] = new]
      BY ZenonT(60), <2>3, HandlerFacts DEF Handlers, IInv, TypeOK
    <3> HIDE DEF m
    <3>2. new.at = "rate" /\ new.observed = {} /\ new.answer = "none"
      BY <1>0, <1>1 DEF Read
    <3> HIDE DEF new
    <3>3. new.at # "walk" /\ new.at # "route"
      BY <3>2
    <3> QED
      BY Zenon, <3>1, <3>2, <3>3, OutsideTraced, NoneIsNoExhaustion
  <2> QED
    BY Zenon, <2>1, <2>2, <2>3
<1>5. CASE TakeToken(q)
  <2>1. "rateLimited" \in Denials
    BY DEF Denials
  <2>2. CASE Return(q, "rateLimited")
    BY Zenon, <1>2, <2>1, <2>2
  <2>3. CASE req' = [req EXCEPT ![q].at = "walk", ![q].stack = <<Frame(Primary(q))>>,
                                ![q].modelFor[Primary(q)] = req[q].model]
    <3> DEFINE st == <<Frame(Primary(q))>>
               mf == [req[q].modelFor EXCEPT ![Primary(q)] = req[q].model]
               new == [req[q] EXCEPT !.at = "walk", !.stack = st, !.modelFor = mf]
    <3>1. req' = [req EXCEPT ![q] = new]
      BY ZenonT(60), <2>3, HandlerFacts DEF Handlers, IInv, TypeOK
    <3>2. Last(st).stage = "enter"
      BY DEF Last, Frame
    <3> HIDE DEF st, mf
    <3>3. /\ new.at = "walk" /\ new.observed = {} /\ new.answer = "none" /\ new.tries = <<>>
          /\ new.stack = st
      BY <1>0, <1>1 DEF Read
    <3> HIDE DEF new
    <3>4. Gathered(<<>>, {}, FALSE)
      BY DEF Gathered
    <3>5. Last(new.stack).stage # "attempt"
      BY <3>2, <3>3
    <3>6. Gathered(new.tries, new.observed, Last(new.stack).stage = "attempt")
      BY Zenon, <3>3, <3>4, <3>5 DEF Gathered
    <3>7. Names(new.tries, new.answer)
      BY Zenon, <3>3, NamesNone, NoneIsNoExhaustion
    <3>8. Traced(new)
      BY Zenon, <3>3, <3>6, <3>7 DEF Traced
    <3> QED
      BY Zenon, <3>1, <3>8, TracedStep
  <2> QED
    BY Zenon, <1>5, <2>2, <2>3 DEF TakeToken
<1> QED
  BY Zenon, <1>3, <1>4, <1>5


LEMMA AfterTraced ==
  ASSUME IInv, CauseInv, NEW q \in Requests,
         AttemptAnswers(q) \/ RelayError(q) \/ RelayEvent(q) \/ RelayEnd(q)
  PROVE  CauseInv'
<1>0. Read(req[q]) /\ DOMAIN req = Requests
  BY Zenon, Reads
<1>1. CASE AttemptAnswers(q)
  <2>1. PICK how, out : req' = [req EXCEPT ![q].tries = out, ![q].stack = <<>>,
                                  ![q].observed = @ \cup ({how} \ {"ok"}),
                                  ![q].at = IF how = "ok" THEN "relay" ELSE "reject"]
    BY Zenon, <1>1 DEF AttemptAnswers
  <2>2. req[q].answer = "none"
    BY Zenon, <1>1, TopFacts DEF AttemptAnswers, Forwarding
  <2>3. PICK new : new = req'[q] /\ req' = [req EXCEPT ![q] = new]
    BY ZenonT(60), <1>0, <2>1
  <2>4. new.at \in {"relay", "reject"} /\ new.answer = "none"
    BY <1>0, <2>1, <2>2, <2>3 DEF Read
  <2>5. /\ new.at # "walk" /\ new.at # "route" /\ new.at \notin {"admit", "rate"}
        /\ new.answer \notin Exhaustions
    BY <2>4, NoneIsNoExhaustion
  <2>6. req' = [req EXCEPT ![q] = new]
    BY Zenon, <2>3
  <2> QED
    BY Zenon, <2>5, <2>6, OutsideTraced
<1>2. CASE RelayError(q) \/ RelayEnd(q)
  <2> DEFINE new == [req[q] EXCEPT !.at = "done", !.answer = Winner(q)]
  <2>1. req' = [req EXCEPT ![q] = new]
    BY ZenonT(60), <1>0, <1>2 DEF RelayError, RelayEnd, Read
  <2>2. Winner(q) \notin Exhaustions
    BY Zenon, <1>2, WinnerFacts, LLMRequestAssumption DEF RelayError, RelayEnd
  <2>3. new.at = "done" /\ new.answer = Winner(q)
    BY <1>0 DEF Read
  <2> HIDE DEF new
  <2>4. new.at # "walk" /\ new.at \notin {"route", "admit", "rate"}
    BY <2>3
  <2> QED
    BY Zenon, <2>1, <2>2, <2>3, <2>4, OutsideTraced
<1>3. CASE RelayEvent(q)
  <2>1. req' = [req EXCEPT ![q].usage = @ + 1] /\ req[q].at = "relay"
    BY Zenon, <1>3 DEF RelayEvent
  <2>2. req[q].answer = "none"
    BY Zenon, <2>1, WinnerFacts
  <2>3. PICK new : new = req'[q] /\ req' = [req EXCEPT ![q] = new]
    BY ZenonT(60), <1>0, <2>1
  <2>4. new.at = "relay" /\ new.answer = "none"
    BY <1>0, <2>1, <2>2, <2>3 DEF Read
  <2>5. /\ new.at # "walk" /\ new.at # "route" /\ new.at \notin {"admit", "rate"}
        /\ new.answer \notin Exhaustions
    BY <2>4, NoneIsNoExhaustion
  <2>6. req' = [req EXCEPT ![q] = new]
    BY Zenon, <2>3
  <2> QED
    BY Zenon, <2>5, <2>6, OutsideTraced
<1> QED
  BY Zenon, <1>1, <1>2, <1>3

LEMMA NextTraced == IInv /\ CauseInv /\ [Next]_vars => CauseInv'
<1> SUFFICES ASSUME IInv, CauseInv, [Next]_vars PROVE CauseInv'
  OBVIOUS
<1>1. CASE UNCHANGED vars
  <2>1. req' = req
    BY Zenon, <1>1 DEF vars
  <2>2. \A q \in Requests : Traced(req'[q])
    BY Zenon, <2>1 DEF CauseInv
  <2> QED
    BY Zenon, <2>2 DEF CauseInv
<1>2. ASSUME NEW q \in Requests, Handle(q) PROVE CauseInv'
  <2>1. CASE Skip(q)
    <3>1. /\ req[q].at = "walk" /\ Top(q).stage # "attempt"
          /\ NotOk(q, req[q].visited \cup {Top(q).p})
      BY <2>1 DEF Skip, Entering
    <3> QED
      BY Zenon, <3>1, NotOkTraced
  <2>2. CASE EnterPrimary(q)
    <3>1. /\ Entering(q) /\ Eligible(q)
          /\ req' = [req EXCEPT ![q] = UseAttempt(q, "started", Attempting(q))]
      BY Zenon, <2>2 DEF EnterPrimary
    <3> QED
      BY Zenon, <3>1, UseTraced
  <2> QED
    BY Zenon, <1>2, <2>1, <2>2, BeforeTraced, EnterFallbackTraced, AttemptFailsTraced,
       AfterTraced, NextChildTraced DEF Handle
<1> QED
  BY Zenon, <1>1, <1>2 DEF Next, Finished

\* The classes st.observed collects along the recursion of tryWithFallbacks are
\* exactly those of the attempts made, however the walk descends and returns,
\* and the primary's own is always among them: so exhaustionError says
\* "unreachable" or "timed out" exactly when every attempt ended that way, and
\* never blames a budget.
THEOREM CauseNamed == Spec => []AnswerNamesTheCause
<1>1. Init => CauseInv
  <2> SUFFICES ASSUME Init, NEW q \in Requests PROVE Traced(req[q])
    BY Zenon DEF CauseInv
  <2>1. PICK ask : req[q] = NewRequest(ask)
    BY Zenon DEF Init
  <2>2. /\ req[q].at = "route" /\ req[q].observed = {} /\ req[q].answer = "none"
    BY <2>1 DEF NewRequest
  <2>3. req[q].at # "walk"
    BY <2>2
  <2>4. Names(req[q].tries, req[q].answer)
    BY Zenon, <2>2, NamesNone, NoneIsNoExhaustion
  <2> QED
    BY Zenon, <2>2, <2>3, <2>4 DEF Traced
<1>2. IInv /\ CauseInv => AnswerNamesTheCause
  <2> SUFFICES ASSUME IInv, CauseInv, NEW q \in Requests, req[q].answer \in Exhaustions
               PROVE  LET all(hows) == /\ req[q].tries # <<>>
                                       /\ \A i \in DOMAIN req[q].tries :
                                            req[q].tries[i].how \in hows
                      IN /\ req[q].answer = "unreachable" <=> all({"connect", "cut"})
                         /\ req[q].answer = "timedOut" <=> all({"timeout"})
                         /\ req[q].answer \notin {"budgetExhausted", "budgetUnavailable"}
    BY Zenon DEF AnswerNamesTheCause
  <2>1. req[q].tries \in Seq(Tries) /\ Names(req[q].tries, req[q].answer)
    BY Zenon, HandlerFacts DEF CauseInv, Traced
  <2>2. DOMAIN req[q].tries = 1..Len(req[q].tries)
    BY <2>1
  <2> QED
    BY Zenon, <2>1, <2>2 DEF Names
<1> QED
  BY <1>1, <1>2, NextTraced, Invariant, PTL DEF Spec
=============================================================================
