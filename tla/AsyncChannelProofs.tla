------------------------- MODULE AsyncChannelProofs -------------------------
(***************************************************************************)
(* A theorem about AsyncChannel, for any replicas, requests, timeouts and  *)
(* crashes: an answer that was settled reaches its caller.                 *)
(***************************************************************************)
EXTENDS AsyncChannel, TLAPS

Early == {"new", "count", "create"}
Late == {"wake", "deliver", "callback", "patch"}
Stages == Early \cup Late \cup {"done"}
Ends == {"none", "refused", "delivered", "stored", "timedOut", "dropped", "lost"}
Reqs == [stage : Stages, replica : Replicas \cup {NoReplica}, tries : Nat, accepted : BOOLEAN,
         startedAt : Nat, received : BOOLEAN, end : Ends]
Records == [present : BOOLEAN, createdAt : Nat, payload : BOOLEAN]

TypeOK ==
  /\ now \in 0..MaxTime
  /\ channel \in [phase : {"Active", "Terminating", "Gone"}, deletedAt : 0..Never,
                  disconnected : BOOLEAN]
  /\ req \in [Requests -> Reqs]
  /\ record \in [Requests -> Records]
  /\ sweep \in [at : {"idle", "listed", "swept"}, listed : SUBSET Requests]

Deleted == channel.deletedAt # Never

\* A request r with its record: the pipeline's stages follow the 202, record and
\* 202 have one time, and what was stored stays readable while the channel lives
\* and the hour lasts.
ReqOK(r, rec) ==
  /\ r.end # "none" => r.stage = "done"
  /\ r.stage \in Early => ~r.accepted
  /\ r.stage \in Late => r.accepted
  /\ r.end = "stored" => r.accepted
  /\ r.end = "delivered" => r.received
  /\ rec.present /\ r.accepted => rec.createdAt = r.startedAt
  /\ r.end = "stored" /\ ~Deleted /\ now < r.startedAt + AsyncTTL =>
       rec.present /\ rec.payload

IInv ==
  /\ TypeOK
  /\ channel.phase # "Active" => Deleted
  /\ sweep.at # "idle" => Deleted
  /\ \A q \in Requests : ReqOK(req[q], record[q])

-----------------------------------------------------------------------------
(* Records of one field changed *)

LEMMA Fields ==
  ASSUME NEW r \in Reqs
  PROVE  /\ \A s \in Stages : [r EXCEPT !.stage = s] \in Reqs
         /\ \A s \in Replicas \cup {NoReplica} : [r EXCEPT !.replica = s] \in Reqs
         /\ \A s \in Nat : [r EXCEPT !.tries = s] \in Reqs
         /\ \A s \in BOOLEAN : [r EXCEPT !.accepted = s] \in Reqs
         /\ \A s \in Nat : [r EXCEPT !.startedAt = s] \in Reqs
         /\ \A s \in BOOLEAN : [r EXCEPT !.received = s] \in Reqs
         /\ \A s \in Ends : [r EXCEPT !.end = s] \in Reqs
BY ZenonT(60) DEF Reqs

LEMMA Parts ==
  ASSUME NEW r \in Reqs
  PROVE  /\ r.stage \in Stages /\ r.replica \in Replicas \cup {NoReplica} /\ r.tries \in Nat
         /\ r.accepted \in BOOLEAN /\ r.startedAt \in Nat /\ r.received \in BOOLEAN
         /\ r.end \in Ends
BY DEF Reqs

-----------------------------------------------------------------------------
(* One request moves *)

LEMMA Moves ==
  ASSUME AsyncChannelAssumption, IInv, NEW q \in Requests, NEW r \in Reqs, NEW rec \in Records,
         Step(q, r), record' = [record EXCEPT ![q] = rec],
         now' = now, channel' = channel, sweep' = sweep,
         ReqOK(r, rec)
  PROVE  IInv'
<1>1. TypeOK'
  <2>1. req' \in [Requests -> Reqs]
    BY DEF IInv, TypeOK, Step
  <2>2. record' \in [Requests -> Records]
    BY DEF IInv, TypeOK
  <2>3. QED
    BY <2>1, <2>2 DEF IInv, TypeOK, Never
<1>2. \A p \in Requests : ReqOK(req[p], record[p])'
  <2> SUFFICES ASSUME NEW p \in Requests
               PROVE  ReqOK(req[p], record[p])'
    OBVIOUS
  <2>1. CASE p = q
    <3>1. req'[p] = r /\ record'[p] = rec
      BY <2>1 DEF IInv, TypeOK, Step
    <3>2. QED
      BY <3>1 DEF ReqOK, Deleted, Never
  <2>2. CASE p # q
    <3>1. req'[p] = req[p] /\ record'[p] = record[p]
      BY <2>2 DEF IInv, TypeOK, Step
    <3>2. ReqOK(req[p], record[p])
      BY DEF IInv
    <3>3. QED
      BY <3>1, <3>2 DEF ReqOK, Deleted, Never
  <2>3. QED
    BY <2>1, <2>2
<1>3. QED
  BY <1>1, <1>2 DEF IInv, Deleted, Never

\* A request of a known kind: where its fields are.
LEMMA TypeOf ==
  ASSUME IInv, NEW q \in Requests
  PROVE  /\ req[q] \in Reqs /\ record[q] \in Records /\ ReqOK(req[q], record[q])
         /\ record = [record EXCEPT ![q] = record[q]]
         /\ now \in 0..MaxTime
BY DEF IInv, TypeOK

\* A move that neither accepts nor stores.
Quiet(r, s) ==
  /\ s.accepted = r.accepted /\ s.startedAt = r.startedAt
  /\ s.end # "stored" /\ (s.end # "none" => s.stage = "done")
  /\ s.stage \in Early => r.stage \in Early
  /\ s.stage \in Late => r.stage \in Late
  /\ s.end = "delivered" => s.received

LEMMA QuietMoves ==
  ASSUME AsyncChannelAssumption, IInv, NEW q \in Requests, NEW s \in Reqs, Step(q, s),
         Quiet(req[q], s), now' = now, channel' = channel, sweep' = sweep,
         record' = record \/ (record[q].present /\ record' = Patched(q))
  PROVE  IInv'
<1>1. record[q] \in Records /\ ReqOK(req[q], record[q])
  BY TypeOf
<1>2. CASE record' = record
  <2>1. ReqOK(s, record[q])
    BY <1>1 DEF ReqOK, Quiet
  <2>2. record' = [record EXCEPT ![q] = record[q]]
    BY <1>2, TypeOf
  <2>3. QED
    BY Zenon, <1>1, <2>1, <2>2, Moves
<1>3. CASE record[q].present /\ record' = Patched(q)
  <2> DEFINE rec == [record[q] EXCEPT !.payload = TRUE]
  <2>1. rec \in Records
    BY <1>1, ZenonT(30) DEF Records
  <2>2. rec.present = record[q].present /\ rec.createdAt = record[q].createdAt
    BY <1>1 DEF Records
  <2>3. ReqOK(s, rec)
    BY <1>1, <2>2 DEF ReqOK, Quiet
  <2>4. record' = [record EXCEPT ![q] = rec]
    BY <1>3 DEF Patched
  <2> HIDE DEF rec
  <2>5. QED
    BY Zenon, <2>1, <2>3, <2>4, Moves
<1>4. QED
  BY <1>2, <1>3

\* How a request ends.
LEMMA Endings ==
  ASSUME NEW r \in Reqs, NEW how \in Ends
  PROVE  /\ Ended(r, how) \in Reqs
         /\ Ended(r, how).stage = "done" /\ Ended(r, how).end = how
         /\ Ended(r, how).accepted = r.accepted /\ Ended(r, how).startedAt = r.startedAt
         /\ Ended(r, how).received = r.received
<1>1. "done" \in Stages /\ NoReplica \in Replicas \cup {NoReplica} /\ 0 \in Nat
  BY DEF Stages
<1>2. Ended(r, how) \in Reqs
  BY <1>1, ZenonT(30) DEF Ended, Reqs
<1>3. QED
  BY <1>2 DEF Ended, Reqs

LEMMA Initially ==
  ASSUME AsyncChannelAssumption, Init
  PROVE  IInv
<1>1. MaxTime \in Nat /\ Never \in Nat /\ Abandoned \subseteq Requests
  BY DEF AsyncChannelAssumption, Never
<1> DEFINE lost == Ended([NewRequest EXCEPT !.accepted = TRUE], "lost")
<1>2. NewRequest \in Reqs
  BY ZenonT(30) DEF NewRequest, Reqs, Stages, Early, Late, Ends, NoReplica
<1>3. /\ lost \in Reqs /\ lost.stage = "done" /\ lost.end = "lost"
      /\ lost.accepted = TRUE /\ lost.startedAt = 0
  <2> DEFINE r == [NewRequest EXCEPT !.accepted = TRUE]
  <2>1. r \in Reqs
    BY Zenon, <1>2, Fields
  <2>2. r.accepted = TRUE /\ r.startedAt = 0
    BY DEF NewRequest
  <2>3. "lost" \in Ends /\ lost = Ended(r, "lost")
    BY DEF Ends
  <2> HIDE DEF r, lost
  <2>4. QED
    BY <2>1, <2>2, <2>3, Endings
<1> HIDE DEF lost
<1>5. Placeholder = [present |-> TRUE, createdAt |-> 0, payload |-> FALSE]
  BY DEF Init, Placeholder
<1>6. Placeholder \in Records /\ NoRecord \in Records
  BY <1>5 DEF Records, NoRecord
<1>7. TypeOK
  <2>1. now \in 0..MaxTime
    BY <1>1 DEF Init
  <2>2. channel \in [phase : {"Active", "Terminating", "Gone"}, deletedAt : 0..Never,
                     disconnected : BOOLEAN]
    BY <1>1 DEF Init
  <2>3. req \in [Requests -> Reqs]
    BY <1>2, <1>3 DEF Init, lost
  <2>4. record \in [Requests -> Records]
    BY <1>6 DEF Init
  <2>5. sweep \in [at : {"idle", "listed", "swept"}, listed : SUBSET Requests]
    BY DEF Init, NotSweeping
  <2>6. QED
    BY <2>1, <2>2, <2>3, <2>4, <2>5 DEF TypeOK
<1>8. channel.phase = "Active" /\ sweep.at = "idle"
  BY DEF Init, NotSweeping
<1>9. \A q \in Requests : ReqOK(req[q], record[q])
  <2> SUFFICES ASSUME NEW q \in Requests
               PROVE  ReqOK(req[q], record[q])
    OBVIOUS
  <2>1. CASE q \in Abandoned
    <3>1. req[q] = lost /\ record[q] = Placeholder
      BY <2>1 DEF Init, lost
    <3>2. QED
      BY <3>1, <1>3, <1>5 DEF ReqOK, Early, Late
  <2>2. CASE q \notin Abandoned
    <3>1. req[q] = NewRequest /\ record[q] = NoRecord
      BY <2>2 DEF Init
    <3>2. QED
      BY <3>1 DEF ReqOK, NewRequest, NoRecord, Early, Late
  <2>3. QED
    BY <2>1, <2>2
<1>10. QED
  BY <1>7, <1>8, <1>9 DEF IInv

-----------------------------------------------------------------------------
(* Intake and the pipeline *)

LEMMA IntakeKeeps ==
  ASSUME AsyncChannelAssumption, IInv, NEW q \in Requests, NEW r \in Replicas, Intake(q, r)
  PROVE  IInv'
<1> DEFINE s == [req[q] EXCEPT !.stage = "count", !.replica = r]
<1>1. req[q] \in Reqs /\ ReqOK(req[q], record[q]) /\ req[q].stage = "new"
  BY TypeOf DEF Intake
<1>2. "count" \in Stages /\ r \in Replicas \cup {NoReplica}
  BY DEF Stages, Early
<1>3. s \in Reqs
  BY <1>1, <1>2, ZenonT(30) DEF Reqs
<1>4. Quiet(req[q], s)
  BY <1>1 DEF Quiet, Reqs, Early, Late, ReqOK
<1>5. Step(q, s) /\ now' = now /\ channel' = channel /\ sweep' = sweep /\ record' = record
  BY DEF Intake
<1> HIDE DEF s
<1>6. QED
  BY <1>3, <1>4, <1>5, QuietMoves

\* A request that is given up, and one that goes to another stage of its phase.
LEMMA EndKeeps ==
  ASSUME AsyncChannelAssumption, IInv, NEW q \in Requests,
         NEW how \in Ends \ {"none", "stored", "delivered"}, End(q, how),
         now' = now, channel' = channel, sweep' = sweep,
         record' = record \/ (record[q].present /\ record' = Patched(q))
  PROVE  IInv'
<1>1. req[q] \in Reqs
  BY TypeOf
<1>2. Ended(req[q], how) \in Reqs
  BY <1>1, Endings
<1>3. Quiet(req[q], Ended(req[q], how))
  BY <1>1, Endings DEF Quiet, Early, Late
<1>4. Step(q, Ended(req[q], how))
  BY DEF End
<1>5. QED
  BY <1>2, <1>3, <1>4, QuietMoves

LEMMA CountKeeps ==
  ASSUME AsyncChannelAssumption, IInv, NEW q \in Requests, Count(q)
  PROVE  IInv'
<1>1. req[q] \in Reqs /\ ReqOK(req[q], record[q]) /\ req[q].stage = "count"
  BY TypeOf DEF Count
<1>2. now' = now /\ channel' = channel /\ sweep' = sweep /\ record' = record
  BY DEF Count
<1>3. CASE End(q, "refused")
  BY <1>2, <1>3, EndKeeps DEF Ends
<1>4. CASE Step(q, [req[q] EXCEPT !.stage = "create"])
  <2> DEFINE s == [req[q] EXCEPT !.stage = "create"]
  <2>1. "create" \in Stages
    BY DEF Stages, Early
  <2>2. s \in Reqs
    BY <1>1, <2>1, Fields
  <2>3. Quiet(req[q], s)
    BY <1>1 DEF Quiet, Reqs, Early, Late, ReqOK
  <2>4. Step(q, s)
    BY <1>4
  <2> HIDE DEF s
  <2>5. QED
    BY <1>2, <2>2, <2>3, <2>4, QuietMoves
<1>5. QED
  BY <1>3, <1>4 DEF Count

\* Acceptance: record and 202 get one time.
LEMMA CreateKeeps ==
  ASSUME AsyncChannelAssumption, IInv, NEW q \in Requests, Create(q)
  PROVE  IInv'
<1>1. req[q] \in Reqs /\ ReqOK(req[q], record[q]) /\ req[q].stage = "create" /\ now \in Nat
  BY TypeOf DEF Create, AsyncChannelAssumption
<1>2. now' = now /\ channel' = channel /\ sweep' = sweep
  BY DEF Create
<1>3. /\ Placeholder \in Records
      /\ Placeholder.createdAt = now /\ Placeholder.present /\ ~Placeholder.payload
  BY <1>1 DEF Placeholder, Records
<1>4. req[q].end = "none" /\ ~req[q].accepted
  BY <1>1 DEF ReqOK, Early
<1>5. CASE /\ record' = [record EXCEPT ![q] = Placeholder]
           /\ \E stage \in {"wake", "deliver"} : Step(q, [Accepted(q) EXCEPT !.stage = stage])
  <2>1. PICK stage \in {"wake", "deliver"} : Step(q, [Accepted(q) EXCEPT !.stage = stage])
    BY <1>5
  <2> DEFINE s == [Accepted(q) EXCEPT !.stage = stage]
  <2>2. stage \in Stages /\ TRUE \in BOOLEAN
    BY DEF Stages, Late
  <2>3. s \in Reqs
    BY <1>1, <2>2, ZenonT(30) DEF Accepted, Reqs
  <2>4. s.stage = stage /\ s.accepted = TRUE /\ s.startedAt = now /\ s.end = "none"
    BY <1>1, <1>4 DEF Accepted, Reqs
  <2>5. Step(q, s)
    BY <2>1
  <2> HIDE DEF s
  <2>6. ReqOK(s, Placeholder)
    BY <1>3, <2>4 DEF ReqOK, Early, Late
  <2>7. QED
    BY Zenon, <1>2, <1>3, <1>5, <2>3, <2>5, <2>6, Moves
<1>6. CASE record' = record /\ End(q, "refused")
  BY <1>2, <1>6, EndKeeps DEF Ends
<1>7. CASE record' = [record EXCEPT ![q] = Placeholder] /\ End(q, "refused")
  <2> DEFINE s == Ended(req[q], "refused")
  <2>1. "refused" \in Ends
    BY DEF Ends
  <2>2. /\ s \in Reqs /\ s.stage = "done" /\ s.end = "refused"
        /\ s.accepted = req[q].accepted
    BY <1>1, <2>1, Endings
  <2>3. Step(q, s)
    BY <1>7 DEF End
  <2> HIDE DEF s
  <2>4. ReqOK(s, Placeholder)
    BY <1>3, <1>4, <2>2 DEF ReqOK, Early, Late
  <2>5. QED
    BY Zenon, <1>2, <1>3, <1>7, <2>2, <2>3, <2>4, Moves
<1>8. QED
  BY <1>5, <1>6, <1>7 DEF Create

\* A request the pipeline holds, in another of its stages.
Held(q, s) ==
  /\ s \in Reqs /\ s.stage \in Late
  /\ s.accepted = req[q].accepted /\ s.startedAt = req[q].startedAt /\ s.end = req[q].end

LEMMA PipelineKeeps ==
  ASSUME AsyncChannelAssumption, IInv, NEW q \in Requests, req[q].stage \in Late,
         NEW s, Held(q, s), Step(q, s), now' = now, channel' = channel, sweep' = sweep,
         record' = record \/ (record[q].present /\ record' = Patched(q))
  PROVE  IInv'
<1>1. ReqOK(req[q], record[q])
  BY TypeOf
<1>2. req[q].end = "none" /\ s.stage \notin Early
  BY <1>1 DEF ReqOK, Late, Early, Held
<1>3. Quiet(req[q], s)
  BY <1>2 DEF Quiet, Held
<1>4. QED
  BY <1>3, QuietMoves DEF Held

LEMMA StageHeld ==
  ASSUME NEW q \in Requests, NEW r, Held(q, r), NEW stage \in Late
  PROVE  Held(q, [r EXCEPT !.stage = stage, !.tries = 0])
<1>1. stage \in Stages /\ r \in Reqs /\ 0 \in Nat
  BY DEF Stages, Held
<1>2. [r EXCEPT !.stage = stage, !.tries = 0] \in Reqs
  BY <1>1, ZenonT(30) DEF Reqs
<1>3. QED
  BY <1>1, <1>2 DEF Held, Reqs

LEMMA RetryHeld ==
  ASSUME NEW q \in Requests, NEW r, Held(q, r)
  PROVE  Held(q, [r EXCEPT !.tries = @ + 1])
<1>1. r \in Reqs /\ r.tries + 1 \in Nat
  BY Parts DEF Held
<1>2. [r EXCEPT !.tries = r.tries + 1] \in Reqs
  BY <1>1, Fields
<1>3. QED
  BY <1>1, <1>2 DEF Held, Reqs

LEMMA DispatchKeeps ==
  ASSUME AsyncChannelAssumption, IInv, NEW q \in Requests, req[q].stage \in Late, Dispatch(q),
         now' = now, channel' = channel, sweep' = sweep, record' = record
  PROVE  IInv'
<1> DEFINE stage == IF HasCallback THEN "callback" ELSE "patch"
           s == [req[q] EXCEPT !.stage = stage, !.tries = 0]
<1>1. Held(q, req[q])
  BY TypeOf DEF Held
<1>2. stage \in Late
  BY DEF Late
<1>3. Step(q, s)
  BY Zenon DEF Dispatch
<1>4. Held(q, s)
  <2> HIDE DEF stage
  <2> QED
    BY Zenon, <1>1, <1>2, StageHeld
<1> HIDE DEF s
<1>5. QED
  BY <1>3, <1>4, PipelineKeeps

LEMMA WakeKeeps ==
  ASSUME AsyncChannelAssumption, IInv, NEW q \in Requests, Wake(q)
  PROVE  IInv'
<1>1. /\ req[q].stage \in Late
      /\ now' = now /\ channel' = channel /\ sweep' = sweep /\ record' = record
  BY DEF Wake, Late
<1>2. CASE Dispatch(q)
  BY <1>1, <1>2, DispatchKeeps
<1>3. CASE Step(q, [req[q] EXCEPT !.stage = "deliver"])
  <2> DEFINE s == [req[q] EXCEPT !.stage = "deliver"]
  <2>1. req[q] \in Reqs /\ "deliver" \in Stages /\ "deliver" \in Late
    BY TypeOf DEF Stages, Late
  <2>2. s \in Reqs
    BY <2>1, Fields
  <2>3. Held(q, s)
    BY <2>1, <2>2 DEF Held, Reqs
  <2> HIDE DEF s
  <2>4. Step(q, s)
    BY <1>3 DEF s
  <2>5. QED
    BY <1>1, <2>3, <2>4, PipelineKeeps
<1>4. QED
  BY <1>2, <1>3 DEF Wake

LEMMA DeliverKeeps ==
  ASSUME AsyncChannelAssumption, IInv, NEW q \in Requests, Deliver(q)
  PROVE  IInv'
<1>1. /\ req[q].stage \in Late
      /\ now' = now /\ channel' = channel /\ sweep' = sweep /\ record' = record
  BY DEF Deliver, Late
<1>2. CASE Dispatch(q)
  BY <1>1, <1>2, DispatchKeeps
<1>3. CASE Step(q, [req[q] EXCEPT !.tries = @ + 1])
  <2>1. Held(q, req[q])
    BY <1>1, TypeOf DEF Held
  <2>2. Held(q, [req[q] EXCEPT !.tries = @ + 1])
    BY <2>1, RetryHeld
  <2>3. QED
    BY <1>1, <1>3, <2>2, PipelineKeeps
<1>4. QED
  BY <1>2, <1>3 DEF Deliver, RetryOr
LEMMA CallbackKeeps ==
  ASSUME AsyncChannelAssumption, IInv, NEW q \in Requests, Callback(q)
  PROVE  IInv'
<1>1. /\ req[q].stage \in Late
      /\ now' = now /\ channel' = channel /\ sweep' = sweep /\ record' = record
  BY DEF Callback, Late
<1>2. req[q] \in Reqs /\ Held(q, req[q])
  BY <1>1, TypeOf DEF Held
<1>3. ASSUME NEW r, Held(q, r), ToPatch(q, r) PROVE IInv'
  <2>1. Held(q, [r EXCEPT !.stage = "patch", !.tries = 0])
    BY Zenon, <1>3, StageHeld DEF Late
  <2>2. QED
    BY Zenon, <1>1, <1>3, <2>1, PipelineKeeps DEF ToPatch
<1>4. CASE Step(q, Ended([req[q] EXCEPT !.received = TRUE], "delivered"))
  <2> DEFINE r == [req[q] EXCEPT !.received = TRUE]
             s == Ended(r, "delivered")
  <2>1. r \in Reqs
    BY Zenon, <1>2, Fields
  <2>2. r.received = TRUE /\ r.accepted = req[q].accepted /\ r.startedAt = req[q].startedAt
    BY <1>2 DEF Reqs
  <2> HIDE DEF r
  <2>3. /\ s \in Reqs /\ s.stage = "done" /\ s.end = "delivered" /\ s.received = TRUE
        /\ s.accepted = req[q].accepted /\ s.startedAt = req[q].startedAt
    BY <2>1, <2>2, Endings DEF Ends
  <2>4. Step(q, s)
    BY <1>4 DEF r
  <2> HIDE DEF s
  <2>5. Quiet(req[q], s)
    BY <2>3 DEF Quiet, Early, Late
  <2>6. QED
    BY <1>1, <2>3, <2>4, <2>5, QuietMoves
<1>5. CASE ToPatch(q, req[q])
  BY <1>2, <1>3, <1>5
<1>6. CASE \E got \in {req[q].received, ~TimedOut(q) \/ req[q].received} :
             LET r == [req[q] EXCEPT !.received = got] IN RetryOr(q, r, ToPatch(q, r))
  <2>1. PICK got \in {req[q].received, ~TimedOut(q) \/ req[q].received} :
               LET r == [req[q] EXCEPT !.received = got] IN RetryOr(q, r, ToPatch(q, r))
    BY <1>6
  <2> DEFINE r == [req[q] EXCEPT !.received = got]
  <2>2. got \in BOOLEAN
    BY Zenon, <1>2, Parts
  <2>3. r \in Reqs
    BY <1>2, <2>2, Fields
  <2>4. Held(q, r)
    BY <1>2, <2>3 DEF Held, Reqs
  <2>5. Step(q, [r EXCEPT !.tries = @ + 1]) \/ ToPatch(q, r)
    BY <2>1 DEF RetryOr
  <2> HIDE DEF r
  <2>6. CASE Step(q, [r EXCEPT !.tries = @ + 1])
    <3>1. Held(q, [r EXCEPT !.tries = @ + 1])
      BY <2>4, RetryHeld
    <3>2. QED
      BY <1>1, <2>6, <3>1, PipelineKeeps
  <2>7. QED
    BY <1>3, <2>4, <2>5, <2>6
<1>7. QED
  BY <1>4, <1>5, <1>6 DEF Callback

\* The record is there, with the 202's time, when the answer is stored in it.
LEMMA PatchKeeps ==
  ASSUME AsyncChannelAssumption, IInv, NEW q \in Requests, Patch(q)
  PROVE  IInv'
<1>1. req[q].stage \in Late /\ now' = now /\ channel' = channel /\ sweep' = sweep
  BY DEF Patch, Late
<1>2. /\ req[q] \in Reqs /\ record[q] \in Records /\ Held(q, req[q])
      /\ ReqOK(req[q], record[q])
  BY <1>1, TypeOf DEF Held
<1>3. CASE record[q].present /\ record' = Patched(q) /\ End(q, "stored")
  <2> DEFINE s == Ended(req[q], "stored")
             rec == [record[q] EXCEPT !.payload = TRUE]
  <2>1. "stored" \in Ends
    BY DEF Ends
  <2>2. /\ s \in Reqs /\ s.stage = "done" /\ s.end = "stored"
        /\ s.accepted = req[q].accepted /\ s.startedAt = req[q].startedAt
    BY <1>2, <2>1, Endings
  <2>3. rec \in Records
    BY <1>2, ZenonT(30) DEF Records
  <2>4. rec.present = record[q].present /\ rec.createdAt = record[q].createdAt /\ rec.payload = TRUE
    BY <1>2 DEF Records
  <2>5. Step(q, s) /\ record' = [record EXCEPT ![q] = rec]
    BY <1>3 DEF End, Patched
  <2> HIDE DEF s, rec
  <2>6. ReqOK(s, rec)
    BY <1>1, <1>2, <1>3, <2>2, <2>4 DEF ReqOK, Early, Late
  <2>7. QED
    BY Zenon, <1>1, <2>2, <2>3, <2>5, <2>6, Moves
<1>4. CASE /\ record' = record \/ (record[q].present /\ record' = Patched(q))
           /\ RetryOr(q, req[q], End(q, IF TimedOut(q) THEN "timedOut" ELSE "dropped"))
  <2> DEFINE how == IF TimedOut(q) THEN "timedOut" ELSE "dropped"
  <2>1. how \in Ends \ {"none", "stored", "delivered"}
    BY DEF Ends
  <2>2. CASE Step(q, [req[q] EXCEPT !.tries = @ + 1])
    <3>1. Held(q, [req[q] EXCEPT !.tries = @ + 1])
      BY <1>2, RetryHeld
    <3>2. QED
      BY <1>1, <1>4, <2>2, <3>1, PipelineKeeps
  <2>3. CASE End(q, how)
    <3> HIDE DEF how
    <3> QED
      BY <1>1, <1>4, <2>1, <2>3, EndKeeps
  <2>4. QED
    BY <1>4, <2>2, <2>3 DEF RetryOr
<1>5. QED
  BY <1>3, <1>4 DEF Patch
LEMMA CrashKeeps ==
  ASSUME AsyncChannelAssumption, IInv, NEW r \in Replicas, Crash(r)
  PROVE  IInv'
<1>1. /\ req' = [q \in Requests |-> IF req[q].replica = r THEN Ended(req[q], "lost") ELSE req[q]]
      /\ now' = now /\ channel' = channel /\ record' = record /\ sweep' = sweep
  BY DEF Crash
<1>2. \A q \in Requests : req'[q] \in Reqs /\ ReqOK(req[q], record[q])'
  <2> SUFFICES ASSUME NEW q \in Requests
               PROVE  req'[q] \in Reqs /\ ReqOK(req[q], record[q])'
    OBVIOUS
  <2>1. req[q] \in Reqs /\ ReqOK(req[q], record[q])
    BY ZenonT(30), TypeOf
  <2>2. CASE req[q].replica = r
    <3>1. req'[q] = Ended(req[q], "lost")
      BY <1>1, <2>2
    <3>2. "lost" \in Ends
      BY DEF Ends
    <3>3. /\ req'[q] \in Reqs /\ req'[q].stage = "done" /\ req'[q].end = "lost"
          /\ req'[q].accepted = req[q].accepted /\ req'[q].startedAt = req[q].startedAt
      BY <2>1, <3>1, <3>2, Endings
    <3>4. QED
      BY <1>1, <2>1, <3>3 DEF ReqOK, Early, Late
  <2>3. CASE req[q].replica # r
    <3>1. req'[q] = req[q]
      BY <1>1, <2>3
    <3>2. QED
      BY <1>1, <2>1, <3>1 DEF ReqOK, Deleted, Never
  <2>4. QED
    BY <2>2, <2>3
<1>3. req' \in [Requests -> Reqs]
  BY <1>1, <1>2
<1>4. QED
  BY <1>1, <1>2, <1>3 DEF IInv, TypeOK, Deleted, Never

-----------------------------------------------------------------------------
(* The channel, its records and the clock *)

\* Records go: of a deleted channel, or past their hour.
LEMMA RecordsGo ==
  ASSUME AsyncChannelAssumption, IInv, NEW S \in SUBSET Requests,
         record' = [q \in Requests |-> IF q \in S THEN NoRecord ELSE record[q]],
         now' = now, req' = req, channel' = channel,
         Deleted \/ \A q \in S : record[q].present /\ record[q].createdAt + AsyncTTL <= now
  PROVE  record' \in [Requests -> Records] /\ \A q \in Requests : ReqOK(req[q], record[q])'
<1>1. NoRecord \in Records /\ ~NoRecord.present
  BY DEF NoRecord, Records
<1>2. record' \in [Requests -> Records]
  BY <1>1 DEF IInv, TypeOK
<1>3. ASSUME NEW q \in Requests PROVE ReqOK(req[q], record[q])'
  <2>1. ReqOK(req[q], record[q])
    BY TypeOf
  <2>2. CASE q \in S
    <3>1. record'[q] = NoRecord
      BY <2>2
    <3>2. CASE Deleted
      BY Zenon, <1>1, <2>1, <3>1, <3>2 DEF ReqOK, Deleted, Never
    <3>3. CASE record[q].present /\ record[q].createdAt + AsyncTTL <= now
      <4>1. req[q].end = "stored" => ~(now < req[q].startedAt + AsyncTTL)
        <5>1. req[q].end = "stored" => record[q].createdAt = req[q].startedAt
          BY <2>1, <3>3 DEF ReqOK
        <5>2. record[q].createdAt \in Nat /\ AsyncTTL \in Nat /\ now \in Nat
          BY TypeOf DEF Records, AsyncChannelAssumption
        <5>3. QED
          BY <3>3, <5>1, <5>2
      <4>2. QED
        BY <1>1, <2>1, <3>1, <4>1 DEF ReqOK, Deleted, Never
    <3>4. QED
      BY <2>2, <3>2, <3>3
  <2>3. CASE q \notin S
    <3>1. record'[q] = record[q]
      BY <2>3
    <3>2. QED
      BY <2>1, <3>1 DEF ReqOK, Deleted, Never
  <2>4. QED
    BY <2>2, <2>3
<1>4. QED
  BY <1>2, <1>3

LEMMA PruneKeeps ==
  ASSUME AsyncChannelAssumption, IInv, Prune
  PROVE  IInv'
<1> DEFINE due == {q \in Requests : record[q].present /\ record[q].createdAt + AsyncTTL <= now}
<1>1. /\ record' = [q \in Requests |-> IF q \in due THEN NoRecord ELSE record[q]]
      /\ now' = now /\ req' = req /\ channel' = channel /\ sweep' = sweep
  BY DEF Prune
<1>2. due \in SUBSET Requests
      /\ \A q \in due : record[q].present /\ record[q].createdAt + AsyncTTL <= now
  OBVIOUS
<1> HIDE DEF due
<1>3. record' \in [Requests -> Records] /\ \A q \in Requests : ReqOK(req[q], record[q])'
  BY <1>1, <1>2, RecordsGo
<1>4. QED
  BY <1>1, <1>3 DEF IInv, TypeOK, Deleted, Never

LEMMA SweepKeeps ==
  ASSUME AsyncChannelAssumption, IInv, SweepDelete \/ SweepFails
  PROVE  IInv'
<1>1. Deleted /\ sweep.listed \in SUBSET Requests
  BY DEF IInv, TypeOK, SweepDelete, SweepFails
<1>2. now' = now /\ req' = req /\ channel' = channel
  BY DEF SweepDelete, SweepFails
<1>3. PICK S \in SUBSET Requests : record' = Without(S)
  BY <1>1 DEF SweepDelete, SweepFails
<1>4. record' \in [Requests -> Records] /\ \A q \in Requests : ReqOK(req[q], record[q])'
  BY <1>1, <1>2, <1>3, RecordsGo DEF Without
<1>5. sweep' \in [at : {"idle", "listed", "swept"}, listed : SUBSET Requests]
  BY DEF SweepDelete, SweepFails, NotSweeping
<1>6. Deleted'
  BY <1>1, <1>2 DEF Deleted, Never
<1>7. QED
  BY <1>2, <1>4, <1>5, <1>6 DEF IInv, TypeOK, Never

\* Time passes and the channel goes away: that only releases the store.
LEMMA LaterKeeps ==
  ASSUME AsyncChannelAssumption, IInv, req' = req, record' = record,
         now' \in 0..MaxTime, now <= now', Deleted => Deleted'
  PROVE  \A q \in Requests : ReqOK(req[q], record[q])'
<1> SUFFICES ASSUME NEW q \in Requests
             PROVE  ReqOK(req[q], record[q])'
  OBVIOUS
<1>1. ReqOK(req[q], record[q]) /\ req[q].startedAt \in Nat /\ now \in Nat /\ now' \in Nat
  BY TypeOf, Parts DEF AsyncChannelAssumption
<1>2. AsyncTTL \in Nat
  BY DEF AsyncChannelAssumption
<1>3. now' < req[q].startedAt + AsyncTTL => now < req[q].startedAt + AsyncTTL
  BY <1>1, <1>2
<1>4. QED
  BY <1>1, <1>3 DEF ReqOK
Channels == [phase : {"Active", "Terminating", "Gone"}, deletedAt : 0..Never,
             disconnected : BOOLEAN]

LEMMA ChannelKeeps ==
  ASSUME AsyncChannelAssumption, IInv, UserDeletes \/ Announce \/ Release
                                       \/ (\E r \in Replicas : Confirm(r))
  PROVE  IInv'
<1>1. now' = now /\ req' = req /\ record' = record
  BY DEF UserDeletes, Announce, Release, Confirm
<1>2. channel \in Channels /\ now \in 0..MaxTime /\ MaxTime \in Nat
  BY DEF IInv, TypeOK, Channels, AsyncChannelAssumption
<1>3. sweep' \in [at : {"idle", "listed", "swept"}, listed : SUBSET Requests]
  BY DEF IInv, TypeOK, UserDeletes, Announce, Release, Confirm, NotSweeping
<1>4. /\ channel' \in Channels /\ (Deleted => Deleted')
      /\ (channel.phase # "Active" => Deleted)' /\ (sweep.at # "idle" => Deleted)'
  <2>1. CASE UserDeletes
    <3>1. now \in 0..Never /\ now # Never
      BY <1>2 DEF Never
    <3>2. [channel EXCEPT !.deletedAt = now] \in Channels
      BY <1>2, <3>1, ZenonT(30) DEF Channels
    <3>3. channel'.deletedAt = now
      BY <1>2, <2>1 DEF UserDeletes, Channels
    <3>4. QED
      BY <2>1, <3>1, <3>2, <3>3 DEF UserDeletes, Deleted, Never
  <2>2. CASE Announce
    <3>1. [channel EXCEPT !.phase = "Terminating"] \in Channels
      BY <1>2, ZenonT(30) DEF Channels
    <3>2. channel'.deletedAt = channel.deletedAt /\ Deleted
      BY <1>2, <2>2 DEF Announce, Channels, Deleted
    <3>3. QED
      BY <2>2, <3>1, <3>2 DEF Announce, Deleted, Never
  <2>3. CASE Release
    <3>1. [channel EXCEPT !.phase = "Gone"] \in Channels
      BY <1>2, ZenonT(30) DEF Channels
    <3>2. channel'.deletedAt = channel.deletedAt /\ Deleted
      BY <1>2, <2>3 DEF Release, Channels, IInv
    <3>3. QED
      BY <2>3, <3>1, <3>2 DEF Release, Deleted, Never
  <2>4. CASE \E r \in Replicas : Confirm(r)
    <3>1. channel' = [channel EXCEPT !.disconnected = TRUE] /\ sweep' = sweep
      BY <2>4 DEF Confirm
    <3>2. [channel EXCEPT !.disconnected = TRUE] \in Channels
      BY <1>2, ZenonT(30) DEF Channels
    <3>3. channel'.deletedAt = channel.deletedAt /\ channel'.phase = channel.phase
      BY <1>2, <3>1 DEF Channels
    <3>4. QED
      BY <3>1, <3>2, <3>3 DEF IInv, Deleted, Never
  <2>5. QED
    BY <2>1, <2>2, <2>3, <2>4
<1>5. \A q \in Requests : ReqOK(req[q], record[q])'
  BY <1>1, <1>2, <1>4, LaterKeeps
<1>6. TypeOK'
  BY <1>1, <1>3, <1>4 DEF IInv, TypeOK, Channels, Never
<1>7. QED
  BY <1>4, <1>5, <1>6 DEF IInv

LEMMA QuietStepKeeps ==
  ASSUME AsyncChannelAssumption, IInv, SweepList \/ Tick \/ (\E r \in Replicas : Observe(r))
  PROVE  IInv'
<1>1. req' = req /\ record' = record /\ channel' = channel
  BY DEF SweepList, Tick, Observe
<1>2. now' \in 0..MaxTime /\ now <= now'
  BY DEF IInv, TypeOK, SweepList, Tick, Observe, AsyncChannelAssumption
<1>3. /\ sweep' \in [at : {"idle", "listed", "swept"}, listed : SUBSET Requests]
      /\ sweep'.at # "idle" => Deleted
  BY DEF IInv, TypeOK, SweepList, Tick, Observe, Listed
<1>4. \A q \in Requests : ReqOK(req[q], record[q])'
  BY <1>1, <1>2, LaterKeeps DEF Deleted, Never
<1>5. QED
  BY <1>1, <1>2, <1>3, <1>4 DEF IInv, TypeOK, Deleted, Never

-----------------------------------------------------------------------------
(* The theorems *)

LEMMA Inductive ==
  ASSUME AsyncChannelAssumption, IInv, [Next]_vars
  PROVE  IInv'
<1>1. ASSUME NEW q \in Requests, NEW r \in Replicas, Intake(q, r) PROVE IInv'
  BY <1>1, IntakeKeeps
<1>2. ASSUME NEW q \in Requests, Count(q) PROVE IInv'
  BY <1>2, CountKeeps
<1>3. ASSUME NEW q \in Requests, Create(q) PROVE IInv'
  BY <1>3, CreateKeeps
<1>4. ASSUME NEW q \in Requests, Wake(q) PROVE IInv'
  BY <1>4, WakeKeeps
<1>5. ASSUME NEW q \in Requests, Deliver(q) PROVE IInv'
  BY <1>5, DeliverKeeps
<1>6. ASSUME NEW q \in Requests, Callback(q) PROVE IInv'
  BY <1>6, CallbackKeeps
<1>7. ASSUME NEW q \in Requests, Patch(q) PROVE IInv'
  BY <1>7, PatchKeeps
<1>8. ASSUME NEW r \in Replicas, Crash(r) PROVE IInv'
  BY <1>8, CrashKeeps
<1>9. CASE UserDeletes \/ Announce \/ Release \/ (\E r \in Replicas : Confirm(r))
  BY <1>9, ChannelKeeps
<1>10. CASE SweepList \/ Tick \/ (\E r \in Replicas : Observe(r))
  BY <1>10, QuietStepKeeps
<1>11. CASE Prune
  BY <1>11, PruneKeeps
<1>12. CASE SweepDelete \/ SweepFails
  BY ZenonT(30), <1>12, SweepKeeps
<1>13. CASE UNCHANGED vars
  BY <1>13 DEF vars, IInv, TypeOK, ReqOK, Deleted, Never
<1>14. QED
  BY <1>1, <1>2, <1>3, <1>4, <1>5, <1>6, <1>7, <1>8, <1>9, <1>10, <1>11, <1>12, <1>13
     DEF Next

LEMMA Suffices ==
  ASSUME AsyncChannelAssumption, IInv
  PROVE  SettledReachesCaller
<1> SUFFICES ASSUME NEW q \in Requests, req[q].end \in {"delivered", "stored"},
                    ~req[q].received, ~Deleted, ~(now >= req[q].startedAt + AsyncTTL)
             PROVE  Poll(q) = "200"
  BY DEF SettledReachesCaller, Deleted
<1>1. /\ ReqOK(req[q], record[q]) /\ record[q] \in Records /\ now \in Nat
      /\ req[q].startedAt \in Nat /\ AsyncTTL \in Nat
  BY TypeOf, Parts DEF AsyncChannelAssumption
<1>2. req[q].end = "stored" /\ now < req[q].startedAt + AsyncTTL
  BY <1>1 DEF ReqOK
<1>3. record[q].present /\ record[q].payload /\ record[q].createdAt = req[q].startedAt
  BY <1>1, <1>2 DEF ReqOK
<1>4. ~Expired(q)
  BY <1>1, <1>2, <1>3 DEF Expired
<1>5. QED
  BY <1>3, <1>4 DEF Poll

\* The inductive invariant of the asynchronous pipeline: a request past the 202
\* has been accepted, its record carries the 202's time, and an answer that was
\* stored stays in a present record while the channel lives and the hour lasts,
\* across every crash, prune, sweep and retry.
THEOREM Invariant == ASSUME AsyncChannelAssumption PROVE Spec => []IInv
<1>1. Init => IInv
  BY Initially
<1>2. IInv /\ [Next]_vars => IInv'
  BY Inductive
<1>3. QED
  BY <1>1, <1>2, PTL DEF Spec

\* For any number of replicas, requests and crashes, and any timeouts: an answer
\* that runAsyncPipeline handed to the callback or stored in the record has
\* reached its receiver or is served by polling, until the record's hour is
\* over or the channel is deleted.
THEOREM AnswerReachesCaller ==
  ASSUME AsyncChannelAssumption PROVE Spec => []SettledReachesCaller
<1>1. IInv => SettledReachesCaller
  BY Suffices
<1>2. QED
  BY <1>1, Invariant, PTL
=============================================================================
