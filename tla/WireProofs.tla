----------------------------- MODULE WireProofs -----------------------------
(***************************************************************************)
(* Theorems about the gateway's per-request machinery: the tool broker,    *)
(* for every policy and any number of callers and tools, the bearer tokens *)
(* of CallerAuth, for any lifetimes and any clock, and the rate limiter,   *)
(* for any limit and any number of replicas.                               *)
(***************************************************************************)
EXTENDS ToolBroker, WireParts, Sums, FiniteSetTheorems, TLAPS

-----------------------------------------------------------------------------
(* ToolBroker *)

Verdicts == {None, "invalid_request", "access_denied", "rate_limited", "method_denied",
             "header_mismatch", "tool_denied", "tool_unavailable", "tool_timeout", "ok",
             "upstream_error", "response_too_large"}
CallRecords ==
  [pc : {"arrived", "reading", "forwarded", "done"}, who : Callers, body : Bodies \cup {None},
   session : Nat, permits : SUBSET Tools, since : Nat, answer : Verdicts, shows : SUBSET Tools]

TypeOK ==
  /\ policy \in Policies /\ edits \in Nat
  /\ call \in [Calls -> CallRecords]
  /\ opened \in Seq(Callers)

\* The calls whose filter matters: under way past authorisation, refused for
\* their tool, or answered with a listing.
Filtered(x) ==
  x.pc \in {"reading", "forwarded"} \/ x.answer = "tool_denied" \/ x.shows # {}

\* A call by itself, given the sessions opened.
CallOK(x, sessions) ==
  /\ x.since <= edits
  /\ x.pc # "done" => x.answer = None /\ x.shows = {}
  /\ x.answer = "tool_denied" => x.body.tool \notin x.permits
  /\ x.shows \subseteq x.permits
  /\ x.session # 0 => x.session \in 1..Len(sessions) /\ sessions[x.session] = x.who

\* The policy an edit count stands for: one filter for each caller.
Agree(x, y) ==
  Filtered(x) /\ Filtered(y) /\ x.who = y.who /\ x.since = y.since => x.permits = y.permits
Current(x) == Filtered(x) /\ x.since = edits => x.permits = FilterFor(x.who)

IInv ==
  /\ TypeOK /\ reached \subseteq Calls
  /\ \A c \in Calls : CallOK(call[c], opened) /\ Current(call[c])
  /\ \A c, d \in Calls : Agree(call[c], call[d])

-----------------------------------------------------------------------------
\* One call goes from x to new: its filter stays, stops to matter, or is the one
\* of the policy of this moment.
LEMMA CallStep ==
  ASSUME IInv, NEW c \in Calls, NEW new \in CallRecords, call' = [call EXCEPT ![c] = new],
         UNCHANGED <<policy, edits>>, reached' \subseteq Calls,
         opened' = opened \/ \E w \in Callers : opened' = Append(opened, w),
         new.who = call[c].who, CallOK(new, opened'),
         \/ ~Filtered(new)
         \/ Filtered(call[c]) /\ new.permits = call[c].permits /\ new.since = call[c].since
         \/ new.permits = FilterFor(new.who) /\ new.since = edits
  PROVE  IInv'
<1>1. /\ call'[c] = new /\ \A d \in Calls : d # c => call'[d] = call[d]
      /\ call' \in [Calls -> CallRecords]
  BY DEF IInv, TypeOK
<1>2. /\ opened' \in Seq(Callers) /\ Len(opened) \in Nat /\ Len(opened') \in Nat
      /\ Len(opened') >= Len(opened) /\ \A s \in 1..Len(opened) : opened'[s] = opened[s]
  <2>1. opened \in Seq(Callers) /\ Len(opened) \in Nat
    BY DEF IInv, TypeOK
  <2>2. CASE opened' = opened
    BY <2>1, <2>2
  <2>3. ASSUME NEW w \in Callers, opened' = Append(opened, w)
        PROVE  /\ opened' \in Seq(Callers) /\ Len(opened') = Len(opened) + 1
               /\ \A s \in 1..Len(opened) : opened'[s] = opened[s]
    BY <2>1, <2>3
  <2> QED
    BY <2>1, <2>2, <2>3
<1>3. TypeOK'
  BY <1>1, <1>2 DEF IInv, TypeOK
<1>4. \A w : FilterFor(w)' = FilterFor(w)
  BY DEF FilterFor
<1>5. ASSUME NEW d \in Calls PROVE CallOK(call[d], opened)' /\ Current(call[d])'
  <2>1. CASE d = c
    <3>1. CallOK(call[d], opened)'
      BY <1>1, <2>1 DEF CallOK
    <3>2. Current(call[d])'
      BY <1>1, <1>4, <2>1 DEF IInv, Current, Filtered
    <3> QED
      BY <3>1, <3>2
  <2>2. CASE d # c
    <3>1. CallOK(call[d], opened)
      BY DEF IInv
    <3>2. CallOK(call[d], opened)'
      BY <1>1, <1>2, <2>2, <3>1 DEF CallOK
    <3>3. Current(call[d])'
      BY <1>1, <1>4, <2>2 DEF IInv, Current, Filtered
    <3> QED
      BY <3>2, <3>3
  <2> QED
    BY <2>1, <2>2
<1>6. ASSUME NEW d \in Calls, NEW e \in Calls PROVE Agree(call[d], call[e])'
  <2>1. \A x \in Calls : Agree(new, call[x]) /\ Agree(call[x], new)
    BY DEF IInv, Agree, Current
  <2>2. Agree(new, new)
    BY DEF Agree
  <2>3. Agree(call'[d], call'[e])
    BY <1>1, <2>1, <2>2 DEF IInv
  <2> QED
    BY <2>3 DEF Agree, Filtered
<1> QED
  BY <1>3, <1>5, <1>6 DEF IInv

\* mcpResult: the call ends, and shows nothing.
LEMMA Ends ==
  ASSUME ToolBrokerAssumption, IInv, NEW c \in Calls, call[c].pc # "done",
         NEW answer \in Verdicts \ {None, "tool_denied"}, Result(c, answer),
         UNCHANGED <<policy, edits, reached>>,
         opened' = opened \/ opened' = Append(opened, call[c].who)
  PROVE  IInv'
<1> DEFINE x == call[c]
           new == [x EXCEPT !.pc = "done", !.answer = answer]
<1>1. x \in CallRecords /\ CallOK(x, opened) /\ reached' \subseteq Calls
  BY DEF IInv, TypeOK
<1>2. call' = [call EXCEPT ![c] = new]
  BY Zenon DEF Result, IInv, TypeOK
<1>3. /\ new \in CallRecords /\ new.pc = "done" /\ new.answer = answer /\ new.who = x.who
      /\ new.since = x.since /\ new.shows = x.shows /\ new.session = x.session
      /\ new.permits = x.permits /\ x.who \in Callers
  BY Zenon, <1>1 DEF CallRecords
<1>4. Len(opened) \in Nat /\ \A s \in 1..Len(opened) : s \in 1..Len(opened') /\ opened'[s] = opened[s]
  <2>1. opened \in Seq(Callers) /\ x.who \in Callers
    BY <1>3 DEF IInv, TypeOK
  <2> HIDE DEF x
  <2> QED
    BY <2>1 DEF x
<1> HIDE DEF new, x
<1>5. x.shows = {} /\ x.answer = None
  BY <1>1 DEF CallOK, x
<1>6. CallOK(new, opened') /\ ~Filtered(new)
  BY <1>1, <1>3, <1>4, <1>5 DEF CallOK, Filtered
<1> QED
  BY Zenon, <1>1, <1>2, <1>3, <1>6, CallStep DEF x

LEMMA AuthorizeKeeps ==
  ASSUME ToolBrokerAssumption, IInv, NEW c \in Calls, Authorize(c) PROVE IInv'
<1>1. ASSUME NEW answer \in Verdicts \ {None, "tool_denied"}, Deny(c, answer) PROVE IInv'
  BY <1>1, Ends DEF Authorize, Deny
<1>2. CASE /\ call' = [call EXCEPT ![c].pc = "reading", ![c].permits = FilterFor(call[c].who),
                                    ![c].since = edits]
           /\ UNCHANGED <<opened, reached>>
  <2> DEFINE x == call[c]
             filter == FilterFor(x.who)
             new == [x EXCEPT !.pc = "reading", !.permits = filter, !.since = edits]
  <2>1. /\ x \in CallRecords /\ CallOK(x, opened) /\ reached' \subseteq Calls
        /\ x.pc = "arrived" /\ UNCHANGED <<policy, edits>> /\ edits \in Nat
    BY <1>2 DEF IInv, TypeOK, Authorize
  <2>2. call' = [call EXCEPT ![c] = new]
    BY Zenon, <1>2 DEF IInv, TypeOK
  <2>3. filter \in SUBSET Tools
    <3>1. policy.grant \in SUBSET Tools /\ policy.catalog \in SUBSET Tools
      BY DEF ToolBrokerAssumption, IInv, TypeOK
    <3> QED
      BY <3>1 DEF FilterFor, NewToolFilter
  <2> HIDE DEF filter
  <2>4. /\ new \in CallRecords /\ new.pc = "reading" /\ new.answer = x.answer /\ new.who = x.who
        /\ new.since = edits /\ new.shows = x.shows /\ new.session = x.session
        /\ new.permits = filter
    BY Zenon, <2>1, <2>3 DEF CallRecords
  <2>5. new.permits = FilterFor(new.who)
    BY <2>4 DEF filter
  <2> HIDE DEF new, x
  <2>6. CallOK(new, opened')
    <3>1. opened' = opened /\ x.answer = None /\ x.shows = {} /\ None # "tool_denied"
      BY <1>2, <2>1 DEF CallOK, None
    <3> QED
      BY <2>1, <2>4, <3>1 DEF CallOK
  <2> QED
    BY Zenon, <1>2, <2>1, <2>2, <2>4, <2>5, <2>6, CallStep DEF x
<1>3. AuthorizeToolRoute(call[c].who) # "ok" => AuthorizeToolRoute(call[c].who) = "access_denied"
  BY DEF AuthorizeToolRoute
<1> QED
  BY <1>1, <1>2, <1>3 DEF Authorize, Verdicts, None

\* unwrapSessionID: the session of a call that goes upstream.
LEMMA Unwrapped ==
  ASSUME IInv, NEW w \in Callers, NEW s \in Wrapped \cup {NoSession}, NEW modern \in BOOLEAN,
         ~(~modern /\ s # NoSession /\ ~Unwrap(w, s))
  PROVE  LET id == IF modern THEN 0 ELSE s.raw
         IN  id \in Nat /\ (id # 0 => id \in 1..Len(opened) /\ opened[id] = w)
<1>0. DOMAIN opened = 1..Len(opened) /\ Len(opened) \in Nat
  BY DEF IInv, TypeOK
<1>1. CASE modern
  BY <1>1
<1>2. CASE ~modern /\ s = NoSession
  BY <1>2 DEF NoSession
<1>3. CASE ~modern /\ s # NoSession
  <2>1. PICK i \in DOMAIN opened : s = [raw |-> i, mac |-> opened[i]]
    BY <1>3 DEF Wrapped
  <2>2. s.raw = i /\ s.mac = opened[i]
    BY <2>1
  <2>3. s.mac = w
    BY <1>3 DEF Unwrap
  <2>4. s.raw \in 1..Len(opened) /\ opened[s.raw] = w /\ s.raw \in Nat
    BY <1>0, <2>2, <2>3
  <2> QED
    BY <1>3, <2>4
<1> QED
  BY <1>1, <1>2, <1>3

LEMMA ReceiveKeeps ==
  ASSUME ToolBrokerAssumption, IInv, NEW c \in Calls, NEW body \in Bodies,
         NEW modern \in BOOLEAN, NEW mirrored \in BOOLEAN,
         NEW s \in Wrapped \cup {NoSession}, Receive(c, body, modern, mirrored, s)
  PROVE  IInv'
<1> DEFINE x == call[c]
<1>0. /\ x \in CallRecords /\ CallOK(x, opened) /\ x.pc = "reading" /\ reached \subseteq Calls
      /\ UNCHANGED <<policy, edits>> /\ x.who \in Callers /\ x.answer = None /\ x.shows = {}
      /\ Filtered(x) /\ None # "tool_denied"
  BY DEF IInv, TypeOK, Receive, CallRecords, CallOK, Filtered, None
<1>1. ASSUME NEW answer \in Verdicts \ {None, "tool_denied"}, Deny(c, answer) PROVE IInv'
  BY <1>0, <1>1, Ends DEF Deny
<1>2. CASE /\ body.method = "tools/call" /\ body.tool \notin x.permits
           /\ call' = [call EXCEPT ![c].pc = "done", ![c].body = body,
                                   ![c].answer = "tool_denied"]
           /\ UNCHANGED <<opened, reached>>
  <2> DEFINE new == [x EXCEPT !.pc = "done", !.body = body, !.answer = "tool_denied"]
  <2>1. call' = [call EXCEPT ![c] = new]
    BY Zenon, <1>2 DEF IInv, TypeOK
  <2>2. "tool_denied" \in Verdicts /\ body \in Bodies \cup {None}
    BY DEF Verdicts
  <2>3. new \in CallRecords
    BY Zenon, <1>0, <2>2 DEF CallRecords
  <2>4. /\ new.pc = "done" /\ new.answer = "tool_denied" /\ new.who = x.who /\ new.body = body
        /\ new.since = x.since /\ new.shows = x.shows /\ new.session = x.session
        /\ new.permits = x.permits
    BY <1>0 DEF CallRecords
  <2>5. opened' = opened /\ reached' = reached /\ body.tool \notin x.permits
    BY <1>2
  <2> HIDE DEF new, x
  <2>6. CallOK(new, opened')
    BY <1>0, <2>4, <2>5 DEF CallOK
  <2> QED
    BY Zenon, <1>0, <2>1, <2>3, <2>4, <2>5, <2>6, CallStep DEF x
<1>3. CASE /\ ~(~modern /\ s # NoSession /\ ~Unwrap(x.who, s))
           /\ call' = [call EXCEPT ![c].pc = "forwarded", ![c].body = body,
                                   ![c].session = IF modern THEN 0 ELSE s.raw]
           /\ reached' = reached \cup {c} /\ UNCHANGED opened
  <2> DEFINE id == IF modern THEN 0 ELSE s.raw
             new == [x EXCEPT !.pc = "forwarded", !.body = body, !.session = id]
  <2>1. call' = [call EXCEPT ![c] = new]
    BY Zenon, <1>3 DEF IInv, TypeOK
  <2>2. id \in Nat /\ (id # 0 => id \in 1..Len(opened) /\ opened[id] = x.who)
    BY <1>0, <1>3, Unwrapped
  <2>5. opened' = opened /\ reached' \subseteq Calls
    BY <1>0, <1>3
  <2> HIDE DEF id
  <2>3. new \in CallRecords
    BY Zenon, <1>0, <2>2 DEF CallRecords
  <2>4. /\ new.pc = "forwarded" /\ new.answer = x.answer /\ new.who = x.who
        /\ new.since = x.since /\ new.shows = x.shows /\ new.session = id
        /\ new.permits = x.permits
    BY <1>0 DEF CallRecords
  <2> HIDE DEF new, x
  <2>6. CallOK(new, opened')
    BY <1>0, <2>2, <2>4, <2>5 DEF CallOK
  <2> QED
    BY Zenon, <1>0, <2>1, <2>3, <2>4, <2>5, <2>6, CallStep DEF x
<1>4. {"invalid_request", "method_denied", "header_mismatch", "access_denied", "tool_unavailable"}
        \subseteq Verdicts \ {None, "tool_denied"}
  BY DEF Verdicts, None
<1> QED
  BY <1>1, <1>2, <1>3, <1>4 DEF Receive

LEMMA RespondKeeps ==
  ASSUME ToolBrokerAssumption, IInv, NEW c \in Calls, Respond(c) PROVE IInv'
<1> DEFINE x == call[c]
<1>0. /\ x \in CallRecords /\ CallOK(x, opened) /\ x.pc = "forwarded" /\ reached \subseteq Calls
      /\ UNCHANGED <<policy, edits, reached>> /\ x.who \in Callers /\ x.answer = None
      /\ Filtered(x) /\ opened \in Seq(Callers)
      /\ opened' = opened \/ opened' = Append(opened, x.who)
  BY DEF IInv, TypeOK, Respond, CallRecords, CallOK, Filtered
<1>1. ASSUME NEW answer \in Verdicts \ {None, "tool_denied"}, Result(c, answer) PROVE IInv'
  BY <1>0, <1>1, Ends
<1>2. ASSUME NEW offered \in SUBSET Tools,
             call' = [call EXCEPT ![c].pc = "done", ![c].answer = "ok",
                                  ![c].shows = offered \cap call[c].permits]
      PROVE  IInv'
  <2> DEFINE shown == offered \cap x.permits
             new == [x EXCEPT !.pc = "done", !.answer = "ok", !.shows = shown]
  <2>1. call' = [call EXCEPT ![c] = new]
    BY Zenon, <1>2 DEF IInv, TypeOK
  <2>2. "ok" \in Verdicts /\ shown \in SUBSET Tools /\ shown \subseteq x.permits
    BY DEF Verdicts
  <2> HIDE DEF shown
  <2>3. new \in CallRecords
    BY Zenon, <1>0, <2>2 DEF CallRecords
  <2>4. /\ new.pc = "done" /\ new.answer = "ok" /\ new.who = x.who
        /\ new.since = x.since /\ new.shows = shown /\ new.session = x.session
        /\ new.permits = x.permits
    BY <1>0 DEF CallRecords
  <2>5. \A i \in 1..Len(opened) : i \in 1..Len(opened') /\ opened'[i] = opened[i]
    BY <1>0
  <2> HIDE DEF new, x
  <2>6. CallOK(new, opened')
    BY <1>0, <2>2, <2>4, <2>5 DEF CallOK
  <2> QED
    BY Zenon, <1>0, <2>1, <2>3, <2>4, <2>6, CallStep DEF x
<1>3. {"tool_timeout", "tool_unavailable", "ok", "upstream_error", "response_too_large"}
        \subseteq Verdicts \ {None, "tool_denied"}
  BY DEF Verdicts, None
<1> QED
  BY Zenon, <1>1, <1>2, <1>3 DEF Respond

\* An edit: every filter so far was fixed under an earlier count.
LEMMA EditKeeps ==
  ASSUME ToolBrokerAssumption, IInv, Edit PROVE IInv'
<1>1. policy' \in Policies /\ edits' = edits + 1 /\ UNCHANGED <<call, opened, reached>> /\ edits \in Nat
  BY DEF Edit, IInv, TypeOK
<1>2. TypeOK'
  BY <1>1 DEF IInv, TypeOK
<1>3. ASSUME NEW c \in Calls PROVE CallOK(call[c], opened)' /\ Current(call[c])'
  <2>1. call[c].since \in Nat /\ call[c].since <= edits /\ CallOK(call[c], opened)
    BY DEF IInv, TypeOK, CallRecords, CallOK
  <2> QED
    BY <1>1, <2>1 DEF CallOK, Current
<1>4. \A c, d \in Calls : Agree(call[c], call[d])'
  BY <1>1 DEF IInv, Agree, Filtered
<1> QED
  BY <1>1, <1>2, <1>3, <1>4 DEF IInv

LEMMA InitHolds == ASSUME ToolBrokerAssumption, Init PROVE IInv
<1>1. ASSUME NEW c \in Calls
      PROVE  /\ call[c] \in CallRecords /\ call[c].pc = "arrived" /\ call[c].answer = None
             /\ call[c].shows = {} /\ call[c].session = 0 /\ call[c].since = 0
  <2>1. PICK w \in Callers : call[c] = NewCall(w)
    BY DEF Init
  <2>2. None \in Verdicts
    BY DEF Verdicts
  <2> QED
    BY <2>1, <2>2 DEF NewCall, CallRecords
<1>2. TypeOK
  <2>1. call \in [Calls -> CallRecords]
    BY <1>1 DEF Init
  <2> QED
    BY <2>1 DEF Init, TypeOK
<1>3. \A c \in Calls : ~Filtered(call[c])
  BY <1>1 DEF Filtered, None
<1>4. \A c \in Calls : CallOK(call[c], opened)
  BY <1>1 DEF CallOK, Init, None
<1> QED
  BY <1>2, <1>3, <1>4 DEF IInv, Current, Agree, Init

LEMMA NextKeeps == ASSUME ToolBrokerAssumption, IInv, [Next]_toolVars PROVE IInv'
<1>1. CASE UNCHANGED toolVars
  BY <1>1 DEF toolVars, IInv, TypeOK, CallOK, Current, Agree, Filtered, FilterFor
<1> QED
  BY Zenon, <1>1, EditKeeps, AuthorizeKeeps, ReceiveKeeps, RespondKeeps DEF Next, Handle, ToolDone

\* A call's filter is the one of the policy it was authorised under, its sessions
\* are its caller's own, and a listing shows what the filter lets through.
THEOREM Invariant == ASSUME ToolBrokerAssumption PROVE Spec => []IInv
<1>1. Init => IInv
  BY InitHolds
<1>2. IInv /\ [Next]_toolVars => IInv'
  BY NextKeeps
<1> QED
  BY <1>1, <1>2, PTL DEF Spec

\* unwrapSessionID lets no caller resume a session opened for another, however
\* calls, answers and new sessions interleave.
THEOREM SessionsOwned == ASSUME ToolBrokerAssumption PROVE Spec => []SessionsStayWithTheirOwner
<1>1. IInv => SessionsStayWithTheirOwner
  BY DEF IInv, CallOK, SessionsStayWithTheirOwner
<1> QED
  BY <1>1, Invariant, PTL

\* The filter of a listing and the check of a call agree as long as no edit of the
\* policy lies between their authorisations.
THEOREM ListedCallable == ASSUME ToolBrokerAssumption PROVE Spec => []ListedIsCallable
<1>1. IInv => ListedIsCallable
  <2> SUFFICES ASSUME IInv, NEW c \in Calls, NEW d \in Calls, call[c].answer = "tool_denied",
                      call[d].who = call[c].who, call[d].since = call[c].since,
                      call[c].body.tool \in call[d].shows
               PROVE  FALSE
    BY DEF ListedIsCallable
  <2>1. Filtered(call[c]) /\ Filtered(call[d])
    BY DEF Filtered
  <2>2. call[c].permits = call[d].permits
    BY <2>1 DEF IInv, Agree
  <2> QED
    BY <2>2 DEF IInv, CallOK
<1> QED
  BY <1>1, Invariant, PTL

-----------------------------------------------------------------------------
(* CallerAuth *)

CacheStates == [expires : Nat, late : BOOLEAN, reviewed : Nat]
RequestStates == [pc : {"idle", "reviewing", "accepted", "rejected"}, late : BOOLEAN]

\* A cached verdict came from a review begun before the revocation and is good
\* for MaxTTL at most; so is one that has been accepted and not yet cached.
AuthInv ==
  /\ now \in Nat /\ revoked \in BOOLEAN
  /\ cache \in CacheStates /\ ~cache.late /\ cache.expires <= cache.reviewed + MaxTTL
  /\ request \in [Requests -> RequestStates]
  /\ \A r \in Requests : /\ request[r].late => revoked
                         /\ request[r].pc = "accepted" => ~request[r].late
  /\ Auth!RevocationTakesHold

\* cacheTTL is between nothing and tokenCacheMaxTTL.
LEMMA TTLBounded ==
  ASSUME Auth!CallerAuthAssumption, now \in Nat
  PROVE  Auth!CacheTTL \in Nat /\ Auth!CacheTTL <= MaxTTL
<1> DEFINE rest == Lifetime - now - Margin
           low == Auth!Min({MaxTTL, rest})
<1>1. MaxTTL \in Nat /\ rest \in Int
  BY DEF Auth!CallerAuthAssumption
<1> HIDE DEF rest
<1>2. low \in {MaxTTL, rest} /\ low <= MaxTTL
  <2>1. CASE MaxTTL <= rest
    <3>1. MaxTTL \in {MaxTTL, rest} /\ \A y \in {MaxTTL, rest} : MaxTTL <= y
      BY <1>1, <2>1
    <3>2. QED
      BY <1>1, <3>1 DEF Auth!Min
  <2>2. CASE ~(MaxTTL <= rest)
    <3>1. rest \in {MaxTTL, rest} /\ \A y \in {MaxTTL, rest} : rest <= y
      BY <1>1, <2>2
    <3>2. QED
      BY <1>1, <3>1 DEF Auth!Min
  <2>3. QED
    BY <2>1, <2>2
<1>3. low \in Int
  BY <1>1, <1>2
<1> HIDE DEF low
<1>4. Auth!Max({0, low}) \in {0, low} /\ Auth!Max({0, low}) >= 0
  <2>1. CASE low >= 0
    <3>1. low \in {0, low} /\ \A y \in {0, low} : low >= y
      BY <1>3, <2>1
    <3>2. QED
      BY <1>3, <3>1 DEF Auth!Max
  <2>2. CASE ~(low >= 0)
    <3>1. 0 \in {0, low} /\ \A y \in {0, low} : 0 >= y
      BY <1>3, <2>2
    <3>2. QED
      BY <1>3, <3>1 DEF Auth!Max
  <2>3. QED
    BY <2>1, <2>2
<1>5. Auth!CacheTTL = Auth!Max({0, low})
  BY DEF Auth!CacheTTL, low, rest
<1>6. QED
  BY <1>1, <1>2, <1>3, <1>4, <1>5
LEMMA AuthToken ==
  ASSUME Auth!CallerAuthAssumption, AuthInv, NEW r \in Requests, Auth!WithToken(r)
  PROVE  AuthInv'
<1>1. UNCHANGED <<now, pod, podInformer, revoked, cache>>
  BY DEF Auth!WithToken
<1>2. CASE request' = request /\ last' = Auth!Decision("token", "unauthorized")
  BY Zenon, <1>1, <1>2 DEF AuthInv, Auth!RevocationTakesHold, Auth!AcceptedToken, Auth!Decision,
                    Auth!NoDecision
<1>3. CASE /\ now < cache.expires /\ request' = request
           /\ last' = [path |-> "token", verdict |-> Auth!Verdict(Auth!CrossCheck),
                       late |-> cache.late, reviewed |-> cache.reviewed]
  <2>1. last'.late = cache.late /\ last'.reviewed = cache.reviewed
    BY ZenonT(30), <1>3
  <2>2. ~cache.late /\ now < cache.reviewed + MaxTTL
    BY <1>3 DEF AuthInv, CacheStates, Auth!CallerAuthAssumption
  <2>3. Auth!RevocationTakesHold'
    BY ZenonT(30), <1>1, <2>1, <2>2 DEF Auth!RevocationTakesHold
  <2>4. QED
    BY Zenon, <1>1, <1>3, <2>3 DEF AuthInv
<1>4. CASE /\ request' = [request EXCEPT ![r] = [pc |-> "reviewing", late |-> revoked]]
           /\ last' = Auth!NoDecision
  <2>1. [pc |-> "reviewing", late |-> revoked] \in RequestStates
    BY ZenonT(30) DEF AuthInv, RequestStates
  <2>2. request' \in [Requests -> RequestStates]
    BY Zenon, <1>4, <2>1 DEF AuthInv
  <2>3. \A q \in Requests : /\ request'[q].late => revoked
                            /\ request'[q].pc = "accepted" => ~request'[q].late
    BY ZenonT(30), <1>4 DEF AuthInv
  <2>4. Auth!RevocationTakesHold'
    BY <1>4 DEF Auth!RevocationTakesHold, Auth!AcceptedToken, Auth!NoDecision
  <2>5. QED
    BY <1>1, <2>2, <2>3, <2>4 DEF AuthInv
<1>5. QED
  <2>1. CASE podInformer.managed
    BY <1>2, <2>1 DEF Auth!WithToken
  <2>2. CASE ~podInformer.managed /\ now < cache.expires
    <3>1. ~(now >= cache.expires)
      BY <2>2 DEF AuthInv, CacheStates
    <3>2. QED
      BY ZenonT(30), <1>3, <2>2, <3>1 DEF Auth!WithToken
  <2>3. CASE ~podInformer.managed /\ ~(now < cache.expires)
    <3>1. now >= cache.expires
      BY <2>3 DEF AuthInv, CacheStates
    <3>2. QED
      BY Zenon, <1>4, <2>3, <3>1 DEF Auth!WithToken
  <2>4. QED
    BY <2>1, <2>2, <2>3

LEMMA AuthReview ==
  ASSUME Auth!CallerAuthAssumption, AuthInv, NEW r \in Requests, Auth!Review(r)
  PROVE  AuthInv'
<1>1. UNCHANGED <<now, pod, podInformer, revoked, cache>> /\ request[r] \in RequestStates
  BY DEF Auth!Review, AuthInv
<1>2. CASE /\ request' = [request EXCEPT ![r].pc =
                IF now < Lifetime /\ ~revoked THEN "accepted" ELSE "rejected"]
           /\ last' = Auth!NoDecision
  <2> DEFINE pc == IF now < Lifetime /\ ~revoked THEN "accepted" ELSE "rejected"
             q == [request[r] EXCEPT !.pc = pc]
  <2>1. pc \in {"idle", "reviewing", "accepted", "rejected"} /\ (pc = "accepted" => ~revoked)
    OBVIOUS
  <2>2. request' = [request EXCEPT ![r] = q]
    BY <1>2
  <2> HIDE DEF pc
  <2>3. q \in RequestStates
    BY <1>1, <2>1, ZenonT(30) DEF RequestStates
  <2>4. q.pc = pc /\ q.late = request[r].late
    BY <1>1 DEF RequestStates
  <2> HIDE DEF q
  <2>5. request' \in [Requests -> RequestStates]
    BY Zenon, <2>2, <2>3 DEF AuthInv
  <2>6. \A p \in Requests : /\ request'[p].late => revoked
                            /\ request'[p].pc = "accepted" => ~request'[p].late
    BY <2>1, <2>2, <2>4 DEF AuthInv
  <2>7. Auth!RevocationTakesHold'
    BY Zenon, <1>2 DEF Auth!RevocationTakesHold, Auth!AcceptedToken, Auth!NoDecision
  <2>8. QED
    BY <1>1, <2>5, <2>6, <2>7 DEF AuthInv
<1>3. CASE request' = [request EXCEPT ![r] = Auth!Idle] /\ last' = Auth!Decision("token", "unavailable")
  <2>1. Auth!Idle \in RequestStates /\ Auth!Idle.pc = "idle" /\ ~Auth!Idle.late
    BY DEF Auth!Idle, RequestStates
  <2>2. request' \in [Requests -> RequestStates]
    BY Zenon, <1>3, <2>1 DEF AuthInv
  <2>3. \A p \in Requests : /\ request'[p].late => revoked
                            /\ request'[p].pc = "accepted" => ~request'[p].late
    BY <1>3, <2>1 DEF AuthInv
  <2>4. Auth!RevocationTakesHold'
    BY Zenon, <1>3 DEF Auth!RevocationTakesHold, Auth!AcceptedToken, Auth!NoDecision, Auth!Decision
  <2>5. QED
    BY <1>1, <2>2, <2>3, <2>4 DEF AuthInv
<1>4. QED
  BY <1>2, <1>3 DEF Auth!Review

LEMMA AuthReviewed ==
  ASSUME Auth!CallerAuthAssumption, AuthInv, NEW r \in Requests, Auth!Reviewed(r)
  PROVE  AuthInv'
<1>1. /\ UNCHANGED <<now, pod, podInformer, revoked>> /\ request[r] \in RequestStates
      /\ request' = [request EXCEPT ![r] = Auth!Idle] /\ now \in Nat /\ MaxTTL \in Nat \ {0}
  BY Zenon DEF Auth!Reviewed, AuthInv, Auth!CallerAuthAssumption
<1>2. Auth!Idle \in RequestStates /\ Auth!Idle.pc = "idle" /\ ~Auth!Idle.late
  BY DEF Auth!Idle, RequestStates
<1>3. request' \in [Requests -> RequestStates]
  BY Zenon, <1>1, <1>2 DEF AuthInv
<1>4. \A p \in Requests : /\ request'[p].late => revoked
                          /\ request'[p].pc = "accepted" => ~request'[p].late
  BY Zenon, <1>1, <1>2 DEF AuthInv
<1>5. CASE request[r].pc = "rejected" /\ last' = Auth!Decision("token", "unauthorized") /\ cache' = cache
  <2>1. Auth!RevocationTakesHold'
    BY Zenon, <1>5 DEF Auth!RevocationTakesHold, Auth!AcceptedToken, Auth!NoDecision, Auth!Decision
  <2>2. QED
    BY <1>1, <1>3, <1>4, <1>5, <2>1 DEF AuthInv
<1>6. CASE /\ request[r].pc = "accepted"
           /\ cache' = [expires |-> now + Auth!CacheTTL, late |-> request[r].late, reviewed |-> now]
           /\ last' = [path |-> "token", verdict |-> Auth!Verdict(Auth!CrossCheck),
                       late |-> request[r].late, reviewed |-> now]
  <2>1. ~request[r].late /\ Auth!CacheTTL \in Nat /\ Auth!CacheTTL <= MaxTTL
        /\ request[r].late \in BOOLEAN
    BY <1>1, <1>6, TTLBounded DEF AuthInv, RequestStates
  <2>2. now + Auth!CacheTTL \in Nat
    BY <1>1, <2>1
  <2>3. cache' \in CacheStates
    BY <1>1, <1>6, <2>1, <2>2, ZenonT(30) DEF CacheStates
  <2>4. ~cache'.late /\ cache'.expires <= cache'.reviewed + MaxTTL
    <3>1. /\ cache'.late = request[r].late /\ cache'.reviewed = now
          /\ cache'.expires = now + Auth!CacheTTL
      BY ZenonT(60), <1>6
    <3>2. QED
      BY <1>1, <2>1, <3>1
  <2>5. last'.late = request[r].late /\ last'.reviewed = now
    BY Zenon, <1>6
  <2>6. Auth!RevocationTakesHold'
    BY <1>1, <2>1, <2>5 DEF Auth!RevocationTakesHold
  <2>7. QED
    BY ZenonT(30), <1>1, <1>3, <1>4, <2>3, <2>4, <2>6 DEF AuthInv
<1>7. QED
  BY Zenon, <1>5, <1>6 DEF Auth!Reviewed

\* tokenCacheMaxTTL bounds how long a revoked token is honoured, for any number
\* of requests in flight, any lifetime and any margin: it is accepted only
\* within MaxTTL of the return of a review begun while the token was good.
THEOREM RevocationBounded ==
  ASSUME Auth!CallerAuthAssumption PROVE Auth!Spec => []RevocationTakesHold
<1>1. Auth!Init => AuthInv
  <2> SUFFICES ASSUME Auth!Init PROVE AuthInv
    OBVIOUS
  <2>1. Auth!NoEntry \in CacheStates /\ Auth!Idle \in RequestStates
    BY DEF Auth!NoEntry, CacheStates, Auth!Idle, RequestStates
  <2>2. now \in Nat /\ revoked \in BOOLEAN /\ cache \in CacheStates
        /\ request \in [Requests -> RequestStates]
    BY ZenonT(30), <2>1 DEF Auth!Init
  <2>3. ~cache.late /\ cache.expires <= cache.reviewed + MaxTTL
    BY DEF Auth!Init, Auth!NoEntry, Auth!CallerAuthAssumption
  <2>4. \A r \in Requests : ~request[r].late
    BY DEF Auth!Init, Auth!Idle
  <2>5. Auth!RevocationTakesHold
    BY DEF Auth!Init, Auth!RevocationTakesHold, Auth!AcceptedToken, Auth!NoDecision
  <2>6. QED
    BY <2>2, <2>3, <2>4, <2>5 DEF AuthInv
<1>2. ASSUME AuthInv, [Auth!AuthNext]_(Auth!authVars) PROVE AuthInv'
  <2>1. CASE Auth!Tick \/ Auth!PodChanges \/ Auth!Informed \/ Auth!Revoke
    <3>1. UNCHANGED <<cache, request>> /\ last' = Auth!NoDecision
      BY <2>1 DEF Auth!Tick, Auth!PodChanges, Auth!Informed, Auth!Revoke
    <3>2. now' \in Nat
      BY <1>2, <2>1 DEF Auth!Tick, Auth!PodChanges, Auth!Informed, Auth!Revoke, AuthInv
    <3>3. revoked' \in BOOLEAN /\ (revoked => revoked')
      <4>1. CASE revoked' = revoked
        BY <1>2, <4>1 DEF AuthInv
      <4>2. CASE revoked' = TRUE
        BY <4>2
      <4>3. QED
        BY ZenonT(30), <2>1, <4>1, <4>2 DEF Auth!Tick, Auth!PodChanges, Auth!Informed, Auth!Revoke
    <3>4. Auth!RevocationTakesHold'
      BY <3>1 DEF Auth!RevocationTakesHold, Auth!AcceptedToken, Auth!NoDecision
    <3>5. \A r \in Requests : /\ request'[r].late => revoked'
                              /\ request'[r].pc = "accepted" => ~request'[r].late
      BY <1>2, <3>1, <3>3 DEF AuthInv
    <3>6. QED
      BY ZenonT(30), <1>2, <3>1, <3>2, <3>3, <3>4, <3>5 DEF AuthInv
  <2>2. ASSUME NEW path \in Auth!Paths, NEW verdict, last' = Auth!Decision(path, verdict),
               UNCHANGED <<now, pod, podInformer, revoked, cache, request>>
        PROVE  AuthInv'
    <3>1. last'.path # "token"
      BY <2>2 DEF Auth!Paths, Auth!Decision, Auth!NoDecision
    <3>2. QED
      BY <1>2, <2>2, <3>1 DEF AuthInv, Auth!RevocationTakesHold, Auth!AcceptedToken
  <2>3. CASE \E path \in Auth!Paths, cert \in Auth!Certificates : Auth!WithCertificate(path, cert)
    BY ZenonT(30), <2>2, <2>3 DEF Auth!WithCertificate
  <2>4. CASE \E path \in Auth!Paths : Auth!WithoutCertificate(path)
    BY <2>2, <2>4 DEF Auth!WithoutCertificate
  <2>5. CASE \E r \in Requests : Auth!WithToken(r) \/ Auth!Review(r) \/ Auth!Reviewed(r)
    BY ZenonT(30), <1>2, <2>5, AuthToken, AuthReview, AuthReviewed
  <2>6. CASE UNCHANGED Auth!authVars
    BY <1>2, <2>6 DEF Auth!authVars, AuthInv, Auth!RevocationTakesHold, Auth!AcceptedToken
  <2>7. QED
    BY <1>2, <2>1, <2>3, <2>4, <2>5, <2>6 DEF Auth!AuthNext
<1>3. AuthInv => RevocationTakesHold
  BY DEF AuthInv, RevocationTakesHold
<1>4. QED
  BY <1>1, <1>2, <1>3, PTL DEF Auth!Spec

-----------------------------------------------------------------------------
(* RateLimit *)

\* The rate limiter's sums are the sums of Sums.
LEMMA SumsAgree ==
  /\ \A S : Rate!IsFiniteSet(S) <=> IsFiniteSet(S)
  /\ \A S : Rate!Cardinality(S) = Cardinality(S)
  /\ \A f, S : Rate!Total(f, S) = Total(f, S)
<1>1. ASSUME NEW S  PROVE Rate!IsFiniteSet(S) <=> IsFiniteSet(S)
  BY Zenon DEF Rate!IsFiniteSet, IsFiniteSet
<1>2. ASSUME NEW S  PROVE Rate!Cardinality(S) = Cardinality(S)
  BY Zenon DEF Rate!Cardinality, Cardinality
<1>3. ASSUME NEW f, NEW S  PROVE Rate!Total(f, S) = Total(f, S)
  <2>1. Rate!Units(f, S) = Units(f, S)
    BY Zenon DEF Rate!Units, Units
  <2> QED
    BY Zenon, <1>2, <2>1 DEF Rate!Total, Total
<1> QED
  BY Zenon, <1>1, <1>2, <1>3

LEMMA UnitsFinite ==
  ASSUME NEW S, IsFiniteSet(S), NEW f, \A k \in S : f[k] \in Nat
  PROVE  IsFiniteSet(Units(f, S)) /\ Total(f, S) \in Nat
<1> DEFINE part == [k \in S |-> {k} \X (1..f[k])]
           parts == {part[k] : k \in S}
<1>1. part \in Surjection(S, parts)
  BY ZenonT(60) DEF Surjection
<1>2. IsFiniteSet(parts)
  BY <1>1, FS_Surjection
<1>3. \A p \in parts : IsFiniteSet(p)
  <2> SUFFICES ASSUME NEW k \in S
               PROVE  IsFiniteSet({k} \X (1..f[k]))
    OBVIOUS
  <2>1. IsFiniteSet(1..f[k])
    BY FS_Interval
  <2>2. IsFiniteSet({k})
    BY ZenonT(60), FS_Singleton
  <2> QED
    BY ZenonT(60), <2>1, <2>2, FS_Product
<1>4. Units(f, S) = UNION parts
  BY DEF Units
<1>5. IsFiniteSet(Units(f, S))
  BY ZenonT(60), <1>2, <1>3, <1>4, FS_UNION
<1> QED
  BY <1>5, FS_CardinalityType DEF Total

LEMMA UnitsIs ==
  ASSUME NEW f, NEW S
  PROVE  \A u : u \in Units(f, S) <=> \E k \in S : \E i \in 1..f[k] : u = <<k, i>>
BY DEF Units

LEMMA SumZero ==
  ASSUME NEW f, NEW S, \A k \in S : f[k] = 0
  PROVE  Total(f, S) = 0
<1>1. Units(f, S) = {}
  BY DEF Units
<1> QED
  BY <1>1, FS_EmptySet DEF Total

\* One more in one place is one more in all.
LEMMA SumGrows ==
  ASSUME NEW S, IsFiniteSet(S), NEW f, \A k \in S : f[k] \in Nat, NEW g, NEW x \in S,
         g[x] = f[x] + 1, \A k \in S : k # x => g[k] = f[k]
  PROVE  Total(g, S) = Total(f, S) + 1
<1> DEFINE new == <<x, f[x] + 1>>
<1>1. \A u : u \in Units(g, S) <=> u \in Units(f, S) \/ u = new
  <2>1. f[x] \in Nat /\ \A i : i \in 1..(f[x] + 1) <=> i \in 1..f[x] \/ i = f[x] + 1
    OBVIOUS
  <2>2. ASSUME NEW u \in Units(g, S) PROVE u \in Units(f, S) \/ u = new
    <3>1. PICK k \in S : \E i \in 1..g[k] : u = <<k, i>>
      BY DEF Units
    <3>2. PICK i \in 1..g[k] : u = <<k, i>>
      BY <3>1
    <3>3. CASE k = x
      <4>1. i \in 1..f[x] \/ i = f[x] + 1
        BY Zenon, <2>1, <3>3
      <4> QED
        BY Zenon, <3>2, <3>3, <4>1, UnitsIs
    <3>4. CASE k # x
      BY Zenon, <3>2, <3>4, UnitsIs
    <3> QED
      BY <3>3, <3>4
  <2>3. ASSUME NEW u \in Units(f, S) PROVE u \in Units(g, S)
    <3>1. PICK k \in S : \E i \in 1..f[k] : u = <<k, i>>
      BY DEF Units
    <3>2. PICK i \in 1..f[k] : u = <<k, i>>
      BY <3>1
    <3>3. i \in 1..g[k]
      <4>1. CASE k = x
        BY <2>1, <4>1
      <4>2. CASE k # x
        BY Zenon, <4>2
      <4> QED
        BY <4>1, <4>2
    <3> QED
      BY ZenonT(60), <3>2, <3>3, UnitsIs
  <2>4. new \in Units(g, S)
    <3>1. f[x] + 1 \in 1..g[x]
      BY <2>1
    <3> QED
      BY Zenon, <3>1, UnitsIs
  <2> QED
    BY Zenon, <2>2, <2>3, <2>4
<1>2. new \notin Units(f, S)
  <2>1. f[x] \in Nat /\ f[x] + 1 \notin 1..f[x]
    OBVIOUS
  <2> SUFFICES ASSUME new \in Units(f, S)  PROVE FALSE
    OBVIOUS
  <2>2. PICK k \in S : \E i \in 1..f[k] : new = <<k, i>>
    BY DEF Units
  <2> QED
    BY <2>1, <2>2
<1>3. Units(g, S) = Units(f, S) \cup {new}
  BY <1>1
<1> HIDE DEF new
<1> QED
  BY ZenonT(60), <1>2, <1>3, UnitsFinite, FS_AddElement DEF Total

\* What was counted in the ticks 0..s is counted in 1..(s + 1) a tick later.
LEMMA SumShifts ==
  ASSUME NEW s \in Nat, NEW f, \A t \in 0..s : f[t] \in Nat,
         NEW g, g[0] = 0, \A t \in 0..s : g[t + 1] = f[t]
  PROVE  Total(g, 0..(s + 1)) = Total(f, 0..s)
<1> DEFINE F == Units(f, 0..s)
           G == Units(g, 0..(s + 1))
           move == [u \in F |-> <<u[1] + 1, u[2]>>]
<1>1. IsFiniteSet(F)
  <2>1. IsFiniteSet(0..s)
    BY FS_Interval
  <2> QED
    BY <2>1, UnitsFinite
<1>2. ASSUME NEW u \in F  PROVE u = <<u[1], u[2]>> /\ u[1] \in 0..s /\ u[2] \in 1..f[u[1]]
  <2>1. PICK k \in 0..s : \E i \in 1..f[k] : u = <<k, i>>
    BY DEF Units
  <2> QED
    BY <2>1
<1>3. ASSUME NEW u \in F  PROVE move[u] \in G
  <2>1. u[1] + 1 \in 0..(s + 1) /\ u[2] \in 1..g[u[1] + 1]
    BY <1>2
  <2> QED
    BY Zenon, <2>1, UnitsIs
<1>4. ASSUME NEW v \in G  PROVE \E u \in F : move[u] = v
  <2>1. PICK k \in 0..(s + 1) : \E i \in 1..g[k] : v = <<k, i>>
    BY DEF Units
  <2>2. PICK i \in 1..g[k] : v = <<k, i>>
    BY <2>1
  <2>3. k # 0
    BY <2>2
  <2>4. k - 1 \in 0..s /\ (k - 1) + 1 = k
    BY <2>3
  <2>5. <<k - 1, i>> \in F
    BY Zenon, <2>4, UnitsIs
  <2>6. move[<<k - 1, i>>] = v
    BY Zenon, <2>2, <2>4, <2>5
  <2> QED
    BY Zenon, <2>5, <2>6
<1>5. ASSUME NEW u \in F, NEW v \in F, move[u] = move[v]  PROVE u = v
  BY <1>2, <1>5
<1>6. move \in Bijection(F, G)
  <2> HIDE DEF F, G
  <2>1. move \in [F -> G]
    BY <1>3
  <2>2. \A v \in G : \E u \in F : move[u] = v
    BY Zenon, <1>4
  <2>3. \A u, v \in F : move[u] = move[v] => u = v
    BY Zenon, <1>5
  <2> HIDE DEF move
  <2> QED
    BY Zenon, <2>1, <2>2, <2>3 DEF Bijection, Injection, Surjection, IsInjective
<1>7. ExistsBijection(F, G)
  BY Zenon, <1>6 DEF ExistsBijection
<1> QED
  BY <1>1, <1>7, FS_Bijection DEF Total

\* The least and the whole part, as the steps below need them.
LEMMA DivBounds ==
  ASSUME NEW x \in Nat, NEW d \in Nat, d # 0
  PROVE  /\ x \div d \in Nat /\ d * (x \div d) <= x
         /\ \A y \in Nat : d * y <= x => y <= x \div d
OBVIOUS

\* If each of the members of S counts at most its part of total, they count
\* at most total.
LEMMA SharesAdd ==
  ASSUME NEW S, IsFiniteSet(S), NEW f, \A k \in S : f[k] \in Nat, NEW total \in Nat,
         \A k \in S : Cardinality(S) * f[k] <= total
  PROVE  Total(f, S) <= total
<1>1. CASE S = {}
  <2>1. Units(f, S) = {}
    BY <1>1 DEF Units
  <2>2. Total(f, S) = 0
    BY <2>1, FS_EmptySet DEF Total
  <2> QED
    BY <2>2
<1>2. CASE S # {}
  <2>1. PICK n : n = Cardinality(S)
    OBVIOUS
  <2>2. n \in Nat /\ n # 0
    BY <1>2, <2>1, FS_CardinalityType, FS_EmptySet
  <2>3. PICK b : b = total \div n
    OBVIOUS
  <2>4. b \in Nat /\ n * b <= total /\ \A y \in Nat : n * y <= total => y <= b
    BY <2>2, <2>3, DivBounds
  <2>5. ASSUME NEW k \in S  PROVE 1..f[k] \subseteq 1..b
    <3>1. f[k] \in Nat /\ n * f[k] <= total
      BY <2>1
    <3>2. f[k] <= b
      BY <2>4, <3>1
    <3> QED
      BY <2>4, <3>1, <3>2
  <2>6. Units(f, S) \subseteq S \X (1..b)
    BY <2>5 DEF Units
  <2>7. IsFiniteSet(1..b) /\ Cardinality(1..b) = b
    BY <2>4, FS_Interval
  <2>8. IsFiniteSet(S \X (1..b)) /\ Cardinality(S \X (1..b)) = n * b
    BY ZenonT(60), <2>1, <2>7, FS_Product
  <2>9. Cardinality(Units(f, S)) <= n * b
    BY <2>6, <2>8, FS_Subset
  <2>10. Cardinality(Units(f, S)) \in Nat
    BY UnitsFinite DEF Total
  <2> QED
    BY <2>2, <2>4, <2>9, <2>10 DEF Total
<1> QED
  BY <1>1, <1>2

-----------------------------------------------------------------------------
\* What a replica's bucket b can still let through at once, in parts of a token
\* per minute, when its share is p; and what it let through in the ticks 0..s, by
\* its history h, set against one full bucket and the refills of s ticks.
Stock(b, p) ==
  IF b = Rate!NoBucket THEN Minute * p
  ELSE Rate!Lesser(Minute * p, Minute * b.tokens + b.age * p)
Paid(b, p, h, s) ==
  Stock(b, p) + (Minute * Rate!Token) * Total(h, 0..s) <= Minute * p + s * p

Buckets == {Rate!NoBucket} \cup [tokens : Nat, age : Nat]
Histories == [0..(Minute - 1) -> Nat]

RateInv ==
  /\ live \subseteq Replicas /\ seen \in [Replicas -> Nat] /\ steady \in 0..Minute
  /\ bucket \in [Replicas -> Buckets] /\ allowed \in [Replicas -> Histories]
  /\ \A r \in Replicas : \A s \in 0..(steady - 1) :
       Paid(bucket[r], Rate!Share(r), allowed[r], s)

LEMMA RateConstants ==
  ASSUME Rate!RateLimitAssumption
  PROVE  /\ IsFiniteSet(Replicas) /\ Limit \in Nat \ {0} /\ Minute \in Nat \ {0}
         /\ Rate!Token \in Nat \ {0}
<1>1. /\ IsFiniteSet(Replicas) /\ Limit \in Nat \ {0} /\ Minute \in Nat \ {0}
      /\ Grain \in Nat \ {0}
  BY Zenon, SumsAgree DEF Rate!RateLimitAssumption
<1>2. Minute * Grain \in Nat \ {0}
  BY <1>1
<1> QED
  BY <1>1, <1>2 DEF Rate!Token

LEMMA ShareType ==
  ASSUME Rate!RateLimitAssumption, seen \in [Replicas -> Nat], NEW r \in Replicas
  PROVE  /\ Rate!Share(r) \in Nat
         /\ seen[r] # 0 => seen[r] * Rate!Share(r) <= Limit * Rate!Token
<1>1. PICK n : n = IF seen[r] < 1 THEN 1 ELSE seen[r]
  OBVIOUS
<1>2. seen[r] \in Nat
  OBVIOUS
<1>3. n \in Nat /\ n # 0 /\ (seen[r] # 0 => n = seen[r])
  BY <1>1, <1>2
<1>4. PICK x : x = Limit * Rate!Token
  OBVIOUS
<1>5. x \in Nat
  BY <1>4, RateConstants
<1>6. Rate!Share(r) = x \div n
  BY <1>1, <1>4 DEF Rate!Share
<1>7. x \div n \in Nat /\ n * (x \div n) <= x
  BY Zenon, <1>3, <1>5, DivBounds
<1> QED
  BY <1>3, <1>4, <1>6, <1>7

\* allow refills no more than the stock.
LEMMA RefillIsStock ==
  ASSUME Rate!RateLimitAssumption, NEW b \in Buckets, b # Rate!NoBucket, NEW p \in Nat,
         NEW w, w = Rate!Lesser(p, b.tokens + (b.age * p) \div Minute)
  PROVE  w \in Nat /\ w <= p /\ Minute * w <= Stock(b, p)
<1>1. b.tokens \in Nat /\ b.age \in Nat
  BY DEF Buckets
<1>2. PICK x : x = b.age * p
  OBVIOUS
<1>3. x \in Nat
  BY <1>1, <1>2
<1>4. PICK q : q = x \div Minute
  OBVIOUS
<1>5. q \in Nat /\ Minute * q <= x
  BY <1>3, <1>4, DivBounds, RateConstants
<1>6. PICK t : t = b.tokens
  OBVIOUS
<1>7. w = IF p <= t + q THEN p ELSE t + q
  BY ZenonT(60), <1>2, <1>4, <1>6 DEF Rate!Lesser
<1>8. Stock(b, p) = IF Minute * p <= Minute * t + x THEN Minute * p ELSE Minute * t + x
  BY <1>2, <1>6 DEF Stock, Rate!Lesser
<1>9. t \in Nat /\ w \in Nat /\ w <= p /\ w <= t + q
  BY <1>1, <1>5, <1>6, <1>7
<1>10. Minute * w <= Minute * p /\ Minute * w <= Minute * t + Minute * q
  BY <1>5, <1>9, RateConstants
<1> QED
  BY <1>3, <1>5, <1>8, <1>9, <1>10, RateConstants

\* A step of allow: the bucket b of a share p is refilled to w, and a token taken
\* from it if it holds one, which leaves the bucket c and the history g.
Allows(b, p, w, ok, c, h, g, s) ==
  /\ b \in Buckets /\ p \in Nat /\ w \in Nat /\ ok \in BOOLEAN /\ h \in Histories
  /\ s \in 0..(Minute - 1) /\ Paid(b, p, h, s)
  /\ w <= p /\ Minute * w <= Stock(b, p) /\ (ok <=> w >= Rate!Token)
  /\ c = [tokens |-> IF ok THEN w - Rate!Token ELSE w, age |-> 0]
  /\ g = IF ok THEN [h EXCEPT ![0] = @ + 1] ELSE h

LEMMA AllowPays ==
  ASSUME Rate!RateLimitAssumption, NEW b, NEW p, NEW w, NEW ok, NEW c, NEW h, NEW g, NEW s,
         Allows(b, p, w, ok, c, h, g, s)
  PROVE  c \in Buckets /\ g \in Histories /\ Paid(c, p, g, s)
<1>0. /\ b \in Buckets /\ p \in Nat /\ w \in Nat /\ ok \in BOOLEAN /\ h \in Histories
      /\ s \in 0..(Minute - 1) /\ Paid(b, p, h, s)
      /\ w <= p /\ Minute * w <= Stock(b, p) /\ (ok <=> w >= Rate!Token)
      /\ c = [tokens |-> IF ok THEN w - Rate!Token ELSE w, age |-> 0]
      /\ g = IF ok THEN [h EXCEPT ![0] = @ + 1] ELSE h
  BY Zenon DEF Allows
<1>t. /\ p \in Nat /\ w \in Nat /\ ok \in BOOLEAN /\ s \in 0..(Minute - 1)
      /\ w <= p /\ (ok <=> w >= Rate!Token)
  BY Zenon, <1>0
<1>w. Minute * w <= Stock(b, p)
  BY Zenon, <1>0
<1>1. Minute \in Nat \ {0} /\ Rate!Token \in Nat \ {0}
  BY RateConstants
<1>2. PICK v : v = IF ok THEN w - Rate!Token ELSE w
  OBVIOUS
<1>3. v \in Nat /\ v <= w /\ (ok => v = w - Rate!Token)
  BY <1>1, <1>2, <1>t
<1>4. c \in [tokens : Nat, age : Nat] /\ c.tokens = v /\ c.age = 0
  <2>1. c = [tokens |-> v, age |-> 0]
    BY Zenon, <1>0, <1>2
  <2> QED
    BY <1>3, <2>1
<1>5. c # Rate!NoBucket
  BY <1>4 DEF Rate!NoBucket
<1>6. Stock(c, p) = Minute * v
  <2>1. Stock(c, p) = IF Minute * p <= Minute * v + 0 * p THEN Minute * p ELSE Minute * v + 0 * p
    BY Zenon, <1>4, <1>5 DEF Stock, Rate!Lesser
  <2>2. Minute * v <= Minute * p
    BY <1>1, <1>3, <1>t
  <2> QED
    BY <1>1, <1>3, <1>t, <2>1, <2>2
<1>7. 0 \in 0..(Minute - 1) /\ 0 \in 0..s /\ 0..s \subseteq 0..(Minute - 1) /\ s \in Nat
  BY <1>1, <1>t
<1>8. h \in [0..(Minute - 1) -> Nat] /\ g \in [0..(Minute - 1) -> Nat]
  <2>1. h \in [0..(Minute - 1) -> Nat]
    BY Zenon, <1>0 DEF Histories
  <2>2. CASE ok
    BY <1>0, <1>7, <2>1, <2>2
  <2>3. CASE ~ok
    BY Zenon, <1>0, <2>1, <2>3
  <2> QED
    BY Zenon, <2>1, <2>2, <2>3
<1>9. IsFiniteSet(0..s)
  BY <1>7, FS_Interval
<1>10. \A t \in 0..s : h[t] \in Nat
  BY <1>7, <1>8
<1>11. PICK m : m = Total(h, 0..s)
  OBVIOUS
<1>12. m \in Nat
  BY ZenonT(60), <1>9, <1>10, <1>11, UnitsFinite
<1>13. Total(g, 0..s) = IF ok THEN m + 1 ELSE m
  <2>1. CASE ok
    <3>1. g[0] = h[0] + 1 /\ \A t \in 0..s : t # 0 => g[t] = h[t]
      <4>1. g = [h EXCEPT ![0] = @ + 1]
        BY Zenon, <1>0, <2>1
      <4> QED
        BY <1>7, <1>8, <4>1
    <3>2. Total(g, 0..s) = Total(h, 0..s) + 1
      BY ZenonT(60), <1>7, <1>9, <1>10, <3>1, SumGrows
    <3> QED
      BY ZenonT(60), <1>11, <2>1, <3>2
  <2>2. CASE ~ok
    BY Zenon, <1>0, <1>11, <2>2
  <2> QED
    BY Zenon, <1>t, <2>1, <2>2
<1>14. PICK k : k = Minute * Rate!Token
  OBVIOUS
<1>15. k \in Nat /\ (ok => Minute * v = Minute * w - k) /\ (~ok => Minute * v = Minute * w)
  BY <1>1, <1>2, <1>3, <1>14, <1>t
<1>16. k * (m + 1) = k * m + k
  BY <1>12, <1>15
<1>17. PICK z : z = Minute * p + s * p
  OBVIOUS
<1>18. Stock(b, p) + k * m <= z
  BY ZenonT(60), <1>0, <1>11, <1>14, <1>17 DEF Paid
<1>19. Stock(b, p) \in Int /\ z \in Int /\ k * m \in Int /\ Minute * w \in Int
  <2>1. Stock(b, p) \in Int
    <3>1. b # Rate!NoBucket => b.tokens \in Nat /\ b.age \in Nat
      BY <1>0 DEF Buckets
    <3> QED
      BY <1>1, <1>t, <3>1 DEF Stock, Rate!Lesser
  <2> QED
    BY <1>1, <1>7, <1>12, <1>15, <1>17, <1>t, <2>1
<1>20. Minute * v + k * (IF ok THEN m + 1 ELSE m) <= z
  <2>1. CASE ok
    BY <1>15, <1>16, <1>18, <1>19, <1>w, <2>1
  <2>2. CASE ~ok
    BY <1>15, <1>18, <1>19, <1>w, <2>2
  <2> QED
    BY Zenon, <1>t, <2>1, <2>2
<1>21. Paid(c, p, g, s)
  BY ZenonT(60), <1>6, <1>13, <1>14, <1>17, <1>20 DEF Paid
<1> QED
  BY <1>4, <1>8, <1>21 DEF Buckets, Histories

\* A tick refills a bucket by a tick's share, and no bucket beyond the whole one.
LEMMA TickRefills ==
  ASSUME Rate!RateLimitAssumption, NEW b \in Buckets, NEW p \in Nat,
         NEW c, c = IF b = Rate!NoBucket THEN Rate!NoBucket
                    ELSE [b EXCEPT !.age = Rate!Lesser(@ + 1, Minute)]
  PROVE  /\ c \in Buckets /\ Stock(c, p) \in Int /\ Stock(b, p) \in Int
         /\ Stock(c, p) <= Minute * p /\ Stock(c, p) <= Stock(b, p) + p
<1>1. Minute \in Nat \ {0}
  BY RateConstants
<1>2. CASE b = Rate!NoBucket
  BY <1>1, <1>2 DEF Stock
<1>3. CASE b # Rate!NoBucket
  <2>1. b \in [tokens : Nat, age : Nat]
    BY <1>3 DEF Buckets
  <2>2. PICK t, a : t = b.tokens /\ a = b.age
    OBVIOUS
  <2>3. t \in Nat /\ a \in Nat
    BY <2>1, <2>2
  <2>4. PICK a1 : a1 = IF a + 1 <= Minute THEN a + 1 ELSE Minute
    OBVIOUS
  <2>5. a1 \in Nat /\ a1 <= a + 1
    BY <1>1, <2>3, <2>4
  <2>6. c = [b EXCEPT !.age = a1]
    BY <1>3, <2>2, <2>4 DEF Rate!Lesser
  <2>7. c \in [tokens : Nat, age : Nat] /\ c.tokens = t /\ c.age = a1
    BY <2>1, <2>2, <2>5, <2>6
  <2>8. c # Rate!NoBucket
    BY <2>5, <2>7 DEF Rate!NoBucket
  <2>9. PICK full, have, more : full = Minute * p /\ have = Minute * t + a * p
                               /\ more = Minute * t + a1 * p
    OBVIOUS
  <2>10. full \in Nat /\ have \in Nat /\ more \in Nat
    BY <1>1, <2>3, <2>5, <2>9
  <2>11. more <= have + p
    <3>1. a1 * p <= (a + 1) * p
      BY <2>3, <2>5
    <3>2. (a + 1) * p = a * p + p
      BY <2>3
    <3>3. a1 * p \in Nat /\ a * p \in Nat /\ Minute * t \in Nat
      BY <1>1, <2>3, <2>5
    <3> QED
      BY <2>9, <3>1, <3>2, <3>3
  <2>12. Stock(b, p) = IF full <= have THEN full ELSE have
    BY <1>3, <2>2, <2>9 DEF Stock, Rate!Lesser
  <2>13. Stock(c, p) = IF full <= more THEN full ELSE more
    BY <2>7, <2>8, <2>9 DEF Stock, Rate!Lesser
  <2>14. /\ Stock(c, p) \in Int /\ Stock(b, p) \in Int
         /\ Stock(c, p) <= full /\ Stock(c, p) <= Stock(b, p) + p
    BY <2>10, <2>11, <2>12, <2>13
  <2> QED
    BY <2>7, <2>9, <2>14 DEF Buckets
<1> QED
  BY <1>2, <1>3

LEMMA TickPays ==
  ASSUME Rate!RateLimitAssumption, NEW b \in Buckets, NEW p \in Nat,
         NEW c, c = IF b = Rate!NoBucket THEN Rate!NoBucket
                    ELSE [b EXCEPT !.age = Rate!Lesser(@ + 1, Minute)],
         NEW h \in Histories,
         NEW g, g = [t \in 0..(Minute - 1) |-> IF t = 0 THEN 0 ELSE h[t - 1]],
         NEW s \in 0..(Minute - 1), s # 0 => Paid(b, p, h, s - 1)
  PROVE  Paid(c, p, g, s)
<1>1. Minute \in Nat \ {0} /\ Rate!Token \in Nat \ {0} /\ s \in Nat /\ s <= Minute - 1
  BY RateConstants
<1>2. h \in [0..(Minute - 1) -> Nat]
  BY DEF Histories
<1>3. PICK x, y, k, z : /\ x = Stock(b, p) /\ y = Stock(c, p)
                        /\ k = Minute * Rate!Token /\ z = Minute * p
  OBVIOUS
<1>4. x \in Int /\ y \in Int /\ y <= z /\ y <= x + p
  BY <1>3, TickRefills
<1>5. k \in Nat /\ z \in Nat
  BY <1>1, <1>3
<1>6. CASE s = 0
  <2>1. \A t \in 0..s : g[t] = 0
    BY <1>1, <1>6
  <2>2. Total(g, 0..s) = 0
    BY Zenon, <2>1, SumZero
  <2>3. k * 0 = 0 /\ s * p = 0
    BY <1>5, <1>6
  <2> QED
    BY <1>3, <1>4, <1>5, <2>2, <2>3 DEF Paid
<1>7. CASE s # 0
  <2>1. PICK q : q = s - 1
    OBVIOUS
  <2>2. q \in Nat /\ s = q + 1 /\ q + 1 <= Minute - 1
    BY <1>1, <1>7, <2>1
  <2>3. ASSUME NEW t \in 0..q  PROVE h[t] \in Nat /\ g[t + 1] = h[t]
    <3>1. t \in 0..(Minute - 1) /\ t + 1 \in 0..(Minute - 1) /\ t + 1 # 0 /\ (t + 1) - 1 = t
      BY <1>1, <2>2
    <3> QED
      BY <1>2, <3>1
  <2>4. g[0] = 0
    BY <1>1
  <2>5. Total(g, 0..(q + 1)) = Total(h, 0..q)
    BY ZenonT(60), <2>2, <2>3, <2>4, SumShifts
  <2>6. PICK m : m = Total(h, 0..q)
    OBVIOUS
  <2>7. m \in Nat
    <3>1. IsFiniteSet(0..q)
      BY <2>2, FS_Interval
    <3> QED
      BY ZenonT(60), <2>3, <2>6, <3>1, UnitsFinite
  <2>8. x + k * m <= z + q * p
    BY <1>3, <1>7, <2>1, <2>6 DEF Paid
  <2>9. k * m \in Nat /\ q * p \in Nat /\ (q + 1) * p = q * p + p
    BY <1>5, <2>2, <2>7
  <2>10. y + k * m <= z + (q + 1) * p
    BY <1>4, <1>5, <2>8, <2>9
  <2> QED
    BY <1>3, <2>2, <2>5, <2>6, <2>10 DEF Paid
<1> QED
  BY <1>6, <1>7

-----------------------------------------------------------------------------
LEMMA RateInit ==
  ASSUME Rate!RateLimitAssumption, Rate!Init
  PROVE  RateInv
<1>1. Minute \in Nat \ {0} /\ Rate!Token \in Nat \ {0} /\ IsFiniteSet(Replicas)
  BY RateConstants
<1>2. Rate!Cardinality(Replicas) \in Nat
  BY <1>1, SumsAgree, FS_CardinalityType
<1>3. seen \in [Replicas -> Nat]
  BY <1>2 DEF Rate!Init
<1>4. live \subseteq Replicas /\ steady \in 0..Minute
  BY <1>1 DEF Rate!Init
<1>5. bucket \in [Replicas -> Buckets] /\ allowed \in [Replicas -> Histories]
  BY DEF Rate!Init, Buckets, Histories
<1>6. ASSUME NEW r \in Replicas, NEW s \in 0..(steady - 1)
      PROVE  Paid(bucket[r], Rate!Share(r), allowed[r], s)
  <2>1. s \in Nat /\ s <= Minute - 1
    BY <1>1, <1>4
  <2>2. \A t \in 0..s : allowed[r][t] = 0
    BY <1>1, <2>1 DEF Rate!Init
  <2>3. Total(allowed[r], 0..s) = 0
    BY <2>2, SumZero
  <2>4. PICK p : p = Rate!Share(r)
    OBVIOUS
  <2>5. p \in Nat
    BY ZenonT(60), <1>3, <2>4, ShareType
  <2>6. Stock(bucket[r], p) = Minute * p
    BY DEF Rate!Init, Stock
  <2>7. (Minute * Rate!Token) * 0 = 0 /\ s * p \in Nat /\ Minute * p \in Nat
    BY <1>1, <2>1, <2>5
  <2> QED
    BY <2>3, <2>4, <2>6, <2>7 DEF Paid
<1> QED
  BY Zenon, <1>3, <1>4, <1>5, <1>6 DEF RateInv

LEMMA RateAllow ==
  ASSUME Rate!RateLimitAssumption, RateInv, NEW r \in Replicas, Rate!Allow(r)
  PROVE  RateInv'
<1>1. /\ live \subseteq Replicas /\ seen \in [Replicas -> Nat] /\ steady \in 0..Minute
      /\ bucket \in [Replicas -> Buckets] /\ allowed \in [Replicas -> Histories]
  BY DEF RateInv
<1>2. Minute \in Nat \ {0} /\ Rate!Token \in Nat \ {0}
  BY RateConstants
<1>3. PICK p, w : p = Rate!Share(r) /\ w = Rate!Refilled(r)
  OBVIOUS
<1>4. p \in Nat
  BY <1>1, <1>3, ShareType
<1>5. w \in Nat /\ w <= p /\ Minute * w <= Stock(bucket[r], p)
  <2>1. CASE bucket[r] = Rate!NoBucket
    BY <1>2, <1>3, <1>4, <2>1 DEF Rate!Refilled, Stock
  <2>2. CASE bucket[r] # Rate!NoBucket
    <3>1. w = Rate!Lesser(p, bucket[r].tokens + (bucket[r].age * p) \div Minute)
      BY ZenonT(60), <1>3, <2>2 DEF Rate!Refilled
    <3>2. bucket[r] \in Buckets
      BY <1>1
    <3> QED
      BY ZenonT(60), <1>4, <2>2, <3>1, <3>2, RefillIsStock
  <2> QED
    BY <2>1, <2>2
<1>6. PICK ok \in BOOLEAN : ok <=> w >= Rate!Token
  BY Zenon
<1>7. PICK c : c = [tokens |-> IF ok THEN w - Rate!Token ELSE w, age |-> 0]
  BY Zenon
<1>8. PICK h, g : h = allowed[r] /\ g = IF ok THEN [h EXCEPT ![0] = @ + 1] ELSE h
  BY ZenonT(60)
<1>9. /\ bucket' = [bucket EXCEPT ![r] = c]
      /\ allowed' = IF ok THEN [allowed EXCEPT ![r][0] = @ + 1] ELSE allowed
      /\ live' = live /\ seen' = seen /\ steady' = steady
  BY Zenon, <1>3, <1>6, <1>7 DEF Rate!Allow
<1>10. h \in Histories
  BY <1>1, <1>8
<1>11. allowed' = [allowed EXCEPT ![r] = g]
  <2>1. CASE ok
    BY <1>1, <1>8, <1>9, <2>1
  <2>2. CASE ~ok
    BY <1>1, <1>8, <1>9, <2>2
  <2> QED
    BY <2>1, <2>2
<1>12. c \in Buckets /\ g \in Histories
  <2>1. PICK v : v = IF ok THEN w - Rate!Token ELSE w
    OBVIOUS
  <2>2. v \in Nat
    BY <1>2, <1>5, <1>6, <2>1
  <2>3. 0 \in 0..(Minute - 1)
    BY <1>2
  <2>4. c \in Buckets
    BY Zenon, <1>7, <2>1, <2>2 DEF Buckets
  <2>5. g \in [0..(Minute - 1) -> Nat]
    <3>1. h \in [0..(Minute - 1) -> Nat]
      BY <1>10 DEF Histories
    <3>2. PICK k : k = h[0] + 1
      OBVIOUS
    <3>3. k \in Nat /\ [h EXCEPT ![0] = k] \in [0..(Minute - 1) -> Nat]
      BY <2>3, <3>1, <3>2
    <3>4. g = IF ok THEN [h EXCEPT ![0] = k] ELSE h
      BY Zenon, <1>8, <3>2
    <3> QED
      BY Zenon, <3>1, <3>3, <3>4
  <2> QED
    BY Zenon, <2>4, <2>5 DEF Histories
<1>13. bucket' \in [Replicas -> Buckets] /\ allowed' \in [Replicas -> Histories]
  BY <1>1, <1>9, <1>11, <1>12
<1>14. \A q \in Replicas : Rate!Share(q)' = Rate!Share(q)
  BY Zenon, <1>9 DEF Rate!Share
<1>15. ASSUME NEW q \in Replicas, NEW s \in 0..(steady - 1)
       PROVE  Paid(bucket'[q], Rate!Share(q), allowed'[q], s)
  <2>1. Paid(bucket[q], Rate!Share(q), allowed[q], s)
    BY Zenon DEF RateInv
  <2>2. CASE q = r
    <3>1. Paid(bucket[r], p, h, s)
      BY Zenon, <1>3, <1>8, <2>1, <2>2
    <3>2. s \in 0..(Minute - 1)
      BY <1>1, <1>2
    <3>3. bucket[r] \in Buckets
      BY <1>1
    <3>4. Paid(c, p, g, s)
      <4>1. PICK b : b = bucket[r]
        OBVIOUS
      <4>2. b \in Buckets /\ Minute * w <= Stock(b, p) /\ Paid(b, p, h, s)
        BY Zenon, <1>5, <3>1, <3>3, <4>1
      <4>3. Allows(b, p, w, ok, c, h, g, s)
        BY Zenon, <1>4, <1>5, <1>6, <1>7, <1>8, <1>10, <3>2, <4>2 DEF Allows
      <4> QED
        BY Zenon, <4>3, AllowPays
    <3>5. bucket'[q] = c /\ allowed'[q] = g
      BY <1>1, <1>9, <1>11, <2>2
    <3> QED
      BY Zenon, <1>3, <2>2, <3>4, <3>5
  <2>3. CASE q # r
    <3>1. bucket'[q] = bucket[q] /\ allowed'[q] = allowed[q]
      BY <1>1, <1>9, <1>11, <2>3
    <3> QED
      BY Zenon, <2>1, <3>1
  <2> QED
    BY Zenon, <2>2, <2>3
<1> QED
  BY Zenon, <1>1, <1>9, <1>13, <1>14, <1>15 DEF RateInv, Paid, Stock, Rate!Share

LEMMA RateTick ==
  ASSUME Rate!RateLimitAssumption, RateInv, Rate!Tick
  PROVE  RateInv'
<1>1. /\ live \subseteq Replicas /\ seen \in [Replicas -> Nat] /\ steady \in 0..Minute
      /\ bucket \in [Replicas -> Buckets] /\ allowed \in [Replicas -> Histories]
  BY DEF RateInv
<1>2. Minute \in Nat \ {0}
  BY RateConstants
<1>3. live' = live /\ seen' = seen /\ steady' = IF steady + 1 <= Minute THEN steady + 1 ELSE Minute
  BY DEF Rate!Tick, Rate!Lesser
<1>4. steady' \in 0..Minute /\ steady' <= steady + 1
  BY <1>1, <1>2, <1>3
<1>5. ASSUME NEW q \in Replicas
      PROVE  /\ bucket'[q] = IF bucket[q] = Rate!NoBucket THEN Rate!NoBucket
                             ELSE [bucket[q] EXCEPT !.age = Rate!Lesser(@ + 1, Minute)]
             /\ allowed'[q] = [t \in 0..(Minute - 1) |-> IF t = 0 THEN 0 ELSE allowed[q][t - 1]]
  BY Zenon DEF Rate!Tick
<1>6. DOMAIN bucket' = Replicas /\ DOMAIN allowed' = Replicas
  BY DEF Rate!Tick
<1>7. ASSUME NEW q \in Replicas  PROVE bucket'[q] \in Buckets /\ allowed'[q] \in Histories
  <2>1. bucket[q] \in Buckets /\ allowed[q] \in [0..(Minute - 1) -> Nat]
    BY <1>1 DEF Histories
  <2>2. bucket'[q] \in Buckets
    BY ZenonT(60), <1>5, <2>1, TickRefills, 0 \in Nat
  <2>3. ASSUME NEW t \in 0..(Minute - 1), t # 0  PROVE allowed[q][t - 1] \in Nat
    BY <1>2, <2>1, <2>3
  <2>4. [t \in 0..(Minute - 1) |-> IF t = 0 THEN 0 ELSE allowed[q][t - 1]] \in Histories
    BY <2>3 DEF Histories
  <2> QED
    BY Zenon, <1>5, <2>2, <2>4
<1>8. bucket' \in [Replicas -> Buckets] /\ allowed' \in [Replicas -> Histories]
  <2>1. bucket' = [q \in Replicas |-> bucket'[q]] /\ allowed' = [q \in Replicas |-> allowed'[q]]
    BY DEF Rate!Tick
  <2> QED
    BY Zenon, <1>7, <2>1
<1>9. \A q \in Replicas : Rate!Share(q)' = Rate!Share(q)
  BY ZenonT(60), <1>3 DEF Rate!Share
<1>10. ASSUME NEW q \in Replicas, NEW s \in 0..(steady' - 1)
       PROVE  Paid(bucket'[q], Rate!Share(q), allowed'[q], s)
  <2>1. s \in 0..(Minute - 1) /\ (s # 0 => s - 1 \in 0..(steady - 1))
    <3>1. PICK n, m : n = steady /\ m = steady'
      OBVIOUS
    <3>2. n \in 0..Minute /\ m \in 0..Minute /\ m <= n + 1 /\ s \in 0..(m - 1)
      BY Zenon, <1>1, <1>4, <3>1
    <3>3. s \in 0..(Minute - 1) /\ (s # 0 => s - 1 \in 0..(n - 1))
      BY <1>2, <3>2
    <3> QED
      BY Zenon, <3>1, <3>3
  <2>2. s # 0 => Paid(bucket[q], Rate!Share(q), allowed[q], s - 1)
    BY Zenon, <2>1 DEF RateInv
  <2>3. bucket[q] \in Buckets /\ allowed[q] \in Histories
    BY ZenonT(60), <1>1
  <2>4. Rate!Share(q) \in Nat
    BY <1>1, ShareType
  <2> QED
    BY Zenon, <1>5, <2>1, <2>2, <2>3, <2>4, TickPays
<1> QED
  BY Zenon, <1>1, <1>3, <1>4, <1>8, <1>9, <1>10 DEF RateInv, Paid, Stock, Rate!Share

\* While the number of replicas changes, no tick counts as settled.
LEMMA RateChange ==
  ASSUME Rate!RateLimitAssumption, RateInv, NEW r \in Replicas, Rate!Scale(r) \/ Rate!Observe(r)
  PROVE  RateInv'
<1>1. /\ live \subseteq Replicas /\ seen \in [Replicas -> Nat] /\ steady \in 0..Minute
      /\ bucket \in [Replicas -> Buckets] /\ allowed \in [Replicas -> Histories]
  BY DEF RateInv
<1>2. Minute \in Nat \ {0} /\ IsFiniteSet(Replicas)
  BY Zenon, RateConstants
<1>3. live' \subseteq Replicas
  BY <1>1 DEF Rate!Scale, Rate!Observe
<1>4. Rate!Cardinality(live) \in Nat /\ Rate!Cardinality(live') \in Nat
  <2>1. IsFiniteSet(live) /\ IsFiniteSet(live')
    BY ZenonT(60), <1>1, <1>2, <1>3, FS_Subset
  <2> QED
    BY ZenonT(60), <2>1, SumsAgree, FS_CardinalityType
<1>5. seen' \in [Replicas -> Nat]
  BY <1>1, <1>4 DEF Rate!Scale, Rate!Observe
<1>6. steady' = 0
  BY DEF Rate!Scale, Rate!Observe
<1>7. bucket' \in [Replicas -> Buckets] /\ allowed' \in [Replicas -> Histories]
  <2>1. Rate!NoBucket \in Buckets /\ [t \in 0..(Minute - 1) |-> 0] \in Histories
    BY DEF Buckets, Histories
  <2> QED
    BY ZenonT(60), <1>1, <2>1 DEF Rate!Scale, Rate!Observe
<1>8. 0 \in 0..Minute /\ 0..(0 - 1) = {}
  BY <1>2
<1>9. steady' \in 0..Minute /\ \A s \in 0..(steady' - 1) : FALSE
  BY <1>6, <1>8
<1> QED
  BY Zenon, <1>3, <1>5, <1>7, <1>9 DEF RateInv

THEOREM RateInductive ==
  ASSUME Rate!RateLimitAssumption
  PROVE  Rate!Spec => []RateInv
<1>1. Rate!Init => RateInv
  BY RateInit
<1>2. RateInv /\ [Rate!Next]_(Rate!vars) => RateInv'
  <2> SUFFICES ASSUME RateInv, [Rate!Next]_(Rate!vars)  PROVE RateInv'
    OBVIOUS
  <2>1. CASE Rate!Tick
    BY <2>1, RateTick
  <2>2. ASSUME NEW r \in Replicas, Rate!Allow(r)  PROVE RateInv'
    BY <2>2, RateAllow
  <2>3. ASSUME NEW r \in Replicas, Rate!Scale(r) \/ Rate!Observe(r)  PROVE RateInv'
    BY <2>3, RateChange
  <2>4. CASE UNCHANGED Rate!vars
    BY Zenon, <2>4 DEF Rate!vars, RateInv, Paid, Stock, Rate!Share
  <2> QED
    BY Zenon, <2>1, <2>2, <2>3, <2>4 DEF Rate!Next
<1> QED
  BY <1>1, <1>2, PTL DEF Rate!Spec

\* In a settled minute a replica lets through at most twice its part of the limit.
LEMMA ReplicaBound ==
  ASSUME Rate!RateLimitAssumption, RateInv, Rate!Settled, NEW r \in live
  PROVE  LET w == Total(allowed[r], 0..(Minute - 1))
         IN  w \in Nat /\ Cardinality(live) * w <= 2 * Limit
<1>1. /\ live \subseteq Replicas /\ seen \in [Replicas -> Nat]
      /\ bucket \in [Replicas -> Buckets] /\ allowed \in [Replicas -> Histories]
  BY DEF RateInv
<1>2. Limit \in Nat /\ Minute \in Nat \ {0} /\ Rate!Token \in Nat \ {0} /\ IsFiniteSet(Replicas)
  BY Zenon, RateConstants
<1>3. PICK p, s, n, w, x : /\ p = Rate!Share(r) /\ s = Minute - 1 /\ n = Cardinality(live)
                           /\ w = Total(allowed[r], 0..s) /\ x = Stock(bucket[r], p)
  BY Zenon
<1>4. s \in Nat /\ s + 1 = Minute
  BY <1>2, <1>3
<1>5. n \in Nat /\ n # 0 /\ seen[r] = n
  <2>1. IsFiniteSet(live)
    BY ZenonT(60), <1>1, <1>2, FS_Subset
  <2>2. n \in Nat /\ n # 0
    BY ZenonT(60), <1>3, <2>1, FS_CardinalityType, FS_EmptySet
  <2>3. seen[r] = Rate!Cardinality(live)
    BY Zenon DEF Rate!Settled
  <2> QED
    BY ZenonT(60), <1>3, <2>2, <2>3, SumsAgree
<1>6. p \in Nat /\ n * p <= Limit * Rate!Token
  BY ZenonT(60), <1>1, <1>3, <1>5, ShareType
<1>7. w \in Nat
  <2>1. IsFiniteSet(0..s)
    BY <1>4, FS_Interval
  <2>2. \A t \in 0..s : allowed[r][t] \in Nat
    BY ZenonT(60), <1>1, <1>3 DEF Histories
  <2> QED
    BY ZenonT(60), <1>3, <2>1, <2>2, UnitsFinite
<1>8. x \in Nat
  <2>1. bucket[r] # Rate!NoBucket => bucket[r].tokens \in Nat /\ bucket[r].age \in Nat
    BY <1>1 DEF Buckets
  <2>2. PICK b : b = bucket[r]
    OBVIOUS
  <2>3. Minute * p \in Nat
    BY <1>2, <1>6
  <2>4. b # Rate!NoBucket => Minute * b.tokens + b.age * p \in Nat
    BY <1>2, <1>6, <2>1, <2>2
  <2> QED
    BY ZenonT(60), <1>3, <2>2, <2>3, <2>4 DEF Stock, Rate!Lesser
<1>9. x + (Minute * Rate!Token) * w <= Minute * p + s * p
  <2>1. s \in 0..(steady - 1)
    BY <1>3, <1>4 DEF Rate!Settled
  <2> QED
    BY ZenonT(60), <1>1, <1>3, <2>1 DEF RateInv, Paid
<1>10. Rate!Token * w <= 2 * p
  <2>1. PICK d, k : d = Rate!Token * w /\ k = Minute
    OBVIOUS
  <2>2. (Minute * Rate!Token) * w = k * d /\ d \in Nat
    BY <1>2, <1>7, <2>1
  <2>3. k * d <= k * p + s * p /\ s * p <= k * p
    BY <1>2, <1>4, <1>6, <1>8, <1>9, <2>1, <2>2
  <2>4. k * d <= k * (2 * p)
    BY <1>2, <1>4, <1>6, <2>1, <2>2, <2>3
  <2> QED
    BY <1>2, <1>6, <2>1, <2>2, <2>4
<1>11. n * w <= 2 * Limit
  <2>1. PICK k : k = Rate!Token
    OBVIOUS
  <2>2. n * (k * w) <= n * (2 * p)
    BY <1>2, <1>5, <1>6, <1>7, <1>10, <2>1
  <2>3. k * (n * w) <= k * (2 * Limit)
    BY <1>2, <1>5, <1>6, <1>7, <2>1, <2>2
  <2> QED
    BY <1>2, <1>5, <1>7, <2>1, <2>3
<1> QED
  BY ZenonT(60), <1>3, <1>7, <1>11

\* RateLimiter.allow: however many replicas share a limit, in a minute in which
\* their number has not changed and all have seen it, they let through at most
\* twice the limit together.
THEOREM WithinTwiceTheLimit ==
  ASSUME Rate!RateLimitAssumption
  PROVE  Rate!Spec => []MinuteBound
<1>1. RateInv => MinuteBound
  <2> SUFFICES ASSUME RateInv, Rate!Settled
               PROVE  Total([r \in live |-> Rate!LastMinute(r)], live) <= 2 * Limit
    BY Zenon, SumsAgree DEF MinuteBound, Rate!MinuteBound
  <2>1. PICK f : f = [r \in live |-> Rate!LastMinute(r)]
    BY Zenon
  <2>2. ASSUME NEW r \in live  PROVE f[r] \in Nat /\ Cardinality(live) * f[r] <= 2 * Limit
    <3>1. f[r] = Total(allowed[r], 0..(Minute - 1))
      BY Zenon, <2>1, SumsAgree DEF Rate!LastMinute
    <3> QED
      BY <3>1, ReplicaBound
  <2>3. IsFiniteSet(live) /\ 2 * Limit \in Nat
    <3>1. live \subseteq Replicas
      BY DEF RateInv
    <3> QED
      BY <3>1, RateConstants, FS_Subset
  <2> QED
    BY <2>1, <2>2, <2>3, SharesAdd
<1> QED
  BY <1>1, RateInductive, PTL
=============================================================================
