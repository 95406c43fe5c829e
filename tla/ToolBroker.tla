----------------------------- MODULE ToolBroker -----------------------------
(***************************************************************************)
(* The MCP broker, POST /v1/mcp/{toolProvider}: handleMCPBroker for calls  *)
(* in flight together, while the ToolProvider, the caller's grant and its  *)
(* AgentClass are edited.  A call is authorised before its body is read    *)
(* and keeps the tool filter it got then; a tool server may open a session *)
(* in any answer, and the caller sees its id bound to itself.              *)
(* The rate limiter and the tool server answer as they please.             *)
(***************************************************************************)
EXTENDS Integers, Sequences, FiniteSets

CONSTANTS
  Calls,      \* bound: brokered calls
  Agents,     \* callers with a workload identity; the others are bearer tokens
  Callers,    \* all callers
  Tools,      \* tool names the tool server offers, and callers ask for
  Policies    \* bound: the configurations an operator moves between

VARIABLES
  policy,     \* ToolProvider, grants and AgentClass as the Store serves them
  edits,      \* edits of the policy so far
  call,       \* the calls
  opened,     \* sessions the tool server opened: the caller each was given to
  reached     \* ghost: calls that reached the tool server

toolVars == <<policy, edits, call, opened, reached>>

MaxEdits == 1      \* bound
MaxSessions == 2   \* bound: sessions the tool server opens
None == "none"

\* The bodies a caller may send, and the era its headers announce.
Methods == {"tools/list", "tools/call", "initialize", "resources/read"}
Bodies ==
  [kind : {"message"}, method : Methods \ {"tools/call"}, tool : {None}]
    \cup [kind : {"message"}, method : {"tools/call"}, tool : Tools]
    \cup [kind : {"oversized", "batch", "garbled"}, method : {None}, tool : {None}]

\* What the constants must be.
ToolBrokerAssumption ==
  Policies \subseteq [exists : BOOLEAN, namespaces : SUBSET Callers, granted : BOOLEAN,
                      grant : SUBSET Tools, class : BOOLEAN, catalog : SUBSET Tools]

\* A new call: nothing is known of it but who makes it.
NewCall(w) ==
  [pc |-> "arrived", who |-> w, body |-> None, session |-> 0, permits |-> {},
   since |-> 0, answer |-> None, shows |-> {}]

-----------------------------------------------------------------------------
(* Authorisation. *)

\* newToolFilter: either side constrains only when it is not empty.
NewToolFilter(grantTools, catalog) ==
  (IF grantTools = {} THEN Tools ELSE grantTools)
    \cap (IF catalog = {} THEN Tools ELSE catalog)

\* mcpAllowedMethod.
AllowedMethod(m) == m \in {"tools/list", "tools/call", "initialize"}

\* authorizeToolRoute: the namespace gate for all; for a workload, that it
\* exists and has a grant for this provider, and that its class exists and
\* allows it.
AuthorizeToolRoute(w) ==
  CASE w \notin policy.namespaces -> "access_denied"
    [] w \in policy.namespaces /\ w \notin Agents -> "ok"
    [] w \in policy.namespaces /\ w \in Agents ->
         IF policy.granted /\ policy.class THEN "ok" ELSE "access_denied"

FilterFor(w) ==
  NewToolFilter(IF w \in Agents THEN policy.grant ELSE {}, policy.catalog)

\* mcpResult, the funnel of every outcome.
Result(c, answer) == call' = [call EXCEPT ![c].pc = "done", ![c].answer = answer]

Deny(c, errType) == Result(c, errType) /\ UNCHANGED <<opened, reached>>

-----------------------------------------------------------------------------
(* The handler, in the three steps between which others may run. *)

\* Up to the read of the body: method and path, the provider, the route, the
\* rate limit.  The filter is the one of the policy of this moment.
Authorize(c) ==
  /\ call[c].pc = "arrived"
  /\ \/ Deny(c, "invalid_request")
     \/ ~policy.exists /\ Deny(c, "invalid_request")
     \/ /\ policy.exists
        /\ AuthorizeToolRoute(call[c].who) # "ok"
        /\ Deny(c, AuthorizeToolRoute(call[c].who))
     \/ /\ policy.exists
        /\ AuthorizeToolRoute(call[c].who) = "ok"
        /\ \/ Deny(c, "rate_limited")
           \/ /\ call' = [call EXCEPT ![c].pc = "reading",
                            ![c].permits = FilterFor(call[c].who),
                            ![c].since = edits]
              /\ UNCHANGED <<opened, reached>>
  /\ UNCHANGED <<policy, edits>>

\* Wrapped session ids a caller may hold: sessions opened, each under the
\* identity it was wrapped for.
NoSession == [raw |-> 0, mac |-> None]
Wrapped == {[raw |-> s, mac |-> opened[s]] : s \in DOMAIN opened}

\* Mutant: the wrapped id is taken apart without comparing the MAC.
UnwrapAny(w, s) == TRUE

\* unwrapSessionID: the MAC must be the one of this caller's identity.
Unwrap(w, s) == s.mac = w

\* From the body to the upstream request.  mirrored says whether the headers a
\* modern request must carry agree with the body; a modern request's session
\* header is ignored.
Receive(c, body, modern, mirrored, session) ==
  /\ call[c].pc = "reading"
  /\ LET w == call[c].who
     IN \/ body.kind # "message" /\ Deny(c, "invalid_request")
        \/ /\ body.kind = "message"
           /\ ~AllowedMethod(body.method)
           /\ Deny(c, "method_denied")
        \/ /\ body.kind = "message" /\ AllowedMethod(body.method)
           /\ modern /\ ~mirrored
           /\ Deny(c, "header_mismatch")
        \/ /\ body.kind = "message" /\ AllowedMethod(body.method)
           /\ ~modern \/ mirrored
           /\ body.method = "tools/call" /\ body.tool \notin call[c].permits
           /\ call' = [call EXCEPT ![c].pc = "done", ![c].body = body,
                                   ![c].answer = "tool_denied"]
           /\ UNCHANGED <<opened, reached>>
        \/ /\ body.kind = "message" /\ AllowedMethod(body.method)
           /\ ~modern \/ mirrored
           /\ body.method = "tools/call" => body.tool \in call[c].permits
           /\ IF ~modern /\ session # NoSession /\ ~Unwrap(w, session)
              THEN Deny(c, "access_denied")
              ELSE \/ Deny(c, "tool_unavailable")   \* no credential
                   \/ Deny(c, "invalid_request")    \* an endpoint that is no URL
                   \/ /\ call' = [call EXCEPT ![c].pc = "forwarded",
                           ![c].body = body,
                           ![c].session = IF modern THEN 0 ELSE session.raw]
                      /\ reached' = reached \cup {c}
                      /\ UNCHANGED opened
  /\ UNCHANGED <<policy, edits>>

\* Mutant: a listing in the event-stream encoding is relayed as it comes.
RespondUnfiltered(c) ==
  /\ call[c].pc = "forwarded"
  /\ \E offered \in SUBSET Tools :
       call' = [call EXCEPT ![c].pc = "done", ![c].answer = "ok",
         ![c].shows = IF call[c].body.method = "tools/list" THEN offered ELSE {}]
  /\ UNCHANGED <<policy, edits, opened, reached>>

\* The tool server's answer.  A timeout, an unreachable server, a rejected
\* credential or a server error ends the call; any other answer may carry a
\* session id, which is wrapped for the caller; a listing is filtered by the
\* caller's filter, or found unparseable; the rest is relayed, unless too large.
Respond(c) ==
  /\ call[c].pc = "forwarded"
  /\ \/ /\ \E answer \in {"tool_timeout", "tool_unavailable"} : Result(c, answer)
        /\ UNCHANGED opened
     \/ /\ \/ UNCHANGED opened
           \/ /\ Len(opened) < MaxSessions
              /\ opened' = Append(opened, call[c].who)
        /\ \/ /\ call[c].body.method = "tools/list"
              /\ \E offered \in SUBSET Tools :
                   call' = [call EXCEPT ![c].pc = "done", ![c].answer = "ok",
                     ![c].shows = offered \cap call[c].permits]
           \/ /\ call[c].body.method # "tools/list"
              /\ \E answer \in {"ok", "upstream_error", "response_too_large"} :
                   Result(c, answer)
           \/ /\ call[c].body.method = "tools/list"
              /\ \E answer \in {"upstream_error", "tool_unavailable"} :
                   Result(c, answer)
  /\ UNCHANGED <<policy, edits, reached>>

\* An operator edits the ToolProvider, the grant or the class.
Edit ==
  /\ edits < MaxEdits
  /\ \E p \in Policies \ {policy} : policy' = p
  /\ edits' = edits + 1
  /\ UNCHANGED <<call, opened, reached>>

Init ==
  /\ policy \in Policies
  /\ edits = 0
  /\ call \in [Calls -> {NewCall(w) : w \in Callers}]
  /\ opened = <<>>
  /\ reached = {}

Handle(c) ==
  \/ Authorize(c)
  \/ \E body \in Bodies, modern, mirrored \in BOOLEAN, s \in Wrapped \cup {NoSession} :
       Receive(c, body, modern, mirrored, s)
  \/ Respond(c)

ToolDone == (\A c \in Calls : call[c].pc = "done") /\ UNCHANGED toolVars

Next == Edit \/ (\E c \in Calls : Handle(c)) \/ ToolDone
Spec == Init /\ [][Next]_toolVars

-----------------------------------------------------------------------------
\* Session ownership (mcpsession.go, "one workload cannot resume another's
\* session"): a raw session id goes upstream only in a call of the caller the
\* tool server's answer that opened it was for.
SessionsStayWithTheirOwner ==
  \A c \in reached : call[c].session # 0 => opened[call[c].session] = call[c].who

\* "The model never sees a tool it cannot call": a call refused for its tool
\* comes from a caller to whom no listing authorised under the same policy
\* showed that tool.
ListedIsCallable ==
  \A c, d \in Calls :
    call[c].answer = "tool_denied" /\ call[d].who = call[c].who
        /\ call[d].since = call[c].since
      => call[c].body.tool \notin call[d].shows
=============================================================================
