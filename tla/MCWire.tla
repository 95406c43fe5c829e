------------------------------- MODULE MCWire -------------------------------
(***************************************************************************)
(* The gateway's per-request machinery on small instances, one part at a   *)
(* time: focus names the part that runs, and the others rest in their      *)
(* initial states.                                                         *)
(***************************************************************************)
EXTENDS ToolBroker, WireParts

CONSTANTS
  MaxParts, MaxBlocks,                                \* StreamTranslation
  MaxMessages                                         \* RequestTranslation

VARIABLES
  focus,
  to, upstream, tr, caller, metered,
  from, messages

\* The tool plane's configurations: a grant wider than the catalog, no narrowing
\* at all, no grant, a class that does not allow the provider, no provider.
Policy(exists, namespaces, granted, grant, class, catalog) ==
  [exists |-> exists, namespaces |-> namespaces, granted |-> granted, grant |-> grant,
   class |-> class, catalog |-> catalog]
ToolPolicies ==
  {Policy(TRUE, Callers, TRUE, {"t1", "t2"}, TRUE, {"t1"}),
   Policy(TRUE, Callers, TRUE, {}, TRUE, {}),
   Policy(TRUE, Agents, FALSE, {}, TRUE, {}),
   Policy(TRUE, Callers, TRUE, {"t1"}, FALSE, {}),
   Policy(FALSE, {}, FALSE, {}, FALSE, {})}

Stream == INSTANCE StreamTranslation
Conversation == INSTANCE RequestTranslation WITH Calls <- <<"k1", "k2">>

ASSUME ConstantsAssumption ==
  ToolBrokerAssumption /\ Auth!CallerAuthAssumption /\ Rate!RateLimitAssumption

streamVars == <<to, upstream, tr, caller, metered>>
requestVars == <<from, messages>>
wireVars == <<focus, toolVars, rateVars, authVars, streamVars, requestVars>>

WireInit ==
  /\ focus \in {"rate", "tools", "stream", "conversation", "auth"}
  /\ Init /\ Rate!Init /\ Auth!Init /\ Stream!Init /\ Conversation!Init
  /\ focus # "tools" => policy.catalog # {} /\ \A c \in Calls : call[c].who \in Agents
  /\ focus # "stream" => to = "openai"
  /\ focus # "conversation" => from = "openai"

WireNext ==
  \/ /\ focus = "tools" /\ Next
     /\ UNCHANGED <<focus, rateVars, authVars, streamVars, requestVars>>
  \/ /\ focus = "rate" /\ Rate!Next
     /\ UNCHANGED <<focus, toolVars, authVars, streamVars, requestVars>>
  \/ /\ focus = "auth" /\ Auth!AuthNext
     /\ UNCHANGED <<focus, toolVars, rateVars, streamVars, requestVars>>
  \/ /\ focus = "stream" /\ Stream!Next
     /\ UNCHANGED <<focus, toolVars, rateVars, authVars, requestVars>>
  \/ /\ focus = "conversation" /\ Conversation!Next
     /\ UNCHANGED <<focus, toolVars, rateVars, authVars, streamVars>>

WireSpec == WireInit /\ [][WireNext]_wireVars

-----------------------------------------------------------------------------
\* The translated stream is well formed in the caller's format, and closed.
WellFormedForTheCaller == Stream!WellFormedForTheCaller

\* The caller holds, after every event, all text and arguments sent so far.
NothingLostInTranslation == Stream!NothingLostInTranslation

\* A legal conversation is refused, or becomes a legal one of the other format
\* that says the same.
TranslatesFaithfully == Conversation!TranslatesFaithfully
=============================================================================
