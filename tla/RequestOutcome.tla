--------------------------- MODULE RequestOutcome ---------------------------
(***************************************************************************)
(* What the gateway promises the caller of one LLM request, whatever the   *)
(* shape of the fallback tree: providers are tried one at a time, none     *)
(* twice, at most MaxDepth of them; at most one admission slot is held     *)
(* while an upstream works, and it is that upstream's; the request gets    *)
(* one answer, after which it holds nothing.  LLMRequest implements this.  *)
(***************************************************************************)
EXTENDS Naturals, Sequences

CONSTANTS Requests, Providers, MaxDepth

VARIABLES
  tried,   \* per request, the providers tried, in order
  held,    \* per request, the providers whose admission slot it holds
  answer   \* per request, what its caller was answered

vars == <<tried, held, answer>>

NoAnswer == "none"
Denied == "denied"        \* refused before any provider was tried
Exhausted == "exhausted"  \* every provider tried has failed
Tried(q) == {tried[q][i] : i \in DOMAIN tried[q]}

Init ==
  /\ tried = [q \in Requests |-> <<>>]
  /\ held = [q \in Requests |-> {}]
  /\ answer = [q \in Requests |-> NoAnswer]

\* A slot belongs to one request.
Grant(q, p) ==
  /\ \A other \in Requests : p \notin held[other]
  /\ held' = [held EXCEPT ![q] = {p}]

\* The primary may be admitted before the walk tries it.
Admit(q) ==
  /\ answer[q] = NoAnswer /\ tried[q] = <<>> /\ held[q] = {}
  /\ \E p \in Providers : Grant(q, p)
  /\ UNCHANGED <<tried, answer>>

\* The next provider is tried, with a slot of its own or with none.
Try(q) ==
  /\ answer[q] = NoAnswer /\ Len(tried[q]) < MaxDepth
  /\ \E p \in Providers \ Tried(q) :
       /\ tried' = [tried EXCEPT ![q] = Append(@, p)]
       /\ \/ held[q] \subseteq {p} /\ UNCHANGED held
          \/ held[q] = {} /\ Grant(q, p)
  /\ UNCHANGED answer

\* The provider failed and its slot is given back.
GiveBack(q) ==
  /\ answer[q] = NoAnswer /\ held[q] # {}
  /\ held' = [held EXCEPT ![q] = {}]
  /\ UNCHANGED <<tried, answer>>

\* The one answer: of the provider tried last, or the gateway's own.
Answer(q) ==
  /\ answer[q] = NoAnswer
  /\ \E a \in {Denied, Exhausted} \cup Tried(q) :
       /\ a \in Providers => a = tried[q][Len(tried[q])]
       /\ a = Denied => tried[q] = <<>>
       /\ answer' = [answer EXCEPT ![q] = a]
  /\ held' = [held EXCEPT ![q] = {}]
  /\ UNCHANGED tried

Next == \E q \in Requests : Admit(q) \/ Try(q) \/ GiveBack(q) \/ Answer(q)

Spec == Init /\ [][Next]_vars
=============================================================================
