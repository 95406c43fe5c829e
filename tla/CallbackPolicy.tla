-------------------------- MODULE CallbackPolicy --------------------------
(***************************************************************************)
(* Where asynchronous answers may be sent: the allowlist an operator       *)
(* writes, the policy it becomes, the check of the reconciler and that of  *)
(* the gateway before it dials, with the name of the callback host         *)
(* resolving to other addresses at any moment.                             *)
(*                                                                         *)
(* An address is its range and a number; an entry of the allowlist is what *)
(* it looks like: a CIDR, a CIDR with a typing error, a bare address, a    *)
(* DNS suffix, or something that is no name at all.                        *)
(***************************************************************************)
EXTENDS Integers, Sequences

CONSTANT MaxLookups  \* bound: changes of what the host resolves to

VARIABLES
  entries,  \* the flag's value, whose order and repetitions mean nothing
  policy,   \* the Policy, Refused if the process refuses to start
  ready,    \* the reconciler's verdict on the callbackUrl
  accepted, \* a request was accepted, and its answer is still to be sent
  answer,   \* what the resolver answers now
  checked,  \* the address the gateway has checked and pinned
  dialed,   \* the addresses that were dialed
  changes

vars == <<entries, policy, ready, accepted, answer, checked, dialed, changes>>

Ranges == {"loopback", "linkLocal", "private", "shared", "public"}
Addresses == Ranges \X {1, 2}
NoAddress == <<"none", 0>>

\* matches, for the suffixes: the callback host is hooks.corp.
HostMatches(suffix) == suffix = "corp"

Entries ==
  [kind : {"cidr"}, range : {"private", "loopback"}]
    \cup [kind : {"ip"}, address : {<<"private", 1>>}]
    \cup [kind : {"suffix"}, name : {"corp", "other"}]
    \cup [kind : {"badCidr", "noName"}]

\* The addresses an entry names, for the one host there is.
Named(e) ==
  CASE e.kind = "cidr" -> {a \in Addresses : a[1] = e.range}
    [] e.kind = "ip" -> {e.address}
    [] e.kind = "suffix" -> IF HostMatches(e.name) THEN Addresses ELSE {}
    [] OTHER -> {}

-----------------------------------------------------------------------------
(* policy.go *)

NoPolicy == [state |-> "none", cidrs |-> {}, suffixes |-> {}]
Refused == [NoPolicy EXCEPT !.state = "error"]

\* New: what does not parse as a CIDR is a suffix, which here matches nothing.
New(list) ==
  [state |-> "ok",
   cidrs |-> {Named(e) : e \in {x \in list : x.kind = "cidr"}},
   suffixes |-> {IF e.kind = "suffix" THEN e.name ELSE "unmatched" :
                   e \in {x \in list : x.kind # "cidr"}}]

\* NewFromCSVStrict: a malformed entry is an error, a bare address a CIDR of
\* its own.
NewStrict(list) ==
  IF \E e \in list : e.kind \in {"badCidr", "noName"} THEN Refused
  ELSE LET ips == {e \in list : e.kind = "ip"}
           p == New(list \ ips)
       IN  [p EXCEPT !.cidrs = @ \cup {{e.address} : e \in ips}]

Matches(p, ip) ==
  \/ \E s \in p.suffixes : HostMatches(s)
  \/ \E c \in p.cidrs : ip \in c

\* Allowed: the floor, then the allowlist, then the ranges.
Allowed(p, ip) ==
  IF ip[1] \in {"loopback", "linkLocal"} THEN FALSE
  ELSE IF Matches(p, ip) THEN TRUE
  ELSE ip[1] \notin {"private", "shared"}

-----------------------------------------------------------------------------
(* The two checks and the dial *)

Started == policy.state = "ok"

Start ==
  /\ policy = NoPolicy
  /\ policy' = NewStrict(entries)
  /\ UNCHANGED <<entries, ready, accepted, answer, checked, dialed, changes>>

\* validateCallbackURL: every address counts; no answer is no verdict.
Validate ==
  /\ Started
  /\ ready' = \A i \in DOMAIN answer : Allowed(policy, answer[i])
  /\ UNCHANGED <<entries, policy, accepted, answer, checked, dialed, changes>>

\* ChannelByPath: a channel takes requests only while it is Ready.
AcceptRequest ==
  /\ Started /\ ready /\ ~accepted
  /\ accepted' = TRUE
  /\ UNCHANGED <<entries, policy, ready, answer, checked, dialed, changes>>

\* sendCallback, before the dial: the first address is checked and pinned.  The
\* channel may not be Ready any more.
CheckTarget ==
  /\ accepted /\ checked = NoAddress
  /\ answer # <<>> /\ Allowed(policy, answer[1])
  /\ checked' = answer[1]
  /\ UNCHANGED <<entries, policy, ready, accepted, answer, dialed, changes>>

\* A blocked address ends the callback; so does a name that keeps not resolving.
NotDialed ==
  /\ accepted /\ checked = NoAddress
  /\ answer # <<>> => ~Allowed(policy, answer[1])
  /\ accepted' = FALSE
  /\ UNCHANGED <<entries, policy, ready, answer, checked, dialed, changes>>

\* Mutant: the dial resolves the name again.
DialByName ==
  /\ checked # NoAddress
  /\ dialed' = dialed \cup {answer[i] : i \in DOMAIN answer}
  /\ checked' = NoAddress
  /\ accepted' \in BOOLEAN
  /\ UNCHANGED <<entries, policy, ready, answer, changes>>

\* dialCallbackOnce dials the pinned address; the callback is over, or the
\* schedule has another attempt, which resolves and checks again.
Dial ==
  /\ checked # NoAddress
  /\ dialed' = dialed \cup {checked}
  /\ checked' = NoAddress
  /\ accepted' \in BOOLEAN
  /\ UNCHANGED <<entries, policy, ready, answer, changes>>

Answers == {<<>>} \cup {<<a>> : a \in Addresses}
             \cup {<<a, b>> : a \in {<<"public", 1>>}, b \in {<<"private", 1>>, <<"loopback", 1>>}}

\* The name's owner points it elsewhere.
Resolve ==
  /\ changes < MaxLookups
  /\ changes' = changes + 1
  /\ answer' \in Answers
  /\ UNCHANGED <<entries, policy, ready, accepted, checked, dialed>>

Init ==
  /\ entries \in SUBSET Entries
  /\ policy = NoPolicy /\ ready = FALSE /\ accepted = FALSE
  /\ answer \in Answers
  /\ checked = NoAddress /\ dialed = {} /\ changes = 0

PolicyRests == policy = Refused /\ UNCHANGED vars

Next == Start \/ Validate \/ AcceptRequest \/ CheckTarget \/ NotDialed \/ Dial \/ Resolve \/ PolicyRests

Spec == Init /\ [][Next]_vars

-----------------------------------------------------------------------------
(* Properties *)

Floor == {"loopback", "linkLocal"}

\* "The dial is pinned to the checked IP so an independent re-resolution
\* cannot be rebound to a blocked address": whatever the name resolves to
\* between the reconciler's check, the gateway's and the dial, no address that
\* is dialed is in the ranges no allowlist opens, and an internal one is dialed
\* only if an entry of the allowlist names it.
NeverDialsBlocked ==
  \A a \in dialed :
    /\ a[1] \notin Floor
    /\ a[1] = "public" \/ \E e \in entries : a \in Named(e)
=============================================================================
