--------------------------- MODULE GatewayProofs ----------------------------
(***************************************************************************)
(* Theorems about the parts of the gateway and of the agents it talks to,  *)
(* each for every value of its constants.  They share no state.            *)
(***************************************************************************)
EXTENDS GatewayParts, Sequences, TLAPS

-----------------------------------------------------------------------------
(* RuntimeTLS *)

\* A transport is never ahead of the reloader, nor is a RoundTrip under way.
TLSInv ==
  /\ material.gen \in Nat
  /\ trip \in Int /\ trip <= material.gen
  /\ inner.gen \in Int /\ inner.gen <= material.gen
  /\ TLS!TransportTrustsCurrent

\* reloadingTransport reads the generation before the pool.  Wherever a reload
\* commits between the two, a transport that carries the reloader's generation
\* trusts the reloader's pool, for any number of rotations: what it may be is
\* a pool newer than its generation, which the next request rebuilds.
THEOREM TransportCurrent == TLS!Spec => []TransportTrustsCurrent
<1>1. TLS!Init => TLSInv
  BY DEF TLS!Init, TLSInv, TLS!TransportTrustsCurrent, TLS!None
<1>2. TLSInv /\ [TLS!Next]_(TLS!vars) => TLSInv'
  <2> SUFFICES ASSUME TLSInv, [TLS!Next]_(TLS!vars)
               PROVE  TLSInv'
    OBVIOUS
  <2>1. CASE TLS!Commit
    BY <2>1 DEF TLS!Commit, TLSInv, TLS!TransportTrustsCurrent
  <2>2. CASE TLS!Rebuild
    BY <2>2 DEF TLS!Rebuild, TLSInv, TLS!TransportTrustsCurrent, TLS!None
  <2>3. CASE TLS!BeginTrip
    BY <2>3 DEF TLS!BeginTrip, TLSInv, TLS!TransportTrustsCurrent
  <2>4. CASE UNCHANGED <<material, trip, inner>>
    BY <2>4 DEF TLSInv, TLS!TransportTrustsCurrent
  <2>5. QED
    BY <2>1, <2>2, <2>3, <2>4
       DEF TLS!Next, TLS!vars, TLS!StartReload, TLS!ReadCert, TLS!ReadKey, TLS!ReadCA, TLS!Watch,
           TLS!Swap, TLS!TLSRests
<1>3. TLSInv => TransportTrustsCurrent
  BY DEF TLSInv, TransportTrustsCurrent
<1>4. QED
  BY <1>1, <1>2, <1>3, PTL DEF TLS!Spec

-----------------------------------------------------------------------------
(* CallbackPolicy *)

\* An address may be dialed: it is outside the floor, and public or named.
Fine(a) ==
  /\ a[1] \notin Policy!Floor
  /\ a[1] = "public" \/ \E e \in entries : a \in Policy!Named(e)

\* The policy is the one of the entries, and what was checked by it is fine.
PolicyInv ==
  /\ entries \subseteq Policy!Entries
  /\ policy = Policy!NoPolicy \/ policy = Policy!NewStrict(entries)
  /\ answer \in Policy!Answers
  /\ accepted \/ checked # Policy!NoAddress => policy.state = "ok"
  /\ checked = Policy!NoAddress \/ Fine(checked)
  /\ \A a \in dialed : Fine(a)

\* What Allowed lets through under the policy NewFromCSVStrict makes of the
\* entries is fine: a suffix that matches the host names every address, a CIDR
\* its range, and a bare address itself.
LEMMA AllowedIsFine ==
  ASSUME entries \subseteq Policy!Entries, policy = Policy!NewStrict(entries),
         policy.state = "ok", NEW a \in Policy!Addresses, Policy!Allowed(policy, a)
  PROVE  Fine(a)
<1> DEFINE list == entries
           ips == {e \in list : e.kind = "ip"}
           p == Policy!New(list \ ips)
<1>1. policy = [p EXCEPT !.cidrs = @ \cup {{e.address} : e \in ips}]
  BY DEF Policy!NewStrict, Policy!Refused, Policy!NoPolicy
<1>2. /\ policy.suffixes = {IF e.kind = "suffix" THEN e.name ELSE "unmatched" :
                              e \in {x \in list \ ips : x.kind # "cidr"}}
      /\ policy.cidrs = {Policy!Named(e) : e \in {x \in list \ ips : x.kind = "cidr"}}
                          \cup {{e.address} : e \in ips}
  BY <1>1 DEF Policy!New
<1>3. ASSUME Policy!Matches(policy, a)
      PROVE  \E e \in list : a \in Policy!Named(e)
  <2>1. CASE \E s \in policy.suffixes : Policy!HostMatches(s)
    <3>1. PICK e \in list : e.kind = "suffix" /\ Policy!HostMatches(e.name)
      BY <2>1, <1>2 DEF Policy!HostMatches
    <3>2. a \in Policy!Named(e)
      BY <3>1 DEF Policy!Named
    <3>3. QED
      BY <3>2
  <2>2. CASE \E c \in policy.cidrs : a \in c
    <3>1. CASE \E e \in list : e.kind = "cidr" /\ a \in Policy!Named(e)
      BY <3>1
    <3>2. CASE \E e \in ips : a = e.address
      BY <3>2 DEF Policy!Named
    <3>3. QED
      BY <2>2, <3>1, <3>2, <1>2
  <2>3. QED
    BY <1>3, <2>1, <2>2 DEF Policy!Matches
<1>4. QED
  BY <1>3 DEF Policy!Allowed, Policy!Floor, Policy!Addresses, Policy!Ranges, Fine

\* sendCallback resolves, checks and pins one address, and dialCallbackOnce
\* dials that one.  For any allowlist and any changes of what the name resolves
\* to, before the check, after it and between two callbacks, no dialed address
\* is in the floor, and an internal one is named by an entry.
THEOREM DialsAllowed == Policy!Spec => []NeverDialsBlocked
<1>1. Policy!Init => PolicyInv
  BY DEF Policy!Init, PolicyInv
<1>2. PolicyInv /\ [Policy!Next]_(Policy!vars) => PolicyInv'
  <2> SUFFICES ASSUME PolicyInv, [Policy!Next]_(Policy!vars)
               PROVE  PolicyInv'
    OBVIOUS
  <2>1. CASE Policy!Start
    BY <2>1 DEF Policy!Start, Policy!NoPolicy, PolicyInv, Fine
  <2>2. CASE Policy!CheckTarget
    <3>1. answer[1] \in Policy!Addresses
      BY <2>2 DEF Policy!CheckTarget, PolicyInv, Policy!Answers, Policy!Addresses, Policy!Ranges
    <3>2. policy = Policy!NewStrict(entries)
      BY <2>2 DEF Policy!CheckTarget, PolicyInv, Policy!Started, Policy!NoPolicy
    <3>3. Fine(answer[1])
      BY <2>2, <3>1, <3>2, AllowedIsFine DEF Policy!CheckTarget, Policy!Started, PolicyInv
    <3>4. QED
      BY <2>2, <3>3 DEF Policy!CheckTarget, PolicyInv, Fine
  <2>3. CASE Policy!Dial
    BY <2>3 DEF Policy!Dial, PolicyInv, Fine
  <2>4. CASE Policy!Resolve
    BY <2>4 DEF Policy!Resolve, PolicyInv, Fine
  <2>accept. CASE Policy!AcceptRequest
    BY <2>accept DEF Policy!AcceptRequest, Policy!Started, PolicyInv, Fine
  <2>5. CASE UNCHANGED <<entries, policy, answer, checked, dialed>> /\ accepted' \in {accepted, FALSE}
    <3>1. accepted' \/ checked' # Policy!NoAddress => policy'.state = "ok"
      <4>1. CASE accepted' = accepted
        BY Zenon, <2>5, <4>1 DEF PolicyInv
      <4>2. CASE accepted' = FALSE
        BY Zenon, <2>5, <4>2 DEF PolicyInv
      <4>3. QED
        BY Zenon, <2>5, <4>1, <4>2
    <3>2. QED
      BY <2>5, <3>1 DEF PolicyInv, Fine
  <2>6. QED
    BY Zenon, <2>1, <2>2, <2>3, <2>4, <2>5, <2>accept
       DEF Policy!Next, Policy!vars, Policy!Validate, Policy!NotDialed, Policy!PolicyRests
<1>3. PolicyInv => NeverDialsBlocked
  BY DEF PolicyInv, NeverDialsBlocked, Policy!NeverDialsBlocked, Fine
<1>4. QED
  BY <1>1, <1>2, <1>3, PTL DEF Policy!Spec

-----------------------------------------------------------------------------
(* ChannelHealth *)

Observations == [at : Int, ok : BOOLEAN, n : Int]
Losses == [by : Gateways, at : Int]

\* A replica that answered with silence had nothing from the window when it was
\* asked, and what it no longer holds is from before: its own start, or the
\* window.
Silent(g) ==
  LET heard == fetched.answers[g]
  IN  /\ \A o \in store[g] : o.at < fetched.at => o.at <= fetched.at - Window
      /\ \A l \in forgotten :
           l.by = g /\ l.at < fetched.at => l.at <= fetched.at - Window \/ l.at <= heard.started

\* What a replica no longer holds is from before its start, or no later than
\* something it holds: the bound on the list never makes a replica silent.
Superseded(l) == l.at <= started[l.by] \/ \E o \in store[l.by] : l.at <= o.at

HealthInv ==
  /\ clock \in Int /\ count.events \in Int
  /\ store \in [Gateways -> SUBSET Observations]
  /\ started \in [Gateways -> Int]
  /\ forgotten \subseteq Losses
  /\ \A g \in Gateways : started[g] <= clock /\ \A o \in store[g] : o.at <= clock
  /\ \A l \in forgotten : l.at <= clock /\ Superseded(l)
  /\ fetched.at \in Int /\ fetched.at <= clock
  /\ \A g \in DOMAIN fetched.answers :
       /\ g \in Gateways
       /\ fetched.answers[g].started \in Int
       /\ fetched.answers[g].state \in {"success", "failure", "empty"}
       /\ fetched.answers[g].state = "empty" => Silent(g)

\* What a step that forgets some of what a replica holds adds to the losses.
LEMMA ForgetAdds ==
  ASSUME HealthInv, NEW g \in Gateways, NEW gone \in SUBSET store[g], Health!Forget(g, gone)
  PROVE  /\ forgotten' \subseteq Losses
         /\ \A l \in forgotten' : l \in forgotten \/ (l.by = g /\ \E o \in store[g] : l.at = o.at)
         /\ \A l \in forgotten' : l.at <= clock
<1>1. forgotten' = forgotten \cup {[by |-> g, at |-> o.at] : o \in gone}
  BY DEF Health!Forget
<1>2. \A o \in store[g] : o.at \in Int /\ o.at <= clock
  BY DEF HealthInv, Observations
<1>3. ASSUME NEW l \in forgotten', l \notin forgotten
      PROVE  l \in Losses /\ l.by = g /\ l.at <= clock /\ \E o \in store[g] : l.at = o.at
  <2>1. PICK o \in gone : l = [by |-> g, at |-> o.at]
    BY <1>1, <1>3, Zenon
  <2>2. l.by = g /\ l.at = o.at /\ o \in store[g]
    BY <2>1
  <2>3. l \in Losses
    BY <1>2, <2>1, <2>2 DEF Losses
  <2>4. QED
    BY <1>2, <2>2, <2>3
<1>4. QED
  BY <1>3 DEF HealthInv

\* An answer of silence stays right while a replica drops observations and takes
\* new ones: the new ones are not from before the answer.
LEMMA StaysSilent ==
  ASSUME HealthInv, NEW g \in Gateways, UNCHANGED fetched,
         \A h \in Gateways : \A o \in store'[h] : o \in store[h] \/ o.at = clock,
         \A l \in forgotten' : l \in forgotten \/ (l.by = g /\ \E o \in store[g] : l.at = o.at)
  PROVE  \A h \in DOMAIN fetched.answers : fetched.answers[h].state = "empty" => Silent(h)'
<1> SUFFICES ASSUME NEW h \in DOMAIN fetched.answers, fetched.answers[h].state = "empty"
             PROVE  Silent(h)'
  OBVIOUS
<1>1. h \in Gateways /\ Silent(h) /\ fetched.at \in Int /\ fetched.at <= clock /\ clock \in Int
  BY DEF HealthInv
<1>2. \A o \in store'[h] : o.at < fetched.at => o.at <= fetched.at - Window
  BY <1>1 DEF Silent
<1>3. \A l \in forgotten' : l.by = h /\ l.at < fetched.at =>
        l.at <= fetched.at - Window \/ l.at <= fetched.answers[h].started
  BY <1>1 DEF Silent
<1>4. QED
  BY <1>2, <1>3 DEF Silent

\* An observation is taken at the present, which is no earlier than the fetch
\* and than all that was observed before.
LEMMA RecordKeeps ==
  ASSUME HealthInv, NEW g \in Gateways, NEW ok \in BOOLEAN, Health!Record(g, ok),
         Window \in Nat
  PROVE  HealthInv'
<1> DEFINE stays == Health!Kept(g)
           new == [at |-> clock, ok |-> ok, n |-> count.events]
<1>1. /\ clock' = clock /\ started' = started /\ fetched' = fetched
      /\ count' = [count EXCEPT !.events = @ + 1]
      /\ store' = [store EXCEPT ![g] = stays \cup {new}]
      /\ Health!Forget(g, store[g] \ stays)
  BY DEF Health!Record
<1>2. stays \subseteq store[g]
  BY Zenon DEF Health!Kept, Health!Recent
<1> HIDE DEF stays
<1>3. new \in Observations /\ new.at = clock
  BY DEF Observations, HealthInv
<1>4. store' \in [Gateways -> SUBSET Observations] /\ new \in store'[g]
  BY <1>1, <1>2, <1>3 DEF HealthInv
<1>5. \A h \in Gateways : \A o \in store'[h] : o \in store[h] \/ o.at = clock
  BY <1>1, <1>2, <1>3 DEF HealthInv
<1>6. /\ forgotten' \subseteq Losses
      /\ \A l \in forgotten' : l \in forgotten \/ (l.by = g /\ \E o \in store[g] : l.at = o.at)
      /\ \A l \in forgotten' : l.at <= clock
  BY <1>1, ForgetAdds
<1>7. \A h \in DOMAIN fetched.answers : fetched.answers[h].state = "empty" => Silent(h)'
  BY <1>1, <1>5, <1>6, StaysSilent
<1>8. \A l \in forgotten' : Superseded(l)'
  <2> SUFFICES ASSUME NEW l \in forgotten'
               PROVE  Superseded(l)'
    OBVIOUS
  <2>1. CASE l.by = g
    <3>1. l.at <= new.at /\ new \in store'[l.by]
      BY <1>3, <1>4, <1>6, <2>1
    <3>2. QED
      BY <3>1 DEF Superseded
  <2>2. CASE l.by # g
    <3>1. l \in forgotten /\ l.by \in Gateways
      BY <1>6, <2>2 DEF Losses
    <3>2. store'[l.by] = store[l.by]
      BY <1>1, <2>2, <3>1 DEF HealthInv
    <3>3. Superseded(l)
      BY <3>1 DEF HealthInv
    <3>4. QED
      BY <1>1, <3>2, <3>3 DEF Superseded
  <2>3. QED
    BY <2>1, <2>2
<1>9. \A h \in Gateways : started[h] <= clock /\ \A o \in store'[h] : o.at <= clock
  BY <1>5 DEF HealthInv
<1>10. count'.events \in Int
  BY <1>1 DEF HealthInv
<1>11. QED
  BY <1>1, <1>4, <1>6, <1>7, <1>8, <1>9, <1>10 DEF HealthInv

\* A restart loses what the replica held, and starts it at the present.
LEMMA BootKeeps ==
  ASSUME HealthInv, NEW g \in Gateways, Health!Boot(g), Window \in Nat
  PROVE  HealthInv'
<1>1. /\ clock' = clock /\ fetched' = fetched
      /\ count' = [count EXCEPT !.boots = @ + 1]
      /\ store' = [store EXCEPT ![g] = {}] /\ started' = [started EXCEPT ![g] = clock]
      /\ Health!Forget(g, store[g])
  BY DEF Health!Boot
<1>2. /\ forgotten' \subseteq Losses
      /\ \A l \in forgotten' : l \in forgotten \/ (l.by = g /\ \E o \in store[g] : l.at = o.at)
      /\ \A l \in forgotten' : l.at <= clock
  BY <1>1, ForgetAdds
<1>3. /\ store' \in [Gateways -> SUBSET Observations]
      /\ started' \in [Gateways -> Int]
      /\ \A h \in Gateways : started'[h] <= clock /\ \A o \in store'[h] : o \in store[h]
  BY <1>1 DEF HealthInv
<1>4. \A h \in DOMAIN fetched.answers : fetched.answers[h].state = "empty" => Silent(h)'
  BY <1>1, <1>2, <1>3, StaysSilent
<1>5. \A l \in forgotten' : Superseded(l)'
  <2> SUFFICES ASSUME NEW l \in forgotten'
               PROVE  Superseded(l)'
    OBVIOUS
  <2>1. CASE l.by = g
    BY <1>1, <1>2, <2>1 DEF HealthInv, Superseded
  <2>2. CASE l.by # g
    <3>1. l \in forgotten /\ l.by \in Gateways
      BY <1>2, <2>2 DEF Losses
    <3>2. store'[l.by] = store[l.by] /\ started'[l.by] = started[l.by]
      BY <1>1, <2>2, <3>1 DEF HealthInv
    <3>3. Superseded(l)
      BY <3>1 DEF HealthInv
    <3>4. QED
      BY <3>2, <3>3 DEF Superseded
  <2>3. QED
    BY <2>1, <2>2
<1>6. \A h \in Gateways : \A o \in store'[h] : o.at <= clock
  BY <1>3 DEF HealthInv
<1>7. count'.events \in Int
  BY <1>1 DEF HealthInv
<1>8. QED
  BY <1>1, <1>2, <1>3, <1>4, <1>5, <1>6, <1>7 DEF HealthInv

\* What a replica answers is silence only if it holds nothing from the window.
LEMMA FetchKeeps ==
  ASSUME HealthInv, Window \in Nat, UNCHANGED <<clock, store, started, forgotten, count>>,
         NEW heard \in SUBSET Gateways,
         fetched' = [at |-> clock, answers |-> [g \in heard |-> Health!Snapshot(g)]]
  PROVE  HealthInv'
<1>1. fetched'.at = clock /\ DOMAIN fetched'.answers = heard
  OBVIOUS
<1>2. \A g \in heard :
        /\ fetched'.answers[g].started = started[g]
        /\ fetched'.answers[g].state \in {"success", "failure", "empty"}
        /\ fetched'.answers[g].state = "empty" => \A o \in store[g] : ~(o.at > clock - Window)
  BY DEF Health!Snapshot, Health!Recent
<1>3. \A g \in heard : fetched'.answers[g].state = "empty" => Silent(g)'
  <2> SUFFICES ASSUME NEW g \in heard, fetched'.answers[g].state = "empty"
               PROVE  Silent(g)'
    OBVIOUS
  <2>1. \A o \in store[g] : o.at \in Int /\ o.at <= clock - Window
    BY <1>2 DEF HealthInv, Observations
  <2>2. \A l \in forgotten : l.by = g => l.at <= clock - Window \/ l.at <= started[g]
    BY <2>1 DEF HealthInv, Superseded, Losses
  <2>3. QED
    BY <1>1, <1>2, <2>1, <2>2 DEF Silent
<1>4. \A l \in forgotten : Superseded(l)' <=> Superseded(l)
  BY DEF Superseded
<1>5. QED
  BY <1>1, <1>2, <1>3, <1>4 DEF HealthInv

LEMMA HealthKeeps ==
  ASSUME HealthInv, Health!ChannelHealthAssumption, [Health!Next]_(Health!vars)
  PROVE  HealthInv'
<1>1. Window \in Nat
  BY DEF Health!ChannelHealthAssumption
<1>2. CASE Health!Reduce
  <2>1. UNCHANGED <<clock, store, started, forgotten, count>>
    BY <1>2 DEF Health!Reduce
  <2>2. CASE UNCHANGED fetched
    BY <2>1, <2>2 DEF HealthInv, Silent, Superseded
  <2>3. CASE fetched' # fetched
    <3>1. PICK heard \in SUBSET Gateways :
            fetched' = [at |-> clock, answers |-> [g \in heard |-> Health!Snapshot(g)]]
      BY Zenon, <1>2, <2>3 DEF Health!Reduce
    <3>2. QED
      BY <1>1, <2>1, <3>1, FetchKeeps
  <2>4. QED
    BY <2>2, <2>3
<1>3. CASE Health!Tick
  <2>1. UNCHANGED <<store, started, forgotten, fetched, count>> /\ clock' = clock + 1
    BY <1>3 DEF Health!Tick
  <2>2. /\ \A g \in Gateways : \A o \in store[g] : o.at \in Int
        /\ \A l \in forgotten : l.at \in Int
    BY DEF HealthInv, Observations, Losses
  <2>3. /\ \A g \in DOMAIN fetched.answers : Silent(g)' <=> Silent(g)
        /\ \A l \in forgotten : Superseded(l)' <=> Superseded(l)
    BY <2>1 DEF Silent, Superseded
  <2>4. QED
    BY <2>1, <2>2, <2>3 DEF HealthInv
<1>4. CASE UNCHANGED Health!vars
  BY <1>4 DEF HealthInv, Silent, Superseded, Health!vars
<1>5. QED
  BY <1>1, <1>2, <1>3, <1>4, RecordKeeps, BootKeeps DEF Health!Next

\* reduceChannelHealth believes in silence only when a replica it has heard has
\* been up for the whole window.  For any replicas, restarts, window and cache,
\* when PlatformConnected turns to Unknown the answers in use held nothing from
\* the window, and the one that counts lost nothing from it either, although
\* they may be older than the pass that reads them.
THEOREM SilenceJudgedRight ==
  ASSUME Health!ChannelHealthAssumption
  PROVE  Health!Spec => SilenceIsReal
<1> DEFINE recent(at) == at > clock - Window /\ at < fetched'.at
           Quiet ==
             /\ \A g \in DOMAIN fetched'.answers : \A o \in store[g] : ~recent(o.at)
             /\ \E g \in DOMAIN fetched'.answers :
                  \A l \in forgotten : l.by = g => ~recent(l.at)
<1>1. Health!Init => HealthInv
  BY DEF Health!Init, HealthInv, Health!Never, Health!ChannelHealthAssumption
<1>2. HealthInv /\ HealthInv' /\ [Health!Next]_(Health!vars)
        => [cond' # cond /\ cond' = "Unknown" => Quiet]_(Health!vars)
  <2> SUFFICES ASSUME HealthInv, HealthInv', [Health!Next]_(Health!vars),
                      cond' # cond, cond' = "Unknown"
               PROVE  Quiet
    OBVIOUS
  <2>1. Health!Reduce
    BY Zenon DEF Health!Next, Health!vars, Health!Tick, Health!Boot, Health!Record
  <2>2. PICK answers : fetched'.answers = answers /\ cond' = Health!Reduced(answers)
    <3>1. CASE clock - fetched.at < CacheFor
      <4>1. fetched' = fetched /\ cond' = Health!Reduced(fetched.answers)
        BY <2>1, <3>1, Zenon DEF Health!Reduce
      <4>2. QED
        BY <4>1
    <3>2. CASE ~(clock - fetched.at < CacheFor)
      <4>1. PICK heard \in SUBSET Gateways :
              /\ cond' = Health!Reduced([g \in heard |-> Health!Snapshot(g)])
              /\ fetched' = [at |-> clock, answers |-> [g \in heard |-> Health!Snapshot(g)]]
        BY <2>1, <3>2, Zenon DEF Health!Reduce
      <4>2. fetched'.answers = [g \in heard |-> Health!Snapshot(g)]
        BY <4>1
      <4>3. QED
        BY <4>1, <4>2, Zenon
    <3>3. QED
      BY <3>1, <3>2
  <2> UNCHANGED <<clock, store, forgotten>>
    BY <2>1 DEF Health!Reduce
  <2>3. /\ \A g \in DOMAIN fetched'.answers :
             fetched'.answers[g].state \notin {"success", "failure"}
        /\ \E g \in DOMAIN fetched'.answers : clock - fetched'.answers[g].started >= Window
    BY <2>2 DEF Health!Reduced
  <2>4. \A g \in DOMAIN fetched'.answers : Silent(g)' /\ g \in Gateways
    BY <2>3 DEF HealthInv
  <2>5. PICK g \in DOMAIN fetched'.answers : clock - fetched'.answers[g].started >= Window
    BY <2>3
  <2>6. /\ clock \in Int /\ fetched'.at \in Int /\ fetched'.at <= clock
        /\ fetched'.answers[g].started \in Int /\ Window \in Int
        /\ \A l \in forgotten : l.at \in Int
        /\ \A h \in Gateways : \A o \in store[h] : o.at \in Int
    BY <2>2 DEF HealthInv, Losses, Observations, Health!ChannelHealthAssumption
  <2>7. \A h \in DOMAIN fetched'.answers : \A o \in store[h] : ~recent(o.at)
    BY <2>2, <2>4, <2>6 DEF Silent
  <2>8. \A l \in forgotten : l.by = g => ~recent(l.at)
    BY <2>2, <2>4, <2>5, <2>6 DEF Silent
  <2>9. QED
    BY <2>7, <2>8
<1>3. QED
  BY <1>1, <1>2, HealthKeeps, PTL DEF Health!Spec, SilenceIsReal, Health!SilenceIsReal

-----------------------------------------------------------------------------
(* AgentRuntime *)

\* To move an id to the end of the order leaves the ids that are in it.
LEMMA TouchedIds ==
  ASSUME NEW seq \in Seq(Ids), NEW id \in Delivery!Range(seq)
  PROVE  /\ Delivery!Touched(seq, id) \in Seq(Ids)
         /\ Delivery!Range(Delivery!Touched(seq, id)) = Delivery!Range(seq)
<1> DEFINE i == CHOOSE j \in DOMAIN seq : seq[j] = id
           left == SubSeq(seq, 1, i - 1)
           right == SubSeq(seq, i + 1, Len(seq))
           t == left \o right \o <<id>>
<1>1. i \in 1..Len(seq) /\ seq[i] = id /\ id \in Ids /\ Len(seq) \in Nat
  BY DEF Delivery!Range
<1>2. t = Delivery!Touched(seq, id)
  BY DEF Delivery!Touched
<1> HIDE DEF i
<1>3. /\ left \in Seq(Ids) /\ Len(left) = i - 1 /\ \A j \in 1..i - 1 : left[j] = seq[j]
  BY <1>1
<1>4. /\ right \in Seq(Ids) /\ Len(right) = Len(seq) - i
      /\ \A j \in 1..Len(seq) - i : right[j] = seq[i + j]
  BY <1>1
<1> HIDE DEF left, right
<1>5. t \in Seq(Ids) /\ Len(t) = Len(seq) /\ t[Len(seq)] = id
  BY <1>1, <1>3, <1>4
<1>6. \A j \in 1..i - 1 : t[j] = seq[j]
  BY <1>1, <1>3, <1>4
<1>7. \A j \in i..Len(seq) - 1 : t[j] = seq[j + 1]
  <2> SUFFICES ASSUME NEW j \in i..Len(seq) - 1
               PROVE  t[j] = seq[j + 1]
    BY Zenon
  <2>1. j - Len(left) \in 1..Len(right) /\ right[j - Len(left)] = seq[j + 1]
    BY <1>1, <1>3, <1>4
  <2>2. (left \o right)[j] = right[j - Len(left)] /\ j \in 1..Len(left \o right)
    BY <1>1, <1>3, <1>4, <2>1
  <2>3. left \o right \in Seq(Ids) /\ <<id>> \in Seq(Ids)
    BY <1>1, <1>3, <1>4
  <2>4. t[j] = (left \o right)[j]
    BY <2>2, <2>3
  <2>5. QED
    BY <2>1, <2>2, <2>4
<1> HIDE DEF t
<1>8. Delivery!Range(t) = Delivery!Range(seq)
  <2>1. ASSUME NEW j \in 1..Len(seq)
        PROVE  \E k \in 1..Len(seq) : t[j] = seq[k]
    <3>1. CASE j < i
      BY <1>1, <1>6, <3>1
    <3>2. CASE j >= i /\ j < Len(seq)
      <4>1. j + 1 \in 1..Len(seq) /\ t[j] = seq[j + 1]
        BY <1>1, <1>7, <3>2
      <4>2. QED
        BY <4>1
    <3>3. CASE j = Len(seq)
      BY <1>1, <1>5, <3>3
    <3>4. QED
      BY <1>1, <3>1, <3>2, <3>3
  <2>2. ASSUME NEW k \in 1..Len(seq)
        PROVE  \E j \in 1..Len(seq) : t[j] = seq[k]
    <3>1. CASE k < i
      BY <1>1, <1>6, <3>1
    <3>2. CASE k = i
      <4>1. t[Len(seq)] = seq[k] /\ Len(seq) \in 1..Len(seq)
        BY <1>1, <1>5, <3>2
      <4>2. QED
        BY <4>1
    <3>3. CASE k > i
      <4>1. k - 1 \in i..Len(seq) - 1 /\ (k - 1) + 1 = k /\ k - 1 \in 1..Len(seq)
        BY <1>1, <3>3
      <4>2. t[k - 1] = seq[k]
        BY <1>7, <4>1
      <4>3. QED
        BY <4>1, <4>2
    <3>4. QED
      BY <1>1, <3>1, <3>2, <3>3
  <2>3. DOMAIN t = 1..Len(seq) /\ DOMAIN seq = 1..Len(seq)
    BY <1>5
  <2>4. \A x : x \in Delivery!Range(t) <=> \E j \in 1..Len(seq) : t[j] = x
    BY <2>3, Zenon DEF Delivery!Range
  <2>5. \A x : x \in Delivery!Range(seq) <=> \E k \in 1..Len(seq) : seq[k] = x
    BY <2>3, Zenon DEF Delivery!Range
  <2>6. QED
    BY <2>1, <2>2, <2>4, <2>5, Zenon
<1>9. QED
  BY <1>2, <1>5, <1>8

\* To remember an id adds it to the order, and drops ids from its start.
LEMMA RememberedIds ==
  ASSUME order \in Seq(Ids), BufferSize \in Nat, NEW id \in Ids
  PROVE  /\ Delivery!Remembered(id) \in Seq(Ids)
         /\ Delivery!Range(Delivery!Remembered(id)) \subseteq Delivery!Range(order) \cup {id}
<1> DEFINE seq == IF Delivery!Recalls(id) THEN order ELSE Append(order, id)
           from == Len(seq) - BufferSize
<1>1. seq \in Seq(Ids) /\ \A j \in 1..Len(seq) : seq[j] \in Delivery!Range(order) \cup {id}
  BY DEF Delivery!Range
<1>2. Delivery!Remembered(id) = IF Len(seq) > BufferSize THEN SubSeq(seq, from + 1, Len(seq)) ELSE seq
  BY DEF Delivery!Remembered
<1> HIDE DEF seq
<1>3. CASE Len(seq) > BufferSize
  <2>1. from \in Nat /\ from <= Len(seq)
    BY <1>1, <1>3
  <2> HIDE DEF from
  <2>2. /\ SubSeq(seq, from + 1, Len(seq)) \in Seq(Ids)
        /\ Len(SubSeq(seq, from + 1, Len(seq))) = Len(seq) - from
        /\ \A j \in 1..Len(seq) - from :
             SubSeq(seq, from + 1, Len(seq))[j] = seq[from + j] /\ from + j \in 1..Len(seq)
    BY <1>1, <2>1
  <2> DEFINE cut == SubSeq(seq, from + 1, Len(seq))
  <2>3. DOMAIN cut = 1..Len(seq) - from
    BY <2>2
  <2>4. \A j \in DOMAIN cut : cut[j] \in Delivery!Range(order) \cup {id}
    BY Zenon, <1>1, <2>2, <2>3
  <2>5. cut = Delivery!Remembered(id)
    BY Zenon, <1>2, <1>3
  <2> HIDE DEF cut
  <2>6. QED
    BY ZenonT(30), <2>2, <2>4, <2>5 DEF Delivery!Range, cut
<1>4. CASE ~(Len(seq) > BufferSize)
  BY <1>1, <1>2, <1>4 DEF Delivery!Range
<1>5. QED
  BY <1>3, <1>4

\* What the agent's runtime does in a step of the gateway.
RuntimeStep ==
  \/ \E id \in Ids : Delivery!Recall(id)
  \/ \E id \in Ids : \E n :
       Delivery!StartHandler(id, n) \/ Delivery!HandlerReturns(id, n) \/ Delivery!HandlerFails(id, n)
  \/ Delivery!RestartAgent
  \/ UNCHANGED Delivery!runtimeVars

LEMMA StepOfRuntime ==
  ASSUME [Delivery!Next]_(Delivery!vars)
  PROVE  RuntimeStep
<1>1. CASE \E id \in Ids : Delivery!Attempt(id)
  BY <1>1, Zenon DEF Delivery!Attempt, RuntimeStep
<1>2. CASE \E id \in Ids : \E n \in 0..setting.attempts - 1 : Delivery!HandlerEnds(id, n)
  BY <1>2, Zenon DEF Delivery!HandlerEnds, RuntimeStep
<1>3. CASE Delivery!Restart
  BY <1>3, Zenon DEF Delivery!Restart, RuntimeStep
<1>4. CASE UNCHANGED Delivery!runtimeVars
  BY <1>4, Zenon DEF RuntimeStep
<1>5. CASE UNCHANGED Delivery!vars
  BY <1>5, <1>4, Zenon DEF Delivery!vars
<1>6. QED
  BY <1>1, <1>2, <1>3, <1>4, <1>5, Zenon
     DEF Delivery!Next, Delivery!Refuse, Delivery!Accept, Delivery!AcceptWithoutAgent, Delivery!Wake,
         Delivery!AttemptTimesOut, Delivery!SendReply, Delivery!SenderGivesUp, Delivery!Tick,
         Delivery!Crash, Delivery!DeliveryDone

\* Whether a handler has been started for an id.
Ran(id) == runs[id] > 0

\* A reply counts as kept only while it is in the window, and with a volume also
\* on it; and every id in the window, on the volume or at work has been started.
RuntimeInv ==
  /\ order \in Seq(Ids) /\ disk \in Seq(Ids)
  /\ runs \in [Ids -> Nat]
  /\ kept \subseteq Delivery!Range(order)
  /\ volume => kept \subseteq Delivery!Range(disk)
  /\ \A id \in Delivery!Range(order) \cup Delivery!Range(disk) : Ran(id)
  /\ \A id \in Ids : \A n : <<id, n>> \in handling => Ran(id)

LEMMA RuntimeKeeps ==
  ASSUME BufferSize \in Nat, RuntimeInv, RuntimeStep
  PROVE  /\ RuntimeInv'
         /\ \A id \in Ids : Ran(id) => Ran(id)'
         /\ \A id \in Ids : runs'[id] # runs[id] => id \notin kept
<1>1. CASE \E id \in Ids : Delivery!Recall(id)
  <2>1. PICK id \in Ids : Delivery!Recall(id)
    BY <1>1
  <2>2. /\ id \in Delivery!Range(order) /\ order' = Delivery!Touched(order, id)
        /\ UNCHANGED <<volume, disk, handling, runs, kept>>
    BY <2>1 DEF Delivery!Recall, Delivery!Recalls
  <2>3. order' \in Seq(Ids) /\ Delivery!Range(order)' = Delivery!Range(order)
    BY Zenon, <2>2, TouchedIds DEF RuntimeInv
  <2>4. QED
    BY <2>2, <2>3 DEF RuntimeInv, Ran
<1>2. CASE \E id \in Ids : \E n : Delivery!StartHandler(id, n)
  <2>0. PICK id \in Ids : \E n : Delivery!StartHandler(id, n)
    BY <1>2
  <2>1. PICK n : Delivery!StartHandler(id, n)
    BY <2>0
  <2>2. /\ id \notin Delivery!Range(order) /\ handling' = handling \cup {<<id, n>>}
        /\ runs' = [runs EXCEPT ![id] = @ + 1]
        /\ UNCHANGED <<volume, order, disk, kept>>
    BY <2>1 DEF Delivery!StartHandler, Delivery!Recalls
  <2>3. /\ runs' \in [Ids -> Nat] /\ Ran(id)'
        /\ \A i \in Ids : (Ran(i) => Ran(i)') /\ (i # id => runs'[i] = runs[i])
    BY <2>2 DEF RuntimeInv, Ran
  <2>4. Delivery!Range(order) \subseteq Ids /\ Delivery!Range(disk) \subseteq Ids
    BY DEF RuntimeInv, Delivery!Range
  <2>5. QED
    BY <2>2, <2>3, <2>4 DEF RuntimeInv, Delivery!Range
<1>3. CASE \E id \in Ids : \E n : Delivery!HandlerReturns(id, n)
  <2>0. PICK id \in Ids : \E n : Delivery!HandlerReturns(id, n)
    BY <1>3
  <2>1. PICK n : Delivery!HandlerReturns(id, n)
    BY <2>0
  <2>2. PICK written \in BOOLEAN :
          /\ order' = Delivery!Remembered(id)
          /\ disk' = IF volume /\ written THEN Delivery!Remembered(id) ELSE disk
          /\ kept' = (kept \cup IF written THEN {id} ELSE {})
                        \cap Delivery!Range(Delivery!Remembered(id))
    BY <2>1, Zenon DEF Delivery!HandlerReturns, Delivery!Remember
  <2>3. Ran(id) /\ handling' \subseteq handling /\ UNCHANGED <<volume, runs>>
    BY <2>1 DEF Delivery!HandlerReturns, RuntimeInv
  <2>4. /\ Delivery!Remembered(id) \in Seq(Ids)
        /\ Delivery!Range(Delivery!Remembered(id)) \subseteq Delivery!Range(order) \cup {id}
    BY RememberedIds DEF RuntimeInv
  <2>5. QED
    BY <2>2, <2>3, <2>4 DEF RuntimeInv, Ran
<1>4. CASE \E id \in Ids : \E n : Delivery!HandlerFails(id, n)
  BY <1>4 DEF Delivery!HandlerFails, RuntimeInv, Ran, Delivery!Range
<1>5. CASE Delivery!RestartAgent
  BY <1>5 DEF Delivery!RestartAgent, RuntimeInv, Ran, Delivery!Range
<1>6. CASE UNCHANGED Delivery!runtimeVars
  BY <1>6 DEF Delivery!runtimeVars, RuntimeInv, Ran, Delivery!Range
<1>7. QED
  BY <1>1, <1>2, <1>3, <1>4, <1>5, <1>6, Zenon DEF RuntimeStep

LEMMA RuntimeStarts ==
  ASSUME Delivery!Init
  PROVE  RuntimeInv
BY DEF Delivery!Init, Delivery!RuntimeInit, RuntimeInv, Delivery!Range

\* The store flushes a reply before it counts as answered, and load brings back
\* what was flushed.  For any window size, deliveries, retries and restarts, with
\* a volume or without, no handler is started for an id whose reply is kept.
THEOREM AnsweredOnce ==
  ASSUME Delivery!ChannelDeliveryAssumption
  PROVE  Delivery!Spec => AnsweredIsNotReprocessed
<1>1. RuntimeInv /\ [Delivery!Next]_(Delivery!vars)
        => /\ RuntimeInv'
           /\ [\A id \in Ids : runs[id]' # runs[id] => id \notin kept]_(Delivery!runtimeVars)
  BY StepOfRuntime, RuntimeKeeps DEF Delivery!ChannelDeliveryAssumption
<1>2. QED
  BY <1>1, RuntimeStarts, PTL
     DEF Delivery!Spec, AnsweredIsNotReprocessed, Delivery!AnsweredIsNotReprocessed

-----------------------------------------------------------------------------
(* ChannelDelivery *)

Early == {"new", "wake", "deliver", "awaiting"}
Pipes ==
  [at : Early \cup {"reply", "done", "crashed"}, tries : Nat, chunk : Nat,
   via : {"platform", "bot"}, text : {"none", "answer", "error"},
   end : {"none", "refused", "200", "deadline", "error", "rejected", "exhausted", "delivered"},
   age : Nat]
Reasons == {"success", "WebhookAuthFailed", "AgentNotReady", "DispatchFailed", "CallbackRejected"}
Answers == {"nothing", "waiting", "2xx", "error"}

\* Each chunk in the chat is the first, a repetition, or the next.
InOrder(c) ==
  /\ c # <<>> => c[1] = 1
  /\ \A k \in 1..Len(c) - 1 : c[k + 1] \in {1, c[k], c[k] + 1}

\* The chunk to send continues the chat; before the bot takes over, the first
\* chunk is sent while nothing else is there.
Continues(p, c) ==
  /\ c = <<>> => p.chunk = 1
  /\ c # <<>> => p.chunk \in {1, c[Len(c)], c[Len(c)] + 1}
  /\ p.via = "platform" /\ p.chunk = 1 => \A k \in 1..Len(c) : c[k] = 1

\* The ends of a platform's pipeline.
Ends == {"refused", "rejected", "exhausted", "delivered"}

\* What holds of one message at every stage: its pipeline p, its chat c, its
\* health observations h, what its sender saw s, and whether its handler ran.
Sound(p, c, h, s, ran) ==
  /\ p \in Pipes /\ c \in Seq(Nat) /\ h \in SUBSET Reasons /\ s \in Answers
  /\ p.at \in Early => /\ p.text = "none" /\ p.end = "none"
                       /\ p.chunk = 1 /\ p.via = "platform" /\ c = <<>>
  /\ p.at = "reply" => /\ p.end = "none" /\ setting.kind \in Delivery!Platforms
                       /\ p.chunk \in 1..setting.chunks /\ Continues(p, c)
  /\ "success" \in h => ran /\ p.text = "answer"
  /\ setting.kind \notin Delivery!Platforms /\ s = "2xx" => p.text = "answer"
  /\ p.end \in {"rejected", "exhausted"} => "CallbackRejected" \in h
  /\ InOrder(c)
  /\ p.end = "delivered" => c # <<>>
  /\ p.end = "delivered" /\ p.text = "answer" => c[Len(c)] = setting.chunks
  /\ p.at = "done" /\ setting.kind \in Delivery!Platforms => p.end \in Ends

DeliveryInv ==
  /\ RuntimeInv
  /\ setting \in Settings
  /\ pipe \in [Ids -> Pipes] /\ chat \in [Ids -> Seq(Nat)]
  /\ health \in [Ids -> SUBSET Reasons] /\ told \in [Ids -> Answers]
  /\ \A id \in Ids : Sound(pipe[id], chat[id], health[id], told[id], Ran(id))

\* What every step keeps of the agent's side.
RuntimeGrows == RuntimeInv' /\ \A id \in Ids : Ran(id) => Ran(id)'

LEMMA Counted == ASSUME NEW p \in Pipes PROVE p.tries + 1 \in Nat /\ p.age + 1 \in Nat
BY DEF Pipes

LEMMA SameExcept ==
  ASSUME NEW S, NEW T, NEW f \in [S -> T], NEW x \in S
  PROVE  f = [f EXCEPT ![x] = f[x]]
OBVIOUS

\* A step for one message leaves the others as they are.
LEMMA OneMessage ==
  ASSUME DeliveryInv, RuntimeGrows, setting' = setting, NEW id \in Ids, NEW p, NEW c, NEW h, NEW s,
         pipe' = [pipe EXCEPT ![id] = p], chat' = [chat EXCEPT ![id] = c],
         health' = [health EXCEPT ![id] = h], told' = [told EXCEPT ![id] = s],
         Sound(p, c, h, s, Ran(id)')
  PROVE  DeliveryInv'
<1>1. p \in Pipes /\ c \in Seq(Nat) /\ h \in SUBSET Reasons /\ s \in Answers
  BY Zenon DEF Sound
<1>2. /\ pipe' \in [Ids -> Pipes] /\ chat' \in [Ids -> Seq(Nat)]
      /\ health' \in [Ids -> SUBSET Reasons] /\ told' \in [Ids -> Answers]
  BY <1>1 DEF DeliveryInv
<1>3. pipe'[id] = p /\ chat'[id] = c /\ health'[id] = h /\ told'[id] = s
  BY DEF DeliveryInv
<1>4. Sound(pipe[id], chat[id], health[id], told[id], Ran(id))'
  BY <1>3, ZenonT(60) DEF Sound, Continues, Delivery!Platforms
<1>5. ASSUME NEW j \in Ids, j # id
      PROVE  Sound(pipe[j], chat[j], health[j], told[j], Ran(j))'
  <2>1. /\ pipe'[j] = pipe[j] /\ chat'[j] = chat[j] /\ health'[j] = health[j] /\ told'[j] = told[j]
        /\ (Ran(j) => Ran(j)')
    BY <1>5 DEF DeliveryInv, RuntimeGrows
  <2>2. Sound(pipe[j], chat[j], health[j], told[j], Ran(j))
    BY Zenon DEF DeliveryInv
  <2>3. QED
    BY ZenonT(60), <2>1, <2>2 DEF Sound, Continues, Delivery!Platforms
<1>6. QED
  BY <1>2, <1>4, <1>5, Zenon DEF DeliveryInv, RuntimeGrows

\* What the health of a message becomes.
Observed(id, reasons) == health[id] \cup IF setting.kind = "console" THEN {} ELSE reasons

\* wakeAndDeliver has returned: a success is observed only with the answer of a
\* handler that ran.
LEMMA DeliverKeeps ==
  ASSUME DeliveryInv, RuntimeGrows, Delivery!ChannelDeliveryAssumption,
         NEW id \in Ids, pipe[id].at \in Early,
         NEW text \in {"answer", "error"}, NEW reasons \in SUBSET Reasons,
         "success" \in reasons => text = "answer" /\ Ran(id)',
         Delivery!Deliver(id, text, reasons), UNCHANGED <<setting, chat>>
  PROVE  DeliveryInv'
<1>1. Sound(pipe[id], chat[id], health[id], told[id], Ran(id))
  BY Zenon DEF DeliveryInv
<1>2. /\ pipe[id] \in Pipes /\ chat[id] = <<>> /\ pipe[id].text = "none" /\ pipe[id].end = "none"
      /\ pipe[id].chunk = 1 /\ pipe[id].via = "platform" /\ "success" \notin health[id]
  BY ZenonT(60), <1>1 DEF Sound
<1>3. 1 \in 1..setting.chunks /\ <<>> \in Seq(Nat) /\ told[id] \in Answers
  BY DEF DeliveryInv, Delivery!ChannelDeliveryAssumption
<1> DEFINE h == Observed(id, reasons)
           d == [pipe[id] EXCEPT !.at = "reply", !.tries = 0, !.text = text]
<1>4. health' = [health EXCEPT ![id] = h] /\ chat' = [chat EXCEPT ![id] = <<>>]
  BY ZenonT(60), <1>2 DEF Delivery!Deliver, Delivery!Observe, Observed, DeliveryInv
<1>5. h \in SUBSET Reasons /\ ("success" \in h => text = "answer" /\ Ran(id)')
  BY Zenon, <1>1, <1>2 DEF Sound, Observed
<1> HIDE DEF h
<1>6. CASE setting.kind \in Delivery!Platforms
  <2>1. pipe' = [pipe EXCEPT ![id] = d] /\ told' = [told EXCEPT ![id] = told[id]]
    BY <1>6 DEF Delivery!Deliver, Delivery!Move, Delivery!Dispatch, DeliveryInv
  <2>2. /\ d \in Pipes /\ d.at = "reply" /\ d.end = "none" /\ d.chunk = 1 /\ d.via = "platform"
        /\ d.text = text
    BY Zenon, <1>2 DEF Pipes
  <2> HIDE DEF d
  <2>3. InOrder(<<>>) /\ Continues(d, <<>>)
    BY <2>2 DEF InOrder, Continues
  <2>4. Sound(d, <<>>, h, told[id], Ran(id)')
    BY <1>1, <1>3, <1>5, <1>6, <2>2, <2>3, ZenonT(30) DEF Sound, Early
  <2>5. QED
    BY Zenon, <1>4, <2>1, <2>4, OneMessage
<1>7. CASE setting.kind \notin Delivery!Platforms
  <2>1. PICK end \in {"200", "deadline", "error"}, s \in Answers :
          /\ pipe' = [pipe EXCEPT ![id] = [d EXCEPT !.at = "done", !.end = end]]
          /\ told' = [told EXCEPT ![id] = s]
          /\ s = "2xx" => text = "answer"
    <3> DEFINE end == IF text = "answer" THEN "200"
                      ELSE IF Delivery!Expired(id) THEN "deadline" ELSE "error"
    <3>1. end \in {"200", "deadline", "error"}
      OBVIOUS
    <3>2. pipe' = [pipe EXCEPT ![id] = [d EXCEPT !.at = "done", !.end = end]]
      BY Zenon, <1>7 DEF Delivery!Deliver, Delivery!Move, Delivery!Dispatch
    <3>3. PICK s \in Answers : told' = [told EXCEPT ![id] = s] /\ (s = "2xx" => text = "answer")
      <4>1. CASE told[id] = "waiting"
        BY Zenon, <1>7, <4>1 DEF Delivery!Deliver, Delivery!Answer, Answers
      <4>2. CASE told[id] # "waiting"
        <5>1. told' = [told EXCEPT ![id] = told[id]]
          BY ZenonT(60), <1>7, <4>2 DEF Delivery!Deliver, DeliveryInv
        <5>2. told[id] = "2xx" => text = "answer"
          BY <1>1, <1>2, <1>7 DEF Sound
        <5>3. QED
          BY <1>3, <5>1, <5>2, Zenon
      <4>3. QED
        BY <4>1, <4>2
    <3> HIDE DEF end
    <3>4. QED
      BY <3>1, <3>2, <3>3, Zenon
  <2> DEFINE e == [d EXCEPT !.at = "done", !.end = end]
  <2>2. e \in Pipes /\ e.at = "done" /\ e.end = end /\ e.text = text
    BY Zenon, <1>2 DEF Pipes
  <2> HIDE DEF e
  <2>3. InOrder(<<>>)
    BY DEF InOrder
  <2>4. Sound(e, <<>>, h, s, Ran(id)')
    BY <1>5, <1>7, <2>1, <2>2, <2>3 DEF Sound, Early
  <2>5. QED
    BY Zenon, <1>4, <2>1, <2>4, OneMessage DEF e
<1>8. QED
  BY <1>6, <1>7

\* A failed attempt is followed by the next one, or by an error.
LEMMA AttemptFailedKeeps ==
  ASSUME DeliveryInv, RuntimeGrows, Delivery!ChannelDeliveryAssumption,
         NEW id \in Ids, pipe[id].at \in Early, Delivery!AttemptFailed(id),
         UNCHANGED <<setting, chat>>
  PROVE  DeliveryInv'
<1>1. CASE Delivery!Deliver(id, "error", {"DispatchFailed"})
  BY <1>1, DeliverKeeps DEF Reasons
<1>2. CASE /\ Delivery!Move(id, [pipe[id] EXCEPT !.at = "deliver", !.tries = @ + 1])
           /\ UNCHANGED <<health, told, lost>>
  <2> DEFINE p == [pipe[id] EXCEPT !.at = "deliver", !.tries = @ + 1]
  <2>1. Sound(pipe[id], chat[id], health[id], told[id], Ran(id))
    BY Zenon DEF DeliveryInv
  <2>2. /\ p \in Pipes /\ p.at = "deliver" /\ p.text = pipe[id].text /\ p.end = pipe[id].end
        /\ p.chunk = pipe[id].chunk /\ p.via = pipe[id].via
    <3>1. pipe[id] \in Pipes
      BY <2>1 DEF Sound
    <3>2. pipe[id].tries + 1 \in Nat
      BY Zenon, <3>1, Counted
    <3>3. \A n \in Nat : LET q == [pipe[id] EXCEPT !.at = "deliver", !.tries = n]
                         IN  /\ q \in Pipes /\ q.at = "deliver" /\ q.text = pipe[id].text
                             /\ q.end = pipe[id].end /\ q.chunk = pipe[id].chunk
                             /\ q.via = pipe[id].via
      BY Zenon, <3>1 DEF Pipes, Early
    <3>4. QED
      BY <3>2, <3>3, Zenon
  <2>3. /\ pipe' = [pipe EXCEPT ![id] = p] /\ chat' = [chat EXCEPT ![id] = chat[id]]
        /\ health' = [health EXCEPT ![id] = health[id]] /\ told' = [told EXCEPT ![id] = told[id]]
    BY <1>2 DEF Delivery!Move, DeliveryInv
  <2> HIDE DEF p
  <2>4. Sound(p, chat[id], health[id], told[id], Ran(id)')
    BY Zenon, <2>1, <2>2 DEF Sound, RuntimeGrows, Early
  <2>5. QED
    BY Zenon, <2>3, <2>4, OneMessage
<1>3. QED
  BY <1>1, <1>2, Zenon DEF Delivery!AttemptFailed

LEMMA RepliedKeeps ==
  ASSUME DeliveryInv, RuntimeGrows, Delivery!ChannelDeliveryAssumption,
         NEW id \in Ids, pipe[id].at \in Early, Ran(id)', Delivery!Replied(id),
         UNCHANGED <<setting, chat>>
  PROVE  DeliveryInv'
<1>1. CASE Delivery!Deliver(id, "answer", {"success"})
  BY <1>1, DeliverKeeps DEF Reasons
<1>2. CASE Delivery!Deliver(id, "error", {})
  BY <1>2, DeliverKeeps
<1>3. QED
  BY <1>1, <1>2, AttemptFailedKeeps, Zenon DEF Delivery!Replied, Delivery!Success

LEMMA LastIndex == ASSUME NEW c \in Seq(Nat), c # <<>> PROVE Len(c) \in 1..Len(c)
OBVIOUS

\* A chat that is in order stays so when a chunk that continues it is appended.
LEMMA AppendedInOrder ==
  ASSUME NEW old \in Seq(Nat), InOrder(old), NEW n \in Nat \ {0}, old = <<>> => n = 1,
         old # <<>> => n \in {1, old[Len(old)], old[Len(old)] + 1}
  PROVE  LET new == Append(old, n)
         IN  /\ new \in Seq(Nat) /\ new # <<>> /\ new[Len(new)] = n /\ InOrder(new)
             /\ (\A k \in 1..Len(old) : old[k] = 1) /\ n = 1 => \A k \in 1..Len(new) : new[k] = 1
<1> DEFINE new == Append(old, n)
           last == Len(old)
<1>1. /\ new \in Seq(Nat) /\ Len(new) = last + 1 /\ new[last + 1] = n
      /\ \A k \in 1..last : new[k] = old[k]
  OBVIOUS
<1>2. last \in Nat /\ (old = <<>> <=> last = 0)
  OBVIOUS
<1> HIDE DEF new, last
<1>3. new[1] = 1
  <2>1. CASE last = 0
    BY <1>1, <1>2, <2>1
  <2>2. CASE last # 0
    BY <1>1, <1>2, <2>2 DEF InOrder
  <2>3. QED
    BY <2>1, <2>2
<1>4. ASSUME NEW k \in 1..Len(new) - 1
      PROVE  new[k + 1] \in {1, new[k], new[k] + 1}
  <2>1. k \in 1..last
    BY <1>1, <1>2
  <2>2. CASE k = last
    BY <1>1, <1>2, <2>1, <2>2 DEF last
  <2>3. CASE k # last
    <3>1. k \in 1..last - 1 /\ k + 1 \in 1..last
      BY <1>2, <2>1, <2>3
    <3>2. old[k + 1] \in {1, old[k], old[k] + 1}
      BY <3>1 DEF InOrder, last
    <3>3. QED
      BY Zenon, <1>1, <2>1, <3>1, <3>2
  <2>4. QED
    BY <2>2, <2>3
<1>5. InOrder(new)
  BY <1>3, <1>4, Zenon DEF InOrder
<1>6. (\A k \in 1..last : old[k] = 1) /\ n = 1 => \A k \in 1..Len(new) : new[k] = 1
  <2>1. \A k \in 1..Len(new) : k \in 1..last \/ k = last + 1
    BY <1>1, <1>2
  <2>2. QED
    BY <1>1, <2>1, Zenon
<1>7. new # <<>> /\ new[Len(new)] = n
  BY <1>1, <1>2
<1>8. QED
  BY <1>1, <1>5, <1>6, <1>7 DEF new, last

\* Where a chunk lands, the chat goes on in order and ends with it.
LEMMA LandedInOrder ==
  ASSUME NEW id \in Ids, chat[id] \in Seq(Nat), InOrder(chat[id]),
         Continues(pipe[id], chat[id]), pipe[id].chunk \in Nat \ {0}
  PROVE  LET c == Delivery!Landed(id)
         IN  /\ c \in Seq(Nat) /\ c # <<>> /\ c[Len(c)] = pipe[id].chunk /\ InOrder(c)
             /\ Continues(pipe[id], c)
<1> DEFINE p == pipe[id]
           old == chat[id]
           c == Delivery!Landed(id)
<1>1. CASE c = old /\ p.via = "platform" /\ p.chunk = 1 /\ p.chunk \in Delivery!Range(old)
  <2>1. old # <<>> /\ \A k \in 1..Len(old) : old[k] = 1
    BY <1>1 DEF Continues, Delivery!Range
  <2>2. Len(old) \in 1..Len(old)
    BY <2>1, LastIndex, Zenon
  <2>3. QED
    BY Zenon, <1>1, <2>1, <2>2
<1>2. CASE c = Append(old, p.chunk)
  <2> DEFINE new == Append(old, p.chunk)
  <2>1. /\ new \in Seq(Nat) /\ new # <<>> /\ new[Len(new)] = p.chunk /\ InOrder(new)
        /\ (\A k \in 1..Len(old) : old[k] = 1) /\ p.chunk = 1 => \A k \in 1..Len(new) : new[k] = 1
    BY Zenon, AppendedInOrder DEF Continues
  <2> HIDE DEF new
  <2>2. Continues(p, new)
    BY <2>1 DEF Continues
  <2>3. QED
    BY Zenon, <1>2, <2>1, <2>2 DEF new
<1>3. QED
  BY ZenonT(30), <1>1, <1>2 DEF Delivery!Landed

\* replyRefused leaves its mark on the health of the channel.
LEMMA RefusedKeeps ==
  ASSUME DeliveryInv, RuntimeGrows, NEW id \in Ids, pipe[id].at = "reply",
         NEW how \in {"rejected", "exhausted"}, Delivery!Refused(id, how),
         NEW c \in Seq(Nat), InOrder(c), chat' = [chat EXCEPT ![id] = c],
         UNCHANGED <<setting, told>>
  PROVE  DeliveryInv'
<1> DEFINE p == [pipe[id] EXCEPT !.at = "done", !.end = how]
           h == Observed(id, {"CallbackRejected"})
<1>1. Sound(pipe[id], chat[id], health[id], told[id], Ran(id))
  BY Zenon DEF DeliveryInv
<1>2. p \in Pipes /\ p.at = "done" /\ p.end = how /\ p.text = pipe[id].text
  <2>1. pipe[id] \in Pipes
    BY Zenon, <1>1 DEF Sound
  <2>2. QED
    BY ZenonT(30), <2>1 DEF Pipes
<1>3. h = health[id] \cup {"CallbackRejected"}
  BY Zenon, <1>1 DEF Sound, Observed, Delivery!Platforms
<1>4. /\ pipe' = [pipe EXCEPT ![id] = p] /\ health' = [health EXCEPT ![id] = h]
      /\ told' = [told EXCEPT ![id] = told[id]]
  BY Zenon DEF Delivery!Refused, Delivery!Move, Delivery!Observe, Observed, DeliveryInv
<1> HIDE DEF p, h
<1>5. Sound(p, c, h, told[id], Ran(id)')
  BY Zenon, <1>1, <1>2, <1>3 DEF Sound, RuntimeGrows, Reasons, Early, Ends
<1>6. QED
  BY Zenon, <1>4, <1>5, OneMessage

\* What a step of a reply leaves alone.
OnlyReply == UNCHANGED <<setting, health, told>>

\* The reply goes on, with the next chunk, another attempt or the bot.
LEMMA ReplyGoesOn ==
  ASSUME DeliveryInv, RuntimeGrows, NEW id \in Ids, pipe[id].at = "reply",
         NEW p \in Pipes, p.at = "reply", p.text = pipe[id].text, p.end = "none",
         p.chunk \in 1..setting.chunks, pipe' = [pipe EXCEPT ![id] = p],
         NEW c \in Seq(Nat), InOrder(c), Continues(p, c), chat' = [chat EXCEPT ![id] = c],
         OnlyReply
  PROVE  DeliveryInv'
<1>1. Sound(pipe[id], chat[id], health[id], told[id], Ran(id))
  BY Zenon DEF DeliveryInv
<1>2. PICK h, s : /\ h = health[id] /\ health' = [health EXCEPT ![id] = h]
                  /\ s = told[id] /\ told' = [told EXCEPT ![id] = s]
                  /\ setting' = setting
  BY DEF DeliveryInv, OnlyReply
<1>3. Sound(p, c, h, s, Ran(id)')
  BY <1>1, <1>2 DEF Sound, RuntimeGrows, Early
<1>4. QED
  BY Zenon, <1>2, <1>3, OneMessage

\* The last chunk has landed: the whole reply is in the chat.
LEMMA ReplyIsThere ==
  ASSUME DeliveryInv, RuntimeGrows, NEW id \in Ids, pipe[id].at = "reply",
         pipe' = [pipe EXCEPT ![id] = [pipe[id] EXCEPT !.at = "done", !.end = "delivered"]],
         NEW c \in Seq(Nat), InOrder(c), chat' = [chat EXCEPT ![id] = c],
         c # <<>>, pipe[id].text = "answer" => c[Len(c)] = setting.chunks,
         OnlyReply
  PROVE  DeliveryInv'
<1> DEFINE p == [pipe[id] EXCEPT !.at = "done", !.end = "delivered"]
<1>1. Sound(pipe[id], chat[id], health[id], told[id], Ran(id))
  BY Zenon DEF DeliveryInv
<1>2. p \in Pipes /\ p.at = "done" /\ p.end = "delivered" /\ p.text = pipe[id].text
  <2>1. pipe[id] \in Pipes
    BY <1>1 DEF Sound
  <2>2. QED
    BY Zenon, <2>1 DEF Pipes
<1>3. PICK h, s : /\ h = health[id] /\ health' = [health EXCEPT ![id] = h]
                  /\ s = told[id] /\ told' = [told EXCEPT ![id] = s]
                  /\ setting' = setting
  BY DEF DeliveryInv, OnlyReply
<1>4. pipe' = [pipe EXCEPT ![id] = p]
  OBVIOUS
<1> HIDE DEF p
<1>5. Sound(p, c, h, s, Ran(id)')
  BY <1>1, <1>2, <1>3 DEF Sound, RuntimeGrows, Early, Ends
<1>6. QED
  BY Zenon, <1>3, <1>4, <1>5, OneMessage

LEMMA SendReplyKeeps ==
  ASSUME DeliveryInv, RuntimeGrows, Delivery!ChannelDeliveryAssumption,
         NEW id \in Ids, Delivery!SendReply(id)
  PROVE  DeliveryInv'
<1> DEFINE p == pipe[id]
           c == chat[id]
           l == Delivery!Landed(id)
<1>1. p.at = "reply" /\ UNCHANGED <<setting, told>>
  BY Zenon DEF Delivery!SendReply
<1>2. Sound(p, c, health[id], told[id], Ran(id))
  BY Zenon DEF DeliveryInv
<1>3. /\ p \in Pipes /\ c \in Seq(Nat) /\ InOrder(c) /\ Continues(p, c) /\ p.end = "none"
      /\ p.chunk \in 1..setting.chunks
  BY Zenon, <1>1, <1>2 DEF Sound
<1>4. setting.chunks \in Nat
  BY Zenon DEF DeliveryInv, Delivery!ChannelDeliveryAssumption
<1>5. p.chunk \in Nat \ {0} /\ p.chunk <= setting.chunks
  <2>1. \A n \in Nat : \A k \in 1..n : k \in Nat \ {0} /\ k <= n
    OBVIOUS
  <2>2. QED
    BY <1>3, <1>4, <2>1, Zenon
<1>6. /\ l \in Seq(Nat) /\ l # <<>> /\ l[Len(l)] = p.chunk /\ InOrder(l) /\ Continues(p, l)
  BY <1>3, <1>5, LandedInOrder, Zenon
<1>7. chat \in [Ids -> Seq(Nat)]
  BY DEF DeliveryInv
<1>8. ASSUME NEW d \in Seq(Nat), InOrder(d), Continues(p, d), chat' = [chat EXCEPT ![id] = d],
             Delivery!Retried(id)
      PROVE  DeliveryInv'
  <2>1. CASE Delivery!Refused(id, "exhausted")
    BY Zenon, <1>1, <1>8, <2>1, RefusedKeeps
  <2>2. CASE Delivery!Move(id, [pipe[id] EXCEPT !.tries = @ + 1]) /\ UNCHANGED health
    <3> DEFINE q == [p EXCEPT !.tries = p.tries + 1]
    <3>1. pipe' = [pipe EXCEPT ![id] = q]
      BY Zenon, <2>2 DEF Delivery!Move
    <3>2. p.tries + 1 \in Nat
      BY Zenon, <1>3, Counted
    <3>3. \A n \in Nat : LET r == [p EXCEPT !.tries = n]
                         IN  /\ r \in Pipes /\ r.at = p.at /\ r.text = p.text /\ r.end = p.end
                             /\ r.chunk = p.chunk /\ r.via = p.via
      BY Zenon, <1>3 DEF Pipes
    <3>4. /\ q \in Pipes /\ q.at = p.at /\ q.text = p.text /\ q.end = p.end
          /\ q.chunk = p.chunk /\ q.via = p.via
      BY ZenonT(60), <3>2, <3>3
    <3> HIDE DEF q
    <3>5. Continues(q, d)
      BY ZenonT(60), <1>8, <3>4 DEF Continues
    <3>6. QED
      BY Zenon, <1>1, <1>3, <1>8, <2>2, <3>1, <3>4, <3>5, ReplyGoesOn DEF OnlyReply
  <2>3. QED
    BY <1>8, <2>1, <2>2, Zenon DEF Delivery!Retried
<1>9. CASE Delivery!ChunkDelivered(id)
  <2>1. chat' = [chat EXCEPT ![id] = l] /\ UNCHANGED health
    BY Zenon, <1>9 DEF Delivery!ChunkDelivered
  <2>2. CASE p.chunk < setting.chunks /\ p.text = "answer"
    <3> DEFINE q == [p EXCEPT !.chunk = p.chunk + 1, !.tries = 0]
    <3>1. pipe' = [pipe EXCEPT ![id] = q]
      BY Zenon, <1>9, <2>2 DEF Delivery!ChunkDelivered, Delivery!Move
    <3>2. p.chunk + 1 \in 1..setting.chunks /\ p.chunk + 1 \in Nat /\ p.chunk + 1 # 1
      <4>1. \A n, m \in Nat : n < m /\ n # 0 => n + 1 \in 1..m /\ n + 1 \in Nat /\ n + 1 # 1
        OBVIOUS
      <4>2. QED
        BY Zenon, <1>4, <1>5, <2>2, <4>1
    <3>3. \A n \in Nat : LET r == [p EXCEPT !.chunk = n, !.tries = 0]
                         IN  /\ r \in Pipes /\ r.at = p.at /\ r.text = p.text /\ r.end = p.end
                             /\ r.chunk = n
      BY Zenon, <1>3 DEF Pipes
    <3>4. /\ q \in Pipes /\ q.at = p.at /\ q.text = p.text /\ q.end = p.end
          /\ q.chunk = p.chunk + 1
      BY <3>2, <3>3, Zenon
    <3> HIDE DEF q
    <3>5. Continues(q, l) /\ q.chunk \in 1..setting.chunks
      BY <1>6, <3>2, <3>4, Zenon DEF Continues
    <3>6. QED
      BY ZenonT(30), <1>1, <1>3, <1>6, <2>1, <3>1, <3>4, <3>5, ReplyGoesOn DEF OnlyReply
  <2>3. CASE ~(p.chunk < setting.chunks /\ p.text = "answer")
    <3>1. pipe' = [pipe EXCEPT ![id] = [pipe[id] EXCEPT !.at = "done", !.end = "delivered"]]
      BY Zenon, <1>9, <2>3 DEF Delivery!ChunkDelivered, Delivery!Move
    <3>2. p.text = "answer" => p.chunk = setting.chunks
      <4>1. \A n, m \in Nat : n <= m /\ ~(n < m) => n = m
        OBVIOUS
      <4>2. QED
        BY Zenon, <1>4, <1>5, <2>3, <4>1
    <3>3. QED
      BY Zenon, <1>1, <1>6, <2>1, <3>1, <3>2, ReplyIsThere DEF OnlyReply
  <2>4. QED
    BY <2>2, <2>3
<1>10. ASSUME chat' = [chat EXCEPT ![id] = c], Delivery!Refused(id, "rejected")
      PROVE  DeliveryInv'
  BY Zenon, <1>1, <1>3, <1>10, RefusedKeeps
<1>11. CASE UNCHANGED chat
  <2>1. chat' = [chat EXCEPT ![id] = c]
    BY <1>7, <1>11
  <2>2. CASE Delivery!SendViaBot(id)
    <3>1. CASE Delivery!Move(id, [pipe[id] EXCEPT !.via = "bot", !.tries = 0]) /\ UNCHANGED health
      <4> DEFINE q == [p EXCEPT !.via = "bot", !.tries = 0]
      <4>1. pipe' = [pipe EXCEPT ![id] = q] /\ p.chunk = 1
        BY <2>2, <3>1 DEF Delivery!Move, Delivery!SendViaBot
      <4>2. /\ q \in Pipes /\ q.at = p.at /\ q.text = p.text /\ q.end = p.end /\ q.chunk = p.chunk
            /\ q.via = "bot"
        BY ZenonT(60), <1>3 DEF Pipes
      <4> HIDE DEF q
      <4>3. Continues(q, c)
        BY Zenon, <4>1, <4>2 DEF Continues
      <4>4. QED
        BY Zenon, <1>1, <1>3, <2>1, <3>1, <4>1, <4>2, <4>3, ReplyGoesOn DEF OnlyReply
    <3>2. QED
      BY <1>10, <2>1, <2>2, <3>1, Zenon DEF Delivery!SendViaBot
  <2>3. QED
    BY <1>3, <1>8, <1>9, <1>10, <1>11, <2>1, <2>2, Zenon DEF Delivery!SendReply
<1>12. CASE chat' = [chat EXCEPT ![id] = l] /\ Delivery!Retried(id)
  BY ZenonT(30), <1>6, <1>8, <1>12
<1>13. QED
  BY <1>9, <1>11, <1>12, Zenon DEF Delivery!SendReply, Delivery!SendViaBot

\* An event that leaves the new state, refused, accepted or answered without an
\* agent: nothing has happened yet, so nothing is recorded as a success.
LEMMA InboundKeeps ==
  ASSUME DeliveryInv, RuntimeGrows, Delivery!ChannelDeliveryAssumption, NEW id \in Ids,
         Delivery!Refuse(id) \/ Delivery!Accept(id) \/ Delivery!AcceptWithoutAgent(id)
  PROVE  DeliveryInv'
<1>1. Sound(pipe[id], chat[id], health[id], told[id], Ran(id))
  BY Zenon DEF DeliveryInv
<1>2. /\ pipe[id].at = "new" /\ UNCHANGED <<setting, chat>>
  BY Zenon DEF Delivery!Refuse, Delivery!Accept, Delivery!AcceptWithoutAgent, Delivery!Due
<1>3. /\ chat[id] = <<>> /\ health[id] \in SUBSET Reasons /\ told[id] \in Answers
      /\ "success" \notin health[id] /\ InOrder(<<>>) /\ <<>> \in Seq(Nat)
  BY Zenon, <1>1, <1>2 DEF Sound, Early
<1>4. /\ setting' = setting /\ chat' = [chat EXCEPT ![id] = <<>>]
      /\ setting.chunks \in Nat \ {0}
      /\ setting.kind \in Delivery!Platforms \cup {"webhook", "console"}
  BY <1>2, <1>3 DEF DeliveryInv, Delivery!ChannelDeliveryAssumption
<1>5. CASE Delivery!Refuse(id)
  <2> DEFINE p == [Delivery!NewPipe EXCEPT !.at = "done", !.end = "refused"]
  <2>1. PICK r \in Delivery!Refusals(setting.kind) :
          /\ Delivery!Observe(id, r.health)
          /\ Delivery!Answer(id, IF r.ok THEN "2xx" ELSE "error")
    BY <1>5 DEF Delivery!Refuse
  <2>2. /\ r.health \in SUBSET (Reasons \ {"success"})
        /\ r.ok \in BOOLEAN /\ (r.ok => setting.kind \in Delivery!Platforms)
    <3>1. \E ok \in BOOLEAN, seen \in {{}, {"WebhookAuthFailed"}, {"AgentNotReady"}} :
            r = [ok |-> ok, health |-> seen] /\ (ok => setting.kind \in Delivery!Platforms)
      <4> USE DEF Delivery!Refusals, Delivery!Refusal
      <4>1. CASE setting.kind = "console"
        BY Zenon, <4>1 DEF Delivery!TestChatRefusals
      <4>2. CASE setting.kind = "webhook"
        BY Zenon, <4>2 DEF Delivery!WebhookRefusals
      <4>3. CASE setting.kind \in {"discord", "whatsapp"}
        BY ZenonT(30), <4>3 DEF Delivery!DiscordRefusals, Delivery!WhatsAppRefusals, Delivery!Platforms
      <4>4. QED
        BY <1>4, <4>1, <4>2, <4>3 DEF Delivery!Platforms
    <3>2. QED
      BY <3>1 DEF Reasons
  <2> DEFINE h == Observed(id, r.health)
  <2>3. health' = [health EXCEPT ![id] = h]
    BY Zenon, <2>1 DEF Delivery!Observe, Observed
  <2>4. h \in SUBSET Reasons /\ "success" \notin h
    BY ZenonT(60), <1>3, <2>2 DEF Observed
  <2>5. PICK s \in Answers : /\ told' = [told EXCEPT ![id] = s]
                             /\ s = "2xx" => setting.kind \in Delivery!Platforms
    BY Zenon, <2>1, <2>2 DEF Delivery!Answer, Answers
  <2>6. p \in Pipes /\ p.at = "done" /\ p.end = "refused" /\ p.text = "none"
    BY Zenon DEF Pipes, Delivery!NewPipe
  <2>7. pipe' = [pipe EXCEPT ![id] = p]
    BY <1>5 DEF Delivery!Refuse, Delivery!Move
  <2> HIDE DEF p, h
  <2>8. Sound(p, <<>>, h, s, Ran(id)')
    BY <1>3, <2>4, <2>5, <2>6, ZenonT(30) DEF Sound, Early, Ends
  <2>9. QED
    BY <1>4, <2>3, <2>5, <2>7, <2>8, OneMessage, Zenon
<1>6. CASE Delivery!Accept(id)
  <2> DEFINE p == [Delivery!NewPipe EXCEPT !.at = IF setting.asleep THEN "wake" ELSE "deliver"]
  <2>1. /\ pipe' = [pipe EXCEPT ![id] = p] /\ health' = [health EXCEPT ![id] = health[id]]
    BY <1>6 DEF Delivery!Accept, Delivery!Move, DeliveryInv
  <2>2. PICK s \in Answers : /\ told' = [told EXCEPT ![id] = s]
                             /\ s = "2xx" => setting.kind \in Delivery!Platforms
    BY <1>6 DEF Delivery!Accept, Delivery!Answer, Answers
  <2>3. /\ p \in Pipes /\ p.at \in Early /\ p.end = "none" /\ p.text = "none" /\ p.chunk = 1
        /\ p.via = "platform"
    BY ZenonT(60) DEF Pipes, Delivery!NewPipe, Early
  <2> HIDE DEF p
  <2>4. Sound(p, <<>>, health[id], s, Ran(id)')
    BY Zenon, <1>3, <2>2, <2>3 DEF Sound, Early
  <2>5. QED
    BY <1>4, <2>1, <2>2, <2>4, OneMessage, Zenon
<1>7. CASE Delivery!AcceptWithoutAgent(id)
  <2> DEFINE p == [Delivery!NewPipe EXCEPT !.at = "reply", !.text = "error"]
             h == Observed(id, {"AgentNotReady"})
  <2>1. /\ pipe' = [pipe EXCEPT ![id] = p] /\ health' = [health EXCEPT ![id] = h]
        /\ setting.kind \in Delivery!Platforms
    BY <1>7 DEF Delivery!AcceptWithoutAgent, Delivery!Move, Delivery!Observe, Observed
  <2>2. PICK s \in Answers : told' = [told EXCEPT ![id] = s]
    BY <1>7 DEF Delivery!AcceptWithoutAgent, Delivery!Answer, Answers
  <2>3. /\ p \in Pipes /\ p.at = "reply" /\ p.end = "none" /\ p.text = "error" /\ p.chunk = 1
        /\ p.via = "platform"
    BY ZenonT(60) DEF Pipes, Delivery!NewPipe
  <2>4. h \in SUBSET Reasons /\ "success" \notin h
    BY ZenonT(60), <1>3 DEF Observed, Reasons
  <2> HIDE DEF p, h
  <2>5. Continues(p, <<>>)
    BY <2>3 DEF Continues
  <2>6. Sound(p, <<>>, h, s, Ran(id)')
    BY <1>3, <1>4, <2>1, <2>2, <2>3, <2>4, <2>5 DEF Sound, Early
  <2>7. QED
    BY <1>4, <2>1, <2>2, <2>6, OneMessage, Zenon
<1>8. QED
  BY <1>5, <1>6, <1>7

\* A pipeline ages, or its stage moves on before there is a reply.
LEMMA MovesOn ==
  ASSUME DeliveryInv, RuntimeGrows, NEW id \in Ids, NEW p \in Pipes,
         p.at = pipe[id].at \/ (p.at \in Early /\ pipe[id].at \in Early),
         p.text = pipe[id].text, p.end = pipe[id].end, p.chunk = pipe[id].chunk,
         p.via = pipe[id].via, pipe' = [pipe EXCEPT ![id] = p],
         OnlyReply, chat' = chat
  PROVE  DeliveryInv'
<1>1. Sound(pipe[id], chat[id], health[id], told[id], Ran(id))
  BY Zenon DEF DeliveryInv
<1>2. PICK c, h, s : /\ c = chat[id] /\ chat' = [chat EXCEPT ![id] = c]
                     /\ h = health[id] /\ health' = [health EXCEPT ![id] = h]
                     /\ s = told[id] /\ told' = [told EXCEPT ![id] = s]
                     /\ setting' = setting
  <2>1. /\ chat \in [Ids -> Seq(Nat)] /\ health \in [Ids -> SUBSET Reasons]
        /\ told \in [Ids -> Answers]
    BY Zenon DEF DeliveryInv
  <2>2. /\ chat = [chat EXCEPT ![id] = chat[id]]
        /\ health = [health EXCEPT ![id] = health[id]]
        /\ told = [told EXCEPT ![id] = told[id]]
    BY <2>1, SameExcept, Zenon
  <2>3. setting' = setting /\ health' = health /\ told' = told
    BY Zenon DEF OnlyReply
  <2>4. QED
    BY <2>2, <2>3, Zenon
<1>3. Sound(p, c, h, s, Ran(id)')
  BY Zenon, <1>1, <1>2 DEF Sound, RuntimeGrows, Early, Continues
<1>4. QED
  BY <1>2, <1>3, OneMessage, Zenon

\* The sender of a message sees nothing of it, and its pipeline may be gone.
LEMMA LostToTheSender ==
  ASSUME DeliveryInv, RuntimeGrows, UNCHANGED <<setting, chat, health>>,
         pipe' \in [Ids -> Pipes], told' \in [Ids -> Answers],
         \A id \in Ids :
           /\ \/ pipe'[id] = pipe[id]
              \/ pipe'[id] = [pipe[id] EXCEPT !.age = Deadline]
              \/ /\ Delivery!Live(pipe[id])
                 /\ pipe'[id] = [pipe[id] EXCEPT !.at = "crashed"]
           /\ told'[id] = told[id] \/ told'[id] = "nothing"
  PROVE  DeliveryInv'
<1>1. ASSUME NEW id \in Ids
      PROVE  Sound(pipe[id], chat[id], health[id], told[id], Ran(id))'
  <2>1. Sound(pipe[id], chat[id], health[id], told[id], Ran(id))
    BY Zenon DEF DeliveryInv
  <2>2. /\ pipe'[id].text = pipe[id].text /\ pipe'[id].end = pipe[id].end
        /\ pipe'[id].chunk = pipe[id].chunk /\ pipe'[id].via = pipe[id].via
        /\ pipe'[id].at = pipe[id].at \/ pipe'[id].at = "crashed"
    <3>1. pipe[id] \in Pipes
      BY <2>1 DEF Sound
    <3>2. QED
      BY <3>1 DEF Pipes
  <2>3. (told'[id] = "2xx" => told[id] = "2xx") /\ (Ran(id) => Ran(id)')
    BY DEF RuntimeGrows
  <2>4. QED
    BY <2>1, <2>2, <2>3 DEF Sound, Early, Continues, Delivery!Platforms
<1>2. QED
  BY <1>1 DEF DeliveryInv, RuntimeGrows

LEMMA HandlerEndsKeeps ==
  ASSUME DeliveryInv, RuntimeGrows, Delivery!ChannelDeliveryAssumption, NEW id \in Ids, NEW n,
         Delivery!HandlerEnds(id, n)
  PROVE  DeliveryInv'
<1>1. UNCHANGED <<setting, chat>>
  BY Zenon DEF Delivery!HandlerEnds
<1>2. CASE pipe[id].at = "awaiting" /\ (Delivery!Replied(id) \/ Delivery!AttemptFailed(id))
  <2>1. <<id, n>> \in handling
    BY Zenon DEF Delivery!HandlerEnds, Delivery!HandlerReturns, Delivery!HandlerFails
  <2>2. Ran(id)'
    BY Zenon, <2>1 DEF DeliveryInv, RuntimeInv, RuntimeGrows
  <2>3. pipe[id].at \in Early
    BY Zenon, <1>2 DEF Early
  <2>4. QED
    BY <1>1, <1>2, <2>2, <2>3, RepliedKeeps, AttemptFailedKeeps, Zenon
<1>3. CASE UNCHANGED <<pipe, health, told, lost>>
  BY <1>1, <1>3, LostToTheSender DEF DeliveryInv
<1>4. QED
  BY <1>2, <1>3, Zenon DEF Delivery!HandlerEnds

LEMMA AttemptKeeps ==
  ASSUME DeliveryInv, RuntimeGrows, Delivery!ChannelDeliveryAssumption, NEW id \in Ids,
         Delivery!Attempt(id) \/ Delivery!AttemptTimesOut(id) \/ Delivery!Wake(id)
  PROVE  DeliveryInv'
<1>1. pipe[id].at \in Early /\ UNCHANGED <<setting, chat>>
  BY DEF Delivery!Attempt, Delivery!AttemptTimesOut, Delivery!Wake, Early
<1>2. CASE Delivery!Recall(id) /\ Delivery!Replied(id)
  <2>1. Ran(id)'
    BY ZenonT(60), <1>2 DEF Delivery!Recall, Delivery!Recalls, DeliveryInv, RuntimeInv, RuntimeGrows
  <2>2. QED
    BY ZenonT(60), <1>1, <1>2, <2>1, RepliedKeeps
<1>3. CASE Delivery!AttemptFailed(id)
  BY <1>1, <1>3, AttemptFailedKeeps
<1>4. CASE Delivery!Deliver(id, "error", {"AgentNotReady"}) \/ Delivery!Deliver(id, "error", {})
  BY <1>1, <1>4, DeliverKeeps DEF Reasons
<1>5. ASSUME NEW at \in {"deliver", "awaiting"}, Delivery!Move(id, [pipe[id] EXCEPT !.at = at]),
             UNCHANGED <<health, told, lost>>
      PROVE  DeliveryInv'
  <2> DEFINE p == [pipe[id] EXCEPT !.at = at]
  <2>1. pipe[id] \in Pipes
    BY DEF DeliveryInv
  <2>2. /\ p \in Pipes /\ p.at \in Early /\ p.text = pipe[id].text /\ p.end = pipe[id].end
        /\ p.chunk = pipe[id].chunk /\ p.via = pipe[id].via
    BY <2>1 DEF Pipes, Early
  <2>3. pipe' = [pipe EXCEPT ![id] = p] /\ OnlyReply /\ chat' = chat
    BY <1>1, <1>5 DEF Delivery!Move, OnlyReply
  <2> HIDE DEF p
  <2>4. QED
    BY <1>1, <2>2, <2>3, MovesOn, Zenon
<1>6. QED
  BY <1>2, <1>3, <1>4, <1>5, Zenon
     DEF Delivery!Attempt, Delivery!AttemptTimesOut, Delivery!Wake

LEMMA TickKeeps ==
  ASSUME DeliveryInv, RuntimeGrows, NEW id \in Ids, Delivery!Tick(id)
  PROVE  DeliveryInv'
<1> DEFINE p == [pipe[id] EXCEPT !.age = pipe[id].age + 1]
<1>1. pipe[id] \in Pipes
  BY DEF DeliveryInv
<1>2. pipe[id].age + 1 \in Nat
  BY Zenon, <1>1, Counted
<1>3. \A n \in Nat : LET q == [pipe[id] EXCEPT !.age = n]
                     IN  /\ q \in Pipes /\ q.at = pipe[id].at /\ q.text = pipe[id].text
                         /\ q.end = pipe[id].end /\ q.chunk = pipe[id].chunk
                         /\ q.via = pipe[id].via
  BY <1>1 DEF Pipes
<1>4. /\ p \in Pipes /\ p.at = pipe[id].at /\ p.text = pipe[id].text
      /\ p.end = pipe[id].end /\ p.chunk = pipe[id].chunk /\ p.via = pipe[id].via
  BY <1>2, <1>3, Zenon
<1>5. pipe' = [pipe EXCEPT ![id] = p] /\ OnlyReply /\ chat' = chat
  BY DEF Delivery!Tick, Delivery!Move, OnlyReply
<1> HIDE DEF p
<1>6. QED
  BY <1>4, <1>5, MovesOn, Zenon

LEMMA DeliveryKeeps ==
  ASSUME DeliveryInv, Delivery!ChannelDeliveryAssumption, [Delivery!Next]_(Delivery!vars)
  PROVE  DeliveryInv'
<1>1. RuntimeGrows
  BY Zenon, StepOfRuntime, RuntimeKeeps DEF DeliveryInv, RuntimeGrows, Delivery!ChannelDeliveryAssumption
<1>2. CASE \E id \in Ids : Delivery!SenderGivesUp(id)
  <2>1. PICK id \in Ids : Delivery!SenderGivesUp(id)
    BY <1>2
  <2>2. /\ told' \in [Ids -> Answers] /\ UNCHANGED <<setting, chat, health>>
        /\ \A j \in Ids : told'[j] = told[j] \/ told'[j] = "nothing"
    BY <2>1 DEF Delivery!SenderGivesUp, DeliveryInv, Answers
  <2>3. pipe[id] \in Pipes /\ [pipe[id] EXCEPT !.age = Deadline] \in Pipes
    BY ZenonT(60) DEF DeliveryInv, Pipes, Delivery!ChannelDeliveryAssumption
  <2>4. /\ pipe' \in [Ids -> Pipes]
        /\ \A j \in Ids : pipe'[j] = pipe[j] \/ pipe'[j] = [pipe[j] EXCEPT !.age = Deadline]
    <3>1. CASE UNCHANGED pipe
      BY <3>1 DEF DeliveryInv
    <3>2. CASE Delivery!Move(id, [pipe[id] EXCEPT !.age = Deadline])
      BY ZenonT(60), <2>3, <3>2 DEF Delivery!Move, DeliveryInv
    <3>3. QED
      BY <2>1, <3>1, <3>2 DEF Delivery!SenderGivesUp
  <2>5. QED
    BY <1>1, <2>2, <2>4, LostToTheSender
<1>3. CASE Delivery!Crash
  <2>1. pipe' \in [Ids -> Pipes]
    <3>1. \A id \in Ids : pipe[id] \in Pipes
      BY DEF DeliveryInv
    <3>2. \A id \in Ids : [pipe[id] EXCEPT !.at = "crashed"] \in Pipes
      BY <3>1 DEF Pipes
    <3>3. QED
      BY <1>3, <3>1, <3>2 DEF Delivery!Crash
  <2>2. told' \in [Ids -> Answers]
    BY <1>3 DEF Delivery!Crash, DeliveryInv, Answers
  <2>3. QED
    BY <1>1, <1>3, <2>1, <2>2, LostToTheSender DEF Delivery!Crash
<1>4. CASE UNCHANGED Delivery!gatewayVars
  BY <1>1, <1>4, LostToTheSender DEF Delivery!gatewayVars, DeliveryInv
<1>5. CASE Delivery!Restart \/ Delivery!DeliveryDone \/ UNCHANGED Delivery!vars
  BY <1>4, <1>5, Zenon DEF Delivery!Restart, Delivery!DeliveryDone, Delivery!vars
<1>6. QED
  BY <1>1, <1>2, <1>3, <1>5, InboundKeeps, AttemptKeeps, SendReplyKeeps, TickKeeps, HandlerEndsKeeps,
     Zenon DEF Delivery!Next

LEMMA DeliveryStarts ==
  ASSUME Delivery!Init
  PROVE  DeliveryInv
<1>1. Delivery!NewPipe \in Pipes
  BY DEF Delivery!NewPipe, Pipes, Early
<1>2. InOrder(<<>>)
  BY DEF InOrder
<1>3. \A id \in Ids : Sound(pipe[id], chat[id], health[id], told[id], Ran(id))
  <2> SUFFICES ASSUME NEW id \in Ids
               PROVE  Sound(Delivery!NewPipe, <<>>, {}, "nothing", Ran(id))
    BY ZenonT(60) DEF Delivery!Init
  <2>1. /\ Delivery!NewPipe.at = "new" /\ Delivery!NewPipe.text = "none"
        /\ Delivery!NewPipe.end = "none" /\ Delivery!NewPipe.chunk = 1
        /\ Delivery!NewPipe.via = "platform"
    BY DEF Delivery!NewPipe
  <2>2. QED
    BY <1>1, <1>2, <2>1 DEF Sound, Early, Answers
<1>4. QED
  BY <1>1, <1>3, RuntimeStarts DEF Delivery!Init, DeliveryInv, Answers

\* SendReply sends the chunks one after the other and stops at the first that
\* cannot be sent.  For any replies, attempts, lost answers, edits and fallbacks
\* to the bot, what is in the chat is in order and without a gap, and a reply
\* that counts as delivered is there to its last chunk.
THEOREM RepliesAreWhole ==
  ASSUME Delivery!ChannelDeliveryAssumption
  PROVE  Delivery!Spec => []RepliesWhole
<1>1. DeliveryInv => RepliesWhole
  BY ZenonT(30) DEF DeliveryInv, Sound, InOrder, RepliesWhole, Delivery!RepliesWhole
<1>2. QED
  BY <1>1, DeliveryStarts, DeliveryKeeps, PTL DEF Delivery!Spec

\* The gateway records a success, and tells a caller of one, only for a reply the
\* agent has made, whichever of its attempts it answers and whatever restarts in
\* between; and a platform reply is in the chat to its last chunk when its
\* pipeline has ended, or its rejection is on the record.
THEOREM HealthEarned ==
  ASSUME Delivery!ChannelDeliveryAssumption
  PROVE  Delivery!Spec => []HealthIsEarned
<1>1. DeliveryInv => HealthIsEarned
  <2> SUFFICES ASSUME DeliveryInv, NEW id \in Ids
               PROVE  /\ "success" \in health[id] => runs[id] > 0 /\ pipe[id].text = "answer"
                      /\ setting.kind \notin Delivery!Platforms /\ told[id] = "2xx" =>
                           pipe[id].text = "answer"
                      /\ /\ setting.kind \in Delivery!Platforms
                         /\ pipe[id].at = "done" /\ pipe[id].end # "refused"
                         => \/ "CallbackRejected" \in health[id]
                            \/ /\ chat[id] # <<>>
                               /\ pipe[id].text = "answer" =>
                                    setting.chunks \in Delivery!Range(chat[id])
    BY Zenon DEF HealthIsEarned, Delivery!HealthIsEarned
  <2>1. Sound(pipe[id], chat[id], health[id], told[id], Ran(id))
    BY ZenonT(60) DEF DeliveryInv
  <2>2. chat[id] # <<>> => chat[id][Len(chat[id])] \in Delivery!Range(chat[id])
    BY <2>1 DEF Sound, Delivery!Range
  <2>3. QED
    BY <2>1, <2>2, Zenon DEF Sound, Ran, Ends
<1>2. QED
  BY <1>1, DeliveryStarts, DeliveryKeeps, PTL DEF Delivery!Spec
=============================================================================
