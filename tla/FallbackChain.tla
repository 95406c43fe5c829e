---------------------------- MODULE FallbackChain ----------------------------
(***************************************************************************)
(* ModelProviderReconciler.validateFallback: the breadth-first walk over   *)
(* the fallback references of a provider that decides whether its chain    *)
(* may be used.  One step is one iteration of the loop over the queue of   *)
(* edges.  The walk is compared with what a chain must be: it ends, its    *)
(* providers exist, and the gateway can follow its edges.                  *)
(***************************************************************************)
EXTENDS Naturals, Sequences

CONSTANTS Names,      \* names of ModelProviders that exist
          Primary,    \* the provider being validated
          Dangling,   \* names no provider has
          Chains      \* the catalogues examined: name -> [type, models, fallback]

VARIABLES
    chain,      \* frozen: the catalogue as the cache has it
    unread,     \* frozen: names whose Get fails otherwise than with NotFound
    edges,      \* the queue of edges still to visit: <<parent, index in its spec.fallback>>
    visited,    \* names already visited
    problems    \* what was found wrong: [kind, at]

\* The primary exists, and a reference names a provider or what is missing.
FallbackChainAssumption ==
    /\ Primary \in Names
    /\ \A c \in Chains : \A p \in Names : LET f == c[p].fallback IN
         /\ f \in Seq({f[i] : i \in DOMAIN f})
         /\ \A i \in DOMAIN f : f[i].name \in Names \cup Dangling

chainVars == <<chain, unread, edges, visited, problems>>

\* FallbackFormatCompatible (rule 12).
Translatable(type) == type \in {"anthropic", "openai", "openai-compatible"}

FormatCompatible(parent, child) ==
    parent = child \/ (Translatable(parent) /\ Translatable(child))

\* The edges of a provider, in the order of spec.fallback.
EdgesOf(p) == [i \in DOMAIN chain[p].fallback |-> <<p, i>>]

RefOf(e) == chain[e[1]].fallback[e[2]]

Problem(kind, at) == [kind |-> kind, at |-> at]

\* What is wrong with an edge whose ends exist: the formats (rule 12), a key
\* of the model map its parent lacks or a value its child lacks (rule 41).
EdgeProblems(e) ==
    LET parent == chain[e[1]] ref == RefOf(e) child == chain[ref.name] IN
    {Problem("type", ref.name) :
        t \in {u \in {child.type} : ~FormatCompatible(parent.type, u)}}
    \cup {Problem("modelMap", ref.name) :
            k \in {j \in DOMAIN ref.map : j \notin parent.models
                                          \/ ref.map[j] \notin child.models}}

\* Mutant: only a reference back to the primary counts as a cycle.
VisitToPrimary ==
    LET e == Head(edges) name == RefOf(e).name IN
    /\ edges # <<>>
    /\ IF name = Primary
         THEN /\ problems' = problems \cup {Problem("circular", name)}
              /\ edges' = Tail(edges)
              /\ UNCHANGED visited
       ELSE IF name \in visited
         THEN edges' = Tail(edges) /\ UNCHANGED <<visited, problems>>
       ELSE /\ visited' = visited \cup {name}
            /\ IF name \in unread
                 THEN edges' = Tail(edges) /\ UNCHANGED problems
               ELSE IF name \notin Names
                 THEN /\ problems' = problems \cup {Problem("missing", name)}
                      /\ edges' = Tail(edges)
                 ELSE /\ problems' = problems \cup EdgeProblems(e)
                      /\ edges' = Tail(edges) \o EdgesOf(name)
    /\ UNCHANGED <<chain, unread>>

\* One iteration of the loop: a name met before is reported as circular, a
\* provider that cannot be read is passed over in silence, a missing one ends
\* the branch, an existing one is checked against its parent and its own
\* references are queued.  A name is read at most once.
Visit ==
    LET e == Head(edges) name == RefOf(e).name IN
    /\ edges # <<>>
    /\ IF name \in visited
         THEN /\ problems' = problems \cup {Problem("circular", name)}
              /\ edges' = Tail(edges)
              /\ UNCHANGED visited
         ELSE /\ visited' = visited \cup {name}
              /\ IF name \in unread
                   THEN edges' = Tail(edges) /\ UNCHANGED problems
                 ELSE IF name \notin Names
                   THEN /\ problems' = problems \cup {Problem("missing", name)}
                        /\ edges' = Tail(edges)
                   ELSE /\ problems' = problems \cup EdgeProblems(e)
                        /\ edges' = Tail(edges) \o EdgesOf(name)
    /\ UNCHANGED <<chain, unread>>

ChainDone == edges = <<>> /\ UNCHANGED chainVars

Init ==
    /\ chain \in Chains
    /\ unread \in SUBSET ((Names \cup Dangling) \ {Primary})
    /\ edges = EdgesOf(Primary)
    /\ visited = {Primary}
    /\ problems = {}

Next == Visit \/ ChainDone

Spec == Init /\ [][Next]_chainVars

-----------------------------------------------------------------------------
(***************************************************************************)
(* Properties                                                              *)
(***************************************************************************)

\* The edges of the providers among the names S that could be read.
EdgesFrom(S) ==
    UNION {{<<p, i>> : i \in DOMAIN chain[p].fallback} : p \in (S \ unread) \cap Names}

\* The names a request to the primary can fall back to, the primary included.
Closed(S) == Primary \in S /\ \A e \in EdgesFrom(S) : RefOf(e).name \in S
Reachable ==
    {n \in Names \cup Dangling :
        \A S \in SUBSET (Names \cup Dangling) : Closed(S) => n \in S}

\* Rules 12 and 41, for an edge whose ends exist.
EdgeFollowable(e) ==
    LET parent == chain[e[1]] ref == RefOf(e) child == chain[ref.name] IN
    /\ FormatCompatible(parent.type, child.type)
    /\ \A m \in DOMAIN ref.map : m \in parent.models /\ ref.map[m] \in child.models

\* Rule 11: no set of providers in which each falls back to one of the set.
Terminates(S) ==
    \A C \in SUBSET S : C # {} =>
        \E p \in C : \A e \in EdgesFrom({p}) : RefOf(e).name \notin C

\* A sound chain, as far as it could be read.
Followable ==
    /\ Reachable \ unread \subseteq Names
    /\ \A e \in EdgesFrom(Reachable) : RefOf(e).name \notin unread => EdgeFollowable(e)
    /\ Terminates(Reachable)

\* Some provider is the fallback of two others, or twice of one.
Shared ==
    \E e \in EdgesFrom(Reachable) :
        \/ RefOf(e).name = Primary
        \/ \E d \in EdgesFrom(Reachable) \ {e} : RefOf(d).name = RefOf(e).name

\* modelprovider_controller.go:217: a chain the walk accepts ends, and all of it
\* that could be read exists and can be followed, whether the fault would be a
\* cycle away from the primary or behind another fault; and a chain it rejects
\* has a fault or a shared provider, which it reports as circular even where the
\* chain ends and the gateway's own walk would try that provider once.
AcceptsFollowable ==
    edges = <<>> =>
        /\ problems = {} => Followable
        /\ problems # {} => ~Followable \/ Shared
==============================================================================
