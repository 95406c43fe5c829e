---------------------------- MODULE MCLLMRequest ----------------------------
(* Instances of LLMRequest for TLC. *)
EXTENDS LLMRequest

Same == [m \in Models |-> m]
ToM2 == [Same EXCEPT !["m1"] = "m2"]
Edge(p, map) == [to |-> p, modelMap |-> map]
Provider(type, models, fallback) ==
  [type |-> type, allowed |-> TRUE, models |-> models, degradeTo |-> "m2",
   fallback |-> fallback]

\* A diamond with cycles back to the primary; edges rename the model, one of them
\* into a provider of the other format.
Diamond ==
  [a |-> Provider("anthropic", {"m1", "m2"},
                  <<Edge("b", ToM2), Edge("c", Same), Edge("d", Same)>>),
   b |-> Provider("openai", {"m2"}, <<Edge("c", Same), Edge("a", Same)>>),
   c |-> Provider("anthropic", {"m1", "m2"}, <<Edge("a", ToM2)>>),
   d |-> Provider("anthropic", {"m1", "m2"}, <<>>)]
\* Candidates that are skipped: missing, of a type that cannot follow, not
\* allowed to the namespace; a primary whose degrade target it does not offer.
Skipped ==
  [a |-> Provider("openai-compatible", {"m1"},
                  <<Edge("b", Same), Edge("missing", Same), Edge("c", Same)>>),
   b |-> [Provider("google-vertex", {"m1"}, <<Edge("d", Same)>>)
            EXCEPT !.allowed = FALSE],
   c |-> Provider("anthropic", {"m1"}, <<Edge("d", Same)>>),
   d |-> Provider("openai", {"m1"}, <<>>)]
TwoCatalogues == {Diamond, Skipped}

Ask(path, chain, primary, translatable) ==
  [path |-> path, chain |-> chain, primary |-> primary, model |-> "m1",
   translatable |-> translatable]
\* One request walks from "a"; the other asks for what the walk falls back to, or
\* is turned away.
SomeAsks ==
  [q1 |-> {Ask("/v1/messages", "none", "a", TRUE),
           Ask("/v1/completions", "ok", "a", FALSE)},
   q2 |-> {Ask("/v1/messages", "ok", "d", TRUE),
           Ask("/v1/messages", "notAllowed", "d", TRUE),
           Ask("/v1/chat/completions", "ok", "missing", TRUE)}]
=============================================================================
