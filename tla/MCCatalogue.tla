---------------------------- MODULE MCCatalogue ----------------------------
(***************************************************************************)
(* The catalogue's reconcilers, the validation of fallback chains, the     *)
(* storage migration, the TLS loaders and the Secret informers on small    *)
(* instances, one at a time: focus names the part that runs, and the       *)
(* others rest in one of their initial states.                             *)
(***************************************************************************)
EXTENDS StorageMigration, CatalogueParts

VARIABLE focus

\* Two kinds of objects, each with up to three.
MigratedKinds == <<"agents", "classes">>

\* A probed provider and its class, a provider type without a probe whose spend
\* is tracked, one that is not probed and has mistakes in its specification (its
\* class too), a probed tool server, and one that is not probed in a class with hosts.
Setting(kinds, probe, budget, hosts, wrong, edits) ==
    [kinds |-> kinds, probe |-> probe, budget |-> budget, hosts |-> hosts,
     wrong |-> wrong, edits |-> edits]
CatalogueSettings ==
    {Setting({"model", "child", "secret", "class", "agent"}, "on", FALSE, FALSE, {}, 2),
     Setting({"model", "secret", "agent"}, "skipped", TRUE, FALSE, {}, 3),
     Setting({"model", "secret", "class"}, "off", FALSE, FALSE, {"degradeTo", "modelMap", "egress"}, 2),
     Setting({"model", "secret"}, "off", FALSE, FALSE, {"unpriced"}, 2),
     Setting({"tool", "secret", "class", "agent"}, "on", FALSE, FALSE, {}, 2),
     Setting({"tool", "class", "agent"}, "off", FALSE, TRUE, {}, 2)}

\* The ways three providers of different formats and a name nobody has can refer
\* to each other, with and without a model map; the third refers to one at most.
Ref(name, map) == [name |-> name, map |-> map]
Lists(maps) ==
    LET refs == {Ref(n, m) : n \in Existing \cup Dangling, m \in maps}
    IN  {<<>>} \cup {<<r>> : r \in refs} \cup (refs \X refs)
Provider(type, models, fallback) == [type |-> type, models |-> models, fallback |-> fallback]
FallbackChains ==
    {[n \in Existing |->
        CASE n = "p" -> Provider("anthropic", {"x"}, f[1])
          [] n = "a" -> Provider("openai", {"y"}, f[2])
          [] n = "b" -> Provider("google-vertex", {"x", "y"}, f[3])] :
       f \in Lists({<<>>, [x |-> "y"]}) \X Lists({<<>>})
                \X {l \in Lists({<<>>}) : Len(l) < 2}}

ASSUME ConstantsAssumption ==
  /\ Cat!CatalogueAssumption /\ Walk!FallbackChainAssumption
  /\ StorageMigrationAssumption /\ Secrets!SecretWatchAssumption

allVars == <<focus, catVars, chainVars, migrationVars, trustVars, secretVars>>

CatalogueInit ==
    /\ focus \in {"catalogue", "chain", "migration", "trust", "secrets"}
    /\ IF focus = "catalogue" THEN Cat!Init
       ELSE /\ setting = Setting({"model", "secret"}, "on", FALSE, FALSE, {}, 0)
            /\ api = [k \in Cat!Kinds |-> Cat!Gone] /\ cache = api
            /\ queue = {} /\ timed = {} /\ upstream = "2xx" /\ cni = FALSE
            /\ probedCNI = "no" /\ left = 0
    /\ Walk!Init
    /\ focus # "chain" => unread = {} /\ \A n \in Existing : chain[n].fallback = <<>>
    /\ Init /\ (focus # "migration" => \A k \in DOMAIN storage : storage[k] = "v1beta1")
    /\ Trust!Init /\ (focus # "trust" => kind = "ca")
    /\ Secrets!Init /\ (focus # "secrets" => secret = 1)

CatalogueNext ==
    \/ /\ focus = "catalogue" /\ Cat!Next
       /\ UNCHANGED <<focus, chainVars, migrationVars, trustVars, secretVars>>
    \/ /\ focus = "chain" /\ Walk!Next
       /\ UNCHANGED <<focus, catVars, migrationVars, trustVars, secretVars>>
    \/ /\ focus = "migration" /\ Next
       /\ UNCHANGED <<focus, catVars, chainVars, trustVars, secretVars>>
    \/ /\ focus = "trust" /\ Trust!Next
       /\ UNCHANGED <<focus, catVars, chainVars, migrationVars, secretVars>>
    \/ /\ focus = "secrets" /\ Secrets!Next
       /\ UNCHANGED <<focus, catVars, chainVars, migrationVars, trustVars>>

\* The fairness of the reconcilers and their informers, while they run.
CatalogueFairness ==
    /\ WF_catVars(focus = "catalogue" /\ Cat!ReconcileModelProvider)
    /\ WF_catVars(focus = "catalogue" /\ Cat!ReconcileToolProvider)
    /\ WF_catVars(focus = "catalogue" /\ Cat!ReconcileAgentClass)
    /\ WF_catVars(focus = "catalogue" /\ \E k \in Cat!Kinds : Cat!Deliver(k))

CatalogueSpec == CatalogueInit /\ [][CatalogueNext]_allVars /\ CatalogueFairness

-----------------------------------------------------------------------------
\* A deleted object that nothing references does not stay in Terminating.
DeletionCompletes == Cat!DeletionCompletes
=============================================================================
