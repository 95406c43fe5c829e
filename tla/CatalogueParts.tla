--------------------------- MODULE CatalogueParts ---------------------------
(***************************************************************************)
(* Four parts that share no state: the catalogue's reconcilers, the        *)
(* validation of fallback chains, the TLS loaders and the Secret           *)
(* informers.  What each promises is stated here once, for the run that    *)
(* checks it and the proof of it.                                          *)
(***************************************************************************)
EXTENDS Naturals

CONSTANTS
    Workloads, Settings,                                              \* Catalogue
    Existing, Primary, Dangling, Chains,                             \* FallbackChain
    MaxWrites,                                                        \* TrustLoader
    Readers, SyncTimeout, IdleTTL, Rotations, MaxInformers, Horizon   \* SecretWatch

VARIABLES
    api, cache, queue, timed, upstream, cni, probedCNI, setting, left,
    chain, unread, edges, visited, problems,
    kind, disk, writes, loaded, call, served,
    time, secret, rotated, current, informer, reader, answer, open

Cat == INSTANCE Catalogue
Walk == INSTANCE FallbackChain WITH Names <- Existing
Trust == INSTANCE TrustLoader
Secrets == INSTANCE SecretWatch

catVars == <<api, cache, queue, timed, upstream, cni, probedCNI, setting, left>>
chainVars == <<chain, unread, edges, visited, problems>>
trustVars == <<kind, disk, writes, loaded, call, served>>
secretVars == <<time, secret, rotated, current, informer, reader, answer, open>>

\* A class's and a ToolProvider's status never lags behind the caches unless a
\* reconcile is queued.
VerdictsStand == Cat!VerdictsStand

\* validateFallback accepts no chain that loops or that the gateway cannot
\* follow, and rejects none without a fault or a shared provider.
AcceptsFollowable == Walk!AcceptsFollowable

\* An undisturbed load of whole files returns what is on disk.
FreshWhenQuiet == Trust!FreshWhenQuiet

\* No Secret is read from the store of a stopped informer.
ServedByARunningInformer == Secrets!ServedByARunningInformer
=============================================================================
