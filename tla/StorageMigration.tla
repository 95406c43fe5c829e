-------------------------- MODULE StorageMigration --------------------------
(***************************************************************************)
(* The storage-version migrator (internal/storagemigration): on the leader *)
(* it rewrites every object of every Kaalm kind at the storage version,    *)
(* page by page, and then trims the CRD's status.storedVersions.  A pass   *)
(* stops at its first error and is run again, after a backoff, until one   *)
(* succeeds.  Meanwhile users create, edit and delete objects, and the     *)
(* leader changes.                                                         *)
(***************************************************************************)
EXTENDS Naturals, Sequences, FiniteSets

CONSTANTS CRDs,           \* the CRDs, in the order of the table: a sequence
          Names,          \* the objects each kind may have
          PageSize,       \* objects per list page
          Disturbances    \* bound: edits of users, failed calls and leader changes

VARIABLES
    stored,      \* kind -> name -> version its bytes are stored at, "none" if absent
    versions,    \* kind -> the CRD's status.storedVersions, a set
    storage,     \* kind -> the CRD's storage version
    at,          \* the migrator: index into CRDs of the kind being migrated, 0 idle
    step,        \* "crd", "list", "patch", "trim", "backoff" or "done"
    rest,        \* names of the list's snapshot not yet returned by a page
    page,        \* names of the current page still to patch
    disturbed

migrationVars == <<stored, versions, storage, at, step, rest, page, disturbed>>

Versions == {"v1alpha1", "v1beta1"}
Index == 1..Len(CRDs)
Kind == CRDs[at]

\* What the constants must be: there is a kind to migrate.
StorageMigrationAssumption == CRDs \in Seq({CRDs[i] : i \in Index}) /\ CRDs # <<>>

\* A user's write or a failing call: bounded.
Disturb == disturbed < Disturbances /\ disturbed' = disturbed + 1

-----------------------------------------------------------------------------
(***************************************************************************)
(* The migrator                                                            *)
(***************************************************************************)

\* Migrate moves to the next kind; after the last one Start returns.
NextKind ==
    /\ at' = IF at = Len(CRDs) THEN at ELSE at + 1
    /\ step' = IF at = Len(CRDs) THEN "done" ELSE "crd"

\* Any error ends the pass: Start waits and runs Migrate from the first kind.
Fail == step' = "backoff" /\ at' = 1 /\ rest' = {} /\ page' = {}

Retry ==
    /\ step = "backoff"
    /\ step' = "crd"
    /\ UNCHANGED <<stored, versions, storage, at, rest, page, disturbed>>

Migrated(k) == versions[k] = {"v1beta1"}

StoresAt(k) == storage[k] = "v1beta1"

\* migrateKind reads the CRD: a migrated kind is skipped, one whose storage
\* version is not v1beta1 is refused.
ReadCRD ==
    /\ step = "crd"
    /\ IF Migrated(Kind)
         THEN NextKind /\ UNCHANGED <<rest, page>>
       ELSE IF ~StoresAt(Kind) THEN Fail
       ELSE step' = "list" /\ rest' = {} /\ page' = {} /\ UNCHANGED at
    /\ UNCHANGED <<stored, versions, storage, disturbed>>

Objects(k) == {n \in Names : stored[k][n] # "none"}

\* Mutant: the first page is taken for the whole list.
PageIsLast(remaining) == TRUE

\* The continue token of a page is empty when nothing remains.
LastPage(remaining) == remaining = {}

\* The first page fixes the snapshot the following ones continue.
ListFirst ==
    /\ step = "list"
    /\ \E p \in SUBSET Objects(Kind) :
         /\ Cardinality(p) = IF Cardinality(Objects(Kind)) < PageSize
                               THEN Cardinality(Objects(Kind)) ELSE PageSize
         /\ page' = p
         /\ rest' = Objects(Kind) \ p
    /\ step' = "patch"
    /\ UNCHANGED <<stored, versions, storage, at, disturbed>>

\* The empty merge patch of one object of the page: the API server writes it
\* at the storage version; an object deleted since the list ends the pass.
Patch ==
    /\ step = "patch"
    /\ \E n \in page :
         \/ /\ stored[Kind][n] # "none"
            /\ stored' = [stored EXCEPT ![Kind][n] = storage[Kind]]
            /\ page' = page \ {n}
            /\ UNCHANGED <<at, step, rest, disturbed>>
         \/ stored[Kind][n] = "none" /\ Fail /\ UNCHANGED <<stored, disturbed>>
    /\ UNCHANGED <<versions, storage>>

\* The page is done: the next one of the snapshot, or the end of the list.
NextPage ==
    /\ step = "patch" /\ page = {}
    /\ \/ /\ LastPage(rest)
          /\ step' = "trim"
          /\ UNCHANGED <<at, page, rest>>
       \/ /\ ~LastPage(rest)
          /\ \E p \in SUBSET rest :
               /\ p # {} /\ Cardinality(p) <= PageSize
               /\ Cardinality(p) = PageSize \/ p = rest
               /\ page' = p /\ rest' = rest \ p
          /\ UNCHANGED <<at, step>>
    /\ UNCHANGED <<stored, versions, storage, disturbed>>

\* The status patch; the API server refuses one without the storage version.
Trim ==
    /\ step = "trim"
    /\ IF storage[Kind] = "v1beta1"
         THEN /\ versions' = [versions EXCEPT ![Kind] = {"v1beta1"}]
              /\ NextKind
              /\ UNCHANGED <<rest, page>>
         ELSE Fail /\ UNCHANGED versions
    /\ UNCHANGED <<stored, storage, disturbed>>

\* A call of the pass fails: the API server is unavailable, a continue token
\* expired, a patch was refused.
CallFails ==
    /\ step \in {"crd", "list", "patch", "trim"}
    /\ Fail /\ Disturb
    /\ UNCHANGED <<stored, versions, storage>>

\* The leader is replaced: the new one starts from the first kind.
NewLeader ==
    /\ Disturb
    /\ at' = 1 /\ step' = "crd" /\ rest' = {} /\ page' = {}
    /\ UNCHANGED <<stored, versions, storage>>

-----------------------------------------------------------------------------
(***************************************************************************)
(* The API server and its users (external)                                 *)
(***************************************************************************)

\* A create or an edit is stored at the CRD's storage version.
Write(k, n) ==
    /\ Disturb
    /\ stored' = [stored EXCEPT ![k][n] = storage[k]]
    /\ UNCHANGED <<versions, storage, at, step, rest, page>>

Remove(k, n) ==
    /\ stored[k][n] # "none"
    /\ Disturb
    /\ stored' = [stored EXCEPT ![k][n] = "none"]
    /\ UNCHANGED <<versions, storage, at, step, rest, page>>

\* The chart's CRDs are applied: v1beta1 becomes the storage version and is
\* added to the stored versions.
ApplyCRD(k) ==
    /\ storage[k] # "v1beta1"
    /\ storage' = [storage EXCEPT ![k] = "v1beta1"]
    /\ versions' = [versions EXCEPT ![k] = @ \cup {"v1beta1"}]
    /\ UNCHANGED <<stored, at, step, rest, page, disturbed>>

-----------------------------------------------------------------------------

\* An upgrade from the release that stored v1alpha1, the CRD of each kind
\* applied or not yet.
Init ==
    LET range == {CRDs[i] : i \in Index} IN
    /\ storage \in [range -> Versions]
    /\ versions = [k \in range |->
                     IF storage[k] = "v1beta1" THEN Versions ELSE {"v1alpha1"}]
    /\ stored = [k \in range |-> [n \in Names |-> "v1alpha1"]]
    /\ at = 1 /\ step = "crd" /\ rest = {} /\ page = {}
    /\ disturbed = 0

ApplyCRDs == \E i \in Index : ApplyCRD(CRDs[i])

Migrator == ReadCRD \/ ListFirst \/ Patch \/ NextPage \/ Trim \/ Retry

MigrationDone == step = "done" /\ disturbed = Disturbances /\ UNCHANGED migrationVars

Next ==
    \/ Migrator
    \/ CallFails
    \/ NewLeader
    \/ \E i \in Index, n \in Names : Write(CRDs[i], n) \/ Remove(CRDs[i], n)
    \/ ApplyCRDs
    \/ MigrationDone

Spec == Init /\ [][Next]_migrationVars

-----------------------------------------------------------------------------
(***************************************************************************)
(* Properties                                                              *)
(***************************************************************************)

\* migrator.go:168-171, "trimming storedVersions would lie": a CRD whose
\* stored versions are v1beta1 alone has no object left at another version,
\* whatever was created, deleted or failed while the pages were rewritten.
NeverLies ==
    \A i \in Index : versions[CRDs[i]] = {"v1beta1"}
        => \A n \in Names : stored[CRDs[i]][n] \in {"none", "v1beta1"}
=============================================================================
