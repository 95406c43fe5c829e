-------------------------- MODULE CatalogueProofs ---------------------------
(***************************************************************************)
(* Theorems about the storage migration, the Secret informers, the TLS     *)
(* loaders, the catalogue's reconcilers and the validation of fallback     *)
(* chains, each for every value of its constants.  They share no state.    *)
(***************************************************************************)
EXTENDS StorageMigration, CatalogueParts, Integers, TLAPS

-----------------------------------------------------------------------------
(* StorageMigration *)

AllKinds == {CRDs[i] : i \in Index}
Steps == {"crd", "list", "patch", "trim", "backoff", "done"}

TypeOK ==
  /\ storage \in [AllKinds -> Versions]
  /\ versions \in [AllKinds -> SUBSET Versions]
  /\ stored \in [AllKinds -> [Names -> Versions \cup {"none"}]]
  /\ at \in Index /\ step \in Steps
  /\ rest \in SUBSET Names /\ page \in SUBSET Names

\* No object of k is left at the old version but those in Left.
OldAmong(k, Left) == \A n \in Names : stored[k][n] = "v1alpha1" => n \in Left

\* A CRD that stores the old version says so; one that names v1beta1 alone stores
\* it and is right; and the kind under migration stores v1beta1 from the read of
\* its CRD on, with its old objects among the names still to be patched.
IInv ==
  /\ TypeOK
  /\ \A k \in AllKinds : storage[k] = "v1alpha1" => "v1alpha1" \in versions[k]
  /\ \A k \in AllKinds :
       versions[k] = {"v1beta1"} => storage[k] = "v1beta1" /\ OldAmong(k, {})
  /\ step \in {"list", "patch", "trim"} => storage[Kind] = "v1beta1"
  /\ step = "patch" => OldAmong(Kind, page \cup rest)
  /\ step = "trim" => OldAmong(Kind, {})

LEMMA KindFacts ==
  ASSUME StorageMigrationAssumption, IInv
  PROVE  Kind \in AllKinds /\ at \in Nat /\ at >= 1 /\ Len(CRDs) \in Nat /\ at <= Len(CRDs)
BY DEF IInv, TypeOK, AllKinds, Index, Kind, StorageMigrationAssumption

\* What a step that leaves the API server alone has to show.
LEMMA Local ==
  ASSUME IInv, UNCHANGED <<stored, versions, storage>>,
         at' \in Index, step' \in Steps, rest' \in SUBSET Names, page' \in SUBSET Names,
         step' \in {"list", "patch", "trim"} => storage[Kind'] = "v1beta1",
         step' = "patch" => OldAmong(Kind', page' \cup rest'),
         step' = "trim" => OldAmong(Kind', {})
  PROVE  IInv'
BY DEF IInv, TypeOK, OldAmong

LEMMA FailKeeps ==
  ASSUME StorageMigrationAssumption, IInv, Fail, UNCHANGED <<stored, versions, storage>>
  PROVE  IInv'
<1>1. 1 \in Index /\ step' = "backoff"
  BY KindFacts DEF Index, Fail
<1> QED
  BY <1>1, Local DEF Fail, Steps

LEMMA NextKindFacts ==
  ASSUME StorageMigrationAssumption, IInv, NextKind
  PROVE  at' \in Index /\ step' \in {"done", "crd"}
BY KindFacts DEF NextKind, Index

LEMMA ReadCRDKeeps ==
  ASSUME StorageMigrationAssumption, IInv, ReadCRD PROVE IInv'
<1>1. CASE Migrated(Kind)
  <2>1. NextKind /\ UNCHANGED <<rest, page, stored, versions, storage>>
    BY <1>1 DEF ReadCRD
  <2>2. at' \in Index /\ step' \in {"done", "crd"}
    BY <2>1, NextKindFacts
  <2>3. rest' \in SUBSET Names /\ page' \in SUBSET Names /\ step' \in Steps
    BY <2>1, <2>2 DEF IInv, TypeOK, Steps
  <2> QED
    BY <2>1, <2>2, <2>3, Local
<1>2. CASE ~Migrated(Kind) /\ ~StoresAt(Kind)
  BY <1>2, FailKeeps DEF ReadCRD
<1>3. CASE ~Migrated(Kind) /\ StoresAt(Kind)
  <2>1. /\ step' = "list" /\ rest' = {} /\ page' = {}
        /\ UNCHANGED <<at, stored, versions, storage>>
    BY <1>3 DEF ReadCRD
  <2>2. /\ at' \in Index /\ step' \in Steps /\ Kind' = Kind
    BY <2>1 DEF IInv, TypeOK, Steps, Kind
  <2> QED
    BY <1>3, <2>1, <2>2, Local DEF StoresAt
<1> QED
  BY <1>1, <1>2, <1>3

LEMMA ListFirstKeeps ==
  ASSUME StorageMigrationAssumption, IInv, ListFirst PROVE IInv'
<1>1. PICK p \in SUBSET Objects(Kind) : page' = p /\ rest' = Objects(Kind) \ p
  BY DEF ListFirst
<1>2. /\ step = "list" /\ step' = "patch" /\ UNCHANGED <<at, stored, versions, storage>>
  BY DEF ListFirst
<1>3. /\ at' \in Index /\ step' \in Steps /\ Kind' = Kind /\ storage[Kind] = "v1beta1"
  BY <1>2 DEF IInv, TypeOK, Steps, Kind
<1>4. /\ page' \cup rest' = Objects(Kind) /\ page' \in SUBSET Names /\ rest' \in SUBSET Names
  BY <1>1 DEF Objects
<1>5. OldAmong(Kind, Objects(Kind))
  BY DEF OldAmong, Objects
<1> QED
  BY <1>2, <1>3, <1>4, <1>5, Local

LEMMA NextPageKeeps ==
  ASSUME StorageMigrationAssumption, IInv, NextPage PROVE IInv'
<1>1. /\ step = "patch" /\ page = {} /\ UNCHANGED <<at, stored, versions, storage>>
      /\ Kind' = Kind /\ at' \in Index /\ storage[Kind] = "v1beta1"
  BY DEF NextPage, IInv, TypeOK, Kind
<1>2. OldAmong(Kind, rest)
  BY <1>1 DEF IInv
<1>3. CASE LastPage(rest) /\ step' = "trim" /\ UNCHANGED <<page, rest>>
  <2>1. OldAmong(Kind, {}) /\ step' \in Steps
    BY <1>2, <1>3 DEF LastPage, Steps
  <2>2. rest' \in SUBSET Names /\ page' \in SUBSET Names
    BY <1>3 DEF IInv, TypeOK
  <2> QED
    BY <1>1, <1>3, <2>1, <2>2, Local
<1>4. CASE /\ UNCHANGED step
           /\ \E p \in SUBSET rest : page' = p /\ rest' = rest \ p
  <2>1. /\ page' \cup rest' = rest /\ page' \in SUBSET Names /\ rest' \in SUBSET Names
    BY <1>4 DEF IInv, TypeOK
  <2>2. step' = "patch" /\ step' \in Steps
    BY <1>1, <1>4 DEF Steps
  <2> QED
    BY <1>1, <1>2, <2>1, <2>2, Local
<1> QED
  BY <1>3, <1>4 DEF NextPage

\* A write at the storage version, or a removal: nobody gains an old object
\* whose CRD stores v1beta1.
LEMMA StoredStep ==
  ASSUME IInv, NEW k \in AllKinds, NEW n \in Names, NEW v \in {storage[k], "none"},
         stored' = [stored EXCEPT ![k][n] = v], UNCHANGED <<versions, storage>>
  PROVE  /\ stored' \in [AllKinds -> [Names -> Versions \cup {"none"}]]
         /\ \A j \in AllKinds, m \in Names :
              storage[j] = "v1beta1" /\ stored'[j][m] = "v1alpha1" =>
                stored[j][m] = "v1alpha1" /\ ~(j = k /\ m = n)
         /\ \A j \in AllKinds : versions'[j] = {"v1beta1"} => OldAmong(j, {})'
<1>1. v \in Versions \cup {"none"} /\ (storage[k] = "v1beta1" => v # "v1alpha1")
  BY DEF IInv, TypeOK
<1>2. stored' \in [AllKinds -> [Names -> Versions \cup {"none"}]]
  BY <1>1 DEF IInv, TypeOK
<1>3. \A j \in AllKinds, m \in Names :
        stored'[j][m] = IF j = k /\ m = n THEN v ELSE stored[j][m]
  BY DEF IInv, TypeOK
<1>4. \A j \in AllKinds, m \in Names :
        storage[j] = "v1beta1" /\ stored'[j][m] = "v1alpha1" =>
          stored[j][m] = "v1alpha1" /\ ~(j = k /\ m = n)
  BY <1>1, <1>3
<1> QED
  BY <1>2, <1>4 DEF IInv, OldAmong

LEMMA PatchKeeps ==
  ASSUME StorageMigrationAssumption, IInv, Patch PROVE IInv'
<1>1. /\ step = "patch" /\ UNCHANGED <<versions, storage>> /\ Kind \in AllKinds
      /\ storage[Kind] = "v1beta1" /\ OldAmong(Kind, page \cup rest)
  BY KindFacts DEF Patch, IInv
<1>2. ASSUME NEW n \in page, stored[Kind][n] # "none",
             stored' = [stored EXCEPT ![Kind][n] = storage[Kind]], page' = page \ {n},
             UNCHANGED <<at, step, rest>>
      PROVE  IInv'
  <2>1. n \in Names /\ Kind' = Kind
    BY <1>2 DEF IInv, TypeOK, Kind
  <2>2. /\ stored' \in [AllKinds -> [Names -> Versions \cup {"none"}]]
        /\ \A j \in AllKinds, m \in Names :
             storage[j] = "v1beta1" /\ stored'[j][m] = "v1alpha1" =>
               stored[j][m] = "v1alpha1" /\ ~(j = Kind /\ m = n)
        /\ \A j \in AllKinds : versions'[j] = {"v1beta1"} => OldAmong(j, {})'
    BY Zenon, <1>1, <1>2, <2>1, StoredStep
  <2>3. OldAmong(Kind, page \cup rest)'
    BY <1>1, <1>2, <2>1, <2>2 DEF OldAmong
  <2>4. TypeOK'
    BY <1>1, <1>2, <2>2 DEF IInv, TypeOK
  <2> QED
    BY <1>1, <1>2, <2>1, <2>2, <2>3, <2>4 DEF IInv
<1>3. CASE Fail /\ UNCHANGED stored
  BY <1>1, <1>3, FailKeeps
<1> QED
  BY <1>2, <1>3 DEF Patch

LEMMA TrimKeeps ==
  ASSUME StorageMigrationAssumption, IInv, Trim PROVE IInv'
<1>1. CASE storage[Kind] # "v1beta1"
  BY <1>1, FailKeeps DEF Trim
<1>2. CASE storage[Kind] = "v1beta1"
  <2>1. /\ versions' = [versions EXCEPT ![Kind] = {"v1beta1"}] /\ NextKind
        /\ UNCHANGED <<rest, page, stored, storage>> /\ OldAmong(Kind, {}) /\ Kind \in AllKinds
    BY <1>2, KindFacts DEF Trim, IInv
  <2>2. at' \in Index /\ step' \in {"done", "crd"}
    BY <2>1, NextKindFacts
  <2>3. /\ versions' \in [AllKinds -> SUBSET Versions]
        /\ \A k \in AllKinds : versions'[k] = IF k = Kind THEN {"v1beta1"} ELSE versions[k]
    BY <2>1 DEF IInv, TypeOK, Versions
  <2>4. TypeOK'
    BY <2>1, <2>2, <2>3 DEF IInv, TypeOK, Steps
  <2>5. \A k \in AllKinds : storage'[k] = "v1alpha1" => "v1alpha1" \in versions'[k]
    BY <1>2, <2>1, <2>3 DEF IInv
  <2>6. \A k \in AllKinds :
          versions'[k] = {"v1beta1"} => storage'[k] = "v1beta1" /\ OldAmong(k, {})'
    BY Zenon, <1>2, <2>1, <2>3 DEF IInv, OldAmong
  <2> QED
    BY <2>2, <2>4, <2>5, <2>6 DEF IInv
<1> QED
  BY <1>1, <1>2

LEMMA UserKeeps ==
  ASSUME StorageMigrationAssumption, IInv, NEW i \in Index, NEW n \in Names,
         Write(CRDs[i], n) \/ Remove(CRDs[i], n)
  PROVE  IInv'
<1> DEFINE k == CRDs[i]
<1>1. k \in AllKinds /\ UNCHANGED <<versions, storage, at, step, rest, page>> /\ Kind' = Kind
  BY DEF AllKinds, Write, Remove, Kind
<1>2. PICK v \in {storage[k], "none"} : stored' = [stored EXCEPT ![k][n] = v]
  BY DEF Write, Remove
<1> HIDE DEF k
<1>3. /\ stored' \in [AllKinds -> [Names -> Versions \cup {"none"}]]
      /\ \A j \in AllKinds, m \in Names :
           storage[j] = "v1beta1" /\ stored'[j][m] = "v1alpha1" => stored[j][m] = "v1alpha1"
      /\ \A j \in AllKinds : versions'[j] = {"v1beta1"} => OldAmong(j, {})'
  BY ZenonT(30), <1>1, <1>2, StoredStep
<1>4. TypeOK'
  BY <1>1, <1>3 DEF IInv, TypeOK
<1>5. Kind \in AllKinds
  BY KindFacts
<1>6. /\ step' = "patch" => OldAmong(Kind, page \cup rest)'
      /\ step' = "trim" => OldAmong(Kind, {})'
  BY <1>1, <1>3, <1>5 DEF IInv, OldAmong
<1> QED
  BY <1>1, <1>3, <1>4, <1>6 DEF IInv

LEMMA ApplyCRDKeeps ==
  ASSUME StorageMigrationAssumption, IInv, NEW i \in Index, ApplyCRD(CRDs[i])
  PROVE  IInv'
<1> DEFINE k == CRDs[i]
<1>1. /\ k \in AllKinds /\ storage[k] = "v1alpha1" /\ UNCHANGED <<stored, at, step, rest, page>>
      /\ storage' = [storage EXCEPT ![k] = "v1beta1"]
      /\ versions' = [versions EXCEPT ![k] = @ \cup {"v1beta1"}] /\ Kind' = Kind
  BY DEF AllKinds, ApplyCRD, Kind, IInv, TypeOK, Versions
<1> HIDE DEF k
<1>2. /\ versions' \in [AllKinds -> SUBSET Versions] /\ storage' \in [AllKinds -> Versions]
      /\ "v1alpha1" \in versions'[k]
      /\ \A j \in AllKinds : j # k => versions'[j] = versions[j] /\ storage'[j] = storage[j]
      /\ storage'[k] = "v1beta1"
  BY <1>1 DEF IInv, TypeOK, Versions
<1>3. TypeOK'
  BY <1>1, <1>2 DEF IInv, TypeOK
<1>4. Kind \in AllKinds
  BY KindFacts
<1> QED
  BY <1>1, <1>2, <1>3, <1>4 DEF IInv, OldAmong

-----------------------------------------------------------------------------
LEMMA InitHolds == ASSUME StorageMigrationAssumption, Init PROVE IInv
<1>1. /\ storage \in [AllKinds -> Versions] /\ at = 1 /\ step = "crd" /\ rest = {} /\ page = {}
      /\ versions = [k \in AllKinds |->
                       IF storage[k] = "v1beta1" THEN Versions ELSE {"v1alpha1"}]
      /\ stored = [k \in AllKinds |-> [n \in Names |-> "v1alpha1"]]
  BY DEF Init, AllKinds
<1>2. \A k \in AllKinds : "v1alpha1" \in versions[k] /\ versions[k] \in SUBSET Versions
  BY <1>1 DEF Versions
<1>3. 1 \in Index
  BY DEF StorageMigrationAssumption, Index
<1>4. TypeOK
  BY <1>1, <1>2, <1>3 DEF TypeOK, Steps, Versions
<1> QED
  BY <1>1, <1>2, <1>4 DEF IInv

LEMMA NextKeeps == ASSUME StorageMigrationAssumption, IInv, [Next]_migrationVars PROVE IInv'
<1>1. CASE UNCHANGED migrationVars
  BY <1>1 DEF migrationVars, IInv, TypeOK, OldAmong, Kind
<1>2. CASE Retry
  BY <1>2, Local DEF Retry, IInv, TypeOK, Steps
<1>3. CASE CallFails
  BY <1>3, FailKeeps DEF CallFails
<1>4. CASE NewLeader
  <2>1. 1 \in Index
    BY KindFacts DEF Index
  <2> QED
    BY <1>4, <2>1, Local DEF NewLeader, Steps
<1> QED
  BY ZenonT(60), <1>1, <1>2, <1>3, <1>4, ReadCRDKeeps, ListFirstKeeps, PatchKeeps, NextPageKeeps, TrimKeeps,
     UserKeeps, ApplyCRDKeeps DEF Next, Migrator, ApplyCRDs, MigrationDone

\* The migrator's bookkeeping: until a kind is trimmed its old objects are on the
\* page being patched or on the pages still to come, whoever writes meanwhile.
THEOREM Invariant == ASSUME StorageMigrationAssumption PROVE Spec => []IInv
<1>1. Init => IInv
  BY InitHolds
<1>2. IInv /\ [Next]_migrationVars => IInv'
  BY NextKeeps
<1> QED
  BY <1>1, <1>2, PTL DEF Spec

\* trimStoredVersions never lies: a CRD that names v1beta1 alone has no object
\* stored at another version.
THEOREM TrimmedIsTrue == ASSUME StorageMigrationAssumption PROVE Spec => []NeverLies
<1>1. IInv => NeverLies
  BY DEF IInv, TypeOK, NeverLies, OldAmong, AllKinds, Versions
<1> QED
  BY <1>1, Invariant, PTL

-----------------------------------------------------------------------------
(* SecretWatch *)

InformerStates == [state : {"none", "running", "stopped"}, synced : BOOLEAN, store : Nat,
                   lastUsed : Nat]
ReaderStates == [at : {"idle", "wait"}, entry : Nat, since : Nat]

\* While the watcher lives, a waiting read holds the informer of the map, which
\* runs, was used no earlier than the read began, and has been waited for no
\* longer than the timeout and the tick that exceeds it.
Waits(r) ==
  /\ reader[r].entry = current /\ current # 0
  /\ reader[r].since <= informer[current].lastUsed /\ reader[r].since <= time
  /\ time <= reader[r].since + SyncTimeout + 1

SecretInv ==
  /\ time \in Nat /\ secret \in Nat /\ rotated \in Nat /\ open \in BOOLEAN
  /\ current \in 0..MaxInformers
  /\ informer \in [Secrets!Informers -> InformerStates]
  /\ reader \in [Readers -> ReaderStates]
  /\ open /\ current # 0 => informer[current].state = "running"
  /\ \A r \in Readers : open /\ reader[r].at = "wait" => Waits(r)
  /\ Secrets!ServedByARunningInformer

LEMMA SecretTick ==
  ASSUME Secrets!SecretWatchAssumption, SecretInv, Secrets!Tick
  PROVE  SecretInv'
<1>1. /\ time' = time + 1 /\ answer' = Secrets!NoAnswer
      /\ UNCHANGED <<secret, rotated, current, informer, reader, open>>
  BY DEF Secrets!Tick
<1>2. ASSUME NEW r \in Readers, open, reader[r].at = "wait" PROVE Waits(r)'
  <2>1. Waits(r) /\ reader[r].since \in Nat /\ time \in Nat /\ SyncTimeout \in Nat
    BY <1>2 DEF SecretInv, ReaderStates, Secrets!SecretWatchAssumption
  <2>2. time - reader[r].since <= SyncTimeout
    BY Zenon, <1>2 DEF Secrets!Tick, Secrets!InTime
  <2>3. QED
    BY <1>1, <2>1, <2>2 DEF Waits
<1>3. QED
  BY <1>1, <1>2 DEF SecretInv, Secrets!ServedByARunningInformer, Secrets!NoAnswer, Secrets!Informers

LEMMA SecretEntry ==
  ASSUME Secrets!SecretWatchAssumption, SecretInv, NEW r \in Readers, Secrets!EntryFor(r)
  PROVE  SecretInv'
<1> DEFINE i == IF current # 0 THEN current ELSE Secrets!Fresh
           e == IF current # 0 THEN Secrets!Used(informer[i])
                ELSE [Secrets!Unborn EXCEPT !.state = "running", !.lastUsed = time]
<1>1. /\ open /\ i \in Secrets!Informers /\ current' = i
      /\ informer' = [informer EXCEPT ![i] = e]
      /\ reader' = [reader EXCEPT ![r] = [at |-> "wait", entry |-> i, since |-> time]]
      /\ answer' = Secrets!NoAnswer /\ UNCHANGED <<time, secret, rotated, open>>
  BY DEF Secrets!EntryFor
<1>2. MaxInformers \in Nat /\ SyncTimeout \in Nat /\ time \in Nat
  BY DEF Secrets!SecretWatchAssumption, SecretInv
<1>3. i \in 1..MaxInformers /\ (current # 0 => i = current)
  BY <1>1 DEF Secrets!Informers
<1> HIDE DEF i
<1>4. informer[i] \in InformerStates
  BY <1>1 DEF SecretInv
<1>5. e \in InformerStates /\ e.state = "running" /\ e.lastUsed = time
  <2>1. CASE current # 0
    <3>1. e = [informer[i] EXCEPT !.lastUsed = time]
      BY <2>1 DEF Secrets!Used
    <3>2. informer[i].state = "running"
      BY <1>1, <1>3, <2>1 DEF SecretInv
    <3>3. e \in InformerStates
      BY <1>2, <1>4, <3>1, ZenonT(30) DEF InformerStates
    <3>4. QED
      BY <1>4, <3>1, <3>2, <3>3 DEF InformerStates
  <2>2. CASE current = 0
    <3>1. e = [state |-> "running", synced |-> FALSE, store |-> 0, lastUsed |-> time]
      BY Zenon, <2>2 DEF Secrets!Unborn
    <3>2. [state |-> "running", synced |-> FALSE, store |-> 0, lastUsed |-> time] \in InformerStates
      BY <1>2 DEF InformerStates
    <3>3. QED
      BY <3>1, <3>2
  <2>3. QED
    BY <2>1, <2>2
<1> HIDE DEF e
<1>6. informer' \in [Secrets!Informers -> InformerStates] /\ informer'[i] = e
  BY <1>1, <1>5 DEF SecretInv
<1>7. reader' \in [Readers -> ReaderStates]
  <2>1. [at |-> "wait", entry |-> i, since |-> time] \in ReaderStates
    BY <1>2, <1>3 DEF ReaderStates
  <2>2. QED
    BY <1>1, <2>1 DEF SecretInv
<1>8. ASSUME NEW q \in Readers, reader'[q].at = "wait" PROVE Waits(q)'
  <2>1. CASE q = r
    <3>1. reader'[q] = [at |-> "wait", entry |-> i, since |-> time]
      BY <1>1, <2>1 DEF SecretInv
    <3>2. QED
      BY <1>1, <1>2, <1>3, <1>5, <1>6, <3>1 DEF Waits
  <2>2. CASE q # r
    <3>1. reader'[q] = reader[q] /\ reader[q] \in ReaderStates
      BY <1>1, <2>2 DEF SecretInv
    <3>2. Waits(q)
      BY <1>1, <1>8, <3>1 DEF SecretInv
    <3>3. i = current
      BY <1>3, <3>2 DEF Waits
    <3>4. reader[q].since <= time
      BY <1>2, <1>8, <3>1, <3>2 DEF Waits
    <3>5. QED
      BY ZenonT(30), <1>1, <1>2, <1>3, <1>5, <1>6, <3>1, <3>2, <3>3, <3>4 DEF Waits
  <2>3. QED
    BY <2>1, <2>2
<1>9. current' \in 0..MaxInformers /\ informer'[current'].state = "running"
  BY <1>1, <1>2, <1>3, <1>5, <1>6
<1>10. QED
  BY <1>1, <1>6, <1>7, <1>8, <1>9
     DEF SecretInv, Secrets!ServedByARunningInformer, Secrets!NoAnswer, Secrets!Informers
\* The janitor's lease is longer than any wait: it stops no informer that a
\* read waits for.
LEMMA SecretSweep ==
  ASSUME Secrets!SecretWatchAssumption, SecretInv, Secrets!Sweep
  PROVE  SecretInv'
<1>1. /\ current' = 0 /\ answer' = Secrets!NoAnswer
      /\ informer' = [informer EXCEPT ![current].state = "stopped"]
      /\ UNCHANGED <<time, secret, rotated, reader, open>>
      /\ open /\ current # 0 /\ time - informer[current].lastUsed > IdleTTL
  BY DEF Secrets!Sweep, Secrets!StopCurrent
<1>2. MaxInformers \in Nat /\ current \in Secrets!Informers /\ informer[current] \in InformerStates
  BY <1>1 DEF Secrets!SecretWatchAssumption, SecretInv, Secrets!Informers
<1>3. ASSUME NEW r \in Readers, reader[r].at = "wait" PROVE FALSE
  <2>1. Waits(r) /\ reader[r].since \in Nat /\ time \in Nat
    BY <1>1, <1>3 DEF SecretInv, ReaderStates
  <2>2. informer[current].lastUsed \in Nat
    BY <1>2 DEF InformerStates
  <2>3. SyncTimeout \in Nat /\ IdleTTL \in Nat /\ SyncTimeout < IdleTTL
    BY DEF Secrets!SecretWatchAssumption
  <2>4. QED
    BY <1>1, <2>1, <2>2, <2>3 DEF Waits
<1>4. [informer[current] EXCEPT !.state = "stopped"] \in InformerStates
  BY <1>2, ZenonT(30) DEF InformerStates
<1>5. informer' \in [Secrets!Informers -> InformerStates]
  BY <1>1, <1>2, <1>4 DEF SecretInv
<1>6. QED
  BY <1>1, <1>2, <1>3, <1>5
     DEF SecretInv, Secrets!ServedByARunningInformer, Secrets!NoAnswer, Secrets!Informers

LEMMA SecretEnd ==
  ASSUME Secrets!SecretWatchAssumption, SecretInv, Secrets!End
  PROVE  SecretInv'
<1>1. open' = FALSE /\ answer' = Secrets!NoAnswer /\ UNCHANGED <<time, secret, rotated, reader>>
  BY DEF Secrets!End, Secrets!StopCurrent
<1>2. MaxInformers \in Nat
  BY DEF Secrets!SecretWatchAssumption
<1>3. current' \in 0..MaxInformers /\ informer' \in [Secrets!Informers -> InformerStates]
  <2>1. CASE current # 0
    <3>1. /\ current' = 0 /\ informer' = [informer EXCEPT ![current].state = "stopped"]
          /\ current \in Secrets!Informers /\ informer[current] \in InformerStates
      BY <1>2, <2>1 DEF Secrets!End, Secrets!StopCurrent, SecretInv, Secrets!Informers
    <3>2. [informer[current] EXCEPT !.state = "stopped"] \in InformerStates
      BY <3>1, ZenonT(30) DEF InformerStates
    <3>3. QED
      BY <1>2, <3>1, <3>2 DEF SecretInv
  <2>2. CASE current = 0
    BY <2>2 DEF Secrets!End, SecretInv
  <2>3. QED
    BY <2>1, <2>2
<1>4. QED
  BY Zenon, <1>1, <1>3 DEF SecretInv, Secrets!ServedByARunningInformer, Secrets!NoAnswer, Secrets!Informers

LEMMA SecretObserve ==
  ASSUME Secrets!SecretWatchAssumption, SecretInv, NEW i \in Secrets!Informers, Secrets!Observe(i)
  PROVE  SecretInv'
<1> DEFINE e == [informer[i] EXCEPT !.synced = TRUE, !.store = secret]
<1>1. /\ informer' = [informer EXCEPT ![i] = e] /\ answer' = Secrets!NoAnswer
      /\ UNCHANGED <<time, secret, rotated, current, reader, open>>
  BY Zenon DEF Secrets!Observe
<1>2. informer[i] \in InformerStates /\ secret \in Nat
  BY DEF SecretInv
<1>3. e \in InformerStates
  BY <1>2, ZenonT(30) DEF InformerStates
<1>4. e.state = informer[i].state /\ e.lastUsed = informer[i].lastUsed
  BY <1>2 DEF InformerStates
<1> HIDE DEF e
<1>5. informer' \in [Secrets!Informers -> InformerStates]
  BY <1>1, <1>3 DEF SecretInv
<1>6. \A j \in Secrets!Informers : /\ informer'[j].state = informer[j].state
                                    /\ informer'[j].lastUsed = informer[j].lastUsed
  BY <1>1, <1>4 DEF SecretInv
<1>7. current # 0 => current \in Secrets!Informers
  BY DEF SecretInv, Secrets!Informers, Secrets!SecretWatchAssumption
<1>8. ASSUME NEW r \in Readers, open, reader[r].at = "wait" PROVE Waits(r)'
  <2>1. Waits(r)
    BY <1>8 DEF SecretInv
  <2>2. QED
    BY <1>1, <1>6, <1>7, <2>1 DEF Waits
<1>9. QED
  BY <1>1, <1>5, <1>6, <1>7, <1>8
     DEF SecretInv, Secrets!ServedByARunningInformer, Secrets!NoAnswer, Secrets!Informers
LEMMA SecretRead ==
  ASSUME Secrets!SecretWatchAssumption, SecretInv, NEW r \in Readers,
         Secrets!ReadStore(r) \/ Secrets!ReadLive(r)
  PROVE  SecretInv'
<1>1. /\ reader' = [reader EXCEPT ![r] = Secrets!Idle]
      /\ UNCHANGED <<time, secret, rotated, current, informer, open>> /\ reader[r].at = "wait"
  BY Zenon DEF Secrets!ReadStore, Secrets!ReadLive
<1>2. Secrets!Idle \in ReaderStates /\ Secrets!Idle.at = "idle"
  BY DEF Secrets!Idle, ReaderStates
<1>3. reader' \in [Readers -> ReaderStates]
  BY Zenon, <1>1, <1>2 DEF SecretInv
<1>4. ASSUME NEW q \in Readers, open, reader'[q].at = "wait" PROVE Waits(q)'
  <2>1. reader'[q] = reader[q]
    BY Zenon, <1>1, <1>2, <1>4 DEF SecretInv
  <2>2. Waits(q)
    BY <1>4, <2>1 DEF SecretInv
  <2>3. QED
    BY <1>1, <2>1, <2>2 DEF Waits
<1>5. open => answer'.from # "stopped"
  <2>1. CASE Secrets!ReadLive(r)
    BY <2>1 DEF Secrets!ReadLive
  <2>2. CASE Secrets!ReadStore(r) /\ open
    <3>1. answer'.from = informer[reader[r].entry].state
      BY <2>2 DEF Secrets!ReadStore
    <3>2. Waits(r)
      BY <1>1, <2>2 DEF SecretInv
    <3>3. informer[reader[r].entry].state = "running"
      BY Zenon, <2>2, <3>2 DEF SecretInv, Waits
    <3>4. QED
      BY Zenon, <3>1, <3>3
  <2>3. QED
    BY Zenon, <2>1, <2>2
<1>6. QED
  BY Zenon, <1>1, <1>3, <1>4, <1>5 DEF SecretInv, Secrets!ServedByARunningInformer, Secrets!Informers

LEMMA SecretRotate ==
  ASSUME Secrets!SecretWatchAssumption, SecretInv,
         Secrets!Rotate \/ UNCHANGED Secrets!secretVars
  PROVE  SecretInv'
<1>1. /\ UNCHANGED <<time, current, informer, reader, open>> /\ secret' \in Nat /\ rotated' \in Nat
      /\ answer' = Secrets!NoAnswer \/ answer' = answer
  BY DEF Secrets!Rotate, Secrets!secretVars, SecretInv
<1>2. QED
  BY <1>1 DEF SecretInv, Waits, Secrets!ServedByARunningInformer, Secrets!NoAnswer, Secrets!Informers

\* secretwatch.go: the janitor never stops an informer that a request reads
\* from, so no Secret is served out of a store that nothing updates.  It holds
\* for any readers, rotations and timeouts, because IdleTTL exceeds SyncTimeout
\* and a hit renews the lease: both are needed.
THEOREM SecretsServedLive ==
  ASSUME Secrets!SecretWatchAssumption
  PROVE  Secrets!Spec => []ServedByARunningInformer
<1>1. Secrets!Init => SecretInv
  <2> SUFFICES ASSUME Secrets!Init PROVE SecretInv
    OBVIOUS
  <2>1. Secrets!Unborn \in InformerStates
    BY DEF Secrets!Unborn, InformerStates
  <2>2. Secrets!Idle \in ReaderStates /\ Secrets!Idle.at = "idle"
    BY DEF Secrets!Idle, ReaderStates
  <2>3. informer \in [Secrets!Informers -> InformerStates] /\ reader \in [Readers -> ReaderStates]
    BY <2>1, <2>2 DEF Secrets!Init
  <2>4. /\ time \in Nat /\ secret \in Nat /\ rotated \in Nat /\ open \in BOOLEAN
        /\ current = 0 /\ 0 \in 0..MaxInformers
    BY DEF Secrets!Init, Secrets!SecretWatchAssumption
  <2>5. \A r \in Readers : reader[r].at # "wait"
    BY <2>2 DEF Secrets!Init
  <2>6. Secrets!ServedByARunningInformer
    BY DEF Secrets!Init, Secrets!ServedByARunningInformer, Secrets!NoAnswer
  <2> QED
    BY Zenon, <2>3, <2>4, <2>5, <2>6 DEF SecretInv
<1>2. SecretInv /\ [Secrets!Next]_(Secrets!secretVars) => SecretInv'
  BY SecretTick, SecretEntry, SecretSweep, SecretEnd, SecretObserve, SecretRead, SecretRotate
     DEF Secrets!Next, Secrets!WatchDone
<1>3. SecretInv => ServedByARunningInformer
  BY DEF SecretInv, ServedByARunningInformer
<1>4. QED
  BY <1>1, <1>2, <1>3, PTL DEF Secrets!Spec

-----------------------------------------------------------------------------
(* TrustLoader *)

Two == {"f1", "f2"}
Numbers == [Two -> Nat]
Texts == [number : Nat, form : Trust!Forms]
FileVersions == [Two -> Texts]
DiskFiles == [there : BOOLEAN, version : Texts, mtime : Nat]
LoadCalls == [at : {"idle", "stat", "read"}, file : Two, mtimes : Numbers, versions : FileVersions,
              touched : BOOLEAN]
CacheEntries == [some : BOOLEAN, mtimes : Numbers, versions : FileVersions]

TrustTypes ==
  /\ kind \in {"ca", "cert"} /\ writes \in Nat
  /\ disk \in [Two -> DiskFiles] /\ call \in LoadCalls /\ loaded \in CacheEntries

\* A modification time identifies a version: what is cached, or was read by the
\* load under way, under the time the file has now is the version it has now.
Identified(m, v, f) ==
  m[f] <= writes /\ (m[f] = disk[f].mtime => v[f] = disk[f].version)

LoadedTrue ==
  loaded.some => /\ \A f \in Trust!Stamped : Identified(loaded.mtimes, loaded.versions, f)
                 /\ Trust!Usable(loaded.versions)

CallTrue ==
  /\ \A f \in Two : call.mtimes[f] <= writes
  /\ call.at = "stat" /\ call.file = "f2" =>
       kind = "ca" /\ (~call.touched => call.mtimes["f1"] = disk["f1"].mtime)
  /\ call.at = "read" /\ call.file = "f2" =>
       /\ Identified(call.mtimes, call.versions, "f1")
       /\ ~call.touched => call.versions["f1"] = disk["f1"].version

TrustInv ==
  /\ TrustTypes
  /\ \A f \in Two : disk[f].mtime <= writes
  /\ LoadedTrue /\ CallTrue
  /\ Trust!FreshWhenQuiet

\* A file that changes gets a modification time it never had, or keeps version
\* and time (it is removed).
LEMMA TrustChange ==
  ASSUME TrustInv, NEW f \in Two, NEW new \in DiskFiles, Trust!Change(f, new),
         new.mtime = writes + 1 \/ (new.mtime = disk[f].mtime /\ new.version = disk[f].version)
  PROVE  TrustInv'
<1>1. /\ writes' = writes + 1 /\ disk' = [disk EXCEPT ![f] = new] /\ served' = Trust!Nothing
      /\ call' = [call EXCEPT !.touched = call.at # "idle"] /\ UNCHANGED <<kind, loaded>>
  BY DEF Trust!Change
<1>2. writes \in Nat /\ disk \in [Two -> DiskFiles] /\ call \in LoadCalls /\ loaded \in CacheEntries
  BY DEF TrustInv, TrustTypes
<1>3. disk' \in [Two -> DiskFiles] /\ disk'[f] = new /\ \A g \in Two : g # f => disk'[g] = disk[g]
  BY <1>1, <1>2
<1>4. (call.at # "idle") \in BOOLEAN
  OBVIOUS
<1>5. call' \in LoadCalls
  BY <1>1, <1>2, <1>4, ZenonT(30) DEF LoadCalls
<1>6. /\ call'.at = call.at /\ call'.file = call.file /\ call'.mtimes = call.mtimes
      /\ call'.versions = call.versions /\ call'.touched = (call.at # "idle")
  BY <1>1, <1>2 DEF LoadCalls
<1>7. \A g \in Two : disk[g].mtime \in Nat /\ disk[g].mtime <= writes /\ disk'[g].mtime <= writes'
  BY <1>1, <1>2, <1>3 DEF TrustInv, DiskFiles
<1>8. ASSUME NEW g \in Two, NEW m \in Numbers, NEW v \in FileVersions, Identified(m, v, g)
      PROVE  Identified(m, v, g)'
  <2>1. m[g] \in Nat /\ m[g] <= writes
    BY <1>8 DEF Numbers, Identified
  <2>2. CASE g = f
    BY <1>1, <1>2, <1>3, <1>7, <1>8, <2>1, <2>2 DEF Identified
  <2>3. CASE g # f
    BY <1>1, <1>2, <1>3, <1>8, <2>1, <2>3 DEF Identified
  <2>4. QED
    BY Zenon, <2>2, <2>3
<1>9. /\ loaded.mtimes \in Numbers /\ loaded.versions \in FileVersions
      /\ call.mtimes \in Numbers /\ call.versions \in FileVersions
  BY <1>2 DEF CacheEntries, LoadCalls
<1>10. LoadedTrue'
  <2>1. SUFFICES ASSUME loaded.some
                 PROVE  /\ \A g \in Trust!Stamped : Identified(loaded.mtimes, loaded.versions, g)'
                        /\ Trust!Usable(loaded.versions)
    BY <1>1 DEF LoadedTrue, Trust!Stamped, Trust!Usable, Trust!Files
  <2>2. Trust!Stamped \subseteq Two
    BY Zenon DEF Trust!Stamped, Trust!Files, Two
  <2>3. \A g \in Trust!Stamped : Identified(loaded.mtimes, loaded.versions, g)
    BY <2>1 DEF TrustInv, LoadedTrue
  <2>4. Trust!Usable(loaded.versions)
    BY Zenon, <2>1 DEF TrustInv, LoadedTrue
  <2>5. ASSUME NEW g \in Trust!Stamped
        PROVE  Identified(loaded.mtimes, loaded.versions, g)'
    <3>1. loaded' = loaded
      BY Zenon, <1>1
    <3>2. Identified(loaded.mtimes, loaded.versions, g)
      BY <2>3
    <3>3. QED
      BY <1>8, <1>9, <2>2, <3>1, <3>2 DEF Identified
  <2>6. QED
    BY <2>4, <2>5
<1>11. CallTrue'
  <2>1. \A g \in Two : call'.mtimes[g] <= writes'
    BY <1>1, <1>2, <1>6, <1>9 DEF TrustInv, CallTrue, Numbers
  <2>2. call'.at # "idle" => call'.touched
    BY Zenon, <1>6
  <2>3. call.at = "stat" /\ call.file = "f2" => kind = "ca"
    BY Zenon DEF TrustInv, CallTrue
  <2>4. call.at = "read" /\ call.file = "f2" => Identified(call.mtimes, call.versions, "f1")'
    <3>1. call.at = "read" /\ call.file = "f2" => Identified(call.mtimes, call.versions, "f1")
      BY DEF TrustInv, CallTrue
    <3>2. "f1" \in Two
      BY DEF Two
    <3>3. PICK m, v : m = call.mtimes /\ v = call.versions
      BY Zenon
    <3>4. Identified(m, v, "f1") => Identified(m, v, "f1")'
      BY Zenon, <1>8, <1>9, <3>2, <3>3
    <3>5. m = call'.mtimes /\ v = call'.versions
      BY Zenon, <1>6, <3>3
    <3>6. Identified(m, v, "f1")' => Identified(call.mtimes, call.versions, "f1")'
      BY Zenon, <3>5 DEF Identified
    <3>7. Identified(call.mtimes, call.versions, "f1") => Identified(m, v, "f1")
      BY Zenon, <3>3
    <3>8. call'.at = call.at /\ call'.file = call.file
      BY Zenon, <1>6
    <3>9. QED
      BY Zenon, <3>1, <3>4, <3>6, <3>7, <3>8
  <2>5. QED
    BY <1>1, <1>6, <2>1, <2>2, <2>3, <2>4 DEF CallTrue
<1>12. Trust!FreshWhenQuiet'
  BY <1>1 DEF Trust!FreshWhenQuiet, Trust!Nothing
<1>13. TrustTypes'
  BY <1>1, <1>2, <1>3, <1>5 DEF TrustInv, TrustTypes
<1>14. QED
  BY <1>7, <1>10, <1>11, <1>12, <1>13 DEF TrustInv

LEMMA TrustFiles ==
  ASSUME TrustInv, NEW f \in Two, Trust!Rewrite(f) \/ Trust!Complete(f) \/ Trust!RemoveFile(f)
  PROVE  TrustInv'
<1>1. writes \in Nat /\ disk[f] \in DiskFiles
  BY Zenon DEF TrustInv, TrustTypes
<1>2. /\ disk[f].version.number \in Nat /\ disk[f].version.number + 1 \in Nat
      /\ writes + 1 \in Nat /\ "whole" \in Trust!Forms
  BY <1>1 DEF DiskFiles, Texts, Trust!Forms
<1>new. ASSUME NEW number \in Nat, NEW form \in Trust!Forms,
               Trust!Change(f, [there |-> TRUE, version |-> Trust!Version(number, form),
                                mtime |-> writes + 1])
        PROVE  TrustInv'
  <2> DEFINE new == [there |-> TRUE, version |-> Trust!Version(number, form), mtime |-> writes + 1]
  <2>1. Trust!Version(number, form) \in Texts
    BY ZenonT(30), <1>new DEF Texts, Trust!Version
  <2>2. new \in DiskFiles /\ new.mtime = writes + 1 /\ Trust!Change(f, new)
    BY <1>2, <1>new, <2>1, ZenonT(30) DEF DiskFiles
  <2> HIDE DEF new
  <2>3. QED
    BY Zenon, <2>2, TrustChange
<1>3. CASE Trust!Rewrite(f)
  BY Zenon, <1>2, <1>3, <1>new DEF Trust!Rewrite
<1>4. CASE Trust!Complete(f)
  BY Zenon, <1>2, <1>4, <1>new DEF Trust!Complete
<1>5. CASE Trust!RemoveFile(f)
  <2> DEFINE new == [disk[f] EXCEPT !.there = FALSE]
  <2>1. new \in DiskFiles
    BY <1>1, ZenonT(30) DEF DiskFiles
  <2>2. new.mtime = disk[f].mtime /\ new.version = disk[f].version
    BY <1>1 DEF DiskFiles
  <2>3. Trust!Change(f, new)
    BY <1>5 DEF Trust!RemoveFile
  <2> HIDE DEF new
  <2>4. QED
    BY <2>1, <2>2, <2>3, TrustChange
<1>6. QED
  BY <1>3, <1>4, <1>5

LEMMA NoLoad == Trust!NoCall \in LoadCalls /\ Trust!Unseen \in Numbers /\ Trust!Unread \in FileVersions
                /\ Trust!NoCall.at = "idle" /\ Trust!NoCall.mtimes = Trust!Unseen
                /\ \A f \in Two : Trust!Unseen[f] = 0
<1>1. Trust!Unseen \in Numbers /\ \A f \in Two : Trust!Unseen[f] = 0
  BY DEF Trust!Unseen, Numbers, Trust!Files, Two
<1>2. "f1" \in Two /\ FALSE \in BOOLEAN
  BY DEF Two
<1>3. Trust!Unread \in FileVersions
  <2>1. Trust!Version(0, "cut") \in Texts
    BY DEF Trust!Version, Texts, Trust!Forms
  <2>2. QED
    BY Zenon, <2>1 DEF Trust!Unread, FileVersions, Trust!Files, Two
<1>4. Trust!NoCall \in LoadCalls
  BY <1>1, <1>2, <1>3, ZenonT(30) DEF Trust!NoCall, LoadCalls
<1>5. QED
  BY <1>1, <1>3, <1>4 DEF Trust!NoCall

\* A load that returns leaves the cache as it was.
LEMMA TrustReturn ==
  ASSUME TrustInv, NEW error, NEW found, Trust!Return(error, found),
         UNCHANGED <<kind, disk, writes>>, TrustTypes', LoadedTrue', Trust!FreshWhenQuiet'
  PROVE  TrustInv'
<1>1. call' = Trust!NoCall
  BY Zenon DEF Trust!Return
<1>2. \A f \in Two : call'.mtimes[f] <= writes'
  BY <1>1, NoLoad DEF TrustInv, TrustTypes
<1>3. CallTrue'
  BY Zenon, <1>1, <1>2, NoLoad DEF CallTrue
<1>4. QED
  BY <1>3 DEF TrustInv

\* The versions on disk, and when they count.
OnDisk == [f \in Two |-> disk[f].version]

LEMMA Quietly ==
  ASSUME NEW error, NEW found, Trust!Return(error, found), UNCHANGED <<kind, disk>>,
         ~call.touched /\ Trust!Settled /\ Trust!Usable(OnDisk) => ~error /\ found = OnDisk
  PROVE  Trust!FreshWhenQuiet'
<1>1. /\ served'.ended /\ served'.touched = call.touched
      /\ served'.error = error /\ served'.versions = found
  BY DEF Trust!Return
<1>2. Trust!Settled' = Trust!Settled /\ Trust!Usable(OnDisk)' = Trust!Usable(OnDisk) /\ OnDisk' = OnDisk
  BY Zenon DEF Trust!Settled, Trust!Usable, OnDisk
<1>3. OnDisk' = [f \in Trust!Files |-> disk'[f].version]
  BY Zenon DEF OnDisk, Trust!Files, Two
<1>4. QED
  BY <1>1, <1>2, <1>3 DEF Trust!FreshWhenQuiet

LEMMA TrustStat ==
  ASSUME TrustInv, Trust!Stat
  PROVE  TrustInv'
<1> DEFINE f == call.file
           mtimes == [call.mtimes EXCEPT ![f] = disk[f].mtime]
<1>1. /\ UNCHANGED <<kind, disk, writes, loaded>> /\ call.at = "stat"
      /\ call \in LoadCalls /\ disk \in [Two -> DiskFiles] /\ loaded \in CacheEntries
      /\ writes \in Nat /\ kind \in {"ca", "cert"}
  BY DEF Trust!Stat, TrustInv, TrustTypes
<1>2. f \in Two /\ call.mtimes \in Numbers /\ call.versions \in FileVersions /\ loaded.mtimes \in Numbers
      /\ loaded.versions \in FileVersions
  BY Zenon, <1>1 DEF LoadCalls, CacheEntries
<1>3. /\ mtimes \in Numbers /\ mtimes[f] = disk[f].mtime
      /\ \A g \in Two : g # f => mtimes[g] = call.mtimes[g]
  BY Zenon, <1>1, <1>2 DEF Numbers, DiskFiles
<1>4. \A g \in Two : mtimes[g] <= writes
  BY ZenonT(30), <1>2, <1>3 DEF TrustInv, CallTrue
<1>5. LoadedTrue'
  BY <1>1 DEF TrustInv, LoadedTrue, Identified, Trust!Stamped, Trust!Usable
<1>6. ASSUME NEW error, NEW found, Trust!Return(error, found),
             ~call.touched /\ Trust!Settled /\ Trust!Usable(OnDisk) => ~error /\ found = OnDisk
      PROVE  TrustInv'
  <2>1. TrustTypes'
    BY <1>1, <1>6, NoLoad DEF TrustTypes, Trust!Return
  <2>2. Trust!FreshWhenQuiet'
    BY <1>1, <1>6, Quietly
  <2>3. QED
    BY ZenonT(30), <1>1, <1>5, <1>6, <2>1, <2>2, TrustReturn
<1>7. CASE ~disk[f].there
  <2>1. ~Trust!Settled
    BY <1>2, <1>7 DEF Trust!Settled, Trust!Files, Two
  <2>2. CASE kind = "ca"
    <3>1. Trust!Return(~loaded.some, loaded.versions)
      BY <1>7, <2>2 DEF Trust!Stat, Trust!Keep
    <3>2. QED
      BY <1>6, <2>1, <3>1
  <2>3. CASE kind # "ca"
    <3>1. Trust!Return(TRUE, Trust!Unread)
      BY Zenon, <1>7, <2>3 DEF Trust!Stat
    <3>2. QED
      BY Zenon, <1>6, <2>1, <3>1
  <2>4. QED
    BY <2>2, <2>3
<1>8. CASE disk[f].there /\ f = "f1" /\ kind = "ca"
  <2>1. call' = [call EXCEPT !.file = "f2", !.mtimes = mtimes] /\ served' = served
    BY <1>8 DEF Trust!Stat
  <2> HIDE DEF mtimes
  <2>2. "f2" \in Two
    BY DEF Two
  <2>3. call' \in LoadCalls
    BY <1>1, <1>3, <2>1, <2>2, ZenonT(30) DEF LoadCalls
  <2>4. call'.at = "stat" /\ call'.file = "f2" /\ call'.mtimes = mtimes
    BY ZenonT(30), <1>1, <2>1 DEF LoadCalls
  <2>5. CallTrue'
    BY <1>1, <1>3, <1>4, <1>8, <2>4 DEF CallTrue
  <2>6. TrustTypes' /\ Trust!FreshWhenQuiet'
    BY <1>1, <2>1, <2>3
       DEF TrustTypes, TrustInv, Trust!FreshWhenQuiet, Trust!Settled, Trust!Usable
  <2>7. QED
    BY <1>1, <1>5, <2>5, <2>6 DEF TrustInv
<1>9. CASE disk[f].there /\ ~(f = "f1" /\ kind = "ca") /\ loaded.some /\ Trust!SameMtimes(mtimes)
  <2>1. Trust!Return(FALSE, loaded.versions)
    BY ZenonT(30), <1>9 DEF Trust!Stat
  <2>2. ASSUME ~call.touched, Trust!Usable(OnDisk) PROVE loaded.versions = OnDisk
    <3>1. \A g \in Trust!Stamped : mtimes[g] = disk[g].mtime
      <4>1. CASE kind = "ca"
        BY Zenon, <1>1, <1>2, <1>3, <1>9, <2>2, <4>1 DEF TrustInv, CallTrue, Two, Trust!Stamped, Trust!Files
      <4>2. CASE kind # "ca"
        <5>1. f = "f1"
          BY Zenon, <1>1, <1>2, <4>2 DEF TrustInv, CallTrue, Two
        <5>2. QED
          BY Zenon, <1>3, <4>2, <5>1 DEF Trust!Stamped
      <4>3. QED
        BY Zenon, <4>1, <4>2
    <3>2. \A g \in Trust!Stamped : loaded.versions[g] = disk[g].version
      <4>1. \A g \in Trust!Stamped : loaded.mtimes[g] = disk[g].mtime
        BY Zenon, <1>9, <3>1 DEF Trust!SameMtimes
      <4>2. QED
        BY Zenon, <1>9, <4>1 DEF TrustInv, LoadedTrue, Identified
    <3>3. \A g \in Two : loaded.versions[g] = disk[g].version
      <4>1. CASE kind = "ca"
        BY <3>2, <4>1 DEF Trust!Stamped, Trust!Files, Two
      <4>2. CASE kind # "ca"
        <5>1. /\ loaded.versions["f1"].number = loaded.versions["f2"].number
              /\ loaded.versions["f2"].form = "whole"
          BY Zenon, <1>9, <4>2 DEF TrustInv, LoadedTrue, Trust!Usable
        <5>2. /\ disk["f1"].version.number = disk["f2"].version.number
              /\ disk["f2"].version.form = "whole"
          BY Zenon, <2>2, <4>2 DEF Trust!Usable, OnDisk, Two
        <5>3. loaded.versions["f1"] = disk["f1"].version
          BY Zenon, <3>2, <4>2 DEF Trust!Stamped
        <5>4. loaded.versions["f2"] \in Texts /\ disk["f2"].version \in Texts
          BY Zenon, <1>1, <1>2 DEF FileVersions, DiskFiles, Two
        <5>5. loaded.versions["f2"] = disk["f2"].version
          BY <5>1, <5>2, <5>3, <5>4 DEF Texts
        <5>6. QED
          BY Zenon, <5>3, <5>5 DEF Two
      <4>3. QED
        BY <4>1, <4>2
    <3>4. QED
      BY <1>2, <3>3 DEF OnDisk, FileVersions
  <2>3. QED
    BY Zenon, <1>6, <2>1, <2>2
<1>10. CASE disk[f].there /\ ~(f = "f1" /\ kind = "ca") /\ ~(loaded.some /\ Trust!SameMtimes(mtimes))
  <2>1. call' = [call EXCEPT !.at = "read", !.file = "f1", !.mtimes = mtimes] /\ served' = served
    BY Zenon, <1>10 DEF Trust!Stat
  <2> HIDE DEF mtimes
  <2>2. "f1" \in Two /\ "read" \in {"idle", "stat", "read"}
    BY DEF Two
  <2>3. call' \in LoadCalls
    BY <1>1, <1>3, <2>1, <2>2, ZenonT(30) DEF LoadCalls
  <2>4. call'.at = "read" /\ call'.file = "f1" /\ call'.mtimes = mtimes
    BY Zenon, <1>1, <2>1 DEF LoadCalls
  <2>5. CallTrue'
    BY <1>1, <1>4, <2>4 DEF CallTrue
  <2>6. TrustTypes' /\ Trust!FreshWhenQuiet'
    BY Zenon, <1>1, <2>1, <2>3
       DEF TrustTypes, TrustInv, Trust!FreshWhenQuiet, Trust!Settled, Trust!Usable
  <2>7. QED
    BY <1>1, <1>5, <2>5, <2>6 DEF TrustInv
<1>11. QED
  BY <1>7, <1>8, <1>9, <1>10

LEMMA TrustRead ==
  ASSUME TrustInv, Trust!ReadFile
  PROVE  TrustInv'
<1> DEFINE f == call.file
           found == [call.versions EXCEPT ![f] = disk[f].version]
<1>1. /\ UNCHANGED <<kind, disk, writes>> /\ call.at = "read"
      /\ call \in LoadCalls /\ disk \in [Two -> DiskFiles] /\ loaded \in CacheEntries
      /\ writes \in Nat /\ kind \in {"ca", "cert"}
  BY DEF Trust!ReadFile, TrustInv, TrustTypes
<1>2. f \in Two /\ call.mtimes \in Numbers /\ call.versions \in FileVersions
  BY ZenonT(30), <1>1 DEF LoadCalls
<1>3. /\ found \in FileVersions /\ found[f] = disk[f].version
      /\ \A g \in Two : g # f => found[g] = call.versions[g]
  BY <1>1, <1>2 DEF FileVersions, DiskFiles
<1>4. ASSUME Trust!Keep, loaded' = loaded,
             ~(~call.touched /\ Trust!Settled /\ Trust!Usable(OnDisk))
      PROVE  TrustInv'
  <2>1. Trust!Return(~loaded.some, loaded.versions)
    BY Zenon, <1>4 DEF Trust!Keep
  <2>2. TrustTypes' /\ LoadedTrue'
    BY Zenon, <1>1, <1>4, <2>1, NoLoad
       DEF TrustTypes, Trust!Return, TrustInv, LoadedTrue, Identified, Trust!Stamped, Trust!Usable
  <2>3. Trust!FreshWhenQuiet'
    BY <1>1, <1>4, <2>1, Quietly
  <2>4. QED
    BY <1>1, <2>1, <2>2, <2>3, TrustReturn
<1>5. CASE ~disk[f].there \/ disk[f].version.form = "cut"
  <2>1. ~Trust!Settled
    BY <1>2, <1>5 DEF Trust!Settled, Trust!Files, Two
  <2>2. QED
    BY ZenonT(30), <1>4, <1>5, <2>1 DEF Trust!ReadFile
<1>6. CASE disk[f].there /\ disk[f].version.form # "cut" /\ f = "f1"
  <2>1. /\ call' = [call EXCEPT !.file = "f2", !.versions = found]
        /\ served' = served /\ loaded' = loaded
    BY <1>6 DEF Trust!ReadFile
  <2> HIDE DEF found
  <2>2. "f2" \in Two
    BY DEF Two
  <2>3. call' \in LoadCalls
    BY <1>1, <1>3, <2>1, <2>2, ZenonT(30) DEF LoadCalls
  <2>4. /\ call'.at = "read" /\ call'.mtimes = call.mtimes /\ call'.versions = found
        /\ call'.touched = call.touched
    BY <1>1, <2>1 DEF LoadCalls
  <2>5. CallTrue'
    <3>1. \A g \in Two : call.mtimes[g] <= writes
      BY DEF TrustInv, CallTrue
    <3>2. found["f1"] = disk["f1"].version /\ "f1" \in Two
      BY <1>3, <1>6 DEF Two
    <3>3. QED
      BY ZenonT(30), <1>1, <2>4, <3>1, <3>2 DEF CallTrue, Identified
  <2>6. TrustTypes' /\ Trust!FreshWhenQuiet' /\ LoadedTrue'
    BY Zenon, <1>1, <2>1, <2>3
       DEF TrustTypes, TrustInv, Trust!FreshWhenQuiet, Trust!Settled, Trust!Usable, LoadedTrue,
           Identified, Trust!Stamped
  <2>7. QED
    BY <1>1, <2>5, <2>6 DEF TrustInv
<1>7. CASE disk[f].there /\ disk[f].version.form # "cut" /\ f # "f1"
  <2>1. f = "f2" /\ "f1" \in Two
    BY Zenon, <1>2, <1>7 DEF Two
  <2>2. found["f1"] = call.versions["f1"] /\ found["f2"] = disk["f2"].version
    BY Zenon, <1>3, <2>1
  <2>3. Identified(call.mtimes, found, "f1")
    BY Zenon, <1>1, <2>1, <2>2 DEF TrustInv, CallTrue, Identified
  <2>4. Identified(call.mtimes, found, "f2")
    BY Zenon, <1>2, <2>1, <2>2 DEF TrustInv, CallTrue, Identified
  <2>5. ~call.touched => found = OnDisk
    <3>1. ~call.touched => \A g \in Two : found[g] = disk[g].version
      BY <1>1, <2>1, <2>2 DEF TrustInv, CallTrue, Two
    <3>2. QED
      BY ZenonT(30), <1>3, <3>1 DEF OnDisk, FileVersions
  <2>6. CASE ~Trust!Usable(found)
    BY Zenon, <1>4, <1>7, <2>5, <2>6 DEF Trust!ReadFile
  <2>7. CASE Trust!Usable(found)
    <3>1. /\ loaded' = [some |-> TRUE, mtimes |-> call.mtimes, versions |-> found]
          /\ Trust!Return(FALSE, found)
      BY ZenonT(30), <1>7, <2>7 DEF Trust!ReadFile, Trust!Stamps
    <3> HIDE DEF found
    <3>2. [some |-> TRUE, mtimes |-> call.mtimes, versions |-> found] \in CacheEntries
      BY <1>2, <1>3 DEF CacheEntries
    <3>3. TrustTypes'
      BY Zenon, <1>1, <3>1, <3>2, NoLoad DEF TrustTypes, Trust!Return
    <3>4. LoadedTrue'
      <4>1. loaded'.mtimes = call.mtimes /\ loaded'.versions = found
        BY <3>1
      <4>2. \A g \in Trust!Stamped : g = "f1" \/ g = "f2"
        BY DEF Trust!Stamped, Trust!Files
      <4>3. Trust!Stamped' = Trust!Stamped
        BY Zenon, <1>1 DEF Trust!Stamped
      <4>4. QED
        BY ZenonT(30), <1>1, <2>3, <2>4, <2>7, <4>1, <4>2, <4>3 DEF LoadedTrue, Identified, Trust!Usable
    <3>5. Trust!FreshWhenQuiet'
      BY Zenon, <1>1, <2>5, <3>1, Quietly
    <3>6. QED
      BY Zenon, <1>1, <3>1, <3>3, <3>4, <3>5, TrustReturn
  <2>8. QED
    BY <2>6, <2>7
<1>8. QED
  BY <1>5, <1>6, <1>7

\* The TLS loaders (tlsutil/loader.go): a load during which nothing was written,
\* of files that are whole and belong together, returns what is on disk, for
\* any number of rewrites, half-written and missing files before it.  The
\* modification times it compares are those seen before the read, so a file
\* rewritten in between is read again.
THEOREM LoadsFresh == Trust!Spec => []FreshWhenQuiet
<1>1. Trust!Init => TrustInv
  <2> SUFFICES ASSUME Trust!Init PROVE TrustInv
    BY Zenon
  <2>1. TrustTypes
    <3>1. [there |-> TRUE, version |-> Trust!Version(1, "whole"), mtime |-> 0] \in DiskFiles
      BY DEF DiskFiles, Texts, Trust!Version, Trust!Forms
    <3>2. disk \in [Two -> DiskFiles]
      BY Zenon, <3>1 DEF Trust!Init, Trust!Files, Two
    <3>3. loaded \in CacheEntries
      BY ZenonT(30), NoLoad DEF Trust!Init, Trust!NothingLoaded, CacheEntries
    <3>4. QED
      BY ZenonT(30), <3>2, <3>3, NoLoad DEF Trust!Init, TrustTypes
  <2>2. \A f \in Two : disk[f].mtime <= writes /\ call.mtimes[f] <= writes
    BY NoLoad DEF Trust!Init, Trust!Files, Two
  <2>3. QED
    BY Zenon, <2>1, <2>2, NoLoad DEF TrustInv, Trust!Init, LoadedTrue, CallTrue, Trust!FreshWhenQuiet,
                              Trust!Nothing, Trust!NothingLoaded
<1>2. ASSUME TrustInv, [Trust!Next]_(Trust!trustVars) PROVE TrustInv'
  <2>1. CASE Trust!Begin
    <3>1. /\ call' = [Trust!NoCall EXCEPT !.at = "stat"] /\ served' = Trust!Nothing
          /\ UNCHANGED <<kind, disk, writes, loaded>>
      BY <2>1 DEF Trust!Begin
    <3>2. call' \in LoadCalls
      BY <3>1, NoLoad, ZenonT(30) DEF LoadCalls
    <3>3. call'.at = "stat" /\ call'.file = "f1" /\ call'.mtimes = Trust!Unseen
      BY <3>1 DEF Trust!NoCall
    <3>4. CallTrue'
      BY <1>2, <3>1, <3>3, NoLoad DEF CallTrue, TrustInv, TrustTypes
    <3>5. TrustTypes' /\ LoadedTrue' /\ Trust!FreshWhenQuiet'
      BY <1>2, <3>1, <3>2 DEF TrustTypes, TrustInv, LoadedTrue, Identified, Trust!Stamped,
                              Trust!Usable, Trust!FreshWhenQuiet, Trust!Nothing
    <3>6. QED
      BY <1>2, <3>1, <3>4, <3>5 DEF TrustInv
  <2>2. CASE Trust!Stat
    BY <1>2, <2>2, TrustStat
  <2>3. CASE Trust!ReadFile
    BY <1>2, <2>3, TrustRead
  <2>4. CASE \E f \in Two : Trust!Rewrite(f) \/ Trust!Complete(f) \/ Trust!RemoveFile(f)
    BY Zenon, <1>2, <2>4, TrustFiles
  <2>5. CASE UNCHANGED Trust!trustVars
    BY ZenonT(30), <1>2, <2>5 DEF Trust!trustVars, TrustInv, TrustTypes, LoadedTrue, CallTrue, Identified,
                      Trust!Stamped, Trust!Usable, Trust!FreshWhenQuiet, Trust!Settled
  <2>6. QED
    BY <1>2, <2>1, <2>2, <2>3, <2>4, <2>5 DEF Trust!Next, Trust!Files, Two
<1>3. TrustInv => FreshWhenQuiet
  BY DEF TrustInv, FreshWhenQuiet
<1>4. QED
  BY <1>1, <1>2, <1>3, PTL DEF Trust!Spec

-----------------------------------------------------------------------------
(* Catalogue *)

\* The fields of an object; what they hold does not matter here.
Object(o) == {"exists", "deleting", "finalizer", "refs", "ready", "healthy", "users", "fqdn"}
               \subseteq DOMAIN o

\* The status the reconcile of the class, or of the tool, would compute now.
ClassRight(o) == o.ready = Cat!ClassReady(o) /\ o.users = Cat!CountUsers
ToolRight(o) ==
  o.ready = "CredentialsMissing" <=> "secret" \in o.refs /\ ~cache["secret"].exists

\* The API server's object has a status that the copy o does not have, or has
\* been created anew.
Moved(k, o) ==
  \/ ~api[k].finalizer
  \/ api[k].ready # o.ready
  \/ k = "class" /\ api[k].users # o.users

\* A class, or a tool, that is not queued has the right status in the cache, or a
\* status that its informer has yet to deliver, and which will queue it.
ClassInv ==
  "class" \notin queue /\ Cat!Live(cache["class"]) =>
    ClassRight(cache["class"]) \/ Moved("class", cache["class"])
ToolInv ==
  "tool" \notin queue /\ Cat!Live(cache["tool"]) =>
    ToolRight(cache["tool"]) \/ Moved("tool", cache["tool"])

CatInv ==
  /\ DOMAIN api = Cat!Kinds /\ DOMAIN cache = Cat!Kinds
  /\ \A k \in Cat!Kinds : /\ Object(api[k]) /\ Object(cache[k])
                          /\ api[k].refs \subseteq Cat!MayReference(k)
                          /\ cache[k].refs \subseteq Cat!MayReference(k)
  /\ ClassInv /\ ToolInv

LEMMA Named == {"class", "tool", "model", "secret", "child"} \subseteq Cat!Kinds
BY DEF Cat!Kinds, Cat!Held, Cat!Providers

LEMMA HeldNamed == Cat!Held = {"class", "tool", "model"} /\ Cat!Held \subseteq Cat!Kinds
BY DEF Cat!Kinds, Cat!Held, Cat!Providers

LEMMA References ==
  ASSUME Cat!CatalogueAssumption
  PROVE  /\ Cat!MayReference("class") = {"model", "tool"}
         /\ Cat!MayReference("tool") = {"secret"}
<1>1. "class" \notin Workloads /\ "tool" \notin Workloads
  BY DEF Cat!CatalogueAssumption, Cat!Held, Cat!Providers
<1>2. Cat!MayReference("class") = {"model", "tool"} /\ Cat!MayReference("tool") = {"secret"}
  BY Zenon, <1>1 DEF Cat!MayReference, Cat!Providers
<1> QED
  BY <1>2

\* The object a reconcile writes, and what it may leave queued: a write that ends
\* the reconcile of a live class or tool is of the right status.
Ends(k, new, again) ==
  \/ again
  \/ ~Cat!Live(cache[k])
  \/ /\ new.refs = cache[k].refs
     /\ k = "class" => ClassRight(new)
     /\ k = "tool" => ToolRight(new)

\* The verdict depends on the object's references only.
LEMMA SameVerdict ==
  ASSUME NEW o, NEW new, new.refs = o.refs, new.ready = o.ready
  PROVE  /\ new.users = o.users /\ ClassRight(new) => ClassRight(o)
         /\ ToolRight(new) => ToolRight(o)
BY Zenon DEF ClassRight, ToolRight, Cat!ClassReady

LEMMA NewIs ==
  ASSUME NEW refs
  PROVE  /\ Object(Cat!New(refs)) /\ Cat!New(refs).refs = refs /\ ~Cat!New(refs).finalizer
         /\ Object(Cat!Gone) /\ Cat!Gone.refs = {} /\ ~Cat!Gone.finalizer
<1>1. ASSUME NEW o, NEW x PROVE DOMAIN [o EXCEPT !.exists = x] = DOMAIN o
  BY Zenon
<1>2. ASSUME NEW given
      PROVE  /\ Object(Cat!New(given)) /\ Cat!New(given).refs = given
             /\ ~Cat!New(given).finalizer
  BY DEF Cat!New, Object
<1>3. Object(Cat!Gone) /\ Cat!Gone.refs = {} /\ ~Cat!Gone.finalizer
  BY Zenon, <1>1, <1>2 DEF Cat!Gone, Object
<1> QED
  BY <1>2, <1>3

LEMMA UpdateKeeps ==
  ASSUME CatInv, NEW k \in Cat!Held, k \in queue, NEW new, Object(new),
         new.refs \subseteq Cat!MayReference(k),
         NEW again \in BOOLEAN, NEW after, Cat!Update(k, new, again, after),
         Ends(k, new, again), cache' = cache, setting' = setting
  PROVE  CatInv'
<1>0. k \in Cat!Kinds /\ "class" \in Cat!Kinds /\ "tool" \in Cat!Kinds
  BY Zenon, Named, HeldNamed
<1>1. CASE cache[k] # api[k]
  <2>1. api' = api /\ queue' = queue
    BY Zenon, <1>1 DEF Cat!Update
  <2> QED
    BY Zenon, <2>1 DEF CatInv, ClassInv, ToolInv, ClassRight, ToolRight, Moved, Cat!ClassReady, Cat!CountUsers
<1>2. CASE cache[k] = api[k]
  <2>1. /\ api' = [api EXCEPT ![k] = new] /\ queue \ {k} \subseteq queue'
        /\ (again => k \in queue')
    BY Zenon, <1>2 DEF Cat!Update
  <2>2. /\ DOMAIN api' = Cat!Kinds
        /\ \A j \in Cat!Kinds : api'[j] = IF j = k THEN new ELSE api[j]
    BY Zenon, <1>0, <2>1 DEF CatInv
  <2>3. \A j \in Cat!Kinds : /\ api'[j].refs \subseteq Cat!MayReference(j)
                             /\ cache[j].refs \subseteq Cat!MayReference(j)
    BY Zenon, <2>2 DEF CatInv
  <2>4. \A o : (ClassRight(o) <=> ClassRight(o)') /\ (ToolRight(o) <=> ToolRight(o)')
    BY Zenon DEF ClassRight, ToolRight, Cat!ClassReady, Cat!CountUsers
  <2>5. ClassInv'
    <3>1. CASE k # "class"
      BY ZenonT(60), <1>0, <2>1, <2>2, <2>4, <3>1 DEF CatInv, ClassInv, Moved
    <3>2. CASE k = "class"
      BY ZenonT(60), <1>0, <2>1, <2>2, <2>4, <3>2, SameVerdict DEF ClassInv, Moved, Ends
    <3> QED
      BY Zenon, <3>1, <3>2
  <2>6. ToolInv'
    <3>1. CASE k # "tool"
      BY ZenonT(60), <1>0, <2>1, <2>2, <2>4, <3>1 DEF CatInv, ToolInv, Moved
    <3>2. CASE k = "tool"
      BY ZenonT(60), <1>0, <2>1, <2>2, <2>4, <3>2, SameVerdict DEF ToolInv, Moved, Ends
    <3> QED
      BY Zenon, <3>1, <3>2
  <2> QED
    BY ZenonT(60), <2>2, <2>3, <2>5, <2>6 DEF CatInv
<1> QED
  BY Zenon, <1>1, <1>2

\* A reconcile that ends without a write, of an object that is not live.
LEMMA DoneKeeps ==
  ASSUME CatInv, NEW k \in Cat!Held, ~Cat!Live(cache[k]), Cat!Done(k),
         cache' = cache, setting' = setting
  PROVE  CatInv'
<1>1. api' = api /\ queue' = queue \ {k}
  BY Zenon DEF Cat!Done
<1>2. \A o : (ClassRight(o) <=> ClassRight(o)') /\ (ToolRight(o) <=> ToolRight(o)')
  BY Zenon DEF ClassRight, ToolRight, Cat!ClassReady, Cat!CountUsers
<1> QED
  BY Zenon, <1>1, <1>2 DEF CatInv, ClassInv, ToolInv, Moved

\* The deletion and the finalizer, which the three reconcilers share.
LEMMA PreambleKeeps ==
  ASSUME CatInv, NEW k \in Cat!Held, k \in queue, ~Cat!Live(cache[k]),
         \/ Cat!Done(k) \/ Cat!Update(k, Cat!Gone, FALSE, FALSE)
         \/ Cat!Update(k, [cache[k] EXCEPT !.finalizer = TRUE], TRUE, FALSE),
         cache' = cache, setting' = setting
  PROVE  CatInv'
<1>1. k \in Cat!Kinds /\ Object(cache[k]) /\ cache[k].refs \subseteq Cat!MayReference(k)
  BY HeldNamed DEF CatInv
<1>2. CASE Cat!Done(k)
  BY <1>2, DoneKeeps
<1>3. CASE Cat!Update(k, Cat!Gone, FALSE, FALSE)
  <2>1. Ends(k, Cat!Gone, FALSE)
    BY DEF Ends
  <2> QED
    BY Zenon, <1>3, <2>1, NewIs, UpdateKeeps
<1>4. CASE Cat!Update(k, [cache[k] EXCEPT !.finalizer = TRUE], TRUE, FALSE)
  <2> DEFINE new == [cache[k] EXCEPT !.finalizer = TRUE]
  <2>1. Object(new) /\ new.refs = cache[k].refs
    BY <1>1 DEF Object
  <2>2. Ends(k, new, TRUE)
    BY DEF Ends
  <2> HIDE DEF new
  <2> QED
    BY ZenonT(60), <1>1, <1>4, <2>1, <2>2, UpdateKeeps DEF new
<1> QED
  BY Zenon, <1>2, <1>3, <1>4

\* A status write of k whose new conditions are right.
LEMMA StatusKeeps ==
  ASSUME CatInv, NEW k \in Cat!Held, k \in queue, NEW new, Object(new),
         NEW after, Cat!Update(k, new, FALSE, after), new.refs = cache[k].refs,
         k = "class" => ClassRight(new), k = "tool" => ToolRight(new),
         cache' = cache, setting' = setting
  PROVE  CatInv'
<1>1. new.refs \subseteq Cat!MayReference(k)
  BY Zenon, HeldNamed DEF CatInv
<1>2. Ends(k, new, FALSE)
  BY DEF Ends
<1> QED
  BY Zenon, <1>1, <1>2, UpdateKeeps

\* What the probes and the problems of a specification make of the conditions
\* leaves the rest of an object alone.
LEMMA ProbedIs ==
  ASSUME NEW o, Object(o), NEW result \in {"AuthFailed", "Skipped", "Err", "Healthy"}
  PROVE  /\ Object(Cat!Probed(o, result)) /\ Cat!Probed(o, result).refs = o.refs
         /\ Cat!Probed(o, result).ready # "CredentialsMissing"
<1>1. PICK h, r : /\ r # "CredentialsMissing"
                  /\ Cat!Probed(o, result) = [o EXCEPT !.healthy = h, !.ready = r]
  BY Zenon DEF Cat!Probed
<1> QED
  BY Zenon, <1>1 DEF Object

LEMMA ReadyIs ==
  ASSUME NEW o, Object(o), NEW r
  PROVE  /\ Object([o EXCEPT !.ready = r]) /\ [o EXCEPT !.ready = r].refs = o.refs
         /\ [o EXCEPT !.ready = r].ready = r
BY DEF Object

LEMMA ToolKeeps ==
  ASSUME CatInv, Cat!ReconcileToolProvider
  PROVE  CatInv'
<1> DEFINE o == cache["tool"]
<1>1. /\ "tool" \in queue /\ cache' = cache /\ setting' = setting /\ probedCNI' = probedCNI
      /\ "tool" \in Cat!Held /\ Object(o)
  BY Zenon, HeldNamed, Named DEF Cat!ReconcileToolProvider, CatInv
<1>2. ASSUME Cat!ToolStatus PROVE CatInv'
  <2>1. CASE ~Cat!ToolCredential
    <3>1. ToolRight([o EXCEPT !.ready = "CredentialsMissing"])
      BY <1>1, <2>1, ReadyIs DEF ToolRight, Cat!ToolCredential
    <3>2. Cat!Update("tool", [o EXCEPT !.ready = "CredentialsMissing"], FALSE, FALSE)
      BY Zenon, <1>2, <2>1 DEF Cat!ToolStatus
    <3> QED
      BY ZenonT(60), <1>1, <3>1, <3>2, ReadyIs, StatusKeeps DEF CatInv
  <2>2. CASE Cat!ToolCredential
    <3>1. ASSUME NEW new, new.refs = o.refs, new.ready # "CredentialsMissing"
          PROVE  ToolRight(new)
      BY <2>2, <3>1 DEF ToolRight, Cat!ToolCredential
    <3>2. Cat!ToolProbe \in {"AuthFailed", "Skipped", "Err", "Healthy"}
      BY DEF Cat!ToolProbe
    <3>3. CASE setting.probe = "on"
      <4> DEFINE new == Cat!Probed(o, Cat!ToolProbe)
      <4>1. Cat!Update("tool", new, FALSE, TRUE)
        BY Zenon, <1>2, <2>2, <3>3 DEF Cat!ToolStatus
      <4>2. Object(new) /\ new.refs = o.refs /\ ToolRight(new)
        BY Zenon, <1>1, <3>1, <3>2, ProbedIs
      <4> HIDE DEF new
      <4> QED
        BY ZenonT(60), <1>1, <4>1, <4>2, StatusKeeps
    <3>4. CASE setting.probe # "on"
      <4> DEFINE new == [o EXCEPT !.ready = "True"]
      <4>1. Cat!Update("tool", new, FALSE, FALSE)
        BY Zenon, <1>2, <2>2, <3>4 DEF Cat!ToolStatus
      <4>2. Object(new) /\ new.refs = o.refs /\ new.ready = "True"
        BY Zenon, <1>1, ReadyIs
      <4> HIDE DEF new
      <4>3. ToolRight(new)
        BY <3>1, <4>2
      <4> QED
        BY ZenonT(60), <1>1, <4>1, <4>2, <4>3, StatusKeeps
    <3> QED
      BY <3>3, <3>4
  <2> QED
    BY <2>1, <2>2
<1>7. CASE Cat!Live(o)
  <2>1. Cat!ToolStatus
    BY Zenon, <1>7 DEF Cat!ReconcileToolProvider, Cat!Preamble, Cat!Live
  <2> QED
    BY Zenon, <1>2, <2>1
<1>8. CASE ~Cat!Live(o)
  <2>1. \/ Cat!Done("tool") \/ Cat!Update("tool", Cat!Gone, FALSE, FALSE)
        \/ Cat!Update("tool", [o EXCEPT !.finalizer = TRUE], TRUE, FALSE)
    BY Zenon, <1>8 DEF Cat!ReconcileToolProvider, Cat!Preamble, Cat!Live, Cat!ReconcileDelete, Cat!DeleteToolProvider
  <2> QED
    BY Zenon, <1>1, <1>8, <2>1, PreambleKeeps
<1> QED
  BY Zenon, <1>7, <1>8

LEMMA ModelKeeps ==
  ASSUME CatInv, Cat!ReconcileModelProvider
  PROVE  CatInv'
<1> DEFINE o == cache["model"]
<1>1. /\ "model" \in queue /\ cache' = cache /\ setting' = setting /\ probedCNI' = probedCNI
      /\ "model" \in Cat!Held /\ Object(o)
  BY HeldNamed, Named DEF Cat!ReconcileModelProvider, CatInv
<1>2. ASSUME NEW r, NEW after, Cat!Update("model", [o EXCEPT !.ready = r], FALSE, after)
      PROVE  CatInv'
  BY ZenonT(60), <1>1, <1>2, ReadyIs, StatusKeeps DEF CatInv
<1>3. ASSUME Cat!ModelStatus PROVE CatInv'
  <2>1. Cat!ModelProbe \in {"AuthFailed", "Skipped", "Err", "Healthy"}
    BY DEF Cat!ModelProbe
  <2>3. CASE Cat!Update("model", Cat!Probed(o, Cat!ModelProbe), FALSE,
                        Cat!ModelProbe # "Skipped" \/ setting.budget)
    BY ZenonT(60), <1>1, <2>1, <2>3, ProbedIs, StatusKeeps DEF CatInv
  <2> QED
    BY Zenon, <1>2, <1>3, <2>3 DEF Cat!ModelStatus
<1>7. CASE Cat!Live(o)
  <2>1. Cat!ModelStatus
    BY Zenon, <1>7 DEF Cat!ReconcileModelProvider, Cat!Preamble, Cat!Live
  <2> QED
    BY Zenon, <1>3, <2>1
<1>8. CASE ~Cat!Live(o)
  <2>1. \/ Cat!Done("model") \/ Cat!Update("model", Cat!Gone, FALSE, FALSE)
        \/ Cat!Update("model", [o EXCEPT !.finalizer = TRUE], TRUE, FALSE)
    BY Zenon, <1>8 DEF Cat!ReconcileModelProvider, Cat!Preamble, Cat!Live, Cat!ReconcileDelete
  <2> QED
    BY Zenon, <1>1, <1>8, <2>1, PreambleKeeps
<1> QED
  BY Zenon, <1>7, <1>8

LEMMA ClassKeeps ==
  ASSUME CatInv, Cat!ReconcileAgentClass
  PROVE  CatInv'
<1> DEFINE o == cache["class"]
           new == [o EXCEPT !.ready = Cat!ClassReady(o), !.users = Cat!CountUsers,
                            !.fqdn = Cat!ClassFQDN]
<1>1. /\ "class" \in queue /\ cache' = cache /\ setting' = setting
      /\ "class" \in Cat!Held /\ Object(o)
  BY HeldNamed, Named DEF Cat!ReconcileAgentClass, CatInv
<1>4. Object(new) /\ new.refs = o.refs /\ new.ready = Cat!ClassReady(o)
      /\ new.users = Cat!CountUsers
  BY <1>1 DEF Object
<1>5. ClassRight(new)
  BY <1>4 DEF ClassRight, Cat!ClassReady
<1>6. ASSUME Cat!ClassStatus PROVE CatInv'
  <2>1. Cat!Update("class", new, FALSE, FALSE)
    BY Zenon, <1>6 DEF Cat!ClassStatus
  <2> HIDE DEF new, o
  <2> QED
    BY ZenonT(60), <1>1, <1>4, <1>5, <2>1, StatusKeeps DEF o
<1>7. CASE Cat!Live(o)
  <2>1. Cat!ClassStatus
    BY Zenon, <1>7 DEF Cat!ReconcileAgentClass, Cat!Preamble, Cat!Live
  <2> QED
    BY Zenon, <1>6, <2>1
<1>8. CASE ~Cat!Live(o)
  <2>1. \/ Cat!Done("class") \/ Cat!Update("class", Cat!Gone, FALSE, FALSE)
        \/ Cat!Update("class", [o EXCEPT !.finalizer = TRUE], TRUE, FALSE)
    BY Zenon, <1>8 DEF Cat!ReconcileAgentClass, Cat!Preamble, Cat!Live, Cat!ReconcileDelete, Cat!DeleteAgentClass
  <2> QED
    BY Zenon, <1>1, <1>8, <2>1, PreambleKeeps
<1> QED
  BY Zenon, <1>7, <1>8

\* An informer delivers: whoever's verdict depends on the object is queued.
LEMMA DeliverKeepsVerdicts ==
  ASSUME Cat!CatalogueAssumption, CatInv, NEW k \in Cat!Kinds, Cat!Deliver(k)
  PROVE  CatInv'
<1>1. /\ cache' = [cache EXCEPT ![k] = api[k]] /\ api' = api /\ setting' = setting
      /\ queue' = queue \cup Cat!Enqueued(k, cache[k], api[k]) /\ probedCNI' = probedCNI
  BY Zenon DEF Cat!Deliver
<1>2. /\ DOMAIN cache' = Cat!Kinds
      /\ \A j \in Cat!Kinds : cache'[j] = IF j = k THEN api[k] ELSE cache[j]
  BY <1>1 DEF CatInv
<1>3. {"class", "tool", "secret", "model"} \cup Workloads \subseteq Cat!Kinds
  BY Zenon, Named DEF Cat!Kinds
<1>4. ClassInv'
  <2> SUFFICES ASSUME "class" \notin queue', Cat!Live(cache'["class"])
               PROVE  (ClassRight(cache["class"]) \/ Moved("class", cache["class"]))'
    BY Zenon DEF ClassInv
  <2>1. /\ "class" \notin queue /\ k # "class"
        /\ k \in Workloads => "class" \notin cache[k].refs \cup api[k].refs
        /\ k \in {"model", "tool"} => k \notin cache["class"].refs
    BY Zenon, <1>1 DEF Cat!Enqueued, Cat!ClassesFor, Cat!Providers
  <2>2. cache'["class"] = cache["class"]
    BY Zenon, <1>2, <1>3, <2>1
  <2>3. CASE Moved("class", cache["class"])
    BY Zenon, <1>1, <2>2, <2>3 DEF Moved
  <2>4. CASE ClassRight(cache["class"])
    <3>1. {w \in Workloads : "class" \in cache'[w].refs}
            = {w \in Workloads : "class" \in cache[w].refs}
      BY ZenonT(60), <1>2, <1>3, <2>1
    <3>2. cache["class"].refs \subseteq {"model", "tool"}
      BY Zenon, <1>3, References DEF CatInv
    <3>3. \A p \in cache["class"].refs : cache'[p] = cache[p]
      BY ZenonT(60), <1>2, <1>3, <2>1, <3>2
    <3>4. Cat!CountUsers' = Cat!CountUsers
      BY Zenon, <3>1 DEF Cat!CountUsers
    <3>5. Cat!ClassReady(cache["class"])' = Cat!ClassReady(cache["class"])
      BY <1>1, <2>2, <3>3 DEF Cat!ClassReady
    <3> QED
      BY ZenonT(60), <2>2, <2>4, <3>4, <3>5 DEF ClassRight
  <2> QED
    BY ZenonT(60), <2>1, <2>2, <2>3, <2>4 DEF CatInv, ClassInv
<1>5. ToolInv'
  <2> SUFFICES ASSUME "tool" \notin queue', Cat!Live(cache'["tool"])
               PROVE  (ToolRight(cache["tool"]) \/ Moved("tool", cache["tool"]))'
    BY Zenon DEF ToolInv
  <2>1. /\ "tool" \notin queue /\ k # "tool"
        /\ k = "secret" => "secret" \notin cache["tool"].refs
    BY Zenon, <1>1 DEF Cat!Enqueued, Cat!ToolProvidersFor
  <2>2. cache'["tool"] = cache["tool"] /\ (k # "secret" => cache'["secret"] = cache["secret"])
    BY Zenon, <1>2, <1>3, <2>1
  <2>3. ToolRight(cache["tool"]) => ToolRight(cache["tool"])'
    BY Zenon, <2>1, <2>2 DEF ToolRight
  <2>4. Moved("tool", cache["tool"]) => Moved("tool", cache["tool"])'
    BY Zenon, <1>1, <2>2 DEF Moved
  <2> QED
    BY ZenonT(60), <2>1, <2>2, <2>3, <2>4 DEF CatInv, ToolInv
<1> QED
  BY ZenonT(60), <1>1, <1>2, <1>4, <1>5 DEF CatInv

\* An edit changes the API server's object only: it keeps its status, or has no
\* finalizer any more.
LEMMA EditKeeps ==
  ASSUME CatInv, NEW k \in Cat!Kinds, NEW new, Object(new),
         new.refs \subseteq Cat!MayReference(k), Cat!Edited(k, new),
         \/ ~new.finalizer
         \/ /\ new.finalizer = api[k].finalizer /\ new.ready = api[k].ready
            /\ new.users = api[k].users
  PROVE  CatInv'
<1>1. /\ api' = [api EXCEPT ![k] = new] /\ UNCHANGED <<cache, queue, setting, probedCNI>>
  BY Zenon DEF Cat!Edited
<1>2. /\ DOMAIN api' = Cat!Kinds
      /\ \A j \in Cat!Kinds : api'[j] = IF j = k THEN new ELSE api[j]
  BY Zenon, <1>1 DEF CatInv
<1>3. \A o : (ClassRight(o) <=> ClassRight(o)') /\ (ToolRight(o) <=> ToolRight(o)')
  BY Zenon, <1>1 DEF ClassRight, ToolRight, Cat!ClassReady, Cat!CountUsers
<1>4. \A o : \A j \in {"class", "tool"} : Moved(j, o) => Moved(j, o)'
  BY <1>2, Named DEF Moved
<1> QED
  BY ZenonT(60), <1>1, <1>2, <1>3, <1>4 DEF CatInv, ClassInv, ToolInv

LEMMA UsersKeep ==
  ASSUME Cat!CatalogueAssumption, CatInv, NEW k \in Cat!Kinds,
         Cat!Create(k) \/ Cat!Delete(k) \/ (k \in Cat!Referrers /\ Cat!Rewire(k))
  PROVE  CatInv'
<1>1. /\ Object(api[k]) /\ api[k].refs \subseteq Cat!MayReference(k)
  BY Zenon DEF CatInv
<1>2. ASSUME NEW refs \in SUBSET Cat!MayReference(k)
      PROVE  /\ Object([api[k] EXCEPT !.refs = refs])
             /\ [api[k] EXCEPT !.refs = refs].refs = refs
             /\ [api[k] EXCEPT !.refs = refs].finalizer = api[k].finalizer
             /\ [api[k] EXCEPT !.refs = refs].ready = api[k].ready
             /\ [api[k] EXCEPT !.refs = refs].users = api[k].users
  BY Zenon, <1>1 DEF Object
<1>3. CASE Cat!Create(k)
  <2>1. PICK refs \in SUBSET Cat!MayReference(k) : Cat!Edited(k, Cat!New(refs))
    BY Zenon, <1>3 DEF Cat!Create
  <2> QED
    BY Zenon, <2>1, NewIs, EditKeeps
<1>4. CASE Cat!Delete(k)
  <2> DEFINE new == [api[k] EXCEPT !.deleting = TRUE]
  <2>1. /\ Object(new) /\ new.refs = api[k].refs /\ new.finalizer = api[k].finalizer
        /\ new.ready = api[k].ready /\ new.users = api[k].users
    BY <1>1 DEF Object
  <2>2. Cat!Edited(k, new) \/ Cat!Edited(k, Cat!Gone)
    BY <1>4 DEF Cat!Delete
  <2> HIDE DEF new
  <2> QED
    BY ZenonT(60), <1>1, <2>1, <2>2, NewIs, EditKeeps
<1>5. CASE Cat!Rewire(k)
  <2>1. PICK refs \in SUBSET Cat!MayReference(k) : Cat!Edited(k, [api[k] EXCEPT !.refs = refs])
    BY Zenon, <1>1, <1>5 DEF Cat!Rewire
  <2> QED
    BY ZenonT(60), <1>2, <2>1, EditKeeps
<1> QED
  BY Zenon, <1>3, <1>4, <1>5

LEMMA CatStarts == ASSUME Cat!CatalogueAssumption, Cat!Init PROVE CatInv
<1>1. PICK absent \in {"none", "secret", "child"} :
        api = [k \in Cat!Kinds |-> IF k \in setting.kinds \ {absent}
                 THEN Cat!New(Cat!MayReference(k) \cap setting.kinds) ELSE Cat!Gone]
  BY Zenon DEF Cat!Init
<1>2. ASSUME NEW k \in Cat!Kinds
      PROVE  Object(api[k]) /\ api[k].refs \subseteq Cat!MayReference(k) /\ ~api[k].finalizer
  BY ZenonT(60), <1>1, NewIs
<1>3. cache = api /\ probedCNI = "no" /\ api = [k \in Cat!Kinds |-> api[k]]
  BY Zenon, <1>1 DEF Cat!Init
<1> QED
  BY <1>2, <1>3, Named DEF CatInv, ClassInv, ToolInv, Cat!Live

LEMMA CatKeeps ==
  ASSUME Cat!CatalogueAssumption, CatInv, [Cat!Next]_catVars PROVE CatInv'
<1>0. \A k \in Cat!Referrers : k \in Cat!Kinds
  BY Zenon DEF Cat!Referrers, Cat!Kinds, Cat!Held
<1>1. CASE Cat!Restart
  <2>1. /\ cache' = api /\ api' = api /\ probedCNI' = "no"
        /\ queue' = {k \in Cat!Held : api[k].exists}
    BY Zenon, <1>1 DEF Cat!Restart
  <2> QED
    BY Zenon, <2>1, HeldNamed DEF CatInv, ClassInv, ToolInv, Cat!Live
<1>2. ASSUME UNCHANGED <<api, cache, setting, probedCNI>>, queue \subseteq queue' PROVE CatInv'
  <2>1. \A o : (ClassRight(o) <=> ClassRight(o)') /\ (ToolRight(o) <=> ToolRight(o)')
    BY Zenon, <1>2 DEF ClassRight, ToolRight, Cat!ClassReady, Cat!CountUsers
  <2> QED
    BY Zenon, <1>2, <2>1 DEF CatInv, ClassInv, ToolInv, Moved
<1>3. CASE \/ \E k \in Cat!Held : Cat!Fire(k)
           \/ Cat!UpstreamChanges \/ Cat!CNIChanges \/ Cat!AtRest \/ UNCHANGED catVars
  BY <1>2, <1>3 DEF Cat!Fire, Cat!UpstreamChanges, Cat!CNIChanges, Cat!AtRest, Cat!vars, catVars
<1> QED
  BY Zenon, <1>0, <1>1, <1>3, ModelKeeps, ToolKeeps, ClassKeeps, DeliverKeepsVerdicts, UsersKeep
     DEF Cat!Next, Cat!Controller, Cat!Users

\* The reconcilers of agentclass_controller.go and toolprovider_controller.go are
\* woken by every event their verdicts depend on: for any workloads and settings,
\* any order of deliveries, conflicts, edits and restarts, a status at rest is the
\* one the reconcile would compute.
THEOREM StatusStands ==
  ASSUME Cat!CatalogueAssumption PROVE Cat!Spec => []VerdictsStand
<1>1. CatInv => VerdictsStand
  BY Zenon DEF CatInv, ClassInv, ToolInv, ClassRight, ToolRight, Moved, VerdictsStand,
         Cat!VerdictsStand, Cat!Settled, Cat!Live
<1>2. Cat!Init => CatInv
  BY CatStarts
<1>3. CatInv /\ [Cat!Next]_catVars => CatInv'
  BY Zenon, CatKeeps
<1> QED
  BY <1>1, <1>2, <1>3, PTL DEF Cat!Spec, Cat!vars, catVars

-----------------------------------------------------------------------------
(* FallbackChain: the walk accepts no chain that is not followable *)

Elems(s) == {s[i] : i \in DOMAIN s}
Distinct(s) == \A i, j \in DOMAIN s : s[i] = s[j] => i = j
\* The edges the walk has taken from the queue.
Walked == Walk!EdgesFrom(visited) \ Elems(edges)
Leads(e) == Walk!RefOf(e).name
\* What the edges in P must be for the walk to have found no problem.
Right(e) == Leads(e) \notin unread => Leads(e) \in Existing /\ Walk!EdgeFollowable(e)
Sane(P) ==
  /\ \A e \in P : Leads(e) # Primary /\ Right(e)
  /\ \A e, d \in P : Leads(e) = Leads(d) => e = d
\* No loop of edges in P among the names V: each set of them has a member from
\* which no edge leads into the set.
NoLoop(P, V) ==
  \A S \in SUBSET V : S # {} =>
    \E p \in S : \A e \in P : e[1] = p => Leads(e) \notin S

\* The queue holds edges of visited providers, none twice; what is visited is the
\* primary and the ends of the edges walked, and every closed set of names has it;
\* there is no problem exactly when the edges walked are sane; and while there is
\* none, they make no loop: a name visited last has no edge walked yet.
ChainInv ==
  /\ chain \in Chains /\ Primary \notin unread
  /\ edges \in Seq(Walk!EdgesFrom(visited))
  /\ Distinct(edges)
  /\ visited = {Primary} \cup {Leads(e) : e \in Walked}
  /\ \A S \in SUBSET (Existing \cup Dangling) : Walk!Closed(S) => visited \subseteq S
  /\ problems = {} <=> Sane(Walked)
  /\ problems = {} => NoLoop(Walked, visited)

LEMMA EdgesFromIs ==
  ASSUME NEW S
  PROVE  \A e : e \in Walk!EdgesFrom(S) <=>
           \E p \in (S \ unread) \cap Existing : \E i \in DOMAIN chain[p].fallback : e = <<p, i>>
BY DEF Walk!EdgesFrom

\* What taking the head of a queue without repetitions leaves.
LEMMA Dequeued ==
  ASSUME NEW T, NEW s \in Seq(T), s # <<>>, Distinct(s)
  PROVE  /\ Head(s) \in T /\ Tail(s) \in Seq(T) /\ Distinct(Tail(s))
         /\ Elems(Tail(s)) = Elems(s) \ {Head(s)} /\ Head(s) \in Elems(s)
<1>1. /\ Len(s) \in Nat /\ Len(s) >= 1 /\ DOMAIN s = 1..Len(s) /\ Head(s) = s[1]
      /\ Head(s) \in T /\ Tail(s) \in Seq(T)
  OBVIOUS
<1>2. DOMAIN Tail(s) = 1..(Len(s) - 1) /\ \A i \in 1..(Len(s) - 1) : Tail(s)[i] = s[i + 1]
  OBVIOUS
<1>3. \A i \in DOMAIN Tail(s) : /\ i + 1 \in DOMAIN s /\ Tail(s)[i] = s[i + 1]
                                /\ i \in Int /\ i + 1 # 1
  BY <1>1, <1>2
<1>4. 1 \in DOMAIN s /\ s[1] = Head(s)
  BY <1>1
<1>5. Distinct(Tail(s))
  <2>1. ASSUME NEW i \in DOMAIN Tail(s), NEW j \in DOMAIN Tail(s), Tail(s)[i] = Tail(s)[j]
        PROVE  i = j
    <3>1. i + 1 = j + 1
      BY Zenon, <1>3, <2>1 DEF Distinct
    <3>2. i \in Int /\ j \in Int
      BY Zenon, <1>3
    <3> QED
      BY <3>1, <3>2
  <2> QED
    BY Zenon, <2>1 DEF Distinct
<1>6. \A i \in DOMAIN Tail(s) : \E j \in DOMAIN s : s[j] = Tail(s)[i] /\ s[j] # Head(s)
  BY Zenon, <1>3, <1>4 DEF Distinct
<1>7. \A j \in DOMAIN s : s[j] # Head(s) => \E i \in DOMAIN Tail(s) : Tail(s)[i] = s[j]
  <2>1. \A j \in DOMAIN s :
          s[j] # Head(s) => j - 1 \in DOMAIN Tail(s) /\ Tail(s)[j - 1] = s[j]
    BY <1>1, <1>2
  <2> QED
    BY Zenon, <2>1
<1>8. Head(s) \in Elems(s)
  BY <1>1 DEF Elems
<1>9. Elems(Tail(s)) = Elems(s) \ {Head(s)}
  <2> DEFINE r == Tail(s)
             h == Head(s)
  <2>1. \A i \in DOMAIN r : \E j \in DOMAIN s : r[i] = s[j] /\ s[j] # h
    BY Zenon, <1>6
  <2>2. \A j \in DOMAIN s : s[j] # h => \E i \in DOMAIN r : s[j] = r[i]
    BY Zenon, <1>7
  <2> HIDE DEF r, h
  <2> QED
    <3>1. Elems(r) = Elems(s) \ {h}
      BY <2>1, <2>2, SMT DEF Elems
    <3> QED
      BY Zenon, <3>1 DEF r, h
<1> QED
  BY Zenon, <1>1, <1>5, <1>8, <1>9

\* What a queue and another list appended to it hold.
LEMMA Enqueued ==
  ASSUME NEW T, NEW s \in Seq(T), NEW t \in Seq(T), Distinct(s), Distinct(t),
         Elems(s) \cap Elems(t) = {}
  PROVE  /\ s \o t \in Seq(T) /\ Distinct(s \o t)
         /\ Elems(s \o t) = Elems(s) \cup Elems(t)
<1> DEFINE c == s \o t
<1>1. /\ Len(s) \in Nat /\ DOMAIN s = 1..Len(s) /\ Len(t) \in Nat /\ DOMAIN t = 1..Len(t)
      /\ c \in Seq(T) /\ DOMAIN c = 1..(Len(s) + Len(t))
  OBVIOUS
<1>2. \A i \in DOMAIN c : c[i] = IF i <= Len(s) THEN s[i] ELSE t[i - Len(s)]
  OBVIOUS
<1> HIDE DEF c
<1>3. \A i \in DOMAIN c : \/ i \in DOMAIN s /\ c[i] = s[i]
                          \/ /\ i - Len(s) \in DOMAIN t /\ c[i] = t[i - Len(s)]
                             /\ i > Len(s)
  BY <1>1, <1>2
<1>4. \A i \in DOMAIN s : i \in DOMAIN c /\ c[i] = s[i]
  BY <1>1, <1>2
<1>5. \A i \in DOMAIN t : i + Len(s) \in DOMAIN c /\ c[i + Len(s)] = t[i]
  BY <1>1, <1>2
<1>6. \A i \in DOMAIN s : \A j \in DOMAIN t : s[i] # t[j]
  BY Zenon DEF Elems
<1>7. Distinct(c)
  <2> SUFFICES ASSUME NEW i \in DOMAIN c, NEW j \in DOMAIN c, c[i] = c[j]  PROVE i = j
    BY DEF Distinct
  <2>1. i \in Int /\ j \in Int
    BY <1>1
  <2>2. CASE i \in DOMAIN s /\ c[i] = s[i]
    BY ZenonT(60), <1>1, <1>3, <1>6, <2>2 DEF Distinct
  <2>3. CASE i - Len(s) \in DOMAIN t /\ c[i] = t[i - Len(s)] /\ i > Len(s)
    <3>1. ~(j \in DOMAIN s /\ c[j] = s[j])
      BY Zenon, <1>6, <2>3
    <3>2. j - Len(s) \in DOMAIN t /\ c[j] = t[j - Len(s)]
      BY Zenon, <1>3, <3>1
    <3>3. i - Len(s) = j - Len(s)
      BY Zenon, <2>3, <3>2 DEF Distinct
    <3> QED
      BY <1>1, <2>1, <3>3
  <2> QED
    BY Zenon, <1>3, <2>2, <2>3
<1>8. Elems(c) = Elems(s) \cup Elems(t)
  BY <1>3, <1>4, <1>5, SMT DEF Elems
<1> QED
  BY Zenon, <1>1, <1>7, <1>8 DEF c

LEMMA ListOf ==
  ASSUME NEW T, NEW n \in Nat, NEW h, h = [i \in 1..n |-> h[i]], \A i \in 1..n : h[i] \in T
  PROVE  h \in Seq(T)
OBVIOUS

\* The edges of a provider, as the list the walk queues.
LEMMA EdgesOfFacts ==
  ASSUME Walk!FallbackChainAssumption, chain \in Chains, NEW p \in Existing \ unread
  PROVE  /\ Walk!EdgesOf(p) \in Seq(Walk!EdgesFrom({p})) /\ Distinct(Walk!EdgesOf(p))
         /\ Elems(Walk!EdgesOf(p)) = Walk!EdgesFrom({p})
<1> DEFINE f == chain[p].fallback
           es == Walk!EdgesOf(p)
<1>1. f \in Seq({f[i] : i \in DOMAIN f})
  BY Zenon DEF Walk!FallbackChainAssumption
<1>2. Len(f) \in Nat /\ DOMAIN f = 1..Len(f)
  BY <1>1
<1>3. DOMAIN es = DOMAIN f /\ \A i \in DOMAIN f : es[i] = <<p, i>>
  BY Zenon DEF Walk!EdgesOf
<1>4. \A i \in DOMAIN f : es[i] \in Walk!EdgesFrom({p})
  BY <1>3, EdgesFromIs
<1>5. es = [i \in 1..Len(f) |-> es[i]]
  BY Zenon, <1>2 DEF Walk!EdgesOf
<1>6. \A e \in Walk!EdgesFrom({p}) : \E i \in DOMAIN f : e = es[i]
  BY <1>3, EdgesFromIs
<1> HIDE DEF es, f
<1>7. es \in Seq(Walk!EdgesFrom({p}))
  BY Zenon, <1>2, <1>4, <1>5, ListOf
<1>8. Distinct(es)
  BY <1>3 DEF Distinct
<1>9. Elems(es) = Walk!EdgesFrom({p})
  BY <1>3, <1>4, <1>6, SMT DEF Elems
<1> QED
  BY Zenon, <1>7, <1>8, <1>9 DEF es

LEMMA EdgesFromGrows ==
  ASSUME NEW S, NEW n
  PROVE  /\ Walk!EdgesFrom(S \cup {n}) = Walk!EdgesFrom(S) \cup Walk!EdgesFrom({n})
         /\ n \notin Existing \ unread => Walk!EdgesFrom({n}) = {}
         /\ n \notin S => Walk!EdgesFrom(S) \cap Walk!EdgesFrom({n}) = {}
<1>1. \A e : e \in Walk!EdgesFrom(S \cup {n}) <=>
               e \in Walk!EdgesFrom(S) \/ e \in Walk!EdgesFrom({n})
  BY EdgesFromIs
<1>2. n \notin Existing \ unread => \A e : e \notin Walk!EdgesFrom({n})
  BY EdgesFromIs
<1>3. n \notin S => \A e : ~(e \in Walk!EdgesFrom(S) /\ e \in Walk!EdgesFrom({n}))
  BY EdgesFromIs
<1> QED
  BY Zenon, <1>1, <1>2, <1>3

\* An edge has no problem exactly when the gateway can follow it.
LEMMA NoProblem ==
  ASSUME NEW e
  PROVE  Walk!EdgeProblems(e) = {} <=> Walk!EdgeFollowable(e)
BY Zenon DEF Walk!EdgeProblems, Walk!EdgeFollowable, Walk!Problem

LEMMA LeadsSomewhere ==
  ASSUME Walk!FallbackChainAssumption, chain \in Chains, NEW S, NEW e \in Walk!EdgesFrom(S)
  PROVE  Leads(e) \in Existing \cup Dangling
<1>1. PICK p \in Existing : \E i \in DOMAIN chain[p].fallback : e = <<p, i>>
  BY Zenon, EdgesFromIs
<1>0. PICK i \in DOMAIN chain[p].fallback : e = <<p, i>>
  BY Zenon, <1>1
<1>2. Leads(e) = chain[p].fallback[i].name
  BY <1>0 DEF Leads, Walk!RefOf
<1> QED
  BY Zenon, <1>0, <1>2 DEF Walk!FallbackChainAssumption

LEMMA ChainStarts ==
  ASSUME Walk!FallbackChainAssumption, Walk!Init
  PROVE  ChainInv
<1>1. /\ chain \in Chains /\ edges = Walk!EdgesOf(Primary) /\ visited = {Primary} /\ problems = {}
      /\ Primary \notin unread
  BY DEF Walk!Init
<1>2. Primary \in Existing
  BY DEF Walk!FallbackChainAssumption
<1>3. /\ edges \in Seq(Walk!EdgesFrom(visited)) /\ Elems(edges) = Walk!EdgesFrom(visited)
      /\ Distinct(edges)
  BY ZenonT(30), <1>1, <1>2, EdgesOfFacts
<1>4. Walked = {}
  BY <1>3 DEF Walked
<1>5. Sane(Walked)
  BY <1>4 DEF Sane
<1>7. NoLoop(Walked, visited)
  BY <1>4 DEF NoLoop
<1>6. \A S \in SUBSET (Existing \cup Dangling) : Walk!Closed(S) => visited \subseteq S
  BY <1>1 DEF Walk!Closed
<1> QED
  BY ZenonT(60), <1>1, <1>3, <1>4, <1>5, <1>6, <1>7 DEF ChainInv

\* The catalogue does not change under the walk, and neither does what it says.
LEMMA Frozen ==
  ASSUME UNCHANGED <<chain, unread>>
  PROVE  /\ Walk!EdgesFrom(visited)' = Walk!EdgesFrom(visited')
         /\ \A e : Leads(e)' = Leads(e)
         /\ \A e : Right(e)' <=> Right(e)
         /\ \A S : Walk!Closed(S)' <=> Walk!Closed(S)
<1>1. Walk!EdgesFrom(visited)' = Walk!EdgesFrom(visited')
  BY DEF Walk!EdgesFrom
<1>2. \A e : Leads(e)' = Leads(e)
  BY Zenon DEF Leads, Walk!RefOf
<1>3. \A e : Walk!EdgeFollowable(e)' <=> Walk!EdgeFollowable(e)
  BY Zenon DEF Walk!EdgeFollowable, Walk!RefOf
<1>4. \A S : Walk!Closed(S)' <=> Walk!Closed(S)
  BY DEF Walk!Closed, Walk!EdgesFrom, Walk!RefOf
<1>5. \A e : Right(e)' <=> Right(e)
  BY Zenon, <1>2, <1>3 DEF Right
<1> QED
  BY Zenon, <1>1, <1>2, <1>4, <1>5

\* After a step that leaves the objects alone the edges walked loop exactly when
\* they do among the objects as they were.
LEMMA LoopAfter ==
  ASSUME UNCHANGED <<chain, unread>>, NEW P, NEW V, Walked' = P, visited' = V
  PROVE  NoLoop(Walked, visited)' <=> NoLoop(P, V)
<1>1. \A e : Leads(e)' = Leads(e)
  BY Zenon, Frozen
<1>2. NoLoop(Walked, visited)' <=>
        \A S \in SUBSET V : S # {} =>
          \E p \in S : \A e \in P : e[1] = p => Leads(e)' \notin S
  BY ZenonT(60) DEF NoLoop
<1> QED
  BY ZenonT(60), <1>1, <1>2 DEF NoLoop

\* What one more edge walked does to the verdict.
LEMMA SaneGrows ==
  ASSUME NEW P, NEW V, NEW e, e \notin P,
         Leads(e) \in V <=> Leads(e) = Primary \/ \E d \in P : Leads(e) = Leads(d)
  PROVE  Sane(P \cup {e}) <=> Sane(P) /\ Leads(e) \notin V /\ Right(e)
BY Zenon DEF Sane

\* An edge to a name without edges closes no loop.
LEMMA NoLoopGrows ==
  ASSUME NEW P, NEW V, NEW e, NoLoop(P, V), Leads(e) \notin V,
         e[1] \in V, \A d \in P : d[1] \in V
  PROVE  NoLoop(P \cup {e}, V \cup {Leads(e)})
<1> SUFFICES ASSUME NEW S \in SUBSET (V \cup {Leads(e)}), S # {}
             PROVE  \E p \in S : \A d \in P \cup {e} : d[1] = p => Leads(d) \notin S
  BY Zenon DEF NoLoop
<1>1. CASE Leads(e) \in S
  <2>1. \A d \in P \cup {e} : d[1] # Leads(e)
    BY Zenon
  <2> QED
    BY Zenon, <1>1, <2>1
<1>2. CASE Leads(e) \notin S
  <2>1. S \in SUBSET V
    BY Zenon, <1>2
  <2>2. PICK p \in S : \A d \in P : d[1] = p => Leads(d) \notin S
    BY Zenon, <2>1 DEF NoLoop
  <2> QED
    BY Zenon, <1>2, <2>2
<1> QED
  BY Zenon, <1>1, <1>2

\* A step that takes the edge e from the queue and judges it rightly.
LEMMA OneMore ==
  ASSUME ChainInv, UNCHANGED <<chain, unread>>, NEW e \in Elems(edges),
         edges' \in Seq(Walk!EdgesFrom(visited')),
         Distinct(edges'),
         Walk!EdgesFrom(visited') \ Elems(edges') = Walked \cup {e},
         visited' = visited \cup {Leads(e)},
         problems' = {} <=> problems = {} /\ Leads(e) \notin visited /\ Right(e)
  PROVE  ChainInv'
<1>1. /\ chain \in Chains /\ Primary \notin unread /\ visited = {Primary} \cup {Leads(d) : d \in Walked}
      /\ \A S \in SUBSET (Existing \cup Dangling) : Walk!Closed(S) => visited \subseteq S
      /\ problems = {} <=> Sane(Walked)
      /\ edges \in Seq(Walk!EdgesFrom(visited))
  BY Zenon DEF ChainInv
<1>2. e \in Walk!EdgesFrom(visited) /\ e \notin Walked
  BY <1>1 DEF Elems, Walked
<1>3. Walked' = Walked \cup {e}
  BY Zenon, Frozen DEF Walked
<1>4. PICK w : w = Walked'
  BY Zenon
<1>5. visited' = {Primary} \cup {Leads(d)' : d \in Walked'}
  <2>1. visited' = {Primary} \cup {Leads(d) : d \in Walked \cup {e}}
    BY Zenon, <1>1
  <2>2. visited' = {Primary} \cup {Leads(d) : d \in w}
    BY <1>3, <1>4, <2>1
  <2>3. {Leads(d) : d \in w} = {Leads(d)' : d \in w}
    BY Zenon, Frozen
  <2> QED
    BY ZenonT(60), <1>4, <2>2, <2>3
<1>6. ASSUME NEW S \in SUBSET (Existing \cup Dangling), Walk!Closed(S)  PROVE visited' \subseteq S
  <2>1. visited \subseteq S
    BY Zenon, <1>1, <1>6
  <2>2. e \in Walk!EdgesFrom(S)
    <3>1. \A d : d \in Walk!EdgesFrom(visited) <=>
            \E p \in (visited \ unread) \cap Existing : \E i \in DOMAIN chain[p].fallback : d = <<p, i>>
      BY Zenon, EdgesFromIs
    <3>2. \A d : d \in Walk!EdgesFrom(S) <=>
            \E p \in (S \ unread) \cap Existing : \E i \in DOMAIN chain[p].fallback : d = <<p, i>>
      BY Zenon, EdgesFromIs
    <3>3. PICK p \in (visited \ unread) \cap Existing : \E i \in DOMAIN chain[p].fallback : e = <<p, i>>
      BY Zenon, <1>2, <3>1
    <3>4. p \in (S \ unread) \cap Existing
      BY Zenon, <2>1
    <3> QED
      BY Zenon, <3>2, <3>3, <3>4
  <2>3. Leads(e) \in S
    BY Zenon, <1>6, <2>2 DEF Walk!Closed, Leads
  <2> QED
    BY <2>1, <2>3
<1>7. problems' = {} <=> Sane(w)
  <2>1. Sane(w) <=> Sane(Walked) /\ Leads(e) \notin visited /\ Right(e)
    <3>1. w = Walked \cup {e}
      BY Zenon, <1>3, <1>4
    <3>2. Sane(Walked \cup {e}) <=> Sane(Walked) /\ Leads(e) \notin visited /\ Right(e)
      <4>1. Leads(e) \in visited <=>
              Leads(e) = Primary \/ \E d \in Walked : Leads(e) = Leads(d)
        BY Zenon, <1>1
      <4> QED
        BY Zenon, <1>2, <4>1, SaneGrows
    <3> QED
      BY Zenon, <3>1, <3>2
  <2> QED
    BY Zenon, <1>1, <2>1
<1>8. Sane(Walked)' <=> Sane(w)
  BY <1>4, Frozen, SMT DEF Sane
<1>9. \A S \in SUBSET (Existing \cup Dangling) : Walk!Closed(S)' => visited' \subseteq S
  BY Zenon, <1>6, Frozen
<1>10. ASSUME problems' = {}  PROVE NoLoop(w, visited')
  <2>1. NoLoop(Walked, visited) /\ Leads(e) \notin visited
    BY Zenon, <1>10 DEF ChainInv
  <2>2. \A d \in Walk!EdgesFrom(visited) : d[1] \in visited
    BY EdgesFromIs
  <2>3. e[1] \in visited /\ \A d \in Walked : d[1] \in visited
    BY Zenon, <1>2, <2>2 DEF Walked
  <2>4. NoLoop(Walked \cup {e}, visited \cup {Leads(e)})
    BY Zenon, <2>1, <2>3, NoLoopGrows
  <2> QED
    BY Zenon, <1>3, <1>4, <2>4
<1>11. NoLoop(Walked, visited)' <=> NoLoop(w, visited')
  <2>1. PICK v : v = visited'
    BY Zenon
  <2>2. NoLoop(Walked, visited)' <=> NoLoop(w, v)
    BY Zenon, <1>4, <2>1, LoopAfter
  <2> QED
    BY Zenon, <2>1, <2>2
<1> QED
  BY Zenon, <1>1, <1>5, <1>7, <1>8, <1>9, <1>10, <1>11, Frozen DEF ChainInv

LEMMA VisitKeeps ==
  ASSUME Walk!FallbackChainAssumption, ChainInv, Walk!Visit
  PROVE  ChainInv'
<1>0. /\ chain \in Chains /\ edges \in Seq(Walk!EdgesFrom(visited)) /\ edges # <<>>
      /\ Distinct(edges)
      /\ UNCHANGED <<chain, unread>>
  BY Zenon DEF ChainInv, Walk!Visit
<1>1. PICK e : e = Head(edges)
  BY Zenon
<1>2. PICK n : n = Leads(e)
  BY Zenon
<1>3. PICK others : others = Tail(edges)
  BY Zenon
<1>4. \/ n \in visited /\ problems' = problems \cup {Walk!Problem("circular", n)}
                       /\ edges' = others /\ visited' = visited
      \/ n \notin visited /\ n \in unread /\ visited' = visited \cup {n}
           /\ problems' = problems /\ edges' = others
      \/ n \notin visited /\ n \notin Existing \cup unread /\ visited' = visited \cup {n}
           /\ problems' = problems \cup {Walk!Problem("missing", n)} /\ edges' = others
      \/ n \notin visited /\ n \in Existing \ unread /\ visited' = visited \cup {n}
           /\ problems' = problems \cup Walk!EdgeProblems(e)
           /\ edges' = others \o Walk!EdgesOf(n)
  BY Zenon, <1>1, <1>2, <1>3 DEF Walk!Visit, Leads
<1>5. /\ e \in Walk!EdgesFrom(visited) /\ others \in Seq(Walk!EdgesFrom(visited))
      /\ Distinct(others) /\ Elems(others) = Elems(edges) \ {e} /\ e \in Elems(edges)
  BY Zenon, <1>0, <1>1, <1>3, Dequeued
<1>6. Elems(edges) \subseteq Walk!EdgesFrom(visited)
  BY <1>0 DEF Elems
<1>7. /\ Walk!EdgesFrom(visited \cup {n}) = Walk!EdgesFrom(visited) \cup Walk!EdgesFrom({n})
      /\ n \notin Existing \ unread => Walk!EdgesFrom({n}) = {}
      /\ n \notin visited => Walk!EdgesFrom(visited) \cap Walk!EdgesFrom({n}) = {}
  BY Zenon, EdgesFromGrows
<1>8. PICK from : from = Walk!EdgesFrom(visited)
  BY Zenon
<1>9. CASE edges' = others /\ visited' = visited \cup {n} /\ Walk!EdgesFrom(visited') = from
           /\ (problems' = {} <=> problems = {} /\ n \notin visited /\ Right(e))
  <2>1. Elems(edges') = Elems(edges) \ {e}
    BY Zenon, <1>5, <1>9
  <2>2. Walk!EdgesFrom(visited') \ Elems(edges') = Walked \cup {e}
    BY ZenonT(60), <1>5, <1>8, <1>9, <2>1 DEF Walked
  <2> QED
    BY Zenon, <1>0, <1>2, <1>5, <1>8, <1>9, <2>2, OneMore
<1>10. CASE n \notin visited /\ n \in Existing \ unread /\ visited' = visited \cup {n}
           /\ problems' = problems \cup Walk!EdgeProblems(e)
           /\ edges' = others \o Walk!EdgesOf(n)
  <2>1. PICK es : es = Walk!EdgesOf(n)
    BY Zenon
  <2>2. PICK more : more = Walk!EdgesFrom({n})
    BY Zenon
  <2>3. PICK to : to = Walk!EdgesFrom(visited')
    BY Zenon
  <2>4. to = from \cup more /\ from \cap more = {}
    BY Zenon, <1>7, <1>8, <1>10, <2>2, <2>3
  <2>5. es \in Seq(more) /\ Distinct(es) /\ Elems(es) = more
    BY Zenon, <1>0, <1>10, <2>1, <2>2, EdgesOfFacts
  <2>6. others \in Seq(to) /\ es \in Seq(to)
    BY <1>5, <1>8, <2>4, <2>5
  <2>7. Elems(others) \cap Elems(es) = {}
    BY <1>5, <1>6, <1>8, <2>4, <2>5
  <2>8. /\ edges' \in Seq(to) /\ Distinct(edges')
        /\ Elems(edges') = Elems(others) \cup Elems(es)
    <3>1. /\ others \o es \in Seq(to) /\ Distinct(others \o es)
          /\ Elems(others \o es) = Elems(others) \cup Elems(es)
      <4>1. Distinct(others) /\ Distinct(es)
        BY Zenon, <1>5, <2>5
      <4> QED
        BY <2>6, <2>7, <4>1, Enqueued
    <3> QED
      BY Zenon, <1>10, <2>1, <3>1
  <2>9. Elems(edges') = (Elems(edges) \ {e}) \cup more
    BY Zenon, <1>5, <2>5, <2>8
  <2>10. Walk!EdgesFrom(visited') \ Elems(edges') = Walked \cup {e}
    BY ZenonT(60), <1>5, <1>6, <1>8, <2>3, <2>4, <2>9 DEF Walked
  <2>11. problems' = {} <=> problems = {} /\ Walk!EdgeFollowable(e)
    BY <1>10, NoProblem
  <2>12. Right(e) <=> Walk!EdgeFollowable(e)
    BY Zenon, <1>2, <1>10 DEF Right
  <2> QED
    BY Zenon, <1>0, <1>2, <1>5, <1>10, <2>3, <2>8, <2>10, <2>11, <2>12, OneMore
<1>11. CASE n \in visited /\ problems' = problems \cup {Walk!Problem("circular", n)}
                         /\ edges' = others /\ visited' = visited
  <2>1. visited' = visited \cup {n} /\ problems' # {}
    BY <1>11
  <2> QED
    BY Zenon, <1>8, <1>9, <1>11, <2>1
<1>12. CASE n \notin visited /\ n \notin Existing \cup unread /\ visited' = visited \cup {n}
           /\ problems' = problems \cup {Walk!Problem("missing", n)} /\ edges' = others
  <2>1. problems' # {}
    BY <1>12
  <2>2. Walk!EdgesFrom(visited') = from
    BY Zenon, <1>7, <1>8, <1>12
  <2>3. ~Right(e)
    BY Zenon, <1>2, <1>12 DEF Right
  <2> QED
    BY Zenon, <1>9, <1>12, <2>1, <2>2, <2>3
<1>13. CASE n \notin visited /\ n \in unread /\ visited' = visited \cup {n}
           /\ problems' = problems /\ edges' = others
  <2>1. Walk!EdgesFrom(visited') = from
    BY Zenon, <1>7, <1>8, <1>13
  <2>2. Right(e)
    BY Zenon, <1>2, <1>13 DEF Right
  <2> QED
    BY Zenon, <1>9, <1>13, <2>1, <2>2
<1> QED
  BY Zenon, <1>4, <1>10, <1>11, <1>12, <1>13

\* At the end of the walk everything reachable is visited, and nothing else.
LEMMA Concludes ==
  ASSUME Walk!FallbackChainAssumption, ChainInv
  PROVE  AcceptsFollowable
<1> SUFFICES ASSUME edges = <<>>
             PROVE  /\ problems = {} => Walk!Followable
                    /\ problems # {} => ~Walk!Followable \/ Walk!Shared
  BY Zenon DEF AcceptsFollowable, Walk!AcceptsFollowable
<1>1. /\ chain \in Chains /\ visited = {Primary} \cup {Leads(e) : e \in Walked}
      /\ \A S \in SUBSET (Existing \cup Dangling) : Walk!Closed(S) => visited \subseteq S
      /\ problems = {} <=> Sane(Walked)
      /\ problems = {} => NoLoop(Walked, visited)
  BY Zenon DEF ChainInv
<1>2. Walked = Walk!EdgesFrom(visited)
  BY DEF Walked, Elems
<1>3. Primary \in Existing
  BY DEF Walk!FallbackChainAssumption
<1>4. \A e \in Walked : Leads(e) \in Existing \cup Dangling
  BY Zenon, <1>1, <1>2, LeadsSomewhere
<1>5. visited \in SUBSET (Existing \cup Dangling) /\ Walk!Closed(visited)
  <2>1. Primary \in visited /\ \A e \in Walked : Leads(e) \in visited
    BY Zenon, <1>1
  <2>2. visited \subseteq Existing \cup Dangling
    BY ZenonT(60), <1>1, <1>3, <1>4
  <2> QED
    BY Zenon, <1>2, <2>1, <2>2 DEF Walk!Closed, Leads
<1>6. Walk!Reachable = visited
  BY Zenon, <1>1, <1>5 DEF Walk!Reachable
<1>7. Walk!Followable <=>
        /\ visited \ unread \subseteq Existing
        /\ \A e \in Walked : Leads(e) \notin unread => Walk!EdgeFollowable(e)
        /\ Walk!Terminates(visited)
  BY Zenon, <1>2, <1>6 DEF Walk!Followable, Leads
<1>8. Walk!Shared <=> \E e \in Walked : \/ Leads(e) = Primary
                                        \/ \E d \in Walked \ {e} : Leads(d) = Leads(e)
  BY Zenon, <1>2, <1>6 DEF Walk!Shared, Leads
<1>9. visited \ unread \subseteq Existing <=>
        \A e \in Walked : Leads(e) \notin unread => Leads(e) \in Existing
  BY Zenon, <1>1, <1>3
<1>10. NoLoop(Walked, visited) => Walk!Terminates(visited)
  <2>1. ASSUME NEW p \in visited, NEW e \in Walk!EdgesFrom({p})  PROVE e \in Walked /\ e[1] = p
    BY <1>2, <2>1, EdgesFromIs
  <2> QED
    BY ZenonT(60), <2>1 DEF NoLoop, Walk!Terminates, Leads
<1>11. ASSUME problems = {}  PROVE Walk!Followable
  BY Zenon, <1>1, <1>7, <1>9, <1>10, <1>11 DEF Sane, Right
<1>12. ASSUME problems # {}  PROVE ~Walk!Followable \/ Walk!Shared
  BY Zenon, <1>1, <1>7, <1>8, <1>9, <1>12 DEF Sane, Right
<1> QED
  BY Zenon, <1>11, <1>12

\* ModelProviderReconciler.validateFallback: whatever the providers and their
\* references are, and whichever of them cannot be read, a walk that ends without
\* a problem has a chain without a loop before it, whose readable providers exist
\* and whose edges can be translated and map models their two ends have; and a
\* walk that ends with one has met a fault or a provider referred to twice.
THEOREM FollowableAccepted ==
  ASSUME Walk!FallbackChainAssumption
  PROVE  Walk!Spec => []AcceptsFollowable
<1>1. Walk!Init => ChainInv
  BY ChainStarts
<1>2. ChainInv /\ [Walk!Next]_Walk!chainVars => ChainInv'
  <2> SUFFICES ASSUME ChainInv, [Walk!Next]_Walk!chainVars  PROVE ChainInv'
    OBVIOUS
  <2>1. CASE Walk!Visit
    BY <2>1, VisitKeeps
  <2>2. CASE UNCHANGED Walk!chainVars
    <3>0. UNCHANGED <<chain, unread, edges, visited, problems>>
      BY <2>2 DEF Walk!chainVars
    <3>1. PICK w, from : w = Walked /\ from = Walk!EdgesFrom(visited)
      BY Zenon
    <3>2. Walk!EdgesFrom(visited)' = from /\ Walked' = w
      BY Zenon, <3>0, <3>1, Frozen DEF Walked, Elems
    <3>3. Sane(Walked)' <=> Sane(w)
      BY <3>0, <3>2, Frozen, SMT DEF Sane
    <3>4. {Leads(e) : e \in w} = {Leads(e)' : e \in w}
      BY Zenon, <3>0, Frozen
    <3>5. NoLoop(Walked, visited)' <=> NoLoop(w, visited)
      <4>1. PICK v : v = visited
        BY Zenon
      <4>2. NoLoop(Walked, visited)' <=> NoLoop(w, v)
        BY Zenon, <3>0, <3>2, <4>1, LoopAfter
      <4> QED
        BY Zenon, <4>1, <4>2
    <3> QED
      BY Zenon, <3>0, <3>1, <3>2, <3>3, <3>4, <3>5, Frozen DEF ChainInv
  <2> QED
    BY Zenon, <2>1, <2>2 DEF Walk!Next, Walk!ChainDone
<1>3. ChainInv => AcceptsFollowable
  BY Concludes
<1> QED
  BY <1>1, <1>2, <1>3, PTL DEF Walk!Spec
=============================================================================
