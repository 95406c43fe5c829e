---------------------------- MODULE TrustLoader ----------------------------
(***************************************************************************)
(* The TLS material loaders (internal/tlsutil/loader.go): CAPoolLoader     *)
(* merges CA bundles, CertLoader pairs a certificate with its key.  Both   *)
(* re-read their files only when a modification time changed.  A load is a *)
(* sequence of file operations under the loader's mutex, and the files are *)
(* rewritten, half written or missing at any point of it.  Rewriting a     *)
(* file gives it a modification time it never had.                         *)
(***************************************************************************)
EXTENDS Naturals, FiniteSets

CONSTANTS MaxWrites   \* bound: changes of the files

Files == {"f1", "f2"}   \* two CA bundles, or a certificate (f1) and its key (f2)

VARIABLES
    kind,      \* frozen: "ca" or "cert"
    disk,      \* file -> [there, version, mtime]
    writes,    \* changes made so far, the source of modification times
    loaded,    \* the cached material: [some, mtimes, versions]
    call,      \* the load under way
    served     \* what the last load returned, until the files change again

trustVars == <<kind, disk, writes, loaded, call, served>>

\* A version of a file: its number, and how much of it is written.  Nothing
\* parses from a "cut" one; from a "partial" one some of its certificates do, as
\* AppendCertsFromPEM, and the parse of a chain, take what is complete.
Version(number, form) == [number |-> number, form |-> form]
Forms == {"cut", "partial", "whole"}

\* The versions, and the modification times, of a load that has read none.
Unread == [f \in Files |-> Version(0, "cut")]
Unseen == [f \in Files |-> 0]

NoCall == [at |-> "idle", file |-> "f1", mtimes |-> Unseen, versions |-> Unread,
           touched |-> FALSE]
NothingLoaded == [some |-> FALSE, mtimes |-> Unseen, versions |-> Unread]
Nothing == [ended |-> FALSE, error |-> FALSE, versions |-> Unread, touched |-> FALSE]

\* The files whose modification time decides: CertLoader looks at the
\* certificate's only.
Stamped == IF kind = "ca" THEN Files ELSE {"f1"}

-----------------------------------------------------------------------------
(***************************************************************************)
(* A load                                                                  *)
(***************************************************************************)

Begin ==
    /\ call.at = "idle"
    /\ call' = [NoCall EXCEPT !.at = "stat"]
    /\ served' = Nothing
    /\ UNCHANGED <<kind, disk, writes, loaded>>

Return(error, versions) ==
    /\ call' = NoCall
    /\ served' = [ended |-> TRUE, error |-> error, versions |-> versions,
                  touched |-> call.touched]

\* What is cached is served when the new material cannot be had.
Keep == Return(~loaded.some, loaded.versions)

SameMtimes(mtimes) == \A f \in Stamped : loaded.mtimes[f] = mtimes[f]

\* os.Stat of one file: missing, CAPoolLoader keeps its pool and CertLoader
\* fails; the last one decides whether anything has to be read.
Stat ==
    LET f == call.file
        mtimes == [call.mtimes EXCEPT ![f] = disk[f].mtime] IN
    /\ call.at = "stat"
    /\ IF ~disk[f].there
         THEN IF kind = "ca" THEN Keep ELSE Return(TRUE, Unread)
       ELSE IF f = "f1" /\ kind = "ca"
         THEN call' = [call EXCEPT !.file = "f2", !.mtimes = mtimes] /\ UNCHANGED served
       ELSE IF loaded.some /\ SameMtimes(mtimes)
         THEN Return(FALSE, loaded.versions)
       ELSE /\ call' = [call EXCEPT !.at = "read", !.file = "f1", !.mtimes = mtimes]
            /\ UNCHANGED served
    /\ UNCHANGED <<kind, disk, writes, loaded>>

\* What was read is usable: a certificate and a key have to belong together,
\* and of a key all is needed.
Usable(versions) ==
    \/ kind = "ca"
    \/ /\ versions["f1"].number = versions["f2"].number
       /\ versions["f2"].form = "whole"

\* Mutant: the modification times are those after the read.
StampsAfterRead(mtimes) == [f \in Files |-> disk[f].mtime]

\* The modification times recorded with the material: the ones seen before it
\* was read.
Stamps(mtimes) == mtimes

\* os.ReadFile and the parse of one file: missing, unparsable or mismatched
\* material leaves the cache, its times included, as it was.
ReadFile ==
    LET f == call.file
        versions == [call.versions EXCEPT ![f] = disk[f].version] IN
    /\ call.at = "read"
    /\ IF ~disk[f].there \/ disk[f].version.form = "cut"
         THEN Keep /\ UNCHANGED loaded
       ELSE IF f = "f1"
         THEN /\ call' = [call EXCEPT !.file = "f2", !.versions = versions]
              /\ UNCHANGED <<loaded, served>>
       ELSE IF ~Usable(versions)
         THEN Keep /\ UNCHANGED loaded
       ELSE /\ loaded' = [some |-> TRUE, mtimes |-> Stamps(call.mtimes), versions |-> versions]
            /\ Return(FALSE, versions)
    /\ UNCHANGED <<kind, disk, writes>>

-----------------------------------------------------------------------------
(***************************************************************************)
(* The files (external): written by the kubelet or cert-manager            *)
(***************************************************************************)

Change(f, new) ==
    /\ writes < MaxWrites
    /\ writes' = writes + 1
    /\ disk' = [disk EXCEPT ![f] = new]
    /\ call' = [call EXCEPT !.touched = call.at # "idle"]
    /\ served' = Nothing
    /\ UNCHANGED <<kind, loaded>>

\* The next version of a file, in one step or begun; a begun one is completed.
Rewrite(f) == \E form \in Forms :
    Change(f, [there |-> TRUE, version |-> Version(disk[f].version.number + 1, form),
               mtime |-> writes + 1])

Complete(f) ==
    /\ disk[f].there /\ disk[f].version.form # "whole"
    /\ Change(f, [there |-> TRUE, version |-> Version(disk[f].version.number, "whole"),
                  mtime |-> writes + 1])

RemoveFile(f) == disk[f].there /\ Change(f, [disk[f] EXCEPT !.there = FALSE])

-----------------------------------------------------------------------------

Init ==
    /\ kind \in {"ca", "cert"}
    /\ disk = [f \in Files |-> [there |-> TRUE, version |-> Version(1, "whole"), mtime |-> 0]]
    /\ writes = 0
    /\ loaded = NothingLoaded
    /\ call = NoCall
    /\ served = Nothing

Next ==
    \/ Begin \/ Stat \/ ReadFile
    \/ \E f \in Files : Rewrite(f) \/ Complete(f) \/ RemoveFile(f)

Spec == Init /\ [][Next]_trustVars

-----------------------------------------------------------------------------
(***************************************************************************)
(* Properties                                                              *)
(***************************************************************************)

Settled == \A f \in Files : disk[f].there /\ disk[f].version.form = "whole"

\* "rotation needs no process restart": a load during which nothing was
\* written, of files that are whole and belong together, returns what is on
\* disk, whatever the loads before it ran into.
FreshWhenQuiet ==
    LET versions == [f \in Files |-> disk[f].version] IN
    served.ended /\ ~served.touched /\ Settled /\ Usable(versions)
      => ~served.error /\ served.versions = versions
=============================================================================
