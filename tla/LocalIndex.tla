----------------------------- MODULE LocalIndex -----------------------------
(***************************************************************************)
(* The index.db of a project (internal/search/fresh.go, indexer.go): what  *)
(* a search reads of the finding, the manifest of the files it was built   *)
(* from, and the bookkeeping that uploads and queries keep in the same     *)
(* file. Whoever writes the file holds index.lock, which ends with its     *)
(* process and which nobody waits for. A rebuild writes a file beside it   *)
(* and renames that over it; readers keep what they have open.             *)
(***************************************************************************)
EXTENDS CopyBases

CONSTANTS MaxEdits   \* bound: edits of the finding by its user

ASSUME LocalIndexAssumption == MaxEdits \in Nat

VARIABLES file,    \* [text, stamp]: the finding's file and its stat data
          index,   \* [copy, manifest, bases]: index.db
          lock,    \* who holds index.lock
          build    \* [pc, copy, manifest]: a rebuild and its file

indexVars == <<file, index, lock, build>>

\* No index.db, or one without a manifest.
NoManifest == -1

NoBases == [c \in Links |-> NoCopy]
NoBuild == [pc |-> "idle", copy |-> NoText, manifest |-> 0]

LocalTypeOK ==
    /\ file \in [text : Texts \cup {NoText}, stamp : 0..MaxEdits]
    /\ index \in [copy : Texts \cup {NoText}, manifest : NoManifest..MaxEdits, bases : [Links -> Copy]]
    /\ lock \in {"free", "build", "upload"}
    /\ build \in [pc : {"idle", "loading", "swapping"},
                  copy : Texts \cup {NoText}, manifest : 0..MaxEdits]

LocalInit ==
    /\ file \in [text : Texts, stamp : {0}]
    /\ index = [copy |-> NoText, manifest |-> NoManifest, bases |-> NoBases]
    /\ lock = "free"
    /\ build = NoBuild

\* The user writes, rewrites or removes the file.
Edit(t) ==
    /\ file.stamp < MaxEdits /\ t # file.text
    /\ file' = [text |-> t, stamp |-> file.stamp + 1]
    /\ UNCHANGED <<index, lock, build>>

\* The scan of the corpus differs from the manifest and TryLock succeeds; the
\* old index serves when another process has the lock. BuildIndexFile lists
\* the files before it reads them.
StartBuild ==
    /\ build.pc = "idle" /\ index.manifest # file.stamp /\ lock = "free"
    /\ lock' = "build"
    /\ build' = [NoBuild EXCEPT !.pc = "loading", !.manifest = file.stamp]
    /\ UNCHANGED <<file, index>>

Load ==
    /\ build.pc = "loading"
    /\ build' = [build EXCEPT !.pc = "swapping", !.copy = file.text]
    /\ UNCHANGED <<file, index, lock>>

\* Mutant: the manifest describes the files as they are at the end.
ListedLast == file.stamp

Listed == build.manifest

Kept == index.bases

\* SwapIndex copies the tables of the bookkeeping and renames the file.
Swap ==
    /\ build.pc = "swapping"
    /\ index' = [copy |-> build.copy, manifest |-> Listed, bases |-> Kept]
    /\ lock' = "free"
    /\ build' = NoBuild
    /\ UNCHANGED file

\* An error or the end of the process: the old index goes on serving, and the
\* next holder of the lock sweeps what was left.
StopBuild ==
    /\ build.pc # "idle"
    /\ lock' = "free"
    /\ build' = NoBuild
    /\ UNCHANGED <<file, index>>

EnsureFresh == StartBuild \/ Load \/ Swap \/ StopBuild
LocalNext == EnsureFresh \/ \E t \in Texts \cup {NoText} : Edit(t)
=============================================================================
