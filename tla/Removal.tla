------------------------------ MODULE Removal ------------------------------
(***************************************************************************)
(* What a lock or a deletion does to the work on a community that is under *)
(* way: requests and the index worker are registered by trackCommunityWork *)
(* and cancelled (server/search_concurrency.go), and a deletion removes    *)
(* what was derived from the community, the index directory and the cached *)
(* advice, at once or after a restart (server/community_deletion.go).      *)
(*                                                                         *)
(* The community's row is one of three: open, frozen by a locked deletion  *)
(* session, or gone. The index is a directory that exists or not; advice   *)
(* is whether a judgment about the community's text is cached.             *)
(***************************************************************************)
EXTENDS IndexLock

CONSTANTS Worker,    \* runIndexWorker
          Deleter,   \* a community.delete request with step confirm
          Cleaner    \* runDeletionCleanup

ASSUME RemovalAssumption ==
    /\ Writers = {Worker, Deleter, Cleaner}
    /\ Worker # Deleter /\ Deleter # Cleaner /\ Cleaner # Worker

VARIABLES
  row,        \* the community's row in PostgreSQL
  cleanup,    \* its row of deletion_cleanup exists
  directory,  \* the index directory exists
  advice,     \* the cache holds a judgment about the community
  current,    \* the requests that have read an epoch no Purge has replaced since
  tracked,    \* searchState.work
  cancelled,  \* those of `tracked' whose context has been cancelled
  pc,         \* [Processes -> Steps]
  locking,    \* a community.delete request with step lock, after its commit
  sealed      \* history: a lock was answered and the community not reopened

storeVars == <<row, cleanup, directory, advice>>
workVars == <<tracked, cancelled>>
lockStepVars == <<locking, sealed>>
vars == <<lockVars, storeVars, current, workVars, pc, lockStepVars>>

Tracked == Readers \cup {Worker}            \* processes whose work is tracked
Removers == {Deleter, Cleaner}              \* callers of finishCommunityDeletion
Processes == Tracked \cup Removers

Steps == {"idle", "identified", "tracked", "checked", "acquire", "inside",
          "leave", "assist", "asked", "storing", "recheck", "commit",
          "answered", "cancel", "remove", "purge", "settle"}

\* The steps of work that has found the community open.
Under == {"checked", "acquire", "inside", "leave", "assist", "asked",
          "storing", "recheck", "commit"}

TypeOK ==
    /\ LockTypeOK
    /\ row \in {"open", "frozen", "gone"}
    /\ cleanup \in BOOLEAN /\ directory \in BOOLEAN /\ advice \in BOOLEAN
    /\ current \subseteq Readers
    /\ pc \in [Processes -> Steps]
    /\ tracked = {p \in Tracked : pc[p] \notin {"idle", "identified"}}
    /\ cancelled \subseteq tracked
    /\ locking \in {"idle", "committed", "late"} /\ sealed \in BOOLEAN

Init ==
    /\ LockInit
    /\ row = "open" /\ cleanup = FALSE /\ directory = FALSE /\ advice = FALSE
    /\ current = {} /\ tracked = {} /\ cancelled = {}
    /\ pc = [p \in Processes |-> "idle"]
    /\ locking = "idle" /\ sealed = FALSE

Go(p, step) == pc' = [pc EXCEPT ![p] = step]
Live(p) == p \notin cancelled        \* its context has not ended

\* Mutant: done() forgets the registration.
StaysTracked(p) == UNCHANGED workVars

\* done() of trackCommunityWork
Untrack(p) == /\ tracked' = tracked \ {p}
              /\ cancelled' = cancelled \ {p}

\* The deferred calls of a process that returns from `pc[p]'.
Return(p) ==
    /\ Go(p, "idle")
    /\ IF p \in holders \/ \E i \in DOMAIN waiters : waiters[i] = p
       THEN Unlock(p) ELSE UNCHANGED lockVars
    /\ current' = current \ {p}
    /\ Untrack(p)

Acquire(p) == Lock(p) /\ Go(p, "acquire")

-----------------------------------------------------------------------------
(* Requests and the index worker. *)

\* readerIdentity, or library() for the operator, before the work is tracked.
Identify(r) ==
    /\ pc[r] = "idle" /\ row = "open"
    /\ Go(r, "identified")
    /\ UNCHANGED <<lockVars, storeVars, current, workVars, lockStepVars>>

\* The worker comes from a list of communities that may be old.
Track(p) ==
    /\ pc[p] = IF p = Worker THEN "idle" ELSE "identified"
    /\ tracked' = tracked \cup {p}
    /\ Go(p, "tracked")
    /\ UNCHANGED <<lockVars, storeVars, current, cancelled, lockStepVars>>

\* library() inside the operation's transaction; the row stepIndex reads.
Check(p) ==
    /\ pc[p] = "tracked" /\ Live(p)
    /\ IF row = "open" THEN /\ Go(p, "checked")
                            /\ UNCHANGED <<lockVars, current, workVars>>
                       ELSE Return(p)
    /\ UNCHANGED <<storeVars, lockStepVars>>

AskLock(p) ==
    /\ pc[p] = "checked" /\ Live(p)
    /\ Acquire(p)
    /\ UNCHANGED <<storeVars, current, workVars, lockStepVars>>

\* Acquire looks at the context once more after it has been granted.
Granted(p) ==
    /\ pc[p] = "acquire" /\ p \in holders /\ Live(p)
    /\ Go(p, "inside")
    /\ UNCHANGED <<lockVars, storeVars, current, workVars, lockStepVars>>

\* OpenRemoteIndex makes the directory whatever has become of the context.
Build ==
    /\ pc[Worker] = "inside"
    /\ directory' = TRUE
    /\ Go(Worker, "leave")
    /\ UNCHANGED <<lockVars, row, cleanup, advice, current, workVars, lockStepVars>>

\* A query reads the index, or answers that it is still warming.
Read(r) ==
    /\ pc[r] = "inside" /\ Live(r)
    /\ IF directory THEN /\ Go(r, "leave")
                         /\ UNCHANGED <<lockVars, current, workVars>>
                    ELSE Return(r)
    /\ UNCHANGED <<storeVars, lockStepVars>>

LeaveWorker ==
    /\ pc[Worker] = "leave"
    /\ Return(Worker)
    /\ UNCHANGED <<storeVars, lockStepVars>>

\* The query gives the lock back before it asks for advice.
LeaveRead(r) ==
    /\ pc[r] = "leave"
    /\ Unlock(r)
    /\ \E step \in {"assist", "commit"} : Go(r, step)
    /\ UNCHANGED <<storeVars, current, workVars, lockStepVars>>

\* Evaluate: the epoch comes first, then the provider's judgment, then its row.
ReadEpoch(r) ==
    /\ pc[r] = "assist" /\ Live(r)
    /\ current' = current \cup {r}
    /\ Go(r, "asked")
    /\ UNCHANGED <<lockVars, storeVars, workVars, lockStepVars>>

\* The provider has answered, or has not: RankClaims goes on without it.
Judge(r) ==
    /\ pc[r] = "asked" /\ Live(r)
    /\ Go(r, "storing") \/ Go(r, "recheck")
    /\ UNCHANGED <<lockVars, storeVars, current, workVars, lockStepVars>>

\* The INSERT that is under way when the context ends may still be made.
Store(r) ==
    /\ pc[r] = "storing"
    /\ advice' = (advice \/ r \in current)
    /\ Go(r, "recheck")
    /\ UNCHANGED <<lockVars, row, cleanup, directory, current, workVars, lockStepVars>>

Recheck(r) ==
    /\ pc[r] = "recheck" /\ Live(r)
    /\ IF row = "open" THEN /\ Go(r, "commit")
                            /\ UNCHANGED <<lockVars, current, workVars>>
                       ELSE Return(r)
    /\ UNCHANGED <<storeVars, lockStepVars>>

\* After the commit the cause of the context decides what is answered.
Answer(r) ==
    /\ pc[r] = "commit" /\ Live(r)
    /\ Go(r, "answered")
    /\ UNCHANGED <<lockVars, storeVars, current, workVars, lockStepVars>>

Written(r) ==
    /\ pc[r] = "answered"
    /\ Return(r)
    /\ UNCHANGED <<storeVars, lockStepVars>>

\* A process whose context has been cancelled goes home.
GoHome(p) ==
    /\ ~Live(p)
    /\ Return(p)
    /\ UNCHANGED <<storeVars, lockStepVars>>

-----------------------------------------------------------------------------
(* The operator's lock and its end; confirmation; cleaning. *)

\* Mutant: only the state is looked up.
CancelNothing == UNCHANGED cancelled

\* cancelCommunityWorkWith
CancelWork == cancelled' = cancelled \cup tracked

\* The step is repeated after a lost answer and finds the community frozen.
LockCommit ==
    /\ row # "gone" /\ locking = "idle"
    /\ row' = "frozen" /\ locking' = "committed"
    /\ UNCHANGED <<lockVars, cleanup, directory, advice, current, workVars, pc, sealed>>

\* The commit is made but its answer lost: the step returns and cancels nothing.
LoseLock ==
    /\ row = "open" /\ locking = "idle"
    /\ row' = "frozen"
    /\ UNCHANGED <<lockVars, cleanup, directory, advice, current, workVars, pc, lockStepVars>>

LockAnswer ==
    /\ locking # "idle"
    /\ CancelWork
    /\ locking' = "idle"
    /\ sealed' = (locking = "committed")
    /\ UNCHANGED <<lockVars, storeVars, current, tracked, pc>>

\* The session is cancelled or expires.
Reopen ==
    /\ row = "frozen"
    /\ row' = "open"
    /\ locking' = IF locking = "committed" THEN "late" ELSE locking
    /\ sealed' = FALSE
    /\ UNCHANGED <<lockVars, cleanup, directory, advice, current, workVars, pc>>

Confirm ==
    /\ pc[Deleter] = "idle"
    /\ Acquire(Deleter)
    /\ UNCHANGED <<storeVars, current, workVars, lockStepVars>>

\* An open community is not erased; one that is gone is only cleaned.
Erase ==
    /\ pc[Deleter] = "acquire" /\ Deleter \in holders
    /\ IF row = "open"
       THEN Return(Deleter) /\ UNCHANGED <<row, cleanup>>
       ELSE /\ Go(Deleter, "cancel")
            /\ row' = "gone" /\ cleanup' = (cleanup \/ row = "frozen")
            /\ UNCHANGED <<lockVars, current, workVars>>
    /\ UNCHANGED <<directory, advice, lockStepVars>>

\* The commit is made but its answer lost: deleteCommunity returns the error.
LoseCommit ==
    /\ pc[Deleter] = "acquire" /\ Deleter \in holders /\ row = "frozen"
    /\ row' = "gone" /\ cleanup' = TRUE
    /\ Return(Deleter)
    /\ UNCHANGED <<directory, advice, lockStepVars>>

Clean ==
    /\ pc[Cleaner] = "idle" /\ cleanup
    /\ Acquire(Cleaner)
    /\ UNCHANGED <<storeVars, current, workVars, lockStepVars>>

CleanGranted ==
    /\ pc[Cleaner] = "acquire" /\ Cleaner \in holders
    /\ Go(Cleaner, "cancel")
    /\ UNCHANGED <<lockVars, storeVars, current, workVars, lockStepVars>>

\* finishCommunityDeletion, step by step.
FinishCancel(p) ==
    /\ pc[p] = "cancel"
    /\ CancelWork
    /\ Go(p, "remove")
    /\ UNCHANGED <<lockVars, storeVars, current, tracked, lockStepVars>>

RemoveAll(p) ==
    /\ pc[p] = "remove"
    /\ directory' = FALSE
    /\ Go(p, "purge")
    /\ UNCHANGED <<lockVars, row, cleanup, advice, current, workVars, lockStepVars>>

\* Mutant: the judgments go, the epoch stays.
SameEpoch == UNCHANGED current

\* cache_epoch.generation is raised: what was read before is no longer current.
NewEpoch == current' = {}

Purge(p) ==
    /\ pc[p] = "purge"
    /\ advice' = FALSE
    /\ NewEpoch
    /\ Go(p, "settle")
    /\ UNCHANGED <<lockVars, row, cleanup, directory, workVars, lockStepVars>>

SettleRow(p) ==
    /\ pc[p] = "settle"
    /\ cleanup' = FALSE
    /\ Return(p)
    /\ UNCHANGED <<row, directory, advice, lockStepVars>>

-----------------------------------------------------------------------------
(* Errors, timeouts and restarts. *)

\* Mutant: the error path that does not release the lock.
KeepsLock(p) == /\ Go(p, "idle")
                /\ current' = current \ {p}
                /\ Untrack(p)
                /\ UNCHANGED lockVars

GiveUp(p) == Return(p)

Fail(p) ==
    /\ pc[p] # "idle" /\ Live(p)
    /\ GiveUp(p)
    /\ UNCHANGED <<storeVars, lockStepVars>>

\* The lock step ended with the process, and so did all work.
Crash ==
    /\ LockLost
    /\ current' = {} /\ tracked' = {} /\ cancelled' = {}
    /\ pc' = [p \in Processes |-> "idle"]
    /\ locking' = "idle"
    /\ UNCHANGED <<storeVars, sealed>>

Request(r) ==
    \/ Identify(r) \/ Read(r) \/ LeaveRead(r) \/ ReadEpoch(r) \/ Judge(r)
    \/ Store(r) \/ Recheck(r) \/ Answer(r) \/ Written(r)

Working(p) == Track(p) \/ Check(p) \/ AskLock(p) \/ Granted(p) \/ GoHome(p)

Finishing(p) == FinishCancel(p) \/ RemoveAll(p) \/ Purge(p) \/ SettleRow(p)

Fault == LoseCommit \/ LoseLock \/ Crash \/ \E p \in Processes : Fail(p)

Work == \/ \E r \in Readers : Request(r)
        \/ \E p \in Tracked : Working(p)
        \/ Build \/ LeaveWorker
        \/ LockCommit \/ LockAnswer \/ Reopen \/ Confirm \/ Erase
        \/ Clean \/ CleanGranted
        \/ \E p \in Removers : Finishing(p)

Next == Work \/ Fault

Spec == Init /\ [][Next]_vars

\* Every process goes on by itself, but nobody has to come or to confirm.
FairSpec ==
    /\ Spec
    /\ \A r \in Readers : WF_vars((Request(r) /\ ~Identify(r)) \/ Working(r))
    /\ WF_vars(Working(Worker) \/ Build \/ LeaveWorker)
    /\ WF_vars(Erase \/ Finishing(Deleter))
    /\ WF_vars(Clean \/ CleanGranted \/ Finishing(Cleaner))

-----------------------------------------------------------------------------
(* Correctness. *)

\* Once the cleanup row of an erased community is gone nothing derived from the
\* community is left, and nothing comes back: not from a worker that read the
\* row before the erasure, nor from a request that still waits for a judgment
\* (comment of community_deletion.go l.61, README of the server l.75).
RemovalComplete == row = "gone" /\ ~cleanup => ~directory /\ ~advice

\* When the operator has been told that the community is locked, no work that
\* found it open goes on: a request that passed readerIdentity before the lock
\* is either cancelled or yet to look at the row again.
NothingBehindTheLock ==
    sealed /\ row # "open" => {p \in Tracked : pc[p] \in Under} \subseteq cancelled

\* What the comment of finishCommunityDeletion (l.61) says: no snapshot is
\* rebuilt after the parent row is removed. The code reads the row before it
\* takes the lock, so a deletion that loses the answers to its commits lets a
\* waiting worker build one; RemovalComplete says that it does not stay.
NoRebuildOfRemoved == [][directory' /\ ~directory => row # "gone"]_vars

\* A reader never shares the index with the process that removes it.
Alone == \A p \in Removers : pc[p] \in {"remove", "purge", "settle"} => holders = {p}

\* What an erased community left behind is removed, whatever becomes of the
\* requests and of the deletion itself, provided that the passes of
\* runDeletionCleanup end in time from some moment on.
CleanerSpared ==
    <>[][Work \/ LoseCommit \/ LoseLock \/ \E p \in Processes \ {Cleaner} : Fail(p)]_vars

RemovalEnds == CleanerSpared => (row = "gone" ~> ~cleanup)
=============================================================================
