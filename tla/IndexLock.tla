----------------------------- MODULE IndexLock -----------------------------
(***************************************************************************)
(* lockIndex of server/search_concurrency.go: the reader/writer lock of a  *)
(* community's index, a weighted semaphore of golang.org/x/sync. A reader  *)
(* takes weight 1 and a writer all of it. The semaphore is first come,     *)
(* first served: whoever finds a waiter waits behind it, and a release     *)
(* serves waiters from the front for as long as the next one fits.         *)
(***************************************************************************)
EXTENDS Lists, FiniteSets, FiniteSetsExt

CONSTANTS Readers,   \* processes that call lockIndex(ctx, cid, false)
          Writers    \* processes that call lockIndex(ctx, cid, true)

ASSUME LockAssumption == Readers \cap Writers = {}

VARIABLES holders,   \* the processes the semaphore has granted its weight to
          waiters    \* the processes inside Acquire, in their order

lockVars == <<holders, waiters>>

LockTypeOK == /\ holders \in SUBSET (Readers \cup Writers)
              /\ waiters \in Seq((Readers \cup Writers) \ holders)

LockInit == /\ holders = {}
            /\ waiters = <<>>

\* Mutant: readers that pay no attention to a writer.
FitsReader(p, H) == H = {} \/ p \in Readers

\* Whether the weight of p is left over by the processes of H.
Fits(p, H) == H = {} \/ (p \in Readers /\ H \cap Writers = {})

\* The processes among the first k waiters.
First(k, w) == {w[i] : i \in 1..k}

\* How many waiters a release serves when the processes of H keep theirs.
Served(H, w) ==
    Max({k \in 0..Len(w) : \A i \in 1..k : Fits(w[i], H \cup First(i - 1, w))})

\* notifyWaiters, with the processes of H holding and those of w waiting.
Settle(H, w) ==
    LET k == Served(H, w)
    IN /\ holders' = H \cup First(k, w)
       /\ waiters' = SubSeq(w, k + 1, Len(w))

Lock(p) ==
    IF waiters = <<>> /\ Fits(p, holders)
    THEN holders' = holders \cup {p} /\ UNCHANGED waiters
    ELSE waiters' = Append(waiters, p) /\ UNCHANGED holders

\* A holder releases, or the context of a waiter ends inside Acquire.
Unlock(p) == Settle(holders \ {p}, Without(waiters, p))

\* The process that kept the lock in its memory is gone.
LockLost == /\ holders' = {}
            /\ waiters' = <<>>
=============================================================================
