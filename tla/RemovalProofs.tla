--------------------------- MODULE RemovalProofs ---------------------------
(***************************************************************************)
(* Proofs about Removal, for every set of requests: a process that removes *)
(* the index is alone with it, no work goes on behind an answered lock,    *)
(* and what was derived from an erased community is removed for good.      *)
(***************************************************************************)
EXTENDS Removal, ListProofs

-----------------------------------------------------------------------------
(* The inductive invariant. *)

\* A writer shares the lock with nobody.
Exclusive(H) == \A p \in H \cap Writers : H = {p}

\* The steps at which a process must hold the lock.
Held == {"inside", "leave", "cancel", "remove", "purge", "settle"}

LockInv == /\ waiters \in Seq(Processes)
           /\ Exclusive(holders)
           /\ \A p \in Processes : pc[p] \in Held => p \in holders

WorkInv == /\ pc \in [Processes -> Steps]
           /\ tracked = {p \in Tracked : pc[p] \notin {"idle", "identified"}}
           /\ cancelled \subseteq tracked

\* All work that has found the community open is cancelled. Once that is so and
\* the community is not open it stays so: nobody finds it open any more.
Quiet == \A p \in Tracked : pc[p] \in Under => p \in cancelled

\* An answered lock has cancelled what there was.
SealInv == /\ row \in {"open", "frozen", "gone"}
           /\ locking = "committed" \/ sealed => row # "open"
           /\ sealed => Quiet

\* How far a removal has got: the community is gone before the first step, and
\* from then on each step adds to what does not come back.
Gone(p) == /\ pc[p] \in {"cancel", "remove", "purge", "settle"} => row = "gone"
           /\ pc[p] \in {"remove", "purge", "settle"} => Quiet
           /\ pc[p] \in {"purge", "settle"} => directory = FALSE
           /\ pc[p] = "settle" => advice = FALSE /\ current = {}

\* What the end of a removal leaves behind.
Over == /\ Quiet /\ pc[Worker] # "inside"
        /\ directory = FALSE /\ advice = FALSE /\ current = {}

RemoveInv == /\ \A p \in Removers : Gone(p)
             /\ cleanup = TRUE \/ pc[Cleaner] = "acquire" => row = "gone"
             /\ row = "gone" /\ cleanup = FALSE => Over
             /\ cleanup \in BOOLEAN /\ advice \in BOOLEAN

IInv == LockInv /\ WorkInv /\ SealInv /\ RemoveInv

-----------------------------------------------------------------------------
(* The lock. *)

\* A release serves waiters that fit, one after the other.
LEMMA ServedFacts ==
    ASSUME NEW H, NEW w \in Seq(Processes)
    PROVE  /\ Served(H, w) \in 0 .. Len(w)
           /\ \A i \in 1 .. Served(H, w) : Fits(w[i], H \cup First(i - 1, w))
  <1> DEFINE K == {k \in 0 .. Len(w) : \A i \in 1 .. k : Fits(w[i], H \cup First(i - 1, w))}
  <1>1. Len(w) \in Nat
    BY LenProperties
  <1>2. 0 \in K
    BY <1>1
  <1>3. K \subseteq 0 .. Len(w) /\ K # {}
    BY <1>2
  <1>4. \E x \in K : \A y \in K : x >= y
    <2> HIDE DEF K
    <2>1. QED
      BY <1>1, <1>3, LargestNatural
  <1>5. Max(K) \in K
    <2> HIDE DEF K
    <2>1. QED
      BY <1>4 DEF Max
  <1>6. Served(H, w) = Max(K)
    BY DEF Served
  <1>7. QED
    BY <1>5, <1>6

\* Letting in what fits keeps a writer alone.
LEMMA FirstExclusive ==
    ASSUME NEW H, Exclusive(H), NEW w, NEW k \in Nat,
           \A i \in 1 .. k : Fits(w[i], H \cup First(i - 1, w))
    PROVE  Exclusive(H \cup First(k, w))
  <1>1. ASSUME NEW i \in 1 .. k
        PROVE  LET L == H \cup {w[j] : j \in 1 .. i - 1}
               IN  L = {} \/ (w[i] \notin Writers /\ L \cap Writers = {})
    <2>1. Fits(w[i], H \cup First(i - 1, w))
      OBVIOUS
    <2>2. QED
      BY <2>1, LockAssumption DEF Fits, First
  <1>2. \A x \in H \cap Writers : H = {x}
    BY DEF Exclusive
  <1>3. \A x \in (H \cup {w[i] : i \in 1 .. k}) \cap Writers :
          H \cup {w[i] : i \in 1 .. k} = {x}
    BY <1>1, <1>2, OneByOne
  <1>4. QED
    BY <1>3 DEF Exclusive, First

\* What a step of p may do to the lock: others keep it, and a writer is alone.
LockStep(p) == /\ waiters' \in Seq(Processes)
               /\ Exclusive(holders')
               /\ holders \ {p} \subseteq holders'

LEMMA UnlockStep ==
    ASSUME LockInv, NEW p \in Processes, Unlock(p)
    PROVE  LockStep(p)
  <1> DEFINE H == holders \ {p}
             w == Without(waiters, p)
             k == Served(H, w)
  <1>1. w \in Seq(Processes)
    BY WithoutFacts DEF LockInv
  <1>2. Exclusive(H)
    BY DEF LockInv, Exclusive
  <1>3. holders' = H \cup First(k, w) /\ waiters' = SubSeq(w, k + 1, Len(w))
    BY DEF Unlock, Settle
  <1> HIDE DEF w, H
  <1>4. /\ k \in 0 .. Len(w)
        /\ \A i \in 1 .. k : Fits(w[i], H \cup First(i - 1, w))
    BY <1>1, ServedFacts
  <1> HIDE DEF k
  <1>5. Len(w) \in Nat /\ \A i \in 1 .. Len(w) : w[i] \in Processes
    BY <1>1, LenProperties
  <1>6. Exclusive(holders')
    <2>1. k \in Nat
      BY <1>4, <1>5
    <2>2. Exclusive(H \cup First(k, w))
      BY <1>2, <1>4, <2>1, FirstExclusive, Zenon
    <2>3. QED
      BY <1>3, <2>2
  <1>7. waiters' \in Seq(Processes)
    <2>1. k + 1 \in Int /\ Len(w) \in Int /\ \A i \in k + 1 .. Len(w) : w[i] \in Processes
      BY <1>4, <1>5
    <2>2. QED
      BY <1>3, <2>1, SubSeqProperties
  <1>8. QED
    BY <1>3, <1>6, <1>7 DEF LockStep, H

LEMMA AcquireStep ==
    ASSUME LockInv, NEW p \in Processes, Lock(p)
    PROVE  LockStep(p) /\ holders \subseteq holders'
  <1>1. CASE waiters = <<>> /\ Fits(p, holders)
    <2>1. holders' = holders \cup {p} /\ waiters' = waiters
      BY <1>1 DEF Lock
    <2>2. Exclusive(holders \cup {p})
      <3>1. CASE holders = {}
        BY <3>1 DEF Exclusive
      <3>2. CASE holders # {}
        <4>1. p \in Readers /\ holders \cap Writers = {}
          BY <1>1, <3>2 DEF Fits
        <4>2. QED
          BY <4>1, LockAssumption DEF Exclusive
      <3>3. QED
        BY <3>1, <3>2
    <2>3. QED
      BY <2>1, <2>2 DEF LockStep, LockInv
  <1>2. CASE ~(waiters = <<>> /\ Fits(p, holders))
    <2>1. holders' = holders /\ waiters' = Append(waiters, p)
      BY <1>2 DEF Lock
    <2>2. Append(waiters, p) \in Seq(Processes)
      BY AppendFacts DEF LockInv
    <2>3. QED
      BY <2>1, <2>2 DEF LockStep, LockInv
  <1>3. QED
    BY <1>1, <1>2

LEMMA SameLock ==
    ASSUME LockInv, NEW p, UNCHANGED lockVars
    PROVE  LockStep(p) /\ holders \subseteq holders'
  BY DEF LockStep, LockInv, lockVars

\* The lock's part of the invariant follows from what a step does to the lock
\* and from where it leaves its own process.
LEMMA LockKeeps ==
    ASSUME LockInv, NEW p \in Processes, LockStep(p),
           \A q \in Processes \ {p} : pc'[q] = pc[q],
           pc'[p] \in Held => p \in holders'
    PROVE  LockInv'
  <1>1. ASSUME NEW q \in Processes, pc'[q] \in Held
        PROVE  q \in holders'
    <2>1. CASE q = p
      BY <2>1, <1>1
    <2>2. CASE q # p
      BY <2>2, <1>1 DEF LockStep, LockInv
    <2>3. QED
      BY <2>1, <2>2
  <1>2. QED
    BY <1>1 DEF LockStep, LockInv, Exclusive, Processes, Tracked, Removers, Held

-----------------------------------------------------------------------------
(* The steps of the work that is tracked. *)

LEMMA Disjoint ==
    /\ Removers \subseteq Writers /\ Removers \cap Tracked = {}
    /\ Worker \in Tracked \cap Writers /\ Readers \subseteq Tracked
    /\ Deleter \in Removers /\ Cleaner \in Removers /\ Deleter # Cleaner
    /\ Tracked \subseteq Processes /\ Removers \subseteq Processes
  BY LockAssumption, RemovalAssumption DEF Removers, Tracked, Processes

\* What a step of tracked work may do: only work that is not cancelled takes the
\* index or reads an epoch, only an open community is found open, only a worker
\* inside the lock makes the directory, and only a current epoch stores advice.
Move(p, s) ==
    /\ pc' = [pc EXCEPT ![p] = s]
    /\ LockStep(p) /\ (s \in Held => p \in holders')
    /\ row' = row /\ cleanup' = cleanup /\ locking' = locking /\ sealed' = sealed
    /\ tracked' = IF s \in {"idle", "identified"} THEN tracked \ {p} ELSE tracked \cup {p}
    /\ cancelled' \subseteq tracked'
    /\ \A q \in Tracked : (q # p \/ s \in Under) /\ q \in cancelled => q \in cancelled'
    /\ s \in Under => pc[p] \in Under \/ row = "open"
    /\ s = "inside" => p \notin cancelled /\ pc[p] \in Under
    /\ current' \subseteq current \/ (p \notin cancelled /\ pc[p] \in Under)
    /\ (directory' = directory) \/ (p = Worker /\ pc[p] = "inside")
    /\ (advice' = advice) \/ (advice' = TRUE /\ current # {})

\* Two processes of which one is a writer are not both inside the lock.
LEMMA NotBoth ==
    ASSUME LockInv, NEW p \in Processes, NEW q \in Processes, p # q, p \in Writers
    PROVE  ~(pc[p] \in Held /\ pc[q] \in Held)
  BY DEF LockInv, Exclusive

LEMMA MoveKeeps ==
    ASSUME IInv, NEW p \in Tracked, NEW s \in Steps, Move(p, s)
    PROVE  IInv'
  <1>1. /\ pc \in [Processes -> Steps] /\ p \in Processes
        /\ pc' \in [Processes -> Steps] /\ pc'[p] = s
        /\ \A q \in Processes \ {p} : pc'[q] = pc[q]
    BY Disjoint DEF IInv, WorkInv, Move
  <1>2. LockInv'
    BY <1>1, LockKeeps DEF Move, IInv
  <1>3. WorkInv'
    <2>1. tracked' = {q \in Tracked : pc'[q] \notin {"idle", "identified"}}
      BY <1>1, Disjoint DEF IInv, WorkInv, Move
    <2>2. QED
      BY <1>1, <2>1 DEF WorkInv, Move, Tracked
  <1>4. ASSUME Quiet, row # "open"
        PROVE  Quiet'
    <2>1. ASSUME NEW q \in Tracked, pc'[q] \in Under
          PROVE  q \in cancelled'
      <3>1. CASE q = p
        BY <2>1, <3>1, <1>1, <1>4 DEF Move, Quiet
      <3>2. CASE q # p
        BY <2>1, <3>2, <1>1, <1>4, Disjoint DEF Move, Quiet
      <3>3. QED
        BY <3>1, <3>2
    <2>2. QED
      BY <2>1 DEF Quiet, Under, Tracked
  <1>5. SealInv'
    BY <1>4 DEF SealInv, IInv, Move
  <1>6. RemoveInv'
    <2>1. ASSUME NEW d \in Removers
          PROVE  Gone(d)'
      <3>1. d # p /\ d \in Processes /\ d \in Writers /\ pc'[d] = pc[d]
        BY <1>1, Disjoint
      <3>2. Gone(d)
        BY DEF IInv, RemoveInv
      <3>3. pc'[d] \in {"purge", "settle"} => directory' = FALSE
        BY <3>1, <3>2, <1>1, NotBoth DEF Move, Gone, IInv, Held
      <3>4. pc'[d] = "settle" => advice' = FALSE /\ current' = {}
        BY <3>1, <3>2 DEF Move, Gone, Quiet
      <3>5. pc'[d] \in {"remove", "purge", "settle"} => Quiet'
        BY <3>1, <3>2, <1>4 DEF Gone
      <3>6. pc'[d] \in {"cancel", "remove", "purge", "settle"} => row' = "gone"
        BY <3>1, <3>2 DEF Gone, Move
      <3>7. QED
        BY <3>3, <3>4, <3>5, <3>6 DEF Gone
    <2>2. pc'[Cleaner] = pc[Cleaner]
      BY <1>1, Disjoint
    <2>3. ASSUME Over, row = "gone"
          PROVE  Over'
      <3>1. Quiet'
        BY <1>4, <2>3 DEF Over
      <3>2. pc'[Worker] # "inside"
        BY <1>1, <2>3, Disjoint DEF Over, Quiet, Move
      <3>3. directory' = FALSE /\ advice' = FALSE /\ current' = {}
        BY <2>3 DEF Over, Quiet, Move
      <3>4. QED
        BY <3>1, <3>2, <3>3 DEF Over
    <2>4. QED
      BY <2>1, <2>2, <2>3 DEF RemoveInv, IInv, Move
  <1>7. QED
    BY <1>2, <1>3, <1>5, <1>6 DEF IInv

\* The deferred calls end a process at home, without the lock.
LEMMA ReturnStep ==
    ASSUME IInv, NEW p \in Processes, Return(p)
    PROVE  /\ pc' = [pc EXCEPT ![p] = "idle"]
           /\ LockStep(p)
           /\ current' \subseteq current
           /\ tracked' = tracked \ {p} /\ cancelled' = cancelled \ {p}
  <1>1. Unlock(p) \/ UNCHANGED lockVars
    BY DEF Return
  <1>2. LockStep(p)
    BY <1>1, UnlockStep, SameLock DEF IInv
  <1>3. QED
    BY <1>2 DEF Return, Go, Untrack

LEMMA ReturnMoves ==
    ASSUME IInv, NEW p \in Tracked, Return(p), UNCHANGED <<storeVars, lockStepVars>>
    PROVE  Move(p, "idle")
  <1>1. /\ pc' = [pc EXCEPT ![p] = "idle"]
        /\ LockStep(p)
        /\ current' \subseteq current
        /\ tracked' = tracked \ {p} /\ cancelled' = cancelled \ {p}
    BY ReturnStep, Disjoint
  <1>2. "idle" \notin Held /\ "idle" \notin Under
    BY DEF Held, Under
  <1>3. QED
    BY <1>1, <1>2 DEF Move, storeVars, lockStepVars, IInv, WorkInv

\* Two kinds of step for which Move is easily seen: nothing but the step
\* changes, and perhaps the lock.
LEMMA StepMoves ==
    ASSUME IInv, NEW p \in Tracked, NEW s \in Steps, Go(p, s), LockStep(p),
           s \notin {"idle", "identified"}, pc[p] \notin {"idle", "identified"},
           s \in Held => p \in holders',
           s \in Under => pc[p] \in Under \/ row = "open",
           s = "inside" => Live(p) /\ pc[p] \in Under,
           UNCHANGED <<storeVars, current, workVars, lockStepVars>>
    PROVE  Move(p, s)
  <1>1. p \in tracked
    BY DEF IInv, WorkInv
  <1>2. QED
    BY <1>1 DEF Move, Go, Live, storeVars, workVars, lockStepVars, IInv, WorkInv

LEMMA WorkingKeeps ==
    ASSUME IInv, NEW p \in Tracked, Working(p)
    PROVE  IInv'
  <1> USE Disjoint
  <1>1. CASE Track(p)
    <2>1. LockStep(p)
      BY <1>1, SameLock DEF Track, IInv
    <2>2. Move(p, "tracked")
      BY <1>1, <2>1 DEF Track, Go, Move, storeVars, lockStepVars, IInv, WorkInv, Held, Under
    <2>3. QED
      BY <2>2, MoveKeeps DEF Steps
  <1>2. CASE Check(p)
    <2>1. CASE row = "open"
      <3>1. LockStep(p)
        BY <1>2, <2>1, SameLock DEF Check, IInv
      <3>2. Move(p, "checked")
        BY <1>2, <2>1, <3>1, StepMoves DEF Check, Steps, Held
      <3>3. QED
        BY <3>2, MoveKeeps DEF Steps
    <2>2. CASE row # "open"
      <3>1. Move(p, "idle")
        BY <1>2, <2>2, ReturnMoves DEF Check
      <3>2. QED
        BY <3>1, MoveKeeps DEF Steps
    <2>3. QED
      BY <2>1, <2>2
  <1>3. CASE AskLock(p)
    <2>1. LockStep(p)
      BY <1>3, AcquireStep DEF AskLock, Acquire, IInv
    <2>2. Move(p, "acquire")
      BY <1>3, <2>1, StepMoves DEF AskLock, Acquire, Steps, Held, Under
    <2>3. QED
      BY <2>2, MoveKeeps DEF Steps
  <1>4. CASE Granted(p)
    <2>1. LockStep(p) /\ holders \subseteq holders'
      BY <1>4, SameLock DEF Granted, IInv
    <2>2. Move(p, "inside")
      BY <1>4, <2>1, StepMoves DEF Granted, Steps, Under
    <2>3. QED
      BY <2>2, MoveKeeps DEF Steps
  <1>5. CASE GoHome(p)
    <2>1. Move(p, "idle")
      BY <1>5, ReturnMoves DEF GoHome
    <2>2. QED
      BY <2>1, MoveKeeps DEF Steps
  <1>6. QED
    BY <1>1, <1>2, <1>3, <1>4, <1>5 DEF Working

LEMMA RequestKeeps ==
    ASSUME IInv, NEW r \in Readers, Request(r)
    PROVE  IInv'
  <1> USE Disjoint
  <1>1. CASE Identify(r)
    <2>1. LockStep(r)
      BY <1>1, SameLock DEF Identify, IInv
    <2>2. Move(r, "identified")
      BY <1>1, <2>1 DEF Identify, Go, Move, storeVars, workVars, lockStepVars, IInv, WorkInv,
                        Held, Under
    <2>3. QED
      BY <2>2, MoveKeeps DEF Steps
  <1>2. CASE Read(r)
    <2>1. CASE directory
      <3>1. LockStep(r) /\ holders \subseteq holders'
        BY <1>2, <2>1, SameLock DEF Read, IInv
      <3>2. pc[r] \in Held
        BY <1>2 DEF Read, Held
      <3>3. r \in holders'
        BY <3>1, <3>2 DEF IInv, LockInv
      <3>4. Move(r, "leave")
        BY <1>2, <2>1, <3>1, <3>3, StepMoves DEF Read, Steps, Under
      <3>5. QED
        BY <3>4, MoveKeeps DEF Steps
    <2>2. CASE ~directory
      <3>1. Move(r, "idle")
        BY <1>2, <2>2, ReturnMoves DEF Read
      <3>2. QED
        BY <3>1, MoveKeeps DEF Steps
    <2>3. QED
      BY <2>1, <2>2
  <1>3. CASE LeaveRead(r)
    <2>1. LockStep(r)
      BY <1>3, UnlockStep DEF LeaveRead, IInv
    <2>2. PICK s \in {"assist", "commit"} : Go(r, s)
      BY <1>3 DEF LeaveRead
    <2>3. Move(r, s)
      BY <1>3, <2>1, <2>2, StepMoves DEF LeaveRead, Steps, Under, Held
    <2>4. QED
      BY <2>3, MoveKeeps DEF Steps
  <1>4. CASE ReadEpoch(r)
    <2>1. LockStep(r)
      BY <1>4, SameLock DEF ReadEpoch, IInv
    <2>2. r \in tracked
      BY <1>4 DEF ReadEpoch, IInv, WorkInv
    <2>3. Move(r, "asked")
      BY <1>4, <2>1, <2>2 DEF ReadEpoch, Go, Live, Move, storeVars, workVars, lockStepVars,
                              IInv, WorkInv, Held, Under
    <2>4. QED
      BY <2>3, MoveKeeps DEF Steps
  <1>5. CASE Judge(r)
    <2>1. LockStep(r)
      BY <1>5, SameLock DEF Judge, IInv
    <2>2. PICK s \in {"storing", "recheck"} : Go(r, s)
      BY <1>5 DEF Judge
    <2>3. Move(r, s)
      BY <1>5, <2>1, <2>2, StepMoves DEF Judge, Steps, Under, Held
    <2>4. QED
      BY <2>3, MoveKeeps DEF Steps
  <1>6. CASE Store(r)
    <2>1. LockStep(r)
      BY <1>6, SameLock DEF Store, IInv
    <2>2. r \in tracked
      BY <1>6 DEF Store, IInv, WorkInv
    <2>3. (advice' = advice) \/ (advice' = TRUE /\ current # {})
      <3>1. CASE r \in current
        BY <1>6, <3>1 DEF Store
      <3>2. CASE r \notin current
        BY <1>6, <3>2 DEF Store, IInv, RemoveInv
      <3>3. QED
        BY <3>1, <3>2
    <2>4. Move(r, "recheck")
      BY <1>6, <2>1, <2>2, <2>3 DEF Store, Go, Move, workVars, lockStepVars, IInv, WorkInv,
                                    Held, Under
    <2>5. QED
      BY <2>4, MoveKeeps DEF Steps
  <1>7. CASE Recheck(r)
    <2>1. CASE row = "open"
      <3>1. LockStep(r)
        BY <1>7, <2>1, SameLock DEF Recheck, IInv
      <3>2. Move(r, "commit")
        BY <1>7, <2>1, <3>1, StepMoves DEF Recheck, Steps, Held
      <3>3. QED
        BY <3>2, MoveKeeps DEF Steps
    <2>2. CASE row # "open"
      <3>1. Move(r, "idle")
        BY <1>7, <2>2, ReturnMoves DEF Recheck
      <3>2. QED
        BY <3>1, MoveKeeps DEF Steps
    <2>3. QED
      BY <2>1, <2>2
  <1>8. CASE Answer(r)
    <2>1. LockStep(r)
      BY <1>8, SameLock DEF Answer, IInv
    <2>2. Move(r, "answered")
      BY <1>8, <2>1, StepMoves DEF Answer, Steps, Under, Held
    <2>3. QED
      BY <2>2, MoveKeeps DEF Steps
  <1>9. CASE Written(r)
    <2>1. Move(r, "idle")
      BY <1>9, ReturnMoves DEF Written
    <2>2. QED
      BY <2>1, MoveKeeps DEF Steps
  <1>10. QED
    BY <1>1, <1>2, <1>3, <1>4, <1>5, <1>6, <1>7, <1>8, <1>9 DEF Request

LEMMA BuildKeeps ==
    ASSUME IInv, Build
    PROVE  IInv'
  <1>1. LockStep(Worker) /\ holders \subseteq holders'
    BY SameLock DEF Build, IInv
  <1>2. Worker \in holders' /\ Worker \in tracked
    BY <1>1, Disjoint DEF Build, IInv, LockInv, WorkInv, Held
  <1>3. Move(Worker, "leave")
    BY <1>1, <1>2 DEF Build, Go, Move, workVars, lockStepVars, IInv, WorkInv, Under
  <1>4. QED
    BY <1>3, MoveKeeps, Disjoint DEF Steps

LEMMA LeaveWorkerKeeps ==
    ASSUME IInv, LeaveWorker
    PROVE  IInv'
  <1>1. Move(Worker, "idle")
    BY ReturnMoves, Disjoint DEF LeaveWorker
  <1>2. QED
    BY <1>1, MoveKeeps, Disjoint DEF Steps

-----------------------------------------------------------------------------
(* The steps of a deletion. *)

\* What a step of a process that removes may do: it only takes away, cancels
\* more, and ends a removal with everything gone.
Remove(p, s) ==
    /\ pc' = [pc EXCEPT ![p] = s]
    /\ LockStep(p) /\ (s \in Held => p \in holders')
    /\ tracked' = tracked /\ cancelled \subseteq cancelled' /\ cancelled' \subseteq tracked
    /\ (row' = row) \/ (row' = "gone")
    /\ cleanup' \in BOOLEAN
    /\ (directory' = directory) \/ (directory' = FALSE)
    /\ (advice' = advice) \/ (advice' = FALSE)
    /\ current' \subseteq current
    /\ locking' = locking /\ sealed' = sealed
    /\ Gone(p)'
    /\ cleanup' = TRUE \/ (p = Cleaner /\ s = "acquire") => row' = "gone"
    /\ row' = "gone" /\ cleanup' = FALSE => (row = "gone" /\ cleanup = FALSE) \/ Over'

LEMMA RemoveKeeps ==
    ASSUME IInv, NEW p \in Removers, NEW s \in Steps, Remove(p, s)
    PROVE  IInv'
  <1>1. /\ pc \in [Processes -> Steps] /\ p \in Processes
        /\ pc' \in [Processes -> Steps] /\ pc'[p] = s
        /\ \A q \in Processes \ {p} : pc'[q] = pc[q]
    BY Disjoint DEF IInv, WorkInv, Remove
  <1>2. \A q \in Tracked : pc'[q] = pc[q]
    BY <1>1, Disjoint
  <1>3. LockInv'
    BY <1>1, LockKeeps DEF Remove, IInv
  <1>4. WorkInv'
    BY <1>1, <1>2 DEF IInv, WorkInv, Remove, Tracked
  <1>5. Quiet => Quiet'
    BY <1>2 DEF Quiet, Remove, Tracked, Under
  <1>6. SealInv'
    BY <1>5 DEF SealInv, IInv, Remove
  <1>7. RemoveInv'
    <2>1. ASSUME NEW d \in Removers
          PROVE  Gone(d)'
      <3>1. CASE d = p
        BY <3>1 DEF Remove
      <3>2. CASE d # p
        <4>1. pc'[d] = pc[d] /\ Gone(d)
          BY <3>2, <1>1, Disjoint DEF IInv, RemoveInv
        <4>2. QED
          BY <4>1, <1>5 DEF Gone, Remove
      <3>3. QED
        BY <3>1, <3>2
    <2>2. cleanup' = TRUE \/ pc'[Cleaner] = "acquire" => row' = "gone"
      <3>1. CASE p = Cleaner
        BY <3>1, <1>1 DEF Remove
      <3>2. CASE p # Cleaner
        <4>1. pc'[Cleaner] = pc[Cleaner]
          BY <3>2, <1>1, Disjoint
        <4>2. QED
          BY <4>1 DEF Remove, IInv, RemoveInv
      <3>3. QED
        BY <3>1, <3>2
    <2>3. Over => Over'
      <3>1. pc'[Worker] = pc[Worker]
        BY <1>2, Disjoint
      <3>2. QED
        BY <3>1, <1>5 DEF Over, Remove
    <2>4. (advice \in BOOLEAN)'
      BY DEF Remove, IInv, RemoveInv
    <2>5. row' = "gone" /\ cleanup' = FALSE => Over'
      BY <2>3 DEF Remove, IInv, RemoveInv
    <2>6. QED
      BY <2>1, <2>2, <2>4, <2>5 DEF RemoveInv, Remove
  <1>8. QED
    BY <1>3, <1>4, <1>6, <1>7 DEF IInv

\* A removing process that returns is at home; nothing it did is undone.
LEMMA ReturnRemoves ==
    ASSUME IInv, NEW p \in Removers, Return(p), directory' = directory, advice' = advice,
           UNCHANGED lockStepVars,
           (row' = row) \/ (row' = "gone"), cleanup' \in BOOLEAN,
           cleanup' = TRUE => row' = "gone",
           row' = "gone" /\ cleanup' = FALSE => (row = "gone" /\ cleanup = FALSE) \/ Over'
    PROVE  IInv'
  <1>1. /\ pc' = [pc EXCEPT ![p] = "idle"]
        /\ LockStep(p)
        /\ current' \subseteq current
        /\ tracked' = tracked \ {p} /\ cancelled' = cancelled \ {p}
    BY ReturnStep, Disjoint
  <1>2. tracked' = tracked /\ cancelled' = cancelled
    BY <1>1, Disjoint DEF IInv, WorkInv
  <1>3. pc'[p] = "idle"
    BY <1>1, Disjoint DEF IInv, WorkInv
  <1>4. Gone(p)'
    BY <1>3 DEF Gone
  <1>5. Remove(p, "idle")
    BY <1>1, <1>2, <1>4 DEF Remove, lockStepVars, IInv, WorkInv, Held
  <1>6. QED
    BY <1>5, RemoveKeeps DEF Steps

LEMMA ConfirmKeeps ==
    ASSUME IInv, Confirm
    PROVE  IInv'
  <1>1. LockStep(Deleter)
    BY AcquireStep, Disjoint DEF Confirm, Acquire, IInv
  <1>2. pc'[Deleter] = "acquire"
    BY Disjoint DEF Confirm, Acquire, Go, IInv, WorkInv
  <1>3. Gone(Deleter)'
    BY <1>2 DEF Gone
  <1>4. Remove(Deleter, "acquire")
    BY <1>1, <1>3, Disjoint DEF Remove, Confirm, Acquire, Go, storeVars, workVars, lockStepVars,
                                IInv, WorkInv, RemoveInv, Held
  <1>5. QED
    BY <1>4, RemoveKeeps, Disjoint DEF Steps

LEMMA EraseKeeps ==
    ASSUME IInv, Erase
    PROVE  IInv'
  <1>1. CASE row = "open"
    BY <1>1, ReturnRemoves, Disjoint DEF Erase, IInv, RemoveInv
  <1>2. CASE row # "open"
    <2>1. LockStep(Deleter) /\ Deleter \in holders'
      BY <1>2, SameLock DEF Erase, lockVars, IInv
    <2>2. pc'[Deleter] = "cancel" /\ row' = "gone"
      BY <1>2, Disjoint DEF Erase, Go, IInv, WorkInv
    <2>3. Gone(Deleter)'
      BY <2>2 DEF Gone
    <2>4. cleanup' \in BOOLEAN /\ (cleanup' = FALSE => row = "gone" /\ cleanup = FALSE)
      BY <1>2 DEF Erase, IInv, RemoveInv, SealInv
    <2>5. Remove(Deleter, "cancel")
      BY <1>2, <2>1, <2>2, <2>3, <2>4 DEF Remove, Erase, Go, workVars, lockStepVars, IInv, WorkInv
    <2>6. QED
      BY <2>5, RemoveKeeps, Disjoint DEF Steps
  <1>3. QED
    BY <1>1, <1>2

LEMMA LoseCommitKeeps ==
    ASSUME IInv, LoseCommit
    PROVE  IInv'
  BY ReturnRemoves, Disjoint DEF LoseCommit

LEMMA CleanKeeps ==
    ASSUME IInv, Clean
    PROVE  IInv'
  <1>1. LockStep(Cleaner)
    BY AcquireStep, Disjoint DEF Clean, Acquire, IInv
  <1>2. pc'[Cleaner] = "acquire"
    BY Disjoint DEF Clean, Acquire, Go, IInv, WorkInv
  <1>3. Gone(Cleaner)'
    BY <1>2 DEF Gone
  <1>4. row = "gone"
    BY DEF Clean, IInv, RemoveInv
  <1>5. Remove(Cleaner, "acquire")
    BY <1>1, <1>3, <1>4 DEF Remove, Clean, Acquire, Go, storeVars, workVars, lockStepVars,
                            IInv, WorkInv, RemoveInv, Held
  <1>6. QED
    BY <1>5, RemoveKeeps, Disjoint DEF Steps

LEMMA CleanGrantedKeeps ==
    ASSUME IInv, CleanGranted
    PROVE  IInv'
  <1>1. LockStep(Cleaner) /\ Cleaner \in holders'
    BY SameLock DEF CleanGranted, lockVars, IInv
  <1>2. pc'[Cleaner] = "cancel"
    BY Disjoint DEF CleanGranted, Go, IInv, WorkInv
  <1>3. row = "gone" /\ row' = row
    BY DEF CleanGranted, IInv, RemoveInv, storeVars
  <1>4. Gone(Cleaner)'
    BY <1>2, <1>3 DEF Gone
  <1>5. Remove(Cleaner, "cancel")
    BY <1>1, <1>3, <1>4 DEF Remove, CleanGranted, Go, storeVars, workVars, lockStepVars,
                            IInv, WorkInv, RemoveInv
  <1>6. QED
    BY <1>5, RemoveKeeps, Disjoint DEF Steps

\* Every process that found the community open is registered, so that
\* cancelling what is registered cancels it.
LEMMA CancelQuiets ==
    ASSUME IInv, CancelWork, \A q \in Tracked : pc'[q] = pc[q]
    PROVE  /\ Quiet'
           /\ cancelled \subseteq cancelled' /\ cancelled' \subseteq tracked
  <1>1. ASSUME NEW q \in Tracked, pc'[q] \in Under
        PROVE  q \in cancelled'
    BY <1>1 DEF CancelWork, Under, IInv, WorkInv
  <1>2. Quiet'
    BY <1>1 DEF Quiet, Tracked, Under
  <1>3. QED
    BY <1>2 DEF CancelWork, IInv, WorkInv

LEMMA FinishingKeeps ==
    ASSUME IInv, NEW p \in Removers, Finishing(p)
    PROVE  IInv'
  <1> USE Disjoint
  <1>1. ASSUME pc[p] \in Held, UNCHANGED lockVars
        PROVE  LockStep(p) /\ p \in holders'
    BY <1>1, SameLock DEF lockVars, IInv, LockInv
  <1>2. CASE FinishCancel(p)
    <2>1. LockStep(p) /\ p \in holders'
      BY <1>1, <1>2 DEF FinishCancel, Held
    <2>2. pc'[p] = "remove" /\ \A q \in Tracked : pc'[q] = pc[q]
      BY <1>2 DEF FinishCancel, Go, IInv, WorkInv
    <2>3. Quiet' /\ cancelled \subseteq cancelled' /\ cancelled' \subseteq tracked
      BY <1>2, <2>2, CancelQuiets DEF FinishCancel
    <2>4. row = "gone" /\ row' = row
      BY <1>2 DEF FinishCancel, storeVars, IInv, RemoveInv, Gone
    <2>5. Gone(p)'
      BY <2>2, <2>3, <2>4 DEF Gone
    <2>6. Remove(p, "remove")
      BY <1>2, <2>1, <2>3, <2>4, <2>5
         DEF FinishCancel, Go, Remove, storeVars, lockStepVars, IInv, RemoveInv
    <2>7. QED
      BY <2>6, RemoveKeeps DEF Steps
  <1>3. CASE RemoveAll(p)
    <2>1. LockStep(p) /\ p \in holders'
      BY <1>1, <1>3 DEF RemoveAll, Held
    <2>2. pc'[p] = "purge" /\ \A q \in Tracked : pc'[q] = pc[q]
      BY <1>3 DEF RemoveAll, Go, IInv, WorkInv
    <2>3. Quiet /\ row = "gone" /\ row' = row
      BY <1>3 DEF RemoveAll, IInv, RemoveInv, Gone
    <2>4. Quiet'
      BY <1>3, <2>2, <2>3 DEF RemoveAll, workVars, Quiet
    <2>5. Gone(p)'
      BY <1>3, <2>2, <2>3, <2>4 DEF RemoveAll, Gone
    <2>6. Remove(p, "purge")
      BY <1>3, <2>1, <2>3, <2>5
         DEF RemoveAll, Go, Remove, workVars, lockStepVars, IInv, WorkInv, RemoveInv
    <2>7. QED
      BY <2>6, RemoveKeeps DEF Steps
  <1>4. CASE Purge(p)
    <2>1. LockStep(p) /\ p \in holders'
      BY <1>1, <1>4 DEF Purge, Held
    <2>2. pc'[p] = "settle" /\ \A q \in Tracked : pc'[q] = pc[q]
      BY <1>4 DEF Purge, Go, IInv, WorkInv
    <2>3. Quiet /\ directory = FALSE /\ row = "gone" /\ row' = row
      BY <1>4 DEF Purge, IInv, RemoveInv, Gone
    <2>4. Quiet'
      BY <1>4, <2>2, <2>3 DEF Purge, workVars, Quiet
    <2>5. Gone(p)'
      BY <1>4, <2>2, <2>3, <2>4 DEF Purge, NewEpoch, Gone
    <2>6. Remove(p, "settle")
      BY <1>4, <2>1, <2>3, <2>5
         DEF Purge, NewEpoch, Go, Remove, workVars, lockStepVars, IInv, WorkInv, RemoveInv
    <2>7. QED
      BY <2>6, RemoveKeeps DEF Steps
  <1>5. CASE SettleRow(p)
    <2>1. /\ Quiet /\ row = "gone"
          /\ directory = FALSE /\ advice = FALSE /\ current = {}
      BY <1>5 DEF SettleRow, IInv, RemoveInv, Gone
    <2>2. pc[Worker] # "inside"
      BY <1>5, NotBoth DEF SettleRow, IInv, Held
    <2>3. /\ pc' = [pc EXCEPT ![p] = "idle"]
          /\ current' \subseteq current /\ cancelled' = cancelled \ {p}
      BY <1>5, ReturnStep DEF SettleRow
    <2>4. \A q \in Tracked : pc'[q] = pc[q]
      BY <2>3 DEF IInv, WorkInv
    <2>5. Quiet'
      BY <2>1, <2>3, <2>4 DEF Quiet
    <2>6. Over'
      BY <1>5, <2>1, <2>2, <2>3, <2>4, <2>5 DEF SettleRow, Over
    <2>7. QED
      BY <1>5, <2>1, <2>6, ReturnRemoves DEF SettleRow
  <1>6. QED
    BY <1>2, <1>3, <1>4, <1>5 DEF Finishing

-----------------------------------------------------------------------------
(* The lock of a session, errors and restarts. *)

\* Steps that leave every process and its work where they are.
LEMMA SealKeeps ==
    ASSUME IInv, UNCHANGED <<lockVars, cleanup, directory, advice, current, tracked, pc>>,
           cancelled \subseteq cancelled', cancelled' \subseteq tracked,
           SealInv', row = "gone" <=> row' = "gone"
    PROVE  IInv'
  <1>1. LockInv'
    BY DEF IInv, LockInv, lockVars
  <1>2. WorkInv'
    BY DEF IInv, WorkInv
  <1>3. Quiet => Quiet'
    BY DEF Quiet
  <1>4. ASSUME NEW d \in Removers
        PROVE  Gone(d)'
    <2>1. Gone(d)
      BY DEF IInv, RemoveInv
    <2>2. QED
      BY <1>3, <2>1 DEF Gone
  <1>5. Over => Over'
    BY <1>3 DEF Over
  <1>6. RemoveInv'
    BY <1>4, <1>5 DEF IInv, RemoveInv
  <1>7. QED
    BY <1>1, <1>2, <1>6 DEF IInv

LEMMA LockCommitKeeps ==
    ASSUME IInv, LockCommit \/ LoseLock
    PROVE  IInv'
  <1>1. /\ UNCHANGED <<lockVars, cleanup, directory, advice, current, workVars, pc, sealed>>
        /\ row # "gone" /\ row' = "frozen"
    BY DEF LockCommit, LoseLock, lockStepVars
  <1>2. Quiet => Quiet'
    BY <1>1 DEF Quiet, workVars
  <1>3. SealInv'
    BY <1>1, <1>2 DEF SealInv, IInv
  <1>4. QED
    BY <1>1, <1>3, SealKeeps DEF workVars, IInv, WorkInv

LEMMA LockAnswerKeeps ==
    ASSUME IInv, LockAnswer
    PROVE  IInv'
  <1>1. Quiet' /\ cancelled \subseteq cancelled' /\ cancelled' \subseteq tracked
    BY CancelQuiets DEF LockAnswer
  <1>2. SealInv'
    BY <1>1 DEF LockAnswer, SealInv, IInv, storeVars
  <1>3. QED
    BY <1>1, <1>2, SealKeeps DEF LockAnswer, storeVars

LEMMA ReopenKeeps ==
    ASSUME IInv, Reopen
    PROVE  IInv'
  <1>1. SealInv'
    BY DEF Reopen, SealInv, IInv
  <1>2. QED
    BY <1>1, SealKeeps DEF Reopen, workVars, IInv, WorkInv

LEMMA CrashKeeps ==
    ASSUME IInv, Crash
    PROVE  IInv'
  <1>1. \A p \in Processes : pc'[p] = "idle"
    BY DEF Crash
  <1>2. LockInv'
    BY <1>1 DEF Crash, LockLost, LockInv, Exclusive, Held, Processes, Tracked, Removers
  <1>3. WorkInv'
    <2>1. pc' \in [Processes -> Steps]
      BY DEF Crash, Steps
    <2>2. {q \in Tracked : pc'[q] \notin {"idle", "identified"}} = {}
      BY <1>1, Disjoint
    <2>3. QED
      BY <2>1, <2>2 DEF Crash, WorkInv, Processes, Tracked, Removers
  <1>4. Quiet'
    BY <1>1, Disjoint DEF Quiet, Under, Tracked
  <1>5. SealInv'
    BY <1>4 DEF Crash, SealInv, IInv, storeVars
  <1>6. \A d \in Removers : Gone(d)'
    BY <1>1, Disjoint DEF Gone
  <1>7. Over => Over'
    BY <1>1, <1>4, Disjoint DEF Over, Crash, storeVars
  <1>8. RemoveInv'
    BY <1>1, <1>6, <1>7, Disjoint DEF IInv, RemoveInv, Crash, storeVars
  <1>9. QED
    BY <1>2, <1>3, <1>5, <1>8 DEF IInv

\* A step of its own that fails ends with the deferred calls.
LEMMA FailKeeps ==
    ASSUME IInv, NEW p \in Processes, Fail(p)
    PROVE  IInv'
  <1>1. Return(p) /\ UNCHANGED <<storeVars, lockStepVars>>
    BY DEF Fail, GiveUp
  <1>2. CASE p \in Tracked
    <2>1. Move(p, "idle")
      BY <1>1, <1>2, ReturnMoves
    <2>2. QED
      BY <1>2, <2>1, MoveKeeps DEF Steps
  <1>3. CASE p \in Removers
    BY <1>1, <1>3, ReturnRemoves DEF storeVars, IInv, RemoveInv
  <1>4. QED
    BY <1>2, <1>3 DEF Processes

-----------------------------------------------------------------------------
(* The theorems. *)

LEMMA InitFacts == Init => IInv
  <1>1. SUFFICES ASSUME Init PROVE IInv
    OBVIOUS
  <1>2. \A p \in Processes : pc[p] = "idle"
    BY <1>1 DEF Init
  <1>3. LockInv
    BY <1>1, <1>2 DEF Init, LockInit, LockInv, Exclusive, Held
  <1>4. WorkInv
    BY <1>1, <1>2, Disjoint DEF Init, WorkInv, Steps
  <1>5. SealInv
    BY <1>1 DEF Init, SealInv
  <1>6. RemoveInv
    BY <1>1, <1>2, Disjoint DEF Init, RemoveInv, Gone
  <1>7. QED
    BY <1>3, <1>4, <1>5, <1>6 DEF IInv

LEMMA NextKeeps == IInv /\ [Next]_vars => IInv'
  <1>1. SUFFICES ASSUME IInv, [Next]_vars PROVE IInv'
    OBVIOUS
  <1>2. CASE \E r \in Readers : Request(r)
    BY <1>1, <1>2, RequestKeeps
  <1>3. CASE \E p \in Tracked : Working(p)
    BY <1>1, <1>3, WorkingKeeps
  <1>4. CASE \E p \in Removers : Finishing(p)
    BY <1>1, <1>4, FinishingKeeps
  <1>5. CASE \E p \in Processes : Fail(p)
    BY <1>1, <1>5, FailKeeps
  <1>6. CASE Build \/ LeaveWorker
    BY <1>1, <1>6, BuildKeeps, LeaveWorkerKeeps
  <1>7. CASE LockCommit \/ LoseLock \/ LockAnswer \/ Reopen
    BY <1>1, <1>7, LockCommitKeeps, LockAnswerKeeps, ReopenKeeps
  <1>8. CASE Confirm \/ Erase \/ LoseCommit
    BY <1>1, <1>8, ConfirmKeeps, EraseKeeps, LoseCommitKeeps
  <1>9. CASE Clean \/ CleanGranted \/ Crash
    BY <1>1, <1>9, CleanKeeps, CleanGrantedKeeps, CrashKeeps
  <1>10. CASE UNCHANGED vars
    <2>1. Quiet => Quiet'
      BY <1>10 DEF vars, workVars, Quiet
    <2>2. SealInv'
      BY <1>1, <1>10, <2>1 DEF vars, storeVars, lockStepVars, IInv, SealInv
    <2>3. QED
      BY <1>1, <1>10, <2>2, SealKeeps DEF vars, storeVars, workVars, IInv, WorkInv
  <1>11. QED
    BY <1>1, <1>2, <1>3, <1>4, <1>5, <1>6, <1>7, <1>8, <1>9, <1>10 DEF Next, Work, Fault

-----------------------------------------------------------------------------
(* Who is inside the lock, and the types. *)

\* A process inside the lock, granted or waiting, is at a step that gives its
\* place back: so nobody asks for the lock from inside it, and nobody waits
\* twice or for what he holds.
Inside == holders \cup Range(waiters)
Seated == Held \cup {"acquire"}

SeatInv == /\ holders \subseteq Processes
           /\ IsInjective(waiters) /\ Range(waiters) \cap holders = {}
           /\ \A p \in Inside : pc[p] \in Seated

SmallInv == /\ directory \in BOOLEAN /\ sealed \in BOOLEAN
            /\ current \subseteq Readers
            /\ locking \in {"idle", "committed", "late"}

\* A step of p that keeps the places apart and lets nobody but p in.
Seats(p) == /\ holders' \subseteq Processes
            /\ IsInjective(waiters') /\ Range(waiters') \cap holders' = {}
            /\ Inside' \subseteq Inside \cup {p}

LEMMA UnlockSeats ==
    ASSUME IInv, SeatInv, NEW p \in Processes, Unlock(p)
    PROVE  Seats(p) /\ p \notin Inside'
  <1> DEFINE H == holders \ {p}
             w == Without(waiters, p)
             k == Served(H, w)
             F == {w[i] : i \in 1 .. k}
             v == SubSeq(w, k + 1, Len(w))
  <1>1. /\ w \in Seq(Processes) /\ IsInjective(w)
        /\ Range(w) = Range(waiters) \ {p}
    BY WithoutFacts DEF IInv, LockInv, SeatInv
  <1>2. holders' = H \cup F /\ waiters' = v
    BY DEF Unlock, Settle, First
  <1>3. k \in 0 .. Len(w)
    <2> HIDE DEF w, H
    <2>1. QED
      BY <1>1, ServedFacts
  <1> HIDE DEF k
  <1>4. /\ F \subseteq Processes /\ IsInjective(v)
        /\ Range(v) = Range(w) \ F /\ F \subseteq Range(w)
    <2> HIDE DEF w
    <2>1. QED
      BY <1>1, <1>3, SuffixFacts
  <1> HIDE DEF w, F, v
  <1>5. Inside' = H \cup Range(w)
    BY <1>2, <1>4 DEF Inside
  <1>6. QED
    BY <1>1, <1>2, <1>4, <1>5 DEF SeatInv, Seats, Inside, H

LEMMA AcquireSeats ==
    ASSUME IInv, SeatInv, NEW p \in Processes, p \notin Inside, Lock(p)
    PROVE  Seats(p)
  <1>1. CASE waiters = <<>> /\ Fits(p, holders)
    <2>1. holders' = holders \cup {p} /\ waiters' = waiters
      BY <1>1 DEF Lock
    <2>2. QED
      BY <2>1 DEF SeatInv, Seats, Inside
  <1>2. CASE ~(waiters = <<>> /\ Fits(p, holders))
    <2>1. holders' = holders /\ waiters' = Append(waiters, p)
      BY <1>2 DEF Lock
    <2>2. p \notin Range(waiters) /\ p \notin holders
      BY DEF Inside
    <2>3. IsInjective(waiters') /\ Range(waiters') = Range(waiters) \cup {p}
      BY <2>1, <2>2, AppendFacts DEF IInv, LockInv, SeatInv
    <2>4. QED
      BY <2>1, <2>2, <2>3 DEF SeatInv, Seats, Inside
  <1>3. QED
    BY <1>1, <1>2

LEMMA SameSeats ==
    ASSUME SeatInv, UNCHANGED lockVars
    PROVE  Inside' = Inside /\ \A p : Seats(p)
  BY DEF SeatInv, Seats, Inside, lockVars

\* The step that p takes leaves it at s, where it may be inside or is not.
LEMMA SeatKeeps ==
    ASSUME IInv, SeatInv, NEW p \in Processes, NEW s, Seats(p),
           pc' = [pc EXCEPT ![p] = s],
           s \in Seated \/ p \notin Inside'
    PROVE  SeatInv'
  <1>1. \A q \in Processes : pc'[q] = IF q = p THEN s ELSE pc[q]
    BY DEF IInv, WorkInv
  <1>2. Inside \cup {p} \subseteq Processes
    BY RangeFacts DEF IInv, LockInv, SeatInv, Inside
  <1>3. ASSUME NEW q \in Inside'
        PROVE  pc'[q] \in Seated
    <2>1. q \in Inside \cup {p} /\ q \in Processes
      BY <1>2 DEF Seats
    <2>2. CASE q = p
      BY <1>1, <1>3, <2>1, <2>2
    <2>3. CASE q # p
      BY <1>1, <2>1, <2>3 DEF SeatInv
    <2>4. QED
      BY <2>2, <2>3
  <1>4. QED
    BY <1>3 DEF SeatInv, Seats

\* The deferred Unlock runs whenever the process is inside.
LEMMA ReturnSeats ==
    ASSUME IInv, SeatInv, NEW p \in Processes, Return(p)
    PROVE  SeatInv'
  <1>1. pc' = [pc EXCEPT ![p] = "idle"]
    BY DEF Return, Go
  <1>2. Seats(p) /\ p \notin Inside'
    <2>1. CASE p \in Inside
      <3>1. p \in holders \/ \E i \in DOMAIN waiters : waiters[i] = p
        BY <2>1, RangeFacts DEF Inside, Has, IInv, LockInv
      <3>2. Unlock(p)
        BY <3>1 DEF Return
      <3>3. QED
        BY <3>2, UnlockSeats
    <2>2. CASE p \notin Inside
      <3>1. ~(p \in holders \/ \E i \in DOMAIN waiters : waiters[i] = p)
        BY <2>2, RangeFacts DEF Inside, Has, IInv, LockInv
      <3>2. UNCHANGED lockVars
        BY <3>1 DEF Return
      <3>3. QED
        BY <2>2, <3>2, SameSeats
    <2>3. QED
      BY <2>1, <2>2
  <1>3. QED
    BY <1>1, <1>2, SeatKeeps

\* Whoever asks for the lock comes from outside.
LEMMA AskSeats ==
    ASSUME IInv, SeatInv, NEW p \in Processes, pc[p] \notin Seated, Acquire(p)
    PROVE  SeatInv'
  <1>1. p \notin Inside
    BY DEF SeatInv
  <1>2. Seats(p) /\ pc' = [pc EXCEPT ![p] = "acquire"]
    BY <1>1, AcquireSeats DEF Acquire, Go
  <1>3. QED
    BY <1>2, SeatKeeps DEF Seated

\* A step that leaves the lock alone does not leave a seat.
LEMMA StaysSeated ==
    ASSUME IInv, SeatInv, NEW p \in Processes, NEW s, UNCHANGED lockVars, Go(p, s),
           pc[p] \notin Seated \/ s \in Seated
    PROVE  SeatInv'
  <1>1. Seats(p) /\ (s \in Seated \/ p \notin Inside')
    BY SameSeats DEF SeatInv
  <1>2. QED
    BY <1>1, SeatKeeps DEF Go

LEMMA RequestSeats ==
    ASSUME IInv, SeatInv, NEW r \in Readers, Request(r)
    PROVE  SeatInv'
  <1> USE Disjoint DEF Seated, Held
  <1>1. CASE Identify(r) \/ ReadEpoch(r) \/ Judge(r) \/ Store(r) \/ Answer(r)
    <2>1. UNCHANGED lockVars /\ pc[r] \notin Seated
      BY <1>1 DEF Identify, ReadEpoch, Judge, Store, Answer
    <2>2. \E s : Go(r, s)
      BY <1>1 DEF Identify, ReadEpoch, Judge, Store, Answer
    <2>3. QED
      BY <2>1, <2>2, StaysSeated
  <1>2. CASE Recheck(r)
    <2>1. CASE row = "open"
      BY <1>2, <2>1, StaysSeated DEF Recheck
    <2>2. CASE row # "open"
      BY <1>2, <2>2, ReturnSeats DEF Recheck
    <2>3. QED
      BY <2>1, <2>2
  <1>3. CASE Read(r)
    <2>1. CASE directory
      BY <1>3, <2>1, StaysSeated DEF Read
    <2>2. CASE ~directory
      BY <1>3, <2>2, ReturnSeats DEF Read
    <2>3. QED
      BY <2>1, <2>2
  <1>4. CASE LeaveRead(r)
    <2>1. Seats(r) /\ r \notin Inside'
      BY <1>4, UnlockSeats DEF LeaveRead
    <2>2. PICK s : pc' = [pc EXCEPT ![r] = s]
      BY <1>4 DEF LeaveRead, Go
    <2>3. QED
      BY <2>1, <2>2, SeatKeeps
  <1>5. CASE Written(r)
    BY <1>5, ReturnSeats DEF Written
  <1>6. QED
    BY <1>1, <1>2, <1>3, <1>4, <1>5 DEF Request

LEMMA WorkingSeats ==
    ASSUME IInv, SeatInv, NEW p \in Tracked, Working(p)
    PROVE  SeatInv'
  <1> USE Disjoint DEF Seated, Held
  <1>1. CASE Track(p)
    BY <1>1, StaysSeated DEF Track
  <1>2. CASE Check(p)
    <2>1. CASE row = "open"
      BY <1>2, <2>1, StaysSeated DEF Check
    <2>2. CASE row # "open"
      BY <1>2, <2>2, ReturnSeats DEF Check
    <2>3. QED
      BY <2>1, <2>2
  <1>3. CASE AskLock(p)
    BY <1>3, AskSeats DEF AskLock
  <1>4. CASE Granted(p)
    BY <1>4, StaysSeated DEF Granted
  <1>5. CASE GoHome(p)
    BY <1>5, ReturnSeats DEF GoHome
  <1>6. QED
    BY <1>1, <1>2, <1>3, <1>4, <1>5 DEF Working

LEMMA RemovalSeats ==
    ASSUME IInv, SeatInv,
           Confirm \/ Erase \/ LoseCommit \/ Clean \/ CleanGranted
             \/ \E p \in Removers : Finishing(p)
    PROVE  SeatInv'
  <1> USE Disjoint DEF Seated, Held
  <1>1. CASE Confirm \/ Clean
    BY <1>1, AskSeats DEF Confirm, Clean
  <1>2. CASE Erase
    <2>1. CASE row = "open"
      BY <1>2, <2>1, ReturnSeats DEF Erase
    <2>2. CASE row # "open"
      BY <1>2, <2>2, StaysSeated DEF Erase
    <2>3. QED
      BY <2>1, <2>2
  <1>3. CASE LoseCommit
    BY <1>3, ReturnSeats DEF LoseCommit
  <1>4. CASE CleanGranted
    BY <1>4, StaysSeated DEF CleanGranted
  <1>5. ASSUME NEW p \in Removers, Finishing(p)
        PROVE  SeatInv'
    <2>1. CASE FinishCancel(p) \/ RemoveAll(p) \/ Purge(p)
      <3>1. \E s \in Seated : Go(p, s)
        BY <2>1 DEF FinishCancel, RemoveAll, Purge
      <3>2. UNCHANGED lockVars
        BY <2>1 DEF FinishCancel, RemoveAll, Purge
      <3>3. QED
        BY <3>1, <3>2, StaysSeated
    <2>2. CASE SettleRow(p)
      BY <2>2, ReturnSeats DEF SettleRow
    <2>3. QED
      BY <1>5, <2>1, <2>2 DEF Finishing
  <1>6. QED
    BY <1>1, <1>2, <1>3, <1>4, <1>5

LEMMA SeatsKept == IInv /\ SeatInv /\ [Next]_vars => SeatInv'
  <1>1. SUFFICES ASSUME IInv, SeatInv, [Next]_vars PROVE SeatInv'
    OBVIOUS
  <1>2. CASE \E r \in Readers : Request(r)
    BY <1>1, <1>2, RequestSeats
  <1>3. CASE \E p \in Tracked : Working(p)
    BY <1>1, <1>3, WorkingSeats
  <1>4. CASE \/ Confirm \/ Erase \/ LoseCommit \/ Clean \/ CleanGranted
             \/ \E p \in Removers : Finishing(p)
    BY <1>1, <1>4, RemovalSeats
  <1>5. CASE \E p \in Processes : Fail(p)
    BY <1>1, <1>5, ReturnSeats DEF Fail, GiveUp
  <1>6. CASE Build
    BY <1>1, <1>6, StaysSeated, Disjoint DEF Build, Seated, Held
  <1>7. CASE LeaveWorker
    BY <1>1, <1>7, ReturnSeats, Disjoint DEF LeaveWorker
  <1>8. CASE LockCommit \/ LoseLock \/ LockAnswer \/ Reopen \/ UNCHANGED vars
    <2>1. UNCHANGED lockVars /\ pc' = pc
      BY <1>8 DEF LockCommit, LoseLock, LockAnswer, Reopen, vars
    <2>2. QED
      BY <1>1, <2>1 DEF SeatInv, Inside, lockVars
  <1>9. CASE Crash
    <2>1. holders' = {} /\ waiters' = <<>>
      BY <1>9 DEF Crash, LockLost
    <2>2. QED
      BY <2>1 DEF SeatInv, Inside, Range, IsInjective
  <1>10. QED
    BY <1>1, <1>2, <1>3, <1>4, <1>5, <1>6, <1>7, <1>8, <1>9 DEF Next, Work, Fault

LEMMA SmallKept == SmallInv /\ [Next]_vars => SmallInv'
  <1>1. SUFFICES ASSUME SmallInv, [Next]_vars PROVE SmallInv'
    OBVIOUS
  <1> USE <1>1 DEF SmallInv, lockStepVars, storeVars, Return
  <1>2. CASE \E r \in Readers : Request(r)
    BY <1>2 DEF Request, Identify, Read, LeaveRead, ReadEpoch, Judge, Store, Recheck,
                Answer, Written
  <1>3. CASE \E p \in Tracked : Working(p)
    BY <1>3 DEF Working, Track, Check, AskLock, Granted, GoHome
  <1>4. CASE Build \/ LeaveWorker \/ Confirm \/ Erase \/ Clean \/ CleanGranted
    BY <1>4 DEF Build, LeaveWorker, Confirm, Erase, Clean, CleanGranted
  <1>5. CASE LockCommit \/ LockAnswer \/ Reopen
    BY <1>5 DEF LockCommit, LockAnswer, Reopen
  <1>6. CASE \E p \in Removers : Finishing(p)
    BY <1>6 DEF Finishing, FinishCancel, RemoveAll, Purge, NewEpoch, SettleRow
  <1>7. CASE Fault
    BY <1>7 DEF Fault, LoseCommit, LoseLock, Crash, Fail, GiveUp
  <1>8. CASE UNCHANGED vars
    BY <1>8 DEF vars
  <1>9. QED
    BY <1>2, <1>3, <1>4, <1>5, <1>6, <1>7, <1>8 DEF Next, Work

LEMMA InitSmall == Init => SeatInv /\ SmallInv
  <1>1. SUFFICES ASSUME Init PROVE SeatInv /\ SmallInv
    OBVIOUS
  <1>2. holders = {} /\ waiters = <<>>
    BY <1>1 DEF Init, LockInit
  <1>3. SeatInv
    BY <1>2 DEF SeatInv, Inside, Range, IsInjective
  <1>4. SmallInv
    BY <1>1 DEF Init, SmallInv
  <1>5. QED
    BY <1>3, <1>4

-----------------------------------------------------------------------------
\* Everything follows from the invariant.
LEMMA Inductive == Spec => []IInv
  BY InitFacts, NextKeeps, PTL DEF Spec

\* Whatever requests, locks, confirmations, errors, lost commits and restarts
\* there are: once the cleanup row of an erased community is gone, neither an
\* index directory nor cached advice of it exists, then or ever after.
THEOREM Complete == Spec => []RemovalComplete
  <1>1. IInv => RemovalComplete
    BY DEF IInv, RemoveInv, Over, RemovalComplete
  <1>2. QED
    BY <1>1, Inductive, PTL

\* An answered community.delete lock leaves no uncancelled request or worker at
\* work that found the community open before the lock's commit.
THEOREM LockedIsQuiet == Spec => []NothingBehindTheLock
  <1>1. IInv => NothingBehindTheLock
    BY DEF IInv, SealInv, Quiet, NothingBehindTheLock
  <1>2. QED
    BY <1>1, Inductive, PTL

\* A deletion removes the directory while no request and no worker is inside
\* the index lock.
THEOREM RemovesAlone == Spec => []Alone
  <1>1. IInv => Alone
    BY Disjoint DEF IInv, LockInv, Exclusive, Held, Alone
  <1>2. QED
    BY <1>1, Inductive, PTL

\* Every variable keeps its type: among the rest, nobody ever waits for a lock
\* he holds, and the tracked work is that of the processes past trackCommunityWork.
THEOREM Typed == Spec => []TypeOK
  <1>1. IInv /\ SeatInv /\ SmallInv => TypeOK
    <2>1. SUFFICES ASSUME IInv, SeatInv, SmallInv PROVE TypeOK
      OBVIOUS
    <2>2. Processes = Readers \cup Writers
      BY RemovalAssumption DEF Processes, Tracked, Removers
    <2>3. waiters \in Seq(Processes \ holders)
      <3>1. \A i \in 1 .. Len(waiters) : waiters[i] \in Processes \ holders
        BY <2>1, LenProperties DEF IInv, LockInv, SeatInv, Range
      <3>2. QED
        BY <2>1, <3>1, IsASeq, LenProperties DEF IInv, LockInv
    <2>4. LockTypeOK
      BY <2>1, <2>2, <2>3 DEF SeatInv, LockTypeOK
    <2>5. QED
      BY <2>1, <2>4 DEF IInv, WorkInv, SealInv, RemoveInv, SmallInv, TypeOK
  <1>2. Spec => []SeatInv
    BY InitFacts, InitSmall, NextKeeps, SeatsKept, PTL DEF Spec
  <1>3. Spec => []SmallInv
    BY InitSmall, SmallKept, PTL DEF Spec
  <1>4. QED
    BY <1>1, <1>2, <1>3, Inductive, PTL
=============================================================================
