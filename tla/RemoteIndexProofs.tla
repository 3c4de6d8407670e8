------------------------- MODULE RemoteIndexProofs -------------------------
(***************************************************************************)
(* Proofs about RemoteIndex, for every set of documents, of readers and of *)
(* damages, and every batch size: an index that may answer is faithful to  *)
(* the library, whatever the worker was interrupted at, and an answer is   *)
(* faithful to the library as the query has compared the index with it.    *)
(***************************************************************************)
EXTENDS RemoteIndex, ListProofs

-----------------------------------------------------------------------------
(* The inductive invariant. *)

Processes == Readers \cup Writers

\* A writer shares the lock with nobody.
Exclusive(H) == \A p \in H \cap Writers : H = {p}

LockInv == /\ holders \subseteq Processes
           /\ waiters \in Seq(Processes) /\ IsInjective(waiters)
           /\ Range(waiters) \cap holders = {}
           /\ Exclusive(holders)

\* The processes inside lockIndex or past it are those whose step says so.
Inside == holders \cup Range(waiters)
Outside == {"idle", "answered", "failed"}

PlaceInv == /\ Worker \in Inside <=> pc # "idle"
            /\ pc \notin {"idle", "locked"} => Worker \in holders
            /\ \A q \in Readers :
                 /\ q \in Inside <=> qpc[q] \notin Outside
                 /\ qpc[q] \in {"reset", "hits", "records"} => q \in holders

\* The types, with those of the parts of the job.
Batches == UNION {[B -> Nat] : B \in SUBSET Docs}
Jobs == [target : Nat, reset : Nat, seq : Nat, statement : 0..4,
         batch : Batches, cursor : Cursors]

TypeInv == /\ LibraryTypeOK
           /\ built \in BOOLEAN /\ repair \in BOOLEAN
           /\ damage \in {"none"} \cup DamageKinds
           /\ entries \subseteq Docs \X Nat
           /\ records \in [Docs -> Nat]
           /\ progress \in [sequence : Nat \cup {None}, reset : Nat \cup {None},
                            cursor : Cursors]
           /\ pc \in WorkerSteps
           /\ job \in Jobs /\ Cardinality(DOMAIN job.batch) <= BatchSize
           /\ qpc \in [Readers -> QuerySteps]
           /\ indexed \in [Readers -> Nat]
           /\ known \in [Readers -> [Docs -> Nat]]
           /\ hits \in [Readers -> SUBSET (Docs \X Nat)]
           /\ answer \in [Readers -> SUBSET (Docs \X Nat \X Nat)]

\* What stepIndex finds of an index that the deletion at R has made obsolete.
Behind(R) == R > Numeric(progress.sequence) /\ progress.reset # R

\* No record names a row that is gone.
Matched == \A d \in Docs : records[d] # 0 => <<d, records[d]>> \in entries

\* The library the job goes by is one that was. Since then nothing was deleted,
\* or the deletion is past the job's target.
JobInv == /\ progress.sequence <= sequence /\ progress.reset <= reset
          /\ progress.cursor[1] <= sequence
          /\ pc # "idle" =>
               /\ job.reset <= job.target /\ job.target <= sequence
               /\ job.reset <= reset /\ (reset = job.reset \/ reset > job.target)
               /\ progress.sequence <= job.target /\ progress.reset <= job.reset
               /\ progress.cursor[1] <= job.target

\* How far a wipe has got. Until it reaches the progress every reader and every
\* later job sees that the index is obsolete.
WipeInv ==
    pc = "wipe" =>
      /\ job.statement \in 1..4
      /\ job.statement <= 3 /\ damage # "tables" => Behind(job.reset)
      /\ job.statement >= 2 => entries = {}
      /\ job.statement >= 3 => records = Nothing
      /\ job.statement = 4 => progress = NoProgress

TornInv == ~Matched => Behind(reset) /\ (pc # "idle" => Behind(job.reset))

\* A job that writes has found the index current with the deletions, or wiped it.
CurrentInv ==
    /\ pc \in {"fetch", "apply", "save"} =>
         Matched /\ (damage # "tables" => ~Behind(job.reset))
    /\ pc \in {"fetch", "apply"} /\ damage # "tables" => job.seq = Numeric(progress.sequence)

\* The batch has the documents as they were, and those before its cursor that
\* it leaves out are behind the cursor that is saved.
BatchInv ==
    /\ pc = "apply" =>
         /\ \A d \in DOMAIN job.batch :
              /\ job.batch[d] \in 1..job.target
              /\ docs[d] = job.batch[d] \/ docs[d] > job.target \/ reset > job.target
         /\ damage # "tables" =>
              \A d \in Docs :
                docs[d] \in 1..job.target /\ (Complete \/ ~After(Row(d), job.cursor)) =>
                  \/ d \in DOMAIN job.batch \/ docs[d] <= job.seq
                  \/ ~After(Row(d), progress.cursor)
    /\ pc \in {"apply", "save"} /\ ~Complete => job.cursor[1] <= job.target

\* A document that is not after position c is in the index as it is.
Covers(c) == \A d \in Present : ~After(Row(d), c) => <<d, docs[d]>> \in entries

SaveInv == pc = "save" /\ ~Behind(reset) /\ ~Complete => Covers(job.cursor)

\* The records of the entries, and what an index that is not behind the last
\* deletion holds of the library.
ContentInv ==
    /\ \A e \in entries : records[e[1]] = e[2] /\ e[2] # 0
    /\ ~Behind(reset) => /\ Faithful(Numeric(progress.sequence), entries, docs)
                         /\ Covers(progress.cursor)

\* What a query has read, under the lock that keeps it so.
Reading(q) ==
    /\ qpc[q] \in {"reset", "hits", "records"} => progress.sequence = indexed[q]
    /\ qpc[q] \in {"hits", "records"} => Faithful(indexed[q], entries, known[q])
    /\ qpc[q] = "records" => hits[q] = entries

QueryInv == (\A q \in Readers : Reading(q)) /\ AnswersExact

IndexInv == /\ JobInv /\ WipeInv /\ TornInv /\ CurrentInv /\ BatchInv /\ SaveInv
            /\ ContentInv

IInv == LockInv /\ PlaceInv /\ TypeInv /\ IndexInv /\ QueryInv

-----------------------------------------------------------------------------
(* The lock. *)

LEMMA Actors ==
    /\ Writers = {Worker} /\ Worker \in Processes /\ Worker \notin Readers
    /\ Readers \subseteq Processes /\ Processes \ {Worker} \subseteq Readers
  BY LockAssumption, IndexAssumption DEF Processes

\* A release serves waiters that fit, one after the other.
LEMMA ServedFacts ==
    ASSUME NEW H, NEW w \in Seq(Processes)
    PROVE  /\ Served(H, w) \in 0 .. Len(w)
           /\ \A i \in 1 .. Served(H, w) : Fits(w[i], H \cup First(i - 1, w))
  <1> DEFINE K == {k \in 0 .. Len(w) : \A i \in 1 .. k : Fits(w[i], H \cup First(i - 1, w))}
  <1>1. Len(w) \in Nat
    BY LenProperties
  <1>2. 0 \in K
    BY <1>1
  <1>3. K \subseteq 0 .. Len(w) /\ K # {}
    BY <1>2
  <1>4. \E x \in K : \A y \in K : x >= y
    <2> HIDE DEF K
    <2>1. QED
      BY <1>1, <1>3, LargestNatural
  <1>5. Max(K) \in K
    <2> HIDE DEF K
    <2>1. QED
      BY <1>4 DEF Max
  <1>6. Served(H, w) = Max(K)
    BY DEF Served
  <1>7. QED
    BY <1>5, <1>6

\* Whoever leaves the lock, or gives up waiting for it, is gone from it for good;
\* the others stay inside, and those that hold it keep it.
LEMMA UnlockStep ==
    ASSUME LockInv, NEW p \in Processes, Unlock(p)
    PROVE  LockInv' /\ Inside' = Inside \ {p} /\ holders \ {p} \subseteq holders'
  <1> DEFINE H == holders \ {p}
             w == Without(waiters, p)
             k == Served(H, w)
             F == {w[i] : i \in 1 .. k}
             v == SubSeq(w, k + 1, Len(w))
  <1>1. /\ w \in Seq(Processes) /\ IsInjective(w)
        /\ Range(w) = Range(waiters) \ {p}
    BY WithoutFacts DEF LockInv
  <1>2. Exclusive(H) /\ H \subseteq Processes /\ Range(w) \cap H = {}
    BY <1>1 DEF LockInv, Exclusive
  <1>3. holders' = H \cup F /\ waiters' = v
    BY DEF Unlock, Settle, First
  <1>4. k \in 0 .. Len(w) /\ \A i \in 1 .. k : Fits(w[i], H \cup First(i - 1, w))
    <2> HIDE DEF w, H
    <2>1. QED
      BY <1>1, ServedFacts
  <1> HIDE DEF k
  <1>5. /\ v \in Seq(Processes) /\ F \subseteq Processes
        /\ IsInjective(v) /\ Range(v) = Range(w) \ F /\ F \subseteq Range(w)
    <2> HIDE DEF w
    <2>1. QED
      BY <1>1, <1>4, SuffixFacts
  <1>6. Exclusive(H \cup F)
    <2>1. ASSUME NEW i \in 1 .. k
          PROVE  LET L == H \cup {w[j] : j \in 1 .. i - 1}
                 IN  L = {} \/ (w[i] \notin Writers /\ L \cap Writers = {})
      <3>1. Fits(w[i], H \cup First(i - 1, w))
        BY <1>4
      <3>2. QED
        BY <3>1, LockAssumption DEF Fits, First
    <2>2. Len(w) \in Nat
      BY <1>1, LenProperties
    <2>3. k \in Nat
      BY <1>4, <2>2
    <2>4. \A x \in H \cap Writers : H = {x}
      BY <1>2 DEF Exclusive
    <2> HIDE DEF w, H
    <2>5. \A x \in (H \cup F) \cap Writers : H \cup F = {x}
      BY <2>1, <2>3, <2>4, OneByOne
    <2>6. QED
      BY <2>5 DEF Exclusive
  <1> HIDE DEF w, H, F, v
  <1>7. LockInv'
    BY <1>2, <1>3, <1>5, <1>6 DEF LockInv, Exclusive, Processes
  <1>8. Inside' = H \cup Range(w)
    BY <1>3, <1>5 DEF Inside
  <1>9. QED
    BY <1>1, <1>3, <1>7, <1>8 DEF Inside, H

\* Whoever asks for the lock is inside, and those that hold it keep it.
LEMMA LockStep ==
    ASSUME LockInv, NEW p \in Processes, p \notin Inside, Lock(p)
    PROVE  LockInv' /\ Inside' = Inside \cup {p} /\ holders \subseteq holders'
  <1>1. CASE waiters = <<>> /\ Fits(p, holders)
    <2>1. holders' = holders \cup {p} /\ waiters' = waiters
      BY <1>1 DEF Lock
    <2>2. Exclusive(holders \cup {p})
      BY <1>1, LockAssumption DEF Fits, Exclusive, LockInv
    <2>3. Range(waiters) \cap (holders \cup {p}) = {}
      BY DEF LockInv, Inside
    <2>4. LockInv'
      BY <2>1, <2>2, <2>3 DEF LockInv, Exclusive, Processes
    <2>5. QED
      BY <2>1, <2>4 DEF Inside
  <1>2. CASE ~(waiters = <<>> /\ Fits(p, holders))
    <2>1. holders' = holders /\ waiters' = Append(waiters, p)
      BY <1>2 DEF Lock
    <2>2. p \notin Range(waiters) /\ p \notin holders
      BY DEF Inside
    <2>3. /\ waiters' \in Seq(Processes) /\ IsInjective(waiters')
          /\ Range(waiters') = Range(waiters) \cup {p}
      BY <2>1, <2>2, AppendFacts DEF LockInv
    <2>4. LockInv'
      BY <2>1, <2>2, <2>3 DEF LockInv, Exclusive, Processes
    <2>5. QED
      BY <2>1, <2>3, <2>4 DEF Inside
  <1>3. QED
    BY <1>1, <1>2

LEMMA SameLock ==
    ASSUME LockInv, UNCHANGED lockVars
    PROVE  LockInv' /\ Inside' = Inside /\ holders' = holders
  BY DEF LockInv, Inside, lockVars, Exclusive

\* A step of one process leaves the others where they are in the lock.
Beside(p) == /\ LockInv' /\ Inside' \ {p} = Inside \ {p}
             /\ holders \ {p} \subseteq holders'

LEMMA WorkerPlace ==
    ASSUME PlaceInv, Beside(Worker), qpc' = qpc,
           Worker \in Inside' <=> pc' # "idle",
           pc' \notin {"idle", "locked"} => Worker \in holders'
    PROVE  PlaceInv'
  <1>1. \A q \in Readers : q # Worker
    BY Actors
  <1>2. QED
    BY <1>1 DEF PlaceInv, Beside, Outside

LEMMA QueryPlace ==
    ASSUME PlaceInv, NEW q \in Readers, Beside(q), pc' = pc,
           \A r \in Readers \ {q} : qpc'[r] = qpc[r],
           q \in Inside' <=> qpc'[q] \notin Outside,
           qpc'[q] \in {"reset", "hits", "records"} => q \in holders'
    PROVE  PlaceInv'
  <1>1. Worker # q
    BY Actors
  <1>2. ASSUME NEW r \in Readers
        PROVE  /\ r \in Inside' <=> qpc'[r] \notin Outside
               /\ qpc'[r] \in {"reset", "hits", "records"} => r \in holders'
    <2>1. CASE r = q
      BY <2>1
    <2>2. CASE r # q
      BY <2>2 DEF PlaceInv, Beside
    <2>3. QED
      BY <2>1, <2>2
  <1>3. QED
    BY <1>1, <1>2 DEF PlaceInv, Beside, Outside

\* While the worker has the lock no query reads the index.
LEMMA WorkerAlone ==
    ASSUME LockInv, PlaceInv, Worker \in holders
    PROVE  \A q \in Readers : qpc[q] \notin {"reset", "hits", "records"}
  BY Actors DEF LockInv, PlaceInv, Exclusive

-----------------------------------------------------------------------------
(* What the steps leave alone. *)

\* The parts of the state, with their types.
LEMMA Fields ==
    ASSUME TypeInv
    PROVE  /\ sequence \in Nat /\ reset \in Nat /\ reset <= sequence
           /\ docs \in [Docs -> Nat]
           /\ \A d \in Docs : docs[d] \in Nat /\ docs[d] <= sequence /\ d \in Nat /\ d # 0
           /\ progress.sequence \in Int /\ progress.sequence >= None
           /\ progress.reset \in Int /\ progress.reset >= None
           /\ progress.cursor \in Cursors
           /\ progress.cursor[1] \in Nat /\ progress.cursor[2] \in Nat
           /\ Numeric(progress.sequence) \in Nat
           /\ Numeric(progress.sequence) >= progress.sequence
           /\ job.target \in Nat /\ job.reset \in Nat /\ job.seq \in Nat
           /\ job.cursor \in Cursors /\ job.cursor[1] \in Nat /\ job.cursor[2] \in Nat
           /\ DOMAIN job.batch \subseteq Docs
           /\ \A d \in DOMAIN job.batch : job.batch[d] \in Nat
           /\ BatchSize \in Nat /\ BatchSize # 0
  <1>1. /\ sequence \in Nat /\ reset \in Nat /\ reset <= sequence
        /\ docs \in [Docs -> 0 .. sequence]
    BY DEF TypeInv, LibraryTypeOK
  <1>2. \A d \in Docs : docs[d] \in Nat /\ docs[d] <= sequence /\ d \in Nat /\ d # 0
    BY <1>1, LibraryAssumption
  <1>3. docs \in [Docs -> Nat]
    BY <1>1, <1>2
  <1>4. /\ progress.sequence \in Nat \cup {None} /\ progress.reset \in Nat \cup {None}
        /\ progress.cursor \in Cursors
    BY DEF TypeInv
  <1>5. /\ progress.sequence \in Int /\ progress.sequence >= None
        /\ progress.reset \in Int /\ progress.reset >= None
        /\ Numeric(progress.sequence) \in Nat
        /\ Numeric(progress.sequence) >= progress.sequence
    BY <1>4 DEF None, Numeric
  <1>6. progress.cursor[1] \in Nat /\ progress.cursor[2] \in Nat
    BY <1>4 DEF Cursors
  <1>7. /\ job.target \in Nat /\ job.reset \in Nat /\ job.seq \in Nat
        /\ job.cursor \in Cursors
        /\ job.batch \in Batches
    BY DEF TypeInv, Jobs
  <1>8. job.cursor[1] \in Nat /\ job.cursor[2] \in Nat
    BY <1>7 DEF Cursors
  <1>9. PICK B \in SUBSET Docs : job.batch \in [B -> Nat]
    BY <1>7 DEF Batches
  <1>10. DOMAIN job.batch \subseteq Docs /\ \A d \in DOMAIN job.batch : job.batch[d] \in Nat
    BY <1>9
  <1>11. BatchSize \in Nat /\ BatchSize # 0
    BY IndexAssumption
  <1>12. QED
    BY <1>1, <1>2, <1>3, <1>4, <1>5, <1>6, <1>7, <1>8, <1>10, <1>11

\* A step that touches neither the library, nor the index, nor the worker.
LEMMA IndexSame ==
    ASSUME IndexInv, UNCHANGED <<libraryVars, indexVars, workerVars>>
    PROVE  IndexInv'
  <1>1. /\ docs' = docs /\ sequence' = sequence /\ reset' = reset
        /\ damage' = damage /\ entries' = entries
        /\ records' = records /\ progress' = progress /\ pc' = pc /\ job' = job
    BY DEF libraryVars, indexVars, workerVars
  <1>2. QED
    BY <1>1 DEF IndexInv, JobInv, WipeInv, TornInv, CurrentInv, BatchInv, SaveInv,
                ContentInv, Behind, Matched, Covers, Complete, Present, Row, Faithful

\* The worker stops wherever it is: what its invariant says of an idle worker is
\* what it says of the index alone.
LEMMA IndexRests ==
    ASSUME IndexInv, pc' = "idle", UNCHANGED <<libraryVars, indexVars>>
    PROVE  IndexInv'
  <1>1. /\ docs' = docs /\ sequence' = sequence /\ reset' = reset
        /\ damage' = damage /\ entries' = entries
        /\ records' = records /\ progress' = progress
    BY DEF libraryVars, indexVars
  <1>2. JobInv'
    BY <1>1 DEF IndexInv, JobInv
  <1>3. TornInv'
    BY <1>1 DEF IndexInv, TornInv, Matched, Behind
  <1>4. ContentInv'
    BY <1>1 DEF IndexInv, ContentInv, Behind, Covers, Present, Row, Faithful
  <1>5. WipeInv' /\ CurrentInv' /\ BatchInv' /\ SaveInv'
    BY DEF WipeInv, CurrentInv, BatchInv, SaveInv
  <1>6. QED
    BY <1>2, <1>3, <1>4, <1>5 DEF IndexInv

\* The queries stand still, and what they read does so too or nobody reads it.
LEMMA QueriesSame ==
    ASSUME QueryInv, UNCHANGED queryVars,
           \/ progress' = progress /\ entries' = entries
           \/ \A q \in Readers : qpc[q] \notin {"reset", "hits", "records"}
    PROVE  QueryInv'
  <1>1. /\ qpc' = qpc /\ indexed' = indexed /\ known' = known /\ hits' = hits
        /\ answer' = answer
    BY DEF queryVars
  <1>2. AnswersExact'
    BY <1>1 DEF QueryInv, AnswersExact, Faithful
  <1>3. ASSUME NEW q \in Readers
        PROVE  Reading(q)'
    BY <1>1 DEF QueryInv, Reading, Faithful
  <1>4. QED
    BY <1>2, <1>3 DEF QueryInv

\* A step of the worker after it has the lock and before it gives it back.
LEMMA WorkerInside ==
    ASSUME LockInv, PlaceInv, Worker \in holders, pc # "idle", pc' # "idle",
           UNCHANGED <<lockVars, queryVars>>
    PROVE  LockInv' /\ PlaceInv'
  <1>1. LockInv' /\ Inside' = Inside /\ holders' = holders
    BY SameLock
  <1>2. qpc' = qpc /\ Worker \in Inside
    BY DEF queryVars, Inside
  <1>3. QED
    BY <1>1, <1>2, WorkerPlace DEF Beside

\* The worker returns and gives the lock back.
LEMMA WorkerReturns ==
    ASSUME LockInv, PlaceInv, Return, UNCHANGED queryVars
    PROVE  LockInv' /\ PlaceInv'
  <1>1. LockInv' /\ Inside' = Inside \ {Worker} /\ holders \ {Worker} \subseteq holders'
    BY UnlockStep, Actors DEF Return
  <1>2. pc' = "idle" /\ qpc' = qpc
    BY DEF Return, queryVars
  <1>3. QED
    BY <1>1, <1>2, WorkerPlace DEF Beside

\* Where a job has got to.
LEMMA JobAt ==
    ASSUME NEW j \in Jobs, NEW s \in Nat, NEW n \in 0 .. 4, NEW k,
           k = [j EXCEPT !.seq = s, !.statement = n]
    PROVE  k \in Jobs
  BY DEF Jobs

LEMMA JobWith ==
    ASSUME NEW j \in Jobs, NEW b \in Batches, NEW c \in Cursors, NEW k,
           k = [j EXCEPT !.batch = b, !.cursor = c]
    PROVE  k \in Jobs
  BY DEF Jobs

LEMMA NoJobTyped == NoJob \in Jobs /\ Cardinality(DOMAIN NoJob.batch) <= BatchSize
  <1>1. NoJob.batch = [d \in {} |-> 0] /\ DOMAIN NoJob.batch = {}
    BY DEF NoJob
  <1>2. [d \in {} |-> 0] \in [{} -> Nat]
    OBVIOUS
  <1>3. [d \in {} |-> 0] \in Batches
    BY <1>2 DEF Batches
  <1>4. NoJob \in Jobs
    <2>1. ASSUME NEW b \in Batches
          PROVE  [target |-> 0, reset |-> 0, seq |-> 0, statement |-> 0,
                  batch |-> b, cursor |-> <<0, 0>>] \in Jobs
      <3>1. <<0, 0>> \in Cursors
        BY DEF Cursors
      <3>2. QED
        BY <3>1 DEF Jobs
    <2>2. QED
      BY <1>3, <2>1 DEF NoJob
  <1>5. Cardinality(DOMAIN NoJob.batch) = 0
    BY <1>1, FS_EmptySet
  <1>6. QED
    BY <1>4, <1>5, IndexAssumption

-----------------------------------------------------------------------------
(* The steps of the worker. *)

\* Whatever the deletion a job goes by has made obsolete, the last one has too.
LEMMA BehindBoth ==
    ASSUME TypeInv, JobInv, pc # "idle", Behind(job.reset)
    PROVE  Behind(reset)
  <1>1. CASE reset = job.reset
    BY <1>1
  <1>2. CASE reset > job.target
    <2>1. /\ progress.sequence <= job.target /\ progress.reset <= job.reset
          /\ job.reset <= job.target
      BY DEF JobInv
    <2>2. Numeric(progress.sequence) <= job.target /\ progress.reset < reset
      BY <1>2, <2>1, Fields DEF Numeric, None
    <2>3. QED
      BY <1>2, <2>2, Fields DEF Behind
  <1>3. QED
    BY <1>1, <1>2 DEF JobInv

\* An index that is not behind the last deletion has not seen one since its job
\* has read the library.
LEMMA NoneSince ==
    ASSUME TypeInv, JobInv, pc # "idle", ~Behind(reset)
    PROVE  reset <= job.target /\ reset = job.reset
  <1>1. /\ progress.sequence <= job.target /\ progress.reset <= job.reset
        /\ job.reset <= job.target /\ (reset = job.reset \/ reset > job.target)
    BY DEF JobInv
  <1>2. reset <= Numeric(progress.sequence) \/ progress.reset = reset
    BY Fields DEF Behind
  <1>3. Numeric(progress.sequence) <= job.target
    BY <1>1, Fields DEF Numeric
  <1>4. QED
    BY <1>1, <1>2, <1>3, Fields

LEMMA StartKeeps ==
    ASSUME IInv, Start
    PROVE  IInv'
  <1>1. /\ pc = "idle" /\ pc' = "locked" /\ Lock(Worker)
        /\ job' = [NoJob EXCEPT !.target = sequence, !.reset = reset]
        /\ UNCHANGED <<libraryVars, indexVars, repair, queryVars>>
    BY DEF Start
  <1>2. /\ docs' = docs /\ sequence' = sequence /\ reset' = reset
        /\ damage' = damage /\ entries' = entries /\ built' = built
        /\ records' = records /\ progress' = progress /\ repair' = repair
        /\ qpc' = qpc /\ indexed' = indexed /\ known' = known /\ hits' = hits
        /\ answer' = answer
    BY <1>1 DEF libraryVars, indexVars, queryVars
  <1>3. LockInv' /\ PlaceInv'
    <2>1. Worker \notin Inside
      BY <1>1 DEF IInv, PlaceInv
    <2>2. LockInv' /\ Inside' = Inside \cup {Worker} /\ holders \subseteq holders'
      BY <1>1, <2>1, LockStep, Actors DEF IInv
    <2>3. QED
      BY <1>1, <1>2, <2>2, WorkerPlace DEF IInv, Beside
  <1>4. /\ job'.target = sequence /\ job'.reset = reset
        /\ job'.batch = NoJob.batch /\ job' \in Jobs
    BY <1>1, NoJobTyped, Fields DEF NoJob, Jobs, IInv
  <1>5. TypeInv'
    BY <1>1, <1>2, <1>4, NoJobTyped DEF IInv, TypeInv, LibraryTypeOK, WorkerSteps
  <1>6. IndexInv'
    <2>1. JobInv'
      BY <1>1, <1>2, <1>4, Fields DEF IInv, IndexInv, JobInv
    <2>2. TornInv'
      BY <1>2, <1>4 DEF IInv, IndexInv, TornInv, Matched, Behind
    <2>3. ContentInv'
      BY <1>2 DEF IInv, IndexInv, ContentInv, Behind, Covers, Present, Row, Faithful
    <2>4. WipeInv' /\ CurrentInv' /\ BatchInv' /\ SaveInv'
      BY <1>1 DEF WipeInv, CurrentInv, BatchInv, SaveInv
    <2>5. QED
      BY <2>1, <2>2, <2>3, <2>4 DEF IndexInv
  <1>7. QueryInv'
    BY <1>1, <1>2, QueriesSame DEF IInv
  <1>8. QED
    BY <1>3, <1>5, <1>6, <1>7 DEF IInv

\* The worker returns without having written anything: its job failed, was
\* refused by the file, or found nothing to do.
LEMMA ReturnKeeps ==
    ASSUME IInv, Return, UNCHANGED <<libraryVars, indexVars, repair, queryVars>>
    PROVE  IInv'
  <1>1. /\ docs' = docs /\ sequence' = sequence /\ reset' = reset
        /\ damage' = damage /\ entries' = entries /\ built' = built
        /\ records' = records /\ progress' = progress /\ repair' = repair
        /\ qpc' = qpc /\ indexed' = indexed /\ known' = known /\ hits' = hits
        /\ answer' = answer
    BY DEF libraryVars, indexVars, queryVars
  <1>2. pc' = "idle" /\ job' = NoJob
    BY DEF Return
  <1>3. LockInv' /\ PlaceInv'
    BY WorkerReturns DEF IInv
  <1>4. TypeInv'
    BY <1>1, <1>2, NoJobTyped DEF IInv, TypeInv, LibraryTypeOK, WorkerSteps
  <1>5. IndexInv'
    BY <1>2, IndexRests DEF IInv
  <1>6. QueryInv'
    BY <1>1, QueriesSame DEF IInv
  <1>7. QED
    BY <1>3, <1>4, <1>5, <1>6 DEF IInv

LEMMA FailKeeps ==
    ASSUME IInv, Fail \/ Refuse
    PROVE  IInv'
  BY ReturnKeeps DEF Fail, Refuse

LEMMA RemoveRequestKeeps ==
    ASSUME IInv, RemoveRequest
    PROVE  IInv'
  <1>1. /\ pc = "unlink" /\ pc' = "open" /\ repair' = FALSE /\ job' = job
        /\ UNCHANGED <<libraryVars, lockVars, indexVars, queryVars>>
    BY DEF RemoveRequest
  <1>2. /\ docs' = docs /\ sequence' = sequence /\ reset' = reset
        /\ damage' = damage /\ entries' = entries /\ built' = built
        /\ records' = records /\ progress' = progress
        /\ qpc' = qpc /\ indexed' = indexed /\ known' = known /\ hits' = hits
        /\ answer' = answer
    BY <1>1 DEF libraryVars, indexVars, queryVars
  <1>3. Worker \in holders
    BY <1>1 DEF IInv, PlaceInv
  <1>4. LockInv' /\ PlaceInv'
    BY <1>1, <1>3, WorkerInside DEF IInv
  <1>5. TypeInv'
    BY <1>1, <1>2 DEF IInv, TypeInv, LibraryTypeOK, WorkerSteps
  <1>6. IndexInv'
    <2>1. JobInv'
      BY <1>1, <1>2 DEF IInv, IndexInv, JobInv
    <2>2. TornInv'
      BY <1>1, <1>2 DEF IInv, IndexInv, TornInv, Matched, Behind
    <2>3. ContentInv'
      BY <1>2 DEF IInv, IndexInv, ContentInv, Behind, Covers, Present, Row, Faithful
    <2>4. WipeInv' /\ CurrentInv' /\ BatchInv' /\ SaveInv'
      BY <1>1 DEF WipeInv, CurrentInv, BatchInv, SaveInv
    <2>5. QED
      BY <2>1, <2>2, <2>3, <2>4 DEF IndexInv
  <1>7. QueryInv'
    BY <1>1, <1>2, QueriesSame DEF IInv
  <1>8. QED
    BY <1>4, <1>5, <1>6, <1>7 DEF IInv

\* An index without an entry is as good as none.
LEMMA EmptyIndex ==
    ASSUME TypeInv
    PROVE  /\ Nothing \in [Docs -> Nat] /\ \A d \in Docs : Nothing[d] = 0
           /\ NoProgress \in [sequence : Nat \cup {None}, reset : Nat \cup {None},
                              cursor : Cursors]
           /\ NoProgress.sequence = None /\ NoProgress.reset = None
           /\ NoProgress.cursor = <<0, 0>> /\ NoProgress.cursor[1] = 0
           /\ Numeric(None) = 0
           /\ Faithful(0, {}, docs)
           /\ \A d \in Present : After(Row(d), <<0, 0>>)
  <1>1. <<0, 0>> \in Cursors
    BY DEF Cursors
  <1>2. Faithful(0, {}, docs)
    BY DEF Faithful
  <1>3. \A d \in Present : After(Row(d), <<0, 0>>)
    BY Fields DEF Present, After, Row
  <1>4. QED
    BY <1>1, <1>2, <1>3 DEF Nothing, NoProgress, Numeric

\* The file that is removed, or replaced because its schema is not current.
Emptied == /\ entries' = {} /\ records' = Nothing /\ progress' = NoProgress
           /\ damage' = "none"

\* With an empty file the content of the index is right for every library.
LEMMA EmptiedContent ==
    ASSUME TypeInv, Emptied, UNCHANGED libraryVars
    PROVE  Matched' /\ ContentInv'
  <1>1. /\ docs' = docs /\ sequence' = sequence /\ reset' = reset
        /\ entries' = {} /\ records' = Nothing /\ progress' = NoProgress
    BY DEF libraryVars, Emptied
  <1>2. Matched'
    BY <1>1, EmptyIndex DEF Matched
  <1>3. Covers(progress.cursor)'
    BY <1>1, EmptyIndex DEF Covers, Present, Row
  <1>4. Faithful(Numeric(progress.sequence), entries, docs)'
    BY <1>1, EmptyIndex
  <1>5. ContentInv'
    BY <1>1, <1>3, <1>4 DEF ContentInv
  <1>6. QED
    BY <1>2, <1>5

LEMMA RemoveIndexKeeps ==
    ASSUME IInv, RemoveIndex
    PROVE  IInv'
  <1>1. /\ pc = "locked" /\ Worker \in holders /\ pc' = "unlink" /\ job' = job
        /\ built' = FALSE /\ Emptied /\ repair' = repair
        /\ UNCHANGED <<libraryVars, lockVars, queryVars>>
    BY DEF RemoveIndex, Emptied
  <1>2. /\ docs' = docs /\ sequence' = sequence /\ reset' = reset
        /\ qpc' = qpc /\ indexed' = indexed /\ known' = known /\ hits' = hits
        /\ answer' = answer /\ entries' = {} /\ records' = Nothing
        /\ progress' = NoProgress /\ damage' = "none"
    BY <1>1 DEF libraryVars, queryVars, Emptied
  <1>3. LockInv' /\ PlaceInv'
    BY <1>1, WorkerInside DEF IInv
  <1>4. TypeInv'
    BY <1>1, <1>2, EmptyIndex DEF IInv, TypeInv, LibraryTypeOK, WorkerSteps
  <1>5. IndexInv'
    <2>1. Matched' /\ ContentInv'
      BY <1>1, EmptiedContent DEF IInv
    <2>2. JobInv'
      BY <1>1, <1>2, EmptyIndex, Fields DEF IInv, IndexInv, JobInv, None
    <2>3. TornInv' /\ WipeInv' /\ CurrentInv' /\ BatchInv' /\ SaveInv'
      BY <1>1, <2>1 DEF TornInv, WipeInv, CurrentInv, BatchInv, SaveInv
    <2>4. QED
      BY <2>1, <2>2, <2>3 DEF IndexInv
  <1>6. QueryInv'
    BY <1>1, WorkerAlone, QueriesSame DEF IInv
  <1>7. QED
    BY <1>3, <1>4, <1>5, <1>6 DEF IInv

LEMMA OpenKeeps ==
    ASSUME IInv, Open
    PROVE  IInv'
  <1>1. /\ pc \in {"open", "locked"} /\ Worker \in holders
        /\ UNCHANGED <<libraryVars, repair, queryVars>>
    BY DEF Open, IInv, PlaceInv
  <1>2. /\ docs' = docs /\ sequence' = sequence /\ reset' = reset /\ repair' = repair
        /\ qpc' = qpc /\ indexed' = indexed /\ known' = known /\ hits' = hits
        /\ answer' = answer
    BY <1>1 DEF libraryVars, queryVars
  <1>3. \/ UNCHANGED indexVars
        \/ built' = TRUE /\ Emptied
    BY DEF Open, Opened, Emptied
  <1>4. PICK s \in Reads(progress'.sequence, None), m \in Reads(progress'.reset, None) :
          IF s = job.target
          THEN Return
          ELSE /\ job' = [job EXCEPT !.seq = Numeric(s), !.statement = 1]
               /\ pc' = IF job.reset > Numeric(s) /\ m # job.reset
                        THEN "wipe" ELSE "fetch"
               /\ UNCHANGED lockVars
    BY DEF Open
  <1>5. QueryInv'
    BY <1>1, WorkerAlone, QueriesSame DEF IInv
  <1>6. /\ built' \in BOOLEAN /\ damage' \in {"none"} \cup DamageKinds
        /\ entries' \subseteq Docs \X Nat /\ records' \in [Docs -> Nat]
        /\ progress' \in [sequence : Nat \cup {None}, reset : Nat \cup {None},
                          cursor : Cursors]
    <2>1. CASE UNCHANGED indexVars
      BY <2>1 DEF IInv, TypeInv, indexVars
    <2>2. CASE built' = TRUE /\ Emptied
      BY <2>2, EmptyIndex DEF IInv, Emptied
    <2>3. QED
      BY <1>3, <2>1, <2>2
  \* Opening the file leaves the index as good as it was, or empty.
  <1>7. /\ ContentInv'
        /\ progress'.sequence <= job.target /\ progress'.reset <= job.reset
        /\ progress'.cursor[1] <= job.target
        /\ ~Matched' => /\ reset > Numeric(progress'.sequence) /\ progress'.reset # reset
                        /\ job.reset > Numeric(progress'.sequence)
                        /\ progress'.reset # job.reset
    <2>1. CASE UNCHANGED indexVars
      <3>1. entries' = entries /\ records' = records /\ progress' = progress
        BY <2>1 DEF indexVars
      <3>2. ContentInv'
        BY <1>2, <3>1
           DEF IInv, IndexInv, ContentInv, Behind, Covers, Present, Row, Faithful
      <3>3. /\ progress.sequence <= job.target /\ progress.reset <= job.reset
            /\ progress.cursor[1] <= job.target
        BY <1>1 DEF IInv, IndexInv, JobInv
      <3>4. ~Matched => Behind(reset) /\ Behind(job.reset)
        BY <1>1 DEF IInv, IndexInv, TornInv
      <3>5. QED
        BY <3>1, <3>2, <3>3, <3>4 DEF Matched, Behind
    <2>2. CASE built' = TRUE /\ Emptied
      <3>1. Matched' /\ ContentInv'
        BY <1>1, <2>2, EmptiedContent DEF IInv
      <3>2. progress' = NoProgress
        BY <2>2 DEF Emptied
      <3>3. QED
        BY <3>1, <3>2, EmptyIndex, Fields DEF IInv, None
    <2>3. QED
      BY <1>3, <2>1, <2>2
  \* A statement that fails reads like a row that is not there.
  <1>8. /\ s = progress'.sequence \/ (damage' = "tables" /\ s = None)
        /\ m = progress'.reset \/ (damage' = "tables" /\ m = None)
    <2>1. CASE UNCHANGED indexVars
      BY <2>1, <1>4 DEF Reads, indexVars
    <2>2. CASE built' = TRUE /\ Emptied
      <3>1. progress'.sequence = None /\ progress'.reset = None
        BY <2>2, EmptyIndex DEF IInv, Emptied
      <3>2. QED
        BY <3>1, <1>4 DEF Reads
    <2>3. QED
      BY <1>3, <2>1, <2>2
  <1>9. CASE s = job.target
    <2>1. Return
      BY <1>4, <1>9
    <2>2. pc' = "idle" /\ job' = NoJob
      BY <2>1 DEF Return
    <2>3. LockInv' /\ PlaceInv'
      BY <1>1, <2>1, WorkerReturns DEF IInv
    <2>4. TypeInv'
      BY <1>2, <1>6, <2>2, NoJobTyped DEF IInv, TypeInv, LibraryTypeOK, WorkerSteps
    <2>5. JobInv'
      <3>1. job.target <= sequence /\ job.reset <= reset
        BY <1>1 DEF IInv, IndexInv, JobInv
      <3>2. /\ progress'.sequence \in Int /\ progress'.reset \in Int
            /\ progress'.cursor[1] \in Int
        BY <1>6 DEF None, Cursors
      <3>3. job.target \in Nat /\ job.reset \in Nat /\ sequence \in Nat /\ reset \in Nat
        BY Fields DEF IInv
      <3>4. /\ progress'.sequence <= sequence /\ progress'.reset <= reset
            /\ progress'.cursor[1] <= sequence
        BY <1>7, <3>1, <3>2, <3>3
      <3>5. QED
        BY <1>2, <2>2, <3>4 DEF JobInv
    <2>6. IndexInv'
      BY <1>2, <1>7, <2>2, <2>5
         DEF IndexInv, TornInv, Behind, WipeInv, CurrentInv, BatchInv, SaveInv
    <2>7. QED
      BY <1>5, <2>3, <2>4, <2>6 DEF IInv
  <1>10. CASE s # job.target
    <2>1. /\ job' = [job EXCEPT !.seq = Numeric(s), !.statement = 1]
          /\ pc' = IF job.reset > Numeric(s) /\ m # job.reset THEN "wipe" ELSE "fetch"
          /\ UNCHANGED lockVars
      BY <1>4, <1>10
    <2>2. pc' \in {"wipe", "fetch"}
      BY <2>1
    <2>3. LockInv' /\ PlaceInv'
      BY <1>1, <2>1, <2>2, WorkerInside DEF IInv
    <2>4. /\ progress'.sequence \in Nat \cup {None}
          /\ progress'.sequence \in Int /\ progress'.reset \in Int
          /\ Numeric(progress'.sequence) \in Nat /\ Numeric(s) \in Nat
          /\ Numeric(s) <= Numeric(progress'.sequence)
      <3>1. progress'.sequence \in Nat \cup {None} /\ progress'.reset \in Nat \cup {None}
        BY <1>6
      <3>2. QED
        BY <3>1, <1>8 DEF None, Numeric
    <2>5. /\ job' \in Jobs /\ job'.batch = job.batch
          /\ job'.target = job.target /\ job'.reset = job.reset
          /\ job'.seq = Numeric(s) /\ job'.statement = 1
      <3>1. job \in Jobs
        BY DEF IInv, TypeInv
      <3>2. QED
        <4> DEFINE t == Numeric(s)
                   one == 1
        <4>1. one \in 0 .. 4 /\ t \in Nat
          BY <2>4
        <4>2. job' = [job EXCEPT !.seq = t, !.statement = one]
          BY <2>1
        <4> HIDE DEF t, one
        <4>3. job' \in Jobs
          BY <3>1, <4>1, <4>2, JobAt
        <4>4. /\ job'.batch = job.batch /\ job'.target = job.target
              /\ job'.reset = job.reset /\ job'.seq = t /\ job'.statement = one
          BY <3>1, <4>2 DEF Jobs
        <4>5. QED
          BY <4>3, <4>4 DEF t, one
    <2>6. TypeInv'
      BY <1>2, <1>6, <2>2, <2>5 DEF IInv, TypeInv, LibraryTypeOK, WorkerSteps
    <2>7. JobInv'
      <3>1. /\ job.reset <= job.target /\ job.target <= sequence
            /\ job.reset <= reset /\ (reset = job.reset \/ reset > job.target)
        BY <1>1 DEF IInv, IndexInv, JobInv
      <3>2. progress'.cursor[1] \in Int
        BY <1>6 DEF Cursors
      <3>3. job.target \in Nat /\ job.reset \in Nat /\ sequence \in Nat /\ reset \in Nat
        BY Fields DEF IInv
      <3>4. /\ progress'.sequence <= sequence /\ progress'.reset <= reset
            /\ progress'.cursor[1] <= sequence
        BY <1>7, <2>4, <3>1, <3>2, <3>3
      <3>5. QED
        BY <1>2, <1>7, <2>5, <3>1, <3>4 DEF JobInv
    <2>8. TornInv'
      BY <1>2, <1>7, <2>5 DEF TornInv, Behind
    <2>9. WipeInv'
      <3>1. ASSUME pc' = "wipe", damage' # "tables"
            PROVE  Behind(job.reset)'
        BY <1>8, <2>1, <2>5, <3>1 DEF Behind
      <3>2. QED
        BY <2>5, <3>1 DEF WipeInv
    <2>10. CurrentInv'
      <3>1. ASSUME pc' = "fetch"
            PROVE  Matched'
        <4>1. ~(job.reset > Numeric(s) /\ m # job.reset)
          BY <2>1, <3>1
        <4>2. job.reset \in Nat
          BY Fields DEF IInv
        <4>3. ~(job.reset > Numeric(progress'.sequence) /\ progress'.reset # job.reset)
          BY <1>8, <2>4, <4>1, <4>2 DEF None
        <4>4. QED
          BY <1>7, <4>3
      <3>2. ASSUME pc' = "fetch", damage' # "tables"
            PROVE  ~Behind(job.reset)' /\ job'.seq = Numeric(progress'.sequence)
        BY <1>8, <2>1, <2>5, <3>2 DEF Behind
      <3>3. QED
        BY <2>2, <3>1, <3>2 DEF CurrentInv
    <2>11. BatchInv' /\ SaveInv'
      BY <2>2 DEF BatchInv, SaveInv
    <2>12. IndexInv'
      BY <1>7, <2>7, <2>8, <2>9, <2>10, <2>11 DEF IndexInv
    <2>13. QED
      BY <1>5, <2>3, <2>6, <2>12 DEF IInv
  <1>11. QED
    BY <1>9, <1>10

\* While the index is wiped, statement by statement, it stays behind the last
\* deletion until its progress goes, and then it is empty.
LEMMA WipeKeeps ==
    ASSUME IInv, Wipe
    PROVE  IInv'
  <1> DEFINE n == job.statement
  <1>1. /\ pc = "wipe" /\ damage # "tables" /\ Worker \in holders
        /\ UNCHANGED <<libraryVars, lockVars, built, damage, repair, queryVars>>
    BY DEF Wipe, Refused, IInv, PlaceInv
  <1>2. /\ docs' = docs /\ sequence' = sequence /\ reset' = reset /\ repair' = repair
        /\ built' = built /\ damage' = damage
        /\ qpc' = qpc /\ indexed' = indexed /\ known' = known /\ hits' = hits
        /\ answer' = answer
    BY <1>1 DEF libraryVars, queryVars
  <1>3. /\ n \in 1 .. 4
        /\ n <= 3 => Behind(job.reset)
        /\ n >= 2 => entries = {}
        /\ n >= 3 => records = Nothing
        /\ n = 4 => progress = NoProgress
    BY <1>1 DEF IInv, IndexInv, WipeInv
  <1>4. /\ entries' = IF n = 1 THEN {} ELSE entries
        /\ records' = IF n = 2 THEN Nothing ELSE records
        /\ progress' = IF n = 3 THEN NoProgress
                       ELSE IF n = 4 THEN [progress EXCEPT !.reset = job.reset]
                       ELSE progress
        /\ IF n < 4 THEN job' = [job EXCEPT !.statement = n + 1] /\ pc' = "wipe"
           ELSE job' = [job EXCEPT !.seq = 0, !.statement = 0] /\ pc' = "fetch"
    <2>1. Len(WipeOrder) = 4
      BY DEF WipeOrder
    <2>2. CASE n = 1
      BY <2>1, <2>2, <1>1 DEF Wipe, WipeOrder
    <2>3. CASE n = 2
      BY <2>1, <2>3, <1>1 DEF Wipe, WipeOrder
    <2>4. CASE n = 3
      BY <2>1, <2>4, <1>1 DEF Wipe, WipeOrder
    <2>5. CASE n = 4
      BY <2>1, <2>5, <1>1 DEF Wipe, WipeOrder
    <2>6. QED
      BY <1>3, <2>2, <2>3, <2>4, <2>5
  <1>5. pc' \in {"wipe", "fetch"}
    BY <1>4
  <1>6. LockInv' /\ PlaceInv'
    BY <1>1, <1>5, WorkerInside DEF IInv
  <1>7. QueryInv'
    BY <1>1, WorkerAlone, QueriesSame DEF IInv
  <1>8. /\ job' \in Jobs /\ job'.batch = job.batch
        /\ job'.target = job.target /\ job'.reset = job.reset
        /\ n < 4 => job'.statement = n + 1
        /\ n = 4 => job'.seq = 0
    <2>1. job \in Jobs /\ job.seq \in Nat /\ n \in 0 .. 4
      BY <1>3, Fields DEF IInv, TypeInv
    <2>2. CASE n < 4
      <3> DEFINE m == n + 1
                 t == job.seq
      <3>1. m \in 0 .. 4 /\ t \in Nat
        BY <2>1, <2>2
      <3>2. job' = [job EXCEPT !.statement = m]
        BY <1>4, <2>2
      <3> HIDE DEF m
      <3>3. job' = [job EXCEPT !.seq = t, !.statement = m]
        BY <2>1, <3>2 DEF Jobs
      <3> HIDE DEF t
      <3>4. job' \in Jobs
        BY <2>1, <3>1, <3>3, JobAt
      <3>5. /\ job'.batch = job.batch /\ job'.target = job.target
            /\ job'.reset = job.reset /\ job'.statement = m
        BY <2>1, <3>2 DEF Jobs
      <3>6. QED
        BY <2>2, <3>4, <3>5 DEF m
    <2>3. CASE n = 4
      <3> DEFINE z == 0
      <3>1. job' = [job EXCEPT !.seq = z, !.statement = z] /\ z \in Nat /\ z \in 0 .. 4
        BY <1>4, <2>3
      <3> HIDE DEF z
      <3>2. job' \in Jobs
        BY <2>1, <3>1, JobAt
      <3>3. /\ job'.batch = job.batch /\ job'.target = job.target
            /\ job'.reset = job.reset /\ job'.seq = z
        BY <2>1, <3>1 DEF Jobs
      <3>4. QED
        BY <2>3, <3>2, <3>3 DEF z
    <2>4. QED
      BY <2>1, <2>2, <2>3
  <1>9. progress' \in [sequence : Nat \cup {None}, reset : Nat \cup {None}, cursor : Cursors]
    BY <1>4, EmptyIndex, Fields DEF IInv, TypeInv
  <1>10. entries' \subseteq Docs \X Nat /\ records' \in [Docs -> Nat]
    BY <1>4, EmptyIndex DEF IInv, TypeInv
  <1>11. TypeInv'
    BY <1>1, <1>2, <1>5, <1>8, <1>9, <1>10 DEF IInv, TypeInv, LibraryTypeOK, WorkerSteps
  <1>12. n <= 2 => progress' = progress
    BY <1>3, <1>4
  <1>13. n = 3 => progress' = NoProgress
    BY <1>4
  <1>14. n = 4 => /\ progress'.sequence = None /\ progress'.reset = job.reset
                  /\ progress'.cursor = <<0, 0>>
    BY <1>3, <1>4, EmptyIndex DEF IInv, NoProgress
  <1>15. /\ job.reset <= job.target /\ job.target <= sequence
         /\ job.reset <= reset /\ (reset = job.reset \/ reset > job.target)
         /\ progress.sequence <= sequence /\ progress.reset <= reset
         /\ progress.cursor[1] <= sequence
         /\ progress.sequence <= job.target /\ progress.reset <= job.reset
         /\ progress.cursor[1] <= job.target
    BY <1>1 DEF IInv, IndexInv, JobInv
  <1>16. n \in {1, 2} \/ n = 3 \/ n = 4
    BY <1>3
  <1>17. JobInv'
    <2>1. CASE n \in {1, 2}
      BY <2>1, <1>2, <1>8, <1>12, <1>15 DEF JobInv
    <2>2. CASE n = 3
      BY <2>2, <1>2, <1>8, <1>13, <1>15, EmptyIndex, Fields DEF IInv, JobInv, None
    <2>3. CASE n = 4
      BY <2>3, <1>2, <1>8, <1>14, <1>15, Fields DEF IInv, JobInv, None
    <2>4. QED
      BY <1>16, <2>1, <2>2, <2>3
  <1>18. n <= 3 => Behind(reset)
    BY <1>1, <1>3, BehindBoth DEF IInv, IndexInv
  <1>19. TornInv' /\ (n >= 2 => Matched')
    <2>1. CASE n = 1
      BY <2>1, <1>2, <1>3, <1>8, <1>12, <1>18 DEF TornInv, Behind
    <2>2. CASE n >= 2
      <3>1. records' = Nothing
        BY <2>2, <1>3, <1>4
      <3>2. Matched'
        BY <3>1, EmptyIndex DEF Matched, IInv
      <3>3. QED
        BY <3>2 DEF TornInv
    <2>3. QED
      BY <1>3, <2>1, <2>2
  <1>20. entries' = {}
    BY <1>3, <1>4
  <1>21. ContentInv'
    <2>1. CASE n \in {1, 2}
      <3>1. Behind(reset)'
        BY <2>1, <1>2, <1>12, <1>18 DEF Behind
      <3>2. QED
        BY <3>1, <1>20 DEF ContentInv
    <2>2. CASE n \in {3, 4}
      <3>1. progress'.sequence = None /\ progress'.cursor = <<0, 0>>
        BY <2>2, <1>13, <1>14, EmptyIndex DEF IInv
      <3>2. Covers(progress.cursor)'
        BY <3>1, <1>2, EmptyIndex DEF IInv, Covers, Present, Row
      <3>3. Faithful(Numeric(progress.sequence), entries, docs)'
        BY <3>1, <1>2, <1>20, EmptyIndex DEF IInv
      <3>4. QED
        BY <3>2, <3>3, <1>20 DEF ContentInv
    <2>3. QED
      BY <1>16, <2>1, <2>2
  <1>22. WipeInv'
    <2>1. CASE n = 4
      BY <2>1, <1>4 DEF WipeInv
    <2>2. CASE n < 4
      <3>1. n + 1 \in 1 .. 4 /\ job'.statement = n + 1
        BY <2>2, <1>3, <1>8
      <3>2. n + 1 <= 3 => Behind(job.reset)'
        BY <1>3, <1>8, <1>12 DEF Behind
      <3>3. n + 1 >= 3 => records' = Nothing
        BY <1>3, <1>4
      <3>4. n + 1 = 4 => progress' = NoProgress
        BY <1>3, <1>13
      <3>5. QED
        BY <3>1, <3>2, <3>3, <3>4, <1>20 DEF WipeInv
    <2>3. QED
      BY <1>3, <2>1, <2>2
  <1>23. CurrentInv' /\ BatchInv' /\ SaveInv'
    <2>1. CASE n < 4
      BY <2>1, <1>4 DEF CurrentInv, BatchInv, SaveInv
    <2>2. CASE n = 4
      <3>1. pc' = "fetch"
        BY <2>2, <1>4
      <3>2. CurrentInv'
        BY <2>2, <1>8, <1>14, <1>19, EmptyIndex DEF IInv, CurrentInv, Behind
      <3>3. QED
        BY <3>1, <3>2 DEF BatchInv, SaveInv
    <2>3. QED
      BY <1>3, <2>1, <2>2
  <1>24. IndexInv'
    BY <1>17, <1>19, <1>21, <1>22, <1>23 DEF IndexInv
  <1>25. QED
    BY <1>6, <1>7, <1>11, <1>24 DEF IInv

\* A batch that is not empty ends at a row of its own that no other is after.
LEMMA LastRow ==
    ASSUME TypeInv, NEW B \in SUBSET Docs, B # {}, NEW c
    PROVE  \E b \in B : Advanced(B, c) = Row(b) /\ \A d \in B : ~After(Row(d), Row(b))
  <1> DEFINE G == {docs[d] : d \in B}
  <1>1. G \subseteq 0 .. sequence /\ G # {} /\ sequence \in Nat
    BY Fields
  <1>2. PICK g \in G : \A h \in G : g >= h
    <2> HIDE DEF G
    <2>1. QED
      BY <1>1, LargestNatural
  <1> DEFINE T == {d \in B : docs[d] = g}
  <1>3. T \subseteq Nat /\ T # {} /\ IsFiniteSet(T)
    <2>1. T \subseteq Docs
      OBVIOUS
    <2>2. IsFiniteSet(T)
      BY <2>1, LibraryAssumption, FS_Subset
    <2>3. QED
      BY <2>1, <2>2, Fields
  <1>4. PICK b \in T : \A d \in T : b >= d
    <2> HIDE DEF T
    <2>1. QED
      BY <1>3, GreatestNatural
  <1>5. b \in B /\ docs[b] = g
    BY <1>4
  <1>6. ASSUME NEW d \in B
        PROVE  ~After(Row(d), Row(b))
    <2>1. docs[d] \in G /\ docs[d] \in Nat /\ g \in Nat /\ d \in Nat /\ b \in Nat
      BY <1>1, <1>5, Fields
    <2>2. ~(docs[d] > g)
      BY <1>2, <2>1
    <2>3. docs[d] = g => ~(d > b)
      BY <1>4, <2>1
    <2>4. QED
      BY <1>5, <2>2, <2>3 DEF After, Row
  <1> DEFINE R == {Row(d) : d \in B}
  <1>7. \E r \in R : \A d \in B : ~After(Row(d), r)
    BY <1>5, <1>6
  <1>8. /\ Advanced(B, c) \in R
        /\ \A d \in B : ~After(Row(d), Advanced(B, c))
    BY <1>7 DEF Advanced
  <1>9. QED
    BY <1>8

\* The order of the rows is linear.
LEMMA RowOrder ==
    ASSUME TypeInv, NEW d \in Docs, NEW c \in Cursors
    PROVE  /\ Row(d) \in Cursors /\ Row(d)[1] = docs[d]
           /\ ~After(Row(d), c) => docs[d] <= c[1]
  <1>1. Row(d) \in Cursors /\ Row(d)[1] = docs[d] /\ docs[d] \in Nat
    BY Fields DEF Row, Cursors
  <1>2. c[1] \in Nat /\ c[2] \in Nat
    BY DEF Cursors
  <1>3. QED
    BY <1>1, <1>2 DEF After

\* Where a batch starts: past the saved cursor, or past generations that the
\* index has in whole.
LEMMA StartFacts ==
    ASSUME TypeInv, NEW g \in Nat, NEW i \in Nat, NEW s \in Nat
    PROVE  /\ StartOf(<<g, i>>, s) \in Cursors
           /\ \A d \in Docs : ~After(Row(d), StartOf(<<g, i>>, s)) =>
                docs[d] <= s \/ ~After(Row(d), <<g, i>>)
  <1>1. LastId \in Nat
    <2>1. Docs \cup {0} \subseteq Nat /\ IsFiniteSet(Docs \cup {0})
      BY LibraryAssumption, FS_AddElement
    <2> DEFINE D == Docs \cup {0}
    <2>2. D \subseteq Nat /\ IsFiniteSet(D) /\ D # {}
      BY <2>1
    <2>3. Max(D) \in D
      <3> HIDE DEF D
      <3>1. QED
        BY <2>2, GreatestNatural DEF Max
    <2>4. QED
      BY <2>2, <2>3 DEF LastId
  <1>2. CASE g < s
    <2>1. StartOf(<<g, i>>, s) = <<s, LastId>>
      BY <1>2 DEF StartOf
    <2>2. <<s, LastId>> \in Cursors /\ <<s, LastId>>[1] = s
      BY <1>1 DEF Cursors
    <2>3. QED
      BY <2>1, <2>2, RowOrder
  <1>3. CASE ~(g < s)
    <2>1. StartOf(<<g, i>>, s) = <<g, i>>
      BY <1>3 DEF StartOf
    <2>2. QED
      BY <2>1 DEF Cursors
  <1>4. QED
    BY <1>2, <1>3

\* A batch passes over no row between its start and the cursor it ends with, and
\* over none at all when it is not full.
LEMMA BatchFacts ==
    ASSUME TypeInv, NEW c \in Cursors, NEW t \in Nat,
           NEW B \in SUBSET Pending(c, t), IsBatch(B, Pending(c, t))
    PROVE  /\ B \subseteq Docs /\ Cardinality(B) \in Nat /\ Cardinality(B) <= BatchSize
           /\ \A d \in B : docs[d] \in 1 .. t
           /\ Advanced(B, c) \in Cursors
           /\ ~(Cardinality(B) < BatchSize) => Advanced(B, c)[1] <= t
           /\ \A d \in Docs :
                docs[d] \in 1 .. t
                  /\ (Cardinality(B) < BatchSize \/ ~After(Row(d), Advanced(B, c)))
                => d \in B \/ ~After(Row(d), c)
  <1> DEFINE P == Pending(c, t)
  <1>1. /\ P \subseteq Docs /\ IsFiniteSet(P) /\ B \subseteq P
        /\ \A d \in P : docs[d] \in 1 .. t
        /\ \A d \in Docs : docs[d] \in 1 .. t /\ After(Row(d), c) => d \in P
    <2>1. P = {d \in Docs : docs[d] # 0 /\ After(Row(d), c) /\ docs[d] <= t}
      BY DEF Pending, Present
    <2>2. P \subseteq Docs
      BY <2>1
    <2>3. IsFiniteSet(P)
      BY <2>2, LibraryAssumption, FS_Subset
    <2>4. ASSUME NEW d \in P
          PROVE  docs[d] \in 1 .. t
      BY <2>1, Fields
    <2>5. ASSUME NEW d \in Docs, docs[d] \in 1 .. t, After(Row(d), c)
          PROVE  d \in P
      BY <2>1, <2>5, Fields
    <2>6. QED
      BY <2>2, <2>3, <2>4, <2>5
  <1>2. /\ \A d \in B, e \in P \ B : After(Row(e), Row(d))
        /\ IF Cardinality(P) <= BatchSize THEN B = P ELSE Cardinality(B) = BatchSize
    BY DEF IsBatch
  <1>3. IsFiniteSet(B) /\ Cardinality(B) \in Nat /\ Cardinality(P) \in Nat
    BY <1>1, FS_Subset, FS_CardinalityType
  <1> HIDE DEF P
  <1>4. Cardinality(B) <= BatchSize /\ (Cardinality(B) < BatchSize => B = P)
    BY <1>2, <1>3, Fields
  <1>5. CASE B = {}
    <2>1. Advanced(B, c) = c
      BY <1>5 DEF Advanced
    <2>2. Cardinality(B) = 0
      BY <1>5, FS_EmptySet
    <2>3. Cardinality(B) < BatchSize
      BY <2>2, Fields
    <2>4. QED
      BY <1>1, <1>3, <1>4, <1>5, <2>1, <2>3
  <1>6. CASE B # {}
    <2>1. B \in SUBSET Docs
      BY <1>1
    <2>2. PICK b \in B : /\ Advanced(B, c) = Row(b)
                         /\ \A d \in B : ~After(Row(d), Row(b))
      BY <1>6, <2>1, LastRow
    <2>3. b \in Docs /\ docs[b] \in 1 .. t
      BY <1>1, <2>1
    <2>4. Row(b) \in Cursors /\ Row(b)[1] <= t
      BY <2>3, RowOrder
    <2>5. ASSUME NEW d \in Docs, docs[d] \in 1 .. t,
                 Cardinality(B) < BatchSize \/ ~After(Row(d), Row(b))
          PROVE  d \in B \/ ~After(Row(d), c)
      <3>1. d \in P \/ ~After(Row(d), c)
        BY <1>1, <2>5
      <3>2. d \in P \ B => After(Row(d), Row(b))
        BY <1>2
      <3>3. QED
        BY <1>4, <2>5, <3>1, <3>2
    <2>6. QED
      BY <1>1, <1>3, <1>4, <2>1, <2>2, <2>4, <2>5
  <1>7. QED
    BY <1>5, <1>6

LEMMA FetchKeeps ==
    ASSUME IInv, Fetch
    PROVE  IInv'
  <1>1. /\ pc = "fetch" /\ pc' = "apply" /\ Worker \in holders
        /\ UNCHANGED <<libraryVars, lockVars, indexVars, repair, queryVars>>
    BY DEF Fetch, IInv, PlaceInv
  <1>2. /\ docs' = docs /\ sequence' = sequence /\ reset' = reset /\ repair' = repair
        /\ built' = built /\ damage' = damage /\ entries' = entries
        /\ records' = records /\ progress' = progress
        /\ qpc' = qpc /\ indexed' = indexed /\ known' = known /\ hits' = hits
        /\ answer' = answer
    BY <1>1 DEF libraryVars, indexVars, queryVars
  <1>3. PICK g \in Reads(progress.cursor[1], 0), i \in Reads(progress.cursor[2], 0) :
          LET start == StartOf(<<g, i>>, job.seq)
              pending == Pending(start, job.target)
          IN \E B \in SUBSET pending :
               /\ IsBatch(B, pending)
               /\ job' = [job EXCEPT !.batch = [d \in B |-> docs[d]],
                                     !.cursor = Advanced(B, start)]
    BY DEF Fetch
  <1> DEFINE start == StartOf(<<g, i>>, job.seq)
             pending == Pending(start, job.target)
  <1>4. PICK B \in SUBSET pending :
          /\ IsBatch(B, pending)
          /\ job' = [job EXCEPT !.batch = [d \in B |-> docs[d]],
                                !.cursor = Advanced(B, start)]
    BY <1>3
  <1> DEFINE batch == [d \in B |-> docs[d]]
             end == Advanced(B, start)
  <1>5. /\ g \in Nat /\ i \in Nat
        /\ damage # "tables" => g = progress.cursor[1] /\ i = progress.cursor[2]
    BY <1>3, Fields DEF Reads, IInv
  <1>6. /\ start \in Cursors
        /\ \A d \in Docs : ~After(Row(d), start) =>
             docs[d] <= job.seq \/ ~After(Row(d), <<g, i>>)
    BY <1>5, StartFacts, Fields DEF IInv
  <1>7. job' = [job EXCEPT !.batch = batch, !.cursor = end]
    BY <1>4
  <1>8. job.target \in Nat
    BY Fields DEF IInv
  <1> HIDE DEF start
  <1>9. /\ B \subseteq Docs /\ Cardinality(B) \in Nat /\ Cardinality(B) <= BatchSize
        /\ \A d \in B : docs[d] \in 1 .. job.target
        /\ end \in Cursors
        /\ ~(Cardinality(B) < BatchSize) => end[1] <= job.target
        /\ \A d \in Docs :
             docs[d] \in 1 .. job.target
               /\ (Cardinality(B) < BatchSize \/ ~After(Row(d), end))
             => d \in B \/ ~After(Row(d), start)
    BY <1>6, <1>4, <1>8, BatchFacts DEF IInv
  <1>10. batch \in Batches /\ DOMAIN batch = B /\ \A d \in B : batch[d] = docs[d]
    <2>1. \A d \in B : docs[d] \in Nat
      BY <1>9, Fields DEF IInv
    <2>2. batch \in [B -> Nat]
      BY <2>1
    <2>3. QED
      BY <2>2, <1>9 DEF Batches
  <1> HIDE DEF batch, end
  <1>11. job \in Jobs
    BY DEF IInv, TypeInv
  <1>12. job' \in Jobs
    BY <1>7, <1>9, <1>10, <1>11, JobWith
  <1>13. /\ job'.target = job.target /\ job'.reset = job.reset /\ job'.seq = job.seq
         /\ job'.batch = batch /\ job'.cursor = end
    BY <1>7, <1>11 DEF Jobs
  <1>14. LockInv' /\ PlaceInv'
    BY <1>1, WorkerInside DEF IInv
  <1>15. QueryInv'
    BY <1>1, <1>2, QueriesSame DEF IInv
  <1>16. TypeInv'
    BY <1>1, <1>2, <1>9, <1>10, <1>12, <1>13
       DEF IInv, TypeInv, LibraryTypeOK, WorkerSteps
  <1>17. JobInv'
    BY <1>1, <1>2, <1>13 DEF IInv, IndexInv, JobInv
  <1>18. TornInv'
    BY <1>1, <1>2, <1>13 DEF IInv, IndexInv, TornInv, Matched, Behind
  <1>19. CurrentInv'
    BY <1>1, <1>2, <1>13 DEF IInv, IndexInv, CurrentInv, Matched, Behind
  <1>20. ContentInv'
    BY <1>2 DEF IInv, IndexInv, ContentInv, Behind, Covers, Present, Row, Faithful
  <1>21. WipeInv' /\ SaveInv'
    BY <1>1 DEF WipeInv, SaveInv
  <1>22. Complete' <=> Cardinality(B) < BatchSize
    BY <1>10, <1>13 DEF Complete
  <1>23. BatchInv'
    <2>1. ASSUME NEW d \in DOMAIN job'.batch
          PROVE  /\ job'.batch[d] \in 1 .. job'.target
                 /\ docs'[d] = job'.batch[d]
      BY <1>2, <1>9, <1>10, <1>13
    <2>2. ASSUME damage' # "tables", NEW d \in Docs, docs'[d] \in 1 .. job'.target,
                 Complete' \/ ~After(Row(d), job.cursor)'
          PROVE  \/ d \in DOMAIN job'.batch \/ docs'[d] <= job'.seq
                 \/ ~After(Row(d), progress.cursor)'
      <3>1. Row(d)' = Row(d)
        BY <1>2 DEF Row
      <3>2. d \in B \/ ~After(Row(d), start)
        BY <1>2, <1>9, <1>13, <1>22, <2>2, <3>1
      <3>3. ~After(Row(d), start) => docs[d] <= job.seq \/ ~After(Row(d), <<g, i>>)
        BY <1>6
      <3>4. After(Row(d), <<g, i>>) <=> After(Row(d), progress.cursor)
        BY <1>2, <1>5, <2>2 DEF After
      <3>5. QED
        BY <1>2, <1>10, <1>13, <3>1, <3>2, <3>3, <3>4
    <2>3. ~Complete' => job'.cursor[1] <= job'.target
      BY <1>9, <1>13, <1>22
    <2>4. QED
      BY <1>1, <2>1, <2>2, <2>3 DEF BatchInv, Row
  <1>24. IndexInv'
    BY <1>17, <1>18, <1>19, <1>20, <1>21, <1>23 DEF IndexInv
  <1>25. QED
    BY <1>14, <1>15, <1>16, <1>24 DEF IInv

\* A batch that is applied to an index that is current with the deletions brings
\* in every document that the index needs, as it is.
LEMMA Applied ==
    ASSUME TypeInv, JobInv, BatchInv, ContentInv, pc = "apply", Apply,
           ~Behind(reset), reset <= job.target
    PROVE  /\ \A e \in entries' : docs[e[1]] >= e[2] /\ e[2] > 0
           /\ \A d \in Docs :
                docs[d] \in 1 .. job.target
                  /\ \/ d \in DOMAIN job.batch
                     \/ docs[d] <= Numeric(progress.sequence)
                     \/ ~After(Row(d), progress.cursor)
                => <<d, docs[d]>> \in entries'
  <1> DEFINE b == job.batch
  <1>1. entries' = (entries \ {<<d, records[d]>> : d \in DOMAIN b})
                   \cup {<<d, b[d]>> : d \in DOMAIN b}
    BY DEF Apply
  <1>2. \A d \in DOMAIN b : /\ b[d] \in 1 .. job.target
                            /\ docs[d] = b[d] \/ docs[d] > job.target
    <2>1. \A d \in DOMAIN b : /\ b[d] \in 1 .. job.target
                              /\ docs[d] = b[d] \/ docs[d] > job.target \/ reset > job.target
      BY DEF BatchInv
    <2>2. reset \in Nat /\ job.target \in Nat
      BY Fields
    <2>3. QED
      BY <2>1, <2>2
  <1>3. /\ Faithful(Numeric(progress.sequence), entries, docs)
        /\ Covers(progress.cursor)
    BY DEF ContentInv
  <1>4. DOMAIN b \subseteq Docs /\ job.target \in Nat
    BY Fields
  <1> HIDE DEF b
  <1>5. ASSUME NEW e \in entries'
        PROVE  docs[e[1]] >= e[2] /\ e[2] > 0
    <2>1. CASE e \in entries
      BY <1>3, <2>1 DEF Faithful
    <2>2. CASE e \notin entries
      <3>1. PICK d \in DOMAIN b : e = <<d, b[d]>>
        BY <1>1, <2>2
      <3>2. docs[d] \in Nat /\ b[d] \in 1 .. job.target
        BY <1>2, <1>4, Fields
      <3>3. docs[d] >= b[d] /\ b[d] > 0
        BY <1>2, <1>4, <3>2
      <3>4. QED
        BY <3>1, <3>3
    <2>3. QED
      BY <2>1, <2>2
  <1>6. ASSUME NEW d \in Docs, docs[d] \in 1 .. job.target,
               \/ d \in DOMAIN b \/ docs[d] <= Numeric(progress.sequence)
               \/ ~After(Row(d), progress.cursor)
        PROVE  <<d, docs[d]>> \in entries'
    <2>1. CASE d \in DOMAIN b
      <3>1. docs[d] = b[d]
        BY <1>2, <1>4, <1>6, <2>1
      <3>2. QED
        BY <1>1, <2>1, <3>1
    <2>2. CASE d \notin DOMAIN b
      <3>1. <<d, docs[d]>> \in entries
        <4>1. docs[d] \in Nat /\ docs[d] # 0 /\ Numeric(progress.sequence) \in Nat
          BY <1>6, Fields
        <4>2. CASE docs[d] <= Numeric(progress.sequence)
          <5>1. docs[d] \in 1 .. Numeric(progress.sequence)
            BY <4>1, <4>2
          <5>2. QED
            BY <5>1, <1>3 DEF Faithful
        <4>3. CASE ~After(Row(d), progress.cursor)
          BY <4>1, <4>3, <1>3 DEF Covers, Present
        <4>4. QED
          BY <4>2, <4>3, <1>6, <2>2
      <3>2. \A c \in DOMAIN b : <<c, records[c]>> # <<d, docs[d]>>
        BY <2>2
      <3>3. QED
        BY <1>1, <3>1, <3>2
    <2>3. QED
      BY <2>1, <2>2
  <1>7. QED
    BY <1>5, <1>6 DEF b

LEMMA ApplyKeeps ==
    ASSUME IInv, Apply
    PROVE  IInv'
  <1> DEFINE b == job.batch
  <1>1. /\ pc = "apply" /\ pc' = "save" /\ damage # "tables" /\ Worker \in holders
        /\ UNCHANGED <<libraryVars, lockVars, built, damage, repair, job, queryVars>>
    BY DEF Apply, Refused, IInv, PlaceInv
  <1>2. /\ docs' = docs /\ sequence' = sequence /\ reset' = reset /\ repair' = repair
        /\ built' = built /\ damage' = damage /\ job' = job
        /\ qpc' = qpc /\ indexed' = indexed /\ known' = known /\ hits' = hits
        /\ answer' = answer
    BY <1>1 DEF libraryVars, queryVars
  <1>3. /\ entries' = (entries \ {<<d, records[d]>> : d \in DOMAIN b})
                      \cup {<<d, b[d]>> : d \in DOMAIN b}
        /\ records' = [d \in Docs |-> IF d \in DOMAIN b THEN b[d] ELSE records[d]]
        /\ progress' = IF Complete THEN [progress EXCEPT !.sequence = job.target]
                       ELSE progress
    BY DEF Apply
  <1>4. /\ DOMAIN b \subseteq Docs /\ \A d \in DOMAIN b : b[d] \in Nat /\ b[d] # 0
        /\ job.target \in Nat
    BY <1>1, Fields DEF IInv, IndexInv, BatchInv
  <1>5. /\ Matched /\ ~Behind(job.reset) /\ job.seq = Numeric(progress.sequence)
    BY <1>1 DEF IInv, IndexInv, CurrentInv
  <1>6. LockInv' /\ PlaceInv'
    BY <1>1, WorkerInside DEF IInv
  <1>7. QueryInv'
    BY <1>1, WorkerAlone, QueriesSame DEF IInv
  <1>8. progress \in [sequence : Nat \cup {None}, reset : Nat \cup {None}, cursor : Cursors]
    BY DEF IInv, TypeInv
  <1>9. /\ progress' \in [sequence : Nat \cup {None}, reset : Nat \cup {None}, cursor : Cursors]
    BY <1>3, <1>4, <1>8
  <1>10. /\ progress'.sequence = (IF Complete THEN job.target ELSE progress.sequence)
         /\ progress'.reset = progress.reset /\ progress'.cursor = progress.cursor
    BY <1>3, <1>8
  <1>11. entries \subseteq Docs \X Nat /\ records \in [Docs -> Nat]
    BY DEF IInv, TypeInv
  <1>12. entries' \subseteq Docs \X Nat /\ records' \in [Docs -> Nat]
    <2> HIDE DEF b
    <2>1. records' \in [Docs -> Nat]
      BY <1>3, <1>4, <1>11
    <2>2. \A e \in entries' : e \in entries \/ \E d \in DOMAIN b : e = <<d, b[d]>>
      BY <1>3
    <2>3. QED
      BY <1>4, <1>11, <2>1, <2>2
  <1>13. TypeInv'
    BY <1>1, <1>2, <1>9, <1>12 DEF IInv, TypeInv, LibraryTypeOK, WorkerSteps
  <1>14. /\ job.reset <= job.target /\ job.target <= sequence
         /\ job.reset <= reset /\ (reset = job.reset \/ reset > job.target)
         /\ progress.sequence <= sequence /\ progress.reset <= reset
         /\ progress.cursor[1] <= sequence
         /\ progress.sequence <= job.target /\ progress.reset <= job.reset
         /\ progress.cursor[1] <= job.target
    BY <1>1 DEF IInv, IndexInv, JobInv
  <1>15. JobInv'
    BY <1>2, <1>4, <1>10, <1>14 DEF JobInv
  \* The index that the step leaves is behind no deletion that it was not behind.
  <1>16. ~Behind(reset)' => ~Behind(reset) /\ reset <= job.target
    <2>1. ASSUME ~Behind(reset)'
          PROVE  reset <= job.target
      <3>1. /\ reset \in Nat /\ job.target \in Nat /\ job.reset \in Nat
            /\ progress.reset \in Int
        BY Fields DEF IInv
      <3>2. Numeric(progress'.sequence) <= job.target
        BY <1>4, <1>10, <1>14, Fields DEF IInv, Numeric
      <3>3. reset <= Numeric(progress'.sequence) \/ progress.reset = reset
        BY <1>2, <1>9, <1>10, <2>1, <3>1 DEF Behind, Numeric
      <3>4. QED
        BY <1>14, <3>1, <3>2, <3>3, <1>9 DEF Numeric
    <2>2. ASSUME reset <= job.target
          PROVE  ~Behind(reset)
      <3>1. reset = job.reset
        BY <1>14, <2>2, Fields DEF IInv
      <3>2. QED
        BY <1>5, <3>1
    <2>3. QED
      BY <2>1, <2>2
  <1>17. \A e \in entries' : records'[e[1]] = e[2] /\ e[2] # 0
    <2> HIDE DEF b
    <2>1. ASSUME NEW e \in entries'
          PROVE  records'[e[1]] = e[2] /\ e[2] # 0
      <3>1. CASE \E d \in DOMAIN b : e = <<d, b[d]>>
        BY <1>3, <1>4, <3>1
      <3>2. CASE ~\E d \in DOMAIN b : e = <<d, b[d]>>
        <4>1. e \in entries /\ ~\E d \in DOMAIN b : e = <<d, records[d]>>
          BY <1>3, <3>2
        <4>2. records[e[1]] = e[2] /\ e[2] # 0
          BY <4>1 DEF IInv, IndexInv, ContentInv
        <4>3. e[1] \in Docs /\ e = <<e[1], e[2]>>
          BY <4>1, <1>11
        <4>4. e[1] \notin DOMAIN b
          BY <4>1, <4>2, <4>3
        <4>5. QED
          BY <1>3, <4>2, <4>3, <4>4
      <3>3. QED
        BY <3>1, <3>2
    <2>2. QED
      BY <2>1
  <1>18. Matched'
    <2> HIDE DEF b
    <2>1. ASSUME NEW d \in Docs, records'[d] # 0
          PROVE  <<d, records'[d]>> \in entries'
      <3>1. CASE d \in DOMAIN b
        BY <1>3, <3>1
      <3>2. CASE d \notin DOMAIN b
        <4>1. records'[d] = records[d]
          BY <1>3, <3>2
        <4>2. <<d, records[d]>> \in entries
          BY <1>5, <2>1, <4>1 DEF Matched
        <4>3. \A c \in DOMAIN b : <<c, records[c]>> # <<d, records[d]>>
          BY <3>2
        <4>4. QED
          BY <1>3, <4>1, <4>2, <4>3
      <3>3. QED
        BY <3>1, <3>2
    <2>2. QED
      BY <2>1 DEF Matched
  <1>19. TornInv' /\ WipeInv' /\ BatchInv'
         /\ (~Complete' => job'.cursor[1] <= job'.target)
    <2>1. ~Complete => job.cursor[1] <= job.target
      BY <1>1 DEF IInv, IndexInv, BatchInv
    <2>2. Complete' <=> Complete
      BY <1>2 DEF Complete
    <2>3. QED
      BY <1>1, <1>2, <1>18, <2>1, <2>2 DEF TornInv, WipeInv, BatchInv
  <1>20. CurrentInv'
    <2>1. ~Behind(job.reset)'
      <3>1. job.reset <= Numeric(progress.sequence) \/ progress.reset = job.reset
        BY <1>5, Fields DEF IInv, Behind
      <3>2. CASE Complete
        <4>1. progress'.sequence = job.target
          BY <1>10, <3>2
        <4>2. Numeric(progress'.sequence) = job.target
          BY <4>1, <1>4 DEF Numeric, None
        <4>3. QED
          BY <1>2, <1>14, <4>2, Fields DEF IInv, Behind
      <3>3. CASE ~Complete
        BY <1>2, <1>5, <1>10, <3>3 DEF Behind
      <3>4. QED
        BY <3>2, <3>3
    <2>2. QED
      BY <1>1, <1>18, <2>1 DEF CurrentInv
  <1>21. ASSUME ~Behind(reset)'
         PROVE  /\ Faithful(Numeric(progress.sequence), entries, docs)'
                /\ Covers(progress.cursor)'
                /\ ~Complete => Covers(job.cursor)'
    <2>1. /\ \A e \in entries' : docs[e[1]] >= e[2] /\ e[2] > 0
          /\ \A d \in Docs :
               docs[d] \in 1 .. job.target
                 /\ \/ d \in DOMAIN job.batch
                    \/ docs[d] <= Numeric(progress.sequence)
                    \/ ~After(Row(d), progress.cursor)
               => <<d, docs[d]>> \in entries'
      BY <1>1, <1>16, <1>21, Applied DEF IInv, IndexInv
    <2>2. \A d \in Docs :
            docs[d] \in 1 .. job.target /\ (Complete \/ ~After(Row(d), job.cursor)) =>
              \/ d \in DOMAIN job.batch \/ docs[d] <= Numeric(progress.sequence)
              \/ ~After(Row(d), progress.cursor)
      BY <1>1, <1>5 DEF IInv, IndexInv, BatchInv
    <2>3. ASSUME NEW d \in Docs, docs[d] \in 1 .. Numeric(progress'.sequence)
          PROVE  <<d, docs[d]>> \in entries'
      <3>1. CASE Complete
        <4>1. Numeric(progress'.sequence) = job.target
          BY <1>4, <1>10, <3>1 DEF Numeric, None
        <4>2. QED
          BY <2>1, <2>2, <2>3, <3>1, <4>1
      <3>2. CASE ~Complete
        <4>1. /\ progress'.sequence = progress.sequence
              /\ Numeric(progress.sequence) \in Nat /\ job.target \in Nat
              /\ Numeric(progress.sequence) <= job.target
          BY <1>10, <1>14, <3>2, Fields DEF IInv, Numeric
        <4>2. docs[d] \in 1 .. job.target /\ docs[d] <= Numeric(progress.sequence)
          BY <2>3, <4>1
        <4>3. QED
          BY <2>1, <4>2
      <3>3. QED
        BY <3>1, <3>2
    <2>4. ASSUME NEW d \in Present, ~After(Row(d), progress.cursor)
          PROVE  <<d, docs[d]>> \in entries'
      <3>1. d \in Docs /\ docs[d] \in Nat /\ docs[d] # 0
        BY Fields DEF IInv, Present
      <3>2. docs[d] <= progress.cursor[1]
        BY <2>4, <3>1, RowOrder, Fields DEF IInv
      <3>3. docs[d] \in 1 .. job.target
        BY <1>14, <3>1, <3>2, Fields DEF IInv
      <3>4. QED
        BY <2>1, <2>4, <3>1, <3>3
    <2>5. ASSUME ~Complete, NEW d \in Present, ~After(Row(d), job.cursor)
          PROVE  <<d, docs[d]>> \in entries'
      <3>1. d \in Docs /\ docs[d] \in Nat /\ docs[d] # 0
        BY Fields DEF IInv, Present
      <3>2. docs[d] <= job.cursor[1] /\ job.cursor[1] <= job.target
        BY <1>1, <2>5, <3>1, RowOrder, Fields DEF IInv, IndexInv, BatchInv
      <3>3. docs[d] \in 1 .. job.target
        BY <3>1, <3>2, Fields DEF IInv
      <3>4. QED
        BY <2>1, <2>2, <2>5, <3>1, <3>3
    <2>6. Faithful(Numeric(progress.sequence), entries, docs)'
      BY <1>2, <2>1, <2>3 DEF Faithful
    <2>7. Covers(progress.cursor)'
      BY <1>2, <1>10, <2>4 DEF Covers, Present, Row
    <2>8. ~Complete => Covers(job.cursor)'
      BY <1>2, <2>5 DEF Covers, Present, Row
    <2>9. QED
      BY <2>6, <2>7, <2>8
  <1>22. ContentInv'
    BY <1>17, <1>21 DEF ContentInv
  <1>23. SaveInv'
    <2>1. Complete' <=> Complete
      BY <1>2 DEF Complete
    <2>2. QED
      BY <1>21, <2>1 DEF SaveInv
  <1>24. IndexInv'
    BY <1>15, <1>19, <1>20, <1>22, <1>23 DEF IndexInv
  <1>25. QED
    BY <1>6, <1>7, <1>13, <1>24 DEF IInv

LEMMA SaveKeeps ==
    ASSUME IInv, SaveCursor
    PROVE  IInv'
  <1>1. /\ pc = "save" /\ damage # "tables" /\ Worker \in holders /\ Return
        /\ progress' = [progress EXCEPT !.cursor = IF Complete THEN <<0, 0>> ELSE job.cursor]
        /\ UNCHANGED <<libraryVars, built, damage, entries, records, repair, queryVars>>
    BY DEF SaveCursor, Refused, IInv, PlaceInv
  <1>2. /\ docs' = docs /\ sequence' = sequence /\ reset' = reset /\ repair' = repair
        /\ built' = built /\ damage' = damage /\ entries' = entries /\ records' = records
        /\ qpc' = qpc /\ indexed' = indexed /\ known' = known /\ hits' = hits
        /\ answer' = answer
    BY <1>1 DEF libraryVars, queryVars
  <1>3. pc' = "idle" /\ job' = NoJob
    BY <1>1 DEF Return
  <1>4. LockInv' /\ PlaceInv'
    BY <1>1, WorkerReturns DEF IInv
  <1>5. QueryInv'
    BY <1>1, WorkerAlone, QueriesSame DEF IInv
  <1>6. progress \in [sequence : Nat \cup {None}, reset : Nat \cup {None}, cursor : Cursors]
    BY DEF IInv, TypeInv
  <1> DEFINE c == IF Complete THEN <<0, 0>> ELSE job.cursor
  <1>7. /\ c \in Cursors /\ c[1] <= sequence
    <2>1. <<0, 0>> \in Cursors /\ <<0, 0>>[1] = 0
      BY DEF Cursors
    <2>2. ~Complete => job.cursor[1] <= job.target
      BY <1>1 DEF IInv, IndexInv, BatchInv
    <2>3. job.target <= sequence
      BY <1>1 DEF IInv, IndexInv, JobInv
    <2>4. QED
      BY <2>1, <2>2, <2>3, Fields DEF IInv
  <1>8. progress' = [progress EXCEPT !.cursor = c]
    BY <1>1
  <1>9. Complete => c = <<0, 0>>
    OBVIOUS
  <1>10. ~Complete => c = job.cursor
    OBVIOUS
  <1> HIDE DEF c
  <1>11. progress' \in [sequence : Nat \cup {None}, reset : Nat \cup {None}, cursor : Cursors]
    BY <1>6, <1>7, <1>8
  <1>12. /\ progress'.sequence = progress.sequence /\ progress'.reset = progress.reset
         /\ progress'.cursor = c
    BY <1>6, <1>8
  <1>13. TypeInv'
    BY <1>2, <1>3, <1>11, NoJobTyped DEF IInv, TypeInv, LibraryTypeOK, WorkerSteps
  <1>14. JobInv'
    BY <1>2, <1>3, <1>7, <1>12 DEF IInv, IndexInv, JobInv
  <1>15. TornInv'
    <2>1. Matched
      BY <1>1 DEF IInv, IndexInv, CurrentInv
    <2>2. QED
      BY <1>2, <2>1 DEF TornInv, Matched
  <1>16. ContentInv'
    <2>1. ASSUME ~Behind(reset)'
          PROVE  /\ Faithful(Numeric(progress.sequence), entries, docs)'
                 /\ Covers(progress.cursor)'
      <3>1. ~Behind(reset)
        BY <1>2, <1>12, <2>1 DEF Behind
      <3>2. Faithful(Numeric(progress.sequence), entries, docs)'
        BY <1>2, <1>12, <3>1 DEF IInv, IndexInv, ContentInv, Faithful
      <3>3. Covers(c)
        <4>1. CASE Complete
          BY <4>1, <1>9, EmptyIndex DEF IInv, Covers
        <4>2. CASE ~Complete
          BY <4>2, <1>1, <1>10, <3>1 DEF IInv, IndexInv, SaveInv
        <4>3. QED
          BY <4>1, <4>2
      <3>4. Covers(progress.cursor)'
        BY <1>2, <1>12, <3>3 DEF Covers, Present, Row
      <3>5. QED
        BY <3>2, <3>4
    <2>2. QED
      BY <1>2, <2>1 DEF IInv, IndexInv, ContentInv
  <1>17. WipeInv' /\ CurrentInv' /\ BatchInv' /\ SaveInv'
    BY <1>3 DEF WipeInv, CurrentInv, BatchInv, SaveInv
  <1>18. QED
    BY <1>4, <1>5, <1>13, <1>14, <1>15, <1>16, <1>17 DEF IInv, IndexInv

-----------------------------------------------------------------------------
(* The steps of the queries. *)

\* A query moves on: it stays in the lock that it has or leaves it, and what it
\* has read by then is as the index is, or is no longer used.
QueryMove(q) ==
    /\ LockInv' /\ Beside(q)
    /\ q \in Inside' <=> qpc'[q] \notin Outside
    /\ qpc'[q] \in {"reset", "hits", "records"} => q \in holders'
    /\ UNCHANGED <<libraryVars, indexVars, workerVars>>
    /\ repair' \in BOOLEAN
    /\ \A r \in Readers \ {q} :
         /\ qpc'[r] = qpc[r] /\ indexed'[r] = indexed[r] /\ known'[r] = known[r]
         /\ hits'[r] = hits[r] /\ answer'[r] = answer[r]
    /\ qpc' \in [Readers -> QuerySteps] /\ indexed' \in [Readers -> Nat]
    /\ known' \in [Readers -> [Docs -> Nat]] /\ hits' \in [Readers -> SUBSET (Docs \X Nat)]
    /\ answer' \in [Readers -> SUBSET (Docs \X Nat \X Nat)]
    /\ Reading(q)'
    /\ qpc'[q] = "answered" =>
         /\ \A a \in answer'[q] : a[2] = a[3]
         /\ Faithful(indexed'[q], {<<a[1], a[2]>> : a \in answer'[q]}, known'[q])

LEMMA QueryMoveKeeps ==
    ASSUME IInv, NEW q \in Readers, QueryMove(q)
    PROVE  IInv'
  <1>1. LockInv' /\ PlaceInv'
    <2>1. pc' = pc
      BY DEF QueryMove, workerVars
    <2>2. QED
      BY <2>1, QueryPlace DEF IInv, QueryMove
  <1>2. TypeInv'
    BY DEF IInv, TypeInv, QueryMove, libraryVars, indexVars, workerVars, LibraryTypeOK
  <1>3. IndexInv'
    BY IndexSame DEF IInv, QueryMove
  <1>4. QueryInv'
    <2>1. progress' = progress /\ entries' = entries
      BY DEF QueryMove, indexVars
    <2>2. ASSUME NEW r \in Readers
          PROVE  Reading(r)'
      <3>1. CASE r = q
        BY <3>1 DEF QueryMove
      <3>2. CASE r # q
        <4>1. Reading(r)
          BY DEF IInv, QueryInv
        <4>2. /\ qpc'[r] = qpc[r] /\ indexed'[r] = indexed[r] /\ known'[r] = known[r]
              /\ hits'[r] = hits[r]
          BY <3>2 DEF QueryMove
        <4>3. QED
          BY <2>1, <4>1, <4>2 DEF Reading, Faithful
      <3>3. QED
        BY <3>1, <3>2
    <2>3. AnswersExact'
      <3>1. SUFFICES ASSUME NEW r \in Readers, qpc'[r] = "answered"
                     PROVE  /\ \A a \in answer'[r] : a[2] = a[3]
                            /\ Faithful(indexed'[r], {<<a[1], a[2]>> : a \in answer'[r]},
                                        known'[r])
        BY DEF AnswersExact, Faithful
      <3>2. CASE r = q
        BY <3>1, <3>2 DEF QueryMove
      <3>3. CASE r # q
        <4>1. /\ qpc'[r] = qpc[r] /\ indexed'[r] = indexed[r] /\ known'[r] = known[r]
              /\ answer'[r] = answer[r]
          BY <3>3 DEF QueryMove
        <4>2. QED
          BY <3>1, <4>1 DEF IInv, QueryInv, AnswersExact
      <3>4. QED
        BY <3>2, <3>3
    <2>4. QED
      BY <2>2, <2>3 DEF QueryInv
  <1>5. QED
    BY <1>1, <1>2, <1>3, <1>4 DEF IInv

\* The types of what the queries have read, and of one value more of each.
LEMMA QueryTypes ==
    ASSUME IInv, NEW q \in Readers
    PROVE  /\ qpc \in [Readers -> QuerySteps] /\ indexed \in [Readers -> Nat]
           /\ known \in [Readers -> [Docs -> Nat]]
           /\ hits \in [Readers -> SUBSET (Docs \X Nat)]
           /\ answer \in [Readers -> SUBSET (Docs \X Nat \X Nat)]
           /\ repair \in BOOLEAN /\ Reading(q) /\ q \in Processes
           /\ q \in Inside <=> qpc[q] \notin Outside
           /\ qpc[q] \in {"reset", "hits", "records"} => q \in holders
  BY Actors DEF IInv, TypeInv, QueryInv, PlaceInv

\* A query that stays in the lock and has read no answer yet.
LEMMA StaysKeeps ==
    ASSUME IInv, NEW q \in Readers, NEW s \in {"reset", "hits", "records"},
           NEW n \in Nat, NEW k \in [Docs -> Nat], NEW h \in SUBSET (Docs \X Nat),
           q \in holders, qpc' = [qpc EXCEPT ![q] = s],
           indexed' = [indexed EXCEPT ![q] = n], known' = [known EXCEPT ![q] = k],
           hits' = [hits EXCEPT ![q] = h],
           UNCHANGED <<libraryVars, lockVars, indexVars, repair, workerVars, answer>>,
           progress.sequence = n,
           s \in {"hits", "records"} => Faithful(n, entries, k),
           s = "records" => h = entries
    PROVE  IInv'
  <1>1. LockInv' /\ Inside' = Inside /\ holders' = holders
    BY SameLock DEF IInv
  <1>2. /\ qpc'[q] = s /\ indexed'[q] = n /\ known'[q] = k /\ hits'[q] = h
        /\ answer' = answer /\ repair' = repair
        /\ progress' = progress /\ entries' = entries
    BY QueryTypes DEF indexVars
  <1>3. q \in Inside' /\ qpc'[q] \notin Outside
    BY <1>1, <1>2 DEF Inside, Outside
  <1>4. Reading(q)'
    BY <1>2 DEF Reading, Faithful
  <1>5. /\ qpc' \in [Readers -> QuerySteps] /\ indexed' \in [Readers -> Nat]
        /\ known' \in [Readers -> [Docs -> Nat]]
        /\ hits' \in [Readers -> SUBSET (Docs \X Nat)]
        /\ answer' \in [Readers -> SUBSET (Docs \X Nat \X Nat)]
    BY <1>2, QueryTypes DEF QuerySteps
  <1>6. \A r \in Readers \ {q} :
          /\ qpc'[r] = qpc[r] /\ indexed'[r] = indexed[r] /\ known'[r] = known[r]
          /\ hits'[r] = hits[r] /\ answer'[r] = answer[r]
    BY <1>2, QueryTypes
  <1>7. QueryMove(q)
    BY <1>1, <1>2, <1>3, <1>4, <1>5, <1>6, QueryTypes DEF QueryMove, Beside
  <1>8. QED
    BY <1>7, QueryMoveKeeps

\* A query that leaves the lock and forgets what it has read.
LEMMA ForgetsKeeps ==
    ASSUME IInv, NEW q \in Readers, NEW s \in {"idle", "failed"},
           LockInv', Inside' = Inside \ {q}, holders \ {q} \subseteq holders',
           qpc' = [qpc EXCEPT ![q] = s], Forget(q), repair' \in BOOLEAN,
           UNCHANGED <<libraryVars, indexVars, workerVars>>
    PROVE  IInv'
  <1>1. /\ indexed' = [indexed EXCEPT ![q] = 0] /\ known' = [known EXCEPT ![q] = Nothing]
        /\ hits' = [hits EXCEPT ![q] = {}] /\ answer' = [answer EXCEPT ![q] = {}]
    BY DEF Forget
  <1>2. Nothing \in [Docs -> Nat]
    BY EmptyIndex DEF IInv
  <1>3. qpc'[q] = s
    BY QueryTypes
  <1>4. /\ qpc' \in [Readers -> QuerySteps] /\ indexed' \in [Readers -> Nat]
        /\ known' \in [Readers -> [Docs -> Nat]]
        /\ hits' \in [Readers -> SUBSET (Docs \X Nat)]
        /\ answer' \in [Readers -> SUBSET (Docs \X Nat \X Nat)]
    BY <1>1, <1>2, QueryTypes DEF QuerySteps
  <1>5. \A r \in Readers \ {q} :
          /\ qpc'[r] = qpc[r] /\ indexed'[r] = indexed[r] /\ known'[r] = known[r]
          /\ hits'[r] = hits[r] /\ answer'[r] = answer[r]
    BY <1>1, QueryTypes
  <1>6. Reading(q)'
    BY <1>3 DEF Reading
  <1>7. QueryMove(q)
    BY <1>3, <1>4, <1>5, <1>6 DEF QueryMove, Beside, Outside
  <1>8. QED
    BY <1>7, QueryMoveKeeps

LEMMA UnansweredKeeps ==
    ASSUME IInv, NEW q \in Readers, NEW s \in {"idle", "failed"}, Unanswered(q, s),
           repair' \in BOOLEAN, UNCHANGED <<libraryVars, indexVars, workerVars>>
    PROVE  IInv'
  <1>1. LockInv' /\ Inside' = Inside \ {q} /\ holders \ {q} \subseteq holders'
    BY UnlockStep, QueryTypes DEF IInv, Unanswered
  <1>2. qpc' = [qpc EXCEPT ![q] = s] /\ Forget(q)
    BY DEF Unanswered
  <1>3. QED
    BY <1>1, <1>2, ForgetsKeeps

LEMMA BusyKeeps ==
    ASSUME IInv, NEW q \in Readers, Busy(q), repair' \in BOOLEAN,
           UNCHANGED <<libraryVars, indexVars, workerVars>>
    PROVE  IInv'
  BY UnansweredKeeps DEF Busy

LEMMA DamagedKeeps ==
    ASSUME IInv, NEW q \in Readers, NEW kinds, Damaged(q, kinds),
           UNCHANGED <<libraryVars, indexVars, workerVars>>
    PROVE  IInv'
  <1>1. repair' \in BOOLEAN
    BY QueryTypes DEF Damaged
  <1>2. QED
    BY <1>1, BusyKeeps DEF Damaged

LEMMA AbortKeeps ==
    ASSUME IInv, NEW q \in Readers, Abort(q)
    PROVE  IInv'
  <1>1. repair' \in BOOLEAN
    BY QueryTypes DEF Abort
  <1>2. QED
    BY <1>1, BusyKeeps DEF Abort

LEMMA ReplyKeeps ==
    ASSUME IInv, NEW q \in Readers, Reply(q)
    PROVE  IInv'
  <1>1. /\ qpc[q] \in Outside /\ qpc' = [qpc EXCEPT ![q] = "idle"] /\ Forget(q)
        /\ repair' \in BOOLEAN
        /\ UNCHANGED <<libraryVars, lockVars, indexVars, workerVars>>
    BY QueryTypes DEF Reply, Outside
  <1>2. LockInv' /\ Inside' = Inside /\ holders' = holders
    BY <1>1, SameLock DEF IInv
  <1>3. Inside' = Inside \ {q}
    BY <1>1, <1>2, QueryTypes
  <1>4. QED
    BY <1>1, <1>2, <1>3, ForgetsKeeps

LEMMA AskKeeps ==
    ASSUME IInv, NEW q \in Readers, Ask(q)
    PROVE  IInv'
  <1>1. /\ qpc[q] = "idle" /\ Lock(q) /\ qpc' = [qpc EXCEPT ![q] = "locked"]
        /\ UNCHANGED <<libraryVars, indexVars, repair, workerVars, indexed, known, hits, answer>>
    BY DEF Ask
  <1>2. q \notin Inside
    BY <1>1, QueryTypes DEF Outside
  <1>3. LockInv' /\ Inside' = Inside \cup {q} /\ holders \subseteq holders'
    BY <1>1, <1>2, LockStep, QueryTypes DEF IInv
  <1>4. qpc'[q] = "locked" /\ qpc' \in [Readers -> QuerySteps]
    BY <1>1, QueryTypes DEF QuerySteps
  <1>5. Reading(q)'
    BY <1>4 DEF Reading
  <1>6. \A r \in Readers \ {q} : qpc'[r] = qpc[r]
    BY <1>1, QueryTypes
  <1>7. QueryMove(q)
    BY <1>1, <1>3, <1>4, <1>5, <1>6, QueryTypes DEF QueryMove, Beside, Outside
  <1>8. QED
    BY <1>7, QueryMoveKeeps

LEMMA ReadIndexedKeeps ==
    ASSUME IInv, NEW q \in Readers, ReadIndexed(q)
    PROVE  IInv'
  <1>1. qpc[q] = "locked" /\ q \in holders /\ UNCHANGED <<libraryVars, indexVars, workerVars>>
    BY DEF ReadIndexed
  <1>2. CASE Damaged(q, {"schema", "tables"})
    BY <1>1, <1>2, DamagedKeeps
  <1>3. CASE Busy(q) /\ UNCHANGED repair
    BY <1>1, <1>3, BusyKeeps, QueryTypes
  <1>4. CASE /\ built /\ progress.sequence # None
             /\ indexed' = [indexed EXCEPT ![q] = progress.sequence]
             /\ qpc' = [qpc EXCEPT ![q] = "reset"]
             /\ UNCHANGED <<lockVars, repair, known, hits, answer>>
    <2> DEFINE n == progress.sequence
               k == known[q]
               h == hits[q]
    <2>1. n \in Nat /\ k \in [Docs -> Nat] /\ h \in SUBSET (Docs \X Nat)
      BY <1>4, QueryTypes DEF IInv, TypeInv
    <2>2. known' = [known EXCEPT ![q] = k] /\ hits' = [hits EXCEPT ![q] = h]
      BY <1>4, QueryTypes
    <2>3. indexed' = [indexed EXCEPT ![q] = n]
      BY <1>4
    <2>4. progress.sequence = n
      OBVIOUS
    <2> HIDE DEF n, k, h
    <2>5. UNCHANGED <<libraryVars, lockVars, indexVars, repair, workerVars, answer>>
      BY <1>1, <1>4
    <2>6. q \in holders /\ qpc' = [qpc EXCEPT ![q] = "reset"]
      BY <1>1, <1>4
    <2>7. QED
      BY <2>1, <2>2, <2>3, <2>4, <2>5, <2>6, StaysKeeps
  <1>5. QED
    BY <1>2, <1>3, <1>4 DEF ReadIndexed

\* An index that has reached the last deletion is not behind it.
LEMMA ReadResetKeeps ==
    ASSUME IInv, NEW q \in Readers, ReadReset(q)
    PROVE  IInv'
  <1>1. qpc[q] = "reset" /\ UNCHANGED <<libraryVars, indexVars, repair, workerVars>>
    BY DEF ReadReset
  <1>2. CASE Busy(q)
    BY <1>1, <1>2, BusyKeeps, QueryTypes
  <1>3. CASE /\ MayAnswer(indexed[q])
             /\ known' = [known EXCEPT ![q] = docs]
             /\ qpc' = [qpc EXCEPT ![q] = "hits"]
             /\ UNCHANGED <<lockVars, indexed, hits, answer>>
    <2> DEFINE n == indexed[q]
               h == hits[q]
    <2>1. n \in Nat /\ docs \in [Docs -> Nat] /\ h \in SUBSET (Docs \X Nat)
      BY QueryTypes, Fields DEF IInv
    <2>2. indexed' = [indexed EXCEPT ![q] = n] /\ hits' = [hits EXCEPT ![q] = h]
      BY <1>3, QueryTypes
    <2>3. progress.sequence = n /\ q \in holders
      BY <1>1, QueryTypes DEF Reading
    <2>4. Faithful(n, entries, docs)
      <3>1. n >= reset
        BY <1>3 DEF MayAnswer
      <3>2. Numeric(progress.sequence) = n
        BY <2>1, <2>3 DEF Numeric, None
      <3>3. ~Behind(reset)
        BY <2>1, <3>1, <3>2, Fields DEF IInv, Behind
      <3>4. QED
        BY <3>2, <3>3 DEF IInv, IndexInv, ContentInv
    <2> HIDE DEF n, h
    <2>5. UNCHANGED <<libraryVars, lockVars, indexVars, repair, workerVars, answer>>
      BY <1>1, <1>3
    <2>6. QED
      BY <1>3, <2>1, <2>2, <2>3, <2>4, <2>5, StaysKeeps
  <1>4. QED
    BY <1>2, <1>3 DEF ReadReset

LEMMA ReadHitsKeeps ==
    ASSUME IInv, NEW q \in Readers, ReadHits(q)
    PROVE  IInv'
  <1>1. qpc[q] = "hits" /\ UNCHANGED <<libraryVars, indexVars, workerVars>>
    BY DEF ReadHits
  <1>2. CASE Damaged(q, {"schema", "tables"})
    BY <1>1, <1>2, DamagedKeeps
  <1>3. CASE /\ hits' = [hits EXCEPT ![q] = entries]
             /\ qpc' = [qpc EXCEPT ![q] = "records"]
             /\ UNCHANGED <<lockVars, repair, indexed, known, answer>>
    <2> DEFINE n == indexed[q]
               k == known[q]
    <2>1. n \in Nat /\ k \in [Docs -> Nat] /\ entries \in SUBSET (Docs \X Nat)
      BY QueryTypes DEF IInv, TypeInv
    <2>2. indexed' = [indexed EXCEPT ![q] = n] /\ known' = [known EXCEPT ![q] = k]
      BY <1>3, QueryTypes
    <2>3. progress.sequence = n /\ q \in holders /\ Faithful(n, entries, k)
      BY <1>1, QueryTypes DEF Reading
    <2> HIDE DEF n, k
    <2>4. UNCHANGED <<libraryVars, lockVars, indexVars, repair, workerVars, answer>>
      BY <1>1, <1>3
    <2>5. QED
      BY <1>3, <2>1, <2>2, <2>3, <2>4, StaysKeeps
  <1>4. QED
    BY <1>2, <1>3 DEF ReadHits

\* The records of the hits are those of the entries that the query has found.
LEMMA ReadRecordsKeeps ==
    ASSUME IInv, NEW q \in Readers, ReadRecords(q)
    PROVE  IInv'
  <1>1. qpc[q] = "records" /\ UNCHANGED <<libraryVars, indexVars, repair, workerVars>>
    BY DEF ReadRecords
  <1>2. CASE Unanswered(q, "failed")
    BY <1>1, <1>2, UnansweredKeeps, QueryTypes
  <1>3. CASE /\ answer' = [answer EXCEPT ![q] =
                             {<<h[1], h[2], records[h[1]]>> : h \in hits[q]}]
             /\ qpc' = [qpc EXCEPT ![q] = "answered"]
             /\ hits' = [hits EXCEPT ![q] = {}]
             /\ Unlock(q)
             /\ UNCHANGED <<indexed, known>>
    <2> DEFINE A == {<<h[1], h[2], records[h[1]]>> : h \in hits[q]}
    <2>1. hits[q] = entries /\ Faithful(indexed[q], entries, known[q])
      BY <1>1, QueryTypes DEF Reading
    <2>2. /\ entries \subseteq Docs \X Nat
          /\ \A e \in entries : e = <<e[1], e[2]>> /\ records[e[1]] = e[2]
      BY DEF IInv, TypeInv, IndexInv, ContentInv
    <2>3. A \in SUBSET (Docs \X Nat \X Nat) /\ \A a \in A : a[2] = a[3]
      BY <2>1, <2>2
    <2>4. {<<a[1], a[2]>> : a \in A} = entries
      <3>1. \A a \in A : <<a[1], a[2]>> \in entries
        BY <2>1, <2>2
      <3>2. ASSUME NEW e \in entries
            PROVE  e \in {<<a[1], a[2]>> : a \in A}
        <4>1. <<e[1], e[2], records[e[1]]>> \in A
          BY <2>1
        <4>2. QED
          BY <4>1, <2>2
      <3>3. QED
        BY <3>1, <3>2
    <2>5. answer' = [answer EXCEPT ![q] = A]
      BY <1>3
    <2> HIDE DEF A
    <2>6. answer'[q] = A /\ answer' \in [Readers -> SUBSET (Docs \X Nat \X Nat)]
      BY <2>3, <2>5, QueryTypes
    <2>7. /\ qpc'[q] = "answered" /\ qpc' \in [Readers -> QuerySteps]
          /\ hits' \in [Readers -> SUBSET (Docs \X Nat)]
          /\ indexed' = indexed /\ known' = known
      BY <1>3, QueryTypes DEF QuerySteps
    <2>8. LockInv' /\ Inside' = Inside \ {q} /\ holders \ {q} \subseteq holders'
      BY <1>3, UnlockStep, QueryTypes DEF IInv
    <2>9. \A r \in Readers \ {q} :
            /\ qpc'[r] = qpc[r] /\ hits'[r] = hits[r] /\ answer'[r] = answer[r]
      BY <1>3, QueryTypes
    <2>10. Reading(q)'
      BY <2>7 DEF Reading
    <2>11. Faithful(indexed'[q], {<<a[1], a[2]>> : a \in answer'[q]}, known'[q])
      BY <2>1, <2>4, <2>6, <2>7
    <2>12. QueryMove(q)
      BY <1>1, <2>3, <2>6, <2>7, <2>8, <2>9, <2>10, <2>11, QueryTypes
         DEF QueryMove, Beside, Outside
    <2>13. QED
      BY <2>12, QueryMoveKeeps
  <1>4. QED
    BY <1>2, <1>3 DEF ReadRecords

-----------------------------------------------------------------------------
(* The surroundings. *)

\* A change of the library is past everything that a job goes by, and a deletion
\* leaves every index behind.
LEMMA ChangeKeeps ==
    ASSUME IInv, Change
    PROVE  IInv'
  <1>1. /\ UNCHANGED <<lockVars, indexVars, repair, workerVars, queryVars>>
        /\ \E S \in SUBSET Docs : PutKnowledge(S) \/ DeleteKnowledge(S)
    BY DEF Change, LibraryNext
  <1>2. /\ repair' = repair /\ pc' = pc /\ job' = job
        /\ built' = built /\ damage' = damage /\ entries' = entries
        /\ records' = records /\ progress' = progress
        /\ qpc' = qpc /\ indexed' = indexed /\ known' = known /\ hits' = hits
        /\ answer' = answer
    BY <1>1 DEF indexVars, workerVars, queryVars
  <1>3. PICK S \in SUBSET Docs : PutKnowledge(S) \/ DeleteKnowledge(S)
    BY <1>1
  <1>4. /\ sequence' = sequence + 1 /\ sequence \in Nat /\ reset \in Nat
        /\ reset <= sequence
        /\ reset' = reset \/ reset' = sequence + 1
        /\ \A d \in Docs : docs[d] \in Nat /\ docs[d] <= sequence
    BY <1>3, Fields DEF PutKnowledge, DeleteKnowledge, IInv
  \* What became of each document, with no deletion since and with one.
  <1>5. /\ docs' \in [Docs -> 0 .. sequence + 1]
        /\ \A d \in Docs : \/ docs'[d] = docs[d]
                           \/ docs'[d] = sequence + 1
                           \/ docs'[d] = 0 /\ reset' = sequence + 1
    <2>1. CASE PutKnowledge(S)
      BY <1>4, <2>1 DEF PutKnowledge
    <2>2. CASE DeleteKnowledge(S)
      BY <1>4, <2>2 DEF DeleteKnowledge
    <2>3. QED
      BY <1>3, <2>1, <2>2
  <1>6. LockInv' /\ PlaceInv'
    <2>1. LockInv' /\ Inside' = Inside /\ holders' = holders
      BY <1>1, SameLock DEF IInv
    <2>2. QED
      BY <1>2, <2>1 DEF IInv, PlaceInv
  <1>7. TypeInv'
    <2>1. LibraryTypeOK'
      BY <1>4, <1>5 DEF LibraryTypeOK
    <2>2. QED
      BY <1>2, <2>1 DEF IInv, TypeInv
  <1>8. QueryInv'
    BY <1>1, <1>2, QueriesSame DEF IInv
  <1>9. /\ progress.sequence <= sequence /\ progress.reset <= reset
        /\ progress.cursor[1] <= sequence
        /\ Numeric(progress.sequence) <= sequence
        /\ pc # "idle" =>
             /\ job.reset <= job.target /\ job.target <= sequence
             /\ job.reset <= reset /\ (reset = job.reset \/ reset > job.target)
             /\ progress.sequence <= job.target /\ progress.reset <= job.reset
             /\ progress.cursor[1] <= job.target
    BY <1>4, Fields DEF IInv, IndexInv, JobInv, Numeric
  <1>10. JobInv'
    BY <1>2, <1>4, <1>9, Fields DEF IInv, JobInv
  <1>11. reset' = reset \/ Behind(reset)'
    BY <1>2, <1>4, <1>9, Fields DEF IInv, Behind
  <1>12. Behind(reset) => Behind(reset)'
    BY <1>2, <1>11 DEF Behind
  <1>13. TornInv'
    BY <1>2, <1>12 DEF IInv, IndexInv, TornInv, Matched, Behind
  <1>14. WipeInv' /\ CurrentInv'
    BY <1>2 DEF IInv, IndexInv, WipeInv, CurrentInv, Matched, Behind
  <1>15. Complete' <=> Complete
    BY <1>2 DEF Complete
  <1>16. BatchInv'
    <2>1. ASSUME pc = "apply"
          PROVE  /\ job.target \in Nat /\ job.target <= sequence
                 /\ DOMAIN job.batch \subseteq Docs
                 /\ \A d \in DOMAIN job.batch :
                      /\ job.batch[d] \in 1 .. job.target
                      /\ docs[d] = job.batch[d] \/ docs[d] > job.target \/ reset > job.target
                 /\ damage # "tables" =>
                      \A d \in Docs :
                        docs[d] \in 1 .. job.target
                          /\ (Complete \/ ~After(Row(d), job.cursor)) =>
                          \/ d \in DOMAIN job.batch \/ docs[d] <= job.seq
                          \/ ~After(Row(d), progress.cursor)
      BY <2>1, <1>9, Fields DEF IInv, IndexInv, BatchInv
    <2>2. ASSUME pc = "apply", NEW d \in DOMAIN job.batch
          PROVE  /\ job.batch[d] \in 1 .. job.target
                 /\ docs'[d] = job.batch[d] \/ docs'[d] > job.target \/ reset' > job.target
      <3>1. /\ docs[d] = job.batch[d] \/ docs[d] > job.target \/ reset > job.target
            /\ d \in Docs /\ job.batch[d] \in 1 .. job.target
            /\ job.target \in Nat /\ job.target <= sequence
        BY <2>1, <2>2
      <3>2. reset > job.target => reset' > job.target
        BY <1>4, <3>1
      <3>3. \/ docs'[d] = docs[d] \/ docs'[d] > job.target \/ reset' > job.target
        BY <1>4, <1>5, <3>1
      <3>4. QED
        BY <3>1, <3>2, <3>3
    <2>3. ASSUME pc = "apply", damage # "tables", NEW d \in Docs,
                 docs'[d] \in 1 .. job.target, Complete \/ ~After(Row(d)', job.cursor)
          PROVE  \/ d \in DOMAIN job.batch \/ docs'[d] <= job.seq
                 \/ ~After(Row(d)', progress.cursor)
      <3>1. docs'[d] = docs[d]
        BY <1>4, <1>5, <2>1, <2>3
      <3>2. Row(d)' = Row(d)
        BY <3>1 DEF Row
      <3>3. QED
        BY <2>1, <2>3, <3>1, <3>2
    <2>4. pc \in {"apply", "save"} /\ ~Complete => job.cursor[1] <= job.target
      BY DEF IInv, IndexInv, BatchInv
    <2>5. ASSUME pc' = "apply"
          PROVE  /\ \A d \in DOMAIN job'.batch :
                      /\ job'.batch[d] \in 1 .. job'.target
                      /\ \/ docs'[d] = job'.batch[d] \/ docs'[d] > job'.target
                         \/ reset' > job'.target
                 /\ damage' # "tables" =>
                      \A d \in Docs :
                        docs'[d] \in 1 .. job'.target
                          /\ (Complete' \/ ~After(Row(d)', job'.cursor)) =>
                          \/ d \in DOMAIN job'.batch \/ docs'[d] <= job'.seq
                          \/ ~After(Row(d)', progress'.cursor)
      BY <1>2, <1>15, <2>2, <2>3, <2>5
    <2>6. QED
      BY <1>2, <1>15, <2>4, <2>5 DEF BatchInv
  \* What an index has in whole up to a position stays so: what changes is past it.
  <1>17. ASSUME NEW c \in Cursors, c[1] <= sequence, Covers(c), reset' = reset
         PROVE  Covers(c)'
    <2>1. SUFFICES ASSUME NEW d \in Present', ~After(Row(d)', c)
                   PROVE  <<d, docs'[d]>> \in entries'
      BY DEF Covers
    <2>2. d \in Docs /\ docs'[d] # 0
      BY DEF Present
    <2>3. c[1] \in Nat
      BY DEF Cursors
    <2>4. docs'[d] # sequence + 1
      BY <1>4, <1>17, <2>1, <2>3 DEF After, Row
    <2>5. docs'[d] = docs[d]
      BY <1>4, <1>5, <1>17, <2>2, <2>4
    <2>6. d \in Present /\ Row(d)' = Row(d)
      BY <2>2, <2>5 DEF Present, Row
    <2>7. QED
      BY <1>2, <1>17, <2>1, <2>5, <2>6 DEF Covers
  <1>18. SaveInv'
    <2>1. SUFFICES ASSUME pc' = "save", ~Behind(reset)', ~Complete'
                   PROVE  Covers(job.cursor)'
      BY DEF SaveInv
    <2>2. ~Behind(reset) /\ reset' = reset
      BY <1>11, <1>12, <2>1
    <2>3. Covers(job.cursor)
      BY <1>2, <1>15, <2>1, <2>2 DEF IInv, IndexInv, SaveInv
    <2>4. job.cursor[1] <= sequence
      <3>1. job.cursor[1] <= job.target
        BY <1>2, <1>15, <2>1 DEF IInv, IndexInv, BatchInv
      <3>2. QED
        BY <1>2, <1>9, <2>1, <3>1, Fields DEF IInv
    <2> DEFINE c == job.cursor
    <2>5. Covers(c)'
      BY <1>17, <2>2, <2>3, <2>4, <1>2, Fields DEF IInv, Covers
    <2>6. QED
      BY <1>2, <2>5 DEF Covers
  <1>19. ContentInv'
    <2>1. \A e \in entries' : records'[e[1]] = e[2] /\ e[2] # 0
      BY <1>2 DEF IInv, IndexInv, ContentInv
    <2>2. ASSUME ~Behind(reset)'
          PROVE  /\ Faithful(Numeric(progress.sequence), entries, docs)'
                 /\ Covers(progress.cursor)'
      <3>1. ~Behind(reset) /\ reset' = reset
        BY <1>11, <1>12, <2>2
      <3>2. /\ Faithful(Numeric(progress.sequence), entries, docs)
            /\ Covers(progress.cursor)
        BY <3>1 DEF IInv, IndexInv, ContentInv
      <3>3. Covers(progress.cursor)'
        BY <1>2, <1>9, <1>17, <3>1, <3>2, Fields DEF IInv, Covers
      <3>4. ASSUME NEW e \in entries
            PROVE  docs'[e[1]] >= e[2] /\ e[2] > 0
        <4>1. e[1] \in Docs /\ e[2] \in Nat
          BY DEF IInv, TypeInv
        <4>2. docs[e[1]] >= e[2] /\ e[2] > 0
          BY <3>2 DEF Faithful
        <4>3. docs'[e[1]] = docs[e[1]] \/ docs'[e[1]] = sequence + 1
          BY <1>4, <1>5, <3>1, <4>1
        <4>4. QED
          BY <1>4, <4>1, <4>2, <4>3
      <3>5. ASSUME NEW d \in Docs, docs'[d] \in 1 .. Numeric(progress.sequence)
            PROVE  <<d, docs'[d]>> \in entries
        <4>1. docs'[d] = docs[d]
          BY <1>4, <1>5, <1>9, <3>1, <3>5, Fields DEF IInv
        <4>2. QED
          BY <3>2, <3>5, <4>1 DEF Faithful
      <3>6. Faithful(Numeric(progress.sequence), entries, docs)'
        BY <1>2, <3>4, <3>5 DEF Faithful
      <3>7. QED
        BY <3>3, <3>6
    <2>3. QED
      BY <2>1, <2>2 DEF ContentInv
  <1>20. QED
    BY <1>6, <1>7, <1>8, <1>10, <1>13, <1>14, <1>16, <1>18, <1>19 DEF IInv, IndexInv

LEMMA CrashKeeps ==
    ASSUME IInv, Crash
    PROVE  IInv'
  <1>1. /\ holders' = {} /\ waiters' = <<>> /\ pc' = "idle" /\ job' = NoJob
        /\ qpc' = [q \in Readers |-> "idle"] /\ indexed' = [q \in Readers |-> 0]
        /\ known' = [q \in Readers |-> Nothing] /\ hits' = [q \in Readers |-> {}]
        /\ answer' = [q \in Readers |-> {}]
        /\ UNCHANGED <<libraryVars, indexVars, repair>>
    BY DEF Crash, LockLost
  <1>2. /\ docs' = docs /\ sequence' = sequence /\ reset' = reset /\ repair' = repair
        /\ built' = built /\ damage' = damage /\ entries' = entries
        /\ records' = records /\ progress' = progress
    BY <1>1 DEF libraryVars, indexVars
  <1>3. waiters' \in Seq(Processes) /\ IsInjective(waiters') /\ Range(waiters') = {}
    BY <1>1 DEF IsInjective, Range
  <1>4. LockInv'
    BY <1>1, <1>3 DEF LockInv, Exclusive, Processes
  <1>5. PlaceInv'
    BY <1>1, <1>3 DEF PlaceInv, Inside, Outside
  <1>6. TypeInv'
    BY <1>1, <1>2, NoJobTyped, EmptyIndex
       DEF IInv, TypeInv, LibraryTypeOK, WorkerSteps, QuerySteps
  <1>7. IndexInv'
    BY <1>1, IndexRests DEF IInv
  <1>8. QueryInv'
    BY <1>1 DEF QueryInv, Reading, AnswersExact
  <1>9. QED
    BY <1>4, <1>5, <1>6, <1>7, <1>8 DEF IInv

\* A damaged file claims less, and nobody had to rely on what it no longer says.
LEMMA DamageKeeps ==
    ASSUME IInv, Damage
    PROVE  IInv'
  <1>1. /\ damage = "none" /\ damage' \in Damages
        /\ UNCHANGED <<libraryVars, lockVars, built, entries, records, progress,
                       repair, workerVars, queryVars>>
    BY DEF Damage
  <1>2. /\ docs' = docs /\ sequence' = sequence /\ reset' = reset /\ repair' = repair
        /\ built' = built /\ entries' = entries /\ records' = records
        /\ progress' = progress /\ pc' = pc /\ job' = job
        /\ qpc' = qpc /\ indexed' = indexed /\ known' = known /\ hits' = hits
        /\ answer' = answer
    BY <1>1 DEF libraryVars, workerVars, queryVars
  <1>3. LockInv' /\ PlaceInv'
    <2>1. LockInv' /\ Inside' = Inside /\ holders' = holders
      BY <1>1, SameLock DEF IInv
    <2>2. QED
      BY <1>2, <2>1 DEF IInv, PlaceInv
  <1>4. TypeInv'
    BY <1>1, <1>2, IndexAssumption DEF IInv, TypeInv, LibraryTypeOK
  <1>5. JobInv' /\ TornInv' /\ WipeInv' /\ CurrentInv'
    BY <1>1, <1>2 DEF IInv, IndexInv, JobInv, TornInv, WipeInv, CurrentInv, Matched, Behind
  <1>6. BatchInv' /\ SaveInv' /\ ContentInv'
    BY <1>1, <1>2 DEF IInv, IndexInv, BatchInv, SaveInv, ContentInv, Behind, Covers,
                      Complete, Present, Row, Faithful
  <1>7. QueryInv'
    BY <1>1, <1>2, QueriesSame DEF IInv
  <1>8. QED
    BY <1>3, <1>4, <1>5, <1>6, <1>7 DEF IInv, IndexInv

-----------------------------------------------------------------------------
(* The theorems. *)

LEMMA InitKeeps == Init => IInv
  <1>1. SUFFICES ASSUME Init
                 PROVE  IInv
    OBVIOUS
  <1>2. /\ docs = [d \in Docs |-> 0] /\ sequence = 0 /\ reset = 0
        /\ holders = {} /\ waiters = <<>>
        /\ built = FALSE /\ repair = FALSE /\ damage = "none"
        /\ entries = {} /\ records = Nothing /\ progress = NoProgress
        /\ pc = "idle" /\ job = NoJob
        /\ qpc = [q \in Readers |-> "idle"] /\ indexed = [q \in Readers |-> 0]
        /\ known = [q \in Readers |-> Nothing] /\ hits = [q \in Readers |-> {}]
        /\ answer = [q \in Readers |-> {}]
    BY <1>1 DEF Init, LibraryInit, LockInit
  <1>3. waiters \in Seq(Processes) /\ IsInjective(waiters) /\ Range(waiters) = {}
    BY <1>2 DEF IsInjective, Range
  <1>4. LockInv /\ PlaceInv
    BY <1>2, <1>3 DEF LockInv, Exclusive, PlaceInv, Inside, Outside
  <1>5. /\ Nothing = [d \in Docs |-> 0]
        /\ NoProgress = [sequence |-> None, reset |-> None, cursor |-> <<0, 0>>]
        /\ <<0, 0>> \in Cursors
    BY DEF Nothing, NoProgress, Cursors
  <1>6. TypeInv
    <2>1. LibraryTypeOK
      BY <1>2 DEF LibraryTypeOK
    <2>2. Nothing \in [Docs -> Nat]
      BY <1>5
    <2>3. NoProgress \in [sequence : Nat \cup {None}, reset : Nat \cup {None},
                          cursor : Cursors]
      BY <1>5
    <2>4. QED
      BY <1>2, <2>1, <2>2, <2>3, NoJobTyped DEF TypeInv, WorkerSteps, QuerySteps
  <1>7. JobInv
    BY <1>2, <1>6, EmptyIndex DEF JobInv, None
  <1>8. TornInv /\ WipeInv /\ CurrentInv /\ BatchInv /\ SaveInv
    BY <1>2, <1>6, EmptyIndex
       DEF TornInv, Matched, WipeInv, CurrentInv, BatchInv, SaveInv
  <1>9. ContentInv
    BY <1>2, <1>6, EmptyIndex DEF ContentInv, Covers
  <1>10. QueryInv
    BY <1>2 DEF QueryInv, Reading, AnswersExact
  <1>11. QED
    BY <1>4, <1>6, <1>7, <1>8, <1>9, <1>10 DEF IInv, IndexInv

LEMMA NextKeeps ==
    ASSUME IInv, [Next]_vars
    PROVE  IInv'
  <1>1. CASE Change
    BY <1>1, ChangeKeeps
  <1>2. CASE Step
    BY <1>2, StartKeeps, RemoveIndexKeeps, RemoveRequestKeeps, OpenKeeps, WipeKeeps,
       FetchKeeps, ApplyKeeps, SaveKeeps, FailKeeps DEF Step
  <1>3. ASSUME NEW q \in Readers, Ask(q) \/ Answering(q)
        PROVE  IInv'
    BY <1>3, AskKeeps, ReadIndexedKeeps, ReadResetKeeps, ReadHitsKeeps,
       ReadRecordsKeeps, ReplyKeeps DEF Answering
  <1>4. CASE Fault
    BY <1>4, FailKeeps, CrashKeeps, DamageKeeps, AbortKeeps DEF Fault
  <1>5. CASE UNCHANGED vars
    <2>1. /\ UNCHANGED <<libraryVars, lockVars, indexVars, repair, workerVars, queryVars>>
      BY <1>5 DEF vars
    <2>2. LockInv' /\ Inside' = Inside /\ holders' = holders
      BY <2>1, SameLock DEF IInv
    <2>3. PlaceInv'
      BY <2>1, <2>2 DEF IInv, PlaceInv, workerVars, queryVars
    <2>4. TypeInv'
      BY <2>1 DEF IInv, TypeInv, LibraryTypeOK, libraryVars, indexVars, workerVars, queryVars
    <2>5. IndexInv'
      BY <2>1, IndexSame DEF IInv
    <2>6. QueryInv'
      BY <2>1, QueriesSame DEF IInv, indexVars
    <2>7. QED
      BY <2>2, <2>3, <2>4, <2>5, <2>6 DEF IInv
  <1>6. QED
    BY <1>1, <1>2, <1>3, <1>4, <1>5 DEF Next, Work

LEMMA Inductive == Spec => []IInv
  <1>1. Init => IInv
    BY InitKeeps
  <1>2. IInv /\ [Next]_vars => IInv'
    BY NextKeeps
  <1>3. QED
    BY <1>1, <1>2, PTL DEF Spec

\* The variables keep their types: no process waits for the lock twice, nor for
\* one that it holds, and a batch has at most BatchSize documents.
THEOREM Typed == Spec => []TypeOK
  <1>1. IInv => TypeOK
    <2>1. SUFFICES ASSUME IInv
                   PROVE  TypeOK
      OBVIOUS
    <2>2. LockTypeOK
      <3>1. /\ waiters \in Seq(Processes) /\ Range(waiters) \cap holders = {}
            /\ holders \subseteq Processes
        BY <2>1 DEF IInv, LockInv
      <3>2. Len(waiters) \in Nat /\ waiters \in [1 .. Len(waiters) -> Processes]
        BY <3>1, LenProperties
      <3>3. \A i \in 1 .. Len(waiters) : waiters[i] \in Processes \ holders
        BY <3>1, <3>2 DEF Range
      <3>4. waiters \in [1 .. Len(waiters) -> Processes \ holders]
        BY <3>2, <3>3
      <3>5. waiters \in Seq(Processes \ holders)
        BY <3>2, <3>4
      <3>6. QED
        BY <3>1, <3>5 DEF LockTypeOK, Processes
    <2>3. /\ DOMAIN job.batch \subseteq Docs
          /\ \A d \in DOMAIN job.batch : job.batch[d] \in Nat
          /\ job.target \in Nat /\ job.reset \in Nat /\ job.seq \in Nat
          /\ job.cursor \in Cursors
      BY <2>1, Fields DEF IInv
    <2>4. job.statement \in 0 .. 4 /\ Cardinality(DOMAIN job.batch) <= BatchSize
      BY <2>1 DEF IInv, TypeInv, Jobs
    <2>5. QED
      BY <2>1, <2>2, <2>3, <2>4 DEF IInv, TypeInv, TypeOK
  <1>2. QED
    BY <1>1, Inductive, PTL

\* At every statement of the index, and whatever the worker was interrupted at,
\* an entry has the record that names it; when a batch is applied no record names
\* a row that is gone.
THEOREM Recorded == Spec => []EntriesRecorded
  <1>1. IInv => EntriesRecorded
    BY DEF IInv, IndexInv, ContentInv, CurrentInv, Matched, EntriesRecorded
  <1>2. QED
    BY <1>1, Inductive, PTL

\* An index that may answer holds no text of a deleted document, none newer than
\* the library, and every document up to the sequence that it claims.
THEOREM NeverStale == Spec => []IndexFaithful
  <1>1. IInv => IndexFaithful
    <2>1. SUFFICES ASSUME IInv, progress.sequence # None, progress.sequence >= reset
                   PROVE  Faithful(progress.sequence, entries, docs)
      BY DEF IndexFaithful, MayAnswer
    <2>2. Numeric(progress.sequence) = progress.sequence
      BY <2>1 DEF Numeric
    <2>3. ~Behind(reset)
      BY <2>1, <2>2, Fields DEF IInv, Behind
    <2>4. QED
      BY <2>1, <2>2, <2>3 DEF IInv, IndexInv, ContentInv
  <1>2. QED
    BY <1>1, Inductive, PTL

\* An answer is of one version of the index and faithful to the library as it was
\* when the query compared the two, however both have moved since.
THEOREM OneVersion == Spec => []AnswersExact
  <1>1. IInv => AnswersExact
    BY DEF IInv, QueryInv
  <1>2. QED
    BY <1>1, Inductive, PTL
=============================================================================
