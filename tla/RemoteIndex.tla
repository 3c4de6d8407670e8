---------------------------- MODULE RemoteIndex ----------------------------
(***************************************************************************)
(* The derived search index of one community: the worker that brings it up *)
(* to the library in bounded batches (stepIndex of server/search_index.go  *)
(* and retrieval/internal/search/remote_index.go) and the queries that     *)
(* read it (query of server/search.go), under the community's index lock.  *)
(*                                                                         *)
(* The library is PostgreSQL and may change between any two statements.    *)
(* The index is one SQLite file. Each of its statements and transactions   *)
(* is an action, so that an error, an ended context or a crash may come    *)
(* between any two of them.                                                *)
(***************************************************************************)
EXTENDS Library, IndexLock

CONSTANTS Worker,      \* runIndexWorker: the only caller of stepIndex
          BatchSize,   \* LIMIT 32
          Damages      \* what may happen to the file, see DamageKinds

DamageKinds == {"schema",    \* not a database, or an obsolete format
                "tables",    \* docs, docmeta or remote_progress malformed
                "records"}   \* remote_records malformed

ASSUME IndexAssumption ==
    /\ Writers = {Worker}
    /\ BatchSize \in Nat \ {0}
    /\ Damages \subseteq DamageKinds

VARIABLES
  \* The SQLite file and the request to remove it.
  built,        \* the file exists
  damage,       \* what is wrong with it, or "none"
  entries,      \* rows of docs and docmeta: pairs of a document and generation
  records,      \* [Docs -> Nat]: remote_records.generation, 0 without a row
  progress,     \* remote_progress: its sequence, reset and cursor
  repair,       \* rebuild.request exists
  \* The worker.
  pc,           \* the statement of stepIndex it is about to run
  job,          \* the local variables of stepIndex
  \* The queries.
  qpc,          \* [Readers -> the statement of query it is about to run]
  indexed,      \* [Readers -> Int]: the index's sequence as the query read it
  known,        \* [Readers -> [Docs -> Nat]]: docs when the query read reset
  hits,         \* [Readers -> SUBSET entries it found]
  answer        \* [Readers -> what it answers: document, text, record]

indexVars == <<built, damage, entries, records, progress>>
workerVars == <<pc, job>>
queryVars == <<qpc, indexed, known, hits, answer>>
vars == <<libraryVars, lockVars, indexVars, repair, workerVars, queryVars>>

None == -1                                  \* no such row
Cursors == Nat \X Nat                       \* cursor_generation and cursor_id
LastId == Max(Docs \cup {0}) + 1            \* ffffffff-ffff-...
NoProgress == [sequence |-> None, reset |-> None, cursor |-> <<0, 0>>]
NoJob == [target |-> 0, reset |-> 0, seq |-> 0, statement |-> 0,
          batch |-> [d \in {} |-> 0], cursor |-> <<0, 0>>]
Nothing == [d \in Docs |-> 0]

WorkerSteps == {"idle", "locked", "unlink", "open", "wipe", "fetch", "apply",
                "save"}
QuerySteps == {"idle", "locked", "reset", "hits", "records", "answered",
               "failed"}

TypeOK ==
    /\ LibraryTypeOK /\ LockTypeOK
    /\ built \in BOOLEAN /\ repair \in BOOLEAN
    /\ damage \in {"none"} \cup DamageKinds
    /\ entries \subseteq Docs \X Nat
    /\ records \in [Docs -> Nat]
    /\ progress \in [sequence : Nat \cup {None}, reset : Nat \cup {None},
                     cursor : Cursors]
    /\ pc \in WorkerSteps
    /\ job.target \in Nat /\ job.reset \in Nat /\ job.seq \in Nat
    /\ job.statement \in 0..4
    /\ DOMAIN job.batch \subseteq Docs /\ Cardinality(DOMAIN job.batch) <= BatchSize
    /\ \A d \in DOMAIN job.batch : job.batch[d] \in Nat
    /\ job.cursor \in Cursors
    /\ qpc \in [Readers -> QuerySteps]
    /\ indexed \in [Readers -> Nat]
    /\ known \in [Readers -> [Docs -> Nat]]
    /\ hits \in [Readers -> SUBSET (Docs \X Nat)]
    /\ answer \in [Readers -> SUBSET (Docs \X Nat \X Nat)]

Init ==
    /\ LibraryInit /\ LockInit
    /\ built = FALSE /\ repair = FALSE /\ damage = "none"
    /\ entries = {} /\ records = Nothing /\ progress = NoProgress
    /\ pc = "idle" /\ job = NoJob
    /\ qpc = [q \in Readers |-> "idle"]
    /\ indexed = [q \in Readers |-> 0]
    /\ known = [q \in Readers |-> Nothing]
    /\ hits = [q \in Readers |-> {}]
    /\ answer = [q \in Readers |-> {}]

-----------------------------------------------------------------------------
(* The worker: one call of stepIndex. *)

\* (generation, id) > (cursor_generation, cursor_id), as SQL compares rows.
After(p, c) == p[1] > c[1] \/ (p[1] = c[1] /\ p[2] > c[2])

\* progress() drops the error of its statement: a row that cannot be read
\* counts as one that is not there.
Reads(value, missing) ==
    {value} \cup (IF damage = "tables" THEN {missing} ELSE {})

Numeric(value) == IF value = None THEN 0 ELSE value   \* ParseInt of "" is 0

Return == /\ Unlock(Worker)
          /\ pc' = "idle" /\ job' = NoJob

\* The library's counters are read before the write lock is asked for.
Start ==
    /\ pc = "idle"
    /\ job' = [NoJob EXCEPT !.target = sequence, !.reset = reset]
    /\ Lock(Worker)
    /\ pc' = "locked"
    /\ UNCHANGED <<libraryVars, indexVars, repair, queryVars>>

\* index.db, -wal and -shm go first and the request last.
RemoveIndex ==
    /\ pc = "locked" /\ Worker \in holders /\ repair
    /\ built' = FALSE /\ damage' = "none"
    /\ entries' = {} /\ records' = Nothing /\ progress' = NoProgress
    /\ pc' = "unlink"
    /\ UNCHANGED <<libraryVars, lockVars, repair, job, queryVars>>

RemoveRequest ==
    /\ pc = "unlink"
    /\ repair' = FALSE
    /\ pc' = "open"
    /\ UNCHANGED <<libraryVars, lockVars, indexVars, job, queryVars>>

\* OpenRemoteIndex, which replaces a file whose schema is not current.
Opened ==
    IF built /\ damage # "schema"
    THEN UNCHANGED indexVars
    ELSE /\ built' = TRUE /\ damage' = "none"
         /\ entries' = {} /\ records' = Nothing /\ progress' = NoProgress

\* ... and what stepIndex does next by the progress it finds.
Open ==
    /\ \/ pc = "open"
       \/ pc = "locked" /\ Worker \in holders /\ ~repair
    /\ Opened
    /\ \E s \in Reads(progress'.sequence, None), m \in Reads(progress'.reset, None) :
         IF s = job.target
         THEN Return
         ELSE /\ job' = [job EXCEPT !.seq = Numeric(s), !.statement = 1]
              /\ pc' = IF job.reset > Numeric(s) /\ m # job.reset
                       THEN "wipe" ELSE "fetch"
              /\ UNCHANGED lockVars
    /\ UNCHANGED <<libraryVars, repair, queryVars>>

\* The statements that forget the index, one after the other and not in a
\* transaction. docmeta goes with docs.
\* Mutants: the wrong table first; the mark forgotten.
WipeRecordsFirst == <<"records", "docs", "progress", "mark">>
WipeForgetsMark == <<"docs", "records", "progress">>

WipeOrder == <<"docs", "records", "progress", "mark">>

\* The statement that is about to write runs into the damage.
Refused ==
    \/ damage = "tables" /\ pc \in {"wipe", "apply", "save"}
    \/ /\ damage = "records"
       /\ \/ pc = "wipe" /\ WipeOrder[job.statement] = "records"
          \/ pc = "apply" /\ DOMAIN job.batch # {}

Wipe ==
    /\ pc = "wipe" /\ ~Refused
    /\ LET table == WipeOrder[job.statement]
       IN /\ entries' = IF table = "docs" THEN {} ELSE entries
          /\ records' = IF table = "records" THEN Nothing ELSE records
          /\ progress' = CASE table = "progress" -> NoProgress
                           [] table = "mark" -> [progress EXCEPT !.reset = job.reset]
                           [] OTHER -> progress
    /\ IF job.statement < Len(WipeOrder)
       THEN job' = [job EXCEPT !.statement = @ + 1] /\ UNCHANGED pc
       ELSE job' = [job EXCEPT !.seq = 0, !.statement = 0] /\ pc' = "fetch"
    /\ UNCHANGED <<libraryVars, lockVars, built, damage, repair, queryVars>>

\* Where the batch starts: at the saved cursor, or past the generations that
\* a complete pass has already covered.
StartOf(saved, seq) == IF saved[1] < seq THEN <<seq, LastId>> ELSE saved

Row(d) == <<docs[d], d>>

\* Mutant: compares the generation alone.
PendingByGeneration(cursor, target) ==
    {d \in Present : docs[d] > cursor[1] /\ docs[d] <= target}

Pending(cursor, target) ==
    {d \in Present : After(Row(d), cursor) /\ docs[d] <= target}

\* Mutant: no LIMIT.
IsBatchUnlimited(B, pending) == B = pending

\* ORDER BY generation, id LIMIT BatchSize
IsBatch(B, pending) ==
    /\ B \subseteq pending
    /\ \A d \in B, e \in pending \ B : After(Row(e), Row(d))
    /\ IF Cardinality(pending) <= BatchSize THEN B = pending
       ELSE Cardinality(B) = BatchSize

\* The cursor after the last row of the batch.
Advanced(B, cursor) ==
    IF B = {} THEN cursor
    ELSE CHOOSE c \in {Row(d) : d \in B} : \A d \in B : ~After(Row(d), c)

Fetch ==
    /\ pc = "fetch"
    /\ \E g \in Reads(progress.cursor[1], 0), i \in Reads(progress.cursor[2], 0) :
         LET start == StartOf(<<g, i>>, job.seq)
             pending == Pending(start, job.target)
         IN \E B \in SUBSET pending :
              /\ IsBatch(B, pending)
              /\ job' = [job EXCEPT !.batch = [d \in B |-> docs[d]],
                                    !.cursor = Advanced(B, start)]
    /\ pc' = "apply"
    /\ UNCHANGED <<libraryVars, lockVars, indexVars, repair, queryVars>>

Complete == Cardinality(DOMAIN job.batch) < BatchSize

\* ApplyRemoteRecords, one SQLite transaction. The old entry of a document is
\* found through the rowid in its record.
Apply ==
    /\ pc = "apply" /\ ~Refused
    /\ entries' = (entries \ {<<d, records[d]>> : d \in DOMAIN job.batch})
                  \cup {<<d, job.batch[d]>> : d \in DOMAIN job.batch}
    /\ records' = [d \in Docs |-> IF d \in DOMAIN job.batch THEN job.batch[d]
                                  ELSE records[d]]
    /\ progress' = IF Complete THEN [progress EXCEPT !.sequence = job.target]
                   ELSE progress
    /\ pc' = "save"
    /\ UNCHANGED <<libraryVars, lockVars, built, damage, repair, job, queryVars>>

SaveCursor ==
    /\ pc = "save" /\ ~Refused
    /\ progress' = [progress EXCEPT !.cursor = IF Complete THEN <<0, 0>> ELSE job.cursor]
    /\ Return
    /\ UNCHANGED <<libraryVars, built, damage, entries, records, repair, queryVars>>

\* stepIndex returns the error of a damaged file; nothing asks for its repair.
Refuse ==
    /\ Refused
    /\ Return
    /\ UNCHANGED <<libraryVars, indexVars, repair, queryVars>>

\* Any statement may fail and the job's context may end, also in lockIndex.
Fail ==
    /\ pc # "idle"
    /\ Return
    /\ UNCHANGED <<libraryVars, indexVars, repair, queryVars>>

Step == \/ Start \/ RemoveIndex \/ RemoveRequest \/ Open \/ Wipe \/ Fetch
        \/ Apply \/ SaveCursor \/ Refuse

-----------------------------------------------------------------------------
(* The queries. *)

Ask(q) ==
    /\ qpc[q] = "idle"
    /\ Lock(q)
    /\ qpc' = [qpc EXCEPT ![q] = "locked"]
    /\ UNCHANGED <<libraryVars, indexVars, repair, workerVars, indexed, known, hits, answer>>

Forget(q) == /\ indexed' = [indexed EXCEPT ![q] = 0]
             /\ known' = [known EXCEPT ![q] = Nothing]
             /\ hits' = [hits EXCEPT ![q] = {}]
             /\ answer' = [answer EXCEPT ![q] = {}]

\* The query ends without an answer and releases the lock: the retryable 503,
\* or an ended context, or ("failed") an error that is not retryable.
Unanswered(q, step) == /\ Unlock(q)
                       /\ qpc' = [qpc EXCEPT ![q] = step]
                       /\ Forget(q)

Busy(q) == Unanswered(q, "idle")

\* A statement of q runs into the damage of its kinds: requestIndexRepair
\* leaves the request when the message is one that it knows.
Damaged(q, kinds) ==
    /\ damage \in kinds
    /\ \/ repair' = TRUE
       \/ damage = "schema" /\ UNCHANGED repair
    /\ Busy(q)

ReadIndexed(q) ==
    /\ qpc[q] = "locked" /\ q \in holders
    /\ \/ Damaged(q, {"schema", "tables"})
       \/ /\ damage \notin {"schema", "tables"}
          /\ ~built \/ progress.sequence = None
          /\ Busy(q) /\ UNCHANGED repair
       \/ /\ damage \notin {"schema", "tables"}
          /\ built /\ progress.sequence # None
          /\ indexed' = [indexed EXCEPT ![q] = progress.sequence]
          /\ qpc' = [qpc EXCEPT ![q] = "reset"]
          /\ UNCHANGED <<lockVars, repair, known, hits, answer>>
    /\ UNCHANGED <<libraryVars, indexVars, workerVars>>

\* Whether an index that has reached sequence s may answer.
MayAnswer(s) == s >= reset

ReadReset(q) ==
    /\ qpc[q] = "reset"
    /\ IF ~MayAnswer(indexed[q])
       THEN Busy(q)
       ELSE /\ known' = [known EXCEPT ![q] = docs]
            /\ qpc' = [qpc EXCEPT ![q] = "hits"]
            /\ UNCHANGED <<lockVars, indexed, hits, answer>>
    /\ UNCHANGED <<libraryVars, indexVars, repair, workerVars>>

\* QuerySnapshotContext. Ranking and the page are left out: all entries match.
ReadHits(q) ==
    /\ qpc[q] = "hits"
    /\ \/ Damaged(q, {"schema", "tables"})
       \/ /\ damage \notin {"schema", "tables"}
          /\ hits' = [hits EXCEPT ![q] = entries]
          /\ qpc' = [qpc EXCEPT ![q] = "records"]
          /\ UNCHANGED <<lockVars, repair, indexed, known, answer>>
    /\ UNCHANGED <<libraryVars, indexVars, workerVars>>

\* The records of the hits and of compare_ids, and the answer made of both.
ReadRecords(q) ==
    /\ qpc[q] = "records"
    /\ IF damage = "records" \/ \E h \in hits[q] : records[h[1]] = 0
       THEN Unanswered(q, "failed")
       ELSE /\ answer' = [answer EXCEPT ![q] = {<<h[1], h[2], records[h[1]]>> : h \in hits[q]}]
            /\ qpc' = [qpc EXCEPT ![q] = "answered"]
            /\ hits' = [hits EXCEPT ![q] = {}]
            /\ Unlock(q)
            /\ UNCHANGED <<indexed, known>>
    /\ UNCHANGED <<libraryVars, indexVars, repair, workerVars>>

Reply(q) ==
    /\ qpc[q] \in {"answered", "failed"}
    /\ qpc' = [qpc EXCEPT ![q] = "idle"]
    /\ Forget(q)
    /\ UNCHANGED <<libraryVars, lockVars, indexVars, repair, workerVars>>

\* The request's context ends, also inside lockIndex.
Abort(q) ==
    /\ qpc[q] \notin {"idle", "answered", "failed"}
    /\ Busy(q)
    /\ UNCHANGED <<libraryVars, indexVars, repair, workerVars>>

Answering(q) == \/ ReadIndexed(q) \/ ReadReset(q) \/ ReadHits(q)
                \/ ReadRecords(q) \/ Reply(q)

-----------------------------------------------------------------------------
(* The surroundings. *)

Change == /\ LibraryNext
          /\ UNCHANGED <<lockVars, indexVars, repair, workerVars, queryVars>>

\* The server process ends and starts again; files and database stay.
Crash ==
    /\ LockLost
    /\ pc' = "idle" /\ job' = NoJob
    /\ qpc' = [q \in Readers |-> "idle"]
    /\ indexed' = [q \in Readers |-> 0]
    /\ known' = [q \in Readers |-> Nothing]
    /\ hits' = [q \in Readers |-> {}]
    /\ answer' = [q \in Readers |-> {}]
    /\ UNCHANGED <<libraryVars, indexVars, repair>>

Damage ==
    /\ built /\ damage = "none"
    /\ damage' \in Damages
    /\ UNCHANGED <<libraryVars, lockVars, built, entries, records, progress,
                   repair, workerVars, queryVars>>

Fault == Fail \/ Crash \/ Damage \/ \E q \in Readers : Abort(q)

Work == Change \/ Step \/ \E q \in Readers : Ask(q) \/ Answering(q)

Next == Work \/ Fault

Spec == Init /\ [][Next]_vars

\* The worker is a loop of its own goroutine; so is each request once it is in.
FairSpec == /\ Spec
            /\ WF_vars(Step)
            /\ \A q \in Readers : WF_vars(Answering(q))

\* Readers come back again and again.
QueriedSpec == FairSpec /\ \A q \in Readers : WF_vars(Ask(q))

-----------------------------------------------------------------------------
(* Correctness. *)

\* Between two statements of the index, and after a crash between them, an
\* entry of docs has the record that names it, so a document is found at most
\* once; and when a batch is applied no record names a row that is gone, since
\* SQLite hands out the rowid again (remote_index.go, search_index.go l.67).
EntriesRecorded ==
    /\ \A e \in entries : records[e[1]] = e[2]
    /\ pc \in {"fetch", "apply", "save"} =>
         \A d \in Docs : records[d] # 0 => <<d, records[d]>> \in entries

\* An index that may answer holds no text of a deleted document, no text newer
\* than the library, and every document up to the sequence it claims.
Faithful(s, content, library) ==
    /\ \A e \in content : library[e[1]] >= e[2] /\ e[2] > 0
    /\ \A d \in Docs : library[d] \in 1..s => <<d, library[d]>> \in content

IndexFaithful == progress.sequence # None /\ MayAnswer(progress.sequence) =>
                   Faithful(progress.sequence, entries, docs)

\* An answer pairs each hit with its own record, and is faithful to the library
\* as it was when the query compared the index with the last deletion, however
\* the worker, other queries and the library moved since: the read lock keeps
\* all its reads on one version (search.go l.91).
AnswersExact ==
    \A q \in Readers : qpc[q] = "answered" =>
      /\ \A a \in answer[q] : a[2] = a[3]
      /\ Faithful(indexed[q], {<<a[1], a[2]>> : a \in answer[q]}, known[q])

\* Faults stop some day.
FaultsEnd == <>[][Work]_vars

\* Once faults stop, the index catches up with the library, whatever the
\* worker was interrupted at and however often readers take the lock; a damaged
\* one that is read is rebuilt on the way.
CatchesUp == FaultsEnd => []<>(damage = "none" /\ progress.sequence = sequence)

\* What server/docs/search-scheduling.md l.122 says of a corrupt index: the
\* worker rebuilds it.
CorruptIndexRebuilt == FaultsEnd => []<>(damage = "none")
=============================================================================
