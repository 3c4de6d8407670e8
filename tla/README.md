# Verification of re-discipline

`re-discipline` keeps knowledge of reverse-engineering projects. A project has a
local index of its Markdown and may share documents with a *community*: a Go
service in front of PostgreSQL that stores the current documents of each
community, keeps a derived search index per community, answers the searches of
connected readers under a fair scheduler, and lets its operator archive and
delete a community for good. This directory holds TLA+ models of that program,
the TLC configurations that check them, and TLAPS proofs about them.

All paths are relative to the repository. "l." refers to lines of the file just
named.

## 1. Inventory

### Components of the service (`server/`)

| component | state | operations | what is hard |
|---|---|---|---|
| search scheduler, `search_scheduler.go` | waiters, FIFO per reader, two levels of heaps, active counts, virtual service, history, byte and count budgets, under one mutex | `acquire`, release, `dropCommunityWith`, `stats` | contexts and timers that end while another goroutine evicts, grants or drops the call; counters at three levels kept by hand; virtual time that is corrected afterwards |
| gateway, `gateway.go` | ingress and operator slots, waiters for them | authorization in order, admission, work tracking, scheduling, execution timeout | early and deferred release of a slot; checks that are old by the time the request runs |
| community work and index lock, `search_concurrency.go` | per community a weighted semaphore and the set of cancellable work | `trackCommunityWork`, `cancelCommunityWorkWith`, `lockIndex` | cancellation against registration; FIFO lock with readers and a writer |
| index worker and query, `search_index.go`, `search.go`, `retrieval/internal/search/remote_index.go` | one SQLite file per community with its progress rows, a rebuild request | `stepIndex`, `warmOneIndex`, `query`, `requestIndexRepair` | batches whose source changes between statements; crashes inside the wipe; corrupt files; rotation |
| knowledge store, `knowledge.go` | `community.documents`, receipts, sequence and reset sequence | inventory, put, get, delete | retries by receipt, pages read while uploads commit |
| deletion workflow, `deletion_workflow.go`, `community_deletion.go`, `database/020*.sql`, `021*.sql` | session row, freeze on the community's row, cleanup rows | prepare, lock, status, cancel, verify, confirm; expiry; cleanup | a session that lapses at any moment; work that passed its check before the freeze; a restart between erasure and cleanup |
| archive stream, `community_archive.go` | position, previous position and chain in the session | `community.archive.chunk` | lost answers, replays, late requests |
| connections, `connections.go` | invitations, reader connections, used nonces | connect, leave, revoke, authorize, prune | one capacity for rows and invitations; requests that arrive after their client gave up; reads that are queued while their right ends |
| migrations, health, command | - | - | one-time or pure I/O |

### Components of the client (`retrieval/`)

| component | state | operations | what is hard |
|---|---|---|---|
| archive download, `community/archive.go`, `knowledgearchive/archive.go` | partial file, checkpoint, final file, a file lock | `DownloadArchive`, `finishArchive` | a stop between any two writes, lost answers, a session that ends meanwhile |
| upload, `community/upload.go`, `community/retry.go` | batches, idempotency keys, upload cache | `UploadKnowledge`, `call` | a batch stored although an error was seen, or stored long after its sender gave up |
| copy reconciliation, `community/reconcile.go` | bases of matching copies | `storeCopyBases`, `reconcileSources`, `resolveGroup` | answers that arrive out of order |
| connection keys, `community/connection_keys.go` | keyring, settings file | `Connect`, `disconnect` | a stop between keyring, server and file |
| local index, `internal/search/fresh.go`, `internal/indexdb` | SQLite files, a lock, leftovers | `EnsureFresh`, `SwapIndex` | a rebuilder that dies, readers during the swap |
| assistance cache, `semantic/client.go` | judgments, an epoch, daily budgets | `Evaluate`, `Purge` | a judgment that is stored after the purge |
| engine refresh, `cmd/re-search/refresh.go` | binary and its metadata | refresh | a stop between the two |
| ranking, parsing, MCP, command line | - | - | sequential, no state |

### How they interact

A request passes the gateway's authorization, is registered as work on its
community, gives its ingress slot back, waits in the scheduler and then runs one
database transaction; `query` takes the index lock for reading inside it, and
may ask the assistance cache after giving that lock back. The index worker takes
the same lock for writing, one batch per turn. A deletion freezes the row of the
community (no more work passes `library()`), cancels the registered work and
drops the queued calls, streams the archive to the operator's client, erases the
community under the index write lock and removes what was derived from it; a
worker finishes that removal after a restart.

### What makes them correct

* Scheduler: no slot is lost or given twice, the queues and heaps agree, budgets
  hold and no worker idles while somebody waits; a call has one outcome; no
  group saves up credit while idle; every call returns.
* Derived index: answers hold no deleted text and all text up to the sequence
  they claim; a half-done batch, wipe or rebuild is repaired; it catches up.
* Deletion and archive: what was erased after an archive was asked for is in the
  operator's file; a lost answer can be had again; a freeze belongs to a live
  session and ends with it.
* Removal: nothing derived from an erased community stays or comes back; no work
  goes on behind an answered lock.
* Knowledge store and upload: a batch is applied once, however often and late it
  arrives; what the project records of it is what the community has.
* Connections: capacity holds and an invitation is worth its place; a revoked key
  stays revoked and an ended right stays ended; no redeemed key is lost.
* Reconciliation: an older answer never replaces a newer agreement, and an edit
  that nobody else has seen never loses to a copy it was made from.
* Local index: an index that calls itself current is; bookkeeping outlives rebuilds.
* Gateway: every slot comes back once, and nobody waits for ever.

`PROJECT.json` lists the components with their status and every hazard with the
line where it bites and the properties that cover it.

## 2. The modules

| module | models | uses |
|---|---|---|
| `WorkerPool` | what the scheduler promises: a call is granted or refused once, at most `Slots` run | - |
| `Lists` | membership and removal in `container/list` and `container/heap` | - |
| `Scheduler` | `server/search_scheduler.go` | `Lists`; refines `WorkerPool` (`PoolSpec`) |
| `ListProofs` | lemmas about sequences without repetition, least and greatest numbers, and sums over finite sets | `Lists`, TLAPS |
| `SchedulerProofs` | theorems about `Scheduler` | `Scheduler`, `ListProofs` |
| `Library` | documents and counters of one community in PostgreSQL | - |
| `IndexLock` | `lockIndex`: the weighted semaphore of x/sync, first come, first served | `Lists` |
| `RemoteIndex` | `stepIndex`, `ApplyRemoteRecords`, `query`, `requestIndexRepair` | `Library`, `IndexLock` |
| `RemoteIndexProofs` | theorems about `RemoteIndex` and the lock under it | `RemoteIndex`, `ListProofs` |
| `Deletion` | the session, the freeze and the archive stream on the server | `Library` |
| `ArchiveDownload` | `DownloadArchive` on the client, and the network | `Deletion` |
| `ArchiveProofs` | theorems about `ArchiveDownload` and `Deletion` | `ArchiveDownload`, `ListProofs` |
| `Removal` | tracked work, its cancellation, `finishCommunityDeletion`, the cleanup | `IndexLock` |
| `RemovalProofs` | theorems about `Removal` and the lock under it | `Removal`, `ListProofs` |
| `Connections` | invitations, reader connections and their capacity in PostgreSQL | - |
| `ProjectKeys` | `Connect`, `Disconnect`, the keyring, a reading agent, late requests | `Connections` |
| `ProjectKeysProofs` | theorems about `ProjectKeys` and `Connections` | `ProjectKeys`, TLAPS |
| `CopyBases` | `copyChoice`, `resolveGroup`, `storeCopyBases` | - |
| `KnowledgeStore` | one finding in several communities, batches, receipts and their pruning | `CopyBases` |
| `LocalIndex` | `index.db`, its lock, `EnsureFresh` and `SwapIndex` | `CopyBases` |
| `ProjectCopies` | `UploadKnowledge`, `Query`, `reconcileSources`, `rememberCopies` | `KnowledgeStore`, `LocalIndex` |
| `ProjectCopiesProofs` | theorems about `ProjectCopies` and what it is composed of | `ProjectCopies`, TLAPS |
| `Gateway` | the way of a request and of the index worker through every limited resource | `IndexLock`, `WorkerPool` |
| `GatewayProofs` | the theorem about `Gateway` | `Gateway`, `ListProofs` |
| `MC...` | instances for TLC | the module of that name |

`Gateway` uses the scheduler only through `WorkerPool`, the abstract
specification that `Scheduler` is shown to implement (`PoolSpec`), and the index
lock as the module that `RemoteIndex` and `Removal` use too.

A definition named "mutant" in a comment is not part of a model: it is a
plausible mistake, kept next to the definition it would replace, and each
checked property is known to fail under one of them.

### Scheduler

Everything in the code happens under `s.mu`; `mu` says which of its two loops is
under way, so that a pass of the loop in `acquire` (`Evict`, `Reject`,
`Enqueue`) or in `dispatch` (`DispatchRun`, `DispatchDead`, `DispatchEnd`) is one
action. What takes no lock, the end of a context (`Cancel`) and of the queue
wait (`Deadline`), may come between any two of them. `phase` is where a call is:
inside `select` it is `queued`, `granted` or `refused`, depending on what others
have decided before it wakes. A heap is the sequence of its members in the order
of their `order` fields and `Pick` is `groupHeap.Less` over it. `charge`,
`service`, `estimate` and the clocks are the virtual time in milliseconds,
arbitrary small numbers here. The `history`, which keeps max(64, min(4096, `Queue` * 2))
entries for a minute each, is the set `remembered`, and `Lapse` may remove any of
it at any time.
Left out: the sums for `stats`, and the refusal of a malformed identity.

### Derived index

`pc` is the statement of `stepIndex` about to run: each SQLite statement or
transaction is an action, `Fail` and `Crash` may come between any two, and the
library may change between any two as well. The wipe after a deletion is four
statements in `WipeOrder`; `docs`/`docmeta` (`entries`) and `remote_records`
(`records`) are separate because only the order of that wipe keeps them
together. A text is identified by a document and its generation. The cursor is
compared as SQL compares the pair `(generation, id)`. A query reads progress,
reset mark, hits and records in separate statements under the read lock.
Damage comes in three kinds because the code reacts differently to each.

### Deletion and archive

Every server operation is one transaction that locks the community's row first,
so each is one action, and a request with any ticket ever issued may arrive. The
chain of a stream is a hash in the code and the sequence of chunks here.
`checked` are the uploads that have passed `library()` and not yet written:
the trigger `guard_archive_freeze` is what stops them. A repeated prepare keeps the
archive choice and the position of a row that is still there, as its `ON CONFLICT`
does, and a lapsed row is deleted first (`Prepared`). That such a row is always an
untouched preview is not assumed but a consequence of `unlockDeletion`, and the
mutant `UnlockedInPlace` shows what `ReplayExact` loses without it. On the client every write
(partial file, checkpoint, link, unlink) is an action and `Stop` may come
between any two; requests stay in `inflight` until they are handled or lost, and
an answer reaches the client only if it still waits for it.

### Removal

Processes are requests, the index worker, the confirming request and the cleanup
worker. `tracked` and `cancelled` are `searchState.work` and the contexts that
were cancelled; cancelled work may end at any step, except that a statement
under way may still be carried out (`Build`, `Store`). `current` says which
requests hold an epoch that `Purge` has not replaced. `locking` is the gap in
`deletionOperation` between the commit of the lock and
`cancelCommunityWorkWith`. Both commits may be made and their answers lost
(`LoseLock`, `LoseCommit`). A restart forgets everything but the three rows and
files (`Crash`).

### Connections and keys

`connectReader`, `manageAccess` and `community.update` lock the community's row, so
each is one action of `Connections`; leaving, expiry and pruning take no lock and
are actions of their own. A row has the ID of the connection, and `Refusal`
says what `connectReader` answers. Every statement of the two tables keeps
`Recorded` and `Held` within one capacity, `MaxRecords`.

In `ProjectKeys` the process inside `Connect` or `Disconnect` holds the project's
lock file and is a `manager`; each write (keyring, `community.json`) and each
request is an action, and `StopManager` may come between any two. A request whose
client stopped waiting is in `late` and may be served at any later moment or not
at all (`TimeOut`, `ServeLate`); one such request at a time. An `agent` reads with
the key it has loaded: it is identified on arrival, waits in the queue and is
checked again by `can_read` (`Identify`, `Execute`), and renews once when it is
told 401. A project has one key for one community: until a link is saved,
`Connect` looks a key up by the spelling of the library it was given
(`connection_keys.go` l.184-188), so a call with a slug that fails and a call with
the UUID after it may each make one, and the models have no second. Signatures,
nonces and clocks, the renewal of a lease that still runs,
the freeze of a community, a second community and links without a slug are left
out. `forgotten` is history: the keys that were deleted on purpose.

### Copies of a finding

`ProjectCopies` is one finding of one project and its copies in the linked
communities. A text is a fingerprint. `versions[c]` is what each sequence made of
the document, so a copy is a text and a sequence, and an index that is behind
answers any earlier one (`Observable`). An upload is five steps: the inventory
before the lock, the lock and the scan, agreements, the batch, the receipt;
agreements are recorded before a batch goes out, too. Paths are left open: a batch
with the text the community already has is a rename, which raises the sequence
under the same text, or is found to change nothing. A batch that is sent again or whose sender gave up stays in `late` until it is
handled or lost. A query takes the answers as they come, reads its own copy and
then the bases link by link without the lock, and remembers what all agree on
one link at a time under the lock, or not at all when somebody else holds it. A
rebuild lists the files, reads them and swaps; the user may edit between any two.
Some steps of the code are merged because nothing they read can change in
between: the answers of several communities, each of which may be of any earlier
moment, and the pages of an inventory, each item of which is true at a moment of
its own. Left out: several findings, the pause of an upload behind searches,
errors of the clocks that date a receipt, and a swap that cannot attach the old
file and goes on without its bookkeeping. A key ages only while it can still be
sent: afterwards its age is never looked at.

### Gateway

A channel is the number of its tokens. `pc` is where a request is; what is
deferred in `Handler` is `Finish`, and `Fail` takes it at any point after the
admission. `released` is the `sync.Once` of the ingress slot. `connected` is who
keeps a connection for a transaction: a query keeps one while it waits for the
index lock, and needs a second one for the transaction of `Semantic.Reserve`
(`Answer`), as the operator's statistics need one for their query; the index worker
keeps the lock while it needs one. Taking a slot and returning the waiting token
are two steps (`Admit` or `GrantStats`, then `StopWaiting`), so the queue may look
full although a place has just been given. Two sequences are merged, because what
is merged neither blocks nor holds anything else meanwhile: the deferred releases,
which run last-in first-out (`Finish`), and the transaction of `consumeProof`,
which needs the connection that `Identify` waits for and is over before anything
else is taken. What a caller
may ask for is not modelled: the sets of requests overlap, so that the action
of a request is left open until it takes a step that only one action has.

## 3. The runs

| run | instance | what it shows |
|---|---|---|
| `sched_races` | 4 calls, 2 communities, 3 readers, 1 worker, queue of 2 calls and 2 units, one call of 2 units; slot times 1 and 3 against an estimate of 2; cancellation and deadlines | slots, queues, heaps, maps and budgets stay exact through every race, each call has one outcome that is counted once (`OutcomesExact`), no group gains credit while idle, the donor of an eviction stays longer; `Scheduler` refines `WorkerPool` |
| `sched_live` | 4 calls, one of them larger than the queue, 2 communities, 1 worker, history that lapses | `EveryCallReturns` |
| `index` | 3 documents, 2 commits, batches of 2, a query, damaged schema and tables | `EntriesRecorded`, `IndexFaithful`, `AnswersExact`, `CatchesUp` |
| `index_corrupt` | 2 documents, batches of 1, damaged records | violated: see Findings |
| `archive` | 2 documents, 2 commits, 2 previews, chunks of 1, one upload at a time | `ErasedIsArchived`, `WithinReach`, `ReplayExact`, `FrozenBySession`, `FreezeEnds`, `ArchiveCompletes` |
| `archive_resume` | the same with 1 commit | violated: see Findings |
| `removal` | 1 request, the index worker, a confirmation, the cleanup worker, a lock | `RemovalComplete`, `NothingBehindTheLock`, `Alone`, `RemovalEnds` |
| `removal_rebuild` | the same | violated: see Findings |
| `keys` | 1 project whose user is the operator, 3 keys, 1 invitation, capacity 2, 2 connection IDs | `InvitationHonoured`, `RedeemedKeyKept`, `GrantsEndForGood`, `RevokedStaysOut` |
| `keys_link` | the same | violated: see Findings |
| `copies` | 2 communities, 2 texts, 1 batch key, 3 changes in all communities, 1 edit, renames by this project | `BatchOnce`, `BaseWasShared`, `LocalEditKept`, `ManifestHonest`, `BaseNeverGoesBack` |
| `gateway` | 4 requests whose action is open, the index worker, capacities of 1, 2 connections of which 1 is kept apart | `AdmissionExact`, `EveryRequestEnds` |

Each run also checks the type invariant of its module, except where another run
of the same module does; that of `Gateway` is the first conjunct of
`AdmissionExact`.

### Why these bounds

* `Requests`, four calls made once each: one runs, two fill the queue, and the
  fourth arrives at a full queue, which is the smallest state in which an
  eviction has a choice of donors (another community, another reader). Two
  communities and two readers in one of them give both levels of the heaps a
  choice. Calls of the same size are interchangeable, as are the two readers of
  one community, hence the symmetry; the liveness run uses none.
* `Durations` below and above `InitialEstimate`: a charge is corrected down and
  up.
* `Docs`, `MaxSequence`, `BatchSize` of the index: two commits are a put, and a put
  or deletion that interrupts a batch or the wipe; with batches of two out of
  three documents there is a full batch, a partial one and, with documents of one
  generation, a cursor in the middle of a generation.
* `MaxTickets` = 2: one session that ends and one that follows, whose tickets can
  be confused. The first commit may put both documents and the second change them
  between the sessions or during one. With two documents and `ChunkSize` = 1
  there is a first, a middle and an empty last chunk, so each of them is lost and
  replayed.
* One request in `removal`: requests meet each other only at the index lock, and
  nothing in this model depends on how many readers hold it. The deletion may
  be confirmed repeatedly and the community frozen and reopened without bound.
* One project in `keys`: the key it has forgotten and the key it makes next stand
  for two projects, since requests of the old one are still on their way.
  `MaxRecords` = 2 is an invitation beside a connection or tombstone, and two
  connections or tombstones that leave an invitation no room. Of the 3 keys the third is the one
  made while a tombstone and a late request hold the others. The theorems have
  no such bounds.
* Two communities in `copies`: an agreement with one and a change in the other is
  the case in which a copy could be taken for a successor. Three changes are the
  project's text, another text and the first again, or its removal; one batch
  key is enough for a batch that arrives twice, and other projects write without
  one. `OthersRename` is FALSE: this project's own batches may be renames, those of
  other projects are not, which keeps the run at 1.9 million states; with TRUE it
  has 3.1 million and the properties hold, too. The theorems have no such bounds
  either, and cover both values of `OthersRename`.
* Capacities of 1 in `gateway`: every channel is full as soon as one request is
  in it. Two connections, one of which searches may not take, stand for a pool
  of any size with the four that `CurrentSearchBudget` keeps apart.
* Counters are bounded by the number of calls (`counts`), of commits
  (`MaxSequence`), of previews (`MaxTickets`), of connection IDs
  (`MaxConnections`), of changes (`MaxChanges`) and of edits (`MaxEdits`); these
  and `OthersRename` are the only bounds that guards of the modules mention.

`CHECK_DEADLOCK FALSE` stands where the system may really come to rest: after a
community is erased or its last ticket used (archive), when a project has
nothing to connect or no change is left to make (keys, copies), and when all
requests are answered and the worker sleeps (gateway).

### Fairness

* `Scheduler`: the lines of `acquire` and `dispatch` that run under the lock go on
  by themselves (weak). `Wake` and `Release` have to get a mutex that others keep
  taking; Go's mutex hands itself to a waiter that has starved for a
  millisecond, hence strong fairness. That a granted call releases at all is
  the execution timeout around every operation (`gateway.go` l.289). The timer
  and the context of a waiter are given no fairness: calls return without them.
* `RemoteIndex`: the worker is a loop in a goroutine of its own, a request that
  has begun goes on (weak). In `QueriedSpec` readers also come again: only a
  query notices a damaged file.
* `ArchiveDownload`: the cleanup worker runs every five seconds, and what has
  arrived is handled. `FreezeEnds` also needs that an hour passes, and holds for
  an operator who has gone away; `ArchiveCompletes` needs a client that calls
  again and a session that does not lapse between its calls. Both are premises
  in the properties, not assumptions of the model.
* `Removal`: each process goes on by itself; nobody has to come, to lock or to
  confirm. `RemovalEnds` has one premise, that from some moment on the passes of
  the cleanup worker do not fail and the server is not restarted.
* `Gateway`: a request that has arrived and the index worker do what is possible
  (weak); no timer has to fire and no context has to end, and `Fail`, `IndexerFails`
  and `AdmissionExpires` get no fairness. So `EveryRequestEnds` says that no
  deadline is needed to break a circle of waiting.
* `ProjectKeys` and `ProjectCopies` state no fairness: their users and networks owe
  nobody a step, and no liveness is claimed.

## 4. Findings

* `index_corrupt`. `server/docs/search-scheduling.md` l.122 promises that a
  corrupt index is rebuilt and that readers get a retryable 503 until then.
  Damage that only the record reads of `query` (l.96-99, l.123) or
  `ApplyRemoteRecords` meet is reported as a plain error and requests no
  rebuild, so it stays.
* `archive_resume`. `skills/community/references/operations.md` l.29 calls the
  download resumable. `DownloadArchive` creates the partial file before its
  first checkpoint; a stop between the two leaves a file that every later call
  at that path refuses as unrelated.
* `removal_rebuild`. The comment of `finishCommunityDeletion` (l.61) says that no
  snapshot is rebuilt after the parent row is removed because the row is checked
  again under the lock. `stepIndex` checks it before the lock only. When the
  answers to the commits of the lock or the deletion are late or lost, a waiting
  worker builds the directory of a removed community once more.
  `RemovalComplete` shows that it does not stay: the cleanup row outlives it.
* `keys_link`. `server/docs/connections.md` l.70 says that a disconnect while offline
  deletes the local key and link. `disconnect` (`connection_keys.go` l.324) refuses
  a key that is not bound to the community. A project whose key was deleted from
  the keyring and whose next `Connect` fails has such a key, saved before the
  first request (l.199), and its link stays until a `Connect` succeeds.

## 5. What is proved

`SchedulerProofs` proves, for every number of calls, communities, readers and
workers and any budgets, from `SchedulerAssumption` alone:

| theorem | property |
|---|---|
| `TypeCorrect` | `Spec => []TypeOK` |
| `SlotsCorrect` | `Spec => []SlotsExact` |
| `QueuesCorrect` | `Spec => []QueuesExact` |
| `IndexesCorrect` | `Spec => []IndexesExact` |
| `BudgetHolds` | `Spec => []BudgetUsed` |
| `CreditHolds` | `Spec => []NoIdleCredit` |
| `OutcomesCorrect` | `Spec => []OutcomesExact` |
| `DonorsStayLonger` | `Spec => DonorStaysLonger` |
| `ImplementsPool` | `Spec => PoolSpec` |

The inductive invariant of the first four is their conjunction. None is inductive alone:
the counters stay natural numbers (`TypeOK`) only because each decrement is
made for a call that was counted (`SlotsExact`, `QueuesExact`); a dispatch finds
a waiter at the head of the queue it picks only because the heaps hold exactly
the groups with waiters (`IndexesExact`); and the heaps stay so only because
emptiness of a queue and of a count agree (`QueuesExact`). The proof has one
lemma per action and part of the invariant, lemmas about removal from a
sequence (`Without`), about picking the least member of a heap and about counts
of sets that gain or lose one call, and frame lemmas for what an action leaves
alone; `InvariantHolds` puts them together.

The others build on that invariant, each with one of its own. `BudgetInv` ties
`waitingBytes` to the sum over the queued calls (the lemmas about sums are in
`ListProofs`) and says that all workers are taken when the dispatch loop is over
and somebody waits. `CreditInv` is stated per level: a
dispatch raises the clock of a level to the service of the group whose turn it is, and
an idle group with waiters has at least that, or the turn would have been its own;
`finish` and `restore` never set a service below the clock. `AdmitInv`: one call at a time is between its estimate
and its place in the queue, so what `Evict` compares is what there is.
`OutcomeInv`: a channel is closed once a call has been told its outcome
(`Told`) and never before, and the counters of `stats` sum to the calls that are
`Over`. `ImplementsPool` shows by cases over `Next` that each step submits, grants,
refuses or gives back in the abstract state `PoolState`, or leaves it alone; the
one step that refuses many calls is `dropCommunityWith` (`PoolRefuses`).

`RemovalProofs` proves, for every set of requests, from `LockAssumption` and
`RemovalAssumption` (readers are not writers, and the three writers differ):

| theorem | property |
|---|---|
| `Complete` | `Spec => []RemovalComplete` |
| `LockedIsQuiet` | `Spec => []NothingBehindTheLock` |
| `RemovesAlone` | `Spec => []Alone` |
| `Typed` | `Spec => []TypeOK` |

The invariant `IInv` has four parts. `LockInv`: a writer holds the lock alone and
whoever is past `lockIndex` holds it; a release may let in several waiters, and
`FirstExclusive` shows that none of them is a writer beside others. `WorkInv`:
exactly the processes past `trackCommunityWork` are registered, which is what
makes `cancelCommunityWorkWith` reach all of them (`CancelQuiets`). `SealInv`:
an answered lock leaves the community `Quiet`, every process that found it
open being cancelled. `RemoveInv` says how far a removal has got (`Gone`) and what
it leaves behind (`Over`). The argument: while the community is not open nobody
finds it open, so `Quiet` lasts; cancelled work neither enters the index nor
reads an epoch, and the worker that is inside already cannot be beside a
remover; so each step of `finishCommunityDeletion` adds a fact that no other
process undoes, and `SettleRow` removes the cleanup row with all of them
established. What tracked work may do at all is said once (`Move`), and what a
remover may do once (`Remove`); each action is shown to be one of the two or to
change only the lock of the session (`SealKeeps`). `Typed` needs `SeatInv` as well:
whoever is inside the semaphore, holding or waiting, is at a step that gives its
place back, so nobody waits twice or for what he holds.

`RemoteIndexProofs` proves, for every set of documents, readers and damages and every
batch size, from the assumptions of `Library`, `IndexLock` and `RemoteIndex`:

| theorem | property |
|---|---|
| `Typed` | `Spec => []TypeOK` |
| `Recorded` | `Spec => []EntriesRecorded` |
| `NeverStale` | `Spec => []IndexFaithful` |
| `OneVersion` | `Spec => []AnswersExact` |

The notion in the middle is `Behind(R)`: the index has not seen the deletion at
`R`, which is what both `stepIndex` and `query` test. `WipeInv` says how far the
four statements of the wipe have got and that the index stays behind until they
reach the progress; `TornInv`, that a record without its row exists only in an
index that is behind, so a crash inside the wipe is noticed by the next job. A
job goes by a library that was: since then nothing was deleted or the deletion is
past its target (`JobInv`), so what a batch leaves out is behind the saved cursor
(`BatchInv`) and the cursor covers what it claims (`Covers`, `SaveInv`).
`OneVersion` adds what each query has read so far (`Reading`), which the read
lock keeps true; `LockInv` and `PlaceInv` say that the worker is inside it
alone. Damaged tables stay in the invariant as an exception: their progress may read
as absent without an error, and then the transactions of the job fail instead.

`ArchiveProofs` proves, for every library, chunk size and number of previews, from
the assumptions of `Library` and `Deletion`:

| theorem | property |
|---|---|
| `Typed` | `Spec => []TypeOK` |
| `ErasedArchived` | `Spec => []ErasedIsArchived` |
| `Reach` | `Spec => []WithinReach` |
| `Replays` | `Spec => []ReplayExact` |
| `Frozen` | `Spec => []FrozenBySession` |

A position of the stream is `Streamed` when its chain carries exactly the rows it is
past (`Reached`) and counts each once; `ChunkFacts` shows that the next chunk keeps
that. `SessionInv` and `StreamInv` say that an open session is that of the last
ticket and froze its rows, and that the two positions it keeps are one chunk apart.
On the client `DiskInv` relates each checkpoint to its partial and its finished file,
and `CallInv` the step of a call to both. `ReachInv` and `RequestInv` connect the
two sides over a network that loses and delays: no request for the last session is
ahead of its checkpoint, and a request to verify has a complete file behind it.
That is why `confirm` finds in the file what it erases (`Filed`).

`GatewayProofs` proves, for any number of requests, from `GatewayAssumption` and
`LockAssumption`:

| theorem | property |
|---|---|
| `AdmissionHolds` | `Spec => []AdmissionExact`, with `TypeOK` |

Each channel is counted by the requests at the steps that hold it (`At`, `Owing`);
a waiting token also by whoever has its slot and has not returned the token yet.
A step of a request changes its own membership only (`CountMoves`), so each action
is shown to move every counter as it moves the request (`Passes`). Of the ingress
slot there is more to say: a request owes it from its admission until `ingressOnce`
has run (`SlotGivenBack`), and whoever is not admitted yet has not released. As in
`Removal`, `SeatInv` says that a process inside the index lock is at a step that
leaves it, here with `Finish` as the step that leaves from anywhere.

`ProjectKeysProofs` proves, for every set of projects and operators and any finite
sets of keys and invitations, from `ConnectionsAssumption` and
`ProjectKeysAssumption`:

| theorem | property |
|---|---|
| `Bounded` | `Spec => []TypeOK`, with the capacity |
| `Honoured` | `Spec => []InvitationHonoured` |
| `KeysKept` | `Spec => []RedeemedKeyKept` |
| `StayOut` | `Spec => RevokedStaysOut` |
| `EndForGood` | `Spec => GrantsEndForGood` |

The invariant is `ServiceInv`, `ClientInv` and `Recorded \subseteq Known`. `ServiceInv`
adds to the types that an ID belongs to one key (`Ids`) and that a private
community has no public connection that is not revoked (`Withheld`): the first is
why an ended ID cannot become somebody else's, the second why a community that
becomes public again gives nobody a right back. `KeyInv` says that every key in
use somewhere, also in a request that is late, is in a keyring or was deleted on
purpose; since only such keys can be connected, the service knows no other.
`OpenFits` is the reason for `InvitationHonoured`: the place of an open invitation
is counted already, so exchanging it for a row never exceeds the capacity.

`ProjectCopiesProofs` proves, for any finite number of communities and any texts,
batches and bounds, from the four assumptions of the modules it extends:

| theorem | property |
|---|---|
| `TypeCorrect` | `Spec => []TypeOK` |
| `BatchCountsOnce` | `Spec => []BatchOnce` |
| `BasesWereShared` | `Spec => []BaseWasShared` |
| `BasesOnlyAdvance` | `Spec => BaseNeverGoesBack` |
| `UnseenEditsWin` | `Spec => []LocalEditKept` |
| `IndexIsHonest` | `Spec => []ManifestHonest` |

The central notion is `Shared`: a copy is what the community had at that sequence,
or none. Histories only grow (`Grows`), so what is shared stays shared
(`SharedLasts`), and every copy a project can hold, listed, answered, observed or
as a base, is shared when it comes (`CurrentShared`, `PutKeeps`, `ObservableShared`).
`BatchOnce` needs `KeysUsed`: a key that changed something has its receipt or is too
old, and receipts go only when their key is; and `BatchInv`: a key is sent to one
community, so a receipt found on a retry is a copy of the right one. For
`UnseenEditsWin`, `WinnerMoved` derives from `resolveGroup` that the winner's link
has the local text as its base and is not behind it; both are shared and
differ, so the base is the older. `IndexIsHonest` rests on `BuildInv`: a rebuild
whose manifest still fits the file has read the file's text.

Every invariant that a run checks is proved. Model-checked only:

* liveness under fairness (`EveryCallReturns`, `CatchesUp`, `FreezeEnds`,
  `ArchiveCompletes`, `RemovalEnds`, `EveryRequestEnds`): fairness rests on `ENABLED`,
  which these provers do not reason about;
* the four properties of the findings, which do not hold.

Inductions that proofs need, such as those about sums and about serving waiters one
by one, are made with a least counterexample (`LeastNatural`, `FS_...`
well-founded orders), because a theorem with an operator as its parameter cannot be
instantiated.

## 6. Plan

Done: the scheduler (first, because every search passes it), the derived index,
deletion with its archive, removal, connections, copies and uploads, the gateway, and
the proofs of their invariants and action properties. What remains, in this order:

1. Action properties and their proofs that follow from the invariants already there: the
   order of dispatch (the least group is served), a session's ticket that never
   comes back, the cursor of the index that only advances between wipes.
2. The safety half of the liveness properties: that the premise of each wait
   (a queued call, a waiter of the lock, a frozen community) always has a step of
   somebody else that ends it.
3. The lemmas about `IndexLock` are needed by three proof modules, in each with the
   invariant of its own; they could be stated once about the lock alone.

Models that could still be added: the rotation of `warmOneIndex` and the passes of
the cleanup worker over several communities.

## 7. What is not modelled, and why

* Rotation. `warmOneIndex` (`search_index.go` l.138) returns at the first community
  whose step fails and keeps its place; `expireDeletionSessions` and
  `cleanDeletedCommunities` stop at the first failure. `RemoteIndex`, `Deletion` and
  `Removal` have one community, so what a failing one does to the others is not
  in them. The same goes for the one unfinished archive of a service
  (`021_archive_deletion.sql` l.14).
* Proofs, nonces and leases: windows of minutes and days that are compared with two
  clocks; a model would compare the numbers it was given.
* Engine refresh: one process, two files, no knowledge in them. A stop between the
  binary and its metadata lets an older session put its own binary back.
* Ranking, tokenizing, front matter and projections compute on text without state;
  the queries of the models return all entries.
* Migrations, health files, build scripts and the command line are I/O without
  concurrency.
* Limits of sizes and rates (quotas, pacing of archive chunks, provider budgets, the
  pause of uploads behind waiting searches) are data no property depends on.

Within the modelled components `PROJECT.json` says for each what is left out, and
lists the few hazards that no property covers with the reason.
