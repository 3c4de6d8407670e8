------------------------------ MODULE Gateway ------------------------------
(***************************************************************************)
(* The way of a request through the server (Handler of server/gateway.go): *)
(* the ingress slots, the separate slots for statistics, the worker pools, *)
(* the connections to PostgreSQL and the lock of the community's index,    *)
(* which the index worker wants as well. The search scheduler is what      *)
(* WorkerPool promises; what a request is allowed to do is not decided     *)
(* here. A channel is the number of its tokens: receiving from an empty    *)
(* one blocks.                                                             *)
(*                                                                         *)
(* Readers (IndexLock) are the requests that may go through the scheduler; *)
(* a request is in several of the sets when its action is left open.       *)
(***************************************************************************)
EXTENDS IndexLock

CONSTANTS Indexer,         \* runIndexWorker, the one writer of the index here
          Uploads,         \* knowledge.put and knowledge.delete
          Statistics,      \* community.stats
          Others,          \* what keeps its ingress slot to the end
          Operator,        \* the requests that carry the operator's token
          Ingress,         \* capacity of requestSlots
          OperatorIngress, \* capacity of operatorSlots
          Waiting,         \* capacity of ingressWaiters
          StatsWorkers,    \* capacity of statsSlots
          StatsWaiting,    \* capacity of statsWaiters
          UploadWorkers,
          DBConnections,   \* the size of the pool
          Spare            \* connections kept apart from the searches

Requests == Readers \cup Uploads \cup Statistics \cup Others

ASSUME GatewayAssumption ==
    /\ Writers = {Indexer} /\ Indexer \notin Requests
    /\ Uploads \subseteq Operator /\ Operator \subseteq Requests
    /\ \A n \in {Ingress, OperatorIngress, Waiting, StatsWorkers, StatsWaiting,
                 UploadWorkers, DBConnections} : n \in Nat \ {0}
    /\ Spare \in Nat

VARIABLES
  pc,              \* where a request or the index worker is
  slots,           \* [Classes -> Nat]: requestSlots and operatorSlots
  ingressWaiters, statsSlots, statsWaiters,
  released,        \* the requests whose ingressOnce has run
  pool,            \* the state of WorkerPool
  connected        \* who keeps a connection over several statements

channels == <<slots, ingressWaiters, statsSlots, statsWaiters, released>>
vars == <<lockVars, channels, pc, pool, connected>>

Classes == {"reader", "operator"}
Class(r) == IF r \in Operator THEN "operator" ELSE "reader"
Capacity == [c \in Classes |-> IF c = "operator" THEN OperatorIngress ELSE Ingress]

\* Mutant: the searches may take every connection.
AllConnections == DBConnections

\* CurrentSearchBudget
Workers == Max({1, DBConnections - Spare})

Scheduler == INSTANCE WorkerPool WITH Calls <- Readers, Slots <- Workers, state <- pool

Waits == {"ingress", "stats", "queued", "upload"}
RequestSteps == Waits \cup {"new", "acquired", "admitted", "granted", "metadata", "measured",
                            "identified", "begin", "inside", "locking", "reading",
                            "asking", "done"}

TypeOK ==
    /\ LockTypeOK
    /\ pc \in [Requests \cup Writers -> RequestSteps \cup {"rest", "writing"}]
    /\ slots \in [Classes -> Nat] /\ \A c \in Classes : slots[c] <= Capacity[c]
    /\ ingressWaiters \in 0..Waiting
    /\ statsSlots \in 0..StatsWorkers /\ statsWaiters \in 0..StatsWaiting
    /\ released \in SUBSET Requests
    /\ Scheduler!PoolTypeOK
    /\ connected \in SUBSET Requests /\ Cardinality(connected) <= DBConnections

Init ==
    /\ LockInit /\ Scheduler!Init
    /\ pc = [p \in Requests \cup Writers |-> IF p = Indexer THEN "rest" ELSE "new"]
    /\ slots = [c \in Classes |-> 0]
    /\ ingressWaiters = 0 /\ statsSlots = 0 /\ statsWaiters = 0
    /\ released = {} /\ connected = {}

Go(p, step) == pc' = [pc EXCEPT ![p] = step]

\* A statement outside of a transaction takes a connection and returns it.
ConnectionFree == Cardinality(connected) < DBConnections

-----------------------------------------------------------------------------
(* Ingress *)

SlotFree(r) == slots[Class(r)] < Capacity[Class(r)]
TakeSlot(r) == slots' = [slots EXCEPT ![Class(r)] = @ + 1]

\* Mutant: ingressOnce is missing.
ReceiveAgain(r) ==
    /\ slots[Class(r)] > 0
    /\ slots' = [slots EXCEPT ![Class(r)] = @ - 1]
    /\ released' = released \cup {r}

ReleaseIngress(r) ==
    IF r \in released THEN UNCHANGED <<slots, released>>
    ELSE /\ slots[Class(r)] > 0
         /\ slots' = [slots EXCEPT ![Class(r)] = @ - 1]
         /\ released' = released \cup {r}

RoomToWait == ingressWaiters < Waiting

\* A full service answers 503 at once.
Arrive(r) ==
    /\ pc[r] = "new"
    /\ \/ SlotFree(r) /\ TakeSlot(r) /\ Go(r, "admitted") /\ UNCHANGED ingressWaiters
       \/ ~SlotFree(r) /\ RoomToWait /\ ingressWaiters' = ingressWaiters + 1
                       /\ Go(r, "ingress") /\ UNCHANGED slots
       \/ ~SlotFree(r) /\ ~RoomToWait /\ Go(r, "done") /\ UNCHANGED <<slots, ingressWaiters>>
    /\ UNCHANGED <<lockVars, statsSlots, statsWaiters, released, pool, connected>>

Admit(r) ==
    /\ pc[r] = "ingress" /\ SlotFree(r)
    /\ TakeSlot(r)
    /\ Go(r, "acquired")
    /\ UNCHANGED <<lockVars, ingressWaiters, statsSlots, statsWaiters, released, pool, connected>>

\* Whoever has got a slot still counts among the waiting until it has taken its
\* token back.
StopWaiting(r) ==
    /\ \/ /\ pc[r] = "acquired" /\ Go(r, "admitted")
          /\ ingressWaiters' = ingressWaiters - 1 /\ UNCHANGED statsWaiters
       \/ /\ pc[r] = "granted" /\ Go(r, "metadata")
          /\ statsWaiters' = statsWaiters - 1 /\ UNCHANGED ingressWaiters
    /\ UNCHANGED <<lockVars, slots, statsSlots, released, pool, connected>>

\* The timer of a second, or the caller has gone.
AdmissionExpires(r) ==
    /\ pc[r] = "ingress"
    /\ ingressWaiters' = ingressWaiters - 1
    /\ Go(r, "done")
    /\ UNCHANGED <<lockVars, slots, statsSlots, statsWaiters, released, pool, connected>>

-----------------------------------------------------------------------------
(* The end of an admitted request: whatever was deferred. *)

HasStats(r) == pc[r] \in {"granted", "metadata", "measured"}

Finish(r) ==
    /\ ReleaseIngress(r)
    /\ statsSlots' = statsSlots - (IF HasStats(r) THEN 1 ELSE 0)
    /\ statsWaiters' = statsWaiters - (IF pc[r] = "stats" THEN 1 ELSE 0)
    /\ pool' = IF r \in Readers /\ pool[r] # "idle" THEN [pool EXCEPT ![r] = "ended"] ELSE pool
    /\ connected' = connected \ {r}
    /\ IF r \in holders \/ \E i \in DOMAIN waiters : waiters[i] = r
       THEN Unlock(r) ELSE UNCHANGED lockVars
    /\ Go(r, "done")
    /\ UNCHANGED ingressWaiters

\* A refusal, an error, or the end of the request's context, which nothing
\* looks at between a slot and the waiting token.
Fail(r) ==
    /\ pc[r] \notin {"new", "ingress", "acquired", "granted", "done"}
    /\ Finish(r)

-----------------------------------------------------------------------------
(* Statistics, identity *)

\* admitStats after the ingress slot has been given back.
AdmitStats(r) ==
    /\ pc[r] = "admitted" /\ r \in Statistics
    /\ \/ /\ statsSlots < StatsWorkers
          /\ ReleaseIngress(r)
          /\ statsSlots' = statsSlots + 1 /\ UNCHANGED statsWaiters
          /\ Go(r, "metadata")
          /\ UNCHANGED <<lockVars, ingressWaiters, pool, connected>>
       \/ /\ statsSlots = StatsWorkers /\ statsWaiters < StatsWaiting
          /\ ReleaseIngress(r)
          /\ statsWaiters' = statsWaiters + 1 /\ UNCHANGED statsSlots
          /\ Go(r, "stats")
          /\ UNCHANGED <<lockVars, ingressWaiters, pool, connected>>
       \/ /\ statsSlots = StatsWorkers /\ statsWaiters = StatsWaiting
          /\ Finish(r)

GrantStats(r) ==
    /\ pc[r] = "stats" /\ statsSlots < StatsWorkers
    /\ statsSlots' = statsSlots + 1
    /\ Go(r, "granted")
    /\ UNCHANGED <<lockVars, slots, ingressWaiters, statsWaiters, released, pool, connected>>

\* readerIdentity and consumeProof, or library() for the operator.
Identify(r) ==
    /\ \/ pc[r] = "metadata" /\ Go(r, "measured")
       \/ pc[r] = "admitted" /\ r \in Readers \cup Uploads \cup Others /\ Go(r, "identified")
    /\ ConnectionFree
    /\ UNCHANGED <<lockVars, channels, pool, connected>>

-----------------------------------------------------------------------------
(* The queues and the operation *)

\* Waiting searches hold neither an ingress slot nor a DB connection.
Enqueue(r) ==
    /\ pc[r] = "identified"
    /\ ReleaseIngress(r)
    /\ \/ r \in Readers /\ Scheduler!Submit(r) /\ Go(r, "queued")
       \/ r \in Uploads /\ Go(r, "upload") /\ UNCHANGED pool
    /\ UNCHANGED <<lockVars, ingressWaiters, statsSlots, statsWaiters, connected>>

\* A reading upload that the search scheduler has let in is none of these.
Uploading == {u \in Uploads \cap released :
                /\ pc[u] \in {"begin", "inside"}
                /\ u \in Readers => pool[u] = "idle"}

Dispatch(r) ==
    /\ \/ pc[r] = "queued" /\ Scheduler!Grant(r)
       \/ pc[r] = "upload" /\ Cardinality(Uploading) < UploadWorkers /\ UNCHANGED pool
       \/ pc[r] = "identified" /\ r \in Others /\ UNCHANGED pool
    /\ Go(r, "begin")
    /\ UNCHANGED <<lockVars, channels, connected>>

Begin(r) ==
    /\ pc[r] = "begin" /\ ConnectionFree
    /\ connected' = connected \cup {r}
    /\ Go(r, "inside")
    /\ UNCHANGED <<lockVars, channels, pool>>

\* A query; knowledge.get and community.get do without the index.
LockIndex(r) ==
    /\ pc[r] = "inside" /\ r \in Readers /\ pool[r] = "running"
    /\ Lock(r)
    /\ Go(r, "locking")
    /\ UNCHANGED <<channels, pool, connected>>

Granted(r) ==
    /\ pc[r] = "locking" /\ r \in holders
    /\ Go(r, "reading")
    /\ UNCHANGED <<lockVars, channels, pool, connected>>

\* The index is read and unlocked, and the model is asked; the transaction
\* stays open.
Read(r) ==
    /\ pc[r] = "reading"
    /\ Unlock(r)
    /\ Go(r, "asking")
    /\ UNCHANGED <<channels, pool, connected>>

\* Reserve begins a transaction of its own beside that of the request. The
\* numbers of a reader's community came with its identity; those of the
\* operator's are queried.
Answer(r) ==
    /\ \/ pc[r] = "asking" /\ ConnectionFree
       \/ pc[r] = "measured" /\ (r \in Operator => ConnectionFree)
       \/ pc[r] \in {"inside", "reading"}
    /\ Finish(r)

Step(r) ==
    \/ Admit(r) \/ StopWaiting(r) \/ AdmitStats(r) \/ GrantStats(r) \/ Identify(r) \/ Enqueue(r)
    \/ Dispatch(r) \/ Begin(r) \/ LockIndex(r) \/ Granted(r) \/ Read(r) \/ Answer(r)

-----------------------------------------------------------------------------
(* The index worker *)

\* The row of the community, then the lock.
StepIndex ==
    /\ pc[Indexer] = "rest" /\ ConnectionFree
    /\ Lock(Indexer)
    /\ Go(Indexer, "locking")
    /\ UNCHANGED <<channels, pool, connected>>

IndexerGranted ==
    /\ pc[Indexer] = "locking" /\ Indexer \in holders
    /\ Go(Indexer, "writing")
    /\ UNCHANGED <<lockVars, channels, pool, connected>>

\* The documents are read while the lock is held.
WriteIndex ==
    /\ pc[Indexer] = "writing" /\ ConnectionFree
    /\ Unlock(Indexer)
    /\ Go(Indexer, "rest")
    /\ UNCHANGED <<channels, pool, connected>>

\* Its five seconds are over.
IndexerFails ==
    /\ pc[Indexer] # "rest"
    /\ Unlock(Indexer)
    /\ Go(Indexer, "rest")
    /\ UNCHANGED <<channels, pool, connected>>

Index == StepIndex \/ IndexerGranted \/ WriteIndex

Next ==
    \/ \E r \in Requests : Arrive(r) \/ Step(r) \/ AdmissionExpires(r) \/ Fail(r)
    \/ Index \/ IndexerFails

Spec == Init /\ [][Next]_vars

\* What is possible is done, but no deadline has to pass.
FairSpec ==
    /\ Spec
    /\ \A r \in Requests : WF_vars(Step(r))
    /\ WF_vars(Index)

-----------------------------------------------------------------------------
\* The state is well formed, no channel holds more than its capacity, and
\* every token of the channels belongs to one request that is where it should
\* hold it, however the request went on: none is lost when a wait ends by its
\* timer, and none is given back twice by the early and the deferred release.
AdmissionExact ==
    /\ TypeOK
    /\ \A c \in Classes : slots[c] = Cardinality({r \in Requests \ released :
          Class(r) = c /\ pc[r] \notin {"new", "ingress", "done"}})
    /\ ingressWaiters = Cardinality({r \in Requests : pc[r] \in {"ingress", "acquired"}})
    /\ statsSlots = Cardinality({r \in Requests : HasStats(r)})
    /\ statsWaiters = Cardinality({r \in Requests : pc[r] \in {"stats", "granted"}})

\* Searches keep a connection while they wait for the index lock and while
\* they reserve a judgment, and the index worker keeps the lock while it needs
\* a connection. They never wait on each other: whoever came is answered and
\* the worker gets through, without any deadline having to break the circle
\* (search_budget.go l.52, docs/search-scheduling.md l.44).
EveryRequestEnds == \A r \in Requests : pc[r] # "new" ~> pc[r] = "done"
=============================================================================
