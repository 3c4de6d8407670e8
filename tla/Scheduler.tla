----------------------------- MODULE Scheduler -----------------------------
(***************************************************************************)
(* searchScheduler of server/search_scheduler.go: the two-level cost-aware *)
(* queue in front of the search workers (and, with its own budget, of the  *)
(* uploads). Communities share the workers; the reader connections of a    *)
(* community share its turns; each reader has a FIFO.                      *)
(*                                                                         *)
(* Every critical section of the code runs under s.mu. `mu' says which of  *)
(* the two loops of such a section is under way: the admission loop of     *)
(* acquire ("admitting") or the loop of dispatch ("dispatching"). A pass   *)
(* of a loop is one action; nothing else that takes the lock is enabled    *)
(* until the section ends, but contexts may end and deadlines may pass.    *)
(***************************************************************************)
EXTENDS Lists, FiniteSets

CONSTANTS Requests,         \* calls of acquire, each made once
          Communities,      \* verified community UUIDs
          Readers,          \* verified reader connection IDs
          Owners,           \* the pairs of a community and a connection to it
          NoReader,         \* the empty reader of a community's historyKey
          Workers,          \* SearchBudget.Workers
          Queue,            \* SearchBudget.Queue
          QueueBytes,       \* SearchBudget.QueueBytes
          Bytes,            \* [Requests -> Nat]: searchWaiter.bytes
          InitialEstimate,  \* the 50 ms estimate of a new group
          Durations,        \* observed slot times; finish counts at least one
          Cancellable,      \* requests whose context may end early
          Expiring,         \* requests whose QueueWait may pass while they wait
          HistoryLapses     \* whether entries of s.history expire in this instance

ASSUME SchedulerAssumption ==
    /\ IsFiniteSet(Requests)
    /\ NoReader \notin Readers
    /\ Owners \subseteq Communities \X Readers
    /\ Workers \in Nat \ {0}
    /\ Queue \in Nat
    /\ QueueBytes \in Nat
    /\ Bytes \in [Requests -> Nat \ {0}]
    /\ InitialEstimate \in Nat \ {0}
    /\ Durations \subseteq Nat \ {0}
    /\ Cancellable \subseteq Requests
    /\ Expiring \subseteq Requests
    /\ HistoryLapses \in BOOLEAN

Group(c) == <<c, NoReader>>                \* historyKey{community: c}
NoOwner == <<NoReader, NoReader>>          \* of a request that is not in a call
Keys == Owners \cup {Group(c) : c \in Communities}

VARIABLES
  \* The calls of acquire.
  phase,         \* where each call is, see Phases
  owner,         \* the community and reader a call was made for
  cancelled,     \* calls whose ctx has ended while that still matters
  late,          \* queued calls whose deadline has passed
  closed,        \* how often close(w.ready) ran
  charge,        \* w.charged and w.readerCharged of a running call
  \* The queues and the heaps. A heap is the sequence of its members in the
  \* order of their `order' fields, which breaks ties.
  queue,         \* [Owners -> Seq(Requests)]: reader.queue
  ready,         \* s.ready, a sequence of community keys
  groupReady,    \* [Communities -> Seq(Owners)]: g.ready
  \* The groups: s.groups, g.readers and what s.history keeps of the others.
  live,          \* the keys of s.groups and of every g.readers
  remembered,    \* the keys of s.history younger than a minute
  discard,       \* the live communities whose discardHistory is set
  active,        \* [Keys -> Nat]: g.active
  waiting,       \* [Communities -> Nat]: g.waiting
  service,       \* [Keys -> Nat]: virtual service, of live and remembered keys
  estimate,      \* [Keys -> Nat]: the cost estimate, of the same keys
  groupClock,    \* [Communities -> Nat]: g.clock, of the same communities
  \* The scheduler's own counters.
  sActive, sWaiting, waitingBytes, clock,
  counts,        \* completed, rejected, expired, cancelled
  mu             \* the critical section under way

callVars == <<phase, owner, cancelled, late, closed, charge>>
queueVars == <<queue, ready, groupReady, waiting, sWaiting, waitingBytes>>
groupVars == <<live, remembered, discard>>
costVars == <<service, estimate, groupClock, clock>>
slotVars == <<active, sActive>>
vars == <<callVars, queueVars, groupVars, costVars, slotVars, counts, mu>>

\* idle: not called yet.  admitting: inside the admission loop.  queued: in the
\* select, element # nil.  granted: in the select, running = TRUE.  refused: in
\* the select, err # nil.  holding: acquire returned its release function.
\* releasing: acquire saw the cancellation after the grant and calls release.
Phases == {"idle", "admitting", "queued", "granted", "refused",
           "holding", "releasing", "done"}

Queued == {w \in Requests : phase[w] = "queued"}
Running == {w \in Requests : phase[w] \in {"granted", "holding", "releasing"}}
TotalBytes(S) == SumFunctionOnSet(Bytes, S)
Of(S, k) == {w \in S : owner[w] = k}
OfGroup(S, c) == {w \in S : owner[w][1] = c}

\* BudgetUsed says what waitingBytes is: the sum of the bytes that wait.
TypeOK ==
    /\ phase \in [Requests -> Phases]
    /\ owner \in [Requests -> Owners \cup {NoOwner}]
    /\ \A w \in Requests : phase[w] \notin {"idle", "done"} => owner[w] \in Owners
    /\ cancelled \subseteq Requests
    /\ late \subseteq Requests
    /\ closed \in [Requests -> Nat]
    /\ charge \in [Requests -> Nat \X Nat]
    /\ queue \in [Owners -> Seq(Requests)]
    /\ ready \in Seq(Keys)
    /\ groupReady \in [Communities -> Seq(Owners)]
    /\ live \subseteq Keys
    /\ remembered \subseteq Keys
    /\ discard \subseteq Communities
    /\ active \in [Keys -> Nat]
    /\ waiting \in [Communities -> Nat]
    /\ service \in [Keys -> Nat]
    /\ estimate \in [Keys -> Nat]
    /\ groupClock \in [Communities -> Nat]
    /\ sActive \in Nat /\ sWaiting \in Nat /\ clock \in Nat
    /\ counts \in [{"completed", "rejected", "expired", "cancelled"} -> Nat]
    /\ mu \in {"free", "admitting", "dispatching"}

Init ==
    /\ phase = [w \in Requests |-> "idle"]
    /\ owner = [w \in Requests |-> NoOwner]
    /\ cancelled = {} /\ late = {}
    /\ closed = [w \in Requests |-> 0]
    /\ charge = [w \in Requests |-> <<0, 0>>]
    /\ queue = [k \in Owners |-> <<>>]
    /\ ready = <<>>
    /\ groupReady = [c \in Communities |-> <<>>]
    /\ live = {} /\ remembered = {} /\ discard = {}
    /\ active = [k \in Keys |-> 0]
    /\ waiting = [c \in Communities |-> 0]
    /\ service = [k \in Keys |-> 0]
    /\ estimate = [k \in Keys |-> 0]
    /\ groupClock = [c \in Communities |-> 0]
    /\ sActive = 0 /\ sWaiting = 0 /\ waitingBytes = 0 /\ clock = 0
    /\ counts = [x \in {"completed", "rejected", "expired", "cancelled"} |-> 0]
    /\ mu = "free"

-----------------------------------------------------------------------------
(* Helpers. *)

Larger(a, b) == IF a >= b THEN a ELSE b

\* mutant: a group that still has waiters is popped and not pushed again
MovedToBackLost(s, e, stays) == Without(s, e)

MovedToBack(s, e, stays) ==   \* popped, and pushed with a new `order' if it stays
    IF stays THEN Append(Without(s, e), e) ELSE Without(s, e)

\* groupHeap.Less, the order field aside: fewest occupied workers, then least
\* virtual service.
Before(k, l) ==
    \/ active[k] < active[l]
    \/ active[k] = active[l] /\ service[k] < service[l]

Pick(heap) ==
    heap[CHOOSE i \in DOMAIN heap : \A j \in DOMAIN heap \ {i} :
            \/ Before(heap[i], heap[j])
            \/ i < j /\ ~Before(heap[j], heap[i])]

NextGroup == Pick(ready)
NextReader == Pick(groupReady[NextGroup[1]])
NextRequest == Head(queue[NextReader])

Idle(k) == /\ active[k] = 0
           /\ IF k[2] = NoReader THEN waiting[k[1]] = 0 ELSE queue[k] = <<>>

\* retire of the reader k and of its community, each if it has nothing left.
\* To be used after the conjuncts that set active', waiting' and queue'.
Retire(k) ==
    LET gone == {x \in {k, Group(k[1])} : Idle(x)'}
    IN  /\ live' = live \ gone
        /\ remembered' = IF k[1] \in discard THEN remembered \ gone
                                             ELSE remembered \cup gone
        /\ discard' = IF Group(k[1]) \in gone THEN discard \ {k[1]} ELSE discard

\* mutant: the queue memory of w is not given back
UnqueueKeepsBytes(w) ==
    /\ queue' = [queue EXCEPT ![owner[w]] = Without(@, w)]
    /\ waiting' = [waiting EXCEPT ![owner[w][1]] = @ - 1]
    /\ sWaiting' = sWaiting - 1
    /\ UNCHANGED waitingBytes

\* Takes w out of its FIFO and out of the waiting counters.
Unqueue(w) ==
    /\ queue' = [queue EXCEPT ![owner[w]] = Without(@, w)]
    /\ waiting' = [waiting EXCEPT ![owner[w][1]] = @ - 1]
    /\ sWaiting' = sWaiting - 1
    /\ waitingBytes' = waitingBytes - Bytes[w]

\* remove: w leaves the queue without a turn; heaps that it empties lose their
\* member, groups that it leaves idle are retired.
Remove(w) ==
    LET k == owner[w]  c == owner[w][1] IN
    /\ Unqueue(w)
    /\ UNCHANGED slotVars
    /\ groupReady' = IF queue'[k] = <<>>
                     THEN [groupReady EXCEPT ![c] = Without(@, k)] ELSE groupReady
    /\ ready' = IF waiting'[c] = 0 THEN Without(ready, Group(c)) ELSE ready
    /\ Retire(k)

Count(x) == counts' = [counts EXCEPT ![x] = @ + 1]

\* The call of w returns to its caller.
Return(w) ==
    /\ phase' = [phase EXCEPT ![w] = "done"]
    /\ owner' = [owner EXCEPT ![w] = NoOwner]
    /\ charge' = [charge EXCEPT ![w] = <<0, 0>>]
    /\ closed' = [closed EXCEPT ![w] = 0]
    /\ cancelled' = cancelled \ {w}
    /\ late' = late \ {w}

\* mutant: the waiter is never told
ResolveSilently(w, p) ==
    /\ phase' = [phase EXCEPT ![w] = p]
    /\ UNCHANGED closed

\* Somebody else decides the outcome of the queued call w and closes w.ready.
Resolve(w, p) ==
    /\ phase' = [phase EXCEPT ![w] = p]
    /\ closed' = [closed EXCEPT ![w] = @ + 1]

-----------------------------------------------------------------------------
(* acquire, the admission. *)

\* A request larger than the whole budget is refused before the lock is taken.
OverBudget(w) ==
    /\ phase[w] = "idle"
    /\ Bytes[w] > QueueBytes
    /\ Return(w)
    /\ UNCHANGED <<queueVars, groupVars, costVars, slotVars, counts, mu>>

Acquire(w, k) ==
    /\ mu = "free"
    /\ phase[w] = "idle"
    /\ Bytes[w] <= QueueBytes
    /\ phase' = [phase EXCEPT ![w] = "admitting"]
    /\ owner' = [owner EXCEPT ![w] = k]
    /\ mu' = "admitting"
    /\ UNCHANGED <<cancelled, late, closed, charge, queueVars, groupVars, costVars,
                   slotVars, counts>>

Full(w) == \/ sWaiting >= Queue
           \/ waitingBytes + Bytes[w] > QueueBytes

\* longestReader: the readers of c with the longest FIFO, if longer than minimum.
LongestReaders(c, minimum) ==
    {k \in Owners :
        /\ k[1] = c
        /\ Len(queue[k]) > minimum
        /\ \A l \in Owners : l[1] = c => Len(queue[l]) <= Len(queue[k])}

\* mutant: a queue of equal length after admission may donate
LargerGroupsOrEqual(c) == {o \in Communities \ {c} : waiting[o] >= waiting[c] + 1}

\* The other communities with strictly more waiting than c will have.
LargerGroups(c) == {o \in Communities : waiting[o] > waiting[c] + 1}

\* The readers that may give up their newest waiter for the arrival w.
Donors(w) ==
    LET k == owner[w]  larger == LargerGroups(owner[w][1]) IN
    IF larger # {}
    THEN UNION {LongestReaders(o, 0) :
                  o \in {x \in larger : \A y \in larger : waiting[y] <= waiting[x]}}
    ELSE LongestReaders(k[1], Len(queue[k]) + 1)

Reject(w) ==
    /\ mu = "admitting" /\ phase[w] = "admitting"
    /\ Full(w) /\ Donors(w) = {}
    /\ Return(w)
    /\ Count("rejected")
    /\ mu' = "free"
    /\ UNCHANGED <<queueVars, groupVars, costVars, slotVars>>

Evict(w) ==
    /\ mu = "admitting" /\ phase[w] = "admitting"
    /\ Full(w)
    /\ \E k \in Donors(w) :
         LET victim == queue[k][Len(queue[k])] IN
         /\ Remove(victim)
         /\ Resolve(victim, "refused")
    /\ Count("rejected")
    /\ UNCHANGED <<owner, cancelled, late, charge, costVars, mu>>

\* mutant: a returning group keeps its old service, a new one starts at zero
RestoredBehind(k, c) == IF k \in live \cup remembered THEN service[k] ELSE 0

\* restore: the service of a group that is created, or that it has.
Restored(k, c) ==
    IF k \in live THEN service[k]
    ELSE IF k \in remembered THEN Larger(c, service[k]) ELSE c

Enqueue(w) ==
    LET k == owner[w]  c == k[1]  g == Group(c)
        known == live \cup remembered
        gClock == IF g \in known THEN groupClock[c] ELSE 0
    IN
    /\ mu = "admitting" /\ phase[w] = "admitting"
    /\ ~Full(w)
    /\ service' = [service EXCEPT ![g] = Restored(g, clock), ![k] = Restored(k, gClock)]
    /\ estimate' = [x \in Keys |-> IF x \in {g, k} \ known THEN InitialEstimate
                                                            ELSE estimate[x]]
    /\ groupClock' = [groupClock EXCEPT ![c] = gClock]
    /\ live' = live \cup {g, k}
    /\ remembered' = remembered \ {g, k}
    /\ queue' = [queue EXCEPT ![k] = Append(@, w)]
    /\ waiting' = [waiting EXCEPT ![c] = @ + 1]
    /\ sWaiting' = sWaiting + 1
    /\ waitingBytes' = waitingBytes + Bytes[w]
    /\ groupReady' = IF Has(groupReady[c], k) THEN groupReady
                     ELSE [groupReady EXCEPT ![c] = Append(@, k)]
    /\ ready' = IF Has(ready, g) THEN ready ELSE Append(ready, g)
    /\ phase' = [phase EXCEPT ![w] = "queued"]
    /\ mu' = "dispatching"
    /\ UNCHANGED <<owner, cancelled, late, closed, charge, clock, discard, slotVars, counts>>

-----------------------------------------------------------------------------
(* dispatch: while a worker is free, the best reader of the best community *)
(* gives its oldest waiter a turn.                                         *)

\* mutants: one slot too few, one too many
CanDispatchLate == sActive + 1 < Workers /\ ready # <<>>
CanDispatchOver == sActive <= Workers /\ ready # <<>>

CanDispatch == sActive < Workers /\ ready # <<>>

\* What a turn does to the queue, whatever becomes of the waiter.
Turn ==
    LET g == NextGroup  k == NextReader  c == NextGroup[1] IN
    /\ Unqueue(NextRequest)
    /\ groupReady' = [groupReady EXCEPT ![c] = MovedToBack(@, k, queue'[k] # <<>>)]
    /\ ready' = MovedToBack(ready, g, waiting'[c] > 0)
    /\ Retire(k)

\* The waiter is charged the estimates of its community and of its reader.
Charge(w) ==
    LET g == NextGroup  k == NextReader  c == NextGroup[1] IN
    /\ clock' = Larger(clock, service[g])
    /\ groupClock' = [groupClock EXCEPT ![c] = Larger(@, service[k])]
    /\ service' = [service EXCEPT ![g] = @ + estimate[g], ![k] = @ + estimate[k]]
    /\ charge' = [charge EXCEPT ![w] = <<estimate[g], estimate[k]>>]

DispatchRun ==
    /\ mu = "dispatching" /\ CanDispatch
    /\ NextRequest \notin cancelled \cup late
    /\ active' = [active EXCEPT ![NextGroup] = @ + 1, ![NextReader] = @ + 1]
    /\ sActive' = sActive + 1
    /\ Turn
    /\ Charge(NextRequest)
    /\ Resolve(NextRequest, "granted")
    /\ UNCHANGED <<owner, cancelled, late, estimate, counts, mu>>

\* The oldest waiter has been cancelled or has expired, and has not woken yet.
DispatchDead ==
    /\ mu = "dispatching" /\ CanDispatch
    /\ NextRequest \in cancelled \cup late
    /\ UNCHANGED slotVars
    /\ Turn
    /\ Resolve(NextRequest, "refused")
    /\ Count(IF NextRequest \in cancelled THEN "cancelled" ELSE "expired")
    /\ UNCHANGED <<owner, cancelled, late, charge, costVars, mu>>

DispatchEnd ==
    /\ mu = "dispatching" /\ ~CanDispatch
    /\ mu' = "free"
    /\ UNCHANGED <<callVars, queueVars, groupVars, costVars, slotVars, counts>>

-----------------------------------------------------------------------------
(* The contexts and the clock: these take no lock. *)

Cancel(w) ==
    /\ w \in Cancellable \ cancelled
    /\ phase[w] \in {"queued", "granted"}
    /\ cancelled' = cancelled \cup {w}
    /\ UNCHANGED <<phase, owner, late, closed, charge, queueVars, groupVars, costVars,
                   slotVars, counts, mu>>

Deadline(w) ==
    /\ w \in Expiring \ late
    /\ phase[w] = "queued"
    /\ late' = late \cup {w}
    /\ UNCHANGED <<phase, owner, cancelled, closed, charge, queueVars, groupVars, costVars,
                   slotVars, counts, mu>>

\* An entry of s.history becomes a minute old, or leaves the shared LRU list.
Lapse(k) ==
    /\ HistoryLapses /\ mu = "free"
    /\ k \in remembered
    /\ remembered' = remembered \ {k}
    /\ UNCHANGED <<callVars, queueVars, live, discard, costVars, slotVars, counts, mu>>

-----------------------------------------------------------------------------
(* acquire, after the select. *)

\* mutant: only w.running is looked at, not w.err
GiveUpTwice(w) ==
    /\ mu = "free"
    /\ phase[w] \in {"queued", "refused"}
    /\ w \in cancelled \cup late
    /\ Remove(w)
    /\ Return(w)
    /\ Count(IF w \in cancelled THEN "cancelled" ELSE "expired")
    /\ UNCHANGED <<costVars, mu>>

\* Woken by its context or its timer while still queued.
GiveUp(w) ==
    /\ mu = "free"
    /\ phase[w] = "queued"
    /\ w \in cancelled \cup late
    /\ Remove(w)
    /\ Return(w)
    /\ Count(IF w \in cancelled THEN "cancelled" ELSE "expired")
    /\ UNCHANGED <<costVars, mu>>

LearnRefused(w) ==
    /\ mu = "free"
    /\ phase[w] = "refused"
    /\ Return(w)
    /\ UNCHANGED <<queueVars, groupVars, costVars, slotVars, counts, mu>>

\* mutant: the cancelled call returns without giving the slot back
LearnGrantedLeaks(w) ==
    /\ mu = "free"
    /\ phase[w] = "granted"
    /\ phase' = [phase EXCEPT ![w] = IF w \in cancelled THEN "done" ELSE "holding"]
    /\ cancelled' = cancelled \ {w}
    /\ late' = late \ {w}
    /\ UNCHANGED <<owner, closed, charge, queueVars, groupVars, costVars, slotVars,
                   counts, mu>>

\* The grant is returned to the caller, unless the context has ended since: then
\* acquire gives the slot back itself.
LearnGranted(w) ==
    /\ mu = "free"
    /\ phase[w] = "granted"
    /\ phase' = [phase EXCEPT ![w] = IF w \in cancelled THEN "releasing" ELSE "holding"]
    /\ cancelled' = cancelled \ {w}
    /\ late' = late \ {w}
    /\ UNCHANGED <<owner, closed, charge, queueVars, groupVars, costVars, slotVars,
                   counts, mu>>

\* finish: the charge of w is corrected to the duration d of its slot, never below
\* the clock of its level.
Corrected(k, charged, d, c) == Larger(c, Larger(0, service[k] + d - charged))
Smoothed(k, d) == (estimate[k] * 3 + d) \div 4

Finish(w, d) ==
    LET k == owner[w]  c == owner[w][1]  g == Group(owner[w][1]) IN
    /\ mu = "free"
    /\ phase[w] \in {"holding", "releasing"}
    /\ service' = [service EXCEPT ![g] = Corrected(g, charge[w][1], d, clock),
                                  ![k] = Corrected(k, charge[w][2], d, groupClock[c])]
    /\ estimate' = [estimate EXCEPT ![g] = Smoothed(g, d), ![k] = Smoothed(k, d)]
    /\ active' = [active EXCEPT ![g] = @ - 1, ![k] = @ - 1]
    /\ sActive' = sActive - 1
    /\ UNCHANGED <<queueVars, clock, groupClock>>
    /\ Retire(k)
    /\ Return(w)
    /\ Count("completed")
    /\ mu' = "dispatching"

-----------------------------------------------------------------------------
(* dropCommunityWith: the queued calls of a community that is being deleted *)
(* are refused at once and its history is forgotten; running calls go on.   *)

Drop(c) ==
    LET dropped == OfGroup(Queued, c)
        own == {k \in Keys : k[1] = c}
    IN
    /\ mu = "free"
    /\ phase' = [w \in Requests |-> IF w \in dropped THEN "refused" ELSE phase[w]]
    /\ closed' = [w \in Requests |-> IF w \in dropped THEN closed[w] + 1 ELSE closed[w]]
    /\ queue' = [k \in Owners |-> IF k[1] = c THEN <<>> ELSE queue[k]]
    /\ waiting' = [waiting EXCEPT ![c] = 0]
    /\ sWaiting' = sWaiting - Cardinality(dropped)
    /\ waitingBytes' = waitingBytes - TotalBytes(dropped)
    /\ groupReady' = [groupReady EXCEPT ![c] = <<>>]
    /\ ready' = Without(ready, Group(c))
    /\ UNCHANGED slotVars
    /\ live' = {k \in live : k[1] = c => active[k] > 0}
    /\ remembered' = remembered \ own
    /\ discard' = IF Group(c) \in live' THEN discard \cup {c} ELSE discard \ {c}
    /\ counts' = [counts EXCEPT !["cancelled"] = @ + Cardinality(dropped)]
    /\ mu' = "dispatching"
    /\ UNCHANGED <<owner, cancelled, late, charge, costVars>>

-----------------------------------------------------------------------------
Critical(w) == Reject(w) \/ Evict(w) \/ Enqueue(w)
Dispatch == DispatchRun \/ DispatchDead \/ DispatchEnd
Wake(w) == GiveUp(w) \/ LearnRefused(w) \/ LearnGranted(w)
Release(w) == \E d \in Durations : Finish(w, d)

Next ==
    \/ \E w \in Requests, k \in Owners : Acquire(w, k)
    \/ \E w \in Requests : OverBudget(w)
    \/ \E w \in Requests : Critical(w) \/ Wake(w) \/ Release(w)
    \/ Dispatch
    \/ \E w \in Requests : Cancel(w) \/ Deadline(w)
    \/ \E k \in Keys : Lapse(k)
    \/ \E c \in Communities : Drop(c)

Spec == Init /\ [][Next]_vars

\* The lines of acquire and dispatch that run under the lock go on by themselves
\* (WF). Wake and Release wait for a mutex others keep taking: Go's mutex hands the
\* lock to a waiter it has starved for a millisecond, hence SF. That a holder
\* releases at all is the Execution timeout around every granted operation.
\* A call that is too large for the queue never gets that far.
Fairness ==
    /\ WF_vars(Dispatch)
    /\ \A w \in {v \in Requests : Bytes[v] <= QueueBytes} :
         WF_vars(Critical(w)) /\ SF_vars(Wake(w)) /\ SF_vars(Release(w))

FairSpec == Spec /\ Fairness

-----------------------------------------------------------------------------
(* Properties. *)

\* At all three levels the count of running calls is the number of calls that hold
\* a slot, and never exceeds the workers, whatever grants, cancellations and drops
\* came in between: no slot is leaked or given back twice.
SlotsExact ==
    /\ sActive = Cardinality(Running)
    /\ sActive <= Workers
    /\ \A c \in Communities : active[Group(c)] = Cardinality(OfGroup(Running, c))
    /\ \A k \in Owners : active[k] = Cardinality(Of(Running, k))

\* A call waits in the FIFO of its own reader, once, until its outcome is decided,
\* and the waiting counters count exactly these calls.
QueuesExact ==
    /\ \A k \in Owners : Range(queue[k]) = Of(Queued, k) /\ IsInjective(queue[k])
    /\ \A c \in Communities : waiting[c] = Cardinality(OfGroup(Queued, c))
    /\ sWaiting = Cardinality(Queued)

\* The indexes the code keeps by hand (the heaps, and the maps that retire empties)
\* always mirror the calls: a group is in its heap, once, exactly while it has
\* waiters, and in its map exactly while it has waiters or running calls, so no
\* waiter is out of dispatch's sight and no idle group stays behind.
IndexesExact ==
    /\ Range(ready) = {Group(c) : c \in {d \in Communities : OfGroup(Queued, d) # {}}}
    /\ IsInjective(ready)
    /\ \A c \in Communities :
         /\ Range(groupReady[c]) = {k \in Owners : k[1] = c /\ Of(Queued, k) # {}}
         /\ IsInjective(groupReady[c])
    /\ live = {k \in Keys : ~Idle(k)}
    /\ live \cap remembered = {}

\* The queue budgets are never exceeded, queue memory included, and no worker idles
\* while somebody waits: when the lock is free, a non-empty queue means that every
\* worker is taken.
BudgetUsed ==
    /\ waitingBytes = TotalBytes(Queued)
    /\ sWaiting <= Queue /\ waitingBytes <= QueueBytes
    /\ mu = "free" /\ sWaiting > 0 => sActive = Workers

\* "no idle-credit bank": a live community or reader with nothing running has at
\* least the virtual service its level has reached, so time spent idle or waiting
\* never buys turns ahead of those who were served meanwhile.
NoIdleCredit ==
    \A k \in live : active[k] = 0 =>
        service[k] >= IF k[2] = NoReader THEN clock ELSE groupClock[k[1]]

\* A call learns one outcome, and statistics count it once. Its ready channel is
\* closed by whoever decides for it, exactly once (a second close panics), and never
\* by the call that gives up by itself; and every call that passed the size check
\* is counted under exactly one outcome by the time it is over, also when its
\* cancellation or deadline races with an eviction, a grant or the deletion of
\* its community.
OutcomesExact ==
    /\ \A w \in Requests :
         closed[w] = IF phase[w] \in {"refused", "granted", "holding", "releasing"}
                     THEN 1 ELSE 0
    /\ SumFunction(counts) =
         Cardinality({w \in Requests : /\ phase[w] \in {"refused", "done"}
                                       /\ Bytes[w] <= QueueBytes})

\* Admission never makes the donor the poorer side: after it has given up a waiter,
\* another community still has more waiting than the arriving one has, and another
\* reader of the same community more than the arriving reader has. Two communities
\* therefore cannot displace each other in turn.
DonorStaysLonger ==
    [][\A w, v \in Requests :
         (/\ phase[w] = "admitting"
          /\ phase[v] = "queued" /\ phase'[v] = "refused")
         => IF owner[v][1] # owner[w][1]
            THEN waiting'[owner[v][1]] > waiting'[owner[w][1]]
            ELSE Len(queue'[owner[v]]) > Len(queue'[owner[w]])]_vars

\* Every call of acquire comes back and every slot is given back, without any help
\* from timers: a freed slot always reaches a waiter, and a cancellation that races
\* with the grant still returns the slot.
EveryCallReturns ==
    \A w \in Requests : phase[w] # "idle" ~> phase[w] = "done"

\* The scheduler implements the worker pool.
Pool == INSTANCE WorkerPool WITH
    Calls <- Requests,
    Slots <- Workers,
    state <- [w \in Requests |->
                IF phase[w] = "idle" THEN "idle"
                ELSE IF phase[w] \in {"admitting", "queued"} THEN "waiting"
                ELSE IF w \in Running THEN "running"
                ELSE "ended"]
PoolSpec == Pool!Spec

=============================================================================
