-------------------------- MODULE SchedulerProofs --------------------------
(***************************************************************************)
(* Proofs about Scheduler, for every number of requests, communities,      *)
(* readers and workers: every invariant the runs check, what an arrival    *)
(* takes from whom, and that the scheduler is a worker pool.               *)
(***************************************************************************)
EXTENDS Scheduler, ListProofs, FiniteSetTheorems

-----------------------------------------------------------------------------
(* Sequences without repetition, which the FIFOs and the heaps are. *)

\* A popped member that stays goes to the back of its heap.
LEMMA MovedFacts ==
    ASSUME NEW S, NEW s \in Seq(S), NEW e \in S, IsInjective(s)
    PROVE  /\ Append(Without(s, e), e) \in Seq(S)
           /\ IsInjective(Append(Without(s, e), e))
           /\ Range(Append(Without(s, e), e)) = Range(s) \cup {e}
  <1> DEFINE t == Without(s, e)
  <1>1. t \in Seq(S) /\ Range(t) = Range(s) \ {e} /\ IsInjective(t)
    BY WithoutFacts
  <1> HIDE DEF t
  <1>2. /\ Append(t, e) \in Seq(S) /\ Range(Append(t, e)) = Range(t) \cup {e}
        /\ IsInjective(t) /\ e \notin Range(t) => IsInjective(Append(t, e))
    BY <1>1, AppendFacts
  <1>3. QED
    BY <1>1, <1>2 DEF t

LEMMA LastFacts ==
    ASSUME NEW S, NEW s \in Seq(S), s # <<>>
    PROVE  Head(s) \in Range(s) /\ s[Len(s)] \in Range(s)
  <1>1. DOMAIN s = 1 .. Len(s) /\ Len(s) \in Nat \ {0}
    BY LenProperties, EmptySeq
  <1>2. Head(s) = s[1]
    BY <1>1
  <1>3. QED
    BY <1>1, <1>2 DEF Range

-----------------------------------------------------------------------------
(* The choice of dispatch. *)

\* Pick returns a member of the heap that no other member comes before: the
\* choice in its definition always exists.
LEMMA PickFacts ==
    ASSUME NEW h \in Seq(Keys), h # <<>>,
           active \in [Keys -> Nat], service \in [Keys -> Nat]
    PROVE  /\ Pick(h) \in Range(h)
           /\ \A k \in Range(h) : ~Before(k, Pick(h))
  <1> DEFINE D == DOMAIN h
             A == {active[h[i]] : i \in D}
  <1>1. D = 1 .. Len(h) /\ Len(h) \in Nat \ {0} /\ \A i \in D : h[i] \in Keys
    BY LenProperties, EmptySeq
  <1>2. \A i \in D : active[h[i]] \in Nat /\ service[h[i]] \in Nat
    BY <1>1
  <1> HIDE DEF D
  <1>3. D \subseteq Nat /\ D # {}
    <2>1. 1 \in 1 .. Len(h) /\ 1 .. Len(h) \subseteq Nat
      BY <1>1
    <2>2. QED
      BY <2>1, <1>1
  <1>4. PICK m \in A : \A x \in A : m <= x
    <2>1. A \subseteq Nat /\ A # {}
      BY <1>2, <1>3
    <2> HIDE DEF A
    <2>2. QED
      BY <2>1, LeastNatural
  <1> DEFINE B == {service[h[i]] : i \in {j \in D : active[h[j]] = m}}
  <1>5. PICK n \in B : \A x \in B : n <= x
    <2>1. B \subseteq Nat /\ B # {}
      BY <1>2, <1>3, <1>4
    <2> HIDE DEF B
    <2>2. QED
      BY <2>1, LeastNatural
  <1> DEFINE C == {i \in D : active[h[i]] = m /\ service[h[i]] = n}
  <1>6. PICK i \in C : \A j \in C : i <= j
    <2>1. C \subseteq Nat /\ C # {}
      BY <1>3, <1>5
    <2> HIDE DEF C
    <2>2. QED
      BY <2>1, LeastNatural
  <1>7. ASSUME NEW j \in D \ {i}
        PROVE  Before(h[i], h[j]) \/ (i < j /\ ~Before(h[j], h[i]))
    <2>1. m <= active[h[j]] /\ m \in Nat /\ active[h[j]] \in Nat
      BY <1>2, <1>4
    <2>2. CASE m < active[h[j]]
      BY <2>2, <1>6 DEF Before
    <2>3. CASE m = active[h[j]]
      <3>1. n <= service[h[j]] /\ n \in Nat /\ service[h[j]] \in Nat
        BY <1>2, <1>5, <2>3
      <3>2. CASE n < service[h[j]]
        BY <3>2, <2>3, <1>6 DEF Before
      <3>3. CASE n = service[h[j]]
        <4>1. i <= j /\ i \in Nat /\ j \in Nat /\ i # j
          BY <1>3, <1>6, <2>3, <3>3
        <4>2. ~Before(h[j], h[i])
          BY <1>6, <2>1, <2>3, <3>1, <3>3 DEF Before
        <4>3. QED
          BY <4>1, <4>2
      <3>4. QED
        BY <3>1, <3>2, <3>3
    <2>4. QED
      BY <2>1, <2>2, <2>3
  <1> DEFINE Best(x) == \A j \in D \ {x} : \/ Before(h[x], h[j])
                                           \/ x < j /\ ~Before(h[j], h[x])
             p == CHOOSE x \in D : Best(x)
  <1>8. Pick(h) = h[p]
    BY DEF Pick, D
  <1>9. p \in D /\ Best(p)
    BY <1>6, <1>7
  <1> HIDE DEF p, A, B, C
  <1>10. ASSUME NEW j \in D
         PROVE  ~Before(h[j], h[p])
    <2>1. /\ active[h[j]] \in Nat /\ service[h[j]] \in Nat
          /\ active[h[p]] \in Nat /\ service[h[p]] \in Nat
      BY <1>2, <1>9
    <2>2. \/ j = p
          \/ Before(h[p], h[j])
          \/ ~Before(h[j], h[p])
      BY <1>9
    <2> HIDE DEF Best
    <2>3. ASSUME j = p \/ Before(h[p], h[j]), Before(h[j], h[p])
          PROVE  FALSE
      BY <2>1, <2>3 DEF Before
    <2>4. QED
      BY <2>2, <2>3
  <1>11. QED
    BY <1>8, <1>9, <1>10 DEF Range, D

-----------------------------------------------------------------------------
(* Facts about the sets of calls. *)

LEMMA FiniteCalls ==
    ASSUME NEW S \in SUBSET Requests
    PROVE  IsFiniteSet(S) /\ Cardinality(S) \in Nat /\ (Cardinality(S) = 0 <=> S = {})
  BY SchedulerAssumption, FS_Subset, FS_CardinalityType, FS_EmptySet
     DEF SchedulerAssumption

LEMMA KeyFacts ==
    /\ \A k \in Owners : k[1] \in Communities /\ k[2] \in Readers /\ k = <<k[1], k[2]>>
    /\ \A k \in Owners : k[2] # NoReader /\ k \in Keys /\ Group(k[1]) \in Keys
    /\ \A c \in Communities : /\ Group(c) \in Keys /\ Group(c) \notin Owners
                              /\ Group(c)[1] = c /\ Group(c)[2] = NoReader
    /\ \A c, d \in Communities : Group(c) = Group(d) => c = d
    /\ \A k \in Keys : k \notin Owners => \E c \in Communities : k = Group(c)
  BY SchedulerAssumption DEF SchedulerAssumption, Keys, Group

\* An empty set of queued calls is an empty FIFO and a zero counter.
LEMMA EmptyQueues ==
    ASSUME TypeOK, QueuesExact
    PROVE  /\ \A k \in Owners : queue[k] = <<>> <=> Of(Queued, k) = {}
           /\ \A c \in Communities : waiting[c] = 0 <=> OfGroup(Queued, c) = {}
  <1>1. ASSUME NEW k \in Owners
        PROVE  queue[k] = <<>> <=> Of(Queued, k) = {}
    BY RangeFacts DEF TypeOK, QueuesExact
  <1>2. ASSUME NEW c \in Communities
        PROVE  waiting[c] = 0 <=> OfGroup(Queued, c) = {}
    <2>1. OfGroup(Queued, c) \in SUBSET Requests
      BY DEF OfGroup, Queued
    <2>2. QED
      BY <2>1, FiniteCalls DEF QueuesExact
  <1>3. QED
    BY <1>1, <1>2

QueueTypes == /\ queue \in [Owners -> Seq(Requests)]
              /\ waiting \in [Communities -> Nat]
              /\ sWaiting \in Nat

\* A call that stops waiting leaves its FIFO and the counters exactly once.
LEMMA QueueLoses ==
    ASSUME TypeOK, QueuesExact, NEW w \in Queued, Unqueue(w),
           Queued' = Queued \ {w}, \A v \in Queued \ {w} : owner'[v] = owner[v]
    PROVE  QueuesExact' /\ QueueTypes'
  <1> DEFINE k0 == owner[w]
             c0 == k0[1]
  <1>1. w \in Requests /\ k0 \in Owners /\ c0 \in Communities
    BY KeyFacts DEF TypeOK, Queued
  <1>2. /\ \A k \in Owners : Of(Queued, k)' = Of(Queued, k) \ {w}
        /\ \A c \in Communities : OfGroup(Queued, c)' = OfGroup(Queued, c) \ {w}
    BY DEF Of, OfGroup
  <1>3. /\ queue' = [queue EXCEPT ![k0] = Without(@, w)]
        /\ waiting' = [waiting EXCEPT ![c0] = @ - 1]
        /\ sWaiting' = sWaiting - 1
    BY DEF Unqueue
  <1>4. ASSUME NEW k \in Owners
        PROVE  /\ queue'[k] \in Seq(Requests)
               /\ Range(queue'[k]) = Of(Queued, k)' /\ IsInjective(queue'[k])
    <2>1. /\ queue[k] \in Seq(Requests)
          /\ Range(queue[k]) = Of(Queued, k) /\ IsInjective(queue[k])
      BY DEF TypeOK, QueuesExact
    <2>2. CASE k = k0
      <3>1. queue'[k] = Without(queue[k], w)
        BY <1>1, <1>3, <2>2 DEF TypeOK
      <3>2. /\ Without(queue[k], w) \in Seq(Requests)
            /\ Range(Without(queue[k], w)) = Range(queue[k]) \ {w}
            /\ IsInjective(Without(queue[k], w))
        BY <2>1, WithoutFacts
      <3>3. QED
        BY <2>1, <3>1, <3>2, <1>2
    <2>3. CASE k # k0
      <3>1. queue'[k] = queue[k] /\ w \notin Of(Queued, k)
        BY <1>3, <2>3 DEF TypeOK, Of
      <3>2. QED
        BY <2>1, <3>1, <1>2
    <2>4. QED
      BY <2>2, <2>3
  <1>5. ASSUME NEW c \in Communities
        PROVE  waiting'[c] = Cardinality(OfGroup(Queued, c)')
    <2> DEFINE S == OfGroup(Queued, c)
    <2>1. S \in SUBSET Requests /\ (w \in S <=> c = c0)
      BY <1>1 DEF OfGroup, Queued
    <2>2. waiting[c] = Cardinality(S) /\ OfGroup(Queued, c)' = S \ {w}
      BY <1>2 DEF QueuesExact
    <2> HIDE DEF S
    <2>3. Cardinality(S \ {w}) = IF w \in S THEN Cardinality(S) - 1 ELSE Cardinality(S)
      BY <2>1, FiniteCalls, FS_RemoveElement
    <2>4. waiting'[c] = IF c = c0 THEN waiting[c] - 1 ELSE waiting[c]
      BY <1>3 DEF TypeOK
    <2>5. QED
      BY <2>1, <2>2, <2>3, <2>4
  <1>6. sWaiting' = Cardinality(Queued')
    <2>1. Queued \in SUBSET Requests
      BY DEF Queued
    <2>2. Cardinality(Queued \ {w}) = Cardinality(Queued) - 1
      BY <2>1, FiniteCalls, FS_RemoveElement
    <2>3. QED
      BY <1>3, <2>2 DEF QueuesExact
  <1>7. QueuesExact'
    BY <1>4, <1>5, <1>6 DEF QueuesExact
  <1>8. queue' \in [Owners -> Seq(Requests)]
    BY <1>3, <1>4 DEF TypeOK
  <1>9. waiting' \in [Communities -> Nat]
    <2>1. ASSUME NEW c \in Communities
          PROVE  waiting'[c] \in Nat
      <3>1. OfGroup(Queued, c)' \in SUBSET Requests
        BY DEF OfGroup, Queued
      <3>2. QED
        BY <3>1, <1>5, FiniteCalls
    <2>2. QED
      BY <2>1, <1>3 DEF TypeOK
  <1>10. sWaiting' \in Nat
    <2>1. Queued' \in SUBSET Requests
      BY DEF Queued
    <2>2. QED
      BY <2>1, <1>6, FiniteCalls
  <1>11. QED
    BY <1>7, <1>8, <1>9, <1>10 DEF QueueTypes

\* Retiring what is left idle keeps the maps exact.
LEMMA RetireExact ==
    ASSUME live = {x \in Keys : ~Idle(x)}, live \cap remembered = {},
           remembered \subseteq Keys,
           NEW k \in Owners, k \in live, Group(k[1]) \in live,
           \A x \in Keys \ {k, Group(k[1])} : Idle(x)' <=> Idle(x),
           Retire(k)
    PROVE  /\ live' = {x \in Keys : ~Idle(x)'}
           /\ live' \cap remembered' = {}
           /\ remembered' \subseteq Keys
           /\ discard \subseteq Communities => discard' \subseteq Communities
  <1> DEFINE gone == {x \in {k, Group(k[1])} : Idle(x)'}
  <1>1. /\ live' = live \ gone
        /\ remembered' = IF k[1] \in discard THEN remembered \ gone
                                             ELSE remembered \cup gone
        /\ discard' \subseteq discard
    BY DEF Retire
  <1>2. gone \subseteq Keys
    BY KeyFacts
  <1>3. live' = {x \in Keys : ~Idle(x)'}
    BY <1>1, KeyFacts
  <1> HIDE DEF gone
  <1>4. QED
    BY <1>1, <1>2, <1>3

-----------------------------------------------------------------------------
(* The invariant. TypeOK and the counters need each other (a counter is a     *)
(* natural number because it counts a set), a turn needs the indexes (the     *)
(* heap names a community that has a waiter), and these need the FIFOs.       *)

IInv == TypeOK /\ SlotsExact /\ QueuesExact /\ IndexesExact

CallTypes ==
    /\ phase \in [Requests -> Phases]
    /\ owner \in [Requests -> Owners \cup {NoOwner}]
    /\ \A w \in Requests : phase[w] \notin {"idle", "done"} => owner[w] \in Owners
    /\ cancelled \subseteq Requests /\ late \subseteq Requests
    /\ closed \in [Requests -> Nat]
    /\ charge \in [Requests -> Nat \X Nat]
HeapTypes == ready \in Seq(Keys) /\ groupReady \in [Communities -> Seq(Owners)]
MapTypes == live \subseteq Keys /\ remembered \subseteq Keys /\ discard \subseteq Communities
SlotTypes == active \in [Keys -> Nat] /\ sActive \in Nat
CostTypes == /\ service \in [Keys -> Nat] /\ estimate \in [Keys -> Nat]
             /\ groupClock \in [Communities -> Nat] /\ clock \in Nat
CountTypes == /\ counts \in [{"completed", "rejected", "expired", "cancelled"} -> Nat]
              /\ mu \in {"free", "admitting", "dispatching"}

HeapsExact ==
    /\ Range(ready) = {Group(c) : c \in {d \in Communities : OfGroup(Queued, d) # {}}}
    /\ IsInjective(ready)
    /\ \A c \in Communities :
         /\ Range(groupReady[c]) = {k \in Owners : k[1] = c /\ Of(Queued, k) # {}}
         /\ IsInjective(groupReady[c])
MapsExact == live = {k \in Keys : ~Idle(k)} /\ live \cap remembered = {}

LEMMA TypeParts ==
    TypeOK <=> /\ CallTypes /\ QueueTypes /\ HeapTypes /\ MapTypes
               /\ SlotTypes /\ CostTypes /\ CountTypes
  BY DEF TypeOK, CallTypes, QueueTypes, HeapTypes, MapTypes, SlotTypes, CostTypes,
         CountTypes

LEMMA IndexParts == IndexesExact <=> HeapsExact /\ MapsExact
  BY DEF IndexesExact, HeapsExact, MapsExact

\* A call that holds no slot is not missed by the counters of the others.
LEMMA SlotsSame ==
    ASSUME SlotsExact, SlotTypes, UNCHANGED slotVars, Running' = Running,
           \A v \in Running : owner'[v] = owner[v]
    PROVE  SlotsExact' /\ SlotTypes'
  <1>1. /\ \A k \in Owners : Of(Running, k)' = Of(Running, k)
        /\ \A c \in Communities : OfGroup(Running, c)' = OfGroup(Running, c)
    BY DEF Of, OfGroup
  <1>2. active' = active /\ sActive' = sActive
    BY DEF slotVars
  <1>3. QED
    BY <1>1, <1>2 DEF SlotsExact, SlotTypes

LEMMA QueuesSame ==
    ASSUME QueuesExact, UNCHANGED <<queue, waiting, sWaiting>>, Queued' = Queued,
           \A v \in Queued : owner'[v] = owner[v]
    PROVE  QueuesExact'
  <1>1. /\ \A k \in Owners : Of(Queued, k)' = Of(Queued, k)
        /\ \A c \in Communities : OfGroup(Queued, c)' = OfGroup(Queued, c)
    BY DEF Of, OfGroup
  <1>2. QED
    BY <1>1 DEF QueuesExact

LEMMA IndexesSame ==
    ASSUME IndexesExact, UNCHANGED <<queue, waiting, ready, groupReady, active, live>>,
           remembered' \subseteq remembered, Queued' = Queued,
           \A v \in Queued : owner'[v] = owner[v]
    PROVE  IndexesExact'
  <1>1. /\ \A k \in Owners : Of(Queued, k)' = Of(Queued, k)
        /\ \A c \in Communities : OfGroup(Queued, c)' = OfGroup(Queued, c)
    BY DEF Of, OfGroup
  <1>2. HeapsExact'
    BY <1>1, IndexParts DEF HeapsExact
  <1>3. MapsExact'
    BY IndexParts DEF MapsExact, Idle
  <1>4. QED
    BY <1>2, <1>3 DEF IndexesExact, HeapsExact, MapsExact

\* What the end of a call changes.
LEMMA ReturnFacts ==
    ASSUME CallTypes, NEW w \in Requests, Return(w)
    PROVE  /\ CallTypes'
           /\ Queued' = Queued \ {w} /\ Running' = Running \ {w}
           /\ \A v \in Requests \ {w} : owner'[v] = owner[v]
  <1>1. \A v \in Requests : /\ phase'[v] = IF v = w THEN "done" ELSE phase[v]
                            /\ owner'[v] = IF v = w THEN NoOwner ELSE owner[v]
    BY DEF Return, CallTypes
  <1>2. /\ phase' \in [Requests -> Phases]
        /\ owner' \in [Requests -> Owners \cup {NoOwner}]
        /\ closed' \in [Requests -> Nat] /\ charge' \in [Requests -> Nat \X Nat]
        /\ cancelled' \subseteq Requests /\ late' \subseteq Requests
    BY DEF Return, CallTypes, Phases
  <1>3. CallTypes'
    BY <1>1, <1>2 DEF CallTypes
  <1>4. QED
    BY <1>1, <1>3 DEF Queued, Running

\* What the decision about a queued call changes.
LEMMA ResolveFacts ==
    ASSUME CallTypes, NEW w \in Queued, NEW p \in {"granted", "refused"}, Resolve(w, p),
           UNCHANGED <<owner, cancelled, late>>, charge' \in [Requests -> Nat \X Nat]
    PROVE  /\ CallTypes'
           /\ Queued' = Queued \ {w}
           /\ Running' = IF p = "granted" THEN Running \cup {w} ELSE Running
  <1>1. w \in Requests /\ phase[w] = "queued"
    BY DEF Queued
  <1>2. \A v \in Requests : phase'[v] = IF v = w THEN p ELSE phase[v]
    BY <1>1 DEF Resolve, CallTypes
  <1>3. phase' \in [Requests -> Phases] /\ closed' \in [Requests -> Nat]
    BY <1>1 DEF Resolve, CallTypes, Phases
  <1>4. CallTypes'
    BY <1>1, <1>2, <1>3 DEF CallTypes
  <1>5. QED
    BY <1>1, <1>2, <1>4 DEF Queued, Running

LEMMA CountFacts ==
    ASSUME CountTypes, Count("rejected") \/ Count("completed") \/ Count("cancelled")
                       \/ Count("expired"),
           mu' \in {"free", "admitting", "dispatching"}
    PROVE  CountTypes'
  BY DEF Count, CountTypes

\* The reader and the community of a call that waits or runs are in their maps.
LEMMA InUse ==
    ASSUME IInv, NEW w \in Queued \cup Running
    PROVE  /\ w \in Requests /\ owner[w] \in Owners /\ owner[w][1] \in Communities
           /\ owner[w] \in live /\ Group(owner[w][1]) \in live
  <1> DEFINE k == owner[w]
             c == k[1]
  <1>1. w \in Requests /\ k \in Owners /\ c \in Communities
    BY KeyFacts DEF IInv, TypeOK, Queued, Running
  <1>2. /\ k \in Keys /\ Group(c) \in Keys /\ k[2] # NoReader
        /\ Group(c)[2] = NoReader /\ Group(c)[1] = c
    BY <1>1, KeyFacts
  <1>3. live = {x \in Keys : ~Idle(x)}
    BY DEF IInv, IndexesExact
  <1>4. CASE w \in Queued
    <2>1. w \in Of(Queued, k) /\ w \in OfGroup(Queued, c)
      BY <1>4 DEF Of, OfGroup
    <2>2. queue[k] # <<>> /\ waiting[c] # 0
      BY <2>1, <1>1, EmptyQueues DEF IInv
    <2>3. QED
      BY <1>1, <1>2, <1>3, <2>2 DEF Idle
  <1>5. CASE w \in Running
    <2>1. w \in Of(Running, k) /\ w \in OfGroup(Running, c)
      BY <1>5 DEF Of, OfGroup
    <2>2. Of(Running, k) \in SUBSET Requests /\ OfGroup(Running, c) \in SUBSET Requests
      BY DEF Of, OfGroup, Running
    <2>3. active[k] # 0 /\ active[Group(c)] # 0
      BY <2>1, <2>2, <1>1, FiniteCalls DEF IInv, SlotsExact
    <2>4. QED
      BY <1>1, <1>2, <1>3, <2>3 DEF Idle
  <1>6. QED
    BY <1>1, <1>4, <1>5

\* Only the reader and the community of a call can become idle by what it does.
LEMMA IdleSame ==
    ASSUME NEW k \in Owners,
           \A x \in Keys \ {k, Group(k[1])} : active'[x] = active[x],
           \A x \in Owners \ {k} : queue'[x] = queue[x],
           \A c \in Communities \ {k[1]} : waiting'[c] = waiting[c]
    PROVE  \A x \in Keys \ {k, Group(k[1])} : Idle(x)' <=> Idle(x)
  <1> SUFFICES ASSUME NEW x \in Keys \ {k, Group(k[1])}
               PROVE  Idle(x)' <=> Idle(x)
    OBVIOUS
  <1>1. CASE x \in Owners
    BY <1>1, KeyFacts DEF Idle
  <1>2. CASE x \notin Owners
    <2>1. PICK c \in Communities : x = Group(c)
      BY <1>2, KeyFacts
    <2>2. c # k[1] /\ x[1] = c /\ x[2] = NoReader
      BY <2>1, KeyFacts
    <2>3. QED
      BY <2>2 DEF Idle
  <1>3. QED
    BY <1>1, <1>2

\* A call that stops waiting takes its reader and its community out of the heaps
\* exactly when it was the last there.
LEMMA HeapsLose ==
    ASSUME TypeOK, HeapsExact, NEW w \in Queued, Queued' = Queued \ {w},
           \A v \in Queued \ {w} : owner'[v] = owner[v],
           QueuesExact', QueueTypes',
           NEW k0, k0 = owner[w], NEW c0, c0 = owner[w][1],
           NEW h \in Seq(Owners), IsInjective(h),
           Range(h) = IF queue'[k0] = <<>> THEN Range(groupReady[c0]) \ {k0}
                                           ELSE Range(groupReady[c0]),
           groupReady' = [groupReady EXCEPT ![c0] = h],
           ready' \in Seq(Keys), IsInjective(ready'),
           Range(ready') = IF waiting'[c0] = 0 THEN Range(ready) \ {Group(c0)}
                                               ELSE Range(ready)
    PROVE  HeapsExact' /\ HeapTypes'
  <1>1. k0 \in Owners /\ c0 \in Communities /\ k0[1] = c0
    BY KeyFacts DEF TypeOK, Queued
  <1>2. /\ \A k \in Owners : Of(Queued, k)' = Of(Queued, k) \ {w}
        /\ \A c \in Communities : OfGroup(Queued, c)' = OfGroup(Queued, c) \ {w}
    BY DEF Of, OfGroup
  <1>3. /\ \A k \in Owners : w \in Of(Queued, k) <=> k = k0
        /\ \A c \in Communities : w \in OfGroup(Queued, c) <=> c = c0
    BY DEF Of, OfGroup
  <1>4. queue'[k0] = <<>> <=> Of(Queued, k0)' = {}
    <2>1. queue'[k0] \in Seq(Requests) /\ Range(queue'[k0]) = Of(Queued, k0)'
      BY <1>1 DEF QueueTypes, QueuesExact
    <2>2. QED
      BY <2>1, RangeFacts
  <1>5. waiting'[c0] = 0 <=> OfGroup(Queued, c0)' = {}
    <2>1. OfGroup(Queued, c0)' \in SUBSET Requests
      BY DEF OfGroup, Queued
    <2>2. waiting'[c0] = Cardinality(OfGroup(Queued, c0)')
      BY <1>1 DEF QueuesExact
    <2>3. QED
      BY <2>1, <2>2, FiniteCalls
  <1>6. Range(ready') = {Group(c) : c \in {d \in Communities : OfGroup(Queued, d)' # {}}}
    <2>1. Range(ready) = {Group(c) : c \in {d \in Communities : OfGroup(Queued, d) # {}}}
      BY DEF HeapsExact
    <2> DEFINE W == {d \in Communities : OfGroup(Queued, d) # {}}
               V == {d \in Communities : OfGroup(Queued, d)' # {}}
    <2>2. \A c \in Communities \ {c0} : OfGroup(Queued, c)' = OfGroup(Queued, c)
      BY DEF OfGroup
    <2>3. c0 \in W
      BY <1>1, <1>3
    <2>4. V = IF waiting'[c0] = 0 THEN W \ {c0} ELSE W
      BY <2>2, <2>3, <1>1, <1>5
    <2>5. W \subseteq Communities
      OBVIOUS
    <2> HIDE DEF W, V
    <2>6. {Group(c) : c \in W \ {c0}} = {Group(c) : c \in W} \ {Group(c0)}
      BY <2>5, <1>1, KeyFacts
    <2>7. Range(ready') = {Group(c) : c \in V}
      BY <2>1, <2>4, <2>6 DEF W
    <2>8. QED
      BY <2>7 DEF V
  <1>7. ASSUME NEW c \in Communities
        PROVE  /\ groupReady'[c] \in Seq(Owners) /\ IsInjective(groupReady'[c])
               /\ Range(groupReady'[c]) = {k \in Owners : k[1] = c /\ Of(Queued, k)' # {}}
    <2>1. /\ Range(groupReady[c]) = {k \in Owners : k[1] = c /\ Of(Queued, k) # {}}
          /\ IsInjective(groupReady[c]) /\ groupReady[c] \in Seq(Owners)
      BY DEF HeapsExact, TypeOK
    <2>2. groupReady'[c] = IF c = c0 THEN h ELSE groupReady[c]
      BY DEF TypeOK
    <2> DEFINE W == {k \in Owners : k[1] = c /\ Of(Queued, k) # {}}
               V == {k \in Owners : k[1] = c /\ Of(Queued, k)' # {}}
    <2>3. \A k \in Owners \ {k0} : Of(Queued, k)' = Of(Queued, k)
      BY DEF Of
    <2>4. CASE c = c0
      <3>1. V = IF queue'[k0] = <<>> THEN W \ {k0} ELSE W
        <4>1. k0 \in W
          BY <1>1, <1>3, <2>4
        <4>2. \A k \in Owners : k # k0 => (k \in V <=> k \in W)
          BY <2>3
        <4>3. k0 \in V <=> queue'[k0] # <<>>
          BY <1>1, <1>4, <2>4
        <4>4. V \subseteq Owners /\ W \subseteq Owners
          OBVIOUS
        <4> HIDE DEF V, W
        <4>5. CASE queue'[k0] = <<>>
          <5>1. \A x : x \in V <=> x \in W \ {k0}
            BY <4>1, <4>2, <4>3, <4>4, <4>5
          <5>2. QED
            BY <5>1, <4>5
        <4>6. CASE queue'[k0] # <<>>
          <5>1. \A x : x \in V <=> x \in W
            BY <4>1, <4>2, <4>3, <4>4, <4>6
          <5>2. QED
            BY <5>1, <4>6
        <4>7. QED
          BY <4>5, <4>6
      <3>2. groupReady'[c] = h /\ Range(groupReady[c]) = W
        BY <2>1, <2>2, <2>4
      <3> HIDE DEF V, W
      <3>3. Range(h) = V
        BY <3>1, <3>2, <2>4
      <3>4. QED
        BY <3>2, <3>3 DEF V
    <2>5. CASE c # c0
      <3>1. V = W
        BY <2>3, <2>5, <1>1
      <3> HIDE DEF V, W
      <3>2. groupReady'[c] = groupReady[c] /\ Range(groupReady[c]) = W
        BY <2>1, <2>2, <2>5 DEF W
      <3>3. QED
        BY <3>1, <3>2, <2>1 DEF V
    <2>6. QED
      BY <2>4, <2>5
  <1>8. groupReady' \in [Communities -> Seq(Owners)]
    BY <1>7 DEF TypeOK
  <1>9. QED
    BY <1>6, <1>7, <1>8 DEF HeapsExact, HeapTypes

\* A call that leaves the queue without a turn.
LEMMA RemoveKeeps ==
    ASSUME IInv, NEW w \in Queued, Remove(w), Queued' = Queued \ {w}, Running' = Running,
           \A v \in (Queued \ {w}) \cup Running : owner'[v] = owner[v]
    PROVE  /\ SlotsExact' /\ SlotTypes' /\ QueuesExact' /\ QueueTypes'
           /\ IndexesExact' /\ HeapTypes' /\ MapTypes'
  <1> DEFINE k == owner[w]
             c == owner[w][1]
  <1>1. /\ k \in Owners /\ c \in Communities /\ k \in live /\ Group(k[1]) \in live
        /\ Group(c) \in Keys
    BY InUse, KeyFacts
  <1>2. /\ Unqueue(w) /\ UNCHANGED slotVars /\ Retire(k)
        /\ groupReady' = IF queue'[k] = <<>>
                         THEN [groupReady EXCEPT ![c] = Without(@, k)] ELSE groupReady
        /\ ready' = IF waiting'[c] = 0 THEN Without(ready, Group(c)) ELSE ready
    BY DEF Remove
  <1>3. SlotsExact' /\ SlotTypes'
    BY <1>2, SlotsSame, TypeParts DEF IInv
  <1>4. QueuesExact' /\ QueueTypes'
    BY <1>2, QueueLoses DEF IInv
  <1>5. HeapsExact' /\ HeapTypes'
    <2> DEFINE h == IF queue'[k] = <<>> THEN Without(groupReady[c], k) ELSE groupReady[c]
    <2>1. /\ groupReady[c] \in Seq(Owners) /\ IsInjective(groupReady[c])
          /\ ready \in Seq(Keys) /\ IsInjective(ready)
          /\ groupReady \in [Communities -> Seq(Owners)]
      BY <1>1 DEF IInv, TypeOK, IndexesExact
    <2>2. /\ Without(groupReady[c], k) \in Seq(Owners)
          /\ Range(Without(groupReady[c], k)) = Range(groupReady[c]) \ {k}
          /\ IsInjective(Without(groupReady[c], k))
      BY <2>1, WithoutFacts
    <2>3. /\ Without(ready, Group(c)) \in Seq(Keys)
          /\ Range(Without(ready, Group(c))) = Range(ready) \ {Group(c)}
          /\ IsInjective(Without(ready, Group(c)))
      BY <2>1, WithoutFacts
    <2>4. groupReady' = [groupReady EXCEPT ![c] = h]
      BY <1>2, <2>1
    <2>5. /\ h \in Seq(Owners) /\ IsInjective(h)
          /\ Range(h) = IF queue'[k] = <<>> THEN Range(groupReady[c]) \ {k}
                                            ELSE Range(groupReady[c])
      BY <2>1, <2>2
    <2>6. /\ ready' \in Seq(Keys) /\ IsInjective(ready')
          /\ Range(ready') = IF waiting'[c] = 0 THEN Range(ready) \ {Group(c)}
                                                ELSE Range(ready)
      BY <1>2, <2>1, <2>3
    <2>7. TypeOK /\ HeapsExact
      BY IndexParts DEF IInv
    <2> HIDE DEF h
    <2>8. QED
      BY <1>4, <2>4, <2>5, <2>6, <2>7, HeapsLose
  <1>6. /\ \A x \in Owners \ {k} : queue'[x] = queue[x]
        /\ \A d \in Communities \ {k[1]} : waiting'[d] = waiting[d]
        /\ \A x \in Keys \ {k, Group(k[1])} : active'[x] = active[x]
    BY <1>2 DEF Unqueue, IInv, TypeOK, slotVars
  <1>7. \A x \in Keys \ {k, Group(k[1])} : Idle(x)' <=> Idle(x)
    BY <1>1, <1>6, IdleSame
  <1>8. /\ live = {x \in Keys : ~Idle(x)} /\ live \cap remembered = {}
        /\ remembered \subseteq Keys /\ discard \subseteq Communities
    BY DEF IInv, IndexesExact, TypeOK
  <1>9. /\ live' = {x \in Keys : ~Idle(x)'} /\ live' \cap remembered' = {}
        /\ remembered' \subseteq Keys /\ discard' \subseteq Communities
    BY <1>1, <1>2, <1>7, <1>8, RetireExact
  <1>10. IndexesExact' /\ MapTypes'
    BY <1>5, <1>9 DEF IndexesExact, HeapsExact, MapTypes
  <1>11. QED
    BY <1>3, <1>4, <1>5, <1>10

\* What dispatch finds at the top of the heaps: a community with a waiter, a reader
\* of it with a waiter, and the oldest waiter of that reader.
LEMMA NextFacts ==
    ASSUME IInv, ready # <<>>
    PROVE  /\ NextGroup = Group(NextGroup[1]) /\ NextGroup[1] \in Communities
           /\ NextReader \in Owners /\ NextReader[1] = NextGroup[1]
           /\ NextRequest \in Queued /\ owner[NextRequest] = NextReader
  <1> DEFINE g == NextGroup
             c == g[1]
             k == NextReader
  <1>1. /\ ready \in Seq(Keys) /\ active \in [Keys -> Nat] /\ service \in [Keys -> Nat]
        /\ groupReady \in [Communities -> Seq(Owners)]
        /\ queue \in [Owners -> Seq(Requests)]
    BY DEF IInv, TypeOK
  <1>2. g \in Range(ready)
    BY <1>1, PickFacts DEF NextGroup
  <1>3. PICK d \in Communities : g = Group(d) /\ OfGroup(Queued, d) # {}
    BY <1>2 DEF IInv, IndexesExact
  <1>4. c = d
    BY <1>3, KeyFacts
  <1>5. PICK v \in Queued : owner[v][1] = c
    BY <1>3, <1>4 DEF OfGroup
  <1>6. owner[v] \in Owners
    BY DEF Queued, IInv, TypeOK
  <1>7. owner[v] \in Range(groupReady[c])
    BY <1>3, <1>4, <1>5, <1>6 DEF IInv, IndexesExact, Of
  <1>8. groupReady[c] \in Seq(Owners) /\ groupReady[c] # <<>>
    BY <1>1, <1>3, <1>4, <1>7, RangeFacts
  <1>9. groupReady[c] \in Seq(Keys)
    BY <1>8, SeqDef, LenProperties DEF Keys
  <1>10. k \in Range(groupReady[c])
    BY <1>1, <1>8, <1>9, PickFacts DEF NextReader
  <1>11. k \in Owners /\ k[1] = c /\ Of(Queued, k) # {}
    BY <1>3, <1>4, <1>10 DEF IInv, IndexesExact
  <1>12. queue[k] \in Seq(Requests) /\ queue[k] # <<>> /\ Range(queue[k]) = Of(Queued, k)
    BY <1>1, <1>11, EmptyQueues DEF IInv, QueuesExact
  <1>13. NextRequest \in Of(Queued, k)
    BY <1>12, LastFacts DEF NextRequest
  <1>14. QED
    BY <1>3, <1>4, <1>11, <1>13 DEF Of

\* A turn, whatever becomes of the slots.
LEMMA TurnKeeps ==
    ASSUME IInv, ready # <<>>, Turn, Queued' = Queued \ {NextRequest}, owner' = owner,
           \A x \in Keys \ {NextReader, NextGroup} : active'[x] = active[x]
    PROVE  QueuesExact' /\ QueueTypes' /\ IndexesExact' /\ HeapTypes' /\ MapTypes'
  <1> DEFINE w == NextRequest
             k == NextReader
             g == NextGroup
             c == NextGroup[1]
  <1>1. /\ g = Group(c) /\ c \in Communities /\ k \in Owners /\ k[1] = c
        /\ w \in Queued /\ owner[w] = k
    BY NextFacts
  <1>2. /\ Unqueue(w) /\ Retire(k)
        /\ groupReady' = [groupReady EXCEPT ![c] = MovedToBack(@, k, queue'[k] # <<>>)]
        /\ ready' = MovedToBack(ready, g, waiting'[c] > 0)
    BY DEF Turn
  <1>3. k \in live /\ Group(k[1]) \in live /\ g \in Keys
    BY <1>1, InUse, KeyFacts
  <1> HIDE DEF w, k, g, c
  <1>4. QueuesExact' /\ QueueTypes'
    <2>1. TypeOK /\ QueuesExact /\ Queued' = Queued \ {w}
          /\ \A v \in Queued \ {w} : owner'[v] = owner[v]
      BY DEF IInv, w
    <2>2. QED
      BY <1>1, <1>2, <2>1, QueueLoses
  <1>5. HeapsExact' /\ HeapTypes'
    <2> DEFINE h == MovedToBack(groupReady[c], k, queue'[k] # <<>>)
    <2>1. /\ groupReady[c] \in Seq(Owners) /\ IsInjective(groupReady[c])
          /\ ready \in Seq(Keys) /\ IsInjective(ready)
      BY <1>1 DEF IInv, TypeOK, IndexesExact
    <2>2. k \in Range(groupReady[c]) /\ g \in Range(ready)
      <3>1. w \in Of(Queued, k) /\ w \in OfGroup(Queued, c)
        BY <1>1 DEF Of, OfGroup
      <3>2. QED
        BY <1>1, <3>1 DEF IInv, IndexesExact
    <2>3. /\ h \in Seq(Owners) /\ IsInjective(h)
          /\ Range(h) = IF queue'[k] # <<>> THEN Range(groupReady[c]) \cup {k}
                                            ELSE Range(groupReady[c]) \ {k}
      <3> DEFINE a == Append(Without(groupReady[c], k), k)
                 b == Without(groupReady[c], k)
      <3>1. a \in Seq(Owners) /\ IsInjective(a) /\ Range(a) = Range(groupReady[c]) \cup {k}
        <4>1. k \in Owners /\ groupReady[c] \in Seq(Owners) /\ IsInjective(groupReady[c])
          BY <1>1, <2>1
        <4>2. QED
          BY <4>1, MovedFacts
      <3>2. b \in Seq(Owners) /\ IsInjective(b) /\ Range(b) = Range(groupReady[c]) \ {k}
        BY <2>1, WithoutFacts
      <3>3. h = IF queue'[k] # <<>> THEN a ELSE b
        BY DEF MovedToBack
      <3> HIDE DEF h, a, b
      <3>4. QED
        BY <3>1, <3>2, <3>3
    <2>4. /\ ready' \in Seq(Keys) /\ IsInjective(ready')
          /\ Range(ready') = IF waiting'[c] > 0 THEN Range(ready) \cup {g}
                                                ELSE Range(ready) \ {g}
      <3> DEFINE a == Append(Without(ready, g), g)
                 b == Without(ready, g)
      <3>1. a \in Seq(Keys) /\ IsInjective(a) /\ Range(a) = Range(ready) \cup {g}
        <4>1. g \in Keys /\ ready \in Seq(Keys) /\ IsInjective(ready)
          BY <1>3, <2>1
        <4>2. QED
          BY <4>1, MovedFacts
      <3>2. b \in Seq(Keys) /\ IsInjective(b) /\ Range(b) = Range(ready) \ {g}
        BY <2>1, WithoutFacts
      <3>3. ready' = IF waiting'[c] > 0 THEN a ELSE b
        BY <1>2 DEF MovedToBack
      <3> HIDE DEF a, b
      <3>4. QED
        BY <3>1, <3>2, <3>3
    <2> HIDE DEF h
    <2>5. Range(h) = IF queue'[k] = <<>> THEN Range(groupReady[c]) \ {k}
                                         ELSE Range(groupReady[c])
      BY <2>2, <2>3
    <2>6. Range(ready') = IF waiting'[c] = 0 THEN Range(ready) \ {Group(c)}
                                             ELSE Range(ready)
      <3>1. waiting'[c] \in Nat
        BY <1>1, <1>4 DEF QueueTypes
      <3>2. waiting'[c] > 0 <=> waiting'[c] # 0
        BY <3>1
      <3>3. QED
        BY <1>1, <2>2, <2>4, <3>2
    <2>7. groupReady' = [groupReady EXCEPT ![c] = h]
      BY <1>2 DEF h
    <2>8. TypeOK /\ HeapsExact /\ k = owner[w] /\ c = owner[w][1]
      BY <1>1, IndexParts DEF IInv
    <2>9. Queued' = Queued \ {w} /\ \A v \in Queued \ {w} : owner'[v] = owner[v]
      BY DEF w
    <2>10. QED
      BY <1>1, <1>4, <2>3, <2>4, <2>5, <2>6, <2>7, <2>8, <2>9, HeapsLose
  <1>6. /\ \A x \in Owners \ {k} : queue'[x] = queue[x]
        /\ \A d \in Communities \ {k[1]} : waiting'[d] = waiting[d]
        /\ \A x \in Keys \ {k, Group(k[1])} : active'[x] = active[x]
    BY <1>1, <1>2 DEF Unqueue, IInv, TypeOK, k, g
  <1>7. \A x \in Keys \ {k, Group(k[1])} : Idle(x)' <=> Idle(x)
    BY <1>1, <1>6, IdleSame
  <1>8. /\ live = {x \in Keys : ~Idle(x)} /\ live \cap remembered = {}
        /\ remembered \subseteq Keys /\ discard \subseteq Communities
    BY DEF IInv, IndexesExact, TypeOK
  <1>9. /\ live' = {x \in Keys : ~Idle(x)'} /\ live' \cap remembered' = {}
        /\ remembered' \subseteq Keys /\ discard' \subseteq Communities
    BY <1>1, <1>2, <1>3, <1>7, <1>8, RetireExact
  <1>10. IndexesExact' /\ MapTypes'
    BY <1>5, <1>9 DEF IndexesExact, HeapsExact, MapTypes
  <1>11. QED
    BY <1>4, <1>5, <1>10

-----------------------------------------------------------------------------
(* The actions keep the invariant. *)

\* An action that moves no call between the queue, the slots and the rest.
LEMMA QuietKeeps ==
    ASSUME IInv, UNCHANGED <<queueVars, slotVars, live, discard>>,
           remembered' \subseteq remembered,
           Queued' = Queued, Running' = Running,
           \A v \in Queued \cup Running : owner'[v] = owner[v],
           CallTypes', CostTypes', CountTypes'
    PROVE  IInv'
  <1>1. SlotsExact' /\ SlotTypes'
    BY SlotsSame, TypeParts DEF IInv
  <1>2. QueuesExact'
    BY QueuesSame DEF IInv, queueVars
  <1>3. IndexesExact'
    BY IndexesSame DEF IInv, queueVars, slotVars
  <1>4. QueueTypes' /\ HeapTypes' /\ MapTypes'
    BY DEF IInv, TypeOK, queueVars, QueueTypes, HeapTypes, MapTypes
  <1>5. TypeOK'
    BY <1>1, <1>4 DEF TypeOK, CallTypes, QueueTypes, HeapTypes, MapTypes, SlotTypes,
                      CostTypes, CountTypes
  <1>6. QED
    BY <1>1, <1>2, <1>3, <1>5 DEF IInv

\* The parts of the invariant that an action has to keep.
LEMMA Together ==
    ASSUME SlotsExact' /\ SlotTypes' /\ QueuesExact' /\ QueueTypes',
           IndexesExact' /\ HeapTypes' /\ MapTypes',
           CallTypes' /\ CostTypes' /\ CountTypes'
    PROVE  IInv'
  BY DEF IInv, TypeOK, CallTypes, QueueTypes, HeapTypes, MapTypes, SlotTypes,
         CostTypes, CountTypes

LEMMA SameTypes ==
    ASSUME IInv
    PROVE  /\ CallTypes /\ CostTypes /\ CountTypes
           /\ UNCHANGED costVars => CostTypes'
           /\ UNCHANGED <<counts, mu>> => CountTypes'
           /\ UNCHANGED callVars => CallTypes'
  <1>1. CallTypes /\ CostTypes /\ CountTypes
    BY TypeParts DEF IInv
  <1>2. QED
    BY <1>1 DEF CallTypes, CostTypes, CountTypes, costVars, callVars

LEMMA ReturnKeeps ==
    ASSUME IInv, NEW w \in Requests, w \notin Queued \cup Running, Return(w),
           UNCHANGED <<queueVars, groupVars, costVars, slotVars>>, CountTypes'
    PROVE  IInv'
  <1>1. /\ CallTypes' /\ Queued' = Queued /\ Running' = Running
        /\ \A v \in Queued \cup Running : owner'[v] = owner[v]
    BY ReturnFacts, SameTypes DEF Queued, Running
  <1>2. CostTypes' /\ UNCHANGED <<live, discard>> /\ remembered' \subseteq remembered
    BY SameTypes DEF groupVars
  <1>3. QED
    BY <1>1, <1>2, QuietKeeps

LEMMA OverBudgetKeeps ==
    ASSUME IInv, NEW w \in Requests, OverBudget(w)
    PROVE  IInv'
  BY ReturnKeeps, SameTypes DEF OverBudget, Queued, Running

LEMMA RejectKeeps ==
    ASSUME IInv, NEW w \in Requests, Reject(w)
    PROVE  IInv'
  <1>1. CountTypes'
    BY SameTypes, CountFacts DEF Reject
  <1>2. QED
    BY <1>1, ReturnKeeps DEF Reject, Queued, Running

LEMMA LearnRefusedKeeps ==
    ASSUME IInv, NEW w \in Requests, LearnRefused(w)
    PROVE  IInv'
  BY ReturnKeeps, SameTypes DEF LearnRefused, Queued, Running

LEMMA AcquireKeeps ==
    ASSUME IInv, NEW w \in Requests, NEW k \in Owners, Acquire(w, k)
    PROVE  IInv'
  <1>1. CallTypes /\ CostTypes' /\ UNCHANGED <<live, discard>>
        /\ remembered' \subseteq remembered
    BY SameTypes DEF Acquire, groupVars
  <1>2. \A v \in Requests : /\ phase'[v] = IF v = w THEN "admitting" ELSE phase[v]
                            /\ owner'[v] = IF v = w THEN k ELSE owner[v]
    BY <1>1 DEF Acquire, CallTypes
  <1>3. /\ phase' \in [Requests -> Phases] /\ owner' \in [Requests -> Owners \cup {NoOwner}]
    BY <1>1 DEF Acquire, CallTypes, Phases
  <1>4. CallTypes'
    BY <1>1, <1>2, <1>3 DEF CallTypes, Acquire
  <1>5. CountTypes'
    BY SameTypes DEF Acquire, CountTypes
  <1>6. /\ Queued' = Queued /\ Running' = Running
        /\ \A v \in Queued \cup Running : owner'[v] = owner[v]
    BY <1>2 DEF Acquire, Queued, Running
  <1>7. UNCHANGED <<queueVars, slotVars>>
    BY DEF Acquire
  <1>8. QED
    BY <1>1, <1>4, <1>5, <1>6, <1>7, QuietKeeps

LEMMA LearnGrantedKeeps ==
    ASSUME IInv, NEW w \in Requests, LearnGranted(w)
    PROVE  IInv'
  <1>1. CallTypes /\ CostTypes' /\ CountTypes' /\ UNCHANGED <<live, discard>>
        /\ remembered' \subseteq remembered
    BY SameTypes DEF LearnGranted, groupVars
  <1> DEFINE p == IF w \in cancelled THEN "releasing" ELSE "holding"
  <1>2. \A v \in Requests : phase'[v] = IF v = w THEN p ELSE phase[v]
    BY <1>1 DEF LearnGranted, CallTypes
  <1>3. phase' \in [Requests -> Phases]
    BY <1>1 DEF LearnGranted, CallTypes, Phases
  <1>4. CallTypes'
    BY <1>1, <1>2, <1>3 DEF CallTypes, LearnGranted
  <1>5. /\ Queued' = Queued /\ Running' = Running
        /\ \A v \in Queued \cup Running : owner'[v] = owner[v]
    BY <1>2 DEF LearnGranted, Queued, Running
  <1>6. UNCHANGED <<queueVars, slotVars>>
    BY DEF LearnGranted
  <1>7. QED
    BY <1>1, <1>4, <1>5, <1>6, QuietKeeps

\* Contexts that end, deadlines that pass, history that lapses, and the end of dispatch.
LEMMA AloneKeeps ==
    ASSUME IInv,
           \/ \E w \in Requests : Cancel(w) \/ Deadline(w)
           \/ \E k \in Keys : Lapse(k)
           \/ DispatchEnd
           \/ UNCHANGED vars
    PROVE  IInv'
  <1>1. /\ UNCHANGED <<phase, owner, closed, charge, queueVars, slotVars, costVars>>
        /\ UNCHANGED <<live, discard, counts>> /\ remembered' \subseteq remembered
        /\ cancelled' \subseteq cancelled \cup Requests /\ late' \subseteq late \cup Requests
        /\ mu' \in {mu, "free"}
    BY DEF Cancel, Deadline, Lapse, DispatchEnd, vars, callVars, groupVars
  <1>2. CallTypes' /\ CostTypes' /\ CountTypes'
    BY <1>1, SameTypes DEF CallTypes, CountTypes
  <1>3. /\ Queued' = Queued /\ Running' = Running
        /\ \A v \in Queued \cup Running : owner'[v] = owner[v]
    BY <1>1 DEF Queued, Running
  <1>4. QED
    BY <1>1, <1>2, <1>3, QuietKeeps

LEMMA GiveUpKeeps ==
    ASSUME IInv, NEW w \in Requests, GiveUp(w)
    PROVE  IInv'
  <1>1. w \in Queued /\ w \notin Running /\ Return(w) /\ Remove(w)
    BY DEF GiveUp, Queued, Running
  <1>2. /\ CallTypes' /\ Queued' = Queued \ {w} /\ Running' = Running
        /\ \A v \in (Queued \ {w}) \cup Running : owner'[v] = owner[v]
    BY <1>1, ReturnFacts, SameTypes DEF Queued, Running
  <1>3. CostTypes' /\ CountTypes'
    BY SameTypes, CountFacts DEF GiveUp, CountTypes
  <1>4. QED
    BY <1>1, <1>2, <1>3, RemoveKeeps, Together

\* A donor has waiters, and the newest of them waits.
LEMMA DonorFacts ==
    ASSUME IInv, NEW w \in Requests, owner[w] \in Owners, NEW k \in Donors(w)
    PROVE  /\ k \in Owners /\ queue[k] # <<>>
           /\ queue[k][Len(queue[k])] \in Of(Queued, k)
  <1>1. queue \in [Owners -> Seq(Requests)]
    BY DEF IInv, TypeOK
  <1>2. k \in Owners /\ queue[k] # <<>>
    <2>1. CASE LargerGroups(owner[w][1]) # {}
      <3>1. PICK c : k \in LongestReaders(c, 0)
        BY <2>1 DEF Donors
      <3>2. k \in Owners /\ Len(queue[k]) > 0
        BY <3>1 DEF LongestReaders
      <3>3. QED
        BY <3>2, <1>1, LenProperties
    <2>2. CASE LargerGroups(owner[w][1]) = {}
      <3>1. k \in LongestReaders(owner[w][1], Len(queue[owner[w]]) + 1)
        BY <2>2 DEF Donors
      <3>2. k \in Owners /\ Len(queue[k]) > Len(queue[owner[w]]) + 1
        BY <3>1 DEF LongestReaders
      <3>3. Len(queue[owner[w]]) \in Nat /\ Len(queue[k]) \in Nat
        BY <3>2, <1>1, LenProperties
      <3>4. Len(queue[k]) # 0
        BY <3>2, <3>3
      <3>5. QED
        BY <3>2, <3>4, <1>1, LenProperties
    <2>3. QED
      BY <2>1, <2>2
  <1>3. queue[k][Len(queue[k])] \in Range(queue[k])
    BY <1>1, <1>2, LastFacts
  <1>4. QED
    BY <1>2, <1>3 DEF IInv, QueuesExact

LEMMA EvictKeeps ==
    ASSUME IInv, NEW w \in Requests, Evict(w)
    PROVE  IInv'
  <1>1. PICK k \in Donors(w) : /\ Remove(queue[k][Len(queue[k])])
                               /\ Resolve(queue[k][Len(queue[k])], "refused")
    BY DEF Evict
  <1> DEFINE v == queue[k][Len(queue[k])]
  <1>2. owner[w] \in Owners
    BY DEF Evict, IInv, TypeOK
  <1>3. v \in Queued
    BY <1>2, DonorFacts DEF Of
  <1> HIDE DEF v
  <1>4. Remove(v) /\ Resolve(v, "refused")
    BY <1>1 DEF v
  <1>5. CallTypes' /\ Queued' = Queued \ {v} /\ Running' = Running
    BY <1>3, <1>4, SameTypes, ResolveFacts DEF Evict, CallTypes
  <1>6. \A u \in (Queued \ {v}) \cup Running : owner'[u] = owner[u]
    BY DEF Evict
  <1>7. CostTypes' /\ CountTypes'
    BY SameTypes, CountFacts DEF Evict, CountTypes
  <1>8. QED
    BY <1>3, <1>4, <1>5, <1>6, <1>7, RemoveKeeps, Together

LEMMA DispatchDeadKeeps ==
    ASSUME IInv, DispatchDead
    PROVE  IInv'
  <1> DEFINE w == NextRequest
  <1>1. ready # <<>> /\ Turn /\ Resolve(w, "refused") /\ UNCHANGED slotVars
    BY DEF DispatchDead, CanDispatch
  <1>2. w \in Queued
    BY <1>1, NextFacts
  <1>3. /\ CallTypes' /\ Queued' = Queued \ {w} /\ Running' = Running /\ owner' = owner
    BY <1>1, <1>2, SameTypes, ResolveFacts DEF DispatchDead, CallTypes
  <1>4. CostTypes' /\ CountTypes'
    BY SameTypes, CountFacts DEF DispatchDead, CountTypes
  <1>5. SlotsExact' /\ SlotTypes'
    BY <1>1, <1>3, SlotsSame, TypeParts DEF IInv
  <1>6. QueuesExact' /\ QueueTypes' /\ IndexesExact' /\ HeapTypes' /\ MapTypes'
    BY <1>1, <1>3, TurnKeeps DEF slotVars
  <1>7. QED
    BY <1>3, <1>4, <1>5, <1>6, Together

\* A call that gets a slot is counted once at each level.
LEMMA SlotsGain ==
    ASSUME IInv, NEW w \in Queued, NEW k, k = owner[w], NEW g, g = Group(k[1]),
           Running' = Running \cup {w}, owner' = owner, sActive < Workers,
           active' = [active EXCEPT ![g] = @ + 1, ![k] = @ + 1],
           sActive' = sActive + 1
    PROVE  SlotsExact' /\ SlotTypes'
  <1>1. /\ w \in Requests /\ w \notin Running /\ k \in Owners /\ g \in Keys /\ k \in Keys
        /\ k # g /\ k[1] \in Communities
    <2>1. w \in Requests /\ w \notin Running /\ k \in Owners
      BY DEF IInv, TypeOK, Queued, Running
    <2>2. QED
      BY <2>1, KeyFacts
  <1>2. /\ active \in [Keys -> Nat] /\ sActive \in Nat /\ SlotsExact
    BY DEF IInv, TypeOK
  <1>3. /\ active' \in [Keys -> Nat]
        /\ \A x \in Keys : active'[x] = IF x \in {k, g} THEN active[x] + 1 ELSE active[x]
    BY <1>1, <1>2
  <1>4. \A S \in SUBSET Running : Cardinality(S \cup {w}) = Cardinality(S) + 1
    <2>1. \A S \in SUBSET Running : S \in SUBSET Requests /\ w \notin S
      BY <1>1 DEF Running
    <2>2. QED
      BY <2>1, FiniteCalls, FS_AddElement
  <1>5. sActive' = Cardinality(Running')
    BY <1>2, <1>4 DEF SlotsExact
  <1>6. ASSUME NEW c \in Communities
        PROVE  active'[Group(c)] = Cardinality(OfGroup(Running, c)')
    <2>1. Group(c) \in Keys /\ Group(c) # k /\ (Group(c) = g <=> c = k[1])
      BY <1>1, KeyFacts
    <2>2. active[Group(c)] = Cardinality(OfGroup(Running, c))
      BY <1>2 DEF SlotsExact
    <2>3. OfGroup(Running, c)' = IF c = k[1] THEN OfGroup(Running, c) \cup {w}
                                             ELSE OfGroup(Running, c)
      BY DEF OfGroup
    <2>4. OfGroup(Running, c) \in SUBSET Running
      BY DEF OfGroup
    <2>5. QED
      BY <2>1, <2>2, <2>3, <2>4, <1>3, <1>4
  <1>7. ASSUME NEW x \in Owners
        PROVE  active'[x] = Cardinality(Of(Running, x)')
    <2>1. x \in Keys /\ x # g
      BY <1>1, KeyFacts
    <2>2. active[x] = Cardinality(Of(Running, x))
      BY <1>2 DEF SlotsExact
    <2>3. Of(Running, x)' = IF x = k THEN Of(Running, x) \cup {w} ELSE Of(Running, x)
      BY DEF Of
    <2>4. Of(Running, x) \in SUBSET Running
      BY DEF Of
    <2>5. QED
      BY <2>1, <2>2, <2>3, <2>4, <1>3, <1>4
  <1>8. sActive' <= Workers /\ sActive' \in Nat
    BY <1>2, SchedulerAssumption DEF SchedulerAssumption
  <1>9. QED
    BY <1>3, <1>5, <1>6, <1>7, <1>8 DEF SlotsExact, SlotTypes

\* A call that gives its slot back is uncounted once at each level.
LEMMA SlotsLose ==
    ASSUME IInv, NEW w \in Running, NEW k, k = owner[w], NEW g, g = Group(k[1]),
           Running' = Running \ {w}, \A v \in Running \ {w} : owner'[v] = owner[v],
           active' = [active EXCEPT ![g] = @ - 1, ![k] = @ - 1],
           sActive' = sActive - 1
    PROVE  SlotsExact' /\ SlotTypes'
  <1>1. /\ w \in Requests /\ k \in Owners /\ g \in Keys /\ k \in Keys
        /\ k # g /\ k[1] \in Communities
    <2>1. w \in Requests /\ k \in Owners
      BY DEF IInv, TypeOK, Running
    <2>2. QED
      BY <2>1, KeyFacts
  <1>2. /\ active \in [Keys -> Nat] /\ sActive \in Nat /\ SlotsExact /\ Workers \in Nat
    BY SchedulerAssumption DEF IInv, TypeOK, SchedulerAssumption
  <1>3. /\ DOMAIN active' = Keys
        /\ \A x \in Keys : active'[x] = IF x \in {k, g} THEN active[x] - 1 ELSE active[x]
    BY <1>1, <1>2
  <1>4. \A S \in SUBSET Running :
          /\ Cardinality(S \ {w}) = IF w \in S THEN Cardinality(S) - 1 ELSE Cardinality(S)
          /\ Cardinality(S \ {w}) \in Nat
    <2>1. \A S \in SUBSET Running : S \in SUBSET Requests /\ S \ {w} \in SUBSET Requests
      BY DEF Running
    <2>2. QED
      BY <2>1, FiniteCalls, FS_RemoveElement
  <1>5. sActive' = Cardinality(Running') /\ sActive' \in Nat /\ sActive' <= Workers
    <2>1. sActive = Cardinality(Running) /\ sActive <= Workers
      BY <1>2 DEF SlotsExact
    <2>2. Cardinality(Running \ {w}) = Cardinality(Running) - 1
          /\ Cardinality(Running \ {w}) \in Nat
      BY <1>4
    <2>3. sActive' = Cardinality(Running') /\ sActive' \in Nat
      BY <2>1, <2>2
    <2>4. sActive - 1 <= Workers
      BY <2>1, <1>2
    <2>5. QED
      BY <2>3, <2>4
  <1>6. ASSUME NEW c \in Communities
        PROVE  /\ active'[Group(c)] = Cardinality(OfGroup(Running, c)')
               /\ active'[Group(c)] \in Nat
    <2>1. Group(c) \in Keys /\ Group(c) # k /\ (Group(c) = g <=> c = k[1])
      BY <1>1, KeyFacts
    <2>2. active[Group(c)] = Cardinality(OfGroup(Running, c))
      BY <1>2 DEF SlotsExact
    <2>3. OfGroup(Running, c)' = OfGroup(Running, c) \ {w}
      BY DEF OfGroup
    <2>4. OfGroup(Running, c) \in SUBSET Running /\ (w \in OfGroup(Running, c) <=> c = k[1])
      BY DEF OfGroup
    <2>5. /\ Cardinality(OfGroup(Running, c)') = IF c = k[1]
                                                 THEN Cardinality(OfGroup(Running, c)) - 1
                                                 ELSE Cardinality(OfGroup(Running, c))
          /\ Cardinality(OfGroup(Running, c)') \in Nat
      BY <2>3, <2>4, <1>4
    <2>6. active'[Group(c)] = IF c = k[1] THEN active[Group(c)] - 1 ELSE active[Group(c)]
      BY <2>1, <1>3
    <2>7. QED
      BY <2>2, <2>5, <2>6
  <1>7. ASSUME NEW x \in Owners
        PROVE  active'[x] = Cardinality(Of(Running, x)') /\ active'[x] \in Nat
    <2>1. x \in Keys /\ x # g
      BY <1>1, KeyFacts
    <2>2. active[x] = Cardinality(Of(Running, x))
      BY <1>2 DEF SlotsExact
    <2>3. Of(Running, x)' = Of(Running, x) \ {w}
      BY DEF Of
    <2>4. Of(Running, x) \in SUBSET Running /\ (w \in Of(Running, x) <=> x = k)
      BY DEF Of
    <2>5. /\ Cardinality(Of(Running, x)') = IF x = k THEN Cardinality(Of(Running, x)) - 1
                                                     ELSE Cardinality(Of(Running, x))
          /\ Cardinality(Of(Running, x)') \in Nat
      BY <2>3, <2>4, <1>4
    <2>6. active'[x] = IF x = k THEN active[x] - 1 ELSE active[x]
      BY <2>1, <1>3
    <2>7. QED
      BY <2>2, <2>5, <2>6
  <1>8. active' \in [Keys -> Nat]
    <2>1. \A x \in Keys : active'[x] \in Nat
      BY <1>6, <1>7, KeyFacts
    <2>2. QED
      BY <2>1, <1>2
  <1>9. QED
    BY <1>5, <1>6, <1>7, <1>8 DEF SlotsExact, SlotTypes

LEMMA LargerFacts ==
    ASSUME NEW a \in Nat, NEW b \in Int
    PROVE  Larger(a, b) \in Nat /\ Larger(a, b) >= a /\ Larger(a, b) >= b
  BY DEF Larger

LEMMA DispatchRunKeeps ==
    ASSUME IInv, DispatchRun
    PROVE  IInv'
  <1> DEFINE w == NextRequest
             k == NextReader
             g == NextGroup
             c == NextGroup[1]
  <1>1. /\ ready # <<>> /\ sActive < Workers /\ Turn /\ Resolve(w, "granted") /\ Charge(w)
        /\ active' = [active EXCEPT ![g] = @ + 1, ![k] = @ + 1]
        /\ sActive' = sActive + 1
        /\ UNCHANGED <<owner, cancelled, late, estimate, counts, mu>>
    BY DEF DispatchRun, CanDispatch
  <1>2. /\ g = Group(c) /\ c \in Communities /\ k \in Owners /\ k[1] = c
        /\ w \in Queued /\ owner[w] = k
    BY <1>1, NextFacts
  <1> HIDE DEF w, k, g, c
  <1>3. g \in Keys /\ k \in Keys /\ w \in Requests /\ k # g
    BY <1>2, KeyFacts DEF Queued
  <1>4. CostTypes
    BY SameTypes
  <1>5. /\ clock' = Larger(clock, service[g])
        /\ groupClock' = [groupClock EXCEPT ![c] = Larger(@, service[k])]
        /\ service' = [service EXCEPT ![g] = @ + estimate[g], ![k] = @ + estimate[k]]
        /\ charge' = [charge EXCEPT ![w] = <<estimate[g], estimate[k]>>]
    BY <1>1 DEF Charge, g, k, c
  <1>6. CostTypes'
    <2>1. /\ service \in [Keys -> Nat] /\ estimate \in [Keys -> Nat]
          /\ groupClock \in [Communities -> Nat] /\ clock \in Nat
      BY <1>4 DEF CostTypes
    <2>2. /\ service[g] \in Nat /\ service[k] \in Nat /\ estimate[g] \in Nat
          /\ estimate[k] \in Nat /\ groupClock[c] \in Nat
      BY <1>2, <1>3, <2>1
    <2>3. Larger(clock, service[g]) \in Nat /\ Larger(groupClock[c], service[k]) \in Nat
      BY <2>1, <2>2 DEF Larger
    <2>4. groupClock' \in [Communities -> Nat]
      BY <2>1, <2>3, <1>2, <1>5
    <2>5. service' \in [Keys -> Nat]
      BY <2>1, <2>2, <1>2, <1>3, <1>5
    <2>6. estimate' = estimate /\ clock' \in Nat
      BY <2>3, <1>1, <1>5
    <2>7. QED
      BY <2>1, <2>4, <2>5, <2>6 DEF CostTypes
  <1>7. charge' \in [Requests -> Nat \X Nat]
    BY <1>3, <1>4, <1>5, SameTypes DEF CostTypes, CallTypes
  <1>8. CallTypes' /\ Queued' = Queued \ {w} /\ Running' = Running \cup {w}
    BY <1>1, <1>2, <1>7, SameTypes, ResolveFacts
  <1>9. CountTypes'
    BY <1>1, SameTypes
  <1>10. SlotsExact' /\ SlotTypes'
    BY <1>1, <1>2, <1>8, SlotsGain
  <1>11. \A x \in Keys \ {k, g} : active'[x] = active[x]
    BY <1>1 DEF IInv, TypeOK
  <1>12. QueuesExact' /\ QueueTypes' /\ IndexesExact' /\ HeapTypes' /\ MapTypes'
    BY <1>1, <1>8, <1>11, TurnKeeps DEF w, k, g
  <1>13. QED
    BY <1>6, <1>8, <1>9, <1>10, <1>12, Together

LEMMA FinishKeeps ==
    ASSUME IInv, NEW w \in Requests, NEW d \in Durations, Finish(w, d)
    PROVE  IInv'
  <1> DEFINE k == owner[w]
             c == owner[w][1]
             g == Group(owner[w][1])
  <1>1. /\ w \in Running /\ w \notin Queued
        /\ service' = [service EXCEPT ![g] = Corrected(g, charge[w][1], d, clock),
                                      ![k] = Corrected(k, charge[w][2], d, groupClock[c])]
        /\ estimate' = [estimate EXCEPT ![g] = Smoothed(g, d), ![k] = Smoothed(k, d)]
        /\ active' = [active EXCEPT ![g] = @ - 1, ![k] = @ - 1]
        /\ sActive' = sActive - 1
        /\ UNCHANGED <<queueVars, clock, groupClock>>
        /\ Retire(k) /\ Return(w) /\ Count("completed") /\ mu' = "dispatching"
    BY DEF Finish, Running, Queued
  <1>2. /\ k \in Owners /\ c \in Communities /\ k \in live /\ g \in live
        /\ k \in Keys /\ g \in Keys
    BY <1>1, InUse, KeyFacts
  <1>3. /\ CallTypes' /\ Queued' = Queued /\ Running' = Running \ {w}
        /\ \A v \in Requests \ {w} : owner'[v] = owner[v]
    BY <1>1, ReturnFacts, SameTypes
  <1>4. \A v \in Queued \cup (Running \ {w}) : owner'[v] = owner[v]
    BY <1>1, <1>3 DEF Queued, Running
  <1> HIDE DEF k, c, g
  <1>5. CostTypes'
    <2>1. /\ service \in [Keys -> Nat] /\ estimate \in [Keys -> Nat]
          /\ groupClock \in [Communities -> Nat] /\ clock \in Nat
      BY SameTypes DEF CostTypes
    <2>2. d \in Nat /\ charge[w][1] \in Nat /\ charge[w][2] \in Nat
      BY SchedulerAssumption, SameTypes DEF SchedulerAssumption, CallTypes
    <2>3. Smoothed(g, d) \in Nat /\ Smoothed(k, d) \in Nat
      <3>1. \A n \in Nat : n \div 4 \in Nat
        OBVIOUS
      <3>2. /\ estimate[g] * 3 + d \in Nat /\ estimate[k] * 3 + d \in Nat
        BY <2>1, <2>2, <1>2
      <3>3. QED
        BY <3>1, <3>2 DEF Smoothed
    <2>4. \A x, y \in Nat, z \in Keys : Corrected(z, x, d, y) \in Nat
      <3>1. SUFFICES ASSUME NEW x \in Nat, NEW y \in Nat, NEW z \in Keys
                     PROVE  Corrected(z, x, d, y) \in Nat
        OBVIOUS
      <3>2. service[z] + d - x \in Int
        BY <2>1, <2>2
      <3>3. Larger(0, service[z] + d - x) \in Nat
        BY <3>2, LargerFacts
      <3>4. \A u, v \in Nat : Larger(u, v) \in Nat
        BY DEF Larger
      <3>5. QED
        BY <3>3, <3>4 DEF Corrected
    <2>5. groupClock[c] \in Nat
      BY <1>2, <2>1
    <2>6. /\ Corrected(g, charge[w][1], d, clock) \in Nat
          /\ Corrected(k, charge[w][2], d, groupClock[c]) \in Nat
      BY <1>2, <2>1, <2>2, <2>4, <2>5
    <2>7. service' \in [Keys -> Nat]
      BY <1>1, <2>1, <2>6
    <2>8. estimate' \in [Keys -> Nat]
      BY <1>1, <2>1, <2>3
    <2>9. QED
      BY <1>1, <2>1, <2>7, <2>8 DEF CostTypes
  <1>6. CountTypes'
    BY <1>1, SameTypes, CountFacts
  <1>7. SlotsExact' /\ SlotTypes'
    BY <1>1, <1>3, <1>4, SlotsLose DEF k, c, g
  <1>8. /\ queue' = queue /\ waiting' = waiting /\ sWaiting' = sWaiting
        /\ waitingBytes' = waitingBytes /\ ready' = ready /\ groupReady' = groupReady
    BY <1>1 DEF queueVars
  <1>9. QueuesExact' /\ QueueTypes'
    <2>1. QueuesExact'
      BY <1>3, <1>4, <1>8, QueuesSame DEF IInv
    <2>2. QED
      BY <2>1, <1>8 DEF IInv, TypeOK, QueueTypes
  <1>10. HeapsExact' /\ HeapTypes'
    <2>1. /\ \A x \in Owners : Of(Queued, x)' = Of(Queued, x)
          /\ \A x \in Communities : OfGroup(Queued, x)' = OfGroup(Queued, x)
      BY <1>3, <1>4 DEF Of, OfGroup
    <2>2. HeapsExact'
      BY <2>1, <1>8, IndexParts DEF HeapsExact, IInv
    <2>3. QED
      BY <2>2, <1>8 DEF IInv, TypeOK, HeapTypes
  <1>11. \A x \in Keys \ {k, Group(k[1])} : Idle(x)' <=> Idle(x)
    <2>1. \A x \in Keys \ {k, Group(k[1])} : active'[x] = active[x]
      BY <1>1 DEF IInv, TypeOK, k, g
    <2>2. QED
      BY <2>1, <1>2, <1>8, IdleSame
  <1>12. /\ live' = {x \in Keys : ~Idle(x)'} /\ live' \cap remembered' = {}
         /\ remembered' \subseteq Keys /\ discard' \subseteq Communities
    <2>1. /\ live = {x \in Keys : ~Idle(x)} /\ live \cap remembered = {}
          /\ remembered \subseteq Keys /\ discard \subseteq Communities
      BY DEF IInv, IndexesExact, TypeOK
    <2>2. Group(k[1]) \in live
      BY <1>2 DEF k, g
    <2>3. QED
      BY <1>1, <1>2, <1>11, <2>1, <2>2, RetireExact
  <1>13. IndexesExact' /\ MapTypes'
    BY <1>10, <1>12 DEF IndexesExact, HeapsExact, MapTypes
  <1>14. QED
    BY <1>3, <1>5, <1>6, <1>7, <1>9, <1>10, <1>13, Together

LEMMA EnqueueKeeps ==
    ASSUME IInv, NEW w \in Requests, Enqueue(w)
    PROVE  IInv'
  <1> DEFINE k == owner[w]
             c == owner[w][1]
             g == Group(owner[w][1])
             known == live \cup remembered
             gClock == IF g \in known THEN groupClock[c] ELSE 0
  <1>1. /\ phase[w] = "admitting"
        /\ service' = [service EXCEPT ![g] = Restored(g, clock), ![k] = Restored(k, gClock)]
        /\ estimate' = [x \in Keys |-> IF x \in {g, k} \ known THEN InitialEstimate
                                                              ELSE estimate[x]]
        /\ groupClock' = [groupClock EXCEPT ![c] = gClock]
        /\ live' = live \cup {g, k} /\ remembered' = remembered \ {g, k}
    BY DEF Enqueue
  <1>2. /\ queue' = [queue EXCEPT ![k] = Append(@, w)]
        /\ waiting' = [waiting EXCEPT ![c] = @ + 1]
        /\ sWaiting' = sWaiting + 1
        /\ groupReady' = IF Has(groupReady[c], k) THEN groupReady
                         ELSE [groupReady EXCEPT ![c] = Append(@, k)]
        /\ ready' = IF Has(ready, g) THEN ready ELSE Append(ready, g)
        /\ phase' = [phase EXCEPT ![w] = "queued"] /\ mu' = "dispatching"
        /\ UNCHANGED <<owner, cancelled, late, closed, charge, clock, discard, slotVars, counts>>
    BY DEF Enqueue
  <1>3. k \in Owners /\ k[1] = c /\ w \notin Queued
    BY <1>1 DEF IInv, TypeOK, Queued
  <1>4. /\ c \in Communities /\ k \in Keys /\ g \in Keys /\ k # g /\ k[2] # NoReader
        /\ g = Group(c) /\ g[1] = c /\ g[2] = NoReader /\ k[1] = c
    BY <1>3, KeyFacts
  <1> HIDE DEF k, c, g, known, gClock
  <1>5. \A v \in Requests : phase'[v] = IF v = w THEN "queued" ELSE phase[v]
    BY <1>2, SameTypes DEF CallTypes
  <1>6. Queued' = Queued \cup {w} /\ Running' = Running /\ owner' = owner
    BY <1>1, <1>2, <1>5 DEF Queued, Running
  <1>7. CallTypes'
    <2>1. phase' \in [Requests -> Phases]
      BY <1>2, SameTypes DEF CallTypes, Phases
    <2>2. QED
      BY <1>2, <1>3, <1>5, <2>1, SameTypes DEF CallTypes, k
  <1>8. CountTypes'
    BY <1>2, SameTypes DEF CountTypes
  <1>9. SlotsExact' /\ SlotTypes'
    BY <1>2, <1>6, SlotsSame, TypeParts DEF IInv
  <1>10. CostTypes'
    <2>1. /\ service \in [Keys -> Nat] /\ estimate \in [Keys -> Nat]
          /\ groupClock \in [Communities -> Nat] /\ clock \in Nat
      BY SameTypes DEF CostTypes
    <2>2. gClock \in Nat /\ InitialEstimate \in Nat
      BY <1>4, <2>1, SchedulerAssumption DEF gClock, SchedulerAssumption
    <2>3. \A x \in Keys, y \in Nat : Restored(x, y) \in Nat
      BY <2>1 DEF Restored, Larger
    <2>4. service' \in [Keys -> Nat]
      <3>1. Restored(g, clock) \in Nat /\ Restored(k, gClock) \in Nat
        BY <1>4, <2>1, <2>2, <2>3
      <3>2. QED
        BY <1>1, <1>4, <2>1, <3>1
    <2>5. estimate' \in [Keys -> Nat]
      BY <1>1, <2>1, <2>2
    <2>6. groupClock' \in [Communities -> Nat]
      BY <1>1, <2>1, <2>2
    <2>7. QED
      BY <1>2, <2>1, <2>4, <2>5, <2>6 DEF CostTypes
  <1>11. /\ \A x \in Owners : Of(Queued, x)' = IF x = k THEN Of(Queued, x) \cup {w}
                                                       ELSE Of(Queued, x)
         /\ \A x \in Communities : OfGroup(Queued, x)' = IF x = c THEN OfGroup(Queued, x) \cup {w}
                                                                 ELSE OfGroup(Queued, x)
    BY <1>6 DEF Of, OfGroup, k, c
  <1>12. ASSUME NEW x \in Owners
         PROVE  /\ queue'[x] \in Seq(Requests) /\ IsInjective(queue'[x])
                /\ Range(queue'[x]) = Of(Queued, x)'
    <2>1. /\ queue[x] \in Seq(Requests) /\ IsInjective(queue[x])
          /\ Range(queue[x]) = Of(Queued, x)
      BY DEF IInv, TypeOK, QueuesExact
    <2>2. CASE x = k
      <3>1. queue'[x] = Append(queue[x], w)
        BY <1>2, <1>3, <2>2 DEF IInv, TypeOK
      <3>2. w \notin Range(queue[x])
        BY <1>3, <2>1 DEF Of
      <3>3. /\ Append(queue[x], w) \in Seq(Requests)
            /\ Range(Append(queue[x], w)) = Range(queue[x]) \cup {w}
            /\ IsInjective(Append(queue[x], w))
        BY <2>1, <3>2, AppendFacts
      <3>4. QED
        BY <2>1, <2>2, <3>1, <3>3, <1>11
    <2>3. CASE x # k
      <3>1. queue'[x] = queue[x]
        BY <1>2, <2>3 DEF IInv, TypeOK
      <3>2. QED
        BY <2>1, <2>3, <3>1, <1>11
    <2>4. QED
      BY <2>2, <2>3
  <1>13. ASSUME NEW S \in SUBSET Queued
         PROVE  Cardinality(S \cup {w}) = Cardinality(S) + 1
    <2>1. S \in SUBSET Requests /\ w \notin S
      BY <1>3 DEF Queued
    <2>2. QED
      BY <2>1, FiniteCalls, FS_AddElement
  <1>14. \A x \in Communities : waiting'[x] = Cardinality(OfGroup(Queued, x)')
    <2>1. SUFFICES ASSUME NEW x \in Communities
                   PROVE  waiting'[x] = Cardinality(OfGroup(Queued, x)')
      OBVIOUS
    <2>2. waiting[x] = Cardinality(OfGroup(Queued, x)) /\ OfGroup(Queued, x) \in SUBSET Queued
      BY DEF IInv, QueuesExact, OfGroup
    <2>3. waiting'[x] = IF x = c THEN waiting[x] + 1 ELSE waiting[x]
      BY <1>2 DEF IInv, TypeOK
    <2>4. QED
      BY <2>2, <2>3, <1>11, <1>13
  <1>15. sWaiting' = Cardinality(Queued')
    BY <1>2, <1>6, <1>13 DEF IInv, QueuesExact
  <1>16. QueuesExact' /\ QueueTypes'
    <2>1. QueuesExact'
      BY <1>12, <1>14, <1>15 DEF QueuesExact
    <2>2. queue' \in [Owners -> Seq(Requests)]
      BY <1>2, <1>12 DEF IInv, TypeOK
    <2>3. waiting' \in [Communities -> Nat] /\ sWaiting' \in Nat
      <3>1. waiting \in [Communities -> Nat] /\ sWaiting \in Nat
        BY DEF IInv, TypeOK
      <3>2. waiting' = [waiting EXCEPT ![c] = @ + 1] /\ sWaiting' = sWaiting + 1
        BY <1>2
      <3>3. QED
        BY <3>1, <3>2, <1>4
    <2>4. QED
      BY <2>1, <2>2, <2>3 DEF QueueTypes
  <1>17. ready' \in Seq(Keys) /\ IsInjective(ready') /\ Range(ready') = Range(ready) \cup {g}
    <2>1. ready \in Seq(Keys) /\ IsInjective(ready)
      BY DEF IInv, TypeOK, IndexesExact
    <2>2. Has(ready, g) <=> g \in Range(ready)
      BY <2>1, RangeFacts
    <2>3. /\ Append(ready, g) \in Seq(Keys)
          /\ Range(Append(ready, g)) = Range(ready) \cup {g}
          /\ g \notin Range(ready) => IsInjective(Append(ready, g))
      BY <1>4, <2>1, AppendFacts
    <2>4. CASE g \in Range(ready)
      BY <1>2, <2>1, <2>2, <2>4
    <2>5. CASE g \notin Range(ready)
      BY <1>2, <2>2, <2>3, <2>5
    <2>6. QED
      BY <2>4, <2>5
  <1> DEFINE h == IF Has(groupReady[c], k) THEN groupReady[c] ELSE Append(groupReady[c], k)
  <1>18. h \in Seq(Owners) /\ IsInjective(h) /\ Range(h) = Range(groupReady[c]) \cup {k}
    <2> DEFINE r == groupReady[c]
    <2>1. r \in Seq(Owners) /\ IsInjective(r)
      BY <1>4 DEF IInv, TypeOK, IndexesExact
    <2> HIDE DEF r
    <2>2. Has(r, k) <=> k \in Range(r)
      BY <2>1, RangeFacts
    <2>3. /\ Append(r, k) \in Seq(Owners)
          /\ Range(Append(r, k)) = Range(r) \cup {k}
          /\ k \notin Range(r) => IsInjective(Append(r, k))
      BY <1>3, <2>1, AppendFacts
    <2>4. h = IF Has(r, k) THEN r ELSE Append(r, k)
      BY DEF r
    <2> HIDE DEF h
    <2>5. h \in Seq(Owners) /\ IsInjective(h) /\ Range(h) = Range(r) \cup {k}
      <3>1. CASE k \in Range(r)
        BY <2>1, <2>2, <2>4, <3>1
      <3>2. CASE k \notin Range(r)
        BY <2>2, <2>3, <2>4, <3>2
      <3>3. QED
        BY <3>1, <3>2
    <2>6. QED
      BY <2>5 DEF r
  <1>19. groupReady' = [groupReady EXCEPT ![c] = h] /\ groupReady' \in [Communities -> Seq(Owners)]
    <2>1. groupReady \in [Communities -> Seq(Owners)]
      BY DEF IInv, TypeOK
    <2>2. groupReady' = [groupReady EXCEPT ![c] = h]
      BY <1>2, <2>1
    <2> HIDE DEF h
    <2>3. QED
      BY <1>18, <2>1, <2>2
  <1> HIDE DEF h
  <1>20. Range(ready') = {Group(x) : x \in {y \in Communities : OfGroup(Queued, y)' # {}}}
    <2> DEFINE W == {y \in Communities : OfGroup(Queued, y) # {}}
               V == {y \in Communities : OfGroup(Queued, y)' # {}}
    <2>1. Range(ready) = {Group(x) : x \in W}
      BY DEF IInv, IndexesExact
    <2>2. V = W \cup {c}
      BY <1>4, <1>11
    <2> HIDE DEF W, V
    <2>3. {Group(x) : x \in W \cup {c}} = {Group(x) : x \in W} \cup {g}
      BY <1>4
    <2>4. Range(ready') = {Group(x) : x \in V}
      BY <1>17, <2>1, <2>2, <2>3
    <2>5. QED
      BY <2>4 DEF V
  <1>21. ASSUME NEW y \in Communities
         PROVE  /\ Range(groupReady'[y]) = {x \in Owners : x[1] = y /\ Of(Queued, x)' # {}}
                /\ IsInjective(groupReady'[y])
    <2> DEFINE W == {x \in Owners : x[1] = y /\ Of(Queued, x) # {}}
               V == {x \in Owners : x[1] = y /\ Of(Queued, x)' # {}}
    <2>1. Range(groupReady[y]) = W /\ IsInjective(groupReady[y])
      BY DEF IInv, IndexesExact
    <2>2. groupReady'[y] = IF y = c THEN h ELSE groupReady[y]
      BY <1>19 DEF IInv, TypeOK
    <2>3. V = IF y = c THEN W \cup {k} ELSE W
      BY <1>3, <1>4, <1>11
    <2> HIDE DEF V, W
    <2>4. Range(groupReady'[y]) = V /\ IsInjective(groupReady'[y])
      BY <1>18, <2>1, <2>2, <2>3
    <2>5. QED
      BY <2>4 DEF V
  <1>22. MapsExact'
    <2>1. \A x \in {k, g} : ~Idle(x)'
      <3>1. queue'[k] # <<>>
        <4>1. queue'[k] \in Seq(Requests) /\ w \in Range(queue'[k])
          BY <1>3, <1>11, <1>12
        <4>2. QED
          BY <4>1, RangeFacts
      <3>2. waiting'[c] # 0
        <4>1. waiting[c] \in Nat /\ waiting'[c] = waiting[c] + 1
          BY <1>2, <1>4 DEF IInv, TypeOK
        <4>2. QED
          BY <4>1
      <3>3. SUFFICES ASSUME NEW x \in {k, g}
                     PROVE  ~Idle(x)'
        OBVIOUS
      <3>4. CASE x = k
        BY <3>1, <3>4, <1>4 DEF Idle
      <3>5. CASE x = g
        BY <3>2, <3>5, <1>4 DEF Idle
      <3>6. QED
        BY <3>4, <3>5
    <2>2. \A x \in Keys \ {k, Group(k[1])} : Idle(x)' <=> Idle(x)
      <3>1. /\ \A x \in Keys \ {k, Group(k[1])} : active'[x] = active[x]
            /\ \A x \in Owners \ {k} : queue'[x] = queue[x]
            /\ \A x \in Communities \ {k[1]} : waiting'[x] = waiting[x]
        BY <1>2, <1>4 DEF IInv, TypeOK, slotVars
      <3>2. QED
        BY <1>3, <3>1, IdleSame
    <2>3. live = {x \in Keys : ~Idle(x)} /\ live \cap remembered = {}
      BY DEF IInv, IndexesExact
    <2>4. live' = {x \in Keys : ~Idle(x)'}
      <3>1. \A x \in Keys : x \in live' <=> ~Idle(x)'
        <4>1. SUFFICES ASSUME NEW x \in Keys
                       PROVE  x \in live' <=> ~Idle(x)'
          OBVIOUS
        <4>2. CASE x = k \/ x = g
          BY <4>2, <1>1, <2>1
        <4>3. CASE x # k /\ x # g
          <5>1. Idle(x)' <=> Idle(x)
            BY <4>3, <1>4, <2>2
          <5>2. x \in live <=> ~Idle(x)
            BY <2>3
          <5>3. QED
            BY <5>1, <5>2, <4>3, <1>1
        <4>4. QED
          BY <4>2, <4>3
      <3>2. live' \subseteq Keys
        BY <1>1, <1>4, <2>3
      <3>3. QED
        BY <3>1, <3>2
    <2>5. live' \cap remembered' = {}
      BY <1>1, <2>3
    <2>6. QED
      BY <2>4, <2>5 DEF MapsExact
  <1>23. IndexesExact'
    BY <1>17, <1>20, <1>21, <1>22 DEF IndexesExact, MapsExact
  <1>24. HeapTypes' /\ MapTypes'
    BY <1>1, <1>2, <1>4, <1>17, <1>19 DEF HeapTypes, MapTypes, IInv, TypeOK
  <1>25. QED
    BY <1>7, <1>8, <1>9, <1>10, <1>16, <1>23, <1>24, Together

LEMMA DropKeeps ==
    ASSUME IInv, NEW c \in Communities, Drop(c)
    PROVE  IInv'
  <1> DEFINE D == OfGroup(Queued, c)
             own == {k \in Keys : k[1] = c}
  <1>1. /\ phase' = [w \in Requests |-> IF w \in D THEN "refused" ELSE phase[w]]
        /\ closed' = [w \in Requests |-> IF w \in D THEN closed[w] + 1 ELSE closed[w]]
        /\ queue' = [k \in Owners |-> IF k[1] = c THEN <<>> ELSE queue[k]]
        /\ waiting' = [waiting EXCEPT ![c] = 0]
        /\ sWaiting' = sWaiting - Cardinality(D)
        /\ groupReady' = [groupReady EXCEPT ![c] = <<>>]
        /\ ready' = Without(ready, Group(c))
        /\ UNCHANGED slotVars
    BY DEF Drop
  <1>2. /\ live' = {k \in live : k[1] = c => active[k] > 0}
        /\ remembered' = remembered \ own
        /\ discard' = IF Group(c) \in live' THEN discard \cup {c} ELSE discard \ {c}
        /\ counts' = [counts EXCEPT !["cancelled"] = @ + Cardinality(D)]
        /\ mu' = "dispatching"
        /\ UNCHANGED <<owner, cancelled, late, charge, costVars>>
    BY DEF Drop
  <1>3. D \in SUBSET Requests /\ D \subseteq Queued /\ Cardinality(D) \in Nat
    <2>1. D \in SUBSET Requests /\ D \subseteq Queued
      BY DEF OfGroup, Queued
    <2>2. QED
      BY <2>1, FiniteCalls
  <1>4. \A w \in Requests : w \in D <=> w \in Queued /\ owner[w][1] = c
    BY DEF OfGroup, Queued
  <1> HIDE DEF D, own
  <1>5. /\ Queued' = Queued \ D /\ Running' = Running
        /\ \A v \in Queued \cup Running : owner'[v] = owner[v]
    BY <1>1, <1>2, <1>3 DEF Queued, Running
  <1>6. CallTypes'
    <2>1. CallTypes
      BY SameTypes
    <2>2. phase' \in [Requests -> Phases] /\ closed' \in [Requests -> Nat]
      BY <1>1, <2>1 DEF CallTypes, Phases
    <2>3. \A w \in Requests : phase'[w] \notin {"idle", "done"} => owner'[w] \in Owners
      BY <1>1, <1>2, <1>3, <2>1 DEF CallTypes, Queued
    <2>4. QED
      BY <1>2, <2>1, <2>2, <2>3 DEF CallTypes
  <1>7. CostTypes' /\ CountTypes'
    BY <1>2, <1>3, SameTypes DEF CountTypes
  <1>8. SlotsExact' /\ SlotTypes'
    BY <1>1, <1>5, SlotsSame, TypeParts DEF IInv
  <1>9. /\ \A k \in Owners : Of(Queued, k)' = IF k[1] = c THEN {} ELSE Of(Queued, k)
        /\ \A d \in Communities : OfGroup(Queued, d)' = IF d = c THEN {} ELSE OfGroup(Queued, d)
    <2>1. \A v \in Queued : v \in Requests /\ (v \in D <=> owner[v][1] = c)
      BY <1>4 DEF Queued
    <2>2. QED
      BY <1>2, <1>5, <2>1 DEF Of, OfGroup
  <1>10. ASSUME NEW k \in Owners
         PROVE  /\ queue'[k] \in Seq(Requests) /\ IsInjective(queue'[k])
                /\ Range(queue'[k]) = Of(Queued, k)'
    <2>1. /\ queue[k] \in Seq(Requests) /\ IsInjective(queue[k])
          /\ Range(queue[k]) = Of(Queued, k)
      BY DEF IInv, TypeOK, QueuesExact
    <2>2. queue'[k] = IF k[1] = c THEN <<>> ELSE queue[k]
      BY <1>1
    <2>3. /\ <<>> \in Seq(Requests) /\ IsInjective(<<>>) /\ Range(<<>>) = {}
      BY DEF IsInjective, Range
    <2>4. QED
      BY <2>1, <2>2, <2>3, <1>9
  <1>11. ASSUME NEW d \in Communities
         PROVE  waiting'[d] = Cardinality(OfGroup(Queued, d)') /\ waiting'[d] \in Nat
    <2>1. waiting[d] = Cardinality(OfGroup(Queued, d)) /\ waiting[d] \in Nat
      BY DEF IInv, TypeOK, QueuesExact
    <2>2. waiting'[d] = IF d = c THEN 0 ELSE waiting[d]
      BY <1>1 DEF IInv, TypeOK
    <2>3. Cardinality({}) = 0
      BY FS_EmptySet
    <2>4. QED
      BY <2>1, <2>2, <2>3, <1>9
  <1>12. sWaiting' = Cardinality(Queued') /\ sWaiting' \in Nat
    <2>1. Queued \in SUBSET Requests /\ Queued' \in SUBSET Requests
      BY DEF Queued
    <2>2. Cardinality(Queued \ D) = Cardinality(Queued) - Cardinality(Queued \cap D)
      BY <2>1, FiniteCalls, FS_Difference
    <2>3. Queued \cap D = D
      BY <1>3
    <2>4. sWaiting = Cardinality(Queued)
      BY DEF IInv, QueuesExact
    <2>5. sWaiting' = Cardinality(Queued')
      BY <1>1, <1>5, <2>2, <2>3, <2>4
    <2>6. QED
      BY <2>1, <2>5, FiniteCalls
  <1>13. QueuesExact' /\ QueueTypes'
    <2>1. QueuesExact'
      BY <1>10, <1>11, <1>12 DEF QueuesExact
    <2>2. queue' \in [Owners -> Seq(Requests)]
      BY <1>1, <1>10
    <2>3. waiting' \in [Communities -> Nat]
      BY <1>1, <1>11 DEF IInv, TypeOK
    <2>4. QED
      BY <1>12, <2>1, <2>2, <2>3 DEF QueueTypes
  <1>14. /\ ready' \in Seq(Keys) /\ IsInjective(ready')
         /\ Range(ready') = Range(ready) \ {Group(c)}
    BY <1>1, WithoutFacts DEF IInv, TypeOK, IndexesExact
  <1>15. Range(ready') = {Group(d) : d \in {e \in Communities : OfGroup(Queued, e)' # {}}}
    <2> DEFINE W == {e \in Communities : OfGroup(Queued, e) # {}}
               V == {e \in Communities : OfGroup(Queued, e)' # {}}
    <2>1. Range(ready) = {Group(d) : d \in W}
      BY DEF IInv, IndexesExact
    <2>2. V = W \ {c} /\ W \subseteq Communities
      BY <1>9
    <2> HIDE DEF W, V
    <2>3. {Group(d) : d \in W \ {c}} = {Group(d) : d \in W} \ {Group(c)}
      BY <2>2, KeyFacts
    <2>4. Range(ready') = {Group(d) : d \in V}
      BY <1>14, <2>1, <2>2, <2>3
    <2>5. QED
      BY <2>4 DEF V
  <1>16. ASSUME NEW d \in Communities
         PROVE  /\ groupReady'[d] \in Seq(Owners) /\ IsInjective(groupReady'[d])
                /\ Range(groupReady'[d]) = {k \in Owners : k[1] = d /\ Of(Queued, k)' # {}}
    <2> DEFINE W == {k \in Owners : k[1] = d /\ Of(Queued, k) # {}}
               V == {k \in Owners : k[1] = d /\ Of(Queued, k)' # {}}
    <2>1. /\ Range(groupReady[d]) = W /\ IsInjective(groupReady[d])
          /\ groupReady[d] \in Seq(Owners)
      BY DEF IInv, IndexesExact, TypeOK
    <2>2. groupReady'[d] = IF d = c THEN <<>> ELSE groupReady[d]
      BY <1>1 DEF IInv, TypeOK
    <2>3. /\ <<>> \in Seq(Owners) /\ IsInjective(<<>>) /\ Range(<<>>) = {}
      BY DEF IsInjective, Range
    <2>4. V = IF d = c THEN {} ELSE W
      BY <1>9
    <2> HIDE DEF V, W
    <2>5. /\ groupReady'[d] \in Seq(Owners) /\ IsInjective(groupReady'[d])
          /\ Range(groupReady'[d]) = V
      BY <2>1, <2>2, <2>3, <2>4
    <2>6. QED
      BY <2>5 DEF V
  <1>17. live' = {x \in Keys : ~Idle(x)'} /\ live' \cap remembered' = {}
    <2>1. live = {x \in Keys : ~Idle(x)} /\ live \cap remembered = {}
      BY DEF IInv, IndexesExact
    <2>2. \A x \in Keys : x \in live' <=> ~Idle(x)'
      <3>1. SUFFICES ASSUME NEW x \in Keys
                     PROVE  x \in live' <=> ~Idle(x)'
        OBVIOUS
      <3>2. active'[x] = active[x] /\ active[x] \in Nat
        BY <1>1 DEF slotVars, IInv, TypeOK
      <3>3. x \in live <=> ~Idle(x)
        BY <2>1
      <3>4. CASE x[1] = c
        <4>1. Idle(x)' <=> active[x] = 0
          <5>1. CASE x \in Owners
            <6>1. queue'[x] = <<>> /\ x[2] # NoReader
              BY <1>1, <3>4, <5>1, KeyFacts
            <6>2. QED
              BY <6>1, <3>2 DEF Idle
          <5>2. CASE x \notin Owners
            <6>1. waiting'[x[1]] = 0
              BY <1>1, <3>4 DEF IInv, TypeOK
            <6>2. x[2] = NoReader
              BY <5>2, KeyFacts
            <6>3. QED
              BY <6>1, <6>2, <3>2 DEF Idle
          <5>3. QED
            BY <5>1, <5>2
        <4>2. active[x] > 0 => ~Idle(x)
          BY <3>2 DEF Idle
        <4>3. QED
          BY <4>1, <4>2, <3>2, <3>3, <3>4, <1>2
      <3>5. CASE x[1] # c
        <4>1. Idle(x)' <=> Idle(x)
          <5>1. CASE x \in Owners
            <6>1. queue'[x] = queue[x] /\ x[2] # NoReader
              BY <1>1, <3>5, <5>1, KeyFacts
            <6>2. QED
              BY <6>1, <3>2 DEF Idle
          <5>2. CASE x \notin Owners
            <6>1. x[1] \in Communities /\ x[2] = NoReader
              BY <5>2, KeyFacts
            <6>2. waiting \in [Communities -> Nat]
              BY DEF IInv, TypeOK
            <6>3. waiting'[x[1]] = waiting[x[1]]
              BY <1>1, <3>5, <6>1, <6>2
            <6>4. QED
              BY <6>1, <6>3, <3>2 DEF Idle
          <5>3. QED
            BY <5>1, <5>2
        <4>2. QED
          BY <4>1, <3>3, <3>5, <1>2
      <3>6. QED
        BY <3>4, <3>5
    <2>3. live' \subseteq Keys
      BY <1>2, <2>1
    <2>4. live' = {x \in Keys : ~Idle(x)'}
      BY <2>2, <2>3
    <2>5. QED
      BY <2>1, <2>4, <1>2
  <1>18. IndexesExact'
    BY <1>14, <1>15, <1>16, <1>17 DEF IndexesExact
  <1>19. HeapTypes' /\ MapTypes'
    <2>1. HeapTypes'
      BY <1>1, <1>14, <1>16 DEF HeapTypes, IInv, TypeOK
    <2>2. MapTypes'
      BY <1>2 DEF MapTypes, IInv, TypeOK
    <2>3. QED
      BY <2>1, <2>2
  <1>20. QED
    BY <1>6, <1>7, <1>8, <1>13, <1>18, <1>19, Together

-----------------------------------------------------------------------------
(* The theorems. *)

LEMMA InitFacts == Init => IInv
  <1> SUFFICES ASSUME Init
               PROVE  IInv
    OBVIOUS
  <1>1. Queued = {} /\ Running = {}
    BY DEF Init, Queued, Running
  <1>2. /\ \A S : \A k : S = {} => Of(S, k) = {} /\ OfGroup(S, k) = {}
        /\ Cardinality({}) = 0
    BY FS_EmptySet DEF Of, OfGroup
  <1>3. /\ \A S : <<>> \in Seq(S)
        /\ IsInjective(<<>>) /\ Range(<<>>) = {}
    BY DEF IsInjective, Range
  <1>4. TypeOK
    BY <1>3 DEF Init, TypeOK, Phases
  <1>5. SlotsExact
    <2>1. /\ \A k \in Owners : Of(Running, k) = {}
          /\ \A c \in Communities : OfGroup(Running, c) = {}
      BY <1>1, <1>2
    <2>2. /\ \A k \in Owners : active[k] = 0
          /\ \A c \in Communities : active[Group(c)] = 0
      BY KeyFacts DEF Init
    <2>3. sActive = 0 /\ 0 <= Workers
      BY SchedulerAssumption DEF Init, SchedulerAssumption
    <2>4. QED
      BY <1>1, <1>2, <2>1, <2>2, <2>3 DEF SlotsExact
  <1>6. QueuesExact
    BY <1>1, <1>2, <1>3 DEF Init, QueuesExact
  <1>7. IndexesExact
    <2>1. HeapsExact
      BY <1>1, <1>2, <1>3 DEF Init, HeapsExact
    <2>2. \A k \in Keys : Idle(k)
      <3>1. \A k \in Owners : Idle(k)
        BY KeyFacts DEF Init, Idle
      <3>2. \A c \in Communities : Idle(Group(c))
        BY KeyFacts DEF Init, Idle
      <3>3. QED
        BY <3>1, <3>2, KeyFacts
    <2>3. MapsExact
      BY <2>2 DEF Init, MapsExact
    <2>4. QED
      BY <2>1, <2>3, IndexParts
  <1>8. QED
    BY <1>4, <1>5, <1>6, <1>7 DEF IInv

LEMMA NextKeeps == IInv /\ [Next]_vars => IInv'
  <1> SUFFICES ASSUME IInv, [Next]_vars
               PROVE  IInv'
    OBVIOUS
  <1>1. CASE \E w \in Requests, k \in Owners : Acquire(w, k)
    BY <1>1, AcquireKeeps
  <1>2. CASE \E w \in Requests : OverBudget(w)
    BY <1>2, OverBudgetKeeps
  <1>3. CASE \E w \in Requests : Critical(w)
    BY <1>3, RejectKeeps, EvictKeeps, EnqueueKeeps DEF Critical
  <1>4. CASE \E w \in Requests : Wake(w)
    BY <1>4, GiveUpKeeps, LearnRefusedKeeps, LearnGrantedKeeps DEF Wake
  <1>5. CASE \E w \in Requests : Release(w)
    BY <1>5, FinishKeeps DEF Release
  <1>6. CASE Dispatch
    BY <1>6, DispatchRunKeeps, DispatchDeadKeeps, AloneKeeps DEF Dispatch
  <1>7. CASE \E w \in Requests : Cancel(w) \/ Deadline(w)
    BY <1>7, AloneKeeps
  <1>8. CASE \E k \in Keys : Lapse(k)
    BY <1>8, AloneKeeps
  <1>9. CASE \E c \in Communities : Drop(c)
    BY <1>9, DropKeeps
  <1>10. CASE UNCHANGED vars
    BY <1>10, AloneKeeps
  <1>11. QED
    BY <1>1, <1>2, <1>3, <1>4, <1>5, <1>6, <1>7, <1>8, <1>9, <1>10 DEF Next

\* The invariant holds in every reachable state of every scheduler, whatever the
\* numbers of requests, communities, readers and workers and whatever the budgets.
THEOREM InvariantHolds == Spec => []IInv
  BY InitFacts, NextKeeps, PTL DEF Spec

\* The state of search_scheduler.go stays well formed: in particular no counter of
\* running or waiting calls goes below zero, and a call under way keeps its reader.
THEOREM TypeCorrect == Spec => []TypeOK
  <1>1. IInv => TypeOK
    BY DEF IInv
  <1>2. QED
    BY <1>1, InvariantHolds, PTL

\* finish and dispatch never lose a slot, give one back twice or run more calls
\* than there are workers: the three levels of counters equal the calls that run.
THEOREM SlotsCorrect == Spec => []SlotsExact
  <1>1. IInv => SlotsExact
    BY DEF IInv
  <1>2. QED
    BY <1>1, InvariantHolds, PTL

\* acquire, dispatch, remove and dropCommunityWith keep each undecided call in the
\* FIFO of its reader, once, and the waiting counters equal to their number.
THEOREM QueuesCorrect == Spec => []QueuesExact
  <1>1. IInv => QueuesExact
    BY DEF IInv
  <1>2. QED
    BY <1>1, InvariantHolds, PTL

\* The heaps and the group maps mirror the FIFOs and the slots: no community or
\* reader with a waiter is ever missing from dispatch's sight, none stays behind.
THEOREM IndexesCorrect == Spec => []IndexesExact
  <1>1. IInv => IndexesExact
    BY DEF IInv
  <1>2. QED
    BY <1>1, InvariantHolds, PTL

-----------------------------------------------------------------------------
(* The queue budgets. *)

\* The admission loop takes calls out of the queue before it puts one in, and a
\* worker that has become free is offered to the queue before the lock is.
BudgetInv ==
    /\ waitingBytes = TotalBytes(Queued)
    /\ sWaiting <= Queue /\ waitingBytes <= QueueBytes
    /\ mu # "dispatching" /\ sWaiting > 0 => sActive = Workers

LEMMA BytesFacts ==
    /\ \A w \in Requests : Bytes[w] \in Nat
    /\ \A S \in SUBSET Requests : TotalBytes(S) \in Nat
    /\ TotalBytes({}) = 0
  <1>1. \A w \in Requests : Bytes[w] \in Nat
    BY SchedulerAssumption DEF SchedulerAssumption
  <1>2. ASSUME NEW S \in SUBSET Requests
        PROVE  TotalBytes(S) \in Nat
    BY <1>1, FiniteCalls, SumInt DEF TotalBytes
  <1>3. TotalBytes({}) = 0
    BY SumUnfolds, FS_EmptySet DEF TotalBytes
  <1>4. QED
    BY <1>1, <1>2, <1>3

LEMMA BudgetSame ==
    ASSUME BudgetInv, Queued' = Queued, UNCHANGED <<waitingBytes, sWaiting>>,
           mu' # "dispatching" => mu # "dispatching" /\ sActive' = sActive
    PROVE  BudgetInv'
  BY DEF BudgetInv

\* What leaves the queue gives its bytes back.
LEMMA BudgetLoses ==
    ASSUME IInv, BudgetInv, NEW w \in Queued, Unqueue(w), Queued' = Queued \ {w},
           mu' # "dispatching" => mu # "dispatching" /\ sActive' = sActive
    PROVE  BudgetInv'
  <1>1. w \in Requests /\ Queued \in SUBSET Requests
    BY DEF Queued
  <1>2. TotalBytes(Queued) = Bytes[w] + TotalBytes(Queued \ {w})
    BY <1>1, BytesFacts, FiniteCalls, SumRemoves DEF TotalBytes
  <1>3. /\ TotalBytes(Queued) \in Nat /\ TotalBytes(Queued \ {w}) \in Nat
        /\ Bytes[w] \in Nat /\ sWaiting \in Nat
        /\ Queue \in Nat /\ QueueBytes \in Nat
    BY <1>1, BytesFacts, SchedulerAssumption DEF IInv, TypeOK, SchedulerAssumption
  <1>4. sWaiting' = sWaiting - 1 /\ waitingBytes' = waitingBytes - Bytes[w]
    BY DEF Unqueue
  <1>5. TotalBytes(Queued') = TotalBytes(Queued \ {w})
    OBVIOUS
  <1>6. waitingBytes' = TotalBytes(Queued') /\ waitingBytes' <= QueueBytes
    BY <1>2, <1>3, <1>4, <1>5 DEF BudgetInv
  <1>7. TotalBytes(Queued)' = TotalBytes(Queued')
    BY DEF TotalBytes
  <1>8. QED
    BY <1>3, <1>4, <1>6, <1>7 DEF BudgetInv

\* A call that is not queued returns.
LEMMA BudgetReturns ==
    ASSUME IInv, BudgetInv, NEW w \in Requests, Return(w), phase[w] # "queued",
           UNCHANGED <<waitingBytes, sWaiting>>,
           mu' # "dispatching" => mu # "dispatching" /\ sActive' = sActive
    PROVE  BudgetInv'
  <1>1. Queued' = Queued
    BY ReturnFacts, SameTypes DEF Queued
  <1>2. QED
    BY <1>1, BudgetSame

LEMMA BudgetAlone ==
    ASSUME IInv, BudgetInv,
           \/ \E w \in Requests, k \in Owners : Acquire(w, k)
           \/ \E w \in Requests : OverBudget(w) \/ Reject(w) \/ LearnRefused(w)
           \/ \E w \in Requests : LearnGranted(w) \/ Release(w)
           \/ \E w \in Requests : Cancel(w) \/ Deadline(w)
           \/ \E k \in Keys : Lapse(k)
           \/ UNCHANGED vars
    PROVE  BudgetInv'
  <1> USE DEF queueVars, slotVars
  <1>1. ASSUME NEW w \in Requests, NEW k \in Owners, Acquire(w, k)
        PROVE  BudgetInv'
    <2>1. Queued' = Queued
      BY <1>1, SameTypes DEF Acquire, Queued, CallTypes
    <2>2. QED
      BY <1>1, <2>1, BudgetSame DEF Acquire
  <1>2. ASSUME NEW w \in Requests, OverBudget(w) \/ Reject(w) \/ LearnRefused(w)
        PROVE  BudgetInv'
    <2>1. /\ Return(w) /\ phase[w] # "queued" /\ UNCHANGED <<queueVars, slotVars>>
          /\ mu' # "dispatching" => mu # "dispatching"
      BY <1>2 DEF OverBudget, Reject, LearnRefused
    <2>2. QED
      BY <2>1, BudgetReturns
  <1>3. ASSUME NEW w \in Requests, LearnGranted(w)
        PROVE  BudgetInv'
    <2>1. Queued' = Queued
      BY <1>3, SameTypes DEF LearnGranted, Queued, CallTypes
    <2>2. QED
      BY <1>3, <2>1, BudgetSame DEF LearnGranted
  <1>4. ASSUME NEW w \in Requests, NEW d \in Durations, Finish(w, d)
        PROVE  BudgetInv'
    <2>1. /\ Return(w) /\ phase[w] # "queued" /\ UNCHANGED queueVars
          /\ mu' = "dispatching"
      BY <1>4 DEF Finish
    <2>2. QED
      BY <2>1, BudgetReturns
  <1>5. CASE \/ \E w \in Requests : Cancel(w) \/ Deadline(w)
             \/ \E k \in Keys : Lapse(k)
             \/ UNCHANGED vars
    <2>1. /\ phase' = phase /\ UNCHANGED <<queueVars, slotVars>> /\ mu' = mu
      BY <1>5 DEF Cancel, Deadline, Lapse, vars, callVars
    <2>2. Queued' = Queued
      BY <2>1 DEF Queued
    <2>3. QED
      BY <2>1, <2>2, BudgetSame
  <1>6. QED
    BY <1>1, <1>2, <1>3, <1>4, <1>5 DEF Release

\* An admission that is not refused fits the budgets.
LEMMA BudgetEnqueues ==
    ASSUME IInv, BudgetInv, NEW w \in Requests, Enqueue(w)
    PROVE  BudgetInv'
  <1>1. /\ phase[w] = "admitting" /\ phase' = [phase EXCEPT ![w] = "queued"]
        /\ waitingBytes' = waitingBytes + Bytes[w] /\ sWaiting' = sWaiting + 1
        /\ mu' = "dispatching"
        /\ ~(sWaiting >= Queue) /\ ~(waitingBytes + Bytes[w] > QueueBytes)
    BY DEF Enqueue, Full
  <1>2. Queued' = Queued \cup {w} /\ w \notin Queued
    BY <1>1, SameTypes DEF Queued, CallTypes
  <1>3. Queued \in SUBSET Requests
    BY DEF Queued
  <1>4. TotalBytes(Queued \cup {w}) = TotalBytes(Queued) + Bytes[w]
    BY <1>2, <1>3, BytesFacts, FiniteCalls, SumAdds DEF TotalBytes
  <1>5. TotalBytes(Queued)' = TotalBytes(Queued \cup {w})
    BY <1>2 DEF TotalBytes
  <1>6. /\ sWaiting \in Nat /\ Queue \in Nat /\ QueueBytes \in Nat
        /\ Bytes[w] \in Nat /\ TotalBytes(Queued) \in Nat
    BY <1>3, BytesFacts, SchedulerAssumption DEF IInv, TypeOK, SchedulerAssumption
  <1>7. QED
    BY <1>1, <1>4, <1>5, <1>6 DEF BudgetInv

LEMMA BudgetDispatches ==
    ASSUME IInv, BudgetInv, Dispatch
    PROVE  BudgetInv'
  <1>1. CASE DispatchRun \/ DispatchDead
    <2>1. /\ ready # <<>> /\ Unqueue(NextRequest) /\ mu' = "dispatching"
          /\ Resolve(NextRequest, "granted") \/ Resolve(NextRequest, "refused")
      BY <1>1 DEF DispatchRun, DispatchDead, CanDispatch, Turn
    <2>2. NextRequest \in Queued
      BY <2>1, NextFacts
    <2>3. Queued' = Queued \ {NextRequest}
      BY <2>1, <2>2, SameTypes DEF Resolve, CallTypes, Queued
    <2>4. QED
      BY <2>1, <2>2, <2>3, BudgetLoses
  <1>2. CASE DispatchEnd
    <2>1. /\ ~(sActive < Workers) \/ ready = <<>>
          /\ UNCHANGED <<phase, sWaiting, waitingBytes, sActive>>
      BY <1>2 DEF DispatchEnd, CanDispatch, callVars, queueVars, slotVars
    <2>2. sActive \in Nat /\ Workers \in Nat /\ sActive <= Workers
      BY SchedulerAssumption DEF IInv, TypeOK, SlotsExact, SchedulerAssumption
    <2>3. ASSUME ready = <<>>
          PROVE  sWaiting = 0
      <3>1. Range(ready) = {}
        BY <2>3 DEF Range
      <3>2. \A c \in Communities : OfGroup(Queued, c) = {}
        BY <3>1 DEF IInv, IndexesExact
      <3>3. Queued = {}
        <4>1. \A w \in Queued : w \in OfGroup(Queued, owner[w][1])
                                /\ owner[w][1] \in Communities
          BY InUse DEF OfGroup
        <4>2. QED
          BY <3>2, <4>1
      <3>4. QED
        BY <3>3, FS_EmptySet DEF IInv, QueuesExact
    <2>4. Queued' = Queued
      BY <2>1 DEF Queued
    <2>5. QED
      BY <2>1, <2>2, <2>3, <2>4 DEF BudgetInv
  <1>3. QED
    BY <1>1, <1>2 DEF Dispatch

LEMMA BudgetRemoves ==
    ASSUME IInv, BudgetInv, NEW w \in Requests, Evict(w) \/ GiveUp(w)
    PROVE  BudgetInv'
  <1>1. CASE GiveUp(w)
    <2>1. /\ w \in Queued /\ Unqueue(w) /\ Return(w)
          /\ mu' = mu /\ mu = "free" /\ sActive' = sActive
      BY <1>1 DEF GiveUp, Remove, Queued, slotVars
    <2>2. Queued' = Queued \ {w}
      BY <2>1, ReturnFacts, SameTypes
    <2>3. QED
      BY <2>1, <2>2, BudgetLoses
  <1>2. CASE Evict(w)
    <2>1. PICK k \in Donors(w) : /\ Remove(queue[k][Len(queue[k])])
                                 /\ Resolve(queue[k][Len(queue[k])], "refused")
      BY <1>2 DEF Evict
    <2> DEFINE v == queue[k][Len(queue[k])]
    <2>2. owner[w] \in Owners
      BY <1>2 DEF Evict, IInv, TypeOK
    <2>3. v \in Queued
      BY <2>2, DonorFacts DEF Of
    <2> HIDE DEF v
    <2>4. /\ Unqueue(v) /\ Resolve(v, "refused")
          /\ mu' = mu /\ mu = "admitting" /\ sActive' = sActive
      BY <1>2, <2>1 DEF Evict, Remove, slotVars, v
    <2>5. Queued' = Queued \ {v}
      BY <2>3, <2>4, SameTypes DEF Resolve, CallTypes, Queued
    <2>6. QED
      BY <2>3, <2>4, <2>5, BudgetLoses
  <1>3. QED
    BY <1>1, <1>2

\* A deletion gives the bytes of all calls of the community back at once.
LEMMA BudgetDrops ==
    ASSUME IInv, BudgetInv, NEW c \in Communities, Drop(c)
    PROVE  BudgetInv'
  <1> DEFINE D == OfGroup(Queued, c)
  <1>1. /\ phase' = [w \in Requests |-> IF w \in D THEN "refused" ELSE phase[w]]
        /\ sWaiting' = sWaiting - Cardinality(D)
        /\ waitingBytes' = waitingBytes - TotalBytes(D) /\ mu' = "dispatching"
    BY DEF Drop
  <1>2. D \subseteq Queued /\ Queued \subseteq Requests
    BY DEF OfGroup, Queued
  <1> HIDE DEF D
  <1>3. Queued' = Queued \ D
    BY <1>1, <1>2 DEF Queued
  <1>4. TotalBytes(Queued) = TotalBytes(D) + TotalBytes(Queued \ D)
    <2>1. /\ D \in SUBSET Queued /\ IsFiniteSet(Queued)
          /\ \A x \in Queued : Bytes[x] \in Nat
      BY <1>2, BytesFacts, FiniteCalls
    <2>2. QED
      BY <2>1, SumSplits DEF TotalBytes
  <1>5. /\ TotalBytes(D) \in Nat /\ TotalBytes(Queued \ D) \in Nat
        /\ Cardinality(D) \in Nat
    BY <1>2, BytesFacts, FiniteCalls
  <1>6. TotalBytes(Queued)' = TotalBytes(Queued \ D)
    BY <1>3 DEF TotalBytes
  <1>7. sWaiting \in Nat /\ Queue \in Nat /\ QueueBytes \in Nat
    BY SchedulerAssumption DEF IInv, TypeOK, SchedulerAssumption
  <1>8. QED
    BY <1>1, <1>4, <1>5, <1>6, <1>7 DEF BudgetInv

LEMMA BudgetKept == IInv /\ BudgetInv /\ [Next]_vars => BudgetInv'
  <1> SUFFICES ASSUME IInv, BudgetInv, [Next]_vars
               PROVE  BudgetInv'
    OBVIOUS
  <1>1. CASE \E w \in Requests : Critical(w)
    BY <1>1, BudgetAlone, BudgetRemoves, BudgetEnqueues DEF Critical
  <1>2. CASE \E w \in Requests : Wake(w)
    BY <1>2, BudgetAlone, BudgetRemoves DEF Wake
  <1>3. CASE Dispatch
    BY <1>3, BudgetDispatches
  <1>4. CASE \E c \in Communities : Drop(c)
    BY <1>4, BudgetDrops
  <1>5. CASE \/ \E w \in Requests, k \in Owners : Acquire(w, k)
             \/ \E w \in Requests : OverBudget(w)
             \/ \E w \in Requests : Release(w)
             \/ \E w \in Requests : Cancel(w) \/ Deadline(w)
             \/ \E k \in Keys : Lapse(k)
             \/ UNCHANGED vars
    BY <1>5, BudgetAlone
  <1>6. QED
    BY <1>1, <1>2, <1>3, <1>4, <1>5 DEF Next

LEMMA BudgetInit == Init => BudgetInv
  <1> SUFFICES ASSUME Init
               PROVE  BudgetInv
    OBVIOUS
  <1>1. Queued = {}
    BY DEF Init, Queued
  <1>2. QED
    BY <1>1, BytesFacts, SchedulerAssumption DEF Init, BudgetInv, SchedulerAssumption

\* The queue never holds more calls or more bytes than its budget allows, the
\* bytes counted are those of the calls that wait, and when the lock is free
\* nobody waits beside an idle worker.
THEOREM BudgetHolds == Spec => []BudgetUsed
  <1>1. IInv /\ BudgetInv => BudgetUsed
    BY DEF BudgetInv, BudgetUsed
  <1>2. QED
    BY <1>1, InitFacts, BudgetInit, NextKeeps, BudgetKept, PTL DEF Spec

-----------------------------------------------------------------------------
(* No credit for idle time. *)

GroupCredit ==
    \A c \in Communities : Group(c) \in live /\ active[Group(c)] = 0 =>
        service[Group(c)] >= clock
ReaderCredit ==
    \A k \in Owners : k \in live /\ active[k] = 0 => service[k] >= groupClock[k[1]]

CreditInv == GroupCredit /\ ReaderCredit

LEMMA CreditSame ==
    ASSUME CreditInv, live' \subseteq live, active' = active, UNCHANGED costVars
    PROVE  CreditInv'
  BY DEF CreditInv, GroupCredit, ReaderCredit, costVars

LEMMA CreditAlone ==
    ASSUME CreditInv,
           \/ \E w \in Requests, k \in Owners : Acquire(w, k)
           \/ \E w \in Requests : OverBudget(w) \/ Reject(w) \/ Evict(w)
           \/ \E w \in Requests : Wake(w)
           \/ DispatchDead \/ DispatchEnd
           \/ \E w \in Requests : Cancel(w) \/ Deadline(w)
           \/ \E k \in Keys : Lapse(k)
           \/ \E c \in Communities : Drop(c)
           \/ UNCHANGED vars
    PROVE  CreditInv'
  <1> USE DEF groupVars, slotVars, Remove, Turn, Retire
  <1>1. CASE \/ \E w \in Requests, k \in Owners : Acquire(w, k)
             \/ \E w \in Requests : OverBudget(w) \/ Reject(w) \/ Evict(w)
    BY <1>1, CreditSame DEF Acquire, OverBudget, Reject, Evict
  <1>2. CASE \E w \in Requests : Wake(w)
    BY <1>2, CreditSame DEF Wake, GiveUp, LearnRefused, LearnGranted
  <1>3. CASE DispatchDead \/ DispatchEnd
    BY <1>3, CreditSame DEF DispatchDead, DispatchEnd
  <1>4. CASE \/ \E w \in Requests : Cancel(w) \/ Deadline(w)
             \/ \E k \in Keys : Lapse(k)
             \/ UNCHANGED vars
    BY <1>4, CreditSame DEF Cancel, Deadline, Lapse, vars
  <1>5. CASE \E c \in Communities : Drop(c)
    BY <1>5, CreditSame DEF Drop
  <1>6. QED
    BY <1>1, <1>2, <1>3, <1>4, <1>5

\* The turn goes to a community, and there to a reader, that no other with waiters
\* comes before: what the clocks are raised to the others have already.
LEMMA CreditDispatches ==
    ASSUME IInv, CreditInv, DispatchRun
    PROVE  CreditInv'
  <1> DEFINE k == NextReader
             g == NextGroup
             c == NextGroup[1]
  <1>1. /\ ready # <<>>
        /\ active' = [active EXCEPT ![g] = @ + 1, ![k] = @ + 1]
        /\ clock' = Larger(clock, service[g])
        /\ groupClock' = [groupClock EXCEPT ![c] = Larger(@, service[k])]
        /\ service' = [service EXCEPT ![g] = @ + estimate[g], ![k] = @ + estimate[k]]
        /\ live' \subseteq live
    BY DEF DispatchRun, CanDispatch, Turn, Retire, Charge
  <1>2. /\ g = Group(c) /\ c \in Communities /\ k \in Owners /\ k[1] = c
        /\ g = Pick(ready) /\ k = Pick(groupReady[c])
    BY <1>1, NextFacts DEF NextReader, NextGroup
  <1>3. /\ active \in [Keys -> Nat] /\ service \in [Keys -> Nat]
        /\ groupClock \in [Communities -> Nat] /\ clock \in Nat
        /\ ready \in Seq(Keys) /\ groupReady \in [Communities -> Seq(Owners)]
    BY DEF IInv, TypeOK
  <1>4. /\ live = {x \in Keys : ~Idle(x)}
        /\ Range(ready) = {Group(d) : d \in {e \in Communities : OfGroup(Queued, e) # {}}}
        /\ Range(groupReady[c]) = {x \in Owners : x[1] = c /\ Of(Queued, x) # {}}
    BY <1>2 DEF IInv, IndexesExact
  <1>5. groupReady[c] \in Seq(Keys) /\ groupReady[c] # <<>>
    <2>1. NextRequest \in Queued /\ owner[NextRequest] = k
      BY <1>1, NextFacts
    <2>2. k \in Range(groupReady[c])
      BY <1>2, <1>4, <2>1 DEF Of
    <2>3. groupReady[c] # <<>>
      BY <2>2 DEF Range
    <2>4. groupReady[c] \in Seq(Owners) /\ Owners \subseteq Keys
      BY <1>2, <1>3, KeyFacts
    <2>5. groupReady[c] \in [1 .. Len(groupReady[c]) -> Owners] /\ Len(groupReady[c]) \in Nat
      BY <2>4, LenProperties
    <2> DEFINE h == groupReady[c]
    <2> HIDE DEF h
    <2>6. \A i \in 1 .. Len(h) : h[i] \in Keys
      BY <2>4, <2>5 DEF h
    <2>7. h \in Seq(Keys)
      BY <2>5, <2>6, IsASeq DEF h
    <2>8. QED
      BY <2>3, <2>7 DEF h
  <1>6. \A x \in Range(ready) : ~Before(x, g)
    BY <1>1, <1>2, <1>3, PickFacts
  <1>7. \A x \in Range(groupReady[c]) : ~Before(x, k)
    BY <1>2, <1>3, <1>5, PickFacts
  <1> HIDE DEF k, g, c
  <1>8. g \in Keys /\ k \in Keys /\ k # g
    BY <1>2, KeyFacts
  <1>9. ASSUME NEW x \in Keys, active'[x] = 0
        PROVE  x # g /\ x # k /\ active[x] = 0 /\ service'[x] = service[x]
    BY <1>1, <1>3, <1>8, <1>9
  <1>10. ASSUME NEW x \in Keys, NEW y \in Keys, ~Before(x, y), active[x] = 0
         PROVE  service[x] >= service[y]
    BY <1>3, <1>10 DEF Before
  <1>11. GroupCredit'
    <2>1. SUFFICES ASSUME NEW d \in Communities, Group(d) \in live', active'[Group(d)] = 0
                   PROVE  service'[Group(d)] >= clock'
      BY DEF GroupCredit
    <2>2. Group(d) \in Keys /\ Group(d) \in live /\ Group(d)[2] = NoReader /\ Group(d)[1] = d
      BY <1>1, <2>1, KeyFacts
    <2>3. active[Group(d)] = 0 /\ service'[Group(d)] = service[Group(d)]
      BY <1>9, <2>1, <2>2
    <2>4. waiting[d] # 0
      BY <1>4, <2>2, <2>3 DEF Idle
    <2>5. OfGroup(Queued, d) # {}
      BY <2>4, EmptyQueues DEF IInv
    <2>6. Group(d) \in Range(ready)
      BY <1>4, <2>5
    <2>7. service[Group(d)] >= service[g]
      BY <1>6, <1>8, <1>10, <2>2, <2>3, <2>6
    <2>8. service[Group(d)] >= clock
      BY <2>2, <2>3 DEF CreditInv, GroupCredit
    <2>9. QED
      BY <1>1, <2>3, <2>7, <2>8 DEF Larger
  <1>12. ReaderCredit'
    <2>1. SUFFICES ASSUME NEW l \in Owners, l \in live', active'[l] = 0
                   PROVE  service'[l] >= groupClock'[l[1]]
      BY DEF ReaderCredit
    <2>2. l \in Keys /\ l \in live /\ l[2] # NoReader /\ l[1] \in Communities
      BY <1>1, <2>1, KeyFacts
    <2>3. active[l] = 0 /\ service'[l] = service[l]
      BY <1>9, <2>1, <2>2
    <2>4. service[l] >= groupClock[l[1]]
      BY <2>2, <2>3 DEF CreditInv, ReaderCredit
    <2>5. CASE l[1] = c
      <3>1. queue[l] # <<>>
        BY <1>4, <2>2, <2>3 DEF Idle
      <3>2. l \in Range(groupReady[c])
        BY <1>4, <2>5, <3>1, EmptyQueues DEF IInv
      <3>3. service[l] >= service[k]
        BY <1>7, <1>8, <1>10, <2>2, <2>3, <3>2
      <3>4. groupClock'[c] = Larger(groupClock[c], service[k])
        BY <1>1, <1>2, <1>3
      <3>5. QED
        BY <2>3, <2>4, <2>5, <3>3, <3>4 DEF Larger
    <2>6. CASE l[1] # c
      <3>1. groupClock'[l[1]] = groupClock[l[1]]
        BY <1>1, <1>3, <2>2, <2>6
      <3>2. QED
        BY <2>3, <2>4, <3>1
    <2>7. QED
      BY <2>5, <2>6
  <1>13. QED
    BY <1>11, <1>12 DEF CreditInv

\* A correction never goes below the clock of its level.
LEMMA CreditFinishes ==
    ASSUME IInv, CreditInv, NEW w \in Requests, NEW d \in Durations, Finish(w, d)
    PROVE  CreditInv'
  <1> DEFINE k == owner[w]
             c == owner[w][1]
             g == Group(owner[w][1])
  <1>1. /\ w \in Running
        /\ service' = [service EXCEPT ![g] = Corrected(g, charge[w][1], d, clock),
                                      ![k] = Corrected(k, charge[w][2], d, groupClock[c])]
        /\ active' = [active EXCEPT ![g] = @ - 1, ![k] = @ - 1]
        /\ UNCHANGED <<clock, groupClock>> /\ live' \subseteq live
    BY DEF Finish, Running, Retire
  <1>2. /\ k \in Owners /\ c \in Communities /\ k[1] = c /\ g = Group(c)
        /\ k \in Keys /\ g \in Keys /\ k # g
    BY <1>1, InUse, KeyFacts
  <1>3. /\ active \in [Keys -> Nat] /\ service \in [Keys -> Nat] /\ charge[w] \in Nat \X Nat
        /\ groupClock \in [Communities -> Nat] /\ clock \in Nat /\ d \in Nat
    BY SchedulerAssumption DEF IInv, TypeOK, SchedulerAssumption
  <1> HIDE DEF k, c, g
  <1>4. ASSUME NEW x \in Keys, NEW y \in Nat, NEW z \in Nat
        PROVE  Corrected(x, y, d, z) >= z
    <2>1. service[x] \in Nat
      BY <1>3
    <2>2. service[x] + d - y \in Int
      BY <1>3, <2>1
    <2>3. Larger(0, service[x] + d - y) \in Nat
      BY <2>2, LargerFacts
    <2>4. QED
      BY <2>3 DEF Corrected, Larger
  <1>5. /\ service'[g] >= clock /\ service'[k] >= groupClock[c]
        /\ \A x \in Keys \ {g, k} : service'[x] = service[x] /\ active'[x] = active[x]
    <2>1. charge[w][1] \in Nat /\ charge[w][2] \in Nat /\ groupClock[c] \in Nat
      BY <1>2, <1>3
    <2>2. /\ Corrected(g, charge[w][1], d, clock) >= clock
          /\ Corrected(k, charge[w][2], d, groupClock[c]) >= groupClock[c]
      BY <1>2, <1>3, <1>4, <2>1
    <2>3. /\ service'[g] = Corrected(g, charge[w][1], d, clock)
          /\ service'[k] = Corrected(k, charge[w][2], d, groupClock[c])
      BY <1>1, <1>2, <1>3
    <2>4. \A x \in Keys \ {g, k} : service'[x] = service[x] /\ active'[x] = active[x]
      BY <1>1, <1>3
    <2>5. QED
      BY <2>2, <2>3, <2>4
  <1>6. GroupCredit'
    <2>1. SUFFICES ASSUME NEW e \in Communities, Group(e) \in live', active'[Group(e)] = 0
                   PROVE  service'[Group(e)] >= clock'
      BY DEF GroupCredit
    <2>2. Group(e) \in Keys /\ Group(e) # k
      BY <1>2, KeyFacts
    <2>3. CASE Group(e) = g
      BY <1>1, <1>5, <2>3
    <2>4. CASE Group(e) # g
      BY <1>1, <1>5, <2>1, <2>2, <2>4 DEF CreditInv, GroupCredit
    <2>5. QED
      BY <2>3, <2>4
  <1>7. ReaderCredit'
    <2>1. SUFFICES ASSUME NEW l \in Owners, l \in live', active'[l] = 0
                   PROVE  service'[l] >= groupClock'[l[1]]
      BY DEF ReaderCredit
    <2>2. l \in Keys /\ l # g
      BY <1>2, KeyFacts
    <2>3. CASE l = k
      BY <1>1, <1>2, <1>5, <2>3
    <2>4. CASE l # k
      BY <1>1, <1>5, <2>1, <2>2, <2>4 DEF CreditInv, ReaderCredit
    <2>5. QED
      BY <2>3, <2>4
  <1>8. QED
    BY <1>6, <1>7 DEF CreditInv

\* A reader is in its community's map only while the community is in its own.
LEMMA LiveReader ==
    ASSUME IInv, NEW k \in Owners, k \in live
    PROVE  Group(k[1]) \in live
  <1>1. active[k] # 0 \/ queue[k] # <<>>
    BY KeyFacts DEF IInv, IndexesExact, Idle
  <1>2. Of(Running, k) # {} \/ Of(Queued, k) # {}
    <2>1. CASE active[k] # 0
      BY <2>1, FS_EmptySet DEF IInv, SlotsExact
    <2>2. CASE queue[k] # <<>>
      BY <2>2, EmptyQueues DEF IInv
    <2>3. QED
      BY <1>1, <2>1, <2>2
  <1>3. PICK w \in Queued \cup Running : owner[w] = k
    BY <1>2 DEF Of
  <1>4. QED
    BY <1>3, InUse

\* A group that comes back starts at the clock of its level.
LEMMA CreditEnqueues ==
    ASSUME IInv, CreditInv, NEW w \in Requests, Enqueue(w)
    PROVE  CreditInv'
  <1> DEFINE k == owner[w]
             c == owner[w][1]
             g == Group(owner[w][1])
             gClock == IF g \in live \cup remembered THEN groupClock[c] ELSE 0
  <1>1. /\ service' = [service EXCEPT ![g] = Restored(g, clock), ![k] = Restored(k, gClock)]
        /\ groupClock' = [groupClock EXCEPT ![c] = gClock]
        /\ live' = live \cup {g, k} /\ active' = active /\ clock' = clock
    BY DEF Enqueue, slotVars
  <1>2. /\ k \in Owners /\ c \in Communities /\ k[1] = c /\ g = Group(c)
        /\ k \in Keys /\ g \in Keys /\ k # g
    <2>1. k \in Owners
      BY DEF Enqueue, IInv, TypeOK
    <2>2. QED
      BY <2>1, KeyFacts
  <1>3. /\ service \in [Keys -> Nat] /\ groupClock \in [Communities -> Nat] /\ clock \in Nat
    BY DEF IInv, TypeOK
  <1>4. \A l \in Owners : l \in live /\ l[1] = c => gClock = groupClock[c]
    BY <1>2, LiveReader
  <1>5. gClock \in Nat
    BY <1>2, <1>3
  <1> HIDE DEF k, c, g, gClock
  <1>6. /\ service'[g] = Restored(g, clock) /\ service'[k] = Restored(k, gClock)
        /\ \A x \in Keys \ {g, k} : service'[x] = service[x]
        /\ groupClock'[c] = gClock
        /\ \A d \in Communities \ {c} : groupClock'[d] = groupClock[d]
    BY <1>1, <1>2, <1>3
  <1>7. ASSUME NEW x \in Keys, NEW n \in Nat, x \notin live
        PROVE  Restored(x, n) >= n
    BY <1>3, <1>7 DEF Restored, Larger
  <1>8. GroupCredit'
    <2>1. SUFFICES ASSUME NEW e \in Communities, Group(e) \in live', active'[Group(e)] = 0
                   PROVE  service'[Group(e)] >= clock'
      BY DEF GroupCredit
    <2>2. Group(e) \in Keys /\ Group(e) # k
      BY <1>2, KeyFacts
    <2>3. Group(e) \in live => service[Group(e)] >= clock
      BY <1>1, <2>1 DEF CreditInv, GroupCredit
    <2>4. CASE Group(e) = g
      <3>1. CASE g \in live
        BY <1>1, <1>6, <2>3, <2>4, <3>1 DEF Restored
      <3>2. CASE g \notin live
        BY <1>1, <1>2, <1>3, <1>6, <1>7, <2>4, <3>2
      <3>3. QED
        BY <3>1, <3>2
    <2>5. CASE Group(e) # g
      BY <1>1, <1>6, <2>1, <2>2, <2>3, <2>5
    <2>6. QED
      BY <2>4, <2>5
  <1>9. ReaderCredit'
    <2>1. SUFFICES ASSUME NEW l \in Owners, l \in live', active'[l] = 0
                   PROVE  service'[l] >= groupClock'[l[1]]
      BY DEF ReaderCredit
    <2>2. l \in Keys /\ l # g /\ l[1] \in Communities
      BY <1>2, KeyFacts
    <2>3. l \in live => service[l] >= groupClock'[l[1]]
      <3>1. l \in live => service[l] >= groupClock[l[1]]
        BY <1>1, <2>1 DEF CreditInv, ReaderCredit
      <3>2. CASE l[1] = c
        BY <1>4, <1>6, <3>1, <3>2
      <3>3. CASE l[1] # c
        BY <1>6, <2>2, <3>1, <3>3
      <3>4. QED
        BY <3>2, <3>3
    <2>4. CASE l = k
      <3>1. CASE k \in live
        BY <1>6, <2>3, <2>4, <3>1 DEF Restored
      <3>2. CASE k \notin live
        BY <1>2, <1>5, <1>6, <1>7, <2>4, <3>2
      <3>3. QED
        BY <3>1, <3>2
    <2>5. CASE l # k
      BY <1>1, <1>6, <2>1, <2>2, <2>3, <2>5
    <2>6. QED
      BY <2>4, <2>5
  <1>10. QED
    BY <1>8, <1>9 DEF CreditInv

LEMMA CreditKept == IInv /\ CreditInv /\ [Next]_vars => CreditInv'
  <1> SUFFICES ASSUME IInv, CreditInv, [Next]_vars
               PROVE  CreditInv'
    OBVIOUS
  <1>1. CASE \E w \in Requests : Critical(w)
    BY <1>1, CreditAlone, CreditEnqueues DEF Critical
  <1>2. CASE \E w \in Requests : Release(w)
    BY <1>2, CreditFinishes DEF Release
  <1>3. CASE Dispatch
    BY <1>3, CreditAlone, CreditDispatches DEF Dispatch
  <1>4. CASE \/ \E w \in Requests, k \in Owners : Acquire(w, k)
             \/ \E w \in Requests : OverBudget(w)
             \/ \E w \in Requests : Wake(w)
             \/ \E w \in Requests : Cancel(w) \/ Deadline(w)
             \/ \E k \in Keys : Lapse(k)
             \/ \E c \in Communities : Drop(c)
             \/ UNCHANGED vars
    BY <1>4, CreditAlone
  <1>5. QED
    BY <1>1, <1>2, <1>3, <1>4 DEF Next

\* A community or a reader with nothing running, new, back from s.history or
\* waiting, has at least the service its level has reached: dispatch, finish and
\* restore bank no credit for idle time.
THEOREM CreditHolds == Spec => []NoIdleCredit
  <1>1. IInv /\ CreditInv => NoIdleCredit
    <2>1. SUFFICES ASSUME IInv, CreditInv, NEW k \in live, active[k] = 0
                   PROVE  service[k] >= IF k[2] = NoReader THEN clock ELSE groupClock[k[1]]
      BY DEF NoIdleCredit
    <2>2. k \in Keys
      BY <2>1 DEF IInv, TypeOK
    <2>3. CASE k \in Owners
      BY <2>1, <2>3, KeyFacts DEF CreditInv, ReaderCredit
    <2>4. CASE k \notin Owners
      <3>1. PICK c \in Communities : k = Group(c)
        BY <2>2, <2>4, KeyFacts
      <3>2. QED
        BY <2>1, <3>1, KeyFacts DEF CreditInv, GroupCredit
    <2>5. QED
      BY <2>3, <2>4
  <1>2. Init => CreditInv
    BY DEF Init, CreditInv, GroupCredit, ReaderCredit
  <1>3. QED
    BY <1>1, <1>2, InitFacts, NextKeeps, CreditKept, PTL DEF Spec

-----------------------------------------------------------------------------
(* Who gives way to an arrival. *)

\* One call at a time is inside the admission loop.
AdmitInv ==
    /\ \A w \in Requests : phase[w] = "admitting" => mu = "admitting"
    /\ \A w, v \in Requests : phase[w] = "admitting" /\ phase[v] = "admitting" => w = v

LEMMA AdmitKept == IInv /\ AdmitInv /\ [Next]_vars => AdmitInv'
  <1> SUFFICES ASSUME IInv, AdmitInv, [Next]_vars
               PROVE  AdmitInv'
    OBVIOUS
  <1>1. phase \in [Requests -> Phases]
    BY DEF IInv, TypeOK
  <1>2. ASSUME NEW w \in Requests, NEW p, phase' = [phase EXCEPT ![w] = p], p # "admitting",
               mu' = mu \/ mu # "admitting" \/ phase[w] = "admitting"
        PROVE  AdmitInv'
    BY <1>1, <1>2 DEF AdmitInv
  <1>3. ASSUME NEW w \in Requests, NEW k \in Owners, Acquire(w, k)
        PROVE  AdmitInv'
    BY <1>1, <1>3 DEF Acquire, AdmitInv
  <1>4. ASSUME NEW w \in Requests, OverBudget(w) \/ Wake(w) \/ Release(w) \/ Reject(w)
        PROVE  AdmitInv'
    BY <1>2, <1>4 DEF OverBudget, Wake, Release, Reject, GiveUp, LearnRefused, LearnGranted,
                      Finish, Return
  <1>5. ASSUME NEW w \in Requests, Evict(w)
        PROVE  AdmitInv'
    <2>1. PICK k \in Donors(w) : Resolve(queue[k][Len(queue[k])], "refused")
      BY <1>5 DEF Evict
    <2>2. queue[k][Len(queue[k])] \in Requests /\ mu' = mu
      BY <1>5, DonorFacts DEF Evict, IInv, TypeOK, Of, Queued
    <2>3. QED
      BY <1>2, <2>1, <2>2 DEF Resolve
  <1>6. ASSUME NEW w \in Requests, Enqueue(w)
        PROVE  AdmitInv'
    BY <1>2, <1>6 DEF Enqueue
  <1>7. CASE Dispatch
    <2>1. CASE DispatchRun \/ DispatchDead
      <3>1. NextRequest \in Requests
        BY <2>1, NextFacts DEF DispatchRun, DispatchDead, CanDispatch, Queued
      <3>2. QED
        BY <1>2, <2>1, <3>1 DEF DispatchRun, DispatchDead, Resolve
    <2>2. CASE DispatchEnd
      BY <2>2 DEF DispatchEnd, callVars, AdmitInv
    <2>3. QED
      BY <1>7, <2>1, <2>2 DEF Dispatch
  <1>8. CASE \/ \E w \in Requests : Cancel(w) \/ Deadline(w)
             \/ \E k \in Keys : Lapse(k)
             \/ UNCHANGED vars
    BY <1>8 DEF Cancel, Deadline, Lapse, vars, callVars, AdmitInv
  <1>9. ASSUME NEW c \in Communities, Drop(c)
        PROVE  AdmitInv'
    BY <1>1, <1>9 DEF Drop, AdmitInv
  <1>10. QED
    BY <1>3, <1>4, <1>5, <1>6, <1>7, <1>8, <1>9 DEF Next, Critical

\* While a call is being admitted, only its own arrival refuses another.
LEMMA RefusedByArrival ==
    ASSUME IInv, AdmitInv, [Next]_vars, NEW w \in Requests, NEW v \in Requests,
           phase[w] = "admitting", phase[v] = "queued", phase'[v] = "refused"
    PROVE  \E k \in Donors(w) : /\ v = queue[k][Len(queue[k])] /\ v \in Of(Queued, k)
                                /\ k \in Owners /\ queue[k] # <<>>
                                /\ Unqueue(v)
  <1>1. phase \in [Requests -> Phases] /\ mu = "admitting"
    BY DEF IInv, TypeOK, AdmitInv
  <1>2. ASSUME NEW u \in Requests, NEW p, phase' = [phase EXCEPT ![u] = p], p # "refused"
        PROVE  FALSE
    BY <1>1, <1>2
  <1>3. \A u \in Requests, k \in Owners : ~Acquire(u, k)
    BY <1>1 DEF Acquire
  <1>4. \A u \in Requests : ~OverBudget(u) /\ ~Wake(u) /\ ~Release(u) /\ ~Reject(u)
    BY <1>1, <1>2 DEF OverBudget, Wake, Release, Reject, GiveUp, LearnRefused, LearnGranted,
                      Finish, Return
  <1>5. \A u \in Requests : ~Enqueue(u)
    BY <1>2 DEF Enqueue
  <1>6. ~Dispatch /\ \A c \in Communities : ~Drop(c)
    BY <1>1 DEF Dispatch, DispatchRun, DispatchDead, DispatchEnd, Drop
  <1>7. /\ \A u \in Requests : ~Cancel(u) /\ ~Deadline(u)
        /\ \A k \in Keys : ~Lapse(k)
        /\ ~UNCHANGED vars
    BY DEF Cancel, Deadline, Lapse, vars, callVars
  <1>8. PICK u \in Requests : Evict(u)
    BY <1>3, <1>4, <1>5, <1>6, <1>7 DEF Next, Critical
  <1>9. u = w /\ owner[w] \in Owners
    BY <1>8 DEF Evict, AdmitInv, IInv, TypeOK
  <1>10. PICK k \in Donors(w) : /\ Remove(queue[k][Len(queue[k])])
                                /\ Resolve(queue[k][Len(queue[k])], "refused")
    BY <1>8, <1>9 DEF Evict
  <1>11. k \in Owners /\ queue[k] # <<>> /\ queue[k][Len(queue[k])] \in Of(Queued, k)
    BY <1>9, DonorFacts
  <1>12. v = queue[k][Len(queue[k])]
    BY <1>1, <1>10, <1>11 DEF Resolve
  <1>13. QED
    BY <1>10, <1>11, <1>12 DEF Remove

\* An arrival to a full queue takes the place of a call only from a community, or
\* from a reader of its own community, that still has more waiting afterwards.
THEOREM DonorsStayLonger == Spec => DonorStaysLonger
  <1>1. ASSUME IInv, AdmitInv, [Next]_vars
        PROVE  \A w, v \in Requests :
                 (/\ phase[w] = "admitting"
                  /\ phase[v] = "queued" /\ phase'[v] = "refused")
                 => IF owner[v][1] # owner[w][1]
                    THEN waiting'[owner[v][1]] > waiting'[owner[w][1]]
                    ELSE Len(queue'[owner[v]]) > Len(queue'[owner[w]])
    <2>1. SUFFICES ASSUME NEW w \in Requests, NEW v \in Requests, phase[w] = "admitting",
                          phase[v] = "queued", phase'[v] = "refused"
                   PROVE  IF owner[v][1] # owner[w][1]
                          THEN waiting'[owner[v][1]] > waiting'[owner[w][1]]
                          ELSE Len(queue'[owner[v]]) > Len(queue'[owner[w]])
      OBVIOUS
    <2>2. PICK k \in Donors(w) : /\ v = queue[k][Len(queue[k])] /\ v \in Of(Queued, k)
                                 /\ k \in Owners /\ queue[k] # <<>>
                                 /\ Unqueue(v)
      BY <1>1, <2>1, RefusedByArrival
    <2>3. owner[v] = k /\ owner[w] \in Owners
      BY <1>1, <2>1, <2>2 DEF Of, IInv, TypeOK
    <2> DEFINE l == owner[w]
               c == owner[w][1]
    <2>4. /\ c \in Communities /\ k[1] \in Communities /\ l \in Owners /\ l[1] = c
          /\ queue \in [Owners -> Seq(Requests)] /\ waiting \in [Communities -> Nat]
      BY <1>1, <2>2, <2>3, KeyFacts DEF IInv, TypeOK
    <2>5. /\ queue' = [queue EXCEPT ![k] = Without(@, v)]
          /\ waiting' = [waiting EXCEPT ![k[1]] = @ - 1]
      BY <2>2, <2>3 DEF Unqueue
    <2>6. Len(queue[k]) \in Nat /\ Len(queue[l]) \in Nat
      BY <2>2, <2>4, LenProperties
    <2>7. CASE LargerGroups(c) # {}
      <3>1. PICK o \in LargerGroups(c) : k \in LongestReaders(o, 0)
        BY <2>7 DEF Donors
      <3>2. k[1] = o /\ waiting[o] > waiting[c] + 1
        BY <3>1 DEF LongestReaders, LargerGroups
      <3>3. waiting[o] \in Nat /\ waiting[c] \in Nat
        BY <2>4, <3>2
      <3>4. o # c
        BY <3>2, <3>3
      <3>5. waiting'[o] = waiting[o] - 1 /\ waiting'[c] = waiting[c]
        BY <2>4, <2>5, <3>2, <3>4
      <3>6. waiting'[k[1]] > waiting'[c]
        BY <3>2, <3>3, <3>5
      <3>7. QED
        BY <2>3, <3>2, <3>4, <3>6
    <2>8. CASE LargerGroups(c) = {}
      <3>1. k \in LongestReaders(l[1], Len(queue[l]) + 1)
        BY <2>8, <2>4 DEF Donors
      <3>2. k[1] = c /\ Len(queue[k]) > Len(queue[l]) + 1
        BY <2>4, <3>1 DEF LongestReaders
      <3>3. k # l
        BY <2>6, <3>2
      <3>4. v \in Range(queue[k])
        BY <1>1, <2>2 DEF IInv, QueuesExact
      <3>5. queue[k] \in Seq(Requests)
        BY <2>2, <2>4
      <3>6. Len(Without(queue[k], v)) = Len(queue[k]) - 1
        BY <3>4, <3>5, RangeFacts, WithoutFacts
      <3>7. queue'[k] = Without(queue[k], v) /\ queue'[l] = queue[l]
        BY <2>2, <2>4, <2>5, <3>3
      <3>8. Len(queue'[k]) > Len(queue'[l])
        BY <2>6, <3>2, <3>6, <3>7
      <3>9. QED
        BY <2>3, <3>2, <3>8
    <2>9. QED
      BY <2>7, <2>8
  <1>2. Init => AdmitInv
    BY DEF Init, AdmitInv
  <1>3. Spec => []AdmitInv
    BY <1>2, InitFacts, NextKeeps, AdmitKept, PTL DEF Spec
  <1>4. QED
    BY <1>1, <1>3, InvariantHolds, PTL DEF Spec, DonorStaysLonger

-----------------------------------------------------------------------------
(* The outcome of a call. *)

Over == {w \in Requests : phase[w] \in {"refused", "done"} /\ Bytes[w] <= QueueBytes}
Told == {"refused", "granted", "holding", "releasing"}
Kinds == {"completed", "rejected", "expired", "cancelled"}
Total(c) == c["completed"] + c["rejected"] + c["expired"] + c["cancelled"]

\* Only calls that fit the budget get past the size check, every call that is over
\* has been counted, and the ready channel of a call is closed when its outcome is
\* another's decision.
OutcomeInv ==
    /\ \A w \in Requests : phase[w] \notin {"idle", "done"} => Bytes[w] <= QueueBytes
    /\ \A w \in Requests : closed[w] = IF phase[w] \in Told THEN 1 ELSE 0
    /\ Total(counts) = Cardinality(Over)

LEMMA KindsSum ==
    ASSUME NEW c \in [Kinds -> Nat]
    PROVE  SumFunction(c) = Total(c)
  <1>1. \A x \in Kinds : c[x] \in Nat
    OBVIOUS
  <1> DEFINE S1 == {"completed"}
             S2 == {"completed", "rejected"}
             S3 == {"completed", "rejected", "expired"}
  <1>2. /\ IsFiniteSet({}) /\ IsFiniteSet(S1) /\ IsFiniteSet(S2) /\ IsFiniteSet(S3)
    <2>1. IsFiniteSet({} \cup {"completed"}) /\ {} \cup {"completed"} = S1
      BY FS_EmptySet, FS_AddElement
    <2>2. IsFiniteSet(S1 \cup {"rejected"}) /\ S1 \cup {"rejected"} = S2
      BY <2>1, FS_AddElement
    <2>3. IsFiniteSet(S2 \cup {"expired"}) /\ S2 \cup {"expired"} = S3
      BY <2>2, FS_AddElement
    <2>4. QED
      BY <2>1, <2>2, <2>3, FS_EmptySet
  <1>3. SumFunctionOnSet(c, {}) = 0
    BY SumUnfolds, FS_EmptySet
  <1>4. SumFunctionOnSet(c, S1) = c["completed"]
    <2>1. SumFunctionOnSet(c, {} \cup {"completed"}) = SumFunctionOnSet(c, {}) + c["completed"]
      BY <1>1, <1>2, SumAdds DEF Kinds
    <2>2. {} \cup {"completed"} = S1
      OBVIOUS
    <2>3. QED
      BY <1>1, <1>3, <2>1, <2>2 DEF Kinds
  <1>5. SumFunctionOnSet(c, S2) = c["completed"] + c["rejected"]
    <2>1. SumFunctionOnSet(c, S1 \cup {"rejected"}) = SumFunctionOnSet(c, S1) + c["rejected"]
      BY <1>1, <1>2, SumAdds DEF Kinds
    <2>2. S1 \cup {"rejected"} = S2
      OBVIOUS
    <2>3. QED
      BY <1>4, <2>1, <2>2
  <1>6. SumFunctionOnSet(c, S3) = c["completed"] + c["rejected"] + c["expired"]
    <2>1. SumFunctionOnSet(c, S2 \cup {"expired"}) = SumFunctionOnSet(c, S2) + c["expired"]
      BY <1>1, <1>2, SumAdds DEF Kinds
    <2>2. S2 \cup {"expired"} = S3
      OBVIOUS
    <2>3. QED
      BY <1>5, <2>1, <2>2
  <1>7. SumFunctionOnSet(c, Kinds) = Total(c)
    <2>1. SumFunctionOnSet(c, S3 \cup {"cancelled"}) = SumFunctionOnSet(c, S3) + c["cancelled"]
      BY <1>1, <1>2, SumAdds DEF Kinds
    <2>2. S3 \cup {"cancelled"} = Kinds
      BY DEF Kinds
    <2>3. QED
      BY <1>6, <2>1, <2>2 DEF Total
  <1>8. QED
    BY <1>7 DEF SumFunction

\* One more outcome is one more in the sum.
LEMMA CountOne ==
    ASSUME CountTypes, NEW x \in Kinds, Count(x)
    PROVE  Total(counts)' = Total(counts) + 1
  BY DEF Count, CountTypes, Kinds, Total

LEMMA OverFacts == Over \in SUBSET Requests /\ IsFiniteSet(Over) /\ Cardinality(Over) \in Nat
  BY FiniteCalls DEF Over

\* A step that gives one call its outcome, and counts it.
LEMMA OutcomeAdds ==
    ASSUME IInv, OutcomeInv, NEW w \in Requests, w \notin Over,
           Bytes[w] <= QueueBytes, NEW p \in {"refused", "done"},
           \A v \in Requests : phase'[v] = IF v = w THEN p ELSE phase[v],
           \A v \in Requests : closed'[v] = IF v = w THEN (IF p = "done" THEN 0 ELSE 1)
                                            ELSE closed[v],
           NEW x \in Kinds, Count(x)
    PROVE  OutcomeInv'
  <1>1. Over' = Over \cup {w}
    BY DEF Over
  <1>2. Cardinality(Over \cup {w}) = Cardinality(Over) + 1
    BY OverFacts, FS_AddElement
  <1>3. Total(counts)' = Total(counts) + 1
    BY CountOne, SameTypes
  <1>4. Total(counts)' = Cardinality(Over)'
    BY <1>1, <1>2, <1>3 DEF OutcomeInv
  <1>5. \A v \in Requests : phase'[v] \notin {"idle", "done"} => Bytes[v] <= QueueBytes
    BY DEF OutcomeInv
  <1>6. \A v \in Requests : closed'[v] = IF phase'[v] \in Told THEN 1 ELSE 0
    BY DEF OutcomeInv, Told
  <1>7. QED
    BY <1>4, <1>5, <1>6 DEF OutcomeInv

\* A step that counts nothing: a call that was over stays so, no other becomes so.
LEMMA OutcomeSame ==
    ASSUME OutcomeInv, UNCHANGED counts, NEW w \in Requests, NEW p,
           \A v \in Requests : phase'[v] = IF v = w THEN p ELSE phase[v],
           p \notin {"idle", "done"} => Bytes[w] <= QueueBytes,
           w \in Over <=> p \in {"refused", "done"} /\ Bytes[w] <= QueueBytes,
           \A v \in Requests : closed'[v] = IF v = w THEN (IF p \in Told THEN 1 ELSE 0)
                                            ELSE closed[v]
    PROVE  OutcomeInv'
  <1>1. Over' = Over
    BY DEF Over
  <1>2. \A v \in Requests : phase'[v] \notin {"idle", "done"} => Bytes[v] <= QueueBytes
    BY DEF OutcomeInv
  <1>3. \A v \in Requests : closed'[v] = IF phase'[v] \in Told THEN 1 ELSE 0
    BY DEF OutcomeInv
  <1>4. QED
    BY <1>1, <1>2, <1>3 DEF OutcomeInv, Total

LEMMA ReturnOutcome ==
    ASSUME IInv, NEW w \in Requests, Return(w)
    PROVE  /\ \A v \in Requests : phase'[v] = IF v = w THEN "done" ELSE phase[v]
           /\ \A v \in Requests : closed'[v] = IF v = w THEN 0 ELSE closed[v]
  BY DEF Return, IInv, TypeOK

LEMMA ResolveOutcome ==
    ASSUME IInv, OutcomeInv, NEW w \in Queued, NEW p, Resolve(w, p)
    PROVE  /\ \A v \in Requests : phase'[v] = IF v = w THEN p ELSE phase[v]
           /\ \A v \in Requests : closed'[v] = IF v = w THEN 1 ELSE closed[v]
           /\ w \notin Over /\ Bytes[w] <= QueueBytes
  <1>1. w \in Requests /\ phase[w] = "queued"
    BY DEF Queued
  <1>2. closed[w] = 0 /\ w \notin Over /\ Bytes[w] <= QueueBytes
    BY <1>1 DEF OutcomeInv, Told, Over
  <1>3. phase \in [Requests -> Phases] /\ closed \in [Requests -> Nat]
    BY DEF IInv, TypeOK
  <1>4. QED
    BY <1>1, <1>2, <1>3 DEF Resolve

LEMMA OutcomeCounted ==
    ASSUME IInv, OutcomeInv, NEW w \in Requests,
           Reject(w) \/ GiveUp(w) \/ Evict(w) \/ Release(w) \/ DispatchDead
    PROVE  OutcomeInv'
  <1>1. CASE Reject(w) \/ GiveUp(w) \/ Release(w)
    <2>1. /\ Return(w) /\ phase[w] \in {"admitting", "queued", "holding", "releasing"}
          /\ \E x \in Kinds : Count(x)
      BY <1>1 DEF Reject, GiveUp, Release, Finish, Kinds
    <2>2. w \notin Over /\ Bytes[w] <= QueueBytes
      BY <2>1 DEF Over, OutcomeInv
    <2>3. QED
      BY <2>1, <2>2, ReturnOutcome, OutcomeAdds
  <1>2. CASE Evict(w)
    <2>1. PICK k \in Donors(w) : Resolve(queue[k][Len(queue[k])], "refused")
      BY <1>2 DEF Evict
    <2>2. queue[k][Len(queue[k])] \in Queued /\ queue[k][Len(queue[k])] \in Requests
      BY <1>2, DonorFacts DEF Evict, IInv, TypeOK, Of, Queued
    <2>3. Count("rejected") /\ "rejected" \in Kinds
      BY <1>2 DEF Evict, Kinds
    <2>4. QED
      BY <2>1, <2>2, <2>3, ResolveOutcome, OutcomeAdds
  <1>3. CASE DispatchDead
    <2>1. Resolve(NextRequest, "refused") /\ \E x \in Kinds : Count(x)
      BY <1>3 DEF DispatchDead, Kinds
    <2>2. NextRequest \in Queued /\ NextRequest \in Requests
      BY <1>3, NextFacts DEF DispatchDead, CanDispatch, Queued
    <2>3. QED
      BY <2>1, <2>2, ResolveOutcome, OutcomeAdds
  <1>4. QED
    BY <1>1, <1>2, <1>3

LEMMA OutcomeUncounted ==
    ASSUME IInv, OutcomeInv, NEW w \in Requests,
           \/ \E k \in Owners : Acquire(w, k)
           \/ OverBudget(w) \/ Enqueue(w) \/ LearnRefused(w) \/ LearnGranted(w)
           \/ DispatchRun
    PROVE  OutcomeInv'
  <1>1. phase \in [Requests -> Phases]
    BY DEF IInv, TypeOK
  <1>2. CASE OverBudget(w) \/ LearnRefused(w)
    <2>1. Return(w) /\ UNCHANGED counts /\ (w \in Over <=> Bytes[w] <= QueueBytes)
      <3>1. CASE OverBudget(w)
        BY <3>1, SchedulerAssumption DEF OverBudget, Over, SchedulerAssumption
      <3>2. CASE LearnRefused(w)
        BY <3>2 DEF LearnRefused, Over
      <3>3. QED
        BY <1>2, <3>1, <3>2
    <2>2. QED
      BY <2>1, ReturnOutcome, OutcomeSame DEF Told
  <1>3. ASSUME NEW p, phase' = [phase EXCEPT ![w] = p], closed' = closed, UNCHANGED counts,
               p \in {"admitting", "queued", "releasing", "holding"},
               Bytes[w] <= QueueBytes, w \notin Over,
               p \in Told <=> phase[w] \in Told
        PROVE  OutcomeInv'
    <2>1. \A v \in Requests : phase'[v] = IF v = w THEN p ELSE phase[v]
      BY <1>1, <1>3
    <2>2. closed[w] = IF p \in Told THEN 1 ELSE 0
      BY <1>3 DEF OutcomeInv
    <2>3. p \notin {"refused", "done"}
      BY <1>3
    <2>4. \A v \in Requests : closed'[v] = IF v = w THEN (IF p \in Told THEN 1 ELSE 0)
                                           ELSE closed[v]
      BY <1>3, <2>2
    <2>5. QED
      BY <1>3, <2>1, <2>3, <2>4, OutcomeSame
  <1>4. CASE \E k \in Owners : Acquire(w, k)
    BY <1>3, <1>4 DEF Acquire, Told, Over
  <1>5. CASE Enqueue(w)
    BY <1>3, <1>5 DEF Enqueue, Told, Over, OutcomeInv
  <1>6. CASE LearnGranted(w)
    BY <1>3, <1>6 DEF LearnGranted, Told, Over, OutcomeInv
  <1>7. CASE DispatchRun
    <2>1. Resolve(NextRequest, "granted") /\ UNCHANGED counts
      BY <1>7 DEF DispatchRun
    <2>2. NextRequest \in Queued /\ NextRequest \in Requests
      BY <1>7, NextFacts DEF DispatchRun, CanDispatch, Queued
    <2>3. QED
      BY <2>1, <2>2, ResolveOutcome, OutcomeSame DEF Told
  <1>8. QED
    BY <1>2, <1>4, <1>5, <1>6, <1>7

\* A deletion refuses and counts all waiting calls of the community.
LEMMA OutcomeDrops ==
    ASSUME IInv, OutcomeInv, NEW c \in Communities, Drop(c)
    PROVE  OutcomeInv'
  <1> DEFINE D == OfGroup(Queued, c)
  <1>1. /\ phase' = [w \in Requests |-> IF w \in D THEN "refused" ELSE phase[w]]
        /\ closed' = [w \in Requests |-> IF w \in D THEN closed[w] + 1 ELSE closed[w]]
        /\ counts' = [counts EXCEPT !["cancelled"] = @ + Cardinality(D)]
    BY DEF Drop
  <1>2. D \in SUBSET Requests /\ \A w \in D : phase[w] = "queued"
    BY DEF OfGroup, Queued
  <1> HIDE DEF D
  <1>3. D \cap Over = {} /\ \A w \in D : Bytes[w] <= QueueBytes /\ closed[w] = 0
    BY <1>2 DEF Over, OutcomeInv, Told
  <1>4. Over' = Over \cup D
    BY <1>1, <1>2, <1>3 DEF Over
  <1>5. /\ IsFiniteSet(D) /\ Cardinality(D) \in Nat
        /\ IsFiniteSet(Over) /\ Cardinality(Over) \in Nat
    BY <1>2, FiniteCalls, OverFacts
  <1>6. Cardinality(Over \cup D) = Cardinality(Over) + Cardinality(D)
    <2>1. Over \cap D = {}
      BY <1>3
    <2>2. Cardinality(Over \cup D) = Cardinality(Over) + Cardinality(D) - Cardinality({})
      BY <1>5, <2>1, FS_Union
    <2>3. QED
      BY <1>5, <2>2, FS_EmptySet
  <1>7. Total(counts)' = Total(counts) + Cardinality(D)
    BY <1>1, <1>5 DEF IInv, TypeOK, Total
  <1>8. Total(counts)' = Cardinality(Over)'
    BY <1>4, <1>6, <1>7 DEF OutcomeInv
  <1>9. \A v \in Requests : phase'[v] \notin {"idle", "done"} => Bytes[v] <= QueueBytes
    BY <1>1, <1>3 DEF OutcomeInv
  <1>10. \A v \in Requests : closed'[v] = IF phase'[v] \in Told THEN 1 ELSE 0
    BY <1>1, <1>3 DEF OutcomeInv, Told
  <1>11. QED
    BY <1>8, <1>9, <1>10 DEF OutcomeInv

LEMMA OutcomeKept == IInv /\ OutcomeInv /\ [Next]_vars => OutcomeInv'
  <1> SUFFICES ASSUME IInv, OutcomeInv, [Next]_vars
               PROVE  OutcomeInv'
    OBVIOUS
  <1>1. CASE \E w \in Requests : Critical(w) \/ Wake(w) \/ Release(w)
    BY <1>1, OutcomeCounted, OutcomeUncounted DEF Critical, Wake
  <1>2. CASE \E w \in Requests : OverBudget(w) \/ \E k \in Owners : Acquire(w, k)
    BY <1>2, OutcomeUncounted
  <1>3. CASE DispatchRun \/ DispatchDead
    <2>1. NextRequest \in Requests
      BY <1>3, NextFacts DEF DispatchRun, DispatchDead, CanDispatch, Queued
    <2>2. QED
      BY <1>3, <2>1, OutcomeCounted, OutcomeUncounted
  <1>4. CASE \/ DispatchEnd
             \/ \E w \in Requests : Cancel(w) \/ Deadline(w)
             \/ \E k \in Keys : Lapse(k)
             \/ UNCHANGED vars
    <2>1. UNCHANGED <<phase, closed, counts>>
      BY <1>4 DEF DispatchEnd, Cancel, Deadline, Lapse, vars, callVars
    <2>2. QED
      BY <2>1 DEF OutcomeInv, Over, Total
  <1>5. CASE \E c \in Communities : Drop(c)
    BY <1>5, OutcomeDrops
  <1>6. QED
    BY <1>1, <1>2, <1>3, <1>4, <1>5 DEF Next, Dispatch

LEMMA OutcomeInit == Init => OutcomeInv
  <1> SUFFICES ASSUME Init
               PROVE  OutcomeInv
    OBVIOUS
  <1>1. Over = {} /\ Total(counts) = 0
    BY DEF Init, Over, Total
  <1>2. QED
    BY <1>1, FS_EmptySet DEF Init, OutcomeInv, Told

\* A call of acquire that is refused, granted or gives up gets one outcome, its
\* ready channel is closed at most once, and the statistics count every call that
\* is over exactly once, whatever evictions, drops, deadlines and cancellations
\* race with each other.
THEOREM OutcomesCorrect == Spec => []OutcomesExact
  <1>1. IInv /\ OutcomeInv => OutcomesExact
    <2>1. SUFFICES ASSUME IInv, OutcomeInv
                   PROVE  OutcomesExact
      OBVIOUS
    <2>2. SumFunction(counts) = Total(counts)
      BY <2>1, KindsSum DEF IInv, TypeOK, Kinds
    <2>3. QED
      BY <2>1, <2>2 DEF OutcomeInv, OutcomesExact, Told, Over
  <1>2. QED
    BY <1>1, InitFacts, OutcomeInit, NextKeeps, OutcomeKept, PTL DEF Spec

-----------------------------------------------------------------------------
(* The refinement of the worker pool. *)

\* What a caller of acquire sees of a phase.
Seen(p) == IF p = "idle" THEN "idle"
           ELSE IF p \in {"admitting", "queued"} THEN "waiting"
           ELSE IF p \in {"granted", "holding", "releasing"} THEN "running"
           ELSE "ended"

PoolState == [w \in Requests |-> IF phase[w] = "idle" THEN "idle"
                                 ELSE IF phase[w] \in {"admitting", "queued"} THEN "waiting"
                                 ELSE IF w \in Running THEN "running"
                                 ELSE "ended"]

LEMMA SeenFacts == PoolState = [w \in Requests |-> Seen(phase[w])]
  BY DEF PoolState, Seen, Running

PoolTypes == PoolState \in [Requests -> {"idle", "waiting", "running", "ended"}]

LEMMA SeenTypes == PoolTypes /\ PoolTypes'
  BY DEF PoolTypes, PoolState

\* A step that moves one call moves it as the pool allows.
LEMMA SeenMoves ==
    ASSUME phase \in [Requests -> Phases], NEW w \in Requests, NEW p,
           phase' = [phase EXCEPT ![w] = p]
    PROVE  PoolState' = [PoolState EXCEPT ![w] = Seen(p)]
  <1>1. \A v \in Requests : phase'[v] = IF v = w THEN p ELSE phase[v]
    OBVIOUS
  <1>2. PoolState' = [v \in Requests |-> Seen(phase'[v])]
    BY SeenFacts DEF PoolState, Running, Seen
  <1>3. QED
    BY <1>1, <1>2, SeenFacts

LEMMA SeenSame ==
    ASSUME phase \in [Requests -> Phases], NEW w \in Requests, NEW p,
           phase' = [phase EXCEPT ![w] = p], Seen(p) = Seen(phase[w])
    PROVE  PoolState' = PoolState
  <1>1. \A v \in Requests : Seen(phase'[v]) = Seen(phase[v])
    OBVIOUS
  <1>2. PoolState' = [v \in Requests |-> Seen(phase'[v])]
    BY SeenFacts DEF PoolState, Running, Seen
  <1>3. QED
    BY <1>1, <1>2, SeenFacts

\* Every call a step touches is one that had no slot and has come to its end.
LEMMA PoolRefuses ==
    ASSUME \A w \in Requests : \/ Seen(phase'[w]) = Seen(phase[w])
                               \/ /\ Seen(phase[w]) \in {"idle", "waiting"}
                                  /\ Seen(phase'[w]) = "ended"
    PROVE  Pool!Refuse
  <1>1. PoolState' = [w \in Requests |-> Seen(phase'[w])]
    BY DEF PoolState, Running, Seen
  <1>2. \A w \in Requests : \/ PoolState'[w] = PoolState[w]
                            \/ PoolState[w] \in {"idle", "waiting"} /\ PoolState'[w] = "ended"
    BY <1>1, SeenFacts
  <1>3. QED
    BY <1>2, SeenTypes DEF Pool!Refuse, Pool!PoolTypeOK, PoolState, PoolTypes

LEMMA PoolStep == IInv /\ [Next]_vars => [Pool!Next]_PoolState
  <1> SUFFICES ASSUME IInv, [Next]_vars
               PROVE  Pool!Next \/ PoolState' = PoolState
    OBVIOUS
  <1>1. phase \in [Requests -> Phases]
    BY DEF IInv, TypeOK
  <1>2. ASSUME NEW w \in Requests, NEW p, phase' = [phase EXCEPT ![w] = p],
               Seen(phase[w]) \in {"idle", "waiting"}, Seen(p) = "ended"
        PROVE  Pool!Next
    <2>1. \A v \in Requests : phase'[v] = IF v = w THEN p ELSE phase[v]
      BY <1>1, <1>2
    <2>2. QED
      BY <1>2, <2>1, PoolRefuses DEF Pool!Next
  <1>3. ASSUME NEW w \in Requests, NEW k \in Owners, Acquire(w, k)
        PROVE  Pool!Next
    <2>1. phase[w] = "idle" /\ phase' = [phase EXCEPT ![w] = "admitting"]
      BY <1>3 DEF Acquire
    <2>2. PoolState' = [PoolState EXCEPT ![w] = "waiting"] /\ PoolState[w] = "idle"
      BY <1>1, <2>1, SeenMoves, SeenFacts DEF Seen
    <2>3. QED
      BY <2>2 DEF Pool!Next, Pool!Submit, PoolState
  <1>4. ASSUME NEW w \in Requests, OverBudget(w) \/ Reject(w) \/ GiveUp(w)
        PROVE  Pool!Next
    <2>1. /\ phase[w] \in {"idle", "admitting", "queued"}
          /\ phase' = [phase EXCEPT ![w] = "done"]
      BY <1>4 DEF OverBudget, Reject, GiveUp, Return
    <2>2. QED
      BY <1>2, <2>1 DEF Seen
  <1>5. ASSUME NEW w \in Requests, Evict(w)
        PROVE  Pool!Next
    <2>1. PICK k \in Donors(w) : Resolve(queue[k][Len(queue[k])], "refused")
      BY <1>5 DEF Evict
    <2>2. queue[k][Len(queue[k])] \in Queued
      BY <1>5, DonorFacts DEF Evict, IInv, TypeOK, Of
    <2>3. QED
      BY <1>2, <2>1, <2>2 DEF Resolve, Seen, Queued
  <1>6. CASE DispatchDead
    <2>1. NextRequest \in Queued /\ Resolve(NextRequest, "refused")
      BY <1>6, NextFacts DEF DispatchDead, CanDispatch
    <2>2. QED
      BY <1>2, <2>1 DEF Resolve, Seen, Queued
  <1>7. CASE DispatchRun
    <2>1. PICK w \in Queued : Resolve(w, "granted") /\ sActive < Workers
      BY <1>7, NextFacts DEF DispatchRun, CanDispatch
    <2>2. w \in Requests /\ phase[w] = "queued" /\ phase' = [phase EXCEPT ![w] = "granted"]
      BY <2>1 DEF Resolve, Queued
    <2>3. PoolState' = [PoolState EXCEPT ![w] = "running"] /\ PoolState[w] = "waiting"
      BY <1>1, <2>2, SeenMoves, SeenFacts DEF Seen
    <2>4. Pool!Holders = Running
      BY SeenFacts DEF Pool!Holders, PoolState, Seen, Running
    <2>5. Cardinality(Pool!Holders) < Workers
      BY <2>1, <2>4 DEF IInv, SlotsExact
    <2>6. Pool!Grant(w)
      <3>1. Pool!Cardinality(Pool!Holders) = Cardinality(Pool!Holders)
        BY Zenon DEF Pool!Cardinality, Cardinality
      <3>2. QED
        BY <2>3, <2>5, <3>1 DEF Pool!Grant, PoolState
    <2>7. QED
      BY <2>2, <2>6 DEF Pool!Next
  <1>8. ASSUME NEW w \in Requests, LearnGranted(w) \/ LearnRefused(w) \/ Enqueue(w)
        PROVE  PoolState' = PoolState
    <2>1. \E p \in Phases : phase' = [phase EXCEPT ![w] = p] /\ Seen(p) = Seen(phase[w])
      <3>1. CASE LearnGranted(w)
        BY <3>1 DEF LearnGranted, Seen, Phases
      <3>2. CASE LearnRefused(w)
        BY <3>2 DEF LearnRefused, Return, Seen, Phases
      <3>3. CASE Enqueue(w)
        BY <3>3 DEF Enqueue, Seen, Phases
      <3>4. QED
        BY <1>8, <3>1, <3>2, <3>3
    <2>2. QED
      BY <1>1, <2>1, SeenSame
  <1>9. ASSUME NEW w \in Requests, Release(w)
        PROVE  Pool!Next
    <2>1. phase[w] \in {"holding", "releasing"} /\ phase' = [phase EXCEPT ![w] = "done"]
      BY <1>9 DEF Release, Finish, Return
    <2>2. Seen(phase[w]) = "running" /\ Seen("done") = "ended"
      BY <2>1 DEF Seen
    <2>3. PoolState' = [PoolState EXCEPT ![w] = "ended"] /\ PoolState[w] = "running"
      <3>1. PoolState[w] = "running"
        BY <2>2, SeenFacts
      <3>2. PoolState' = [PoolState EXCEPT ![w] = Seen("done")]
        BY <1>1, <2>1, SeenMoves
      <3>3. QED
        BY <2>2, <3>1, <3>2
    <2>4. QED
      BY <2>3 DEF Pool!Next, Pool!GiveBack, PoolState
  <1>10. CASE \/ DispatchEnd
              \/ \E w \in Requests : Cancel(w) \/ Deadline(w)
              \/ \E k \in Keys : Lapse(k)
              \/ UNCHANGED vars
    BY <1>10 DEF DispatchEnd, Cancel, Deadline, Lapse, vars, callVars, PoolState, Running
  <1>11. ASSUME NEW c \in Communities, Drop(c)
         PROVE  Pool!Next
    <2>1. /\ phase' = [w \in Requests |-> IF w \in OfGroup(Queued, c) THEN "refused" ELSE phase[w]]
          /\ \A w \in OfGroup(Queued, c) : phase[w] = "queued"
      BY <1>11 DEF Drop, OfGroup, Queued
    <2>2. \A w \in Requests : \/ Seen(phase'[w]) = Seen(phase[w])
                              \/ /\ Seen(phase[w]) \in {"idle", "waiting"}
                                 /\ Seen(phase'[w]) = "ended"
      BY <2>1 DEF Seen
    <2>3. QED
      BY <2>2, PoolRefuses DEF Pool!Next
  <1>12. QED
    BY <1>3, <1>4, <1>5, <1>6, <1>7, <1>8, <1>9, <1>10, <1>11
       DEF Next, Critical, Wake, Dispatch

\* The scheduler is a worker pool: every step of acquire, dispatch, finish and
\* dropCommunityWith submits, grants, refuses or gives back as WorkerPool says, or
\* changes nothing that a caller sees.
THEOREM ImplementsPool == Spec => PoolSpec
  <1>1. Init => Pool!Init
    BY DEF Init, Pool!Init
  <1>2. IInv /\ [Next]_vars => [Pool!Next]_PoolState
    BY PoolStep
  <1>3. QED
    BY <1>1, <1>2, InvariantHolds, PTL DEF Spec, PoolSpec, Pool!Spec, PoolState
=============================================================================
