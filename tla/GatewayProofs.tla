--------------------------- MODULE GatewayProofs ---------------------------
(***************************************************************************)
(* Proofs about Gateway: every token of the ingress and statistics         *)
(* channels belongs to one request that is where it should hold it, for    *)
(* any number of requests and any capacities.                              *)
(***************************************************************************)
EXTENDS Gateway, ListProofs

Processes == Requests \cup Writers
Lockers == Readers \cup Writers
Outside == {"new", "ingress", "done"}
OnIngress == {"ingress", "acquired"}
OnWait == {"stats", "granted"}
OnStats == {"granted", "metadata", "measured"}

\* The requests at one of some steps, and those that owe an ingress slot.
At(X) == {r \in Requests : pc[r] \in X}
Owing(c) == {r \in Requests \ released : Class(r) = c /\ pc[r] \notin Outside}

Counts(n, S) == IsFiniteSet(S) /\ n = Cardinality(S)

StepInv == /\ pc \in [Processes -> RequestSteps \cup {"rest", "writing"}]
           /\ released \subseteq Requests
           /\ \A r \in released : pc[r] \notin {"new", "ingress"}
           /\ Scheduler!PoolTypeOK

SlotInv == /\ slots \in [Classes -> Nat]
           /\ \A c \in Classes : slots[c] <= Capacity[c] /\ Counts(slots[c], Owing(c))

WaitInv == /\ ingressWaiters <= Waiting /\ Counts(ingressWaiters, At(OnIngress))
           /\ statsSlots <= StatsWorkers /\ Counts(statsSlots, At(OnStats))
           /\ statsWaiters <= StatsWaiting /\ Counts(statsWaiters, At(OnWait))

\* The connections are few because they are finitely many.
ConnInv == /\ connected \subseteq Requests
           /\ IsFiniteSet(connected) /\ Cardinality(connected) <= DBConnections

\* A process inside the index lock, granted or waiting, is at a step that
\* gives its place back.
Inside == holders \cup Range(waiters)
Seated == {"locking", "reading", "writing"}

SeatInv == /\ holders \subseteq Lockers /\ waiters \in Seq(Lockers)
           /\ IsInjective(waiters) /\ Range(waiters) \cap holders = {}
           /\ \A p \in Inside : pc[p] \in Seated

IInv == StepInv /\ SlotInv /\ WaitInv /\ ConnInv /\ SeatInv

-----------------------------------------------------------------------------
(* Counting *)

LEMMA Bounds ==
    /\ \A n \in {Waiting, StatsWorkers, StatsWaiting, DBConnections} : n \in Nat
    /\ Capacity \in [Classes -> Nat] /\ \A r : Class(r) \in Classes
    /\ Indexer \in Processes /\ Indexer \notin Requests
  BY GatewayAssumption DEF Capacity, Classes, Class, Processes

\* Sets that differ in p only have sizes that differ by p.
LEMMA CountMoves ==
    ASSUME NEW S, NEW T, NEW n, NEW p, Counts(n, S), S \ {p} = T \ {p}
    PROVE  /\ n \in Nat /\ (p \in S => n > 0)
           /\ Counts(n + (IF p \in T THEN 1 ELSE 0) - (IF p \in S THEN 1 ELSE 0), T)
  <1> DEFINE R == S \ {p}
  <1>1. IsFiniteSet(S) /\ n = Cardinality(S) /\ n \in Nat
    BY FS_CardinalityType DEF Counts
  <1>2. IsFiniteSet(R) /\ Cardinality(R) = IF p \in S THEN n - 1 ELSE n
    BY <1>1, FS_RemoveElement
  <1>3. Cardinality(R) \in Nat
    BY <1>2, FS_CardinalityType
  <1>4. CASE p \in T
    <2>1. T = R \cup {p} /\ p \notin R
      BY <1>4
    <2> HIDE DEF R
    <2>2. IsFiniteSet(T) /\ Cardinality(T) = Cardinality(R) + 1
      BY <1>2, <2>1, FS_AddElement
    <2>3. QED
      BY <1>1, <1>2, <1>3, <1>4, <2>2 DEF Counts
  <1>5. CASE p \notin T
    <2>1. T = R
      BY <1>5
    <2> HIDE DEF R
    <2>2. QED
      BY <1>1, <1>2, <1>3, <1>5, <2>1 DEF Counts
  <1>6. QED
    BY <1>4, <1>5

LEMMA StepOf ==
    ASSUME StepInv, NEW p \in Processes, NEW s, Go(p, s)
    PROVE  \A q \in Processes : pc'[q] = IF q = p THEN s ELSE pc[q]
  BY DEF StepInv, Go

\* What the step of r to s adds to the requests at one of the steps of X.
Change(r, s, X) == (IF s \in X THEN 1 ELSE 0) - (IF pc[r] \in X THEN 1 ELSE 0)

LEMMA AtMoves ==
    ASSUME StepInv, NEW r \in Requests, NEW s, Go(r, s), NEW X, NEW n, Counts(n, At(X))
    PROVE  n \in Nat /\ (pc[r] \in X => n > 0) /\ Counts(n + Change(r, s, X), At(X)')
  <1>1. \A q \in Requests : pc'[q] = IF q = r THEN s ELSE pc[q]
    BY StepOf DEF Processes
  <1> DEFINE S == At(X)
             T == {q \in Requests : pc'[q] \in X}
  <1>2. T = At(X)'
    BY DEF At
  <1>3. S \ {r} = T \ {r} /\ (r \in S <=> pc[r] \in X) /\ (r \in T <=> s \in X)
    BY <1>1 DEF At
  <1> HIDE DEF S, T
  <1>4. /\ n \in Nat /\ (r \in S => n > 0)
        /\ Counts(n + (IF r \in T THEN 1 ELSE 0) - (IF r \in S THEN 1 ELSE 0), T)
    BY <1>3, CountMoves DEF S
  <1>5. n + (IF r \in T THEN 1 ELSE 0) - (IF r \in S THEN 1 ELSE 0) = n + Change(r, s, X)
    BY <1>3, <1>4 DEF Change
  <1>6. QED
    BY <1>2, <1>3, <1>4, <1>5

-----------------------------------------------------------------------------
(* The parts of a step *)

\* The counters of waiting and statistics follow the step of r to s.
Passes(r, s) ==
    /\ ingressWaiters' = ingressWaiters + Change(r, s, OnIngress)
    /\ statsSlots' = statsSlots + Change(r, s, OnStats)
    /\ statsWaiters' = statsWaiters + Change(r, s, OnWait)
    /\ s \in OnIngress => ingressWaiters < Waiting \/ pc[r] \in OnIngress
    /\ s \in OnStats => statsSlots < StatsWorkers \/ pc[r] \in OnStats
    /\ s \in OnWait => statsWaiters < StatsWaiting \/ pc[r] \in OnWait

LEMMA WaitKeeps ==
    ASSUME StepInv, WaitInv, NEW r \in Requests, NEW s, Go(r, s), Passes(r, s)
    PROVE  WaitInv'
  <1>1. /\ ingressWaiters \in Nat
        /\ Counts(ingressWaiters + Change(r, s, OnIngress), At(OnIngress)')
    BY AtMoves DEF WaitInv
  <1>2. statsSlots \in Nat /\ Counts(statsSlots + Change(r, s, OnStats), At(OnStats)')
    BY AtMoves DEF WaitInv
  <1>3. statsWaiters \in Nat /\ Counts(statsWaiters + Change(r, s, OnWait), At(OnWait)')
    BY AtMoves DEF WaitInv
  <1>4. /\ ingressWaiters' <= Waiting /\ statsSlots' <= StatsWorkers
        /\ statsWaiters' <= StatsWaiting
    BY <1>1, <1>2, <1>3, Bounds DEF WaitInv, Passes, Change
  <1>5. QED
    BY <1>1, <1>2, <1>3, <1>4 DEF WaitInv, Passes

\* A request that keeps what it owes.
LEMMA SlotStays ==
    ASSUME StepInv, SlotInv, NEW r \in Requests, NEW s, Go(r, s),
           UNCHANGED <<slots, released>>, r \in released \/ (s \in Outside <=> pc[r] \in Outside)
    PROVE  SlotInv'
  <1>1. \A q \in Requests : pc'[q] = IF q = r THEN s ELSE pc[q]
    BY StepOf DEF Processes
  <1>2. \A c : Owing(c)' = Owing(c)
    BY <1>1 DEF Owing
  <1>3. QED
    BY <1>2 DEF SlotInv

LEMMA SlotTaken ==
    ASSUME StepInv, SlotInv, NEW r \in Requests, NEW s, s \notin Outside, Go(r, s),
           pc[r] \in {"new", "ingress"}, SlotFree(r), TakeSlot(r), UNCHANGED released
    PROVE  SlotInv'
  <1> DEFINE k == Class(r)
  <1>1. \A q \in Requests : pc'[q] = IF q = r THEN s ELSE pc[q]
    BY StepOf DEF Processes
  <1>2. r \notin released
    BY DEF StepInv
  <1>3. k \in Classes /\ slots[k] \in Nat /\ slots[k] < Capacity[k] /\ Capacity[k] \in Nat
    BY Bounds DEF SlotInv, SlotFree
  <1>4. /\ slots' \in [Classes -> Nat]
        /\ \A c \in Classes : slots'[c] = IF c = k THEN slots[c] + 1 ELSE slots[c]
    BY <1>3 DEF SlotInv, TakeSlot
  <1>5. \A c : Owing(c)' = {q \in Requests \ released :
                              Class(q) = c /\ pc'[q] \notin Outside}
    BY DEF Owing
  <1>6. ASSUME NEW c \in Classes
        PROVE  slots'[c] <= Capacity[c] /\ Counts(slots'[c], Owing(c)')
    <2>1. CASE c = k
      <3>1. /\ Owing(c) \ {r} = Owing(c)' \ {r}
            /\ r \notin Owing(c) /\ r \in Owing(c)'
        BY <1>1, <1>2, <1>5, <2>1 DEF Owing, Outside
      <3>2. Counts(slots[c], Owing(c))
        BY DEF SlotInv
      <3>3. Counts(slots[c] + 1 - 0, Owing(c)')
        BY <3>1, <3>2, CountMoves
      <3>4. QED
        BY <1>3, <1>4, <2>1, <3>3
    <2>2. CASE c # k
      <3>1. Owing(c)' = Owing(c)
        BY <1>1, <1>5, <2>2 DEF Owing
      <3>2. QED
        BY <1>4, <2>2, <3>1 DEF SlotInv
    <2>3. QED
      BY <2>1, <2>2
  <1>7. QED
    BY <1>4, <1>6 DEF SlotInv, Capacity

\* ingressOnce: whoever is admitted owes its slot until it has run, and
\* nothing after that.
LEMMA SlotGivenBack ==
    ASSUME StepInv, SlotInv, NEW r \in Requests, NEW s, Go(r, s),
           pc[r] \notin Outside, ReleaseIngress(r)
    PROVE  SlotInv' /\ released' = released \cup {r}
  <1> DEFINE k == Class(r)
  <1>1. \A q \in Requests : pc'[q] = IF q = r THEN s ELSE pc[q]
    BY StepOf DEF Processes
  <1>2. CASE r \in released
    <2>1. UNCHANGED <<slots, released>>
      BY <1>2 DEF ReleaseIngress
    <2>2. QED
      BY <1>2, <2>1, SlotStays
  <1>3. CASE r \notin released
    <2>1. /\ slots[k] > 0 /\ slots' = [slots EXCEPT ![k] = @ - 1]
          /\ released' = released \cup {r}
      BY <1>3 DEF ReleaseIngress
    <2>2. k \in Classes /\ slots[k] \in Nat /\ Capacity[k] \in Nat
      BY Bounds DEF SlotInv
    <2>3. /\ slots' \in [Classes -> Nat]
          /\ \A c \in Classes : slots'[c] = IF c = k THEN slots[c] - 1 ELSE slots[c]
      BY <2>1, <2>2 DEF SlotInv
    <2>4. \A c : Owing(c)' = {q \in Requests \ (released \cup {r}) :
                                Class(q) = c /\ pc'[q] \notin Outside}
      BY <2>1 DEF Owing
    <2>5. ASSUME NEW c \in Classes
          PROVE  slots'[c] <= Capacity[c] /\ Counts(slots'[c], Owing(c)')
      <3>1. CASE c = k
        <4>1. /\ Owing(c) \ {r} = Owing(c)' \ {r}
              /\ r \in Owing(c) /\ r \notin Owing(c)'
          BY <1>1, <1>3, <2>4, <3>1 DEF Owing
        <4>2. Counts(slots[c], Owing(c)) /\ slots[c] <= Capacity[c]
          BY DEF SlotInv
        <4>3. Counts(slots[c] + 0 - 1, Owing(c)')
          BY <4>1, <4>2, CountMoves
        <4>4. QED
          BY <2>2, <2>3, <3>1, <4>2, <4>3
      <3>2. CASE c # k
        <4>1. Owing(c)' = Owing(c)
          BY <1>1, <2>4, <3>2 DEF Owing
        <4>2. QED
          BY <2>3, <3>2, <4>1 DEF SlotInv
      <3>3. QED
        BY <3>1, <3>2
    <2>6. QED
      BY <2>1, <2>3, <2>5 DEF SlotInv, Capacity
  <1>4. QED
    BY <1>2, <1>3

\* What else a step to s has to respect.
LEMMA StepKeeps ==
    ASSUME StepInv, NEW p \in Processes, NEW s \in RequestSteps \cup {"rest", "writing"},
           Go(p, s), s \in {"new", "ingress"} => p \notin released,
           \/ UNCHANGED released
           \/ p \in Requests /\ released' = released \cup {p} /\ s \notin {"new", "ingress"},
           Scheduler!PoolTypeOK'
    PROVE  StepInv'
  <1>1. \A q \in Processes : pc'[q] = IF q = p THEN s ELSE pc[q]
    BY StepOf
  <1>2. pc' \in [Processes -> RequestSteps \cup {"rest", "writing"}]
    BY DEF StepInv, Go
  <1>3. released' \subseteq Requests /\ released' \subseteq Processes
    BY DEF StepInv, Processes
  <1>4. ASSUME NEW r \in released'
        PROVE  pc'[r] \notin {"new", "ingress"}
    BY <1>1, <1>3 DEF StepInv
  <1>5. QED
    BY <1>2, <1>3, <1>4 DEF StepInv

-----------------------------------------------------------------------------
(* The places in the index lock *)

\* A release serves waiters that are there.
LEMMA ServedFacts ==
    ASSUME NEW H, NEW w \in Seq(Lockers)
    PROVE  Served(H, w) \in 0 .. Len(w)
  <1> DEFINE K == {k \in 0 .. Len(w) : \A i \in 1 .. k : Fits(w[i], H \cup First(i - 1, w))}
  <1>1. Len(w) \in Nat
    BY LenProperties
  <1>2. K \subseteq 0 .. Len(w) /\ 0 \in K
    BY <1>1
  <1>3. Served(H, w) = Max(K)
    BY DEF Served
  <1> HIDE DEF K
  <1>4. \E x \in K : \A y \in K : x >= y
    BY <1>1, <1>2, LargestNatural
  <1>5. QED
    BY <1>2, <1>3, <1>4 DEF Max

\* A step of p that keeps the places apart and lets nobody but p in.
Seats(p) == /\ holders' \subseteq Lockers /\ waiters' \in Seq(Lockers)
            /\ IsInjective(waiters') /\ Range(waiters') \cap holders' = {}
            /\ Inside' \subseteq Inside \cup {p}

LEMMA UnlockSeats ==
    ASSUME SeatInv, NEW p \in Processes, Unlock(p)
    PROVE  Seats(p) /\ p \notin Inside'
  <1> DEFINE H == holders \ {p}
             w == Without(waiters, p)
             k == Served(H, w)
             F == {w[i] : i \in 1 .. k}
             v == SubSeq(w, k + 1, Len(w))
  <1>1. /\ w \in Seq(Lockers) /\ IsInjective(w)
        /\ Range(w) = Range(waiters) \ {p}
    BY WithoutFacts DEF SeatInv
  <1>2. holders' = H \cup F /\ waiters' = v
    BY DEF Unlock, Settle, First
  <1>3. k \in 0 .. Len(w)
    <2> HIDE DEF w, H
    <2>1. QED
      BY <1>1, ServedFacts
  <1> HIDE DEF k
  <1>4. /\ v \in Seq(Lockers) /\ F \subseteq Lockers /\ IsInjective(v)
        /\ Range(v) = Range(w) \ F /\ F \subseteq Range(w)
    <2> HIDE DEF w
    <2>1. QED
      BY <1>1, <1>3, SuffixFacts
  <1> HIDE DEF w, F, v
  <1>5. Inside' = H \cup Range(w)
    BY <1>2, <1>4 DEF Inside
  <1>6. QED
    BY <1>1, <1>2, <1>4, <1>5 DEF SeatInv, Seats, Inside, H

LEMMA LockSeats ==
    ASSUME SeatInv, NEW p \in Lockers, pc[p] \notin Seated, Lock(p)
    PROVE  Seats(p)
  <1>1. p \notin holders /\ p \notin Range(waiters)
    BY DEF SeatInv, Inside
  <1>2. CASE waiters = <<>> /\ Fits(p, holders)
    <2>1. holders' = holders \cup {p} /\ waiters' = waiters
      BY <1>2 DEF Lock
    <2>2. QED
      BY <1>1, <2>1 DEF SeatInv, Seats, Inside
  <1>3. CASE ~(waiters = <<>> /\ Fits(p, holders))
    <2>1. holders' = holders /\ waiters' = Append(waiters, p)
      BY <1>3 DEF Lock
    <2>2. /\ waiters' \in Seq(Lockers) /\ IsInjective(waiters')
          /\ Range(waiters') = Range(waiters) \cup {p}
      BY <1>1, <2>1, AppendFacts DEF SeatInv
    <2>3. QED
      BY <1>1, <2>1, <2>2 DEF SeatInv, Seats, Inside
  <1>4. QED
    BY <1>2, <1>3

\* The step that p takes leaves it at s, where it may be inside or is not.
LEMMA SeatKeeps ==
    ASSUME StepInv, SeatInv, NEW p \in Processes, NEW s, Seats(p), Go(p, s),
           s \in Seated \/ p \notin Inside'
    PROVE  SeatInv'
  <1>1. \A q \in Processes : pc'[q] = IF q = p THEN s ELSE pc[q]
    BY StepOf
  <1>2. Inside \cup {p} \subseteq Processes
    <2>1. Inside \subseteq Lockers
      BY RangeFacts DEF SeatInv, Inside
    <2>2. QED
      BY <2>1 DEF Lockers, Processes, Requests
  <1>3. ASSUME NEW q \in Inside'
        PROVE  pc'[q] \in Seated
    <2>1. q \in Inside \cup {p} /\ q \in Processes
      BY <1>2 DEF Seats
    <2>2. CASE q = p
      BY <1>1, <1>3, <2>1, <2>2
    <2>3. CASE q # p
      BY <1>1, <2>1, <2>3 DEF SeatInv
    <2>4. QED
      BY <2>2, <2>3
  <1>4. QED
    BY <1>3 DEF SeatInv, Seats

\* A step that leaves the lock alone does not leave a seat.
LEMMA StaysSeated ==
    ASSUME StepInv, SeatInv, NEW p \in Processes, NEW s, UNCHANGED lockVars, Go(p, s),
           pc[p] \notin Seated \/ s \in Seated
    PROVE  SeatInv'
  <1>1. Seats(p) /\ Inside' = Inside
    BY DEF SeatInv, Seats, Inside, lockVars
  <1>2. s \in Seated \/ p \notin Inside'
    BY <1>1 DEF SeatInv
  <1>3. QED
    BY <1>1, <1>2, SeatKeeps

-----------------------------------------------------------------------------
(* The steps *)

\* Whatever the request still had is given back once.
LEMMA FinishKeeps ==
    ASSUME IInv, NEW r \in Requests, pc[r] \notin Outside \cup {"acquired", "granted"}, Finish(r)
    PROVE  IInv'
  <1> USE DEF IInv
  <1>1. Go(r, "done") /\ ReleaseIngress(r) /\ r \in Processes
    BY DEF Finish, Processes
  <1>2. SlotInv' /\ released' = released \cup {r}
    BY <1>1, SlotGivenBack
  <1>3. Scheduler!PoolTypeOK'
    <2>1. pool' = pool \/ pool' = [pool EXCEPT ![r] = "ended"]
      BY DEF Finish
    <2>2. QED
      BY <2>1 DEF StepInv, Scheduler!PoolTypeOK
  <1>4. StepInv'
    BY <1>1, <1>2, <1>3, StepKeeps DEF RequestSteps, Waits
  <1>5. Passes(r, "done")
    <2>1. /\ ingressWaiters \in Nat /\ statsSlots \in Nat /\ statsWaiters \in Nat
      BY <1>1, AtMoves DEF WaitInv
    <2>2. Change(r, "done", OnIngress) = 0
      BY DEF Change, Outside, OnIngress
    <2>3. statsSlots' = statsSlots + Change(r, "done", OnStats)
      BY <2>1 DEF Change, Finish, HasStats, OnStats
    <2>4. statsWaiters' = statsWaiters + Change(r, "done", OnWait)
      BY <2>1 DEF Change, Finish, OnWait
    <2>5. QED
      BY <2>1, <2>2, <2>3, <2>4 DEF Passes, Finish, OnStats, OnIngress, OnWait
  <1>6. WaitInv'
    BY <1>1, <1>5, WaitKeeps
  <1>7. ConnInv'
    <2>1. connected' = connected \ {r}
      BY DEF Finish
    <2>2. IsFiniteSet(connected') /\ Cardinality(connected') <= Cardinality(connected)
      BY <2>1, FS_Subset DEF ConnInv
    <2>3. Cardinality(connected') \in Nat /\ Cardinality(connected) \in Nat
      BY <2>2, FS_CardinalityType DEF ConnInv
    <2>4. QED
      BY <2>1, <2>2, <2>3, Bounds DEF ConnInv
  <1>8. SeatInv'
    <2>1. CASE r \in Inside
      <3>1. r \in holders \/ \E i \in DOMAIN waiters : waiters[i] = r
        BY <2>1, RangeFacts DEF Inside, Has, SeatInv
      <3>2. Unlock(r)
        BY <3>1 DEF Finish
      <3>3. QED
        BY <1>1, <3>2, UnlockSeats, SeatKeeps
    <2>2. CASE r \notin Inside
      <3>1. ~(r \in holders \/ \E i \in DOMAIN waiters : waiters[i] = r)
        BY <2>2, RangeFacts DEF Inside, Has, SeatInv
      <3>2. UNCHANGED lockVars
        BY <3>1 DEF Finish
      <3>3. Seats(r) /\ r \notin Inside'
        BY <2>2, <3>2 DEF SeatInv, Seats, Inside, lockVars
      <3>4. QED
        BY <1>1, <3>3, SeatKeeps
    <2>3. QED
      BY <2>1, <2>2
  <1>9. QED
    BY <1>2, <1>4, <1>6, <1>7, <1>8

\* A step of r to s that leaves the counters of waiting and statistics, the
\* connections and the lock alone.
LEMMA QuietKeeps ==
    ASSUME IInv, NEW r \in Requests, NEW s \in RequestSteps \ (Seated \cup OnIngress \cup OnWait),
           Go(r, s), pc[r] \notin Seated \cup OnIngress \cup OnWait,
           s \in OnStats <=> pc[r] \in OnStats,
           UNCHANGED <<lockVars, ingressWaiters, statsSlots, statsWaiters, connected>>
    PROVE  WaitInv' /\ ConnInv' /\ SeatInv'
  <1> USE DEF IInv
  <1>1. /\ ingressWaiters \in Nat /\ statsSlots \in Nat /\ statsWaiters \in Nat
    BY AtMoves DEF WaitInv
  <1>2. Passes(r, s)
    BY <1>1 DEF Passes, Change
  <1>3. WaitInv'
    BY <1>2, WaitKeeps
  <1>4. SeatInv'
    BY StaysSeated DEF Processes
  <1>5. QED
    BY <1>3, <1>4 DEF ConnInv

\* A step that takes or leaves a place in a queue.
LEMMA QueueKeeps ==
    ASSUME IInv, NEW r \in Requests, NEW s \in RequestSteps, Go(r, s), Passes(r, s),
           pc[r] \notin Seated, UNCHANGED <<lockVars, connected>>
    PROVE  WaitInv' /\ ConnInv' /\ SeatInv'
  <1> USE DEF IInv
  <1>1. WaitInv' /\ SeatInv'
    BY WaitKeeps, StaysSeated DEF Processes
  <1>2. QED
    BY <1>1 DEF ConnInv

LEMMA SamePool == ASSUME StepInv, UNCHANGED pool PROVE Scheduler!PoolTypeOK'
  BY DEF StepInv, Scheduler!PoolTypeOK

LEMMA Counters ==
    ASSUME WaitInv
    PROVE  ingressWaiters \in Nat /\ statsSlots \in Nat /\ statsWaiters \in Nat
  BY FS_CardinalityType DEF WaitInv, Counts

\* Coming in: at once, by waiting, or not at all.
LEMMA ArriveKeeps ==
    ASSUME IInv, NEW r \in Requests, Arrive(r)
    PROVE  IInv'
  <1> USE Counters, SamePool DEF IInv, Processes
  <1>1. /\ pc[r] = "new" /\ r \notin released /\ UNCHANGED released
        /\ UNCHANGED <<lockVars, connected>> /\ UNCHANGED pool
        /\ UNCHANGED <<statsSlots, statsWaiters>>
    BY DEF Arrive, StepInv
  <1>2. CASE SlotFree(r) /\ TakeSlot(r) /\ Go(r, "admitted") /\ UNCHANGED ingressWaiters
    <2>1. SlotInv'
      BY <1>1, <1>2, SlotTaken DEF Outside
    <2>2. StepInv'
      BY <1>1, <1>2, StepKeeps DEF RequestSteps, Waits
    <2>3. Passes(r, "admitted")
      BY <1>1, <1>2 DEF Passes, Change, OnStats, OnIngress, OnWait
    <2>4. WaitInv' /\ ConnInv' /\ SeatInv'
      BY <1>1, <1>2, <2>3, QueueKeeps DEF RequestSteps, Waits, Seated
    <2>5. QED
      BY <2>1, <2>2, <2>4
  <1>3. CASE /\ ~SlotFree(r) /\ RoomToWait /\ ingressWaiters' = ingressWaiters + 1
             /\ Go(r, "ingress") /\ UNCHANGED slots
    <2>1. SlotInv'
      BY <1>1, <1>3, SlotStays DEF Outside
    <2>2. StepInv'
      BY <1>1, <1>3, StepKeeps DEF RequestSteps, Waits
    <2>3. Passes(r, "ingress")
      BY <1>1, <1>3 DEF Passes, Change, OnStats, OnIngress, OnWait, RoomToWait
    <2>4. WaitInv' /\ ConnInv' /\ SeatInv'
      BY <1>1, <1>3, <2>3, QueueKeeps DEF RequestSteps, Waits, Seated
    <2>5. QED
      BY <2>1, <2>2, <2>4
  <1>4. CASE Go(r, "done") /\ UNCHANGED <<slots, ingressWaiters>>
    <2>1. SlotInv'
      BY <1>1, <1>4, SlotStays DEF Outside
    <2>2. StepInv'
      BY <1>1, <1>4, StepKeeps DEF RequestSteps, Waits
    <2>3. Passes(r, "done")
      BY <1>1, <1>4 DEF Passes, Change, OnStats, OnIngress, OnWait
    <2>4. WaitInv' /\ ConnInv' /\ SeatInv'
      BY <1>1, <1>4, <2>3, QueueKeeps DEF RequestSteps, Waits, Seated
    <2>5. QED
      BY <2>1, <2>2, <2>4
  <1>5. QED
    BY <1>2, <1>3, <1>4 DEF Arrive

\* The end of the wait, by a slot or by the timer.
LEMMA AdmitKeeps ==
    ASSUME IInv, NEW r \in Requests, Admit(r) \/ AdmissionExpires(r)
    PROVE  IInv'
  <1> USE Counters, SamePool DEF IInv, Processes
  <1>1. /\ pc[r] = "ingress" /\ r \notin released /\ UNCHANGED released
        /\ UNCHANGED <<lockVars, connected>> /\ UNCHANGED pool
        /\ UNCHANGED <<statsSlots, statsWaiters>>
    BY DEF Admit, AdmissionExpires, StepInv
  <1>2. CASE Admit(r)
    <2>1. SlotFree(r) /\ TakeSlot(r) /\ Go(r, "acquired") /\ UNCHANGED ingressWaiters
      BY <1>2 DEF Admit
    <2>2. SlotInv'
      BY <1>1, <2>1, SlotTaken DEF Outside
    <2>3. StepInv'
      BY <1>1, <2>1, StepKeeps DEF RequestSteps, Waits
    <2>4. Passes(r, "acquired")
      BY <1>1, <2>1 DEF Passes, Change, OnStats, OnIngress, OnWait
    <2>5. WaitInv' /\ ConnInv' /\ SeatInv'
      BY <1>1, <2>1, <2>4, QueueKeeps DEF RequestSteps, Waits, Seated
    <2>6. QED
      BY <2>2, <2>3, <2>5
  <1>3. CASE AdmissionExpires(r)
    <2>1. Go(r, "done") /\ UNCHANGED slots /\ ingressWaiters' = ingressWaiters - 1
      BY <1>3 DEF AdmissionExpires
    <2>2. SlotInv'
      BY <1>1, <2>1, SlotStays DEF Outside
    <2>3. StepInv'
      BY <1>1, <2>1, StepKeeps DEF RequestSteps, Waits
    <2>4. Passes(r, "done")
      BY <1>1, <2>1 DEF Passes, Change, OnStats, OnIngress, OnWait
    <2>5. WaitInv' /\ ConnInv' /\ SeatInv'
      BY <1>1, <2>1, <2>4, QueueKeeps DEF RequestSteps, Waits, Seated
    <2>6. QED
      BY <2>2, <2>3, <2>5
  <1>4. QED
    BY <1>2, <1>3

\* The waiting token goes back when the slot is there.
LEMMA StopWaitingKeeps ==
    ASSUME IInv, NEW r \in Requests, StopWaiting(r)
    PROVE  IInv'
  <1> USE Counters, SamePool DEF IInv, Processes
  <1>1. /\ UNCHANGED <<lockVars, connected>> /\ UNCHANGED pool
        /\ UNCHANGED <<slots, released>> /\ UNCHANGED statsSlots
    BY DEF StopWaiting
  <1>2. ASSUME NEW s \in {"admitted", "metadata"}, Go(r, s), Passes(r, s),
               pc[r] \in {"acquired", "granted"}
        PROVE  IInv'
    <2>1. SlotInv'
      BY <1>1, <1>2, SlotStays DEF Outside
    <2>2. StepInv'
      BY <1>1, <1>2, StepKeeps DEF RequestSteps, Waits
    <2>3. WaitInv' /\ ConnInv' /\ SeatInv'
      BY <1>1, <1>2, QueueKeeps DEF RequestSteps, Waits, Seated
    <2>4. QED
      BY <2>1, <2>2, <2>3
  <1>3. CASE /\ pc[r] = "acquired" /\ Go(r, "admitted")
             /\ ingressWaiters' = ingressWaiters - 1 /\ UNCHANGED statsWaiters
    <2>1. Passes(r, "admitted")
      BY <1>1, <1>3 DEF Passes, Change, OnStats, OnIngress, OnWait
    <2>2. QED
      BY <1>2, <1>3, <2>1
  <1>4. CASE /\ pc[r] = "granted" /\ Go(r, "metadata")
             /\ statsWaiters' = statsWaiters - 1 /\ UNCHANGED ingressWaiters
    <2>1. Passes(r, "metadata")
      BY <1>1, <1>4 DEF Passes, Change, OnStats, OnIngress, OnWait
    <2>2. QED
      BY <1>2, <1>4, <2>1
  <1>5. QED
    BY <1>3, <1>4 DEF StopWaiting

\* Statistics wait without an ingress slot.
LEMMA AdmitStatsKeeps ==
    ASSUME IInv, NEW r \in Requests, AdmitStats(r)
    PROVE  IInv'
  <1> USE Counters, SamePool DEF IInv, Processes
  <1>1. pc[r] = "admitted"
    BY DEF AdmitStats
  <1>2. CASE Finish(r)
    BY <1>1, <1>2, FinishKeeps DEF Outside
  <1>3. ASSUME NEW s \in {"metadata", "stats"}, Go(r, s), ReleaseIngress(r), Passes(r, s),
               UNCHANGED <<lockVars, connected>>, UNCHANGED pool
        PROVE  IInv'
    <2>1. SlotInv' /\ released' = released \cup {r}
      BY <1>1, <1>3, SlotGivenBack DEF Outside
    <2>2. StepInv'
      BY <1>3, <2>1, StepKeeps DEF RequestSteps, Waits
    <2>3. WaitInv' /\ ConnInv' /\ SeatInv'
      BY <1>1, <1>3, QueueKeeps DEF RequestSteps, Waits, Seated
    <2>4. QED
      BY <2>1, <2>2, <2>3
  <1>4. CASE /\ statsSlots < StatsWorkers /\ ReleaseIngress(r) /\ Go(r, "metadata")
             /\ statsSlots' = statsSlots + 1 /\ UNCHANGED statsWaiters
             /\ UNCHANGED <<lockVars, ingressWaiters, pool, connected>>
    <2>1. Passes(r, "metadata")
      BY <1>1, <1>4 DEF Passes, Change, OnStats, OnIngress, OnWait
    <2>2. QED
      BY <1>3, <1>4, <2>1
  <1>5. CASE /\ statsWaiters < StatsWaiting /\ ReleaseIngress(r) /\ Go(r, "stats")
             /\ statsWaiters' = statsWaiters + 1 /\ UNCHANGED statsSlots
             /\ UNCHANGED <<lockVars, ingressWaiters, pool, connected>>
    <2>1. Passes(r, "stats")
      BY <1>1, <1>5 DEF Passes, Change, OnStats, OnIngress, OnWait
    <2>2. QED
      BY <1>3, <1>5, <2>1
  <1>6. QED
    BY <1>2, <1>4, <1>5 DEF AdmitStats

LEMMA GrantStatsKeeps ==
    ASSUME IInv, NEW r \in Requests, GrantStats(r)
    PROVE  IInv'
  <1> USE Counters, SamePool DEF IInv, Processes
  <1>1. /\ pc[r] = "stats" /\ Go(r, "granted") /\ statsSlots < StatsWorkers
        /\ statsSlots' = statsSlots + 1 /\ statsWaiters' = statsWaiters
        /\ UNCHANGED <<lockVars, connected>> /\ UNCHANGED <<slots, released>>
        /\ UNCHANGED ingressWaiters /\ UNCHANGED pool
    BY DEF GrantStats
  <1>2. SlotInv'
    BY <1>1, SlotStays DEF Outside
  <1>3. StepInv'
    BY <1>1, StepKeeps DEF RequestSteps, Waits
  <1>4. Passes(r, "granted")
    BY <1>1 DEF Passes, Change, OnStats, OnIngress, OnWait
  <1>5. WaitInv' /\ ConnInv' /\ SeatInv'
    BY <1>1, <1>4, QueueKeeps DEF RequestSteps, Waits, Seated
  <1>6. QED
    BY <1>2, <1>3, <1>5

\* Who the request is, and the queues behind it.
LEMMA IdentifyKeeps ==
    ASSUME IInv, NEW r \in Requests, Identify(r)
    PROVE  IInv'
  <1> USE SamePool DEF IInv, Processes
  <1>1. /\ UNCHANGED <<lockVars, ingressWaiters, statsSlots, statsWaiters, connected>>
        /\ UNCHANGED <<slots, released>> /\ UNCHANGED pool
    BY DEF Identify, channels
  <1>2. ASSUME NEW s \in {"measured", "identified"}, Go(r, s),
               pc[r] = IF s = "measured" THEN "metadata" ELSE "admitted"
        PROVE  IInv'
    <2>1. SlotInv'
      BY <1>1, <1>2, SlotStays DEF Outside
    <2>2. StepInv'
      BY <1>1, <1>2, StepKeeps DEF RequestSteps, Waits
    <2>3. WaitInv' /\ ConnInv' /\ SeatInv'
      BY <1>1, <1>2, QuietKeeps DEF RequestSteps, Waits, Seated, OnStats, OnIngress, OnWait
    <2>4. QED
      BY <2>1, <2>2, <2>3
  <1>3. QED
    BY <1>2 DEF Identify

LEMMA EnqueueKeeps ==
    ASSUME IInv, NEW r \in Requests, Enqueue(r)
    PROVE  IInv'
  <1> USE DEF IInv, Processes
  <1>1. /\ UNCHANGED <<lockVars, ingressWaiters, statsSlots, statsWaiters, connected>>
        /\ pc[r] = "identified" /\ ReleaseIngress(r)
    BY DEF Enqueue
  <1>2. PICK s \in {"queued", "upload"} : Go(r, s)
    BY DEF Enqueue
  <1>3. Scheduler!PoolTypeOK'
    BY DEF Enqueue, StepInv, Scheduler!PoolTypeOK, Scheduler!Submit
  <1>4. SlotInv' /\ released' = released \cup {r}
    BY <1>1, <1>2, SlotGivenBack DEF Outside
  <1>5. StepInv'
    BY <1>2, <1>3, <1>4, StepKeeps DEF RequestSteps, Waits
  <1>6. WaitInv' /\ ConnInv' /\ SeatInv'
    BY <1>1, <1>2, QuietKeeps DEF RequestSteps, Waits, Seated, OnStats, OnIngress, OnWait
  <1>7. QED
    BY <1>4, <1>5, <1>6

LEMMA DispatchKeeps ==
    ASSUME IInv, NEW r \in Requests, Dispatch(r)
    PROVE  IInv'
  <1> USE DEF IInv, Processes
  <1>1. /\ UNCHANGED <<lockVars, ingressWaiters, statsSlots, statsWaiters, connected>>
        /\ UNCHANGED <<slots, released>>
        /\ pc[r] \in {"queued", "upload", "identified"} /\ Go(r, "begin")
    BY DEF Dispatch, channels
  <1>2. Scheduler!PoolTypeOK'
    BY DEF Dispatch, StepInv, Scheduler!PoolTypeOK, Scheduler!Grant
  <1>3. SlotInv'
    BY <1>1, SlotStays DEF Outside
  <1>4. StepInv'
    BY <1>1, <1>2, StepKeeps DEF RequestSteps, Waits
  <1>5. WaitInv' /\ ConnInv' /\ SeatInv'
    BY <1>1, QuietKeeps DEF RequestSteps, Waits, Seated, OnStats, OnIngress, OnWait
  <1>6. QED
    BY <1>3, <1>4, <1>5

\* The connection of the operation is one that was free.
LEMMA BeginKeeps ==
    ASSUME IInv, NEW r \in Requests, Begin(r)
    PROVE  IInv'
  <1> USE SamePool, Counters DEF IInv, Processes
  <1>1. /\ UNCHANGED lockVars /\ UNCHANGED <<ingressWaiters, statsSlots, statsWaiters>>
        /\ UNCHANGED <<slots, released>> /\ UNCHANGED pool
        /\ pc[r] = "begin" /\ Go(r, "inside")
        /\ connected' = connected \cup {r} /\ Cardinality(connected) < DBConnections
    BY DEF Begin, ConnectionFree, channels
  <1>2. SlotInv'
    BY <1>1, SlotStays DEF Outside
  <1>3. StepInv'
    BY <1>1, StepKeeps DEF RequestSteps, Waits
  <1>4. Passes(r, "inside")
    BY <1>1 DEF Passes, Change, OnStats, OnIngress, OnWait
  <1>5. WaitInv' /\ SeatInv'
    BY <1>1, <1>4, WaitKeeps, StaysSeated DEF Seated
  <1>6. ConnInv'
    <2>1. Cardinality(connected) \in Nat
      BY FS_CardinalityType DEF ConnInv
    <2>2. /\ IsFiniteSet(connected')
          /\ Cardinality(connected') \in {Cardinality(connected), Cardinality(connected) + 1}
      BY <1>1, FS_AddElement DEF ConnInv
    <2>3. QED
      BY <1>1, <2>1, <2>2, Bounds DEF ConnInv
  <1>7. QED
    BY <1>2, <1>3, <1>5, <1>6

\* Asking for the index, reading it, and leaving it.
LEMMA ReadKeeps ==
    ASSUME IInv, NEW r \in Requests, LockIndex(r) \/ Granted(r) \/ Read(r)
    PROVE  IInv'
  <1> USE SamePool, Counters DEF IInv, Processes
  <1>1. /\ UNCHANGED <<ingressWaiters, statsSlots, statsWaiters>>
        /\ UNCHANGED <<slots, released>> /\ UNCHANGED pool /\ UNCHANGED connected
    BY DEF LockIndex, Granted, Read, channels
  <1>2. ASSUME NEW s \in {"locking", "reading", "asking"}, Go(r, s),
               pc[r] \in {"inside", "locking", "reading"}
        PROVE  StepInv' /\ SlotInv' /\ WaitInv' /\ ConnInv'
    <2>1. SlotInv'
      BY <1>1, <1>2, SlotStays DEF Outside
    <2>2. StepInv'
      BY <1>1, <1>2, StepKeeps DEF RequestSteps, Waits
    <2>3. Passes(r, s)
      BY <1>1, <1>2 DEF Passes, Change, OnStats, OnIngress, OnWait
    <2>4. WaitInv' /\ ConnInv'
      BY <1>1, <1>2, <2>3, WaitKeeps DEF ConnInv
    <2>5. QED
      BY <2>1, <2>2, <2>4
  <1>3. CASE LockIndex(r)
    <2>1. pc[r] = "inside" /\ Lock(r) /\ Go(r, "locking") /\ r \in Lockers
      BY <1>3 DEF LockIndex, Lockers
    <2>2. SeatInv'
      BY <2>1, LockSeats, SeatKeeps DEF Seated
    <2>3. QED
      BY <1>2, <2>1, <2>2
  <1>4. CASE Granted(r)
    <2>1. pc[r] = "locking" /\ Go(r, "reading") /\ UNCHANGED lockVars
      BY <1>4 DEF Granted
    <2>2. SeatInv'
      BY <2>1, StaysSeated DEF Seated
    <2>3. QED
      BY <1>2, <2>1, <2>2
  <1>5. CASE Read(r)
    <2>1. pc[r] = "reading" /\ Unlock(r) /\ Go(r, "asking")
      BY <1>5 DEF Read
    <2>2. SeatInv'
      BY <2>1, UnlockSeats, SeatKeeps
    <2>3. QED
      BY <1>2, <2>1, <2>2
  <1>6. QED
    BY <1>3, <1>4, <1>5

\* The end of an admitted request, whichever.
LEMMA EndKeeps ==
    ASSUME IInv, NEW r \in Requests, Fail(r) \/ Answer(r)
    PROVE  IInv'
  <1>1. Finish(r) /\ pc[r] \notin Outside \cup {"acquired", "granted"}
    BY DEF Fail, Answer, Outside
  <1>2. QED
    BY <1>1, FinishKeeps

\* The index worker is no request: it has a place in the lock and nothing else.
LEMMA IndexerKeeps ==
    ASSUME IInv, Index \/ IndexerFails
    PROVE  IInv'
  <1> USE Bounds, SamePool DEF IInv
  <1>1. /\ UNCHANGED <<ingressWaiters, statsSlots, statsWaiters>>
        /\ UNCHANGED <<slots, released>> /\ UNCHANGED pool /\ UNCHANGED connected
    BY DEF Index, StepIndex, IndexerGranted, WriteIndex, IndexerFails, channels
  <1>2. ASSUME NEW s \in {"locking", "writing", "rest"}, Go(Indexer, s)
        PROVE  StepInv' /\ SlotInv' /\ WaitInv' /\ ConnInv'
    <2>1. \A r \in Requests : pc'[r] = pc[r]
      BY <1>2, StepOf DEF Processes
    <2>2. StepInv'
      BY <1>1, <1>2, StepKeeps DEF RequestSteps, Waits
    <2>3. /\ \A c : Owing(c)' = Owing(c)
          /\ \A X : {r \in Requests : pc'[r] \in X} = At(X)
      BY <1>1, <2>1 DEF Owing, At
    <2>4. /\ At(OnIngress)' = At(OnIngress) /\ At(OnWait)' = At(OnWait)
          /\ At(OnStats)' = At(OnStats)
      BY <2>1 DEF At, OnStats, OnIngress, OnWait
    <2>5. SlotInv' /\ WaitInv' /\ ConnInv'
      BY <1>1, <2>3, <2>4 DEF SlotInv, WaitInv, ConnInv
    <2>6. QED
      BY <2>2, <2>5
  <1>3. CASE StepIndex
    <2>1. pc[Indexer] = "rest" /\ Lock(Indexer) /\ Go(Indexer, "locking")
          /\ Indexer \in Lockers
      BY <1>3, GatewayAssumption DEF StepIndex, Lockers
    <2>2. SeatInv'
      BY <2>1, LockSeats, SeatKeeps DEF Seated
    <2>3. QED
      BY <1>2, <2>1, <2>2
  <1>4. CASE IndexerGranted
    <2>1. pc[Indexer] = "locking" /\ Go(Indexer, "writing") /\ UNCHANGED lockVars
      BY <1>4 DEF IndexerGranted
    <2>2. SeatInv'
      BY <2>1, StaysSeated DEF Seated
    <2>3. QED
      BY <1>2, <2>1, <2>2
  <1>5. CASE WriteIndex \/ IndexerFails
    <2>1. Unlock(Indexer) /\ Go(Indexer, "rest")
      BY <1>5 DEF WriteIndex, IndexerFails
    <2>2. SeatInv'
      BY <2>1, UnlockSeats, SeatKeeps
    <2>3. QED
      BY <1>2, <2>1, <2>2
  <1>6. QED
    BY <1>3, <1>4, <1>5 DEF Index

-----------------------------------------------------------------------------
(* The invariant *)

LEMMA InitFacts == Init => IInv
  <1> SUFFICES ASSUME Init
               PROVE  IInv
    OBVIOUS
  <1>1. \A p \in Processes : pc[p] = IF p = Indexer THEN "rest" ELSE "new"
    BY DEF Init, Processes
  <1>2. \A r \in Requests : pc[r] = "new"
    BY <1>1, Bounds DEF Processes
  <1>3. StepInv
    <2>1. pc \in [Processes -> RequestSteps \cup {"rest", "writing"}]
      BY DEF Init, Processes, RequestSteps
    <2>2. QED
      BY <2>1 DEF Init, StepInv, Scheduler!Init, Scheduler!PoolTypeOK
  <1>4. Counts(0, {})
    BY FS_EmptySet DEF Counts
  <1>5. SlotInv
    <2>1. \A c : Owing(c) = {}
      BY <1>2 DEF Owing, Outside
    <2>2. \A c \in Classes : Capacity[c] \in Nat
      BY Bounds
    <2>3. QED
      BY <1>4, <2>1, <2>2 DEF Init, SlotInv
  <1>6. WaitInv
    <2>1. At(OnIngress) = {} /\ At(OnStats) = {} /\ At(OnWait) = {}
      BY <1>2 DEF At, OnStats, OnIngress, OnWait
    <2>2. QED
      BY <1>4, <2>1, Bounds DEF Init, WaitInv
  <1>7. ConnInv
    BY FS_EmptySet, Bounds DEF Init, ConnInv
  <1>8. SeatInv
    <2>1. <<>> \in Seq(Lockers) /\ DOMAIN <<>> = {}
      BY EmptySeq
    <2>2. Range(<<>>) = {} /\ IsInjective(<<>>)
      BY <2>1 DEF Range, IsInjective
    <2>3. QED
      BY <2>1, <2>2 DEF Init, LockInit, SeatInv, Inside
  <1>9. QED
    BY <1>3, <1>5, <1>6, <1>7, <1>8 DEF IInv

LEMMA NextKeeps == IInv /\ [Next]_vars => IInv'
  <1> SUFFICES ASSUME IInv, [Next]_vars
               PROVE  IInv'
    OBVIOUS
  <1>1. CASE UNCHANGED vars
    BY <1>1 DEF vars, lockVars, channels, IInv, StepInv, SlotInv, WaitInv, ConnInv, SeatInv,
                Scheduler!PoolTypeOK, Owing, At, Inside
  <1>2. ASSUME NEW r \in Requests, Step(r)
        PROVE  IInv'
    BY <1>2, AdmitKeeps, StopWaitingKeeps, AdmitStatsKeeps, GrantStatsKeeps, IdentifyKeeps, EnqueueKeeps,
       DispatchKeeps, BeginKeeps, ReadKeeps, EndKeeps DEF Step
  <1>3. QED
    BY <1>1, <1>2, ArriveKeeps, AdmitKeeps, EndKeeps, IndexerKeeps DEF Next

\* The inductive invariant says what the counters promise.
LEMMA Exact == IInv => AdmissionExact
  <1> SUFFICES ASSUME IInv
               PROVE  AdmissionExact
    OBVIOUS
  <1> USE DEF IInv
  <1>1. LockTypeOK
    <2>1. /\ Len(waiters) \in Nat /\ DOMAIN waiters = 1 .. Len(waiters)
          /\ waiters \in [1 .. Len(waiters) -> Lockers]
      BY LenProperties DEF SeatInv
    <2>2. \A i \in 1 .. Len(waiters) : waiters[i] \in Lockers \ holders
      BY <2>1 DEF SeatInv, Range
    <2>3. waiters \in [1 .. Len(waiters) -> Lockers \ holders]
      BY <2>1, <2>2
    <2>4. waiters \in Seq(Lockers \ holders)
      BY <2>1, <2>3 DEF Seq
    <2>5. QED
      BY <2>4 DEF LockTypeOK, SeatInv, Lockers
  <1>2. /\ ingressWaiters \in 0 .. Waiting /\ statsSlots \in 0 .. StatsWorkers
        /\ statsWaiters \in 0 .. StatsWaiting
    BY Counters, Bounds DEF WaitInv
  <1>3. TypeOK
    BY <1>1, <1>2 DEF TypeOK, StepInv, SlotInv, ConnInv, Processes
  <1>4. \A c \in Classes : slots[c] = Cardinality({r \in Requests \ released :
          Class(r) = c /\ pc[r] \notin {"new", "ingress", "done"}})
    BY DEF SlotInv, Counts, Owing, Outside
  <1>5. /\ At(OnIngress) = {r \in Requests : pc[r] \in {"ingress", "acquired"}}
        /\ At(OnStats) = {r \in Requests : HasStats(r)}
        /\ At(OnWait) = {r \in Requests : pc[r] \in {"stats", "granted"}}
    BY DEF At, OnStats, OnIngress, OnWait, HasStats
  <1>6. QED
    BY <1>3, <1>4, <1>5 DEF AdmissionExact, WaitInv, Counts

-----------------------------------------------------------------------------

\* Every token of the channels belongs to one request that is where it should
\* hold it: none is lost when a wait ends by its timer, none is given back
\* twice by the early and the deferred release (ingressOnce), and no channel
\* holds more than its capacity.
THEOREM AdmissionHolds == Spec => []AdmissionExact
  <1>1. Init => IInv
    BY InitFacts
  <1>2. IInv /\ [Next]_vars => IInv'
    BY NextKeeps
  <1>3. IInv => AdmissionExact
    BY Exact
  <1>4. QED
    BY <1>1, <1>2, <1>3, PTL DEF Spec
=============================================================================
