---------------------------- MODULE MCScheduler ----------------------------
(* Instances of Scheduler small enough for TLC. *)
EXTENDS Scheduler, TLC

CONSTANTS r1, r2, r3, r4, r5, a, b, x, y, z

MCCommunities == {a, b}
MCReaders == {x, y, z}

\* The races: r4 takes two units of queue memory.
MCRequests == {r1, r2, r3, r4}
MCOwners == {<<a, x>>, <<a, y>>, <<b, z>>}
MCBytes == [w \in MCRequests |-> IF w = r4 THEN 2 ELSE 1]

\* The liveness run, which cannot use the symmetry: r5 is larger than the queue.
MCFewRequests == {r1, r2, r4, r5}
MCTwoOwners == {<<a, x>>, <<b, z>>}
MCFewBytes == [w \in MCFewRequests |-> IF w = r5 THEN 4 ELSE IF w = r4 THEN 2 ELSE 1]

\* r1, r2 and r3 have the same size and the same fate in the races.
Symmetry == Permutations({r1, r2, r3}) \cup Permutations({x, y})
=============================================================================
