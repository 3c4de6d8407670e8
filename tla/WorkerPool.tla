----------------------------- MODULE WorkerPool -----------------------------
(***************************************************************************)
(* What the search scheduler promises its callers, without saying how a    *)
(* call is chosen: a call is submitted once, it is granted a worker slot   *)
(* or refused and never both, at most Slots calls hold a slot, and a slot  *)
(* is given back by the call that holds it.                                *)
(***************************************************************************)
EXTENDS Integers, FiniteSets

CONSTANTS Calls,   \* the calls of searchScheduler.acquire
          Slots    \* SearchBudget.Workers

VARIABLE state     \* [Calls -> {"idle", "waiting", "running", "ended"}]

PoolTypeOK == state \in [Calls -> {"idle", "waiting", "running", "ended"}]

Holders == {w \in Calls : state[w] = "running"}

Init == state = [w \in Calls |-> "idle"]

Submit(w) ==
    /\ state[w] = "idle"
    /\ state' = [state EXCEPT ![w] = "waiting"]

Grant(w) ==
    /\ state[w] = "waiting"
    /\ Cardinality(Holders) < Slots
    /\ state' = [state EXCEPT ![w] = "running"]

\* Rejected, evicted, cancelled, expired or dropped; one step of the code may
\* refuse several calls (a community whose deletion is confirmed).
Refuse ==
    /\ PoolTypeOK'
    /\ \A w \in Calls : \/ state'[w] = state[w]
                        \/ /\ state[w] \in {"idle", "waiting"}
                           /\ state'[w] = "ended"

GiveBack(w) ==
    /\ state[w] = "running"
    /\ state' = [state EXCEPT ![w] = "ended"]

Next ==
    \/ \E w \in Calls : Submit(w) \/ Grant(w) \/ GiveBack(w)
    \/ Refuse

Spec == Init /\ [][Next]_state

=============================================================================
