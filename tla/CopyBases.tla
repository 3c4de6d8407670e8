----------------------------- MODULE CopyBases -----------------------------
(***************************************************************************)
(* How a project chooses between the copies of one finding, its own and    *)
(* those of the communities it is linked to (community/reconcile.go). A    *)
(* copy is a fingerprint, and for a remote copy the sequence of its        *)
(* document in that community. For each link the project keeps a base: the *)
(* last copy on which the two sides agreed. Nothing orders the copies of   *)
(* different communities.                                                  *)
(***************************************************************************)
EXTENDS Integers, FiniteSets

CONSTANTS Links,   \* the linked communities
          Texts,   \* fingerprints
          NoText

ASSUME CopyBasesAssumption == NoText \notin Texts /\ IsFiniteSet(Links)

\* A remote copy, a base, or the absence of either.
Copy == [text : Texts \cup {NoText}, seq : Nat]
NoCopy == [text |-> NoText, seq |-> 0]

\* The links a query has seen a copy of.
Seen(obs) == {c \in Links : obs[c].text # NoText}

\* All the texts of a group, with the local one when there is one.
GroupTexts(local, obs) == {obs[c].text : c \in Seen(obs)} \cup ({local} \ {NoText})

\* Mutant: an answer of an index that is behind counts like any other.
NeverBehind(remote, base) == FALSE

Behind(remote, base) == base.text # NoText /\ remote.seq < base.seq

\* copyChoice, the reason alone: the remote text wins for "remote_changed".
CopyChoice(local, remote, base) ==
    CASE local = remote.text -> "equal"
      [] local # remote.text /\ Behind(remote, base) -> "remote_index_behind"
      [] local # remote.text /\ base.text = NoText -> "local_preferred_no_baseline"
      [] local # remote.text /\ ~Behind(remote, base) /\ base.text = local -> "remote_changed"
      [] local # remote.text /\ ~Behind(remote, base) /\ base.text = remote.text -> "local_changed"
      [] OTHER -> "local_preferred_diverged"

Reasons(local, obs, bases) ==
    {CopyChoice(local, obs[c], bases[c]) : c \in {d \in Seen(obs) : obs[d].text # local}}

RemoteWinners(local, obs, bases) ==
    {obs[c].text : c \in {d \in Seen(obs) :
        CopyChoice(local, obs[d], bases[d]) = "remote_changed"}}

\* The one successor of the local text on which no link has been contrary.
Successors(local, obs, bases) ==
    {t \in RemoteWinners(local, obs, bases) :
        /\ RemoteWinners(local, obs, bases) = {t}
        /\ Reasons(local, obs, bases) \cap
             {"local_preferred_no_baseline", "local_preferred_diverged"} = {}
        /\ \A c \in Seen(obs) : bases[c].text # t}

\* resolveGroup: the texts that are shown, more than one only as variants.
Winners(local, obs, bases) ==
    LET all == GroupTexts(local, obs)
    IN IF local = NoText \/ Cardinality(all) <= 1 THEN all
       ELSE IF Successors(local, obs, bases) # {} THEN Successors(local, obs, bases)
       ELSE {local}

\* The links that agree when all observed copies do.
Agreed(local, obs) ==
    {c \in Seen(obs) : GroupTexts(local, obs) = {local}}

\* What reconcileSources hands to rememberCopies.
Settled(local, obs, bases) ==
    {c \in Agreed(local, obs) : bases[c].text # obs[c].text \/ bases[c].seq < obs[c].seq}

\* Mutant: the last answer is stored, however old.
LastWins(bases, c, copy) == [bases EXCEPT ![c] = copy]

\* storeCopyBases with one entry.
StoreCopyBases(bases, c, copy) ==
    IF bases[c].text # NoText /\ bases[c].seq >= copy.seq THEN bases
    ELSE [bases EXCEPT ![c] = copy]
=============================================================================
