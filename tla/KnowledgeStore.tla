--------------------------- MODULE KnowledgeStore ---------------------------
(***************************************************************************)
(* One finding in each of several communities, as server/knowledge.go      *)
(* stores it: every change raises the sequence of the community and stamps *)
(* the document with it. Batches are committed one after the other under   *)
(* the lock of the community's row, and a receipt per batch key makes a    *)
(* repeated put return the first result. A key is refused when it is older *)
(* than a day; receipts are pruned when they are.                          *)
(***************************************************************************)
EXTENDS CopyBases, Sequences

CONSTANTS Batches,       \* the keys of this project's batches
          NoBatch,
          MaxChanges,    \* bound: changes of the finding in all communities
          OthersRename   \* bound: whether other projects rename it, too

ASSUME KnowledgeStoreAssumption ==
    NoBatch \notin Batches /\ MaxChanges \in Nat /\ OthersRename \in BOOLEAN

VARIABLES versions,   \* [Links -> Seq([text, key])]: what each sequence made of it
          receipts,   \* [Batches -> Copy]: the stored result, NoCopy without
          expired     \* batch keys that are more than a day old

storeVars == <<versions, receipts, expired>>

Version == [text : Texts \cup {NoText}, key : Batches \cup {NoBatch}]

StoreTypeOK ==
    /\ versions \in [Links -> Seq(Version)]
    /\ receipts \in [Batches -> Copy]
    /\ expired \in SUBSET Batches

StoreInit ==
    /\ versions = [c \in Links |-> <<>>]
    /\ receipts = [b \in Batches |-> NoCopy]
    /\ expired = {}

CopyAt(c, s) == [text |-> versions[c][s].text, seq |-> s]

\* The document's row: the last change, unless that removed it.
Current(c) ==
    LET s == Len(versions[c])
    IN IF s = 0 \/ versions[c][s].text = NoText THEN NoCopy ELSE CopyAt(c, s)

\* What an index that is at any earlier sequence may answer.
Observable(c) == {NoCopy} \cup {CopyAt(c, s) : s \in {n \in 1..Len(versions[c]) :
                                                      versions[c][n].text # NoText}}

Change(c, t, key) ==
    /\ Cardinality(UNION {{d} \X (1..Len(versions[d])) : d \in Links}) < MaxChanges
    /\ versions' = [versions EXCEPT ![c] = Append(@, [text |-> t, key |-> key])]

Answered(key) == receipts[key] # NoCopy

\* putKnowledge with a batch of one document. Paths are left open: the same text
\* is the same document as before, or that document under another path, which
\* is a change like any other.
PutKnowledge(c, key, t) ==
    \/ /\ key \in expired \/ Answered(key)
       /\ UNCHANGED storeVars
    \/ /\ key \notin expired /\ ~Answered(key)
       /\ \/ Current(c).text = t /\ UNCHANGED versions
          \/ Change(c, t, key)
       /\ receipts' = [receipts EXCEPT ![key] = [text |-> t, seq |-> Len(versions'[c])]]
       /\ UNCHANGED expired

\* The answer to it: NoCopy when the key is too old.
PutResult(key) == IF key \in expired THEN NoCopy ELSE receipts'[key]

\* Another project of the operator replaces the document or renames it.
OtherUpload(c, t) ==
    /\ Current(c).text # t \/ OthersRename
    /\ Change(c, t, NoBatch)
    /\ UNCHANGED <<receipts, expired>>

DeleteKnowledge(c) ==
    /\ Current(c) # NoCopy
    /\ Change(c, NoText, NoBatch)
    /\ UNCHANGED <<receipts, expired>>

Age(key) ==
    /\ receipts[key] # NoCopy /\ key \notin expired
    /\ expired' = expired \cup {key}
    /\ UNCHANGED <<versions, receipts>>

\* Mutant: the worker prunes every receipt.
PrunableAny(key) == receipts[key] # NoCopy

Prunable(key) == receipts[key] # NoCopy /\ key \in expired

\* RunWorker, once an hour.
PruneReceipts ==
    /\ \E key \in Batches : Prunable(key)
    /\ receipts' = [key \in Batches |-> IF Prunable(key) THEN NoCopy ELSE receipts[key]]
    /\ UNCHANGED <<versions, expired>>

StoreNext ==
    \/ \E c \in Links : DeleteKnowledge(c) \/ \E t \in Texts : OtherUpload(c, t)
    \/ PruneReceipts
=============================================================================
