------------------------------ MODULE Library ------------------------------
(***************************************************************************)
(* The current knowledge of one community in PostgreSQL, as the index      *)
(* worker and the queries see it: the rows of community.documents and the  *)
(* two counters of the community's row. A committed upload raises          *)
(* `sequence' once and stamps it on every document it changed, so a pair   *)
(* of a document and its generation identifies a text. A deletion raises   *)
(* `reset_sequence' too: an index older than that may hold deleted text.   *)
(***************************************************************************)
EXTENDS Integers, FiniteSets

CONSTANTS Docs,         \* document UUIDs, ordered as uuid orders them
          MaxSequence   \* bound: committed changes of the library

ASSUME LibraryAssumption ==
    /\ Docs \subseteq Nat \ {0}
    /\ IsFiniteSet(Docs)
    /\ MaxSequence \in Nat

VARIABLES docs,       \* [Docs -> Nat]: documents.generation, 0 without a row
          sequence,   \* libraries.sequence
          reset       \* libraries.reset_sequence

libraryVars == <<docs, sequence, reset>>

LibraryTypeOK == /\ docs \in [Docs -> 0..sequence]
                 /\ sequence \in Nat
                 /\ reset \in 0..sequence

LibraryInit == /\ docs = [d \in Docs |-> 0]
               /\ sequence = 0
               /\ reset = 0

Present == {d \in Docs : docs[d] # 0}

\* A batch that changes the documents of S, new ones or new text for old ones.
\* Unchanged documents of a batch and replayed batches leave everything alone.
PutKnowledge(S) ==
    /\ S # {} /\ sequence < MaxSequence
    /\ docs' = [d \in Docs |-> IF d \in S THEN sequence + 1 ELSE docs[d]]
    /\ sequence' = sequence + 1
    /\ UNCHANGED reset

\* Only IDs that have a row count; with none of them the counters stay.
DeleteKnowledge(S) ==
    /\ S # {} /\ S \subseteq Present /\ sequence < MaxSequence
    /\ docs' = [d \in Docs |-> IF d \in S THEN 0 ELSE docs[d]]
    /\ sequence' = sequence + 1
    /\ reset' = sequence + 1

LibraryNext == \E S \in SUBSET Docs : PutKnowledge(S) \/ DeleteKnowledge(S)
=============================================================================
