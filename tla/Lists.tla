------------------------------- MODULE Lists -------------------------------
(***************************************************************************)
(* The lists of the server: container/list, of which the readers' FIFOs    *)
(* and the waiters of the index lock are made, and container/heap, whose   *)
(* members are kept here in the order of their `order' fields.             *)
(***************************************************************************)
EXTENDS Integers, Sequences, Functions

Has(s, e) == \E i \in DOMAIN s : s[i] = e      \* element # nil, heapIndex >= 0

Without(s, e) ==       \* list.Remove and heap.Remove: s less its element e
    IF Has(s, e)
    THEN LET i == CHOOSE i \in DOMAIN s : s[i] = e
         IN  SubSeq(s, 1, i - 1) \o SubSeq(s, i + 1, Len(s))
    ELSE s
=============================================================================
