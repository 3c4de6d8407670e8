-------------------------- MODULE MCProjectCopies --------------------------
(* Instances of ProjectCopies small enough for TLC. *)
EXTENDS ProjectCopies, TLC

CONSTANTS c1, c2, t1, t2, b1

MCLinks == {c1, c2}
MCTexts == {t1, t2}
MCBatches == {b1}
Symmetry == Permutations(MCLinks) \cup Permutations(MCTexts)
=============================================================================
