--------------------------- MODULE MCProjectKeys ---------------------------
(* Instances of ProjectKeys small enough for TLC. *)
EXTENDS ProjectKeys, TLC

CONSTANTS p1, k1, k2, k3, i1

MCProjects == {p1}
MCOperators == {p1}
MCKeys == {k1, k2, k3}
MCInvitations == {i1}
Symmetry == Permutations(MCKeys)
=============================================================================
