----------------------------- MODULE MCRemoval -----------------------------
(* Instances of Removal small enough for TLC. *)
EXTENDS Removal

CONSTANTS q1, worker, deleter, cleaner

MCReaders == {q1}
MCWriters == {worker, deleter, cleaner}
=============================================================================
