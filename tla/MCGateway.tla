----------------------------- MODULE MCGateway -----------------------------
(* Instances of Gateway small enough for TLC. *)
EXTENDS Gateway

CONSTANTS q1, q2, s1, o1, worker

MCReaders == {q1, q2}
MCWriters == {worker}
MCStatistics == {q1, q2, s1}
MCUploads == {q2, o1}
MCOthers == {s1, o1}
=============================================================================
