--------------------------- MODULE MCRemoteIndex ---------------------------
(* Instances of RemoteIndex small enough for TLC. *)
EXTENDS RemoteIndex

CONSTANTS q1, worker

MCDocs == 1..3
MCTwoDocs == 1..2
MCOneQuery == {q1}
MCWriters == {worker}
=============================================================================
