------------------------------ MODULE MCArchive ------------------------------
(* Instances of ArchiveDownload small enough for TLC. *)
EXTENDS ArchiveDownload

CONSTANTS u1

MCTwoDocs == 1..2
MCUploads == {u1}
=============================================================================
