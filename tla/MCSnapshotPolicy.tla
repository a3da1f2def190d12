--------------------------- MODULE MCSnapshotPolicy ---------------------------
(***************************************************************************)
(* SnapshotPolicy for TLC: the archive is written at most MaxVersion times. *)
(***************************************************************************)
EXTENDS SnapshotPolicy
===============================================================================
