--------------------------- MODULE MCNodeSession ---------------------------
(* Small instances of NodeSession for TLC. *)
EXTENDS NodeSession, TLC

Alike == Permutations(Callers)
=============================================================================
