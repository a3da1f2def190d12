---------------------------- MODULE MCVssRestore ------------------------------
(* VssRestore for TLC: two processes on one storage directory.                 *)
EXTENDS VssRestore, TLC

Alike == Permutations(Process) \cup Permutations(Key)
===============================================================================
