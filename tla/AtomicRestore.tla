---------------------------- MODULE AtomicRestore -----------------------------
(***************************************************************************)
(* What preparing a restore promises, with no staging directory, receipt,  *)
(* key, guard or order of synchronisations in sight: one wallet directory  *)
(* that goes from nothing to a whole wallet in one step, by a node that is *)
(* not using it, and from then on is taken back by a power loss only, to   *)
(* one of its earlier states, and to none once it was reported restored.   *)
(* VssRestore is shown to implement this specification.                    *)
(***************************************************************************)
EXTENDS Naturals

CONSTANTS
  Process,  \* processes with a node on the directory
  Local,    \* a wallet that no restore has made
  None      \* no wallet

VARIABLES
  wallet,    \* None, Local, or the version that was restored
  kept,      \* what a power loss may make of it
  using,     \* processes whose node opens the wallet, has it open or is shut down
  newest,    \* the newest version on the server; 0 for none
  promised   \* the versions reported as restored

vars == <<wallet, kept, using, newest, promised>>

Init ==
  /\ wallet \in {None, Local}
  /\ kept = {wallet}
  /\ using = {} /\ newest = 0 /\ promised = {}

Becomes(w) ==
  /\ wallet = None
  /\ wallet' = w
  /\ kept' = kept \cup {w}

Restore(p) ==
  /\ p \notin using
  /\ \E version \in 1 .. newest : Becomes(version)
  /\ UNCHANGED <<using, newest, promised>>

\* A node that opens the wallet makes one where there is none.
Create(p) ==
  /\ p \in using
  /\ Becomes(Local)
  /\ UNCHANGED <<using, newest, promised>>

Settle ==
  /\ kept' = {wallet}
  /\ UNCHANGED <<wallet, using, newest, promised>>

Promise ==
  /\ wallet \in 1 .. newest
  /\ kept' = {wallet}
  /\ promised' = promised \cup {wallet}
  /\ UNCHANGED <<wallet, using, newest>>

Use(p) ==
  /\ using' \in {using \cup {p}, using \ {p}}
  /\ UNCHANGED <<wallet, kept, newest, promised>>

Upload ==
  /\ newest' = newest + 1
  /\ UNCHANGED <<wallet, kept, using, promised>>

PowerLoss ==
  /\ wallet' \in kept /\ kept' = {wallet'}
  /\ using' = {}
  /\ UNCHANGED <<newest, promised>>

Next ==
  \/ \E p \in Process : Restore(p) \/ Create(p) \/ Use(p)
  \/ Settle \/ Promise \/ Upload \/ PowerLoss

Spec == Init /\ [][Next]_vars
===============================================================================
