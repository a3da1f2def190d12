--------------------------- MODULE RevocableSession ---------------------------
(***************************************************************************)
(* What a native signer promises its users, with no lock, flag or handle   *)
(* in sight: signer sessions are opened over one persistent store, calls   *)
(* run inside an open session, and a session closes at a moment when no    *)
(* call runs in it.  A closed session never runs a call again, and the     *)
(* store passes to another session only through a close.                   *)
(* NativeSigner is shown to implement this specification.                  *)
(***************************************************************************)
EXTENDS Naturals

CONSTANTS
  Thread,      \* threads that may run calls
  Signer,      \* signer sessions, each opened at most once
  Persistent,  \* the sessions that open the shared persistent store
  NoSigner     \* "no session"

VARIABLES
  status,      \* status[s]: "unborn", "open" or "closed"
  running      \* running[t]: the session a call of t runs in, or NoSigner

vars == <<status, running>>

Init ==
  /\ status = [s \in Signer |-> "unborn"]
  /\ running = [t \in Thread |-> NoSigner]

Open(s) ==
  /\ status[s] = "unborn"
  /\ s \in Persistent => \A r \in Persistent : status[r] # "open"
  /\ status' = [status EXCEPT ![s] = "open"]
  /\ UNCHANGED running

Begin(t, s) ==
  /\ running[t] = NoSigner
  /\ status[s] = "open"
  /\ running' = [running EXCEPT ![t] = s]
  /\ UNCHANGED status

End(t) ==
  /\ running[t] # NoSigner
  /\ running' = [running EXCEPT ![t] = NoSigner]
  /\ UNCHANGED status

Close(s) ==
  /\ status[s] = "open"
  /\ \A t \in Thread : running[t] # s
  /\ status' = [status EXCEPT ![s] = "closed"]
  /\ UNCHANGED running

Next ==
  \/ \E s \in Signer : Open(s) \/ Close(s)
  \/ \E t \in Thread : End(t) \/ \E s \in Signer : Begin(t, s)

Spec == Init /\ [][Next]_vars
===============================================================================
