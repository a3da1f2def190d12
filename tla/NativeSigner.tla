----------------------------- MODULE NativeSigner -----------------------------
(***************************************************************************)
(* The in-process signer object of the release adapter                     *)
(* (src/uniffi_api/native_signer.rs in the release patch): a terminal      *)
(* gate (AtomicBool), a reader/writer lock over the optional signer state, *)
(* and the Arc clones that keep the object alive.                          *)
(*                                                                         *)
(* A thread is a host thread inside one C-FFI call or a node thread inside *)
(* one transport call.  The lock is not a variable: a thread holds it for  *)
(* reading at "recheck" and "op", for writing at "exclusive" and           *)
(* "emptied".  A signer session is one object: it is constructed once,     *)
(* and a session in Persistent holds the exclusive lock of the one disk    *)
(* store while its state exists.                                           *)
(***************************************************************************)
EXTENDS Naturals

CONSTANTS
  Thread,      \* threads that construct, call and shut down signers
  Signer,      \* signer objects; each is constructed at most once
  Persistent,  \* the objects built by new_with_storage
  Holder,      \* owners of an Arc clone: the host handle, a node attachment
  NoSigner,    \* "no session"
  NoHolder     \* "through no Arc clone"

ASSUME SignerAssumption ==
  /\ Persistent \subseteq Signer
  /\ NoSigner \notin Signer
  /\ NoHolder \notin Holder

VARIABLES
  gate,      \* gate[s]: the shutting_down flag
  slot,      \* slot[s]: "unborn", or the Option under the lock: "live", "empty"
  poisoned,  \* poisoned[s]: the lock is poisoned
  arcs,      \* arcs[s]: the owners of an Arc clone of s
  store,     \* the session that holds the disk store's exclusive lock
  pc,        \* pc[t]: where thread t is
  cur,       \* cur[t]: the session of t's call
  via,       \* via[t]: the Arc clone t's call borrows
  revoked    \* revoked[s]: a shutdown of s has returned Ok (history)

thread == <<pc, cur, via>>
vars == <<gate, slot, poisoned, arcs, store, pc, cur, via, revoked>>

Place == {"idle", "boot", "gate", "wait", "recheck", "op",
          "drain", "exclusive", "emptied"}

TypeOK ==
  /\ gate \in [Signer -> BOOLEAN]
  /\ slot \in [Signer -> {"unborn", "live", "empty"}]
  /\ poisoned \in [Signer -> BOOLEAN]
  /\ arcs \in [Signer -> SUBSET Holder]
  /\ store \in {s \in Persistent : slot[s] = "live"} \cup {NoSigner}
  /\ pc \in [Thread -> Place]
  /\ cur \in [Thread -> Signer \cup {NoSigner}]
  /\ via \in [Thread -> Holder \cup {NoHolder}]
  /\ revoked \in [Signer -> BOOLEAN]

Init ==
  /\ gate = [s \in Signer |-> FALSE]
  /\ slot = [s \in Signer |-> "unborn"]
  /\ poisoned = [s \in Signer |-> FALSE]
  /\ arcs = [s \in Signer |-> {}]
  /\ store = NoSigner
  /\ pc = [t \in Thread |-> "idle"]
  /\ cur = [t \in Thread |-> NoSigner]
  /\ via = [t \in Thread |-> NoHolder]
  /\ revoked = [s \in Signer |-> FALSE]

(***************************************************************************)
(* The lock and the calling sequence.                                      *)
(***************************************************************************)
Reading(t, s) == cur[t] = s /\ pc[t] \in {"recheck", "op"}
Writing(t, s) == cur[t] = s /\ pc[t] \in {"exclusive", "emptied"}

Enter(t, s, h, place) ==
  /\ pc[t] = "idle"
  /\ pc' = [pc EXCEPT ![t] = place]
  /\ cur' = [cur EXCEPT ![t] = s]
  /\ via' = [via EXCEPT ![t] = h]

Goto(t, place) ==
  /\ pc' = [pc EXCEPT ![t] = place]
  /\ UNCHANGED <<cur, via>>

Return(t) ==
  /\ pc' = [pc EXCEPT ![t] = "idle"]
  /\ cur' = [cur EXCEPT ![t] = NoSigner]
  /\ via' = [via EXCEPT ![t] = NoHolder]

\* Mutation: the destroyed state stays registered as the store's owner.
DropState_KeepsLock(s) ==
  /\ slot' = [slot EXCEPT ![s] = "empty"]
  /\ UNCHANGED store

\* Dropping the state destroys backend and transport and unlocks the store.
DropState(s) ==
  /\ slot' = [slot EXCEPT ![s] = "empty"]
  /\ store' = IF store = s THEN NoSigner ELSE store

(***************************************************************************)
(* new and new_with_storage: the store is locked first (a second opener    *)
(* fails while it is held), then the object bootstraps itself before it is *)
(* handed out; until then no other thread can reach it.  A failed key or   *)
(* bootstrap check drops the only Arc and with it the state.               *)
(***************************************************************************)
\* Mutation: the store is opened without its exclusive lock.
OpenStore_NoLock(t, s, h) ==
  /\ slot[s] = "unborn"
  /\ Enter(t, s, h, "boot")
  /\ slot' = [slot EXCEPT ![s] = "live"]
  /\ store' = IF s \in Persistent THEN s ELSE store
  /\ UNCHANGED <<gate, poisoned, arcs, revoked>>

OpenStore(t, s, h) ==
  /\ slot[s] = "unborn"
  /\ s \in Persistent => store = NoSigner
  /\ Enter(t, s, h, "boot")
  /\ slot' = [slot EXCEPT ![s] = "live"]
  /\ store' = IF s \in Persistent THEN s ELSE store
  /\ UNCHANGED <<gate, poisoned, arcs, revoked>>

BootOk(t) ==
  /\ pc[t] = "boot"
  /\ arcs' = [arcs EXCEPT ![cur[t]] = {via[t]}]
  /\ Return(t)
  /\ UNCHANGED <<gate, slot, poisoned, store, revoked>>

BootFail(t) ==
  /\ pc[t] = "boot"
  /\ DropState(cur[t])
  /\ Return(t)
  /\ UNCHANGED <<gate, poisoned, arcs, revoked>>

(***************************************************************************)
(* Arc clones.  A call borrows its caller's clone, which stays until the   *)
(* call returns (Rust's borrow, and the C-FFI contract for the host        *)
(* handle); the last clone to go drops the state with it.                  *)
(***************************************************************************)
Clone(s, h) ==
  /\ arcs[s] # {}
  /\ h \notin arcs[s]
  /\ arcs' = [arcs EXCEPT ![s] = @ \cup {h}]
  /\ UNCHANGED <<gate, slot, poisoned, store, thread, revoked>>

\* Mutation: freeing any handle drops the state, as if it were a shutdown.
Release_Revokes(s, h) ==
  /\ h \in arcs[s]
  /\ \A t \in Thread : cur[t] # s
  /\ arcs' = [arcs EXCEPT ![s] = @ \ {h}]
  /\ DropState(s)
  /\ UNCHANGED <<gate, poisoned, thread, revoked>>

Release(s, h) ==
  /\ h \in arcs[s]
  /\ \A t \in Thread : ~(cur[t] = s /\ via[t] = h)
  /\ arcs' = [arcs EXCEPT ![s] = @ \ {h}]
  /\ IF arcs[s] = {h} THEN DropState(s) ELSE UNCHANGED <<slot, store>>
  /\ UNCHANGED <<gate, poisoned, thread, revoked>>

(***************************************************************************)
(* with_state: load the gate, take the read lock, load the gate again, and *)
(* run the operation under the guard.                                      *)
(***************************************************************************)
Call(t, s, h) ==
  /\ h \in arcs[s]
  /\ Enter(t, s, h, "gate")
  /\ UNCHANGED <<gate, slot, poisoned, arcs, store, revoked>>

\* Mutation: no check of the gate before queueing for the lock.
LoadGate_Absent(t) ==
  /\ pc[t] = "gate"
  /\ Goto(t, "wait")
  /\ UNCHANGED <<gate, slot, poisoned, arcs, store, revoked>>

LoadGate(t) ==
  /\ pc[t] = "gate"
  /\ IF gate[cur[t]] THEN Return(t) ELSE Goto(t, "wait")
  /\ UNCHANGED <<gate, slot, poisoned, arcs, store, revoked>>

AcquireRead(t) ==
  /\ pc[t] = "wait"
  /\ \A u \in Thread : ~Writing(u, cur[t])
  /\ IF poisoned[cur[t]] THEN Return(t) ELSE Goto(t, "recheck")
  /\ UNCHANGED <<gate, slot, poisoned, arcs, store, revoked>>

\* Mutation: no second check of the gate under the lock.
Recheck_NoGate(t) ==
  /\ pc[t] = "recheck"
  /\ IF slot[cur[t]] = "empty" THEN Return(t) ELSE Goto(t, "op")
  /\ UNCHANGED <<gate, slot, poisoned, arcs, store, revoked>>

Recheck(t) ==
  /\ pc[t] = "recheck"
  /\ IF gate[cur[t]] \/ slot[cur[t]] = "empty" THEN Return(t) ELSE Goto(t, "op")
  /\ UNCHANGED <<gate, slot, poisoned, arcs, store, revoked>>

\* The operation ends, with an answer, an error or a caught panic: a read
\* guard dropped by a panic does not poison the lock.
FinishOp(t) ==
  /\ pc[t] = "op"
  /\ Return(t)
  /\ UNCHANGED <<gate, slot, poisoned, arcs, store, revoked>>

(***************************************************************************)
(* shutdown: close the gate, take the write lock whether or not it is      *)
(* poisoned, drop the state under it, clear the poison, return.  A panic   *)
(* of the state's destructor unwinds after take() emptied the slot and     *)
(* leaves the lock poisoned; ffi_call! turns it into an error.             *)
(***************************************************************************)
\* Mutation: a shutdown that finds the gate closed reports success at once.
BeginShutdown_EarlyOk(t, s, h) ==
  /\ h \in arcs[s]
  /\ pc[t] = "idle"
  /\ IF gate[s]
       THEN /\ revoked' = [revoked EXCEPT ![s] = TRUE]
            /\ UNCHANGED <<gate, thread>>
       ELSE /\ Enter(t, s, h, "drain")
            /\ gate' = [gate EXCEPT ![s] = TRUE]
            /\ UNCHANGED revoked
  /\ UNCHANGED <<slot, poisoned, arcs, store>>

BeginShutdown(t, s, h) ==
  /\ h \in arcs[s]
  /\ Enter(t, s, h, "drain")
  /\ gate' = [gate EXCEPT ![s] = TRUE]
  /\ UNCHANGED <<slot, poisoned, arcs, store, revoked>>

\* Mutation: the state is destroyed without waiting for running operations.
AcquireWrite_NoDrain(t) ==
  /\ pc[t] = "drain"
  /\ \A u \in Thread : ~Writing(u, cur[t])
  /\ Goto(t, "exclusive")
  /\ UNCHANGED <<gate, slot, poisoned, arcs, store, revoked>>

AcquireWrite(t) ==
  /\ pc[t] = "drain"
  /\ \A u \in Thread : ~Reading(u, cur[t]) /\ ~Writing(u, cur[t])
  /\ Goto(t, "exclusive")
  /\ UNCHANGED <<gate, slot, poisoned, arcs, store, revoked>>

TakeState(t) ==
  /\ pc[t] = "exclusive"
  /\ DropState(cur[t])
  /\ Goto(t, "emptied")
  /\ UNCHANGED <<gate, poisoned, arcs, revoked>>

\* Mutation: the destructor runs in place, before the slot is emptied.
TakeStatePanics_InPlace(t) ==
  /\ pc[t] = "exclusive"
  /\ slot[cur[t]] = "live"
  /\ poisoned' = [poisoned EXCEPT ![cur[t]] = TRUE]
  /\ Return(t)
  /\ UNCHANGED <<gate, slot, arcs, store, revoked>>

TakeStatePanics(t) ==
  /\ pc[t] = "exclusive"
  /\ slot[cur[t]] = "live"
  /\ DropState(cur[t])
  /\ poisoned' = [poisoned EXCEPT ![cur[t]] = TRUE]
  /\ Return(t)
  /\ UNCHANGED <<gate, arcs, revoked>>

FinishShutdown(t) ==
  /\ pc[t] = "emptied"
  /\ poisoned' = [poisoned EXCEPT ![cur[t]] = FALSE]
  /\ revoked' = [revoked EXCEPT ![cur[t]] = TRUE]
  /\ Return(t)
  /\ UNCHANGED <<gate, slot, arcs, store>>

-------------------------------------------------------------------------------
Shutdown(t) ==
  \/ AcquireWrite(t)
  \/ TakeState(t)
  \/ TakeStatePanics(t)
  \/ FinishShutdown(t)

WithState(t) ==
  \/ LoadGate(t)
  \/ AcquireRead(t)
  \/ Recheck(t)
  \/ FinishOp(t)

Next ==
  \/ \E t \in Thread, s \in Signer, h \in Holder :
       OpenStore(t, s, h) \/ Call(t, s, h) \/ BeginShutdown(t, s, h)
  \/ \E s \in Signer, h \in Holder : Clone(s, h) \/ Release(s, h)
  \/ \E t \in Thread : BootOk(t) \/ BootFail(t)
  \/ \E t \in Thread : WithState(t) \/ Shutdown(t)

\* A thread inside a call keeps running, and an operation comes to an end; no
\* one has to make a call, clone a handle or release one.
Fairness ==
  \A t \in Thread : WF_vars(WithState(t)) /\ WF_vars(Shutdown(t))

Spec == Init /\ [][Next]_vars
FairSpec == Spec /\ Fairness

-------------------------------------------------------------------------------
(***************************************************************************)
(* Properties                                                              *)
(***************************************************************************)

\* A signer operation only ever runs on state that exists, and on the store
\* it was opened with: no step of shutdown, of a handle release or of another
\* session's construction can pull either away from under with_state's closure.
OperationOwnsState ==
  \A t \in Thread : pc[t] = "op" =>
    /\ slot[cur[t]] = "live"
    /\ cur[t] \in Persistent => store = cur[t]

\* When a shutdown of a session has returned, its state is gone, the store is
\* not held by it, and no operation runs in it through any remaining clone.
RevokedIsQuiet ==
  \A s \in Signer : revoked[s] =>
    /\ slot[s] = "empty"
    /\ store # s
    /\ \A t \in Thread : ~(cur[t] = s /\ pc[t] = "op")

\* Freeing a handle is not a revocation: as long as a clone is held and nobody
\* asked for a shutdown, the state lives.
HeldSignerStaysOpen ==
  \A s \in Signer : arcs[s] # {} /\ ~gate[s] => slot[s] = "live"

\* No operation starts once the gate of its session is closed, not even one
\* whose caller passed the first check and queued for the lock before.
NoStartBehindGate ==
  [][\A t \in Thread : pc[t] # "op" /\ pc'[t] = "op" => ~gate[cur[t]]]_vars

\* A shutdown takes effect: once the gate is closed the state is destroyed,
\* however many callers keep arriving.
ShutdownTakesEffect ==
  \A s \in Signer : gate[s] ~> slot[s] = "empty"

(***************************************************************************)
(* The abstract session this object implements.                            *)
(***************************************************************************)
sessionStatus ==
  [s \in Signer |-> IF slot[s] = "live" THEN "open"
                    ELSE IF slot[s] = "empty" THEN "closed" ELSE "unborn"]
sessionRunning ==
  [t \in Thread |-> IF pc[t] = "op" THEN cur[t] ELSE NoSigner]

Session == INSTANCE RevocableSession
             WITH status <- sessionStatus, running <- sessionRunning

\* Every behaviour of the signer is one of the abstract revocable session.
SessionSpec == Session!Spec
===============================================================================
