-------------------------- MODULE NativeSignerProofs --------------------------
(***************************************************************************)
(* Theorems about NativeSigner, for every number of threads, sessions and  *)
(* Arc holders.  The safety properties are not inductive by themselves:    *)
(* that a running operation owns its state needs the lock's exclusion, the *)
(* borrow of the caller's Arc clone and the ownership of the store, which  *)
(* IInv adds.                                                              *)
(***************************************************************************)
EXTENDS NativeSigner, TLAPS

\* A thread in a call has a session and a clone it borrows; the constructing
\* thread is alone with its object.
CallOK ==
  \A t \in Thread :
    /\ pc[t] = "idle" => cur[t] = NoSigner /\ via[t] = NoHolder
    /\ pc[t] # "idle" => cur[t] \in Signer /\ via[t] \in Holder
    /\ pc[t] \notin {"idle", "boot"} => via[t] \in arcs[cur[t]]
    /\ pc[t] = "boot" =>
         /\ slot[cur[t]] = "live"
         /\ arcs[cur[t]] = {}
         /\ \A u \in Thread : u # t => cur[u] # cur[t]

\* Writers exclude readers and writers, and work behind a closed gate.
LockOK ==
  /\ \A t, u \in Thread, s \in Signer :
       t # u /\ Writing(t, s) => ~Reading(u, s) /\ ~Writing(u, s)
  /\ \A t \in Thread : pc[t] \in {"drain", "exclusive", "emptied"} => gate[cur[t]]
  /\ \A t \in Thread : pc[t] = "op" => slot[cur[t]] = "live"
  /\ \A t \in Thread : pc[t] = "emptied" => slot[cur[t]] = "empty"

\* What the state of a session says about everything else.
SlotOK ==
  \A s \in Signer :
    /\ s \in Persistent => (slot[s] = "live" <=> store = s)
    /\ slot[s] = "unborn" => arcs[s] = {} /\ ~gate[s] /\ \A t \in Thread : cur[t] # s
    /\ revoked[s] \/ poisoned[s] => slot[s] = "empty"
    /\ arcs[s] # {} /\ ~gate[s] => slot[s] = "live"

IInv == TypeOK /\ CallOK /\ LockOK /\ SlotOK

\* A program that has built no signer yet satisfies the inductive invariant.
LEMMA InitIInv == Init => IInv
  BY SignerAssumption
  DEF Init, IInv, TypeOK, CallOK, LockOK, SlotOK, Place, Reading, Writing

\* Every step of every thread and every handle operation preserves it: one
\* step of the proof per action.
LEMMA NextIInv == IInv /\ [Next]_vars => IInv'
<1> SUFFICES ASSUME IInv, [Next]_vars PROVE IInv'
  OBVIOUS
<1> USE SignerAssumption DEF IInv, TypeOK, Place, CallOK, LockOK, SlotOK,
        Reading, Writing, Enter, Goto, Return, DropState, thread
<1>1. ASSUME NEW t \in Thread, NEW s \in Signer, NEW h \in Holder, OpenStore(t, s, h)
      PROVE IInv'
  BY <1>1 DEF OpenStore
<1>2. ASSUME NEW t \in Thread, NEW s \in Signer, NEW h \in Holder, Call(t, s, h)
      PROVE IInv'
  BY <1>2 DEF Call
<1>3. ASSUME NEW t \in Thread, NEW s \in Signer, NEW h \in Holder, BeginShutdown(t, s, h)
      PROVE IInv'
  BY <1>3 DEF BeginShutdown
<1>4. ASSUME NEW s \in Signer, NEW h \in Holder, Clone(s, h)
      PROVE IInv'
  BY <1>4 DEF Clone
<1>5. ASSUME NEW s \in Signer, NEW h \in Holder, Release(s, h)
      PROVE IInv'
  BY <1>5 DEF Release
<1>6. ASSUME NEW t \in Thread, BootOk(t)
      PROVE IInv'
  BY <1>6 DEF BootOk
<1>7. ASSUME NEW t \in Thread, BootFail(t)
      PROVE IInv'
  BY <1>7 DEF BootFail
<1>8. ASSUME NEW t \in Thread, LoadGate(t)
      PROVE IInv'
  BY <1>8 DEF LoadGate
<1>9. ASSUME NEW t \in Thread, AcquireRead(t)
      PROVE IInv'
  BY <1>9 DEF AcquireRead
<1>10. ASSUME NEW t \in Thread, Recheck(t)
      PROVE IInv'
  BY <1>10 DEF Recheck
<1>11. ASSUME NEW t \in Thread, FinishOp(t)
      PROVE IInv'
  BY <1>11 DEF FinishOp
<1>12. ASSUME NEW t \in Thread, AcquireWrite(t)
      PROVE IInv'
  BY <1>12 DEF AcquireWrite
<1>13. ASSUME NEW t \in Thread, TakeState(t)
      PROVE IInv'
  BY <1>13 DEF TakeState
<1>14. ASSUME NEW t \in Thread, TakeStatePanics(t)
      PROVE IInv'
  BY <1>14 DEF TakeStatePanics
<1>15. ASSUME NEW t \in Thread, FinishShutdown(t)
      PROVE IInv'
  BY <1>15 DEF FinishShutdown
<1>16. CASE UNCHANGED vars
  BY <1>16 DEF vars
<1>17. QED
  BY <1>1, <1>2, <1>3, <1>4, <1>5, <1>6, <1>7, <1>8, <1>9, <1>10, <1>11,
     <1>12, <1>13, <1>14, <1>15, <1>16
  DEF Next, WithState, Shutdown

\* Every variable keeps its type, in every behaviour.
THEOREM TypeCorrect == Spec => []TypeOK
<1>1. Init => IInv
  BY InitIInv
<1>2. IInv /\ [Next]_vars => IInv'
  BY NextIInv
<1>3. IInv => TypeOK
  BY DEF IInv
<1>4. QED
  BY <1>1, <1>2, <1>3, PTL DEF Spec

\* So it holds in every state of every behaviour.
LEMMA SpecIInv == Spec => []IInv
  BY InitIInv, NextIInv, PTL DEF Spec

\* A running signer operation owns live state and the store it was opened
\* with: the read guard, the borrowed clone and the store's lock together
\* keep every step that destroys state away from it.
THEOREM OperationsOwnTheirState == Spec => []OperationOwnsState
<1>1. IInv => OperationOwnsState
  <2> SUFFICES ASSUME IInv, NEW t \in Thread, pc[t] = "op"
               PROVE  /\ slot[cur[t]] = "live"
                      /\ cur[t] \in Persistent => store = cur[t]
    BY DEF OperationOwnsState
  <2>1. cur[t] \in Signer /\ slot[cur[t]] = "live"
    BY DEF IInv, CallOK, LockOK
  <2>2. QED
    BY <2>1 DEF IInv, SlotOK
<1>2. QED
  BY <1>1, SpecIInv, PTL

\* After any shutdown of a session returned Ok, its state is destroyed, the
\* store is free of it and no operation runs in it.
THEOREM RevocationIsComplete == Spec => []RevokedIsQuiet
<1>1. IInv => RevokedIsQuiet
  <2> SUFFICES ASSUME IInv, NEW s \in Signer, revoked[s]
               PROVE  /\ slot[s] = "empty"
                      /\ store # s
                      /\ \A t \in Thread : ~(cur[t] = s /\ pc[t] = "op")
    BY DEF RevokedIsQuiet
  <2>1. slot[s] = "empty"
    BY DEF IInv, SlotOK
  <2>2. store # s
    BY <2>1, SignerAssumption DEF IInv, TypeOK, SlotOK
  <2>3. \A t \in Thread : ~(cur[t] = s /\ pc[t] = "op")
    BY <2>1 DEF IInv, LockOK
  <2>4. QED
    BY <2>1, <2>2, <2>3
<1>2. QED
  BY <1>1, SpecIInv, PTL

\* Freeing handles never revokes a signer another owner still holds.
THEOREM HeldSignersStayOpen == Spec => []HeldSignerStaysOpen
<1>1. IInv => HeldSignerStaysOpen
  BY DEF IInv, SlotOK, HeldSignerStaysOpen
<1>2. QED
  BY <1>1, SpecIInv, PTL

\* No operation starts behind a closed gate: Recheck is the only step that
\* starts one, and it reads the gate under the lock.
THEOREM GateIsTerminal == Spec => NoStartBehindGate
<1>1. ASSUME IInv, [Next]_vars, NEW t \in Thread, pc[t] # "op", pc'[t] = "op"
      PROVE ~gate[cur[t]]
  <2> USE DEF IInv, TypeOK, CallOK, Enter, Goto, Return, thread
  <2>1. ASSUME NEW u \in Thread, NEW s \in Signer, NEW h \in Holder,
               OpenStore(u, s, h) \/ Call(u, s, h) \/ BeginShutdown(u, s, h)
        PROVE FALSE
    BY <1>1, <2>1 DEF OpenStore, Call, BeginShutdown
  <2>2. ASSUME NEW s \in Signer, NEW h \in Holder, Clone(s, h) \/ Release(s, h)
        PROVE FALSE
    BY <1>1, <2>2 DEF Clone, Release
  <2>3. ASSUME NEW u \in Thread, BootOk(u) \/ BootFail(u) \/ Shutdown(u)
        PROVE FALSE
    BY <1>1, <2>3 DEF BootOk, BootFail, Shutdown, AcquireWrite, TakeState,
                      TakeStatePanics, FinishShutdown
  <2>4. ASSUME NEW u \in Thread, WithState(u)
        PROVE ~gate[cur[t]]
    BY <1>1, <2>4 DEF WithState, LoadGate, AcquireRead, Recheck, FinishOp
  <2>5. QED
    BY <1>1, <2>1, <2>2, <2>3, <2>4 DEF Next, vars
<1>2. IInv /\ [Next]_vars =>
        [\A t \in Thread : pc[t] # "op" /\ pc'[t] = "op" => ~gate[cur[t]]]_vars
  BY <1>1
<1>3. QED
  BY <1>2, SpecIInv, PTL DEF Spec, NoStartBehindGate

\* How a change of one slot shows in the abstract session.
LEMMA StatusStep ==
  ASSUME TypeOK, NEW s \in Signer, NEW v \in {"live", "empty"},
         slot' = [slot EXCEPT ![s] = v]
  PROVE  sessionStatus' = [sessionStatus EXCEPT ![s] = IF v = "live" THEN "open" ELSE "closed"]
  BY DEF TypeOK, sessionStatus

\* How a change of one thread's place shows in the abstract session.
LEMMA RunningStep ==
  ASSUME TypeOK, NEW t \in Thread, NEW p, NEW s,
         pc' = [pc EXCEPT ![t] = p],
         cur' = [cur EXCEPT ![t] = s]
  PROVE  sessionRunning' =
           [sessionRunning EXCEPT ![t] = IF p = "op" THEN s ELSE NoSigner]
  BY DEF TypeOK, sessionRunning

\* A step that neither starts nor ends an operation leaves the calls alone.
LEMMA RunningStutter ==
  ASSUME TypeOK, NEW t \in Thread, NEW p, NEW s,
         pc[t] # "op", p # "op",
         pc' = [pc EXCEPT ![t] = p],
         cur' = [cur EXCEPT ![t] = s]
  PROVE  sessionRunning' = sessionRunning
  BY DEF TypeOK, sessionRunning

\* The signer object implements the abstract revocable session: the state under
\* the lock is the session, an operation under the read guard is a running call.
THEOREM ImplementsSession == Spec => SessionSpec
<1>1. Init => Session!Init
  BY SignerAssumption DEF Init, Session!Init, sessionStatus, sessionRunning
<1>2. ASSUME IInv, [Next]_vars
      PROVE  [Session!Next]_(Session!vars)
  <2> DEFINE Stutter == sessionStatus' = sessionStatus /\ sessionRunning' = sessionRunning
             Frozen == slot' = slot => sessionStatus' = sessionStatus
             Quiet == UNCHANGED thread => sessionRunning' = sessionRunning
  <2>0. TypeOK /\ Frozen /\ Quiet
    BY <1>2 DEF IInv, sessionStatus, sessionRunning, thread
  <2> USE DEF Enter, Goto, Return, DropState
  <2> HIDE DEF Stutter
  <2>a. ASSUME NEW t \in Thread, pc[t] # "idle"
        PROVE cur[t] \in Signer
    BY <1>2, <2>a DEF IInv, CallOK
  <2>1. ASSUME NEW t \in Thread, NEW s \in Signer, NEW h \in Holder, OpenStore(t, s, h)
        PROVE  Session!Open(s)
    <3>1. sessionStatus' = [sessionStatus EXCEPT ![s] = "open"]
      BY <2>0, <2>1, StatusStep DEF OpenStore
    <3>2. sessionRunning' = sessionRunning
      BY <2>0, <2>1, RunningStutter DEF OpenStore
    <3>3. sessionStatus[s] = "unborn"
      BY <2>1 DEF OpenStore, sessionStatus
    <3>4. s \in Persistent => \A r \in Persistent : sessionStatus[r] # "open"
      BY <1>2, <2>1, SignerAssumption DEF OpenStore, sessionStatus, IInv, SlotOK, TypeOK
    <3>5. QED
      BY <3>1, <3>2, <3>3, <3>4 DEF Session!Open
  <2>2. ASSUME NEW s \in Signer, slot[s] = "live",
               \A u \in Thread : ~(cur[u] = s /\ pc[u] = "op"),
               slot' = [slot EXCEPT ![s] = "empty"],
               sessionRunning' = sessionRunning
        PROVE  Session!Close(s)
    <3>1. sessionStatus' = [sessionStatus EXCEPT ![s] = "closed"]
      BY <2>0, <2>2, StatusStep
    <3>2. sessionStatus[s] = "open" /\ \A u \in Thread : sessionRunning[u] # s
      BY <2>2, SignerAssumption DEF sessionStatus, sessionRunning
    <3>3. QED
      BY <2>2, <3>1, <3>2 DEF Session!Close
  <2>3. ASSUME NEW t \in Thread, NEW s \in Signer, NEW h \in Holder,
               Call(t, s, h) \/ BeginShutdown(t, s, h)
        PROVE  Stutter
    BY <2>0, <2>3, RunningStutter DEF Call, BeginShutdown, Stutter
  <2>4. ASSUME NEW s \in Signer, NEW h \in Holder, Clone(s, h)
        PROVE  Stutter
    BY <2>0, <2>4 DEF Clone, Stutter
  <2>5. ASSUME NEW s \in Signer, NEW h \in Holder, Release(s, h)
        PROVE  Session!Close(s) \/ Stutter
    <3>1. sessionRunning' = sessionRunning
      BY <2>0, <2>5 DEF Release
    <3>2. CASE arcs[s] = {h} /\ slot[s] = "live"
      <4>1. \A u \in Thread : ~(cur[u] = s /\ pc[u] = "op")
        BY <1>2, <2>5, <3>2 DEF Release, IInv, CallOK
      <4>2. QED
        BY <2>2, <2>5, <3>1, <3>2, <4>1 DEF Release
    <3>3. CASE arcs[s] # {h}
      BY <2>0, <2>5, <3>1, <3>3 DEF Release, Stutter
    <3>4. CASE slot[s] # "live"
      <4>1. slot[s] = "empty"
        BY <1>2, <2>5, <3>4 DEF Release, IInv, TypeOK, SlotOK
      <4>2. slot' = slot
        BY <2>0, <2>5, <4>1 DEF Release, TypeOK
      <4>3. QED
        BY <2>0, <3>1, <4>2 DEF Stutter
    <3>5. QED
      BY <3>2, <3>3, <3>4
  <2>6. ASSUME NEW t \in Thread, BootOk(t)
        PROVE  Stutter
    BY <2>0, <2>6, RunningStutter DEF BootOk, Stutter
  <2>7. ASSUME NEW t \in Thread, BootFail(t)
        PROVE  Session!Close(cur[t])
    <3>1. sessionRunning' = sessionRunning
      BY <2>0, <2>7, RunningStutter DEF BootFail
    <3>2. /\ cur[t] \in Signer
          /\ slot[cur[t]] = "live"
          /\ \A u \in Thread : ~(cur[u] = cur[t] /\ pc[u] = "op")
      BY <1>2, <2>7 DEF BootFail, IInv, CallOK
    <3>3. QED
      BY <2>2, <2>7, <3>1, <3>2 DEF BootFail
  <2>8. ASSUME NEW t \in Thread, LoadGate(t) \/ AcquireRead(t)
        PROVE  Stutter
    <3>1. \E p \in {"idle", "wait", "recheck"}, s \in {cur[t], NoSigner} :
            pc' = [pc EXCEPT ![t] = p] /\ cur' = [cur EXCEPT ![t] = s]
      BY <2>0, <2>8 DEF LoadGate, AcquireRead, TypeOK
    <3>2. QED
      BY <2>0, <2>8, <3>1, RunningStutter DEF LoadGate, AcquireRead, Stutter
  <2>9. ASSUME NEW t \in Thread, Recheck(t)
        PROVE  Session!Begin(t, cur[t]) \/ Stutter
    <3>1. CASE gate[cur[t]] \/ slot[cur[t]] = "empty"
      BY <2>0, <2>9, <3>1, RunningStutter DEF Recheck, Stutter
    <3>2. CASE ~(gate[cur[t]] \/ slot[cur[t]] = "empty")
      <4>1. cur' = [cur EXCEPT ![t] = cur[t]] /\ pc' = [pc EXCEPT ![t] = "op"]
        BY <2>0, <2>9, <3>2 DEF Recheck, TypeOK
      <4>2. sessionRunning' = [sessionRunning EXCEPT ![t] = cur[t]]
        BY <2>0, <4>1, RunningStep
      <4>3. cur[t] \in Signer /\ slot[cur[t]] = "live"
        BY <1>2, <2>9, <2>a, <3>2 DEF Recheck, IInv, TypeOK, SlotOK
      <4>4. sessionRunning[t] = NoSigner /\ sessionStatus[cur[t]] = "open"
        BY <2>9, <4>3 DEF Recheck, sessionRunning, sessionStatus
      <4>5. sessionStatus' = sessionStatus
        BY <2>0, <2>9 DEF Recheck
      <4>6. QED
        BY <4>2, <4>4, <4>5 DEF Session!Begin
    <3>3. QED
      BY <3>1, <3>2
  <2>10. ASSUME NEW t \in Thread, FinishOp(t)
         PROVE  Session!End(t)
    <3>1. sessionRunning' = [sessionRunning EXCEPT ![t] = NoSigner]
      BY <2>0, <2>10, RunningStep DEF FinishOp
    <3>2. sessionRunning[t] # NoSigner
      BY <2>10, <2>a, SignerAssumption DEF FinishOp, sessionRunning
    <3>3. sessionStatus' = sessionStatus
      BY <2>0, <2>10 DEF FinishOp
    <3>4. QED
      BY <3>1, <3>2, <3>3 DEF Session!End
  <2>11. ASSUME NEW t \in Thread, AcquireWrite(t) \/ FinishShutdown(t)
         PROVE  Stutter
    <3>1. CASE AcquireWrite(t)
      <4>1. cur' = [cur EXCEPT ![t] = cur[t]]
        BY <2>0, <3>1 DEF AcquireWrite, TypeOK
      <4>2. QED
        BY <2>0, <3>1, <4>1, RunningStutter DEF AcquireWrite, Stutter
    <3>2. CASE FinishShutdown(t)
      BY <2>0, <3>2, RunningStutter DEF FinishShutdown, Stutter
    <3>3. QED
      BY <2>11, <3>1, <3>2
  <2>12. ASSUME NEW t \in Thread, TakeState(t) \/ TakeStatePanics(t)
         PROVE  Session!Close(cur[t]) \/ Stutter
    <3>1. ASSUME TakeState(t)
          PROVE  sessionRunning' = sessionRunning
      <4>1. cur' = [cur EXCEPT ![t] = cur[t]]
        BY <2>0, <3>1 DEF TakeState, TypeOK
      <4>2. QED
        BY <2>0, <3>1, <4>1, RunningStutter DEF TakeState
    <3>2. sessionRunning' = sessionRunning
      BY <2>0, <2>12, <3>1, RunningStutter DEF TakeStatePanics
    <3>3. /\ cur[t] \in Signer
          /\ slot' = [slot EXCEPT ![cur[t]] = "empty"]
          /\ \A u \in Thread : ~(cur[u] = cur[t] /\ pc[u] = "op")
      BY <1>2, <2>12, <2>a DEF TakeState, TakeStatePanics, IInv, LockOK, Reading, Writing
    <3>4. CASE slot[cur[t]] = "live"
      BY <2>2, <3>2, <3>3, <3>4
    <3>5. CASE slot[cur[t]] # "live"
      <4>1. slot' = slot
        BY <1>2, <2>0, <2>12, <3>3, <3>5 DEF IInv, TypeOK, SlotOK, TakeState, TakeStatePanics
      <4>2. QED
        BY <2>0, <3>2, <4>1 DEF Stutter
    <3>6. QED
      BY <3>4, <3>5
  <2>13. ASSUME UNCHANGED vars
         PROVE  Stutter
    BY <2>0, <2>13 DEF vars, thread, Stutter
  <2>14. ASSUME NEW t \in Thread, BootFail(t) \/ Recheck(t) \/ TakeState(t) \/ TakeStatePanics(t)
         PROVE  cur[t] \in Signer
    BY <2>14, <2>a DEF BootFail, Recheck, TakeState, TakeStatePanics
  <2>15. Stutter => UNCHANGED Session!vars
    BY DEF Stutter, Session!vars
  <2>16. \A s \in Signer : Session!Open(s) \/ Session!Close(s) => Session!Next
    BY DEF Session!Next
  <2>17. \A t \in Thread : Session!End(t) => Session!Next
    BY DEF Session!Next
  <2>18. \A t \in Thread, s \in Signer : Session!Begin(t, s) => Session!Next
    BY DEF Session!Next
  <2>19. Next \/ UNCHANGED vars => Session!Next \/ Stutter
    BY <2>1, <2>3, <2>4, <2>5, <2>6, <2>7, <2>8, <2>9, <2>10, <2>11, <2>12,
       <2>13, <2>14, <2>16, <2>17, <2>18 DEF Next, WithState, Shutdown
  <2>20. QED
    BY <1>2, <2>15, <2>19
<1>3. QED
  BY <1>1, <1>2, SpecIInv, PTL DEF Spec, SessionSpec, Session!Spec
===============================================================================
