-------------------------- MODULE HostLifecycleProofs -------------------------
(***************************************************************************)
(* HostLifecycle for any number of nodes and signers.  The heart of the    *)
(* invariant is that a handle points to its own allocation exactly while   *)
(* that allocation exists: then no call can look at a freed one, and what  *)
(* an object has left behind can be told from its finaliser alone.         *)
(***************************************************************************)
EXTENDS WorkerTeardown, TLAPS

HandlesOK == \A o \in Object : handle[o] = IF o \in heap THEN o ELSE None

\* A node facade is closed, and a signer facade destroyed, just when the
\* allocation is gone; an object that was never made has done neither.
FacadesOK ==
  /\ \A n \in Node : n \in closed => n \notin heap /\ object[n] # "unmade"
  /\ \A s \in Signer : s \in destroyed => s \notin heap /\ object[s] # "unmade"
  /\ \A n \in Node : object[n] = "held" => n \in heap \cup closed
  /\ \A s \in Signer : object[s] = "held" => s \in heap \cup destroyed

\* What is left in native memory and who is to blame.
RemainsOK ==
  /\ \A o \in heap : object[o] = "gone" => o \in failed
  /\ \A n \in Node : retained[n] # None => n \in heap

IInv ==
  /\ TypeOK /\ HandlesOK /\ FacadesOK /\ RemainsOK
  /\ ~fault /\ tasks \subseteq heap /\ shut \subseteq revoked

\* Nodes and signers are different objects, and None is neither.
LEMMA Objects ==
  /\ Object = Node \cup Signer /\ Node \subseteq Object /\ Signer \subseteq Object
  /\ Node \cap Signer = {} /\ None \notin Object
BY HostAssumption DEF Object

\* Nothing has been made at first.
LEMMA Initially == Init => IInv
<1> SUFFICES ASSUME Init PROVE IInv
  OBVIOUS
<1>1. TypeOK  BY DEF Init, TypeOK
<1>2. HandlesOK  BY DEF Init, HandlesOK
<1>3. FacadesOK  BY Objects DEF Init, FacadesOK
<1>4. RemainsOK  BY Objects DEF Init, RemainsOK
<1>5. QED  BY <1>1, <1>2, <1>3, <1>4 DEF IInv, Init

\* No handle dangles, so no use of one is a fault.
LEMMA UsesAreSafe ==
  ASSUME IInv, NEW handles, \A h \in handles : \E o \in Object : h = handle[o], Uses(handles)
  PROVE  fault' = FALSE
BY DEF IInv, HandlesOK, Uses, TypeOK

\* The steps of a node: each touches only its own object, handle and allocation.
LEMMA NodeSteps == ASSUME IInv, NEW n \in Node, NodeStep(n) PROVE IInv'
<1>i. TypeOK /\ HandlesOK /\ FacadesOK /\ RemainsOK /\ ~fault /\ tasks \subseteq heap /\ shut \subseteq revoked
  BY DEF IInv
<1>o. n \in Object  BY Objects
<1>1. CASE CreateNode(n)
  <2>1. TypeOK'  BY <1>i, <1>o, <1>1, Objects DEF CreateNode, facade, native, TypeOK
  <2>2. HandlesOK'
    BY <1>i, <1>o, <1>1, Objects DEF CreateNode, facade, native, TypeOK, HandlesOK
  <2>3. FacadesOK'
    BY <1>i, <1>o, <1>1, Objects DEF CreateNode, facade, native, TypeOK, HandlesOK, FacadesOK
  <2>4. RemainsOK'
    BY <1>i, <1>o, <1>1, Objects DEF CreateNode, facade, native, TypeOK, HandlesOK, RemainsOK
  <2>5. ~fault' /\ tasks' \subseteq heap' /\ shut' \subseteq revoked'
    BY <1>i, <1>o, <1>1, Objects DEF CreateNode, facade, native, TypeOK
  <2>6. QED  BY <2>1, <2>2, <2>3, <2>4, <2>5 DEF IInv
<1>2. CASE CallNode(n)
  <2>0. fault' = FALSE  BY <1>o, <1>2, UsesAreSafe, Objects DEF CallNode
  <2>1. TypeOK'  BY <1>i, <1>o, <1>2, <2>0, Objects DEF CallNode, facade, native, TypeOK
  <2>2. HandlesOK'
    BY <1>i, <1>o, <1>2, <2>0, Objects DEF CallNode, facade, native, TypeOK, HandlesOK
  <2>3. FacadesOK'
    BY <1>i, <1>o, <1>2, <2>0, Objects DEF CallNode, facade, native, TypeOK, HandlesOK, FacadesOK
  <2>4. RemainsOK'
    BY <1>i, <1>o, <1>2, <2>0, Objects DEF CallNode, facade, native, TypeOK, HandlesOK, RemainsOK
  <2>5. ~fault' /\ tasks' \subseteq heap' /\ shut' \subseteq revoked'
    BY <1>i, <1>o, <1>2, <2>0, Objects DEF CallNode, facade, native, TypeOK
  <2>6. QED  BY <2>1, <2>2, <2>3, <2>4, <2>5 DEF IInv
<1>3. CASE Detach(n)
  <2>0. fault' = FALSE  BY <1>o, <1>3, UsesAreSafe, Objects DEF Detach
  <2>1. TypeOK'  BY <1>i, <1>o, <1>3, <2>0, Objects DEF Detach, facade, native, TypeOK
  <2>2. HandlesOK'
    BY <1>i, <1>o, <1>3, <2>0, Objects DEF Detach, facade, native, TypeOK, HandlesOK
  <2>3. FacadesOK'
    BY <1>i, <1>o, <1>3, <2>0, Objects DEF Detach, facade, native, TypeOK, HandlesOK, FacadesOK
  <2>4. RemainsOK'
    BY <1>i, <1>o, <1>3, <2>0, Objects DEF Detach, facade, native, TypeOK, HandlesOK, RemainsOK
  <2>5. ~fault' /\ tasks' \subseteq heap' /\ shut' \subseteq revoked'
    BY <1>i, <1>o, <1>3, <2>0, Objects DEF Detach, facade, native, TypeOK
  <2>6. QED  BY <2>1, <2>2, <2>3, <2>4, <2>5 DEF IInv
<1>4. ASSUME NEW s \in Signer, Attach(n, s) PROVE IInv'
  <2>0. fault' = FALSE  BY <1>o, <1>4, UsesAreSafe, Objects DEF Attach
  <2>1. CASE UNCHANGED retained
    <3>1. TypeOK'
      BY <1>i, <1>o, <1>4, <2>0, <2>1, Objects DEF Attach, facade, native, TypeOK
    <3>2. HandlesOK'
      BY <1>i, <1>o, <1>4, <2>0, <2>1, Objects DEF Attach, facade, native, TypeOK, HandlesOK
    <3>3. FacadesOK'
      BY <1>i, <1>o, <1>4, <2>0, <2>1, Objects DEF Attach, facade, native, TypeOK, HandlesOK, FacadesOK
    <3>4. RemainsOK'
      BY <1>i, <1>o, <1>4, <2>0, <2>1, Objects DEF Attach, facade, native, TypeOK, HandlesOK, RemainsOK
    <3>5. ~fault' /\ tasks' \subseteq heap' /\ shut' \subseteq revoked'
      BY <1>i, <1>o, <1>4, <2>0, <2>1, Objects DEF Attach, facade, native, TypeOK
    <3>6. QED  BY <3>1, <3>2, <3>3, <3>4, <3>5 DEF IInv
  <2>2. CASE handle[n] # None /\ retained' = [retained EXCEPT ![n] = s]
    <3>1. TypeOK'
      BY <1>i, <1>o, <1>4, <2>0, <2>2, Objects DEF Attach, facade, native, TypeOK
    <3>2. HandlesOK'
      BY <1>i, <1>o, <1>4, <2>0, <2>2, Objects DEF Attach, facade, native, TypeOK, HandlesOK
    <3>3. FacadesOK'
      BY <1>i, <1>o, <1>4, <2>0, <2>2, Objects DEF Attach, facade, native, TypeOK, HandlesOK, FacadesOK
    <3>4. RemainsOK'
      BY <1>i, <1>o, <1>4, <2>0, <2>2, Objects DEF Attach, facade, native, TypeOK, HandlesOK, RemainsOK
    <3>5. ~fault' /\ tasks' \subseteq heap' /\ shut' \subseteq revoked'
      BY <1>i, <1>o, <1>4, <2>0, <2>2, Objects DEF Attach, facade, native, TypeOK
    <3>6. QED  BY <3>1, <3>2, <3>3, <3>4, <3>5 DEF IInv
  <2>3. QED  BY <1>4, <2>1, <2>2 DEF Attach
<1>5. CASE ShutdownNode(n)
  <2>0. fault' = FALSE  BY <1>o, <1>5, UsesAreSafe, Objects DEF ShutdownNode
  <2>1. CASE TeardownFails(n) /\ UNCHANGED <<handle, closed>>
    <3>1. TypeOK'
      BY <1>i, <1>o, <1>5, <2>0, <2>1, Objects DEF ShutdownNode, TeardownFails, facade, native, TypeOK
    <3>2. HandlesOK'
      BY <1>i, <1>o, <1>5, <2>0, <2>1, Objects DEF ShutdownNode, TeardownFails, facade, native, TypeOK, HandlesOK
    <3>3. FacadesOK'
      BY <1>i, <1>o, <1>5, <2>0, <2>1, Objects DEF ShutdownNode, TeardownFails, facade, native, TypeOK, HandlesOK, FacadesOK
    <3>4. RemainsOK'
      BY <1>i, <1>o, <1>5, <2>0, <2>1, Objects DEF ShutdownNode, TeardownFails, facade, native, TypeOK, HandlesOK, RemainsOK
    <3>5. ~fault' /\ tasks' \subseteq heap' /\ shut' \subseteq revoked'
      BY <1>i, <1>o, <1>5, <2>0, <2>1, Objects DEF ShutdownNode, TeardownFails, facade, native, TypeOK
    <3>6. QED  BY <3>1, <3>2, <3>3, <3>4, <3>5 DEF IInv
  <2>2. CASE /\ TornDown(n) /\ handle' = [handle EXCEPT ![n] = None]
            /\ closed' = closed \cup {n}
    <3>1. TypeOK'
      BY <1>i, <1>o, <1>5, <2>0, <2>2, Objects DEF ShutdownNode, TornDown, facade, native, TypeOK
    <3>2. HandlesOK'
      BY <1>i, <1>o, <1>5, <2>0, <2>2, Objects DEF ShutdownNode, TornDown, facade, native, TypeOK, HandlesOK
    <3>3. FacadesOK'
      BY <1>i, <1>o, <1>5, <2>0, <2>2, Objects DEF ShutdownNode, TornDown, facade, native, TypeOK, HandlesOK, FacadesOK
    <3>4. RemainsOK'
      BY <1>i, <1>o, <1>5, <2>0, <2>2, Objects DEF ShutdownNode, TornDown, facade, native, TypeOK, HandlesOK, RemainsOK
    <3>5. ~fault' /\ tasks' \subseteq heap' /\ shut' \subseteq revoked'
      BY <1>i, <1>o, <1>5, <2>0, <2>2, Objects DEF ShutdownNode, TornDown, facade, native, TypeOK
    <3>6. QED  BY <3>1, <3>2, <3>3, <3>4, <3>5 DEF IInv
  <2>3. QED  BY <1>5, <2>1, <2>2 DEF ShutdownNode
<1>6. CASE FinaliseNode(n)
  <2>0. fault' = FALSE  BY <1>o, <1>6, UsesAreSafe, Objects DEF FinaliseNode
  <2>1. CASE handle[n] = None /\ UNCHANGED <<handle, heap, native>>
    <3>1. TypeOK'
      BY <1>i, <1>o, <1>6, <2>0, <2>1, Objects DEF FinaliseNode, facade, native, TypeOK
    <3>2. HandlesOK'
      BY <1>i, <1>o, <1>6, <2>0, <2>1, Objects DEF FinaliseNode, facade, native, TypeOK, HandlesOK
    <3>3. FacadesOK'
      BY <1>i, <1>o, <1>6, <2>0, <2>1, Objects DEF FinaliseNode, facade, native, TypeOK, HandlesOK, FacadesOK
    <3>4. RemainsOK'
      BY <1>i, <1>o, <1>6, <2>0, <2>1, Objects DEF FinaliseNode, facade, native, TypeOK, HandlesOK, RemainsOK
    <3>5. ~fault' /\ tasks' \subseteq heap' /\ shut' \subseteq revoked'
      BY <1>i, <1>o, <1>6, <2>0, <2>1, Objects DEF FinaliseNode, facade, native, TypeOK
    <3>6. QED  BY <3>1, <3>2, <3>3, <3>4, <3>5 DEF IInv
  <2>2. CASE TeardownFails(n) /\ UNCHANGED handle
    <3>1. TypeOK'
      BY <1>i, <1>o, <1>6, <2>0, <2>2, Objects DEF FinaliseNode, TeardownFails, facade, native, TypeOK
    <3>2. HandlesOK'
      BY <1>i, <1>o, <1>6, <2>0, <2>2, Objects DEF FinaliseNode, TeardownFails, facade, native, TypeOK, HandlesOK
    <3>3. FacadesOK'
      BY <1>i, <1>o, <1>6, <2>0, <2>2, Objects DEF FinaliseNode, TeardownFails, facade, native, TypeOK, HandlesOK, FacadesOK
    <3>4. RemainsOK'
      BY <1>i, <1>o, <1>6, <2>0, <2>2, Objects DEF FinaliseNode, TeardownFails, facade, native, TypeOK, HandlesOK, RemainsOK
    <3>5. ~fault' /\ tasks' \subseteq heap' /\ shut' \subseteq revoked'
      BY <1>i, <1>o, <1>6, <2>0, <2>2, Objects DEF FinaliseNode, TeardownFails, facade, native, TypeOK
    <3>6. QED  BY <3>1, <3>2, <3>3, <3>4, <3>5 DEF IInv
  <2>3. CASE TornDown(n) /\ handle' = [handle EXCEPT ![n] = None]
    <3>1. TypeOK'
      BY <1>i, <1>o, <1>6, <2>0, <2>3, Objects DEF FinaliseNode, TornDown, facade, native, TypeOK
    <3>2. HandlesOK'
      BY <1>i, <1>o, <1>6, <2>0, <2>3, Objects DEF FinaliseNode, TornDown, facade, native, TypeOK, HandlesOK
    <3>3. FacadesOK'
      BY <1>i, <1>o, <1>6, <2>0, <2>3, Objects DEF FinaliseNode, TornDown, facade, native, TypeOK, HandlesOK, FacadesOK
    <3>4. RemainsOK'
      BY <1>i, <1>o, <1>6, <2>0, <2>3, Objects DEF FinaliseNode, TornDown, facade, native, TypeOK, HandlesOK, RemainsOK
    <3>5. ~fault' /\ tasks' \subseteq heap' /\ shut' \subseteq revoked'
      BY <1>i, <1>o, <1>6, <2>0, <2>3, Objects DEF FinaliseNode, TornDown, facade, native, TypeOK
    <3>6. QED  BY <3>1, <3>2, <3>3, <3>4, <3>5 DEF IInv
  <2>4. QED  BY <1>6, <2>1, <2>2, <2>3 DEF FinaliseNode
<1>7. QED  BY <1>1, <1>2, <1>3, <1>4, <1>5, <1>6 DEF NodeStep

\* The steps of a signer.
LEMMA SignerSteps == ASSUME IInv, NEW s \in Signer, SignerStep(s) PROVE IInv'
<1>i. TypeOK /\ HandlesOK /\ FacadesOK /\ RemainsOK /\ ~fault /\ tasks \subseteq heap /\ shut \subseteq revoked
  BY DEF IInv
<1>o. s \in Object  BY Objects
<1>1. CASE CreateSigner(s)
  <2>1. TypeOK'  BY <1>i, <1>o, <1>1, Objects DEF CreateSigner, facade, native, TypeOK
  <2>2. HandlesOK'
    BY <1>i, <1>o, <1>1, Objects DEF CreateSigner, facade, native, TypeOK, HandlesOK
  <2>3. FacadesOK'
    BY <1>i, <1>o, <1>1, Objects DEF CreateSigner, facade, native, TypeOK, HandlesOK, FacadesOK
  <2>4. RemainsOK'
    BY <1>i, <1>o, <1>1, Objects DEF CreateSigner, facade, native, TypeOK, HandlesOK, RemainsOK
  <2>5. ~fault' /\ tasks' \subseteq heap' /\ shut' \subseteq revoked'
    BY <1>i, <1>o, <1>1, Objects DEF CreateSigner, facade, native, TypeOK
  <2>6. QED  BY <2>1, <2>2, <2>3, <2>4, <2>5 DEF IInv
<1>2. CASE CallSigner(s)
  <2>0. fault' = FALSE  BY <1>o, <1>2, UsesAreSafe, Objects DEF CallSigner
  <2>1. TypeOK'  BY <1>i, <1>o, <1>2, <2>0, Objects DEF CallSigner, facade, native, TypeOK
  <2>2. HandlesOK'
    BY <1>i, <1>o, <1>2, <2>0, Objects DEF CallSigner, facade, native, TypeOK, HandlesOK
  <2>3. FacadesOK'
    BY <1>i, <1>o, <1>2, <2>0, Objects DEF CallSigner, facade, native, TypeOK, HandlesOK, FacadesOK
  <2>4. RemainsOK'
    BY <1>i, <1>o, <1>2, <2>0, Objects DEF CallSigner, facade, native, TypeOK, HandlesOK, RemainsOK
  <2>5. ~fault' /\ tasks' \subseteq heap' /\ shut' \subseteq revoked'
    BY <1>i, <1>o, <1>2, <2>0, Objects DEF CallSigner, facade, native, TypeOK
  <2>6. QED  BY <2>1, <2>2, <2>3, <2>4, <2>5 DEF IInv
<1>3. CASE ShutdownSigner(s)
  <2>0. fault' = FALSE  BY <1>o, <1>3, UsesAreSafe, Objects DEF ShutdownSigner
  <2>1. TypeOK'
    BY <1>i, <1>o, <1>3, <2>0, Objects DEF ShutdownSigner, facade, native, TypeOK
  <2>2. HandlesOK'
    BY <1>i, <1>o, <1>3, <2>0, Objects DEF ShutdownSigner, facade, native, TypeOK, HandlesOK
  <2>3. FacadesOK'
    BY <1>i, <1>o, <1>3, <2>0, Objects DEF ShutdownSigner, facade, native, TypeOK, HandlesOK, FacadesOK
  <2>4. RemainsOK'
    BY <1>i, <1>o, <1>3, <2>0, Objects DEF ShutdownSigner, facade, native, TypeOK, HandlesOK, RemainsOK
  <2>5. ~fault' /\ tasks' \subseteq heap' /\ shut' \subseteq revoked'
    BY <1>i, <1>o, <1>3, <2>0, Objects DEF ShutdownSigner, facade, native, TypeOK
  <2>6. QED  BY <2>1, <2>2, <2>3, <2>4, <2>5 DEF IInv
<1>4. CASE DestroySigner(s)
  <2>0. fault' = FALSE  BY <1>o, <1>4, UsesAreSafe, Objects DEF DestroySigner, FreeSigner
  <2>1. TypeOK'
    BY <1>i, <1>o, <1>4, <2>0, Objects DEF DestroySigner, FreeSigner, facade, native, TypeOK
  <2>2. HandlesOK'
    BY <1>i, <1>o, <1>4, <2>0, Objects DEF DestroySigner, FreeSigner, facade, native, TypeOK, HandlesOK
  <2>3. FacadesOK'
    BY <1>i, <1>o, <1>4, <2>0, Objects DEF DestroySigner, FreeSigner, facade, native, TypeOK, HandlesOK, FacadesOK
  <2>4. RemainsOK'
    BY <1>i, <1>o, <1>4, <2>0, Objects DEF DestroySigner, FreeSigner, facade, native, TypeOK, HandlesOK, RemainsOK
  <2>f. handle[s] \notin tasks  BY <1>i, <1>o, Objects DEF TypeOK, HandlesOK
  <2>5. ~fault' /\ tasks' \subseteq heap' /\ shut' \subseteq revoked'
    BY <1>i, <1>o, <1>4, <2>0, <2>f, Objects DEF DestroySigner, FreeSigner, facade, native, TypeOK
  <2>6. QED  BY <2>1, <2>2, <2>3, <2>4, <2>5 DEF IInv
<1>5. CASE FinaliseSigner(s)
  <2>0. fault' = FALSE  BY <1>o, <1>5, UsesAreSafe, Objects DEF FinaliseSigner, FreeSigner
  <2>1. TypeOK'
    BY <1>i, <1>o, <1>5, <2>0, Objects DEF FinaliseSigner, FreeSigner, facade, native, TypeOK
  <2>2. HandlesOK'
    BY <1>i, <1>o, <1>5, <2>0, Objects DEF FinaliseSigner, FreeSigner, facade, native, TypeOK, HandlesOK
  <2>3. FacadesOK'
    BY <1>i, <1>o, <1>5, <2>0, Objects DEF FinaliseSigner, FreeSigner, facade, native, TypeOK, HandlesOK, FacadesOK
  <2>4. RemainsOK'
    BY <1>i, <1>o, <1>5, <2>0, Objects DEF FinaliseSigner, FreeSigner, facade, native, TypeOK, HandlesOK, RemainsOK
  <2>f. handle[s] \notin tasks  BY <1>i, <1>o, Objects DEF TypeOK, HandlesOK
  <2>5. ~fault' /\ tasks' \subseteq heap' /\ shut' \subseteq revoked'
    BY <1>i, <1>o, <1>5, <2>0, <2>f, Objects DEF FinaliseSigner, FreeSigner, facade, native, TypeOK
  <2>6. QED  BY <2>1, <2>2, <2>3, <2>4, <2>5 DEF IInv
<1>6. QED  BY <1>1, <1>2, <1>3, <1>4, <1>5 DEF SignerStep

LEMMA Steps == IInv /\ [Next]_vars => IInv'
<1> SUFFICES ASSUME IInv, [Next]_vars PROVE IInv'
  OBVIOUS
<1>1. CASE UNCHANGED vars
  BY <1>1 DEF vars, facade, native, IInv, TypeOK, HandlesOK, FacadesOK, RemainsOK
<1>2. ASSUME NEW o \in Object, Lose(o) PROVE IInv'
  BY <1>2, Objects DEF Lose, facade, native, IInv, TypeOK, HandlesOK, FacadesOK, RemainsOK
<1>3. QED  BY <1>1, <1>2, NodeSteps, SignerSteps DEF Next

LEMMA TruthfulFacades == IInv => FacadesTellTheTruth
BY HostAssumption, SMT DEF IInv, FacadesTellTheTruth, TypeOK, HandlesOK, FacadesOK, Object

LEMMA CleanHosts == IInv => NothingOutlivesTheHost
<1> SUFFICES ASSUME IInv, \A o \in Object : object[o] \in {"unmade", "gone"}
               PROVE  /\ heap \subseteq failed
                      /\ \A s \in Signer : Alive(s) => \E n \in failed : retained[n] = s
    BY DEF NothingOutlivesTheHost
<1>1. heap \subseteq failed  BY DEF IInv, TypeOK, RemainsOK
<1>2. ASSUME NEW s \in Signer, Alive(s) PROVE \E n \in failed : retained[n] = s
  <2>1. s \notin heap  BY <1>1, HostAssumption DEF IInv, TypeOK
  <2>2. PICK n \in Node : retained[n] = s  BY <1>2, <2>1 DEF Alive
  <2>3. n \in failed  BY <1>1, <2>2, HostAssumption DEF IInv, RemainsOK, Object
  <2>4. QED  BY <2>2, <2>3
<1>3. QED  BY <1>1, <1>2

LEMMA Invariance == Spec => []IInv
BY Initially, Steps, PTL DEF Spec

-------------------------------------------------------------------------------
\* Every variable keeps its type, and no allocation is without an object.
THEOREM TypeCorrect == Spec => []TypeOK
<1>1. IInv => TypeOK  BY DEF IInv
<1>2. QED  BY <1>1, Invariance, PTL

\* However many nodes and signers a host makes, and however it uses, drops and
\* finalises them, no dangling handle is used or freed, nor the state of tasks.
THEOREM NothingDangles == Spec => []NoDanglingUse
<1>1. IInv => NoDanglingUse  BY DEF IInv, NoDanglingUse
<1>2. QED  BY <1>1, Invariance, PTL

\* The flags of the facades agree with the native state they stand for.
THEOREM FacadesAreTruthful == Spec => []FacadesTellTheTruth
BY TruthfulFacades, Invariance, PTL

\* Finalisation in any order leaves only what a failed teardown still needs.
THEOREM HostsLeaveNothing == Spec => []NothingOutlivesTheHost
BY CleanHosts, Invariance, PTL

-------------------------------------------------------------------------------
(***************************************************************************)
(* The same of a worker and its parent.                                    *)
(***************************************************************************)

\* The end of an environment loses everything it held, which is no step of a
\* host, and does no more harm than losing one object after another.
LEMMA Endings == IInv /\ EndEnvironment => IInv'
BY Objects DEF EndEnvironment, facade, native, IInv, TypeOK, HandlesOK, FacadesOK, RemainsOK

Statement == {"create signer", "bootstrap", "create node", "init", "attach", "destroy signer",
              "drop signer", "shutdown node", "shutdown signer"}

ScriptOK == mode \in Mode /\ step \in Nat \ {0}

LEMMA Joined == ASSUME NEW S, NEW head \in Seq(S), NEW tail \in Seq(S)
                PROVE  head \o tail \in Seq(S)
OBVIOUS

\* Scripts are made of statements.
LEMMA Scripts == ASSUME NEW m \in Mode PROVE Script(m) \in Seq(Statement)
<1> DEFINE attached == <<"create signer", "bootstrap", "create node", "init", "attach">>
<1>1. attached \in Seq(Statement)  BY DEF Statement
<1>2. /\ <<"create signer", "bootstrap">> \in Seq(Statement)
      /\ <<"destroy signer", "drop signer">> \in Seq(Statement)
      /\ <<"shutdown node", "shutdown signer", "destroy signer">> \in Seq(Statement)
      /\ <<>> \in Seq(Statement)
  BY DEF Statement
<1>3. /\ attached \o <<"destroy signer", "drop signer">> \in Seq(Statement)
      /\ attached \o <<"shutdown node", "shutdown signer", "destroy signer">> \in Seq(Statement)
  BY <1>1, <1>2, Joined
<1>4. CASE m = "signer-only"  BY <1>2, <1>4 DEF Script
<1>5. CASE m = "initialized"  BY <1>1, <1>5 DEF Script
<1>6. CASE m = "early-host-free"  BY <1>3, <1>6 DEF Script
<1>7. CASE m = "graceful"  BY <1>3, <1>7 DEF Script
<1>8. CASE m = "any"  BY <1>2, <1>8 DEF Script
<1>9. QED  BY <1>4, <1>5, <1>6, <1>7, <1>8 DEF Mode

\* Each statement is a step of the host.
LEMMA Statements == ASSUME NEW statement \in Statement, Call(statement) PROVE Next
<1>1. TheNode \in Node /\ TheSigner \in Signer /\ TheSigner \in Object
  BY WorkerAssumption, Objects
<1>2. CASE statement = "create signer"
  BY <1>1, <1>2 DEF Call, Next, SignerStep
<1>3. CASE statement = "bootstrap"
  BY <1>1, <1>3 DEF Call, Next, SignerStep
<1>4. CASE statement = "create node"
  BY <1>1, <1>4 DEF Call, Next, NodeStep
<1>5. CASE statement = "init"
  BY <1>1, <1>5 DEF Call, Next, NodeStep
<1>6. CASE statement = "attach"
  BY <1>1, <1>6 DEF Call, Next, NodeStep
<1>7. CASE statement = "destroy signer"
  BY <1>1, <1>7 DEF Call, Next, SignerStep
<1>8. CASE statement = "drop signer"
  BY <1>1, <1>8 DEF Call, Next
<1>9. CASE statement = "shutdown node"
  BY <1>1, <1>9 DEF Call, Next, NodeStep
<1>10. CASE statement = "shutdown signer"
  BY <1>1, <1>10 DEF Call, Next, SignerStep
<1>11. QED
  BY <1>2, <1>3, <1>4, <1>5, <1>6, <1>7, <1>8, <1>9, <1>10 DEF Statement

\* A step of worker or parent is one of the host, the end of the environment,
\* or touches neither.
LEMMA WorldSteps ==
  ASSUME ScriptOK, Work \/ Watch
  PROVE  (Next \/ EndEnvironment \/ UNCHANGED vars) /\ ScriptOK'
<1>1. CASE RunStatement
  <2>1. /\ step \in 1 .. Len(Script(mode)) /\ Call(Script(mode)[step])
        /\ step' = step + 1 /\ mode' = mode
    BY <1>1 DEF RunStatement, Busy, ScriptOK
  <2>2. Script(mode)[step] \in Statement
    BY <2>1, Scripts DEF ScriptOK
  <2>3. Next  BY <2>1, <2>2, Statements
  <2>4. QED  BY <2>1, <2>3 DEF ScriptOK
<1>2. CASE RunAnything
  BY <1>2 DEF RunAnything, program, script, ScriptOK
<1>3. CASE Post
  BY <1>3 DEF Post, ScriptOK
<1>4. CASE Throw
  BY <1>4 DEF Throw, script, ScriptOK
<1>5. CASE Quit
  BY <1>5 DEF Quit, script, ScriptOK
<1>6. CASE Finalise
  BY <1>6 DEF Finalise, program, script, ScriptOK, Next, NodeStep, SignerStep
<1>7. CASE Exit
  BY <1>7 DEF Exit, script, ScriptOK
<1>8. ASSUME NEW result, Settled(result)
      PROVE  (EndEnvironment \/ UNCHANGED vars) /\ ScriptOK'
  <2>1. EndEnvironment \/ UNCHANGED vars  BY <1>8 DEF Settled
  <2>2. QED  BY <1>8, <2>1 DEF Settled, script, ScriptOK
<1>9. CASE Settle \/ Timeout
  BY <1>8, <1>9 DEF Settle, Timeout
<1>10. CASE Terminated \/ Reopen
  BY <1>10 DEF Terminated, Reopen, script, ScriptOK
<1>11. QED
  BY <1>1, <1>2, <1>3, <1>4, <1>5, <1>6, <1>7, <1>9, <1>10 DEF Work, Watch

LEMMA WorkerSteps == IInv /\ ScriptOK /\ [Work \/ Watch]_world => (IInv /\ ScriptOK)'
<1> SUFFICES ASSUME IInv, ScriptOK, [Work \/ Watch]_world PROVE (IInv /\ ScriptOK)'
  OBVIOUS
<1>1. CASE Work \/ Watch
  BY <1>1, WorldSteps, Steps, Endings
<1>2. CASE UNCHANGED world
  BY <1>2, Steps DEF world, program, script, ScriptOK
<1>3. QED  BY <1>1, <1>2

\* A worker that is terminated anywhere, in its script or in any calls, is taken
\* down without a dangling handle, with facades that tell the truth and with
\* nothing left but what a failed teardown needs.
THEOREM WorkersAreTakenDown ==
  WorkerSpec => [](TypeOK /\ NoDanglingUse /\ FacadesTellTheTruth /\ NothingOutlivesTheHost)
<1>1. WorkerInit => IInv /\ ScriptOK
  BY Initially DEF WorkerInit, ScriptOK
<1>2. IInv => TypeOK /\ NoDanglingUse /\ FacadesTellTheTruth /\ NothingOutlivesTheHost
  BY TruthfulFacades, CleanHosts DEF IInv, NoDanglingUse
<1>3. QED  BY <1>1, <1>2, WorkerSteps, PTL DEF WorkerSpec
===============================================================================
