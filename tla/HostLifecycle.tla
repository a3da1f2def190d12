---------------------------- MODULE HostLifecycle -----------------------------
(***************************************************************************)
(* Nodes and signers as a JavaScript host has them: a facade object with   *)
(* flags (src/index.js), the addon object it wraps, which owns a native    *)
(* handle (src/src/lib.rs), and the allocation behind the handle.          *)
(*                                                                         *)
(* The host may make any call in any order and lose any reference.  An     *)
(* environment that ends, as a terminated worker does, loses all of them.  *)
(* Addon objects that nothing refers to are finalised in any order.  Calls *)
(* of one environment do not overlap, and environments share no object.    *)
(***************************************************************************)

CONSTANTS
  Node,    \* nodes the host creates
  Signer,  \* in-process signers the host creates
  None     \* a null handle, no signer

Object == Node \cup Signer

ASSUME HostAssumption ==
  /\ Node \cap Signer = {}
  /\ None \notin Object

VARIABLES
  object,     \* whether an addon object exists and the host refers to it
  closed,     \* facade: nodes that are _closed
  destroyed,  \* facade: signers that are _destroyed
  shut,       \* facade: signers that are _shutdown
  handle,     \* what the handle of an addon object points to
  heap,       \* the native allocations
  tasks,      \* nodes whose native tasks may run
  failed,     \* nodes with a failed terminal teardown, whose outcome is kept
  retained,   \* the signer a node has a clone of
  revoked,    \* signers whose state is destroyed
  fault       \* history: a dangling handle has been used or freed

facade == <<closed, destroyed, shut>>
native == <<tasks, failed, retained, revoked>>
vars == <<object, facade, handle, heap, native, fault>>

TypeOK ==
  /\ object \in [Object -> {"unmade", "held", "lost", "gone"}]
  /\ closed \subseteq Node /\ destroyed \subseteq Signer /\ shut \subseteq Signer
  /\ handle \in [Object -> Object \cup {None}]
  /\ heap \subseteq Object
  /\ \A o \in heap : object[o] # "unmade"
  /\ tasks \subseteq Node /\ failed \subseteq Node
  /\ retained \in [Node -> Signer \cup {None}]
  /\ revoked \subseteq Signer
  /\ fault \in BOOLEAN

Init ==
  /\ object = [o \in Object |-> "unmade"]
  /\ closed = {} /\ destroyed = {} /\ shut = {}
  /\ handle = [o \in Object |-> None]
  /\ heap = {} /\ tasks = {} /\ failed = {}
  /\ retained = [n \in Node |-> None]
  /\ revoked = {}
  /\ fault = FALSE

\* A native function looks into what it is given, unless that is null.
Uses(handles) == fault' = (fault \/ \E h \in handles : h \notin heap \cup {None})

\* A signer has its state while somebody has a clone and nobody revoked it.
Alive(s) == s \notin revoked /\ (s \in heap \/ \E n \in Node : retained[n] = s)

(***************************************************************************)
(* Nodes.                                                                  *)
(***************************************************************************)

\* Mutation: a node that failed to start is not freed.
CreateNode_Leaks(n) ==
  /\ object[n] = "unmade"
  /\ heap' = heap \cup {n} /\ tasks' = tasks \cup {n}
  /\ \/ /\ object' = [object EXCEPT ![n] = "held"]
        /\ handle' = [handle EXCEPT ![n] = n]
     \/ UNCHANGED <<object, handle>>
  /\ UNCHANGED <<facade, failed, retained, revoked, fault>>

\* SdkNode.create; when it throws there is nothing.
CreateNode(n) ==
  /\ object[n] = "unmade"
  /\ heap' = heap \cup {n} /\ tasks' = tasks \cup {n}
  /\ object' = [object EXCEPT ![n] = "held"]
  /\ handle' = [handle EXCEPT ![n] = n]
  /\ UNCHANGED <<facade, failed, retained, revoked, fault>>

\* A call forwarded to the node; a closed facade has nothing to forward to.
CallNode(n) ==
  /\ object[n] = "held" /\ n \notin closed
  /\ Uses({handle[n]})
  /\ UNCHANGED <<object, facade, handle, heap, native>>

\* Attaching to or unlocking with a signer gives the node a clone, if both
\* handles are there, the signer answers and the node is not shutting down.
Attach(n, s) ==
  /\ object[n] = "held" /\ n \notin closed /\ object[s] = "held"
  /\ Uses({handle[n], handle[s]})
  /\ \/ /\ handle[n] # None /\ handle[s] # None
        /\ s \notin revoked /\ n \notin failed
        /\ retained' = [retained EXCEPT ![n] = s]
     \/ UNCHANGED retained
  /\ UNCHANGED <<object, facade, handle, heap, tasks, failed, revoked>>

Detach(n) ==
  /\ object[n] = "held" /\ n \notin closed
  /\ Uses({handle[n]})
  /\ retained' = [retained EXCEPT ![n] = None]
  /\ UNCHANGED <<object, facade, handle, heap, tasks, failed, revoked>>

\* A failed terminal teardown may leave tasks, and is not attempted again.
TeardownFails(n) ==
  /\ failed' = failed \cup {n}
  /\ UNCHANGED <<heap, tasks, retained, revoked>>

\* A complete one leaves no task, and the node is freed with all it retains.
TornDown(n) ==
  /\ n \notin failed
  /\ tasks' = tasks \ {n} /\ heap' = heap \ {n}
  /\ retained' = [retained EXCEPT ![n] = None]
  /\ UNCHANGED <<failed, revoked>>

\* Mutation: the facade forgets its node before it knows how the shutdown ends.
ShutdownNode_Eager(n) ==
  /\ object[n] = "held" /\ n \notin closed
  /\ Uses({handle[n]})
  /\ \/ TeardownFails(n) /\ UNCHANGED handle
     \/ TornDown(n) /\ handle' = [handle EXCEPT ![n] = None]
  /\ closed' = closed \cup {n}
  /\ UNCHANGED <<object, destroyed, shut>>

\* Mutation: the freed handle stays in the addon object.
ShutdownNode_KeepsHandle(n) ==
  /\ object[n] = "held" /\ n \notin closed
  /\ Uses({handle[n]})
  /\ \/ TeardownFails(n) /\ UNCHANGED closed
     \/ TornDown(n) /\ closed' = closed \cup {n}
  /\ UNCHANGED <<object, destroyed, shut, handle>>

\* shutdown of facade and addon: a failure keeps the handle, for a retry.
ShutdownNode(n) ==
  /\ object[n] = "held" /\ n \notin closed
  /\ Uses({handle[n]})
  /\ \/ TeardownFails(n) /\ UNCHANGED <<handle, closed>>
     \/ /\ TornDown(n)
        /\ handle' = [handle EXCEPT ![n] = None]
        /\ closed' = closed \cup {n}
  /\ UNCHANGED <<object, destroyed, shut>>

\* Mutation: the finaliser frees the node however its shutdown ended.
FinaliseNode_Frees(n) ==
  /\ object[n] = "lost" \/ (object[n] = "held" /\ n \in closed)
  /\ object' = [object EXCEPT ![n] = "gone"]
  /\ Uses({handle[n]})
  /\ heap' = heap \ {n}
  /\ handle' = [handle EXCEPT ![n] = None]
  /\ retained' = [retained EXCEPT ![n] = None]
  /\ IF handle[n] = None THEN UNCHANGED <<tasks, failed>>
     ELSE \/ tasks' = tasks \ {n} /\ UNCHANGED failed
          \/ failed' = failed \cup {n} /\ UNCHANGED tasks
  /\ UNCHANGED <<facade, revoked>>

\* Drop for SdkNode: it shuts the node down itself, and leaks one it cannot.
FinaliseNode(n) ==
  /\ object[n] = "lost" \/ (object[n] = "held" /\ n \in closed)
  /\ object' = [object EXCEPT ![n] = "gone"]
  /\ Uses({handle[n]})
  /\ \/ handle[n] = None /\ UNCHANGED <<handle, heap, native>>
     \/ handle[n] # None /\ TeardownFails(n) /\ UNCHANGED handle
     \/ handle[n] # None /\ TornDown(n) /\ handle' = [handle EXCEPT ![n] = None]
  /\ UNCHANGED facade

(***************************************************************************)
(* Signers.                                                                *)
(***************************************************************************)

CreateSigner(s) ==
  /\ object[s] = "unmade"
  /\ heap' = heap \cup {s}
  /\ object' = [object EXCEPT ![s] = "held"]
  /\ handle' = [handle EXCEPT ![s] = s]
  /\ UNCHANGED <<facade, native, fault>>

\* bootstrap; a destroyed facade throws.
CallSigner(s) ==
  /\ object[s] = "held" /\ s \notin destroyed
  /\ Uses({handle[s]})
  /\ UNCHANGED <<object, facade, handle, heap, native>>

\* shutdown revokes all clones; only a normal return is remembered.
ShutdownSigner(s) ==
  /\ object[s] = "held" /\ s \notin shut \cup destroyed
  /\ Uses({handle[s]})
  /\ IF handle[s] = None
       THEN UNCHANGED <<revoked, shut>>
       ELSE /\ revoked' = revoked \cup {s}
            /\ shut' \in {shut, shut \cup {s}}
  /\ UNCHANGED <<object, closed, destroyed, handle, heap, tasks, failed, retained>>

FreeSigner(s) ==
  /\ Uses({handle[s]})
  /\ heap' = heap \ {handle[s]}
  /\ handle' = [handle EXCEPT ![s] = None]

\* destroy gives the host's clone up.
DestroySigner(s) ==
  /\ object[s] = "held" /\ s \notin destroyed
  /\ FreeSigner(s)
  /\ destroyed' = destroyed \cup {s}
  /\ UNCHANGED <<object, closed, shut, native>>

\* Mutation: the finaliser leaves the handle to an explicit destroy.
FinaliseSigner_Keeps(s) ==
  /\ object[s] = "lost"
  /\ object' = [object EXCEPT ![s] = "gone"]
  /\ UNCHANGED <<facade, handle, heap, native, fault>>

\* Drop for NativeExternalSigner.
FinaliseSigner(s) ==
  /\ object[s] = "lost"
  /\ object' = [object EXCEPT ![s] = "gone"]
  /\ FreeSigner(s)
  /\ UNCHANGED <<facade, native>>

\* The host, or the end of its environment, drops a reference.
Lose(o) ==
  /\ object[o] = "held"
  /\ object' = [object EXCEPT ![o] = "lost"]
  /\ UNCHANGED <<facade, handle, heap, native, fault>>

-------------------------------------------------------------------------------
NodeStep(n) ==
  \/ CreateNode(n) \/ CallNode(n) \/ Detach(n)
  \/ \E s \in Signer : Attach(n, s)
  \/ ShutdownNode(n) \/ FinaliseNode(n)

SignerStep(s) ==
  \/ CreateSigner(s) \/ CallSigner(s)
  \/ ShutdownSigner(s) \/ DestroySigner(s) \/ FinaliseSigner(s)

Next ==
  \/ \E n \in Node : NodeStep(n)
  \/ \E s \in Signer : SignerStep(s)
  \/ \E o \in Object : Lose(o)

Spec == Init /\ [][Next]_vars

-------------------------------------------------------------------------------
(***************************************************************************)
(* Properties                                                              *)
(***************************************************************************)

\* No order of calls, failures, lost references and finalisers makes native
\* code use or free an allocation that is gone: every free is followed by a null
\* handle before anything else can look, and no free takes the state of native
\* tasks from under them ("An unsuccessful shutdown must not free state still
\* used by native tasks").
NoDanglingUse == ~fault /\ tasks \subseteq heap

\* A facade says what is natively so: a closed node has no task and no
\* allocation, any other still has the handle to retry its shutdown with; a
\* signer that says it is shut down is revoked, one not destroyed can be shut
\* down.
FacadesTellTheTruth ==
  /\ \A n \in Node : object[n] = "held" =>
       IF n \in closed THEN n \notin tasks \cup heap ELSE handle[n] = n /\ n \in heap
  /\ \A s \in Signer : object[s] = "held" =>
       /\ s \in shut => s \in revoked
       /\ s \notin destroyed => handle[s] = s /\ s \in heap

\* Once all objects of an environment are finalised, in whatever order, its
\* signers' state is gone and their stores can be opened again, unless a node
\* that could not be torn down still has a clone.
NothingOutlivesTheHost ==
  (\A o \in Object : object[o] \in {"unmade", "gone"}) =>
    /\ heap \subseteq failed
    /\ \A s \in Signer : Alive(s) => \E n \in failed : retained[n] = s
===============================================================================
