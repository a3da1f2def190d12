---------------------------- MODULE WorkerTeardown -----------------------------
(***************************************************************************)
(* A worker that is terminated with its nodes and signers in its hands,    *)
(* and a parent that opens the same signer store right after               *)
(* (src/test-worker-teardown.js, one cycle of it).                         *)
(*                                                                         *)
(* The worker's environment is HostLifecycle's.  It follows one of the     *)
(* scripts of the test, or calls whatever it likes in whatever order.      *)
(***************************************************************************)
EXTENDS HostLifecycle, Naturals, Sequences

CONSTANTS
  TheNode,   \* the node the scripts make
  TheSigner  \* the signer, whose store the parent opens again

ASSUME WorkerAssumption == TheNode \in Node /\ TheSigner \in Signer

VARIABLES
  mode,     \* what the worker does
  step,     \* the next statement of its script
  worker,   \* whether its environment runs, ends or has ended
  posted,   \* events of the worker the parent has not seen, in their order
  parent,   \* where the parent is
  outcome   \* how its wait for the worker has ended

script == <<mode, step>>
program == <<script, worker, posted, parent, outcome>>
world == <<vars, program>>

Mode == {"signer-only", "initialized", "early-host-free", "graceful", "any"}
Ended == {"passed", "failed", "refused"}

(***************************************************************************)
(* The worker.                                                             *)
(***************************************************************************)

\* The parent sees an event only while it listens.
Emit(event) == posted' = IF parent = "waiting" THEN Append(posted, event) ELSE posted

\* The statements of a mode; a worker with none calls what it likes.
Script(m) ==
  LET attached == <<"create signer", "bootstrap", "create node", "init", "attach">>
  IN  CASE m = "signer-only" -> <<"create signer", "bootstrap">>
        [] m = "initialized" -> attached
        [] m = "early-host-free" -> attached \o <<"destroy signer", "drop signer">>
        [] m = "graceful" ->
             attached \o <<"shutdown node", "shutdown signer", "destroy signer">>
        [] m = "any" -> <<>>

Call(statement) ==
  CASE statement = "create signer" -> CreateSigner(TheSigner)
    [] statement = "bootstrap" -> CallSigner(TheSigner)
    [] statement = "create node" -> CreateNode(TheNode)
    [] statement = "init" -> CallNode(TheNode)
    [] statement = "attach" -> Attach(TheNode, TheSigner)
    [] statement = "destroy signer" -> DestroySigner(TheSigner)
    [] statement = "drop signer" -> Lose(TheSigner)
    [] statement = "shutdown node" -> ShutdownNode(TheNode)
    [] statement = "shutdown signer" -> ShutdownSigner(TheSigner)

\* What a statement has done when it returns rather than throws.
Returned(statement) ==
  CASE statement = "attach" -> retained'[TheNode] = TheSigner
    [] statement = "shutdown node" -> TheNode \in closed'
    [] statement = "shutdown signer" -> TheSigner \in shut'
    [] OTHER -> TRUE

Busy == worker = "running" /\ (mode = "any" \/ step <= Len(Script(mode)))

RunStatement ==
  /\ Busy /\ mode # "any"
  /\ Call(Script(mode)[step])
  /\ worker' = IF Returned(Script(mode)[step]) THEN "running" ELSE "throwing"
  /\ step' = step + 1
  /\ UNCHANGED <<mode, posted, parent, outcome>>

RunAnything ==
  /\ Busy /\ mode = "any"
  /\ Next
  /\ UNCHANGED program

\* At the end of its script the worker posts its answer, and stays alive.
Post ==
  /\ worker = "running" /\ step = Len(Script(mode)) + 1
  /\ Emit("message")
  /\ step' = step + 1
  /\ UNCHANGED <<vars, mode, worker, parent, outcome>>

\* The environment ends: nothing refers to its objects any more.
EndEnvironment ==
  /\ worker' = "ended"
  /\ object' = [o \in Object |-> IF object[o] = "held" THEN "lost" ELSE object[o]]
  /\ UNCHANGED <<facade, handle, heap, native, fault>>

\* A statement throws, at once or after what it did, and nothing catches it.
Throw ==
  /\ Busy \/ worker = "throwing"
  /\ EndEnvironment
  /\ Emit("error")
  /\ UNCHANGED <<script, parent, outcome>>

\* A worker with nothing left to do, or that says so, exits.
Quit ==
  /\ Busy /\ mode = "any"
  /\ EndEnvironment
  /\ UNCHANGED <<script, posted, parent, outcome>>

\* Finalisers run when objects are collected, and for all when the environment
\* ends.
Finalise ==
  /\ worker \in {"running", "ended"}
  /\ (\E n \in Node : FinaliseNode(n)) \/ (\E s \in Signer : FinaliseSigner(s))
  /\ UNCHANGED program

Exit ==
  /\ worker = "ended"
  /\ \A o \in Object : object[o] \in {"unmade", "gone"}
  /\ worker' = "exited"
  /\ Emit("exit")
  /\ UNCHANGED <<vars, script, parent, outcome>>

(***************************************************************************)
(* The parent.                                                             *)
(***************************************************************************)

\* The wait ends with a result, its listeners go, and the finally block calls
\* terminate(), which stops a worker that still runs.
Settled(result) ==
  /\ parent = "waiting"
  /\ outcome' = result
  /\ parent' = "terminating"
  /\ posted' = <<>>
  /\ IF worker \in {"running", "throwing"} THEN EndEnvironment ELSE UNCHANGED <<vars, worker>>
  /\ UNCHANGED script

\* The first event decides; the timer may fire before it, or before it is seen.
Settle ==
  /\ posted # <<>>
  /\ Settled(IF Head(posted) = "message" THEN "ready" ELSE "failed")

Timeout == Settled("failed")

\* Mutation: the parent does not await the termination.
Terminated_NotAwaited ==
  /\ parent = "terminating"
  /\ parent' = IF outcome = "ready" THEN "reopening" ELSE "failed"
  /\ UNCHANGED <<vars, script, worker, posted, outcome>>

\* Its promise is kept once the worker has exited; a failure is then thrown.
Terminated ==
  /\ parent = "terminating" /\ worker = "exited"
  /\ parent' = IF outcome = "ready" THEN "reopening" ELSE "failed"
  /\ UNCHANGED <<vars, script, worker, posted, outcome>>

\* The store is opened at once, without a retry, and closed again.
Reopen ==
  /\ parent = "reopening"
  /\ parent' = IF Alive(TheSigner) THEN "refused" ELSE "passed"
  /\ UNCHANGED <<vars, script, worker, posted, outcome>>

-------------------------------------------------------------------------------
Work == RunStatement \/ RunAnything \/ Post \/ Throw \/ Quit \/ Finalise \/ Exit
Watch == Settle \/ Timeout \/ Terminated \/ Reopen

WorkerInit ==
  /\ Init
  /\ mode \in Mode
  /\ step = 1 /\ worker = "running"
  /\ posted = <<>> /\ parent = "waiting" /\ outcome = "none"

\* The parent's loop runs, its timer fires, and an environment that has ended
\* is taken down.
WorkerSpec ==
  /\ WorkerInit /\ [][Work \/ Watch]_world
  /\ WF_world(Watch)
  /\ WF_world(worker = "ended" /\ (Finalise \/ Exit))

\* A worker terminated in whatever state is taken down, and a parent that saw it
\* ready opens its signer's store at once and at the first attempt, unless a node
\* whose teardown failed keeps the signer; and always when the worker had no
\* node, or had shut it down ("No GC request, sleep, retry or process restart").
TeardownCompletes ==
  /\ <>(parent \in Ended)
  /\ (outcome = "ready") ~> (parent = "passed" \/ \E n \in failed : retained[n] = TheSigner)
  /\ (outcome = "ready" /\ mode \in {"signer-only", "graceful"}) ~> (parent = "passed")
===============================================================================
