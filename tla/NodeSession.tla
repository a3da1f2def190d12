---------------------------- MODULE NodeSession ----------------------------
(***************************************************************************)
(* The life of a node's session: the registries that own its workers, its   *)
(* startup with rollback, and its teardown by concurrent callers            *)
(* (SessionTasks, start_lightning, stop_node and NodeHandle::shutdown of    *)
(* the native overlay).                                                     *)
(*                                                                          *)
(* A node runs one session at a time, under a remote writer fence that      *)
(* keeps a second device from writing the same state.  The session's work   *)
(* is done by futures registered in two registries: "tasks" (listener,      *)
(* dialers, peer connections, pollers) and "completions" (broadcasts and    *)
(* monitor writes), by the background processor, and by host calls that     *)
(* hold the API mutex.  Teardown must end all of it, report every failure   *)
(* and only then give the fence away.                                       *)
(*                                                                          *)
(* Closing a registry and cancelling its token are one step here: whatever  *)
(* sees the one before the other behaves as if it had run earlier.          *)
(***************************************************************************)

CONSTANTS
    Callers,      \* host threads that unlock, use, lock and shut down the node
    Listener,     \* the task that accepts inbound peers
    Dialers,      \* tasks that connect to peers
    Pollers,      \* tasks that hold no connection: chain sync, sweeps, fees
    Peers,        \* connection futures, one per peer connection
    Completions,  \* broadcasts and asynchronous monitor writes
    Outages,      \* whether remote storage may stop answering
    None          \* nobody, nothing

Openers == {Listener} \cup Dialers
Workers == Openers \cup Pollers \cup Peers \cup Completions

ASSUME WorkersAreDistinct ==
    /\ Openers \cap (Pollers \cup Peers \cup Completions) = {}
    /\ Listener \notin Dialers
    /\ Pollers \cap (Peers \cup Completions) = {}
    /\ Peers \cap Completions = {}
    /\ None \notin Callers \cup Workers

ASSUME OutagesIsABound == Outages \in BOOLEAN

Kinds == {"tasks", "completions"}

VARIABLES
    cancelled,  \* the node's cancel token: terminal shutdown has begun
    changing,   \* an unlock or a lock owns the state change
    session,    \* the published session: "none", "wallet" (no Lightning) or "lightning"
    user,       \* the caller holding the API mutex for a wallet operation
    fence,      \* the remote writer fence: "free", or "held" by this node
    db,         \* the metadata database pool
    reg,        \* the registries: admission, owned handles, recorded failures
    state,      \* what each worker's future is doing
    busy,       \* the connection an opener has in hand
    link,       \* whether the peer manager has a connection's socket open
    retained,   \* the network adapter's hidden event worker keeps the managers alive
    bp,         \* the background processor
    stores,     \* whether the persistence stores still retry: "open" or "stopped"
    outage,     \* remote storage does not answer
    teardown,   \* holder of the teardown mutex
    outcome,    \* the outcome cached under it
    pc,         \* where each caller is
    call,       \* the operation it has called
    took,       \* the session a stop took out of the node
    mine,       \* the handles a join took out of a registry
    errs,       \* cleanup_errors is not empty
    finished,   \* some shutdown has returned Ok
    broken,     \* some part of the current session has failed
    slipped     \* an unlock admitted earlier began in spite of what came since

nodeVars == <<cancelled, changing, session, user, fence, db>>
workVars == <<reg, state, busy, link, retained>>
storeVars == <<bp, stores, outage>>
stopVars == <<teardown, outcome>>
callVars == <<pc, call, took, mine, errs>>
ghostVars == <<finished, broken, slipped>>
vars == <<nodeVars, workVars, storeVars, stopVars, callVars, ghostVars>>

CallerStates ==
    {"idle", "api", "checked", "preparing", "starting", "serving", "polling", "enter", "take",
     "tasks", "tasksWait", "processor", "stores", "completions", "completionsWait",
     "managers", "fence", "database", "record"}

TypeOK ==
    /\ cancelled \in BOOLEAN /\ changing \in BOOLEAN
    /\ session \in {"none", "wallet", "lightning"}
    /\ user \in Callers \cup {None}
    /\ fence \in {"free", "held"}
    /\ db \in {"open", "closed"}
    /\ reg \in [Kinds -> [closed : BOOLEAN, handles : SUBSET Workers, failed : BOOLEAN]]
    /\ state \in [Workers ->
                    {"idle", "accepted", "open", "inline", "running", "ended", "panicked"}]
    /\ busy \in [Openers -> Peers \cup {None}]
    /\ link \in [Peers -> BOOLEAN]
    /\ retained \in BOOLEAN
    /\ bp \in {"none", "running", "told", "ended", "failed"}
    /\ stores \in {"open", "stopped"}
    /\ outage \in BOOLEAN
    /\ teardown \in Callers \cup {None}
    /\ outcome \in {"none", "ok", "err"}
    /\ pc \in [Callers -> CallerStates]
    /\ call \in [Callers -> {"none", "api", "unlock", "lock", "shutdown", "retry"}]
    /\ took \in [Callers -> {"none", "wallet", "lightning"}]
    /\ mine \in [Callers -> SUBSET Workers]
    /\ errs \in [Callers -> BOOLEAN]
    /\ finished \in BOOLEAN /\ broken \in BOOLEAN /\ slipped \in BOOLEAN

NewRegistry == [closed |-> FALSE, handles |-> {}, failed |-> FALSE]

Init ==
    /\ cancelled = FALSE /\ changing = FALSE
    /\ session = "none" /\ user = None
    /\ fence = "free" /\ db = "open"
    /\ reg = [k \in Kinds |-> [NewRegistry EXCEPT !.closed = TRUE]]
    /\ state = [w \in Workers |-> "idle"]
    /\ busy = [o \in Openers |-> None]
    /\ link = [w \in Peers |-> FALSE]
    /\ retained = FALSE
    /\ bp = "none" /\ stores = "stopped" /\ outage = FALSE
    /\ teardown = None /\ outcome = "none"
    /\ pc = [c \in Callers |-> "idle"]
    /\ call = [c \in Callers |-> "none"]
    /\ took = [c \in Callers |-> "none"]
    /\ mine = [c \in Callers |-> {}]
    /\ errs = [c \in Callers |-> FALSE]
    /\ finished = FALSE /\ broken = FALSE /\ slipped = FALSE

-----------------------------------------------------------------------------
(* The registries of owned futures.                                         *)

Goto(c, label) == pc' = [pc EXCEPT ![c] = label]

Changes == {"unlock", "lock"}

\* A call returns to the host.  An unlock or a lock that slipped in is forgotten
\* when the last of them is over before any shutdown has begun.
Finish(c) ==
    /\ Goto(c, "idle")
    /\ call' = [call EXCEPT ![c] = "none"]
    /\ slipped' = (slipped /\ (cancelled \/ \E d \in Callers \ {c} : call[d] \in Changes))

Closing == reg["tasks"].closed

Panicked(S) == \E w \in S : state[w] = "panicked"

Over(w) == state[w] \in {"ended", "panicked"}

\* Mutation: reaping forgets how a finished worker ended.
Spawned_DropsPanic(k, S) ==
    [reg EXCEPT ![k] = [closed  |-> FALSE,
                        handles |-> {h \in @.handles : ~Over(h)} \cup S,
                        failed  |-> @.failed]]

\* spawn under the registry's mutex: finished handles are reaped, a panic
\* among them is kept as a failure, and the new future is owned.
Spawned(k, S) ==
    [reg EXCEPT ![k] = [closed  |-> FALSE,
                        handles |-> {h \in @.handles : ~Over(h)} \cup S,
                        failed  |-> @.failed \/ Panicked(@.handles)]]

\* The part of join before the awaits: close admission, take everything.
JoinTakes(c, k) ==
    /\ mine' = [mine EXCEPT ![c] = reg[k].handles]
    /\ errs' = [errs EXCEPT ![c] = @ \/ reg[k].failed]
    /\ reg' = [reg EXCEPT ![k] = [closed |-> TRUE, handles |-> {}, failed |-> FALSE]]

\* The part after them: every handle taken is over and goes with its future, and
\* a failure reported during the awaits is collected too.
JoinEnds(c, k) ==
    /\ \A w \in mine[c] : Over(w)
    /\ mine' = [mine EXCEPT ![c] = {}]
    /\ state' = [w \in Workers |-> IF w \in mine[c] THEN "idle" ELSE state[w]]
    /\ errs' = [errs EXCEPT ![c] = @ \/ Panicked(mine[c]) \/ reg[k].failed]
    /\ reg' = [reg EXCEPT ![k].failed = FALSE]

Disconnected == [w \in Peers |-> FALSE]

-----------------------------------------------------------------------------
(* The session's workers.                                                   *)

Starting == \E c \in Callers : pc[c] = "starting"

\* Startup, and later the event handler inside the background processor,
\* register tasks; a refused future is dropped without having run.
SpawnPoller(w) ==
    /\ state[w] = "idle"
    /\ Starting \/ bp = "running"
    /\ ~Closing
    /\ reg' = Spawned("tasks", {w})
    /\ state' = [state EXCEPT ![w] = "running"]
    /\ UNCHANGED <<nodeVars, busy, link, retained, storeVars, stopVars, callVars, ghostVars>>

\* Broadcasts and monitor writes come from any part of the session that runs.
SpawnCompletion(w) ==
    /\ state[w] = "idle"
    /\ \/ Starting
       \/ bp \in {"running", "told"}
       \/ user # None /\ session = "lightning"
       \/ \E t \in Workers \ Completions : state[t] = "running"
    /\ ~reg["completions"].closed
    /\ reg' = Spawned("completions", {w})
    /\ state' = [state EXCEPT ![w] = "running"]
    /\ UNCHANGED <<nodeVars, busy, link, retained, storeVars, stopVars, callVars, ghostVars>>

\* An opener takes an inbound stream, or starts an outbound connection, only
\* while its token is not cancelled.
Accept(o, w) ==
    /\ state[o] = "running" /\ busy[o] = None
    /\ ~Closing
    /\ state[w] = "idle"
    /\ busy' = [busy EXCEPT ![o] = w]
    /\ state' = [state EXCEPT ![w] = "accepted"]
    /\ UNCHANGED <<nodeVars, reg, link, retained, storeVars, stopVars, callVars, ghostVars>>

\* The peer manager learns of the connection; from here only a disconnect, by
\* either side, ends the connection's future.
SetUp(o) ==
    LET w == busy[o] IN
    /\ w # None /\ state[w] = "accepted"
    /\ state' = [state EXCEPT ![w] = "open"]
    /\ link' = [link EXCEPT ![w] = TRUE]
    /\ retained' = TRUE
    /\ UNCHANGED <<nodeVars, reg, busy, storeVars, stopVars, callVars, ghostVars>>

\* A dialer cancelled before it is connected drops the attempt.
GiveUp(o) ==
    LET w == busy[o] IN
    /\ o \in Dialers
    /\ w # None /\ state[w] = "accepted"
    /\ Closing
    /\ state' = [state EXCEPT ![w] = "idle"]
    /\ busy' = [busy EXCEPT ![o] = None]
    /\ UNCHANGED <<nodeVars, reg, link, retained, storeVars, stopVars, callVars, ghostVars>>

\* Mutation: the opener awaits a refused future without disconnecting it.
HandOver_NoDisconnect(o) ==
    LET w == busy[o] IN
    /\ w # None /\ state[w] = "open"
    /\ \/ /\ ~Closing
          /\ reg' = Spawned("tasks", {w})
          /\ state' = [state EXCEPT ![w] = "running"]
          /\ busy' = [busy EXCEPT ![o] = None]
       \/ /\ Closing
          /\ state' = [state EXCEPT ![w] = "inline"]
          /\ UNCHANGED <<reg, busy>>
    /\ UNCHANGED <<nodeVars, link, retained, storeVars, stopVars, callVars, ghostVars>>

\* Mutation: spawn does not ask whether the registry is closed.
HandOver_IgnoresClose(o) ==
    LET w == busy[o] IN
    /\ w # None /\ state[w] = "open"
    /\ reg' = [reg EXCEPT !["tasks"].handles = @ \cup {w}]
    /\ state' = [state EXCEPT ![w] = "running"]
    /\ busy' = [busy EXCEPT ![o] = None]
    /\ UNCHANGED <<nodeVars, link, retained, storeVars, stopVars, callVars, ghostVars>>

\* The connection's future goes to the registry, or, when that is closed, all
\* peers are disconnected and the opener awaits the future itself.
HandOver(o) ==
    LET w == busy[o] IN
    /\ w # None /\ state[w] = "open"
    /\ \/ /\ ~Closing
          /\ reg' = Spawned("tasks", {w})
          /\ state' = [state EXCEPT ![w] = "running"]
          /\ busy' = [busy EXCEPT ![o] = None]
          /\ UNCHANGED link
       \/ /\ Closing
          /\ link' = Disconnected
          /\ state' = [state EXCEPT ![w] = "inline"]
          /\ UNCHANGED <<reg, busy>>
    /\ UNCHANGED <<nodeVars, retained, storeVars, stopVars, callVars, ghostVars>>

\* The opener goes on once the future it awaits is over, a dialer also when
\* its connection closes before it is usable.
ConnectionClosed(o) ==
    LET w == busy[o] IN
    /\ w # None
    /\ state[w] = "inline" \/ (o \in Dialers /\ state[w] = "open")
    /\ ~link[w]
    /\ state' = [state EXCEPT ![w] = "idle"]
    /\ busy' = [busy EXCEPT ![o] = None]
    /\ UNCHANGED <<nodeVars, reg, link, retained, storeVars, stopVars, callVars, ghostVars>>

PeerEnds(w) ==
    /\ state[w] = "running" /\ ~link[w]
    /\ state' = [state EXCEPT ![w] = "ended"]
    /\ UNCHANGED <<nodeVars, reg, busy, link, retained, storeVars, stopVars, callVars, ghostVars>>

\* Cancelled openers finish what they have in hand and end; the listener
\* disconnects once more, for a peer it let in during the first disconnect.
OpenerEnds(o) ==
    /\ state[o] = "running" /\ busy[o] = None
    /\ Closing
    /\ state' = [state EXCEPT ![o] = "ended"]
    /\ link' = IF o = Listener THEN Disconnected ELSE link
    /\ UNCHANGED <<nodeVars, reg, busy, retained, storeVars, stopVars, callVars, ghostVars>>

PollerEnds(w) ==
    /\ state[w] = "running"
    /\ state' = [state EXCEPT ![w] = "ended"]
    /\ UNCHANGED <<nodeVars, reg, busy, link, retained, storeVars, stopVars, callVars, ghostVars>>

\* A completion may wait for remote storage until the stores give up retrying.
CompletionEnds(w) ==
    /\ state[w] = "running"
    /\ ~outage \/ stores = "stopped"
    /\ state' = [state EXCEPT ![w] = "ended"]
    /\ UNCHANGED <<nodeVars, reg, busy, link, retained, storeVars, stopVars, callVars, ghostVars>>

WorkerPanics(w) ==
    /\ state[w] = "running"
    /\ w \in Openers => busy[w] = None
    /\ state' = [state EXCEPT ![w] = "panicked"]
    /\ broken' = TRUE
    /\ UNCHANGED <<nodeVars, reg, busy, link, retained, storeVars, stopVars, callVars, finished, slipped>>

\* A fatal accept error is recorded in the registry and stops the whole node.
ListenerFails ==
    /\ state[Listener] = "running" /\ busy[Listener] = None
    /\ reg' = [reg EXCEPT !["tasks"].failed = TRUE]
    /\ cancelled' = TRUE
    /\ state' = [state EXCEPT ![Listener] = "ended"]
    /\ link' = Disconnected
    /\ broken' = TRUE
    /\ UNCHANGED <<changing, session, user, fence, db, busy, retained, storeVars, stopVars,
                   callVars, finished, slipped>>

\* The background processor persists a last time after it was told to exit.
ProcessorFlushes ==
    /\ bp = "told"
    /\ ~outage \/ stores = "stopped"
    /\ bp' = "ended"
    /\ UNCHANGED <<nodeVars, workVars, stores, outage, stopVars, callVars, ghostVars>>

ProcessorFails ==
    /\ bp \in {"running", "told"}
    /\ bp' = "failed"
    /\ broken' = TRUE
    /\ UNCHANGED <<nodeVars, workVars, stores, outage, stopVars, callVars, finished, slipped>>

\* Outside the node: a peer goes away, the hidden event worker of a closed
\* connection gets its last turn, remote storage stops or resumes answering.
LinkDrops(w) ==
    /\ link[w]
    /\ link' = [link EXCEPT ![w] = FALSE]
    /\ UNCHANGED <<nodeVars, reg, state, busy, retained, storeVars, stopVars, callVars, ghostVars>>

ManagersReleased ==
    /\ retained
    /\ \A w \in Peers : ~link[w]
    /\ retained' = FALSE
    /\ UNCHANGED <<nodeVars, reg, state, busy, link, storeVars, stopVars, callVars, ghostVars>>

OutageTurns ==
    /\ Outages
    /\ outage' = ~outage
    /\ UNCHANGED <<nodeVars, workVars, bp, stores, stopVars, callVars, ghostVars>>

-----------------------------------------------------------------------------
(* Wallet operations and startup.                                           *)

Admitted == ~cancelled /\ ~changing

UseWallet(c) ==
    /\ pc[c] = "idle" /\ Admitted
    /\ session # "none" /\ user = None
    /\ user' = c
    /\ Goto(c, "api")
    /\ call' = [call EXCEPT ![c] = "api"]
    /\ UNCHANGED <<cancelled, changing, session, fence, db, workVars, storeVars, stopVars,
                   took, mine, errs, ghostVars>>

UseEnds(c) ==
    /\ pc[c] = "api"
    /\ user' = None
    /\ Finish(c)
    /\ UNCHANGED <<cancelled, changing, session, fence, db, workVars, storeVars, stopVars,
                   took, mine, errs, finished, broken>>

\* An unlock and a lock look whether they may change the state.
Ask(c, name) ==
    /\ pc[c] = "idle" /\ Admitted
    /\ Goto(c, "checked")
    /\ call' = [call EXCEPT ![c] = name]
    /\ UNCHANGED <<nodeVars, workVars, storeVars, stopVars, took, mine, errs, ghostVars>>

Unlock(c) == session = "none" /\ Ask(c, "unlock")

\* The REST lock: a nonterminal stop of a published session.
Lock(c) == session # "none" /\ Ask(c, "lock")

\* They take the change once the API mutex is theirs.  What happened since they
\* looked is not noticed, unless the session has come or gone.
BeginChange(c) ==
    /\ pc[c] = "checked" /\ user = None
    /\ IF (call[c] = "unlock") = (session = "none")
       THEN /\ changing' = TRUE
            /\ slipped' = (slipped \/ changing \/ cancelled)
            /\ Goto(c, IF call[c] = "unlock" THEN "preparing" ELSE "enter")
            /\ UNCHANGED call
       ELSE Finish(c) /\ UNCHANGED changing
    /\ UNCHANGED <<cancelled, session, user, fence, db, workVars, storeVars, stopVars,
                   took, mine, errs, finished, broken>>

\* Before any worker exists the fence guard undoes the acquisition itself.
PrepareFails(c) ==
    /\ pc[c] = "preparing"
    /\ changing' = FALSE
    /\ Finish(c)
    /\ UNCHANGED <<cancelled, session, user, fence, db, workVars, storeVars, stopVars,
                   took, mine, errs, finished, broken>>

\* A session without Lightning persists the wallet but has no workers.
PublishWallet(c) ==
    /\ pc[c] = "preparing" /\ fence = "free"
    /\ fence' = "held" /\ stores' = "open" /\ broken' = FALSE
    /\ session' = "wallet"
    /\ changing' = FALSE
    /\ Finish(c)
    /\ UNCHANGED <<cancelled, user, db, workVars, bp, outage, stopVars,
                   took, mine, errs, finished>>

\* Lightning startup takes over the fence with two fresh registries.  From
\* here on only a rollback that has drained them may release it.
Start(c) ==
    /\ pc[c] = "preparing" /\ fence = "free"
    /\ fence' = "held" /\ stores' = "open" /\ broken' = FALSE
    /\ reg' = [k \in Kinds |-> NewRegistry]
    /\ state' = [w \in Workers |-> IF Over(w) THEN "idle" ELSE state[w]]
    /\ bp' = "none"
    /\ errs' = [errs EXCEPT ![c] = FALSE]
    /\ Goto(c, "starting")
    /\ UNCHANGED <<cancelled, changing, session, user, db, busy, link, retained, outage,
                   stopVars, call, took, mine, finished, slipped>>

\* The fallible part of startup ends before the listener is registered.
StartFails(c) ==
    /\ pc[c] = "starting"
    /\ took' = [took EXCEPT ![c] = "lightning"]
    /\ Goto(c, "tasks")
    /\ UNCHANGED <<nodeVars, workVars, storeVars, stopVars, call, mine, errs,
                   ghostVars>>

Serve(c) ==
    /\ pc[c] = "starting"
    /\ reg' = Spawned("tasks", Openers)
    /\ state' = [w \in Workers |-> IF w \in Openers THEN "running" ELSE state[w]]
    /\ Goto(c, "serving")
    /\ UNCHANGED <<nodeVars, busy, link, retained, storeVars, stopVars, call, took, mine, errs, ghostVars>>

Publish(c) ==
    /\ pc[c] = "serving"
    /\ bp' = "running"
    /\ session' = "lightning"
    /\ changing' = FALSE
    /\ Finish(c)
    /\ UNCHANGED <<cancelled, user, fence, db, workVars, stores, outage, stopVars,
                   took, mine, errs, finished, broken>>

-----------------------------------------------------------------------------
(* Teardown.  A rollback of startup and stop_node join the same registries   *)
(* in the same order; stop_node adds what only a published session has.      *)

RollingBack(c) == call[c] = "unlock"

\* Terminal shutdown first refuses everything new, then waits for an unlock
\* or a lock in progress to give its state change back.  One called after another
\* has failed is told apart.
Shutdown(c) ==
    /\ pc[c] = "idle"
    /\ cancelled' = TRUE
    /\ Goto(c, "polling")
    /\ call' = [call EXCEPT ![c] = IF outcome = "err" THEN "retry" ELSE "shutdown"]
    /\ UNCHANGED <<changing, session, user, fence, db, workVars, storeVars, stopVars,
                   took, mine, errs, ghostVars>>

StateSettled(c) ==
    /\ pc[c] = "polling" /\ ~changing
    /\ Goto(c, "enter")
    /\ UNCHANGED <<nodeVars, workVars, storeVars, stopVars, call, took, mine, errs,
                   ghostVars>>

\* What a call gives back: the state change of a lock or of a failed unlock.
ChangeEnds(c) ==
    changing' = IF call[c] \in Changes THEN FALSE ELSE changing

Returns(c, r) ==
    /\ Finish(c)
    /\ errs' = [errs EXCEPT ![c] = FALSE]
    /\ finished' = (finished \/ (call[c] \in {"shutdown", "retry"} /\ r = "ok"))
    /\ ChangeEnds(c)

\* Mutation: stop_node without the teardown mutex.
EnterTeardown_NoMutex(c) ==
    /\ pc[c] = "enter"
    /\ teardown' = c
    /\ errs' = [errs EXCEPT ![c] = FALSE]
    /\ Goto(c, "take")
    /\ UNCHANGED <<nodeVars, workVars, storeVars, outcome, call, took, mine,
                   ghostVars>>

\* stop_node under the teardown mutex: a terminal outcome already cached
\* answers the call, otherwise this caller owns the teardown.
EnterTeardown(c) ==
    /\ pc[c] = "enter" /\ teardown = None
    /\ IF cancelled /\ outcome # "none"
       THEN /\ Returns(c, outcome)
            /\ UNCHANGED teardown
       ELSE /\ teardown' = c
            /\ errs' = [errs EXCEPT ![c] = FALSE]
            /\ Goto(c, "take")
            /\ UNCHANGED <<changing, call, finished, slipped>>
    /\ UNCHANGED <<cancelled, session, user, fence, db, workVars, storeVars, outcome,
                   took, mine, broken>>

\* Once no wallet operation holds the API mutex the session is taken; its
\* workers' admission closes and its peers are disconnected at once.
TakeSession(c) ==
    /\ pc[c] = "take" /\ user = None
    /\ took' = [took EXCEPT ![c] = session]
    /\ session' = "none"
    /\ IF session = "lightning"
       THEN /\ reg' = [reg EXCEPT !["tasks"].closed = TRUE]
            /\ link' = Disconnected
       ELSE UNCHANGED <<reg, link>>
    /\ Goto(c, CASE session = "lightning" -> "tasks"
                 [] session = "wallet"    -> "stores"
                 [] OTHER                 -> "database")
    /\ UNCHANGED <<cancelled, changing, user, fence, db, state, busy, retained, storeVars,
                   stopVars, call, mine, errs, ghostVars>>

JoinTasks(c) ==
    /\ pc[c] = "tasks"
    /\ JoinTakes(c, "tasks")
    /\ Goto(c, "tasksWait")
    /\ UNCHANGED <<nodeVars, state, busy, link, retained, storeVars, stopVars,
                   call, took, ghostVars>>

\* With the workers gone the background processor is told to persist and exit.
TasksJoined(c) ==
    /\ pc[c] = "tasksWait"
    /\ JoinEnds(c, "tasks")
    /\ IF RollingBack(c)
       THEN Goto(c, "stores") /\ UNCHANGED <<link, bp>>
       ELSE /\ Goto(c, "processor")
            /\ link' = Disconnected
            /\ bp' = IF bp = "running" THEN "told" ELSE bp
    /\ UNCHANGED <<nodeVars, busy, retained, stores, outage, stopVars,
                   call, took, ghostVars>>

\* A final flush that takes too long has its stores stopped under it; it is
\* awaited all the same.
ProcessorTimeout(c) ==
    /\ pc[c] = "processor" /\ bp = "told" /\ stores = "open"
    /\ stores' = "stopped"
    /\ UNCHANGED <<nodeVars, workVars, bp, outage, stopVars, callVars, ghostVars>>

ProcessorJoined(c) ==
    /\ pc[c] = "processor" /\ bp \in {"ended", "failed"}
    /\ errs' = [errs EXCEPT ![c] = @ \/ bp = "failed"]
    /\ bp' = "none"
    /\ Goto(c, "stores")
    /\ UNCHANGED <<nodeVars, workVars, stores, outage, stopVars,
                   call, took, mine, ghostVars>>

StopStores(c) ==
    /\ pc[c] = "stores"
    /\ stores' = "stopped"
    /\ Goto(c, IF took[c] = "lightning" THEN "completions" ELSE "fence")
    /\ UNCHANGED <<nodeVars, workVars, bp, outage, stopVars, call, took, mine, errs, ghostVars>>

JoinCompletions(c) ==
    /\ pc[c] = "completions"
    /\ JoinTakes(c, "completions")
    /\ Goto(c, "completionsWait")
    /\ UNCHANGED <<nodeVars, state, busy, link, retained, storeVars, stopVars,
                   call, took, ghostVars>>

CompletionsJoined(c) ==
    /\ pc[c] = "completionsWait"
    /\ JoinEnds(c, "completions")
    /\ Goto(c, IF RollingBack(c) THEN "fence" ELSE "managers")
    /\ UNCHANGED <<nodeVars, busy, link, retained, storeVars, stopVars,
                   call, took, ghostVars>>

\* Dropping the session's owners must destroy its managers within five
\* seconds; managers that survive are an error.
AwaitManagers(c) ==
    /\ pc[c] = "managers"
    /\ errs' = [errs EXCEPT ![c] = @ \/ retained]
    /\ Goto(c, "fence")
    /\ UNCHANGED <<nodeVars, workVars, storeVars, stopVars, call, took, mine,
                   ghostVars>>

\* Mutation: the fence is left in a state of its own.
HandFenceOver_Deleted(c) ==
    /\ pc[c] = "fence"
    /\ fence' = IF errs[c] THEN fence ELSE "deleted"
    /\ took' = [took EXCEPT ![c] = "none"]
    /\ IF RollingBack(c)
       THEN Returns(c, "err")
       ELSE Goto(c, "database") /\ UNCHANGED <<changing, call, errs, finished, slipped>>
    /\ UNCHANGED <<cancelled, session, user, db, workVars, storeVars, stopVars,
                   mine, broken>>

\* Only a teardown without errors gives the fence to the next writer.
HandFenceOver(c) ==
    /\ pc[c] = "fence"
    /\ fence' = IF errs[c] THEN fence ELSE "free"
    /\ took' = [took EXCEPT ![c] = "none"]
    /\ IF RollingBack(c)
       THEN Returns(c, "err")
       ELSE Goto(c, "database") /\ UNCHANGED <<changing, call, errs, finished, slipped>>
    /\ UNCHANGED <<cancelled, session, user, db, workVars, storeVars, stopVars,
                   mine, broken>>

\* Mutation: every stop closes the database.
CloseDatabase_Always(c) ==
    /\ pc[c] = "database"
    /\ db' = "closed"
    /\ Goto(c, "record")
    /\ UNCHANGED <<cancelled, changing, session, user, fence, workVars, storeVars, stopVars,
                   call, took, mine, errs, ghostVars>>

\* A terminal stop closes the database pool, which may fail; a lock keeps it.
CloseDatabase(c) ==
    /\ pc[c] = "database"
    /\ \/ /\ cancelled
          /\ db' = "closed"
          /\ UNCHANGED errs
       \/ /\ cancelled
          /\ errs' = [errs EXCEPT ![c] = TRUE]
          /\ UNCHANGED db
       \/ ~cancelled /\ UNCHANGED <<db, errs>>
    /\ Goto(c, "record")
    /\ UNCHANGED <<cancelled, changing, session, user, fence, workVars, storeVars, stopVars,
                   call, took, mine, ghostVars>>

\* The cancel token is read once more: only a terminal outcome is cached.
Record(c) ==
    LET r == IF errs[c] THEN "err" ELSE "ok" IN
    /\ pc[c] = "record"
    /\ outcome' = IF cancelled THEN r ELSE outcome
    /\ teardown' = None
    /\ Returns(c, r)
    /\ UNCHANGED <<cancelled, session, user, fence, db, workVars, storeVars,
                   took, mine, broken>>

-----------------------------------------------------------------------------
(* The specification.                                                       *)

Calls(c) == UseWallet(c) \/ Unlock(c) \/ Lock(c) \/ Shutdown(c)

CallerStep(c) ==
    \/ UseEnds(c) \/ BeginChange(c) \/ PrepareFails(c) \/ PublishWallet(c) \/ Start(c) \/ StartFails(c)
    \/ Serve(c) \/ Publish(c) \/ StateSettled(c) \/ TakeSession(c) \/ JoinTasks(c)
    \/ TasksJoined(c) \/ ProcessorTimeout(c) \/ ProcessorJoined(c) \/ StopStores(c)
    \/ JoinCompletions(c) \/ CompletionsJoined(c) \/ AwaitManagers(c) \/ HandFenceOver(c)
    \/ CloseDatabase(c) \/ Record(c)

OpenerStep(o) ==
    SetUp(o) \/ GiveUp(o) \/ HandOver(o) \/ ConnectionClosed(o) \/ OpenerEnds(o)

WorkerStep ==
    \/ \E o \in Openers : OpenerStep(o) \/ \E w \in Peers : Accept(o, w)
    \/ \E w \in Pollers : SpawnPoller(w) \/ PollerEnds(w)
    \/ \E w \in Completions : SpawnCompletion(w) \/ CompletionEnds(w)
    \/ \E w \in Peers : PeerEnds(w)
    \/ ProcessorFlushes

Failure ==
    \/ \E w \in Workers : WorkerPanics(w)
    \/ ListenerFails
    \/ ProcessorFails

Environment ==
    \/ \E w \in Peers : LinkDrops(w)
    \/ ManagersReleased
    \/ OutageTurns

Next ==
    \/ \E c \in Callers : Calls(c) \/ CallerStep(c) \/ EnterTeardown(c)
    \/ WorkerStep
    \/ Failure
    \/ Environment

Spec == Init /\ [][Next]_vars

\* A caller inside a call keeps running; the teardown mutex and the API mutex are
\* granted in the order of the requests; every future that can move is polled again.
\* Nothing is assumed of panics, of peers, of the hidden event worker, nor
\* that remote storage ever answers.
Fairness ==
    /\ \A c \in Callers :
         /\ WF_vars(CallerStep(c))
         /\ SF_vars(EnterTeardown(c) \/ BeginChange(c) \/ TakeSession(c))
    /\ \A o \in Openers : WF_vars(OpenerStep(o))
    /\ \A w \in Pollers : WF_vars(PollerEnds(w))
    /\ \A w \in Peers : WF_vars(PeerEnds(w))
    /\ \A w \in Completions : WF_vars(CompletionEnds(w))
    /\ WF_vars(ProcessorFlushes)

FairSpec == Spec /\ Fairness

-----------------------------------------------------------------------------
(* Properties.                                                              *)

\* A part of the session that can still write the fenced state.
Writing ==
    \/ \E w \in Workers : state[w] \in {"accepted", "open", "inline", "running"}
    \/ bp \in {"running", "told"}
    \/ user # None

\* When this device's fence is free no future, background processor or
\* wallet operation of its session is left to write the remote state, neither
\* after a teardown nor after a rolled back startup (ldk.rs stop_node and
\* start_lightning: "Drain every completion before releasing"), nor when an unlock
\* that was admitted before a shutdown, or before another unlock, begins after it.
FenceOutlivesWriters == fence = "free" => ~Writing /\ session = "none"

\* The fence is given away only by a session no part of which failed: no
\* panic is lost to the reaping in spawn, between a join's take and its
\* awaits, or in a rollback (stop_node: "retaining VSS fence because session
\* teardown failed").
FailuresKeepTheFence ==
    [][fence = "held" /\ fence' = "free" => ~broken]_vars

\* After any shutdown call returned Ok nothing of the node runs or starts
\* again, whoever else called what meanwhile, so the caller may revoke the
\* signer (stop_node: "A second shutdown must wait for the first owner's final
\* persistence and drops").  Managers that an earlier, failed lock has left
\* behind are an exception, and then the fence is still held; a state change that
\* was admitted before the shutdown and begins during it is another.
ShutdownIsFinal ==
    finished /\ ~slipped =>
        /\ ~Writing /\ session = "none" /\ ~changing
        /\ retained => fence = "held"
        /\ \A c \in Callers : took[c] = "none"

\* The database pool closes only for a terminal shutdown and only once
\* nothing that persists to it is left (stop_node: "Drive closure on the owning
\* runtime after every persistence user is done").
DatabaseOutlivesUsers ==
    db = "closed" /\ ~slipped =>
        /\ cancelled /\ ~Writing /\ session = "none"
        /\ \A c \in Callers : took[c] = "none"

\* Every call comes back: a teardown never waits for ever for a connection
\* let in while it was closing, for a completion that waits for storage, for
\* a final flush, or for another caller.
CallsReturn == \A c \in Callers : pc[c] # "idle" ~> pc[c] = "idle"

\* SIGNER-LIFECYCLE.md: terminal shutdown closes the database pool "before
\* reporting completion".
ShutdownClosesDatabase == finished /\ ~slipped => db = "closed"

\* stop_node: "Wait for actual manager destruction, not an arbitrary delay,
\* before reporting a successful shutdown".
ShutdownDestroysManagers == finished /\ ~slipped => ~retained

\* src/src/lib.rs: an explicit shutdown that failed "permits retry": a shutdown
\* called after one has failed does not find that failure waiting to answer it.
RetriesAreAttempts ==
    \A c \in Callers : call[c] = "retry" /\ pc[c] = "enter" /\ teardown = None
                         => outcome # "err"
=============================================================================
