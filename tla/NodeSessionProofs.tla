------------------------- MODULE NodeSessionProofs -------------------------
(***************************************************************************)
(* Theorems about NodeSession, for every number of callers and workers.    *)
(*                                                                         *)
(* Whoever holds the fence owns the session: nobody, while it is published, *)
(* a caller starting it, or a caller ending it.  Everything that can write *)
(* has an entry in a registry, or in the hands of a join, and only an owner *)
(* at an early enough place leaves entries there.  So an owner about to    *)
(* give the fence away has nothing left to wait for, and has collected     *)
(* every failure.  What shutdown promises rests besides on the teardown    *)
(* mutex and on the state change, which one caller has at a time unless an *)
(* unlock or a lock has slipped in.                                        *)
(***************************************************************************)
EXTENDS NodeSession, TLAPS

\* Where a caller is that stops the node, where one that has the session, and where
\* an unlock.
StopPlaces ==
  {"enter", "take", "tasks", "tasksWait", "processor", "stores", "completions",
   "completionsWait", "managers", "fence", "database", "record"}

OwnerPlaces ==
  {"tasks", "tasksWait", "processor", "stores", "completions", "completionsWait",
   "managers", "fence"}

UnlockPlaces ==
  {"checked", "preparing", "starting", "serving", "tasks", "tasksWait", "stores",
   "completions", "completionsWait", "fence"}

\* Each call has its places; a session in hand and the handles taken for a join
\* have theirs.
PlaceOK ==
  \A c \in Callers :
    /\ call[c] = "none" => pc[c] = "idle"
    /\ call[c] = "api" => pc[c] = "api"
    /\ call[c] = "unlock" => pc[c] \in UnlockPlaces
    /\ call[c] = "lock" => pc[c] \in {"checked"} \cup StopPlaces
    /\ call[c] \in {"shutdown", "retry"} => pc[c] \in {"polling"} \cup StopPlaces
    /\ took[c] = "none" <=> pc[c] \notin OwnerPlaces
    /\ took[c] = "wallet" => pc[c] \in {"stores", "fence"}
    /\ mine[c] # {} => pc[c] \in {"tasksWait", "completionsWait"}

\* The caller that starts or ends the session, one at a time and never while it
\* is published.
Owner(c) == took[c] # "none" \/ pc[c] \in {"starting", "serving"}

OwnerOK ==
  /\ \A c \in Callers : Owner(c) => session = "none" /\ fence = "held"
  /\ \A c, d \in Callers : Owner(c) /\ Owner(d) => c = d
  /\ session # "none" => fence = "held"
  /\ user # None => session # "none"

\* The background processor is there until the teardown has joined it.
ProcessorOK ==
  bp # "none" => \/ session = "lightning"
                 \/ \E c \in Callers : /\ call[c] # "unlock"
                                       /\ pc[c] \in {"tasks", "tasksWait", "processor"}

\* The places before the join of a registry, and the place of the join.
Before(k) ==
  {"starting", "serving", "tasks"}
    \cup IF k = "tasks" THEN {} ELSE {"tasksWait", "processor", "stores", "completions"}

Joining(k) == IF k = "tasks" THEN "tasksWait" ELSE "completionsWait"

\* A registry is in use until the owner joins it.
RegistryOK ==
  /\ \A k \in Kinds : ~reg[k].closed \/ reg[k].handles # {} =>
       session = "lightning" \/ \E c \in Callers : took[c] # "wallet" /\ pc[c] \in Before(k)
  /\ \A k \in Kinds : reg[k].failed =>
       \/ session = "lightning"
       \/ \E c \in Callers : took[c] # "wallet" /\ pc[c] \in Before(k) \cup {Joining(k)}

Registry(w) == IF w \in Completions THEN "completions" ELSE "tasks"

\* A worker somebody will join.
Held(w) == \/ w \in reg[Registry(w)].handles
           \/ \E c \in Callers : w \in mine[c] /\ pc[c] = Joining(Registry(w))

\* A startup that has not reached the openers, or never will.
Unopened(c) == call[c] = "unlock" /\ pc[c] \in {"starting"} \cup OwnerPlaces

\* What runs is held, or in the hands of an opener that runs.
WorkersOK ==
  /\ \A w \in Workers : state[w] = "running" => Held(w)
  /\ \A o \in Openers : state[o] \in {"idle", "running", "ended", "panicked"}
  /\ \A w \in Workers : state[w] \in {"accepted", "open", "inline"} =>
       w \in Peers /\ \E o \in Openers : busy[o] = w /\ state[o] = "running"
  /\ \A c \in Callers : Unopened(c) => \A o \in Openers : state[o] = "idle"

\* A failure is where its owner will look, or has been collected.
Unreported ==
  \/ \E w \in Workers : state[w] = "panicked" /\ Held(w)
  \/ \E k \in Kinds : reg[k].failed
  \/ bp = "failed"

FailureOK ==
  broken => \/ session = "none" /\ \A c \in Callers : ~Owner(c)
            \/ Unreported
            \/ \E c \in Callers : took[c] # "none" /\ errs[c]

\* Managers kept alive are those of a session with a listener, and whoever gives
\* the fence away has noticed them.
ManagersOK ==
  retained => /\ fence = "held" /\ session # "wallet"
              /\ \A c \in Callers : /\ took[c] # "wallet" /\ ~Unopened(c)
                                    /\ pc[c] = "fence" => errs[c]

SessionOK == ProcessorOK /\ RegistryOK /\ WorkersOK /\ FailureOK /\ ManagersOK

\* A caller that has begun to change the state, by an unlock in particular, one
\* that shuts the node down, and one past taking the session.
Changing(c) == call[c] \in Changes /\ pc[c] # "checked"
Begun(c) == call[c] = "unlock" /\ pc[c] # "checked"
Terminal(c) == call[c] \in {"shutdown", "retry"}
Stopping(c) == call[c] # "unlock" /\ pc[c] \in OwnerPlaces \cup {"database", "record"}

TerminalOK ==
  /\ \A c \in Callers : pc[c] = "take" \/ Stopping(c) => teardown = c
  /\ db = "closed" \/ outcome # "none" \/ finished => cancelled
  /\ \A c \in Callers : Terminal(c) => cancelled

\* One change at a time, and none beside a terminal shutdown, unless one has
\* slipped in.
ChangeOK ==
  /\ changing => \E c \in Callers : Changing(c)
  /\ ~slipped =>
       /\ \A c \in Callers : Changing(c) => changing
       /\ \A c, d \in Callers : Changing(c) /\ Changing(d) => c = d
       /\ \A c, d \in Callers : Terminal(c) /\ pc[c] # "polling" => ~Changing(d)
       /\ finished => \A c \in Callers : ~Changing(c)

\* A session that is being stopped for good does not come back.
StoppedOK ==
  ~slipped =>
    /\ (db = "closed" \/ outcome # "none" \/ finished \/ \E c \in Callers : Stopping(c)) =>
         session = "none" /\ \A c \in Callers : ~Begun(c)
    /\ db = "closed" \/ finished => \A c \in Callers : took[c] = "none"

ShutdownOK == TerminalOK /\ ChangeOK /\ StoppedOK

IInv == TypeOK /\ PlaceOK /\ OwnerOK /\ SessionOK /\ ShutdownOK

-----------------------------------------------------------------------------
(* Types.                                                                   *)

Entry == [closed : BOOLEAN, handles : SUBSET Workers, failed : BOOLEAN]

\* TypeOK by what changes it: the node and its bookkeeping, the workers, the callers.
NodeTypes ==
  /\ cancelled \in BOOLEAN /\ changing \in BOOLEAN
  /\ session \in {"none", "wallet", "lightning"}
  /\ user \in Callers \cup {None}
  /\ fence \in {"free", "held"}
  /\ db \in {"open", "closed"}
  /\ bp \in {"none", "running", "told", "ended", "failed"}
  /\ stores \in {"open", "stopped"}
  /\ outage \in BOOLEAN
  /\ teardown \in Callers \cup {None}
  /\ outcome \in {"none", "ok", "err"}
  /\ finished \in BOOLEAN /\ broken \in BOOLEAN /\ slipped \in BOOLEAN

WorkTypes ==
  /\ reg \in [Kinds -> Entry]
  /\ state \in [Workers -> {"idle", "accepted", "open", "inline", "running", "ended", "panicked"}]
  /\ busy \in [Openers -> Peers \cup {None}]
  /\ link \in [Peers -> BOOLEAN]
  /\ retained \in BOOLEAN

CallTypes ==
  /\ pc \in [Callers -> CallerStates]
  /\ call \in [Callers -> {"none", "api", "unlock", "lock", "shutdown", "retry"}]
  /\ took \in [Callers -> {"none", "wallet", "lightning"}]
  /\ mine \in [Callers -> SUBSET Workers]
  /\ errs \in [Callers -> BOOLEAN]

\* An entry stays one when a field of it is set.
LEMMA OneEntry ==
  ASSUME NEW e \in Entry
  PROVE  /\ [e EXCEPT !.closed = TRUE] \in Entry
         /\ [e EXCEPT !.failed = TRUE] \in Entry /\ [e EXCEPT !.failed = FALSE] \in Entry
BY DEF Entry

\* So do the registries.
LEMMA Entries ==
  ASSUME NEW r \in [Kinds -> Entry], NEW k \in Kinds
  PROVE  /\ [r EXCEPT ![k].closed = TRUE] \in [Kinds -> Entry]
         /\ [r EXCEPT ![k].failed = TRUE] \in [Kinds -> Entry]
         /\ [r EXCEPT ![k].failed = FALSE] \in [Kinds -> Entry]
<1>1. r[k] \in Entry  OBVIOUS
<1>2. /\ [r[k] EXCEPT !.closed = TRUE] \in Entry
      /\ [r[k] EXCEPT !.failed = TRUE] \in Entry /\ [r[k] EXCEPT !.failed = FALSE] \in Entry
  BY <1>1, OneEntry
<1>3. QED  BY <1>2

-----------------------------------------------------------------------------
(* What the two actions that may end a call do.                             *)

\* A caller asks for the teardown mutex.  It is answered with the recorded outcome,
\* or becomes the one that tears down.
EnterFrame(c) ==
  /\ pc[c] = "enter" /\ teardown = None
  /\ UNCHANGED <<cancelled, session, user, fence, db, outcome, took, mine, broken>>
  /\ UNCHANGED <<workVars, storeVars>>
  /\ errs' = [errs EXCEPT ![c] = FALSE]

Answered(c) ==
  /\ EnterFrame(c)
  /\ cancelled /\ outcome # "none" /\ teardown' = teardown
  /\ pc' = [pc EXCEPT ![c] = "idle"] /\ call' = [call EXCEPT ![c] = "none"]
  /\ changing' = IF call[c] \in Changes THEN FALSE ELSE changing
  /\ slipped' <=> slipped
  /\ finished' => finished \/ call[c] \in {"shutdown", "retry"}

Entered(c) ==
  /\ EnterFrame(c)
  /\ teardown' = c /\ pc' = [pc EXCEPT ![c] = "take"]
  /\ UNCHANGED <<changing, call, finished, slipped>>

\* These are its two outcomes.
LEMMA Enters == ASSUME NEW c \in Callers, EnterTeardown(c) PROVE Answered(c) \/ Entered(c)
<1>1. CASE cancelled /\ outcome # "none"
  <2>1. Returns(c, outcome) /\ teardown' = teardown  BY <1>1 DEF EnterTeardown
  <2>2. Answered(c)
    BY <1>1, <2>1 DEF EnterTeardown, Answered, EnterFrame, Returns, Finish, ChangeEnds, Goto
  <2>3. QED  BY <2>2
<1>2. CASE ~(cancelled /\ outcome # "none")
  BY <1>2 DEF EnterTeardown, Entered, EnterFrame, Goto
<1>3. QED  BY <1>1, <1>2

\* A caller gives the fence away, unless something has failed; an unlock that rolls
\* back returns.
HandingOver(c) ==
  /\ pc[c] = "fence"
  /\ UNCHANGED <<cancelled, session, user, db, mine, broken>>
  /\ UNCHANGED <<workVars, storeVars, stopVars>>
  /\ took' = [took EXCEPT ![c] = "none"]
  /\ fence' = IF errs[c] THEN fence ELSE "free"
  /\ finished' <=> finished
  /\ \/ /\ call[c] = "unlock" /\ changing' = FALSE
        /\ pc' = [pc EXCEPT ![c] = "idle"] /\ call' = [call EXCEPT ![c] = "none"]
        /\ errs' = [errs EXCEPT ![c] = FALSE]
        /\ slipped' <=> slipped /\ (cancelled \/ \E d \in Callers \ {c} : call[d] \in Changes)
     \/ /\ call[c] # "unlock" /\ pc' = [pc EXCEPT ![c] = "database"]
        /\ UNCHANGED <<changing, call, errs, slipped>>

\* It does no more than that.
LEMMA HandsOver == ASSUME NEW c \in Callers, HandFenceOver(c) PROVE HandingOver(c)
<1> USE DEF HandingOver
<1>1. CASE RollingBack(c)
  <2>1. Returns(c, "err") /\ call[c] = "unlock"  BY <1>1 DEF HandFenceOver, RollingBack
  <2>2. QED  BY <1>1, <2>1 DEF HandFenceOver, Returns, Finish, ChangeEnds, Changes, Goto
<1>2. CASE ~RollingBack(c)
  BY <1>2 DEF HandFenceOver, RollingBack, Goto
<1>3. QED  BY <1>1, <1>2

-----------------------------------------------------------------------------
(* Without an owner nothing of a session is left.                           *)

\* No writer, no worker somebody holds, and empty closed registries.
LEMMA Quiet ==
  ASSUME IInv, session = "none", \A c \in Callers : ~Owner(c)
  PROVE  /\ ~Writing /\ bp = "none"
         /\ \A w \in Workers : ~Held(w) /\ state[w] \in {"idle", "ended", "panicked"}
         /\ \A k \in Kinds : reg[k].closed /\ reg[k].handles = {} /\ ~reg[k].failed
<1> USE WorkersAreDistinct DEF IInv, TypeOK, PlaceOK, OwnerPlaces, SessionOK, OwnerOK, Owner
<1>1. \A c \in Callers : took[c] = "none" /\ mine[c] = {} /\ pc[c] \notin OwnerPlaces
  OBVIOUS
<1>2. bp = "none"  BY <1>1 DEF ProcessorOK
<1>3. \A k \in Kinds : reg[k].closed /\ reg[k].handles = {} /\ ~reg[k].failed
  BY <1>1 DEF RegistryOK, Before, Joining, Kinds
<1>4. \A w \in Workers : ~Held(w)
  BY <1>1, <1>3 DEF Held, Registry, Kinds
<1>5. \A w \in Workers : state[w] # "running"
  BY <1>4 DEF WorkersOK
<1>6. \A w \in Workers : state[w] \in {"idle", "ended", "panicked"}
  BY <1>5 DEF WorkersOK, Workers
<1>7. ~Writing
  BY <1>2, <1>6 DEF Writing
<1>8. QED  BY <1>2, <1>3, <1>4, <1>6, <1>7

\* Spawning reaps what is over, and keeps its failures.
Spawning(k, S) ==
  /\ ~reg'[k].closed
  /\ reg'[k].handles = {h \in reg[k].handles : ~Over(h)} \cup S
  /\ reg'[k].failed <=> reg[k].failed \/ Panicked(reg[k].handles)
  /\ \A j \in Kinds \ {k} : reg'[j] = reg[j]

\* Spawned does so.
LEMMA Spawns ==
  ASSUME TypeOK, NEW k \in Kinds, NEW S, reg' = Spawned(k, S)
  PROVE  Spawning(k, S)
BY DEF TypeOK, Spawned, Spawning

\* A failure that is still to be reported stays so when a registry reaps.
LEMMA ReapingReports ==
  ASSUME TypeOK, NEW k \in Kinds, NEW S, Spawning(k, S), Unreported,
         UNCHANGED bp,
         \A w \in Workers : state[w] = "panicked" => state'[w] = "panicked",
         \A c \in Callers : mine'[c] = mine[c] /\ (mine[c] # {} => pc'[c] = pc[c])
  PROVE  Unreported'
<1>1. ASSUME NEW w \in Workers, state[w] = "panicked", Held(w)  PROVE Unreported'
  <2>1. state'[w] = "panicked"  BY <1>1
  <2>2. CASE \E c \in Callers : w \in mine[c] /\ pc[c] = Joining(Registry(w))
    BY <2>1, <2>2 DEF Unreported, Held
  <2>3. CASE w \in reg[Registry(w)].handles
    <3>1. CASE Registry(w) = k
      BY <1>1, <2>3, <3>1 DEF Unreported, Spawning, Panicked, TypeOK
    <3>2. CASE Registry(w) # k
      BY <2>1, <2>3, <3>2 DEF Unreported, Spawning, Held, Registry, Kinds
    <3>3. QED  BY <3>1, <3>2
  <2>4. QED  BY <1>1, <2>2, <2>3 DEF Held
<1>2. ASSUME NEW j \in Kinds, reg[j].failed  PROVE Unreported'
  BY <1>2 DEF Unreported, Spawning
<1>3. ASSUME bp = "failed"  PROVE Unreported'
  BY <1>3 DEF Unreported
<1>4. QED  BY <1>1, <1>2, <1>3 DEF Unreported

\* A caller keeps the types of its place, its call and what it holds.
LEMMA CallerCalls ==
  ASSUME TypeOK, NEW c \in Callers, Calls(c) \/ CallerStep(c) \/ EnterTeardown(c)
  PROVE  CallTypes'
<1> USE DEF TypeOK, CallTypes, CallerStates, Kinds, nodeVars, workVars, storeVars,
    stopVars, callVars, ghostVars
<1>1. CASE UseWallet(c)
  BY <1>1 DEF UseWallet, Admitted, Goto
<1>2. CASE UseEnds(c)
  BY <1>2 DEF UseEnds, Goto, Finish
<1>3. CASE Unlock(c)
  BY <1>3 DEF Unlock, Ask, Admitted, Goto
<1>4. CASE Lock(c)
  BY <1>4 DEF Lock, Ask, Admitted, Goto
<1>5. CASE BeginChange(c)
  BY <1>5 DEF BeginChange, Goto, Finish
<1>6. CASE PrepareFails(c)
  BY <1>6 DEF PrepareFails, Goto, Finish
<1>7. CASE PublishWallet(c)
  BY <1>7 DEF PublishWallet, Goto, Finish
<1>8. CASE Start(c)
  BY <1>8 DEF Start, Goto, NewRegistry, Over
<1>9. CASE StartFails(c)
  BY <1>9 DEF StartFails, Goto
<1>10. CASE Serve(c)
  BY <1>10 DEF Serve, Goto, Spawned, Panicked, Over
<1>11. CASE Publish(c)
  BY <1>11 DEF Publish, Goto, Finish
<1>12. CASE Shutdown(c)
  BY <1>12 DEF Shutdown, Goto
<1>13. CASE StateSettled(c)
  BY <1>13 DEF StateSettled, Goto
<1>14. CASE EnterTeardown(c)
  BY <1>14 DEF EnterTeardown, Goto, Returns, Finish, ChangeEnds
<1>15. CASE TakeSession(c)
  BY <1>15 DEF TakeSession, Goto, Disconnected
<1>16. CASE JoinTasks(c)
  BY <1>16 DEF JoinTasks, Goto, JoinTakes
<1>17. CASE TasksJoined(c)
  BY <1>17 DEF TasksJoined, Goto, JoinEnds, RollingBack, Over, Panicked, Disconnected
<1>18. CASE ProcessorTimeout(c)
  BY <1>18 DEF ProcessorTimeout
<1>19. CASE ProcessorJoined(c)
  BY <1>19 DEF ProcessorJoined, Goto
<1>20. CASE StopStores(c)
  BY <1>20 DEF StopStores, Goto
<1>21. CASE JoinCompletions(c)
  BY <1>21 DEF JoinCompletions, Goto, JoinTakes
<1>22. CASE CompletionsJoined(c)
  BY <1>22 DEF CompletionsJoined, Goto, JoinEnds, RollingBack, Over, Panicked
<1>23. CASE AwaitManagers(c)
  BY <1>23 DEF AwaitManagers, Goto
<1>24. CASE HandFenceOver(c)
  BY <1>24 DEF HandFenceOver, Goto, Returns, Finish, ChangeEnds, RollingBack
<1>25. CASE CloseDatabase(c)
  BY <1>25 DEF CloseDatabase, Goto
<1>26. CASE Record(c)
  BY <1>26 DEF Record, Goto, Returns, Finish, ChangeEnds
<1>27. QED
  BY <1>1, <1>2, <1>3, <1>4, <1>5, <1>6, <1>7, <1>8, <1>9, <1>10, <1>11, <1>12, <1>13,
      <1>14, <1>15, <1>16, <1>17, <1>18, <1>19, <1>20, <1>21, <1>22, <1>23, <1>24, <1>25,
      <1>26 DEF Calls, CallerStep

\* A caller keeps the types of the node.
LEMMA CallerNode ==
  ASSUME TypeOK, NEW c \in Callers, Calls(c) \/ CallerStep(c) \/ EnterTeardown(c)
  PROVE  NodeTypes'
<1> USE WorkersAreDistinct DEF TypeOK, NodeTypes, nodeVars, workVars, storeVars, stopVars,
    callVars, ghostVars
<1>1. CASE UseWallet(c)
  BY <1>1 DEF UseWallet, Admitted, Goto
<1>2. CASE UseEnds(c)
  BY <1>2 DEF UseEnds, Goto, Finish
<1>3. CASE Unlock(c)
  BY <1>3 DEF Unlock, Ask, Admitted, Goto
<1>4. CASE Lock(c)
  BY <1>4 DEF Lock, Ask, Admitted, Goto
<1>5. CASE BeginChange(c)
  <2>1. changing' \in BOOLEAN /\ slipped' \in BOOLEAN /\ finished' \in BOOLEAN
    BY <1>5 DEF BeginChange, Goto, Finish
  <2>2. /\ cancelled' \in BOOLEAN /\ outage' \in BOOLEAN /\ broken' \in BOOLEAN
        /\ session' \in {"none", "wallet", "lightning"} /\ user' \in Callers \cup {None}
        /\ fence' \in {"free", "held"} /\ db' \in {"open", "closed"}
        /\ teardown' \in Callers \cup {None} /\ outcome' \in {"none", "ok", "err"}
    BY <1>5 DEF BeginChange
  <2>3. bp' \in {"none", "running", "told", "ended", "failed"} /\ stores' \in {"open", "stopped"}
    BY <1>5 DEF BeginChange
  <2>4. QED  BY <2>1, <2>2, <2>3
<1>6. CASE PrepareFails(c)
  <2>1. changing' \in BOOLEAN /\ slipped' \in BOOLEAN /\ finished' \in BOOLEAN
    BY <1>6 DEF PrepareFails, Goto, Finish
  <2>2. /\ cancelled' \in BOOLEAN /\ outage' \in BOOLEAN /\ broken' \in BOOLEAN
        /\ session' \in {"none", "wallet", "lightning"} /\ user' \in Callers \cup {None}
        /\ fence' \in {"free", "held"} /\ db' \in {"open", "closed"}
        /\ teardown' \in Callers \cup {None} /\ outcome' \in {"none", "ok", "err"}
    BY <1>6 DEF PrepareFails
  <2>3. bp' \in {"none", "running", "told", "ended", "failed"} /\ stores' \in {"open", "stopped"}
    BY <1>6 DEF PrepareFails
  <2>4. QED  BY <2>1, <2>2, <2>3
<1>7. CASE PublishWallet(c)
  BY <1>7 DEF PublishWallet, Goto, Finish
<1>8. CASE Start(c)
  BY <1>8 DEF Start, Goto, NewRegistry, Over
<1>9. CASE StartFails(c)
  BY <1>9 DEF StartFails, Goto
<1>10. CASE Serve(c)
  BY <1>10 DEF Serve, Goto, Spawned, Panicked, Over
<1>11. CASE Publish(c)
  BY <1>11 DEF Publish, Goto, Finish
<1>12. CASE Shutdown(c)
  BY <1>12 DEF Shutdown, Goto
<1>13. CASE StateSettled(c)
  BY <1>13 DEF StateSettled, Goto
<1>14. CASE EnterTeardown(c)
  <2>1. changing' \in BOOLEAN /\ slipped' \in BOOLEAN /\ finished' \in BOOLEAN
    BY <1>14 DEF EnterTeardown, Goto, Returns, Finish, ChangeEnds
  <2>2. /\ cancelled' \in BOOLEAN /\ outage' \in BOOLEAN /\ broken' \in BOOLEAN
        /\ session' \in {"none", "wallet", "lightning"} /\ user' \in Callers \cup {None}
        /\ fence' \in {"free", "held"} /\ db' \in {"open", "closed"}
        /\ teardown' \in Callers \cup {None} /\ outcome' \in {"none", "ok", "err"}
    BY <1>14 DEF EnterTeardown
  <2>3. bp' \in {"none", "running", "told", "ended", "failed"} /\ stores' \in {"open", "stopped"}
    BY <1>14 DEF EnterTeardown
  <2>4. QED  BY <2>1, <2>2, <2>3
<1>15. CASE TakeSession(c)
  BY <1>15 DEF TakeSession, Goto, Disconnected
<1>16. CASE JoinTasks(c)
  BY <1>16 DEF JoinTasks, Goto, JoinTakes
<1>17. CASE TasksJoined(c)
  BY <1>17 DEF TasksJoined, Goto, JoinEnds, RollingBack, Over, Panicked, Disconnected
<1>18. CASE ProcessorTimeout(c)
  BY <1>18 DEF ProcessorTimeout
<1>19. CASE ProcessorJoined(c)
  BY <1>19 DEF ProcessorJoined, Goto
<1>20. CASE StopStores(c)
  BY <1>20 DEF StopStores, Goto
<1>21. CASE JoinCompletions(c)
  BY <1>21 DEF JoinCompletions, Goto, JoinTakes
<1>22. CASE CompletionsJoined(c)
  BY <1>22 DEF CompletionsJoined, Goto, JoinEnds, RollingBack, Over, Panicked
<1>23. CASE AwaitManagers(c)
  BY <1>23 DEF AwaitManagers, Goto
<1>24. CASE HandFenceOver(c)
  <2>1. changing' \in BOOLEAN /\ slipped' \in BOOLEAN /\ finished' \in BOOLEAN
    BY <1>24 DEF HandFenceOver, Goto, Returns, Finish, ChangeEnds, RollingBack
  <2>2. /\ cancelled' \in BOOLEAN /\ outage' \in BOOLEAN /\ broken' \in BOOLEAN
        /\ session' \in {"none", "wallet", "lightning"} /\ user' \in Callers \cup {None}
        /\ fence' \in {"free", "held"} /\ db' \in {"open", "closed"}
        /\ teardown' \in Callers \cup {None} /\ outcome' \in {"none", "ok", "err"}
    BY <1>24 DEF HandFenceOver
  <2>3. bp' \in {"none", "running", "told", "ended", "failed"} /\ stores' \in {"open", "stopped"}
    BY <1>24 DEF HandFenceOver
  <2>4. QED  BY <2>1, <2>2, <2>3
<1>25. CASE CloseDatabase(c)
  BY <1>25 DEF CloseDatabase, Goto
<1>26. CASE Record(c)
  BY <1>26 DEF Record, Goto, Returns, Finish, ChangeEnds
<1>27. QED
  BY <1>1, <1>2, <1>3, <1>4, <1>5, <1>6, <1>7, <1>8, <1>9, <1>10, <1>11, <1>12, <1>13,
      <1>14, <1>15, <1>16, <1>17, <1>18, <1>19, <1>20, <1>21, <1>22, <1>23, <1>24, <1>25,
      <1>26 DEF Calls, CallerStep

\* A caller keeps the types of the registries and workers.
LEMMA CallerWork ==
  ASSUME TypeOK, NEW c \in Callers, Calls(c) \/ CallerStep(c) \/ EnterTeardown(c)
  PROVE  WorkTypes'
<1> USE WorkersAreDistinct DEF TypeOK, WorkTypes, Entry, Kinds, Workers, Openers,
    nodeVars, workVars, storeVars, stopVars, callVars, ghostVars
<1>1. CASE Start(c)
  BY <1>1 DEF Start, Goto, NewRegistry, Over
<1>2. CASE Serve(c)
  BY <1>2 DEF Serve, Goto, Spawned, Panicked, Over
<1>3. CASE TakeSession(c)
  <2>1. reg' \in [Kinds -> Entry] /\ link' \in [Peers -> BOOLEAN]
    <3>1. CASE session = "lightning"
      <4>1. reg' = [reg EXCEPT !["tasks"].closed = TRUE]  BY <1>3, <3>1 DEF TakeSession
      <4>2. reg \in [Kinds -> Entry] /\ "tasks" \in Kinds  OBVIOUS
      <4>3. reg' \in [Kinds -> Entry]
        <5> HIDE DEF Entry, Kinds
        <5>1. QED  BY <4>1, <4>2, Entries
      <4>4. link' = Disconnected  BY <1>3, <3>1 DEF TakeSession
      <4>5. QED  BY <4>3, <4>4 DEF Disconnected
    <3>2. CASE session # "lightning"
      BY <1>3, <3>2 DEF TakeSession
    <3>3. QED  BY <3>1, <3>2
  <2>2. QED  BY <1>3, <2>1 DEF TakeSession
<1>4. CASE JoinTasks(c)
  BY <1>4 DEF JoinTasks, Goto, JoinTakes
<1>5. CASE TasksJoined(c)
  <2>1. reg' = [reg EXCEPT !["tasks"].failed = FALSE]  BY <1>5 DEF TasksJoined, JoinEnds
  <2>2. reg \in [Kinds -> Entry] /\ "tasks" \in Kinds  OBVIOUS
  <2>3. reg' \in [Kinds -> Entry]
    <3> HIDE DEF Entry, Kinds
    <3>1. QED  BY <2>1, <2>2, Entries
  <2>4. link' \in [Peers -> BOOLEAN]  BY <1>5 DEF TasksJoined, Disconnected
  <2>5. QED  BY <1>5, <2>3, <2>4 DEF TasksJoined, JoinEnds
<1>6. CASE JoinCompletions(c)
  BY <1>6 DEF JoinCompletions, Goto, JoinTakes
<1>7. CASE CompletionsJoined(c)
  <2>1. reg' = [reg EXCEPT !["completions"].failed = FALSE]  BY <1>7 DEF CompletionsJoined, JoinEnds
  <2>2. reg \in [Kinds -> Entry] /\ "completions" \in Kinds  OBVIOUS
  <2>3. reg' \in [Kinds -> Entry]
    <3> HIDE DEF Entry, Kinds
    <3>1. QED  BY <2>1, <2>2, Entries
  <2>4. QED  BY <1>7, <2>3 DEF CompletionsJoined, JoinEnds
<1>8. CASE UseWallet(c) \/ UseEnds(c) \/ Unlock(c) \/ Lock(c) \/ BeginChange(c) \/
    PrepareFails(c) \/ PublishWallet(c) \/ StartFails(c) \/ Publish(c) \/ Shutdown(c) \/
    StateSettled(c) \/ EnterTeardown(c) \/ ProcessorTimeout(c) \/ ProcessorJoined(c) \/
    StopStores(c) \/ AwaitManagers(c) \/ HandFenceOver(c) \/ CloseDatabase(c) \/ Record(c)
  BY <1>8 DEF UseWallet, Admitted, Goto, UseEnds, Finish, Unlock, Ask, Lock, BeginChange,
      PrepareFails, PublishWallet, StartFails, Publish, Shutdown, StateSettled,
      EnterTeardown, Returns, ChangeEnds, ProcessorTimeout, ProcessorJoined, StopStores,
      AwaitManagers, HandFenceOver, RollingBack, CloseDatabase, Record
<1>9. QED
  BY <1>1, <1>2, <1>3, <1>4, <1>5, <1>6, <1>7, <1>8 DEF Calls, CallerStep

\* A caller goes from place to place of its call.
LEMMA CallerPlaces ==
  ASSUME IInv, NEW c \in Callers, Calls(c) \/ CallerStep(c) \/ EnterTeardown(c)
  PROVE  PlaceOK'
<1> USE DEF IInv, TypeOK, PlaceOK, UnlockPlaces, StopPlaces, OwnerPlaces, nodeVars,
    workVars, storeVars, stopVars, callVars, ghostVars
<1>1. CASE UseWallet(c)
  BY <1>1 DEF UseWallet, Admitted, Goto
<1>2. CASE UseEnds(c)
  BY <1>2 DEF UseEnds, Goto, Finish
<1>3. CASE Unlock(c)
  BY <1>3 DEF Unlock, Ask, Admitted, Goto
<1>4. CASE Lock(c)
  BY <1>4 DEF Lock, Ask, Admitted, Goto
<1>5. CASE BeginChange(c)
  BY <1>5 DEF BeginChange, Goto, Finish
<1>6. CASE PrepareFails(c)
  BY <1>6 DEF PrepareFails, Goto, Finish
<1>7. CASE PublishWallet(c)
  BY <1>7 DEF PublishWallet, Goto, Finish
<1>8. CASE Start(c)
  BY <1>8 DEF Start, Goto, NewRegistry, Over
<1>9. CASE StartFails(c)
  BY <1>9 DEF StartFails, Goto
<1>10. CASE Serve(c)
  BY <1>10 DEF Serve, Goto, Spawned, Panicked, Over
<1>11. CASE Publish(c)
  BY <1>11 DEF Publish, Goto, Finish
<1>12. CASE Shutdown(c)
  BY <1>12 DEF Shutdown, Goto
<1>13. CASE StateSettled(c)
  BY <1>13 DEF StateSettled, Goto
<1>14. CASE EnterTeardown(c)
  <2>1. CASE Answered(c)  BY <2>1 DEF Answered, EnterFrame
  <2>2. CASE Entered(c)  BY <2>2 DEF Entered, EnterFrame
  <2>3. QED  BY <1>14, <2>1, <2>2, Enters
<1>15. CASE TakeSession(c)
  BY <1>15 DEF TakeSession, Goto, Disconnected
<1>16. CASE JoinTasks(c)
  BY <1>16 DEF JoinTasks, Goto, JoinTakes
<1>17. CASE TasksJoined(c)
  BY <1>17 DEF TasksJoined, Goto, JoinEnds, RollingBack, Over, Panicked, Disconnected
<1>18. CASE ProcessorTimeout(c)
  BY <1>18 DEF ProcessorTimeout
<1>19. CASE ProcessorJoined(c)
  BY <1>19 DEF ProcessorJoined, Goto
<1>20. CASE StopStores(c)
  BY <1>20 DEF StopStores, Goto
<1>21. CASE JoinCompletions(c)
  BY <1>21 DEF JoinCompletions, Goto, JoinTakes
<1>22. CASE CompletionsJoined(c)
  BY <1>22 DEF CompletionsJoined, Goto, JoinEnds, RollingBack, Over, Panicked
<1>23. CASE AwaitManagers(c)
  BY <1>23 DEF AwaitManagers, Goto
<1>24. CASE HandFenceOver(c)
  <2>1. HandingOver(c)  BY <1>24, HandsOver
  <2>2. QED  BY <2>1 DEF HandingOver
<1>25. CASE CloseDatabase(c)
  BY <1>25 DEF CloseDatabase, Goto
<1>26. CASE Record(c)
  BY <1>26 DEF Record, Goto, Returns, Finish, ChangeEnds
<1>27. QED
  BY <1>1, <1>2, <1>3, <1>4, <1>5, <1>6, <1>7, <1>8, <1>9, <1>10, <1>11, <1>12, <1>13,
      <1>14, <1>15, <1>16, <1>17, <1>18, <1>19, <1>20, <1>21, <1>22, <1>23, <1>24, <1>25,
      <1>26 DEF Calls, CallerStep

\* A caller becomes the owner only when there is none, of a session it starts or takes.
LEMMA CallerOwners ==
  ASSUME IInv, NEW c \in Callers, Calls(c) \/ CallerStep(c) \/ EnterTeardown(c)
  PROVE  OwnerOK'
<1> USE WorkersAreDistinct DEF IInv, TypeOK, PlaceOK, UnlockPlaces, StopPlaces,
    OwnerPlaces, OwnerOK, Owner, nodeVars, workVars, storeVars, stopVars, callVars,
    ghostVars
<1>1. CASE UseWallet(c)
  BY <1>1 DEF UseWallet, Admitted, Goto
<1>2. CASE UseEnds(c)
  BY <1>2 DEF UseEnds, Goto, Finish
<1>3. CASE Unlock(c)
  BY <1>3 DEF Unlock, Ask, Admitted, Goto
<1>4. CASE Lock(c)
  BY <1>4 DEF Lock, Ask, Admitted, Goto
<1>5. CASE BeginChange(c)
  BY <1>5 DEF BeginChange, Goto, Finish
<1>6. CASE PrepareFails(c)
  BY <1>6 DEF PrepareFails, Goto, Finish
<1>7. CASE PublishWallet(c)
  BY <1>7 DEF PublishWallet, Goto, Finish
<1>8. CASE Start(c)
  BY <1>8 DEF Start, Goto, NewRegistry, Over
<1>9. CASE StartFails(c)
  BY <1>9 DEF StartFails, Goto
<1>10. CASE Serve(c)
  BY <1>10 DEF Serve, Goto, Spawned, Panicked, Over
<1>11. CASE Publish(c)
  BY <1>11 DEF Publish, Goto, Finish
<1>12. CASE Shutdown(c)
  BY <1>12 DEF Shutdown, Goto
<1>13. CASE StateSettled(c)
  BY <1>13 DEF StateSettled, Goto
<1>14. CASE EnterTeardown(c)
  <2>1. CASE Answered(c)  BY <2>1 DEF Answered, EnterFrame
  <2>2. CASE Entered(c)  BY <2>2 DEF Entered, EnterFrame
  <2>3. QED  BY <1>14, <2>1, <2>2, Enters
<1>15. CASE TakeSession(c)
  BY <1>15 DEF TakeSession, Goto, Disconnected
<1>16. CASE JoinTasks(c)
  BY <1>16 DEF JoinTasks, Goto, JoinTakes
<1>17. CASE TasksJoined(c)
  BY <1>17 DEF TasksJoined, Goto, JoinEnds, RollingBack, Over, Panicked, Disconnected
<1>18. CASE ProcessorTimeout(c)
  BY <1>18 DEF ProcessorTimeout
<1>19. CASE ProcessorJoined(c)
  BY <1>19 DEF ProcessorJoined, Goto
<1>20. CASE StopStores(c)
  BY <1>20 DEF StopStores, Goto
<1>21. CASE JoinCompletions(c)
  BY <1>21 DEF JoinCompletions, Goto, JoinTakes
<1>22. CASE CompletionsJoined(c)
  BY <1>22 DEF CompletionsJoined, Goto, JoinEnds, RollingBack, Over, Panicked
<1>23. CASE AwaitManagers(c)
  BY <1>23 DEF AwaitManagers, Goto
<1>24. CASE HandFenceOver(c)
  <2>1. HandingOver(c)  BY <1>24, HandsOver
  <2>2. QED  BY <2>1 DEF HandingOver
<1>25. CASE CloseDatabase(c)
  BY <1>25 DEF CloseDatabase, Goto
<1>26. CASE Record(c)
  BY <1>26 DEF Record, Goto, Returns, Finish, ChangeEnds
<1>27. QED
  BY <1>1, <1>2, <1>3, <1>4, <1>5, <1>6, <1>7, <1>8, <1>9, <1>10, <1>11, <1>12, <1>13,
      <1>14, <1>15, <1>16, <1>17, <1>18, <1>19, <1>20, <1>21, <1>22, <1>23, <1>24, <1>25,
      <1>26 DEF Calls, CallerStep

\* A caller leaves the background processor behind in no place past its join.
LEMMA CallerProcessor ==
  ASSUME IInv, NEW c \in Callers, Calls(c) \/ CallerStep(c) \/ EnterTeardown(c)
  PROVE  ProcessorOK'
<1> USE DEF IInv, TypeOK, PlaceOK, UnlockPlaces, StopPlaces, OwnerPlaces, OwnerOK, Owner,
    SessionOK, ProcessorOK, nodeVars, workVars, storeVars, stopVars, callVars, ghostVars
<1>1. CASE UseWallet(c)
  BY <1>1 DEF UseWallet, Admitted, Goto
<1>2. CASE UseEnds(c)
  BY <1>2 DEF UseEnds, Goto, Finish
<1>3. CASE Unlock(c)
  BY <1>3 DEF Unlock, Ask, Admitted, Goto
<1>4. CASE Lock(c)
  BY <1>4 DEF Lock, Ask, Admitted, Goto
<1>5. CASE BeginChange(c)
  BY <1>5 DEF BeginChange, Goto, Finish
<1>6. CASE PrepareFails(c)
  BY <1>6 DEF PrepareFails, Goto, Finish
<1>7. CASE PublishWallet(c)
  BY <1>7 DEF PublishWallet, Goto, Finish
<1>8. CASE Start(c)
  BY <1>8 DEF Start, Goto, NewRegistry, Over
<1>9. CASE StartFails(c)
  BY <1>9 DEF StartFails, Goto
<1>10. CASE Serve(c)
  BY <1>10 DEF Serve, Goto, Spawned, Panicked, Over
<1>11. CASE Publish(c)
  BY <1>11 DEF Publish, Goto, Finish
<1>12. CASE Shutdown(c)
  BY <1>12 DEF Shutdown, Goto
<1>13. CASE StateSettled(c)
  BY <1>13 DEF StateSettled, Goto
<1>14. CASE EnterTeardown(c)
  <2>1. CASE Answered(c)  BY <2>1 DEF Answered, EnterFrame
  <2>2. CASE Entered(c)  BY <2>2 DEF Entered, EnterFrame
  <2>3. QED  BY <1>14, <2>1, <2>2, Enters
<1>15. CASE TakeSession(c)
  BY <1>15 DEF TakeSession, Goto, Disconnected
<1>16. CASE JoinTasks(c)
  BY <1>16 DEF JoinTasks, Goto, JoinTakes
<1>17. CASE TasksJoined(c)
  BY <1>17 DEF TasksJoined, Goto, JoinEnds, RollingBack, Over, Panicked, Disconnected
<1>18. CASE ProcessorTimeout(c)
  BY <1>18 DEF ProcessorTimeout
<1>19. CASE ProcessorJoined(c)
  BY <1>19 DEF ProcessorJoined, Goto
<1>20. CASE StopStores(c)
  BY <1>20 DEF StopStores, Goto
<1>21. CASE JoinCompletions(c)
  BY <1>21 DEF JoinCompletions, Goto, JoinTakes
<1>22. CASE CompletionsJoined(c)
  BY <1>22 DEF CompletionsJoined, Goto, JoinEnds, RollingBack, Over, Panicked
<1>23. CASE AwaitManagers(c)
  BY <1>23 DEF AwaitManagers, Goto
<1>24. CASE HandFenceOver(c)
  <2>1. HandingOver(c)  BY <1>24, HandsOver
  <2>2. QED  BY <2>1 DEF HandingOver
<1>25. CASE CloseDatabase(c)
  BY <1>25 DEF CloseDatabase, Goto
<1>26. CASE Record(c)
  BY <1>26 DEF Record, Goto, Returns, Finish, ChangeEnds
<1>27. QED
  BY <1>1, <1>2, <1>3, <1>4, <1>5, <1>6, <1>7, <1>8, <1>9, <1>10, <1>11, <1>12, <1>13,
      <1>14, <1>15, <1>16, <1>17, <1>18, <1>19, <1>20, <1>21, <1>22, <1>23, <1>24, <1>25,
      <1>26 DEF Calls, CallerStep

\* A caller opens registries when it starts a session, and its joins empty them.
LEMMA CallerRegistries ==
  ASSUME IInv, NEW c \in Callers, Calls(c) \/ CallerStep(c) \/ EnterTeardown(c)
  PROVE  RegistryOK'
<1> USE DEF IInv, TypeOK, PlaceOK, UnlockPlaces, StopPlaces, OwnerPlaces, OwnerOK, Owner,
    SessionOK, RegistryOK, Before, Joining, Kinds, nodeVars, workVars, storeVars,
    stopVars, callVars, ghostVars
<1>1. CASE UseWallet(c)
  BY <1>1 DEF UseWallet, Admitted, Goto
<1>2. CASE UseEnds(c)
  BY <1>2 DEF UseEnds, Goto, Finish
<1>3. CASE Unlock(c)
  BY <1>3 DEF Unlock, Ask, Admitted, Goto
<1>4. CASE Lock(c)
  BY <1>4 DEF Lock, Ask, Admitted, Goto
<1>5. CASE BeginChange(c)
  BY <1>5 DEF BeginChange, Goto, Finish
<1>6. CASE PrepareFails(c)
  BY <1>6 DEF PrepareFails, Goto, Finish
<1>7. CASE PublishWallet(c)
  BY <1>7 DEF PublishWallet, Goto, Finish
<1>8. CASE Start(c)
  BY <1>8 DEF Start, Goto, NewRegistry, Over
<1>9. CASE StartFails(c)
  BY <1>9 DEF StartFails, Goto
<1>10. CASE Serve(c)
  BY <1>10 DEF Serve, Goto, Spawned, Panicked, Over
<1>11. CASE Publish(c)
  BY <1>11 DEF Publish, Goto, Finish
<1>12. CASE Shutdown(c)
  BY <1>12 DEF Shutdown, Goto
<1>13. CASE StateSettled(c)
  BY <1>13 DEF StateSettled, Goto
<1>14. CASE EnterTeardown(c)
  <2>1. CASE Answered(c)  BY <2>1 DEF Answered, EnterFrame
  <2>2. CASE Entered(c)  BY <2>2 DEF Entered, EnterFrame
  <2>3. QED  BY <1>14, <2>1, <2>2, Enters
<1>15. CASE TakeSession(c)
  BY <1>15 DEF TakeSession, Goto, Disconnected
<1>16. CASE JoinTasks(c)
  BY <1>16 DEF JoinTasks, Goto, JoinTakes
<1>17. CASE TasksJoined(c)
  BY <1>17 DEF TasksJoined, Goto, JoinEnds, RollingBack, Over, Panicked, Disconnected
<1>18. CASE ProcessorTimeout(c)
  BY <1>18 DEF ProcessorTimeout
<1>19. CASE ProcessorJoined(c)
  BY <1>19 DEF ProcessorJoined, Goto
<1>20. CASE StopStores(c)
  BY <1>20 DEF StopStores, Goto
<1>21. CASE JoinCompletions(c)
  BY <1>21 DEF JoinCompletions, Goto, JoinTakes
<1>22. CASE CompletionsJoined(c)
  BY <1>22 DEF CompletionsJoined, Goto, JoinEnds, RollingBack, Over, Panicked
<1>23. CASE AwaitManagers(c)
  BY <1>23 DEF AwaitManagers, Goto
<1>24. CASE HandFenceOver(c)
  <2>1. HandingOver(c)  BY <1>24, HandsOver
  <2>2. QED  BY <2>1 DEF HandingOver
<1>25. CASE CloseDatabase(c)
  BY <1>25 DEF CloseDatabase, Goto
<1>26. CASE Record(c)
  BY <1>26 DEF Record, Goto, Returns, Finish, ChangeEnds
<1>27. QED
  BY <1>1, <1>2, <1>3, <1>4, <1>5, <1>6, <1>7, <1>8, <1>9, <1>10, <1>11, <1>12, <1>13,
      <1>14, <1>15, <1>16, <1>17, <1>18, <1>19, <1>20, <1>21, <1>22, <1>23, <1>24, <1>25,
      <1>26 DEF Calls, CallerStep

\* A caller that takes handles holds their workers, and lets go of those that are over.
LEMMA CallerWorkers ==
  ASSUME IInv, NEW c \in Callers, Calls(c) \/ CallerStep(c) \/ EnterTeardown(c)
  PROVE  WorkersOK'
<1> USE WorkersAreDistinct DEF IInv, TypeOK, PlaceOK, UnlockPlaces, StopPlaces,
    OwnerPlaces, OwnerOK, Owner, SessionOK, RegistryOK, Before, Joining, Kinds, WorkersOK,
    Held, Registry, Unopened, Workers, Openers, nodeVars, workVars, storeVars, stopVars,
    callVars, ghostVars
<1>1. CASE UseWallet(c)
  BY <1>1 DEF UseWallet, Admitted, Goto
<1>2. CASE UseEnds(c)
  BY <1>2 DEF UseEnds, Goto, Finish
<1>3. CASE Unlock(c)
  BY <1>3 DEF Unlock, Ask, Admitted, Goto
<1>4. CASE Lock(c)
  BY <1>4 DEF Lock, Ask, Admitted, Goto
<1>5. CASE BeginChange(c)
  BY <1>5 DEF BeginChange, Goto, Finish
<1>6. CASE PrepareFails(c)
  BY <1>6 DEF PrepareFails, Goto, Finish
<1>7. CASE PublishWallet(c)
  BY <1>7 DEF PublishWallet, Goto, Finish
<1>8. CASE Start(c)
  <2>1. \A w \in Workers : state[w] \in {"idle", "ended", "panicked"}
    BY <1>8, Quiet DEF Start
  <2>2. \A w \in Workers : state'[w] = "idle"
    BY <1>8, <2>1 DEF Start, Over
  <2>3. QED  BY <2>2
<1>9. CASE StartFails(c)
  BY <1>9 DEF StartFails, Goto
<1>10. CASE Serve(c)
  BY <1>10 DEF Serve, Goto, Spawned, Panicked, Over
<1>11. CASE Publish(c)
  BY <1>11 DEF Publish, Goto, Finish
<1>12. CASE Shutdown(c)
  BY <1>12 DEF Shutdown, Goto
<1>13. CASE StateSettled(c)
  BY <1>13 DEF StateSettled, Goto
<1>14. CASE EnterTeardown(c)
  <2>1. CASE Answered(c)  BY <2>1 DEF Answered, EnterFrame
  <2>2. CASE Entered(c)  BY <2>2 DEF Entered, EnterFrame
  <2>3. QED  BY <1>14, <2>1, <2>2, Enters
<1>15. CASE TakeSession(c)
  BY <1>15 DEF TakeSession, Goto, Disconnected
<1>16. CASE JoinTasks(c)
  BY <1>16 DEF JoinTasks, Goto, JoinTakes
<1>17. CASE TasksJoined(c)
  <2>1. /\ \A w \in mine[c] : state[w] \in {"ended", "panicked"} /\ state'[w] = "idle"
        /\ \A w \in Workers \ mine[c] : state'[w] = state[w]
        /\ \A d \in Callers \ {c} : mine'[d] = mine[d] /\ pc'[d] = pc[d]
        /\ \A k \in Kinds : reg'[k].handles = reg[k].handles
        /\ busy' = busy /\ call' = call /\ pc'[c] \in OwnerPlaces /\ pc[c] \in OwnerPlaces
    BY <1>17 DEF TasksJoined, JoinEnds, RollingBack, Over, Goto
  <2>2. \A w \in Workers : state'[w] = "running" => Held(w)'
    <3> SUFFICES ASSUME NEW w \in Workers, state'[w] = "running" PROVE Held(w)'
      OBVIOUS
    <3>1. state[w] = "running" /\ w \notin mine[c] /\ Held(w)
      BY <2>1
    <3>2. QED  BY <2>1, <3>1
  <2>3. \A o \in Openers : state'[o] \in {"idle", "running", "ended", "panicked"}
    BY <2>1
  <2>4. \A w \in Workers : state'[w] \in {"accepted", "open", "inline"} =>
          w \in Peers /\ \E o \in Openers : busy'[o] = w /\ state'[o] = "running"
    BY <2>1
  <2>5. \A d \in Callers : Unopened(d)' => \A o \in Openers : state'[o] = "idle"
    BY <2>1
  <2>6. QED  BY <2>2, <2>3, <2>4, <2>5
<1>18. CASE ProcessorTimeout(c)
  BY <1>18 DEF ProcessorTimeout
<1>19. CASE ProcessorJoined(c)
  BY <1>19 DEF ProcessorJoined, Goto
<1>20. CASE StopStores(c)
  BY <1>20 DEF StopStores, Goto
<1>21. CASE JoinCompletions(c)
  BY <1>21 DEF JoinCompletions, Goto, JoinTakes
<1>22. CASE CompletionsJoined(c)
  <2>1. /\ \A w \in mine[c] : state[w] \in {"ended", "panicked"} /\ state'[w] = "idle"
        /\ \A w \in Workers \ mine[c] : state'[w] = state[w]
        /\ \A d \in Callers \ {c} : mine'[d] = mine[d] /\ pc'[d] = pc[d]
        /\ \A k \in Kinds : reg'[k].handles = reg[k].handles
        /\ busy' = busy /\ call' = call /\ pc'[c] \in OwnerPlaces /\ pc[c] \in OwnerPlaces
    BY <1>22 DEF CompletionsJoined, JoinEnds, RollingBack, Over, Goto
  <2>2. \A w \in Workers : state'[w] = "running" => Held(w)'
    <3> SUFFICES ASSUME NEW w \in Workers, state'[w] = "running" PROVE Held(w)'
      OBVIOUS
    <3>1. state[w] = "running" /\ w \notin mine[c] /\ Held(w)
      BY <2>1
    <3>2. QED  BY <2>1, <3>1
  <2>3. \A o \in Openers : state'[o] \in {"idle", "running", "ended", "panicked"}
    BY <2>1
  <2>4. \A w \in Workers : state'[w] \in {"accepted", "open", "inline"} =>
          w \in Peers /\ \E o \in Openers : busy'[o] = w /\ state'[o] = "running"
    BY <2>1
  <2>5. \A d \in Callers : Unopened(d)' => \A o \in Openers : state'[o] = "idle"
    BY <2>1
  <2>6. QED  BY <2>2, <2>3, <2>4, <2>5
<1>23. CASE AwaitManagers(c)
  BY <1>23 DEF AwaitManagers, Goto
<1>24. CASE HandFenceOver(c)
  <2>1. HandingOver(c)  BY <1>24, HandsOver
  <2>2. QED  BY <2>1 DEF HandingOver
<1>25. CASE CloseDatabase(c)
  BY <1>25 DEF CloseDatabase, Goto
<1>26. CASE Record(c)
  BY <1>26 DEF Record, Goto, Returns, Finish, ChangeEnds
<1>27. QED
  BY <1>1, <1>2, <1>3, <1>4, <1>5, <1>6, <1>7, <1>8, <1>9, <1>10, <1>11, <1>12, <1>13,
      <1>14, <1>15, <1>16, <1>17, <1>18, <1>19, <1>20, <1>21, <1>22, <1>23, <1>24, <1>25,
      <1>26 DEF Calls, CallerStep

\* A caller passes on or collects what has failed.
LEMMA CallerFailures ==
  ASSUME IInv, NEW c \in Callers, Calls(c) \/ CallerStep(c) \/ EnterTeardown(c)
  PROVE  FailureOK'
<1> USE WorkersAreDistinct DEF IInv, TypeOK, PlaceOK, UnlockPlaces, StopPlaces,
    OwnerPlaces, OwnerOK, Owner, SessionOK, RegistryOK, Before, Joining, Kinds,
    ProcessorOK, FailureOK, Unreported, WorkersOK, Held, Registry, Unopened, Workers,
    Openers, nodeVars, workVars, storeVars, stopVars, callVars, ghostVars
<1>1. CASE UseWallet(c)
  BY <1>1 DEF UseWallet, Admitted, Goto
<1>2. CASE UseEnds(c)
  BY <1>2 DEF UseEnds, Goto, Finish
<1>3. CASE Unlock(c)
  BY <1>3 DEF Unlock, Ask, Admitted, Goto
<1>4. CASE Lock(c)
  BY <1>4 DEF Lock, Ask, Admitted, Goto
<1>5. CASE BeginChange(c)
  BY <1>5 DEF BeginChange, Goto, Finish
<1>6. CASE PrepareFails(c)
  BY <1>6 DEF PrepareFails, Goto, Finish
<1>7. CASE PublishWallet(c)
  BY <1>7 DEF PublishWallet, Goto, Finish
<1>8. CASE Start(c)
  BY <1>8 DEF Start, Goto, NewRegistry, Over
<1>9. CASE StartFails(c)
  BY <1>9 DEF StartFails, Goto
<1>10. CASE Serve(c)
  <2>1. Spawning("tasks", Openers)
    BY <1>10, Spawns DEF Serve
  <2>2. \A w \in Workers : state[w] = "panicked" => state'[w] = "panicked"
    BY <1>10 DEF Serve
  <2>3. Unreported => Unreported'
    <3> HIDE DEF Unreported
    <3>1. QED  BY <1>10, <2>1, <2>2, ReapingReports DEF Serve, Goto
  <2>4. QED  BY <1>10, <2>3 DEF Serve, Goto
<1>11. CASE Publish(c)
  BY <1>11 DEF Publish, Goto, Finish
<1>12. CASE Shutdown(c)
  BY <1>12 DEF Shutdown, Goto
<1>13. CASE StateSettled(c)
  BY <1>13 DEF StateSettled, Goto
<1>14. CASE EnterTeardown(c)
  <2>1. CASE Answered(c)  BY <2>1 DEF Answered, EnterFrame
  <2>2. CASE Entered(c)  BY <2>2 DEF Entered, EnterFrame
  <2>3. QED  BY <1>14, <2>1, <2>2, Enters
<1>15. CASE TakeSession(c)
  BY <1>15 DEF TakeSession, Goto, Disconnected
<1>16. CASE JoinTasks(c)
  BY <1>16 DEF JoinTasks, Goto, JoinTakes
<1>17. CASE TasksJoined(c)
  BY <1>17 DEF TasksJoined, Goto, JoinEnds, RollingBack, Over, Panicked, Disconnected
<1>18. CASE ProcessorTimeout(c)
  BY <1>18 DEF ProcessorTimeout
<1>19. CASE ProcessorJoined(c)
  BY <1>19 DEF ProcessorJoined, Goto
<1>20. CASE StopStores(c)
  BY <1>20 DEF StopStores, Goto
<1>21. CASE JoinCompletions(c)
  BY <1>21 DEF JoinCompletions, Goto, JoinTakes
<1>22. CASE CompletionsJoined(c)
  BY <1>22 DEF CompletionsJoined, Goto, JoinEnds, RollingBack, Over, Panicked
<1>23. CASE AwaitManagers(c)
  BY <1>23 DEF AwaitManagers, Goto
<1>24. CASE HandFenceOver(c)
  <2>1. HandingOver(c)  BY <1>24, HandsOver
  <2>2. QED  BY <2>1 DEF HandingOver
<1>25. CASE CloseDatabase(c)
  BY <1>25 DEF CloseDatabase, Goto
<1>26. CASE Record(c)
  BY <1>26 DEF Record, Goto, Returns, Finish, ChangeEnds
<1>27. QED
  BY <1>1, <1>2, <1>3, <1>4, <1>5, <1>6, <1>7, <1>8, <1>9, <1>10, <1>11, <1>12, <1>13,
      <1>14, <1>15, <1>16, <1>17, <1>18, <1>19, <1>20, <1>21, <1>22, <1>23, <1>24, <1>25,
      <1>26 DEF Calls, CallerStep

\* A caller notices the managers that are kept alive before it gives the fence away.
LEMMA CallerManagers ==
  ASSUME IInv, NEW c \in Callers, Calls(c) \/ CallerStep(c) \/ EnterTeardown(c)
  PROVE  ManagersOK'
<1> USE DEF IInv, TypeOK, PlaceOK, UnlockPlaces, StopPlaces, OwnerPlaces, OwnerOK, Owner,
    SessionOK, ManagersOK, Unopened, nodeVars, workVars, storeVars, stopVars, callVars,
    ghostVars
<1>1. CASE UseWallet(c)
  BY <1>1 DEF UseWallet, Admitted, Goto
<1>2. CASE UseEnds(c)
  BY <1>2 DEF UseEnds, Goto, Finish
<1>3. CASE Unlock(c)
  BY <1>3 DEF Unlock, Ask, Admitted, Goto
<1>4. CASE Lock(c)
  BY <1>4 DEF Lock, Ask, Admitted, Goto
<1>5. CASE BeginChange(c)
  BY <1>5 DEF BeginChange, Goto, Finish
<1>6. CASE PrepareFails(c)
  BY <1>6 DEF PrepareFails, Goto, Finish
<1>7. CASE PublishWallet(c)
  BY <1>7 DEF PublishWallet, Goto, Finish
<1>8. CASE Start(c)
  BY <1>8 DEF Start, Goto, NewRegistry, Over
<1>9. CASE StartFails(c)
  BY <1>9 DEF StartFails, Goto
<1>10. CASE Serve(c)
  BY <1>10 DEF Serve, Goto, Spawned, Panicked, Over
<1>11. CASE Publish(c)
  BY <1>11 DEF Publish, Goto, Finish
<1>12. CASE Shutdown(c)
  BY <1>12 DEF Shutdown, Goto
<1>13. CASE StateSettled(c)
  BY <1>13 DEF StateSettled, Goto
<1>14. CASE EnterTeardown(c)
  <2>1. CASE Answered(c)  BY <2>1 DEF Answered, EnterFrame
  <2>2. CASE Entered(c)  BY <2>2 DEF Entered, EnterFrame
  <2>3. QED  BY <1>14, <2>1, <2>2, Enters
<1>15. CASE TakeSession(c)
  BY <1>15 DEF TakeSession, Goto, Disconnected
<1>16. CASE JoinTasks(c)
  BY <1>16 DEF JoinTasks, Goto, JoinTakes
<1>17. CASE TasksJoined(c)
  BY <1>17 DEF TasksJoined, Goto, JoinEnds, RollingBack, Over, Panicked, Disconnected
<1>18. CASE ProcessorTimeout(c)
  BY <1>18 DEF ProcessorTimeout
<1>19. CASE ProcessorJoined(c)
  BY <1>19 DEF ProcessorJoined, Goto
<1>20. CASE StopStores(c)
  BY <1>20 DEF StopStores, Goto
<1>21. CASE JoinCompletions(c)
  BY <1>21 DEF JoinCompletions, Goto, JoinTakes
<1>22. CASE CompletionsJoined(c)
  BY <1>22 DEF CompletionsJoined, Goto, JoinEnds, RollingBack, Over, Panicked
<1>23. CASE AwaitManagers(c)
  BY <1>23 DEF AwaitManagers, Goto
<1>24. CASE HandFenceOver(c)
  <2>1. HandingOver(c)  BY <1>24, HandsOver
  <2>2. QED  BY <2>1 DEF HandingOver
<1>25. CASE CloseDatabase(c)
  BY <1>25 DEF CloseDatabase, Goto
<1>26. CASE Record(c)
  BY <1>26 DEF Record, Goto, Returns, Finish, ChangeEnds
<1>27. QED
  BY <1>1, <1>2, <1>3, <1>4, <1>5, <1>6, <1>7, <1>8, <1>9, <1>10, <1>11, <1>12, <1>13,
      <1>14, <1>15, <1>16, <1>17, <1>18, <1>19, <1>20, <1>21, <1>22, <1>23, <1>24, <1>25,
      <1>26 DEF Calls, CallerStep

\* A caller tears down under the mutex, and for good only once cancelled.
LEMMA CallerTerminal ==
  ASSUME IInv, NEW c \in Callers, Calls(c) \/ CallerStep(c) \/ EnterTeardown(c)
  PROVE  TerminalOK'
<1> USE WorkersAreDistinct DEF IInv, TypeOK, PlaceOK, UnlockPlaces, StopPlaces,
    OwnerPlaces, ShutdownOK, TerminalOK, Terminal, Stopping, nodeVars, workVars,
    storeVars, stopVars, callVars, ghostVars
<1>1. CASE UseWallet(c)
  BY <1>1 DEF UseWallet, Admitted, Goto
<1>2. CASE UseEnds(c)
  BY <1>2 DEF UseEnds, Goto, Finish
<1>3. CASE Unlock(c)
  BY <1>3 DEF Unlock, Ask, Admitted, Goto
<1>4. CASE Lock(c)
  BY <1>4 DEF Lock, Ask, Admitted, Goto
<1>5. CASE BeginChange(c)
  BY <1>5 DEF BeginChange, Goto, Finish
<1>6. CASE PrepareFails(c)
  BY <1>6 DEF PrepareFails, Goto, Finish
<1>7. CASE PublishWallet(c)
  BY <1>7 DEF PublishWallet, Goto, Finish
<1>8. CASE Start(c)
  BY <1>8 DEF Start, Goto, NewRegistry, Over
<1>9. CASE StartFails(c)
  BY <1>9 DEF StartFails, Goto
<1>10. CASE Serve(c)
  BY <1>10 DEF Serve, Goto, Spawned, Panicked, Over
<1>11. CASE Publish(c)
  BY <1>11 DEF Publish, Goto, Finish
<1>12. CASE Shutdown(c)
  BY <1>12 DEF Shutdown, Goto
<1>13. CASE StateSettled(c)
  BY <1>13 DEF StateSettled, Goto
<1>14. CASE EnterTeardown(c)
  <2>1. CASE Answered(c)  BY <2>1 DEF Answered, EnterFrame
  <2>2. CASE Entered(c)  BY <2>2 DEF Entered, EnterFrame
  <2>3. QED  BY <1>14, <2>1, <2>2, Enters
<1>15. CASE TakeSession(c)
  BY <1>15 DEF TakeSession, Goto, Disconnected
<1>16. CASE JoinTasks(c)
  BY <1>16 DEF JoinTasks, Goto, JoinTakes
<1>17. CASE TasksJoined(c)
  BY <1>17 DEF TasksJoined, Goto, JoinEnds, RollingBack, Over, Panicked, Disconnected
<1>18. CASE ProcessorTimeout(c)
  BY <1>18 DEF ProcessorTimeout
<1>19. CASE ProcessorJoined(c)
  BY <1>19 DEF ProcessorJoined, Goto
<1>20. CASE StopStores(c)
  BY <1>20 DEF StopStores, Goto
<1>21. CASE JoinCompletions(c)
  BY <1>21 DEF JoinCompletions, Goto, JoinTakes
<1>22. CASE CompletionsJoined(c)
  BY <1>22 DEF CompletionsJoined, Goto, JoinEnds, RollingBack, Over, Panicked
<1>23. CASE AwaitManagers(c)
  BY <1>23 DEF AwaitManagers, Goto
<1>24. CASE HandFenceOver(c)
  <2>1. HandingOver(c)  BY <1>24, HandsOver
  <2>2. QED  BY <2>1 DEF HandingOver
<1>25. CASE CloseDatabase(c)
  BY <1>25 DEF CloseDatabase, Goto
<1>26. CASE Record(c)
  BY <1>26 DEF Record, Goto, Returns, Finish, ChangeEnds
<1>27. QED
  BY <1>1, <1>2, <1>3, <1>4, <1>5, <1>6, <1>7, <1>8, <1>9, <1>10, <1>11, <1>12, <1>13,
      <1>14, <1>15, <1>16, <1>17, <1>18, <1>19, <1>20, <1>21, <1>22, <1>23, <1>24, <1>25,
      <1>26 DEF Calls, CallerStep

\* A caller changes the state alone, or has slipped in.
LEMMA CallerChange ==
  ASSUME IInv, NEW c \in Callers, Calls(c) \/ CallerStep(c) \/ EnterTeardown(c)
  PROVE  ChangeOK'
<1> USE WorkersAreDistinct DEF IInv, TypeOK, PlaceOK, UnlockPlaces, StopPlaces,
    OwnerPlaces, ShutdownOK, TerminalOK, Terminal, ChangeOK, Changing, Changes, nodeVars,
    workVars, storeVars, stopVars, callVars, ghostVars
<1>1. CASE UseWallet(c)
  BY <1>1 DEF UseWallet, Admitted, Goto
<1>2. CASE UseEnds(c)
  BY <1>2 DEF UseEnds, Goto, Finish
<1>3. CASE Unlock(c)
  BY <1>3 DEF Unlock, Ask, Admitted, Goto
<1>4. CASE Lock(c)
  BY <1>4 DEF Lock, Ask, Admitted, Goto
<1>5. CASE BeginChange(c)
  <2>1. CASE pc'[c] = "idle"
    <3>1. /\ pc[c] = "checked" /\ pc' = [pc EXCEPT ![c] = "idle"]
          /\ call' = [call EXCEPT ![c] = "none"]
          /\ UNCHANGED <<cancelled, changing, session, db, teardown, outcome, took, finished>>
          /\ slipped' <=> slipped /\ (cancelled \/ \E d \in Callers \ {c} : call[d] \in Changes)
      BY <1>5, <2>1 DEF BeginChange, Goto, Finish
    <3>2. QED  BY <3>1
  <2>2. CASE pc'[c] # "idle"
    <3>1. /\ pc[c] = "checked" /\ pc' \in [Callers -> CallerStates]
          /\ pc'[c] \in {"preparing", "enter"} /\ \A d \in Callers \ {c} : pc'[d] = pc[d]
          /\ call' = call /\ changing' = TRUE
          /\ UNCHANGED <<cancelled, session, db, teardown, outcome, took, finished>>
          /\ slipped' <=> slipped \/ changing \/ cancelled
      BY <1>5, <2>2 DEF BeginChange, Goto, Finish, CallerStates
    <3>2. QED  BY <3>1
  <2>3. QED  BY <2>1, <2>2
<1>6. CASE PrepareFails(c)
  BY <1>6 DEF PrepareFails, Goto, Finish
<1>7. CASE PublishWallet(c)
  BY <1>7 DEF PublishWallet, Goto, Finish
<1>8. CASE Start(c)
  BY <1>8 DEF Start, Goto, NewRegistry, Over
<1>9. CASE StartFails(c)
  BY <1>9 DEF StartFails, Goto
<1>10. CASE Serve(c)
  BY <1>10 DEF Serve, Goto, Spawned, Panicked, Over
<1>11. CASE Publish(c)
  BY <1>11 DEF Publish, Goto, Finish
<1>12. CASE Shutdown(c)
  BY <1>12 DEF Shutdown, Goto
<1>13. CASE StateSettled(c)
  BY <1>13 DEF StateSettled, Goto
<1>14. CASE EnterTeardown(c)
  <2>1. CASE Answered(c)  BY <2>1 DEF Answered, EnterFrame
  <2>2. CASE Entered(c)  BY <2>2 DEF Entered, EnterFrame
  <2>3. QED  BY <1>14, <2>1, <2>2, Enters
<1>15. CASE TakeSession(c)
  BY <1>15 DEF TakeSession, Goto, Disconnected
<1>16. CASE JoinTasks(c)
  BY <1>16 DEF JoinTasks, Goto, JoinTakes
<1>17. CASE TasksJoined(c)
  BY <1>17 DEF TasksJoined, Goto, JoinEnds, RollingBack, Over, Panicked, Disconnected
<1>18. CASE ProcessorTimeout(c)
  BY <1>18 DEF ProcessorTimeout
<1>19. CASE ProcessorJoined(c)
  BY <1>19 DEF ProcessorJoined, Goto
<1>20. CASE StopStores(c)
  BY <1>20 DEF StopStores, Goto
<1>21. CASE JoinCompletions(c)
  BY <1>21 DEF JoinCompletions, Goto, JoinTakes
<1>22. CASE CompletionsJoined(c)
  BY <1>22 DEF CompletionsJoined, Goto, JoinEnds, RollingBack, Over, Panicked
<1>23. CASE AwaitManagers(c)
  BY <1>23 DEF AwaitManagers, Goto
<1>24. CASE HandFenceOver(c)
  <2>1. HandingOver(c)  BY <1>24, HandsOver
  <2>2. QED  BY <2>1 DEF HandingOver
<1>25. CASE CloseDatabase(c)
  BY <1>25 DEF CloseDatabase, Goto
<1>26. CASE Record(c)
  BY <1>26 DEF Record, Goto, Returns, Finish, ChangeEnds
<1>27. QED
  BY <1>1, <1>2, <1>3, <1>4, <1>5, <1>6, <1>7, <1>8, <1>9, <1>10, <1>11, <1>12, <1>13,
      <1>14, <1>15, <1>16, <1>17, <1>18, <1>19, <1>20, <1>21, <1>22, <1>23, <1>24, <1>25,
      <1>26 DEF Calls, CallerStep

\* A caller brings no session back that is being stopped for good.
LEMMA CallerStopped ==
  ASSUME IInv, NEW c \in Callers, Calls(c) \/ CallerStep(c) \/ EnterTeardown(c)
  PROVE  StoppedOK'
<1> USE WorkersAreDistinct DEF IInv, TypeOK, PlaceOK, UnlockPlaces, StopPlaces,
    OwnerPlaces, ShutdownOK, TerminalOK, Terminal, ChangeOK, Changing, Changes, Stopping,
    StoppedOK, Begun, nodeVars, workVars, storeVars, stopVars, callVars, ghostVars
<1>1. CASE UseWallet(c)
  BY <1>1 DEF UseWallet, Admitted, Goto
<1>2. CASE UseEnds(c)
  BY <1>2 DEF UseEnds, Goto, Finish
<1>3. CASE Unlock(c)
  BY <1>3 DEF Unlock, Ask, Admitted, Goto
<1>4. CASE Lock(c)
  BY <1>4 DEF Lock, Ask, Admitted, Goto
<1>5. CASE BeginChange(c)
  BY <1>5 DEF BeginChange, Goto, Finish
<1>6. CASE PrepareFails(c)
  BY <1>6 DEF PrepareFails, Goto, Finish
<1>7. CASE PublishWallet(c)
  BY <1>7 DEF PublishWallet, Goto, Finish
<1>8. CASE Start(c)
  BY <1>8 DEF Start, Goto, NewRegistry, Over
<1>9. CASE StartFails(c)
  BY <1>9 DEF StartFails, Goto
<1>10. CASE Serve(c)
  BY <1>10 DEF Serve, Goto, Spawned, Panicked, Over
<1>11. CASE Publish(c)
  BY <1>11 DEF Publish, Goto, Finish
<1>12. CASE Shutdown(c)
  BY <1>12 DEF Shutdown, Goto
<1>13. CASE StateSettled(c)
  BY <1>13 DEF StateSettled, Goto
<1>14. CASE EnterTeardown(c)
  <2>1. CASE Answered(c)  BY <2>1 DEF Answered, EnterFrame
  <2>2. CASE Entered(c)  BY <2>2 DEF Entered, EnterFrame
  <2>3. QED  BY <1>14, <2>1, <2>2, Enters
<1>15. CASE TakeSession(c)
  BY <1>15 DEF TakeSession, Goto, Disconnected
<1>16. CASE JoinTasks(c)
  BY <1>16 DEF JoinTasks, Goto, JoinTakes
<1>17. CASE TasksJoined(c)
  BY <1>17 DEF TasksJoined, Goto, JoinEnds, RollingBack, Over, Panicked, Disconnected
<1>18. CASE ProcessorTimeout(c)
  BY <1>18 DEF ProcessorTimeout
<1>19. CASE ProcessorJoined(c)
  BY <1>19 DEF ProcessorJoined, Goto
<1>20. CASE StopStores(c)
  BY <1>20 DEF StopStores, Goto
<1>21. CASE JoinCompletions(c)
  BY <1>21 DEF JoinCompletions, Goto, JoinTakes
<1>22. CASE CompletionsJoined(c)
  BY <1>22 DEF CompletionsJoined, Goto, JoinEnds, RollingBack, Over, Panicked
<1>23. CASE AwaitManagers(c)
  BY <1>23 DEF AwaitManagers, Goto
<1>24. CASE HandFenceOver(c)
  <2>1. HandingOver(c)  BY <1>24, HandsOver
  <2>2. QED  BY <2>1 DEF HandingOver
<1>25. CASE CloseDatabase(c)
  BY <1>25 DEF CloseDatabase, Goto
<1>26. CASE Record(c)
  BY <1>26 DEF Record, Goto, Returns, Finish, ChangeEnds
<1>27. QED
  BY <1>1, <1>2, <1>3, <1>4, <1>5, <1>6, <1>7, <1>8, <1>9, <1>10, <1>11, <1>12, <1>13,
      <1>14, <1>15, <1>16, <1>17, <1>18, <1>19, <1>20, <1>21, <1>22, <1>23, <1>24, <1>25,
      <1>26 DEF Calls, CallerStep

\* A step that is no caller's.
Besides ==
  /\ UNCHANGED <<changing, session, user, fence, db, stopVars, callVars, finished, slipped>>
  /\ cancelled' \in {cancelled, TRUE}

\* Such a step leaves the callers and the node's state alone, and may cancel.
LEMMA WorkersBeside ==
  ASSUME WorkerStep \/ Failure \/ Environment
  PROVE  Besides
<1> USE DEF Besides, nodeVars, workVars, storeVars, stopVars, callVars, ghostVars
<1>1. ASSUME NEW o \in Openers, NEW w \in Peers, Accept(o, w)  PROVE Besides
  BY <1>1 DEF Accept
<1>2. ASSUME NEW o \in Openers, SetUp(o)  PROVE Besides
  BY <1>2 DEF SetUp
<1>3. ASSUME NEW o \in Openers, GiveUp(o)  PROVE Besides
  BY <1>3 DEF GiveUp
<1>4. ASSUME NEW o \in Openers, HandOver(o)  PROVE Besides
  BY <1>4 DEF HandOver, Spawned, Over, Panicked, Disconnected
<1>5. ASSUME NEW o \in Openers, ConnectionClosed(o)  PROVE Besides
  BY <1>5 DEF ConnectionClosed
<1>6. ASSUME NEW o \in Openers, OpenerEnds(o)  PROVE Besides
  BY <1>6 DEF OpenerEnds, Disconnected
<1>7. ASSUME NEW w \in Pollers, SpawnPoller(w)  PROVE Besides
  BY <1>7 DEF SpawnPoller, Spawned, Over, Panicked
<1>8. ASSUME NEW w \in Pollers, PollerEnds(w)  PROVE Besides
  BY <1>8 DEF PollerEnds
<1>9. ASSUME NEW w \in Completions, SpawnCompletion(w)  PROVE Besides
  BY <1>9 DEF SpawnCompletion, Spawned, Over, Panicked
<1>10. ASSUME NEW w \in Completions, CompletionEnds(w)  PROVE Besides
  BY <1>10 DEF CompletionEnds
<1>11. ASSUME NEW w \in Peers, PeerEnds(w)  PROVE Besides
  BY <1>11 DEF PeerEnds
<1>12. ASSUME ProcessorFlushes  PROVE Besides
  BY <1>12 DEF ProcessorFlushes
<1>13. ASSUME NEW w \in Workers, WorkerPanics(w)  PROVE Besides
  BY <1>13 DEF WorkerPanics
<1>14. ASSUME ListenerFails  PROVE Besides
  BY <1>14 DEF ListenerFails, Disconnected
<1>15. ASSUME ProcessorFails  PROVE Besides
  BY <1>15 DEF ProcessorFails
<1>16. ASSUME NEW w \in Peers, LinkDrops(w)  PROVE Besides
  BY <1>16 DEF LinkDrops
<1>17. ASSUME ManagersReleased  PROVE Besides
  BY <1>17 DEF ManagersReleased
<1>18. ASSUME OutageTurns  PROVE Besides
  BY <1>18 DEF OutageTurns
<1>19. QED
  BY <1>1, <1>2, <1>3, <1>4, <1>5, <1>6, <1>7, <1>8, <1>9, <1>10, <1>11, <1>12, <1>13,
      <1>14, <1>15, <1>16, <1>17, <1>18 DEF WorkerStep, OpenerStep, Failure, Environment

\* So it keeps what is only about callers.
LEMMA WorkersAndCallers ==
  ASSUME IInv, WorkerStep \/ Failure \/ Environment
  PROVE  (PlaceOK /\ OwnerOK /\ ShutdownOK)'
<1>1. Besides  BY WorkersBeside
<1> USE DEF IInv, Besides, ShutdownOK, nodeVars, workVars, storeVars, stopVars, callVars, ghostVars
<1>2. PlaceOK'  BY <1>1 DEF PlaceOK
<1>3. OwnerOK'  BY <1>1 DEF OwnerOK, Owner
<1>4. TerminalOK'  BY <1>1 DEF TerminalOK, Terminal, Stopping
<1>5. ChangeOK'  BY <1>1 DEF ChangeOK, Changing, Terminal
<1>6. StoppedOK'  BY <1>1 DEF StoppedOK, Begun, Stopping
<1>7. QED  BY <1>2, <1>3, <1>4, <1>5, <1>6 DEF ShutdownOK

\* A worker's step keeps the types of the node.
LEMMA WorkerNode ==
  ASSUME TypeOK, WorkerStep \/ Failure \/ Environment
  PROVE  NodeTypes'
<1> USE DEF TypeOK, NodeTypes, nodeVars, workVars, storeVars, stopVars, callVars,
    ghostVars
<1>1. ASSUME NEW o \in Openers, NEW w \in Peers, Accept(o, w)  PROVE NodeTypes'
  BY <1>1 DEF Accept
<1>2. ASSUME NEW o \in Openers, SetUp(o)  PROVE NodeTypes'
  BY <1>2 DEF SetUp
<1>3. ASSUME NEW o \in Openers, GiveUp(o)  PROVE NodeTypes'
  BY <1>3 DEF GiveUp
<1>4. ASSUME NEW o \in Openers, HandOver(o)  PROVE NodeTypes'
  BY <1>4 DEF HandOver, Spawned, Over, Panicked, Disconnected
<1>5. ASSUME NEW o \in Openers, ConnectionClosed(o)  PROVE NodeTypes'
  BY <1>5 DEF ConnectionClosed
<1>6. ASSUME NEW o \in Openers, OpenerEnds(o)  PROVE NodeTypes'
  BY <1>6 DEF OpenerEnds, Disconnected
<1>7. ASSUME NEW w \in Pollers, SpawnPoller(w)  PROVE NodeTypes'
  BY <1>7 DEF SpawnPoller, Spawned, Over, Panicked
<1>8. ASSUME NEW w \in Pollers, PollerEnds(w)  PROVE NodeTypes'
  BY <1>8 DEF PollerEnds
<1>9. ASSUME NEW w \in Completions, SpawnCompletion(w)  PROVE NodeTypes'
  BY <1>9 DEF SpawnCompletion, Spawned, Over, Panicked
<1>10. ASSUME NEW w \in Completions, CompletionEnds(w)  PROVE NodeTypes'
  BY <1>10 DEF CompletionEnds
<1>11. ASSUME NEW w \in Peers, PeerEnds(w)  PROVE NodeTypes'
  BY <1>11 DEF PeerEnds
<1>12. ASSUME ProcessorFlushes  PROVE NodeTypes'
  BY <1>12 DEF ProcessorFlushes
<1>13. ASSUME NEW w \in Workers, WorkerPanics(w)  PROVE NodeTypes'
  BY <1>13 DEF WorkerPanics
<1>14. ASSUME ListenerFails  PROVE NodeTypes'
  BY <1>14 DEF ListenerFails, Disconnected
<1>15. ASSUME ProcessorFails  PROVE NodeTypes'
  BY <1>15 DEF ProcessorFails
<1>16. ASSUME NEW w \in Peers, LinkDrops(w)  PROVE NodeTypes'
  BY <1>16 DEF LinkDrops
<1>17. ASSUME ManagersReleased  PROVE NodeTypes'
  BY <1>17 DEF ManagersReleased
<1>18. ASSUME OutageTurns  PROVE NodeTypes'
  BY <1>18 DEF OutageTurns
<1>19. QED
  BY <1>1, <1>2, <1>3, <1>4, <1>5, <1>6, <1>7, <1>8, <1>9, <1>10, <1>11, <1>12, <1>13,
      <1>14, <1>15, <1>16, <1>17, <1>18 DEF WorkerStep, OpenerStep, Failure, Environment

\* A worker's step keeps the types of the registries and workers.
LEMMA WorkerTypes ==
  ASSUME TypeOK, WorkerStep \/ Failure \/ Environment
  PROVE  WorkTypes'
<1> USE WorkersAreDistinct DEF TypeOK, WorkTypes, Entry, Kinds, Workers, Openers,
    nodeVars, workVars, storeVars, stopVars, callVars, ghostVars
<1>1. CASE \/ ProcessorFlushes
           \/ ProcessorFails
           \/ OutageTurns
  BY <1>1 DEF ProcessorFlushes, ProcessorFails, OutageTurns
<1>2. ASSUME NEW o \in Openers, NEW w \in Peers, Accept(o, w)  PROVE WorkTypes'
  BY <1>2 DEF Accept
<1>3. ASSUME NEW o \in Openers, SetUp(o)  PROVE WorkTypes'
  BY <1>3 DEF SetUp
<1>4. ASSUME NEW o \in Openers, GiveUp(o)  PROVE WorkTypes'
  BY <1>4 DEF GiveUp
<1>5. ASSUME NEW o \in Openers, HandOver(o)  PROVE WorkTypes'
  <2>1. CASE ~Closing
    <3>1. reg' = Spawned("tasks", {busy[o]}) /\ busy[o] \in Workers
      BY <1>5, <2>1 DEF HandOver, Closing
    <3>2. reg' \in [Kinds -> Entry]
      BY <3>1 DEF Spawned
    <3>3. /\ link' = link /\ retained' = retained
          /\ state' = [state EXCEPT ![busy[o]] = "running"] /\ busy' = [busy EXCEPT ![o] = None]
      BY <1>5, <2>1 DEF HandOver
    <3>4. QED  BY <3>2, <3>3
  <2>2. CASE Closing
    <3>1. reg' = reg /\ busy' = busy /\ retained' = retained
          /\ link' = Disconnected /\ state' = [state EXCEPT ![busy[o]] = "inline"]
      BY <1>5, <2>2 DEF HandOver
    <3>2. QED  BY <3>1 DEF Disconnected
  <2>3. QED  BY <2>1, <2>2
<1>6. ASSUME NEW o \in Openers, ConnectionClosed(o)  PROVE WorkTypes'
  BY <1>6 DEF ConnectionClosed
<1>7. ASSUME NEW o \in Openers, OpenerEnds(o)  PROVE WorkTypes'
  BY <1>7 DEF OpenerEnds, Disconnected
<1>8. ASSUME NEW w \in Pollers, SpawnPoller(w)  PROVE WorkTypes'
  BY <1>8 DEF SpawnPoller, Spawned, Over, Panicked
<1>9. ASSUME NEW w \in Pollers, PollerEnds(w)  PROVE WorkTypes'
  BY <1>9 DEF PollerEnds
<1>10. ASSUME NEW w \in Completions, SpawnCompletion(w)  PROVE WorkTypes'
  BY <1>10 DEF SpawnCompletion, Spawned, Over, Panicked
<1>11. ASSUME NEW w \in Completions, CompletionEnds(w)  PROVE WorkTypes'
  BY <1>11 DEF CompletionEnds
<1>12. ASSUME NEW w \in Peers, PeerEnds(w)  PROVE WorkTypes'
  BY <1>12 DEF PeerEnds
<1>13. ASSUME NEW w \in Workers, WorkerPanics(w)  PROVE WorkTypes'
  BY <1>13 DEF WorkerPanics
<1>14. ASSUME ListenerFails  PROVE WorkTypes'
  <2>1. reg' = [reg EXCEPT !["tasks"].failed = TRUE]  BY <1>14 DEF ListenerFails
  <2>2. reg \in [Kinds -> Entry] /\ "tasks" \in Kinds  OBVIOUS
  <2>3. reg' \in [Kinds -> Entry]
    <3> HIDE DEF Entry, Kinds
    <3>1. QED  BY <2>1, <2>2, Entries
  <2>4. QED  BY <1>14, <2>3 DEF ListenerFails, Disconnected
<1>15. ASSUME NEW w \in Peers, LinkDrops(w)  PROVE WorkTypes'
  BY <1>15 DEF LinkDrops
<1>16. ASSUME ManagersReleased  PROVE WorkTypes'
  BY <1>16 DEF ManagersReleased
<1>17. QED
  BY <1>1, <1>2, <1>3, <1>4, <1>5, <1>6, <1>7, <1>8, <1>9, <1>10, <1>11, <1>12, <1>13,
      <1>14, <1>15, <1>16 DEF WorkerStep, OpenerStep, Failure, Environment

\* The background processor ends or fails, and does not come back.
LEMMA WorkerProcessor ==
  ASSUME IInv, WorkerStep \/ Failure \/ Environment
  PROVE  ProcessorOK'
<1> USE DEF IInv, SessionOK, ProcessorOK, nodeVars, workVars, storeVars, stopVars,
    callVars, ghostVars
<1>1. CASE \/ \E o \in Openers : \E w \in Peers : Accept(o, w)
           \/ \E o \in Openers : SetUp(o)
           \/ \E o \in Openers : GiveUp(o)
           \/ \E o \in Openers : HandOver(o)
           \/ \E o \in Openers : ConnectionClosed(o)
           \/ \E o \in Openers : OpenerEnds(o)
           \/ \E w \in Pollers : SpawnPoller(w)
           \/ \E w \in Pollers : PollerEnds(w)
           \/ \E w \in Completions : SpawnCompletion(w)
           \/ \E w \in Completions : CompletionEnds(w)
           \/ \E w \in Peers : PeerEnds(w)
           \/ \E w \in Workers : WorkerPanics(w)
           \/ ListenerFails
           \/ \E w \in Peers : LinkDrops(w)
           \/ ManagersReleased
           \/ OutageTurns
  BY <1>1 DEF Accept, SetUp, GiveUp, HandOver, Spawned, Over, Panicked, Disconnected,
      ConnectionClosed, OpenerEnds, SpawnPoller, PollerEnds, SpawnCompletion,
      CompletionEnds, PeerEnds, WorkerPanics, ListenerFails, LinkDrops, ManagersReleased,
      OutageTurns
<1>2. ASSUME ProcessorFlushes  PROVE ProcessorOK'
  BY <1>2 DEF ProcessorFlushes
<1>3. ASSUME ProcessorFails  PROVE ProcessorOK'
  BY <1>3 DEF ProcessorFails
<1>4. QED
  BY <1>1, <1>2, <1>3 DEF WorkerStep, OpenerStep, Failure, Environment

\* Workers are spawned in open registries only, and fail while they are held.
LEMMA WorkerRegistries ==
  ASSUME IInv, WorkerStep \/ Failure \/ Environment
  PROVE  RegistryOK'
<1> USE WorkersAreDistinct DEF IInv, TypeOK, PlaceOK, SessionOK, RegistryOK, Before,
    Joining, Kinds, WorkersOK, Held, Registry, Workers, Openers, nodeVars, workVars,
    storeVars, stopVars, callVars, ghostVars
<1>1. CASE \/ \E o \in Openers : \E w \in Peers : Accept(o, w)
           \/ \E o \in Openers : SetUp(o)
           \/ \E o \in Openers : GiveUp(o)
           \/ \E o \in Openers : ConnectionClosed(o)
           \/ \E o \in Openers : OpenerEnds(o)
           \/ \E w \in Pollers : PollerEnds(w)
           \/ \E w \in Completions : CompletionEnds(w)
           \/ \E w \in Peers : PeerEnds(w)
           \/ ProcessorFlushes
           \/ \E w \in Workers : WorkerPanics(w)
           \/ ProcessorFails
           \/ \E w \in Peers : LinkDrops(w)
           \/ ManagersReleased
           \/ OutageTurns
  BY <1>1 DEF Accept, SetUp, GiveUp, ConnectionClosed, OpenerEnds, Disconnected,
      PollerEnds, CompletionEnds, PeerEnds, ProcessorFlushes, WorkerPanics,
      ProcessorFails, LinkDrops, ManagersReleased, OutageTurns
<1>2. ASSUME NEW o \in Openers, HandOver(o)  PROVE RegistryOK'
  <2>1. CASE ~Closing
    <3>1. Spawning("tasks", {busy[o]}) /\ ~reg["tasks"].closed
      BY <1>2, <2>1, Spawns DEF HandOver, Closing
    <3>2. QED  BY <1>2, <3>1 DEF HandOver, Spawning
  <2>2. CASE Closing
    BY <1>2, <2>2 DEF HandOver
  <2>3. QED  BY <2>1, <2>2
<1>3. ASSUME NEW w \in Pollers, SpawnPoller(w)  PROVE RegistryOK'
  <2>1. Spawning("tasks", {w}) /\ ~reg["tasks"].closed
    BY <1>3, Spawns DEF SpawnPoller, Closing
  <2>2. QED  BY <1>3, <2>1 DEF SpawnPoller, Spawning
<1>4. ASSUME NEW w \in Completions, SpawnCompletion(w)  PROVE RegistryOK'
  BY <1>4 DEF SpawnCompletion, Spawned, Over, Panicked
<1>5. ASSUME ListenerFails  PROVE RegistryOK'
  BY <1>5 DEF ListenerFails, Disconnected
<1>6. QED
  BY <1>1, <1>2, <1>3, <1>4, <1>5 DEF WorkerStep, OpenerStep, Failure, Environment

\* A worker that comes to run is held, and a connection is in the hands of a running opener.
LEMMA WorkerWorkers ==
  ASSUME IInv, WorkerStep \/ Failure \/ Environment
  PROVE  WorkersOK'
<1> USE WorkersAreDistinct DEF IInv, TypeOK, PlaceOK, UnlockPlaces, StopPlaces,
    OwnerPlaces, OwnerOK, Owner, SessionOK, RegistryOK, Before, Joining, Kinds, WorkersOK,
    Held, Registry, Unopened, Workers, Openers, nodeVars, workVars, storeVars, stopVars,
    callVars, ghostVars
<1>1. ASSUME NEW o \in Openers, NEW w \in Peers, Accept(o, w)  PROVE WorkersOK'
  BY <1>1 DEF Accept
<1>2. ASSUME NEW o \in Openers, SetUp(o)  PROVE WorkersOK'
  BY <1>2 DEF SetUp
<1>3. ASSUME NEW o \in Openers, GiveUp(o)  PROVE WorkersOK'
  BY <1>3 DEF GiveUp
<1>4. ASSUME NEW o \in Openers, HandOver(o)  PROVE WorkersOK'
  BY <1>4 DEF HandOver, Spawned, Over, Panicked, Disconnected
<1>5. ASSUME NEW o \in Openers, ConnectionClosed(o)  PROVE WorkersOK'
  BY <1>5 DEF ConnectionClosed
<1>6. ASSUME NEW o \in Openers, OpenerEnds(o)  PROVE WorkersOK'
  BY <1>6 DEF OpenerEnds, Disconnected
<1>7. ASSUME NEW w \in Pollers, SpawnPoller(w)  PROVE WorkersOK'
  BY <1>7 DEF SpawnPoller, Spawned, Over, Panicked
<1>8. ASSUME NEW w \in Pollers, PollerEnds(w)  PROVE WorkersOK'
  BY <1>8 DEF PollerEnds
<1>9. ASSUME NEW w \in Completions, SpawnCompletion(w)  PROVE WorkersOK'
  BY <1>9 DEF SpawnCompletion, Spawned, Over, Panicked
<1>10. ASSUME NEW w \in Completions, CompletionEnds(w)  PROVE WorkersOK'
  BY <1>10 DEF CompletionEnds
<1>11. ASSUME NEW w \in Peers, PeerEnds(w)  PROVE WorkersOK'
  BY <1>11 DEF PeerEnds
<1>12. ASSUME ProcessorFlushes  PROVE WorkersOK'
  BY <1>12 DEF ProcessorFlushes
<1>13. ASSUME NEW w \in Workers, WorkerPanics(w)  PROVE WorkersOK'
  BY <1>13 DEF WorkerPanics
<1>14. ASSUME ListenerFails  PROVE WorkersOK'
  BY <1>14 DEF ListenerFails, Disconnected
<1>15. ASSUME ProcessorFails  PROVE WorkersOK'
  BY <1>15 DEF ProcessorFails
<1>16. ASSUME NEW w \in Peers, LinkDrops(w)  PROVE WorkersOK'
  BY <1>16 DEF LinkDrops
<1>17. ASSUME ManagersReleased  PROVE WorkersOK'
  BY <1>17 DEF ManagersReleased
<1>18. ASSUME OutageTurns  PROVE WorkersOK'
  BY <1>18 DEF OutageTurns
<1>19. QED
  BY <1>1, <1>2, <1>3, <1>4, <1>5, <1>6, <1>7, <1>8, <1>9, <1>10, <1>11, <1>12, <1>13,
      <1>14, <1>15, <1>16, <1>17, <1>18 DEF WorkerStep, OpenerStep, Failure, Environment

\* A failure stays where its owner will look.
LEMMA WorkerFailures ==
  ASSUME IInv, WorkerStep \/ Failure \/ Environment
  PROVE  FailureOK'
<1> USE WorkersAreDistinct DEF IInv, TypeOK, PlaceOK, UnlockPlaces, StopPlaces,
    OwnerPlaces, OwnerOK, Owner, SessionOK, RegistryOK, Before, Joining, Kinds,
    ProcessorOK, FailureOK, Unreported, WorkersOK, Held, Registry, Unopened, Workers,
    Openers, nodeVars, workVars, storeVars, stopVars, callVars, ghostVars
<1>1. ASSUME NEW o \in Openers, NEW w \in Peers, Accept(o, w)  PROVE FailureOK'
  BY <1>1 DEF Accept
<1>2. ASSUME NEW o \in Openers, SetUp(o)  PROVE FailureOK'
  BY <1>2 DEF SetUp
<1>3. ASSUME NEW o \in Openers, GiveUp(o)  PROVE FailureOK'
  BY <1>3 DEF GiveUp
<1>4. ASSUME NEW o \in Openers, HandOver(o)  PROVE FailureOK'
  <2>1. \A v \in Workers : state[v] = "panicked" => state'[v] = "panicked"
    BY <1>4 DEF HandOver
  <2>2. CASE ~Closing
    <3>1. Spawning("tasks", {busy[o]})
      BY <1>4, <2>2, Spawns DEF HandOver, Closing
    <3>2. Unreported => Unreported'
      <4> HIDE DEF Unreported
      <4>1. QED  BY <1>4, <2>1, <3>1, ReapingReports DEF HandOver
    <3>3. QED  BY <1>4, <3>2 DEF HandOver
  <2>3. CASE Closing
    <3>1. Unreported => Unreported'
      BY <1>4, <2>1, <2>3 DEF HandOver
    <3>2. QED  BY <1>4, <3>1 DEF HandOver
  <2>4. QED  BY <2>2, <2>3
<1>5. ASSUME NEW o \in Openers, ConnectionClosed(o)  PROVE FailureOK'
  BY <1>5 DEF ConnectionClosed
<1>6. ASSUME NEW o \in Openers, OpenerEnds(o)  PROVE FailureOK'
  BY <1>6 DEF OpenerEnds, Disconnected
<1>7. ASSUME NEW w \in Pollers, SpawnPoller(w)  PROVE FailureOK'
  <2>1. Spawning("tasks", {w})
    BY <1>7, Spawns DEF SpawnPoller
  <2>2. \A v \in Workers : state[v] = "panicked" => state'[v] = "panicked"
    BY <1>7 DEF SpawnPoller
  <2>3. Unreported => Unreported'
    <3> HIDE DEF Unreported
    <3>1. QED  BY <1>7, <2>1, <2>2, ReapingReports DEF SpawnPoller
  <2>4. QED  BY <1>7, <2>3 DEF SpawnPoller
<1>8. ASSUME NEW w \in Pollers, PollerEnds(w)  PROVE FailureOK'
  BY <1>8 DEF PollerEnds
<1>9. ASSUME NEW w \in Completions, SpawnCompletion(w)  PROVE FailureOK'
  <2>1. Spawning("completions", {w})
    BY <1>9, Spawns DEF SpawnCompletion
  <2>2. \A v \in Workers : state[v] = "panicked" => state'[v] = "panicked"
    BY <1>9 DEF SpawnCompletion
  <2>3. Unreported => Unreported'
    <3> HIDE DEF Unreported
    <3>1. QED  BY <1>9, <2>1, <2>2, ReapingReports DEF SpawnCompletion
  <2>4. QED  BY <1>9, <2>3 DEF SpawnCompletion
<1>10. ASSUME NEW w \in Completions, CompletionEnds(w)  PROVE FailureOK'
  BY <1>10 DEF CompletionEnds
<1>11. ASSUME NEW w \in Peers, PeerEnds(w)  PROVE FailureOK'
  BY <1>11 DEF PeerEnds
<1>12. ASSUME ProcessorFlushes  PROVE FailureOK'
  BY <1>12 DEF ProcessorFlushes
<1>13. ASSUME NEW w \in Workers, WorkerPanics(w)  PROVE FailureOK'
  BY <1>13 DEF WorkerPanics
<1>14. ASSUME ListenerFails  PROVE FailureOK'
  BY <1>14 DEF ListenerFails, Disconnected
<1>15. ASSUME ProcessorFails  PROVE FailureOK'
  BY <1>15 DEF ProcessorFails
<1>16. ASSUME NEW w \in Peers, LinkDrops(w)  PROVE FailureOK'
  BY <1>16 DEF LinkDrops
<1>17. ASSUME ManagersReleased  PROVE FailureOK'
  BY <1>17 DEF ManagersReleased
<1>18. ASSUME OutageTurns  PROVE FailureOK'
  BY <1>18 DEF OutageTurns
<1>19. QED
  BY <1>1, <1>2, <1>3, <1>4, <1>5, <1>6, <1>7, <1>8, <1>9, <1>10, <1>11, <1>12, <1>13,
      <1>14, <1>15, <1>16, <1>17, <1>18 DEF WorkerStep, OpenerStep, Failure, Environment

\* A connection is set up in a session with a listener, whose owner has yet to notice.
LEMMA WorkerManagers ==
  ASSUME IInv, WorkerStep \/ Failure \/ Environment
  PROVE  ManagersOK'
<1>1. CASE retained' = retained
  <2>1. Besides  BY WorkersBeside
  <2>2. QED  BY <1>1, <2>1 DEF Besides, IInv, SessionOK, ManagersOK, Unopened, nodeVars,
      workVars, storeVars, stopVars, callVars, ghostVars
<1>2. ASSUME NEW o \in Openers, SetUp(o)  PROVE ManagersOK'
  BY <1>2, WorkersAreDistinct DEF SetUp, IInv, TypeOK, PlaceOK, UnlockPlaces, StopPlaces,
      OwnerPlaces, OwnerOK, Owner, SessionOK, RegistryOK, Before, Joining, Kinds,
      WorkersOK, Held, Registry, ManagersOK, Unopened, Workers, Openers, nodeVars,
      workVars, storeVars, stopVars, callVars, ghostVars
<1>3. CASE ManagersReleased
  BY <1>3 DEF ManagersReleased, ManagersOK
<1>4. QED
  BY <1>1, <1>2, <1>3 DEF WorkerStep, OpenerStep, Failure, Environment, Accept, GiveUp,
      HandOver, ConnectionClosed, OpenerEnds, SpawnPoller, PollerEnds, SpawnCompletion,
      CompletionEnds, PeerEnds, ProcessorFlushes, WorkerPanics, ListenerFails,
      ProcessorFails, LinkDrops, OutageTurns, nodeVars, workVars, storeVars, stopVars,
      callVars, ghostVars

-----------------------------------------------------------------------------
(* The invariant.                                                           *)

\* A node nobody has unlocked satisfies it.
LEMMA Initially == Init => IInv
<1> SUFFICES ASSUME Init PROVE IInv
  OBVIOUS
<1> USE WorkersAreDistinct DEF Init, NewRegistry, Kinds
<1>1. TypeOK
  BY DEF TypeOK, CallerStates
<1>2. PlaceOK
  BY DEF PlaceOK, OwnerPlaces
<1>3. OwnerOK
  BY DEF OwnerOK, Owner
<1>4. SessionOK
  BY DEF SessionOK, ProcessorOK, RegistryOK, WorkersOK, Workers, Openers, FailureOK,
         ManagersOK, Unopened
<1>5. ShutdownOK
  BY DEF ShutdownOK, TerminalOK, Terminal, ChangeOK, Changing, Changes, StoppedOK,
         Stopping, OwnerPlaces
<1>6. QED  BY <1>1, <1>2, <1>3, <1>4, <1>5 DEF IInv

\* Every step preserves it.
LEMMA Steps == IInv /\ [Next]_vars => IInv'
<1> SUFFICES ASSUME IInv, [Next]_vars PROVE IInv'
  OBVIOUS
<1>1. ASSUME NEW c \in Callers, Calls(c) \/ CallerStep(c) \/ EnterTeardown(c)
      PROVE  IInv'
  <2>1. TypeOK'
    <3>1. TypeOK  BY DEF IInv
    <3>2. CallTypes'  BY <1>1, <3>1, CallerCalls
    <3>3. NodeTypes'  BY <1>1, <3>1, CallerNode
    <3>4. WorkTypes'  BY <1>1, <3>1, CallerWork
    <3>5. QED  BY <3>2, <3>3, <3>4 DEF TypeOK, CallTypes, NodeTypes, WorkTypes, Entry
  <2>2. PlaceOK' /\ OwnerOK'
    BY <1>1, CallerPlaces, CallerOwners
  <2>3. SessionOK'
    BY <1>1, CallerProcessor, CallerRegistries, CallerWorkers, CallerFailures, CallerManagers
    DEF SessionOK
  <2>4. ShutdownOK'
    BY <1>1, CallerTerminal, CallerChange, CallerStopped DEF ShutdownOK
  <2>5. QED  BY <2>1, <2>2, <2>3, <2>4 DEF IInv
<1>2. CASE WorkerStep \/ Failure \/ Environment
  <2>1. TypeOK'
    <3>1. TypeOK  BY DEF IInv
    <3>2. NodeTypes'  BY <1>2, <3>1, WorkerNode
    <3>3. WorkTypes'  BY <1>2, <3>1, WorkerTypes
    <3>4. CallTypes'  BY <1>2, <3>1, WorkersBeside DEF Besides, TypeOK, CallTypes, callVars
    <3>5. QED  BY <3>2, <3>3, <3>4 DEF TypeOK, CallTypes, NodeTypes, WorkTypes, Entry
  <2>2. (PlaceOK /\ OwnerOK /\ ShutdownOK)'
    BY <1>2, WorkersAndCallers
  <2>3. SessionOK'
    BY <1>2, WorkerProcessor, WorkerRegistries, WorkerWorkers, WorkerFailures, WorkerManagers
    DEF SessionOK
  <2>4. QED  BY <2>1, <2>2, <2>3 DEF IInv
<1>3. CASE UNCHANGED vars
  <2>1. TypeOK'
    BY <1>3 DEF IInv, TypeOK, vars, nodeVars, workVars, storeVars, stopVars, callVars, ghostVars
  <2>2. PlaceOK' /\ OwnerOK'
    BY <1>3 DEF IInv, PlaceOK, OwnerOK, Owner, vars, nodeVars, callVars
  <2>3. SessionOK'
    BY <1>3 DEF IInv, SessionOK, ProcessorOK, RegistryOK, WorkersOK, Held, FailureOK, Owner,
                Unreported, ManagersOK, Unopened, vars, nodeVars, workVars, storeVars,
                callVars, ghostVars
  <2>4. ShutdownOK'
    BY <1>3 DEF IInv, ShutdownOK, TerminalOK, Terminal, ChangeOK, Changing, StoppedOK,
                Stopping, Begun, vars, nodeVars, stopVars, callVars, ghostVars
  <2>5. QED  BY <2>1, <2>2, <2>3, <2>4 DEF IInv
<1>4. QED  BY <1>1, <1>2, <1>3 DEF Next

LEMMA Invariance == Spec => []IInv
BY Initially, Steps, PTL DEF Spec

-----------------------------------------------------------------------------
(* The properties.                                                          *)

\* Every variable keeps its type.
THEOREM SessionsAreTyped == Spec => []TypeOK
<1>1. IInv => TypeOK  BY DEF IInv
<1>2. QED  BY <1>1, Invariance, PTL

\* While the fence is free nothing of a session is left that could write: there is
\* no owner then, and without one nothing is held.
THEOREM FencesOutliveWriters == Spec => []FenceOutlivesWriters
<1>1. IInv => FenceOutlivesWriters
  <2> SUFFICES ASSUME IInv, fence = "free" PROVE ~Writing /\ session = "none"
    BY DEF FenceOutlivesWriters
  <2>1. session = "none" /\ \A c \in Callers : ~Owner(c)
    BY DEF IInv, OwnerOK
  <2>2. QED  BY <2>1, Quiet
<1>2. QED  BY <1>1, Invariance, PTL

\* Only a caller in place "fence" frees the fence, and it has collected every
\* failure of the session by then.
LEMMA CleanHandOver ==
  ASSUME IInv, NEW c \in Callers, pc[c] = "fence", broken
  PROVE  errs[c]
<1> USE DEF IInv, TypeOK, PlaceOK, OwnerPlaces, OwnerOK, Owner, SessionOK
<1>1. /\ took[c] # "none" /\ session = "none"
      /\ \A d \in Callers \ {c} : took[d] = "none" /\ pc[d] \notin {"starting", "serving"}
  OBVIOUS
<1>2. bp = "none"
  BY <1>1 DEF ProcessorOK
<1>3. \A k \in Kinds : reg[k].handles = {} /\ ~reg[k].failed
  BY <1>1 DEF RegistryOK, Before, Joining, Kinds
<1>4. \A w \in Workers : ~Held(w)
  BY <1>1, <1>3 DEF Held, Registry, Joining, Kinds
<1>5. ~Unreported
  BY <1>2, <1>3, <1>4 DEF Unreported
<1>6. QED  BY <1>1, <1>5 DEF FailureOK

\* The fence is never given away after something of the session has failed.
THEOREM FailuresKeepFences == Spec => FailuresKeepTheFence
<1>1. IInv /\ [Next]_vars => [fence = "held" /\ fence' = "free" => ~broken]_vars
  <2> SUFFICES ASSUME IInv, Next, fence = "held", fence' = "free", broken
               PROVE  FALSE
    BY DEF vars
  <2>1. PICK c \in Callers : HandFenceOver(c)
    <3>1. CASE WorkerStep \/ Failure \/ Environment
      BY <3>1, WorkersBeside DEF Besides
    <3>2. ASSUME NEW c \in Callers, Calls(c) \/ CallerStep(c) \/ EnterTeardown(c),
                 ~HandFenceOver(c)
          PROVE  FALSE
      BY <3>2 DEF Calls, CallerStep, UseWallet, UseEnds, Unlock, Lock, Ask, Shutdown, BeginChange,
         PrepareFails, PublishWallet, Start, StartFails, Serve, Publish, StateSettled,
         EnterTeardown, TakeSession, JoinTasks, TasksJoined, ProcessorTimeout, ProcessorJoined,
         StopStores, JoinCompletions, CompletionsJoined, AwaitManagers, CloseDatabase, Record,
         nodeVars
    <3>3. QED  BY <3>1, <3>2 DEF Next
  <2>2. pc[c] = "fence" /\ ~errs[c]
    BY <2>1 DEF HandFenceOver
  <2>3. QED  BY <2>2, CleanHandOver
<1>2. QED  BY <1>1, Invariance, PTL DEF Spec, FailuresKeepTheFence

\* After a shutdown that returned Ok nothing is left or begins again, but for what
\* slips in.
THEOREM ShutdownsAreFinal == Spec => []ShutdownIsFinal
<1>1. IInv => ShutdownIsFinal
  <2> SUFFICES ASSUME IInv, finished, ~slipped
               PROVE  /\ ~Writing /\ session = "none" /\ ~changing
                      /\ retained => fence = "held"
                      /\ \A c \in Callers : took[c] = "none"
    BY DEF ShutdownIsFinal
  <2>1. session = "none" /\ \A c \in Callers : took[c] = "none" /\ ~Begun(c)
    BY DEF IInv, ShutdownOK, StoppedOK
  <2>2. \A c \in Callers : ~Owner(c)
    BY <2>1 DEF IInv, TypeOK, PlaceOK, StopPlaces, Owner, Begun
  <2>3. ~Writing  BY <2>1, <2>2, Quiet
  <2>4. ~changing  BY DEF IInv, ShutdownOK, ChangeOK
  <2>5. retained => fence = "held"  BY DEF IInv, SessionOK, ManagersOK
  <2>6. QED  BY <2>1, <2>3, <2>4, <2>5
<1>2. QED  BY <1>1, Invariance, PTL

\* The database is closed for good, and after everything that persists to it.
THEOREM DatabasesOutliveUsers == Spec => []DatabaseOutlivesUsers
<1>1. IInv => DatabaseOutlivesUsers
  <2> SUFFICES ASSUME IInv, db = "closed", ~slipped
               PROVE  /\ cancelled /\ ~Writing /\ session = "none"
                      /\ \A c \in Callers : took[c] = "none"
    BY DEF DatabaseOutlivesUsers
  <2>1. session = "none" /\ \A c \in Callers : took[c] = "none" /\ ~Begun(c)
    BY DEF IInv, ShutdownOK, StoppedOK
  <2>2. \A c \in Callers : ~Owner(c)
    BY <2>1 DEF IInv, TypeOK, PlaceOK, StopPlaces, Owner, Begun
  <2>3. ~Writing  BY <2>1, <2>2, Quiet
  <2>4. cancelled  BY DEF IInv, ShutdownOK, TerminalOK
  <2>5. QED  BY <2>1, <2>3, <2>4
<1>2. QED  BY <1>1, Invariance, PTL

=============================================================================
