----------------------------- MODULE VssRestore -------------------------------
(***************************************************************************)
(* Restoring a wallet's directory from its cloud archive                   *)
(* (src/uniffi_api/vss_restore.rs of the native overlay): processes that   *)
(* share a storage directory prepare a restore, open wallets in it, die,   *)
(* and lose what the directory had not been synchronised for, while others *)
(* upload.                                                                 *)
(*                                                                         *)
(* A preparation downloads into a private staging directory, signs a       *)
(* receipt with a key kept outside the wallet, and moves the staged wallet *)
(* to its place in one rename that replaces nothing.                       *)
(***************************************************************************)
EXTENDS Naturals

CONSTANTS
  Process,     \* processes that have a node on the storage directory
  Key,         \* receipt keys that may be drawn
  MaxVersion,  \* bound: the archive's highest version
  Local,       \* a wallet directory that no restore has made
  None         \* no wallet, no key, no archive

\* What the server holds, and what a download brings: the snapshot of a
\* version, whose manifest is this wallet's own or is not.
Archive == [version : 1 .. MaxVersion, own : BOOLEAN]

\* A restored directory: what was extracted, the version its receipt names and
\* the key that signed it, and what a power loss does to it.
Wallet == [content : Archive, version : 1 .. MaxVersion, key : Key, synced : BOOLEAN]

\* The entries of the storage directory, and the marker inside the wallet's.
Directory == [key : Key \cup {None}, wallet : Wallet \cup {Local, None}, marker : BOOLEAN]

ASSUME RestoreAssumption ==
  /\ MaxVersion \in Nat
  /\ None # Local
  /\ None \notin Key \cup (1 .. MaxVersion) \cup Archive
  /\ None \notin Wallet /\ Local \notin Wallet

Job == [version : (1 .. MaxVersion) \cup {None}, content : Archive \cup {None},
        key : Key \cup {None}]

NoJob == [version |-> None, content |-> None, key |-> None]

VARIABLES
  base,       \* the storage directory as processes see it
  past,       \* history: what it may be after a power loss
  drawn,      \* history: the keys drawn so far
  remote,     \* the newest archive on the server
  call,       \* how far each process's preparation is; it holds the guard
  job,        \* the preparation's versions, stage and key
  changing,   \* processes whose node is being unlocked
  unlocked,   \* processes whose wallet is open
  cancelled,  \* processes whose node is terminal
  stopped,    \* processes whose shutdown has returned
  answered    \* history: the versions a preparation reported as just restored

disk == <<base, past, drawn>>
nodes == <<changing, unlocked, cancelled, stopped>>
vars == <<disk, remote, call, job, nodes, answered>>

Place == {"idle", "look", "version", "download", "check", "key", "promoteKey", "syncKey",
          "stage", "promote", "sync"}

\* A preparation has what its place needs.
JobOK ==
  /\ job \in [Process -> Job]
  /\ \A p \in Process :
       /\ call[p] \notin {"idle", "look", "version"} => job[p].version # None
       /\ call[p] \in {"check", "key", "promoteKey", "syncKey", "stage", "promote"}
            => job[p].content # None
       /\ call[p] \in {"syncKey", "stage", "promote"} => job[p].key # None

DiskOK ==
  /\ base \in Directory
  /\ past \subseteq Directory /\ base \in past
  /\ drawn \subseteq Key

TypeOK ==
  /\ DiskOK
  /\ JobOK
  /\ remote \in Archive \cup {None}
  /\ call \in [Process -> Place]
  /\ changing \subseteq Process /\ unlocked \subseteq Process
  /\ cancelled \subseteq Process /\ stopped \subseteq Process
  /\ answered \subseteq 1 .. MaxVersion

Init ==
  /\ base \in {[key |-> None, wallet |-> w, marker |-> FALSE] : w \in {None, Local}}
  /\ past = {base}
  /\ drawn = {}
  /\ remote = None
  /\ call = [p \in Process |-> "idle"]
  /\ job = [p \in Process |-> NoJob]
  /\ changing = {} /\ unlocked = {} /\ cancelled = {} /\ stopped = {}
  /\ answered = {}

(***************************************************************************)
(* The storage directory.                                                  *)
(***************************************************************************)

\* Entries are renamed in order, and a power loss undoes the last ones that no
\* synchronisation of the directory has made durable.
Becomes(directory) ==
  /\ base' = directory
  /\ past' = past \cup {directory}

\* Mutation: the synchronisation is left out.
Synced_Not == UNCHANGED past

\* base.sync_all makes the entries durable, not what changes below them.
Synced == past' = {d \in past : d.key = base.key /\ d.wallet = base.wallet}

\* load_receipt: the receipt is whole and signed with the present key, and the
\* manifest is this wallet's own.
Receipted(directory) ==
  /\ directory.wallet \notin {None, Local}
  /\ directory.wallet.key = directory.key
  /\ directory.wallet.content.own

(***************************************************************************)
(* prepare                                                                 *)
(***************************************************************************)

Goto(p, place) == call' = [call EXCEPT ![p] = place]

\* Any return releases the guard and removes the staging directory.
Return(p) ==
  /\ Goto(p, "idle")
  /\ job' = [job EXCEPT ![p] = NoJob]

\* check_state
Available(p) == p \notin cancelled \cup changing

\* The guard is had once no other call on the node's wallet runs.
Prepare(p) ==
  /\ call[p] = "idle" /\ Available(p)
  /\ p \notin unlocked
  /\ Goto(p, "look")
  /\ UNCHANGED <<disk, remote, job, nodes, answered>>

\* A wallet that is there is a finished restore, whose receipt says so, or a
\* conflict; the first is answered as restored.
Look(p) ==
  /\ call[p] = "look"
  /\ IF base.wallet = None THEN Goto(p, "version") /\ UNCHANGED job ELSE Return(p)
  /\ UNCHANGED <<disk, remote, nodes, answered>>

ReadVersion(p) ==
  /\ call[p] = "version"
  /\ IF remote = None
       THEN Return(p)
       ELSE /\ job' = [job EXCEPT ![p].version = remote.version]
            /\ Goto(p, "download")
  /\ UNCHANGED <<disk, remote, nodes, answered>>

\* Mutation: the archive is extracted without its manifest being looked at.
Admitted_Any(archive) == TRUE

\* archive_plan admits an archive with this wallet's own manifest.
Admitted(archive) == archive.own

\* Whatever is the newest by now is downloaded and extracted to the stage.
Download(p) ==
  /\ call[p] = "download"
  /\ IF Admitted(remote)
       THEN /\ job' = [job EXCEPT ![p].content = remote]
            /\ Goto(p, "check")
       ELSE Return(p)
  /\ UNCHANGED <<disk, remote, nodes, answered>>

\* Mutation: the version is not read again.
CheckVersion_Once(p) ==
  /\ call[p] = "check"
  /\ IF Available(p) THEN Goto(p, "key") /\ UNCHANGED job ELSE Return(p)
  /\ UNCHANGED <<disk, remote, nodes, answered>>

CheckVersion(p) ==
  /\ call[p] = "check"
  /\ IF remote.version = job[p].version /\ Available(p)
       THEN Goto(p, "key") /\ UNCHANGED job
       ELSE Return(p)
  /\ UNCHANGED <<disk, remote, nodes, answered>>

\* Mutation: a key is taken to be there.
TakeKey_Assumed(p) ==
  /\ call[p] = "key"
  /\ job' = [job EXCEPT ![p].key = base.key]
  /\ Goto(p, "stage")
  /\ UNCHANGED <<disk, remote, nodes, answered>>

\* receipt_key: a key that is there is used, whoever made it.
TakeKey(p) ==
  /\ call[p] = "key"
  /\ IF base.key # None
       THEN /\ job' = [job EXCEPT ![p].key = base.key]
            /\ Goto(p, "stage")
       ELSE Goto(p, "promoteKey") /\ UNCHANGED job
  /\ UNCHANGED <<disk, remote, nodes, answered>>

\* Mutation: the own key replaces one that has appeared meanwhile.
PromoteKey_Replaces(p) ==
  /\ call[p] = "promoteKey"
  /\ \E k \in Key \ drawn :
       /\ drawn' = drawn \cup {k}
       /\ Becomes([base EXCEPT !.key = k])
       /\ job' = [job EXCEPT ![p].key = k]
  /\ Goto(p, "syncKey")
  /\ UNCHANGED <<remote, nodes, answered>>

\* Otherwise a new one is written aside, synchronised and moved there; one that
\* has appeared meanwhile is used instead.
PromoteKey(p) ==
  /\ call[p] = "promoteKey"
  /\ IF base.key # None
       THEN /\ job' = [job EXCEPT ![p].key = base.key]
            /\ Goto(p, "stage")
            /\ UNCHANGED disk
       ELSE /\ \E k \in Key \ drawn :
                 /\ drawn' = drawn \cup {k}
                 /\ Becomes([base EXCEPT !.key = k])
                 /\ job' = [job EXCEPT ![p].key = k]
            /\ Goto(p, "syncKey")
  /\ UNCHANGED <<remote, nodes, answered>>

SyncKey(p) ==
  /\ call[p] = "syncKey"
  /\ Synced
  /\ Goto(p, "stage")
  /\ UNCHANGED <<base, drawn, remote, job, nodes, answered>>

\* Receipt and marker are put into the stage, all of it is synchronised, and
\* the node is looked at a last time.
Stage(p) ==
  /\ call[p] = "stage"
  /\ IF Available(p) THEN Goto(p, "promote") /\ UNCHANGED job ELSE Return(p)
  /\ UNCHANGED <<disk, remote, nodes, answered>>

\* Mutation: the stage is moved without its files being synchronised.
Staged_Unsynced(p) ==
  [content |-> job[p].content, version |-> job[p].version, key |-> job[p].key,
   synced |-> FALSE]

\* What the stage holds when it is moved.
Staged(p) ==
  [content |-> job[p].content, version |-> job[p].version, key |-> job[p].key,
   synced |-> TRUE]

\* Mutation: a plain rename, which takes the place of what is there.
Promote_Replaces(p) ==
  /\ call[p] = "promote"
  /\ Becomes([base EXCEPT !.wallet = Staged(p), !.marker = TRUE])
  /\ Goto(p, "sync")
  /\ UNCHANGED <<drawn, remote, job, nodes, answered>>

Promote(p) ==
  /\ call[p] = "promote"
  /\ IF base.wallet = None
       THEN /\ Becomes([base EXCEPT !.wallet = Staged(p), !.marker = TRUE])
            /\ Goto(p, "sync")
            /\ UNCHANGED job
       ELSE Return(p) /\ UNCHANGED <<base, past>>
  /\ UNCHANGED <<drawn, remote, nodes, answered>>

SyncBase(p) ==
  /\ call[p] = "sync"
  /\ Synced
  /\ answered' = answered \cup {job[p].version}
  /\ Return(p)
  /\ UNCHANGED <<base, drawn, remote, nodes>>

\* Reading, writing, synchronising or asking the server may fail at any point.
Fail(p) ==
  /\ call[p] # "idle"
  /\ Return(p)
  /\ UNCHANGED <<disk, remote, nodes, answered>>

(***************************************************************************)
(* The node around it.                                                     *)
(***************************************************************************)

\* An unlock flags its state change while it has the guard, and keeps the flag.
BeginUnlock(p) ==
  /\ call[p] = "idle" /\ Available(p) /\ p \notin unlocked
  /\ changing' = changing \cup {p}
  /\ UNCHANGED <<disk, remote, call, job, unlocked, cancelled, stopped, answered>>

\* The wallet's directory is opened, or made; opening a restored one checks it
\* and takes the marker away.
OpenDirectory(p) ==
  /\ p \in changing
  /\ Becomes([base EXCEPT !.wallet = IF @ = None THEN Local ELSE @, !.marker = FALSE])
  /\ UNCHANGED <<drawn, remote, call, job, nodes, answered>>

EndUnlock(p) ==
  /\ p \in changing
  /\ changing' = changing \ {p}
  /\ \/ base.wallet # None /\ unlocked' = unlocked \cup {p}
     \/ UNCHANGED unlocked
  /\ UNCHANGED <<disk, remote, call, job, cancelled, stopped, answered>>

Lock(p) ==
  /\ p \in unlocked /\ Available(p)
  /\ unlocked' = unlocked \ {p}
  /\ UNCHANGED <<disk, remote, call, job, changing, cancelled, stopped, answered>>

Shutdown(p) ==
  /\ p \notin cancelled
  /\ cancelled' = cancelled \cup {p}
  /\ UNCHANGED <<disk, remote, call, job, changing, unlocked, stopped, answered>>

\* Mutation: shutdown does not wait for the guard.
ShutdownReturns_NoGuard(p) ==
  /\ p \in cancelled \ changing
  /\ unlocked' = unlocked \ {p} /\ stopped' = stopped \cup {p}
  /\ UNCHANGED <<disk, remote, call, job, changing, cancelled, answered>>

\* It waits for a state change and then, in stop_node, for the guard.
ShutdownReturns(p) ==
  /\ p \in cancelled \ changing /\ call[p] = "idle"
  /\ unlocked' = unlocked \ {p} /\ stopped' = stopped \cup {p}
  /\ UNCHANGED <<disk, remote, call, job, changing, cancelled, answered>>

(***************************************************************************)
(* The world around that.                                                  *)
(***************************************************************************)

\* Another device of the wallet uploads, with the full manifest of this wallet
\* or one that lacks it.
Upload(own) ==
  LET version == IF remote = None THEN 1 ELSE remote.version + 1
  IN  /\ version <= MaxVersion
      /\ remote' = [version |-> version, own |-> own]
      /\ UNCHANGED <<disk, call, job, nodes, answered>>

\* A process dies and is started again.
Die(p) ==
  /\ Return(p)
  /\ changing' = changing \ {p} /\ unlocked' = unlocked \ {p}
  /\ cancelled' = cancelled \ {p} /\ stopped' = stopped \ {p}
  /\ UNCHANGED <<disk, remote, answered>>

PowerLoss ==
  /\ base' \in past /\ past' = {base'}
  /\ call' = [p \in Process |-> "idle"]
  /\ job' = [p \in Process |-> NoJob]
  /\ changing' = {} /\ unlocked' = {} /\ cancelled' = {} /\ stopped' = {}
  /\ UNCHANGED <<drawn, remote, answered>>

-------------------------------------------------------------------------------
Preparation(p) ==
  \/ Prepare(p) \/ Look(p) \/ ReadVersion(p) \/ Download(p) \/ CheckVersion(p)
  \/ TakeKey(p) \/ PromoteKey(p) \/ SyncKey(p)
  \/ Stage(p) \/ Promote(p) \/ SyncBase(p) \/ Fail(p)

Node(p) ==
  \/ BeginUnlock(p) \/ OpenDirectory(p) \/ EndUnlock(p) \/ Lock(p)
  \/ Shutdown(p) \/ ShutdownReturns(p) \/ Die(p)

Next ==
  \/ \E p \in Process : Preparation(p) \/ Node(p)
  \/ \E own \in BOOLEAN : Upload(own)
  \/ PowerLoss

Spec == Init /\ [][Next]_vars

-------------------------------------------------------------------------------
(***************************************************************************)
(* Properties                                                              *)
(***************************************************************************)

\* Whenever a restored wallet is in place, and whatever a power loss makes of
\* the storage directory, it is complete, its receipt is valid under the key
\* beside it, so that the next preparation resumes instead of refusing it for
\* good, and names the version of the archive that was extracted, although
\* others upload between the reading of the version and the download.
AllOrNothing ==
  \A d \in past :
    d.wallet \notin {None, Local} =>
      /\ d.wallet.synced /\ Receipted(d)
      /\ d.wallet.version = d.wallet.content.version

\* A version reported as just restored is in place after any power loss.
FreshAnswerIsDurable ==
  \A version \in answered, d \in past :
    d.wallet \notin {None, Local} /\ d.wallet.version = version

\* A node whose preparation runs is locked, is not being unlocked, and its
\* shutdown has not returned, so that no wallet is promoted behind its back.
PreparesLocked ==
  \A p \in Process : call[p] # "idle" => p \notin unlocked \cup changing \cup stopped

\* A wallet directory that is there is never replaced, restored or not: only a
\* power loss takes it back to what was there before it was made ("Existing
\* unmarked local wallet directories are never overwritten").
NeverOverwrites ==
  [][base.wallet # None => base'.wallet \in {d.wallet : d \in past}]_vars

-------------------------------------------------------------------------------
(***************************************************************************)
(* What users rely on: AtomicRestore.                                      *)
(***************************************************************************)

\* A directory as its users find it: 0, which is no version, when a restored
\* wallet in it is not whole.
Found(d) ==
  IF d.wallet \in {None, Local} THEN d.wallet
  ELSE IF d.wallet.synced /\ Receipted(d) /\ d.wallet.version = d.wallet.content.version
    THEN d.wallet.version
    ELSE 0

shownWallet == Found(base)
shownKept == {Found(d) : d \in past}
shownUsing == changing \cup unlocked \cup stopped
shownNewest == IF remote = None THEN 0 ELSE remote.version

Atomic == INSTANCE AtomicRestore
            WITH wallet <- shownWallet, kept <- shownKept, using <- shownUsing,
                 newest <- shownNewest, promised <- answered

\* Concurrent preparations, unlocks, shutdowns, deaths, uploads and power losses
\* together are an atomic restore: a whole wallet of some uploaded version appears
\* in one step, by a node that is locked at that moment, where no wallet is; it is
\* never replaced ("Existing unmarked local wallet directories are never
\* overwritten"), a power loss takes it back to an earlier state only, and not
\* at all once it was reported.
RestoreSpec == Atomic!Spec
===============================================================================
