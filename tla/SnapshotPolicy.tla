---------------------------- MODULE SnapshotPolicy ----------------------------
(***************************************************************************)
(* Who uploads the wallet snapshot, and what the node says about it        *)
(* (src/vss_snapshot_policy.rs and the wallet guard of src/rgb.rs in the   *)
(* release patch): the automatic-backup preference, the unsaved-state      *)
(* marker and the completion receipt, three files of one directory, with   *)
(* the flags the process keeps beside them.                                *)
(*                                                                         *)
(* Every operation runs under the wallet mutex, so one program counter,    *)
(* "at", says where its holder is ("down": the node is locked).  The       *)
(* status query reads the marker after it released the mutex and            *)
(* interleaves.  The process can die at any step; a power loss moreover    *)
(* undoes directory changes that were not synchronised.                    *)
(***************************************************************************)
EXTENDS Naturals

CONSTANTS
  MaxVersion   \* bound on the uploads to the remote archive

ASSUME PolicyAssumption == MaxVersion \in Nat

Choice == {"on", "off"}
File == {"policy", "marker", "receipt"}
\* What an operation can leave in the wallet that no upload holds yet: a change
\* rgb-lib's database dirty flag counts, and one it does not (RGB stock).
Kind == {"tracked", "untracked"}

VARIABLES
  seen,       \* the content of each file, as a read finds it
  maybe,      \* the contents of each file a power loss may leave
  enabled,    \* SnapshotPolicy.enabled
  failed,     \* SnapshotPolicy.failed
  unknown,    \* SnapshotPolicy.unknown
  unsaved,    \* SnapshotPolicy.unsaved
  at,         \* where the holder of the wallet mutex is; "idle": nobody holds it
  purpose,    \* what the backup in progress is for
  had,        \* sync_before: something was pending before this sync
  goal,       \* the preference being set
  before,     \* the archive version read before the upload
  asked,      \* the status query in flight, and the dirty flag it read
  version,    \* the remote manifest's version
  dirty,      \* rgb-lib's dirty flag
  own,        \* history: the archive versions this wallet uploaded
  uncovered,  \* history: the kinds of changes made since its last upload
  refused,    \* history: the disk refused the last marker asked of it
  excused,    \* history: uncovered changes whose process died after that
  panicked,   \* history: an operation panicked since the last upload
  legit       \* history: the choices a later start may find

files == <<seen, maybe>>
flags == <<enabled, failed, unknown, unsaved>>
call == <<purpose, had, goal, before>>
remote == <<version, own>>
wallet == <<dirty, uncovered>>
ghosts == <<refused, excused, panicked, legit>>
vars == <<files, flags, at, call, asked, remote, wallet, ghosts>>

Place == {"down", "startup", "idle", "mutating", "syncing", "marking",
          "reading", "uploading", "confirming", "clearing", "committing"}

\* The contents a read may find, and the sets of contents a power loss may leave.
Content ==
  [policy : Choice \cup {"none"}, marker : {"none", "set"}, receipt : 0..MaxVersion]
Possible ==
  [policy : SUBSET (Choice \cup {"none"}), marker : SUBSET {"none", "set"},
   receipt : SUBSET (0..MaxVersion)]

FilesOK(s, m) == s \in Content /\ m \in Possible /\ \A f \in File : s[f] \in m[f]

HolderOK ==
  /\ at \in Place
  /\ purpose \in {"none", "auto", "manual", "enable", "boot"}
  /\ had \in BOOLEAN
  /\ goal \in Choice
  /\ asked \in {"none", "clean", "dirty"}

FlagsOK ==
  /\ enabled \in Choice
  /\ failed \in BOOLEAN /\ unknown \in BOOLEAN /\ unsaved \in BOOLEAN
  /\ dirty \in BOOLEAN /\ refused \in BOOLEAN /\ panicked \in BOOLEAN
  /\ uncovered \subseteq Kind /\ excused \subseteq Kind
  /\ legit \subseteq Choice \cup {"none"}

VersionsOK ==
  /\ version \in 0..MaxVersion /\ before \in 0..MaxVersion
  /\ own \subseteq 1..version

TypeOK == FilesOK(seen, maybe) /\ HolderOK /\ FlagsOK /\ VersionsOK

(***************************************************************************)
(* The directory.                                                          *)
(***************************************************************************)
Absent(f) == IF f = "receipt" THEN 0 ELSE "none"

\* One fsync of the directory settles all three files.
Settled(s) == [f \in File |-> {s[f]}]

Outcome(ok, s, m) == [ok |-> ok, seen |-> s, maybe |-> m]

\* Mutation: the directory is not synchronised after the rename.
Write_NoSync(f, c) ==
  {Outcome(TRUE, [seen EXCEPT ![f] = c], [maybe EXCEPT ![f] = @ \cup {c}]),
   Outcome(FALSE, seen, maybe)}

\* write_atomic: done; failed before the rename, with or without having synced
\* the directory; or failed after it, and rolled back, or tried to.  Rolling back
\* a file that did not exist removes it, which syncs nothing first.
Write(f, c) ==
  LET new == [seen EXCEPT ![f] = c]
      torn == [Settled(seen) EXCEPT ![f] = {seen[f], c}]
  IN  {Outcome(TRUE, new, Settled(new)),
       Outcome(FALSE, seen, maybe),
       Outcome(FALSE, seen, Settled(seen)),
       Outcome(FALSE, seen, torn),
       Outcome(FALSE, new, torn)}
      \cup IF seen[f] = Absent(f) THEN {} ELSE {Outcome(FALSE, new, Settled(new))}

\* remove_file and sync_parent: a missing file is an error.
Remove(f) ==
  LET gone == [seen EXCEPT ![f] = Absent(f)]
      torn == [maybe EXCEPT ![f] = @ \cup {Absent(f)}]
  IN  {Outcome(FALSE, seen, maybe)}
      \cup IF seen[f] = Absent(f) THEN {}
           ELSE {Outcome(FALSE, gone, torn), Outcome(TRUE, gone, Settled(gone))}

Becomes(o) == seen' = o.seen /\ maybe' = o.maybe

Init ==
  /\ seen = [f \in File |-> Absent(f)]
  /\ maybe = Settled(seen)
  /\ enabled = "off" /\ failed = FALSE /\ unknown = FALSE /\ unsaved = FALSE
  /\ at = "down"
  /\ purpose = "none" /\ had = FALSE /\ goal = "off" /\ before = 0
  /\ asked = "none"
  /\ version = 0 /\ own = {}
  /\ dirty = FALSE /\ uncovered = {}
  /\ refused = FALSE /\ excused = {} /\ panicked = FALSE
  /\ legit = Choice \cup {"none"}

\* Mutation: only the marker file counts.
Pending_FileOnly == seen.marker = "set"

\* SnapshotPolicy::pending
Pending == unsaved \/ seen.marker = "set"

EndCall == purpose' = "none" /\ had' = FALSE /\ goal' = "off" /\ before' = 0
Free == at' = "idle" /\ EndCall

StartBackup(p) ==
  /\ at' = "marking"
  /\ purpose' = p
  /\ had' = FALSE /\ before' = 0


(***************************************************************************)
(* Starting the node.  The saved choice wins over the configured initial   *)
(* one; without a saved choice, the initial one is saved first.  A node    *)
(* that is not unlocked has no policy object and no flags.                 *)
(***************************************************************************)
NoFlags ==
  /\ enabled' = "off" /\ failed' = FALSE /\ unknown' = FALSE /\ unsaved' = FALSE
  /\ refused' = FALSE /\ panicked' = FALSE /\ asked' = "none"

\* Mutation: the configured initial choice wins over the saved one.
LoadSaved_InitialWins ==
  /\ at = "down"
  /\ seen.policy # "none"
  /\ enabled' \in Choice
  /\ at' = "startup"
  /\ UNCHANGED <<files, failed, unknown, unsaved, call, asked, remote, wallet, ghosts>>

LoadSaved ==
  /\ at = "down"
  /\ seen.policy # "none"
  /\ enabled' = seen.policy
  /\ at' = "startup"
  /\ UNCHANGED <<files, failed, unknown, unsaved, call, asked, remote, wallet, ghosts>>

LoadInitial(initial) ==
  /\ at = "down"
  /\ seen.policy = "none"
  /\ \E o \in Write("policy", initial) :
       /\ Becomes(o)
       /\ IF o.ok
            THEN at' = "startup" /\ enabled' = initial /\ legit' = {initial}
            ELSE UNCHANGED <<at, enabled, legit>>
  /\ UNCHANGED <<failed, unknown, unsaved, call, asked, remote, wallet,
                 refused, excused, panicked>>

\* Mutation: a marker an earlier process left behind is ignored.
Startup_IgnoresMarker ==
  /\ at = "startup"
  /\ \/ /\ enabled = "on" /\ (version = 0 \/ dirty)
        /\ StartBackup("boot")
        /\ UNCHANGED goal
     \/ /\ enabled = "off" \/ ~(version = 0 \/ dirty)
        /\ Free
  /\ UNCHANGED <<files, flags, asked, remote, wallet, ghosts>>

\* The startup snapshot: the remote is empty, the wallet is dirty, or a marker
\* was left behind.  If the archive's state cannot be read, the unlock fails.
Startup ==
  /\ at = "startup"
  /\ \/ /\ enabled = "on" /\ (version = 0 \/ dirty \/ Pending)
        /\ StartBackup("boot")
        /\ UNCHANGED <<goal, enabled, failed, unknown, unsaved, refused, panicked, asked>>
     \/ /\ enabled = "off" \/ ~(version = 0 \/ dirty \/ Pending)
        /\ Free
        /\ UNCHANGED <<enabled, failed, unknown, unsaved, refused, panicked, asked>>
     \/ /\ at' = "down" /\ EndCall
        /\ NoFlags
  /\ UNCHANGED <<files, remote, wallet, excused, legit>>

(***************************************************************************)
(* The wallet guard.  A mutating guard writes the marker before the        *)
(* operation and starts the automatic snapshot when it is dropped.         *)
(***************************************************************************)
\* Mutation: the intent is kept in memory only.
BeforeMutation_MemoryOnly ==
  /\ unsaved' = TRUE
  /\ UNCHANGED <<files, failed, refused>>

\* SnapshotPolicy::before_mutation
BeforeMutation ==
  /\ unsaved' = TRUE
  /\ \E o \in Write("marker", "set") :
       /\ Becomes(o)
       /\ failed' = (failed \/ ~o.ok)
       /\ refused' = (o.maybe.marker # {"set"})

\* SnapshotPolicy::after_mutation
AfterMutation(panicking) ==
  IF unknown \/ enabled = "off" \/ panicking
    THEN Free
    ELSE StartBackup("auto") /\ UNCHANGED goal

\* rgb-lib changes the wallet.
Change(kinds) ==
  /\ uncovered' = uncovered \cup kinds
  /\ dirty' = (dirty \/ "tracked" \in kinds)

BeginMutation ==
  /\ at = "idle"
  /\ at' = "mutating"
  /\ BeforeMutation
  /\ UNCHANGED <<enabled, unknown, call, asked, remote, wallet, excused, panicked, legit>>

FinishMutation(kinds) ==
  /\ at = "mutating"
  /\ Change(kinds)
  /\ AfterMutation(FALSE)
  /\ UNCHANGED <<files, flags, asked, remote, ghosts>>

\* A panic unwinds through the guard; the mutex is used again after it.
Panic(kinds) ==
  /\ at \in {"mutating", "syncing"}
  /\ Change(kinds)
  /\ AfterMutation(TRUE)
  /\ panicked' = TRUE
  /\ UNCHANGED <<files, flags, asked, remote, refused, excused, legit>>

\* get_rgb_wallet_for_sync: what was pending is read before the marker is
\* written; a view of the wallet that cannot be taken counts as pending.
BeginSync ==
  /\ at = "idle"
  /\ at' = "syncing"
  /\ had' \in {Pending \/ dirty, TRUE}
  /\ BeforeMutation
  /\ UNCHANGED <<enabled, unknown, purpose, goal, before, asked, remote, wallet,
                 excused, panicked, legit>>

\* The guard is dropped with the views compared and equal: the intent is
\* withdrawn (clear_unchanged_intent), or stays if that fails.
FinishUnchangedSync ==
  /\ at = "syncing"
  /\ ~had
  /\ \E o \in Remove("marker") :
       /\ Becomes(o)
       /\ IF o.ok THEN unsaved' = FALSE /\ Free
                  ELSE UNCHANGED unsaved /\ AfterMutation(FALSE)
  /\ UNCHANGED <<enabled, failed, unknown, asked, remote, wallet, ghosts>>

\* The views differ, cannot be compared, or something was pending before.
FinishSync(kinds) ==
  /\ at = "syncing"
  /\ Change(kinds)
  /\ AfterMutation(FALSE)
  /\ UNCHANGED <<files, flags, asked, remote, ghosts>>

(***************************************************************************)
(* SnapshotPolicy::backup, for a guard, a startup, a host's explicit call  *)
(* or the re-enabling of automatic snapshots.                              *)
(***************************************************************************)
\* Mutation: an automatic backup that fails before its upload is not recorded.
BackupFails_Unrecorded(rejected) ==
  IF purpose = "boot"
    THEN /\ at' = "down" /\ EndCall
         /\ NoFlags
    ELSE /\ Free
         /\ failed' = (failed \/ rejected)
         /\ UNCHANGED <<enabled, unknown, unsaved, refused, panicked, asked>>

\* What the caller makes of a failed backup: an automatic one records the
\* failure, a startup one aborts the unlock.
BackupFails(rejected) ==
  IF purpose = "boot"
    THEN /\ at' = "down" /\ EndCall
         /\ NoFlags
    ELSE /\ Free
         /\ failed' = (failed \/ rejected \/ purpose = "auto")
         /\ UNCHANGED <<enabled, unknown, unsaved, refused, panicked, asked>>

ManualBackup ==
  /\ at = "idle"
  /\ StartBackup("manual")
  /\ UNCHANGED <<goal, files, flags, asked, remote, wallet, ghosts>>

MarkUpload ==
  /\ at = "marking"
  /\ \E o \in Write("marker", "set") :
       /\ Becomes(o)
       /\ IF o.ok
            THEN /\ at' = "reading"
                 /\ UNCHANGED <<call, flags, refused, panicked, asked>>
            ELSE BackupFails(FALSE)
  /\ UNCHANGED <<remote, wallet, excused, legit>>

\* Mutation: the version kept is the one the upload will have.
ReadVersion_Successor ==
  /\ at = "reading"
  /\ before' = version + 1
  /\ at' = "uploading"
  /\ UNCHANGED <<files, flags, purpose, had, goal, asked, remote, wallet, ghosts>>

ReadVersion ==
  /\ at = "reading"
  /\ \/ /\ before' = version
        /\ at' = "uploading"
        /\ UNCHANGED <<purpose, had, goal, flags, refused, panicked, asked>>
     \/ BackupFails(FALSE)
  /\ UNCHANGED <<files, remote, wallet, excused, legit>>

\* The archive as uploaded holds everything the wallet holds.
Applied ==
  /\ version < MaxVersion
  /\ version' = version + 1
  /\ own' = own \cup {version'}
  /\ uncovered' = {} /\ excused' = {}

UploadAcknowledged ==
  /\ at = "uploading"
  /\ Applied
  /\ dirty' = FALSE
  /\ at' = "confirming"
  /\ panicked' = FALSE
  /\ UNCHANGED <<files, flags, call, asked, refused, legit>>

\* The request fails; it may have been applied all the same.
UploadFails ==
  /\ at = "uploading"
  /\ \/ Applied
     \/ UNCHANGED <<version, own, uncovered, excused>>
  /\ BackupFails(TRUE)
  /\ UNCHANGED <<files, dirty, legit>>

\* Mutation: the receipt is for whatever version the manifest has now.
Confirm_AnyVersion ==
  /\ at = "confirming"
  /\ \E o \in Write("receipt", version) :
       /\ Becomes(o)
       /\ IF o.ok
            THEN /\ at' = "clearing"
                 /\ UNCHANGED <<call, flags, refused, panicked, asked>>
            ELSE BackupFails(FALSE)
  /\ UNCHANGED <<remote, wallet, excused, legit>>

\* The receipt is for the successor of the version read before, and for no
\* other; reading the clock or the manifest may fail.
Confirm ==
  /\ at = "confirming"
  /\ \/ /\ version = before + 1
        /\ \E o \in Write("receipt", version) :
             /\ Becomes(o)
             /\ IF o.ok
                  THEN /\ at' = "clearing"
                       /\ UNCHANGED <<call, flags, refused, panicked, asked>>
                  ELSE BackupFails(FALSE)
     \/ /\ BackupFails(FALSE)
        /\ UNCHANGED files
  /\ UNCHANGED <<remote, wallet, excused, legit>>

ClearMarker ==
  /\ at = "clearing"
  /\ \E o \in Remove("marker") :
       /\ Becomes(o)
       /\ IF o.ok
            THEN /\ unsaved' = FALSE /\ failed' = FALSE
                 /\ IF purpose = "enable"
                      THEN /\ at' = "committing"
                           /\ purpose' = "none" /\ had' = FALSE /\ before' = 0
                           /\ UNCHANGED goal
                      ELSE Free
                 /\ UNCHANGED <<enabled, unknown, refused, panicked, asked>>
            ELSE BackupFails(FALSE)
  /\ UNCHANGED <<remote, wallet, excused, legit>>

(***************************************************************************)
(* set_vss_automatic_backup_enabled: turning on backs up first.            *)
(***************************************************************************)
\* Mutation: no catch-up snapshot before the preference is turned on.
SetPreference_NoCatchUp(choice) ==
  /\ at = "idle"
  /\ goal' = choice
  /\ at' = "committing"
  /\ UNCHANGED <<files, flags, purpose, had, before, asked, remote, wallet, ghosts>>

SetPreference(choice) ==
  /\ at = "idle"
  /\ goal' = choice
  /\ IF choice = "on" /\ enabled = "off"
       THEN StartBackup("enable")
       ELSE at' = "committing" /\ UNCHANGED <<purpose, had, before>>
  /\ UNCHANGED <<files, flags, asked, remote, wallet, ghosts>>

\* Mutation: a failed write is taken to have left the file as it was.
Commit_AssumesOld ==
  /\ at = "committing"
  /\ Free
  /\ \E o \in Write("policy", goal) :
       /\ Becomes(o)
       /\ legit' = IF o.ok THEN {goal} ELSE legit \cup {goal}
       /\ enabled' = IF o.ok THEN goal ELSE enabled
  /\ UNCHANGED <<failed, unknown, unsaved, asked, remote, wallet,
                 refused, excused, panicked>>

\* commit_enabled: a failed write is followed by a look at what the file says;
\* if that fails too, the choice is unknown from then on.
Commit ==
  /\ at = "committing"
  /\ Free
  /\ IF unknown
       THEN UNCHANGED <<files, enabled, failed, unknown, legit>>
       ELSE \E o \in Write("policy", goal) :
              /\ Becomes(o)
              /\ legit' = IF o.ok THEN {goal} ELSE legit \cup {goal}
              /\ IF o.ok
                   THEN enabled' = goal /\ UNCHANGED <<failed, unknown>>
                   ELSE \/ /\ o.seen.policy # "none"
                           /\ enabled' = o.seen.policy
                           /\ UNCHANGED <<failed, unknown>>
                        \/ /\ unknown' = TRUE /\ failed' = TRUE
                           /\ UNCHANGED enabled
  /\ UNCHANGED <<unsaved, asked, remote, wallet, refused, excused, panicked>>

(***************************************************************************)
(* vss_backup_info: the dirty flag is read under the mutex, the marker     *)
(* after it was released.                                                  *)
(***************************************************************************)
BeginStatus ==
  /\ at = "idle"
  /\ asked = "none"
  /\ asked' = IF dirty THEN "dirty" ELSE "clean"
  /\ UNCHANGED <<files, flags, at, call, remote, wallet, ghosts>>

\* The answer: pending() loads the flag and stats the marker after it, which is one
\* look here.  It answers as if it had looked at the flag, if that was set, and at
\* the marker if not.
EndStatus ==
  /\ asked # "none"
  /\ asked' = "none"
  /\ UNCHANGED <<files, flags, at, call, remote, wallet, ghosts>>

(***************************************************************************)
(* The world: a stale writer uploads, the process or the machine dies.     *)
(***************************************************************************)
ForeignUpload ==
  /\ version < MaxVersion
  /\ version' = version + 1
  /\ UNCHANGED <<files, flags, at, call, asked, own, wallet, ghosts>>

Die ==
  /\ at' = "down" /\ EndCall
  /\ NoFlags
  /\ excused' = IF refused THEN uncovered ELSE excused
  /\ UNCHANGED <<remote, wallet, legit>>

ProcessDeath ==
  /\ at # "down"
  /\ Die
  /\ UNCHANGED files

PowerLoss ==
  /\ seen' \in [policy : maybe.policy, marker : maybe.marker, receipt : maybe.receipt]
  /\ maybe' = Settled(seen')
  /\ Die

-------------------------------------------------------------------------------
Backup == MarkUpload \/ ReadVersion \/ UploadAcknowledged \/ UploadFails
            \/ Confirm \/ ClearMarker

Next ==
  \/ LoadSaved \/ (\E c \in Choice : LoadInitial(c)) \/ Startup
  \/ BeginMutation \/ BeginSync \/ FinishUnchangedSync
  \/ \E kinds \in SUBSET Kind :
       FinishMutation(kinds) \/ FinishSync(kinds) \/ Panic(kinds)
  \/ ManualBackup \/ Backup
  \/ (\E c \in Choice : SetPreference(c)) \/ Commit
  \/ BeginStatus \/ EndStatus
  \/ ForeignUpload \/ ProcessDeath \/ PowerLoss

Spec == Init /\ [][Next]_vars

-------------------------------------------------------------------------------
(***************************************************************************)
(* Properties                                                              *)
(***************************************************************************)

\* A change of the wallet that no upload of ours holds is always announced: by
\* the unsaved flag, by the marker file (also after a crash or a power loss at
\* any step), or by rgb-lib's own dirty flag.  The one exception is the one
\* the documentation makes: the disk refused the marker and the process died.
NothingHidden ==
  \A k \in uncovered \ excused : Pending \/ (k = "tracked" /\ dirty)

\* The preference metadata reports is the one a restart of the process would
\* read, unless metadata refuses to report it; and one that was acknowledged
\* survives crashes and power losses at any step: a later start finds it or one
\* somebody tried to set since.
ChoiceIsKept ==
  /\ at # "down" /\ ~unknown => seen.policy = enabled
  /\ maybe.policy \subseteq legit

\* A completion receipt names an archive version this wallet uploaded, never
\* one of another writer whose upload fell between our two manifest reads.
ReceiptIsOurs ==
  maybe.receipt \subseteq own \cup {0}

\* With automatic snapshots on and no operation under way, a change that is not
\* uploaded has been reported as a failed automatic backup, unless its
\* operation panicked.
NeverSilentlySkipped ==
  at = "idle" /\ enabled = "on" /\ ~unknown /\ ~panicked
    => failed \/ uncovered \subseteq excused

\* A status answer that no backup is required is true when it is given, though
\* its two halves were read at different times.
StatusIsHonest ==
  [][asked = "clean" /\ asked' = "none" /\ at' # "down" /\ ~Pending
       => uncovered \subseteq excused]_vars

\* Nothing is uploaded on the node's own initiative under an acknowledged
\* "off", through any restart and whatever initial preference is configured.
NoUploadWhileOff ==
  [][version' # version /\ own' # own /\ purpose \in {"auto", "boot"}
       => "on" \in legit]_vars

\* Turning automatic snapshots on is acknowledged only when everything the
\* wallet holds has been uploaded, and a node that comes up with them on has
\* uploaded what earlier processes left behind.
OnMeansCaughtUp ==
  [][/\ at = "committing" /\ enabled = "off" /\ enabled' = "on" => uncovered = {}
     /\ at \in {"startup", "clearing"} /\ at' = "idle" /\ purpose \in {"none", "boot"}
          /\ enabled = "on" => uncovered \subseteq excused]_vars
===============================================================================
