--------------------------- MODULE VssRestoreProofs ---------------------------
(***************************************************************************)
(* Theorems about VssRestore, for every number of processes, keys and      *)
(* versions.  That a restored wallet always has a valid receipt rests on   *)
(* the key never being replaced while somebody has signed with it, and     *)
(* holds of every directory a power loss may leave because a promotion     *)
(* adds one in which the key is there already.                             *)
(***************************************************************************)
EXTENDS VssRestore, TLAPS

Restored(d) == d.wallet \notin {None, Local}

\* What is true of every directory a power loss may leave.
PastOK ==
  \A d \in past :
    Restored(d) => /\ d.wallet.synced /\ Receipted(d)
                   /\ d.wallet.version = d.wallet.content.version

\* The archive only gets newer, so an unchanged version means that the download
\* brought it.
VersionOK ==
  \A p \in Process :
    /\ call[p] = "download" => remote # None /\ job[p].version <= remote.version
    /\ call[p] = "check" => /\ remote # None
                            /\ job[p].version <= job[p].content.version
                            /\ job[p].content.version <= remote.version
    /\ call[p] \in {"key", "promoteKey", "syncKey", "stage", "promote"} =>
         job[p].content.version = job[p].version
    /\ call[p] \in {"check", "key", "promoteKey", "syncKey", "stage", "promote"} =>
         job[p].content.own

\* A preparation that has a key has the one in the directory, and one that has
\* promoted its stage finds it there.
KeyOK ==
  \A p \in Process :
    /\ call[p] \in {"syncKey", "stage", "promote"} => job[p].key = base.key
    /\ call[p] = "sync" => Restored(base) /\ base.wallet.version = job[p].version

IInv ==
  /\ TypeOK /\ PastOK /\ VersionOK /\ KeyOK
  /\ FreshAnswerIsDurable /\ PreparesLocked
  /\ stopped \subseteq cancelled

\* A directory without wallet, or with a local one, satisfies the invariant.
LEMMA InitIInv == Init => IInv
<1> SUFFICES ASSUME Init PROVE IInv
  OBVIOUS
<1> USE RestoreAssumption DEF Init
<1> PICK w \in {None, Local} : base = [key |-> None, wallet |-> w, marker |-> FALSE]
  OBVIOUS
<1>1. base \in Directory /\ past = {base} /\ base.wallet \in {None, Local}
  BY DEF Directory
<1>2. TypeOK
  BY <1>1 DEF TypeOK, DiskOK, JobOK, Job, NoJob, Place
<1>3. PastOK /\ VersionOK /\ KeyOK
  BY <1>1 DEF PastOK, VersionOK, KeyOK, Restored
<1>4. QED
  BY <1>2, <1>3 DEF IInv, FreshAnswerIsDurable, PreparesLocked

\* Promoting a stage preserves the invariant: the directory it adds is whole, and
\* its receipt is signed with the key that is there.
LEMMA PromoteIInv ==
  ASSUME IInv, NEW p \in Process, Promote(p), base.wallet = None
  PROVE  IInv'
<1> DEFINE w == Staged(p)
<1>1. /\ call[p] = "promote" /\ call \in [Process -> Place]
      /\ base' = [base EXCEPT !.wallet = w, !.marker = TRUE]
      /\ past' = past \cup {base'}
      /\ call' = [call EXCEPT ![p] = "sync"]
      /\ job' = job /\ drawn' = drawn /\ remote' = remote /\ answered' = answered
      /\ nodes' = nodes
  BY DEF IInv, TypeOK, Promote, Becomes, Goto
<1>2. job[p] \in Job /\ job[p].version # None /\ job[p].content # None /\ job[p].key # None
  BY <1>1 DEF IInv, TypeOK, JobOK
<1>3. /\ job[p].content.own /\ job[p].content.version = job[p].version
      /\ job[p].key = base.key
  BY <1>1 DEF IInv, VersionOK, KeyOK
<1>4. w \in Wallet
  BY <1>2 DEF Staged, Wallet, Job
<1>5. base \in Directory /\ base \in past /\ past \subseteq Directory /\ drawn \subseteq Key
  BY DEF IInv, TypeOK, DiskOK
<1>6. base' = [key |-> base.key, wallet |-> w, marker |-> TRUE]
  BY <1>1, <1>5 DEF Directory
<1>7. base'.key = base.key /\ base'.wallet = w
  BY <1>6
<1>8. base' \in Directory
  BY <1>4, <1>5, <1>6 DEF Directory
<1>9. DiskOK'
  BY <1>1, <1>5, <1>8 DEF DiskOK
<1>10. JobOK'
  BY <1>1 DEF IInv, TypeOK, JobOK, Place
<1>11. TypeOK'
  BY <1>1, <1>9, <1>10 DEF IInv, TypeOK, Place, nodes
<1>12. PastOK'
  <2>1. w.synced /\ w.key = base'.key /\ w.content.own /\ w.version = w.content.version
    BY <1>3, <1>7 DEF Staged
  <2>2. QED
    BY <1>1, <1>4, <1>7, <2>1, RestoreAssumption DEF IInv, PastOK, Receipted, Restored
<1>13. VersionOK'
  BY <1>1 DEF IInv, VersionOK
<1>14. KeyOK'
  <2>1. w.version = job[p].version /\ w \notin {None, Local}
    BY <1>4, RestoreAssumption DEF Staged
  <2>2. \A q \in Process : call[q] = "sync" => FALSE
    BY <1>5 DEF IInv, KeyOK, Restored
  <2>3. QED
    BY <1>1, <1>7, <2>1, <2>2 DEF IInv, KeyOK, Restored
<1>15. FreshAnswerIsDurable'
  BY <1>1, <1>5 DEF IInv, FreshAnswerIsDurable
<1>16. PreparesLocked' /\ (stopped \subseteq cancelled)'
  BY <1>1 DEF IInv, PreparesLocked, nodes
<1>17. QED
  BY <1>11, <1>12, <1>13, <1>14, <1>15, <1>16 DEF IInv

\* Opening a wallet makes a directory where there is none, and no restore depends
\* on there being none.
LEMMA OpenDirectoryIInv ==
  ASSUME IInv, NEW p \in Process, OpenDirectory(p)
  PROVE  IInv'
<1> DEFINE w == IF base.wallet = None THEN Local ELSE base.wallet
<1>1. /\ base' = [base EXCEPT !.wallet = w, !.marker = FALSE]
      /\ past' = past \cup {base'}
      /\ call' = call /\ job' = job /\ drawn' = drawn /\ remote' = remote
      /\ answered' = answered /\ nodes' = nodes
  BY DEF OpenDirectory, Becomes
<1>2. base \in Directory /\ base \in past /\ past \subseteq Directory /\ drawn \subseteq Key
  BY DEF IInv, TypeOK, DiskOK
<1>3. base' = [key |-> base.key, wallet |-> w, marker |-> FALSE]
  BY <1>1, <1>2 DEF Directory
<1>4. base'.key = base.key /\ base'.wallet = w
  BY <1>3
<1>5. base' \in Directory
  BY <1>2, <1>3 DEF Directory
<1>6. DiskOK'
  BY <1>1, <1>2, <1>5 DEF DiskOK
<1>7. TypeOK'
  BY <1>1, <1>6 DEF IInv, TypeOK, JobOK, nodes
<1>8. Restored(base') => base.wallet = base'.wallet /\ Restored(base)
  BY <1>4 DEF Restored
<1>9. PastOK'
  BY <1>1, <1>2, <1>4, <1>8 DEF IInv, PastOK, Restored, Receipted
<1>10. VersionOK'
  BY <1>1 DEF IInv, VersionOK
<1>11. Restored(base) => base'.wallet = base.wallet
  BY <1>4 DEF Restored
<1>12. KeyOK'
  BY <1>1, <1>4, <1>11 DEF IInv, KeyOK, Restored
<1>13. FreshAnswerIsDurable'
  BY <1>1, <1>2, <1>11 DEF IInv, FreshAnswerIsDurable, Restored
<1>14. PreparesLocked' /\ (stopped \subseteq cancelled)'
  BY <1>1 DEF IInv, PreparesLocked, nodes
<1>15. QED
  BY <1>7, <1>9, <1>10, <1>12, <1>13, <1>14 DEF IInv

\* A version between two readings of the same one is that one.
LEMMA Squeezed ==
  ASSUME NEW a \in Nat, NEW b \in Nat, NEW c \in Nat, a <= b, b <= c, c = a
  PROVE  b = a
  OBVIOUS

\* Every step preserves it: one step of the proof per action.
LEMMA NextIInv == IInv /\ [Next]_vars => IInv'
<1> SUFFICES ASSUME IInv, [Next]_vars PROVE IInv'
  OBVIOUS
<1> USE RestoreAssumption
    DEF IInv, TypeOK, DiskOK, JobOK, PastOK, VersionOK, KeyOK, FreshAnswerIsDurable, PreparesLocked,
        Restored, Receipted, Directory, Wallet, Archive, Job, NoJob, Place, disk, nodes, Goto,
        Return, Available
<1>1. ASSUME NEW p \in Process, Prepare(p) PROVE IInv'
  BY <1>1 DEF Prepare
<1>2. ASSUME NEW p \in Process, Look(p) PROVE IInv'
  <2>1. TypeOK'
    <3>1. DiskOK'
      BY <1>2 DEF Look
    <3>2. JobOK'
      BY <1>2 DEF Look
    <3>3. QED
      BY <1>2, <3>1, <3>2 DEF Look
  <2>2. PastOK'
    BY <1>2 DEF Look
  <2>3. VersionOK'
    BY <1>2 DEF Look
  <2>4. KeyOK'
    BY <1>2 DEF Look
  <2>5. FreshAnswerIsDurable'
    BY <1>2 DEF Look
  <2>6. (PreparesLocked /\ stopped \subseteq cancelled)'
    BY <1>2 DEF Look
  <2>7. QED
    BY <2>1, <2>2, <2>3, <2>4, <2>5, <2>6
<1>3. ASSUME NEW p \in Process, ReadVersion(p) PROVE IInv'
  <2>1. TypeOK'
    <3>1. DiskOK'
      BY <1>3 DEF ReadVersion
    <3>2. JobOK'
      <4>1. CASE remote = None
        BY <1>3, <4>1 DEF ReadVersion
      <4>2. CASE remote # None
        <5>1. remote.version \in 1 .. MaxVersion
          BY <4>2
        <5>2. [job[p] EXCEPT !.version = remote.version] \in Job
          BY <5>1
        <5>3. /\ job' = [job EXCEPT ![p] = [job[p] EXCEPT !.version = remote.version]]
              /\ call' = [call EXCEPT ![p] = "download"]
          BY <1>3, <4>2 DEF ReadVersion
        <5>4. QED
          BY <5>1, <5>2, <5>3
      <4>3. QED
        BY <4>1, <4>2
    <3>3. call' \in [Process -> Place] /\ UNCHANGED <<remote, nodes, answered>>
      BY <1>3 DEF ReadVersion
    <3>4. QED
      BY <3>1, <3>2, <3>3
  <2>2. PastOK'
    BY <1>3 DEF ReadVersion
  <2>3. VersionOK'
    BY <1>3 DEF ReadVersion
  <2>4. KeyOK'
    BY <1>3 DEF ReadVersion
  <2>5. FreshAnswerIsDurable'
    BY <1>3 DEF ReadVersion
  <2>6. (PreparesLocked /\ stopped \subseteq cancelled)'
    BY <1>3 DEF ReadVersion
  <2>7. QED
    BY <2>1, <2>2, <2>3, <2>4, <2>5, <2>6
<1>4. ASSUME NEW p \in Process, Download(p) PROVE IInv'
  <2>1. TypeOK'
    <3>1. DiskOK'
      BY <1>4 DEF Download, Admitted
    <3>2. CASE Return(p)
      BY <1>4, <3>1, <3>2 DEF Download
    <3>3. CASE job' = [job EXCEPT ![p].content = remote] /\ call' = [call EXCEPT ![p] = "check"]
      <4>1. remote \in Archive
        BY <1>4 DEF Download
      <4>2. [job[p] EXCEPT !.content = remote] \in Job
        BY <4>1
      <4>3. JobOK'
        BY <1>4, <3>3, <4>1, <4>2 DEF Download
      <4>4. QED
        BY <1>4, <3>1, <3>3, <4>3 DEF Download
    <3>4. QED
      BY <1>4, <3>2, <3>3 DEF Download
  <2>2. PastOK'
    BY <1>4 DEF Download, Admitted
  <2>3. VersionOK'
    BY <1>4 DEF Download, Admitted
  <2>4. KeyOK'
    BY <1>4 DEF Download, Admitted
  <2>5. FreshAnswerIsDurable'
    BY <1>4 DEF Download, Admitted
  <2>6. (PreparesLocked /\ stopped \subseteq cancelled)'
    BY <1>4 DEF Download, Admitted
  <2>7. QED
    BY <2>1, <2>2, <2>3, <2>4, <2>5, <2>6
<1>5. ASSUME NEW p \in Process, CheckVersion(p) PROVE IInv'
  <2>1. TypeOK'
    <3>1. DiskOK'
      BY <1>5 DEF CheckVersion
    <3>2. JobOK'
      BY <1>5 DEF CheckVersion
    <3>3. QED
      BY <1>5, <3>1, <3>2 DEF CheckVersion
  <2>2. PastOK'
    BY <1>5 DEF CheckVersion
  <2>3. VersionOK'
    <3>1. job[p].version \in Nat /\ job[p].content \in Archive
      BY <1>5 DEF CheckVersion
    <3>2. CASE call' = [call EXCEPT ![p] = "key"] /\ job' = job
      <4>1. remote.version = job[p].version
        BY <1>5, <3>2 DEF CheckVersion
      <4>2. /\ job[p].version <= job[p].content.version
            /\ job[p].content.version <= remote.version
        BY <1>5 DEF CheckVersion
      <4>3. job[p].content.version \in Nat
        BY <3>1
      <4>4. job[p].content.version = job[p].version
        BY <3>1, <4>1, <4>2, <4>3, Squeezed
      <4>5. QED
        BY <1>5, <3>2, <4>4 DEF CheckVersion
    <3>3. CASE Return(p)
      BY <1>5, <3>3 DEF CheckVersion
    <3>4. QED
      BY <1>5, <3>2, <3>3 DEF CheckVersion
  <2>4. KeyOK'
    BY <1>5 DEF CheckVersion
  <2>5. FreshAnswerIsDurable'
    BY <1>5 DEF CheckVersion
  <2>6. (PreparesLocked /\ stopped \subseteq cancelled)'
    BY <1>5 DEF CheckVersion
  <2>7. QED
    BY <2>1, <2>2, <2>3, <2>4, <2>5, <2>6
<1>6. ASSUME NEW p \in Process, TakeKey(p) PROVE IInv'
  BY <1>6 DEF TakeKey
<1>7. ASSUME NEW p \in Process, PromoteKey(p) PROVE IInv'
  <2>1. TypeOK'
    <3>1. DiskOK'
      BY <1>7 DEF PromoteKey, Becomes
    <3>2. JobOK'
      BY <1>7 DEF PromoteKey, Becomes
    <3>3. QED
      BY <1>7, <3>1, <3>2 DEF PromoteKey, Becomes
  <2>2. PastOK'
    BY <1>7 DEF PromoteKey, Becomes
  <2>3. VersionOK'
    BY <1>7 DEF PromoteKey, Becomes
  <2>4. KeyOK'
    BY <1>7 DEF PromoteKey, Becomes
  <2>5. FreshAnswerIsDurable'
    BY <1>7 DEF PromoteKey, Becomes
  <2>6. (PreparesLocked /\ stopped \subseteq cancelled)'
    BY <1>7 DEF PromoteKey, Becomes
  <2>7. QED
    BY <2>1, <2>2, <2>3, <2>4, <2>5, <2>6
<1>8. ASSUME NEW p \in Process, SyncKey(p) PROVE IInv'
  BY <1>8 DEF SyncKey, Synced
<1>9. ASSUME NEW p \in Process, Stage(p) PROVE IInv'
  BY <1>9 DEF Stage
<1>10. ASSUME NEW p \in Process, Promote(p) PROVE IInv'
  <2>1. CASE base.wallet = None
    BY <1>10, <2>1, PromoteIInv
  <2>2. CASE base.wallet # None
    <3>1. Return(p) /\ UNCHANGED <<disk, remote, nodes, answered>>
      BY <1>10, <2>2 DEF Promote
    <3>2. TypeOK'
      BY <3>1
    <3>3. QED
      BY <3>1, <3>2
  <2>3. QED
    BY <2>1, <2>2
<1>11. ASSUME NEW p \in Process, SyncBase(p) PROVE IInv'
  <2>1. TypeOK'
    <3>1. DiskOK'
      BY <1>11 DEF SyncBase, Synced
    <3>2. JobOK'
      BY <1>11 DEF SyncBase, Synced
    <3>3. job[p].version \in 1 .. MaxVersion
      BY <1>11 DEF SyncBase
    <3>4. answered' = answered \cup {job[p].version}
      BY <1>11 DEF SyncBase
    <3>5. call' \in [Process -> Place] /\ UNCHANGED <<remote, nodes>>
      BY <1>11 DEF SyncBase
    <3>6. QED
      BY <3>1, <3>2, <3>3, <3>4, <3>5
  <2>2. PastOK'
    BY <1>11 DEF SyncBase, Synced
  <2>3. VersionOK'
    BY <1>11 DEF SyncBase, Synced
  <2>4. KeyOK'
    BY <1>11 DEF SyncBase, Synced
  <2>5. FreshAnswerIsDurable'
    BY <1>11 DEF SyncBase, Synced
  <2>6. (PreparesLocked /\ stopped \subseteq cancelled)'
    BY <1>11 DEF SyncBase, Synced
  <2>7. QED
    BY <2>1, <2>2, <2>3, <2>4, <2>5, <2>6
<1>12. ASSUME NEW p \in Process, Fail(p) PROVE IInv'
  BY <1>12 DEF Fail
<1>13. ASSUME NEW p \in Process, BeginUnlock(p) PROVE IInv'
  BY <1>13 DEF BeginUnlock
<1>14. ASSUME NEW p \in Process, OpenDirectory(p) PROVE IInv'
  BY <1>14, OpenDirectoryIInv
<1>15. ASSUME NEW p \in Process, EndUnlock(p) PROVE IInv'
  BY <1>15 DEF EndUnlock
<1>16. ASSUME NEW p \in Process, Lock(p) PROVE IInv'
  BY <1>16 DEF Lock
<1>17. ASSUME NEW p \in Process, Shutdown(p) PROVE IInv'
  BY <1>17 DEF Shutdown
<1>18. ASSUME NEW p \in Process, ShutdownReturns(p) PROVE IInv'
  BY <1>18 DEF ShutdownReturns
<1>19. ASSUME NEW p \in Process, Die(p) PROVE IInv'
  BY <1>19 DEF Die
<1>20. ASSUME NEW own \in BOOLEAN, Upload(own) PROVE IInv'
  BY <1>20 DEF Upload
<1>21. ASSUME PowerLoss PROVE IInv'
  BY <1>21 DEF PowerLoss
<1>22. CASE UNCHANGED vars
  BY <1>22 DEF vars
<1>23. QED
  BY <1>1, <1>2, <1>3, <1>4, <1>5, <1>6, <1>7, <1>8, <1>9, <1>10, <1>11, <1>12, <1>13,
     <1>14, <1>15, <1>16, <1>17, <1>18, <1>19, <1>20, <1>21, <1>22
  DEF Next, Preparation, Node

\* So it holds in every state of every behaviour.
LEMMA SpecIInv == Spec => []IInv
  BY InitIInv, NextIInv, PTL DEF Spec

\* Every variable keeps its type.
THEOREM TypeCorrect == Spec => []TypeOK
<1>1. IInv => TypeOK
  BY DEF IInv
<1>2. QED
  BY <1>1, SpecIInv, PTL

\* Whatever a power loss makes of the directory, a restored wallet in it is whole
\* and has a receipt under the key in it, of the version of what was extracted.
THEOREM RestoresAreWhole == Spec => []AllOrNothing
<1>1. IInv => AllOrNothing
  BY DEF IInv, PastOK, AllOrNothing, Restored
<1>2. QED
  BY <1>1, SpecIInv, PTL

\* What was reported as just restored survives any power loss.
THEOREM FreshAnswersAreDurable == Spec => []FreshAnswerIsDurable
<1>1. IInv => FreshAnswerIsDurable
  BY DEF IInv
<1>2. QED
  BY <1>1, SpecIInv, PTL

\* Only a locked node that is not shut down has a preparation running.
THEOREM PreparationsAreAlone == Spec => []PreparesLocked
<1>1. IInv => PreparesLocked
  BY DEF IInv
<1>2. QED
  BY <1>1, SpecIInv, PTL

\* No step replaces a wallet directory: promoting and opening look whether there is
\* one, and a power loss takes it back to one of its earlier states.
THEOREM NothingIsOverwritten == Spec => NeverOverwrites
<1>1. ASSUME IInv, [Next]_vars, base.wallet # None
      PROVE  base'.wallet \in {d.wallet : d \in past}
  <2>1. base \in past /\ base \in Directory
    BY <1>1 DEF IInv, TypeOK, DiskOK
  <2>2. CASE base'.wallet = base.wallet
    BY <2>1, <2>2
  <2>3. ASSUME NEW p \in Process, Preparation(p)
        PROVE  base'.wallet = base.wallet
    BY <1>1, <2>1, <2>3
    DEF Preparation, Prepare, Look, ReadVersion, Download, CheckVersion, TakeKey, PromoteKey,
        SyncKey, Stage, Promote, SyncBase, Fail, Becomes, disk, Directory
  <2>4. ASSUME NEW p \in Process, OpenDirectory(p)
        PROVE  base'.wallet = base.wallet
    BY <1>1, <2>1, <2>4 DEF OpenDirectory, Becomes, Directory
  <2>5. ASSUME NEW p \in Process, Node(p)
        PROVE  base'.wallet = base.wallet
    BY <2>4, <2>5 DEF Node, BeginUnlock, EndUnlock, Lock, Shutdown, ShutdownReturns, Die, disk
  <2>6. CASE PowerLoss
    BY <2>6 DEF PowerLoss
  <2>7. CASE \E own \in BOOLEAN : Upload(own)
    BY <2>2, <2>7 DEF Upload, disk
  <2>8. CASE UNCHANGED vars
    BY <2>2, <2>8 DEF vars, disk
  <2>9. QED
    BY <1>1, <2>2, <2>3, <2>5, <2>6, <2>7, <2>8 DEF Next
<1>2. IInv /\ [Next]_vars
        => [base.wallet # None => base'.wallet \in {d.wallet : d \in past}]_vars
  BY <1>1
<1>3. QED
  BY <1>2, SpecIInv, PTL DEF Spec, NeverOverwrites

(***************************************************************************)
(* VssRestore implements AtomicRestore.                                    *)
(***************************************************************************)

\* What a version has been read for is on the server, or something newer is.
RemoteOK ==
  \A p \in Process :
    call[p] \notin {"idle", "look", "version"}
      => remote # None /\ job[p].version <= remote.version

\* Uploads only raise the version, and nothing else changes what is there.
LEMMA RemoteSteps == IInv /\ IInv' /\ RemoteOK /\ [Next]_vars => RemoteOK'
<1> SUFFICES ASSUME IInv, IInv', RemoteOK, [Next]_vars PROVE RemoteOK'
  OBVIOUS
<1> USE DEF RemoteOK, Goto, Return, nodes, NoJob
<1>1. /\ job \in [Process -> Job] /\ call \in [Process -> Place]
      /\ remote \in Archive \cup {None}
  BY DEF IInv, TypeOK, JobOK
<1>2. ASSUME NEW p \in Process, Prepare(p) \/ Look(p) PROVE RemoteOK'
  BY <1>1, <1>2 DEF Prepare, Look
<1>3. ASSUME NEW p \in Process, ReadVersion(p) PROVE RemoteOK'
  <2>1. CASE remote = None
    BY <1>1, <1>3, <2>1 DEF ReadVersion
  <2>2. CASE remote # None
    <3>1. remote.version \in Nat
      BY <1>1, <2>2, RestoreAssumption DEF Archive
    <3>2. job'[p].version = remote.version /\ \A q \in Process \ {p} : job'[q] = job[q]
      BY <1>1, <1>3, <2>2 DEF ReadVersion, Job
    <3>3. QED
      BY <1>1, <1>3, <2>2, <3>1, <3>2 DEF ReadVersion
  <2>3. QED
    BY <2>1, <2>2
<1>4. ASSUME NEW p \in Process,
             Download(p) \/ CheckVersion(p) \/ TakeKey(p) \/ PromoteKey(p)
      PROVE  RemoteOK'
  <2>1. /\ call[p] \notin {"idle", "look", "version"} /\ remote' = remote
        /\ \A q \in Process \ {p} : call'[q] = call[q] /\ job'[q] = job[q]
    BY <1>1, <1>4 DEF Download, CheckVersion, TakeKey, PromoteKey
  <2>2. call'[p] = "idle" \/ job'[p].version = job[p].version
    <3>1. job[p] \in Job
      BY <1>1
    <3>2. QED
      BY <1>1, <1>4, <3>1 DEF Download, CheckVersion, TakeKey, PromoteKey, Job
  <2>3. QED
    BY <2>1, <2>2
<1>5. ASSUME NEW p \in Process,
             SyncKey(p) \/ Stage(p) \/ Promote(p) \/ SyncBase(p) \/ Fail(p)
      PROVE  RemoteOK'
  BY <1>1, <1>5 DEF SyncKey, Stage, Promote, SyncBase, Fail
<1>6. ASSUME NEW p \in Process, Node(p) PROVE RemoteOK'
  BY <1>1, <1>6
  DEF Node, BeginUnlock, OpenDirectory, EndUnlock, Lock, Shutdown, ShutdownReturns, Die
<1>7. ASSUME NEW own \in BOOLEAN, Upload(own) PROVE RemoteOK'
  <2>1. remote # None => /\ remote.version \in Nat /\ remote'.version = remote.version + 1
                         /\ remote' # None
    BY <1>1, <1>7, RestoreAssumption DEF Upload, Archive, IInv, TypeOK
  <2>2. \A q \in Process : call[q] \notin {"idle", "look", "version"} => job[q].version \in Nat
    BY <1>1, RestoreAssumption DEF IInv, TypeOK, JobOK, Job
  <2>3. QED
    BY <1>7, <2>1, <2>2 DEF Upload
<1>8. CASE PowerLoss
  BY <1>8 DEF PowerLoss
<1>9. CASE UNCHANGED vars
  BY <1>9 DEF vars
<1>10. QED
  BY <1>2, <1>3, <1>4, <1>5, <1>6, <1>7, <1>8, <1>9 DEF Next, Preparation

LEMMA SpecRemote == Spec => []RemoteOK
<1>1. Init => RemoteOK
  BY DEF Init, RemoteOK
<1>2. QED
  BY <1>1, RemoteSteps, SpecIInv, PTL DEF Spec

\* A wallet, when it is known to be whole.
Shown(wallet) == IF wallet \in {None, Local} THEN wallet ELSE wallet.version

\* Every directory a power loss may leave is found whole.
LEMMA FoundWhole ==
  ASSUME IInv
  PROVE  /\ base \in past
         /\ \A d \in past : Found(d) = Shown(d.wallet)
         /\ shownWallet = Shown(base.wallet)
         /\ shownKept = {Shown(d.wallet) : d \in past}
  BY DEF IInv, TypeOK, DiskOK, PastOK, Restored, Found, Shown, shownWallet, shownKept

\* What a step that leaves the parts of the abstract state alone is.
Quiet == UNCHANGED <<shownWallet, shownKept, shownUsing, shownNewest, answered>>

\* A step that changes no wallet changes none that is shown.
LEMMA SameWallet ==
  ASSUME IInv, IInv', base'.wallet = base.wallet,
         past' = past \/ past' = past \cup {base'}
  PROVE  shownWallet' = shownWallet /\ shownKept' = shownKept
<1>1. /\ base \in past
      /\ shownWallet = Shown(base.wallet) /\ shownKept = {Shown(d.wallet) : d \in past}
  BY FoundWhole
<1>2. shownWallet' = Shown(base'.wallet) /\ shownKept' = {Shown(d.wallet) : d \in past'}
  BY DEF IInv, TypeOK, DiskOK, PastOK, Restored, Found, Shown, shownWallet, shownKept
<1>3. {Shown(d.wallet) : d \in past'} = {Shown(d.wallet) : d \in past}
  BY <1>1
<1>4. QED
  BY <1>1, <1>2, <1>3

\* A wallet that appears is shown, and a power loss may take it away.
LEMMA NewWallet ==
  ASSUME IInv, IInv', past' = past \cup {base'}
  PROVE  /\ shownWallet' = Shown(base'.wallet)
         /\ shownKept' = shownKept \cup {shownWallet'}
<1>1. shownKept = {Shown(d.wallet) : d \in past}
  BY FoundWhole
<1>2. shownWallet' = Shown(base'.wallet) /\ shownKept' = {Shown(d.wallet) : d \in past'}
  BY DEF IInv, TypeOK, DiskOK, PastOK, Restored, Found, Shown, shownWallet, shownKept
<1>3. {Shown(d.wallet) : d \in past'} = {Shown(d.wallet) : d \in past} \cup {Shown(base'.wallet)}
  OBVIOUS
<1>4. QED
  BY <1>1, <1>2, <1>3

\* A synchronisation leaves nothing but what is shown.
LEMMA SyncedWallet ==
  ASSUME IInv, IInv', Synced, base' = base
  PROVE  shownWallet' = shownWallet /\ shownKept' = {shownWallet}
<1>1. base \in past /\ shownWallet = Shown(base.wallet)
  BY FoundWhole
<1>2. shownWallet' = Shown(base'.wallet) /\ shownKept' = {Shown(d.wallet) : d \in past'}
  BY DEF IInv, TypeOK, DiskOK, PastOK, Restored, Found, Shown, shownWallet, shownKept
<1>3. {Shown(d.wallet) : d \in past'} = {Shown(base.wallet)}
  BY <1>1 DEF Synced
<1>4. QED
  BY <1>1, <1>2, <1>3

\* Preparations restore, settle and promise, or show nothing.
LEMMA PreparationShows ==
  ASSUME IInv, IInv', RemoteOK, NEW p \in Process, Preparation(p)
  PROVE  Quiet \/ Atomic!Next
<1> USE DEF Quiet
<1>0. /\ base \in past /\ base \in Directory
      /\ call \in [Process -> Place] /\ job \in [Process -> Job]
      /\ remote \in Archive \cup {None}
  BY DEF IInv, TypeOK, DiskOK, JobOK
<1>1. ASSUME UNCHANGED <<disk, remote, nodes, answered>> PROVE Quiet
  <2>1. shownWallet' = shownWallet /\ shownKept' = shownKept
    BY <1>1, SameWallet DEF disk
  <2>2. shownUsing' = shownUsing /\ shownNewest' = shownNewest
    BY <1>1 DEF shownUsing, shownNewest, nodes
  <2>3. QED
    BY <1>1, <2>1, <2>2
<1>2. ASSUME UNCHANGED <<remote, nodes>>
      PROVE  shownUsing' = shownUsing /\ shownNewest' = shownNewest
  BY <1>2 DEF shownUsing, shownNewest, nodes
<1>3. ASSUME \/ Prepare(p) \/ Look(p) \/ ReadVersion(p) \/ Download(p) \/ CheckVersion(p)
             \/ TakeKey(p) \/ Stage(p) \/ Fail(p)
      PROVE  Quiet
  BY <1>1, <1>3
  DEF Prepare, Look, ReadVersion, Download, CheckVersion, TakeKey, Stage, Fail
<1>4. ASSUME PromoteKey(p) PROVE Quiet
  <2>1. CASE UNCHANGED disk
    BY <1>1, <1>4, <2>1 DEF PromoteKey
  <2>2. CASE \E k \in Key : Becomes([base EXCEPT !.key = k])
    <3>1. base'.wallet = base.wallet /\ past' = past \cup {base'}
      BY <1>0, <2>2 DEF Becomes, Directory
    <3>2. UNCHANGED <<remote, nodes, answered>>
      BY <1>4 DEF PromoteKey
    <3>3. shownWallet' = shownWallet /\ shownKept' = shownKept
      BY <3>1, SameWallet
    <3>4. QED
      BY <1>2, <3>2, <3>3
  <2>3. QED
    BY <1>4, <2>1, <2>2 DEF PromoteKey
<1>5. ASSUME SyncKey(p) PROVE Atomic!Settle
  <2>1. shownWallet' = shownWallet /\ shownKept' = {shownWallet}
    BY <1>5, SyncedWallet DEF SyncKey
  <2>2. QED
    BY <1>2, <1>5, <2>1 DEF SyncKey, Atomic!Settle
<1>6. ASSUME SyncBase(p) PROVE Atomic!Promise
  <2>1. shownWallet' = shownWallet /\ shownKept' = {shownWallet}
    BY <1>6, SyncedWallet DEF SyncBase
  <2>2. call[p] = "sync" /\ answered' = answered \cup {job[p].version}
    BY <1>6 DEF SyncBase
  <2>3. Restored(base) /\ base.wallet.version = job[p].version /\ job[p].version # None
    BY <2>2 DEF IInv, KeyOK, TypeOK, JobOK
  <2>4. shownWallet = job[p].version
    BY <2>3, FoundWhole DEF Shown, Restored
  <2>5. /\ job[p].version \in 1 .. MaxVersion
        /\ remote # None /\ job[p].version <= remote.version /\ remote.version \in 1 .. MaxVersion
    BY <1>0, <2>2, <2>3 DEF RemoteOK, Job, Archive
  <2>6. shownWallet \in 1 .. shownNewest
    BY <2>4, <2>5, RestoreAssumption DEF shownNewest
  <2>7. QED
    BY <1>2, <1>6, <2>1, <2>2, <2>4, <2>6 DEF SyncBase, Atomic!Promise
<1>7. ASSUME Promote(p) PROVE Quiet \/ Atomic!Restore(p)
  <2>1. CASE base.wallet # None
    BY <1>1, <1>7, <2>1 DEF Promote, disk
  <2>2. CASE base.wallet = None
    <3>1. /\ call[p] = "promote"
          /\ base' = [base EXCEPT !.wallet = Staged(p), !.marker = TRUE]
          /\ past' = past \cup {base'} /\ UNCHANGED <<remote, nodes, answered>>
      BY <1>7, <2>2 DEF Promote, Becomes
    <3>2. job[p].version # None /\ job[p].content # None /\ job[p].key # None
      BY <3>1 DEF IInv, TypeOK, JobOK
    <3>3. job[p].version \in 1 .. MaxVersion /\ Staged(p) \in Wallet
      BY <1>0, <3>2 DEF Staged, Wallet, Job
    <3>4. base'.wallet = Staged(p)
      BY <1>0, <3>1 DEF Directory
    <3>5. Shown(base'.wallet) = job[p].version
      <4>1. Staged(p) \notin {None, Local}
        BY <3>3, RestoreAssumption
      <4>2. Staged(p).version = job[p].version
        BY DEF Staged
      <4>3. QED
        BY <3>4, <4>1, <4>2 DEF Shown
    <3>6. remote # None /\ job[p].version <= remote.version /\ remote.version \in 1 .. MaxVersion
      BY <1>0, <3>1 DEF RemoteOK, Archive
    <3>7. job[p].version \in 1 .. shownNewest
      BY <3>3, <3>6, RestoreAssumption DEF shownNewest
    <3>8. p \notin shownUsing
      BY <3>1 DEF shownUsing, IInv, PreparesLocked
    <3>9. shownWallet = None
      BY <2>2, FoundWhole DEF Shown
    <3>10. shownWallet' = job[p].version /\ shownKept' = shownKept \cup {job[p].version}
      BY <3>1, <3>5, NewWallet
    <3>11. Atomic!Becomes(job[p].version)
      BY <3>9, <3>10 DEF Atomic!Becomes
    <3>12. QED
      BY <1>2, <3>1, <3>7, <3>8, <3>11 DEF Atomic!Restore
  <2>3. QED
    BY <2>1, <2>2
<1>8. QED
  BY <1>3, <1>4, <1>5, <1>6, <1>7 DEF Preparation, Atomic!Next

\* Nodes begin and end to use the wallet, and make one where there is none.
LEMMA NodeShows ==
  ASSUME IInv, IInv', NEW p \in Process, Node(p)
  PROVE  Quiet \/ Atomic!Next
<1> USE DEF Quiet
<1>0. base \in Directory
  BY DEF IInv, TypeOK, DiskOK
<1>1. ASSUME UNCHANGED <<disk, remote, answered>>,
             \A q \in Process \ {p} : q \in shownUsing' <=> q \in shownUsing
      PROVE  Atomic!Use(p)
  <2>1. shownWallet' = shownWallet /\ shownKept' = shownKept
    BY <1>1, SameWallet DEF disk
  <2>2. shownNewest' = shownNewest
    BY <1>1 DEF shownNewest
  <2>3. shownUsing \subseteq Process /\ shownUsing' \subseteq Process
    BY DEF IInv, TypeOK, shownUsing
  <2>4. shownUsing' \in {shownUsing \cup {p}, shownUsing \ {p}}
    BY <1>1, <2>3
  <2>5. QED
    BY <1>1, <2>1, <2>2, <2>4 DEF Atomic!Use
<1>2. ASSUME \/ BeginUnlock(p) \/ EndUnlock(p) \/ Lock(p) \/ Shutdown(p)
             \/ ShutdownReturns(p) \/ Die(p)
      PROVE  Atomic!Use(p)
  <2>1. UNCHANGED <<disk, remote, answered>>
    BY <1>2 DEF BeginUnlock, EndUnlock, Lock, Shutdown, ShutdownReturns, Die
  <2>2. \A q \in Process \ {p} : q \in shownUsing' <=> q \in shownUsing
    BY <1>2 DEF BeginUnlock, EndUnlock, Lock, Shutdown, ShutdownReturns, Die, shownUsing
  <2>3. QED
    BY <1>1, <2>1, <2>2
<1>3. ASSUME OpenDirectory(p) PROVE Quiet \/ Atomic!Create(p)
  <2> DEFINE w == IF base.wallet = None THEN Local ELSE base.wallet
  <2>1. /\ base' = [base EXCEPT !.wallet = w, !.marker = FALSE]
        /\ past' = past \cup {base'} /\ UNCHANGED <<remote, nodes, answered>>
        /\ p \in changing
    BY <1>3 DEF OpenDirectory, Becomes
  <2>2. base'.wallet = w
    BY <1>0, <2>1 DEF Directory
  <2>3. shownUsing' = shownUsing /\ shownNewest' = shownNewest /\ p \in shownUsing
    BY <2>1 DEF shownUsing, shownNewest, nodes
  <2>4. CASE base.wallet # None
    <3>1. shownWallet' = shownWallet /\ shownKept' = shownKept
      BY <2>1, <2>2, <2>4, SameWallet
    <3>2. QED
      BY <2>1, <2>3, <3>1
  <2>5. CASE base.wallet = None
    <3>1. shownWallet = None
      BY <2>5, FoundWhole DEF Shown
    <3>2. shownWallet' = Local /\ shownKept' = shownKept \cup {Local}
      BY <2>1, <2>2, <2>5, NewWallet DEF Shown
    <3>3. QED
      BY <2>1, <2>3, <3>1, <3>2 DEF Atomic!Create, Atomic!Becomes
  <2>6. QED
    BY <2>4, <2>5
<1>4. QED
  BY <1>2, <1>3 DEF Node, Atomic!Next

\* Uploads are uploads, and a power loss is one.
LEMMA WorldShows ==
  ASSUME IInv, IInv', PowerLoss \/ \E own \in BOOLEAN : Upload(own)
  PROVE  Atomic!Next
<1>1. ASSUME NEW own \in BOOLEAN, Upload(own) PROVE Atomic!Upload
  <2>1. UNCHANGED <<disk, nodes, answered>>
    BY <1>1 DEF Upload
  <2>2. shownWallet' = shownWallet /\ shownKept' = shownKept
    BY <2>1, SameWallet DEF disk
  <2>3. shownUsing' = shownUsing
    BY <2>1 DEF nodes, shownUsing
  <2>4. remote' # None /\ shownNewest' = remote'.version
    BY <1>1, RestoreAssumption DEF Upload, shownNewest, IInv, TypeOK, Archive
  <2>5. remote'.version = shownNewest + 1
    BY <1>1 DEF Upload, shownNewest
  <2>6. QED
    BY <2>1, <2>2, <2>3, <2>4, <2>5 DEF Atomic!Upload
<1>2. ASSUME PowerLoss PROVE Atomic!PowerLoss
  <2>1. base' \in past /\ past' = {base'} /\ UNCHANGED <<remote, answered>>
    BY <1>2 DEF PowerLoss
  <2>2. shownUsing' = {} /\ shownNewest' = shownNewest
    BY <1>2 DEF PowerLoss, shownUsing, shownNewest
  <2>3. shownWallet' = Shown(base'.wallet) /\ shownKept' = {Shown(d.wallet) : d \in past'}
    BY DEF IInv, TypeOK, DiskOK, PastOK, Restored, Found, Shown, shownWallet, shownKept
  <2>4. shownKept = {Shown(d.wallet) : d \in past}
    BY FoundWhole
  <2>5. QED
    BY <2>1, <2>2, <2>3, <2>4 DEF Atomic!PowerLoss
<1>3. QED
  BY <1>1, <1>2 DEF Atomic!Next

\* A preparation is an atomic restore, whatever processes, deaths, uploads and
\* power losses come between its steps.
THEOREM ImplementsAtomic == Spec => RestoreSpec
<1>1. Init => Atomic!Init
  <2> SUFFICES ASSUME Init PROVE Atomic!Init
    OBVIOUS
  <2>1. IInv /\ past = {base} /\ base.wallet \in {None, Local}
    BY InitIInv DEF Init
  <2>2. shownWallet \in {None, Local} /\ shownKept = {shownWallet}
    BY <2>1, FoundWhole DEF Shown
  <2>3. shownUsing = {} /\ shownNewest = 0 /\ answered = {}
    BY DEF Init, shownUsing, shownNewest
  <2>4. QED
    BY <2>2, <2>3 DEF Atomic!Init
<1>2. ASSUME IInv, IInv', RemoteOK, [Next]_vars
      PROVE  [Atomic!Next]_(Atomic!vars)
  <2>1. CASE UNCHANGED vars
    BY <2>1
    DEF vars, disk, nodes, Atomic!vars, shownWallet, shownKept, shownUsing, shownNewest
  <2>2. CASE Next
    BY <1>2, <2>2, PreparationShows, NodeShows, WorldShows DEF Next, Quiet, Atomic!vars
  <2>3. QED
    BY <1>2, <2>1, <2>2
<1>3. QED
  BY <1>1, <1>2, SpecIInv, SpecRemote, PTL DEF Spec, RestoreSpec, Atomic!Spec
===============================================================================
