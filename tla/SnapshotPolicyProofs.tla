------------------------- MODULE SnapshotPolicyProofs -------------------------
(***************************************************************************)
(* Theorems about SnapshotPolicy, for archives of any length.  None of the *)
(* properties is inductive alone: that a change stays announced through    *)
(* every failed write and every crash needs to know what a power loss can  *)
(* leave of the marker at each place of the mutex holder, which IInv says. *)
(***************************************************************************)
EXTENDS SnapshotPolicy, TLAPS

\* Where the choice in memory, the one on disk and the promised ones agree.
ChoiceOK ==
  /\ maybe.policy \subseteq legit
  /\ "none" \in legit => legit = Choice \cup {"none"}
  /\ at # "down" /\ ~unknown => seen.policy = enabled
  /\ purpose \in {"auto", "boot"} => enabled = "on" /\ ~unknown
  /\ purpose # "none" =>
       at \in {"marking", "reading", "uploading", "confirming", "clearing"}

\* Between the two manifest reads, our upload is among the newer versions.
ReceiptOK ==
  /\ maybe.receipt \subseteq own \cup {0}
  /\ at \in {"uploading", "confirming"} => before <= version
  /\ at = "confirming" => \E v \in own : before < v

\* How each uncovered change is announced, now and after a death.
CoverOK ==
  /\ at \in {"confirming", "clearing"} => uncovered = {}
  /\ purpose = "enable" => goal = "on"
  /\ at = "committing" /\ goal = "on" /\ enabled = "off" => uncovered = {}
  /\ at \in {"mutating", "syncing"} => unsaved /\ (refused \/ maybe.marker = {"set"})
  /\ at = "syncing" /\ ~had => uncovered \subseteq excused
  /\ refused => unsaved \/ uncovered \subseteq excused
  /\ ~refused => \A k \in uncovered \ excused :
                   maybe.marker = {"set"} \/ (k = "tracked" /\ dirty)

\* No policy object, no flags; the failed flag and the status answer.
ReportOK ==
  /\ at \in {"down", "startup"} => ~refused /\ ~unsaved /\ ~unknown /\ asked = "none"
  /\ purpose = "boot" => ~refused
  /\ enabled = "on" /\ ~unknown /\ ~panicked /\ at \notin {"down", "startup"}
       /\ purpose \notin {"auto", "boot"}
       => failed \/ uncovered \subseteq excused
  /\ asked = "clean" /\ ~Pending => uncovered \subseteq excused

IInv == TypeOK /\ ChoiceOK /\ ReceiptOK /\ CoverOK /\ ReportOK

-------------------------------------------------------------------------------
(***************************************************************************)
(* The directory: what a write or a removal may leave.                     *)
(***************************************************************************)
\* An outcome that leaves file f as it was, or settles it.
Keeps(f, o) == o.seen[f] = seen[f] /\ o.maybe[f] \subseteq maybe[f]

\* One directory sync settles every file, and nothing else.
LEMMA SettledFiles ==
  ASSUME NEW s \in Content
  PROVE  Settled(s) \in Possible /\ \A f \in File : Settled(s)[f] = {s[f]}
  BY DEF Content, Possible, Settled, File

\* Every outcome of a write is well formed, leaves the other files alone, and
\* shows the old content or the new one; a successful write leaves nothing else
\* for a power loss to bring back, and rewriting a settled content is harmless.
LEMMA WriteFile ==
  ASSUME FilesOK(seen, maybe), NEW f \in File, NEW c,
         [seen EXCEPT ![f] = c] \in Content, NEW o \in Write(f, c)
  PROVE  /\ FilesOK(o.seen, o.maybe)
         /\ \A g \in File : g # f => Keeps(g, o)
         /\ o.seen[f] \in {seen[f], c}
         /\ o.maybe[f] \subseteq maybe[f] \cup {c}
         /\ o.ok => o.seen[f] = c /\ o.maybe[f] = {c}
         /\ maybe[f] = {c} => o.maybe[f] = {c}
<1> DEFINE new == [seen EXCEPT ![f] = c]
           torn == [Settled(seen) EXCEPT ![f] = {seen[f], c}]
<1>1. \/ o = Outcome(TRUE, new, Settled(new))
      \/ o = Outcome(FALSE, seen, maybe)
      \/ o = Outcome(FALSE, seen, Settled(seen))
      \/ o = Outcome(FALSE, seen, torn)
      \/ o = Outcome(FALSE, new, torn)
      \/ o = Outcome(FALSE, new, Settled(new))
  BY DEF Write
<1>2. \/ o.ok = TRUE /\ o.seen = new /\ o.maybe = Settled(new)
      \/ o.ok = FALSE /\ o.seen = seen /\ o.maybe = maybe
      \/ o.ok = FALSE /\ o.seen = seen /\ o.maybe = Settled(seen)
      \/ o.ok = FALSE /\ o.seen = seen /\ o.maybe = torn
      \/ o.ok = FALSE /\ o.seen = new /\ o.maybe = torn
      \/ o.ok = FALSE /\ o.seen = new /\ o.maybe = Settled(new)
  <2> HIDE DEF new, torn
  <2>1. QED
    BY <1>1 DEF Outcome
<1>3. new \in Content /\ \A g \in File : new[g] = IF g = f THEN c ELSE seen[g]
  BY DEF FilesOK, Content, File
<1>4. /\ Settled(seen) \in Possible /\ \A g \in File : Settled(seen)[g] = {seen[g]}
      /\ Settled(new) \in Possible /\ \A g \in File : Settled(new)[g] = {new[g]}
  BY <1>3, SettledFiles DEF FilesOK
<1>5. torn \in Possible /\ \A g \in File : torn[g] = IF g = f THEN {seen[f], c} ELSE {seen[g]}
  <2> HIDE DEF new
  <2>1. CASE f = "policy"
    BY <2>1, <1>3, <1>4 DEF FilesOK, Content, Possible, File
  <2>2. CASE f = "marker"
    BY <2>2, <1>3, <1>4 DEF FilesOK, Content, Possible, File
  <2>3. CASE f = "receipt"
    BY <2>3, <1>3, <1>4 DEF FilesOK, Content, Possible, File
  <2>4. QED
    BY <2>1, <2>2, <2>3 DEF File
<1>6. QED
  <2> HIDE DEF new, torn
  <2>1. FilesOK(o.seen, o.maybe)
    BY <1>2, <1>3, <1>4, <1>5 DEF FilesOK
  <2>2. QED
    BY <2>1, <1>2, <1>3, <1>4, <1>5 DEF FilesOK, Keeps

\* Removing a file leaves the others alone; a successful removal is settled.
LEMMA RemoveMarker ==
  ASSUME FilesOK(seen, maybe), NEW o \in Remove("marker")
  PROVE  /\ FilesOK(o.seen, o.maybe)
         /\ Keeps("policy", o) /\ Keeps("receipt", o)
         /\ o.seen.marker = "set" => o.maybe = maybe
<1> DEFINE gone == [seen EXCEPT !["marker"] = Absent("marker")]
           torn == [maybe EXCEPT !["marker"] = @ \cup {Absent("marker")}]
<1>1. \/ o = Outcome(FALSE, seen, maybe)
      \/ o = Outcome(FALSE, gone, torn)
      \/ o = Outcome(TRUE, gone, Settled(gone))
  BY DEF Remove
<1>2. \/ o.ok = FALSE /\ o.seen = seen /\ o.maybe = maybe
      \/ o.ok = FALSE /\ o.seen = gone /\ o.maybe = torn
      \/ o.ok = TRUE /\ o.seen = gone /\ o.maybe = Settled(gone)
  <2> HIDE DEF gone, torn
  <2>1. QED
    BY <1>1 DEF Outcome
<1>3. gone \in Content /\ gone.marker = "none"
      /\ gone.policy = seen.policy /\ gone.receipt = seen.receipt
  BY DEF FilesOK, Content, Absent
<1>4. torn \in Possible /\ torn.marker = maybe.marker \cup {"none"}
      /\ torn.policy = maybe.policy /\ torn.receipt = maybe.receipt
  BY DEF FilesOK, Possible, Absent
<1>5. Settled(gone) \in Possible /\ \A g \in File : Settled(gone)[g] = {gone[g]}
  BY <1>3, SettledFiles
<1>6. QED
  <2> HIDE DEF gone, torn
  <2>1. FilesOK(o.seen, o.maybe)
    BY <1>2, <1>3, <1>4, <1>5 DEF FilesOK, File
  <2>2. QED
    BY <2>1, <1>2, <1>3, <1>4, <1>5 DEF FilesOK, Keeps, File

\* The marker written over whatever was there: the other files are kept, and a
\* marker that was safe stays safe even when the write fails.
LEMMA MarkerWritten ==
  ASSUME FilesOK(seen, maybe), NEW o \in Write("marker", "set"), Becomes(o)
  PROVE  /\ FilesOK(seen', maybe')
         /\ seen'.policy = seen.policy /\ maybe'.policy \subseteq maybe.policy
         /\ maybe'.receipt \subseteq maybe.receipt
         /\ o.maybe.marker = maybe'.marker
         /\ o.ok => maybe'.marker = {"set"}
         /\ maybe.marker = {"set"} => maybe'.marker = {"set"}
         /\ seen.marker = "set" => seen'.marker = "set"
<1>1. [seen EXCEPT !["marker"] = "set"] \in Content
  BY DEF FilesOK, Content
<1>2. QED
  BY <1>1, WriteFile DEF File, Keeps, Becomes

\* A preference written: the file shows the old choice or the new one.
LEMMA PolicyWritten ==
  ASSUME FilesOK(seen, maybe), NEW c \in Choice, NEW o \in Write("policy", c), Becomes(o)
  PROVE  /\ FilesOK(seen', maybe')
         /\ seen'.marker = seen.marker /\ maybe'.marker \subseteq maybe.marker
         /\ maybe.marker = {"set"} => maybe'.marker = {"set"}
         /\ maybe'.receipt \subseteq maybe.receipt
         /\ o.seen.policy = seen'.policy
         /\ seen'.policy \in {seen.policy, c}
         /\ maybe'.policy \subseteq maybe.policy \cup {c}
         /\ o.ok => seen'.policy = c /\ maybe'.policy = {c}
<1>1. [seen EXCEPT !["policy"] = c] \in Content
  BY DEF FilesOK, Content
<1>2. QED
  BY <1>1, WriteFile DEF File, FilesOK, Keeps, Becomes

\* A receipt written: a power loss may leave the old one or the new one.
LEMMA ReceiptWritten ==
  ASSUME FilesOK(seen, maybe), NEW v \in 0..MaxVersion, NEW o \in Write("receipt", v),
         Becomes(o)
  PROVE  /\ FilesOK(seen', maybe')
         /\ seen'.marker = seen.marker /\ maybe'.marker \subseteq maybe.marker
         /\ maybe.marker = {"set"} => maybe'.marker = {"set"}
         /\ seen'.policy = seen.policy /\ maybe'.policy \subseteq maybe.policy
         /\ maybe'.receipt \subseteq maybe.receipt \cup {v}
<1>1. [seen EXCEPT !["receipt"] = v] \in Content
  BY DEF FilesOK, Content
<1>2. QED
  BY <1>1, WriteFile DEF File, FilesOK, Keeps, Becomes

\* The marker removed, or not: the other files are kept.
LEMMA MarkerRemoved ==
  ASSUME FilesOK(seen, maybe), NEW o \in Remove("marker"), Becomes(o)
  PROVE  /\ FilesOK(seen', maybe')
         /\ seen'.policy = seen.policy /\ maybe'.policy \subseteq maybe.policy
         /\ maybe'.receipt \subseteq maybe.receipt
         /\ seen'.marker = "set" => maybe' = maybe
  BY RemoveMarker DEF Keeps, Becomes

\* A power loss leaves each file with one of its possible contents.
LEMMA FilesAfterPowerLoss ==
  ASSUME FilesOK(seen, maybe), PowerLoss
  PROVE  /\ FilesOK(seen', maybe')
         /\ maybe'.policy \subseteq maybe.policy
         /\ maybe'.receipt \subseteq maybe.receipt
         /\ maybe.marker = {"set"} => maybe'.marker = {"set"}
<1>1. seen' \in Content
      /\ seen'.policy \in maybe.policy /\ seen'.marker \in maybe.marker
      /\ seen'.receipt \in maybe.receipt
  BY DEF FilesOK, Content, Possible, PowerLoss
<1>2. maybe' \in Possible /\ \A f \in File : maybe'[f] = {seen'[f]}
  BY <1>1, SettledFiles DEF PowerLoss
<1>3. QED
  BY <1>1, <1>2 DEF FilesOK, File

-------------------------------------------------------------------------------
(***************************************************************************)
(* The inductive invariant.                                                *)
(***************************************************************************)

\* A wallet that was never unlocked satisfies the invariant.
LEMMA InitIInv == Init => IInv
<1> SUFFICES ASSUME Init PROVE IInv
  OBVIOUS
<1> USE PolicyAssumption
<1>1. seen \in Content /\ seen.policy = "none" /\ seen.marker = "none" /\ seen.receipt = 0
  BY DEF Init, Content, File, Absent
<1>2. maybe \in Possible /\ \A f \in File : maybe[f] = {seen[f]}
  BY <1>1, SettledFiles DEF Init
<1>3. FilesOK(seen, maybe)
  BY <1>1, <1>2 DEF FilesOK
<1>4. TypeOK
  <2>1. HolderOK /\ FlagsOK
    BY DEF Init, HolderOK, FlagsOK, Place, Choice
  <2>2. VersionsOK
    BY DEF Init, VersionsOK
  <2>3. QED
    BY <1>3, <2>1, <2>2 DEF TypeOK
<1>5. ChoiceOK /\ ReceiptOK
  BY <1>1, <1>2 DEF Init, ChoiceOK, ReceiptOK, Choice, File
<1>6. CoverOK /\ ReportOK
  BY DEF Init, CoverOK, ReportOK
<1>7. QED
  BY <1>4, <1>5, <1>6 DEF IInv

\* The invariant announces every uncovered change.
LEMMA Announced == IInv => NothingHidden
<1> SUFFICES ASSUME IInv, NEW k \in uncovered \ excused
             PROVE  Pending \/ (k = "tracked" /\ dirty)
  BY DEF NothingHidden
<1>1. maybe.marker = {"set"} => seen.marker = "set"
  BY DEF IInv, TypeOK, FilesOK, File
<1>2. QED
  BY <1>1 DEF IInv, CoverOK, Pending

\* Every step preserves the invariant.
LEMMA NextIInv == IInv /\ [Next]_vars => IInv'
<1> SUFFICES ASSUME IInv, [Next]_vars PROVE IInv'
  OBVIOUS
<1> USE PolicyAssumption DEF IInv, StartBackup, Free, EndCall, files, flags, call,
        remote, wallet, ghosts
<1>a. NothingHidden
  BY Announced
<1>b. /\ seen.policy \in maybe.policy /\ seen.policy \in Choice \cup {"none"}
      /\ goal \in Choice /\ version \in 0..MaxVersion /\ FilesOK(seen, maybe)
  BY DEF TypeOK, HolderOK, VersionsOK, FilesOK, Content, File
<1>1. ASSUME LoadSaved
      PROVE IInv'
  <2>1. HolderOK'
    BY <1>1 DEF LoadSaved, HolderOK, TypeOK, Place, Choice
  <2>2. FlagsOK'
    BY <1>1, <1>b DEF LoadSaved, FlagsOK, TypeOK, Choice, Kind
  <2>3. TypeOK'
    BY <2>1, <2>2, <1>1 DEF LoadSaved, TypeOK, VersionsOK
  <2>4. ChoiceOK'
    BY <1>1 DEF LoadSaved, ChoiceOK, TypeOK, FlagsOK, ReportOK, Choice
  <2>5. ReceiptOK'
    BY <1>1 DEF LoadSaved, ReceiptOK, TypeOK, VersionsOK
  <2>6. CoverOK'
    BY <1>1 DEF LoadSaved, CoverOK, TypeOK, FlagsOK, ChoiceOK, ReportOK, Kind
  <2>7. ReportOK'
    BY <1>1 DEF LoadSaved, ReportOK, TypeOK, HolderOK, FlagsOK, ChoiceOK, CoverOK,
       Pending, Choice
  <2>8. QED
    BY <2>3, <2>4, <2>5, <2>6, <2>7
<1>2. ASSUME NEW c \in Choice, LoadInitial(c)
      PROVE IInv'
  <2>1. HolderOK'
    BY <1>2, PolicyWritten DEF LoadInitial, HolderOK, TypeOK, Place, Choice
  <2>2. FlagsOK'
    BY <1>2, PolicyWritten DEF LoadInitial, FlagsOK, TypeOK, Choice, Kind
  <2>3. TypeOK'
    BY <2>1, <2>2, <1>2, PolicyWritten DEF LoadInitial, TypeOK, VersionsOK
  <2>4. ChoiceOK'
    BY <1>2, PolicyWritten, <1>b DEF LoadInitial, ChoiceOK, TypeOK, FlagsOK,
       ReportOK, Choice
  <2>5. ReceiptOK'
    BY <1>2, PolicyWritten DEF LoadInitial, ReceiptOK, TypeOK, VersionsOK
  <2>6. CoverOK'
    BY <1>2, PolicyWritten DEF LoadInitial, CoverOK, TypeOK, FlagsOK, ChoiceOK,
       ReportOK, Kind
  <2>7. ReportOK'
    BY <1>2, PolicyWritten DEF LoadInitial, ReportOK, TypeOK, HolderOK, FlagsOK,
       ChoiceOK, CoverOK, Pending, Choice
  <2>8. QED
    BY <2>3, <2>4, <2>5, <2>6, <2>7
<1>3. ASSUME Startup
      PROVE IInv'
  <2>1. HolderOK'
    BY <1>3 DEF Startup, NoFlags, HolderOK, TypeOK, Place, Choice
  <2>2. FlagsOK'
    BY <1>3 DEF Startup, NoFlags, FlagsOK, TypeOK, Choice, Kind
  <2>3. TypeOK'
    BY <2>1, <2>2, <1>3 DEF Startup, NoFlags, TypeOK, VersionsOK
  <2>4. ChoiceOK'
    BY <1>3 DEF Startup, NoFlags, ChoiceOK, TypeOK, FlagsOK, ReportOK, Choice
  <2>5. ReceiptOK'
    BY <1>3 DEF Startup, NoFlags, ReceiptOK, TypeOK, VersionsOK
  <2>6. CoverOK'
    BY <1>3 DEF Startup, NoFlags, CoverOK, TypeOK, FlagsOK, ChoiceOK, ReportOK, Kind
  <2>7. ReportOK'
    BY <1>3, <1>a DEF Startup, NoFlags, ReportOK, TypeOK, HolderOK, FlagsOK,
       ChoiceOK, CoverOK, Pending, Choice, NothingHidden
  <2>8. QED
    BY <2>3, <2>4, <2>5, <2>6, <2>7
<1>4. ASSUME BeginMutation
      PROVE IInv'
  <2>1. HolderOK'
    BY <1>4, MarkerWritten DEF BeginMutation, BeforeMutation, HolderOK, TypeOK,
       Place, Choice
  <2>2. FlagsOK'
    BY <1>4, MarkerWritten DEF BeginMutation, BeforeMutation, FlagsOK, TypeOK,
       Choice, Kind
  <2>3. TypeOK'
    BY <2>1, <2>2, <1>4, MarkerWritten DEF BeginMutation, BeforeMutation, TypeOK, VersionsOK
  <2>4. ChoiceOK'
    BY <1>4, MarkerWritten DEF BeginMutation, BeforeMutation, ChoiceOK, TypeOK,
       FlagsOK, ReportOK, Choice
  <2>5. ReceiptOK'
    BY <1>4, MarkerWritten DEF BeginMutation, BeforeMutation, ReceiptOK, TypeOK,
       VersionsOK
  <2>6. CoverOK'
    BY <1>4, MarkerWritten DEF BeginMutation, BeforeMutation, CoverOK, TypeOK,
       FlagsOK, ChoiceOK, ReportOK, Kind
  <2>7. ReportOK'
    BY <1>4, MarkerWritten DEF BeginMutation, BeforeMutation, ReportOK, TypeOK,
       HolderOK, FlagsOK, ChoiceOK, CoverOK, Pending, Choice
  <2>8. QED
    BY <2>3, <2>4, <2>5, <2>6, <2>7
<1>5. ASSUME BeginSync
      PROVE IInv'
  <2>1. HolderOK'
    BY <1>5, MarkerWritten DEF BeginSync, BeforeMutation, HolderOK, TypeOK, Place,
       Choice
  <2>2. FlagsOK'
    BY <1>5, MarkerWritten DEF BeginSync, BeforeMutation, FlagsOK, TypeOK, Choice,
       Kind
  <2>3. TypeOK'
    BY <2>1, <2>2, <1>5, MarkerWritten DEF BeginSync, BeforeMutation, TypeOK, VersionsOK
  <2>4. ChoiceOK'
    BY <1>5, MarkerWritten DEF BeginSync, BeforeMutation, ChoiceOK, TypeOK, FlagsOK,
       ReportOK, Choice
  <2>5. ReceiptOK'
    BY <1>5, MarkerWritten DEF BeginSync, BeforeMutation, ReceiptOK, TypeOK,
       VersionsOK
  <2>6. CoverOK'
    BY <1>5, MarkerWritten, <1>a DEF BeginSync, BeforeMutation, CoverOK, TypeOK,
       FlagsOK, ChoiceOK, ReportOK, Kind, NothingHidden, Pending
  <2>7. ReportOK'
    BY <1>5, MarkerWritten DEF BeginSync, BeforeMutation, ReportOK, TypeOK,
       HolderOK, FlagsOK, ChoiceOK, CoverOK, Pending, Choice
  <2>8. QED
    BY <2>3, <2>4, <2>5, <2>6, <2>7
<1>6. ASSUME FinishUnchangedSync
      PROVE IInv'
  <2>1. HolderOK'
    BY <1>6, MarkerRemoved DEF FinishUnchangedSync, AfterMutation, HolderOK, TypeOK,
       Place, Choice
  <2>2. FlagsOK'
    BY <1>6, MarkerRemoved DEF FinishUnchangedSync, AfterMutation, FlagsOK, TypeOK,
       Choice, Kind
  <2>3. TypeOK'
    BY <2>1, <2>2, <1>6, MarkerRemoved DEF FinishUnchangedSync, AfterMutation, TypeOK,
       VersionsOK
  <2>4. ChoiceOK'
    BY <1>6, MarkerRemoved DEF FinishUnchangedSync, AfterMutation, ChoiceOK, TypeOK,
       FlagsOK, ReportOK, Choice
  <2>5. ReceiptOK'
    BY <1>6, MarkerRemoved DEF FinishUnchangedSync, AfterMutation, ReceiptOK,
       TypeOK, VersionsOK
  <2>6. CoverOK'
    BY <1>6, MarkerRemoved DEF FinishUnchangedSync, AfterMutation, CoverOK, TypeOK,
       FlagsOK, ChoiceOK, ReportOK, Kind
  <2>7. ReportOK'
    BY <1>6, MarkerRemoved DEF FinishUnchangedSync, AfterMutation, ReportOK, TypeOK,
       HolderOK, FlagsOK, ChoiceOK, CoverOK, Pending, Choice
  <2>8. QED
    BY <2>3, <2>4, <2>5, <2>6, <2>7
<1>7. ASSUME NEW kinds \in SUBSET Kind, FinishMutation(kinds)
      PROVE IInv'
  <2>1. HolderOK'
    BY <1>7 DEF FinishMutation, AfterMutation, Change, HolderOK, TypeOK, Place,
       Choice
  <2>2. FlagsOK'
    BY <1>7 DEF FinishMutation, AfterMutation, Change, FlagsOK, TypeOK, Choice, Kind
  <2>3. TypeOK'
    BY <2>1, <2>2, <1>7 DEF FinishMutation, AfterMutation, Change, TypeOK, VersionsOK
  <2>4. ChoiceOK'
    BY <1>7 DEF FinishMutation, AfterMutation, Change, ChoiceOK, TypeOK, FlagsOK,
       ReportOK, Choice
  <2>5. ReceiptOK'
    BY <1>7 DEF FinishMutation, AfterMutation, Change, ReceiptOK, TypeOK, VersionsOK
  <2>6. CoverOK'
    BY <1>7 DEF FinishMutation, AfterMutation, Change, CoverOK, TypeOK, FlagsOK,
       ChoiceOK, ReportOK, Kind
  <2>7. ReportOK'
    BY <1>7 DEF FinishMutation, AfterMutation, Change, ReportOK, TypeOK, HolderOK,
       FlagsOK, ChoiceOK, CoverOK, Pending, Choice
  <2>8. QED
    BY <2>3, <2>4, <2>5, <2>6, <2>7
<1>8. ASSUME NEW kinds \in SUBSET Kind, FinishSync(kinds)
      PROVE IInv'
  <2>1. HolderOK'
    BY <1>8 DEF FinishSync, AfterMutation, Change, HolderOK, TypeOK, Place, Choice
  <2>2. FlagsOK'
    BY <1>8 DEF FinishSync, AfterMutation, Change, FlagsOK, TypeOK, Choice, Kind
  <2>3. TypeOK'
    BY <2>1, <2>2, <1>8 DEF FinishSync, AfterMutation, Change, TypeOK, VersionsOK
  <2>4. ChoiceOK'
    BY <1>8 DEF FinishSync, AfterMutation, Change, ChoiceOK, TypeOK, FlagsOK,
       ReportOK, Choice
  <2>5. ReceiptOK'
    BY <1>8 DEF FinishSync, AfterMutation, Change, ReceiptOK, TypeOK, VersionsOK
  <2>6. CoverOK'
    BY <1>8 DEF FinishSync, AfterMutation, Change, CoverOK, TypeOK, FlagsOK,
       ChoiceOK, ReportOK, Kind
  <2>7. ReportOK'
    BY <1>8 DEF FinishSync, AfterMutation, Change, ReportOK, TypeOK, HolderOK,
       FlagsOK, ChoiceOK, CoverOK, Pending, Choice
  <2>8. QED
    BY <2>3, <2>4, <2>5, <2>6, <2>7
<1>9. ASSUME NEW kinds \in SUBSET Kind, Panic(kinds)
      PROVE IInv'
  <2>1. HolderOK'
    BY <1>9 DEF Panic, AfterMutation, Change, HolderOK, TypeOK, Place, Choice
  <2>2. FlagsOK'
    BY <1>9 DEF Panic, AfterMutation, Change, FlagsOK, TypeOK, Choice, Kind
  <2>3. TypeOK'
    BY <2>1, <2>2, <1>9 DEF Panic, AfterMutation, Change, TypeOK, VersionsOK
  <2>4. ChoiceOK'
    BY <1>9 DEF Panic, AfterMutation, Change, ChoiceOK, TypeOK, FlagsOK, ReportOK,
       Choice
  <2>5. ReceiptOK'
    BY <1>9 DEF Panic, AfterMutation, Change, ReceiptOK, TypeOK, VersionsOK
  <2>6. CoverOK'
    BY <1>9 DEF Panic, AfterMutation, Change, CoverOK, TypeOK, FlagsOK, ChoiceOK,
       ReportOK, Kind
  <2>7. ReportOK'
    BY <1>9 DEF Panic, AfterMutation, Change, ReportOK, TypeOK, HolderOK, FlagsOK,
       ChoiceOK, CoverOK, Pending, Choice
  <2>8. QED
    BY <2>3, <2>4, <2>5, <2>6, <2>7
<1>10. ASSUME ManualBackup
      PROVE IInv'
  <2>1. HolderOK'
    BY <1>10 DEF ManualBackup, HolderOK, TypeOK, Place, Choice
  <2>2. FlagsOK'
    BY <1>10 DEF ManualBackup, FlagsOK, TypeOK, Choice, Kind
  <2>3. TypeOK'
    BY <2>1, <2>2, <1>10 DEF ManualBackup, TypeOK, VersionsOK
  <2>4. ChoiceOK'
    BY <1>10 DEF ManualBackup, ChoiceOK, TypeOK, FlagsOK, ReportOK, Choice
  <2>5. ReceiptOK'
    BY <1>10 DEF ManualBackup, ReceiptOK, TypeOK, VersionsOK
  <2>6. CoverOK'
    BY <1>10 DEF ManualBackup, CoverOK, TypeOK, FlagsOK, ChoiceOK, ReportOK, Kind
  <2>7. ReportOK'
    BY <1>10 DEF ManualBackup, ReportOK, TypeOK, HolderOK, FlagsOK, ChoiceOK,
       CoverOK, Pending, Choice
  <2>8. QED
    BY <2>3, <2>4, <2>5, <2>6, <2>7
<1>11. ASSUME MarkUpload
      PROVE IInv'
  <2>1. HolderOK'
    BY <1>11, MarkerWritten DEF MarkUpload, BackupFails, NoFlags, HolderOK, TypeOK,
       Place, Choice
  <2>2. FlagsOK'
    BY <1>11, MarkerWritten DEF MarkUpload, BackupFails, NoFlags, FlagsOK, TypeOK,
       Choice, Kind
  <2>3. TypeOK'
    BY <2>1, <2>2, <1>11, MarkerWritten DEF MarkUpload, BackupFails, NoFlags, TypeOK, VersionsOK
  <2>4. ChoiceOK'
    BY <1>11, MarkerWritten DEF MarkUpload, BackupFails, NoFlags, ChoiceOK, TypeOK,
       FlagsOK, ReportOK, Choice
  <2>5. ReceiptOK'
    BY <1>11, MarkerWritten DEF MarkUpload, BackupFails, NoFlags, ReceiptOK, TypeOK,
       VersionsOK
  <2>6. CoverOK'
    BY <1>11, MarkerWritten DEF MarkUpload, BackupFails, NoFlags, CoverOK, TypeOK,
       FlagsOK, ChoiceOK, ReportOK, Kind
  <2>7. ReportOK'
    BY <1>11, MarkerWritten DEF MarkUpload, BackupFails, NoFlags, ReportOK, TypeOK,
       HolderOK, FlagsOK, ChoiceOK, CoverOK, Pending, Choice
  <2>8. QED
    BY <2>3, <2>4, <2>5, <2>6, <2>7
<1>12. ASSUME ReadVersion
      PROVE IInv'
  <2>1. HolderOK'
    BY <1>12 DEF ReadVersion, BackupFails, NoFlags, HolderOK, TypeOK, Place, Choice
  <2>2. FlagsOK'
    BY <1>12 DEF ReadVersion, BackupFails, NoFlags, FlagsOK, TypeOK, Choice, Kind
  <2>3. TypeOK'
    BY <2>1, <2>2, <1>12 DEF ReadVersion, BackupFails, NoFlags, TypeOK, VersionsOK
  <2>4. ChoiceOK'
    BY <1>12 DEF ReadVersion, BackupFails, NoFlags, ChoiceOK, TypeOK, FlagsOK,
       ReportOK, Choice
  <2>5. ReceiptOK'
    BY <1>12 DEF ReadVersion, BackupFails, NoFlags, ReceiptOK, TypeOK, VersionsOK
  <2>6. CoverOK'
    BY <1>12 DEF ReadVersion, BackupFails, NoFlags, CoverOK, TypeOK, FlagsOK,
       ChoiceOK, ReportOK, Kind
  <2>7. ReportOK'
    <3>1. CASE before' = version /\ at' = "uploading" /\ UNCHANGED <<purpose, flags, refused,
                                     panicked, asked>>
      BY <1>12, <3>1 DEF ReadVersion, ReportOK, Pending
    <3>2. CASE BackupFails(FALSE)
      BY <1>12, <3>2 DEF ReadVersion, BackupFails, NoFlags, ReportOK, FlagsOK, TypeOK,
                       ChoiceOK, Pending, Choice
    <3>3. QED
      BY <1>12, <3>1, <3>2 DEF ReadVersion
  <2>8. QED
    BY <2>3, <2>4, <2>5, <2>6, <2>7
<1>13. ASSUME UploadAcknowledged
      PROVE IInv'
  <2>1. HolderOK'
    BY <1>13 DEF UploadAcknowledged, Applied, HolderOK, TypeOK, Place, Choice
  <2>2. FlagsOK'
    BY <1>13 DEF UploadAcknowledged, Applied, FlagsOK, TypeOK, Choice, Kind
  <2>3. TypeOK'
    BY <2>1, <2>2, <1>13 DEF UploadAcknowledged, Applied, TypeOK, VersionsOK
  <2>4. ChoiceOK'
    BY <1>13 DEF UploadAcknowledged, Applied, ChoiceOK, TypeOK, FlagsOK, ReportOK,
       Choice
  <2>5. ReceiptOK'
    BY <1>13 DEF UploadAcknowledged, Applied, ReceiptOK, TypeOK, VersionsOK
  <2>6. CoverOK'
    BY <1>13 DEF UploadAcknowledged, Applied, CoverOK, TypeOK, FlagsOK, ChoiceOK,
       ReportOK, Kind
  <2>7. ReportOK'
    BY <1>13 DEF UploadAcknowledged, Applied, ReportOK, TypeOK, HolderOK, FlagsOK,
       ChoiceOK, CoverOK, Pending, Choice
  <2>8. QED
    BY <2>3, <2>4, <2>5, <2>6, <2>7
<1>14. ASSUME UploadFails
      PROVE IInv'
  <2>1. HolderOK'
    BY <1>14 DEF UploadFails, Applied, BackupFails, NoFlags, HolderOK, TypeOK,
       Place, Choice
  <2>2. FlagsOK'
    BY <1>14 DEF UploadFails, Applied, BackupFails, NoFlags, FlagsOK, TypeOK,
       Choice, Kind
  <2>3. TypeOK'
    <3>1. VersionsOK'
      <4>1. CASE Applied
        BY <1>14, <4>1 DEF UploadFails, Applied, BackupFails, TypeOK, VersionsOK
      <4>2. CASE UNCHANGED <<version, own>>
        BY <1>14, <4>2 DEF UploadFails, BackupFails, TypeOK, VersionsOK
      <4>3. QED
        BY <1>14, <4>1, <4>2 DEF UploadFails
    <3>2. QED
      BY <1>14, <2>1, <2>2, <3>1, <1>b DEF UploadFails, TypeOK
  <2>4. ChoiceOK'
    BY <1>14 DEF UploadFails, Applied, BackupFails, NoFlags, ChoiceOK, TypeOK,
       FlagsOK, ReportOK, Choice
  <2>5. ReceiptOK'
    BY <1>14 DEF UploadFails, Applied, BackupFails, NoFlags, ReceiptOK, TypeOK,
       VersionsOK
  <2>6. CoverOK'
    BY <1>14 DEF UploadFails, Applied, BackupFails, NoFlags, CoverOK, TypeOK,
       FlagsOK, ChoiceOK, ReportOK, Kind
  <2>7. ReportOK'
    BY <1>14 DEF UploadFails, Applied, BackupFails, NoFlags, ReportOK, TypeOK,
       HolderOK, FlagsOK, ChoiceOK, CoverOK, Pending, Choice
  <2>8. QED
    BY <2>3, <2>4, <2>5, <2>6, <2>7
<1>15. ASSUME Confirm
      PROVE IInv'
  <2>1. HolderOK'
    BY <1>15, ReceiptWritten DEF Confirm, BackupFails, NoFlags, HolderOK, TypeOK,
       Place, Choice
  <2>2. FlagsOK'
    BY <1>15, ReceiptWritten DEF Confirm, BackupFails, NoFlags, FlagsOK, TypeOK,
       Choice, Kind
  <2>3. TypeOK'
    BY <2>1, <2>2, <1>15, ReceiptWritten DEF Confirm, BackupFails, NoFlags, TypeOK, VersionsOK
  <2>4. ChoiceOK'
    <3>1. /\ maybe'.policy \subseteq maybe.policy
          /\ seen'.policy = seen.policy
      BY <1>15, <1>b, ReceiptWritten DEF Confirm
    <3>2. QED
      BY <1>15, <3>1 DEF Confirm, BackupFails, NoFlags, ChoiceOK
  <2>5. ReceiptOK'
    BY <1>15, ReceiptWritten DEF Confirm, BackupFails, NoFlags, ReceiptOK, TypeOK,
       VersionsOK
  <2>6. CoverOK'
    BY <1>15, ReceiptWritten DEF Confirm, BackupFails, NoFlags, CoverOK, TypeOK,
       FlagsOK, ChoiceOK, ReportOK, Kind
  <2>7. ReportOK'
    BY <1>15, ReceiptWritten DEF Confirm, BackupFails, NoFlags, ReportOK, TypeOK,
       HolderOK, FlagsOK, ChoiceOK, CoverOK, Pending, Choice
  <2>8. QED
    BY <2>3, <2>4, <2>5, <2>6, <2>7
<1>16. ASSUME ClearMarker
      PROVE IInv'
  <2>1. HolderOK'
    BY <1>16, MarkerRemoved DEF ClearMarker, BackupFails, NoFlags, HolderOK, TypeOK,
       Place, Choice
  <2>2. FlagsOK'
    BY <1>16, MarkerRemoved DEF ClearMarker, BackupFails, NoFlags, FlagsOK, TypeOK,
       Choice, Kind
  <2>3. TypeOK'
    BY <2>1, <2>2, <1>16, MarkerRemoved DEF ClearMarker, BackupFails, NoFlags, TypeOK,
       VersionsOK
  <2>4. ChoiceOK'
    BY <1>16, MarkerRemoved DEF ClearMarker, BackupFails, NoFlags, ChoiceOK, TypeOK,
       FlagsOK, ReportOK, Choice
  <2>5. ReceiptOK'
    BY <1>16, MarkerRemoved DEF ClearMarker, BackupFails, NoFlags, ReceiptOK,
       TypeOK, VersionsOK
  <2>6. CoverOK'
    BY <1>16, MarkerRemoved DEF ClearMarker, BackupFails, NoFlags, CoverOK, TypeOK,
       FlagsOK, ChoiceOK, ReportOK, Kind
  <2>7. ReportOK'
    BY <1>16, MarkerRemoved DEF ClearMarker, BackupFails, NoFlags, ReportOK, TypeOK,
       HolderOK, FlagsOK, ChoiceOK, CoverOK, Pending, Choice
  <2>8. QED
    BY <2>3, <2>4, <2>5, <2>6, <2>7
<1>17. ASSUME NEW c \in Choice, SetPreference(c)
      PROVE IInv'
  <2>1. HolderOK'
    BY <1>17 DEF SetPreference, HolderOK, TypeOK, Place, Choice
  <2>2. FlagsOK'
    BY <1>17 DEF SetPreference, FlagsOK, TypeOK, Choice, Kind
  <2>3. TypeOK'
    BY <2>1, <2>2, <1>17 DEF SetPreference, TypeOK, VersionsOK
  <2>4. ChoiceOK'
    BY <1>17 DEF SetPreference, ChoiceOK, TypeOK, FlagsOK, ReportOK, Choice
  <2>5. ReceiptOK'
    BY <1>17 DEF SetPreference, ReceiptOK, TypeOK, VersionsOK
  <2>6. CoverOK'
    BY <1>17 DEF SetPreference, CoverOK, TypeOK, FlagsOK, ChoiceOK, ReportOK, Kind
  <2>7. ReportOK'
    BY <1>17 DEF SetPreference, ReportOK, TypeOK, HolderOK, FlagsOK, ChoiceOK,
       CoverOK, Pending, Choice
  <2>8. QED
    BY <2>3, <2>4, <2>5, <2>6, <2>7
<1>18. ASSUME Commit
      PROVE IInv'
  <2>1. HolderOK'
    BY <1>18, PolicyWritten DEF Commit, HolderOK, TypeOK, Place, Choice
  <2>2. FlagsOK'
    BY <1>18, PolicyWritten, <1>b DEF Commit, FlagsOK, TypeOK, Choice, Kind
  <2>3. TypeOK'
    BY <2>1, <2>2, <1>18, PolicyWritten, <1>b DEF Commit, TypeOK, VersionsOK
  <2>4. ChoiceOK'
    BY <1>18, PolicyWritten, <1>b DEF Commit, ChoiceOK, TypeOK, FlagsOK, ReportOK,
       Choice
  <2>5. ReceiptOK'
    BY <1>18, PolicyWritten, <1>b DEF Commit, ReceiptOK, TypeOK, VersionsOK
  <2>6. CoverOK'
    BY <1>18, PolicyWritten, <1>b DEF Commit, CoverOK, TypeOK, FlagsOK, ChoiceOK,
       ReportOK, Kind
  <2>7. ReportOK'
    BY <1>18, PolicyWritten DEF Commit, ReportOK, TypeOK, HolderOK, FlagsOK,
       ChoiceOK, CoverOK, Pending, Choice
  <2>8. QED
    BY <2>3, <2>4, <2>5, <2>6, <2>7
<1>19. ASSUME BeginStatus
      PROVE IInv'
  <2>1. HolderOK'
    BY <1>19 DEF BeginStatus, HolderOK, TypeOK, Place, Choice
  <2>2. FlagsOK'
    BY <1>19 DEF BeginStatus, FlagsOK, TypeOK, Choice, Kind
  <2>3. TypeOK'
    BY <2>1, <2>2, <1>19 DEF BeginStatus, TypeOK, VersionsOK
  <2>4. ChoiceOK'
    BY <1>19 DEF BeginStatus, ChoiceOK, TypeOK, FlagsOK, ReportOK, Choice
  <2>5. ReceiptOK'
    BY <1>19 DEF BeginStatus, ReceiptOK, TypeOK, VersionsOK
  <2>6. CoverOK'
    BY <1>19 DEF BeginStatus, CoverOK, TypeOK, FlagsOK, ChoiceOK, ReportOK, Kind
  <2>7. ReportOK'
    BY <1>19, <1>a DEF BeginStatus, ReportOK, TypeOK, HolderOK, FlagsOK, ChoiceOK,
       CoverOK, Pending, Choice, NothingHidden
  <2>8. QED
    BY <2>3, <2>4, <2>5, <2>6, <2>7
<1>20. ASSUME EndStatus
      PROVE IInv'
  <2>1. HolderOK'
    BY <1>20 DEF EndStatus, HolderOK, TypeOK, Place, Choice
  <2>2. FlagsOK'
    BY <1>20 DEF EndStatus, FlagsOK, TypeOK, Choice, Kind
  <2>3. TypeOK'
    BY <2>1, <2>2, <1>20 DEF EndStatus, TypeOK, VersionsOK
  <2>4. ChoiceOK'
    BY <1>20 DEF EndStatus, ChoiceOK, TypeOK, FlagsOK, ReportOK, Choice
  <2>5. ReceiptOK'
    BY <1>20 DEF EndStatus, ReceiptOK, TypeOK, VersionsOK
  <2>6. CoverOK'
    BY <1>20 DEF EndStatus, CoverOK, TypeOK, FlagsOK, ChoiceOK, ReportOK, Kind
  <2>7. ReportOK'
    BY <1>20 DEF EndStatus, ReportOK, TypeOK, HolderOK, FlagsOK, ChoiceOK, CoverOK,
       Pending, Choice
  <2>8. QED
    BY <2>3, <2>4, <2>5, <2>6, <2>7
<1>21. ASSUME ForeignUpload
      PROVE IInv'
  <2>1. HolderOK'
    BY <1>21 DEF ForeignUpload, HolderOK, TypeOK, Place, Choice
  <2>2. FlagsOK'
    BY <1>21 DEF ForeignUpload, FlagsOK, TypeOK, Choice, Kind
  <2>3. TypeOK'
    BY <2>1, <2>2, <1>21 DEF ForeignUpload, TypeOK, VersionsOK
  <2>4. ChoiceOK'
    BY <1>21 DEF ForeignUpload, ChoiceOK, TypeOK, FlagsOK, ReportOK, Choice
  <2>5. ReceiptOK'
    BY <1>21 DEF ForeignUpload, ReceiptOK, TypeOK, VersionsOK
  <2>6. CoverOK'
    BY <1>21 DEF ForeignUpload, CoverOK, TypeOK, FlagsOK, ChoiceOK, ReportOK, Kind
  <2>7. ReportOK'
    BY <1>21 DEF ForeignUpload, ReportOK, TypeOK, HolderOK, FlagsOK, ChoiceOK,
       CoverOK, Pending, Choice
  <2>8. QED
    BY <2>3, <2>4, <2>5, <2>6, <2>7
<1>22. ASSUME ProcessDeath
      PROVE IInv'
  <2>1. HolderOK'
    BY <1>22 DEF ProcessDeath, Die, NoFlags, HolderOK, TypeOK, Place, Choice
  <2>2. FlagsOK'
    BY <1>22 DEF ProcessDeath, Die, NoFlags, FlagsOK, TypeOK, Choice, Kind
  <2>3. TypeOK'
    BY <2>1, <2>2, <1>22 DEF ProcessDeath, Die, NoFlags, TypeOK, VersionsOK
  <2>4. ChoiceOK'
    BY <1>22 DEF ProcessDeath, Die, NoFlags, ChoiceOK, TypeOK, FlagsOK, ReportOK,
       Choice
  <2>5. ReceiptOK'
    BY <1>22 DEF ProcessDeath, Die, NoFlags, ReceiptOK, TypeOK, VersionsOK
  <2>6. CoverOK'
    BY <1>22 DEF ProcessDeath, Die, NoFlags, CoverOK, TypeOK, FlagsOK, ChoiceOK,
       ReportOK, Kind
  <2>7. ReportOK'
    BY <1>22 DEF ProcessDeath, Die, NoFlags, ReportOK, TypeOK, HolderOK, FlagsOK,
       ChoiceOK, CoverOK, Pending, Choice
  <2>8. QED
    BY <2>3, <2>4, <2>5, <2>6, <2>7
<1>23. ASSUME PowerLoss
      PROVE IInv'
  <2>1. HolderOK'
    BY <1>23, FilesAfterPowerLoss DEF PowerLoss, Die, NoFlags, HolderOK, TypeOK,
       Place, Choice
  <2>2. FlagsOK'
    BY <1>23, FilesAfterPowerLoss DEF PowerLoss, Die, NoFlags, FlagsOK, TypeOK,
       Choice, Kind
  <2>3. TypeOK'
    <3>1. FilesOK(seen', maybe')
      BY <1>23, <1>b, FilesAfterPowerLoss
    <3>2. VersionsOK'
      BY <1>23 DEF PowerLoss, Die, TypeOK, VersionsOK
    <3>3. QED
      BY <2>1, <2>2, <3>1, <3>2 DEF TypeOK
  <2>4. ChoiceOK'
    BY <1>23, FilesAfterPowerLoss DEF PowerLoss, Die, NoFlags, ChoiceOK, TypeOK,
       FlagsOK, ReportOK, Choice
  <2>5. ReceiptOK'
    BY <1>23, FilesAfterPowerLoss DEF PowerLoss, Die, NoFlags, ReceiptOK, TypeOK,
       VersionsOK
  <2>6. CoverOK'
    BY <1>23, FilesAfterPowerLoss DEF PowerLoss, Die, NoFlags, CoverOK, TypeOK,
       FlagsOK, ChoiceOK, ReportOK, Kind
  <2>7. ReportOK'
    BY <1>23, FilesAfterPowerLoss DEF PowerLoss, Die, NoFlags, ReportOK, TypeOK,
       HolderOK, FlagsOK, ChoiceOK, CoverOK, Pending, Choice
  <2>8. QED
    BY <2>3, <2>4, <2>5, <2>6, <2>7
<1>24. CASE UNCHANGED vars
  BY <1>24 DEF vars, TypeOK, HolderOK, FlagsOK, VersionsOK, ChoiceOK, ReceiptOK, CoverOK,
     ReportOK, Pending
<1>25. QED
  BY <1>1, <1>2, <1>3, <1>4, <1>5, <1>6, <1>7, <1>8, <1>9, <1>10, <1>11,
     <1>12, <1>13, <1>14, <1>15, <1>16, <1>17, <1>18, <1>19, <1>20, <1>21,
     <1>22, <1>23, <1>24
  DEF Next, Backup

-------------------------------------------------------------------------------
(***************************************************************************)
(* The theorems.                                                           *)
(***************************************************************************)

\* The invariant holds in every state of every behaviour.
LEMMA SpecIInv == Spec => []IInv
  BY InitIInv, NextIInv, PTL DEF Spec

\* Every variable keeps its type, and a file always shows one of the contents a
\* power loss may leave.
THEOREM TypeCorrect == Spec => []TypeOK
<1>1. IInv => TypeOK
  BY DEF IInv
<1>2. QED
  BY <1>1, SpecIInv, PTL

\* Whatever writes fail and wherever the process or the machine dies, a wallet
\* change no upload of ours holds is announced.
THEOREM NoChangeIsHidden == Spec => []NothingHidden
<1>1. IInv => NothingHidden
  BY Announced
<1>2. QED
  BY <1>1, SpecIInv, PTL

\* What metadata reports as the preference is what a restart would read, and no
\* crash or power loss brings back a choice older than the last acknowledged one.
THEOREM ChoicesAreKept == Spec => []ChoiceIsKept
<1>1. IInv => ChoiceIsKept
  BY DEF IInv, ChoiceOK, ChoiceIsKept
<1>2. QED
  BY <1>1, SpecIInv, PTL

\* No receipt, on disk or resurrected by a power loss, names another writer's
\* version.
THEOREM ReceiptsAreOurs == Spec => []ReceiptIsOurs
<1>1. IInv => ReceiptIsOurs
  BY DEF IInv, ReceiptOK, ReceiptIsOurs
<1>2. QED
  BY <1>1, SpecIInv, PTL

\* Under an on preference a change that is not uploaded was reported as failed.
THEOREM NothingIsSilentlySkipped == Spec => []NeverSilentlySkipped
<1>1. IInv => NeverSilentlySkipped
  BY DEF IInv, ChoiceOK, ReportOK, NeverSilentlySkipped
<1>2. QED
  BY <1>1, SpecIInv, PTL

\* A status answer composed of two reads never denies an uncovered change.
THEOREM StatusAnswersAreHonest == Spec => StatusIsHonest
<1>1. IInv => (asked = "clean" /\ asked' = "none" /\ at' # "down" /\ ~Pending
                 => uncovered \subseteq excused)
  BY DEF IInv, ReportOK
<1>2. QED
  BY <1>1, SpecIInv, PTL DEF StatusIsHonest

\* An acknowledged off silences the node's own uploads through every restart.
THEOREM NoUploadsWhileOff == Spec => NoUploadWhileOff
<1>1. IInv => (purpose \in {"auto", "boot"} => "on" \in legit)
  <2> SUFFICES ASSUME IInv, purpose \in {"auto", "boot"} PROVE "on" \in legit
    OBVIOUS
  <2>1. enabled = "on" /\ ~unknown /\ at # "down"
    BY DEF IInv, ChoiceOK
  <2>2. seen.policy = "on" /\ seen.policy \in maybe.policy
    BY <2>1 DEF IInv, ChoiceOK, TypeOK, FilesOK, File
  <2>3. QED
    BY <2>2 DEF IInv, ChoiceOK
<1>2. IInv => (version' # version /\ own' # own /\ purpose \in {"auto", "boot"}
                 => "on" \in legit)
  BY <1>1
<1>3. QED
  BY <1>2, SpecIInv, PTL DEF NoUploadWhileOff

\* Only a commit turns the preference on, and the catch-up upload came first.
LEMMA CommitIsCaughtUp ==
  IInv /\ [Next]_vars =>
    (at = "committing" /\ enabled = "off" /\ enabled' = "on" => uncovered = {})
<1>1. ASSUME IInv, [Next]_vars, at = "committing", enabled = "off", enabled' = "on"
      PROVE  uncovered = {}
  <2>1. Commit
    BY <1>1 DEF Next, Backup, LoadSaved, LoadInitial, Startup, BeginMutation, BeginSync,
       FinishUnchangedSync, FinishMutation, FinishSync, Panic, ManualBackup, MarkUpload,
       ReadVersion, UploadAcknowledged, UploadFails, Confirm, ClearMarker, SetPreference,
       BeginStatus, EndStatus, ForeignUpload, ProcessDeath, PowerLoss, Die, NoFlags, vars,
       flags
  <2>2. ~unknown /\ seen.policy = "off"
    BY <1>1, <2>1 DEF Commit, IInv, ChoiceOK
  <2>3. goal \in Choice /\ FilesOK(seen, maybe)
    BY <1>1 DEF IInv, TypeOK, HolderOK
  <2>4. PICK o \in Write("policy", goal) :
          Becomes(o) /\ enabled' \in {goal, o.seen.policy, enabled}
    BY <2>1, <2>2 DEF Commit
  <2>5. goal = "on"
    BY <1>1, <2>2, <2>3, <2>4, PolicyWritten
  <2>6. QED
    BY <1>1, <2>5 DEF IInv, CoverOK
<1>2. QED
  BY <1>1

\* A node that starts with the preference on uploads what was left behind first.
LEMMA StartupIsCaughtUp ==
  IInv /\ [Next]_vars =>
    (at' = "idle" /\ at \in {"startup", "clearing"} /\ enabled = "on"
       => uncovered \subseteq excused)
<1>1. ASSUME IInv, [Next]_vars, at' = "idle", at \in {"startup", "clearing"}, enabled = "on"
      PROVE  uncovered \subseteq excused
  <2>1. CASE at = "clearing"
    BY <1>1, <2>1 DEF IInv, CoverOK
  <2>2. CASE at = "startup"
    <3>1. ~dirty /\ ~Pending
      BY <1>1, <2>2 DEF Next, Backup, LoadSaved, LoadInitial, Startup, StartBackup,
         BeginMutation, BeginSync, FinishUnchangedSync, FinishMutation, FinishSync, Panic,
         ManualBackup, MarkUpload, ReadVersion, UploadAcknowledged, UploadFails, Confirm,
         ClearMarker, SetPreference, Commit, BeginStatus, EndStatus, ForeignUpload,
         ProcessDeath, PowerLoss, Die, NoFlags, vars
    <3>2. QED
      BY <1>1, <3>1, Announced DEF NothingHidden
  <2>3. QED
    BY <1>1, <2>1, <2>2
<1>2. QED
  BY <1>1

\* Whether it is turned on or found on at startup, "on" means that everything
\* has been uploaded.
THEOREM OnIsCaughtUp == Spec => OnMeansCaughtUp
<1>1. IInv /\ [Next]_vars =>
        [/\ at = "committing" /\ enabled = "off" /\ enabled' = "on" => uncovered = {}
         /\ at \in {"startup", "clearing"} /\ at' = "idle" /\ purpose \in {"none", "boot"}
              /\ enabled = "on" => uncovered \subseteq excused]_vars
  BY CommitIsCaughtUp, StartupIsCaughtUp
<1>2. QED
  BY <1>1, SpecIInv, PTL DEF Spec, OnMeansCaughtUp
===============================================================================
