--------------------------- MODULE NativeAdmission ----------------------------
(***************************************************************************)
(* Building the native addon and admitting it into a process               *)
(* (src/scripts/install-overlay-addon.js, release-contract.js and the head *)
(* of src/index.js).                                                       *)
(*                                                                         *)
(* A build compiles the package's own sources against a patched checkout,  *)
(* copies the library to its place and only then writes the sidecar that   *)
(* admits it.  It may die anywhere, and sources and checkout change under  *)
(* it, and are changed back.  A facade verifies addon and sidecar and then *)
(* has the addon loaded.                                                   *)
(***************************************************************************)
EXTENDS Naturals

CONSTANTS
  Builder,     \* processes that run the installer
  Loader,      \* processes that load the facade
  MaxVersion,  \* bound: how many contents wrapper, lock and recipe have
  Differences, \* bound: the ways configuration and patch file differ from the release
  Approved,    \* versions whose lock has just the Git sources approved for release
  None         \* no file, nothing compiled or verified yet

Version == 1 .. MaxVersion
Profile == {"release", "debug"}
Difference == {"identity", "files", "checksum"}

\* A compiled library: the identity built into it, and, as history, whether
\* every read of its sources found them current, and the checkout patched.
Binary == [claims : Version, profile : Profile, current : BOOLEAN, patched : BOOLEAN]

\* A library in its place, the copy of which may have been cut short.
File == [binary : Binary, whole : BOOLEAN]

\* History: which of them were put back after the compiler had read them changed.
\* It is in no file, and nothing but the properties looks at it.
Undone == SUBSET {"sources", "checkout"}

Sidecar == [claims : Version, profile : Profile, digest : File, undone : Undone]

ASSUME AdmissionAssumption ==
  /\ MaxVersion \in Nat \ {0}
  /\ Approved \subseteq Version
  /\ Differences \subseteq SUBSET Difference
  /\ None \notin Binary \cup File \cup Sidecar

\* What a builder goes by: its descriptor with what its reads of the sources have
\* met, which is what it compiles, and the digest it writes.
Job == [output : Binary, digest : File \cup {None}, undone : Undone]

VARIABLES
  sources,   \* content of wrapper, lock and recipe
  adapter,   \* how configuration and patch file differ from the release
  checkout,  \* content of .native-source
  addon,     \* the addon file
  sidecar,   \* the provenance file; None also if it is cut short
  pc,        \* where each builder is
  job,       \* what each builder goes by
  front,     \* where each loader is
  held,      \* the file each loader has verified
  loaded     \* the file whose initialisation has run in it

files == <<addon, sidecar>>
builders == <<pc, job>>
loaders == <<front, held, loaded>>
vars == <<sources, adapter, checkout, files, builders, loaders>>

Place == {"idle", "reuse", "source", "checkout", "prepare", "graph", "describe", "compile",
          "verify", "copy", "copying", "record", "recording"}

TypeOK ==
  /\ sources \in Version
  /\ adapter \subseteq Difference
  /\ checkout \in {"none", "half", "clean", "patched", "foreign", "other"}
  /\ addon \in File \cup {None} /\ sidecar \in Sidecar \cup {None}
  /\ pc \in [Builder -> Place] /\ job \in [Builder -> Job]
  /\ \A b \in Builder :
       /\ pc[b] \in {"copying", "record"} => addon # None
       /\ pc[b] = "recording" => job[b].digest # None
  /\ front \in [Loader -> {"off", "admitted", "loaded", "ready"}]
  /\ held \in [Loader -> File \cup {None}] /\ loaded \in [Loader -> File \cup {None}]
  /\ \A l \in Loader : /\ front[l] # "off" => held[l] # None
                       /\ front[l] \in {"loaded", "ready"} <=> loaded[l] # None
                       /\ front[l] = "admitted" => addon # None

\* A builder that has read nothing yet.
Fresh(profile, version) ==
  [output |-> [claims |-> version, profile |-> profile, current |-> TRUE, patched |-> TRUE],
   digest |-> None, undone |-> {}]

NoJob == Fresh("release", 1)

Init ==
  /\ sources = 1 /\ adapter = {}
  /\ checkout = "none"
  /\ addon = None /\ sidecar = None
  /\ pc = [b \in Builder |-> "idle"] /\ job = [b \in Builder |-> NoJob]
  /\ front = [l \in Loader |-> "off"]
  /\ held = [l \in Loader |-> None] /\ loaded = [l \in Loader |-> None]

\* Mutation: the digest of the file is not compared.
Matches_NoDigest(profile) ==
  /\ addon # None /\ sidecar # None
  /\ sidecar.claims = sources /\ sidecar.profile = profile

\* The sidecar names the present identity, the profile and this very file.
Matches(profile) ==
  /\ addon # None /\ sidecar # None
  /\ sidecar.claims = sources /\ sidecar.profile = profile
  /\ sidecar.digest = addon

\* A loader takes either profile, as the sidecar says.
Admissible == \E profile \in Profile : Matches(profile)

\* Mutation: files outside the allowlist may be patched too.
ValidAdapter_NoAllowlist == adapter \cap {"identity", "checksum"} = {}

\* validateAdapter: the configuration names the release, the patch touches only
\* files of the allowlist, and its checksum is the configured one.
ValidAdapter == adapter \cap {"identity", "files", "checksum"} = {}

\* A clean checkout with the patch file, as it is, applied.
Patched == IF adapter \subseteq {"identity"} THEN "patched" ELSE "foreign"

(***************************************************************************)
(* The installer.                                                          *)
(***************************************************************************)

Goto(b, place) == pc' = [pc EXCEPT ![b] = place]

Finish(b) == Goto(b, "idle") /\ job' = [job EXCEPT ![b] = NoJob]

\* A builder may throw, or die, at any step; what it has written stays.
Stop(b) ==
  /\ pc[b] # "idle"
  /\ Finish(b)
  /\ UNCHANGED <<sources, adapter, checkout, files, loaders>>

Start(b, profile) ==
  /\ pc[b] = "idle" /\ ValidAdapter
  /\ Goto(b, "reuse")
  /\ job' = [job EXCEPT ![b] = Fresh(profile, 1)]
  /\ UNCHANGED <<sources, adapter, checkout, files, loaders>>

\* An addon that matches is reused.
Reuse(b) ==
  /\ pc[b] = "reuse"
  /\ IF Matches(job[b].output.profile) THEN Finish(b) ELSE Goto(b, "source") /\ UNCHANGED job
  /\ UNCHANGED <<sources, adapter, checkout, files, loaders>>

\* Any directory that is there is taken for the clone.
Clone(b) ==
  /\ pc[b] = "source"
  /\ IF checkout = "none"
       THEN checkout' = "half" /\ Goto(b, "checkout")
       ELSE Goto(b, "prepare") /\ UNCHANGED checkout
  /\ UNCHANGED <<sources, adapter, files, job, loaders>>

CheckOut(b) ==
  /\ pc[b] = "checkout" /\ checkout = "half"
  /\ checkout' = "clean"
  /\ Goto(b, "prepare")
  /\ UNCHANGED <<sources, adapter, files, job, loaders>>

\* contract.prepareSource patches a clean checkout, and takes no other than a
\* patched one besides.
Prepare(b) ==
  /\ pc[b] = "prepare" /\ ValidAdapter /\ checkout \in {"clean", Patched}
  /\ checkout' = Patched
  /\ Goto(b, "graph")
  /\ UNCHANGED <<sources, adapter, files, job, loaders>>

\* verifyCargoGraph
CheckGraph(b) ==
  /\ pc[b] = "graph" /\ sources \in Approved
  /\ Goto(b, "describe")
  /\ UNCHANGED <<sources, adapter, checkout, files, job, loaders>>

\* The descriptor is taken before compiling; cargo admits one build per profile.
Describe(b) ==
  /\ pc[b] = "describe"
  /\ \A c \in Builder : pc[c] = "compile" => job[c].output.profile # job[b].output.profile
  /\ job' = [job EXCEPT ![b] = Fresh(@.output.profile, sources)]
  /\ Goto(b, "compile")
  /\ UNCHANGED <<sources, adapter, checkout, files, loaders>>

\* The compiler reads some of the sources.
Read(b) ==
  /\ pc[b] = "compile"
  /\ job' = [job EXCEPT ![b].output.current = @ /\ sources = job[b].output.claims,
                        ![b].output.patched = @ /\ checkout = "patched"]
  /\ UNCHANGED <<sources, adapter, checkout, files, pc, loaders>>

Compiled(b) ==
  /\ pc[b] = "compile"
  /\ Goto(b, "verify")
  /\ UNCHANGED <<sources, adapter, checkout, files, job, loaders>>

\* Mutation: the checkout is prepared once more.
Verify_Prepares(b) ==
  /\ pc[b] = "verify" /\ ValidAdapter /\ checkout \in {"clean", Patched}
  /\ checkout' = Patched
  /\ Goto(b, "copy")
  /\ UNCHANGED <<sources, adapter, files, job, loaders>>

\* Mutation: an addon that is in place already is taken for the one built.
Verify_SkipsCopy(b) ==
  /\ pc[b] = "verify" /\ ValidAdapter /\ checkout = Patched
  /\ Goto(b, "record")
  /\ UNCHANGED <<sources, adapter, checkout, files, job, loaders>>

\* verifyPreparedSource only looks.
Verify(b) ==
  /\ pc[b] = "verify" /\ ValidAdapter /\ checkout = Patched
  /\ Goto(b, "copy")
  /\ UNCHANGED <<sources, adapter, checkout, files, job, loaders>>

\* copyFileSync, which writes in place.
Copy(b) ==
  /\ pc[b] = "copy"
  /\ addon' = [binary |-> job[b].output, whole |-> FALSE]
  /\ Goto(b, "copying")
  /\ UNCHANGED <<sources, adapter, checkout, sidecar, job, loaders>>

Copied(b) ==
  /\ pc[b] = "copying"
  /\ addon' = [binary |-> job[b].output, whole |-> TRUE]
  /\ Goto(b, "record")
  /\ UNCHANGED <<sources, adapter, checkout, sidecar, job, loaders>>

\* Mutation: the identity is taken anew instead of compared.
Record_Anew(b) ==
  /\ pc[b] = "record"
  /\ job' = [job EXCEPT ![b].output.claims = sources, ![b].digest = addon]
  /\ sidecar' = None
  /\ Goto(b, "recording")
  /\ UNCHANGED <<sources, adapter, checkout, addon, loaders>>

\* recordAddonProvenance compares the descriptor with the present identity and
\* hashes the file in place.
Record(b) ==
  /\ pc[b] = "record" /\ job[b].output.claims = sources
  /\ job' = [job EXCEPT ![b].digest = addon]
  /\ sidecar' = None
  /\ Goto(b, "recording")
  /\ UNCHANGED <<sources, adapter, checkout, addon, loaders>>

Recorded(b) ==
  /\ pc[b] = "recording"
  /\ sidecar' = [claims |-> job[b].output.claims, profile |-> job[b].output.profile,
                 digest |-> job[b].digest, undone |-> job[b].undone]
  /\ Finish(b)
  /\ UNCHANGED <<sources, adapter, checkout, addon, loaders>>

(***************************************************************************)
(* The facade.                                                             *)
(***************************************************************************)

\* verifyAddonAdmission
Admit(l) ==
  /\ front[l] = "off" /\ ValidAdapter /\ Admissible
  /\ front' = [front EXCEPT ![l] = "admitted"]
  /\ held' = [held EXCEPT ![l] = addon]
  /\ UNCHANGED <<sources, adapter, checkout, files, builders, loaded>>

\* A process ends, or throws because it cannot go on; it throws after loading an
\* addon of another identity.
Exit(l) ==
  /\ front[l] # "off"
  /\ front' = [front EXCEPT ![l] = "off"]
  /\ held' = [held EXCEPT ![l] = None] /\ loaded' = [loaded EXCEPT ![l] = None]
  /\ UNCHANGED <<sources, adapter, checkout, files, builders>>

\* require opens the file by its name and, if it is a whole library, runs its
\* initialisation.
Load(l) ==
  /\ front[l] = "admitted" /\ addon.whole
  /\ front' = [front EXCEPT ![l] = "loaded"]
  /\ loaded' = [loaded EXCEPT ![l] = addon]
  /\ UNCHANGED <<sources, adapter, checkout, files, builders, held>>

\* getRuntimeInfo: the identity built into what was loaded is compared with the
\* expected one, which the verified file has.
Identify(l) ==
  /\ front[l] = "loaded" /\ loaded[l].binary.claims = held[l].binary.claims
  /\ front' = [front EXCEPT ![l] = "ready"]
  /\ UNCHANGED <<sources, adapter, checkout, files, builders, held, loaded>>

(***************************************************************************)
(* Whoever works on the package.                                           *)
(***************************************************************************)

\* The package's own files get another content, or one they had before.  What
\* was compiled from others than it claims is noted if these are back.
Edit(version) ==
  /\ sources # version
  /\ sources' = version
  /\ job' = [b \in Builder |->
       IF job[b].output.claims = version /\ ~job[b].output.current
         THEN [job[b] EXCEPT !.undone = @ \cup {"sources"}]
         ELSE job[b]]
  /\ UNCHANGED <<adapter, checkout, files, pc, loaders>>

\* The checkout is reset, changed, removed or patched, at any time: by hand, or
\* by scripts/test-native-adapter.js, which prepares it too.
ChangeCheckout(content) ==
  /\ checkout # content
  /\ checkout' = content
  /\ job' = [b \in Builder |->
       IF content = "patched" /\ ~job[b].output.patched
         THEN [job[b] EXCEPT !.undone = @ \cup {"checkout"}]
         ELSE job[b]]
  /\ UNCHANGED <<sources, adapter, files, pc, loaders>>

\* Configuration or patch file become another's, or the release's again.
ChangeAdapter(difference) ==
  /\ adapter # difference
  /\ adapter' = difference
  /\ UNCHANGED <<sources, checkout, files, builders, loaders>>

-------------------------------------------------------------------------------
Installer(b) ==
  \/ \E profile \in Profile : Start(b, profile)
  \/ Reuse(b) \/ Clone(b) \/ CheckOut(b) \/ Prepare(b) \/ CheckGraph(b) \/ Describe(b)
  \/ Read(b) \/ Compiled(b) \/ Verify(b) \/ Copy(b) \/ Copied(b) \/ Record(b) \/ Recorded(b)
  \/ Stop(b)

Facade(l) == Admit(l) \/ Load(l) \/ Identify(l) \/ Exit(l)

Next ==
  \/ \E b \in Builder : Installer(b)
  \/ \E l \in Loader : Facade(l)
  \/ \E content \in {"none", "clean", "patched", "other"} : ChangeCheckout(content)
  \/ \E difference \in Differences : ChangeAdapter(difference)
  \/ \E version \in Version : Edit(version)

Spec == Init /\ [][Next]_vars

-------------------------------------------------------------------------------
(***************************************************************************)
(* Properties                                                              *)
(***************************************************************************)

\* Compiled from nothing but the sources it claims and the patched checkout, or
\* these were put back while the compiler was at it.
Faithful(binary, undone) ==
  /\ binary.current \/ "sources" \in undone
  /\ binary.patched \/ "checkout" \in undone

\* With one installer at a time, an addon that would be admitted is whole, of
\* the profile its sidecar names, and compiled from nothing but the sources it
\* is admitted for, although a build may die between any two writes, and
\* sources and checkout may change under the compiler: unless they were changed
\* and put back, which the installer, looking before and after, does not see.
AdmissibleIsTrue ==
  \A profile \in Profile : Matches(profile) =>
    /\ addon.whole
    /\ addon.binary.profile = profile
    /\ addon.binary.claims = sources
    /\ Faithful(addon.binary, sidecar.undone)

\* What src/index.js:52 says: "Only verified bytes may enter the native loader or
\* run addon initialization."
OnlyVerifiedLoads ==
  \A l \in Loader : front[l] \in {"loaded", "ready"} => loaded[l] = held[l]
===============================================================================
