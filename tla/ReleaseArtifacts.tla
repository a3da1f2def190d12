--------------------------- MODULE ReleaseArtifacts ----------------------------
(***************************************************************************)
(* Assembling and verifying a release                                      *)
(* (src/scripts/verify-release-artifacts.js, run before npm packs).        *)
(*                                                                         *)
(* The package holds an addon and a sidecar for each of its targets: those *)
(* of this machine's target come from its installer, the others have been  *)
(* copied here from other machines.  What their installers record is what  *)
(* AdmissibleIsTrue says of this one's.  The verification looks at one     *)
(* target after another while the package may still change.                *)
(***************************************************************************)
EXTENDS NativeAdmission, Sequences

CONSTANTS
  Targets,  \* the supported targets, in the order they are verified
  Here      \* this machine's

Target == {Targets[i] : i \in 1 .. Len(Targets)}

ASSUME ReleaseAssumption ==
  /\ Targets \in Seq(Target) /\ Here \in Target
  /\ None \notin Target
  /\ None \notin [target : Target, file : File]
  /\ None \notin [target : Target, claims : Version, profile : Profile,
                  digest : [target : Target, file : File], undone : Undone]

VARIABLES
  shelf,  \* what lies here of the other targets
  at,     \* the target to be verified next; 0 while nothing is verified
  still   \* history: nothing has changed since the verification began

release == <<shelf, at, still>>

\* An addon and a sidecar as their files say: for which target they are.
Addons == [target : Target, file : File] \cup {None}
Manifests == [target : Target, claims : Version, profile : Profile,
              digest : Addons \ {None}, undone : Undone] \cup {None}

ReleaseTypeOK ==
  /\ shelf \in [Target \ {Here} -> [addon : Addons, manifest : Manifests]]
  /\ at \in 0 .. Len(Targets) + 1
  /\ still \in BOOLEAN

Addon(t) ==
  IF t # Here THEN shelf[t].addon
  ELSE IF addon = None THEN None
  ELSE [target |-> Here, file |-> addon]

Manifest(t) ==
  IF t # Here THEN shelf[t].manifest
  ELSE IF sidecar = None THEN None
  ELSE [target |-> Here, claims |-> sidecar.claims, profile |-> sidecar.profile,
        digest |-> [target |-> Here, file |-> sidecar.digest],
        undone |-> sidecar.undone]

(***************************************************************************)
(* What other machines make: a library of their sources in either profile, *)
(* and the sidecar recorded for it.  It may be put in another's place, and  *)
(* the sources may have been changed and put back under its compiler.      *)
(***************************************************************************)
Built(t, version, profile) ==
  [target |-> t,
   file |-> [binary |-> [claims |-> version, profile |-> profile,
                         current |-> TRUE, patched |-> TRUE],
             whole |-> TRUE]]
Misled(t) == [Built(t, sources, "release") EXCEPT !.file.binary.current = FALSE]
RecordOf(built) ==
  [target |-> built.target, claims |-> built.file.binary.claims,
   profile |-> built.file.binary.profile, digest |-> built,
   undone |-> IF built.file.binary.current THEN {} ELSE {"sources"}]
CutShort(t) == [Built(t, sources, "release") EXCEPT !.file.whole = FALSE]

Products(t) ==
  {Built(t, version, "release") : version \in Version}
  \cup {Built(t, sources, "debug"), Misled(t)}
  \cup {Built(u, sources, "release") : u \in Target \ {t}}
Deposits(t) ==
  [addon : {None, CutShort(t)} \cup Products(t),
   manifest : {None} \cup {RecordOf(built) : built \in Products(t)}]

Empty == [t \in Target \ {Here} |-> [addon |-> None, manifest |-> None]]

\* A file is copied from another machine, as far as it gets, in the middle of a
\* verification (once in each: bound).
Deposit(t) ==
  /\ at > 0 /\ still /\ t # Here
  /\ \E lying \in Deposits(t) :
       /\ lying.addon = shelf[t].addon \/ lying.manifest = shelf[t].manifest
       /\ shelf' = [shelf EXCEPT ![t] = lying]
  /\ still' = FALSE
  /\ UNCHANGED <<vars, at>>

(***************************************************************************)
(* The verification.                                                       *)
(***************************************************************************)

\* No facade is in the middle of anything.
NoneLoading == \A l \in Loader : front[l] = "off"

\* Bounds of a verification: it does not read the checkout; what changes under it
\* the files it reads are the last steps of an installer; and a library is here,
\* as what is missing, or of the other profile, lies among the others' files.
Worthwhile ==
  /\ checkout = "patched" /\ NoneLoading
  /\ \A b \in Builder :
       pc[b] = "idle" \/ (pc[b] = "copy" /\ job[b].output.profile = "release")
  /\ addon # None /\ addon.binary.profile = "release"

\* The files of another target when a verification begins: either may be any, if
\* the other is as it should be or they belong together (bound).
Lying(t) ==
  {pair \in Deposits(t) :
     \/ pair.addon = Built(t, sources, "release")
     \/ pair.manifest = RecordOf(Built(t, sources, "release"))
     \/ pair.manifest # None /\ pair.addon = pair.manifest.digest}

\* readConfig; by then the other targets' files have been copied here.
Begin ==
  /\ at = 0 /\ ValidAdapter /\ Worthwhile
  /\ at' = 1 /\ still' = TRUE
  /\ \E lying \in [Target \ {Here} -> UNION {Lying(t) : t \in Target \ {Here}}] :
       /\ \A t \in Target \ {Here} : lying[t] \in Lying(t)
       /\ shelf' = lying
  /\ UNCHANGED vars

\* Mutation: the profile is the one the verification was started with.
Expected_AnyProfile(t) ==
  [target |-> t, claims |-> sources,
   profile |-> IF Manifest(t) = None THEN "release" ELSE Manifest(t).profile]

\* identity(config), computed anew for each target; the profile must be release.
Expected(t) == [target |-> t, claims |-> sources, profile |-> "release"]

Released(t) ==
  /\ Addon(t) # None /\ Manifest(t) # None
  /\ \A key \in {"target", "claims", "profile"} : Manifest(t)[key] = Expected(t)[key]
  /\ Manifest(t).digest = Addon(t)

\* A target that does not pass ends it.  What the other machines have made is
\* forgotten, as the next one begins with whatever there may be.
VerifyTarget ==
  /\ at \in 1 .. Len(Targets)
  /\ at' = IF Released(Targets[at]) THEN at + 1 ELSE 0
  /\ shelf' = IF at' = 0 THEN Empty ELSE shelf
  /\ still' = (at' = 0 \/ still)
  /\ UNCHANGED vars

\* prepublishOnly has passed: npm packs what lies there now.
Publish ==
  /\ at = Len(Targets) + 1
  /\ at' = 0 /\ shelf' = Empty /\ still' = TRUE
  /\ UNCHANGED vars

\* Everything else goes on: a facade by itself, as it writes nothing (bound), and
\* during a verification only what changes the files it reads (bound).
Otherwise ==
  /\ \/ /\ at = 0 /\ Next
        /\ NoneLoading \/ UNCHANGED <<sources, adapter, checkout, files, builders>>
     \/ /\ at > 0
        /\ \/ \E b \in Builder : Copy(b) \/ Copied(b) \/ Record(b) \/ Recorded(b)
           \/ \E version \in Version : Edit(version)
  /\ still' = (at = 0 \/ (still /\ UNCHANGED <<sources, files>>))
  /\ UNCHANGED <<shelf, at>>

-------------------------------------------------------------------------------
ReleaseInit == Init /\ shelf = Empty /\ at = 0 /\ still = TRUE

ReleaseNext ==
  \/ Otherwise
  \/ \E t \in Target : Deposit(t)
  \/ Begin \/ VerifyTarget \/ Publish

ReleaseSpec == ReleaseInit /\ [][ReleaseNext]_<<vars, release>>

-------------------------------------------------------------------------------
(***************************************************************************)
(* Properties                                                              *)
(***************************************************************************)

\* A file compiled for a target from nothing but the sources that are here now,
\* or as its record says of what was put back under the compiler.
Sound(t, built, record) ==
  /\ built.target = t
  /\ built.file.whole
  /\ built.file.binary.claims = sources
  /\ Faithful(built.file.binary, record.undone)

Packed ==
  \A t \in Target :
    /\ still => /\ Addon(t) # None /\ Manifest(t) # None
                /\ Sound(t, Addon(t), Manifest(t))
                /\ Addon(t).file.binary.profile = "release"
    /\ /\ Addon(t) # None /\ Manifest(t) # None
       /\ Manifest(t).target = t /\ Manifest(t).claims = sources
       /\ Manifest(t).digest = Addon(t)
       => Sound(t, Addon(t), Manifest(t))

\* When npm packs a package that nobody changed during the verification, the
\* addon of every target is there, in release profile, and compiled for it from
\* the sources packed beside it.  Even if somebody did, whatever a user's facade
\* would admit is compiled for its target from those sources.  Either is true but
\* for what was changed and put back while an addon was compiled.
PublishedIsSound ==
  [][Publish => Packed]_<<vars, release>>
===============================================================================
