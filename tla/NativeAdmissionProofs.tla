------------------------- MODULE NativeAdmissionProofs ------------------------
(***************************************************************************)
(* NativeAdmission with one installer at a time, for any number of loaders *)
(* and of changes to sources and checkout, taken back or not.  A second    *)
(* installer would repair a reverted checkout or replace the addon between *)
(* a copy and its hash: there is no invariant like this one for two.       *)
(***************************************************************************)
EXTENDS ReleaseArtifacts, TLAPS

\* What a builder has compiled is patched if the checkout is, and current if its
\* identity is, or what was met instead has been put back: since only the builder
\* itself and whoever puts it back patch the checkout.
OutputOK ==
  \A b \in Builder :
    /\ pc[b] \in {"compile", "verify"} /\ checkout = "patched" =>
         job[b].output.patched \/ "checkout" \in job[b].undone
    /\ pc[b] \in {"copy", "copying", "record", "recording"} =>
         job[b].output.patched \/ "checkout" \in job[b].undone
    /\ /\ pc[b] \in {"compile", "verify", "copy", "copying", "record"}
       /\ job[b].output.claims = sources
       => job[b].output.current \/ "sources" \in job[b].undone
    /\ pc[b] = "recording" => job[b].output.current \/ "sources" \in job[b].undone

\* What is hashed is the builder's own output.
CopyOK ==
  \A b \in Builder :
    /\ pc[b] = "record" => addon = [binary |-> job[b].output, whole |-> TRUE]
    /\ pc[b] = "recording" => job[b].digest = [binary |-> job[b].output, whole |-> TRUE]

\* A sidecar speaks of a sound file, wherever that is by now, but for what was put
\* back under the compiler.
SidecarOK ==
  sidecar # None =>
    /\ sidecar.digest.whole
    /\ sidecar.digest.binary.claims = sidecar.claims
    /\ sidecar.digest.binary.profile = sidecar.profile
    /\ Faithful(sidecar.digest.binary, sidecar.undone)

IInv == TypeOK /\ OutputOK /\ CopyOK /\ SidecarOK

Alone == \A b, c \in Builder : b = c

LEMMA FreshIsJob ==
  ASSUME NEW profile \in Profile, NEW version \in Version
  PROVE  /\ Fresh(profile, version) \in Job
         /\ Fresh(profile, version).output \in Binary
         /\ Fresh(profile, version).output.claims = version
         /\ Fresh(profile, version).output.profile = profile
         /\ Fresh(profile, version).output.current /\ Fresh(profile, version).output.patched
BY DEF Fresh, Job, Binary, Version, Profile, Undone

\* That something was put back adds to what was, and changes nothing else.
LEMMA Noting ==
  ASSUME NEW j \in Job, NEW what \in {"sources", "checkout"}
  PROVE  LET noted == [j EXCEPT !.undone = @ \cup {what}]
         IN  /\ noted \in Job
             /\ noted.output = j.output /\ noted.digest = j.digest
             /\ noted.undone = j.undone \cup {what}
BY DEF Job, Undone

\* What is patched by the approved adapter.
LEMMA ValidPatches == ASSUME TypeOK, ValidAdapter PROVE Patched = "patched"
BY DEF TypeOK, ValidAdapter, Patched, Difference

LEMMA Initially == ASSUME Init PROVE IInv
<1>1. 1 \in Version /\ "release" \in Profile  BY AdmissionAssumption DEF Version, Profile
<1>2. NoJob \in Job  BY <1>1, FreshIsJob DEF NoJob
<1>3. TypeOK  BY <1>1, <1>2 DEF Init, TypeOK, Place
<1>4. OutputOK /\ CopyOK /\ SidecarOK  BY DEF Init, OutputOK, CopyOK, SidecarOK
<1>5. QED  BY <1>3, <1>4 DEF IInv

\* An installer's steps.  Its own place, job and files are all that they change.
LEMMA InstallerSteps == ASSUME IInv, Alone, NEW b \in Builder, Installer(b) PROVE IInv'
<1>i. TypeOK /\ OutputOK /\ CopyOK /\ SidecarOK  BY DEF IInv
<1>b. Builder = {b}  BY DEF Alone
<1>j. job[b] \in Job /\ job[b].output \in Binary  BY <1>i DEF TypeOK, Job
<1>n. NoJob \in Job
  BY AdmissionAssumption, FreshIsJob DEF NoJob, Version, Profile
<1>1. ASSUME NEW profile \in Profile, Start(b, profile) PROVE IInv'
  <2>1. TypeOK'
    BY <1>i, <1>b, <1>j, <1>n, <1>1, FreshIsJob, AdmissionAssumption
    DEF Start, Goto, Version, TypeOK, Place, files, builders, loaders
  <2>2. OutputOK'
    BY <1>i, <1>b, <1>j, <1>1, FreshIsJob, AdmissionAssumption
    DEF Start, Goto, Version, TypeOK, OutputOK, files, builders, loaders
  <2>3. CopyOK'
    BY <1>i, <1>b, <1>j, <1>1, FreshIsJob, AdmissionAssumption
    DEF Start, Goto, Version, TypeOK, CopyOK, files, builders, loaders
  <2>4. SidecarOK'
    BY <1>i, <1>b, <1>j, <1>1, FreshIsJob, AdmissionAssumption
    DEF Start, Goto, Version, TypeOK, SidecarOK, files, builders, loaders
  <2>5. QED  BY <2>1, <2>2, <2>3, <2>4 DEF IInv
<1>2. CASE Stop(b)
  <2>1. TypeOK'
    BY <1>i, <1>b, <1>j, <1>n, <1>2, AdmissionAssumption
    DEF Stop, Finish, Goto, TypeOK, Place, files, builders, loaders
  <2>2. OutputOK'
    BY <1>i, <1>b, <1>j, <1>2, AdmissionAssumption
    DEF Stop, Finish, Goto, TypeOK, OutputOK, files, builders, loaders
  <2>3. CopyOK'
    BY <1>i, <1>b, <1>j, <1>2, AdmissionAssumption
    DEF Stop, Finish, Goto, TypeOK, CopyOK, files, builders, loaders
  <2>4. SidecarOK'
    BY <1>i, <1>b, <1>j, <1>2, AdmissionAssumption
    DEF Stop, Finish, Goto, TypeOK, SidecarOK, files, builders, loaders
  <2>5. QED  BY <2>1, <2>2, <2>3, <2>4 DEF IInv
<1>3. CASE Reuse(b)
  <2>1. TypeOK'
    BY <1>i, <1>b, <1>j, <1>n, <1>3, AdmissionAssumption
    DEF Reuse, Finish, Goto, TypeOK, Place, files, builders, loaders
  <2>2. OutputOK'
    BY <1>i, <1>b, <1>j, <1>3, AdmissionAssumption
    DEF Reuse, Finish, Goto, TypeOK, OutputOK, files, builders, loaders
  <2>3. CopyOK'
    BY <1>i, <1>b, <1>j, <1>3, AdmissionAssumption
    DEF Reuse, Finish, Goto, TypeOK, CopyOK, files, builders, loaders
  <2>4. SidecarOK'
    BY <1>i, <1>b, <1>j, <1>3, AdmissionAssumption
    DEF Reuse, Finish, Goto, TypeOK, SidecarOK, files, builders, loaders
  <2>5. QED  BY <2>1, <2>2, <2>3, <2>4 DEF IInv
<1>4. CASE Clone(b)
  <2>1. TypeOK'
    BY <1>i, <1>b, <1>j, <1>n, <1>4, AdmissionAssumption
    DEF Clone, Goto, TypeOK, Place, files, builders, loaders
  <2>2. OutputOK'
    BY <1>i, <1>b, <1>j, <1>4, AdmissionAssumption
    DEF Clone, Goto, TypeOK, OutputOK, files, builders, loaders
  <2>3. CopyOK'
    BY <1>i, <1>b, <1>j, <1>4, AdmissionAssumption
    DEF Clone, Goto, TypeOK, CopyOK, files, builders, loaders
  <2>4. SidecarOK'
    BY <1>i, <1>b, <1>j, <1>4, AdmissionAssumption
    DEF Clone, Goto, TypeOK, SidecarOK, files, builders, loaders
  <2>5. QED  BY <2>1, <2>2, <2>3, <2>4 DEF IInv
<1>5. CASE CheckOut(b)
  <2>1. TypeOK'
    BY <1>i, <1>b, <1>j, <1>n, <1>5, AdmissionAssumption
    DEF CheckOut, Goto, TypeOK, Place, files, builders, loaders
  <2>2. OutputOK'
    BY <1>i, <1>b, <1>j, <1>5, AdmissionAssumption
    DEF CheckOut, Goto, TypeOK, OutputOK, files, builders, loaders
  <2>3. CopyOK'
    BY <1>i, <1>b, <1>j, <1>5, AdmissionAssumption
    DEF CheckOut, Goto, TypeOK, CopyOK, files, builders, loaders
  <2>4. SidecarOK'
    BY <1>i, <1>b, <1>j, <1>5, AdmissionAssumption
    DEF CheckOut, Goto, TypeOK, SidecarOK, files, builders, loaders
  <2>5. QED  BY <2>1, <2>2, <2>3, <2>4 DEF IInv
<1>6. CASE Prepare(b)
  <2>1. TypeOK'
    BY <1>i, <1>b, <1>j, <1>n, <1>6, ValidPatches, AdmissionAssumption
    DEF Prepare, Goto, TypeOK, Place, files, builders, loaders
  <2>2. OutputOK'
    BY <1>i, <1>b, <1>j, <1>6, ValidPatches, AdmissionAssumption
    DEF Prepare, Goto, TypeOK, OutputOK, files, builders, loaders
  <2>3. CopyOK'
    BY <1>i, <1>b, <1>j, <1>6, ValidPatches, AdmissionAssumption
    DEF Prepare, Goto, TypeOK, CopyOK, files, builders, loaders
  <2>4. SidecarOK'
    BY <1>i, <1>b, <1>j, <1>6, ValidPatches, AdmissionAssumption
    DEF Prepare, Goto, TypeOK, SidecarOK, files, builders, loaders
  <2>5. QED  BY <2>1, <2>2, <2>3, <2>4 DEF IInv
<1>7. CASE Describe(b)
  <2>p. job[b].output.profile \in Profile /\ sources \in Version
    BY <1>i, <1>j DEF TypeOK, Binary
  <2>f. /\ Fresh(job[b].output.profile, sources) \in Job
        /\ Fresh(job[b].output.profile, sources).output.claims = sources
        /\ Fresh(job[b].output.profile, sources).output.current
        /\ Fresh(job[b].output.profile, sources).output.patched
    BY <2>p, FreshIsJob
  <2>1. TypeOK'
    BY <1>i, <1>b, <1>j, <1>n, <1>7, <2>p, <2>f, AdmissionAssumption
    DEF Describe, Goto, TypeOK, Place, files, builders, loaders
  <2>e. job'[b] = Fresh(job[b].output.profile, sources) /\ pc'[b] = "compile" /\ sources' = sources
    BY <1>7, <1>i DEF Describe, Goto, TypeOK
  <2>2. OutputOK'
    BY <1>b, <2>e, <2>f DEF OutputOK
  <2>3. CopyOK'
    BY <1>i, <1>b, <1>j, <1>7, <2>p, <2>f, AdmissionAssumption
    DEF Describe, Goto, TypeOK, CopyOK, files, builders, loaders
  <2>4. SidecarOK'
    BY <1>i, <1>b, <1>j, <1>7, <2>p, <2>f, AdmissionAssumption
    DEF Describe, Goto, TypeOK, SidecarOK, files, builders, loaders
  <2>5. QED  BY <2>1, <2>2, <2>3, <2>4 DEF IInv
<1>8. CASE Read(b)
  <2> DEFINE output == [job[b].output EXCEPT !.current = @ /\ sources = job[b].output.claims,
                                             !.patched = @ /\ checkout = "patched"]
  <2>o. /\ output \in Binary
        /\ output.claims = job[b].output.claims
        /\ output.current = (job[b].output.current /\ sources = job[b].output.claims)
        /\ output.patched = (job[b].output.patched /\ checkout = "patched")
    BY <1>j DEF Binary
  <2>d. job' = [job EXCEPT ![b] = [job[b] EXCEPT !.output = output]]
    BY <1>8, <1>i, <1>j DEF Read, TypeOK, Job, Binary
  <2> HIDE DEF output
  <2>n. /\ [job[b] EXCEPT !.output = output] \in Job
        /\ [job[b] EXCEPT !.output = output].output = output
        /\ [job[b] EXCEPT !.output = output].undone = job[b].undone
    BY <1>j, <2>o DEF Job
  <2>e. job' \in [Builder -> Job] /\ job'[b].output = output /\ job'[b].undone = job[b].undone
    BY <1>i, <2>d, <2>n DEF TypeOK
  <2>u. pc[b] = "compile" /\ UNCHANGED <<sources, adapter, checkout, addon, sidecar, pc, front, held, loaded>>
    BY <1>8 DEF Read, files, loaders
  <2>1. TypeOK'  BY <1>i, <1>b, <2>e, <2>u DEF TypeOK
  <2>2. OutputOK'  BY <1>i, <1>b, <2>o, <2>e, <2>u DEF OutputOK
  <2>3. CopyOK'  BY <1>i, <1>b, <2>u DEF CopyOK
  <2>4. SidecarOK'  BY <1>i, <2>u DEF SidecarOK
  <2>5. QED  BY <2>1, <2>2, <2>3, <2>4 DEF IInv
<1>9. CASE Compiled(b)
  <2>1. TypeOK'
    BY <1>i, <1>b, <1>j, <1>n, <1>9, AdmissionAssumption
    DEF Compiled, Goto, TypeOK, Place, files, builders, loaders
  <2>2. OutputOK'
    BY <1>i, <1>b, <1>j, <1>9, AdmissionAssumption
    DEF Compiled, Goto, TypeOK, OutputOK, files, builders, loaders
  <2>3. CopyOK'
    BY <1>i, <1>b, <1>j, <1>9, AdmissionAssumption
    DEF Compiled, Goto, TypeOK, CopyOK, files, builders, loaders
  <2>4. SidecarOK'
    BY <1>i, <1>b, <1>j, <1>9, AdmissionAssumption
    DEF Compiled, Goto, TypeOK, SidecarOK, files, builders, loaders
  <2>5. QED  BY <2>1, <2>2, <2>3, <2>4 DEF IInv
<1>10. CASE Verify(b)
  <2>1. TypeOK'
    BY <1>i, <1>b, <1>j, <1>n, <1>10, ValidPatches, AdmissionAssumption
    DEF Verify, Goto, TypeOK, Place, files, builders, loaders
  <2>2. OutputOK'
    BY <1>i, <1>b, <1>j, <1>10, ValidPatches, AdmissionAssumption
    DEF Verify, Goto, TypeOK, OutputOK, files, builders, loaders
  <2>3. CopyOK'
    BY <1>i, <1>b, <1>j, <1>10, ValidPatches, AdmissionAssumption
    DEF Verify, Goto, TypeOK, CopyOK, files, builders, loaders
  <2>4. SidecarOK'
    BY <1>i, <1>b, <1>j, <1>10, ValidPatches, AdmissionAssumption
    DEF Verify, Goto, TypeOK, SidecarOK, files, builders, loaders
  <2>5. QED  BY <2>1, <2>2, <2>3, <2>4 DEF IInv
<1>11. CASE Copy(b)
  <2>f. [binary |-> job[b].output, whole |-> FALSE] \in File
    BY <1>j DEF File
  <2>a. addon' \in File /\ addon' # None
    BY <1>11, <2>f, AdmissionAssumption DEF Copy
  <2>1. TypeOK'
    BY <1>i, <1>b, <1>j, <1>n, <1>11, <2>a, AdmissionAssumption
    DEF Copy, Goto, TypeOK, Place, files, builders, loaders
  <2>2. OutputOK'
    BY <1>i, <1>b, <1>j, <1>11, <2>a, AdmissionAssumption
    DEF Copy, Goto, TypeOK, OutputOK, files, builders, loaders
  <2>3. CopyOK'
    BY <1>i, <1>b, <1>j, <1>11, <2>a, AdmissionAssumption
    DEF Copy, Goto, TypeOK, CopyOK, files, builders, loaders
  <2>4. SidecarOK'
    BY <1>i, <1>b, <1>j, <1>11, <2>a, AdmissionAssumption
    DEF Copy, Goto, TypeOK, SidecarOK, files, builders, loaders
  <2>5. QED  BY <2>1, <2>2, <2>3, <2>4 DEF IInv
<1>12. CASE Copied(b)
  <2>f. [binary |-> job[b].output, whole |-> TRUE] \in File
    BY <1>j DEF File
  <2>a. addon' \in File /\ addon' # None
    BY <1>12, <2>f, AdmissionAssumption DEF Copied
  <2>1. TypeOK'
    BY <1>i, <1>b, <1>j, <1>n, <1>12, <2>a, AdmissionAssumption
    DEF Copied, Goto, TypeOK, Place, files, builders, loaders
  <2>2. OutputOK'
    BY <1>i, <1>b, <1>j, <1>12, <2>a, AdmissionAssumption
    DEF Copied, Goto, TypeOK, OutputOK, files, builders, loaders
  <2>3. CopyOK'
    BY <1>i, <1>b, <1>j, <1>12, <2>a, AdmissionAssumption
    DEF Copied, Goto, TypeOK, CopyOK, files, builders, loaders
  <2>4. SidecarOK'
    BY <1>i, <1>b, <1>j, <1>12, <2>a, AdmissionAssumption
    DEF Copied, Goto, TypeOK, SidecarOK, files, builders, loaders
  <2>5. QED  BY <2>1, <2>2, <2>3, <2>4 DEF IInv
<1>13. CASE Record(b)
  <2>a. addon \in File /\ addon # None
    BY <1>13, <1>i, AdmissionAssumption DEF Record, TypeOK
  <2>d. /\ [job[b] EXCEPT !.digest = addon] \in Job
        /\ [job[b] EXCEPT !.digest = addon].digest = addon
        /\ [job[b] EXCEPT !.digest = addon].output = job[b].output
        /\ [job[b] EXCEPT !.digest = addon].undone = job[b].undone
    BY <1>j, <2>a DEF Job
  <2>1. TypeOK'
    BY <1>i, <1>b, <1>j, <1>n, <1>13, <2>a, <2>d, AdmissionAssumption
    DEF Record, Goto, TypeOK, Place, files, builders, loaders
  <2>2. OutputOK'
    BY <1>i, <1>b, <1>j, <1>13, <2>a, <2>d, AdmissionAssumption
    DEF Record, Goto, TypeOK, OutputOK, files, builders, loaders
  <2>3. CopyOK'
    BY <1>i, <1>b, <1>j, <1>13, <2>a, <2>d, AdmissionAssumption
    DEF Record, Goto, TypeOK, CopyOK, files, builders, loaders
  <2>4. SidecarOK'
    BY <1>i, <1>b, <1>j, <1>13, <2>a, <2>d, AdmissionAssumption
    DEF Record, Goto, TypeOK, SidecarOK, files, builders, loaders
  <2>5. QED  BY <2>1, <2>2, <2>3, <2>4 DEF IInv
<1>14. CASE Recorded(b)
  <2>d. job[b].digest \in File
    BY <1>14, <1>i, <1>j DEF Recorded, TypeOK, Job
  <2>s. sidecar' \in Sidecar
    BY <1>14, <1>j, <2>d DEF Recorded, Sidecar, Binary, Job
  <2>c. /\ job[b].digest = [binary |-> job[b].output, whole |-> TRUE]
        /\ Faithful(job[b].output, job[b].undone)
    BY <1>14, <1>i DEF Recorded, CopyOK, OutputOK, Faithful
  <2>1. TypeOK'
    BY <1>i, <1>b, <1>j, <1>n, <1>14, <2>s, <2>c, AdmissionAssumption
    DEF Recorded, Finish, Goto, TypeOK, Place, files, builders, loaders
  <2>2. OutputOK'
    BY <1>i, <1>b, <1>j, <1>14, <2>s, <2>c, AdmissionAssumption
    DEF Recorded, Finish, Goto, TypeOK, OutputOK, files, builders, loaders
  <2>3. CopyOK'
    BY <1>i, <1>b, <1>j, <1>14, <2>s, <2>c, AdmissionAssumption
    DEF Recorded, Finish, Goto, TypeOK, CopyOK, files, builders, loaders
  <2>4. SidecarOK'
    BY <1>i, <1>b, <1>j, <1>14, <2>s, <2>c, AdmissionAssumption
    DEF Recorded, Finish, Goto, TypeOK, SidecarOK, files, builders, loaders
  <2>5. QED  BY <2>1, <2>2, <2>3, <2>4 DEF IInv
<1>15. CASE CheckGraph(b)
  <2>1. TypeOK'
    BY <1>i, <1>b, <1>15 DEF CheckGraph, Goto, TypeOK, Place, files, builders, loaders
  <2>2. OutputOK' /\ CopyOK' /\ SidecarOK'
    BY <1>i, <1>b, <1>15
    DEF CheckGraph, Goto, TypeOK, OutputOK, CopyOK, SidecarOK, files, builders, loaders
  <2>3. QED  BY <2>1, <2>2 DEF IInv
<1>16. QED  BY <1>1, <1>2, <1>3, <1>4, <1>5, <1>6, <1>7, <1>8, <1>9, <1>10, <1>11, <1>12, <1>13, <1>14, <1>15 DEF Installer

LEMMA Steps == Alone /\ IInv /\ [Next]_vars => IInv'
<1> SUFFICES ASSUME Alone, IInv, [Next]_vars PROVE IInv'
  OBVIOUS
<1>i. TypeOK /\ OutputOK /\ CopyOK /\ SidecarOK  BY DEF IInv
<1>1. CASE UNCHANGED vars
  BY <1>1, <1>i DEF vars, files, builders, loaders, IInv, TypeOK, OutputOK, CopyOK, SidecarOK
<1>2. ASSUME NEW l \in Loader, Facade(l) PROVE IInv'
  <2>1. TypeOK'
    <3>1. CASE Admit(l)
      BY <3>1, <1>i, AdmissionAssumption
      DEF Admit, Admissible, Matches, files, builders, TypeOK
    <3>2. CASE Load(l)
      BY <3>2, <1>i, AdmissionAssumption DEF Load, files, builders, TypeOK
    <3>3. CASE Identify(l)
      BY <3>3, <1>i DEF Identify, files, builders, TypeOK
    <3>4. CASE Exit(l)
      BY <3>4, <1>i DEF Exit, files, builders, TypeOK
    <3>5. QED  BY <1>2, <3>1, <3>2, <3>3, <3>4 DEF Facade
  <2>2. OutputOK' /\ CopyOK' /\ SidecarOK'
    BY <1>2, <1>i
    DEF Facade, Admit, Load, Identify, Exit, files, builders, OutputOK, CopyOK, SidecarOK
  <2>3. QED  BY <2>1, <2>2 DEF IInv
<1>3. ASSUME NEW content \in {"none", "clean", "patched", "other"}, ChangeCheckout(content)
      PROVE  IInv'
  <2>1. /\ checkout' = content
        /\ UNCHANGED <<sources, adapter, addon, sidecar, pc, front, held, loaded>>
        /\ job' = [b \in Builder |->
             IF content = "patched" /\ ~job[b].output.patched
               THEN [job[b] EXCEPT !.undone = @ \cup {"checkout"}]
               ELSE job[b]]
    BY <1>3 DEF ChangeCheckout, files, loaders
  <2>2. \A b \in Builder : job[b] \in Job
    BY <1>i DEF TypeOK
  <2>3. ASSUME NEW b \in Builder
        PROVE  /\ job'[b] \in Job
               /\ job'[b].output = job[b].output /\ job'[b].digest = job[b].digest
               /\ job[b].undone \subseteq job'[b].undone
               /\ content = "patched" =>
                    job[b].output.patched \/ "checkout" \in job'[b].undone
    BY <2>1, <2>2, Noting
  <2>4. TypeOK'  BY <1>i, <2>1, <2>3 DEF TypeOK
  <2>5. OutputOK'  BY <1>i, <2>1, <2>3 DEF OutputOK
  <2>6. CopyOK' /\ SidecarOK'  BY <1>i, <2>1, <2>3 DEF CopyOK, SidecarOK
  <2>7. QED  BY <2>4, <2>5, <2>6 DEF IInv
<1>4. ASSUME NEW version \in Version, Edit(version) PROVE IInv'
  <2>1. /\ sources' = version
        /\ UNCHANGED <<adapter, checkout, addon, sidecar, pc, front, held, loaded>>
        /\ job' = [b \in Builder |->
             IF job[b].output.claims = version /\ ~job[b].output.current
               THEN [job[b] EXCEPT !.undone = @ \cup {"sources"}]
               ELSE job[b]]
    BY <1>4 DEF Edit, files, loaders
  <2>2. \A b \in Builder : job[b] \in Job
    BY <1>i DEF TypeOK
  <2>3. ASSUME NEW b \in Builder
        PROVE  /\ job'[b] \in Job
               /\ job'[b].output = job[b].output /\ job'[b].digest = job[b].digest
               /\ job[b].undone \subseteq job'[b].undone
               /\ job[b].output.claims = version =>
                    job[b].output.current \/ "sources" \in job'[b].undone
    BY <2>1, <2>2, Noting
  <2>4. TypeOK'  BY <1>i, <2>1, <2>3 DEF TypeOK
  <2>5. OutputOK'  BY <1>i, <2>1, <2>3 DEF OutputOK
  <2>6. CopyOK' /\ SidecarOK'  BY <1>i, <2>1, <2>3 DEF CopyOK, SidecarOK
  <2>7. QED  BY <2>4, <2>5, <2>6 DEF IInv
<1>5. ASSUME NEW difference \in Differences, ChangeAdapter(difference) PROVE IInv'
  <2>1. TypeOK'  BY <1>5, <1>i, AdmissionAssumption DEF ChangeAdapter, files, builders, loaders, TypeOK
  <2>2. OutputOK' /\ CopyOK' /\ SidecarOK'
    BY <1>5, <1>i DEF ChangeAdapter, files, builders, loaders, OutputOK, CopyOK, SidecarOK
  <2>3. QED  BY <2>1, <2>2 DEF IInv
<1>6. QED  BY <1>1, <1>2, <1>3, <1>4, <1>5, InstallerSteps DEF Next

-------------------------------------------------------------------------------
(***************************************************************************)
(* The release.                                                            *)
(***************************************************************************)

\* What other machines have recorded speaks of sound files.
ShelfOK ==
  \A t \in Target \ {Here} : shelf[t].manifest # None =>
    /\ shelf[t].manifest.digest.target = shelf[t].manifest.target
    /\ shelf[t].manifest.digest.file.whole
    /\ shelf[t].manifest.digest.file.binary.claims = shelf[t].manifest.claims
    /\ shelf[t].manifest.digest.file.binary.profile = shelf[t].manifest.profile
    /\ Faithful(shelf[t].manifest.digest.file.binary, shelf[t].manifest.undone)

\* While nothing changes, what has been verified stays as it was.
VerifiedOK ==
  still => \A i \in 1 .. Len(Targets) : i < at => Released(Targets[i])

RInv ==
  /\ IInv
  /\ ReleaseTypeOK
  /\ ShelfOK /\ VerifiedOK

LEMMA DepositsAreRecords ==
  ASSUME TypeOK, NEW t \in Target, NEW lying \in Deposits(t)
  PROVE  /\ lying \in [addon : Addons, manifest : Manifests]
         /\ lying.manifest # None =>
              /\ lying.manifest.digest.target = lying.manifest.target
              /\ lying.manifest.digest.file.whole
              /\ lying.manifest.digest.file.binary.claims = lying.manifest.claims
              /\ lying.manifest.digest.file.binary.profile = lying.manifest.profile
              /\ Faithful(lying.manifest.digest.file.binary, lying.manifest.undone)
<1>1. \A u \in Target, version \in Version, profile \in Profile :
        /\ Built(u, version, profile) \in [target : Target, file : File]
        /\ Built(u, version, profile).target = u
        /\ Built(u, version, profile).file.whole
        /\ Built(u, version, profile).file.binary.claims = version
        /\ Built(u, version, profile).file.binary.profile = profile
        /\ Built(u, version, profile).file.binary.current
        /\ Built(u, version, profile).file.binary.patched
  BY DEF Built, File, Binary
<1>2. \A built \in Products(t) :
        built = Misled(t) \/ \E u \in Target, version \in Version, profile \in Profile :
                               built = Built(u, version, profile)
  BY DEF Products, TypeOK, Profile
<1>m. /\ Misled(t) \in [target : Target, file : File]
      /\ Misled(t).file.whole /\ Misled(t).file.binary.patched
      /\ ~Misled(t).file.binary.current
      /\ Misled(t).file.binary.claims \in Version
      /\ Misled(t).file.binary.profile \in Profile
  BY DEF Misled, Built, File, Binary, TypeOK, Profile
<1>3. \A built \in Products(t) :
        /\ built \in [target : Target, file : File]
        /\ built.file.whole /\ built.file.binary.patched
        /\ built.file.binary.claims \in Version /\ built.file.binary.profile \in Profile
  BY <1>1, <1>2, <1>m
<1>4. CutShort(t) \in [target : Target, file : File]
  BY DEF CutShort, Built, File, Binary, TypeOK, Profile
<1>5. \A built \in Products(t) :
        /\ RecordOf(built) \in [target : Target, claims : Version, profile : Profile,
                                digest : [target : Target, file : File], undone : Undone]
        /\ RecordOf(built).digest = built
        /\ RecordOf(built).target = built.target
        /\ RecordOf(built).claims = built.file.binary.claims
        /\ RecordOf(built).profile = built.file.binary.profile
        /\ Faithful(built.file.binary, RecordOf(built).undone)
  BY <1>3 DEF RecordOf, Undone, Faithful
<1>6. lying.addon \in Addons
  BY <1>3, <1>4 DEF Deposits, Addons
<1>7. lying.manifest = None \/ \E built \in Products(t) : lying.manifest = RecordOf(built)
  BY DEF Deposits
<1>8. [target : Target, file : File] \subseteq Addons \ {None}
  BY ReleaseAssumption DEF Addons
<1>9. lying.manifest \in Manifests
  BY <1>5, <1>7, <1>8 DEF Manifests
<1>10. lying = [addon |-> lying.addon, manifest |-> lying.manifest]
  BY DEF Deposits
<1>11. QED  BY <1>3, <1>5, <1>6, <1>7, <1>9, <1>10

LEMMA ReleaseInitially == ReleaseInit => RInv
<1> SUFFICES ASSUME ReleaseInit PROVE RInv
  OBVIOUS
<1>1. IInv  BY Initially DEF ReleaseInit
<1>2. [addon |-> None, manifest |-> None] \in [addon : Addons, manifest : Manifests]
  BY DEF Addons, Manifests
<1>3. shelf \in [Target \ {Here} -> [addon : Addons, manifest : Manifests]]
  BY <1>2 DEF ReleaseInit, Empty
<1>4. ShelfOK  BY DEF ReleaseInit, Empty, ShelfOK
<1>5. VerifiedOK  BY DEF ReleaseInit, VerifiedOK
<1>6. Len(Targets) \in Nat  BY ReleaseAssumption
<1>7. ReleaseTypeOK  BY <1>3, <1>6 DEF ReleaseInit, ReleaseTypeOK
<1>8. QED  BY <1>1, <1>4, <1>5, <1>7 DEF RInv

LEMMA ReleaseSteps == Alone /\ RInv /\ [ReleaseNext]_<<vars, release>> => RInv'
<1> SUFFICES ASSUME Alone, RInv, [ReleaseNext]_<<vars, release>> PROVE RInv'
  OBVIOUS
<1>l. Len(Targets) \in Nat
  BY ReleaseAssumption
<1>i. /\ IInv /\ TypeOK /\ ReleaseTypeOK /\ at \in Nat /\ ShelfOK /\ VerifiedOK
      /\ shelf \in [Target \ {Here} -> [addon : Addons, manifest : Manifests]]
  BY <1>l DEF RInv, IInv, ReleaseTypeOK
<1>e. Empty \in [Target \ {Here} -> [addon : Addons, manifest : Manifests]]
  BY DEF Empty, Addons, Manifests
<1>u. UNCHANGED vars => IInv'
  BY <1>i, Steps
<1>1. CASE UNCHANGED <<vars, release>>
  <2>1. UNCHANGED <<shelf, at, still>>  BY <1>1 DEF release
  <2>2. ShelfOK'  BY <1>i, <2>1 DEF ShelfOK
  <2>3. VerifiedOK'
    BY <1>i, <1>1, <2>1
    DEF VerifiedOK, Released, Expected, Addon, Manifest, vars, files
  <2>4. ReleaseTypeOK'  BY <1>i, <2>1 DEF ReleaseTypeOK
  <2>5. QED  BY <1>1, <1>u, <2>2, <2>3, <2>4 DEF RInv
<1>2. CASE Otherwise
  <2>1. Next
    BY <1>2 DEF Otherwise, Next, Installer
  <2>2. IInv'  BY <1>i, <2>1, Steps
  <2>3. UNCHANGED <<shelf, at>>  BY <1>2 DEF Otherwise
  <2>4. ShelfOK'  BY <1>i, <2>3 DEF ShelfOK
  <2>5. VerifiedOK'
    <3>1. CASE at = 0  BY <3>1, <2>3, <1>l DEF VerifiedOK
    <3>2. CASE at # 0
      <4>1. still' => still /\ UNCHANGED <<sources, addon, sidecar>>
        BY <3>2, <1>2 DEF Otherwise, files
      <4>2. QED
        BY <4>1, <2>3, <1>i DEF VerifiedOK, Released, Expected, Addon, Manifest
    <3>3. QED  BY <3>1, <3>2
  <2>6. still' \in BOOLEAN  BY <1>2 DEF Otherwise
  <2>7. ReleaseTypeOK'  BY <1>i, <2>3, <2>6 DEF ReleaseTypeOK
  <2>8. QED  BY <2>2, <2>4, <2>5, <2>7 DEF RInv
<1>3. ASSUME NEW t \in Target, Deposit(t) PROVE RInv'
  <2>1. PICK lying \in Deposits(t) : shelf' = [shelf EXCEPT ![t] = lying]
    BY <1>3 DEF Deposit
  <2>2. t \in Target \ {Here} /\ UNCHANGED <<vars, at>> /\ still' = FALSE
    BY <1>3 DEF Deposit
  <2>3. /\ shelf' \in [Target \ {Here} -> [addon : Addons, manifest : Manifests]]
        /\ ShelfOK'
    BY <1>i, <2>1, <2>2, DepositsAreRecords DEF ShelfOK
  <2>4. VerifiedOK'  BY <2>2 DEF VerifiedOK
  <2>5. ReleaseTypeOK'  BY <1>i, <2>2, <2>3 DEF ReleaseTypeOK
  <2>6. QED  BY <1>u, <2>2, <2>3, <2>4, <2>5 DEF RInv
<1>4. CASE Begin
  <2>1. UNCHANGED vars /\ at' = 1  BY <1>4 DEF Begin
  <2>2. PICK lying \in [Target \ {Here} -> UNION {Lying(t) : t \in Target \ {Here}}] :
          /\ \A t \in Target \ {Here} : lying[t] \in Deposits(t)
          /\ shelf' = lying
    BY <1>4 DEF Begin, Lying
  <2>3. shelf' \in [Target \ {Here} -> [addon : Addons, manifest : Manifests]]
    <3>1. \A t \in Target \ {Here} : lying[t] \in [addon : Addons, manifest : Manifests]
      BY <1>i, <2>2, DepositsAreRecords
    <3>2. QED  BY <2>2, <3>1
  <2>4. ShelfOK'  BY <1>i, <2>2, DepositsAreRecords DEF ShelfOK
  <2>5. VerifiedOK'  BY <2>1, <1>l DEF VerifiedOK
  <2>6. ReleaseTypeOK'  BY <1>4, <1>l, <2>1, <2>3 DEF Begin, ReleaseTypeOK
  <2>7. QED  BY <1>u, <2>1, <2>4, <2>5, <2>6 DEF RInv
<1>5. CASE VerifyTarget
  <2>1. UNCHANGED vars  BY <1>5 DEF VerifyTarget
  <2>2. CASE at' = 0
    <3>1. shelf' = Empty  BY <2>2, <1>5 DEF VerifyTarget
    <3>2. ShelfOK'  BY <3>1 DEF ShelfOK, Empty
    <3>3. VerifiedOK'  BY <2>2, <1>l DEF VerifiedOK
    <3>4. still' \in BOOLEAN  BY <1>5 DEF VerifyTarget
    <3>5. ReleaseTypeOK'  BY <1>e, <1>l, <2>2, <3>1, <3>4 DEF ReleaseTypeOK
    <3>6. QED  BY <1>u, <2>1, <3>2, <3>3, <3>5 DEF RInv
  <2>3. CASE at' # 0
    <3>1. at' = at + 1 /\ at \in 1 .. Len(Targets) /\ Released(Targets[at])
      BY <2>3, <1>5 DEF VerifyTarget
    <3>2. shelf' = shelf /\ (still' => still)  BY <2>3, <1>5 DEF VerifyTarget
    <3>3. ShelfOK'  BY <1>i, <3>2 DEF ShelfOK
    <3>4. \A i \in 1 .. Len(Targets) : Released(Targets[i]) => Released(Targets[i])'
      BY <2>1, <3>2 DEF Released, Expected, Addon, Manifest, vars, files
    <3>5. VerifiedOK'
      BY <1>i, <1>l, <3>1, <3>2, <3>4 DEF VerifiedOK
    <3>6. still' \in BOOLEAN  BY <1>5 DEF VerifyTarget
    <3>7. ReleaseTypeOK'  BY <1>i, <1>l, <3>1, <3>2, <3>6 DEF ReleaseTypeOK
    <3>8. QED  BY <1>u, <2>1, <3>3, <3>5, <3>7 DEF RInv
  <2>4. QED  BY <2>2, <2>3
<1>6. CASE Publish
  <2>1. UNCHANGED vars /\ at' = 0 /\ shelf' = Empty  BY <1>6 DEF Publish
  <2>2. ShelfOK'  BY <2>1 DEF ShelfOK, Empty
  <2>3. VerifiedOK'  BY <2>1, <1>l DEF VerifiedOK
  <2>4. still' \in BOOLEAN  BY <1>6 DEF Publish
  <2>5. ReleaseTypeOK'  BY <1>e, <1>l, <2>1, <2>4 DEF ReleaseTypeOK
  <2>6. QED  BY <1>u, <2>1, <2>2, <2>3, <2>5 DEF RInv
<1>7. QED  BY <1>1, <1>2, <1>3, <1>4, <1>5, <1>6 DEF ReleaseNext

\* What matches its record is as sound as what the record was made of.
LEMMA MatchingIsSound ==
  ASSUME RInv, NEW t \in Target, Addon(t) # None, Manifest(t) # None,
         Manifest(t).target = t, Manifest(t).claims = sources, Manifest(t).digest = Addon(t)
  PROVE  Sound(t, Addon(t), Manifest(t)) /\ Addon(t).file.binary.profile = Manifest(t).profile
<1>1. CASE t = Here
  <2>1. addon # None /\ sidecar # None  BY <1>1 DEF Addon, Manifest
  <2>2. SidecarOK  BY DEF RInv, IInv
  <2>3. /\ Addon(t) = [target |-> Here, file |-> addon]
        /\ Manifest(t) = [target |-> Here, claims |-> sidecar.claims, profile |-> sidecar.profile,
                          digest |-> [target |-> Here, file |-> sidecar.digest],
                          undone |-> sidecar.undone]
    BY <1>1, <2>1 DEF Addon, Manifest
  <2>4. sidecar.digest = addon /\ sidecar.claims = sources  BY <2>3
  <2>5. QED  BY <1>1, <2>1, <2>2, <2>3, <2>4 DEF SidecarOK, Sound
<1>2. CASE t # Here
  <2>1. Addon(t) = shelf[t].addon /\ Manifest(t) = shelf[t].manifest
    BY <1>2 DEF Addon, Manifest
  <2>2. QED  BY <1>2, <2>1 DEF RInv, ShelfOK, Sound
<1>3. QED  BY <1>1, <1>2

-------------------------------------------------------------------------------
\* Every variable keeps its type, when one installer runs at a time.
THEOREM TypeCorrect == ASSUME Alone PROVE Spec => []TypeOK
<1>1. Init => IInv  BY Initially
<1>2. IInv /\ [Next]_vars => IInv'  BY Alone, Steps
<1>3. IInv => TypeOK  BY DEF IInv
<1>4. QED  BY <1>1, <1>2, <1>3, PTL DEF Spec

\* When one installer runs at a time, an addon that would be admitted is whole,
\* of the recorded profile, and compiled from just the sources it is admitted for
\* and the patched checkout, however often they change and change back, except
\* where the compiler read something else that was put back before the installer
\* looked again.
THEOREM AdmissionIsSound == ASSUME Alone PROVE Spec => []AdmissibleIsTrue
<1>1. Init => IInv  BY Initially
<1>2. IInv /\ [Next]_vars => IInv'  BY Alone, Steps
<1>3. IInv => AdmissibleIsTrue  BY DEF IInv, AdmissibleIsTrue, Matches, SidecarOK
<1>4. QED  BY <1>1, <1>2, <1>3, PTL DEF Spec

\* Verifying and publishing beside it take nothing from what holds of the
\* installer and the facade, with that exception, and the release's own variables
\* keep their types.
THEOREM ReleaseKeepsAdmission ==
  ASSUME Alone PROVE ReleaseSpec => [](TypeOK /\ ReleaseTypeOK /\ AdmissibleIsTrue)
<1>1. ReleaseInit => RInv
  BY ReleaseInitially
<1>2. RInv /\ [ReleaseNext]_<<vars, release>> => RInv'
  BY Alone, ReleaseSteps
<1>3. RInv => TypeOK /\ ReleaseTypeOK /\ AdmissibleIsTrue
  BY DEF RInv, IInv, AdmissibleIsTrue, Matches, SidecarOK
<1>4. QED  BY <1>1, <1>2, <1>3, PTL DEF ReleaseSpec

\* When one installer runs at a time, a package nobody changed while it was
\* verified is published with a sound release addon for every target, and any
\* package with none that a facade would admit and is not sound: compiled for its
\* target from the sources beside it, but for what its record says was put back
\* under the compiler.
THEOREM ReleasesAreSound == ASSUME Alone PROVE ReleaseSpec => PublishedIsSound
<1>1. ReleaseInit => RInv
  BY ReleaseInitially
<1>2. RInv /\ [ReleaseNext]_<<vars, release>> => RInv'
  BY Alone, ReleaseSteps
<1>3. RInv /\ [ReleaseNext]_<<vars, release>> =>
        [Publish => Packed]_<<vars, release>>
  <2> SUFFICES ASSUME RInv, Publish PROVE Packed
    OBVIOUS
  <2>1. ASSUME NEW t \in Target, still
        PROVE  /\ Addon(t) # None /\ Manifest(t) # None
               /\ Sound(t, Addon(t), Manifest(t))
               /\ Addon(t).file.binary.profile = "release"
    <3>1. PICK i \in 1 .. Len(Targets) : t = Targets[i]
      BY DEF Target
    <3>2. i < at
      BY ReleaseAssumption, <3>1 DEF Publish
    <3>3. Released(t)
      BY <2>1, <3>1, <3>2 DEF RInv, VerifiedOK
    <3>4. /\ Manifest(t).target = t /\ Manifest(t).claims = sources
          /\ Manifest(t).profile = "release"
      BY <3>3 DEF Released, Expected
    <3>5. QED  BY <3>3, <3>4, MatchingIsSound DEF Released
  <2>2. QED  BY <2>1, MatchingIsSound DEF Packed
<1>4. QED  BY <1>1, <1>2, <1>3, PTL DEF ReleaseSpec, PublishedIsSound
===============================================================================
