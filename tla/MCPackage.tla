------------------------------- MODULE MCPackage -------------------------------
(* The package for TLC: building, admitting and releasing its addon, and the   *)
(* checks that only compute, JsonBoundary and ArtifactFormats.  They share no  *)
(* variable: a behaviour is one of either.  One other machine's target is       *)
(* verified first.                                                             *)
EXTENDS MCNativeAdmission, ReleaseArtifacts, JsonBoundary, ArtifactFormats

MCTargets == <<"elsewhere", "here">>
MCOffsets == {0, 13, 14, 15, 16, 18, 20, 24, 25, 31}
MCLengths == {7, 13, 14, 20, 24}

package == <<vars, release>>
checks == <<boundaryVars, formatVars>>

PackageInit == ReleaseInit /\ BoundaryInit /\ FormatInit

PackageNext ==
  \/ /\ direction = "none" /\ artifact.kind = "none"
     /\ ReleaseNext
     /\ UNCHANGED checks
  \/ /\ ReleaseInit /\ artifact.kind = "none"
     /\ BoundaryNext
     /\ UNCHANGED <<package, formatVars>>
  \/ /\ ReleaseInit /\ direction = "none"
     /\ FormatNext
     /\ UNCHANGED <<package, boundaryVars>>

PackageSpec == PackageInit /\ [][PackageNext]_<<package, checks>>
===============================================================================
