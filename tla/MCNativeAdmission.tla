-------------------------- MODULE MCNativeAdmission ---------------------------
(* NativeAdmission for TLC: installers and loaders are model values. *)
EXTENDS NativeAdmission

MCDifferences == {{}, {"files"}, {"identity", "checksum"}}
===============================================================================
