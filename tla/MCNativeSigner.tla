---------------------------- MODULE MCNativeSigner ----------------------------
(* NativeSigner for TLC: threads, sessions and holders are model values.       *)
EXTENDS NativeSigner
===============================================================================
