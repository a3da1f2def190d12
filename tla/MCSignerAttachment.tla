-------------------------- MODULE MCSignerAttachment --------------------------
(* SignerAttachment for TLC: two native signers with different identities.     *)
EXTENDS SignerAttachment, TLC

CONSTANTS own, foreign

MCKey == [s \in Native |-> IF s = CHOOSE t \in Native : TRUE THEN own ELSE foreign]

Alike == Permutations(Caller)
===============================================================================
