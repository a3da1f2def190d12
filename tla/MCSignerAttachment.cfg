\* Three callers: two that attach and one that signs or shuts the node down.
SPECIFICATION Spec
CONSTANTS
  Caller = {c1, c2, c3}
  Native = {s1, s2}
  own = own
  foreign = foreign
  Identity = {own, foreign}
  Key <- MCKey
  None = None
SYMMETRY Alike
INVARIANTS
  TypeOK
  ProofsSpeakForWallet
PROPERTIES
  TerminalIsFinal
