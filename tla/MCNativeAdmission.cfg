\* An installer and a facade at the same time.
SPECIFICATION Spec
CONSTANTS
  Builder = {b1}
  Loader = {l1}
  MaxVersion = 2
  Differences <- MCDifferences
  Approved = {1}
  None = None
INVARIANTS
  OnlyVerifiedLoads
