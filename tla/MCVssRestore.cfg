\* Two processes, two receipt keys (one may be lost with the power), two uploads.
SPECIFICATION Spec
CONSTANTS
  Process = {p1, p2}
  Key = {k1, k2}
  MaxVersion = 2
  Local = Local
  None = None
SYMMETRY Alike
INVARIANTS
  TypeOK
  AllOrNothing
PROPERTIES
  RestoreSpec
