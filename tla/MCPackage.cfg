\* One installer at a time, run again and again, two contents of the sources that
\* are edited at any time, one loader, and a release of two targets.  And every
\* number within the bounds, every text of up to five units, every request with one
\* unusual field, images with every symbol table of these offsets.
SPECIFICATION PackageSpec
\* There is nothing after a crossing or an inspection.
CHECK_DEADLOCK FALSE
CONSTANTS
  Builder = {b1}
  Loader = {l1}
  MaxVersion = 2
  Differences <- MCDifferences
  Approved = {1}
  Targets <- MCTargets
  Here = "here"
  None = None
  Precision = 3
  Width = 5
  Magnitude = 7
  Byte = 2
  TextLimit = 6
  AddressLimit = 5
  OtherLimit = 3
  MaxToken = 140
  MaxUnits = 5
  Bits = 5
  Offsets <- MCOffsets
  Lengths <- MCLengths
INVARIANTS
  TypeOK
  AdmissibleIsTrue
  IntegersCrossExactly
  RequestsKeepTheirFields
  TextsAreWellFormed
  AcceptedImagesLoad
PROPERTIES
  PublishedIsSound
