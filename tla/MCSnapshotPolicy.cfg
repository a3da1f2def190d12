SPECIFICATION Spec
CONSTANTS
  MaxVersion = 2
INVARIANTS
  TypeOK
  NothingHidden
  ChoiceIsKept
  ReceiptIsOurs
  NeverSilentlySkipped
PROPERTIES
  StatusIsHonest
  NoUploadWhileOff
  OnMeansCaughtUp
