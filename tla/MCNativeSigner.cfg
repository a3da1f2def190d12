\* Two sessions that compete for the store, three threads (a caller and two
\* shutdown callers, or two callers and one), two Arc holders; no symmetry, for
\* the liveness property.
CONSTANTS
  Thread = {t1, t2, t3}
  Signer = {s1, s2}
  Persistent = {s1, s2}
  Holder = {host, node}
  NoSigner = NoSigner
  NoHolder = NoHolder
SPECIFICATION FairSpec
INVARIANTS
  TypeOK
  OperationOwnsState
  RevokedIsQuiet
  HeldSignerStaysOpen
PROPERTIES
  NoStartBehindGate
  SessionSpec
  ShutdownTakesEffect
CHECK_DEADLOCK FALSE
