\* A worker that follows a script of the test, or makes every call of two nodes
\* and two signers in every order, terminated at any point.
SPECIFICATION WorkerSpec
CONSTANTS
  Node = {n1, n2}
  Signer = {s1, s2}
  None = None
  TheNode = n1
  TheSigner = s1
CHECK_DEADLOCK FALSE
INVARIANTS
  TypeOK
  NoDanglingUse
  FacadesTellTheTruth
  NothingOutlivesTheHost
PROPERTY TeardownCompletes
