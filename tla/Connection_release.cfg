\* A client that keeps to the contract (no symmetry: one is a liveness property).
SPECIFICATION FairSpec
CONSTANTS
  Stmt = {s1, s2}
  Ref = {r1, r2}
  CollName = {"c"}
  FuncName = {"f"}
  Builtin = {"c"}
  Null = Null
  Careless = {}
  MaxDepth = 2
INVARIANTS
  NoFault
PROPERTIES
  CloseReleases
CHECK_DEADLOCK FALSE
