\* Any client, one collation and one function of its own.
SPECIFICATION Spec
CONSTANTS
  Stmt = {s1, s2}
  Ref = {r1, r2, r3}
  CollName = {"c"}
  FuncName = {"f"}
  Builtin = {"c"}
  Null = Null
  Careless = {"closeFailed", "useZombie", "nullTrace", "closeInCallback"}
  MaxDepth = 2
SYMMETRY Symmetry
INVARIANTS
  TypeOK
  RefOwnership
  CallbackRefAlive
  StableRegistrations
  HandleLifetime
  NoOrphanRef
CHECK_DEADLOCK FALSE
