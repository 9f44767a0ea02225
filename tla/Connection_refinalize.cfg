\* close() after a failed insert().
SPECIFICATION Spec
CONSTANTS
  Stmt = {s1, s2}
  Ref = {r1, r2}
  CollName = {"c"}
  FuncName = {"f"}
  Builtin = {"c"}
  Null = Null
  Careless = {"closeFailed"}
  MaxDepth = 2
SYMMETRY Symmetry
INVARIANTS
  NoUseAfterFinalize
CHECK_DEADLOCK FALSE
