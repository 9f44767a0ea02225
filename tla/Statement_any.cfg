\* A client that calls anything at any time.
SPECIFICATION Spec
CONSTANTS
  v1 = v1
  v2 = v2
  Param = {"p"}
  Value = {v1, v2}
  Nil = Nil
  Row = {"a", "b"}
  Rows <- MCRows
  NoRow = NoRow
  Iter = {i1, i2}
  Loose = {"peekTwice", "oldIterator", "nullArg"}
INVARIANTS
  RowsForward
PROPERTIES
  BindingsFrozen
CHECK_DEADLOCK FALSE
