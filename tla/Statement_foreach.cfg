\* A client that calls hasNext() and next() in turn.
SPECIFICATION Spec
CONSTANTS
  v1 = v1
  v2 = v2
  Param = {"p"}
  Value = {v1, v2}
  Nil = Nil
  Row = {"a", "b"}
  Rows <- MCRows
  NoRow = NoRow
  Iter = {i1, i2, i3}
  Loose = {}
INVARIANTS
  TypeOK
  CursorAgreement
  BoundAsAsked
PROPERTIES
  RefinesCursor
CHECK_DEADLOCK FALSE
