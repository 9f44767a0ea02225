\* Two writers and a reader; one of them sets tracers.
SPECIFICATION Spec
CONSTANTS
  Thread = {t1, t2, t3}
  Tracer = {t1}
  Writer = {t1, t2}
  Ref = {r1, r2}
  Null = Null
  MaxRow = 3
INVARIANTS
  TypeOK
  TracerSettled
PROPERTIES
  RowidOfCall
CHECK_DEADLOCK FALSE
