\* trace() while another thread executes.
SPECIFICATION Spec
CONSTANTS
  Thread = {t1, t2}
  Tracer = {t1}
  Writer = {t1, t2}
  Ref = {r1, r2}
  Null = Null
  MaxRow = 2
INVARIANTS
  TracerUsable
CHECK_DEADLOCK FALSE
