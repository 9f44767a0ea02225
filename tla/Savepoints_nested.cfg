SPECIFICATION Spec
CONSTANTS
  N = 3
  MaxNest = 2
  MaxWrite = 3
  MaxJrnl = 4
  Absent = Absent
INVARIANTS
  TypeOK
  ContentAsWritten
  Recoverable
  FirstStretch
CHECK_DEADLOCK FALSE
