SPECIFICATION FairSpec
CONSTANTS
  c1 = c1
  c2 = c2
  Conn = {c1, c2}
  Timeout = 4
  Untidy = {c1}
INVARIANTS
  TypeOK
  LockExclusion
  InodeAgrees
  WaitBounded
  NoMutualWait
  NothingUncommitted
  NoForgottenLock
PROPERTIES
  StepReturns
  WriterNotStarved
