SPECIFICATION Spec
CONSTANTS
  c1 = c1
  c2 = c2
  Conn = {c1, c2}
  N = 2
  MaxChange = 2
  MaxMishap = 2
  Racing = FALSE
  Absent = Absent
  Torn = Torn
  NoJournal = NoJournal
  NoView = NoView
SYMMETRY Alike
INVARIANTS
  TypeOK
  LockExclusion
  ReadsSnapshot
  HotJournalPlayedBack
PROPERTIES
  StoreSpec
  WrittenAlone
