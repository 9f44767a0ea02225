------------------------- MODULE AtomicStore_proofs -------------------------
(***************************************************************************)
(* The pager implements AtomicStore: commits are atomic and survive, each  *)
(* transaction reads the state it began with; for any connections, any     *)
(* size of the file, and any number of changes, errors and crashes, if     *)
(* connections do not race to a hot journal.                               *)
(***************************************************************************)
EXTENDS Pager_proofs

-----------------------------------------------------------------------------
(* The inductive invariant: the files.                                     *)

Datum == Value \cup {Absent}
Empty == [p \in Page |-> Absent]

\* The file that a reader gets, and the database in it.
Committed == Recovered(db, jrnl)
Logical == Contents(Committed)

\* The first page of a database.
Headed(x) == x \in Value /\ x.size > 0

Whole(d) == d \in Database /\ (d = Empty \/ Headed(d[1]))

Settled(o) == \A p \in Page : o[p] = {}

\* The file d beside a journal j that a power loss brings back, o being what it may
\* bring back of the pages.
Pick(S) == CHOOSE x \in S : TRUE
Disk(d, o, j) ==
  [p \in Page |-> IF Hot(j) /\ d[p] = Absent /\ o[p] # {} /\ p <= j.size THEN Pick(o[p]) ELSE d[p]]
Gives(d, o, j) == Recovered(Disk(d, o, j), j)

\* There is one content x that the page may have.
Sure(x, S) == (x \in Datum /\ S = {}) \/ (x = Absent /\ \E v \in Value : S = {v})

\* What was cut from the file lies behind the end of the database.
Calm(d, o) ==
  d = Empty \/ \A p \in Page : o[p] # {} => p > Size(d) /\ p > Pages(d[1]) /\ \E v \in Value : o[p] = {v}

\* Whatever a power loss does to the file, which is d and was o, the journal j, if
\* that is the one that is left, gives the same state back.
Mends(d, o, j) ==
  IF Hot(j)
    THEN /\ \A p \in DOMAIN j.kept : p <= j.size /\ j.kept[p] \in Datum
         /\ \A p \in Page : p <= j.size /\ p \notin DOMAIN j.kept => Sure(d[p], o[p])
         /\ j.size > 0 => /\ d[1] # Absent /\ Absent \notin o[1]
                          /\ Headed(IF 1 \in DOMAIN j.kept THEN j.kept[1] ELSE d[1])
    ELSE Whole(d) /\ Calm(d, o)

\* The pages that the journal does not have are on the disk.
Firm(o, j) == Hot(j) => \A p \in Page : p <= j.size /\ p \notin DOMAIN j.kept => o[p] = {}

Left == jrnlOld \cup {jrnl}

Files ==
  /\ db \in [Page -> Content] /\ dbOld \in [Page -> SUBSET Content]
  /\ Left \subseteq Journal \cup {NoJournal}
  /\ \A j \in Left : Mends(db, dbOld, j)
  /\ Firm(dbOld, jrnl)

-----------------------------------------------------------------------------
(* The inductive invariant: each connection.                               *)

Copy(f) == DOMAIN f \subseteq Page /\ f \in [DOMAIN f -> Datum]
Part(f, d) == \A p \in DOMAIN f : f[p] = d[p]

\* The file has n pages in the state k.
Sized(n, k) == (\A p \in Page : p > n => k[p] = Absent) /\ (n > 0 => k[1] # Absent)

\* The first n pages of the file are on the disk.
Synced(n) == \A p \in Page : p <= n => dbOld[p] = {}

\* What is behind the first n pages of d is not of the database whose page 1 is x.
Beyond(n, x, d) == \A p \in Page : p > n => p > Pages(x) \/ d[p] = Absent

\* The variables of the connections are functions.
Maps ==
  /\ eState = [c \in Conn |-> eState[c]] /\ pc = [c \in Conn |-> pc[c]]
  /\ cache = [c \in Conn |-> cache[c]] /\ dirty = [c \in Conn |-> dirty[c]]
  /\ vers = [c \in Conn |-> vers[c]] /\ held = [c \in Conn |-> held[c]]
  /\ orig = [c \in Conn |-> orig[c]] /\ dbSize = [c \in Conn |-> dbSize[c]] /\ safe = [c \in Conn |-> safe[c]]
  /\ goal = [c \in Conn |-> goal[c]] /\ todo = [c \in Conn |-> todo[c]]
  /\ spill = [c \in Conn |-> spill[c]] /\ view = [c \in Conn |-> view[c]]

Shaped(c) ==
  /\ eState[c] \in State /\ Copy(cache[c]) /\ dirty[c] \subseteq DOMAIN cache[c]
  /\ vers[c] \in 0..MaxChange /\ held[c] \in BOOLEAN
  /\ orig[c] \in 0..N /\ dbSize[c] \in 0..N /\ safe[c] \subseteq Page
  /\ goal[c] \in {"none", "read", "write", "upgrade"}
  /\ todo[c] \subseteq Page /\ spill[c] \in 0..N

Steps(s) ==
  CASE s = "open" -> {"idle", "share", "exists", "reserved", "first", "remnant", "exclude", "recover",
                      "restore", "delete", "downgrade", "validate", "release"}
    [] s = "reader" -> {"idle", "reserve", "release"}
    [] s = "locked" -> {"idle", "newdb", "commit", "downgrade"}
    [] s = "finished" -> {"delete", "trim", "downgrade"}
    [] s = "error" -> {"abort"}
    [] s \in {"cachemod", "dbmod"} -> {"idle", "commit", "vacuum", "counter", "jsync", "jheader", "jsync2",
                      "write", "sync", "undo", "restore", "delete", "downgrade"}

\* A connection without a transaction: what its cache has is of the state that its
\* counter tells, or of no use.
Waiting(c) ==
  eState[c] = "open" =>
    /\ view[c] = NoView /\ dirty[c] = {} /\ spill[c] = 0
    /\ pc[c] # "restore" => todo[c] = {}
    /\ pc[c] = "remnant" => db = Empty
    /\ \/ cache[c] = NoImage
       \/ /\ held[c] /\ vers[c] <= Counter(Committed[1])
          /\ vers[c] = Counter(Committed[1]) => Part(cache[c], Committed)

Reading(c) ==
  eState[c] \in {"reader", "locked"} \/ (pc[c] \in {"trim", "downgrade"} /\ eState[c] # "open") =>
    /\ dirty[c] = {} /\ todo[c] = {} /\ spill[c] = 0 /\ held[c]
    /\ Part(cache[c], Committed)
    /\ \/ 1 \in DOMAIN cache[c] /\ vers[c] = Counter(Committed[1])
       \/ cache[c] = NoImage /\ Committed = Empty
    /\ eState[c] = "locked" => /\ Sized(orig[c], Committed) /\ dbSize[c] = orig[c] /\ Synced(orig[c])
    /\ pc[c] = "newdb" => orig[c] = 0

\* The file is cut: no other connection has pages of the state committed.
Trimming(c) ==
  pc[c] = "trim" =>
    /\ jrnl = NoJournal /\ Settled(dbOld) /\ db # Empty /\ Beyond(dbSize[c], db[1], db)
    /\ \A p \in DOMAIN cache[c] : p <= dbSize[c]
    /\ \A d \in Conn \ {c} : cache[d] = NoImage \/ vers[d] < Counter(db[1])

Changed(c) == eState[c] \in {"cachemod", "dbmod"}

\* The journal of a write transaction, and what of the file it protects.
Protected(c) ==
  /\ jrnl # NoJournal /\ jrnl.size = orig[c] /\ Sized(orig[c], Committed)
  /\ \A p \in DOMAIN jrnl.kept : p <= orig[c] /\ jrnl.kept[p] = Committed[p]
  /\ \A p \in DOMAIN jrnl.more : p <= orig[c] /\ jrnl.more[p] = Committed[p]
  /\ db \in Database /\ held[c] /\ vers[c] >= 0
  /\ eState[c] = "cachemod" => db = Committed /\ Calm(db, dbOld) /\ Synced(orig[c])
  /\ eState[c] = "dbmod" =>
       /\ \A j \in Left : Hot(j) /\ j.size = orig[c] /\ safe[c] \subseteq DOMAIN j.kept
                          /\ Firm(dbOld, j) /\ Recovered(db, j) = Committed
       /\ \A p \in Page : p <= orig[c] /\ p \notin safe[c] => db[p] = Committed[p]

Committing == {"jsync", "jheader", "jsync2", "write", "sync"}

Writer(c) ==
  Changed(c) /\ pc[c] \in {"idle", "commit", "vacuum", "counter"} \cup Committing =>
    /\ Protected(c) /\ 1 \in DOMAIN cache[c] /\ Headed(cache[c][1])
    /\ vers[c] >= Counter(Committed[1])
    /\ orig[c] = 0 \/ vers[c] = Counter(Committed[1]) \/ 1 \in Journaled(jrnl)
    /\ \A p \in Page : p <= orig[c] /\ p \notin Journaled(jrnl) =>
         p \notin dirty[c] /\ (p <= Pages(cache[c][1]) => p <= Pages(Committed[1]))
    /\ \A p \in DOMAIN cache[c] \ dirty[c] : cache[c][p] = db[p]
    /\ eState[c] = "dbmod" /\ pc[c] # "jsync2" => safe[c] = DOMAIN jrnl.kept
    /\ pc[c] = "jsync2" => Hot(jrnl) /\ jrnl.more = NoImage
    /\ dbSize[c] > 0 /\ Beyond(dbSize[c], cache[c][1], db)
    /\ pc[c] \in {"idle", "commit", "vacuum"} \/ spill[c] # 0 => \A p \in dirty[c] : p <= dbSize[c]

\* What is still to be written.
Tasks(c) ==
  /\ Changed(c) /\ pc[c] \in {"idle", "commit", "vacuum", "counter"} => todo[c] = {} /\ spill[c] = 0
  /\ Changed(c) /\ pc[c] \in {"commit", "vacuum", "counter"} => vers[c] < MaxChange
  /\ Changed(c) /\ pc[c] \in Committing =>
       /\ spill[c] # 0 => todo[c] = {spill[c]} /\ spill[c] \in dirty[c] \ {1}
       /\ spill[c] = 0 => /\ todo[c] \subseteq dirty[c] /\ 1 \in dirty[c]
                          /\ Counter(cache[c][1]) > Counter(Committed[1])
                          /\ 1 \notin todo[c] => vers[c] = Counter(cache[c][1])
                          /\ pc[c] \notin {"write", "sync"} => todo[c] = {p \in dirty[c] : p <= dbSize[c]}
                          /\ \A p \in todo[c] : p <= dbSize[c]
                          /\ \A p \in DOMAIN cache[c] \ todo[c] : p <= dbSize[c] => cache[c][p] = db[p]
       /\ pc[c] = "write" => \A p \in todo[c] : p > orig[c] \/ p \in safe[c]
       /\ pc[c] = "sync" => todo[c] = {} /\ spill[c] = 0
  /\ pc[c] = "write" => todo[c] # {}

\* The records a rollback still has to put back.
Rest(c) == IF pc[c] = "undo" THEN Journaled(jrnl) ELSE todo[c]

\* A rollback.
Undoing(c) ==
  Changed(c) /\ pc[c] \in {"undo", "restore", "delete"} =>
    /\ Protected(c) /\ spill[c] = 0 /\ Rest(c) \subseteq Journaled(jrnl)
    /\ \A p \in DOMAIN cache[c] : p <= orig[c] /\ p \notin Rest(c) => cache[c][p] = Committed[p]
    /\ orig[c] # 0 => 1 \in DOMAIN cache[c] /\ (vers[c] = Counter(Committed[1]) \/ 1 \in Rest(c))
    /\ eState[c] = "dbmod" /\ pc[c] # "undo" => \A p \in Page \ todo[c] : db[p] = Committed[p]
    /\ pc[c] = "delete" => todo[c] = {} /\ (eState[c] = "dbmod" => Settled(dbOld))

\* The recovery of a hot journal.
Recovering(c) ==
  eState[c] = "open" /\ pc[c] \in {"restore", "delete"} =>
    /\ jrnl # NoJournal /\ jrnlOld = {}
    /\ Hot(jrnl) => /\ safe[c] = DOMAIN jrnl.kept /\ todo[c] \subseteq DOMAIN jrnl.kept
                    /\ \A p \in Page \ todo[c] : db[p] = Committed[p]
    /\ ~Hot(jrnl) => todo[c] = {}
    /\ todo[c] = {} \/ cache[c] = NoImage
    /\ pc[c] = "delete" => todo[c] = {} /\ Settled(dbOld)

\* A commit whose pages are all on the disk.
Finishing(c) ==
  eState[c] = "finished" /\ pc[c] = "delete" =>
    /\ Whole(db) /\ Settled(dbOld) /\ db # Empty
    /\ todo[c] = {} /\ spill[c] = 0 /\ held[c]
    /\ 1 \in DOMAIN cache[c] /\ dbSize[c] > 0 /\ Beyond(dbSize[c], db[1], db)
    /\ \A p \in DOMAIN cache[c] : p <= dbSize[c] => cache[c][p] = db[p]
    /\ vers[c] = Counter(db[1]) /\ vers[c] > Counter(Committed[1])
    /\ \A j \in Left : Recovered(db, j) = Committed

Own(c) ==
  /\ Shaped(c) /\ pc[c] \in Steps(eState[c])
  /\ eState[c] \notin {"open", "error"} => view[c] = Logical
  /\ Waiting(c) /\ Reading(c) /\ Writer(c) /\ Tasks(c) /\ Undoing(c) /\ Recovering(c) /\ Finishing(c)

StoreInv == HotInv /\ Files /\ Maps /\ \A c \in Conn : Own(c)
Trims == \A c \in Conn : Trimming(c)


-----------------------------------------------------------------------------
(* Numbers and sizes.                                                      *)

\* The intervals 0..x with x in S have a least one, as finite sets do.
LEMMA Smallest ==
  ASSUME NEW S \in SUBSET Nat, S # {}
  PROVE  \E x \in S : \A y \in S : x <= y
<1>1. PICK n \in S : TRUE
  OBVIOUS
<1> DEFINE T == {0..k : k \in {k \in S : k <= n}}
           R == StrictSubsetOrdering(0..n)
<1>2. 0..n \in T
  BY <1>1
<1>3. T \subseteq SUBSET (0..n)
  BY <1>1
<1>4. FiniteSubsetsOf(0..n) = SUBSET (0..n)
  <2>1. IsFiniteSet(0..n)
    BY <1>1, FS_Interval
  <2>2. QED
    BY <2>1, FS_FiniteSubsetsOfFinite, Zenon
<1>5. IsWellFoundedOn(R, FiniteSubsetsOf(0..n))
  BY FS_StrictSubsetOrderingWellFounded, Zenon
<1>6. \E X \in T : \A Y \in T : ~(<<Y, X>> \in R)
  <2> HIDE DEF T, R
  <2>1. T # {} /\ T \subseteq FiniteSubsetsOf(0..n)
    BY <1>2, <1>3, <1>4, Zenon
  <2>2. QED
    BY <1>5, <2>1, WFMin, Zenon
<1>7. PICK X \in T : \A Y \in T : ~(<<Y, X>> \in R)
  BY <1>6
<1>8. PICK x \in S : x <= n /\ X = 0..x
  BY <1>7
<1>9. ASSUME NEW y \in S, y < x
      PROVE  FALSE
  <2>1. 0..y \in T /\ 0..y \in SUBSET (0..n) /\ X \in SUBSET (0..n)
    BY <1>1, <1>3, <1>7, <1>8, <1>9
  <2>2. x \in X /\ x \notin 0..y /\ 0..y \subseteq X
    BY <1>8, <1>9
  <2>3. <<0..y, X>> \in R
    BY <2>1, <2>2, Zenon DEF StrictSubsetOrdering
  <2>4. QED
    BY <1>7, <2>1, <2>3, Zenon
<1>10. QED
  BY <1>8, <1>9

LEMMA SizeFits ==
  ASSUME NEW d
  PROVE  Size(d) \in 0..N /\ (\A p \in Page : p > Size(d) => d[p] = Absent)
         /\ (Size(d) > 0 => d[Size(d)] # Absent)
<1> DEFINE S == {n \in 0..N : \A p \in Page : p > n => d[p] = Absent}
<1>1. N \in S /\ S \in SUBSET Nat
  BY BoundsAssumption DEF Page
<1>2. PICK n \in S : \A m \in S : n <= m
  BY <1>1, Smallest
<1>3. n > 0 => d[n] # Absent
  <2>1. SUFFICES ASSUME n > 0, d[n] = Absent
                 PROVE  FALSE
    OBVIOUS
  <2>2. n - 1 \in 0..N /\ \A p \in Page : p > n - 1 => p > n \/ p = n
    BY <1>1, <2>1, BoundsAssumption DEF Page
  <2>3. n - 1 \in S
    BY <2>1, <2>2
  <2>4. QED
    BY <1>1, <1>2, <2>3
<1>4. \E m \in 0..N : (\A p \in Page : p > m => d[p] = Absent) /\ (m > 0 => d[m] # Absent)
  BY <1>3
<1>5. QED
  BY <1>4 DEF Size

-----------------------------------------------------------------------------
(* Contents of pages.                                                      *)

LEMMA PageOne == 1 \in Page /\ N \in Nat /\ Page \subseteq Nat /\ 0 \notin Page
BY BoundsAssumption DEF Page

LEMMA Ordered ==
  ASSUME NEW n \in Nat, NEW p \in Page
  PROVE  (p <= n \/ p > n) /\ ~(p <= n /\ p > n)
BY PageOne

LEMMA ValueIs ==
  /\ Absent \notin Value /\ Torn \notin Datum
  /\ \A x \in Value : Counter(x) = x.change /\ Pages(x) = x.size
  /\ Counter(Absent) = 0 /\ Pages(Absent) = 0
  /\ \A x \in Datum : Counter(x) \in 0..MaxChange /\ Pages(x) \in 0..N
<1>1. Value \subseteq Stamp
  BY BoundsAssumption DEF Value, Stamp
<1>2. \A x \in Value : x.change \in 0..MaxChange /\ x.size \in 0..N
  BY DEF Value
<1>3. \A x \in Value : Counter(x) = x.change /\ Pages(x) = x.size
  BY <1>1 DEF Counter, Pages
<1>4. Counter(Absent) = 0 /\ Pages(Absent) = 0
  BY ContentAssumption DEF Counter, Pages
<1>5. 0 \in 0..MaxChange /\ 0 \in 0..N
  BY BoundsAssumption
<1>6. QED
  BY <1>1, <1>2, <1>3, <1>4, <1>5, ContentAssumption DEF Datum

LEMMA HeadedIs ==
  ASSUME NEW x, Headed(x)
  PROVE  /\ x \in Value /\ x \in Datum /\ x # Absent
         /\ Counter(x) = x.change /\ x.change \in 0..MaxChange
         /\ Pages(x) = x.size /\ x.size \in 1..N
<1>1. x \in Value /\ x.size > 0
  BY DEF Headed
<1>2. x.change \in 0..MaxChange /\ x.size \in 0..N
  BY <1>1 DEF Value
<1>3. QED
  BY <1>1, <1>2, ValueIs, PageOne DEF Datum

LEMMA WholeOne ==
  ASSUME NEW d, Whole(d)
  PROVE  /\ d \in [Page -> Datum] /\ d[1] \in Datum
         /\ Counter(d[1]) \in 0..MaxChange /\ Pages(d[1]) \in 0..N
         /\ d # Empty <=> Headed(d[1])
<1>1. d \in [Page -> Datum]
  BY DEF Whole, Database, Datum
<1>2. Headed(d[1]) => d # Empty
  BY HeadedIs, PageOne DEF Empty
<1>3. QED
  BY <1>1, <1>2, PageOne, ValueIs DEF Whole

-----------------------------------------------------------------------------
(* What recovery gives back.                                               *)

\* The file d with the pages of a hot journal j put back.
Back(d, j) == [p \in Page |-> IF p > j.size THEN Absent
                              ELSE IF p \in DOMAIN j.kept THEN j.kept[p] ELSE d[p]]

LEMMA Cold ==
  ASSUME NEW d, NEW j, ~Hot(j)
  PROVE  Recovered(d, j) = d
BY DEF Recovered

LEMMA HotRecord ==
  ASSUME NEW j, Hot(j)
  PROVE  j # NoJournal /\ j.magic = TRUE
BY DEF Hot

LEMMA HotGives ==
  ASSUME NEW d \in [Page -> Content], NEW o, NEW j \in Journal \cup {NoJournal}, Hot(j), Mends(d, o, j)
  PROVE  /\ Recovered(d, j) = Back(d, j) /\ Whole(Back(d, j)) /\ Sized(j.size, Back(d, j))
         /\ j.size \in 0..N
<1>1. j.size \in 0..N /\ j.size \in Nat
  <2>1. j \in Journal
    BY HotRecord
  <2>2. j.size \in 0..N
    BY <2>1 DEF Journal
  <2>3. QED
    BY <2>2, PageOne
<1>2. \A p \in DOMAIN j.kept : p <= j.size /\ j.kept[p] \in Datum
  BY DEF Mends
<1>3. \A p \in Page : p <= j.size /\ p \notin DOMAIN j.kept => d[p] \in Datum
  BY DEF Mends, Sure, Datum
<1>4. j.size > 0 => d[1] # Absent /\ Headed(IF 1 \in DOMAIN j.kept THEN j.kept[1] ELSE d[1])
  BY DEF Mends
<1>5. \A p \in Page : Back(d, j)[p] \in Datum
  BY <1>1, <1>2, <1>3 DEF Back, Datum, Page
<1>6. Back(d, j) \in Database
  BY <1>5 DEF Back, Database, Datum
<1>7. j.size > 0 => Headed(Back(d, j)[1])
  BY <1>1, <1>4, PageOne DEF Back
<1>8. j.size = 0 => Back(d, j) = Empty
  BY PageOne DEF Back, Empty, Page
<1>9. \A p \in Page : p > j.size => Back(d, j)[p] = Absent
  BY DEF Back
<1>10. Recovered(d, j) = Back(d, j)
  <2>1. CASE Size(d) = 0
    <3>1. \A p \in Page : d[p] = Absent
      BY <2>1, SizeFits, PageOne DEF Page
    <3>2. j.size = 0
      BY <1>1, <1>4, <3>1, PageOne
    <3>3. d = Empty
      BY <3>1 DEF Empty
    <3>4. QED
      BY <2>1, <3>2, <3>3, <1>8 DEF Recovered
  <2>2. CASE Size(d) # 0
    BY <2>2 DEF Recovered, Back
  <2>3. QED
    BY <2>1, <2>2
<1>11. j.size > 0 => Back(d, j)[1] # Absent
  BY <1>7, HeadedIs
<1>12. QED
  BY <1>1, <1>6, <1>7, <1>8, <1>9, <1>10, <1>11 DEF Whole, Sized

Nothing == [p \in Page |-> {}]

LEMMA DiskIs ==
  ASSUME NEW d \in [Page -> Content], NEW o \in [Page -> SUBSET Content],
         NEW j \in Journal \cup {NoJournal}
  PROVE  /\ Disk(d, o, j) \in [Page -> Content]
         /\ ~Hot(j) => Disk(d, o, j) = d
         /\ \A p \in Page : d[p] # Absent \/ o[p] = {} \/ p > j.size => Disk(d, o, j)[p] = d[p]
         /\ \A p \in Page : \A x : Hot(j) /\ d[p] = Absent /\ o[p] = {x} /\ p <= j.size => Disk(d, o, j)[p] = x
<1>1. \A p \in Page : Disk(d, o, j)[p] \in Content
  BY DEF Disk, Pick
<1>2. \A p \in Page : d[p] # Absent \/ o[p] = {} \/ ~Hot(j) => Disk(d, o, j)[p] = d[p]
  BY DEF Disk
<1>3. ASSUME NEW p \in Page, NEW x, Hot(j), d[p] = Absent, o[p] = {x}, p <= j.size
      PROVE  Disk(d, o, j)[p] = x
  <2>1. o[p] # {} /\ Pick(o[p]) \in o[p]
    BY <1>3 DEF Pick
  <2>2. QED
    BY <1>3, <2>1 DEF Disk
<1>4. ASSUME NEW p \in Page, p > j.size
      PROVE  Disk(d, o, j)[p] = d[p]
  <2>1. CASE Hot(j) /\ d[p] = Absent /\ o[p] # {} /\ p <= j.size
    <3>1. j \in Journal
      BY <2>1, HotRecord
    <3>2. j.size \in 0..N
      BY <3>1 DEF Journal
    <3>3. QED
      BY <1>4, <2>1, <3>2, Ordered, PageOne
  <2>2. CASE ~(Hot(j) /\ d[p] = Absent /\ o[p] # {} /\ p <= j.size)
    BY <2>2 DEF Disk
  <2>3. QED
    BY <2>1, <2>2
<1>5. ~Hot(j) => Disk(d, o, j) = d
  BY <1>2 DEF Disk
<1>6. Disk(d, o, j) \in [Page -> Content]
  BY <1>1 DEF Disk
<1>7. QED
  BY <1>2, <1>3, <1>4, <1>5, <1>6

\* A power loss leaves one file that j mends.
LEMMA DiskMends ==
  ASSUME NEW d \in [Page -> Content], NEW o \in [Page -> SUBSET Content],
         NEW j \in Journal \cup {NoJournal}, Hot(j), Mends(d, o, j)
  PROVE  Mends(Disk(d, o, j), Nothing, j)
<1> DEFINE e == Disk(d, o, j)
<1>1. j.size \in 0..N
  BY HotGives
<1>2. ASSUME NEW p \in Page, p <= j.size, p \notin DOMAIN j.kept
      PROVE  Sure(e[p], Nothing[p])
  <2>1. CASE d[p] \in Datum /\ o[p] = {}
    <3>1. e[p] = d[p]
      BY <2>1, DiskIs
    <3>2. QED
      BY <2>1, <3>1 DEF Sure, Nothing
  <2>2. CASE d[p] = Absent /\ \E v \in Value : o[p] = {v}
    <3>1. PICK v \in Value : o[p] = {v}
      BY <2>2
    <3>2. e[p] = v
      <4>1. \A q \in Page : \A x : Hot(j) /\ d[q] = Absent /\ o[q] = {x} /\ q <= j.size => e[q] = x
        BY DiskIs
      <4>2. QED
        BY <1>2, <2>2, <3>1, <4>1
    <3>3. QED
      BY <3>2 DEF Sure, Nothing, Datum
  <2>3. QED
    BY <1>2, <2>1, <2>2 DEF Mends, Sure
<1>3. \A p \in DOMAIN j.kept : p <= j.size /\ j.kept[p] \in Datum
  BY DEF Mends
<1>4. j.size > 0 => e[1] = d[1]
  <2>1. j.size > 0 => d[1] # Absent
    BY DEF Mends
  <2>2. QED
    BY <2>1, DiskIs, PageOne
<1>5. j.size > 0 => d[1] # Absent /\ Headed(IF 1 \in DOMAIN j.kept THEN j.kept[1] ELSE d[1])
  BY DEF Mends
<1>6. Nothing[1] = {}
  BY PageOne DEF Nothing
<1> HIDE DEF e
<1>7. Mends(e, Nothing, j)
  BY <1>2, <1>3, <1>4, <1>5, <1>6 DEF Mends
<1>8. QED
  BY <1>7 DEF e

LEMMA GivesIs ==
  ASSUME NEW d \in [Page -> Content], NEW o \in [Page -> SUBSET Content],
         NEW j \in Journal \cup {NoJournal}, Mends(d, o, j)
  PROVE  /\ Hot(j) => Gives(d, o, j) = Back(Disk(d, o, j), j)
         /\ ~Hot(j) => Gives(d, o, j) = d /\ Recovered(d, j) = d
         /\ Whole(Gives(d, o, j)) /\ Whole(Recovered(d, j))
<1>1. CASE Hot(j)
  <2>1. Mends(Disk(d, o, j), Nothing, j) /\ Disk(d, o, j) \in [Page -> Content]
    BY <1>1, DiskMends, DiskIs
  <2>2. Recovered(Disk(d, o, j), j) = Back(Disk(d, o, j), j) /\ Whole(Back(Disk(d, o, j), j))
    BY <1>1, <2>1, HotGives
  <2>3. Whole(Recovered(d, j))
    BY <1>1, HotGives
  <2>4. QED
    BY <1>1, <2>2, <2>3 DEF Gives
<1>2. CASE ~Hot(j)
  <2>1. Gives(d, o, j) = d /\ Recovered(d, j) = d
    BY <1>2, DiskIs, Cold DEF Gives
  <2>2. Whole(d)
    BY <1>2 DEF Mends
  <2>3. QED
    BY <1>2, <2>1, <2>2
<1>3. QED
  BY <1>1, <1>2

\* Where nothing was cut that the journal does not have, the power need not fail.
LEMMA FirmGives ==
  ASSUME NEW d \in [Page -> Content], NEW o \in [Page -> SUBSET Content],
         NEW j \in Journal \cup {NoJournal}, Mends(d, o, j), Firm(o, j)
  PROVE  Gives(d, o, j) = Recovered(d, j)
<1>1. CASE Hot(j)
  <2>1. Gives(d, o, j) = Back(Disk(d, o, j), j) /\ Recovered(d, j) = Back(d, j)
    BY <1>1, GivesIs, HotGives
  <2>2. \A p \in Page : p <= j.size /\ p \notin DOMAIN j.kept => Disk(d, o, j)[p] = d[p]
    BY <1>1, DiskIs DEF Firm
  <2>3. j.size \in Nat
    BY <1>1, HotGives, PageOne
  <2>4. \A p \in Page : Back(Disk(d, o, j), j)[p] = Back(d, j)[p]
    BY <2>2, <2>3, Ordered DEF Back
  <2>5. Back(Disk(d, o, j), j) = Back(d, j)
    BY <2>4 DEF Back
  <2>6. QED
    BY <2>1, <2>5
<1>2. QED
  BY <1>1, GivesIs

LEMMA AllWhole ==
  ASSUME Files, NEW j \in Left
  PROVE  Whole(Gives(db, dbOld, j)) /\ Whole(Recovered(db, j))
<1>1. /\ db \in [Page -> Content] /\ dbOld \in [Page -> SUBSET Content]
      /\ j \in Journal \cup {NoJournal} /\ Mends(db, dbOld, j)
  BY DEF Files
<1>2. QED
  BY <1>1, GivesIs

LEMMA CommittedWhole ==
  ASSUME Files
  PROVE  Whole(Committed) /\ (~Hot(jrnl) => Committed = db) /\ Gives(db, dbOld, jrnl) = Committed
<1>1. jrnl \in Left
  BY DEF Left
<1>2. /\ db \in [Page -> Content] /\ dbOld \in [Page -> SUBSET Content]
      /\ jrnl \in Journal \cup {NoJournal} /\ Mends(db, dbOld, jrnl) /\ Firm(dbOld, jrnl)
  BY <1>1 DEF Files
<1>3. QED
  BY <1>1, <1>2, AllWhole, FirmGives, Cold DEF Committed

LEMMA WholeSized ==
  ASSUME NEW d, Whole(d)
  PROVE  /\ Sized(Size(d), d) /\ Size(d) \in 0..N /\ (Size(d) = 0 <=> d = Empty)
         /\ \A p \in Page : d[p] \in Datum
         /\ d[1] \in Datum
<1>1. /\ Size(d) \in 0..N /\ (\A p \in Page : p > Size(d) => d[p] = Absent)
      /\ (Size(d) > 0 => d[Size(d)] # Absent)
  BY SizeFits
<1>2. d \in [Page -> Datum]
  BY WholeOne
<1>3. Size(d) > 0 => d # Empty
  BY <1>1, PageOne DEF Empty, Page
<1>4. Size(d) = 0 => d = Empty
  <2>1. Size(d) = 0 => \A p \in Page : d[p] = Absent
    BY <1>1, PageOne DEF Page
  <2>2. QED
    BY <1>2, <2>1 DEF Empty
<1>5. d # Empty => d[1] # Absent
  BY HeadedIs DEF Whole
<1>6. QED
  BY <1>1, <1>2, <1>3, <1>4, <1>5, PageOne DEF Sized

\* Pages that a hot journal gives back may be written.
LEMMA StillMends ==
  ASSUME NEW d \in [Page -> Content], NEW o \in [Page -> SUBSET Content],
         NEW j \in Journal \cup {NoJournal}, Hot(j), Mends(d, o, j),
         NEW e \in [Page -> Content], NEW u \in [Page -> SUBSET Content],
         \A p \in Page : p <= j.size /\ p \notin DOMAIN j.kept => e[p] = d[p] /\ u[p] = o[p],
         j.size > 0 => e[1] # Absent /\ Absent \notin u[1]
  PROVE  /\ Mends(e, u, j) /\ Recovered(e, j) = Recovered(d, j) /\ Gives(e, u, j) = Gives(d, o, j)
         /\ Firm(o, j) => Firm(u, j)
<1>1. Mends(e, u, j)
  <2>1. /\ \A p \in DOMAIN j.kept : p <= j.size /\ j.kept[p] \in Datum
        /\ \A p \in Page : p <= j.size /\ p \notin DOMAIN j.kept => Sure(e[p], u[p])
    BY DEF Mends
  <2>2. j.size > 0 => Headed(IF 1 \in DOMAIN j.kept THEN j.kept[1] ELSE e[1])
    <3>1. j.size \in Nat
      BY HotGives, PageOne
    <3>2. j.size > 0 /\ 1 \notin DOMAIN j.kept => e[1] = d[1]
      BY <3>1, PageOne
    <3>3. QED
      BY <3>2 DEF Mends
  <2>3. QED
    BY <2>1, <2>2 DEF Mends
<1>2. Recovered(d, j) = Back(d, j) /\ j.size \in Nat /\ Gives(d, o, j) = Back(Disk(d, o, j), j)
  BY HotGives, GivesIs, PageOne
<1>3. Recovered(e, j) = Back(e, j) /\ Gives(e, u, j) = Back(Disk(e, u, j), j)
  BY <1>1, HotGives, GivesIs
<1>4. \A p \in Page : Back(e, j)[p] = Back(d, j)[p]
  BY <1>2, Ordered DEF Back
<1>5. ASSUME NEW p \in Page
      PROVE  Back(Disk(e, u, j), j)[p] = Back(Disk(d, o, j), j)[p]
  <2>1. CASE p <= j.size /\ p \notin DOMAIN j.kept
    <3>1. Disk(e, u, j)[p] = Disk(d, o, j)[p]
      BY <2>1 DEF Disk
    <3>2. QED
      BY <3>1 DEF Back
  <2>2. CASE ~(p <= j.size /\ p \notin DOMAIN j.kept)
    BY <1>2, <2>2, Ordered DEF Back
  <2>3. QED
    BY <2>1, <2>2
<1>6. Back(e, j) = Back(d, j) /\ Back(Disk(e, u, j), j) = Back(Disk(d, o, j), j)
  BY <1>4, <1>5 DEF Back
<1>7. QED
  BY <1>1, <1>2, <1>3, <1>6 DEF Firm

-----------------------------------------------------------------------------
(* A step of c is its own: what the others have stays.                     *)

\* g is f, changed at c only.
Only(g, f, c) == g = [x \in Conn |-> g[x]] /\ \A d \in Conn \ {c} : g[d] = f[d]

Kept(c) ==
  /\ Only(eState', eState, c) /\ Only(pc', pc, c) /\ Only(cache', cache, c) /\ Only(dirty', dirty, c)
  /\ Only(vers', vers, c) /\ Only(held', held, c) /\ Only(orig', orig, c) /\ Only(dbSize', dbSize, c)
  /\ Only(safe', safe, c) /\ Only(goal', goal, c) /\ Only(todo', todo, c) /\ Only(spill', spill, c)
  /\ Only(view', view, c)

LEMMA OnlySet ==
  ASSUME NEW c \in Conn, NEW f, f = [x \in Conn |-> f[x]], NEW g
  PROVE  /\ g = f => Only(g, f, c)
         /\ \A v : g = Set(f, c, v) => Only(g, f, c) /\ g[c] = v
BY DEF Only, Set

LEMMA ShareKept ==
  ASSUME Maps, NEW c \in Conn, Share(c)
  PROVE  Kept(c)
BY OnlySet DEF Kept, Maps, Goto, fileVars, pagerVars, callVars, Share

LEMMA ExistsKept ==
  ASSUME Maps, NEW c \in Conn, Exists(c)
  PROVE  Kept(c)
BY OnlySet DEF Kept, Maps, Goto, fileVars, pagerVars, callVars, Exists

LEMMA CheckReservedKept ==
  ASSUME Maps, NEW c \in Conn, CheckReserved(c)
  PROVE  Kept(c)
BY OnlySet DEF Kept, Maps, Goto, fileVars, pagerVars, callVars, CheckReserved

LEMMA FirstByteKept ==
  ASSUME Maps, NEW c \in Conn, FirstByte(c)
  PROVE  Kept(c)
BY OnlySet DEF Kept, Maps, Goto, fileVars, pagerVars, callVars, FirstByte

LEMMA RemnantKept ==
  ASSUME Maps, NEW c \in Conn, Remnant(c)
  PROVE  Kept(c)
BY OnlySet DEF Kept, Maps, Goto, fileVars, pagerVars, callVars, Remnant

LEMMA ExcludeKept ==
  ASSUME Maps, NEW c \in Conn, Exclude(c)
  PROVE  Kept(c)
BY OnlySet DEF Kept, Maps, Goto, fileVars, pagerVars, callVars, Exclude

LEMMA RecoverKept ==
  ASSUME Maps, NEW c \in Conn, Recover(c)
  PROVE  Kept(c)
BY OnlySet DEF Kept, Maps, Goto, fileVars, pagerVars, callVars, Recover

LEMMA ValidateKept ==
  ASSUME Maps, NEW c \in Conn, Validate(c)
  PROVE  Kept(c)
BY OnlySet DEF Kept, Maps, Goto, fileVars, pagerVars, callVars, Validate

LEMMA ReserveKept ==
  ASSUME Maps, NEW c \in Conn, Reserve(c)
  PROVE  Kept(c)
BY OnlySet DEF Kept, Maps, Goto, fileVars, pagerVars, callVars, Reserve

LEMMA NewDatabaseKept ==
  ASSUME Maps, NEW c \in Conn, NewDatabase(c)
  PROVE  Kept(c)
BY OnlySet DEF Kept, Maps, Goto, fileVars, pagerVars, callVars, NewDatabase, pager_write, pager_journal

LEMMA CommitLockKept ==
  ASSUME Maps, NEW c \in Conn, CommitLock(c)
  PROVE  Kept(c)
BY OnlySet DEF Kept, Maps, Goto, fileVars, pagerVars, callVars, CommitLock, RollingBack

LEMMA AutoVacuumKept ==
  ASSUME Maps, NEW c \in Conn, AutoVacuum(c)
  PROVE  Kept(c)
BY OnlySet DEF Kept, Maps, Goto, fileVars, pagerVars, callVars, AutoVacuum, pager_journal

LEMMA ChangeCounterKept ==
  ASSUME Maps, NEW c \in Conn, ChangeCounter(c)
  PROVE  Kept(c)
BY OnlySet DEF Kept, Maps, Goto, fileVars, pagerVars, callVars, ChangeCounter, pager_write, pager_journal

LEMMA JournalSyncKept ==
  ASSUME Maps, NEW c \in Conn, JournalSync(c)
  PROVE  Kept(c)
BY OnlySet DEF Kept, Maps, Goto, fileVars, pagerVars, callVars, JournalSync

LEMMA JournalHeaderKept ==
  ASSUME Maps, NEW c \in Conn, JournalHeader(c)
  PROVE  Kept(c)
BY OnlySet DEF Kept, Maps, Goto, fileVars, pagerVars, callVars, JournalHeader

LEMMA HeaderSyncKept ==
  ASSUME Maps, NEW c \in Conn, HeaderSync(c)
  PROVE  Kept(c)
BY OnlySet DEF Kept, Maps, Goto, fileVars, pagerVars, callVars, HeaderSync

LEMMA WritePageKept ==
  ASSUME Maps, NEW c \in Conn, WritePage(c)
  PROVE  Kept(c)
BY OnlySet DEF Kept, Maps, Goto, fileVars, pagerVars, callVars, WritePage

LEMMA DbSyncKept ==
  ASSUME Maps, NEW c \in Conn, DbSync(c)
  PROVE  Kept(c)
BY OnlySet DEF Kept, Maps, Goto, fileVars, pagerVars, callVars, DbSync

LEMMA WriteFailsKept ==
  ASSUME Maps, NEW c \in Conn, WriteFails(c)
  PROVE  Kept(c)
BY OnlySet DEF Kept, Maps, Goto, fileVars, pagerVars, callVars, WriteFails, RollingBack

LEMMA PageFailsKept ==
  ASSUME Maps, NEW c \in Conn, PageFails(c)
  PROVE  Kept(c)
BY OnlySet DEF Kept, Maps, Goto, fileVars, pagerVars, callVars, PageFails, RollingBack, pager_journal

LEMMA UndoKept ==
  ASSUME Maps, NEW c \in Conn, Undo(c)
  PROVE  Kept(c)
BY OnlySet DEF Kept, Maps, Goto, fileVars, pagerVars, callVars, Undo

LEMMA RestoredKept ==
  ASSUME Maps, NEW c \in Conn, Restored(c)
  PROVE  Kept(c)
BY OnlySet DEF Kept, Maps, Goto, fileVars, pagerVars, callVars, Restored

LEMMA DeleteKept ==
  ASSUME Maps, NEW c \in Conn, Delete(c)
  PROVE  Kept(c)
BY OnlySet DEF Kept, Maps, Goto, fileVars, pagerVars, callVars, Delete, CleanTo

LEMMA TrimKept ==
  ASSUME Maps, NEW c \in Conn, Trim(c)
  PROVE  Kept(c)
BY OnlySet DEF Kept, Maps, Goto, fileVars, pagerVars, callVars, Trim

LEMMA EndFailsKept ==
  ASSUME Maps, NEW c \in Conn, EndFails(c)
  PROVE  Kept(c)
BY OnlySet DEF Kept, Maps, Goto, fileVars, pagerVars, callVars, EndFails

LEMMA DowngradeKept ==
  ASSUME Maps, NEW c \in Conn, Downgrade(c)
  PROVE  Kept(c)
BY OnlySet DEF Kept, Maps, Goto, fileVars, pagerVars, callVars, Downgrade

LEMMA ReadFailsKept ==
  ASSUME Maps, NEW c \in Conn, ReadFails(c)
  PROVE  Kept(c)
BY OnlySet DEF Kept, Maps, Goto, fileVars, pagerVars, callVars, ReadFails

LEMMA ReleaseKept ==
  ASSUME Maps, NEW c \in Conn, Release(c)
  PROVE  Kept(c)
BY OnlySet DEF Kept, Maps, Goto, fileVars, pagerVars, callVars, Release

LEMMA AbortKept ==
  ASSUME Maps, NEW c \in Conn, Abort(c)
  PROVE  Kept(c)
BY OnlySet DEF Kept, Maps, Goto, fileVars, pagerVars, callVars, Abort

LEMMA UpgradeKept ==
  ASSUME Maps, NEW c \in Conn, Upgrade(c)
  PROVE  Kept(c)
BY OnlySet DEF Kept, Maps, Goto, fileVars, pagerVars, callVars, Upgrade

LEMMA CommitKept ==
  ASSUME Maps, NEW c \in Conn, Commit(c)
  PROVE  Kept(c)
BY OnlySet DEF Kept, Maps, Goto, fileVars, pagerVars, callVars, Commit

LEMMA RollbackKept ==
  ASSUME Maps, NEW c \in Conn, Rollback(c)
  PROVE  Kept(c)
BY OnlySet DEF Kept, Maps, Goto, fileVars, pagerVars, callVars, Rollback, RollingBack

LEMMA EndReadKept ==
  ASSUME Maps, NEW c \in Conn, EndRead(c)
  PROVE  Kept(c)
BY OnlySet DEF Kept, Maps, Goto, fileVars, pagerVars, callVars, EndRead

LEMMA BeginKept ==
  ASSUME Maps, NEW c \in Conn, NEW g, Begin(c, g)
  PROVE  Kept(c)
BY OnlySet DEF Kept, Maps, Goto, fileVars, pagerVars, callVars, Begin

LEMMA ReadKept ==
  ASSUME Maps, NEW c \in Conn, NEW p, Read(c, p)
  PROVE  Kept(c)
BY OnlySet DEF Kept, Maps, Goto, fileVars, pagerVars, callVars, Read

LEMMA WriteKept ==
  ASSUME Maps, NEW c \in Conn, NEW p, Write(c, p)
  PROVE  Kept(c)
BY OnlySet DEF Kept, Maps, Goto, fileVars, pagerVars, callVars, Write, pager_write, pager_journal

LEMMA SpillKept ==
  ASSUME Maps, NEW c \in Conn, NEW p, Spill(c, p)
  PROVE  Kept(c)
BY OnlySet DEF Kept, Maps, Goto, fileVars, pagerVars, callVars, Spill

LEMMA RestoreKept ==
  ASSUME Maps, NEW c \in Conn, NEW p, Restore(c, p)
  PROVE  Kept(c)
BY OnlySet DEF Kept, Maps, Goto, fileVars, pagerVars, callVars, Restore

-----------------------------------------------------------------------------
(* From one connection to all.                                             *)

\* Connections that have no part in what happens to the files.
Aside(d) ==
  eState[d] \in {"open", "reader", "error"} /\ ~(eState[d] = "open" /\ pc[d] \in {"restore", "delete"})

Same(d) ==
  /\ eState'[d] = eState[d] /\ pc'[d] = pc[d] /\ cache'[d] = cache[d] /\ dirty'[d] = dirty[d]
  /\ vers'[d] = vers[d] /\ held'[d] = held[d] /\ orig'[d] = orig[d] /\ dbSize'[d] = dbSize[d]
  /\ safe'[d] = safe[d] /\ goal'[d] = goal[d] /\ todo'[d] = todo[d] /\ spill'[d] = spill[d]
  /\ view'[d] = view[d]

LEMMA OthersStay ==
  ASSUME NEW c \in Conn, Kept(c), NEW d \in Conn \ {c}
  PROVE  Same(d)
<1>1. \A f, g : Only(g, f, c) => g[d] = f[d]
  BY DEF Only
<1>2. QED
  BY <1>1, Zenon DEF Kept, Same

\* Nobody sees a step that leaves the committed state.
LEMMA AsideOwn ==
  ASSUME NEW d \in Conn, Same(d), Own(d), Committed' = Committed, Aside(d),
         pc[d] = "remnant" => UNCHANGED db
  PROVE  Own(d)'
<1> USE DEF Same
<1>1. Shaped(d)' /\ (pc[d] \in Steps(eState[d]))'
  BY DEF Own, Shaped
<1>2. (eState[d] \notin {"open", "error"} => view[d] = Logical)'
  BY DEF Own, Logical
<1>3. Waiting(d)'
  BY DEF Own, Waiting
<1>4. Reading(d)'
  BY DEF Own, Reading, Aside
<1>5. Writer(d)' /\ Undoing(d)'
  BY DEF Writer, Undoing, Changed, Aside
<1>6. Tasks(d)'
  BY DEF Own, Tasks, Changed, Aside
<1>7. Recovering(d)' /\ Finishing(d)'
  BY DEF Recovering, Finishing, Aside
<1>8. QED
  BY <1>1, <1>2, <1>3, <1>4, <1>5, <1>6, <1>7 DEF Own

LEMMA UntouchedOwn ==
  ASSUME NEW d \in Conn, Same(d), Own(d), UNCHANGED fileVars
  PROVE  Own(d)'
<1>1. UNCHANGED <<db, dbOld, jrnl, jrnlOld>> /\ Committed' = Committed /\ Left' = Left
  BY DEF fileVars, Committed, Left
<1> USE DEF Same
<1>2. Shaped(d)' /\ (pc[d] \in Steps(eState[d]))'
  BY DEF Own, Shaped
<1>3. (eState[d] \notin {"open", "error"} => view[d] = Logical)'
  BY <1>1 DEF Own, Logical
<1>4. Waiting(d)'
  BY <1>1 DEF Own, Waiting
<1>5. Reading(d)'
  BY <1>1 DEF Own, Reading, Synced
<1>6. Protected(d) => Protected(d)'
  BY <1>1 DEF Protected, Synced
<1>7. Writer(d)'
  BY <1>1, <1>6 DEF Own, Writer, Changed, Hot
<1>8. Undoing(d)'
  BY <1>1, <1>6 DEF Own, Undoing, Changed, Rest
<1>9. Tasks(d)'
  BY <1>1 DEF Own, Tasks, Changed
<1>10. Recovering(d)'
  BY <1>1 DEF Own, Recovering, Hot
<1>11. Finishing(d)'
  BY <1>1 DEF Own, Finishing
<1>12. QED
  BY <1>2, <1>3, <1>4, <1>5, <1>7, <1>8, <1>9, <1>10, <1>11 DEF Own

LEMMA FilesStay ==
  ASSUME Files, UNCHANGED fileVars
  PROVE  Files' /\ Committed' = Committed /\ Left' = Left
BY DEF fileVars, Files, Committed, Left, Mends, Firm, Hot

LEMMA QuietStore ==
  ASSUME StoreInv, HotInv', NEW c \in Conn, Kept(c), UNCHANGED fileVars, Own(c)'
  PROVE  StoreInv'
<1>1. \A d \in Conn \ {c} : Own(d)'
  BY OthersStay, UntouchedOwn DEF StoreInv
<1>2. Files'
  BY FilesStay DEF StoreInv
<1>3. Maps'
  BY DEF Kept, Only, Maps
<1>4. QED
  BY <1>1, <1>2, <1>3 DEF StoreInv

LEMMA ChangeStore ==
  ASSUME StoreInv, HotInv', NEW c \in Conn, Kept(c), Files', Committed' = Committed, Own(c)',
         \A d \in Conn \ {c} : Aside(d) /\ (pc[d] = "remnant" => UNCHANGED db)
  PROVE  StoreInv'
<1>1. \A d \in Conn \ {c} : Own(d)'
  BY OthersStay, AsideOwn DEF StoreInv
<1>2. Maps'
  BY DEF Kept, Only, Maps
<1>3. QED
  BY <1>1, <1>2 DEF StoreInv

\* Only one connection writes the files.
LEMMA OthersAside ==
  ASSUME HotInv, NEW c \in Conn, NEW d \in Conn \ {c}, eState[d] \in State,
         eLock[c] >= RESERVED_LOCK \/ ~Holds(d, RESERVED_LOCK)
  PROVE  Aside(d)
<1> USE DEF Level, NO_LOCK, SHARED_LOCK, RESERVED_LOCK, EXCLUSIVE_LOCK
<1>1. /\ eLock[c] \in Level /\ eFileLock[c] \in Level /\ eLock[c] <= eFileLock[c]
      /\ eLock[d] \in Level /\ eFileLock[d] \in Level /\ eLock[d] <= eFileLock[d]
  BY Levels DEF HotInv
<1>2. ~Holds(d, RESERVED_LOCK)
  BY <1>1 DEF HotInv, IInv, LockInv, LockExclusion, Holds
<1>3. eLock[d] < RESERVED_LOCK
  BY <1>1, <1>2 DEF Holds
<1>4. Placed(eLock[d], eFileLock[d], pc[d], eState[d]) /\ Fits(eLock[d], pc[d], eState[d])
  BY DEF HotInv, Mine, IInv, Good
<1>5. QED
  BY <1>1, <1>3, <1>4 DEF Placed, Fits, Aside, Writing, State

-----------------------------------------------------------------------------
(* Steps that leave the files alone.                                       *)

\* What c has is as before.
Still(c) ==
  /\ cache'[c] = cache[c] /\ dirty'[c] = dirty[c] /\ vers'[c] = vers[c] /\ held'[c] = held[c]
  /\ orig'[c] = orig[c] /\ dbSize'[c] = dbSize[c] /\ safe'[c] = safe[c] /\ todo'[c] = todo[c]
  /\ spill'[c] = spill[c] /\ view'[c] = view[c]

Goals == {"none", "read", "write", "upgrade"}

LEMMA QuietFiles ==
  ASSUME UNCHANGED fileVars
  PROVE  UNCHANGED <<db, dbOld, jrnl, jrnlOld>> /\ Committed' = Committed /\ Logical' = Logical /\ Left' = Left
BY DEF fileVars, Committed, Logical, Left

LEMMA OpenOwn ==
  ASSUME NEW c \in Conn, Own(c), Still(c), UNCHANGED fileVars, goal'[c] \in Goals,
         eState[c] = "open", eState'[c] = "open", pc[c] # "restore",
         pc'[c] \in Steps("open") \ {"restore", "delete"}, pc'[c] = "remnant" => db = Empty
  PROVE  Own(c)'
<1> USE QuietFiles DEF Still
<1>1. Shaped(c)'
  BY DEF Own, Shaped, Goals
<1>2. (pc[c] \in Steps(eState[c]))'
  BY DEF Steps
<1>3. Waiting(c)'
  BY DEF Own, Waiting
<1>4. Tasks(c)'
  BY DEF Tasks, Changed, Steps
<1>5. Reading(c)' /\ Writer(c)' /\ Undoing(c)' /\ Recovering(c)' /\ Finishing(c)'
  BY DEF Reading, Writer, Undoing, Recovering, Finishing, Changed
<1>6. QED
  BY <1>1, <1>2, <1>3, <1>4, <1>5 DEF Own

LEMMA ReaderOwn ==
  ASSUME NEW c \in Conn, Own(c), Still(c), UNCHANGED fileVars, goal'[c] \in Goals,
         eState[c] = "reader", eState'[c] = "reader", pc'[c] \in Steps("reader")
  PROVE  Own(c)'
<1> USE QuietFiles DEF Still
<1>1. Shaped(c)'
  BY DEF Own, Shaped, Goals
<1>2. (pc[c] \in Steps(eState[c]))' /\ (eState[c] \notin {"open", "error"} => view[c] = Logical)'
  BY DEF Own, Steps
<1>3. Reading(c)'
  BY DEF Own, Reading, Steps
<1>4. Tasks(c)'
  BY DEF Tasks, Changed, Steps
<1>5. Waiting(c)' /\ Writer(c)' /\ Undoing(c)' /\ Recovering(c)' /\ Finishing(c)'
  BY DEF Waiting, Writer, Undoing, Recovering, Finishing, Changed
<1>6. QED
  BY <1>1, <1>2, <1>3, <1>4, <1>5 DEF Own

LEMMA LockedOwn ==
  ASSUME NEW c \in Conn, Own(c), Still(c), UNCHANGED fileVars, goal'[c] = goal[c],
         eState[c] = "locked", eState'[c] = "locked", pc'[c] \in {"idle", "commit", "downgrade"}
  PROVE  Own(c)'
<1> USE QuietFiles DEF Still
<1>1. Shaped(c)'
  BY DEF Own, Shaped
<1>2. (pc[c] \in Steps(eState[c]))' /\ (eState[c] \notin {"open", "error"} => view[c] = Logical)'
  BY DEF Own, Steps
<1>3. Reading(c)'
  BY DEF Own, Reading, Synced
<1>4. Tasks(c)'
  BY DEF Tasks, Changed
<1>5. Waiting(c)' /\ Writer(c)' /\ Undoing(c)' /\ Recovering(c)' /\ Finishing(c)'
  BY DEF Waiting, Writer, Undoing, Recovering, Finishing, Changed
<1>6. QED
  BY <1>1, <1>2, <1>3, <1>4, <1>5 DEF Own

\* Who has failed knows nothing.
LEMMA ErrorOwn ==
  ASSUME NEW c \in Conn, Own(c), Still(c), goal'[c] = goal[c], eState'[c] = "error", pc'[c] = "abort"
  PROVE  Own(c)'
<1>1. Shaped(c)' /\ (pc[c] \in Steps(eState[c]))'
  BY DEF Own, Shaped, Still, State, Steps
<1>2. Tasks(c)'
  BY DEF Tasks, Changed, Committing
<1>3. Waiting(c)' /\ Reading(c)' /\ Writer(c)' /\ Undoing(c)' /\ Recovering(c)' /\ Finishing(c)'
  BY DEF Waiting, Reading, Writer, Undoing, Recovering, Finishing, Changed
<1>4. QED
  BY <1>1, <1>2, <1>3 DEF Own

LEMMA ProtectedStays ==
  ASSUME NEW c \in Conn, Protected(c), UNCHANGED fileVars, eState'[c] = eState[c], orig'[c] = orig[c],
         safe'[c] = safe[c], held'[c] = held[c], vers'[c] = vers[c]
  PROVE  Protected(c)'
BY QuietFiles DEF Protected, Synced

\* A writer goes from one step of a commit to the next.
LEMMA MovesOwn ==
  ASSUME NEW c \in Conn, Own(c), Still(c), UNCHANGED fileVars, goal'[c] = goal[c],
         Changed(c), eState'[c] = eState[c], pc[c] \in {"idle", "commit", "vacuum"},
         \/ pc'[c] = "idle"
         \/ pc'[c] \in {"commit", "vacuum", "counter"} /\ vers[c] < MaxChange
  PROVE  Own(c)'
<1> USE QuietFiles DEF Still
<1>1. Shaped(c)'
  BY DEF Own, Shaped
<1>2. (pc[c] \in Steps(eState[c]))' /\ (eState[c] \notin {"open", "error"} => view[c] = Logical)'
  BY DEF Own, Steps, Changed
<1>3. Writer(c)'
  BY ProtectedStays DEF Own, Writer, Changed, Hot, Committing
<1>4. Tasks(c)'
  BY DEF Own, Tasks, Changed, Committing
<1>5. Waiting(c)' /\ Reading(c)' /\ Undoing(c)' /\ Recovering(c)' /\ Finishing(c)'
  BY DEF Waiting, Reading, Undoing, Recovering, Finishing, Changed
<1>6. QED
  BY <1>1, <1>2, <1>3, <1>4, <1>5 DEF Own

\* What the journal does not have is in the file as it was.
LEMMA RestIsOld ==
  ASSUME NEW c \in Conn, Own(c), Changed(c),
         pc[c] \in {"idle", "commit", "vacuum", "counter"} \cup Committing
  PROVE  /\ \A p \in Page : p <= orig[c] /\ p \notin Journaled(jrnl) => db[p] = Committed[p]
         /\ \A p \in DOMAIN cache[c] : p <= orig[c] /\ p \notin Journaled(jrnl) => cache[c][p] = Committed[p]
<1>1. Protected(c) /\ Writer(c) /\ DOMAIN cache[c] \subseteq Page
  BY DEF Own, Writer, Shaped, Copy
<1>2. eState[c] = "dbmod" => safe[c] \subseteq Journaled(jrnl)
  BY <1>1 DEF Protected, Left, Journaled
<1>3. \A p \in Page : p <= orig[c] /\ p \notin Journaled(jrnl) => db[p] = Committed[p]
  BY <1>1, <1>2 DEF Protected, Changed
<1>4. \A p \in DOMAIN cache[c] : p <= orig[c] /\ p \notin Journaled(jrnl) => cache[c][p] = db[p]
  BY <1>1 DEF Writer
<1>5. QED
  BY <1>1, <1>3, <1>4

LEMMA GivingUpOwn ==
  ASSUME NEW c \in Conn, Own(c), Still(c), UNCHANGED fileVars, goal'[c] = goal[c],
         Changed(c), eState'[c] = eState[c], spill[c] = 0,
         pc[c] \in {"idle", "commit", "vacuum", "counter"} \cup Committing, pc'[c] = "undo"
  PROVE  Own(c)'
<1> USE QuietFiles DEF Still
<1>1. Shaped(c)'
  BY DEF Own, Shaped
<1>2. (pc[c] \in Steps(eState[c]))' /\ (eState[c] \notin {"open", "error"} => view[c] = Logical)'
  BY DEF Own, Steps, Changed
<1>3. Undoing(c)'
  <2>1. Writer(c)
    BY DEF Own
  <2>2. Protected(c)'
    BY <2>1, ProtectedStays DEF Writer
  <2>3. \A p \in DOMAIN cache[c] : p <= orig[c] /\ p \notin Journaled(jrnl) => cache[c][p] = Committed[p]
    BY RestIsOld
  <2>4. orig[c] # 0 => 1 \in DOMAIN cache[c] /\ (vers[c] = Counter(Committed[1]) \/ 1 \in Journaled(jrnl))
    BY <2>1 DEF Writer
  <2>5. QED
    BY <2>2, <2>3, <2>4 DEF Undoing, Rest
<1>4. Tasks(c)'
  BY DEF Tasks, Changed, Committing
<1>5. Waiting(c)' /\ Reading(c)' /\ Writer(c)' /\ Recovering(c)' /\ Finishing(c)'
  BY DEF Waiting, Reading, Writer, Recovering, Finishing, Changed, Committing
<1>6. QED
  BY <1>1, <1>2, <1>3, <1>4, <1>5 DEF Own

LEMMA GotoIs ==
  ASSUME Maps, NEW c \in Conn, NEW l, Goto(c, l)
  PROVE  pc'[c] = l
BY DEF Maps, Goto, Set

LEMMA StillIs ==
  ASSUME NEW c \in Conn
  PROVE  /\ UNCHANGED <<pagerVars, todo, spill, view>> => Still(c) /\ eState'[c] = eState[c]
         /\ UNCHANGED <<cache, dirty, vers, held, orig, dbSize, safe, todo, spill, view>> => Still(c)
BY DEF Still, pagerVars

\* On the way to a transaction.
LEMMA LookingOwn ==
  ASSUME HotInv, Files, Maps, NEW c \in Conn, Own(c),
         \/ \E g \in {"read", "write"} : Begin(c, g)
         \/ Share(c) \/ Exists(c) \/ CheckReserved(c) \/ FirstByte(c) \/ Exclude(c)
         \/ ReadFails(c) /\ eState[c] = "open"
  PROVE  UNCHANGED fileVars /\ Own(c)' /\ UNCHANGED view
<1>1. Still(c) /\ UNCHANGED <<fileVars, eState, view>>
  BY DEF Still, pagerVars, Begin, Share, Exists, CheckReserved, FirstByte, Exclude, ReadFails
<1>2. eState[c] = "open"
  BY DEF HotInv, IInv, Good, Fits, Begin, Share, Exists, CheckReserved, FirstByte, Exclude, At
<1>3. goal'[c] \in Goals
  <2>1. goal[c] \in Goals
    BY DEF Own, Shaped, Goals
  <2>2. goal'[c] = goal[c] \/ goal'[c] \in {"read", "write"}
    BY DEF Maps, Set, Begin, Share, Exists, CheckReserved, FirstByte, Exclude, ReadFails
  <2>3. QED
    BY <2>1, <2>2 DEF Goals
<1>4. pc[c] # "restore"
  BY <1>2 DEF Begin, Share, Exists, CheckReserved, FirstByte, Exclude, ReadFails, At
<1>5. pc'[c] \in {"share", "exists", "reserved", "first", "remnant", "exclude", "recover", "validate", "release"}
  BY GotoIs DEF Begin, Share, Exists, CheckReserved, FirstByte, Exclude, ReadFails
<1>6. pc'[c] = "remnant" => db = Empty
  <2>1. SUFFICES ASSUME pc'[c] = "remnant"
                 PROVE  db = Empty
    OBVIOUS
  <2>2. CheckReserved(c) /\ Size(db) = 0
    BY <2>1, GotoIs DEF Begin, Share, Exists, CheckReserved, FirstByte, Exclude, ReadFails
  <2>3. \A p \in Page : db[p] = Absent
    BY <2>2, SizeFits, PageOne DEF Page
  <2>4. QED
    BY <2>3 DEF Empty, Files
<1>7. QED
  BY <1>1, <1>2, <1>3, <1>4, <1>5, <1>6, OpenOwn DEF Steps

LEMMA AsReaderOwn ==
  ASSUME Maps, NEW c \in Conn, Own(c),
         Upgrade(c) \/ EndRead(c) \/ (ReadFails(c) /\ eState[c] # "open")
  PROVE  UNCHANGED fileVars /\ Own(c)' /\ UNCHANGED view
<1>1. Still(c) /\ UNCHANGED <<fileVars, eState, view>>
  BY DEF Still, pagerVars, Upgrade, EndRead, ReadFails
<1>2. eState[c] = "reader"
  BY DEF Own, Shaped, State, Steps, Upgrade, EndRead, ReadFails, At
<1>3. goal'[c] \in Goals
  BY DEF Own, Shaped, Goals, Maps, Set, Upgrade, EndRead, ReadFails
<1>4. pc'[c] \in {"reserve", "release"}
  BY GotoIs DEF Upgrade, EndRead, ReadFails
<1>5. QED
  BY <1>1, <1>2, <1>3, <1>4, ReaderOwn DEF Steps

LEMMA RollingBackOwn ==
  ASSUME Maps, NEW c \in Conn, Own(c), Still(c), UNCHANGED fileVars, goal'[c] = goal[c],
         eState'[c] = eState[c], RollingBack(c), MayWrite(c),
         pc[c] \in {"idle", "newdb", "commit", "vacuum", "counter"} \cup Committing,
         spill[c] = 0
  PROVE  Own(c)'
<1>1. pc'[c] = IF eState[c] = "locked" THEN "downgrade" ELSE "undo"
  BY GotoIs DEF RollingBack
<1>2. CASE eState[c] = "locked"
  BY <1>1, <1>2, LockedOwn
<1>3. CASE eState[c] # "locked"
  <2>1. Changed(c)
    BY <1>3 DEF MayWrite, Changed
  <2>2. pc[c] # "newdb"
    BY <2>1 DEF Own, Steps, Changed
  <2>3. QED
    BY <1>1, <1>3, <2>1, <2>2, GivingUpOwn
<1>4. QED
  BY <1>2, <1>3

LEMMA IdleSpill ==
  ASSUME NEW c \in Conn, Own(c), pc[c] \in {"idle", "newdb", "commit", "vacuum", "counter"}
  PROVE  eState[c] # "error" => spill[c] = 0
BY DEF Own, Shaped, State, Steps, Waiting, Reading, Tasks, Changed

LEMMA CommitOwn ==
  ASSUME Maps, NEW c \in Conn, Own(c), Commit(c) \/ Rollback(c)
  PROVE  UNCHANGED fileVars /\ Own(c)' /\ UNCHANGED view
<1>1. Still(c) /\ UNCHANGED <<fileVars, eState, goal, view>>
  BY DEF Still, pagerVars, Commit, Rollback
<1>2. pc[c] = "idle" /\ MayWrite(c)
  BY DEF Commit, Rollback, At
<1>3. CASE Rollback(c)
  <2>1. spill[c] = 0
    BY <1>2, IdleSpill DEF MayWrite
  <2>2. QED
    BY <1>1, <1>2, <1>3, <2>1, RollingBackOwn DEF Rollback
<1>4. CASE Commit(c)
  <2>1. pc'[c] = "commit" /\ (eState[c] = "locked" \/ vers[c] + 1 <= MaxChange)
    BY <1>4, GotoIs DEF Commit, Change
  <2>2. CASE eState[c] = "locked"
    BY <1>1, <2>1, <2>2, LockedOwn
  <2>3. CASE eState[c] # "locked"
    <3>1. Changed(c) /\ vers[c] < MaxChange
      BY <1>2, <2>1, <2>3, BoundsAssumption DEF MayWrite, Changed, Own, Shaped
    <3>2. QED
      BY <1>1, <1>2, <2>1, <3>1, MovesOwn
  <2>4. QED
    BY <2>2, <2>3
<1>5. QED
  BY <1>1, <1>3, <1>4

LEMMA CommitLockOwn ==
  ASSUME HotInv, Maps, NEW c \in Conn, Own(c), CommitLock(c)
  PROVE  UNCHANGED fileVars /\ Own(c)' /\ UNCHANGED view
<1>1. Still(c) /\ UNCHANGED <<fileVars, eState, goal, view>>
  BY DEF Still, pagerVars, CommitLock
<1>2. pc[c] = "commit"
  BY DEF CommitLock, At
<1>3. MayWrite(c)
  BY <1>2 DEF HotInv, Mine, Placed, Writing, MayWrite
<1>4. spill[c] = 0
  BY <1>2, <1>3, IdleSpill DEF MayWrite
<1>5. CASE RollingBack(c)
  BY <1>1, <1>2, <1>3, <1>4, <1>5, RollingBackOwn
<1>6. CASE ~RollingBack(c)
  <2>1. \/ pc'[c] = IF eState[c] = "locked" THEN "downgrade" ELSE "vacuum"
        \/ pc'[c] \in {"commit", "idle"}
    BY <1>2, <1>6, GotoIs DEF CommitLock, Maps, Set
  <2>2. CASE eState[c] = "locked"
    BY <1>1, <2>1, <2>2, LockedOwn
  <2>3. CASE eState[c] # "locked"
    <3>1. Changed(c)
      BY <1>3, <2>3 DEF MayWrite, Changed
    <3>2. vers[c] < MaxChange
      BY <1>2, <3>1 DEF Own, Tasks
    <3>3. QED
      BY <1>1, <1>2, <2>1, <2>3, <3>1, <3>2, MovesOwn
  <2>4. QED
    BY <2>2, <2>3
<1>7. QED
  BY <1>1, <1>5, <1>6

LEMMA WriteFailsOwn ==
  ASSUME HotInv, Maps, NEW c \in Conn, Own(c), WriteFails(c)
  PROVE  UNCHANGED fileVars /\ Own(c)' /\ UNCHANGED view
<1>1. Still(c) /\ UNCHANGED <<fileVars, goal, view>> /\ goal'[c] = goal[c]
  BY DEF Still, pagerVars, WriteFails
<1>2. pc[c] \in Committing
  BY DEF WriteFails, Committing
<1>3. CASE spill[c] = 0
  <2>1. RollingBack(c) /\ UNCHANGED eState
    BY <1>3 DEF WriteFails
  <2>2. MayWrite(c)
    BY <1>2 DEF HotInv, Mine, Placed, MayWrite, Committing
  <2>3. QED
    BY <1>1, <1>2, <1>3, <2>1, <2>2, RollingBackOwn
<1>4. CASE spill[c] # 0
  <2>1. pc'[c] = "abort" /\ eState'[c] = "error"
    BY <1>4, GotoIs DEF WriteFails, Maps, Set
  <2>2. QED
    BY <1>1, <2>1, ErrorOwn
<1>5. QED
  BY <1>1, <1>3, <1>4

\* A page is not read, or the journal not opened.
LEMMA PageNotReadOwn ==
  ASSUME Maps, NEW c \in Conn, Own(c), PageFails(c), RollingBack(c),
         UNCHANGED <<jrnl, jrnlOld, eState, safe>>
  PROVE  UNCHANGED fileVars /\ Own(c)'
<1>1. Still(c) /\ UNCHANGED <<fileVars, eState, goal>>
  BY DEF Still, fileVars, PageFails
<1>2. pc[c] \in {"idle", "newdb", "vacuum", "counter"} /\ MayWrite(c)
  BY DEF PageFails
<1>3. spill[c] = 0
  BY <1>2, IdleSpill DEF MayWrite
<1>4. QED
  BY <1>1, <1>2, <1>3, RollingBackOwn

\* A database without free pages.
LEMMA NoVacuumOwn ==
  ASSUME HotInv, Maps, NEW c \in Conn, Own(c), AutoVacuum(c),
         UNCHANGED <<jrnl, jrnlOld, eState, cache, dirty, safe, dbSize>>
  PROVE  UNCHANGED fileVars /\ Own(c)'
<1>1. Still(c) /\ UNCHANGED <<fileVars, eState, goal>>
  BY DEF Still, fileVars, AutoVacuum
<1>2. pc[c] = "vacuum" /\ pc'[c] = "counter"
  BY GotoIs DEF AutoVacuum, At
<1>3. Changed(c)
  BY <1>2 DEF HotInv, Mine, Placed, Changed
<1>4. vers[c] < MaxChange
  BY <1>2, <1>3 DEF Own, Tasks
<1>5. QED
  BY <1>1, <1>2, <1>3, <1>4, MovesOwn

LEMMA EndFailsOwn ==
  ASSUME Maps, NEW c \in Conn, Own(c), EndFails(c)
  PROVE  Own(c)'
<1>1. Still(c) /\ goal'[c] = goal[c]
  BY DEF Still, EndFails
<1>2. pc'[c] = "abort" /\ eState'[c] = "error"
  BY GotoIs DEF EndFails, Maps, Set
<1>3. QED
  BY <1>1, <1>2, ErrorOwn

LEMMA SpillOwn ==
  ASSUME Maps, NEW c \in Conn, NEW p \in Page, Own(c), Spill(c, p)
  PROVE  UNCHANGED fileVars /\ Own(c)' /\ UNCHANGED view
<1>1. /\ eState'[c] = eState[c] /\ cache'[c] = cache[c] /\ dirty'[c] = dirty[c]
      /\ vers'[c] = vers[c] /\ held'[c] = held[c] /\ orig'[c] = orig[c] /\ dbSize'[c] = dbSize[c]
      /\ safe'[c] = safe[c] /\ goal'[c] = goal[c] /\ view'[c] = view[c] /\ UNCHANGED view
  BY DEF Spill
<1>2. /\ pc[c] = "idle" /\ eState[c] \in {"cachemod", "dbmod"} /\ p \in dirty[c] /\ p # 1
      /\ \/ pc'[c] \in {"jsync", "write"} /\ todo'[c] = {p} /\ spill'[c] = p
            /\ (pc'[c] = "write" => eState[c] = "dbmod" /\ p \notin DOMAIN jrnl.more)
         \/ pc'[c] = "idle" /\ todo'[c] = todo[c] /\ spill'[c] = spill[c]
  BY DEF Maps, Goto, Set, NeedSync, Spill, At
<1>3. UNCHANGED fileVars
  BY DEF Spill
<1>4. Shaped(c)'
  BY <1>1, <1>2, BoundsAssumption DEF Own, Shaped, Page
<1>5. (pc[c] \in Steps(eState[c]))' /\ (eState[c] \notin {"open", "error"} => view[c] = Logical)'
  BY <1>1, <1>2, <1>3, QuietFiles DEF Own, Steps
<1>6. Waiting(c)' /\ Reading(c)' /\ Undoing(c)' /\ Recovering(c)' /\ Finishing(c)'
  BY <1>1, <1>2 DEF Waiting, Reading, Undoing, Recovering, Finishing
<1>7. Writer(c) /\ Tasks(c) /\ Shaped(c) /\ Changed(c) /\ Changed(c)' /\ Protected(c)'
  BY <1>1, <1>2, <1>3, ProtectedStays DEF Own, Changed, Writer
<1>8. Writer(c)'
  BY <1>1, <1>2, <1>3, <1>7, QuietFiles DEF Writer, Committing
<1>9. Tasks(c)'
  <2>1. pc'[c] = "write" => p > orig[c] \/ p \in safe[c]
    <3>1. pc'[c] = "write" => p \notin DOMAIN jrnl.more /\ safe[c] = DOMAIN jrnl.kept
      BY <1>2, <1>7 DEF Writer
    <3>2. p <= orig[c] => p \in Journaled(jrnl)
      BY <1>2, <1>7 DEF Writer
    <3>3. orig[c] \in Nat /\ p \in Nat
      BY <1>7, BoundsAssumption DEF Shaped, Page
    <3>4. QED
      BY <3>1, <3>2, <3>3 DEF Journaled
  <2>2. p # 0 /\ p \in dirty[c] \ {1}
    BY <1>2, PageOne
  <2>3. QED
    BY <1>1, <1>2, <1>3, <1>7, <2>1, <2>2 DEF Tasks, Changed, Committing
<1>10. QED
  BY <1>1, <1>3, <1>4, <1>5, <1>6, <1>8, <1>9 DEF Own

LEMMA DowngradeOwn ==
  ASSUME Maps, NEW c \in Conn, Own(c), Downgrade(c)
  PROVE  UNCHANGED fileVars /\ Own(c)' /\ UNCHANGED view
<1>1. /\ cache'[c] = cache[c] /\ dirty'[c] = dirty[c] /\ vers'[c] = vers[c] /\ held'[c] = held[c]
      /\ orig'[c] = 0 /\ dbSize'[c] = 0 /\ safe'[c] = {} /\ goal'[c] = goal[c] /\ todo'[c] = todo[c]
      /\ spill'[c] = spill[c] /\ view'[c] = view[c]
  BY DEF Maps, Set, Downgrade
<1>2. /\ pc[c] = "downgrade"
      /\ eState[c] = "open" => eState'[c] = "open" /\ pc'[c] = "validate"
      /\ eState[c] # "open" => eState'[c] = "reader" /\ pc'[c] \in {"idle", "release"}
  BY DEF Maps, Goto, Set, Downgrade, At
<1>3. UNCHANGED fileVars /\ UNCHANGED view
  BY DEF Downgrade
<1>4. Shaped(c)'
  BY <1>1, <1>2, BoundsAssumption DEF Own, Shaped, State
<1>5. (pc[c] \in Steps(eState[c]))' /\ (eState[c] \notin {"open", "error"} => view[c] = Logical)'
  BY <1>1, <1>2, <1>3, QuietFiles DEF Own, Shaped, State, Steps
<1>6. Waiting(c)'
  BY <1>1, <1>2, <1>3, QuietFiles DEF Own, Waiting
<1>7. Reading(c)'
  BY <1>1, <1>2, <1>3, QuietFiles DEF Own, Reading
<1>8. Writer(c)' /\ Tasks(c)' /\ Undoing(c)' /\ Recovering(c)' /\ Finishing(c)'
  BY <1>2 DEF Writer, Tasks, Undoing, Recovering, Finishing, Changed
<1>9. QED
  BY <1>3, <1>4, <1>5, <1>6, <1>7, <1>8 DEF Own

LEMMA NoImageIs == Copy(NoImage) /\ NoImage \in Images /\ DOMAIN NoImage = {}
BY DEF Copy, NoImage, Images

\* Who leaves keeps the pages of the state it has read.
LEMMA LeavingOwn ==
  ASSUME Maps, NEW c \in Conn, Own(c), Release(c) \/ Abort(c)
  PROVE  UNCHANGED fileVars /\ Own(c)' /\ view' = Set(view, c, NoView)
<1>1. /\ eState'[c] = "open" /\ pc'[c] = "idle" /\ vers'[c] = vers[c] /\ held'[c] = held[c]
      /\ orig'[c] = 0 /\ dbSize'[c] = 0 /\ safe'[c] = {} /\ goal'[c] \in {goal[c], "none"}
      /\ view'[c] = NoView
  BY DEF Maps, Goto, Set, Release, Abort
<1>2. \/ /\ pc[c] = "release" /\ cache'[c] = cache[c] /\ dirty'[c] = dirty[c]
         /\ todo'[c] = todo[c] /\ spill'[c] = spill[c]
      \/ cache'[c] = NoImage /\ dirty'[c] = {} /\ todo'[c] = {} /\ spill'[c] = 0
  BY DEF Maps, Set, Release, Abort, At
<1>3. UNCHANGED fileVars /\ view' = Set(view, c, NoView)
  BY DEF Release, Abort
<1>4. Shaped(c)'
  BY <1>1, <1>2, NoImageIs, BoundsAssumption DEF Own, Shaped, State
<1>5. (pc[c] \in Steps(eState[c]))'
  BY <1>1 DEF Steps
<1>6. Waiting(c)'
  <2>1. CASE pc[c] = "release" /\ UNCHANGED <<cache[c], dirty[c], todo[c], spill[c]>>
    <3>1. eState[c] \in {"open", "reader"}
      BY <2>1 DEF Own, Shaped, State, Steps
    <3>2. \/ cache[c] = NoImage
          \/ /\ vers[c] <= Counter(Committed[1]) /\ held[c]
             /\ vers[c] = Counter(Committed[1]) => Part(cache[c], Committed)
      BY <2>1, <3>1 DEF Own, Waiting, Reading, Shaped
    <3>3. QED
      BY <1>1, <1>3, <2>1, <3>1, <3>2, QuietFiles DEF Own, Waiting, Reading
  <2>2. CASE cache'[c] = NoImage /\ dirty'[c] = {} /\ todo'[c] = {} /\ spill'[c] = 0
    BY <1>1, <2>2 DEF Waiting
  <2>3. QED
    BY <1>2, <2>1, <2>2
<1>7. Reading(c)' /\ Writer(c)' /\ Tasks(c)' /\ Undoing(c)' /\ Recovering(c)' /\ Finishing(c)'
  BY <1>1 DEF Reading, Writer, Tasks, Undoing, Recovering, Finishing, Changed
<1>8. QED
  BY <1>1, <1>3, <1>4, <1>5, <1>6, <1>7 DEF Own

\* The page p of the cache or journal g is x, and the others are those of f.
Added(f, p, x, g) ==
  /\ DOMAIN g = DOMAIN f \cup {p} /\ g[p] = x
  /\ \A q \in DOMAIN f : q # p => g[q] = f[q]
  /\ Copy(f) /\ p \in Page /\ x \in Datum => Copy(g)

LEMMA PutAdds ==
  ASSUME NEW f, NEW p, NEW x
  PROVE  Added(f, p, x, Put(f, p, x))
<1> DEFINE g == Put(f, p, x)
<1>1. /\ DOMAIN g = DOMAIN f \cup {p} /\ g[p] = x
      /\ \A q \in DOMAIN f : q # p => g[q] = f[q]
  BY DEF Put
<1>2. Copy(f) /\ p \in Page /\ x \in Datum => Copy(g)
  <2>1. g = [q \in DOMAIN g |-> g[q]]
    BY DEF Put
  <2>2. Copy(f) => \A q \in DOMAIN f : f[q] \in Datum /\ q \in Page
    BY DEF Copy
  <2> HIDE DEF g
  <2>3. QED
    BY <1>1, <2>1, <2>2 DEF Copy
<1> HIDE DEF g
<1>3. Added(f, p, x, g)
  BY <1>1, <1>2 DEF Added
<1>4. QED
  BY <1>3 DEF g

\* Who reads the file finds a page of a database.
LEMMA ReadsValue ==
  ASSUME HotInv, Files, NEW c \in Conn, Own(c), eState[c] # "open", At(c, "idle")
  PROVE  /\ db \in Database /\ \A p \in Page : db[p] \in Datum
         /\ eState[c] \in {"reader", "locked"} \/ Changed(c)
         /\ eState[c] \in {"reader", "locked"} => db = Committed
<1>1. eState[c] \in {"reader", "locked"} \/ Changed(c)
  BY DEF Own, Shaped, State, Steps, Changed, At
<1>2. eState[c] \in {"reader", "locked"} => db = Committed /\ db \in Database
  BY CommittedWhole DEF HotInv, Mine, Seen, Whole
<1>3. Changed(c) => db \in Database
  BY DEF Own, Writer, Protected, At
<1>4. QED
  BY <1>1, <1>2, <1>3 DEF Changed, Database, Datum

LEMMA ReadOwn ==
  ASSUME HotInv, Files, Maps, NEW c \in Conn, NEW p \in Page, Own(c), Read(c, p)
  PROVE  UNCHANGED fileVars /\ Own(c)' /\ UNCHANGED view
<1>1. /\ eState'[c] = eState[c] /\ pc'[c] = pc[c] /\ cache'[c] = Put(cache[c], p, db[p])
      /\ dirty'[c] = dirty[c] /\ vers'[c] = vers[c] /\ held'[c] = held[c]
      /\ orig'[c] = orig[c] /\ dbSize'[c] = dbSize[c] /\ safe'[c] = safe[c] /\ goal'[c] = goal[c]
      /\ todo'[c] = todo[c] /\ spill'[c] = spill[c] /\ view'[c] = view[c]
  BY DEF Maps, Set, callVars, Read
<1>2. pc[c] = "idle" /\ eState[c] # "open" /\ p \notin DOMAIN cache[c]
  BY DEF Read, At
<1>3. UNCHANGED fileVars /\ UNCHANGED view
  BY DEF Read
<1>4. Shaped(c) /\ Reading(c) /\ Writer(c) /\ Tasks(c) /\ pc[c] \in Steps(eState[c])
      /\ (eState[c] \notin {"open", "error"} => view[c] = Logical)
  BY DEF Own
<1>5. db[p] \in Datum /\ (eState[c] \in {"reader", "locked"} => db = Committed)
      /\ (eState[c] \in {"reader", "locked"} \/ Changed(c))
  BY <1>2, ReadsValue DEF At
<1>6. 1 \in DOMAIN cache[c] /\ p # 1
  <2>1. 1 \notin DOMAIN cache[c] => p <= 0
    BY DEF Read, nPage
  <2>2. QED
    BY <1>2, <2>1, PageOne
<1>7. PICK m : m = Put(cache[c], p, db[p])
  OBVIOUS
<1>8. /\ DOMAIN m = DOMAIN cache[c] \cup {p} /\ m[p] = db[p]
      /\ \A q \in DOMAIN cache[c] : m[q] = cache[c][q]
      /\ Copy(cache[c]) => Copy(m)
  <2>1. Added(cache[c], p, db[p], m)
    BY <1>7, PutAdds
  <2>2. QED
    BY <1>2, <1>5, <2>1 DEF Added
<1>9. cache'[c] = m
  BY <1>1, <1>7
<1>10. Shaped(c)'
  BY <1>1, <1>4, <1>8, <1>9 DEF Shaped
<1>11. (pc[c] \in Steps(eState[c]))' /\ (eState[c] \notin {"open", "error"} => view[c] = Logical)'
  BY <1>1, <1>3, <1>4, QuietFiles
<1>12. Waiting(c)' /\ Recovering(c)' /\ Finishing(c)' /\ Undoing(c)'
  BY <1>1, <1>2 DEF Waiting, Recovering, Finishing, Undoing
<1>13. Reading(c)'
  <2>1. SUFFICES ASSUME eState[c] \in {"reader", "locked"}
                 PROVE  Reading(c)'
    BY <1>1, <1>2 DEF Reading
  <2>2. Part(m, Committed)
    BY <1>4, <1>5, <1>8, <2>1 DEF Reading, Part
  <2>3. 1 \in DOMAIN m /\ vers[c] = Counter(Committed[1])
    BY <1>4, <1>6, <1>8, <2>1, NoImageIs DEF Reading
  <2>4. Synced(orig[c]) => Synced(orig[c])'
    BY <1>1, <1>3, QuietFiles DEF Synced
  <2>5. QED
    BY <1>1, <1>2, <1>3, <1>4, <1>9, <2>1, <2>2, <2>3, <2>4, QuietFiles DEF Reading
<1>14. Writer(c)'
  <2>1. SUFFICES ASSUME Changed(c)
                 PROVE  Writer(c)'
    BY <1>1, <1>2 DEF Writer, Changed
  <2>2. Protected(c)'
    BY <1>1, <1>2, <1>3, <1>4, <2>1, ProtectedStays DEF Writer
  <2>3. \A q \in DOMAIN m \ dirty[c] : m[q] = db[q]
    BY <1>2, <1>4, <1>8, <2>1 DEF Writer
  <2>4. m[1] = cache[c][1] /\ 1 \in DOMAIN m
    BY <1>6, <1>8
  <2>5. QED
    BY <1>1, <1>2, <1>3, <1>4, <1>9, <2>1, <2>2, <2>3, <2>4, QuietFiles DEF Writer, Changed
<1>15. Tasks(c)'
  BY <1>1, <1>2, <1>4 DEF Tasks, Changed, Committing
<1>16. QED
  BY <1>3, <1>10, <1>11, <1>12, <1>13, <1>14, <1>15 DEF Own

LEMMA ValidateOwn ==
  ASSUME HotInv, Files, Maps, NEW c \in Conn, Own(c), Validate(c)
  PROVE  UNCHANGED fileVars /\ Own(c)' /\ view[c] = NoView /\ view' = Set(view, c, Logical)
<1> DEFINE k == IF Stale(c) THEN NoImage ELSE cache[c]
<1>1. /\ eState'[c] = "reader" /\ pc[c] = "validate" /\ pc'[c] \in {"reserve", "idle"}
      /\ dirty'[c] = dirty[c] /\ held'[c] = TRUE
      /\ orig'[c] = orig[c] /\ dbSize'[c] = dbSize[c] /\ safe'[c] = safe[c] /\ goal'[c] \in {goal[c], "none"}
      /\ todo'[c] = todo[c] /\ spill'[c] = spill[c]
  BY DEF Maps, At, Goto, Set, Validate
<1>2. IF 1 \in DOMAIN k THEN cache'[c] = k /\ vers'[c] = vers[c]
                        ELSE cache'[c] = Put(k, 1, db[1]) /\ vers'[c] = Counter(db[1])
  BY DEF Maps, Set, Validate
<1>3. UNCHANGED fileVars /\ view' = Set(view, c, Logical) /\ view'[c] = Logical
  BY DEF Maps, Set, Validate, Logical, Committed
<1>4. Shaped(c) /\ Waiting(c) /\ eState[c] = "open"
  BY <1>1 DEF Own, Shaped, State, Steps
<1>5. Committed = db /\ Whole(db) /\ db[1] \in Datum /\ Counter(db[1]) \in 0..MaxChange
  <2>1. ~Hot(jrnl)
    BY <1>1 DEF HotInv, Mine, Seen
  <2>2. Committed = db /\ Whole(db)
    BY <2>1, CommittedWhole
  <2>3. QED
    BY <2>2, WholeOne
<1>6. Copy(k) /\ Part(k, db) /\ (1 \in DOMAIN k => vers[c] = Counter(db[1]))
  <2>1. CASE k = NoImage
    BY <2>1 DEF NoImage, Copy, Part
  <2>2. CASE k # NoImage
    <3>1. k = cache[c] /\ ~Stale(c)
      BY <2>2
    <3>2. held[c] /\ vers[c] = Counter(db[1])
      BY <1>4, <1>5, <2>2, <3>1 DEF Waiting, Stale
    <3>3. QED
      BY <1>4, <1>5, <2>2, <3>1, <3>2 DEF Waiting, Shaped
  <2>3. QED
    BY <2>1, <2>2
<1> HIDE DEF k
<1>7. Copy(cache'[c]) /\ Part(cache'[c], db) /\ 1 \in DOMAIN cache'[c] /\ vers'[c] = Counter(db[1])
  <2>1. CASE 1 \in DOMAIN k
    BY <1>2, <1>6, <2>1
  <2>2. CASE 1 \notin DOMAIN k
    <3>1. PICK m : m = Put(k, 1, db[1])
      OBVIOUS
    <3>2. Added(k, 1, db[1], m)
      BY <3>1, PutAdds
    <3>3. Copy(m) /\ Part(m, db) /\ 1 \in DOMAIN m
      BY <1>5, <1>6, <3>2, PageOne DEF Added, Part
    <3>4. QED
      BY <1>2, <2>2, <3>1, <3>3
  <2>3. QED
    BY <2>1, <2>2
<1>8. Shaped(c)'
  BY <1>1, <1>4, <1>5, <1>7 DEF Shaped, Waiting, State
<1>9. (pc[c] \in Steps(eState[c]))' /\ (eState[c] \notin {"open", "error"} => view[c] = Logical)'
  BY <1>1, <1>3, QuietFiles DEF Steps
<1>10. Reading(c)'
  BY <1>1, <1>3, <1>4, <1>5, <1>7, QuietFiles DEF Reading, Waiting
<1>11. Waiting(c)' /\ Writer(c)' /\ Tasks(c)' /\ Undoing(c)' /\ Recovering(c)' /\ Finishing(c)'
  BY <1>1 DEF Waiting, Writer, Tasks, Undoing, Recovering, Finishing, Changed
<1>12. QED
  BY <1>3, <1>4, <1>8, <1>9, <1>10, <1>11 DEF Own, Waiting

LEMMA ReserveOwn ==
  ASSUME HotInv, Files, Maps, NEW c \in Conn, Own(c), Reserve(c)
  PROVE  UNCHANGED fileVars /\ Own(c)' /\ UNCHANGED view
<1>1. /\ pc[c] = "reserve" /\ cache'[c] = cache[c]
      /\ dirty'[c] = dirty[c] /\ vers'[c] = vers[c] /\ held'[c] = held[c]
      /\ safe'[c] = safe[c] /\ goal'[c] = "none"
      /\ todo'[c] = todo[c] /\ spill'[c] = spill[c] /\ view'[c] = view[c]
  BY DEF Maps, At, Set, Reserve
<1>2. \/ /\ eState'[c] = "locked" /\ orig'[c] = Size(db) /\ dbSize'[c] = Size(db)
         /\ pc'[c] = IF Size(db) = 0 THEN "newdb" ELSE "idle"
      \/ /\ eState'[c] = eState[c] /\ orig'[c] = orig[c] /\ dbSize'[c] = dbSize[c]
         /\ pc'[c] \in {"idle", "release"}
  BY DEF Maps, Goto, Set, Reserve
<1>3. UNCHANGED fileVars /\ UNCHANGED view
  BY DEF Reserve
<1>4. Shaped(c) /\ Reading(c) /\ eState[c] = "reader" /\ view[c] = Logical
  BY <1>1 DEF Own, Shaped, State, Steps
<1>5. Sized(Size(db), Committed) /\ Size(db) \in 0..N /\ Synced(Size(db))
  <2>1. ~Hot(jrnl) /\ jrnl \in Left
    BY <1>4 DEF HotInv, Mine, Seen, Left
  <2>2. Committed = db /\ Whole(db)
    BY <2>1, CommittedWhole
  <2>3. Sized(Size(db), db) /\ Size(db) \in 0..N /\ (Size(db) = 0 <=> db = Empty)
    BY <2>2, WholeSized
  <2>4. Calm(db, dbOld)
    BY <2>1 DEF Files, Mends
  <2>5. Size(db) \in Nat
    BY <2>3, PageOne
  <2>6. Synced(Size(db))
    BY <2>3, <2>4, <2>5, PageOne DEF Calm, Synced, Page
  <2>7. QED
    BY <2>2, <2>3, <2>6
<1>6. Shaped(c)'
  BY <1>1, <1>2, <1>4, <1>5 DEF Shaped, State
<1>7. (pc[c] \in Steps(eState[c]))' /\ (eState[c] \notin {"open", "error"} => view[c] = Logical)'
  BY <1>1, <1>2, <1>3, <1>4, QuietFiles DEF Steps
<1>8. Synced(Size(db))' /\ Size(db)' = Size(db)
  BY <1>3, <1>5, QuietFiles DEF Synced
<1>9. Reading(c)'
  BY <1>1, <1>2, <1>3, <1>4, <1>5, <1>8, QuietFiles DEF Reading
<1>10. Waiting(c)' /\ Writer(c)' /\ Tasks(c)' /\ Undoing(c)' /\ Recovering(c)' /\ Finishing(c)'
  BY <1>1, <1>2, <1>4 DEF Waiting, Writer, Tasks, Undoing, Recovering, Finishing, Changed
<1>11. QED
  BY <1>3, <1>6, <1>7, <1>9, <1>10 DEF Own

-----------------------------------------------------------------------------
(* What a step may do to the files.                                        *)

\* The committed state stays, and so do the states that a power loss may leave, or
\* the committed one is the only one left.
Steady == Committed' = Committed /\ Survivors' \in {Survivors, {Logical}}

Found(d, o, S) == {Contents(Gives(d, o, j)) : j \in S}

LEMMA SurvivorsFound == Survivors = Found(db, dbOld, Left) /\ Survivors' = Found(db', dbOld', Left')
<1>1. \A j : OnDisk(j) = Disk(db, dbOld, j)
  BY DEF OnDisk, Disk, Pick, Cut
<1>2. \A j : OnDisk(j)' = Disk(db', dbOld', j)
  BY DEF OnDisk, Disk, Pick, Cut
<1>3. Survivors = Found(db, dbOld, Left)
  BY <1>1 DEF Survivors, Found, Gives, Left
<1>4. Survivors' = Found(db', dbOld', Left')
  BY <1>2 DEF Survivors, Found, Gives, Left
<1>5. QED
  BY <1>3, <1>4

LEMMA FilesAre ==
  ASSUME Files, NEW j \in Left
  PROVE  /\ db \in [Page -> Content] /\ dbOld \in [Page -> SUBSET Content]
         /\ j \in Journal \cup {NoJournal} /\ Mends(db, dbOld, j)
         /\ Firm(dbOld, jrnl) /\ jrnl \in Left
BY DEF Files, Left

LEMMA JournalSteady ==
  ASSUME Files, UNCHANGED <<db, dbOld>>, NEW j \in Journal \cup {NoJournal}, jrnl' = j,
         Mends(db, dbOld, j), Firm(dbOld, j), Recovered(db, j) = Committed,
         jrnlOld' \subseteq Left, jrnlOld' = {} \/ jrnlOld \subseteq jrnlOld'
  PROVE  Files' /\ Steady
<1>1. Left' = jrnlOld' \cup {j}
  BY DEF Left
<1>2. PICK L : L = Left'
  OBVIOUS
<1>3. L \subseteq Left \cup {j} /\ L \subseteq Journal \cup {NoJournal}
      /\ \A i \in L : Mends(db, dbOld, i)
  BY <1>1, <1>2 DEF Files
<1>4. Files'
  BY <1>2, <1>3 DEF Files
<1>5. Committed' = Committed
  BY DEF Committed
<1>6. Survivors' = Found(db, dbOld, L) /\ Survivors = Found(db, dbOld, Left)
  BY <1>2, SurvivorsFound
<1>7. Gives(db, dbOld, jrnl) = Committed /\ Gives(db, dbOld, j) = Committed
  BY CommittedWhole, FirmGives DEF Files
<1>8. CASE jrnlOld' = {}
  <2>1. L = {j}
    BY <1>1, <1>2, <1>8
  <2>2. Found(db, dbOld, L) = {Logical}
    BY <1>7, <2>1 DEF Found, Logical
  <2>3. QED
    BY <1>4, <1>5, <1>6, <2>2 DEF Steady
<1>9. CASE jrnlOld \subseteq jrnlOld'
  <2>1. \A i \in L : i \in Left \/ Gives(db, dbOld, i) = Gives(db, dbOld, jrnl)
    BY <1>3, <1>7
  <2>2. \A i \in Left : i \in L \/ Gives(db, dbOld, i) = Gives(db, dbOld, j)
    BY <1>1, <1>2, <1>7, <1>9 DEF Left
  <2>3. j \in L /\ jrnl \in Left
    BY <1>1, <1>2 DEF Left
  <2>4. Found(db, dbOld, L) = Found(db, dbOld, Left)
    BY <2>1, <2>2, <2>3 DEF Found
  <2>5. QED
    BY <1>4, <1>5, <1>6, <2>4 DEF Steady
<1>10. QED
  BY <1>8, <1>9

LEMMA FileSteady ==
  ASSUME Files, UNCHANGED <<jrnl, jrnlOld>>,
         NEW e \in [Page -> Content], NEW u \in [Page -> SUBSET Content], db' = e, dbOld' = u,
         \A j \in Left : Mends(e, u, j) /\ Gives(e, u, j) = Gives(db, dbOld, j),
         Firm(u, jrnl)
  PROVE  Files' /\ Steady
<1>1. Left' = Left /\ jrnl \in Left
  BY DEF Left
<1>2. Left \subseteq Journal \cup {NoJournal}
  BY DEF Files
<1>3. Files'
  BY <1>1, <1>2 DEF Files
<1>4. Committed' = Committed
  <2>1. Gives(e, u, jrnl) = Recovered(e, jrnl)
    BY <1>1, <1>2, FirmGives
  <2>2. QED
    BY <1>1, <2>1, CommittedWhole DEF Committed
<1>5. Found(e, u, Left) = Found(db, dbOld, Left)
  BY DEF Found
<1>6. Survivors' = Survivors
  BY <1>1, <1>5, SurvivorsFound
<1>7. QED
  BY <1>3, <1>4, <1>6 DEF Steady

LEMMA QuietSteady ==
  ASSUME Files, UNCHANGED fileVars
  PROVE  Files' /\ Steady
<1>1. Survivors' = Survivors
  BY QuietFiles, SurvivorsFound
<1>2. QED
  BY <1>1, FilesStay DEF Steady

\* A sync of the file, when no page that was cut is missing.
LEMMA SettledMends ==
  ASSUME NEW d \in [Page -> Content], NEW o \in [Page -> SUBSET Content],
         NEW j \in Journal \cup {NoJournal}, Mends(d, o, j), Firm(o, j)
  PROVE  Mends(d, Nothing, j) /\ Firm(Nothing, j) /\ Gives(d, Nothing, j) = Gives(d, o, j)
<1>1. \A p \in Page : Nothing[p] = {}
  BY DEF Nothing
<1>2. Nothing[1] = {} /\ Nothing \in [Page -> SUBSET Content]
  BY PageOne DEF Nothing
<1>3. \A p \in Page : Sure(d[p], o[p]) => Sure(d[p], Nothing[p])
  BY <1>1 DEF Sure, Datum
<1>4. Mends(d, Nothing, j)
  BY <1>1, <1>2, <1>3 DEF Mends, Calm
<1>5. Firm(Nothing, j)
  BY <1>1 DEF Firm
<1>6. QED
  BY <1>2, <1>4, <1>5, FirmGives

LEMMA SyncSteady ==
  ASSUME Files, UNCHANGED <<jrnl, jrnlOld>>, SyncDb, \A j \in Left : Firm(dbOld, j)
  PROVE  Files' /\ Steady /\ Settled(dbOld')
<1>1. db' = db /\ dbOld' = Nothing
  BY DEF SyncDb, Nothing
<1>2. Nothing \in [Page -> SUBSET Content] /\ Settled(Nothing)
  BY DEF Settled, Nothing
<1>3. \A j \in Left : Mends(db, Nothing, j) /\ Firm(Nothing, j) /\ Gives(db, Nothing, j) = Gives(db, dbOld, j)
  BY SettledMends DEF Files
<1>4. db \in [Page -> Content] /\ jrnl \in Left
  BY DEF Files, Left
<1>5. QED
  BY <1>1, <1>2, <1>3, <1>4, FileSteady


-----------------------------------------------------------------------------
(* Journals.                                                               *)

LEMMA ImagesAre ==
  ASSUME NEW f
  PROVE  f \in Images <=> DOMAIN f \subseteq Page /\ f \in [DOMAIN f -> Content]
BY DEF Images

LEMMA CopyInImages ==
  ASSUME NEW f, Copy(f)
  PROVE  f \in Images
BY ImagesAre DEF Copy, Datum, Content

LEMMA JournalIs ==
  ASSUME NEW j \in Journal
  PROVE  /\ j = [magic |-> j.magic, size |-> j.size, kept |-> j.kept, more |-> j.more]
         /\ j.magic \in BOOLEAN /\ j.size \in 0..N /\ j.kept \in Images /\ j.more \in Images
         /\ j.size \in Nat
         /\ DOMAIN j.kept \subseteq Page /\ DOMAIN j.more \subseteq Page
<1>1. /\ j = [magic |-> j.magic, size |-> j.size, kept |-> j.kept, more |-> j.more]
      /\ j.magic \in BOOLEAN /\ j.size \in 0..N /\ j.kept \in Images /\ j.more \in Images
  BY DEF Journal
<1>2. QED
  BY <1>1, ImagesAre, BoundsAssumption

\* The records of a journal.
LEMMA OverGives ==
  ASSUME NEW f, NEW g
  PROVE  /\ DOMAIN Over(f, g) = DOMAIN f \cup DOMAIN g
         /\ \A p \in DOMAIN f : Over(f, g)[p] = f[p]
         /\ \A p \in DOMAIN g \ DOMAIN f : Over(f, g)[p] = g[p]
BY DEF Over

LEMMA OverIn ==
  ASSUME NEW f, NEW g, NEW s \in [Page -> Datum],
         \A p \in DOMAIN f : p \in Page /\ f[p] = s[p], \A p \in DOMAIN g : p \in Page /\ g[p] = s[p]
  PROVE  Over(f, g) \in Images /\ \A p \in DOMAIN Over(f, g) : Over(f, g)[p] = s[p]
<1> DEFINE k == Over(f, g)
<1>1. k = [p \in DOMAIN k |-> k[p]]
  BY DEF Over
<1>2. /\ DOMAIN k = DOMAIN f \cup DOMAIN g
      /\ \A p \in DOMAIN f : k[p] = f[p]
      /\ \A p \in DOMAIN g \ DOMAIN f : k[p] = g[p]
  BY OverGives
<1> HIDE DEF k
<1>3. DOMAIN k \subseteq Page /\ \A p \in DOMAIN k : k[p] = s[p] /\ k[p] \in Datum
  BY <1>2
<1>4. k \in Images
  BY <1>1, <1>3, CopyInImages DEF Copy
<1>5. QED
  BY <1>3, <1>4 DEF k

-----------------------------------------------------------------------------
(* syncJournal.                                                            *)

LEMMA JournalSyncOwn ==
  ASSUME Files, Maps, NEW c \in Conn, Own(c), JournalSync(c)
  PROVE  Files' /\ Steady /\ Own(c)'
<1>1. /\ eState'[c] = eState[c] /\ pc'[c] = "jheader" /\ cache'[c] = cache[c]
      /\ dirty'[c] = dirty[c] /\ vers'[c] = vers[c] /\ held'[c] = held[c]
      /\ orig'[c] = orig[c] /\ dbSize'[c] = dbSize[c] /\ safe'[c] = safe[c] /\ goal'[c] = goal[c]
      /\ todo'[c] = todo[c] /\ spill'[c] = spill[c] /\ view'[c] = view[c]
  BY DEF Maps, Goto, Set, pagerVars, JournalSync
<1>2. pc[c] = "jsync"
  BY DEF JournalSync, At
<1>3. UNCHANGED <<db, dbOld, jrnl>> /\ jrnlOld' = {}
  BY DEF JournalSync, SyncJournal
<1>4. Files' /\ Steady
  <2>1. jrnl \in Left
    BY DEF Left
  <2>2. jrnl \in Journal \cup {NoJournal} /\ Mends(db, dbOld, jrnl) /\ Firm(dbOld, jrnl)
    BY <2>1 DEF Files
  <2>3. Recovered(db, jrnl) = Committed
    BY DEF Committed
  <2>4. QED
    BY <1>3, <2>2, <2>3, JournalSteady
<1>5. Committed' = Committed /\ Logical' = Logical /\ Left' \subseteq Left
  BY <1>3, <1>4 DEF Steady, Left, Logical
<1>6. Shaped(c) /\ Writer(c) /\ Tasks(c) /\ pc[c] \in Steps(eState[c]) /\ view[c] = Logical /\ Changed(c)
  BY <1>2 DEF Own, Shaped, State, Steps, Changed
<1>7. Shaped(c)'
  BY <1>1, <1>6 DEF Shaped
<1>8. (pc[c] \in Steps(eState[c]))' /\ (eState[c] \notin {"open", "error"} => view[c] = Logical)'
  BY <1>1, <1>5, <1>6 DEF Steps, Changed
<1>9. Waiting(c)' /\ Reading(c)' /\ Undoing(c)' /\ Recovering(c)' /\ Finishing(c)'
  BY <1>1, <1>6 DEF Waiting, Reading, Undoing, Recovering, Finishing, Changed
<1>10. Writer(c)'
  <2>1. Protected(c)'
    <3>1. Protected(c)
      BY <1>2, <1>6 DEF Writer, Committing
    <3>2. QED
      BY <1>1, <1>3, <1>5, <3>1 DEF Protected, Synced
  <2>2. QED
    BY <1>1, <1>2, <1>3, <1>5, <1>6, <2>1 DEF Writer, Changed, Committing
<1>11. Tasks(c)'
  BY <1>1, <1>2, <1>3, <1>5, <1>6 DEF Tasks, Changed, Committing
<1>12. QED
  BY <1>4, <1>7, <1>8, <1>9, <1>10, <1>11 DEF Own

Marked(j) == [j EXCEPT !.magic = TRUE, !.kept = Over(j.kept, j.more), !.more = NoImage]

LEMMA MarkedIs ==
  ASSUME NEW j \in Journal, Over(j.kept, j.more) \in Images
  PROVE  /\ Marked(j) \in Journal /\ Marked(j).magic = TRUE /\ Marked(j).size = j.size
         /\ Marked(j).kept = Over(j.kept, j.more) /\ Marked(j).more = NoImage
<1>1. PICK h \in Images : h = Over(j.kept, j.more)
  OBVIOUS
<1>2. PICK k : k = [j EXCEPT !.magic = TRUE, !.kept = h, !.more = NoImage]
  OBVIOUS
<1>3. k \in Journal /\ k.magic = TRUE /\ k.size = j.size /\ k.kept = h /\ k.more = NoImage
  BY <1>2, NoImageIs DEF Journal
<1>4. Marked(j) = k
  BY <1>1, <1>2 DEF Marked
<1>5. QED
  BY <1>1, <1>3, <1>4

LEMMA HotIs ==
  ASSUME NEW j \in Journal
  PROVE  Hot(j) <=> j.magic = TRUE
BY JournalAssumption, JournalIs DEF Hot

\* The header makes the records count, and those give back what the transaction read.
LEMMA HeaderMends ==
  ASSUME Files, NEW c \in Conn, Own(c), pc[c] = "jheader", NEW k, k = Marked(jrnl)
  PROVE  /\ k \in Journal /\ k.magic = TRUE /\ k.size = orig[c] /\ k.more = NoImage
         /\ DOMAIN k.kept = Journaled(jrnl) /\ (\A p \in DOMAIN k.kept : k.kept[p] = Committed[p])
         /\ Hot(k) /\ Mends(db, dbOld, k) /\ Firm(dbOld, k) /\ Recovered(db, k) = Committed
<1>1. Shaped(c) /\ Writer(c) /\ Changed(c)
  BY DEF Own, Shaped, State, Steps, Changed
<1>2. Protected(c)
  BY <1>1 DEF Writer, Committing
<1>3. jrnl \in Journal /\ jrnl \in Left /\ jrnl.size = orig[c]
  BY <1>2 DEF Files, Left, Protected
<1>4. db \in [Page -> Content] /\ db \in Database /\ \A p \in Page : db[p] \in Datum
  BY <1>2 DEF Files, Protected, Database, Datum
<1>5. Whole(Committed) /\ Committed \in [Page -> Datum] /\ Sized(orig[c], Committed)
  BY <1>2, CommittedWhole DEF Whole, Database, Datum, Protected
<1>6. /\ \A p \in DOMAIN jrnl.kept : p \in Page /\ p <= orig[c] /\ jrnl.kept[p] = Committed[p]
      /\ \A p \in DOMAIN jrnl.more : p \in Page /\ p <= orig[c] /\ jrnl.more[p] = Committed[p]
  BY <1>2, <1>3, JournalIs DEF Protected
<1>7. PICK f : f = Over(jrnl.kept, jrnl.more)
  OBVIOUS
<1>8. f \in Images /\ DOMAIN f = Journaled(jrnl) /\ \A p \in DOMAIN f : f[p] = Committed[p]
  <2>1. f \in Images /\ \A p \in DOMAIN f : f[p] = Committed[p]
    BY <1>5, <1>6, <1>7, OverIn
  <2>2. DOMAIN f = Journaled(jrnl)
    BY <1>7, OverGives DEF Journaled
  <2>3. QED
    BY <2>1, <2>2
<1>9. \A p \in DOMAIN f : p \in Page /\ p <= orig[c]
  BY <1>6, <1>8 DEF Journaled
<1>10. /\ k \in Journal /\ k.magic = TRUE /\ k.size = orig[c] /\ k.kept = f /\ k.more = NoImage
  BY <1>3, <1>7, <1>8, MarkedIs
<1>11. orig[c] \in Nat
  BY <1>1, BoundsAssumption DEF Shaped

\* What of the file is not in the journal has not been written.
<1>12. \A p \in Page : p <= orig[c] /\ p \notin DOMAIN f => db[p] = Committed[p] /\ dbOld[p] = {}
  <2>1. CASE eState[c] = "cachemod"
    BY <1>2, <2>1 DEF Protected, Synced
  <2>2. CASE eState[c] = "dbmod"
    <3>1. Hot(jrnl) /\ safe[c] = DOMAIN jrnl.kept
      BY <1>1, <1>2, <1>3, <2>2 DEF Protected, Writer, Committing
    <3>2. Firm(dbOld, jrnl)
      BY DEF Files
    <3>3. \A p \in Page : p <= orig[c] /\ p \notin DOMAIN jrnl.kept => dbOld[p] = {}
      BY <1>3, <3>1, <3>2 DEF Firm
    <3>4. \A p \in Page : p <= orig[c] /\ p \notin safe[c] => db[p] = Committed[p]
      BY <1>2, <2>2 DEF Protected
    <3>5. QED
      BY <1>8, <3>1, <3>3, <3>4 DEF Journaled
  <2>3. QED
    BY <1>1, <2>1, <2>2 DEF Changed
<1>13. orig[c] > 0 => db[1] # Absent /\ Absent \notin dbOld[1] /\ Headed(Committed[1])
  <2>1. orig[c] > 0 => Headed(Committed[1]) /\ Committed[1] # Absent
    BY <1>5, PageOne DEF Sized, Whole, Empty
  <2>2. CASE eState[c] = "cachemod"
    <3>1. db = Committed /\ Synced(orig[c])
      BY <1>2, <2>2 DEF Protected
    <3>2. orig[c] > 0 => 1 <= orig[c]
      BY <1>11
    <3>3. QED
      BY <2>1, <3>1, <3>2, PageOne DEF Synced
  <2>3. CASE eState[c] = "dbmod"
    <3>1. Hot(jrnl)
      BY <1>2, <1>3, <2>3 DEF Protected
    <3>2. Mends(db, dbOld, jrnl)
      BY <1>3 DEF Files
    <3>3. QED
      BY <1>3, <2>1, <3>1, <3>2 DEF Mends
  <2>4. QED
    BY <1>1, <2>2, <2>3 DEF Changed
<1>14. Hot(k)
  BY <1>10, HotIs
<1>15. Mends(db, dbOld, k)
  <2>1. \A p \in DOMAIN f : f[p] \in Datum
    BY <1>5, <1>8, <1>9
  <2>2. \A p \in Page : p <= orig[c] /\ p \notin DOMAIN f => Sure(db[p], dbOld[p])
    BY <1>4, <1>12 DEF Sure
  <2>3. orig[c] > 0 => Headed(IF 1 \in DOMAIN f THEN f[1] ELSE db[1])
    <3>1. orig[c] > 0 /\ 1 \notin DOMAIN f => db[1] = Committed[1]
      BY <1>11, <1>12, PageOne
    <3>2. QED
      BY <1>8, <1>13, <3>1
  <2>4. QED
    BY <1>9, <1>10, <1>13, <1>14, <2>1, <2>2, <2>3 DEF Mends
<1>16. Recovered(db, k) = Committed
  <2>1. Recovered(db, k) = Back(db, k)
    BY <1>4, <1>10, <1>14, <1>15, HotGives
  <2>2. \A p \in Page : Back(db, k)[p] = Committed[p]
    BY <1>5, <1>8, <1>10, <1>11, <1>12, PageOne DEF Back, Sized
  <2>3. Back(db, k) = Committed
    BY <1>5, <2>2 DEF Back
  <2>4. QED
    BY <2>1, <2>3
<1>17. Firm(dbOld, k)
  BY <1>10, <1>12 DEF Firm
<1>18. QED
  BY <1>8, <1>10, <1>14, <1>15, <1>16, <1>17

LEMMA JournalHeaderOwn ==
  ASSUME Files, Maps, NEW c \in Conn, Own(c), JournalHeader(c)
  PROVE  Files' /\ Steady /\ Own(c)'
<1>1. /\ eState'[c] = eState[c] /\ pc'[c] = "jsync2" /\ cache'[c] = cache[c]
      /\ dirty'[c] = dirty[c] /\ vers'[c] = vers[c] /\ held'[c] = held[c]
      /\ orig'[c] = orig[c] /\ dbSize'[c] = dbSize[c] /\ safe'[c] = safe[c] /\ goal'[c] = goal[c]
      /\ todo'[c] = todo[c] /\ spill'[c] = spill[c] /\ view'[c] = view[c]
  BY DEF Maps, Goto, Set, pagerVars, JournalHeader
<1>2. pc[c] = "jheader"
  BY DEF JournalHeader, At
<1>3. UNCHANGED <<db, dbOld>> /\ jrnl' = Marked(jrnl) /\ jrnlOld' = Left
  BY DEF JournalHeader, WriteJournal, Marked, Left
<1>4. PICK k : k = Marked(jrnl)
  OBVIOUS
<1>5. /\ k \in Journal /\ k.magic = TRUE /\ k.size = orig[c] /\ k.more = NoImage
      /\ DOMAIN k.kept = Journaled(jrnl) /\ (\A p \in DOMAIN k.kept : k.kept[p] = Committed[p])
      /\ Hot(k) /\ Mends(db, dbOld, k) /\ Firm(dbOld, k) /\ Recovered(db, k) = Committed
  BY <1>2, <1>4, HeaderMends
<1>6. Files' /\ Steady
  <2>1. jrnlOld \subseteq Left
    BY DEF Left
  <2>2. QED
    BY <1>3, <1>4, <1>5, <2>1, JournalSteady
<1>7. Committed' = Committed /\ Logical' = Logical /\ Left' = Left \cup {k} /\ jrnl' = k
  BY <1>3, <1>4, <1>6 DEF Steady, Left, Logical
<1>8. Shaped(c) /\ Writer(c) /\ Tasks(c) /\ pc[c] \in Steps(eState[c]) /\ view[c] = Logical /\ Changed(c)
  BY <1>2 DEF Own, Shaped, State, Steps, Changed
<1>9. Shaped(c)'
  BY <1>1, <1>8 DEF Shaped
<1>10. (pc[c] \in Steps(eState[c]))' /\ (eState[c] \notin {"open", "error"} => view[c] = Logical)'
  BY <1>1, <1>7, <1>8 DEF Steps, Changed
<1>11. Waiting(c)' /\ Reading(c)' /\ Undoing(c)' /\ Recovering(c)' /\ Finishing(c)'
  BY <1>1, <1>8 DEF Waiting, Reading, Undoing, Recovering, Finishing, Changed
<1>12. Protected(c)
  BY <1>2, <1>8 DEF Writer, Committing
<1>13. Journaled(k) = Journaled(jrnl)
  BY <1>5, NoImageIs DEF Journaled
<1>14. Protected(c)'
  <2>1. jrnl # NoJournal /\ jrnl \in Left
    BY <1>12 DEF Protected, Left
  <2>2. jrnl \in Journal
    BY <2>1 DEF Files
  <2>3. DOMAIN jrnl.kept \subseteq DOMAIN k.kept
    BY <1>5 DEF Journaled
  <2>4. \A p \in Journaled(jrnl) : p <= orig[c]
    BY <1>12 DEF Protected, Journaled
  <2>5. k # NoJournal /\ DOMAIN k.more = {}
    BY <1>5, JournalAssumption, NoImageIs
  <2>6. eState[c] = "dbmod" => \A j \in Left : Hot(j) /\ j.size = orig[c] /\ safe[c] \subseteq DOMAIN j.kept
                                              /\ Firm(dbOld, j) /\ Recovered(db, j) = Committed
    BY <1>12 DEF Protected
  <2>7. eState[c] = "dbmod" => safe[c] \subseteq DOMAIN k.kept
    BY <2>1, <2>3, <2>6
  <2>8. \A p \in DOMAIN k.kept : p <= orig[c] /\ k.kept[p] = Committed[p]
    BY <1>5, <2>4
  <2>9. Sized(orig[c], Committed) /\ db \in Database /\ held[c] /\ vers[c] >= 0
        /\ (eState[c] = "cachemod" => db = Committed /\ Calm(db, dbOld) /\ Synced(orig[c]))
        /\ (eState[c] = "dbmod" => \A p \in Page : p <= orig[c] /\ p \notin safe[c] => db[p] = Committed[p])
    BY <1>12 DEF Protected
  <2>10. QED
    BY <1>1, <1>3, <1>5, <1>7, <2>5, <2>6, <2>7, <2>8, <2>9 DEF Protected, Synced
<1>15. Writer(c)'
  BY <1>1, <1>2, <1>3, <1>5, <1>7, <1>8, <1>13, <1>14 DEF Writer, Changed, Committing
<1>16. Tasks(c)'
  BY <1>1, <1>2, <1>3, <1>7, <1>8 DEF Tasks, Changed, Committing
<1>17. QED
  BY <1>6, <1>9, <1>10, <1>11, <1>15, <1>16 DEF Own

LEMMA HeaderSyncOwn ==
  ASSUME Files, Maps, NEW c \in Conn, Own(c), HeaderSync(c)
  PROVE  Files' /\ Steady /\ Own(c)'
<1>1. /\ eState'[c] = "dbmod" /\ pc'[c] = "write" /\ cache'[c] = cache[c]
      /\ dirty'[c] = dirty[c] /\ vers'[c] = vers[c] /\ held'[c] = held[c]
      /\ orig'[c] = orig[c] /\ dbSize'[c] = dbSize[c] /\ safe'[c] = DOMAIN jrnl.kept /\ goal'[c] = goal[c]
      /\ todo'[c] = todo[c] /\ spill'[c] = spill[c] /\ view'[c] = view[c]
  BY DEF Maps, Goto, Set, HeaderSync
<1>2. pc[c] = "jsync2"
  BY DEF HeaderSync, At
<1>3. UNCHANGED <<db, dbOld, jrnl>> /\ jrnlOld' = {}
  BY DEF HeaderSync, SyncJournal
<1>4. Files' /\ Steady
  <2>1. jrnl \in Left
    BY DEF Left
  <2>2. jrnl \in Journal \cup {NoJournal} /\ Mends(db, dbOld, jrnl) /\ Firm(dbOld, jrnl)
    BY <2>1 DEF Files
  <2>3. Recovered(db, jrnl) = Committed
    BY DEF Committed
  <2>4. QED
    BY <1>3, <2>2, <2>3, JournalSteady
<1>5. Committed' = Committed /\ Logical' = Logical /\ Left' = {jrnl}
  BY <1>3, <1>4 DEF Steady, Left, Logical
<1>6. Shaped(c) /\ Writer(c) /\ Tasks(c) /\ view[c] = Logical /\ Changed(c)
  BY <1>2 DEF Own, Shaped, State, Steps, Changed
<1>7. Protected(c) /\ Hot(jrnl) /\ jrnl.more = NoImage /\ jrnl \in Left /\ Firm(dbOld, jrnl)
  BY <1>2, <1>6 DEF Writer, Committing, Left, Files
<1>8. jrnl \in Journal /\ Mends(db, dbOld, jrnl) /\ db \in [Page -> Content]
  BY <1>7, HotRecord DEF Files
<1>9. Journaled(jrnl) = DOMAIN jrnl.kept /\ DOMAIN jrnl.kept \subseteq Page
  BY <1>7, <1>8, NoImageIs, JournalIs DEF Journaled
<1>10. Shaped(c)'
  BY <1>1, <1>6, <1>9 DEF Shaped, State
<1>11. (pc[c] \in Steps(eState[c]))' /\ (eState[c] \notin {"open", "error"} => view[c] = Logical)'
  BY <1>1, <1>5, <1>6 DEF Steps
<1>12. Waiting(c)' /\ Reading(c)' /\ Undoing(c)' /\ Recovering(c)' /\ Finishing(c)'
  BY <1>1 DEF Waiting, Reading, Undoing, Recovering, Finishing
<1>13. Protected(c)'
  <2>1. Recovered(db, jrnl) = Committed
    BY DEF Committed
  <2>2. Committed = Back(db, jrnl)
    BY <1>7, <1>8, <2>1, HotGives
  <2>3. jrnl.size = orig[c] /\ orig[c] \in Nat
    BY <1>6, <1>7, BoundsAssumption DEF Protected, Shaped
  <2>4. \A p \in Page : p <= orig[c] /\ p \notin DOMAIN jrnl.kept => db[p] = Committed[p]
    <3>1. \A p \in Page : p <= orig[c] => ~(p > orig[c])
      BY <2>3, PageOne
    <3>2. \A p \in Page : p <= orig[c] /\ p \notin DOMAIN jrnl.kept => Back(db, jrnl)[p] = db[p]
      BY <2>3, <3>1 DEF Back
    <3>3. QED
      BY <2>2, <3>2
  <2>5. QED
    BY <1>1, <1>3, <1>5, <1>7, <2>1, <2>3, <2>4 DEF Protected
<1>14. Writer(c)'
  BY <1>1, <1>2, <1>3, <1>5, <1>6, <1>9, <1>13 DEF Writer, Changed, Committing
<1>15. Tasks(c)'
  <2>1. todo[c] \subseteq dirty[c] /\ todo[c] # {}
    <3>1. dbSize[c] > 0 /\ dbSize[c] \in Nat
      BY <1>2, <1>6, PageOne DEF Writer, Committing, Shaped
    <3>2. 1 <= dbSize[c]
      BY <3>1
    <3>3. QED
      BY <1>2, <1>6, <3>2 DEF Tasks, Committing
  <2>2. \A p \in Page : p <= orig[c] /\ p \notin DOMAIN jrnl.kept => p \notin dirty[c]
    BY <1>2, <1>6, <1>9 DEF Writer, Committing
  <2>3. todo[c] \subseteq Page /\ orig[c] \in Nat
    BY <1>6, BoundsAssumption DEF Shaped
  <2>4. ASSUME NEW p \in todo[c], p \notin DOMAIN jrnl.kept
        PROVE  p > orig[c]
    <3>1. p \in dirty[c] /\ p \in Page
      BY <2>1, <2>3
    <3>2. ~(p <= orig[c])
      BY <2>2, <2>4, <3>1
    <3>3. QED
      BY <2>3, <3>1, <3>2, Ordered
  <2>5. \A p \in todo[c] : p > orig[c] \/ p \in DOMAIN jrnl.kept
    BY <2>4
  <2>6. QED
    BY <1>1, <1>2, <1>3, <1>5, <1>6, <2>1, <2>5 DEF Tasks, Changed, Committing
<1>16. QED
  BY <1>4, <1>10, <1>11, <1>12, <1>14, <1>15 DEF Own

-----------------------------------------------------------------------------
(* pager_write.                                                            *)

\* What recovery gives back, page by page.
LEMMA CommittedIs ==
  ASSUME Files, jrnl \in Journal, Hot(jrnl)
  PROVE  /\ Mends(db, dbOld, jrnl) /\ Sized(jrnl.size, Committed) /\ jrnl.size \in Nat
         /\ \A p \in Page : /\ p > jrnl.size => Committed[p] = Absent
                            /\ p \in DOMAIN jrnl.kept => Committed[p] = jrnl.kept[p]
                            /\ p <= jrnl.size /\ p \notin DOMAIN jrnl.kept => Committed[p] = db[p]
<1>1. jrnl \in Left
  BY DEF Left
<1>2. Mends(db, dbOld, jrnl) /\ db \in [Page -> Content]
  BY <1>1 DEF Files
<1>3. PICK s : s = Committed
  OBVIOUS
<1>4. s = Back(db, jrnl) /\ Sized(jrnl.size, s)
  BY <1>2, <1>3, HotGives DEF Committed
<1>5. jrnl.size \in Nat
  BY JournalIs
<1>6. \A p \in DOMAIN jrnl.kept : p <= jrnl.size
  BY <1>2 DEF Mends
<1>7. \A p \in Page : p <= jrnl.size => ~(p > jrnl.size)
  BY <1>5, PageOne
<1>8. \A p \in Page : /\ p > jrnl.size => s[p] = Absent
                      /\ p \in DOMAIN jrnl.kept => s[p] = jrnl.kept[p]
                      /\ p <= jrnl.size /\ p \notin DOMAIN jrnl.kept => s[p] = db[p]
  BY <1>4, <1>6, <1>7 DEF Back
<1>9. QED
  BY <1>2, <1>3, <1>4, <1>5, <1>8

\* Records that no header counts do not matter to recovery.
LEMMA SameRecords ==
  ASSUME NEW j \in Journal, NEW k \in Journal, k.magic = j.magic, k.size = j.size, k.kept = j.kept,
         NEW d, NEW o, Mends(d, o, j), Firm(o, j)
  PROVE  Mends(d, o, k) /\ Firm(o, k) /\ Recovered(d, k) = Recovered(d, j) /\ (Hot(k) <=> Hot(j))
<1>1. Hot(k) <=> Hot(j)
  BY HotIs
<1>2. Mends(d, o, k) /\ Firm(o, k)
  BY <1>1 DEF Mends, Firm
<1>3. Recovered(d, k) = Recovered(d, j)
  BY <1>1 DEF Recovered
<1>4. QED
  BY <1>1, <1>2, <1>3

\* What a write transaction knows when it is about to change pages, its journal
\* being j once it is opened.
Based(c, j) ==
  /\ j \in Journal /\ j.size = orig[c] /\ Recovered(db, j) = Committed
  /\ Mends(db, dbOld, j) /\ Firm(dbOld, j)
  /\ \A p \in DOMAIN j.kept : p <= orig[c] /\ j.kept[p] = Committed[p]
  /\ \A p \in DOMAIN j.more : p <= orig[c] /\ j.more[p] = Committed[p]
  /\ Sized(orig[c], Committed) /\ db \in Database /\ held[c]
  /\ vers[c] >= Counter(Committed[1])
  /\ orig[c] = 0 \/ vers[c] = Counter(Committed[1]) \/ 1 \in Journaled(j)
  /\ \A p \in Page : p <= orig[c] /\ p \notin Journaled(j) =>
       p \notin dirty[c] /\ db[p] = Committed[p] /\ (p <= nPage(c) => p <= Pages(Committed[1]))
  /\ \A p \in DOMAIN cache[c] \ dirty[c] : cache[c][p] = db[p]
  /\ \A p \in Page : p > dbSize[c] => p > nPage(c) \/ db[p] = Absent
  /\ eState[c] # "dbmod" => db = Committed /\ Calm(db, dbOld) /\ Synced(orig[c])
  /\ eState[c] = "dbmod" => j = jrnl /\ safe[c] = DOMAIN j.kept

LEMMA LockedBased ==
  ASSUME HotInv, Files, NEW c \in Conn, Own(c), pc[c] \in {"idle", "newdb"}, eState[c] = "locked",
         NEW j, j = Opened(c)
  PROVE  /\ Based(c, j) /\ dbSize[c] = orig[c]
         /\ 1 \in DOMAIN cache[c] => cache[c][1] = Committed[1]
         /\ 1 \notin DOMAIN cache[c] => Committed = Empty
<1>1. ~Hot(jrnl) /\ jrnl \in Left
  BY DEF HotInv, Mine, Seen, Left
<1>2. Shaped(c) /\ Reading(c)
  BY DEF Own
<1>3. db = Committed /\ Whole(db) /\ Calm(db, dbOld)
  <2>1. Mends(db, dbOld, jrnl)
    BY <1>1 DEF Files
  <2>2. QED
    BY <1>1, <2>1, CommittedWhole DEF Mends
<1>4. j = [magic |-> FALSE, size |-> orig[c], kept |-> NoImage, more |-> NoImage]
  BY DEF Opened
<1>5. j \in Journal /\ j.magic = FALSE /\ j.size = orig[c] /\ j.kept = NoImage /\ j.more = NoImage
  <2>1. orig[c] \in 0..N
    BY <1>2 DEF Shaped
  <2>2. QED
    BY <1>4, <2>1, NoImageIs DEF Journal
<1>6. ~Hot(j)
  BY <1>5, HotIs
<1>7. Mends(db, dbOld, j) /\ Firm(dbOld, j) /\ Recovered(db, j) = Committed
  BY <1>3, <1>6, Cold DEF Mends, Firm
<1>8. DOMAIN j.kept = {} /\ DOMAIN j.more = {}
  BY <1>5, NoImageIs
<1>9. /\ Sized(orig[c], Committed) /\ held[c] /\ dirty[c] = {} /\ Part(cache[c], Committed)
      /\ (1 \in DOMAIN cache[c] /\ vers[c] = Counter(Committed[1])) \/ (cache[c] = NoImage /\ Committed = Empty)
      /\ Synced(orig[c]) /\ dbSize[c] = orig[c]
  BY <1>2 DEF Reading
<1>10. vers[c] \in Nat /\ orig[c] \in Nat
  BY <1>2, BoundsAssumption DEF Shaped
<1>11. Counter(Committed[1]) \in Nat /\ (Committed = Empty => Counter(Committed[1]) = 0 /\ orig[c] = 0)
  <2>1. Counter(Committed[1]) \in Nat
    BY CommittedWhole, WholeOne, BoundsAssumption
  <2>2. Committed = Empty => Committed[1] = Absent
    BY PageOne DEF Empty
  <2>3. Committed = Empty => Counter(Committed[1]) = 0 /\ orig[c] = 0
    BY <1>9, <1>10, <2>2, ValueIs DEF Sized
  <2>4. QED
    BY <2>1, <2>3
<1>12. vers[c] >= Counter(Committed[1]) /\ (orig[c] = 0 \/ vers[c] = Counter(Committed[1]))
  BY <1>9, <1>10, <1>11
<1>13. db \in Database
  BY <1>3 DEF Whole
<1>14. \A p \in DOMAIN cache[c] : cache[c][p] = db[p]
  BY <1>3, <1>9 DEF Part
<1>15. \A p \in Page : p > dbSize[c] => db[p] = Absent
  BY <1>3, <1>9 DEF Sized
<1>16. \A p \in Page : p <= nPage(c) => p <= Pages(Committed[1])
  <2>1. 1 \in DOMAIN cache[c] => nPage(c) = Pages(Committed[1])
    BY <1>3, <1>14 DEF nPage
  <2>2. 1 \notin DOMAIN cache[c] => nPage(c) = 0
    BY DEF nPage
  <2>3. QED
    BY <2>1, <2>2, PageOne DEF Page
<1>17. Based(c, j)
  BY <1>3, <1>5, <1>7, <1>8, <1>9, <1>12, <1>13, <1>14, <1>15, <1>16 DEF Based
<1>18. QED
  BY <1>9, <1>17, NoImageIs DEF Part

LEMMA ChangedBased ==
  ASSUME Files, NEW c \in Conn, Own(c), pc[c] \in {"idle", "vacuum", "counter"}, Changed(c),
         NEW j, j = Opened(c)
  PROVE  Based(c, j) /\ j = jrnl /\ 1 \in DOMAIN cache[c] /\ Headed(cache[c][1])
<1>1. j = jrnl /\ jrnl \in Left
  BY DEF Changed, Opened, Left
<1>2. Writer(c) /\ Protected(c) /\ Shaped(c)
  BY DEF Own, Writer
<1>3. j \in Journal /\ Mends(db, dbOld, j) /\ Firm(dbOld, j) /\ Recovered(db, j) = Committed
  BY <1>1, <1>2 DEF Protected, Files, Committed
<1>4. eState[c] = "dbmod" => safe[c] = DOMAIN j.kept
  BY <1>1, <1>2 DEF Writer, Changed
<1>5. 1 \in DOMAIN cache[c] /\ Headed(cache[c][1]) /\ Beyond(dbSize[c], cache[c][1], db)
  BY <1>2 DEF Writer
<1>6. nPage(c) = Pages(cache[c][1])
  BY <1>5 DEF nPage
<1>7. \A p \in Page : p <= orig[c] /\ p \notin Journaled(j) => db[p] = Committed[p]
  BY <1>1, RestIsOld
<1>8. /\ \A p \in Page : p <= orig[c] /\ p \notin Journaled(j) =>
           p \notin dirty[c] /\ (p <= nPage(c) => p <= Pages(Committed[1]))
      /\ \A p \in DOMAIN cache[c] \ dirty[c] : cache[c][p] = db[p]
      /\ vers[c] >= Counter(Committed[1])
      /\ orig[c] = 0 \/ vers[c] = Counter(Committed[1]) \/ 1 \in Journaled(j)
  BY <1>1, <1>2, <1>6 DEF Writer
<1>9. /\ j.size = orig[c] /\ Sized(orig[c], Committed)
      /\ \A p \in DOMAIN j.kept : p <= orig[c] /\ j.kept[p] = Committed[p]
      /\ \A p \in DOMAIN j.more : p <= orig[c] /\ j.more[p] = Committed[p]
      /\ db \in Database /\ held[c]
      /\ eState[c] = "cachemod" => db = Committed /\ Calm(db, dbOld) /\ Synced(orig[c])
  BY <1>1, <1>2 DEF Protected
<1>10. eState[c] # "dbmod" => eState[c] = "cachemod"
  BY DEF Changed
<1>11. \A p \in Page : p > dbSize[c] => p > nPage(c) \/ db[p] = Absent
  BY <1>5, <1>6 DEF Beyond
<1>12. Based(c, j)
  BY <1>1, <1>3, <1>4, <1>7, <1>8, <1>9, <1>10, <1>11 DEF Based
<1>13. QED
  BY <1>1, <1>5, <1>12

\* The records that pager_journal adds.
Noted(c, j, S) ==
  [j EXCEPT !.more = Over(@, [p \in {p \in S : p <= orig[c] /\ p \notin Journaled(j)} |-> Image(c, p)])]

LEMMA NotedIs ==
  ASSUME Files, NEW c \in Conn, NEW j, Based(c, j), NEW S \in SUBSET Page, NEW k, k = Noted(c, j, S)
  PROVE  /\ k \in Journal /\ k.magic = j.magic /\ k.size = j.size /\ k.kept = j.kept
         /\ \A p \in DOMAIN k.more : p <= orig[c] /\ k.more[p] = Committed[p]
         /\ Journaled(j) \subseteq Journaled(k)
         /\ \A p \in S : p <= orig[c] => p \in Journaled(k)
<1>1. PICK g : g = [p \in {p \in S : p <= orig[c] /\ p \notin Journaled(j)} |-> Image(c, p)]
  OBVIOUS
<1>2. PICK h : h = Over(j.more, g)
  OBVIOUS
<1>3. \A p \in DOMAIN g : p \in Page /\ p <= orig[c] /\ g[p] = Committed[p]
  <2>1. ASSUME NEW p \in S, p <= orig[c], p \notin Journaled(j)
        PROVE  Image(c, p) = Committed[p]
    <3>1. p \in Page /\ p \notin dirty[c] /\ db[p] = Committed[p]
      BY <2>1 DEF Based
    <3>2. p \in DOMAIN cache[c] => cache[c][p] = db[p]
      BY <3>1 DEF Based
    <3>3. QED
      BY <3>1, <3>2 DEF Image
  <2>2. QED
    BY <1>1, <2>1
<1>4. \A p \in DOMAIN j.more : p \in Page /\ p <= orig[c] /\ j.more[p] = Committed[p]
  BY JournalIs DEF Based
<1>5. PICK s : s = Committed
  OBVIOUS
<1>6. s \in [Page -> Datum]
  BY <1>5, CommittedWhole, WholeOne
<1>7. h \in Images /\ \A p \in DOMAIN h : h[p] = s[p]
  BY <1>2, <1>3, <1>4, <1>5, <1>6, OverIn
<1>8. DOMAIN h = DOMAIN j.more \cup DOMAIN g
  BY <1>2, OverGives
<1>9. k = [j EXCEPT !.more = h]
  BY <1>1, <1>2 DEF Noted
<1>10. j \in Journal
  BY DEF Based
<1>11. k \in Journal /\ k.magic = j.magic /\ k.size = j.size /\ k.kept = j.kept /\ k.more = h
  BY <1>7, <1>9, <1>10 DEF Journal
<1>12. \A p \in S : p <= orig[c] => p \in Journaled(j) \/ p \in DOMAIN g
  BY <1>1
<1>13. QED
  BY <1>3, <1>4, <1>5, <1>7, <1>8, <1>11, <1>12 DEF Journaled

LEMMA PagesJournaled ==
  ASSUME Files, Maps, NEW c \in Conn, Own(c), NEW S \in SUBSET Page,
         NEW j, j = Opened(c), Based(c, j), pager_journal(c, S),
         eState[c] = "locked" \/ (Changed(c) /\ pc[c] \in {"idle", "vacuum", "counter"}),
         UNCHANGED <<db, dbOld, vers, held, orig>>
  PROVE  /\ Files' /\ Steady /\ Changed(c)' /\ Protected(c)' /\ safe'[c] \subseteq Page
         /\ Journaled(j) \subseteq Journaled(jrnl') /\ \A p \in S : p <= orig[c] => p \in Journaled(jrnl')
         /\ eState'[c] = "dbmod" => safe'[c] = DOMAIN jrnl'.kept
<1>1. PICK k : k = Noted(c, j, S)
  OBVIOUS
<1>2. /\ jrnl' = k
      /\ eState[c] = "locked" => jrnlOld' = jrnlOld \cup {jrnl} /\ eState'[c] = "cachemod" /\ safe'[c] = {}
      /\ eState[c] # "locked" => jrnlOld' = jrnlOld /\ eState'[c] = eState[c] /\ safe'[c] = safe[c]
  BY <1>1 DEF pager_journal, Noted, Maps, Set
<1>3. Shaped(c) /\ orig[c] \in 0..N
  BY DEF Own, Shaped
<1>4. /\ j \in Journal /\ j.size = orig[c] /\ Mends(db, dbOld, j) /\ Firm(dbOld, j) /\ Recovered(db, j) = Committed
      /\ \A q \in DOMAIN j.kept : q <= orig[c] /\ j.kept[q] = Committed[q]
  BY DEF Based
<1>5. /\ k \in Journal /\ k.magic = j.magic /\ k.size = j.size /\ k.kept = j.kept
      /\ \A p \in DOMAIN k.more : p <= orig[c] /\ k.more[p] = Committed[p]
      /\ Journaled(j) \subseteq Journaled(k)
      /\ \A p \in S : p <= orig[c] => p \in Journaled(k)
  BY <1>1, NotedIs
<1>6. Mends(db, dbOld, k) /\ Firm(dbOld, k) /\ Recovered(db, k) = Committed /\ (Hot(k) <=> Hot(j))
  BY <1>4, <1>5, SameRecords
<1>7. Files' /\ Steady
  <2>1. jrnlOld' \subseteq Left /\ jrnlOld \subseteq jrnlOld'
    BY <1>2 DEF Left
  <2>2. QED
    BY <1>2, <1>5, <1>6, <2>1, JournalSteady
<1>8. Committed' = Committed
  BY <1>7 DEF Steady
<1>9. Changed(c)' /\ eState'[c] \in {"cachemod", "dbmod"} /\ (eState'[c] = "dbmod" <=> eState[c] = "dbmod")
       /\ (eState[c] = "dbmod" => Changed(c))
  BY <1>2 DEF Changed
<1>10. eState[c] = "dbmod" => /\ safe'[c] = DOMAIN k.kept
                              /\ \A i \in jrnlOld \cup {k} :
                                   Hot(i) /\ i.size = orig[c] /\ safe[c] \subseteq DOMAIN i.kept
                                   /\ Firm(dbOld, i) /\ Recovered(db, i) = Committed
                              /\ \A q \in Page : q <= orig[c] /\ q \notin safe[c] => db[q] = Committed[q]
  <2>1. SUFFICES ASSUME eState[c] = "dbmod"
                 PROVE  /\ safe'[c] = DOMAIN k.kept
                        /\ \A i \in jrnlOld \cup {k} :
                             Hot(i) /\ i.size = orig[c] /\ safe[c] \subseteq DOMAIN i.kept
                             /\ Firm(dbOld, i) /\ Recovered(db, i) = Committed
                        /\ \A q \in Page : q <= orig[c] /\ q \notin safe[c] => db[q] = Committed[q]
    OBVIOUS
  <2>2. Protected(c) /\ j = jrnl /\ safe[c] = DOMAIN j.kept
    BY <1>9, <2>1 DEF Own, Writer, Based
  <2>3. \A i \in Left : Hot(i) /\ i.size = orig[c] /\ safe[c] \subseteq DOMAIN i.kept
                        /\ Firm(dbOld, i) /\ Recovered(db, i) = Committed
    BY <2>1, <2>2 DEF Protected
  <2>4. \A q \in Page : q <= orig[c] /\ q \notin safe[c] => db[q] = Committed[q]
    BY <2>1, <2>2 DEF Protected
  <2>5. \A i \in jrnlOld : i \in Left
    BY DEF Left
  <2>6. Hot(k)
    BY <1>6, <2>2, <2>3 DEF Left
  <2>7. QED
    BY <1>2, <1>4, <1>5, <1>6, <2>1, <2>2, <2>3, <2>4, <2>5, <2>6
<1>11. Protected(c)'
  <2>1. Left' = jrnlOld' \cup {k}
    BY <1>2 DEF Left
  <2>2. k # NoJournal
    BY <1>5, JournalAssumption
  <2>3. /\ Sized(orig[c], Committed) /\ db \in Database /\ held[c] /\ vers[c] >= 0
        /\ eState'[c] = "cachemod" => db = Committed /\ Calm(db, dbOld) /\ Synced(orig[c])
    BY <1>3, <1>9, BoundsAssumption DEF Based, Shaped
  <2>4. eState'[c] = "dbmod" =>
          /\ \A i \in Left' : Hot(i) /\ i.size = orig[c] /\ safe'[c] \subseteq DOMAIN i.kept
                              /\ Firm(dbOld, i) /\ Recovered(db, i) = Committed
          /\ \A q \in Page : q <= orig[c] /\ q \notin safe'[c] => db[q] = Committed[q]
    BY <1>2, <1>9, <1>10, <2>1
  <2>5. Synced(orig[c]) => Synced(orig[c])'
    BY DEF Synced
  <2>6. QED
    BY <1>2, <1>4, <1>5, <1>8, <2>2, <2>3, <2>4, <2>5 DEF Protected
<1>12. QED
  BY <1>2, <1>3, <1>5, <1>7, <1>9, <1>10, <1>11 DEF Shaped

\* The pages are in the cache, which is g, those of h of them dirty, and the database
\* has n pages.
LEMMA PagesWritten ==
  ASSUME Files, Maps, NEW c \in Conn, Own(c), NEW S \in SUBSET Page,
         NEW j, j = Opened(c), Based(c, j), pager_journal(c, S),
         eState[c] = "locked" \/ (Changed(c) /\ pc[c] \in {"idle", "vacuum", "counter"}),
         UNCHANGED <<db, dbOld, vers, held, orig, spill>>, pc'[c] \in {"idle", "counter", "jsync"},
         NEW g, NEW h, NEW n, cache'[c] = g, dirty'[c] = h, dbSize'[c] = n,
         Copy(g), h \subseteq DOMAIN g, h \subseteq dirty[c] \cup S,
         1 \in DOMAIN g, Headed(g[1]),
         \A p \in DOMAIN g \ h : g[p] = db[p],
         \A p \in Page : p <= Pages(g[1]) => p <= nPage(c) \/ p \in S,
         n \in 1..N, Beyond(n, g[1], db),
         pc'[c] = "idle" \/ spill[c] # 0 => \A p \in h : p <= n
  PROVE  Files' /\ Steady /\ Writer(c)' /\ Changed(c)' /\ safe'[c] \subseteq Page
<1>1. /\ Files' /\ Steady /\ Changed(c)' /\ Protected(c)' /\ safe'[c] \subseteq Page
      /\ Journaled(j) \subseteq Journaled(jrnl') /\ \A p \in S : p <= orig[c] => p \in Journaled(jrnl')
      /\ eState'[c] = "dbmod" => safe'[c] = DOMAIN jrnl'.kept
  BY PagesJournaled
<1>2. Committed' = Committed
  BY <1>1 DEF Steady
<1>3. vers[c] >= Counter(Committed[1])
      /\ (orig[c] = 0 \/ vers[c] = Counter(Committed[1]) \/ 1 \in Journaled(jrnl'))
  BY <1>1 DEF Based
<1>4. \A p \in Page : p <= orig[c] /\ p \notin Journaled(jrnl') =>
        p \notin h /\ (p <= Pages(g[1]) => p <= Pages(Committed[1]))
  <2>1. ASSUME NEW p \in Page, p <= orig[c], p \notin Journaled(jrnl')
        PROVE  p \notin h /\ (p <= Pages(g[1]) => p <= Pages(Committed[1]))
    <3>1. p \notin Journaled(j) /\ p \notin S
      BY <1>1, <2>1
    <3>2. p \notin dirty[c] /\ (p <= nPage(c) => p <= Pages(Committed[1]))
      BY <2>1, <3>1 DEF Based
    <3>3. QED
      BY <3>1, <3>2
  <2>2. QED
    BY <2>1
<1>5. n > 0
  BY PageOne
<1>6. QED
  BY <1>1, <1>2, <1>3, <1>4, <1>5 DEF Writer

\* After pages have been written, but for what is still to do.
LEMMA WrittenOwn ==
  ASSUME NEW c \in Conn, Own(c), Steady, eState[c] \notin {"open", "error"},
         Writer(c)', Changed(c)', Copy(cache'[c]), dirty'[c] \subseteq DOMAIN cache'[c],
         safe'[c] \subseteq Page, dbSize'[c] \in 0..N, UNCHANGED <<vers, held, orig, goal, spill, view>>,
         pc'[c] \in {"idle", "counter", "jsync"}, todo'[c] \subseteq Page, Tasks(c)'
  PROVE  Own(c)'
<1>1. Shaped(c) /\ view[c] = Logical
  BY DEF Own
<1>2. eState'[c] \in {"cachemod", "dbmod"}
  BY DEF Changed
<1>3. Shaped(c)'
  BY <1>1, <1>2 DEF Shaped, State
<1>4. (pc[c] \in Steps(eState[c]))' /\ (eState[c] \notin {"open", "error"} => view[c] = Logical)'
  BY <1>1, <1>2 DEF Steps, Steady, Logical
<1>5. Waiting(c)' /\ Reading(c)' /\ Undoing(c)' /\ Recovering(c)' /\ Finishing(c)'
  BY <1>2 DEF Waiting, Reading, Undoing, Recovering, Finishing
<1>6. QED
  BY <1>3, <1>4, <1>5 DEF Own

LEMMA OverCopy ==
  ASSUME NEW f, NEW g, Copy(f), Copy(g)
  PROVE  Copy(Over(f, g))
<1> DEFINE k == Over(f, g)
<1>1. k = [p \in DOMAIN k |-> k[p]]
  BY DEF Over
<1>2. /\ DOMAIN k = DOMAIN f \cup DOMAIN g
      /\ \A p \in DOMAIN f : k[p] = f[p]
      /\ \A p \in DOMAIN g \ DOMAIN f : k[p] = g[p]
  BY OverGives
<1> HIDE DEF k
<1>3. DOMAIN k \subseteq Page /\ \A p \in DOMAIN k : k[p] \in Datum
  BY <1>2 DEF Copy
<1>4. Copy(k)
  BY <1>1, <1>3 DEF Copy
<1>5. QED
  BY <1>4 DEF k

\* The pages of f are in the cache.
LEMMA PagerWrite ==
  ASSUME Maps, NEW c \in Conn, Shaped(c), NEW f, Copy(f), pager_write(c, f)
  PROVE  /\ pager_journal(c, DOMAIN f) /\ DOMAIN f \in SUBSET Page
         /\ Copy(cache'[c]) /\ DOMAIN cache'[c] = DOMAIN f \cup DOMAIN cache[c]
         /\ \A p \in DOMAIN f : cache'[c][p] = f[p]
         /\ \A p \in DOMAIN cache[c] \ DOMAIN f : cache'[c][p] = cache[c][p]
         /\ dirty'[c] = dirty[c] \cup DOMAIN f
<1>1. PICK k : k = cache[c]
  OBVIOUS
<1>2. Copy(k)
  BY <1>1 DEF Shaped
<1>3. cache'[c] = Over(f, k) /\ dirty'[c] = dirty[c] \cup DOMAIN f
  BY <1>1 DEF pager_write, Maps, Set
<1>4. Copy(Over(f, k))
  BY <1>2, OverCopy
<1>5. /\ DOMAIN Over(f, k) = DOMAIN f \cup DOMAIN k
      /\ \A p \in DOMAIN f : Over(f, k)[p] = f[p]
      /\ \A p \in DOMAIN k \ DOMAIN f : Over(f, k)[p] = k[p]
  BY OverGives
<1>6. pager_journal(c, DOMAIN f) /\ DOMAIN f \in SUBSET Page
  BY DEF pager_write, Copy
<1>7. QED
  BY <1>1, <1>3, <1>4, <1>5, <1>6

LEMMA NewDatabaseOwn ==
  ASSUME HotInv, Files, Maps, NEW c \in Conn, Own(c), NewDatabase(c)
  PROVE  Files' /\ Steady /\ Own(c)'
<1>1. PICK f : f = [p \in {1} |-> [change |-> 0, size |-> 1]]
  OBVIOUS
<1>2. pager_write(c, f) /\ dbSize'[c] = 1 /\ pc'[c] = "idle" /\ pc[c] = "newdb"
  BY <1>1 DEF NewDatabase, At, Goto, Maps, Set
<1>3. UNCHANGED <<db, dbOld, vers, held, orig, goal, todo, spill, view>>
  BY DEF NewDatabase
<1>4. eState[c] = "locked"
  BY <1>2 DEF HotInv, Mine, Placed
<1>5. PICK j : j = Opened(c)
  OBVIOUS
<1>6. Based(c, j)
  BY <1>2, <1>4, <1>5, LockedBased
<1>7. Shaped(c) /\ dirty[c] = {} /\ todo[c] = {} /\ spill[c] = 0
  BY <1>4 DEF Own, Reading
<1>8. f[1] = [change |-> 0, size |-> 1] /\ DOMAIN f = {1}
  BY <1>1
<1>9. f[1] \in Value /\ f[1].size = 1 /\ Headed(f[1]) /\ f[1] \in Datum
  BY <1>8, BoundsAssumption DEF Value, Headed, Datum
<1>10. Copy(f)
  BY <1>1, <1>8, <1>9, PageOne DEF Copy
<1>11. PICK g : g = cache'[c]
  OBVIOUS
<1>12. PICK h : h = dirty'[c]
  OBVIOUS
<1>13. /\ pager_journal(c, {1}) /\ Copy(g) /\ 1 \in DOMAIN g /\ g[1] = f[1]
       /\ h = dirty[c] \cup {1} /\ h \subseteq DOMAIN g
       /\ \A p \in Page : p \in DOMAIN g \ h => p \in DOMAIN cache[c] \ dirty[c] /\ g[p] = cache[c][p]
  <2>1. /\ pager_journal(c, DOMAIN f)
        /\ Copy(cache'[c]) /\ DOMAIN cache'[c] = DOMAIN f \cup DOMAIN cache[c]
        /\ \A p \in DOMAIN f : cache'[c][p] = f[p]
        /\ \A p \in DOMAIN cache[c] \ DOMAIN f : cache'[c][p] = cache[c][p]
        /\ dirty'[c] = dirty[c] \cup DOMAIN f
    BY <1>2, <1>7, <1>10, PagerWrite
  <2>2. dirty[c] \subseteq DOMAIN cache[c]
    BY <1>7 DEF Shaped
  <2>3. QED
    BY <1>8, <1>11, <1>12, <2>1, <2>2
<1>14. \A p \in DOMAIN g \ h : g[p] = db[p]
  BY <1>6, <1>13 DEF Based, Copy
<1>15. Pages(g[1]) = 1
  BY <1>9, <1>13, ValueIs
<1>16. 1 \in 1..N /\ 1 \in 0..N /\ Beyond(1, g[1], db) /\ \A p \in Page : p <= 1 => p = 1
  BY <1>15, BoundsAssumption DEF Beyond, Page
<1>17. Files' /\ Steady /\ Writer(c)' /\ Changed(c)' /\ safe'[c] \subseteq Page
  <2>1. {1} \in SUBSET Page /\ h \subseteq dirty[c] \cup {1} /\ \A p \in h : p <= 1
    BY <1>7, <1>13, PageOne
  <2>2. Headed(g[1]) /\ \A p \in Page : p <= Pages(g[1]) => p <= nPage(c) \/ p \in {1}
    BY <1>9, <1>13, <1>15, <1>16
  <2>3. /\ j = Opened(c) /\ Based(c, j) /\ pager_journal(c, {1}) /\ eState[c] = "locked"
        /\ UNCHANGED <<db, dbOld, vers, held, orig, spill>> /\ pc'[c] = "idle"
        /\ cache'[c] = g /\ dirty'[c] = h /\ dbSize'[c] = 1
    BY <1>2, <1>3, <1>4, <1>5, <1>6, <1>11, <1>12, <1>13
  <2>4. /\ Copy(g) /\ h \subseteq DOMAIN g /\ 1 \in DOMAIN g /\ 1 \in 1..N /\ Beyond(1, g[1], db)
        /\ \A p \in DOMAIN g \ h : g[p] = db[p]
    BY <1>13, <1>14, <1>16
  <2>5. pc'[c] \in {"idle", "counter", "jsync"} /\ (pc'[c] = "idle" \/ spill[c] # 0 => \A p \in h : p <= 1)
    BY <2>1, <2>3
  <2>6. QED
    BY <2>1, <2>2, <2>3, <2>4, <2>5, PagesWritten
<1>18. Tasks(c)'
  BY <1>2, <1>3, <1>7 DEF Tasks, Committing
<1>19. Own(c)'
  BY <1>2, <1>3, <1>4, <1>7, <1>11, <1>12, <1>13, <1>16, <1>17, <1>18, WrittenOwn DEF Shaped
<1>20. QED
  BY <1>17, <1>19

LEMMA MarkIs ==
  ASSUME NEW c \in Conn, Shaped(c), Change(c) <= MaxChange
  PROVE  /\ [change |-> Change(c), size |-> 0] \in Datum
         /\ Change(c) \in 0..MaxChange /\ Change(c) = vers[c] + 1
BY BoundsAssumption DEF Shaped, Change, Datum, Value

\* Page 1 with another size, or counter.
LEMMA HeaderIs ==
  ASSUME NEW c \in Conn, Headed(cache[c][1])
  PROVE  /\ \A n \in 1..N : /\ Headed(Resized(c, n)) /\ Resized(c, n) \in Datum /\ Pages(Resized(c, n)) = n
         /\ \A v \in 0..MaxChange :
              LET x == [cache[c][1] EXCEPT !.change = v]
              IN Headed(x) /\ x \in Datum /\ Counter(x) = v /\ Pages(x) = Pages(cache[c][1])
<1>1. cache[c][1] \in Value /\ cache[c][1].size > 0
  BY DEF Headed
<1>2. ASSUME NEW n \in 1..N
      PROVE  Headed(Resized(c, n)) /\ Resized(c, n) \in Datum /\ Pages(Resized(c, n)) = n
  <2>1. Resized(c, n) \in Value /\ Resized(c, n).size = n /\ n > 0
    BY <1>1, <1>2, BoundsAssumption DEF Resized, Value
  <2>2. QED
    BY <2>1, ValueIs DEF Headed, Datum
<1>3. ASSUME NEW v \in 0..MaxChange, NEW x, x = [cache[c][1] EXCEPT !.change = v]
      PROVE  Headed(x) /\ x \in Datum /\ Counter(x) = v /\ Pages(x) = Pages(cache[c][1])
  <2>1. x \in Value /\ x.change = v /\ x.size = cache[c][1].size
    BY <1>1, <1>3 DEF Value
  <2>2. QED
    BY <1>1, <2>1, ValueIs DEF Headed, Datum
<1>4. QED
  BY <1>2, <1>3

\* A database with pages has a header.
LEMMA CachedHeader ==
  ASSUME NEW c \in Conn, Shaped(c), nPage(c) >= 1
  PROVE  /\ 1 \in DOMAIN cache[c] /\ Headed(cache[c][1]) /\ nPage(c) = Pages(cache[c][1])
         /\ nPage(c) \in 1..N
<1>1. 1 \in DOMAIN cache[c] /\ nPage(c) = Pages(cache[c][1])
  BY DEF nPage
<1>2. cache[c][1] \in Datum
  BY <1>1 DEF Shaped, Copy
<1>3. cache[c][1] \in Value
  BY <1>1, <1>2, ValueIs DEF Datum
<1>4. cache[c][1].size = nPage(c) /\ nPage(c) \in 0..N
  BY <1>1, <1>2, <1>3, ValueIs
<1>5. QED
  BY <1>1, <1>3, <1>4, BoundsAssumption DEF Headed

LEMMA WriteOwn ==
  ASSUME HotInv, Files, Maps, NEW c \in Conn, NEW p \in Page, Own(c), Write(c, p)
  PROVE  Files' /\ Steady /\ Own(c)'
<1>1. /\ pc[c] = "idle" /\ Change(c) <= MaxChange
      /\ eState[c] \in {"locked", "cachemod", "dbmod"} /\ p > 1 /\ p <= nPage(c) + 1
  BY DEF Write, At, MayWrite
<1>2. UNCHANGED <<db, dbOld, vers, held, orig, goal, todo, spill, pc, view>>
  BY DEF Write, callVars
<1>3. PICK j : j = Opened(c)
  OBVIOUS
<1>4. Based(c, j) /\ (eState[c] = "locked" \/ Changed(c))
  BY <1>1, <1>3, LockedBased, ChangedBased DEF Changed
<1>5. Shaped(c) /\ Reading(c) /\ Writer(c) /\ Tasks(c)
  BY DEF Own
<1>6. PICK x : x = [change |-> Change(c), size |-> 0]
  OBVIOUS
<1>7. PICK m : m = nPage(c)
  OBVIOUS
<1>8. m \in 1..N /\ 1 \in DOMAIN cache[c] /\ Headed(cache[c][1]) /\ m = Pages(cache[c][1])
  <2>1. m \in Nat
    <3>1. 1 \in DOMAIN cache[c] => cache[c][1] \in Datum
      BY <1>5 DEF Shaped, Copy
    <3>2. QED
      BY <1>7, <3>1, ValueIs, BoundsAssumption DEF nPage
  <2>2. m >= 1
    BY <1>1, <1>7, <2>1, PageOne
  <2>3. QED
    BY <1>5, <1>7, <2>2, CachedHeader
<1>9. x \in Datum
  BY <1>1, <1>5, <1>6, MarkIs
<1>10. PICK f : f = IF p <= m THEN [q \in {p} |-> x]
                    ELSE [q \in {1, p} |-> IF q = 1 THEN Resized(c, p) ELSE x]
  OBVIOUS
<1>11. pager_write(c, f)
  BY <1>6, <1>7, <1>10 DEF Write
<1>12. p \in 1..N /\ Headed(Resized(c, p)) /\ Resized(c, p) \in Datum /\ Pages(Resized(c, p)) = p
  BY <1>8, HeaderIs DEF Page
<1>13. Copy(f) /\ p \in DOMAIN f /\ DOMAIN f \subseteq {1, p} /\ f = [q \in DOMAIN f |-> f[q]]
       /\ (p > m => 1 \in DOMAIN f /\ f[1] = Resized(c, p)) /\ (p <= m => 1 \notin DOMAIN f)
  <2>1. CASE p <= m
    <3>1. f = [q \in {p} |-> x]
      BY <1>10, <2>1
    <3>2. QED
      BY <1>1, <1>8, <1>9, <2>1, <3>1, PageOne DEF Copy
  <2>2. CASE ~(p <= m)
    <3>1. f = [q \in {1, p} |-> IF q = 1 THEN Resized(c, p) ELSE x]
      BY <1>10, <2>2
    <3>2. QED
      BY <1>9, <1>12, <2>2, <3>1, PageOne DEF Copy
  <2>3. QED
    BY <2>1, <2>2
<1>14. PICK g : g = cache'[c]
  OBVIOUS
<1>15. PICK h : h = dirty'[c]
  OBVIOUS
<1>16. PICK S : S = DOMAIN f
  OBVIOUS
<1>17. /\ pager_journal(c, S) /\ S \in SUBSET Page
       /\ Copy(g) /\ DOMAIN g = S \cup DOMAIN cache[c]
       /\ \A q \in S : g[q] = f[q]
       /\ \A q \in DOMAIN cache[c] \ S : g[q] = cache[c][q]
       /\ h = dirty[c] \cup S
  BY <1>5, <1>11, <1>13, <1>14, <1>15, <1>16, PagerWrite
<1>18. \A q \in DOMAIN g \ h : g[q] = db[q]
  BY <1>4, <1>17 DEF Based
<1>19. 1 \in DOMAIN g /\ Headed(g[1]) /\ Pages(g[1]) = IF p <= m THEN m ELSE p
  <2>1. CASE p <= m
    BY <1>8, <1>13, <1>16, <1>17, <2>1
  <2>2. CASE ~(p <= m)
    BY <1>8, <1>12, <1>13, <1>16, <1>17, <2>2, PageOne
  <2>3. QED
    BY <2>1, <2>2
<1>20. PICK n : n = dbSize'[c]
  OBVIOUS
<1>21. dbSize[c] \in 0..N /\ n = IF p > dbSize[c] THEN p ELSE dbSize[c]
  BY <1>5, <1>20 DEF Write, Shaped, Maps, Set
<1>22. n \in 1..N /\ n \in 0..N /\ \A q \in Page : q > n => q > dbSize[c] /\ q > p
  BY <1>12, <1>21, BoundsAssumption DEF Page
<1>23. Beyond(n, g[1], db)
  <2>1. \A q \in Page : q > dbSize[c] => q > m \/ db[q] = Absent
    BY <1>4, <1>7 DEF Based
  <2>2. QED
    BY <1>19, <1>22, <2>1 DEF Beyond
<1>24. \A q \in h : q <= n
  <2>1. \A q \in dirty[c] : q \in Page /\ q <= dbSize[c]
    <3>1. CASE eState[c] = "locked"
      BY <1>5, <3>1 DEF Reading
    <3>2. CASE Changed(c)
      BY <1>1, <1>5, <3>2 DEF Writer, Shaped, Copy
    <3>3. QED
      BY <1>4, <3>1, <3>2
  <2>2. \A q \in S : q = 1 \/ q = p
    BY <1>13, <1>16
  <2>3. \A q \in Page : q <= dbSize[c] \/ q = 1 \/ q = p => q <= n
    BY <1>12, <1>21, BoundsAssumption DEF Page
  <2>4. QED
    BY <1>17, <2>1, <2>2, <2>3
<1>25. \A q \in Page : q <= Pages(g[1]) => q <= m \/ q \in S
  <2>1. p \in S
    BY <1>13, <1>16
  <2>2. \A q \in Page : q <= p /\ p <= m + 1 => q <= m \/ q = p
    BY <1>8, PageOne
  <2>3. QED
    BY <1>1, <1>7, <1>19, <2>1, <2>2
<1>26. dirty[c] \subseteq DOMAIN cache[c]
  BY <1>5 DEF Shaped
<1>27. Files' /\ Steady /\ Writer(c)' /\ Changed(c)' /\ safe'[c] \subseteq Page
  <2>1. h \subseteq DOMAIN g /\ h \subseteq dirty[c] \cup S /\ pc'[c] = "idle"
    BY <1>1, <1>2, <1>17, <1>26
  <2>2. QED
    BY <1>1, <1>2, <1>3, <1>4, <1>7, <1>14, <1>15, <1>17, <1>18, <1>19, <1>20, <1>22, <1>23, <1>24, <1>25,
       <2>1, PagesWritten
<1>28. todo[c] = {} /\ spill[c] = 0
  BY <1>1, <1>4, <1>5 DEF Reading, Tasks
<1>29. Tasks(c)'
  BY <1>1, <1>2, <1>28 DEF Tasks, Committing
<1>30. Own(c)'
  BY <1>1, <1>2, <1>14, <1>15, <1>17, <1>20, <1>22, <1>26, <1>27, <1>28, <1>29, WrittenOwn
<1>31. QED
  BY <1>27, <1>30

\* The image of the database shrinks.
LEMMA AutoVacuumOwn ==
  ASSUME HotInv, Files, Maps, NEW c \in Conn, Own(c), AutoVacuum(c)
  PROVE  Files' /\ Steady /\ Own(c)'
<1>1. pc[c] = "vacuum" /\ pc'[c] = "counter" /\ UNCHANGED <<db, dbOld, vers, held, orig, goal, todo, spill, view>>
  BY GotoIs DEF AutoVacuum, At
<1>2. CASE UNCHANGED <<jrnl, jrnlOld, eState, cache, dirty, safe, dbSize>>
  BY <1>2, NoVacuumOwn, QuietSteady
<1>3. ASSUME NEW n \in 1..nPage(c) - 1, NEW into \in SUBSET (2..n),
             NEW from \in SUBSET {p \in DOMAIN cache[c] : p > n},
             NEW f, f = [p \in {1} \cup into |-> IF p = 1 THEN Resized(c, n)
                                                 ELSE [change |-> Change(c), size |-> 0]],
             pager_journal(c, DOMAIN f),
             cache' = Set(cache, c, [p \in (DOMAIN f \cup DOMAIN cache[c]) \ from |-> Over(f, cache[c])[p]]),
             dirty' = Set(dirty, c, (dirty[c] \cup DOMAIN f) \ from), dbSize' = Set(dbSize, c, n)
      PROVE  Files' /\ Steady /\ Own(c)'
  <2>1. Changed(c)
    BY <1>1 DEF HotInv, Mine, Placed, Changed
  <2>2. PICK j : j = Opened(c)
    OBVIOUS
  <2>3. Based(c, j) /\ 1 \in DOMAIN cache[c] /\ Headed(cache[c][1])
    BY <1>1, <2>1, <2>2, ChangedBased
  <2>4. Shaped(c) /\ Copy(cache[c]) /\ dirty[c] \subseteq DOMAIN cache[c] /\ todo[c] = {} /\ spill[c] = 0
        /\ vers[c] < MaxChange
    BY <1>1, <2>1 DEF Own, Shaped, Tasks
  <2>5. nPage(c) = Pages(cache[c][1]) /\ nPage(c) \in 1..N
    BY <2>3, HeadedIs DEF nPage
  <2>6. n \in 1..N /\ n \in 0..N /\ n < nPage(c)
    BY <2>5, BoundsAssumption
  <2>7. Headed(Resized(c, n)) /\ Resized(c, n) \in Datum /\ Pages(Resized(c, n)) = n
    BY <2>3, <2>6, HeaderIs
  <2>8. PICK x : x = [change |-> Change(c), size |-> 0]
    OBVIOUS
  <2>9. x \in Datum
    <3>1. Change(c) <= MaxChange
      BY <2>4, BoundsAssumption DEF Shaped, Change
    <3>2. QED
      BY <2>4, <2>8, <3>1, MarkIs
  <2>10. PICK S : S = DOMAIN f
    OBVIOUS
  <2>11. S = {1} \cup into /\ S \in SUBSET Page /\ \A p \in S : p <= n
    <3>1. DOMAIN f = {1} \cup into
      BY <1>3
    <3>2. n \in Nat /\ n >= 1 /\ \A p \in into : p \in Nat /\ p >= 2 /\ p <= n
      BY <1>3, <2>6, BoundsAssumption
    <3>3. \A p \in Nat : p >= 1 /\ p <= n => p \in Page
      BY <2>6, BoundsAssumption DEF Page
    <3>4. S = {1} \cup into
      BY <2>10, <3>1
    <3>5. \A p \in S : p \in Page /\ p <= n
      BY <3>2, <3>3, <3>4, PageOne
    <3>6. QED
      BY <3>4, <3>5
  <2>12. f = [p \in S |-> IF p = 1 THEN Resized(c, n) ELSE x]
    BY <1>3, <2>8, <2>11
  <2>13. Copy(f) /\ f[1] = Resized(c, n) /\ 1 \in S
    BY <2>7, <2>9, <2>11, <2>12 DEF Copy
  <2>14. PICK k : k = cache[c]
    OBVIOUS
  <2>15. PICK m : m = Over(f, k)
    OBVIOUS
  <2>16. /\ Copy(m) /\ DOMAIN m = S \cup DOMAIN k
         /\ \A p \in S : m[p] = f[p]
         /\ \A p \in DOMAIN k \ S : m[p] = k[p]
    <3>1. Copy(Over(f, k))
      BY <2>4, <2>13, <2>14, OverCopy
    <3>2. /\ DOMAIN Over(f, k) = DOMAIN f \cup DOMAIN k
          /\ \A p \in DOMAIN f : Over(f, k)[p] = f[p]
          /\ \A p \in DOMAIN k \ DOMAIN f : Over(f, k)[p] = k[p]
      BY OverGives
    <3>3. QED
      BY <2>10, <2>15, <3>1, <3>2
  <2>17. PICK D : D = (S \cup DOMAIN k) \ from
    OBVIOUS
  <2>18. PICK g : g = [p \in D |-> m[p]]
    OBVIOUS
  <2>19. PICK h : h = (dirty[c] \cup S) \ from
    OBVIOUS
  <2>20. cache'[c] = g /\ dirty'[c] = h /\ dbSize'[c] = n
    BY <1>3, <2>10, <2>14, <2>15, <2>17, <2>18, <2>19 DEF Maps, Set
  <2>21. S \cap from = {}
    <3>1. \A p \in from : p > n /\ p \in Page
      BY <2>4 DEF Copy
    <3>2. n \in Nat
      BY <2>6, PageOne
    <3>3. QED
      BY <2>11, <3>1, <3>2, Ordered
  <2>22. Copy(g) /\ DOMAIN g = D /\ h \subseteq D /\ h \subseteq dirty[c] \cup S
    BY <2>4, <2>14, <2>16, <2>17, <2>18, <2>19 DEF Copy
  <2>23. 1 \in DOMAIN g /\ g[1] = Resized(c, n)
    BY <2>13, <2>16, <2>17, <2>18, <2>21
  <2>24. \A p \in DOMAIN g \ h : g[p] = db[p]
    <3>1. \A p \in D \ h : p \in DOMAIN k \ S /\ p \notin dirty[c]
      BY <2>17, <2>19
    <3>2. \A p \in DOMAIN k \ dirty[c] : k[p] = db[p]
      BY <2>3, <2>14 DEF Based
    <3>3. QED
      BY <2>16, <2>18, <3>1, <3>2
  <2>25. Beyond(n, g[1], db) /\ \A p \in Page : p <= Pages(g[1]) => p <= nPage(c) \/ p \in S
    <3>1. Pages(g[1]) = n
      BY <2>7, <2>23
    <3>2. \A p \in Page : p <= n => p <= nPage(c)
      BY <2>5, <2>6, PageOne
    <3>3. QED
      BY <3>1, <3>2 DEF Beyond
  <2>26. pager_journal(c, S) /\ Headed(g[1])
    BY <1>3, <2>7, <2>10, <2>23
  <2>27. Files' /\ Steady /\ Writer(c)' /\ Changed(c)' /\ safe'[c] \subseteq Page
    BY <1>1, <2>1, <2>2, <2>3, <2>4, <2>6, <2>11, <2>20, <2>22, <2>23, <2>24, <2>25, <2>26, PagesWritten
  <2>28. Tasks(c)'
    BY <1>1, <2>4 DEF Tasks, Committing
  <2>29. Own(c)'
    BY <1>1, <2>1, <2>4, <2>6, <2>20, <2>22, <2>27, <2>28, WrittenOwn DEF Changed
  <2>30. QED
    BY <2>27, <2>29
<1>4. QED
  BY <1>2, <1>3 DEF AutoVacuum

LEMMA ChangeCounterOwn ==
  ASSUME HotInv, Files, Maps, NEW c \in Conn, Own(c), ChangeCounter(c)
  PROVE  Files' /\ Steady /\ Own(c)'
<1>1. PICK x : x = [cache[c][1] EXCEPT !.change = Change(c)]
  OBVIOUS
<1>2. PICK f : f = [p \in {1} |-> x]
  OBVIOUS
<1>3. /\ pager_write(c, f) /\ pc'[c] = "jsync" /\ pc[c] = "counter"
      /\ todo'[c] = {p \in dirty'[c] : p <= dbSize[c]}
  BY <1>1, <1>2 DEF ChangeCounter, At, Goto, Maps, Set
<1>4. UNCHANGED <<db, dbOld, vers, held, orig, dbSize, goal, spill, view>>
  BY DEF ChangeCounter
<1>5. Changed(c) /\ Shaped(c) /\ Writer(c) /\ Tasks(c)
  BY <1>3 DEF Own, Shaped, State, Steps, Changed
<1>6. PICK j : j = Opened(c)
  OBVIOUS
<1>7. Based(c, j) /\ 1 \in DOMAIN cache[c] /\ Headed(cache[c][1])
  BY <1>3, <1>5, <1>6, ChangedBased
<1>8. PICK v : v = Change(c)
  OBVIOUS
<1>9. Counter(Committed[1]) \in Nat
  BY CommittedWhole, WholeOne, BoundsAssumption
<1>10. v \in 0..MaxChange /\ v > Counter(Committed[1])
  <2>1. vers[c] \in Nat /\ vers[c] < MaxChange /\ vers[c] >= Counter(Committed[1]) /\ v = vers[c] + 1
    BY <1>3, <1>5, <1>7, <1>8, BoundsAssumption DEF Shaped, Tasks, Based, Change
  <2>2. QED
    BY <1>9, <2>1, BoundsAssumption
<1>11. Headed(x) /\ x \in Datum /\ Counter(x) = v /\ Pages(x) = Pages(cache[c][1])
  BY <1>1, <1>7, <1>8, <1>10, HeaderIs
<1>12. Copy(f) /\ DOMAIN f = {1} /\ f[1] = x
  BY <1>2, <1>11, PageOne DEF Copy
<1>13. PICK g : g = cache'[c]
  OBVIOUS
<1>14. PICK h : h = dirty'[c]
  OBVIOUS
<1>15. /\ pager_journal(c, {1}) /\ Copy(g) /\ DOMAIN g = {1} \cup DOMAIN cache[c] /\ g[1] = x
       /\ \A p \in DOMAIN cache[c] \ {1} : g[p] = cache[c][p]
       /\ h = dirty[c] \cup {1}
  <2>1. /\ pager_journal(c, DOMAIN f)
        /\ Copy(cache'[c]) /\ DOMAIN cache'[c] = DOMAIN f \cup DOMAIN cache[c]
        /\ \A p \in DOMAIN f : cache'[c][p] = f[p]
        /\ \A p \in DOMAIN cache[c] \ DOMAIN f : cache'[c][p] = cache[c][p]
        /\ dirty'[c] = dirty[c] \cup DOMAIN f
    BY <1>3, <1>5, <1>12, PagerWrite
  <2>2. QED
    BY <1>12, <1>13, <1>14, <2>1
<1>16. \A p \in DOMAIN g \ h : g[p] = db[p]
  BY <1>7, <1>15 DEF Based
<1>17. h \subseteq DOMAIN g /\ h \subseteq Page /\ h \subseteq dirty[c] \cup {1} /\ 1 \in h
  BY <1>5, <1>15, PageOne DEF Shaped, Copy
<1>18. PICK n : n = dbSize[c]
  OBVIOUS
<1>19. dbSize'[c] = n /\ n \in 1..N /\ n \in 0..N /\ Beyond(n, g[1], db)
  <2>1. dbSize[c] \in 0..N /\ dbSize[c] > 0 /\ Beyond(dbSize[c], cache[c][1], db)
    BY <1>3, <1>5 DEF Shaped, Writer
  <2>2. QED
    BY <1>4, <1>11, <1>15, <1>18, <2>1, BoundsAssumption DEF Beyond
<1>20. spill[c] = 0
  BY <1>3, <1>5 DEF Tasks
<1>21. Files' /\ Steady /\ Writer(c)' /\ Changed(c)' /\ safe'[c] \subseteq Page
  <2>1. {1} \in SUBSET Page /\ \A p \in Page : p <= Pages(g[1]) => p <= nPage(c) \/ p \in {1}
    BY <1>7, <1>11, <1>15, PageOne DEF nPage
  <2>2. 1 \in DOMAIN g /\ Headed(g[1])
    BY <1>11, <1>15
  <2>3. QED
    BY <1>3, <1>4, <1>5, <1>6, <1>7, <1>13, <1>14, <1>15, <1>16, <1>17, <1>19, <1>20, <2>1, <2>2, PagesWritten
<1>22. Tasks(c)'
  <2>1. 1 \in todo'[c] /\ todo'[c] = {p \in h : p <= n} /\ todo'[c] \subseteq h
    BY <1>3, <1>14, <1>17, <1>18, <1>19
  <2>2. Counter(g[1]) > Counter(Committed'[1])
    BY <1>10, <1>11, <1>15, <1>21 DEF Steady
  <2>3. \A p \in DOMAIN g \ todo'[c] : p <= n => g[p] = db[p]
    BY <1>16, <2>1
  <2>4. QED
    BY <1>3, <1>4, <1>13, <1>14, <1>17, <1>18, <1>20, <2>1, <2>2, <2>3 DEF Tasks, Committing
<1>23. Own(c)'
  BY <1>3, <1>4, <1>5, <1>13, <1>14, <1>15, <1>17, <1>19, <1>21, <1>22, WrittenOwn DEF Changed
<1>24. QED
  BY <1>21, <1>23

\* The journal is opened, and nothing written to it.
LEMMA JournalOpenedOwn ==
  ASSUME HotInv, Files, Maps, NEW c \in Conn, Own(c), PageFails(c),
         eState[c] = "locked", pager_journal(c, {}), Goto(c, "undo")
  PROVE  Files' /\ Steady /\ Own(c)'
<1>1. pc[c] \in {"idle", "newdb"} /\ pc'[c] = "undo"
  BY GotoIs DEF Own, Steps, PageFails
<1>2. UNCHANGED <<db, dbOld, cache, dirty, vers, held, orig, dbSize, goal, todo, spill, view>>
  BY DEF PageFails
<1>3. PICK j : j = Opened(c)
  OBVIOUS
<1>4. Based(c, j)
  BY <1>1, <1>3, LockedBased
<1>5. Files' /\ Steady /\ Changed(c)' /\ Protected(c)' /\ safe'[c] \subseteq Page
  BY <1>2, <1>3, <1>4, PagesJournaled
<1>6. Shaped(c) /\ Reading(c) /\ view[c] = Logical
  BY DEF Own
<1>7. eState'[c] \in {"cachemod", "dbmod"} /\ (eState'[c] # "dbmod")
  BY <1>5 DEF Changed, pager_journal, Maps, Set
<1>8. Shaped(c)'
  BY <1>2, <1>5, <1>6, <1>7 DEF Shaped, State
<1>9. (pc[c] \in Steps(eState[c]))' /\ (eState[c] \notin {"open", "error"} => view[c] = Logical)'
  BY <1>1, <1>2, <1>5, <1>6, <1>7 DEF Steps, Steady, Logical
<1>10. Undoing(c)'
  <2>1. /\ spill[c] = 0 /\ Part(cache[c], Committed) /\ Sized(orig[c], Committed)
        /\ (1 \in DOMAIN cache[c] /\ vers[c] = Counter(Committed[1])) \/ (cache[c] = NoImage /\ Committed = Empty)
    BY <1>6 DEF Reading
  <2>2. orig[c] \in Nat /\ (Committed = Empty => Committed[1] = Absent)
    BY <1>6, PageOne DEF Shaped, Empty
  <2>3. orig[c] # 0 => 1 \in DOMAIN cache[c] /\ vers[c] = Counter(Committed[1])
    BY <2>1, <2>2 DEF Sized
  <2>4. Rest(c)' = Journaled(jrnl)'
    BY <1>1 DEF Rest
  <2>5. QED
    BY <1>1, <1>2, <1>5, <1>7, <2>1, <2>3, <2>4 DEF Undoing, Part, Steady
<1>11. Waiting(c)' /\ Reading(c)' /\ Writer(c)' /\ Tasks(c)' /\ Recovering(c)' /\ Finishing(c)'
  BY <1>1, <1>7 DEF Waiting, Reading, Writer, Tasks, Recovering, Finishing, Committing
<1>12. QED
  BY <1>5, <1>8, <1>9, <1>10, <1>11 DEF Own

LEMMA PageFailsOwn ==
  ASSUME HotInv, Files, Maps, NEW c \in Conn, Own(c), PageFails(c)
  PROVE  Files' /\ Steady /\ Own(c)'
BY PageNotReadOwn, JournalOpenedOwn, QuietSteady DEF PageFails

-----------------------------------------------------------------------------
(* Pages of the file are written, or it is cut.                            *)

LEMMA LeftMends ==
  ASSUME Files, UNCHANGED <<jrnl, jrnlOld>>,
         NEW e \in [Page -> Content], NEW u \in [Page -> SUBSET Content], db' = e, dbOld' = u,
         \A j \in Left :
           /\ Hot(j)
           /\ \A p \in Page : p <= j.size /\ p \notin DOMAIN j.kept => e[p] = db[p] /\ u[p] = dbOld[p]
           /\ j.size > 0 => e[1] # Absent /\ Absent \notin u[1]
  PROVE  /\ Files' /\ Steady
         /\ \A j \in Left : Recovered(db', j) = Recovered(db, j) /\ (Firm(dbOld, j) => Firm(dbOld', j))
<1>1. db \in [Page -> Content] /\ dbOld \in [Page -> SUBSET Content]
      /\ Left \subseteq Journal \cup {NoJournal} /\ \A j \in Left : Mends(db, dbOld, j)
  BY DEF Files
<1>2. PICK d : d = db
  OBVIOUS
<1>3. PICK o : o = dbOld
  OBVIOUS
<1>4. \A j \in Left : /\ Mends(e, u, j) /\ Recovered(e, j) = Recovered(d, j)
                      /\ Gives(e, u, j) = Gives(d, o, j) /\ (Firm(o, j) => Firm(u, j))
  BY <1>1, <1>2, <1>3, StillMends
<1>5. jrnl \in Left /\ Firm(dbOld, jrnl)
  BY DEF Files, Left
<1>6. Files' /\ Steady
  BY <1>2, <1>3, <1>4, <1>5, FileSteady
<1>7. QED
  BY <1>2, <1>3, <1>4, <1>6

LEMMA PagePut ==
  ASSUME Files, UNCHANGED <<jrnl, jrnlOld>>, NEW p \in Page, NEW x \in Datum, WriteDb(p, x),
         \A j \in Left : Hot(j) /\ (p > j.size \/ p \in DOMAIN j.kept) /\ (j.size > 0 /\ p = 1 => x # Absent)
  PROVE  /\ Files' /\ Steady /\ db'[p] = x /\ \A q \in Page \ {p} : db'[q] = db[q]
         /\ db \in Database => db' \in Database
         /\ \A j \in Left : Recovered(db', j) = Recovered(db, j) /\ (Firm(dbOld, j) => Firm(dbOld', j))
<1>1. db \in [Page -> Content] /\ dbOld \in [Page -> SUBSET Content]
      /\ \A j \in Left : Mends(db, dbOld, j) /\ j \in Journal \cup {NoJournal}
  BY DEF Files
<1>2. PICK e : e = Set(db, p, x)
  OBVIOUS
<1>3. PICK u : u = [dbOld EXCEPT ![p] = @ \cup {db[p]}]
  OBVIOUS
<1>4. db' = e /\ dbOld' = u
  BY <1>2, <1>3 DEF WriteDb
<1>5. e \in [Page -> Content] /\ e[p] = x /\ \A q \in Page \ {p} : e[q] = db[q]
  BY <1>1, <1>2 DEF Set, Datum, Content
<1>6. db \in Database => e \in Database
  BY <1>2 DEF Set, Database, Datum
<1>7. /\ u \in [Page -> SUBSET Content] /\ u[p] = dbOld[p] \cup {db[p]}
      /\ \A q \in Page \ {p} : u[q] = dbOld[q]
  <2>1. db[p] \in Content
    BY <1>1
  <2>2. QED
    BY <1>1, <1>3, <2>1
<1>8. ASSUME NEW j \in Left
      PROVE  /\ Hot(j)
             /\ \A q \in Page : q <= j.size /\ q \notin DOMAIN j.kept => e[q] = db[q] /\ u[q] = dbOld[q]
             /\ j.size > 0 => e[1] # Absent /\ Absent \notin u[1]
  <2>1. Hot(j) /\ Mends(db, dbOld, j) /\ j \in Journal
    BY <1>1, HotRecord
  <2>2. j.size \in Nat
    BY <2>1, JournalIs
  <2>3. \A q \in Page : q <= j.size /\ q \notin DOMAIN j.kept => q # p
    BY <2>2, PageOne
  <2>4. j.size > 0 => db[1] # Absent /\ Absent \notin dbOld[1]
    BY <2>1 DEF Mends
  <2>5. QED
    BY <1>5, <1>7, <2>1, <2>3, <2>4, PageOne
<1>9. /\ Files' /\ Steady
      /\ \A j \in Left : Recovered(db', j) = Recovered(db, j) /\ (Firm(dbOld, j) => Firm(dbOld', j))
  BY <1>4, <1>5, <1>7, <1>8, LeftMends
<1>10. QED
  BY <1>4, <1>5, <1>6, <1>9

LEMMA CutMends ==
  ASSUME Files, UNCHANGED <<jrnl, jrnlOld>>, NEW n \in Nat, Truncate(n),
         \A j \in Left : Hot(j) /\ j.size = n
  PROVE  /\ Files' /\ Steady
         /\ \A p \in Page : (p > n => db'[p] = Absent) /\ (p <= n => db'[p] = db[p])
         /\ db \in Database => db' \in Database
         /\ \A j \in Left : Recovered(db', j) = Recovered(db, j) /\ (Firm(dbOld, j) => Firm(dbOld', j))
<1>1. db \in [Page -> Content] /\ dbOld \in [Page -> SUBSET Content]
      /\ \A j \in Left : Mends(db, dbOld, j) /\ j \in Journal \cup {NoJournal}
  BY DEF Files
<1>2. PICK e : e = [p \in Page |-> IF p > n THEN Absent ELSE db[p]]
  OBVIOUS
<1>3. PICK u : u = [p \in Page |-> IF p > n /\ db[p] # Absent THEN dbOld[p] \cup {db[p]} ELSE dbOld[p]]
  OBVIOUS
<1>4. db' = e /\ dbOld' = u
  BY <1>2, <1>3 DEF Truncate
<1>5. e \in [Page -> Content] /\ \A p \in Page : (p > n => e[p] = Absent) /\ (p <= n => e[p] = db[p])
  <2>1. \A p \in Page : p <= n => ~(p > n)
    BY PageOne
  <2>2. QED
    BY <1>1, <1>2, <2>1 DEF Content
<1>6. db \in Database => e \in Database
  BY <1>2 DEF Database
<1>7. u \in [Page -> SUBSET Content] /\ \A p \in Page : p <= n => u[p] = dbOld[p]
  <2>1. \A p \in Page : p <= n => ~(p > n)
    BY PageOne
  <2>2. \A p \in Page : db[p] \in Content /\ dbOld[p] \subseteq Content
    BY <1>1
  <2>3. QED
    BY <1>3, <2>1, <2>2
<1>8. ASSUME NEW j \in Left
      PROVE  /\ Hot(j)
             /\ \A q \in Page : q <= j.size /\ q \notin DOMAIN j.kept => e[q] = db[q] /\ u[q] = dbOld[q]
             /\ j.size > 0 => e[1] # Absent /\ Absent \notin u[1]
  <2>1. Hot(j) /\ Mends(db, dbOld, j) /\ j.size = n
    BY <1>1
  <2>2. j.size > 0 => db[1] # Absent /\ Absent \notin dbOld[1]
    BY <2>1 DEF Mends
  <2>3. n > 0 => 1 <= n
    OBVIOUS
  <2>4. QED
    BY <1>5, <1>7, <2>1, <2>2, <2>3, PageOne
<1>9. /\ Files' /\ Steady
      /\ \A j \in Left : Recovered(db', j) = Recovered(db, j) /\ (Firm(dbOld, j) => Firm(dbOld', j))
  BY <1>4, <1>5, <1>7, <1>8, LeftMends
<1>10. QED
  BY <1>4, <1>5, <1>6, <1>9

\* The journal of a transaction that has begun to write the file.
LEMMA DbmodLeft ==
  ASSUME Files, NEW c \in Conn, Protected(c), eState[c] = "dbmod"
  PROVE  /\ \A j \in Left : Hot(j) /\ j.size = orig[c] /\ safe[c] \subseteq DOMAIN j.kept
                            /\ Firm(dbOld, j) /\ Recovered(db, j) = Committed
         /\ Hot(jrnl) /\ jrnl \in Left /\ jrnl \in Journal
<1>1. \A j \in Left : Hot(j) /\ j.size = orig[c] /\ safe[c] \subseteq DOMAIN j.kept
                      /\ Firm(dbOld, j) /\ Recovered(db, j) = Committed
  BY DEF Protected
<1>2. jrnl \in Left
  BY DEF Left
<1>3. jrnl \in Journal
  BY <1>2 DEF Files, Protected
<1>4. QED
  BY <1>1, <1>2, <1>3

LEMMA StillProtected ==
  ASSUME NEW c \in Conn, Protected(c), eState[c] = "dbmod", Steady, db' \in Database,
         UNCHANGED <<jrnl, jrnlOld>>, held'[c] = held[c], orig'[c] = orig[c], safe'[c] = safe[c],
         eState'[c] = eState[c], vers'[c] \in Nat,
         \A j \in Left : Recovered(db', j) = Recovered(db, j) /\ (Firm(dbOld, j) => Firm(dbOld', j)),
         \A p \in Page : p <= orig[c] /\ p \notin safe[c] => db'[p] = db[p]
  PROVE  Protected(c)'
<1>1. Left' = Left /\ Committed' = Committed
  BY DEF Left, Steady
<1>2. PICK e : e = db'
  OBVIOUS
<1>3. PICK v : v = vers'[c]
  OBVIOUS
<1>4. PICK u : u = dbOld'
  OBVIOUS
<1>5. /\ jrnl # NoJournal /\ jrnl.size = orig[c] /\ Sized(orig[c], Committed)
      /\ \A p \in DOMAIN jrnl.kept : p <= orig[c] /\ jrnl.kept[p] = Committed[p]
      /\ \A p \in DOMAIN jrnl.more : p <= orig[c] /\ jrnl.more[p] = Committed[p]
      /\ held[c]
      /\ \A j \in Left : Hot(j) /\ j.size = orig[c] /\ safe[c] \subseteq DOMAIN j.kept
                         /\ Firm(dbOld, j) /\ Recovered(db, j) = Committed
      /\ \A p \in Page : p <= orig[c] /\ p \notin safe[c] => db[p] = Committed[p]
  BY DEF Protected
<1>6. \A j \in Left : Recovered(e, j) = Committed /\ Firm(u, j)
  BY <1>2, <1>4, <1>5
<1>7. /\ e \in Database /\ v >= 0
      /\ \A p \in Page : p <= orig[c] /\ p \notin safe[c] => e[p] = Committed[p]
  BY <1>2, <1>3, <1>5
<1>8. QED
  BY <1>1, <1>2, <1>3, <1>4, <1>5, <1>6, <1>7 DEF Protected

LEMMA WritePageOwn ==
  ASSUME HotInv, Files, Maps, NEW c \in Conn, Own(c), WritePage(c)
  PROVE  Files' /\ Steady /\ Own(c)'
<1>1. pc[c] = "write" /\ todo[c] # {}
  BY DEF WritePage, At
<1>2. Shaped(c) /\ Writer(c) /\ Tasks(c) /\ view[c] = Logical /\ eState[c] = "dbmod"
  BY <1>1 DEF Own, HotInv, Mine, Placed
<1>3. Changed(c) /\ Protected(c) /\ 1 \in DOMAIN cache[c] /\ Headed(cache[c][1])
  BY <1>1, <1>2 DEF Changed, Writer, Committing
<1>4. todo[c] \subseteq Page /\ todo[c] \subseteq dirty[c] /\ dirty[c] \subseteq DOMAIN cache[c]
  BY <1>1, <1>2, <1>3 DEF Shaped, Tasks, Committing
<1>5. \E q \in todo[c] : \A r \in todo[c] : q <= r
  BY <1>1, <1>4, PageOne, Smallest
<1>6. PICK p : p = CHOOSE q \in todo[c] : \A r \in todo[c] : q <= r
  OBVIOUS
<1>7. p \in todo[c] /\ p \in Page /\ p \in dirty[c] /\ p \in DOMAIN cache[c]
  BY <1>4, <1>5, <1>6
<1>8. /\ WriteDb(p, cache[c][p]) /\ todo'[c] = todo[c] \ {p}
      /\ p = 1 => vers'[c] = Counter(cache[c][1])
      /\ p # 1 => vers'[c] = vers[c]
      /\ spill[c] = p => /\ dirty'[c] = dirty[c] \ {p} /\ spill'[c] = 0 /\ pc'[c] = "idle"
                         /\ cache'[c] = [q \in DOMAIN cache[c] \ {p} |-> cache[c][q]]
      /\ spill[c] # p => /\ dirty'[c] = dirty[c] /\ spill'[c] = spill[c] /\ cache'[c] = cache[c]
                         /\ pc'[c] = IF todo[c] = {p} THEN "sync" ELSE "write"
  BY <1>6 DEF WritePage, Maps, Set, Goto
<1>9. UNCHANGED <<jrnl, jrnlOld>> /\ eState'[c] = eState[c] /\ held'[c] = held[c] /\ orig'[c] = orig[c]
      /\ dbSize'[c] = dbSize[c] /\ safe'[c] = safe[c] /\ goal'[c] = goal[c] /\ view'[c] = view[c]
  BY DEF WritePage
<1>10. PICK x : x = cache[c][p]
  OBVIOUS
<1>11. spill[c] # 0 => todo[c] = {spill[c]} /\ spill[c] # 1 /\ spill[c] \in Page
  BY <1>1, <1>2, <1>3, <1>4 DEF Tasks, Committing
<1>12. spill[c] = 0 => /\ 1 \in dirty[c] /\ Counter(cache[c][1]) > Counter(Committed[1])
                       /\ 1 \notin todo[c] => vers[c] = Counter(cache[c][1])
                       /\ \A q \in todo[c] : q <= dbSize[c]
                       /\ \A q \in DOMAIN cache[c] \ todo[c] : q <= dbSize[c] => cache[c][q] = db[q]
  BY <1>1, <1>2, <1>3 DEF Tasks, Committing
<1>13. p \in Nat /\ p # 0 /\ orig[c] \in Nat /\ dbSize[c] \in Nat
  BY <1>2, <1>7, PageOne, BoundsAssumption DEF Shaped
<1>14. /\ spill[c] = p => p # 1 /\ todo[c] = {p}
       /\ spill[c] # p => spill[c] = 0
  BY <1>7, <1>11, <1>13
<1>15. x \in Datum /\ (p = 1 => x # Absent) /\ p <= dbSize[c]
  <2>1. x \in Datum
    BY <1>2, <1>7, <1>10 DEF Shaped, Copy
  <2>2. p = 1 => x # Absent
    BY <1>3, <1>10, HeadedIs
  <2>3. spill[c] # 0 => \A q \in dirty[c] : q <= dbSize[c]
    BY <1>1, <1>2, <1>3 DEF Writer, Committing
  <2>4. QED
    BY <1>7, <1>12, <2>1, <2>2, <2>3
<1>16. p > orig[c] \/ p \in safe[c]
  BY <1>1, <1>2, <1>3, <1>7 DEF Tasks, Committing
<1>17. \A j \in Left : Hot(j) /\ j.size = orig[c] /\ safe[c] \subseteq DOMAIN j.kept
  BY <1>2, <1>3, DbmodLeft
<1>18. /\ Files' /\ Steady /\ db'[p] = x /\ \A q \in Page \ {p} : db'[q] = db[q]
       /\ db \in Database => db' \in Database
       /\ \A j \in Left : Recovered(db', j) = Recovered(db, j) /\ (Firm(dbOld, j) => Firm(dbOld', j))
  <2>1. WriteDb(p, x)
    BY <1>8, <1>10
  <2>2. \A j \in Left : Hot(j) /\ (p > j.size \/ p \in DOMAIN j.kept) /\ (j.size > 0 /\ p = 1 => x # Absent)
    BY <1>15, <1>16, <1>17
  <2>3. QED
    BY <1>7, <1>9, <1>15, <2>1, <2>2, PagePut
<1>19. Committed' = Committed /\ Logical' = Logical
  BY <1>18 DEF Steady, Logical
<1>20. PICK e : e = db'
  OBVIOUS
<1>21. e[p] = x /\ \A q \in Page \ {p} : e[q] = db[q]
  BY <1>18, <1>20
<1>22. vers'[c] \in 0..MaxChange /\ vers'[c] >= Counter(Committed[1])
  <2>1. vers[c] >= Counter(Committed[1]) /\ vers[c] \in 0..MaxChange
    BY <1>1, <1>2, <1>3 DEF Writer, Shaped, Committing
  <2>2. CASE p # 1
    BY <1>8, <2>1, <2>2
  <2>3. CASE p = 1
    <3>1. vers'[c] = Counter(cache[c][1]) /\ spill[c] = 0
      BY <1>8, <1>14, <2>3
    <3>2. Counter(cache[c][1]) \in 0..MaxChange /\ Counter(cache[c][1]) > Counter(Committed[1])
      BY <1>3, <1>12, <3>1, HeadedIs
    <3>3. Counter(Committed[1]) \in Nat
      BY CommittedWhole, WholeOne, BoundsAssumption
    <3>4. QED
      BY <3>1, <3>2, <3>3, BoundsAssumption
  <2>4. QED
    BY <2>2, <2>3
<1>23. Protected(c)'
  <2>1. \A q \in Page : q <= orig[c] /\ q \notin safe[c] => db'[q] = db[q]
    BY <1>13, <1>16, <1>18, PageOne
  <2>2. vers'[c] \in Nat
    BY <1>22, BoundsAssumption
  <2>3. db' \in Database
    BY <1>3, <1>18 DEF Protected
  <2>4. QED
    BY <1>2, <1>3, <1>9, <1>18, <2>1, <2>2, <2>3, StillProtected
<1>24. PICK m : m = cache'[c]
  OBVIOUS
<1>25. PICK y : y = dirty'[c]
  OBVIOUS
<1>26. /\ spill[c] = p => y = dirty[c] \ {p} /\ m = [q \in DOMAIN cache[c] \ {p} |-> cache[c][q]]
       /\ spill[c] # p => y = dirty[c] /\ m = cache[c]
  BY <1>8, <1>24, <1>25
<1>27. /\ Copy(m) /\ DOMAIN m \subseteq DOMAIN cache[c] /\ 1 \in DOMAIN m
       /\ \A q \in DOMAIN m : m[q] = cache[c][q]
       /\ y \subseteq DOMAIN m /\ y \subseteq dirty[c]
       /\ DOMAIN m \ y = DOMAIN cache[c] \ dirty[c]
  <2>1. CASE spill[c] = p
    <3>1. /\ DOMAIN m = DOMAIN cache[c] \ {p} /\ y = dirty[c] \ {p}
          /\ \A q \in DOMAIN m : m[q] = cache[c][q]
          /\ m = [q \in DOMAIN m |-> m[q]]
      BY <1>26, <2>1
    <3>2. \A q \in DOMAIN cache[c] : q \in Page /\ cache[c][q] \in Datum
      BY <1>2 DEF Shaped, Copy
    <3>3. Copy(m)
      BY <3>1, <3>2 DEF Copy
    <3>4. QED
      BY <1>3, <1>4, <1>7, <1>14, <2>1, <3>1, <3>3
  <2>2. CASE spill[c] # p
    BY <1>2, <1>3, <1>4, <1>26, <2>2 DEF Shaped
  <2>3. QED
    BY <2>1, <2>2
<1>28. Shaped(c)'
  <2>1. spill'[c] \in 0..N /\ todo'[c] \subseteq Page
    BY <1>2, <1>4, <1>8, BoundsAssumption DEF Shaped
  <2>2. QED
    BY <1>2, <1>9, <1>22, <1>24, <1>25, <1>27, <2>1 DEF Shaped
<1>29. pc'[c] \in {"idle", "sync", "write"}
  BY <1>8
<1>30. (pc[c] \in Steps(eState[c]))' /\ (eState[c] \notin {"open", "error"} => view[c] = Logical)'
  BY <1>2, <1>9, <1>19, <1>29 DEF Steps
<1>31. Waiting(c)' /\ Reading(c)' /\ Undoing(c)' /\ Recovering(c)' /\ Finishing(c)'
  BY <1>2, <1>9, <1>29 DEF Waiting, Reading, Undoing, Recovering, Finishing
<1>32. Writer(c)'
  <2>1. orig[c] = 0 \/ vers'[c] = Counter(Committed[1]) \/ 1 \in Journaled(jrnl)
    <3>1. CASE p # 1
      BY <1>1, <1>2, <1>3, <1>8, <3>1 DEF Writer, Committing
    <3>2. CASE p = 1
      <4>1. 1 <= orig[c] => 1 \in Journaled(jrnl)
        BY <1>1, <1>2, <1>3, <1>7, <3>2 DEF Writer, Committing
      <4>2. QED
        BY <1>13, <4>1
    <3>3. QED
      BY <3>1, <3>2
  <2>2. m[1] = cache[c][1]
    BY <1>27
  <2>3. \A q \in Page : q <= orig[c] /\ q \notin Journaled(jrnl) =>
          q \notin y /\ (q <= Pages(m[1]) => q <= Pages(Committed[1]))
    BY <1>1, <1>2, <1>3, <1>27, <2>2 DEF Writer, Committing
  <2>4. \A q \in DOMAIN m \ y : m[q] = e[q]
    <3>1. \A q \in DOMAIN cache[c] \ dirty[c] : cache[c][q] = db[q]
      BY <1>1, <1>2, <1>3 DEF Writer, Committing
    <3>2. \A q \in DOMAIN m \ y : q # p /\ q \in Page /\ q \in DOMAIN cache[c] \ dirty[c]
      BY <1>2, <1>7, <1>27 DEF Shaped, Copy
    <3>3. QED
      BY <1>21, <1>27, <3>1, <3>2
  <2>5. safe[c] = DOMAIN jrnl.kept /\ dbSize[c] > 0 /\ Beyond(dbSize[c], cache[c][1], db)
    BY <1>1, <1>2, <1>3 DEF Writer, Committing
  <2>6. Beyond(dbSize[c], m[1], e)
    BY <1>13, <1>15, <1>21, <2>2, <2>5, Ordered DEF Beyond
  <2>7. spill[c] # 0 => \A q \in y : q <= dbSize[c]
    BY <1>1, <1>2, <1>3, <1>27 DEF Writer, Committing
  <2>8. pc'[c] = "idle" \/ spill'[c] # 0 => spill[c] # 0
    BY <1>8, <1>13, <1>14
  <2>9. QED
    BY <1>3, <1>9, <1>19, <1>20, <1>22, <1>23, <1>24, <1>25, <1>27, <1>29,
       <2>1, <2>2, <2>3, <2>4, <2>5, <2>6, <2>7, <2>8 DEF Writer
<1>33. Tasks(c)'
  <2>1. CASE spill[c] = p
    <3>1. todo'[c] = {} /\ spill'[c] = 0 /\ pc'[c] = "idle"
      BY <1>8, <1>14, <2>1
    <3>2. QED
      BY <3>1 DEF Tasks, Committing
  <2>2. CASE spill[c] # p
    <3>1. spill[c] = 0 /\ spill'[c] = 0 /\ y = dirty[c] /\ m = cache[c]
      BY <1>8, <1>14, <1>26, <2>2
    <3>2. PICK z : z = todo[c] \ {p}
      OBVIOUS
    <3>3. todo'[c] = z /\ z \subseteq y /\ 1 \in y /\ Counter(m[1]) > Counter(Committed[1])
          /\ \A q \in z : q <= dbSize[c]
      BY <1>4, <1>8, <1>12, <3>1, <3>2
    <3>4. 1 \notin z => vers'[c] = Counter(m[1])
      BY <1>8, <1>12, <3>1, <3>2
    <3>5. \A q \in DOMAIN m \ z : q <= dbSize[c] => m[q] = e[q]
      <4>1. ASSUME NEW q \in DOMAIN m \ z, q <= dbSize[c]
            PROVE  m[q] = e[q]
        <5>1. q \in Page
          BY <1>27 DEF Copy
        <5>2. CASE q = p
          BY <1>10, <1>21, <3>1, <5>2
        <5>3. CASE q # p
          BY <1>12, <1>21, <3>1, <3>2, <4>1, <5>1, <5>3
        <5>4. QED
          BY <5>2, <5>3
      <4>2. QED
        BY <4>1
    <3>6. pc'[c] = IF z = {} THEN "sync" ELSE "write"
      BY <1>7, <1>8, <2>2, <3>2
    <3>7. \A q \in z : q > orig[c] \/ q \in safe[c]
      BY <1>1, <1>2, <1>3, <3>2 DEF Tasks, Committing
    <3>8. QED
      BY <1>9, <1>19, <1>20, <1>24, <1>25, <3>1, <3>3, <3>4, <3>5, <3>6, <3>7 DEF Tasks, Committing
  <2>3. QED
    BY <2>1, <2>2
<1>34. QED
  BY <1>18, <1>28, <1>30, <1>31, <1>32, <1>33 DEF Own

LEMMA DbSyncOwn ==
  ASSUME HotInv, Files, Maps, NEW c \in Conn, Own(c), DbSync(c)
  PROVE  Files' /\ Steady /\ Own(c)'
<1>1. /\ eState'[c] = "finished" /\ pc'[c] = "delete" /\ cache'[c] = cache[c]
      /\ dirty'[c] = dirty[c] /\ vers'[c] = vers[c] /\ held'[c] = held[c]
      /\ orig'[c] = orig[c] /\ dbSize'[c] = dbSize[c] /\ safe'[c] = safe[c] /\ goal'[c] = goal[c]
      /\ todo'[c] = todo[c] /\ spill'[c] = spill[c] /\ view'[c] = view[c]
  BY DEF Maps, Goto, Set, DbSync
<1>2. pc[c] = "sync"
  BY DEF DbSync, At
<1>3. UNCHANGED <<db, jrnl, jrnlOld>> /\ SyncDb
  BY DEF DbSync, SyncDb
<1>4. Shaped(c) /\ Writer(c) /\ Tasks(c) /\ view[c] = Logical /\ eState[c] = "dbmod"
  BY <1>2 DEF Own, HotInv, Mine, Placed
<1>5. Changed(c) /\ Protected(c) /\ 1 \in DOMAIN cache[c] /\ Headed(cache[c][1])
      /\ dbSize[c] > 0 /\ Beyond(dbSize[c], cache[c][1], db)
  BY <1>2, <1>4 DEF Writer, Committing, Changed
<1>6. Files' /\ Steady /\ Settled(dbOld')
  BY <1>3, <1>4, <1>5, DbmodLeft, SyncSteady
<1>7. Committed' = Committed /\ Left' = Left /\ Logical' = Logical
  BY <1>3, <1>6 DEF Steady, Left, Logical
<1>8. todo[c] = {} /\ spill[c] = 0
  BY <1>2, <1>4, <1>5 DEF Tasks, Committing
<1>9. /\ 1 \in dirty[c] /\ Counter(cache[c][1]) > Counter(Committed[1])
      /\ vers[c] = Counter(cache[c][1])
      /\ \A p \in DOMAIN cache[c] : p <= dbSize[c] => cache[c][p] = db[p]
  BY <1>2, <1>4, <1>5, <1>8 DEF Tasks, Committing
<1>10. db[1] = cache[c][1]
  <2>1. dbSize[c] \in Nat
    BY <1>4, BoundsAssumption DEF Shaped
  <2>2. 1 <= dbSize[c]
    BY <1>5, <2>1
  <2>3. QED
    BY <1>5, <1>9, <2>2
<1>11. Whole(db) /\ db # Empty
  <2>1. Whole(db)
    BY <1>5, <1>10 DEF Protected, Whole
  <2>2. QED
    BY <1>5, <1>10, <2>1, WholeOne
<1>12. Shaped(c)'
  BY <1>1, <1>4 DEF Shaped, State
<1>13. (pc[c] \in Steps(eState[c]))' /\ (eState[c] \notin {"open", "error"} => view[c] = Logical)'
  BY <1>1, <1>4, <1>7 DEF Steps
<1>14. Waiting(c)' /\ Reading(c)' /\ Writer(c)' /\ Tasks(c)' /\ Undoing(c)' /\ Recovering(c)'
  BY <1>1 DEF Waiting, Reading, Writer, Tasks, Undoing, Recovering, Changed
<1>15. Finishing(c)'
  <2>1. held[c] /\ \A j \in Left : Recovered(db, j) = Committed
    BY <1>4, <1>5 DEF Protected
  <2>2. QED
    BY <1>1, <1>3, <1>5, <1>6, <1>7, <1>8, <1>9, <1>10, <1>11, <2>1 DEF Finishing
<1>16. QED
  BY <1>6, <1>12, <1>13, <1>14, <1>15 DEF Own

-----------------------------------------------------------------------------
(* A rollback.                                                             *)

LEMMA UndoOwn ==
  ASSUME HotInv, Files, Maps, NEW c \in Conn, Own(c), Undo(c)
  PROVE  Files' /\ Steady /\ Own(c)'
<1>1. /\ pc[c] = "undo" /\ pc'[c] = "restore" /\ todo'[c] = Journaled(jrnl)
      /\ eState[c] = "dbmod" => Truncate(orig[c])
      /\ eState[c] # "dbmod" => UNCHANGED <<db, dbOld>>
  BY DEF Undo, At, Maps, Goto, Set
<1>2. /\ UNCHANGED <<jrnl, jrnlOld>> /\ eState'[c] = eState[c] /\ cache'[c] = cache[c] /\ dirty'[c] = dirty[c]
      /\ vers'[c] = vers[c] /\ held'[c] = held[c] /\ orig'[c] = orig[c] /\ dbSize'[c] = dbSize[c]
      /\ safe'[c] = safe[c] /\ goal'[c] = goal[c] /\ spill'[c] = spill[c] /\ view'[c] = view[c]
  BY DEF Undo, pagerVars
<1>3. Changed(c) /\ Shaped(c) /\ Undoing(c) /\ view[c] = Logical
  <2>1. Changed(c)
    BY <1>1 DEF Own, Shaped, State, Steps, Changed
  <2>2. QED
    BY <2>1 DEF Own, Changed
<1>4. /\ Protected(c) /\ spill[c] = 0
      /\ \A p \in DOMAIN cache[c] : p <= orig[c] /\ p \notin Journaled(jrnl) => cache[c][p] = Committed[p]
      /\ orig[c] # 0 => 1 \in DOMAIN cache[c] /\ (vers[c] = Counter(Committed[1]) \/ 1 \in Journaled(jrnl))
  BY <1>1, <1>3 DEF Undoing, Rest
<1>5. orig[c] \in Nat /\ vers[c] \in Nat
  BY <1>3, BoundsAssumption DEF Shaped
<1>6. Journaled(jrnl) \subseteq Page
  <2>1. jrnl \in Left /\ jrnl # NoJournal
    BY <1>4 DEF Left, Protected
  <2>2. jrnl \in Journal
    BY <2>1 DEF Files
  <2>3. QED
    BY <2>2, JournalIs DEF Journaled
<1>7. /\ Files' /\ Steady /\ db' \in Database
      /\ eState[c] = "dbmod" => \A p \in Page : (p > orig[c] => db'[p] = Absent) /\ (p <= orig[c] => db'[p] = db[p])
      /\ eState[c] = "dbmod" =>
           \A j \in Left : Recovered(db', j) = Recovered(db, j) /\ (Firm(dbOld, j) => Firm(dbOld', j))
  <2>1. CASE eState[c] # "dbmod"
    <3>1. UNCHANGED fileVars
      BY <1>1, <1>2, <2>1 DEF fileVars
    <3>2. db' = db
      BY <1>1, <2>1
    <3>3. QED
      BY <1>4, <2>1, <3>1, <3>2, QuietSteady DEF Protected
  <2>2. CASE eState[c] = "dbmod"
    <3>1. \A j \in Left : Hot(j) /\ j.size = orig[c]
      BY <1>4, <2>2, DbmodLeft
    <3>2. Truncate(orig[c]) /\ db \in Database
      BY <1>1, <1>4, <2>2 DEF Protected
    <3>3. QED
      BY <1>2, <1>5, <3>1, <3>2, CutMends
  <2>3. QED
    BY <2>1, <2>2
<1>8. Committed' = Committed /\ Left' = Left /\ Logical' = Logical
  BY <1>2, <1>7 DEF Steady, Left, Logical
<1>9. Protected(c)'
  <2>1. CASE eState[c] = "cachemod"
    BY <1>1, <1>2, <1>4, <1>8, <2>1 DEF Protected, Synced
  <2>2. CASE eState[c] = "dbmod"
    <3>1. \A p \in Page : p <= orig[c] /\ p \notin safe[c] => db'[p] = db[p]
      BY <1>7, <2>2
    <3>2. vers'[c] \in Nat
      BY <1>2, <1>5
    <3>3. QED
      BY <1>2, <1>4, <1>7, <2>2, <3>1, <3>2, StillProtected
  <2>3. QED
    BY <1>3, <2>1, <2>2 DEF Changed
<1>10. Shaped(c)'
  BY <1>1, <1>2, <1>3, <1>6 DEF Shaped
<1>11. (pc[c] \in Steps(eState[c]))' /\ (eState[c] \notin {"open", "error"} => view[c] = Logical)'
  BY <1>1, <1>2, <1>3, <1>8 DEF Steps, Changed
<1>12. Waiting(c)' /\ Reading(c)' /\ Writer(c)' /\ Tasks(c)' /\ Recovering(c)' /\ Finishing(c)'
  BY <1>1, <1>2, <1>3 DEF Waiting, Reading, Writer, Tasks, Recovering, Finishing, Changed, Committing
<1>13. PICK e : e = db'
  OBVIOUS
<1>14. eState[c] = "dbmod" => \A p \in Page \ Journaled(jrnl) : e[p] = Committed[p]
  <2>1. SUFFICES ASSUME eState[c] = "dbmod", NEW p \in Page \ Journaled(jrnl)
                 PROVE  e[p] = Committed[p]
    OBVIOUS
  <2>2. CASE p <= orig[c]
    <3>1. safe[c] \subseteq DOMAIN jrnl.kept
      BY <1>4, <2>1, DbmodLeft
    <3>2. db[p] = Committed[p]
      BY <1>4, <2>1, <2>2, <3>1 DEF Protected, Journaled
    <3>3. QED
      BY <1>7, <1>13, <2>1, <2>2, <3>2
  <2>3. CASE p > orig[c]
    BY <1>4, <1>7, <1>13, <2>1, <2>3 DEF Protected, Sized
  <2>4. QED
    BY <1>5, <2>2, <2>3, Ordered
<1>15. PICK t : t = Journaled(jrnl)
  OBVIOUS
<1>16. todo'[c] = t /\ \A p \in DOMAIN cache[c] : p <= orig[c] /\ p \notin t => cache[c][p] = Committed[p]
  BY <1>1, <1>4, <1>15
<1>17. Undoing(c)'
  BY <1>1, <1>2, <1>4, <1>8, <1>9, <1>13, <1>14, <1>15, <1>16 DEF Undoing, Rest
<1>18. QED
  BY <1>7, <1>10, <1>11, <1>12, <1>17 DEF Own

\* The record of p gives back what the transaction has read.
LEMMA RecordGives ==
  ASSUME NEW c \in Conn, Files, Protected(c), NEW p \in Journaled(jrnl)
  PROVE  p \in Page /\ p <= orig[c] /\ Over(jrnl.kept, jrnl.more)[p] = Committed[p]
         /\ Committed[p] \in Datum
<1>1. jrnl \in Journal /\ p \in Page
  <2>1. jrnl \in Left /\ jrnl # NoJournal
    BY DEF Left, Protected
  <2>2. jrnl \in Journal
    BY <2>1 DEF Files
  <2>3. DOMAIN jrnl.kept \subseteq Page /\ DOMAIN jrnl.more \subseteq Page
    BY <2>2, JournalIs
  <2>4. QED
    BY <2>2, <2>3 DEF Journaled
<1>2. p <= orig[c] /\ Over(jrnl.kept, jrnl.more)[p] = Committed[p]
  <2>1. /\ \A q \in DOMAIN jrnl.kept : q <= orig[c] /\ jrnl.kept[q] = Committed[q]
        /\ \A q \in DOMAIN jrnl.more : q <= orig[c] /\ jrnl.more[q] = Committed[q]
    BY DEF Protected
  <2>2. p \in DOMAIN jrnl.kept \/ p \in DOMAIN jrnl.more \ DOMAIN jrnl.kept
    BY DEF Journaled
  <2>3. /\ \A q \in DOMAIN jrnl.kept : Over(jrnl.kept, jrnl.more)[q] = jrnl.kept[q]
        /\ \A q \in DOMAIN jrnl.more \ DOMAIN jrnl.kept : Over(jrnl.kept, jrnl.more)[q] = jrnl.more[q]
    BY OverGives, Zenon
  <2>4. QED
    BY <2>1, <2>2, <2>3
<1>3. Committed[p] \in Datum
  BY <1>1, CommittedWhole, WholeSized
<1>4. QED
  BY <1>1, <1>2, <1>3

LEMMA PutBackOwn ==
  ASSUME Files, Maps, NEW c \in Conn, NEW p \in Page, Own(c), Restore(c, p), Changed(c)
  PROVE  Files' /\ Steady /\ Own(c)'
<1>1. PICK x : x = Over(jrnl.kept, jrnl.more)[p]
  OBVIOUS
<1>2. /\ pc[c] = "restore" /\ p \in todo[c]
      /\ IF Writable(c) /\ p \in safe[c] THEN WriteDb(p, x) ELSE UNCHANGED <<db, dbOld>>
      /\ p \in DOMAIN cache[c] => /\ cache'[c] = Put(cache[c], p, x)
                                  /\ p = 1 => vers'[c] = Counter(x)
                                  /\ p # 1 => vers'[c] = vers[c]
      /\ p \notin DOMAIN cache[c] => cache'[c] = cache[c] /\ vers'[c] = vers[c]
      /\ todo'[c] = todo[c] \ {p}
  BY <1>1 DEF Restore, At, Maps, Set
<1>3. /\ UNCHANGED <<jrnl, jrnlOld>> /\ eState'[c] = eState[c] /\ dirty'[c] = dirty[c] /\ held'[c] = held[c]
      /\ orig'[c] = orig[c] /\ dbSize'[c] = dbSize[c] /\ safe'[c] = safe[c] /\ goal'[c] = goal[c]
      /\ spill'[c] = spill[c] /\ pc'[c] = pc[c] /\ view'[c] = view[c]
  BY DEF Restore
<1>4. Shaped(c) /\ Undoing(c) /\ view[c] = Logical
  BY DEF Own, Changed
<1>5. Protected(c) /\ p \in Journaled(jrnl) /\ todo[c] \subseteq Journaled(jrnl) /\ spill[c] = 0
  BY <1>2, <1>4 DEF Undoing, Rest
<1>6. p <= orig[c] /\ x = Committed[p] /\ x \in Datum
  BY <1>1, <1>5, RecordGives
<1>7. orig[c] \in Nat /\ vers[c] \in 0..MaxChange
  BY <1>4, BoundsAssumption DEF Shaped
<1>8. p = 1 => x # Absent /\ orig[c] # 0
  <2>1. p = 1 => orig[c] > 0
    BY <1>6, <1>7
  <2>2. QED
    BY <1>5, <1>6, <1>7, <2>1 DEF Protected, Sized
<1>9. /\ Files' /\ Steady /\ db' \in Database
      /\ \A q \in Page \ {p} : db'[q] = db[q]
      /\ eState[c] = "dbmod" => /\ db'[p] = x
                                /\ \A j \in Left : /\ Recovered(db', j) = Recovered(db, j)
                                                   /\ Firm(dbOld, j) => Firm(dbOld', j)
      /\ eState[c] = "cachemod" => UNCHANGED <<db, dbOld>>
  <2>1. CASE eState[c] = "dbmod" /\ p \in safe[c]
    <3>1. WriteDb(p, x)
      BY <1>2, <2>1 DEF Writable
    <3>2. \A j \in Left : Hot(j) /\ (p > j.size \/ p \in DOMAIN j.kept) /\ (j.size > 0 /\ p = 1 => x # Absent)
      BY <1>5, <1>8, <2>1, DbmodLeft
    <3>3. QED
      BY <1>3, <1>5, <1>6, <2>1, <3>1, <3>2, PagePut DEF Protected
  <2>2. CASE ~(eState[c] = "dbmod" /\ p \in safe[c])
    <3>1. UNCHANGED fileVars /\ UNCHANGED <<db, dbOld>>
      BY <1>2, <1>3, <2>2 DEF Writable, Changed, fileVars
    <3>2. eState[c] = "dbmod" => db[p] = x
      BY <1>5, <1>6, <2>2 DEF Protected
    <3>3. db \in Database
      BY <1>5 DEF Protected
    <3>4. QED
      BY <3>1, <3>2, <3>3, QuietSteady
  <2>3. QED
    BY <2>1, <2>2
<1>10. Committed' = Committed /\ Left' = Left /\ Logical' = Logical
  BY <1>3, <1>9 DEF Steady, Left, Logical
<1>11. vers'[c] \in 0..MaxChange
  <2>1. Counter(x) \in 0..MaxChange
    BY <1>6, ValueIs
  <2>2. QED
    BY <1>2, <1>7, <2>1
<1>12. Protected(c)'
  <2>1. CASE eState[c] = "cachemod"
    <3>1. vers'[c] >= 0
      BY <1>11, BoundsAssumption
    <3>2. QED
      BY <1>3, <1>5, <1>9, <1>10, <2>1, <3>1 DEF Protected, Synced
  <2>2. CASE eState[c] = "dbmod"
    <3>1. \A q \in Page : q <= orig[c] /\ q \notin safe[c] => db'[q] = db[q]
      <4>1. p \notin safe[c] => db[p] = x
        BY <1>5, <1>6, <2>2 DEF Protected
      <4>2. QED
        BY <1>9, <2>2, <4>1
    <3>2. vers'[c] \in Nat
      BY <1>11, BoundsAssumption
    <3>3. QED
      BY <1>3, <1>5, <1>9, <2>2, <3>1, <3>2, StillProtected
  <2>3. QED
    BY <2>1, <2>2 DEF Changed
<1>13. PICK m : m = cache'[c]
  OBVIOUS
<1>14. /\ Copy(m) /\ DOMAIN m = DOMAIN cache[c] /\ (p \in DOMAIN m => m[p] = x)
       /\ \A q \in DOMAIN m \ {p} : m[q] = cache[c][q]
  <2>1. CASE p \in DOMAIN cache[c]
    <3>1. Added(cache[c], p, x, m)
      BY <1>2, <1>13, <2>1, PutAdds
    <3>2. QED
      BY <1>4, <1>6, <2>1, <3>1 DEF Added, Shaped
  <2>2. CASE p \notin DOMAIN cache[c]
    BY <1>2, <1>4, <1>13, <2>2 DEF Shaped
  <2>3. QED
    BY <2>1, <2>2
<1>15. Shaped(c)'
  BY <1>2, <1>3, <1>4, <1>11, <1>13, <1>14 DEF Shaped
<1>16. (pc[c] \in Steps(eState[c]))' /\ (eState[c] \notin {"open", "error"} => view[c] = Logical)'
  BY <1>3, <1>4, <1>10 DEF Own
<1>17. Waiting(c)' /\ Reading(c)' /\ Writer(c)' /\ Tasks(c)' /\ Recovering(c)' /\ Finishing(c)'
  BY <1>2, <1>3 DEF Waiting, Reading, Writer, Tasks, Recovering, Finishing, Changed, Committing
<1>18. Undoing(c)'
  <2>1. PICK t : t = todo[c] \ {p}
    OBVIOUS
  <2>2. t \subseteq Journaled(jrnl)
    BY <1>5, <2>1
  <2>3. \A q \in DOMAIN m : q <= orig[c] /\ q \notin t => m[q] = Committed[q]
    <3>1. \A q \in DOMAIN cache[c] : q <= orig[c] /\ q \notin todo[c] => cache[c][q] = Committed[q]
      BY <1>2, <1>4 DEF Undoing, Rest
    <3>2. QED
      BY <1>6, <1>14, <2>1, <3>1
  <2>4. orig[c] # 0 => 1 \in DOMAIN m /\ (vers'[c] = Counter(Committed[1]) \/ 1 \in t)
    <3>1. orig[c] # 0 => 1 \in DOMAIN cache[c] /\ (vers[c] = Counter(Committed[1]) \/ 1 \in todo[c])
      BY <1>2, <1>4 DEF Undoing, Rest
    <3>2. CASE p = 1
      BY <1>2, <1>6, <1>14, <3>1, <3>2
    <3>3. CASE p # 1
      BY <1>2, <1>14, <2>1, <3>1, <3>3
    <3>4. QED
      BY <3>2, <3>3
  <2>5. PICK e : e = db'
    OBVIOUS
  <2>6. eState[c] = "dbmod" => \A q \in Page \ t : e[q] = Committed[q]
    <3>1. eState[c] = "dbmod" => \A q \in Page \ todo[c] : db[q] = Committed[q]
      BY <1>2, <1>4 DEF Undoing
    <3>2. QED
      BY <1>6, <1>9, <2>1, <2>5, <3>1
  <2>7. todo'[c] = t
    BY <1>2, <2>1
  <2>8. QED
    BY <1>2, <1>3, <1>5, <1>10, <1>12, <1>13, <2>2, <2>3, <2>4, <2>5, <2>6, <2>7 DEF Undoing, Rest
<1>19. QED
  BY <1>9, <1>15, <1>16, <1>17, <1>18 DEF Own

\* Records are put back into the file.
LEMMA RedoOwn ==
  ASSUME Files, Maps, NEW c \in Conn, NEW p \in Page, Own(c), Restore(c, p), eState[c] = "open"
  PROVE  Files' /\ Steady /\ Own(c)'
<1>1. PICK x : x = Over(jrnl.kept, jrnl.more)[p]
  OBVIOUS
<1>2. /\ pc[c] = "restore" /\ p \in todo[c]
      /\ p \in safe[c] => WriteDb(p, x)
      /\ p \notin DOMAIN cache[c] => cache'[c] = cache[c] /\ vers'[c] = vers[c]
      /\ todo'[c] = todo[c] \ {p}
  BY <1>1 DEF Restore, At, Maps, Set, Writable
<1>3. /\ UNCHANGED <<jrnl, jrnlOld>> /\ eState'[c] = eState[c] /\ dirty'[c] = dirty[c] /\ held'[c] = held[c]
      /\ orig'[c] = orig[c] /\ dbSize'[c] = dbSize[c] /\ safe'[c] = safe[c] /\ goal'[c] = goal[c] /\ spill'[c] = spill[c]
      /\ pc'[c] = pc[c] /\ view'[c] = view[c]
  BY DEF Restore
<1>4. Shaped(c) /\ Waiting(c) /\ Recovering(c)
  BY DEF Own
<1>5. /\ Hot(jrnl) /\ jrnl # NoJournal /\ jrnlOld = {} /\ safe[c] = DOMAIN jrnl.kept
      /\ todo[c] \subseteq DOMAIN jrnl.kept
      /\ \A q \in Page \ todo[c] : db[q] = Committed[q]
      /\ cache[c] = NoImage
  BY <1>2, <1>4 DEF Recovering
<1>6. Left = {jrnl} /\ jrnl \in Journal
  <2>1. Left = {jrnl}
    BY <1>5 DEF Left
  <2>2. QED
    BY <1>5, <2>1 DEF Files
<1>7. /\ x = jrnl.kept[p] /\ p \in DOMAIN jrnl.kept
      /\ Mends(db, dbOld, jrnl) /\ Sized(jrnl.size, Committed) /\ x = Committed[p]
  <2>1. p \in DOMAIN jrnl.kept
    BY <1>2, <1>5
  <2>2. x = jrnl.kept[p]
    BY <1>1, <2>1, OverGives
  <2>3. /\ Mends(db, dbOld, jrnl) /\ Sized(jrnl.size, Committed)
        /\ Committed[p] = jrnl.kept[p]
    BY <1>5, <1>6, <2>1, CommittedIs
  <2>4. QED
    BY <2>1, <2>2, <2>3
<1>8. x \in Datum /\ (jrnl.size > 0 /\ p = 1 => x # Absent)
  <2>1. x \in Datum
    BY <1>5, <1>7 DEF Mends
  <2>2. QED
    BY <1>7, <2>1 DEF Sized
<1>9. Files' /\ Steady /\ db'[p] = x /\ \A q \in Page \ {p} : db'[q] = db[q]
  <2>1. WriteDb(p, x)
    BY <1>2, <1>5
  <2>2. \A j \in Left : Hot(j) /\ (p > j.size \/ p \in DOMAIN j.kept) /\ (j.size > 0 /\ p = 1 => x # Absent)
    BY <1>5, <1>6, <1>7, <1>8
  <2>3. QED
    BY <1>3, <1>8, <2>1, <2>2, PagePut
<1>10. Committed' = Committed
  BY <1>9 DEF Steady
<1>11. cache'[c] = cache[c] /\ vers'[c] = vers[c]
  BY <1>2, <1>5, NoImageIs
<1>12. Shaped(c)'
  BY <1>2, <1>3, <1>4, <1>11 DEF Shaped
<1>13. (pc[c] \in Steps(eState[c]))' /\ (eState[c] \notin {"open", "error"} => view[c] = Logical)'
  BY <1>3 DEF Own
<1>14. Waiting(c)'
  BY <1>2, <1>3, <1>4, <1>10, <1>11 DEF Waiting
<1>15. Reading(c)' /\ Writer(c)' /\ Tasks(c)' /\ Undoing(c)' /\ Finishing(c)'
  BY <1>2, <1>3 DEF Reading, Writer, Tasks, Undoing, Finishing, Changed
<1>16. Recovering(c)'
  <2>1. PICK t : t = todo[c] \ {p}
    OBVIOUS
  <2>2. PICK e : e = db'
    OBVIOUS
  <2>3. \A q \in Page \ t : e[q] = Committed[q]
    BY <1>5, <1>7, <1>9, <2>1, <2>2
  <2>4. todo'[c] = t /\ t \subseteq DOMAIN jrnl.kept
    BY <1>2, <1>5, <2>1
  <2>5. QED
    BY <1>2, <1>3, <1>5, <1>10, <1>11, <2>2, <2>3, <2>4 DEF Recovering
<1>17. QED
  BY <1>9, <1>12, <1>13, <1>14, <1>15, <1>16 DEF Own

LEMMA RestoreOwn ==
  ASSUME Files, Maps, NEW c \in Conn, NEW p \in Page, Own(c), Restore(c, p)
  PROVE  Files' /\ Steady /\ Own(c)'
<1>1. pc[c] = "restore"
  BY DEF Restore, At
<1>2. eState[c] = "open" \/ Changed(c)
  BY <1>1 DEF Own, Shaped, State, Steps, Changed
<1>3. QED
  BY <1>2, PutBackOwn, RedoOwn

LEMMA SettledFirm ==
  ASSUME NEW o, Settled(o), NEW j
  PROVE  Firm(o, j)
BY DEF Settled, Firm

LEMMA RestoredOwn ==
  ASSUME Files, Maps, NEW c \in Conn, Own(c), Restored(c)
  PROVE  Files' /\ Steady /\ Own(c)'
<1>1. /\ eState'[c] = eState[c] /\ pc'[c] = "delete" /\ cache'[c] = cache[c]
      /\ dirty'[c] = dirty[c] /\ vers'[c] = vers[c] /\ held'[c] = held[c]
      /\ orig'[c] = orig[c] /\ dbSize'[c] = dbSize[c] /\ safe'[c] = safe[c] /\ goal'[c] = goal[c]
      /\ todo'[c] = todo[c] /\ spill'[c] = spill[c] /\ view'[c] = view[c]
  BY DEF Maps, Goto, Set, pagerVars, Restored
<1>2. pc[c] = "restore" /\ todo[c] = {}
  BY DEF Restored, At
<1>3. UNCHANGED <<db, jrnl, jrnlOld>> /\ (Writable(c) => SyncDb) /\ (~Writable(c) => UNCHANGED fileVars)
  BY DEF Restored, SyncDb, fileVars
<1>4. eState[c] = "open" \/ Changed(c)
  BY <1>2 DEF Own, Shaped, State, Steps, Changed
<1>5. Shaped(c) /\ Waiting(c) /\ Undoing(c) /\ Recovering(c) /\ (eState[c] \notin {"open", "error"} => view[c] = Logical)
  BY DEF Own
<1>6. Files' /\ Steady /\ (Writable(c) => Settled(dbOld')) /\ (~Writable(c) => UNCHANGED fileVars)
  <2>1. Writable(c) => \A j \in Left : Firm(dbOld, j)
    <3>1. CASE eState[c] = "open"
      <4>1. Left = {jrnl}
        BY <1>2, <1>5, <3>1 DEF Recovering, Left
      <4>2. QED
        BY <4>1 DEF Files
    <3>2. CASE eState[c] = "dbmod"
      <4>1. Protected(c)
        BY <1>2, <1>5, <3>2 DEF Undoing, Changed
      <4>2. QED
        BY <3>2, <4>1, DbmodLeft
    <3>3. QED
      BY <3>1, <3>2 DEF Writable
  <2>2. QED
    BY <1>3, <2>1, SyncSteady, QuietSteady
<1>7. Committed' = Committed /\ Left' = Left /\ Logical' = Logical
  BY <1>3, <1>6 DEF Steady, Left, Logical
<1>8. Shaped(c)'
  BY <1>1, <1>5 DEF Shaped
<1>9. (pc[c] \in Steps(eState[c]))' /\ (eState[c] \notin {"open", "error"} => view[c] = Logical)'
  BY <1>1, <1>4, <1>5, <1>7 DEF Steps, Changed
<1>10. Waiting(c)'
  BY <1>1, <1>2, <1>3, <1>5, <1>7 DEF Waiting
<1>11. Reading(c)' /\ Writer(c)' /\ Tasks(c)' /\ Finishing(c)'
  BY <1>1, <1>4 DEF Reading, Writer, Tasks, Finishing, Changed, Committing
<1>12. Undoing(c)'
  <2>1. Changed(c) => Protected(c)'
    <3>1. Changed(c) => Protected(c)
      BY <1>2, <1>5 DEF Undoing
    <3>2. CASE eState[c] = "cachemod"
      <4>1. UNCHANGED <<dbOld>>
        BY <1>6, <3>2 DEF Writable, fileVars
      <4>2. QED
        BY <1>1, <1>3, <1>7, <3>1, <3>2, <4>1 DEF Protected, Synced, Changed
    <3>3. CASE eState[c] = "dbmod"
      <4>1. PICK o : o = dbOld'
        OBVIOUS
      <4>2. \A j \in Left : Firm(o, j)
        BY <1>6, <3>3, <4>1, SettledFirm DEF Writable
      <4>3. vers'[c] \in Nat /\ db' \in Database
        BY <1>1, <1>3, <1>5, <3>1, <3>3, BoundsAssumption DEF Shaped, Protected, Changed
      <4>4. QED
        BY <1>1, <1>3, <1>6, <3>1, <3>3, <4>1, <4>2, <4>3, StillProtected DEF Changed
    <3>4. QED
      BY <1>1, <3>2, <3>3 DEF Changed
  <2>2. eState[c] = "dbmod" => Settled(dbOld')
    BY <1>6 DEF Writable
  <2>3. QED
    BY <1>1, <1>2, <1>3, <1>5, <1>7, <2>1, <2>2 DEF Undoing, Changed, Rest
<1>13. Recovering(c)'
  <2>1. eState[c] = "open" => Settled(dbOld')
    BY <1>6 DEF Writable
  <2>2. QED
    BY <1>1, <1>2, <1>3, <1>5, <1>7, <2>1 DEF Recovering, Hot
<1>14. QED
  BY <1>6, <1>8, <1>9, <1>10, <1>11, <1>12, <1>13 DEF Own

-----------------------------------------------------------------------------
(* The recovery of a hot journal begins.                                   *)

LEMMA OneLeft ==
  ASSUME Files, jrnl' = jrnl, jrnlOld' = {},
         NEW e \in [Page -> Content], NEW u \in [Page -> SUBSET Content], db' = e, dbOld' = u,
         Mends(e, u, jrnl), Firm(u, jrnl), Recovered(e, jrnl) = Committed
  PROVE  Files' /\ Steady
<1>1. Left' = {jrnl} /\ jrnl \in Left
  BY DEF Left
<1>2. Left' \subseteq Journal \cup {NoJournal}
  BY <1>1 DEF Files
<1>3. PICK L : L = Left'
  OBVIOUS
<1>4. Files'
  BY <1>1, <1>2 DEF Files
<1>5. Committed' = Committed
  BY DEF Committed
<1>6. Found(e, u, L) = {Logical}
  <2>1. Gives(e, u, jrnl) = Committed
    <3>1. jrnl \in Journal \cup {NoJournal}
      BY <1>1, <1>2
    <3>2. QED
      BY <3>1, FirmGives
  <2>2. L = {jrnl}
    BY <1>1, <1>3
  <2>3. QED
    BY <2>1, <2>2 DEF Found, Logical
<1>7. Survivors' = {Logical}
  BY <1>3, <1>6, SurvivorsFound
<1>8. QED
  BY <1>4, <1>5, <1>7 DEF Steady

LEMMA CutToRecover ==
  ASSUME Files, jrnl \in Journal, Hot(jrnl), SyncJournal, Truncate(jrnl.size)
  PROVE  /\ Files' /\ Steady
         /\ \A p \in Page \ DOMAIN jrnl.kept : db'[p] = Committed[p]
<1>1. PICK e : e = [p \in Page |-> IF p > jrnl.size THEN Absent ELSE db[p]]
  OBVIOUS
<1>2. PICK u : u = [p \in Page |-> IF p > jrnl.size /\ db[p] # Absent THEN dbOld[p] \cup {db[p]} ELSE dbOld[p]]
  OBVIOUS
<1>3. db' = e /\ dbOld' = u /\ jrnl' = jrnl /\ jrnlOld' = {}
  BY <1>1, <1>2 DEF Truncate, SyncJournal
<1>4. db \in [Page -> Content] /\ dbOld \in [Page -> SUBSET Content]
  BY DEF Files
<1>5. jrnl.size \in Nat /\ Mends(db, dbOld, jrnl)
      /\ \A p \in Page : /\ p > jrnl.size => Committed[p] = Absent
                         /\ p <= jrnl.size /\ p \notin DOMAIN jrnl.kept => Committed[p] = db[p]
  BY CommittedIs
<1>6. \A p \in Page : (p <= jrnl.size \/ p > jrnl.size) /\ ~(p <= jrnl.size /\ p > jrnl.size)
  BY <1>5, Ordered, Zenon
<1>7. e \in [Page -> Content] /\ \A p \in Page : (p > jrnl.size => e[p] = Absent) /\ (p <= jrnl.size => e[p] = db[p])
  BY <1>1, <1>4, <1>6 DEF Content
<1>8. u \in [Page -> SUBSET Content] /\ \A p \in Page : p <= jrnl.size => u[p] = dbOld[p]
  <2>1. \A p \in Page : db[p] \in Content /\ dbOld[p] \subseteq Content
    BY <1>4
  <2>2. QED
    BY <1>2, <1>6, <2>1
<1>9. jrnl.size > 0 => e[1] # Absent /\ Absent \notin u[1]
  <2>1. jrnl.size > 0 => db[1] # Absent /\ Absent \notin dbOld[1]
    BY <1>5 DEF Mends
  <2>2. jrnl.size > 0 => 1 <= jrnl.size
    BY <1>5
  <2>3. QED
    BY <1>7, <1>8, <2>1, <2>2, PageOne
<1>10. Mends(e, u, jrnl) /\ Firm(u, jrnl) /\ Recovered(e, jrnl) = Recovered(db, jrnl)
  <2>1. PICK d : d = db
    OBVIOUS
  <2>2. PICK o : o = dbOld
    OBVIOUS
  <2>3. Mends(e, u, jrnl) /\ Recovered(e, jrnl) = Recovered(d, jrnl) /\ (Firm(o, jrnl) => Firm(u, jrnl))
    BY <1>4, <1>5, <1>7, <1>8, <1>9, <2>1, <2>2, StillMends
  <2>4. Firm(dbOld, jrnl)
    BY DEF Files
  <2>5. QED
    BY <2>1, <2>2, <2>3, <2>4
<1>11. Files' /\ Steady
  BY <1>3, <1>7, <1>8, <1>10, OneLeft DEF Committed
<1>12. QED
  BY <1>3, <1>5, <1>6, <1>7, <1>11

LEMMA RecoverOwn ==
  ASSUME Files, Maps, NEW c \in Conn, Own(c), Recover(c)
  PROVE  Files' /\ Steady /\ Own(c)'
<1>1. /\ eState'[c] = eState[c] /\ pc[c] = "recover"
      /\ dirty'[c] = dirty[c] /\ vers'[c] = vers[c] /\ held'[c] = held[c]
      /\ orig'[c] = orig[c] /\ dbSize'[c] = dbSize[c] /\ goal'[c] = goal[c]
      /\ spill'[c] = spill[c] /\ view'[c] = view[c]
  BY DEF Maps, At, Set, Recover
<1>2. Shaped(c) /\ Waiting(c) /\ eState[c] = "open" /\ todo[c] = {}
  BY <1>1 DEF Own, Shaped, State, Steps, Waiting
<1>3. CASE jrnl = NoJournal
  <2>1. UNCHANGED fileVars /\ pc'[c] = "validate" /\ cache'[c] = cache[c] /\ todo'[c] = todo[c] /\ safe'[c] = safe[c]
    BY <1>3 DEF Recover, Maps, Goto, Set
  <2>2. Files' /\ Steady /\ Committed' = Committed
    BY <2>1, QuietSteady DEF Steady
  <2>3. Shaped(c)' /\ (pc[c] \in Steps(eState[c]))' /\ Waiting(c)'
    BY <1>1, <1>2, <2>1, <2>2 DEF Shaped, Waiting, Steps
  <2>4. Reading(c)' /\ Writer(c)' /\ Tasks(c)' /\ Undoing(c)' /\ Recovering(c)' /\ Finishing(c)'
    BY <1>1, <1>2, <2>1 DEF Reading, Writer, Tasks, Undoing, Recovering, Finishing, Changed
  <2>5. QED
    BY <1>1, <1>2, <2>2, <2>3, <2>4 DEF Own
<1>4. CASE jrnl # NoJournal /\ Hot(jrnl)
  <2>1. /\ SyncJournal /\ Truncate(jrnl.size) /\ pc'[c] = "restore" /\ todo'[c] = DOMAIN jrnl.kept
        /\ safe'[c] = DOMAIN jrnl.kept
        /\ cache'[c] = NoImage \/ (jrnl.kept = NoImage /\ cache'[c] = cache[c])
    BY <1>4 DEF Recover, Maps, Goto, Set
  <2>2. jrnl \in Journal
    <3>1. jrnl \in Left
      BY DEF Left
    <3>2. QED
      BY <1>4, <3>1 DEF Files
  <2>3. Files' /\ Steady /\ \A p \in Page \ DOMAIN jrnl.kept : db'[p] = Committed[p]
    BY <1>4, <2>1, <2>2, CutToRecover
  <2>4. Committed' = Committed /\ UNCHANGED jrnl /\ jrnlOld' = {}
    BY <2>1, <2>3 DEF Steady, SyncJournal
  <2>5. DOMAIN jrnl.kept \subseteq Page
    BY <2>2, JournalIs
  <2>6. todo'[c] = {} \/ cache'[c] = NoImage
    BY <2>1, NoImageIs
  <2>7. Shaped(c)' /\ (pc[c] \in Steps(eState[c]))'
    BY <1>1, <1>2, <2>1, <2>5, NoImageIs DEF Shaped, Waiting, Steps
  <2>8. Waiting(c)'
    BY <1>1, <1>2, <2>1, <2>4 DEF Waiting
  <2>9. Reading(c)' /\ Writer(c)' /\ Tasks(c)' /\ Undoing(c)' /\ Finishing(c)'
    BY <1>1, <1>2, <2>1 DEF Reading, Writer, Tasks, Undoing, Finishing, Changed
  <2>10. Recovering(c)'
    <3>1. PICK e : e = db'
      OBVIOUS
    <3>2. \A p \in Page \ DOMAIN jrnl.kept : e[p] = Committed[p]
      BY <2>3, <3>1
    <3>3. QED
      BY <1>1, <1>2, <1>4, <2>1, <2>4, <2>6, <3>1, <3>2 DEF Recovering
  <2>11. QED
    BY <1>1, <1>2, <2>3, <2>7, <2>8, <2>9, <2>10 DEF Own
<1>5. CASE jrnl # NoJournal /\ ~Hot(jrnl)
  <2>1. /\ jrnl' = jrnl /\ jrnlOld' = {} /\ UNCHANGED <<db, dbOld>> /\ pc'[c] = "restore" /\ todo'[c] = {}
        /\ safe'[c] = DOMAIN jrnl.kept /\ cache'[c] = cache[c]
    BY <1>5 DEF Recover, Maps, Goto, Set, SyncJournal
  <2>2. jrnl \in Journal /\ Mends(db, dbOld, jrnl)
    <3>1. jrnl \in Left
      BY DEF Left
    <3>2. QED
      BY <1>5, <3>1 DEF Files
  <2>3. Files' /\ Steady
    <3>1. Recovered(db, jrnl) = Committed /\ Firm(dbOld, jrnl)
      BY DEF Committed, Files
    <3>2. QED
      BY <2>1, <2>2, <3>1, JournalSteady
  <2>4. Committed' = Committed
    BY <2>3 DEF Steady
  <2>5. DOMAIN jrnl.kept \subseteq Page
    BY <2>2, JournalIs
  <2>6. Shaped(c)' /\ (pc[c] \in Steps(eState[c]))'
    BY <1>1, <1>2, <2>1, <2>5 DEF Shaped, Steps
  <2>7. Waiting(c)'
    BY <1>1, <1>2, <2>1, <2>4 DEF Waiting
  <2>8. Reading(c)' /\ Writer(c)' /\ Tasks(c)' /\ Undoing(c)' /\ Finishing(c)'
    BY <1>1, <1>2, <2>1 DEF Reading, Writer, Tasks, Undoing, Finishing, Changed
  <2>9. Recovering(c)'
    BY <1>1, <1>2, <1>5, <2>1 DEF Recovering, Hot
  <2>10. QED
    BY <1>1, <1>2, <2>3, <2>6, <2>7, <2>8, <2>9 DEF Own
<1>6. QED
  BY <1>3, <1>4, <1>5

-----------------------------------------------------------------------------
(* A journal is deleted.                                                   *)


-----------------------------------------------------------------------------
(* A journal is deleted.                                                   *)

LEMMA EmptyWhole == Whole(Empty) /\ Size(Empty) = 0
<1>1. Whole(Empty)
  BY DEF Whole, Empty, Database
<1>2. QED
  BY <1>1, WholeSized

LEMMA ContentsIs ==
  ASSUME NEW d, Whole(d)
  PROVE  Contents(d) \in Database
<1>1. \A p \in Page : d[p] \in Value \cup {Absent}
  BY DEF Whole, Database
<1>2. QED
  BY <1>1 DEF Contents, Database

LEMMA SettledIs ==
  ASSUME NEW d, NEW o, Settled(o)
  PROVE  Calm(d, o) /\ \A j : Firm(o, j)
BY DEF Settled, Calm, Firm

LEMMA DeleteSteady ==
  ASSUME Files, UNCHANGED <<db, dbOld>>, jrnl' = NoJournal, jrnlOld' = jrnlOld \cup {jrnl},
         Committed = db, Whole(db), Calm(db, dbOld)
  PROVE  Files' /\ Steady
<1>1. ~Hot(NoJournal)
  BY DEF Hot
<1>2. Mends(db, dbOld, NoJournal) /\ Firm(dbOld, NoJournal)
  BY <1>1 DEF Mends, Firm
<1>3. Recovered(db, NoJournal) = Committed
  BY <1>1, Cold
<1>4. jrnlOld' \subseteq Left /\ jrnlOld \subseteq jrnlOld'
  BY DEF Left
<1>5. QED
  BY <1>2, <1>3, <1>4, JournalSteady

LEMMA RemnantOwn ==
  ASSUME Files, Maps, NEW c \in Conn, Own(c), Remnant(c)
  PROVE  Files' /\ Steady /\ Own(c)' /\ UNCHANGED db
<1>1. /\ eState'[c] = eState[c] /\ pc'[c] = "validate" /\ cache'[c] = cache[c]
      /\ dirty'[c] = dirty[c] /\ vers'[c] = vers[c] /\ held'[c] = held[c]
      /\ orig'[c] = orig[c] /\ dbSize'[c] = dbSize[c] /\ safe'[c] = safe[c] /\ goal'[c] = goal[c]
      /\ todo'[c] = todo[c] /\ spill'[c] = spill[c] /\ view'[c] = view[c]
  BY DEF Maps, Goto, Set, pagerVars, Remnant
<1>2. pc[c] = "remnant" /\ UNCHANGED <<db, dbOld>>
  BY DEF Remnant, At
<1>3. Shaped(c) /\ Waiting(c) /\ eState[c] = "open"
  BY <1>2 DEF Own, Shaped, State, Steps
<1>4. db = Empty
  BY <1>2, <1>3 DEF Waiting
<1>5. Files' /\ Steady
  <2>1. CASE UNCHANGED <<jrnl, jrnlOld>>
    BY <1>2, <2>1, QuietSteady DEF fileVars
  <2>2. CASE WriteJournal(NoJournal)
    <3>1. Whole(db) /\ Committed = db /\ Calm(db, dbOld)
      BY <1>4, EmptyWhole DEF Committed, Recovered, Calm
    <3>2. QED
      BY <1>2, <1>4, <2>2, <3>1, DeleteSteady DEF WriteJournal
  <2>3. QED
    BY <2>1, <2>2 DEF Remnant
<1>6. Committed' = Committed
  BY <1>5 DEF Steady
<1>7. Shaped(c)' /\ (pc[c] \in Steps(eState[c]))' /\ Waiting(c)'
  BY <1>1, <1>2, <1>3, <1>6 DEF Shaped, Waiting, Steps
<1>8. Reading(c)' /\ Writer(c)' /\ Tasks(c)' /\ Undoing(c)' /\ Recovering(c)' /\ Finishing(c)'
  BY <1>1, <1>3 DEF Reading, Writer, Tasks, Undoing, Recovering, Finishing, Changed
<1>9. QED
  BY <1>1, <1>2, <1>3, <1>5, <1>7, <1>8 DEF Own

\* A playback ends with the committed state in the file.
LEMMA PlayedBack ==
  ASSUME Files, NEW c \in Conn, Own(c), pc[c] = "delete", eState[c] \in {"open", "cachemod", "dbmod"}
  PROVE  Committed = db /\ Whole(db) /\ Calm(db, dbOld)
<1>1. Whole(Committed) /\ Committed \in Database
  BY CommittedWhole DEF Whole
<1>2. db \in [Page -> Content]
  BY DEF Files
<1>3. CASE eState[c] = "open"
  <2>1. Settled(dbOld) /\ todo[c] = {}
    BY <1>3 DEF Own, Recovering
  <2>2. Calm(db, dbOld)
    BY <2>1, SettledIs
  <2>3. CASE ~Hot(jrnl)
    BY <1>1, <2>2, <2>3, CommittedWhole
  <2>4. CASE Hot(jrnl)
    <3>1. \A p \in Page : db[p] = Committed[p]
      BY <1>3, <2>1, <2>4 DEF Own, Recovering
    <3>2. db = Committed
      BY <1>1, <1>2, <3>1 DEF Database
    <3>3. QED
      BY <1>1, <2>2, <3>2
  <2>5. QED
    BY <2>3, <2>4
<1>4. CASE eState[c] = "cachemod"
  <2>1. Protected(c)
    BY <1>4 DEF Own, Undoing, Changed
  <2>2. QED
    BY <1>1, <1>4, <2>1 DEF Protected
<1>5. CASE eState[c] = "dbmod"
  <2>1. todo[c] = {} /\ Settled(dbOld) /\ \A p \in Page \ todo[c] : db[p] = Committed[p]
    BY <1>5 DEF Own, Undoing, Changed
  <2>2. db = Committed
    BY <1>1, <1>2, <2>1 DEF Database
  <2>3. QED
    BY <1>1, <2>1, <2>2, SettledIs
<1>6. QED
  BY <1>3, <1>4, <1>5

\* The pages of f that the file has.
First(f, n) == [p \in {q \in DOMAIN f : q <= n} |-> f[p]]

LEMMA FirstIs ==
  ASSUME NEW f, NEW n
  PROVE  /\ DOMAIN First(f, n) = {q \in DOMAIN f : q <= n}
         /\ \A p \in DOMAIN First(f, n) : First(f, n)[p] = f[p]
         /\ Copy(f) => Copy(First(f, n))
         /\ DOMAIN First(f, n) = {} => First(f, n) = NoImage
BY DEF First, Copy, NoImage

LEMMA UndoneOwn ==
  ASSUME Files, Maps, NEW c \in Conn, Own(c), Delete(c), eState[c] # "finished"
  PROVE  Files' /\ Steady /\ Own(c)' /\ view'[c] = view[c]
<1>1. PICK m : m = First(cache[c], jrnl.size)
  OBVIOUS
<1>2. /\ eState'[c] = eState[c] /\ pc'[c] = "downgrade" /\ dirty'[c] = {}
      /\ vers'[c] = vers[c] /\ held'[c] = held[c]
      /\ orig'[c] = orig[c] /\ dbSize'[c] = dbSize[c] /\ safe'[c] = safe[c] /\ goal'[c] = goal[c]
      /\ todo'[c] = todo[c] /\ spill'[c] = spill[c] /\ view'[c] = view[c]
  BY DEF Maps, Goto, Set, Delete, CleanTo
<1>3. cache'[c] = m
  BY <1>1 DEF Maps, Set, Delete, CleanTo, First
<1>4. /\ DOMAIN m = {q \in DOMAIN cache[c] : q <= jrnl.size}
      /\ \A p \in DOMAIN m : m[p] = cache[c][p]
      /\ Copy(cache[c]) => Copy(m)
      /\ DOMAIN m = {} => m = NoImage
  BY <1>1, FirstIs
<1>5. pc[c] = "delete" /\ UNCHANGED <<db, dbOld>> /\ jrnl' = NoJournal /\ jrnlOld' = jrnlOld \cup {jrnl}
  BY DEF Delete, At, WriteJournal
<1>6. Shaped(c) /\ Waiting(c) /\ Undoing(c) /\ (eState[c] \notin {"open", "error"} => view[c] = Logical)
  BY DEF Own
<1>7. eState[c] \in {"open", "cachemod", "dbmod"}
  BY <1>5 DEF Own, Shaped, State, Steps
<1>8. Committed = db /\ Whole(db) /\ Calm(db, dbOld)
  BY <1>5, <1>7, PlayedBack
<1>9. Files' /\ Steady
  BY <1>5, <1>8, DeleteSteady
<1>10. Committed' = Committed /\ Logical' = Logical
  BY <1>9 DEF Steady, Logical
<1>11. Shaped(c)'
  BY <1>2, <1>3, <1>4, <1>6 DEF Shaped
<1>12. (pc[c] \in Steps(eState[c]))' /\ (eState[c] \notin {"open", "error"} => view[c] = Logical)'
  BY <1>2, <1>6, <1>7, <1>10 DEF Steps
<1>13. Waiting(c)'
  <2>1. SUFFICES ASSUME eState[c] = "open"
                 PROVE  Waiting(c)'
    BY <1>2 DEF Waiting
  <2>2. todo[c] = {}
    BY <1>5, <2>1 DEF Own, Recovering
  <2>3. cache[c] = NoImage => m = NoImage
    BY <1>4, NoImageIs
  <2>4. Part(cache[c], Committed) => Part(m, Committed)
    BY <1>4 DEF Part
  <2>5. QED
    BY <1>2, <1>3, <1>6, <1>10, <2>1, <2>2, <2>3, <2>4 DEF Waiting
<1>14. Reading(c)'
  <2>1. SUFFICES ASSUME Changed(c)
                 PROVE  Reading(c)'
    BY <1>2, <1>7 DEF Reading, Changed
  <2>2. /\ Protected(c) /\ spill[c] = 0 /\ todo[c] = {}
        /\ \A p \in DOMAIN cache[c] : p <= orig[c] => cache[c][p] = Committed[p]
        /\ orig[c] # 0 => 1 \in DOMAIN cache[c] /\ vers[c] = Counter(Committed[1])
    BY <1>5, <1>6, <2>1 DEF Undoing, Rest
  <2>3. jrnl.size = orig[c] /\ Sized(orig[c], Committed) /\ held[c] /\ orig[c] \in Nat
    BY <1>6, <2>2, BoundsAssumption DEF Protected, Shaped
  <2>4. jrnl.size = orig[c]
    BY <2>3
  <2>5. \A p : p \in DOMAIN m <=> p \in DOMAIN cache[c] /\ p <= orig[c]
    BY <1>4, <2>4
  <2>6. Part(m, Committed)
    <3>1. PICK k : k = Committed
      OBVIOUS
    <3>2. \A p \in DOMAIN cache[c] : p <= orig[c] => cache[c][p] = k[p]
      BY <2>2, <3>1
    <3>3. \A p \in DOMAIN m : m[p] = k[p]
      BY <1>4, <2>5, <3>2
    <3>4. QED
      BY <3>1, <3>3 DEF Part
  <2>7. 1 \in DOMAIN m \/ (m = NoImage /\ Committed = Empty)
    <3>1. CASE orig[c] # 0
      <4>1. 1 \in DOMAIN cache[c] /\ 1 <= orig[c]
        BY <2>2, <2>3, <3>1
      <4>2. QED
        BY <2>5, <4>1
    <3>2. CASE orig[c] = 0
      <4>1. \A p \in Page : p > 0 /\ ~(p <= 0)
        BY PageOne DEF Page
      <4>2. DOMAIN m = {}
        BY <1>4, <1>6, <2>3, <3>2, <4>1 DEF Shaped, Copy
      <4>3. Committed \in Database /\ \A p \in Page : Committed[p] = Absent
        BY <1>8, <2>3, <3>2, <4>1 DEF Sized, Whole
      <4>4. Committed = Empty
        BY <4>3 DEF Database, Empty
      <4>5. QED
        BY <1>4, <4>2, <4>4
    <3>3. QED
      BY <3>1, <3>2
  <2>8. 1 \in DOMAIN m => vers[c] = Counter(Committed[1])
    <3>1. 1 \in DOMAIN m => 1 <= orig[c]
      BY <2>5
    <3>2. 1 \in DOMAIN m => orig[c] # 0
      BY <2>3, <3>1
    <3>3. QED
      BY <2>2, <3>2
  <2>9. QED
    <3>1. PICK k : k = Committed
      OBVIOUS
    <3>2. spill[c] = 0 /\ todo[c] = {} /\ held[c] /\ Part(m, k)
          /\ ((1 \in DOMAIN m /\ vers[c] = Counter(k[1])) \/ (m = NoImage /\ k = Empty))
          /\ Committed' = k
      BY <1>10, <2>2, <2>3, <2>6, <2>7, <2>8, <3>1
    <3>3. eState[c] \notin {"reader", "locked"}
      BY <2>1 DEF Changed
    <3>4. QED
      BY <1>2, <1>3, <3>2, <3>3 DEF Reading
<1>15. Writer(c)' /\ Tasks(c)' /\ Undoing(c)' /\ Recovering(c)' /\ Finishing(c)'
  BY <1>2 DEF Writer, Tasks, Undoing, Recovering, Finishing, Committing
<1>16. QED
  BY <1>2, <1>9, <1>11, <1>12, <1>13, <1>14, <1>15 DEF Own

\* The journal of a commit is deleted: that is the moment.
LEMMA FinishedFiles ==
  ASSUME Files, UNCHANGED <<db, dbOld>>, jrnl' = NoJournal, jrnlOld' = jrnlOld \cup {jrnl},
         Whole(db), Settled(dbOld), \A j \in Left : Recovered(db, j) = Committed
  PROVE  Files' /\ Committed' = db /\ Survivors' = {Logical, Contents(db)}
<1>1. ~Hot(NoJournal)
  BY DEF Hot
<1>2. /\ Mends(db, dbOld, NoJournal) /\ Recovered(db, NoJournal) = db
      /\ \A j : Firm(dbOld, j)
  BY <1>1, SettledIs, Cold DEF Mends
<1>3. Left' = Left \cup {NoJournal}
  BY DEF Left
<1>4. PICK L : L = Left \cup {NoJournal}
  OBVIOUS
<1>5. L \subseteq Journal \cup {NoJournal} /\ \A j \in L : Mends(db, dbOld, j)
      /\ db \in [Page -> Content] /\ dbOld \in [Page -> SUBSET Content]
  BY <1>2, <1>4 DEF Files
<1>6. Files'
  BY <1>2, <1>3, <1>4, <1>5 DEF Files
<1>7. Committed' = db
  BY <1>2 DEF Committed
<1>8. Found(db, dbOld, L) = {Logical, Contents(db)}
  <2>1. \A j \in L : Gives(db, dbOld, j) = Recovered(db, j)
    BY <1>2, <1>5, FirmGives
  <2>2. \A j \in L : Gives(db, dbOld, j) \in {Committed, db}
    BY <1>2, <1>4, <2>1
  <2>3. /\ jrnl \in L /\ Gives(db, dbOld, jrnl) = Committed
        /\ NoJournal \in L /\ Gives(db, dbOld, NoJournal) = db
    BY <1>2, <1>4, <2>1 DEF Left, Committed
  <2>4. QED
    BY <2>2, <2>3 DEF Found, Logical
<1>9. Survivors' = {Logical, Contents(db)}
  BY <1>3, <1>4, <1>8, SurvivorsFound
<1>10. QED
  BY <1>6, <1>7, <1>9

LEMMA FinishedOwn ==
  ASSUME Files, Maps, NEW c \in Conn, Own(c), Delete(c), eState[c] = "finished"
  PROVE  /\ Files' /\ Own(c)' /\ Committed' = db /\ UNCHANGED db
         /\ Logical' = Contents(db) /\ Contents(db) \in Database /\ Survivors' = {Logical, Contents(db)}
         /\ view[c] = Logical /\ view' = Set(view, c, Contents(db))
         /\ Counter(db[1]) \in Nat /\ Counter(Committed[1]) \in Nat /\ Counter(db[1]) > Counter(Committed[1])
         /\ jrnl' = NoJournal /\ Settled(dbOld') /\ db # Empty /\ Beyond(dbSize'[c], db[1], db)
         /\ \A p \in DOMAIN cache'[c] : p <= dbSize'[c]
<1>1. PICK m : m = First(cache[c], dbSize[c])
  OBVIOUS
<1>2. /\ eState'[c] = eState[c] /\ pc'[c] \in {"trim", "downgrade"} /\ dirty'[c] = {}
      /\ vers'[c] = vers[c] /\ held'[c] = held[c]
      /\ orig'[c] = orig[c] /\ dbSize'[c] = dbSize[c] /\ safe'[c] = safe[c] /\ goal'[c] = goal[c]
      /\ todo'[c] = todo[c] /\ spill'[c] = spill[c]
      /\ view' = Set(view, c, Contents(db)) /\ view'[c] = Contents(db)
  BY DEF Maps, Goto, Set, Delete, CleanTo
<1>3. cache'[c] = m
  BY <1>1 DEF Maps, Set, Delete, CleanTo, First
<1>4. /\ DOMAIN m = {q \in DOMAIN cache[c] : q <= dbSize[c]}
      /\ \A p \in DOMAIN m : m[p] = cache[c][p]
      /\ Copy(cache[c]) => Copy(m)
  BY <1>1, FirstIs
<1>5. pc[c] = "delete" /\ UNCHANGED <<db, dbOld>> /\ jrnl' = NoJournal /\ jrnlOld' = jrnlOld \cup {jrnl}
  BY DEF Delete, At, WriteJournal
<1>6. /\ Whole(db) /\ Settled(dbOld) /\ db # Empty
      /\ todo[c] = {} /\ spill[c] = 0 /\ held[c]
      /\ 1 \in DOMAIN cache[c] /\ dbSize[c] > 0 /\ Beyond(dbSize[c], db[1], db)
      /\ \A p \in DOMAIN cache[c] : p <= dbSize[c] => cache[c][p] = db[p]
      /\ vers[c] = Counter(db[1]) /\ vers[c] > Counter(Committed[1])
      /\ \A j \in Left : Recovered(db, j) = Committed
  BY <1>5 DEF Own, Finishing
<1>7. Files' /\ Committed' = db /\ Survivors' = {Logical, Contents(db)}
  BY <1>5, <1>6, FinishedFiles
<1>8. Counter(db[1]) \in Nat /\ Counter(Committed[1]) \in Nat
  BY <1>6, CommittedWhole, WholeOne, BoundsAssumption
<1>9. Shaped(c) /\ view[c] = Logical
  BY DEF Own
<1>10. Logical' = Contents(db) /\ Contents(db) \in Database
  BY <1>6, <1>7, ContentsIs DEF Logical
<1>11. 1 \in DOMAIN m
  <2>1. dbSize[c] \in Nat
    BY <1>9, BoundsAssumption DEF Shaped
  <2>2. QED
    BY <1>4, <1>6, <2>1
<1>12. Shaped(c)'
  BY <1>2, <1>3, <1>4, <1>9 DEF Shaped
<1>13. (pc[c] \in Steps(eState[c]))' /\ (eState[c] \notin {"open", "error"} => view[c] = Logical)'
  BY <1>2, <1>10 DEF Steps
<1>14. Reading(c)'
  <2>1. PICK k : k = db
    OBVIOUS
  <2>2. Part(m, k) /\ vers[c] = Counter(k[1]) /\ Committed' = k
    BY <1>4, <1>6, <1>7, <2>1 DEF Part
  <2>3. QED
    BY <1>2, <1>3, <1>6, <1>11, <2>2 DEF Reading
<1>15. Waiting(c)' /\ Writer(c)' /\ Tasks(c)' /\ Undoing(c)' /\ Recovering(c)' /\ Finishing(c)'
  BY <1>2 DEF Waiting, Writer, Tasks, Undoing, Recovering, Finishing, Changed
<1>16. Own(c)'
  BY <1>12, <1>13, <1>14, <1>15 DEF Own
<1>17. Settled(dbOld')
  BY <1>5, <1>6
<1>18. \A p \in DOMAIN cache'[c] : p <= dbSize'[c]
  BY <1>2, <1>3, <1>4
<1>19. QED
  BY <1>2, <1>5, <1>6, <1>7, <1>8, <1>9, <1>10, <1>16, <1>17, <1>18

\* A commit goes past the caches that others keep.
LEMMA PassedOwn ==
  ASSUME NEW d \in Conn, Same(d), Own(d), eState[d] = "open", pc[d] \notin {"restore", "delete", "remnant"},
         NEW k, k = Committed', Counter(k[1]) \in Nat,
         cache[d] = NoImage \/ vers[d] < Counter(k[1])
  PROVE  Own(d)'
<1>1. Shaped(d) /\ Waiting(d) /\ pc[d] \in Steps(eState[d])
  BY DEF Own
<1> USE DEF Same
<1>2. Shaped(d)' /\ (pc[d] \in Steps(eState[d]))' /\ (eState[d] \notin {"open", "error"} => view[d] = Logical)'
  BY <1>1 DEF Shaped
<1>3. Waiting(d)'
  <2>1. vers[d] \in Nat
    BY <1>1, BoundsAssumption DEF Shaped
  <2>2. cache[d] = NoImage \/ (held[d] /\ vers[d] <= Counter(k[1]) /\ vers[d] # Counter(k[1]))
    BY <1>1, <2>1 DEF Waiting
  <2>3. QED
    BY <1>1, <2>2 DEF Waiting
<1>4. pc[d] \notin {"write", "newdb"}
  BY <1>1 DEF Steps
<1>5. Reading(d)' /\ Writer(d)' /\ Tasks(d)' /\ Undoing(d)' /\ Recovering(d)' /\ Finishing(d)'
  BY <1>4 DEF Reading, Writer, Tasks, Undoing, Recovering, Finishing, Changed
<1>6. QED
  BY <1>2, <1>3, <1>5 DEF Own

\* What other connections have of the file is older than a commit.
LEMMA CommitPasses ==
  ASSUME NEW d \in Conn, Own(d), eState[d] = "open", NEW n \in Nat, n > Counter(Committed[1]),
         Counter(Committed[1]) \in Nat
  PROVE  cache[d] = NoImage \/ vers[d] < n
<1>1. cache[d] = NoImage \/ vers[d] <= Counter(Committed[1])
  BY DEF Own, Waiting
<1>2. vers[d] \in Nat
  BY BoundsAssumption DEF Own, Shaped
<1>3. QED
  BY <1>1, <1>2

-----------------------------------------------------------------------------
(* The file that is longer than the database is cut.                       *)

\* The file d, of which nothing waits to reach the disk, cut to n pages.
Cutting(d, n) == [p \in Page |-> IF p > n THEN Absent ELSE d[p]]
Lost(d, n) == [p \in Page |-> IF p > n /\ d[p] # Absent THEN {d[p]} ELSE {}]

LEMMA CuttingIs ==
  ASSUME NEW d \in [Page -> Content], NEW n \in Nat
  PROVE  /\ Cutting(d, n) \in [Page -> Content] /\ Lost(d, n) \in [Page -> SUBSET Content]
         /\ \A p \in Page : p <= n => Cutting(d, n)[p] = d[p] /\ Lost(d, n)[p] = {}
         /\ \A p \in Page : p > n => Cutting(d, n)[p] = Absent /\ Lost(d, n)[p] = {d[p]} \ {Absent}
         /\ Whole(d) => Cutting(d, n) \in Database
<1>1. \A p \in Page : p <= n => ~(p > n)
  BY PageOne
<1>2. \A p \in Page : d[p] \in Content
  OBVIOUS
<1>3. Cutting(d, n) \in [Page -> Content]
  BY <1>2 DEF Cutting, Content
<1>4. Lost(d, n) \in [Page -> SUBSET Content]
  BY <1>2 DEF Lost
<1>5. Whole(d) => Cutting(d, n) \in Database
  BY DEF Cutting, Whole, Database
<1>6. QED
  BY <1>1, <1>3, <1>4, <1>5 DEF Cutting, Lost

LEMMA CuttingWhole ==
  ASSUME NEW d \in [Page -> Content], Whole(d), d # Empty, NEW n \in Nat, n > 0, Beyond(n, d[1], d)
  PROVE  /\ Whole(Cutting(d, n)) /\ Calm(Cutting(d, n), Lost(d, n)) /\ Cutting(d, n)[1] = d[1]
         /\ Contents(Cutting(d, n)) = Contents(d)
<1>1. PICK e : e = Cutting(d, n)
  OBVIOUS
<1>2. PICK u : u = Lost(d, n)
  OBVIOUS
<1>3. /\ e \in Database /\ \A p \in Page : p <= n => e[p] = d[p] /\ u[p] = {}
      /\ \A p \in Page : p > n => e[p] = Absent /\ u[p] = {d[p]} \ {Absent}
  BY <1>1, <1>2, CuttingIs
<1>4. e[1] = d[1]
  BY <1>3, PageOne
<1>5. Whole(e)
  BY <1>3, <1>4 DEF Whole
<1>6. Size(e) <= n
  <2>1. Size(e) \in 0..N /\ (Size(e) > 0 => e[Size(e)] # Absent)
    BY SizeFits
  <2>2. Size(e) > n => Size(e) \in Page /\ Size(e) > 0
    BY <2>1, PageOne DEF Page
  <2>3. ~(Size(e) > n)
    BY <1>3, <2>1, <2>2
  <2>4. Size(e) \in Nat
    BY <2>1, PageOne
  <2>5. QED
    BY <2>3, <2>4
<1>7. ASSUME NEW p \in Page, u[p] # {}
      PROVE  p > Size(e) /\ p > Pages(e[1]) /\ \E v \in Value : u[p] = {v}
  <2>1. p > n
    BY <1>3, <1>7, Ordered
  <2>2. u[p] = {d[p]} /\ d[p] # Absent
    BY <1>3, <1>7, <2>1
  <2>3. d[p] \in Value
    BY <2>2 DEF Whole, Database
  <2>4. p > Pages(e[1])
    BY <1>4, <2>1, <2>2 DEF Beyond
  <2>5. p > Size(e)
    <3>1. Size(e) \in 0..N
      BY SizeFits
    <3>2. QED
      BY <1>6, <2>1, <3>1, PageOne
  <2>6. QED
    BY <2>2, <2>3, <2>4, <2>5
<1>8. Calm(e, u)
  BY <1>7 DEF Calm
<1>9. Contents(e) = Contents(d)
  <2>1. ASSUME NEW p \in Page, p <= Pages(d[1])
        PROVE  e[p] = d[p]
    <3>1. CASE p <= n
      BY <1>3, <3>1
    <3>2. CASE p > n
      <4>1. Pages(d[1]) \in Nat
        BY WholeOne, PageOne
      <4>2. ~(p > Pages(d[1]))
        BY <2>1, <4>1, Ordered
      <4>3. d[p] = Absent
        BY <3>2, <4>2 DEF Beyond
      <4>4. QED
        BY <1>3, <3>2, <4>3
    <3>3. QED
      BY <3>1, <3>2, Ordered
  <2>2. QED
    BY <1>4, <2>1 DEF Contents
<1>10. QED
  BY <1>1, <1>2, <1>4, <1>5, <1>8, <1>9

LEMMA CuttingMends ==
  ASSUME NEW d \in [Page -> Content], Whole(d), d # Empty, NEW n \in Nat, n > 0, Beyond(n, d[1], d),
         NEW j \in Journal \cup {NoJournal}, Mends(d, Nothing, j)
  PROVE  /\ Mends(Cutting(d, n), Lost(d, n), j)
         /\ Contents(Gives(Cutting(d, n), Lost(d, n), j)) = Contents(Gives(d, Nothing, j))
<1>1. PICK e : e = Cutting(d, n)
  OBVIOUS
<1>2. PICK u : u = Lost(d, n)
  OBVIOUS
<1>3. /\ e \in [Page -> Content] /\ u \in [Page -> SUBSET Content]
      /\ \A p \in Page : p <= n => e[p] = d[p] /\ u[p] = {}
      /\ \A p \in Page : p > n => e[p] = Absent /\ u[p] = {d[p]} \ {Absent}
  BY <1>1, <1>2, CuttingIs
<1>4. Whole(e) /\ Calm(e, u) /\ e[1] = d[1] /\ u[1] = {} /\ Contents(e) = Contents(d)
  BY <1>1, <1>2, <1>3, CuttingWhole, PageOne
<1>5. Nothing \in [Page -> SUBSET Content] /\ \A p \in Page : Nothing[p] = {}
  BY DEF Nothing
<1>6. CASE ~Hot(j)
  <2>1. Mends(e, u, j)
    BY <1>4, <1>6 DEF Mends
  <2>2. Gives(e, u, j) = e
    BY <1>3, <1>6, <2>1, GivesIs
  <2>3. Gives(d, Nothing, j) = d
    BY <1>5, <1>6, GivesIs
  <2>4. QED
    BY <1>1, <1>2, <1>4, <2>1, <2>2, <2>3
<1>7. CASE Hot(j)
  <2>1. ASSUME NEW p \in Page, p <= j.size, p \notin DOMAIN j.kept
        PROVE  Sure(e[p], u[p]) /\ Disk(e, u, j)[p] = d[p]
    <3>1. d[p] \in Datum
      BY <1>5, <1>7, <2>1 DEF Mends, Sure
    <3>2. CASE p <= n
      <4>1. e[p] = d[p] /\ u[p] = {}
        BY <1>3, <3>2
      <4>2. Disk(e, u, j)[p] = e[p]
        BY <1>3, <4>1, DiskIs
      <4>3. QED
        BY <3>1, <4>1, <4>2 DEF Sure
    <3>3. CASE p > n /\ d[p] = Absent
      <4>1. e[p] = Absent /\ u[p] = {}
        BY <1>3, <3>3
      <4>2. Disk(e, u, j)[p] = e[p]
        BY <1>3, <4>1, DiskIs
      <4>3. QED
        BY <3>3, <4>1, <4>2 DEF Sure, Datum
    <3>4. CASE p > n /\ d[p] # Absent
      <4>1. e[p] = Absent /\ u[p] = {d[p]} /\ d[p] \in Value
        BY <1>3, <3>1, <3>4 DEF Datum
      <4>2. \A q \in Page : \A x : Hot(j) /\ e[q] = Absent /\ u[q] = {x} /\ q <= j.size => Disk(e, u, j)[q] = x
        BY <1>3, DiskIs
      <4>3. Disk(e, u, j)[p] = d[p]
        BY <1>7, <2>1, <4>1, <4>2
      <4>4. QED
        BY <4>1, <4>3 DEF Sure
    <3>5. QED
      BY <3>2, <3>3, <3>4, Ordered
  <2>2. j.size > 0 => d[1] # Absent /\ Headed(IF 1 \in DOMAIN j.kept THEN j.kept[1] ELSE d[1])
    BY <1>7 DEF Mends
  <2>3. Mends(e, u, j)
    BY <1>4, <1>7, <2>1, <2>2 DEF Mends
  <2>4. j.size \in Nat
    BY <1>5, <1>7, HotGives, PageOne
  <2>5. Gives(e, u, j) = Back(Disk(e, u, j), j) /\ Gives(d, Nothing, j) = Back(Disk(d, Nothing, j), j)
    BY <1>3, <1>5, <1>7, <2>3, GivesIs
  <2>6. \A p \in Page : Disk(d, Nothing, j)[p] = d[p]
    BY <1>5, DiskIs
  <2>7. \A p \in Page : Back(Disk(e, u, j), j)[p] = Back(Disk(d, Nothing, j), j)[p]
    BY <2>1, <2>4, <2>6, Ordered DEF Back
  <2>8. Back(Disk(e, u, j), j) = Back(Disk(d, Nothing, j), j)
    BY <2>7 DEF Back
  <2>9. QED
    BY <1>1, <1>2, <2>3, <2>5, <2>8
<1>8. QED
  BY <1>6, <1>7

LEMMA TrimFiles ==
  ASSUME Files, UNCHANGED <<jrnl, jrnlOld>>, NEW n \in Nat, n > 0, Truncate(n),
         jrnl = NoJournal, Settled(dbOld), db # Empty, Beyond(n, db[1], db)
  PROVE  /\ Files' /\ Logical' = Logical /\ Survivors' = Survivors
         /\ Committed = db /\ Committed' = Cutting(db, n)
<1>1. PICK d : d = db
  OBVIOUS
<1>2. PICK e : e = Cutting(d, n)
  OBVIOUS
<1>3. PICK u : u = Lost(d, n)
  OBVIOUS
<1>4. db \in [Page -> Content] /\ dbOld \in [Page -> SUBSET Content]
      /\ Left \subseteq Journal \cup {NoJournal} /\ \A j \in Left : Mends(db, dbOld, j)
  BY DEF Files
<1>5. dbOld = Nothing
  BY <1>4 DEF Settled, Nothing
<1>6. db' = e /\ dbOld' = u
  <2>1. \A p \in Page : dbOld[p] = {}
    BY DEF Settled
  <2>2. dbOld' = [p \in Page |-> IF p > n /\ db[p] # Absent THEN {db[p]} ELSE {}]
    BY <2>1 DEF Truncate
  <2>3. QED
    BY <1>1, <1>2, <1>3, <2>2 DEF Truncate, Cutting, Lost
<1>7. Committed = d /\ Whole(d) /\ ~Hot(jrnl)
  <2>1. ~Hot(jrnl)
    BY DEF Hot
  <2>2. QED
    BY <1>1, <2>1, CommittedWhole
<1>8. \A j \in Left : Mends(e, u, j) /\ Contents(Gives(e, u, j)) = Contents(Gives(d, Nothing, j))
  BY <1>1, <1>2, <1>3, <1>4, <1>5, <1>7, CuttingMends
<1>9. e \in [Page -> Content] /\ u \in [Page -> SUBSET Content] /\ Contents(e) = Contents(d)
  BY <1>1, <1>2, <1>3, <1>4, <1>7, CuttingIs, CuttingWhole
<1>10. Left' = Left /\ Firm(u, jrnl) /\ Recovered(e, jrnl) = e
  BY <1>7, Cold DEF Left, Firm
<1>11. Files'
  BY <1>4, <1>6, <1>8, <1>9, <1>10 DEF Files
<1>12. Committed' = e
  BY <1>6, <1>10 DEF Committed
<1>13. Logical' = Logical
  BY <1>7, <1>9, <1>12 DEF Logical
<1>14. Found(e, u, Left) = Found(d, Nothing, Left)
  BY <1>8 DEF Found
<1>15. Survivors' = Survivors
  BY <1>1, <1>5, <1>6, <1>10, <1>14, SurvivorsFound
<1>16. QED
  BY <1>1, <1>2, <1>7, <1>11, <1>12, <1>13, <1>15

LEMMA TrimOwn ==
  ASSUME HotInv, Files, Maps, NEW c \in Conn, Own(c), Trimming(c), Trim(c)
  PROVE  /\ Files' /\ Own(c)' /\ Logical' = Logical /\ Survivors' = Survivors /\ UNCHANGED view
         /\ db # Empty /\ Committed'[1] = db[1] /\ Counter(db[1]) \in Nat
<1>1. pc[c] = "trim" /\ pc'[c] = "downgrade" /\ Truncate(dbSize[c]) /\ UNCHANGED <<jrnl, jrnlOld, view>>
  BY DEF Trim, At, Maps, Goto, Set
<1>2. /\ eState'[c] = eState[c] /\ cache'[c] = cache[c] /\ dirty'[c] = dirty[c]
      /\ vers'[c] = vers[c] /\ held'[c] = held[c] /\ orig'[c] = orig[c] /\ dbSize'[c] = dbSize[c]
      /\ safe'[c] = safe[c] /\ goal'[c] = goal[c] /\ todo'[c] = todo[c] /\ spill'[c] = spill[c]
      /\ view'[c] = view[c]
  BY DEF Trim, pagerVars
<1>3. eState[c] = "finished" /\ Shaped(c) /\ Reading(c) /\ view[c] = Logical
  BY <1>1 DEF HotInv, Mine, Placed, Own
<1>4. /\ jrnl = NoJournal /\ Settled(dbOld) /\ db # Empty /\ Beyond(dbSize[c], db[1], db)
      /\ \A p \in DOMAIN cache[c] : p <= dbSize[c]
  BY <1>1 DEF Trimming
<1>5. Committed = db /\ Whole(db)
  <2>1. ~Hot(jrnl)
    BY <1>4 DEF Hot
  <2>2. QED
    BY <2>1, CommittedWhole
<1>6. /\ dirty[c] = {} /\ todo[c] = {} /\ spill[c] = 0 /\ held[c]
      /\ Part(cache[c], db) /\ 1 \in DOMAIN cache[c] /\ vers[c] = Counter(db[1])
  BY <1>1, <1>3, <1>4, <1>5 DEF Reading
<1>7. dbSize[c] \in Nat /\ dbSize[c] > 0
  <2>1. dbSize[c] \in Nat
    BY <1>3, BoundsAssumption DEF Shaped
  <2>2. 1 <= dbSize[c]
    BY <1>4, <1>6
  <2>3. QED
    BY <2>1, <2>2
<1>8. Files' /\ Logical' = Logical /\ Survivors' = Survivors /\ Committed' = Cutting(db, dbSize[c])
  BY <1>1, <1>4, <1>7, TrimFiles
<1>9. PICK e : e = Cutting(db, dbSize[c])
  OBVIOUS
<1>10. e[1] = db[1] /\ \A p \in Page : p <= dbSize[c] => e[p] = db[p]
  <2>1. db \in [Page -> Content]
    BY DEF Files
  <2>2. QED
    BY <1>4, <1>5, <1>7, <1>9, <2>1, CuttingIs, CuttingWhole
<1>11. Shaped(c)'
  BY <1>2, <1>3 DEF Shaped
<1>12. (pc[c] \in Steps(eState[c]))' /\ (eState[c] \notin {"open", "error"} => view[c] = Logical)'
  BY <1>1, <1>2, <1>3, <1>8 DEF Steps
<1>13. Reading(c)'
  <2>1. Part(cache[c], e)
    <3>1. DOMAIN cache[c] \subseteq Page
      BY <1>3 DEF Shaped, Copy
    <3>2. QED
      BY <1>4, <1>6, <1>10, <3>1 DEF Part
  <2>2. vers[c] = Counter(e[1])
    BY <1>6, <1>10
  <2>3. Committed' = e
    BY <1>8, <1>9
  <2>4. QED
    BY <1>1, <1>2, <1>3, <1>6, <2>1, <2>2, <2>3 DEF Reading
<1>14. Waiting(c)' /\ Writer(c)' /\ Tasks(c)' /\ Undoing(c)' /\ Recovering(c)' /\ Finishing(c)'
  BY <1>1, <1>2, <1>3 DEF Waiting, Writer, Tasks, Undoing, Recovering, Finishing, Changed
<1>15. Own(c)'
  BY <1>11, <1>12, <1>13, <1>14 DEF Own
<1>16. Counter(db[1]) \in Nat
  BY <1>5, WholeOne, BoundsAssumption
<1>17. Committed'[1] = db[1]
  BY <1>8, <1>9, <1>10
<1>18. QED
  BY <1>1, <1>4, <1>8, <1>15, <1>16, <1>17

-----------------------------------------------------------------------------
(* Every step of a connection.                                             *)

\* Steps that leave the files alone, and those that leave the committed state.
LEMMA QuietStep ==
  ASSUME Racing = FALSE, StoreInv, NEW c \in Conn, Run(c) \/ Call(c), Kept(c),
         UNCHANGED fileVars, Own(c)'
  PROVE  StoreInv'
<1>1. HotInv'
  BY HotStep DEF StoreInv
<1>2. QED
  BY <1>1, QuietStore

LEMMA SteadyStep ==
  ASSUME Racing = FALSE, StoreInv, NEW c \in Conn, Run(c) \/ Call(c), Kept(c),
         Files', Steady, Own(c)',
         eLock[c] >= RESERVED_LOCK \/ \A d \in Conn \ {c} : ~Holds(d, RESERVED_LOCK)
  PROVE  StoreInv'
<1>1. HotInv /\ IInv
  BY DEF StoreInv, HotInv
<1>2. HotInv' /\ Fine(c)
  BY <1>1, HotStep, RunFine, CallFine
<1>3. ASSUME NEW d \in Conn \ {c}
      PROVE  Aside(d) /\ (pc[d] = "remnant" => UNCHANGED db)
  <2>1. eState[d] \in State
    BY <1>1 DEF IInv, Typed
  <2>2. Aside(d)
    BY <1>1, <2>1, OthersAside
  <2>3. pc[d] = "remnant" => eFileLock[d] = SHARED_LOCK
    BY <1>1 DEF HotInv, Mine, Placed
  <2>4. db' # db => eFileLock[d] = NO_LOCK
    BY <1>1, <1>2, Alone DEF Fine
  <2>5. NO_LOCK # SHARED_LOCK
    BY DEF NO_LOCK, SHARED_LOCK
  <2>6. QED
    BY <2>2, <2>3, <2>4, <2>5
<1>4. QED
  BY <1>2, <1>3, ChangeStore DEF Steady

\* Who writes the files has reserved them.
LEMMA Reserved ==
  ASSUME HotInv, NEW c \in Conn,
         \/ pc[c] \in {"recover", "newdb", "commit", "vacuum", "counter", "jsync", "jheader", "jsync2",
                       "write", "sync", "undo", "restore", "delete"}
         \/ eState[c] \in {"locked", "cachemod", "dbmod"}
  PROVE  eLock[c] >= RESERVED_LOCK
<1>1. Placed(eLock[c], eFileLock[c], pc[c], eState[c]) /\ Fits(eLock[c], pc[c], eState[c])
      /\ eLock[c] \in Level
  BY DEF HotInv, Mine, IInv, Good, Typed
<1>2. eLock[c] = EXCLUSIVE_LOCK \/ eState[c] \in Writing
  BY <1>1 DEF Placed, Fits, Writing
<1>3. QED
  BY <1>1, <1>2 DEF Placed, RESERVED_LOCK, EXCLUSIVE_LOCK

\* Steps that touch no file.
LEMMA CallingStep ==
  ASSUME Racing = FALSE, StoreInv, NEW c \in Conn,
         \/ \E g \in {"read", "write"} : Begin(c, g)
         \/ Upgrade(c) \/ Commit(c) \/ Rollback(c) \/ EndRead(c)
         \/ \E p \in Page : Read(c, p) \/ Spill(c, p)
  PROVE  StoreInv' /\ UNCHANGED fileVars /\ UNCHANGED view
<1>1. HotInv /\ Files /\ Maps /\ Own(c)
  BY DEF StoreInv
<1>2. Kept(c)
  BY <1>1, BeginKept, UpgradeKept, CommitKept, RollbackKept, EndReadKept, ReadKept, SpillKept
<1>3. UNCHANGED fileVars /\ Own(c)' /\ UNCHANGED view
  BY <1>1, LookingOwn, AsReaderOwn, CommitOwn, ReadOwn, SpillOwn
<1>4. Call(c)
  BY DEF Call
<1>5. QED
  BY <1>2, <1>3, <1>4, QuietStep

LEMMA LookingStep ==
  ASSUME Racing = FALSE, StoreInv, NEW c \in Conn,
         Share(c) \/ Exists(c) \/ CheckReserved(c) \/ FirstByte(c) \/ Exclude(c) \/ ReadFails(c)
  PROVE  StoreInv' /\ UNCHANGED fileVars /\ UNCHANGED view
<1>1. HotInv /\ Files /\ Maps /\ Own(c)
  BY DEF StoreInv
<1>2. Kept(c)
  BY <1>1, ShareKept, ExistsKept, CheckReservedKept, FirstByteKept, ExcludeKept, ReadFailsKept
<1>3. UNCHANGED fileVars /\ Own(c)' /\ UNCHANGED view
  BY <1>1, LookingOwn, AsReaderOwn
<1>4. Run(c)
  BY DEF Run
<1>5. QED
  BY <1>2, <1>3, <1>4, QuietStep

LEMMA LockingStep ==
  ASSUME Racing = FALSE, StoreInv, NEW c \in Conn,
         Reserve(c) \/ Downgrade(c) \/ CommitLock(c) \/ WriteFails(c)
  PROVE  StoreInv' /\ UNCHANGED fileVars /\ UNCHANGED view
<1>1. HotInv /\ Files /\ Maps /\ Own(c)
  BY DEF StoreInv
<1>2. Kept(c)
  BY <1>1, ReserveKept, DowngradeKept, CommitLockKept, WriteFailsKept
<1>3. UNCHANGED fileVars /\ Own(c)' /\ UNCHANGED view
  BY <1>1, ReserveOwn, DowngradeOwn, CommitLockOwn, WriteFailsOwn
<1>4. Run(c)
  BY DEF Run
<1>5. QED
  BY <1>2, <1>3, <1>4, QuietStep

LEMMA LeavingStep ==
  ASSUME Racing = FALSE, StoreInv, NEW c \in Conn, Release(c) \/ Abort(c)
  PROVE  StoreInv' /\ UNCHANGED fileVars /\ view' = Set(view, c, NoView)
<1>1. Maps /\ Own(c)
  BY DEF StoreInv
<1>2. Kept(c)
  BY <1>1, ReleaseKept, AbortKept
<1>3. UNCHANGED fileVars /\ Own(c)' /\ view' = Set(view, c, NoView)
  BY <1>1, LeavingOwn
<1>4. Run(c)
  BY DEF Run
<1>5. QED
  BY <1>2, <1>3, <1>4, QuietStep

LEMMA ValidateStep ==
  ASSUME Racing = FALSE, StoreInv, NEW c \in Conn, Validate(c)
  PROVE  StoreInv' /\ UNCHANGED fileVars /\ view[c] = NoView /\ view' = Set(view, c, Logical)
<1>1. HotInv /\ Files /\ Maps /\ Own(c)
  BY DEF StoreInv
<1>2. UNCHANGED fileVars /\ Own(c)' /\ view[c] = NoView /\ view' = Set(view, c, Logical)
  BY <1>1, ValidateOwn
<1>3. Kept(c) /\ Run(c)
  BY <1>1, ValidateKept DEF Run
<1>4. QED
  BY <1>2, <1>3, QuietStep

\* Steps that write.
LEMMA WritingStep ==
  ASSUME Racing = FALSE, StoreInv, NEW c \in Conn,
         \/ NewDatabase(c) \/ AutoVacuum(c) \/ ChangeCounter(c) \/ JournalSync(c) \/ JournalHeader(c)
         \/ HeaderSync(c) \/ WritePage(c) \/ DbSync(c) \/ PageFails(c)
         \/ \E p \in Page : Write(c, p)
  PROVE  StoreInv' /\ Steady /\ UNCHANGED view
<1>1. HotInv /\ Files /\ Maps /\ Own(c)
  BY DEF StoreInv
<1>2. Kept(c)
  BY <1>1, NewDatabaseKept, AutoVacuumKept, ChangeCounterKept, JournalSyncKept, JournalHeaderKept,
     HeaderSyncKept, WritePageKept, DbSyncKept, PageFailsKept, WriteKept
<1>3. Files' /\ Steady /\ Own(c)'
  BY <1>1, NewDatabaseOwn, AutoVacuumOwn, ChangeCounterOwn, JournalSyncOwn, JournalHeaderOwn,
     HeaderSyncOwn, WritePageOwn, DbSyncOwn, PageFailsOwn, WriteOwn
<1>4. \/ pc[c] \in {"newdb", "vacuum", "counter", "jsync", "jheader", "jsync2", "write", "sync"}
      \/ eState[c] \in {"locked", "cachemod", "dbmod"}
  BY DEF NewDatabase, AutoVacuum, ChangeCounter, JournalSync, JournalHeader, HeaderSync, WritePage, DbSync,
     PageFails, Write, MayWrite, At
<1>5. eLock[c] >= RESERVED_LOCK
  BY <1>1, <1>4, Reserved
<1>6. UNCHANGED view
  BY DEF NewDatabase, AutoVacuum, ChangeCounter, JournalSync, JournalHeader, HeaderSync, WritePage, DbSync,
     PageFails, Write
<1>7. Run(c) \/ Call(c)
  BY DEF Run, Call
<1>8. QED
  BY <1>2, <1>3, <1>5, <1>6, <1>7, SteadyStep

LEMMA PlayingBackStep ==
  ASSUME Racing = FALSE, StoreInv, NEW c \in Conn,
         Recover(c) \/ Undo(c) \/ Restored(c) \/ \E p \in Page : Restore(c, p)
  PROVE  StoreInv' /\ Steady /\ UNCHANGED view
<1>1. HotInv /\ Files /\ Maps /\ Own(c)
  BY DEF StoreInv
<1>2. Kept(c)
  BY <1>1, RecoverKept, UndoKept, RestoredKept, RestoreKept
<1>3. Files' /\ Steady /\ Own(c)'
  BY <1>1, RecoverOwn, UndoOwn, RestoredOwn, RestoreOwn
<1>4. pc[c] \in {"recover", "undo", "restore"}
  BY DEF Recover, Undo, Restored, Restore, At
<1>5. eLock[c] >= RESERVED_LOCK
  BY <1>1, <1>4, Reserved
<1>6. UNCHANGED view
  BY DEF Recover, Undo, Restored, Restore
<1>7. Run(c)
  BY DEF Run
<1>8. QED
  BY <1>2, <1>3, <1>5, <1>6, <1>7, SteadyStep

LEMMA EndFailsStep ==
  ASSUME Racing = FALSE, StoreInv, NEW c \in Conn, EndFails(c)
  PROVE  StoreInv' /\ Steady /\ UNCHANGED view
<1>1. HotInv /\ Files /\ Maps /\ Own(c)
  BY DEF StoreInv
<1>2. Kept(c) /\ Own(c)' /\ UNCHANGED view /\ UNCHANGED <<db, dbOld>> /\ Run(c)
  BY <1>1, EndFailsKept, EndFailsOwn DEF EndFails, Run
<1>3. CASE UNCHANGED <<jrnl, jrnlOld>>
  <2>1. UNCHANGED fileVars
    BY <1>2, <1>3 DEF fileVars
  <2>2. QED
    BY <1>1, <1>2, <2>1, QuietStep, QuietSteady
<1>4. CASE At(c, "recover") /\ SyncJournal
  <2>1. jrnl' = jrnl /\ jrnlOld' = {}
    BY <1>4 DEF SyncJournal
  <2>2. jrnl \in Journal \cup {NoJournal} /\ Mends(db, dbOld, jrnl) /\ Firm(dbOld, jrnl)
    BY <1>1 DEF Files, Left
  <2>3. Recovered(db, jrnl) = Committed
    BY DEF Committed
  <2>4. Files' /\ Steady
    BY <1>1, <1>2, <2>1, <2>2, <2>3, JournalSteady
  <2>5. eLock[c] >= RESERVED_LOCK
    BY <1>1, <1>4, Reserved DEF At
  <2>6. QED
    BY <1>2, <2>4, <2>5, SteadyStep
<1>5. QED
  BY <1>3, <1>4 DEF EndFails

LEMMA RemnantStep ==
  ASSUME Racing = FALSE, StoreInv, NEW c \in Conn, Remnant(c)
  PROVE  StoreInv' /\ Steady /\ UNCHANGED view
<1> USE DEF Level, NO_LOCK, SHARED_LOCK, RESERVED_LOCK, PENDING_LOCK, EXCLUSIVE_LOCK
<1>1. HotInv /\ Files /\ Maps /\ Own(c)
  BY DEF StoreInv
<1>2. Kept(c) /\ Files' /\ Steady /\ Own(c)' /\ UNCHANGED view /\ Run(c)
  BY <1>1, RemnantKept, RemnantOwn DEF Remnant, Run
<1>3. CASE Busy(c, RESERVED_LOCK)
  <2>1. UNCHANGED fileVars
    BY <1>3 DEF Remnant, fileVars
  <2>2. QED
    BY <1>2, <2>1, QuietStep
<1>4. CASE ~Busy(c, RESERVED_LOCK)
  <2>1. /\ eFileLock \in [Conn -> Level] /\ eFileLock[c] = SHARED_LOCK
        /\ inode.eFileLock \in Level /\ \A d \in Conn : eFileLock[d] <= inode.eFileLock
    BY <1>1 DEF HotInv, Mine, Placed, IInv, Remnant, At, LockInv, LockTypeOK, InodeAgrees
  <2>2. inode.eFileLock = SHARED_LOCK
    BY <1>4, <2>1 DEF Busy, Conflict, Holds
  <2>3. \A d \in Conn \ {c} : ~Holds(d, RESERVED_LOCK)
    BY <2>1, <2>2 DEF Holds
  <2>4. QED
    BY <1>2, <2>3, SteadyStep
<1>5. QED
  BY <1>3, <1>4

LEMMA UndoneStep ==
  ASSUME Racing = FALSE, StoreInv, NEW c \in Conn, Delete(c), eState[c] # "finished"
  PROVE  StoreInv' /\ Steady /\ UNCHANGED view
<1>1. HotInv /\ Files /\ Maps /\ Own(c)
  BY DEF StoreInv
<1>2. Kept(c) /\ Files' /\ Steady /\ Own(c)' /\ UNCHANGED view
  BY <1>1, DeleteKept, UndoneOwn DEF Delete
<1>3. eLock[c] >= RESERVED_LOCK
  BY <1>1, Reserved DEF Delete, At
<1>4. QED
  BY <1>2, <1>3, SteadyStep DEF Run

-----------------------------------------------------------------------------
(* A commit, and the cut after it.                                         *)

\* Nobody else has a lock.
LEMMA OthersOutside ==
  ASSUME HotInv, NEW c \in Conn, eLock[c] = EXCLUSIVE_LOCK, NEW d \in Conn \ {c}, Own(d)
  PROVE  eState[d] = "open" /\ pc[d] \in {"idle", "share", "release"}
<1> USE DEF Level, NO_LOCK, SHARED_LOCK, RESERVED_LOCK, PENDING_LOCK, EXCLUSIVE_LOCK
<1>1. eFileLock[d] = NO_LOCK /\ eState[d] = "open"
  BY Alone DEF HotInv
<1>2. eLock[d] = NO_LOCK /\ Fits(eLock[d], pc[d], eState[d])
  BY <1>1, Levels DEF HotInv, IInv, Good
<1>3. pc[d] \in Steps("open")
  BY <1>1 DEF Own
<1>4. QED
  BY <1>1, <1>2, <1>3 DEF Fits, Steps

LEMMA FinishedStep ==
  ASSUME Racing = FALSE, StoreInv, NEW c \in Conn, Delete(c), eState[c] = "finished"
  PROVE  /\ StoreInv' /\ Trims' /\ Logical' \in Database /\ Survivors' = {Logical, Logical'}
         /\ view[c] = Logical /\ view' = Set(view, c, Logical')
<1>1. HotInv /\ Files /\ Maps /\ Own(c)
  BY DEF StoreInv
<1>2. HotInv' /\ Kept(c)
  BY <1>1, HotStep, DeleteKept DEF Run
<1>3. /\ Files' /\ Own(c)' /\ Committed' = db /\ UNCHANGED db
      /\ Logical' = Contents(db) /\ Contents(db) \in Database /\ Survivors' = {Logical, Contents(db)}
      /\ view[c] = Logical /\ view' = Set(view, c, Contents(db))
      /\ Counter(db[1]) \in Nat /\ Counter(Committed[1]) \in Nat /\ Counter(db[1]) > Counter(Committed[1])
      /\ jrnl' = NoJournal /\ Settled(dbOld') /\ db # Empty /\ Beyond(dbSize'[c], db[1], db)
      /\ \A p \in DOMAIN cache'[c] : p <= dbSize'[c]
  BY <1>1, FinishedOwn
<1>4. eLock[c] = EXCLUSIVE_LOCK
  BY <1>1 DEF HotInv, IInv, Good, Fits
<1>5. ASSUME NEW d \in Conn \ {c}
      PROVE  /\ Own(d)' /\ (cache'[d] = NoImage \/ vers'[d] < Counter(db[1]))
             /\ pc'[d] \in {"idle", "share", "release"}
  <2>1. Same(d) /\ Own(d)
    BY <1>2, OthersStay DEF StoreInv
  <2>2. eState[d] = "open" /\ pc[d] \in {"idle", "share", "release"}
    BY <1>1, <1>4, <2>1, OthersOutside
  <2>3. cache[d] = NoImage \/ vers[d] < Counter(db[1])
    BY <1>3, <2>1, <2>2, CommitPasses
  <2>4. Own(d)'
    BY <1>3, <2>1, <2>2, <2>3, PassedOwn
  <2>5. QED
    BY <2>1, <2>2, <2>3, <2>4 DEF Same
<1>6. Maps'
  BY <1>2 DEF Kept, Only, Maps
<1>7. StoreInv'
  BY <1>2, <1>3, <1>5, <1>6 DEF StoreInv
<1>8. Trims'
  <2>1. ASSUME NEW d \in Conn \ {c}
        PROVE  Trimming(d)'
    BY <1>5 DEF Trimming
  <2>2. Trimming(c)'
    BY <1>3, <1>5 DEF Trimming
  <2>3. QED
    BY <2>1, <2>2 DEF Trims
<1>9. QED
  BY <1>3, <1>7, <1>8

LEMMA TrimStep ==
  ASSUME Racing = FALSE, StoreInv, Trims, NEW c \in Conn, Trim(c)
  PROVE  StoreInv' /\ Logical' = Logical /\ Survivors' = Survivors /\ UNCHANGED view
<1>1. HotInv /\ Files /\ Maps /\ Own(c) /\ Trimming(c) /\ pc[c] = "trim"
  BY DEF StoreInv, Trims, Trim, At
<1>2. HotInv' /\ Kept(c)
  BY <1>1, HotStep, TrimKept DEF Run
<1>3. /\ Files' /\ Own(c)' /\ Logical' = Logical /\ Survivors' = Survivors /\ UNCHANGED view
      /\ Committed'[1] = db[1] /\ Counter(db[1]) \in Nat
  BY <1>1, TrimOwn
<1>4. eLock[c] = EXCLUSIVE_LOCK
  BY <1>1 DEF HotInv, IInv, Good, Fits
<1>5. ASSUME NEW d \in Conn \ {c}
      PROVE  Own(d)'
  <2>1. Same(d) /\ Own(d)
    BY <1>2, OthersStay DEF StoreInv
  <2>2. eState[d] = "open" /\ pc[d] \in {"idle", "share", "release"}
    BY <1>1, <1>4, <2>1, OthersOutside
  <2>3. cache[d] = NoImage \/ vers[d] < Counter(db[1])
    BY <1>1 DEF Trimming
  <2>4. QED
    BY <1>3, <2>1, <2>2, <2>3, PassedOwn
<1>6. Maps'
  BY <1>2 DEF Kept, Only, Maps
<1>7. QED
  BY <1>2, <1>3, <1>5, <1>6 DEF StoreInv

\* No other step leads to the cut.
LEMMA NotToTrim ==
  ASSUME Maps, NEW c \in Conn, Run(c) \/ Call(c), ~(Delete(c) /\ eState[c] = "finished")
  PROVE  pc'[c] # "trim"
<1>1. \A l : Goto(c, l) => pc'[c] = l
  BY GotoIs
<1>2. pc = [x \in Conn |-> pc[x]]
  BY DEF Maps
<1>3. CASE \/ Share(c) \/ Exists(c) \/ CheckReserved(c) \/ FirstByte(c) \/ Remnant(c) \/ Exclude(c)
           \/ Recover(c) \/ Validate(c) \/ Reserve(c) \/ NewDatabase(c)
  BY <1>1, <1>3 DEF Share, Exists, CheckReserved, FirstByte, Remnant, Exclude, Recover, Validate, Reserve,
     NewDatabase
<1>4. CASE CommitLock(c)
  BY <1>1, <1>2, <1>4 DEF CommitLock, RollingBack, Set, At
<1>5. CASE \/ AutoVacuum(c) \/ ChangeCounter(c) \/ JournalSync(c) \/ JournalHeader(c) \/ HeaderSync(c)
           \/ WritePage(c) \/ DbSync(c) \/ WriteFails(c) \/ PageFails(c) \/ Undo(c)
  BY <1>1, <1>5 DEF AutoVacuum, ChangeCounter, JournalSync, JournalHeader, HeaderSync, WritePage, DbSync,
     WriteFails, PageFails, RollingBack, Undo
<1>6. CASE \E p \in Page : Restore(c, p)
  BY <1>6 DEF Restore, At
<1>7. CASE Restored(c) \/ (Delete(c) /\ eState[c] # "finished") \/ Trim(c) \/ EndFails(c) \/ ReadFails(c)
           \/ Release(c) \/ Abort(c)
  BY <1>1, <1>7 DEF Restored, Delete, Trim, EndFails, ReadFails, Release, Abort
<1>8. CASE Downgrade(c)
  BY <1>1, <1>2, <1>8 DEF Downgrade, Set
<1>9. CASE Call(c)
  BY <1>1, <1>9 DEF Call, Begin, Upgrade, Commit, Rollback, RollingBack, EndRead, Read, Write, Spill, callVars, At
<1>10. QED
  BY <1>3, <1>4, <1>5, <1>6, <1>7, <1>8, <1>9 DEF Run

\* What a connection does that has no lock yet.
LEMMA OutsideStep ==
  ASSUME NEW c \in Conn, eState[c] = "open", pc[c] \in {"idle", "share", "release"}, Run(c) \/ Call(c)
  PROVE  UNCHANGED <<db, dbOld, jrnl, jrnlOld, cache, vers>>
<1>1. Begin(c, "read") \/ Begin(c, "write") \/ Share(c) \/ Release(c)
  <2>1. CASE Call(c)
    BY <2>1 DEF Call, Upgrade, Commit, Rollback, EndRead, Read, Write, Spill, MayWrite
  <2>2. CASE Run(c)
    <3>1. \/ Share(c) \/ Release(c) \/ PageFails(c) \/ ReadFails(c)
      BY <2>2 DEF Run, At, Exists, CheckReserved, FirstByte, Remnant, Exclude, Recover, Validate, Reserve,
         NewDatabase, CommitLock, AutoVacuum, ChangeCounter, JournalSync, JournalHeader, HeaderSync, WritePage,
         DbSync, WriteFails, Undo, Restore, Restored, Delete, Trim, EndFails, Downgrade, Abort
    <3>2. QED
      BY <3>1 DEF PageFails, ReadFails, MayWrite
  <2>3. QED
    BY <2>1, <2>2
<1>2. QED
  BY <1>1 DEF Begin, Share, Release, fileVars, pagerVars

LEMMA TrimsStay ==
  ASSUME StoreInv, Trims, NEW c \in Conn, Run(c) \/ Call(c), Kept(c),
         ~(Delete(c) /\ eState[c] = "finished")
  PROVE  Trims'
<1>1. HotInv /\ Maps /\ Own(c)
  BY DEF StoreInv
<1>2. pc'[c] # "trim"
  BY <1>1, NotToTrim
<1>3. ASSUME NEW d \in Conn \ {c}, pc'[d] = "trim"
      PROVE  Trimming(d)'
  <2>1. Same(d) /\ Trimming(d) /\ pc[d] = "trim"
    BY <1>3, OthersStay DEF Trims, Same
  <2>2. eLock[d] = EXCLUSIVE_LOCK
    BY <1>1, <2>1 DEF HotInv, IInv, Good, Fits
  <2>3. eState[c] = "open" /\ pc[c] \in {"idle", "share", "release"}
    BY <1>1, <2>2, OthersOutside
  <2>4. UNCHANGED <<db, dbOld, jrnl, jrnlOld, cache, vers>> /\ dbSize'[d] = dbSize[d]
    BY <2>1, <2>3, OutsideStep DEF Same
  <2>5. QED
    BY <2>1, <2>4 DEF Trimming, Settled, Beyond
<1>4. QED
  BY <1>2, <1>3 DEF Trims, Trimming

-----------------------------------------------------------------------------
(* Crashes.                                                                *)

LEMMA RestartOwn ==
  ASSUME Restart
  PROVE  Maps' /\ Trims' /\ \A c \in Conn : Own(c)'
<1>1. Maps'
  BY DEF Restart, Maps
<1>2. ASSUME NEW c \in Conn
      PROVE  Own(c)' /\ Trimming(c)'
  <2>1. /\ eState'[c] = "open" /\ pc'[c] = "idle" /\ cache'[c] = NoImage /\ dirty'[c] = {}
        /\ vers'[c] = 0 /\ held'[c] = FALSE /\ orig'[c] = 0 /\ dbSize'[c] = 0 /\ safe'[c] = {}
        /\ goal'[c] = "none" /\ todo'[c] = {} /\ spill'[c] = 0 /\ view'[c] = NoView
    BY DEF Restart
  <2>2. Shaped(c)' /\ (pc[c] \in Steps(eState[c]))' /\ (eState[c] \notin {"open", "error"} => view[c] = Logical)'
    <3>1. 0 \in 0..MaxChange /\ 0 \in 0..N
      BY BoundsAssumption
    <3>2. Shaped(c)'
      BY <2>1, <3>1, NoImageIs DEF Shaped, State
    <3>3. QED
      BY <2>1, <3>2 DEF Steps
  <2>3. Waiting(c)'
    BY <2>1 DEF Waiting
  <2>4. Reading(c)' /\ Writer(c)' /\ Tasks(c)' /\ Undoing(c)' /\ Recovering(c)' /\ Finishing(c)'
    BY <2>1 DEF Reading, Writer, Tasks, Undoing, Recovering, Finishing, Changed
  <2>5. QED
    BY <2>1, <2>2, <2>3, <2>4 DEF Own, Trimming
<1>3. QED
  BY <1>1, <1>2 DEF Trims

LEMMA KillStep ==
  ASSUME StoreInv, Kill
  PROVE  StoreInv' /\ Trims' /\ Logical' = Logical /\ Survivors' = Survivors /\ view' = [c \in Conn |-> NoView]
<1>1. Restart /\ UNCHANGED fileVars
  BY DEF Kill
<1>2. HotInv' /\ Maps' /\ Trims' /\ \A c \in Conn : Own(c)'
  BY <1>1, RestartKeeps, RestartOwn
<1>3. Files' /\ Logical' = Logical
  BY <1>1, FilesStay, QuietFiles DEF StoreInv
<1>4. Survivors' = Survivors
  BY <1>1, QuietFiles, SurvivorsFound
<1>5. QED
  BY <1>1, <1>2, <1>3, <1>4 DEF StoreInv, Restart

\* A page of the file d whose old contents are S after a power failure, beside the
\* journal j.
Torns(d, S, j, p) ==
  IF S = {} THEN {d} ELSE IF d = Absent /\ p <= j.size THEN S ELSE {d, Torn} \cup S

LEMMA HotLoss ==
  ASSUME Files, NEW j \in Left, Hot(j), NEW d \in [Page -> Content],
         \A p \in Page : d[p] \in Torns(db[p], dbOld[p], j, p)
  PROVE  Mends(d, Nothing, j) /\ Recovered(d, j) = Gives(db, dbOld, j)
<1>1. /\ db \in [Page -> Content] /\ dbOld \in [Page -> SUBSET Content]
      /\ j \in Journal \cup {NoJournal} /\ Mends(db, dbOld, j)
  BY FilesAre
<1>2. PICK e : e = Disk(db, dbOld, j)
  OBVIOUS
<1>3. /\ e \in [Page -> Content]
      /\ \A p \in Page : dbOld[p] = {} => e[p] = db[p]
      /\ \A p \in Page : \A x : db[p] = Absent /\ dbOld[p] = {x} /\ p <= j.size => e[p] = x
  <2>1. e \in [Page -> Content]
    BY <1>1, <1>2, DiskIs
  <2>4. \A p \in Page : dbOld[p] = {} => Disk(db, dbOld, j)[p] = db[p]
    BY DEF Disk
  <2>2. \A p \in Page : \A x : Hot(j) /\ db[p] = Absent /\ dbOld[p] = {x} /\ p <= j.size => Disk(db, dbOld, j)[p] = x
    BY <1>1, DiskIs
  <2>3. QED
    BY <1>2, <2>4, <2>1, <2>2
<1>4. Mends(e, Nothing, j)
  BY <1>1, <1>2, DiskMends
<1>5. ASSUME NEW p \in Page, p <= j.size, p \notin DOMAIN j.kept
      PROVE  d[p] = e[p]
  <2>1. Sure(db[p], dbOld[p])
    BY <1>1, <1>5 DEF Mends
  <2>2. CASE dbOld[p] = {}
    BY <1>3, <2>2 DEF Torns
  <2>3. CASE db[p] = Absent /\ \E v \in Value : dbOld[p] = {v}
    <3>1. PICK v \in Value : dbOld[p] = {v}
      BY <2>3
    <3>2. e[p] = v
      BY <1>3, <1>5, <2>3, <3>1
    <3>3. d[p] \in dbOld[p]
      BY <1>5, <2>3, <3>1 DEF Torns
    <3>4. QED
      BY <3>1, <3>2, <3>3
  <2>4. QED
    BY <2>1, <2>2, <2>3 DEF Sure
<1>6. j.size > 0 => d[1] # Absent
  <2>1. j.size > 0 => db[1] # Absent /\ Absent \notin dbOld[1]
    BY <1>1 DEF Mends
  <2>2. d[1] \in {db[1], Torn} \cup dbOld[1]
    BY PageOne DEF Torns
  <2>3. QED
    BY <2>1, <2>2, ContentAssumption
<1>7. Nothing \in [Page -> SUBSET Content] /\ Nothing[1] = {}
  BY PageOne DEF Nothing
<1>8. Mends(d, Nothing, j) /\ Recovered(d, j) = Recovered(e, j)
  <2>1. \A p \in Page : p <= j.size /\ p \notin DOMAIN j.kept => d[p] = e[p] /\ Nothing[p] = Nothing[p]
    BY <1>5
  <2>2. j.size > 0 => d[1] # Absent /\ Absent \notin Nothing[1]
    BY <1>6, <1>7
  <2>3. QED
    BY <1>1, <1>3, <1>4, <1>7, <2>1, <2>2, StillMends
<1>9. QED
  BY <1>2, <1>8 DEF Gives

LEMMA ColdLoss ==
  ASSUME Files, NEW j \in Left, ~Hot(j), NEW d \in [Page -> Content],
         \/ d = db
         \/ Size(db) > 0 /\ \A p \in Page : d[p] \in IF Cut(p) THEN dbOld[p] ELSE {db[p]}
  PROVE  Mends(d, Nothing, j) /\ Contents(Recovered(d, j)) = Contents(Gives(db, dbOld, j))
<1>1. /\ db \in [Page -> Content] /\ dbOld \in [Page -> SUBSET Content]
      /\ j \in Journal \cup {NoJournal} /\ Mends(db, dbOld, j)
  BY FilesAre
<1>2. Whole(db) /\ Calm(db, dbOld) /\ Gives(db, dbOld, j) = db /\ Recovered(d, j) = d
  BY <1>1, GivesIs, Cold DEF Mends
<1>3. Settled(Nothing)
  BY DEF Settled, Nothing
<1>4. Whole(d) /\ Contents(d) = Contents(db)
  <2>1. CASE d = db
    BY <1>2, <2>1
  <2>2. CASE Size(db) > 0 /\ \A p \in Page : d[p] \in IF Cut(p) THEN dbOld[p] ELSE {db[p]}
    <3>1. db # Empty /\ Headed(db[1])
      BY <1>2, <2>2, EmptyWhole, WholeOne
    <3>2. \A p \in Page : Cut(p) => p > Pages(db[1]) /\ \E v \in Value : dbOld[p] = {v}
      BY <1>2, <3>1 DEF Calm, Cut
    <3>3. \A p \in Page : d[p] \in Datum
      <4>1. \A p \in Page : db[p] \in Datum
        BY <1>2, WholeSized
      <4>2. QED
        BY <2>2, <3>2, <4>1 DEF Datum
    <3>4. d \in Database
      BY <3>3 DEF Database, Datum
    <3>5. d[1] = db[1]
      <4>1. db[1] # Absent
        BY <3>1, HeadedIs
      <4>2. ~Cut(1)
        BY <4>1 DEF Cut
      <4>3. QED
        BY <2>2, <4>2, PageOne
    <3>6. Pages(db[1]) \in Nat
      BY <1>2, WholeOne, PageOne
    <3>7. \A p \in Page : p <= Pages(db[1]) => d[p] = db[p]
      BY <2>2, <3>2, <3>6, Ordered
    <3>8. Contents(d) = Contents(db)
      BY <3>5, <3>7 DEF Contents
    <3>9. QED
      BY <3>1, <3>4, <3>5, <3>8 DEF Whole
  <2>3. QED
    BY <2>1, <2>2
<1>5. Mends(d, Nothing, j)
  BY <1>3, <1>4, SettledIs DEF Mends
<1>6. QED
  BY <1>2, <1>4, <1>5

\* Records that no header counts are not read again.
LEMMA UncountedMends ==
  ASSUME NEW j \in Journal, NEW d, NEW o, Mends(d, o, j)
  PROVE  LET k == [j EXCEPT !.more = NoImage]
         IN k \in Journal /\ Mends(d, o, k) /\ Recovered(d, k) = Recovered(d, j)
<1> DEFINE k == [j EXCEPT !.more = NoImage]
<1>1. k \in Journal /\ k.magic = j.magic /\ k.size = j.size /\ k.kept = j.kept
  BY NoImageIs DEF Journal
<1> HIDE DEF k
<1>2. j # NoJournal /\ k # NoJournal
  BY <1>1, JournalAssumption
<1>3. Hot(k) <=> Hot(j)
  BY <1>1, <1>2 DEF Hot
<1>4. Mends(d, o, k)
  BY <1>1, <1>3 DEF Mends
<1>5. Recovered(d, k) = Recovered(d, j)
  BY <1>1, <1>3 DEF Recovered
<1>6. QED
  BY <1>1, <1>4, <1>5 DEF k

\* What a power failure does to the file.
LEMMA LossIs ==
  ASSUME Files, NEW j \in Left, NEW d,
         IF Hot(j)
            THEN d \in {e \in [Page -> Surfacing] : \A p \in Page :
                          e[p] \in IF dbOld[p] = {} THEN {db[p]}
                                   ELSE IF Cut(p) /\ p <= j.size THEN dbOld[p]
                                   ELSE {db[p], Torn} \cup dbOld[p]}
            ELSE \/ d = db
                 \/ Size(db) > 0 /\ d \in {e \in [Page -> Surfacing] : \A p \in Page :
                                              e[p] \in IF Cut(p) THEN dbOld[p] ELSE {db[p]}}
  PROVE  /\ d \in [Page -> Content] /\ Mends(d, Nothing, j)
         /\ Contents(Recovered(d, j)) = Contents(Gives(db, dbOld, j))
<1>1. db \in [Page -> Content] /\ dbOld \in [Page -> SUBSET Content]
  BY FilesAre
<1>2. Surfacing \subseteq Content
  BY <1>1 DEF Surfacing, Content
<1>3. d \in [Page -> Content]
  BY <1>1, <1>2
<1>4. CASE Hot(j)
  <2>1. \A p \in Page : d[p] \in Torns(db[p], dbOld[p], j, p)
    BY <1>4 DEF Torns, Cut
  <2>2. QED
    BY <1>3, <1>4, <2>1, HotLoss
<1>5. CASE ~Hot(j)
  <2>1. CASE d = db
    BY <1>3, <1>5, <2>1, ColdLoss
  <2>2. CASE d # db
    <3>1. Size(db) > 0 /\ \A p \in Page : d[p] \in IF Cut(p) THEN dbOld[p] ELSE {db[p]}
      BY <1>5, <2>2
    <3>2. QED
      BY <1>3, <1>5, <3>1, ColdLoss
  <2>3. QED
    BY <2>1, <2>2
<1>6. QED
  BY <1>4, <1>5

LEMMA PowerLossStep ==
  ASSUME StoreInv, PowerLoss
  PROVE  /\ StoreInv' /\ Trims' /\ Logical' \in Survivors /\ Survivors' = {Logical'}
         /\ view' = [c \in Conn |-> NoView]
<1>1. Restart /\ jrnlOld' = {} /\ Files
  BY DEF PowerLoss, StoreInv
<1>2. HotInv' /\ Maps' /\ Trims' /\ \A c \in Conn : Own(c)'
  BY <1>1, RestartKeeps, RestartOwn
<1>3. PICK j \in Left :
        /\ jrnl' = IF j = NoJournal THEN j ELSE [j EXCEPT !.more = NoImage]
        /\ IF Hot(j)
            THEN db' \in {d \in [Page -> Surfacing] : \A p \in Page :
                            d[p] \in IF dbOld[p] = {} THEN {db[p]}
                                     ELSE IF Cut(p) /\ p <= j.size THEN dbOld[p]
                                     ELSE {db[p], Torn} \cup dbOld[p]}
            ELSE \/ db' = db
                 \/ Size(db) > 0 /\ db' \in {d \in [Page -> Surfacing] : \A p \in Page :
                                              d[p] \in IF Cut(p) THEN dbOld[p] ELSE {db[p]}}
  BY DEF PowerLoss, Left
<1>4. PICK d : d = db'
  OBVIOUS
<1>5. PICK k : k = jrnl'
  OBVIOUS
<1>6. PICK u : u = Nothing
  OBVIOUS
<1>7. dbOld' = u /\ u \in [Page -> SUBSET Content] /\ Settled(u)
  BY <1>6 DEF PowerLoss, Nothing, Settled
<1>8. d \in [Page -> Content] /\ Mends(d, u, j) /\ Contents(Recovered(d, j)) = Contents(Gives(db, dbOld, j))
  BY <1>1, <1>3, <1>4, <1>6, LossIs
<1>9. /\ k \in Journal \cup {NoJournal} /\ Mends(d, u, k)
      /\ Contents(Recovered(d, k)) = Contents(Gives(db, dbOld, j))
  <2>1. CASE j = NoJournal
    BY <1>3, <1>5, <1>8, <2>1
  <2>2. CASE j # NoJournal
    <3>1. j \in Journal
      BY <1>1, <2>2 DEF Files
    <3>2. k = [j EXCEPT !.more = NoImage]
      BY <1>3, <1>5, <2>2
    <3>3. QED
      BY <1>8, <3>1, <3>2, UncountedMends
  <2>3. QED
    BY <2>1, <2>2
<1>10. Firm(u, k)
  BY <1>7, SettledIs
<1>11. Left' = {k}
  BY <1>1, <1>5 DEF Left
<1>12. Files'
  BY <1>4, <1>5, <1>7, <1>8, <1>9, <1>10, <1>11 DEF Files
<1>13. Logical' = Contents(Recovered(d, k))
  BY <1>4, <1>5 DEF Logical, Committed
<1>14. Logical' \in Survivors
  <2>1. Contents(Gives(db, dbOld, j)) \in Survivors
    BY SurvivorsFound DEF Found
  <2>2. QED
    BY <1>9, <1>13, <2>1
<1>15. Survivors' = {Logical'}
  <2>1. PICK L : L = Left'
    OBVIOUS
  <2>2. Gives(d, u, k) = Recovered(d, k)
    BY <1>7, <1>8, <1>9, <1>10, FirmGives
  <2>3. Found(d, u, L) = {Contents(Recovered(d, k))}
    BY <1>11, <2>1, <2>2 DEF Found
  <2>4. Survivors' = Found(d, u, L)
    BY <1>4, <1>7, <2>1, SurvivorsFound
  <2>5. QED
    BY <1>13, <2>3, <2>4
<1>16. QED
  BY <1>1, <1>2, <1>12, <1>14, <1>15 DEF StoreInv, Restart

-----------------------------------------------------------------------------
(* The invariant, and the pager as a store.                                *)

LEMMA StoreInit ==
  ASSUME Init
  PROVE  StoreInv /\ Trims /\ Store!Init
<1>1. HotInv
  BY HotInit
<1>2. /\ db = Empty /\ dbOld = Nothing /\ jrnl = NoJournal /\ jrnlOld = {}
      /\ view = [c \in Conn |-> NoView]
  BY DEF Init, Empty, Nothing
<1>3. Left = {NoJournal} /\ ~Hot(NoJournal)
  BY <1>2 DEF Left, Hot
<1>4. Whole(db)
  BY <1>2, EmptyWhole
<1>5. Files
  <2>1. Mends(db, dbOld, NoJournal)
    BY <1>2, <1>3, <1>4 DEF Mends, Calm
  <2>2. db \in [Page -> Content] /\ dbOld \in [Page -> SUBSET Content]
    BY <1>2 DEF Empty, Nothing, Content
  <2>3. Firm(dbOld, jrnl)
    BY <1>2, <1>3 DEF Firm
  <2>4. QED
    BY <1>3, <2>1, <2>2, <2>3 DEF Files
<1>6. Maps
  BY DEF Init, Maps
<1>7. ASSUME NEW c \in Conn
      PROVE  Own(c) /\ Trimming(c)
  <2>1. /\ eState[c] = "open" /\ pc[c] = "idle" /\ cache[c] = NoImage /\ dirty[c] = {}
        /\ vers[c] = 0 /\ held[c] = FALSE /\ orig[c] = 0 /\ dbSize[c] = 0 /\ safe[c] = {}
        /\ goal[c] = "none" /\ todo[c] = {} /\ spill[c] = 0 /\ view[c] = NoView
    BY DEF Init
  <2>2. 0 \in 0..MaxChange /\ 0 \in 0..N
    BY BoundsAssumption
  <2>3. Shaped(c) /\ (pc[c] \in Steps(eState[c])) /\ (eState[c] \notin {"open", "error"} => view[c] = Logical)
    BY <2>1, <2>2, NoImageIs DEF Shaped, State, Steps
  <2>4. Waiting(c)
    BY <2>1 DEF Waiting
  <2>5. Reading(c) /\ Writer(c) /\ Tasks(c) /\ Undoing(c) /\ Recovering(c) /\ Finishing(c)
    BY <2>1 DEF Reading, Writer, Tasks, Undoing, Recovering, Finishing, Changed
  <2>6. QED
    BY <2>1, <2>3, <2>4, <2>5 DEF Own, Trimming
<1>8. Store!Init
  <2>1. Logical \in Database
    BY <1>5, CommittedWhole, ContentsIs DEF Logical
  <2>2. Survivors = {Logical}
    <3>1. Gives(db, dbOld, NoJournal) = Committed
      BY <1>2, <1>5, CommittedWhole
    <3>2. Survivors = Found(db, dbOld, {NoJournal})
      BY <1>3, SurvivorsFound
    <3>3. QED
      BY <3>1, <3>2 DEF Found, Logical
  <2>3. QED
    BY <1>2, <2>1, <2>2 DEF Store!Init, Logical, Committed
<1>9. QED
  BY <1>1, <1>5, <1>6, <1>7, <1>8 DEF StoreInv, Trims

\* What a step is in the store.
LEMMA SteadyIs ==
  ASSUME Steady, UNCHANGED view
  PROVE  [Store!Next]_Store!vars
<1>1. Logical' = Logical
  BY DEF Steady, Logical
<1>2. CASE Survivors' = Survivors
  BY <1>1, <1>2 DEF Store!vars, Logical, Committed
<1>3. CASE Survivors' = {Logical}
  BY <1>1, <1>3 DEF Store!Next, Store!Settle, Logical, Committed
<1>4. QED
  BY <1>2, <1>3 DEF Steady

LEMMA QuietIs ==
  ASSUME UNCHANGED fileVars
  PROVE  Logical' = Logical /\ Survivors' = Survivors
BY QuietFiles, SurvivorsFound

LEMMA AnyKept ==
  ASSUME Maps, NEW c \in Conn, Run(c) \/ Call(c)
  PROVE  Kept(c)
<1>1. CASE Call(c)
  BY <1>1, BeginKept, UpgradeKept, CommitKept, RollbackKept, EndReadKept, ReadKept, WriteKept, SpillKept DEF Call
<1>2. CASE Run(c)
  BY <1>2, ShareKept, ExistsKept, CheckReservedKept, FirstByteKept, RemnantKept, ExcludeKept, RecoverKept,
     ValidateKept, ReserveKept, NewDatabaseKept, CommitLockKept, AutoVacuumKept, ChangeCounterKept,
     JournalSyncKept, JournalHeaderKept, HeaderSyncKept, WritePageKept, DbSyncKept, WriteFailsKept,
     PageFailsKept, UndoKept, RestoreKept, RestoredKept, DeleteKept, TrimKept, EndFailsKept, DowngradeKept,
     ReadFailsKept, ReleaseKept, AbortKept DEF Run
<1>3. QED
  BY <1>1, <1>2

LEMMA ConnectionStep ==
  ASSUME Racing = FALSE, StoreInv, Trims, NEW c \in Conn, Run(c) \/ Call(c)
  PROVE  StoreInv' /\ Trims' /\ [Store!Next]_Store!vars
<1>1. CASE Delete(c) /\ eState[c] = "finished"
  <2>1. /\ StoreInv' /\ Trims' /\ Logical' \in Database /\ Survivors' = {Logical, Logical'}
        /\ view[c] = Logical /\ view' = Set(view, c, Logical')
    BY <1>1, FinishedStep
  <2>2. Store!Commit(c)
    BY <2>1 DEF Store!Commit, Logical, Committed, Set
  <2>3. QED
    BY <2>1, <2>2 DEF Store!Next
<1>2. CASE ~(Delete(c) /\ eState[c] = "finished")
  <2>1. Trims'
    BY <1>2, AnyKept, TrimsStay DEF StoreInv
  <2>2. CASE \/ Share(c) \/ Exists(c) \/ CheckReserved(c) \/ FirstByte(c) \/ Exclude(c) \/ ReadFails(c)
             \/ \E g \in {"read", "write"} : Begin(c, g)
             \/ Upgrade(c) \/ Commit(c) \/ Rollback(c) \/ EndRead(c)
             \/ \E p \in Page : Read(c, p) \/ Spill(c, p)
             \/ Reserve(c) \/ Downgrade(c) \/ CommitLock(c) \/ WriteFails(c)
    <3>1. StoreInv' /\ UNCHANGED fileVars /\ UNCHANGED view
      BY <2>2, LookingStep, CallingStep, LockingStep
    <3>2. QED
      BY <2>1, <3>1, QuietIs DEF Store!vars, Logical, Committed
  <2>3. CASE Release(c) \/ Abort(c)
    <3>1. StoreInv' /\ UNCHANGED fileVars /\ view' = Set(view, c, NoView)
      BY <2>3, LeavingStep
    <3>2. Store!End(c)
      BY <3>1, QuietIs DEF Store!End, Logical, Committed, Set
    <3>3. QED
      BY <2>1, <3>1, <3>2 DEF Store!Next
  <2>4. CASE Validate(c)
    <3>1. StoreInv' /\ UNCHANGED fileVars /\ view[c] = NoView /\ view' = Set(view, c, Logical)
      BY <2>4, ValidateStep
    <3>2. Store!Begin(c)
      BY <3>1, QuietIs DEF Store!Begin, Logical, Committed, Set
    <3>3. QED
      BY <2>1, <3>1, <3>2 DEF Store!Next
  <2>5. CASE Trim(c)
    <3>1. StoreInv' /\ Logical' = Logical /\ Survivors' = Survivors /\ UNCHANGED view
      BY <2>5, TrimStep
    <3>2. QED
      BY <2>1, <3>1 DEF Store!vars, Logical, Committed
  <2>6. CASE \/ NewDatabase(c) \/ AutoVacuum(c) \/ ChangeCounter(c) \/ JournalSync(c) \/ JournalHeader(c)
             \/ HeaderSync(c) \/ WritePage(c) \/ DbSync(c) \/ PageFails(c)
             \/ \E p \in Page : Write(c, p)
             \/ Recover(c) \/ Undo(c) \/ Restored(c)
             \/ \E p \in Page : Restore(c, p)
             \/ Remnant(c) \/ EndFails(c)
             \/ (Delete(c) /\ eState[c] # "finished")
    <3>1. StoreInv' /\ Steady /\ UNCHANGED view
      BY <2>6, WritingStep, PlayingBackStep, RemnantStep, EndFailsStep, UndoneStep
    <3>2. QED
      BY <2>1, <3>1, SteadyIs
  <2>7. QED
    BY <1>2, <2>2, <2>3, <2>4, <2>5, <2>6 DEF Run, Call
<1>3. QED
  BY <1>1, <1>2

LEMMA StoreStutter ==
  ASSUME StoreInv, Trims, UNCHANGED vars
  PROVE  StoreInv' /\ Trims' /\ UNCHANGED Store!vars
<1>1. HotInv'
  BY HotStutter DEF StoreInv
<1>2. UNCHANGED fileVars /\ Maps' /\ \A d \in Conn : Same(d)
  BY DEF StoreInv, Maps, Same, vars, pagerVars, callVars
<1>3. Files' /\ \A d \in Conn : Own(d)'
  BY <1>2, FilesStay, UntouchedOwn DEF StoreInv
<1>4. StoreInv'
  BY <1>1, <1>2, <1>3 DEF StoreInv
<1>5. Trims'
  BY DEF vars, fileVars, pagerVars, callVars, Trims, Trimming, Settled, Beyond
<1>6. UNCHANGED Store!vars
  BY <1>2, QuietIs DEF Store!vars, Logical, Committed, vars
<1>7. QED
  BY <1>4, <1>5, <1>6

LEMMA CrashStep ==
  ASSUME StoreInv, Kill \/ PowerLoss
  PROVE  StoreInv' /\ Trims' /\ [Store!Next]_Store!vars
<1>1. CASE Kill
  <2>1. StoreInv' /\ Trims' /\ Logical' = Logical /\ Survivors' = Survivors /\ view' = [c \in Conn |-> NoView]
    BY <1>1, KillStep
  <2>2. Logical \in Survivors
    <3>1. Gives(db, dbOld, jrnl) = Committed
      BY CommittedWhole DEF StoreInv
    <3>2. QED
      BY <3>1, SurvivorsFound DEF Found, Left, Logical
  <2>3. Store!Crash
    BY <2>1, <2>2 DEF Store!Crash, Logical, Committed
  <2>4. QED
    BY <2>1, <2>3 DEF Store!Next
<1>2. CASE PowerLoss
  <2>1. /\ StoreInv' /\ Trims' /\ Logical' \in Survivors /\ Survivors' = {Logical'}
        /\ view' = [c \in Conn |-> NoView]
    BY <1>2, PowerLossStep
  <2>2. Store!Crash
    BY <2>1 DEF Store!Crash, Logical, Committed
  <2>3. QED
    BY <2>1, <2>2 DEF Store!Next
<1>3. QED
  BY <1>1, <1>2

LEMMA StoreStep ==
  ASSUME Racing = FALSE, StoreInv, Trims, [Next]_vars
  PROVE  StoreInv' /\ Trims' /\ [Store!Next]_Store!vars
BY ConnectionStep, CrashStep, StoreStutter DEF Next

LEMMA StoreInvariance ==
  ASSUME Racing = FALSE
  PROVE  Spec => [](StoreInv /\ Trims)
<1>1. Init => StoreInv /\ Trims
  BY StoreInit
<1>2. StoreInv /\ Trims /\ [Next]_vars => StoreInv' /\ Trims'
  BY StoreStep
<1>3. QED
  BY <1>1, <1>2, PTL DEF Spec

-----------------------------------------------------------------------------
(* What follows.                                                           *)

LEMMA Counted == Spec => [](mishaps \in 0..MaxMishap)
<1> DEFINE Counts == mishaps \in 0..MaxMishap
<1>1. MaxMishap \in Nat
  BY BoundsAssumption
<1>2. Init => Counts
  BY <1>1 DEF Init
<1>3. Counts /\ [Next]_vars => Counts'
  <2> SUFFICES ASSUME Counts, [Next]_vars
               PROVE  Counts'
    OBVIOUS
  <2>1. mishaps' = mishaps \/ (mishaps < MaxMishap /\ mishaps' = mishaps + 1)
    <3>1. CASE UNCHANGED vars
      BY <3>1 DEF vars
    <3>2. CASE Kill \/ PowerLoss
      BY <3>2 DEF Kill, PowerLoss, Restart
    <3>3. ASSUME NEW c \in Conn, Call(c)
          PROVE  mishaps' = mishaps
      BY <3>3 DEF Call, Begin, Upgrade, Commit, Rollback, EndRead, Read, Write, Spill
    <3>4. ASSUME NEW c \in Conn, Run(c)
          PROVE  mishaps' = mishaps \/ (mishaps < MaxMishap /\ mishaps' = mishaps + 1)
      <4>1. CASE WriteFails(c) \/ PageFails(c) \/ EndFails(c) \/ ReadFails(c)
        BY <4>1 DEF WriteFails, PageFails, EndFails, ReadFails
      <4>2. CASE ~(WriteFails(c) \/ PageFails(c) \/ EndFails(c) \/ ReadFails(c))
        BY <3>4, <4>2 DEF Run, Share, Exists, CheckReserved, FirstByte, Remnant, Exclude, Recover, Validate,
           Reserve, NewDatabase, CommitLock, AutoVacuum, ChangeCounter, JournalSync, JournalHeader, HeaderSync,
           WritePage, DbSync, Undo, Restore, Restored, Delete, Trim, Downgrade, Release, Abort
      <4>3. QED
        BY <4>1, <4>2
    <3>5. QED
      BY <3>1, <3>2, <3>3, <3>4 DEF Next
  <2>2. QED
    BY <1>1, <2>1
<1>4. QED
  BY <1>2, <1>3, PTL DEF Spec

\* Every transaction reads a state of the database.
Views == view = [c \in Conn |-> view[c]] /\ \A c \in Conn : view[c] \in Database \cup {NoView}

LEMMA LogicalIs ==
  ASSUME StoreInv
  PROVE  Logical \in Database
BY CommittedWhole, ContentsIs DEF StoreInv, Logical

LEMMA ViewsStay ==
  ASSUME Views, Logical \in Database, Logical' \in Database, [Store!Next]_Store!vars
  PROVE  Views'
<1>1. view = [c \in Conn |-> view[c]]
  BY DEF Views
<1>2. view' = view \/ view' = [c \in Conn |-> NoView]
      \/ \E c \in Conn, x \in Database \cup {NoView} : view' = [view EXCEPT ![c] = x]
  BY DEF Store!Next, Store!Begin, Store!Commit, Store!End, Store!Settle, Store!Crash, Store!vars, Logical, Committed
<1>3. CASE view' = view \/ view' = [c \in Conn |-> NoView]
  BY <1>3 DEF Views
<1>4. ASSUME NEW c \in Conn, NEW x \in Database \cup {NoView}, view' = [view EXCEPT ![c] = x]
      PROVE  Views'
  BY <1>1, <1>4 DEF Views
<1>5. QED
  BY <1>2, <1>3, <1>4

LEMMA ViewsInvariance ==
  ASSUME Racing = FALSE
  PROVE  Spec => []Views
<1>1. Init => Views
  BY DEF Init, Views
<1>2. StoreInv => Logical \in Database
  BY LogicalIs
<1>3. StoreInv /\ Trims /\ (Logical \in Database) /\ (Logical \in Database)' /\ Views /\ [Next]_vars => Views'
  BY StoreStep, ViewsStay
<1>4. QED
  BY <1>1, <1>2, <1>3, StoreInvariance, PTL DEF Spec

LEMMA StoreTyped ==
  ASSUME StoreInv, Views, mishaps \in 0..MaxMishap
  PROVE  TypeOK
<1>1. HotInv /\ Files /\ Maps /\ \A c \in Conn : Own(c)
  BY DEF StoreInv
<1>2. LockTypeOK /\ eLock \in [Conn -> Level] /\ eState \in [Conn -> State] /\ pc \in [Conn -> Label]
  BY <1>1 DEF HotInv, IInv, LockInv, Typed
<1>3. /\ db \in [Page -> Content] /\ dbOld \in [Page -> SUBSET Content]
      /\ jrnl \in Journal \cup {NoJournal} /\ jrnlOld \subseteq Journal \cup {NoJournal}
  BY <1>1 DEF Files, Left
<1>4. ASSUME NEW c \in Conn
      PROVE  /\ cache[c] \in Images /\ dirty[c] \in SUBSET Page /\ vers[c] \in 0..MaxChange
             /\ held[c] \in BOOLEAN /\ orig[c] \in 0..N /\ dbSize[c] \in 0..N /\ safe[c] \in SUBSET Page
             /\ goal[c] \in {"none", "read", "write", "upgrade"}
             /\ todo[c] \in SUBSET Page /\ spill[c] \in 0..N
  <2>1. Shaped(c)
    BY <1>1 DEF Own
  <2>2. cache[c] \in Images
    BY <2>1, CopyInImages DEF Shaped
  <2>3. dirty[c] \in SUBSET Page
    BY <2>1 DEF Shaped, Copy
  <2>4. QED
    BY <2>1, <2>2, <2>3 DEF Shaped
<1>5. /\ cache \in [Conn -> Images] /\ dirty \in [Conn -> SUBSET Page]
      /\ vers \in [Conn -> 0..MaxChange] /\ held \in [Conn -> BOOLEAN]
      /\ orig \in [Conn -> 0..N] /\ dbSize \in [Conn -> 0..N] /\ safe \in [Conn -> SUBSET Page]
      /\ goal \in [Conn -> {"none", "read", "write", "upgrade"}]
      /\ todo \in [Conn -> SUBSET Page] /\ spill \in [Conn -> 0..N]
  BY <1>1, <1>4 DEF Maps
<1>6. Database \subseteq [Page -> Content]
  BY DEF Database, Content
<1>7. view \in [Conn -> [Page -> Content] \cup {NoView}]
  BY <1>6 DEF Views
<1>8. QED
  BY <1>2, <1>3, <1>5, <1>7 DEF TypeOK

\* The pages of the state that a connection has, in its cache or in the file.
LEMMA StoreReads ==
  ASSUME StoreInv
  PROVE  ReadsSnapshot
<1> SUFFICES ASSUME NEW c \in Conn, pc[c] = "idle", eState[c] # "open", NEW p \in {1} \cup 2..nPage(c),
                    ~(Changed(c) /\ (p > orig[c] \/ p \in Journaled(jrnl)))
             PROVE  Image(c, p) = view[c][p]
  BY DEF ReadsSnapshot, At, Changed
<1>1. HotInv /\ Files /\ Own(c)
  BY DEF StoreInv
<1>2. /\ view[c] = Contents(Committed) /\ Shaped(c) /\ eState[c] \in {"reader", "locked", "cachemod", "dbmod"}
      /\ Whole(Committed)
  BY <1>1, CommittedWhole DEF Own, Shaped, State, Steps, Logical
<1>3. p \in Page /\ (p # 1 => 1 \in DOMAIN cache[c] /\ p <= nPage(c) /\ nPage(c) = Pages(cache[c][1]))
  <2>1. nPage(c) \in 0..N
    <3>1. 1 \in DOMAIN cache[c] => cache[c][1] \in Datum
      BY <1>2 DEF Shaped, Copy
    <3>2. 0 \in 0..N
      BY PageOne
    <3>3. QED
      BY <3>1, <3>2, ValueIs DEF nPage
  <2>2. CASE p = 1
    BY <2>2, PageOne
  <2>3. CASE p # 1
    <3>1. p \in 2..nPage(c)
      BY <2>3
    <3>2. p \in Page /\ nPage(c) # 0 /\ p <= nPage(c)
      BY <2>1, <3>1, PageOne DEF Page
    <3>3. QED
      BY <2>3, <3>2 DEF nPage
  <2>4. QED
    BY <2>2, <2>3
<1>4. CASE eState[c] \in {"reader", "locked"}
  <2>1. Part(cache[c], Committed)
    BY <1>1, <1>4 DEF Own, Reading
  <2>2. ~Hot(jrnl)
    BY <1>1, <1>4 DEF HotInv, Mine, Seen
  <2>3. Committed = db
    BY <1>1, <2>2, CommittedWhole
  <2>4. Image(c, p) = Committed[p]
    BY <2>1, <2>3 DEF Part, Image
  <2>5. CASE p = 1
    <3>1. Contents(Committed)[1] = IF 1 <= Pages(Committed[1]) THEN Committed[1] ELSE Absent
      BY PageOne DEF Contents
    <3>2. Committed[1] = Absent \/ 1 <= Pages(Committed[1])
      <4>1. CASE Committed = Empty
        BY <4>1, PageOne DEF Empty
      <4>2. CASE Headed(Committed[1])
        BY <4>2, HeadedIs
      <4>3. QED
        BY <1>2, <4>1, <4>2 DEF Whole
    <3>3. QED
      BY <1>2, <2>4, <2>5, <3>1, <3>2
  <2>6. CASE p # 1
    <3>1. p <= Pages(Committed[1])
      BY <1>3, <2>1, <2>6 DEF Part
    <3>2. QED
      BY <1>2, <1>3, <2>4, <3>1 DEF Contents
  <2>7. QED
    BY <2>5, <2>6
<1>5. CASE Changed(c)
  <2>1. Writer(c)
    BY <1>1, <1>5 DEF Own
  <2>2. orig[c] \in Nat
    BY <1>2, PageOne DEF Shaped
  <2>3. p <= orig[c] /\ p \notin Journaled(jrnl)
    BY <1>3, <1>5, <2>2, Ordered
  <2>4. /\ db[p] = Committed[p]
        /\ p \in DOMAIN cache[c] => cache[c][p] = Committed[p]
    BY <1>1, <1>3, <1>5, <2>3, RestIsOld
  <2>5. 1 \in DOMAIN cache[c] /\ Headed(cache[c][1]) /\ (p <= Pages(cache[c][1]) => p <= Pages(Committed[1]))
    BY <1>3, <1>5, <2>1, <2>3 DEF Writer
  <2>6. p <= Pages(cache[c][1])
    BY <1>3, <2>5, HeadedIs
  <2>7. QED
    BY <1>2, <1>3, <2>4, <2>5, <2>6 DEF Image, Contents
<1>6. QED
  BY <1>2, <1>4, <1>5 DEF Changed

\* Pages, journals and counters stay within what the pager can hold.
THEOREM PagerTypes ==
  ASSUME Racing = FALSE
  PROVE  Spec => []TypeOK
<1>1. StoreInv /\ Views /\ mishaps \in 0..MaxMishap => TypeOK
  BY StoreTyped
<1>2. QED
  BY <1>1, StoreInvariance, ViewsInvariance, Counted, PTL

\* A transaction reads the state it began with, whatever other connections, rollbacks
\* and earlier transactions have left in its cache and in the file
\* (sqlite3PagerSharedLock, pager_playback, pager_end_transaction).
THEOREM SnapshotRead ==
  ASSUME Racing = FALSE
  PROVE  Spec => []ReadsSnapshot
<1>1. StoreInv => ReadsSnapshot
  BY StoreReads
<1>2. QED
  BY <1>1, StoreInvariance, PTL

\* Commits are atomic and survive, those that shrink the file with the others: every
\* run of the pager, its crashes and losses of power included, is one of AtomicStore
\* (pager_end_transaction, syncJournal, pager_playback).
THEOREM AtomicCommit ==
  ASSUME Racing = FALSE
  PROVE  Spec => StoreSpec
<1>1. Init => Store!Init
  BY StoreInit
<1>2. StoreInv /\ Trims /\ [Next]_vars => [Store!Next]_Store!vars
  BY StoreStep
<1>3. QED
  BY <1>1, <1>2, StoreInvariance, PTL DEF Spec, StoreSpec, Store!Spec

=============================================================================
