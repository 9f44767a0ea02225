-------------------------------- MODULE Pager --------------------------------
(***************************************************************************)
(* Connections of one process, each with its Pager, to one database file   *)
(* in rollback-journal mode (journal_mode=DELETE, synchronous=FULL): the   *)
(* page cache and its change counter, the journal, commit and rollback in  *)
(* their steps, the commit that shrinks the file (auto-vacuum is this      *)
(* build's default), the recovery of a hot journal, I/O errors, the death  *)
(* of the process and loss of power.  The busy handler is a choice between *)
(* trying again and giving up; its sleeps are in LockContention.           *)
(***************************************************************************)
EXTENDS UnixFileLock

CONSTANTS
  N,          \* bound on the pages of the file
  MaxChange,  \* bound on the change counter
  MaxMishap,  \* bound on the I/O errors and crashes
  Racing,     \* whether two connections may find a hot journal at the same time
  Absent,     \* the content of a page behind the end of the file
  Torn,       \* the content of a page half written when the power failed
  NoJournal,  \* there is no file of that name
  NoView      \* no transaction

ASSUME BoundsAssumption == N \in Nat \ {0} /\ {MaxChange, MaxMishap} \subseteq Nat

\* What is written to a page is the number of the change that wrote it; page 1 holds
\* the change counter and the size of the database as well.
Stamp == [change : Nat, size : Nat]
ASSUME ContentAssumption == Absent \notin Stamp /\ Torn \notin Stamp /\ Absent # Torn

VARIABLES
  db,       \* the database file as the kernel has it
  dbOld,    \* contents of each page that a power loss may bring back
  jrnl,     \* the journal file as the kernel has it
  jrnlOld,  \* journals that a power loss may bring back
  eLock,    \* Pager.eLock
  eState,   \* Pager.eState
  cache,    \* the page cache
  dirty,    \* pages on its dirty list
  vers,     \* Pager.dbFileVers, the change counter the cache belongs to
  held,     \* Pager.hasHeldSharedLock
  orig,     \* Pager.dbOrigSize, 0 without a write transaction
  dbSize,   \* Pager.dbSize of a write transaction, 0 without one
  safe,     \* pages whose journal records are within Pager.journalHdr
  goal,     \* the transaction that is being begun, or none
  todo,     \* pages that commit, spill or playback still has to write
  spill,    \* the page pagerStress writes, 0 when it does not
  pc,       \* what each connection does next
  view,     \* history: the state of the database each transaction reads
  mishaps   \* I/O errors and crashes so far

fileVars == <<db, dbOld, jrnl, jrnlOld>>
pagerVars == <<eLock, eState, cache, dirty, vers, held, orig, dbSize, safe>>
callVars == <<goal, todo, spill, pc>>
vars == <<lockVars, fileVars, pagerVars, callVars, view, mishaps>>

Page == 1..N
Value == [change : 0..MaxChange, size : 0..N]
Content == Value \cup {Absent, Torn}
Database == [Page -> Value \cup {Absent}]

Images == UNION {[S -> Content] : S \in SUBSET Page}

\* kept: the records that nRec of the headers counts; more: those behind them.
Journal == [magic : BOOLEAN, size : 0..N, kept : Images, more : Images]
ASSUME JournalAssumption == NoJournal \notin Journal

State == {"open", "reader", "locked", "cachemod", "dbmod", "finished", "error"}
Label == {"idle", "share", "exists", "reserved", "first", "remnant", "exclude", "recover",
          "validate", "reserve", "newdb", "commit", "vacuum", "counter", "jsync", "jheader", "jsync2",
          "write", "sync", "undo", "restore", "delete", "trim", "downgrade", "release", "abort"}

TypeOK ==
  /\ LockTypeOK
  /\ db \in [Page -> Content] /\ dbOld \in [Page -> SUBSET Content]
  /\ jrnl \in Journal \cup {NoJournal} /\ jrnlOld \subseteq Journal \cup {NoJournal}
  /\ eLock \in [Conn -> Level] /\ eState \in [Conn -> State]
  /\ cache \in [Conn -> Images] /\ dirty \in [Conn -> SUBSET Page]
  /\ vers \in [Conn -> 0..MaxChange] /\ held \in [Conn -> BOOLEAN]
  /\ orig \in [Conn -> 0..N] /\ dbSize \in [Conn -> 0..N] /\ safe \in [Conn -> SUBSET Page]
  /\ goal \in [Conn -> {"none", "read", "write", "upgrade"}]
  /\ todo \in [Conn -> SUBSET Page] /\ spill \in [Conn -> 0..N]
  /\ pc \in [Conn -> Label]
  /\ view \in [Conn -> [Page -> Content] \cup {NoView}]
  /\ mishaps \in 0..MaxMishap

NoImage == [p \in {} |-> Absent]
Put(f, p, x) == [q \in DOMAIN f \cup {p} |-> IF q = p THEN x ELSE f[q]]
Over(f, g) == [p \in DOMAIN f \cup DOMAIN g |-> IF p \in DOMAIN f THEN f[p] ELSE g[p]]

Init ==
  /\ LockInit
  /\ db = [p \in Page |-> Absent] /\ dbOld = [p \in Page |-> {}]
  /\ jrnl = NoJournal /\ jrnlOld = {}
  /\ eLock = [c \in Conn |-> NO_LOCK] /\ eState = [c \in Conn |-> "open"]
  /\ cache = [c \in Conn |-> NoImage] /\ dirty = [c \in Conn |-> {}]
  /\ vers = [c \in Conn |-> 0] /\ held = [c \in Conn |-> FALSE]
  /\ orig = [c \in Conn |-> 0] /\ dbSize = [c \in Conn |-> 0] /\ safe = [c \in Conn |-> {}]
  /\ goal = [c \in Conn |-> "none"]
  /\ todo = [c \in Conn |-> {}] /\ spill = [c \in Conn |-> 0]
  /\ pc = [c \in Conn |-> "idle"]
  /\ view = [c \in Conn |-> NoView]
  /\ mishaps = 0

Set(f, c, v) == [f EXCEPT ![c] = v]
At(c, label) == pc[c] = label
Goto(c, label) == pc' = Set(pc, c, label)

\* The pages of a file.
Size(d) == CHOOSE n \in 0..N : (\A p \in Page : p > n => d[p] = Absent)
                               /\ (n > 0 => d[n] # Absent)

\* The change counter and the size of the database in page 1, of an empty file 0.
Counter(x) == IF x \in Stamp THEN x.change ELSE 0
Pages(x) == IF x \in Stamp THEN x.size ELSE 0

\* The database in a file that may be longer.
Contents(d) == [p \in Page |-> IF p <= Pages(d[1]) THEN d[p] ELSE Absent]

Hot(j) == IF j = NoJournal THEN FALSE ELSE j.magic

\* What recovery makes of a file and the journal beside it.
Recovered(d, j) ==
  IF ~Hot(j) \/ Size(d) = 0 THEN d
  ELSE [p \in Page |-> IF p > j.size THEN Absent
                       ELSE IF p \in DOMAIN j.kept THEN j.kept[p] ELSE d[p]]

-----------------------------------------------------------------------------
(* Files: what a power loss may bring back until the next fsync().         *)

WriteDb(p, x) ==
  /\ db' = Set(db, p, x)
  /\ dbOld' = [dbOld EXCEPT ![p] = @ \cup {db[p]}]

Truncate(n) ==
  /\ db' = [p \in Page |-> IF p > n THEN Absent ELSE db[p]]
  /\ dbOld' = [p \in Page |-> IF p > n /\ db[p] # Absent THEN dbOld[p] \cup {db[p]} ELSE dbOld[p]]

SyncDb == dbOld' = [p \in Page |-> {}] /\ UNCHANGED db

\* A name that appears, disappears or changes its content is as before until the
\* file, and with it the directory, is synced.
WriteJournal(j) == jrnl' = j /\ jrnlOld' = jrnlOld \cup {jrnl}
SyncJournal_mut == UNCHANGED <<jrnl, jrnlOld>>
SyncJournal == jrnlOld' = {} /\ UNCHANGED jrnl

pagerLockDb(c, level) ==
  IF eLock[c] >= level THEN UNCHANGED <<lockVars, eLock>>
  ELSE Lock(c, level) /\ eLock' = Set(eLock, c, level)

\* The lock is refused and the busy handler has given up, or is not asked.
pagerLockBusy(c, level) ==
  eLock[c] < level /\ LockBusy(c, level) /\ UNCHANGED eLock

pagerUnlockDb(c, level) == Unlock(c, level) /\ eLock' = Set(eLock, c, level)

-----------------------------------------------------------------------------
(* sqlite3PagerSharedLock: a transaction begins.                           *)

Begin(c, g) ==
  /\ At(c, "idle") /\ eState[c] = "open"
  /\ goal' = Set(goal, c, g) /\ Goto(c, "share")
  /\ UNCHANGED <<lockVars, fileVars, pagerVars, todo, spill, view, mishaps>>

\* A program whose connections do not race begins them one by one while there is a
\* journal to recover from; one that has failed may still hold its lock.
MayShare(c) == Racing \/ ~Hot(jrnl) \/ \A d \in Conn \ {c} : Holds(d, SHARED_LOCK) => eState[d] = "error"

\* A refused lock is tried again, a step that changes nothing, or given up.
Share(c) ==
  /\ At(c, "share") /\ MayShare(c)
  /\ \/ pagerLockDb(c, SHARED_LOCK) /\ Goto(c, "exists")
     \/ pagerLockBusy(c, SHARED_LOCK) /\ Goto(c, "release")
  /\ UNCHANGED <<fileVars, eState, cache, dirty, vers, held, orig, dbSize, safe, goal, todo, spill, view, mishaps>>

Exists_mut(c) ==
  /\ At(c, "exists")
  /\ Goto(c, IF jrnl = NoJournal \/ held[c] THEN "validate" ELSE "reserved")
  /\ UNCHANGED <<lockVars, fileVars, pagerVars, goal, todo, spill, view, mishaps>>

\* hasHotJournal looks for the file, then whether somebody holds RESERVED: in
\* between the writer of a journal it saw may have finished.
Exists(c) ==
  /\ At(c, "exists")
  /\ Goto(c, IF jrnl = NoJournal THEN "validate" ELSE "reserved")
  /\ UNCHANGED <<lockVars, fileVars, pagerVars, goal, todo, spill, view, mishaps>>

CheckReserved(c) ==
  /\ At(c, "reserved")
  /\ Goto(c, IF inode.eFileLock > SHARED_LOCK THEN "validate"
             ELSE IF Size(db) = 0 THEN "remnant" ELSE "first")
  /\ UNCHANGED <<lockVars, fileVars, pagerVars, goal, todo, spill, view, mishaps>>

\* The first byte of the journal tells; a file that is gone counts as hot.
FirstByte(c) ==
  /\ At(c, "first")
  /\ Goto(c, IF jrnl = NoJournal \/ Hot(jrnl) THEN "exclude" ELSE "validate")
  /\ UNCHANGED <<lockVars, fileVars, pagerVars, goal, todo, spill, view, mishaps>>

\* A journal beside an empty file is deleted, under RESERVED and if that is free.
Remnant(c) ==
  /\ At(c, "remnant")
  /\ IF Busy(c, RESERVED_LOCK) THEN UNCHANGED <<jrnl, jrnlOld>> ELSE WriteJournal(NoJournal)
  /\ Goto(c, "validate")
  /\ UNCHANGED <<lockVars, db, dbOld, pagerVars, goal, todo, spill, view, mishaps>>

\* A hot journal is played back under EXCLUSIVE, without RESERVED on the way and
\* without the busy handler.
Exclude(c) ==
  /\ At(c, "exclude")
  /\ \/ pagerLockDb(c, EXCLUSIVE_LOCK) /\ Goto(c, "recover")
     \/ pagerLockBusy(c, EXCLUSIVE_LOCK) /\ Goto(c, "release")
  /\ UNCHANGED <<fileVars, eState, cache, dirty, vers, held, orig, dbSize, safe, goal, todo, spill, view, mishaps>>

\* The journal, unless somebody else has played it back meanwhile, is synced and
\* the file cut to its old size; records to play back, which follow, purge the cache.
Recover(c) ==
  /\ At(c, "recover")
  /\ IF jrnl = NoJournal
       THEN /\ pagerUnlockDb(c, SHARED_LOCK) /\ Goto(c, "validate")
            /\ UNCHANGED <<fileVars, cache, todo, safe>>
       ELSE /\ SyncJournal
            /\ IF Hot(jrnl)
                 THEN Truncate(jrnl.size) /\ todo' = Set(todo, c, DOMAIN jrnl.kept)
                 ELSE UNCHANGED <<db, dbOld>> /\ todo' = Set(todo, c, {})
            /\ cache' = IF Hot(jrnl) /\ jrnl.kept # NoImage THEN Set(cache, c, NoImage) ELSE cache
            /\ safe' = Set(safe, c, DOMAIN jrnl.kept)
            /\ Goto(c, "restore")
            /\ UNCHANGED <<lockVars, eLock>>
  /\ UNCHANGED <<eState, dirty, vers, held, orig, dbSize, goal, spill, view, mishaps>>

Stale_mut(c) == held[c] /\ vers[c] > Counter(db[1])

\* Others have changed the file since a connection that held the lock before let go.
Stale(c) == held[c] /\ vers[c] # Counter(db[1])

\* A stale cache is dropped; lockBtree reads page 1.
Validate(c) ==
  /\ At(c, "validate")
  /\ LET kept == IF Stale(c) THEN NoImage ELSE cache[c]
     IN IF 1 \in DOMAIN kept
          THEN cache' = Set(cache, c, kept) /\ UNCHANGED vers
          ELSE /\ cache' = Set(cache, c, Put(kept, 1, db[1]))
               /\ vers' = Set(vers, c, Counter(db[1]))
  /\ held' = Set(held, c, TRUE)
  /\ eState' = Set(eState, c, "reader")
  /\ view' = Set(view, c, Contents(Recovered(db, jrnl)))
  /\ IF goal[c] = "write" THEN Goto(c, "reserve") /\ UNCHANGED goal
                          ELSE Goto(c, "idle") /\ goal' = Set(goal, c, "none")
  /\ UNCHANGED <<lockVars, fileVars, eLock, dirty, orig, dbSize, safe, todo, spill, mishaps>>

-----------------------------------------------------------------------------
(* A write transaction changes pages of the cache.                         *)

\* A reader goes on to write.
Upgrade(c) ==
  /\ At(c, "idle") /\ eState[c] = "reader"
  /\ goal' = Set(goal, c, "upgrade") /\ Goto(c, "reserve")
  /\ UNCHANGED <<lockVars, fileVars, pagerVars, todo, spill, view, mishaps>>

\* sqlite3PagerBegin; refused, a transaction just begun lets go of the file and a
\* reader stays one.
Reserve(c) ==
  /\ At(c, "reserve")
  /\ \/ /\ pagerLockDb(c, RESERVED_LOCK)
        /\ eState' = Set(eState, c, "locked")
        /\ orig' = Set(orig, c, Size(db)) /\ dbSize' = Set(dbSize, c, Size(db))
        /\ Goto(c, IF Size(db) = 0 THEN "newdb" ELSE "idle")
     \/ /\ pagerLockBusy(c, RESERVED_LOCK)
        /\ Goto(c, IF goal[c] = "upgrade" THEN "idle" ELSE "release")
        /\ UNCHANGED <<eState, orig, dbSize>>
  /\ goal' = Set(goal, c, "none")
  /\ UNCHANGED <<fileVars, cache, dirty, vers, held, safe, todo, spill, view, mishaps>>

\* The journal with its header, without magic and nRec yet (pager_open_journal).
Opened(c) == IF eState[c] = "locked"
               THEN [magic |-> FALSE, size |-> orig[c], kept |-> NoImage, more |-> NoImage]
               ELSE jrnl

Journaled(j) == DOMAIN j.kept \cup DOMAIN j.more

Image(c, p) == IF p \in DOMAIN cache[c] THEN cache[c][p] ELSE db[p]

\* The first half of pager_write: the journal is opened, and the contents of those
\* pages of S that were in the file when the transaction began are added to it.
pager_journal(c, S) ==
  LET j == Opened(c)
      new == {p \in S : p <= orig[c] /\ p \notin Journaled(j)}
  IN /\ jrnl' = [j EXCEPT !.more = Over(@, [p \in new |-> Image(c, p)])]
     /\ jrnlOld' = IF eState[c] = "locked" THEN jrnlOld \cup {jrnl} ELSE jrnlOld
     /\ eState' = Set(eState, c, IF eState[c] = "locked" THEN "cachemod" ELSE eState[c])
     /\ safe' = IF eState[c] = "locked" THEN Set(safe, c, {}) ELSE safe

\* pager_write of the pages of f, which the layers above then change as f says.
pager_write(c, f) ==
  /\ pager_journal(c, DOMAIN f)
  /\ cache' = Set(cache, c, Over(f, cache[c]))
  /\ dirty' = Set(dirty, c, dirty[c] \cup DOMAIN f)

Change(c) == vers[c] + 1

\* BtShared.nPage: the size of the database that page 1 names.
nPage(c) == IF 1 \in DOMAIN cache[c] THEN Pages(cache[c][1]) ELSE 0

\* Page 1 of the cache, for a database of n pages.
Resized(c, n) == [cache[c][1] EXCEPT !.size = n]

\* newDatabase fills page 1 of an empty file.
NewDatabase(c) ==
  /\ At(c, "newdb")
  /\ pager_write(c, [p \in {1} |-> [change |-> 0, size |-> 1]])
  /\ dbSize' = Set(dbSize, c, 1)
  /\ Goto(c, "idle")
  /\ UNCHANGED <<lockVars, db, dbOld, eLock, vers, held, orig, goal, todo, spill, view, mishaps>>

Read(c, p) ==
  /\ At(c, "idle") /\ eState[c] # "open"
  /\ p \notin DOMAIN cache[c] /\ p <= nPage(c)
  /\ cache' = Set(cache, c, Put(cache[c], p, db[p]))
  /\ UNCHANGED <<lockVars, fileVars, eLock, eState, dirty, vers, held, orig, dbSize, safe, callVars, view, mishaps>>

MayWrite(c) == eState[c] \in {"locked", "cachemod", "dbmod"}

\* A page gets the mark of the change in progress; with a new one, behind the last,
\* the database grows.
Write(c, p) ==
  /\ At(c, "idle") /\ MayWrite(c)
  /\ Change(c) <= MaxChange
  /\ p > 1 /\ p <= nPage(c) + 1
  /\ LET x == [change |-> Change(c), size |-> 0]
     IN IF p <= nPage(c) THEN pager_write(c, [q \in {p} |-> x])
        ELSE pager_write(c, [q \in {1, p} |-> IF q = 1 THEN Resized(c, p) ELSE x])
  /\ dbSize' = IF p > dbSize[c] THEN Set(dbSize, c, p) ELSE dbSize
  /\ UNCHANGED <<lockVars, db, dbOld, eLock, vers, held, orig, callVars, view, mishaps>>

-----------------------------------------------------------------------------
(* syncJournal and pager_write_pagelist, for a spill and for a commit.     *)

\* The records of a page dirty since the last sync are not safe yet.
NeedSync(c, p) == eState[c] = "cachemod" \/ p \in DOMAIN jrnl.more

Spill_mut(c, p) ==
  /\ At(c, "idle") /\ eState[c] \in {"cachemod", "dbmod"}
  /\ p \in dirty[c] \ {1}
  /\ spill' = Set(spill, c, p) /\ todo' = Set(todo, c, {p})
  /\ Goto(c, IF NeedSync(c, p) THEN "jsync" ELSE "write")
  /\ UNCHANGED <<lockVars, fileVars, pagerVars, goal, view, mishaps>>

\* pagerStress writes out a dirty page to reuse its memory.  A lock that is refused
\* leaves the page where it is.
Spill(c, p) ==
  /\ At(c, "idle") /\ eState[c] \in {"cachemod", "dbmod"}
  /\ p \in dirty[c] \ {1}
  /\ \/ /\ pagerLockDb(c, EXCLUSIVE_LOCK)
        /\ spill' = Set(spill, c, p) /\ todo' = Set(todo, c, {p})
        /\ Goto(c, IF NeedSync(c, p) THEN "jsync" ELSE "write")
     \/ pagerLockBusy(c, EXCLUSIVE_LOCK) /\ UNCHANGED <<spill, todo, pc>>
  /\ UNCHANGED <<fileVars, eState, cache, dirty, vers, held, orig, dbSize, safe, goal, view, mishaps>>

\* vdbeCommit begins with sqlite3PagerExclusiveLock.  Refused, it tries again; a
\* COMMIT that gives up keeps the transaction, a statement that commits by itself
\* rolls back.
Commit(c) ==
  /\ At(c, "idle") /\ MayWrite(c)
  /\ eState[c] = "locked" \/ Change(c) <= MaxChange
  /\ Goto(c, "commit")
  /\ UNCHANGED <<lockVars, fileVars, pagerVars, goal, todo, spill, view, mishaps>>

\* sqlite3PagerRollback: a journal that is open is played back.
RollingBack(c) == Goto(c, IF eState[c] = "locked" THEN "downgrade" ELSE "undo")

CommitLock(c) ==
  /\ At(c, "commit")
  /\ \/ /\ pagerLockDb(c, EXCLUSIVE_LOCK)
        /\ Goto(c, IF eState[c] = "locked" THEN "downgrade" ELSE "vacuum")
     \/ /\ pagerLockBusy(c, EXCLUSIVE_LOCK)
        /\ pc' \in {pc, Set(pc, c, "idle")} \/ RollingBack(c)
  /\ UNCHANGED <<fileVars, eState, cache, dirty, vers, held, orig, dbSize, safe, goal, todo, spill, view, mishaps>>

\* autoVacuumCommit: the last pages of a database with free pages move into those
\* and sqlite3PagerTruncateImage cuts the image.  A page that moves leaves its place
\* in the cache; a free page stays there.
AutoVacuum(c) ==
  /\ At(c, "vacuum")
  /\ \/ UNCHANGED <<jrnl, jrnlOld, eState, cache, dirty, safe, dbSize>>
     \/ \E n \in 1..nPage(c) - 1 :
          \E into \in SUBSET (2..n), from \in SUBSET {p \in DOMAIN cache[c] : p > n} :
            LET f == [p \in {1} \cup into |-> IF p = 1 THEN Resized(c, n)
                                              ELSE [change |-> Change(c), size |-> 0]]
            IN /\ pager_journal(c, DOMAIN f)
               /\ cache' = Set(cache, c, [p \in (DOMAIN f \cup DOMAIN cache[c]) \ from |->
                                           Over(f, cache[c])[p]])
               /\ dirty' = Set(dirty, c, (dirty[c] \cup DOMAIN f) \ from)
               /\ dbSize' = Set(dbSize, c, n)
  /\ Goto(c, "counter")
  /\ UNCHANGED <<lockVars, db, dbOld, eLock, vers, held, orig, goal, todo, spill, view, mishaps>>

\* pager_incr_changecounter.  Pages behind the end of the image are not written.
ChangeCounter(c) ==
  /\ At(c, "counter")
  /\ pager_write(c, [p \in {1} |-> [cache[c][1] EXCEPT !.change = Change(c)]])
  /\ todo' = Set(todo, c, {p \in dirty'[c] : p <= dbSize[c]})
  /\ Goto(c, "jsync")
  /\ UNCHANGED <<lockVars, db, dbOld, eLock, vers, held, orig, dbSize, goal, spill, view, mishaps>>

\* The records reach the disk before the header that counts them, and the header
\* before any page of the database.
JournalSync(c) ==
  /\ At(c, "jsync")
  /\ SyncJournal
  /\ Goto(c, "jheader")
  /\ UNCHANGED <<lockVars, db, dbOld, pagerVars, goal, todo, spill, view, mishaps>>

JournalHeader(c) ==
  /\ At(c, "jheader")
  /\ WriteJournal([jrnl EXCEPT !.magic = TRUE, !.kept = Over(jrnl.kept, jrnl.more), !.more = NoImage])
  /\ Goto(c, "jsync2")
  /\ UNCHANGED <<lockVars, db, dbOld, pagerVars, goal, todo, spill, view, mishaps>>

HeaderSync(c) ==
  /\ At(c, "jsync2")
  /\ SyncJournal
  /\ safe' = Set(safe, c, DOMAIN jrnl.kept)
  /\ eState' = Set(eState, c, "dbmod")
  /\ Goto(c, "write")
  /\ UNCHANGED <<lockVars, db, dbOld, eLock, cache, dirty, vers, held, orig, dbSize, goal, todo, spill, view, mishaps>>

\* pager_write_pagelist: dirty pages in the order of their numbers.  A page that
\* was spilled is clean, and leaves the cache.
WritePage(c) ==
  /\ At(c, "write") /\ todo[c] # {}
  /\ LET p == CHOOSE q \in todo[c] : \A r \in todo[c] : q <= r
     IN /\ WriteDb(p, cache[c][p])
        /\ vers' = IF p = 1 THEN Set(vers, c, Counter(cache[c][1])) ELSE vers
        /\ todo' = Set(todo, c, todo[c] \ {p})
        /\ IF spill[c] = p
             THEN /\ dirty' = Set(dirty, c, dirty[c] \ {p})
                  /\ cache' = Set(cache, c, [q \in DOMAIN cache[c] \ {p} |-> cache[c][q]])
                  /\ spill' = Set(spill, c, 0)
                  /\ Goto(c, "idle")
             ELSE /\ UNCHANGED <<dirty, cache, spill>>
                  /\ Goto(c, IF todo[c] = {p} THEN "sync" ELSE "write")
  /\ UNCHANGED <<lockVars, jrnl, jrnlOld, eLock, eState, held, orig, dbSize, safe, goal, view, mishaps>>

DbSync(c) ==
  /\ At(c, "sync")
  /\ SyncDb
  /\ eState' = Set(eState, c, "finished")
  /\ Goto(c, "delete")
  /\ UNCHANGED <<lockVars, jrnl, jrnlOld, eLock, cache, dirty, vers, held, orig, dbSize, safe, goal, todo, spill, view, mishaps>>

\* A write or a sync fails.  In a commit sqlite3VdbeHalt rolls back; in a spill
\* pagerStress puts the pager into the error state.
WriteFails(c) ==
  /\ pc[c] \in {"jsync", "jheader", "jsync2", "write", "sync"} /\ mishaps < MaxMishap
  /\ mishaps' = mishaps + 1
  /\ IF spill[c] = 0 THEN RollingBack(c) /\ UNCHANGED eState
                     ELSE Goto(c, "abort") /\ eState' = Set(eState, c, "error")
  /\ UNCHANGED <<lockVars, fileVars, eLock, cache, dirty, vers, held, orig, dbSize, safe, goal, todo, spill, view>>

\* A page is not read, or its journal record or the header before it not written:
\* sqlite3VdbeHalt rolls the transaction back.
PageFails(c) ==
  /\ pc[c] \in {"idle", "newdb", "vacuum", "counter"} /\ MayWrite(c) /\ mishaps < MaxMishap
  /\ mishaps' = mishaps + 1
  /\ \/ RollingBack(c) /\ UNCHANGED <<jrnl, jrnlOld, eState, safe>>
     \/ eState[c] = "locked" /\ pager_journal(c, {}) /\ Goto(c, "undo")
  /\ UNCHANGED <<lockVars, db, dbOld, eLock, cache, dirty, vers, held, orig, dbSize, goal, todo, spill, view>>

Rollback(c) ==
  /\ At(c, "idle") /\ MayWrite(c)
  /\ RollingBack(c)
  /\ UNCHANGED <<lockVars, fileVars, pagerVars, goal, todo, spill, view, mishaps>>

-----------------------------------------------------------------------------
(* pager_playback, of a hot journal (eState is open) or in a rollback.     *)

\* The file may be written: the pages of a transaction that has not reached it
\* are restored in the cache only.
Writable(c) == eState[c] \in {"open", "dbmod"}

\* A file that was written is cut to the size it had.
Undo(c) ==
  /\ At(c, "undo")
  /\ IF eState[c] = "dbmod" THEN Truncate(orig[c]) ELSE UNCHANGED <<db, dbOld>>
  /\ todo' = Set(todo, c, Journaled(jrnl))
  /\ Goto(c, "restore")
  /\ UNCHANGED <<lockVars, jrnl, jrnlOld, pagerVars, goal, spill, view, mishaps>>

\* pager_playback_one_page: a record that may not be on the disk yet, the last sync
\* of the journal having failed, goes to the cache only.
Restore(c, p) ==
  /\ At(c, "restore") /\ p \in todo[c]
  /\ LET x == Over(jrnl.kept, jrnl.more)[p]
     IN /\ IF Writable(c) /\ p \in safe[c] THEN WriteDb(p, x) ELSE UNCHANGED <<db, dbOld>>
        /\ IF p \in DOMAIN cache[c]
             THEN /\ cache' = Set(cache, c, Put(cache[c], p, x))
                  /\ vers' = IF p = 1 THEN Set(vers, c, Counter(x)) ELSE vers
             ELSE UNCHANGED <<cache, vers>>
  /\ todo' = Set(todo, c, todo[c] \ {p})
  /\ UNCHANGED <<lockVars, jrnl, jrnlOld, eLock, eState, dirty, held, orig, dbSize, safe, goal, spill, pc, view, mishaps>>

\* All records are back: the file is synced before the journal goes.
Restored(c) ==
  /\ At(c, "restore") /\ todo[c] = {}
  /\ IF Writable(c) THEN SyncDb ELSE UNCHANGED <<db, dbOld>>
  /\ Goto(c, "delete")
  /\ UNCHANGED <<lockVars, jrnl, jrnlOld, pagerVars, goal, todo, spill, view, mishaps>>

CleanTo(c, n) ==
  /\ dirty' = Set(dirty, c, {})
  /\ cache' = Set(cache, c, [p \in {q \in DOMAIN cache[c] : q <= n} |-> cache[c][p]])

\* pager_end_transaction deletes the journal: of a commit this is the moment.  All
\* pages are clean now, and those behind the end leave the cache.
Delete(c) ==
  /\ At(c, "delete")
  /\ WriteJournal(NoJournal)
  /\ IF eState[c] = "finished"
       THEN /\ CleanTo(c, dbSize[c])
            /\ view' = Set(view, c, Contents(db))
            /\ Goto(c, IF Size(db) > dbSize[c] THEN "trim" ELSE "downgrade")
       ELSE /\ CleanTo(c, jrnl.size)
            /\ Goto(c, "downgrade")
            /\ UNCHANGED view
  /\ UNCHANGED <<lockVars, db, dbOld, eLock, eState, vers, held, orig, dbSize, safe, goal, todo, spill, mishaps>>

\* The file that is longer than the database is cut, without a sync.
Trim(c) ==
  /\ At(c, "trim")
  /\ Truncate(dbSize[c])
  /\ Goto(c, "downgrade")
  /\ UNCHANGED <<lockVars, jrnl, jrnlOld, pagerVars, goal, todo, spill, view, mishaps>>

\* A write, a sync, a truncation or the deletion fails in a playback or at the end of
\* a commit: pager_error.  The journal stays where it is; with it, or with the file
\* too long, pager_end_transaction has already given its locks but SHARED back.
EndFails(c) ==
  /\ pc[c] \in {"recover", "undo", "restore", "delete", "trim"} /\ mishaps < MaxMishap
  /\ mishaps' = mishaps + 1
  /\ IF pc[c] \in {"delete", "trim"} THEN pagerUnlockDb(c, SHARED_LOCK)
                                     ELSE UNCHANGED <<lockVars, eLock>>
  /\ (At(c, "recover") /\ SyncJournal) \/ UNCHANGED <<jrnl, jrnlOld>>
  /\ Goto(c, "abort") /\ eState' = Set(eState, c, "error")
  /\ UNCHANGED <<db, dbOld, cache, dirty, vers, held, orig, dbSize, safe, goal, todo, spill, view>>

-----------------------------------------------------------------------------
(* Locks are given back.                                                   *)

\* btreeEndTransaction goes on reading if another statement of the connection does.
Downgrade(c) ==
  /\ At(c, "downgrade")
  /\ pagerUnlockDb(c, SHARED_LOCK)
  /\ IF eState[c] = "open"
       THEN Goto(c, "validate") /\ UNCHANGED eState
       ELSE pc' \in {Set(pc, c, "idle"), Set(pc, c, "release")} /\ eState' = Set(eState, c, "reader")
  /\ orig' = Set(orig, c, 0) /\ dbSize' = Set(dbSize, c, 0) /\ safe' = Set(safe, c, {})
  /\ UNCHANGED <<fileVars, cache, dirty, vers, held, goal, todo, spill, view, mishaps>>

EndRead(c) ==
  /\ At(c, "idle") /\ eState[c] = "reader"
  /\ Goto(c, "release")
  /\ UNCHANGED <<lockVars, fileVars, pagerVars, goal, todo, spill, view, mishaps>>

\* A read of the journal or of a page fails a reader, or the beginning of one.
ReadFails(c) ==
  /\ pc[c] \in {"exists", "reserved", "first", "validate"} \/ (At(c, "idle") /\ eState[c] = "reader")
  /\ mishaps < MaxMishap /\ mishaps' = mishaps + 1
  /\ Goto(c, "release")
  /\ UNCHANGED <<lockVars, fileVars, pagerVars, goal, todo, spill, view>>

\* pager_unlock.
Release(c) ==
  /\ At(c, "release")
  /\ pagerUnlockDb(c, NO_LOCK)
  /\ eState' = Set(eState, c, "open")
  /\ orig' = Set(orig, c, 0) /\ dbSize' = Set(dbSize, c, 0) /\ safe' = Set(safe, c, {})
  /\ view' = Set(view, c, NoView)
  /\ goal' = Set(goal, c, "none")
  /\ Goto(c, "idle")
  /\ UNCHANGED <<fileVars, cache, dirty, vers, held, todo, spill, mishaps>>

\* pager_unlock of a pager in the error state: nothing in its cache can be trusted.
Abort(c) ==
  /\ At(c, "abort")
  /\ pagerUnlockDb(c, NO_LOCK)
  /\ eState' = Set(eState, c, "open")
  /\ cache' = Set(cache, c, NoImage) /\ dirty' = Set(dirty, c, {})
  /\ todo' = Set(todo, c, {}) /\ spill' = Set(spill, c, 0)
  /\ orig' = Set(orig, c, 0) /\ dbSize' = Set(dbSize, c, 0) /\ safe' = Set(safe, c, {})
  /\ view' = Set(view, c, NoView)
  /\ Goto(c, "idle")
  /\ UNCHANGED <<fileVars, vers, held, goal, mishaps>>

-----------------------------------------------------------------------------
(* Crashes.                                                                *)

\* The process is gone with its locks and caches.
Restart ==
  /\ LoseLocks
  /\ eLock' = [c \in Conn |-> NO_LOCK] /\ eState' = [c \in Conn |-> "open"]
  /\ cache' = [c \in Conn |-> NoImage] /\ dirty' = [c \in Conn |-> {}]
  /\ vers' = [c \in Conn |-> 0] /\ held' = [c \in Conn |-> FALSE]
  /\ orig' = [c \in Conn |-> 0] /\ dbSize' = [c \in Conn |-> 0] /\ safe' = [c \in Conn |-> {}] /\ goal' = [c \in Conn |-> "none"]
  /\ todo' = [c \in Conn |-> {}] /\ spill' = [c \in Conn |-> 0]
  /\ pc' = [c \in Conn |-> "idle"] /\ view' = [c \in Conn |-> NoView]
  /\ mishaps < MaxMishap /\ mishaps' = mishaps + 1

Kill == Restart /\ UNCHANGED fileVars

\* The truncation of p has not reached the disk.
Cut(p) == db[p] = Absent /\ dbOld[p] # {}

Surfacing == {Torn} \cup UNION {{db[p]} \cup dbOld[p] : p \in Page}

\* What was not synced is there or not, page by page, or half there; records that
\* no header counts are not read again.  Lengths and names of files change on the
\* disk in the order of the calls: with a journal that is back, so are the pages that
\* were cut after its deletion, and with the removal of a journal the truncation
\* that came before it is there.
PowerLoss ==
  /\ Restart
  /\ \E j \in jrnlOld \cup {jrnl} :
       /\ jrnl' = IF j = NoJournal THEN j ELSE [j EXCEPT !.more = NoImage]
       /\ IF Hot(j)
            THEN db' \in {d \in [Page -> Surfacing] : \A p \in Page :
                            d[p] \in IF dbOld[p] = {} THEN {db[p]}
                                     ELSE IF Cut(p) /\ p <= j.size THEN dbOld[p]
                                     ELSE {db[p], Torn} \cup dbOld[p]}
            ELSE \/ db' = db
                 \/ Size(db) > 0 /\ db' \in {d \in [Page -> Surfacing] : \A p \in Page :
                                              d[p] \in IF Cut(p) THEN dbOld[p] ELSE {db[p]}}
  /\ dbOld' = [p \in Page |-> {}]
  /\ jrnlOld' = {}

-----------------------------------------------------------------------------
\* What goes on inside a call.
Run(c) ==
  \/ Share(c) \/ Exists(c) \/ CheckReserved(c) \/ FirstByte(c) \/ Remnant(c) \/ Exclude(c)
  \/ Recover(c) \/ Validate(c) \/ Reserve(c) \/ NewDatabase(c)
  \/ CommitLock(c) \/ AutoVacuum(c) \/ ChangeCounter(c) \/ JournalSync(c) \/ JournalHeader(c) \/ HeaderSync(c)
  \/ WritePage(c) \/ DbSync(c) \/ WriteFails(c) \/ PageFails(c) \/ Undo(c)
  \/ \E p \in Page : Restore(c, p)
  \/ Restored(c) \/ Delete(c) \/ Trim(c) \/ EndFails(c)
  \/ Downgrade(c) \/ ReadFails(c) \/ Release(c) \/ Abort(c)

Call(c) ==
  \/ \E g \in {"read", "write"} : Begin(c, g)
  \/ Upgrade(c) \/ Commit(c) \/ Rollback(c) \/ EndRead(c)
  \/ \E p \in Page : Read(c, p) \/ Write(c, p) \/ Spill(c, p)

Next == (\E c \in Conn : Run(c) \/ Call(c)) \/ Kill \/ PowerLoss

Spec == Init /\ [][Next]_vars

-----------------------------------------------------------------------------
(* Properties.                                                             *)

\* The file beside a journal that is back.
OnDisk(j) ==
  [p \in Page |-> IF Hot(j) /\ Cut(p) /\ p <= j.size THEN CHOOSE x \in dbOld[p] : TRUE ELSE db[p]]

\* The states of the database that a power loss may leave, once recovered.
Survivors ==
  {Contents(Recovered(OnDisk(j), j)) : j \in jrnlOld \cup {jrnl}}

\* The pager keeps what AtomicStore promises: a transaction reads the state that
\* is committed when its locks are granted, commits in one step and only over the
\* state it read, and no crash leaves a mixture.
Store == INSTANCE AtomicStore WITH
  committed <- Contents(Recovered(db, jrnl)), survivors <- Survivors
StoreSpec == Store!Spec

\* What a transaction reads is the state it began with, from the cache or from the
\* file, until it changes the page itself: a cache that others have made stale was
\* dropped (sqlite3PagerSharedLock), a rollback has taken back every change.
ReadsSnapshot ==
  \A c \in Conn : At(c, "idle") /\ eState[c] # "open" =>
    \A p \in {1} \cup 2..nPage(c) :
      \/ eState[c] \in {"cachemod", "dbmod"} /\ (p > orig[c] \/ p \in Journaled(jrnl))
      \/ Image(c, p) = view[c][p]

\* The file changes under a connection that is alone with it, or when the power
\* fails: no other has a transaction, or a lock on its way to one
\* (sqlite3PagerExclusiveLock, pagerStress and the recovery of a hot journal, against
\* unixLock and posixUnlock).
WrittenAlone ==
  [][db' # db => PowerLoss \/
       \E c \in Conn : \A d \in Conn \ {c} :
         eFileLock[d] = NO_LOCK /\ eState[d] = "open"]_vars

\* A connection that has begun to read beside a journal has found out that nobody
\* needs to play it back (hasHotJournal).
HotJournalPlayedBack ==
  \A c \in Conn : eState[c] = "reader" => ~Hot(jrnl)
=============================================================================
