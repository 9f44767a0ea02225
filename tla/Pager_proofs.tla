---------------------------- MODULE Pager_proofs ----------------------------
(***************************************************************************)
(* The locks under which the pager works: they exclude each other, the     *)
(* file changes only under one that nobody shares, and nobody reads beside *)
(* a hot journal, if connections do not race to find it; for any           *)
(* connections, any size of the file, and any number of changes, errors    *)
(* and crashes.                                                            *)
(***************************************************************************)
EXTENDS Pager, UnixFileLock_proofs

\* The lock e that a connection in the step l and the state s has asked for, and
\* been granted.
Fits(e, l, s) ==
  /\ l \in {"exists", "reserved", "first", "remnant", "exclude", "validate", "reserve",
            "downgrade"} => e >= SHARED_LOCK
  /\ l \in {"share", "exists", "reserved", "first", "remnant", "exclude", "recover"} => s = "open"
  /\ l \in {"recover", "vacuum", "counter", "jsync", "jheader", "jsync2", "write", "sync", "trim"}
       => e = EXCLUSIVE_LOCK
  /\ s # "open" => e >= SHARED_LOCK
  /\ s \in {"dbmod", "finished"} => e = EXCLUSIVE_LOCK
  /\ l \in {"restore", "delete"} /\ s = "open" => e = EXCLUSIVE_LOCK
  /\ l \in {"commit", "vacuum", "counter", "jsync", "jheader", "jsync2", "write", "sync", "undo", "trim"}
       => s # "open"
  /\ s = "error" => l = "abort"

\* Pager.eLock may lag behind the PENDING lock that a refusal leaves.
Good(c) == eLock[c] <= eFileLock[c] /\ Fits(eLock[c], pc[c], eState[c])

Typed ==
  eLock \in [Conn -> Level] /\ pc \in [Conn -> Label] /\ eState \in [Conn -> State]

IInv == Typed /\ LockInv /\ \A c \in Conn : Good(c)

\* A step of c leaves the other connections where they are.
Apart(c) ==
  \A d \in Conn \ {c} :
    /\ eFileLock'[d] = eFileLock[d] /\ eLock'[d] = eLock[d]
    /\ pc'[d] = pc[d] /\ eState'[d] = eState[d]

\* What every step of c does: the file changes under EXCLUSIVE only.
Fine(c) ==
  /\ IInv' /\ Apart(c)
  /\ db' # db => eLock[c] = EXCLUSIVE_LOCK

LEMMA OthersSame ==
  ASSUME IInv, NEW c \in Conn, Typed', LockInv', Apart(c), Good(c)'
  PROVE  IInv'
<1>1. ASSUME NEW d \in Conn, d # c
      PROVE  Good(d)'
  BY <1>1 DEF IInv, Good, Fits, Apart
<1>2. QED
  BY <1>1 DEF IInv

\* Steps that leave the locks alone.
LEMMA NoLockStep ==
  ASSUME IInv, UNCHANGED lockVars
  PROVE  LockInv'
BY DEF IInv, LockInv, lockVars, LockTypeOK, Level, LockExclusion, InodeAgrees, Holders, Holds,
   NO_LOCK, SHARED_LOCK, RESERVED_LOCK, EXCLUSIVE_LOCK

LEMMA Quiet ==
  ASSUME IInv, NEW c \in Conn, UNCHANGED <<lockVars, eLock>>, Typed',
         \A d \in Conn \ {c} : pc'[d] = pc[d] /\ eState'[d] = eState[d],
         Fits(eLock[c], pc'[c], eState'[c])
  PROVE  IInv' /\ Apart(c)
<1>1. Apart(c)
  BY DEF Apart, lockVars
<1>2. Good(c)'
  BY DEF Good, Fits, IInv, lockVars
<1>3. QED
  BY <1>1, <1>2, NoLockStep, OthersSame

-----------------------------------------------------------------------------
(* Locks: what pagerLockDb, a refusal and pagerUnlockDb leave.             *)

LEMMA Granted ==
  ASSUME IInv, NEW c \in Conn, NEW level \in {SHARED_LOCK, RESERVED_LOCK, EXCLUSIVE_LOCK},
         level # SHARED_LOCK => eLock[c] >= SHARED_LOCK, pagerLockDb(c, level)
  PROVE  /\ LockInv' /\ eLock' \in [Conn -> Level]
         /\ level <= eLock'[c] /\ eLock[c] <= eLock'[c] /\ eLock'[c] <= eFileLock'[c]
         /\ \A d \in Conn \ {c} : eFileLock'[d] = eFileLock[d] /\ eLock'[d] = eLock[d]
<1> USE DEF NO_LOCK, SHARED_LOCK, RESERVED_LOCK, PENDING_LOCK, EXCLUSIVE_LOCK, Level
<1>1. /\ eFileLock \in [Conn -> Level] /\ eLock \in [Conn -> Level]
      /\ eLock[c] <= eFileLock[c] /\ LockInv
  BY DEF IInv, Typed, Good, LockInv, LockTypeOK
<1>2. CASE eLock[c] >= level
  BY <1>1, <1>2, NoLockStep DEF pagerLockDb, lockVars
<1>3. CASE ~(eLock[c] >= level)
  <2>1. Lock(c, level) /\ eLock' = [eLock EXCEPT ![c] = level]
    BY <1>3 DEF pagerLockDb, Set
  <2>2. Asks(c, level)
    BY <1>1 DEF Asks, Holds
  <2>3. LockInv'
    BY <1>1, <2>1, <2>2, LockKeeps
  <2>4. level <= eFileLock'[c] /\ \A d \in Conn \ {c} : eFileLock'[d] = eFileLock[d]
    BY <1>1, <2>1 DEF Lock, lockVars, Holds
  <2>5. QED
    BY <1>1, <1>3, <2>1, <2>3, <2>4
<1>4. QED
  BY <1>2, <1>3

LEMMA Refused ==
  ASSUME IInv, NEW c \in Conn, NEW level \in {SHARED_LOCK, RESERVED_LOCK, EXCLUSIVE_LOCK},
         level # SHARED_LOCK => eLock[c] >= SHARED_LOCK, pagerLockBusy(c, level)
  PROVE  /\ LockInv' /\ UNCHANGED eLock /\ eLock[c] <= eFileLock'[c]
         /\ \A d \in Conn \ {c} : eFileLock'[d] = eFileLock[d]
<1> USE DEF NO_LOCK, SHARED_LOCK, RESERVED_LOCK, PENDING_LOCK, EXCLUSIVE_LOCK, Level
<1>1. /\ eFileLock \in [Conn -> Level] /\ eLock \in [Conn -> Level]
      /\ eLock[c] <= eFileLock[c] /\ LockInv
  BY DEF IInv, Typed, Good, LockInv, LockTypeOK
<1>2. LockBusy(c, level) /\ eLock[c] < level /\ UNCHANGED eLock
  BY DEF pagerLockBusy
<1>3. Asks(c, level)
  BY <1>1 DEF Asks, Holds
<1>4. LockInv'
  BY <1>1, <1>2, <1>3, LockBusyKeeps
<1>5. eLock[c] <= eFileLock'[c] /\ \A d \in Conn \ {c} : eFileLock'[d] = eFileLock[d]
  BY <1>1, <1>2 DEF LockBusy, Busy, ReadersLeft, lockVars, Holds
<1>6. QED
  BY <1>2, <1>4, <1>5

LEMMA GivenBack ==
  ASSUME IInv, NEW c \in Conn, NEW level \in {NO_LOCK, SHARED_LOCK},
         eLock[c] >= level, pagerUnlockDb(c, level)
  PROVE  /\ LockInv' /\ eLock' \in [Conn -> Level]
         /\ eLock'[c] = level /\ eLock'[c] <= eFileLock'[c]
         /\ \A d \in Conn \ {c} : eFileLock'[d] = eFileLock[d] /\ eLock'[d] = eLock[d]
<1> USE DEF NO_LOCK, SHARED_LOCK, RESERVED_LOCK, PENDING_LOCK, EXCLUSIVE_LOCK, Level
<1>1. /\ eFileLock \in [Conn -> Level] /\ eLock \in [Conn -> Level]
      /\ eLock[c] <= eFileLock[c] /\ LockInv
  BY DEF IInv, Typed, Good, LockInv, LockTypeOK
<1>2. Unlock(c, level) /\ eLock' = [eLock EXCEPT ![c] = level]
  BY DEF pagerUnlockDb, Set
<1>3. LockInv'
  BY <1>1, <1>2, UnlockKeeps
<1>4. level <= eFileLock'[c] /\ \A d \in Conn \ {c} : eFileLock'[d] = eFileLock[d]
  BY <1>1, <1>2 DEF Unlock, lockVars, Holds
<1>5. QED
  BY <1>1, <1>2, <1>3, <1>4

-----------------------------------------------------------------------------
(* Steps between two locks.                                                *)

\* Restated for steps that write no page of the file.
LEMMA QuietFine ==
  ASSUME IInv, NEW c \in Conn, UNCHANGED <<lockVars, eLock, db>>, Typed',
         \A d \in Conn \ {c} : pc'[d] = pc[d] /\ eState'[d] = eState[d],
         Fits(eLock[c], pc'[c], eState'[c])
  PROVE  Fine(c)
BY Quiet DEF Fine

LEMMA BeginFine ==
  ASSUME IInv, NEW c \in Conn, NEW g, Begin(c, g)
  PROVE  Fine(c)
<1>1. UNCHANGED <<lockVars, eLock, db>> /\ Typed'
  BY DEF IInv, Typed, Label, State, Begin, At, Goto, Set, pagerVars, fileVars, callVars
<1>2. \A d \in Conn \ {c} : pc'[d] = pc[d] /\ eState'[d] = eState[d]
  BY DEF IInv, Typed, Begin, At, Goto, Set, pagerVars, fileVars, callVars
<1>3. Fits(eLock[c], pc'[c], eState'[c])
  BY DEF IInv, Typed, Good, Fits, Begin, At, Goto, Set, pagerVars, fileVars, callVars, Level, NO_LOCK, SHARED_LOCK, RESERVED_LOCK, EXCLUSIVE_LOCK
<1>4. QED
  BY <1>1, <1>2, <1>3, QuietFine

LEMMA ExistsFine ==
  ASSUME IInv, NEW c \in Conn, Exists(c)
  PROVE  Fine(c)
<1>1. UNCHANGED <<lockVars, eLock, db>> /\ Typed'
  BY DEF IInv, Typed, Label, State, Exists, At, Goto, Set, pagerVars, fileVars, callVars
<1>2. \A d \in Conn \ {c} : pc'[d] = pc[d] /\ eState'[d] = eState[d]
  BY DEF IInv, Typed, Exists, At, Goto, Set, pagerVars, fileVars, callVars
<1>3. Fits(eLock[c], pc'[c], eState'[c])
  BY DEF IInv, Typed, Good, Fits, Exists, At, Goto, Set, pagerVars, fileVars, callVars, Level, NO_LOCK, SHARED_LOCK, RESERVED_LOCK, EXCLUSIVE_LOCK
<1>4. QED
  BY <1>1, <1>2, <1>3, QuietFine

LEMMA CheckReservedFine ==
  ASSUME IInv, NEW c \in Conn, CheckReserved(c)
  PROVE  Fine(c)
<1>1. UNCHANGED <<lockVars, eLock, db>> /\ Typed'
  BY DEF IInv, Typed, Label, State, CheckReserved, At, Goto, Set, pagerVars, fileVars, callVars
<1>2. \A d \in Conn \ {c} : pc'[d] = pc[d] /\ eState'[d] = eState[d]
  BY DEF IInv, Typed, CheckReserved, At, Goto, Set, pagerVars, fileVars, callVars
<1>3. Fits(eLock[c], pc'[c], eState'[c])
  BY DEF IInv, Typed, Good, Fits, CheckReserved, At, Goto, Set, pagerVars, fileVars, callVars, Level, NO_LOCK, SHARED_LOCK, RESERVED_LOCK, EXCLUSIVE_LOCK
<1>4. QED
  BY <1>1, <1>2, <1>3, QuietFine

LEMMA FirstByteFine ==
  ASSUME IInv, NEW c \in Conn, FirstByte(c)
  PROVE  Fine(c)
<1>1. UNCHANGED <<lockVars, eLock, db>> /\ Typed'
  BY DEF IInv, Typed, Label, State, FirstByte, At, Goto, Set, pagerVars, fileVars, callVars
<1>2. \A d \in Conn \ {c} : pc'[d] = pc[d] /\ eState'[d] = eState[d]
  BY DEF IInv, Typed, FirstByte, At, Goto, Set, pagerVars, fileVars, callVars
<1>3. Fits(eLock[c], pc'[c], eState'[c])
  BY DEF IInv, Typed, Good, Fits, FirstByte, At, Goto, Set, pagerVars, fileVars, callVars, Level, NO_LOCK, SHARED_LOCK, RESERVED_LOCK, EXCLUSIVE_LOCK
<1>4. QED
  BY <1>1, <1>2, <1>3, QuietFine

LEMMA RemnantFine ==
  ASSUME IInv, NEW c \in Conn, Remnant(c)
  PROVE  Fine(c)
<1>1. UNCHANGED <<lockVars, eLock, db>> /\ Typed'
  BY DEF IInv, Typed, Label, State, Remnant, At, Goto, Set, pagerVars, fileVars, callVars
<1>2. \A d \in Conn \ {c} : pc'[d] = pc[d] /\ eState'[d] = eState[d]
  BY DEF IInv, Typed, Remnant, At, Goto, Set, pagerVars, fileVars, callVars
<1>3. Fits(eLock[c], pc'[c], eState'[c])
  BY DEF IInv, Typed, Good, Fits, Remnant, At, Goto, Set, pagerVars, fileVars, callVars, Level, NO_LOCK, SHARED_LOCK, RESERVED_LOCK, EXCLUSIVE_LOCK
<1>4. QED
  BY <1>1, <1>2, <1>3, QuietFine

LEMMA ValidateFine ==
  ASSUME IInv, NEW c \in Conn, Validate(c)
  PROVE  Fine(c)
<1>1. UNCHANGED <<lockVars, eLock, db>> /\ Typed'
  BY DEF IInv, Typed, Label, State, Validate, At, Goto, Set, pagerVars, fileVars, callVars
<1>2. \A d \in Conn \ {c} : pc'[d] = pc[d] /\ eState'[d] = eState[d]
  BY DEF IInv, Typed, Validate, At, Goto, Set, pagerVars, fileVars, callVars
<1>3. Fits(eLock[c], pc'[c], eState'[c])
  BY DEF IInv, Typed, Good, Fits, Validate, At, Goto, Set, pagerVars, fileVars, callVars, Level, NO_LOCK, SHARED_LOCK, RESERVED_LOCK, EXCLUSIVE_LOCK
<1>4. QED
  BY <1>1, <1>2, <1>3, QuietFine

LEMMA UpgradeFine ==
  ASSUME IInv, NEW c \in Conn, Upgrade(c)
  PROVE  Fine(c)
<1>1. UNCHANGED <<lockVars, eLock, db>> /\ Typed'
  BY DEF IInv, Typed, Label, State, Upgrade, At, Goto, Set, pagerVars, fileVars, callVars
<1>2. \A d \in Conn \ {c} : pc'[d] = pc[d] /\ eState'[d] = eState[d]
  BY DEF IInv, Typed, Upgrade, At, Goto, Set, pagerVars, fileVars, callVars
<1>3. Fits(eLock[c], pc'[c], eState'[c])
  BY DEF IInv, Typed, Good, Fits, Upgrade, At, Goto, Set, pagerVars, fileVars, callVars, Level, NO_LOCK, SHARED_LOCK, RESERVED_LOCK, EXCLUSIVE_LOCK
<1>4. QED
  BY <1>1, <1>2, <1>3, QuietFine

LEMMA NewDatabaseFine ==
  ASSUME IInv, NEW c \in Conn, NewDatabase(c)
  PROVE  Fine(c)
<1>1. UNCHANGED <<lockVars, eLock, db>> /\ Typed'
  BY DEF IInv, Typed, Label, State, NewDatabase, At, Goto, Set, pagerVars, fileVars, callVars, pager_write, pager_journal
<1>2. \A d \in Conn \ {c} : pc'[d] = pc[d] /\ eState'[d] = eState[d]
  BY DEF IInv, Typed, NewDatabase, At, Goto, Set, pagerVars, fileVars, callVars, pager_write, pager_journal
<1>3. Fits(eLock[c], pc'[c], eState'[c])
  BY DEF IInv, Typed, Good, Fits, NewDatabase, At, Goto, Set, pagerVars, fileVars, callVars, pager_write, pager_journal, Level, NO_LOCK, SHARED_LOCK, RESERVED_LOCK, EXCLUSIVE_LOCK
<1>4. QED
  BY <1>1, <1>2, <1>3, QuietFine

LEMMA ReadFine ==
  ASSUME IInv, NEW c \in Conn, NEW p, Read(c, p)
  PROVE  Fine(c)
<1>1. UNCHANGED <<lockVars, eLock, db>> /\ Typed'
  BY DEF IInv, Typed, Label, State, Read, At, Goto, Set, pagerVars, fileVars, callVars
<1>2. \A d \in Conn \ {c} : pc'[d] = pc[d] /\ eState'[d] = eState[d]
  BY DEF IInv, Typed, Read, At, Goto, Set, pagerVars, fileVars, callVars
<1>3. Fits(eLock[c], pc'[c], eState'[c])
  BY DEF IInv, Typed, Good, Fits, Read, At, Goto, Set, pagerVars, fileVars, callVars, Level, NO_LOCK, SHARED_LOCK, RESERVED_LOCK, EXCLUSIVE_LOCK
<1>4. QED
  BY <1>1, <1>2, <1>3, QuietFine

LEMMA WriteFine ==
  ASSUME IInv, NEW c \in Conn, NEW p, Write(c, p)
  PROVE  Fine(c)
<1>1. UNCHANGED <<lockVars, eLock, db>> /\ Typed'
  BY DEF IInv, Typed, Label, State, Write, At, Goto, Set, pagerVars, fileVars, callVars, pager_write, pager_journal, MayWrite
<1>2. \A d \in Conn \ {c} : pc'[d] = pc[d] /\ eState'[d] = eState[d]
  BY DEF IInv, Typed, Write, At, Goto, Set, pagerVars, fileVars, callVars, pager_write, pager_journal, MayWrite
<1>3. Fits(eLock[c], pc'[c], eState'[c])
  BY DEF IInv, Typed, Good, Fits, Write, At, Goto, Set, pagerVars, fileVars, callVars, pager_write, pager_journal, MayWrite, Level, NO_LOCK, SHARED_LOCK, RESERVED_LOCK, EXCLUSIVE_LOCK
<1>4. QED
  BY <1>1, <1>2, <1>3, QuietFine

LEMMA CommitFine ==
  ASSUME IInv, NEW c \in Conn, Commit(c)
  PROVE  Fine(c)
<1>1. UNCHANGED <<lockVars, eLock, db>> /\ Typed'
  BY DEF IInv, Typed, Label, State, Commit, At, Goto, Set, pagerVars, fileVars, callVars, MayWrite
<1>2. \A d \in Conn \ {c} : pc'[d] = pc[d] /\ eState'[d] = eState[d]
  BY DEF IInv, Typed, Commit, At, Goto, Set, pagerVars, fileVars, callVars, MayWrite
<1>3. Fits(eLock[c], pc'[c], eState'[c])
  BY DEF IInv, Typed, Good, Fits, Commit, At, Goto, Set, pagerVars, fileVars, callVars, MayWrite, Level, NO_LOCK, SHARED_LOCK, RESERVED_LOCK, EXCLUSIVE_LOCK
<1>4. QED
  BY <1>1, <1>2, <1>3, QuietFine

LEMMA ChangeCounterFine ==
  ASSUME IInv, NEW c \in Conn, ChangeCounter(c)
  PROVE  Fine(c)
<1>1. UNCHANGED <<lockVars, eLock, db>> /\ Typed'
  BY DEF IInv, Typed, Label, State, ChangeCounter, At, Goto, Set, pagerVars, fileVars, callVars, pager_write, pager_journal
<1>2. \A d \in Conn \ {c} : pc'[d] = pc[d] /\ eState'[d] = eState[d]
  BY DEF IInv, Typed, ChangeCounter, At, Goto, Set, pagerVars, fileVars, callVars, pager_write, pager_journal
<1>3. Fits(eLock[c], pc'[c], eState'[c])
  BY DEF IInv, Typed, Good, Fits, ChangeCounter, At, Goto, Set, pagerVars, fileVars, callVars, pager_write, pager_journal, Level, NO_LOCK, SHARED_LOCK, RESERVED_LOCK, EXCLUSIVE_LOCK
<1>4. QED
  BY <1>1, <1>2, <1>3, QuietFine

LEMMA JournalSyncFine ==
  ASSUME IInv, NEW c \in Conn, JournalSync(c)
  PROVE  Fine(c)
<1>1. UNCHANGED <<lockVars, eLock, db>> /\ Typed'
  BY DEF IInv, Typed, Label, State, JournalSync, At, Goto, Set, pagerVars, fileVars, callVars
<1>2. \A d \in Conn \ {c} : pc'[d] = pc[d] /\ eState'[d] = eState[d]
  BY DEF IInv, Typed, JournalSync, At, Goto, Set, pagerVars, fileVars, callVars
<1>3. Fits(eLock[c], pc'[c], eState'[c])
  BY DEF IInv, Typed, Good, Fits, JournalSync, At, Goto, Set, pagerVars, fileVars, callVars, Level, NO_LOCK, SHARED_LOCK, RESERVED_LOCK, EXCLUSIVE_LOCK
<1>4. QED
  BY <1>1, <1>2, <1>3, QuietFine

LEMMA JournalHeaderFine ==
  ASSUME IInv, NEW c \in Conn, JournalHeader(c)
  PROVE  Fine(c)
<1>1. UNCHANGED <<lockVars, eLock, db>> /\ Typed'
  BY DEF IInv, Typed, Label, State, JournalHeader, At, Goto, Set, pagerVars, fileVars, callVars
<1>2. \A d \in Conn \ {c} : pc'[d] = pc[d] /\ eState'[d] = eState[d]
  BY DEF IInv, Typed, JournalHeader, At, Goto, Set, pagerVars, fileVars, callVars
<1>3. Fits(eLock[c], pc'[c], eState'[c])
  BY DEF IInv, Typed, Good, Fits, JournalHeader, At, Goto, Set, pagerVars, fileVars, callVars, Level, NO_LOCK, SHARED_LOCK, RESERVED_LOCK, EXCLUSIVE_LOCK
<1>4. QED
  BY <1>1, <1>2, <1>3, QuietFine

LEMMA HeaderSyncFine ==
  ASSUME IInv, NEW c \in Conn, HeaderSync(c)
  PROVE  Fine(c)
<1>1. UNCHANGED <<lockVars, eLock, db>> /\ Typed'
  BY DEF IInv, Typed, Label, State, HeaderSync, At, Goto, Set, pagerVars, fileVars, callVars
<1>2. \A d \in Conn \ {c} : pc'[d] = pc[d] /\ eState'[d] = eState[d]
  BY DEF IInv, Typed, HeaderSync, At, Goto, Set, pagerVars, fileVars, callVars
<1>3. Fits(eLock[c], pc'[c], eState'[c])
  BY DEF IInv, Typed, Good, Fits, HeaderSync, At, Goto, Set, pagerVars, fileVars, callVars, Level, NO_LOCK, SHARED_LOCK, RESERVED_LOCK, EXCLUSIVE_LOCK
<1>4. QED
  BY <1>1, <1>2, <1>3, QuietFine

LEMMA WritePageFine ==
  ASSUME IInv, NEW c \in Conn, WritePage(c)
  PROVE  Fine(c)
<1>1. UNCHANGED <<lockVars, eLock>> /\ Typed'
  BY DEF IInv, Typed, Label, State, WritePage, At, Goto, Set, pagerVars, fileVars, callVars, WriteDb
<1>2. \A d \in Conn \ {c} : pc'[d] = pc[d] /\ eState'[d] = eState[d]
  BY DEF IInv, Typed, WritePage, At, Goto, Set, pagerVars, fileVars, callVars, WriteDb
<1>3. Fits(eLock[c], pc'[c], eState'[c])
  BY DEF IInv, Typed, Good, Fits, WritePage, At, Goto, Set, pagerVars, fileVars, callVars, WriteDb, Level, NO_LOCK, SHARED_LOCK, RESERVED_LOCK, EXCLUSIVE_LOCK
<1>4. db' # db => eLock[c] = EXCLUSIVE_LOCK
  BY DEF IInv, Good, Fits, WritePage, At, Goto, Set, pagerVars, fileVars, callVars, WriteDb, Level, NO_LOCK, SHARED_LOCK, RESERVED_LOCK, EXCLUSIVE_LOCK
<1>5. QED
  BY <1>1, <1>2, <1>3, <1>4, Quiet DEF Fine

LEMMA DbSyncFine ==
  ASSUME IInv, NEW c \in Conn, DbSync(c)
  PROVE  Fine(c)
<1>1. UNCHANGED <<lockVars, eLock, db>> /\ Typed'
  BY DEF IInv, Typed, Label, State, DbSync, At, Goto, Set, pagerVars, fileVars, callVars, SyncDb
<1>2. \A d \in Conn \ {c} : pc'[d] = pc[d] /\ eState'[d] = eState[d]
  BY DEF IInv, Typed, DbSync, At, Goto, Set, pagerVars, fileVars, callVars, SyncDb
<1>3. Fits(eLock[c], pc'[c], eState'[c])
  BY DEF IInv, Typed, Good, Fits, DbSync, At, Goto, Set, pagerVars, fileVars, callVars, SyncDb, Level, NO_LOCK, SHARED_LOCK, RESERVED_LOCK, EXCLUSIVE_LOCK
<1>4. QED
  BY <1>1, <1>2, <1>3, QuietFine

LEMMA WriteFailsFine ==
  ASSUME IInv, NEW c \in Conn, WriteFails(c)
  PROVE  Fine(c)
<1>1. UNCHANGED <<lockVars, eLock, db>> /\ Typed'
  BY DEF IInv, Typed, Label, State, WriteFails, At, Goto, Set, pagerVars, fileVars, callVars, RollingBack
<1>2. \A d \in Conn \ {c} : pc'[d] = pc[d] /\ eState'[d] = eState[d]
  BY DEF IInv, Typed, WriteFails, At, Goto, Set, pagerVars, fileVars, callVars, RollingBack
<1>3. Fits(eLock[c], pc'[c], eState'[c])
  BY DEF IInv, Typed, Good, Fits, WriteFails, At, Goto, Set, pagerVars, fileVars, callVars, RollingBack, Level, NO_LOCK, SHARED_LOCK, RESERVED_LOCK, EXCLUSIVE_LOCK
<1>4. QED
  BY <1>1, <1>2, <1>3, QuietFine

LEMMA PageFailsFine ==
  ASSUME IInv, NEW c \in Conn, PageFails(c)
  PROVE  Fine(c)
<1>1. UNCHANGED <<lockVars, eLock, db>> /\ Typed'
  BY DEF IInv, Typed, Label, State, PageFails, At, Goto, Set, pagerVars, fileVars, callVars, RollingBack, MayWrite, pager_journal
<1>2. \A d \in Conn \ {c} : pc'[d] = pc[d] /\ eState'[d] = eState[d]
  BY DEF IInv, Typed, PageFails, At, Goto, Set, pagerVars, fileVars, callVars, RollingBack, MayWrite, pager_journal
<1>3. Fits(eLock[c], pc'[c], eState'[c])
  BY DEF IInv, Typed, Good, Fits, PageFails, At, Goto, Set, pagerVars, fileVars, callVars, RollingBack, MayWrite, pager_journal, Level, NO_LOCK, SHARED_LOCK, RESERVED_LOCK, EXCLUSIVE_LOCK
<1>4. QED
  BY <1>1, <1>2, <1>3, QuietFine

LEMMA AutoVacuumFine ==
  ASSUME IInv, NEW c \in Conn, AutoVacuum(c)
  PROVE  Fine(c)
<1>1. UNCHANGED <<lockVars, eLock, db>> /\ Typed'
  BY DEF IInv, Typed, Label, State, AutoVacuum, At, Goto, Set, pagerVars, fileVars, callVars, pager_journal
<1>2. \A d \in Conn \ {c} : pc'[d] = pc[d] /\ eState'[d] = eState[d]
  BY DEF IInv, Typed, AutoVacuum, At, Goto, Set, pagerVars, fileVars, callVars, pager_journal
<1>3. Fits(eLock[c], pc'[c], eState'[c])
  BY DEF IInv, Typed, Good, Fits, AutoVacuum, At, Goto, Set, pagerVars, fileVars, callVars, pager_journal, Level, NO_LOCK, SHARED_LOCK, RESERVED_LOCK, EXCLUSIVE_LOCK
<1>4. QED
  BY <1>1, <1>2, <1>3, QuietFine

LEMMA UndoFine ==
  ASSUME IInv, NEW c \in Conn, Undo(c)
  PROVE  Fine(c)
<1>1. UNCHANGED <<lockVars, eLock>> /\ Typed'
  BY DEF IInv, Typed, Label, State, Undo, At, Goto, Set, pagerVars, fileVars, callVars, Truncate
<1>2. \A d \in Conn \ {c} : pc'[d] = pc[d] /\ eState'[d] = eState[d]
  BY DEF IInv, Typed, Undo, At, Goto, Set, pagerVars, fileVars, callVars, Truncate
<1>3. Fits(eLock[c], pc'[c], eState'[c])
  BY DEF IInv, Typed, Good, Fits, Undo, At, Goto, Set, pagerVars, fileVars, callVars, Truncate, Level, NO_LOCK, SHARED_LOCK, RESERVED_LOCK, EXCLUSIVE_LOCK
<1>4. db' # db => eLock[c] = EXCLUSIVE_LOCK
  BY DEF IInv, Good, Fits, Undo, At, Goto, Set, pagerVars, fileVars, callVars, Truncate, Level, NO_LOCK, SHARED_LOCK, RESERVED_LOCK, EXCLUSIVE_LOCK
<1>5. QED
  BY <1>1, <1>2, <1>3, <1>4, Quiet DEF Fine

LEMMA RollbackFine ==
  ASSUME IInv, NEW c \in Conn, Rollback(c)
  PROVE  Fine(c)
<1>1. UNCHANGED <<lockVars, eLock, db>> /\ Typed'
  BY DEF IInv, Typed, Label, State, Rollback, At, Goto, Set, pagerVars, fileVars, callVars, RollingBack, MayWrite
<1>2. \A d \in Conn \ {c} : pc'[d] = pc[d] /\ eState'[d] = eState[d]
  BY DEF IInv, Typed, Rollback, At, Goto, Set, pagerVars, fileVars, callVars, RollingBack, MayWrite
<1>3. Fits(eLock[c], pc'[c], eState'[c])
  BY DEF IInv, Typed, Good, Fits, Rollback, At, Goto, Set, pagerVars, fileVars, callVars, RollingBack, MayWrite, Level, NO_LOCK, SHARED_LOCK, RESERVED_LOCK, EXCLUSIVE_LOCK
<1>4. QED
  BY <1>1, <1>2, <1>3, QuietFine

LEMMA RestoreFine ==
  ASSUME IInv, NEW c \in Conn, NEW p, Restore(c, p)
  PROVE  Fine(c)
<1>1. UNCHANGED <<lockVars, eLock>> /\ Typed'
  BY DEF IInv, Typed, Label, State, Restore, At, Goto, Set, pagerVars, fileVars, callVars, WriteDb, Writable
<1>2. \A d \in Conn \ {c} : pc'[d] = pc[d] /\ eState'[d] = eState[d]
  BY DEF IInv, Typed, Restore, At, Goto, Set, pagerVars, fileVars, callVars, WriteDb, Writable
<1>3. Fits(eLock[c], pc'[c], eState'[c])
  BY DEF IInv, Typed, Good, Fits, Restore, At, Goto, Set, pagerVars, fileVars, callVars, WriteDb, Writable, Level, NO_LOCK, SHARED_LOCK, RESERVED_LOCK, EXCLUSIVE_LOCK
<1>4. db' # db => eLock[c] = EXCLUSIVE_LOCK
  BY DEF IInv, Good, Fits, Restore, At, Goto, Set, pagerVars, fileVars, callVars, WriteDb, Writable, Level, NO_LOCK, SHARED_LOCK, RESERVED_LOCK, EXCLUSIVE_LOCK
<1>5. QED
  BY <1>1, <1>2, <1>3, <1>4, Quiet DEF Fine

LEMMA RestoredFine ==
  ASSUME IInv, NEW c \in Conn, Restored(c)
  PROVE  Fine(c)
<1>1. UNCHANGED <<lockVars, eLock, db>> /\ Typed'
  BY DEF IInv, Typed, Label, State, Restored, At, Goto, Set, pagerVars, fileVars, callVars, SyncDb, Writable
<1>2. \A d \in Conn \ {c} : pc'[d] = pc[d] /\ eState'[d] = eState[d]
  BY DEF IInv, Typed, Restored, At, Goto, Set, pagerVars, fileVars, callVars, SyncDb, Writable
<1>3. Fits(eLock[c], pc'[c], eState'[c])
  BY DEF IInv, Typed, Good, Fits, Restored, At, Goto, Set, pagerVars, fileVars, callVars, SyncDb, Writable, Level, NO_LOCK, SHARED_LOCK, RESERVED_LOCK, EXCLUSIVE_LOCK
<1>4. QED
  BY <1>1, <1>2, <1>3, QuietFine

LEMMA DeleteFine ==
  ASSUME IInv, NEW c \in Conn, Delete(c)
  PROVE  Fine(c)
<1>1. UNCHANGED <<lockVars, eLock, db>> /\ Typed'
  BY DEF IInv, Typed, Label, State, Delete, At, Goto, Set, pagerVars, fileVars, callVars, CleanTo
<1>2. \A d \in Conn \ {c} : pc'[d] = pc[d] /\ eState'[d] = eState[d]
  BY DEF IInv, Typed, Delete, At, Goto, Set, pagerVars, fileVars, callVars, CleanTo
<1>3. Fits(eLock[c], pc'[c], eState'[c])
  BY DEF IInv, Typed, Good, Fits, Delete, At, Goto, Set, pagerVars, fileVars, callVars, CleanTo, Level, NO_LOCK, SHARED_LOCK, RESERVED_LOCK, EXCLUSIVE_LOCK
<1>4. QED
  BY <1>1, <1>2, <1>3, QuietFine

LEMMA TrimFine ==
  ASSUME IInv, NEW c \in Conn, Trim(c)
  PROVE  Fine(c)
<1>1. UNCHANGED <<lockVars, eLock>> /\ Typed'
  BY DEF IInv, Typed, Label, State, Trim, At, Goto, Set, pagerVars, fileVars, callVars, Truncate
<1>2. \A d \in Conn \ {c} : pc'[d] = pc[d] /\ eState'[d] = eState[d]
  BY DEF IInv, Typed, Trim, At, Goto, Set, pagerVars, fileVars, callVars, Truncate
<1>3. Fits(eLock[c], pc'[c], eState'[c])
  BY DEF IInv, Typed, Good, Fits, Trim, At, Goto, Set, pagerVars, fileVars, callVars, Truncate, Level, NO_LOCK, SHARED_LOCK, RESERVED_LOCK, EXCLUSIVE_LOCK
<1>4. db' # db => eLock[c] = EXCLUSIVE_LOCK
  BY DEF IInv, Good, Fits, Trim, At, Goto, Set, pagerVars, fileVars, callVars, Truncate, Level, NO_LOCK, SHARED_LOCK, RESERVED_LOCK, EXCLUSIVE_LOCK
<1>5. QED
  BY <1>1, <1>2, <1>3, <1>4, Quiet DEF Fine

LEMMA ReadFailsFine ==
  ASSUME IInv, NEW c \in Conn, ReadFails(c)
  PROVE  Fine(c)
<1>1. UNCHANGED <<lockVars, eLock, db>> /\ Typed'
  BY DEF IInv, Typed, Label, State, ReadFails, At, Goto, Set, pagerVars, fileVars, callVars
<1>2. \A d \in Conn \ {c} : pc'[d] = pc[d] /\ eState'[d] = eState[d]
  BY DEF IInv, Typed, ReadFails, At, Goto, Set, pagerVars, fileVars, callVars
<1>3. Fits(eLock[c], pc'[c], eState'[c])
  BY DEF IInv, Typed, Good, Fits, ReadFails, At, Goto, Set, pagerVars, fileVars, callVars, Level, NO_LOCK, SHARED_LOCK, RESERVED_LOCK, EXCLUSIVE_LOCK
<1>4. QED
  BY <1>1, <1>2, <1>3, QuietFine

LEMMA EndReadFine ==
  ASSUME IInv, NEW c \in Conn, EndRead(c)
  PROVE  Fine(c)
<1>1. UNCHANGED <<lockVars, eLock, db>> /\ Typed'
  BY DEF IInv, Typed, Label, State, EndRead, At, Goto, Set, pagerVars, fileVars, callVars
<1>2. \A d \in Conn \ {c} : pc'[d] = pc[d] /\ eState'[d] = eState[d]
  BY DEF IInv, Typed, EndRead, At, Goto, Set, pagerVars, fileVars, callVars
<1>3. Fits(eLock[c], pc'[c], eState'[c])
  BY DEF IInv, Typed, Good, Fits, EndRead, At, Goto, Set, pagerVars, fileVars, callVars, Level, NO_LOCK, SHARED_LOCK, RESERVED_LOCK, EXCLUSIVE_LOCK
<1>4. QED
  BY <1>1, <1>2, <1>3, QuietFine

-----------------------------------------------------------------------------
(* Steps that take or give back a lock.                                    *)

\* Restated for a step with all its effects on the locks known.
LEMMA LockStep ==
  ASSUME IInv, NEW c \in Conn, LockInv', eLock' \in [Conn -> Level],
         eLock'[c] <= eFileLock'[c],
         \A d \in Conn \ {c} : eFileLock'[d] = eFileLock[d] /\ eLock'[d] = eLock[d],
         pc' \in [Conn -> Label], eState' \in [Conn -> State],
         \A d \in Conn \ {c} : pc'[d] = pc[d] /\ eState'[d] = eState[d],
         Fits(eLock'[c], pc'[c], eState'[c])
  PROVE  IInv' /\ Apart(c)
<1>1. Typed' /\ Apart(c)
  BY DEF Typed, Apart
<1>2. Good(c)'
  BY DEF Good, Fits
<1>3. QED
  BY <1>1, <1>2, OthersSame

LEMMA ShareFine ==
  ASSUME IInv, NEW c \in Conn, Share(c)
  PROVE  Fine(c)
<1>1. /\ pc' \in [Conn -> Label] /\ eState' \in [Conn -> State]
      /\ \A d \in Conn \ {c} : pc'[d] = pc[d] /\ eState'[d] = eState[d]
  BY DEF IInv, Typed, Label, State, Share, At, Goto, Set, fileVars
<1>2. Typed /\ Fits(eLock[c], pc[c], eState[c])
  BY DEF IInv, Good
<1>3. db' # db => eLock[c] = EXCLUSIVE_LOCK
  BY <1>2 DEF Fits, Share, At, Goto, Set, fileVars
<1>4. CASE pagerLockDb(c, SHARED_LOCK)
  <2>1. /\ LockInv' /\ eLock' \in [Conn -> Level] /\ eLock'[c] <= eFileLock'[c]
        /\ \A e \in Conn \ {c} : eFileLock'[e] = eFileLock[e] /\ eLock'[e] = eLock[e]
        /\ SHARED_LOCK <= eLock'[c] /\ eLock[c] <= eLock'[c]
    BY <1>4, <1>2, Granted DEF Typed
  <2>2. Fits(eLock'[c], pc'[c], eState'[c])
    BY <1>4, <1>2, <2>1 DEF Typed, Fits, pagerLockDb, pagerLockBusy, Share, At, Goto, Set, fileVars, Level, NO_LOCK, SHARED_LOCK, RESERVED_LOCK, EXCLUSIVE_LOCK
  <2>3. QED
    BY <1>1, <1>3, <2>1, <2>2, LockStep DEF Fine
<1>5. CASE pagerLockBusy(c, SHARED_LOCK)
  <2>1. /\ LockInv' /\ eLock' \in [Conn -> Level] /\ eLock'[c] <= eFileLock'[c]
        /\ \A e \in Conn \ {c} : eFileLock'[e] = eFileLock[e] /\ eLock'[e] = eLock[e]
        /\ eLock'[c] = eLock[c] /\ eLock[c] < SHARED_LOCK
    BY <1>5, <1>2, Refused DEF Typed, pagerLockBusy
  <2>2. Fits(eLock'[c], pc'[c], eState'[c])
    BY <1>5, <1>2, <2>1 DEF Typed, Fits, pagerLockDb, pagerLockBusy, Share, At, Goto, Set, fileVars, Level, NO_LOCK, SHARED_LOCK, RESERVED_LOCK, EXCLUSIVE_LOCK
  <2>3. QED
    BY <1>1, <1>3, <2>1, <2>2, LockStep DEF Fine
<1>6. QED
  BY <1>4, <1>5 DEF Share

LEMMA ExcludeFine ==
  ASSUME IInv, NEW c \in Conn, Exclude(c)
  PROVE  Fine(c)
<1>1. /\ pc' \in [Conn -> Label] /\ eState' \in [Conn -> State]
      /\ \A d \in Conn \ {c} : pc'[d] = pc[d] /\ eState'[d] = eState[d]
  BY DEF IInv, Typed, Label, State, Exclude, At, Goto, Set, fileVars
<1>2. Typed /\ Fits(eLock[c], pc[c], eState[c])
  BY DEF IInv, Good
<1>3. db' # db => eLock[c] = EXCLUSIVE_LOCK
  BY <1>2 DEF Fits, Exclude, At, Goto, Set, fileVars
<1>4. CASE pagerLockDb(c, EXCLUSIVE_LOCK)
  <2>1. eLock[c] >= SHARED_LOCK
    BY <1>2 DEF Typed, Fits, Exclude, At, Goto, Set, fileVars, Level, NO_LOCK, SHARED_LOCK, RESERVED_LOCK, EXCLUSIVE_LOCK
  <2>2. /\ LockInv' /\ eLock' \in [Conn -> Level] /\ eLock'[c] <= eFileLock'[c]
        /\ \A e \in Conn \ {c} : eFileLock'[e] = eFileLock[e] /\ eLock'[e] = eLock[e]
        /\ EXCLUSIVE_LOCK <= eLock'[c] /\ eLock[c] <= eLock'[c]
    BY <1>4, <1>2, <2>1, Granted DEF Typed
  <2>3. Fits(eLock'[c], pc'[c], eState'[c])
    BY <1>4, <1>2, <2>2 DEF Typed, Fits, pagerLockDb, pagerLockBusy, Exclude, At, Goto, Set, fileVars, Level, NO_LOCK, SHARED_LOCK, RESERVED_LOCK, EXCLUSIVE_LOCK
  <2>4. QED
    BY <1>1, <1>3, <2>2, <2>3, LockStep DEF Fine
<1>5. CASE pagerLockBusy(c, EXCLUSIVE_LOCK)
  <2>1. eLock[c] >= SHARED_LOCK
    BY <1>2 DEF Typed, Fits, Exclude, At, Goto, Set, fileVars, Level, NO_LOCK, SHARED_LOCK, RESERVED_LOCK, EXCLUSIVE_LOCK
  <2>2. /\ LockInv' /\ eLock' \in [Conn -> Level] /\ eLock'[c] <= eFileLock'[c]
        /\ \A e \in Conn \ {c} : eFileLock'[e] = eFileLock[e] /\ eLock'[e] = eLock[e]
        /\ eLock'[c] = eLock[c] /\ eLock[c] < EXCLUSIVE_LOCK
    BY <1>5, <1>2, <2>1, Refused DEF Typed, pagerLockBusy
  <2>3. Fits(eLock'[c], pc'[c], eState'[c])
    BY <1>5, <1>2, <2>2 DEF Typed, Fits, pagerLockDb, pagerLockBusy, Exclude, At, Goto, Set, fileVars, Level, NO_LOCK, SHARED_LOCK, RESERVED_LOCK, EXCLUSIVE_LOCK
  <2>4. QED
    BY <1>1, <1>3, <2>2, <2>3, LockStep DEF Fine
<1>6. QED
  BY <1>4, <1>5 DEF Exclude

LEMMA ReserveFine ==
  ASSUME IInv, NEW c \in Conn, Reserve(c)
  PROVE  Fine(c)
<1>1. /\ pc' \in [Conn -> Label] /\ eState' \in [Conn -> State]
      /\ \A d \in Conn \ {c} : pc'[d] = pc[d] /\ eState'[d] = eState[d]
  BY DEF IInv, Typed, Label, State, Reserve, At, Goto, Set, fileVars
<1>2. Typed /\ Fits(eLock[c], pc[c], eState[c])
  BY DEF IInv, Good
<1>3. db' # db => eLock[c] = EXCLUSIVE_LOCK
  BY <1>2 DEF Fits, Reserve, At, Goto, Set, fileVars
<1>4. CASE pagerLockDb(c, RESERVED_LOCK)
  <2>1. eLock[c] >= SHARED_LOCK
    BY <1>2 DEF Typed, Fits, Reserve, At, Goto, Set, fileVars, Level, NO_LOCK, SHARED_LOCK, RESERVED_LOCK, EXCLUSIVE_LOCK
  <2>2. /\ LockInv' /\ eLock' \in [Conn -> Level] /\ eLock'[c] <= eFileLock'[c]
        /\ \A e \in Conn \ {c} : eFileLock'[e] = eFileLock[e] /\ eLock'[e] = eLock[e]
        /\ RESERVED_LOCK <= eLock'[c] /\ eLock[c] <= eLock'[c]
    BY <1>4, <1>2, <2>1, Granted DEF Typed
  <2>3. Fits(eLock'[c], pc'[c], eState'[c])
    BY <1>4, <1>2, <2>2 DEF Typed, Fits, pagerLockDb, pagerLockBusy, Reserve, At, Goto, Set, fileVars, Level, NO_LOCK, SHARED_LOCK, RESERVED_LOCK, EXCLUSIVE_LOCK
  <2>4. QED
    BY <1>1, <1>3, <2>2, <2>3, LockStep DEF Fine
<1>5. CASE pagerLockBusy(c, RESERVED_LOCK)
  <2>1. eLock[c] >= SHARED_LOCK
    BY <1>2 DEF Typed, Fits, Reserve, At, Goto, Set, fileVars, Level, NO_LOCK, SHARED_LOCK, RESERVED_LOCK, EXCLUSIVE_LOCK
  <2>2. /\ LockInv' /\ eLock' \in [Conn -> Level] /\ eLock'[c] <= eFileLock'[c]
        /\ \A e \in Conn \ {c} : eFileLock'[e] = eFileLock[e] /\ eLock'[e] = eLock[e]
        /\ eLock'[c] = eLock[c] /\ eLock[c] < RESERVED_LOCK
    BY <1>5, <1>2, <2>1, Refused DEF Typed, pagerLockBusy
  <2>3. Fits(eLock'[c], pc'[c], eState'[c])
    BY <1>5, <1>2, <2>2 DEF Typed, Fits, pagerLockDb, pagerLockBusy, Reserve, At, Goto, Set, fileVars, Level, NO_LOCK, SHARED_LOCK, RESERVED_LOCK, EXCLUSIVE_LOCK
  <2>4. QED
    BY <1>1, <1>3, <2>2, <2>3, LockStep DEF Fine
<1>6. QED
  BY <1>4, <1>5 DEF Reserve

LEMMA SpillFine ==
  ASSUME IInv, NEW c \in Conn, NEW p \in Page, Spill(c, p)
  PROVE  Fine(c)
<1>1. /\ pc' \in [Conn -> Label] /\ eState' \in [Conn -> State]
      /\ \A d \in Conn \ {c} : pc'[d] = pc[d] /\ eState'[d] = eState[d]
  BY DEF IInv, Typed, Label, State, Spill, At, Goto, Set, fileVars
<1>2. Typed /\ Fits(eLock[c], pc[c], eState[c])
  BY DEF IInv, Good
<1>3. db' # db => eLock[c] = EXCLUSIVE_LOCK
  BY <1>2 DEF Fits, Spill, At, Goto, Set, fileVars
<1>4. CASE pagerLockDb(c, EXCLUSIVE_LOCK)
  <2>1. eLock[c] >= SHARED_LOCK
    BY <1>2 DEF Typed, Fits, Spill, At, Goto, Set, fileVars, Level, NO_LOCK, SHARED_LOCK, RESERVED_LOCK, EXCLUSIVE_LOCK
  <2>2. /\ LockInv' /\ eLock' \in [Conn -> Level] /\ eLock'[c] <= eFileLock'[c]
        /\ \A e \in Conn \ {c} : eFileLock'[e] = eFileLock[e] /\ eLock'[e] = eLock[e]
        /\ EXCLUSIVE_LOCK <= eLock'[c] /\ eLock[c] <= eLock'[c]
    BY <1>4, <1>2, <2>1, Granted DEF Typed
  <2>3. Fits(eLock'[c], pc'[c], eState'[c])
    BY <1>4, <1>2, <2>2 DEF Typed, Fits, pagerLockDb, pagerLockBusy, Spill, At, Goto, Set, fileVars, Level, NO_LOCK, SHARED_LOCK, RESERVED_LOCK, EXCLUSIVE_LOCK
  <2>4. QED
    BY <1>1, <1>3, <2>2, <2>3, LockStep DEF Fine
<1>5. CASE pagerLockBusy(c, EXCLUSIVE_LOCK)
  <2>1. eLock[c] >= SHARED_LOCK
    BY <1>2 DEF Typed, Fits, Spill, At, Goto, Set, fileVars, Level, NO_LOCK, SHARED_LOCK, RESERVED_LOCK, EXCLUSIVE_LOCK
  <2>2. /\ LockInv' /\ eLock' \in [Conn -> Level] /\ eLock'[c] <= eFileLock'[c]
        /\ \A e \in Conn \ {c} : eFileLock'[e] = eFileLock[e] /\ eLock'[e] = eLock[e]
        /\ eLock'[c] = eLock[c] /\ eLock[c] < EXCLUSIVE_LOCK
    BY <1>5, <1>2, <2>1, Refused DEF Typed, pagerLockBusy
  <2>3. Fits(eLock'[c], pc'[c], eState'[c])
    BY <1>5, <1>2, <2>2 DEF Typed, Fits, pagerLockDb, pagerLockBusy, Spill, At, Goto, Set, fileVars, Level, NO_LOCK, SHARED_LOCK, RESERVED_LOCK, EXCLUSIVE_LOCK
  <2>4. QED
    BY <1>1, <1>3, <2>2, <2>3, LockStep DEF Fine
<1>6. QED
  BY <1>4, <1>5 DEF Spill

LEMMA CommitLockFine ==
  ASSUME IInv, NEW c \in Conn, CommitLock(c)
  PROVE  Fine(c)
<1>1. /\ pc' \in [Conn -> Label] /\ eState' \in [Conn -> State]
      /\ \A d \in Conn \ {c} : pc'[d] = pc[d] /\ eState'[d] = eState[d]
  BY DEF IInv, Typed, Label, State, CommitLock, At, Goto, Set, RollingBack, fileVars
<1>2. Typed /\ Fits(eLock[c], pc[c], eState[c])
  BY DEF IInv, Good
<1>3. db' # db => eLock[c] = EXCLUSIVE_LOCK
  BY <1>2 DEF Fits, CommitLock, At, Goto, Set, RollingBack, fileVars
<1>4. CASE pagerLockDb(c, EXCLUSIVE_LOCK)
  <2>1. eLock[c] >= SHARED_LOCK
    BY <1>2 DEF Typed, Fits, CommitLock, At, Goto, Set, RollingBack, fileVars, Level, NO_LOCK, SHARED_LOCK, RESERVED_LOCK, EXCLUSIVE_LOCK
  <2>2. /\ LockInv' /\ eLock' \in [Conn -> Level] /\ eLock'[c] <= eFileLock'[c]
        /\ \A e \in Conn \ {c} : eFileLock'[e] = eFileLock[e] /\ eLock'[e] = eLock[e]
        /\ EXCLUSIVE_LOCK <= eLock'[c] /\ eLock[c] <= eLock'[c]
    BY <1>4, <1>2, <2>1, Granted DEF Typed
  <2>3. Fits(eLock'[c], pc'[c], eState'[c])
    BY <1>4, <1>2, <2>2 DEF Typed, Fits, pagerLockDb, pagerLockBusy, CommitLock, At, Goto, Set, RollingBack, fileVars, Level, NO_LOCK, SHARED_LOCK, RESERVED_LOCK, EXCLUSIVE_LOCK
  <2>4. QED
    BY <1>1, <1>3, <2>2, <2>3, LockStep DEF Fine
<1>5. CASE pagerLockBusy(c, EXCLUSIVE_LOCK)
  <2>1. eLock[c] >= SHARED_LOCK
    BY <1>2 DEF Typed, Fits, CommitLock, At, Goto, Set, RollingBack, fileVars, Level, NO_LOCK, SHARED_LOCK, RESERVED_LOCK, EXCLUSIVE_LOCK
  <2>2. /\ LockInv' /\ eLock' \in [Conn -> Level] /\ eLock'[c] <= eFileLock'[c]
        /\ \A e \in Conn \ {c} : eFileLock'[e] = eFileLock[e] /\ eLock'[e] = eLock[e]
        /\ eLock'[c] = eLock[c] /\ eLock[c] < EXCLUSIVE_LOCK
    BY <1>5, <1>2, <2>1, Refused DEF Typed, pagerLockBusy
  <2>3. Fits(eLock'[c], pc'[c], eState'[c])
    BY <1>5, <1>2, <2>2 DEF Typed, Fits, pagerLockDb, pagerLockBusy, CommitLock, At, Goto, Set, RollingBack, fileVars, Level, NO_LOCK, SHARED_LOCK, RESERVED_LOCK, EXCLUSIVE_LOCK
  <2>4. QED
    BY <1>1, <1>3, <2>2, <2>3, LockStep DEF Fine
<1>6. QED
  BY <1>4, <1>5 DEF CommitLock

LEMMA DowngradeFine ==
  ASSUME IInv, NEW c \in Conn, Downgrade(c)
  PROVE  Fine(c)
<1>1. /\ pc' \in [Conn -> Label] /\ eState' \in [Conn -> State]
      /\ \A d \in Conn \ {c} : pc'[d] = pc[d] /\ eState'[d] = eState[d]
  BY DEF IInv, Typed, Label, State, Downgrade, At, Goto, Set, fileVars
<1>2. Typed /\ Fits(eLock[c], pc[c], eState[c])
  BY DEF IInv, Good
<1>3. db' # db => eLock[c] = EXCLUSIVE_LOCK
  BY <1>2 DEF Fits, Downgrade, At, Goto, Set, fileVars
<1>4. CASE pagerUnlockDb(c, SHARED_LOCK)
  <2>1. eLock[c] >= SHARED_LOCK
    BY <1>2 DEF Typed, Fits, Downgrade, At, Goto, Set, fileVars, Level, NO_LOCK, SHARED_LOCK, RESERVED_LOCK, EXCLUSIVE_LOCK
  <2>2. /\ LockInv' /\ eLock' \in [Conn -> Level] /\ eLock'[c] <= eFileLock'[c]
        /\ \A e \in Conn \ {c} : eFileLock'[e] = eFileLock[e] /\ eLock'[e] = eLock[e]
        /\ eLock'[c] = SHARED_LOCK
    BY <1>4, <1>2, <2>1, GivenBack DEF Typed
  <2>3. Fits(eLock'[c], pc'[c], eState'[c])
    BY <1>4, <1>2, <2>2 DEF Typed, Fits, pagerLockDb, pagerLockBusy, Downgrade, At, Goto, Set, fileVars, Level, NO_LOCK, SHARED_LOCK, RESERVED_LOCK, EXCLUSIVE_LOCK
  <2>4. QED
    BY <1>1, <1>3, <2>2, <2>3, LockStep DEF Fine
<1>5. QED
  BY <1>4 DEF Downgrade

LEMMA ReleaseFine ==
  ASSUME IInv, NEW c \in Conn, Release(c)
  PROVE  Fine(c)
<1>1. /\ pc' \in [Conn -> Label] /\ eState' \in [Conn -> State]
      /\ \A d \in Conn \ {c} : pc'[d] = pc[d] /\ eState'[d] = eState[d]
  BY DEF IInv, Typed, Label, State, Release, At, Goto, Set, fileVars
<1>2. Typed /\ Fits(eLock[c], pc[c], eState[c])
  BY DEF IInv, Good
<1>3. db' # db => eLock[c] = EXCLUSIVE_LOCK
  BY <1>2 DEF Fits, Release, At, Goto, Set, fileVars
<1>4. CASE pagerUnlockDb(c, NO_LOCK)
  <2>1. eLock[c] >= NO_LOCK
    BY <1>2 DEF Typed, Fits, Release, At, Goto, Set, fileVars, Level, NO_LOCK, SHARED_LOCK, RESERVED_LOCK, EXCLUSIVE_LOCK
  <2>2. /\ LockInv' /\ eLock' \in [Conn -> Level] /\ eLock'[c] <= eFileLock'[c]
        /\ \A e \in Conn \ {c} : eFileLock'[e] = eFileLock[e] /\ eLock'[e] = eLock[e]
        /\ eLock'[c] = NO_LOCK
    BY <1>4, <1>2, <2>1, GivenBack DEF Typed
  <2>3. Fits(eLock'[c], pc'[c], eState'[c])
    BY <1>4, <1>2, <2>2 DEF Typed, Fits, pagerLockDb, pagerLockBusy, Release, At, Goto, Set, fileVars, Level, NO_LOCK, SHARED_LOCK, RESERVED_LOCK, EXCLUSIVE_LOCK
  <2>4. QED
    BY <1>1, <1>3, <2>2, <2>3, LockStep DEF Fine
<1>5. QED
  BY <1>4 DEF Release

LEMMA AbortFine ==
  ASSUME IInv, NEW c \in Conn, Abort(c)
  PROVE  Fine(c)
<1>1. /\ pc' \in [Conn -> Label] /\ eState' \in [Conn -> State]
      /\ \A d \in Conn \ {c} : pc'[d] = pc[d] /\ eState'[d] = eState[d]
  BY DEF IInv, Typed, Label, State, Abort, At, Goto, Set, fileVars
<1>2. Typed /\ Fits(eLock[c], pc[c], eState[c])
  BY DEF IInv, Good
<1>3. db' # db => eLock[c] = EXCLUSIVE_LOCK
  BY <1>2 DEF Fits, Abort, At, Goto, Set, fileVars
<1>4. CASE pagerUnlockDb(c, NO_LOCK)
  <2>1. eLock[c] >= NO_LOCK
    BY <1>2 DEF Typed, Fits, Abort, At, Goto, Set, fileVars, Level, NO_LOCK, SHARED_LOCK, RESERVED_LOCK, EXCLUSIVE_LOCK
  <2>2. /\ LockInv' /\ eLock' \in [Conn -> Level] /\ eLock'[c] <= eFileLock'[c]
        /\ \A e \in Conn \ {c} : eFileLock'[e] = eFileLock[e] /\ eLock'[e] = eLock[e]
        /\ eLock'[c] = NO_LOCK
    BY <1>4, <1>2, <2>1, GivenBack DEF Typed
  <2>3. Fits(eLock'[c], pc'[c], eState'[c])
    BY <1>4, <1>2, <2>2 DEF Typed, Fits, pagerLockDb, pagerLockBusy, Abort, At, Goto, Set, fileVars, Level, NO_LOCK, SHARED_LOCK, RESERVED_LOCK, EXCLUSIVE_LOCK
  <2>4. QED
    BY <1>1, <1>3, <2>2, <2>3, LockStep DEF Fine
<1>5. QED
  BY <1>4 DEF Abort

LEMMA RecoverFine ==
  ASSUME IInv, NEW c \in Conn, Recover(c)
  PROVE  Fine(c)
<1>1. eLock[c] = EXCLUSIVE_LOCK
  BY DEF IInv, Good, Fits, Recover, At
<1>2. CASE jrnl = NoJournal
  <2>1. pagerUnlockDb(c, SHARED_LOCK) /\ pc' = [pc EXCEPT ![c] = "validate"]
        /\ UNCHANGED <<eState, db>>
    BY <1>2 DEF Recover, Goto, Set, fileVars
  <2>2. /\ LockInv' /\ eLock' \in [Conn -> Level] /\ eLock'[c] <= eFileLock'[c]
        /\ \A e \in Conn \ {c} : eFileLock'[e] = eFileLock[e] /\ eLock'[e] = eLock[e]
        /\ eLock'[c] = SHARED_LOCK
    BY <1>1, <2>1, GivenBack DEF SHARED_LOCK, EXCLUSIVE_LOCK
  <2>3. /\ pc' \in [Conn -> Label] /\ eState' \in [Conn -> State]
        /\ \A d \in Conn \ {c} : pc'[d] = pc[d] /\ eState'[d] = eState[d]
        /\ pc'[c] = "validate" /\ eState'[c] = eState[c]
    BY <2>1 DEF IInv, Typed, Label
  <2>4. Fits(eLock'[c], pc'[c], eState'[c])
    BY <1>1, <2>2, <2>3 DEF Recover, At, IInv, Good, Fits, SHARED_LOCK, EXCLUSIVE_LOCK
  <2>5. QED
    BY <2>1, <2>2, <2>3, <2>4, LockStep DEF Fine
<1>3. CASE jrnl # NoJournal
  <2>1. pc' = [pc EXCEPT ![c] = "restore"] /\ UNCHANGED <<eState, lockVars, eLock>>
    BY <1>3 DEF Recover, Goto, Set
  <2>2. /\ Typed' /\ \A d \in Conn \ {c} : pc'[d] = pc[d] /\ eState'[d] = eState[d]
        /\ pc'[c] = "restore" /\ eState'[c] = eState[c]
    BY <2>1 DEF IInv, Typed, Label
  <2>3. Fits(eLock[c], pc'[c], eState'[c])
    BY <1>1, <2>2 DEF Recover, At, IInv, Good, Fits, SHARED_LOCK, EXCLUSIVE_LOCK
  <2>4. QED
    BY <1>1, <2>1, <2>2, <2>3, Quiet DEF Fine
<1>4. QED
  BY <1>2, <1>3

LEMMA EndFailsFine ==
  ASSUME IInv, NEW c \in Conn, EndFails(c)
  PROVE  Fine(c)
<1>1. /\ pc' \in [Conn -> Label] /\ eState' \in [Conn -> State] /\ UNCHANGED db
      /\ \A d \in Conn \ {c} : pc'[d] = pc[d] /\ eState'[d] = eState[d]
      /\ pc'[c] = "abort" /\ eState'[c] = "error"
  BY DEF IInv, Typed, Label, State, EndFails, At, Goto, Set
<1>2. Typed /\ Fits(eLock[c], pc[c], eState[c]) /\ eLock[c] \in Level
  BY DEF IInv, Good, Typed
<1>3. eLock[c] >= SHARED_LOCK
  BY <1>2 DEF EndFails, Fits, Level, NO_LOCK, SHARED_LOCK, RESERVED_LOCK, PENDING_LOCK, EXCLUSIVE_LOCK
<1>4. CASE pagerUnlockDb(c, SHARED_LOCK)
  <2>1. /\ LockInv' /\ eLock' \in [Conn -> Level] /\ eLock'[c] <= eFileLock'[c]
        /\ \A e \in Conn \ {c} : eFileLock'[e] = eFileLock[e] /\ eLock'[e] = eLock[e]
        /\ eLock'[c] = SHARED_LOCK
    BY <1>4, <1>3, GivenBack
  <2>2. Fits(eLock'[c], pc'[c], eState'[c])
    BY <1>1, <2>1 DEF Fits, SHARED_LOCK
  <2>3. QED
    BY <1>1, <2>1, <2>2, LockStep DEF Fine
<1>5. CASE UNCHANGED <<lockVars, eLock>>
  <2>1. Typed' /\ Fits(eLock[c], pc'[c], eState'[c])
    BY <1>1, <1>2, <1>3, <1>5 DEF Typed, Fits
  <2>2. QED
    BY <1>1, <1>5, <2>1, QuietFine
<1>6. QED
  BY <1>4, <1>5 DEF EndFails

-----------------------------------------------------------------------------
(* The invariant.                                                          *)

LEMMA InitGood == Init => IInv
<1>1. ASSUME Init
      PROVE  IInv
  <2>1. LockInv
    BY <1>1, NobodyHolds DEF Init, LockInit
  <2>2. Typed /\ \A c \in Conn : Good(c)
    BY <1>1 DEF Init, LockInit, Typed, Label, State, Good, Fits, Level, NO_LOCK, SHARED_LOCK,
       EXCLUSIVE_LOCK
  <2>3. QED
    BY <2>1, <2>2 DEF IInv
<1>2. QED
  BY <1>1

\* The process is gone, with or without the power.
LEMMA RestartGood ==
  ASSUME Restart
  PROVE  IInv'
<1>1. LockInit'
  BY DEF Restart, LoseLocks, LockInit
<1>2. LockInv'
  BY <1>1, NobodyHolds, PTL DEF LockInit
<1>3. Typed' /\ \A c \in Conn : Good(c)'
  BY <1>1 DEF Restart, LockInit, Typed, Label, State, Good, Fits, Level, NO_LOCK, SHARED_LOCK,
     EXCLUSIVE_LOCK
<1>4. QED
  BY <1>2, <1>3 DEF IInv

LEMMA RunFine ==
  ASSUME IInv, NEW c \in Conn, Run(c)
  PROVE  Fine(c)
BY ShareFine, ExistsFine, CheckReservedFine, FirstByteFine, RemnantFine, ExcludeFine, RecoverFine,
   ValidateFine, ReserveFine, NewDatabaseFine, CommitLockFine, ChangeCounterFine, JournalSyncFine,
   JournalHeaderFine, HeaderSyncFine, WritePageFine, DbSyncFine, WriteFailsFine, RestoreFine,
   RestoredFine, DeleteFine, EndFailsFine, DowngradeFine, ReleaseFine, AbortFine, AutoVacuumFine,
   PageFailsFine, UndoFine, TrimFine, ReadFailsFine DEF Run

LEMMA CallFine ==
  ASSUME IInv, NEW c \in Conn, Call(c)
  PROVE  Fine(c)
BY BeginFine, UpgradeFine, CommitFine, RollbackFine, EndReadFine, ReadFine, WriteFine, SpillFine
   DEF Call

LEMMA StutterGood ==
  ASSUME IInv, UNCHANGED vars
  PROVE  IInv'
<1>1. LockInv'
  BY NoLockStep DEF vars
<1>2. Typed' /\ \A c \in Conn : Good(c)'
  BY DEF vars, lockVars, pagerVars, callVars, IInv, Typed, Good, Fits
<1>3. QED
  BY <1>1, <1>2 DEF IInv

LEMMA Invariance == Spec => []IInv
<1>1. IInv /\ [Next]_vars => IInv'
  BY RunFine, CallFine, StutterGood, RestartGood DEF Next, Fine, Kill, PowerLoss
<1>2. QED
  BY InitGood, <1>1, PTL DEF Spec

\* A connection with EXCLUSIVE is alone with the file.
LEMMA Alone ==
  ASSUME IInv, NEW c \in Conn, eLock[c] = EXCLUSIVE_LOCK, NEW d \in Conn \ {c}
  PROVE  eFileLock[d] = NO_LOCK /\ eState[d] = "open"
<1>1. Holds(c, EXCLUSIVE_LOCK) /\ eFileLock[d] \in Level /\ eLock[d] \in Level
  BY DEF IInv, Typed, Good, Holds, LockInv, LockTypeOK, Level, NO_LOCK, EXCLUSIVE_LOCK
<1>2. eFileLock[d] = NO_LOCK
  BY <1>1 DEF IInv, LockInv, LockExclusion, Holds, Level, NO_LOCK, SHARED_LOCK
<1>3. ~(eLock[d] >= SHARED_LOCK)
  BY <1>1, <1>2 DEF IInv, Good, Level, NO_LOCK, SHARED_LOCK, EXCLUSIVE_LOCK
<1>4. QED
  BY <1>2, <1>3 DEF IInv, Good, Fits

-----------------------------------------------------------------------------
\* The locks exclude each other in every run of the pager (pagerLockDb, pagerUnlockDb).
THEOREM PagerLocksExclude == Spec => []LockExclusion
<1>1. IInv => LockExclusion
  BY DEF IInv, LockInv
<1>2. QED
  BY <1>1, Invariance, PTL

\* Nobody reads while the file changes: commit, spill, rollback and recovery write it
\* under EXCLUSIVE (sqlite3PagerExclusiveLock, pagerStress, sqlite3PagerSharedLock).
THEOREM FileWrittenAlone == Spec => WrittenAlone
<1> DEFINE Step == db' # db => PowerLoss \/
                     \E c \in Conn : \A d \in Conn \ {c} :
                       eFileLock[d] = NO_LOCK /\ eState[d] = "open"
<1>1. IInv /\ [Next]_vars => [Step]_vars
  <2> SUFFICES ASSUME IInv, [Next]_vars
               PROVE  [Step]_vars
    OBVIOUS
  <2>1. CASE UNCHANGED vars
    BY <2>1
  <2>2. ASSUME NEW c \in Conn, Run(c) \/ Call(c)
        PROVE  Step
    <3>1. db' # db => eLock[c] = EXCLUSIVE_LOCK
      BY <2>2, RunFine, CallFine DEF Fine
    <3>2. QED
      BY <3>1, Alone
  <2>3. CASE Kill \/ PowerLoss
    BY <2>3 DEF Kill, fileVars
  <2>4. QED
    BY <2>1, <2>2, <2>3 DEF Next
<1>2. QED
  BY <1>1, Invariance, PTL DEF WrittenAlone, Spec

-----------------------------------------------------------------------------
(* Nobody reads beside a hot journal.                                      *)

Writing == {"locked", "cachemod", "dbmod", "finished"}

\* What the label l says of the state s, of the pager's lock e and of the lock f of
\* the file: a connection on its way to SHARED has none, and SHARED exactly while it
\* looks for a hot journal; a writer has RESERVED at least.
Placed(e, f, l, s) ==
  /\ s \in Writing => e >= RESERVED_LOCK
  /\ s = "open" /\ l \in {"idle", "share"} => f = NO_LOCK
  /\ l \in {"exists", "reserved", "first", "remnant"} => f = SHARED_LOCK
  /\ l = "reserve" => s = "reader"
  /\ l = "newdb" => s = "locked"
  /\ l = "commit" => s \in Writing \ {"finished"}
  /\ l \in {"vacuum", "counter", "jsync", "jheader", "jsync2", "undo"} => s \in {"cachemod", "dbmod"}
  /\ l \in {"write", "sync"} => s = "dbmod"
  /\ l \in {"restore", "delete"} => s \in {"open", "cachemod", "dbmod", "finished"}
  /\ l = "trim" => s = "finished"

Unmarked(j) == "magic" \in DOMAIN j /\ j.magic = FALSE

\* What a connection knows of the journal: it reads beside none that is hot, and the
\* one it has opened is not until it marks it, under EXCLUSIVE; having failed, it may
\* share the file beside one.
Seen(j, f, l, s) ==
  /\ s \in {"reader", "locked"} \/ l \in {"validate", "trim", "downgrade"} => ~Hot(j)
  /\ s = "cachemod" /\ l \in {"idle", "commit", "vacuum", "counter", "jsync", "jheader"} => Unmarked(j)
  /\ s # "open" /\ Hot(j) => f \in {SHARED_LOCK, EXCLUSIVE_LOCK}

Mine(c) == Placed(eLock[c], eFileLock[c], pc[c], eState[c]) /\ Seen(jrnl, eFileLock[c], pc[c], eState[c])

\* A connection that shares the file, and has not failed.
Sharing(c) == Holds(c, SHARED_LOCK) /\ eState[c] # "error"

\* Of a hot journal there is one reader at a time.
Sole ==
  Hot(jrnl) => \A c, d \in Conn : c # d => ~(Sharing(c) /\ Sharing(d))

HotInv == IInv /\ Sole /\ \A c \in Conn : Mine(c)

\* What a step of c does to the journal: only the one writer touches it, or nobody
\* writes; it becomes hot under EXCLUSIVE; who begins to share does so in turn; and
\* who has failed lets go.
Careful(c) ==
  /\ jrnl' # jrnl => \/ eLock[c] >= RESERVED_LOCK
                     \/ \A d \in Conn \ {c} : ~Holds(d, RESERVED_LOCK)
  /\ jrnl' # jrnl => ~Hot(jrnl') \/ eLock[c] = EXCLUSIVE_LOCK
  /\ Holds(c, SHARED_LOCK)' => Holds(c, SHARED_LOCK) \/ (MayShare(c) /\ UNCHANGED jrnl)
  /\ eState[c] = "error" => eFileLock'[c] = NO_LOCK

-----------------------------------------------------------------------------
(* From one connection to all.                                             *)

LEMMA Levels ==
  ASSUME IInv, NEW c \in Conn
  PROVE  eLock[c] \in Level /\ eFileLock[c] \in Level /\ eLock[c] <= eFileLock[c]
BY DEF IInv, Typed, Good, LockInv, LockTypeOK

LEMMA OthersMine ==
  ASSUME HotInv, NEW c \in Conn, Fine(c), Careful(c), NEW d \in Conn \ {c}
  PROVE  Mine(d)'
<1> USE DEF Level, NO_LOCK, SHARED_LOCK, RESERVED_LOCK, EXCLUSIVE_LOCK
<1>1. /\ Mine(d) /\ Fits(eLock[d], pc[d], eState[d])
      /\ eFileLock'[d] = eFileLock[d] /\ eLock'[d] = eLock[d]
      /\ pc'[d] = pc[d] /\ eState'[d] = eState[d]
  BY DEF HotInv, IInv, Good, Fine, Apart
<1>2. CASE UNCHANGED jrnl
  BY <1>1, <1>2 DEF Mine, Seen, Placed
<1>3. CASE jrnl' # jrnl
  <2>1. eLock[c] \in Level /\ eLock[d] \in Level /\ eLock[c] <= eFileLock[c] /\ eLock[d] <= eFileLock[d]
        /\ eFileLock[c] \in Level /\ eFileLock[d] \in Level
    BY Levels DEF HotInv
  <2>2. eState[d] # "cachemod"
    <3>1. SUFFICES ASSUME Holds(d, RESERVED_LOCK)
                   PROVE  FALSE
      BY <1>1, <2>1 DEF Mine, Placed, Writing, Holds
    <3>2. eLock[c] >= RESERVED_LOCK
      BY <1>3, <3>1 DEF Careful
    <3>3. Holds(c, RESERVED_LOCK)
      BY <2>1, <3>2 DEF Holds
    <3>4. QED
      BY <3>1, <3>3 DEF HotInv, IInv, LockInv, LockExclusion
  <2>3. CASE ~Hot(jrnl')
    BY <1>1, <2>2, <2>3 DEF Mine, Seen, Placed
  <2>4. CASE eLock[c] = EXCLUSIVE_LOCK
    <3>1. eFileLock[d] = NO_LOCK /\ eState[d] = "open"
      BY <2>4, Alone DEF HotInv
    <3>2. pc[d] \notin {"validate", "downgrade"}
      BY <1>1, <2>1, <3>1 DEF Fits
    <3>3. QED
      BY <1>1, <3>1, <3>2 DEF Mine, Seen, Placed
  <2>5. QED
    BY <1>3, <2>3, <2>4 DEF Careful
<1>4. QED
  BY <1>2, <1>3

LEMMA StillSole ==
  ASSUME Racing = FALSE, HotInv, NEW c \in Conn, Fine(c), Careful(c)
  PROVE  Sole'
<1> USE DEF Level, NO_LOCK, SHARED_LOCK, RESERVED_LOCK, EXCLUSIVE_LOCK
<1>1. \A d \in Conn \ {c} : Sharing(d)' <=> Sharing(d)
  BY DEF Fine, Apart, Sharing, Holds
<1> SUFFICES ASSUME Hot(jrnl)', NEW a \in Conn, NEW b \in Conn, a # b
             PROVE  ~(Sharing(a)' /\ Sharing(b)')
  BY DEF Sole, Hot
<1>2. CASE UNCHANGED jrnl
  <2>1. Hot(jrnl)
    BY <1>2 DEF Hot
  <2>2. Sharing(c)' /\ ~Sharing(c) => \A d \in Conn \ {c} : ~Sharing(d)
    BY <2>1 DEF Careful, MayShare, Sharing, Holds
  <2>3. ~(Sharing(a) /\ Sharing(b))
    BY <2>1 DEF HotInv, Sole
  <2>4. QED
    BY <1>1, <2>2, <2>3
<1>3. CASE jrnl' # jrnl
  <2>1. eLock[c] = EXCLUSIVE_LOCK
    BY <1>3 DEF Careful, Hot
  <2>2. \A d \in Conn \ {c} : ~Sharing(d)
    BY <2>1, Alone DEF HotInv, Sharing, Holds
  <2>3. QED
    BY <1>1, <2>2
<1>4. QED
  BY <1>2, <1>3

LEMMA StepKeeps ==
  ASSUME Racing = FALSE, HotInv, NEW c \in Conn, Fine(c), Careful(c), Mine(c)'
  PROVE  HotInv'
<1>1. \A d \in Conn : Mine(d)'
  BY OthersMine
<1>2. IInv'
  BY DEF Fine
<1>3. QED
  BY <1>1, <1>2, StillSole DEF HotInv

-----------------------------------------------------------------------------
(* Steps that leave the locks and the journal alone.                       *)

Well(c) ==
  /\ UNCHANGED <<lockVars, eLock, jrnl>> /\ eState[c] # "error"
  /\ Placed(eLock[c], eFileLock[c], pc'[c], eState'[c])
  /\ Seen(jrnl, eFileLock[c], pc'[c], eState'[c])

LEMMA WellKeeps ==
  ASSUME Racing = FALSE, HotInv, NEW c \in Conn, Fine(c), Well(c)
  PROVE  HotInv'
<1>1. Careful(c) /\ Mine(c)'
  BY DEF Well, Careful, Mine, Holds, lockVars, Seen, Hot, Unmarked, Placed
<1>2. QED
  BY <1>1, StepKeeps

\* Nobody else holds more than SHARED beside a hot journal that c looks at, so there
\* is no writer to leave it to (hasHotJournal).
LEMMA NoWriter ==
  ASSUME HotInv, NEW c \in Conn, Hot(jrnl), eFileLock[c] = SHARED_LOCK, eState[c] = "open"
  PROVE  inode.eFileLock = SHARED_LOCK
<1> USE DEF Level, NO_LOCK, SHARED_LOCK, RESERVED_LOCK, EXCLUSIVE_LOCK
<1>1. /\ eFileLock \in [Conn -> Level] /\ inode.eFileLock \in Level
      /\ eFileLock[c] <= inode.eFileLock
      /\ inode.eFileLock # NO_LOCK => \E d \in Conn : eFileLock[d] = inode.eFileLock
  BY DEF HotInv, IInv, LockInv, LockTypeOK, InodeAgrees
<1>2. PICK d \in Conn : eFileLock[d] = inode.eFileLock
  BY <1>1
<1>3. d = c \/ eState[d] = "error"
  BY <1>1, <1>2 DEF HotInv, Sole, Sharing, Holds
<1>4. CASE d # c
  <2>1. eFileLock[d] \in {SHARED_LOCK, EXCLUSIVE_LOCK}
    BY <1>3, <1>4 DEF HotInv, Mine, Seen
  <2>2. ~Holds(d, EXCLUSIVE_LOCK)
    BY <1>1, <1>4 DEF HotInv, IInv, LockInv, LockExclusion, Holds
  <2>3. QED
    BY <1>2, <2>1, <2>2 DEF Holds
<1>5. QED
  BY <1>2, <1>4

LEMMA LookingWell ==
  ASSUME HotInv, NEW c \in Conn, Exists(c) \/ CheckReserved(c) \/ FirstByte(c)
  PROVE  Well(c)
<1> USE DEF Level, NO_LOCK, SHARED_LOCK, RESERVED_LOCK, EXCLUSIVE_LOCK
<1>1. /\ pc \in [Conn -> Label] /\ eFileLock[c] = SHARED_LOCK
      /\ eState[c] = "open" /\ Placed(eLock[c], eFileLock[c], pc[c], eState[c])
  BY DEF HotInv, Mine, Placed, IInv, Typed, Good, Fits, Exists, CheckReserved, FirstByte, At
<1>2. CASE Exists(c)
  BY <1>1, <1>2 DEF Exists, At, Goto, Set, Well, Placed, Seen, Hot, Writing, fileVars, pagerVars
<1>3. CASE CheckReserved(c)
  <2>1. inode.eFileLock > SHARED_LOCK => ~Hot(jrnl)
    BY <1>1, NoWriter
  <2>2. QED
    BY <1>1, <1>3, <2>1 DEF CheckReserved, At, Goto, Set, Well, Placed, Seen, Writing, fileVars, pagerVars
<1>4. CASE FirstByte(c)
  BY <1>1, <1>4 DEF FirstByte, At, Goto, Set, Well, Placed, Seen, Writing, fileVars, pagerVars
<1>5. QED
  BY <1>2, <1>3, <1>4

LEMMA ReadingWell ==
  ASSUME HotInv, NEW c \in Conn,
         \/ \E g \in {"read", "write"} : Begin(c, g)
         \/ Validate(c) \/ Upgrade(c) \/ EndRead(c) \/ ReadFails(c)
         \/ \E p \in Page : Read(c, p)
  PROVE  Well(c)
<1> USE DEF Well, Placed, Seen, Writing, At, Goto, Set, lockVars, fileVars, pagerVars, callVars
<1>1. /\ pc \in [Conn -> Label] /\ eState \in [Conn -> State]
      /\ Placed(eLock[c], eFileLock[c], pc[c], eState[c]) /\ Seen(jrnl, eFileLock[c], pc[c], eState[c])
      /\ eState[c] = "error" => pc[c] = "abort"
  BY DEF HotInv, Mine, IInv, Typed, Good, Fits
<1>2. CASE \E g \in {"read", "write"} : Begin(c, g)
  BY <1>1, <1>2 DEF Begin
<1>3. CASE Validate(c)
  BY <1>1, <1>3 DEF Validate
<1>4. CASE Upgrade(c)
  BY <1>1, <1>4 DEF Upgrade
<1>5. CASE EndRead(c)
  BY <1>1, <1>5 DEF EndRead
<1>6. CASE \E p \in Page : Read(c, p)
  BY <1>1, <1>6 DEF Read
<1>7. CASE ReadFails(c)
  BY <1>1, <1>7 DEF ReadFails
<1>8. QED
  BY <1>2, <1>3, <1>4, <1>5, <1>6, <1>7

LEMMA WritingWell ==
  ASSUME HotInv, NEW c \in Conn,
         Commit(c) \/ JournalSync(c) \/ HeaderSync(c) \/ WritePage(c) \/ DbSync(c) \/ Trim(c)
  PROVE  Well(c)
<1> USE DEF Well, Placed, Seen, Writing, At, Goto, Set, lockVars, fileVars, pagerVars
<1>1. /\ pc \in [Conn -> Label] /\ eState \in [Conn -> State]
      /\ Placed(eLock[c], eFileLock[c], pc[c], eState[c]) /\ Seen(jrnl, eFileLock[c], pc[c], eState[c])
      /\ eState[c] = "error" => pc[c] = "abort"
  BY DEF HotInv, Mine, IInv, Typed, Good, Fits
<1>2. CASE Commit(c)
  BY <1>1, <1>2 DEF Commit, MayWrite
<1>3. CASE JournalSync(c)
  BY <1>1, <1>3 DEF JournalSync, SyncJournal
<1>4. CASE HeaderSync(c)
  BY <1>1, <1>4 DEF HeaderSync, SyncJournal
<1>5. CASE WritePage(c)
  <2>1. /\ pc'[c] \in {"idle", "sync", "write"} /\ pc[c] = "write"
        /\ UNCHANGED <<lockVars, eLock, eState, jrnl>>
    BY <1>1, <1>5 DEF WritePage
  <2>2. QED
    BY <1>1, <2>1
<1>6. CASE DbSync(c)
  BY <1>1, <1>6 DEF DbSync
<1>7. CASE Trim(c)
  BY <1>1, <1>7 DEF Trim
<1>8. QED
  BY <1>2, <1>3, <1>4, <1>5, <1>6, <1>7

LEMMA RollbackWell ==
  ASSUME HotInv, NEW c \in Conn,
         \/ Rollback(c) \/ WriteFails(c) \/ Undo(c) \/ Restored(c)
         \/ \E p \in Page : Restore(c, p)
  PROVE  Well(c)
<1> USE DEF Well, Placed, Seen, Writing, At, Goto, Set, lockVars, fileVars, pagerVars
<1>1. /\ pc \in [Conn -> Label] /\ eState \in [Conn -> State]
      /\ Placed(eLock[c], eFileLock[c], pc[c], eState[c]) /\ Seen(jrnl, eFileLock[c], pc[c], eState[c])
      /\ eState[c] = "error" => pc[c] = "abort"
  BY DEF HotInv, Mine, IInv, Typed, Good, Fits
<1>2. CASE Rollback(c)
  BY <1>1, <1>2 DEF Rollback, RollingBack, MayWrite
<1>3. CASE WriteFails(c)
  BY <1>1, <1>3 DEF WriteFails, RollingBack
<1>4. CASE Undo(c)
  BY <1>1, <1>4 DEF Undo
<1>5. CASE Restored(c)
  BY <1>1, <1>5 DEF Restored
<1>6. CASE \E p \in Page : Restore(c, p)
  BY <1>1, <1>6 DEF Restore
<1>7. QED
  BY <1>2, <1>3, <1>4, <1>5, <1>6

-----------------------------------------------------------------------------
(* Steps that change the journal.                                          *)

LEMMA RemnantKeeps ==
  ASSUME Racing = FALSE, HotInv, NEW c \in Conn, Remnant(c)
  PROVE  HotInv'
<1> USE DEF Level, NO_LOCK, SHARED_LOCK, RESERVED_LOCK, PENDING_LOCK, EXCLUSIVE_LOCK
<1>1. /\ pc \in [Conn -> Label] /\ eFileLock \in [Conn -> Level] /\ eFileLock[c] = SHARED_LOCK
      /\ eState[c] = "open" /\ Placed(eLock[c], eFileLock[c], pc[c], eState[c])
      /\ inode.eFileLock \in Level /\ \A d \in Conn : eFileLock[d] <= inode.eFileLock
  BY DEF HotInv, Mine, Placed, IInv, Typed, Good, Fits, Remnant, At, LockInv, LockTypeOK, InodeAgrees
<1>2. Fine(c) /\ UNCHANGED <<lockVars, eLock, eState>> /\ pc' = [pc EXCEPT ![c] = "validate"]
  BY RemnantFine DEF HotInv, Remnant, Goto, Set, pagerVars
<1>3. CASE Busy(c, RESERVED_LOCK)
  <2>1. inode.eFileLock # SHARED_LOCK
    BY <1>1, <1>3 DEF Busy, Conflict, ReadersLeft
  <2>2. ~Hot(jrnl) /\ UNCHANGED jrnl
    BY <1>1, <1>3, <2>1, NoWriter DEF Remnant
  <2>3. Well(c)
    BY <1>1, <1>2, <2>2 DEF Well, Placed, Seen, Writing
  <2>4. QED
    BY <1>2, <2>3, WellKeeps
<1>4. CASE ~Busy(c, RESERVED_LOCK)
  <2>1. jrnl' = NoJournal /\ ~Hot(jrnl')
    BY <1>4 DEF Remnant, WriteJournal, Hot
  <2>2. inode.eFileLock = SHARED_LOCK
    BY <1>1, <1>4 DEF Busy, Conflict, Holds
  <2>3. Careful(c)
    BY <1>1, <1>2, <2>1, <2>2 DEF Careful, Holds, lockVars
  <2>4. Mine(c)'
    BY <1>1, <1>2, <2>1 DEF Mine, Placed, Seen, Writing, lockVars, Hot
  <2>5. QED
    BY <1>2, <2>3, <2>4, StepKeeps
<1>5. QED
  BY <1>3, <1>4

\* pager_write opens a journal that is not marked, or adds records.
LEMMA PagerWriteUnmarked ==
  ASSUME NEW c \in Conn, NEW S, pager_journal(c, S), eState \in [Conn -> State],
         eState[c] \in {"locked", "cachemod", "dbmod"}, eState[c] = "cachemod" => Unmarked(jrnl)
  PROVE  /\ eState[c] # "dbmod" => Unmarked(jrnl') /\ eState'[c] = "cachemod"
         /\ eState[c] = "dbmod" => eState'[c] = "dbmod"
<1>1. eState' = [eState EXCEPT ![c] = IF eState[c] = "locked" THEN "cachemod" ELSE eState[c]]
  BY DEF pager_journal, Set
<1>2. ASSUME eState[c] # "dbmod"
      PROVE  Unmarked(jrnl')
  <2>1. Unmarked(Opened(c))
    BY <1>2 DEF Opened, Unmarked
  <2>2. \E m : jrnl' = [Opened(c) EXCEPT !.more = m]
    BY DEF pager_journal
  <2>3. QED
    BY <2>1, <2>2 DEF Unmarked
<1>3. QED
  BY <1>1, <1>2

LEMMA WriteKeeps ==
  ASSUME Racing = FALSE, HotInv, NEW c \in Conn,
         \/ NewDatabase(c) \/ ChangeCounter(c) \/ \E p \in Page : Write(c, p)
         \/ \E S : pager_journal(c, S) /\ (AutoVacuum(c) \/ PageFails(c))
  PROVE  HotInv'
<1> USE DEF Level, NO_LOCK, SHARED_LOCK, RESERVED_LOCK, EXCLUSIVE_LOCK
<1>1. /\ pc \in [Conn -> Label] /\ eState \in [Conn -> State] /\ eLock[c] \in Level
      /\ Placed(eLock[c], eFileLock[c], pc[c], eState[c]) /\ Seen(jrnl, eFileLock[c], pc[c], eState[c])
      /\ Fits(eLock[c], pc[c], eState[c])
  BY DEF HotInv, Mine, IInv, Typed, Good
<1>2. Fine(c) /\ UNCHANGED <<lockVars, eLock>>
  BY NewDatabaseFine, ChangeCounterFine, WriteFine, AutoVacuumFine, PageFailsFine
     DEF HotInv, NewDatabase, ChangeCounter, Write, AutoVacuum, PageFails, callVars
<1>3. /\ eState[c] \in {"locked", "cachemod", "dbmod"}
      /\ eState[c] = "cachemod" => Unmarked(jrnl)
      /\ \E S : pager_journal(c, S)
      /\ pc'[c] \in {"idle", "jsync", "counter", "undo"}
      /\ pc'[c] \in {"jsync", "counter"} => eState[c] \in {"cachemod", "dbmod"}
  <2>1. eState[c] \in {"locked", "cachemod", "dbmod"} /\ (eState[c] = "cachemod" => Unmarked(jrnl))
    BY <1>1 DEF NewDatabase, ChangeCounter, Write, AutoVacuum, PageFails, MayWrite, At, Placed, Seen
  <2>2. \E S : pager_journal(c, S)
    BY DEF NewDatabase, ChangeCounter, Write, pager_write
  <2>3. /\ pc'[c] \in {"idle", "jsync", "counter", "undo"}
        /\ pc'[c] \in {"jsync", "counter"} => eState[c] \in {"cachemod", "dbmod"}
    <3>1. CASE NewDatabase(c) \/ \E p \in Page : Write(c, p)
      BY <1>1, <3>1 DEF NewDatabase, Write, At, Goto, Set, callVars
    <3>2. CASE ChangeCounter(c) \/ AutoVacuum(c)
      BY <1>1, <3>2 DEF ChangeCounter, AutoVacuum, At, Goto, Set, Placed
    <3>3. CASE PageFails(c) /\ \E S : pager_journal(c, S)
      <4>1. UNCHANGED eState => eState[c] # "locked"
        BY <1>1, <3>3 DEF pager_journal, Set
      <4>2. QED
        BY <1>1, <3>3, <4>1 DEF PageFails, RollingBack, Goto, Set
    <3>4. QED
      BY <3>1, <3>2, <3>3
  <2>4. QED
    BY <2>1, <2>2, <2>3
<1>4. /\ eState[c] # "dbmod" => Unmarked(jrnl') /\ eState'[c] = "cachemod"
      /\ eState[c] = "dbmod" => eState'[c] = "dbmod"
  BY <1>1, <1>3, PagerWriteUnmarked
<1>5. eLock[c] >= RESERVED_LOCK /\ (eState[c] = "dbmod" => eLock[c] = EXCLUSIVE_LOCK)
  BY <1>1, <1>3 DEF Placed, Writing, Fits
<1>6. Careful(c)
  BY <1>2, <1>3, <1>4, <1>5 DEF Careful, Holds, lockVars, Unmarked, Hot
<1>7. Mine(c)'
  BY <1>1, <1>2, <1>3, <1>4, <1>5, Levels DEF HotInv, Mine, Placed, Seen, Writing, lockVars, Unmarked, Hot
<1>8. QED
  BY <1>2, <1>6, <1>7, StepKeeps

\* A step of a writer that touches the journal or not.
LEMMA VacuumKeeps ==
  ASSUME Racing = FALSE, HotInv, NEW c \in Conn, AutoVacuum(c)
  PROVE  HotInv'
<1>1. CASE \E S : pager_journal(c, S)
  BY <1>1, WriteKeeps
<1>2. CASE UNCHANGED <<jrnl, eState>>
  <2>1. /\ pc \in [Conn -> Label] /\ eState[c] # "error"
        /\ Placed(eLock[c], eFileLock[c], pc[c], eState[c]) /\ Seen(jrnl, eFileLock[c], pc[c], eState[c])
    BY DEF HotInv, Mine, IInv, Typed, Good, Fits, AutoVacuum, At
  <2>2. Well(c)
    BY <1>2, <2>1 DEF Well, Placed, Seen, Writing, AutoVacuum, At, Goto, Set
  <2>3. QED
    BY <2>2, AutoVacuumFine, WellKeeps DEF HotInv
<1>3. QED
  BY <1>1, <1>2 DEF AutoVacuum

LEMMA PageFailsKeeps ==
  ASSUME Racing = FALSE, HotInv, NEW c \in Conn, PageFails(c)
  PROVE  HotInv'
<1>1. CASE \E S : pager_journal(c, S)
  BY <1>1, WriteKeeps
<1>2. CASE RollingBack(c) /\ UNCHANGED <<jrnl, eState>>
  <2>1. /\ pc \in [Conn -> Label] /\ eState[c] # "error"
        /\ Placed(eLock[c], eFileLock[c], pc[c], eState[c]) /\ Seen(jrnl, eFileLock[c], pc[c], eState[c])
    BY DEF HotInv, Mine, IInv, Typed, PageFails, MayWrite
  <2>2. Well(c)
    BY <1>2, <2>1 DEF Well, Placed, Seen, Writing, PageFails, MayWrite, RollingBack, Goto, Set
  <2>3. QED
    BY <2>2, PageFailsFine, WellKeeps DEF HotInv
<1>3. QED
  BY <1>1, <1>2 DEF PageFails

\* syncJournal marks the journal under EXCLUSIVE.
LEMMA HeaderKeeps ==
  ASSUME Racing = FALSE, HotInv, NEW c \in Conn, JournalHeader(c)
  PROVE  HotInv'
<1> USE DEF Level, NO_LOCK, SHARED_LOCK, RESERVED_LOCK, EXCLUSIVE_LOCK
<1>1. /\ pc \in [Conn -> Label] /\ eLock[c] = EXCLUSIVE_LOCK /\ eState[c] \in {"cachemod", "dbmod"}
      /\ Fine(c) /\ UNCHANGED <<lockVars, eLock, eState>> /\ pc'[c] = "jsync2"
  BY JournalHeaderFine DEF HotInv, Mine, Placed, IInv, Typed, Good, Fits, JournalHeader, At, Goto, Set,
     pagerVars
<1>2. Careful(c)
  BY <1>1 DEF Careful, Holds, lockVars
<1>3. Mine(c)'
  BY <1>1, Levels DEF HotInv, Mine, Placed, Seen, Writing, lockVars
<1>4. QED
  BY <1>1, <1>2, <1>3, StepKeeps

LEMMA DeleteKeeps ==
  ASSUME Racing = FALSE, HotInv, NEW c \in Conn, Delete(c)
  PROVE  HotInv'
<1> USE DEF Level, NO_LOCK, SHARED_LOCK, RESERVED_LOCK, EXCLUSIVE_LOCK
<1>1. /\ pc \in [Conn -> Label] /\ eLock[c] \in Level
      /\ eState[c] \in {"open", "cachemod", "dbmod", "finished"}
      /\ Placed(eLock[c], eFileLock[c], pc[c], eState[c]) /\ Fits(eLock[c], pc[c], eState[c])
  BY DEF HotInv, Mine, Placed, IInv, Typed, Good, Delete, At
<1>2. /\ Fine(c) /\ UNCHANGED <<lockVars, eLock, eState>>
      /\ pc'[c] = "downgrade" \/ (pc'[c] = "trim" /\ eState[c] = "finished")
      /\ jrnl' = NoJournal /\ ~Hot(jrnl')
  BY <1>1, DeleteFine DEF HotInv, Delete, Goto, Set, WriteJournal, Hot
<1>3. eLock[c] >= RESERVED_LOCK
  BY <1>1 DEF Placed, Writing, Fits, Delete, At
<1>4. Careful(c)
  BY <1>1, <1>2, <1>3 DEF Careful, Holds, lockVars
<1>5. Mine(c)'
  BY <1>1, <1>2, <1>3 DEF Mine, Placed, Seen, Writing, lockVars, Hot
<1>6. QED
  BY <1>2, <1>4, <1>5, StepKeeps

-----------------------------------------------------------------------------
(* Steps that change the locks.                                            *)

\* Every other request for a lock comes from a connection that shares.
LEMMA LockStepKeeps ==
  ASSUME Racing = FALSE, HotInv, NEW c \in Conn, Fine(c), UNCHANGED jrnl, Mine(c)',
         (eLock[c] >= SHARED_LOCK /\ eState[c] # "error") \/ eFileLock'[c] = NO_LOCK
  PROVE  HotInv'
<1>1. Careful(c)
  BY Levels DEF HotInv, Careful, Holds, Level, NO_LOCK, SHARED_LOCK, EXCLUSIVE_LOCK
<1>2. QED
  BY <1>1, StepKeeps

LEMMA ShareKeeps ==
  ASSUME Racing = FALSE, HotInv, NEW c \in Conn, Share(c)
  PROVE  HotInv'
<1> USE DEF Level, NO_LOCK, SHARED_LOCK, RESERVED_LOCK, PENDING_LOCK, EXCLUSIVE_LOCK
<1>1. /\ pc \in [Conn -> Label] /\ eFileLock \in [Conn -> Level] /\ eLock \in [Conn -> Level]
      /\ eState[c] = "open" /\ eFileLock[c] = NO_LOCK /\ eLock[c] = NO_LOCK
  BY Levels DEF HotInv, Mine, Placed, IInv, Typed, LockInv, LockTypeOK, Good, Fits, Share, At
<1>2. Fine(c) /\ UNCHANGED <<jrnl, eState>> /\ MayShare(c)
  BY ShareFine DEF HotInv, Share, fileVars
<1>3. Careful(c)
  BY <1>1, <1>2 DEF Careful
<1>4. CASE pagerLockDb(c, SHARED_LOCK) /\ Goto(c, "exists")
  <2>1. eFileLock'[c] = SHARED_LOCK /\ pc'[c] = "exists"
    BY <1>1, <1>4 DEF pagerLockDb, Lock, Holds, Goto, Set
  <2>2. QED
    BY <1>1, <1>2, <1>3, <2>1, StepKeeps DEF Mine, Placed, Seen, Writing
<1>5. CASE Goto(c, "release")
  <2>1. pc'[c] = "release"
    BY <1>1, <1>5 DEF Goto, Set
  <2>2. QED
    BY <1>1, <1>2, <1>3, <2>1, StepKeeps DEF Mine, Placed, Seen, Writing
<1>6. QED
  BY <1>4, <1>5 DEF Share

LEMMA RecoveryKeeps ==
  ASSUME Racing = FALSE, HotInv, NEW c \in Conn, Exclude(c) \/ Recover(c)
  PROVE  HotInv'
<1> USE DEF Level, NO_LOCK, SHARED_LOCK, RESERVED_LOCK, PENDING_LOCK, EXCLUSIVE_LOCK
<1>1. /\ pc \in [Conn -> Label] /\ eState[c] = "open" /\ eLock[c] >= SHARED_LOCK
  BY Levels DEF HotInv, IInv, Typed, Good, Fits, Exclude, Recover, At
<1>2. Fine(c) /\ UNCHANGED <<jrnl, eState>>
  BY ExcludeFine, RecoverFine DEF HotInv, Exclude, Recover, fileVars, SyncJournal
<1>3. \/ pc'[c] \in {"recover", "release", "restore"}
      \/ pc'[c] = "validate" /\ ~Hot(jrnl)
  BY <1>1 DEF Exclude, Recover, Goto, Set, Hot
<1>4. Mine(c)'
  BY <1>1, <1>2, <1>3 DEF Mine, Placed, Seen, Writing, Hot
<1>5. QED
  BY <1>1, <1>2, <1>4, LockStepKeeps

LEMMA ReserveKeeps ==
  ASSUME Racing = FALSE, HotInv, NEW c \in Conn, Reserve(c)
  PROVE  HotInv'
<1> USE DEF Level, NO_LOCK, SHARED_LOCK, RESERVED_LOCK, PENDING_LOCK, EXCLUSIVE_LOCK
<1>1. /\ pc \in [Conn -> Label] /\ eState \in [Conn -> State]
      /\ eLock[c] >= SHARED_LOCK /\ eState[c] = "reader" /\ ~Hot(jrnl)
  BY DEF HotInv, Mine, Placed, Seen, IInv, Typed, Good, Fits, Reserve, At
<1>2. Fine(c) /\ UNCHANGED jrnl
  BY ReserveFine DEF HotInv, Reserve, fileVars
<1>3. CASE pagerLockDb(c, RESERVED_LOCK) /\ eState' = Set(eState, c, "locked")
           /\ Goto(c, IF Size(db) = 0 THEN "newdb" ELSE "idle")
  <2>1. eLock'[c] \in Level /\ RESERVED_LOCK <= eLock'[c]
    BY <1>1, <1>3, Granted DEF HotInv
  <2>2. eState'[c] = "locked" /\ pc'[c] \in {"newdb", "idle"}
    BY <1>1, <1>3 DEF Goto, Set
  <2>3. Mine(c)'
    BY <1>1, <1>2, <2>1, <2>2 DEF Mine, Placed, Seen, Writing, Hot
  <2>4. QED
    BY <1>1, <1>2, <2>3, LockStepKeeps
<1>4. CASE UNCHANGED eState /\ Goto(c, IF goal[c] = "upgrade" THEN "idle" ELSE "release")
  <2>1. eState'[c] = "reader" /\ pc'[c] \in {"idle", "release"}
    BY <1>1, <1>4 DEF Goto, Set
  <2>2. Mine(c)'
    BY <1>1, <1>2, <2>1 DEF Mine, Placed, Seen, Writing, Hot
  <2>3. QED
    BY <1>1, <1>2, <2>2, LockStepKeeps
<1>5. QED
  BY <1>3, <1>4 DEF Reserve

LEMMA ExclusiveKeeps ==
  ASSUME Racing = FALSE, HotInv, NEW c \in Conn, CommitLock(c) \/ \E p \in Page : Spill(c, p)
  PROVE  HotInv'
<1> USE DEF Level, NO_LOCK, SHARED_LOCK, RESERVED_LOCK, PENDING_LOCK, EXCLUSIVE_LOCK
<1>1. /\ pc \in [Conn -> Label] /\ eLock \in [Conn -> Level]
      /\ eState[c] \in {"locked", "cachemod", "dbmod"} /\ eLock[c] >= RESERVED_LOCK
      /\ Seen(jrnl, eFileLock[c], pc[c], eState[c]) /\ pc[c] \in {"idle", "commit"}
      /\ pc[c] = "idle" => eState[c] # "locked"
  BY DEF HotInv, Mine, Placed, Writing, IInv, Typed, CommitLock, Spill, MayWrite, At
<1>2. Fine(c) /\ UNCHANGED <<jrnl, eState>>
  BY CommitLockFine, SpillFine DEF HotInv, CommitLock, Spill, fileVars
<1>3. eLock'[c] \in Level /\ eLock'[c] >= RESERVED_LOCK
  <2>1. pagerLockDb(c, EXCLUSIVE_LOCK) \/ pagerLockBusy(c, EXCLUSIVE_LOCK)
    BY DEF CommitLock, Spill
  <2>2. QED
    BY <1>1, <2>1, Granted DEF HotInv, pagerLockBusy
<1>4. \/ pc'[c] \in {"idle", "commit"}
      \/ pc'[c] = "downgrade" /\ eState[c] = "locked"
      \/ pc'[c] \in {"vacuum", "jsync", "undo"} /\ eState[c] # "locked"
      \/ pc'[c] = "write" /\ eState[c] = "dbmod"
  BY <1>1 DEF CommitLock, Spill, NeedSync, RollingBack, Goto, Set
<1>5. Mine(c)'
  <2>1. eState[c] = "dbmod" => eFileLock'[c] = EXCLUSIVE_LOCK
    BY <1>2 DEF Fine, IInv, Good, Fits, LockInv, LockTypeOK
  <2>2. eState[c] # "dbmod" => ~Hot(jrnl)
    BY <1>1 DEF Seen, Hot, Unmarked
  <2>3. QED
    BY <1>1, <1>2, <1>3, <1>4, <2>1, <2>2 DEF Mine, Placed, Seen, Writing, Hot, Unmarked
<1>6. eLock[c] >= SHARED_LOCK /\ eState[c] # "error"
  BY <1>1
<1>7. QED
  BY <1>2, <1>5, <1>6, LockStepKeeps

LEMMA EndFailsKeeps ==
  ASSUME Racing = FALSE, HotInv, NEW c \in Conn, EndFails(c)
  PROVE  HotInv'
<1> USE DEF Level, NO_LOCK, SHARED_LOCK, RESERVED_LOCK, PENDING_LOCK, EXCLUSIVE_LOCK
<1>1. /\ pc \in [Conn -> Label] /\ eState \in [Conn -> State] /\ eLock[c] >= SHARED_LOCK
      /\ eFileLock \in [Conn -> Level] /\ eLock[c] <= eFileLock[c] /\ eLock[c] \in Level
      /\ Seen(jrnl, eFileLock[c], pc[c], eState[c]) /\ eState[c] # "error"
      /\ eState[c] = "open" => eLock[c] = EXCLUSIVE_LOCK
  BY DEF HotInv, Mine, Placed, Writing, IInv, Typed, Good, Fits, EndFails, LockInv, LockTypeOK
<1>2. Fine(c) /\ UNCHANGED jrnl /\ pc'[c] = "abort" /\ eState'[c] = "error"
  BY <1>1, EndFailsFine DEF HotInv, EndFails, SyncJournal, Goto, Set
<1>3. UNCHANGED eFileLock \/ eFileLock'[c] = SHARED_LOCK
  BY <1>1 DEF EndFails, pagerUnlockDb, Unlock, Holds, lockVars
<1>4. Hot(jrnl) => eFileLock'[c] \in {SHARED_LOCK, EXCLUSIVE_LOCK}
  BY <1>1, <1>3 DEF Seen
<1>5. Mine(c)'
  BY <1>2, <1>4 DEF Mine, Placed, Seen, Writing, Hot
<1>6. QED
  BY <1>1, <1>2, <1>5, LockStepKeeps

LEMMA DowngradeKeeps ==
  ASSUME Racing = FALSE, HotInv, NEW c \in Conn, Downgrade(c)
  PROVE  HotInv'
<1>1. /\ pc \in [Conn -> Label] /\ eState \in [Conn -> State]
      /\ eLock[c] >= SHARED_LOCK /\ eState[c] # "error" /\ ~Hot(jrnl)
  BY DEF HotInv, Mine, Seen, IInv, Typed, Good, Fits, Downgrade, At
<1>2. Fine(c) /\ UNCHANGED jrnl
  BY DowngradeFine DEF HotInv, Downgrade, fileVars
<1>3. \/ eState'[c] = "open" /\ pc'[c] = "validate"
      \/ eState'[c] = "reader" /\ pc'[c] \in {"idle", "release"}
  BY <1>1 DEF Downgrade, Goto, Set
<1>4. Mine(c)'
  BY <1>1, <1>2, <1>3 DEF Mine, Placed, Seen, Writing, Hot
<1>5. QED
  BY <1>1, <1>2, <1>4, LockStepKeeps

LEMMA LeaveKeeps ==
  ASSUME Racing = FALSE, HotInv, NEW c \in Conn, Release(c) \/ Abort(c)
  PROVE  HotInv'
<1> USE DEF Level, NO_LOCK, SHARED_LOCK, RESERVED_LOCK, PENDING_LOCK, EXCLUSIVE_LOCK
<1>1. /\ pc \in [Conn -> Label] /\ eState \in [Conn -> State] /\ eFileLock \in [Conn -> Level]
  BY DEF HotInv, IInv, Typed, LockInv, LockTypeOK
<1>2. Fine(c) /\ UNCHANGED jrnl
  BY ReleaseFine, AbortFine DEF HotInv, Release, Abort, fileVars
<1>3. eState'[c] = "open" /\ pc'[c] = "idle" /\ Unlock(c, NO_LOCK)
  BY <1>1 DEF Release, Abort, Goto, Set, pagerUnlockDb
<1>4. eFileLock'[c] = NO_LOCK
  BY <1>1, <1>3 DEF Unlock, Holds, lockVars
<1>5. Mine(c)'
  BY <1>3, <1>4 DEF Mine, Placed, Seen, Writing
<1>6. QED
  BY <1>2, <1>4, <1>5, LockStepKeeps

-----------------------------------------------------------------------------
(* The invariant.                                                          *)

LEMMA HotInit == Init => HotInv
<1>1. Init => IInv
  BY InitGood
<1>2. Init => Sole /\ \A c \in Conn : Mine(c)
  BY DEF Init, LockInit, Sole, Mine, Placed, Seen, Writing, Hot
<1>3. QED
  BY <1>1, <1>2 DEF HotInv

LEMMA RestartKeeps ==
  ASSUME Restart
  PROVE  HotInv'
<1>1. IInv'
  BY RestartGood
<1>2. \A c \in Conn : eFileLock'[c] = NO_LOCK /\ pc'[c] = "idle" /\ eState'[c] = "open"
  BY DEF Restart, LoseLocks
<1>3. Sole'
  BY <1>2 DEF Sole, Sharing, Holds, NO_LOCK, SHARED_LOCK
<1>4. \A c \in Conn : Mine(c)'
  BY <1>2 DEF Mine, Placed, Seen, Writing
<1>5. QED
  BY <1>1, <1>3, <1>4 DEF HotInv

LEMMA HotStep ==
  ASSUME Racing = FALSE, HotInv, NEW c \in Conn, Run(c) \/ Call(c)
  PROVE  HotInv'
<1>1. Fine(c)
  BY RunFine, CallFine DEF HotInv
<1>2. ASSUME Well(c)
      PROVE  HotInv'
  BY <1>1, <1>2, WellKeeps
<1>3. CASE Run(c)
  BY <1>2, <1>3, LookingWell, ReadingWell, WritingWell, RollbackWell, RemnantKeeps, WriteKeeps,
     HeaderKeeps, DeleteKeeps, ShareKeeps, RecoveryKeeps, ReserveKeeps, ExclusiveKeeps,
     VacuumKeeps, PageFailsKeeps, EndFailsKeeps, DowngradeKeeps, LeaveKeeps DEF Run
<1>4. CASE Call(c)
  BY <1>2, <1>4, ReadingWell, WritingWell, RollbackWell, WriteKeeps, ExclusiveKeeps DEF Call
<1>5. QED
  BY <1>3, <1>4

LEMMA HotStutter ==
  ASSUME HotInv, UNCHANGED vars
  PROVE  HotInv'
<1>1. IInv'
  BY StutterGood DEF HotInv
<1>2. UNCHANGED <<lockVars, eLock, jrnl, pc, eState>>
  BY DEF vars, fileVars, pagerVars, callVars
<1>3. Sole' /\ \A c \in Conn : Mine(c)'
  BY <1>2 DEF HotInv, Sole, Sharing, Holds, Mine, Placed, Seen, Hot, Unmarked, lockVars
<1>4. QED
  BY <1>1, <1>3 DEF HotInv

\* Whoever reads beside a journal has found out that nobody needs to play it back
\* (hasHotJournal), if no two connections of the process look for it at a time; with
\* Racing the run Pager_hotjournal shows two that do.
THEOREM HotAlwaysPlayedBack ==
  ASSUME Racing = FALSE
  PROVE  Spec => []HotJournalPlayedBack
<1>1. HotInv /\ [Next]_vars => HotInv'
  BY HotStep, HotStutter, RestartKeeps DEF Next, Kill, PowerLoss
<1>2. HotInv => HotJournalPlayedBack
  BY DEF HotInv, Mine, Seen, HotJournalPlayedBack
<1>3. QED
  BY HotInit, <1>1, <1>2, PTL DEF Spec

=============================================================================
