---------------------------- MODULE UnixFileLock ----------------------------
(***************************************************************************)
(* The locks of one database file that the connections of one process      *)
(* hold (unixLock and posixUnlock of sqlite3.c): the level of every        *)
(* connection's unixFile and the summary of them all in the unixInodeInfo. *)
(* Each call runs under unixEnterMutex and is one step.  No other process  *)
(* has the file open, so the fcntl() calls themselves succeed.             *)
(***************************************************************************)
EXTENDS Naturals, FiniteSets

CONSTANT Conn  \* connections to the file

VARIABLES
  eFileLock,  \* unixFile.eFileLock of each connection
  inode       \* unixInodeInfo: eFileLock, and nShared, the holders of SHARED or more

lockVars == <<eFileLock, inode>>

NO_LOCK == 0
SHARED_LOCK == 1
RESERVED_LOCK == 2
PENDING_LOCK == 3
EXCLUSIVE_LOCK == 4

Level == NO_LOCK..EXCLUSIVE_LOCK

LockTypeOK ==
  /\ eFileLock \in [Conn -> Level]
  /\ inode \in [eFileLock : Level, nShared : Nat]

LockInit ==
  /\ eFileLock = [c \in Conn |-> NO_LOCK]
  /\ inode = [eFileLock |-> NO_LOCK, nShared |-> 0]

Holds(c, level) == eFileLock[c] >= level
Holders == {c \in Conn : Holds(c, SHARED_LOCK)}

Conflict_mut(c, level) == eFileLock[c] # inode.eFileLock /\ level > SHARED_LOCK

\* Another connection's lock precludes the one that c asks for.
Conflict(c, level) ==
  /\ eFileLock[c] # inode.eFileLock
  /\ inode.eFileLock >= PENDING_LOCK \/ level > SHARED_LOCK

ReadersLeft_mut(c, level) == level = EXCLUSIVE_LOCK /\ inode.nShared > 2

\* Readers are left that EXCLUSIVE has to wait for.
ReadersLeft(c, level) == level = EXCLUSIVE_LOCK /\ inode.nShared > 1

\* unixLock would return SQLITE_BUSY.
Busy(c, level) ==
  ~Holds(c, level) /\ (Conflict(c, level) \/ ReadersLeft(c, level))

\* unixLock returns SQLITE_OK: the lock was held, or is granted.  A SHARED lock
\* leaves the level of the inode alone when others hold SHARED or RESERVED.
Lock(c, level) ==
  /\ ~Busy(c, level)
  /\ \/ Holds(c, level) /\ UNCHANGED lockVars
     \/ /\ ~Holds(c, level)
        /\ eFileLock' = [eFileLock EXCEPT ![c] = level]
        /\ inode' = IF level = SHARED_LOCK
                      THEN [eFileLock |-> IF inode.nShared = 0 THEN SHARED_LOCK ELSE inode.eFileLock,
                            nShared |-> inode.nShared + 1]
                      ELSE [inode EXCEPT !.eFileLock = level]

LockBusy_mut(c, level) == Busy(c, level) /\ UNCHANGED lockVars

\* unixLock returns SQLITE_BUSY: what remains is the PENDING lock of a connection
\* that waits for readers to leave.
LockBusy(c, level) ==
  /\ Busy(c, level)
  /\ IF Conflict(c, level)
       THEN UNCHANGED lockVars
       ELSE /\ eFileLock' = [eFileLock EXCEPT ![c] = PENDING_LOCK]
            /\ inode' = [inode EXCEPT !.eFileLock = PENDING_LOCK]

Unlock_count(c, level) ==
  LET n == inode.nShared - 1
      e == IF eFileLock[c] > SHARED_LOCK THEN SHARED_LOCK ELSE inode.eFileLock
  IN IF Holds(c, level + 1)
       THEN /\ eFileLock' = [eFileLock EXCEPT ![c] = level]
            /\ inode' = [eFileLock |-> IF n = 0 THEN NO_LOCK ELSE e, nShared |-> n]
       ELSE UNCHANGED lockVars

Unlock_level(c, level) ==
  LET n == IF level = NO_LOCK THEN inode.nShared - 1 ELSE inode.nShared
  IN IF Holds(c, level + 1)
       THEN /\ eFileLock' = [eFileLock EXCEPT ![c] = level]
            /\ inode' = [eFileLock |-> IF n = 0 THEN NO_LOCK ELSE inode.eFileLock, nShared |-> n]
       ELSE UNCHANGED lockVars

\* posixUnlock to SHARED or to none; no-op when the lock is at or below that.
Unlock(c, level) ==
  LET n == IF level = NO_LOCK THEN inode.nShared - 1 ELSE inode.nShared
      e == IF eFileLock[c] > SHARED_LOCK THEN SHARED_LOCK ELSE inode.eFileLock
  IN IF Holds(c, level + 1)
       THEN /\ eFileLock' = [eFileLock EXCEPT ![c] = level]
            /\ inode' = [eFileLock |-> IF n = 0 THEN NO_LOCK ELSE e, nShared |-> n]
       ELSE UNCHANGED lockVars

\* Every file handle closed at once: the process is gone.
LoseLocks ==
  /\ eFileLock' = [c \in Conn |-> NO_LOCK]
  /\ inode' = [eFileLock |-> NO_LOCK, nShared |-> 0]

-----------------------------------------------------------------------------
\* What the locks promise: an EXCLUSIVE lock excludes every other lock, and of
\* those above SHARED there is at most one (unixLock).
LockExclusion ==
  \A c, d \in Conn : c # d =>
    /\ Holds(c, EXCLUSIVE_LOCK) => ~Holds(d, SHARED_LOCK)
    /\ Holds(c, RESERVED_LOCK) => ~Holds(d, RESERVED_LOCK)

\* The summary in the inode, which alone decides who is refused, agrees with the
\* handles it summarises: the count of holders, the highest level, and a holder
\* of that level (unixLock, posixUnlock).
InodeAgrees ==
  /\ inode.nShared = Cardinality(Holders)
  /\ \A c \in Conn : eFileLock[c] <= inode.eFileLock
  /\ inode.eFileLock # NO_LOCK => \E c \in Conn : eFileLock[c] = inode.eFileLock
=============================================================================
