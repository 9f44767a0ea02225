--------------------------- MODULE LockContention ---------------------------
(***************************************************************************)
(* Connections of one process that read and write one database file: how a *)
(* statement takes and gives back the locks of UnixFileLock, which refused *)
(* locks it waits for with the busy handler that SQLite.open installs, and *)
(* which it reports as SQLITE_BUSY at once.  What a transaction does to    *)
(* the file between its locks is in Pager.                                 *)
(***************************************************************************)
EXTENDS UnixFileLock, Integers

CONSTANTS
  Timeout,  \* ms, the argument of sqlite3_busy_timeout: 2500 in nativeOpen
  Untidy    \* connections whose program may leave a statement that reported
            \* SQLITE_BUSY as it is: no reset(), no close()

ASSUME TimeoutAssumption == Timeout \in Nat
ASSUME UntidyAssumption == Untidy \subseteq Conn

VARIABLES
  inTrans,     \* Btree.inTrans
  autoCommit,  \* sqlite3.autoCommit
  select,      \* whether a query of the connection has rows left
  left,        \* a statement left after SQLITE_BUSY: nVdbeRead or nVdbeWrite counts it
  goal,        \* the statement in sqlite3_step
  pc,          \* the lock it asks for, or gives back, next
  asleep,      \* the connections whose busy handler sleeps
  nBusy,       \* BusyHandler.nBusy: sleeps so far, -1 once it gave up
  waited       \* ms slept by the statement

transVars == <<inTrans, autoCommit, select, left>>
busyVars == <<asleep, nBusy, waited>>
vars == <<lockVars, transVars, goal, pc, busyVars>>

Goal == {"select", "write", "immediate", "exclusive", "commit"}
Label == {"idle", "share", "reserve", "exclude", "drop", "work", "commit", "downgrade",
          "release"}

TypeOK ==
  /\ LockTypeOK
  /\ inTrans \in [Conn -> {"none", "read", "write"}]
  /\ autoCommit \in [Conn -> BOOLEAN]
  /\ select \in [Conn -> BOOLEAN]
  /\ left \in [Conn -> {"none", "read", "write"}]
  /\ goal \in [Conn -> Goal]
  /\ pc \in [Conn -> Label]
  /\ asleep \in SUBSET Conn
  /\ nBusy \in [Conn -> Nat \cup {-1}]
  /\ waited \in [Conn -> Nat]

Init ==
  /\ LockInit
  /\ inTrans = [c \in Conn |-> "none"]
  /\ autoCommit = [c \in Conn |-> TRUE]
  /\ select = [c \in Conn |-> FALSE]
  /\ left = [c \in Conn |-> "none"]
  /\ goal = [c \in Conn |-> "select"]
  /\ pc = [c \in Conn |-> "idle"]
  /\ asleep = {}
  /\ nBusy = [c \in Conn |-> 0]
  /\ waited = [c \in Conn |-> 0]

Set(f, c, v) == [f EXCEPT ![c] = v]
At(c, label) == pc[c] = label /\ c \notin asleep
Goto(c, label) == pc' = Set(pc, c, label)

-----------------------------------------------------------------------------
(* The busy handler.                                                       *)

delays == <<1, 2, 5, 10, 15, 20, 25, 25, 25, 50, 50, 100>>
totals == <<0, 1, 3, 8, 18, 33, 53, 78, 103, 128, 178, 228>>
NDELAY == 12

Delay(count) == IF count < NDELAY THEN delays[count + 1] ELSE delays[NDELAY]
Prior(count) == IF count < NDELAY THEN totals[count + 1]
                ELSE totals[NDELAY] + delays[NDELAY] * (count - (NDELAY - 1))

Sleep_mut(count) == IF Prior(count) > Timeout THEN 0 ELSE Delay(count)

\* The sleep of sqliteDefaultBusyCallback, clipped to what is left of the timeout.
Sleep(count) == IF Prior(count) + Delay(count) > Timeout
                  THEN Timeout - Prior(count) ELSE Delay(count)

Patient_mut(c) == nBusy[c] >= 0

Patient(c) == nBusy[c] >= 0 /\ Sleep(nBusy[c]) > 0

\* sqlite3InvokeBusyHandler returns 1 after a sleep, from which c wakes in Wake,
\* or 0, and 0 from then on.
SleepOn(c) ==
  /\ Patient(c)
  /\ asleep' = asleep \cup {c}
  /\ waited' = [waited EXCEPT ![c] = @ + Sleep(nBusy[c])]
  /\ nBusy' = [nBusy EXCEPT ![c] = @ + 1]

GiveUp(c) ==
  /\ ~Patient(c)
  /\ nBusy' = Set(nBusy, c, -1)
  /\ UNCHANGED <<asleep, waited>>

Wake(c) ==
  /\ c \in asleep
  /\ asleep' = asleep \ {c}
  /\ UNCHANGED <<lockVars, transVars, goal, pc, nBusy, waited>>

\* sqlite3VdbeExec starts: the budget of the busy handler is whole again.
Start(c, g, label) ==
  /\ At(c, "idle")
  /\ goal' = Set(goal, c, g) /\ Goto(c, label)
  /\ nBusy' = Set(nBusy, c, 0) /\ waited' = Set(waited, c, 0)
  /\ UNCHANGED <<lockVars, asleep>>

-----------------------------------------------------------------------------
(* Statements start: sqlite3BtreeBeginTrans finds the transaction there is. *)

BeginDeferred(c) ==
  /\ autoCommit[c]
  /\ Start(c, "select", "idle")
  /\ autoCommit' = Set(autoCommit, c, FALSE)
  /\ UNCHANGED <<inTrans, select, left>>

StartSelect(c) ==
  /\ ~select[c]
  /\ Start(c, "select", IF inTrans[c] = "none" THEN "share" ELSE "idle")
  /\ select' = Set(select, c, inTrans[c] # "none")
  /\ UNCHANGED <<inTrans, autoCommit, left>>

\* A statement in a write transaction: a further one that writes, or a query
\* that goes on.
StartWork(c, g) ==
  /\ inTrans[c] = "write" /\ (g = "select" => select[c])
  /\ Start(c, g, "work")
  /\ UNCHANGED transVars

\* A write statement, BEGIN IMMEDIATE or BEGIN EXCLUSIVE without a write
\* transaction: from a read transaction lockBtree is skipped.
StartWrite(c, g) ==
  /\ inTrans[c] # "write" /\ (g = "write" \/ autoCommit[c])
  /\ Start(c, g, IF inTrans[c] = "none" THEN "share" ELSE "reserve")
  /\ UNCHANGED transVars

\* sqlite3_step again for the statement that was left.
Retry(c) ==
  /\ left[c] # "none"
  /\ Start(c, IF left[c] = "read" THEN "select" ELSE "write",
           CASE inTrans[c] = "none" -> "share"
             [] inTrans[c] = "read" /\ left[c] = "write" -> "reserve"
             [] inTrans[c] = "write" -> "work"
             [] OTHER -> "idle")
  /\ select' = Set(select, c, select[c] \/ (left[c] = "read" /\ inTrans[c] # "none"))
  /\ left' = Set(left, c, "none")
  /\ UNCHANGED <<inTrans, autoCommit>>

-----------------------------------------------------------------------------
(* sqlite3BtreeBeginTrans takes the locks.                                 *)

KeepsReading_mut(c) == TRUE

\* Another statement of the connection is active: btreeEndTransaction keeps the
\* read transaction.
KeepsReading(c) == select[c] \/ left[c] # "none"

\* SQLITE_BUSY is reported.  SQLiteDb.exec and a tidy program reset the statement,
\* which may have been the one that kept a read transaction open; an untidy one
\* may leave it, to be stepped or reset later.
Report(c) ==
  /\ \/ /\ Goto(c, IF autoCommit[c] /\ inTrans[c] = "read" /\ ~KeepsReading(c)
                    THEN "release" ELSE "idle")
        /\ UNCHANGED left
     \/ /\ c \in Untidy /\ left[c] = "none" /\ goal[c] \in {"select", "write"}
        /\ Goto(c, "idle")
        /\ left' = Set(left, c, IF goal[c] = "select" THEN "read" ELSE "write")
  /\ UNCHANGED <<inTrans, autoCommit, select>>

\* pager_wait_on_lock was refused the lock: the busy handler sleeps and the lock
\* is tried again, or it gives up.
Waits(c) == SleepOn(c) /\ UNCHANGED <<transVars, pc>>

Share(c) ==
  /\ At(c, "share")
  /\ UNCHANGED goal
  /\ \/ /\ Lock(c, SHARED_LOCK)
        /\ IF goal[c] = "select"
             THEN /\ inTrans' = Set(inTrans, c, "read") /\ select' = Set(select, c, TRUE)
                  /\ Goto(c, "idle")
             ELSE Goto(c, "reserve") /\ UNCHANGED <<inTrans, select>>
        /\ UNCHANGED <<autoCommit, left, busyVars>>
     \/ /\ LockBusy(c, SHARED_LOCK)
        /\ Waits(c) \/ (GiveUp(c) /\ Report(c))

\* The write transaction has begun.
Begun(c) ==
  /\ inTrans' = Set(inTrans, c, "write")
  /\ autoCommit' = Set(autoCommit, c, autoCommit[c] /\ goal[c] = "write")
  /\ Goto(c, IF goal[c] = "write" THEN "work" ELSE "idle")
  /\ UNCHANGED <<select, left, busyVars>>

ReserveBusy_mut(c) ==
  IF inTrans[c] = "none"
    THEN Goto(c, "drop") /\ UNCHANGED <<transVars, busyVars>>
    ELSE Waits(c) \/ (GiveUp(c) /\ Report(c))

\* RESERVED is not waited for by a reader.
ReserveBusy(c) ==
  IF inTrans[c] = "none"
    THEN Goto(c, "drop") /\ UNCHANGED <<transVars, busyVars>>
    ELSE Report(c) /\ UNCHANGED busyVars

\* sqlite3PagerBegin.
Reserve(c) ==
  /\ At(c, "reserve")
  /\ UNCHANGED goal
  /\ \/ /\ Lock(c, RESERVED_LOCK)
        /\ IF goal[c] = "exclusive"
             THEN Goto(c, "exclude") /\ UNCHANGED <<transVars, busyVars>>
             ELSE Begun(c)
     \/ LockBusy(c, RESERVED_LOCK) /\ ReserveBusy(c)

\* BEGIN EXCLUSIVE waits for the readers with RESERVED held.
Exclude(c) ==
  /\ At(c, "exclude")
  /\ UNCHANGED goal
  /\ \/ Lock(c, EXCLUSIVE_LOCK) /\ Begun(c)
     \/ /\ LockBusy(c, EXCLUSIVE_LOCK)
        /\ \/ Waits(c)
           \/ /\ GiveUp(c)
              /\ IF inTrans[c] = "none" THEN Goto(c, "drop") /\ UNCHANGED transVars
                                        ELSE Report(c)

Drop_mut(c) ==
  /\ At(c, "drop")
  /\ Unlock(c, NO_LOCK)
  /\ Goto(c, "share")
  /\ UNCHANGED <<transVars, goal, busyVars>>

\* unlockBtreeIfUnused lets go of the file, then the loop asks the busy handler.
Drop(c) ==
  /\ At(c, "drop")
  /\ Unlock(c, NO_LOCK)
  /\ \/ SleepOn(c) /\ Goto(c, "share") /\ UNCHANGED transVars
     \/ GiveUp(c) /\ Report(c)
  /\ UNCHANGED goal

-----------------------------------------------------------------------------
(* The statement runs.                                                     *)

\* A page is needed and the cache is full: pagerStress writes a dirty one, for
\* which it takes EXCLUSIVE as a commit does.  sqlite3PcacheFetchStress does not
\* mind when it is refused; PENDING, and a spent budget, stay.
Spill(c) ==
  /\ At(c, "work")
  /\ \/ Lock(c, EXCLUSIVE_LOCK) /\ UNCHANGED busyVars
     \/ LockBusy(c, EXCLUSIVE_LOCK) /\ (SleepOn(c) \/ GiveUp(c))
  /\ UNCHANGED <<transVars, goal, pc>>

Halt_mut(c) ==
  /\ At(c, "work")
  /\ Goto(c, IF goal[c] = "write" /\ autoCommit[c] /\ ~KeepsReading(c)
               THEN "commit" ELSE "idle")
  /\ UNCHANGED <<lockVars, transVars, goal, busyVars>>

\* The statement is done, or has a row.  One that wrote in autocommit mode goes on
\* to commit when it is the only writer left (sqlite3VdbeHalt).
Halt(c) ==
  /\ At(c, "work")
  /\ Goto(c, IF goal[c] = "write" /\ autoCommit[c] /\ left[c] # "write"
               THEN "commit" ELSE "idle")
  /\ UNCHANGED <<lockVars, transVars, goal, busyVars>>

-----------------------------------------------------------------------------
(* Transactions end.                                                       *)

\* COMMIT (OP_AutoCommit): an error with a writer left, or sqlite3VdbeHalt.
Commit(c) ==
  /\ ~autoCommit[c] /\ left[c] # "write"
  /\ Start(c, "commit", CASE inTrans[c] = "write" -> "commit"
                          [] inTrans[c] = "read" /\ ~select[c] /\ left[c] = "none" -> "release"
                          [] OTHER -> "idle")
  /\ autoCommit' = Set(autoCommit, c, TRUE)
  /\ UNCHANGED <<inTrans, select, left>>

\* vdbeCommit: sqlite3PagerExclusiveLock, then the two phases.  A COMMIT that is
\* refused keeps the transaction and PENDING; an autocommit statement rolls back.
PhaseOne(c) ==
  /\ At(c, "commit")
  /\ UNCHANGED goal
  /\ \/ Lock(c, EXCLUSIVE_LOCK) /\ Goto(c, "downgrade") /\ UNCHANGED <<transVars, busyVars>>
     \/ /\ LockBusy(c, EXCLUSIVE_LOCK)
        /\ \/ Waits(c)
           \/ /\ GiveUp(c)
              /\ IF goal[c] = "commit"
                   THEN Goto(c, "idle") /\ autoCommit' = Set(autoCommit, c, FALSE)
                   ELSE Goto(c, "downgrade") /\ UNCHANGED autoCommit
              /\ UNCHANGED <<inTrans, select, left>>

\* pager_end_transaction gives back all but SHARED.
Downgrade(c) ==
  /\ At(c, "downgrade")
  /\ Unlock(c, SHARED_LOCK)
  /\ inTrans' = Set(inTrans, c, "read")
  /\ Goto(c, IF KeepsReading(c) THEN "idle" ELSE "release")
  /\ UNCHANGED <<autoCommit, select, left, goal, busyVars>>

\* btreeEndTransaction, pager_unlock: the file is let go of.
Release(c) ==
  /\ At(c, "release")
  /\ Unlock(c, NO_LOCK)
  /\ inTrans' = Set(inTrans, c, "none")
  /\ Goto(c, "idle")
  /\ UNCHANGED <<autoCommit, select, left, goal, busyVars>>

\* The last row of the query, or reset(): the read transaction ends with it in
\* autocommit mode.
FinishSelect(c) ==
  /\ select[c]
  /\ Start(c, "select", IF autoCommit[c] /\ inTrans[c] = "read" /\ left[c] = "none"
                          THEN "release" ELSE "idle")
  /\ select' = Set(select, c, FALSE)
  /\ UNCHANGED <<inTrans, autoCommit, left>>

\* sqlite3RollbackAll, from here on or after the statement that is left.
RollbackTo(c, others) == CASE inTrans[c] = "write" -> "downgrade"
                           [] inTrans[c] = "read" /\ ~others -> "release"
                           [] OTHER -> "idle"

Rollback(c) ==
  /\ ~autoCommit[c]
  /\ Start(c, "commit", RollbackTo(c, KeepsReading(c)))
  /\ autoCommit' = Set(autoCommit, c, TRUE)
  /\ UNCHANGED <<inTrans, select, left>>

\* reset() or close() of the statement that is left: sqlite3VdbeHalt, in
\* autocommit mode, rolls back what the other writers have done.
ResetLeft(c) ==
  /\ left[c] # "none"
  /\ Start(c, "select",
           CASE ~autoCommit[c] -> "idle"
             [] left[c] = "write" -> RollbackTo(c, select[c])
             [] inTrans[c] = "read" /\ ~select[c] -> "release"
             [] OTHER -> "idle")
  /\ left' = Set(left, c, "none")
  /\ UNCHANGED <<inTrans, autoCommit, select>>

-----------------------------------------------------------------------------
\* What goes on inside sqlite3_step.
Run(c) ==
  \/ Wake(c) \/ Share(c) \/ Reserve(c) \/ Exclude(c) \/ Drop(c)
  \/ Spill(c) \/ Halt(c) \/ PhaseOne(c) \/ Downgrade(c) \/ Release(c)

Next ==
  \E c \in Conn :
    \/ Run(c)
    \/ BeginDeferred(c) \/ StartSelect(c) \/ Retry(c)
    \/ \E g \in {"write", "immediate", "exclusive"} : StartWrite(c, g)
    \/ \E g \in {"select", "write"} : StartWork(c, g)
    \/ FinishSelect(c) \/ Commit(c) \/ Rollback(c) \/ ResetLeft(c)

Spec == Init /\ [][Next]_vars

\* Threads in a call run on, and a program that was refused its COMMIT asks again.
Fairness == \A c \in Conn : WF_vars(Run(c)) /\ SF_vars(Commit(c))

FairSpec == Spec /\ Fairness

-----------------------------------------------------------------------------
(* Properties.                                                             *)

\* The sleeps of one statement add up to the timeout at most, however many locks
\* it waits for on its way (sqliteDefaultBusyCallback, sqlite3InvokeBusyHandler).
WaitBounded == \A c \in Conn : waited[c] <= Timeout

\* d holds the lock that c sleeps for.
Blocks(d, c) ==
  d # c /\ Holds(d, IF pc[c] = "share" THEN PENDING_LOCK ELSE SHARED_LOCK)

\* Nobody sleeps for a lock while everyone he waits for does the same: in every
\* group of sleepers one waits for nobody in it.  It is why a reader that wants
\* RESERVED is refused at once (sqlite3BtreeBeginTrans).
NoMutualWait ==
  \A S \in (SUBSET asleep) \ {{}} : \E c \in S : \A d \in S : ~Blocks(d, c)

\* No write outlives its statement in autocommit mode: a connection between two
\* calls has either begun a transaction or has none to lose, unless its program
\* has left a statement that reported SQLITE_BUSY (sqlite3VdbeHalt).
NothingUncommitted ==
  \A c \in Conn : pc[c] = "idle" /\ autoCommit[c] /\ inTrans[c] = "write" => left[c] = "write"

\* A connection that no statement of its own keeps from it has let go of the file
\* (btreeEndTransaction, unlockBtreeIfUnused).
NoForgottenLock ==
  \A c \in Conn :
    pc[c] = "idle" /\ autoCommit[c] /\ ~select[c] /\ left[c] = "none" => ~Holds(c, SHARED_LOCK)

\* Every call of sqlite3_step returns (the loops of pager_wait_on_lock and of
\* sqlite3BtreeBeginTrans end).
StepReturns == \A c \in Conn : pc[c] # "idle" ~> pc[c] = "idle"

\* A writer that goes on asking gets its COMMIT although readers come and go, as
\* long as each of them leaves: PENDING, kept when EXCLUSIVE is refused, lets
\* nobody in (unixLock).  A statement left unreset would refuse every COMMIT.
WriterNotStarved ==
  \A c \in Conn \ Untidy :
    (\A d \in Conn \ {c} : []<>~Holds(d, SHARED_LOCK))
      => [](inTrans[c] = "write" /\ ~autoCommit[c] => <>(inTrans[c] # "write"))
=============================================================================
