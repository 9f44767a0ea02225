# sqlite4a: TLA+ specifications

sqlite4a is a thin Java binding of SQLite for Android: ten Java classes, one
JNI file (`sqlite3_jni.cc`) and the vendored amalgamation `sqlite3.c`. The
binding keeps very little state of its own. What can go wrong in it is the
agreement between three owners of the same things: Java objects that hold raw
pointers, the JNI layer that makes and deletes global references, and SQLite,
which keeps those references, calls Java back through them, and decides when a
statement or a connection really ends. The specifications are about that
agreement.

## Inventory

| Part | Source | State it keeps | Operations |
|---|---|---|---|
| Connection | `SQLite.java`, `SQLiteDb.java`, `nativeOpen`..`nativeCreateFunction` | `SQLiteDb{handle, trace}` behind `mDbPtr`; `sqlite3` (open, zombie, freed) | open, trace, exec, execForNumber, prepare, createCollation, createFunction, isReadOnly, inTransaction, close |
| Registrations, callbacks | `java_trace`, `java_compare`, `java_func`, `java_destroy`, `JniFunc.java` | one JNI global reference per tracer, collation, function | call Java, destroy |
| Statement | `SQLiteStmt.java`, `nativeBind*`..`nativeFinalize` | `mStmtPtr`; in the Vdbe: run state, `rc`, bindings, `expired` | bind*, clearBindings, insert, execute, select, close |
| Row iterator | `RowIterator.java`, `nativeStep`, `nativeGetColumn*` | `mHasNext`, `mDone`, the statement's pointer | hasNext, next, get*, close |
| Function values | `SQLiteValue.java`, `SQLiteContext.java` | raw pointers valid during one call | get, result |
| SQLite, the interface | `sqlite3.c` | statements of the connection, `nVdbeActive`, collations, functions, `pTraceArg` | `sqlite3_step`, `reset`, `finalize`, `close_v2`, `exec`, ... |
| File locks, busy handler | `unixLock`, `posixUnlock`, `sqlite3BtreeBeginTrans`, `sqliteDefaultBusyCallback`, installed by `nativeOpen` | `eFileLock` of each connection, `unixInodeInfo`, `inTrans`, `autoCommit`, `nBusy` | begin, commit, roll back, wait, give up |
| Pager, journal, recovery | `sqlite3PagerSharedLock`, `pager_write`, `syncJournal`, `pager_playback`, ... | page cache, change counter, journal, `eState`, the two files | read, write, spill, commit, roll back, recover; open, release and roll back to savepoints |
| Exceptions | `SQLiteException.java`, `throw_sqlite_exception` | the pending Java exception | throw |

How they interact. A Java call enters native code with a pointer as a `long`.
Native code calls SQLite; `sqlite3_step` may call Java again (tracer,
comparator, function), and that Java code may use the binding again, so native
calls nest. A `SQLiteStmt`, all of its `RowIterator`s and the row objects are
views of one `sqlite3_stmt`. A closed `SQLiteDb` becomes a *zombie* connection
in SQLite until its last statement is finalized; nothing in Java records that
an object was closed.

What is hard: re-entrance through callbacks; the order of closes; replacing a
collation or function that is in use; a step that fails half way (a lock, an
error, a schema change) and what the caller does with the statement; flags in
Java that mirror a cursor they do not own; references that outlive or
underlive their owner; threads on one connection (with
`SQLITE_THREADSAFE=2` and `OPEN_FULLMUTEX` SQLite's calls exclude each other,
the handlers do not); several connections on one file, each with a lock the other
waits for and a cache the other makes stale; the process or the power going in
the middle of a commit, a rollback or a recovery.

What makes each part correct:

* connection: freed once, when its last statement goes, however it was closed;
  no function or tracer reference lost; nothing used after it is freed;
* registrations: a name always points to a live reference of its own; what a
  running statement uses is not replaced under it;
* statement: it runs with the arguments that the client set, and those do not
  change during an execution;
* iterator: each row once and in order, the end reported only after the last;
* locks: they exclude each other; a bounded wait, then an error that leaves the
  connection usable; nobody waits in a circle; nothing is held that nobody uses;
* pager: each transaction is there as a whole or not at all, whatever fails, and
  a reader sees one state; inside a transaction a statement or a savepoint is
  undone exactly;
* threads: a row id, a change count or a message belongs to the call that asks.

`PROJECT.json` lists the hazards line by line, with the property that watches
each.

## Modules

| Module | What it is |
|---|---|
| `SqliteConnection` | One connection, its references, statements and nested native calls |
| `MCSqliteConnection` | The symmetry for model checking it |
| `SqliteConnection_proofs` | Its inductive invariants and the proofs of seven safety properties |
| `RowCursor` | Abstract: what a statement with its iterators promises to a client |
| `SqliteStatement` | One statement, its iterators and its Vdbe; implements `RowCursor` |
| `MCSqliteStatement` | A small query (no row, one row, three rows) for model checking it |
| `SqliteStatement_proofs` | Its safety properties proved, and that it implements `RowCursor` |
| `SharedConnection` | Threads that share one connection in serialized mode |
| `MCSharedConnection` | The symmetry for model checking it |
| `SharedConnection_proofs` | Its inductive invariants and the proofs of three safety properties |
| `UnixFileLock` | The locks of one file that the connections of a process hold; no behaviour of its own, used by the next two |
| `UnixFileLock_proofs` | What each of its operations keeps, for both |
| `LockContention` | Connections that begin and end transactions, wait with the busy handler and give up |
| `MCLockContention` | Two connections for model checking it |
| `LockContention_proofs` | Its inductive invariant and the proofs of seven safety properties |
| `AtomicStore` | Abstract: what a database file promises to its connections |
| `Pager` | Connections with their page caches, the database file and its journal; implements `AtomicStore` |
| `MCPager` | The symmetry for model checking it |
| `Pager_proofs` | Its inductive invariants over locks, positions, states and hot journals, and the proofs of three properties |
| `AtomicStore_proofs` | The proofs that it keeps its types, that transactions read their snapshot, and that it implements `AtomicStore` |
| `Savepoints` | One write transaction: savepoints, statement journals, the sub-journal and its playback |
| `MCSavepoints` | For model checking it |
| `Savepoints_proofs` | The proofs of its four properties |

### SqliteConnection

One Java thread uses one connection. The variables are the fields the code
has: `handle` is the state of the `sqlite3` object (`magic`), `wrapper` and
`trace` the `SQLiteDb` struct, `traceArg` is `sqlite3.pTraceArg`, `reg` the
user pointers of collations and functions, `ref` the JNI global reference
table, `vdbe`/`expired`/`compiled` the statements inside SQLite, `jstmt` what
the Java side believes of them, and `stack` the native calls in progress.

* `OpenOk`, `OpenError`, `OpenReadOnly` are the three ends of `nativeOpen`.
  (The failure of `sqlite3_busy_timeout` is left out: it fails on an invalid
  handle only.)
* `Trace`, `CreateCollation`, `CreateFunction`, `Prepare`, `CloseDb` are the
  methods of `SQLiteDb`, each the whole native handler with what SQLite does in
  it: refusing (`SQLITE_BUSY`) to replace a name while a statement is active,
  destroying the replaced argument, expiring the compiled statements, turning
  into a zombie.
* `Step` enters `sqlite3_step` from `hasNext`, `insert` or `execute`;
  `StepOwn` from `sqlite3_exec` and `execForNumber`, which prepare a statement
  of their own. Between entry and return SQLite may call Java: `TraceCall`
  (`OP_Init`), `TraceTrigger` (the `OP_Init` of a trigger's or foreign key's
  program, in mid-execution), `Callback` (a comparator or function the program
  uses) and `CallReturn`. While a callback runs, every operation of the client is open
  again: that is the interleaving tests do not reach.
* `SelectRow` .. `ExecEnd` return from `sqlite3_step` and do what each caller
  does next: `nativeInsert` and `nativeExecute` finalize a statement that did
  not end in `SQLITE_DONE`, `execForNumber` finalizes always, `sqlite3_exec`
  goes on to the next statement.
* `CloseStmt` is `sqlite3_finalize`, from `SQLiteStmt.close` or
  `RowIterator.close`.

`fault` records the first use of freed memory or of a deleted reference;
behaviour ends there, because nothing after it is defined. Addresses and
references are never reused, so a stale pointer is always recognised.

What the client is assumed to do. A client never calls an object after it
closed it, except where `Careless` lets it: close a statement whose `insert()`
threw, step a statement of a closed connection, call `trace(null)`, close the
connection inside a tracer or comparator. Closing the connection in a
function, or inside `exec`, is what `sqlite3.h` forbids and is not modelled,
nor is stepping or finalizing a statement that is inside `sqlite3_step`.

Abstractions. A name that a program uses is any name registered when it was
compiled. A `SQLITE_SCHEMA` retry in the middle of `sqlite3_step` is folded
into the compilation at the start of a step. SQL that changes the schema
expires an arbitrary moment (`SchemaMayChange`). Preparation makes no callback
and its failure changes nothing modelled.

### SqliteStatement and RowCursor

`SqliteStatement` looks inside one statement: the run state (`vdbe`, `rc`,
`pos`, `row`), the bindings (`var`) and each iterator's `mHasNext`/`mDone`.
Each result of `sqlite3_step` has an operator: `StepRow`, `StepDone`,
`StepBusy` (the lock was not given; the program counter stays, the statement
still counts as running), `StepError`, `CompileError`. `HasNext`, `NextRow`,
`Select`, `Insert`, `Close`, `Bind`, `BindNullArg`, `ClearBindings` are the Java
methods with all they call; `Expire` is another statement changing the schema.

`asked`, `got` and `took` are history variables: the arguments of the calls that
returned normally, the rows the client read, and for each iterator the place up
to which the rows of the execution are not to come from it (again): what it
handed out, or what was passed before `select()` made it. `RowCursor` is the abstract
machine over these two: a query takes the arguments bound last, its rows come in
order and once, `done` is reported only when all were taken.
`SqliteStatement` implements it under a refinement mapping (`Cursor`) for
clients in the for-each discipline (`Loose = {}`): `hasNext()` and `next()` in
turn, one iterator at a time.

### SharedConnection

`CMakeLists.txt` compiles SQLite with `SQLITE_THREADSAFE=2`, and
`SQLite.OPEN_FULLMUTEX` gives a connection its mutex. `mutex` is the thread
whose statement runs. A SQLite call is one step, except a statement that
writes: `sqlite3_last_insert_rowid` takes no mutex, so what happens inside the
statement can be seen. A native handler makes several calls and touches the
`SQLiteDb` struct outside the mutex. `pc` says what each thread's handler does
next; `lastRowid`, `err` and `traceArg` are fields of `sqlite3` (`err` stands
for the error by the thread whose call failed), `outer` is the row id that the
frame of a trigger keeps, `trace` is the field of the struct, `ref` the global
references. `own`, `got`, `passed`, `said` and `torn` are history.

* `Start`, `InsertRow`, `TriggerRow`, `TriggerEnd` and `InsertEnds` are the
  statement of `nativeInsert`: any number of rows (none with `OR IGNORE`), of
  its own or of triggers, whose row id is taken back when they end; then
  `SQLITE_DONE` or an error. `ReadRowid` or, after an error, `Finalize`,
  `Errmsg` and `Throw` are the calls that follow. `ReadRowid` reads any value at
  all while another thread's statement runs, as `sqlite3.h` says.
  `nativeExecute` has the same shape and reads the change count where
  `nativeInsert` reads the row id.
* `ExecEnds` is the end of such a statement in `sqlite3_exec`. `Query` stands for
  every other call that may fail; `Errmsg` and `Throw` follow.
* `TraceDelete`, `TraceClear`, `TraceNone` (a null argument: nothing more is
  done), `TraceSet` and `TraceTell` are the statements of `nativeTrace`.
  `DeadTracer` is a statement or a trigger that starts while `pTraceArg` is a
  deleted reference.
* `torn` is the set of threads that hold a pointer from `sqlite3_errmsg` whose
  text was replaced before `throw_sqlite_exception` copied it.

Each row is known by the number of its insert, so a row id that `got` names can
be compared with the row it should be. A thread's statements are its own, and
no thread closes what another uses.

### UnixFileLock and LockContention

Every connection to a file has a `unixFile` with its level in `eFileLock`; the
connections of a process share one `unixInodeInfo` (`inode`: the highest level
and the number of holders), because POSIX locks do not exclude the threads of
one process. `Lock`, `LockBusy` and `Unlock` are `unixLock` with its two results
and `posixUnlock`; each runs under `unixEnterMutex` and is one step. No other
process has the file open (an Android application keeps its database to itself),
so the `fcntl` calls succeed. A refused EXCLUSIVE leaves PENDING behind.

`LockContention` is the way of a statement through those locks. `pc` is what the
connection's thread does next inside `sqlite3_step`:

* `share`, `reserve`, `exclude`, `drop`: `sqlite3BtreeBeginTrans` takes SHARED
  (waited for in `pager_wait_on_lock`), RESERVED (refused at once to a reader;
  otherwise the file is let go of, the busy handler sleeps and everything begins
  again) and, for `BEGIN EXCLUSIVE`, EXCLUSIVE;
* `work`: the statement runs. `Spill` is a full cache: `pagerStress` takes
  EXCLUSIVE through `pager_wait_on_lock`, sleeping on the budget that the commit
  will need; refused, the statement goes on and PENDING stays. `Halt` ends the
  statement, and commits where it is the last in autocommit mode;
* `commit`, `downgrade`, `release`: `vdbeCommit` takes EXCLUSIVE before anything
  is written, `pager_end_transaction` goes back to SHARED, `pager_unlock` lets
  go of the file when no statement of the connection is left.

`StartSelect`, `StartWrite`, `StartWork` (a statement inside a write transaction,
which may spill too), `BeginDeferred`, `Commit`, `Rollback`, `FinishSelect`
are what a program calls. `SleepOn` and `GiveUp` are the two results of
`sqlite3InvokeBusyHandler` with the delays of `sqliteDefaultBusyCallback`; `Wake`
ends a sleep. `nBusy` is set back only when a statement starts, so one statement
has one budget for all the locks it waits for. A connection in `Untidy` may leave
a statement that reported `SQLITE_BUSY` unreset (`left`), to be stepped again
(`Retry`) or reset later (`ResetLeft`): it goes on counting in `nVdbeRead` or
`nVdbeWrite`. A binding that finalizes refused statements, as `insert()` and
`execute()` do, is tidy; an iterator that is not closed is not.

One query per connection stands for all of its queries. What a transaction does to
the file between its locks is in `Pager`, and where the waiting is in
`LockContention` the pager chooses between trying again and giving up.

### Pager and AtomicStore

`Pager` is a transaction in `journal_mode=DELETE` and `synchronous=FULL`, the
defaults that the wrapper leaves alone, and with auto-vacuum, which
`CMakeLists.txt:18` (`SQLITE_DEFAULT_AUTOVACUUM=1`) makes the default of every
database that the binding creates. `db` and `jrnl` are the files as the
kernel has them; a page's content is the number of the change that wrote it, and
page 1 holds the change counter and the size of the database as well. The file may
be longer than the database: `Contents` is the database in a file. A journal has
its magic (set when the header counts its records), the old size of the file, the
records that are counted (`kept`) and those that are not (`more`). `eLock`,
`eState`, `cache`, `dirty`, `vers` (`dbFileVers`), `held` (`hasHeldSharedLock`),
`orig` (`dbOrigSize`) and `dbSize` are fields of the `Pager`; `safe` are the records
below `journalHdr`.

* `Begin`, `Share`, `Exists`, `CheckReserved`, `FirstByte`, `Remnant`, `Exclude`,
  `Recover` and `Validate` are `sqlite3PagerSharedLock` with `hasHotJournal`: the
  steps of other connections come between its looks at the file system and its
  locks.
* `Upgrade`, `Reserve`, `NewDatabase`, `Read`, `Write` work in the cache and add
  to the journal (`pager_write`). `Spill` is `pagerStress`.
* `Commit`, `CommitLock`, `AutoVacuum`, `ChangeCounter`, `JournalSync`,
  `JournalHeader`, `HeaderSync`, `WritePage`, `DbSync`, `Delete`, `Trim` are the two
  phases of a commit in their order.
* `AutoVacuum` is `autoVacuumCommit`: it moves pages from the end of the database
  into some of its free ones, or finds free ones there, and `sqlite3PagerTruncateImage`
  makes `dbSize` smaller. Which pages are free is the B-tree's knowledge, so any new
  size and any set of pages that receive others is allowed. Dirty pages behind
  `dbSize` stay unwritten (`ChangeCounter` leaves them out of `todo`), `Delete` drops
  them from the cache (`CleanTo`), and once the journal is gone `Trim` cuts the file,
  without a sync.
* `Rollback` or an error in a write transaction leads to `Undo`, `Restore`, `Restored`,
  `Delete` (`pager_playback`, which recovery uses too).
* The I/O errors. `PageFails`: a page is not read, or the journal not opened or not
  added to, in a statement or in the auto-vacuum; the transaction rolls back. (A full
  disk, which fails only a statement that has a statement journal, is in
  `Savepoints`.) `WriteFails`: a write or a sync of the journal or of the file, in a
  commit, which rolls back, or in a spill, which puts the pager into the error state.
  `EndFails`: a sync, a truncation, a write or the deletion in a rollback, in a recovery
  or at the end of a commit; if the deletion or the truncation fails,
  `pager_end_transaction` has gone back to SHARED before the pager enters the error
  state, so others may come to a journal that is hot now. `ReadFails`: a reader, or
  the beginning of a transaction. `Abort` is the way out of the error state.
* `Downgrade` and `Release` give the locks back.
* `Kill` is the death of the process: the kernel keeps what was written.
  `PowerLoss` takes any page and the journal back to a content they had since
  the last `fsync`; a page that was cut off may be there again.

What is assumed of the disk. Until `fsync` a page that was written has its new
content, an older one, or neither (`Torn`); pages are independent of each other.
The journal is replaced as a whole, and records that no header counts are not
read again. Lengths and names of files change on the disk in the order of the
calls, as a file system with a metadata journal has it: where a loss of power brings
a journal back, the pages cut after its deletion are back with it, and
where a deletion has reached the disk, so have the truncations before it. `Remnant`
(RESERVED, delete, unlock) is one step. A page that is taken from the free list
without being read (`noContent`) is journaled like any other here, so the journal
has more records than in the code; `Savepoints` leaves such pages out too.

`AtomicStore` is what this is for: a transaction reads the state that was
committed when it began (`view`, a history variable of `Pager`), commits in one
step and only over the state it read, and a crash leaves the last commit or,
when the power fails before the deletion of the journal is on the disk, the one
before. The refinement maps `committed` to the database in the file as recovery
would leave it (`Contents(Recovered(db, jrnl))`) and `survivors` to the same for
every journal that a power loss may leave. The deletion of the journal is the commit;
each other step of a commit, of a rollback and of a recovery is a stutter, and so are
the truncation behind a commit and its failure.

`MayShare` keeps the connections from beginning at the same time while there is a
hot journal when `Racing` is FALSE: that race is a flaw of the code, shown by a
run of its own.

### Savepoints

`Savepoints` looks inside one write transaction, where `Pager` only counts
changes. A page holds the number of the change that wrote it last. `jrnl` is the
main journal as a sequence of headers and records, `sub` the sub-journal, and
`sps` is `Pager.aSavepoint`: its positions in both, the size then, and the pages
that one of the two has for it. `journalHdr`, `iOffset` and `iHdrOffset` count
records and headers where the code counts bytes. `dirty`, `needSync` and
`writeable` are the flags of pages in the cache.

* `OpenSavepoint`, `Release` and `RollbackTo` are the three cases of `OP_Savepoint`.
  The pager learns of a savepoint when the next statement writes
  (`BeginStatement`); one it has not learned of needs neither release nor rollback.
  Savepoint 0 is the transaction's beginning (`ROLLBACK TO` the savepoint that
  began it), which is played back from the whole main journal.
* A `"plain"` statement cannot fail half way. A `"journal"` one has
  `usesStmtJournal`: it opens a savepoint of its own, and `StatementFails` rolls
  back to it.
* `Write` is `sqlite3PagerWrite` and the change after it; `JournalFails` and
  `SubjournalFails` are its errors. A full disk (or a lack of memory) fails a
  statement with a statement journal, every other error the transaction (`"abort"`).
* `Spill`, `Evict` and `Read` move pages between cache and file in between.
* `PlayMain`, `PlaySub` and `PlayEnd` are `pagerPlaybackSavepoint` record by record;
  `PlayFails` stops it.
* `Commit` and `Rollback` are one step each, since their steps, and the other
  connections, are in `Pager`; there the transaction ends.

`base`, `want` and `saved` are history: the database as the transaction found it, as
the statements that count have left it, and as it was at each savepoint.
`Recovered` is the file as the synced records of the journal would restore it, so
`Recoverable` speaks of a loss of power at every moment. A page that is written but
not synced may come back older: then it holds another content that `Recoverable`
has allowed before.

Left out here: pages that need not be written or read (`sqlite3PagerDontWrite`,
`noContent`), several pages per sector, write statements inside write statements, and
the change counter. Left out, too, are pages that move: `autoVacuumCommit` moves them
after the last savepoint is of use (it runs inside the commit, which is one step
here and `AutoVacuum` in `Pager`), but `CREATE TABLE` and `DROP TABLE` in an
auto-vacuum database, the default of this build, move pages in mid-transaction
(`btreeCreateTable`, `btreeDropTable`, `sqlite3PagerMovepage`), and what a rollback to a savepoint makes of that
(sqlite3.c:49272-49276) is not checked.

## Runs

| Run | Question | Bounds |
|---|---|---|
| `connection_any` | Types, reference ownership, callbacks' references, stable registrations, life of the handle, no orphan, with every liberty of `Careless` | 2 statements, 3 references, a collation and a function, nesting 2 |
| `connection_release` | No use of freed memory by a careful client, whose closed connection is freed in the end | 2 statements, 2 references, nesting 2, no symmetry |
| `connection_refinalize` | A failed `insert()` then `close()` (violated) | as above |
| `statement_foreach` | Types, cursor agreement, bindings as asked, refinement of `RowCursor` | 1 parameter, 2 values, 3 iterators, results of 0, 1 and 3 rows |
| `statement_any` | Bindings frozen, and from each iterator no row twice and none of before its `select()`, for a client without discipline | 2 iterators |
| `shared_threads` | Types, the row id of a call, the tracer settles | 3 threads (2 writers, 1 of them sets tracers), 2 references, 3 rows |
| `shared_message` | The message of an exception (violated) | 2 threads |
| `shared_tracer` | `trace()` beside a running thread (violated) | 2 threads |
| `lock_contention` | Locks exclude, the inode agrees with its handles, waits (those of spills too) are bounded and in no circle, nothing forgotten or uncommitted; every call returns, a writer that insists commits | 2 connections, one untidy, timeout 4 ms |
| `pager_crash` | The pager implements `AtomicStore`; locks exclude, readers have one state, hot journals are played back, the file is written by one connection alone; commits that shrink the file, its truncation and the failure of that included | 2 connections, 2 pages, 2 changes, 2 I/O errors or crashes, no race |
| `pager_hotjournal` | Two connections beside a hot journal (violated) | the same, 1 I/O error or crash, `Racing` |
| `savepoints_nested` | Savepoints and failed statements are undone exactly, a loss of power in between loses nothing, the stretches of the journal are known | 3 pages, 2 of them old, nesting 2, 3 changes, a header only behind fewer than 4 headers and records |

Why the bounds are enough to be of use. Two statements are one that runs and
one that is made, closed or started inside its callback. Three references are one in use, one that replaces it, and one more for the
tracer or a refused definition. Nesting 2 is a native call inside a callback
of a native call. The collation of the instance has a built-in meaning (as
`NOCASE` has), so that its first definition already replaces something. Three
rows, two of them equal, have a first, a middle and a last one, and make a
repeated row visible only by its place. Symmetry permutes statements and
references, which no definition tells apart; it is not used for liveness.
Deadlock is not checked: a client may stop. Of three threads one is the caller,
one comes between its calls, and the third is between the calls of the second;
three rows are the caller's own, a trigger's and a later one, two references the
caller's own and a later one.

A timeout of 4 ms lets the busy handler sleep 1 ms and 2 ms, clips its third
delay and refuses the fourth; the proof covers the other entries of the table.
Two connections meet in every pair of lock levels, and in the two circles that
the code avoids (two readers that both want to write, a reader that waits for a
writer who waits for readers). `Label`s without a way on do not exist, so
deadlock is checked in `lock_contention`, and in the pager as well.

Two pages are one with the change counter and one without, the file grows from
empty to both, an auto-vacuum cuts it back to one, and a spill leaves a page on the
disk that the counter does not tell of. Two changes are one that commits and one that
follows it, the second of which may shrink what the first has grown.
`MaxMishap` bounds the I/O errors and crashes together: two are a crash in a commit
and one in its recovery, an error and a loss of power after it, as
for a truncation that failed, or two errors, the second in the rollback that the
first began. The proofs have no such bound. The two connections are
symmetric there, and all of that run's properties are safety.

Three pages are one that stays in the cache, one old page that is journaled, and one
that is new, or grows the database again after a rollback. Nesting 2 is a named
savepoint inside another, or a statement's inside a named one. Three changes are one
before, one between and one inside; they may all be of one page, whose contents then
differ. Four headers and records let two spills divide the journal in three, and
the errors are not bounded. The run stops where the transaction ends, so deadlock is
not checked.

Fairness (`FairSpec`). In `SqliteConnection`, a callback returns (weak: nothing disables it); a call
of `sqlite3_step` that may end again and again ends (strong, since callbacks
come in between: queries are finite); every statement the client may close is
closed in the end (strong, since it cannot be closed while it runs), which is
what try-with-resources does. Nothing is assumed of `close()` on the
connection, of new statements, or of the order of closes.

In `LockContention` a thread inside a call runs on (weak: it is always enabled
until the call returns, `Wake` included, since a sleep ends), and a program whose
COMMIT was refused asks again (strong: its own calls come in between). Nothing is
assumed of statements that start. `WriterNotStarved` has the rest as its
hypothesis: each of the other connections has no lock again and again, at
moments of its own. It speaks of tidy writers: a connection with a refused write
of its own left unreset is refused its COMMIT for ever (`OP_AutoCommit`). `Pager`
has no fairness; a machine that crashes need not go on.

## What the runs found

* `insert()` and `execute()` free the statement when they fail, and `close()`
  frees it again (`NoUseAfterFinalize`).
  A lock (`SQLITE_BUSY`) is such a failure too, so a locked statement cannot be
  retried.
* An exception may carry the message of another thread's error
  (`MessageIsOwn`).
* The row id that `insert()` returns is its own last row only if no other thread's
  statement ran in between (`RowidOfCall`). It may be another thread's row, any
  number beside a running statement, and the row of an earlier call where the
  statement inserted nothing.
* `trace()` on a connection that another thread uses lets that thread call Java
  through a deleted reference (`TracerUsable`).
* Two connections of one process that find a hot journal together may read the
  database without its recovery (`HotJournalPlayedBack`): the first is refused
  EXCLUSIVE because of the second and leaves PENDING in the inode
  (sqlite3.c:31558); the second then takes that for the RESERVED lock of a live
  writer (31248) and goes on to read.

The models show the following too, with no run of their own. A `createCollation()`
refused because the collation is in use leaks its global reference, the case
`NoOrphanRef` leaves out; a refused `createFunction()` does not. A failed
`sqlite3_open_v2` leaks its handle: `OpenError` leaves it "sick" and nothing
closes it. `bindString(i, null)` and `bindBlob(i, null)` leave the value of an
earlier use: `BoundAsAsked` fails as soon as `nullArg` is in `Loose`. An iterator
that is used after a later `select()` hands out rows of the later execution
(`RowsForward` says no more than that they are new to it). `trace(null)` leaves
SQLite with the deleted reference. A refused write statement that is left unreset
makes a later one of the same connection return without its commit, the case
that `NothingUncommitted` leaves out. A spill may use up the time in which the
statement's commit could have waited. The test
`isSynced` in `pager_playback_one_page` (49246) is needed: without it a failed
sync of the journal, the rollback that follows and a loss of power together lose
data. For the rollback of a statement the same test is
needed where records come from the sub-journal and not where they come from the main
journal, whose records hold what the file had (`savepoints_nested`). The bits that
`pagerAddPageToRollbackJournal` sets for savepoints only save work: without them a
page is copied to the sub-journal as well, and the first record played back wins.
The unsynced deletion of a journal beside an emptied file (51881) is right
only where the disk keeps the order of truncation and deletion.

## Proofs

`SqliteConnection_proofs` proves, for all values of the constants under the
assumptions of `SqliteConnection` (the null pointer is no reference, names of
collations and functions are distinct, the depth bound is a number) and for
every client, the most careless one included:

* `TypeCorrect`: `Spec => []TypeOK`;
* `ReferencesOwned`: `Spec => []RefOwnership`;
* `CallbacksAlive`: `Spec => []CallbackRefAlive`;
* `RegistrationsStable`: `Spec => []StableRegistrations`.

The inductive invariant `IInv` has five parts. `TypeOK` and `RefOwnership` are
the properties themselves. `GoodStack` says that no two calls in progress use
the same statement, that the statement of a call is running, that the
reference of a comparator or function in progress is still registered, and
that a statement of `exec` or `execForNumber` is not the client's. `Handles`
ties the client's view of a statement to its existence. `CurrentPrograms`
says that a program that runs, *or may start without a new compilation*, agrees
with the registrations; without the second half a halted statement could start
with an implementation that was replaced since. The argument is the one the
code relies on: a name is only replaced when no statement is active, hence when
no call is in progress on it; whatever is replaced expires every program.
The lemmas go handler by handler (`TraceGood`, `CreateFunctionGood`, ...), on
top of what a push, a pop and a change of the top do to the stack; `ReturnGood`
covers every return from `sqlite3_step`.

Three more, about the life of a connection, go on from there:

* `NothingOrphaned`: `Spec => []NoOrphanRef`, for any client. It is inductive with
  `IInv`: whatever makes a reference live also makes its name or its struct point to
  it, and whatever unties one deletes it;
* `LivesWithStatements`: `Spec => []HandleLifetime`, for any client. `Life` adds that
  the Java object's struct lives exactly while the handle is open, that a zombie has
  statements left, that a handle that is freed, refused or not there has neither
  statements nor registrations, and that no call of `exec` is in progress on a
  connection that is not open;
* `CarefulMeetsNoFault`: `Careless = {} => (Spec => []NoFault)`. `Careful` says that
  such a client enters SQLite only on an open connection and that `pTraceArg` is the
  tracer of the struct, so every way to the recorded fault is closed.

`SqliteStatement_proofs` proves, for any values, rows and iterators:

* `TypeCorrect`, `RowsAlwaysForward` (`[]RowsForward`) and `BindingsStayFrozen`
  (`BindingsFrozen`) for any client. `AnyInv` adds to the types `RowIsCurrent` (the
  row is the one at the statement's place in the query as it is bound) and
  `TookBefore` (an iterator with a row announced has handed out none at that
  place or behind it, however often the statement was reset in between);
* `BoundAlwaysAsAsked`: `Spec => []BoundAsAsked` if `nullArg` is not in `Loose`;
* `CursorAlwaysAgrees` (`[]CursorAgreement`) and `StatementIsCursor` (`RefinesCursor`)
  for a client of the for-each discipline (`Loose = {}`). `EachInv` is needed: `Taken`
  (the rows handed out are the first rows of the result, in order) and `Place`: a query
  that runs has an iterator, and the cursor is on the last row taken or, when a row is
  announced, on the one after it; one that halted without an error has handed out
  every row. Every action then maps to one step of `RowCursor` or to none.

`SharedConnection_proofs` proves, for any number of threads, references and
rows:

* `TypeCorrect`: `Spec => []TypeOK`;
* `RowidAlwaysOfCall`: `Spec => RowidOfCall`. `RowInv` has, besides the types,
  `OneRuns` (a thread inside a statement that writes is the one with the mutex),
  `RowsKnown` (when no statement runs, `lastRowid` is what the outermost program
  left, and neither is newer than the last insert) and `OwnRow` (a thread that is
  about to read the row id has nothing newer than that as its own, and exactly that
  if nobody passed it);
* `TracerAlwaysSettled`: `Spec => [](OneTracer => TracerSettled)`. `TracerInv`
  says for each statement of `nativeTrace` what `trace`, `pTraceArg` and the
  references are before it; `OneTracer` (one thread alone sets tracers) makes
  that thread's position the only one that counts. With two such threads the
  struct can be left with a deleted reference, so the hypothesis is needed.

`UnixFileLock_proofs` has the lemmas that the next two modules share: `LockInv`
(types, `LockExclusion`, `InodeAgrees`) is kept by a granted lock, a refused one and
a release, if SHARED is the first lock a connection asks for (`Asks`). The count
in the inode is the cardinality of the holders, so the theorems on finite sets
carry the argument: when the count says one, the caller is that one
(`AloneMeansOnly`).

`LockContention_proofs` proves, for any number of connections, any timeout and
any set of untidy ones:

* `TypeCorrect`, `LocksExclude`, `InodeAlwaysAgrees`: `Spec => []TypeOK`,
  `[]LockExclusion`, `[]InodeAgrees`;
* `WaitsBounded`: `Spec => []WaitBounded`. `Budget` says that what was slept is at
  most the sum that the table `totals` gives for `nBusy`, clipped to the timeout;
  `TablesAgree` that each entry of `totals` is the sum of the `delays` before it;
* `NobodyWaitsInACircle`: `Spec => []NoMutualWait`. A connection that sleeps for
  SHARED holds nothing, and one that sleeps for EXCLUSIVE holds RESERVED
  or more, of which there is one: a group of sleepers has a member nobody in it blocks;
* `WritesSettled` and `LocksGivenBack`: `Spec => []NothingUncommitted` and
  `[]NoForgottenLock`, by `Position` (what a connection holds at each label) and
  `Settled` (what an idle one may keep).

`Pager_proofs` proves, for any connections, any size of the file and any numbers of
changes, errors and crashes, and with `Racing` or without:

* `PagerLocksExclude`: `Spec => []LockExclusion`;
* `FileWrittenAlone`: `Spec => WrittenAlone`, by `Fits`: at each label and in each
  state the pager has the lock it needs, and every write of the file, in a
  commit, a spill, a rollback and a recovery, is under EXCLUSIVE. The pager's own
  idea of its lock (`eLock`) is never above the lock it has.

It also proves `HotAlwaysPlayedBack`: `Racing = FALSE => (Spec =>
[]HotJournalPlayedBack)`, for any connections and any crashes. `HotInv` strengthens
`IInv`. `Sole`: of a hot journal there is one reader at a time, since it becomes hot
under EXCLUSIVE or with the power and whoever begins beside it waits (`MayShare`).
`Placed`: a connection that looks for a hot journal has SHARED and no more, so the
inode's level is SHARED when it is alone, and `CheckReserved` cannot take its own
PENDING lock for a writer's (`NoWriter`); a writer has RESERVED. `Seen`: who reads or
has RESERVED has no hot journal beside it, and the journal of a transaction that has
not reached the file is unmarked. `Careful` sums up what a step may do to the
journal; from it `OthersMine` gets the other connections. The hypothesis is needed:
`Pager_hotjournal` violates the property without it.

`AtomicStore_proofs` goes on from there. For any connections, any size of the file and
any numbers of changes, errors, deaths of the process and losses of power, and with
`Racing = FALSE`, as in the run `Pager_crash`:

* `PagerTypes`: `Spec => []TypeOK`;
* `SnapshotRead`: `Spec => []ReadsSnapshot`;
* `AtomicCommit`: `Spec => StoreSpec`, the refinement of `AtomicStore`.

They assume what `Pager` states of its constants: `BoundsAssumption`,
`ContentAssumption` (a page that is absent or torn is neither the other nor a page
that was written) and `JournalAssumption` (the value for "no such file" is not a
journal). The three rest on one inductive invariant, `StoreInv` with `Trims`, which
adds to `HotInv`:

* `Files`: the journal on the disk may be the present one or one of `jrnlOld`, and
  *whichever of them a loss of power leaves*, with whatever it leaves of the pages in
  `dbOld`, recovery gives a whole database back (`Mends`). What the present one gives
  is `Committed`, a file; the database in it is `Logical`. Of a page that was cut
  off, and may be back, there is one content only (`Sure`), so a journal that comes
  back gives one state (`Gives`); without one such pages lie behind the end of the
  database (`Calm`);
* `Waiting`: what a connection without a transaction has in its cache is of no use
  or of the state that its change counter tells: that counter is no newer than the
  committed one, and if they are equal the cache is part of `Committed`. This is why
  `Validate`, which compares only the counter, suffices;
* `Reading`: the cache of a reader is part of `Committed`, with page 1 in it;
* `Writer`, `Tasks`, with `Protected`: the records of the journal are the committed
  pages; while the state is `cachemod` the file is still as committed; later each
  journal that may survive is hot and gives `Committed`, and the pages without a
  synced record are unchanged in the file. `Tasks` says what a commit or a spill has
  still to write, so that at its end nothing is left unwritten;
* `Undoing`, `Recovering`: in a rollback, and in a recovery, the pages that are not
  in `todo` are as committed, in the file and in the cache;
* `Finishing`: once the pages of a commit are synced, every journal that may survive
  still gives the old state, and no journal gives the new one;
* `Trims`: while a connection cuts the file (`Trimming`), what it cuts is behind the
  end of the database, and the cache of each other connection is older than the
  commit, so none has a page that goes.

The step argument: `Steady` says that a step keeps `Committed`, and that what a power
loss may leave stays the same or comes down to `Committed` (`Store!Settle`). RESERVED
has one holder, so all connections but the one that moves are readers or waiting
(`Aside`), and a steady step leaves them as they are. Three kinds of steps are not
steady: the deletion of a finished commit's journal, which is `Store!Commit`; the
truncation after it, which changes `Committed` and not `Logical` and is a stutter; and a
loss of power, which picks one of the survivors and is `Store!Crash` (so is the death
of the process, which changes no file). `Validate` is `Store!Begin`, the release of the
last lock and the end of an aborted transaction are `Store!End`. The hypothesis is
needed: `Pager_hotjournal` shows what two connections that race to a hot journal do.

`Savepoints_proofs` proves, for any size of the database, any nesting of savepoints and
any number of changes, spills, failures and rollbacks, that `TypeOK` (`TypesKept`),
`ContentAsWritten` (`ReadsAsWritten`), `Recoverable` (`AlwaysRecoverable`) and
`FirstStretch` (`StretchesKnown`) always hold. They need one inductive invariant, since
what a playback gives depends on everything that was journaled before it:

* `JournalKept`, `UnsyncedMarked`, `WriteableKnown`: the journal has a page once, as the
  transaction found it; a page whose record is behind the last header has
  `PGHDR_NEED_SYNC`; a page that is writeable has its record. `FileKept` and `Untouched`
  say the converse: what is not in the synced part is unchanged in the file, what is
  in no record is unchanged in the cache. Together they give `Recoverable`
  (`RecoveredIsBase`);
* `SavedKept`: for each open savepoint, the bits of `inSavepoint` are exactly the pages
  that have a record behind its offsets, and playing the two journals back from there
  (`Restores`: the main journal first, of the sub-journal the first record only) gives
  each page what it held when the savepoint opened; a page without a record holds it
  still. A write keeps this by adding the record, or the copy, that somebody lacks
  (`TouchedSlot`); that never both happen is `SubKnown`, a page of the sub-journal
  being in the main journal or new;
* `PlayOn`: the same in the middle of a playback: what is done is as wanted, what is left
  makes it so. A record that playback skips in the file, because the journal is not
  synced (`MainSynced`, `SubSynced`), leaves the page dirty in the cache;
* `SlotsFit`: savepoints are nested, in size and in both offsets, so cutting the list
  (RELEASE, ROLLBACK TO, a failed statement) keeps the ones before (`CutKeeps`,
  `StartsKeeps`).

The bound of `TypeOK` on the journal is a counting argument (`JournalBounded`): behind
the last header each page has at most one record, and an injection into `1..N` bounds
their number.

`IInv` (of every module), `RowInv`, `TracerInv`, `HotInv`, `StoreInv` and `Trims` were checked by TLC
before they were proved.

Every safety property and every refinement that a passing run checks is proved. Only
model-checked: the liveness properties `CloseReleases`, `StepReturns` and
`WriterNotStarved` (liveness under fairness is out of the prover's reach, and so are
`ENABLED` and induction over data).

## Not modelled, and the plan

Not modelled, and why:

* JNI frames and exceptions. The table of local references and the pending
  exception belong to the Java virtual machine; the native code makes two local
  references per comparison and never looks at the exception, and a model could
  only say that again.
* Values and results of functions. `SQLiteValue` and `SQLiteContext` hold a raw
  pointer for the length of one callback and keep no state; each method is one
  call of the library.
* In the pager: WAL, master journals of attached databases, memory mapping,
  incremental vacuum, `exclusive` locking mode. A database opened by sqlite4a uses them
  only if its SQL asks for them (`PRAGMA`, `ATTACH`), and a shared cache only if
  `OPEN_URI` and the path do.
* In the pager and used by default: pages that were freed and need not be written
  (`sqlite3PagerDontWrite`), and pages that `CREATE TABLE` or `DROP TABLE` moves inside
  a transaction (see Savepoints).
* Other processes, and failures of `fcntl`.
* SQLite's parser, planner, virtual machine and B-tree, its other file systems
  and extensions. The amalgamation is a vendored library of two hundred thousand
  lines, nearly all of the repository by length; the models cover the part on
  which the binding's promises rest, so the share of its lines that they map
  stays small.
* Text conversions, the build.

Left for later: a pager in WAL mode.
