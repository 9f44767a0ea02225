-------------------------- MODULE SharedConnection --------------------------
(***************************************************************************)
(* Threads that share one SQLiteDb opened with OPEN_FULLMUTEX, each with   *)
(* statements of its own.  The mutex of the connection keeps SQLite calls  *)
(* apart: one step each, or several for a statement that writes, since the *)
(* row id is read without the mutex.  A handler of sqlite3_jni.cc makes    *)
(* several calls and reads and writes the SQLiteDb struct outside the      *)
(* mutex, and the other threads run in between.  Callbacks that call the   *)
(* binding again are in SqliteConnection.                                  *)
(***************************************************************************)
EXTENDS Naturals

CONSTANTS
  Thread,   \* Java threads
  Tracer,   \* those that call trace()
  Writer,   \* those whose statements insert rows
  Ref,      \* JNI global references, a fresh one for each tracer
  Null,     \* the null pointer; as an error: SQLITE_OK
  MaxRow    \* bound on the rows inserted

ASSUME RolesAssumption == Tracer \subseteq Thread /\ Writer \subseteq Thread
ASSUME NullAssumption == Null \notin Ref /\ Null \notin Thread
ASSUME RowAssumption == MaxRow \in Nat

VARIABLES
  mutex,      \* the thread whose statement runs, holding sqlite3.mutex
  lastRowid,  \* sqlite3.lastRowid: the number of the insert it belongs to
  outer,      \* what lastRowid returns to when the trigger in progress ends
  rows,       \* the number of inserts so far
  err,        \* the thread whose error sqlite3.errCode and pErr describe
  trace,      \* SQLiteDb.trace
  traceArg,   \* sqlite3.pTraceArg
  ref,        \* the global references
  pc,         \* what each thread does next in its native handler
  own,        \* history: the last row of a thread's insert(), or the one before it
  got,        \* history: the row id that the last insert() returned
  passed,     \* history: threads that another's statement passed since their own
  said,       \* whose error the message that a thread has asked for describes
  torn,       \* threads that hold a text of pErr which was replaced since
  fault       \* the first use of a deleted reference or a replaced text

traceVars == <<trace, traceArg, ref>>
rowVars == <<mutex, lastRowid, outer, rows, own, passed>>
errVars == <<err, said, torn>>
vars == <<mutex, lastRowid, outer, rows, err, trace, traceArg, ref, pc, own, got,
          passed, said, torn, fault>>

Label == {"idle", "insert", "exec", "rowid", "finalize", "errmsg", "throw",
          "clear", "set", "tell"}

TypeOK ==
  /\ mutex \in Thread \cup {Null}
  /\ lastRowid \in 0..MaxRow /\ outer \in 0..MaxRow /\ rows \in 0..MaxRow
  /\ err \in Thread \cup {Null}
  /\ trace \in Ref \cup {Null} /\ traceArg \in Ref \cup {Null}
  /\ ref \in [Ref -> {"unused", "live", "deleted"}]
  /\ pc \in [Thread -> Label]
  /\ own \in [Thread -> 0..MaxRow] /\ got \in 0..MaxRow
  /\ passed \subseteq Thread
  /\ said \in [Thread -> Thread \cup {Null}]
  /\ torn \subseteq Thread
  /\ fault \in {"none", "trace", "delete", "message"}

\* SQLite.open has returned.
Init ==
  /\ mutex = Null
  /\ lastRowid = 0 /\ outer = 0 /\ rows = 0
  /\ err = Null
  /\ trace = Null /\ traceArg = Null
  /\ ref = [r \in Ref |-> "unused"]
  /\ pc = [t \in Thread |-> "idle"]
  /\ own = [t \in Thread |-> 0] /\ got = 0
  /\ passed = {}
  /\ said = [t \in Thread |-> t]
  /\ torn = {}
  /\ fault = "none"

Forget(t) == own' = [own EXCEPT ![t] = 0] /\ passed' = passed \ {t}

At(t, label) == fault = "none" /\ pc[t] = label
Goto(t, label) == pc' = [pc EXCEPT ![t] = label]

-----------------------------------------------------------------------------
(* SQLite calls, each under the mutex of the connection.                   *)

Free == mutex = Null
Running(t) == fault = "none" /\ mutex = t

\* A call that succeeds clears the error, or (sqlite3_step) leaves its text.
Succeed == err' \in {err, Null} /\ UNCHANGED torn

\* A call that fails sets the error, with a text of its own or without: a text
\* replaces the one that another thread may be about to read.
Fail(t) ==
  /\ err' = t
  /\ torn' \in {torn, torn \cup {x \in Thread : pc[x] = "throw"}}

\* java_trace makes a local reference of pTraceArg.
TracerAlive == traceArg # Null => ref[traceArg] = "live"

\* It is called when an execution starts and when a trigger does.
DeadTracer(t) ==
  /\ (At(t, "idle") /\ Free) \/ (Running(t) /\ lastRowid = outer)
  /\ ~TracerAlive
  /\ fault' = "trace"
  /\ UNCHANGED <<traceVars, rowVars, got, errVars, pc>>

\* insert(), or exec(), of a statement that writes: sqlite3_step takes the mutex.
Start(t, call) ==
  /\ At(t, "idle") /\ t \in Writer /\ Free /\ TracerAlive
  /\ mutex' = t
  /\ own' = [own EXCEPT ![t] = lastRowid]
  /\ passed' = (passed \ {t}) \cup {x \in Thread : pc[x] = "rowid"}
  /\ Goto(t, call)
  /\ UNCHANGED <<traceVars, lastRowid, outer, rows, got, errVars, fault>>

\* OP_Insert in the statement's own program.
InsertRow(t) ==
  /\ Running(t) /\ lastRowid = outer /\ rows < MaxRow
  /\ rows' = rows + 1
  /\ lastRowid' = rows' /\ outer' = rows'
  /\ own' = [own EXCEPT ![t] = rows']
  /\ UNCHANGED <<traceVars, mutex, got, passed, errVars, pc, fault>>

\* OP_Insert in a trigger's program (a trigger that inserts nothing, or one
\* inside a trigger, does nothing more to the row id).
TriggerRow(t) ==
  /\ Running(t) /\ (lastRowid = outer => TracerAlive) /\ rows < MaxRow
  /\ rows' = rows + 1
  /\ lastRowid' = rows'
  /\ UNCHANGED <<traceVars, mutex, outer, own, got, passed, errVars, pc, fault>>

\* Mutant: the row id of the trigger stays.
TriggerEnd_mut(t) ==
  /\ Running(t) /\ lastRowid # outer
  /\ outer' = lastRowid
  /\ UNCHANGED <<traceVars, mutex, lastRowid, rows, own, got, passed, errVars, pc, fault>>

\* sqlite3VdbeFrameRestore.
TriggerEnd(t) ==
  /\ Running(t) /\ lastRowid # outer
  /\ lastRowid' = outer
  /\ UNCHANGED <<traceVars, mutex, outer, rows, own, got, passed, errVars, pc, fault>>

\* nativeInsert: SQLITE_DONE, whether a row was inserted or not (OR IGNORE), or
\* an error, rows inserted before it or not; a trigger in progress ends with it.
InsertEnds(t) ==
  /\ At(t, "insert")
  /\ mutex' = Null
  /\ lastRowid' = outer
  /\ \/ lastRowid = outer /\ Succeed /\ Goto(t, "rowid") /\ UNCHANGED <<own, passed>>
     \/ Fail(t) /\ Goto(t, "finalize") /\ Forget(t)
  /\ UNCHANGED <<traceVars, outer, rows, got, said, fault>>

\* exec(): if it fails the handler asks for the message next.
ExecEnds(t) ==
  /\ At(t, "exec")
  /\ mutex' = Null
  /\ lastRowid' = outer
  /\ \/ lastRowid = outer /\ Succeed /\ Goto(t, "idle")
     \/ Fail(t) /\ Goto(t, "errmsg")
  /\ Forget(t)
  /\ UNCHANGED <<traceVars, outer, rows, got, said, fault>>

\* Mutant: the row to come.
ReadRowid_mut(t) ==
  /\ At(t, "rowid")
  /\ got' = lastRowid + 1
  /\ Goto(t, "idle")
  /\ Forget(t)
  /\ UNCHANGED <<traceVars, mutex, lastRowid, outer, rows, errVars, fault>>

\* sqlite3_last_insert_rowid takes no mutex: beside a statement of another
\* thread that inserts, what it reads is unpredictable.
ReadRowid(t) ==
  /\ At(t, "rowid")
  /\ got' \in 0..MaxRow
  /\ Free => got' = lastRowid
  /\ Goto(t, "idle")
  /\ Forget(t)
  /\ UNCHANGED <<traceVars, mutex, lastRowid, outer, rows, errVars, fault>>

\* sqlite3_finalize reports the error of the statement again.
Finalize(t) ==
  /\ At(t, "finalize") /\ Free
  /\ Fail(t)
  /\ Goto(t, "errmsg")
  /\ UNCHANGED <<traceVars, rowVars, got, said, fault>>

\* Every other call, which inserts nothing: if it fails the handler asks for
\* the message next (hasNext() and execForNumber() do not).
Query(t) ==
  /\ At(t, "idle") /\ Free /\ TracerAlive
  /\ \/ Succeed /\ UNCHANGED pc
     \/ Fail(t) /\ (Goto(t, "errmsg") \/ UNCHANGED pc)
  /\ UNCHANGED <<traceVars, rowVars, got, said, fault>>

\* sqlite3_errmsg: a pointer to the text of the connection's last error.
Errmsg(t) ==
  /\ At(t, "errmsg") /\ Free
  /\ said' = [said EXCEPT ![t] = err]
  /\ torn' = torn \ {t}
  /\ Goto(t, "throw")
  /\ UNCHANGED <<traceVars, rowVars, got, err, fault>>

\* throw_sqlite_exception copies the text, the mutex being free.
Throw(t) ==
  /\ At(t, "throw")
  /\ Goto(t, "idle")
  /\ said' = [said EXCEPT ![t] = t]
  /\ torn' = torn \ {t}
  /\ fault' = IF t \in torn THEN "message" ELSE fault
  /\ UNCHANGED <<traceVars, rowVars, got, err>>

-----------------------------------------------------------------------------
(* nativeTrace: the struct is read and written outside the mutex.          *)

\* Mutant: the reference of the replaced tracer is kept.
TraceDelete_mut(t) ==
  /\ At(t, "idle") /\ t \in Tracer
  /\ Goto(t, "set")
  /\ UNCHANGED <<trace, traceArg, ref, rowVars, got, errVars, fault>>

TraceDelete(t) ==
  /\ At(t, "idle") /\ t \in Tracer
  /\ \/ trace = Null /\ Goto(t, "set") /\ UNCHANGED <<ref, fault>>
     \/ /\ trace # Null /\ ref[trace] = "live"
        /\ ref' = [ref EXCEPT ![trace] = "deleted"]
        /\ Goto(t, "clear")
        /\ UNCHANGED fault
     \/ /\ trace # Null /\ ref[trace] # "live"
        /\ fault' = "delete"
        /\ UNCHANGED <<ref, pc>>
  /\ UNCHANGED <<trace, traceArg, rowVars, got, errVars>>

TraceClear(t) ==
  /\ At(t, "clear")
  /\ trace' = Null
  /\ Goto(t, "set")
  /\ UNCHANGED <<traceArg, ref, rowVars, got, errVars, fault>>

\* trace(null) ends here: SQLite keeps pTraceArg.
TraceNone(t) ==
  /\ At(t, "set")
  /\ Goto(t, "idle")
  /\ UNCHANGED <<traceVars, rowVars, got, errVars, fault>>

TraceSet(t, r) ==
  /\ At(t, "set")
  /\ ref[r] = "unused"
  /\ ref' = [ref EXCEPT ![r] = "live"]
  /\ trace' = r
  /\ Goto(t, "tell")
  /\ UNCHANGED <<traceArg, rowVars, got, errVars, fault>>

\* sqlite3_trace_v2 is given what the struct holds now (only another trace()
\* could change that between the read and the call).
TraceTell(t) ==
  /\ At(t, "tell") /\ Free
  /\ traceArg' = trace
  /\ Goto(t, "idle")
  /\ UNCHANGED <<trace, ref, rowVars, got, errVars, fault>>

-----------------------------------------------------------------------------
Next ==
  \E t \in Thread :
    \/ \E call \in {"insert", "exec"} : Start(t, call)
    \/ InsertRow(t) \/ TriggerRow(t) \/ TriggerEnd(t)
    \/ InsertEnds(t) \/ ReadRowid(t) \/ Finalize(t) \/ ExecEnds(t) \/ Query(t)
    \/ Errmsg(t) \/ Throw(t) \/ DeadTracer(t)
    \/ TraceDelete(t) \/ TraceClear(t) \/ TraceNone(t) \/ TraceTell(t)
    \/ \E r \in Ref : TraceSet(t, r)

Spec == Init /\ [][Next]_vars

-----------------------------------------------------------------------------
(* Properties.                                                             *)

\* What insert() may return: if no statement of another thread ran since its
\* own, the last row that its statement inserted itself, never a trigger's, and
\* if it inserted none (OR IGNORE) the row that was last before; if others ran
\* and have ended, that row or a later one.  Nothing is promised beside a
\* statement that is still running.
RowidOfCall ==
  [][\A t \in Thread : pc[t] = "rowid" /\ pc'[t] = "idle" =>
       /\ t \notin passed => got' = own[t]
       /\ Free => got' >= own[t]]_vars

InTrace(t) == pc[t] \in {"clear", "set", "tell"}

\* When one thread alone sets tracers, then between its calls of trace() the
\* tracer that SQLite calls is the one of the struct and it alone is live,
\* however the other threads' calls fall in between; after trace(null) no
\* reference is live, and SQLite's is a deleted one.
TracerSettled ==
  (\A t \in Thread : ~InTrace(t)) =>
    /\ trace # Null => traceArg = trace
    /\ {r \in Ref : ref[r] = "live"} = {trace} \ {Null}

-----------------------------------------------------------------------------
(* What the documentation says and the code does not keep.                 *)

\* sqlite3.h: exclusive use of the connection from the failed call to the
\* message makes the message that of the call.
MessageIsOwn == \A t \in Thread : said[t] = t

\* sqlite3.h: with the mutexes of FULLMUTEX, threads are free to use the
\* connection at the same time.
TracerUsable == fault # "trace"

=============================================================================
