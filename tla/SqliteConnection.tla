-------------------------- MODULE SqliteConnection --------------------------
(***************************************************************************)
(* One connection of the sqlite4a wrapper, driven by one Java thread: the  *)
(* sqlite3 handle, the SQLiteDb struct that nativeOpen allocates, the JNI  *)
(* global references the wrapper hands to SQLite (tracer, comparators,     *)
(* functions), the prepared statements and the Java callbacks that SQLite  *)
(* makes while a statement runs.  A callback is Java code: it may call the *)
(* wrapper again, so calls nest and the native frames form a stack.        *)
(*                                                                         *)
(* Native addresses and references are never reused: a stale pointer stays *)
(* recognisable, and using one is recorded in "fault", after which the     *)
(* process is in undefined behaviour and the specification takes no step.  *)
(***************************************************************************)
EXTENDS Naturals, Sequences

CONSTANTS
  Stmt,      \* sqlite3_stmt objects, those of exec and execForNumber included
  Ref,       \* JNI global references; the wrapper takes a fresh one each time
  CollName,  \* collation names
  FuncName,  \* function names (with their number of arguments)
  Builtin,   \* those of the names SQLite itself defines, e.g. NOCASE, lower
  Null,      \* the null pointer
  Careless,  \* what this client does beyond the documented contract
  MaxDepth   \* bound on nested native calls

Name == CollName \cup FuncName

(***************************************************************************)
(* Uses of the API that the Java types permit:                             *)
(*   closeFailed      close() a statement whose insert() or execute() threw*)
(*   useZombie        step a statement after its SQLiteDb was closed       *)
(*   nullTrace        trace(null), which nativeTrace accepts               *)
(*   closeInCallback  SQLiteDb.close() inside a tracer or a comparator     *)
(***************************************************************************)
Liberty == {"closeFailed", "useZombie", "nullTrace", "closeInCallback"}

ASSUME NamesAssumption == CollName \cap FuncName = {} /\ Builtin \subseteq Name
ASSUME NullAssumption == Null \notin Ref
ASSUME CarelessAssumption == Careless \subseteq Liberty
ASSUME DepthAssumption == MaxDepth \in Nat

VARIABLES
  handle,    \* sqlite3.magic
  wrapper,   \* the SQLiteDb struct behind mDbPtr
  trace,     \* SQLiteDb.trace
  traceArg,  \* sqlite3.pTraceArg
  reg,       \* CollSeq.pUser or FuncDef.pUserData of each name
  ref,       \* what each global reference was made for, or its end
  vdbe,      \* execution state of each statement
  expired,   \* Vdbe.expired
  compiled,  \* what the names meant when the statement was last compiled
  jstmt,     \* the client's view of the Java object holding the pointer
  stack,     \* native calls in progress, outermost first
  fault      \* the first use of freed memory or of a deleted reference

stmtVars == <<vdbe, expired, compiled, jstmt>>
traceVars == <<trace, traceArg>>
vars == <<handle, wrapper, trace, traceArg, reg, ref, vdbe, expired, compiled,
          jstmt, stack, fault>>

HandleState == {"none", "sick", "open", "zombie", "freed"}
RefState == {"unused", "trace", "coll", "func", "deleted"}
VdbeState == {"none", "ready", "run", "halt", "freed"}
Op == {"select", "insert", "exec", "number"}
Phase == {"start", "body", "failed"}
Frame == [stmt : Stmt, op : Op, phase : Phase, call : Ref \cup {Null},
          kind : {"trace", "coll", "func"}]
Fault == {"none", "finalize", "errmsg", "trace", "callback"}

TypeOK ==
  /\ handle \in HandleState
  /\ wrapper \in {"none", "live", "deleted"}
  /\ trace \in Ref \cup {Null}
  /\ traceArg \in Ref \cup {Null}
  /\ reg \in [Name -> Ref \cup {Null}]
  /\ ref \in [Ref -> RefState]
  /\ vdbe \in [Stmt -> VdbeState]
  /\ expired \in [Stmt -> BOOLEAN]
  /\ compiled \in [Stmt -> [Name -> Ref \cup {Null}]]
  /\ jstmt \in [Stmt -> {"none", "open", "failed", "closed"}]
  /\ stack \in Seq(Frame)
  /\ fault \in Fault

Init ==
  /\ handle = "none"
  /\ wrapper = "none"
  /\ trace = Null
  /\ traceArg = Null
  /\ reg = [n \in Name |-> Null]
  /\ ref = [r \in Ref |-> "unused"]
  /\ vdbe = [s \in Stmt |-> "none"]
  /\ expired = [s \in Stmt |-> FALSE]
  /\ compiled = [s \in Stmt |-> [n \in Name |-> Null]]
  /\ jstmt = [s \in Stmt |-> "none"]
  /\ stack = <<>>
  /\ fault = "none"

-----------------------------------------------------------------------------
(* Control: who runs, and the pieces the handlers share.                   *)

Kind(n) == IF n \in CollName THEN "coll" ELSE "func"
Top == stack[Len(stack)]
Pop == SubSeq(stack, 1, Len(stack) - 1)
SetTop(f) == [stack EXCEPT ![Len(stack)] = f]

\* Java code runs: outside every native call, or inside a callback.
InCallback == fault = "none" /\ stack # <<>> /\ Top.call # Null
JavaRuns == InCallback \/ (fault = "none" /\ stack = <<>>)

\* SQLite runs: inside sqlite3_step, no callback in progress.
NativeRuns == fault = "none" /\ stack # <<>> /\ Top.call = Null

InStep(s) == \E i \in DOMAIN stack : stack[i].stmt = s

\* Mutant: a statement inside sqlite3_step is no longer counted as active.
VdbeActive_mut == \E s \in Stmt : vdbe[s] = "run" /\ ~InStep(s)

\* sqlite3.nVdbeActive > 0
VdbeActive == \E s \in Stmt : vdbe[s] = "run"

\* The name already has an implementation, so defining it replaces one.
Exists(n) == reg[n] # Null \/ n \in Builtin

\* sqlite3.pVdbe: statements not yet finalized, in the statement map v.
Unfinalized(v) == {s \in Stmt : v[s] \notin {"none", "freed"}}

Enter(s, op, phase) ==
  stack' = Append(stack, [stmt |-> s, op |-> op, phase |-> phase,
                          call |-> Null, kind |-> "func"])

\* Mutant: the null test is missing.
DeleteRef_mut(g, r) == [x \in Ref \cup {r} |-> IF x = r THEN "deleted" ELSE g[x]]

\* DeleteGlobalRef, a no-op on the null reference, applied to the map g.
DeleteRef(g, r) == [x \in Ref |-> IF x = r THEN "deleted" ELSE g[x]]

\* Mutant: the connection's list is read before the statement leaves it.
CloseZombie_mut(h, v, g) ==
  IF h = "zombie" /\ Unfinalized(vdbe) = {}
  THEN /\ handle' = "freed"
       /\ reg' = [n \in Name |-> Null]
       /\ ref' = [r \in Ref |-> IF \E n \in Name : reg[n] = r
                                THEN "deleted" ELSE g[r]]
  ELSE /\ handle' = h
       /\ ref' = g
       /\ UNCHANGED reg

\* sqlite3LeaveMutexAndCloseZombie with handle state h, statements v and
\* references g: the last statement of a zombie takes the connection, its
\* collations and its functions with it, and java_destroy deletes their refs.
CloseZombie(h, v, g) ==
  IF h = "zombie" /\ Unfinalized(v) = {}
  THEN /\ handle' = "freed"
       /\ reg' = [n \in Name |-> Null]
       /\ ref' = [r \in Ref |-> IF \E n \in Name : reg[n] = r
                                THEN "deleted" ELSE g[r]]
  ELSE /\ handle' = h
       /\ ref' = g
       /\ UNCHANGED reg

\* Compile a program for s against the registrations in force.
Compile(s) ==
  /\ compiled' = [compiled EXCEPT ![s] = reg]
  /\ expired' = [expired EXCEPT ![s] = FALSE]

\* Mutant: replacing a registration leaves the compiled statements alone.
ExpireAll_mut == expired

\* sqlite3ExpirePreparedStatements
ExpireAll == [s \in Stmt |-> TRUE]

\* A statement that may have changed the schema, or rolled a change back.
SchemaMayChange == expired' \in {expired, ExpireAll}

-----------------------------------------------------------------------------
(* SQLite.open: nativeOpen.                                                *)

\* sqlite3_open_v2 succeeded, and the file is writable if that was asked.
OpenOk ==
  /\ handle = "none"
  /\ handle' = "open"
  /\ wrapper' = "live"
  /\ UNCHANGED <<traceVars, reg, ref, stmtVars, stack, fault>>

\* sqlite3_open_v2 failed: its handle is left in *ppDb, the method throws.
OpenError ==
  /\ handle = "none"
  /\ handle' = "sick"
  /\ UNCHANGED <<wrapper, traceVars, reg, ref, stmtVars, stack, fault>>

\* Opened read-only although OPEN_READWRITE was asked: closed, then throws.
OpenReadOnly ==
  /\ handle = "none"
  /\ CloseZombie("zombie", vdbe, ref)
  /\ UNCHANGED <<wrapper, traceVars, stmtVars, stack, fault>>

-----------------------------------------------------------------------------
(* SQLiteDb: trace, createCollation, createFunction, prepare, close.       *)

\* Mutant: the reference of the replaced tracer is kept.
Trace_leak(r) ==
  /\ wrapper = "live" /\ JavaRuns
  /\ r \in Ref /\ ref[r] = "unused"
  /\ trace' = r
  /\ traceArg' = r
  /\ ref' = [ref EXCEPT ![r] = "trace"]
  /\ UNCHANGED <<handle, wrapper, reg, stmtVars, stack, fault>>

\* Mutant: SQLite is told of the first tracer only.
Trace_stale(r) ==
  /\ wrapper = "live" /\ JavaRuns
  /\ r \in Ref /\ ref[r] = "unused"
  /\ trace' = r
  /\ traceArg' = IF traceArg = Null THEN r ELSE traceArg
  /\ ref' = [x \in Ref |-> IF x = r THEN "trace" ELSE DeleteRef(ref, trace)[x]]
  /\ UNCHANGED <<handle, wrapper, reg, stmtVars, stack, fault>>

\* nativeTrace: the old reference goes first; trace(null) leaves xTrace set.
Trace(r) ==
  /\ wrapper = "live" /\ JavaRuns
  /\ \/ r = Null /\ "nullTrace" \in Careless
     \/ r \in Ref /\ ref[r] = "unused"
  /\ trace' = r
  /\ traceArg' = IF r = Null THEN traceArg ELSE r
  /\ ref' = [x \in Ref |-> IF x = r THEN "trace" ELSE DeleteRef(ref, trace)[x]]
  /\ UNCHANGED <<handle, wrapper, reg, stmtVars, stack, fault>>

\* Point the name n at r; a replaced implementation is destroyed first and
\* every compiled statement must be compiled again.
Define(n, r) ==
  /\ reg' = [reg EXCEPT ![n] = r]
  /\ ref' = [x \in Ref |-> IF x = r THEN Kind(n) ELSE DeleteRef(ref, reg[n])[x]]
  /\ expired' = IF Exists(n) THEN ExpireAll ELSE expired
  /\ UNCHANGED <<handle, wrapper, traceVars, vdbe, compiled, jstmt, stack, fault>>

\* SQLITE_BUSY: SQLite does not call xDestroy, nor does the wrapper.
CreateCollation(n, r) ==
  /\ wrapper = "live" /\ JavaRuns
  /\ ref[r] = "unused"
  /\ IF Exists(n) /\ VdbeActive
     THEN /\ ref' = [ref EXCEPT ![r] = "coll"]
          /\ UNCHANGED <<handle, wrapper, traceVars, reg, stmtVars, stack, fault>>
     ELSE Define(n, r)

\* Mutant: on SQLITE_BUSY the implementation in place is destroyed.
CreateFunction_mut(n, r) ==
  /\ wrapper = "live" /\ JavaRuns
  /\ ref[r] = "unused"
  /\ IF Exists(n) /\ VdbeActive
     THEN /\ ref' = DeleteRef(ref, reg[n])
          /\ UNCHANGED <<handle, wrapper, traceVars, reg, stmtVars, stack, fault>>
     ELSE Define(n, r)

\* SQLITE_BUSY: sqlite3_create_function_v2 calls xDestroy on the new argument.
CreateFunction(n, r) ==
  /\ wrapper = "live" /\ JavaRuns
  /\ ref[r] = "unused"
  /\ IF Exists(n) /\ VdbeActive
     THEN /\ ref' = DeleteRef(ref, r)
          /\ UNCHANGED <<handle, wrapper, traceVars, reg, stmtVars, stack, fault>>
     ELSE Define(n, r)

Prepare(s) ==
  /\ wrapper = "live" /\ JavaRuns
  /\ vdbe[s] = "none"
  /\ vdbe' = [vdbe EXCEPT ![s] = "ready"]
  /\ jstmt' = [jstmt EXCEPT ![s] = "open"]
  /\ Compile(s)
  /\ UNCHANGED <<handle, wrapper, traceVars, reg, ref, stack, fault>>

\* Inside a callback, never under sqlite3_exec and never in a function:
\* sqlite3.h forbids both.
MayCloseDb ==
  \/ JavaRuns /\ stack = <<>>
  \/ /\ InCallback
     /\ "closeInCallback" \in Careless
     /\ \A i \in DOMAIN stack :
          stack[i].op # "exec" /\ (stack[i].call # Null => stack[i].kind # "func")

\* nativeClose: the tracer's reference, sqlite3_close_v2, then the struct.
\* SQLite keeps xTrace and pTraceArg.
CloseDb ==
  /\ wrapper = "live" /\ MayCloseDb
  /\ wrapper' = "deleted"
  /\ trace' = Null
  /\ CloseZombie("zombie", vdbe, DeleteRef(ref, trace))
  /\ UNCHANGED <<traceArg, stmtVars, stack, fault>>

-----------------------------------------------------------------------------
(* SQLiteStmt and RowIterator: step, reset, close.                         *)

\* sqlite3_step on a client's statement: a halted one is reset first, and one
\* that starts and is expired is compiled again, which may fail, and always
\* fails on a zombie.
Step(s, op) ==
  /\ JavaRuns /\ Len(stack) < MaxDepth
  /\ jstmt[s] = "open" /\ ~InStep(s)
  /\ handle = "open" \/ "useZombie" \in Careless
  /\ \/ /\ vdbe[s] = "run"
        /\ Enter(s, op, "body")
        /\ UNCHANGED <<vdbe, expired, compiled>>
     \/ /\ vdbe[s] # "run" /\ (expired[s] => handle = "open")
        /\ Enter(s, op, "start")
        /\ vdbe' = [vdbe EXCEPT ![s] = "run"]
        /\ IF expired[s] THEN Compile(s) ELSE UNCHANGED <<expired, compiled>>
     \/ /\ vdbe[s] # "run" /\ expired[s]
        /\ Enter(s, op, "failed")
        /\ vdbe' = [vdbe EXCEPT ![s] = "ready"]
        /\ UNCHANGED <<expired, compiled>>
  /\ UNCHANGED <<handle, wrapper, traceVars, reg, ref, jstmt, fault>>

\* SQLiteDb.exec and execForNumber prepare a statement of their own.
StepOwn(s, op) ==
  /\ wrapper = "live" /\ JavaRuns /\ Len(stack) < MaxDepth
  /\ vdbe[s] = "none"
  /\ vdbe' = [vdbe EXCEPT ![s] = "run"]
  /\ Compile(s)
  /\ Enter(s, op, "start")
  /\ UNCHANGED <<handle, wrapper, traceVars, reg, ref, jstmt, fault>>

\* sqlite3_reset through select() on a busy statement or clearBindings().
Reset(s) ==
  /\ JavaRuns
  /\ jstmt[s] = "open" /\ ~InStep(s)
  /\ handle = "open" \/ "useZombie" \in Careless
  /\ vdbe' = [vdbe EXCEPT ![s] = "ready"]
  /\ UNCHANGED <<handle, wrapper, traceVars, reg, ref, expired, compiled, jstmt,
                 stack, fault>>

\* nativeFinalize, from SQLiteStmt.close() or RowIterator.close().
CloseStmt(s) ==
  /\ JavaRuns
  /\ ~InStep(s)
  /\ \/ jstmt[s] = "open"
     \/ jstmt[s] = "failed" /\ "closeFailed" \in Careless
  /\ jstmt' = [jstmt EXCEPT ![s] = "closed"]
  /\ vdbe' = [vdbe EXCEPT ![s] = "freed"]
  /\ IF vdbe[s] = "freed"
     THEN fault' = "finalize" /\ UNCHANGED <<handle, reg, ref>>
     ELSE CloseZombie(handle, vdbe', ref) /\ UNCHANGED fault
  /\ UNCHANGED <<wrapper, traceVars, expired, compiled, stack>>

-----------------------------------------------------------------------------
(* Inside sqlite3_step: callbacks into Java and their return.              *)

\* Call Java through the reference r, which must still be what it was made for.
Invoke(r, kind) ==
  IF ref[r] = kind
  THEN /\ stack' = SetTop([Top EXCEPT !.call = r, !.kind = kind, !.phase = "body"])
       /\ UNCHANGED fault
  ELSE /\ fault' = IF kind = "trace" THEN "trace" ELSE "callback"
       /\ UNCHANGED stack

\* The tracer has been called, or there is none.
Traced == Top.phase = "body" \/ (Top.phase = "start" /\ traceArg = Null)

\* OP_Init: java_trace, when an execution starts.
TraceCall ==
  /\ NativeRuns /\ Top.phase = "start" /\ traceArg # Null
  /\ Invoke(traceArg, "trace")
  /\ UNCHANGED <<handle, wrapper, traceVars, reg, ref, stmtVars>>

\* OP_Init of a sub-program, a trigger's or a foreign key's, in mid-execution.
TraceTrigger ==
  /\ NativeRuns /\ Traced /\ traceArg # Null
  /\ Invoke(traceArg, "trace")
  /\ UNCHANGED <<handle, wrapper, traceVars, reg, ref, stmtVars>>

\* java_compare or java_func, for a name the program was compiled with.
Callback(n) ==
  /\ NativeRuns /\ Traced
  /\ compiled[Top.stmt][n] # Null
  /\ Invoke(reg[n], Kind(n))
  /\ UNCHANGED <<handle, wrapper, traceVars, reg, ref, stmtVars>>

CallReturn ==
  /\ InCallback
  /\ stack' = SetTop([Top EXCEPT !.call = Null])
  /\ UNCHANGED <<handle, wrapper, traceVars, reg, ref, stmtVars, fault>>

-----------------------------------------------------------------------------
(* Return from sqlite3_step, and what each caller does with the result.    *)

Returning(op) == NativeRuns /\ Top.op = op

\* hasNext(): SQLITE_ROW leaves the statement running.
SelectRow ==
  /\ Returning("select") /\ Traced
  /\ stack' = Pop
  /\ UNCHANGED <<handle, wrapper, traceVars, reg, ref, stmtVars, fault>>

\* hasNext(): SQLITE_DONE or an error; a failed compilation leaves it ready.
SelectEnd ==
  /\ Returning("select") /\ (Traced \/ Top.phase = "failed")
  /\ vdbe' = [vdbe EXCEPT ![Top.stmt] = IF Traced THEN "halt" ELSE "ready"]
  /\ stack' = Pop
  /\ UNCHANGED <<handle, wrapper, traceVars, reg, ref, expired, compiled, jstmt,
                 fault>>

\* insert() and execute(): SQLITE_DONE.
InsertDone ==
  /\ Returning("insert") /\ Traced
  /\ vdbe' = [vdbe EXCEPT ![Top.stmt] = "halt"]
  /\ SchemaMayChange
  /\ stack' = Pop
  /\ UNCHANGED <<handle, wrapper, traceVars, reg, ref, compiled, jstmt, fault>>

\* insert() and execute(): any other result finalizes the statement and then
\* reads the message of its connection.
InsertFail ==
  /\ Returning("insert") /\ (Traced \/ Top.phase = "failed")
  /\ vdbe' = [vdbe EXCEPT ![Top.stmt] = "freed"]
  /\ jstmt' = [jstmt EXCEPT ![Top.stmt] = "failed"]
  /\ CloseZombie(handle, vdbe', ref)
  /\ fault' = IF handle' = "freed" THEN "errmsg" ELSE fault
  /\ SchemaMayChange
  /\ stack' = Pop
  /\ UNCHANGED <<wrapper, traceVars, compiled>>

\* Mutant: the statement is freed the way sqlite3_exec frees its own.
NumberEnd_mut ==
  /\ Returning("number") /\ Traced
  /\ vdbe' = [vdbe EXCEPT ![Top.stmt] = "none"]
  /\ SchemaMayChange
  /\ stack' = Pop
  /\ UNCHANGED <<handle, reg, ref, wrapper, traceVars, compiled, jstmt, fault>>

\* execForNumber(): one step, then sqlite3_finalize whatever the result.
NumberEnd ==
  /\ Returning("number") /\ Traced
  /\ vdbe' = [vdbe EXCEPT ![Top.stmt] = "none"]
  /\ CloseZombie(handle, vdbe', ref)
  /\ SchemaMayChange
  /\ stack' = Pop
  /\ UNCHANGED <<wrapper, traceVars, compiled, jstmt, fault>>

\* sqlite3_exec: this statement is done, compile and start the next one.
ExecNext ==
  /\ Returning("exec") /\ Traced
  /\ compiled' = [compiled EXCEPT ![Top.stmt] = reg]
  /\ \E e \in {expired, ExpireAll} : expired' = [e EXCEPT ![Top.stmt] = FALSE]
  /\ stack' = SetTop([Top EXCEPT !.phase = "start"])
  /\ UNCHANGED <<handle, wrapper, traceVars, reg, ref, vdbe, jstmt, fault>>

\* sqlite3_exec: end of the script or an error.  sqlite3VdbeFinalize does not
\* look for a zombie.
ExecEnd ==
  /\ Returning("exec") /\ Traced
  /\ vdbe' = [vdbe EXCEPT ![Top.stmt] = "none"]
  /\ SchemaMayChange
  /\ stack' = Pop
  /\ UNCHANGED <<handle, wrapper, traceVars, reg, ref, compiled, jstmt, fault>>

-----------------------------------------------------------------------------
StepReturns == SelectRow \/ SelectEnd \/ InsertDone \/ InsertFail \/ NumberEnd
               \/ ExecNext \/ ExecEnd

Next ==
  \/ OpenOk \/ OpenError \/ OpenReadOnly
  \/ \E r \in Ref \cup {Null} : Trace(r)
  \/ \E n \in CollName, r \in Ref : CreateCollation(n, r)
  \/ \E n \in FuncName, r \in Ref : CreateFunction(n, r)
  \/ \E s \in Stmt : Prepare(s) \/ Reset(s) \/ CloseStmt(s)
  \/ CloseDb
  \/ \E s \in Stmt, op \in {"select", "insert"} : Step(s, op)
  \/ \E s \in Stmt, op \in {"exec", "number"} : StepOwn(s, op)
  \/ TraceCall \/ TraceTrigger \/ CallReturn
  \/ \E n \in Name : Callback(n)
  \/ StepReturns

Spec == Init /\ [][Next]_vars

\* The client leaves its callbacks, queries end, and every statement is
\* closed in the end (try-with-resources, or a finalizer, in any order).
FairSpec ==
  /\ Spec
  /\ WF_vars(CallReturn)
  /\ SF_vars(TraceCall \/ SelectEnd \/ InsertDone \/ InsertFail \/ NumberEnd
             \/ ExecEnd)
  /\ \A s \in Stmt : SF_vars(CloseStmt(s))

-----------------------------------------------------------------------------
(* Properties.                                                             *)

\* Whatever the client does, a name that is defined in Java points to a live
\* global reference of its kind, and no reference serves two names: neither
\* the replacement of a name, nor its refusal, nor the end of the connection
\* deletes a reference that java_compare or java_func may still be given, or
\* deletes one twice.
RefOwnership ==
  /\ \A n \in Name : reg[n] # Null => ref[reg[n]] = Kind(n)
  /\ \A m, n \in Name : reg[m] = reg[n] /\ reg[m] # Null => m = n
  /\ trace # Null => ref[trace] = "trace"

\* A comparator or a function that a callback in progress was entered through
\* is not deleted before that callback returns: SQLite refuses to replace it
\* (SQLITE_BUSY), and a closed connection waits for the statement.
CallbackRefAlive ==
  \A i \in DOMAIN stack :
    LET f == stack[i]
    IN f.call # Null /\ f.kind # "trace" => ref[f.call] = f.kind

\* A statement in execution runs with the comparators and functions it was
\* compiled with, from its first step to its last, however many calls, other
\* statements and callbacks come in between.
StableRegistrations ==
  \A s \in Stmt : vdbe[s] = "run" =>
    \A n \in Name : compiled[s][n] # Null => reg[n] = compiled[s][n]

\* A closed connection lives exactly as long as its statements: a zombie has a
\* statement left to finalize, and a freed connection has no statement, no
\* call in progress and no function or tracer reference left behind.
HandleLifetime ==
  /\ handle = "zombie" => wrapper = "deleted" /\ Unfinalized(vdbe) # {}
  /\ handle = "freed" =>
       /\ Unfinalized(vdbe) = {}
       /\ stack = <<>>
       /\ \A r \in Ref : ref[r] \notin {"func", "trace"}

\* Function and tracer references never leak: each one that is live is the one
\* its name or its SQLiteDb would delete.
NoOrphanRef ==
  \A r \in Ref :
    /\ ref[r] = "func" => \E n \in FuncName : reg[n] = r
    /\ ref[r] = "trace" => trace = r

\* A client that keeps to the documented contract never meets freed memory or
\* a deleted reference: no statement finalized twice, no message read from a
\* freed connection, no tracer called through a deleted reference.
NoFault == fault = "none"

\* Once SQLiteDb.close() has returned, the connection is freed when the client
\* has closed its statements, whatever the order of the closes.
CloseReleases == wrapper = "deleted" ~> (handle = "freed" \/ fault # "none")

-----------------------------------------------------------------------------
(* What the documentation says and the code does not keep.                 *)

\* sqlite3.h: a statement must not be used after it has been finalized.
NoUseAfterFinalize == fault # "finalize"

=============================================================================
