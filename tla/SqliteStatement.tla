-------------------------- MODULE SqliteStatement --------------------------
(***************************************************************************)
(* One prepared statement: SQLiteStmt, the RowIterators made from it, and  *)
(* the Vdbe behind their common pointer.  The statement is a query with    *)
(* parameters (a statement that is not a query has no rows).  Every step   *)
(* may find the database locked or fail.  The Java flags of the iterators  *)
(* and the state of the Vdbe are two views of one cursor, and only the     *)
(* second is shared.                                                       *)
(***************************************************************************)
EXTENDS Naturals, Sequences

CONSTANTS
  Param, Value, Nil, Row, Rows,   \* as in RowCursor
  NoRow,     \* pResultSet is 0
  Iter,      \* RowIterator objects
  Loose      \* what this client does beyond the for-each discipline

Binding == [Param -> Value \cup {Nil}]

(***************************************************************************)
(* Uses of the API that the Java types permit:                             *)
(*   peekTwice   hasNext() again before next()                             *)
(*   oldIterator use an iterator after a later select()                    *)
(*   nullArg     bindString(i, null) on a parameter that has a value       *)
(***************************************************************************)
ASSUME RowsAssumption == Rows \in [Binding -> Seq(Row)]
ASSUME NilAssumption == Nil \notin Value \cup Iter /\ NoRow \notin Row
ASSUME LooseAssumption == Loose \subseteq {"peekTwice", "oldIterator", "nullArg"}

VARIABLES
  vdbe,     \* ready (pc < 0), run (pc >= 0), halt or freed
  rc,       \* Vdbe.rc
  var,      \* Vdbe.aVar
  expired,  \* Vdbe.expired
  pos,      \* rows that the execution has produced
  row,      \* Vdbe.pResultSet
  iter,     \* mHasNext and mDone of each RowIterator made
  cur,      \* the iterator the client is using, or Nil
  asked,    \* history: the arguments of the calls that returned normally
  got,      \* history: the rows the client read from this execution
  took      \* history: the rows of it that each iterator may not hand out (again)

vars == <<vdbe, rc, var, expired, pos, row, iter, cur, asked, got, took>>
takenVars == <<got, took>>
vdbeVars == <<vdbe, rc, expired, pos, row>>

Flags == [made : BOOLEAN, hasNext : BOOLEAN, done : BOOLEAN]
Unbound == [p \in Param |-> Nil]

TypeOK ==
  /\ vdbe \in {"ready", "run", "halt", "freed"}
  /\ rc \in {"ok", "busy", "error"}
  /\ var \in Binding
  /\ expired \in BOOLEAN
  /\ pos \in Nat
  /\ row \in Row \cup {NoRow}
  /\ iter \in [Iter -> Flags]
  /\ cur \in Iter \cup {Nil}
  /\ asked \in Binding
  /\ got \in Seq(Row \cup {NoRow})
  /\ took \in [Iter -> Nat]

\* db.prepare() has returned: LockAndPrepare has compiled a query.
Init ==
  /\ vdbe = "ready"
  /\ rc = "ok"
  /\ var = Unbound
  /\ expired = FALSE
  /\ pos = 0
  /\ row = NoRow
  /\ iter = [i \in Iter |-> [made |-> FALSE, hasNext |-> FALSE, done |-> FALSE]]
  /\ cur = Nil
  /\ asked = Unbound
  /\ got = <<>> /\ took = [i \in Iter |-> 0]

-----------------------------------------------------------------------------
(* sqlite3_step, one operator for each result, and sqlite3_reset.          *)

\* sqlite3Step resets a halted statement, so this step starts an execution.
Fresh == vdbe # "run"
Produced == IF Fresh THEN 0 ELSE pos

NothingTaken == got' = <<>> /\ took' = [i \in Iter |-> 0]

Arrive(v, code, n, r) ==
  /\ vdbe' = v
  /\ rc' = code
  /\ pos' = n
  /\ row' = r
  /\ IF Fresh THEN NothingTaken ELSE UNCHANGED takenVars

\* Mutant: the bindings are not transferred to the new program.
Recompiled_mut ==
  /\ expired' = (expired /\ ~Fresh)
  /\ var' = IF expired /\ Fresh THEN Unbound ELSE var

\* A fresh execution of an expired statement is compiled again first, and
\* keeps its bindings.
Recompiled == expired' = (expired /\ ~Fresh) /\ UNCHANGED var

StepRow ==
  /\ Produced < Len(Rows[var])
  /\ Arrive("run", "ok", Produced + 1, Rows[var][Produced + 1])
  /\ Recompiled

StepDone ==
  /\ Produced = Len(Rows[var])
  /\ Arrive("halt", "ok", Produced, NoRow)
  /\ Recompiled

\* Mutant: the program counter is moved back before the instruction.
StepBusy_mut ==
  /\ Produced = 0
  /\ Arrive("run", "busy", Produced - 1, NoRow)
  /\ Recompiled

\* OP_Transaction finds the database locked and the busy handler gives up: the
\* program counter stays there.
StepBusy ==
  /\ Produced = 0
  /\ Arrive("run", "busy", 0, NoRow)
  /\ Recompiled

StepError ==
  /\ Arrive("halt", "error", Produced, NoRow)
  /\ Recompiled

\* sqlite3Reprepare failed: nothing was executed.
CompileError ==
  /\ Fresh /\ expired
  /\ Arrive("ready", "error", 0, NoRow)
  /\ UNCHANGED <<expired, var>>

\* sqlite3_reset; its result is the rc of the last step.
ResetVdbe ==
  /\ vdbe' = "ready"
  /\ rc' = "ok"
  /\ pos' = 0
  /\ row' = NoRow
  /\ NothingTaken
  /\ UNCHANGED expired

-----------------------------------------------------------------------------
(* SQLiteStmt.                                                             *)

\* A change of a parameter that the plan depends on expires the statement.
MayExpire == expired' \in {expired, TRUE}

\* Mutant: a running statement accepts a bind.
Bind_mut(p, v) ==
  /\ vdbe \in {"ready", "run"}
  /\ var' = [var EXCEPT ![p] = v]
  /\ asked' = [asked EXCEPT ![p] = v]
  /\ MayExpire
  /\ UNCHANGED <<vdbe, rc, pos, row, iter, cur, takenVars>>

\* bindNull, bindLong, ..., with an argument: SQLITE_MISUSE unless it is ready.
Bind(p, v) ==
  /\ vdbe = "ready"
  /\ var' = [var EXCEPT ![p] = v]
  /\ asked' = [asked EXCEPT ![p] = v]
  /\ MayExpire
  /\ UNCHANGED <<vdbe, rc, pos, row, iter, cur, takenVars>>

\* bindString(i, null) and bindBlob(i, null) return without a native call.
BindNullArg(p) ==
  /\ vdbe = "ready" /\ "nullArg" \in Loose
  /\ asked' = [asked EXCEPT ![p] = Nil]
  /\ UNCHANGED <<vdbeVars, var, iter, cur, takenVars>>

\* nativeClearBindings: the bindings are cleared only if the reset returns
\* SQLITE_OK; else the exception reports the last step again.
ClearBindings ==
  /\ vdbe # "freed"
  /\ cur' = Nil
  /\ IF rc = "ok"
     THEN /\ var' = Unbound /\ asked' = Unbound
          /\ MayExpire
     ELSE UNCHANGED <<var, asked, expired>>
  /\ vdbe' = "ready" /\ rc' = "ok" /\ pos' = 0 /\ row' = NoRow /\ NothingTaken
  /\ UNCHANGED iter

\* The rows of an execution in progress are not those of an iterator made now.
NotItsOwn(i, t) == IF vdbe' = "run" THEN [t EXCEPT ![i] = Len(Rows[var])] ELSE t

\* Mutant: a new iterator on a busy statement, without the reset.
Select_mut(i) ==
  /\ vdbe # "freed"
  /\ ~iter[i].made
  /\ cur' = i
  /\ iter' = [iter EXCEPT ![i].made = TRUE]
  /\ UNCHANGED <<vdbeVars, var, asked>>
  /\ got' = <<>> /\ took' = NotItsOwn(i, took)

\* select(): a busy statement is reset, and the result of the reset decides
\* whether an iterator is made; a halted one is left to the next step.
Select(i) ==
  /\ vdbe # "freed"
  /\ ~iter[i].made
  /\ IF vdbe = "run" THEN ResetVdbe
     ELSE UNCHANGED <<vdbeVars, got>> /\ took' = NotItsOwn(i, took)
  /\ IF vdbe = "run" /\ rc # "ok"
     THEN cur' = Nil /\ UNCHANGED iter
     ELSE /\ cur' = i
          /\ iter' = [iter EXCEPT ![i].made = TRUE]
  /\ UNCHANGED <<var, asked>>

\* insert() and execute(): one step, and any result but SQLITE_DONE finalizes
\* the statement.  The client does not leave an announced row behind.
Insert ==
  /\ vdbe # "freed"
  /\ vdbe = "run" /\ cur # Nil => ~iter[cur].hasNext
  /\ \/ StepDone
     \/ /\ \/ rc' = "ok" /\ Produced < Len(Rows[var])
           \/ rc' = "busy" /\ Produced = 0
           \/ rc' = "error"
        /\ vdbe' = "freed" /\ row' = NoRow /\ NothingTaken
        /\ UNCHANGED <<var, expired, pos>>
  /\ cur' = Nil
  /\ UNCHANGED <<iter, asked>>

\* nativeFinalize, from SQLiteStmt.close() or from RowIterator.close().
Close ==
  /\ vdbe # "freed"
  /\ vdbe' = "freed"
  /\ row' = NoRow
  /\ NothingTaken
  /\ UNCHANGED <<rc, expired, pos, var, iter, cur, asked>>

-----------------------------------------------------------------------------
(* RowIterator.                                                            *)

Uses(i) == iter[i].made /\ (i = cur \/ "oldIterator" \in Loose)

SetFlags(i, h, d) ==
  iter' = [iter EXCEPT ![i].hasNext = h, ![i].done = d]

\* Mutant: mDone is set by every result but SQLITE_ROW.
HasNext_mut(i) ==
  /\ vdbe # "freed" /\ Uses(i)
  /\ iter[i].hasNext => "peekTwice" \in Loose
  /\ ~iter[i].done
  /\ \/ StepRow /\ SetFlags(i, TRUE, FALSE)
     \/ (StepDone \/ StepBusy \/ StepError \/ CompileError) /\ SetFlags(i, FALSE, TRUE)
  /\ UNCHANGED <<cur, asked>>

\* Every call steps the statement, until one has seen SQLITE_DONE.
HasNext(i) ==
  /\ vdbe # "freed" /\ Uses(i)
  /\ iter[i].hasNext => "peekTwice" \in Loose
  /\ ~iter[i].done
  /\ \/ StepRow /\ SetFlags(i, TRUE, FALSE)
     \/ StepDone /\ SetFlags(i, FALSE, TRUE)
     \/ (StepBusy \/ StepError \/ CompileError) /\ SetFlags(i, FALSE, FALSE)
  /\ UNCHANGED <<cur, asked>>

\* What the column getters read: pResultSet, whichever object asks; without it
\* sqlite3_column_* answers NULL.
Columns == row

\* Mutant: mHasNext stays set.
NextRow_mut(i) ==
  /\ vdbe # "freed" /\ Uses(i)
  /\ iter[i].hasNext
  /\ got' = Append(got, Columns) /\ took' = [took EXCEPT ![i] = pos]
  /\ UNCHANGED <<vdbeVars, var, iter, cur, asked>>

\* next() gives the iterator itself as the row, and the client reads it.
NextRow(i) ==
  /\ vdbe # "freed" /\ Uses(i)
  /\ iter[i].hasNext
  /\ SetFlags(i, FALSE, iter[i].done)
  /\ got' = Append(got, Columns) /\ took' = [took EXCEPT ![i] = pos]
  /\ UNCHANGED <<vdbeVars, var, cur, asked>>

-----------------------------------------------------------------------------
\* Another statement changes the schema, a function or a collation.
Expire ==
  /\ vdbe # "freed"
  /\ expired' = TRUE
  /\ UNCHANGED <<vdbe, rc, var, pos, row, iter, cur, asked, takenVars>>

Next ==
  \/ \E p \in Param, v \in Value \cup {Nil} : Bind(p, v)
  \/ \E p \in Param : BindNullArg(p)
  \/ ClearBindings \/ Insert \/ Close \/ Expire
  \/ \E i \in Iter : Select(i) \/ HasNext(i) \/ NextRow(i)

Spec == Init /\ [][Next]_vars

-----------------------------------------------------------------------------
(* Properties of any client.                                               *)

\* An execution runs from its first row to its last with the same bindings:
\* SQLite refuses a bind while pc >= 0, nativeClearBindings resets before it
\* clears, and a compilation keeps what was bound.
BindingsFrozen ==
  [][({vdbe, vdbe'} \subseteq {"run", "halt"}) => var' = var]_vars

\* What next() hands out, if there is a row at all, is a row of the query as it is
\* bound, and for this iterator a new one: none that it handed out before, and none
\* of an execution that began before select() made it.  (An iterator that is used
\* after a later select() may hand out rows of the later execution.)
RowsForward ==
  vdbe # "freed" /\ row # NoRow =>
    \A i \in Iter : iter[i].hasNext =>
      /\ vdbe = "run" /\ took[i] < pos
      /\ pos \in DOMAIN Rows[var] /\ row = Rows[var][pos]

-----------------------------------------------------------------------------
(* Properties of a client of the for-each discipline (Loose = {}).         *)

\* The Java flags and the shared Vdbe agree about the cursor: an announced row
\* is the row after those the client took, and is there to be read; mDone is
\* only set when every row was taken, so an error is never taken for the end.
CursorAgreement ==
  cur # Nil /\ vdbe # "freed" =>
    /\ iter[cur].hasNext =>
         /\ vdbe = "run" /\ pos = Len(got) + 1
         /\ row = Rows[var][pos]
    /\ iter[cur].done => vdbe = "halt" /\ rc = "ok" /\ got = Rows[var]

\* The parameters hold what the calls that returned normally asked for, across
\* executions, resets, failed clears and compilations.
BoundAsAsked == vdbe # "freed" => var = asked

\* The statement and its iterator are a RowCursor.
Cursor == INSTANCE RowCursor WITH
  args <- asked,
  want <- IF vdbe \in {"run", "halt"} THEN Rows[var] ELSE <<>>,
  got <- got,
  status <- CASE vdbe = "ready" -> "idle"
              [] vdbe = "run" -> "open"
              [] vdbe = "halt" -> (IF rc = "ok" THEN "done" ELSE "failed")
              [] vdbe = "freed" -> "closed"

\* A client in the discipline meets the abstract cursor: the rows of the query
\* it asked for, in order, once, and an end only after the last one.
RefinesCursor == Cursor!Spec

=============================================================================
