---------------------- MODULE SharedConnection_proofs ----------------------
(***************************************************************************)
(* Row ids and tracers of a connection that any number of threads share.   *)
(***************************************************************************)
EXTENDS SharedConnection, TLAPS

\* The thread that holds the mutex is the one in the call of sqlite3_step.
OneRuns == \A t \in Thread : pc[t] \in {"insert", "exec"} <=> mutex = t

\* Outside of triggers the row id is the last of a statement's own program.
RowsKnown ==
  /\ outer <= rows /\ lastRowid <= rows
  /\ Free => lastRowid = outer

\* Where the row of a thread's insert() stands: it is the last one until a
\* statement of another thread starts, and an earlier one from then on.
OwnRow ==
  \A t \in Thread :
    /\ mutex = t => own[t] = outer
    /\ pc[t] = "rowid" => own[t] <= outer
    /\ pc[t] = "rowid" /\ t \notin passed => Free /\ own[t] = outer

RowInv == TypeOK /\ OneRuns /\ RowsKnown /\ OwnRow

-----------------------------------------------------------------------------
LEMMA RowInit == Init => RowInv
  BY NullAssumption, RowAssumption
  DEF Init, RowInv, TypeOK, OneRuns, RowsKnown, OwnRow, Free, Label

\* Steps that leave the rows and the mutex alone, and bring no thread to a call
\* of sqlite3_step or to the reading of the row id.
LEMMA RowsUntouched ==
  ASSUME RowInv, TypeOK', UNCHANGED rowVars,
         UNCHANGED pc \/ \E t \in Thread, label \in Label :
           /\ Goto(t, label)
           /\ {label, pc[t]} \cap {"insert", "exec", "rowid"} = {}
  PROVE  RowInv'
<1>1. \A u \in Thread : pc'[u] = pc[u] \/ {pc'[u], pc[u]} \cap {"insert", "exec", "rowid"} = {}
  BY DEF RowInv, TypeOK, Goto
<1>2. QED
  BY <1>1 DEF RowInv, OneRuns, RowsKnown, OwnRow, rowVars, Free

LEMMA RowStep ==
  ASSUME RowInv, [Next]_vars
  PROVE  RowInv'
<1> USE NullAssumption, RowAssumption DEF RowInv
<1> USE DEF At, Goto, Running, Free, Label
<1>1. CASE UNCHANGED vars
  BY <1>1 DEF vars, TypeOK, OneRuns, RowsKnown, OwnRow
<1>2. ASSUME NEW t \in Thread, NEW call \in {"insert", "exec"}, Start(t, call)
      PROVE  RowInv'
  <2>1. TypeOK'
    BY <1>2 DEF Start, TypeOK, errVars, traceVars
  <2>2. OneRuns'
    BY <1>2 DEF Start, TypeOK, OneRuns
  <2>3. RowsKnown'
    BY <1>2 DEF Start, TypeOK, RowsKnown
  <2>4. OwnRow'
    BY <1>2 DEF Start, TypeOK, RowsKnown, OwnRow
  <2>5. QED
    BY <2>1, <2>2, <2>3, <2>4
<1>3. ASSUME NEW t \in Thread, InsertRow(t)
      PROVE  RowInv'
  <2>1. TypeOK'
    BY <1>3 DEF InsertRow, TypeOK, errVars, traceVars
  <2>2. OneRuns' /\ RowsKnown'
    BY <1>3 DEF InsertRow, TypeOK, OneRuns, RowsKnown
  <2>3. OwnRow'
    BY <1>3 DEF InsertRow, TypeOK, OneRuns, RowsKnown, OwnRow
  <2>4. QED
    BY <2>1, <2>2, <2>3
<1>4. ASSUME NEW t \in Thread, TriggerRow(t) \/ TriggerEnd(t)
      PROVE  RowInv'
  <2>1. TypeOK'
    BY <1>4 DEF TriggerRow, TriggerEnd, TypeOK, errVars, traceVars
  <2>2. OneRuns' /\ RowsKnown' /\ OwnRow'
    BY <1>4 DEF TriggerRow, TriggerEnd, TypeOK, OneRuns, RowsKnown, OwnRow
  <2>3. QED
    BY <2>1, <2>2
<1>5. ASSUME NEW t \in Thread, InsertEnds(t) \/ ExecEnds(t)
      PROVE  RowInv'
  <2>1. mutex = t /\ mutex' = Null /\ lastRowid' = outer /\ UNCHANGED <<outer, rows>>
    BY <1>5 DEF InsertEnds, ExecEnds, OneRuns
  <2>2. TypeOK'
    BY <1>5 DEF InsertEnds, ExecEnds, Forget, Succeed, Fail, TypeOK, traceVars
  <2>3. OneRuns'
    BY <1>5, <2>1 DEF InsertEnds, ExecEnds, TypeOK, OneRuns
  <2>4. RowsKnown'
    BY <2>1 DEF RowsKnown
  <2>5. OwnRow'
    BY <1>5, <2>1 DEF InsertEnds, ExecEnds, Forget, TypeOK, OwnRow
  <2>6. QED
    BY <2>2, <2>3, <2>4, <2>5
<1>6. ASSUME NEW t \in Thread, ReadRowid(t)
      PROVE  RowInv'
  <2>1. TypeOK'
    BY <1>6 DEF ReadRowid, Forget, TypeOK, errVars, traceVars
  <2>2. OneRuns' /\ RowsKnown' /\ OwnRow'
    BY <1>6 DEF ReadRowid, Forget, TypeOK, OneRuns, RowsKnown, OwnRow
  <2>3. QED
    BY <2>1, <2>2
<1>7. ASSUME NEW t \in Thread, Finalize(t) \/ Query(t)
      PROVE  RowInv'
  <2>1. TypeOK'
    BY <1>7 DEF Finalize, Query, Succeed, Fail, TypeOK, traceVars, rowVars
  <2>2. QED
    BY <1>7, <2>1, RowsUntouched DEF Finalize, Query
<1>8. ASSUME NEW t \in Thread, Errmsg(t) \/ Throw(t) \/ DeadTracer(t)
      PROVE  RowInv'
  <2>1. TypeOK'
    BY <1>8 DEF Errmsg, Throw, DeadTracer, TypeOK, traceVars, rowVars, errVars
  <2>2. QED
    BY <1>8, <2>1, RowsUntouched DEF Errmsg, Throw, DeadTracer
<1>9. ASSUME NEW t \in Thread,
             \/ TraceDelete(t) \/ TraceClear(t) \/ TraceNone(t) \/ TraceTell(t)
             \/ \E r \in Ref : TraceSet(t, r)
      PROVE  RowInv'
  <2>1. TypeOK'
    BY <1>9 DEF TraceDelete, TraceClear, TraceNone, TraceTell, TraceSet, TypeOK,
                traceVars, rowVars, errVars
  <2>2. QED
    BY <1>9, <2>1, RowsUntouched DEF TraceDelete, TraceClear, TraceNone, TraceTell, TraceSet
<1>10. QED
  BY <1>1, <1>2, <1>3, <1>4, <1>5, <1>6, <1>7, <1>8, <1>9 DEF Next

LEMMA RowInvariance == Spec => []RowInv
  BY RowInit, RowStep, PTL DEF Spec

\* The variables of the shared connection and of its threads keep their types
\* through the calls of nativeInsert, nativeExec and nativeTrace in any order.
THEOREM TypeCorrect == Spec => []TypeOK
<1>1. RowInv => TypeOK
  BY DEF RowInv
<1>2. QED
  BY <1>1, RowInvariance, PTL

\* nativeInsert reads sqlite3_last_insert_rowid after its step, in a second call
\* that takes no mutex: for any number of threads, what it returns is its own
\* row, or the one before if it inserted none, unless another thread's statement
\* came in between, and even then no earlier one if that has ended.
THEOREM RowidAlwaysOfCall == Spec => RowidOfCall
<1> DEFINE A == \A t \in Thread : pc[t] = "rowid" /\ pc'[t] = "idle" =>
                  /\ t \notin passed => got' = own[t]
                  /\ Free => got' >= own[t]
<1>1. ASSUME RowInv, [Next]_vars
      PROVE  [A]_vars
  <2>1. CASE UNCHANGED vars
    BY <2>1
  <2>2. ASSUME NEW t \in Thread, pc[t] = "rowid", pc'[t] = "idle"
        PROVE  UNCHANGED vars \/ ReadRowid(t)
    <3>1. \A u \in Thread : u # t => \A label : ~Goto(u, label)
      BY <1>1, <2>2 DEF Goto, RowInv, TypeOK
    <3>2. pc' # pc
      BY <2>2
    <3>3. QED
      BY <1>1, <2>2, <3>1, <3>2
      DEF Next, Start, InsertRow, TriggerRow, TriggerEnd, InsertEnds, ReadRowid, Finalize,
          ExecEnds, Query, Errmsg, Throw, DeadTracer, TraceDelete, TraceClear, TraceNone,
          TraceTell, TraceSet, At
  <2>3. ASSUME NEW t \in Thread, ReadRowid(t)
        PROVE  /\ t \notin passed => got' = own[t]
               /\ Free => got' >= own[t]
    BY <1>1, <2>3, RowAssumption DEF ReadRowid, At, RowInv, TypeOK, RowsKnown, OwnRow
  <2>4. QED
    BY <1>1, <2>1, <2>2, <2>3
<1>2. QED
  BY <1>1, RowInvariance, PTL DEF Spec, RowidOfCall

-----------------------------------------------------------------------------
(* One thread sets tracers.                                                *)

OneTracer == \A a, b \in Tracer : a = b

\* Where the tracer's reference is while nativeTrace runs.
TracerAt(label) ==
  CASE label = "clear" -> /\ trace \in Ref /\ ref[trace] = "deleted"
                          /\ traceArg = trace
                          /\ \A r \in Ref : ref[r] # "live"
    [] label = "set"   -> trace = Null /\ \A r \in Ref : ref[r] # "live"
    [] label = "tell"  -> trace \in Ref /\ \A r \in Ref : ref[r] = "live" <=> r = trace
    [] OTHER           -> /\ trace # Null => traceArg = trace
                          /\ \A r \in Ref : ref[r] = "live" <=> r = trace

TracerInv ==
  /\ TypeOK
  /\ \A t \in Thread : InTrace(t) => t \in Tracer
  /\ \A t \in Thread : InTrace(t) => TracerAt(pc[t])
  /\ (\A t \in Thread : ~InTrace(t)) => TracerAt("idle")

\* A call of SQLite leaves the tracers as they are.
LEMMA OtherCallsKeepTracers ==
  ASSUME TracerInv, TypeOK', UNCHANGED traceVars,
         \A t \in Thread : InTrace(t)' <=> InTrace(t),
         \A t \in Thread : InTrace(t) => pc'[t] = pc[t]
  PROVE  TracerInv'
<1>1. \A label \in Label : TracerAt(label)' <=> TracerAt(label)
  BY DEF TracerAt, traceVars
<1>2. \A t \in Thread : pc[t] \in Label
  BY DEF TracerInv, TypeOK
<1>3. ASSUME NEW t \in Thread, InTrace(t)'
      PROVE  t \in Tracer /\ TracerAt(pc[t])'
  BY <1>1, <1>2, <1>3 DEF TracerInv, TracerAt, traceVars
<1>4. (\A t \in Thread : ~InTrace(t)') => TracerAt("idle")'
  BY <1>1 DEF TracerInv, Label
<1>5. QED
  BY <1>3, <1>4 DEF TracerInv

\* A call of trace() moves one thread, and no other is in such a call.
LEMMA TracerMoves ==
  ASSUME OneTracer, TracerInv, TypeOK', NEW t \in Tracer, NEW label \in Label,
         Goto(t, label), TracerAt(label)',
         label \in {"idle", "clear", "set", "tell"}
  PROVE  TracerInv'
<1>1. t \in Thread
  BY RolesAssumption
<1>2. \A u \in Thread : InTrace(u) => u = t
  BY DEF OneTracer, TracerInv
<1>3. pc'[t] = label /\ \A u \in Thread \ {t} : pc'[u] = pc[u]
  BY <1>1 DEF Goto, TracerInv, TypeOK
<1>4. \A u \in Thread : InTrace(u)' => u = t
  BY <1>2, <1>3 DEF InTrace
<1>5. ASSUME NEW u \in Thread, InTrace(u)'
      PROVE  u \in Tracer /\ TracerAt(pc[u])'
  BY <1>3, <1>4, <1>5 DEF TracerAt
<1>6. ASSUME \A u \in Thread : ~InTrace(u)'
      PROVE  TracerAt("idle")'
  BY <1>1, <1>3, <1>6 DEF InTrace
<1>7. QED
  BY <1>5, <1>6 DEF TracerInv

LEMMA TracerInit == Init => TracerInv
<1> SUFFICES ASSUME Init PROVE TracerInv
  OBVIOUS
<1>1. TypeOK
  BY RowInit DEF RowInv
<1>2. \A t \in Thread : ~InTrace(t)
  BY DEF Init, InTrace
<1>3. TracerAt("idle")
  BY NullAssumption DEF Init, TracerAt
<1>4. QED
  BY <1>1, <1>2, <1>3 DEF TracerInv

LEMMA TracerStep ==
  ASSUME OneTracer, RowInv, TracerInv, [Next]_vars
  PROVE  TracerInv'
<1>1. TypeOK'
  BY RowStep DEF RowInv
<1>2. CASE UNCHANGED vars
  BY <1>1, <1>2, OtherCallsKeepTracers DEF vars, traceVars, InTrace
<1>3. ASSUME NEW t \in Thread,
             \/ \E call \in {"insert", "exec"} : Start(t, call)
             \/ InsertRow(t) \/ TriggerRow(t) \/ TriggerEnd(t)
             \/ InsertEnds(t) \/ ReadRowid(t) \/ Finalize(t) \/ ExecEnds(t) \/ Query(t)
             \/ Errmsg(t) \/ Throw(t) \/ DeadTracer(t)
      PROVE  TracerInv'
  <2>1. /\ UNCHANGED traceVars
        /\ pc[t] \notin {"clear", "set", "tell"}
        /\ \/ UNCHANGED pc
           \/ \E label \in Label \ {"clear", "set", "tell"} : Goto(t, label)
    BY <1>3 DEF Start, InsertRow, TriggerRow, TriggerEnd, InsertEnds, ReadRowid, Finalize,
                ExecEnds, Query, Errmsg, Throw, DeadTracer, At, Running, RowInv, OneRuns, Label
  <2>2. \A u \in Thread : InTrace(u)' <=> InTrace(u)
    BY <2>1 DEF InTrace, Goto, TracerInv, TypeOK
  <2>3. \A u \in Thread : InTrace(u) => pc'[u] = pc[u]
    BY <2>1 DEF InTrace, Goto, TracerInv, TypeOK
  <2>4. QED
    BY <1>1, <2>1, <2>2, <2>3, OtherCallsKeepTracers
<1>4. ASSUME NEW t \in Thread, TraceDelete(t)
      PROVE  TracerInv'
  <2>1. t \in Tracer /\ TracerAt("idle")
    <3>1. t \in Tracer /\ ~InTrace(t)
      BY <1>4 DEF TraceDelete, At, InTrace
    <3>2. \A u \in Thread : ~InTrace(u)
      BY <3>1 DEF OneTracer, TracerInv
    <3>3. QED
      BY <3>1, <3>2 DEF TracerInv
  <2>2. (trace # Null => traceArg = trace) /\ \A r \in Ref : ref[r] = "live" <=> r = trace
    BY <2>1 DEF TracerAt
  <2>3. trace \in Ref \cup {Null} /\ ref \in [Ref -> {"unused", "live", "deleted"}]
    BY DEF TracerInv, TypeOK
  <2>4. CASE trace = Null
    <3>1. Goto(t, "set") /\ UNCHANGED traceVars
      BY <1>4, <2>4 DEF TraceDelete, traceVars
    <3>2. TracerAt("set")'
      BY <2>2, <2>4, <3>1, NullAssumption DEF TracerAt, traceVars
    <3>3. QED
      BY <1>1, <2>1, <3>1, <3>2, TracerMoves DEF Label
  <2>5. CASE trace # Null
    <3>1. Goto(t, "clear") /\ ref' = [ref EXCEPT ![trace] = "deleted"]
          /\ UNCHANGED <<trace, traceArg>>
      BY <1>4, <2>2, <2>3, <2>5 DEF TraceDelete
    <3>2. TracerAt("clear")'
      BY <2>2, <2>3, <2>5, <3>1 DEF TracerAt
    <3>3. QED
      BY <1>1, <2>1, <3>1, <3>2, TracerMoves DEF Label
  <2>6. QED
    BY <2>4, <2>5
<1>5. ASSUME NEW t \in Thread, TraceClear(t)
      PROVE  TracerInv'
  <2>1. t \in Tracer /\ TracerAt("clear")
    BY <1>5 DEF TraceClear, At, InTrace, TracerInv
  <2>2. TracerAt("set")' /\ Goto(t, "set")
    BY <1>5, <2>1 DEF TraceClear, TracerAt
  <2>3. QED
    BY <1>1, <2>1, <2>2, TracerMoves DEF Label
<1>6. ASSUME NEW t \in Thread, NEW r \in Ref, TraceSet(t, r)
      PROVE  TracerInv'
  <2>1. t \in Tracer /\ TracerAt("set")
    BY <1>6 DEF TraceSet, At, InTrace, TracerInv
  <2>2. TracerAt("tell")' /\ Goto(t, "tell")
    BY <1>6, <2>1 DEF TraceSet, TracerAt, TracerInv, TypeOK
  <2>3. QED
    BY <1>1, <2>1, <2>2, TracerMoves DEF Label
<1>7. ASSUME NEW t \in Thread, TraceTell(t)
      PROVE  TracerInv'
  <2>1. t \in Tracer /\ TracerAt("tell")
    BY <1>7 DEF TraceTell, At, InTrace, TracerInv
  <2>2. TracerAt("idle")' /\ Goto(t, "idle")
    BY <1>7, <2>1 DEF TraceTell, TracerAt
  <2>3. QED
    BY <1>1, <2>1, <2>2, TracerMoves DEF Label
<1>8. ASSUME NEW t \in Thread, TraceNone(t)
      PROVE  TracerInv'
  <2>1. t \in Tracer /\ TracerAt("set")
    BY <1>8 DEF TraceNone, At, InTrace, TracerInv
  <2>2. TracerAt("idle")' /\ Goto(t, "idle")
    BY <1>8, <2>1, NullAssumption DEF TraceNone, TracerAt, traceVars
  <2>3. QED
    BY <1>1, <2>1, <2>2, TracerMoves DEF Label
<1>9. QED
  BY <1>2, <1>3, <1>4, <1>5, <1>6, <1>7, <1>8 DEF Next

\* nativeTrace writes the SQLiteDb struct outside the mutex of the connection:
\* if one thread alone calls it, the struct's tracer, where there is one, is
\* SQLite's and alone is live whenever it is not running, whatever other threads do.
THEOREM TracerAlwaysSettled == Spec => [](OneTracer => TracerSettled)
<1> DEFINE Inv == OneTracer => TracerInv
<1>1. Init => Inv
  BY TracerInit
<1>2. RowInv /\ Inv /\ [Next]_vars => Inv'
  BY TracerStep DEF OneTracer
<1>3. Inv => (OneTracer => TracerSettled)
  <2> SUFFICES ASSUME TracerInv, \A t \in Thread : ~InTrace(t)
               PROVE  /\ trace # Null => traceArg = trace
                      /\ {r \in Ref : ref[r] = "live"} = {trace} \ {Null}
    BY DEF TracerSettled
  <2>1. (trace # Null => traceArg = trace) /\ \A r \in Ref : ref[r] = "live" <=> r = trace
    BY DEF TracerInv, TracerAt
  <2>2. trace \in Ref \cup {Null}
    BY DEF TracerInv, TypeOK
  <2>3. \A r : r \in {x \in Ref : ref[x] = "live"} <=> r \in {trace} \ {Null}
    BY <2>1, <2>2, NullAssumption
  <2>4. QED
    BY <2>1, <2>3
<1> HIDE DEF Inv
<1>4. QED
  BY <1>1, <1>2, <1>3, RowInvariance, PTL DEF Spec

=============================================================================
