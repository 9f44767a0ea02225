----------------------- MODULE SqliteStatement_proofs -----------------------
(***************************************************************************)
(* What a statement promises to any client, and that it is the cursor of   *)
(* RowCursor to a client of the for-each discipline.                       *)
(***************************************************************************)
EXTENDS SqliteStatement, SequenceTheorems, TLAPS

\* pResultSet is the row that the execution stands on.
RowIsCurrent ==
  row # NoRow => /\ vdbe = "run" /\ rc = "ok"
                 /\ pos \in DOMAIN Rows[var]
                 /\ row = Rows[var][pos]

\* Nothing was taken from behind the cursor, and an iterator that has announced a row
\* has not taken the one the cursor stands on.
TookBefore ==
  \A i \in Iter : took[i] <= pos /\ (row # NoRow /\ iter[i].hasNext => took[i] < pos)

AnyInv == TypeOK /\ RowIsCurrent /\ TookBefore

LEMMA NothingTyped ==
  ASSUME NothingTaken
  PROVE  /\ got' \in Seq(Row \cup {NoRow}) /\ took' \in [Iter -> Nat]
         /\ \A i \in Iter : took'[i] = 0
<1>1. <<>> \in Seq(Row \cup {NoRow})
  OBVIOUS
<1>2. QED
  BY <1>1 DEF NothingTaken

LEMMA RowsTyped ==
  ASSUME NEW b \in Binding
  PROVE  Rows[b] \in Seq(Row)
BY RowsAssumption

LEMMA UnboundTyped == Unbound \in Binding
BY DEF Unbound, Binding

LEMMA BindingTyped ==
  ASSUME NEW b \in Binding, NEW p \in Param, NEW v \in Value \cup {Nil}
  PROVE  [b EXCEPT ![p] = v] \in Binding
BY DEF Binding

\* The five results of a step keep types and the current row.
LEMMA StepKeeps ==
  ASSUME AnyInv, StepRow \/ StepDone \/ StepBusy \/ StepError \/ CompileError
  PROVE  /\ vdbe' \in {"ready", "run", "halt"} /\ rc' \in {"ok", "busy", "error"}
         /\ var' = var /\ expired' \in BOOLEAN /\ pos' \in Nat
         /\ row' \in Row \cup {NoRow} /\ got' \in Seq(Row \cup {NoRow}) /\ took' \in [Iter -> Nat]
         /\ RowIsCurrent'
         /\ \A i \in Iter : took'[i] <= pos' /\ (row' # NoRow => took'[i] < pos')
<1> USE DEF AnyInv, TypeOK, Arrive, Recompiled
<1>1. Produced \in Nat
  BY DEF Produced
<1>2. Rows[var] \in Seq(Row)
  BY RowsTyped
<1>3. /\ got' \in Seq(Row \cup {NoRow}) /\ took' \in [Iter -> Nat]
      /\ \A i \in Iter : took'[i] <= Produced
  <2>1. CASE Fresh
    <3>1. NothingTaken
      BY <2>1 DEF StepRow, StepDone, StepBusy, StepError, CompileError
    <3>2. QED
      BY <1>1, <3>1, NothingTyped
  <2>2. CASE ~Fresh
    <3>1. got' = got /\ took' = took
      BY <2>2 DEF StepRow, StepDone, StepBusy, StepError, CompileError, takenVars
    <3>2. QED
      BY <2>2, <3>1 DEF Produced, TookBefore
  <2>3. QED
    BY <2>1, <2>2
<1>4. CASE StepRow
  <2>1. Produced + 1 \in 1..Len(Rows[var]) /\ DOMAIN Rows[var] = 1..Len(Rows[var])
    BY <1>1, <1>2, <1>4 DEF StepRow
  <2>2. Rows[var][Produced + 1] \in Row
    BY <1>2, <2>1, ElementOfSeq
  <2>3. \A i \in Iter : took'[i] <= pos' /\ took'[i] < pos'
    BY <1>1, <1>3, <1>4 DEF StepRow
  <2>4. QED
    BY <1>1, <1>3, <1>4, <2>1, <2>2, <2>3 DEF StepRow, RowIsCurrent
<1>5. CASE StepDone
  BY <1>1, <1>3, <1>5 DEF StepDone, RowIsCurrent
<1>6. CASE StepBusy
  BY <1>1, <1>3, <1>6 DEF StepBusy, RowIsCurrent
<1>7. CASE StepError
  BY <1>1, <1>3, <1>7 DEF StepError, RowIsCurrent
<1>8. CASE CompileError
  BY <1>1, <1>3, <1>8 DEF CompileError, RowIsCurrent, Produced
<1>9. QED
  BY <1>4, <1>5, <1>6, <1>7, <1>8

LEMMA AnyInit == Init => AnyInv
<1> SUFFICES ASSUME Init PROVE AnyInv
  OBVIOUS
<1>1. <<>> \in Seq(Row \cup {NoRow})
  OBVIOUS
<1>2. took \in [Iter -> Nat] /\ pos = 0 /\ \A i \in Iter : took[i] = 0
  BY DEF Init
<1>3. TookBefore /\ RowIsCurrent
  BY <1>2 DEF Init, TookBefore, RowIsCurrent
<1>4. iter \in [Iter -> Flags]
  BY DEF Init, Flags
<1>5. TypeOK
  <2>1. /\ vdbe \in {"ready", "run", "halt", "freed"} /\ rc \in {"ok", "busy", "error"}
        /\ expired \in BOOLEAN /\ row \in Row \cup {NoRow} /\ cur \in Iter \cup {Nil}
    BY DEF Init
  <2>2. var \in Binding /\ asked \in Binding /\ pos \in Nat /\ got \in Seq(Row \cup {NoRow})
    BY <1>1, UnboundTyped DEF Init
  <2>3. QED
    BY <1>2, <1>4, <2>1, <2>2 DEF TypeOK
<1>6. QED
  BY <1>3, <1>5 DEF AnyInv

\* What leaves the execution keeps the invariant if it keeps the types.
LEMMA LeaveKeeps ==
  ASSUME AnyInv, row' = NoRow, pos' \in Nat, NothingTaken
  PROVE  RowIsCurrent' /\ TookBefore'
BY NothingTyped DEF RowIsCurrent, TookBefore

LEMMA AnyStep ==
  ASSUME AnyInv, [Next]_vars
  PROVE  AnyInv'
<1>1. CASE UNCHANGED vars
  BY <1>1 DEF vars, AnyInv, TypeOK, RowIsCurrent, TookBefore
<1>2. ASSUME NEW p \in Param, NEW v \in Value \cup {Nil}, Bind(p, v)
      PROVE  AnyInv'
  <2>1. var' \in Binding /\ asked' \in Binding
    BY <1>2, BindingTyped DEF Bind, AnyInv, TypeOK
  <2>2. row = NoRow
    BY <1>2 DEF Bind, AnyInv, RowIsCurrent
  <2>3. QED
    BY <1>2, <2>1, <2>2 DEF Bind, MayExpire, takenVars, AnyInv, TypeOK, RowIsCurrent, TookBefore
<1>3. ASSUME NEW p \in Param, BindNullArg(p)
      PROVE  AnyInv'
  <2>1. asked' \in Binding
    BY <1>3, BindingTyped DEF BindNullArg, AnyInv, TypeOK
  <2>2. QED
    BY <1>3, <2>1 DEF BindNullArg, vdbeVars, takenVars, AnyInv, TypeOK, RowIsCurrent, TookBefore
<1>4. CASE ClearBindings
  <2>1. RowIsCurrent' /\ TookBefore'
    BY <1>4, LeaveKeeps DEF ClearBindings
  <2>2. QED
    BY <1>4, <2>1, UnboundTyped, NothingTyped DEF ClearBindings, MayExpire, AnyInv, TypeOK
<1>5. CASE Insert
  <2>1. CASE StepDone
    <3>1. TookBefore'
      BY <1>5, <2>1, StepKeeps DEF Insert, TookBefore, StepDone, Arrive
    <3>2. QED
      BY <1>5, <2>1, <3>1, StepKeeps DEF Insert, AnyInv, TypeOK
  <2>2. CASE vdbe' = "freed"
    <3>1. /\ rc' \in {"ok", "busy", "error"} /\ row' = NoRow /\ NothingTaken /\ cur' = Nil
          /\ UNCHANGED <<var, expired, pos, iter, asked>>
      BY <1>5, <2>2 DEF Insert, StepDone, Arrive
    <3>2. RowIsCurrent' /\ TookBefore'
      BY <3>1, LeaveKeeps DEF AnyInv, TypeOK
    <3>3. QED
      BY <2>2, <3>1, <3>2, NothingTyped, NilAssumption DEF AnyInv, TypeOK
  <2>3. QED
    BY <1>5, <2>1, <2>2 DEF Insert
<1>6. CASE Close
  <2>1. RowIsCurrent' /\ TookBefore'
    BY <1>6, LeaveKeeps DEF Close, AnyInv, TypeOK
  <2>2. QED
    BY <1>6, <2>1, NothingTyped DEF Close, AnyInv, TypeOK
<1>7. CASE Expire
  BY <1>7 DEF Expire, takenVars, AnyInv, TypeOK, RowIsCurrent, TookBefore
<1>8. ASSUME NEW i \in Iter, Select(i)
      PROVE  AnyInv'
  <2>1. cur' \in Iter \cup {Nil} /\ iter' \in [Iter -> Flags]
    BY <1>8 DEF Select, AnyInv, TypeOK, Flags
  <2>2. CASE vdbe = "run"
    <3>1. RowIsCurrent' /\ TookBefore'
      BY <1>8, <2>2, LeaveKeeps DEF Select, ResetVdbe
    <3>2. QED
      BY <1>8, <2>1, <2>2, <3>1, NothingTyped DEF Select, ResetVdbe, AnyInv, TypeOK
  <2>3. CASE vdbe # "run"
    <3>1. UNCHANGED <<vdbe, rc, expired, pos, row, got, took, var, asked>>
      BY <1>8, <2>3 DEF Select, NotItsOwn, vdbeVars
    <3>2. row = NoRow
      BY <2>3 DEF AnyInv, RowIsCurrent
    <3>3. QED
      BY <2>1, <3>1, <3>2 DEF AnyInv, TypeOK, RowIsCurrent, TookBefore
  <2>4. QED
    BY <2>2, <2>3
<1>9. ASSUME NEW i \in Iter, HasNext(i)
      PROVE  AnyInv'
  <2>1. PICK h \in BOOLEAN, d \in BOOLEAN : SetFlags(i, h, d)
    BY <1>9 DEF HasNext
  <2>2. iter \in [Iter -> Flags]
    BY DEF AnyInv, TypeOK
  <2>3. iter' \in [Iter -> Flags]
    BY <2>1, <2>2 DEF SetFlags, Flags
  <2>4. TookBefore'
    BY <1>9, StepKeeps DEF HasNext, TookBefore
  <2>5. QED
    BY <1>9, <2>3, <2>4, StepKeeps DEF HasNext, AnyInv, TypeOK
<1>10. ASSUME NEW i \in Iter, NextRow(i)
       PROVE  AnyInv'
  <2>1. iter' \in [Iter -> Flags]
    BY <1>10 DEF NextRow, SetFlags, AnyInv, TypeOK, Flags
  <2>2. got' \in Seq(Row \cup {NoRow})
    BY <1>10, AppendProperties DEF NextRow, Columns, AnyInv, TypeOK
  <2>3. took' \in [Iter -> Nat] /\ pos' = pos /\ row' = row
    BY <1>10 DEF NextRow, vdbeVars, AnyInv, TypeOK
  <2>4. TookBefore'
    <3>1. SUFFICES ASSUME NEW j \in Iter
                   PROVE  took'[j] <= pos /\ (row # NoRow /\ iter'[j].hasNext => took'[j] < pos)
      BY <2>3 DEF TookBefore
    <3>2. CASE j = i
      <4>1. iter'[i].hasNext = FALSE
        BY <1>10 DEF NextRow, SetFlags, AnyInv, TypeOK, Flags
      <4>2. took'[i] = pos /\ pos \in Nat
        BY <1>10 DEF NextRow, AnyInv, TypeOK
      <4>3. QED
        BY <3>2, <4>1, <4>2
    <3>3. CASE j # i
      BY <1>10, <3>3 DEF NextRow, SetFlags, AnyInv, TypeOK, TookBefore
    <3>4. QED
      BY <3>2, <3>3
  <2>5. QED
    BY <1>10, <2>1, <2>2, <2>3, <2>4 DEF NextRow, vdbeVars, AnyInv, TypeOK, RowIsCurrent
<1>11. QED
  BY <1>1, <1>2, <1>3, <1>4, <1>5, <1>6, <1>7, <1>8, <1>9, <1>10 DEF Next

LEMMA AnyInvariance == Spec => []AnyInv
BY AnyInit, AnyStep, PTL DEF Spec

\* The statement keeps its types whatever the client does.
THEOREM TypeCorrect == Spec => []TypeOK
<1>1. AnyInv => TypeOK
  BY DEF AnyInv
<1>2. QED
  BY <1>1, AnyInvariance, PTL

\* Whatever order a client calls in and however many iterators it keeps, next() hands
\* out no row of an execution before its select(), and none twice (SQLiteStmt.select,
\* RowIterator.hasNext and next, nativeGetColumn*).
THEOREM RowsAlwaysForward == Spec => []RowsForward
<1>1. AnyInv => RowsForward
  BY DEF AnyInv, RowIsCurrent, TookBefore, RowsForward
<1>2. QED
  BY <1>1, AnyInvariance, PTL

\* No call of any client changes the bindings of an execution (nativeBind*,
\* nativeClearBindings, sqlite3Reprepare).
THEOREM BindingsStayFrozen == Spec => BindingsFrozen
<1>1. [Next]_vars => [{vdbe, vdbe'} \subseteq {"run", "halt"} => var' = var]_vars
  <2> SUFFICES ASSUME Next, vdbe \in {"run", "halt"}, vdbe' \in {"run", "halt"}
               PROVE  var' = var
    OBVIOUS
  <2>1. \A p \in Param, v \in Value \cup {Nil} : ~Bind(p, v)
    BY DEF Bind
  <2>2. ~ClearBindings
    BY DEF ClearBindings
  <2>3. QED
    BY <2>1, <2>2 DEF Next, BindNullArg, Insert, Close, Expire, Select, HasNext, NextRow, StepRow,
       StepDone, StepBusy, StepError, CompileError, Recompiled
<1>2. QED
  BY <1>1, PTL DEF Spec, BindingsFrozen

-----------------------------------------------------------------------------
(* Parameters.                                                             *)

LEMMA BoundStep ==
  ASSUME "nullArg" \notin Loose, AnyInv, BoundAsAsked, [Next]_vars
  PROVE  BoundAsAsked'
<1>1. CASE UNCHANGED vars
  BY <1>1 DEF vars, BoundAsAsked
<1>2. ASSUME NEW p \in Param, NEW v \in Value \cup {Nil}, Bind(p, v)
      PROVE  BoundAsAsked'
  BY <1>2 DEF Bind, BoundAsAsked
<1>3. ASSUME NEW p \in Param, BindNullArg(p)
      PROVE  BoundAsAsked'
  BY <1>3 DEF BindNullArg
<1>4. CASE ClearBindings
  BY <1>4 DEF ClearBindings, BoundAsAsked
<1>5. CASE Insert
  BY <1>5, StepKeeps DEF Insert, BoundAsAsked
<1>6. CASE Close \/ Expire
  BY <1>6 DEF Close, Expire, BoundAsAsked
<1>7. ASSUME NEW i \in Iter, Select(i) \/ NextRow(i)
      PROVE  BoundAsAsked'
  BY <1>7 DEF Select, NextRow, vdbeVars, BoundAsAsked
<1>8. ASSUME NEW i \in Iter, HasNext(i)
      PROVE  BoundAsAsked'
  BY <1>8, StepKeeps DEF HasNext, BoundAsAsked
<1>9. QED
  BY <1>1, <1>2, <1>3, <1>4, <1>5, <1>6, <1>7, <1>8 DEF Next

\* For a client that passes no null to bindString or bindBlob, the parameters hold
\* what was asked, whatever fails, is reset or compiled again (nativeBind*,
\* nativeClearBindings, sqlite3Reprepare).
THEOREM BoundAlwaysAsAsked ==
  ASSUME "nullArg" \notin Loose
  PROVE  Spec => []BoundAsAsked
<1> DEFINE Inv == AnyInv /\ BoundAsAsked
<1>1. Init => Inv
  BY AnyInit DEF Init, BoundAsAsked
<1>2. Inv /\ [Next]_vars => Inv'
  BY AnyStep, BoundStep
<1>3. Inv => BoundAsAsked
  OBVIOUS
<1> HIDE DEF Inv
<1>4. QED
  BY <1>1, <1>2, <1>3, PTL DEF Spec

-----------------------------------------------------------------------------
(* The for-each discipline.                                                *)

\* The rows taken are the first ones of the result.
Taken ==
  /\ Len(got) <= Len(Rows[var])
  /\ \A k \in 1..Len(got) : got[k] = Rows[var][k]

\* The cursor stands on the last row taken, or on the next one once that is
\* announced; only the iterator in use has announced anything.
Place ==
  /\ vdbe \in {"run", "halt"} => Taken
  /\ vdbe = "run" =>
       /\ cur # Nil
       /\ ~iter[cur].hasNext => pos = Len(got)
  /\ vdbe = "halt" /\ rc = "ok" => Len(got) = Len(Rows[var])
  /\ cur # Nil /\ iter[cur].hasNext =>
       /\ vdbe = "run" /\ pos = Len(got) + 1
       /\ pos <= Len(Rows[var]) /\ row = Rows[var][pos]
  /\ cur # Nil /\ iter[cur].done => vdbe = "halt" /\ rc = "ok"

Fits == vdbe # "freed" => Place

Unused == \A i \in Iter : ~iter[i].made => ~iter[i].hasNext /\ ~iter[i].done

EachInv == AnyInv /\ BoundAsAsked /\ Fits /\ Unused

\* A result is known by its rows.
LEMMA AllTaken ==
  ASSUME EachInv, vdbe \in {"run", "halt"}, Len(got) = Len(Rows[var])
  PROVE  got = Rows[var]
<1>1. Rows[var] \in Seq(Row \cup {NoRow})
  BY RowsTyped, SeqMonotonic DEF EachInv, AnyInv, TypeOK
<1>2. \A k \in 1..Len(got) : got[k] = Rows[var][k]
  BY DEF EachInv, Fits, Place, Taken
<1>3. QED
  BY <1>1, <1>2, SeqEqual, Zenon DEF EachInv, AnyInv, TypeOK

\* Where a step of the iterator in use, or of insert(), starts from.
LEMMA Ahead ==
  ASSUME EachInv, vdbe # "freed", vdbe = "run" => ~iter[cur].hasNext
  PROVE  /\ Produced \in Nat /\ Rows[var] \in Seq(Row)
         /\ ~Fresh => Produced = Len(got) /\ Taken
         /\ Len(<<>>) = 0 /\ Len(Rows[var]) \in Nat /\ Len(got) \in Nat
BY RowsTyped, LenProperties, EmptySeq
DEF EachInv, AnyInv, TypeOK, Fits, Place, Produced, Fresh

LEMMA StepTaken ==
  ASSUME EachInv, vdbe # "freed", vdbe = "run" => ~iter[cur].hasNext,
         StepRow \/ StepDone \/ StepBusy \/ StepError
  PROVE  /\ Taken' /\ Len(got') \in Nat
         /\ Len(got') = Produced \/ (StepError /\ vdbe' = "halt" /\ rc' = "error")
<1>1. var' = var
  BY StepKeeps DEF EachInv
<1>2. got' = IF Fresh THEN <<>> ELSE got
  BY DEF NothingTaken, takenVars, StepRow, StepDone, StepBusy, StepError, Arrive
<1>3. StepError => vdbe' = "halt" /\ rc' = "error"
  BY DEF StepError, Arrive
<1>4. CASE Fresh
  BY <1>1, <1>2, <1>3, <1>4, Ahead DEF Taken, Produced
<1>5. CASE ~Fresh
  BY <1>1, <1>2, <1>3, <1>5, Ahead DEF Taken
<1>6. QED
  BY <1>4, <1>5

LEMMA EachInit == Init => EachInv
<1> SUFFICES ASSUME Init PROVE EachInv
  OBVIOUS
<1>1. Fits /\ Unused
  BY DEF Init, Fits, Place, Unused
<1>2. QED
  BY <1>1, AnyInit DEF EachInv, Init, BoundAsAsked

LEMMA EachStep ==
  ASSUME Loose = {}, EachInv, [Next]_vars
  PROVE  EachInv'
<1>0. AnyInv' /\ BoundAsAsked'
  BY AnyStep, BoundStep DEF EachInv
<1> SUFFICES Fits' /\ Unused'
  BY <1>0 DEF EachInv
<1>1. CASE UNCHANGED vars
  BY <1>1 DEF vars, EachInv, Fits, Place, Taken, Unused
<1>2. ASSUME NEW p \in Param, NEW v \in Value \cup {Nil}, Bind(p, v)
      PROVE  Fits' /\ Unused'
  <2>1. UNCHANGED <<vdbe, rc, pos, row, iter, cur, got>> /\ vdbe = "ready"
    BY <1>2 DEF NothingTaken, takenVars, Bind
  <2>2. QED
    BY <2>1 DEF EachInv, Fits, Place, Unused
<1>3. ASSUME NEW p \in Param, BindNullArg(p)
      PROVE  Fits' /\ Unused'
  BY <1>3 DEF BindNullArg
<1>4. CASE ClearBindings
  <2>1. UNCHANGED iter /\ vdbe' = "ready" /\ cur' = Nil
    BY <1>4 DEF ClearBindings
  <2>2. QED
    BY <2>1 DEF EachInv, Fits, Place, Unused
<1>5. CASE Insert
  <2>1. Unused'
    BY <1>5 DEF Insert, EachInv, Unused
  <2>2. CASE StepDone
    <3>1. vdbe = "run" => ~iter[cur].hasNext
      BY <1>5 DEF Insert, EachInv, Fits, Place
    <3>2. var' = var
      BY <2>2, StepKeeps DEF EachInv
    <3>3. Taken' /\ Len(got') = Len(Rows[var'])
      BY <1>5, <2>2, <3>1, <3>2, StepTaken DEF Insert, StepDone, Arrive
    <3>4. vdbe' = "halt" /\ cur' = Nil
      BY <1>5, <2>2 DEF Insert, StepDone, Arrive
    <3>5. QED
      BY <2>1, <3>2, <3>3, <3>4 DEF Fits, Place
  <2>3. CASE vdbe' = "freed"
    BY <2>1, <2>3 DEF Fits
  <2>4. QED
    BY <1>5, <2>2, <2>3 DEF Insert
<1>6. CASE Close
  BY <1>6 DEF Close, EachInv, Fits, Unused
<1>7. CASE Expire
  BY <1>7 DEF NothingTaken, takenVars, Expire, EachInv, Fits, Place, Taken, Unused
<1>8. ASSUME NEW i \in Iter, Select(i)
      PROVE  Fits' /\ Unused'
  <2>1. ~iter[i].hasNext /\ ~iter[i].done /\ iter[i] \in Flags
    BY <1>8 DEF Select, EachInv, Unused, AnyInv, TypeOK
  <2>2. var' = var /\ vdbe # "freed" /\ cur' \in {i, Nil}
    BY <1>8 DEF Select
  <2>3. /\ \A j \in Iter : iter'[j].hasNext = iter[j].hasNext /\ iter'[j].done = iter[j].done
        /\ Unused'
    <3>1. CASE UNCHANGED iter
      BY <3>1 DEF EachInv, Unused
    <3>2. CASE iter' = [iter EXCEPT ![i].made = TRUE]
      <4>1. /\ \A j \in Iter \ {i} : iter'[j] = iter[j]
            /\ iter'[i].hasNext = iter[i].hasNext /\ iter'[i].done = iter[i].done
        BY <3>2 DEF EachInv, AnyInv, TypeOK, Flags
      <4>2. QED
        BY <2>1, <4>1 DEF EachInv, Unused
    <3>3. QED
      BY <1>8, <3>1, <3>2 DEF Select
  <2>4. CASE vdbe = "run"
    BY <1>8, <2>1, <2>2, <2>3, <2>4 DEF Select, ResetVdbe, EachInv, Fits, Place
  <2>5. CASE vdbe # "run"
    <3>1. UNCHANGED <<vdbe, rc, pos, row, got>>
      BY <1>8, <2>5 DEF Select, vdbeVars
    <3>2. QED
      BY <2>1, <2>2, <2>3, <2>5, <3>1 DEF EachInv, Fits, Place, Taken
  <2>6. QED
    BY <2>4, <2>5
<1>9. ASSUME NEW i \in Iter, HasNext(i)
      PROVE  Fits' /\ Unused'
  <2>1. i = cur /\ cur # Nil /\ cur' = cur /\ vdbe # "freed"
    BY <1>9, NilAssumption DEF HasNext, Uses
  <2>2. ~iter[cur].hasNext /\ iter[cur].made /\ iter[cur] \in Flags
    BY <1>9, <2>1 DEF HasNext, Uses, EachInv, AnyInv, TypeOK
  <2>3. ASSUME NEW h \in BOOLEAN, NEW d \in BOOLEAN, SetFlags(i, h, d)
        PROVE  iter'[cur].hasNext = h /\ iter'[cur].done = d /\ Unused'
    <3>1. /\ \A j \in Iter \ {i} : iter'[j] = iter[j]
          /\ iter'[i].hasNext = h /\ iter'[i].done = d /\ iter'[i].made
      BY <2>1, <2>2, <2>3 DEF SetFlags, EachInv, AnyInv, TypeOK, Flags
    <3>2. QED
      BY <2>1, <3>1 DEF EachInv, Unused
  <2>4. var' = var
    BY <1>9, StepKeeps DEF HasNext, EachInv
  <2>5. CASE StepRow /\ SetFlags(i, TRUE, FALSE)
    <3>1. Taken' /\ Len(got') = Produced
      BY <2>1, <2>2, <2>5, StepTaken DEF StepRow, StepError, Arrive
    <3>2. /\ vdbe' = "run" /\ pos' = Produced + 1
          /\ row' = Rows[var][Produced + 1] /\ Produced < Len(Rows[var])
      BY <2>5 DEF StepRow, Arrive
    <3>3. Produced + 1 <= Len(Rows[var])
      BY <2>1, <2>2, <3>2, Ahead
    <3>4. QED
      BY <2>1, <2>3, <2>4, <2>5, <3>1, <3>2, <3>3 DEF Fits, Place
  <2>6. CASE StepDone /\ SetFlags(i, FALSE, TRUE)
    <3>1. Taken' /\ Len(got') = Produced
      BY <2>1, <2>2, <2>6, StepTaken DEF StepDone, StepError, Arrive
    <3>2. vdbe' = "halt" /\ rc' = "ok" /\ Produced = Len(Rows[var])
      BY <2>6 DEF StepDone, Arrive
    <3>3. QED
      BY <2>1, <2>3, <2>4, <2>6, <3>1, <3>2 DEF Fits, Place
  <2>7. CASE StepBusy /\ SetFlags(i, FALSE, FALSE)
    <3>1. Taken' /\ Len(got') = Produced
      BY <2>1, <2>2, <2>7, StepTaken DEF StepBusy, StepError, Arrive
    <3>2. vdbe' = "run" /\ pos' = Produced
      BY <2>7 DEF StepBusy, Arrive
    <3>3. QED
      BY <2>1, <2>3, <2>4, <2>7, <3>1, <3>2 DEF Fits, Place
  <2>8. CASE StepError /\ SetFlags(i, FALSE, FALSE)
    <3>1. Taken'
      BY <2>1, <2>2, <2>8, StepTaken
    <3>2. vdbe' = "halt" /\ rc' = "error"
      BY <2>8 DEF StepError, Arrive
    <3>3. QED
      BY <2>1, <2>3, <2>4, <2>8, <3>1, <3>2 DEF Fits, Place
  <2>9. CASE CompileError /\ SetFlags(i, FALSE, FALSE)
    <3>1. vdbe' = "ready"
      BY <2>9 DEF CompileError, Arrive
    <3>2. QED
      BY <2>1, <2>3, <2>4, <2>9, <3>1 DEF Fits, Place
  <2>10. QED
    BY <1>9, <2>5, <2>6, <2>7, <2>8, <2>9 DEF HasNext
<1>10. ASSUME NEW i \in Iter, NextRow(i)
       PROVE  Fits' /\ Unused'
  <2>1. /\ i = cur /\ cur # Nil /\ vdbe # "freed" /\ iter[cur].made
        /\ iter[cur].hasNext /\ iter[cur] \in Flags
        /\ UNCHANGED <<vdbe, rc, expired, pos, row, var, cur>>
    BY <1>10, NilAssumption DEF NextRow, Uses, vdbeVars, EachInv, AnyInv, TypeOK
  <2>2. /\ vdbe = "run" /\ pos = Len(got) + 1 /\ pos <= Len(Rows[var])
        /\ row = Rows[var][pos] /\ Taken
    BY <2>1 DEF EachInv, Fits, Place
  <2>3. /\ Len(got') = Len(got) + 1 /\ got'[Len(got) + 1] = row
        /\ \A k \in 1..Len(got) : got'[k] = got[k]
        /\ Len(got) \in Nat
    BY <1>10, AppendProperties, LenProperties DEF NextRow, Columns, EachInv, AnyInv, TypeOK
  <2>4. Taken'
    BY <2>1, <2>2, <2>3 DEF Taken
  <2>5. /\ \A j \in Iter \ {i} : iter'[j] = iter[j]
        /\ ~iter'[i].hasNext /\ iter'[i].done = iter[i].done /\ iter'[i].made
    BY <1>10, <2>1 DEF NextRow, SetFlags, EachInv, AnyInv, TypeOK, Flags
  <2>6. Unused'
    BY <2>1, <2>5 DEF EachInv, Unused
  <2>7. Place'
    BY <2>1, <2>2, <2>3, <2>4, <2>5 DEF EachInv, Fits, Place
  <2>8. QED
    BY <2>1, <2>6, <2>7 DEF EachInv, Fits
<1>11. QED
  BY <1>1, <1>2, <1>3, <1>4, <1>5, <1>6, <1>7, <1>8, <1>9, <1>10 DEF Next

LEMMA EachInvariance ==
  ASSUME Loose = {}
  PROVE  Spec => []EachInv
<1>1. EachInv /\ [Next]_vars => EachInv'
  BY EachStep
<1>2. QED
  BY <1>1, EachInit, PTL DEF Spec

\* For a client that calls hasNext() and next() in turn, what an iterator says is
\* what its statement is at, and the end is never said too early.
THEOREM CursorAlwaysAgrees ==
  ASSUME Loose = {}
  PROVE  Spec => []CursorAgreement
<1>1. EachInv => CursorAgreement
  BY AllTaken DEF EachInv, Fits, Place, CursorAgreement
<1>2. QED
  BY <1>1, EachInvariance, PTL

-----------------------------------------------------------------------------
(* The statement is a RowCursor.                                           *)

LEMMA CursorInit == Init => Cursor!Init
BY DEF Init, Unbound, Cursor!Init

LEMMA EndOfQuery ==
  ASSUME EachInv, EachInv', vdbe # "freed", asked' = asked, StepDone,
         vdbe = "run" => ~iter[cur].hasNext
  PROVE  Cursor!Query \/ Cursor!End
<1>1. /\ var' = var /\ var = asked /\ var' = asked'
      /\ vdbe \in {"ready", "run", "halt"} /\ rc \in {"ok", "busy", "error"}
  BY StepKeeps DEF EachInv, AnyInv, TypeOK, BoundAsAsked
<1>2. /\ vdbe' = "halt" /\ rc' = "ok" /\ Produced = Len(Rows[var])
      /\ got' = IF Fresh THEN <<>> ELSE got
  BY DEF NothingTaken, takenVars, StepDone, Arrive
<1>3. CASE Fresh
  <2>1. Rows[var] = <<>>
    BY <1>2, <1>3, RowsTyped, EmptySeq DEF Produced, EachInv, AnyInv, TypeOK
  <2>2. QED
    BY <1>1, <1>2, <1>3, <2>1 DEF Fresh, Cursor!Query
<1>4. CASE ~Fresh
  <2>1. Len(got) = Len(Rows[var])
    BY <1>2, <1>4, Ahead
  <2>2. got = Rows[var]
    BY <1>4, <2>1, AllTaken DEF Fresh
  <2>3. QED
    BY <1>1, <1>2, <1>4, <2>2 DEF Fresh, Cursor!End
<1>5. QED
  BY <1>3, <1>4

LEMMA CursorStep ==
  ASSUME Loose = {}, EachInv, EachInv', [Next]_vars
  PROVE  [Cursor!Next]_(Cursor!cursor)
<1>0. /\ vdbe \in {"ready", "run", "halt", "freed"} /\ rc \in {"ok", "busy", "error"}
      /\ vdbe # "freed" => var = asked
      /\ vdbe' # "freed" => var' = asked'
  BY DEF EachInv, AnyInv, TypeOK, BoundAsAsked
<1>1. CASE UNCHANGED vars
  BY <1>1 DEF vars, Cursor!cursor
<1>2. ASSUME NEW p \in Param, NEW v \in Value \cup {Nil}, Bind(p, v)
      PROVE  Cursor!Next
  BY <1>2 DEF NothingTaken, takenVars, Bind, Cursor!Bind, Cursor!Next
<1>3. ASSUME NEW p \in Param, BindNullArg(p)
      PROVE  Cursor!Next
  BY <1>3 DEF BindNullArg
<1>4. CASE ClearBindings
  BY <1>0, <1>4 DEF NothingTaken, takenVars, ClearBindings, Unbound, Cursor!Leave, Cursor!Next
<1>5. CASE Insert
  <2>1. CASE StepDone
    BY <1>5, <2>1, EndOfQuery DEF Insert, EachInv, Fits, Place, Cursor!Next
  <2>2. CASE vdbe' = "freed" /\ got' = <<>>
    BY <1>0, <1>5, <2>2 DEF NothingTaken, Insert, Cursor!Close, Cursor!Next
  <2>3. QED
    BY <1>5, <2>1, <2>2 DEF Insert, NothingTaken
<1>6. CASE Close
  BY <1>0, <1>6 DEF NothingTaken, takenVars, Close, Cursor!Close, Cursor!Next
<1>7. CASE Expire
  BY <1>7 DEF NothingTaken, takenVars, Expire, Cursor!cursor
<1>8. ASSUME NEW i \in Iter, Select(i)
      PROVE  [Cursor!Next]_(Cursor!cursor)
  <2>1. CASE vdbe = "run"
    BY <1>8, <2>1 DEF NothingTaken, takenVars, Select, ResetVdbe, Cursor!Leave, Cursor!Next
  <2>2. CASE vdbe # "run"
    BY <1>8, <2>2 DEF Select, vdbeVars, Cursor!cursor
  <2>3. QED
    BY <2>1, <2>2
<1>9. ASSUME NEW i \in Iter, HasNext(i)
      PROVE  [Cursor!Next]_(Cursor!cursor)
  <2>1. /\ i = cur /\ vdbe # "freed" /\ asked' = asked /\ ~iter[cur].hasNext
        /\ StepRow \/ StepDone \/ StepBusy \/ StepError \/ CompileError
    BY <1>9 DEF HasNext, Uses
  <2>2. var' = var /\ var = asked
    BY <1>0, <2>1, StepKeeps DEF EachInv
  <2>3. CASE StepRow \/ StepBusy
    <3>1. vdbe' = "run" /\ got' = IF Fresh THEN <<>> ELSE got
      BY <2>3 DEF NothingTaken, takenVars, StepRow, StepBusy, Arrive
    <3>2. CASE Fresh
      BY <1>0, <2>1, <2>2, <3>1, <3>2 DEF Fresh, Cursor!Query, Cursor!Next
    <3>3. CASE ~Fresh
      BY <2>1, <2>2, <3>1, <3>3 DEF Fresh, Cursor!cursor
    <3>4. QED
      BY <3>2, <3>3
  <2>4. CASE StepDone
    BY <2>1, <2>4, EndOfQuery DEF Cursor!Next
  <2>5. CASE StepError
    <3>1. vdbe' = "halt" /\ rc' = "error" /\ got' = IF Fresh THEN <<>> ELSE got
      BY <2>5 DEF NothingTaken, takenVars, StepError, Arrive
    <3>2. CASE Fresh
      BY <1>0, <2>1, <2>2, <3>1, <3>2 DEF Fresh, Cursor!Query, Cursor!Next
    <3>3. CASE ~Fresh
      BY <2>1, <2>2, <3>1, <3>3 DEF Fresh, Cursor!Fail, Cursor!Next
    <3>4. QED
      BY <3>2, <3>3
  <2>6. CASE CompileError
    <3>1. vdbe' = "ready" /\ got' = <<>>
      BY <2>6 DEF NothingTaken, takenVars, CompileError, Arrive
    <3>2. QED
      BY <1>0, <2>1, <3>1 DEF Cursor!Leave, Cursor!Next
  <2>7. QED
    BY <2>1, <2>3, <2>4, <2>5, <2>6
<1>10. ASSUME NEW i \in Iter, NextRow(i)
       PROVE  Cursor!Next
  <2>1. /\ i = cur /\ cur # Nil /\ vdbe # "freed" /\ iter[cur].hasNext
        /\ got' = Append(got, row) /\ UNCHANGED <<vdbe, rc, var, asked>>
    BY <1>10, NilAssumption DEF NextRow, Uses, vdbeVars, Columns
  <2>2. /\ vdbe = "run" /\ row = Rows[var][Len(got) + 1]
        /\ Len(got) < Len(Rows[var])
    BY <2>1, RowsTyped, LenProperties DEF EachInv, Fits, Place, Taken, AnyInv, TypeOK
  <2>3. QED
    BY <2>1, <2>2 DEF Cursor!Take, Cursor!Next
<1>11. QED
  BY <1>1, <1>2, <1>3, <1>4, <1>5, <1>6, <1>7, <1>8, <1>9, <1>10 DEF Next

\* To a client of the for-each discipline the statement with its iterators is a
\* RowCursor: each step of SQLiteStmt, RowIterator or SQLite is one of its steps or
\* none.
THEOREM StatementIsCursor ==
  ASSUME Loose = {}
  PROVE  Spec => RefinesCursor
<1>1. EachInv /\ EachInv' /\ [Next]_vars => [Cursor!Next]_(Cursor!cursor)
  BY CursorStep
<1>2. QED
  BY <1>1, CursorInit, EachInvariance, PTL DEF Spec, RefinesCursor, Cursor!Spec

=============================================================================
