---------------------- MODULE SqliteConnection_proofs ----------------------
(***************************************************************************)
(* Safety of one connection for any number of statements, references,      *)
(* names and nested calls, and for any client.                             *)
(***************************************************************************)
EXTENDS SqliteConnection, SequenceTheorems, TLAPS

-----------------------------------------------------------------------------
(* The stack of native calls: a push, a pop and a change of the top frame  *)
(* keep the other frames where they are.                                   *)

\* Enter pushes one frame above the calls in progress.
LEMMA PushFrame ==
  ASSUME NEW st \in Seq(Frame), NEW f \in Frame
  PROVE  /\ Append(st, f) \in Seq(Frame)
         /\ Len(Append(st, f)) = Len(st) + 1
         /\ \A i \in 1..Len(st) : Append(st, f)[i] = st[i]
         /\ Append(st, f)[Len(st) + 1] = f
OBVIOUS

\* A call that returns leaves the calls below it as they are.
LEMMA PopFrame ==
  ASSUME NEW st \in Seq(Frame), st # <<>>
  PROVE  /\ SubSeq(st, 1, Len(st) - 1) \in Seq(Frame)
         /\ Len(SubSeq(st, 1, Len(st) - 1)) = Len(st) - 1
         /\ \A i \in 1..(Len(st) - 1) : SubSeq(st, 1, Len(st) - 1)[i] = st[i]
<1> DEFINE n == Len(st) - 1
<1>1. n \in Int /\ 1 \in Int
  OBVIOUS
<1>2. \A i \in 1..n : st[i] \in Frame
  OBVIOUS
<1>3. n \in Nat
  OBVIOUS
<1> HIDE DEF n
<1>4. /\ SubSeq(st, 1, n) \in Seq(Frame)
      /\ Len(SubSeq(st, 1, n)) = IF 1 <= n THEN n - 1 + 1 ELSE 0
      /\ \A i \in 1..(n - 1 + 1) : SubSeq(st, 1, n)[i] = st[1 + i - 1]
  BY <1>1, <1>2, SubSeqProperties, SMTT(60)
<1>5. /\ Len(SubSeq(st, 1, n)) = n
      /\ \A i \in 1..n : SubSeq(st, 1, n)[i] = st[i]
  BY <1>3, <1>4
<1>6. QED
  BY <1>4, <1>5 DEF n

\* A callback changes the innermost call only.
LEMMA ChangeTop ==
  ASSUME NEW st \in Seq(Frame), st # <<>>, NEW f \in Frame
  PROVE  /\ [st EXCEPT ![Len(st)] = f] \in Seq(Frame)
         /\ Len([st EXCEPT ![Len(st)] = f]) = Len(st)
         /\ \A i \in 1..Len(st) :
              [st EXCEPT ![Len(st)] = f][i] = IF i = Len(st) THEN f ELSE st[i]
OBVIOUS

\* The calls in progress are frames.
LEMMA StackFrames ==
  ASSUME TypeOK
  PROVE  /\ Len(stack) \in Nat
         /\ DOMAIN stack = 1..Len(stack)
         /\ \A i \in 1..Len(stack) : stack[i] \in Frame /\ stack[i].stmt \in Stmt
         /\ stack # <<>> => /\ Len(stack) \in 1..Len(stack)
                            /\ Top \in Frame /\ Top.stmt \in Stmt
<1>1. stack \in Seq(Frame)
  BY DEF TypeOK
<1>2. /\ Len(stack) \in Nat
      /\ DOMAIN stack = 1..Len(stack)
      /\ stack # <<>> => Len(stack) \in 1..Len(stack)
  BY <1>1
<1>3. \A i \in 1..Len(stack) : stack[i] \in Frame
  BY <1>1, ElementOfSeq
<1>4. \A f \in Frame : f.stmt \in Stmt
  BY DEF Frame
<1>5. QED
  BY <1>2, <1>3, <1>4 DEF Top

-----------------------------------------------------------------------------
(* The inductive invariant.                                                *)

\* A call in progress: its statement is in execution (or was not compiled),
\* the comparator or function it is in is still registered, and a statement
\* that exec or execForNumber made is not the client's.
GoodFrame(f) ==
  /\ vdbe[f.stmt] = IF f.phase = "failed" THEN "ready" ELSE "run"
  /\ f.call # Null => f.phase = "body"
  /\ f.call # Null /\ f.kind # "trace" =>
       \E n \in Name : reg[n] = f.call /\ Kind(n) = f.kind
  /\ f.op \in {"exec", "number"} => jstmt[f.stmt] = "none"

GoodStack ==
  /\ \A i \in 1..Len(stack) : GoodFrame(stack[i])
  /\ \A i, j \in 1..Len(stack) : stack[i].stmt = stack[j].stmt => i = j

Agrees(s) == \A n \in Name : compiled[s][n] # Null => reg[n] = compiled[s][n]

\* A program that runs, or may start without being compiled again, was compiled
\* against the registrations in force.
CurrentPrograms ==
  \A s \in Stmt :
    vdbe[s] = "run" \/ (vdbe[s] \in {"ready", "halt"} /\ ~expired[s]) => Agrees(s)

\* The statement behind a SQLiteStmt that the client may still use exists.
Handles ==
  \A s \in Stmt :
    /\ jstmt[s] = "open" => vdbe[s] \in {"ready", "run", "halt"}
    /\ vdbe[s] = "none" => jstmt[s] = "none"

IInv == TypeOK /\ RefOwnership /\ GoodStack /\ Handles /\ CurrentPrograms

-----------------------------------------------------------------------------
(* What each kind of step does to the calls in progress.                   *)

\* A step that starts puts a good frame on a statement that had none.
LEMMA EnterGood ==
  ASSUME TypeOK, GoodStack, NEW s \in Stmt, NEW op \in Op, NEW phase \in Phase,
         Enter(s, op, phase), ~InStep(s), UNCHANGED <<reg, jstmt>>,
         op \in {"exec", "number"} => jstmt[s] = "none",
         \A x \in Stmt \ {s} : vdbe'[x] = vdbe[x],
         vdbe'[s] = IF phase = "failed" THEN "ready" ELSE "run"
  PROVE  stack' \in Seq(Frame) /\ GoodStack'
<1> DEFINE f == [stmt |-> s, op |-> op, phase |-> phase, call |-> Null,
                 kind |-> "func"]
<1>1. stack \in Seq(Frame) /\ f \in Frame
  BY DEF TypeOK, Frame
<1>2. stack' = Append(stack, f)
  BY DEF Enter
<1>3. /\ stack' \in Seq(Frame)
      /\ Len(stack') = Len(stack) + 1
      /\ \A i \in 1..Len(stack) : stack'[i] = stack[i]
      /\ stack'[Len(stack) + 1] = f
  BY <1>1, <1>2, PushFrame
<1>4. \A i \in 1..Len(stack) : stack[i] \in Frame /\ stack[i].stmt \in Stmt \ {s}
  BY StackFrames DEF InStep
<1>5. Len(stack) \in Nat
  BY StackFrames
<1>6. (\A i \in 1..Len(stack) : GoodFrame(stack[i]))'
  <2>1. ASSUME NEW i \in 1..Len(stack)
        PROVE  GoodFrame(stack[i])'
    BY <1>3, <1>4, <2>1 DEF GoodStack, GoodFrame, Frame
  <2>2. GoodFrame(stack[Len(stack)])'
    BY <1>3, <1>5 DEF GoodFrame
  <2>3. QED
    BY <1>3, <1>5, <2>1, <2>2
<1>7. \A i, j \in 1..Len(stack') : stack'[i].stmt = stack'[j].stmt => i = j
  BY <1>3, <1>4, <1>5 DEF GoodStack
<1>8. QED
  BY <1>3, <1>6, <1>7 DEF GoodStack

\* The registrations that calls in progress are in stay: none was replaced, or
\* no statement is left that a call could be in, or nothing is active.
RegStays ==
  \/ \A n \in Name : reg[n] # Null => reg'[n] = reg[n]
  \/ Unfinalized(vdbe') = {}
  \/ ~VdbeActive

\* A call that returns leaves the calls below it good.
LEMMA PopGood ==
  ASSUME TypeOK, GoodStack, stack # <<>>, stack' = Pop, vdbe' \in [Stmt -> VdbeState],
         reg' = reg \/ Unfinalized(vdbe') = {},
         \A x \in Stmt \ {Top.stmt} : vdbe'[x] = vdbe[x] /\ jstmt'[x] = jstmt[x]
  PROVE  stack' \in Seq(Frame) /\ GoodStack'
<1>1. /\ stack' \in Seq(Frame)
      /\ Len(stack') = Len(stack) - 1
      /\ \A i \in 1..(Len(stack) - 1) : stack'[i] = stack[i]
  BY PopFrame DEF TypeOK, Pop
<1>2. /\ Len(stack) \in Nat /\ Len(stack) \in 1..Len(stack)
      /\ \A i \in 1..Len(stack) : stack[i] \in Frame /\ stack[i].stmt \in Stmt
  BY StackFrames
<1>3. ASSUME NEW i \in 1..(Len(stack) - 1)
      PROVE  GoodFrame(stack[i])'
  <2>1. i \in 1..Len(stack) /\ i # Len(stack) /\ GoodFrame(stack[i])
    BY <1>2 DEF GoodStack
  <2>2. stack[i].stmt \in Stmt \ {Top.stmt}
    BY <1>2, <2>1 DEF GoodStack, Top
  <2>3. /\ vdbe'[stack[i].stmt] = vdbe[stack[i].stmt]
        /\ jstmt'[stack[i].stmt] = jstmt[stack[i].stmt]
    BY <2>2
  <2>4. vdbe'[stack[i].stmt] \in {"ready", "run"}
    BY <2>1, <2>3 DEF GoodFrame
  <2>5. stack[i].stmt \in Unfinalized(vdbe')
    BY <2>2, <2>4 DEF Unfinalized
  <2>6. reg' = reg
    BY <2>5
  <2>7. QED
    BY <1>1, <2>1, <2>3, <2>6 DEF GoodFrame
<1>4. ASSUME NEW i \in 1..Len(stack'), NEW j \in 1..Len(stack'),
             stack'[i].stmt = stack'[j].stmt
      PROVE  i = j
  BY <1>1, <1>2, <1>4 DEF GoodStack
<1>5. QED
  BY <1>1, <1>2, <1>3, <1>4 DEF GoodStack

\* A change of the innermost call leaves the others good.
LEMMA TopGood ==
  ASSUME TypeOK, GoodStack, stack # <<>>, NEW f \in Frame, stack' = SetTop(f),
         f.stmt = Top.stmt, GoodFrame(f), UNCHANGED <<vdbe, reg, jstmt>>
  PROVE  stack' \in Seq(Frame) /\ GoodStack'
<1>1. /\ stack' \in Seq(Frame)
      /\ Len(stack') = Len(stack)
      /\ \A i \in 1..Len(stack) : stack'[i] = IF i = Len(stack) THEN f ELSE stack[i]
  BY ChangeTop DEF TypeOK, SetTop
<1>2. \A i \in 1..Len(stack) : stack'[i].stmt = stack[i].stmt
  BY <1>1 DEF Top
<1>3. (\A i \in 1..Len(stack) : GoodFrame(stack[i]))'
  BY <1>1 DEF GoodStack, GoodFrame
<1>4. QED
  BY <1>1, <1>2, <1>3 DEF GoodStack

\* A step of Java code leaves the calls it was made from good, as long as it
\* leaves their statements alone.
LEMMA SameGood ==
  ASSUME TypeOK, GoodStack, UNCHANGED stack, vdbe' \in [Stmt -> VdbeState], RegStays,
         \A x \in Stmt : InStep(x) => vdbe'[x] = vdbe[x] /\ jstmt'[x] = jstmt[x]
  PROVE  GoodStack'
<1>1. /\ DOMAIN stack = 1..Len(stack)
      /\ \A i \in 1..Len(stack) : stack[i] \in Frame /\ stack[i].stmt \in Stmt
  BY StackFrames
<1>2. ASSUME NEW i \in 1..Len(stack)
      PROVE  GoodFrame(stack[i])'
  <2>1. GoodFrame(stack[i]) /\ stack[i].stmt \in Stmt
    BY <1>1 DEF GoodStack
  <2>2. /\ vdbe'[stack[i].stmt] = vdbe[stack[i].stmt]
        /\ jstmt'[stack[i].stmt] = jstmt[stack[i].stmt]
    BY <1>1, <2>1 DEF InStep
  <2>3. stack[i].stmt \in Unfinalized(vdbe')
    BY <2>1, <2>2 DEF GoodFrame, Unfinalized
  <2>4. CASE \A n \in Name : reg[n] # Null => reg'[n] = reg[n]
    BY <2>1, <2>2, <2>4 DEF GoodFrame
  <2>5. CASE ~VdbeActive
    <3>1. vdbe[stack[i].stmt] # "run"
      BY <2>1, <2>5 DEF VdbeActive
    <3>2. stack[i].phase = "failed" /\ stack[i].call = Null
      BY <2>1, <3>1 DEF GoodFrame
    <3>3. QED
      BY <2>1, <2>2, <3>2 DEF GoodFrame
  <2>6. QED
    BY <2>3, <2>4, <2>5 DEF RegStays
<1>3. QED
  BY <1>2 DEF GoodStack

-----------------------------------------------------------------------------
(* What each kind of step does to references and programs.                 *)

\* The reference of a tracer is not that of a name.
LEMMA TracerIsNotNamed ==
  ASSUME TypeOK, RefOwnership, NEW n \in Name
  PROVE  trace # Null => reg[n] # trace
BY DEF TypeOK, RefOwnership, Kind

\* Freeing a zombie, or finding that it is none, keeps references owned.
LEMMA CloseZombieGood ==
  ASSUME TypeOK, RefOwnership, NEW h \in HandleState, NEW v,
         NEW g \in [Ref -> RefState], CloseZombie(h, v, g),
         \/ g = ref /\ trace' = trace
         \/ g = DeleteRef(ref, trace) /\ trace' = Null
  PROVE  /\ handle' \in HandleState
         /\ reg' \in [Name -> Ref \cup {Null}]
         /\ ref' \in [Ref -> RefState]
         /\ RefOwnership'
         /\ reg' = reg \/ Unfinalized(v) = {}
<1>1. CASE h = "zombie" /\ Unfinalized(v) = {}
  <2>1. /\ handle' = "freed"
        /\ reg' = [n \in Name |-> Null]
        /\ ref' = [r \in Ref |-> IF \E n \in Name : reg[n] = r
                                 THEN "deleted" ELSE g[r]]
    BY <1>1 DEF CloseZombie
  <2>2. trace' # Null => ref'[trace'] = "trace"
    BY <2>1, TracerIsNotNamed DEF TypeOK, RefOwnership
  <2>3. QED
    BY <1>1, <2>1, <2>2 DEF RefOwnership, HandleState, RefState
<1>2. CASE ~(h = "zombie" /\ Unfinalized(v) = {})
  <2>1. handle' = h /\ ref' = g /\ reg' = reg
    BY <1>2 DEF CloseZombie
  <2>2. CASE g = ref /\ trace' = trace
    BY <2>1, <2>2 DEF RefOwnership, TypeOK
  <2>3. CASE g = DeleteRef(ref, trace) /\ trace' = Null
    <3>1. \A n \in Name : reg[n] # Null => g[reg[n]] = Kind(n)
      BY <2>3, TracerIsNotNamed DEF RefOwnership, TypeOK, DeleteRef
    <3>2. QED
      BY <2>1, <2>3, <3>1 DEF RefOwnership, TypeOK
  <2>4. QED
    BY <2>2, <2>3
<1>3. QED
  BY <1>1, <1>2

\* A program is current if it was just compiled, or was current before and no
\* registration changed.
MayRun(s) == vdbe[s] = "run" \/ (vdbe[s] \in {"ready", "halt"} /\ ~expired[s])

LEMMA ProgramsGood ==
  ASSUME CurrentPrograms, vdbe' \in [Stmt -> VdbeState],
         reg' = reg \/ Unfinalized(vdbe') = {},
         \A s \in Stmt : MayRun(s)' =>
           \/ compiled'[s] = reg
           \/ compiled'[s] = compiled[s] /\ MayRun(s)
  PROVE  CurrentPrograms'
<1>1. ASSUME NEW s \in Stmt, MayRun(s)'
      PROVE  Agrees(s)'
  <2>1. s \in Unfinalized(vdbe')
    BY <1>1 DEF MayRun, Unfinalized
  <2>2. reg' = reg
    BY <2>1
  <2>3. MayRun(s) => Agrees(s)
    BY DEF CurrentPrograms, MayRun
  <2>4. QED
    BY <1>1, <2>2, <2>3 DEF Agrees
<1>2. QED
  BY <1>1 DEF CurrentPrograms, MayRun

-----------------------------------------------------------------------------
(* The steps: SQLite.open and SQLiteDb.                                    *)

\* The initial state satisfies the inductive invariant.
LEMMA InitGood == Init => IInv
<1> SUFFICES ASSUME Init PROVE IInv
  OBVIOUS
<1>1. TypeOK
  BY DEF Init, TypeOK, HandleState, RefState, VdbeState, Fault
<1>2. RefOwnership
  BY DEF Init, RefOwnership
<1>3. GoodStack
  BY DEF Init, GoodStack
<1>4. CurrentPrograms /\ Handles
  BY DEF Init, CurrentPrograms, Handles
<1>5. QED
  BY <1>1, <1>2, <1>3, <1>4 DEF IInv

\* nativeOpen keeps the invariant, whatever sqlite3_open_v2 returned.
LEMMA OpenGood ==
  ASSUME IInv, OpenOk \/ OpenError \/ OpenReadOnly
  PROVE  IInv'
<1> USE DEF IInv
<1>1. vdbe' = vdbe /\ vdbe \in [Stmt -> VdbeState]
  BY DEF OpenOk, OpenError, OpenReadOnly, stmtVars, TypeOK
<1>2. /\ handle' \in HandleState /\ reg' \in [Name -> Ref \cup {Null}]
      /\ ref' \in [Ref -> RefState] /\ RefOwnership'
      /\ reg' = reg \/ Unfinalized(vdbe') = {}
  <2>1. CASE OpenOk \/ OpenError
    BY <2>1 DEF OpenOk, OpenError, TypeOK, RefOwnership, HandleState, traceVars
  <2>2. CASE OpenReadOnly
    BY <2>2, CloseZombieGood DEF OpenReadOnly, TypeOK, HandleState, traceVars, stmtVars
  <2>3. QED
    BY <2>1, <2>2
<1>3. TypeOK'
  BY <1>2 DEF OpenOk, OpenError, OpenReadOnly, TypeOK, traceVars, stmtVars
<1>4. GoodStack'
  BY <1>1, <1>2, SameGood DEF OpenOk, OpenError, OpenReadOnly, RegStays, stmtVars
<1>5. CurrentPrograms'
  BY <1>1, <1>2, ProgramsGood DEF OpenOk, OpenError, OpenReadOnly, stmtVars, MayRun
<1>6. Handles'
  BY <1>1 DEF OpenOk, OpenError, OpenReadOnly, stmtVars, Handles
<1>7. QED
  BY <1>2, <1>3, <1>4, <1>5, <1>6

\* A new tracer replaces the old one in both places that know it.
LEMMA TraceGood ==
  ASSUME IInv, NEW r \in Ref \cup {Null}, Trace(r)
  PROVE  IInv'
<1> USE DEF IInv
<1>1. TypeOK'
  BY NullAssumption DEF Trace, TypeOK, RefState, DeleteRef, stmtVars
<1>2. RefOwnership'
  <2>1. \A n \in Name : reg[n] # Null => reg[n] # r /\ reg[n] # trace
    BY NullAssumption, TracerIsNotNamed DEF Trace, RefOwnership, Kind, TypeOK
  <2>2. \A n \in Name : reg[n] # Null => ref'[reg[n]] = ref[reg[n]]
    BY <2>1 DEF Trace, TypeOK, DeleteRef
  <2>3. QED
    BY <2>2 DEF Trace, RefOwnership, TypeOK
<1>3. GoodStack'
  BY SameGood DEF Trace, RegStays, stmtVars, TypeOK
<1>4. CurrentPrograms'
  BY DEF Trace, CurrentPrograms, Agrees, stmtVars
<1>5. Handles'
  BY DEF Trace, Handles, stmtVars
<1>6. QED
  BY <1>1, <1>2, <1>3, <1>4, <1>5

\* A name that is defined, or defined again, owns its new reference; no call
\* is in the old one, and every program that knows the old one expires.
LEMMA DefineGood ==
  ASSUME IInv, NEW n \in Name, NEW r \in Ref, ref[r] = "unused",
         ~(Exists(n) /\ VdbeActive), Define(n, r)
  PROVE  IInv'
<1> USE DEF IInv
<1>1. TypeOK'
  BY DEF Define, TypeOK, RefState, DeleteRef, Kind, ExpireAll, traceVars
<1>2. RefOwnership'
  <2>1. \A m \in Name : reg[m] # Null => reg[m] # r
    BY DEF RefOwnership, Kind
  <2>2. \A m \in Name \ {n} : reg[m] # Null => reg[m] # reg[n]
    BY DEF RefOwnership
  <2>3. /\ \A m \in Name \ {n} : reg'[m] = reg[m]
        /\ reg'[n] = r /\ ref'[r] = Kind(n)
    BY DEF Define, TypeOK
  <2>4. \A m \in Name \ {n} : reg[m] # Null => ref'[reg[m]] = Kind(m)
    BY <2>1, <2>2 DEF Define, TypeOK, DeleteRef, RefOwnership
  <2>5. trace' # Null => ref'[trace'] = "trace"
    <3>1. trace # Null => trace # r /\ trace # reg[n]
      BY TracerIsNotNamed DEF RefOwnership
    <3>2. QED
      BY <3>1 DEF Define, TypeOK, DeleteRef, RefOwnership, traceVars
  <2>6. QED
    BY <2>1, <2>3, <2>4, <2>5, NullAssumption DEF RefOwnership
<1>3. GoodStack'
  <2>1. RegStays
    BY DEF RegStays, Exists, Define, TypeOK
  <2>2. QED
    BY <2>1, SameGood DEF Define, TypeOK
<1>4. CurrentPrograms'
  <2>1. CASE Exists(n)
    BY <2>1 DEF Define, ExpireAll, CurrentPrograms, VdbeActive
  <2>2. CASE ~Exists(n)
    <3>1. \A m \in Name : reg[m] # Null => reg'[m] = reg[m]
      BY <2>2 DEF Exists, Define, TypeOK
    <3>2. QED
      BY <2>2, <3>1, NullAssumption DEF Define, CurrentPrograms, Agrees, TypeOK
  <2>3. QED
    BY <2>1, <2>2
<1>5. Handles'
  BY DEF Define, Handles
<1>6. QED
  BY <1>1, <1>2, <1>3, <1>4, <1>5

\* A collation that is refused changes nothing but the new reference.
LEMMA CreateCollationGood ==
  ASSUME IInv, NEW n \in CollName, NEW r \in Ref, CreateCollation(n, r)
  PROVE  IInv'
<1>1. CASE Exists(n) /\ VdbeActive
  <2>1. TypeOK'
    BY <1>1 DEF IInv, CreateCollation, TypeOK, RefState, traceVars, stmtVars
  <2>2. RefOwnership'
    BY <1>1 DEF IInv, CreateCollation, TypeOK, RefOwnership, Kind, traceVars
  <2>3. GoodStack'
    BY <1>1, SameGood DEF IInv, CreateCollation, TypeOK, RegStays, stmtVars
  <2>4. CurrentPrograms'
    BY <1>1 DEF IInv, CreateCollation, CurrentPrograms, Agrees, stmtVars
  <2>5. Handles'
    BY <1>1 DEF IInv, CreateCollation, Handles, stmtVars
  <2>6. QED
    BY <2>1, <2>2, <2>3, <2>4, <2>5 DEF IInv
<1>2. CASE ~(Exists(n) /\ VdbeActive)
  BY <1>2, DefineGood DEF CreateCollation, Name
<1>3. QED
  BY <1>1, <1>2

\* A function that is refused is destroyed before any program knows it.
LEMMA CreateFunctionGood ==
  ASSUME IInv, NEW n \in FuncName, NEW r \in Ref, CreateFunction(n, r)
  PROVE  IInv'
<1>1. CASE Exists(n) /\ VdbeActive
  <2>1. TypeOK'
    BY <1>1 DEF IInv, CreateFunction, TypeOK, RefState, DeleteRef, traceVars, stmtVars
  <2>2. RefOwnership'
    BY <1>1 DEF IInv, CreateFunction, TypeOK, RefOwnership, Kind, DeleteRef, traceVars
  <2>3. GoodStack'
    BY <1>1, SameGood DEF IInv, CreateFunction, TypeOK, RegStays, stmtVars
  <2>4. CurrentPrograms'
    BY <1>1 DEF IInv, CreateFunction, CurrentPrograms, Agrees, stmtVars
  <2>5. Handles'
    BY <1>1 DEF IInv, CreateFunction, Handles, stmtVars
  <2>6. QED
    BY <2>1, <2>2, <2>3, <2>4, <2>5 DEF IInv
<1>2. CASE ~(Exists(n) /\ VdbeActive)
  BY <1>2, DefineGood DEF CreateFunction, Name
<1>3. QED
  BY <1>1, <1>2

\* A statement that is in a call is neither new nor finalized.
LEMMA CallsAreLive ==
  ASSUME TypeOK, GoodStack, NEW s \in Stmt, InStep(s)
  PROVE  vdbe[s] \in {"ready", "run"}
BY StackFrames DEF InStep, GoodStack, GoodFrame

\* A new statement is compiled against the registrations in force.
LEMMA PrepareGood ==
  ASSUME IInv, NEW s \in Stmt, Prepare(s)
  PROVE  IInv'
<1> USE DEF IInv
<1>1. TypeOK'
  BY DEF Prepare, Compile, TypeOK, VdbeState, traceVars
<1>2. RefOwnership'
  BY DEF Prepare, RefOwnership, traceVars
<1>3. GoodStack'
  BY <1>1, CallsAreLive, SameGood DEF Prepare, TypeOK, RegStays
<1>4. CurrentPrograms'
  BY <1>1, ProgramsGood DEF Prepare, Compile, MayRun, TypeOK
<1>5. Handles'
  BY DEF Prepare, Handles, TypeOK
<1>6. QED
  BY <1>1, <1>2, <1>3, <1>4, <1>5

\* Closing the connection deletes its tracer and waits for its statements.
LEMMA CloseDbGood ==
  ASSUME IInv, CloseDb
  PROVE  IInv'
<1> USE DEF IInv
<1>1. /\ vdbe' = vdbe /\ vdbe \in [Stmt -> VdbeState]
      /\ compiled' = compiled /\ expired' = expired /\ jstmt' = jstmt
      /\ stack' = stack /\ traceArg' = traceArg /\ fault' = fault
      /\ trace' = Null /\ wrapper' = "deleted"
  BY DEF CloseDb, stmtVars, TypeOK
<1>2. DeleteRef(ref, trace) \in [Ref -> RefState]
  BY DEF TypeOK, DeleteRef, RefState
<1>3. /\ handle' \in HandleState /\ reg' \in [Name -> Ref \cup {Null}]
      /\ ref' \in [Ref -> RefState] /\ RefOwnership'
      /\ reg' = reg \/ Unfinalized(vdbe') = {}
  BY <1>1, <1>2, CloseZombieGood DEF CloseDb, HandleState
<1>4. TypeOK'
  BY <1>1, <1>3 DEF TypeOK
<1>5. GoodStack'
  BY <1>1, <1>3, SameGood DEF RegStays
<1>6. CurrentPrograms'
  BY <1>1, <1>3, ProgramsGood DEF MayRun
<1>7. Handles'
  BY <1>1 DEF Handles
<1>8. QED
  BY <1>3, <1>4, <1>5, <1>6, <1>7

-----------------------------------------------------------------------------
(* The steps: SQLiteStmt and RowIterator.                                  *)

\* sqlite3_step continues, starts or refuses to start an execution.
LEMMA StepGood ==
  ASSUME IInv, NEW s \in Stmt, NEW op \in {"select", "insert"}, Step(s, op)
  PROVE  IInv'
<1> USE DEF IInv
<1>1. PICK phase \in Phase :
        /\ Enter(s, op, phase)
        /\ vdbe' = [vdbe EXCEPT ![s] = IF phase = "failed" THEN "ready" ELSE "run"]
        /\ phase = "body" => vdbe[s] = "run" /\ UNCHANGED <<expired, compiled>>
        /\ phase = "start" => IF expired[s] THEN Compile(s)
                              ELSE vdbe[s] # "run" /\ UNCHANGED <<expired, compiled>>
        /\ phase = "failed" => expired[s] /\ UNCHANGED <<expired, compiled>>
  <2>1. CASE vdbe[s] = "run" /\ Enter(s, op, "body") /\ UNCHANGED <<vdbe, expired, compiled>>
    BY <2>1 DEF TypeOK, Phase
  <2>2. CASE /\ vdbe[s] # "run" /\ Enter(s, op, "start")
             /\ vdbe' = [vdbe EXCEPT ![s] = "run"]
             /\ IF expired[s] THEN Compile(s) ELSE UNCHANGED <<expired, compiled>>
    BY <2>2 DEF Phase
  <2>3. CASE /\ expired[s] /\ Enter(s, op, "failed")
             /\ vdbe' = [vdbe EXCEPT ![s] = "ready"]
             /\ UNCHANGED <<expired, compiled>>
    BY <2>3 DEF Phase
  <2>4. QED
    BY <2>1, <2>2, <2>3 DEF Step
<1>2. /\ UNCHANGED <<handle, wrapper, traceVars, reg, ref, jstmt, fault>>
      /\ ~InStep(s)
      /\ jstmt[s] = "open" /\ vdbe[s] \in {"ready", "run", "halt"}
  BY DEF Step, Handles
<1>3. stack' \in Seq(Frame) /\ GoodStack'
  BY <1>1, <1>2, EnterGood DEF TypeOK, Op
<1>4. TypeOK'
  BY <1>1, <1>2, <1>3 DEF TypeOK, Compile, Phase, VdbeState, traceVars
<1>5. RefOwnership'
  BY <1>2 DEF RefOwnership, traceVars
<1>6. CurrentPrograms'
  <2>1. ASSUME NEW x \in Stmt, MayRun(x)'
        PROVE  compiled'[x] = reg \/ (compiled'[x] = compiled[x] /\ MayRun(x))
    <3>1. CASE x # s
      BY <1>1, <2>1, <3>1 DEF TypeOK, Compile, MayRun, Phase
    <3>2. CASE x = s /\ phase = "body"
      BY <1>1, <2>1, <3>2 DEF MayRun
    <3>3. CASE x = s /\ phase = "start"
      BY <1>1, <1>2, <2>1, <3>3 DEF TypeOK, Compile, MayRun
    <3>4. CASE x = s /\ phase = "failed"
      BY <1>1, <2>1, <3>4 DEF TypeOK, MayRun
    <3>5. QED
      BY <3>1, <3>2, <3>3, <3>4 DEF Phase
  <2>2. QED
    BY <1>2, <1>4, <2>1, ProgramsGood DEF TypeOK
<1>7. Handles'
  BY <1>1, <1>2 DEF Handles, TypeOK
<1>8. QED
  BY <1>3, <1>4, <1>5, <1>6, <1>7

\* exec and execForNumber run a statement that the client does not see.
LEMMA StepOwnGood ==
  ASSUME IInv, NEW s \in Stmt, NEW op \in {"exec", "number"}, StepOwn(s, op)
  PROVE  IInv'
<1> USE DEF IInv
<1>1. /\ UNCHANGED <<handle, wrapper, traceVars, reg, ref, jstmt, fault>>
      /\ vdbe[s] = "none" /\ vdbe' = [vdbe EXCEPT ![s] = "run"]
      /\ Compile(s) /\ Enter(s, op, "start") /\ jstmt[s] = "none"
  BY DEF StepOwn, Handles
<1>2. ~InStep(s)
  BY <1>1, CallsAreLive
<1>3. stack' \in Seq(Frame) /\ GoodStack'
  BY <1>1, <1>2, EnterGood DEF TypeOK, Op, Phase
<1>4. TypeOK'
  BY <1>1, <1>3 DEF TypeOK, Compile, VdbeState, traceVars
<1>5. RefOwnership'
  BY <1>1 DEF RefOwnership, traceVars
<1>6. CurrentPrograms'
  BY <1>1, <1>4, ProgramsGood DEF TypeOK, Compile, MayRun
<1>7. Handles'
  BY <1>1 DEF Handles, TypeOK
<1>8. QED
  BY <1>3, <1>4, <1>5, <1>6, <1>7

\* A reset touches no statement that is in a call.
LEMMA ResetGood ==
  ASSUME IInv, NEW s \in Stmt, Reset(s)
  PROVE  IInv'
<1> USE DEF IInv
<1>1. TypeOK'
  BY DEF Reset, TypeOK, VdbeState, traceVars
<1>2. RefOwnership'
  BY DEF Reset, RefOwnership, traceVars
<1>3. GoodStack'
  BY <1>1, SameGood DEF Reset, TypeOK, RegStays
<1>4. CurrentPrograms'
  <2>1. vdbe[s] \in {"ready", "run", "halt"}
    BY DEF Reset, Handles
  <2>2. ASSUME NEW x \in Stmt, MayRun(x)'
        PROVE  MayRun(x)
    BY <2>1, <2>2 DEF Reset, TypeOK, MayRun
  <2>3. QED
    BY <1>1, <2>2, ProgramsGood DEF Reset, TypeOK
<1>5. Handles'
  BY DEF Reset, Handles, TypeOK
<1>6. QED
  BY <1>1, <1>2, <1>3, <1>4, <1>5

\* The last close of a closed connection frees it, with no call in progress.
LEMMA CloseStmtGood ==
  ASSUME IInv, NEW s \in Stmt, CloseStmt(s)
  PROVE  IInv'
<1> USE DEF IInv
<1>1. /\ vdbe' = [vdbe EXCEPT ![s] = "freed"] /\ vdbe' \in [Stmt -> VdbeState]
      /\ jstmt' = [jstmt EXCEPT ![s] = "closed"] /\ ~InStep(s)
      /\ UNCHANGED <<wrapper, traceVars, expired, compiled, stack>>
  BY DEF CloseStmt, TypeOK, VdbeState
<1>2. /\ handle' \in HandleState /\ reg' \in [Name -> Ref \cup {Null}]
      /\ ref' \in [Ref -> RefState] /\ RefOwnership'
      /\ reg' = reg \/ Unfinalized(vdbe') = {}
  <2>1. CASE vdbe[s] = "freed"
    BY <2>1 DEF CloseStmt, TypeOK, RefOwnership, traceVars
  <2>2. CASE vdbe[s] # "freed"
    BY <2>2, CloseZombieGood DEF CloseStmt, TypeOK, traceVars
  <2>3. QED
    BY <2>1, <2>2
<1>3. TypeOK'
  BY <1>1, <1>2 DEF CloseStmt, TypeOK, Fault, traceVars
<1>4. GoodStack'
  BY <1>1, <1>2, SameGood DEF TypeOK, RegStays
<1>5. CurrentPrograms'
  BY <1>1, <1>2, ProgramsGood DEF TypeOK, MayRun
<1>6. Handles'
  BY <1>1 DEF Handles, TypeOK
<1>7. QED
  BY <1>2, <1>3, <1>4, <1>5, <1>6

-----------------------------------------------------------------------------
(* The steps: callbacks, and the return of sqlite3_step.                   *)

\* A step that changes only the calls in progress and the fault.
LEMMA OnlyStack ==
  ASSUME IInv, UNCHANGED <<handle, wrapper, traceVars, reg, ref, stmtVars>>,
         fault' \in Fault, stack' \in Seq(Frame), GoodStack'
  PROVE  IInv'
<1>1. TypeOK'
  BY DEF IInv, TypeOK, traceVars, stmtVars
<1>2. RefOwnership' /\ Handles' /\ CurrentPrograms'
  BY DEF IInv, RefOwnership, Handles, CurrentPrograms, Agrees, traceVars, stmtVars
<1>3. QED
  BY <1>1, <1>2 DEF IInv

\* A call into Java is in the reference that the statement looked up.
LEMMA InvokeGood ==
  ASSUME IInv, NativeRuns, Top.phase # "failed", NEW r \in Ref \cup {Null},
         NEW kind \in {"trace", "coll", "func"}, Invoke(r, kind),
         kind # "trace" /\ r # Null => \E n \in Name : reg[n] = r /\ Kind(n) = kind,
         UNCHANGED <<handle, wrapper, traceVars, reg, ref, stmtVars>>
  PROVE  IInv'
<1> USE DEF IInv
<1>1. CASE ref[r] = kind
  <2> DEFINE f == [Top EXCEPT !.call = r, !.kind = kind, !.phase = "body"]
  <2>1. /\ stack # <<>> /\ Top \in Frame /\ GoodFrame(Top)
        /\ stack' = SetTop(f) /\ fault' = fault
    BY <1>1, StackFrames DEF NativeRuns, Invoke, GoodStack, Top
  <2>2. f \in Frame
    BY <2>1 DEF Frame, Phase
  <2>3. /\ f.stmt = Top.stmt /\ f.op = Top.op /\ f.call = r /\ f.kind = kind
        /\ f.phase = "body"
    BY <2>1 DEF Frame
  <2> HIDE DEF f
  <2>4. GoodFrame(f)
    BY <2>1, <2>3 DEF GoodFrame
  <2>5. stack' \in Seq(Frame) /\ GoodStack'
    BY <2>1, <2>2, <2>3, <2>4, TopGood DEF stmtVars
  <2>6. QED
    BY <2>1, <2>5, OnlyStack DEF TypeOK
<1>2. CASE ref[r] # kind
  <2>1. stack' = stack /\ fault' \in Fault
    BY <1>2 DEF Invoke, Fault
  <2>2. GoodStack'
    BY <2>1, SameGood DEF RegStays, stmtVars, TypeOK
  <2>3. QED
    BY <2>1, <2>2, OnlyStack DEF TypeOK
<1>3. QED
  BY <1>1, <1>2

\* java_trace, java_compare and java_func, and their return.
LEMMA CallbackGood ==
  ASSUME IInv, TraceCall \/ TraceTrigger \/ CallReturn \/ \E n \in Name : Callback(n)
  PROVE  IInv'
<1>1. CASE TraceCall \/ TraceTrigger
  BY <1>1, InvokeGood DEF TraceCall, TraceTrigger, Traced, IInv, TypeOK
<1>2. CASE \E n \in Name : Callback(n)
  <2>1. PICK n \in Name : Callback(n)
    BY <1>2
  <2>2. reg[n] \in Ref \cup {Null} /\ Kind(n) \in {"trace", "coll", "func"}
    BY DEF IInv, TypeOK, Kind
  <2>3. Top.phase # "failed"
    BY <2>1 DEF Callback, Traced
  <2>4. QED
    BY <2>1, <2>2, <2>3, InvokeGood DEF Callback
<1>3. CASE CallReturn
  <2> DEFINE f == [Top EXCEPT !.call = Null]
  <2>1. /\ stack # <<>> /\ Top \in Frame /\ GoodFrame(Top) /\ stack' = SetTop(f)
        /\ fault' = fault
    BY <1>3, StackFrames DEF CallReturn, InCallback, GoodStack, Top, IInv
  <2>2. f \in Frame
    BY <2>1 DEF Frame
  <2>3. /\ f.stmt = Top.stmt /\ f.op = Top.op /\ f.call = Null
        /\ f.phase = Top.phase
    BY <2>1 DEF Frame
  <2> HIDE DEF f
  <2>4. GoodFrame(f)
    BY <2>1, <2>3 DEF GoodFrame
  <2>5. UNCHANGED <<handle, wrapper, traceVars, reg, ref, stmtVars>>
    BY <1>3 DEF CallReturn
  <2>6. stack' \in Seq(Frame) /\ GoodStack'
    BY <2>1, <2>2, <2>3, <2>4, <2>5, TopGood DEF stmtVars, IInv
  <2>7. QED
    BY <2>1, <2>5, <2>6, OnlyStack DEF IInv, TypeOK
<1>4. QED
  BY <1>1, <1>2, <1>3

\* A call that returns leaves its statement in the state v: still running,
\* halted after a run, as it was when it could not be compiled, or gone.
LEMMA ReturnGood ==
  ASSUME IInv, NativeRuns, stack' = Pop, NEW v \in VdbeState,
         vdbe' = [vdbe EXCEPT ![Top.stmt] = v],
         v \in {"run", "halt"} => vdbe[Top.stmt] = "run",
         v = "ready" => vdbe[Top.stmt] = "ready",
         expired' \in {expired, ExpireAll}, UNCHANGED <<wrapper, traceVars, compiled>>,
         NEW j \in {jstmt[Top.stmt], "failed"}, jstmt' = [jstmt EXCEPT ![Top.stmt] = j],
         v = "freed" => j = "failed",
         v = "none" => jstmt[Top.stmt] = "none" /\ j = "none",
         handle' \in HandleState, reg' \in [Name -> Ref \cup {Null}],
         ref' \in [Ref -> RefState], RefOwnership', fault' \in Fault,
         reg' = reg \/ Unfinalized(vdbe') = {}
  PROVE  IInv'
<1> USE DEF IInv
<1>1. stack # <<>> /\ Top.stmt \in Stmt
  BY StackFrames DEF NativeRuns
<1>2. vdbe' \in [Stmt -> VdbeState] /\ expired' \in [Stmt -> BOOLEAN]
  BY DEF TypeOK, ExpireAll
<1>3. \A x \in Stmt \ {Top.stmt} : vdbe'[x] = vdbe[x] /\ jstmt'[x] = jstmt[x]
  BY DEF TypeOK
<1>4. stack' \in Seq(Frame) /\ GoodStack'
  BY <1>1, <1>2, <1>3, PopGood
<1>5. TypeOK'
  BY <1>1, <1>2, <1>4 DEF TypeOK, traceVars
<1>6. Handles'
  <2>1. vdbe'[Top.stmt] = v /\ jstmt'[Top.stmt] = j
    BY <1>1 DEF TypeOK
  <2>2. \A x \in Stmt \ {Top.stmt} :
          /\ jstmt'[x] = "open" => vdbe'[x] \in {"ready", "run", "halt"}
          /\ vdbe'[x] = "none" => jstmt'[x] = "none"
    BY <1>3 DEF Handles
  <2>3. /\ j = "open" => v \in {"ready", "run", "halt"}
        /\ v = "none" => j = "none"
    BY DEF VdbeState
  <2>4. QED
    BY <2>1, <2>2, <2>3 DEF Handles
<1>7. CurrentPrograms'
  <2>1. ASSUME NEW x \in Stmt, MayRun(x)'
        PROVE  MayRun(x)
    BY <1>1, <2>1 DEF MayRun, TypeOK, ExpireAll
  <2>2. QED
    BY <1>2, <2>1, ProgramsGood
<1>8. QED
  BY <1>4, <1>5, <1>6, <1>7

\* The statement of the innermost call, by the phase of the call.
LEMMA TopState ==
  ASSUME IInv, NativeRuns
  PROVE  /\ stack # <<>> /\ Top.stmt \in Stmt /\ Top.phase \in Phase
         /\ Top.phase = "failed" => vdbe[Top.stmt] = "ready"
         /\ Top.phase # "failed" => vdbe[Top.stmt] = "run"
         /\ Top.op \in {"exec", "number"} => jstmt[Top.stmt] = "none"
<1>1. /\ stack # <<>> /\ Top \in Frame /\ GoodFrame(Top)
  BY StackFrames DEF IInv, NativeRuns, GoodStack, Top
<1>2. QED
  BY <1>1, StackFrames DEF GoodFrame, Frame, IInv

\* hasNext() leaves a row announced, or a halted statement.
LEMMA SelectGood ==
  ASSUME IInv, SelectRow \/ SelectEnd
  PROVE  IInv'
<1> USE DEF IInv
<1>1. NativeRuns /\ stack' = Pop /\ handle' = handle /\ reg' = reg /\ ref' = ref
      /\ fault' = fault /\ expired' = expired /\ jstmt' = jstmt
      /\ UNCHANGED <<wrapper, traceVars, compiled>>
  BY DEF SelectRow, SelectEnd, Returning, stmtVars
<1>2. /\ handle' \in HandleState /\ reg' \in [Name -> Ref \cup {Null}]
      /\ ref' \in [Ref -> RefState] /\ RefOwnership' /\ fault' \in Fault
  BY <1>1 DEF TypeOK, RefOwnership, traceVars
<1>3. jstmt' = [jstmt EXCEPT ![Top.stmt] = jstmt[Top.stmt]]
  BY <1>1 DEF TypeOK
<1> DEFINE v == IF SelectRow THEN vdbe[Top.stmt] ELSE IF Traced THEN "halt" ELSE "ready"
<1>4. v \in VdbeState /\ vdbe' = [vdbe EXCEPT ![Top.stmt] = v]
  BY <1>1, TopState DEF TypeOK, VdbeState, SelectRow, SelectEnd, stmtVars
<1>5. /\ v \in {"run", "halt"} => vdbe[Top.stmt] = "run"
      /\ v = "ready" => vdbe[Top.stmt] = "ready"
      /\ v \notin {"freed", "none"}
  BY <1>1, TopState DEF SelectRow, SelectEnd, Traced
<1> HIDE DEF v
<1>6. QED
  BY <1>1, <1>2, <1>3, <1>4, <1>5, ReturnGood

\* insert() and execute() leave a halted statement, or none.
LEMMA InsertGood ==
  ASSUME IInv, InsertDone \/ InsertFail
  PROVE  IInv'
<1> USE DEF IInv
<1>1. /\ NativeRuns /\ stack' = Pop /\ expired' \in {expired, ExpireAll}
      /\ UNCHANGED <<wrapper, traceVars, compiled>>
  BY DEF InsertDone, InsertFail, Returning, SchemaMayChange
<1>2. CASE InsertDone
  <2>1. /\ handle' = handle /\ reg' = reg /\ ref' = ref /\ fault' = fault
        /\ vdbe' = [vdbe EXCEPT ![Top.stmt] = "halt"] /\ vdbe[Top.stmt] = "run"
        /\ jstmt' = [jstmt EXCEPT ![Top.stmt] = jstmt[Top.stmt]]
    BY <1>1, <1>2, TopState DEF InsertDone, Traced, TypeOK
  <2>2. /\ handle' \in HandleState /\ reg' \in [Name -> Ref \cup {Null}]
        /\ ref' \in [Ref -> RefState] /\ RefOwnership' /\ fault' \in Fault
    BY <1>1, <2>1 DEF TypeOK, RefOwnership, traceVars
  <2>3. QED
    BY <1>1, <2>1, <2>2, ReturnGood DEF VdbeState
<1>3. CASE InsertFail
  <2>1. /\ CloseZombie(handle, vdbe', ref) /\ fault' \in Fault
        /\ vdbe' = [vdbe EXCEPT ![Top.stmt] = "freed"]
        /\ jstmt' = [jstmt EXCEPT ![Top.stmt] = "failed"]
    BY <1>3 DEF InsertFail, TypeOK, Fault
  <2>2. /\ handle' \in HandleState /\ reg' \in [Name -> Ref \cup {Null}]
        /\ ref' \in [Ref -> RefState] /\ RefOwnership'
        /\ reg' = reg \/ Unfinalized(vdbe') = {}
    BY <1>1, <2>1, CloseZombieGood DEF TypeOK, traceVars
  <2>3. QED
    BY <1>1, <2>1, <2>2, ReturnGood DEF VdbeState
<1>4. QED
  BY <1>2, <1>3

\* execForNumber() frees its statement, and a zombie that waited for it.
LEMMA NumberGood ==
  ASSUME IInv, NumberEnd
  PROVE  IInv'
<1> USE DEF IInv
<1>1. /\ NativeRuns /\ stack' = Pop /\ expired' \in {expired, ExpireAll}
      /\ UNCHANGED <<wrapper, traceVars, compiled>> /\ fault' \in Fault
      /\ CloseZombie(handle, vdbe', ref) /\ Top.op = "number"
      /\ vdbe' = [vdbe EXCEPT ![Top.stmt] = "none"] /\ jstmt' = jstmt
  BY DEF NumberEnd, Returning, SchemaMayChange, TypeOK
<1>2. /\ handle' \in HandleState /\ reg' \in [Name -> Ref \cup {Null}]
      /\ ref' \in [Ref -> RefState] /\ RefOwnership'
      /\ reg' = reg \/ Unfinalized(vdbe') = {}
  BY <1>1, CloseZombieGood DEF TypeOK, traceVars
<1>3. jstmt[Top.stmt] = "none" /\ jstmt' = [jstmt EXCEPT ![Top.stmt] = "none"]
  BY <1>1, TopState DEF TypeOK
<1>4. QED
  BY <1>1, <1>2, <1>3, ReturnGood DEF VdbeState

\* exec() goes on to the next statement of its script, or returns.
LEMMA ExecGood ==
  ASSUME IInv, ExecNext \/ ExecEnd
  PROVE  IInv'
<1> USE DEF IInv
<1>1. /\ NativeRuns /\ Top.op = "exec" /\ jstmt' = jstmt /\ fault' = fault
      /\ handle' = handle /\ reg' = reg /\ ref' = ref
      /\ UNCHANGED <<wrapper, traceVars>>
      /\ Top.phase # "failed"
  BY DEF ExecNext, ExecEnd, Returning, Traced
<1>2. RefOwnership'
  BY <1>1 DEF RefOwnership, traceVars
<1>3. CASE ExecEnd
  <2>1. /\ stack' = Pop /\ expired' \in {expired, ExpireAll} /\ compiled' = compiled
        /\ vdbe' = [vdbe EXCEPT ![Top.stmt] = "none"]
        /\ jstmt[Top.stmt] = "none" /\ jstmt' = [jstmt EXCEPT ![Top.stmt] = "none"]
    BY <1>1, <1>3, TopState DEF ExecEnd, SchemaMayChange, TypeOK
  <2>2. QED
    BY <1>1, <1>2, <2>1, ReturnGood DEF VdbeState, TypeOK
<1>4. CASE ExecNext
  <2> DEFINE f == [Top EXCEPT !.phase = "start"]
  <2>1. /\ stack # <<>> /\ Top \in Frame /\ GoodFrame(Top) /\ Top.call = Null
        /\ stack' = SetTop(f) /\ vdbe' = vdbe
    BY <1>1, <1>4, StackFrames DEF ExecNext, NativeRuns, GoodStack, Top
  <2>2. f \in Frame
    BY <2>1 DEF Frame, Phase
  <2>3. f.stmt = Top.stmt /\ f.op = Top.op /\ f.call = Null /\ f.phase = "start"
    BY <2>1 DEF Frame
  <2> HIDE DEF f
  <2>4. GoodFrame(f)
    BY <1>1, <2>1, <2>3 DEF GoodFrame
  <2>5. stack' \in Seq(Frame) /\ GoodStack'
    BY <1>1, <2>1, <2>2, <2>3, <2>4, TopGood
  <2>6. PICK e \in {expired, ExpireAll} : expired' = [e EXCEPT ![Top.stmt] = FALSE]
    BY <1>4 DEF ExecNext
  <2>7. compiled' = [compiled EXCEPT ![Top.stmt] = reg]
    BY <1>4 DEF ExecNext
  <2>8. e \in [Stmt -> BOOLEAN]
    BY DEF TypeOK, ExpireAll
  <2>9. TypeOK'
    BY <1>1, <2>1, <2>5, <2>6, <2>7, <2>8 DEF TypeOK, traceVars
  <2>10. CurrentPrograms'
    <3>1. ASSUME NEW x \in Stmt, MayRun(x)'
          PROVE  compiled'[x] = reg \/ (compiled'[x] = compiled[x] /\ MayRun(x))
      BY <2>1, <2>6, <2>7, <2>8, <3>1 DEF MayRun, TypeOK, ExpireAll
    <3>2. QED
      BY <1>1, <2>1, <3>1, ProgramsGood DEF TypeOK
  <2>11. QED
    BY <1>1, <1>2, <2>1, <2>5, <2>9, <2>10 DEF Handles
<1>5. QED
  BY <1>3, <1>4

-----------------------------------------------------------------------------
(* The theorems.                                                           *)

\* Every handler and every step of SQLite keeps the inductive invariant.
LEMMA StepKeepsIInv ==
  ASSUME IInv, [Next]_vars
  PROVE  IInv'
<1>1. CASE UNCHANGED vars
  <2>1. UNCHANGED <<handle, wrapper, trace, traceArg, reg, ref, vdbe, expired,
                    compiled, jstmt, stack, fault>>
    BY <1>1 DEF vars
  <2>2. TypeOK' /\ RefOwnership'
    BY <2>1 DEF IInv, TypeOK, RefOwnership
  <2>3. GoodStack' /\ Handles' /\ CurrentPrograms'
    BY <2>1 DEF IInv, GoodStack, GoodFrame, Handles, CurrentPrograms, Agrees
  <2>4. QED
    BY <2>2, <2>3 DEF IInv
<1>2. CASE OpenOk \/ OpenError \/ OpenReadOnly
  BY <1>2, OpenGood
<1>3. CASE \E r \in Ref \cup {Null} : Trace(r)
  BY <1>3, TraceGood
<1>4. CASE \E n \in CollName, r \in Ref : CreateCollation(n, r)
  BY <1>4, CreateCollationGood
<1>5. CASE \E n \in FuncName, r \in Ref : CreateFunction(n, r)
  BY <1>5, CreateFunctionGood
<1>6. CASE \E s \in Stmt : Prepare(s) \/ Reset(s) \/ CloseStmt(s)
  BY <1>6, PrepareGood, ResetGood, CloseStmtGood
<1>7. CASE CloseDb
  BY <1>7, CloseDbGood
<1>8. CASE \E s \in Stmt, op \in {"select", "insert"} : Step(s, op)
  BY <1>8, StepGood
<1>9. CASE \E s \in Stmt, op \in {"exec", "number"} : StepOwn(s, op)
  BY <1>9, StepOwnGood
<1>10. CASE TraceCall \/ TraceTrigger \/ CallReturn \/ \E n \in Name : Callback(n)
  BY <1>10, CallbackGood
<1>11. CASE StepReturns
  BY <1>11, SelectGood, InsertGood, NumberGood, ExecGood DEF StepReturns
<1>12. QED
  BY <1>1, <1>2, <1>3, <1>4, <1>5, <1>6, <1>7, <1>8, <1>9, <1>10, <1>11 DEF Next

LEMMA Invariance == Spec => []IInv
<1>1. Init => IInv
  BY InitGood
<1>2. IInv /\ [Next]_vars => IInv'
  BY StepKeepsIInv
<1>3. QED
  BY <1>1, <1>2, PTL DEF Spec

\* The variables of the model of the SQLiteDb struct, of SQLite's handle and of
\* the JNI references keep their types through every handler.
THEOREM TypeCorrect == Spec => []TypeOK
<1>1. IInv => TypeOK
  BY DEF IInv
<1>2. QED
  BY <1>1, Invariance, PTL

\* nativeCreateCollation, nativeCreateFunction, nativeTrace, nativeClose and
\* java_destroy never leave a registered name, or SQLiteDb.trace, with a deleted
\* or shared global reference, for any client.
THEOREM ReferencesOwned == Spec => []RefOwnership
<1>1. IInv => RefOwnership
  BY DEF IInv
<1>2. QED
  BY <1>1, Invariance, PTL

\* The reference java_compare or java_func was entered through outlives the
\* callback, at any depth of nested calls.
THEOREM CallbacksAlive == Spec => []CallbackRefAlive
<1>1. ASSUME IInv
      PROVE  CallbackRefAlive
  <2>1. ASSUME NEW i \in DOMAIN stack, stack[i].call # Null, stack[i].kind # "trace"
        PROVE  ref[stack[i].call] = stack[i].kind
    <3>1. i \in 1..Len(stack)
      BY <1>1, <2>1, StackFrames DEF IInv
    <3>2. GoodFrame(stack[i])
      BY <1>1, <3>1 DEF IInv, GoodStack
    <3>3. PICK n \in Name : reg[n] = stack[i].call /\ Kind(n) = stack[i].kind
      BY <2>1, <3>2 DEF GoodFrame
    <3>4. QED
      BY <1>1, <2>1, <3>3 DEF IInv, RefOwnership
  <2>2. QED
    BY <2>1 DEF CallbackRefAlive
<1>2. QED
  BY <1>1, Invariance, PTL

\* While a statement runs, sqlite3_create_collation_v2 and
\* sqlite3_create_function_v2 refuse to replace what it was compiled with, and
\* sqlite3_step compiles it again before it starts after a replacement.
THEOREM RegistrationsStable == Spec => []StableRegistrations
<1>1. ASSUME IInv
      PROVE  StableRegistrations
  BY <1>1 DEF IInv, CurrentPrograms, Agrees, StableRegistrations
<1>2. QED
  BY <1>1, Invariance, PTL

-----------------------------------------------------------------------------
(* The life of a connection: when it is freed, what it frees, and that a   *)
(* client that keeps to the contract meets nothing that was freed.         *)

-----------------------------------------------------------------------------
(* References.                                                             *)

\* What sqlite3LeaveMutexAndCloseZombie leaves.
LEMMA CloseZombieEnds ==
  ASSUME NEW h, NEW v, NEW g, CloseZombie(h, v, g)
  PROVE  \/ /\ h = "zombie" /\ Unfinalized(v) = {} /\ handle' = "freed"
            /\ reg' = [n \in Name |-> Null]
            /\ ref' = [r \in Ref |-> IF \E n \in Name : reg[n] = r THEN "deleted" ELSE g[r]]
         \/ /\ h # "zombie" \/ Unfinalized(v) # {}
            /\ handle' = h /\ ref' = g /\ reg' = reg
BY DEF CloseZombie

LEMMA NameKinds ==
  ASSUME NEW n \in Name
  PROVE  /\ Kind(n) = "func" <=> n \in FuncName
         /\ Kind(n) # "trace"
BY NamesAssumption DEF Kind, Name

LEMMA OrphanClose ==
  ASSUME TypeOK, NoOrphanRef, NEW h, NEW v, NEW g, CloseZombie(h, v, g),
         \/ g = ref /\ trace' = trace
         \/ g = DeleteRef(ref, trace) /\ trace' = Null
  PROVE  NoOrphanRef'
<1>1. ASSUME NEW r \in Ref, g[r] \in {"func", "trace"}
      PROVE  g[r] = ref[r] /\ (g[r] = "trace" => trace' = r)
  BY <1>1 DEF NoOrphanRef, DeleteRef
<1>2. FuncName \subseteq Name
  BY DEF Name
<1>3. QED
  BY <1>1, <1>2, CloseZombieEnds DEF NoOrphanRef

LEMMA OrphanStep ==
  ASSUME IInv, NoOrphanRef, [Next]_vars
  PROVE  NoOrphanRef'
<1> USE DEF IInv
<1>1. CASE UNCHANGED <<reg, ref, trace>>
  BY <1>1 DEF NoOrphanRef
<1>2. ASSUME NEW r \in Ref \cup {Null}, Trace(r)
      PROVE  NoOrphanRef'
  <2>1. /\ reg' = reg /\ trace' = r
        /\ \A x \in Ref : x # r => ref'[x] = IF x = trace THEN "deleted" ELSE ref[x]
        /\ r \in Ref => ref'[r] = "trace"
    BY <1>2 DEF Trace, DeleteRef
  <2>2. QED
    BY <2>1 DEF NoOrphanRef
<1>3. ASSUME NEW n \in Name, NEW r \in Ref, ref[r] = "unused", Define(n, r)
      PROVE  NoOrphanRef'
  <2>1. /\ trace' = trace /\ ref'[r] = Kind(n)
        /\ \A x \in Ref \ {r} : ref'[x] = IF x = reg[n] THEN "deleted" ELSE ref[x]
    BY <1>3 DEF Define, DeleteRef, traceVars
  <2>2. reg'[n] = r /\ \A m \in Name \ {n} : reg'[m] = reg[m]
    BY <1>3 DEF Define, TypeOK
  <2>3. ASSUME NEW x \in Ref, ref'[x] = "func"
        PROVE  \E m \in FuncName : reg'[m] = x
    <3>1. CASE x = r
      BY <2>1, <2>2, <2>3, <3>1, NameKinds
    <3>2. CASE x # r
      <4>1. ref[x] = "func" /\ x # reg[n]
        BY <2>1, <2>3, <3>2
      <4>2. PICK m \in FuncName : reg[m] = x
        BY <4>1 DEF NoOrphanRef
      <4>3. QED
        BY <2>2, <4>1, <4>2 DEF Name
    <3>3. QED
      BY <3>1, <3>2
  <2>4. ASSUME NEW x \in Ref, ref'[x] = "trace"
        PROVE  trace' = x
    BY <2>1, <2>4, NameKinds DEF NoOrphanRef
  <2>5. QED
    BY <2>3, <2>4 DEF NoOrphanRef
<1>4. ASSUME NEW n \in CollName, NEW r \in Ref, CreateCollation(n, r)
      PROVE  NoOrphanRef'
  <2>1. CASE Exists(n) /\ VdbeActive
    <3>1. /\ ref' = [ref EXCEPT ![r] = "coll"] /\ reg' = reg /\ trace' = trace
      BY <1>4, <2>1 DEF CreateCollation, traceVars
    <3>2. QED
      BY <3>1 DEF NoOrphanRef, TypeOK
  <2>2. CASE ~(Exists(n) /\ VdbeActive)
    BY <1>3, <1>4, <2>2 DEF CreateCollation, Name
  <2>3. QED
    BY <2>1, <2>2
<1>5. ASSUME NEW n \in FuncName, NEW r \in Ref, CreateFunction(n, r)
      PROVE  NoOrphanRef'
  <2>1. CASE Exists(n) /\ VdbeActive
    <3>1. ref' = DeleteRef(ref, r) /\ reg' = reg /\ trace' = trace
      BY <1>5, <2>1 DEF CreateFunction, traceVars
    <3>2. QED
      BY <3>1 DEF NoOrphanRef, DeleteRef
  <2>2. CASE ~(Exists(n) /\ VdbeActive)
    BY <1>3, <1>5, <2>2 DEF CreateFunction, Name
  <2>3. QED
    BY <2>1, <2>2
<1>6. CASE OpenReadOnly
  BY <1>6, OrphanClose DEF OpenReadOnly, traceVars
<1>7. CASE CloseDb
  BY <1>7, OrphanClose DEF CloseDb
<1>8. ASSUME NEW s \in Stmt, CloseStmt(s)
      PROVE  NoOrphanRef'
  <2>1. CASE vdbe[s] = "freed"
    BY <1>1, <1>8, <2>1 DEF CloseStmt, traceVars
  <2>2. CASE vdbe[s] # "freed"
    BY <1>8, <2>2, OrphanClose DEF CloseStmt, traceVars
  <2>3. QED
    BY <2>1, <2>2
<1>9. CASE InsertFail \/ NumberEnd
  BY <1>9, OrphanClose DEF InsertFail, NumberEnd, traceVars
<1>10. QED
  BY <1>1, <1>2, <1>4, <1>5, <1>6, <1>7, <1>8, <1>9
  DEF Next, vars, OpenOk, OpenError, Prepare, Reset, Step, StepOwn, TraceCall, TraceTrigger,
      CallReturn, Callback, StepReturns, SelectRow, SelectEnd, InsertDone, ExecNext, ExecEnd, traceVars

LEMMA OrphanInvariance == Spec => [](IInv /\ NoOrphanRef)
<1>1. Init => IInv /\ NoOrphanRef
  BY InitGood DEF Init, NoOrphanRef
<1>2. IInv /\ NoOrphanRef /\ [Next]_vars => (IInv /\ NoOrphanRef)'
  BY StepKeepsIInv, OrphanStep
<1>3. QED
  BY <1>1, <1>2, PTL DEF Spec

\* A function or tracer reference that lives is the one its name or its SQLiteDb
\* would delete (java_destroy, nativeTrace, nativeClose), for any client.
THEOREM NothingOrphaned == Spec => []NoOrphanRef
BY OrphanInvariance, PTL

-----------------------------------------------------------------------------
(* Closing and freeing.                                                    *)

NoExec == \A i \in 1..Len(stack) : stack[i].op # "exec"

\* SQLite frees a closed connection with its last statement, except in
\* sqlite3_exec, so no connection is closed there; before it is open and after
\* it is freed a connection has nothing.
Life ==
  /\ wrapper = "live" <=> handle = "open"
  /\ wrapper # "live" => trace = Null
  /\ handle = "zombie" => wrapper = "deleted" /\ Unfinalized(vdbe) # {}
  /\ handle \in {"none", "sick", "freed"} =>
       Unfinalized(vdbe) = {} /\ \A n \in Name : reg[n] = Null
  /\ handle # "open" => NoExec

LEMMA PushedOp ==
  ASSUME TypeOK, NoExec, NEW s \in Stmt, NEW op \in Op, NEW phase \in Phase,
         Enter(s, op, phase), op # "exec"
  PROVE  NoExec'
<1> DEFINE f == [stmt |-> s, op |-> op, phase |-> phase, call |-> Null, kind |-> "func"]
<1>1. f \in Frame /\ stack' = Append(stack, f) /\ f.op = op
  BY DEF Enter, Frame
<1> HIDE DEF f
<1>2. /\ Len(stack') = Len(stack) + 1 /\ stack'[Len(stack) + 1] = f
      /\ \A i \in 1..Len(stack) : stack'[i] = stack[i]
  BY <1>1, PushFrame DEF TypeOK
<1>3. QED
  BY <1>1, <1>2, StackFrames DEF NoExec

LEMMA PoppedOp ==
  ASSUME TypeOK, NoExec, stack # <<>>, stack' = Pop
  PROVE  NoExec'
<1>1. /\ Len(stack') = Len(stack) - 1
      /\ \A i \in 1..(Len(stack) - 1) : stack'[i] = stack[i]
  BY PopFrame DEF TypeOK, Pop
<1>2. QED
  BY <1>1, StackFrames DEF NoExec

LEMMA TopOp ==
  ASSUME TypeOK, NoExec, stack # <<>>, NEW f \in Frame, f.op = Top.op, stack' = SetTop(f)
  PROVE  NoExec'
<1>1. /\ Len(stack') = Len(stack)
      /\ \A i \in 1..Len(stack) : stack'[i] = IF i = Len(stack) THEN f ELSE stack[i]
  BY ChangeTop DEF TypeOK, SetTop
<1>2. QED
  BY <1>1, StackFrames DEF NoExec, Top

LEMMA InvokeOp ==
  ASSUME TypeOK, NoExec, NativeRuns, NEW r \in Ref \cup {Null},
         NEW kind \in {"trace", "coll", "func"}, Invoke(r, kind)
  PROVE  NoExec'
<1> DEFINE f == [Top EXCEPT !.call = r, !.kind = kind, !.phase = "body"]
<1>1. stack # <<>> /\ Top \in Frame
  BY StackFrames DEF NativeRuns
<1>2. f \in Frame /\ f.op = Top.op
  BY <1>1 DEF Frame, Phase
<1> HIDE DEF f
<1>3. stack' = stack \/ stack' = SetTop(f)
  BY DEF Invoke, f
<1>4. QED
  BY <1>1, <1>2, <1>3, TopOp DEF NoExec

\* No step makes a call of sqlite3_exec on a connection that is not open.
LEMMA ExecStep ==
  ASSUME IInv, NoExec, handle # "open", Life, [Next]_vars
  PROVE  NoExec'
<1> USE DEF IInv
<1>0. /\ wrapper # "live" /\ {"select", "insert", "exec", "number"} \subseteq Op
      /\ {"start", "body", "failed"} \subseteq Phase
  BY DEF Life, Op, Phase
<1>1. CASE UNCHANGED stack
  BY <1>1 DEF NoExec
<1>2. ASSUME NEW s \in Stmt, NEW op \in {"select", "insert"}, Step(s, op)
      PROVE  NoExec'
  BY <1>0, <1>2, PushedOp DEF Step
<1>3. CASE TraceCall \/ TraceTrigger
  BY <1>3, InvokeOp DEF TraceCall, TraceTrigger, TypeOK
<1>4. ASSUME NEW n \in Name, Callback(n)
      PROVE  NoExec'
  BY <1>4, InvokeOp DEF Callback, TypeOK, Kind
<1>5. CASE CallReturn
  <2> DEFINE f == [Top EXCEPT !.call = Null]
  <2>1. stack # <<>> /\ Top \in Frame /\ stack' = SetTop(f)
    BY <1>5, StackFrames DEF CallReturn, InCallback
  <2>2. f \in Frame /\ f.op = Top.op
    BY <2>1 DEF Frame
  <2> HIDE DEF f
  <2>3. QED
    BY <2>1, <2>2, TopOp
<1>6. CASE StepReturns
  <2>1. ~ExecNext
    <3>1. SUFFICES ASSUME ExecNext PROVE FALSE
      OBVIOUS
    <3>2. stack # <<>> /\ Len(stack) \in 1..Len(stack) /\ Top.op = "exec"
      BY <3>1, StackFrames DEF ExecNext, Returning, NativeRuns
    <3>3. QED
      BY <3>2 DEF NoExec, Top
  <2>2. stack # <<>> /\ stack' = Pop
    BY <1>6, <2>1 DEF StepReturns, SelectRow, SelectEnd, InsertDone, InsertFail, NumberEnd, ExecEnd,
       Returning, NativeRuns
  <2>3. QED
    BY <2>2, PoppedOp
<1>7. QED
  BY <1>0, <1>1, <1>2, <1>3, <1>4, <1>5, <1>6
  DEF Next, vars, OpenOk, OpenError, OpenReadOnly, Trace, CreateCollation, CreateFunction, Prepare,
      Reset, CloseStmt, CloseDb, StepOwn

LEMMA LifeInit == Init => Life
BY DEF Init, Life, Unfinalized, NoExec

\* The statement of the innermost call is not finalized, and neither is an open
\* one of the client.
LEMMA StillThere ==
  ASSUME IInv
  PROVE  /\ stack # <<>> => /\ Top.stmt \in Unfinalized(vdbe)
                            /\ Top.op = "exec" => ~NoExec
         /\ \A s \in Stmt : jstmt[s] = "open" => s \in Unfinalized(vdbe)
<1>1. ASSUME stack # <<>>
      PROVE  Top.stmt \in Unfinalized(vdbe) /\ (Top.op = "exec" => ~NoExec)
  <2>1. /\ Top.stmt \in Stmt /\ Len(stack) \in 1..Len(stack)
        /\ GoodFrame(Top)
    BY <1>1, StackFrames DEF IInv, GoodStack, Top
  <2>2. QED
    BY <2>1 DEF GoodFrame, Unfinalized, NoExec, Top
<1>2. QED
  BY <1>1 DEF IInv, Handles, Unfinalized

LEMMA LifeStep ==
  ASSUME IInv, Life, [Next]_vars
  PROVE  Life'
<1> USE DEF IInv
<1>0. handle # "open" => NoExec'
  BY ExecStep DEF Life
<1>1. CASE UNCHANGED <<handle, wrapper, trace, reg, vdbe>>
  BY <1>0, <1>1 DEF Life
<1>2. CASE OpenOk \/ OpenError
  BY <1>0, <1>2 DEF OpenOk, OpenError, Life, traceVars, stmtVars, Unfinalized
<1>3. CASE OpenReadOnly
  BY <1>0, <1>3, CloseZombieEnds DEF OpenReadOnly, Life, traceVars, stmtVars
<1>4. CASE wrapper = "live" /\ UNCHANGED <<handle, wrapper>>
  BY <1>4 DEF Life
<1>5. CASE CloseDb
  <2>1. NoExec'
    <3>1. stack' = stack /\ MayCloseDb
      BY <1>5 DEF CloseDb
    <3>2. \A i \in DOMAIN stack : stack[i].op # "exec"
      BY <3>1 DEF MayCloseDb
    <3>3. QED
      BY <3>1, <3>2, StackFrames DEF NoExec
  <2>2. vdbe' = vdbe /\ wrapper' = "deleted" /\ trace' = Null
    BY <1>5 DEF CloseDb, stmtVars
  <2>3. \/ handle' = "freed" /\ Unfinalized(vdbe) = {} /\ \A n \in Name : reg'[n] = Null
        \/ handle' = "zombie" /\ Unfinalized(vdbe) # {}
    BY <1>5, CloseZombieEnds DEF CloseDb
  <2>4. QED
    BY <2>1, <2>2, <2>3 DEF Life
<1>6. ASSUME NEW s \in Stmt, jstmt[s] = "open", vdbe'[s] \in {"ready", "run"},
             \A x \in Stmt \ {s} : vdbe'[x] = vdbe[x],
             UNCHANGED <<handle, wrapper, trace, reg>>
      PROVE  Life'
  <2>1. Unfinalized(vdbe) # {} /\ s \in Unfinalized(vdbe')
    BY <1>6, StillThere DEF Unfinalized
  <2>2. QED
    BY <1>0, <1>6, <2>1 DEF Life
<1>7. ASSUME CloseZombie(handle, vdbe', ref), UNCHANGED <<wrapper, trace>>,
             Unfinalized(vdbe') \subseteq Unfinalized(vdbe)
      PROVE  Life'
  <2>1. CASE handle = "zombie" /\ Unfinalized(vdbe') = {} /\ handle' = "freed"
             /\ reg' = [n \in Name |-> Null]
    BY <1>0, <1>7, <2>1 DEF Life
  <2>2. CASE (handle # "zombie" \/ Unfinalized(vdbe') # {}) /\ handle' = handle /\ reg' = reg
    BY <1>0, <1>7, <2>2 DEF Life
  <2>3. QED
    BY <1>7, <2>1, <2>2, CloseZombieEnds
<1>8. ASSUME NEW s \in Stmt, CloseStmt(s)
      PROVE  Life'
  <2>1. UNCHANGED <<wrapper, trace>> /\ vdbe' = [vdbe EXCEPT ![s] = "freed"]
    BY <1>8 DEF CloseStmt, traceVars
  <2>2. CASE vdbe[s] = "freed"
    <3>1. vdbe' = vdbe /\ UNCHANGED <<handle, reg>>
      BY <1>8, <2>1, <2>2 DEF CloseStmt, TypeOK
    <3>2. QED
      BY <1>1, <2>1, <3>1
  <2>3. CASE vdbe[s] # "freed"
    <3>1. Unfinalized(vdbe') \subseteq Unfinalized(vdbe)
      BY <2>1 DEF Unfinalized, TypeOK
    <3>2. QED
      BY <1>7, <1>8, <2>1, <2>3, <3>1 DEF CloseStmt
  <2>4. QED
    BY <2>2, <2>3
<1>9. CASE SelectEnd \/ InsertDone \/ InsertFail \/ NumberEnd \/ ExecEnd
  <2>1. stack # <<>> /\ Top.stmt \in Unfinalized(vdbe)
    BY <1>9, StillThere DEF SelectEnd, InsertDone, InsertFail, NumberEnd, ExecEnd, Returning, NativeRuns
  <2>2. CASE SelectEnd \/ InsertDone
    <3>1. /\ UNCHANGED <<handle, wrapper, trace, reg>>
          /\ vdbe'[Top.stmt] \in {"ready", "halt"}
          /\ \A x \in Stmt \ {Top.stmt} : vdbe'[x] = vdbe[x]
      BY <2>1, <2>2 DEF SelectEnd, InsertDone, traceVars, TypeOK, Unfinalized
    <3>2. Top.stmt \in Unfinalized(vdbe')
      BY <2>1, <3>1 DEF Unfinalized
    <3>3. QED
      BY <1>0, <2>1, <3>1, <3>2 DEF Life
  <2>3. CASE InsertFail \/ NumberEnd
    <3>1. Unfinalized(vdbe') \subseteq Unfinalized(vdbe)
      BY <2>1, <2>3 DEF InsertFail, NumberEnd, Unfinalized, TypeOK
    <3>2. QED
      BY <1>7, <2>3, <3>1 DEF InsertFail, NumberEnd, traceVars
  <2>4. CASE ExecEnd
    <3>1. ~NoExec
      BY <2>1, <2>4, StillThere DEF ExecEnd, Returning
    <3>2. handle = "open" /\ wrapper = "live" /\ UNCHANGED <<handle, wrapper>>
      BY <2>4, <3>1 DEF Life, ExecEnd
    <3>3. QED
      BY <1>4, <3>2
  <2>5. QED
    BY <1>9, <2>2, <2>3, <2>4
<1>10. ASSUME NEW s \in Stmt, Reset(s)
       PROVE  Life'
  BY <1>6, <1>10 DEF Reset, traceVars, TypeOK
<1>11. ASSUME NEW s \in Stmt, NEW op \in {"select", "insert"}, Step(s, op)
       PROVE  Life'
  <2>1. CASE vdbe' = vdbe
    BY <1>1, <1>11, <2>1 DEF Step, traceVars
  <2>2. CASE vdbe' = [vdbe EXCEPT ![s] = "run"] \/ vdbe' = [vdbe EXCEPT ![s] = "ready"]
    BY <1>6, <1>11, <2>2 DEF Step, traceVars, TypeOK
  <2>3. QED
    BY <1>11, <2>1, <2>2 DEF Step
<1>12. ASSUME NEW r \in Ref \cup {Null}, Trace(r)
       PROVE  Life'
  BY <1>4, <1>12 DEF Trace
<1>13. ASSUME NEW n \in Name, NEW r \in Ref, CreateCollation(n, r) \/ CreateFunction(n, r)
       PROVE  Life'
  BY <1>4, <1>13 DEF CreateCollation, CreateFunction, Define
<1>14. ASSUME NEW s \in Stmt, NEW op, Prepare(s) \/ StepOwn(s, op)
       PROVE  Life'
  BY <1>4, <1>14 DEF Prepare, StepOwn
<1>15. CASE TraceCall \/ TraceTrigger \/ CallReturn \/ (\E n \in Name : Callback(n)) \/ SelectRow \/ ExecNext
  BY <1>1, <1>15 DEF TraceCall, TraceTrigger, CallReturn, Callback, SelectRow, ExecNext, traceVars, stmtVars
<1>16. CASE UNCHANGED vars
  BY <1>1, <1>16 DEF vars
<1>17. QED
  BY <1>2, <1>3, <1>5, <1>8, <1>9, <1>10, <1>11, <1>12, <1>13, <1>14, <1>15, <1>16
  DEF Next, StepReturns, Name

LEMMA LifeInvariance == Spec => [](IInv /\ NoOrphanRef /\ Life)
<1>1. IInv /\ Life /\ [Next]_vars => Life'
  BY LifeStep
<1>2. QED
  BY <1>1, LifeInit, OrphanInvariance, PTL DEF Spec

\* A closed connection is a zombie while it has statements, and freed with the
\* last of them and all its references (nativeClose, sqlite3LeaveMutexAndCloseZombie),
\* for any client.
THEOREM LivesWithStatements == Spec => []HandleLifetime
<1>1. ASSUME IInv, NoOrphanRef, Life
      PROVE  HandleLifetime
  <2>1. ASSUME handle = "freed"
        PROVE  /\ Unfinalized(vdbe) = {} /\ stack = <<>>
               /\ \A r \in Ref : ref[r] \notin {"func", "trace"}
    <3>1. Unfinalized(vdbe) = {} /\ (\A n \in Name : reg[n] = Null) /\ trace = Null
      BY <1>1, <2>1 DEF Life
    <3>2. stack = <<>>
      BY <1>1, <3>1, StillThere
    <3>3. QED
      BY <1>1, <3>1, <3>2, NullAssumption DEF NoOrphanRef, Name
  <2>2. QED
    BY <1>1, <2>1 DEF Life, HandleLifetime
<1>2. QED
  BY <1>1, LifeInvariance, PTL

-----------------------------------------------------------------------------
(* A client that keeps to the contract.                                    *)

\* SQLite is entered on open connections only, and knows the tracer that is there.
Careful ==
  /\ handle # "open" => stack = <<>>
  /\ handle \in {"none", "open"} => traceArg = trace
  /\ fault = "none"

\* The reference that a callback is about to use is what it was made for.
LEMMA CallbackFinds ==
  ASSUME IInv, Careful, TraceCall \/ TraceTrigger \/ \E n \in Name : Callback(n)
  PROVE  fault' = fault /\ UNCHANGED <<handle, trace, traceArg>> /\ handle = "open"
<1> USE DEF IInv
<1>1. CASE TraceCall \/ TraceTrigger
  <2>1. stack # <<>> /\ traceArg # Null /\ Invoke(traceArg, "trace")
    BY <1>1 DEF TraceCall, TraceTrigger, NativeRuns
  <2>2. handle = "open" /\ ref[traceArg] = "trace"
    BY <2>1 DEF Careful, RefOwnership
  <2>3. QED
    BY <1>1, <2>1, <2>2 DEF TraceCall, TraceTrigger, Invoke, traceVars
<1>2. CASE \E n \in Name : Callback(n)
  <2>1. PICK n \in Name : Callback(n)
    BY <1>2
  <2>2. NativeRuns /\ Traced /\ compiled[Top.stmt][n] # Null
    BY <2>1 DEF Callback
  <2>3. Top.stmt \in Stmt /\ vdbe[Top.stmt] = "run" /\ stack # <<>>
    BY <2>2, TopState DEF Traced
  <2>4. reg[n] # Null
    BY <2>2, <2>3 DEF CurrentPrograms, Agrees
  <2>5. ref[reg[n]] = Kind(n)
    BY <2>4 DEF RefOwnership
  <2>6. QED
    BY <2>1, <2>3, <2>5 DEF Callback, Invoke, traceVars, Careful
<1>3. QED
  BY <1>1, <1>2

LEMMA CarefulStep ==
  ASSUME Careless = {}, IInv, Life, Careful, [Next]_vars
  PROVE  Careful'
<1> USE DEF IInv
<1>1. CASE UNCHANGED <<handle, trace, traceArg, stack, fault>>
  BY <1>1 DEF Careful
<1>2. CASE OpenOk \/ OpenError \/ OpenReadOnly
  BY <1>2, CloseZombieEnds DEF OpenOk, OpenError, OpenReadOnly, traceVars, Careful
<1>3. ASSUME NEW r \in Ref \cup {Null}, Trace(r)
      PROVE  Careful'
  BY <1>3, NullAssumption DEF Trace, Careful
<1>4. CASE CloseDb
  <2>1. stack = <<>> /\ UNCHANGED <<stack, fault>> /\ handle' \in {"freed", "zombie"}
    BY <1>4, CloseZombieEnds DEF CloseDb, MayCloseDb
  <2>2. QED
    BY <2>1 DEF Careful
<1>5. ASSUME CloseZombie(handle, vdbe', ref)
      PROVE  /\ handle = "open" => handle' = "open"
             /\ handle # "open" => handle' \in {handle, "freed"}
  BY <1>5, CloseZombieEnds
<1>6. ASSUME NEW s \in Stmt, CloseStmt(s)
      PROVE  Careful'
  <2>1. jstmt[s] = "open" /\ vdbe[s] # "freed"
    BY <1>6 DEF CloseStmt, Handles
  <2>2. CloseZombie(handle, vdbe', ref) /\ UNCHANGED <<traceVars, stack, fault>>
    BY <1>6, <2>1 DEF CloseStmt
  <2>3. handle = "none" => handle' = "none"
    BY <2>2, CloseZombieEnds
  <2>4. QED
    BY <1>5, <2>2, <2>3 DEF Careful, traceVars
<1>7. ASSUME handle = "open", handle' = "open", UNCHANGED <<traceVars, fault>>
      PROVE  Careful'
  BY <1>7 DEF Careful, traceVars
<1>8. ASSUME NEW s \in Stmt, NEW op, Step(s, op) \/ StepOwn(s, op)
      PROVE  Careful'
  BY <1>7, <1>8 DEF Step, StepOwn, Life
<1>9. CASE TraceCall \/ TraceTrigger \/ \E n \in Name : Callback(n)
  BY <1>7, <1>9, CallbackFinds DEF traceVars
<1>10. CASE CallReturn \/ StepReturns
  <2>1. handle = "open"
    BY <1>10 DEF CallReturn, StepReturns, SelectRow, SelectEnd, InsertDone, InsertFail, NumberEnd,
       ExecNext, ExecEnd, Returning, NativeRuns, InCallback, Careful
  <2>2. CASE InsertFail \/ NumberEnd
    <3>1. handle' = "open"
      BY <1>5, <2>1, <2>2 DEF InsertFail, NumberEnd
    <3>2. QED
      BY <1>7, <2>1, <2>2, <3>1 DEF InsertFail, NumberEnd
  <2>3. CASE ~(InsertFail \/ NumberEnd)
    BY <1>7, <1>10, <2>1, <2>3 DEF CallReturn, StepReturns, SelectRow, SelectEnd, InsertDone, ExecNext,
       ExecEnd
  <2>4. QED
    BY <2>2, <2>3
<1>11. ASSUME NEW n \in Name, NEW r \in Ref, CreateCollation(n, r) \/ CreateFunction(n, r)
       PROVE  Careful'
  BY <1>1, <1>11 DEF CreateCollation, CreateFunction, Define, traceVars
<1>12. ASSUME NEW s \in Stmt, Prepare(s) \/ Reset(s)
       PROVE  Careful'
  BY <1>1, <1>12 DEF Prepare, Reset, traceVars
<1>13. CASE UNCHANGED vars
  BY <1>1, <1>13 DEF vars
<1>14. QED
  BY <1>2, <1>3, <1>4, <1>6, <1>8, <1>9, <1>10, <1>11, <1>12, <1>13 DEF Next, Name

\* A client that keeps to the documented contract never reaches freed memory or a
\* deleted reference through nativeFinalize, nativeInsert, java_trace, java_compare
\* or java_func, however it nests its calls and orders its closes.
THEOREM CarefulMeetsNoFault ==
  ASSUME Careless = {}
  PROVE  Spec => []NoFault
<1>1. Init => Careful
  BY DEF Init, Careful
<1>2. IInv /\ Life /\ Careful /\ [Next]_vars => Careful'
  BY CarefulStep
<1>3. Careful => NoFault
  BY DEF Careful, NoFault
<1>4. QED
  BY <1>1, <1>2, <1>3, LifeInvariance, PTL DEF Spec
=============================================================================
