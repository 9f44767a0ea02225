----------------------- MODULE LockContention_proofs -----------------------
(***************************************************************************)
(* Safety of connections that contend for one file: exclusion, a bounded   *)
(* wait, nobody waiting in a circle, no write or lock left behind; for any *)
(* connections, any timeout and any of them untidy.                        *)
(***************************************************************************)
EXTENDS LockContention, UnixFileLock_proofs

\* The locks that a position in sqlite3_step, or a transaction, comes with.
Position(c) ==
  /\ inTrans[c] = "write" => Holds(c, RESERVED_LOCK)
  /\ inTrans[c] = "read" => Holds(c, SHARED_LOCK)
  /\ inTrans[c] = "none" /\ pc[c] \in {"idle", "share"} => ~Holds(c, SHARED_LOCK)
  /\ pc[c] = "share" => inTrans[c] = "none"
  /\ pc[c] = "reserve" => inTrans[c] # "write" /\ Holds(c, SHARED_LOCK)
  /\ pc[c] = "exclude" => inTrans[c] # "write" /\ Holds(c, RESERVED_LOCK)
  /\ pc[c] = "drop" => inTrans[c] = "none"
  /\ pc[c] \in {"work", "commit", "downgrade"} => inTrans[c] = "write"
  /\ pc[c] = "release" => inTrans[c] = "read"
  /\ c \in asleep => pc[c] \in {"share", "exclude", "work", "commit"}

\* What the busy handler has slept after n calls.
Slept(n) == IF Prior(n) <= Timeout THEN Prior(n) ELSE Timeout

Budget(c) ==
  /\ nBusy[c] >= 0 => waited[c] = Slept(nBusy[c])
  /\ waited[c] <= Timeout

\* Between two calls in autocommit mode a transaction has a statement to keep it,
\* and a query has found it there.
Settled(c) ==
  /\ pc[c] = "idle" /\ autoCommit[c] =>
       /\ inTrans[c] = "write" => left[c] = "write"
       /\ inTrans[c] = "read" => select[c] \/ left[c] # "none"
  /\ pc[c] = "work" /\ autoCommit[c] => goal[c] = "write" \/ left[c] = "write"

Good(c) == Position(c) /\ Budget(c) /\ Settled(c)

IInv == TypeOK /\ LockInv /\ \A c \in Conn : Good(c)

\* A step of another connection.
Same(d) ==
  /\ eFileLock'[d] = eFileLock[d] /\ inTrans'[d] = inTrans[d]
  /\ autoCommit'[d] = autoCommit[d] /\ select'[d] = select[d] /\ left'[d] = left[d]
  /\ goal'[d] = goal[d] /\ pc'[d] = pc[d] /\ (d \in asleep' <=> d \in asleep)
  /\ nBusy'[d] = nBusy[d] /\ waited'[d] = waited[d]

LEMMA OthersSame ==
  ASSUME IInv, NEW c \in Conn, TypeOK', LockInv',
         \A d \in Conn \ {c} : Same(d), Good(c)'
  PROVE  IInv'
<1>1. ASSUME NEW d \in Conn, d # c
      PROVE  Good(d)'
  <2>1. Same(d) /\ Good(d)
    BY <1>1 DEF IInv
  <2>2. Position(d)'
    BY <2>1 DEF Same, Good, Position, Holds
  <2>3. Budget(d)'
    BY <2>1 DEF Same, Good, Budget, Slept, Prior
  <2>4. Settled(d)'
    BY <2>1 DEF Same, Good, Settled
  <2>5. QED
    BY <2>2, <2>3, <2>4 DEF Good
<1>2. QED
  BY <1>1 DEF IInv

-----------------------------------------------------------------------------
(* The busy handler.                                                       *)

\* The two tables agree: totals are the sums of delays (141368-141371).
LEMMA TablesAgree ==
  ASSUME NEW n \in Nat
  PROVE  /\ Delay(n) \in Nat \ {0} /\ Prior(n) \in Nat
         /\ Prior(n + 1) = Prior(n) + Delay(n)
<1>1. /\ delays[1] = 1 /\ delays[2] = 2 /\ delays[3] = 5 /\ delays[4] = 10
      /\ delays[5] = 15 /\ delays[6] = 20 /\ delays[7] = 25 /\ delays[8] = 25
      /\ delays[9] = 25 /\ delays[10] = 50 /\ delays[11] = 50 /\ delays[12] = 100
  BY DEF delays
<1>2. /\ totals[1] = 0 /\ totals[2] = 1 /\ totals[3] = 3 /\ totals[4] = 8
      /\ totals[5] = 18 /\ totals[6] = 33 /\ totals[7] = 53 /\ totals[8] = 78
      /\ totals[9] = 103 /\ totals[10] = 128 /\ totals[11] = 178 /\ totals[12] = 228
  BY DEF totals
<1>3. CASE n >= 12
  BY <1>1, <1>2, <1>3 DEF Delay, Prior, NDELAY
<1>4. CASE n < 12
  <2>1. n \in {0, 1, 2, 3, 4, 5, 6, 7, 8, 9, 10, 11}
    BY <1>4
  <2>2. n = 0 \/ n = 1 \/ n = 2 \/ n = 3 \/ n = 4 \/ n = 5
    => /\ Delay(n) \in Nat \ {0} /\ Prior(n) \in Nat
       /\ Prior(n + 1) = Prior(n) + Delay(n)
    BY <1>1, <1>2 DEF Delay, Prior, NDELAY
  <2>3. n = 6 \/ n = 7 \/ n = 8 \/ n = 9 \/ n = 10 \/ n = 11
    => /\ Delay(n) \in Nat \ {0} /\ Prior(n) \in Nat
       /\ Prior(n + 1) = Prior(n) + Delay(n)
    BY <1>1, <1>2 DEF Delay, Prior, NDELAY
  <2>4. QED
    BY <2>1, <2>2, <2>3
<1>5. QED
  BY <1>3, <1>4

LEMMA SleepOnKeeps ==
  ASSUME TypeOK, NEW c \in Conn, Budget(c), SleepOn(c)
  PROVE  /\ asleep' \in SUBSET Conn /\ c \in asleep'
         /\ nBusy' \in [Conn -> Nat \cup {-1}] /\ waited' \in [Conn -> Nat]
         /\ Budget(c)'
         /\ \A d \in Conn \ {c} : /\ nBusy'[d] = nBusy[d] /\ waited'[d] = waited[d]
                                  /\ d \in asleep' <=> d \in asleep
<1> DEFINE n == nBusy[c]
<1>1. n \in Nat /\ waited[c] = Slept(n) /\ Sleep(n) > 0
  BY DEF TypeOK, Patient, SleepOn, Budget
<1>2. /\ Delay(n) \in Nat \ {0} /\ Prior(n) \in Nat
      /\ Prior(n + 1) = Prior(n) + Delay(n)
  BY <1>1, TablesAgree
<1>3. Sleep(n) \in Nat /\ waited[c] + Sleep(n) = Slept(n + 1) /\ Slept(n + 1) <= Timeout
  BY <1>1, <1>2, TimeoutAssumption DEF Sleep, Slept
<1>4. /\ asleep' = asleep \cup {c}
      /\ waited' = [waited EXCEPT ![c] = @ + Sleep(n)]
      /\ nBusy' = [nBusy EXCEPT ![c] = @ + 1]
  BY DEF SleepOn
<1>5. nBusy'[c] = n + 1 /\ waited'[c] = waited[c] + Sleep(n)
  BY <1>4 DEF TypeOK
<1>6. Slept(nBusy[c])' = Slept(n + 1)
  BY <1>5 DEF Slept, Prior
<1>7. Budget(c)'
  BY <1>3, <1>5, <1>6 DEF Budget
<1>8. QED
  BY <1>1, <1>3, <1>4, <1>7 DEF TypeOK

LEMMA GiveUpKeeps ==
  ASSUME TypeOK, NEW c \in Conn, Budget(c), GiveUp(c)
  PROVE  /\ asleep' = asleep /\ waited' = waited
         /\ nBusy' \in [Conn -> Nat \cup {-1}]
         /\ Budget(c)'
         /\ \A d \in Conn \ {c} : nBusy'[d] = nBusy[d]
  BY DEF TypeOK, Budget, GiveUp, Set

-----------------------------------------------------------------------------
(* What a call of the lock layer does to one connection.                   *)

LEMMA Locked ==
  ASSUME LockInv, NEW c \in Conn, NEW level, Asks(c, level), Lock(c, level)
  PROVE  /\ eFileLock' \in [Conn -> Level] /\ Holds(c, level)'
         /\ \A d \in Conn \ {c} : eFileLock'[d] = eFileLock[d]
  BY DEF Lock, LockInv, LockTypeOK, lockVars, Holds, Asks, Level, NO_LOCK, SHARED_LOCK,
         RESERVED_LOCK, PENDING_LOCK, EXCLUSIVE_LOCK

LEMMA Refused ==
  ASSUME LockInv, NEW c \in Conn, NEW level, Asks(c, level), LockBusy(c, level)
  PROVE  /\ eFileLock' \in [Conn -> Level]
         /\ \A l \in Level : Holds(c, l) => Holds(c, l)'
         /\ level = SHARED_LOCK => UNCHANGED eFileLock
         /\ \A d \in Conn \ {c} : eFileLock'[d] = eFileLock[d]
  BY DEF LockBusy, Busy, ReadersLeft, LockInv, LockTypeOK, lockVars, Holds, Asks, Level, NO_LOCK,
         SHARED_LOCK, RESERVED_LOCK, PENDING_LOCK, EXCLUSIVE_LOCK

LEMMA Unlocked ==
  ASSUME LockInv, NEW c \in Conn, NEW level \in {NO_LOCK, SHARED_LOCK}, Unlock(c, level)
  PROVE  /\ eFileLock' \in [Conn -> Level] /\ ~Holds(c, level + 1)'
         /\ Holds(c, level) => Holds(c, level)'
         /\ \A d \in Conn \ {c} : eFileLock'[d] = eFileLock[d]
  BY DEF Unlock, LockInv, LockTypeOK, lockVars, Holds, Level, NO_LOCK, SHARED_LOCK,
         RESERVED_LOCK, PENDING_LOCK, EXCLUSIVE_LOCK

LEMMA NoLockStep ==
  ASSUME LockInv, UNCHANGED lockVars
  PROVE  LockInv' /\ UNCHANGED eFileLock
  BY DEF LockInv, LockTypeOK, lockVars, Holders, Holds, InodeAgrees, LockExclusion

-----------------------------------------------------------------------------
(* Steps that take no lock and give none back.                             *)

\* A call of the program: the position it starts from, the one it goes to.
LEMMA CallKeeps ==
  ASSUME IInv, NEW c \in Conn, NEW g \in Goal, NEW label \in Label, Start(c, g, label),
         inTrans' = inTrans,
         autoCommit' \in [Conn -> BOOLEAN], select' \in [Conn -> BOOLEAN],
         left' \in [Conn -> {"none", "read", "write"}],
         \A d \in Conn \ {c} : /\ autoCommit'[d] = autoCommit[d]
                               /\ select'[d] = select[d] /\ left'[d] = left[d],
         label = "share" => inTrans[c] = "none",
         label = "reserve" => inTrans[c] = "read",
         label \in {"work", "commit", "downgrade"} => inTrans[c] = "write",
         label = "release" => inTrans[c] = "read",
         label \notin {"exclude", "drop"},
         label = "idle" /\ autoCommit'[c] =>
           /\ inTrans[c] = "write" => left'[c] = "write"
           /\ inTrans[c] = "read" => select'[c] \/ left'[c] # "none",
         label = "work" /\ autoCommit'[c] => g = "write" \/ left'[c] = "write"
  PROVE  IInv'
<1>1. /\ pc[c] = "idle" /\ c \notin asleep
      /\ goal' = [goal EXCEPT ![c] = g] /\ pc' = [pc EXCEPT ![c] = label]
      /\ nBusy' = [nBusy EXCEPT ![c] = 0] /\ waited' = [waited EXCEPT ![c] = 0]
      /\ UNCHANGED lockVars /\ asleep' = asleep
  BY DEF Start, At, Set, Goto
<1>2. LockInv' /\ eFileLock' = eFileLock
  BY <1>1, NoLockStep DEF IInv
<1>3. TypeOK'
  BY <1>1, <1>2 DEF IInv, TypeOK, LockInv
<1>4. \A d \in Conn \ {c} : Same(d)
  BY <1>1, <1>2 DEF Same, IInv, TypeOK
<1>5. /\ pc'[c] = label /\ goal'[c] = g /\ nBusy'[c] = 0 /\ waited'[c] = 0
  BY <1>1 DEF IInv, TypeOK
<1>6. Position(c)'
  BY <1>1, <1>2, <1>5 DEF IInv, Good, Position, Holds, LockInv, LockTypeOK, Level, NO_LOCK,
     SHARED_LOCK, RESERVED_LOCK, PENDING_LOCK, EXCLUSIVE_LOCK
<1>7. Budget(c)'
  <2>1. Slept(nBusy[c])' = Slept(0) /\ Slept(0) = 0
    BY <1>5, TimeoutAssumption DEF Slept, Prior, totals, NDELAY
  <2>2. QED
    BY <1>5, <2>1, TimeoutAssumption DEF Budget
<1>8. Settled(c)'
  BY <1>5 DEF Settled
<1>9. QED
  BY <1>2, <1>3, <1>4, <1>6, <1>7, <1>8, OthersSame DEF Good

LEMMA BeginDeferredGood ==
  ASSUME IInv, NEW c \in Conn, BeginDeferred(c)
  PROVE  IInv'
<1>1. /\ autoCommit' = [autoCommit EXCEPT ![c] = FALSE]
      /\ inTrans' = inTrans /\ select' = select /\ left' = left
      /\ Start(c, "select", "idle")
  BY DEF BeginDeferred, Set
<1>2. "select" \in Goal /\ "idle" \in Label
  BY DEF Goal, Label
<1>3. QED
  BY <1>1, <1>2, CallKeeps DEF IInv, TypeOK

LEMMA StartSelectGood ==
  ASSUME IInv, NEW c \in Conn, StartSelect(c)
  PROVE  IInv'
<1> DEFINE label == IF inTrans[c] = "none" THEN "share" ELSE "idle"
<1>1. /\ select' = [select EXCEPT ![c] = inTrans[c] # "none"]
      /\ inTrans' = inTrans /\ autoCommit' = autoCommit /\ left' = left
      /\ Start(c, "select", label) /\ pc[c] = "idle"
  BY DEF StartSelect, Set, Start, At
<1>2. "select" \in Goal /\ label \in Label
  BY DEF Goal, Label
<1>3. label = "idle" /\ autoCommit'[c] =>
        /\ inTrans[c] = "write" => left'[c] = "write"
        /\ inTrans[c] = "read" => select'[c] \/ left'[c] # "none"
  BY <1>1 DEF IInv, TypeOK, Good, Settled
<1>4. select' \in [Conn -> BOOLEAN] /\ \A d \in Conn \ {c} : select'[d] = select[d]
  BY <1>1 DEF IInv, TypeOK
<1>5. QED
  BY <1>1, <1>2, <1>3, <1>4, CallKeeps DEF IInv, TypeOK

LEMMA StartWriteGood ==
  ASSUME IInv, NEW c \in Conn, NEW g \in {"write", "immediate", "exclusive"}, StartWrite(c, g)
  PROVE  IInv'
<1> DEFINE label == IF inTrans[c] = "none" THEN "share" ELSE "reserve"
<1>1. /\ UNCHANGED <<inTrans, autoCommit, select, left>>
      /\ Start(c, g, label) /\ inTrans[c] # "write"
  BY DEF StartWrite, transVars
<1>2. g \in Goal /\ label \in Label
  BY DEF Goal, Label
<1>3. inTrans[c] \in {"none", "read", "write"}
  BY DEF IInv, TypeOK
<1>4. QED
  BY <1>1, <1>2, <1>3, CallKeeps DEF IInv, TypeOK

LEMMA RetryGood ==
  ASSUME IInv, NEW c \in Conn, Retry(c)
  PROVE  IInv'
<1> DEFINE g == IF left[c] = "read" THEN "select" ELSE "write"
           label == CASE inTrans[c] = "none" -> "share"
                      [] inTrans[c] = "read" /\ left[c] = "write" -> "reserve"
                      [] inTrans[c] = "write" -> "work"
                      [] OTHER -> "idle"
<1>1. /\ left[c] # "none" /\ Start(c, g, label) /\ pc[c] = "idle"
      /\ select' = [select EXCEPT ![c] = select[c] \/ (left[c] = "read" /\ inTrans[c] # "none")]
      /\ left' = [left EXCEPT ![c] = "none"]
      /\ inTrans' = inTrans /\ autoCommit' = autoCommit
  BY DEF Retry, Set, Start, At
<1>2. g \in Goal /\ label \in Label \ {"exclude", "drop", "downgrade", "release"}
  BY DEF Goal, Label
<1>3. inTrans[c] \in {"none", "read", "write"} /\ left[c] \in {"none", "read", "write"}
  BY DEF IInv, TypeOK
<1>4. /\ label = "share" => inTrans[c] = "none"
      /\ label = "reserve" => inTrans[c] = "read"
      /\ label = "work" => inTrans[c] = "write"
      /\ label # "commit"
  OBVIOUS
<1>5. /\ label = "idle" /\ autoCommit[c] => inTrans[c] = "read" /\ left[c] = "read"
      /\ label = "work" /\ autoCommit[c] => g = "write"
  BY <1>1, <1>3 DEF IInv, Good, Settled
<1>6. select'[c] <=> select[c] \/ (left[c] = "read" /\ inTrans[c] # "none")
  BY <1>1 DEF IInv, TypeOK
<1>7. label = "idle" /\ autoCommit'[c] =>
        /\ inTrans[c] = "write" => left'[c] = "write"
        /\ inTrans[c] = "read" => select'[c] \/ left'[c] # "none"
  BY <1>1, <1>5, <1>6
<1>8. /\ select' \in [Conn -> BOOLEAN] /\ left' \in [Conn -> {"none", "read", "write"}]
      /\ \A d \in Conn \ {c} : select'[d] = select[d] /\ left'[d] = left[d]
  BY <1>1 DEF IInv, TypeOK
<1> HIDE DEF label, g
<1>9. QED
  BY <1>1, <1>2, <1>4, <1>5, <1>7, <1>8, CallKeeps DEF IInv, TypeOK

LEMMA StartWorkGood ==
  ASSUME IInv, NEW c \in Conn, NEW g \in {"select", "write"}, StartWork(c, g)
  PROVE  IInv'
<1>1. /\ UNCHANGED <<inTrans, autoCommit, select, left>>
      /\ Start(c, g, "work") /\ inTrans[c] = "write" /\ pc[c] = "idle"
  BY DEF StartWork, transVars, Start, At
<1>2. g \in Goal /\ "work" \in Label
  BY DEF Goal, Label
<1>3. autoCommit[c] => left[c] = "write"
  BY <1>1 DEF IInv, Good, Settled
<1>4. QED
  BY <1>1, <1>2, <1>3, CallKeeps DEF IInv, TypeOK

LEMMA CommitGood ==
  ASSUME IInv, NEW c \in Conn, Commit(c)
  PROVE  IInv'
<1> DEFINE label == CASE inTrans[c] = "write" -> "commit"
                      [] inTrans[c] = "read" /\ ~select[c] /\ left[c] = "none" -> "release"
                      [] OTHER -> "idle"
<1>1. /\ Start(c, "commit", label)
      /\ autoCommit' = [autoCommit EXCEPT ![c] = TRUE]
      /\ inTrans' = inTrans /\ select' = select /\ left' = left
  BY DEF Commit, Set
<1>2. "commit" \in Goal /\ label \in Label
  BY DEF Goal, Label
<1>3. /\ label \in {"commit", "release", "idle"}
      /\ label = "commit" => inTrans[c] = "write"
      /\ label = "release" => inTrans[c] = "read"
      /\ label = "idle" => inTrans[c] # "write"
      /\ label = "idle" /\ inTrans[c] = "read" => select[c] \/ left[c] # "none"
  OBVIOUS
<1> HIDE DEF label
<1>4. QED
  BY <1>1, <1>2, <1>3, CallKeeps DEF IInv, TypeOK

LEMMA FinishSelectGood ==
  ASSUME IInv, NEW c \in Conn, FinishSelect(c)
  PROVE  IInv'
<1> DEFINE label == IF autoCommit[c] /\ inTrans[c] = "read" /\ left[c] = "none"
                      THEN "release" ELSE "idle"
<1>1. /\ Start(c, "select", label) /\ pc[c] = "idle"
      /\ select' = [select EXCEPT ![c] = FALSE]
      /\ inTrans' = inTrans /\ autoCommit' = autoCommit /\ left' = left
  BY DEF FinishSelect, Set, Start, At
<1>2. "select" \in Goal /\ label \in Label
  BY DEF Goal, Label
<1>3. /\ label \in {"release", "idle"}
      /\ label = "release" => inTrans[c] = "read"
      /\ label = "idle" /\ autoCommit[c] /\ inTrans[c] = "read" => left[c] # "none"
  OBVIOUS
<1>4. autoCommit[c] /\ inTrans[c] = "write" => left[c] = "write"
  BY <1>1 DEF IInv, Good, Settled
<1>5. select' \in [Conn -> BOOLEAN] /\ \A d \in Conn \ {c} : select'[d] = select[d]
  BY <1>1 DEF IInv, TypeOK
<1> HIDE DEF label
<1>6. QED
  BY <1>1, <1>2, <1>3, <1>4, <1>5, CallKeeps DEF IInv, TypeOK

LEMMA RollbackGood ==
  ASSUME IInv, NEW c \in Conn, Rollback(c)
  PROVE  IInv'
<1> DEFINE label == RollbackTo(c, KeepsReading(c))
<1>1. /\ Start(c, "commit", label)
      /\ autoCommit' = [autoCommit EXCEPT ![c] = TRUE]
      /\ inTrans' = inTrans /\ select' = select /\ left' = left
  BY DEF Rollback, Set
<1>2. "commit" \in Goal /\ label \in Label
  BY DEF Goal, Label, RollbackTo
<1>3. /\ label \in {"downgrade", "release", "idle"}
      /\ label = "downgrade" => inTrans[c] = "write"
      /\ label = "release" => inTrans[c] = "read"
      /\ label = "idle" => inTrans[c] # "write"
      /\ label = "idle" /\ inTrans[c] = "read" => select[c] \/ left[c] # "none"
  BY DEF RollbackTo, KeepsReading
<1> HIDE DEF label
<1>4. QED
  BY <1>1, <1>2, <1>3, CallKeeps DEF IInv, TypeOK

LEMMA ResetLeftGood ==
  ASSUME IInv, NEW c \in Conn, ResetLeft(c)
  PROVE  IInv'
<1> DEFINE label == CASE ~autoCommit[c] -> "idle"
                      [] left[c] = "write" -> RollbackTo(c, select[c])
                      [] inTrans[c] = "read" /\ ~select[c] -> "release"
                      [] OTHER -> "idle"
<1>1. /\ Start(c, "select", label) /\ pc[c] = "idle"
      /\ left' = [left EXCEPT ![c] = "none"]
      /\ inTrans' = inTrans /\ autoCommit' = autoCommit /\ select' = select
  BY DEF ResetLeft, Set, Start, At
<1>2. autoCommit[c] /\ inTrans[c] = "write" => left[c] = "write"
  BY <1>1 DEF IInv, Good, Settled
<1>3. /\ label \in {"downgrade", "release", "idle"}
      /\ label = "downgrade" => inTrans[c] = "write"
      /\ label = "release" => inTrans[c] = "read"
      /\ label = "idle" /\ autoCommit[c] => inTrans[c] # "write"
      /\ label = "idle" /\ autoCommit[c] /\ inTrans[c] = "read" => select[c]
  BY <1>2 DEF RollbackTo
<1>4. "select" \in Goal /\ label \in Label
  BY <1>3 DEF Goal, Label
<1>5. left' \in [Conn -> {"none", "read", "write"}] /\ \A d \in Conn \ {c} : left'[d] = left[d]
  BY <1>1 DEF IInv, TypeOK
<1> HIDE DEF label
<1>6. QED
  BY <1>1, <1>3, <1>4, <1>5, CallKeeps DEF IInv, TypeOK

LEMMA WakeGood ==
  ASSUME IInv, NEW c \in Conn, Wake(c)
  PROVE  IInv'
<1>1. /\ asleep' = asleep \ {c}
      /\ UNCHANGED <<lockVars, transVars, goal, pc, nBusy, waited>>
  BY DEF Wake
<1>2. LockInv' /\ eFileLock' = eFileLock
  BY <1>1, NoLockStep DEF IInv
<1>3. TypeOK'
  BY <1>1, <1>2 DEF IInv, TypeOK, LockInv, transVars
<1>4. \A d \in Conn \ {c} : Same(d)
  BY <1>1, <1>2 DEF Same, transVars
<1>5. Position(c)' /\ Budget(c)' /\ Settled(c)'
  BY <1>1, <1>2 DEF IInv, Good, Position, Holds, Budget, Slept, Prior, Settled, transVars
<1>6. QED
  BY <1>2, <1>3, <1>4, <1>5, OthersSame DEF Good

-----------------------------------------------------------------------------
(* Steps inside sqlite3_step.                                              *)

\* SQLITE_BUSY is reported by a connection that has no write transaction.
LEMMA ReportEnds ==
  ASSUME TypeOK, NEW c \in Conn, inTrans[c] # "write", Report(c)
  PROVE  /\ UNCHANGED <<inTrans, autoCommit, select>>
         /\ pc' \in [Conn -> Label] /\ left' \in [Conn -> {"none", "read", "write"}]
         /\ pc'[c] \in {"idle", "release"} /\ (pc'[c] = "release" => inTrans[c] = "read")
         /\ Settled(c)'
         /\ \A d \in Conn \ {c} : pc'[d] = pc[d] /\ left'[d] = left[d]
<1>1. UNCHANGED <<inTrans, autoCommit, select>>
  BY DEF Report
<1>2. CASE /\ Goto(c, IF autoCommit[c] /\ inTrans[c] = "read" /\ ~KeepsReading(c)
                        THEN "release" ELSE "idle")
           /\ UNCHANGED left
  BY <1>1, <1>2 DEF TypeOK, Goto, Set, Label, Settled, KeepsReading
<1>3. CASE /\ c \in Untidy /\ left[c] = "none" /\ goal[c] \in {"select", "write"}
           /\ Goto(c, "idle")
           /\ left' = Set(left, c, IF goal[c] = "select" THEN "read" ELSE "write")
  BY <1>1, <1>3 DEF TypeOK, Goto, Set, Label, Settled
<1>4. QED
  BY <1>2, <1>3 DEF Report

LEMMA ReportGood ==
  ASSUME IInv, NEW c \in Conn, c \notin asleep, inTrans[c] # "write", Report(c),
         LockInv', goal' = goal, asleep' = asleep,
         inTrans[c] = "none" => ~Holds(c, SHARED_LOCK)',
         inTrans[c] = "read" => Holds(c, SHARED_LOCK)',
         nBusy' \in [Conn -> Nat \cup {-1}], waited' = waited, Budget(c)',
         \A d \in Conn \ {c} : eFileLock'[d] = eFileLock[d] /\ nBusy'[d] = nBusy[d]
  PROVE  IInv'
<1>1. /\ UNCHANGED <<inTrans, autoCommit, select>>
      /\ pc' \in [Conn -> Label] /\ left' \in [Conn -> {"none", "read", "write"}]
      /\ pc'[c] \in {"idle", "release"} /\ (pc'[c] = "release" => inTrans[c] = "read")
      /\ Settled(c)'
      /\ \A d \in Conn \ {c} : pc'[d] = pc[d] /\ left'[d] = left[d]
  BY ReportEnds DEF IInv
<1>2. TypeOK'
  BY <1>1 DEF IInv, TypeOK, LockInv
<1>3. \A d \in Conn \ {c} : Same(d)
  BY <1>1 DEF Same
<1>4. Position(c)'
  BY <1>1 DEF Position
<1>5. QED
  BY <1>1, <1>2, <1>3, <1>4, OthersSame DEF Good

\* A connection falls asleep with the locks it has, or more.
LEMMA WaitsGood ==
  ASSUME IInv, NEW c \in Conn, pc[c] \in {"share", "exclude", "work", "commit"}, Waits(c),
         LockInv', goal' = goal,
         \A l \in Level : Holds(c, l) => Holds(c, l)',
         pc[c] = "share" => eFileLock' = eFileLock,
         \A d \in Conn \ {c} : eFileLock'[d] = eFileLock[d]
  PROVE  IInv'
<1>1. SleepOn(c) /\ UNCHANGED <<transVars, pc>>
  BY DEF Waits
<1>2. /\ asleep' \in SUBSET Conn /\ c \in asleep'
      /\ nBusy' \in [Conn -> Nat \cup {-1}] /\ waited' \in [Conn -> Nat] /\ Budget(c)'
      /\ \A d \in Conn \ {c} : /\ nBusy'[d] = nBusy[d] /\ waited'[d] = waited[d]
                               /\ d \in asleep' <=> d \in asleep
  BY <1>1, SleepOnKeeps DEF IInv, Good
<1>3. TypeOK'
  BY <1>1, <1>2 DEF IInv, TypeOK, LockInv, transVars
<1>4. \A d \in Conn \ {c} : Same(d)
  BY <1>1, <1>2 DEF Same, transVars
<1>5. SHARED_LOCK \in Level /\ RESERVED_LOCK \in Level
  BY DEF Level, NO_LOCK, SHARED_LOCK, RESERVED_LOCK, EXCLUSIVE_LOCK
<1>6. Position(c)'
  <2>1. CASE pc[c] = "share"
    BY <1>1, <2>1 DEF IInv, Good, Position, Holds, transVars
  <2>2. CASE pc[c] \in {"exclude", "work", "commit"}
    BY <1>1, <1>5, <2>2 DEF IInv, Good, Position, transVars
  <2>3. QED
    BY <2>1, <2>2
<1>7. Settled(c)'
  BY <1>1 DEF IInv, Good, Settled, transVars
<1>8. QED
  BY <1>2, <1>3, <1>4, <1>6, <1>7, OthersSame DEF Good

LEMMA ShareGood ==
  ASSUME IInv, NEW c \in Conn, Share(c)
  PROVE  IInv'
<1>0. /\ pc[c] = "share" /\ c \notin asleep /\ inTrans[c] = "none" /\ ~Holds(c, SHARED_LOCK)
      /\ TypeOK /\ LockInv /\ Budget(c) /\ Asks(c, SHARED_LOCK) /\ goal' = goal
  BY DEF IInv, Good, Position, Share, At, Asks
<1>1. CASE /\ Lock(c, SHARED_LOCK)
           /\ IF goal[c] = "select"
                THEN /\ inTrans' = Set(inTrans, c, "read") /\ select' = Set(select, c, TRUE)
                     /\ Goto(c, "idle")
                ELSE Goto(c, "reserve") /\ UNCHANGED <<inTrans, select>>
           /\ UNCHANGED <<autoCommit, left, busyVars>>
  <2>1. LockInv'
    BY <1>0, <1>1, LockKeeps
  <2>2. /\ eFileLock' \in [Conn -> Level] /\ Holds(c, SHARED_LOCK)'
        /\ \A d \in Conn \ {c} : eFileLock'[d] = eFileLock[d]
    BY <1>0, <1>1, Locked
  <2>3. TypeOK'
    BY <1>0, <1>1, <2>1 DEF TypeOK, LockInv, Goto, Set, Label, busyVars
  <2>4. \A d \in Conn \ {c} : Same(d)
    BY <1>0, <1>1, <2>2 DEF Same, TypeOK, Goto, Set, busyVars
  <2>5. Position(c)' /\ Settled(c)'
    BY <1>0, <1>1, <2>2 DEF Position, Settled, TypeOK, Goto, Set, busyVars
  <2>6. Budget(c)'
    BY <1>0, <1>1 DEF Budget, Slept, Prior, busyVars
  <2>7. QED
    BY <2>1, <2>3, <2>4, <2>5, <2>6, OthersSame DEF Good
<1>2. CASE LockBusy(c, SHARED_LOCK) /\ (Waits(c) \/ (GiveUp(c) /\ Report(c)))
  <2>1. LockInv'
    BY <1>0, <1>2, LockBusyKeeps
  <2>2. eFileLock' = eFileLock
    BY <1>0, <1>2, Refused
  <2>3. CASE Waits(c)
    BY <1>0, <2>1, <2>2, <2>3, WaitsGood DEF Holds
  <2>4. CASE GiveUp(c) /\ Report(c)
    <3>1. /\ asleep' = asleep /\ waited' = waited
          /\ nBusy' \in [Conn -> Nat \cup {-1}] /\ Budget(c)'
          /\ \A d \in Conn \ {c} : nBusy'[d] = nBusy[d]
      BY <1>0, <2>4, GiveUpKeeps
    <3>2. QED
      BY <1>0, <2>1, <2>2, <2>4, <3>1, ReportGood DEF Holds
  <2>5. QED
    BY <1>2, <2>3, <2>4
<1>3. QED
  BY <1>1, <1>2 DEF Share

\* Steps that leave the busy handler alone.
LEMMA OtherStep ==
  ASSUME IInv, NEW c \in Conn, c \notin asleep, UNCHANGED <<goal, busyVars>>, LockInv',
         inTrans' \in [Conn -> {"none", "read", "write"}], pc' \in [Conn -> Label],
         autoCommit' \in [Conn -> BOOLEAN], UNCHANGED <<select, left>>,
         \A d \in Conn \ {c} : /\ eFileLock'[d] = eFileLock[d] /\ inTrans'[d] = inTrans[d]
                               /\ autoCommit'[d] = autoCommit[d] /\ pc'[d] = pc[d],
         Position(c)', Settled(c)'
  PROVE  IInv'
<1>1. TypeOK'
  BY DEF IInv, TypeOK, LockInv, busyVars
<1>2. \A d \in Conn \ {c} : Same(d)
  BY DEF Same, busyVars
<1>3. Budget(c)'
  BY DEF IInv, Good, Budget, Slept, Prior, busyVars
<1>4. QED
  BY <1>1, <1>2, <1>3, OthersSame DEF Good

LEMMA BegunGood ==
  ASSUME IInv, NEW c \in Conn, c \notin asleep, Begun(c), LockInv', goal' = goal,
         Holds(c, RESERVED_LOCK)',
         \A d \in Conn \ {c} : eFileLock'[d] = eFileLock[d]
  PROVE  IInv'
<1>1. /\ inTrans' = [inTrans EXCEPT ![c] = "write"]
      /\ autoCommit' = [autoCommit EXCEPT ![c] = autoCommit[c] /\ goal[c] = "write"]
      /\ pc' = [pc EXCEPT ![c] = IF goal[c] = "write" THEN "work" ELSE "idle"]
      /\ UNCHANGED <<select, left, busyVars>>
  BY DEF Begun, Set, Goto
<1>2. /\ inTrans' \in [Conn -> {"none", "read", "write"}] /\ pc' \in [Conn -> Label]
      /\ inTrans'[c] = "write" /\ pc'[c] = IF goal[c] = "write" THEN "work" ELSE "idle"
      /\ \A d \in Conn \ {c} : inTrans'[d] = inTrans[d] /\ pc'[d] = pc[d]
  BY <1>1 DEF IInv, TypeOK, Label
<1>3. /\ autoCommit' \in [Conn -> BOOLEAN]
      /\ autoCommit'[c] <=> autoCommit[c] /\ goal[c] = "write"
      /\ \A d \in Conn \ {c} : autoCommit'[d] = autoCommit[d]
  <2>1. (autoCommit[c] /\ goal[c] = "write") \in BOOLEAN
    OBVIOUS
  <2>2. QED
    BY <1>1, <2>1, Zenon DEF IInv, TypeOK
<1>4. Position(c)'
  BY <1>1, <1>2 DEF Position, busyVars
<1>5. Settled(c)'
  BY <1>1, <1>2, <1>3 DEF Settled
<1>6. QED
  BY <1>1, <1>2, <1>3, <1>4, <1>5, OtherStep

LEMMA ReserveGood ==
  ASSUME IInv, NEW c \in Conn, Reserve(c)
  PROVE  IInv'
<1>0. /\ pc[c] = "reserve" /\ c \notin asleep /\ inTrans[c] # "write" /\ Holds(c, SHARED_LOCK)
      /\ TypeOK /\ LockInv /\ Budget(c) /\ Asks(c, RESERVED_LOCK) /\ goal' = goal
      /\ SHARED_LOCK \in Level
  BY DEF IInv, Good, Position, Reserve, At, Asks, Level, NO_LOCK, SHARED_LOCK, EXCLUSIVE_LOCK
<1>1. CASE Lock(c, RESERVED_LOCK) /\ goal[c] = "exclusive"
           /\ Goto(c, "exclude") /\ UNCHANGED <<transVars, busyVars>>
  <2>1. LockInv'
    BY <1>0, <1>1, LockKeeps
  <2>2. /\ Holds(c, RESERVED_LOCK)'
        /\ \A d \in Conn \ {c} : eFileLock'[d] = eFileLock[d]
    BY <1>0, <1>1, Locked
  <2>3. /\ pc' \in [Conn -> Label] /\ pc'[c] = "exclude"
        /\ \A d \in Conn \ {c} : pc'[d] = pc[d]
    BY <1>0, <1>1 DEF TypeOK, Goto, Set, Label
  <2>4. Holds(c, SHARED_LOCK)'
    BY <2>1, <2>2 DEF Holds, LockInv, LockTypeOK, Level, NO_LOCK, SHARED_LOCK, RESERVED_LOCK, EXCLUSIVE_LOCK
  <2>5. Position(c)' /\ Settled(c)'
    BY <1>0, <1>1, <2>2, <2>3, <2>4 DEF Position, Settled, transVars, busyVars
  <2>6. QED
    BY <1>0, <1>1, <2>1, <2>2, <2>3, <2>5, OtherStep DEF TypeOK, transVars
<1>2. CASE Lock(c, RESERVED_LOCK) /\ Begun(c)
  <2>1. LockInv'
    BY <1>0, <1>2, LockKeeps
  <2>2. /\ Holds(c, RESERVED_LOCK)'
        /\ \A d \in Conn \ {c} : eFileLock'[d] = eFileLock[d]
    BY <1>0, <1>2, Locked
  <2>3. QED
    BY <1>0, <1>2, <2>1, <2>2, BegunGood
<1>3. CASE LockBusy(c, RESERVED_LOCK) /\ ReserveBusy(c)
  <2>1. LockInv'
    BY <1>0, <1>3, LockBusyKeeps
  <2>2. /\ Holds(c, SHARED_LOCK)'
        /\ \A d \in Conn \ {c} : eFileLock'[d] = eFileLock[d]
    BY <1>0, <1>3, Refused
  <2>3. CASE inTrans[c] = "none" /\ Goto(c, "drop") /\ UNCHANGED <<transVars, busyVars>>
    <3>1. /\ pc' \in [Conn -> Label] /\ pc'[c] = "drop"
          /\ \A d \in Conn \ {c} : pc'[d] = pc[d]
      BY <1>0, <2>3 DEF TypeOK, Goto, Set, Label
    <3>2. Position(c)' /\ Settled(c)'
      BY <1>0, <2>3, <3>1 DEF Position, Settled, transVars, busyVars
    <3>3. QED
      BY <1>0, <2>1, <2>2, <2>3, <3>1, <3>2, OtherStep DEF TypeOK, transVars
  <2>4. CASE inTrans[c] # "none" /\ Report(c) /\ UNCHANGED busyVars
    <3>1. Budget(c)' /\ nBusy' \in [Conn -> Nat \cup {-1}]
      BY <1>0, <2>4 DEF Budget, Slept, Prior, busyVars, TypeOK
    <3>2. QED
      BY <1>0, <2>1, <2>2, <2>4, <3>1, ReportGood DEF busyVars
  <2>5. QED
    BY <1>3, <2>3, <2>4 DEF ReserveBusy
<1>4. QED
  BY <1>1, <1>2, <1>3 DEF Reserve

LEMMA ExcludeGood ==
  ASSUME IInv, NEW c \in Conn, Exclude(c)
  PROVE  IInv'
<1>0. /\ pc[c] = "exclude" /\ c \notin asleep /\ inTrans[c] # "write"
      /\ Holds(c, RESERVED_LOCK) /\ Holds(c, SHARED_LOCK)
      /\ TypeOK /\ LockInv /\ Budget(c) /\ Asks(c, EXCLUSIVE_LOCK) /\ goal' = goal
      /\ {SHARED_LOCK, RESERVED_LOCK} \subseteq Level
  BY DEF IInv, Good, Position, Exclude, At, Asks, Holds, LockInv, LockTypeOK, Level, NO_LOCK,
         SHARED_LOCK, RESERVED_LOCK, EXCLUSIVE_LOCK
<1>1. CASE Lock(c, EXCLUSIVE_LOCK) /\ Begun(c)
  <2>1. LockInv'
    BY <1>0, <1>1, LockKeeps
  <2>2. /\ Holds(c, EXCLUSIVE_LOCK)'
        /\ \A d \in Conn \ {c} : eFileLock'[d] = eFileLock[d]
    BY <1>0, <1>1, Locked
  <2>3. Holds(c, RESERVED_LOCK)'
    BY <2>1, <2>2 DEF Holds, LockInv, LockTypeOK, Level, NO_LOCK, RESERVED_LOCK, EXCLUSIVE_LOCK
  <2>4. QED
    BY <1>0, <1>1, <2>1, <2>2, <2>3, BegunGood
<1>2. CASE LockBusy(c, EXCLUSIVE_LOCK)
           /\ \/ Waits(c)
              \/ /\ GiveUp(c)
                 /\ IF inTrans[c] = "none" THEN Goto(c, "drop") /\ UNCHANGED transVars
                                           ELSE Report(c)
  <2>1. LockInv'
    BY <1>0, <1>2, LockBusyKeeps
  <2>2. /\ \A l \in Level : Holds(c, l) => Holds(c, l)'
        /\ \A d \in Conn \ {c} : eFileLock'[d] = eFileLock[d]
    BY <1>0, <1>2, Refused
  <2>3. CASE Waits(c)
    BY <1>0, <2>1, <2>2, <2>3, WaitsGood
  <2>4. CASE GiveUp(c) /\ inTrans[c] # "none" /\ Report(c)
    <3>1. /\ asleep' = asleep /\ waited' = waited
          /\ nBusy' \in [Conn -> Nat \cup {-1}] /\ Budget(c)'
          /\ \A d \in Conn \ {c} : nBusy'[d] = nBusy[d]
      BY <1>0, <2>4, GiveUpKeeps
    <3>2. QED
      BY <1>0, <2>1, <2>2, <2>4, <3>1, ReportGood
  <2>5. CASE GiveUp(c) /\ inTrans[c] = "none" /\ Goto(c, "drop") /\ UNCHANGED transVars
    <3>1. /\ asleep' = asleep /\ waited' = waited
          /\ nBusy' \in [Conn -> Nat \cup {-1}] /\ Budget(c)'
          /\ \A d \in Conn \ {c} : nBusy'[d] = nBusy[d]
      BY <1>0, <2>5, GiveUpKeeps
    <3>2. /\ pc' \in [Conn -> Label] /\ pc'[c] = "drop"
          /\ \A d \in Conn \ {c} : pc'[d] = pc[d]
      BY <1>0, <2>5 DEF TypeOK, Goto, Set, Label
    <3>3. TypeOK'
      BY <1>0, <2>1, <2>5, <3>1, <3>2 DEF TypeOK, LockInv, transVars
    <3>4. \A d \in Conn \ {c} : Same(d)
      BY <1>0, <2>2, <2>5, <3>1, <3>2 DEF Same, transVars
    <3>5. Position(c)' /\ Settled(c)'
      BY <1>0, <2>5, <3>1, <3>2 DEF Position, Settled, transVars
    <3>6. QED
      BY <2>1, <3>1, <3>3, <3>4, <3>5, OthersSame DEF Good
  <2>6. QED
    BY <1>2, <2>3, <2>4, <2>5
<1>3. QED
  BY <1>1, <1>2 DEF Exclude

LEMMA DropGood ==
  ASSUME IInv, NEW c \in Conn, Drop(c)
  PROVE  IInv'
<1>0. /\ pc[c] = "drop" /\ c \notin asleep /\ inTrans[c] = "none"
      /\ TypeOK /\ LockInv /\ Budget(c) /\ goal' = goal
      /\ Unlock(c, NO_LOCK) /\ NO_LOCK \in {NO_LOCK, SHARED_LOCK} /\ NO_LOCK + 1 = SHARED_LOCK
  BY DEF IInv, Good, Position, Drop, At, NO_LOCK, SHARED_LOCK
<1>1. LockInv'
  BY <1>0, UnlockKeeps
<1>2. /\ ~Holds(c, SHARED_LOCK)'
      /\ \A d \in Conn \ {c} : eFileLock'[d] = eFileLock[d]
  BY <1>0, Unlocked
<1>3. ~Holds(c, RESERVED_LOCK)'
  BY <1>1, <1>2 DEF Holds, LockInv, LockTypeOK, Level, NO_LOCK, SHARED_LOCK, RESERVED_LOCK, EXCLUSIVE_LOCK
<1>4. CASE SleepOn(c) /\ Goto(c, "share") /\ UNCHANGED transVars
  <2>1. /\ asleep' \in SUBSET Conn /\ c \in asleep'
        /\ nBusy' \in [Conn -> Nat \cup {-1}] /\ waited' \in [Conn -> Nat] /\ Budget(c)'
        /\ \A d \in Conn \ {c} : /\ nBusy'[d] = nBusy[d] /\ waited'[d] = waited[d]
                                 /\ d \in asleep' <=> d \in asleep
    BY <1>0, <1>4, SleepOnKeeps
  <2>2. /\ pc' \in [Conn -> Label] /\ pc'[c] = "share"
        /\ \A d \in Conn \ {c} : pc'[d] = pc[d]
    BY <1>0, <1>4 DEF TypeOK, Goto, Set, Label
  <2>3. TypeOK'
    BY <1>0, <1>1, <1>4, <2>1, <2>2 DEF TypeOK, LockInv, transVars
  <2>4. \A d \in Conn \ {c} : Same(d)
    BY <1>0, <1>2, <1>4, <2>1, <2>2 DEF Same, transVars
  <2>5. Position(c)' /\ Settled(c)'
    BY <1>0, <1>2, <1>4, <2>2 DEF Position, Settled, transVars
  <2>6. QED
    BY <1>1, <2>1, <2>3, <2>4, <2>5, OthersSame DEF Good
<1>5. CASE GiveUp(c) /\ Report(c)
  <2>1. /\ asleep' = asleep /\ waited' = waited
        /\ nBusy' \in [Conn -> Nat \cup {-1}] /\ Budget(c)'
        /\ \A d \in Conn \ {c} : nBusy'[d] = nBusy[d]
    BY <1>0, <1>5, GiveUpKeeps
  <2>2. QED
    BY <1>0, <1>1, <1>2, <1>5, <2>1, ReportGood
<1>6. QED
  BY <1>4, <1>5 DEF Drop

LEMMA SpillGood ==
  ASSUME IInv, NEW c \in Conn, Spill(c)
  PROVE  IInv'
<1>0. /\ pc[c] = "work" /\ c \notin asleep /\ inTrans[c] = "write"
      /\ Holds(c, RESERVED_LOCK) /\ Settled(c)
      /\ TypeOK /\ LockInv /\ Budget(c) /\ Asks(c, EXCLUSIVE_LOCK)
      /\ UNCHANGED <<transVars, goal, pc>>
      /\ {SHARED_LOCK, RESERVED_LOCK} \subseteq Level
  BY DEF IInv, Good, Position, Spill, At, Asks, Holds, LockInv, LockTypeOK, Level, NO_LOCK,
         SHARED_LOCK, RESERVED_LOCK, EXCLUSIVE_LOCK
<1>1. CASE Lock(c, EXCLUSIVE_LOCK) /\ UNCHANGED busyVars
  <2>1. LockInv'
    BY <1>0, <1>1, LockKeeps
  <2>2. /\ Holds(c, EXCLUSIVE_LOCK)'
        /\ \A d \in Conn \ {c} : eFileLock'[d] = eFileLock[d]
    BY <1>0, <1>1, Locked
  <2>3. Holds(c, RESERVED_LOCK)'
    BY <2>1, <2>2 DEF Holds, LockInv, LockTypeOK, Level, NO_LOCK, RESERVED_LOCK, EXCLUSIVE_LOCK
  <2>4. Position(c)' /\ Settled(c)'
    BY <1>0, <1>1, <2>3 DEF Position, Settled, transVars, busyVars
  <2>5. QED
    BY <1>0, <1>1, <2>1, <2>2, <2>4, OtherStep DEF TypeOK, transVars
<1>2. CASE LockBusy(c, EXCLUSIVE_LOCK) /\ (SleepOn(c) \/ GiveUp(c))
  <2>1. LockInv'
    BY <1>0, <1>2, LockBusyKeeps
  <2>2. /\ \A l \in Level : Holds(c, l) => Holds(c, l)'
        /\ \A d \in Conn \ {c} : eFileLock'[d] = eFileLock[d]
    BY <1>0, <1>2, Refused
  <2>3. CASE SleepOn(c)
    BY <1>0, <2>1, <2>2, <2>3, WaitsGood DEF Waits
  <2>4. CASE GiveUp(c)
    <3>1. /\ asleep' = asleep /\ waited' = waited
          /\ nBusy' \in [Conn -> Nat \cup {-1}] /\ Budget(c)'
          /\ \A d \in Conn \ {c} : nBusy'[d] = nBusy[d]
      BY <1>0, <2>4, GiveUpKeeps
    <3>2. TypeOK'
      BY <1>0, <2>1, <3>1 DEF TypeOK, LockInv, transVars
    <3>3. \A d \in Conn \ {c} : Same(d)
      BY <1>0, <2>2, <3>1 DEF Same, transVars
    <3>4. Position(c)' /\ Settled(c)'
      BY <1>0, <2>2, <3>1 DEF Position, Settled, transVars
    <3>5. QED
      BY <2>1, <3>1, <3>2, <3>3, <3>4, OthersSame DEF Good
  <2>5. QED
    BY <1>2, <2>3, <2>4
<1>3. QED
  BY <1>1, <1>2 DEF Spill

LEMMA HaltGood ==
  ASSUME IInv, NEW c \in Conn, Halt(c)
  PROVE  IInv'
<1>1. /\ pc[c] = "work" /\ c \notin asleep /\ inTrans[c] = "write"
      /\ Holds(c, RESERVED_LOCK) /\ Settled(c) /\ TypeOK /\ LockInv
      /\ UNCHANGED <<lockVars, transVars, goal, busyVars>>
      /\ pc' = [pc EXCEPT ![c] = IF goal[c] = "write" /\ autoCommit[c] /\ left[c] # "write"
                                   THEN "commit" ELSE "idle"]
  BY DEF IInv, Good, Position, Halt, At, Goto, Set
<1>2. LockInv' /\ eFileLock' = eFileLock
  BY <1>1, NoLockStep
<1>3. /\ pc' \in [Conn -> Label] /\ \A d \in Conn \ {c} : pc'[d] = pc[d]
      /\ pc'[c] = IF goal[c] = "write" /\ autoCommit[c] /\ left[c] # "write"
                    THEN "commit" ELSE "idle"
  BY <1>1 DEF TypeOK, Label
<1>4. Position(c)' /\ Settled(c)'
  BY <1>1, <1>2, <1>3 DEF Position, Settled, Holds, transVars, busyVars
<1>5. QED
  BY <1>1, <1>2, <1>3, <1>4, OtherStep DEF TypeOK, transVars

LEMMA PhaseOneGood ==
  ASSUME IInv, NEW c \in Conn, PhaseOne(c)
  PROVE  IInv'
<1>0. /\ pc[c] = "commit" /\ c \notin asleep /\ inTrans[c] = "write"
      /\ Holds(c, RESERVED_LOCK) /\ Holds(c, SHARED_LOCK)
      /\ TypeOK /\ LockInv /\ Budget(c) /\ Asks(c, EXCLUSIVE_LOCK) /\ goal' = goal
      /\ {SHARED_LOCK, RESERVED_LOCK} \subseteq Level
  BY DEF IInv, Good, Position, PhaseOne, At, Asks, Holds, LockInv, LockTypeOK, Level, NO_LOCK,
         SHARED_LOCK, RESERVED_LOCK, EXCLUSIVE_LOCK
<1>1. CASE /\ Lock(c, EXCLUSIVE_LOCK) /\ Goto(c, "downgrade")
           /\ UNCHANGED <<transVars, busyVars>>
  <2>1. LockInv'
    BY <1>0, <1>1, LockKeeps
  <2>2. /\ Holds(c, EXCLUSIVE_LOCK)'
        /\ \A d \in Conn \ {c} : eFileLock'[d] = eFileLock[d]
    BY <1>0, <1>1, Locked
  <2>3. Holds(c, RESERVED_LOCK)'
    BY <2>1, <2>2 DEF Holds, LockInv, LockTypeOK, Level, NO_LOCK, RESERVED_LOCK, EXCLUSIVE_LOCK
  <2>4. /\ pc' \in [Conn -> Label] /\ pc'[c] = "downgrade"
        /\ \A d \in Conn \ {c} : pc'[d] = pc[d]
    BY <1>0, <1>1 DEF TypeOK, Goto, Set, Label
  <2>5. Position(c)' /\ Settled(c)'
    BY <1>0, <1>1, <2>3, <2>4 DEF Position, Settled, transVars, busyVars
  <2>6. QED
    BY <1>0, <1>1, <2>1, <2>2, <2>4, <2>5, OtherStep DEF TypeOK, transVars
<1>2. CASE LockBusy(c, EXCLUSIVE_LOCK) /\ Waits(c)
  <2>1. LockInv'
    BY <1>0, <1>2, LockBusyKeeps
  <2>2. /\ \A l \in Level : Holds(c, l) => Holds(c, l)'
        /\ \A d \in Conn \ {c} : eFileLock'[d] = eFileLock[d]
    BY <1>0, <1>2, Refused
  <2>3. QED
    BY <1>0, <1>2, <2>1, <2>2, WaitsGood
<1>3. CASE /\ LockBusy(c, EXCLUSIVE_LOCK) /\ GiveUp(c)
           /\ IF goal[c] = "commit"
                THEN Goto(c, "idle") /\ autoCommit' = Set(autoCommit, c, FALSE)
                ELSE Goto(c, "downgrade") /\ UNCHANGED autoCommit
           /\ UNCHANGED <<inTrans, select, left>>
  <2>1. LockInv'
    BY <1>0, <1>3, LockBusyKeeps
  <2>2. /\ Holds(c, RESERVED_LOCK)'
        /\ \A d \in Conn \ {c} : eFileLock'[d] = eFileLock[d]
    BY <1>0, <1>3, Refused
  <2>3. /\ asleep' = asleep /\ waited' = waited
        /\ nBusy' \in [Conn -> Nat \cup {-1}] /\ Budget(c)'
        /\ \A d \in Conn \ {c} : nBusy'[d] = nBusy[d]
    BY <1>0, <1>3, GiveUpKeeps
  <2>4. /\ pc' \in [Conn -> Label] /\ autoCommit' \in [Conn -> BOOLEAN]
        /\ (pc'[c] = "idle" /\ ~autoCommit'[c]) \/ pc'[c] = "downgrade"
        /\ \A d \in Conn \ {c} : pc'[d] = pc[d] /\ autoCommit'[d] = autoCommit[d]
    BY <1>0, <1>3 DEF TypeOK, Goto, Set, Label
  <2>5. TypeOK'
    BY <1>0, <1>3, <2>1, <2>3, <2>4 DEF TypeOK, LockInv
  <2>6. \A d \in Conn \ {c} : Same(d)
    BY <1>0, <1>3, <2>2, <2>3, <2>4 DEF Same
  <2>7. Position(c)' /\ Settled(c)'
    BY <1>0, <1>3, <2>2, <2>3, <2>4 DEF Position, Settled
  <2>8. QED
    BY <2>1, <2>3, <2>5, <2>6, <2>7, OthersSame DEF Good
<1>4. QED
  BY <1>1, <1>2, <1>3 DEF PhaseOne

LEMMA DowngradeGood ==
  ASSUME IInv, NEW c \in Conn, Downgrade(c)
  PROVE  IInv'
<1>0. /\ pc[c] = "downgrade" /\ c \notin asleep /\ inTrans[c] = "write" /\ Holds(c, SHARED_LOCK)
      /\ TypeOK /\ LockInv /\ Unlock(c, SHARED_LOCK) /\ SHARED_LOCK \in {NO_LOCK, SHARED_LOCK}
  BY DEF IInv, Good, Position, Downgrade, At, Holds, LockInv, LockTypeOK, Level, NO_LOCK,
         SHARED_LOCK, RESERVED_LOCK, EXCLUSIVE_LOCK
<1>1. LockInv'
  BY <1>0, UnlockKeeps
<1>2. /\ Holds(c, SHARED_LOCK)'
      /\ \A d \in Conn \ {c} : eFileLock'[d] = eFileLock[d]
  BY <1>0, Unlocked
<1>3. /\ inTrans' = [inTrans EXCEPT ![c] = "read"]
      /\ pc' = [pc EXCEPT ![c] = IF KeepsReading(c) THEN "idle" ELSE "release"]
      /\ UNCHANGED <<autoCommit, select, left, goal, busyVars>>
  BY DEF Downgrade, Set, Goto
<1>4. /\ inTrans' \in [Conn -> {"none", "read", "write"}] /\ pc' \in [Conn -> Label]
      /\ inTrans'[c] = "read" /\ pc'[c] = IF KeepsReading(c) THEN "idle" ELSE "release"
      /\ \A d \in Conn \ {c} : inTrans'[d] = inTrans[d] /\ pc'[d] = pc[d]
  BY <1>0, <1>3 DEF TypeOK, Label
<1>5. Position(c)' /\ Settled(c)'
  BY <1>0, <1>2, <1>3, <1>4 DEF Position, Settled, KeepsReading, busyVars
<1>6. QED
  BY <1>0, <1>1, <1>2, <1>3, <1>4, <1>5, OtherStep DEF TypeOK

LEMMA ReleaseGood ==
  ASSUME IInv, NEW c \in Conn, Release(c)
  PROVE  IInv'
<1>0. /\ pc[c] = "release" /\ c \notin asleep
      /\ TypeOK /\ LockInv /\ Unlock(c, NO_LOCK) /\ NO_LOCK \in {NO_LOCK, SHARED_LOCK}
      /\ NO_LOCK + 1 = SHARED_LOCK
  BY DEF IInv, Good, Position, Release, At, NO_LOCK, SHARED_LOCK
<1>1. LockInv'
  BY <1>0, UnlockKeeps
<1>2. /\ ~Holds(c, SHARED_LOCK)'
      /\ \A d \in Conn \ {c} : eFileLock'[d] = eFileLock[d]
  BY <1>0, Unlocked
<1>3. /\ inTrans' = [inTrans EXCEPT ![c] = "none"]
      /\ pc' = [pc EXCEPT ![c] = "idle"]
      /\ UNCHANGED <<autoCommit, select, left, goal, busyVars>>
  BY DEF Release, Set, Goto
<1>4. /\ inTrans' \in [Conn -> {"none", "read", "write"}] /\ pc' \in [Conn -> Label]
      /\ inTrans'[c] = "none" /\ pc'[c] = "idle"
      /\ \A d \in Conn \ {c} : inTrans'[d] = inTrans[d] /\ pc'[d] = pc[d]
  BY <1>0, <1>3 DEF TypeOK, Label
<1>5. Position(c)' /\ Settled(c)'
  BY <1>0, <1>2, <1>3, <1>4 DEF Position, Settled, busyVars
<1>6. QED
  BY <1>0, <1>1, <1>2, <1>3, <1>4, <1>5, OtherStep DEF TypeOK

-----------------------------------------------------------------------------
LEMMA InitGood == Init => IInv
<1> SUFFICES ASSUME Init PROVE IInv
  OBVIOUS
<1>1. LockInv
  BY NobodyHolds DEF Init, LockInit
<1>2. TypeOK
  BY <1>1 DEF Init, TypeOK, LockInv, Goal, Label
<1>3. ASSUME NEW c \in Conn
      PROVE  Good(c)
  <2>1. Position(c) /\ Settled(c)
    BY DEF Init, LockInit, Position, Settled, Holds, NO_LOCK, SHARED_LOCK
  <2>2. Slept(0) = 0
    BY TimeoutAssumption DEF Slept, Prior, totals, NDELAY
  <2>3. Budget(c)
    BY <2>2, TimeoutAssumption DEF Init, Budget
  <2>4. QED
    BY <2>1, <2>3 DEF Good
<1>4. QED
  BY <1>1, <1>2, <1>3 DEF IInv

LEMMA StepGood ==
  ASSUME IInv, [Next]_vars
  PROVE  IInv'
<1>1. CASE UNCHANGED vars
  <2>1. LockInv' /\ TypeOK'
    BY <1>1, NoLockStep DEF vars, IInv, TypeOK, LockInv, transVars, busyVars
  <2>2. \A c \in Conn : Good(c)'
    BY <1>1 DEF vars, lockVars, transVars, busyVars, IInv, Good, Position, Holds, Budget, Slept,
       Prior, Settled
  <2>3. QED
    BY <2>1, <2>2 DEF IInv
<1>2. ASSUME NEW c \in Conn, Run(c)
      PROVE  IInv'
  BY <1>2, WakeGood, ShareGood, ReserveGood, ExcludeGood, DropGood, SpillGood,
     HaltGood, PhaseOneGood, DowngradeGood, ReleaseGood DEF Run
<1>3. ASSUME NEW c \in Conn,
             \/ BeginDeferred(c) \/ StartSelect(c) \/ Retry(c)
             \/ \E g \in {"write", "immediate", "exclusive"} : StartWrite(c, g)
             \/ \E g \in {"select", "write"} : StartWork(c, g)
             \/ FinishSelect(c) \/ Commit(c) \/ Rollback(c) \/ ResetLeft(c)
      PROVE  IInv'
  BY <1>3, BeginDeferredGood, StartSelectGood, RetryGood, StartWriteGood, StartWorkGood,
     FinishSelectGood, CommitGood, RollbackGood, ResetLeftGood
<1>4. QED
  BY <1>1, <1>2, <1>3 DEF Next

LEMMA Invariance == Spec => []IInv
  BY InitGood, StepGood, PTL DEF Spec

-----------------------------------------------------------------------------
\* The state of the connections keeps its types (LockContention).
THEOREM TypeCorrect == Spec => []TypeOK
<1>1. IInv => TypeOK
  BY DEF IInv
<1>2. QED
  BY <1>1, Invariance, PTL

\* For any number of connections, EXCLUSIVE excludes everybody and one connection
\* at most holds more than SHARED (unixLock).
THEOREM LocksExclude == Spec => []LockExclusion
<1>1. IInv => LockExclusion
  BY DEF IInv, LockInv
<1>2. QED
  BY <1>1, Invariance, PTL

\* For any number of connections, the summary in the inode is that of the handles
\* (unixLock, posixUnlock).
THEOREM InodeAlwaysAgrees == Spec => []InodeAgrees
<1>1. IInv => InodeAgrees
  BY DEF IInv, LockInv
<1>2. QED
  BY <1>1, Invariance, PTL

\* For any timeout, the sleeps of one statement never exceed it, whatever it waits
\* for and however often (sqliteDefaultBusyCallback).
THEOREM WaitsBounded == Spec => []WaitBounded
<1>1. IInv => WaitBounded
  BY DEF IInv, Good, Budget, WaitBounded
<1>2. QED
  BY <1>1, Invariance, PTL

\* No group of connections sleeps for one another's locks (sqlite3BtreeBeginTrans).
THEOREM NobodyWaitsInACircle == Spec => []NoMutualWait
<1>1. ASSUME IInv
      PROVE  NoMutualWait
  <2> SUFFICES ASSUME NEW S \in (SUBSET asleep) \ {{}}
               PROVE  \E c \in S : \A d \in S : ~Blocks(d, c)
    BY DEF NoMutualWait
  <2>a. asleep \subseteq Conn
    BY <1>1 DEF IInv, TypeOK
  <2>1. S \subseteq Conn /\ S \subseteq asleep /\ S # {}
    BY <2>a
  <2>2. \A c \in S : pc[c] \in {"share", "exclude", "work", "commit"} /\ Position(c)
    BY <1>1, <2>1 DEF IInv, Good, Position
  <2>3. \A c \in S : /\ pc[c] = "share" => ~Holds(c, SHARED_LOCK)
                     /\ pc[c] # "share" => Holds(c, RESERVED_LOCK)
    BY <2>2 DEF Position
  <2>4. CASE \E c \in S : pc[c] # "share"
    <3>1. PICK c \in S : pc[c] # "share"
      BY <2>4
    <3>2. ASSUME NEW d \in S, Blocks(d, c)
          PROVE  FALSE
      <4>1. d # c /\ Holds(d, SHARED_LOCK)
        BY <3>1, <3>2 DEF Blocks
      <4>2. Holds(d, RESERVED_LOCK) /\ Holds(c, RESERVED_LOCK)
        BY <2>3, <3>1, <4>1
      <4>3. QED
        BY <1>1, <2>1, <4>1, <4>2 DEF IInv, LockInv, LockExclusion
    <3>3. QED
      BY <3>2
  <2>5. CASE \A c \in S : pc[c] = "share"
    <3>1. PICK c \in S : TRUE
      BY <2>1
    <3>2. ASSUME NEW d \in S, Blocks(d, c)
          PROVE  FALSE
      <4>1. Holds(d, PENDING_LOCK) /\ ~Holds(d, SHARED_LOCK)
        BY <2>3, <2>5, <3>2 DEF Blocks
      <4>2. eFileLock[d] \in Level
        BY <1>1, <2>1 DEF IInv, LockInv, LockTypeOK
      <4>3. QED
        BY <4>1, <4>2 DEF Holds, Level, NO_LOCK, SHARED_LOCK, PENDING_LOCK, EXCLUSIVE_LOCK
    <3>3. QED
      BY <3>1, <3>2
  <2>6. QED
    BY <2>4, <2>5
<1>2. QED
  BY <1>1, Invariance, PTL

\* A write in autocommit mode is committed or gone when its statement returns,
\* unless a statement that reported SQLITE_BUSY was left (sqlite3VdbeHalt).
THEOREM WritesSettled == Spec => []NothingUncommitted
<1>1. IInv => NothingUncommitted
  BY DEF IInv, Good, Settled, NothingUncommitted
<1>2. QED
  BY <1>1, Invariance, PTL

\* Nobody keeps a lock on the file that no statement or transaction of his own
\* accounts for (btreeEndTransaction, unlockBtreeIfUnused).
THEOREM LocksGivenBack == Spec => []NoForgottenLock
<1>1. IInv => NoForgottenLock
  BY DEF IInv, TypeOK, Good, Settled, Position, NoForgottenLock
<1>2. QED
  BY <1>1, Invariance, PTL
=============================================================================
