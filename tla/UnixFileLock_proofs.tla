------------------------ MODULE UnixFileLock_proofs ------------------------
(***************************************************************************)
(* What every call of unixLock and posixUnlock preserves, for any          *)
(* connections that ask for their locks in the order the callers do.       *)
(***************************************************************************)
EXTENDS UnixFileLock, FiniteSetTheorems, TLAPS

\* The count of holders can only be trusted while it is one: of finitely many.
LockInv ==
  /\ LockTypeOK
  /\ IsFiniteSet(Holders)
  /\ InodeAgrees
  /\ LockExclusion

\* RESERVED and EXCLUSIVE are asked for with SHARED held (the asserts of unixLock).
Asks(c, level) ==
  \/ level = SHARED_LOCK
  \/ level \in {RESERVED_LOCK, EXCLUSIVE_LOCK} /\ Holds(c, SHARED_LOCK)

-----------------------------------------------------------------------------
LEMMA NobodyHolds ==
  ASSUME eFileLock = [c \in Conn |-> NO_LOCK],
         inode = [eFileLock |-> NO_LOCK, nShared |-> 0]
  PROVE  LockInv
<1> USE DEF NO_LOCK, SHARED_LOCK, RESERVED_LOCK, PENDING_LOCK, EXCLUSIVE_LOCK, Holds
<1>1. Holders = {}
  BY DEF Holders
<1>2. LockTypeOK
  BY DEF LockTypeOK, Level
<1>3. IsFiniteSet(Holders) /\ Cardinality(Holders) = 0
  BY <1>1, FS_EmptySet
<1>4. InodeAgrees
  BY <1>3 DEF InodeAgrees
<1>5. LockExclusion
  BY DEF LockExclusion
<1>6. QED
  BY <1>2, <1>3, <1>4, <1>5 DEF LockInv

\* Whoever is counted alone holds the only lock.
LEMMA AloneMeansOnly ==
  ASSUME LockInv, NEW c \in Conn, Holds(c, SHARED_LOCK), inode.nShared <= 1,
         NEW d \in Conn, d # c
  PROVE  eFileLock[d] = NO_LOCK
<1> USE DEF NO_LOCK, SHARED_LOCK, EXCLUSIVE_LOCK, Holds
<1>1. c \in Holders /\ IsFiniteSet(Holders) /\ Cardinality(Holders) <= 1
  BY DEF Holders, LockInv, InodeAgrees
<1>2. Cardinality(Holders) \in Nat /\ Cardinality(Holders) # 0
  BY <1>1, FS_EmptySet, FS_CardinalityType
<1>3. PICK x : Holders = {x}
  BY <1>1, <1>2, FS_Singleton
<1>4. d \notin Holders
  BY <1>1, <1>3
<1>5. QED
  BY <1>4 DEF Holders, LockInv, LockTypeOK, Level

LEMMA LockKeeps ==
  ASSUME LockInv, NEW c \in Conn, NEW level, Asks(c, level), Lock(c, level)
  PROVE  LockInv'
<1> USE DEF NO_LOCK, SHARED_LOCK, RESERVED_LOCK, PENDING_LOCK, EXCLUSIVE_LOCK, Holds
<1>1. CASE Holds(c, level)
  <2>1. UNCHANGED lockVars
    BY <1>1 DEF Lock
  <2>2. QED
    BY <2>1 DEF lockVars, LockInv, LockTypeOK, Holders, InodeAgrees, LockExclusion
<1>2. CASE ~Holds(c, level)
  <2> DEFINE next == IF level = SHARED_LOCK
                       THEN [eFileLock |-> IF inode.nShared = 0 THEN SHARED_LOCK ELSE inode.eFileLock,
                             nShared |-> inode.nShared + 1]
                       ELSE [inode EXCEPT !.eFileLock = level]
  <2>1. /\ eFileLock' = [eFileLock EXCEPT ![c] = level]
        /\ inode' = next
        /\ ~Conflict(c, level) /\ ~ReadersLeft(c, level)
    BY <1>2 DEF Lock, Busy
  <2>2. level \in Level /\ inode.eFileLock \in Level /\ inode.nShared \in Nat
    BY DEF Asks, LockInv, LockTypeOK, Level
  <2>3. LockTypeOK'
    BY <2>1, <2>2 DEF LockInv, LockTypeOK, Level
  <2>4. level # SHARED_LOCK => \A d \in Conn \ {c} : eFileLock[d] <= SHARED_LOCK
    <3>1. ASSUME level # SHARED_LOCK, NEW d \in Conn \ {c}
          PROVE  eFileLock[d] <= SHARED_LOCK
      <4>1. eFileLock[c] = inode.eFileLock /\ eFileLock[d] <= eFileLock[c]
        BY <2>1, <3>1 DEF Conflict, Asks, LockInv, InodeAgrees
      <4>2. CASE eFileLock[c] = SHARED_LOCK
        BY <4>1, <4>2
      <4>3. CASE Holds(c, RESERVED_LOCK)
        BY <4>3 DEF LockInv, LockExclusion, LockTypeOK, Level
      <4>4. QED
        BY <4>2, <4>3, <3>1 DEF Asks, LockInv, LockTypeOK, Level
    <3>2. QED
      BY <3>1
  <2>5. level = EXCLUSIVE_LOCK => \A d \in Conn \ {c} : eFileLock[d] = NO_LOCK
    BY <2>1, <2>2, AloneMeansOnly DEF ReadersLeft, Asks
  <2>6. level = SHARED_LOCK => /\ eFileLock[c] = NO_LOCK
                               /\ inode.eFileLock <= RESERVED_LOCK
    BY <1>2, <2>1, <2>2 DEF Conflict, LockInv, LockTypeOK, Level, InodeAgrees
  <2>7. IsFiniteSet(Holders') /\ Cardinality(Holders') = inode'.nShared
    <3>1. CASE level = SHARED_LOCK
      <4>1. Holders' = Holders \cup {c} /\ c \notin Holders
        BY <2>1, <2>6, <3>1 DEF Holders, LockInv, LockTypeOK
      <4>2. QED
        BY <2>1, <3>1, <4>1, FS_AddElement DEF LockInv, InodeAgrees
    <3>2. CASE level # SHARED_LOCK
      <4>1. Holders' = Holders
        BY <2>1, <3>2 DEF Holders, Asks, LockInv, LockTypeOK
      <4>2. inode'.nShared = inode.nShared
        BY <2>1, <3>2 DEF LockInv, LockTypeOK
      <4>3. QED
        BY <4>1, <4>2 DEF LockInv, InodeAgrees
    <3>3. QED
      BY <3>1, <3>2
  <2>8. InodeAgrees'
    <3>1. CASE level = SHARED_LOCK /\ inode.nShared = 0
      <4>1. Holders = {}
        BY <3>1, FS_EmptySet DEF LockInv, InodeAgrees
      <4>2. \A d \in Conn : eFileLock[d] = NO_LOCK
        BY <4>1 DEF Holders, LockInv, LockTypeOK, Level
      <4>3. QED
        BY <2>1, <2>7, <3>1, <4>2 DEF InodeAgrees, LockInv, LockTypeOK
    <3>2. CASE level = SHARED_LOCK /\ inode.nShared # 0
      <4>1. PICK x : x \in Holders
        BY <3>2, FS_EmptySet DEF LockInv, InodeAgrees
      <4>2. inode.eFileLock >= SHARED_LOCK /\ inode'.eFileLock = inode.eFileLock
        BY <2>1, <2>2, <3>2, <4>1 DEF Holders, LockInv, LockTypeOK, Level, InodeAgrees
      <4>3. PICK y \in Conn : eFileLock[y] = inode.eFileLock
        BY <2>2, <4>2 DEF LockInv, InodeAgrees
      <4>4. y # c
        BY <2>6, <3>2, <4>2, <4>3
      <4>5. eFileLock'[y] = inode'.eFileLock
        BY <2>1, <4>2, <4>3, <4>4 DEF LockInv, LockTypeOK
      <4>6. \A d \in Conn : eFileLock'[d] <= inode'.eFileLock
        BY <2>1, <2>2, <3>2, <4>2 DEF LockInv, LockTypeOK, InodeAgrees
      <4>7. QED
        BY <2>7, <4>5, <4>6 DEF InodeAgrees
    <3>3. CASE level # SHARED_LOCK
      <4>1. eFileLock'[c] = inode'.eFileLock /\ inode'.eFileLock = level
        BY <2>1, <3>3 DEF LockInv, LockTypeOK
      <4>2. \A d \in Conn : eFileLock'[d] <= level
        BY <2>1, <2>4, <3>3 DEF Asks, LockInv, LockTypeOK, Level
      <4>3. QED
        BY <2>7, <4>1, <4>2 DEF InodeAgrees
    <3>4. QED
      BY <3>1, <3>2, <3>3
  <2>9. LockExclusion'
    <3>1. CASE level = SHARED_LOCK
      <4>1. \A d \in Conn : ~Holds(d, EXCLUSIVE_LOCK)
        BY <2>2, <2>6, <3>1 DEF LockInv, LockTypeOK, Level, InodeAgrees
      <4>2. QED
        BY <2>1, <3>1, <4>1 DEF LockExclusion, LockInv, LockTypeOK, Level
    <3>2. CASE level = RESERVED_LOCK
      BY <2>1, <2>4, <3>2 DEF LockExclusion, LockInv, LockTypeOK, Level
    <3>3. CASE level = EXCLUSIVE_LOCK
      BY <2>1, <2>5, <3>3 DEF LockExclusion, LockInv, LockTypeOK, Level
    <3>4. QED
      BY <3>1, <3>2, <3>3 DEF Asks
  <2>10. QED
    BY <2>3, <2>7, <2>8, <2>9 DEF LockInv
<1>3. QED
  BY <1>1, <1>2

-----------------------------------------------------------------------------
LEMMA LockBusyKeeps ==
  ASSUME LockInv, NEW c \in Conn, NEW level, Asks(c, level), LockBusy(c, level)
  PROVE  LockInv'
<1> USE DEF NO_LOCK, SHARED_LOCK, RESERVED_LOCK, PENDING_LOCK, EXCLUSIVE_LOCK, Holds
<1>1. CASE Conflict(c, level)
  <2>1. UNCHANGED lockVars
    BY <1>1 DEF LockBusy
  <2>2. QED
    BY <2>1 DEF lockVars, LockInv, LockTypeOK, Holders, InodeAgrees, LockExclusion
<1>2. CASE ~Conflict(c, level)
  <2>1. /\ eFileLock' = [eFileLock EXCEPT ![c] = PENDING_LOCK]
        /\ inode' = [inode EXCEPT !.eFileLock = PENDING_LOCK]
        /\ level = EXCLUSIVE_LOCK /\ ~Holds(c, EXCLUSIVE_LOCK)
    BY <1>2 DEF LockBusy, Busy, ReadersLeft
  <2>2. eFileLock[c] = inode.eFileLock /\ Holds(c, SHARED_LOCK)
    BY <1>2, <2>1 DEF Conflict, Asks
  <2>3. \A d \in Conn \ {c} : eFileLock[d] <= SHARED_LOCK
    <3>1. CASE eFileLock[c] = SHARED_LOCK
      BY <2>2, <3>1 DEF LockInv, InodeAgrees
    <3>2. CASE Holds(c, RESERVED_LOCK)
      BY <3>2 DEF LockInv, LockExclusion, LockTypeOK, Level
    <3>3. QED
      BY <2>2, <3>1, <3>2 DEF LockInv, LockTypeOK, Level
  <2>4. LockTypeOK'
    BY <2>1 DEF LockInv, LockTypeOK, Level
  <2>5. Holders' = Holders
    BY <2>1, <2>2 DEF Holders, LockInv, LockTypeOK
  <2>6. InodeAgrees'
    <3>1. inode'.nShared = inode.nShared /\ inode'.eFileLock = PENDING_LOCK
      BY <2>1 DEF LockInv, LockTypeOK
    <3>2. eFileLock'[c] = PENDING_LOCK
      BY <2>1 DEF LockInv, LockTypeOK
    <3>3. \A d \in Conn : eFileLock'[d] <= PENDING_LOCK
      BY <2>1, <2>3 DEF LockInv, LockTypeOK, Level
    <3>4. QED
      BY <2>5, <3>1, <3>2, <3>3 DEF InodeAgrees, LockInv
  <2>7. LockExclusion'
    BY <2>1, <2>3 DEF LockExclusion, LockInv, LockTypeOK, Level
  <2>8. QED
    BY <2>4, <2>5, <2>6, <2>7 DEF LockInv
<1>3. QED
  BY <1>1, <1>2

-----------------------------------------------------------------------------
LEMMA UnlockKeeps ==
  ASSUME LockInv, NEW c \in Conn, NEW level \in {NO_LOCK, SHARED_LOCK}, Unlock(c, level)
  PROVE  LockInv'
<1> USE DEF NO_LOCK, SHARED_LOCK, RESERVED_LOCK, PENDING_LOCK, EXCLUSIVE_LOCK, Holds
<1>1. CASE ~Holds(c, level + 1)
  <2>1. UNCHANGED lockVars
    BY <1>1 DEF Unlock
  <2>2. QED
    BY <2>1 DEF lockVars, LockInv, LockTypeOK, Holders, InodeAgrees, LockExclusion
<1>2. CASE Holds(c, level + 1)
  <2> DEFINE n == IF level = NO_LOCK THEN inode.nShared - 1 ELSE inode.nShared
             e == IF eFileLock[c] > SHARED_LOCK THEN SHARED_LOCK ELSE inode.eFileLock
  <2>1. /\ eFileLock' = [eFileLock EXCEPT ![c] = level]
        /\ inode' = [eFileLock |-> IF n = 0 THEN NO_LOCK ELSE e, nShared |-> n]
    BY <1>2 DEF Unlock
  <2>2. c \in Holders /\ inode.nShared \in Nat /\ inode.nShared # 0
    <3>1. c \in Holders
      BY <1>2 DEF Holders, LockInv, LockTypeOK, Level
    <3>2. Cardinality(Holders) # 0
      BY <3>1, FS_EmptySet DEF LockInv
    <3>3. QED
      BY <3>1, <3>2 DEF LockInv, LockTypeOK, InodeAgrees
  <2>3. n \in Nat /\ e \in Level
    BY <2>2 DEF LockInv, LockTypeOK, Level
  <2>4. LockTypeOK'
    BY <2>1, <2>3 DEF LockInv, LockTypeOK, Level
  <2>5. IsFiniteSet(Holders') /\ Cardinality(Holders') = n
    <3>1. CASE level = NO_LOCK
      <4>1. Holders' = Holders \ {c}
        BY <2>1, <3>1 DEF Holders, LockInv, LockTypeOK
      <4>2. QED
        BY <2>2, <3>1, <4>1, FS_RemoveElement DEF LockInv, InodeAgrees
    <3>2. CASE level = SHARED_LOCK
      <4>1. Holders' = Holders
        BY <2>1, <2>2, <3>2 DEF Holders, LockInv, LockTypeOK
      <4>2. QED
        BY <3>2, <4>1 DEF LockInv, InodeAgrees
    <3>3. QED
      BY <3>1, <3>2
  <2>6. eFileLock[c] > SHARED_LOCK => \A d \in Conn \ {c} : eFileLock[d] <= SHARED_LOCK
    BY DEF LockInv, LockExclusion, LockTypeOK, Level
  <2>7. \A d \in Conn : eFileLock'[d] <= e
    BY <2>1, <2>2, <2>6 DEF Holders, LockInv, LockTypeOK, Level, InodeAgrees
  <2>8. InodeAgrees'
    <3>1. CASE n = 0
      <4>1. Holders' = {}
        BY <2>5, <3>1, FS_EmptySet
      <4>2. \A d \in Conn : eFileLock'[d] = NO_LOCK
        BY <2>4, <4>1 DEF Holders, LockTypeOK, Level
      <4>3. QED
        BY <2>1, <2>5, <3>1, <4>2 DEF InodeAgrees
    <3>2. CASE n # 0
      <4>1. inode'.eFileLock = e /\ inode'.nShared = n
        BY <2>1, <3>2
      <4>2. PICK x : x \in Holders'
        BY <2>5, <3>2, FS_EmptySet
      <4>3. x \in Conn /\ eFileLock'[x] >= SHARED_LOCK
        BY <4>2 DEF Holders
      <4>4. CASE e = SHARED_LOCK
        <5>1. eFileLock'[x] = e
          BY <2>4, <2>7, <4>3, <4>4 DEF LockTypeOK, Level
        <5>2. QED
          BY <2>5, <2>7, <4>1, <4>3, <5>1 DEF InodeAgrees
      <4>5. CASE e # SHARED_LOCK
        <5>1. e = inode.eFileLock /\ eFileLock[c] <= SHARED_LOCK
          BY <4>5 DEF LockInv, LockTypeOK, Level
        <5>2. e > SHARED_LOCK
          BY <2>3, <2>4, <2>7, <4>3, <4>5 DEF LockTypeOK, Level
        <5>3. PICK y \in Conn : eFileLock[y] = inode.eFileLock
          BY <5>1, <5>2 DEF LockInv, InodeAgrees
        <5>4. y # c
          BY <5>1, <5>2, <5>3
        <5>5. eFileLock'[y] = e
          BY <2>1, <5>1, <5>3, <5>4 DEF LockInv, LockTypeOK
        <5>6. QED
          BY <2>5, <2>7, <4>1, <5>5 DEF InodeAgrees
      <4>6. QED
        BY <4>4, <4>5
    <3>3. QED
      BY <3>1, <3>2
  <2>9. LockExclusion'
    <3>1. \A d \in Conn : eFileLock[d] \in Level /\ eFileLock'[d] \in Level
                          /\ eFileLock'[d] <= eFileLock[d]
      BY <1>2, <2>1 DEF LockInv, LockTypeOK, Level
    <3>2. QED
      BY <3>1 DEF LockExclusion, LockInv, Level
  <2>10. QED
    BY <2>4, <2>5, <2>8, <2>9 DEF LockInv
<1>3. QED
  BY <1>1, <1>2
=============================================================================
