------------------------- MODULE Savepoints_proofs -------------------------
(***************************************************************************)
(* Savepoints, statements and the rollback journal keep what they promise, *)
(* for any size of the database, any nesting, and any number of changes,   *)
(* spills and errors.                                                      *)
(***************************************************************************)
EXTENDS Savepoints, SequenceTheorems, FiniteSetTheorems, TLAPS

-----------------------------------------------------------------------------
(* The inductive invariant.                                                *)

Content == Val \cup {Absent}

Slot == [nOrig : Nat, iOffset : Nat, iHdrOffset : Nat, iSubRec : Nat, inSavepoint : SUBSET Page]

Typed ==
  /\ db \in [Page -> Content]
  /\ DOMAIN cache \subseteq Page /\ cache \in [DOMAIN cache -> Content]
  /\ needSync \cup writeable \subseteq dirty /\ dirty \subseteq DOMAIN cache
  /\ jrnl \in Seq(Record \cup {Header}) /\ journalHdr \in Nat
  /\ sub \in Seq(Record) /\ Len(sub) <= writes /\ writes \in Val
  /\ sps \in Seq(Slot) /\ saved \in Seq(Seq(Val)) /\ Len(saved) <= MaxNest
  /\ \A i \in DOMAIN saved : Len(saved[i]) <= N
  /\ base \in Seq(Val) /\ Len(base) = dbOrigSize
  /\ want \in Seq(Val) /\ Len(want) = dbSize
  /\ dbOrigSize <= dbSize /\ dbSize <= N
  /\ nSavepoint \in 0..MaxNest
  /\ play \in [k : Int, at : Nat, sub : Nat, done : SUBSET Page]

\* Which values the pager's state, the statement and the counters have together.
Control ==
  /\ eState \in {"reader", "locked", "cachemod", "dbmod", "error"}
  /\ stmt \in {"none", "plain", "journal", "failed", "abort"}
  /\ eState = "reader" => stmt = "none" /\ play = NoPlay
  /\ eState \in {"reader", "locked"} => jrnl = <<>> /\ sub = <<>>
  /\ eState \notin {"dbmod", "error"} => journalHdr = 0
  /\ eState \in {"cachemod", "dbmod", "error"} => jrnl # <<>>
  /\ eState = "error" => stmt = "abort"
  /\ stmt \in {"plain", "journal"} => play = NoPlay
  /\ stmt \in {"none", "plain"} => Len(saved) = nSavepoint
  /\ stmt \in {"journal", "failed"} => Len(saved) = nSavepoint + 1 /\ Len(sps) = nSavepoint + 1
  /\ stmt = "plain" => Len(sps) = nSavepoint
  /\ Len(sps) <= Len(saved)

\* The journal has each page once, with what it held when the transaction began, and
\* its last header at journalHdr.
JournalKept ==
  /\ \A i \in DOMAIN jrnl : jrnl[i] # Header =>
       jrnl[i].page <= dbOrigSize /\ jrnl[i].data = base[jrnl[i].page]
  /\ \A i, j \in DOMAIN jrnl : i # j /\ jrnl[i] # Header => jrnl[i].page # jrnl[j].page
  /\ \A i \in DOMAIN jrnl : i > journalHdr + 1 => jrnl[i] # Header
  /\ jrnl # <<>> => journalHdr + 1 <= Len(jrnl) /\ journalHdr + 1 <= MaxJrnl
  /\ jrnl = <<>> => journalHdr = 0

\* A page whose record no header counts yet is marked for a sync.
UnsyncedMarked ==
  \A i \in DOMAIN jrnl : i > journalHdr /\ jrnl[i] # Header => jrnl[i].page \in needSync

\* The sub-journal is for pages that the main journal has, or that are new.
SubKnown ==
  \A j \in DOMAIN sub : /\ sub[j].page <= dbOrigSize => Journaled(sub[j].page)
                        /\ eState = "cachemod" => sub[j].page \in dirty

\* A page is dirty only once there is a journal, and writeable once it is in there.
WriteableKnown ==
  /\ eState \in {"reader", "locked"} => dirty = {}
  /\ \A p \in writeable : p <= dbOrigSize => Journaled(p)

\* A page of the file that has changed is in the synced part of the journal.
FileKept == \A p \in 1..dbOrigSize : db[p] = base[p] \/ \E i \in 1..journalHdr : jrnl[i].page = p

\* A page that is not in the journal has not changed.
Untouched == \A p \in 1..dbOrigSize : ~Journaled(p) => Look(p) = base[p]

\* A clean page of the cache is as it is in the file.
Clean == \A p \in DOMAIN cache \ dirty : p <= dbSize => cache[p] = db[p]

\* Each savepoint points into the journals, and a later one no earlier.
SlotFits(s) ==
  /\ dbOrigSize <= s.nOrig /\ s.nOrig <= dbSize
  /\ 1 <= s.iOffset /\ (s.iOffset = 1 \/ s.iOffset <= Len(jrnl))
  /\ s.iHdrOffset = 0 \/ s.iHdrOffset < Len(jrnl)
  /\ s.iSubRec <= Len(sub)

Before(s, t) == s.nOrig <= t.nOrig /\ s.iOffset <= t.iOffset /\ s.iSubRec <= t.iSubRec

SlotsFit ==
  /\ \A i \in DOMAIN sps : SlotFits(sps[i])
  /\ \A i, j \in DOMAIN sps : i < j => Before(sps[i], sps[j])

\* The records of page p in the main journal j or the sub-journal s behind an offset.
InMain(j, o, p) == \E i \in DOMAIN j : i > o /\ j[i].page = p
InSub(s, o, p) == \E i \in DOMAIN s : i > o /\ s[i].page = p
FirstInSub(s, o, p, i) ==
  i > o /\ s[i].page = p /\ \A h \in DOMAIN s : o < h /\ h < i => s[h].page # p

\* Played back from the offsets a and o, the journals make x of a page p that held
\* b when the transaction began and reads as c now.
Restores(j, s, a, o, p, b, c, x) ==
  /\ InMain(j, a, p) => x = b
  /\ ~InMain(j, a, p) => \A i \in DOMAIN s : FirstInSub(s, o, p, i) => s[i].data = x
  /\ ~InMain(j, a, p) /\ ~InSub(s, o, p) => c = x

\* A savepoint s, opened when the database was as image says, can be rolled back to,
\* and knows the pages that it has records of.
SlotKept(s, image) ==
  /\ Len(image) = s.nOrig
  /\ \A p \in 1..s.nOrig :
       /\ Restores(jrnl, sub, s.iOffset, s.iSubRec, p, base[p], Look(p), image[p])
       /\ p \in s.inSavepoint <=> InMain(jrnl, s.iOffset, p) \/ InSub(sub, s.iSubRec, p)

\* Those the pager has not opened yet are as the database is.
SavedKept ==
  stmt # "abort" =>
    /\ \A i \in DOMAIN sps : SlotKept(sps[i], saved[i])
    /\ \A i \in DOMAIN saved : i > Len(sps) => saved[i] = want

\* A playback in progress: what is done is as wanted, what is left makes it so.
PlayOn ==
  stmt # "abort" /\ play # NoPlay =>
    /\ play.k = Len(sps)
    /\ play.k = 0 => want = base /\ play.sub = Len(sub)
    /\ play.k > 0 => /\ want = saved[play.k]
                     /\ sps[play.k].iOffset <= play.at /\ sps[play.k].iSubRec <= play.sub
    /\ \A p \in 1..dbSize :
         IF p \in play.done THEN Look(p) = want[p]
         ELSE Restores(jrnl, sub, play.at, play.sub, p, base[p], Look(p), want[p])

PlayFits == play.k <= Len(sps) /\ play.k >= -1 /\ (play.at <= 1 \/ play.at <= Len(jrnl)) /\ play.sub <= Len(sub)

Journals == JournalKept /\ UnsyncedMarked /\ SubKnown /\ WriteableKnown
Pages == FileKept /\ Untouched /\ Clean
Slots == SlotsFit /\ PlayFits /\ FirstStretch
Values == SavedKept /\ PlayOn /\ ContentAsWritten

IInv == Typed /\ Control /\ Journals /\ Pages /\ Slots /\ Values

-----------------------------------------------------------------------------
(* Small facts.                                                            *)

LEMMA MaxOf ==
  ASSUME NEW a \in Int, NEW b \in Int
  PROVE  Max({a, b}) = IF a >= b THEN a ELSE b
BY DEF Max

LEMMA MinOf ==
  ASSUME NEW a \in Int, NEW b \in Int
  PROVE  Min({a, b}) = IF a <= b THEN a ELSE b
BY DEF Min

\* t is the first k elements of s.
CutTo(t, s, k) == Len(t) = k /\ DOMAIN t = 1..k /\ \A i \in 1..k : t[i] = s[i]

LEMMA Prefix ==
  ASSUME NEW S, NEW s \in Seq(S), NEW k \in 0..Len(s), NEW t, t = SubSeq(s, 1, k)
  PROVE  t \in Seq(S) /\ CutTo(t, s, k)
<1>1. \A i \in 1..k : s[i] \in S
  BY ElementOfSeq
<1>2. /\ SubSeq(s, 1, k) \in Seq(S)
      /\ Len(SubSeq(s, 1, k)) = k
      /\ \A i \in 1..k : SubSeq(s, 1, k)[i] = s[i]
  BY <1>1, SubSeqProperties
<1>3. t \in Seq(S) /\ Len(t) = k /\ \A i \in 1..k : t[i] = s[i]
  BY <1>2, Zenon
<1>4. DOMAIN t = 1..Len(t)
  BY <1>3, LenProperties, Zenon
<1>5. QED
  BY <1>3, <1>4, Zenon DEF CutTo

LEMMA Appended ==
  ASSUME NEW S, NEW s \in Seq(S), NEW x \in S
  PROVE  LET t == Append(s, x)
         IN /\ t \in Seq(S) /\ Len(t) = Len(s) + 1 /\ DOMAIN t = 1..(Len(s) + 1)
            /\ DOMAIN s = 1..Len(s)
            /\ \A i \in DOMAIN s : t[i] = s[i]
            /\ t[Len(s) + 1] = x
BY AppendProperties, LenProperties

\* What the typing says of lengths.
LEMMA Shape ==
  ASSUME Typed
  PROVE  /\ MaxNest \in Nat /\ MaxWrite \in Nat /\ MaxJrnl \in Nat \ {0} /\ N \in Nat \ {0}
         /\ sps \in Seq(Slot) /\ Len(sps) \in Nat /\ DOMAIN sps = 1..Len(sps)
         /\ \A i \in DOMAIN sps : sps[i] \in Slot
         /\ saved \in Seq(Seq(Val)) /\ Len(saved) \in Nat /\ DOMAIN saved = 1..Len(saved)
         /\ \A i \in DOMAIN saved : saved[i] \in Seq(Val)
         /\ jrnl \in Seq(Record \cup {Header}) /\ Len(jrnl) \in Nat /\ DOMAIN jrnl = 1..Len(jrnl)
         /\ \A i \in DOMAIN jrnl : jrnl[i] \in Record \cup {Header}
         /\ sub \in Seq(Record) /\ Len(sub) \in Nat /\ DOMAIN sub = 1..Len(sub)
         /\ \A i \in DOMAIN sub : sub[i] \in Record
         /\ (jrnl = <<>> <=> Len(jrnl) = 0) /\ Len(<<>>) = 0
         /\ dbSize \in Nat /\ dbOrigSize \in Nat /\ writes \in Nat /\ nSavepoint \in Nat
         /\ dbOrigSize <= dbSize /\ dbSize <= N /\ writes <= MaxWrite /\ Len(sub) <= writes
<1>1. MaxNest \in Nat /\ MaxWrite \in Nat /\ MaxJrnl \in Nat \ {0} /\ N \in Nat \ {0}
  BY BoundsAssumption
<1>2. sps \in Seq(Slot) /\ Len(sps) \in Nat /\ DOMAIN sps = 1..Len(sps) /\ \A i \in DOMAIN sps : sps[i] \in Slot
  BY LenProperties, ElementOfSeq DEF Typed
<1>3. saved \in Seq(Seq(Val)) /\ Len(saved) \in Nat /\ DOMAIN saved = 1..Len(saved)
      /\ \A i \in DOMAIN saved : saved[i] \in Seq(Val)
  BY LenProperties, ElementOfSeq DEF Typed
<1>4. jrnl \in Seq(Record \cup {Header}) /\ Len(jrnl) \in Nat /\ DOMAIN jrnl = 1..Len(jrnl)
      /\ \A i \in DOMAIN jrnl : jrnl[i] \in Record \cup {Header}
  BY LenProperties, ElementOfSeq DEF Typed
<1>5. sub \in Seq(Record) /\ Len(sub) \in Nat /\ DOMAIN sub = 1..Len(sub) /\ \A i \in DOMAIN sub : sub[i] \in Record
  BY LenProperties, ElementOfSeq DEF Typed
<1>6. (jrnl = <<>> <=> Len(jrnl) = 0) /\ Len(<<>>) = 0
  BY <1>4, EmptySeq
<1>7. dbSize \in Nat /\ dbOrigSize \in Nat
  BY LenProperties DEF Typed
<1>8. writes \in Nat /\ writes <= MaxWrite /\ nSavepoint \in Nat
  BY <1>1 DEF Typed, Val
<1>9. QED
  BY <1>1, <1>2, <1>3, <1>4, <1>5, <1>6, <1>7, <1>8 DEF Typed

-----------------------------------------------------------------------------
(* Steps that leave the pages and the rollback journal alone.              *)

LEMMA ControlFrame ==
  ASSUME Journals, Pages,
         UNCHANGED <<db, eState, cache, flagVars, dbOrigSize, jrnl, journalHdr, base>>,
         sub' \in {sub, <<>>}, dbSize \in Int, dbSize' \in Int, dbSize' <= dbSize,
         DOMAIN cache \subseteq Page
  PROVE  Journals' /\ Pages'
<1> USE DEF flagVars
<1>1. JournalKept' /\ UnsyncedMarked' /\ WriteableKnown'
  BY DEF Journals, JournalKept, UnsyncedMarked, WriteableKnown, Journaled
<1>2. SubKnown'
  BY DEF Journals, SubKnown, Journaled
<1>3. FileKept' /\ Untouched'
  BY DEF Pages, FileKept, Untouched, Look, Journaled
<1>4. Clean'
  BY DEF Pages, Clean, Page
<1>5. QED
  BY <1>1, <1>2, <1>3, <1>4 DEF Journals, Pages

LEMMA OpenSavepointKeeps ==
  ASSUME IInv, OpenSavepoint
  PROVE  IInv'
<1> USE DEF OpenSavepoint, Idle, flagVars, jrnlVars
<1> DEFINE w == want
<1>1. /\ want \in Seq(Val) /\ saved \in Seq(Seq(Val)) /\ nSavepoint \in 0..MaxNest /\ MaxNest \in Nat
      /\ Len(saved) = nSavepoint /\ Len(sps) <= Len(saved) /\ sps \in Seq(Slot)
      /\ DOMAIN sps = 1..Len(sps) /\ Len(sps) \in Nat
  BY BoundsAssumption, LenProperties DEF IInv, Typed, Control
<1>2. /\ saved' \in Seq(Seq(Val)) /\ Len(saved') = nSavepoint + 1
      /\ \A i \in 1..nSavepoint : saved'[i] = saved[i]
      /\ saved'[nSavepoint + 1] = want /\ DOMAIN saved' = 1..(nSavepoint + 1)
      /\ DOMAIN saved = 1..nSavepoint
  BY <1>1, Appended
<1>3. Typed'
  <2>1. \A i \in DOMAIN saved' : Len(saved'[i]) <= N
    BY <1>1, <1>2 DEF IInv, Typed
  <2>2. QED
    BY <1>1, <1>2, <2>1, SMTT(30) DEF IInv, Typed
<1>4. Control'
  BY <1>1, <1>2 DEF IInv, Control, NoPlay
<1>5. Journals' /\ Pages'
  BY ControlFrame DEF IInv, Typed, flagVars
<1>6. Slots'
  BY DEF IInv, Slots, SlotsFit, SlotFits, PlayFits, FirstStretch
<1>7. SavedKept'
  <2>1. \A s, image : SlotKept(s, image) => SlotKept(s, image)'
    BY DEF SlotKept, Look
  <2>2. QED
    BY <1>1, <1>2, <2>1 DEF IInv, Values, SavedKept
<1>8. PlayOn' /\ ContentAsWritten'
  BY DEF IInv, Values, PlayOn, ContentAsWritten, Look
<1>9. QED
  BY <1>3, <1>4, <1>5, <1>6, <1>7, <1>8 DEF IInv, Values

\* A savepoint that opens has no records yet, and everything is as it was.
Fresh == [nOrig |-> dbSize, iOffset |-> IF jrnl = <<>> THEN 1 ELSE Len(jrnl),
          iHdrOffset |-> 0, iSubRec |-> Len(sub), inSavepoint |-> {}]

LEMMA FreshRestores ==
  ASSUME Typed, ContentAsWritten, play = NoPlay, stmt # "abort", NEW p \in 1..dbSize
  PROVE  /\ Restores(jrnl, sub, Fresh.iOffset, Fresh.iSubRec, p, base[p], Look(p), want[p])
         /\ ~InMain(jrnl, Fresh.iOffset, p) /\ ~InSub(sub, Fresh.iSubRec, p)
<1>1. DOMAIN jrnl = 1..Len(jrnl) /\ Len(jrnl) \in Nat /\ DOMAIN sub = 1..Len(sub) /\ Len(sub) \in Nat
  BY LenProperties DEF Typed
<1>2. ~InMain(jrnl, Fresh.iOffset, p) /\ ~InSub(sub, Fresh.iSubRec, p)
  BY <1>1, EmptySeq DEF InMain, InSub, Fresh
<1>3. \A i \in DOMAIN sub : ~FirstInSub(sub, Fresh.iSubRec, p, i)
  BY <1>1, <1>2 DEF FirstInSub, InSub
<1>4. Look(p) = want[p]
  BY DEF ContentAsWritten
<1>5. QED
  BY <1>2, <1>3, <1>4 DEF Restores

LEMMA OpenedSlots ==
  ASSUME Typed, NEW n \in Nat, Len(sps) <= n, pagerOpenSavepoint(n)
  PROVE  /\ sps' \in Seq(Slot) /\ Len(sps') = n /\ DOMAIN sps' = 1..n
         /\ \A i \in 1..n : sps'[i] = IF i <= Len(sps) THEN sps[i] ELSE Fresh
         /\ DOMAIN sps = 1..Len(sps) /\ Len(sps) \in Nat /\ Fresh \in Slot
<1> DEFINE more == [i \in 1..(n - Len(sps)) |-> Fresh]
<1>1. sps \in Seq(Slot) /\ Len(sps) \in Nat /\ DOMAIN sps = 1..Len(sps)
      /\ Len(jrnl) \in Nat /\ Len(sub) \in Nat /\ dbSize \in Nat
  BY LenProperties DEF Typed
<1>2. Fresh \in Slot
  BY <1>1 DEF Fresh, Slot
<1>3. more \in Seq(Slot) /\ Len(more) = n - Len(sps)
  BY <1>1, <1>2
<1>4. sps' = sps \o more
  BY DEF pagerOpenSavepoint, Fresh
<1>5. /\ sps' \in Seq(Slot) /\ Len(sps') = n
      /\ \A i \in 1..n : sps'[i] = IF i <= Len(sps) THEN sps[i] ELSE more[i - Len(sps)]
  BY <1>1, <1>3, <1>4, ConcatProperties
<1>6. QED
  BY <1>1, <1>2, <1>5, LenProperties

LEMMA BeginStatementKeeps ==
  ASSUME IInv, NEW kind \in {"plain", "journal"}, BeginStatement(kind)
  PROVE  IInv'
<1> USE DEF BeginStatement, Idle, flagVars, jrnlVars
<1> DEFINE n == IF kind = "journal" THEN nSavepoint + 1 ELSE nSavepoint
<1>1. /\ want \in Seq(Val) /\ saved \in Seq(Seq(Val)) /\ nSavepoint \in 0..MaxNest /\ MaxNest \in Nat
      /\ Len(saved) = nSavepoint /\ Len(sps) <= Len(saved) /\ DOMAIN saved = 1..nSavepoint
      /\ n \in 0..MaxNest /\ Len(sps) <= n /\ Len(sps) \in Nat
      /\ Len(jrnl) \in Nat /\ Len(sub) \in Nat /\ dbSize \in Nat /\ dbOrigSize \in Nat
      /\ Len(want) = dbSize /\ dbOrigSize <= dbSize
  BY BoundsAssumption, LenProperties, SMTT(30) DEF IInv, Typed, Control
<1>2. /\ saved' \in Seq(Seq(Val)) /\ Len(saved') = n /\ DOMAIN saved' = 1..n
      /\ \A i \in 1..n : saved'[i] = IF i <= nSavepoint THEN saved[i] ELSE want
  BY <1>1, Appended
<1>3. /\ sps' \in Seq(Slot) /\ Len(sps') = n /\ DOMAIN sps' = 1..n
      /\ \A i \in 1..n : sps'[i] = IF i <= Len(sps) THEN sps[i] ELSE Fresh
      /\ DOMAIN sps = 1..Len(sps) /\ Fresh \in Slot
  BY <1>1, OpenedSlots DEF IInv
<1>4. Typed'
  <2>1. Len(want) <= N /\ \A i \in 1..nSavepoint : Len(saved[i]) <= N
    BY <1>1 DEF IInv, Typed
  <2>2. ASSUME NEW i \in 1..n
        PROVE  Len(saved'[i]) <= N
    <3>1. saved'[i] = IF i <= nSavepoint THEN saved[i] ELSE want
      BY <1>2, Zenon
    <3>2. i <= nSavepoint => i \in 1..nSavepoint
      BY <1>1
    <3>3. QED
      BY <2>1, <3>1, <3>2, Zenon
  <2>3. \A i \in DOMAIN saved' : Len(saved'[i]) <= N
    BY <1>2, <2>2, Zenon
  <2>4. n <= MaxNest
    BY <1>1
  <2>5. QED
    BY <1>2, <1>3, <2>3, <2>4, Zenon DEF IInv, Typed
<1>5. Control'
  BY <1>1, <1>2, <1>3 DEF IInv, Control, NoPlay
<1>6. Journals' /\ Pages'
  BY <1>1, ControlFrame DEF IInv, Typed
<1>7. SlotsFit'
  <2>1. /\ \A i \in DOMAIN sps : SlotFits(sps[i]) /\ sps[i] \in Slot
        /\ \A i, j \in DOMAIN sps : i < j => Before(sps[i], sps[j])
    BY <1>3, ElementOfSeq DEF IInv, Slots, SlotsFit, Typed
  <2>2. SlotFits(Fresh)
    <3>1. jrnl # <<>> => Len(jrnl) >= 1
      BY <1>1, EmptySeq DEF IInv, Typed
    <3>2. QED
      BY <1>1, <3>1 DEF SlotFits, Fresh
  <2>3. \A s \in Slot : SlotFits(s) => Before(s, Fresh)
    <3>1. Fresh.nOrig = dbSize /\ Fresh.iSubRec = Len(sub)
          /\ Fresh.iOffset = IF jrnl = <<>> THEN 1 ELSE Len(jrnl)
      BY DEF Fresh
    <3>2. jrnl = <<>> => Len(jrnl) = 0
      BY EmptySeq
    <3>3. jrnl # <<>> => Len(jrnl) >= 1
      BY <1>1, EmptySeq DEF IInv, Typed
    <3>4. QED
      BY <1>1, <3>1, <3>2, <3>3 DEF SlotFits, Slot, Before
  <2>4. \A i \in 1..n : SlotFits(sps'[i])
    BY <1>3, <2>1, <2>2
  <2>5. ASSUME NEW i \in 1..n, NEW j \in 1..n, i < j
        PROVE  Before(sps'[i], sps'[j])
    <3>1. sps'[i] = (IF i <= Len(sps) THEN sps[i] ELSE Fresh) /\ sps'[j] = (IF j <= Len(sps) THEN sps[j] ELSE Fresh)
      BY <1>3
    <3>2. CASE j <= Len(sps)
      <4>1. i \in DOMAIN sps /\ j \in DOMAIN sps
        BY <1>1, <1>3, <2>5, <3>2
      <4>2. QED
        BY <1>1, <2>1, <2>5, <3>1, <3>2, <4>1
    <3>3. CASE i <= Len(sps) /\ j > Len(sps)
      <4>1. i \in DOMAIN sps
        BY <1>1, <1>3, <3>3
      <4>2. QED
        BY <1>1, <2>1, <2>3, <3>1, <3>3, <4>1
    <3>4. CASE i > Len(sps)
      BY <1>1, <1>3, <2>2, <2>3, <2>5, <3>1, <3>4
    <3>5. QED
      BY <1>1, <3>2, <3>3, <3>4
  <2>6. QED
    BY <1>3, <2>4, <2>5 DEF SlotsFit, SlotFits
<1>8. FirstStretch'
  <2>1. ASSUME NEW i \in 1..n
        PROVE  LET s == sps'[i]
                   end == IF s.iHdrOffset = 0 THEN Len(jrnl) ELSE s.iHdrOffset
               IN /\ \A j \in s.iOffset..(end - 1) : jrnl[j + 1] # Header
                  /\ s.iHdrOffset # 0 => jrnl[end + 1] = Header
    <3>1. CASE i <= Len(sps)
      BY <1>3, <3>1 DEF IInv, Slots, FirstStretch
    <3>2. CASE i > Len(sps)
      BY <1>1, <1>3, <3>2, EmptySeq DEF Fresh
    <3>3. QED
      BY <1>1, <3>1, <3>2
  <2>2. QED
    BY <1>3, <2>1 DEF FirstStretch
<1>9. PlayFits'
  BY <1>1, <1>3 DEF IInv, Slots, PlayFits, NoPlay
<1>10. SavedKept'
  <2>1. ContentAsWritten /\ Typed /\ stmt # "abort" /\ play = NoPlay /\ SavedKept
    BY DEF IInv, Values
  <2>2. \A s, image : SlotKept(s, image) => SlotKept(s, image)'
    BY DEF SlotKept, Look
  <2>3. SlotKept(Fresh, want)
    <3>1. Fresh.nOrig = dbSize /\ Fresh.inSavepoint = {}
      BY DEF Fresh
    <3>2. QED
      BY <1>1, <2>1, <3>1, FreshRestores DEF SlotKept
  <2>4. ASSUME NEW i \in 1..n
        PROVE  SlotKept(sps'[i], saved'[i])
    <3>1. CASE i <= Len(sps)
      <4>1. i \in DOMAIN sps /\ saved'[i] = saved[i] /\ sps'[i] = sps[i]
        BY <1>1, <1>2, <1>3, <3>1
      <4>2. QED
        BY <2>1, <4>1 DEF SavedKept
    <3>2. CASE i > Len(sps)
      <4>1. sps'[i] = Fresh
        BY <1>3, <3>2
      <4>2. i <= nSavepoint => i \in DOMAIN saved /\ saved'[i] = saved[i]
        BY <1>1, <1>2
      <4>3. saved'[i] = want
        BY <1>2, <2>1, <3>2, <4>2 DEF SavedKept
      <4>4. QED
        BY <2>3, <4>1, <4>3
    <3>3. QED
      BY <1>1, <3>1, <3>2
  <2>5. QED
    BY <1>1, <1>2, <1>3, <2>2, <2>4 DEF SavedKept
<1>11. PlayOn' /\ ContentAsWritten'
  BY <1>1 DEF IInv, Values, PlayOn, ContentAsWritten, Look
<1>12. QED
  BY <1>4, <1>5, <1>6, <1>7, <1>8, <1>9, <1>10, <1>11 DEF IInv, Slots, Values
\* Savepoints are closed from the last one on: m of them stay in the pager, n in the
\* connection.
Closes(m, n) ==
  /\ stmt # "abort"
  /\ UNCHANGED <<db, eState, cache, flagVars, dbOrigSize, jrnl, journalHdr, writes, base>>
  /\ sps' \in Seq(Slot) /\ CutTo(sps', sps, m)
  /\ saved' \in Seq(Seq(Val)) /\ CutTo(saved', saved, n)
  /\ n > m => m = Len(sps) /\ want' = want
  /\ sub' = sub \/ (m = 0 /\ sub' = <<>>)
  /\ dbOrigSize <= dbSize' /\ dbSize' <= dbSize /\ dbSize' \in Nat
  /\ \A i \in 1..m : sps[i].nOrig <= dbSize'

LEMMA CutKeeps ==
  ASSUME IInv, NEW m \in 0..Len(sps), NEW n \in m..Len(saved), Closes(m, n)
  PROVE  /\ sub' \in Seq(Record) /\ Len(sub') <= writes
         /\ Journals' /\ Pages' /\ SlotsFit' /\ FirstStretch' /\ SavedKept'
         /\ \A p : Look(p)' = Look(p)
<1> USE DEF flagVars
<1>1. /\ sps \in Seq(Slot) /\ Len(sps) \in Nat /\ DOMAIN sps = 1..Len(sps)
      /\ saved \in Seq(Seq(Val)) /\ Len(saved) \in Nat /\ DOMAIN saved = 1..Len(saved)
      /\ sub \in Seq(Record) /\ Len(sub) \in Nat /\ Len(jrnl) \in Nat /\ Len(<<>>) = 0
      /\ dbSize \in Nat /\ dbOrigSize \in Nat /\ writes \in Nat /\ Len(sub) <= writes
      /\ m \in Nat /\ n \in Nat /\ m <= Len(sps) /\ n <= Len(saved) /\ m <= n
  BY Shape DEF IInv
<1>15. 1..m \subseteq DOMAIN sps /\ 1..n \subseteq DOMAIN saved
  BY <1>1
<1>2. UNCHANGED <<db, eState, cache, flagVars, dbOrigSize, jrnl, journalHdr, writes, base>>
      /\ stmt # "abort"
  BY Zenon DEF Closes
<1>3. sps' \in Seq(Slot) /\ saved' \in Seq(Seq(Val)) /\ (n > m => m = Len(sps) /\ want' = want)
  BY Zenon DEF Closes
<1>4. sub' = sub \/ (m = 0 /\ sub' = <<>>)
  BY Zenon DEF Closes
<1>5. dbOrigSize <= dbSize' /\ dbSize' <= dbSize /\ dbSize' \in Nat
      /\ \A i \in 1..m : sps[i].nOrig <= dbSize'
  BY Zenon DEF Closes
<1>6. Len(sps') = m /\ DOMAIN sps' = 1..m /\ \A i \in 1..m : sps'[i] = sps[i]
  BY Zenon DEF Closes, CutTo
<1>7. Len(saved') = n /\ DOMAIN saved' = 1..n /\ \A i \in 1..n : saved'[i] = saved[i]
  BY Zenon DEF Closes, CutTo
<1>8. sub' \in Seq(Record) /\ Len(sub') <= writes /\ sub' \in {sub, <<>>}
  <2>1. CASE sub' = sub
    BY <1>1, <2>1, Zenon
  <2>2. CASE sub' = <<>>
    <3>1. sub' \in Seq(Record) /\ Len(sub') = 0
      BY <1>1, <2>2, EmptySeq, Zenon
    <3>2. QED
      BY <1>1, <2>2, <3>1
  <2>3. QED
    BY <1>4, <2>1, <2>2, Zenon
<1>9. Journals' /\ Pages'
  <2>1. /\ UNCHANGED <<db, eState, cache, flagVars, dbOrigSize, jrnl, journalHdr, base>>
        /\ sub' \in {sub, <<>>} /\ dbSize \in Int /\ dbSize' \in Int /\ dbSize' <= dbSize
    BY <1>1, <1>2, <1>8, <1>5
  <2>2. DOMAIN cache \subseteq Page /\ Journals /\ Pages
    BY Zenon DEF IInv, Typed
  <2>3. QED
    BY <2>1, <2>2, ControlFrame, Zenon
<1>10. SlotsFit'
  <2>1. \A i \in 1..m : i \in DOMAIN sps /\ SlotFits(sps[i]) /\ sps[i] \in Slot
    <3>1. \A i \in DOMAIN sps : SlotFits(sps[i]) /\ sps[i] \in Slot
      BY Shape, Zenon DEF IInv, Slots, SlotsFit
    <3>2. QED
      BY <1>1, <1>15, <3>1
  <2>2. m # 0 => UNCHANGED <<dbOrigSize, jrnl, sub>>
    BY <1>2, <1>4
  <2>3. ASSUME NEW s \in Slot, SlotFits(s), m # 0, s.nOrig <= dbSize'
        PROVE  SlotFits(s)'
    BY <2>2, <2>3 DEF SlotFits
  <2>4. \A i \in DOMAIN sps' : sps'[i] \in Slot /\ SlotFits(sps'[i]) /\ m # 0 /\ sps'[i].nOrig <= dbSize'
    BY <1>1, <1>6, <1>5, <2>1
  <2>5. \A i, j \in 1..m : i < j => Before(sps'[i], sps'[j])
    <3>1. \A i, j \in DOMAIN sps : i < j => Before(sps[i], sps[j])
      BY Zenon DEF IInv, Slots, SlotsFit
    <3>2. \A i, j \in 1..m : i \in DOMAIN sps /\ j \in DOMAIN sps
      BY <1>15
    <3>3. QED
      BY <1>6, <3>1, <3>2, Zenon
  <2>6. QED
    BY <1>6, <2>3, <2>4, <2>5 DEF SlotsFit
<1>11. FirstStretch'
  <2>1. UNCHANGED jrnl
    BY <1>2
  <2>2. QED
    BY <1>1, <1>6, <2>1 DEF IInv, Slots, FirstStretch
<1>12. \A p : Look(p)' = Look(p)
  BY <1>2 DEF Look
<1>13. SavedKept'
  <2>1. m # 0 => \A s, image : SlotKept(s, image) => SlotKept(s, image)'
    <3>1. m # 0 => UNCHANGED <<jrnl, sub, base>>
      BY <1>2, <1>4
    <3>2. QED
      BY <1>12, <3>1 DEF SlotKept
  <2>2. \A i \in 1..m : SlotKept(sps'[i], saved'[i])
    <3>1. SavedKept /\ stmt # "abort"
      BY <1>2, Zenon DEF IInv, Values
    <3>2. \A i \in 1..m : SlotKept(sps[i], saved[i])
      BY <1>15, <3>1, Zenon DEF SavedKept
    <3>3. QED
      BY <1>1, <1>6, <1>7, <3>2
  <2>3. \A i \in DOMAIN saved' : i > m => saved'[i] = want'
    <3>1. SavedKept /\ stmt # "abort"
      BY <1>2, Zenon DEF IInv, Values
    <3>2. \A i \in DOMAIN saved : i > Len(sps) => saved[i] = want
      BY <3>1 DEF SavedKept
    <3>3. SUFFICES ASSUME NEW i \in 1..n, i > m
                   PROVE  saved'[i] = want'
      BY <1>7, Zenon
    <3>8. n > m
      BY <1>1, <3>3
    <3>4. m = Len(sps) /\ n > m
      BY <1>3, <3>8, Zenon
    <3>5. saved'[i] = saved[i] /\ want' = want /\ i \in DOMAIN saved
      BY <1>15, <1>7, <1>3, <3>4, Zenon
    <3>6. saved[i] = want
      BY <3>2, <3>3, <3>4, <3>5, Zenon
    <3>7. QED
      BY <3>5, <3>6, Zenon
  <2>4. QED
    BY <1>1, <1>6, <2>1, <2>2, <2>3 DEF SavedKept
<1>14. QED
  BY <1>8, <1>9, <1>10, <1>11, <1>12, <1>13
LEMMA CutTyped ==
  ASSUME IInv, NEW m \in 0..Len(sps), NEW n \in m..Len(saved), Closes(m, n),
         nSavepoint' \in 0..MaxNest, want' \in Seq(Val), Len(want') = dbSize',
         play' \in [k : Int, at : Nat, sub : Nat, done : SUBSET Page]
  PROVE  Typed'
<1>1. UNCHANGED <<db, cache, flagVars, dbOrigSize, jrnl, journalHdr, writes, base>>
      /\ dbOrigSize <= dbSize' /\ dbSize' <= dbSize /\ dbSize' \in Nat
      /\ sps' \in Seq(Slot) /\ saved' \in Seq(Seq(Val))
  BY Zenon DEF Closes
<1>2. Len(saved') = n
  BY Zenon DEF Closes, CutTo
<1>3. sub' \in Seq(Record) /\ Len(sub') <= writes
  BY CutKeeps
<1>4. Len(saved) <= MaxNest /\ dbSize <= N /\ Len(saved) \in Nat /\ N \in Nat /\ dbSize \in Nat /\ MaxNest \in Nat
  BY Shape DEF IInv, Typed
<1>5. Len(saved') <= MaxNest /\ dbSize' <= N
  BY <1>1, <1>2, <1>4
<1>6. \A i \in DOMAIN saved' : Len(saved'[i]) <= N
  <2>1. DOMAIN saved' = 1..n /\ \A i \in 1..n : saved'[i] = saved[i]
    BY Zenon DEF Closes, CutTo
  <2>2. \A i \in DOMAIN saved : Len(saved[i]) <= N
    BY Zenon DEF IInv, Typed
  <2>3. 1..n \subseteq DOMAIN saved
    BY Shape DEF IInv
  <2>4. QED
    BY <2>1, <2>2, <2>3, Zenon
<1>7. QED
  BY <1>1, <1>3, <1>5, <1>6, Zenon DEF IInv, Typed, flagVars

LEMMA Released ==
  ASSUME Typed, NEW k \in Nat \ {0}, pagerRelease(k),
         NEW m, m = IF k > Len(sps) THEN Len(sps) ELSE k - 1
  PROVE  /\ m \in 0..Len(sps)
         /\ sps' \in Seq(Slot) /\ CutTo(sps', sps, m)
         /\ sub' = sub \/ (m = 0 /\ sub' = <<>>)
<1>1. sps \in Seq(Slot) /\ Len(sps) \in Nat /\ DOMAIN sps = 1..Len(sps)
  BY Shape
<1>2. m \in 0..Len(sps)
  BY <1>1
<1>3. CASE k > Len(sps)
  <2>1. sps' = sps /\ sub' = sub /\ m = Len(sps)
    BY <1>3, Zenon DEF pagerRelease
  <2>2. CutTo(sps, sps, m)
    BY <1>1, <2>1 DEF CutTo
  <2>3. QED
    BY <1>1, <1>2, <2>1, <2>2, Zenon
<1>4. CASE ~(k > Len(sps))
  <2>1. sps' = SubSeq(sps, 1, m) /\ sub' = (IF k = 1 THEN <<>> ELSE sub)
    BY <1>4, Zenon DEF pagerRelease
  <2>2. sps' \in Seq(Slot) /\ CutTo(sps', sps, m)
    BY <1>1, <1>2, <2>1, Prefix, Zenon
  <2>3. k = 1 => m = 0
    BY <1>4
  <2>4. QED
    BY <1>2, <2>1, <2>2, <2>3, Zenon
<1>5. QED
  BY <1>3, <1>4

\* A savepoint that the pager has is left with what the database was then.
LEMMA Heights ==
  ASSUME IInv, NEW m \in 0..Len(sps), NEW i \in 1..m
  PROVE  /\ i \in DOMAIN sps /\ m \in DOMAIN sps
         /\ dbOrigSize <= sps[m].nOrig /\ sps[m].nOrig <= dbSize /\ sps[i].nOrig <= sps[m].nOrig
         /\ sps[m].nOrig \in Nat /\ sps[i].nOrig <= dbSize
<1>1. Len(sps) \in Nat /\ DOMAIN sps = 1..Len(sps) /\ \A j \in DOMAIN sps : sps[j] \in Slot
  BY Shape DEF IInv
<1>2. i \in DOMAIN sps /\ m \in DOMAIN sps
  BY <1>1
<1>3. \A j \in DOMAIN sps : SlotFits(sps[j])
  BY Zenon DEF IInv, Slots, SlotsFit
<1>4. \A h, j \in DOMAIN sps : h < j => Before(sps[h], sps[j])
  BY Zenon DEF IInv, Slots, SlotsFit
<1>5. sps[m] \in Slot /\ SlotFits(sps[m]) /\ SlotFits(sps[i]) /\ (i < m => Before(sps[i], sps[m]))
  BY <1>1, <1>2, <1>3, <1>4, Zenon
<1>6. sps[i].nOrig <= dbSize /\ sps[m].nOrig \in Nat /\ dbOrigSize <= sps[m].nOrig /\ sps[m].nOrig <= dbSize
  BY <1>5 DEF SlotFits, Slot
<1>7. i < m => sps[i].nOrig <= sps[m].nOrig
  BY <1>5 DEF Before
<1>8. CASE i < m
  BY <1>2, <1>6, <1>7, <1>8
<1>9. CASE i = m
  BY <1>2, <1>6, <1>9
<1>10. QED
  BY <1>1, <1>8, <1>9

LEMMA SelfPrefix ==
  ASSUME Typed
  PROVE  CutTo(sps, sps, Len(sps)) /\ CutTo(saved, saved, Len(saved))
BY Shape DEF CutTo

\* A connection without a playback in progress after the savepoints are closed.
LEMMA CutQuietly ==
  ASSUME IInv, NEW m \in 0..Len(sps), NEW n \in m..Len(saved), Closes(m, n),
         nSavepoint' \in 0..MaxNest, UNCHANGED <<dbSize, want>>, play' = NoPlay,
         Control', \A p \in 1..dbSize : Look(p) = want[p]
  PROVE  IInv'
<1>1. want \in Seq(Val) /\ Len(want) = dbSize
  BY Zenon DEF IInv, Typed
<1>2. NoPlay \in [k : Int, at : Nat, sub : Nat, done : SUBSET Page]
  BY DEF NoPlay
<1>3. Typed'
  <2>1. want' \in Seq(Val) /\ Len(want') = dbSize'
        /\ play' \in [k : Int, at : Nat, sub : Nat, done : SUBSET Page]
    BY <1>1, <1>2, Zenon
  <2>2. QED
    BY <2>1, CutTyped
<1>4. Journals' /\ Pages' /\ SlotsFit' /\ FirstStretch' /\ SavedKept' /\ \A p : Look(p)' = Look(p)
  BY CutKeeps
<1>5. Len(sps') \in Nat /\ Len(sub') \in Nat
  <2>1. sps' \in Seq(Slot) /\ sub' \in Seq(Record)
    BY CutKeeps, Zenon DEF Closes
  <2>2. QED
    BY <2>1, LenProperties, Zenon
<1>6. PlayFits' /\ PlayOn'
  BY <1>5 DEF PlayFits, PlayOn, NoPlay
<1>7. ContentAsWritten'
  BY <1>1, <1>4 DEF ContentAsWritten
<1>8. QED
  BY <1>3, <1>4, <1>6, <1>7, Zenon DEF IInv, Slots, Values
LEMMA ReleaseKeeps ==
  ASSUME IInv, NEW k \in 1..MaxNest, Release(k)
  PROVE  IInv'
<1> DEFINE m == IF k > Len(sps) THEN Len(sps) ELSE k - 1
<1>1. Typed /\ Control /\ SavedKept /\ ContentAsWritten
  BY Zenon DEF IInv, Values
<1>2. /\ Len(sps) \in Nat /\ Len(saved) \in Nat /\ nSavepoint \in Nat /\ MaxNest \in Nat
      /\ saved \in Seq(Seq(Val)) /\ k \in Nat \ {0} /\ k - 1 \in Nat /\ k - 1 < MaxNest
      /\ DOMAIN sps = 1..Len(sps) /\ dbSize \in Nat /\ dbOrigSize \in Nat /\ dbOrigSize <= dbSize
  BY <1>1, Shape
<1>3. k <= nSavepoint /\ stmt = "none" /\ play = NoPlay /\ eState # "reader" /\ pagerRelease(k)
      /\ nSavepoint' = k - 1 /\ saved' = SubSeq(saved, 1, k - 1)
      /\ UNCHANGED <<db, eState, cache, flagVars, dbSize, dbOrigSize, jrnl, journalHdr, stmt, play,
                     writes, base, want>>
  BY Zenon DEF Release, Idle
<1>4. Len(saved) = nSavepoint
  BY <1>1, <1>3, Zenon DEF Control
<1>5. m \in 0..Len(sps) /\ k - 1 \in 0..Len(saved) /\ k - 1 \in m..Len(saved) /\ (k - 1 > m => m = Len(sps))
  BY <1>2, <1>3, <1>4
<1>6. sps' \in Seq(Slot) /\ CutTo(sps', sps, m) /\ (sub' = sub \/ (m = 0 /\ sub' = <<>>))
  BY <1>1, <1>2, <1>3, Released
<1>7. saved' \in Seq(Seq(Val)) /\ CutTo(saved', saved, k - 1)
  BY <1>2, <1>3, <1>5, Prefix, Zenon
<1>8. \A i \in 1..m : sps[i].nOrig <= dbSize
  BY <1>5, Heights, Zenon
<1>9. Closes(m, k - 1)
  <2>1. stmt # "abort" /\ dbSize <= dbSize
    BY <1>2, <1>3
  <2>2. /\ dbOrigSize <= dbSize' /\ dbSize' <= dbSize /\ dbSize' \in Nat
        /\ \A i \in 1..m : sps[i].nOrig <= dbSize'
    BY <1>2, <1>3, <1>8, <2>1, Zenon
  <2>3. UNCHANGED <<db, eState, cache, flagVars, dbOrigSize, jrnl, journalHdr, writes, base>>
    BY <1>3, Zenon
  <2>4. k - 1 > m => m = Len(sps) /\ want' = want
    BY <1>3, <1>5, Zenon
  <2>5. QED
    BY <1>6, <1>7, <2>1, <2>2, <2>3, <2>4, Zenon DEF Closes
<1>10. Control'
  <2>1. Len(saved') = k - 1 /\ Len(sps') = m
    BY <1>6, <1>7, Zenon DEF CutTo
  <2>2. sub' \in {sub, <<>>}
    BY <1>6, Zenon
  <2>3. Len(sps') <= Len(saved') /\ Len(saved') = nSavepoint'
    BY <1>2, <1>3, <1>5, <2>1
  <2>4. UNCHANGED <<eState, jrnl, journalHdr, play>> /\ stmt = "none" /\ stmt' = "none" /\ play = NoPlay
        /\ eState # "reader"
    BY <1>3, Zenon
  <2>5. QED
    BY <1>1, <2>2, <2>3, <2>4 DEF Control
<1>11. QED
  <2>1. \A p \in 1..dbSize : Look(p) = want[p]
    BY <1>1, <1>3, Zenon DEF ContentAsWritten
  <2>2. nSavepoint' \in 0..MaxNest
    BY <1>2, <1>3
  <2>3. play' = NoPlay /\ UNCHANGED <<dbSize, want>>
    BY <1>3, Zenon
  <2>4. QED
    BY <1>5, <1>9, <1>10, <2>1, <2>2, <2>3, CutQuietly

LEMMA EndStatementKeeps ==
  ASSUME IInv, EndStatement
  PROVE  IInv'
<1>1. Typed /\ Control /\ SavedKept /\ ContentAsWritten
  BY Zenon DEF IInv, Values
<1>2. /\ Len(sps) \in Nat /\ Len(saved) \in Nat /\ nSavepoint \in Nat /\ MaxNest \in Nat
      /\ saved \in Seq(Seq(Val)) /\ sps \in Seq(Slot)
      /\ dbSize \in Nat /\ dbOrigSize \in Nat /\ dbOrigSize <= dbSize /\ nSavepoint \in 0..MaxNest
  BY <1>1, Shape DEF Typed
<1>3. stmt \in {"plain", "journal"} /\ play = NoPlay /\ stmt' = "none"
      /\ UNCHANGED <<db, eState, cache, flagVars, dbSize, dbOrigSize, jrnl, journalHdr, nSavepoint, play,
                     writes, base, want>>
  BY Zenon DEF EndStatement, Writing
<1>4. Len(sps) <= Len(saved)
  BY <1>1, Zenon DEF Control
<1>5. \A p \in 1..dbSize : Look(p) = want[p]
  BY <1>1, <1>3 DEF ContentAsWritten
<1>6. SUFFICES ASSUME NEW m \in 0..Len(sps), NEW n \in m..Len(saved), n = nSavepoint, m <= n,
                      n > m => m = Len(sps),
                      sps' \in Seq(Slot), CutTo(sps', sps, m),
                      saved' \in Seq(Seq(Val)), CutTo(saved', saved, n),
                      sub' = sub \/ (m = 0 /\ sub' = <<>>)
               PROVE  IInv'
  <2>1. CASE stmt = "journal"
    <3>1. pagerRelease(nSavepoint + 1) /\ saved' = Front(saved)
      BY <2>1, Zenon DEF EndStatement
    <3>2. Len(saved) = nSavepoint + 1 /\ Len(sps) = nSavepoint + 1
      BY <1>1, <2>1, Zenon DEF Control
    <3>3. nSavepoint + 1 \in Nat \ {0} /\ nSavepoint = (IF nSavepoint + 1 > Len(sps) THEN Len(sps) ELSE nSavepoint + 1 - 1)
          /\ Len(saved) - 1 = nSavepoint /\ nSavepoint \in 0..Len(saved) /\ nSavepoint \in nSavepoint..Len(saved)
          /\ nSavepoint \in 0..Len(sps) /\ nSavepoint <= nSavepoint
      BY <1>2, <3>2
    <3>4. sps' \in Seq(Slot) /\ CutTo(sps', sps, nSavepoint) /\ (sub' = sub \/ (nSavepoint = 0 /\ sub' = <<>>))
      BY <1>1, <3>1, <3>3, Released
    <3>5. saved' = SubSeq(saved, 1, nSavepoint)
      BY <3>1, <3>3, Zenon DEF Front
    <3>6. saved' \in Seq(Seq(Val)) /\ CutTo(saved', saved, nSavepoint)
      BY <1>2, <3>3, <3>5, Prefix, Zenon
    <3>7. nSavepoint > nSavepoint => nSavepoint = Len(sps)
      BY <1>2
    <3>8. QED
      BY <1>6, <3>3, <3>4, <3>6, <3>7
  <2>2. CASE stmt = "plain"
    <3>1. sps' = sps /\ sub' = sub /\ saved' = saved
      BY <2>2, Zenon DEF EndStatement
    <3>2. Len(saved) = nSavepoint /\ Len(sps) = nSavepoint
      BY <1>1, <2>2, Zenon DEF Control
    <3>3. CutTo(sps', sps, Len(sps)) /\ CutTo(saved', saved, Len(saved))
      BY <1>1, <3>1, SelfPrefix, Zenon
    <3>4. Len(sps) \in 0..Len(sps) /\ nSavepoint \in Len(sps)..Len(saved) /\ Len(sps) <= nSavepoint
      BY <1>2, <3>2
    <3>5. sps' \in Seq(Slot) /\ saved' \in Seq(Seq(Val))
      BY <1>2, <3>1, Zenon
    <3>6. QED
      BY <1>6, <3>1, <3>2, <3>3, <3>4, <3>5, Zenon
  <2>3. QED
    BY <1>3, <2>1, <2>2, Zenon
<1>7. \A i \in 1..m : sps[i].nOrig <= dbSize
  BY Heights, Zenon
<1>8. Closes(m, n)
  <2>1. stmt # "abort" /\ dbSize <= dbSize
    BY <1>2, <1>3
  <2>2. /\ dbOrigSize <= dbSize' /\ dbSize' <= dbSize /\ dbSize' \in Nat
        /\ \A i \in 1..m : sps[i].nOrig <= dbSize'
    BY <1>2, <1>3, <1>7, <2>1, Zenon
  <2>3. UNCHANGED <<db, eState, cache, flagVars, dbOrigSize, jrnl, journalHdr, writes, base>>
    BY <1>3, Zenon
  <2>4. n > m => m = Len(sps) /\ want' = want
    BY <1>3, <1>6, Zenon
  <2>5. QED
    BY <1>6, <2>1, <2>2, <2>3, <2>4, Zenon DEF Closes
<1>9. Control'
  <2>1. Len(saved') = n /\ Len(sps') = m /\ sub' \in {sub, <<>>}
    BY <1>6, Zenon DEF CutTo
  <2>2. Len(saved') = nSavepoint' /\ Len(sps') <= Len(saved') /\ stmt' = "none" /\ play' = NoPlay
        /\ UNCHANGED <<eState, jrnl, journalHdr>>
    BY <1>3, <1>6, <2>1, Zenon
  <2>3. eState # "reader"
    BY <1>1, <1>3 DEF Control
  <2>4. eState # "error"
    BY <1>1, <1>3 DEF Control
  <2>5. QED
    BY <1>1, <2>1, <2>2, <2>3, <2>4 DEF Control
<1>10. QED
  <2>1. nSavepoint' \in 0..MaxNest /\ UNCHANGED <<dbSize, want>> /\ play' = NoPlay
    BY <1>2, <1>3, Zenon
  <2>2. QED
    BY <1>5, <1>8, <1>9, <2>1, CutQuietly
\* A playback begins: savepoint k and those before it stay.
Starts(k) ==
  /\ stmt # "abort" /\ play = NoPlay
  /\ pagerPlaybackSavepoint(k)
  /\ want' = IF k = 0 THEN base ELSE saved[k]
  /\ saved' \in Seq(Seq(Val)) /\ CutTo(saved', saved, k)
  /\ UNCHANGED <<db, eState, cache, flagVars, dbOrigSize, jrnlVars, writes, base>>
  /\ nSavepoint' \in 0..MaxNest

\* What the playback starts from.
LEMMA StartsFrom ==
  ASSUME IInv, NEW k \in 0..Len(sps), Starts(k)
  PROVE  /\ sps' \in Seq(Slot) /\ CutTo(sps', sps, k)
         /\ k = 0 => /\ dbSize' = dbOrigSize /\ want' = base
                     /\ play'.at = 0 /\ play'.sub = Len(sub)
         /\ k > 0 => /\ k \in DOMAIN sps /\ sps'[k] = sps[k]
                     /\ dbSize' = sps[k].nOrig /\ want' = saved[k] /\ saved'[k] = saved[k]
                     /\ play'.at = sps[k].iOffset /\ play'.sub = sps[k].iSubRec
         /\ play' \in [k : Int, at : Nat, sub : Nat, done : SUBSET Page]
         /\ play'.k = k /\ play'.done = {}
<1>1. sps \in Seq(Slot) /\ Len(sps) \in Nat /\ DOMAIN sps = 1..Len(sps) /\ Len(sub) \in Nat
      /\ \A i \in DOMAIN sps : sps[i] \in Slot
  BY Shape DEF IInv
<1>2. ~(k > Len(sps)) /\ (k > 0 => k \in DOMAIN sps /\ k # 0 /\ k \in 1..k) /\ k \in Int
  BY <1>1
<1>3. pagerPlaybackSavepoint(k) /\ want' = (IF k = 0 THEN base ELSE saved[k]) /\ CutTo(saved', saved, k)
  BY Zenon DEF Starts
<1>4. /\ sps' = SubSeq(sps, 1, k)
      /\ dbSize' = (IF k = 0 THEN dbOrigSize ELSE sps[k].nOrig)
      /\ play' = [k |-> k, done |-> {},
                  at |-> IF k = 0 THEN 0 ELSE sps[k].iOffset,
                  sub |-> IF k = 0 THEN Len(sub) ELSE sps[k].iSubRec]
  BY <1>2, <1>3, Zenon DEF pagerPlaybackSavepoint
<1>5. sps' \in Seq(Slot) /\ CutTo(sps', sps, k)
  BY <1>1, <1>4, Prefix, Zenon
<1>6. k > 0 => sps'[k] = sps[k] /\ saved'[k] = saved[k]
  BY <1>2, <1>3, <1>5, Zenon DEF CutTo
<1> DEFINE a == IF k = 0 THEN 0 ELSE sps[k].iOffset
           o == IF k = 0 THEN Len(sub) ELSE sps[k].iSubRec
<1>7. a \in Nat /\ o \in Nat
  BY <1>1, <1>2, SMTT(30) DEF Slot
<1>8. play' = [k |-> k, done |-> {}, at |-> a, sub |-> o]
  BY <1>4, Zenon
<1> HIDE DEF a, o
<1>9. [k |-> k, done |-> {}, at |-> a, sub |-> o] \in [k : Int, at : Nat, sub : Nat, done : SUBSET Page]
  BY <1>2, <1>7
<1>10. /\ play' \in [k : Int, at : Nat, sub : Nat, done : SUBSET Page]
       /\ play'.k = k /\ play'.done = {} /\ play'.at = a /\ play'.sub = o
  BY <1>8, <1>9, Zenon
<1>11. CASE k = 0
  <2>1. a = 0 /\ o = Len(sub) /\ ~(k > 0)
    BY <1>11 DEF a, o
  <2>2. QED
    BY <1>3, <1>4, <1>5, <1>10, <1>11, <2>1, Zenon
<1>12. CASE k > 0
  <2>1. k # 0
    BY <1>12
  <2>2. a = sps[k].iOffset /\ o = sps[k].iSubRec
    BY <2>1, Zenon DEF a, o
  <2>3. QED
    BY <1>2, <1>3, <1>4, <1>5, <1>6, <1>10, <1>12, <2>1, <2>2, Zenon
<1>13. QED
  BY <1>11, <1>12
\* What the playback has to do, to make of every page what it was.
LEMMA ToPlay ==
  ASSUME IInv, NEW k \in 0..Len(sps), Starts(k), NEW p \in 1..dbSize'
  PROVE  Restores(jrnl, sub, play'.at, play'.sub, p, base[p], Look(p), want'[p])
<1>1. stmt # "abort"
  BY Zenon DEF Starts
<1>2. CASE k > 0
  <2>1. k \in DOMAIN sps /\ dbSize' = sps[k].nOrig /\ want' = saved[k]
        /\ play'.at = sps[k].iOffset /\ play'.sub = sps[k].iSubRec
    BY <1>2, StartsFrom, Zenon
  <2>2. SlotKept(sps[k], saved[k])
    BY <1>1, <2>1, Zenon DEF IInv, Values, SavedKept
  <2>3. p \in 1..sps[k].nOrig
    BY <2>1, Zenon
  <2>4. Restores(jrnl, sub, sps[k].iOffset, sps[k].iSubRec, p, base[p], Look(p), saved[k][p])
    BY <2>2, <2>3, Zenon DEF SlotKept
  <2>5. QED
    BY <2>1, <2>4, Zenon
<1>3. CASE k = 0
  <2>1. dbSize' = dbOrigSize /\ want' = base /\ play'.at = 0 /\ play'.sub = Len(sub)
    BY <1>3, StartsFrom, Zenon
  <2>2. p \in 1..dbOrigSize
    BY <2>1, Zenon
  <2>3. DOMAIN jrnl = 1..Len(jrnl) /\ Len(jrnl) \in Nat /\ DOMAIN sub = 1..Len(sub) /\ Len(sub) \in Nat
    BY Shape DEF IInv
  <2>4. ~InMain(jrnl, 0, p) => Look(p) = base[p]
    <3>1. ~InMain(jrnl, 0, p) => ~Journaled(p)
      BY <2>3 DEF InMain, Journaled
    <3>2. QED
      BY <2>2, <3>1, Zenon DEF IInv, Pages, Untouched
  <2>5. \A i \in DOMAIN sub : ~FirstInSub(sub, Len(sub), p, i)
    BY <2>3 DEF FirstInSub
  <2>6. Restores(jrnl, sub, 0, Len(sub), p, base[p], Look(p), base[p])
    BY <2>4, <2>5, Zenon DEF Restores
  <2>7. QED
    BY <2>1, <2>6, Zenon
<1>4. QED
  BY <1>2, <1>3

LEMMA StartsKeeps ==
  ASSUME IInv, NEW k \in 0..Len(sps), Starts(k), k <= Len(saved), Control'
  PROVE  IInv'
<1>1. /\ Len(sps) \in Nat /\ Len(saved) \in Nat /\ Len(jrnl) \in Nat /\ Len(sub) \in Nat
      /\ dbSize \in Nat /\ dbOrigSize \in Nat /\ dbOrigSize <= dbSize /\ k \in Nat /\ k \in Int
  BY Shape DEF IInv
<1>2. /\ stmt # "abort" /\ saved' \in Seq(Seq(Val)) /\ CutTo(saved', saved, k)
      /\ UNCHANGED <<db, eState, cache, flagVars, dbOrigSize, jrnlVars, writes, base>>
      /\ nSavepoint' \in 0..MaxNest
  BY Zenon DEF Starts
<1>3. /\ UNCHANGED <<db, eState, cache, flagVars, dbOrigSize, jrnl, journalHdr, writes, base>>
      /\ sub' = sub
  BY <1>2, Zenon DEF jrnlVars
<1>4. /\ sps' \in Seq(Slot) /\ CutTo(sps', sps, k)
      /\ play' \in [k : Int, at : Nat, sub : Nat, done : SUBSET Page]
      /\ play'.k = k /\ play'.done = {}
  BY StartsFrom, Zenon
<1>5. /\ dbOrigSize <= dbSize' /\ dbSize' <= dbSize /\ dbSize' \in Nat
      /\ \A i \in 1..k : sps[i].nOrig <= dbSize'
      /\ want' \in Seq(Val) /\ Len(want') = dbSize'
  <2>1. CASE k = 0
    <3>1. dbSize' = dbOrigSize /\ want' = base
      BY <2>1, StartsFrom, Zenon
    <3>2. base \in Seq(Val) /\ Len(base) = dbOrigSize /\ dbOrigSize <= dbOrigSize
      BY <1>1 DEF IInv, Typed
    <3>3. \A i \in 1..k : FALSE
      BY <2>1
    <3>4. QED
      BY <1>1, <3>1, <3>2, <3>3, Zenon
  <2>2. CASE k > 0
    <3>1. k \in 1..k
      BY <1>1, <2>2
    <3>2. k \in DOMAIN sps /\ dbSize' = sps[k].nOrig /\ want' = saved[k]
      BY <2>2, StartsFrom, Zenon
    <3>3. dbOrigSize <= sps[k].nOrig /\ sps[k].nOrig <= dbSize /\ sps[k].nOrig \in Nat
          /\ \A i \in 1..k : sps[i].nOrig <= sps[k].nOrig
      BY <3>1, Heights, Zenon
    <3>4. SlotKept(sps[k], saved[k])
      BY <1>2, <3>2, Zenon DEF IInv, Values, SavedKept
    <3>5. Len(saved[k]) = sps[k].nOrig
      BY <3>4, Zenon DEF SlotKept
    <3>6. saved[k] \in Seq(Val)
      <4>1. k \in DOMAIN saved
        BY <1>1, <2>2, Shape DEF IInv
      <4>2. QED
        BY <4>1, Shape, Zenon DEF IInv
    <3>7. QED
      BY <3>2, <3>3, <3>5, <3>6, Zenon
  <2>3. QED
    BY <1>1, <2>1, <2>2
<1>6. k \in k..Len(saved) /\ ~(k > k)
  BY <1>1
<1>7. Closes(k, k)
  BY <1>2, <1>3, <1>4, <1>5, <1>6, Zenon DEF Closes
<1>8. Journals' /\ Pages' /\ SlotsFit' /\ FirstStretch' /\ SavedKept' /\ \A p : Look(p)' = Look(p)
  BY <1>6, <1>7, CutKeeps, Zenon
<1>9. Typed'
  BY <1>2, <1>4, <1>5, <1>6, <1>7, CutTyped, Zenon
<1>10. play' # NoPlay
  BY <1>1, <1>4 DEF NoPlay
<1>11. Len(sps') = k
  BY <1>4, Zenon DEF CutTo
<1>12. PlayFits'
  <2>1. (play'.at <= 1 \/ play'.at <= Len(jrnl)) /\ play'.sub <= Len(sub)
    <3>1. CASE k = 0
      <4>1. play'.at = 0 /\ play'.sub = Len(sub)
        BY <3>1, StartsFrom, Zenon
      <4>2. QED
        BY <1>1, <4>1
    <3>2. CASE k > 0
      <4>1. k \in DOMAIN sps /\ play'.at = sps[k].iOffset /\ play'.sub = sps[k].iSubRec
        BY <3>2, StartsFrom, Zenon
      <4>2. SlotFits(sps[k])
        BY <4>1, Zenon DEF IInv, Slots, SlotsFit
      <4>3. (sps[k].iOffset <= 1 \/ sps[k].iOffset <= Len(jrnl)) /\ sps[k].iSubRec <= Len(sub)
        BY <4>2 DEF SlotFits
      <4>4. QED
        BY <4>1, <4>3, Zenon
    <3>3. QED
      BY <1>1, <3>1, <3>2
  <2>2. k <= k /\ k >= -1
    BY <1>1
  <2>3. jrnl' = jrnl
    BY <1>3, Zenon
  <2>4. QED
    BY <1>3, <1>4, <1>11, <2>1, <2>2, <2>3, Zenon DEF PlayFits
<1>13. PlayOn'
  <2>1. \A p \in 1..dbSize' : Restores(jrnl, sub, play'.at, play'.sub, p, base[p], Look(p), want'[p])
    BY ToPlay
  <2>2. \A p \in 1..dbSize' : p \notin play'.done
                /\ Restores(jrnl', sub', play'.at, play'.sub, p, base'[p], Look(p)', want'[p])
    BY <1>3, <1>4, <1>8, <2>1, Zenon
  <2>3. k = 0 => want' = base' /\ play'.sub = Len(sub')
    BY <1>3, StartsFrom, Zenon
  <2>4. k > 0 => want' = saved'[k] /\ sps'[k].iOffset <= play'.at /\ sps'[k].iSubRec <= play'.sub
    <3>1. ASSUME k > 0
          PROVE  sps[k].iOffset <= sps[k].iOffset /\ sps[k].iSubRec <= sps[k].iSubRec
      <4>1. k \in DOMAIN sps
        BY <3>1, StartsFrom, Zenon
      <4>2. sps[k] \in Slot
        BY <4>1, Shape, Zenon DEF IInv
      <4>3. QED
        BY <4>2 DEF Slot
    <3>2. QED
      BY <3>1, StartsFrom, Zenon
  <2>5. QED
    BY <1>4, <1>11, <2>2, <2>3, <2>4, Zenon DEF PlayOn
<1>14. ContentAsWritten'
  BY <1>10, Zenon DEF ContentAsWritten
<1>15. QED
  BY <1>8, <1>9, <1>12, <1>13, <1>14, Zenon DEF IInv, Slots, Values
LEMMA RollbackToKeeps ==
  ASSUME IInv, NEW k \in 0..MaxNest, RollbackTo(k)
  PROVE  IInv'
<1>1. Typed /\ Control /\ SavedKept /\ ContentAsWritten
  BY Zenon DEF IInv, Values
<1>2. /\ Len(sps) \in Nat /\ Len(saved) \in Nat /\ nSavepoint \in Nat /\ MaxNest \in Nat
      /\ saved \in Seq(Seq(Val)) /\ sps \in Seq(Slot) /\ k \in Nat
      /\ DOMAIN sps = 1..Len(sps) /\ DOMAIN saved = 1..Len(saved)
      /\ dbSize \in Nat /\ dbOrigSize \in Nat /\ dbOrigSize <= dbSize
  BY <1>1, Shape
<1>3. k <= nSavepoint /\ stmt = "none" /\ play = NoPlay /\ eState # "reader"
      /\ pagerPlaybackSavepoint(k) /\ nSavepoint' = k
      /\ want' = (IF k = 0 THEN base ELSE saved[k]) /\ saved' = SubSeq(saved, 1, k)
      /\ UNCHANGED <<db, eState, cache, flagVars, dbOrigSize, jrnlVars, stmt, writes, base>>
  BY Zenon DEF RollbackTo, Idle
<1>4. Len(saved) = nSavepoint /\ Len(sps) <= Len(saved)
  BY <1>1, <1>3, Zenon DEF Control
<1>5. k \in 0..Len(saved) /\ nSavepoint' \in 0..MaxNest
  BY <1>2, <1>3, <1>4
<1>6. saved' \in Seq(Seq(Val)) /\ CutTo(saved', saved, k)
  BY <1>2, <1>3, <1>5, Prefix, Zenon
<1>7. UNCHANGED <<eState, jrnl, journalHdr, sub>> /\ stmt' = "none" /\ Len(saved') = nSavepoint'
  BY <1>3, <1>6, Zenon DEF jrnlVars, CutTo
<1>8. ASSUME Len(sps') <= Len(saved')
      PROVE  Control'
  <2>1. eState # "reader" /\ stmt = "none"
    BY <1>3
  <2>2. QED
    BY <1>1, <1>7, <1>8, <2>1 DEF Control
<1>9. CASE k <= Len(sps)
  <2>1. k \in 0..Len(sps) /\ k <= Len(saved)
    BY <1>2, <1>4, <1>9
  <2>2. stmt # "abort"
    BY <1>3
  <2>3. Starts(k)
    BY <1>3, <1>5, <1>6, <2>2, Zenon DEF Starts
  <2>4. Len(sps') = k /\ Len(saved') = k
    BY <1>6, <2>1, <2>3, StartsFrom, Zenon DEF CutTo
  <2>5. Control'
    BY <1>2, <1>8, <2>4
  <2>6. QED
    BY <2>1, <2>3, <2>5, StartsKeeps, Zenon
<1>10. CASE k > Len(sps)
  <2>1. sps' = sps /\ dbSize' = dbSize /\ play' = play
    BY <1>3, <1>10, Zenon DEF pagerPlaybackSavepoint
  <2>2. k # 0 /\ k \in DOMAIN saved /\ k \in Len(sps)..Len(saved) /\ Len(sps) \in 0..Len(sps)
        /\ stmt # "abort" /\ Len(sps) <= k /\ dbSize <= dbSize
    BY <1>2, <1>3, <1>5, <1>10
  <2>3. want' = want
    <3>1. saved[k] = want
      BY <1>1, <1>10, <2>2, Zenon DEF SavedKept
    <3>2. QED
      BY <1>3, <2>2, <3>1, Zenon
  <2>4. CutTo(sps', sps, Len(sps))
    BY <1>1, <2>1, SelfPrefix, Zenon
  <2>5. \A i \in 1..Len(sps) : sps[i].nOrig <= dbSize
    BY <2>2, Heights, Zenon
  <2>6. Closes(Len(sps), k)
    <3>1. /\ UNCHANGED <<db, eState, cache, flagVars, dbOrigSize, jrnl, journalHdr, writes, base>>
          /\ sub' = sub
      BY <1>3, Zenon DEF jrnlVars
    <3>2. /\ dbOrigSize <= dbSize' /\ dbSize' <= dbSize /\ dbSize' \in Nat
          /\ \A i \in 1..Len(sps) : sps[i].nOrig <= dbSize'
      BY <1>2, <2>1, <2>2, <2>5, Zenon
    <3>3. sps' \in Seq(Slot)
      BY <1>2, <2>1, Zenon
    <3>4. QED
      BY <1>6, <2>2, <2>3, <2>4, <3>1, <3>2, <3>3, Zenon DEF Closes
  <2>7. Control'
    <3>1. Len(saved') = k /\ Len(sps') = Len(sps)
      BY <1>6, <2>1, Zenon DEF CutTo
    <3>2. QED
      BY <1>8, <2>2, <3>1
  <2>8. \A p \in 1..dbSize : Look(p) = want[p]
    BY <1>1, <1>3, <2>2, Zenon DEF ContentAsWritten
  <2>9. UNCHANGED <<dbSize, want>> /\ play' = NoPlay
    BY <1>3, <2>1, <2>3, Zenon
  <2>10. QED
    BY <1>5, <2>2, <2>6, <2>7, <2>8, <2>9, CutQuietly
<1>11. QED
  BY <1>2, <1>9, <1>10

LEMMA StatementFailsKeeps ==
  ASSUME IInv, StatementFails
  PROVE  IInv'
<1> DEFINE k == nSavepoint + 1
<1>1. Typed /\ Control
  BY Zenon DEF IInv
<1>2. /\ Len(sps) \in Nat /\ Len(saved) \in Nat /\ nSavepoint \in Nat /\ MaxNest \in Nat
      /\ saved \in Seq(Seq(Val)) /\ nSavepoint \in 0..MaxNest
  BY <1>1, Shape DEF Typed
<1>3. stmt \in {"journal", "failed"} /\ play = NoPlay /\ pagerPlaybackSavepoint(k)
      /\ stmt' = "failed" /\ want' = Last(saved)
      /\ UNCHANGED <<db, eState, cache, flagVars, dbOrigSize, jrnlVars, nSavepoint, writes, base, saved>>
  BY Zenon DEF StatementFails
<1>4. Len(saved) = k /\ Len(sps) = k
  BY <1>1, <1>3, Zenon DEF Control
<1>5. k \in 0..Len(sps) /\ k <= Len(saved) /\ k # 0 /\ stmt # "abort"
  BY <1>2, <1>3, <1>4
<1> HIDE DEF k
<1>6. Starts(k)
  <2>1. want' = saved[k]
    BY <1>3, <1>4, Zenon DEF Last
  <2>2. want' = IF k = 0 THEN base ELSE saved[k]
    BY <1>5, <2>1, Zenon
  <2>3. CutTo(saved', saved, k) /\ saved' \in Seq(Seq(Val)) /\ nSavepoint' \in 0..MaxNest
    BY <1>1, <1>2, <1>3, <1>4, SelfPrefix, Zenon
  <2>4. QED
    BY <1>3, <1>5, <2>2, <2>3, Zenon DEF Starts
<1>7. Len(sps') = k /\ Len(saved') = k
  BY <1>3, <1>4, <1>5, <1>6, StartsFrom, Zenon DEF CutTo
<1>8. Control'
  <2>1. UNCHANGED <<eState, jrnl, journalHdr, sub, nSavepoint>> /\ stmt' = "failed"
    BY <1>3, Zenon DEF jrnlVars
  <2>2. eState # "reader" /\ eState # "error"
    BY <1>1, <1>3 DEF Control
  <2>3. Len(saved') = nSavepoint' + 1 /\ Len(sps') = nSavepoint' + 1 /\ Len(sps') <= Len(saved')
    BY <1>2, <1>4, <1>7, <2>1 DEF k
  <2>4. QED
    BY <1>1, <2>1, <2>2, <2>3 DEF Control
<1>9. QED
  BY <1>5, <1>6, <1>8, StartsKeeps, Zenon

\* After the last record nothing is left to restore.
LEMMA PlayedOut ==
  ASSUME IInv, play # NoPlay, stmt # "abort", play.at >= Len(jrnl), play.sub >= Len(sub)
  PROVE  \A p \in 1..dbSize : Look(p) = want[p]
<1>1. SUFFICES ASSUME NEW p \in 1..dbSize, p \notin play.done
               PROVE  Look(p) = want[p]
  BY Zenon DEF IInv, Values, PlayOn
<1>2. Restores(jrnl, sub, play.at, play.sub, p, base[p], Look(p), want[p])
  BY <1>1, Zenon DEF IInv, Values, PlayOn
<1>3. DOMAIN jrnl = 1..Len(jrnl) /\ Len(jrnl) \in Nat /\ DOMAIN sub = 1..Len(sub) /\ Len(sub) \in Nat
  BY Shape DEF IInv
<1>4. play.at \in Nat /\ play.sub \in Nat
  BY DEF IInv, Typed
<1>5. ~InMain(jrnl, play.at, p) /\ ~InSub(sub, play.sub, p)
  BY <1>3, <1>4 DEF InMain, InSub
<1>6. QED
  BY <1>2, <1>5, Zenon DEF Restores

LEMMA PlayEndKeeps ==
  ASSUME IInv, PlayEnd
  PROVE  IInv'
<1>1. Typed /\ Control /\ SavedKept /\ PlayOn
  BY Zenon DEF IInv, Values
<1>2. /\ Len(sps) \in Nat /\ Len(saved) \in Nat /\ nSavepoint \in Nat /\ MaxNest \in Nat
      /\ saved \in Seq(Seq(Val)) /\ sps \in Seq(Slot)
      /\ dbSize \in Nat /\ dbOrigSize \in Nat /\ dbOrigSize <= dbSize /\ nSavepoint \in 0..MaxNest
  BY <1>1, Shape DEF Typed
<1>3. play # NoPlay /\ stmt # "abort" /\ stmt' = "none" /\ play' = NoPlay
      /\ play.at >= Len(jrnl) /\ play.sub >= Len(sub)
      /\ UNCHANGED <<db, eState, cache, flagVars, dbSize, dbOrigSize, jrnl, journalHdr, nSavepoint,
                     writes, base, want>>
  BY Zenon DEF PlayEnd, Playing
<1>4. Len(sps) <= Len(saved) /\ play.k = Len(sps) /\ stmt \in {"none", "failed"} /\ eState # "reader"
  BY <1>1, <1>3 DEF Control, PlayOn
<1>5. \A p \in 1..dbSize : Look(p) = want[p]
  BY <1>3, PlayedOut
<1>6. SUFFICES ASSUME NEW m \in 0..Len(sps), NEW n \in m..Len(saved), n = nSavepoint, m <= n,
                      n > m => m = Len(sps),
                      sps' \in Seq(Slot), CutTo(sps', sps, m),
                      saved' \in Seq(Seq(Val)), CutTo(saved', saved, n),
                      sub' = sub \/ (m = 0 /\ sub' = <<>>)
               PROVE  IInv'
  <2>1. CASE stmt = "failed"
    <3>1. pagerRelease(play.k) /\ saved' = Front(saved)
      BY <2>1, Zenon DEF PlayEnd
    <3>2. Len(saved) = nSavepoint + 1 /\ Len(sps) = nSavepoint + 1 /\ play.k = nSavepoint + 1
      BY <1>1, <1>4, <2>1, Zenon DEF Control
    <3>3. nSavepoint + 1 \in Nat \ {0} /\ nSavepoint = (IF nSavepoint + 1 > Len(sps) THEN Len(sps) ELSE nSavepoint + 1 - 1)
          /\ Len(saved) - 1 = nSavepoint /\ nSavepoint \in 0..Len(saved) /\ nSavepoint \in nSavepoint..Len(saved)
          /\ nSavepoint \in 0..Len(sps) /\ nSavepoint <= nSavepoint
      BY <1>2, <3>2
    <3>9. pagerRelease(nSavepoint + 1)
      BY <3>1, <3>2, Zenon
    <3>4. sps' \in Seq(Slot) /\ CutTo(sps', sps, nSavepoint) /\ (sub' = sub \/ (nSavepoint = 0 /\ sub' = <<>>))
      BY <1>1, <3>9, <3>3, Released
    <3>5. saved' = SubSeq(saved, 1, nSavepoint)
      BY <3>1, <3>3, Zenon DEF Front
    <3>6. saved' \in Seq(Seq(Val)) /\ CutTo(saved', saved, nSavepoint)
      BY <1>2, <3>3, <3>5, Prefix, Zenon
    <3>7. nSavepoint > nSavepoint => nSavepoint = Len(sps)
      BY <1>2
    <3>8. QED
      BY <1>6, <3>3, <3>4, <3>6, <3>7
  <2>2. CASE stmt = "none"
    <3>1. sps' = sps /\ sub' = sub /\ saved' = saved
      <4>1. stmt # "failed"
        BY <2>2
      <4>2. QED
        BY <4>1, Zenon DEF PlayEnd
    <3>2. Len(saved) = nSavepoint
      BY <1>1, <2>2, Zenon DEF Control
    <3>3. CutTo(sps', sps, Len(sps)) /\ CutTo(saved', saved, Len(saved))
      BY <1>1, <3>1, SelfPrefix, Zenon
    <3>4. Len(sps) \in 0..Len(sps) /\ nSavepoint \in Len(sps)..Len(saved) /\ Len(sps) <= nSavepoint
      BY <1>2, <1>4, <3>2
    <3>5. sps' \in Seq(Slot) /\ saved' \in Seq(Seq(Val))
      BY <1>2, <3>1, Zenon
    <3>6. QED
      BY <1>6, <3>1, <3>2, <3>3, <3>4, <3>5, Zenon
  <2>3. QED
    BY <1>4, <2>1, <2>2, Zenon
<1>7. \A i \in 1..m : sps[i].nOrig <= dbSize
  BY Heights, Zenon
<1>8. Closes(m, n)
  <2>1. dbSize <= dbSize
    BY <1>2
  <2>2. /\ dbOrigSize <= dbSize' /\ dbSize' <= dbSize /\ dbSize' \in Nat
        /\ \A i \in 1..m : sps[i].nOrig <= dbSize'
    BY <1>2, <1>3, <1>7, <2>1, Zenon
  <2>3. UNCHANGED <<db, eState, cache, flagVars, dbOrigSize, jrnl, journalHdr, writes, base>>
    BY <1>3, Zenon
  <2>4. n > m => m = Len(sps) /\ want' = want
    BY <1>3, <1>6, Zenon
  <2>5. QED
    BY <1>3, <1>6, <2>2, <2>3, <2>4, Zenon DEF Closes
<1>9. Control'
  <2>1. Len(saved') = n /\ Len(sps') = m /\ sub' \in {sub, <<>>}
    BY <1>6, Zenon DEF CutTo
  <2>2. Len(saved') = nSavepoint' /\ Len(sps') <= Len(saved') /\ stmt' = "none" /\ play' = NoPlay
        /\ UNCHANGED <<eState, jrnl, journalHdr>>
    BY <1>3, <1>6, <2>1, Zenon
  <2>3. eState # "error"
    BY <1>1, <1>4 DEF Control
  <2>4. QED
    BY <1>1, <1>4, <2>1, <2>2, <2>3 DEF Control
<1>10. QED
  <2>1. nSavepoint' \in 0..MaxNest /\ UNCHANGED <<dbSize, want>> /\ play' = NoPlay
    BY <1>2, <1>3, Zenon
  <2>2. QED
    BY <1>5, <1>8, <1>9, <2>1, CutQuietly
LEMMA PlayFailsKeeps ==
  ASSUME IInv, PlayFails
  PROVE  IInv'
<1>1. /\ play # NoPlay /\ stmt # "abort" /\ stmt' = "abort"
      /\ UNCHANGED <<db, eState, cache, flagVars, dbSize, dbOrigSize, jrnlVars, sps, nSavepoint, play,
                     history>>
  BY Zenon DEF PlayFails, Playing
<1>2. UNCHANGED <<db, eState, cache, dirty, needSync, writeable, dbSize, dbOrigSize, jrnl, journalHdr, sub,
                  sps, nSavepoint, play, writes, base, want, saved>>
  BY <1>1, Zenon DEF flagVars, jrnlVars, history
<1>3. Typed'
  BY <1>2 DEF IInv, Typed
<1>4. Control'
  BY <1>1, <1>2 DEF IInv, Control
<1>5. Journals'
  BY <1>2 DEF IInv, Journals, JournalKept, UnsyncedMarked, SubKnown, WriteableKnown, Journaled
<1>6. Pages'
  BY <1>2 DEF IInv, Pages, FileKept, Untouched, Clean, Look, Journaled
<1>7. Slots'
  BY <1>2 DEF IInv, Slots, SlotsFit, SlotFits, PlayFits, FirstStretch
<1>8. Values'
  BY <1>1, Zenon DEF Values, SavedKept, PlayOn, ContentAsWritten
<1>9. QED
  BY <1>3, <1>4, <1>5, <1>6, <1>7, <1>8, Zenon DEF IInv
-----------------------------------------------------------------------------
(* Pages come into the cache and leave it.                                 *)

LEMMA CacheKeeps ==
  ASSUME IInv,
         UNCHANGED <<db, eState, flagVars, dbSize, dbOrigSize, jrnlVars, sps, nSavepoint, stmt, play,
                     history>>,
         \A p \in 1..dbSize : Look(p)' = Look(p), Typed', Clean'
  PROVE  IInv'
<1>1. UNCHANGED <<db, eState, dirty, needSync, writeable, dbSize, dbOrigSize, jrnl, journalHdr, sub,
                  sps, nSavepoint, stmt, play, writes, base, want, saved>>
  BY Zenon DEF flagVars, jrnlVars, history
<1>2. Control'
  BY <1>1 DEF IInv, Control
<1>3. Journals'
  BY <1>1 DEF IInv, Journals, JournalKept, UnsyncedMarked, SubKnown, WriteableKnown, Journaled
<1>4. dbSize \in Nat /\ dbOrigSize \in Nat /\ dbOrigSize <= dbSize
      /\ \A i \in DOMAIN sps : sps[i] \in Slot /\ sps[i].nOrig <= dbSize
  <2>1. dbSize \in Nat /\ dbOrigSize \in Nat /\ dbOrigSize <= dbSize /\ \A i \in DOMAIN sps : sps[i] \in Slot
    BY Shape DEF IInv
  <2>2. \A i \in DOMAIN sps : SlotFits(sps[i])
    BY Zenon DEF IInv, Slots, SlotsFit
  <2>3. \A i \in DOMAIN sps : sps[i].nOrig <= dbSize
    BY <2>2 DEF SlotFits
  <2>4. QED
    BY <2>1, <2>3
<1>5. FileKept'
  BY <1>1 DEF IInv, Pages, FileKept
<1>6. Untouched'
  <2>1. Untouched
    BY Zenon DEF IInv, Pages
  <2>2. \A p \in 1..dbOrigSize : p \in 1..dbSize
    BY <1>4
  <2>3. \A p \in 1..dbOrigSize : ~Journaled(p) => Look(p)' = base[p]
    BY <2>1, <2>2, Zenon DEF Untouched
  <2>4. \A p : Journaled(p)' = Journaled(p)
    BY <1>1, Zenon DEF Journaled
  <2>5. QED
    BY <1>1, <2>3, <2>4, Zenon DEF Untouched
<1>7. Slots'
  BY <1>1 DEF IInv, Slots, SlotsFit, SlotFits, PlayFits, FirstStretch
<1>8. SavedKept'
  <2>1. SavedKept
    BY Zenon DEF IInv, Values
  <2>2. \A s \in Slot : \A image : s.nOrig <= dbSize /\ SlotKept(s, image) => SlotKept(s, image)'
    <3>1. SUFFICES ASSUME NEW s \in Slot, NEW image, s.nOrig <= dbSize, SlotKept(s, image)
                   PROVE  SlotKept(s, image)'
      OBVIOUS
    <3>2. \A p \in 1..s.nOrig : p \in 1..dbSize
      BY <1>4, <3>1 DEF Slot
    <3>3. \A p \in 1..s.nOrig : Look(p)' = Look(p)
      BY <3>2
    <3>4. QED
      BY <1>1, <3>1, <3>3, Zenon DEF SlotKept
  <2>3. QED
    BY <1>1, <1>4, <2>1, <2>2, Zenon DEF SavedKept
<1>9. PlayOn' /\ ContentAsWritten'
  <2>1. PlayOn /\ ContentAsWritten
    BY Zenon DEF IInv, Values
  <2>2. QED
    BY <1>1, <2>1 DEF PlayOn, ContentAsWritten
<1>10. QED
  BY <1>2, <1>3, <1>5, <1>6, <1>7, <1>8, <1>9, Zenon DEF IInv, Pages, Values

LEMMA ReadKeeps ==
  ASSUME IInv, NEW p \in Page, Read(p)
  PROVE  IInv'
<1>1. Typed /\ Clean
  BY Zenon DEF IInv, Pages
<1>2. /\ p \notin DOMAIN cache /\ cache' = Put(cache, p, db[p])
      /\ UNCHANGED <<db, eState, flagVars, dbSize, dbOrigSize, jrnlVars, sps, nSavepoint, stmt, play,
                     history>>
  BY Zenon DEF Read
<1>3. UNCHANGED <<db, dirty, needSync, writeable, dbSize, dbOrigSize, jrnl, journalHdr, sub,
                  sps, nSavepoint, play, writes, base, want, saved>>
  BY <1>2, Zenon DEF flagVars, jrnlVars, history
<1>4. cache' = [q \in DOMAIN cache \cup {p} |-> IF q = p THEN db[p] ELSE cache[q]]
  BY <1>2, Zenon DEF Put
<1>5. db[p] \in Content
  BY <1>1 DEF Typed
<1>6. DOMAIN cache' = DOMAIN cache \cup {p} /\ cache'[p] = db[p] /\ \A q \in DOMAIN cache : cache'[q] = cache[q]
  BY <1>2, <1>4
<1>7. Typed'
  <2>1. cache' \in [DOMAIN cache' -> Content]
    BY <1>1, <1>4, <1>5 DEF Typed
  <2>2. DOMAIN cache' \subseteq Page /\ dirty \subseteq DOMAIN cache'
    BY <1>1, <1>6 DEF Typed
  <2>3. QED
    BY <1>1, <1>3, <2>1, <2>2, Zenon DEF Typed
<1>8. Clean'
  BY <1>1, <1>3, <1>6 DEF Clean
<1>9. \A q : Look(q)' = Look(q)
  BY <1>2, <1>3, <1>6 DEF Look
<1>10. QED
  BY <1>2, <1>7, <1>8, <1>9, CacheKeeps, Zenon

LEMMA EvictKeeps ==
  ASSUME IInv, NEW p \in Page, Evict(p)
  PROVE  IInv'
<1>1. Typed /\ Clean
  BY Zenon DEF IInv, Pages
<1>2. /\ p \in DOMAIN cache \ (dirty \cup {1}) /\ cache' = Restrict(cache, DOMAIN cache \ {p})
      /\ UNCHANGED <<db, eState, flagVars, dbSize, dbOrigSize, jrnlVars, sps, nSavepoint, stmt, play,
                     history>>
  BY Zenon DEF Evict
<1>3. UNCHANGED <<db, dirty, needSync, writeable, dbSize, dbOrigSize, jrnl, journalHdr, sub,
                  sps, nSavepoint, play, writes, base, want, saved>>
  BY <1>2, Zenon DEF flagVars, jrnlVars, history
<1>4. cache' = [q \in DOMAIN cache \ {p} |-> cache[q]]
  BY <1>2, Zenon DEF Restrict
<1>6. DOMAIN cache' = DOMAIN cache \ {p} /\ \A q \in DOMAIN cache \ {p} : cache'[q] = cache[q]
  BY <1>4
<1>7. Typed'
  <2>1. cache' \in [DOMAIN cache' -> Content]
    BY <1>1, <1>4 DEF Typed
  <2>2. DOMAIN cache' \subseteq Page /\ dirty \subseteq DOMAIN cache'
    BY <1>1, <1>2, <1>6 DEF Typed
  <2>3. QED
    BY <1>1, <1>3, <2>1, <2>2, Zenon DEF Typed
<1>8. Clean'
  BY <1>1, <1>3, <1>6 DEF Clean
<1>9. \A q \in 1..dbSize : Look(q)' = Look(q)
  <2>1. p <= dbSize => cache[p] = db[p]
    BY <1>1, <1>2 DEF Clean
  <2>2. dbSize \in Nat
    BY <1>1, Shape
  <2>3. QED
    BY <1>2, <1>3, <1>6, <2>1, <2>2 DEF Look
<1>10. QED
  BY <1>2, <1>7, <1>8, <1>9, CacheKeeps, Zenon
-----------------------------------------------------------------------------
(* Spills: the journal is synced and gets a new header.                    *)

\* A header is at the end of a journal j, which knows the same pages as before.
Headed(j) ==
  /\ j \in Seq(Record \cup {Header}) /\ Len(j) = Len(jrnl) + 1 /\ DOMAIN j = 1..(Len(jrnl) + 1)
  /\ \A i \in DOMAIN jrnl : i \in DOMAIN j /\ j[i] = jrnl[i]
  /\ j[Len(jrnl) + 1] = Header
  /\ \A a, q : q \in Page => (InMain(j, a, q) <=> InMain(jrnl, a, q))
  /\ \A q : q \in Page => ((\E i \in DOMAIN j : j[i].page = q) <=> Journaled(q))

LEMMA HeaderAppended ==
  ASSUME Typed, NEW j, j = Append(jrnl, Header)
  PROVE  Headed(j)
<1>1. jrnl \in Seq(Record \cup {Header}) /\ Len(jrnl) \in Nat /\ DOMAIN jrnl = 1..Len(jrnl)
      /\ Header \in Record \cup {Header}
  BY Shape
<1>2. /\ Append(jrnl, Header) \in Seq(Record \cup {Header}) /\ Len(Append(jrnl, Header)) = Len(jrnl) + 1
      /\ DOMAIN Append(jrnl, Header) = 1..(Len(jrnl) + 1)
      /\ \A i \in DOMAIN jrnl : Append(jrnl, Header)[i] = jrnl[i]
      /\ Append(jrnl, Header)[Len(jrnl) + 1] = Header
  BY <1>1, Appended
<1>3. /\ j \in Seq(Record \cup {Header}) /\ Len(j) = Len(jrnl) + 1 /\ DOMAIN j = 1..(Len(jrnl) + 1)
      /\ \A i \in DOMAIN jrnl : j[i] = jrnl[i]
      /\ j[Len(jrnl) + 1] = Header
  BY <1>2, Zenon
<1>4. Header.page = 0 /\ \A q \in Page : q # 0
  BY BoundsAssumption DEF Header, Page
<1>5. \A i \in DOMAIN j : i \in DOMAIN jrnl \/ i = Len(jrnl) + 1
  BY <1>1, <1>3
<1>6. \A i \in DOMAIN jrnl : i \in DOMAIN j
  BY <1>1, <1>3
<1>7. \A i \in DOMAIN j, q \in Page : j[i].page = q => i \in DOMAIN jrnl /\ jrnl[i].page = q
  BY <1>3, <1>4, <1>5, Zenon
<1>8. \A a, q : q \in Page => (InMain(j, a, q) <=> InMain(jrnl, a, q))
  BY <1>3, <1>6, <1>7, Zenon DEF InMain
<1>9. \A q : q \in Page => ((\E i \in DOMAIN j : j[i].page = q) <=> Journaled(q))
  BY <1>3, <1>6, <1>7, Zenon DEF Journaled
<1>10. QED
  BY <1>3, <1>6, <1>8, <1>9, Zenon DEF Headed

\* A savepoint knows where the first header behind its records is.
Stretched(s) == IF s.iHdrOffset = 0 THEN [s EXCEPT !.iHdrOffset = Len(jrnl)] ELSE s

LEMMA StretchedSlot ==
  ASSUME NEW s \in Slot, Len(jrnl) \in Nat
  PROVE  /\ Stretched(s) \in Slot
         /\ Stretched(s).nOrig = s.nOrig /\ Stretched(s).iOffset = s.iOffset
         /\ Stretched(s).iSubRec = s.iSubRec /\ Stretched(s).inSavepoint = s.inSavepoint
         /\ Stretched(s).iHdrOffset = IF s.iHdrOffset = 0 THEN Len(jrnl) ELSE s.iHdrOffset
BY DEF Stretched, Slot

LEMMA StretchedSlots ==
  ASSUME Typed, NEW t, t = [i \in DOMAIN sps |-> Stretched(sps[i])]
  PROVE  t \in Seq(Slot) /\ Len(t) = Len(sps) /\ DOMAIN t = DOMAIN sps
         /\ \A i \in DOMAIN sps : t[i] = Stretched(sps[i])
<1>1. Len(sps) \in Nat /\ DOMAIN sps = 1..Len(sps) /\ \A i \in DOMAIN sps : sps[i] \in Slot
      /\ Len(jrnl) \in Nat
  BY Shape
<1>2. \A i \in 1..Len(sps) : Stretched(sps[i]) \in Slot
  BY <1>1, StretchedSlot
<1>3. t \in [1..Len(sps) -> Slot] /\ DOMAIN t = DOMAIN sps /\ \A i \in DOMAIN sps : t[i] = Stretched(sps[i])
  BY <1>1, <1>2
<1>4. t \in Seq(Slot)
  BY <1>1, <1>3, SeqDef
<1>5. Len(t) \in Nat /\ DOMAIN t = 1..Len(t)
  BY <1>4, LenProperties
<1>6. Len(t) = Len(sps)
  BY <1>1, <1>3, <1>5
<1>7. QED
  BY <1>3, <1>4, <1>6, Zenon
\* A dirty page is written to the file, after a sync of the journal if it takes one.
Spills(p) ==
  /\ Idle \/ Writing
  /\ p \in dirty /\ (MustSync(p) => Len(jrnl) < MaxJrnl)
  /\ syncJournal(p) /\ pager_write_pagelist(p)
  /\ UNCHANGED <<cache, dbSize, dbOrigSize, sub, nSavepoint, play, history>>
  /\ dirty \ {p} \subseteq dirty' /\ dirty' \subseteq dirty
  /\ writeable' \subseteq writeable /\ writeable' \cup needSync' \subseteq dirty'
  /\ ~MustSync(p) => needSync' = needSync
  /\ \/ eState' = "dbmod" /\ stmt' = stmt
     \/ eState' = "error" /\ stmt' = "abort"

\* What a sync does to the journal and to what points into it.
LEMMA Synced ==
  ASSUME Typed, NEW p, syncJournal(p)
  PROVE  /\ MustSync(p) => /\ journalHdr' = Len(jrnl) /\ Headed(jrnl')
                           /\ \A i \in DOMAIN sps : sps'[i] = Stretched(sps[i])
         /\ ~MustSync(p) => UNCHANGED <<jrnl, journalHdr, sps>>
         /\ sps' \in Seq(Slot) /\ Len(sps') = Len(sps) /\ DOMAIN sps' = DOMAIN sps
         /\ \A a, q : q \in Page => (InMain(jrnl', a, q) <=> InMain(jrnl, a, q))
         /\ \A q : q \in Page => (Journaled(q)' <=> Journaled(q))
         /\ jrnl' \in Seq(Record \cup {Header})
<1>1. CASE MustSync(p)
  <2>1. /\ journalHdr' = Len(jrnl) /\ jrnl' = Append(jrnl, Header)
        /\ sps' = [i \in DOMAIN sps |-> Stretched(sps[i])]
    BY <1>1, Zenon DEF syncJournal, writeJournalHdr, Stretched
  <2>2. sps' \in Seq(Slot) /\ Len(sps') = Len(sps) /\ DOMAIN sps' = DOMAIN sps
        /\ \A i \in DOMAIN sps : sps'[i] = Stretched(sps[i])
    BY <2>1, StretchedSlots, Zenon
  <2>6. Headed(jrnl')
    BY <2>1, HeaderAppended, Zenon
  <2>3. /\ \A a, q : q \in Page => (InMain(jrnl', a, q) <=> InMain(jrnl, a, q))
        /\ jrnl' \in Seq(Record \cup {Header})
    BY <2>6, Zenon DEF Headed
  <2>4. \A q : q \in Page => (Journaled(q)' <=> Journaled(q))
    <3>1. \A q : q \in Page => ((\E i \in DOMAIN jrnl' : jrnl'[i].page = q) <=> Journaled(q))
      BY <2>6, Zenon DEF Headed
    <3>2. QED
      BY <3>1, Zenon DEF Journaled
  <2>5. QED
    BY <1>1, <2>1, <2>2, <2>3, <2>4, <2>6
<1>2. CASE ~MustSync(p)
  <2>1. jrnl' = jrnl /\ journalHdr' = journalHdr /\ sps' = sps
    BY <1>2, Zenon DEF syncJournal
  <2>2. sps \in Seq(Slot) /\ jrnl \in Seq(Record \cup {Header})
    BY Shape, Zenon
  <2>3. QED
    BY <1>2, <2>1, <2>2, Zenon DEF Journaled
<1>3. QED
  BY <1>1, <1>2, Zenon

\* Where a spill starts from, and what it leaves.
LEMMA SpillFacts ==
  ASSUME IInv, NEW p, Spills(p)
  PROVE  /\ p \in dirty /\ p \in DOMAIN cache /\ p \in Page /\ play = NoPlay /\ stmt # "abort"
         /\ eState \in {"cachemod", "dbmod"} /\ (~MustSync(p) => eState = "dbmod" /\ p \notin needSync)
         /\ UNCHANGED <<cache, dbSize, dbOrigSize, sub, nSavepoint, play, writes, base, want, saved>>
         /\ \A q \in Page : q # p => db'[q] = db[q]
         /\ p <= dbSize => db'[p] = cache[p]
         /\ ~(p <= dbSize) => db'[p] = db[p]
         /\ db' \in [Page -> Content]
         /\ \A q : Look(q)' = Look(q) \/ q \notin Page
<1>1. Typed /\ Control /\ WriteableKnown
  BY Zenon DEF IInv, Journals
<1>2. /\ Idle \/ Writing
      /\ p \in dirty /\ pager_write_pagelist(p)
      /\ UNCHANGED <<cache, dbSize, dbOrigSize, sub, nSavepoint, play, history>>
  BY Zenon DEF Spills
<1>3. UNCHANGED <<cache, dbSize, dbOrigSize, sub, nSavepoint, play, writes, base, want, saved>>
  BY <1>2, Zenon DEF history
<1>4. p \in DOMAIN cache /\ p \in Page
  BY <1>1, <1>2 DEF Typed
<1>5. play = NoPlay /\ stmt \in {"none", "plain", "journal"}
  BY <1>2 DEF Idle, Writing
<1>6. eState \in {"cachemod", "dbmod"}
  BY <1>1, <1>2, <1>5 DEF Control, WriteableKnown
<1>7. ~MustSync(p) => eState = "dbmod" /\ p \notin needSync
  BY <1>6 DEF MustSync
<1>8. db \in [Page -> Content] /\ cache[p] \in Content
  BY <1>1, <1>4 DEF Typed
<1>9. db' = IF p <= dbSize THEN [db EXCEPT ![p] = cache[p]] ELSE db
  BY <1>2, Zenon DEF pager_write_pagelist
<1>10. /\ \A q \in Page : q # p => db'[q] = db[q]
       /\ p <= dbSize => db'[p] = cache[p]
       /\ ~(p <= dbSize) => db'[p] = db[p]
       /\ db' \in [Page -> Content]
  BY <1>4, <1>8, <1>9
<1>11. \A q : Look(q)' = Look(q) \/ q \notin Page
  BY <1>3, <1>4, <1>10 DEF Look
<1>12. stmt # "abort"
  BY <1>5
<1>13. QED
  BY <1>2, <1>3, <1>4, <1>5, <1>6, <1>7, <1>10, <1>11, <1>12
LEMMA SpillsPages ==
  ASSUME IInv, NEW p, Spills(p)
  PROVE  Journals' /\ Pages'
<1>1. Typed /\ JournalKept /\ UnsyncedMarked /\ SubKnown /\ WriteableKnown /\ FileKept /\ Untouched /\ Clean
  BY Zenon DEF IInv, Journals, Pages
<1>2. /\ jrnl \in Seq(Record \cup {Header}) /\ Len(jrnl) \in Nat /\ DOMAIN jrnl = 1..Len(jrnl)
      /\ dbSize \in Nat /\ dbOrigSize \in Nat /\ dbOrigSize <= dbSize /\ dbSize <= N /\ N \in Nat
      /\ journalHdr \in Nat /\ DOMAIN sub = 1..Len(sub) /\ \A j \in DOMAIN sub : sub[j] \in Record
      /\ MaxJrnl \in Nat
  BY <1>1, Shape DEF Typed
<1>3. /\ p \in dirty /\ p \in DOMAIN cache /\ p \in Page
      /\ eState \in {"cachemod", "dbmod"} /\ (~MustSync(p) => eState = "dbmod" /\ p \notin needSync)
      /\ UNCHANGED <<cache, dbSize, dbOrigSize, sub, base>>
      /\ \A q \in Page : q # p => db'[q] = db[q]
      /\ p <= dbSize => db'[p] = cache[p]
      /\ ~(p <= dbSize) => db'[p] = db[p]
      /\ \A q : Look(q)' = Look(q) \/ q \notin Page
  BY SpillFacts, Zenon
<1>4. /\ dirty \ {p} \subseteq dirty' /\ dirty' \subseteq dirty /\ writeable' \subseteq writeable
      /\ ~MustSync(p) => needSync' = needSync
      /\ eState' \in {"dbmod", "error"}
      /\ MustSync(p) => Len(jrnl) < MaxJrnl
  <2>1. eState' = "dbmod" \/ eState' = "error"
    BY Zenon DEF Spills
  <2>2. QED
    BY <2>1, Zenon DEF Spills
<1>5. syncJournal(p)
  BY Zenon DEF Spills
<1>6. \A q : q \in Page => (Journaled(q)' <=> Journaled(q))
  BY <1>1, <1>5, Synced, Zenon
<1>7. \A q \in 1..dbOrigSize : q \in Page
  BY <1>2 DEF Page
<1>8. JournalKept' /\ UnsyncedMarked'
  <2>1. CASE MustSync(p)
    <3>1. journalHdr' = Len(jrnl) /\ Headed(jrnl') /\ Len(jrnl) < MaxJrnl
      BY <1>1, <1>4, <1>5, <2>1, Synced, Zenon
    <3>2. /\ Len(jrnl') = Len(jrnl) + 1 /\ DOMAIN jrnl' = 1..(Len(jrnl) + 1)
          /\ \A i \in DOMAIN jrnl : jrnl'[i] = jrnl[i]
          /\ jrnl'[Len(jrnl) + 1] = Header
      BY <3>1, Zenon DEF Headed
    <3>3. \A i \in DOMAIN jrnl' : jrnl'[i] # Header => i \in DOMAIN jrnl /\ jrnl'[i] = jrnl[i]
      BY <1>2, <3>2
    <3>8. \A i \in DOMAIN jrnl' : i \in DOMAIN jrnl \/ jrnl'[i] = Header
      BY <1>2, <3>2
    <3>4. /\ \A i \in DOMAIN jrnl' : jrnl'[i] # Header =>
               jrnl'[i].page <= dbOrigSize /\ jrnl'[i].data = base[jrnl'[i].page]
      BY <1>1, <3>3, Zenon DEF JournalKept
    <3>5. \A i, j \in DOMAIN jrnl' : i # j /\ jrnl'[i] # Header => jrnl'[i].page # jrnl'[j].page
      <4>1. SUFFICES ASSUME NEW i \in DOMAIN jrnl', NEW j \in DOMAIN jrnl', i # j, jrnl'[i] # Header
                     PROVE  jrnl'[i].page # jrnl'[j].page
        BY Zenon
      <4>2. i \in DOMAIN jrnl /\ jrnl'[i] = jrnl[i]
        BY <3>3, <4>1, Zenon
      <4>3. CASE j \in DOMAIN jrnl
        BY <1>1, <3>2, <4>1, <4>2, <4>3, ZenonT(60) DEF JournalKept
      <4>4. CASE jrnl'[j] = Header
        <5>1. jrnl[i] \in Record \cup {Header} /\ jrnl[i] # Header
          BY <1>1, <4>1, <4>2, Shape, Zenon
        <5>2. jrnl[i].page # 0 /\ Header.page = 0
          BY <1>2, <5>1 DEF Record, Page, Header
        <5>3. QED
          BY <4>2, <4>4, <5>2, Zenon
      <4>5. QED
        BY <3>8, <4>3, <4>4, Zenon
    <3>6. /\ \A i \in DOMAIN jrnl' : ~(i > Len(jrnl) + 1)
          /\ Len(jrnl) + 1 <= Len(jrnl) + 1 /\ Len(jrnl) + 1 <= MaxJrnl
      BY <1>2, <3>1, <3>2
    <3>7. jrnl' # <<>>
      BY <1>2, <3>2
    <3>9. \A i \in DOMAIN jrnl' : i > Len(jrnl) => jrnl'[i] = Header
      BY <1>2, <3>2
    <3>10. JournalKept'
      BY <1>3, <3>1, <3>2, <3>4, <3>5, <3>6, <3>7, Zenon DEF JournalKept
    <3>11. UnsyncedMarked'
      BY <3>1, <3>9, Zenon DEF UnsyncedMarked
    <3>12. QED
      BY <3>10, <3>11
  <2>2. CASE ~MustSync(p)
    <3>1. jrnl' = jrnl /\ journalHdr' = journalHdr /\ needSync' = needSync /\ UNCHANGED <<base, dbOrigSize>>
      BY <1>1, <1>3, <1>4, <1>5, <2>2, Synced, Zenon
    <3>2. QED
      BY <1>1, <3>1, Zenon DEF JournalKept, UnsyncedMarked
  <2>3. QED
    BY <2>1, <2>2, Zenon
<1>9. SubKnown'
  <2>1. eState' # "cachemod"
    BY <1>4
  <2>2. \A j \in DOMAIN sub : sub[j].page \in Page
    BY <1>2 DEF Record
  <2>3. QED
    BY <1>1, <1>3, <1>6, <2>1, <2>2, Zenon DEF SubKnown
<1>10. WriteableKnown'
  <2>1. eState' \notin {"reader", "locked"}
    BY <1>4
  <2>2. writeable \subseteq Page
    BY <1>1 DEF Typed
  <2>3. QED
    BY <1>1, <1>3, <1>4, <1>6, <2>1, <2>2, Zenon DEF WriteableKnown
<1>11. FileKept'
  <2>1. SUFFICES ASSUME NEW q \in 1..dbOrigSize
                 PROVE  db'[q] = base[q] \/ \E i \in 1..journalHdr' : jrnl'[i].page = q
    BY <1>3, Zenon DEF FileKept
  <2>2. q \in Page /\ q <= dbSize /\ q <= dbOrigSize
    BY <1>2, <1>7
  <2>3. ASSUME NEW i \in DOMAIN jrnl, jrnl[i].page = q, i <= journalHdr \/ q = p
        PROVE  \E h \in 1..journalHdr' : jrnl'[h].page = q
    <3>1. CASE MustSync(p)
      <4>1. journalHdr' = Len(jrnl) /\ Headed(jrnl')
        BY <1>1, <1>5, <3>1, Synced, Zenon
      <4>2. jrnl'[i] = jrnl[i] /\ i \in 1..journalHdr'
        BY <1>2, <4>1, Zenon DEF Headed
      <4>3. QED
        BY <2>3, <4>2, Zenon
    <3>2. CASE ~MustSync(p)
      <4>1. jrnl' = jrnl /\ journalHdr' = journalHdr
        BY <1>1, <1>5, <3>2, Synced, Zenon
      <4>2. jrnl[i] # Header
        BY <1>2, <2>2, <2>3 DEF Header, Page
      <4>3. i <= journalHdr
        BY <1>1, <1>2, <1>3, <2>3, <3>2, <4>2 DEF UnsyncedMarked
      <4>4. i \in 1..journalHdr
        BY <1>2, <4>3
      <4>5. QED
        BY <2>3, <4>1, <4>4, Zenon
    <3>3. QED
      BY <3>1, <3>2, Zenon
  <2>4. CASE q # p
    <3>1. db'[q] = db[q]
      BY <1>3, <2>2, <2>4, Zenon
    <3>2. ASSUME NEW i \in 1..journalHdr, jrnl[i].page = q
          PROVE  \E h \in 1..journalHdr' : jrnl'[h].page = q
      <4>1. i \in DOMAIN jrnl /\ i <= journalHdr
        BY <1>1, <1>2, EmptySeq DEF JournalKept
      <4>2. QED
        BY <2>3, <3>2, <4>1, Zenon
    <3>3. QED
      BY <1>1, <3>1, <3>2, Zenon DEF FileKept
  <2>5. CASE q = p
    <3>1. CASE Journaled(q)
      BY <2>3, <2>5, <3>1, Zenon DEF Journaled
    <3>2. CASE ~Journaled(q)
      <4>1. Look(q) = base[q]
        BY <1>1, <3>2, Zenon DEF Untouched
      <4>2. Look(q) = cache[q]
        BY <1>3, <2>5, Zenon DEF Look
      <4>3. QED
        BY <1>3, <2>2, <2>5, <4>1, <4>2, Zenon
    <3>3. QED
      BY <3>1, <3>2
  <2>6. QED
    BY <2>4, <2>5
<1>12. Untouched'
  BY <1>1, <1>3, <1>6, <1>7, Zenon DEF Untouched
<1>13. Clean'
  <2>1. SUFFICES ASSUME NEW q \in DOMAIN cache \ dirty', q <= dbSize
                 PROVE  cache[q] = db'[q]
    BY <1>3, Zenon DEF Clean
  <2>2. q \in Page
    BY <1>1 DEF Typed
  <2>3. CASE q = p
    BY <1>3, <2>1, <2>3, Zenon
  <2>4. CASE q # p
    <3>1. q \in DOMAIN cache \ dirty
      BY <1>4, <2>4
    <3>2. QED
      BY <1>1, <1>3, <2>1, <2>2, <2>4, <3>1, Zenon DEF Clean
  <2>5. QED
    BY <2>3, <2>4
<1>14. QED
  BY <1>8, <1>9, <1>10, <1>11, <1>12, <1>13 DEF Journals, Pages
LEMMA SpillsSlots ==
  ASSUME IInv, NEW p, Spills(p)
  PROVE  Slots'
<1>1. Typed /\ SlotsFit /\ FirstStretch
  BY Zenon DEF IInv, Slots
<1>2. /\ Len(jrnl) \in Nat /\ DOMAIN jrnl = 1..Len(jrnl) /\ Len(sub) \in Nat
      /\ sps \in Seq(Slot) /\ Len(sps) \in Nat /\ DOMAIN sps = 1..Len(sps) /\ \A i \in DOMAIN sps : sps[i] \in Slot
  BY <1>1, Shape
<1>3. UNCHANGED <<dbSize, dbOrigSize, sub, play>> /\ play = NoPlay
  BY SpillFacts, Zenon
<1>4. syncJournal(p)
  BY Zenon DEF Spills
<1>5. DOMAIN sps' = DOMAIN sps /\ Len(sps') = Len(sps)
  BY <1>1, <1>4, Synced, Zenon
<1>6. PlayFits'
  BY <1>2, <1>3, <1>5 DEF PlayFits, NoPlay
<1>7. CASE ~MustSync(p)
  <2>1. jrnl' = jrnl /\ sps' = sps
    BY <1>1, <1>4, <1>7, Synced, Zenon
  <2>2. SlotsFit' /\ FirstStretch'
    BY <1>1, <1>3, <2>1 DEF SlotsFit, SlotFits, FirstStretch
  <2>3. QED
    BY <1>6, <2>2 DEF Slots
<1>8. CASE MustSync(p)
  <2>1. Headed(jrnl') /\ \A i \in DOMAIN sps : sps'[i] = Stretched(sps[i])
    BY <1>1, <1>4, <1>8, Synced, Zenon
  <2>2. /\ Len(jrnl') = Len(jrnl) + 1 /\ \A i \in 1..Len(jrnl) : jrnl'[i] = jrnl[i]
        /\ jrnl'[Len(jrnl) + 1] = Header
    BY <1>2, <2>1, Zenon DEF Headed
  <2>3. ASSUME NEW i \in DOMAIN sps
        PROVE  /\ sps'[i].nOrig = sps[i].nOrig /\ sps'[i].iOffset = sps[i].iOffset
               /\ sps'[i].iSubRec = sps[i].iSubRec
               /\ sps'[i].iHdrOffset = IF sps[i].iHdrOffset = 0 THEN Len(jrnl) ELSE sps[i].iHdrOffset
    BY <1>2, <2>1, StretchedSlot, ZenonT(60)
  <2>4. ASSUME NEW i \in DOMAIN sps
        PROVE  /\ dbOrigSize' <= sps'[i].nOrig /\ sps'[i].nOrig <= dbSize'
               /\ 1 <= sps'[i].iOffset /\ (sps'[i].iOffset = 1 \/ sps'[i].iOffset <= Len(jrnl'))
               /\ sps'[i].iHdrOffset = 0 \/ sps'[i].iHdrOffset < Len(jrnl')
               /\ sps'[i].iSubRec <= Len(sub')
    <3>1. SlotFits(sps[i]) /\ sps[i] \in Slot
      BY <1>1, <1>2, Zenon DEF SlotsFit
    <3>2. /\ dbOrigSize <= sps[i].nOrig /\ sps[i].nOrig <= dbSize
          /\ 1 <= sps[i].iOffset /\ (sps[i].iOffset = 1 \/ sps[i].iOffset <= Len(jrnl))
          /\ sps[i].iHdrOffset = 0 \/ sps[i].iHdrOffset < Len(jrnl)
          /\ sps[i].iSubRec <= Len(sub) /\ sps[i].iOffset \in Nat /\ sps[i].iHdrOffset \in Nat
      BY <3>1 DEF SlotFits, Slot
    <3>3. sps[i].iOffset = 1 \/ sps[i].iOffset <= Len(jrnl')
      BY <1>2, <2>2, <3>2
    <3>4. sps'[i].iHdrOffset < Len(jrnl')
      <4>1. CASE sps[i].iHdrOffset = 0
        BY <1>2, <2>2, <2>3, <4>1
      <4>2. CASE sps[i].iHdrOffset # 0
        <5>1. sps'[i].iHdrOffset = sps[i].iHdrOffset
          BY <2>3, <4>2, Zenon
        <5>2. sps[i].iHdrOffset < Len(jrnl')
          BY <1>2, <2>2, <3>2, <4>2
        <5>3. QED
          BY <5>1, <5>2, Zenon
      <4>3. QED
        BY <4>1, <4>2
    <3>5. QED
      BY <1>3, <2>3, <3>2, <3>3, <3>4, Zenon
  <2>5. ASSUME NEW i \in DOMAIN sps, NEW j \in DOMAIN sps, i < j
        PROVE  Before(sps'[i], sps'[j])
    BY <1>1, <2>3, <2>5, Zenon DEF SlotsFit, Before
  <2>6. SlotsFit'
    BY <1>5, <2>4, <2>5, Zenon DEF SlotsFit, SlotFits, Before
  <2>7. FirstStretch'
    <3>1. SUFFICES ASSUME NEW i \in DOMAIN sps
                   PROVE  LET s == sps'[i]
                              end == IF s.iHdrOffset = 0 THEN Len(jrnl') ELSE s.iHdrOffset
                          IN /\ \A j \in s.iOffset..(end - 1) : jrnl'[j + 1] # Header
                             /\ s.iHdrOffset # 0 => jrnl'[end + 1] = Header
      BY <1>5, Zenon DEF FirstStretch
    <3>2. SlotFits(sps[i]) /\ sps[i] \in Slot
      BY <1>1, <1>2, Zenon DEF SlotsFit
    <3>3. sps[i].iOffset \in Nat /\ 1 <= sps[i].iOffset /\ sps[i].iHdrOffset \in Nat
          /\ (sps[i].iHdrOffset = 0 \/ sps[i].iHdrOffset < Len(jrnl))
      BY <3>2 DEF SlotFits, Slot
    <3> DEFINE end == IF sps[i].iHdrOffset = 0 THEN Len(jrnl) ELSE sps[i].iHdrOffset
    <3>4. /\ \A j \in sps[i].iOffset..(end - 1) : jrnl[j + 1] # Header
          /\ sps[i].iHdrOffset # 0 => jrnl[end + 1] = Header
      BY <1>1 DEF FirstStretch
    <3>5. sps'[i].iHdrOffset = end /\ sps'[i].iOffset = sps[i].iOffset /\ end \in Nat /\ end <= Len(jrnl)
      BY <1>2, <2>3, <3>3
    <3>6. /\ \A j \in sps[i].iOffset..(end - 1) : j + 1 \in 1..Len(jrnl)
          /\ sps[i].iHdrOffset # 0 => end + 1 \in 1..Len(jrnl)
      BY <1>2, <3>3, <3>5
    <3>7. end # 0
      <4>1. CASE sps[i].iHdrOffset = 0
        <5>1. MustSync(p) => jrnl # <<>>
          BY SpillFacts DEF IInv, Control
        <5>2. QED
          BY <1>2, <1>8, <4>1, <5>1, <1>1, EmptySeq DEF Typed
      <4>2. QED
        BY <4>1
    <3>8. \A j \in sps[i].iOffset..(end - 1) : jrnl'[j + 1] # Header
      BY <2>2, <3>4, <3>6, Zenon
    <3>9. jrnl'[end + 1] = Header
      <4>1. CASE sps[i].iHdrOffset = 0
        BY <2>2, <4>1
      <4>2. CASE sps[i].iHdrOffset # 0
        BY <2>2, <3>4, <3>6, <4>2, Zenon
      <4>3. QED
        BY <4>1, <4>2
    <3> HIDE DEF end
    <3>10. QED
      BY <3>5, <3>7, <3>8, <3>9, Zenon
  <2>8. QED
    BY <1>6, <2>6, <2>7 DEF Slots
<1>9. QED
  BY <1>7, <1>8
LEMMA SpillsKeeps ==
  ASSUME IInv, NEW p, Spills(p)
  PROVE  IInv'
<1>1. Typed /\ Control /\ SlotsFit /\ SavedKept /\ ContentAsWritten
  BY Zenon DEF IInv, Slots, Values
<1>2. /\ Len(jrnl) \in Nat /\ DOMAIN jrnl = 1..Len(jrnl) /\ Len(sub) \in Nat
      /\ sps \in Seq(Slot) /\ Len(sps) \in Nat /\ DOMAIN sps = 1..Len(sps) /\ \A i \in DOMAIN sps : sps[i] \in Slot
      /\ dbSize \in Nat /\ dbSize <= N /\ N \in Nat /\ (jrnl = <<>> <=> Len(jrnl) = 0)
  BY <1>1, Shape
<1>3. /\ p \in dirty /\ play = NoPlay /\ stmt # "abort" /\ eState \in {"cachemod", "dbmod"}
      /\ UNCHANGED <<cache, dbSize, dbOrigSize, sub, nSavepoint, play, writes, base, want, saved>>
      /\ db' \in [Page -> Content]
      /\ \A q : Look(q)' = Look(q) \/ q \notin Page
      /\ (~MustSync(p) => eState = "dbmod")
  BY SpillFacts, Zenon
<1>4. /\ dirty \ {p} \subseteq dirty' /\ dirty' \subseteq dirty /\ writeable' \cup needSync' \subseteq dirty'
      /\ syncJournal(p)
      /\ \/ eState' = "dbmod" /\ stmt' = stmt
         \/ eState' = "error" /\ stmt' = "abort"
  BY Zenon DEF Spills
<1>5. /\ sps' \in Seq(Slot) /\ Len(sps') = Len(sps) /\ DOMAIN sps' = DOMAIN sps
      /\ jrnl' \in Seq(Record \cup {Header})
      /\ \A a, q : q \in Page => (InMain(jrnl', a, q) <=> InMain(jrnl, a, q))
  BY <1>1, <1>4, Synced, Zenon
<1>6. journalHdr' \in Nat /\ jrnl' # <<>>
  <2>1. CASE MustSync(p)
    <3>1. journalHdr' = Len(jrnl) /\ Len(jrnl') = Len(jrnl) + 1
      BY <1>1, <1>4, <2>1, Synced, Zenon DEF Headed
    <3>2. QED
      BY <1>2, <3>1, EmptySeq
  <2>2. CASE ~MustSync(p)
    <3>1. jrnl' = jrnl /\ journalHdr' = journalHdr
      BY <1>1, <1>4, <2>2, Synced, Zenon
    <3>2. jrnl # <<>> /\ journalHdr \in Nat
      BY <1>1, <1>3 DEF Control, Typed
    <3>3. QED
      BY <3>1, <3>2, Zenon
  <2>3. QED
    BY <2>1, <2>2
<1>7. Typed'
  <2>1. needSync' \cup writeable' \subseteq dirty' /\ dirty' \subseteq DOMAIN cache
    BY <1>1, <1>4 DEF Typed
  <2>2. QED
    BY <1>1, <1>3, <1>5, <1>6, <2>1, Zenon DEF Typed
<1>8. Control'
  <2>1. play' = NoPlay /\ UNCHANGED <<nSavepoint, saved>> /\ Len(sps') = Len(sps)
        /\ Len(saved') = Len(saved)
    BY <1>3, <1>5, Zenon
  <2>2. CASE eState' = "dbmod" /\ stmt' = stmt
    BY <1>1, <1>3, <1>6, <2>1, <2>2 DEF Control
  <2>3. CASE eState' = "error" /\ stmt' = "abort"
    BY <1>1, <1>6, <2>1, <2>3 DEF Control
  <2>4. QED
    BY <1>4, <2>2, <2>3
<1>9. \A q \in 1..dbSize : q \in Page
  BY <1>2 DEF Page
<1>10. SavedKept'
  <2>1. SUFFICES ASSUME stmt' # "abort"
                 PROVE  /\ \A i \in DOMAIN sps : SlotKept(sps[i], saved[i])'
                        /\ \A i \in DOMAIN saved : i > Len(sps) => saved[i] = want
    BY <1>3, <1>5, Zenon DEF SavedKept
  <2>2. \A i \in DOMAIN saved : i > Len(sps) => saved[i] = want
    BY <1>1, <1>3, Zenon DEF SavedKept
  <2>3. ASSUME NEW i \in DOMAIN sps
        PROVE  SlotKept(sps[i], saved[i])'
    <3>1. SlotKept(sps[i], saved[i]) /\ SlotFits(sps[i]) /\ sps[i] \in Slot
      BY <1>1, <1>2, <1>3, <2>3, Zenon DEF SavedKept, SlotsFit
    <3>2. /\ sps'[i].nOrig = sps[i].nOrig /\ sps'[i].iOffset = sps[i].iOffset
          /\ sps'[i].iSubRec = sps[i].iSubRec /\ sps'[i].inSavepoint = sps[i].inSavepoint
      <4>1. CASE MustSync(p)
        <5>1. sps'[i] = Stretched(sps[i])
          BY <1>1, <1>4, <2>3, <4>1, Synced, Zenon
        <5>2. QED
          BY <1>2, <3>1, <5>1, StretchedSlot, Zenon
      <4>2. CASE ~MustSync(p)
        BY <1>1, <1>4, <4>2, Synced, Zenon
      <4>3. QED
        BY <4>1, <4>2
    <3>3. \A q \in 1..sps[i].nOrig : q \in 1..dbSize
      <4>1. sps[i].nOrig \in Nat /\ sps[i].nOrig <= dbSize
        BY <3>1 DEF SlotFits, Slot
      <4>2. QED
        BY <1>2, <4>1
    <3>4. Len(saved[i]) = sps[i].nOrig
      BY <3>1, Zenon DEF SlotKept
    <3>5. ASSUME NEW q \in 1..sps[i].nOrig
          PROVE  /\ Restores(jrnl', sub, sps[i].iOffset, sps[i].iSubRec, q, base[q], Look(q)', saved[i][q])
                 /\ q \in sps[i].inSavepoint <=> InMain(jrnl', sps[i].iOffset, q) \/ InSub(sub, sps[i].iSubRec, q)
      <4>1. q \in Page
        BY <1>9, <3>3, <3>5, Zenon
      <4>2. InMain(jrnl', sps[i].iOffset, q) <=> InMain(jrnl, sps[i].iOffset, q)
        BY <1>5, <4>1, Zenon
      <4>3. Look(q)' = Look(q)
        BY <1>3, <4>1, Zenon
      <4>4. /\ Restores(jrnl, sub, sps[i].iOffset, sps[i].iSubRec, q, base[q], Look(q), saved[i][q])
            /\ q \in sps[i].inSavepoint <=> InMain(jrnl, sps[i].iOffset, q) \/ InSub(sub, sps[i].iSubRec, q)
        BY <3>1, <3>5, Zenon DEF SlotKept
      <4>5. Restores(jrnl', sub, sps[i].iOffset, sps[i].iSubRec, q, base[q], Look(q), saved[i][q])
        BY <4>2, <4>4, Zenon DEF Restores
      <4>6. QED
        BY <4>2, <4>3, <4>4, <4>5
    <3>6. QED
      BY <1>3, <3>2, <3>4, <3>5, Zenon DEF SlotKept
  <2>4. QED
    BY <2>2, <2>3, Zenon
<1>11. PlayOn' /\ ContentAsWritten'
  <2>1. play' = NoPlay /\ UNCHANGED <<dbSize, want>>
    BY <1>3, Zenon
  <2>2. PlayOn'
    BY <2>1, Zenon DEF PlayOn
  <2>3. dbSize = Len(want) /\ \A q \in 1..dbSize : Look(q) = want[q]
    BY <1>1, <1>3, Zenon DEF ContentAsWritten
  <2>4. \A q \in 1..dbSize : Look(q)' = want[q]
    BY <1>3, <1>9, <2>3, Zenon
  <2>5. ContentAsWritten'
    BY <2>1, <2>3, <2>4, Zenon DEF ContentAsWritten
  <2>6. QED
    BY <2>2, <2>5
<1>12. QED
  BY <1>7, <1>8, <1>10, <1>11, SpillsPages, SpillsSlots, Zenon DEF IInv, Values

LEMMA SpillKeeps ==
  ASSUME IInv, NEW p \in Page, Spill(p)
  PROVE  IInv'
<1>1. /\ Idle \/ Writing
      /\ p \in dirty \ {1} /\ (MustSync(p) => Len(jrnl) < MaxJrnl)
      /\ syncJournal(p) /\ pager_write_pagelist(p)
      /\ eState' = "dbmod"
      /\ dirty' = dirty \ {p} /\ writeable' = writeable \ {p}
      /\ needSync' = IF MustSync(p) THEN {} ELSE needSync
      /\ UNCHANGED <<cache, dbSize, dbOrigSize, sub, nSavepoint, stmt, play, history>>
  BY Zenon DEF Spill
<1>2. needSync \cup writeable \subseteq dirty
  BY Zenon DEF IInv, Typed
<1>3. /\ dirty \ {p} \subseteq dirty' /\ dirty' \subseteq dirty /\ writeable' \subseteq writeable
      /\ writeable' \cup needSync' \subseteq dirty'
  BY <1>1, <1>2 DEF MustSync
<1>4. Spills(p)
  BY <1>1, <1>3, Zenon DEF Spills
<1>5. QED
  BY <1>4, SpillsKeeps

LEMMA SpillFailsKeeps ==
  ASSUME IInv, NEW p \in Page, SpillFails(p)
  PROVE  IInv'
<1>1. /\ Writing
      /\ p \in dirty \ {1} /\ (MustSync(p) => Len(jrnl) < MaxJrnl)
      /\ \/ UNCHANGED <<db, jrnl, journalHdr, sps>>
         \/ syncJournal(p) /\ pager_write_pagelist(p)
      /\ eState' = "error" /\ stmt' = "abort"
      /\ UNCHANGED <<cache, flagVars, dbSize, dbOrigSize, sub, nSavepoint, play, history>>
  BY Zenon DEF SpillFails
<1>2. CASE UNCHANGED <<db, jrnl, journalHdr, sps>>
  <2>1. UNCHANGED <<db, cache, dirty, needSync, writeable, dbSize, dbOrigSize, jrnl, journalHdr, sub,
                    sps, nSavepoint, play, writes, base, want, saved>>
    BY <1>1, <1>2, Zenon DEF flagVars, history
  <2>2. play = NoPlay /\ p \in dirty
    BY <1>1 DEF Writing
  <2>3. Typed'
    BY <2>1 DEF IInv, Typed
  <2>4. Control'
    <3>1. Control /\ WriteableKnown
      BY Zenon DEF IInv, Journals
    <3>2. jrnl # <<>> /\ Len(sps) <= Len(saved)
      BY <2>2, <3>1, <1>1 DEF Control, WriteableKnown, Writing
    <3>3. QED
      BY <1>1, <2>1, <3>2 DEF Control
  <2>5. Journals'
    BY <1>1, <2>1 DEF IInv, Journals, JournalKept, UnsyncedMarked, SubKnown, WriteableKnown, Journaled
  <2>6. Pages'
    BY <2>1 DEF IInv, Pages, FileKept, Untouched, Clean, Look, Journaled
  <2>7. Slots'
    BY <2>1 DEF IInv, Slots, SlotsFit, SlotFits, PlayFits, FirstStretch
  <2>8. Values'
    BY <1>1, Zenon DEF Values, SavedKept, PlayOn, ContentAsWritten
  <2>9. QED
    BY <2>3, <2>4, <2>5, <2>6, <2>7, <2>8, Zenon DEF IInv
<1>3. CASE syncJournal(p) /\ pager_write_pagelist(p)
  <2>1. needSync \cup writeable \subseteq dirty
    BY Zenon DEF IInv, Typed
  <2>2. UNCHANGED <<dirty, needSync, writeable>>
    BY <1>1, Zenon DEF flagVars
  <2>3. /\ dirty \ {p} \subseteq dirty' /\ dirty' \subseteq dirty /\ writeable' \subseteq writeable
        /\ writeable' \cup needSync' \subseteq dirty' /\ p \in dirty
    BY <1>1, <2>1, <2>2
  <2>4. Spills(p)
    BY <1>1, <1>3, <2>2, <2>3, Zenon DEF Spills
  <2>5. QED
    BY <2>4, SpillsKeeps
<1>4. QED
  BY <1>1, <1>2, <1>3
-----------------------------------------------------------------------------
(* Playback, record by record.                                             *)

PlayFrame ==
  /\ play # NoPlay /\ stmt # "abort"
  /\ UNCHANGED <<eState, needSync, writeable, dbSize, dbOrigSize, jrnlVars, sps, nSavepoint, stmt,
                 history>>

LEMMA PlayFrameFacts ==
  ASSUME PlayFrame
  PROVE  /\ play # NoPlay /\ stmt # "abort"
         /\ UNCHANGED <<eState, needSync, writeable, dbSize, dbOrigSize, jrnl, journalHdr, sub, sps,
                        nSavepoint, stmt, writes, base, want, saved>>
BY Zenon DEF PlayFrame, jrnlVars, history

\* A record makes page p read as x, in the file and in the cache or in one of them.
Plays(p, x, toFile, fetched) ==
  /\ p \in Page /\ x \in Content /\ eState \notin {"reader", "locked"}
  /\ db' = IF toFile THEN [db EXCEPT ![p] = x] ELSE db
  /\ cache' = IF p \in DOMAIN cache \/ fetched THEN Put(cache, p, x) ELSE cache
  /\ dirty' = IF fetched THEN dirty \cup {p} ELSE dirty
  /\ p \in DOMAIN cache \/ fetched \/ toFile
  /\ ~toFile => fetched \/ p \in dirty
  /\ p <= dbOrigSize => /\ Journaled(p)
                        /\ toFile => x = base[p] \/ \E i \in 1..journalHdr : jrnl[i].page = p

LEMMA PlaysPage ==
  ASSUME IInv, PlayFrame, NEW p, NEW x, NEW toFile \in BOOLEAN, NEW fetched \in BOOLEAN,
         Plays(p, x, toFile, fetched)
  PROVE  /\ Journals' /\ Pages'
         /\ db' \in [Page -> Content]
         /\ DOMAIN cache' \subseteq Page /\ cache' \in [DOMAIN cache' -> Content]
         /\ dirty \subseteq dirty' /\ dirty' \subseteq DOMAIN cache'
         /\ \A q \in Page : q # p => Look(q)' = Look(q)
         /\ Look(p)' = x
<1>1. Typed /\ JournalKept /\ UnsyncedMarked /\ SubKnown /\ WriteableKnown /\ FileKept /\ Untouched /\ Clean
  BY Zenon DEF IInv, Journals, Pages
<1>2. /\ dbOrigSize \in Nat /\ dbSize \in Nat /\ dbOrigSize <= dbSize /\ dbSize <= N /\ N \in Nat
  BY <1>1, Shape
<1>3. UNCHANGED <<eState, needSync, writeable, dbSize, dbOrigSize, jrnl, journalHdr, sub, sps,
                        nSavepoint, stmt, writes, base, want, saved>>
  BY PlayFrameFacts, Zenon
<1>4. /\ p \in Page /\ x \in Content /\ eState \notin {"reader", "locked"}
      /\ db' = (IF toFile THEN [db EXCEPT ![p] = x] ELSE db)
      /\ cache' = (IF p \in DOMAIN cache \/ fetched THEN Put(cache, p, x) ELSE cache)
      /\ dirty' = (IF fetched THEN dirty \cup {p} ELSE dirty)
  BY Zenon DEF Plays
<1>5. /\ p \in DOMAIN cache \/ fetched \/ toFile
      /\ ~toFile => fetched \/ p \in dirty
      /\ p <= dbOrigSize => /\ Journaled(p)
                            /\ toFile => x = base[p] \/ \E i \in 1..journalHdr : jrnl[i].page = p
  BY Zenon DEF Plays
<1>6. /\ db \in [Page -> Content] /\ DOMAIN cache \subseteq Page /\ cache \in [DOMAIN cache -> Content]
      /\ dirty \subseteq DOMAIN cache /\ needSync \cup writeable \subseteq dirty
  BY <1>1, Zenon DEF Typed
<1>7. /\ db' \in [Page -> Content]
      /\ \A q \in Page : q # p => db'[q] = db[q]
      /\ toFile => db'[p] = x
      /\ ~toFile => db'[p] = db[p]
  BY <1>4, <1>6
<1>8. /\ DOMAIN cache' = IF fetched THEN DOMAIN cache \cup {p} ELSE DOMAIN cache
      /\ cache' \in [DOMAIN cache' -> Content]
      /\ \A q \in DOMAIN cache : q # p => cache'[q] = cache[q]
      /\ p \in DOMAIN cache' => cache'[p] = x
  <2>1. CASE p \in DOMAIN cache \/ fetched
    <3>1. cache' = [q \in DOMAIN cache \cup {p} |-> IF q = p THEN x ELSE cache[q]]
      BY <1>4, <2>1, Zenon DEF Put
    <3>2. /\ DOMAIN cache' = DOMAIN cache \cup {p} /\ cache' \in [DOMAIN cache \cup {p} -> Content]
          /\ \A q \in DOMAIN cache : q # p => cache'[q] = cache[q]
          /\ cache'[p] = x
      BY <1>4, <1>6, <3>1
    <3>3. QED
      BY <2>1, <3>2
  <2>2. CASE ~(p \in DOMAIN cache \/ fetched)
    BY <1>4, <1>6, <2>2, Zenon
  <2>3. QED
    BY <2>1, <2>2
<1>9. /\ DOMAIN cache' \subseteq Page /\ dirty \subseteq dirty' /\ dirty' \subseteq DOMAIN cache'
  BY <1>4, <1>6, <1>8
<1>10. \A q \in Page : q # p => Look(q)' = Look(q)
  BY <1>7, <1>8 DEF Look
<1>11. Look(p)' = x
  BY <1>5, <1>7, <1>8 DEF Look
<1>12. Journals'
  <2>1. \A q : Journaled(q)' <=> Journaled(q)
    BY <1>3, Zenon DEF Journaled
  <2>2. JournalKept' /\ UnsyncedMarked'
    BY <1>1, <1>3, Zenon DEF JournalKept, UnsyncedMarked
  <2>3. SubKnown'
    BY <1>1, <1>3, <1>9, <2>1 DEF SubKnown
  <2>4. WriteableKnown'
    BY <1>1, <1>3, <1>4, <2>1, Zenon DEF WriteableKnown
  <2>5. QED
    BY <2>2, <2>3, <2>4, Zenon DEF Journals
<1>13. \A q \in 1..dbOrigSize : q \in Page /\ q <= dbOrigSize
  BY <1>2 DEF Page
<1>14. FileKept'
  <2>1. SUFFICES ASSUME NEW q \in 1..dbOrigSize
                 PROVE  db'[q] = base[q] \/ \E i \in 1..journalHdr : jrnl[i].page = q
    BY <1>3, Zenon DEF FileKept
  <2>2. q \in Page /\ q <= dbOrigSize
    BY <1>13
  <2>3. db[q] = base[q] \/ \E i \in 1..journalHdr : jrnl[i].page = q
    BY <1>1, Zenon DEF FileKept
  <2>4. CASE q # p \/ ~toFile
    BY <1>7, <2>2, <2>3, <2>4, Zenon
  <2>5. CASE q = p /\ toFile
    BY <1>5, <1>7, <2>2, <2>5, Zenon
  <2>6. QED
    BY <2>4, <2>5
<1>15. Untouched'
  <2>1. SUFFICES ASSUME NEW q \in 1..dbOrigSize, ~Journaled(q)
                 PROVE  Look(q)' = base[q]
    BY <1>3, Zenon DEF Untouched, Journaled
  <2>2. q # p /\ q \in Page
    BY <1>5, <1>13, <2>1, Zenon
  <2>3. QED
    BY <1>1, <1>10, <2>1, <2>2, Zenon DEF Untouched
<1>16. Clean'
  <2>1. SUFFICES ASSUME NEW q \in DOMAIN cache' \ dirty', q <= dbSize
                 PROVE  cache'[q] = db'[q]
    BY <1>3, Zenon DEF Clean
  <2>2. CASE q = p
    <3>1. p \notin dirty /\ ~fetched
      BY <1>4, <2>1, <2>2
    <3>2. QED
      BY <1>5, <1>7, <1>8, <2>2, <2>1, <3>1
  <2>3. CASE q # p
    <3>1. q \in DOMAIN cache \ dirty /\ q \in Page
      BY <1>6, <1>8, <1>9, <2>1, <2>3
    <3>2. QED
      BY <1>1, <1>7, <1>8, <2>1, <2>3, <3>1, Zenon DEF Clean
  <2>4. QED
    BY <2>2, <2>3
<1>17. QED
  BY <1>7, <1>8, <1>9, <1>10, <1>11, <1>12, <1>14, <1>15, <1>16 DEF Pages

LEMMA PlayStep ==
  ASSUME IInv, PlayFrame, NEW p,
         Journals', Pages', db' \in [Page -> Content],
         DOMAIN cache' \subseteq Page, cache' \in [DOMAIN cache' -> Content],
         dirty \subseteq dirty', dirty' \subseteq DOMAIN cache',
         \A q \in Page : q # p => Look(q)' = Look(q),
         Look(p)' = Look(p)
           \/ \A i \in DOMAIN sps : InMain(jrnl, sps[i].iOffset, p) \/ InSub(sub, sps[i].iSubRec, p),
         play' \in [k : Int, at : Nat, sub : Nat, done : SUBSET Page], play'.k = play.k,
         PlayFits', PlayOn'
  PROVE  IInv'
<1>1. Typed /\ Control /\ SlotsFit /\ FirstStretch /\ SavedKept /\ PlayOn
  BY Zenon DEF IInv, Slots, Values
<1>2. /\ UNCHANGED <<eState, needSync, writeable, dbSize, dbOrigSize, jrnl, journalHdr, sub, sps,
                     nSavepoint, stmt, writes, base, want, saved>>
      /\ play # NoPlay /\ stmt # "abort"
  BY PlayFrameFacts, Zenon
<1>3. Typed'
  <2>1. needSync \cup writeable \subseteq dirty'
    BY <1>1 DEF Typed
  <2>2. QED
    BY <1>1, <1>2, <2>1, Zenon DEF Typed
<1>4. Control'
  BY <1>1, <1>2, Zenon DEF Control
<1>5. SlotsFit' /\ FirstStretch'
  BY <1>1, <1>2, Zenon DEF SlotsFit, SlotFits, FirstStretch
<1>6. SavedKept'
  <2>1. SUFFICES ASSUME NEW i \in DOMAIN sps
                 PROVE  SlotKept(sps[i], saved[i])'
    BY <1>1, <1>2, Zenon DEF SavedKept
  <2>2. SlotKept(sps[i], saved[i]) /\ SlotFits(sps[i]) /\ sps[i] \in Slot
    BY <1>1, <1>2, Shape, Zenon DEF SavedKept, SlotsFit
  <2>3. ASSUME NEW q \in 1..sps[i].nOrig
        PROVE  Restores(jrnl, sub, sps[i].iOffset, sps[i].iSubRec, q, base[q], Look(q)', saved[i][q])
    <3>1. q \in Page
      <4>1. sps[i].nOrig \in Nat /\ sps[i].nOrig <= dbSize /\ dbSize \in Nat /\ dbSize <= N /\ N \in Nat
        BY <1>1, <2>2, Shape DEF SlotFits, Slot
      <4>2. QED
        BY <4>1 DEF Page
    <3>2. Restores(jrnl, sub, sps[i].iOffset, sps[i].iSubRec, q, base[q], Look(q), saved[i][q])
      BY <2>2, Zenon DEF SlotKept
    <3>3. CASE Look(q)' = Look(q)
      BY <3>2, <3>3, Zenon
    <3>4. CASE InMain(jrnl, sps[i].iOffset, q) \/ InSub(sub, sps[i].iSubRec, q)
      BY <3>2, <3>4, Zenon DEF Restores
    <3>5. QED
      BY <3>1, <3>3, <3>4, Zenon
  <2>4. QED
    BY <1>2, <2>2, <2>3, Zenon DEF SlotKept
<1>7. ContentAsWritten'
  <2>1. play.k = Len(sps) /\ Len(sps) \in Nat
    BY <1>1, <1>2, Shape DEF PlayOn
  <2>2. play'.k # -1
    BY <2>1
  <2>3. play' # NoPlay
    BY <2>2 DEF NoPlay
  <2>4. QED
    BY <2>3, Zenon DEF ContentAsWritten
<1>8. QED
  BY <1>3, <1>4, <1>5, <1>6, <1>7, Zenon DEF IInv, Slots, Values
\* A record of another page makes no difference to what is left for a page.
LEMMA ShiftMain ==
  ASSUME Typed, NEW a \in Nat, a < Len(jrnl), NEW q, jrnl[a + 1].page # q,
         NEW o, NEW b, NEW c, NEW x
  PROVE  Restores(jrnl, sub, a, o, q, b, c, x) => Restores(jrnl, sub, a + 1, o, q, b, c, x)
<1>1. DOMAIN jrnl = 1..Len(jrnl) /\ Len(jrnl) \in Nat
  BY Shape
<1>2. InMain(jrnl, a, q) <=> InMain(jrnl, a + 1, q)
  BY <1>1 DEF InMain
<1>3. QED
  BY <1>2, Zenon DEF Restores

LEMMA ShiftSub ==
  ASSUME Typed, NEW o \in Nat, o < Len(sub), NEW q, sub[o + 1].page # q,
         NEW a, NEW b, NEW c, NEW x
  PROVE  Restores(jrnl, sub, a, o, q, b, c, x) => Restores(jrnl, sub, a, o + 1, q, b, c, x)
<1>1. DOMAIN sub = 1..Len(sub) /\ Len(sub) \in Nat
  BY Shape
<1>2. InSub(sub, o, q) <=> InSub(sub, o + 1, q)
  BY <1>1 DEF InSub
<1>3. \A i \in DOMAIN sub : FirstInSub(sub, o + 1, q, i) => FirstInSub(sub, o, q, i)
  BY <1>1 DEF FirstInSub
<1>4. QED
  BY <1>2, <1>3, Zenon DEF Restores

\* What holds while a playback is in progress.
LEMMA PlayingFacts ==
  ASSUME IInv, play # NoPlay, stmt # "abort"
  PROVE  /\ play.k = Len(sps) /\ play.k \in Nat /\ play.at \in Nat /\ play.sub \in Nat /\ play.done \subseteq Page
         /\ eState \notin {"reader", "error"}
         /\ play.k = 0 => want = base /\ play.sub = Len(sub)
         /\ play.k > 0 => /\ want = saved[play.k]
                          /\ sps[play.k].iOffset <= play.at /\ sps[play.k].iSubRec <= play.sub
         /\ \A p \in 1..dbSize :
              IF p \in play.done THEN Look(p) = want[p]
              ELSE Restores(jrnl, sub, play.at, play.sub, p, base[p], Look(p), want[p])
         /\ \A i \in DOMAIN sps : sps[i].iOffset <= play.at /\ sps[i].iSubRec <= play.sub
         /\ Len(sps) = 0 => sps = <<>>
<1>1. Typed /\ Control /\ SlotsFit /\ PlayOn
  BY Zenon DEF IInv, Slots, Values
<1>2. /\ play.k = Len(sps)
      /\ play.k = 0 => want = base /\ play.sub = Len(sub)
      /\ play.k > 0 => /\ want = saved[play.k]
                       /\ sps[play.k].iOffset <= play.at /\ sps[play.k].iSubRec <= play.sub
      /\ \A p \in 1..dbSize :
           IF p \in play.done THEN Look(p) = want[p]
           ELSE Restores(jrnl, sub, play.at, play.sub, p, base[p], Look(p), want[p])
  BY <1>1, Zenon DEF PlayOn
<1>3. /\ Len(sps) \in Nat /\ DOMAIN sps = 1..Len(sps) /\ \A i \in DOMAIN sps : sps[i] \in Slot
  BY <1>1, Shape
<1>4. play.at \in Nat /\ play.sub \in Nat /\ play.done \subseteq Page
  BY <1>1 DEF Typed
<1>5. eState \notin {"reader", "error"}
  BY <1>1 DEF Control
<1>6. ASSUME NEW i \in DOMAIN sps
      PROVE  sps[i].iOffset <= play.at /\ sps[i].iSubRec <= play.sub
  <2>1. play.k > 0 /\ play.k \in DOMAIN sps /\ (i < play.k \/ i = play.k)
    BY <1>2, <1>3
  <2>2. i < play.k => Before(sps[i], sps[play.k])
    BY <1>1, <2>1, Zenon DEF SlotsFit
  <2>3. sps[i] \in Slot /\ sps[play.k] \in Slot
    BY <1>3, <2>1, Zenon
  <2>4. sps[play.k].iOffset <= play.at /\ sps[play.k].iSubRec <= play.sub
    BY <1>2, <2>1, Zenon
  <2>5. CASE i < play.k
    BY <1>4, <2>2, <2>3, <2>4, <2>5 DEF Before, Slot
  <2>6. CASE i = play.k
    BY <2>4, <2>6, Zenon
  <2>7. QED
    BY <2>1, <2>5, <2>6
<1>7. Len(sps) = 0 => sps = <<>>
  BY <1>1, EmptySeq DEF Typed
<1>8. play.k \in Nat
  BY <1>2, <1>3
<1>9. QED
  BY <1>2, <1>4, <1>5, <1>6, <1>7, <1>8, Zenon
\* The next record of the main journal makes its page read as it did at the beginning.
LEMMA MainRecord ==
  ASSUME IInv, PlayFrame, play.at < Len(jrnl), jrnl[play.at + 1] # Header,
         jrnl[play.at + 1].page \notin play.done,
         pager_playback_one_page(jrnl[play.at + 1], TRUE)
  PROVE  LET p == jrnl[play.at + 1].page
         IN \E toFile \in BOOLEAN : Plays(p, base[p], toFile, FALSE)
<1> DEFINE r == jrnl[play.at + 1]
           p == r.page
           toFile == eState = "dbmod" /\ MainSynced
<1>1. Typed /\ Control /\ JournalKept /\ UnsyncedMarked
  BY Zenon DEF IInv, Journals
<1>2. /\ play # NoPlay /\ stmt # "abort"
      /\ UNCHANGED <<dbSize, dbOrigSize>>
  BY PlayFrameFacts, Zenon
<1>3. /\ Len(jrnl) \in Nat /\ DOMAIN jrnl = 1..Len(jrnl) /\ \A i \in DOMAIN jrnl : jrnl[i] \in Record \cup {Header}
      /\ dbOrigSize \in Nat /\ dbSize \in Nat /\ dbOrigSize <= dbSize /\ (jrnl = <<>> <=> Len(jrnl) = 0)
  BY <1>1, Shape
<1>4. play.at \in Nat /\ eState \notin {"reader", "error"}
  BY <1>2, PlayingFacts, Zenon
<1>5. play.at + 1 \in DOMAIN jrnl /\ r \in Record /\ jrnl # <<>>
  BY <1>3, <1>4
<1>6. p <= dbOrigSize /\ r.data = base[p]
  BY <1>1, <1>5, Zenon DEF JournalKept
<1>7. p \in Page /\ r.data \in Content
  BY <1>5 DEF Record, Content
<1>8. base[p] \in Content
  BY <1>6, <1>7, Zenon
<1>9. ~(p > dbSize) /\ p \notin play.done
  BY <1>3, <1>6, <1>7 DEF Page
<1>10. eState \in {"cachemod", "dbmod"}
  BY <1>1, <1>4, <1>5 DEF Control
<1>11. Journaled(p)
  BY <1>5, Zenon DEF Journaled
<1>12. toFile => \E i \in 1..journalHdr : jrnl[i].page = p
  <2>1. toFile => play.at + 1 \in 1..journalHdr
    BY <1>1, <1>4 DEF MainSynced, Typed
  <2>2. QED
    BY <2>1, Zenon
<1>13. ~toFile => p \in dirty /\ p \in DOMAIN cache
  <2>1. ~toFile => play.at + 1 > journalHdr
    BY <1>1, <1>4, <1>10 DEF MainSynced, Control, Typed
  <2>2. ~toFile => p \in needSync
    BY <1>1, <1>5, <2>1, Zenon DEF UnsyncedMarked
  <2>3. QED
    BY <1>1, <2>2 DEF Typed
<1>14. /\ db' = IF toFile THEN [db EXCEPT ![p] = base[p]] ELSE db
       /\ cache' = IF p \in DOMAIN cache \/ FALSE THEN Put(cache, p, base[p]) ELSE cache
       /\ dirty' = IF FALSE THEN dirty \cup {p} ELSE dirty
  <2>1. pager_playback_one_page(r, TRUE)
    OBVIOUS
  <2>2. /\ db' = IF toFile THEN [db EXCEPT ![p] = r.data] ELSE db
        /\ cache' = IF p \in DOMAIN cache THEN Put(cache, p, r.data) ELSE cache
        /\ dirty' = dirty
    <3> HIDE DEF r
    <3>1. QED
      BY <1>9, <2>1, Zenon DEF pager_playback_one_page
  <2>3. QED
    BY <1>6, <2>2, Zenon
<1>15. toFile \in BOOLEAN
  OBVIOUS
<1> HIDE DEF toFile, r
<1>16. Plays(p, base[p], toFile, FALSE)
  <2>1. eState \notin {"reader", "locked"}
    BY <1>10
  <2>2. p \in DOMAIN cache \/ FALSE \/ toFile
    BY <1>13
  <2>3. ~toFile => FALSE \/ p \in dirty
    BY <1>13
  <2>4. QED
    BY <1>7, <1>8, <1>11, <1>12, <1>14, <2>1, <2>2, <2>3, Zenon DEF Plays
<1>17. QED
  BY <1>15, <1>16 DEF r
PlayState == [k : Int, at : Nat, sub : Nat, done : SUBSET Page]

\* The playback's place t is one further than pl was.
Moved(pl, d, at, sb, t) ==
  t \in PlayState /\ t.k = pl.k /\ t.at = at /\ t.sub = sb /\ t.done = d

LEMMA MovedMain ==
  ASSUME NEW pl \in PlayState, NEW d \in SUBSET Page
  PROVE  Moved(pl, d, pl.at + 1, pl.sub, [pl EXCEPT !.at = @ + 1, !.done = d])
<1>1. pl.at + 1 \in Nat
  BY DEF PlayState
<1>2. ASSUME NEW e \in Nat
      PROVE  LET u == [pl EXCEPT !.at = e, !.done = d]
             IN u \in PlayState /\ u.k = pl.k /\ u.at = e /\ u.sub = pl.sub /\ u.done = d
  BY DEF PlayState
<1>3. QED
  BY <1>1, <1>2, Zenon DEF Moved

LEMMA MovedSub ==
  ASSUME NEW pl \in PlayState, NEW d \in SUBSET Page
  PROVE  Moved(pl, d, pl.at, pl.sub + 1, [pl EXCEPT !.sub = @ + 1, !.done = d])
<1>1. pl.sub + 1 \in Nat
  BY DEF PlayState
<1>2. ASSUME NEW e \in Nat
      PROVE  LET u == [pl EXCEPT !.sub = e, !.done = d]
             IN u \in PlayState /\ u.k = pl.k /\ u.at = pl.at /\ u.sub = e /\ u.done = d
  BY DEF PlayState
<1>3. QED
  BY <1>1, <1>2, Zenon DEF Moved

LEMMA PlayMainKeeps ==
  ASSUME IInv, PlayMain
  PROVE  IInv'
<1>0. PICK r : r = jrnl[play.at + 1]
  OBVIOUS
<1> DEFINE p == r.page
<1>1. Typed /\ Control /\ JournalKept /\ Journals /\ Pages /\ PlayFits
  BY Zenon DEF IInv, Journals, Slots
<1>2. PlayFrame /\ play.at < Len(jrnl)
  BY Zenon DEF PlayMain, Playing, PlayFrame
<1>3. /\ play # NoPlay /\ stmt # "abort"
      /\ UNCHANGED <<eState, needSync, writeable, dbSize, dbOrigSize, jrnl, journalHdr, sub, sps,
                     nSavepoint, stmt, writes, base, want, saved>>
  BY <1>2, PlayFrameFacts, Zenon
<1>4. /\ play.k = Len(sps) /\ play.k \in Nat /\ play.at \in Nat /\ play.sub \in Nat /\ play.done \subseteq Page
      /\ play.k = 0 => want = base /\ play.sub = Len(sub)
      /\ play.k > 0 => /\ want = saved[play.k]
                       /\ sps[play.k].iOffset <= play.at /\ sps[play.k].iSubRec <= play.sub
      /\ \A q \in 1..dbSize :
           IF q \in play.done THEN Look(q) = want[q]
           ELSE Restores(jrnl, sub, play.at, play.sub, q, base[q], Look(q), want[q])
      /\ \A i \in DOMAIN sps : sps[i].iOffset <= play.at /\ sps[i].iSubRec <= play.sub
      /\ eState \notin {"reader", "error"}
  BY <1>3, PlayingFacts, Zenon
<1>5. /\ Len(jrnl) \in Nat /\ DOMAIN jrnl = 1..Len(jrnl) /\ \A i \in DOMAIN jrnl : jrnl[i] \in Record \cup {Header}
      /\ dbOrigSize \in Nat /\ dbSize \in Nat /\ dbOrigSize <= dbSize /\ dbSize <= N /\ N \in Nat
      /\ Len(sub) \in Nat /\ DOMAIN sub = 1..Len(sub) /\ Len(sps) \in Nat
      /\ \A i \in DOMAIN sps : sps[i] \in Slot
  BY <1>1, Shape
<1>6. play.at + 1 \in DOMAIN jrnl /\ r \in Record \cup {Header}
  BY <1>0, <1>2, <1>4, <1>5
\* What is common to the two cases: the place moves on, and the rest follows.
<1>7. ASSUME NEW done \in SUBSET Page,
             play' = [play EXCEPT !.at = @ + 1, !.done = done],
             Journals', Pages', db' \in [Page -> Content],
             DOMAIN cache' \subseteq Page, cache' \in [DOMAIN cache' -> Content],
             dirty \subseteq dirty', dirty' \subseteq DOMAIN cache',
             \A q \in Page : q # p => Look(q)' = Look(q),
             \/ Look(p)' = Look(p) /\ done = play.done /\ (p \in Page => p \in play.done)
             \/ Look(p)' = base[p] /\ p \in 1..dbSize /\ p \notin play.done
                /\ done = (IF play.k > 0 THEN play.done \cup {p} ELSE play.done)
      PROVE  IInv'
  <2>8. /\ play' \in PlayState
        /\ play'.k = play.k /\ play'.at = play.at + 1 /\ play'.sub = play.sub /\ play'.done = done
    <3>1. play \in PlayState
      BY <1>1, Zenon DEF Typed, PlayState
    <3>2. Moved(play, done, play.at + 1, play.sub, [play EXCEPT !.at = @ + 1, !.done = done])
      BY <1>7, <3>1, MovedMain, Zenon
    <3>3. Moved(play, done, play.at + 1, play.sub, play')
      BY <1>7, <3>2, Zenon
    <3>4. QED
      BY <3>3, Zenon DEF Moved
  <2>9. \A i \in DOMAIN sps : p \in Page => InMain(jrnl, sps[i].iOffset, p)
    BY <1>0, <1>4, <1>5, <1>6, SMTT(30) DEF InMain, Slot
  <2>10. PlayFits'
    <3>1. play.k <= Len(sps) /\ play.k >= -1 /\ play.at + 1 <= Len(jrnl) /\ play.sub <= Len(sub)
      BY <1>1, <1>2, <1>4, <1>5 DEF PlayFits
    <3>2. QED
      BY <1>3, <2>8, <3>1, Zenon DEF PlayFits
  <2>11. PlayOn'
    <3>1. play.k > 0 => sps[play.k].iOffset <= play.at + 1
      <4>1. play.k > 0 => play.k \in DOMAIN sps
        BY <1>4, <1>5
      <4>2. QED
        BY <1>4, <1>5, <4>1 DEF Slot
    <3>2. ASSUME NEW q \in 1..dbSize
          PROVE  IF q \in done THEN Look(q)' = want[q]
                 ELSE Restores(jrnl, sub, play.at + 1, play.sub, q, base[q], Look(q)', want[q])
      <4>1. q \in Page
        BY <1>5 DEF Page
      <4>2. CASE q # p
        <5>1. Look(q)' = Look(q) /\ (q \in done <=> q \in play.done)
          BY <1>7, <4>1, <4>2
        <5>2. Restores(jrnl, sub, play.at, play.sub, q, base[q], Look(q), want[q])
                => Restores(jrnl, sub, play.at + 1, play.sub, q, base[q], Look(q), want[q])
          BY <1>0, <1>1, <1>2, <1>4, <4>2, ShiftMain, Zenon
        <5>3. QED
          BY <1>4, <5>1, <5>2, Zenon
      <4>3. CASE q = p /\ q \in play.done
        BY <1>4, <1>7, <4>1, <4>3, Zenon
      <4>4. CASE q = p /\ q \notin play.done
        <5>1. Look(q)' = base[q] /\ done = (IF play.k > 0 THEN play.done \cup {q} ELSE play.done)
          BY <1>7, <4>1, <4>4, Zenon
        <5>2. want[q] = base[q]
          <6>1. InMain(jrnl, play.at, q)
            BY <1>0, <1>4, <1>6, <4>4 DEF InMain
          <6>2. QED
            BY <1>4, <4>4, <6>1, Zenon DEF Restores
        <5>3. CASE play.k > 0
          <6>1. q \in done
            BY <5>1, <5>3
          <6>2. QED
            BY <5>1, <5>2, <6>1, Zenon
        <5>4. CASE play.k = 0
          <6>1. q \notin done /\ play.sub = Len(sub)
            BY <1>4, <4>4, <5>1, <5>4
          <6>2. \A i \in DOMAIN sub : ~FirstInSub(sub, play.sub, q, i)
            BY <1>5, <6>1 DEF FirstInSub
          <6>3. Restores(jrnl, sub, play.at + 1, play.sub, q, base[q], base[q], base[q])
            BY <6>2, Zenon DEF Restores
          <6>4. QED
            BY <5>1, <5>2, <6>1, <6>3, Zenon
        <5>5. QED
          BY <1>4, <5>3, <5>4
      <4>5. QED
        BY <4>2, <4>3, <4>4
    <3>3. QED
      BY <1>3, <1>4, <2>8, <3>1, <3>2, Zenon DEF PlayOn
  <2>12. QED
    <3>1. Look(p)' = Look(p)
            \/ \A i \in DOMAIN sps : InMain(jrnl, sps[i].iOffset, p) \/ InSub(sub, sps[i].iSubRec, p)
      <4>1. p \in 1..dbSize => p \in Page
        BY <1>5 DEF Page
      <4>2. QED
        BY <1>7, <2>9, <4>1, Zenon
    <3>2. play' \in [k : Int, at : Nat, sub : Nat, done : SUBSET Page]
      BY <2>8, Zenon DEF PlayState
    <3>3. QED
      BY <1>2, <1>7, <2>8, <2>10, <2>11, <3>1, <3>2, PlayStep, Zenon
<1>8. CASE r = Header
  <2>1. play' = [play EXCEPT !.at = @ + 1] /\ UNCHANGED <<db, cache, dirty>>
    BY <1>0, <1>8, Zenon DEF PlayMain
  <2>2. play' = [play EXCEPT !.at = @ + 1, !.done = play.done]
    BY <1>1, <2>1 DEF Typed
  <2>3. Look(p)' = Look(p) /\ \A q \in Page : Look(q)' = Look(q)
    BY <2>1, Zenon DEF Look
  <2>4. p = 0 /\ p \notin Page
    BY <1>8 DEF Header, Page
  <2>5. Journals'
    BY <1>1, <1>3, <2>1, ZenonT(60) DEF Journals, JournalKept, UnsyncedMarked, SubKnown, WriteableKnown, Journaled
  <2>6. Pages'
    BY <1>1, <1>3, <2>1, Zenon DEF Pages, FileKept, Untouched, Clean, Look, Journaled
  <2>7. /\ db' \in [Page -> Content] /\ DOMAIN cache' \subseteq Page /\ cache' \in [DOMAIN cache' -> Content]
        /\ dirty \subseteq dirty' /\ dirty' \subseteq DOMAIN cache' /\ play.done \in SUBSET Page
    BY <1>1, <1>4, <2>1 DEF Typed
  <2>8. QED
    BY <1>7, <2>2, <2>3, <2>4, <2>5, <2>6, <2>7
<1>9. CASE r # Header
  <2>1. pager_playback_one_page(r, TRUE) /\ play' = [play EXCEPT !.at = @ + 1, !.done = Played(p)]
    BY <1>0, <1>9, Zenon DEF PlayMain
  <2>2. r \in Record /\ p \in Page /\ p <= dbOrigSize
    <3>1. r \in Record
      BY <1>6, <1>9
    <3>2. QED
      BY <1>0, <1>1, <1>6, <1>9, <3>1 DEF JournalKept, Record
  <2>3. p \in 1..dbSize /\ p <= dbSize /\ ~(p > dbSize)
    <3>1. dbOrigSize \in Nat /\ dbSize \in Nat /\ dbOrigSize <= dbSize /\ N \in Nat
      BY <1>5, Zenon
    <3>2. QED
      BY <2>2, <3>1 DEF Page
  <2>4. Played(p) = IF play.k > 0 THEN play.done \cup {p} ELSE play.done
    BY <2>3, Zenon DEF Played
  <2>5. CASE p \in play.done
    <3>1. UNCHANGED <<db, cache, dirty>>
      BY <2>1, <2>5, Zenon DEF pager_playback_one_page
    <3>2. Played(p) = play.done
      BY <2>4, <2>5
    <3>3. Look(p)' = Look(p) /\ \A q \in Page : Look(q)' = Look(q)
      BY <3>1, Zenon DEF Look
    <3>5. Journals'
      BY <1>1, <1>3, <3>1, ZenonT(60) DEF Journals, JournalKept, UnsyncedMarked, SubKnown, WriteableKnown, Journaled
    <3>6. Pages'
      BY <1>1, <1>3, <3>1, Zenon DEF Pages, FileKept, Untouched, Clean, Look, Journaled
    <3>7. /\ db' \in [Page -> Content] /\ DOMAIN cache' \subseteq Page /\ cache' \in [DOMAIN cache' -> Content]
          /\ dirty \subseteq dirty' /\ dirty' \subseteq DOMAIN cache' /\ play.done \in SUBSET Page
      BY <1>1, <1>4, <3>1 DEF Typed
    <3>8. play' = [play EXCEPT !.at = @ + 1, !.done = play.done]
      BY <2>1, <3>2, Zenon
    <3>9. QED
      BY <1>7, <2>5, <3>3, <3>5, <3>6, <3>7, <3>8, Zenon
  <2>6. CASE p \notin play.done
    <3>6. \E toFile \in BOOLEAN : Plays(p, base[p], toFile, FALSE)
      BY <1>0, <1>2, <1>9, <2>1, <2>6, MainRecord, Zenon
    <3>7. PICK x : x = base[p]
      OBVIOUS
    <3>1. PICK toFile \in BOOLEAN : Plays(p, x, toFile, FALSE)
      BY <3>6, <3>7, Zenon
    <3>2. FALSE \in BOOLEAN
      OBVIOUS
    <3>3. /\ Journals' /\ Pages'
          /\ db' \in [Page -> Content]
          /\ DOMAIN cache' \subseteq Page /\ cache' \in [DOMAIN cache' -> Content]
          /\ dirty \subseteq dirty' /\ dirty' \subseteq DOMAIN cache'
          /\ \A q \in Page : q # p => Look(q)' = Look(q)
          /\ Look(p)' = x
      BY <1>2, <3>1, <3>2, PlaysPage, Zenon
    <3>4. Played(p) \in SUBSET Page
      BY <1>4, <2>2, <2>4
    <3>5. QED
      BY <1>7, <2>1, <2>3, <2>4, <2>6, <3>3, <3>4, <3>7, Zenon
  <2>7. QED
    BY <2>5, <2>6
<1>10. QED
  BY <1>8, <1>9
\* The next record of the sub-journal makes its page read as the record says.
LEMMA SubRecord ==
  ASSUME IInv, PlayFrame, play.sub < Len(sub), NEW r, r = sub[play.sub + 1],
         ~(r.page > dbSize), r.page \notin play.done, pager_playback_one_page(r, FALSE)
  PROVE  \E toFile, fetched \in BOOLEAN : Plays(r.page, r.data, toFile, fetched)
<1> DEFINE p == r.page
           toFile == eState = "dbmod" /\ SubSynced(p)
           fetched == ~FALSE /\ ~toFile /\ p \notin DOMAIN cache
<1>1. Typed /\ Control /\ JournalKept /\ UnsyncedMarked /\ SubKnown
  BY Zenon DEF IInv, Journals
<1>2. play # NoPlay /\ stmt # "abort"
  BY PlayFrameFacts, Zenon
<1>3. /\ Len(sub) \in Nat /\ DOMAIN sub = 1..Len(sub) /\ \A i \in DOMAIN sub : sub[i] \in Record
      /\ dbOrigSize \in Nat /\ dbSize \in Nat /\ DOMAIN jrnl = 1..Len(jrnl) /\ Len(jrnl) \in Nat
  BY <1>1, Shape
<1>4. play.sub \in Nat /\ eState \notin {"reader", "error"}
  BY <1>2, PlayingFacts, Zenon
<1>5. play.sub + 1 \in DOMAIN sub /\ r \in Record /\ sub # <<>>
  BY <1>3, <1>4
<1>6. p \in Page /\ r.data \in Content
  BY <1>5 DEF Record, Content
<1>7. eState \in {"cachemod", "dbmod"}
  BY <1>1, <1>4, <1>5 DEF Control
<1>8. p <= dbOrigSize => Journaled(p)
  BY <1>1, <1>5, Zenon DEF SubKnown
<1>9. needSync \subseteq dirty /\ journalHdr \in Nat
  BY <1>1 DEF Typed
<1>10. ~toFile => p \in dirty \/ fetched
  <2>1. eState = "cachemod" => p \in dirty
    BY <1>1, <1>5, Zenon DEF SubKnown
  <2>2. ASSUME ~toFile, eState = "dbmod"
        PROVE  p \in dirty
    BY <1>9, <2>2 DEF SubSynced
  <2>3. QED
    BY <1>7, <2>1, <2>2
<1>11. ASSUME toFile, p <= dbOrigSize
       PROVE  \E i \in 1..journalHdr : jrnl[i].page = p
  <2>1. p \notin needSync
    BY <1>11 DEF SubSynced
  <2>2. PICK i \in DOMAIN jrnl : jrnl[i].page = p
    BY <1>8, <1>11, Zenon DEF Journaled
  <2>3. jrnl[i] # Header
    BY <1>6, <2>2 DEF Header, Page
  <2>4. ~(i > journalHdr)
    BY <1>1, <2>1, <2>2, <2>3, Zenon DEF UnsyncedMarked
  <2>5. i \in 1..journalHdr
    BY <1>3, <1>9, <2>4
  <2>6. QED
    BY <2>2, <2>5
<1>12. /\ db' = IF toFile THEN [db EXCEPT ![p] = r.data] ELSE db
       /\ cache' = IF p \in DOMAIN cache \/ fetched THEN Put(cache, p, r.data) ELSE cache
       /\ dirty' = IF fetched THEN dirty \cup {p} ELSE dirty
  BY Zenon DEF pager_playback_one_page
<1>13. toFile \in BOOLEAN /\ fetched \in BOOLEAN
  OBVIOUS
<1>15. p \in DOMAIN cache \/ fetched \/ toFile
  OBVIOUS
<1>16. eState \notin {"reader", "locked"}
  BY <1>7
<1> HIDE DEF toFile, fetched
<1>14. Plays(p, r.data, toFile, fetched)
  BY <1>6, <1>8, <1>10, <1>11, <1>12, <1>15, <1>16, Zenon DEF Plays
<1>17. QED
  BY <1>13, <1>14

LEMMA PlaySubKeeps ==
  ASSUME IInv, PlaySub
  PROVE  IInv'
<1>0. PICK r : r = sub[play.sub + 1]
  OBVIOUS
<1> DEFINE p == r.page
<1>1. Typed /\ Control /\ Journals /\ Pages /\ PlayFits
  BY Zenon DEF IInv, Slots
<1>2. PlayFrame /\ play.at >= Len(jrnl) /\ play.sub < Len(sub)
  BY Zenon DEF PlaySub, Playing, PlayFrame
<1>3. /\ play # NoPlay /\ stmt # "abort"
      /\ UNCHANGED <<eState, needSync, writeable, dbSize, dbOrigSize, jrnl, journalHdr, sub, sps,
                     nSavepoint, stmt, writes, base, want, saved>>
  BY <1>2, PlayFrameFacts, Zenon
<1>4. /\ play.k = Len(sps) /\ play.k \in Nat /\ play.at \in Nat /\ play.sub \in Nat /\ play.done \subseteq Page
      /\ play.k = 0 => want = base /\ play.sub = Len(sub)
      /\ play.k > 0 => /\ want = saved[play.k]
                       /\ sps[play.k].iOffset <= play.at /\ sps[play.k].iSubRec <= play.sub
      /\ \A q \in 1..dbSize :
           IF q \in play.done THEN Look(q) = want[q]
           ELSE Restores(jrnl, sub, play.at, play.sub, q, base[q], Look(q), want[q])
      /\ \A i \in DOMAIN sps : sps[i].iOffset <= play.at /\ sps[i].iSubRec <= play.sub
  BY <1>3, PlayingFacts, Zenon
<1>5. /\ Len(sub) \in Nat /\ DOMAIN sub = 1..Len(sub) /\ \A i \in DOMAIN sub : sub[i] \in Record
      /\ dbSize \in Nat /\ dbSize <= N /\ N \in Nat
      /\ Len(jrnl) \in Nat /\ DOMAIN jrnl = 1..Len(jrnl) /\ Len(sps) \in Nat
      /\ \A i \in DOMAIN sps : sps[i] \in Slot
  BY <1>1, Shape
<1>6. play.sub + 1 \in DOMAIN sub /\ r \in Record /\ p \in Page
  <2>1. play.sub + 1 \in DOMAIN sub
    BY <1>2, <1>4, <1>5
  <2>2. QED
    BY <1>0, <1>5, <2>1 DEF Record
<1>7. play.k > 0
  BY <1>2, <1>4, <1>5
<1>8. ASSUME NEW done \in SUBSET Page,
             play' = [play EXCEPT !.sub = @ + 1, !.done = done],
             Journals', Pages', db' \in [Page -> Content],
             DOMAIN cache' \subseteq Page, cache' \in [DOMAIN cache' -> Content],
             dirty \subseteq dirty', dirty' \subseteq DOMAIN cache',
             \A q \in Page : q # p => Look(q)' = Look(q),
             \/ Look(p)' = Look(p) /\ done = play.done /\ (p <= dbSize => p \in play.done)
             \/ Look(p)' = r.data /\ p \notin play.done /\ done = play.done \cup {p}
      PROVE  IInv'
  <2>1. /\ play' \in PlayState
        /\ play'.k = play.k /\ play'.at = play.at /\ play'.sub = play.sub + 1 /\ play'.done = done
    <3>1. play \in PlayState
      BY <1>1, Zenon DEF Typed, PlayState
    <3>2. Moved(play, done, play.at, play.sub + 1, [play EXCEPT !.sub = @ + 1, !.done = done])
      BY <1>8, <3>1, MovedSub, Zenon
    <3>3. Moved(play, done, play.at, play.sub + 1, play')
      BY <1>8, <3>2, Zenon
    <3>4. QED
      BY <3>3, Zenon DEF Moved
  <2>2. \A i \in DOMAIN sps : InSub(sub, sps[i].iSubRec, p)
    BY <1>0, <1>4, <1>5, <1>6, SMTT(30) DEF InSub, Slot
  <2>3. PlayFits'
    <3>1. play.k <= Len(sps) /\ play.k >= -1 /\ (play.at <= 1 \/ play.at <= Len(jrnl)) /\ play.sub + 1 <= Len(sub)
      BY <1>1, <1>2, <1>4, <1>5 DEF PlayFits
    <3>2. QED
      BY <1>3, <2>1, <3>1, Zenon DEF PlayFits
  <2>4. PlayOn'
    <3>1. sps[play.k].iSubRec <= play.sub + 1
      <4>1. play.k \in DOMAIN sps
        BY <1>4, <1>5, <1>7
      <4>2. QED
        BY <1>4, <1>5, <4>1 DEF Slot
    <3>2. ASSUME NEW q \in 1..dbSize
          PROVE  IF q \in done THEN Look(q)' = want[q]
                 ELSE Restores(jrnl, sub, play.at, play.sub + 1, q, base[q], Look(q)', want[q])
      <4>1. q \in Page /\ q <= dbSize
        BY <1>5 DEF Page
      <4>2. CASE q # p
        <5>1. Look(q)' = Look(q) /\ (q \in done <=> q \in play.done)
          BY <1>8, <4>1, <4>2
        <5>2. Restores(jrnl, sub, play.at, play.sub, q, base[q], Look(q), want[q])
                => Restores(jrnl, sub, play.at, play.sub + 1, q, base[q], Look(q), want[q])
          BY <1>0, <1>1, <1>2, <1>4, <4>2, ShiftSub, Zenon
        <5>3. QED
          BY <1>4, <5>1, <5>2, Zenon
      <4>3. CASE q = p /\ q \in play.done
        BY <1>4, <1>8, <4>1, <4>3, Zenon
      <4>4. CASE q = p /\ q \notin play.done
        <5>1. Look(q)' = r.data /\ done = play.done \cup {q}
          BY <1>8, <4>1, <4>4, Zenon
        <5>2. want[q] = r.data
          <6>1. ~InMain(jrnl, play.at, q)
            BY <1>2, <1>4, <1>5 DEF InMain
          <6>2. FirstInSub(sub, play.sub, q, play.sub + 1)
            BY <1>0, <1>4, <1>5, <1>6, <4>4 DEF FirstInSub
          <6>3. Restores(jrnl, sub, play.at, play.sub, q, base[q], Look(q), want[q])
            BY <1>4, <4>4, Zenon
          <6>4. sub[play.sub + 1].data = want[q]
            BY <1>6, <6>1, <6>2, <6>3, Zenon DEF Restores
          <6>5. QED
            BY <1>0, <6>4
        <5>3. q \in done
          BY <5>1
        <5>4. QED
          BY <5>1, <5>2, <5>3, Zenon
      <4>5. QED
        BY <4>2, <4>3, <4>4
    <3>3. play.k # 0
      BY <1>7
    <3>4. play'.k > 0 /\ play'.k # 0 /\ ~(play.k = 0)
      BY <1>7, <2>1, <3>3, Zenon
    <3>5. QED
      BY <1>3, <1>4, <1>7, <2>1, <3>1, <3>2, <3>3, <3>4, Zenon DEF PlayOn
  <2>5. QED
    <3>1. Look(p)' = Look(p)
            \/ \A i \in DOMAIN sps : InMain(jrnl, sps[i].iOffset, p) \/ InSub(sub, sps[i].iSubRec, p)
      BY <2>2, Zenon
    <3>2. play' \in [k : Int, at : Nat, sub : Nat, done : SUBSET Page]
      BY <2>1, Zenon DEF PlayState
    <3>3. QED
      BY <1>2, <1>8, <2>1, <2>3, <2>4, <3>1, <3>2, PlayStep, Zenon
<1>9. pager_playback_one_page(r, FALSE) /\ play' = [play EXCEPT !.sub = @ + 1, !.done = Played(p)]
  BY <1>0, Zenon DEF PlaySub
<1>10. CASE p > dbSize \/ p \in play.done
  <2>1. UNCHANGED <<db, cache, dirty>>
    BY <1>9, <1>10, Zenon DEF pager_playback_one_page
  <2>2. Played(p) = play.done
    <3>1. N \in Nat /\ dbSize \in Nat
      BY <1>5, Zenon
    <3>2. p > dbSize => ~(p <= dbSize)
      BY <1>6, <3>1 DEF Page
    <3>3. p \in play.done => play.done \cup {p} = play.done
      OBVIOUS
    <3>4. QED
      BY <1>10, <3>2, <3>3, Zenon DEF Played
  <2>3. Look(p)' = Look(p) /\ \A q \in Page : Look(q)' = Look(q)
    BY <2>1, Zenon DEF Look
  <2>4. Journals'
    BY <1>1, <1>3, <2>1, Zenon DEF Journals, JournalKept, UnsyncedMarked, SubKnown, WriteableKnown, Journaled
  <2>5. Pages'
    BY <1>1, <1>3, <2>1, Zenon DEF Pages, FileKept, Untouched, Clean, Look, Journaled
  <2>6. /\ db' \in [Page -> Content] /\ DOMAIN cache' \subseteq Page /\ cache' \in [DOMAIN cache' -> Content]
        /\ dirty \subseteq dirty' /\ dirty' \subseteq DOMAIN cache' /\ play.done \in SUBSET Page
    BY <1>1, <1>4, <2>1 DEF Typed
  <2>7. play' = [play EXCEPT !.sub = @ + 1, !.done = play.done]
    BY <1>9, <2>2, Zenon
  <2>8. p <= dbSize => p \in play.done
    <3>1. N \in Nat /\ dbSize \in Nat
      BY <1>5, Zenon
    <3>2. QED
      BY <1>6, <1>10, <3>1 DEF Page
  <2>9. QED
    BY <1>8, <2>3, <2>4, <2>5, <2>6, <2>7, <2>8, Zenon
<1>11. CASE ~(p > dbSize) /\ p \notin play.done
  <2>1. \E toFile, fetched \in BOOLEAN : Plays(p, r.data, toFile, fetched)
    BY <1>0, <1>2, <1>9, <1>11, SubRecord, Zenon
  <2>2. PICK toFile \in BOOLEAN, fetched \in BOOLEAN : Plays(p, r.data, toFile, fetched)
    BY <2>1, Zenon
  <2>3. /\ Journals' /\ Pages'
        /\ db' \in [Page -> Content]
        /\ DOMAIN cache' \subseteq Page /\ cache' \in [DOMAIN cache' -> Content]
        /\ dirty \subseteq dirty' /\ dirty' \subseteq DOMAIN cache'
        /\ \A q \in Page : q # p => Look(q)' = Look(q)
        /\ Look(p)' = r.data
    BY <1>2, <2>2, PlaysPage, Zenon
  <2>4. p <= dbSize
    <3>1. N \in Nat /\ dbSize \in Nat
      BY <1>5, Zenon
    <3>2. QED
      BY <1>6, <1>11, <3>1 DEF Page
  <2>5. Played(p) = play.done \cup {p} /\ Played(p) \in SUBSET Page
    BY <1>4, <1>6, <1>7, <2>4 DEF Played
  <2>6. QED
    BY <1>8, <1>9, <1>11, <2>3, <2>5, Zenon
<1>12. QED
  BY <1>10, <1>11
-----------------------------------------------------------------------------
(* The transaction ends.                                                   *)

\* A rollback from the first n records of the journal restores the pages that have one.
LEMMA PlayedBackTo ==
  ASSUME Typed, JournalKept, NEW n \in 0..Len(jrnl), NEW f, NEW p \in Page, p \in DOMAIN f
  PROVE  PlayedBack(f, RecordsTo(n))[p] = IF \E i \in 1..n : jrnl[i].page = p THEN base[p] ELSE f[p]
<1> DEFINE R == RecordsTo(n)
<1>1. Len(jrnl) \in Nat /\ DOMAIN jrnl = 1..Len(jrnl) /\ n \in Nat
  BY Shape
<1>2. Min({n, Len(jrnl)}) = n
  BY <1>1, MinOf
<1>3. R = {jrnl[i] : i \in 1..n} \ {Header}
  BY <1>2, Zenon DEF RecordsTo
<1>4. Header.page # p
  BY DEF Header, Page
<1>5. (\E r \in R : r.page = p) <=> \E i \in 1..n : jrnl[i].page = p
  BY <1>3, <1>4
<1>6. ASSUME NEW r \in R, r.page = p
      PROVE  r.data = base[p]
  <2>1. PICK i \in 1..n : jrnl[i] = r
    BY <1>3
  <2>2. i \in DOMAIN jrnl /\ r # Header
    BY <1>1, <1>4, <1>6
  <2>3. QED
    BY <1>6, <2>1, <2>2, Zenon DEF JournalKept
<1> HIDE DEF R
<1>7. PlayedBack(f, R)[p] = IF \E r \in R : r.page = p THEN (CHOOSE r \in R : r.page = p).data ELSE f[p]
  BY Zenon DEF PlayedBack
<1>8. ASSUME \E r \in R : r.page = p
      PROVE  (CHOOSE r \in R : r.page = p).data = base[p]
  <2>1. (CHOOSE r \in R : r.page = p) \in R /\ (CHOOSE r \in R : r.page = p).page = p
    BY <1>8, Zenon
  <2>2. QED
    BY <1>6, <2>1, Zenon
<1>9. QED
  BY <1>5, <1>7, <1>8, Zenon DEF R

\* What a loss of power brings back, and what a rollback leaves.
LEMMA RecoveredIsBase ==
  ASSUME IInv
  PROVE  Recoverable /\ Recovered \in [Page -> Content]
         /\ \A p \in 1..dbOrigSize : Recovered[p] = base[p]
<1>1. Typed /\ Control /\ JournalKept /\ FileKept
  BY Zenon DEF IInv, Journals, Pages
<1>2. /\ Len(jrnl) \in Nat /\ DOMAIN jrnl = 1..Len(jrnl) /\ (jrnl = <<>> <=> Len(jrnl) = 0)
      /\ dbOrigSize \in Nat /\ dbSize \in Nat /\ dbOrigSize <= dbSize /\ dbSize <= N /\ N \in Nat
  BY <1>1, Shape
<1>3. journalHdr \in 0..Len(jrnl) /\ base \in Seq(Val) /\ Len(base) = dbOrigSize /\ db \in [Page -> Content]
  BY <1>1, <1>2 DEF JournalKept, Typed
<1> DEFINE f == IF eState \in {"dbmod", "error"} THEN PlayedBack(db, RecordsTo(journalHdr)) ELSE db
<1>4. ASSUME NEW p \in 1..dbOrigSize
      PROVE  f[p] = base[p]
  <2>1. p \in Page /\ p \in DOMAIN db
    BY <1>2, <1>3 DEF Page
  <2>2. db[p] = base[p] \/ \E i \in 1..journalHdr : jrnl[i].page = p
    BY <1>1, Zenon DEF FileKept
  <2>3. CASE eState \in {"dbmod", "error"}
    <3>1. PlayedBack(db, RecordsTo(journalHdr))[p]
            = IF \E i \in 1..journalHdr : jrnl[i].page = p THEN base[p] ELSE db[p]
      BY <1>1, <1>3, <2>1, PlayedBackTo
    <3>2. QED
      BY <2>2, <2>3, <3>1, Zenon
  <2>4. CASE eState \notin {"dbmod", "error"}
    <3>1. journalHdr = 0
      BY <1>1, <2>4, Zenon DEF Control
    <3>2. ~\E i \in 1..journalHdr : jrnl[i].page = p
      BY <3>1
    <3>3. QED
      BY <2>2, <2>4, <3>2, Zenon
  <2>5. QED
    BY <2>3, <2>4
<1> HIDE DEF f
<1>5. Recovered = [p \in Page |-> IF p > dbOrigSize THEN Absent ELSE f[p]]
  BY Zenon DEF Recovered, f
<1>6. \A p \in Page : p > dbOrigSize \/ p \in 1..dbOrigSize
  BY <1>2 DEF Page
<1>7. \A p \in 1..dbOrigSize : p \in Page /\ ~(p > dbOrigSize) /\ p <= Len(base)
  BY <1>2, <1>3 DEF Page
<1>8. \A p \in 1..dbOrigSize : Recovered[p] = base[p]
  BY <1>4, <1>5, <1>7, Zenon
<1>9. FileOf(base) = [p \in Page |-> IF p > dbOrigSize THEN Absent ELSE f[p]]
  <2>1. ASSUME NEW p \in Page
        PROVE  (IF p <= Len(base) THEN base[p] ELSE Absent) = (IF p > dbOrigSize THEN Absent ELSE f[p])
    <3>1. CASE p \in 1..dbOrigSize
      BY <1>4, <1>7, <3>1, Zenon
    <3>2. CASE p > dbOrigSize
      <4>1. ~(p <= Len(base))
        <5>1. N \in Nat /\ dbOrigSize \in Nat /\ Len(base) = dbOrigSize
          BY <1>2, <1>3, Zenon
        <5>2. QED
          BY <3>2, <5>1 DEF Page
      <4>2. QED
        BY <3>2, <4>1, Zenon
    <3>3. QED
      BY <1>6, <3>1, <3>2
  <2>2. QED
    BY <2>1, Zenon DEF FileOf
<1>10. Recovered \in [Page -> Content]
  <2>1. \A p \in 1..dbOrigSize : base[p] \in Content
    BY <1>3, ElementOfSeq DEF Content
  <2>2. Absent \in Content
    BY DEF Content
  <2>3. \A p \in Page : (IF p > dbOrigSize THEN Absent ELSE f[p]) \in Content
    BY <1>4, <1>6, <2>1, <2>2
  <2>4. QED
    BY <1>5, <2>3
<1>11. QED
  BY <1>5, <1>8, <1>9, <1>10, Zenon DEF Recoverable

LEMMA EndKeeps ==
  ASSUME IInv, NEW image \in Seq(Val), NEW size, size = Len(image), size <= N,
         pager_end_transaction(image, size),
         db' \in [Page -> Content], \A p \in 1..size : db'[p] = image[p],
         DOMAIN cache' \subseteq Page, cache' \in [DOMAIN cache' -> Content],
         \A p \in DOMAIN cache' : p <= size => cache'[p] = db'[p]
  PROVE  IInv'
<1>1. /\ eState' = "reader" /\ dirty' = {} /\ needSync' = {} /\ writeable' = {}
      /\ dbSize' = size /\ dbOrigSize' = size
      /\ jrnl' = <<>> /\ journalHdr' = 0 /\ sub' = <<>> /\ sps' = <<>>
      /\ nSavepoint' = 0 /\ stmt' = "none" /\ play' = NoPlay
      /\ base' = image /\ want' = image /\ saved' = <<>> /\ writes' = writes
  BY Zenon DEF pager_end_transaction
<1>2. size \in Nat /\ MaxNest \in Nat /\ MaxWrite \in Nat /\ N \in Nat
  BY LenProperties, BoundsAssumption
<1>3. writes \in Val /\ writes \in Nat
  BY Shape DEF IInv, Typed
<1>4. /\ <<>> \in Seq(Record \cup {Header}) /\ <<>> \in Seq(Record) /\ <<>> \in Seq(Slot)
      /\ <<>> \in Seq(Seq(Val)) /\ Len(<<>>) = 0
  BY EmptySeq
<1>5. DOMAIN <<>> = {}
  OBVIOUS
<1>6. NoPlay \in [k : Int, at : Nat, sub : Nat, done : SUBSET Page]
      /\ NoPlay.k = -1 /\ NoPlay.at = 0 /\ NoPlay.sub = 0
  BY DEF NoPlay
<1>7. Typed'
  <2>1. {} \cup {} \subseteq {} /\ {} \subseteq DOMAIN cache' /\ 0 \in Nat /\ 0 \in 0..MaxNest
        /\ 0 <= writes /\ 0 <= MaxNest /\ size <= size
    BY <1>2, <1>3
  <2>2. QED
    BY <1>1, <1>3, <1>4, <1>5, <1>6, <2>1, Zenon DEF Typed
<1>8. Control'
  <2>1. Len(sps') = 0 /\ Len(saved') = 0
    BY <1>1, <1>4, Zenon
  <2>2. nSavepoint' = 0 /\ eState' = "reader" /\ stmt' = "none" /\ play' = NoPlay /\ jrnl' = <<>> /\ sub' = <<>>
        /\ journalHdr' = 0
    BY <1>1, Zenon
  <2>3. QED
    BY <2>1, <2>2 DEF Control
<1>9. DOMAIN jrnl' = {} /\ DOMAIN sub' = {} /\ DOMAIN sps' = {} /\ DOMAIN saved' = {}
  BY <1>1, <1>5, Zenon
<1>10. Journals'
  <2>1. JournalKept' /\ UnsyncedMarked' /\ SubKnown'
    BY <1>1, <1>9, Zenon DEF JournalKept, UnsyncedMarked, SubKnown
  <2>2. WriteableKnown'
    BY <1>1, Zenon DEF WriteableKnown
  <2>3. QED
    BY <2>1, <2>2, Zenon DEF Journals
<1>11. \A p \in 1..size : Look(p)' = image[p]
  <2>1. \A p \in 1..size : p <= size
    BY <1>2
  <2>2. QED
    BY <2>1, Zenon DEF Look
<1>12. Pages'
  <2>1. FileKept' /\ Untouched'
    BY <1>1, <1>11, Zenon DEF FileKept, Untouched
  <2>2. Clean'
    BY <1>1, Zenon DEF Clean
  <2>3. QED
    BY <2>1, <2>2, Zenon DEF Pages
<1>13. Slots'
  <2>1. SlotsFit' /\ FirstStretch'
    BY <1>9, Zenon DEF SlotsFit, FirstStretch
  <2>2. Len(sps') = 0 /\ Len(sub') = 0
    BY <1>1, <1>4, Zenon
  <2>3. play'.k = -1 /\ play'.at = 0 /\ play'.sub = 0
    BY <1>1, <1>6, Zenon
  <2>4. PlayFits'
    BY <2>2, <2>3 DEF PlayFits
  <2>5. QED
    BY <2>1, <2>4, Zenon DEF Slots
<1>14. Values'
  <2>1. SavedKept' /\ PlayOn'
    BY <1>1, <1>9, Zenon DEF SavedKept, PlayOn
  <2>2. ContentAsWritten'
    BY <1>1, <1>11, Zenon DEF ContentAsWritten
  <2>3. QED
    BY <2>1, <2>2, Zenon DEF Values
<1>15. QED
  BY <1>7, <1>8, <1>10, <1>12, <1>13, <1>14, Zenon DEF IInv
LEMMA CommitKeeps ==
  ASSUME IInv, Commit
  PROVE  IInv'
<1>1. Typed /\ Clean /\ ContentAsWritten
  BY Zenon DEF IInv, Pages, Values
<1>2. /\ stmt = "none" /\ play = NoPlay
      /\ db' = [p \in Page |-> IF p > dbSize THEN Absent ELSE IF p \in dirty THEN cache[p] ELSE db[p]]
      /\ cache' = Cut(cache, dbSize)
      /\ pager_end_transaction(want, dbSize)
  BY Zenon DEF Commit, Idle
<1>3. /\ want \in Seq(Val) /\ dbSize = Len(want) /\ dbSize <= N /\ dbSize \in Nat /\ N \in Nat
      /\ db \in [Page -> Content] /\ DOMAIN cache \subseteq Page /\ cache \in [DOMAIN cache -> Content]
      /\ dirty \subseteq DOMAIN cache
  BY <1>1, Shape DEF Typed
<1>4. \A p \in 1..dbSize : Look(p) = want[p]
  BY <1>1, <1>2 DEF ContentAsWritten
<1>5. \A p \in 1..dbSize : p \in Page /\ ~(p > dbSize) /\ p <= dbSize
  BY <1>3 DEF Page
<1>6. \A p \in 1..dbSize : db'[p] = want[p]
  <2>1. SUFFICES ASSUME NEW p \in 1..dbSize
                 PROVE  db'[p] = want[p]
    OBVIOUS
  <2>2. db'[p] = IF p \in dirty THEN cache[p] ELSE db[p]
    BY <1>2, <1>5, Zenon
  <2>3. p \in dirty => p \in DOMAIN cache
    BY <1>3
  <2>4. p \in DOMAIN cache /\ p \notin dirty => cache[p] = db[p]
    BY <1>1, <1>5 DEF Clean
  <2>5. QED
    BY <1>4, <2>2, <2>3, <2>4, Zenon DEF Look
<1>7. db' \in [Page -> Content]
  <2>1. \A p \in Page : (IF p > dbSize THEN Absent ELSE IF p \in dirty THEN cache[p] ELSE db[p]) \in Content
    BY <1>3 DEF Content
  <2>2. QED
    BY <1>2, <2>1
<1>8. cache' = [p \in {q \in DOMAIN cache : q <= dbSize} |-> cache[p]]
  BY <1>2, Zenon DEF Cut
<1>9. /\ DOMAIN cache' \subseteq Page /\ cache' \in [DOMAIN cache' -> Content]
      /\ \A p \in DOMAIN cache' : p \in DOMAIN cache /\ cache'[p] = cache[p]
  BY <1>3, <1>8
<1>10. \A p \in DOMAIN cache' : p <= dbSize => cache'[p] = db'[p]
  <2>1. SUFFICES ASSUME NEW p \in DOMAIN cache', p <= dbSize
                 PROVE  cache'[p] = db'[p]
    OBVIOUS
  <2>2. p \in DOMAIN cache /\ cache'[p] = cache[p] /\ p \in 1..dbSize
    BY <1>3, <1>9, <2>1 DEF Page
  <2>3. cache[p] = want[p]
    BY <1>4, <2>2, Zenon DEF Look
  <2>4. QED
    BY <1>6, <2>2, <2>3, Zenon
<1>11. QED
  BY <1>2, <1>3, <1>6, <1>7, <1>9, <1>10, EndKeeps

LEMMA RollbackKeeps ==
  ASSUME IInv, Rollback
  PROVE  IInv'
<1>1. Typed /\ JournalKept /\ Untouched
  BY Zenon DEF IInv, Journals, Pages
<1>2. /\ db' = Recovered
      /\ cache' = IF eState = "error" THEN Cut(Recovered, 1)
                  ELSE Cut(PlayedBack(cache, RecordsTo(Len(jrnl))), dbOrigSize)
      /\ pager_end_transaction(base, dbOrigSize)
  BY Zenon DEF Rollback
<1>3. /\ base \in Seq(Val) /\ dbOrigSize = Len(base) /\ dbOrigSize <= N /\ dbOrigSize \in Nat /\ N \in Nat
      /\ DOMAIN cache \subseteq Page /\ cache \in [DOMAIN cache -> Content]
      /\ Len(jrnl) \in Nat /\ DOMAIN jrnl = 1..Len(jrnl) /\ Len(jrnl) \in 0..Len(jrnl)
  BY <1>1, Shape, SMTT(30) DEF Typed
<1>4. db' \in [Page -> Content] /\ \A p \in 1..dbOrigSize : db'[p] = base[p]
  BY <1>2, RecoveredIsBase, Zenon
<1>5. \A p \in 1..dbOrigSize : base[p] \in Content
  BY <1>3, ElementOfSeq DEF Content
<1>6. /\ DOMAIN cache' \subseteq Page /\ cache' \in [DOMAIN cache' -> Content]
      /\ \A p \in DOMAIN cache' : p <= dbOrigSize => cache'[p] = db'[p]
  <2>1. CASE eState = "error"
    <3>1. cache' = [p \in {q \in DOMAIN db' : q <= 1} |-> db'[p]]
      BY <1>2, <2>1, Zenon DEF Cut
    <3>2. QED
      BY <1>4, <3>1
  <2>2. CASE eState # "error"
    <3> DEFINE f == PlayedBack(cache, RecordsTo(Len(jrnl)))
    <3>1. DOMAIN f = DOMAIN cache
      BY Zenon DEF PlayedBack
    <3>2. ASSUME NEW p \in DOMAIN cache, p <= dbOrigSize
          PROVE  f[p] = base[p] /\ p \in 1..dbOrigSize
      <4>1. p \in Page /\ p \in 1..dbOrigSize
        BY <1>3, <3>2 DEF Page
      <4>2. f[p] = IF \E i \in 1..Len(jrnl) : jrnl[i].page = p THEN base[p] ELSE cache[p]
        BY <1>1, <1>3, <4>1, PlayedBackTo
      <4>3. ~(\E i \in 1..Len(jrnl) : jrnl[i].page = p) => cache[p] = base[p]
        BY <1>1, <1>3, <4>1, Zenon DEF Untouched, Journaled, Look
      <4>4. QED
        BY <4>1, <4>2, <4>3, Zenon
    <3> HIDE DEF f
    <3>3. cache' = [p \in {q \in DOMAIN cache : q <= dbOrigSize} |-> f[p]]
      BY <1>2, <2>2, <3>1, Zenon DEF Cut, f
    <3>4. /\ DOMAIN cache' = {q \in DOMAIN cache : q <= dbOrigSize}
          /\ \A p \in DOMAIN cache' : cache'[p] = base[p] /\ p \in 1..dbOrigSize
      BY <3>2, <3>3
    <3>5. cache' \in [DOMAIN cache' -> Content]
      BY <1>5, <3>2, <3>3
    <3>6. QED
      BY <1>3, <1>4, <3>4, <3>5
  <2>3. QED
    BY <2>1, <2>2
<1>7. QED
  BY <1>2, <1>3, <1>4, <1>6, EndKeeps
-----------------------------------------------------------------------------
(* A page is made writeable.                                               *)

\* The rollback journal j after that: it is opened if it is not, and has a record of
\* page p more, or not.
Grown(j, p, recorded) ==
  /\ j \in Seq(Record \cup {Header}) /\ Len(j) \in Nat /\ DOMAIN j = 1..Len(j)
  /\ Len(jrnl) <= Len(j) /\ Len(j) >= 1
  /\ \A i \in DOMAIN jrnl : i \in DOMAIN j /\ j[i] = jrnl[i]
  /\ \A i \in DOMAIN j : \/ i \in DOMAIN jrnl
                         \/ i = 1 /\ j[i] = Header /\ jrnl = <<>>
                         \/ recorded /\ i = Len(j) /\ j[i] = [page |-> p, data |-> Look(p)]
  /\ recorded => /\ Len(j) > 1 /\ Len(j) > Len(jrnl)
                 /\ j[Len(j)] = [page |-> p, data |-> Look(p)]

LEMMA Looks ==
  ASSUME Typed, NEW p \in Page
  PROVE  Look(p) \in Content /\ [page |-> p, data |-> Look(p)] \in Record
<1>1. Look(p) \in Content
  BY DEF Typed, Look
<1>2. QED
  BY <1>1 DEF Record, Content

LEMMA OpenedGrown ==
  ASSUME Typed, Control, eState \in {"locked", "cachemod", "dbmod"}, NEW p
  PROVE  Grown(Opened, p, FALSE)
<1>1. jrnl \in Seq(Record \cup {Header}) /\ Len(jrnl) \in Nat /\ DOMAIN jrnl = 1..Len(jrnl)
      /\ (jrnl = <<>> <=> Len(jrnl) = 0) /\ Header \in Record \cup {Header}
  BY Shape
<1>2. CASE eState = "locked"
  <2>1. jrnl = <<>> /\ Opened = <<Header>>
    BY <1>2 DEF Control, Opened
  <2>2. <<Header>> \in Seq(Record \cup {Header}) /\ Len(<<Header>>) = 1 /\ DOMAIN <<Header>> = 1..1
        /\ <<Header>>[1] = Header
    BY <1>1
  <2>3. Len(jrnl) = 0 /\ DOMAIN jrnl = {}
    BY <1>1, <2>1
  <2>4. \A i \in 1..1 : i = 1
    OBVIOUS
  <2>5. 0 <= 1 /\ 1 >= 1 /\ 1 \in Nat
    OBVIOUS
  <2>6. QED
    BY <2>1, <2>2, <2>3, <2>4, <2>5, Zenon DEF Grown
<1>3. CASE eState # "locked"
  <2>1. jrnl # <<>> /\ Opened = jrnl
    BY <1>3 DEF Control, Opened
  <2>2. Len(jrnl) >= 1 /\ Len(jrnl) <= Len(jrnl)
    BY <1>1, <2>1
  <2>3. QED
    BY <1>1, <2>1, <2>2, Zenon DEF Grown
<1>4. QED
  BY <1>2, <1>3

LEMMA RecordGrown ==
  ASSUME Typed, Control, eState \in {"locked", "cachemod", "dbmod"}, NEW p \in Page,
         NEW j, j = Append(Opened, [page |-> p, data |-> Look(p)])
  PROVE  Grown(j, p, TRUE)
<1> DEFINE o == Opened
           r == [page |-> p, data |-> Look(p)]
<1>1. Grown(o, p, FALSE)
  BY OpenedGrown
<1>2. /\ o \in Seq(Record \cup {Header}) /\ Len(o) \in Nat /\ DOMAIN o = 1..Len(o)
      /\ Len(jrnl) <= Len(o) /\ Len(o) >= 1
      /\ \A i \in DOMAIN jrnl : i \in DOMAIN o /\ o[i] = jrnl[i]
      /\ \A i \in DOMAIN o : i \in DOMAIN jrnl \/ (i = 1 /\ o[i] = Header /\ jrnl = <<>>)
  BY <1>1, Zenon DEF Grown
<1>3. r \in Record \cup {Header} /\ Len(jrnl) \in Nat
  BY Looks, Shape
<1> HIDE DEF o, r
<1>4. /\ Append(o, r) \in Seq(Record \cup {Header}) /\ Len(Append(o, r)) = Len(o) + 1
      /\ DOMAIN Append(o, r) = 1..(Len(o) + 1)
      /\ \A i \in DOMAIN o : Append(o, r)[i] = o[i]
      /\ Append(o, r)[Len(o) + 1] = r
  BY <1>2, <1>3, Appended
<1>5. j = Append(o, r)
  BY Zenon DEF o, r
<1>6. /\ j \in Seq(Record \cup {Header}) /\ Len(j) = Len(o) + 1 /\ DOMAIN j = 1..(Len(o) + 1)
      /\ \A i \in DOMAIN o : j[i] = o[i]
      /\ j[Len(o) + 1] = r
  BY <1>4, <1>5, Zenon
<1>7. /\ Len(j) \in Nat /\ Len(jrnl) <= Len(j) /\ Len(j) >= 1 /\ Len(j) > 1 /\ Len(j) > Len(jrnl)
      /\ DOMAIN j = 1..Len(j)
  BY <1>2, <1>3, <1>6
<1>8. \A i \in DOMAIN o : i \in DOMAIN j
  BY <1>2, <1>6
<1>9. \A i \in DOMAIN j : i \in DOMAIN o \/ i = Len(j)
  BY <1>2, <1>6
<1>10. j[Len(j)] = r
  BY <1>6, Zenon
<1>11. \A i \in DOMAIN jrnl : i \in DOMAIN j /\ j[i] = jrnl[i]
  BY <1>2, <1>6, <1>8, Zenon
<1>12. \A i \in DOMAIN j : i \in DOMAIN jrnl \/ (i = 1 /\ j[i] = Header /\ jrnl = <<>>) \/ (i = Len(j) /\ j[i] = r)
  <2>1. \A i \in DOMAIN o : i \in DOMAIN jrnl \/ (i = 1 /\ j[i] = Header /\ jrnl = <<>>)
    BY <1>2, <1>6, Zenon
  <2>2. SUFFICES ASSUME NEW i \in DOMAIN j, i \notin DOMAIN o
                 PROVE  i = Len(j) /\ j[i] = r
    BY <2>1, Zenon
  <2>3. i = Len(j)
    BY <1>9, <2>2, Zenon
  <2>4. QED
    BY <1>10, <2>3, Zenon
<1>13. QED
  BY <1>6, <1>7, <1>10, <1>11, <1>12, Zenon DEF Grown, r

\* Which pages the journal has then.
LEMMA GrownMain ==
  ASSUME Typed, NEW p \in Page, NEW recorded \in BOOLEAN, NEW j, Grown(j, p, recorded)
  PROVE  /\ \A a, q : q \in Page /\ (q # p \/ ~recorded) => (InMain(j, a, q) <=> InMain(jrnl, a, q))
         /\ \A a : recorded /\ a < Len(j) => InMain(j, a, p)
         /\ \A a : InMain(jrnl, a, p) => InMain(j, a, p)
         /\ \A q : q \in Page /\ (q # p \/ ~recorded) => ((\E i \in DOMAIN j : j[i].page = q) <=> Journaled(q))
         /\ recorded \/ Journaled(p) => \E i \in DOMAIN j : j[i].page = p
<1> DEFINE r == [page |-> p, data |-> Look(p)]
<1>1. /\ Len(j) \in Nat /\ DOMAIN j = 1..Len(j)
      /\ \A i \in DOMAIN jrnl : i \in DOMAIN j /\ j[i] = jrnl[i]
      /\ \A i \in DOMAIN j : \/ i \in DOMAIN jrnl
                             \/ i = 1 /\ j[i] = Header /\ jrnl = <<>>
                             \/ recorded /\ i = Len(j) /\ j[i] = r
      /\ recorded => Len(j) > 1 /\ j[Len(j)] = r
  BY Zenon DEF Grown
<1>2. Header.page = 0 /\ \A q \in Page : q # 0
  BY BoundsAssumption DEF Header, Page
<1>3. r.page = p
  OBVIOUS
<1> HIDE DEF r
<1>4. ASSUME NEW q \in Page, q # p \/ ~recorded, NEW i \in DOMAIN j, j[i].page = q
      PROVE  i \in DOMAIN jrnl /\ jrnl[i].page = q
  BY <1>1, <1>2, <1>3, <1>4, Zenon
<1>5. \A a, q : q \in Page /\ (q # p \/ ~recorded) => (InMain(j, a, q) <=> InMain(jrnl, a, q))
  BY <1>1, <1>4, Zenon DEF InMain
<1>6. \A q : q \in Page /\ (q # p \/ ~recorded) => ((\E i \in DOMAIN j : j[i].page = q) <=> Journaled(q))
  BY <1>1, <1>4, Zenon DEF Journaled
<1>7. recorded => Len(j) \in DOMAIN j /\ j[Len(j)].page = p
  BY <1>1, <1>3
<1>8. \A a : recorded /\ a < Len(j) => InMain(j, a, p)
  <2>1. SUFFICES ASSUME NEW a, recorded, a < Len(j)
                 PROVE  InMain(j, a, p)
    OBVIOUS
  <2>2. Len(j) > a
    BY <2>1, <1>1
  <2>3. QED
    BY <1>7, <2>1, <2>2, Zenon DEF InMain
<1>9. \A a : InMain(jrnl, a, p) => InMain(j, a, p)
  BY <1>1, Zenon DEF InMain
<1>10. recorded \/ Journaled(p) => \E i \in DOMAIN j : j[i].page = p
  BY <1>1, <1>7, Zenon DEF Journaled
<1>11. QED
  BY <1>5, <1>6, <1>8, <1>9, <1>10, Zenon
\* The sub-journal s after a copy of page p for the savepoints, or without one.
Copied(s, p, copied) ==
  /\ s \in Seq(Record) /\ Len(s) \in Nat /\ DOMAIN s = 1..Len(s)
  /\ Len(s) = IF copied THEN Len(sub) + 1 ELSE Len(sub)
  /\ \A i \in DOMAIN sub : i \in DOMAIN s /\ s[i] = sub[i]
  /\ \A i \in DOMAIN s : i \in DOMAIN sub \/ (copied /\ i = Len(s) /\ s[i] = [page |-> p, data |-> Look(p)])
  /\ copied => s[Len(s)] = [page |-> p, data |-> Look(p)]

LEMMA CopyMade ==
  ASSUME Typed, NEW p \in Page, NEW s, s = Append(sub, [page |-> p, data |-> Look(p)])
  PROVE  Copied(s, p, TRUE)
<1> DEFINE r == [page |-> p, data |-> Look(p)]
<1>1. sub \in Seq(Record) /\ Len(sub) \in Nat /\ DOMAIN sub = 1..Len(sub) /\ r \in Record
  BY Shape, Looks
<1> HIDE DEF r
<1>2. /\ Append(sub, r) \in Seq(Record) /\ Len(Append(sub, r)) = Len(sub) + 1
      /\ DOMAIN Append(sub, r) = 1..(Len(sub) + 1)
      /\ \A i \in DOMAIN sub : Append(sub, r)[i] = sub[i]
      /\ Append(sub, r)[Len(sub) + 1] = r
  BY <1>1, Appended
<1>3. s = Append(sub, r)
  BY Zenon DEF r
<1>4. /\ s \in Seq(Record) /\ Len(s) = Len(sub) + 1 /\ DOMAIN s = 1..Len(s)
      /\ \A i \in DOMAIN sub : s[i] = sub[i]
      /\ s[Len(s)] = r
  BY <1>2, <1>3, Zenon
<1>5. Len(s) \in Nat /\ \A i \in DOMAIN sub : i \in DOMAIN s
  BY <1>1, <1>4
<1>6. \A i \in DOMAIN s : i \in DOMAIN sub \/ (i = Len(s) /\ s[i] = r)
  <2>1. SUFFICES ASSUME NEW i \in DOMAIN s, i \notin DOMAIN sub
                 PROVE  i = Len(s) /\ s[i] = r
    BY Zenon
  <2>2. i = Len(s)
    BY <1>1, <1>4, <2>1
  <2>3. QED
    BY <1>4, <2>2, Zenon
<1>7. QED
  BY <1>4, <1>5, <1>6, Zenon DEF Copied, r

LEMMA NoCopy ==
  ASSUME Typed, NEW p
  PROVE  Copied(sub, p, FALSE)
BY Shape, Zenon DEF Copied

\* The savepoints t after page p has been marked in those that cover it, or not.
Marks(t, p, marked) ==
  /\ t \in Seq(Slot) /\ Len(t) = Len(sps) /\ DOMAIN t = DOMAIN sps
  /\ \A i \in DOMAIN sps :
       /\ t[i].nOrig = sps[i].nOrig /\ t[i].iOffset = sps[i].iOffset
       /\ t[i].iHdrOffset = sps[i].iHdrOffset /\ t[i].iSubRec = sps[i].iSubRec
       /\ t[i].inSavepoint = IF marked /\ p <= sps[i].nOrig THEN sps[i].inSavepoint \cup {p}
                             ELSE sps[i].inSavepoint

LEMMA BitvecsMark ==
  ASSUME Typed, NEW p \in Page, NEW t, t = addToSavepointBitvecs(sps, p)
  PROVE  Marks(t, p, TRUE)
<1> DEFINE M(s) == IF p <= s.nOrig THEN [s EXCEPT !.inSavepoint = @ \cup {p}] ELSE s
<1>1. Len(sps) \in Nat /\ DOMAIN sps = 1..Len(sps) /\ \A i \in DOMAIN sps : sps[i] \in Slot
  BY Shape
<1>2. ASSUME NEW s \in Slot
      PROVE  /\ M(s) \in Slot /\ M(s).nOrig = s.nOrig /\ M(s).iOffset = s.iOffset
             /\ M(s).iHdrOffset = s.iHdrOffset /\ M(s).iSubRec = s.iSubRec
             /\ M(s).inSavepoint = IF p <= s.nOrig THEN s.inSavepoint \cup {p} ELSE s.inSavepoint
  BY <1>2 DEF Slot
<1>3. t = [i \in DOMAIN sps |-> M(sps[i])]
  BY Zenon DEF addToSavepointBitvecs
<1> HIDE DEF M
<1>4. t \in [1..Len(sps) -> Slot] /\ DOMAIN t = DOMAIN sps /\ \A i \in DOMAIN sps : t[i] = M(sps[i])
  BY <1>1, <1>2, <1>3
<1>5. t \in Seq(Slot)
  BY <1>1, <1>4, SeqDef
<1>6. Len(t) \in Nat /\ DOMAIN t = 1..Len(t)
  BY <1>5, LenProperties
<1>7. Len(t) = Len(sps)
  BY <1>1, <1>4, <1>6
<1>8. \A i \in DOMAIN sps :
        /\ t[i].nOrig = sps[i].nOrig /\ t[i].iOffset = sps[i].iOffset
        /\ t[i].iHdrOffset = sps[i].iHdrOffset /\ t[i].iSubRec = sps[i].iSubRec
        /\ t[i].inSavepoint = IF p <= sps[i].nOrig THEN sps[i].inSavepoint \cup {p}
                              ELSE sps[i].inSavepoint
  BY <1>1, <1>2, <1>4, ZenonT(60)
<1>9. QED
  BY <1>4, <1>5, <1>7, <1>8, Zenon DEF Marks

LEMMA NoMark ==
  ASSUME Typed, NEW p
  PROVE  Marks(sps, p, FALSE)
BY Shape, Zenon DEF Marks
\* The whole step: the page goes to the journal, or to the sub-journal, or neither,
\* and gets its flags; if that fails, its content stays.
Touches(p, recorded, copied) ==
  /\ Writing /\ p \in Page /\ p <= dbSize + 1
  /\ recorded => NeedsRecord(p) /\ ~copied
  /\ Grown(jrnl', p, recorded) /\ Copied(sub', p, copied) /\ Marks(sps', p, recorded \/ copied)
  /\ eState' = IF eState = "locked" THEN "cachemod" ELSE eState
  /\ dirty' = dirty \cup {p}
  /\ needSync' \in {needSync, needSync \cup {p}} /\ (recorded => needSync' = needSync \cup {p})
  /\ \/ p <= dbOrigSize => Journaled(p) \/ recorded
     \/ UNCHANGED writeable /\ cache'[p] = Look(p) /\ ~copied
  /\ writeable' \in {writeable, writeable \cup {p}}
  /\ DOMAIN cache' = DOMAIN cache \cup {p} /\ cache' \in [DOMAIN cache' -> Content]
  /\ \A q \in DOMAIN cache \ {p} : cache'[q] = cache[q]
  /\ dbSize' = IF p <= dbSize THEN dbSize ELSE p
  /\ UNCHANGED <<db, dbOrigSize, journalHdr, nSavepoint, play, base, saved>>
  /\ stmt' \in {stmt, "abort"} \/ (stmt = "journal" /\ stmt' = "failed")
  /\ writes' \in Val /\ writes' >= IF copied THEN writes + 1 ELSE writes
  /\ want' \in Seq(Val) /\ Len(want') = dbSize'

LEMMA TouchFacts ==
  ASSUME IInv, NEW p, NEW recorded \in BOOLEAN, NEW copied \in BOOLEAN, Touches(p, recorded, copied)
  PROVE  /\ p \in Page /\ stmt \in {"plain", "journal"} /\ play = NoPlay /\ play' = NoPlay
         /\ eState \in {"locked", "cachemod", "dbmod"} /\ eState' \in {"cachemod", "dbmod"}
         /\ UNCHANGED <<db, dbOrigSize, journalHdr, nSavepoint, play, base, saved>>
         /\ dbSize \in Nat /\ dbSize' \in Nat /\ dbSize <= dbSize' /\ dbSize' <= N /\ p <= dbSize'
         /\ \A q \in Page : q # p /\ q <= dbSize' => q <= dbSize
         /\ Grown(jrnl', p, recorded) /\ Copied(sub', p, copied) /\ Marks(sps', p, recorded \/ copied)
<1>1. /\ p \in Page /\ stmt \in {"plain", "journal"} /\ play = NoPlay /\ p <= dbSize + 1
      /\ UNCHANGED <<db, dbOrigSize, journalHdr, nSavepoint, play, base, saved>>
      /\ dbSize' = IF p <= dbSize THEN dbSize ELSE p
      /\ Grown(jrnl', p, recorded) /\ Copied(sub', p, copied) /\ Marks(sps', p, recorded \/ copied)
  BY Zenon DEF Touches, Writing
<1>2. dbSize \in Nat /\ N \in Nat /\ dbSize <= N /\ p \in 1..N /\ Control
  BY <1>1, Shape DEF IInv, Page
<1>3. eState' = IF eState = "locked" THEN "cachemod" ELSE eState
  BY Zenon DEF Touches
<1>4. eState \in {"locked", "cachemod", "dbmod"}
  BY <1>1, <1>2 DEF Control
<1>5. eState' \in {"cachemod", "dbmod"}
  BY <1>3, <1>4
<1>6. /\ dbSize' \in Nat /\ dbSize <= dbSize' /\ dbSize' <= N /\ p <= dbSize'
      /\ \A q \in Page : q # p /\ q <= dbSize' => q <= dbSize
  BY <1>1, <1>2 DEF Page
<1>7. QED
  BY <1>1, <1>2, <1>4, <1>5, <1>6, Zenon

LEMMA TouchTypes ==
  ASSUME IInv, NEW p, NEW recorded \in BOOLEAN, NEW copied \in BOOLEAN, Touches(p, recorded, copied)
  PROVE  Typed' /\ Control'
<1>1. Typed /\ Control /\ p \in Page
  BY TouchFacts, Zenon DEF IInv
<1>2. Typed'
  <2>1. /\ db' = db /\ dbOrigSize' = dbOrigSize /\ journalHdr' = journalHdr /\ nSavepoint' = nSavepoint
        /\ play' = play /\ base' = base /\ saved' = saved
        /\ dbOrigSize <= dbSize' /\ dbSize' <= N
    <3>1. UNCHANGED <<db, dbOrigSize, journalHdr, nSavepoint, play, base, saved>>
      BY TouchFacts, Zenon
    <3>2. dbSize <= dbSize' /\ dbSize' <= N /\ dbSize \in Nat /\ dbSize' \in Nat /\ dbOrigSize \in Nat
          /\ dbOrigSize <= dbSize
      BY <1>1, TouchFacts, Shape
    <3>3. dbOrigSize <= dbSize' /\ dbSize' <= N
      BY <3>2
    <3>4. QED
      BY <3>1, <3>3, Zenon
  <2>2. /\ DOMAIN cache' = DOMAIN cache \cup {p} /\ cache' \in [DOMAIN cache' -> Content]
        /\ dirty' = dirty \cup {p} /\ needSync' \in {needSync, needSync \cup {p}}
        /\ writeable' \in {writeable, writeable \cup {p}}
        /\ writes' \in Val /\ want' \in Seq(Val) /\ Len(want') = dbSize'
    BY Zenon DEF Touches
  <2>3. /\ DOMAIN cache \subseteq Page /\ needSync \cup writeable \subseteq dirty
        /\ dirty \subseteq DOMAIN cache
    BY <1>1, Zenon DEF Typed
  <2>4. /\ DOMAIN cache' \subseteq Page /\ needSync' \cup writeable' \subseteq dirty'
        /\ dirty' \subseteq DOMAIN cache'
    BY <1>1, <2>2, <2>3
  <2>5. jrnl' \in Seq(Record \cup {Header}) /\ sub' \in Seq(Record) /\ sps' \in Seq(Slot)
    BY TouchFacts, Zenon DEF Grown, Copied, Marks
  <2>6. Len(sub') <= writes'
    <3>1. Len(sub') = IF copied THEN Len(sub) + 1 ELSE Len(sub)
      BY TouchFacts, Zenon DEF Copied
    <3>2. writes' >= IF copied THEN writes + 1 ELSE writes
      BY Zenon DEF Touches
    <3>3. Len(sub) \in Nat /\ writes \in Nat /\ Len(sub) <= writes /\ writes' \in Nat
      BY <1>1, <2>2, Shape DEF Val
    <3>4. QED
      BY <3>1, <3>2, <3>3
  <2>7. QED
    BY <1>1, <2>1, <2>2, <2>4, <2>5, <2>6, Zenon DEF Typed
<1>3. Control'
  <2>1. /\ stmt \in {"plain", "journal"} /\ play' = NoPlay /\ eState \in {"locked", "cachemod", "dbmod"}
        /\ eState' \in {"cachemod", "dbmod"} /\ nSavepoint' = nSavepoint
        /\ Len(saved') = Len(saved) /\ journalHdr' = journalHdr
    BY TouchFacts, Zenon
  <2>2. stmt' \in {stmt, "abort"} \/ (stmt = "journal" /\ stmt' = "failed")
    BY Zenon DEF Touches
  <2>3. Len(sps') = Len(sps)
    BY TouchFacts, Zenon DEF Marks
  <2>4. eState' = "cachemod" => eState # "dbmod"
    <3>1. eState' = IF eState = "locked" THEN "cachemod" ELSE eState
      BY Zenon DEF Touches
    <3>2. QED
      BY <2>1, <3>1
  <2>5. jrnl' # <<>>
    <3>1. Len(jrnl') >= 1
      BY TouchFacts, Zenon DEF Grown
    <3>2. QED
      BY <3>1, EmptySeq
  <2>6. eState # "dbmod" => journalHdr = 0
    BY <1>1, <2>1 DEF Control
  <2>7. /\ stmt \in {"none", "plain"} => Len(saved) = nSavepoint
        /\ stmt \in {"journal", "failed"} => Len(saved) = nSavepoint + 1 /\ Len(sps) = nSavepoint + 1
        /\ stmt = "plain" => Len(sps) = nSavepoint
        /\ Len(sps) <= Len(saved)
    BY <1>1, Zenon DEF Control
  <2>8. QED
    BY <2>1, <2>2, <2>3, <2>4, <2>5, <2>6, <2>7 DEF Control
<1>4. QED
  BY <1>2, <1>3
LEMMA TouchJournals ==
  ASSUME IInv, NEW p, NEW recorded \in BOOLEAN, NEW copied \in BOOLEAN, Touches(p, recorded, copied)
  PROVE  Journals'
<1> DEFINE r == [page |-> p, data |-> Look(p)]
<1>1. Typed /\ Control /\ JournalKept /\ UnsyncedMarked /\ SubKnown /\ WriteableKnown /\ Untouched
  BY Zenon DEF IInv, Journals, Pages
<1>2. /\ p \in Page /\ dbOrigSize' = dbOrigSize /\ journalHdr' = journalHdr /\ base' = base
      /\ eState \in {"locked", "cachemod", "dbmod"} /\ eState' \in {"cachemod", "dbmod"}
      /\ Grown(jrnl', p, recorded) /\ Copied(sub', p, copied)
  BY TouchFacts, Zenon
<1>3. /\ eState' = (IF eState = "locked" THEN "cachemod" ELSE eState)
      /\ dirty' = dirty \cup {p}
      /\ needSync' \in {needSync, needSync \cup {p}} /\ (recorded => needSync' = needSync \cup {p})
      /\ \/ p <= dbOrigSize => Journaled(p) \/ recorded
         \/ writeable' = writeable /\ ~copied
      /\ writeable' \in {writeable, writeable \cup {p}}
      /\ recorded => NeedsRecord(p)
  BY Zenon DEF Touches
<1>4. \A q \in Page : q # 0
  BY BoundsAssumption DEF Page
<1>5. /\ Len(jrnl) \in Nat /\ Len(jrnl') \in Nat /\ DOMAIN jrnl = 1..Len(jrnl) /\ DOMAIN jrnl' = 1..Len(jrnl')
      /\ Len(jrnl) <= Len(jrnl') /\ Len(jrnl') >= 1
      /\ (jrnl = <<>> <=> Len(jrnl) = 0) /\ MaxJrnl \in Nat \ {0} /\ journalHdr \in Nat
      /\ (recorded => Len(jrnl') > 1 /\ Len(jrnl') > Len(jrnl))
      /\ dbOrigSize \in Nat
  <2>1. Len(jrnl') \in Nat /\ DOMAIN jrnl' = 1..Len(jrnl') /\ Len(jrnl) <= Len(jrnl') /\ Len(jrnl') >= 1
        /\ (recorded => Len(jrnl') > 1 /\ Len(jrnl') > Len(jrnl))
    BY <1>2, Zenon DEF Grown
  <2>2. /\ Len(jrnl) \in Nat /\ DOMAIN jrnl = 1..Len(jrnl) /\ dbOrigSize \in Nat
        /\ (jrnl = <<>> <=> Len(jrnl) = 0) /\ MaxJrnl \in Nat \ {0}
    BY <1>1, Shape
  <2>3. journalHdr \in Nat
    BY <1>1, Zenon DEF Typed
  <2>4. QED
    BY <2>1, <2>2, <2>3, Zenon
<1>6. /\ \A i \in DOMAIN jrnl : i \in DOMAIN jrnl' /\ jrnl'[i] = jrnl[i]
      /\ \A i \in DOMAIN jrnl' : i \in DOMAIN jrnl \/ jrnl'[i] = Header \/ (recorded /\ i = Len(jrnl') /\ jrnl'[i] = r)
      /\ \A i \in DOMAIN jrnl' : jrnl'[i] = Header => i \in DOMAIN jrnl \/ i = 1
  <2>1. /\ \A i \in DOMAIN jrnl : i \in DOMAIN jrnl' /\ jrnl'[i] = jrnl[i]
        /\ \A i \in DOMAIN jrnl' : \/ i \in DOMAIN jrnl
                                   \/ i = 1 /\ jrnl'[i] = Header /\ jrnl = <<>>
                                   \/ recorded /\ i = Len(jrnl') /\ jrnl'[i] = r
    BY <1>2, Zenon DEF Grown
  <2>2. r # Header
    BY <1>2, <1>4 DEF Header
  <2> HIDE DEF r
  <2>3. \A i \in DOMAIN jrnl' : i \in DOMAIN jrnl \/ jrnl'[i] = Header \/ (recorded /\ i = Len(jrnl') /\ jrnl'[i] = r)
    BY <2>1, Zenon
  <2>4. \A i \in DOMAIN jrnl' : jrnl'[i] = Header => i \in DOMAIN jrnl \/ i = 1
    BY <2>1, <2>2, Zenon
  <2>5. QED
    BY <2>1, <2>3, <2>4, Zenon
<1>7. recorded => p <= dbOrigSize /\ ~Journaled(p) /\ r.page = p /\ r.data = base[p]
  <2>1. SUFFICES ASSUME recorded
                 PROVE  p <= dbOrigSize /\ ~Journaled(p) /\ Look(p) = base[p]
    OBVIOUS
  <2>2. p <= dbOrigSize /\ ~Journaled(p)
    BY <1>3, <2>1, Zenon DEF NeedsRecord
  <2>3. p \in 1..dbOrigSize
    BY <1>2, <1>5, <2>2 DEF Page
  <2>4. QED
    BY <1>1, <2>2, <2>3, Zenon DEF Untouched
<1> HIDE DEF r
<1>8. \A q \in Page : Journaled(q) => Journaled(q)'
  <2>1. \A q \in Page : Journaled(q) => \E i \in DOMAIN jrnl : jrnl[i].page = q
    BY Zenon DEF Journaled
  <2>2. \A q \in Page : Journaled(q) => \E i \in DOMAIN jrnl' : jrnl'[i].page = q
    BY <1>6, <2>1, Zenon
  <2>3. QED
    BY <2>2, Zenon DEF Journaled
<1>9. recorded \/ Journaled(p) => Journaled(p)'
  <2>1. recorded \/ Journaled(p) => \E i \in DOMAIN jrnl' : jrnl'[i].page = p
    BY <1>1, <1>2, GrownMain, Zenon
  <2>2. QED
    BY <2>1, Zenon DEF Journaled
<1>10. JournalKept'
  <2>1. ASSUME NEW i \in DOMAIN jrnl', jrnl'[i] # Header
        PROVE  jrnl'[i].page <= dbOrigSize /\ jrnl'[i].data = base[jrnl'[i].page]
    <3>1. CASE i \in DOMAIN jrnl
      BY <1>1, <1>6, <2>1, <3>1, Zenon DEF JournalKept
    <3>2. CASE i \notin DOMAIN jrnl
      BY <1>6, <1>7, <2>1, <3>2, Zenon
    <3>3. QED
      BY <3>1, <3>2
  <2>2. ASSUME NEW i \in DOMAIN jrnl', NEW j \in DOMAIN jrnl', i # j, jrnl'[i] # Header
        PROVE  jrnl'[i].page # jrnl'[j].page
    <3>1. CASE i \in DOMAIN jrnl /\ j \in DOMAIN jrnl
      <4>1. \A a, b \in DOMAIN jrnl : a # b /\ jrnl[a] # Header => jrnl[a].page # jrnl[b].page
        BY <1>1, Zenon DEF JournalKept
      <4>2. jrnl'[i] = jrnl[i] /\ jrnl'[j] = jrnl[j]
        BY <1>6, <3>1, Zenon
      <4>3. QED
        BY <2>2, <3>1, <4>1, <4>2, Zenon
    <3>2. CASE i \in DOMAIN jrnl /\ j \notin DOMAIN jrnl
      <4>1. jrnl'[i].page # 0
        <5>1. jrnl'[i] \in Record \cup {Header}
          BY <1>1, <1>6, <3>2, Shape, Zenon
        <5>2. jrnl'[i] \in Record
          BY <2>2, <5>1
        <5>3. QED
          BY <1>4, <5>2 DEF Record
      <4>2. jrnl'[j] = Header => jrnl'[j].page = 0
        BY DEF Header
      <4>4. jrnl'[j] = r /\ recorded => jrnl'[i].page # p
        BY <1>6, <1>7, <3>2, Zenon DEF Journaled
      <4>5. jrnl'[j] = Header \/ (recorded /\ jrnl'[j] = r)
        BY <1>6, <3>2, Zenon
      <4>6. QED
        BY <1>7, <4>1, <4>2, <4>4, <4>5, Zenon
    <3>3. CASE i \notin DOMAIN jrnl /\ j \in DOMAIN jrnl
      <4>1. recorded /\ jrnl'[i].page = p /\ ~Journaled(p)
        BY <1>6, <1>7, <2>2, <3>3, Zenon
      <4>2. QED
        BY <1>6, <3>3, <4>1, Zenon DEF Journaled
    <3>4. CASE i \notin DOMAIN jrnl /\ j \notin DOMAIN jrnl
      <4>1. recorded /\ i = Len(jrnl') /\ jrnl'[i].page = p
        BY <1>6, <1>7, <2>2, <3>4, Zenon
      <4>2. jrnl'[j] = Header
        BY <1>6, <2>2, <3>4, <4>1, Zenon
      <4>3. jrnl'[j].page = 0
        BY <4>2 DEF Header
      <4>4. QED
        BY <1>2, <1>4, <4>1, <4>3, Zenon
    <3>5. QED
      BY <3>1, <3>2, <3>3, <3>4
  <2>3. ASSUME NEW i \in DOMAIN jrnl', i > journalHdr + 1
        PROVE  jrnl'[i] # Header
    <3>1. i # 1
      BY <1>5, <2>3
    <3>2. i \in DOMAIN jrnl => jrnl[i] # Header
      BY <1>1, <2>3, Zenon DEF JournalKept
    <3>3. QED
      BY <1>6, <3>1, <3>2, Zenon
  <2>4. jrnl' # <<>> => journalHdr + 1 <= Len(jrnl') /\ journalHdr + 1 <= MaxJrnl
    <3>1. /\ jrnl # <<>> => journalHdr + 1 <= Len(jrnl) /\ journalHdr + 1 <= MaxJrnl
          /\ jrnl = <<>> => journalHdr = 0
      BY <1>1, Zenon DEF JournalKept
    <3>2. QED
      BY <1>5, <3>1
  <2>5. jrnl' # <<>>
    BY <1>5, EmptySeq
  <2>6. QED
    BY <1>2, <2>1, <2>2, <2>3, <2>4, <2>5, Zenon DEF JournalKept
<1>11. UnsyncedMarked'
  <2>1. ASSUME NEW i \in DOMAIN jrnl', i > journalHdr, jrnl'[i] # Header
        PROVE  jrnl'[i].page \in needSync'
    <3>1. needSync \subseteq needSync' /\ (recorded => p \in needSync')
      BY <1>3
    <3>2. i \in DOMAIN jrnl => jrnl[i].page \in needSync
      BY <1>1, <1>6, <2>1, Zenon DEF UnsyncedMarked
    <3>3. i \in DOMAIN jrnl \/ (recorded /\ jrnl'[i] = r)
      BY <1>6, <2>1, Zenon
    <3>4. QED
      BY <1>6, <1>7, <3>1, <3>2, <3>3, Zenon
  <2>2. QED
    BY <1>2, <2>1, Zenon DEF UnsyncedMarked
<1>12. SubKnown'
  <2>1. /\ \A i \in DOMAIN sub : sub'[i] = sub[i]
        /\ \A i \in DOMAIN sub' : i \in DOMAIN sub \/ (copied /\ sub'[i] = r)
    BY <1>2, Zenon DEF Copied, r
  <2>2. r.page = p
    BY DEF r
  <2>3. \A j \in DOMAIN sub : sub[j].page \in Page
    BY <1>1, Shape DEF Record
  <2>4. ASSUME NEW j \in DOMAIN sub'
        PROVE  /\ sub'[j].page <= dbOrigSize => \E i \in DOMAIN jrnl' : jrnl'[i].page = sub'[j].page
               /\ eState' = "cachemod" => sub'[j].page \in dirty'
    <3>1. CASE j \in DOMAIN sub
      <4>1. sub[j].page <= dbOrigSize => Journaled(sub[j].page)
        BY <1>1, <3>1, Zenon DEF SubKnown
      <4>2. eState = "cachemod" => sub[j].page \in dirty
        BY <1>1, <3>1, Zenon DEF SubKnown
      <4>3. eState # "locked"
        <5>1. DOMAIN <<>> = {}
          OBVIOUS
        <5>2. QED
          BY <1>1, <3>1, <5>1, Zenon DEF Control
      <4>4. PICK q : q = sub[j].page
        BY Zenon
      <4>5. q \in Page /\ sub'[j].page = q
        BY <2>1, <2>3, <3>1, <4>4, Zenon
      <4>6. q <= dbOrigSize => Journaled(q)'
        BY <1>8, <4>1, <4>4, <4>5, Zenon
      <4>7. eState' = "cachemod" => q \in dirty'
        BY <1>3, <4>2, <4>3, <4>4
      <4>8. QED
        BY <4>5, <4>6, <4>7, Zenon DEF Journaled
    <3>2. CASE j \notin DOMAIN sub
      <4>1. copied /\ sub'[j].page = p
        BY <2>1, <2>2, <3>2, Zenon
      <4>2. p <= dbOrigSize => Journaled(p)'
        BY <1>3, <1>9, <4>1, Zenon
      <4>3. p \in dirty'
        BY <1>3
      <4>4. QED
        BY <4>1, <4>2, <4>3, Zenon DEF Journaled
    <3>3. QED
      BY <3>1, <3>2
  <2>5. QED
    BY <1>2, <2>4, Zenon DEF SubKnown, Journaled
<1>13. WriteableKnown'
  <2>1. \A q \in writeable : q \in Page
    BY <1>1 DEF Typed
  <2>2. ASSUME NEW q \in writeable', q <= dbOrigSize
        PROVE  Journaled(q)'
    <3>1. q \in writeable => Journaled(q)'
      BY <1>1, <1>8, <2>1, <2>2, Zenon DEF WriteableKnown
    <3>2. q \notin writeable => q = p /\ writeable' # writeable
      BY <1>3
    <3>3. q \notin writeable => Journaled(q)'
      BY <1>3, <1>9, <2>2, <3>2, Zenon
    <3>4. QED
      BY <3>1, <3>3
  <2>3. eState' \notin {"reader", "locked"}
    BY <1>2
  <2>4. QED
    BY <1>2, <2>2, <2>3, Zenon DEF WriteableKnown, Journaled
<1>14. QED
  BY <1>10, <1>11, <1>12, <1>13, Zenon DEF Journals
\* Other pages read as before.
LEMMA TouchLooks ==
  ASSUME NEW p, NEW recorded, NEW copied, Touches(p, recorded, copied)
  PROVE  /\ \A q : q # p => (IF q \in DOMAIN cache' THEN cache'[q] ELSE db'[q]) = Look(q)
         /\ (IF p \in DOMAIN cache' THEN cache'[p] ELSE db'[p]) = cache'[p]
<1>1. /\ DOMAIN cache' = DOMAIN cache \cup {p} /\ db' = db
      /\ \A q \in DOMAIN cache \ {p} : cache'[q] = cache[q]
  BY Zenon DEF Touches
<1>2. \A q : q # p => (q \in DOMAIN cache' <=> q \in DOMAIN cache)
  BY <1>1
<1>3. p \in DOMAIN cache'
  BY <1>1
<1>4. ASSUME NEW q, q # p
      PROVE  (IF q \in DOMAIN cache' THEN cache'[q] ELSE db'[q]) = Look(q)
  <2>1. CASE q \in DOMAIN cache
    <3>1. cache'[q] = cache[q]
      BY <1>1, <1>4, <2>1
    <3>2. QED
      BY <1>2, <1>4, <2>1, <3>1, Zenon DEF Look
  <2>2. CASE q \notin DOMAIN cache
    BY <1>1, <1>2, <1>4, <2>2, Zenon DEF Look
  <2>3. QED
    BY <2>1, <2>2
<1>5. QED
  BY <1>3, <1>4, Zenon

LEMMA TouchPages ==
  ASSUME IInv, NEW p, NEW recorded \in BOOLEAN, NEW copied \in BOOLEAN, Touches(p, recorded, copied)
  PROVE  Pages'
<1>1. Typed /\ JournalKept /\ FileKept /\ Untouched /\ Clean
  BY Zenon DEF IInv, Journals, Pages
<1>2. /\ p \in Page /\ db' = db /\ dbOrigSize' = dbOrigSize /\ journalHdr' = journalHdr /\ base' = base
      /\ Grown(jrnl', p, recorded)
      /\ \A q \in Page : q # p /\ q <= dbSize' => q <= dbSize
  BY TouchFacts, Zenon
<1>3. /\ DOMAIN cache \subseteq Page /\ Len(jrnl) \in Nat /\ DOMAIN jrnl = 1..Len(jrnl)
      /\ dbOrigSize \in Nat /\ dbOrigSize <= N /\ N \in Nat /\ journalHdr \in Nat
      /\ (jrnl = <<>> <=> Len(jrnl) = 0)
  BY <1>1, Shape, SMTT(30) DEF Typed
<1>4. \A i \in DOMAIN jrnl : i \in DOMAIN jrnl' /\ jrnl'[i] = jrnl[i]
  BY <1>2, Zenon DEF Grown
<1>5. \A q \in 1..dbOrigSize : q \in Page
  BY <1>3 DEF Page
<1>6. FileKept'
  <2>1. \A i \in 1..journalHdr : i \in DOMAIN jrnl
    BY <1>1, <1>3 DEF JournalKept
  <2>2. ASSUME NEW q \in 1..dbOrigSize
        PROVE  db[q] = base[q] \/ \E i \in 1..journalHdr : jrnl'[i].page = q
    BY <1>1, <1>4, <2>1, Zenon DEF FileKept
  <2>3. QED
    BY <1>2, <2>2, Zenon DEF FileKept
<1>7. Untouched'
  <2>1. ASSUME NEW q \in 1..dbOrigSize, ~(\E i \in DOMAIN jrnl' : jrnl'[i].page = q)
        PROVE  (IF q \in DOMAIN cache' THEN cache'[q] ELSE db'[q]) = base[q]
    <3>1. ~Journaled(q)
      BY <1>4, <2>1, Zenon DEF Journaled
    <3>2. Look(q) = base[q]
      BY <1>1, <3>1, Zenon DEF Untouched
    <3>3. CASE q # p
      BY <3>2, <3>3, TouchLooks, Zenon
    <3>4. CASE q = p
      <4>1. p <= dbOrigSize
        BY <3>4
      <4>2. recorded => Journaled(p)'
        <5>1. recorded \/ Journaled(p) => \E i \in DOMAIN jrnl' : jrnl'[i].page = p
          BY <1>1, <1>2, GrownMain, Zenon
        <5>2. QED
          BY <5>1, Zenon DEF Journaled
      <4>3. ~recorded
        BY <2>1, <3>4, <4>2, Zenon DEF Journaled
      <4>4. cache'[p] = Look(p)
        <5>1. \/ p <= dbOrigSize => Journaled(p) \/ recorded
              \/ writeable' = writeable /\ cache'[p] = Look(p) /\ ~copied
          BY Zenon DEF Touches
        <5>2. QED
          BY <3>1, <3>4, <4>1, <4>3, <5>1, Zenon
      <4>5. QED
        BY <3>2, <3>4, <4>4, TouchLooks, Zenon
    <3>5. QED
      BY <3>3, <3>4
  <2>2. QED
    BY <1>2, <2>1, Zenon DEF Untouched, Journaled, Look
<1>8. Clean'
  <2>1. /\ DOMAIN cache' = DOMAIN cache \cup {p} /\ dirty' = dirty \cup {p}
        /\ \A q \in DOMAIN cache \ {p} : cache'[q] = cache[q]
    BY Zenon DEF Touches
  <2>2. ASSUME NEW q \in DOMAIN cache' \ dirty', q <= dbSize'
        PROVE  cache'[q] = db[q]
    <3>1. q \in DOMAIN cache \ dirty /\ q # p /\ q \in DOMAIN cache \ {p}
      BY <2>1
    <3>2. q <= dbSize
      BY <1>2, <1>3, <2>2, <3>1
    <3>3. QED
      BY <1>1, <2>1, <3>1, <3>2, Zenon DEF Clean
  <2>3. QED
    BY <1>2, <2>2, Zenon DEF Clean
<1>9. QED
  BY <1>6, <1>7, <1>8, Zenon DEF Pages

LEMMA TouchSlots ==
  ASSUME IInv, NEW p, NEW recorded \in BOOLEAN, NEW copied \in BOOLEAN, Touches(p, recorded, copied)
  PROVE  Slots'
<1>1. Typed /\ SlotsFit /\ FirstStretch /\ JournalKept
  BY Zenon DEF IInv, Journals, Slots
<1>2. /\ p \in Page /\ dbOrigSize' = dbOrigSize /\ play' = NoPlay
      /\ Grown(jrnl', p, recorded) /\ Copied(sub', p, copied) /\ Marks(sps', p, recorded \/ copied)
      /\ dbSize \in Nat /\ dbSize' \in Nat /\ dbSize <= dbSize'
  BY TouchFacts, Zenon
<1>3. /\ Len(jrnl) \in Nat /\ Len(sub) \in Nat /\ DOMAIN jrnl = 1..Len(jrnl) /\ dbOrigSize \in Nat
      /\ \A i \in DOMAIN sps : sps[i] \in Slot
      /\ Len(sps) \in Nat
  BY <1>1, Shape
<1>4. \A i \in DOMAIN sps : /\ sps[i].nOrig \in Nat /\ sps[i].iOffset \in Nat
                            /\ sps[i].iHdrOffset \in Nat /\ sps[i].iSubRec \in Nat
  BY <1>3 DEF Slot
<1>5. /\ Len(jrnl') \in Nat /\ Len(jrnl) <= Len(jrnl') /\ DOMAIN jrnl' = 1..Len(jrnl')
      /\ \A i \in DOMAIN jrnl : i \in DOMAIN jrnl' /\ jrnl'[i] = jrnl[i]
      /\ \A i \in DOMAIN jrnl' : \/ i \in DOMAIN jrnl
                                 \/ i = 1 /\ jrnl'[i] = Header /\ jrnl = <<>>
                                 \/ recorded /\ i = Len(jrnl') /\ jrnl'[i] = [page |-> p, data |-> Look(p)]
  BY <1>2, Zenon DEF Grown
<1>6. Len(sub') \in Nat /\ Len(sub) <= Len(sub')
  <2>1. Len(sub') \in Nat /\ Len(sub') = IF copied THEN Len(sub) + 1 ELSE Len(sub)
    BY <1>2, Zenon DEF Copied
  <2>2. QED
    BY <1>3, <2>1
<1>7. /\ DOMAIN sps' = DOMAIN sps /\ Len(sps') = Len(sps)
      /\ \A i \in DOMAIN sps :
           /\ sps'[i].nOrig = sps[i].nOrig /\ sps'[i].iOffset = sps[i].iOffset
           /\ sps'[i].iHdrOffset = sps[i].iHdrOffset /\ sps'[i].iSubRec = sps[i].iSubRec
  BY <1>2, Zenon DEF Marks
<1>8. SlotsFit'
  <2>1. ASSUME NEW i \in DOMAIN sps
        PROVE  /\ dbOrigSize <= sps[i].nOrig /\ sps[i].nOrig <= dbSize'
               /\ 1 <= sps[i].iOffset /\ (sps[i].iOffset = 1 \/ sps[i].iOffset <= Len(jrnl'))
               /\ sps[i].iHdrOffset = 0 \/ sps[i].iHdrOffset < Len(jrnl')
               /\ sps[i].iSubRec <= Len(sub')
    <3>1. /\ dbOrigSize <= sps[i].nOrig /\ sps[i].nOrig <= dbSize
          /\ 1 <= sps[i].iOffset /\ (sps[i].iOffset = 1 \/ sps[i].iOffset <= Len(jrnl))
          /\ sps[i].iHdrOffset = 0 \/ sps[i].iHdrOffset < Len(jrnl)
          /\ sps[i].iSubRec <= Len(sub)
      BY <1>1, Zenon DEF SlotsFit, SlotFits
    <3>2. Len(jrnl) <= Len(jrnl') /\ Len(jrnl') \in Nat
      BY <1>5, Zenon
    <3>3. QED
      BY <1>2, <1>3, <1>4, <1>6, <3>1, <3>2, SMTT(30)
  <2>2. \A i, j \in DOMAIN sps : i < j => Before(sps[i], sps[j])
    BY <1>1, Zenon DEF SlotsFit
  <2>3. \A i, j \in DOMAIN sps : i < j => Before(sps'[i], sps'[j])
    BY <1>7, <2>2, Zenon DEF Before
  <2>4. \A i \in DOMAIN sps' :
               /\ dbOrigSize' <= sps'[i].nOrig /\ sps'[i].nOrig <= dbSize'
               /\ 1 <= sps'[i].iOffset /\ (sps'[i].iOffset = 1 \/ sps'[i].iOffset <= Len(jrnl'))
               /\ sps'[i].iHdrOffset = 0 \/ sps'[i].iHdrOffset < Len(jrnl')
               /\ sps'[i].iSubRec <= Len(sub')
    BY <1>2, <1>7, <2>1, Zenon
  <2>5. QED
    BY <1>7, <2>3, <2>4, Zenon DEF SlotsFit, SlotFits
<1>9. FirstStretch'
  <2>1. [page |-> p, data |-> Look(p)] # Header
    BY <1>2, BoundsAssumption DEF Header, Page
  <2>2. \A i \in DOMAIN jrnl' : i \in DOMAIN jrnl \/ i = 1 \/ jrnl'[i] # Header
    BY <1>5, <2>1, Zenon
  <2>3. ASSUME NEW i \in DOMAIN sps, NEW end,
               end = IF sps[i].iHdrOffset = 0 THEN Len(jrnl') ELSE sps[i].iHdrOffset
        PROVE  /\ \A j \in sps[i].iOffset..(end - 1) : jrnl'[j + 1] # Header
               /\ sps[i].iHdrOffset # 0 => jrnl'[end + 1] = Header
    <3> DEFINE e == IF sps[i].iHdrOffset = 0 THEN Len(jrnl) ELSE sps[i].iHdrOffset
    <3>1. /\ \A j \in sps[i].iOffset..(e - 1) : jrnl[j + 1] # Header
          /\ sps[i].iHdrOffset # 0 => jrnl[e + 1] = Header
      BY <1>1, Zenon DEF FirstStretch
    <3>2. /\ 1 <= sps[i].iOffset
          /\ sps[i].iHdrOffset = 0 \/ sps[i].iHdrOffset < Len(jrnl)
      BY <1>1, Zenon DEF SlotsFit, SlotFits
    <3>3. Len(jrnl) <= Len(jrnl') /\ Len(jrnl') \in Nat /\ DOMAIN jrnl' = 1..Len(jrnl')
      BY <1>5, Zenon
    <3>4. ASSUME NEW j \in sps[i].iOffset..(end - 1)
          PROVE  jrnl'[j + 1] # Header
      <4>1. j \in Int /\ j + 1 \in DOMAIN jrnl' /\ j + 1 # 1
        BY <1>3, <1>4, <2>3, <3>2, <3>3, <3>4
      <4>2. j + 1 \in DOMAIN jrnl => j \in sps[i].iOffset..(e - 1)
        BY <1>3, <1>4, <2>3, <3>2, <3>4
      <4>3. j + 1 \in DOMAIN jrnl => jrnl[j + 1] # Header
        BY <3>1, <4>2, Zenon
      <4>4. QED
        BY <1>5, <2>2, <4>1, <4>3, Zenon
    <3>5. sps[i].iHdrOffset # 0 => jrnl'[end + 1] = Header
      <4>1. sps[i].iHdrOffset # 0 => end = e /\ e + 1 \in DOMAIN jrnl
        BY <1>3, <1>4, <2>3, <3>2
      <4>2. QED
        BY <1>5, <3>1, <4>1, Zenon
    <3>6. QED
      BY <3>4, <3>5, Zenon
  <2>4. ASSUME NEW i \in DOMAIN sps'
        PROVE  LET s == sps'[i]
                   end == IF s.iHdrOffset = 0 THEN Len(jrnl') ELSE s.iHdrOffset
               IN /\ \A j \in s.iOffset..(end - 1) : jrnl'[j + 1] # Header
                  /\ s.iHdrOffset # 0 => jrnl'[end + 1] = Header
    <3>1. PICK end : end = IF sps[i].iHdrOffset = 0 THEN Len(jrnl') ELSE sps[i].iHdrOffset
      BY Zenon
    <3>2. i \in DOMAIN sps /\ sps'[i].iOffset = sps[i].iOffset /\ sps'[i].iHdrOffset = sps[i].iHdrOffset
      BY <1>7, Zenon
    <3>3. /\ \A j \in sps[i].iOffset..(end - 1) : jrnl'[j + 1] # Header
          /\ sps[i].iHdrOffset # 0 => jrnl'[end + 1] = Header
      BY <2>3, <3>1, <3>2, Zenon
    <3>4. end = IF sps'[i].iHdrOffset = 0 THEN Len(jrnl') ELSE sps'[i].iHdrOffset
      BY <3>1, <3>2, Zenon
    <3>5. /\ \A j \in sps'[i].iOffset..(end - 1) : jrnl'[j + 1] # Header
          /\ sps'[i].iHdrOffset # 0 => jrnl'[end + 1] = Header
      BY <3>2, <3>3, Zenon
    <3>6. QED
      BY <3>4, <3>5, Zenon
  <2>5. QED
    BY <2>4, Zenon DEF FirstStretch
<1>10. PlayFits'
  <2>1. play'.k = -1 /\ play'.at = 0 /\ play'.sub = 0
    BY <1>2, Zenon DEF NoPlay
  <2>2. Len(sps') \in Nat
    BY <1>3, <1>7, Zenon
  <2>3. QED
    BY <1>6, <2>1, <2>2 DEF PlayFits
<1>11. QED
  BY <1>8, <1>9, <1>10, Zenon DEF Slots
\* What the savepoints find in the sub-journal then.
LEMMA CopiedSub ==
  ASSUME Typed, NEW p \in Page, NEW copied \in BOOLEAN, NEW s, Copied(s, p, copied)
  PROVE  /\ \A o, q : q # p \/ ~copied => (InSub(s, o, q) <=> InSub(sub, o, q))
         /\ \A o, q : \A i \in DOMAIN s :
              (q # p \/ ~copied \/ InSub(sub, o, q)) /\ FirstInSub(s, o, q, i) =>
                i \in DOMAIN sub /\ FirstInSub(sub, o, q, i) /\ s[i] = sub[i]
         /\ \A o \in Nat : copied /\ o <= Len(sub) => InSub(s, o, p)
         /\ \A o : \A i \in DOMAIN s :
              ~InSub(sub, o, p) /\ FirstInSub(s, o, p, i) => s[i].data = Look(p)
<1> DEFINE r == [page |-> p, data |-> Look(p)]
<1>1. /\ Len(s) \in Nat /\ DOMAIN s = 1..Len(s)
      /\ Len(s) = IF copied THEN Len(sub) + 1 ELSE Len(sub)
      /\ \A i \in DOMAIN sub : i \in DOMAIN s /\ s[i] = sub[i]
      /\ \A i \in DOMAIN s : i \in DOMAIN sub \/ (copied /\ i = Len(s) /\ s[i] = r)
      /\ copied => s[Len(s)] = r
  BY Zenon DEF Copied
<1>2. Len(sub) \in Nat /\ DOMAIN sub = 1..Len(sub)
  BY Shape
<1>3. r.page = p /\ r.data = Look(p)
  OBVIOUS
<1> HIDE DEF r
<1>4. \A i \in DOMAIN s : i \in DOMAIN sub \/ (copied /\ i = Len(s) /\ s[i].page = p /\ s[i].data = Look(p))
  BY <1>1, <1>3, Zenon
<1>5. \A o, q : q # p \/ ~copied => (InSub(s, o, q) <=> InSub(sub, o, q))
  <2>1. \A o, q : InSub(sub, o, q) => InSub(s, o, q)
    BY <1>1, Zenon DEF InSub
  <2>2. \A o, q : (q # p \/ ~copied) /\ InSub(s, o, q) => InSub(sub, o, q)
    BY <1>1, <1>4, Zenon DEF InSub
  <2>3. QED
    BY <2>1, <2>2, Zenon
<1>6. ASSUME NEW o, NEW q, NEW i \in DOMAIN s, q # p \/ ~copied \/ InSub(sub, o, q), FirstInSub(s, o, q, i)
      PROVE  i \in DOMAIN sub /\ FirstInSub(sub, o, q, i) /\ s[i] = sub[i]
  <2>1. i > o /\ s[i].page = q /\ \A h \in DOMAIN s : o < h /\ h < i => s[h].page # q
    BY <1>6, Zenon DEF FirstInSub
  <2>2. ASSUME i \notin DOMAIN sub
        PROVE  FALSE
    <3>1. copied /\ i = Len(s) /\ q = p
      BY <1>4, <2>1, <2>2, Zenon
    <3>2. PICK h \in DOMAIN sub : h > o /\ sub[h].page = q
      BY <1>6, <3>1, Zenon DEF InSub
    <3>3. h < i /\ o < h
      BY <1>1, <1>2, <3>1, <3>2
    <3>4. QED
      BY <1>1, <2>1, <3>2, <3>3, Zenon
  <2>3. i \in DOMAIN sub /\ s[i] = sub[i]
    BY <1>1, <2>2, Zenon
  <2>4. QED
    BY <1>1, <2>1, <2>3, Zenon DEF FirstInSub
<1>7. ASSUME NEW o \in Nat, copied, o <= Len(sub)
      PROVE  InSub(s, o, p)
  <2>1. Len(s) \in DOMAIN s /\ Len(s) > o
    BY <1>1, <1>2, <1>7
  <2>2. s[Len(s)].page = p
    BY <1>1, <1>3, <1>7, Zenon
  <2>3. QED
    BY <2>1, <2>2, Zenon DEF InSub
<1>8. ASSUME NEW o, NEW i \in DOMAIN s, ~InSub(sub, o, p), FirstInSub(s, o, p, i)
      PROVE  s[i].data = Look(p)
  BY <1>1, <1>4, <1>8, Zenon DEF InSub, FirstInSub
<1>9. QED
  BY <1>5, <1>6, <1>7, <1>8, Zenon

\* A savepoint can still be rolled back to, with the record or the copy that it needs.
LEMMA TouchedSlot ==
  ASSUME IInv, NEW p, NEW recorded \in BOOLEAN, NEW copied \in BOOLEAN, Touches(p, recorded, copied),
         recorded \/ copied \/ \A i \in DOMAIN sps : p <= sps[i].nOrig => p \in sps[i].inSavepoint,
         NEW i \in DOMAIN sps, NEW q \in 1..sps[i].nOrig, NEW c, q # p => c = Look(q)
  PROVE  /\ Restores(jrnl', sub', sps[i].iOffset, sps[i].iSubRec, q, base[q], c, saved[i][q])
         /\ q \in sps'[i].inSavepoint <=>
              InMain(jrnl', sps[i].iOffset, q) \/ InSub(sub', sps[i].iSubRec, q)
<1> DEFINE a == sps[i].iOffset
           o == sps[i].iSubRec
           x == saved[i][q]
<1>1. Typed /\ SubKnown /\ Untouched /\ SlotsFit /\ SavedKept /\ Control
  BY Zenon DEF IInv, Journals, Pages, Slots, Values
<1>2. /\ p \in Page /\ stmt \in {"plain", "journal"}
      /\ Grown(jrnl', p, recorded) /\ Copied(sub', p, copied) /\ Marks(sps', p, recorded \/ copied)
  BY TouchFacts, Zenon
<1>3. /\ sps[i] \in Slot /\ Len(jrnl) \in Nat /\ Len(sub) \in Nat /\ dbSize \in Nat /\ dbSize <= N
      /\ N \in Nat /\ dbOrigSize \in Nat
  BY <1>1, Shape
<1>4. a \in Nat /\ o \in Nat /\ sps[i].nOrig \in Nat
  BY <1>3 DEF Slot
<1>5. sps[i].nOrig <= dbSize /\ (a = 1 \/ a <= Len(jrnl)) /\ o <= Len(sub)
  BY <1>1, Zenon DEF SlotsFit, SlotFits
<1>6. q \in Page /\ q <= sps[i].nOrig
  BY <1>3, <1>4, <1>5 DEF Page
<1>7. SlotKept(sps[i], saved[i])
  <2>1. stmt # "abort"
    BY <1>2
  <2>2. QED
    BY <1>1, <2>1, Zenon DEF SavedKept
<1>8. /\ Restores(jrnl, sub, a, o, q, base[q], Look(q), x)
      /\ q \in sps[i].inSavepoint <=> InMain(jrnl, a, q) \/ InSub(sub, o, q)
  BY <1>7, Zenon DEF SlotKept
<1>9. /\ InMain(jrnl, a, q) => x = base[q]
      /\ ~InMain(jrnl, a, q) => \A h \in DOMAIN sub : FirstInSub(sub, o, q, h) => sub[h].data = x
      /\ ~InMain(jrnl, a, q) /\ ~InSub(sub, o, q) => Look(q) = x
  BY <1>8, Zenon DEF Restores
<1>10. sps'[i].inSavepoint = IF (recorded \/ copied) /\ p <= sps[i].nOrig THEN sps[i].inSavepoint \cup {p}
                             ELSE sps[i].inSavepoint
  BY <1>2, Zenon DEF Marks
<1>11. recorded => p <= dbOrigSize /\ ~Journaled(p) /\ ~copied
  BY Zenon DEF Touches, NeedsRecord
<1>12. /\ \A u, v : \A h \in DOMAIN sub' :
            (v # p \/ ~copied \/ InSub(sub, u, v)) /\ FirstInSub(sub', u, v, h) =>
              h \in DOMAIN sub /\ FirstInSub(sub, u, v, h) /\ sub'[h] = sub[h]
       /\ \A u : \A h \in DOMAIN sub' :
            ~InSub(sub, u, p) /\ FirstInSub(sub', u, p, h) => sub'[h].data = Look(p)
  BY <1>1, <1>2, CopiedSub, ZenonT(60)
<1> HIDE DEF a, o, x
<1>13. CASE q = p /\ recorded
  <2>1. ~InMain(jrnl, a, q)
    BY <1>11, <1>13, Zenon DEF InMain, Journaled
  <2>2. ~InSub(sub, o, q)
    BY <1>1, <1>11, <1>13, Zenon DEF InSub, SubKnown
  <2>3. p \in 1..dbOrigSize
    BY <1>2, <1>3, <1>11, <1>13 DEF Page
  <2>4. x = base[q]
    BY <1>1, <1>9, <1>11, <1>13, <2>1, <2>2, <2>3, Zenon DEF Untouched
  <2>5. a < Len(jrnl')
    <3>1. Len(jrnl') \in Nat /\ Len(jrnl') > 1 /\ Len(jrnl') > Len(jrnl)
      BY <1>2, <1>13, Zenon DEF Grown
    <3>2. QED
      BY <1>3, <1>4, <1>5, <3>1
  <2>6. InMain(jrnl', a, q)
    BY <1>1, <1>2, <1>13, <2>5, GrownMain, Zenon
  <2>7. q \in sps'[i].inSavepoint
    BY <1>6, <1>10, <1>13
  <2>8. QED
    BY <2>4, <2>6, <2>7, Zenon DEF Restores, a, o, x
<1>14. ASSUME q # p \/ ~recorded
       PROVE  InMain(jrnl', a, q) <=> InMain(jrnl, a, q)
  BY <1>1, <1>2, <1>6, <1>14, GrownMain, ZenonT(60)
<1>15. CASE q = p /\ ~recorded
  <2>1. InMain(jrnl', a, q) <=> InMain(jrnl, a, q)
    BY <1>14, <1>15
  <2>2. copied => InSub(sub', o, q)
    BY <1>1, <1>2, <1>4, <1>5, <1>15, CopiedSub, Zenon
  <2>3. ~copied => (InSub(sub', o, q) <=> InSub(sub, o, q))
    BY <1>1, <1>2, CopiedSub, ZenonT(60)
  <2>4. ~copied => InMain(jrnl, a, q) \/ InSub(sub, o, q)
    BY <1>6, <1>8, <1>15, Zenon
  <2>5. InMain(jrnl', a, q) \/ InSub(sub', o, q)
    BY <2>1, <2>2, <2>3, <2>4, Zenon
  <2>6. ASSUME ~InMain(jrnl, a, q), NEW h \in DOMAIN sub', FirstInSub(sub', o, q, h)
        PROVE  sub'[h].data = x
    <3>1. CASE InSub(sub, o, q)
      <4>1. h \in DOMAIN sub /\ FirstInSub(sub, o, q, h) /\ sub'[h] = sub[h]
        BY <1>12, <2>6, <3>1, Zenon
      <4>2. QED
        BY <1>9, <2>6, <4>1, Zenon
    <3>2. CASE ~InSub(sub, o, q)
      <4>1. sub'[h].data = Look(q)
        BY <1>15, <1>12, <2>6, <3>2, Zenon
      <4>2. QED
        BY <1>9, <2>6, <3>2, <4>1, Zenon
    <3>3. QED
      BY <3>1, <3>2
  <2>7. q \in sps'[i].inSavepoint
    <3>1. copied => q \in sps'[i].inSavepoint
      BY <1>6, <1>10, <1>15
    <3>2. ~copied => q \in sps[i].inSavepoint /\ sps'[i].inSavepoint = sps[i].inSavepoint
      BY <1>6, <1>10, <1>15, Zenon
    <3>3. QED
      BY <3>1, <3>2
  <2>8. QED
    BY <1>9, <2>1, <2>5, <2>6, <2>7, Zenon DEF Restores, a, o, x
<1>16. CASE q # p
  <2>1. InMain(jrnl', a, q) <=> InMain(jrnl, a, q)
    BY <1>14, <1>16
  <2>2. InSub(sub', o, q) <=> InSub(sub, o, q)
    BY <1>1, <1>2, <1>16, CopiedSub, Zenon
  <2>3. ASSUME ~InMain(jrnl, a, q), NEW h \in DOMAIN sub', FirstInSub(sub', o, q, h)
        PROVE  sub'[h].data = x
    <3>1. h \in DOMAIN sub /\ FirstInSub(sub, o, q, h) /\ sub'[h] = sub[h]
      BY <1>16, <1>12, <2>3, Zenon
    <3>2. QED
      BY <1>9, <2>3, <3>1, Zenon
  <2>4. q \in sps'[i].inSavepoint <=> q \in sps[i].inSavepoint
    BY <1>10, <1>16
  <2>5. c = Look(q)
    BY <1>16
  <2>6. /\ InMain(jrnl', a, q) => x = base[q]
        /\ ~InMain(jrnl', a, q) => \A h \in DOMAIN sub' : FirstInSub(sub', o, q, h) => sub'[h].data = x
        /\ ~InMain(jrnl', a, q) /\ ~InSub(sub', o, q) => c = x
        /\ q \in sps'[i].inSavepoint <=> InMain(jrnl', a, q) \/ InSub(sub', o, q)
    BY <1>8, <1>9, <2>1, <2>2, <2>3, <2>4, <2>5, Zenon
  <2>7. QED
    BY <2>6, Zenon DEF Restores, a, o, x
<1>17. QED
  BY <1>13, <1>15, <1>16
LEMMA PagerWrites ==
  ASSUME IInv, NEW p \in Page, NEW recorded \in BOOLEAN, Writing, pager_write(p, recorded),
         recorded => NeedsRecord(p)
  PROVE  /\ Grown(jrnl', p, recorded)
         /\ eState' = IF eState = "locked" THEN "cachemod" ELSE eState
         /\ dirty' = dirty \cup {p}
         /\ needSync' \in {needSync, needSync \cup {p}} /\ (recorded => needSync' = needSync \cup {p})
         /\ ~NeedsRecord(p) => (p <= dbOrigSize => Journaled(p))
<1>1. Typed /\ Control /\ WriteableKnown
  BY Zenon DEF IInv, Journals
<1>2. stmt \in {"plain", "journal"}
  BY Zenon DEF Writing
<1>3. /\ jrnl' = (IF Ready(p) THEN jrnl
                  ELSE IF recorded THEN Append(Opened, [page |-> p, data |-> Look(p)]) ELSE Opened)
      /\ eState' = (IF eState = "locked" THEN "cachemod" ELSE eState)
      /\ dirty' = dirty \cup {p}
      /\ needSync' = IF NeedsRecord(p) \/ (~Ready(p) /\ p > dbOrigSize /\ eState # "dbmod")
                       THEN needSync \cup {p} ELSE needSync
  BY Zenon DEF pager_write
<1>4. eState \in {"locked", "cachemod", "dbmod"}
  BY <1>1, <1>2 DEF Control
<1>5. Ready(p) => p \in writeable
  BY Zenon DEF Ready
<1>6. Ready(p) => jrnl = Opened
  <2>1. writeable \subseteq dirty
    BY <1>1, Zenon DEF Typed
  <2>2. eState = "locked" => dirty = {}
    BY <1>1 DEF WriteableKnown
  <2>3. Ready(p) => eState # "locked"
    BY <1>5, <2>1, <2>2
  <2>4. QED
    BY <2>3, Zenon DEF Opened
<1>7. recorded => ~Ready(p)
  BY Zenon DEF NeedsRecord
<1>8. Grown(jrnl', p, recorded)
  <2>1. CASE recorded
    <3>1. jrnl' = Append(Opened, [page |-> p, data |-> Look(p)])
      BY <1>3, <1>7, <2>1, Zenon
    <3>2. Grown(jrnl', p, TRUE)
      BY <1>1, <1>4, <3>1, RecordGrown, Zenon
    <3>3. QED
      BY <2>1, <3>2
  <2>2. CASE ~recorded
    <3>1. jrnl' = Opened
      BY <1>3, <1>6, <2>2, Zenon
    <3>2. Grown(Opened, p, FALSE)
      BY <1>1, <1>4, OpenedGrown, Zenon
    <3>3. Grown(jrnl', p, FALSE)
      BY <3>1, <3>2, Zenon
    <3>4. QED
      BY <2>2, <3>3
  <2>3. QED
    BY <2>1, <2>2
<1>9. ~NeedsRecord(p) => (p <= dbOrigSize => Journaled(p))
  BY <1>1, <1>5, Zenon DEF NeedsRecord, WriteableKnown
<1>10. needSync' \in {needSync, needSync \cup {p}} /\ (recorded => needSync' = needSync \cup {p})
  <2>1. recorded => NeedsRecord(p)
    OBVIOUS
  <2>2. needSync' = needSync \/ needSync' = needSync \cup {p}
    BY <1>3, Zenon
  <2>3. recorded => needSync' = needSync \cup {p}
    BY <1>3, <2>1, Zenon
  <2>4. QED
    BY <2>2, <2>3, Zenon
<1>11. QED
  BY <1>3, <1>8, <1>9, <1>10, Zenon

\* A page in the cache, with other content or the same.
LEMMA PutFacts ==
  ASSUME Typed, NEW p \in Page, NEW x \in Content, cache' = Put(cache, p, x)
  PROVE  /\ DOMAIN cache' = DOMAIN cache \cup {p} /\ cache' \in [DOMAIN cache' -> Content]
         /\ \A q \in DOMAIN cache \ {p} : cache'[q] = cache[q]
         /\ cache'[p] = x
<1>1. cache \in [DOMAIN cache -> Content]
  BY Zenon DEF Typed
<1>2. cache' = [q \in DOMAIN cache \cup {p} |-> IF q = p THEN x ELSE cache[q]]
  BY Zenon DEF Put
<1>3. \A q \in DOMAIN cache \cup {p} : (IF q = p THEN x ELSE cache[q]) \in Content
  BY <1>1
<1>4. QED
  BY <1>2, <1>3

LEMMA WriteKeeps ==
  ASSUME IInv, NEW p \in Page, Write(p)
  PROVE  IInv'
<1> DEFINE recorded == NeedsRecord(p)
           copied == ~NeedsRecord(p) /\ subjRequiresPage(sps, p)
<1>1. Typed /\ Control /\ SavedKept /\ ContentAsWritten
  BY Zenon DEF IInv, Values
<1>2. /\ Writing /\ p <= dbSize + 1 /\ writes < MaxWrite
      /\ pager_write(p, recorded) /\ subjournalPageIfRequired(p)
      /\ writeable' = writeable \cup {p}
      /\ dbSize' = (IF Ready(p) THEN dbSize ELSE Max({dbSize, p}))
      /\ writes' = writes + 1
      /\ cache' = Put(cache, p, writes')
      /\ want' = [q \in 1..Max({Len(want), p}) |-> IF q = p THEN writes' ELSE want[q]]
  BY Zenon DEF Write
<1>3. UNCHANGED <<db, dbOrigSize, journalHdr, nSavepoint, stmt, play, base, saved>>
  BY Zenon DEF Write
<1>4. /\ dbSize \in Nat /\ p \in Nat /\ p >= 1 /\ N \in Nat /\ p <= N /\ writes \in Nat /\ MaxWrite \in Nat
      /\ want \in Seq(Val) /\ Len(want) = dbSize /\ Len(sps) \in Nat /\ DOMAIN sps = 1..Len(sps)
      /\ \A i \in DOMAIN sps : sps[i] \in Slot
  BY <1>1, Shape DEF Page, Typed
<1>5. Max({dbSize, p}) = IF p <= dbSize THEN dbSize ELSE p
  BY <1>4, MaxOf
<1>6. dbSize' = (IF p <= dbSize THEN dbSize ELSE p) /\ dbSize' \in Nat /\ p <= dbSize' /\ dbSize <= dbSize'
  <2>1. Ready(p) => p <= dbSize
    BY <1>4 DEF Ready
  <2>2. dbSize' = IF p <= dbSize THEN dbSize ELSE p
    BY <1>2, <1>5, <2>1, Zenon
  <2>3. QED
    BY <1>4, <2>2
<1>7. writes' \in Val /\ writes' \in Content
  BY <1>2, <1>4 DEF Val, Content
<1>8. /\ want' \in Seq(Val) /\ Len(want') = dbSize'
      /\ \A q \in 1..dbSize' : want'[q] = IF q = p THEN writes' ELSE want[q]
  <2>1. Max({Len(want), p}) = dbSize'
    BY <1>4, <1>5, <1>6, Zenon
  <2>2. want' = [q \in 1..dbSize' |-> IF q = p THEN writes' ELSE want[q]]
    BY <1>2, <2>1, Zenon
  <2>3. \A q \in 1..dbSize' : q # p => q \in 1..Len(want)
    BY <1>2, <1>4, <1>6
  <2>4. \A q \in 1..dbSize' : (IF q = p THEN writes' ELSE want[q]) \in Val
    BY <1>4, <1>7, <2>3, ElementOfSeq
  <2>5. want' \in [1..dbSize' -> Val] /\ DOMAIN want' = 1..dbSize'
        /\ \A q \in 1..dbSize' : want'[q] = IF q = p THEN writes' ELSE want[q]
    BY <2>2, <2>4, Zenon
  <2>6. want' \in Seq(Val)
    BY <1>6, <2>5, SeqDef
  <2>7. Len(want') \in Nat /\ DOMAIN want' = 1..Len(want')
    BY <2>6, LenProperties
  <2>8. Len(want') = dbSize'
    BY <1>6, <2>5, <2>7
  <2>9. QED
    BY <2>5, <2>6, <2>8, Zenon
<1>9. /\ DOMAIN cache' = DOMAIN cache \cup {p} /\ cache' \in [DOMAIN cache' -> Content]
      /\ \A q \in DOMAIN cache \ {p} : cache'[q] = cache[q]
      /\ cache'[p] = writes'
  BY <1>1, <1>2, <1>7, PutFacts
<1>10. recorded \in BOOLEAN /\ copied \in BOOLEAN
  BY Zenon DEF NeedsRecord, subjRequiresPage
<1>11. /\ Grown(jrnl', p, recorded)
       /\ eState' = IF eState = "locked" THEN "cachemod" ELSE eState
       /\ dirty' = dirty \cup {p}
       /\ needSync' \in {needSync, needSync \cup {p}} /\ (recorded => needSync' = needSync \cup {p})
       /\ ~NeedsRecord(p) => (p <= dbOrigSize => Journaled(p))
  BY <1>2, <1>10, PagerWrites, Zenon
<1>12. Copied(sub', p, copied) /\ Marks(sps', p, recorded \/ copied)
  <2>1. CASE recorded
    <3>1. Marked(p) = addToSavepointBitvecs(sps, p)
      BY <2>1, Zenon DEF Marked
    <3>2. PICK t : t = addToSavepointBitvecs(sps, p)
      BY Zenon
    <3>3. Marks(t, p, TRUE)
      BY <1>1, <3>2, BitvecsMark, Zenon
    <3>4. /\ DOMAIN t = DOMAIN sps
          /\ \A i \in DOMAIN sps : t[i].nOrig = sps[i].nOrig
          /\ \A i \in DOMAIN sps : p <= sps[i].nOrig => t[i].inSavepoint = sps[i].inSavepoint \cup {p}
      BY <3>3, Zenon DEF Marks
    <3>5. \A i \in DOMAIN sps : p <= sps[i].nOrig => p \in t[i].inSavepoint
      BY <3>4
    <3>6. ~subjRequiresPage(t, p)
      BY <3>4, <3>5, Zenon DEF subjRequiresPage
    <3>7. sps' = t /\ sub' = sub
      BY <1>2, <3>1, <3>2, <3>6, Zenon DEF subjournalPageIfRequired
    <3>8. Copied(sub', p, FALSE) /\ Marks(sps', p, TRUE)
      BY <1>1, <3>3, <3>7, NoCopy, Zenon
    <3>9. copied = FALSE /\ (recorded \/ copied) = TRUE
      BY <2>1, Zenon
    <3>10. QED
      BY <3>8, <3>9, Zenon
  <2>2. CASE ~recorded
    <3>1. Marked(p) = sps
      BY <2>2, Zenon DEF Marked
    <3>2. CASE subjRequiresPage(sps, p)
      <4>1. sub' = Append(sub, [page |-> p, data |-> Look(p)]) /\ sps' = addToSavepointBitvecs(sps, p)
        BY <1>2, <3>1, <3>2, Zenon DEF subjournalPageIfRequired
      <4>2. Copied(sub', p, TRUE) /\ Marks(sps', p, TRUE)
        BY <1>1, <4>1, CopyMade, BitvecsMark, Zenon
      <4>3. copied = TRUE /\ (recorded \/ copied) = TRUE
        BY <2>2, <3>2, Zenon
      <4>4. QED
        BY <4>2, <4>3, Zenon
    <3>3. CASE ~subjRequiresPage(sps, p)
      <4>1. sub' = sub /\ sps' = sps
        BY <1>2, <3>1, <3>3, Zenon DEF subjournalPageIfRequired
      <4>2. Copied(sub', p, FALSE) /\ Marks(sps', p, FALSE)
        BY <1>1, <4>1, NoCopy, NoMark, Zenon
      <4>3. copied = FALSE /\ (recorded \/ copied) = FALSE
        BY <2>2, <3>3, Zenon
      <4>4. QED
        BY <4>2, <4>3, Zenon
    <3>4. QED
      BY <3>2, <3>3
  <2>3. QED
    BY <2>1, <2>2
<1>13. Touches(p, recorded, copied)
  <2>1. writes' >= IF copied THEN writes + 1 ELSE writes
    BY <1>2, <1>4
  <2>2. p <= dbOrigSize => Journaled(p) \/ recorded
    BY <1>11, Zenon
  <2>3. recorded => NeedsRecord(p) /\ ~copied
    OBVIOUS
  <2> HIDE DEF recorded, copied
  <2>4. QED
    BY <1>2, <1>3, <1>6, <1>7, <1>8, <1>9, <1>11, <1>12, <2>1, <2>2, <2>3, Zenon DEF Touches
<1>14. recorded \/ copied \/ \A i \in DOMAIN sps : p <= sps[i].nOrig => p \in sps[i].inSavepoint
  BY Zenon DEF subjRequiresPage
<1> HIDE DEF recorded, copied
<1>15. \A q : q # p => (IF q \in DOMAIN cache' THEN cache'[q] ELSE db'[q]) = Look(q)
  BY <1>13, TouchLooks, Zenon
<1>16. (IF p \in DOMAIN cache' THEN cache'[p] ELSE db'[p]) = writes'
  BY <1>9, <1>13, TouchLooks, Zenon
<1>17. SavedKept'
  <2>1. ASSUME NEW i \in DOMAIN sps, NEW q \in 1..sps[i].nOrig
        PROVE  /\ Restores(jrnl', sub', sps[i].iOffset, sps[i].iSubRec, q, base[q],
                           IF q \in DOMAIN cache' THEN cache'[q] ELSE db'[q], saved[i][q])
               /\ q \in sps'[i].inSavepoint <=>
                    InMain(jrnl', sps[i].iOffset, q) \/ InSub(sub', sps[i].iSubRec, q)
    <3>1. PICK c : c = IF q \in DOMAIN cache' THEN cache'[q] ELSE db'[q]
      BY Zenon
    <3>2. q # p => c = Look(q)
      BY <1>15, <3>1, Zenon
    <3>3. /\ Restores(jrnl', sub', sps[i].iOffset, sps[i].iSubRec, q, base[q], c, saved[i][q])
          /\ q \in sps'[i].inSavepoint <=>
               InMain(jrnl', sps[i].iOffset, q) \/ InSub(sub', sps[i].iSubRec, q)
      BY <1>10, <1>13, <1>14, <3>2, TouchedSlot, Zenon DEF recorded, copied
    <3>4. QED
      BY <3>1, <3>3, Zenon
  <2>2. stmt \in {"plain", "journal"} /\ Len(sps) = Len(saved) /\ DOMAIN saved = DOMAIN sps
    <3>1. stmt \in {"plain", "journal"}
      BY <1>2, Zenon DEF Writing
    <3>2. Len(sps) = Len(saved)
      BY <1>1, <3>1 DEF Control
    <3>3. QED
      BY <1>1, <3>1, <3>2, Shape
  <2>3. \A i \in DOMAIN sps : SlotKept(sps[i], saved[i])
    BY <1>1, <2>2 DEF SavedKept
  <2>4. \A i \in DOMAIN sps : Len(saved[i]) = sps[i].nOrig
    BY <2>3, Zenon DEF SlotKept
  <2>5. /\ DOMAIN sps' = DOMAIN sps
        /\ \A i \in DOMAIN sps :
             /\ sps'[i].nOrig = sps[i].nOrig /\ sps'[i].iOffset = sps[i].iOffset
             /\ sps'[i].iSubRec = sps[i].iSubRec
        /\ Len(sps') = Len(sps)
    BY <1>12, Zenon DEF Marks
  <2>6. ASSUME NEW i \in DOMAIN sps
        PROVE  SlotKept(sps[i], saved[i])'
    <3>1. /\ sps'[i].nOrig = sps[i].nOrig /\ sps'[i].iOffset = sps[i].iOffset
          /\ sps'[i].iSubRec = sps[i].iSubRec
          /\ Len(saved[i]) = sps[i].nOrig /\ saved' = saved /\ base' = base
      BY <1>3, <2>4, <2>5, Zenon
    <3>2. QED
      BY <2>1, <3>1, Zenon DEF SlotKept, Look
  <2>7. \A i \in DOMAIN saved' : ~(i > Len(sps'))
    <3>1. saved' = saved
      BY <1>3, Zenon
    <3>2. \A i \in 1..Len(sps) : ~(i > Len(sps))
      BY <1>4
    <3>3. QED
      BY <1>4, <2>2, <2>5, <3>1, <3>2, Zenon
  <2>8. QED
    BY <2>5, <2>6, <2>7, Zenon DEF SavedKept
<1>18. PlayOn'
  BY <1>2, <1>3, Zenon DEF PlayOn, Writing
<1>19. ContentAsWritten'
  <2>1. play = NoPlay /\ stmt # "abort"
    BY <1>2 DEF Writing
  <2>2. \A q \in 1..dbSize : Look(q) = want[q]
    BY <1>1, <2>1, Zenon DEF ContentAsWritten
  <2>3. \A q \in 1..dbSize' : q # p => q \in 1..dbSize
    BY <1>2, <1>4, <1>6
  <2>4. \A q \in 1..dbSize' : (IF q \in DOMAIN cache' THEN cache'[q] ELSE db'[q]) = want'[q]
    BY <1>8, <1>15, <1>16, <2>2, <2>3, Zenon
  <2>5. QED
    BY <1>8, <2>4, Zenon DEF ContentAsWritten, Look
<1>20. QED
  BY <1>10, <1>13, <1>17, <1>18, <1>19, TouchTypes, TouchJournals, TouchPages, TouchSlots, Zenon DEF IInv, Values, recorded, copied
\* A page that got neither a record nor a copy has not changed.
LEMMA FailsKeep ==
  ASSUME IInv, NEW p, Touches(p, FALSE, FALSE), sps' = sps, sub' = sub, want' = want, dbSize' = dbSize,
         cache'[p] = Look(p), stmt' \in {"failed", "abort"}
  PROVE  IInv'
<1>1. Typed /\ SlotsFit /\ SavedKept
  BY Zenon DEF IInv, Slots, Values
<1>2. /\ p \in Page /\ stmt \in {"plain", "journal"} /\ play' = NoPlay
      /\ Grown(jrnl', p, FALSE) /\ base' = base /\ saved' = saved
  BY TouchFacts, Zenon
<1>3. \A q : (IF q \in DOMAIN cache' THEN cache'[q] ELSE db'[q]) = Look(q)
  BY TouchLooks, Zenon
<1>4. \A a, q : q \in Page => (InMain(jrnl', a, q) <=> InMain(jrnl, a, q))
  BY <1>1, <1>2, GrownMain, Zenon
<1>5. SavedKept'
  <2>1. \A i \in DOMAIN sps : SlotFits(sps[i])
    BY <1>1, Zenon DEF SlotsFit
  <2>2. \A i \in DOMAIN sps : sps[i] \in Slot
    BY <1>1, Shape
  <2>3. dbSize \in Nat /\ N \in Nat /\ dbSize <= N
    BY <1>1, Shape
  <2>4. ASSUME NEW i \in DOMAIN sps, SlotKept(sps[i], saved[i])
        PROVE  SlotKept(sps[i], saved[i])'
    <3>1. \A q \in 1..sps[i].nOrig : q \in Page
      <4>1. sps[i].nOrig <= dbSize /\ sps[i].nOrig \in Nat
        BY <2>1, <2>2 DEF SlotFits, Slot
      <4>2. QED
        BY <2>3, <4>1 DEF Page
    <3>2. ASSUME NEW q \in 1..sps[i].nOrig
          PROVE  /\ Restores(jrnl', sub, sps[i].iOffset, sps[i].iSubRec, q, base[q],
                             IF q \in DOMAIN cache' THEN cache'[q] ELSE db'[q], saved[i][q])
                 /\ q \in sps[i].inSavepoint <=>
                      InMain(jrnl', sps[i].iOffset, q) \/ InSub(sub, sps[i].iSubRec, q)
      <4>1. /\ Restores(jrnl, sub, sps[i].iOffset, sps[i].iSubRec, q, base[q], Look(q), saved[i][q])
            /\ q \in sps[i].inSavepoint <=>
                 InMain(jrnl, sps[i].iOffset, q) \/ InSub(sub, sps[i].iSubRec, q)
        BY <2>4, Zenon DEF SlotKept
      <4>2. InMain(jrnl', sps[i].iOffset, q) <=> InMain(jrnl, sps[i].iOffset, q)
        BY <1>4, <3>1, Zenon
      <4>3. (IF q \in DOMAIN cache' THEN cache'[q] ELSE db'[q]) = Look(q)
        BY <1>3, Zenon
      <4>4. Restores(jrnl', sub, sps[i].iOffset, sps[i].iSubRec, q, base[q], Look(q), saved[i][q])
        BY <4>1, <4>2, Zenon DEF Restores
      <4>5. QED
        BY <4>1, <4>2, <4>3, <4>4, Zenon
    <3>3. Len(saved[i]) = sps[i].nOrig
      BY <2>4, Zenon DEF SlotKept
    <3>4. QED
      BY <1>2, <3>2, <3>3, Zenon DEF SlotKept, Look
  <2>5. stmt # "abort"
    BY <1>2
  <2>6. /\ \A i \in DOMAIN sps : SlotKept(sps[i], saved[i])
        /\ \A i \in DOMAIN saved : i > Len(sps) => saved[i] = want
    BY <1>1, <2>5, Zenon DEF SavedKept
  <2>7. QED
    BY <1>2, <2>4, <2>6, Zenon DEF SavedKept
<1>6. PlayOn'
  BY <1>2, Zenon DEF PlayOn
<1>7. ContentAsWritten'
  <2>1. ContentAsWritten /\ play = NoPlay /\ stmt # "abort"
    <3>1. stmt # "abort"
      BY <1>2
    <3>2. QED
      BY <3>1, TouchFacts, Zenon DEF IInv, Values
  <2>2. dbSize = Len(want) /\ \A q \in 1..dbSize : Look(q) = want[q]
    BY <2>1, Zenon DEF ContentAsWritten
  <2>3. QED
    BY <1>3, <2>2, Zenon DEF ContentAsWritten, Look
<1>8. FALSE \in BOOLEAN
  OBVIOUS
<1>9. QED
  BY <1>5, <1>6, <1>7, <1>8, TouchTypes, TouchJournals, TouchPages, TouchSlots, Zenon DEF IInv, Values

LEMMA JournalFailsKeeps ==
  ASSUME IInv, NEW p \in Page, JournalFails(p)
  PROVE  IInv'
<1>1. Typed
  BY Zenon DEF IInv
<1>2. /\ Writing /\ p <= dbSize /\ NeedsRecord(p) /\ pager_write(p, FALSE)
      /\ cache' = Put(cache, p, Look(p))
      /\ Fails
      /\ UNCHANGED <<db, writeable, dbSize, dbOrigSize, journalHdr, sub, sps, nSavepoint, play, base, saved>>
      /\ writes' = writes /\ want' = want
  BY Zenon DEF JournalFails, history
<1>3. stmt' \in (IF stmt = "journal" THEN {"failed", "abort"} ELSE {"abort"})
  BY <1>2, Zenon DEF Fails
<1>4. stmt' \in {"failed", "abort"} /\ (stmt' = "abort" \/ (stmt = "journal" /\ stmt' = "failed"))
  BY <1>3
<1>5. stmt' \in {stmt, "abort"} \/ (stmt = "journal" /\ stmt' = "failed")
  BY <1>4
<1>6. /\ DOMAIN cache' = DOMAIN cache \cup {p} /\ cache' \in [DOMAIN cache' -> Content]
      /\ \A q \in DOMAIN cache \ {p} : cache'[q] = cache[q]
      /\ cache'[p] = Look(p)
  BY <1>1, <1>2, Looks, PutFacts, Zenon
<1>7. /\ Grown(jrnl', p, FALSE)
      /\ eState' = IF eState = "locked" THEN "cachemod" ELSE eState
      /\ dirty' = dirty \cup {p}
      /\ needSync' \in {needSync, needSync \cup {p}}
  BY <1>2, PagerWrites
<1>8. Copied(sub', p, FALSE) /\ Marks(sps', p, FALSE \/ FALSE)
  <2>1. (FALSE \/ FALSE) = FALSE
    BY Zenon
  <2>2. QED
    BY <1>1, <1>2, <2>1, NoCopy, NoMark, Zenon
<1>9. /\ writes' \in Val /\ want' \in Seq(Val) /\ Len(want') = dbSize' /\ writeable' \in {writeable, writeable \cup {p}}
  BY <1>1, <1>2, Zenon DEF Typed
<1>10. p <= dbSize + 1 /\ writes' >= writes /\ dbSize' = IF p <= dbSize THEN dbSize ELSE p
  <2>1. dbSize \in Nat /\ writes \in Nat /\ p \in Nat
    BY <1>1, Shape DEF Page
  <2>2. QED
    BY <1>2, <2>1
<1>11. Touches(p, FALSE, FALSE)
  <2>1. writes' >= IF FALSE THEN writes + 1 ELSE writes
    BY <1>10
  <2>2. QED
    BY <1>2, <1>5, <1>6, <1>7, <1>8, <1>9, <1>10, <2>1, Zenon DEF Touches
<1>12. QED
  BY <1>2, <1>4, <1>6, <1>11, FailsKeep, Zenon

LEMMA SubjournalFailsKeeps ==
  ASSUME IInv, NEW p \in Page, SubjournalFails(p)
  PROVE  IInv'
<1>1. Typed
  BY Zenon DEF IInv
<1>2. /\ Writing /\ p <= dbSize /\ subjRequiresPage(Marked(p), p) /\ pager_write(p, NeedsRecord(p))
      /\ sps' = Marked(p) /\ writeable' = writeable \cup {p}
      /\ cache' = Put(cache, p, Look(p))
      /\ Fails
      /\ UNCHANGED <<db, dbSize, dbOrigSize, journalHdr, sub, nSavepoint, play, base, saved>>
      /\ writes' = writes /\ want' = want
  BY Zenon DEF SubjournalFails, history
<1>3. ~NeedsRecord(p)
  <2>1. ASSUME NeedsRecord(p)
        PROVE  FALSE
    <3>1. PICK t : t = addToSavepointBitvecs(sps, p)
      BY Zenon
    <3>2. Marked(p) = t
      BY <2>1, <3>1, Zenon DEF Marked
    <3>3. Marks(t, p, TRUE)
      BY <1>1, <3>1, BitvecsMark, Zenon
    <3>4. /\ DOMAIN t = DOMAIN sps
          /\ \A i \in DOMAIN sps : t[i].nOrig = sps[i].nOrig
          /\ \A i \in DOMAIN sps : p <= sps[i].nOrig => t[i].inSavepoint = sps[i].inSavepoint \cup {p}
      BY <3>3, Zenon DEF Marks
    <3>5. \A i \in DOMAIN sps : p <= sps[i].nOrig => p \in t[i].inSavepoint
      BY <3>4
    <3>6. ~subjRequiresPage(t, p)
      BY <3>4, <3>5, Zenon DEF subjRequiresPage
    <3>7. QED
      BY <1>2, <3>2, <3>6, Zenon
  <2>2. QED
    BY <2>1
<1>4. sps' = sps
  BY <1>2, <1>3, Zenon DEF Marked
<1>5. pager_write(p, FALSE)
  <2>1. NeedsRecord(p) = FALSE
    BY <1>3, Zenon DEF NeedsRecord
  <2>2. QED
    BY <1>2, <2>1, Zenon
<1>6. stmt' \in (IF stmt = "journal" THEN {"failed", "abort"} ELSE {"abort"})
  BY <1>2, Zenon DEF Fails
<1>7. stmt' \in {"failed", "abort"} /\ (stmt' = "abort" \/ (stmt = "journal" /\ stmt' = "failed"))
  BY <1>6
<1>8. stmt' \in {stmt, "abort"} \/ (stmt = "journal" /\ stmt' = "failed")
  BY <1>7
<1>9. /\ DOMAIN cache' = DOMAIN cache \cup {p} /\ cache' \in [DOMAIN cache' -> Content]
      /\ \A q \in DOMAIN cache \ {p} : cache'[q] = cache[q]
      /\ cache'[p] = Look(p)
  BY <1>1, <1>2, Looks, PutFacts, Zenon
<1>10. /\ Grown(jrnl', p, FALSE)
       /\ eState' = IF eState = "locked" THEN "cachemod" ELSE eState
       /\ dirty' = dirty \cup {p}
       /\ needSync' \in {needSync, needSync \cup {p}}
       /\ p <= dbOrigSize => Journaled(p)
  BY <1>2, <1>3, <1>5, PagerWrites
<1>11. Copied(sub', p, FALSE) /\ Marks(sps', p, FALSE \/ FALSE)
  <2>1. (FALSE \/ FALSE) = FALSE
    BY Zenon
  <2>2. QED
    BY <1>1, <1>2, <1>4, <2>1, NoCopy, NoMark, Zenon
<1>12. /\ writes' \in Val /\ want' \in Seq(Val) /\ Len(want') = dbSize' /\ writeable' \in {writeable, writeable \cup {p}}
  BY <1>1, <1>2, Zenon DEF Typed
<1>13. p <= dbSize + 1 /\ writes' >= writes /\ dbSize' = IF p <= dbSize THEN dbSize ELSE p
  <2>1. dbSize \in Nat /\ writes \in Nat /\ p \in Nat
    BY <1>1, Shape DEF Page
  <2>2. QED
    BY <1>2, <2>1
<1>14. Touches(p, FALSE, FALSE)
  <2>1. writes' >= IF FALSE THEN writes + 1 ELSE writes
    BY <1>13
  <2>2. QED
    BY <1>2, <1>8, <1>9, <1>10, <1>11, <1>12, <1>13, <2>1, Zenon DEF Touches
<1>15. QED
  BY <1>2, <1>4, <1>7, <1>9, <1>14, FailsKeep, Zenon
-----------------------------------------------------------------------------
(* The invariant holds.                                                    *)

LEMMA InitInvariant ==
  ASSUME Init
  PROVE  IInv
<1>1. /\ base = [p \in 1..(N - 1) |-> 0] /\ want = base /\ saved = <<>> /\ writes = 0
      /\ db = FileOf(base) /\ cache = Cut(db, 1)
      /\ dirty = {} /\ needSync = {} /\ writeable = {}
      /\ eState = "locked" /\ dbSize = Len(base) /\ dbOrigSize = Len(base)
      /\ jrnl = <<>> /\ journalHdr = 0 /\ sub = <<>> /\ sps = <<>>
      /\ nSavepoint = 0 /\ stmt = "none" /\ play = NoPlay
  BY Zenon DEF Init
<1>2. N \in Nat \ {0} /\ MaxNest \in Nat /\ MaxWrite \in Nat /\ MaxJrnl \in Nat \ {0}
  BY BoundsAssumption
<1>3. base \in Seq(Val) /\ Len(base) = N - 1
  <2>1. base \in [1..(N - 1) -> Val] /\ N - 1 \in Nat /\ DOMAIN base = 1..(N - 1)
    BY <1>1, <1>2 DEF Val
  <2>2. base \in Seq(Val)
    BY <2>1, SeqDef
  <2>3. Len(base) \in Nat /\ DOMAIN base = 1..Len(base)
    BY <2>2, LenProperties
  <2>4. QED
    BY <2>1, <2>2, <2>3
<1>4. dbSize = N - 1 /\ dbOrigSize = N - 1
  BY <1>1, <1>3, Zenon
<1>5. \A p \in 1..(N - 1) : base[p] \in Content /\ p \in Page
  BY <1>2, <1>3, ElementOfSeq DEF Content, Page
<1>6. db \in [Page -> Content] /\ \A p \in 1..(N - 1) : db[p] = base[p]
  <2>1. db = [p \in Page |-> IF p <= Len(base) THEN base[p] ELSE Absent]
    BY <1>1, Zenon DEF FileOf
  <2>2. \A p \in Page : p <= Len(base) => p \in 1..(N - 1)
    BY <1>2, <1>3 DEF Page
  <2>3. \A p \in Page : (IF p <= Len(base) THEN base[p] ELSE Absent) \in Content
    BY <1>5, <2>2 DEF Content
  <2>4. \A p \in 1..(N - 1) : p <= Len(base)
    BY <1>3
  <2>5. QED
    BY <1>5, <2>1, <2>3, <2>4, Zenon
<1>7. /\ DOMAIN cache \subseteq Page /\ cache \in [DOMAIN cache -> Content]
      /\ \A p \in DOMAIN cache : cache[p] = db[p]
  <2>1. cache = [p \in {q \in DOMAIN db : q <= 1} |-> db[p]]
    BY <1>1, Zenon DEF Cut
  <2>2. QED
    BY <1>6, <2>1
<1>8. \A p : Look(p) = db[p]
  BY <1>7, Zenon DEF Look
<1>9. /\ <<>> \in Seq(Record \cup {Header}) /\ <<>> \in Seq(Record) /\ <<>> \in Seq(Slot)
      /\ <<>> \in Seq(Seq(Val)) /\ Len(<<>>) = 0
  BY EmptySeq
<1>10. DOMAIN <<>> = {}
  OBVIOUS
<1>11. NoPlay \in [k : Int, at : Nat, sub : Nat, done : SUBSET Page]
       /\ NoPlay.k = -1 /\ NoPlay.at = 0 /\ NoPlay.sub = 0
  BY DEF NoPlay
<1>12. Typed
  <2>1. {} \cup {} \subseteq {} /\ {} \subseteq DOMAIN cache /\ 0 \in Nat /\ 0 \in 0..MaxNest
        /\ 0 <= 0 /\ 0 <= MaxNest /\ N - 1 <= N - 1 /\ N - 1 <= N /\ 0 \in Val
    BY <1>2 DEF Val
  <2>2. QED
    BY <1>1, <1>3, <1>4, <1>6, <1>7, <1>9, <1>10, <1>11, <2>1, Zenon DEF Typed
<1>13. Control
  BY <1>1, <1>9 DEF Control
<1>14. DOMAIN jrnl = {} /\ DOMAIN sub = {} /\ DOMAIN sps = {} /\ DOMAIN saved = {}
  BY <1>1, <1>10, Zenon
<1>15. Journals
  BY <1>1, <1>14, Zenon DEF Journals, JournalKept, UnsyncedMarked, SubKnown, WriteableKnown
<1>16. Pages
  BY <1>4, <1>6, <1>7, <1>8, Zenon DEF Pages, FileKept, Untouched, Clean
<1>17. Slots
  <2>1. SlotsFit /\ FirstStretch
    BY <1>14, Zenon DEF SlotsFit, FirstStretch
  <2>2. PlayFits
    BY <1>1, <1>9, <1>11 DEF PlayFits
  <2>3. QED
    BY <2>1, <2>2, Zenon DEF Slots
<1>18. Values
  <2>1. SavedKept /\ PlayOn
    BY <1>1, <1>14, Zenon DEF SavedKept, PlayOn
  <2>2. ContentAsWritten
    BY <1>1, <1>4, <1>6, <1>8, Zenon DEF ContentAsWritten
  <2>3. QED
    BY <2>1, <2>2, Zenon DEF Values
<1>19. QED
  BY <1>12, <1>13, <1>15, <1>16, <1>17, <1>18, Zenon DEF IInv

LEMMA StutterKeeps ==
  ASSUME IInv, UNCHANGED vars
  PROVE  IInv'
<1>1. /\ UNCHANGED <<db, eState, cache, dirty, needSync, writeable, dbSize, dbOrigSize>>
      /\ UNCHANGED <<jrnl, journalHdr, sub, sps, nSavepoint, stmt, play, writes, base, want, saved>>
  BY Zenon DEF vars, flagVars, jrnlVars, history
<1>2. Typed'
  BY <1>1, Zenon DEF IInv, Typed
<1>3. Control'
  BY <1>1, Zenon DEF IInv, Control
<1>4. Journals'
  BY <1>1, ZenonT(60) DEF IInv, Journals, JournalKept, UnsyncedMarked, SubKnown, WriteableKnown, Journaled
<1>5. Pages'
  BY <1>1, Zenon DEF IInv, Pages, FileKept, Untouched, Clean, Look, Journaled
<1>6. Slots'
  BY <1>1, Zenon DEF IInv, Slots, SlotsFit, SlotFits, PlayFits, FirstStretch
<1>7. SavedKept'
  BY <1>1, Zenon DEF IInv, Values, SavedKept, SlotKept, Look
<1>8. PlayOn' /\ ContentAsWritten'
  BY <1>1, Zenon DEF IInv, Values, PlayOn, ContentAsWritten, Look
<1>9. QED
  BY <1>2, <1>3, <1>4, <1>5, <1>6, <1>7, <1>8, Zenon DEF IInv, Values

LEMMA NextKeeps ==
  ASSUME IInv, [Next]_vars
  PROVE  IInv'
<1>1. CASE OpenSavepoint
  BY <1>1, OpenSavepointKeeps
<1>2. CASE \E kind \in {"plain", "journal"} : BeginStatement(kind)
  BY <1>2, BeginStatementKeeps
<1>3. ASSUME NEW p \in Page,
             \/ Write(p) \/ JournalFails(p) \/ SubjournalFails(p)
             \/ Read(p) \/ Evict(p) \/ Spill(p) \/ SpillFails(p)
      PROVE  IInv'
  BY <1>3, WriteKeeps, JournalFailsKeeps, SubjournalFailsKeeps, ReadKeeps, EvictKeeps, SpillKeeps, SpillFailsKeeps
<1>4. CASE EndStatement \/ StatementFails
  BY <1>4, EndStatementKeeps, StatementFailsKeeps
<1>5. CASE \E k \in 1..MaxNest : Release(k)
  BY <1>5, ReleaseKeeps
<1>6. CASE \E k \in 0..MaxNest : RollbackTo(k)
  BY <1>6, RollbackToKeeps
<1>7. CASE PlayMain \/ PlaySub \/ PlayEnd \/ PlayFails
  BY <1>7, PlayMainKeeps, PlaySubKeeps, PlayEndKeeps, PlayFailsKeeps
<1>8. CASE Commit \/ Rollback
  BY <1>8, CommitKeeps, RollbackKeeps
<1>9. CASE UNCHANGED vars
  BY <1>9, StutterKeeps
<1>10. QED
  BY <1>1, <1>2, <1>3, <1>4, <1>5, <1>6, <1>7, <1>8, <1>9, Zenon DEF Next

\* The invariant of the proof holds throughout: every step of the pager, from
\* sqlite3PagerWrite to pager_end_transaction, leaves what the next ones rely on.
THEOREM Invariance == Spec => []IInv
<1>1. Init => IInv
  BY InitInvariant
<1>2. IInv /\ [Next]_vars => IInv'
  BY NextKeeps
<1>3. QED
  BY <1>1, <1>2, PTL DEF Spec
-----------------------------------------------------------------------------
(* The types, with their bounds.                                           *)

\* Behind the last header the journal has each page at most once, and a spill adds
\* a header only to a journal shorter than MaxJrnl.
LEMMA JournalBounded ==
  ASSUME IInv
  PROVE  Len(jrnl) <= MaxJrnl + N
<1>1. Typed /\ JournalKept
  BY Zenon DEF IInv, Journals
<1>2. /\ Len(jrnl) \in Nat /\ DOMAIN jrnl = 1..Len(jrnl) /\ MaxJrnl \in Nat \ {0} /\ N \in Nat \ {0}
      /\ \A i \in DOMAIN jrnl : jrnl[i] \in Record \cup {Header}
      /\ (jrnl = <<>> <=> Len(jrnl) = 0) /\ journalHdr \in Nat
  BY <1>1, Shape DEF Typed
<1>3. CASE jrnl = <<>>
  BY <1>2, <1>3
<1>4. CASE jrnl # <<>>
  <2> DEFINE h == journalHdr + 1
             f == [i \in (h + 1)..Len(jrnl) |-> jrnl[i].page]
  <2>1. h <= Len(jrnl) /\ h <= MaxJrnl /\ h \in Nat
    BY <1>1, <1>2, <1>4 DEF JournalKept
  <2>2. \A i \in (h + 1)..Len(jrnl) : i \in DOMAIN jrnl /\ i > journalHdr + 1
    BY <1>2, <2>1
  <2>3. \A i \in (h + 1)..Len(jrnl) : jrnl[i] # Header
    BY <1>1, <2>2, Zenon DEF JournalKept
  <2>4. \A i \in (h + 1)..Len(jrnl) : jrnl[i].page \in Page
    BY <1>2, <2>2, <2>3 DEF Record
  <2>5. \A i, j \in (h + 1)..Len(jrnl) : jrnl[i].page = jrnl[j].page => i = j
    <3>1. \A i, j \in DOMAIN jrnl : i # j /\ jrnl[i] # Header => jrnl[i].page # jrnl[j].page
      BY <1>1, Zenon DEF JournalKept
    <3>2. QED
      BY <2>2, <2>3, <3>1, Zenon
  <2> HIDE DEF h
  <2>6. f \in Injection((h + 1)..Len(jrnl), 1..N)
    BY <2>4, <2>5 DEF Injection, IsInjective, Page
  <2>7. IsFiniteSet(1..N) /\ Cardinality(1..N) = N
    BY <1>2, FS_Interval
  <2>8. Cardinality((h + 1)..Len(jrnl)) <= Cardinality(1..N)
    BY <2>6, <2>7, FS_Injection
  <2>9. Cardinality((h + 1)..Len(jrnl)) = IF h + 1 > Len(jrnl) THEN 0 ELSE Len(jrnl) - (h + 1) + 1
    <3>1. h + 1 \in Int /\ Len(jrnl) \in Int
      BY <1>2, <2>1
    <3>2. QED
      BY <3>1, FS_Interval, Zenon
  <2>10. QED
    BY <1>2, <2>1, <2>7, <2>8, <2>9
<1>5. QED
  BY <1>3, <1>4

LEMMA TypesHold ==
  ASSUME IInv
  PROVE  TypeOK
<1>1. Typed /\ Control /\ JournalKept /\ SlotsFit /\ PlayFits
  BY Zenon DEF IInv, Journals, Slots
<1>2. /\ N \in Nat \ {0} /\ MaxNest \in Nat /\ MaxWrite \in Nat /\ MaxJrnl \in Nat \ {0}
      /\ Len(jrnl) \in Nat /\ DOMAIN jrnl = 1..Len(jrnl)
      /\ \A i \in DOMAIN jrnl : jrnl[i] \in Record \cup {Header}
      /\ Len(sub) \in Nat /\ DOMAIN sub = 1..Len(sub) /\ \A i \in DOMAIN sub : sub[i] \in Record
      /\ Len(sps) \in Nat /\ DOMAIN sps = 1..Len(sps) /\ \A i \in DOMAIN sps : sps[i] \in Slot
      /\ Len(saved) \in Nat /\ DOMAIN saved = 1..Len(saved)
      /\ \A i \in DOMAIN saved : saved[i] \in Seq(Val)
      /\ dbSize \in Nat /\ dbOrigSize \in Nat /\ dbOrigSize <= dbSize /\ dbSize <= N
      /\ writes \in Nat /\ writes <= MaxWrite /\ Len(sub) <= writes
  BY <1>1, Shape
<1>3. /\ db \in [Page -> Val \cup {Absent}]
      /\ DOMAIN cache \subseteq Page /\ \A p \in DOMAIN cache : cache[p] \in Val \cup {Absent}
      /\ needSync \cup writeable \subseteq dirty /\ dirty \subseteq DOMAIN cache
      /\ nSavepoint \in 0..MaxNest /\ writes \in Val /\ Len(saved) <= MaxNest
  BY <1>1 DEF Typed, Content
<1>4. /\ eState \in {"reader", "locked", "cachemod", "dbmod", "error"}
      /\ stmt \in {"none", "plain", "journal", "failed", "abort"}
  BY <1>1, Zenon DEF Control
<1>5. dbOrigSize \in 0..dbSize /\ dbSize \in 0..N
  BY <1>2
<1>6. SeqUpTo(jrnl, MaxJrnl + N, Record \cup {Header})
  BY <1>2, JournalBounded, Zenon DEF SeqUpTo
<1>7. journalHdr \in 0..Len(jrnl)
  <2>1. jrnl = <<>> => Len(jrnl) = 0
    BY EmptySeq
  <2>2. QED
    BY <1>1, <1>2, <2>1, SMTT(30) DEF Typed, JournalKept
<1>8. SeqUpTo(sub, MaxWrite, Record)
  BY <1>2 DEF SeqUpTo
<1>9. Max({1, Len(jrnl)}) = IF 1 >= Len(jrnl) THEN 1 ELSE Len(jrnl)
  BY <1>2, MaxOf
<1>10. Len(sps) <= Len(saved) /\ Len(sps) <= MaxNest
  <2>1. Len(sps) <= Len(saved) /\ Len(saved) <= MaxNest
    BY <1>1, <1>3, Zenon DEF Control
  <2>2. QED
    BY <1>2, <2>1
<1>11. SeqUpTo(sps, MaxNest,
               [nOrig : dbOrigSize..N, iOffset : 1..Max({1, Len(jrnl)}), iHdrOffset : 0..Len(jrnl),
                iSubRec : 0..Len(sub), inSavepoint : SUBSET Page])
  <2>1. ASSUME NEW i \in DOMAIN sps
        PROVE  sps[i] \in [nOrig : dbOrigSize..N, iOffset : 1..Max({1, Len(jrnl)}), iHdrOffset : 0..Len(jrnl),
                           iSubRec : 0..Len(sub), inSavepoint : SUBSET Page]
    <3>1. sps[i] \in [nOrig : Nat, iOffset : Nat, iHdrOffset : Nat, iSubRec : Nat, inSavepoint : SUBSET Page]
      BY <1>2 DEF Slot
    <3>2. SlotFits(sps[i])
      BY <1>1, Zenon DEF SlotsFit
    <3>3. sps[i].nOrig \in dbOrigSize..N /\ sps[i].iOffset \in 1..Max({1, Len(jrnl)})
          /\ sps[i].iHdrOffset \in 0..Len(jrnl) /\ sps[i].iSubRec \in 0..Len(sub)
      BY <1>2, <1>9, <3>1, <3>2 DEF SlotFits
    <3>4. QED
      BY <3>1, <3>3
  <2>2. QED
    BY <1>10, <2>1, Zenon DEF SeqUpTo
<1>12. /\ play.k \in -1..Len(sps) /\ play.at \in 0..Max({1, Len(jrnl)}) /\ play.sub \in 0..Len(sub)
       /\ play.done \subseteq Page
  <2>1. play.k \in Int /\ play.at \in Nat /\ play.sub \in Nat /\ play.done \subseteq Page
    BY <1>1 DEF Typed
  <2>2. play.k <= Len(sps) /\ play.k >= -1 /\ (play.at <= 1 \/ play.at <= Len(jrnl)) /\ play.sub <= Len(sub)
    BY <1>1, Zenon DEF PlayFits
  <2>3. QED
    BY <1>2, <1>9, <2>1, <2>2
<1>13. \A image \in {base, want} \cup Range(saved) : SeqUpTo(image, N, Val)
  <2>1. ASSUME NEW image \in Seq(Val), Len(image) <= N
        PROVE  SeqUpTo(image, N, Val)
    BY <2>1, ElementOfSeq, LenProperties DEF SeqUpTo
  <2>2. base \in Seq(Val) /\ want \in Seq(Val) /\ Len(base) <= N /\ Len(want) <= N
    BY <1>1, <1>2, SMTT(30) DEF Typed
  <2>3. \A i \in DOMAIN saved : saved[i] \in Seq(Val) /\ Len(saved[i]) <= N
    BY <1>1, <1>2, Zenon DEF Typed
  <2>4. \A image \in Range(saved) : \E i \in DOMAIN saved : image = saved[i]
    BY Zenon DEF Range
  <2>5. QED
    BY <2>1, <2>2, <2>3, <2>4, Zenon
<1>14. QED
  BY <1>3, <1>4, <1>5, <1>6, <1>7, <1>8, <1>11, <1>12, <1>13, Zenon DEF TypeOK

\* The pager's variables keep their types and bounds: the journal has room for each
\* page once behind its last header, the sub-journal for one copy per change, and what
\* a savepoint or a playback points at exists (Pager, PagerSavepoint, pagerOpenSavepoint).
THEOREM TypesKept == Spec => []TypeOK
BY TypesHold, Invariance, PTL

-----------------------------------------------------------------------------
(* What the savepoints promise.                                            *)

\* The database reads as the statements that count have left it, whatever was journaled,
\* spilled, released and played back (pager_write, pagerStress, pagerPlaybackSavepoint).
THEOREM ReadsAsWritten == Spec => []ContentAsWritten
<1>1. IInv => ContentAsWritten
  BY DEF IInv, Values
<1>2. QED
  BY <1>1, Invariance, PTL

\* A loss of power at any moment brings back the database as the transaction found it:
\* the file only has pages whose records are in the synced journal (syncJournal,
\* pager_write_pagelist, pager_playback_one_page).
THEOREM AlwaysRecoverable == Spec => []Recoverable
BY RecoveredIsBase, Invariance, PTL

\* Each open savepoint knows how far the records of its first stretch of the journal go
\* (writeJournalHdr, pagerPlaybackSavepoint).
THEOREM StretchesKnown == Spec => []FirstStretch
<1>1. IInv => FirstStretch
  BY DEF IInv, Slots
<1>2. QED
  BY <1>1, Invariance, PTL
=============================================================================
