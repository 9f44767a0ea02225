------------------------------ MODULE Savepoints ------------------------------
(***************************************************************************)
(* Savepoints and statement journals in one write transaction of a Pager:  *)
(* which pages go to the rollback journal and which to the sub-journal,    *)
(* spills of the page cache in between, RELEASE, ROLLBACK TO and failing   *)
(* statements, whose playback goes record by record.  What other           *)
(* connections see, and a commit in its steps, are in Pager.               *)
(*                                                                         *)
(* A savepoint is named by its index plus one; 0 is the beginning of the   *)
(* transaction, which the program has opened with SAVEPOINT.               *)
(***************************************************************************)
EXTENDS Integers, Sequences, SequencesExt, FiniteSetsExt

CONSTANTS
  N,        \* bound on the pages of the database
  MaxNest,  \* bound on the open savepoints, a statement's included
  MaxWrite, \* bound on the changes of pages
  MaxJrnl,  \* bound on the journal when a spill adds a header
  Absent    \* the content of a page the file has never had

ASSUME BoundsAssumption == {N, MaxJrnl} \subseteq Nat \ {0} /\ {MaxNest, MaxWrite} \subseteq Nat
ASSUME AbsentAssumption == Absent \notin Nat

VARIABLES
  db,          \* the database file
  eState,      \* Pager.eState
  cache,       \* the page cache
  dirty, needSync, writeable,  \* pages with PGHDR_DIRTY, _NEED_SYNC, _WRITEABLE
  dbSize, dbOrigSize,
  jrnl,        \* the rollback journal: its headers and records
  journalHdr,  \* offset of the current header
  sub,         \* the records of the sub-journal, nSubRec of them
  sps,         \* Pager.aSavepoint
  nSavepoint,  \* the connection's, without the transaction savepoint
  stmt,        \* the statement that writes
  play,        \* the playback of a savepoint in progress, or NoPlay
  writes,      \* number of changes so far
  base, want, saved  \* history: the database as the transaction found it, as it
                     \* was last written, and as it was when each savepoint opened

flagVars == <<dirty, needSync, writeable>>
jrnlVars == <<jrnl, journalHdr, sub>>
history == <<writes, base, want, saved>>
vars == <<db, eState, cache, flagVars, dbSize, dbOrigSize, jrnlVars, sps, nSavepoint, stmt, play,
          history>>

Page == 1..N

\* A page holds the number of the change that wrote it last.
Val == 0..MaxWrite
Record == [page : Page, data : Val \cup {Absent}]

\* Offsets count records and headers: the one at offset i is jrnl[i + 1].
Header == [page |-> 0, data |-> Absent]
NoPlay == [k |-> -1, at |-> 0, sub |-> 0, done |-> {}]

SeqUpTo(s, n, S) == Len(s) <= n /\ \A i \in DOMAIN s : s[i] \in S

TypeOK ==
  /\ db \in [Page -> Val \cup {Absent}]
  /\ eState \in {"reader", "locked", "cachemod", "dbmod", "error"}
  /\ DOMAIN cache \subseteq Page /\ \A p \in DOMAIN cache : cache[p] \in Val \cup {Absent}
  /\ needSync \cup writeable \subseteq dirty /\ dirty \subseteq DOMAIN cache
  /\ dbOrigSize \in 0..dbSize /\ dbSize \in 0..N
  /\ SeqUpTo(jrnl, MaxJrnl + N, Record \cup {Header}) /\ journalHdr \in 0..Len(jrnl)
  /\ SeqUpTo(sub, MaxWrite, Record)
  /\ SeqUpTo(sps, MaxNest,
             [nOrig : dbOrigSize..N, iOffset : 1..Max({1, Len(jrnl)}), iHdrOffset : 0..Len(jrnl),
              iSubRec : 0..Len(sub), inSavepoint : SUBSET Page])
  /\ nSavepoint \in 0..MaxNest
  /\ stmt \in {"none", "plain", "journal", "failed", "abort"}
  /\ play.k \in -1..Len(sps) /\ play.at \in 0..Max({1, Len(jrnl)}) /\ play.sub \in 0..Len(sub)
  /\ play.done \subseteq Page
  /\ writes \in Val
  /\ \A image \in {base, want} \cup Range(saved) : SeqUpTo(image, N, Val)
  /\ Len(saved) <= MaxNest

Put(f, p, x) == [q \in DOMAIN f \cup {p} |-> IF q = p THEN x ELSE f[q]]
Cut(f, n) == [p \in {q \in DOMAIN f : q <= n} |-> f[p]]
FileOf(image) == [p \in Page |-> IF p <= Len(image) THEN image[p] ELSE Absent]

\* The content the layers above get for a page.
Look(p) == IF p \in DOMAIN cache THEN cache[p] ELSE db[p]

\* Page 1 is in use, and so in the cache, as long as the transaction lasts.
Init ==
  /\ base = [p \in 1..(N - 1) |-> 0] /\ want = base /\ saved = <<>> /\ writes = 0
  /\ db = FileOf(base) /\ cache = Cut(db, 1)
  /\ dirty = {} /\ needSync = {} /\ writeable = {}
  /\ eState = "locked" /\ dbSize = Len(base) /\ dbOrigSize = Len(base)
  /\ jrnl = <<>> /\ journalHdr = 0 /\ sub = <<>> /\ sps = <<>>
  /\ nSavepoint = 0 /\ stmt = "none" /\ play = NoPlay

Idle == stmt = "none" /\ play = NoPlay /\ eState # "reader"
Writing == stmt \in {"plain", "journal"} /\ play = NoPlay

-----------------------------------------------------------------------------
(* Savepoints and statements begin.                                        *)

\* SAVEPOINT only counts; the pager opens what it lacks when a statement writes.
OpenSavepoint ==
  /\ Idle /\ nSavepoint < MaxNest
  /\ nSavepoint' = nSavepoint + 1 /\ saved' = Append(saved, want)
  /\ UNCHANGED <<db, eState, cache, flagVars, dbSize, dbOrigSize, jrnlVars, sps, stmt, play,
                 writes, base, want>>

pagerOpenSavepoint(n) ==
  sps' = sps \o [i \in 1..(n - Len(sps)) |->
                   [nOrig |-> dbSize, iOffset |-> IF jrnl = <<>> THEN 1 ELSE Len(jrnl),
                    iHdrOffset |-> 0, iSubRec |-> Len(sub), inSavepoint |-> {}]]

\* OP_Transaction: a statement that may fail half way gets a savepoint of its own.
BeginStatement(kind) ==
  /\ Idle /\ (kind = "journal" => nSavepoint < MaxNest)
  /\ pagerOpenSavepoint(IF kind = "journal" THEN nSavepoint + 1 ELSE nSavepoint)
  /\ stmt' = kind
  /\ saved' = IF kind = "journal" THEN Append(saved, want) ELSE saved
  /\ UNCHANGED <<db, eState, cache, flagVars, dbSize, dbOrigSize, jrnlVars, nSavepoint, play,
                 writes, base, want>>

-----------------------------------------------------------------------------
(* A page is made writeable and changed.                                   *)

Opened == IF eState = "locked" THEN <<Header>> ELSE jrnl
Journaled(p) == \E i \in DOMAIN jrnl : jrnl[i].page = p

addToSavepointBitvecs(s, p) ==
  [i \in DOMAIN s |-> IF p <= s[i].nOrig
                        THEN [s[i] EXCEPT !.inSavepoint = @ \cup {p}] ELSE s[i]]

subjRequiresPage(s, p) == \E i \in DOMAIN s : p <= s[i].nOrig /\ p \notin s[i].inSavepoint

\* sqlite3PagerWrite has nothing to do but the sub-journal for these.
Ready(p) == p \in writeable /\ dbSize >= p

\* A page that was in the file at the beginning goes to the journal, once.
NeedsRecord(p) == ~Ready(p) /\ p <= dbOrigSize /\ ~Journaled(p)

\* The savepoints after that.
Marked(p) == IF NeedsRecord(p) THEN addToSavepointBitvecs(sps, p) ELSE sps

\* The journal and the page's flags, with the page's record or without.
pager_write(p, recorded) ==
  /\ jrnl' = IF Ready(p) THEN jrnl
             ELSE IF recorded THEN Append(Opened, [page |-> p, data |-> Look(p)]) ELSE Opened
  /\ eState' = IF eState = "locked" THEN "cachemod" ELSE eState
  /\ dirty' = dirty \cup {p}
  /\ needSync' = IF NeedsRecord(p) \/ (~Ready(p) /\ p > dbOrigSize /\ eState # "dbmod")
                   THEN needSync \cup {p} ELSE needSync

\* What the open savepoints do not find in the main journal is copied for them.
subjournalPageIfRequired(p) ==
  IF subjRequiresPage(Marked(p), p)
    THEN /\ sub' = Append(sub, [page |-> p, data |-> Look(p)])
         /\ sps' = addToSavepointBitvecs(sps, p)
    ELSE sps' = Marked(p) /\ UNCHANGED sub

\* Any page, or the next new one, is changed.
Write(p) ==
  /\ Writing /\ p <= dbSize + 1 /\ writes < MaxWrite
  /\ pager_write(p, NeedsRecord(p))
  /\ subjournalPageIfRequired(p)
  /\ writeable' = writeable \cup {p}
  /\ dbSize' = IF Ready(p) THEN dbSize ELSE Max({dbSize, p})
  /\ writes' = writes + 1
  /\ cache' = Put(cache, p, writes')
  /\ want' = [q \in 1..Max({Len(want), p}) |-> IF q = p THEN writes' ELSE want[q]]
  /\ UNCHANGED <<db, dbOrigSize, journalHdr, nSavepoint, stmt, play, base, saved>>

\* A full disk fails the statement, any other error the transaction.
Fails == stmt' \in (IF stmt = "journal" THEN {"failed", "abort"} ELSE {"abort"})

\* The record does not reach the journal: the page is not writeable.
JournalFails(p) ==
  /\ Writing /\ p <= dbSize /\ NeedsRecord(p)
  /\ pager_write(p, FALSE)
  /\ cache' = Put(cache, p, Look(p))
  /\ Fails
  /\ UNCHANGED <<db, writeable, dbSize, dbOrigSize, journalHdr, sub, sps, nSavepoint, play, history>>

\* The copy does not reach the sub-journal: the page is writeable all the same.
SubjournalFails(p) ==
  /\ Writing /\ p <= dbSize /\ subjRequiresPage(Marked(p), p)
  /\ pager_write(p, NeedsRecord(p))
  /\ sps' = Marked(p)
  /\ writeable' = writeable \cup {p}
  /\ cache' = Put(cache, p, Look(p))
  /\ Fails
  /\ UNCHANGED <<db, dbSize, dbOrigSize, journalHdr, sub, nSavepoint, play, history>>

-----------------------------------------------------------------------------
(* The page cache.                                                         *)

Read(p) ==
  /\ Idle \/ Writing
  /\ p <= dbSize /\ p \notin DOMAIN cache
  /\ cache' = Put(cache, p, db[p])
  /\ UNCHANGED <<db, eState, flagVars, dbSize, dbOrigSize, jrnlVars, sps, nSavepoint, stmt, play,
                 history>>

\* A clean page that nobody uses makes room.
Evict(p) ==
  /\ Idle \/ Writing
  /\ p \in DOMAIN cache \ (dirty \cup {1})
  /\ cache' = Restrict(cache, DOMAIN cache \ {p})
  /\ UNCHANGED <<db, eState, flagVars, dbSize, dbOrigSize, jrnlVars, sps, nSavepoint, stmt, play,
                 history>>

\* syncJournal before the page p may be written: the records are counted and
\* synced, and a new header begins the next stretch of the journal.
MustSync(p) == p \in needSync \/ eState = "cachemod"

writeJournalHdr_mut ==
  journalHdr' = Len(jrnl) /\ jrnl' = Append(jrnl, Header) /\ UNCHANGED sps

writeJournalHdr ==
  /\ journalHdr' = Len(jrnl) /\ jrnl' = Append(jrnl, Header)
  /\ sps' = [i \in DOMAIN sps |-> IF sps[i].iHdrOffset = 0
                                    THEN [sps[i] EXCEPT !.iHdrOffset = Len(jrnl)] ELSE sps[i]]

syncJournal(p) ==
  IF MustSync(p) THEN writeJournalHdr ELSE UNCHANGED <<jrnl, journalHdr, sps>>

pager_write_pagelist(p) == db' = IF p <= dbSize THEN [db EXCEPT ![p] = cache[p]] ELSE db

Spill_mut(p) ==
  /\ Idle \/ Writing
  /\ p \in dirty \ {1} /\ (MustSync(p) => Len(jrnl) < MaxJrnl)
  /\ syncJournal(p) /\ pager_write_pagelist(p)
  /\ eState' = "dbmod"
  /\ dirty' = dirty \ {p} /\ UNCHANGED writeable
  /\ needSync' = IF MustSync(p) THEN {} ELSE needSync
  /\ UNCHANGED <<cache, dbSize, dbOrigSize, sub, nSavepoint, stmt, play, history>>

\* pagerStress writes a dirty page that nobody uses and makes it clean.
Spill(p) ==
  /\ Idle \/ Writing
  /\ p \in dirty \ {1} /\ (MustSync(p) => Len(jrnl) < MaxJrnl)
  /\ syncJournal(p) /\ pager_write_pagelist(p)
  /\ eState' = "dbmod"
  /\ dirty' = dirty \ {p} /\ writeable' = writeable \ {p}
  /\ needSync' = IF MustSync(p) THEN {} ELSE needSync
  /\ UNCHANGED <<cache, dbSize, dbOrigSize, sub, nSavepoint, stmt, play, history>>

\* An error of the sync, or of the write after it, ends all use of the cache.
SpillFails(p) ==
  /\ Writing
  /\ p \in dirty \ {1} /\ (MustSync(p) => Len(jrnl) < MaxJrnl)
  /\ \/ UNCHANGED <<db, jrnl, journalHdr, sps>>
     \/ syncJournal(p) /\ pager_write_pagelist(p)
  /\ eState' = "error" /\ stmt' = "abort"
  /\ UNCHANGED <<cache, flagVars, dbSize, dbOrigSize, sub, nSavepoint, play, history>>

-----------------------------------------------------------------------------
(* RELEASE and ROLLBACK TO, by name or for a statement that ends.          *)

pagerRelease_mut(k) ==
  IF k > Len(sps) THEN UNCHANGED <<sps, sub>> ELSE sps' = SubSeq(sps, 1, k - 1) /\ sub' = <<>>

\* sqlite3PagerSavepoint with SAVEPOINT_RELEASE: without savepoints the
\* sub-journal starts again.
pagerRelease(k) ==
  IF k > Len(sps) THEN UNCHANGED <<sps, sub>>
  ELSE sps' = SubSeq(sps, 1, k - 1) /\ sub' = IF k = 1 THEN <<>> ELSE sub

Release(k) ==
  /\ Idle /\ k <= nSavepoint
  /\ pagerRelease(k)
  /\ nSavepoint' = k - 1 /\ saved' = SubSeq(saved, 1, k - 1)
  /\ UNCHANGED <<db, eState, cache, flagVars, dbSize, dbOrigSize, jrnl, journalHdr, stmt, play,
                 writes, base, want>>

\* sqlite3PagerSavepoint with SAVEPOINT_ROLLBACK: playback begins.
pagerPlaybackSavepoint(k) ==
  IF k > Len(sps) THEN UNCHANGED <<sps, dbSize, play>>
  ELSE /\ sps' = SubSeq(sps, 1, k)
       /\ dbSize' = IF k = 0 THEN dbOrigSize ELSE sps[k].nOrig
       /\ play' = [k |-> k, done |-> {},
                   at |-> IF k = 0 THEN 0 ELSE sps[k].iOffset,
                   sub |-> IF k = 0 THEN Len(sub) ELSE sps[k].iSubRec]

RollbackTo(k) ==
  /\ Idle /\ k <= nSavepoint
  /\ pagerPlaybackSavepoint(k)
  /\ nSavepoint' = k
  /\ want' = (IF k = 0 THEN base ELSE saved[k]) /\ saved' = SubSeq(saved, 1, k)
  /\ UNCHANGED <<db, eState, cache, flagVars, dbOrigSize, jrnlVars, stmt, writes, base>>

\* vdbeCloseStatement
EndStatement ==
  /\ Writing
  /\ IF stmt = "journal"
       THEN pagerRelease(nSavepoint + 1) /\ saved' = Front(saved)
       ELSE UNCHANGED <<sps, sub, saved>>
  /\ stmt' = "none"
  /\ UNCHANGED <<db, eState, cache, flagVars, dbSize, dbOrigSize, jrnl, journalHdr, nSavepoint, play,
                 writes, base, want>>

\* A constraint or a full disk has stopped the statement.
StatementFails ==
  /\ stmt \in {"journal", "failed"} /\ play = NoPlay
  /\ pagerPlaybackSavepoint(nSavepoint + 1)
  /\ stmt' = "failed" /\ want' = Last(saved)
  /\ UNCHANGED <<db, eState, cache, flagVars, dbOrigSize, jrnlVars, nSavepoint, writes, base, saved>>

SubSynced_mut(p) == TRUE

\* The page's content in the file is known to be in the synced part of the journal.
MainSynced == play.at + 1 <= journalHdr
SubSynced(p) == p \notin needSync

\* A record is played back into the file, if that has been written to and may be,
\* and into the cache, if the page is there or has nowhere else to go.
pager_playback_one_page(r, isMainJrnl) ==
  IF r.page > dbSize \/ r.page \in play.done THEN UNCHANGED <<db, cache, dirty>>
  ELSE LET p == r.page
           toFile == eState = "dbmod" /\ IF isMainJrnl THEN MainSynced ELSE SubSynced(p)
           fetched == ~isMainJrnl /\ ~toFile /\ p \notin DOMAIN cache
       IN /\ db' = IF toFile THEN [db EXCEPT ![p] = r.data] ELSE db
          /\ cache' = IF p \in DOMAIN cache \/ fetched THEN Put(cache, p, r.data) ELSE cache
          /\ dirty' = IF fetched THEN dirty \cup {p} ELSE dirty

Played(p) == IF play.k > 0 /\ p <= dbSize THEN play.done \cup {p} ELSE play.done

Playing == play # NoPlay /\ stmt # "abort"

\* The main journal first, from the savepoint's record on, headers skipped.
PlayMain ==
  /\ Playing /\ play.at < Len(jrnl)
  /\ LET r == jrnl[play.at + 1]
     IN IF r = Header
          THEN play' = [play EXCEPT !.at = @ + 1] /\ UNCHANGED <<db, cache, dirty>>
          ELSE /\ pager_playback_one_page(r, TRUE)
               /\ play' = [play EXCEPT !.at = @ + 1, !.done = Played(r.page)]
  /\ UNCHANGED <<eState, needSync, writeable, dbSize, dbOrigSize, jrnlVars, sps, nSavepoint, stmt,
                 history>>

\* Then the sub-journal.
PlaySub ==
  /\ Playing /\ play.at >= Len(jrnl) /\ play.sub < Len(sub)
  /\ LET r == sub[play.sub + 1]
     IN /\ pager_playback_one_page(r, FALSE)
        /\ play' = [play EXCEPT !.sub = @ + 1, !.done = Played(r.page)]
  /\ UNCHANGED <<eState, needSync, writeable, dbSize, dbOrigSize, jrnlVars, sps, nSavepoint, stmt,
                 history>>

\* The savepoint of a statement is released as well.
PlayEnd ==
  /\ Playing /\ play.at >= Len(jrnl) /\ play.sub >= Len(sub)
  /\ IF stmt = "failed"
       THEN pagerRelease(play.k) /\ saved' = Front(saved)
       ELSE UNCHANGED <<sps, sub, saved>>
  /\ stmt' = "none" /\ play' = NoPlay
  /\ UNCHANGED <<db, eState, cache, flagVars, dbSize, dbOrigSize, jrnl, journalHdr, nSavepoint,
                 writes, base, want>>

\* An error in the middle of it fails the transaction.
PlayFails ==
  /\ Playing
  /\ stmt' = "abort"
  /\ UNCHANGED <<db, eState, cache, flagVars, dbSize, dbOrigSize, jrnlVars, sps, nSavepoint, play,
                 history>>

-----------------------------------------------------------------------------
(* The transaction ends.                                                   *)

pager_end_transaction(image, size) ==
  /\ eState' = "reader" /\ dirty' = {} /\ needSync' = {} /\ writeable' = {}
  /\ dbSize' = size /\ dbOrigSize' = size
  /\ jrnl' = <<>> /\ journalHdr' = 0 /\ sub' = <<>> /\ sps' = <<>>
  /\ nSavepoint' = 0 /\ stmt' = "none" /\ play' = NoPlay
  /\ base' = image /\ want' = image /\ saved' = <<>> /\ UNCHANGED writes

Commit ==
  /\ Idle
  /\ db' = [p \in Page |-> IF p > dbSize THEN Absent ELSE IF p \in dirty THEN cache[p] ELSE db[p]]
  /\ cache' = Cut(cache, dbSize)
  /\ pager_end_transaction(want, dbSize)

\* The records of the journal up to offset n, and what they are played back over.
RecordsTo(n) == {jrnl[i] : i \in 1..Min({n, Len(jrnl)})} \ {Header}
PlayedBack(f, records) ==
  [p \in DOMAIN f |-> IF \E r \in records : r.page = p
                        THEN (CHOOSE r \in records : r.page = p).data ELSE f[p]]

\* The file after the records that are synced have been played back over it.
Recovered ==
  LET f == IF eState \in {"dbmod", "error"} THEN PlayedBack(db, RecordsTo(journalHdr)) ELSE db
  IN [p \in Page |-> IF p > dbOrigSize THEN Absent ELSE f[p]]

\* ROLLBACK, or the end of a failed statement.  After an error of the pager the
\* journal is hot, and its recovery the rollback.
Rollback ==
  /\ Idle \/ stmt = "abort"
  /\ db' = Recovered
  /\ cache' = IF eState = "error" THEN Cut(Recovered, 1)
              ELSE Cut(PlayedBack(cache, RecordsTo(Len(jrnl))), dbOrigSize)
  /\ pager_end_transaction(base, dbOrigSize)

Next ==
  \/ OpenSavepoint
  \/ \E kind \in {"plain", "journal"} : BeginStatement(kind)
  \/ \E p \in Page : \/ Write(p) \/ JournalFails(p) \/ SubjournalFails(p)
                     \/ Read(p) \/ Evict(p) \/ Spill(p) \/ SpillFails(p)
  \/ EndStatement \/ StatementFails
  \/ \E k \in 1..MaxNest : Release(k)
  \/ \E k \in 0..MaxNest : RollbackTo(k)
  \/ PlayMain \/ PlaySub \/ PlayEnd \/ PlayFails
  \/ Commit \/ Rollback

Spec == Init /\ [][Next]_vars

-----------------------------------------------------------------------------
(* Properties.                                                             *)

\* Whatever was journaled, spilled, released and played back, the database reads as
\* the statements that count have left it, before and after the transaction's end
\* (pager_write, pagerStress, pagerPlaybackSavepoint).
ContentAsWritten ==
  (play = NoPlay /\ stmt # "abort") =>
     /\ dbSize = Len(want)
     /\ \A p \in 1..dbSize : Look(p) = want[p]

\* A loss of power at any moment, the middle of a playback included, brings back the
\* database as the transaction found it: no page is written to the file, by a spill
\* or by the rollback of a statement, before its record is in the synced journal
\* (ticket 1171 in pager_playback_one_page).
Recoverable == Recovered = FileOf(base)

\* pagerPlaybackSavepoint reads records from iOffset up to iHdrOffset, or to the end,
\* and expects a header there: spills keep it so for every open savepoint.
FirstStretch ==
  \A i \in DOMAIN sps :
    LET s == sps[i]
        end == IF s.iHdrOffset = 0 THEN Len(jrnl) ELSE s.iHdrOffset
    IN /\ \A j \in s.iOffset..(end - 1) : jrnl[j + 1] # Header
       /\ s.iHdrOffset # 0 => jrnl[end + 1] = Header
=============================================================================
