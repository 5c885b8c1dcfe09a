------------------------ MODULE FolderRecoveryProofs ------------------------
(***************************************************************************)
(* Proofs about what the files of FolderCompaction hold: after any failure *)
(* or crash the folder can be recovered, and a compaction that succeeds    *)
(* leaves no garbage.  Both need a folder in need of recovery to get it    *)
(* before it is used again.                                                *)
(***************************************************************************)
EXTENDS FolderCompactionProofs

-----------------------------------------------------------------------------
(* What the files hold, when a folder in need of recovery gets it.         *)

\* The database has a token exactly for the messages to keep.
Mapped(db) ==
    /\ \A m \in Msgs : db.tok[m] # 0 =>
         m \in db.hdrs /\ db.tok[m] \in DOMAIN mMsgsToKeep /\ mMsgsToKeep[db.tok[m]] = m
    /\ \A t \in DOMAIN mMsgsToKeep :
         mMsgsToKeep[t] \in db.hdrs /\ db.tok[mMsgsToKeep[t]] = t

\* In the middle of the scan a token leads into the new mbox, or still into
\* the part of the old one that has not been read, which begins at from.
Copying(box, db, from) ==
    /\ \A m \in Msgs : db.tok[m] # 0 =>
         /\ m \in db.hdrs
         /\ \/ db.tok[m] \in 1 .. Len(box) /\ box[db.tok[m]] = m
            \/ db.tok[m] \in DOMAIN mMsgsToKeep /\ db.tok[m] >= from /\ mMsgsToKeep[db.tok[m]] = m
    /\ \A i \in 1 .. Len(box) : box[i] \in db.hdrs /\ db.tok[box[i]] = i
    /\ \A t \in DOMAIN mMsgsToKeep : t >= from =>
         mMsgsToKeep[t] \in db.hdrs /\ db.tok[mMsgsToKeep[t]] = t

\* Tokens and messages correspond one to one.
Exact(box, db) ==
    /\ InSync(box, db)
    /\ \A i \in 1 .. Len(box) : box[i] \in db.hdrs /\ db.tok[box[i]] = i

\* The messages to keep are where their tokens say.
KeepInv ==
    pc \in Starting \cup Building =>
        /\ Clean(mbox, msf)
        /\ \A t \in DOMAIN mMsgsToKeep :
             t \in 1 .. Len(RecoveredMbox) /\ RecoveredMbox[t] = mMsgsToKeep[t]

\* The new files, while they are built and moved from name to name.
NewFilesInv ==
    /\ pc = "copyDB" => Mapped(msf["live"])
    /\ pc = "beginScan" => Mapped(msf["compacting"])
    /\ pc \in Scanning => Copying(mbox["compacting"], msf["compacting"], cur)
    /\ pc \in {"emptyScan", "mboxCompacted"} => Exact(mbox["compacting"], msf["compacting"])
    /\ pc \in {"mboxMoveOriginal", "dbCompacted"} => Exact(mbox["compacted"], msf["compacting"])
    /\ pc \in {"dbMoveOriginal", "dbInstall"} => Exact(mbox["compacted"], msf["compacted"])
    /\ pc = "mboxInstall" => Exact(mbox["compacted"], msf["live"])
    /\ pc = "removeOriginal" \/ (pc = "finalSummary" /\ rv) => Exact(mbox["live"], msf["live"])

\* Whether foo.msf.original is there, where that decides what a recovery does.
OriginalInv ==
    /\ pc \in {"mboxMoveOriginal", "dbCompacted", "dbMoveOriginal"} => "original" \notin DOMAIN msf
    /\ pc \in {"rollback", "discard"} \/ (pc = "finalSummary" /\ ~rv /\ ~mKeepRecoveryFiles) =>
         ("original" \in DOMAIN msf => "live" \notin DOMAIN msf)
    /\ pc \in {"mboxInstall", "removeOriginal"} => mKeepRecoveryFiles

ContentInv == Recoverable /\ KeepInv /\ NewFilesInv /\ OriginalInv

-----------------------------------------------------------------------------
(* Tokens and mboxes *)

\* An empty database is in step with any mbox.
LEMMA SyncEmpty == \A box : InSync(box, EmptyDB)
  BY DEF InSync, EmptyDB

\* Storing a message at the end of the mbox keeps mbox and database in step.
LEMMA SyncStored ==
    ASSUME NEW box \in Seq(Msgs), NEW db \in DBs, InSync(box, db), NEW m \in Msgs
    PROVE  InSync(Append(box, m), Stored(db, m, Len(box) + 1))
  <1> DEFINE new == Stored(db, m, Len(box) + 1)
             longer == Append(box, m)
  <1>1. /\ new.hdrs = db.hdrs \cup {m}
        /\ \A k \in Msgs : new.tok[k] = IF k = m THEN Len(box) + 1 ELSE db.tok[k]
    BY DEF Stored, DBs
  <1>2. /\ Len(longer) = Len(box) + 1 /\ longer[Len(box) + 1] = m /\ Len(box) \in Nat
        /\ \A i \in 1 .. Len(box) : longer[i] = box[i]
    OBVIOUS
  <1> HIDE DEF new, longer
  <1>3. InSync(longer, new)
    BY <1>1, <1>2 DEF InSync, DBs
  <1> QED
    BY <1>3 DEF new, longer

\* So does deleting a header,
LEMMA SyncDeleted ==
    ASSUME NEW box, NEW db \in DBs, InSync(box, db), NEW m \in Msgs
    PROVE  InSync(box, Deleted(db, m))
  <1>1. /\ Deleted(db, m).hdrs = db.hdrs \ {m}
        /\ \A k \in Msgs : Deleted(db, m).tok[k] = IF k = m THEN 0 ELSE db.tok[k]
    BY DEF Deleted, DBs
  <1> QED
    BY <1>1 DEF InSync

\* marking one,
LEMMA SyncMarked ==
    ASSUME NEW box, NEW db \in DBs, InSync(box, db), NEW m \in Msgs, NEW mark \in BOOLEAN
    PROVE  InSync(box, Marked(db, m, mark))
  <1>1. Marked(db, m, mark).hdrs = db.hdrs /\ Marked(db, m, mark).tok = db.tok
    BY DEF Marked, DBs
  <1> QED
    BY <1>1 DEF InSync

\* and purging the marked ones.
LEMMA SyncPurged ==
    ASSUME NEW box, NEW db \in DBs, InSync(box, db)
    PROVE  InSync(box, PurgePending(db))
  <1>1. /\ PurgePending(db).hdrs = db.hdrs
        /\ \A k \in Msgs : PurgePending(db).tok[k] = IF k \in db.pending THEN 0 ELSE db.tok[k]
    BY DEF PurgePending, DBs
  <1> QED
    BY <1>1 DEF InSync

\* Zeroing the expunged bytes changes no token.
LEMMA ExactZeroed ==
    ASSUME NEW box, NEW db \in DBs, Exact(box, db)
    PROVE  Exact(box, ZeroExpunged(db))
  <1>1. ZeroExpunged(db).hdrs = db.hdrs /\ ZeroExpunged(db).tok = db.tok
    BY DEF ZeroExpunged, DBs
  <1> QED
    BY <1>1 DEF Exact, InSync

\* A database without files is an empty one, so the antecedent of Recoverable
\* may be dropped.
LEMMA RecoverableSync == Recoverable <=> InSync(RecoveredMbox, RecoveredDB)
  BY SyncEmpty DEF Recoverable, RecoveredDB

\* A recoverable folder stays so if what a recovery makes of it does not
\* change, or if no database is left.
LEMMA StillRecoverable ==
    ASSUME Recoverable, RecoveredMbox' = RecoveredMbox,
           RecoveredDB' = RecoveredDB \/ RecoveredDB' = EmptyDB
    PROVE  Recoverable'
  <1>1. InSync(RecoveredMbox, RecoveredDB)
    BY RecoverableSync
  <1>2. InSync(RecoveredMbox, EmptyDB)
    BY SyncEmpty
  <1>3. InSync(RecoveredMbox', RecoveredDB')
    <2>1. CASE RecoveredDB' = RecoveredDB
      BY <1>1, <2>1
    <2>2. CASE RecoveredDB' = EmptyDB
      BY <1>2, <2>2
    <2> QED BY <2>1, <2>2
  <1> QED
    BY <1>3 DEF Recoverable

\* What ContentInv depends on: a step that leaves it alone keeps ContentInv.
LEMMA ContentFrame ==
    ASSUME ContentInv, UNCHANGED <<mbox, msf, pc, mMsgsToKeep, cur, rv, mKeepRecoveryFiles>>
    PROVE  ContentInv'
  BY DEF ContentInv, Recoverable, RecoveredMbox, RecoveredDB, EmptyDB, InSync, KeepInv, Clean,
         NewFilesInv, Mapped, Copying, Exact, OriginalInv

\* A folder before any compaction is in step.
LEMMA InitContent == Init => ContentInv
  <1> SUFFICES ASSUME Init PROVE ContentInv
    OBVIOUS
  <1>1. Recoverable
    <2>1. PICK box \in UNION {[1 .. n -> Msgs] : n \in 0 .. MaxMbox} :
           /\ mbox = [s \in {"live"} |-> box] \/ (box = << >> /\ mbox = [s \in {} |-> box])
           /\ \E db : InSync(box, db) /\ msf = [s \in {"live"} |-> db]
      BY DEF Init
    <2>2. PICK db : InSync(box, db) /\ msf = [s \in {"live"} |-> db]
      BY <2>1
    <2>3. RecoveredMbox = box
      BY <2>1 DEF RecoveredMbox
    <2>4. RecoveredDB = db
      BY <2>2 DEF RecoveredDB
    <2> QED
      BY <2>2, <2>3, <2>4 DEF Recoverable
  <1> QED
    BY <1>1 DEF Init, ContentInv, KeepInv, NewFilesInv, OriginalInv, Starting, Building, Scanning

\* The folder's other users keep the content invariant.
LEMMA OthersContent ==
    ASSUME ~Unattended, StructureInv, ContentInv, Others
    PROVE  ContentInv'
  <1>0. MboxFiles(mbox) /\ DbFiles(msf) /\ Recoverable
    BY DEF StructureInv, TypeOK, ContentInv
  <1>1. CASE AcquireSemaphore \/ ReleaseSemaphore
    BY <1>1, ContentFrame DEF AcquireSemaphore, ReleaseSemaphore, files, memory
  <1>2. ASSUME NEW m \in Msgs, StoreMessage(m) PROVE ContentInv'
    <2> DEFINE old == IF "live" \in DOMAIN mbox THEN mbox["live"] ELSE << >>
               db == Stored(msf["live"], m, Len(old) + 1)
    <2>1. Clean(mbox, msf) /\ "live" \in DOMAIN msf /\ pc = "idle" /\ pc' = "idle"
      BY <1>2 DEF StoreMessage, Usable, StructureInv, HolderInv
    <2>2. RecoveredMbox = old /\ RecoveredDB = msf["live"]
      BY <2>1 DEF RecoveredMbox, RecoveredDB, Clean
    <2>3. old \in Seq(Msgs) /\ msf["live"] \in DBs
      BY <1>0, <2>1 DEF MboxFiles, DbFiles
    <2>4. InSync(old, msf["live"])
      BY <1>0, <2>2, RecoverableSync
    <2>5. InSync(Append(old, m), db)
      BY <2>3, <2>4, SyncStored
    <2>6. mbox' = Write(mbox, "live", Append(old, m)) /\ msf' = Write(msf, "live", db)
      BY <1>2 DEF StoreMessage
    <2> HIDE DEF old, db
    <2>7. RecoveredMbox' = Append(old, m)
      BY <2>6 DEF RecoveredMbox, Write
    <2>8. RecoveredDB' = db
      BY <2>1, <2>6 DEF RecoveredDB, Write, Clean
    <2>9. Recoverable'
      BY <2>5, <2>7, <2>8 DEF Recoverable
    <2> QED
      BY <2>1, <2>9 DEF ContentInv, KeepInv, NewFilesInv, OriginalInv, Starting, Building, Scanning
  <1>3. ASSUME NEW db, InSync(RecoveredMbox, msf["live"]) => InSync(RecoveredMbox, db),
               InEventLoop, Clean(mbox, msf), "live" \in DOMAIN msf,
               msf' = Write(msf, "live", db), UNCHANGED <<mbox, memory, holder, pc, shutting>>
        PROVE  ContentInv'
    <2>1. RecoveredDB = msf["live"]
      BY <1>3 DEF RecoveredDB, Clean
    <2>2. RecoveredMbox' = RecoveredMbox
      BY <1>3 DEF RecoveredMbox
    <2>3. RecoveredDB' = db
      BY <1>3 DEF RecoveredDB, Write, Clean
    <2>4. InSync(RecoveredMbox, db)
      BY <1>0, <1>3, <2>1, RecoverableSync
    <2>5. Recoverable'
      <3>1. InSync(RecoveredMbox', RecoveredDB')
        BY <2>2, <2>3, <2>4
      <3> QED
        BY <3>1 DEF Recoverable
    <2>6. /\ DOMAIN msf' = DOMAIN msf
          /\ "compacting" \in DOMAIN msf => msf'["compacting"] = msf["compacting"]
      BY <1>3 DEF Write
    <2>7. KeepInv'
      BY <1>3, <2>2, <2>6 DEF ContentInv, KeepInv, Clean, memory
    <2>8. NewFilesInv' /\ OriginalInv'
      <3>1. pc \in Scanning \cup {"emptyScan"} => msf'["compacting"] = msf["compacting"]
        BY <2>6 DEF StructureInv, MsfFilesInv, Scanning, Building
      <3> QED
        BY <1>3, <3>1 DEF ContentInv, NewFilesInv, OriginalInv, InEventLoop, memory, Copying,
                          Exact, InSync, Scanning
    <2> QED
      BY <2>5, <2>7, <2>8 DEF ContentInv
  <1>4. ASSUME NEW m \in Msgs, DeleteHeader(m) PROVE ContentInv'
    <2>1. "live" \in DOMAIN msf /\ msf["live"] \in DBs
      BY <1>0, <1>4 DEF DeleteHeader, DbFiles
    <2>2. InSync(RecoveredMbox, msf["live"]) => InSync(RecoveredMbox, Deleted(msf["live"], m))
      BY <2>1, SyncDeleted
    <2> QED
      BY <1>3, <1>4, <2>2 DEF DeleteHeader, Usable
  <1>5. ASSUME NEW m \in Msgs, NEW mark \in BOOLEAN, MarkPendingRemoval(m, mark)
        PROVE  ContentInv'
    <2>1. "live" \in DOMAIN msf /\ msf["live"] \in DBs
      BY <1>0, <1>5 DEF MarkPendingRemoval, DbFiles
    <2>2. InSync(RecoveredMbox, msf["live"]) => InSync(RecoveredMbox, Marked(msf["live"], m, mark))
      BY <2>1, SyncMarked
    <2> QED
      BY <1>3, <1>5, <2>2 DEF MarkPendingRemoval, Usable
  <1> QED
    BY <1>1, <1>2, <1>4, <1>5 DEF Others

\* The keep map leads from the tokens of the live mbox to their messages.
LEMMA BeginCompactingContent ==
    ASSUME ~Unattended, StructureInv, ContentInv, BeginCompacting
    PROVE  ContentInv'
  <1> DEFINE db == msf["live"]
             kept == {m \in db.hdrs \ db.pending : db.tok[m] # 0}
  <1>1. Clean(mbox, msf) /\ "live" \in DOMAIN msf /\ db \in DBs /\ Recoverable
    BY DEF BeginCompacting, Usable, StructureInv, TypeOK, DbFiles, ContentInv
  <1>2. RecoveredDB = db
    BY <1>1 DEF RecoveredDB, Clean
  <1>3. InSync(RecoveredMbox, db)
    BY <1>1, <1>2, RecoverableSync
  <1>4. RecoveredMbox' = RecoveredMbox
    BY DEF BeginCompacting, RecoveredMbox
  <1>5. /\ msf' = Write(msf, "live", PurgePending(db)) /\ pc' = "copyDB"
        /\ UNCHANGED mbox
    BY DEF BeginCompacting
  <1>6. msf'["live"] = PurgePending(db) /\ DOMAIN msf' = DOMAIN msf
    BY <1>1, <1>5 DEF Write
  <1>7. Recoverable'
    <2>1. RecoveredDB' = PurgePending(db)
      BY <1>1, <1>6 DEF RecoveredDB, Clean
    <2>2. InSync(RecoveredMbox', RecoveredDB')
      BY <1>1, <1>3, <1>4, <2>1, SyncPurged
    <2> QED
      BY <2>2 DEF Recoverable
  <1>8. /\ DOMAIN mMsgsToKeep' = {db.tok[m] : m \in kept}
        /\ \A t \in DOMAIN mMsgsToKeep' : mMsgsToKeep'[t] \in kept /\ db.tok[mMsgsToKeep'[t]] = t
    BY DEF BeginCompacting, KeepMaps
  <1>9. KeepInv'
    <2>1. \A t \in DOMAIN mMsgsToKeep' :
            t \in 1 .. Len(RecoveredMbox) /\ RecoveredMbox[t] = mMsgsToKeep'[t]
      BY <1>1, <1>3, <1>8 DEF InSync, DBs
    <2>2. Clean(mbox', msf')
      BY <1>1, <1>5, <1>6 DEF Clean
    <2> QED
      BY <1>4, <2>1, <2>2 DEF KeepInv, Clean
  <1>10. Mapped(msf["live"])'
    <2>1. /\ PurgePending(db).hdrs = db.hdrs
          /\ \A m \in Msgs : PurgePending(db).tok[m] = IF m \in db.pending THEN 0 ELSE db.tok[m]
      BY <1>1 DEF PurgePending, DBs
    <2>2. kept \subseteq Msgs /\ \A m \in kept : m \in db.hdrs /\ m \notin db.pending
      BY <1>1 DEF DBs
    <2>3. ASSUME NEW m \in Msgs, PurgePending(db).tok[m] # 0
          PROVE  /\ m \in db.hdrs /\ PurgePending(db).tok[m] \in DOMAIN mMsgsToKeep'
                 /\ mMsgsToKeep'[PurgePending(db).tok[m]] = m
      <3>1. m \in kept /\ PurgePending(db).tok[m] = db.tok[m]
        BY <1>3, <2>1, <2>3 DEF InSync
      <3>2. db.tok[m] \in DOMAIN mMsgsToKeep'
        BY <1>8, <3>1
      <3>3. \A k \in kept : db.tok[k] = db.tok[m] => k = m
        BY <1>3, <2>2, <3>1 DEF InSync
      <3>4. mMsgsToKeep'[db.tok[m]] = m
        BY <1>8, <3>2, <3>3
      <3> QED
        BY <3>1, <3>2, <3>4
    <2>4. \A t \in DOMAIN mMsgsToKeep' :
            /\ mMsgsToKeep'[t] \in PurgePending(db).hdrs
            /\ PurgePending(db).tok[mMsgsToKeep'[t]] = t
      BY <1>8, <2>1, <2>2
    <2> HIDE DEF db, kept
    <2> QED
      BY <1>6, <2>1, <2>3, <2>4 DEF Mapped
  <1> QED
    BY <1>5, <1>7, <1>9, <1>10 DEF ContentInv, NewFilesInv, OriginalInv, Scanning

\* Shutdown, restart, crash and recovery keep the content invariant.
LEMMA EnvironmentContent ==
    ASSUME ContentInv, Observe \/ Restart \/ Crash \/ Recover
    PROVE  ContentInv'
  <1>1. CASE Observe \/ Restart
    BY <1>1, ContentFrame DEF Observe, Restart, files, memory
  <1>2. CASE Crash \/ Recover
    <2>1. RecoveredMbox' = RecoveredMbox /\ RecoveredDB' = RecoveredDB
      <3>1. CASE Crash
        BY <3>1 DEF Crash, files, RecoveredMbox, RecoveredDB, EmptyDB
      <3>2. CASE Recover
        BY <3>2 DEF Recover, RecoveredMbox, RecoveredDB
      <3> QED
        BY <1>2, <3>1, <3>2
    <2>2. Recoverable'
      BY <2>1, StillRecoverable DEF ContentInv
    <2>3. pc' = "idle"
      BY <1>2 DEF Crash, Recover
    <2> QED
      BY <2>2, <2>3 DEF ContentInv, KeepInv, NewFilesInv, OriginalInv, Starting, Building, Scanning
  <1> QED
    BY <1>1, <1>2

-----------------------------------------------------------------------------
(* The steps of a compaction *)

\* The compaction is over, or is being undone, and only what a recovery would
\* find matters.
LEMMA OverContent ==
    ASSUME ContentInv, pc' \in {"idle", "hung"},
           RecoveredMbox' = RecoveredMbox,
           RecoveredDB' = RecoveredDB \/ RecoveredDB' = EmptyDB,
           pc' = "hung" => KeepInv'
    PROVE  ContentInv'
  <1>1. Recoverable'
    BY StillRecoverable DEF ContentInv
  <1> QED
    BY <1>1 DEF ContentInv, KeepInv, NewFilesInv, OriginalInv, Starting, Building, Scanning

\* The copied database has the tokens of the keep map.
LEMMA CopyDBContent ==
    ASSUME StructureInv, ContentInv, CopyDB
    PROVE  ContentInv'
  <1>1. pc = "copyDB" /\ "live" \in DOMAIN msf /\ UNCHANGED mbox /\ Clean(mbox, msf)
    BY DEF CopyDB, StructureInv, MsfFilesInv, ContentInv, KeepInv, Starting
  <1>2. RecoveredMbox' = RecoveredMbox
    BY <1>1 DEF RecoveredMbox
  <1>3. CASE /\ msf' = Write(msf, "compacting", msf["live"])
             /\ pc' = "beginScan"
             /\ UNCHANGED <<holder, memory>>
    <2>1. /\ DOMAIN msf' = DOMAIN msf \cup {"compacting"}
          /\ msf'["compacting"] = msf["live"] /\ msf'["live"] = msf["live"]
      BY <1>1, <1>3 DEF Write
    <2>2. RecoveredDB' = RecoveredDB
      BY <1>1, <2>1 DEF RecoveredDB, Clean
    <2>3. Recoverable'
      BY <1>2, <2>2, StillRecoverable DEF ContentInv
    <2>4. KeepInv'
      BY <1>1, <1>2, <1>3, <2>1 DEF ContentInv, KeepInv, Clean, Starting, memory
    <2>5. Mapped(msf["compacting"])'
      BY <1>1, <1>3, <2>1 DEF ContentInv, NewFilesInv, Mapped, memory
    <2> QED
      BY <1>3, <2>3, <2>4, <2>5 DEF ContentInv, NewFilesInv, OriginalInv, Scanning
  <1>4. CASE GiveUp /\ UNCHANGED msf
    <2>1. RecoveredDB' = RecoveredDB
      BY <1>1, <1>4 DEF RecoveredDB, EmptyDB
    <2> QED
      BY <1>2, <1>4, <2>1, OverContent DEF GiveUp
  <1> QED
    BY <1>3, <1>4 DEF CopyDB

\* The scan starts with an empty new mbox and every token still an old one.
LEMMA BeginScanContent ==
    ASSUME StructureInv, ContentInv, BeginScan
    PROVE  ContentInv'
  <1> DEFINE opened == Write(SanityCheck(mbox), "compacting", OpenTruncated(mbox))
  <1>1. /\ pc = "beginScan" /\ {"live", "compacting"} \subseteq DOMAIN msf
        /\ UNCHANGED msf /\ Clean(mbox, msf) /\ MboxFiles(mbox)
    BY DEF BeginScan, StructureInv, TypeOK, MsfFilesInv, ContentInv, KeepInv, Starting
  <1>2. RecoveredMbox = IF "live" \in DOMAIN mbox THEN mbox["live"] ELSE << >>
    BY <1>1 DEF RecoveredMbox, Clean
  <1>3. /\ DOMAIN SanityCheck(mbox) = DOMAIN mbox \cup {"live"}
        /\ SanityCheck(mbox)["live"] = RecoveredMbox
    BY <1>2 DEF SanityCheck, Write
  <1>4. /\ DOMAIN opened = DOMAIN mbox \cup {"live", "compacting"}
        /\ opened["live"] = RecoveredMbox /\ opened["compacting"] = << >>
    BY <1>3 DEF Write, OpenTruncated
  <1> HIDE DEF opened
  <1>5. mbox' \in {mbox, SanityCheck(mbox), opened}
    BY DEF BeginScan, opened
  <1>6. RecoveredMbox' = RecoveredMbox
    BY <1>2, <1>3, <1>4, <1>5, <1>1 DEF RecoveredMbox, Clean
  <1>7. RecoveredDB' = RecoveredDB
    BY <1>1, <1>5, <1>3, <1>4 DEF RecoveredDB, EmptyDB, Clean
  <1>8. CASE GiveUp
    BY <1>6, <1>7, <1>8, OverContent DEF GiveUp
  <1>9. CASE /\ mbox' = opened
             /\ cur' = IF opened["live"] = << >> THEN 0 ELSE 1
             /\ pc' = IF opened["live"] = << >> THEN "emptyScan" ELSE "startRequest"
             /\ UNCHANGED <<holder, mMsgsToKeep, mMsgOut, rv, vetoed, movedOriginal,
                            mKeepRecoveryFiles>>
    <2>1. Recoverable'
      BY <1>6, <1>7, StillRecoverable DEF ContentInv
    <2>2. /\ Clean(mbox', msf')
          /\ \A t \in DOMAIN mMsgsToKeep' :
               t \in 1 .. Len(RecoveredMbox') /\ RecoveredMbox'[t] = mMsgsToKeep'[t]
      BY <1>1, <1>4, <1>6, <1>9 DEF ContentInv, KeepInv, Clean, Starting
    <2>3. Mapped(msf["compacting"])
      BY <1>1 DEF ContentInv, NewFilesInv
    <2>4. CASE opened["live"] = << >>
      <3>1. DOMAIN mMsgsToKeep = {}
        BY <1>1, <1>4, <2>4 DEF ContentInv, KeepInv, Starting
      <3>2. Exact(<< >>, msf["compacting"])
        BY <2>3, <3>1 DEF Mapped, Exact, InSync
      <3>3. Exact(mbox["compacting"], msf["compacting"])'
        BY <1>1, <1>4, <1>9, <3>2 DEF Exact, InSync
      <3> QED
        BY <1>9, <2>1, <2>2, <2>4, <3>3 DEF ContentInv, KeepInv, NewFilesInv, OriginalInv, Scanning,
                                            Clean
    <2>5. CASE opened["live"] # << >>
      <3>1. cur' = 1 /\ pc' = "startRequest" /\ \A t \in DOMAIN mMsgsToKeep : t \in Nat /\ t >= 1
        BY <1>1, <1>4, <1>9, <2>5 DEF ContentInv, KeepInv, Starting, StructureInv, TypeOK
      <3>2. Copying(mbox["compacting"], msf["compacting"], cur)'
        BY <1>1, <1>4, <1>9, <2>3, <3>1 DEF Mapped, Copying
      <3> QED
        BY <2>1, <2>2, <3>1, <3>2 DEF ContentInv, KeepInv, NewFilesInv, OriginalInv, Scanning, Clean
    <2> QED
      BY <2>4, <2>5
  <1> QED
    BY <1>8, <1>9 DEF BeginScan, opened

\* The step of the scan that copies a message: the token of the message now
\* leads into the new mbox, and no other token changes.
LEMMA CopyingRetained ==
    ASSUME NEW box \in Seq(Msgs), NEW db \in DBs, NEW k \in Msgs,
           Copying(box, db, cur), cur \in DOMAIN mMsgsToKeep, mMsgsToKeep[cur] = k,
           cur \in Nat, Len(box) < cur, DOMAIN mMsgsToKeep \subseteq Nat
    PROVE  Copying(Append(box, k), Retain(db, k, Len(box) + 1), cur + 1)
  <1> DEFINE longer == Append(box, k)
             new == Retain(db, k, Len(box) + 1)
  <1>1. /\ new.hdrs = db.hdrs /\ db.hdrs \subseteq Msgs
        /\ \A m \in Msgs : new.tok[m] = IF m = k THEN Len(box) + 1 ELSE db.tok[m]
    BY DEF Retain, DBs
  <1>2. /\ Len(longer) = Len(box) + 1 /\ longer[Len(box) + 1] = k /\ Len(box) \in Nat
        /\ \A i \in 1 .. Len(box) : longer[i] = box[i]
    OBVIOUS
  <1>3. k \in db.hdrs /\ db.tok[k] = cur
    BY DEF Copying
  <1>4. \A m \in Msgs : db.tok[m] \in Nat
    BY DEF DBs
  <1> HIDE DEF longer, new
  <1>5. ASSUME NEW m \in Msgs, new.tok[m] # 0
        PROVE  /\ m \in new.hdrs
               /\ \/ new.tok[m] \in 1 .. Len(longer) /\ longer[new.tok[m]] = m
                  \/ /\ new.tok[m] \in DOMAIN mMsgsToKeep /\ new.tok[m] >= cur + 1
                     /\ mMsgsToKeep[new.tok[m]] = m
    <2>1. CASE m = k
      BY <1>1, <1>2, <1>3, <2>1
    <2>2. CASE m # k
      <3>1. new.tok[m] = db.tok[m] /\ db.tok[m] # 0
        BY <1>1, <1>5, <2>2
      <3>2. CASE db.tok[m] \in 1 .. Len(box) /\ box[db.tok[m]] = m
        BY <1>1, <1>2, <3>1, <3>2 DEF Copying
      <3>3. CASE db.tok[m] \in DOMAIN mMsgsToKeep /\ db.tok[m] >= cur /\ mMsgsToKeep[db.tok[m]] = m
        <4>1. db.tok[m] # cur
          BY <2>2, <3>3
        <4> QED
          BY <1>1, <1>4, <3>1, <3>3, <4>1 DEF Copying
      <3> QED
        BY <3>1, <3>2, <3>3 DEF Copying
    <2> QED
      BY <2>1, <2>2
  <1>6. ASSUME NEW i \in 1 .. Len(longer)
        PROVE  longer[i] \in new.hdrs /\ new.tok[longer[i]] = i
    <2>1. CASE i = Len(box) + 1
      BY <1>1, <1>2, <1>3, <2>1
    <2>2. CASE i \in 1 .. Len(box)
      <3>1. box[i] \in db.hdrs /\ db.tok[box[i]] = i /\ longer[i] = box[i]
        BY <1>2, <2>2 DEF Copying
      <3>2. box[i] # k
        BY <1>2, <1>3, <2>2, <3>1
      <3> QED
        BY <1>1, <3>1, <3>2
    <2> QED
      BY <1>2, <2>1, <2>2
  <1>7. ASSUME NEW t \in DOMAIN mMsgsToKeep, t >= cur + 1
        PROVE  mMsgsToKeep[t] \in new.hdrs /\ new.tok[mMsgsToKeep[t]] = t
    <2>1. mMsgsToKeep[t] \in db.hdrs /\ db.tok[mMsgsToKeep[t]] = t /\ t # cur
      BY <1>7 DEF Copying
    <2>2. mMsgsToKeep[t] # k
      BY <1>3, <2>1
    <2> QED
      BY <1>1, <2>1, <2>2
  <1> QED
    BY <1>5, <1>6, <1>7 DEF longer, new, Copying

\* Copying a message, or passing over it, moves the frontier between new and
\* old tokens by one message.
LEMMA OnStopRequestContent ==
    ASSUME StructureInv, ContentInv, OnStopRequest
    PROVE  ContentInv'
  <1>1. /\ pc = "stopRequest" /\ Clean(mbox, msf)
        /\ {"live", "compacting"} \subseteq DOMAIN mbox
        /\ {"live", "compacting"} \subseteq DOMAIN msf
        /\ cur \in 1 .. Len(mbox["live"]) /\ Len(mbox["compacting"]) < cur
        /\ rv => (mMsgOut <=> cur \in DOMAIN mMsgsToKeep)
        /\ UNCHANGED <<mMsgsToKeep, mKeepRecoveryFiles>>
    BY DEF OnStopRequest, FlushBuffer, StructureInv, MboxFilesInv, MsfFilesInv, MemoryInv, ContentInv, KeepInv,
           Building, Scanning
  <1>2. /\ mbox["live"] \in Seq(Msgs) /\ mbox["compacting"] \in Seq(Msgs)
        /\ msf["compacting"] \in DBs
        /\ DOMAIN mMsgsToKeep \subseteq Nat /\ \A t \in DOMAIN mMsgsToKeep : mMsgsToKeep[t] \in Msgs
    BY <1>1 DEF StructureInv, TypeOK, MboxFiles, DbFiles
  <1>3. RecoveredMbox = mbox["live"]
    BY <1>1 DEF RecoveredMbox
  <1>4. \A t \in DOMAIN mMsgsToKeep : t \in 1 .. Len(mbox["live"]) /\ mbox["live"][t] = mMsgsToKeep[t]
    BY <1>1, <1>3 DEF ContentInv, KeepInv, Building
  <1>5. Copying(mbox["compacting"], msf["compacting"], cur)
    BY <1>1 DEF ContentInv, NewFilesInv, Scanning
  <1> DEFINE longer == Append(mbox["compacting"], mbox["live"][cur])
             new == Retain(msf["compacting"], mMsgsToKeep[cur], Len(mbox["compacting"]) + 1)
  <1>6. /\ mbox' = mbox \/ mbox' = Write(mbox, "compacting", longer)
        /\ msf' = msf \/ msf' = Write(msf, "compacting", new)
    BY DEF OnStopRequest, FlushBuffer, files
  <1>7. /\ DOMAIN mbox' = DOMAIN mbox /\ mbox'["live"] = mbox["live"]
        /\ DOMAIN msf' = DOMAIN msf /\ msf'["live"] = msf["live"]
    <2> HIDE DEF longer, new
    <2> QED
      BY <1>1, <1>6 DEF Write
  <1>8. RecoveredMbox' = RecoveredMbox
    BY <1>1, <1>7 DEF RecoveredMbox
  <1>9. RecoveredDB' = RecoveredDB
    BY <1>1, <1>7 DEF RecoveredDB, Clean
  <1>10. Recoverable'
    BY <1>8, <1>9, StillRecoverable DEF ContentInv
  <1>11. Clean(mbox', msf')
    BY <1>1, <1>7 DEF Clean
  <1>12. CASE FailScan
    BY <1>1, <1>10, <1>11, <1>12 DEF FailScan, ContentInv, KeepInv, NewFilesInv, OriginalInv, Clean,
                                     Starting, Building, Scanning
  <1>13. CASE NextMessage /\ rv
    <2>1. Copying(mbox'["compacting"], msf'["compacting"], cur + 1)
      <3>1. CASE ~mMsgOut
        <4>1. UNCHANGED files
          BY <1>13, <3>1 DEF OnStopRequest, FlushBuffer, NextMessage, FailScan
        <4>2. cur \notin DOMAIN mMsgsToKeep /\ cur \in Nat
          BY <1>1, <1>2, <1>13, <3>1
        <4>3. \A t \in DOMAIN mMsgsToKeep : t >= cur <=> t >= cur + 1
          BY <1>2, <4>2
        <4> QED
          BY <1>5, <4>1, <4>3 DEF Copying, files
      <3>2. CASE mMsgOut
        <4>1. mbox' = Write(mbox, "compacting", longer) /\ msf' = Write(msf, "compacting", new)
          BY <1>13, <3>2 DEF OnStopRequest, FlushBuffer, NextMessage, FailScan
        <4>2. cur \in DOMAIN mMsgsToKeep /\ mbox["live"][cur] = mMsgsToKeep[cur] /\ cur \in Nat
          BY <1>1, <1>4, <1>13, <3>2
        <4>3. Copying(longer, new, cur + 1)
          BY <1>1, <1>2, <1>5, <4>2, CopyingRetained
        <4> HIDE DEF longer, new
        <4>4. mbox'["compacting"] = longer /\ msf'["compacting"] = new
          BY <4>1 DEF Write
        <4> QED
          BY <4>3, <4>4
      <3> QED
        BY <3>1, <3>2
    <2>2. KeepInv'
      BY <1>1, <1>3, <1>4, <1>8, <1>11 DEF KeepInv, Clean
    <2>3. CASE pc' = "startRequest"
      <3>1. cur' = cur + 1
        BY <1>13, <2>3 DEF NextMessage
      <3>2. Copying(mbox["compacting"], msf["compacting"], cur)'
        BY <1>1, <2>1, <3>1 DEF Copying
      <3> QED
        BY <1>10, <2>2, <2>3, <3>2 DEF ContentInv, NewFilesInv, OriginalInv, Scanning
    <2>4. CASE pc' = "mboxCompacted"
      <3>1. cur >= Len(mbox["live"])
        BY <1>1, <1>2, <1>13, <2>4 DEF NextMessage, More
      <3>2. \A t \in DOMAIN mMsgsToKeep : ~(t >= cur + 1)
        BY <1>1, <1>2, <1>4, <3>1
      <3>3. Exact(mbox'["compacting"], msf'["compacting"])
        BY <2>1, <3>2 DEF Copying, Exact, InSync
      <3>4. Exact(mbox["compacting"], msf["compacting"])'
        BY <3>3 DEF Exact, InSync
      <3> QED
        BY <1>10, <2>2, <2>4, <3>4 DEF ContentInv, NewFilesInv, OriginalInv, Scanning
    <2>5. CASE pc' = "hung"
      BY <1>10, <2>2, <2>5 DEF ContentInv, NewFilesInv, OriginalInv, Scanning
    <2> QED
      BY <1>13, <2>3, <2>4, <2>5 DEF NextMessage
  <1> QED
    BY <1>12, <1>13 DEF OnStopRequest, FlushBuffer

\* The renames of the switchover: until foo.compacted is installed as foo, a
\* recovery goes back to the original files, under whichever name; from then
\* on it finds the new ones.
LEMMA SwitchContent ==
    ASSUME StructureInv, ContentInv,
           MboxCompacted \/ MboxMoveOriginal \/ DbCompacted \/ DbMoveOriginal \/ DbInstall
             \/ MboxInstall \/ RemoveOriginal
    PROVE  ContentInv'
  <1> USE DEF ContentInv, KeepInv, OriginalInv, Starting, Building, Scanning, Switching
  <1>0. CASE RollBack /\ pc \in {"mboxCompacted", "mboxMoveOriginal", "dbCompacted",
                                 "dbMoveOriginal", "dbInstall"}
    <2>1. "original" \in DOMAIN msf => "live" \notin DOMAIN msf
      BY <1>0 DEF StructureInv, MsfFilesInv, Clean
    <2>2. RecoveredMbox' = RecoveredMbox /\ RecoveredDB' = RecoveredDB
      BY <1>0 DEF RollBack, files, RecoveredMbox, RecoveredDB, EmptyDB
    <2>3. Recoverable'
      BY <2>2, StillRecoverable
    <2> QED
      BY <1>0, <2>1, <2>3 DEF RollBack, files, NewFilesInv
  <1>1. CASE /\ pc = "mboxCompacted" /\ mbox' = Rename(mbox, "compacting", "compacted")
             /\ pc' = "mboxMoveOriginal" /\ UNCHANGED msf
    <2>1. {"live", "compacting"} \subseteq DOMAIN mbox /\ "original" \notin DOMAIN msf
      BY <1>1 DEF StructureInv, MboxFilesInv, Clean
    <2>2. /\ "live" \in DOMAIN mbox' /\ mbox'["live"] = mbox["live"]
          /\ mbox'["compacted"] = mbox["compacting"]
      BY <1>1, <2>1 DEF Rename
    <2>3. RecoveredMbox' = RecoveredMbox /\ RecoveredDB' = RecoveredDB
      BY <1>1, <2>1, <2>2 DEF RecoveredMbox, RecoveredDB, EmptyDB
    <2>4. Recoverable'
      BY <2>3, StillRecoverable
    <2>5. Exact(mbox["compacted"], msf["compacting"])'
      BY <1>1, <2>2 DEF NewFilesInv, Exact, InSync
    <2> QED
      BY <1>1, <2>1, <2>4, <2>5 DEF NewFilesInv
  <1>2. CASE /\ pc = "mboxMoveOriginal" /\ mbox' = Rename(mbox, "live", "original")
             /\ pc' = "dbCompacted" /\ UNCHANGED msf
    <2>1. {"live", "compacted"} \subseteq DOMAIN mbox /\ "original" \notin DOMAIN msf
      BY <1>2 DEF StructureInv, MboxFilesInv
    <2>2. /\ "live" \notin DOMAIN mbox' /\ "original" \in DOMAIN mbox'
          /\ mbox'["original"] = mbox["live"] /\ mbox'["compacted"] = mbox["compacted"]
      BY <1>2, <2>1 DEF Rename
    <2>3. RecoveredMbox' = RecoveredMbox
      BY <2>1, <2>2 DEF RecoveredMbox
    <2>4. RecoveredDB' = RecoveredDB
      BY <1>2, <2>1 DEF RecoveredDB, EmptyDB
    <2>5. Recoverable'
      BY <2>3, <2>4, StillRecoverable
    <2>6. Exact(mbox["compacted"], msf["compacting"])'
      BY <1>2, <2>2 DEF NewFilesInv, Exact, InSync
    <2> QED
      BY <1>2, <2>1, <2>5, <2>6 DEF NewFilesInv
  <1>3. CASE /\ pc = "dbCompacted"
             /\ msf' = Rename(Write(msf, "compacting", ZeroExpunged(msf["compacting"])),
                              "compacting", "compacted")
             /\ pc' = "dbMoveOriginal" /\ UNCHANGED mbox
    <2> DEFINE zeroed == ZeroExpunged(msf["compacting"])
    <2>1. {"live", "compacting"} \subseteq DOMAIN msf /\ "original" \notin DOMAIN msf
      BY <1>3 DEF StructureInv, MsfFilesInv
    <2>2. msf["compacting"] \in DBs
      BY <2>1 DEF StructureInv, TypeOK, DbFiles
    <2>3. Exact(mbox["compacted"], zeroed)
      BY <1>3, <2>2, ExactZeroed DEF NewFilesInv
    <2> HIDE DEF zeroed
    <2>4. msf' = Rename(Write(msf, "compacting", zeroed), "compacting", "compacted")
      BY <1>3 DEF zeroed
    <2>5. /\ "live" \in DOMAIN msf' /\ "original" \notin DOMAIN msf'
          /\ msf'["live"] = msf["live"] /\ msf'["compacted"] = zeroed
      BY <2>1, <2>4 DEF Rename, Write
    <2>6. RecoveredMbox' = RecoveredMbox /\ RecoveredDB' = RecoveredDB
      BY <1>3, <2>1, <2>5 DEF RecoveredMbox, RecoveredDB, EmptyDB
    <2>7. Recoverable'
      BY <2>6, StillRecoverable
    <2>8. Exact(mbox["compacted"], msf["compacted"])'
      BY <1>3, <2>3, <2>5 DEF Exact, InSync
    <2> QED
      BY <1>3, <2>5, <2>7, <2>8 DEF NewFilesInv
  <1>4. CASE /\ pc = "dbMoveOriginal" /\ msf' = Rename(msf, "live", "original")
             /\ pc' = "dbInstall" /\ UNCHANGED mbox
    <2>1. /\ {"live", "compacted"} \subseteq DOMAIN msf /\ "original" \notin DOMAIN msf
          /\ "live" \notin DOMAIN mbox
      BY <1>4 DEF StructureInv, MsfFilesInv, MboxFilesInv
    <2>2. /\ "live" \notin DOMAIN msf' /\ "original" \in DOMAIN msf'
          /\ msf'["original"] = msf["live"] /\ msf'["compacted"] = msf["compacted"]
      BY <1>4, <2>1 DEF Rename
    <2>3. RecoveredMbox' = RecoveredMbox /\ RecoveredDB' = RecoveredDB
      BY <1>4, <2>1, <2>2 DEF RecoveredMbox, RecoveredDB, EmptyDB
    <2>4. Recoverable'
      BY <2>3, StillRecoverable
    <2>5. Exact(mbox["compacted"], msf["compacted"])'
      BY <1>4, <2>2 DEF NewFilesInv, Exact, InSync
    <2> QED
      BY <1>4, <2>4, <2>5 DEF NewFilesInv
  <1>5. CASE /\ pc = "dbInstall" /\ msf' = Rename(msf, "compacted", "live")
             /\ mKeepRecoveryFiles' = TRUE
             /\ pc' = "mboxInstall" /\ UNCHANGED mbox
    <2>1. {"original", "compacted"} \subseteq DOMAIN msf /\ "live" \notin DOMAIN mbox
      BY <1>5 DEF StructureInv, MsfFilesInv, MboxFilesInv
    <2>2. /\ "original" \in DOMAIN msf'
          /\ msf'["original"] = msf["original"] /\ msf'["live"] = msf["compacted"]
      BY <1>5, <2>1 DEF Rename
    <2>3. RecoveredMbox' = RecoveredMbox /\ RecoveredDB' = RecoveredDB
      BY <1>5, <2>1, <2>2 DEF RecoveredMbox, RecoveredDB, EmptyDB
    <2>4. Recoverable'
      BY <2>3, StillRecoverable
    <2>5. Exact(mbox["compacted"], msf["live"])'
      BY <1>5, <2>2 DEF NewFilesInv, Exact, InSync
    <2> QED
      BY <1>5, <2>4, <2>5 DEF NewFilesInv
  <1>6. CASE MboxInstall
    <2>1. /\ {"compacted", "original"} \subseteq DOMAIN mbox /\ "live" \notin DOMAIN mbox
          /\ {"live", "original"} \subseteq DOMAIN msf
          /\ Exact(mbox["compacted"], msf["live"]) /\ mKeepRecoveryFiles
          /\ UNCHANGED <<msf, mKeepRecoveryFiles>>
      BY <1>6 DEF MboxInstall, StructureInv, MboxFilesInv, MsfFilesInv, NewFilesInv
    <2>2. CASE mbox' = Rename(mbox, "compacted", "live") /\ pc' = "removeOriginal"
      <3>1. "live" \in DOMAIN mbox' /\ mbox'["live"] = mbox["compacted"]
        BY <2>1, <2>2 DEF Rename
      <3>2. RecoveredMbox' = mbox["compacted"]
        BY <3>1 DEF RecoveredMbox
      <3>3. RecoveredDB' = msf["live"]
        BY <2>1, <3>1 DEF RecoveredDB
      <3>4. Recoverable'
        BY <2>1, <3>2, <3>3 DEF Exact, Recoverable
      <3>5. Exact(mbox["live"], msf["live"])'
        BY <2>1, <3>1 DEF Exact, InSync
      <3> QED
        BY <2>1, <2>2, <3>4, <3>5 DEF NewFilesInv
    <2>3. CASE rv' = FALSE /\ pc' = "finalSummary" /\ UNCHANGED mbox
      <3>1. RecoveredMbox' = RecoveredMbox /\ RecoveredDB' = RecoveredDB
        BY <2>1, <2>3 DEF RecoveredMbox, RecoveredDB, EmptyDB
      <3>2. Recoverable'
        BY <3>1, StillRecoverable
      <3> QED
        BY <2>1, <2>3, <3>2 DEF NewFilesInv
    <2> QED
      BY <1>6, <2>2, <2>3 DEF MboxInstall
  <1>7. CASE RemoveOriginal
    <2>1. PICK gone \in SUBSET {"original"} : mbox' = Remove(mbox, gone)
      BY <1>7 DEF RemoveOriginal, Removed
    <2>2. /\ "live" \in DOMAIN mbox /\ Exact(mbox["live"], msf["live"]) /\ mKeepRecoveryFiles
          /\ UNCHANGED <<msf, mKeepRecoveryFiles, rv>> /\ pc' = "finalSummary"
      BY <1>7 DEF RemoveOriginal, memory, StructureInv, MboxFilesInv, NewFilesInv
    <2>3. "live" \in DOMAIN mbox' /\ mbox'["live"] = mbox["live"]
      BY <2>1, <2>2 DEF Remove, Restrict
    <2>4. RecoveredMbox' = RecoveredMbox /\ RecoveredDB' = RecoveredDB
      BY <2>2, <2>3 DEF RecoveredMbox, RecoveredDB, EmptyDB
    <2>5. Recoverable'
      BY <2>4, StillRecoverable
    <2>6. Exact(mbox["live"], msf["live"])'
      BY <2>2, <2>3 DEF Exact, InSync
    <2> QED
      BY <2>2, <2>5, <2>6 DEF NewFilesInv
  <1> QED
    BY <1>0, <1>1, <1>2, <1>3, <1>4, <1>5, <1>6, <1>7
    DEF MboxCompacted, MboxMoveOriginal, DbCompacted, DbMoveOriginal, DbInstall

\* Rolling back, and the final cleaning up.
LEMMA EndContent ==
    ASSUME StructureInv, ContentInv, RestoreOriginal \/ Discard \/ OnFinalSummary
    PROVE  ContentInv'
  <1>1. CASE RestoreOriginal
    <2>1. /\ UNCHANGED msf /\ pc' = "discard"
          /\ "original" \in DOMAIN msf => "live" \notin DOMAIN msf
      BY <1>1 DEF RestoreOriginal, ContentInv, OriginalInv
    <2>2. CASE UNCHANGED mbox
      BY <2>1, <2>2, StillRecoverable DEF ContentInv, KeepInv, NewFilesInv, OriginalInv, Starting,
           Building, Scanning, RecoveredMbox, RecoveredDB, EmptyDB
    <2>3. CASE movedOriginal /\ mbox' = Rename(mbox, "original", "live")
      <3>1. "original" \in DOMAIN mbox /\ "live" \notin DOMAIN mbox
        BY <1>1, <2>3 DEF RestoreOriginal, StructureInv, MboxFilesInv
      <3>2. "live" \in DOMAIN mbox' /\ mbox'["live"] = mbox["original"]
        BY <2>3, <3>1 DEF Rename
      <3>3. RecoveredMbox' = RecoveredMbox
        BY <3>1, <3>2 DEF RecoveredMbox
      <3>4. RecoveredDB' = RecoveredDB \/ RecoveredDB' = EmptyDB
        BY <2>1, <3>1, <3>2 DEF RecoveredDB, EmptyDB
      <3>5. Recoverable'
        BY <3>3, <3>4, StillRecoverable DEF ContentInv
      <3> QED
        BY <2>1, <3>5 DEF ContentInv, KeepInv, NewFilesInv, OriginalInv, Starting, Building, Scanning
    <2> QED
      BY <1>1, <2>2, <2>3 DEF RestoreOriginal
  <1>2. CASE Discard
    <2>1. PICK gone \in SUBSET {"compacted", "compacting"} : mbox' = Remove(mbox, gone)
      BY <1>2 DEF Discard, Removed
    <2>2. /\ \A s \in {"live", "original"} : s \in DOMAIN mbox' <=> s \in DOMAIN mbox
          /\ \A s \in {"live", "original"} : s \in DOMAIN mbox => mbox'[s] = mbox[s]
      BY <2>1 DEF Remove, Restrict
    <2>3. UNCHANGED <<msf, memory>> /\ pc' = "finalSummary" /\ pc = "discard"
      BY <1>2 DEF Discard
    <2>4. RecoveredMbox' = RecoveredMbox
      BY <2>2 DEF RecoveredMbox
    <2>5. RecoveredDB' = RecoveredDB
      BY <2>2, <2>3 DEF RecoveredDB, EmptyDB
    <2>6. Recoverable'
      BY <2>4, <2>5, StillRecoverable DEF ContentInv
    <2>7. rv' = FALSE
      BY <2>3 DEF StructureInv, TypeOK, MemoryInv, memory
    <2> QED
      BY <2>3, <2>6, <2>7 DEF ContentInv, KeepInv, NewFilesInv, OriginalInv, Starting, Building,
                              Scanning, memory
  <1>3. CASE OnFinalSummary
    <2> DEFINE left == Leftovers(mKeepRecoveryFiles /\ ~rv)
    <2>1. PICK gone \in SUBSET left : msf' = Remove(msf, gone)
      BY <1>3 DEF OnFinalSummary, Removed
    <2>2. /\ left \subseteq {"compacting", "compacted", "original"}
          /\ mKeepRecoveryFiles /\ ~rv => "original" \notin left
      BY DEF Leftovers
    <2>3. UNCHANGED mbox /\ pc = "finalSummary" /\ pc' = "idle"
      BY <1>3 DEF OnFinalSummary
    <2> HIDE DEF left
    <2>4. /\ "live" \in DOMAIN msf' <=> "live" \in DOMAIN msf
          /\ "live" \in DOMAIN msf => msf'["live"] = msf["live"]
          /\ "original" \in DOMAIN msf' => "original" \in DOMAIN msf /\ msf'["original"] = msf["original"]
          /\ "original" \notin DOMAIN msf' /\ "original" \in DOMAIN msf => "original" \in left
      BY <2>1, <2>2 DEF Remove, Restrict
    <2>5. RecoveredMbox' = RecoveredMbox
      BY <2>3 DEF RecoveredMbox
    <2>6. RecoveredDB' = RecoveredDB \/ RecoveredDB' = EmptyDB
      <3>1. CASE "original" \in DOMAIN msf' <=> "original" \in DOMAIN msf
        BY <2>3, <2>4, <3>1 DEF RecoveredDB, EmptyDB
      <3>2. CASE rv
        <4>1. "live" \in DOMAIN mbox /\ "live" \in DOMAIN msf
          BY <2>3, <3>2 DEF StructureInv, MboxFilesInv, MsfFilesInv
        <4> QED
          BY <2>3, <2>4, <4>1 DEF RecoveredDB, EmptyDB
      <3>3. CASE ~rv /\ "original" \notin DOMAIN msf' /\ "original" \in DOMAIN msf
        <4>1. ~mKeepRecoveryFiles
          BY <2>2, <2>4, <3>3
        <4>2. "live" \notin DOMAIN msf
          BY <2>3, <3>3, <4>1 DEF ContentInv, OriginalInv
        <4> QED
          BY <2>4, <3>3, <4>2 DEF RecoveredDB, EmptyDB
      <3> QED
        BY <2>4, <3>1, <3>2, <3>3
    <2> QED
      BY <2>3, <2>5, <2>6, OverContent
  <1> QED
    BY <1>1, <1>2, <1>3

\* The start of a message, or the scan of an empty mbox, changes no file.
LEMMA StartRequestContent ==
    ASSUME StructureInv, ContentInv, NotifyEmptyScan \/ OnStartRequest
    PROVE  ContentInv'
  <1>1. /\ UNCHANGED <<mbox, msf, mMsgsToKeep, cur, mKeepRecoveryFiles>>
        /\ (pc = "emptyScan" /\ pc' = "mboxCompacted") \/ (pc = "startRequest" /\ pc' = "stopRequest")
    BY DEF NotifyEmptyScan, OnStartRequest, files
  <1>2. RecoveredMbox' = RecoveredMbox /\ RecoveredDB' = RecoveredDB
    BY <1>1 DEF RecoveredMbox, RecoveredDB, EmptyDB
  <1>3. Recoverable'
    BY <1>2, StillRecoverable DEF ContentInv
  <1>4. KeepInv'
    BY <1>1, <1>2 DEF ContentInv, KeepInv, Building, Clean
  <1>5. NewFilesInv'
    BY <1>1 DEF ContentInv, NewFilesInv, Scanning, Copying, Exact, InSync
  <1> QED
    BY <1>1, <1>3, <1>4, <1>5 DEF ContentInv, OriginalInv

-----------------------------------------------------------------------------
\* The content invariant holds throughout, if a folder is recovered before it
\* is used again.
LEMMA ContentHolds == ASSUME ~Unattended PROVE Spec => []ContentInv
  <1>1. StructureInv /\ ContentInv /\ [Next]_vars => ContentInv'
    <2> SUFFICES ASSUME StructureInv, ContentInv, [Next]_vars PROVE ContentInv'
      OBVIOUS
    <2>1. CASE Compact
      BY <2>1, CopyDBContent, BeginScanContent, StartRequestContent, OnStopRequestContent,
         SwitchContent, EndContent DEF Compact
    <2>2. CASE BeginCompacting \/ Others \/ Observe \/ Restart \/ Crash \/ Recover
      BY <2>2, BeginCompactingContent, OthersContent, EnvironmentContent
    <2>3. CASE UNCHANGED vars
      BY <2>3, ContentFrame DEF vars
    <2> QED
      BY <2>1, <2>2, <2>3 DEF Next
  <1> QED
    BY <1>1, InitContent, Structure, PTL DEF Spec

\* For every folder, every choice of failing operations and a crash anywhere
\* (FolderCompactor::OnCompactionComplete, MboxCompactor::OnStopScan): the files
\* lead back to an mbox and a database whose tokens are right.
THEOREM CompactionRecoverable == ASSUME ~Unattended PROVE Spec => []Recoverable
  BY ContentHolds, PTL DEF ContentInv

\* A compaction that reports success has dropped every message without a header,
\* even if headers were deleted while it ran.
THEOREM CompactionReclaimsSpace == ASSUME ~Unattended PROVE Spec => []SpaceReclaimed
  <1>1. StructureInv /\ ContentInv => SpaceReclaimed
    BY DEF ContentInv, NewFilesInv, Exact, SpaceReclaimed
  <1> QED
    BY <1>1, ContentHolds, Structure, PTL
=============================================================================
