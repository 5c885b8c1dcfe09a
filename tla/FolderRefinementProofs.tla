----------------------- MODULE FolderRefinementProofs -----------------------
(***************************************************************************)
(* Proofs that a compaction is invisible: FolderCompaction, looked at      *)
(* through a recovery, implements AtomicFolder, and no step loses a local  *)
(* copy.  Both need a folder in need of recovery to get it before it is    *)
(* used again, and the installation of the new database not to fail        *)
(* (FolderCompactor::OnFinalSummary then deletes the original too).        *)
(***************************************************************************)
EXTENDS FolderRecoveryProofs

-----------------------------------------------------------------------------
(* What the users see of a database.                                       *)

\* The messages with a token.
Local(db) == {m \in Msgs : db.tok[m] # 0}

SameView(db, old) ==
    /\ db.hdrs = old.hdrs
    /\ db.pending = old.pending
    /\ Local(db) = Local(old)

\* The database being built, under the name it has.
NewDB ==
    CASE pc \in {"dbMoveOriginal", "dbInstall"} -> msf["compacted"]
      [] pc = "mboxInstall" -> msf["live"]
      [] OTHER -> msf["compacting"]

Renewing == {"beginScan", "mboxMoveOriginal"} \cup Building \cup Switching

\* The new database has every local copy that a recovery would find; and it looks like
\* the one a recovery would find, unless someone has changed that meanwhile.
ViewInv ==
    pc \in Renewing =>
        /\ Local(RecoveredDB) \subseteq Local(NewDB)
        /\ ~ConcurrentDelete => SameView(NewDB, RecoveredDB)

\* A rollback never meets a foo.msf.original, whose removal would matter.
NoOriginalInv ==
    pc \in {"rollback", "discard"} \/ (pc = "finalSummary" /\ ~rv /\ ~mKeepRecoveryFiles) =>
        "original" \notin DOMAIN msf

ImageInv == ViewInv /\ NoOriginalInv

\* What a step of a compaction looks like from outside: nothing changes, or the new
\* database has taken the place of the old one.
Invisible == RecoveredDB' = RecoveredDB

Exchanged ==
    /\ RecoveredDB' \in DBs
    /\ Local(RecoveredDB) \subseteq Local(RecoveredDB')
    /\ ~ConcurrentDelete => SameView(RecoveredDB', RecoveredDB)

-----------------------------------------------------------------------------
(* Databases and local copies *)

\* A recovery finds a database.
LEMMA RecoveredIsDB == StructureInv => RecoveredDB \in DBs
  BY EmptyIsDB DEF StructureInv, TypeOK, DbFiles, RecoveredDB

\* In a recoverable folder the readable messages are those with a token.
LEMMA ReadableIsLocal ==
    ASSUME StructureInv, Recoverable
    PROVE  Readable = Local(RecoveredDB) /\ Readable \subseteq RecoveredDB.hdrs
  <1>1. RecoveredDB \in DBs /\ InSync(RecoveredMbox, RecoveredDB)
    BY RecoveredIsDB, RecoverableSync
  <1> QED
    BY <1>1 DEF Readable, Local, InSync, DBs

\* Where a recovery finds its database.
LEMMA WhereRecovered ==
    ASSUME StructureInv, ContentInv
    PROVE  /\ pc \in Starting \cup Building \cup {"mboxMoveOriginal", "dbCompacted", "dbMoveOriginal"}
                => RecoveredDB = msf["live"] /\ "live" \in DOMAIN msf /\ "original" \notin DOMAIN msf
           /\ pc \in {"dbInstall", "mboxInstall"} =>
                RecoveredDB = msf["original"] /\ "original" \in DOMAIN msf
  <1>1. ASSUME pc \in Starting \cup Building \cup {"mboxMoveOriginal", "dbCompacted", "dbMoveOriginal"}
        PROVE  RecoveredDB = msf["live"] /\ "live" \in DOMAIN msf /\ "original" \notin DOMAIN msf
    <2>1. "live" \in DOMAIN msf
      BY <1>1 DEF StructureInv, MsfFilesInv
    <2>2. "original" \notin DOMAIN msf
      BY <1>1 DEF ContentInv, KeepInv, OriginalInv, Clean
    <2> QED
      BY <2>1, <2>2 DEF RecoveredDB
  <1>2. ASSUME pc \in {"dbInstall", "mboxInstall"}
        PROVE  RecoveredDB = msf["original"] /\ "original" \in DOMAIN msf
    <2>1. "original" \in DOMAIN msf /\ "live" \notin DOMAIN mbox
      BY <1>2 DEF StructureInv, MsfFilesInv, MboxFilesInv, Switching
    <2> QED
      BY <2>1 DEF RecoveredDB
  <1> QED
    BY <1>1, <1>2

\* Nothing that matters changes: the view is kept.
LEMMA ViewFrame ==
    ASSUME ViewInv, pc \in Renewing, RecoveredDB' = RecoveredDB, NewDB' = NewDB
    PROVE  ViewInv'
  BY DEF ViewInv, Local, SameView

-----------------------------------------------------------------------------
(* The steps of a compaction *)

\* The copy looks like what is copied.
LEMMA CopyDBView ==
    ASSUME StructureInv, ContentInv, ImageInv, CopyDB
    PROVE  Invisible /\ ImageInv'
  <1>1. /\ pc = "copyDB" /\ RecoveredDB = msf["live"] /\ UNCHANGED mbox
        /\ "live" \in DOMAIN msf /\ "original" \notin DOMAIN msf
    BY WhereRecovered DEF CopyDB, Starting
  <1>2. CASE msf' = Write(msf, "compacting", msf["live"]) /\ pc' = "beginScan"
    <2>1. /\ DOMAIN msf' = DOMAIN msf \cup {"compacting"}
          /\ msf'["compacting"] = msf["live"] /\ msf'["live"] = msf["live"]
      BY <1>1, <1>2 DEF Write
    <2>2. RecoveredDB' = RecoveredDB
      BY <1>1, <2>1 DEF RecoveredDB
    <2>3. NewDB' = msf'["compacting"]
      BY <1>2 DEF NewDB
    <2>4. NewDB' = RecoveredDB'
      BY <1>1, <2>1, <2>2, <2>3
    <2>5. ViewInv'
      BY <2>4 DEF ViewInv, SameView
    <2> QED
      BY <1>2, <2>2, <2>5 DEF Invisible, ImageInv, NoOriginalInv
  <1>3. CASE GiveUp /\ UNCHANGED msf
    <2>1. RecoveredDB' = RecoveredDB
      BY <1>1, <1>3 DEF RecoveredDB, EmptyDB
    <2> QED
      BY <1>3, <2>1 DEF GiveUp, Invisible, ImageInv, ViewInv, NoOriginalInv, Renewing, Building, Switching
  <1> QED
    BY <1>2, <1>3 DEF CopyDB

\* The start of the scan, of a message, or the scan of an empty mbox changes no database.
LEMMA StartScanView ==
    ASSUME StructureInv, ContentInv, ImageInv, BeginScan \/ NotifyEmptyScan \/ OnStartRequest
    PROVE  Invisible /\ ImageInv'
  <1>1. /\ pc \in {"beginScan", "emptyScan", "startRequest"} /\ UNCHANGED msf
        /\ pc' \in {"idle", "emptyScan", "startRequest", "mboxCompacted", "stopRequest"}
    BY DEF BeginScan, NotifyEmptyScan, OnStartRequest, GiveUp, files
  <1>2. RecoveredDB = msf["live"] /\ "live" \in DOMAIN msf /\ "original" \notin DOMAIN msf
    BY <1>1, WhereRecovered DEF Starting, Building
  <1>3. RecoveredDB' = RecoveredDB
    BY <1>1, <1>2 DEF RecoveredDB
  <1>4. NewDB = msf["compacting"] /\ NewDB' = msf'["compacting"]
    BY <1>1 DEF NewDB
  <1>5. ViewInv'
    BY <1>1, <1>3, <1>4, ViewFrame DEF ImageInv, Renewing, Building
  <1> QED
    BY <1>1, <1>3, <1>5 DEF Invisible, ImageInv, NoOriginalInv

\* A message that is copied gets another token, and had one.
LEMMA RetainedView ==
    ASSUME NEW db \in DBs, NEW k \in Msgs, NEW n \in Nat \ {0}, db.tok[k] # 0
    PROVE  SameView(Retain(db, k, n), db)
  <1>1. /\ Retain(db, k, n).hdrs = db.hdrs /\ Retain(db, k, n).pending = db.pending
        /\ \A m \in Msgs : Retain(db, k, n).tok[m] = IF m = k THEN n ELSE db.tok[m]
    BY DEF Retain, DBs
  <1> QED
    BY <1>1 DEF SameView, Local

\* A message is copied or passed over, or the scan fails.
LEMMA OnStopRequestView ==
    ASSUME StructureInv, ContentInv, ImageInv, OnStopRequest
    PROVE  Invisible /\ ImageInv'
  <1> DEFINE new == Retain(msf["compacting"], mMsgsToKeep[cur], Len(mbox["compacting"]) + 1)
  <1>1. /\ pc = "stopRequest" /\ RecoveredDB = msf["live"]
        /\ "live" \in DOMAIN msf /\ "original" \notin DOMAIN msf /\ "compacting" \in DOMAIN msf
        /\ NewDB = msf["compacting"]
    BY WhereRecovered DEF OnStopRequest, Building, StructureInv, MsfFilesInv, NewDB
  <1>2. /\ pc' \in {"startRequest", "hung", "mboxCompacted", "rollback"}
        /\ \/ msf' = msf
           \/ rv /\ mMsgOut /\ msf' = Write(msf, "compacting", new)
    BY DEF OnStopRequest, FlushBuffer, NextMessage, FailScan, files
  <1>3. rv /\ mMsgOut => SameView(new, msf["compacting"])
    <2> SUFFICES ASSUME rv, mMsgOut PROVE SameView(new, msf["compacting"])
      OBVIOUS
    <2>1. /\ cur \in DOMAIN mMsgsToKeep /\ mMsgsToKeep[cur] \in Msgs /\ cur \in Nat \ {0}
          /\ msf["compacting"] \in DBs /\ mbox["compacting"] \in Seq(Msgs)
      BY <1>1 DEF StructureInv, MemoryInv, TypeOK, Scanning, DbFiles, MboxFiles, MboxFilesInv, Building
    <2>2. msf["compacting"].tok[mMsgsToKeep[cur]] = cur
      BY <1>1, <2>1 DEF ContentInv, NewFilesInv, Copying, Scanning
    <2>3. Len(mbox["compacting"]) + 1 \in Nat \ {0}
      BY <2>1
    <2> QED
      BY <2>1, <2>2, <2>3, RetainedView
  <1> HIDE DEF new
  <1>4. /\ DOMAIN msf' = DOMAIN msf /\ msf'["live"] = msf["live"]
        /\ msf'["compacting"] = msf["compacting"] \/ (rv /\ mMsgOut /\ msf'["compacting"] = new)
    BY <1>1, <1>2 DEF Write
  <1>5. RecoveredDB' = RecoveredDB
    BY <1>1, <1>4 DEF RecoveredDB
  <1>6. NewDB' = msf'["compacting"]
    BY <1>2 DEF NewDB
  <1>7. SameView(NewDB', NewDB)
    BY <1>1, <1>3, <1>4, <1>6 DEF SameView
  <1>8. ViewInv'
    BY <1>1, <1>5, <1>7 DEF ImageInv, ViewInv, SameView, Local, Renewing, Building
  <1> QED
    BY <1>1, <1>2, <1>4, <1>5, <1>8 DEF Invisible, ImageInv, NoOriginalInv

\* Both kinds of failure in the switchover that lead to a rollback.
LEMMA RollBackView ==
    ASSUME StructureInv, ContentInv, ImageInv, RollBack,
           pc \in {"mboxCompacted", "mboxMoveOriginal", "dbCompacted", "dbMoveOriginal"}
    PROVE  Invisible /\ ImageInv'
  <1>1. "original" \notin DOMAIN msf
    BY WhereRecovered DEF Building
  <1>2. RecoveredDB' = RecoveredDB
    BY DEF RollBack, files, RecoveredDB, EmptyDB
  <1> QED
    BY <1>1, <1>2 DEF RollBack, files, Invisible, ImageInv, NoOriginalInv, ViewInv, Renewing, Building,
                      Switching

\* The renames up to the installation of the database move the new one and leave alone
\* what a recovery finds.
LEMMA MoveView ==
    ASSUME StructureInv, ContentInv, ImageInv, "dbInstall" \notin Failable,
           MboxCompacted \/ MboxMoveOriginal \/ DbCompacted \/ DbMoveOriginal \/ DbInstall
    PROVE  Invisible /\ ImageInv'
  <1>0. CASE RollBack /\ pc \in {"mboxCompacted", "mboxMoveOriginal", "dbCompacted", "dbMoveOriginal"}
    BY <1>0, RollBackView
  <1>1. CASE pc \in {"mboxCompacted", "mboxMoveOriginal"} /\ UNCHANGED msf
               /\ pc' \in {"mboxMoveOriginal", "dbCompacted"}
    <2>1. RecoveredDB = msf["live"] /\ "live" \in DOMAIN msf /\ "original" \notin DOMAIN msf
      BY <1>1, WhereRecovered DEF Building
    <2>2. RecoveredDB' = RecoveredDB
      BY <1>1, <2>1 DEF RecoveredDB
    <2>3. NewDB' = NewDB
      BY <1>1 DEF NewDB
    <2>4. ViewInv'
      BY <1>1, <2>2, <2>3, ViewFrame DEF ImageInv, Renewing, Building
    <2> QED
      BY <1>1, <2>2, <2>4 DEF Invisible, ImageInv, NoOriginalInv
  <1>2. CASE /\ pc = "dbCompacted" /\ pc' = "dbMoveOriginal" /\ UNCHANGED mbox
             /\ msf' = Rename(Write(msf, "compacting", ZeroExpunged(msf["compacting"])),
                              "compacting", "compacted")
    <2> DEFINE zeroed == ZeroExpunged(msf["compacting"])
    <2>1. /\ RecoveredDB = msf["live"] /\ {"live", "compacting"} \subseteq DOMAIN msf
          /\ "original" \notin DOMAIN msf
      BY <1>2, WhereRecovered DEF StructureInv, MsfFilesInv
    <2>2. SameView(zeroed, msf["compacting"])
      BY <2>1 DEF StructureInv, TypeOK, DbFiles, ZeroExpunged, DBs, SameView, Local
    <2> HIDE DEF zeroed
    <2>3. msf' = Rename(Write(msf, "compacting", zeroed), "compacting", "compacted")
      BY <1>2 DEF zeroed
    <2>4. /\ "live" \in DOMAIN msf' /\ "original" \notin DOMAIN msf'
          /\ msf'["live"] = msf["live"] /\ msf'["compacted"] = zeroed
      BY <2>1, <2>3 DEF Rename, Write
    <2>5. RecoveredDB' = RecoveredDB
      BY <2>1, <2>4 DEF RecoveredDB
    <2>6. NewDB = msf["compacting"] /\ NewDB' = zeroed
      BY <1>2, <2>4 DEF NewDB
    <2>7. ViewInv'
      BY <1>2, <2>2, <2>5, <2>6 DEF ImageInv, ViewInv, SameView, Local, Renewing, Switching
    <2> QED
      BY <1>2, <2>5, <2>7 DEF Invisible, ImageInv, NoOriginalInv
  <1>3. CASE pc = "dbMoveOriginal" /\ pc' = "dbInstall" /\ msf' = Rename(msf, "live", "original")
               /\ UNCHANGED mbox
    <2>1. /\ RecoveredDB = msf["live"] /\ {"live", "compacted"} \subseteq DOMAIN msf
          /\ "live" \notin DOMAIN mbox
      BY <1>3, WhereRecovered DEF StructureInv, MsfFilesInv, MboxFilesInv, Switching
    <2>2. "original" \in DOMAIN msf' /\ msf'["original"] = msf["live"] /\ msf'["compacted"] = msf["compacted"]
      BY <1>3, <2>1 DEF Rename
    <2>3. RecoveredDB' = RecoveredDB
      BY <1>3, <2>1, <2>2 DEF RecoveredDB
    <2>4. NewDB' = NewDB
      BY <1>3, <2>2 DEF NewDB
    <2>5. ViewInv'
      BY <1>3, <2>3, <2>4, ViewFrame DEF ImageInv, Renewing, Switching
    <2> QED
      BY <1>3, <2>3, <2>5 DEF Invisible, ImageInv, NoOriginalInv
  <1>4. CASE pc = "dbInstall" /\ pc' = "mboxInstall" /\ msf' = Rename(msf, "compacted", "live")
               /\ UNCHANGED mbox
    <2>1. /\ RecoveredDB = msf["original"] /\ {"original", "compacted"} \subseteq DOMAIN msf
          /\ "live" \notin DOMAIN mbox
      BY <1>4, WhereRecovered DEF StructureInv, MsfFilesInv, MboxFilesInv, Switching
    <2>2. "original" \in DOMAIN msf' /\ msf'["original"] = msf["original"] /\ msf'["live"] = msf["compacted"]
      BY <1>4, <2>1 DEF Rename
    <2>3. RecoveredDB' = RecoveredDB
      BY <1>4, <2>1, <2>2 DEF RecoveredDB
    <2>4. NewDB' = NewDB
      BY <1>4, <2>2 DEF NewDB
    <2>5. ViewInv'
      BY <1>4, <2>3, <2>4, ViewFrame DEF ImageInv, Renewing, Switching
    <2> QED
      BY <1>4, <2>3, <2>5 DEF Invisible, ImageInv, NoOriginalInv
  <1> QED
    BY <1>0, <1>1, <1>2, <1>3, <1>4
    DEF MboxCompacted, MboxMoveOriginal, DbCompacted, DbMoveOriginal, DbInstall, Outcome

\* With foo.compacted -> foo the new database takes the place of the old one.
LEMMA MboxInstallView ==
    ASSUME StructureInv, ContentInv, ImageInv, MboxInstall
    PROVE  (Invisible \/ Exchanged) /\ ImageInv'
  <1>1. /\ RecoveredDB = msf["original"] /\ {"live", "original"} \subseteq DOMAIN msf
        /\ {"compacted", "original"} \subseteq DOMAIN mbox
        /\ pc = "mboxInstall" /\ NewDB = msf["live"] /\ UNCHANGED msf
        /\ pc' \in {"removeOriginal", "finalSummary"}
        /\ mKeepRecoveryFiles /\ UNCHANGED mKeepRecoveryFiles
    BY WhereRecovered DEF MboxInstall, StructureInv, MsfFilesInv, MboxFilesInv, NewDB, ContentInv,
                          OriginalInv, Switching
  <1>2. ImageInv'
    BY <1>1 DEF ImageInv, ViewInv, NoOriginalInv, Renewing, Building, Switching
  <1>3. CASE mbox' = Rename(mbox, "compacted", "live")
    <2>1. "live" \in DOMAIN mbox'
      BY <1>1, <1>3 DEF Rename
    <2>2. RecoveredDB' = NewDB
      BY <1>1, <2>1 DEF RecoveredDB
    <2>3. NewDB \in DBs
      BY <1>1 DEF StructureInv, TypeOK, DbFiles
    <2>4. Exchanged
      BY <1>1, <2>2, <2>3 DEF Exchanged, ImageInv, ViewInv, Renewing, Switching
    <2> QED
      BY <1>2, <2>4
  <1>4. CASE UNCHANGED mbox
    BY <1>1, <1>2, <1>4 DEF Invisible, RecoveredDB, EmptyDB
  <1> QED
    BY <1>3, <1>4 DEF MboxInstall

\* Rolling back and cleaning up leave alone what a recovery finds.
LEMMA EndView ==
    ASSUME StructureInv, ContentInv, ImageInv,
           RemoveOriginal \/ RestoreOriginal \/ Discard \/ OnFinalSummary
    PROVE  Invisible /\ ImageInv'
  <1>1. CASE RemoveOriginal
    <2>1. PICK gone \in SUBSET {"original"} : mbox' = Remove(mbox, gone)
      BY <1>1 DEF RemoveOriginal, Removed
    <2>2. /\ "live" \in DOMAIN mbox /\ "live" \in DOMAIN msf /\ mKeepRecoveryFiles
          /\ UNCHANGED <<msf, mKeepRecoveryFiles>> /\ pc' = "finalSummary"
      BY <1>1 DEF RemoveOriginal, memory, StructureInv, MboxFilesInv, MsfFilesInv, ContentInv, OriginalInv
    <2>3. "live" \in DOMAIN mbox'
      BY <2>1, <2>2 DEF Remove, Restrict
    <2>4. RecoveredDB' = RecoveredDB
      BY <2>2, <2>3 DEF RecoveredDB
    <2> QED
      BY <2>2, <2>4 DEF Invisible, ImageInv, ViewInv, NoOriginalInv, Renewing, Building, Switching
  <1>2. CASE RestoreOriginal \/ Discard
    <2>1. /\ pc \in {"rollback", "discard"} /\ pc' \in {"discard", "finalSummary"} /\ UNCHANGED msf
          /\ "original" \notin DOMAIN msf
      BY <1>2 DEF RestoreOriginal, Discard, ImageInv, NoOriginalInv
    <2>2. RecoveredDB' = RecoveredDB
      BY <2>1 DEF RecoveredDB, EmptyDB
    <2> QED
      BY <2>1, <2>2 DEF Invisible, ImageInv, ViewInv, NoOriginalInv, Renewing, Building, Switching
  <1>3. CASE OnFinalSummary
    <2> DEFINE left == Leftovers(mKeepRecoveryFiles /\ ~rv)
    <2>1. PICK gone \in SUBSET left : msf' = Remove(msf, gone)
      BY <1>3 DEF OnFinalSummary, Removed
    <2>2. /\ left \subseteq {"compacting", "compacted", "original"}
          /\ mKeepRecoveryFiles /\ ~rv => "original" \notin left
      BY DEF Leftovers
    <2>3. UNCHANGED mbox /\ pc = "finalSummary" /\ pc' = "idle"
      BY <1>3 DEF OnFinalSummary
    <2> HIDE DEF left
    <2>4. /\ "live" \in DOMAIN msf' <=> "live" \in DOMAIN msf
          /\ "live" \in DOMAIN msf => msf'["live"] = msf["live"]
          /\ "original" \in DOMAIN msf' => "original" \in DOMAIN msf /\ msf'["original"] = msf["original"]
          /\ "original" \notin DOMAIN msf' /\ "original" \in DOMAIN msf => "original" \in left
      BY <2>1, <2>2 DEF Remove, Restrict
    <2>5. RecoveredDB' = RecoveredDB
      <3>1. CASE "original" \in DOMAIN msf' <=> "original" \in DOMAIN msf
        BY <2>3, <2>4, <3>1 DEF RecoveredDB, EmptyDB
      <3>2. CASE rv
        <4>1. "live" \in DOMAIN mbox /\ "live" \in DOMAIN msf
          BY <2>3, <3>2 DEF StructureInv, MboxFilesInv, MsfFilesInv
        <4> QED
          BY <2>3, <2>4, <4>1 DEF RecoveredDB
      <3>3. CASE ~rv /\ "original" \notin DOMAIN msf' /\ "original" \in DOMAIN msf
        BY <2>2, <2>3, <2>4, <3>3 DEF ImageInv, NoOriginalInv
      <3> QED
        BY <2>4, <3>1, <3>2, <3>3
    <2> QED
      BY <2>3, <2>5 DEF Invisible, ImageInv, ViewInv, NoOriginalInv, Renewing, Building, Switching
  <1> QED
    BY <1>1, <1>2, <1>3

\* So do shutdown, restart, crash and recovery.
LEMMA EnvironmentView ==
    ASSUME ImageInv, Observe \/ Restart \/ Crash \/ Recover
    PROVE  Invisible /\ ImageInv'
  <1>1. CASE Observe \/ Restart
    BY <1>1 DEF Observe, Restart, files, memory, Invisible, ImageInv, ViewInv, NoOriginalInv, NewDB,
                RecoveredDB, EmptyDB, Local, SameView
  <1>2. CASE Crash \/ Recover
    <2>1. RecoveredDB' = RecoveredDB
      <3>1. CASE Crash
        BY <3>1 DEF Crash, files, RecoveredDB, EmptyDB
      <3>2. CASE Recover
        BY <3>2 DEF Recover, RecoveredDB
      <3> QED
        BY <1>2, <3>1, <3>2
    <2>2. pc' = "idle"
      BY <1>2 DEF Crash, Recover
    <2> QED
      BY <2>1, <2>2 DEF Invisible, ImageInv, ViewInv, NoOriginalInv, Renewing, Building, Switching
  <1> QED
    BY <1>1, <1>2

-----------------------------------------------------------------------------
(* The steps that users see *)

\* A compaction begins with the purge.
LEMMA BeginView ==
    ASSUME ~Unattended, StructureInv, BeginCompacting
    PROVE  RecoveredDB' = PurgePending(RecoveredDB) /\ ImageInv'
  <1>1. /\ Clean(mbox, msf) /\ "live" \in DOMAIN msf /\ pc' = "copyDB" /\ UNCHANGED mbox
        /\ msf' = Write(msf, "live", PurgePending(msf["live"]))
    BY DEF BeginCompacting, Usable
  <1>2. RecoveredDB = msf["live"]
    BY <1>1 DEF RecoveredDB, Clean
  <1>3. msf'["live"] = PurgePending(msf["live"]) /\ DOMAIN msf' = DOMAIN msf
    BY <1>1 DEF Write
  <1>4. RecoveredDB' = msf'["live"]
    BY <1>1, <1>3 DEF RecoveredDB, Clean
  <1> QED
    BY <1>1, <1>2, <1>3, <1>4 DEF ImageInv, ViewInv, NoOriginalInv, Renewing, Building, Switching

\* What the others do, they do to the database that a recovery finds.
LEMMA OthersView ==
    ASSUME ~Unattended, StructureInv, ContentInv, ImageInv, Others
    PROVE  /\ ImageInv'
           /\ \/ Invisible
              \/ \E m \in Msgs, n \in Nat \ {0} :
                   RecoveredDB.tok[m] = 0 /\ RecoveredDB' = Stored(RecoveredDB, m, n)
              \/ \E m \in Msgs : /\ DeleteHeader(m) /\ m \in RecoveredDB.hdrs
                                 /\ RecoveredDB' = Deleted(RecoveredDB, m)
              \/ \E m \in Msgs, mark \in BOOLEAN :
                   RecoveredDB.tok[m] # 0 /\ RecoveredDB' = Marked(RecoveredDB, m, mark)
  <1>0. DbFiles(msf) /\ MboxFiles(mbox)
    BY DEF StructureInv, TypeOK
  <1>1. CASE AcquireSemaphore \/ ReleaseSemaphore
    <2>1. UNCHANGED <<mbox, msf, pc, rv, mKeepRecoveryFiles>>
      BY <1>1 DEF AcquireSemaphore, ReleaseSemaphore, files, memory
    <2> QED
      BY <2>1 DEF Invisible, ImageInv, ViewInv, NoOriginalInv, NewDB, RecoveredDB, EmptyDB, Local, SameView
  <1>2. ASSUME NEW m \in Msgs, StoreMessage(m)
        PROVE  /\ ImageInv'
               /\ \E n \in Nat \ {0} : RecoveredDB.tok[m] = 0 /\ RecoveredDB' = Stored(RecoveredDB, m, n)
    <2> DEFINE old == IF "live" \in DOMAIN mbox THEN mbox["live"] ELSE << >>
               n == Len(old) + 1
    <2>1. /\ Clean(mbox, msf) /\ "live" \in DOMAIN msf /\ pc' = "idle" /\ msf["live"].tok[m] = 0
          /\ mbox' = Write(mbox, "live", Append(old, m))
          /\ msf' = Write(msf, "live", Stored(msf["live"], m, n))
      BY <1>2 DEF StoreMessage, Usable, StructureInv, HolderInv
    <2>2. n \in Nat \ {0}
      BY <1>0 DEF MboxFiles
    <2> HIDE DEF n
    <2>3. RecoveredDB = msf["live"]
      BY <2>1 DEF RecoveredDB, Clean
    <2>4. RecoveredDB' = Stored(RecoveredDB, m, n)
      BY <2>1, <2>3 DEF RecoveredDB, Write, Clean
    <2> QED
      BY <2>1, <2>2, <2>3, <2>4 DEF ImageInv, ViewInv, NoOriginalInv, Renewing, Building, Switching
  <1>3. ASSUME NEW db, InEventLoop, Clean(mbox, msf), "live" \in DOMAIN msf,
               pc = "idle" \/ ConcurrentDelete, Local(db) \subseteq Local(msf["live"]),
               msf' = Write(msf, "live", db), UNCHANGED <<mbox, memory, holder, pc, shutting>>
        PROVE  RecoveredDB = msf["live"] /\ RecoveredDB' = db /\ ImageInv'
    <2>1. RecoveredDB = msf["live"]
      BY <1>3 DEF RecoveredDB, Clean
    <2>2. RecoveredDB' = db
      BY <1>3 DEF RecoveredDB, Write, Clean
    <2>3. /\ DOMAIN msf' = DOMAIN msf
          /\ "compacting" \in DOMAIN msf => msf'["compacting"] = msf["compacting"]
      BY <1>3 DEF Write
    <2>4. NoOriginalInv'
      BY <1>3, <2>3 DEF NoOriginalInv, InEventLoop
    <2>5. ViewInv'
      <3>1. CASE pc = "idle"
        BY <1>3, <3>1 DEF ViewInv, Renewing, Building, Switching
      <3>2. CASE pc # "idle"
        <4>1. pc \in Building \cap Renewing /\ ConcurrentDelete /\ "compacting" \in DOMAIN msf
          BY <1>3, <3>2 DEF InEventLoop, Building, Renewing, StructureInv, MsfFilesInv
        <4>2. NewDB = msf["compacting"] /\ NewDB' = msf["compacting"]
          BY <1>3, <2>3, <4>1 DEF NewDB, Building
        <4>3. Local(RecoveredDB) \subseteq Local(NewDB)
          BY <4>1 DEF ImageInv, ViewInv
        <4>4. Local(RecoveredDB') \subseteq Local(NewDB')
          BY <1>3, <2>1, <2>2, <4>2, <4>3
        <4> QED
          BY <4>1, <4>4 DEF ViewInv, Local
      <3> QED
        BY <3>1, <3>2
    <2> QED
      BY <2>1, <2>2, <2>4, <2>5 DEF ImageInv
  <1>4. ASSUME NEW m \in Msgs, DeleteHeader(m)
        PROVE  ImageInv' /\ m \in RecoveredDB.hdrs /\ RecoveredDB' = Deleted(RecoveredDB, m)
    <2>1. "live" \in DOMAIN msf /\ msf["live"] \in DBs
      BY <1>0, <1>4 DEF DeleteHeader, DbFiles
    <2>2. Local(Deleted(msf["live"], m)) \subseteq Local(msf["live"])
      BY <2>1 DEF Local, Deleted, DBs
    <2> QED
      BY <1>3, <1>4, <2>2 DEF DeleteHeader, Usable
  <1>5. ASSUME NEW m \in Msgs, NEW mark \in BOOLEAN, MarkPendingRemoval(m, mark)
        PROVE  /\ ImageInv'
               /\ RecoveredDB.tok[m] # 0 /\ RecoveredDB' = Marked(RecoveredDB, m, mark)
    <2>1. "live" \in DOMAIN msf /\ msf["live"] \in DBs
      BY <1>0, <1>5 DEF MarkPendingRemoval, DbFiles
    <2>2. Local(Marked(msf["live"], m, mark)) \subseteq Local(msf["live"])
      BY <2>1 DEF Local, Marked, DBs
    <2> QED
      BY <1>3, <1>5, <2>2 DEF MarkPendingRemoval, Usable
  <1>6. CASE \E m \in Msgs : StoreMessage(m) \/ DeleteHeader(m)
    BY <1>2, <1>4, <1>6
  <1>7. CASE \E m \in Msgs, mark \in BOOLEAN : MarkPendingRemoval(m, mark)
    BY <1>5, <1>7
  <1> QED
    BY <1>1, <1>6, <1>7 DEF Others

\* All that users can see of a step.
Seen ==
    \/ Invisible
    \/ Exchanged
    \/ RecoveredDB' = PurgePending(RecoveredDB)
    \/ \E m \in Msgs, n \in Nat \ {0} :
         RecoveredDB.tok[m] = 0 /\ RecoveredDB' = Stored(RecoveredDB, m, n)
    \/ \E m \in Msgs :
         DeleteHeader(m) /\ m \in RecoveredDB.hdrs /\ RecoveredDB' = Deleted(RecoveredDB, m)
    \/ \E m \in Msgs, mark \in BOOLEAN :
         RecoveredDB.tok[m] # 0 /\ RecoveredDB' = Marked(RecoveredDB, m, mark)

LEMMA EveryStep ==
    ASSUME ~Unattended, "dbInstall" \notin Failable, StructureInv, ContentInv, ImageInv, [Next]_vars
    PROVE  Seen /\ ImageInv'
  <1>1. CASE Compact
    <2>1. CASE MboxInstall
      BY <2>1, MboxInstallView DEF Seen
    <2>2. CASE ~MboxInstall
      BY <1>1, <2>2, CopyDBView, StartScanView, OnStopRequestView, MoveView, EndView DEF Compact, Seen
    <2> QED
      BY <2>1, <2>2
  <1>2. CASE BeginCompacting
    BY <1>2, BeginView DEF Seen
  <1>3. CASE Others
    BY <1>3, OthersView DEF Seen
  <1>4. CASE Observe \/ Restart \/ Crash \/ Recover
    BY <1>4, EnvironmentView DEF Seen
  <1>5. CASE UNCHANGED vars
    BY <1>5 DEF vars, Seen, Invisible, ImageInv, ViewInv, NoOriginalInv, NewDB, RecoveredDB, EmptyDB,
                Local, SameView
  <1> QED
    BY <1>1, <1>2, <1>3, <1>4, <1>5 DEF Next

LEMMA ImageHolds ==
    ASSUME ~Unattended, "dbInstall" \notin Failable
    PROVE  Spec => []ImageInv
  <1>1. Init => ImageInv
    BY DEF Init, ImageInv, ViewInv, NoOriginalInv, Renewing, Building, Switching
  <1>2. StructureInv /\ ContentInv /\ ImageInv /\ [Next]_vars => ImageInv'
    BY EveryStep
  <1> QED
    BY <1>1, <1>2, Structure, ContentHolds, PTL DEF Spec

\* What each change makes of what users see.
LEMMA PurgedView ==
    ASSUME NEW db \in DBs
    PROVE  /\ PurgePending(db).hdrs = db.hdrs /\ PurgePending(db).pending = db.pending
           /\ Local(PurgePending(db)) = Local(db) \ db.pending
  BY DEF DBs, PurgePending, Local

LEMMA StoredView ==
    ASSUME NEW db \in DBs, NEW m \in Msgs, NEW n \in Nat \ {0}
    PROVE  /\ Stored(db, m, n).hdrs = db.hdrs \cup {m} /\ Stored(db, m, n).pending = db.pending
           /\ Local(Stored(db, m, n)) = Local(db) \cup {m}
  BY DEF DBs, Stored, Local

LEMMA DeletedView ==
    ASSUME NEW db \in DBs, NEW m \in Msgs
    PROVE  /\ Deleted(db, m).hdrs = db.hdrs \ {m} /\ Deleted(db, m).pending = db.pending \ {m}
           /\ Local(Deleted(db, m)) = Local(db) \ {m}
  BY DEF DBs, Deleted, Local

LEMMA MarkedView ==
    ASSUME NEW db \in DBs, NEW m \in Msgs, NEW mark \in BOOLEAN
    PROVE  /\ Marked(db, m, mark).hdrs = db.hdrs /\ Local(Marked(db, m, mark)) = Local(db)
           /\ Marked(db, m, mark).pending \in {db.pending \cup {m}, db.pending \ {m}}
  BY DEF DBs, Marked, Local

\* What users can read is what has a token, at any time.
ReadInv ==
    /\ RecoveredDB \in DBs
    /\ Readable = Local(RecoveredDB)
    /\ Readable \subseteq RecoveredDB.hdrs

LEMMA ReadHolds == ASSUME ~Unattended PROVE Spec => []ReadInv
  <1>1. StructureInv /\ ContentInv => ReadInv
    BY RecoveredIsDB, ReadableIsLocal DEF ContentInv, ReadInv
  <1> QED
    BY <1>1, Structure, ContentHolds, PTL

\* No failure, no crash and no rollback (FolderCompactor::OnCompactionComplete,
\* MboxCompactor::OnStopScan) loses the local copy of a message that is neither marked
\* for removal nor being deleted, also when headers are deleted while a compaction runs.
THEOREM CompactionLosesNothing ==
    ASSUME ~Unattended, "dbInstall" \notin Failable
    PROVE  Spec => NoMessageLost
  <1> DEFINE Kept == \A m \in Readable : m \in Readable' \/ m \in RecoveredDB.pending \/ DeleteHeader(m)
  <1>1. ASSUME StructureInv, ContentInv, ImageInv, ReadInv, ReadInv', [Next]_vars
        PROVE  Kept
    <2>1. RecoveredDB \in DBs /\ Readable = Local(RecoveredDB)
      BY <1>1 DEF ReadInv
    <2>2. Readable' = Local(RecoveredDB')
      BY <1>1 DEF ReadInv, Local
    <2>3. Seen
      BY <1>1, EveryStep
    <2>4. CASE Invisible \/ Exchanged
      BY <2>1, <2>2, <2>4 DEF Invisible, Exchanged
    <2>5. CASE RecoveredDB' = PurgePending(RecoveredDB)
      <3>1. Local(RecoveredDB') = Local(RecoveredDB) \ RecoveredDB.pending
        BY <2>1, <2>5, PurgedView
      <3> QED
        BY <2>1, <2>2, <3>1
    <2>6. ASSUME NEW k \in Msgs, NEW n \in Nat \ {0}, RecoveredDB' = Stored(RecoveredDB, k, n)
          PROVE  Kept
      <3>1. Local(RecoveredDB') = Local(RecoveredDB) \cup {k}
        BY <2>1, <2>6, StoredView
      <3> QED
        BY <2>1, <2>2, <3>1
    <2>7. ASSUME NEW k \in Msgs, DeleteHeader(k), RecoveredDB' = Deleted(RecoveredDB, k)
          PROVE  Kept
      <3>1. Local(RecoveredDB') = Local(RecoveredDB) \ {k}
        BY <2>1, <2>7, DeletedView
      <3> QED
        BY <2>1, <2>2, <2>7, <3>1
    <2>8. ASSUME NEW k \in Msgs, NEW mark \in BOOLEAN, RecoveredDB' = Marked(RecoveredDB, k, mark)
          PROVE  Kept
      <3>1. Local(RecoveredDB') = Local(RecoveredDB)
        BY <2>1, <2>8, MarkedView
      <3> QED
        BY <2>1, <2>2, <3>1
    <2> HIDE DEF Kept
    <2> QED
      BY <2>3, <2>4, <2>5, <2>6, <2>7, <2>8 DEF Seen
  <1>2. StructureInv /\ ContentInv /\ ImageInv /\ ReadInv /\ ReadInv' /\ [Next]_vars => [Kept]_vars
    BY <1>1
  <1> QED
    BY <1>2, Structure, ContentHolds, ImageHolds, ReadHolds, PTL DEF Spec, NoMessageLost

\* A compaction cannot be seen, but for the purge: looked at through any recovery, the
\* folder behaves like AtomicFolder whatever fails and wherever the program dies, if
\* nobody else changes the database while a compaction runs.
THEOREM CompactionRefinesAtomicFolder ==
    ASSUME ~Unattended, ~ConcurrentDelete, "dbInstall" \notin Failable
    PROVE  Spec => RefinesAtomicFolder
  <1>1. ASSUME Init, ReadInv PROVE Atomic!AInit
    <2>1. PICK db : msf = [s \in {"live"} |-> db] /\ db.pending = {}
      BY <1>1 DEF Init
    <2>2. RecoveredDB = db
      BY <2>1 DEF RecoveredDB
    <2> QED
      BY <1>1, <2>1, <2>2 DEF ReadInv, DBs, Atomic!AInit
  <1>2. ASSUME StructureInv, ContentInv, ImageInv, ReadInv, ReadInv', [Next]_vars
        PROVE  [Atomic!ANext]_Atomic!avars
    <2> DEFINE db == RecoveredDB
               new == RecoveredDB'
    <2>1. /\ db \in DBs /\ Readable = Local(db) /\ Readable' = Local(new)
      BY <1>2 DEF ReadInv, Local
    <2>2. Seen
      BY <1>2, EveryStep
    <2>3. CASE Invisible \/ Exchanged
      <3>1. db.hdrs = new.hdrs /\ db.pending = new.pending /\ Local(db) = Local(new)
        BY <2>3 DEF Invisible, Exchanged, SameView
      <3> QED
        BY <2>1, <3>1 DEF Atomic!avars
    <2>4. CASE new = PurgePending(db)
      <3>1. new.hdrs = db.hdrs /\ new.pending = db.pending /\ Local(new) = Local(db) \ db.pending
        BY <2>1, <2>4, PurgedView
      <3>2. Atomic!Purge
        BY <2>1, <3>1 DEF Atomic!Purge
      <3> QED
        BY <3>2 DEF Atomic!ANext
    <2>5. ASSUME NEW k \in Msgs, NEW n \in Nat \ {0}, db.tok[k] = 0, new = Stored(db, k, n)
          PROVE  Atomic!ANext
      <3>1. /\ new.hdrs = db.hdrs \cup {k} /\ new.pending = db.pending
            /\ Local(new) = Local(db) \cup {k} /\ k \notin Local(db)
        BY <2>1, <2>5, StoredView DEF Local
      <3>2. Atomic!Store(k)
        BY <2>1, <3>1 DEF Atomic!Store
      <3> QED
        BY <3>2 DEF Atomic!ANext
    <2>6. ASSUME NEW k \in Msgs, k \in db.hdrs, new = Deleted(db, k)
          PROVE  Atomic!ANext
      <3>1. /\ new.hdrs = db.hdrs \ {k} /\ new.pending = db.pending \ {k}
            /\ Local(new) = Local(db) \ {k}
        BY <2>1, <2>6, DeletedView
      <3>2. Atomic!Delete(k)
        BY <2>1, <2>6, <3>1 DEF Atomic!Delete
      <3> QED
        BY <3>2 DEF Atomic!ANext
    <2>7. ASSUME NEW k \in Msgs, NEW mark \in BOOLEAN, db.tok[k] # 0, new = Marked(db, k, mark)
          PROVE  Atomic!ANext
      <3>1. /\ new.hdrs = db.hdrs /\ Local(new) = Local(db) /\ k \in Local(db)
            /\ new.pending \in {db.pending \cup {k}, db.pending \ {k}}
        BY <2>1, <2>7, MarkedView DEF Local
      <3>2. Atomic!Mark(k)
        BY <2>1, <3>1 DEF Atomic!Mark
      <3> QED
        BY <3>2 DEF Atomic!ANext
    <2> QED
      BY <2>2, <2>3, <2>4, <2>5, <2>6, <2>7 DEF Seen
  <1> QED
    BY <1>1, <1>2, Structure, ContentHolds, ImageHolds, ReadHolds, PTL
    DEF Spec, RefinesAtomicFolder, Atomic!ASpec
=============================================================================
