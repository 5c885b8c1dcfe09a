----------------------- MODULE FolderCompactionProofs -----------------------
(***************************************************************************)
(* Proofs about FolderCompaction, for any set of messages, any bound on    *)
(* the mbox, any choice of the operations that may fail, and with or       *)
(* without other code changing the database during a compaction.           *)
(***************************************************************************)
EXTENDS FolderCompaction, TLAPS

-----------------------------------------------------------------------------
(* The inductive invariant: which files exist, and what the memory says,   *)
(* at each point of a compaction.                                          *)

Scanning == {"startRequest", "stopRequest"}
Building == {"emptyScan", "startRequest", "stopRequest", "hung", "mboxCompacted"}
Starting == {"copyDB", "beginScan"}
Switching == {"dbCompacted", "dbMoveOriginal", "dbInstall", "mboxInstall"}

\* The semaphore is the compactor's for as long as it is at work.
HolderInv == pc # "idle" => holder = "compactor"

\* Which mbox files exist.
MboxFilesInv ==
    /\ pc \in Building => {"live", "compacting"} \subseteq DOMAIN mbox
    /\ pc = "mboxMoveOriginal" => {"live", "compacted"} \subseteq DOMAIN mbox
    /\ pc \in Switching =>
        {"compacted", "original"} \subseteq DOMAIN mbox /\ "live" \notin DOMAIN mbox
    /\ pc = "removeOriginal" => "live" \in DOMAIN mbox
    /\ pc = "finalSummary" /\ rv => "live" \in DOMAIN mbox
    /\ pc = "rollback" /\ movedOriginal =>
        "original" \in DOMAIN mbox /\ "live" \notin DOMAIN mbox

\* Which database files exist.
MsfFilesInv ==
    /\ pc \in Starting \cup Building \cup {"mboxMoveOriginal", "dbCompacted", "dbMoveOriginal"}
        => "live" \in DOMAIN msf
    /\ pc \in Building \cup {"beginScan", "mboxMoveOriginal", "dbCompacted"}
        => "compacting" \in DOMAIN msf
    /\ pc \in {"dbMoveOriginal", "dbInstall"} => "compacted" \in DOMAIN msf
    /\ pc = "dbInstall" => "original" \in DOMAIN msf /\ "live" \notin DOMAIN msf
    /\ pc = "mboxInstall" => {"live", "original"} \subseteq DOMAIN msf
    /\ pc = "removeOriginal" => "live" \in DOMAIN msf
    /\ pc = "finalSummary" /\ rv => "live" \in DOMAIN msf

\* What the compactor remembers.
MemoryInv ==
    /\ pc \in {"idle", "mboxMoveOriginal"} \cup Starting \cup Building => ~movedOriginal
    /\ pc \in {"rollback", "discard"} => ~rv
    /\ pc = "emptyScan" => cur = 0
    /\ pc \in Scanning =>
        cur \in 1 .. Len(mbox["live"]) /\ Len(mbox["compacting"]) < cur
    /\ pc = "stopRequest" /\ rv => (mMsgOut <=> cur \in DOMAIN mMsgsToKeep)

StructureInv == TypeOK /\ HolderInv /\ MboxFilesInv /\ MsfFilesInv /\ MemoryInv

-----------------------------------------------------------------------------
(* Directories and databases *)

\* Writing an mbox to a directory leaves a directory of mboxes.
LEMMA MboxFilesWritten ==
    ASSUME NEW dir, MboxFiles(dir), NEW s \in Slots,
           NEW box \in Seq(Msgs), Len(box) <= MaxMbox
    PROVE  MboxFiles(Write(dir, s, box))
  BY DEF MboxFiles, Write

\* So does renaming one of its files,
LEMMA MboxFilesRenamed ==
    ASSUME NEW dir, MboxFiles(dir), NEW s \in DOMAIN dir, NEW t \in Slots
    PROVE  MboxFiles(Rename(dir, s, t))
  BY DEF MboxFiles, Rename

\* and so does removing some.
LEMMA MboxFilesRemoved ==
    ASSUME NEW dir, MboxFiles(dir), NEW names
    PROVE  MboxFiles(Remove(dir, names))
  BY DEF MboxFiles, Remove, Restrict

\* Writing a database to a directory leaves a directory of databases.
LEMMA DbFilesWritten ==
    ASSUME NEW dir, DbFiles(dir), NEW s \in Slots, NEW db \in DBs
    PROVE  DbFiles(Write(dir, s, db))
  BY DEF DbFiles, Write

\* So does renaming one of its files,
LEMMA DbFilesRenamed ==
    ASSUME NEW dir, DbFiles(dir), NEW s \in DOMAIN dir, NEW t \in Slots
    PROVE  DbFiles(Rename(dir, s, t))
  BY DEF DbFiles, Rename

\* and so does removing some.
LEMMA DbFilesRemoved ==
    ASSUME NEW dir, DbFiles(dir), NEW names
    PROVE  DbFiles(Remove(dir, names))
  BY DEF DbFiles, Remove, Restrict

\* What is done to a database leaves a database: storing a message,
LEMMA StoredDB ==
    ASSUME NEW db \in DBs, NEW m \in Msgs, NEW n \in Nat
    PROVE  Stored(db, m, n) \in DBs
  BY DEF DBs, Stored

\* deleting one,
LEMMA DeletedDB ==
    ASSUME NEW db \in DBs, NEW m \in Msgs
    PROVE  Deleted(db, m) \in DBs
  BY DEF DBs, Deleted

\* marking one for removal,
LEMMA MarkedDB ==
    ASSUME NEW db \in DBs, NEW m \in Msgs, NEW mark \in BOOLEAN
    PROVE  Marked(db, m, mark) \in DBs
  BY DEF DBs, Marked

\* purging what is marked (BuildKeepMap),
LEMMA PurgedDB == \A db \in DBs : PurgePending(db) \in DBs
  BY DEF DBs, PurgePending

\* entering a new token (OnMessageRetained),
LEMMA RetainedDB == \A db \in DBs, m \in Msgs, n \in Nat : Retain(db, m, n) \in DBs
  BY DEF DBs, Retain

\* starting from nothing,
LEMMA EmptyIsDB == EmptyDB \in DBs
  BY DEF DBs, EmptyDB

\* zeroing the expunged bytes (OnCompactionComplete).
LEMMA ZeroedDB == \A db \in DBs : ZeroExpunged(db) \in DBs
  BY DEF DBs, ZeroExpunged

-----------------------------------------------------------------------------
\* A folder before any compaction has the structure.
LEMMA InitStructure == Init => StructureInv
  <1> SUFFICES ASSUME Init PROVE StructureInv
    OBVIOUS
  <1>1. TypeOK
    <2>1. PICK n \in 0 .. MaxMbox : \E box \in [1 .. n -> Msgs] :
            mbox = [s \in {"live"} |-> box] \/ mbox = [s \in {} |-> box]
      BY DEF Init
    <2>2. PICK box \in [1 .. n -> Msgs] :
            mbox = [s \in {"live"} |-> box] \/ mbox = [s \in {} |-> box]
      BY <2>1
    <2>3. box \in Seq(Msgs) /\ Len(box) <= MaxMbox
      BY MaxMboxAssumption
    <2>4. MboxFiles(mbox)
      BY <2>2, <2>3 DEF MboxFiles, Slots
    <2>5. PICK db \in DBs : msf = [s \in {"live"} |-> db]
      BY MaxMboxAssumption DEF Init, DBs
    <2>6. DbFiles(msf)
      BY <2>5 DEF DbFiles, Slots
    <2>7. DOMAIN mMsgsToKeep = {}
      BY DEF Init
    <2>8. cur \in 0 .. MaxMbox
      BY MaxMboxAssumption DEF Init
    <2> QED
      BY <2>4, <2>6, <2>7, <2>8 DEF Init, TypeOK, Pcs
  <1>2. HolderInv /\ MboxFilesInv /\ MsfFilesInv /\ MemoryInv
    BY DEF Init, HolderInv, MboxFilesInv, MsfFilesInv, MemoryInv, Scanning, Building,
           Starting, Switching
  <1> QED
    BY <1>1, <1>2 DEF StructureInv

\* The folder's other users keep the structure.
LEMMA OthersStructure == StructureInv /\ Others => StructureInv'
  <1> USE DEF StructureInv, HolderInv
  <1> SUFFICES ASSUME StructureInv, Others PROVE StructureInv'
    OBVIOUS
  <1>0. /\ MboxFiles(mbox) /\ DbFiles(msf) /\ "live" \in Slots
        /\ "live" \in DOMAIN msf => msf["live"] \in DBs
    BY DEF TypeOK, DbFiles, Slots
  <1>1. CASE AcquireSemaphore \/ ReleaseSemaphore
    BY <1>1 DEF AcquireSemaphore, ReleaseSemaphore, InEventLoop, files, memory, TypeOK, MboxFilesInv,
                MsfFilesInv, MemoryInv
  <1>2. ASSUME NEW m \in Msgs, StoreMessage(m) PROVE StructureInv'
    <2> DEFINE old == IF "live" \in DOMAIN mbox THEN mbox["live"] ELSE << >>
    <2>1. old \in Seq(Msgs) /\ Len(old) < MaxMbox
      BY <1>2 DEF StoreMessage, TypeOK, MboxFiles
    <2>2. Append(old, m) \in Seq(Msgs) /\ Len(Append(old, m)) <= MaxMbox
      BY <2>1, MaxMboxAssumption
    <2>3. mbox' = Write(mbox, "live", Append(old, m))
      BY <1>2 DEF StoreMessage
    <2>4. MboxFiles(mbox')
      BY <1>0, <2>2, <2>3, MboxFilesWritten
    <2>5. Stored(msf["live"], m, Len(old) + 1) \in DBs
      BY <1>0, <1>2, <2>1, StoredDB DEF StoreMessage
    <2>6. msf' = Write(msf, "live", Stored(msf["live"], m, Len(old) + 1))
      BY <1>2 DEF StoreMessage
    <2>7. DbFiles(msf')
      BY <1>0, <2>5, <2>6, DbFilesWritten
    <2>8. TypeOK'
      BY <1>2, <2>4, <2>7 DEF StoreMessage, memory, TypeOK
    <2>9. pc = "idle" /\ pc' = "idle" /\ movedOriginal' = movedOriginal
      BY <1>2 DEF StoreMessage, memory
    <2> QED
      BY <2>8, <2>9 DEF MboxFilesInv, MsfFilesInv, MemoryInv, Scanning, Building, Starting, Switching
  <1>3. ASSUME NEW m \in Msgs, DeleteHeader(m) PROVE StructureInv'
    <2>1. Deleted(msf["live"], m) \in DBs /\ "live" \in DOMAIN msf
      BY <1>0, <1>3, DeletedDB DEF DeleteHeader
    <2>2. msf' = Write(msf, "live", Deleted(msf["live"], m))
      BY <1>3 DEF DeleteHeader
    <2>3. DbFiles(msf')
      BY <1>0, <2>1, <2>2, DbFilesWritten
    <2>4. DOMAIN msf' = DOMAIN msf
      BY <2>1, <2>2 DEF Write
    <2>5. TypeOK'
      BY <1>3, <2>3 DEF DeleteHeader, memory, TypeOK
    <2> QED
      BY <1>3, <2>4, <2>5 DEF DeleteHeader, memory, MboxFilesInv, MsfFilesInv, MemoryInv
  <1>4. ASSUME NEW m \in Msgs, NEW mark \in BOOLEAN, MarkPendingRemoval(m, mark) PROVE StructureInv'
    <2>1. Marked(msf["live"], m, mark) \in DBs /\ "live" \in DOMAIN msf
      BY <1>0, <1>4, MarkedDB DEF MarkPendingRemoval
    <2>2. msf' = Write(msf, "live", Marked(msf["live"], m, mark))
      BY <1>4 DEF MarkPendingRemoval
    <2>3. DbFiles(msf')
      BY <1>0, <2>1, <2>2, DbFilesWritten
    <2>4. DOMAIN msf' = DOMAIN msf
      BY <2>1, <2>2 DEF Write
    <2>5. TypeOK'
      BY <1>4, <2>3 DEF MarkPendingRemoval, memory, TypeOK
    <2> QED
      BY <1>4, <2>4, <2>5 DEF MarkPendingRemoval, memory, MboxFilesInv, MsfFilesInv, MemoryInv
  <1> QED
    BY <1>1, <1>2, <1>3, <1>4 DEF Others

\* BeginCompacting, up to the copying of the database, keeps the structure.
LEMMA BeginCompactingStructure == StructureInv /\ BeginCompacting => StructureInv'
  <1> USE DEF StructureInv, HolderInv
  <1> SUFFICES ASSUME StructureInv, BeginCompacting PROVE StructureInv'
    OBVIOUS
  <1>1. "live" \in DOMAIN msf /\ msf["live"] \in DBs /\ "live" \in Slots /\ DbFiles(msf)
    BY DEF BeginCompacting, TypeOK, DbFiles, Slots
  <1>2. msf' = Write(msf, "live", PurgePending(msf["live"]))
    BY DEF BeginCompacting
  <1>3. DbFiles(msf')
    BY <1>1, <1>2, PurgedDB, DbFilesWritten
  <1>4. DOMAIN msf' = DOMAIN msf
    BY <1>1, <1>2 DEF Write
  <1>5. /\ DOMAIN mMsgsToKeep' \subseteq Nat
        /\ \A t \in DOMAIN mMsgsToKeep' : mMsgsToKeep'[t] \in Msgs
    <2> DEFINE kept == {m \in msf["live"].hdrs \ msf["live"].pending : msf["live"].tok[m] # 0}
    <2>1. mMsgsToKeep' \in [{msf["live"].tok[m] : m \in kept} -> kept]
      BY DEF BeginCompacting, KeepMaps
    <2>2. kept \subseteq Msgs /\ \A m \in kept : msf["live"].tok[m] \in Nat
      BY <1>1 DEF DBs
    <2> HIDE DEF kept
    <2> QED
      BY <2>1, <2>2
  <1>6. TypeOK'
    BY <1>3, <1>5 DEF BeginCompacting, TypeOK, Pcs
  <1> QED
    BY <1>1, <1>4, <1>6 DEF BeginCompacting, MboxFilesInv, MsfFilesInv, MemoryInv, Scanning,
                            Building, Starting, Switching

\* Shutdown, restart, crash and recovery keep the structure.
LEMMA EnvironmentStructure ==
    StructureInv /\ (Observe \/ Restart \/ Crash \/ Recover) => StructureInv'
  <1> USE DEF StructureInv, HolderInv
  <1> SUFFICES ASSUME StructureInv, Observe \/ Restart \/ Crash \/ Recover PROVE StructureInv'
    OBVIOUS
  <1>1. CASE Observe
    BY <1>1 DEF Observe, files, memory, TypeOK, MboxFilesInv, MsfFilesInv, MemoryInv
  <1>2. CASE Restart
    BY <1>2 DEF Restart, files, memory, TypeOK, MboxFilesInv, MsfFilesInv, MemoryInv
  <1>3. CASE Crash
    <2>1. DOMAIN mMsgsToKeep' = {} /\ cur' \in 0 .. MaxMbox
      BY <1>3, MaxMboxAssumption DEF Crash, ForgetCompaction
    <2>2. TypeOK'
      BY <1>3, <2>1 DEF Crash, ForgetCompaction, files, TypeOK, Pcs
    <2> QED
      BY <1>3, <2>2 DEF Crash, ForgetCompaction, MboxFilesInv, MsfFilesInv, MemoryInv, Scanning,
                        Building, Starting, Switching
  <1>4. CASE Recover
    <2>1. RecoveredMbox \in Seq(Msgs) /\ Len(RecoveredMbox) <= MaxMbox
      BY MaxMboxAssumption DEF RecoveredMbox, TypeOK, MboxFiles
    <2>2. MboxFiles(mbox')
      BY <1>4, <2>1 DEF Recover, MboxFiles, Slots
    <2>3. RecoveredDB \in DBs
      BY EmptyIsDB DEF RecoveredDB, TypeOK, DbFiles
    <2>4. DbFiles(msf')
      BY <1>4, <2>3 DEF Recover, DbFiles, Slots
    <2>5. TypeOK'
      BY <1>4, <2>2, <2>4 DEF Recover, memory, TypeOK
    <2> QED
      BY <1>4, <2>5 DEF Recover, memory, MboxFilesInv, MsfFilesInv, MemoryInv, Scanning,
                        Building, Starting, Switching
  <1> QED
    BY <1>1, <1>2, <1>3, <1>4

\* Every step of a compaction keeps the structure.
LEMMA CompactStructure == StructureInv /\ Compact => StructureInv'
  <1> USE DEF StructureInv, HolderInv
  <1> SUFFICES ASSUME StructureInv, Compact PROVE StructureInv'
    OBVIOUS
  <1>0. MboxFiles(mbox) /\ DbFiles(msf) /\ Slots = {"live", "compacting", "compacted", "original"}
    BY DEF TypeOK, Slots
  <1>a. ASSUME GiveUp, UNCHANGED shutting, MboxFiles(mbox'), DbFiles(msf') PROVE StructureInv'
    <2>1. DOMAIN mMsgsToKeep' = {} /\ cur' \in 0 .. MaxMbox
      BY <1>a, MaxMboxAssumption DEF GiveUp, ForgetCompaction
    <2>2. TypeOK'
      BY <1>a, <2>1 DEF GiveUp, ForgetCompaction, TypeOK, Pcs
    <2> QED
      BY <1>a, <2>2 DEF GiveUp, ForgetCompaction, MboxFilesInv, MsfFilesInv, MemoryInv, Scanning,
                        Building, Starting, Switching
  <1>1. CASE CopyDB
    <2>1. CASE msf' = Write(msf, "compacting", msf["live"]) /\ pc' = "beginScan"
                /\ UNCHANGED <<holder, memory>>
      <3>1. "live" \in DOMAIN msf /\ msf["live"] \in DBs
        BY <1>0, <1>1 DEF CopyDB, MsfFilesInv, Starting, DbFiles
      <3>2. DbFiles(msf')
        BY <1>0, <2>1, <3>1, DbFilesWritten
      <3>3. {"live", "compacting"} \subseteq DOMAIN msf'
        BY <2>1, <3>1 DEF Write
      <3>4. TypeOK'
        BY <1>1, <2>1, <3>2 DEF CopyDB, memory, TypeOK, Pcs
      <3> QED
        BY <1>1, <2>1, <3>3, <3>4 DEF CopyDB, memory, MboxFilesInv, MsfFilesInv, MemoryInv,
                                      Scanning, Building, Starting, Switching
    <2>2. CASE GiveUp /\ UNCHANGED msf
      BY <1>0, <1>1, <1>a, <2>2 DEF CopyDB
    <2> QED
      BY <1>1, <2>1, <2>2 DEF CopyDB
  <1>2. CASE BeginScan
    <2> DEFINE opened == Write(SanityCheck(mbox), "compacting", OpenTruncated(mbox))
    <2>1. << >> \in Seq(Msgs) /\ Len(<< >>) <= MaxMbox
      BY MaxMboxAssumption
    <2>2. MboxFiles(SanityCheck(mbox)) /\ "live" \in DOMAIN SanityCheck(mbox)
      <3>1. MboxFiles(Write(mbox, "live", << >>))
        BY <1>0, <2>1, MboxFilesWritten
      <3> QED
        BY <1>0, <3>1 DEF SanityCheck, Write
    <2>3. MboxFiles(opened) /\ "live" \in DOMAIN opened /\ "compacting" \in DOMAIN opened
          /\ opened["compacting"] = << >>
      <3>1. MboxFiles(opened)
        BY <1>0, <2>1, <2>2, MboxFilesWritten DEF OpenTruncated
      <3> QED
        BY <2>2, <3>1 DEF Write, OpenTruncated
    <2>4. CASE /\ mbox' = opened
               /\ cur' = IF opened["live"] = << >> THEN 0 ELSE 1
               /\ pc' = IF opened["live"] = << >> THEN "emptyScan" ELSE "startRequest"
               /\ UNCHANGED <<holder, mMsgsToKeep, mMsgOut, rv, vetoed, movedOriginal,
                              mKeepRecoveryFiles>>
      <3> HIDE DEF opened
      <3>1. opened["live"] \in Seq(Msgs) /\ Len(opened["live"]) <= MaxMbox
        BY <2>3 DEF MboxFiles
      <3>2. /\ cur' \in 0 .. MaxMbox
            /\ pc' = "startRequest" => cur' = 1 /\ 1 <= Len(opened["live"])
        BY <2>4, <3>1, MaxMboxAssumption
      <3>3. TypeOK'
        BY <1>2, <2>3, <2>4, <3>2 DEF BeginScan, TypeOK, Pcs
      <3> QED
        BY <1>2, <2>3, <2>4, <3>1, <3>2, <3>3 DEF BeginScan, MboxFilesInv, MsfFilesInv, MemoryInv,
                                       Scanning, Building, Starting, Switching
    <2>5. CASE mbox' \in {mbox, SanityCheck(mbox), opened} /\ GiveUp
      <3>1. MboxFiles(mbox') /\ DbFiles(msf') /\ UNCHANGED shutting
        BY <1>0, <1>2, <2>2, <2>3, <2>5 DEF BeginScan
      <3> QED
        BY <1>a, <2>5, <3>1
    <2> QED
      BY <1>2, <2>4, <2>5 DEF BeginScan
  <1>3. CASE NotifyEmptyScan
    BY <1>3 DEF NotifyEmptyScan, files, TypeOK, Pcs, MboxFilesInv, MsfFilesInv, MemoryInv,
                Scanning, Building, Starting, Switching
  <1>4. CASE OnStartRequest
    <2>1. rv' \in BOOLEAN /\ mMsgOut' \in BOOLEAN /\ vetoed' \in BOOLEAN
      BY <1>4 DEF OnStartRequest, Outcome, TypeOK
    <2>2. TypeOK'
      BY <1>4, <2>1 DEF OnStartRequest, files, TypeOK, Pcs
    <2> QED
      BY <1>4, <2>2 DEF OnStartRequest, files, MboxFilesInv, MsfFilesInv, MemoryInv,
                        Scanning, Building, Starting, Switching
  <1>5. CASE OnStopRequest
    <2> DEFINE new == Append(mbox["compacting"], mbox["live"][cur])
               wrote == Write(mbox, "compacting", new)
    <2>1. /\ pc = "stopRequest"
          /\ {"live", "compacting"} \subseteq DOMAIN mbox
          /\ {"live", "compacting"} \subseteq DOMAIN msf
          /\ cur \in 1 .. Len(mbox["live"]) /\ Len(mbox["compacting"]) < cur
          /\ rv /\ mMsgOut => cur \in DOMAIN mMsgsToKeep
      BY <1>5 DEF OnStopRequest, FlushBuffer, MboxFilesInv, MsfFilesInv, MemoryInv, Building, Scanning
    <2>2. /\ mbox["live"] \in Seq(Msgs) /\ Len(mbox["live"]) <= MaxMbox
          /\ mbox["compacting"] \in Seq(Msgs)
      BY <1>0, <2>1 DEF MboxFiles
    <2>3. new \in Seq(Msgs) /\ Len(new) = Len(mbox["compacting"]) + 1 /\ Len(new) <= cur
          /\ Len(new) <= MaxMbox
      BY <2>1, <2>2, MaxMboxAssumption
    <2>4. MboxFiles(wrote)
      <3> HIDE DEF new
      <3> QED BY <1>0, <2>3, MboxFilesWritten
    <2>5. DOMAIN wrote = DOMAIN mbox /\ wrote["live"] = mbox["live"] /\ wrote["compacting"] = new
      <3> HIDE DEF new
      <3> QED BY <2>1 DEF Write
    <2> HIDE DEF wrote
    <2>6. mbox' = mbox \/ mbox' = wrote
      BY <1>5 DEF OnStopRequest, FlushBuffer, wrote, files
    <2>7. /\ MboxFiles(mbox') /\ DOMAIN mbox' = DOMAIN mbox
          /\ mbox'["live"] = mbox["live"] /\ Len(mbox'["compacting"]) <= cur
      <3> HIDE DEF new
      <3> QED BY <1>0, <2>1, <2>2, <2>3, <2>4, <2>5, <2>6
    <2>8. DbFiles(msf') /\ DOMAIN msf' = DOMAIN msf
      <3>1. CASE UNCHANGED msf
        BY <1>0, <3>1
      <3>2. CASE /\ rv /\ mMsgOut
                 /\ msf' = Write(msf, "compacting",
                                 Retain(msf["compacting"], mMsgsToKeep[cur],
                                        Len(mbox["compacting"]) + 1))
        <4>1. mMsgsToKeep[cur] \in Msgs /\ Len(mbox["compacting"]) + 1 \in Nat
          BY <2>1, <2>2, <3>2 DEF TypeOK
        <4>2. Retain(msf["compacting"], mMsgsToKeep[cur], Len(mbox["compacting"]) + 1) \in DBs
          BY <1>0, <2>1, <4>1, RetainedDB DEF DbFiles
        <4>3. DbFiles(msf')
          BY <1>0, <3>2, <4>2, DbFilesWritten
        <4> QED
          BY <2>1, <3>2, <4>3 DEF Write
      <3> QED
        BY <1>5, <3>1, <3>2 DEF OnStopRequest, FlushBuffer, files
    <2>9. /\ FailScan \/ NextMessage
          /\ vetoed' \in BOOLEAN
          /\ UNCHANGED <<holder, shutting, mMsgsToKeep, movedOriginal, mKeepRecoveryFiles>>
      BY <1>5 DEF OnStopRequest, FlushBuffer, TypeOK
    <2>10. /\ rv' \in BOOLEAN /\ mMsgOut' = FALSE /\ cur' \in 0 .. MaxMbox
           /\ pc' \in {"rollback", "startRequest", "hung", "mboxCompacted"}
           /\ pc' = "rollback" => rv' = FALSE
           /\ pc' = "startRequest" =>
                cur' \in 1 .. Len(mbox["live"]) /\ Len(mbox'["compacting"]) < cur'
      <3>1. CASE FailScan
        BY <2>9, <3>1 DEF FailScan, TypeOK
      <3>2. CASE NextMessage
        <4> DEFINE newlen == Len(mbox'["compacting"])
        <4>1. newlen \in Nat /\ newlen <= cur
          BY <2>1, <2>7 DEF MboxFiles
        <4> HIDE DEF newlen
        <4>2. pc' = "startRequest" => newlen < cur' /\ cur' \in 1 .. Len(mbox["live"])
          BY <2>1, <2>2, <3>2, <4>1 DEF NextMessage, More
        <4>3. cur' \in 0 .. MaxMbox
          <5>1. Len(mbox["live"]) \in Nat
            BY <2>2
          <5>2. cur' = cur \/ (cur' = cur + 1 /\ cur < Len(mbox["live"]))
            BY <3>2 DEF NextMessage, More
          <5> QED
            BY <2>1, <2>2, <5>1, <5>2, MaxMboxAssumption DEF TypeOK
        <4>4. pc' \in {"startRequest", "hung", "mboxCompacted"} /\ rv' \in BOOLEAN /\ mMsgOut' = FALSE
          BY <3>2 DEF NextMessage, TypeOK
        <4> QED
          BY <4>2, <4>3, <4>4 DEF newlen
      <3> QED
        BY <2>9, <3>1, <3>2
    <2>11. TypeOK'
      BY <2>7, <2>8, <2>9, <2>10 DEF TypeOK, Pcs
    <2> QED
      BY <2>1, <2>7, <2>8, <2>9, <2>10, <2>11 DEF MboxFilesInv, MsfFilesInv, MemoryInv,
                        Scanning, Building, Starting, Switching
  <1>6. CASE MboxCompacted \/ MboxMoveOriginal \/ DbCompacted \/ DbMoveOriginal \/ DbInstall
    <2>0. CASE /\ RollBack /\ UNCHANGED <<holder, shutting, mMsgsToKeep, cur, mMsgOut, vetoed>>
               /\ pc \in {"mboxCompacted", "mboxMoveOriginal"} \cup Switching
      BY <2>0 DEF RollBack, files, TypeOK, Pcs, MboxFilesInv, MsfFilesInv, MemoryInv,
                  Scanning, Building, Starting, Switching
    <2>1. CASE /\ pc = "mboxCompacted"
               /\ mbox' = Rename(mbox, "compacting", "compacted")
               /\ pc' = "mboxMoveOriginal"
               /\ UNCHANGED <<msf, rv, movedOriginal, mKeepRecoveryFiles>>
               /\ UNCHANGED <<holder, shutting, mMsgsToKeep, cur, mMsgOut, vetoed>>
      <3>1. {"live", "compacting"} \subseteq DOMAIN mbox
        BY <2>1 DEF MboxFilesInv, Building
      <3>2. MboxFiles(mbox')
        BY <1>0, <2>1, <3>1, MboxFilesRenamed
      <3>3. {"live", "compacted"} \subseteq DOMAIN mbox'
        BY <2>1, <3>1 DEF Rename
      <3>4. TypeOK'
        BY <2>1, <3>2 DEF TypeOK, Pcs
      <3> QED
        BY <2>1, <3>3, <3>4 DEF MboxFilesInv, MsfFilesInv, MemoryInv,
                                Scanning, Building, Starting, Switching
    <2>2. CASE /\ pc = "mboxMoveOriginal"
               /\ mbox' = Rename(mbox, "live", "original")
               /\ movedOriginal' = TRUE
               /\ pc' = "dbCompacted"
               /\ UNCHANGED <<msf, rv, mKeepRecoveryFiles>>
               /\ UNCHANGED <<holder, shutting, mMsgsToKeep, cur, mMsgOut, vetoed>>
      <3>1. {"live", "compacted"} \subseteq DOMAIN mbox
        BY <2>2 DEF MboxFilesInv
      <3>2. MboxFiles(mbox')
        BY <1>0, <2>2, <3>1, MboxFilesRenamed
      <3>3. {"compacted", "original"} \subseteq DOMAIN mbox' /\ "live" \notin DOMAIN mbox'
        BY <2>2, <3>1 DEF Rename
      <3>4. TypeOK'
        BY <2>2, <3>2 DEF TypeOK, Pcs
      <3> QED
        BY <2>2, <3>3, <3>4 DEF MboxFilesInv, MsfFilesInv, MemoryInv,
                                Scanning, Building, Starting, Switching
    <2>3. CASE /\ pc = "dbCompacted"
               /\ msf' = Rename(Write(msf, "compacting", ZeroExpunged(msf["compacting"])),
                                "compacting", "compacted")
               /\ pc' = "dbMoveOriginal"
               /\ UNCHANGED <<mbox, rv, movedOriginal, mKeepRecoveryFiles>>
               /\ UNCHANGED <<holder, shutting, mMsgsToKeep, cur, mMsgOut, vetoed>>
      <3> DEFINE zeroed == Write(msf, "compacting", ZeroExpunged(msf["compacting"]))
      <3>1. {"live", "compacting"} \subseteq DOMAIN msf
        BY <2>3 DEF MsfFilesInv
      <3>2. DbFiles(zeroed)
        <4>1. ZeroExpunged(msf["compacting"]) \in DBs
          BY <1>0, <3>1, ZeroedDB DEF DbFiles
        <4> QED
          BY <1>0, <4>1, DbFilesWritten
      <3>3. {"live", "compacting"} \subseteq DOMAIN zeroed
        BY <3>1 DEF Write
      <3> HIDE DEF zeroed
      <3>4. msf' = Rename(zeroed, "compacting", "compacted")
        BY <2>3 DEF zeroed
      <3>5. DbFiles(msf')
        BY <1>0, <3>2, <3>3, <3>4, DbFilesRenamed
      <3>6. {"live", "compacted"} \subseteq DOMAIN msf'
        BY <3>3, <3>4 DEF Rename
      <3>7. TypeOK'
        BY <2>3, <3>5 DEF TypeOK, Pcs
      <3> QED
        BY <2>3, <3>6, <3>7 DEF MboxFilesInv, MsfFilesInv, MemoryInv,
                                Scanning, Building, Starting, Switching
    <2>4. CASE /\ pc = "dbMoveOriginal"
               /\ msf' = Rename(msf, "live", "original")
               /\ pc' = "dbInstall"
               /\ UNCHANGED <<mbox, rv, movedOriginal, mKeepRecoveryFiles>>
               /\ UNCHANGED <<holder, shutting, mMsgsToKeep, cur, mMsgOut, vetoed>>
      <3>1. {"live", "compacted"} \subseteq DOMAIN msf
        BY <2>4 DEF MsfFilesInv
      <3>2. DbFiles(msf')
        BY <1>0, <2>4, <3>1, DbFilesRenamed
      <3>3. {"compacted", "original"} \subseteq DOMAIN msf' /\ "live" \notin DOMAIN msf'
        BY <2>4, <3>1 DEF Rename
      <3>4. TypeOK'
        BY <2>4, <3>2 DEF TypeOK, Pcs
      <3> QED
        BY <2>4, <3>3, <3>4 DEF MboxFilesInv, MsfFilesInv, MemoryInv,
                                Scanning, Building, Starting, Switching
    <2>5. CASE /\ pc = "dbInstall"
               /\ msf' = Rename(msf, "compacted", "live")
               /\ mKeepRecoveryFiles' = TRUE
               /\ pc' = "mboxInstall"
               /\ UNCHANGED <<mbox, rv, movedOriginal>>
               /\ UNCHANGED <<holder, shutting, mMsgsToKeep, cur, mMsgOut, vetoed>>
      <3>1. {"compacted", "original"} \subseteq DOMAIN msf
        BY <2>5 DEF MsfFilesInv
      <3>2. DbFiles(msf')
        BY <1>0, <2>5, <3>1, DbFilesRenamed
      <3>3. {"live", "original"} \subseteq DOMAIN msf'
        BY <2>5, <3>1 DEF Rename
      <3>4. TypeOK'
        BY <2>5, <3>2 DEF TypeOK, Pcs
      <3> QED
        BY <2>5, <3>3, <3>4 DEF MboxFilesInv, MsfFilesInv, MemoryInv,
                                Scanning, Building, Starting, Switching
    <2> QED
      BY <1>6, <2>0, <2>1, <2>2, <2>3, <2>4, <2>5
      DEF MboxCompacted, MboxMoveOriginal, DbCompacted, DbMoveOriginal, DbInstall, Switching
  <1>7. CASE MboxInstall
    <2>1. {"compacted", "original"} \subseteq DOMAIN mbox /\ {"live", "original"} \subseteq DOMAIN msf
      BY <1>7 DEF MboxInstall, MboxFilesInv, MsfFilesInv, Switching
    <2>2. MboxFiles(mbox')
      BY <1>0, <1>7, <2>1, MboxFilesRenamed DEF MboxInstall
    <2>3. pc' = "removeOriginal" => "live" \in DOMAIN mbox'
      BY <1>7, <2>1 DEF MboxInstall, Rename
    <2>4. TypeOK'
      BY <1>7, <2>2 DEF MboxInstall, TypeOK, Pcs
    <2> QED
      BY <1>7, <2>1, <2>3, <2>4 DEF MboxInstall, MboxFilesInv, MsfFilesInv, MemoryInv,
                                    Scanning, Building, Starting, Switching
  <1>8. CASE RemoveOriginal
    <2>1. PICK gone \in SUBSET {"original"} : mbox' = Remove(mbox, gone)
      BY <1>8 DEF RemoveOriginal, Removed
    <2>2. MboxFiles(mbox')
      BY <1>0, <2>1, MboxFilesRemoved
    <2>3. "live" \in DOMAIN mbox' /\ "live" \in DOMAIN msf
      BY <1>8, <2>1 DEF RemoveOriginal, MboxFilesInv, MsfFilesInv, Remove, Restrict
    <2>4. TypeOK'
      BY <1>8, <2>2 DEF RemoveOriginal, memory, TypeOK, Pcs
    <2> QED
      BY <1>8, <2>3, <2>4 DEF RemoveOriginal, memory, MboxFilesInv, MsfFilesInv, MemoryInv,
                              Scanning, Building, Starting, Switching
  <1>9. CASE RestoreOriginal
    <2>1. MboxFiles(mbox')
      BY <1>0, <1>9, MboxFilesRenamed DEF RestoreOriginal, MboxFilesInv
    <2>2. TypeOK'
      BY <1>9, <2>1 DEF RestoreOriginal, memory, TypeOK, Pcs
    <2> QED
      BY <1>9, <2>2 DEF RestoreOriginal, memory, MboxFilesInv, MsfFilesInv, MemoryInv,
                        Scanning, Building, Starting, Switching
  <1>10. CASE Discard
    <2>1. PICK gone : mbox' = Remove(mbox, gone)
      BY <1>10 DEF Discard
    <2>2. MboxFiles(mbox')
      BY <1>0, <2>1, MboxFilesRemoved
    <2>3. TypeOK'
      BY <1>10, <2>2 DEF Discard, memory, TypeOK, Pcs
    <2> QED
      BY <1>10, <2>3 DEF Discard, memory, MboxFilesInv, MsfFilesInv, MemoryInv,
                         Scanning, Building, Starting, Switching
  <1>11. CASE OnFinalSummary
    <2>1. PICK gone : msf' = Remove(msf, gone)
      BY <1>11 DEF OnFinalSummary
    <2>2. DbFiles(msf') /\ MboxFiles(mbox')
      BY <1>0, <1>11, <2>1, DbFilesRemoved DEF OnFinalSummary
    <2> QED
      BY <1>11, <1>a, <2>2 DEF OnFinalSummary, GiveUp
  <1> QED
    BY <1>1, <1>2, <1>3, <1>4, <1>5, <1>6, <1>7, <1>8, <1>9, <1>10, <1>11 DEF Compact

\* Every behaviour of the specification has the structure of StructureInv: the
\* files each step is about to rename are there, whatever failed before.
THEOREM Structure == Spec => []StructureInv
  <1>1. StructureInv /\ [Next]_vars => StructureInv'
    <2> SUFFICES ASSUME StructureInv, [Next]_vars PROVE StructureInv'
      OBVIOUS
    <2>1. CASE Next
      BY <2>1, OthersStructure, BeginCompactingStructure, EnvironmentStructure,
         CompactStructure DEF Next
    <2>2. CASE UNCHANGED vars
      BY <2>2 DEF vars, StructureInv, TypeOK, HolderInv, MboxFilesInv, MsfFilesInv, MemoryInv
    <2> QED
      BY <2>1, <2>2
  <1> QED
    BY <1>1, InitStructure, PTL DEF Spec

\* Every variable keeps its type; in particular no mbox outgrows its bound: the
\* new mbox never holds more than was read of the old one.
THEOREM TypeCorrect == Spec => []TypeOK
  BY Structure, PTL DEF StructureInv
-----------------------------------------------------------------------------
(* A refusal by a callback *)

\* A compaction that was refused has failed from then on, or had nothing to scan; the
\* next message is only asked for after everyone agreed to the last.
VetoInv ==
    /\ vetoed => ~rv \/ cur = 0
    /\ pc \in Starting \cup {"idle", "emptyScan", "startRequest"} => ~vetoed

\* The end of a message: a refusal fails the scan, and a scan that goes on was not refused.
LEMMA StopRequestVeto == StructureInv /\ VetoInv /\ OnStopRequest => VetoInv'
  <1> SUFFICES ASSUME StructureInv, VetoInv, OnStopRequest PROVE VetoInv'
    OBVIOUS
  <1>1. pc = "stopRequest" /\ cur \in Nat /\ cur # 0
    BY DEF OnStopRequest, StructureInv, MemoryInv, Scanning
  <1>2. CASE FailScan
    BY <1>2 DEF FailScan, VetoInv, Starting
  <1>3. CASE rv /\ NextMessage /\ UNCHANGED vetoed
    BY <1>1, <1>3 DEF NextMessage, VetoInv
  <1> QED
    BY <1>2, <1>3 DEF OnStopRequest

\* Every step of a compaction keeps VetoInv.
LEMMA CompactVeto == StructureInv /\ VetoInv /\ Compact => VetoInv'
  <1> SUFFICES ASSUME StructureInv, VetoInv, Compact PROVE VetoInv'
    OBVIOUS
  <1>1. CASE CopyDB \/ BeginScan
    <2>1. ~vetoed
      BY <1>1 DEF CopyDB, BeginScan, VetoInv, Starting
    <2>2. vetoed' = vetoed \/ vetoed' = FALSE
      BY <1>1 DEF CopyDB, BeginScan, GiveUp, ForgetCompaction, memory
    <2> QED
      BY <2>1, <2>2 DEF VetoInv
  <1>2. CASE NotifyEmptyScan
    <2>1. cur = 0
      BY <1>2 DEF NotifyEmptyScan, StructureInv, MemoryInv
    <2> QED
      BY <1>2, <2>1 DEF NotifyEmptyScan, VetoInv, Starting
  <1>3. CASE OnStartRequest
    BY <1>3 DEF OnStartRequest, VetoInv, Starting
  <1>4. CASE OnStopRequest
    BY <1>4, StopRequestVeto
  <1>a. ASSUME UNCHANGED <<cur, vetoed>>, rv' = rv \/ rv' = FALSE,
               pc' \notin Starting \cup {"idle", "emptyScan", "startRequest"}
        PROVE  VetoInv'
    BY <1>a DEF VetoInv
  <1>5. CASE MboxCompacted \/ MboxMoveOriginal \/ DbCompacted \/ DbMoveOriginal \/ DbInstall
    <2>1. UNCHANGED <<cur, vetoed>> /\ (rv' = rv \/ rv' = FALSE)
      BY <1>5 DEF MboxCompacted, MboxMoveOriginal, DbCompacted, DbMoveOriginal, DbInstall,
                  RollBack
    <2>2. pc' \in Switching \cup {"mboxMoveOriginal", "rollback"}
      BY <1>5 DEF MboxCompacted, MboxMoveOriginal, DbCompacted, DbMoveOriginal, DbInstall,
                  RollBack, Switching
    <2> QED
      BY <1>a, <2>1, <2>2 DEF Starting, Switching
  <1>6. CASE MboxInstall \/ RemoveOriginal \/ RestoreOriginal \/ Discard
    <2>1. UNCHANGED <<cur, vetoed>> /\ (rv' = rv \/ rv' = FALSE)
      BY <1>6 DEF MboxInstall, RemoveOriginal, RestoreOriginal, Discard, memory
    <2>2. pc' \in {"removeOriginal", "discard", "finalSummary"}
      BY <1>6 DEF MboxInstall, RemoveOriginal, RestoreOriginal, Discard
    <2> QED
      BY <1>a, <2>1, <2>2 DEF Starting
  <1>7. CASE OnFinalSummary
    BY <1>7 DEF OnFinalSummary, ForgetCompaction, VetoInv, Starting
  <1> QED
    BY <1>1, <1>2, <1>3, <1>4, <1>5, <1>6, <1>7 DEF Compact

\* nsIMsgPluggableStore.idl:284, for every mbox but an empty one: once a callback of a
\* compaction has returned an error, the final summary carries a failure, whatever else
\* fails or works on the way there.
THEOREM CompactionVetoHonoured == Spec => []VetoHonoured
  <1>1. Init => VetoInv
    BY DEF Init, VetoInv, Starting
  <1>2. StructureInv /\ VetoInv /\ [Next]_vars => VetoInv'
    <2> SUFFICES ASSUME StructureInv, VetoInv, [Next]_vars PROVE VetoInv'
      OBVIOUS
    <2>1. CASE Compact
      BY <2>1, CompactVeto
    <2>2. CASE BeginCompacting
      BY <2>2 DEF BeginCompacting, VetoInv, Starting
    <2>3. CASE Others
      BY <2>3 DEF Others, AcquireSemaphore, ReleaseSemaphore, StoreMessage, DeleteHeader,
                  MarkPendingRemoval, memory, VetoInv, Starting
    <2>4. CASE Observe \/ Restart \/ Crash \/ Recover
      BY <2>4 DEF Observe, Restart, Crash, Recover, ForgetCompaction, memory, VetoInv, Starting
    <2>5. CASE UNCHANGED vars
      BY <2>5 DEF vars, VetoInv
    <2> QED
      BY <2>1, <2>2, <2>3, <2>4, <2>5 DEF Next
  <1>3. VetoInv => VetoHonoured
    BY DEF VetoInv, VetoHonoured
  <1> QED
    BY <1>1, <1>2, <1>3, Structure, PTL DEF Spec
=============================================================================
