-------------------------- MODULE FolderCompaction --------------------------
(***************************************************************************)
(* Compaction of one mail folder: FolderCompactor (the database side),     *)
(* MboxCompactor (the mbox side) and MboxScanner (which feeds it), down to *)
(* the file operations, any of which may fail and between any two of which *)
(* the program may die.                                                    *)
(*                                                                         *)
(* A directory is a function from the file names that exist to their       *)
(* contents.  For the mbox the names are "live" (foo), "compacting",       *)
(* "compacted" and "original" (in .compact-temp); the same four stand for  *)
(* the database foo.msf.  An mbox is the sequence of the messages in it,   *)
(* and a storeToken, which the code prints from the offset of the message, *)
(* is the position of the message; 0 stands for the empty token.           *)
(***************************************************************************)
EXTENDS Naturals, Sequences, Functions

CONSTANTS
    Msgs,               \* messages; a message is its own key
    MaxMbox,            \* bound on the messages in an mbox
    Failable,           \* the operations that may fail
    Unattended,         \* may a folder with recovery files be used again?
    ConcurrentDelete    \* does other code change foo.msf during compaction?

Slots == {"live", "compacting", "compacted", "original"}

FailPoints ==
    {"copyDB", "beginScan", "read", "db", "write", "continue", "pump",
     "mboxCompacted", "mboxMoveOriginal", "dbCompacted", "dbMoveOriginal",
     "dbInstall", "mboxInstall", "rollback", "remove", "crash"}

ASSUME MaxMboxAssumption == MaxMbox \in Nat
ASSUME FailableAssumption == Failable \subseteq FailPoints
ASSUME FlagsAssumption == Unattended \in BOOLEAN /\ ConcurrentDelete \in BOOLEAN

VARIABLES
    mbox,               \* the mbox files
    msf,                \* the database files
    holder,             \* nsMsgDBFolder::mSemaphoreHolder
    pc,                 \* what the compactor does next
    shutting,           \* ShutdownObserver::mIsShuttingDown
    mMsgsToKeep,        \* storeToken => message key
    cur,                \* position of the message being scanned
    mMsgOut,            \* is a message being written to foo.compacting?
    rv,                 \* NS_SUCCEEDED(rv), or of the request's status
    vetoed,             \* has a listener callback returned an error?
    movedOriginal,      \* MboxCompactor::OnStopScan's local of that name
    mKeepRecoveryFiles

files == <<mbox, msf>>
memory == <<mMsgsToKeep, cur, mMsgOut, rv, vetoed, movedOriginal, mKeepRecoveryFiles>>
vars == <<mbox, msf, holder, pc, shutting, mMsgsToKeep, cur, mMsgOut, rv,
          vetoed, movedOriginal, mKeepRecoveryFiles>>

-----------------------------------------------------------------------------
(* Files and databases *)

Rename(dir, from, to) ==
    [s \in (DOMAIN dir \ {from}) \cup {to} |-> IF s = to THEN dir[from] ELSE dir[s]]

Write(dir, name, content) ==
    [s \in DOMAIN dir \cup {name} |-> IF s = name THEN content ELSE dir[s]]

Remove(dir, names) == Restrict(dir, DOMAIN dir \ names)

\* The outcomes of an operation: TRUE is NS_OK.
Outcome(op) == IF op \in Failable THEN BOOLEAN ELSE {TRUE}

\* The outcomes of removing some files: every removal may fail, and no one looks.
Removed(names) == IF "remove" \in Failable THEN SUBSET names ELSE {names}

DBs == [hdrs : SUBSET Msgs, tok : [Msgs -> Nat], pending : SUBSET Msgs,
        expunged : BOOLEAN]

\* No local copy is claimed that the mbox does not hold where it is claimed.
InSync(box, db) ==
    \A m \in Msgs : db.tok[m] # 0 =>
        m \in db.hdrs /\ db.tok[m] \in 1 .. Len(box) /\ box[db.tok[m]] = m

\* Nothing was left in .compact-temp that a recovery would want.
Clean(box, db) ==
    {"compacted", "original"} \cap (DOMAIN box \cup DOMAIN db) = {}

\* The user goes on with a folder unless it is in need of recovery.
Usable == Unattended \/ Clean(mbox, msf)

\* The program is in its event loop: the compactor is not running, or is
\* waiting for the pump to deliver data (or for its dispatched runnable).
InEventLoop == pc \in {"idle", "emptyScan", "startRequest", "stopRequest", "hung"}

-----------------------------------------------------------------------------
(* The other users of the folder *)

AcquireSemaphore ==
    /\ InEventLoop /\ Usable
    /\ holder = "none"
    /\ holder' = "other"
    /\ UNCHANGED <<files, memory, pc, shutting>>

ReleaseSemaphore ==
    /\ InEventLoop
    /\ holder = "other"
    /\ holder' = "none"
    /\ UNCHANGED <<files, memory, pc, shutting>>

\* What the three do to a database.
Stored(db, m, token) == [db EXCEPT !.hdrs = @ \cup {m}, !.tok[m] = token]

Deleted(db, m) ==
    [db EXCEPT !.hdrs = @ \ {m}, !.tok[m] = 0, !.pending = @ \ {m},
               !.expunged = @ \/ db.tok[m] # 0]

Marked(db, m, mark) ==
    [db EXCEPT !.pending = IF mark THEN @ \cup {m} ELSE @ \ {m},
               !.expunged = @ \/ mark]

\* A download or copy, holding the semaphore, appends a message to the mbox
\* and enters its token in the database.
StoreMessage(m) ==
    /\ InEventLoop /\ Usable
    /\ holder = "other"
    /\ "live" \in DOMAIN msf
    /\ msf["live"].tok[m] = 0
    /\ LET old == IF "live" \in DOMAIN mbox THEN mbox["live"] ELSE << >>
       IN  /\ Len(old) < MaxMbox
           /\ mbox' = Write(mbox, "live", Append(old, m))
           /\ msf' = Write(msf, "live", Stored(msf["live"], m, Len(old) + 1))
    /\ UNCHANGED <<memory, holder, pc, shutting>>

\* Deleting a message removes its header and counts its bytes as expunged; no
\* semaphore is needed, and the mbox keeps the message.
DeleteHeader(m) ==
    /\ InEventLoop /\ Usable
    /\ pc = "idle" \/ ConcurrentDelete
    /\ "live" \in DOMAIN msf
    /\ m \in msf["live"].hdrs
    /\ msf' = Write(msf, "live", Deleted(msf["live"], m))
    /\ UNCHANGED <<mbox, memory, holder, pc, shutting>>

\* ApplyRetentionSettings marks or unmarks a header that has a local copy.
MarkPendingRemoval(m, mark) ==
    /\ InEventLoop /\ Usable
    /\ pc = "idle" \/ ConcurrentDelete
    /\ "live" \in DOMAIN msf
    /\ m \in msf["live"].hdrs
    /\ msf["live"].tok[m] # 0
    /\ msf' = Write(msf, "live", Marked(msf["live"], m, mark))
    /\ UNCHANGED <<mbox, memory, holder, pc, shutting>>

-----------------------------------------------------------------------------
(* FolderCompactor: starting *)

\* Variant: the purge removes the header and not only its token.
PurgeHeaders(db) ==
    [db EXCEPT !.hdrs = @ \ db.pending,
               !.tok = [m \in Msgs |-> IF m \in db.pending THEN 0 ELSE @[m]]]

\* Purge the local copies marked "pendingRemoval".
PurgePending(db) ==
    [db EXCEPT !.tok = [m \in Msgs |-> IF m \in db.pending THEN 0 ELSE @[m]]]

\* Variant: a message at the very start of the mbox counts as having no token.
KeepMapsSkipFirst(db) ==
    LET kept == {m \in db.hdrs \ db.pending : db.tok[m] > 1}
    IN  {f \in [{db.tok[m] : m \in kept} -> kept] :
            \A t \in DOMAIN f : db.tok[f[t]] = t}

\* The maps BuildKeepMap may build: of several headers with one token the
\* last enumerated wins.
KeepMaps(db) ==
    LET kept == {m \in db.hdrs \ db.pending : db.tok[m] # 0}
    IN  {f \in [{db.tok[m] : m \in kept} -> kept] :
            \A t \in DOMAIN f : db.tok[f[t]] = t}

\* AsyncCompactFolders only queues folders with expunged bytes.  A failure
\* before BuildKeepMap (folder busy, no disk space) changes nothing.
BeginCompacting ==
    /\ pc = "idle" /\ Usable
    /\ holder = "none"
    /\ "live" \in DOMAIN msf
    /\ msf["live"].expunged
    /\ holder' = "compactor"
    /\ mMsgsToKeep' \in KeepMaps(msf["live"])
    /\ msf' = Write(msf, "live", PurgePending(msf["live"]))
    /\ pc' = "copyDB"
    /\ UNCHANGED <<mbox, shutting, cur, mMsgOut, rv, vetoed, movedOriginal,
                   mKeepRecoveryFiles>>

ForgetCompaction ==
    /\ mMsgsToKeep' = << >>
    /\ cur' = 0
    /\ mMsgOut' = FALSE
    /\ rv' = TRUE
    /\ vetoed' = FALSE
    /\ movedOriginal' = FALSE
    /\ mKeepRecoveryFiles' = FALSE

\* BeginCompacting returns early: its scope guard releases the semaphore.
GiveUp ==
    /\ holder' = "none"
    /\ pc' = "idle"
    /\ ForgetCompaction

CopyDB ==
    /\ pc = "copyDB"
    /\ \/ /\ msf' = Write(msf, "compacting", msf["live"])
          /\ pc' = "beginScan"
          /\ UNCHANGED <<holder, memory>>
       \/ /\ FALSE \in Outcome("copyDB")
          /\ GiveUp
          /\ UNCHANGED msf
    /\ UNCHANGED <<mbox, shutting>>

\* MboxCompactor::BeginCompaction: create the mbox if there is none, create
\* foo.compacting, and have MboxScanner start reading.
SanityCheck(box) == IF "live" \in DOMAIN box THEN box ELSE Write(box, "live", << >>)

\* Variant: a foo.compacting left by an earlier compaction is appended to.
OpenForAppend(box) == IF "compacting" \in DOMAIN box THEN box["compacting"] ELSE << >>

\* NS_NewLocalFileOutputStream truncates what is there.
OpenTruncated(box) == << >>

BeginScan ==
    /\ pc = "beginScan"
    /\ LET opened == Write(SanityCheck(mbox), "compacting", OpenTruncated(mbox))
       IN  \/ /\ mbox' = opened
              /\ cur' = IF opened["live"] = << >> THEN 0 ELSE 1
              /\ pc' = IF opened["live"] = << >> THEN "emptyScan" ELSE "startRequest"
              /\ UNCHANGED <<holder, mMsgsToKeep, mMsgOut, rv, vetoed,
                             movedOriginal, mKeepRecoveryFiles>>
           \/ /\ FALSE \in Outcome("beginScan")
              /\ mbox' \in {mbox, SanityCheck(mbox), opened}
              /\ GiveUp
    /\ UNCHANGED <<msf, shutting>>

-----------------------------------------------------------------------------
(* MboxScanner: one request per message *)

\* An empty mbox: one runnable calls OnStartScan, whose result is dropped,
\* and OnStopScan(NS_OK).
NotifyEmptyScan ==
    /\ pc = "emptyScan"
    /\ pc' = "mboxCompacted"
    /\ vetoed' = shutting
    /\ UNCHANGED <<files, holder, shutting, mMsgsToKeep, cur, mMsgOut, rv,
                   movedOriginal, mKeepRecoveryFiles>>

\* OnStartScan (before the first message) and OnStartMessage ask the
\* FolderCompactor, which refuses everything once the program shuts down, or
\* if its database fails it.
Refuses == shutting \/ FALSE \in Outcome("db")

\* Variant: the listener's refusal is not heeded.
OnStartRequestUnheeded ==
    /\ pc = "startRequest"
    /\ pc' = "stopRequest"
    /\ rv' = TRUE
    /\ mMsgOut' = (cur \in DOMAIN mMsgsToKeep)
    /\ vetoed' = Refuses
    /\ UNCHANGED <<files, holder, shutting, mMsgsToKeep, cur, movedOriginal,
                   mKeepRecoveryFiles>>

OnStartRequest ==
    /\ pc = "startRequest"
    /\ pc' = "stopRequest"
    /\ \/ /\ Refuses
          /\ rv' = FALSE
          /\ vetoed' = TRUE
          /\ UNCHANGED mMsgOut
       \/ /\ ~shutting
          /\ rv' \in Outcome("read")
          /\ mMsgOut' = (rv' /\ cur \in DOMAIN mMsgsToKeep)
          /\ UNCHANGED vetoed
    /\ UNCHANGED <<files, holder, shutting, mMsgsToKeep, cur, movedOriginal,
                   mKeepRecoveryFiles>>

\* Variant: the scan just ends when the listener aborts it.
FailScanSilently ==
    /\ rv' = FALSE
    /\ mMsgOut' = FALSE
    /\ pc' = "hung"
    /\ UNCHANGED cur

\* OnStopScan is called with a failure: the output is closed, the listener's
\* OnCompactionComplete closes its database, and everything is rolled back.
FailScan ==
    /\ rv' = FALSE
    /\ mMsgOut' = FALSE
    /\ pc' = "rollback"
    /\ UNCHANGED cur

\* Variant: one message too many.
MoreOffByOne == cur <= Len(mbox["live"])

\* MboxMsgInputStream::Continue finds another message.
More == cur < Len(mbox["live"])

\* MboxScanner::OnStopRequest after the listener was content: read the next
\* message, or finish.  The error of a pump that cannot be started is lost,
\* and nothing more happens.
NextMessage ==
    /\ mMsgOut' = FALSE
    /\ UNCHANGED rv
    /\ IF More
       THEN \/ /\ cur' = cur + 1
               /\ pc' = "startRequest"
            \/ /\ FALSE \in Outcome("pump")
               /\ pc' = "hung"
               /\ UNCHANGED cur
       ELSE pc' = "mboxCompacted" /\ UNCHANGED cur

\* The message, its X-Mozilla-* headers brought up to date, goes to the end of
\* foo.compacting.
FlushBuffer(box, m) == Append(box, m)

\* OnMessageRetained enters the new token in the copied database.
Retain(db, key, token) == [db EXCEPT !.tok[key] = token]

OnStopRequest ==
    /\ pc = "stopRequest"
    /\ \/ /\ \/ ~rv
             \/ FALSE \in Outcome("read")
             \/ mMsgOut /\ FALSE \in Outcome("write")
          /\ FailScan
          /\ UNCHANGED <<files, vetoed>>
       \/ /\ rv /\ ~mMsgOut
          /\ NextMessage \/ (FALSE \in Outcome("continue") /\ FailScan)
          /\ UNCHANGED <<files, vetoed>>
       \/ /\ rv /\ mMsgOut /\ Refuses
          /\ mbox' = Write(mbox, "compacting", FlushBuffer(mbox["compacting"], mbox["live"][cur]))
          /\ vetoed' = TRUE
          /\ FailScan
          /\ UNCHANGED msf
       \/ /\ rv /\ mMsgOut /\ ~shutting
          /\ mbox' = Write(mbox, "compacting", FlushBuffer(mbox["compacting"], mbox["live"][cur]))
          /\ msf' = Write(msf, "compacting",
                          Retain(msf["compacting"], mMsgsToKeep[cur],
                                 Len(mbox["compacting"]) + 1))
          /\ NextMessage \/ (FALSE \in Outcome("continue") /\ FailScan)
          /\ UNCHANGED vetoed
    /\ UNCHANGED <<holder, shutting, mMsgsToKeep, movedOriginal, mKeepRecoveryFiles>>

-----------------------------------------------------------------------------
(* MboxCompactor::OnStopScan(NS_OK) and FolderCompactor::OnCompactionComplete. *)
(* One action per file operation; the operation happens, or it fails and the  *)
(* compaction turns to rolling back.                                          *)

RollBack ==
    /\ rv' = FALSE
    /\ pc' = "rollback"
    /\ UNCHANGED <<files, movedOriginal, mKeepRecoveryFiles>>

\* foo.compacting -> foo.compacted
MboxCompacted ==
    /\ pc = "mboxCompacted"
    /\ \/ /\ mbox' = Rename(mbox, "compacting", "compacted")
          /\ pc' = "mboxMoveOriginal"
          /\ UNCHANGED <<msf, rv, movedOriginal, mKeepRecoveryFiles>>
       \/ FALSE \in Outcome("mboxCompacted") /\ RollBack
    /\ UNCHANGED <<holder, shutting, mMsgsToKeep, cur, mMsgOut, vetoed>>

\* foo -> foo.original
MboxMoveOriginal ==
    /\ pc = "mboxMoveOriginal"
    /\ \/ /\ mbox' = Rename(mbox, "live", "original")
          /\ movedOriginal' = TRUE
          /\ pc' = "dbCompacted"
          /\ UNCHANGED <<msf, rv, mKeepRecoveryFiles>>
       \/ FALSE \in Outcome("mboxMoveOriginal") /\ RollBack
    /\ UNCHANGED <<holder, shutting, mMsgsToKeep, cur, mMsgOut, vetoed>>

ZeroExpunged(db) == [db EXCEPT !.expunged = FALSE]

\* Zero the expunged bytes, commit, and foo.msf.compacting -> foo.msf.compacted
DbCompacted ==
    /\ pc = "dbCompacted"
    /\ \/ /\ msf' = Rename(Write(msf, "compacting", ZeroExpunged(msf["compacting"])),
                         "compacting", "compacted")
          /\ pc' = "dbMoveOriginal"
          /\ UNCHANGED <<mbox, rv, movedOriginal, mKeepRecoveryFiles>>
       \/ FALSE \in Outcome("dbCompacted") /\ RollBack
    /\ UNCHANGED <<holder, shutting, mMsgsToKeep, cur, mMsgOut, vetoed>>

\* foo.msf -> foo.msf.original
DbMoveOriginal ==
    /\ pc = "dbMoveOriginal"
    /\ \/ /\ msf' = Rename(msf, "live", "original")
          /\ pc' = "dbInstall"
          /\ UNCHANGED <<mbox, rv, movedOriginal, mKeepRecoveryFiles>>
       \/ FALSE \in Outcome("dbMoveOriginal") /\ RollBack
    /\ UNCHANGED <<holder, shutting, mMsgsToKeep, cur, mMsgOut, vetoed>>

\* foo.msf.compacted -> foo.msf, the last thing OnCompactionComplete does
DbInstall ==
    /\ pc = "dbInstall"
    /\ \/ /\ msf' = Rename(msf, "compacted", "live")
          /\ mKeepRecoveryFiles' = TRUE
          /\ pc' = "mboxInstall"
          /\ UNCHANGED <<mbox, rv, movedOriginal>>
       \/ FALSE \in Outcome("dbInstall") /\ RollBack
    /\ UNCHANGED <<holder, shutting, mMsgsToKeep, cur, mMsgOut, vetoed>>

\* foo.compacted -> foo; if that fails everything is left for a recovery
MboxInstall ==
    /\ pc = "mboxInstall"
    /\ \/ /\ mbox' = Rename(mbox, "compacted", "live")
          /\ pc' = "removeOriginal"
          /\ UNCHANGED rv
       \/ /\ FALSE \in Outcome("mboxInstall")
          /\ rv' = FALSE
          /\ pc' = "finalSummary"
          /\ UNCHANGED mbox
    /\ UNCHANGED <<msf, holder, shutting, mMsgsToKeep, cur, mMsgOut, vetoed,
                   movedOriginal, mKeepRecoveryFiles>>

RemoveOriginal ==
    /\ pc = "removeOriginal"
    /\ \E gone \in Removed({"original"}) : mbox' = Remove(mbox, gone)
    /\ pc' = "finalSummary"
    /\ UNCHANGED <<msf, holder, shutting, memory>>

\* foo.original -> foo, if it was moved away
RestoreOriginal ==
    /\ pc = "rollback"
    /\ \/ movedOriginal /\ mbox' = Rename(mbox, "original", "live")
       \/ (~movedOriginal \/ FALSE \in Outcome("rollback")) /\ UNCHANGED mbox
    /\ pc' = "discard"
    /\ UNCHANGED <<msf, holder, shutting, memory>>

Discard ==
    /\ pc = "discard"
    /\ \E gone \in Removed({"compacted", "compacting"}) : mbox' = Remove(mbox, gone)
    /\ pc' = "finalSummary"
    /\ UNCHANGED <<msf, holder, shutting, memory>>

\* Variant: the recovery files are always cleaned up.
AllLeftovers(keepRecoveryFiles) == {"compacting", "compacted", "original"}

\* The database files OnFinalSummary cleans up.
Leftovers(keepRecoveryFiles) ==
    {"compacting"} \cup IF keepRecoveryFiles THEN {} ELSE {"compacted", "original"}

OnFinalSummary ==
    /\ pc = "finalSummary"
    /\ \E gone \in Removed(Leftovers(mKeepRecoveryFiles /\ ~rv)) : msf' = Remove(msf, gone)
    /\ holder' = "none"
    /\ pc' = "idle"
    /\ ForgetCompaction
    /\ UNCHANGED <<mbox, shutting>>

-----------------------------------------------------------------------------
(* The program stops and starts *)

\* "quit-application" is observed.
Observe ==
    /\ InEventLoop
    /\ ~shutting
    /\ shutting' = TRUE
    /\ UNCHANGED <<files, holder, pc, memory>>

\* The program has shut down and is started again.
Restart ==
    /\ pc = "idle" /\ shutting
    /\ shutting' = FALSE
    /\ holder' = "none"
    /\ UNCHANGED <<files, pc, memory>>

\* The program dies in the middle of a compaction, and is started again.
Crash ==
    /\ "crash" \in Failable
    /\ pc # "idle"
    /\ pc' = "idle"
    /\ holder' = "none"
    /\ shutting' = FALSE
    /\ ForgetCompaction
    /\ UNCHANGED files

\* What a recovery that only looks at which files exist takes the mbox and
\* the database to be: if foo is missing, go back to foo.original, and to
\* foo.msf.original if there is one.
EmptyDB == [hdrs |-> {}, tok |-> [m \in Msgs |-> 0], pending |-> {}, expunged |-> FALSE]

RecoveredMbox ==
    CASE "live" \in DOMAIN mbox -> mbox["live"]
      [] "live" \notin DOMAIN mbox /\ "original" \in DOMAIN mbox -> mbox["original"]
      [] OTHER -> << >>

RecoveredDB ==
    CASE "original" \in DOMAIN msf /\ "live" \notin DOMAIN mbox -> msf["original"]
      [] "live" \in DOMAIN msf /\ ("original" \notin DOMAIN msf \/ "live" \in DOMAIN mbox)
            -> msf["live"]
      [] OTHER -> EmptyDB

\* Someone, who attends to the folder, applies it and clears .compact-temp.
Recover ==
    /\ ~Unattended
    /\ pc = "idle"
    /\ ~Clean(mbox, msf)
    /\ mbox' = [s \in {"live"} |-> RecoveredMbox]
    /\ msf' = [s \in {"live"} |-> RecoveredDB]
    /\ UNCHANGED <<memory, holder, pc, shutting>>

-----------------------------------------------------------------------------
\* A folder that has been in use: one mbox, with or without deleted messages
\* in it, and a database in step with it.  The mbox may not exist yet.
Init ==
    /\ \E box \in UNION {[1 .. n -> Msgs] : n \in 0 .. MaxMbox} :
         /\ mbox \in {[s \in {"live"} |-> box]} \cup
                      (IF box = << >> THEN {[s \in {} |-> box]} ELSE {})
         /\ \E db \in [hdrs : SUBSET Msgs, tok : [Msgs -> 0 .. MaxMbox],
                         pending : {{}}, expunged : BOOLEAN] :
              InSync(box, db) /\ msf = [s \in {"live"} |-> db]
    /\ holder = "none"
    /\ pc = "idle"
    /\ shutting = FALSE
    /\ mMsgsToKeep = << >>
    /\ cur = 0
    /\ mMsgOut = FALSE
    /\ rv = TRUE
    /\ vetoed = FALSE
    /\ movedOriginal = FALSE
    /\ mKeepRecoveryFiles = FALSE

Compact ==
    \/ CopyDB \/ BeginScan
    \/ NotifyEmptyScan \/ OnStartRequest \/ OnStopRequest
    \/ MboxCompacted \/ MboxMoveOriginal
    \/ DbCompacted \/ DbMoveOriginal \/ DbInstall
    \/ MboxInstall \/ RemoveOriginal \/ RestoreOriginal \/ Discard
    \/ OnFinalSummary

Others ==
    \/ AcquireSemaphore \/ ReleaseSemaphore
    \/ \E m \in Msgs : StoreMessage(m) \/ DeleteHeader(m)
    \/ \E m \in Msgs, mark \in BOOLEAN : MarkPendingRemoval(m, mark)

Next == BeginCompacting \/ Compact \/ Others \/ Observe \/ Restart \/ Crash \/ Recover

Spec == Init /\ [][Next]_vars

\* The event loop runs what is dispatched to it, so a compaction that is
\* under way goes on.  Nothing says that anyone starts one, or that the
\* program is ever quit.
FairSpec == Spec /\ WF_vars(Compact)

-----------------------------------------------------------------------------
(* Properties *)

Pcs == {"idle", "copyDB", "beginScan", "emptyScan", "startRequest", "stopRequest",
        "hung", "mboxCompacted", "mboxMoveOriginal", "dbCompacted", "dbMoveOriginal",
        "dbInstall", "mboxInstall", "removeOriginal", "rollback", "discard",
        "finalSummary"}

MboxFiles(dir) ==
    /\ DOMAIN dir \subseteq Slots
    /\ \A s \in DOMAIN dir : dir[s] \in Seq(Msgs) /\ Len(dir[s]) <= MaxMbox

DbFiles(dir) == DOMAIN dir \subseteq Slots /\ \A s \in DOMAIN dir : dir[s] \in DBs

\* The type of every variable: directories map some of the four names to mboxes
\* and to databases; the rest is the memory of one compaction.
TypeOK ==
    /\ MboxFiles(mbox)
    /\ DbFiles(msf)
    /\ holder \in {"none", "other", "compactor"}
    /\ pc \in Pcs
    /\ DOMAIN mMsgsToKeep \subseteq Nat
    /\ \A t \in DOMAIN mMsgsToKeep : mMsgsToKeep[t] \in Msgs
    /\ cur \in 0 .. MaxMbox
    /\ shutting \in BOOLEAN /\ mMsgOut \in BOOLEAN /\ rv \in BOOLEAN /\ vetoed \in BOOLEAN
    /\ movedOriginal \in BOOLEAN /\ mKeepRecoveryFiles \in BOOLEAN

\* Whatever fails and wherever the program dies (FolderCompactor.cpp:566-639,
\* MboxCompactor.cpp:269-386), which files exist tells enough to get back an
\* mbox and a database in which every storeToken leads to its message.
Recoverable == DOMAIN msf # {} => InSync(RecoveredMbox, RecoveredDB)

\* A compaction that reports success (OnFinalSummary with NS_OK) has installed
\* an mbox without garbage: every message in it belongs to a header.
SpaceReclaimed ==
    pc = "finalSummary" /\ rv =>
        \A i \in 1 .. Len(mbox["live"]) :
            \E m \in msf["live"].hdrs : msf["live"].tok[m] = i

\* nsIMsgPluggableStore.idl:284: "If any callbacks return an error, the whole operation
\* will be rolled back and .onFinalSummary() will be called with the failure code."  A
\* compaction that any callback has refused is not reported as a success, unless the
\* mbox was empty: NotifyEmptyScan (MboxScanner.cpp:37) drops the refusal.
VetoHonoured == pc = "finalSummary" /\ vetoed /\ cur # 0 => ~rv

\* The messages whose local copy can be read back, now or after recovery.
Readable ==
    {m \in RecoveredDB.hdrs :
        /\ RecoveredDB.tok[m] \in 1 .. Len(RecoveredMbox)
        /\ RecoveredMbox[RecoveredDB.tok[m]] = m}

\* No step, of a compaction, of a failure or of a crash, loses the local copy
\* of a message, unless the message is deleted or was marked for removal.
NoMessageLost ==
    [][\A m \in Readable : m \in Readable' \/ m \in RecoveredDB.pending \/ DeleteHeader(m)]_vars

\* The folder as its users see it through any recovery is the atomic folder:
\* compaction, its failures and crashes are invisible, but for the purge of
\* what was marked for removal.
Atomic == INSTANCE AtomicFolder
    WITH hdrs <- RecoveredDB.hdrs, local <- Readable, pending <- RecoveredDB.pending

RefinesAtomicFolder == Atomic!ASpec

\* Every compaction comes to an end and gives the folder's semaphore back.
CompactionEnds == (pc # "idle") ~> (pc = "idle")
=============================================================================
