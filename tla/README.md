# Mail, address book and calendar stores: a TLA+ development

The repository is Thunderbird's `comm` tree: a mail, calendar and chat client on
top of the Mozilla platform.  Its own core logic is in `mailnews/` (folders,
message stores, databases, protocols) and `calendar/`, in C++ and JavaScript on one
main thread with an event loop.  This project models the parts where a mistake
destroys or duplicates a user's data although no single function looks wrong:
several stores (files, servers, memory) are changed one after the other, any step may
fail, and other actors go on meanwhile.

1. **Folder compaction** rewrites an mbox file without its deleted messages and
   replaces the folder's database to match.
2. **POP3 download** moves messages from a server to a folder and keeps a record of what
   it knows in `popstate.dat`.
3. **The SMTP pool** hands connections, with their client objects, from one send to the next.
4. **The CardDAV address book** keeps cards here and on a server, and remembers what it has
   yet to send.
5. **The ICS calendar** publishes a whole file that other clients write too.

## 1. Inventory

| Component | State | Operations | Interaction | Status |
|---|---|---|---|---|
| `FolderCompactor` (`mailnews/base/src/FolderCompactor.cpp`) | files `foo.msf`, `.compact-temp/foo.msf.{compacting,compacted,original}`; `mMsgsToKeep`, `mKeepRecoveryFiles`, shutdown flag | BeginCompacting, OnCompactionBegin, OnRetentionQuery, OnMessageRetained, OnCompactionComplete, OnFinalSummary | called back by the store's compactor; takes the folder's semaphore | modelled |
| `MboxCompactor` (`mailnews/local/src/MboxCompactor.cpp`) | files `foo`, `.compact-temp/foo.{compacting,compacted,original}`; `mMsgOut` | BeginCompaction and the scan callbacks | driven by MboxScanner, calls FolderCompactor | modelled |
| `MboxScanner` (`mailnews/local/src/MboxScanner.cpp`) | position in the mbox | one input-stream pump per message | event loop; calls MboxCompactor | modelled |
| `BatchCompactor`, `AsyncCompactFolders` | `mQueue`, `mRetry`, `mAttempt`, `mComplete`, `mFailed`, timer | StartNext, OnDone, RetryTimerCallback | runs FolderCompactors one after the other; tells a listener | modelled |
| IMAP callers (`nsImapMailFolder::ExpungeAndCompact`, `CompactAll`) | count of expunges under way | expunge, then compact | IMAP URLs, AsyncCompactFolders | modelled |
| Local and EWS callers, auto-compact | hourly limit, threshold | Compact, CompactAll, AutoCompact | AsyncCompactFolders | partly (as a direct request) |
| Folder semaphore (`nsMsgDBFolder`) | holder | Acquire, Release, Test | every operation on a folder | modelled |
| `Pop3Client`, `Pop3IncomingServer` (`mailnews/local/src/*.sys.mjs`) | `_uidlMap`, `_uidlMapChanged`, `_messagesToHandle`, `_currentMessage`, `_folderLocked`; `popstate.dat`; the queue of runs | getMail, fetchBodyForUidl, markMessages, one handler per reply, `_onClose`, `_onError`, `_cleanUp` | socket events, the sink, asynchronous writes, filters and the user | partly |
| `SmtpServer`, `SmtpClient` (`mailnews/compose/src/*.sys.mjs`) | free, busy and waiting lists; per client: socket, current action, callbacks, retry and reuse flags, QUIT timer | sendMailMessage, `_getNextClient`, closeCachedConnections, one action per reply, `_onClose`, `_onError` | socket events, promises, timers | partly |
| `CardDAVDirectory` (`mailnews/addrbook/modules`) | cards with `_etag`, `_href`; `_uidsToSync`, `_hrefsToRemove` and their preferences; sync token, `_syncInProgress` | modifyCard, deleteCards, syncWithServer, fetchAllFromServer, init, cleanUp | HTTP requests, interval timer, the user | partly |
| `CalICSCalendar` (`calendar/providers/ics`) with `CalMemoryCalendar` | `_queue`, `#locked`, `#modificationActions`, the memory calendar, `#etag`, `#lastModified`, readOnly, disabled | add, modify, delete, get, refresh, the completion of each request | HTTP requests, the calendar manager's timer, other clients | partly |
| mbox store (`nsMsgBrkMBoxStore`, Mbox streams) | ongoing writes | GetNewMsgOutputStream, Finish, Discard | downloads and copies | partly (its effect) |
| Message database (`nsMsgDatabase`) | headers, tokens, marks, expunged bytes | DeleteHeader, ... | everything | partly |
| IMAP protocol and auto-sync, store indexer, copy service, biff, send-later, NNTP pool, prompts and OAuth2, calendar cache, CalDAV, alarms, user interface, chat, encryption | - | - | - | not modelled, see section 7 |

What is hard in it: a crash or a failure between any two of several stores' updates; a
rollback that fails as well; objects that outlive the request they were working for; state read
before an `await` and used after it; answers that arrive after the state they answer has
changed; waiting lists whose entries must be woken on every path; an update of a file
that depends on what was read of it earlier.  The list, with lines, is `hazards` in
`PROJECT.json`.  What makes the components correct:

* a single compaction: no message is lost, mbox and database can always be brought back
  in step, success means the garbage is gone, a veto is heeded, it ends;
* a batch: no folder is forgotten, listed twice or given up early, results go to the right
  folder, the listener is told once and told the truth, compaction starts after the expunge;
* POP3: nothing is deleted from the server that was not stored, nothing is stored twice
  without a reason, every run ends and the next one starts;
* SMTP: a message is accepted at most once, a reported success is one, a free connection is
  idle, every send is answered;
* CardDAV: a change of the user reaches the server or is remembered, one synchronisation at a
  time, both sides converge;
* ICS: no unseen change of another client is overwritten if the server sends entity tags, operations are answered, the
  calendar comes to show the file.

## 2. Modules

| Module | What it is |
|---|---|
| `AtomicFolder` | abstract: what a folder promises its users (listed messages, readable local copies, marks for removal); compaction may only be seen to drop marked copies |
| `FolderCompaction` | one compaction, down to the file operations; properties |
| `FolderCompactionProofs` | theorems: structure, types, vetoes |
| `FolderRecoveryProofs` | theorems: recoverability, reclaimed space |
| `FolderRefinementProofs` | theorems: no message is lost, the refinement of `AtomicFolder` |
| `BatchCompaction` | batches, retries and callers; properties |
| `BatchCompactionProofs` | theorems: every invariant of the module |
| `Pop3Download` | a POP3 account: runs, server, folder, `popstate.dat`; properties |
| `Pop3DownloadProofs` | theorems: types, nothing lost, nothing stored twice |
| `SmtpPool` | sends, client objects, pool; properties |
| `SmtpPoolProofs` | theorems: a message is accepted at most once, a reported success is one, the pool holds idle clients, types |
| `CardDav` | an address book, its server and another client; properties |
| `CardDavProofs` | theorems: types, the flag of a synchronisation, changes are remembered |
| `IcsCalendar` | a calendar, its file on a server and another client; properties |
| `IcsCalendarProofs` | theorems: types and lock, nothing unseen overwritten |
| `MC...` | constants for TLC |

**`FolderCompaction`.**  `mbox` and `msf` are directories: functions from the
names that exist ("live" is `foo`, the others are in `.compact-temp`) to contents.
An mbox is the sequence of its messages.  A store token, in the code the printed
offset of the message, is the message's position, 0 standing for the empty token;
bytes, From-line escaping, sizes and the patching of X-Mozilla headers are
abstracted.  A database has headers, a token for each message, the marks
`pendingRemoval`, and whether there are expunged bytes.  `pc` says which callback or
file operation is next.  There is one action per callback; the chain
OnStopScan / OnCompactionComplete is cut into one action per file operation, since
the program may die between any two.  A failed step leads to the code's own
rollback.  `Failable` says which operations may fail, so that a run or a theorem can
name what it depends on.  Crash forgets the memory and leaves the files.  Other code
stores messages under the semaphore and deletes or marks headers without it; it
acts when the compactor is in the event loop (`InEventLoop`).

The repository has *no* recovery code; its comments and
`docs/architecture/folder_compaction.md` say that a recovery is possible.
`RecoveredMbox` and `RecoveredDB` are the simplest rule that looks only at which files
exist: if `foo` is missing, go back to `foo.original`, and to `foo.msf.original` if
there is one.  It is used in two ways: as the refinement mapping, and as the action
`Recover` of someone who attends to the folder.  `Unattended` = TRUE drops that action
and lets the folder be used as it is, which is what the program does today.

**`BatchCompaction`.**  Each batch is a record: the members of `BatchCompactor`, where
the request stands (`phase`), what its listener was told, and three history fields
(`folders`, `deferred`, `compacted`).  `thread` is the batch executing the loop of
StartNext, which does not return to the event loop; all other actions wait.  A
folder's compaction is abstracted to taking the semaphore (`Begin`) and giving it back
(`OnDone`).  Busy IMAP folders, locks and deletions come and go at will.  The closures of
ExpungeAndCompact and CompactAll are modelled with the set of expunges under way in
place of their count.

**`Pop3Download`.**  A message is its UIDL, and the order of the server's numbers is left
open.  `pc` is `_nextAction`, the reply the client waits for.  `map`, `todo` and `cur` are the three
places a known message can be in during a run; an entry is `dated` if it carries the time of
receipt without which `_writeUidlState` does not write it.  A write of `popstate.dat` is an entry of
`writes` until it ends, and what waits for it (`_actionDone`, the periodic save, a mark) goes on
then.  DELEs take effect when the server gets QUIT.  A kill leaves the old file, the new one or,
as the file is written in place, an empty one.  `asked` and `mishaps` are history: they name
the reasons for which a deletion or a second copy is right.

**`SmtpPool`.**  A client is a record: the state of its current socket, `_currentAction`, the
send whose callbacks it has, the commands on the wire with the send each belongs to, and the
close events of replaced sockets still to come (`stale`).  A handler runs to completion
and calls others (a reply that ends a send calls `onFree`, which may call `quit` or wake a waiting send), so
handlers are functions from a record of the changing state to another one, and an
action applies one (`Become`).  A waiting send's promise is a numbered entry of the queue, for
`closeCachedConnections` leaves resolved promises there.  Greeting, EHLO and STARTTLS are one
exchange and the steps of an authentication another.  The server (external) takes one message after the other: `tx` is how
far it is with one, and it refuses a command out of turn.  What is on the wire when the
client itself closes the socket is taken as lost.

**`CardDav`.**  The directory's `async` functions are suspended only while a request is in flight,
so the request says where its function goes on: `After...` is the code behind each
`await`.  The server has a revision for each card, which is its entity tag and, as the highest one, the
sync token.  `want` and `due` are history: what the user made of each card, and for which cards the server
has yet to learn it.  A write that undoes what the user wanted makes the card due again, be it made by this client.  For
a UID without a card, `syncWithServer` sends a vCard without a line (`Blank`): `getCard`
(`AddrBookDirectory.sys.mjs:96`) always returns a card, so that the test `if (card)` (656) is always true.

**`IcsCalendar`.**  `ProcessQueue` is the loop of `#processQueue`: reads are answered at once, then one
change or refresh takes the lock and starts a request.  A change is applied to the memory
calendar, the file is downloaded for a backup, and the whole calendar is sent with a PUT that
depends on the entity tag, if one is known.  A refresh depends on the tag or else on the date of the file
(`#lastModified`).  `base` is history: the items of the file the memory calendar was
made from, and `bare` whether that file came, or was written, without a tag; `dirty` are the items changed here that
were not written.

`Failable`, `Faults` and `Cases` are constants of the modules: they say which failures and which
unusual orders a run allows, so that a run's cfg shows what its properties depend on.

## 3. Runs

| Run | Instance | Shows |
|---|---|---|
| `compact_faults` | 2 messages, mbox <= 3, everything may fail, concurrent deletions | `TypeOK`, `Recoverable`, `VetoHonoured`, `SpaceReclaimed` |
| `compact_calm` | same bounds, no concurrent deletion, all failures but "dbInstall" and "pump" | `NoMessageLost` (action property), the refinement of `AtomicFolder`, `CompactionEnds` (liveness) |
| `batch_faults` | 2 batches, direct or by ExpungeAndCompact, 2 folders, 3 attempts, everything but setting the timer may fail | accounting, retries, results on the right folder, exclusion, the listener's status |
| `batch_answered` | 1 request, direct or by CompactAll, 3 folders, one not compactable, 2 attempts, everything may fail | expunges before compaction; every request is answered (liveness) |
| `pop3_state` | a small and a big message, 3 runs, 1 mark, all settings; refusals, lost connections, one kill | `TypeOK`, `NothingLost`, `StoredOnce` |
| `pop3_ends` | 1 big message, 2 runs, 2 login methods, 1 retry by the user, every fault | `EveryRequestAnswered` (liveness) |
| `smtp_faults` | 3 sends, 1 connection, up to 2 client objects, 2 messages per connection, all faults, the user never retries a login | `TypeOK`, `DeliveredOnce`, `OkMeansDelivered` |
| `smtp_calm` | 3 sends, 1 connection, limit of messages not reached, 1 retry of a login; refused commands, logins and connections | `FreeIsIdle`, `EverySendAnswered` (liveness) |
| `carddav` | 2 cards, 2 changes by the user or another client, 2 faults: connection, refusal, forgotten token; restarts; the server refuses an empty vCard | `TypeOK`, `FlagMeansSync`, `ChangesRemembered`, `Converges` (liveness) |
| `ics` | 2 items, 2 operations, 1 change by another client, 1 failed request after the first load; answers with or without ETag and Last-Modified | `TypeOK`, `NothingUnseenOverwritten` (action property), `EveryOperationAnswered`, `ShowsTheFile` (liveness) |
| `ics_first` | as `ics`, and requests may fail before the first load | violation, finding 1 |
| `carddav_many` | as `carddav`, and several cards are deleted at once | violation, finding 2 |

*Why the bounds are enough.*  Two messages and three places are enough for what matters in an mbox: a
message kept in front of one dropped and behind one, the first and the last place, an empty mbox, the
garbage copy of a message stored again.  The initial states are all folders of that
size in step with their database, so that a compaction meets each of them at once, and
the runs go through several compactions in a row with leftovers of earlier ones.  The
code's `kMaxAttempts` is 5; 2 or 3 show the first, a middle and the last attempt.  In POP3 three runs are
a first download, one that finds what an interrupted one left, and one more after that; `popstate.dat`
is written after every message instead of every twentieth.  Three sends over one connection are one
that works, one that waits and one behind it; two client objects let a pool that has forgotten a client make another.
Two changes are a change and a conflicting one; in `ics` two operations are a write and one that waits behind it, and the
third actor makes the conflict.

Bounds: `MaxMbox` (guard of `StoreMessage`), `kMaxAttempts`; `MaxRequests`, `MaxMarks`, `MaxPrompts`; `MaxClients`
(guard of `GetNextClient`); `MaxChanges`, `MaxFaults`; `MaxOps`, `MaxOthers`; and the sets of messages, folders, batches, cards
and items.  A batch and a send are used once.

Symmetry is used for messages, folders, batches and sends, in runs without liveness only.

Deadlock is checked for compaction and batches.  The other models stop when every bound is used
up and everything is answered, and say CHECK_DEADLOCK FALSE; that nothing stops earlier is what their liveness
properties say.

*Findings.*

1. `ics_first`: until a download has succeeded there is no entity tag, and a PUT without one is
   unconditional.  When the first download fails, the next event the user adds is published as the whole
   file, although the hooks are there "to protect remote changes from being overwritten".
2. `carddav_many`: `_deleteCards` stops at the first removal that fails, so that of several cards deleted without
   a connection only one removal is remembered, and the others come back.

*Other disagreements.*  The following were met on the way.  No run is kept for them; the passing
runs and theorems exclude each by name.

* The new database cannot be installed: OnFinalSummary deletes it and the original too
  (`FolderCompactor.cpp:620`, "safely" at 116-119).  `Recoverable` is about folders that still have a database
  file, `compact_calm` leaves out "dbInstall".
* A shadowed `rv` hides that the next message's pump did not start; the compaction never ends and the
  folder stays locked (`MboxScanner.cpp:136`).  `compact_calm` leaves out "pump".
* A header deleted while a compaction runs comes back with the copy of the database made before.  `compact_calm` and the
  theorem of the refinement assume `~ConcurrentDelete`.
* For an empty mbox OnStartScan's error is dropped (`MboxScanner.cpp:37`).  `VetoHonoured` exempts it.
* The documented recovery pairs the compacted mbox with the old database after a crash right
  after `foo -> foo.original`.  The module's own rule does not.
* Nothing attends to the recovery files, and the next compaction overwrites them (`MboxCompactor.cpp:74`).
  `Unattended` is FALSE in the runs, and the theorems assume it.
* ExpungeAndCompact drops the failure of AsyncCompactFolders and the listener is never told
  (`nsImapMailFolder.cpp:1344`).  `batch_answered` leaves it out.
* POP3: the end of the write of a mark clears `_uidlMapChanged`, also for what changed during the write; with
  `Overlap` = TRUE `StoredOnce` fails.
* SMTP: a client at its message limit wakes nobody (`SmtpServer.sys.mjs:560`), and a send whose connection
  closes in the middle is never answered; `EverySendAnswered` fails with MsgsPerConn = 1 or "hangup".  `FreeIsIdle` fails with each of temp, reject,
  net, tls, hangup and quit, and with authStep and authHangup if the user answers "Retry": a client is given back while it
  works on a retry, or twice.  `DeliveredOnce` fails when a 4xx reply and a user's "Retry" of a login come together: `isRetry` outlives its send, and
  the connection made for the login sends the envelope again (hence MaxPrompts = 0 in `smtp_faults`, and `RetriesOnce` in the theorem).
* CardDAV: "First perform all pending removals. We don't want to have deleted cards reappearing when we sync" (644-645), and "The
  card may no longer exist. It shouldn't still be listed to send, but it might be" (654-655).  The check that follows, `if (card)`, never
  fails, for `getCard` makes a card for any UID.  A card that is in `_uidsToSync` and is deleted is taken from there only after its
  DELETE (149); a `syncWithServer` that comes to it meanwhile sends an empty vCard behind the DELETE (to Google one with an empty N).
  A server that checks what it stores, as RFC 6352 asks, refuses it: that is what `carddav` and the theorem assume.
  One that stores it, as the test server does (`CardDAVServer.sys.mjs:557`), brings the deleted card back: with Cases = {"offline",
  "blank"} `ChangesRemembered` fails.  If the connection fails during that PUT, the UID is put back into `_uidsToSync` (418), and every later
  synchronisation is broken off by the refusal; this too needs "blank" (guards of `GoOffline` and `SyncWithServer`).
* CardDAV: the cases early, overwrite, first and midway of the module each break a property of the run.  `ChangesRemembered`
  fails when a card is deleted before its path is known (early), or the connection fails after an older answer has
  replaced a card that is being sent (overwrite), besides finding 2 (many).  `FlagMeansSync` and `Converges` fail when the
  first fetch fails and leaves `_syncInProgress` set (first), `Converges` with a change during `fetchAllFromServer` (midway).
* ICS: a change the memory calendar rejects leaves the lock held (`Stuck`); after a failed PUT `#unlock` reports success to every
  listener; a change whose backup failed, or whose forced refresh failed, stays in memory only (`dirty`).
* ICS: a GET answered without an ETag ("No etag header. Now what?", `CalICSCalendar.sys.mjs:1105`) leaves `#etag` null, and every
  PUT after it is unconditional.  A PUT answered without one does the same, since the PROPFIND that is to get the tag evaluates
  the path of its own query (1160) and finds nothing; it is sent under the lock, so that it is merged with the end of the PUT.  Both are in
  `ics` ("untagged" and "noetag"), and `NothingUnseenOverwritten` says nothing of a file so known (`bare`).
  The comment at 1002-1003, that the hooks protect remote changes, holds for servers that send tags, once a download has succeeded
  (finding 1).  The remark at the head of the file (9-13), that external changes are ignored and overwritten, is older than the hooks and
  holds of what is left.
* ICS: without a tag a refresh sends If-Modified-Since, whose dates have seconds.  A change within the second of the last download is
  not seen until the next one: with Cases = {"untagged", "second"} `ShowsTheFile` fails.

## 4. Fairness

`FolderCompaction!FairSpec` has weak fairness of `Compact`: the steps of a compaction under
way are either straight-line code or wait for the event loop to run a dispatched
runnable or for the pump to deliver data or an error, which the platform does.  Nothing
says that a compaction is started, that the folder's other users ever let go, or that
the program is quit.  `BatchCompaction!FairSpec` has weak fairness of each batch's steps:
runnables, timers, the end of an expunge URL, and the end of a folder's compaction, which
is `CompactionEnds`.  The other users are not fair: a folder may be busy for ever.

`Pop3Download` and `SmtpPool` have weak fairness of the steps of what has begun: a server answers
or its socket times out (`_onClose`, `_onError`), files are written, timers fire, promises are
continued.  Requests, faults, marks and the user's answers are not fair.  `CardDav` has weak fairness of
answers and of what they continue, and strong fairness of the return of the connection and of
`syncWithServer`, which an interval timer calls again and again (a timer that finds a
synchronisation under way does nothing, hence strong).  `IcsCalendar` has weak fairness of answers, of their completion
and of `Refresh`, the repeating timer of the calendar manager.

## 5. Proofs

For every set of messages, every bound and every set of failing operations:

* `Structure`: `Spec => []StructureInv`.  `StructureInv` says, for each `pc`, which files
  exist, who holds the semaphore and what is in memory.  It is needed because every
  rename takes for granted that its source exists; `TypeOK` alone is not inductive (the
  new mbox grows, and stays within bounds only because it has no more messages than
  the scan has passed).
* `TypeCorrect`: `Spec => []TypeOK`, from it.
* `CompactionVetoHonoured`: `Spec => []VetoHonoured`, by `VetoInv`: a compaction that was refused has
  failed from then on or had nothing to scan, and none begins refused.
* `CompactionRecoverable`: if folders are recovered before they are used again
  (`~Unattended`), `Spec => []Recoverable`, with *any* operation failing and concurrent
  deletions allowed.
* `CompactionReclaimsSpace`: under the same assumption, `Spec => []SpaceReclaimed`.
* `CompactionLosesNothing`: if moreover the new database can be installed ("dbInstall" is not in `Failable`),
  `Spec => NoMessageLost`, concurrent deletions included.
* `CompactionRefinesAtomicFolder`: if nobody changes the database during a compaction either (`~ConcurrentDelete`),
  `Spec => RefinesAtomicFolder`.  A header deleted during a compaction comes back with the new database, which is why this
  needs one assumption more.

The argument for `Recoverable` and `SpaceReclaimed` is `ContentInv`.  `KeepInv`: the keep map leads from the
tokens of the live mbox to the messages there, and since the copy was made `.compact-temp`
holds nothing that a recovery would take.  `NewFilesInv`: the pair of new files is followed
through the scan and the renames.  During the scan each token of the copied database leads
either into the new mbox or into the part of the old mbox not read yet (`Copying`, with
the scan's position as the frontier); the scan ends with tokens and messages in one-to-one
correspondence (`Exact`), and each rename moves one half of the exact pair.
`OriginalInv`: whether `foo.msf.original` exists where that decides which database a
recovery takes.  Every file operation then either moves the exact pair on or leaves the
old pair recoverable; removals may fail in any combination.

For the refinement, `Recoverable` makes what users can read a function of the recovered database alone: the messages with a
token (`ReadInv`).  `ImageInv` has two parts.  `ViewInv`: the database being built, under each name it has, lists the same
headers, marks and local copies as the one a recovery would take now.  `NoOriginalInv`: a rollback finds no
`foo.msf.original`, so that its cleaning up cannot change which database is taken; this part needs "dbInstall" not to fail.
Every step is then one of six (`Seen`): invisible, the exchange of two databases that look the same (MboxInstall), a purge
(BeginCompacting), or a message stored, deleted or marked; each is a step or a stutter of `AtomicFolder`.

For any folders, any number of batches and any maximal number of attempts, whatever fails (`BatchCompactionProofs`, without a
hypothesis): `BatchTypeCorrect`, `BatchEveryFolderAccounted`, `BatchCompletedWereCompacted`, `BatchGivenUpAfterEveryAttempt`,
`BatchToldTheTruth`, `BatchOneAtATime`, `BatchExpungeFirst`.  They follow from one inductive invariant, `GoodBatch` of every batch
and the semaphores.  `Shared`: the folders of a batch are shared out among `mQueue`, `mRetry`, `mComplete` and `mFailed`, each of them
without duplicates.  `Phases`: what has been done and told in each phase.  `Coded`: `mFailed` and `mFailedCodes` go together.
`Passes`: how often each folder was tried, in terms of `mAttempt` and of the list it is in.  OnDone takes the last folder of
`mQueue` for the one whose compaction has ended, so that the invariant has to say that the batch that is running holds the semaphore of
just that folder, and that no batch runs twice.

For any messages, bounds, settings and faults (`Pop3DownloadProofs`), also with `Overlap`, without a hypothesis:
`Pop3TypeCorrect`, `Pop3NothingLost`.  The invariant follows the permission to delete a message through every
place it can be in: `map`, `todo`, `cur`, the contents of each write in flight, `popstate.dat` and the DELEs the server has
noted all say "delete" only for messages that are stored in full or whose deletion was asked for (`Safe`).  The type
bounds how often a message can have been stored, for which a run has to handle a message at most once (`OncePerRun`).

`Pop3StoredOnce`, assuming `Overlap` = FALSE: a mark reaches the disk before the next reply is handled.  Its invariant `SInv`
speaks of behaviours without a kill or a disk error, since `StoredOnce` excuses the others.  A message that has been stored is
`Excused`, if `StoredOnce` names a reason, or `Settled`, if the server still has it: it is `Leaving` (a DELE for it has been
sent or is certain to be), or `Kept` (`popstate.dat`, or the last write in flight, and the map that a run that fails would save, note it
with a status that asks for nothing).  What makes the steps keep this:
`OnlyAsked`, a message is to be deleted only if the account does not keep all or someone asked for it; `NotAgain`, what was
deleted in a session is not handled again in it; `Session`, what a session knows of the server, and a run of the file; `Calm`, until a mark
is set a run that handles messages has something to save (`_uidlMapChanged`); `Writers`, which writes can be in flight, and of which runs.
With `Overlap` the end of the write of a mark clears the flag also for what was stored meanwhile, and `Recorded` fails.

For any number of sends, clients and connections and every fault (`SmtpPoolProofs`): `SmtpDeliveredOnce`, assuming
`RetriesOnce` (no user's "Retry", or no 4xx).  `Once`: two clients never work for the same send, the end of a message is on at most one
wire and there once, and a client whose message is delivered or on the wire will not send it again (`Ended`: it is past
the data and has no fresh or retry flag that could start it).  Every handler keeps these (`Evo`), whether or not clients are
in the pool once, so that the theorem does not depend on `FreeIsIdle`, which fails under faults.

`SmtpOkMeansDelivered` has no hypothesis.  The close event of a socket that was replaced gives a client back while it
connects for its next send; the send that gets it then puts its commands behind those of that one, and the client takes
each reply for the answer to its current action.
`Lined` says how far the two can be out of step.  The last command on the wire is that of the current step; at most one
reply is due to the send before (`Behind`), or the client gets stuck first (`Stops`): a second MAIL is refused, a QUIT
closes the connection, or the reply to a DATA is no answer to the step.  So a 250 that is taken for the end of a message is the
server's answer to just that (`LineEnd`).  The free clients are in one of the states in which a MAIL more keeps this (`Returnable`);
of those that `made` does not count yet, nothing is known but that nothing happens to them (`Unused`).

`SmtpFreeIsIdle`, assuming `Orderly`: nothing happens to an open connection but that commands and logins are refused, and where a
login may end with the server hanging up or in the middle, the user does not answer "Retry".  (`_onClose` calls `_free` before
`_onAuthFailed` asks, and the "Retry" makes a new connection of a client that is free by then.)  Its invariant `FInv` says of every
client which of three places it is in, and that its own state fits the place (`Place`): busy and `Serves` its send, in the pool once and
`Rests`, or `Retired`.  To keep this over a handler it has to say more than the property: a client that serves waits for the answer to
exactly one command, that of its step, with the server as far as that step takes it for (`Exchange`); it closes its socket only after its
send was told, and a connection the server closed is one that is logging in, whose send the close event will tell; no close event of an
earlier socket is due (`Steady`).

`SmtpTypeCorrect`, for every fault and any finite set of sends.  What is not a matter of types in it is the bound of `stale`, the close events
that are still to come for sockets the client has replaced (connect in the state "closing").  `TInv` counts what may cause one: a send
that takes the client, a retry after a 4xx reply, and a new login that finds the connection lost.  The retry needs a credit (`Credit`): a
client has one while its send is fresh or in one of its steps and `isRetry` is not set, and gets it only when a send takes it, so that
`stale` and the credit together stay within two for each taken send and one for each prompt.

For any cards, bounds and behaviour of the other client (`CardDavProofs`): `CardDavTypeCorrect` (all cases);
`CardDavFlagMeansSync`, assuming that "first" is not in `Cases`; `CardDavChangesRemembered`, assuming that "early", "many",
"overwrite" and "blank" are not.  The first part of the invariant (`Core`) is about control: at most one request that is not
the user's is in flight, and it fits the place where the loop stands.
The second (`KeptInv`) says for each card whose change is due where the change is: in a request that has not been served, in
`_uidsToSync` or `_hrefsToRemove` or their preferences, or in the part of the loop that has not been visited.  While the connection is
down this has to be said anew, since requests fail one by one and each failure notes its own card.

For every set of items and any number of operations, other writers and failures:

* `IcsTypeCorrect`: `Spec => []TypeOK`, which includes that a task waits only behind the lock and that at most
  one request is in flight.
* `IcsNothingUnseenOverwritten`: `Spec => NothingUnseenOverwritten`, assuming `Regular` ("first" is not in `Cases`); the server may
  leave out tags as it likes.  The inductive invariant is `FileInv`.  `TagInv`: a tag names one file, so the tag known here is no
  newer than the server's, and if it is the server's, the file has the items of `base`; a PUT on its way depends on the tag
  known here.  `LoadedInv`: while there is a file, no tag is known and none was left out (`Unread`), a download or the answer to the
  write that made the file is under way, so that, with one request at a time, no unconditional PUT is.  A PUT without a tag is then
  either the one that makes the file or one for a file known without a tag (`bare`).
  Without `Regular` `LoadedInv` fails, which is finding 1.

Besides the hypotheses named above, the assumptions are those of the modules (bounds are natural numbers, the sets of faults are
some of the named ones, "no message" and "no send" are no messages, ...), and TLC evaluates them in every run.
Each hypothesis excludes a case in which TLC finds the property violated, among those of section 3 (but for `SpaceReclaimed`, where
`~Unattended` is only what the proof needs, and for `SmtpTypeCorrect`, where without finitely many sends the bound has no meaning).

Only model-checked:

* liveness (`CompactionEnds`, `EveryRequestAnswered` and its likes, `Converges`, `ShowsTheFile`): fairness is out of the prover's reach;
* the runs that expect a violation (findings 1 and 2).

## 6. Abstractions worth knowing

* BuildKeepMap is one step; if the database failed in the middle of it, only a part
  of the marked tokens would be purged.
* A failed message write or read is noticed at the end of the message.
* The cached database object of a folder is not modelled: other code changes the file
  `foo.msf` itself, although after ForceDBClosed (`FolderCompactor.cpp:219`) someone may open it again and hold it
  while the file is replaced.
* `availableSpace` (`FolderCompactor.cpp:211`) may be uninitialised; both outcomes of the comparison are in the model.
* OnFinalSummary's `SetSummaryValid` and notifications, and BatchCompactor's alerts,
  change no modelled state and are left out.
* CompactAll starts its expunges in one step, for the loop does not return to the event loop; those that cannot be started are counted
  down in it.  It collects the folders to compact anew after the expunges; the model
  takes the same folders.
* POP3: the settings do not change during a behaviour; new mail is seen at login; without `Overlap` a mark
  reaches the disk before the next reply is handled; the refusal of NTLM as the last method and a reply to
  QUIT in two pieces are left out; keep-alive (NOOP) is left out.
  When no client has loaded `popstate.dat`, a mark reads, changes and writes it in one step (`UserMark`).  `_cleanUp` happens once per run,
  whichever of the reply to QUIT, the timer and the close of the socket comes first (1688-1694), and `_folderLocked` and the folder's
  semaphore are one variable.
* SMTP: one recipient per message, a message fits the socket's buffer; the close event of a socket
  comes before its successor has opened.
* CardDAV: requests are served and answered in the order in which they were made; the connection fails for all of
  them at once and comes back when the failures are known; a call of the database is one step, `bulkAddCards`, which is awaited,
  included; the program is not
  killed, and at its regular end the network is down before `cleanUp`.
* ICS: an HTTP calendar with well-formed data; a channel can always be opened.  Tags and dates grow with each change of the file; a
  GET answered with a tag has a date as well, which matters only after a PUT answered without a tag (without a date the next GET is
  unconditional, as it is after a GET with neither).

## 7. Not modelled, and the plan

Done: compaction with its abstract specification, the refinement and its theorems; batches and callers, with theorems for
every invariant; POP3 download, the SMTP pool, the CardDAV address book and the ICS calendar, with theorems.

Not modelled, with the reason:

* the IMAP protocol, auto-sync and the move coalescer: threads, monitors and proxies of more than 30 000
  lines of C++, whose parts cannot be separated without inventing what the others do;
* ongoing writes of the mbox store and the From-line scanner: a second message requested while the first is being
  written (`nsMsgBrkMBoxStore.cpp:568`) would be the case to look at;
* cancelling a send (`SmtpServer.sys.mjs:575`), LMTP, verifyLogon: the first needs the send's owner
  (`MessageSend.sys.mjs`), which is not modelled;
* the calendar cache: its playback of offline changes depends on the storage calendar and on four
  providers.  Reading it showed two hazards: a full synchronisation keeps the offline changes in
  memory only, between deleting the cached calendar (`CalCachedCalendar.sys.mjs:330`) and putting them back; and a change
  made while the item's playback is under way loses its flag (516);
* CalDAV, alarms, undo, durations: conversions and arithmetic around vendored code;
* store indexer, copy service, biff, send-later, NNTP pool, prompts and OAuth2: as in `components`;
* user interface, chat, encryption, extensions and SeaMonkey: the great majority of the lines, with little state of their own
  that these methods could say something about; vendored and generated code.

Every safety property of the passing runs is a theorem.  Next: the store's ongoing writes, with the copy service, which
requests the second message.
