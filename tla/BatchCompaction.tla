-------------------------- MODULE BatchCompaction --------------------------
(***************************************************************************)
(* Compaction of many folders: AsyncCompactFolders and BatchCompactor,     *)
(* which compacts one folder after the other, puts off those with pending  *)
(* IMAP activity, and tells its listener in the end; and the callers that  *)
(* put an IMAP expunge before it.  Several batches may be under way, over  *)
(* the same folders.  The compaction of one folder is the subject of       *)
(* FolderCompaction; here it takes the folder's semaphore and, in the end, *)
(* gives it back and succeeds or fails.                                    *)
(*                                                                         *)
(* BatchCompactor::StartNext is a loop that runs without returning to the  *)
(* event loop: thread is the batch executing it, one action per iteration. *)
(***************************************************************************)
EXTENDS Naturals, FiniteSets, SequencesExt

CONSTANTS
    Batches,        \* requests to compact some folders
    Folders,
    Compactable,    \* folders whose store supports compaction
    Offline,        \* folders kept for offline use
    Callers,        \* who asks: see Kinds
    kMaxAttempts,   \* 5 in the code
    Failable,       \* the operations that may fail
    None            \* no batch

\* Callers of AsyncCompactFolders: directly, ExpungeAndCompact, CompactAll.
Kinds == {"direct", "one", "all"}

FailPoints == {"bytes", "expunge", "store", "begin", "compact", "timer"}

ASSUME AttemptsAssumption == kMaxAttempts \in Nat \ {0}
ASSUME FoldersAssumption ==
    IsFiniteSet(Folders) /\ Compactable \subseteq Folders /\ Offline \subseteq Folders
ASSUME CallersAssumption == Callers \subseteq Kinds /\ Failable \subseteq FailPoints
ASSUME NoneAssumption == None \notin Batches /\ "other" \notin Batches /\ None # "other"

VARIABLES
    batch,      \* every BatchCompactor, and the request it comes from
    thread,     \* the batch that is in StartNext
    holder,     \* nsMsgDBFolder::mSemaphoreHolder
    active,     \* folders with pseudo or offline activity
    expunged    \* folders with expunged bytes

vars == <<batch, thread, holder, active, expunged>>

Distinct == {s \in SeqOf(Folders, Cardinality(Folders)) : IsInjective(s)}

\* phase: where the request stands.  asked, expunging: what an IMAP caller's
\* closure holds, the folders and those whose expunge has yet to finish.
\* told: what the listener was told.  folders, deferred and compacted record
\* the folders of the batch, how often each was put off, and which were
\* really compacted.
NewBatch ==
    [phase |-> "new", caller |-> "direct", asked |-> << >>, expunging |-> {}, told |-> << >>,
     mQueue |-> << >>, mRetry |-> << >>, mAttempt |-> 0, mComplete |-> << >>,
     mFailed |-> << >>, mFailedCodes |-> << >>,
     folders |-> << >>, deferred |-> [f \in Folders |-> 0], compacted |-> {}]

Outcome(op) == IF op \in Failable THEN BOOLEAN ELSE {TRUE}

InEventLoop == thread = None

-----------------------------------------------------------------------------
(* AsyncCompactFolders and its callers *)

\* What AsyncCompactFolders leaves of the folders (there is one such sequence): those
\* it has to compact, in the reverse order, for they are popped from the end.
Filtered(fs) ==
    {q \in Distinct :
        /\ Range(q) = Range(fs) \cap expunged \cap Compactable
        /\ \A i, j \in DOMAIN q, k, l \in DOMAIN fs :
             i < j /\ q[i] = fs[k] /\ q[j] = fs[l] => k > l}

\* The request b becomes a batch, whose first StartNext is dispatched.
Accepted(b, q) == [b EXCEPT !.phase = "queued", !.mQueue = q, !.folders = q]

\* Variant: CompactAll drops the failure as well.
RefusedSilently(b) == [b EXCEPT !.phase = IF b.caller = "direct" THEN "refused" ELSE "done"]

\* AsyncCompactFolders fails, and CompactAll alone tells the listener.
Refused(b) ==
    [b EXCEPT !.phase = IF b.caller = "direct" THEN "refused" ELSE "done",
              !.told = IF b.caller = "all" THEN Append(@, "error") ELSE @]

AsyncCompactFolders(b, fs) ==
    {Accepted(b, q) : q \in Filtered(fs)} \cup
    (IF fs # << >> /\ FALSE \in Outcome("bytes") THEN {Refused(b)} ELSE {})

\* The local, EWS and auto-compact callers.
CompactDirectly(b, fs) ==
    /\ InEventLoop
    /\ "direct" \in Callers
    /\ batch[b].phase = "new"
    /\ \E r \in AsyncCompactFolders([batch[b] EXCEPT !.caller = "direct"], fs) :
         batch' = [batch EXCEPT ![b] = r]
    /\ UNCHANGED <<thread, holder, active, expunged>>

\* The caller's listener is told, with no batch.
Concluded(b, code) == [b EXCEPT !.phase = "done", !.told = Append(@, code)]

\* nsImapMailFolder::ExpungeAndCompact's doCompact, in which GetMsgStore may fail.
CompactOne(b, f) ==
    (IF f \in Compactable \cap Offline
     THEN AsyncCompactFolders(b, <<f>>)
     ELSE {Concluded(b, "ok")})
    \cup (IF FALSE \in Outcome("store") THEN {Concluded(b, "error")} ELSE {})

\* With or without an expunge first, whose failure to start is returned.
ExpungeAndCompact(b, f) ==
    /\ InEventLoop
    /\ "one" \in Callers
    /\ batch[b].phase = "new"
    /\ \E r \in {[batch[b] EXCEPT !.caller = "one", !.asked = <<f>>]} :
         \/ batch' = [batch EXCEPT ![b] = [r EXCEPT !.phase = "dispatched"]]
         \/ batch' = [batch EXCEPT ![b] = [r EXCEPT !.phase = "expunging", !.expunging = {f}]]
         \/ /\ FALSE \in Outcome("expunge")
            /\ batch' = [batch EXCEPT ![b] = [r EXCEPT !.phase = "refused"]]
    /\ UNCHANGED <<thread, holder, active, expunged>>

\* CompactAll: started are the folders whose expunge could be started.  The loop that starts
\* them does not return to the event loop, so none of them ends meanwhile.
CompactAll(b, fs, started) ==
    /\ InEventLoop
    /\ "all" \in Callers
    /\ batch[b].phase = "new"
    /\ started \subseteq Range(fs)
    /\ FALSE \in Outcome("expunge") \/ started = Range(fs)
    /\ \E r \in {[batch[b] EXCEPT !.caller = "all", !.asked = fs]} :
         \/ batch' = [batch EXCEPT ![b] = [r EXCEPT !.phase = "dispatched"]]
         \/ /\ started # {}
            /\ batch' = [batch EXCEPT ![b] = [r EXCEPT !.phase = "expunging",
                                                       !.expunging = started]]
         \/ /\ started = {} /\ fs # << >>
            /\ \E s \in AsyncCompactFolders(r, fs) : batch' = [batch EXCEPT ![b] = s]
    /\ UNCHANGED <<thread, holder, active, expunged>>

DoCompact(b) ==
    IF b.caller = "one" THEN CompactOne(b, b.asked[1]) ELSE AsyncCompactFolders(b, b.asked)

\* Offline: the compaction was dispatched.
Dispatched(b) ==
    /\ InEventLoop
    /\ batch[b].phase = "dispatched"
    /\ \E r \in DoCompact(batch[b]) : batch' = [batch EXCEPT ![b] = r]
    /\ UNCHANGED <<thread, holder, active, expunged>>

\* Variant: the first expunge to finish starts the compaction.
LastExpungeAny(b, f) == TRUE

\* CompactAll's expungeCount drops to 0.
LastExpunge(b, f) == b.expunging = {f}

\* An expunge is done (how it went is ignored); after the last one, compact.
ExpungeDone(b, f) ==
    /\ InEventLoop
    /\ f \in batch[b].expunging
    /\ \E r \in {[batch[b] EXCEPT !.expunging = @ \ {f}]} :
         IF LastExpunge(batch[b], f)
         THEN \E s \in DoCompact(r) : batch' = [batch EXCEPT ![b] = s]
         ELSE batch' = [batch EXCEPT ![b] = r]
    /\ UNCHANGED <<thread, holder, active, expunged>>

-----------------------------------------------------------------------------
(* BatchCompactor *)

\* The dispatched kickoff, or the retry timer, calls StartNext.
Kickoff(b) ==
    /\ InEventLoop
    /\ batch[b].phase = "queued"
    /\ thread' = b
    /\ UNCHANGED <<batch, holder, active, expunged>>

RetryTimerCallback(b) ==
    /\ InEventLoop
    /\ batch[b].phase = "waiting"
    /\ thread' = b
    /\ UNCHANGED <<batch, holder, active, expunged>>

\* Variant: one attempt too few.
OutOfRetriesEarly(attempt) == attempt + 1 >= kMaxAttempts

\* Variant: one more attempt than the maximum.
OutOfRetriesLate(attempt) == attempt > kMaxAttempts

\* The first pass counts as an attempt.
OutOfRetries(attempt) == attempt >= kMaxAttempts

\* All of fs fail with NS_ERROR_UNEXPECTED.
FailAll(b, fs) ==
    [b EXCEPT !.mFailed = @ \o fs,
              !.mFailedCodes = @ \o [i \in 1 .. Len(fs) |-> "unexpected"]]

\* Variant: mRetry is not cleared when its folders are queued again.
RetriesKept(b) == [b EXCEPT !.mQueue = b.mRetry]

\* What was put off is next, the last one first.
Requeued(b) == [b EXCEPT !.mQueue = b.mRetry, !.mRetry = << >>]

\* The queue is empty but some folders were put off: give up on them, or queue
\* them again and wait; if the timer cannot be set, fail them.
Retry(b) ==
    /\ thread = b
    /\ batch[b].mQueue = << >> /\ batch[b].mRetry # << >>
    /\ LET r == [batch[b] EXCEPT !.mAttempt = @ + 1]
       IN  \/ /\ OutOfRetries(r.mAttempt)
              /\ batch' = [batch EXCEPT ![b] = [FailAll(r, r.mRetry) EXCEPT !.mRetry = << >>]]
              /\ UNCHANGED thread
           \/ /\ ~OutOfRetries(r.mAttempt)
              /\ batch' = [batch EXCEPT ![b] = [Requeued(r) EXCEPT !.phase = "waiting"]]
              /\ thread' = None
           \/ /\ ~OutOfRetries(r.mAttempt)
              /\ FALSE \in Outcome("timer")
              /\ batch' = [batch EXCEPT ![b] =
                             [FailAll(Requeued(r), r.mRetry) EXCEPT !.mQueue = << >>]]
              /\ UNCHANGED thread
    /\ UNCHANGED <<holder, active, expunged>>

CanCompactNow(f) == f \notin active

\* The next folder is put off.
Defer(b) ==
    /\ thread = b
    /\ batch[b].mQueue # << >>
    /\ LET f == Last(batch[b].mQueue)
       IN  /\ ~CanCompactNow(f)
           /\ batch' = [batch EXCEPT ![b].mQueue = Front(@), ![b].mRetry = Append(@, f),
                                     ![b].deferred[f] = @ + 1]
    /\ UNCHANGED <<thread, holder, active, expunged>>

\* The last folder of the queue failed.
Failed(b, code) ==
    [b EXCEPT !.mQueue = Front(@), !.mFailed = Append(@, Last(b.mQueue)),
              !.mFailedCodes = Append(@, code)]

\* Variant: the semaphore is taken no matter who holds it.
FreeAlways(f) == TRUE

\* AcquireSemaphore succeeds.
Free(f) == holder[f] = None

\* FolderCompactor::BeginCompacting for the next folder: refused while someone
\* holds the folder, and that is no reason to retry.
Begin(b) ==
    /\ thread = b
    /\ batch[b].mQueue # << >>
    /\ LET f == Last(batch[b].mQueue)
       IN  /\ CanCompactNow(f)
           /\ \/ /\ Free(f)
                 /\ holder' = [holder EXCEPT ![f] = b]
                 /\ batch' = [batch EXCEPT ![b].phase = "running"]
                 /\ thread' = None
              \/ /\ \E code \in (IF ~Free(f) THEN {"busy"} ELSE {}) \cup
                                (IF FALSE \in Outcome("begin") THEN {"error"} ELSE {}) :
                      batch' = [batch EXCEPT ![b] = Failed(batch[b], code)]
                 /\ UNCHANGED <<holder, thread>>
    /\ UNCHANGED <<active, expunged>>

\* Variant: a batch that compacted some folder is a success.
StatusLenient(b) ==
    IF b.mFailedCodes = << >> \/ b.mComplete # << >> THEN "ok" ELSE b.mFailedCodes[1]

\* The first failure, or NS_OK.
Status(b) == IF b.mFailedCodes = << >> THEN "ok" ELSE b.mFailedCodes[1]

\* Nothing left: tell the listener.
Finish(b) ==
    /\ thread = b
    /\ batch[b].mQueue = << >> /\ batch[b].mRetry = << >>
    /\ batch' = [batch EXCEPT ![b].phase = "done", ![b].told = Append(@, Status(batch[b]))]
    /\ thread' = None
    /\ UNCHANGED <<holder, active, expunged>>

\* Variant: the queue is popped at the wrong end.
CompletedFirst(b) ==
    [b EXCEPT !.mQueue = Tail(@), !.mComplete = Append(@, Head(b.mQueue))]

\* The last folder of the queue was compacted.
Completed(b) ==
    [b EXCEPT !.mQueue = Front(@), !.mComplete = Append(@, Last(b.mQueue))]

\* The compaction of f is over (FolderCompactor::OnFinalSummary): the semaphore
\* is released, and OnDone notes the result and goes on with StartNext.
OnDone(b, f) ==
    /\ InEventLoop
    /\ holder[f] = b
    /\ holder' = [holder EXCEPT ![f] = None]
    /\ thread' = b
    /\ \/ /\ batch' = [batch EXCEPT ![b] = [Completed(batch[b]) EXCEPT
                                              !.phase = "queued", !.compacted = @ \cup {f}]]
          /\ expunged' = expunged \ {f}
       \/ /\ FALSE \in Outcome("compact")
          /\ batch' = [batch EXCEPT ![b] = [Failed(batch[b], "error") EXCEPT !.phase = "queued"]]
          /\ UNCHANGED expunged
    /\ UNCHANGED active

-----------------------------------------------------------------------------
(* The other users of the folders *)

AcquireSemaphore(f) ==
    /\ InEventLoop
    /\ Free(f)
    /\ holder' = [holder EXCEPT ![f] = "other"]
    /\ UNCHANGED <<batch, thread, active, expunged>>

ReleaseSemaphore(f) ==
    /\ InEventLoop
    /\ holder[f] = "other"
    /\ holder' = [holder EXCEPT ![f] = None]
    /\ UNCHANGED <<batch, thread, active, expunged>>

\* Pseudo-headers come and go, offline operations are queued and played back.
ImapActivity(f) ==
    /\ InEventLoop
    /\ active' = IF f \in active THEN active \ {f} ELSE active \cup {f}
    /\ UNCHANGED <<batch, thread, holder, expunged>>

\* A message of the folder is deleted.
DeleteMessage(f) ==
    /\ InEventLoop
    /\ expunged' = expunged \cup {f}
    /\ UNCHANGED <<batch, thread, holder, active>>

-----------------------------------------------------------------------------
Init ==
    /\ batch = [b \in Batches |-> NewBatch]
    /\ thread = None
    /\ holder = [f \in Folders |-> None]
    /\ active = {}
    /\ expunged \in SUBSET Folders

\* What is under way on behalf of b.
Step(b) ==
    \/ Dispatched(b) \/ Kickoff(b) \/ RetryTimerCallback(b)
    \/ Retry(b) \/ Defer(b) \/ Begin(b) \/ Finish(b)
    \/ \E f \in Folders : ExpungeDone(b, f) \/ OnDone(b, f)

Request(b) ==
    \/ \E fs \in Distinct : CompactDirectly(b, fs)
    \/ \E f \in Folders : ExpungeAndCompact(b, f)
    \/ \E fs \in Distinct, started \in SUBSET Folders : CompactAll(b, fs, started)

Others ==
    \E f \in Folders :
        AcquireSemaphore(f) \/ ReleaseSemaphore(f) \/ ImapActivity(f) \/ DeleteMessage(f)

Next == (\E b \in Batches : Step(b) \/ Request(b)) \/ Others

Spec == Init /\ [][Next]_vars

\* Runnables run, timers fire, an expunge URL ends, and so does the compaction
\* of a folder (FolderCompaction!CompactionEnds).  No one need ever ask for a
\* compaction, release a folder or finish an IMAP operation.
FairSpec == Spec /\ \A b \in Batches : WF_vars(Step(b))

-----------------------------------------------------------------------------
(* Properties *)

Codes == {"ok", "busy", "error", "unexpected"}

InBatch(b) == batch[b].phase \in {"queued", "running", "waiting"}

\* The type of every variable; StartNext runs on behalf of a batch only while
\* there is something for it to do.
TypeOK ==
    /\ batch \in [Batches ->
         [phase : {"new", "refused", "dispatched", "expunging", "queued", "running",
                   "waiting", "done"},
          caller : Kinds, asked : Seq(Folders), expunging : SUBSET Folders,
          told : Seq(Codes), mQueue : Seq(Folders), mRetry : Seq(Folders),
          mAttempt : 0 .. kMaxAttempts, mComplete : Seq(Folders),
          mFailed : Seq(Folders), mFailedCodes : Seq(Codes), folders : Seq(Folders),
          deferred : [Folders -> 0 .. kMaxAttempts], compacted : SUBSET Folders]]
    /\ thread \in Batches \cup {None}
    /\ thread # None => batch[thread].phase \in {"queued", "waiting"}
    /\ holder \in [Folders -> Batches \cup {None, "other"}]
    /\ active \subseteq Folders
    /\ expunged \subseteq Folders

\* StartNext and OnDone shuffle folders between mQueue, mRetry, mComplete and
\* mFailed: none is dropped on the way, and none is listed twice.
EveryFolderAccounted ==
    \A b \in Batches :
        LET all == batch[b].mQueue \o batch[b].mRetry \o batch[b].mComplete \o batch[b].mFailed
        IN  /\ IsInjective(all)
            /\ Range(all) = Range(batch[b].folders)

\* OnDone, which is not told which folder is done, books the right one: the
\* folders in mComplete are those that really were compacted, however many
\* batches and retries there are.
CompletedWereCompacted == \A b \in Batches : Range(batch[b].mComplete) = batch[b].compacted

\* A folder is given up for IMAP activity (NS_ERROR_UNEXPECTED in mFailedCodes)
\* only if it was found busy in each of the passes over the queue, as many as
\* kMaxAttempts unless the timer failed.
GivenUpAfterEveryAttempt ==
    \A b \in Batches : \A i \in DOMAIN batch[b].mFailed :
        batch[b].mFailedCodes[i] = "unexpected" =>
            /\ batch[b].deferred[batch[b].mFailed[i]] = batch[b].mAttempt
            /\ batch[b].mAttempt = kMaxAttempts \/ FALSE \in Outcome("timer")

\* FolderCompactor.h: the listener is told once, when everything is over; it is
\* told NS_OK if, and only if, every folder of the batch was compacted.
ToldTheTruth ==
    \A b \in Batches :
        batch[b].told # << >> =>
            /\ batch[b].phase = "done" /\ Len(batch[b].told) = 1
            /\ batch[b].folders # << >> =>
                 (batch[b].told[1] = "ok" <=> Range(batch[b].folders) = batch[b].compacted)

\* At most one folder of a batch is being compacted, the one at the end of
\* mQueue; and no folder that someone else uses is.
OneAtATime ==
    \A b \in Batches, f \in Folders :
        holder[f] = b <=> batch[b].phase = "running" /\ Last(batch[b].mQueue) = f

\* CompactAll starts to compact after the last expunge it started has finished.
ExpungeFirst == \A b \in Batches : InBatch(b) => batch[b].expunging = {}

\* A request that was not refused is answered, however long folders are busy.
EveryRequestAnswered ==
    \A b \in Batches :
        batch[b].phase \notin {"new", "refused"} ~> batch[b].told # << >>
=============================================================================
