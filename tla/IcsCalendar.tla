---------------------------- MODULE IcsCalendar ----------------------------
(***************************************************************************)
(* A remote calendar kept as one iCalendar file on a web server:           *)
(* CalICSCalendar.sys.mjs, its queue of operations, its lock, the calendar *)
(* in memory that the operations change, and the HTTP requests that load   *)
(* the file and write it back as a whole.                                  *)
(*                                                                         *)
(* Other clients write the same file.  The entity tag of the file is what  *)
(* keeps one client from writing over what another has written since, for  *)
(* a server that sends one; without it a download depends on the date of   *)
(* the file, and a write on nothing.                                       *)
(***************************************************************************)
EXTENDS Naturals, Sequences, FiniteSets

CONSTANTS
    Ids,        \* the UIDs of events and tasks
    MaxOps,     \* bound: number of operations asked of the calendar
    MaxOthers,  \* bound: number of changes made by other clients
    MaxFaults,  \* bound: number of requests that fail
    Cases       \* what may happen besides, a subset of AllCases

\* first: requests fail, or another client makes the file, before this client knows an
\* entity tag; noetag: the answer to a PUT may carry no ETag header; untagged: that to a GET
\* may carry no ETag, or no Last-Modified; second: the file may change twice in one second.
AllCases == {"first", "noetag", "untagged", "second"}

ASSUME IcsAssumption ==
    /\ Ids # {}
    /\ MaxOps \in Nat /\ MaxOthers \in Nat /\ MaxFaults \in Nat
    /\ Cases \subseteq AllCases

VARIABLES
    server,    \* the file on the server: its items, its entity tag and its date
    mem,       \* #memoryCalendar: the version of each item, Absent if it has none
    etag,      \* #etag of the HTTP hooks, NoTag for null
    lastModified, \* #lastModified of the HTTP hooks, NoDate for null
    queue,     \* _queue
    locked,    \* #locked
    acting,    \* #modificationActions: the operations the write in progress is for
    net,       \* the HTTP requests in flight
    readOnly,  \* the property readOnly
    disabled,  \* the property disabled
    told,      \* for each operation, whether it has been asked and how it was answered
    ops,       \* number of operations so far
    others,    \* number of changes by other clients so far
    faults,    \* number of faults so far
    base,      \* the items of the file that mem was made from
    bare,      \* whether that file came, or was written, without an entity tag
    dirty      \* the items changed in mem that have not been written since

vars == <<server, mem, etag, lastModified, queue, locked, acting, net, readOnly, disabled,
          told, ops, others, faults, base, bare, dirty>>

\* What is known of the file.
known == <<etag, lastModified, base, bare>>

Absent == 0
NoTag == 0
NoDate == 0
Ops == 1 .. MaxOps

\* The versions of an item: the one it had in the beginning, and one for each change.
Versions == 0 .. MaxOps + MaxOthers + 1
Items == [Ids -> Versions]
Nothing == [i \in Ids |-> Absent]

\* The tasks of the queue.  For a refresh and a read it does not matter which item.
Task(action, op, i, old, force) ==
    [action |-> action, op |-> op, id |-> i, old |-> old, force |-> force]
NoItem == CHOOSE i \in Ids : TRUE
RefreshTask(force) == Task("refresh", 0, NoItem, Absent, force)
ReadTask(op) == Task("get", op, NoItem, Absent, FALSE)
Changing == {"add", "modify", "delete"}

\* A request with the entity tag or the date it depends on, the items it sends, and its
\* answer.
Request(kind, tag, since, items) ==
    [kind |-> kind, tag |-> tag, since |-> since, items |-> items, st |-> "sent",
     etag |-> NoTag, date |-> NoDate]

Answer(r, st, e, d, items) ==
    [kind |-> r.kind, tag |-> NoTag, since |-> NoDate, items |-> items, st |-> st,
     etag |-> e, date |-> d]

-----------------------------------------------------------------------------
(* The queue and the lock.                                                 *)

\* The memory calendar rejects a change of an item it no longer has, or has in another
\* version than the caller saw.  A deletion compares the generation only, which another
\* client's change may have left alone.
Rejects(m, t) ==
    CASE t.action = "add"    -> {FALSE}
      [] t.action = "modify" -> {m[t.id] = Absent \/ m[t.id] # t.old}
      [] t.action = "delete" -> IF m[t.id] = Absent THEN {TRUE}
                                ELSE {FALSE, m[t.id] # t.old}

\* addItem, modifyItem and deleteItem of the memory calendar.
Applied(m, t) == [m EXCEPT ![t.id] = IF t.action = "delete" THEN Absent ELSE t.op]

\* #doRefresh with onBeforeGet: unless forced, only a file with another tag is wanted, or a
\* newer one, if no tag is known.
Get(force) ==
    Request("get", IF force THEN NoTag ELSE etag',
            IF force \/ etag' # NoTag THEN NoDate ELSE lastModified', Nothing)

Answered(t, done, how) == [o \in Ops |-> IF o \in done THEN how ELSE t[o]]

\* #processQueue with no lock held, with tasks q, items m in memory, of which d are not
\* written, answers t so far and other requests n in flight: the reads in front are
\* answered at once, then a change or a refresh takes the lock and starts its first
\* request.  A rejected promise of the memory calendar is not handled: the lock stays.
ProcessQueue(q, m, d, t, n) ==
    \E k \in 1 .. Len(q) + 1 :
        /\ \A j \in 1 .. k - 1 : q[j].action = "get"
        /\ told' = Answered(t, {q[j].op : j \in 1 .. k - 1}, "ok")
        /\ queue' = SubSeq(q, k + 1, Len(q))
        /\ locked' = (k <= Len(q))
        /\ \/ /\ k > Len(q)
              /\ mem' = m /\ dirty' = d
              /\ acting' = {}
              /\ net' = n
           \/ /\ k <= Len(q) /\ q[k].action = "refresh"
              /\ mem' = m /\ dirty' = d
              /\ acting' = {}
              /\ net' = n \cup {Get(q[k].force)}
           \/ /\ k <= Len(q) /\ q[k].action \in Changing
              /\ \/ /\ TRUE \in Rejects(m, q[k])
                    /\ mem' = m /\ dirty' = d
                    /\ acting' = {}
                    /\ net' = n
                 \/ /\ FALSE \in Rejects(m, q[k])
                    /\ mem' = Applied(m, q[k]) /\ dirty' = d \cup {q[k].id}
                    /\ acting' = {q[k].op}
                    /\ net' = n \cup {Request("backup", NoTag, NoDate, Nothing)}

\* Variant: the lock is not looked at.
PushAnyway(task, t) == ProcessQueue(Append(queue, task), mem, dirty, t, net)

\* A task is put into the queue, which is processed unless the lock is held.
Push(task, t) ==
    IF locked
    THEN /\ queue' = Append(queue, task)
         /\ told' = t
         /\ UNCHANGED <<mem, dirty, locked, acting, net>>
    ELSE ProcessQueue(Append(queue, task), mem, dirty, t, net)

\* Variant: the listeners hear nothing of a failed write.
UnlockSilently(failed, q, m, d, n) ==
    ProcessQueue(q, m, d, IF failed THEN told ELSE Answered(told, acting, "ok"), n)

\* #unlock: every listener is a function and is given its item, whatever the error code.
Unlock(failed, q, m, d, n) == ProcessQueue(q, m, d, Answered(told, acting, "ok"), n)

-----------------------------------------------------------------------------
(* The operations of the calendar.                                         *)

\* addItem, modifyItem and deleteItem.  A change refused because the calendar is read-only
\* is an exception.  The caller has the version of the item that is in memory.
Change(action, i) ==
    /\ ~disabled
    /\ ops < MaxOps
    /\ (action = "add") <=> (mem[i] = Absent)
    /\ ops' = ops + 1
    /\ UNCHANGED known
    /\ IF readOnly
       THEN /\ told' = [told EXCEPT ![ops + 1] = "error"]
            /\ UNCHANGED <<queue, locked, acting, net, mem, dirty>>
       ELSE Push(Task(action, ops + 1, i, mem[i], FALSE),
                 [told EXCEPT ![ops + 1] = "waiting"])
    /\ UNCHANGED <<server, readOnly, disabled, others, faults>>

\* getItem and getItems.
Read ==
    /\ ~disabled
    /\ ops < MaxOps
    /\ ops' = ops + 1
    /\ UNCHANGED known
    /\ Push(ReadTask(ops + 1), [told EXCEPT ![ops + 1] = "waiting"])
    /\ UNCHANGED <<server, readOnly, disabled, others, faults>>

\* refresh, from the timer of the calendar manager.  One at a time is in the queue.
Refresh ==
    /\ ~disabled
    /\ \A j \in DOMAIN queue : queue[j].action # "refresh"
    /\ UNCHANGED known
    /\ Push(RefreshTask(FALSE), told)
    /\ UNCHANGED <<server, readOnly, disabled, ops, others, faults>>

\* onAfterGet: the tag and the date of a file that is to be parsed, null if it has none.
AfterGet(r) ==
    IF r.st = "ok"
    THEN /\ etag' = r.etag /\ lastModified' = r.date
         /\ base' = r.items /\ bare' = (r.etag = NoTag)
    ELSE UNCHANGED known

\* Variant: a file without items leaves the old ones.
LoadedUnlessEmpty(r) == IF r.st = "ok" /\ r.items # Nothing THEN r.items ELSE mem

\* The file replaces the items in memory, an empty one too, or the old ones are kept.
Loaded(r) == IF r.st = "ok" THEN r.items ELSE mem

\* onStreamComplete.  An answer from 400, but for 404, disables the calendar.
StreamComplete ==
    \E r \in net :
        /\ r.kind = "get" /\ r.st # "sent"
        /\ AfterGet(r)
        /\ disabled' = (disabled \/ r.st = "status")
        /\ Unlock(FALSE, queue, Loaded(r), IF r.st = "ok" THEN {} ELSE dirty, net \ {r})
        /\ UNCHANGED <<server, readOnly, ops, others, faults>>

\* Variant: the file is written whatever is on the server.
PutOver == Request("put", NoTag, NoDate, mem)

\* #doWriteICS with onBeforePut: all items, for the file with the tag known here, if any.
Put == Request("put", etag, NoDate, mem)

\* onDownloadComplete of #makeBackup: the file is written, or, when the server cannot be
\* reached, #writeICS gives up.
BackupComplete ==
    \E r \in net :
        /\ r.kind = "backup" /\ r.st # "sent"
        /\ UNCHANGED known
        /\ IF r.st = "net"
           THEN Unlock(TRUE, queue, mem, dirty, net \ {r})
           ELSE /\ net' = (net \ {r}) \cup {Put}
                /\ UNCHANGED <<queue, mem, dirty, told, locked, acting>>
        /\ UNCHANGED <<server, readOnly, disabled, ops, others, faults>>

\* onStopRequest: a failed write makes the calendar read-only and asks for a download
\* behind what is in the queue.  The tag of a written file is remembered, its date is not;
\* a PROPFIND for a missing tag, sent under the lock, finds none whatever its answer, its
\* path being that of the query.
StopRequest ==
    \E r \in net :
        /\ r.kind = "put" /\ r.st # "sent"
        /\ \/ /\ r.st = "ok"
              /\ etag' = r.etag /\ lastModified' = lastModified
              /\ base' = r.items /\ bare' = (r.etag = NoTag)
              /\ readOnly' = readOnly
              /\ Unlock(FALSE, queue, mem, {}, net \ {r})
           \/ /\ r.st # "ok"
              /\ UNCHANGED known
              /\ readOnly' = TRUE
              /\ Unlock(TRUE, Append(queue, RefreshTask(TRUE)), mem, dirty, net \ {r})
        /\ UNCHANGED <<server, disabled, ops, others, faults>>

\* The user makes the calendar writable or enables it again, which refreshes it.
Reset ==
    \/ /\ readOnly
       /\ readOnly' = FALSE
       /\ UNCHANGED <<server, mem, queue, locked, acting, net, disabled, told, ops, others,
                      faults, dirty>>
       /\ UNCHANGED known
    \/ /\ disabled
       /\ disabled' = FALSE
       /\ UNCHANGED known
       /\ Push(RefreshTask(FALSE), told)
       /\ UNCHANGED <<server, readOnly, ops, others, faults>>

-----------------------------------------------------------------------------
(* The server, the network and other clients.                              *)

\* A file that replaces the one on the server.  Its tag is new; its date, in seconds, is
\* later.
NewFiles(items) ==
    [items : {items}, tag : {server.tag + 1},
     date : {server.date + 1} \cup
            IF "second" \in Cases THEN {server.date} \ {NoDate} ELSE {}]

\* The tag and the date that come with the file.  A tag without a date is left out: it would
\* matter only after a PUT answered without a tag, the next GET being unconditional then, as
\* after a file with neither.
Headers ==
    {<<server.tag, server.date>>} \cup
    IF "untagged" \in Cases THEN {<<NoTag, server.date>>, <<NoTag, NoDate>>} ELSE {}

\* The server's answer to a GET: the file is missing, is the one known, or is sent.
ServeGet(r) ==
    /\ server' = server
    /\ IF server.tag = NoTag
       THEN net' = (net \ {r}) \cup {Answer(r, "missing", NoTag, NoDate, Nothing)}
       ELSE IF r.tag = server.tag \/ (r.since # NoDate /\ server.date <= r.since)
       THEN net' = (net \ {r}) \cup {Answer(r, "same", NoTag, NoDate, Nothing)}
       ELSE \E h \in Headers :
              net' = (net \ {r}) \cup {Answer(r, "ok", h[1], h[2], server.items)}

\* The answer to a PUT, which is refused when it depends on another tag.
ServePut(r) ==
    IF r.tag \in {NoTag, server.tag}
    THEN \E file \in NewFiles(r.items) :
           \E e \in {file.tag} \cup IF "noetag" \in Cases THEN {NoTag} ELSE {} :
             /\ server' = file
             /\ net' = (net \ {r}) \cup {Answer(r, "ok", e, NoDate, r.items)}
    ELSE /\ server' = server
         /\ net' = (net \ {r}) \cup {Answer(r, "refused", NoTag, NoDate, Nothing)}

Serve ==
    /\ \E r \in {s \in net : s.st = "sent"} :
          \/ r.kind = "get" /\ ServeGet(r)
          \/ r.kind = "put" /\ ServePut(r)
          \/ /\ r.kind = "backup"
             /\ server' = server
             /\ net' = (net \ {r}) \cup {Answer(r, "ok", NoTag, NoDate, Nothing)}
    /\ UNCHANGED <<mem, queue, locked, acting, readOnly, disabled, told, ops, others,
                   faults, dirty>>
    /\ UNCHANGED known

\* A request fails: the server answers with an error, or cannot be reached, or its answer
\* is lost.
Fail ==
    /\ faults < MaxFaults
    /\ etag # NoTag \/ bare \/ "first" \in Cases
    /\ faults' = faults + 1
    /\ \E r \in net, st \in {"status", "net"} :
          /\ r.st # "net"
          /\ st = "status" => r.st = "sent"
          /\ net' = (net \ {r}) \cup {Answer(r, st, NoTag, NoDate, Nothing)}
    /\ UNCHANGED <<server, mem, queue, locked, acting, readOnly, disabled, told, ops,
                   others, dirty>>
    /\ UNCHANGED known

\* Another client changes, adds or removes an item, or makes the file.
OtherClient ==
    /\ others < MaxOthers
    /\ server.tag # NoTag \/ "first" \in Cases
    /\ others' = others + 1
    /\ \E i \in Ids, v \in {Absent, MaxOps + others + 1} :
          /\ v # server.items[i]
          /\ server' \in NewFiles([server.items EXCEPT ![i] = v])
    /\ UNCHANGED <<mem, queue, locked, acting, net, readOnly, disabled, told, ops, faults,
                   dirty>>
    /\ UNCHANGED known

-----------------------------------------------------------------------------

\* The calendar has just been registered, and its first refresh has been started.
Init ==
    /\ \/ server = [items |-> Nothing, tag |-> NoTag, date |-> NoDate]
       \/ \E s \in [Ids -> {Absent, MaxOps + MaxOthers + 1}] :
             server = [items |-> s, tag |-> 1, date |-> 1]
    /\ mem = Nothing
    /\ etag = NoTag /\ lastModified = NoDate
    /\ queue = <<>>
    /\ locked = TRUE
    /\ acting = {}
    /\ net = {Request("get", NoTag, NoDate, Nothing)}
    /\ readOnly = FALSE
    /\ disabled = FALSE
    /\ told = [o \in Ops |-> "unasked"]
    /\ ops = 0
    /\ others = 0
    /\ faults = 0
    /\ base = Nothing /\ bare = FALSE
    /\ dirty = {}

Next ==
    \/ \E action \in Changing, i \in Ids : Change(action, i)
    \/ Read
    \/ Refresh
    \/ StreamComplete
    \/ BackupComplete
    \/ StopRequest
    \/ Reset
    \/ Serve
    \/ Fail
    \/ OtherClient

\* Requests are answered, their completion is handled, and the refresh timer fires.
Fairness ==
    /\ WF_vars(Serve)
    /\ WF_vars(StreamComplete)
    /\ WF_vars(BackupComplete)
    /\ WF_vars(StopRequest)
    /\ WF_vars(Refresh)

Spec == Init /\ [][Next]_vars /\ Fairness
-----------------------------------------------------------------------------
(* Properties.                                                             *)

Requests ==
    [kind : {"get", "backup", "put"}, tag : Nat, since : Nat, items : Items,
     st : {"sent", "ok", "same", "missing", "refused", "status", "net"},
     etag : Nat, date : Nat]

Answers == {"unasked", "waiting", "ok", "error"}

Tasks ==
    [action : Changing \cup {"get", "refresh"}, op : 0 .. MaxOps, id : Ids,
     old : Versions, force : BOOLEAN]

\* The variables keep to their values; a task waits only behind a lock; and the lock
\* serialises the requests, whatever fails: #processQueue, #lock and #unlock.
TypeOK ==
    /\ server \in [items : Items, tag : Nat, date : Nat]
    /\ mem \in Items /\ base \in Items /\ bare \in BOOLEAN
    /\ etag \in Nat /\ lastModified \in Nat
    /\ queue \in Seq(Tasks)
    /\ locked \in BOOLEAN /\ readOnly \in BOOLEAN /\ disabled \in BOOLEAN
    /\ net \subseteq Requests
    /\ acting \subseteq 0 .. MaxOps /\ dirty \subseteq Ids
    /\ told \in [Ops -> Answers]
    /\ ops \in 0 .. MaxOps /\ others \in 0 .. MaxOthers /\ faults \in 0 .. MaxFaults
    /\ net # {} => locked
    /\ queue # <<>> => locked
    /\ \A r, s \in net : r = s

\* What this client writes over is a file it has read: when the server takes its PUT, the
\* items on the server are those the memory calendar was made from, so no change of
\* another client is lost unseen (onAfterGet, onBeforePut, onAfterPut of the HTTP hooks).
\* That cannot be said of a file without an entity tag, as the remarks in onAfterGet ("No
\* etag header. Now what?") and onAfterPut know: its writes depend on nothing.
\* (The remark at the head of the file, that changes of others are overwritten, is older
\* than the hooks.)
NothingUnseenOverwritten ==
    [][server' # server /\ others' = others /\ ~bare => server.items = base]_vars

\* The lock is held and nothing is under way that could release it.
Stuck == locked /\ net = {}

\* Every operation asked of the calendar is answered, in spite of failed requests, unless
\* the memory calendar has rejected a change, whose promise #processQueue does not handle.
EveryOperationAnswered ==
    \A o \in Ops : told[o] = "waiting" ~> (told[o] # "waiting" \/ Stuck)

\* Once nothing changes any more the calendar shows the file on the server, except for
\* changes of its own that could not be written, unless it is disabled or stuck: a
\* conditional GET must not spare a download that is needed, whether it depends on the tag
\* or, without one, on the date, and an empty file counts.
ShowsTheFile ==
    <>[](disabled \/ Stuck \/ \A i \in Ids \ dirty : mem[i] = server.items[i])
=============================================================================
