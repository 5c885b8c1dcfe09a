-------------------------- MODULE IcsCalendarProofs --------------------------
(***************************************************************************)
(* Proofs about IcsCalendar, for any set of items and any bounds: its lock *)
(* serialises the requests, and, once the first download has succeeded, no *)
(* write of a file that has an entity tag goes over one that this client   *)
(* has not read.                                                           *)
(***************************************************************************)
EXTENDS IcsCalendar, SequenceTheorems, TLAPS

-----------------------------------------------------------------------------
(* Tasks, requests and the queue.                                          *)

LEMMA NothingTyped == Nothing \in Items
  BY IcsAssumption DEF Nothing, Items, Versions, Absent

LEMMA RefreshTaskTyped ==
    ASSUME NEW force \in BOOLEAN
    PROVE  RefreshTask(force) \in Tasks
  <1>1. NoItem \in Ids
    BY IcsAssumption DEF NoItem
  <1> QED
    BY <1>1, IcsAssumption DEF RefreshTask, Task, Tasks, Versions, Absent

LEMMA ReadTaskTyped ==
    ASSUME NEW op \in Ops
    PROVE  ReadTask(op) \in Tasks
  <1>1. NoItem \in Ids /\ op \in 0 .. MaxOps
    BY IcsAssumption DEF NoItem, Ops
  <1> QED
    BY <1>1, IcsAssumption DEF ReadTask, Task, Tasks, Versions, Absent

LEMMA RequestTyped ==
    ASSUME NEW kind \in {"get", "backup", "put"}, NEW tag \in Nat, NEW since \in Nat,
           NEW items \in Items
    PROVE  /\ Request(kind, tag, since, items) \in Requests
           /\ Request(kind, tag, since, items).st = "sent"
           /\ Request(kind, tag, since, items).kind = kind
           /\ Request(kind, tag, since, items).tag = tag
  BY DEF Request, Requests, NoTag, NoDate

LEMMA AnsweredTyped ==
    ASSUME NEW t \in [Ops -> Answers], NEW done, NEW how \in Answers
    PROVE  Answered(t, done, how) \in [Ops -> Answers]
  BY DEF Answered

LEMMA AppliedTyped ==
    ASSUME NEW m \in Items, NEW t \in Tasks
    PROVE  Applied(m, t) \in Items
  <1>1. t.op \in Versions /\ Absent \in Versions
    BY IcsAssumption DEF Tasks, Versions, Absent
  <1> QED
    BY <1>1 DEF Applied, Items

\* What #processQueue leaves when no request is in flight: at most one new request, a
\* download or a backup, under the lock.
LEMMA ProcessQueueTyped ==
    ASSUME NEW q \in Seq(Tasks), NEW m \in Items, NEW d \in SUBSET Ids,
           NEW t \in [Ops -> Answers], etag' \in Nat, lastModified' \in Nat,
           ProcessQueue(q, m, d, t, {})
    PROVE  /\ queue' \in Seq(Tasks)
           /\ mem' \in Items
           /\ dirty' \in SUBSET Ids
           /\ told' \in [Ops -> Answers]
           /\ acting' \subseteq 0 .. MaxOps
           /\ locked' \in BOOLEAN
           /\ queue' # <<>> => locked'
           /\ \/ net' = {}
              \/ /\ locked'
                 /\ \E r \in Requests :
                       net' = {r} /\ r.st = "sent" /\ r.kind \in {"get", "backup"}
  <1>1. PICK k \in 1 .. Len(q) + 1 :
          /\ told' = Answered(t, {q[j].op : j \in 1 .. k - 1}, "ok")
          /\ queue' = SubSeq(q, k + 1, Len(q))
          /\ locked' = (k <= Len(q))
          /\ \/ /\ k > Len(q)
                /\ mem' = m /\ dirty' = d
                /\ acting' = {}
                /\ net' = {}
             \/ /\ k <= Len(q) /\ q[k].action = "refresh"
                /\ mem' = m /\ dirty' = d
                /\ acting' = {}
                /\ net' = {} \cup {Get(q[k].force)}
             \/ /\ k <= Len(q) /\ q[k].action \in Changing
                /\ \/ /\ mem' = m /\ dirty' = d
                      /\ acting' = {}
                      /\ net' = {}
                   \/ /\ mem' = Applied(m, q[k]) /\ dirty' = d \cup {q[k].id}
                      /\ acting' = {q[k].op}
                      /\ net' = {} \cup {Request("backup", NoTag, NoDate, Nothing)}
    BY DEF ProcessQueue
  <1>2. Len(q) \in Nat /\ k \in Nat /\ k >= 1 /\ k <= Len(q) + 1
    BY <1>1, LenProperties
  <1>3. told' \in [Ops -> Answers]
    BY <1>1, AnsweredTyped DEF Answers
  <1>4. queue' \in Seq(Tasks)
    <2>1. \A i \in k + 1 .. Len(q) : q[i] \in Tasks
      BY <1>2, ElementOfSeq
    <2> QED
      BY <1>1, <1>2, <2>1, SubSeqProperties
  <1>5. locked' \in BOOLEAN
    BY <1>1
  <1>6. queue' # <<>> => locked'
    <2>1. SUFFICES ASSUME k > Len(q) PROVE queue' = <<>>
      BY <1>1, <1>2
    <2> QED
      BY <1>1, <1>2, <2>1, SubSeqEmpty
  <1>7. ASSUME k <= Len(q)
        PROVE  /\ q[k] \in Tasks
               /\ q[k].id \in Ids /\ q[k].op \in 0 .. MaxOps /\ q[k].force \in BOOLEAN
    <2>1. q[k] \in Tasks
      BY <1>2, <1>7, ElementOfSeq
    <2> QED
      BY <2>1 DEF Tasks
  <1>8. /\ Request("backup", NoTag, NoDate, Nothing) \in Requests
        /\ Request("backup", NoTag, NoDate, Nothing).st = "sent"
        /\ Request("backup", NoTag, NoDate, Nothing).kind = "backup"
    BY RequestTyped, NothingTyped DEF NoTag, NoDate
  <1>9. \A force : /\ Get(force) \in Requests
                   /\ Get(force).st = "sent" /\ Get(force).kind = "get"
    BY RequestTyped, NothingTyped DEF NoTag, NoDate, Get
  <1>10. mem' \in Items /\ dirty' \in SUBSET Ids /\ acting' \subseteq 0 .. MaxOps
    BY <1>1, <1>7, AppliedTyped
  <1>11. \/ net' = {}
         \/ /\ locked'
            /\ \E r \in Requests :
                  net' = {r} /\ r.st = "sent" /\ r.kind \in {"get", "backup"}
    BY <1>1, <1>8, <1>9
  <1> QED
    BY <1>3, <1>4, <1>5, <1>6, <1>10, <1>11

\* The parts of TypeOK that #processQueue does not touch.
Rest ==
    /\ server \in [items : Items, tag : Nat, date : Nat]
    /\ base \in Items /\ bare \in BOOLEAN
    /\ etag \in Nat /\ lastModified \in Nat
    /\ readOnly \in BOOLEAN /\ disabled \in BOOLEAN
    /\ ops \in 0 .. MaxOps /\ others \in 0 .. MaxOthers /\ faults \in 0 .. MaxFaults

\* What is in flight after #processQueue, given that nothing was before.
Started ==
    \/ net' = {}
    \/ \E r \in Requests : net' = {r} /\ r.st = "sent" /\ r.kind \in {"get", "backup"}

LEMMA ProcessQueueOK ==
    ASSUME NEW q \in Seq(Tasks), NEW m \in Items, NEW d \in SUBSET Ids,
           NEW t \in [Ops -> Answers], Rest',
           ProcessQueue(q, m, d, t, {})
    PROVE  TypeOK' /\ Started
  <1>1. etag' \in Nat /\ lastModified' \in Nat
    BY DEF Rest
  <1>2. /\ queue' \in Seq(Tasks)
        /\ mem' \in Items
        /\ dirty' \in SUBSET Ids
        /\ told' \in [Ops -> Answers]
        /\ acting' \subseteq 0 .. MaxOps
        /\ locked' \in BOOLEAN
        /\ queue' # <<>> => locked'
        /\ \/ net' = {}
           \/ /\ locked'
              /\ \E r \in Requests :
                    net' = {r} /\ r.st = "sent" /\ r.kind \in {"get", "backup"}
    BY <1>1, ProcessQueueTyped
  <1> QED
    BY <1>2 DEF TypeOK, Rest, Started

\* A task put into the queue leaves the types alone, and what it starts is new.
LEMMA PushOK ==
    ASSUME TypeOK, NEW task \in Tasks, NEW t \in [Ops -> Answers], Rest', Push(task, t)
    PROVE  TypeOK' /\ (net' = net \/ (net = {} /\ Started))
  <1>1. Append(queue, task) \in Seq(Tasks)
    BY AppendProperties DEF TypeOK
  <1>2. CASE locked
    BY <1>1, <1>2 DEF TypeOK, Rest, Push
  <1>3. CASE ~locked
    <2>1. net = {}
      BY <1>3 DEF TypeOK
    <2>2. mem \in Items /\ dirty \in SUBSET Ids
      BY DEF TypeOK
    <2>3. ProcessQueue(Append(queue, task), mem, dirty, t, {})
      BY <1>3, <2>1 DEF Push
    <2> QED
      BY <1>1, <2>1, <2>2, <2>3, ProcessQueueOK
  <1> QED
    BY <1>2, <1>3

\* The same for the unlocking at the end of the request in flight.
LEMMA UnlockOK ==
    ASSUME TypeOK, NEW failed, NEW q \in Seq(Tasks), NEW m \in Items, NEW d \in SUBSET Ids,
           NEW r \in net, Rest', Unlock(failed, q, m, d, net \ {r})
    PROVE  TypeOK' /\ Started
  <1>1. net \ {r} = {}
    BY DEF TypeOK
  <1>2. Answered(told, acting, "ok") \in [Ops -> Answers]
    BY AnsweredTyped DEF TypeOK, Answers
  <1>3. ProcessQueue(q, m, d, Answered(told, acting, "ok"), {})
    BY <1>1 DEF Unlock
  <1> QED
    BY <1>2, <1>3, ProcessQueueOK

-----------------------------------------------------------------------------
(* Types and the lock.                                                     *)

LEMMA InitTypeOK == Init => TypeOK
  <1> SUFFICES ASSUME Init PROVE TypeOK
    OBVIOUS
  <1>1. Nothing \in Items /\ Request("get", NoTag, NoDate, Nothing) \in Requests
    BY NothingTyped, RequestTyped DEF NoTag, NoDate
  <1>2. server \in [items : Items, tag : Nat, date : Nat]
    BY <1>1, IcsAssumption DEF Init, Items, Versions, NoTag, NoDate, Absent
  <1>3. queue \in Seq(Tasks) /\ queue = <<>> /\ locked = TRUE
    BY EmptySeq DEF Init
  <1>4. /\ mem \in Items /\ base \in Items /\ etag \in Nat /\ lastModified \in Nat
        /\ bare \in BOOLEAN
        /\ net \subseteq Requests /\ acting \subseteq 0 .. MaxOps /\ dirty \subseteq Ids
        /\ \A r, s \in net : r = s
    BY <1>1 DEF Init, NoTag, NoDate
  <1>5. told \in [Ops -> Answers] /\ readOnly \in BOOLEAN /\ disabled \in BOOLEAN
    BY DEF Init, Answers
  <1>6. ops \in 0 .. MaxOps /\ others \in 0 .. MaxOthers /\ faults \in 0 .. MaxFaults
    BY IcsAssumption DEF Init
  <1> QED
    BY <1>2, <1>3, <1>4, <1>5, <1>6 DEF TypeOK

\* One operation more.
LEMMA OpsTyped ==
    ASSUME TypeOK, ops < MaxOps, ops' = ops + 1, UNCHANGED known,
           UNCHANGED <<server, readOnly, disabled, others, faults>>
    PROVE  /\ Rest' /\ ops + 1 \in Ops
           /\ [told EXCEPT ![ops + 1] = "error"] \in [Ops -> Answers]
           /\ [told EXCEPT ![ops + 1] = "waiting"] \in [Ops -> Answers]
  <1>1. ops + 1 \in 1 .. MaxOps /\ ops' \in 0 .. MaxOps
    BY IcsAssumption DEF TypeOK
  <1>2. Rest'
    BY <1>1 DEF TypeOK, Rest, known
  <1> QED
    BY <1>1, <1>2 DEF TypeOK, Answers, Ops

LEMMA ChangeTypeOK ==
    ASSUME TypeOK, NEW action \in Changing, NEW i \in Ids, Change(action, i)
    PROVE  TypeOK' /\ (net' = net \/ (net = {} /\ Started))
  <1>1. /\ Rest' /\ ops + 1 \in Ops
        /\ [told EXCEPT ![ops + 1] = "error"] \in [Ops -> Answers]
        /\ [told EXCEPT ![ops + 1] = "waiting"] \in [Ops -> Answers]
    BY OpsTyped DEF Change
  <1>2. CASE readOnly
    BY <1>1, <1>2 DEF Change, TypeOK, Rest
  <1>3. CASE ~readOnly
    <2>1. Task(action, ops + 1, i, mem[i], FALSE) \in Tasks
      BY <1>1 DEF TypeOK, Task, Tasks, Items, Ops
    <2>2. Push(Task(action, ops + 1, i, mem[i], FALSE), [told EXCEPT ![ops + 1] = "waiting"])
      BY <1>3 DEF Change
    <2> QED
      BY <1>1, <2>1, <2>2, PushOK
  <1> QED
    BY <1>2, <1>3 DEF TypeOK

LEMMA ReadTypeOK ==
    ASSUME TypeOK, Read
    PROVE  TypeOK' /\ (net' = net \/ (net = {} /\ Started))
  <1>1. /\ Rest' /\ ops + 1 \in Ops
        /\ [told EXCEPT ![ops + 1] = "waiting"] \in [Ops -> Answers]
    BY OpsTyped DEF Read
  <1>2. Push(ReadTask(ops + 1), [told EXCEPT ![ops + 1] = "waiting"])
    BY DEF Read
  <1> QED
    BY <1>1, <1>2, ReadTaskTyped, PushOK

LEMMA RefreshTypeOK ==
    ASSUME TypeOK, Refresh
    PROVE  TypeOK' /\ (net' = net \/ (net = {} /\ Started))
  <1>1. Rest' /\ told \in [Ops -> Answers] /\ Push(RefreshTask(FALSE), told)
    BY DEF Refresh, TypeOK, Rest, known
  <1> QED
    BY <1>1, RefreshTaskTyped, PushOK

LEMMA ResetTypeOK ==
    ASSUME TypeOK, Reset
    PROVE  TypeOK' /\ (net' = net \/ (net = {} /\ Started))
  <1>1. CASE readOnly /\ readOnly' = FALSE
             /\ UNCHANGED <<server, mem, queue, locked, acting, net, disabled, told, ops,
                            others, faults, dirty>>
             /\ UNCHANGED known
    BY <1>1 DEF TypeOK, known
  <1>2. CASE /\ disabled' = FALSE
             /\ UNCHANGED known
             /\ Push(RefreshTask(FALSE), told)
             /\ UNCHANGED <<server, readOnly, ops, others, faults>>
    <2>1. Rest' /\ told \in [Ops -> Answers]
      BY <1>2 DEF TypeOK, Rest, known
    <2> QED
      BY <1>2, <2>1, RefreshTaskTyped, PushOK
  <1> QED
    BY <1>1, <1>2 DEF Reset

LEMMA StreamCompleteTypeOK ==
    ASSUME TypeOK, StreamComplete
    PROVE  TypeOK' /\ Started
  <1>1. PICK r \in net :
          /\ r.kind = "get" /\ r.st # "sent"
          /\ AfterGet(r)
          /\ disabled' = (disabled \/ r.st = "status")
          /\ Unlock(FALSE, queue, Loaded(r), IF r.st = "ok" THEN {} ELSE dirty, net \ {r})
          /\ UNCHANGED <<server, readOnly, ops, others, faults>>
    BY DEF StreamComplete
  <1>2. r.items \in Items /\ r.etag \in Nat /\ r.date \in Nat
    BY DEF TypeOK, Requests
  <1>3. Rest'
    BY <1>1, <1>2 DEF TypeOK, Rest, AfterGet, known
  <1>4. /\ Loaded(r) \in Items /\ queue \in Seq(Tasks)
        /\ (IF r.st = "ok" THEN {} ELSE dirty) \in SUBSET Ids
    BY <1>2 DEF TypeOK, Loaded
  <1> QED
    BY <1>1, <1>3, <1>4, UnlockOK

\* After a backup the file is written, or the lock is released.
LEMMA BackupCompleteTypeOK ==
    ASSUME TypeOK, BackupComplete
    PROVE  TypeOK' /\ (Started \/ net' = {Put})
  <1>1. PICK r \in net :
          /\ r.kind = "backup" /\ r.st # "sent"
          /\ UNCHANGED known
          /\ IF r.st = "net"
             THEN Unlock(TRUE, queue, mem, dirty, net \ {r})
             ELSE /\ net' = (net \ {r}) \cup {Put}
                  /\ UNCHANGED <<queue, mem, dirty, told, locked, acting>>
          /\ UNCHANGED <<server, readOnly, disabled, ops, others, faults>>
    BY DEF BackupComplete
  <1>2. Rest'
    BY <1>1 DEF TypeOK, Rest, known
  <1>3. CASE r.st = "net"
    <2>1. mem \in Items /\ queue \in Seq(Tasks) /\ dirty \in SUBSET Ids
      BY DEF TypeOK
    <2> QED
      BY <1>1, <1>2, <1>3, <2>1, UnlockOK
  <1>4. CASE r.st # "net"
    <2>1. Put \in Requests
      BY RequestTyped DEF Put, TypeOK, NoDate
    <2>2. net' = {Put} /\ locked
      BY <1>1, <1>4 DEF TypeOK
    <2> QED
      BY <1>1, <1>2, <1>4, <2>1, <2>2 DEF TypeOK, Rest
  <1> QED
    BY <1>3, <1>4

LEMMA StopRequestTypeOK ==
    ASSUME TypeOK, StopRequest
    PROVE  TypeOK' /\ Started
  <1>1. PICK r \in net :
          /\ r.kind = "put" /\ r.st # "sent"
          /\ \/ /\ r.st = "ok"
                /\ etag' = r.etag /\ lastModified' = lastModified
                /\ base' = r.items /\ bare' = (r.etag = NoTag)
                /\ readOnly' = readOnly
                /\ Unlock(FALSE, queue, mem, {}, net \ {r})
             \/ /\ r.st # "ok"
                /\ UNCHANGED known
                /\ readOnly' = TRUE
                /\ Unlock(TRUE, Append(queue, RefreshTask(TRUE)), mem, dirty, net \ {r})
          /\ UNCHANGED <<server, disabled, ops, others, faults>>
    BY DEF StopRequest
  <1>2. r.items \in Items /\ r.etag \in Nat
    BY DEF TypeOK, Requests
  <1>3. Rest'
    BY <1>1, <1>2 DEF TypeOK, Rest, known
  <1>4. Append(queue, RefreshTask(TRUE)) \in Seq(Tasks)
    BY RefreshTaskTyped, AppendProperties DEF TypeOK
  <1>5. /\ mem \in Items /\ queue \in Seq(Tasks) /\ dirty \in SUBSET Ids
        /\ {} \in SUBSET Ids
    BY DEF TypeOK
  <1> QED
    BY <1>1, <1>3, <1>4, <1>5, UnlockOK

\* What the server may do with the request in flight: spare or send the download, take the
\* write, or change nothing.
Spared(r) ==
    /\ r.kind = "get" /\ server' = server
    /\ server.tag # NoTag => r.tag # NoTag \/ r.since # NoDate
    /\ \E st \in {"missing", "same"} : net' = {Answer(r, st, NoTag, NoDate, Nothing)}

Sent(r) ==
    /\ r.kind = "get" /\ server' = server
    /\ server.tag # NoTag
    /\ \E e \in {server.tag, NoTag}, d \in {server.date, NoDate} :
          net' = {Answer(r, "ok", e, d, server.items)}

Written(r) ==
    /\ r.kind = "put" /\ r.tag \in {NoTag, server.tag}
    /\ server' \in NewFiles(r.items)
    /\ \E e \in {server'.tag, NoTag} : net' = {Answer(r, "ok", e, NoDate, r.items)}

LeftAlone(r) ==
    /\ server' = server
    /\ \/ r.kind = "put" /\ net' = {Answer(r, "refused", NoTag, NoDate, Nothing)}
       \/ r.kind = "backup" /\ net' = {Answer(r, "ok", NoTag, NoDate, Nothing)}

LEMMA ServeFacts ==
    ASSUME TypeOK, Serve
    PROVE  /\ \E r \in net : r.st = "sent" /\ (Spared(r) \/ Sent(r) \/ Written(r) \/ LeftAlone(r))
           /\ UNCHANGED <<mem, queue, locked, acting, readOnly, disabled, told, ops, others,
                          faults, dirty>>
           /\ UNCHANGED known
  <1>1. PICK r \in net :
          /\ r.st = "sent"
          /\ \/ r.kind = "get" /\ ServeGet(r)
             \/ r.kind = "put" /\ ServePut(r)
             \/ /\ r.kind = "backup"
                /\ server' = server
                /\ net' = (net \ {r}) \cup {Answer(r, "ok", NoTag, NoDate, Nothing)}
    BY DEF Serve
  <1>2. \A x : (net \ {r}) \cup {x} = {x}
    BY DEF TypeOK
  <1>3. ASSUME r.kind = "get", ServeGet(r)
        PROVE  Spared(r) \/ Sent(r)
    <2>1. CASE server.tag = NoTag
      BY <1>2, <1>3, <2>1 DEF ServeGet, Spared
    <2>2. CASE server.tag # NoTag /\ (r.tag = server.tag \/ (r.since # NoDate /\ server.date <= r.since))
      BY <1>2, <1>3, <2>2 DEF ServeGet, Spared
    <2>3. CASE server.tag # NoTag /\ ~(r.tag = server.tag \/ (r.since # NoDate /\ server.date <= r.since))
      <3>1. PICK h \in Headers : net' = {Answer(r, "ok", h[1], h[2], server.items)}
        BY <1>2, <1>3, <2>3 DEF ServeGet
      <3>2. h[1] \in {server.tag, NoTag} /\ h[2] \in {server.date, NoDate}
        BY <3>1 DEF Headers
      <3> QED
        BY <1>3, <2>3, <3>1, <3>2 DEF ServeGet, Sent
    <2> QED
      BY <2>1, <2>2, <2>3
  <1>4. ASSUME r.kind = "put", ServePut(r)
        PROVE  Written(r) \/ LeftAlone(r)
    <2>1. CASE r.tag \in {NoTag, server.tag}
      BY <1>2, <1>4, <2>1 DEF ServePut, Written
    <2>2. CASE r.tag \notin {NoTag, server.tag}
      BY <1>2, <1>4, <2>2 DEF ServePut, LeftAlone
    <2> QED
      BY <2>1, <2>2
  <1>5. ASSUME r.kind = "backup", server' = server,
               net' = (net \ {r}) \cup {Answer(r, "ok", NoTag, NoDate, Nothing)}
        PROVE  LeftAlone(r)
    BY <1>2, <1>5 DEF LeftAlone
  <1>6. /\ UNCHANGED <<mem, queue, locked, acting, readOnly, disabled, told, ops, others,
                       faults, dirty>>
        /\ UNCHANGED known
    BY DEF Serve
  <1> QED
    BY <1>1, <1>3, <1>4, <1>5, <1>6

LEMMA NewFileTyped ==
    ASSUME TypeOK, NEW items \in Items, NEW file \in NewFiles(items)
    PROVE  /\ file \in [items : Items, tag : Nat, date : Nat]
           /\ file.tag = server.tag + 1 /\ file.items = items
  <1>1. server.tag + 1 \in Nat /\ server.date \in Nat /\ server.date + 1 \in Nat
    BY DEF TypeOK
  <1>2. file.items = items /\ file.tag = server.tag + 1 /\ file.date \in {server.date, server.date + 1}
    BY DEF NewFiles
  <1>3. file \in [items : {items}, tag : {server.tag + 1}, date : {server.date, server.date + 1}]
    BY DEF NewFiles
  <1> QED
    BY <1>1, <1>2, <1>3

LEMMA AnswerTyped ==
    ASSUME NEW r \in Requests, NEW e \in Nat, NEW d \in Nat, NEW items \in Items,
           NEW st \in {"ok", "same", "missing", "refused", "status", "net"}
    PROVE  Answer(r, st, e, d, items) \in Requests
  BY DEF Answer, Requests, NoTag, NoDate

LEMMA ServeTypeOK == TypeOK /\ Serve => TypeOK'
  <1> SUFFICES ASSUME TypeOK, Serve PROVE TypeOK'
    OBVIOUS
  <1>1. PICK r \in net : Spared(r) \/ Sent(r) \/ Written(r) \/ LeftAlone(r)
    BY ServeFacts
  <1>2. /\ r \in Requests /\ r.items \in Items /\ Nothing \in Items /\ server.items \in Items
        /\ server.tag \in Nat /\ server.date \in Nat /\ NoTag \in Nat /\ NoDate \in Nat
    BY NothingTyped DEF TypeOK, Requests, NoTag, NoDate
  <1>3. server' \in [items : Items, tag : Nat, date : Nat]
    BY <1>1, <1>2, NewFileTyped DEF TypeOK, Spared, Sent, Written, LeftAlone
  <1>4. \E a \in Requests : net' = {a}
    <2>1. server'.tag \in Nat
      BY <1>3
    <2> QED
      BY <1>1, <1>2, <2>1 DEF Spared, Sent, Written, LeftAlone, Answer, Requests
  <1>5. net' \subseteq Requests /\ \A x, y \in net' : x = y
    BY <1>4
  <1>6. /\ UNCHANGED <<mem, queue, locked, acting, readOnly, disabled, told, ops, others,
                       faults, dirty>>
        /\ UNCHANGED known
    BY ServeFacts
  <1> QED
    BY <1>1, <1>3, <1>5, <1>6 DEF TypeOK, known

LEMMA FailFacts ==
    ASSUME TypeOK, Fail
    PROVE  \E r \in net, st \in {"status", "net"} :
              /\ r.st # "net"
              /\ net' = {Answer(r, st, NoTag, NoDate, Nothing)}
  <1>1. PICK r \in net, st \in {"status", "net"} :
          /\ r.st # "net"
          /\ net' = (net \ {r}) \cup {Answer(r, st, NoTag, NoDate, Nothing)}
    BY DEF Fail
  <1>2. net \ {r} = {}
    BY DEF TypeOK
  <1> QED
    BY <1>1, <1>2

LEMMA FailTypeOK == TypeOK /\ Fail => TypeOK'
  <1> SUFFICES ASSUME TypeOK, Fail PROVE TypeOK'
    OBVIOUS
  <1>1. PICK r \in net, st \in {"status", "net"} :
          net' = {Answer(r, st, NoTag, NoDate, Nothing)}
    BY FailFacts
  <1>2. locked /\ Answer(r, st, NoTag, NoDate, Nothing) \in Requests
    BY AnswerTyped, NothingTyped DEF TypeOK, NoTag, NoDate
  <1>3. faults' \in 0 .. MaxFaults
    BY IcsAssumption DEF Fail, TypeOK
  <1>4. /\ UNCHANGED <<server, mem, queue, locked, acting, readOnly, disabled, told, ops,
                       others, dirty>>
        /\ UNCHANGED known
    BY DEF Fail
  <1>5. net' \subseteq Requests /\ (\A x, y \in net' : x = y)
    BY <1>1, <1>2
  <1> QED
    BY <1>2, <1>3, <1>4, <1>5 DEF TypeOK, known

LEMMA OtherClientTypeOK == TypeOK /\ OtherClient => TypeOK' /\ server'.tag = server.tag + 1
  <1> SUFFICES ASSUME TypeOK, OtherClient PROVE TypeOK' /\ server'.tag = server.tag + 1
    OBVIOUS
  <1>1. PICK i \in Ids, v \in {Absent, MaxOps + others + 1} :
          server' \in NewFiles([server.items EXCEPT ![i] = v])
    BY DEF OtherClient
  <1>2. others < MaxOthers /\ others' = others + 1
    BY DEF OtherClient
  <1>3. v \in Versions /\ others' \in 0 .. MaxOthers
    BY <1>2, IcsAssumption DEF TypeOK, Versions, Absent
  <1>4. [server.items EXCEPT ![i] = v] \in Items
    BY <1>3 DEF TypeOK, Items
  <1>5. server' \in [items : Items, tag : Nat, date : Nat] /\ server'.tag = server.tag + 1
    BY <1>1, <1>4, NewFileTyped
  <1>6. /\ UNCHANGED <<mem, queue, locked, acting, net, readOnly, disabled, told, ops, faults,
                       dirty>>
        /\ UNCHANGED known
    BY DEF OtherClient
  <1> QED
    BY <1>3, <1>5, <1>6 DEF TypeOK, known

LEMMA NextTypeOK == TypeOK /\ [Next]_vars => TypeOK'
  <1> SUFFICES ASSUME TypeOK, [Next]_vars PROVE TypeOK'
    OBVIOUS
  <1>1. CASE UNCHANGED vars
    BY <1>1 DEF vars, TypeOK
  <1>2. CASE Next
    BY <1>2, ChangeTypeOK, ReadTypeOK, RefreshTypeOK, ResetTypeOK, StreamCompleteTypeOK,
       BackupCompleteTypeOK, StopRequestTypeOK, ServeTypeOK, FailTypeOK, OtherClientTypeOK
       DEF Next
  <1> QED
    BY <1>1, <1>2

\* Whatever fails, tasks wait only behind the lock, and at most one request is in flight,
\* under the lock: #processQueue, #lock, #unlock and the completion of each request.
THEOREM IcsTypeCorrect == Spec => []TypeOK
  BY InitTypeOK, NextTypeOK, PTL DEF Spec

-----------------------------------------------------------------------------
(* Entity tags.                                                            *)

\* The calendars the theorem is about: the first download succeeds, or finds that there is
\* no file, and then no other client makes it.
Regular == "first" \notin Cases

\* A tag names one file: the tag known here, and the one in an answer, are no newer than
\* the server's, and if they are the server's then the items that came with them are the
\* server's.  A write under way depends on the tag known here.  There is no file before one
\* was answered.
TagInv ==
    /\ etag <= server.tag
    /\ etag = server.tag => server.items = base
    /\ \A r \in net :
          /\ r.kind = "put" /\ r.st = "sent" => r.tag = etag
          /\ r.kind \in {"get", "put"} /\ r.st = "ok" =>
                /\ server.tag # NoTag
                /\ r.etag <= server.tag
                /\ r.etag = server.tag => r.items = server.items

\* While a file is on the server and no tag is known here, though not for want of one, the
\* file is being downloaded, or was made by a write whose answer is under way: no
\* unconditional write is.
Unread == etag = NoTag /\ ~bare /\ server.tag # NoTag

LoadedInv ==
    Unread =>
        \E r \in net : \/ /\ r.kind = "get" /\ r.st = "sent"
                         /\ r.tag = NoTag /\ r.since = NoDate
                       \/ r.kind \in {"get", "put"} /\ r.st = "ok"

FileInv == TypeOK /\ TagInv /\ LoadedInv

LEMMA InitFileInv == Init => FileInv
  <1> SUFFICES ASSUME Init PROVE TagInv /\ LoadedInv
    BY InitTypeOK DEF FileInv
  <1>1. net = {Request("get", NoTag, NoDate, Nothing)} /\ etag = 0 /\ base = Nothing
        /\ bare = FALSE
    BY DEF Init, NoTag
  <1>2. \/ server.tag = 0 /\ server.items = Nothing
        \/ server.tag = 1
    BY DEF Init, NoTag
  <1>3. /\ Request("get", NoTag, NoDate, Nothing).kind = "get"
        /\ Request("get", NoTag, NoDate, Nothing).st = "sent"
        /\ Request("get", NoTag, NoDate, Nothing).tag = NoTag
        /\ Request("get", NoTag, NoDate, Nothing).since = NoDate
    BY DEF Request
  <1> QED
    BY <1>1, <1>2, <1>3 DEF TagInv, LoadedInv, Unread

\* A step that leaves the file and what is known of it alone, and starts at most a download
\* or a backup while nothing is in flight.
LEMMA QuietStep ==
    ASSUME FileInv, server' = server, UNCHANGED known,
           net' = net \/ (net = {} /\ Started)
    PROVE  TagInv' /\ LoadedInv'
  <1>1. CASE net' = net
    BY <1>1 DEF FileInv, TagInv, LoadedInv, Unread, known
  <1>2. CASE net = {} /\ Started
    <2>1. ~Unread
      BY <1>2 DEF FileInv, LoadedInv
    <2>2. \A r \in net' : r.st = "sent" /\ r.kind # "put"
      BY <1>2 DEF Started
    <2> QED
      BY <2>1, <2>2 DEF FileInv, TagInv, LoadedInv, Unread, known
  <1> QED
    BY <1>1, <1>2

\* The end of a request r that was answered with the file, or without it.
LEMMA EndOfRequest ==
    ASSUME FileInv, NEW r \in net, r.kind \in {"get", "put"}, r.st # "sent",
           server' = server,
           \/ r.st = "ok" /\ etag' = r.etag /\ base' = r.items /\ bare' = (r.etag = NoTag)
           \/ r.st # "ok" /\ UNCHANGED known,
           Started
    PROVE  TagInv' /\ LoadedInv'
  <1>1. \A x \in net' : x.st = "sent" /\ x.kind # "put"
    BY DEF Started
  <1>2. \A x \in net : x = r
    BY DEF FileInv, TypeOK
  <1>3. CASE r.st = "ok"
    <2>1. /\ etag' = r.etag /\ base' = r.items /\ r.etag <= server.tag
          /\ r.etag = server.tag => r.items = server.items
          /\ bare' = (r.etag = NoTag)
      BY <1>3 DEF FileInv, TagInv
    <2> QED
      BY <1>1, <2>1 DEF TagInv, LoadedInv, Unread
  <1>4. CASE r.st # "ok"
    <2>1. ~Unread
      BY <1>2, <1>4 DEF FileInv, LoadedInv
    <2> QED
      BY <1>1, <1>4, <2>1 DEF FileInv, TagInv, LoadedInv, Unread, known
  <1> QED
    BY <1>3, <1>4

LEMMA StreamCompleteFileInv ==
    ASSUME FileInv, StreamComplete
    PROVE  TagInv' /\ LoadedInv'
  <1>1. PICK r \in net :
          r.kind = "get" /\ r.st # "sent" /\ AfterGet(r) /\ server' = server
    BY DEF StreamComplete
  <1>2. \/ r.st = "ok" /\ etag' = r.etag /\ base' = r.items /\ bare' = (r.etag = NoTag)
        \/ r.st # "ok" /\ UNCHANGED known
    BY <1>1 DEF AfterGet
  <1>3. Started
    BY StreamCompleteTypeOK DEF FileInv
  <1> QED
    BY <1>1, <1>2, <1>3, EndOfRequest

LEMMA BackupCompleteFileInv ==
    ASSUME FileInv, BackupComplete
    PROVE  TagInv' /\ LoadedInv'
  <1>1. PICK r \in net : r.kind = "backup" /\ r.st # "sent"
    BY DEF BackupComplete
  <1>2. server' = server /\ UNCHANGED known
    BY DEF BackupComplete
  <1>3. ~Unread
    <2>1. \A x \in net : x.kind = "backup"
      BY <1>1 DEF FileInv, TypeOK
    <2> QED
      BY <2>1 DEF FileInv, LoadedInv
  <1>4. \A x \in net' : x.st = "sent" /\ (x.kind = "put" => x.tag = etag')
    <2>1. Put.st = "sent" /\ Put.tag = etag
      BY DEF Put, Request
    <2>2. Started \/ net' = {Put}
      BY BackupCompleteTypeOK DEF FileInv
    <2>3. CASE Started
      BY <2>3 DEF Started
    <2>4. CASE net' = {Put}
      BY <1>2, <2>1, <2>4 DEF known
    <2> QED
      BY <2>2, <2>3, <2>4
  <1> QED
    BY <1>2, <1>3, <1>4 DEF FileInv, TagInv, LoadedInv, Unread, known

LEMMA StopRequestFileInv ==
    ASSUME FileInv, StopRequest
    PROVE  TagInv' /\ LoadedInv'
  <1>1. PICK r \in net :
          /\ r.kind = "put" /\ r.st # "sent"
          /\ \/ r.st = "ok" /\ etag' = r.etag /\ base' = r.items /\ bare' = (r.etag = NoTag)
             \/ r.st # "ok" /\ UNCHANGED known
          /\ server' = server
    BY DEF StopRequest
  <1>2. Started
    BY StopRequestTypeOK DEF FileInv
  <1> QED
    BY <1>1, <1>2, EndOfRequest

\* A write that the server takes goes over the file that this client has read, unless it
\* read it without a tag.
LEMMA WriteIsSeen ==
    ASSUME FileInv, ~bare, NEW r \in net, r.kind = "put", r.st = "sent",
           r.tag \in {NoTag, server.tag}
    PROVE  server.items = base
  <1>1. r.tag = etag
    BY DEF FileInv, TagInv
  <1>2. \A x \in net : x = r
    BY DEF FileInv, TypeOK
  <1>3. etag = NoTag => server.tag = NoTag
    BY <1>2 DEF FileInv, LoadedInv, Unread
  <1> QED
    BY <1>1, <1>3 DEF FileInv, TagInv

\* An answer that carries no file, and one that does.
LEMMA AnswerFileInv ==
    ASSUME FileInv, server' = server, UNCHANGED known, NEW a, net' = {a}, a.st # "sent",
           \/ Unread => FALSE
           \/ a.kind = "get" /\ a.st = "ok",
           a.kind \in {"get", "put"} /\ a.st = "ok" =>
               /\ server.tag # NoTag
               /\ a.etag \in {NoTag, server.tag} /\ a.items = server.items
    PROVE  TagInv' /\ LoadedInv'
  <1>1. etag <= server.tag /\ (etag = server.tag => server.items = base) /\ server.tag \in Nat
    BY DEF FileInv, TagInv, TypeOK
  <1>2. TagInv'
    BY <1>1 DEF TagInv, known, NoTag
  <1>3. LoadedInv'
    BY DEF LoadedInv, Unread, known
  <1> QED
    BY <1>2, <1>3

LEMMA ServeFileInv ==
    ASSUME FileInv, Regular, Serve
    PROVE  TagInv' /\ LoadedInv' /\ (server' # server /\ ~bare => server.items = base)
  <1>1. /\ UNCHANGED known
        /\ \E r \in net : r.st = "sent" /\ (Spared(r) \/ Sent(r) \/ Written(r) \/ LeftAlone(r))
    BY ServeFacts DEF FileInv
  <1>2. PICK r \in net : r.st = "sent" /\ (Spared(r) \/ Sent(r) \/ Written(r) \/ LeftAlone(r))
    BY <1>1
  <1>3. /\ r \in Requests /\ r.items \in Items /\ Nothing \in Items /\ server.items \in Items
        /\ server.tag \in Nat /\ server.date \in Nat /\ NoTag \in Nat /\ NoDate \in Nat
        /\ etag \in Nat /\ etag <= server.tag
    BY NothingTyped DEF FileInv, TagInv, TypeOK, Requests, NoTag, NoDate
  <1>4. Unread => r.kind = "get" /\ r.tag = NoTag /\ r.since = NoDate
    <2>1. \A x \in net : x = r
      BY DEF FileInv, TypeOK
    <2> QED
      BY <1>2, <2>1 DEF FileInv, LoadedInv
  <1>5. CASE Spared(r)
    <2>1. PICK st \in {"missing", "same"} : net' = {Answer(r, st, NoTag, NoDate, Nothing)}
      BY <1>5 DEF Spared
    <2>2. ~Unread
      BY <1>4, <1>5 DEF Spared, Unread
    <2>3. Answer(r, st, NoTag, NoDate, Nothing).st = st
      BY DEF Answer
    <2> QED
      BY <1>1, <1>5, <2>1, <2>2, <2>3, AnswerFileInv DEF Spared
  <1>6. CASE Sent(r)
    <2>1. PICK e \in {server.tag, NoTag}, d \in {server.date, NoDate} :
            net' = {Answer(r, "ok", e, d, server.items)}
      BY <1>6 DEF Sent
    <2> DEFINE a == Answer(r, "ok", e, d, server.items)
    <2>2. a.kind = "get" /\ a.st = "ok" /\ a.etag = e /\ a.items = server.items
      BY <1>6 DEF Sent, Answer
    <2>3. server' = server /\ server.tag # NoTag /\ net' = {a}
      BY <1>6, <2>1 DEF Sent
    <2> HIDE DEF a
    <2> QED
      BY <1>1, <2>1, <2>2, <2>3, AnswerFileInv
  <1>7. CASE Written(r)
    <2>1. server'.tag = server.tag + 1 /\ server'.items = r.items
      BY <1>3, <1>7, NewFileTyped DEF FileInv, Written
    <2>2. PICK e \in {server'.tag, NoTag} : net' = {Answer(r, "ok", e, NoDate, r.items)}
      BY <1>7 DEF Written
    <2>3. e \in Nat /\ e <= server'.tag /\ server'.tag # NoTag
      BY <1>3, <2>1 DEF NoTag
    <2>4. \A x \in net' : x.kind = "put" /\ x.st = "ok" /\ x.etag = e /\ x.items = server'.items
      BY <1>7, <2>1, <2>2 DEF Written, Answer
    <2>5. etag' <= server'.tag /\ etag' # server'.tag
      BY <1>1, <1>3, <2>1 DEF known
    <2>6. TagInv'
      BY <2>3, <2>4, <2>5 DEF TagInv
    <2>7. LoadedInv'
      BY <2>2, <2>4 DEF LoadedInv
    <2>8. ~bare => server.items = base
      BY <1>2, <1>7, WriteIsSeen DEF Written
    <2> QED
      BY <2>6, <2>7, <2>8
  <1>8. CASE LeftAlone(r)
    <2>1. ~Unread
      BY <1>4, <1>8 DEF LeftAlone
    <2>2. CASE r.kind = "put" /\ net' = {Answer(r, "refused", NoTag, NoDate, Nothing)}
      <3>1. Answer(r, "refused", NoTag, NoDate, Nothing).st = "refused"
        BY DEF Answer
      <3> QED
        BY <1>1, <1>8, <2>1, <2>2, <3>1, AnswerFileInv DEF LeftAlone
    <2>3. CASE r.kind = "backup" /\ net' = {Answer(r, "ok", NoTag, NoDate, Nothing)}
      <3>1. /\ Answer(r, "ok", NoTag, NoDate, Nothing).st = "ok"
            /\ Answer(r, "ok", NoTag, NoDate, Nothing).kind = "backup"
        BY <2>3 DEF Answer
      <3> QED
        BY <1>1, <1>8, <2>1, <2>3, <3>1, AnswerFileInv DEF LeftAlone
    <2> QED
      BY <1>8, <2>2, <2>3 DEF LeftAlone
  <1> QED
    BY <1>2, <1>5, <1>6, <1>7, <1>8

LEMMA FailFileInv ==
    ASSUME FileInv, Regular, Fail
    PROVE  TagInv' /\ LoadedInv'
  <1>1. PICK r \in net, st \in {"status", "net"} :
          net' = {Answer(r, st, NoTag, NoDate, Nothing)}
    BY FailFacts DEF FileInv
  <1>2. server' = server /\ UNCHANGED known /\ ~Unread
    BY DEF Fail, Regular, Unread
  <1>3. Answer(r, st, NoTag, NoDate, Nothing).st = st
    BY DEF Answer
  <1> QED
    BY <1>1, <1>2, <1>3, AnswerFileInv

LEMMA OtherClientFileInv ==
    ASSUME FileInv, Regular, OtherClient
    PROVE  TagInv' /\ LoadedInv' /\ others' # others
  <1>1. net' = net /\ UNCHANGED known /\ server.tag # NoTag /\ others' = others + 1
    BY DEF OtherClient, Regular
  <1>2. server'.tag = server.tag + 1 /\ server.tag \in Nat /\ etag \in Nat /\ others \in Nat
    BY OtherClientTypeOK DEF FileInv, TypeOK
  <1>3. \A r \in net : r.etag \in Nat
    BY DEF FileInv, TypeOK, Requests
  <1>4. TagInv'
    BY <1>1, <1>2, <1>3 DEF FileInv, TagInv, known, NoTag
  <1>5. LoadedInv'
    BY <1>1 DEF FileInv, LoadedInv, Unread, known
  <1> QED
    BY <1>1, <1>2, <1>4, <1>5

\* Every step keeps the invariant, and one that writes the file has read it.
LEMMA NextFileInv ==
    ASSUME FileInv, Regular, [Next]_vars
    PROVE  /\ FileInv'
           /\ server' # server /\ others' = others /\ ~bare => server.items = base
  <1>0. TypeOK'
    BY NextTypeOK DEF FileInv
  <1>1. CASE UNCHANGED vars
    BY <1>0, <1>1 DEF vars, FileInv, TagInv, LoadedInv, Unread
  <1>2. ASSUME NEW action \in Changing, NEW i \in Ids, Change(action, i)
        PROVE  server' = server /\ TagInv' /\ LoadedInv'
    <2>1. server' = server /\ UNCHANGED known
      BY <1>2 DEF Change
    <2>2. net' = net \/ (net = {} /\ Started)
      BY <1>2, ChangeTypeOK DEF FileInv
    <2> QED
      BY <2>1, <2>2, QuietStep
  <1>3. CASE Read \/ Refresh \/ Reset
    <2>1. server' = server /\ UNCHANGED known
      BY <1>3 DEF Read, Refresh, Reset
    <2>2. net' = net \/ (net = {} /\ Started)
      BY <1>3, ReadTypeOK, RefreshTypeOK, ResetTypeOK DEF FileInv
    <2> QED
      BY <1>0, <2>1, <2>2, QuietStep DEF FileInv
  <1>4. CASE StreamComplete
    BY <1>0, <1>4, StreamCompleteFileInv DEF FileInv, StreamComplete
  <1>5. CASE BackupComplete
    BY <1>0, <1>5, BackupCompleteFileInv DEF FileInv, BackupComplete
  <1>6. CASE StopRequest
    BY <1>0, <1>6, StopRequestFileInv DEF FileInv, StopRequest
  <1>7. CASE Serve
    BY <1>0, <1>7, ServeFileInv DEF FileInv
  <1>8. CASE Fail
    BY <1>0, <1>8, FailFileInv DEF FileInv, Fail
  <1>9. CASE OtherClient
    BY <1>0, <1>9, OtherClientFileInv DEF FileInv
  <1> QED
    BY <1>0, <1>1, <1>2, <1>3, <1>4, <1>5, <1>6, <1>7, <1>8, <1>9 DEF Next, FileInv

\* Once the first download has succeeded, no write of this client of a file that came with an
\* entity tag goes over a change of another client that it has not read, whichever requests
\* fail, whatever is in the queue, and also if the server sends tags with some answers only
\* (onAfterGet, onBeforePut, onAfterPut).
THEOREM IcsNothingUnseenOverwritten ==
    ASSUME Regular
    PROVE  Spec => NothingUnseenOverwritten
  <1>1. Init => FileInv
    BY InitFileInv
  <1>2. FileInv /\ [Next]_vars => FileInv'
    BY NextFileInv
  <1>3. FileInv /\ [Next]_vars =>
            [server' # server /\ others' = others /\ ~bare => server.items = base]_vars
    BY NextFileInv
  <1> QED
    BY <1>1, <1>2, <1>3, PTL DEF Spec, NothingUnseenOverwritten
=============================================================================
