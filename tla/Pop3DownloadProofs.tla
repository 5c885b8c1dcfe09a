-------------------------- MODULE Pop3DownloadProofs --------------------------
(***************************************************************************)
(* Proofs about Pop3Download, for any messages, any bounds and any faults, *)
(* also while replies are handled during the writing of a mark (Overlap):  *)
(* no message is lost, and no run stores a message twice.  Without         *)
(* Overlap: no two runs do, but for the reasons that StoredOnce names.     *)
(***************************************************************************)
EXTENDS Pop3Download, SequenceTheorems, TLAPS

-----------------------------------------------------------------------------
(* The invariant.                                                          *)

WriteRecs == [file : [Msgs -> Status], reset : BOOLEAN, run : 0..MaxRequests,
              who : {"done", "mark", "periodic"}]

\* What _messagesToHandle may ask for.
Orders == {"b", "f", "d"}

\* Statuses that let the client delete a message from the server.
Final == {"k", "d"}

\* The messages that may go: stored in full, or someone asked for their deletion.
Safe == {m \in Msgs : bodies[m] > 0 \/ asked[m] # "no"}

\* A map, the messages to handle, the current message and the writes in flight,
\* when only the messages of S may go.
GoodMap(mp, S) ==
    mp \in [Msgs -> Entry] /\ \A m \in Msgs : mp[m].st \in Final => m \in S
GoodFile(file, S) ==
    file \in [Msgs -> Status] /\ \A m \in Msgs : file[m] \in Final => m \in S
GoodTodo(t, S) ==
    GoodMap(t, S) /\ \A m \in Msgs : t[m] # None => t[m].st \in Orders
GoodCur(c, S) ==
    /\ c \in [msg : Msgs \cup {NoMsg}, e : Entry]
    /\ c # NoCur => c.msg \in Msgs /\ c.e.st \in Orders /\ (c.e.st = "d" => c.msg \in S)
GoodWrites(wr, S) ==
    wr \in Seq(WriteRecs) /\ \A i \in DOMAIN wr : GoodFile(wr[i].file, S)

GoodWork(c, t, mp, wr, S) ==
    GoodCur(c, S) /\ GoodTodo(t, S) /\ GoodMap(mp, S) /\ GoodWrites(wr, S)

\* The variables that the handlers of a run do not compute.
TypeRest ==
    /\ prefs \in [keep : AllKeep, limit : BOOLEAN, uidl : BOOLEAN]
    /\ mailbox \subseteq arrived /\ drop \subseteq mailbox /\ dele \subseteq drop
    /\ arrived \subseteq Msgs
    /\ bodies \in [Msgs -> Nat]
    /\ locked \in BOOLEAN /\ open \in BOOLEAN /\ loaded \in BOOLEAN /\ changed \in BOOLEAN
    /\ ok \in BOOLEAN /\ topFailed \in BOOLEAN
    /\ pc \in {"idle", "connect", "auth", "stat", "list", "uidl", "top", "retr", "dele",
               "pause", "saving", "quit"}
    /\ req \in Requests
    /\ method \in 1..Methods /\ prompts \in 0..MaxPrompts
    /\ queue \in Seq(Requests)
    /\ issued \in 0..MaxRequests /\ answered \subseteq 1..issued
    /\ asked \in [Msgs -> {"no", "user", "filter"}] /\ marks \in 0..MaxMarks
    /\ mishaps \subseteq {"crash", "cut", "disk", "err"}

\* The states in which a run handles messages one by one, and those before.
Handling == pc \in {"top", "retr", "dele", "pause"}
Before == pc \in {"connect", "auth", "stat", "list", "uidl"}

\* The messages a run handles are on the server, and the current one is not pending.
OnServer ==
    Handling => /\ cur # NoCur /\ cur.msg \in drop /\ todo[cur.msg] = None
                /\ Pending(todo) \subseteq drop

\* The semaphore is taken after the reply to STAT and not before.
Unlocked == pc \in {"idle", "connect", "auth", "stat"} => ~locked

\* Runs are numbered in the order in which they start.
Numbered ==
    /\ pc = "idle" => queue = <<>> /\ req = NoReq
    /\ pc # "idle" => /\ req.id \in 1..issued
                      /\ req.id + Len(queue) = issued
                      /\ \A i \in 1..Len(queue) : queue[i].id = req.id + i

\* No run stores a message twice.
OncePerRun ==
    /\ \A m \in Msgs : bodies[m] <= IF pc = "idle" THEN issued ELSE req.id
    /\ Before => \A m \in Msgs : bodies[m] < req.id
    /\ Handling => \A m \in Pending(todo) : bodies[m] < req.id
    /\ pc \in {"top", "retr", "pause"} => bodies[cur.msg] < req.id

\* What is deleted, or about to be, may go.
SafeServer ==
    /\ GoodFile(popstate, Safe)
    /\ arrived \ mailbox \subseteq Safe
    /\ dele \subseteq Safe
    /\ pc = "dele" => cur.msg \in Safe

IInv ==
    /\ TypeRest
    /\ GoodWork(cur, todo, map, writes, Safe)
    /\ OnServer
    /\ Unlocked
    /\ Numbered
    /\ OncePerRun
    /\ SafeServer

-----------------------------------------------------------------------------
(* The pieces of the handlers.                                             *)

LEMMA Bounds ==
  /\ MaxRequests \in Nat /\ MaxMarks \in Nat /\ MaxPrompts \in Nat
  /\ Methods \in Nat /\ 1 \in 1..Methods /\ Big \subseteq Msgs /\ NoMsg \notin Msgs
  BY Pop3Assumption

LEMMA PutBackGood ==
  ASSUME NEW S, NEW mp, NEW t, GoodMap(mp, S), GoodMap(t, S)
  PROVE  GoodMap(PutBack(mp, t), S)
  BY DEF GoodMap, PutBack

LEMMA FileOfGood ==
  ASSUME NEW S, NEW mp, GoodMap(mp, S)
  PROVE  GoodFile(FileOf(mp), S)
  BY DEF GoodMap, GoodFile, FileOf, Entry, Status, Final

LEMMA LoadGood ==
  ASSUME NEW S, NEW file, GoodFile(file, S)
  PROVE  GoodMap(Load(file), S)
  BY DEF GoodMap, GoodFile, Load, None, Known, Entry, Status, Final

LEMMA EmptyGood ==
  ASSUME NEW S
  PROVE  GoodMap(Empty, S) /\ GoodTodo(Empty, S) /\ GoodCur(NoCur, S)
  BY DEF GoodMap, GoodTodo, GoodCur, Empty, NoCur, None, Entry, Status, Final

LEMMA EntrySetGood ==
  ASSUME NEW S, NEW mp, NEW m \in Msgs, NEW e \in Entry, GoodMap(mp, S),
         e.st \in Final => m \in S
  PROVE  GoodMap([mp EXCEPT ![m] = e], S)
  BY DEF GoodMap

LEMMA AppendWrite ==
  ASSUME NEW S, NEW wr, NEW mp, NEW reset \in BOOLEAN,
         NEW who \in {"done", "mark", "periodic"},
         req \in Requests, GoodMap(mp, S), GoodWrites(wr, S)
  PROVE  GoodWrites(Append(wr, Write(mp, reset, who)), S)
<1> DEFINE w == Write(mp, reset, who)
<1>1. w \in WriteRecs /\ GoodFile(w.file, S)
  BY FileOfGood DEF Write, WriteRecs, GoodFile, Requests
<1> HIDE DEF w
<1>2. Append(wr, w) \in Seq(WriteRecs)
  BY <1>1 DEF GoodWrites
<1>3. ASSUME NEW i \in DOMAIN Append(wr, w)
      PROVE  GoodFile(Append(wr, w)[i].file, S)
  <2>1. wr \in Seq(WriteRecs)
    BY DEF GoodWrites
  <2>2. CASE i = Len(wr) + 1
    BY <1>1, <2>1, <2>2
  <2>3. CASE i # Len(wr) + 1
    <3>1. i \in DOMAIN wr /\ Append(wr, w)[i] = wr[i]
      BY <1>3, <2>1, <2>3
    <3>2. QED
      BY <3>1 DEF GoodWrites
  <2>4. QED
    BY <2>2, <2>3
<1>4. QED
  BY <1>2, <1>3 DEF GoodWrites, w

LEMMA TailWrites ==
  ASSUME NEW S, NEW wr, GoodWrites(wr, S), wr # <<>>
  PROVE  GoodWrites(Tail(wr), S) /\ GoodFile(Head(wr).file, S) /\ Head(wr) \in WriteRecs
<1>1. wr \in Seq(WriteRecs)
  BY DEF GoodWrites
<1>2. Tail(wr) \in Seq(WriteRecs) /\ Head(wr) = wr[1] /\ 1 \in DOMAIN wr
  BY <1>1
<1>3. \A i \in DOMAIN Tail(wr) : i + 1 \in DOMAIN wr /\ Tail(wr)[i] = wr[i + 1]
  BY <1>1
<1>4. QED
  BY <1>1, <1>2, <1>3 DEF GoodWrites

LEMMA Larger ==
  ASSUME NEW S, NEW T, S \subseteq T, NEW c, NEW t, NEW mp, NEW wr,
         GoodWork(c, t, mp, wr, S)
  PROVE  GoodWork(c, t, mp, wr, T)
  BY DEF GoodWork, GoodCur, GoodTodo, GoodMap, GoodWrites, GoodFile

LEMMA DoneGood ==
  ASSUME NEW status \in BOOLEAN, NEW c, NEW t, NEW mp, NEW ch \in BOOLEAN, NEW wr, NEW S,
         req \in Requests, GoodWork(c, t, mp, wr, S),
         Done(status, c, t, mp, ch, wr)
  PROVE  /\ GoodWork(cur', todo', map', writes', S)
         /\ pc' \in {"saving", "quit"} /\ ok' \in BOOLEAN /\ changed' \in BOOLEAN
<1> DEFINE t1 == IF ~status /\ c # NoCur THEN [t EXCEPT ![c.msg] = c.e] ELSE t
<1> DEFINE mp1 == IF ch THEN PutBack(mp, t1) ELSE mp
<1>1. GoodTodo(t1, S)
  BY DEF GoodWork, GoodTodo, GoodMap, GoodCur, Final, Orders
<1>2. GoodMap(mp1, S)
  BY <1>1, PutBackGood DEF GoodWork, GoodTodo
<1>3. /\ cur' = c /\ todo' = t1 /\ map' = mp1 /\ ok' = status /\ changed' = ch
      /\ pc' = IF ch THEN "saving" ELSE "quit"
      /\ writes' = IF ch THEN Append(wr, Write(mp1, TRUE, "done")) ELSE wr
  BY DEF Done
<1> HIDE DEF t1, mp1
<1>4. GoodWrites(writes', S)
  BY <1>2, <1>3, AppendWrite DEF GoodWork
<1>5. QED
  BY <1>1, <1>2, <1>3, <1>4 DEF GoodWork

LEMMA CommandOf ==
  ASSUME NEW st \in Orders, NEW top \in BOOLEAN
  PROVE  /\ Command(st, top) \in {"top", "retr", "dele"}
         /\ Command(st, top) = "dele" => st = "d"
  BY DEF Command, Orders

\* What a handler leaves that goes on to the next message of t, when the messages of
\* S may go.
LEMMA HandleGood ==
  ASSUME NEW t, NEW mp, NEW ch \in BOOLEAN, NEW wr, NEW S,
         req \in Requests, topFailed \in BOOLEAN, ok \in BOOLEAN, locked \in BOOLEAN,
         GoodTodo(t, S), GoodMap(mp, S), GoodWrites(wr, S),
         HandleMessage(t, mp, ch, wr)
  PROVE  /\ GoodWork(cur', todo', map', writes', S)
         /\ ok' \in BOOLEAN /\ changed' \in BOOLEAN /\ locked' \in BOOLEAN
         /\ \/ pc' \in {"saving", "quit"}
            \/ /\ pc' \in {"top", "retr", "dele", "pause"}
               /\ cur'.msg \in Pending(t) /\ cur' # NoCur /\ todo'[cur'.msg] = None
               /\ Pending(todo') \subseteq Pending(t)
               /\ pc' = "dele" => cur'.msg \in S
<1>1. CASE Pending(t) = {} /\ Done(TRUE, NoCur, t, mp, ch, wr) /\ locked' = FALSE
  <2>1. GoodWork(NoCur, t, mp, wr, S)
    BY EmptyGood DEF GoodWork
  <2>2. QED
    BY <1>1, <2>1, DoneGood
<1>2. CASE Pending(t) = {} /\ Done(FALSE, NoCur, t, mp, ch, wr) /\ locked' = locked
  <2>1. GoodWork(NoCur, t, mp, wr, S)
    BY EmptyGood DEF GoodWork
  <2>2. QED
    BY <1>2, <2>1, DoneGood
<1>3. ASSUME NEW m \in Pending(t),
             LET t1 == [t EXCEPT ![m] = None]
                 left == Cardinality(Pending(t1))
                 saves == left > 0 /\ left % WriteEvery = 0 /\ wr = <<>> /\ ch
                 mp1 == IF saves THEN PutBack(mp, t1) ELSE mp
             IN  /\ cur' = [msg |-> m, e |-> t[m]]
                 /\ todo' = t1
                 /\ changed' = ch
                 /\ map' = mp1
                 /\ pc' = IF saves THEN "pause" ELSE Command(t[m].st, topFailed)
                 /\ writes' = IF saves THEN Append(wr, Write(mp1, FALSE, "periodic"))
                              ELSE wr
                 /\ UNCHANGED <<locked, ok>>
      PROVE  /\ GoodWork(cur', todo', map', writes', S)
             /\ ok' \in BOOLEAN /\ changed' \in BOOLEAN /\ locked' \in BOOLEAN
             /\ pc' \in {"top", "retr", "dele", "pause"}
             /\ cur'.msg \in Pending(t) /\ cur' # NoCur /\ todo'[cur'.msg] = None
             /\ Pending(todo') \subseteq Pending(t)
             /\ pc' = "dele" => cur'.msg \in S
  <2> DEFINE t1 == [t EXCEPT ![m] = None]
             left == Cardinality(Pending(t1))
             saves == left > 0 /\ left % WriteEvery = 0 /\ wr = <<>> /\ ch
             mp1 == IF saves THEN PutBack(mp, t1) ELSE mp
  <2>1. m \in Msgs /\ t[m] # None /\ t[m] \in Entry /\ t[m].st \in Orders
    BY DEF Pending, GoodTodo, GoodMap
  <2>2. GoodTodo(t1, S) /\ t1[m] = None /\ Pending(t1) \subseteq Pending(t)
    BY <2>1 DEF GoodTodo, GoodMap, Pending, None, Entry, Status, Final
  <2>3. /\ cur' = [msg |-> m, e |-> t[m]]
        /\ todo' = t1 /\ changed' = ch /\ map' = mp1
        /\ pc' = IF saves THEN "pause" ELSE Command(t[m].st, topFailed)
        /\ writes' = IF saves THEN Append(wr, Write(mp1, FALSE, "periodic")) ELSE wr
        /\ locked' = locked /\ ok' = ok
    BY <1>3, Zenon
  <2> HIDE DEF t1, saves
  <2>4. GoodMap(mp1, S)
    BY <2>2, PutBackGood DEF GoodTodo
  <2> HIDE DEF mp1
  <2>5. GoodWrites(writes', S)
    BY <2>3, <2>4, AppendWrite
  <2>6. t[m].st = "d" => m \in S
    BY <2>1 DEF GoodTodo, GoodMap, Final
  <2>7. GoodCur(cur', S) /\ cur' # NoCur /\ cur'.msg = m
    BY <2>1, <2>3, <2>6, Pop3Assumption DEF GoodCur, NoCur
  <2>8. /\ pc' \in {"top", "retr", "dele", "pause"}
        /\ pc' = "dele" => m \in S
    BY <2>1, <2>3, <2>6, CommandOf
  <2>9. QED
    BY <2>2, <2>3, <2>4, <2>5, <2>7, <2>8 DEF GoodWork
<1>4. QED
  BY <1>1, <1>2, <1>3 DEF HandleMessage

\* The order of a message, as _actionUidlResponse decides it.
LEMMA ToHandleGood ==
  ASSUME NEW S, GoodMap(map, S), prefs \in [keep : AllKeep, limit : BOOLEAN, uidl : BOOLEAN],
         NEW m \in Msgs, NEW old \in BOOLEAN
  PROVE  /\ ToHandle(m, old) \in Entry
         /\ ToHandle(m, old).st \in Final => m \in S
         /\ ToHandle(m, old) # None => ToHandle(m, old).st \in Orders /\ m \in drop
<1> DEFINE rule == UidlRule(map[m], old)
<1>1. map[m] \in Entry /\ (map[m].st \in Final => m \in S)
  BY DEF GoodMap
<1>2. rule \in {"new", "d", "f", "-"} /\ (rule = "d" => m \in S)
  BY <1>1 DEF UidlRule, Final, Entry, Status
<1>3. ToHandle(m, old) =
        IF m \notin drop \/ rule = "-" THEN None
        ELSE IF rule = "new" THEN Fresh(IF prefs.limit /\ m \in Big THEN "b" ELSE "f")
        ELSE [map[m] EXCEPT !.st = rule]
  BY DEF ToHandle
<1> HIDE DEF rule
<1>4. [map[m] EXCEPT !.st = rule] = [st |-> rule, dated |-> map[m].dated]
  BY <1>1 DEF Entry
<1>5. map[m].dated \in BOOLEAN
  BY <1>1 DEF Entry
<1>6. QED
  BY <1>2, <1>3, <1>4, <1>5 DEF Entry, Status, Final, Orders, None, Fresh

-----------------------------------------------------------------------------
(* The steps.                                                              *)

LEMMA SafeSame ==
  ASSUME UNCHANGED <<bodies, asked>>
  PROVE  Safe' = Safe
  BY DEF Safe

\* A step that ends the handling of messages.
LEMMA EndsRun ==
  ASSUME IInv, pc # "idle", TypeRest', SafeServer', UNCHANGED <<req, queue, issued>>,
         GoodWork(cur', todo', map', writes', Safe'),
         pc' \in {"saving", "quit"},
         \A m \in Msgs : bodies'[m] <= req.id
  PROVE  IInv'
  BY DEF IInv, OnServer, Handling, Unlocked, Numbered, OncePerRun, Before

\* The same when only the run's work changes.
LEMMA FailEnds ==
  ASSUME IInv, pc # "idle", NEW status \in BOOLEAN,
         Done(status, cur, todo, map, changed, writes),
         UNCHANGED <<prefs, arrived, mailbox, drop, bodies, runs, asked, marks, login,
                     popstate, topFailed, locked>>,
         open' \in BOOLEAN, dele' \in {dele, {}},
         mishaps' \subseteq {"crash", "cut", "disk", "err"}
  PROVE  IInv'
<1>1. Safe' = Safe
  BY SafeSame
<1>2. /\ GoodWork(cur', todo', map', writes', Safe')
      /\ pc' \in {"saving", "quit"} /\ ok' \in BOOLEAN /\ changed' \in BOOLEAN
  BY <1>1, DoneGood DEF IInv, TypeRest
<1>3. TypeRest'
  BY <1>2 DEF IInv, TypeRest, runs, login
<1>4. SafeServer'
  BY <1>1, <1>2 DEF IInv, SafeServer
<1>5. \A m \in Msgs : bodies'[m] <= req.id
  BY DEF IInv, OncePerRun
<1>6. QED
  BY <1>1, <1>2, <1>3, <1>4, <1>5, EndsRun DEF runs

LEMMA InitOk ==
  ASSUME Init
  PROVE  IInv
<1>1. GoodWork(cur, todo, map, writes, Safe)
  <2>1. GoodWrites(<<>>, Safe)
    BY DEF GoodWrites
  <2>2. QED
    BY <2>1, EmptyGood DEF Init, GoodWork
<1>2. TypeRest
  <2>1. prefs \in [keep : AllKeep, limit : BOOLEAN, uidl : BOOLEAN]
    BY Pop3Assumption DEF Init
  <2>2. req \in Requests
    BY Bounds DEF Init, NoReq, Requests
  <2>3. /\ queue \in Seq(Requests) /\ bodies \in [Msgs -> Nat]
        /\ asked \in [Msgs -> {"no", "user", "filter"}]
        /\ method \in 1..Methods /\ prompts \in 0..MaxPrompts
        /\ issued \in 0..MaxRequests /\ marks \in 0..MaxMarks
    BY Bounds DEF Init
  <2>4. QED
    BY <2>1, <2>2, <2>3 DEF Init, TypeRest
<1>3. OnServer /\ Unlocked /\ Numbered
  BY DEF Init, OnServer, Handling, Unlocked, Numbered
<1>4. OncePerRun
  BY DEF Init, OncePerRun, Handling, Before
<1>5. SafeServer
  BY DEF Init, SafeServer, GoodFile, Status, Final
<1>6. QED
  BY <1>1, <1>2, <1>3, <1>4, <1>5 DEF IInv

\* Starting a run: what Start sets, and the run's number.
LEMMA StartsRun ==
  ASSUME IInv, NEW r \in Requests, Start(r), GoodWrites(writes', Safe'),
         r.id \in 1..issued', queue' \in Seq(Requests), r.id + Len(queue') = issued',
         \A i \in 1..Len(queue') : queue'[i].id = r.id + i,
         \A m \in Msgs : bodies'[m] < r.id,
         ~locked', SafeServer',
         UNCHANGED <<prefs, arrived, bodies, asked, marks, prompts, popstate>>,
         mailbox' \subseteq mailbox, drop' \in {drop, {}}, dele' \in {dele, {}},
         drop' \subseteq mailbox', dele' \subseteq drop',
         locked' \in BOOLEAN, open' \in BOOLEAN, issued' \in 0..MaxRequests,
         answered' \subseteq 1..issued',
         mishaps' \subseteq {"crash", "cut", "disk", "err"}
  PROVE  IInv'
<1>1. /\ req' = r /\ pc' = "connect" /\ loaded' = FALSE /\ map' = Empty
      /\ changed' = FALSE /\ todo' = Empty /\ cur' = NoCur /\ ok' = TRUE
      /\ method' = 1 /\ topFailed' = FALSE
  BY DEF Start
<1>2. GoodWork(cur', todo', map', writes', Safe')
  BY <1>1, EmptyGood DEF GoodWork
<1>3. TypeRest'
  <2>1. mailbox' \subseteq arrived'
    BY DEF IInv, TypeRest
  <2>2. /\ bodies' \in [Msgs -> Nat] /\ arrived' \subseteq Msgs
        /\ asked' \in [Msgs -> {"no", "user", "filter"}]
        /\ prefs' \in [keep : AllKeep, limit : BOOLEAN, uidl : BOOLEAN]
        /\ prompts' \in 0..MaxPrompts /\ marks' \in 0..MaxMarks
    BY DEF IInv, TypeRest
  <2>3. QED
    BY <1>1, <2>1, <2>2, Bounds DEF TypeRest
<1>4. OnServer' /\ Unlocked' /\ Numbered'
  BY <1>1 DEF OnServer, Handling, Unlocked, Numbered
<1>5. OncePerRun'
  <2>1. r.id \in Nat /\ \A m \in Msgs : bodies'[m] \in Nat
    BY <1>3 DEF TypeRest, Requests
  <2>2. QED
    BY <1>1, <2>1 DEF OncePerRun, Handling, Before
<1>6. QED
  BY <1>2, <1>3, <1>4, <1>5 DEF IInv

LEMMA AskOk ==
  ASSUME IInv, NEW kind \in {"get", "check", "body"}, NEW m \in Msgs \cup {NoMsg},
         Ask(kind, m)
  PROVE  IInv'
<1> DEFINE r == [id |-> issued + 1, kind |-> kind, uidl |-> m]
<1>1. /\ issued \in Nat /\ issued + 1 \in 1..MaxRequests /\ issued' = issued + 1
      /\ answered \subseteq 1..issued'
  BY Pop3Assumption DEF IInv, TypeRest, Ask
<1>2. r \in Requests /\ r.id = issued + 1
  BY <1>1 DEF Requests
<1>3. Safe' = Safe
  BY SafeSame DEF Ask, folder, ghosts
<1>4. \A n \in Msgs : bodies[n] \in Nat
  BY DEF IInv, TypeRest
<1>5. CASE Idle
  <2>1. Start(r) /\ queue' = queue /\ queue = <<>>
    BY <1>5 DEF Ask, Idle, IInv, Numbered
  <2> HIDE DEF r
  <2>2. SafeServer'
    BY <1>3, <2>1 DEF IInv, SafeServer, Ask, server, folder, ghosts, Start
  <2>3. \A n \in Msgs : bodies'[n] < r.id
    BY <1>1, <1>2, <1>4, <1>5 DEF Ask, IInv, OncePerRun, Idle, folder
  <2>4. /\ UNCHANGED <<prefs, server, folder, ghosts, popstate, open, prompts, writes, answered>>
        /\ ~locked
    BY <1>5 DEF Ask, IInv, Unlocked, Idle
  <2>5. GoodWrites(writes', Safe')
    BY <1>3, <2>4 DEF IInv, GoodWork
  <2>6. queue' \in Seq(Requests) /\ Len(queue') = 0
    BY <2>1
  <2>7. /\ UNCHANGED <<prefs, arrived, bodies, asked, marks, prompts, popstate>>
        /\ mailbox' \subseteq mailbox /\ drop' \in {drop, {}} /\ dele' \in {dele, {}}
        /\ drop' \subseteq mailbox' /\ dele' \subseteq drop'
        /\ mishaps' \subseteq {"crash", "cut", "disk", "err"}
    BY <2>4 DEF server, folder, ghosts, IInv, TypeRest
  <2>8. ~locked' /\ locked' \in BOOLEAN /\ open' \in BOOLEAN
    BY <2>4 DEF folder, IInv, TypeRest
  <2>9. issued' \in 0..MaxRequests /\ answered' \subseteq 1..issued' /\ r.id \in 1..issued'
    BY <1>1, <1>2, <2>4 DEF IInv, TypeRest
  <2>10. r.id + Len(queue') = issued' /\ \A i \in 1..Len(queue') : queue'[i].id = r.id + i
    BY <1>1, <1>2, <2>6
  <2>11. QED
    BY <1>2, <2>1, <2>2, <2>3, <2>5, <2>6, <2>7, <2>8, <2>9, <2>10, StartsRun
<1>6. CASE ~Idle
  <2>1. /\ queue' = Append(queue, r)
        /\ UNCHANGED <<req, pc, loaded, map, changed, todo, cur, ok, method, topFailed>>
        /\ UNCHANGED <<prefs, server, folder, ghosts, popstate, open, prompts, writes, answered>>
    BY <1>6 DEF Ask
  <2> HIDE DEF r
  <2>2. GoodWork(cur', todo', map', writes', Safe')
    BY <1>3, <2>1 DEF IInv
  <2>3. TypeRest'
    BY <1>1, <1>2, <2>1 DEF IInv, TypeRest, server, folder, ghosts
  <2>4. OnServer' /\ Unlocked' /\ SafeServer'
    BY <1>3, <2>1
       DEF IInv, OnServer, Handling, Pending, Unlocked, SafeServer, server, folder, ghosts
  <2>5. Numbered'
    <3>1. queue \in Seq(Requests) /\ req.id \in Nat /\ Len(queue) \in Nat
      BY DEF IInv, TypeRest, Requests
    <3>2. /\ req.id \in 1..issued /\ req.id + Len(queue) = issued
          /\ \A i \in 1..Len(queue) : queue[i].id = req.id + i
      BY <1>6 DEF IInv, Numbered, Idle
    <3>3. Len(queue') = Len(queue) + 1
      BY <2>1, <3>1
    <3>4. ASSUME NEW i \in 1..Len(queue')
          PROVE  queue'[i].id = req.id + i
      <4>1. CASE i = Len(queue) + 1
        <5>1. queue'[i] = r
          BY <2>1, <3>1, <4>1, SMTT(30)
        <5>2. issued + 1 = req.id + i
          BY <3>1, <3>2, <4>1
        <5>3. QED
          BY <1>2, <5>1, <5>2, Zenon
      <4>2. CASE i # Len(queue) + 1
        <5>1. i \in 1..Len(queue)
          BY <3>1, <3>3, <4>2
        <5>2. queue'[i] = queue[i]
          BY <2>1, <3>1, <5>1
        <5>3. QED
          BY <3>2, <5>1, <5>2
      <4>3. QED
        BY <4>1, <4>2
    <3>5. QED
      BY <1>1, <1>6, <2>1, <3>1, <3>2, <3>3, <3>4 DEF Numbered, Idle
  <2>6. OncePerRun'
    BY <1>6, <2>1 DEF IInv, OncePerRun, Handling, Before, Idle, Pending, folder
  <2>7. QED
    BY <2>2, <2>3, <2>4, <2>5, <2>6 DEF IInv
<1>7. QED
  BY <1>5, <1>6

LEMMA ConnectOk ==
  ASSUME IInv, Connect
  PROVE  IInv'
<1> DEFINE mp == Load(popstate)
<1>1. /\ pc = "connect" /\ writes = <<>> /\ open' = TRUE /\ loaded' = TRUE
      /\ UNCHANGED <<prefs, server, folder, queue, issued, answered, req, ghosts, login,
                     popstate, topFailed>>
  BY DEF Connect
<1>2. Safe' = Safe
  BY <1>1, SafeSame DEF folder, ghosts
<1>3. GoodMap(mp, Safe)
  BY LoadGood DEF IInv, SafeServer
<1>4. CASE Done(FALSE, cur, todo, mp, FALSE, writes)
  <2>1. GoodWork(cur, todo, mp, writes, Safe)
    BY <1>3 DEF IInv, GoodWork
  <2> HIDE DEF mp
  <2>2. /\ GoodWork(cur', todo', map', writes', Safe')
        /\ pc' \in {"saving", "quit"} /\ ok' \in BOOLEAN /\ changed' \in BOOLEAN
    BY <1>2, <1>4, <2>1, DoneGood DEF IInv, TypeRest
  <2>3. TypeRest' /\ SafeServer'
    BY <1>1, <1>2, <2>2
       DEF IInv, TypeRest, SafeServer, server, folder, ghosts, login
  <2>4. \A m \in Msgs : bodies'[m] <= req.id
    BY <1>1 DEF IInv, OncePerRun, folder
  <2>5. QED
    BY <1>1, <2>2, <2>3, <2>4, EndsRun
<1>5. ASSUME map' \in {mp, [mp EXCEPT ![req.uidl].st = "f"]},
             pc' = "auth", UNCHANGED <<changed, todo, cur, writes, ok>>
      PROVE  IInv'
  <2>1. GoodMap(map', Safe)
    BY <1>3, <1>5 DEF GoodMap, Entry, Status, Final
  <2>2. GoodWork(cur', todo', map', writes', Safe')
    BY <1>2, <1>5, <2>1 DEF IInv, GoodWork
  <2>3. TypeRest' /\ SafeServer'
    BY <1>1, <1>2, <1>5
       DEF IInv, TypeRest, SafeServer, server, folder, ghosts, login
  <2>4. OnServer' /\ Unlocked' /\ Numbered' /\ OncePerRun'
    BY <1>1, <1>5
       DEF IInv, OnServer, Handling, Unlocked, Numbered, OncePerRun, Before, folder
  <2>5. QED
    BY <2>2, <2>3, <2>4 DEF IInv
<1>6. QED
  BY <1>4, <1>5 DEF Connect

LEMMA ConnectFailsOk ==
  ASSUME IInv, ConnectFails
  PROVE  IInv'
<1>1. pc # "idle" /\ Done(FALSE, cur, todo, map, changed, writes)
  BY DEF ConnectFails, Fail
<1>2. UNCHANGED <<prefs, server, folder, runs, ghosts, login, popstate, open, topFailed>>
  BY DEF ConnectFails
<1>3. QED
  BY <1>1, <1>2, FailEnds DEF server, folder, ghosts, IInv, TypeRest

\* A step before the messages are known that changes none of the run's work.
LEMMA StepsBefore ==
  ASSUME IInv, Before, Before', UNCHANGED <<prefs, bodies, runs, asked, marks, work, popstate>>,
         locked' \in BOOLEAN, pc' \in {"connect", "auth", "stat"} => ~locked',
         topFailed' \in BOOLEAN, open' \in BOOLEAN,
         arrived' \subseteq Msgs, mailbox' \subseteq arrived', drop' \subseteq mailbox',
         dele' \subseteq drop', arrived' \ mailbox' \subseteq arrived \ mailbox,
         dele' \subseteq dele,
         method' \in 1..Methods, prompts' \in 0..MaxPrompts,
         mishaps' \subseteq {"crash", "cut", "disk", "err"}
  PROVE  IInv'
<1>1. Safe' = Safe
  BY SafeSame
<1>2. GoodWork(cur', todo', map', writes', Safe')
  BY <1>1 DEF IInv, work
<1>3. TypeRest'
  BY DEF IInv, TypeRest, runs, work, Before
<1>4. SafeServer'
  BY <1>1 DEF IInv, SafeServer, Before
<1>5. OnServer' /\ Unlocked' /\ Numbered'
  BY DEF IInv, OnServer, Handling, Before, Unlocked, Numbered, runs
<1>6. OncePerRun'
  BY DEF IInv, OncePerRun, Handling, Before, runs
<1>7. QED
  BY <1>2, <1>3, <1>4, <1>5, <1>6 DEF IInv

LEMMA AuthAcceptedOk ==
  ASSUME IInv, AuthAccepted
  PROVE  IInv'
<1>1. /\ pc = "auth" /\ pc' = "stat" /\ drop' = mailbox
      /\ UNCHANGED <<prefs, arrived, mailbox, dele, folder, runs, ghosts, login, work,
                     popstate, open, topFailed>>
  BY DEF AuthAccepted
<1>2. TypeRest /\ ~locked
  BY <1>1 DEF IInv, Unlocked
<1>3. QED
  BY <1>1, <1>2, StepsBefore DEF Before, folder, ghosts, login, TypeRest

LEMMA AuthRejectedOk ==
  ASSUME IInv, NEW stays \in BOOLEAN, AuthRejected(stays)
  PROVE  IInv'
<1>1. /\ pc = "auth" /\ open' = stays
      /\ UNCHANGED <<prefs, server, folder, runs, ghosts, popstate, topFailed>>
  BY DEF AuthRejected
<1>2. TypeRest /\ ~locked
  BY <1>1 DEF IInv, Unlocked
<1>3. CASE Fail /\ UNCHANGED login
  BY <1>1, <1>2, <1>3, FailEnds DEF Fail, server, folder, ghosts, TypeRest
<1>4. ASSUME method' \in 1..Methods, prompts' \in 0..MaxPrompts,
             pc' \in {"auth", "connect"}, UNCHANGED work
      PROVE  IInv'
  BY <1>1, <1>2, <1>4, StepsBefore DEF Before, server, folder, ghosts, TypeRest
<1>5. CASE /\ method < Methods /\ method' = method + 1
           /\ pc' \in {"auth", "connect"} /\ UNCHANGED <<prompts, work>>
  <2>1. method' \in 1..Methods /\ prompts' \in 0..MaxPrompts
    BY <1>2, <1>5, Bounds DEF TypeRest
  <2>2. QED
    BY <1>4, <1>5, <2>1
<1>6. CASE /\ prompts < MaxPrompts /\ prompts' = prompts + 1 /\ method' = 1
           /\ pc' \in {"auth", "connect"} /\ UNCHANGED work
  <2>1. method' \in 1..Methods /\ prompts' \in 0..MaxPrompts
    BY <1>2, <1>6, Bounds DEF TypeRest
  <2>2. QED
    BY <1>4, <1>6, <2>1
<1>7. QED
  BY <1>3, <1>5, <1>6 DEF AuthRejected

LEMMA StatReplyOk ==
  ASSUME IInv, StatReply
  PROVE  IInv'
<1>1. /\ pc = "stat"
      /\ UNCHANGED <<prefs, server, bodies, runs, ghosts, login, popstate, open, topFailed>>
  BY DEF StatReply
<1>2. TypeRest
  BY DEF IInv
<1>3. CASE /\ Done(TRUE, cur, todo, Empty, changed \/ map # Empty, writes)
           /\ UNCHANGED locked
  <2>1. GoodWork(cur, todo, Empty, writes, Safe)
    BY EmptyGood DEF IInv, GoodWork
  <2>2. Safe' = Safe
    BY <1>1, SafeSame DEF ghosts
  <2>3. (changed \/ map # Empty) \in BOOLEAN
    OBVIOUS
  <2>4. /\ GoodWork(cur', todo', map', writes', Safe')
        /\ pc' \in {"saving", "quit"} /\ ok' \in BOOLEAN /\ changed' \in BOOLEAN
    BY <1>2, <1>3, <2>1, <2>2, <2>3, DoneGood DEF TypeRest
  <2>5. TypeRest' /\ SafeServer'
    BY <1>1, <1>3, <2>2, <2>4
       DEF IInv, TypeRest, SafeServer, server, ghosts, login, runs
  <2>6. \A m \in Msgs : bodies'[m] <= req.id
    BY <1>1 DEF IInv, OncePerRun
  <2>7. QED
    BY <1>1, <2>4, <2>5, <2>6, EndsRun DEF runs
<1>4. CASE \E status \in BOOLEAN :
             Done(status, cur, todo, map, changed, writes) /\ UNCHANGED locked
  BY <1>1, <1>2, <1>4, FailEnds DEF server, ghosts, TypeRest
<1>5. CASE locked' \in BOOLEAN /\ pc' = "list" /\ UNCHANGED work
  BY <1>1, <1>2, <1>5, StepsBefore DEF Before, server, ghosts, login, TypeRest
<1>6. QED
  BY <1>3, <1>4, <1>5 DEF StatReply, Fail

LEMMA ListReplyOk ==
  ASSUME IInv, ListReply
  PROVE  IInv'
<1>1. /\ pc = "list" /\ pc' = "uidl"
      /\ UNCHANGED <<prefs, server, folder, runs, ghosts, login, work, popstate, open,
                     topFailed>>
  BY DEF ListReply
<1>2. TypeRest
  BY DEF IInv
<1>3. QED
  BY <1>1, <1>2, StepsBefore DEF Before, server, folder, ghosts, login, TypeRest

LEMMA DeliverOk ==
  ASSUME IInv, NEW m \in Msgs, Deliver(m)
  PROVE  IInv'
<1>1. /\ pc = "auth" /\ arrived' = arrived \cup {m} /\ mailbox' = mailbox \cup {m}
      /\ UNCHANGED <<prefs, drop, dele, folder, runs, ghosts, login, work, popstate, pc,
                     open, topFailed>>
  BY DEF Deliver
<1>2. TypeRest /\ ~locked
  BY <1>1 DEF IInv, Unlocked
<1>3. QED
  BY <1>1, <1>2, StepsBefore DEF Before, folder, ghosts, login, TypeRest

\* A step that ends with the next message to handle, out of those of t.
LEMMA HandlesNext ==
  ASSUME IInv, pc # "idle",
         NEW t, NEW mp, NEW ch \in BOOLEAN, NEW wr,
         HandleMessage(t, mp, ch, wr),
         GoodTodo(t, Safe'), GoodMap(mp, Safe'), GoodWrites(wr, Safe'),
         Pending(t) \subseteq drop, \A m \in Pending(t) : bodies'[m] < req.id,
         UNCHANGED <<prefs, arrived, mailbox, drop, runs, login, popstate, open, topFailed,
                     mishaps>>,
         dele' \subseteq drop, dele' \subseteq Safe', Safe \subseteq Safe',
         bodies' \in [Msgs -> Nat], \A m \in Msgs : bodies'[m] <= req.id,
         asked' \in [Msgs -> {"no", "user", "filter"}], marks' \in 0..MaxMarks
  PROVE  IInv'
<1>1. TypeRest
  BY DEF IInv
<1> DEFINE goesOn ==
      /\ pc' \in {"top", "retr", "dele", "pause"}
      /\ cur'.msg \in Pending(t) /\ cur' # NoCur /\ todo'[cur'.msg] = None
      /\ Pending(todo') \subseteq Pending(t)
      /\ pc' = "dele" => cur'.msg \in Safe'
<1>2. /\ GoodWork(cur', todo', map', writes', Safe')
      /\ ok' \in BOOLEAN /\ changed' \in BOOLEAN /\ locked' \in BOOLEAN
      /\ pc' \in {"saving", "quit"} \/ goesOn
  <2>1. /\ req \in Requests /\ topFailed \in BOOLEAN /\ ok \in BOOLEAN
        /\ locked \in BOOLEAN
    BY <1>1 DEF TypeRest
  <2> DEFINE S == Safe'
  <2>2. GoodTodo(t, S) /\ GoodMap(mp, S) /\ GoodWrites(wr, S)
    OBVIOUS
  <2>3. S = Safe'
    OBVIOUS
  <2> HIDE DEF S
  <2>4. QED
    BY <2>1, <2>2, <2>3, HandleGood
<1> HIDE DEF goesOn
<1>3. pc' \in {"top", "retr", "dele", "pause", "saving", "quit"}
  BY <1>2 DEF goesOn
<1>4. TypeRest'
  BY <1>1, <1>2, <1>3 DEF TypeRest, runs, login
<1>5. SafeServer'
  <2>1. GoodFile(popstate', Safe') /\ arrived' \ mailbox' \subseteq Safe'
    BY DEF IInv, SafeServer, GoodFile
  <2>2. QED
    BY <1>2, <2>1 DEF SafeServer, goesOn
<1>6. CASE pc' \in {"saving", "quit"}
  BY <1>2, <1>4, <1>5, <1>6, EndsRun DEF runs
<1>7. CASE goesOn
  <2>1. OnServer'
    BY <1>7 DEF goesOn, OnServer, Handling, Pending
  <2>2. Unlocked' /\ Numbered'
    BY <1>7 DEF goesOn, Unlocked, Numbered, IInv, runs
  <2>3. OncePerRun'
    <3>1. req' = req /\ cur'.msg \in Pending(t) /\ Pending(todo') \subseteq Pending(t)
      BY <1>7 DEF goesOn, runs
    <3>2. pc' # "idle" /\ ~Before'
      BY <1>7 DEF goesOn, Before
    <3>3. \A m \in Pending(todo') : bodies'[m] < req'.id
      BY <3>1
    <3>4. bodies'[cur'.msg] < req'.id
      BY <3>1
    <3>5. \A m \in Pending(todo)' : bodies'[m] < req'.id
      BY <3>3 DEF Pending
    <3>6. QED
      BY <3>1, <3>2, <3>4, <3>5 DEF OncePerRun
  <2>4. QED
    BY <1>2, <1>4, <1>5, <2>1, <2>2, <2>3 DEF IInv
<1>8. QED
  BY <1>2, <1>6, <1>7

LEMMA UidlReplyOk ==
  ASSUME IInv, NEW Old \in SUBSET Msgs, UidlReply(Old)
  PROVE  IInv'
<1> DEFINE all == [m \in Msgs |-> ToHandle(m, m \in Old)]
           single == req.kind = "body"
           t == IF single THEN [m \in Msgs |-> IF m = req.uidl THEN all[m] ELSE None]
                ELSE all
           mp == IF single THEN map ELSE Remembered(all)
           ch == \/ Pending(t) # {}
                 \/ Cardinality(Pending(map)) # Cardinality(Pending(mp))
<1>1. /\ pc = "uidl"
      /\ UNCHANGED <<prefs, server, bodies, runs, ghosts, login, popstate, open, topFailed>>
  BY DEF UidlReply
<1>2. TypeRest /\ GoodMap(map, Safe) /\ GoodWrites(writes, Safe) /\ GoodCur(cur, Safe)
  BY DEF IInv, GoodWork
<1>3. Safe' = Safe
  BY <1>1, SafeSame DEF ghosts
<1>4. \A m \in Msgs : /\ all[m] \in Entry /\ (all[m].st \in Final => m \in Safe)
                      /\ all[m] # None => all[m].st \in Orders /\ m \in drop
  <2> SUFFICES ASSUME NEW m \in Msgs
               PROVE  /\ all[m] \in Entry /\ (all[m].st \in Final => m \in Safe)
                      /\ all[m] # None => all[m].st \in Orders /\ m \in drop
    OBVIOUS
  <2> DEFINE old == m \in Old
  <2>1. old \in BOOLEAN /\ all[m] = ToHandle(m, old)
    OBVIOUS
  <2> HIDE DEF old, all
  <2>2. QED
    BY <1>2, <2>1, ToHandleGood DEF TypeRest
<1>5. GoodTodo(all, Safe) /\ Pending(all) \subseteq drop
  BY <1>4 DEF GoodTodo, GoodMap, Pending
<1> HIDE DEF all
<1>6. GoodTodo(t, Safe) /\ Pending(t) \subseteq drop
  BY <1>5 DEF GoodTodo, GoodMap, Pending, None, Entry, Status, Final
<1>7. GoodMap(mp, Safe)
  BY <1>2 DEF GoodMap, Remembered, None, Entry, Status, Final
<1>8. ch \in BOOLEAN
  OBVIOUS
<1> HIDE DEF t, mp, ch
<1>9. ASSUME NEW status \in BOOLEAN, NEW t1 \in {all, t},
             Done(status, cur, t1, map, changed, writes), UNCHANGED locked
      PROVE  IInv'
  <2>1. GoodWork(cur, t1, map, writes, Safe)
    BY <1>2, <1>5, <1>6 DEF GoodWork
  <2>2. /\ GoodWork(cur', todo', map', writes', Safe')
        /\ pc' \in {"saving", "quit"} /\ ok' \in BOOLEAN /\ changed' \in BOOLEAN
    BY <1>2, <1>3, <1>9, <2>1, DoneGood DEF TypeRest
  <2>3. TypeRest' /\ SafeServer'
    BY <1>1, <1>2, <1>3, <1>9, <2>2
       DEF IInv, TypeRest, SafeServer, server, ghosts, login, runs
  <2>4. \A m \in Msgs : bodies'[m] <= req.id
    BY <1>1 DEF IInv, OncePerRun
  <2>5. QED
    BY <1>1, <2>2, <2>3, <2>4, EndsRun DEF runs
<1>10. CASE HandleMessage(t, mp, ch, writes)
  <2>1. \A m \in Pending(t) : bodies'[m] < req.id
    BY <1>1 DEF IInv, OncePerRun, Before, Pending
  <2>2. \A m \in Msgs : bodies'[m] <= req.id
    BY <1>1 DEF IInv, OncePerRun
  <2>3. /\ dele' \subseteq drop /\ dele' \subseteq Safe'
        /\ bodies' \in [Msgs -> Nat]
        /\ asked' \in [Msgs -> {"no", "user", "filter"}] /\ marks' \in 0..MaxMarks
    BY <1>1, <1>2, <1>3 DEF IInv, TypeRest, SafeServer, server, ghosts
  <2>4. /\ GoodTodo(t, Safe') /\ GoodMap(mp, Safe') /\ GoodWrites(writes, Safe')
        /\ Safe \subseteq Safe'
    BY <1>2, <1>3, <1>6, <1>7
  <2>5. UNCHANGED <<prefs, arrived, mailbox, drop, runs, login, popstate, open, topFailed,
                    mishaps>>
    BY <1>1 DEF server, ghosts
  <2>6. QED
    BY <1>1, <1>6, <1>8, <1>10, <2>1, <2>2, <2>3, <2>4, <2>5, HandlesNext
<1>11. \/ \E status \in BOOLEAN, t1 \in {all, t} :
             Done(status, cur, t1, map, changed, writes) /\ UNCHANGED locked
       \/ HandleMessage(t, mp, ch, writes)
  BY Zenon DEF UidlReply, all, t, mp, ch
<1>12. QED
  BY <1>9, <1>10, <1>11

LEMMA NoUidlOk ==
  ASSUME IInv, NoUidl
  PROVE  IInv'
<1> DEFINE t == [m \in Msgs |-> IF m \in drop THEN Fresh("f") ELSE None]
<1>1. /\ pc = "uidl"
      /\ UNCHANGED <<prefs, server, bodies, runs, ghosts, login, popstate, open, topFailed>>
  BY DEF NoUidl
<1>2. TypeRest /\ GoodMap(map, Safe) /\ GoodWrites(writes, Safe)
  BY DEF IInv, GoodWork
<1>3. Safe' = Safe
  BY <1>1, SafeSame DEF ghosts
<1>4. CASE Fail /\ UNCHANGED locked
  BY <1>1, <1>2, <1>4, FailEnds DEF Fail, server, ghosts, TypeRest
<1>5. CASE HandleMessage(t, map, changed, writes)
  <2>1. GoodTodo(t, Safe') /\ Pending(t) \subseteq drop
    BY DEF GoodTodo, GoodMap, Pending, None, Fresh, Entry, Status, Final, Orders
  <2> HIDE DEF t
  <2>2. \A m \in Pending(t) : bodies'[m] < req.id
    BY <1>1 DEF IInv, OncePerRun, Before, Pending
  <2>3. \A m \in Msgs : bodies'[m] <= req.id
    BY <1>1 DEF IInv, OncePerRun
  <2>4. /\ dele' \subseteq drop /\ dele' \subseteq Safe'
        /\ bodies' \in [Msgs -> Nat]
        /\ asked' \in [Msgs -> {"no", "user", "filter"}] /\ marks' \in 0..MaxMarks
    BY <1>1, <1>2, <1>3 DEF IInv, TypeRest, SafeServer, server, ghosts
  <2>5. UNCHANGED <<prefs, arrived, mailbox, drop, runs, login, popstate, open, topFailed,
                    mishaps>>
    BY <1>1 DEF server, ghosts
  <2>6. QED
    BY <1>1, <1>2, <1>3, <1>5, <2>1, <2>2, <2>3, <2>4, <2>5, HandlesNext DEF TypeRest
<1>6. QED
  BY <1>4, <1>5 DEF NoUidl

\* A mark on message m keeps what is written, and what will be, about messages
\* that may go.
LEMMA MarkedGood ==
  ASSUME NEW S, NEW m \in Msgs, NEW mk \in {"d", "f"}, mk = "d" => m \in S,
         req \in Requests, GoodMap(map, S), GoodTodo(todo, S), GoodWrites(writes, S)
  PROVE  /\ GoodMap(MarkedMap(m, mk), S)
         /\ GoodWrites(MarkedWrites(MarkedMap(m, mk)), S)
<1> DEFINE mp == [map EXCEPT ![m].st = mk]
<1>1. GoodMap(mp, S)
  BY DEF GoodMap, Entry, Status, Final
<1> HIDE DEF mp
<1>2. GoodMap(PutBack(mp, todo), S)
  BY <1>1, PutBackGood DEF GoodTodo
<1>3. GoodMap(MarkedMap(m, mk), S)
  BY <1>2 DEF MarkedMap, mp
<1>4. QED
  BY <1>3, AppendWrite DEF MarkedWrites

\* The mark of a filter on the current message.
LEMMA FilterMarkGood ==
  ASSUME IInv, Handling, NEW mk \in {"-", "d", "f"}, FilterMark(mk),
         bodies' \in [Msgs -> Nat], \A n \in Msgs : bodies'[n] >= bodies[n]
  PROVE  /\ asked' \in [Msgs -> {"no", "user", "filter"}] /\ marks' \in 0..MaxMarks
         /\ Safe \subseteq Safe' /\ (mk = "d" => cur.msg \in Safe')
<1>1. cur.msg \in Msgs
  BY DEF IInv, GoodWork, GoodCur, OnServer
<1>2. TypeRest /\ MaxMarks \in Nat
  BY Bounds DEF IInv
<1>3. marks' \in 0..MaxMarks
  BY <1>2 DEF FilterMark, TypeRest
<1>4. asked' = IF mk = "d" THEN [asked EXCEPT ![cur.msg] = "filter"] ELSE asked
  BY DEF FilterMark
<1>5. /\ asked' \in [Msgs -> {"no", "user", "filter"}]
      /\ \A n \in Msgs : asked[n] # "no" => asked'[n] # "no"
      /\ mk = "d" => asked'[cur.msg] # "no"
  BY <1>1, <1>2, <1>4 DEF TypeRest
<1>6. \A n \in Msgs : bodies[n] > 0 => bodies'[n] > 0
  BY <1>2 DEF TypeRest
<1>7. QED
  BY <1>1, <1>3, <1>5, <1>6 DEF Safe

\* What TOP and RETR have reached when the message is stored and its filters have run.
LEMMA StoredGood ==
  ASSUME IInv, Handling, NEW mk \in {"-", "d", "f"}, Safe \subseteq Safe',
         mk = "d" => cur.msg \in Safe',
         NEW mp, mp = (IF mk = "-" THEN map ELSE MarkedMap(cur.msg, mk)),
         NEW wr, wr = (IF mk = "-" THEN writes ELSE MarkedWrites(mp))
  PROVE  /\ cur # NoCur /\ cur.msg \in Msgs /\ cur.msg \in drop
         /\ todo[cur.msg] = None /\ Pending(todo) \subseteq drop
         /\ GoodWork(cur, todo, mp, wr, Safe')
<1> DEFINE S == Safe'
           m == cur.msg
<1>1. GoodWork(cur, todo, map, writes, S)
  BY Larger DEF IInv
<1>2. /\ cur # NoCur /\ m \in Msgs /\ m \in drop
      /\ todo[m] = None /\ Pending(todo) \subseteq drop
  BY DEF IInv, GoodWork, GoodCur, OnServer
<1>3. req \in Requests
  BY DEF IInv, TypeRest
<1>4. CASE mk = "-"
  BY <1>1, <1>2, <1>4
<1>5. CASE mk # "-"
  <2>1. mk \in {"d", "f"} /\ (mk = "d" => m \in S)
    BY <1>5
  <2>2. mp = MarkedMap(m, mk) /\ wr = MarkedWrites(MarkedMap(m, mk))
    BY <1>5
  <2>3. GoodMap(map, S) /\ GoodTodo(todo, S) /\ GoodWrites(writes, S)
    BY <1>1 DEF GoodWork
  <2> HIDE DEF S, m
  <2>4. GoodMap(mp, S) /\ GoodWrites(wr, S)
    BY <1>2, <1>3, <2>1, <2>2, <2>3, MarkedGood
  <2>5. QED
    BY <1>1, <1>2, <2>4 DEF GoodWork, S, m
<1>6. QED
  BY <1>4, <1>5

LEMMA TopReplyOk ==
  ASSUME IInv, NEW mk \in {"-", "d", "f"}, TopReply(mk)
  PROVE  IInv'
<1> DEFINE m == cur.msg
           mp == IF mk = "-" THEN map ELSE MarkedMap(m, mk)
           wr == IF mk = "-" THEN writes ELSE MarkedWrites(mp)
           mpB == [mp EXCEPT ![m] = Known("b")]
<1>1. /\ pc = "top" /\ FilterMark(mk)
      /\ UNCHANGED <<prefs, server, bodies, runs, mishaps, login, popstate, open, topFailed>>
      /\ \/ /\ mp[m].st \in {"f", "d"}
            /\ pc' = Command(mp[m].st, topFailed)
            /\ map' = mp /\ writes' = wr
            /\ changed' = (changed \/ mk # "-")
            /\ UNCHANGED <<todo, cur, ok, locked>>
         \/ HandleMessage(todo, mpB, TRUE, wr)
  BY DEF TopReply
<1>2. Handling /\ TypeRest
  BY <1>1 DEF Handling, IInv
<1>3. bodies' \in [Msgs -> Nat] /\ \A n \in Msgs : bodies'[n] >= bodies[n]
  BY <1>1, <1>2 DEF TypeRest
<1>4. /\ asked' \in [Msgs -> {"no", "user", "filter"}] /\ marks' \in 0..MaxMarks
      /\ Safe \subseteq Safe' /\ (mk = "d" => cur.msg \in Safe')
  BY <1>1, <1>2, <1>3, FilterMarkGood
<1>5. mp = (IF mk = "-" THEN map ELSE MarkedMap(cur.msg, mk))
  OBVIOUS
<1>6. wr = (IF mk = "-" THEN writes ELSE MarkedWrites(mp))
  OBVIOUS
<1> HIDE DEF mp, wr
<1>7. /\ cur # NoCur /\ m \in Msgs /\ m \in drop
      /\ todo[m] = None /\ Pending(todo) \subseteq drop
      /\ GoodWork(cur, todo, mp, wr, Safe')
  BY <1>2, <1>4, <1>5, <1>6, StoredGood
<1>8. \A n \in Msgs : bodies'[n] <= req.id
  BY <1>1 DEF IInv, OncePerRun
<1>9. \A n \in Pending(todo) : bodies'[n] < req.id
  BY <1>1, <1>2 DEF IInv, OncePerRun
<1>10. bodies'[m] < req.id
  BY <1>1 DEF IInv, OncePerRun
<1>11. dele' \subseteq drop /\ dele' \subseteq Safe' /\ drop' = drop
  BY <1>1, <1>2, <1>4 DEF IInv, TypeRest, SafeServer, server
<1>12. CASE /\ mp[m].st \in {"f", "d"}
            /\ pc' = Command(mp[m].st, topFailed)
            /\ map' = mp /\ writes' = wr
            /\ changed' = (changed \/ mk # "-")
            /\ UNCHANGED <<todo, cur, ok, locked>>
  <2>1. pc' \in {"retr", "dele"} /\ (pc' = "dele" => mp[m].st = "d")
    BY <1>12 DEF Command
  <2>2. mp[m].st = "d" => m \in Safe'
    BY <1>7 DEF GoodWork, GoodMap, Final
  <2>3. TypeRest'
    BY <1>1, <1>2, <1>3, <1>4, <1>11, <1>12, <2>1 DEF TypeRest, server, runs, login
  <2>4. GoodWork(cur', todo', map', writes', Safe')
    BY <1>7, <1>12
  <2>5. OnServer'
    BY <1>7, <1>11, <1>12 DEF OnServer, Pending
  <2>6. Unlocked' /\ Numbered'
    BY <1>1, <2>1 DEF IInv, Unlocked, Numbered, runs
  <2>7. OncePerRun'
    BY <1>1, <1>8, <1>9, <1>10, <1>12, <2>1
       DEF OncePerRun, Handling, Before, Pending, runs
  <2>8. SafeServer'
    BY <1>1, <1>4, <1>11, <1>12, <2>1, <2>2 DEF IInv, SafeServer, GoodFile, server
  <2>9. QED
    BY <2>3, <2>4, <2>5, <2>6, <2>7, <2>8 DEF IInv
<1>13. CASE HandleMessage(todo, mpB, TRUE, wr)
  <2>1. GoodMap(mpB, Safe') /\ GoodTodo(todo, Safe') /\ GoodWrites(wr, Safe')
    BY <1>7 DEF GoodWork, GoodMap, Known, Entry, Status, Final
  <2> HIDE DEF mpB
  <2>2. UNCHANGED <<prefs, arrived, mailbox, drop, runs, login, popstate, open, topFailed,
                    mishaps>>
    BY <1>1 DEF server
  <2>3. QED
    BY <1>1, <1>3, <1>4, <1>7, <1>8, <1>9, <1>11, <1>13, <2>1, <2>2, HandlesNext
<1>14. QED
  BY <1>1, <1>12, <1>13

LEMMA RetrReplyOk ==
  ASSUME IInv, NEW mk \in {"-", "d"}, RetrReply(mk)
  PROVE  IInv'
<1> DEFINE m == cur.msg
           mp == IF mk = "-" THEN map ELSE MarkedMap(m, mk)
           wr == IF mk = "-" THEN writes ELSE MarkedWrites(mp)
           mpK == [mp EXCEPT ![m] = Known("k")]
<1>1. /\ pc = "retr" /\ FilterMark(mk)
      /\ bodies' = [bodies EXCEPT ![m] = @ + 1]
      /\ UNCHANGED <<prefs, server, runs, mishaps, login, popstate, open, topFailed>>
      /\ \/ /\ pc' = "dele" /\ map' = mp /\ writes' = wr
            /\ changed' = (changed \/ mk # "-")
            /\ UNCHANGED <<todo, cur, ok, locked>>
         \/ HandleMessage(todo, mpK, TRUE, wr)
  BY DEF RetrReply
<1>2. Handling /\ TypeRest /\ m \in Msgs
  BY <1>1 DEF Handling, IInv, GoodWork, GoodCur, OnServer
<1>3. /\ bodies' \in [Msgs -> Nat] /\ \A n \in Msgs : bodies'[n] >= bodies[n]
      /\ bodies'[m] = bodies[m] + 1 /\ \A n \in Msgs \ {m} : bodies'[n] = bodies[n]
  BY <1>1, <1>2 DEF TypeRest
<1>4. /\ asked' \in [Msgs -> {"no", "user", "filter"}] /\ marks' \in 0..MaxMarks
      /\ Safe \subseteq Safe' /\ (mk = "d" => cur.msg \in Safe')
  BY <1>1, <1>2, <1>3, FilterMarkGood
<1>5. mp = (IF mk = "-" THEN map ELSE MarkedMap(cur.msg, mk))
  OBVIOUS
<1>6. wr = (IF mk = "-" THEN writes ELSE MarkedWrites(mp))
  OBVIOUS
<1> HIDE DEF mp, wr
<1>7. /\ cur # NoCur /\ m \in Msgs /\ m \in drop
      /\ todo[m] = None /\ Pending(todo) \subseteq drop
      /\ GoodWork(cur, todo, mp, wr, Safe')
  BY <1>2, <1>4, <1>5, <1>6, StoredGood
<1>8. m \in Safe'
  BY <1>2, <1>3 DEF Safe, TypeRest
<1>9. \A n \in Msgs : bodies'[n] <= req.id
  <2>1. bodies[m] < req.id /\ \A n \in Msgs : bodies[n] <= req.id
    BY <1>1 DEF IInv, OncePerRun
  <2>2. req.id \in Nat /\ bodies[m] \in Nat
    BY <1>2 DEF TypeRest, Requests
  <2>3. bodies'[m] <= req.id
    BY <1>3, <2>1, <2>2
  <2>4. QED
    BY <1>3, <2>1, <2>3
<1>10. \A n \in Pending(todo) : bodies'[n] < req.id
  BY <1>2, <1>3, <1>7 DEF IInv, OncePerRun, Pending
<1>11. dele' \subseteq drop /\ dele' \subseteq Safe' /\ drop' = drop
  BY <1>1, <1>2, <1>4 DEF IInv, TypeRest, SafeServer, server
<1>12. CASE /\ pc' = "dele" /\ map' = mp /\ writes' = wr
            /\ changed' = (changed \/ mk # "-")
            /\ UNCHANGED <<todo, cur, ok, locked>>
  <2>1. TypeRest'
    BY <1>1, <1>2, <1>3, <1>4, <1>11, <1>12 DEF TypeRest, server, runs, login
  <2>2. GoodWork(cur', todo', map', writes', Safe')
    BY <1>7, <1>12
  <2>3. OnServer' /\ Unlocked' /\ Numbered'
    BY <1>1, <1>7, <1>11, <1>12 DEF IInv, OnServer, Pending, Unlocked, Numbered, runs
  <2>4. OncePerRun'
    BY <1>1, <1>9, <1>10, <1>12 DEF OncePerRun, Handling, Before, Pending, runs
  <2>5. SafeServer'
    BY <1>1, <1>4, <1>8, <1>11, <1>12 DEF IInv, SafeServer, GoodFile, server
  <2>6. QED
    BY <2>1, <2>2, <2>3, <2>4, <2>5 DEF IInv
<1>13. CASE HandleMessage(todo, mpK, TRUE, wr)
  <2>1. GoodMap(mpK, Safe') /\ GoodTodo(todo, Safe') /\ GoodWrites(wr, Safe')
    BY <1>7, <1>8 DEF GoodWork, GoodMap, Known, Entry, Status, Final
  <2> HIDE DEF mpK
  <2>2. UNCHANGED <<prefs, arrived, mailbox, drop, runs, login, popstate, open, topFailed,
                    mishaps>>
    BY <1>1 DEF server
  <2>3. QED
    BY <1>1, <1>3, <1>4, <1>7, <1>9, <1>10, <1>11, <1>13, <2>1, <2>2, HandlesNext
<1>14. QED
  BY <1>1, <1>12, <1>13

LEMMA TopRefusedOk ==
  ASSUME IInv, TopRefused
  PROVE  IInv'
<1>1. /\ pc = "top" /\ topFailed' = TRUE /\ pc' = "retr"
      /\ UNCHANGED <<prefs, server, folder, runs, ghosts, login, work, popstate, open>>
  BY DEF TopRefused
<1>2. Safe' = Safe
  BY <1>1, SafeSame DEF folder, ghosts
<1>3. TypeRest' /\ SafeServer'
  BY <1>1, <1>2 DEF IInv, TypeRest, SafeServer, server, folder, runs, ghosts, login, work
<1>4. GoodWork(cur', todo', map', writes', Safe')
  BY <1>1, <1>2 DEF IInv, work
<1>5. OnServer' /\ Unlocked' /\ Numbered'
  BY <1>1 DEF IInv, OnServer, Handling, Pending, Unlocked, Numbered, server, runs, work
<1>6. OncePerRun'
  BY <1>1 DEF IInv, OncePerRun, Handling, Before, Pending, folder, runs, work
<1>7. QED
  BY <1>3, <1>4, <1>5, <1>6 DEF IInv

LEMMA StoreFailsOk ==
  ASSUME IInv, StoreFails
  PROVE  IInv'
<1>1. pc # "idle" /\ Done(FALSE, cur, todo, map, changed, writes)
  BY DEF StoreFails, Fail
<1>2. UNCHANGED <<prefs, server, folder, runs, ghosts, login, popstate, open, topFailed>>
  BY DEF StoreFails
<1>3. QED
  BY <1>1, <1>2, FailEnds DEF server, folder, ghosts, IInv, TypeRest

LEMMA DeleReplyOk ==
  ASSUME IInv, DeleReply
  PROVE  IInv'
<1>1. /\ pc = "dele" /\ dele' = dele \cup {cur.msg}
      /\ HandleMessage(todo, map, changed, writes)
      /\ UNCHANGED <<prefs, arrived, mailbox, drop, bodies, runs, ghosts, login, popstate,
                     open, topFailed>>
  BY DEF DeleReply
<1>2. TypeRest /\ Handling
  BY <1>1 DEF IInv, Handling
<1>3. Safe' = Safe
  BY <1>1, SafeSame DEF ghosts
<1>4. cur.msg \in drop /\ Pending(todo) \subseteq drop /\ cur.msg \in Safe
  BY <1>1, <1>2 DEF IInv, OnServer, SafeServer
<1>5. dele' \subseteq drop /\ dele' \subseteq Safe'
  BY <1>1, <1>2, <1>3, <1>4 DEF IInv, TypeRest, SafeServer
<1>6. GoodTodo(todo, Safe') /\ GoodMap(map, Safe') /\ GoodWrites(writes, Safe')
  BY <1>3 DEF IInv, GoodWork
<1>7. /\ \A m \in Pending(todo) : bodies'[m] < req.id
      /\ \A m \in Msgs : bodies'[m] <= req.id
  BY <1>1, <1>2 DEF IInv, OncePerRun
<1>8. /\ bodies' \in [Msgs -> Nat] /\ asked' \in [Msgs -> {"no", "user", "filter"}]
      /\ marks' \in 0..MaxMarks /\ changed \in BOOLEAN
      /\ UNCHANGED <<prefs, arrived, mailbox, drop, runs, login, popstate, open, topFailed,
                     mishaps>>
  BY <1>1, <1>2 DEF TypeRest, ghosts
<1>9. QED
  BY <1>1, <1>3, <1>4, <1>5, <1>6, <1>7, <1>8, HandlesNext

LEMMA RefusedOk ==
  ASSUME IInv, Refused
  PROVE  IInv'
<1>1. pc # "idle" /\ Done(FALSE, cur, todo, map, changed, writes)
  BY DEF Refused, Fail
<1>2. /\ mishaps' = mishaps \cup {"err"}
      /\ UNCHANGED <<prefs, server, folder, runs, asked, marks, login, popstate, open,
                     topFailed>>
  BY DEF Refused
<1>3. QED
  BY <1>1, <1>2, FailEnds DEF server, folder, IInv, TypeRest

LEMMA LostOk ==
  ASSUME IInv, NEW status \in BOOLEAN, Lost(status)
  PROVE  IInv'
<1>1. pc # "idle" /\ Done(status, cur, todo, map, changed, writes)
  BY DEF Lost, Working
<1>2. /\ mishaps' = mishaps \cup {"cut"} /\ dele' = {} /\ open' = FALSE
      /\ UNCHANGED <<prefs, arrived, mailbox, drop, folder, runs, asked, marks, login,
                     popstate, topFailed>>
  BY DEF Lost
<1>3. QED
  BY <1>1, <1>2, FailEnds DEF folder, IInv, TypeRest

LEMMA WriteDoneOk ==
  ASSUME IInv, NEW success \in BOOLEAN, WriteDone(success)
  PROVE  IInv'
<1> DEFINE w == Head(writes)
           mine == w.run = req.id /\ ~Idle
<1>1. /\ writes # <<>>
      /\ popstate' = IF success THEN w.file ELSE popstate
      /\ mishaps' = IF success THEN mishaps ELSE mishaps \cup {"disk"}
      /\ UNCHANGED <<prefs, server, folder, runs, asked, marks, login, open, topFailed>>
  BY DEF WriteDone
<1>2. TypeRest /\ GoodWork(cur, todo, map, writes, Safe)
  BY DEF IInv
<1>3. Safe' = Safe
  BY <1>1, SafeSame DEF folder
<1>4. GoodWrites(Tail(writes), Safe) /\ GoodFile(w.file, Safe)
  BY <1>1, <1>2, TailWrites DEF GoodWork
<1> HIDE DEF w
<1>5. GoodFile(popstate', Safe') /\ mishaps' \subseteq {"crash", "cut", "disk", "err"}
  BY <1>1, <1>2, <1>3, <1>4 DEF IInv, TypeRest, SafeServer
<1>6. \A m \in Msgs : pc # "idle" => bodies'[m] <= req.id
  BY <1>1 DEF IInv, OncePerRun, folder
<1>7. ASSUME writes' = Tail(writes), UNCHANGED <<map, todo, cur>>
      PROVE  GoodWork(cur', todo', map', writes', Safe')
  BY <1>2, <1>3, <1>4, <1>7 DEF GoodWork
<1>8. ASSUME pc # "idle", pc' = "quit", ok' = (ok /\ success),
             changed' = (changed /\ ~success), writes' = Tail(writes),
             UNCHANGED <<map, todo, cur>>
      PROVE  IInv'
  <2>1. TypeRest'
    BY <1>1, <1>2, <1>5, <1>8 DEF TypeRest, server, folder, runs, login
  <2>2. SafeServer'
    BY <1>1, <1>3, <1>5, <1>8 DEF IInv, SafeServer, server
  <2>3. QED
    BY <1>1, <1>6, <1>7, <1>8, <2>1, <2>2, EndsRun DEF runs
<1>9. CASE pc = "pause" /\ Done(FALSE, cur, todo, map, changed, Tail(writes))
  <2> DEFINE wr == Tail(writes)
  <2>1. GoodWork(cur, todo, map, wr, Safe) /\ Done(FALSE, cur, todo, map, changed, wr)
    BY <1>2, <1>4, <1>9 DEF GoodWork
  <2> HIDE DEF wr
  <2>2. /\ GoodWork(cur', todo', map', writes', Safe')
        /\ pc' \in {"saving", "quit"} /\ ok' \in BOOLEAN /\ changed' \in BOOLEAN
    <3>1. req \in Requests /\ changed \in BOOLEAN
      BY <1>2 DEF TypeRest
    <3>2. /\ GoodWork(cur', todo', map', writes', Safe)
          /\ pc' \in {"saving", "quit"} /\ ok' \in BOOLEAN /\ changed' \in BOOLEAN
      BY <2>1, <3>1, DoneGood
    <3>3. QED
      BY <1>3, <3>2
  <2>3. TypeRest'
    BY <1>1, <1>2, <1>5, <2>2 DEF TypeRest, server, folder, runs, login
  <2>4. SafeServer'
    BY <1>1, <1>3, <1>5, <2>2 DEF IInv, SafeServer, server
  <2>5. QED
    BY <1>1, <1>6, <1>9, <2>2, <2>3, <2>4, EndsRun DEF runs
<1>10. CASE /\ pc = "pause" /\ pc' = Command(cur.e.st, topFailed)
            /\ writes' = Tail(writes) /\ UNCHANGED <<map, changed, todo, cur, ok>>
  <2>1. /\ cur # NoCur /\ cur.e.st \in Orders /\ (cur.e.st = "d" => cur.msg \in Safe)
    BY <1>2, <1>10 DEF IInv, OnServer, Handling, GoodWork, GoodCur
  <2>2. pc' \in {"top", "retr", "dele"} /\ (pc' = "dele" => cur.msg \in Safe)
    BY <1>2, <1>10, <2>1, CommandOf DEF TypeRest
  <2>3. TypeRest'
    BY <1>1, <1>2, <1>5, <1>10, <2>2 DEF TypeRest, server, folder, runs, login
  <2>4. SafeServer'
    BY <1>1, <1>3, <1>5, <1>10, <2>2 DEF IInv, SafeServer, server
  <2>5. OnServer' /\ Unlocked' /\ Numbered'
    BY <1>1, <1>10, <2>2
       DEF IInv, OnServer, Handling, Pending, Unlocked, Numbered, server, runs
  <2>6. OncePerRun'
    BY <1>1, <1>10, <2>2 DEF IInv, OncePerRun, Handling, Before, Pending, folder, runs
  <2>7. QED
    BY <1>7, <1>10, <2>3, <2>4, <2>5, <2>6 DEF IInv
<1>11. ASSUME changed' \in BOOLEAN, writes' = Tail(writes),
              UNCHANGED <<pc, map, todo, cur, ok>>
       PROVE  IInv'
  <2>1. TypeRest'
    BY <1>1, <1>2, <1>5, <1>11 DEF TypeRest, server, folder, runs, login
  <2>2. SafeServer'
    BY <1>1, <1>3, <1>5, <1>11 DEF IInv, SafeServer, server
  <2>3. OnServer' /\ Unlocked' /\ Numbered'
    BY <1>1, <1>11
       DEF IInv, OnServer, Handling, Pending, Unlocked, Numbered, server, folder, runs
  <2>4. OncePerRun'
    BY <1>1, <1>11 DEF IInv, OncePerRun, Handling, Before, Pending, folder, runs
  <2>5. QED
    BY <1>7, <1>11, <2>1, <2>2, <2>3, <2>4 DEF IInv
<1>12. QED
  BY <1>2, <1>8, <1>9, <1>10, <1>11 DEF WriteDone, Idle, w, TypeRest

LEMMA CleanUpOk ==
  ASSUME IInv, NEW quitSeen \in BOOLEAN, CleanUp(quitSeen)
  PROVE  IInv'
<1>1. /\ pc = "quit"
      /\ mailbox' = IF quitSeen THEN mailbox \ dele ELSE mailbox
      /\ mishaps' = IF open /\ ~quitSeen THEN mishaps \cup {"cut"} ELSE mishaps
      /\ dele' = {} /\ drop' = {} /\ open' = FALSE /\ locked' = FALSE
      /\ answered' = answered \cup {req.id}
      /\ UNCHANGED <<prefs, arrived, bodies, issued, asked, marks, prompts, popstate, writes>>
  BY DEF CleanUp
<1>2. TypeRest /\ GoodWork(cur, todo, map, writes, Safe)
  BY DEF IInv
<1>3. Safe' = Safe
  BY <1>1, SafeSame
<1>4. /\ req.id \in 1..issued /\ req.id + Len(queue) = issued
      /\ \A i \in 1..Len(queue) : queue[i].id = req.id + i
      /\ \A m \in Msgs : bodies[m] <= req.id
      /\ queue \in Seq(Requests)
  BY <1>1, <1>2 DEF IInv, Numbered, OncePerRun, TypeRest
<1>5. /\ mailbox' \subseteq mailbox /\ answered' \subseteq 1..issued
      /\ mishaps' \subseteq {"crash", "cut", "disk", "err"}
      /\ issued \in 0..MaxRequests /\ issued \in Nat
      /\ GoodWrites(writes', Safe')
  <2>1. mailbox' \subseteq mailbox /\ GoodWrites(writes', Safe')
    BY <1>1, <1>2, <1>3 DEF GoodWork
  <2>2. issued \in 0..MaxRequests /\ issued \in Nat
    BY <1>2, Bounds DEF TypeRest
  <2>3. answered' \subseteq 1..issued
    BY <1>1, <1>2, <1>4 DEF TypeRest
  <2>4. mishaps' \subseteq {"crash", "cut", "disk", "err"}
    BY <1>1, <1>2 DEF TypeRest
  <2>5. QED
    BY <2>1, <2>2, <2>3, <2>4
<1>6. pc' # "dele" => SafeServer'
  BY <1>1, <1>3 DEF IInv, SafeServer
<1>7. CASE NextRun # NoReq /\ Start(NextRun) /\ queue' = Tail(queue)
  <2> DEFINE r == Head(queue)
  <2>1. queue # <<>> /\ NextRun = r
    BY <1>7 DEF NextRun
  <2>2. /\ r = queue[1] /\ r \in Requests /\ Len(queue) \in Nat /\ Len(queue) >= 1
        /\ Tail(queue) \in Seq(Requests) /\ Len(Tail(queue)) = Len(queue) - 1
        /\ \A i \in 1..Len(Tail(queue)) : Tail(queue)[i] = queue[i + 1]
    BY <1>4, <2>1
  <2> HIDE DEF r
  <2>3. r.id = req.id + 1
    BY <1>4, <2>2
  <2>4. r.id \in 1..issued /\ r.id + Len(Tail(queue)) = issued
    BY <1>4, <1>5, <2>2, <2>3
  <2>5. \A i \in 1..Len(Tail(queue)) : Tail(queue)[i].id = r.id + i
    <3> SUFFICES ASSUME NEW i \in 1..Len(Tail(queue))
                 PROVE  Tail(queue)[i].id = r.id + i
      OBVIOUS
    <3>1. i + 1 \in 1..Len(queue) /\ Tail(queue)[i] = queue[i + 1]
      BY <2>2
    <3>2. queue[i + 1].id = req.id + (i + 1)
      BY <1>4, <3>1
    <3>3. req.id \in Int /\ i \in Int
      BY <1>4
    <3>4. req.id + (i + 1) = r.id + i
      BY <2>3, <3>3
    <3>5. QED
      BY <3>1, <3>2, <3>4, Zenon
  <2>6. \A m \in Msgs : bodies'[m] < r.id
    BY <1>1, <1>2, <1>4, <1>5, <2>3 DEF TypeRest
  <2>7. Start(r) /\ pc' = "connect"
    BY <1>7, <2>1 DEF Start
  <2>8. SafeServer'
    BY <1>6, <2>7
  <2>9. /\ drop' \in {drop, {}} /\ dele' \in {dele, {}} /\ ~locked'
        /\ drop' \subseteq mailbox' /\ dele' \subseteq drop'
        /\ locked' \in BOOLEAN /\ open' \in BOOLEAN
    BY <1>1
  <2>10. /\ issued' \in 0..MaxRequests /\ answered' \subseteq 1..issued'
         /\ r.id \in 1..issued' /\ queue' \in Seq(Requests) /\ r.id + Len(queue') = issued'
         /\ \A i \in 1..Len(queue') : queue'[i].id = r.id + i
    BY <1>1, <1>5, <1>7, <2>2, <2>4, <2>5
  <2>11. QED
    BY <1>1, <1>5, <2>2, <2>6, <2>7, <2>8, <2>9, <2>10, StartsRun
<1>8. CASE /\ NextRun = NoReq /\ pc' = "idle" /\ req' = NoReq /\ loaded' = FALSE
           /\ map' = Empty /\ todo' = Empty /\ cur' = NoCur /\ changed' = FALSE
           /\ ok' = TRUE /\ method' = 1 /\ topFailed' = FALSE /\ UNCHANGED queue
  <2>1. queue = <<>>
    <3> SUFFICES ASSUME queue # <<>> PROVE FALSE
      OBVIOUS
    <3>1. 1 \in 1..Len(queue) /\ Head(queue) = queue[1]
      BY <1>4
    <3>2. Head(queue).id = req.id + 1
      BY <1>4, <3>1
    <3>3. Head(queue).id = 0
      BY <1>8 DEF NextRun, NoReq
    <3>4. QED
      BY <1>4, <3>2, <3>3
  <2>2. req.id = issued
    BY <1>4, <2>1
  <2>3. GoodWork(cur', todo', map', writes', Safe')
    BY <1>5, <1>8, EmptyGood DEF GoodWork
  <2>4. NoReq \in Requests
    BY Bounds DEF NoReq, Requests
  <2>5. TypeRest'
    BY <1>1, <1>2, <1>5, <1>8, <2>4, Bounds DEF TypeRest
  <2>6. OnServer' /\ Unlocked' /\ Numbered'
    BY <1>1, <1>8, <2>1 DEF OnServer, Handling, Unlocked, Numbered
  <2>7. OncePerRun'
    BY <1>1, <1>4, <1>8, <2>2 DEF OncePerRun, Handling, Before
  <2>8. QED
    BY <1>6, <1>8, <2>3, <2>5, <2>6, <2>7 DEF IInv
<1>9. QED
  BY <1>7, <1>8 DEF CleanUp

LEMMA UserMarkOk ==
  ASSUME IInv, NEW m \in Msgs, NEW mk \in {"d", "f"}, UserMark(m, mk)
  PROVE  IInv'
<1>1. /\ marks < MaxMarks /\ marks' = marks + 1
      /\ asked' = IF mk = "d" /\ asked[m] = "no" THEN [asked EXCEPT ![m] = "user"] ELSE asked
      /\ UNCHANGED <<prefs, server, folder, runs, mishaps, login, todo, cur, ok, pc, open,
                     topFailed>>
  BY DEF UserMark
<1>2. TypeRest /\ GoodWork(cur, todo, map, writes, Safe) /\ req \in Requests
  BY DEF IInv, TypeRest
<1>3. /\ marks' \in 0..MaxMarks /\ asked' \in [Msgs -> {"no", "user", "filter"}]
      /\ Safe \subseteq Safe' /\ (mk = "d" => m \in Safe')
  <2>1. marks' \in 0..MaxMarks
    BY <1>1, <1>2, Bounds DEF TypeRest
  <2>2. /\ asked' \in [Msgs -> {"no", "user", "filter"}]
        /\ \A n \in Msgs : asked[n] # "no" => asked'[n] # "no"
        /\ mk = "d" => asked'[m] # "no"
    BY <1>1, <1>2 DEF TypeRest
  <2>3. QED
    BY <1>1, <2>1, <2>2 DEF Safe, folder
<1>4. GoodWork(cur, todo, map, writes, Safe')
  BY <1>2, <1>3, Larger
<1>5. GoodFile(popstate, Safe')
  BY <1>3 DEF IInv, SafeServer, GoodFile
<1>6. /\ GoodFile(popstate', Safe') /\ GoodMap(map', Safe') /\ GoodWrites(writes', Safe')
      /\ changed' \in BOOLEAN
  <2>1. CASE /\ popstate' = IF popstate[m] = "-" THEN popstate
                            ELSE [popstate EXCEPT ![m] = mk]
             /\ UNCHANGED <<map, changed, writes>>
    <3>1. GoodFile(popstate', Safe')
      BY <1>3, <1>5, <2>1 DEF GoodFile, Status, Final
    <3>2. QED
      BY <1>2, <1>4, <2>1, <3>1 DEF GoodWork, TypeRest
  <2>2. CASE /\ map' = MarkedMap(m, mk) /\ changed' = TRUE
             /\ writes' = MarkedWrites(MarkedMap(m, mk)) /\ UNCHANGED popstate
    <3> DEFINE S == Safe'
    <3>1. GoodMap(map, S) /\ GoodTodo(todo, S) /\ GoodWrites(writes, S) /\ (mk = "d" => m \in S)
      BY <1>3, <1>4 DEF GoodWork
    <3> HIDE DEF S
    <3>2. GoodMap(map', S) /\ GoodWrites(writes', S)
      BY <1>2, <2>2, <3>1, MarkedGood
    <3>3. QED
      BY <1>5, <2>2, <3>2 DEF S
  <2>3. QED
    BY <2>1, <2>2 DEF UserMark
<1>7. GoodWork(cur', todo', map', writes', Safe')
  BY <1>1, <1>4, <1>6 DEF GoodWork
<1>8. TypeRest'
  BY <1>1, <1>2, <1>3, <1>6 DEF TypeRest, server, folder, runs, login
<1>9. SafeServer'
  BY <1>1, <1>3, <1>6 DEF IInv, SafeServer, server
<1>10. OnServer' /\ Unlocked' /\ Numbered'
  BY <1>1 DEF IInv, OnServer, Handling, Pending, Unlocked, Numbered, server, folder, runs
<1>11. OncePerRun'
  BY <1>1 DEF IInv, OncePerRun, Handling, Before, Pending, folder, runs
<1>12. QED
  BY <1>7, <1>8, <1>9, <1>10, <1>11 DEF IInv

LEMMA CrashOk ==
  ASSUME IInv, Crash
  PROVE  IInv'
<1>1. /\ mishaps' = mishaps \cup {"crash"} /\ popstate' \in AfterKill
      /\ pc' = "idle" /\ req' = NoReq /\ loaded' = FALSE /\ open' = FALSE
      /\ map' = Empty /\ todo' = Empty /\ cur' = NoCur /\ changed' = FALSE /\ ok' = TRUE
      /\ method' = 1 /\ topFailed' = FALSE /\ writes' = <<>> /\ locked' = FALSE
      /\ queue' = <<>> /\ answered' = 1..issued /\ dele' = {} /\ drop' = {}
      /\ UNCHANGED <<prefs, arrived, mailbox, bodies, issued, asked, marks, prompts>>
  BY DEF Crash
<1>2. TypeRest /\ GoodWrites(writes, Safe) /\ GoodFile(popstate, Safe)
  BY DEF IInv, GoodWork, SafeServer
<1>3. Safe' = Safe
  BY <1>1, SafeSame
<1>4. GoodFile(popstate', Safe')
  <2>1. GoodFile([m \in Msgs |-> "-"], Safe)
    BY DEF GoodFile, Status, Final
  <2>2. CASE writes = <<>>
    BY <1>1, <1>2, <1>3, <2>2 DEF AfterKill
  <2>3. CASE writes # <<>>
    <3>1. GoodFile(Head(writes).file, Safe)
      BY <1>2, <2>3, TailWrites
    <3>2. popstate' \in {popstate, Head(writes).file, [m \in Msgs |-> "-"]}
      BY <1>1, <2>3 DEF AfterKill
    <3>3. QED
      BY <1>2, <1>3, <2>1, <3>1, <3>2
  <2>4. QED
    BY <2>2, <2>3
<1>5. GoodWork(cur', todo', map', writes', Safe')
  <2>1. GoodWrites(<<>>, Safe')
    BY DEF GoodWrites
  <2>2. QED
    BY <1>1, <2>1, EmptyGood DEF GoodWork
<1>6. NoReq \in Requests
  BY Bounds DEF NoReq, Requests
<1>7. TypeRest'
  <2>1. /\ queue' \in Seq(Requests) /\ req' \in Requests
        /\ mishaps' \subseteq {"crash", "cut", "disk", "err"}
        /\ answered' \subseteq 1..issued' /\ method' \in 1..Methods
    BY <1>1, <1>2, <1>6, Bounds DEF TypeRest
  <2>2. /\ mailbox' \subseteq arrived' /\ drop' \subseteq mailbox' /\ dele' \subseteq drop'
        /\ arrived' \subseteq Msgs
    BY <1>1, <1>2 DEF TypeRest
  <2>3. QED
    BY <1>1, <1>2, <2>1, <2>2 DEF TypeRest
<1>8. SafeServer'
  BY <1>1, <1>3, <1>4 DEF IInv, SafeServer
<1>9. OnServer' /\ Unlocked' /\ Numbered'
  BY <1>1 DEF OnServer, Handling, Unlocked, Numbered
<1>10. \A m \in Msgs : bodies[m] <= issued
  <2>1. CASE pc = "idle"
    BY <2>1 DEF IInv, OncePerRun
  <2>2. CASE pc # "idle"
    <3>1. req.id \in Nat /\ issued \in Nat /\ req.id <= issued
      BY <1>2, <2>2 DEF IInv, Numbered, TypeRest
    <3>2. \A m \in Msgs : bodies[m] <= req.id /\ bodies[m] \in Nat
      BY <1>2, <2>2 DEF IInv, OncePerRun, TypeRest
    <3>3. QED
      BY <3>1, <3>2
  <2>3. QED
    BY <2>1, <2>2
<1>11. OncePerRun'
  BY <1>1, <1>10 DEF OncePerRun, Handling, Before
<1>12. QED
  BY <1>5, <1>7, <1>8, <1>9, <1>11 DEF IInv

LEMMA StutterOk ==
  ASSUME IInv, UNCHANGED vars
  PROVE  IInv'
<1>1. Safe' = Safe
  BY SafeSame DEF vars, folder, ghosts
<1>2. TypeRest' /\ SafeServer'
  BY <1>1 DEF IInv, TypeRest, SafeServer, vars, server, folder, runs, ghosts, login, work
<1>3. GoodWork(cur', todo', map', writes', Safe')
  BY <1>1 DEF IInv, vars, work
<1>4. OnServer' /\ Unlocked' /\ Numbered' /\ OncePerRun'
  BY DEF IInv, OnServer, Handling, Pending, Unlocked, Numbered, OncePerRun, Before,
         vars, server, folder, runs, work
<1>5. QED
  BY <1>2, <1>3, <1>4 DEF IInv

-----------------------------------------------------------------------------
(* The theorems.                                                           *)

\* The invariant holds in every state of every behaviour: a message is only ordered
\* to be deleted, in popstate.dat, in _uidlMap, in _messagesToHandle or in a write in
\* flight, once it is stored in full or someone asked for its deletion; the
\* semaphore is taken between STAT and the end of the run; runs are served in the
\* order in which they were asked for, and none stores a message twice.
THEOREM Pop3Invariant == Spec => []IInv
<1>1. Init => IInv
  BY InitOk
<1>2. IInv /\ [Next]_vars => IInv'
  <2> SUFFICES ASSUME IInv, [Next]_vars
               PROVE  IInv'
    OBVIOUS
  <2>1. CASE RunStep
    BY <2>1, ConnectOk, ConnectFailsOk, AuthAcceptedOk, AuthRejectedOk, StatReplyOk,
       ListReplyOk, NoUidlOk, UidlReplyOk, TopReplyOk, RetrReplyOk, TopRefusedOk,
       StoreFailsOk, DeleReplyOk, RefusedOk, LostOk, WriteDoneOk, CleanUpOk DEF RunStep
  <2>2. CASE Ask("get", NoMsg) \/ Ask("check", NoMsg)
    BY <2>2, AskOk
  <2>3. CASE \E m \in Big \cap arrived : Ask("body", m)
    BY <2>3, AskOk, Bounds
  <2>4. CASE \E m \in Msgs : Deliver(m)
    BY <2>4, DeliverOk
  <2>5. CASE \E m \in Msgs, mk \in {"d", "f"} : UserMark(m, mk)
    BY <2>5, UserMarkOk
  <2>6. CASE Crash
    BY <2>6, CrashOk
  <2>7. CASE UNCHANGED vars
    BY <2>7, StutterOk
  <2>8. QED
    BY <2>1, <2>2, <2>3, <2>4, <2>5, <2>6, <2>7 DEF Next
<1>3. QED
  BY <1>1, <1>2, PTL DEF Spec

LEMMA IInvTypes ==
  ASSUME IInv
  PROVE  TypeOK
<1>1. TypeRest /\ GoodWork(cur, todo, map, writes, Safe) /\ GoodFile(popstate, Safe)
  BY DEF IInv, SafeServer
<1>2. bodies \in [Msgs -> 0..MaxRequests]
  <2>1. \A m \in Msgs : bodies[m] \in Nat /\ bodies[m] <= IF pc = "idle" THEN issued ELSE req.id
    BY <1>1 DEF IInv, OncePerRun, TypeRest
  <2>2. /\ issued \in Nat /\ issued <= MaxRequests /\ req.id \in Nat
        /\ req.id <= MaxRequests /\ MaxRequests \in Nat
    BY <1>1, Bounds DEF TypeRest, Requests
  <2>3. \A m \in Msgs : bodies[m] \in 0..MaxRequests
    BY <2>1, <2>2
  <2>4. QED
    BY <1>1, <2>3 DEF TypeRest
<1>3. /\ \A i \in DOMAIN queue : queue[i] \in Requests
      /\ \A i \in DOMAIN writes : writes[i] \in WriteRecs
  BY <1>1 DEF TypeRest, GoodWork, GoodWrites
<1>4. /\ map \in [Msgs -> Entry] /\ todo \in [Msgs -> Entry]
      /\ cur \in [msg : Msgs \cup {NoMsg}, e : Entry] /\ popstate \in [Msgs -> Status]
  BY <1>1 DEF GoodWork, GoodMap, GoodTodo, GoodCur, GoodFile
<1>5. QED
  BY <1>1, <1>2, <1>3, <1>4 DEF TypeOK, TypeRest, WriteRecs

\* Every variable keeps its type; in particular no message is stored in full more
\* often than there were runs.
THEOREM Pop3TypeCorrect == Spec => []TypeOK
  BY Pop3Invariant, IInvTypes, PTL

\* Whatever fails and in whatever order, also a kill in the middle of a write of
\* popstate.dat or replies handled during the write of a mark: a message that has
\* gone from the server was stored in full, or the user or a filter asked for it.
THEOREM Pop3NothingLost == Spec => []NothingLost
<1>1. IInv => NothingLost
  BY DEF IInv, SafeServer, Safe, NothingLost
<1>2. QED
  BY <1>1, Pop3Invariant, PTL

-----------------------------------------------------------------------------
(* Stored once.  As long as popstate.dat is intact and replies wait for    *)
(* marks (Overlap = FALSE), a message stored in full is either on its way  *)
(* off the server or known, in the file, as one not to be fetched again.   *)

Intact == mishaps \cap {"crash", "disk"} = {}

\* What StoredOnce excuses a second copy of m with, once popstate.dat is intact.
Excused(m) ==
    \/ asked[m] = "filter"
    \/ "err" \in mishaps /\ (prefs.keep = "never" \/ marks > 0)
    \/ "cut" \in mishaps /\ (prefs.keep # "always" \/ asked[m] = "user")

\* An entry that is written to the file and never makes the client fetch the message.
Noted(e) == e.dated /\ e.st \in Final

\* What popstate.dat (file) holds once the writes of wr are done.
LastOf(wr, file) == IF wr = <<>> THEN file ELSE wr[Len(wr)].file

NoMark(wr) == \A i \in DOMAIN wr : wr[i].who # "mark"

\* The client has deleted m in this session, or is about to.
Leaving(m) ==
    \/ m \in dele
    \/ cur.msg = m /\ (pc = "dele" \/ (pc = "pause" /\ cur.e.st = "d"))

\* popstate.dat knows m, or the end of the run will write that it does.
Recorded(m) ==
    \/ LastOf(writes, popstate)[m] \in Final
    \/ changed /\ Handling /\ NoMark(writes)

Kept(m) ==
    /\ prefs.keep # "never"
    /\ Recorded(m)
    /\ loaded => Noted(PutBack(map, todo)[m])

Settled(m) ==
    /\ bodies[m] <= 1
    /\ m \in mailbox => Leaving(m) \/ Kept(m)
    /\ Handling /\ cur.msg = m =>
         Leaving(m) /\ (marks = 0 /\ prefs.keep # "never" => cur.e = Known("d"))

AllSettled == \A m \in Msgs : bodies[m] > 0 /\ ~Excused(m) => Settled(m)

\* A message deleted in this session is not handled again in it.
NotAgain ==
    Handling => /\ \A m \in dele : todo[m] = None /\ cur.msg # m
                /\ pc \in {"top", "retr"} => cur.e.st \in {"b", "f"}

\* The messages that may be deleted: the account does not keep all, or someone asked.
Goes == {m \in Msgs : prefs.keep # "always" \/ asked[m] # "no"}

\* Only messages of S are to be deleted.
OnlyFile(file, S) == \A m \in Msgs : file[m] = "d" => m \in S
OnlyMap(mp, S) == \A m \in Msgs : mp[m].st = "d" => m \in S
OnlyWrites(wr, S) == \A i \in DOMAIN wr : OnlyFile(wr[i].file, S)
OnlyAsked ==
    /\ OnlyMap(map, Goes) /\ OnlyMap(todo, Goes)
    /\ OnlyWrites(writes, Goes) /\ OnlyFile(popstate, Goes)
    /\ cur # NoCur /\ cur.e.st = "d" => cur.msg \in Goes
    /\ dele \subseteq Goes
    /\ pc = "dele" => cur.msg \in Goes

\* What a session knows of the server, and a run of popstate.dat.
Session ==
    /\ dele # {} => open
    /\ Before \/ pc = "idle" => dele = {}
    /\ pc \in {"stat", "list", "uidl"} \/ Handling => drop = mailbox /\ loaded /\ open
    /\ Before => todo = Empty /\ cur = NoCur
    /\ pc = "auth" => loaded /\ open
    /\ ~loaded => ~changed
    /\ loaded => pc # "idle"
    /\ \A m \in Msgs : bodies[m] > 0 => m \in arrived

\* No message that t orders to be fetched is one that mp has as to be deleted.
Apart(t, mp) == \A m \in Msgs : t[m].st \in {"b", "f"} => mp[m].st # "d"

\* Until a mark is set, a run that handles messages has something to save, and none
\* that is to be fetched is one to delete.
Calm ==
    marks = 0 /\ prefs.keep # "never" /\ Handling =>
        /\ changed
        /\ Apart(todo, map)
        /\ cur.e.st \in {"b", "f"} => map[cur.msg].st # "d"

\* Of the writes in flight: mk marks were set, runs are numbered up to top, and run
\* id has not yet ended.
FromRuns(wr, mk, top) ==
    \A i \in DOMAIN wr : /\ wr[i].who = "mark" => mk > 0
                         /\ wr[i].who = "periodic" => ~wr[i].reset
                         /\ wr[i].run <= top
NotEnded(wr, id) == \A i \in DOMAIN wr : ~(wr[i].who = "done" /\ wr[i].run = id)
Writers ==
    /\ FromRuns(writes, marks, IF pc = "idle" THEN issued ELSE req.id)
    /\ Before \/ Handling => NotEnded(writes, req.id)

SInv == Intact => /\ AllSettled /\ NotAgain /\ OnlyAsked /\ Session /\ Calm /\ Writers

LEMMA InAppend ==
  ASSUME NEW wr \in Seq(WriteRecs), NEW w, NEW i \in DOMAIN Append(wr, w)
  PROVE  Append(wr, w)[i] = w \/ (i \in DOMAIN wr /\ Append(wr, w)[i] = wr[i])
<1>1. CASE i = Len(wr) + 1
  BY <1>1
<1>2. CASE i # Len(wr) + 1
  BY <1>2
<1>3. QED
  BY <1>1, <1>2

LEMMA LastAppend ==
  ASSUME NEW wr \in Seq(WriteRecs), NEW w, NEW file
  PROVE  LastOf(Append(wr, w), file) = w.file
<1>1. /\ Append(wr, w) # <<>> /\ Len(Append(wr, w)) = Len(wr) + 1
      /\ Append(wr, w)[Len(wr) + 1] = w
  OBVIOUS
<1>2. QED
  BY <1>1 DEF LastOf

LEMMA LastTail ==
  ASSUME NEW wr \in Seq(WriteRecs), wr # <<>>, NEW file
  PROVE  LastOf(Tail(wr), Head(wr).file) = LastOf(wr, file)
<1> DEFINE rest == Tail(wr)
<1>1. /\ Head(wr) = wr[1] /\ Len(rest) = Len(wr) - 1 /\ Len(wr) \in Nat \ {0}
      /\ rest \in Seq(WriteRecs)
      /\ \A i \in 1..(Len(wr) - 1) : rest[i] = wr[i + 1]
  OBVIOUS
<1> HIDE DEF rest
<1>2. rest = <<>> <=> Len(wr) = 1
  BY <1>1
<1>3. CASE Len(wr) = 1
  BY <1>1, <1>2, <1>3 DEF LastOf, rest
<1>4. CASE Len(wr) # 1
  <2>1. Len(wr) - 1 \in 1..(Len(wr) - 1) /\ (Len(wr) - 1) + 1 = Len(wr)
    BY <1>1, <1>4
  <2>2. rest[Len(rest)] = wr[Len(wr)]
    BY <1>1, <2>1
  <2>3. QED
    BY <1>2, <1>4, <2>2 DEF LastOf, rest
<1>5. QED
  BY <1>3, <1>4

LEMMA InTail ==
  ASSUME NEW wr \in Seq(WriteRecs), wr # <<>>, NEW i \in DOMAIN Tail(wr)
  PROVE  i + 1 \in DOMAIN wr /\ Tail(wr)[i] = wr[i + 1]
  OBVIOUS

\* What a write of the map adds to those in flight.
LEMMA OneMoreWrite ==
  ASSUME NEW wr \in Seq(WriteRecs), NEW mp \in [Msgs -> Entry], NEW reset \in BOOLEAN, NEW who,
         NEW S, NEW mk, NEW top
  PROVE  LET wr1 == Append(wr, Write(mp, reset, who))
         IN  /\ OnlyWrites(wr, S) /\ OnlyMap(mp, S) => OnlyWrites(wr1, S)
             /\ FromRuns(wr, mk, top) /\ req.id <= top /\ (who = "mark" => mk > 0)
                  /\ (who = "periodic" => ~reset) => FromRuns(wr1, mk, top)
             /\ \A id : NotEnded(wr, id) /\ who # "done" => NotEnded(wr1, id)
             /\ NoMark(wr) /\ who # "mark" => NoMark(wr1)
<1> DEFINE w == Write(mp, reset, who)
           wr1 == Append(wr, w)
<1>1. w.file = FileOf(mp) /\ w.reset = reset /\ w.run = req.id /\ w.who = who
  BY DEF Write
<1>2. OnlyMap(mp, S) => OnlyFile(w.file, S)
  BY <1>1 DEF OnlyMap, OnlyFile, FileOf
<1> HIDE DEF w
<1>3. \A i \in DOMAIN wr1 : wr1[i] = w \/ (i \in DOMAIN wr /\ wr1[i] = wr[i])
  BY InAppend
<1> HIDE DEF wr1
<1>4. OnlyWrites(wr, S) /\ OnlyMap(mp, S) => OnlyWrites(wr1, S)
  BY <1>2, <1>3 DEF OnlyWrites
<1>5. FromRuns(wr, mk, top) /\ req.id <= top /\ (who = "mark" => mk > 0)
        /\ (who = "periodic" => ~reset) => FromRuns(wr1, mk, top)
  BY <1>1, <1>3 DEF FromRuns
<1>6. /\ \A id : NotEnded(wr, id) /\ who # "done" => NotEnded(wr1, id)
      /\ NoMark(wr) /\ who # "mark" => NoMark(wr1)
  BY <1>1, <1>3 DEF NotEnded, NoMark
<1>7. QED
  BY <1>4, <1>5, <1>6 DEF w, wr1

\* What is noted in the map is final in the file written of it.
LEMMA NotedFile ==
  ASSUME NEW mp \in [Msgs -> Entry], NEW m \in Msgs, Noted(mp[m])
  PROVE  FileOf(mp)[m] \in Final
  BY DEF Noted, FileOf

\* Putting back twice is putting back once.
LEMMA PutBackTwice ==
  ASSUME NEW mp, NEW t
  PROVE  PutBack(PutBack(mp, t), t) = PutBack(mp, t)
  BY DEF PutBack

LEMMA PutBackType ==
  ASSUME NEW mp \in [Msgs -> Entry], NEW t \in [Msgs -> Entry], NEW S
  PROVE  /\ PutBack(mp, t) \in [Msgs -> Entry]
         /\ OnlyMap(mp, S) /\ OnlyMap(t, S) => OnlyMap(PutBack(mp, t), S)
  BY DEF PutBack, OnlyMap

\* _actionDone: what the end of a run leaves of a message that is noted, or, on an
\* error, was the current one and goes back as noted.
LEMMA DoneNotes ==
  ASSUME NEW status \in BOOLEAN, NEW c, NEW t, NEW mp, NEW ch \in BOOLEAN, NEW wr, NEW S0,
         GoodWork(c, t, mp, wr, S0), Done(status, c, t, mp, ch, wr),
         NEW m \in Msgs, NEW file, LastOf(wr, file)[m] \in Final \/ ch,
         IF ~status /\ c # NoCur /\ c.msg = m THEN Noted(c.e) ELSE Noted(PutBack(mp, t)[m])
  PROVE  LastOf(writes', file)[m] \in Final /\ Noted(PutBack(map', todo')[m])
<1> DEFINE t1 == IF ~status /\ c # NoCur THEN [t EXCEPT ![c.msg] = c.e] ELSE t
           mp1 == IF ch THEN PutBack(mp, t1) ELSE mp
<1>1. /\ mp \in [Msgs -> Entry] /\ t \in [Msgs -> Entry] /\ wr \in Seq(WriteRecs)
      /\ c # NoCur => c.msg \in Msgs /\ c.e \in Entry /\ c.e # None
  BY DEF GoodWork, GoodMap, GoodTodo, GoodCur, GoodWrites, None, Orders
<1>2. /\ todo' = t1 /\ map' = mp1
      /\ writes' = IF ch THEN Append(wr, Write(mp1, TRUE, "done")) ELSE wr
  BY DEF Done
<1>3. t1 \in [Msgs -> Entry]
  BY <1>1
<1>4. Noted(PutBack(mp, t1)[m])
  <2>1. CASE ~status /\ c # NoCur /\ c.msg = m
    <3>1. t1[m] = c.e /\ c.e # None /\ Noted(c.e)
      BY <1>1, <2>1
    <3> HIDE DEF t1
    <3>2. QED
      BY <3>1 DEF PutBack
  <2>2. CASE ~(~status /\ c # NoCur /\ c.msg = m)
    <3>1. t1[m] = t[m] /\ Noted(PutBack(mp, t)[m])
      BY <1>1, <2>2
    <3> HIDE DEF t1
    <3>2. QED
      BY <3>1 DEF PutBack
  <2>3. QED
    BY <2>1, <2>2
<1> HIDE DEF t1
<1>5. PutBack(mp1, t1) = PutBack(mp, t1) /\ mp1 \in [Msgs -> Entry]
  BY <1>1, <1>3, PutBackTwice, PutBackType
<1>6. CASE ch
  <2>1. mp1 = PutBack(mp, t1) /\ Noted(mp1[m])
    BY <1>4, <1>6
  <2> HIDE DEF mp1
  <2>2. LastOf(writes', file) = FileOf(mp1)
    <3> DEFINE w == Write(mp1, TRUE, "done")
    <3>1. w.file = FileOf(mp1) /\ writes' = Append(wr, w)
      BY <1>2, <1>6 DEF Write
    <3> HIDE DEF w
    <3>2. QED
      BY <1>1, <3>1, LastAppend
  <2>3. FileOf(mp1)[m] \in Final
    BY <1>5, <2>1, NotedFile
  <2>4. PutBack(map', todo')[m] = PutBack(mp, t1)[m]
    BY <1>2, <1>5, Zenon
  <2>5. QED
    BY <1>4, <2>2, <2>3, <2>4
<1>7. CASE ~ch
  BY <1>2, <1>4, <1>5, <1>7
<1>8. QED
  BY <1>6, <1>7

LEMMA DoneOnly ==
  ASSUME NEW status \in BOOLEAN, NEW c, NEW t, NEW mp, NEW ch \in BOOLEAN, NEW wr, NEW S0,
         GoodWork(c, t, mp, wr, S0), Done(status, c, t, mp, ch, wr),
         NEW S, OnlyMap(mp, S), OnlyMap(t, S), OnlyWrites(wr, S),
         c # NoCur /\ c.e.st = "d" => c.msg \in S,
         NEW mk, NEW top, FromRuns(wr, mk, top), req.id <= top
  PROVE  /\ OnlyMap(map', S) /\ OnlyMap(todo', S) /\ OnlyWrites(writes', S)
         /\ FromRuns(writes', mk, top)
         /\ cur' = c /\ changed' = ch /\ pc' \in {"saving", "quit"}
<1> DEFINE t1 == IF ~status /\ c # NoCur THEN [t EXCEPT ![c.msg] = c.e] ELSE t
           mp1 == IF ch THEN PutBack(mp, t1) ELSE mp
<1>1. /\ mp \in [Msgs -> Entry] /\ t \in [Msgs -> Entry] /\ wr \in Seq(WriteRecs)
      /\ c # NoCur => c.msg \in Msgs /\ c.e \in Entry
  BY DEF GoodWork, GoodMap, GoodTodo, GoodCur, GoodWrites
<1>2. /\ todo' = t1 /\ map' = mp1 /\ cur' = c /\ changed' = ch
      /\ writes' = IF ch THEN Append(wr, Write(mp1, TRUE, "done")) ELSE wr
      /\ pc' \in {"saving", "quit"}
  BY DEF Done
<1>3. t1 \in [Msgs -> Entry] /\ OnlyMap(t1, S)
  BY <1>1 DEF OnlyMap
<1> HIDE DEF t1
<1>4. mp1 \in [Msgs -> Entry] /\ OnlyMap(mp1, S)
  BY <1>1, <1>3, PutBackType
<1> HIDE DEF mp1
<1>5. OnlyMap(map', S) /\ OnlyMap(todo', S)
  BY <1>2, <1>3, <1>4 DEF OnlyMap
<1>6. OnlyWrites(writes', S) /\ FromRuns(writes', mk, top)
  <2>1. CASE ch
    BY <1>1, <1>2, <1>4, <2>1, OneMoreWrite
  <2>2. CASE ~ch
    BY <1>2, <2>2
  <2>3. QED
    BY <2>1, <2>2
<1>7. QED
  BY <1>2, <1>5, <1>6

\* _actionHandleMessage takes message n of t, and may save the map.
TakesNext(n, t, mp, ch, wr) ==
    /\ n \in Pending(t)
    /\ cur' = [msg |-> n, e |-> t[n]]
    /\ todo' = [t EXCEPT ![n] = None]
    /\ changed' = ch
    /\ \/ /\ map' = mp
          /\ pc' = Command(t[n].st, topFailed)
          /\ writes' = wr
       \/ /\ map' = PutBack(mp, [t EXCEPT ![n] = None])
          /\ pc' = "pause"
          /\ writes' = Append(wr, Write(PutBack(mp, [t EXCEPT ![n] = None]), FALSE, "periodic"))

LEMMA HandleCases ==
  ASSUME NEW t, NEW mp, NEW ch \in BOOLEAN, NEW wr, HandleMessage(t, mp, ch, wr)
  PROVE  \/ \E status \in BOOLEAN : Done(status, NoCur, t, mp, ch, wr)
         \/ \E n \in Pending(t) : TakesNext(n, t, mp, ch, wr)
<1>1. ASSUME NEW m \in Pending(t),
             LET t1 == [t EXCEPT ![m] = None]
                 left == Cardinality(Pending(t1))
                 saves == left > 0 /\ left % WriteEvery = 0 /\ wr = <<>> /\ ch
                 mp1 == IF saves THEN PutBack(mp, t1) ELSE mp
             IN  /\ cur' = [msg |-> m, e |-> t[m]]
                 /\ todo' = t1
                 /\ changed' = ch
                 /\ map' = mp1
                 /\ pc' = IF saves THEN "pause" ELSE Command(t[m].st, topFailed)
                 /\ writes' = IF saves THEN Append(wr, Write(mp1, FALSE, "periodic"))
                              ELSE wr
                 /\ UNCHANGED <<locked, ok>>
      PROVE  TakesNext(m, t, mp, ch, wr)
  <2> DEFINE t1 == [t EXCEPT ![m] = None]
             left == Cardinality(Pending(t1))
             saves == left > 0 /\ left % WriteEvery = 0 /\ wr = <<>> /\ ch
             mp1 == IF saves THEN PutBack(mp, t1) ELSE mp
  <2>1. /\ cur' = [msg |-> m, e |-> t[m]]
        /\ todo' = t1 /\ changed' = ch /\ map' = mp1
        /\ pc' = IF saves THEN "pause" ELSE Command(t[m].st, topFailed)
        /\ writes' = IF saves THEN Append(wr, Write(mp1, FALSE, "periodic")) ELSE wr
    BY <1>1, Zenon
  <2> HIDE DEF saves
  <2>2. \/ /\ map' = mp /\ pc' = Command(t[m].st, topFailed) /\ writes' = wr
        \/ /\ map' = PutBack(mp, t1) /\ pc' = "pause"
           /\ writes' = Append(wr, Write(PutBack(mp, t1), FALSE, "periodic"))
    <3>1. CASE saves
      BY <2>1, <3>1, Zenon
    <3>2. CASE ~saves
      BY <2>1, <3>2, Zenon
    <3>3. QED
      BY <3>1, <3>2
  <2>3. QED
    BY <2>1, <2>2, Zenon DEF TakesNext
<1>2. CASE \E m \in Pending(t) :
             LET t1 == [t EXCEPT ![m] = None]
                 left == Cardinality(Pending(t1))
                 saves == left > 0 /\ left % WriteEvery = 0 /\ wr = <<>> /\ ch
                 mp1 == IF saves THEN PutBack(mp, t1) ELSE mp
             IN  /\ cur' = [msg |-> m, e |-> t[m]]
                 /\ todo' = t1
                 /\ changed' = ch
                 /\ map' = mp1
                 /\ pc' = IF saves THEN "pause" ELSE Command(t[m].st, topFailed)
                 /\ writes' = IF saves THEN Append(wr, Write(mp1, FALSE, "periodic"))
                              ELSE wr
                 /\ UNCHANGED <<locked, ok>>
  BY <1>1, <1>2, Zenon
<1>3. CASE Done(TRUE, NoCur, t, mp, ch, wr) \/ Done(FALSE, NoCur, t, mp, ch, wr)
  BY <1>3
<1>4. QED
  BY <1>2, <1>3, Zenon DEF HandleMessage

\* The command for the next message and what stays to be handled.
LEMMA TakesNextPlace ==
  ASSUME NEW t, NEW mp, NEW ch, NEW wr, NEW S0, GoodTodo(t, S0),
         NEW n, TakesNext(n, t, mp, ch, wr), topFailed \in BOOLEAN
  PROVE  /\ n \in Msgs /\ t[n] # None /\ t[n] \in Entry /\ t[n].st \in Orders
         /\ cur'.msg = n /\ cur'.e = t[n] /\ cur' # NoCur
         /\ \A m \in Msgs : todo'[m] = IF m = n THEN None ELSE t[m]
         /\ pc' \in {"top", "retr", "dele", "pause"}
         /\ pc' \in {"top", "retr"} => t[n].st \in {"b", "f"}
         /\ t[n].st = "d" => pc' \in {"dele", "pause"}
         /\ pc' = "dele" => t[n].st = "d"
<1>1. n \in Msgs /\ t[n] # None /\ t[n] \in Entry /\ t[n].st \in Orders /\ t \in [Msgs -> Entry]
  BY DEF TakesNext, Pending, GoodTodo, GoodMap
<1>2. cur'.msg = n /\ cur'.e = t[n] /\ cur' # NoCur
  BY <1>1, Bounds DEF TakesNext, NoCur
<1>3. \A m \in Msgs : todo'[m] = IF m = n THEN None ELSE t[m]
  BY <1>1 DEF TakesNext
<1>4. pc' \in {"pause", Command(t[n].st, topFailed)}
  BY DEF TakesNext
<1>5. QED
  BY <1>1, <1>2, <1>3, <1>4 DEF Command, Orders

\* What is to be deleted stays within S.
LEMMA TakesNextOnly ==
  ASSUME NEW t, NEW mp, NEW ch \in BOOLEAN, NEW wr, NEW S0,
         GoodTodo(t, S0), GoodMap(mp, S0), GoodWrites(wr, S0),
         NEW n, TakesNext(n, t, mp, ch, wr), topFailed \in BOOLEAN,
         NEW S, OnlyMap(mp, S), OnlyMap(t, S), OnlyWrites(wr, S),
         NEW mk, NEW top, FromRuns(wr, mk, top), req.id <= top, NotEnded(wr, req.id)
  PROVE  /\ OnlyMap(map', S) /\ OnlyMap(todo', S) /\ OnlyWrites(writes', S)
         /\ FromRuns(writes', mk, top) /\ NotEnded(writes', req.id)
         /\ cur'.e.st = "d" => cur'.msg \in S
<1> DEFINE t1 == [t EXCEPT ![n] = None]
<1>1. n \in Msgs /\ t \in [Msgs -> Entry] /\ mp \in [Msgs -> Entry] /\ wr \in Seq(WriteRecs)
  BY DEF TakesNext, Pending, GoodTodo, GoodMap, GoodWrites
<1>2. t1 \in [Msgs -> Entry] /\ OnlyMap(t1, S)
  BY <1>1 DEF None, Entry, Status, OnlyMap
<1>3. cur'.e.st = "d" => cur'.msg \in S
  <2>1. cur'.msg = n /\ cur'.e = t[n]
    BY TakesNextPlace
  <2>2. QED
    BY <1>1, <2>1 DEF OnlyMap
<1>4. /\ todo' = t1
      /\ \/ map' = mp /\ writes' = wr
         \/ /\ map' = PutBack(mp, t1)
            /\ writes' = Append(wr, Write(PutBack(mp, t1), FALSE, "periodic"))
  BY DEF TakesNext
<1> HIDE DEF t1
<1>5. OnlyMap(todo', S)
  BY <1>2, <1>4 DEF OnlyMap
<1>6. CASE map' = mp /\ writes' = wr
  BY <1>3, <1>5, <1>6 DEF OnlyMap
<1>7. CASE /\ map' = PutBack(mp, t1)
           /\ writes' = Append(wr, Write(PutBack(mp, t1), FALSE, "periodic"))
  <2> DEFINE mp1 == PutBack(mp, t1)
  <2>1. mp1 \in [Msgs -> Entry] /\ OnlyMap(mp1, S)
    BY <1>1, <1>2, PutBackType
  <2>2. map' = mp1 /\ writes' = Append(wr, Write(mp1, FALSE, "periodic"))
    BY <1>7
  <2> HIDE DEF mp1
  <2>3. OnlyMap(map', S)
    BY <2>1, <2>2 DEF OnlyMap
  <2> DEFINE w == Write(mp1, FALSE, "periodic")
             wr1 == Append(wr, w)
  <2>4. /\ w.file = FileOf(mp1) /\ ~w.reset /\ w.run = req.id /\ w.who = "periodic"
        /\ writes' = wr1
    BY <2>2 DEF Write
  <2>5. OnlyFile(w.file, S)
    BY <2>1, <2>4 DEF OnlyMap, OnlyFile, FileOf
  <2> HIDE DEF w
  <2>6. \A i \in DOMAIN wr1 : wr1[i] = w \/ (i \in DOMAIN wr /\ wr1[i] = wr[i])
    BY <1>1, InAppend
  <2> HIDE DEF wr1
  <2>7. OnlyWrites(wr1, S) /\ FromRuns(wr1, mk, top) /\ NotEnded(wr1, req.id)
    BY <2>4, <2>5, <2>6 DEF OnlyWrites, FromRuns, NotEnded
  <2>8. OnlyWrites(writes', S) /\ FromRuns(writes', mk, top) /\ NotEnded(writes', req.id)
    BY <2>4, <2>7
  <2>9. QED
    BY <1>3, <1>5, <2>3, <2>8
<1>8. QED
  BY <1>4, <1>6, <1>7

\* A message that is noted, and on its way to the file, stays so unless it is the one
\* taken: that one is then to be deleted.
LEMMA TakesNextNotes ==
  ASSUME NEW t, NEW mp, NEW ch \in BOOLEAN, NEW wr, NEW S0,
         GoodTodo(t, S0), GoodMap(mp, S0), GoodWrites(wr, S0),
         NEW n, TakesNext(n, t, mp, ch, wr), topFailed \in BOOLEAN,
         NEW m \in Msgs, NEW file, Noted(PutBack(mp, t)[m]),
         LastOf(wr, file)[m] \in Final \/ (ch /\ NoMark(wr))
  PROVE  IF m = n THEN t[n] = Known("d")
         ELSE /\ LastOf(writes', file)[m] \in Final \/ (changed' /\ NoMark(writes'))
              /\ Noted(PutBack(map', todo')[m])
<1> DEFINE t1 == [t EXCEPT ![n] = None]
<1>1. /\ n \in Msgs /\ t[n] # None /\ t[n] \in Entry /\ t[n].st \in Orders
      /\ t \in [Msgs -> Entry] /\ mp \in [Msgs -> Entry] /\ wr \in Seq(WriteRecs)
  BY DEF TakesNext, Pending, GoodTodo, GoodMap, GoodWrites
<1>2. CASE m = n
  <2>1. Noted(t[n])
    BY <1>1, <1>2 DEF PutBack
  <2>2. QED
    BY <1>1, <1>2, <2>1 DEF Noted, Final, Orders, Known, Entry
<1>3. CASE m # n
  <2>1. t1 \in [Msgs -> Entry] /\ t1[m] = t[m]
    BY <1>1, <1>3 DEF None, Entry, Status
  <2>2. /\ todo' = t1 /\ changed' = ch
        /\ \/ map' = mp /\ writes' = wr
           \/ /\ map' = PutBack(mp, t1)
              /\ writes' = Append(wr, Write(PutBack(mp, t1), FALSE, "periodic"))
    BY DEF TakesNext
  <2> HIDE DEF t1
  <2>3. Noted(PutBack(mp, t1)[m])
    BY <2>1 DEF PutBack
  <2>4. CASE map' = mp /\ writes' = wr
    BY <1>3, <2>2, <2>3, <2>4
  <2>5. CASE /\ map' = PutBack(mp, t1)
             /\ writes' = Append(wr, Write(PutBack(mp, t1), FALSE, "periodic"))
    <3> DEFINE mp1 == PutBack(mp, t1)
               w == Write(mp1, FALSE, "periodic")
    <3>1. mp1 \in [Msgs -> Entry] /\ PutBack(mp1, t1) = mp1 /\ Noted(mp1[m])
      BY <1>1, <2>1, <2>3, PutBackType, PutBackTwice
    <3>2. map' = mp1 /\ writes' = Append(wr, w) /\ w.file = FileOf(mp1)
      BY <2>5 DEF Write
    <3> HIDE DEF mp1, w
    <3>3. LastOf(writes', file)[m] \in Final
      <4>1. LastOf(writes', file) = FileOf(mp1)
        BY <1>1, <3>2, LastAppend
      <4>2. QED
        BY <3>1, <4>1, NotedFile
    <3>4. Noted(PutBack(map', todo')[m])
      BY <2>2, <3>1, <3>2
    <3>5. QED
      BY <1>3, <3>3, <3>4
  <2>6. QED
    BY <2>2, <2>4, <2>5
<1>4. QED
  BY <1>2, <1>3

\* What is to be fetched is not one to delete in the map.
LEMMA TakesNextCalm ==
  ASSUME NEW t, NEW mp, NEW ch \in BOOLEAN, NEW wr, NEW S0,
         GoodTodo(t, S0), GoodMap(mp, S0),
         NEW n, TakesNext(n, t, mp, ch, wr), topFailed \in BOOLEAN,
         Apart(t, mp)
  PROVE  /\ Apart(todo', map')
         /\ cur'.e.st \in {"b", "f"} => map'[cur'.msg].st # "d"
<1> DEFINE t1 == [t EXCEPT ![n] = None]
<1>1. n \in Msgs /\ t \in [Msgs -> Entry] /\ cur'.msg = n /\ cur'.e = t[n]
  <2>1. n \in Msgs /\ t \in [Msgs -> Entry]
    BY DEF TakesNext, Pending, GoodTodo, GoodMap
  <2>2. QED
    BY <2>1, TakesNextPlace
<1>2. /\ t1[n] = None /\ \A m \in Msgs : m # n => t1[m] = t[m]
      /\ None.st = "-"
  BY <1>1 DEF None
<1>3. todo' = t1 /\ (map' = mp \/ map' = PutBack(mp, t1))
  BY DEF TakesNext
<1> HIDE DEF t1
<1>4. CASE map' = mp
  BY <1>1, <1>2, <1>3, <1>4 DEF Apart
<1>5. CASE map' = PutBack(mp, t1)
  <2>1. \A m \in Msgs : map'[m] = IF t1[m] # None THEN t1[m] ELSE mp[m]
    BY <1>5 DEF PutBack
  <2>2. map'[n] = mp[n]
    BY <1>1, <1>2, <2>1
  <2>3. ASSUME NEW m \in Msgs, todo'[m].st \in {"b", "f"}
        PROVE  map'[m].st # "d"
    <3>1. t1[m].st \in {"b", "f"} /\ t1[m] # None
      BY <1>2, <1>3, <2>3
    <3>2. QED
      BY <2>1, <3>1
  <2>4. QED
    BY <1>1, <2>2, <2>3 DEF Apart
<1>6. QED
  BY <1>3, <1>4, <1>5

\* What a handler has done when it comes to _actionDone or _actionHandleMessage: only
\* messages that may go are to be deleted, and those it leaves on the server are
\* deleted or, for _actionDone after an error, go back as noted, or are noted.
SessionKept(wr) ==
    /\ req' = req /\ req.id \in Nat
    /\ dele' # {} => open'
    /\ dele' \subseteq Goes'
    /\ OnlyFile(popstate', Goes')
    /\ FromRuns(wr, marks', req.id)
    /\ \A m \in Msgs : bodies'[m] > 0 => m \in arrived'

OnlyWork(t, mp, wr) == OnlyMap(mp, Goes') /\ OnlyMap(t, Goes') /\ OnlyWrites(wr, Goes')

DoneNoted(status, c, t, mp, ch, wr) ==
    \A m \in Msgs : bodies'[m] > 0 /\ ~Excused(m)' =>
        /\ bodies'[m] <= 1
        /\ m \in mailbox' =>
             \/ m \in dele'
             \/ /\ prefs'.keep # "never"
                /\ LastOf(wr, popstate')[m] \in Final \/ ch
                /\ loaded' => IF ~status /\ c # NoCur /\ c.msg = m THEN Noted(c.e)
                              ELSE Noted(PutBack(mp, t)[m])

NextNoted(t, mp, ch, wr) ==
    \A m \in Msgs : bodies'[m] > 0 /\ ~Excused(m)' =>
        /\ bodies'[m] <= 1
        /\ m \in mailbox' =>
             \/ m \in dele'
             \/ /\ prefs'.keep # "never"
                /\ Noted(PutBack(mp, t)[m])
                /\ LastOf(wr, popstate')[m] \in Final \/ (ch /\ NoMark(wr))

NextCalm(t, mp, ch) ==
    marks' = 0 /\ prefs'.keep # "never" =>
        /\ Pending(t) # {} => ch
        /\ Apart(t, mp)

LEMMA EndsStored ==
  ASSUME NEW status \in BOOLEAN, NEW c, NEW t, NEW mp, NEW ch \in BOOLEAN, NEW wr, NEW S0,
         GoodWork(c, t, mp, wr, S0), Done(status, c, t, mp, ch, wr),
         ~loaded' => ~ch, SessionKept(wr), OnlyWork(t, mp, wr),
         c # NoCur /\ c.e.st = "d" => c.msg \in Goes',
         DoneNoted(status, c, t, mp, ch, wr)
  PROVE  SInv'
<1> DEFINE S == Goes'
           mk == marks'
<1>a. req.id <= req.id
  BY DEF SessionKept
<1>b. /\ OnlyMap(mp, S) /\ OnlyMap(t, S) /\ OnlyWrites(wr, S) /\ FromRuns(wr, mk, req.id)
      /\ c # NoCur /\ c.e.st = "d" => c.msg \in S
  BY DEF OnlyWork, SessionKept
<1> HIDE DEF S, mk
<1>1. /\ OnlyMap(map', S) /\ OnlyMap(todo', S) /\ OnlyWrites(writes', S)
      /\ FromRuns(writes', mk, req.id)
      /\ cur' = c /\ changed' = ch /\ pc' \in {"saving", "quit"}
  BY <1>a, <1>b, DoneOnly
<1>2. ~Handling' /\ ~Before' /\ pc' # "idle"
  BY <1>1 DEF Handling, Before
<1>3. AllSettled'
  <2> SUFFICES ASSUME NEW m \in Msgs, bodies'[m] > 0, ~Excused(m)'
               PROVE  Settled(m)'
    BY DEF AllSettled
  <2>1. CASE m \in mailbox' /\ m \notin dele'
    <3> DEFINE file == popstate'
    <3>1. /\ prefs'.keep # "never"
          /\ LastOf(wr, file)[m] \in Final \/ ch
          /\ loaded' => IF ~status /\ c # NoCur /\ c.msg = m THEN Noted(c.e)
                        ELSE Noted(PutBack(mp, t)[m])
      BY <2>1 DEF DoneNoted
    <3> HIDE DEF file
    <3>2. CASE loaded'
      <4>1. LastOf(writes', file)[m] \in Final /\ Noted(PutBack(map', todo')[m])
        BY <3>1, <3>2, DoneNotes
      <4>2. Kept(m)'
        BY <3>1, <4>1 DEF Kept, Recorded, file
      <4>3. QED
        BY <1>2, <4>2 DEF Settled, DoneNoted
    <3>3. CASE ~loaded'
      <4>1. writes' = wr /\ LastOf(wr, file)[m] \in Final
        BY <3>1, <3>3 DEF Done
      <4>2. Kept(m)'
        BY <3>1, <3>3, <4>1 DEF Kept, Recorded, file
      <4>3. QED
        BY <1>2, <4>2 DEF Settled, DoneNoted
    <3>4. QED
      BY <3>2, <3>3
  <2>2. CASE m \in mailbox' => m \in dele'
    BY <1>2, <2>2 DEF Settled, Leaving, DoneNoted
  <2>3. QED
    BY <2>1, <2>2
<1>4. NotAgain' /\ Calm'
  BY <1>2 DEF NotAgain, Calm
<1>5. OnlyAsked'
  BY <1>1, <1>b DEF OnlyAsked, OnlyMap, OnlyWrites, OnlyFile, SessionKept, S
<1>6. Session'
  BY <1>1, <1>2 DEF Session, SessionKept
<1>7. Writers'
  BY <1>1, <1>2 DEF Writers, FromRuns, SessionKept, mk
<1>8. QED
  BY <1>3, <1>4, <1>5, <1>6, <1>7 DEF SInv

LEMMA HandlesStored ==
  ASSUME IInv', NEW t, NEW mp, NEW ch \in BOOLEAN, NEW wr, NEW S0,
         GoodTodo(t, S0), GoodMap(mp, S0), GoodWrites(wr, S0),
         HandleMessage(t, mp, ch, wr), topFailed \in BOOLEAN,
         loaded', open', drop' = mailbox', \A m \in dele' : t[m] = None,
         SessionKept(wr), OnlyWork(t, mp, wr), NotEnded(wr, req.id),
         NextCalm(t, mp, ch), NextNoted(t, mp, ch, wr)
  PROVE  SInv'
<1>1. CASE \E status \in BOOLEAN : Done(status, NoCur, t, mp, ch, wr)
  <2> PICK status \in BOOLEAN : Done(status, NoCur, t, mp, ch, wr)
    BY <1>1
  <2>1. GoodWork(NoCur, t, mp, wr, S0)
    BY EmptyGood DEF GoodWork
  <2> DEFINE c == NoCur
  <2>2. c = NoCur
    OBVIOUS
  <2> HIDE DEF c
  <2>3. GoodWork(c, t, mp, wr, S0) /\ Done(status, c, t, mp, ch, wr)
    BY <2>1, <2>2
  <2>4. DoneNoted(status, c, t, mp, ch, wr)
    BY <2>2 DEF NextNoted, DoneNoted
  <2>5. QED
    BY <2>2, <2>3, <2>4, EndsStored
<1>2. ASSUME NEW n \in Pending(t), TakesNext(n, t, mp, ch, wr)
      PROVE  SInv'
  <2>1. /\ n \in Msgs /\ t[n] # None /\ t[n] \in Entry /\ t[n].st \in Orders
        /\ cur'.msg = n /\ cur'.e = t[n] /\ cur' # NoCur
        /\ \A m \in Msgs : todo'[m] = IF m = n THEN None ELSE t[m]
        /\ pc' \in {"top", "retr", "dele", "pause"}
        /\ pc' \in {"top", "retr"} => t[n].st \in {"b", "f"}
        /\ t[n].st = "d" => pc' \in {"dele", "pause"}
        /\ pc' = "dele" => t[n].st = "d"
    BY <1>2, TakesNextPlace
  <2>2. Handling' /\ ~Before' /\ pc' # "idle"
    BY <2>1 DEF Handling, Before
  <2>3. changed' = ch
    BY <1>2 DEF TakesNext
  <2>4. n \in mailbox' /\ n \notin dele' /\ dele' \subseteq Msgs
    BY <2>1, <2>2 DEF IInv, OnServer, TypeRest
  <2> DEFINE S == Goes'
             mk == marks'
  <2>a. req' = req /\ req.id <= req.id
    BY DEF SessionKept
  <2>b. OnlyMap(mp, S) /\ OnlyMap(t, S) /\ OnlyWrites(wr, S) /\ FromRuns(wr, mk, req.id)
    BY DEF OnlyWork, SessionKept
  <2> HIDE DEF S, mk
  <2>5. /\ OnlyMap(map', S) /\ OnlyMap(todo', S) /\ OnlyWrites(writes', S)
        /\ FromRuns(writes', mk, req.id) /\ NotEnded(writes', req.id)
        /\ cur'.e.st = "d" => cur'.msg \in S
    BY <1>2, <2>a, <2>b, TakesNextOnly
  <2>6. ASSUME NEW m \in Msgs, bodies'[m] > 0, ~Excused(m)'
        PROVE  Settled(m)'
    <3>1. bodies'[m] <= 1
      BY <2>6 DEF NextNoted
    <3>2. CASE m \in dele' \/ m \notin mailbox'
      BY <2>1, <2>4, <3>1, <3>2 DEF Settled, Leaving
    <3>3. CASE m \notin dele' /\ m \in mailbox'
      <4> DEFINE file == popstate'
      <4>1. /\ prefs'.keep # "never"
            /\ Noted(PutBack(mp, t)[m])
            /\ LastOf(wr, file)[m] \in Final \/ (ch /\ NoMark(wr))
        BY <2>6, <3>3 DEF NextNoted
      <4> HIDE DEF file
      <4>2. IF m = n THEN t[n] = Known("d")
            ELSE /\ LastOf(writes', file)[m] \in Final \/ (changed' /\ NoMark(writes'))
                 /\ Noted(PutBack(map', todo')[m])
        BY <1>2, <4>1, TakesNextNotes
      <4>3. CASE m = n
        <5>1. cur'.e = Known("d") /\ t[n].st = "d"
          BY <2>1, <4>2, <4>3 DEF Known
        <5>2. Leaving(m)'
          BY <2>1, <4>3, <5>1 DEF Leaving
        <5>3. QED
          BY <3>1, <5>1, <5>2 DEF Settled
      <4>4. CASE m # n
        <5>1. Kept(m)'
          BY <2>2, <4>1, <4>2, <4>4 DEF Kept, Recorded, file
        <5>2. QED
          BY <2>1, <3>1, <4>4, <5>1 DEF Settled
      <4>5. QED
        BY <4>3, <4>4
    <3>4. QED
      BY <3>2, <3>3
  <2>7. AllSettled'
    BY <2>6 DEF AllSettled
  <2>8. NotAgain'
    BY <2>1, <2>4 DEF NotAgain
  <2>9. Calm'
    <3> SUFFICES ASSUME marks' = 0, prefs'.keep # "never"
                 PROVE  /\ changed'
                        /\ Apart(todo', map')
                        /\ cur'.e.st \in {"b", "f"} => map'[cur'.msg].st # "d"
      BY DEF Calm, Apart
    <3>1. /\ Pending(t) # {} => ch
          /\ Apart(t, mp)
      BY DEF NextCalm
    <3>2. /\ Apart(todo', map')
          /\ cur'.e.st \in {"b", "f"} => map'[cur'.msg].st # "d"
      BY <1>2, <3>1, TakesNextCalm
    <3>3. QED
      BY <2>3, <3>1, <3>2
  <2>10. OnlyAsked'
    BY <2>1, <2>5 DEF OnlyAsked, OnlyMap, OnlyWrites, OnlyFile, SessionKept, S
  <2>11. Session'
    BY <2>2 DEF Session, SessionKept
  <2>12. Writers'
    BY <2>2, <2>5, <2>a DEF Writers, FromRuns, NotEnded, mk
  <2>13. QED
    BY <2>7, <2>8, <2>9, <2>10, <2>11, <2>12 DEF SInv
<1>3. QED
  BY <1>1, <1>2, HandleCases

\* Excuses last: failures, marks and requests for deletion are never forgotten.
LEMMA StaysExcused ==
  ASSUME IInv, prefs' = prefs, mishaps \subseteq mishaps', marks' \in {marks, marks + 1},
         NEW m \in Msgs, asked'[m] = asked[m] \/ asked'[m] = "filter", Excused(m)
  PROVE  Excused(m)'
<1>1. marks \in Nat
  BY Bounds DEF IInv, TypeRest
<1>2. marks > 0 => marks' > 0
  BY <1>1
<1>3. QED
  BY <1>2 DEF Excused

\* What the invariants say of a run that is under way.
LEMMA RunFacts ==
  ASSUME IInv, SInv, Intact, pc # "idle"
  PROVE  /\ AllSettled /\ NotAgain /\ OnlyAsked /\ Session /\ Calm /\ Writers
         /\ GoodWork(cur, todo, map, writes, Safe) /\ TypeRest /\ OnServer
         /\ req.id \in Nat /\ FromRuns(writes, marks, req.id)
  BY DEF SInv, IInv, TypeRest, Requests, Writers

\* A step that ends the run as it stands.
LEMMA FailStored ==
  ASSUME IInv, SInv, Intact, Before \/ Handling, NEW status \in BOOLEAN,
         Done(status, cur, todo, map, changed, writes),
         UNCHANGED <<prefs, arrived, mailbox, bodies, req, loaded, popstate, asked, marks>>,
         mishaps \subseteq mishaps', dele' \in {dele, {}}, dele' # {} => open',
         \A m \in Msgs : bodies[m] > 0 /\ ~Excused(m)' /\ Leaving(m) =>
             \/ m \in dele'
             \/ /\ ~status /\ cur # NoCur /\ cur.msg = m /\ prefs.keep # "never"
                /\ changed /\ Noted(cur.e)
  PROVE  SInv'
<1>1. pc # "idle"
  BY DEF Before, Handling
<1>2. /\ AllSettled /\ NotAgain /\ OnlyAsked /\ Session /\ Calm /\ Writers
      /\ GoodWork(cur, todo, map, writes, Safe) /\ TypeRest /\ OnServer
      /\ req.id \in Nat /\ FromRuns(writes, marks, req.id)
  BY <1>1, RunFacts
<1>3. Goes' = Goes
  BY DEF Goes
<1>4. SessionKept(writes)
  BY <1>2, <1>3 DEF SessionKept, OnlyAsked, Session
<1>5. OnlyWork(todo, map, writes) /\ (cur # NoCur /\ cur.e.st = "d" => cur.msg \in Goes')
  BY <1>2, <1>3 DEF OnlyWork, OnlyAsked
<1>6. DoneNoted(status, cur, todo, map, changed, writes)
  <2> SUFFICES ASSUME NEW m \in Msgs, bodies[m] > 0, ~Excused(m)'
               PROVE  /\ bodies[m] <= 1
                      /\ m \in mailbox =>
                           \/ m \in dele'
                           \/ /\ prefs.keep # "never"
                              /\ LastOf(writes, popstate)[m] \in Final \/ changed
                              /\ loaded => IF ~status /\ cur # NoCur /\ cur.msg = m
                                           THEN Noted(cur.e)
                                           ELSE Noted(PutBack(map, todo)[m])
    BY DEF DoneNoted
  <2>1. Settled(m)
    BY <1>2, StaysExcused DEF AllSettled
  <2>2. CASE Leaving(m) /\ m \notin dele'
    BY <2>1, <2>2 DEF Settled
  <2>3. CASE ~Leaving(m)
    <3>1. ~(cur # NoCur /\ cur.msg = m)
      BY <1>2, <2>1, <2>3 DEF Settled, Session
    <3>2. QED
      BY <2>1, <2>3, <3>1 DEF Settled, Kept, Recorded
  <2>4. QED
    BY <2>1, <2>2, <2>3 DEF Settled
<1>7. (~loaded' => ~changed) /\ changed \in BOOLEAN
  BY <1>2 DEF Session, TypeRest
<1>8. QED
  BY <1>2, <1>4, <1>5, <1>6, <1>7, EndsStored

\* Before the first message is handled nothing was deleted in the session.
LEMMA NoneLeaving ==
  ASSUME SInv, Intact, Before
  PROVE  \A m \in Msgs : ~Leaving(m)
  BY DEF SInv, Session, Before, Leaving

LEMMA ConnectFailsStored ==
  ASSUME IInv, SInv, ConnectFails
  PROVE  SInv'
<1> SUFFICES ASSUME Intact'
             PROVE  SInv'
  BY DEF SInv
<1>1. /\ pc = "connect" /\ Done(FALSE, cur, todo, map, changed, writes)
      /\ UNCHANGED <<prefs, server, folder, runs, ghosts, login, popstate, open, topFailed>>
  BY DEF ConnectFails, Fail
<1>2. Intact /\ Before
  BY <1>1 DEF Intact, ghosts, Before
<1>3. /\ UNCHANGED <<prefs, arrived, mailbox, bodies, req, loaded, popstate, asked, marks>>
      /\ mishaps \subseteq mishaps' /\ dele' = dele /\ open' = open
  BY <1>1 DEF server, folder, runs, ghosts
<1>4. dele' # {} => open'
  BY <1>2, <1>3 DEF SInv, Session
<1>5. QED
  BY <1>1, <1>2, <1>3, <1>4, NoneLeaving, FailStored

LEMMA StoreFailsStored ==
  ASSUME IInv, SInv, StoreFails
  PROVE  SInv'
<1> SUFFICES ASSUME Intact'
             PROVE  SInv'
  BY DEF SInv
<1>1. /\ pc \in {"top", "retr"} /\ Done(FALSE, cur, todo, map, changed, writes)
      /\ UNCHANGED <<prefs, server, folder, runs, ghosts, login, popstate, open, topFailed>>
  BY DEF StoreFails, Fail
<1>2. Intact /\ Handling
  BY <1>1 DEF Intact, ghosts, Handling
<1>3. /\ UNCHANGED <<prefs, arrived, mailbox, bodies, req, loaded, popstate, asked, marks>>
      /\ mishaps \subseteq mishaps' /\ dele' = dele /\ open' = open
  BY <1>1 DEF server, folder, runs, ghosts
<1>4. (dele' # {} => open') /\ \A m \in Msgs : Leaving(m) => m \in dele'
  BY <1>1, <1>2, <1>3 DEF SInv, Session, Leaving
<1>5. QED
  BY <1>1, <1>2, <1>3, <1>4, FailStored

LEMMA RefusedStored ==
  ASSUME IInv, SInv, Refused
  PROVE  SInv'
<1> SUFFICES ASSUME Intact'
             PROVE  SInv'
  BY DEF SInv
<1>1. /\ pc \in {"stat", "list", "uidl", "retr", "dele"}
      /\ Done(FALSE, cur, todo, map, changed, writes)
      /\ mishaps' = mishaps \cup {"err"}
      /\ UNCHANGED <<prefs, server, folder, runs, asked, marks, login, popstate, open,
                     topFailed>>
  BY DEF Refused, Fail
<1>2. Intact /\ (Before \/ Handling)
  BY <1>1 DEF Intact, Before, Handling
<1>3. /\ UNCHANGED <<prefs, arrived, mailbox, bodies, req, loaded, popstate, asked, marks>>
      /\ mishaps \subseteq mishaps' /\ dele' = dele /\ open' = open
  BY <1>1 DEF server, folder, runs
<1>4. dele' # {} => open'
  BY <1>2, <1>3 DEF SInv, Session
<1>5. pc # "idle"
  BY <1>1
<1>6. /\ AllSettled /\ NotAgain /\ OnlyAsked /\ Session /\ Calm /\ Writers
      /\ GoodWork(cur, todo, map, writes, Safe) /\ TypeRest /\ OnServer
      /\ req.id \in Nat /\ FromRuns(writes, marks, req.id)
  BY <1>2, <1>5, RunFacts
<1>7. ASSUME NEW m \in Msgs, bodies[m] > 0, ~Excused(m)', Leaving(m), m \notin dele'
      PROVE  /\ cur # NoCur /\ cur.msg = m /\ prefs.keep # "never"
             /\ changed /\ Noted(cur.e)
  <2>1. Handling /\ cur.msg = m /\ cur # NoCur
    BY <1>1, <1>3, <1>6, <1>7 DEF Leaving, Handling, OnServer
  <2>2. marks \in Nat
    BY <1>6, Bounds DEF TypeRest
  <2>3. prefs.keep # "never" /\ marks = 0
    BY <1>1, <1>3, <1>7, <2>2 DEF Excused
  <2>4. Settled(m)
    BY <1>3, <1>6, <1>7, StaysExcused DEF AllSettled
  <2>5. cur.e = Known("d") /\ changed
    BY <1>6, <2>1, <2>3, <2>4 DEF Settled, Calm
  <2>6. QED
    BY <2>1, <2>3, <2>5 DEF Noted, Known, Final
<1>8. QED
  BY <1>1, <1>2, <1>3, <1>4, <1>7, FailStored

LEMMA LostStored ==
  ASSUME IInv, SInv, NEW status \in BOOLEAN, Lost(status)
  PROVE  SInv'
<1> SUFFICES ASSUME Intact'
             PROVE  SInv'
  BY DEF SInv
<1>1. /\ Working /\ Done(status, cur, todo, map, changed, writes)
      /\ mishaps' = mishaps \cup {"cut"} /\ dele' = {}
      /\ UNCHANGED <<prefs, arrived, mailbox, drop, folder, runs, asked, marks, login,
                     popstate, topFailed>>
  BY DEF Lost
<1>2. Intact /\ (Before \/ Handling) /\ pc # "idle"
  BY <1>1 DEF Intact, Before, Handling, Working
<1>3. /\ UNCHANGED <<prefs, arrived, mailbox, bodies, req, loaded, popstate, asked, marks>>
      /\ mishaps \subseteq mishaps'
  BY <1>1 DEF folder, runs
<1>4. OnlyAsked /\ TypeRest /\ OnServer
  BY <1>2, RunFacts
<1>5. ASSUME NEW m \in Msgs, Leaving(m)
      PROVE  Excused(m)'
  <2>1. m \in Goes
    BY <1>4, <1>5 DEF OnlyAsked, Leaving, OnServer, Handling
  <2>2. asked[m] \in {"no", "user", "filter"}
    BY <1>4 DEF TypeRest
  <2>3. QED
    BY <1>1, <1>3, <2>1, <2>2 DEF Goes, Excused
<1>6. QED
  BY <1>1, <1>2, <1>3, <1>5, FailStored

\* A step of the login or of the replies before the first message, which leaves the
\* run's work alone.
LEMMA BeforeStored ==
  ASSUME IInv, SInv, Intact, Before, pc' \in {"connect", "auth", "stat", "list", "uidl"},
         UNCHANGED <<prefs, bodies, req, loaded, popstate, dele, work>>,
         UNCHANGED ghosts,
         arrived \subseteq arrived',
         \A m \in Msgs : bodies[m] > 0 /\ m \in mailbox' => m \in mailbox,
         pc' \in {"stat", "list", "uidl"} => drop' = mailbox' /\ loaded /\ open',
         pc' = "auth" => loaded /\ open'
  PROVE  SInv'
<1>1. pc # "idle" /\ ~Handling /\ Before' /\ ~Handling' /\ pc' # "idle"
  BY DEF Before, Handling
<1>2. /\ AllSettled /\ NotAgain /\ OnlyAsked /\ Session /\ Calm /\ Writers
      /\ FromRuns(writes, marks, req.id)
  BY <1>1, RunFacts
<1>3. /\ Goes' = Goes /\ dele' = {} /\ dele = {}
      /\ map' = map /\ todo' = todo /\ cur' = cur /\ writes' = writes /\ changed' = changed
      /\ asked' = asked /\ marks' = marks /\ mishaps' = mishaps
  BY <1>2 DEF Goes, ghosts, work, Session
<1>4. AllSettled'
  <2> SUFFICES ASSUME NEW m \in Msgs, bodies'[m] > 0, ~Excused(m)'
               PROVE  Settled(m)'
    BY DEF AllSettled
  <2>1. ~Excused(m) /\ bodies[m] > 0
    BY <1>3 DEF Excused
  <2>2. Settled(m) /\ ~Leaving(m)
    BY <1>2, <2>1, NoneLeaving DEF AllSettled
  <2>3. m \in mailbox' => Kept(m)
    BY <2>1, <2>2 DEF Settled
  <2>4. Kept(m) => Kept(m)'
    BY <1>1, <1>3 DEF Kept, Recorded
  <2>5. QED
    BY <1>1, <2>2, <2>3, <2>4 DEF Settled
<1>5. NotAgain' /\ Calm'
  BY <1>1 DEF NotAgain, Calm
<1>6. OnlyAsked'
  BY <1>1, <1>2, <1>3 DEF OnlyAsked, OnlyMap, OnlyWrites, OnlyFile, Before
<1>7. Session'
  BY <1>1, <1>2, <1>3 DEF Session
<1>8. Writers'
  BY <1>1, <1>2, <1>3 DEF Writers, FromRuns, NotEnded
<1>9. QED
  BY <1>4, <1>5, <1>6, <1>7, <1>8 DEF SInv

LEMMA AuthAcceptedStored ==
  ASSUME IInv, SInv, AuthAccepted
  PROVE  SInv'
<1> SUFFICES ASSUME Intact'
             PROVE  SInv'
  BY DEF SInv
<1>1. /\ pc = "auth" /\ pc' = "stat" /\ drop' = mailbox
      /\ UNCHANGED <<prefs, arrived, mailbox, dele, folder, runs, ghosts, login, work,
                     popstate, open, topFailed>>
  BY DEF AuthAccepted
<1>2. Intact /\ Before
  BY <1>1 DEF Intact, ghosts, Before
<1>3. loaded /\ open'
  BY <1>1, <1>2 DEF SInv, Session
<1>4. QED
  BY <1>1, <1>2, <1>3, BeforeStored DEF folder, runs

LEMMA AuthRejectedStored ==
  ASSUME IInv, SInv, NEW stays \in BOOLEAN, AuthRejected(stays)
  PROVE  SInv'
<1> SUFFICES ASSUME Intact'
             PROVE  SInv'
  BY DEF SInv
<1>1. /\ pc = "auth"
      /\ UNCHANGED <<prefs, server, folder, runs, ghosts, popstate, topFailed>>
      /\ \/ pc' \in {"auth", "connect"} /\ UNCHANGED work /\ (pc' = "auth" => open')
         \/ Fail
  BY DEF AuthRejected
<1>2. Intact /\ Before
  BY <1>1 DEF Intact, ghosts, Before
<1>3. loaded /\ dele = {}
  BY <1>1, <1>2 DEF SInv, Session
<1>4. /\ UNCHANGED <<prefs, arrived, mailbox, bodies, req, loaded, popstate, asked, marks>>
      /\ mishaps \subseteq mishaps' /\ dele' = dele
  BY <1>1 DEF server, folder, runs, ghosts
<1>5. CASE Fail
  <2>1. Done(FALSE, cur, todo, map, changed, writes)
    BY <1>5 DEF Fail
  <2>2. dele' # {} => open'
    BY <1>3, <1>4
  <2>3. QED
    BY <1>2, <1>4, <2>1, <2>2, NoneLeaving, FailStored
<1>6. CASE pc' \in {"auth", "connect"} /\ UNCHANGED work /\ (pc' = "auth" => open')
  BY <1>1, <1>2, <1>3, <1>4, <1>6, BeforeStored
<1>7. QED
  BY <1>1, <1>5, <1>6

LEMMA ListReplyStored ==
  ASSUME IInv, SInv, ListReply
  PROVE  SInv'
<1> SUFFICES ASSUME Intact'
             PROVE  SInv'
  BY DEF SInv
<1>1. /\ pc = "list" /\ pc' = "uidl"
      /\ UNCHANGED <<prefs, server, folder, runs, ghosts, login, work, popstate, open,
                     topFailed>>
  BY DEF ListReply
<1>2. Intact /\ Before
  BY <1>1 DEF Intact, ghosts, Before
<1>3. loaded /\ drop' = mailbox' /\ open'
  BY <1>1, <1>2 DEF SInv, Session, server
<1>4. QED
  BY <1>1, <1>2, <1>3, BeforeStored DEF server, folder, runs

LEMMA DeliverStored ==
  ASSUME IInv, SInv, NEW n \in Msgs, Deliver(n)
  PROVE  SInv'
<1> SUFFICES ASSUME Intact'
             PROVE  SInv'
  BY DEF SInv
<1>1. /\ pc = "auth" /\ n \notin arrived /\ pc' = pc
      /\ arrived' = arrived \cup {n} /\ mailbox' = mailbox \cup {n}
      /\ UNCHANGED <<prefs, drop, dele, folder, runs, ghosts, login, work, popstate, pc,
                     open, topFailed>>
  BY DEF Deliver
<1>2. Intact /\ Before
  BY <1>1 DEF Intact, ghosts, Before
<1>3. loaded /\ open' /\ ~(bodies[n] > 0)
  BY <1>1, <1>2 DEF SInv, Session
<1>4. QED
  BY <1>1, <1>2, <1>3, BeforeStored DEF folder, runs

\* With an empty mailbox, or with nothing to fetch, STAT ends the run.
LEMMA StatReplyStored ==
  ASSUME IInv, SInv, StatReply
  PROVE  SInv'
<1> SUFFICES ASSUME Intact'
             PROVE  SInv'
  BY DEF SInv
<1>1. /\ pc = "stat"
      /\ UNCHANGED <<prefs, server, bodies, runs, ghosts, login, popstate, open, topFailed>>
      /\ \/ drop = {} /\ Done(TRUE, cur, todo, Empty, changed \/ map # Empty, writes)
         \/ \E status \in BOOLEAN : Done(status, cur, todo, map, changed, writes)
         \/ pc' = "list" /\ UNCHANGED work
  BY DEF StatReply, Fail
<1>2. Intact /\ Before /\ pc # "idle"
  BY <1>1 DEF Intact, ghosts, Before
<1>3. /\ AllSettled /\ NotAgain /\ OnlyAsked /\ Session /\ Calm /\ Writers
      /\ GoodWork(cur, todo, map, writes, Safe) /\ TypeRest /\ OnServer
      /\ req.id \in Nat /\ FromRuns(writes, marks, req.id)
  BY <1>2, RunFacts
<1>4. /\ UNCHANGED <<prefs, arrived, mailbox, bodies, req, loaded, popstate, asked, marks>>
      /\ mishaps \subseteq mishaps' /\ dele' = dele /\ open' = open /\ drop' = drop
  BY <1>1 DEF server, runs, ghosts
<1>5. loaded /\ open /\ dele = {} /\ drop = mailbox
  BY <1>1, <1>2, <1>3 DEF Session
<1>6. CASE drop = {} /\ Done(TRUE, cur, todo, Empty, changed \/ map # Empty, writes)
  <2> DEFINE mp == Empty
             ch == changed \/ map # Empty
  <2>1. Goes' = Goes
    BY <1>4 DEF Goes
  <2>2. SessionKept(writes)
    BY <1>3, <1>4, <1>5, <2>1 DEF SessionKept, OnlyAsked, Session
  <2>3. OnlyWork(todo, mp, writes) /\ (cur # NoCur /\ cur.e.st = "d" => cur.msg \in Goes')
    BY <1>3, <2>1 DEF OnlyWork, OnlyAsked, OnlyMap, Empty, None
  <2>4. DoneNoted(TRUE, cur, todo, mp, ch, writes)
    <3> SUFFICES ASSUME NEW m \in Msgs, bodies[m] > 0, ~Excused(m)'
                 PROVE  bodies[m] <= 1 /\ m \notin mailbox
      BY <1>4 DEF DoneNoted
    <3>1. ~Excused(m)
      BY <1>1, <1>4 DEF Excused, ghosts
    <3>2. QED
      BY <1>3, <1>5, <1>6, <3>1 DEF AllSettled, Settled
  <2>5. GoodWork(cur, todo, mp, writes, Safe)
    BY <1>3, EmptyGood DEF GoodWork
  <2>6. ch \in BOOLEAN /\ loaded' /\ Done(TRUE, cur, todo, mp, ch, writes)
    BY <1>3, <1>4, <1>5, <1>6 DEF TypeRest
  <2> HIDE DEF mp, ch
  <2>7. QED
    BY <2>2, <2>3, <2>4, <2>5, <2>6, EndsStored
<1>7. CASE \E status \in BOOLEAN : Done(status, cur, todo, map, changed, writes)
  BY <1>2, <1>4, <1>5, <1>7, NoneLeaving, FailStored
<1>8. CASE pc' = "list" /\ UNCHANGED work
  BY <1>1, <1>2, <1>4, <1>5, <1>8, BeforeStored
<1>9. QED
  BY <1>1, <1>6, <1>7, <1>8

\* The map that is read from popstate.dat notes what the file knows.
LEMMA ConnectStored ==
  ASSUME IInv, SInv, Connect
  PROVE  SInv'
<1> SUFFICES ASSUME Intact'
             PROVE  SInv'
  BY DEF SInv
<1> DEFINE mp == Load(popstate)
<1>1. /\ pc = "connect" /\ writes = <<>> /\ loaded' = TRUE /\ open' = TRUE
      /\ UNCHANGED <<prefs, server, folder, queue, issued, answered, req, ghosts, login,
                     popstate, topFailed>>
      /\ \/ /\ req.kind # "body" /\ map' = mp /\ pc' = "auth"
            /\ UNCHANGED <<changed, todo, cur, writes, ok>>
         \/ /\ req.kind = "body" /\ mp[req.uidl].st = "b"
            /\ map' = [mp EXCEPT ![req.uidl].st = "f"] /\ pc' = "auth"
            /\ UNCHANGED <<changed, todo, cur, writes, ok>>
         \/ /\ req.kind = "body" /\ mp[req.uidl].st # "b"
            /\ Done(FALSE, cur, todo, mp, FALSE, writes)
  BY DEF Connect
<1>2. Intact /\ Before /\ pc # "idle"
  BY <1>1 DEF Intact, ghosts, Before
<1>3. /\ AllSettled /\ NotAgain /\ OnlyAsked /\ Session /\ Calm /\ Writers
      /\ GoodWork(cur, todo, map, writes, Safe) /\ TypeRest /\ OnServer
      /\ req.id \in Nat /\ FromRuns(writes, marks, req.id) /\ GoodFile(popstate, Safe)
  BY <1>2, RunFacts DEF IInv, SafeServer
<1>4. /\ dele' = dele /\ dele = {} /\ todo = Empty /\ cur = NoCur /\ ~Handling
      /\ UNCHANGED <<arrived, mailbox, drop, bodies, asked, marks, mishaps>>
  BY <1>1, <1>2, <1>3 DEF server, folder, ghosts, Session, Handling
<1>5. Goes' = Goes
  BY <1>1, <1>4 DEF Goes
<1>6. GoodMap(mp, Safe) /\ mp \in [Msgs -> Entry] /\ OnlyMap(mp, Goes)
  <2>1. \A m \in Msgs : popstate[m] \in Status
    BY <1>3 DEF GoodFile
  <2>2. OnlyMap(mp, Goes)
    BY <1>3 DEF OnlyAsked, OnlyMap, OnlyFile, Load, None, Known
  <2>3. QED
    BY <1>3, <2>2, LoadGood DEF GoodMap
<1>7. \A m \in Msgs : popstate[m] \in Final =>
        mp[m] = Known(popstate[m]) /\ Noted(mp[m])
  BY DEF Load, Known, Noted, Final
<1>8. ASSUME NEW m \in Msgs, bodies'[m] > 0, ~Excused(m)'
      PROVE  /\ bodies'[m] <= 1
             /\ m \in mailbox' => /\ prefs'.keep # "never" /\ popstate[m] \in Final
                                  /\ Noted(mp[m])
  <2>1. ~Excused(m)
    BY <1>1, <1>4, <1>8 DEF Excused
  <2>2. Settled(m) /\ ~Leaving(m)
    BY <1>2, <1>3, <1>4, <1>8, <2>1, NoneLeaving DEF AllSettled
  <2>3. m \in mailbox => prefs.keep # "never" /\ popstate[m] \in Final
    BY <1>1, <1>4, <2>2 DEF Settled, Kept, Recorded, LastOf
  <2>4. QED
    BY <1>1, <1>4, <1>7, <2>2, <2>3 DEF Settled
<1> HIDE DEF mp
<1>9. CASE Done(FALSE, cur, todo, mp, FALSE, writes)
  <2>1. GoodWork(cur, todo, mp, writes, Safe)
    BY <1>3, <1>6 DEF GoodWork
  <2>2. SessionKept(writes)
    BY <1>1, <1>3, <1>4, <1>5 DEF SessionKept, OnlyAsked, Session
  <2>3. OnlyWork(todo, mp, writes) /\ (cur # NoCur /\ cur.e.st = "d" => cur.msg \in Goes')
    BY <1>3, <1>4, <1>5, <1>6 DEF OnlyWork, OnlyAsked
  <2>4. \A m \in Msgs : PutBack(mp, todo)[m] = mp[m]
    BY <1>4 DEF PutBack, Empty
  <2>5. DoneNoted(FALSE, cur, todo, mp, FALSE, writes)
    <3> DEFINE c == cur
               no == FALSE
    <3>1. c = NoCur
      BY <1>4
    <3>2. \A m \in Msgs : bodies'[m] > 0 /\ ~Excused(m)' =>
             /\ bodies'[m] <= 1
             /\ m \in mailbox' => /\ prefs'.keep # "never"
                                  /\ LastOf(writes, popstate')[m] \in Final
                                  /\ Noted(PutBack(mp, todo)[m])
      BY <1>1, <1>8, <2>4 DEF LastOf
    <3>3. QED
      BY <3>1, <3>2 DEF DoneNoted
  <2>6. QED
    BY <1>9, <2>1, <2>2, <2>3, <2>5, EndsStored
<1>10. CASE /\ pc' = "auth" /\ UNCHANGED <<changed, todo, cur, writes, ok>>
            /\ map' = mp \/ (mp[req.uidl].st = "b" /\ map' = [mp EXCEPT ![req.uidl].st = "f"])
  <2>1. ASSUME NEW m \in Msgs
        PROVE  (Noted(mp[m]) => Noted(map'[m])) /\ (map'[m].st = "d" => mp[m].st = "d")
    <3>1. CASE map' = mp
      BY <3>1
    <3>2. CASE mp[req.uidl].st = "b" /\ map' = [mp EXCEPT ![req.uidl].st = "f"]
      <4>1. CASE m = req.uidl
        BY <1>6, <3>2, <4>1 DEF Noted, Final, Entry
      <4>2. CASE m # req.uidl
        BY <1>6, <3>2, <4>2
      <4>3. QED
        BY <4>1, <4>2
    <3>3. QED
      BY <1>10, <3>1, <3>2
  <2>2. Before' /\ ~Handling' /\ pc' # "idle"
    BY <1>10 DEF Before, Handling
  <2>3. AllSettled'
    <3> SUFFICES ASSUME NEW m \in Msgs, bodies'[m] > 0, ~Excused(m)'
                 PROVE  Settled(m)'
      BY DEF AllSettled
    <3>1. m \in mailbox' => Kept(m)'
      <4>1. PutBack(map', todo')[m] = map'[m]
        BY <1>4, <1>10 DEF PutBack, Empty
      <4>2. LastOf(writes', popstate') = popstate
        BY <1>1, <1>10 DEF LastOf
      <4>3. QED
        BY <1>8, <2>1, <4>1, <4>2 DEF Kept, Recorded
    <3>2. QED
      BY <1>8, <2>2, <3>1 DEF Settled
  <2>4. NotAgain' /\ Calm'
    BY <2>2 DEF NotAgain, Calm
  <2>5. OnlyAsked'
    <3>1. OnlyMap(map', Goes)
      BY <1>6, <2>1 DEF OnlyMap
    <3>2. QED
      BY <1>1, <1>3, <1>4, <1>5, <1>10, <3>1
         DEF OnlyAsked, OnlyMap, OnlyWrites, OnlyFile
  <2>6. Session'
    BY <1>1, <1>3, <1>4, <1>10, <2>2 DEF Session
  <2>7. Writers'
    BY <1>1, <1>10 DEF Writers, FromRuns, NotEnded
  <2>8. QED
    BY <2>3, <2>4, <2>5, <2>6, <2>7 DEF SInv
<1>11. QED
  BY <1>1, <1>9, <1>10

\* _actionUidlResponse orders no message again that is noted.
LEMMA ToHandleNoted ==
  ASSUME map \in [Msgs -> Entry], NEW m \in Msgs, NEW old \in BOOLEAN
  PROVE  /\ Noted(map[m]) => ToHandle(m, old) = None \/ Noted(ToHandle(m, old))
         /\ ToHandle(m, old).st = "d" => map[m].st = "d" \/ prefs.keep = "never" \/ old
         /\ ToHandle(m, old).st \in {"b", "f"} => map[m].st \in {"-", "f"}
<1> DEFINE rule == UidlRule(map[m], old)
<1>1. map[m] \in Entry
  OBVIOUS
<1>2. /\ rule \in {"new", "d", "f", "-"}
      /\ map[m].st \in Final => rule \in {"d", "-"}
      /\ rule = "d" => map[m].st = "d" \/ prefs.keep = "never" \/ old
      /\ rule \in {"new", "f"} => map[m].st \in {"-", "f"}
  BY <1>1 DEF UidlRule, Final, Entry, Status
<1>3. ToHandle(m, old) =
        IF m \notin drop \/ rule = "-" THEN None
        ELSE IF rule = "new" THEN Fresh(IF prefs.limit /\ m \in Big THEN "b" ELSE "f")
        ELSE [map[m] EXCEPT !.st = rule]
  BY DEF ToHandle
<1> HIDE DEF rule
<1>4. [map[m] EXCEPT !.st = rule] = [st |-> rule, dated |-> map[m].dated]
  BY <1>1 DEF Entry
<1>5. QED
  BY <1>2, <1>3, <1>4 DEF None, Fresh, Noted, Final

LEMMA UidlReplyStored ==
  ASSUME IInv, IInv', SInv, NEW Old \in SUBSET Msgs, UidlReply(Old)
  PROVE  SInv'
<1> SUFFICES ASSUME Intact'
             PROVE  SInv'
  BY DEF SInv
<1> DEFINE all == [m \in Msgs |-> ToHandle(m, m \in Old)]
           single == req.kind = "body"
           t == IF single THEN [m \in Msgs |-> IF m = req.uidl THEN all[m] ELSE None]
                ELSE all
           mp == IF single THEN map ELSE Remembered(all)
           ch == \/ Pending(t) # {}
                 \/ Cardinality(Pending(map)) # Cardinality(Pending(mp))
<1>1. /\ pc = "uidl" /\ (Old # {} => prefs.keep = "days")
      /\ UNCHANGED <<prefs, server, bodies, runs, ghosts, login, popstate, open, topFailed>>
  BY DEF UidlReply
<1>2. Intact /\ Before /\ pc # "idle"
  BY <1>1 DEF Intact, ghosts, Before
<1>3. /\ AllSettled /\ NotAgain /\ OnlyAsked /\ Session /\ Calm /\ Writers
      /\ GoodWork(cur, todo, map, writes, Safe) /\ TypeRest /\ OnServer
      /\ req.id \in Nat /\ FromRuns(writes, marks, req.id)
  BY <1>2, RunFacts
<1>4. /\ loaded /\ open /\ dele = {} /\ drop = mailbox /\ todo = Empty /\ cur = NoCur
      /\ NotEnded(writes, req.id)
  BY <1>1, <1>2, <1>3 DEF Session, Writers
<1>5. /\ Goes' = Goes
      /\ UNCHANGED <<arrived, mailbox, drop, dele, req, loaded, asked, marks, mishaps>>
  BY <1>1 DEF Goes, server, runs, ghosts
<1>6. map \in [Msgs -> Entry] /\ GoodMap(map, Safe) /\ GoodWrites(writes, Safe)
  BY <1>3 DEF GoodWork, GoodMap
<1>7. ASSUME NEW m \in Msgs
      PROVE  /\ all[m] \in Entry /\ (all[m].st \in Final => m \in Safe)
             /\ all[m] # None => all[m].st \in Orders
             /\ Noted(map[m]) => all[m] = None \/ Noted(all[m])
             /\ all[m].st = "d" => m \in Goes
             /\ all[m].st \in {"b", "f"} => map[m].st \in {"-", "f"}
  <2> DEFINE old == m \in Old
  <2>1. old \in BOOLEAN /\ all[m] = ToHandle(m, old) /\ (old => prefs.keep = "days")
    BY <1>1
  <2> HIDE DEF old, all
  <2>2. /\ all[m] \in Entry /\ (all[m].st \in Final => m \in Safe)
        /\ all[m] # None => all[m].st \in Orders
    BY <1>3, <1>6, <2>1, ToHandleGood DEF TypeRest
  <2>3. /\ Noted(map[m]) => all[m] = None \/ Noted(all[m])
        /\ all[m].st = "d" => map[m].st = "d" \/ prefs.keep = "never" \/ old
        /\ all[m].st \in {"b", "f"} => map[m].st \in {"-", "f"}
    BY <1>6, <2>1, ToHandleNoted
  <2>4. all[m].st = "d" => m \in Goes
    BY <1>3, <2>1, <2>3 DEF OnlyAsked, OnlyMap, Goes
  <2>5. QED
    BY <2>2, <2>3, <2>4
<1>8. all \in [Msgs -> Entry]
  BY <1>7
<1> HIDE DEF all
<1>9. \A m \in Msgs : t[m] = all[m] \/ t[m] = None
  OBVIOUS
<1>10. None \in Entry /\ None.st = "-"
  BY DEF None, Entry, Status
<1>11. /\ GoodTodo(all, Safe) /\ GoodTodo(t, Safe) /\ GoodMap(mp, Safe)
       /\ OnlyMap(all, Goes) /\ OnlyMap(t, Goes) /\ OnlyMap(mp, Goes)
  <2>1. GoodTodo(all, Safe) /\ OnlyMap(all, Goes)
    BY <1>7, <1>8 DEF GoodTodo, GoodMap, OnlyMap
  <2>2. GoodTodo(t, Safe) /\ OnlyMap(t, Goes)
    BY <1>7, <1>8, <1>9, <1>10, <2>1 DEF GoodTodo, GoodMap, OnlyMap, Final
  <2>3. GoodMap(mp, Safe) /\ OnlyMap(mp, Goes)
    BY <1>3, <1>6, <1>10 DEF GoodMap, OnlyMap, OnlyAsked, Remembered, Final
  <2>4. QED
    BY <2>1, <2>2, <2>3
<1>12. ASSUME NEW m \in Msgs, bodies'[m] > 0, ~Excused(m)'
       PROVE  /\ bodies'[m] <= 1
              /\ m \in mailbox' => /\ prefs'.keep # "never"
                                   /\ LastOf(writes, popstate')[m] \in Final
                                   /\ Noted(map[m])
  <2>1. ~Excused(m)
    BY <1>1, <1>5, <1>12 DEF Excused
  <2>2. Settled(m) /\ ~Leaving(m)
    BY <1>1, <1>2, <1>3, <1>12, <2>1, NoneLeaving DEF AllSettled
  <2>3. PutBack(map, todo)[m] = map[m]
    BY <1>4 DEF PutBack, Empty
  <2>4. ~Handling
    BY <1>1 DEF Handling
  <2>5. QED
    BY <1>1, <1>4, <1>5, <2>2, <2>3, <2>4 DEF Settled, Kept, Recorded
<1>13. \A m \in Msgs : all[m] # None => m \in drop
  BY DEF all, ToHandle
<1>14. ASSUME NEW m \in Msgs, Noted(map[m]), m \in mailbox
       PROVE  /\ Noted(PutBack(map, all)[m]) /\ Noted(PutBack(map, t)[m])
              /\ Noted(PutBack(mp, t)[m])
  <2>1. Noted(PutBack(map, all)[m]) /\ Noted(PutBack(map, t)[m])
    BY <1>7, <1>9, <1>14 DEF PutBack
  <2>2. CASE single
    BY <2>1, <2>2
  <2>3. CASE ~single
    <3>1. mp[m] = IF all[m] = None THEN map[m] ELSE None
      BY <1>4, <1>14, <2>3 DEF Remembered
    <3>2. t = all
      BY <2>3
    <3> HIDE DEF mp, t
    <3>3. QED
      BY <1>7, <1>14, <3>1, <3>2 DEF PutBack
  <2>4. QED
    BY <2>1, <2>2, <2>3
<1>15. Apart(t, mp)
  <2> SUFFICES ASSUME NEW m \in Msgs, t[m].st \in {"b", "f"}
               PROVE  mp[m].st # "d"
    BY DEF Apart
  <2>1. t[m] = all[m] /\ all[m] # None /\ map[m].st \in {"-", "f"}
    BY <1>7, <1>9, <1>10
  <2>2. mp[m] = map[m] \/ mp[m] = None
    BY DEF Remembered
  <2>3. QED
    BY <1>10, <2>1, <2>2
<1>16. ch \in BOOLEAN /\ (Pending(t) # {} => ch)
  OBVIOUS
<1> HIDE DEF t, mp, ch, single
<1>17. SessionKept(writes)
  BY <1>1, <1>3, <1>4, <1>5 DEF SessionKept, OnlyAsked, Session
<1>18. ASSUME NEW status \in BOOLEAN, NEW t1 \in {all, t},
              Done(status, cur, t1, map, changed, writes)
       PROVE  SInv'
  <2>1. GoodWork(cur, t1, map, writes, Safe)
    BY <1>3, <1>11 DEF GoodWork
  <2>2. OnlyWork(t1, map, writes)
    BY <1>3, <1>5, <1>11 DEF OnlyWork, OnlyAsked
  <2>3. DoneNoted(status, cur, t1, map, changed, writes)
    <3> SUFFICES ASSUME NEW m \in Msgs, bodies'[m] > 0, ~Excused(m)'
                 PROVE  /\ bodies'[m] <= 1
                        /\ m \in mailbox' => /\ prefs'.keep # "never"
                                             /\ LastOf(writes, popstate')[m] \in Final
                                             /\ Noted(PutBack(map, t1)[m])
      BY <1>4 DEF DoneNoted
    <3>1. QED
      BY <1>5, <1>12, <1>14
  <2>4. (~loaded' => ~changed) /\ (cur # NoCur /\ cur.e.st = "d" => cur.msg \in Goes')
    BY <1>4, <1>5
  <2>5. changed \in BOOLEAN
    BY <1>3 DEF TypeRest
  <2>6. QED
    BY <1>17, <1>18, <2>1, <2>2, <2>3, <2>4, <2>5, EndsStored
<1>19. CASE HandleMessage(t, mp, ch, writes)
  <2>1. loaded' /\ open' /\ drop' = mailbox' /\ \A m \in dele' : t[m] = None
    BY <1>1, <1>4, <1>5
  <2>2. OnlyWork(t, mp, writes)
    BY <1>3, <1>5, <1>11 DEF OnlyWork, OnlyAsked
  <2>3. NextCalm(t, mp, ch)
    BY <1>15, <1>16 DEF NextCalm
  <2>4. NextNoted(t, mp, ch, writes)
    BY <1>5, <1>12, <1>14 DEF NextNoted
  <2>5. topFailed \in BOOLEAN
    BY <1>3 DEF TypeRest
  <2>6. QED
    BY <1>4, <1>6, <1>11, <1>16, <1>17, <1>19, <2>1, <2>2, <2>3, <2>4, <2>5, HandlesStored
<1>20. \/ \E status \in BOOLEAN, t1 \in {all, t} :
             Done(status, cur, t1, map, changed, writes)
       \/ HandleMessage(t, mp, ch, writes)
  BY Zenon DEF UidlReply, all, single, t, mp, ch
<1>21. QED
  BY <1>18, <1>19, <1>20

\* Without UIDLs every message is fetched, and deleted in the same session.
LEMMA NoUidlStored ==
  ASSUME IInv, IInv', SInv, NoUidl
  PROVE  SInv'
<1> SUFFICES ASSUME Intact'
             PROVE  SInv'
  BY DEF SInv
<1> DEFINE t == [m \in Msgs |-> IF m \in drop THEN Fresh("f") ELSE None]
<1>1. /\ pc = "uidl"
      /\ UNCHANGED <<prefs, server, bodies, runs, ghosts, login, popstate, open, topFailed>>
      /\ Fail \/ (prefs.keep = "never" /\ HandleMessage(t, map, changed, writes))
  BY DEF NoUidl
<1>2. Intact /\ Before /\ pc # "idle"
  BY <1>1 DEF Intact, ghosts, Before
<1>3. /\ AllSettled /\ NotAgain /\ OnlyAsked /\ Session /\ Calm /\ Writers
      /\ GoodWork(cur, todo, map, writes, Safe) /\ TypeRest /\ OnServer
      /\ req.id \in Nat /\ FromRuns(writes, marks, req.id)
  BY <1>2, RunFacts
<1>4. loaded /\ open /\ dele = {} /\ drop = mailbox /\ NotEnded(writes, req.id)
  BY <1>1, <1>2, <1>3 DEF Session, Writers
<1>5. /\ Goes' = Goes
      /\ UNCHANGED <<prefs, arrived, mailbox, drop, bodies, dele, req, loaded, open,
                     popstate, asked, marks, mishaps>>
  BY <1>1 DEF Goes, server, runs, ghosts
<1>6. CASE Fail
  <2>1. Done(FALSE, cur, todo, map, changed, writes)
    BY <1>6 DEF Fail
  <2>2. mishaps \subseteq mishaps' /\ dele' = dele /\ (dele' # {} => open')
    BY <1>4, <1>5
  <2>3. QED
    BY <1>2, <1>5, <2>1, <2>2, NoneLeaving, FailStored
<1>7. CASE prefs.keep = "never" /\ HandleMessage(t, map, changed, writes)
  <2>1. /\ GoodTodo(t, Safe) /\ GoodMap(map, Safe) /\ GoodWrites(writes, Safe)
        /\ OnlyMap(t, Goes)
    BY <1>3 DEF GoodWork, GoodTodo, GoodMap, None, Fresh, Entry, Status, Final, Orders,
                OnlyMap
  <2> HIDE DEF t
  <2>2. SessionKept(writes)
    BY <1>3, <1>4, <1>5 DEF SessionKept, OnlyAsked, Session
  <2>3. OnlyWork(t, map, writes)
    BY <1>3, <1>5, <2>1 DEF OnlyWork, OnlyAsked
  <2>4. NextNoted(t, map, changed, writes)
    <3> SUFFICES ASSUME NEW m \in Msgs, bodies'[m] > 0, ~Excused(m)'
                 PROVE  bodies'[m] <= 1 /\ m \notin mailbox'
      BY DEF NextNoted
    <3>1. ~Excused(m)
      BY <1>5 DEF Excused
    <3>2. Settled(m) /\ ~Leaving(m)
      BY <1>2, <1>3, <1>5, <3>1, NoneLeaving DEF AllSettled
    <3>3. QED
      BY <1>5, <1>7, <3>2 DEF Settled, Kept
  <2>5. NextCalm(t, map, changed)
    BY <1>5, <1>7 DEF NextCalm
  <2>6. loaded' /\ open' /\ drop' = mailbox' /\ \A m \in dele' : t[m] = None
    BY <1>4, <1>5
  <2>7. topFailed \in BOOLEAN /\ changed \in BOOLEAN
    BY <1>3 DEF TypeRest
  <2>8. QED
    BY <1>4, <1>7, <2>1, <2>2, <2>3, <2>4, <2>5, <2>6, <2>7, HandlesStored
<1>8. QED
  BY <1>1, <1>6, <1>7

LEMMA DeleReplyStored ==
  ASSUME Overlap = FALSE, IInv, IInv', SInv, DeleReply
  PROVE  SInv'
<1> SUFFICES ASSUME Intact'
             PROVE  SInv'
  BY DEF SInv
<1>1. /\ pc = "dele" /\ dele' = dele \cup {cur.msg}
      /\ HandleMessage(todo, map, changed, writes)
      /\ UNCHANGED <<prefs, arrived, mailbox, drop, bodies, runs, ghosts, login, popstate,
                     open, topFailed>>
  BY DEF DeleReply
<1>2. Intact /\ Handling /\ pc # "idle"
  BY <1>1 DEF Intact, ghosts, Handling
<1>3. /\ AllSettled /\ NotAgain /\ OnlyAsked /\ Session /\ Calm /\ Writers
      /\ GoodWork(cur, todo, map, writes, Safe) /\ TypeRest /\ OnServer
      /\ req.id \in Nat /\ FromRuns(writes, marks, req.id)
  BY <1>2, RunFacts
<1>4. loaded /\ open /\ drop = mailbox /\ NotEnded(writes, req.id)
  BY <1>2, <1>3 DEF Session, Writers
<1>5. /\ Goes' = Goes
      /\ UNCHANGED <<req, loaded, asked, marks, mishaps>>
  BY <1>1 DEF Goes, runs, ghosts
<1>6. GoodTodo(todo, Safe) /\ GoodMap(map, Safe) /\ GoodWrites(writes, Safe)
  BY <1>3 DEF GoodWork
<1>7. dele' \subseteq Goes
  BY <1>1, <1>3 DEF OnlyAsked
<1>8. SessionKept(writes)
  BY <1>1, <1>3, <1>4, <1>5, <1>7 DEF SessionKept, OnlyAsked, Session
<1>9. OnlyWork(todo, map, writes)
  BY <1>3, <1>5 DEF OnlyWork, OnlyAsked
<1>10. \A m \in dele' : todo[m] = None
  <2>1. todo[cur.msg] = None /\ dele \subseteq Msgs
    BY <1>2, <1>3 DEF OnServer, TypeRest
  <2>2. QED
    BY <1>1, <1>2, <1>3, <2>1 DEF NotAgain
<1>11. NextCalm(todo, map, changed)
  BY <1>1, <1>2, <1>3, <1>5 DEF NextCalm, Calm
<1>12. NextNoted(todo, map, changed, writes)
  <2> SUFFICES ASSUME NEW m \in Msgs, bodies'[m] > 0, ~Excused(m)'
               PROVE  /\ bodies[m] <= 1
                      /\ m \in mailbox =>
                           \/ m \in dele'
                           \/ /\ prefs.keep # "never"
                              /\ Noted(PutBack(map, todo)[m])
                              /\ \/ LastOf(writes, popstate)[m] \in Final
                                 \/ changed /\ NoMark(writes)
    BY <1>1 DEF NextNoted
  <2>1. ~Excused(m)
    BY <1>1, <1>5 DEF Excused
  <2>2. Settled(m)
    BY <1>1, <1>3, <2>1 DEF AllSettled
  <2>3. Leaving(m) => m \in dele'
    BY <1>1 DEF Leaving
  <2>4. Kept(m) => /\ prefs.keep # "never"
                   /\ Noted(PutBack(map, todo)[m])
                   /\ \/ LastOf(writes, popstate)[m] \in Final
                      \/ changed /\ NoMark(writes)
    BY <1>4 DEF Kept, Recorded
  <2>5. QED
    BY <2>2, <2>3, <2>4 DEF Settled
<1>13. topFailed \in BOOLEAN /\ changed \in BOOLEAN
  BY <1>3 DEF TypeRest
<1>14. QED
  BY <1>1, <1>4, <1>5, <1>6, <1>8, <1>9, <1>10, <1>11, <1>12, <1>13, HandlesStored

\* A mark on message n: what was noted about other messages stays so, and what is
\* noted is written at once.
LEMMA MarkedNotes ==
  ASSUME map \in [Msgs -> Entry], todo \in [Msgs -> Entry], writes \in Seq(WriteRecs),
         NEW n \in Msgs, NEW mk \in {"d", "f"}, NEW mp, mp = MarkedMap(n, mk),
         NEW m \in Msgs, NEW file, Noted(PutBack(map, todo)[m]), m # n \/ mk = "d"
  PROVE  /\ LastOf(MarkedWrites(mp), file)[m] \in Final
         /\ Noted(PutBack(mp, todo)[m])
<1> DEFINE mp0 == [map EXCEPT ![n].st = mk]
<1>1. mp0 \in [Msgs -> Entry]
  BY DEF Entry, Status
<1>2. mp0[m] = IF m = n THEN [st |-> mk, dated |-> map[m].dated] ELSE map[m]
  BY DEF Entry
<1>3. mp = PutBack(mp0, todo)
  BY DEF MarkedMap
<1> HIDE DEF mp0
<1>4. Noted(PutBack(mp0, todo)[m])
  <2>1. CASE todo[m] # None
    BY <2>1 DEF PutBack
  <2>2. CASE todo[m] = None
    <3>1. Noted(map[m])
      BY <2>2 DEF PutBack
    <3>2. Noted(mp0[m])
      BY <1>2, <3>1 DEF Noted, Final
    <3>3. QED
      BY <2>2, <3>2 DEF PutBack
  <2>3. QED
    BY <2>1, <2>2
<1>5. mp \in [Msgs -> Entry] /\ PutBack(mp, todo) = mp /\ Noted(mp[m])
  BY <1>1, <1>3, <1>4, PutBackType, PutBackTwice
<1>6. LastOf(MarkedWrites(mp), file)[m] \in Final
  <2> DEFINE w == Write(mp, TRUE, "mark")
  <2>1. w.file = FileOf(mp) /\ MarkedWrites(mp) = Append(writes, w)
    BY DEF Write, MarkedWrites
  <2> HIDE DEF w
  <2>2. LastOf(MarkedWrites(mp), file) = FileOf(mp)
    BY <2>1, LastAppend
  <2>3. QED
    BY <1>5, <2>2, NotedFile
<1>7. QED
  BY <1>5, <1>6

LEMMA MarkedOnly ==
  ASSUME map \in [Msgs -> Entry], todo \in [Msgs -> Entry], writes \in Seq(WriteRecs),
         NEW n \in Msgs, NEW mk \in {"d", "f"}, NEW mp, mp = MarkedMap(n, mk),
         NEW S, OnlyMap(map, S), OnlyMap(todo, S), OnlyWrites(writes, S),
         mk = "d" => n \in S,
         NEW k, k > 0, NEW top, FromRuns(writes, k, top), req.id <= top
  PROVE  /\ mp \in [Msgs -> Entry] /\ OnlyMap(mp, S) /\ OnlyWrites(MarkedWrites(mp), S)
         /\ FromRuns(MarkedWrites(mp), k, top)
         /\ \A id : NotEnded(writes, id) => NotEnded(MarkedWrites(mp), id)
<1> DEFINE mp0 == [map EXCEPT ![n].st = mk]
<1>1. mp0 \in [Msgs -> Entry] /\ OnlyMap(mp0, S)
  BY DEF Entry, Status, OnlyMap
<1>2. mp = PutBack(mp0, todo)
  BY DEF MarkedMap
<1> HIDE DEF mp0
<1>3. mp \in [Msgs -> Entry] /\ OnlyMap(mp, S)
  BY <1>1, <1>2, PutBackType
<1> DEFINE w == Write(mp, TRUE, "mark")
           wr1 == Append(writes, w)
<1>4. /\ w.file = FileOf(mp) /\ w.run = req.id /\ w.who = "mark"
      /\ MarkedWrites(mp) = wr1
  BY DEF Write, MarkedWrites
<1>5. OnlyFile(w.file, S)
  BY <1>3, <1>4 DEF OnlyMap, OnlyFile, FileOf
<1> HIDE DEF w
<1>6. \A i \in DOMAIN wr1 : wr1[i] = w \/ (i \in DOMAIN writes /\ wr1[i] = writes[i])
  BY InAppend
<1> HIDE DEF wr1
<1>7. OnlyWrites(wr1, S) /\ FromRuns(wr1, k, top)
  BY <1>4, <1>5, <1>6 DEF OnlyWrites, FromRuns
<1>8. \A id : NotEnded(writes, id) => NotEnded(wr1, id)
  BY <1>4, <1>6 DEF NotEnded
<1>9. QED
  BY <1>3, <1>4, <1>7, <1>8

\* What a write in flight says of marks holds when more marks are set.
LEMMA MoreMarks ==
  ASSUME NEW wr, NEW top, FromRuns(wr, marks, top), marks \in Nat,
         marks' \in {marks, marks + 1}
  PROVE  FromRuns(wr, marks', top)
<1>1. marks > 0 => marks' > 0
  OBVIOUS
<1>2. QED
  BY <1>1 DEF FromRuns

\* What TOP and RETR have reached when the message is stored and its filters have
\* run: the current message is a first copy or is excused.
StoredFacts(mk, mp, wr) ==
    /\ mp \in [Msgs -> Entry] /\ wr \in Seq(WriteRecs)
    /\ OnlyWork(todo, mp, wr) /\ Goes \subseteq Goes'
    /\ FromRuns(wr, marks', req.id) /\ NotEnded(wr, req.id)
    /\ \A m \in Msgs : m = cur.msg /\ (mk = "d" \/ bodies[m] > 0) => Excused(m)'
    /\ \A m \in Msgs \ {cur.msg} : bodies[m] > 0 /\ ~Excused(m)' =>
         /\ bodies[m] <= 1
         /\ m \in mailbox =>
              \/ m \in dele
              \/ /\ prefs.keep # "never"
                 /\ Noted(PutBack(mp, todo)[m])
                 /\ LastOf(wr, popstate)[m] \in Final \/ (changed /\ NoMark(wr))
    /\ marks' = 0 => marks = 0 /\ mk = "-"
    /\ mk = "-" => mp = map /\ NoMark(wr)

LEMMA StoredNotes ==
  ASSUME Overlap = FALSE, IInv, SInv, Intact, pc \in {"top", "retr"}, Quiet,
         NEW mk \in {"-", "d", "f"}, FilterMark(mk), prefs' = prefs, mishaps' = mishaps,
         NEW mp, mp = (IF mk = "-" THEN map ELSE MarkedMap(cur.msg, mk)),
         NEW wr, wr = (IF mk = "-" THEN writes ELSE MarkedWrites(mp))
  PROVE  StoredFacts(mk, mp, wr)
<1>1. pc # "idle" /\ Handling
  BY DEF Handling
<1>2. /\ AllSettled /\ NotAgain /\ OnlyAsked /\ Session /\ Calm /\ Writers
      /\ GoodWork(cur, todo, map, writes, Safe) /\ TypeRest /\ OnServer
      /\ req.id \in Nat /\ FromRuns(writes, marks, req.id)
  BY <1>1, RunFacts
<1>3. /\ map \in [Msgs -> Entry] /\ todo \in [Msgs -> Entry] /\ writes \in Seq(WriteRecs)
      /\ cur.msg \in Msgs /\ NotEnded(writes, req.id) /\ marks \in Nat
  BY <1>1, <1>2, Bounds
     DEF GoodWork, GoodMap, GoodTodo, GoodWrites, OnServer, TypeRest, Writers
<1>4. NoMark(writes)
  BY DEF Quiet, NoMark
<1>5. /\ marks' = IF mk = "-" THEN marks ELSE marks + 1
      /\ asked' = IF mk = "d" THEN [asked EXCEPT ![cur.msg] = "filter"] ELSE asked
  BY DEF FilterMark
<1>6. marks' \in {marks, marks + 1} /\ (mk # "-" => marks' > 0)
  BY <1>3, <1>5
<1>7. /\ \A m \in Msgs : asked'[m] = asked[m] \/ asked'[m] = "filter"
      /\ mk = "d" => asked'[cur.msg] = "filter"
  BY <1>2, <1>3, <1>5 DEF TypeRest
<1>8. Goes \subseteq Goes' /\ (mk = "d" => cur.msg \in Goes')
  BY <1>3, <1>7 DEF Goes
<1>9. /\ mp \in [Msgs -> Entry] /\ wr \in Seq(WriteRecs)
      /\ OnlyWork(todo, mp, wr) /\ FromRuns(wr, marks', req.id) /\ NotEnded(wr, req.id)
  <2> DEFINE S == Goes'
             k == marks'
  <2>1. /\ OnlyMap(map, S) /\ OnlyMap(todo, S) /\ OnlyWrites(writes, S)
        /\ mk = "d" => cur.msg \in S
    BY <1>2, <1>8 DEF OnlyAsked, OnlyMap, OnlyWrites, OnlyFile
  <2>2. FromRuns(writes, k, req.id) /\ req.id <= req.id
    BY <1>2, <1>3, <1>6, MoreMarks
  <2>3. CASE mk = "-"
    BY <1>3, <2>1, <2>2, <2>3 DEF OnlyWork
  <2>4. CASE mk # "-"
    <3>1. k > 0 /\ mk \in {"d", "f"} /\ mp = MarkedMap(cur.msg, mk) /\ wr = MarkedWrites(mp)
      BY <1>6, <2>4
    <3> HIDE DEF S, k
    <3>2. /\ mp \in [Msgs -> Entry] /\ OnlyMap(mp, S) /\ OnlyWrites(MarkedWrites(mp), S)
          /\ FromRuns(MarkedWrites(mp), k, req.id)
          /\ \A id : NotEnded(writes, id) => NotEnded(MarkedWrites(mp), id)
      BY <1>3, <2>1, <2>2, <3>1, MarkedOnly
    <3>3. wr \in Seq(WriteRecs)
      <4>1. GoodMap(mp, Msgs) /\ GoodWrites(writes, Msgs)
        BY <1>2, <1>3, <3>2 DEF GoodMap, GoodWork, GoodWrites, GoodFile
      <4>2. req \in Requests
        BY <1>2 DEF TypeRest
      <4>3. GoodWrites(Append(writes, Write(mp, TRUE, "mark")), Msgs)
        BY <4>1, <4>2, AppendWrite
      <4>4. QED
        BY <3>1, <4>3 DEF GoodWrites, MarkedWrites
    <3>4. QED
      BY <1>3, <2>1, <3>1, <3>2, <3>3 DEF OnlyWork, S, k
  <2>5. QED
    BY <2>3, <2>4
<1>10. \A m \in Msgs : Excused(m) => Excused(m)'
  BY <1>6, <1>7, StaysExcused
<1>11. \A m \in Msgs : m = cur.msg /\ (mk = "d" \/ bodies[m] > 0) => Excused(m)'
  <2> SUFFICES ASSUME NEW m \in Msgs, m = cur.msg, mk = "d" \/ bodies[m] > 0
               PROVE  Excused(m)'
    OBVIOUS
  <2>1. ~Leaving(m)
    <3>1. dele \subseteq Msgs
      BY <1>2 DEF TypeRest
    <3>2. QED
      BY <1>1, <1>2, <3>1 DEF Leaving, NotAgain
  <2>2. bodies[m] > 0 => Excused(m)
    BY <1>1, <1>2, <2>1 DEF AllSettled, Settled
  <2>3. mk = "d" => Excused(m)'
    BY <1>7 DEF Excused
  <2>4. QED
    BY <1>10, <2>2, <2>3
<1>12. ASSUME NEW m \in Msgs \ {cur.msg}, bodies[m] > 0, ~Excused(m)'
       PROVE  /\ bodies[m] <= 1
              /\ m \in mailbox =>
                   \/ m \in dele
                   \/ /\ prefs.keep # "never"
                      /\ Noted(PutBack(mp, todo)[m])
                      /\ LastOf(wr, popstate)[m] \in Final \/ (changed /\ NoMark(wr))
  <2>1. Settled(m)
    BY <1>2, <1>10, <1>12 DEF AllSettled
  <2>2. Leaving(m) => m \in dele
    BY <1>12 DEF Leaving
  <2>3. Kept(m) => /\ prefs.keep # "never"
                   /\ Noted(PutBack(map, todo)[m])
                   /\ LastOf(writes, popstate)[m] \in Final \/ (changed /\ NoMark(writes))
    BY <1>1, <1>2 DEF Kept, Recorded, Session
  <2>4. Noted(PutBack(map, todo)[m])
          /\ (LastOf(writes, popstate)[m] \in Final \/ (changed /\ NoMark(writes)))
        => Noted(PutBack(mp, todo)[m])
             /\ (LastOf(wr, popstate)[m] \in Final \/ (changed /\ NoMark(wr)))
    <3>1. CASE mk = "-"
      BY <3>1
    <3>2. CASE mk # "-"
      <4>1. mk \in {"d", "f"} /\ mp = MarkedMap(cur.msg, mk) /\ wr = MarkedWrites(mp)
        BY <3>2
      <4>2. m \in Msgs /\ m # cur.msg
        BY <1>12
      <4>3. Noted(PutBack(map, todo)[m]) => /\ LastOf(wr, popstate)[m] \in Final
                                            /\ Noted(PutBack(mp, todo)[m])
        BY <1>3, <4>1, <4>2, MarkedNotes
      <4>4. QED
        BY <4>3
    <3>3. QED
      BY <3>1, <3>2
  <2>5. QED
    BY <2>1, <2>2, <2>3, <2>4 DEF Settled
<1>13. (marks' = 0 => marks = 0 /\ mk = "-") /\ (mk = "-" => mp = map /\ NoMark(wr))
  BY <1>3, <1>4, <1>5
<1>14. QED
  BY <1>8, <1>9, <1>11, <1>12, <1>13 DEF StoredFacts

LEMMA TopReplyStored ==
  ASSUME Overlap = FALSE, IInv, IInv', SInv, NEW mk \in {"-", "d", "f"}, TopReply(mk)
  PROVE  SInv'
<1> SUFFICES ASSUME Intact'
             PROVE  SInv'
  BY DEF SInv
<1> DEFINE mp == IF mk = "-" THEN map ELSE MarkedMap(cur.msg, mk)
           wr == IF mk = "-" THEN writes ELSE MarkedWrites(mp)
           mpB == [mp EXCEPT ![cur.msg] = Known("b")]
<1>1. /\ pc = "top" /\ Quiet /\ FilterMark(mk)
      /\ UNCHANGED <<prefs, server, bodies, runs, mishaps, login, popstate, open, topFailed>>
      /\ \/ /\ mp[cur.msg].st \in {"f", "d"}
            /\ pc' = Command(mp[cur.msg].st, topFailed)
            /\ map' = mp /\ writes' = wr
            /\ changed' = (changed \/ mk # "-")
            /\ UNCHANGED <<todo, cur, ok, locked>>
         \/ HandleMessage(todo, mpB, TRUE, wr)
  BY DEF TopReply
<1>2. Intact /\ Handling /\ pc # "idle"
  BY <1>1 DEF Intact, Handling
<1>3. /\ AllSettled /\ NotAgain /\ OnlyAsked /\ Session /\ Calm /\ Writers
      /\ GoodWork(cur, todo, map, writes, Safe) /\ TypeRest /\ OnServer
      /\ req.id \in Nat /\ FromRuns(writes, marks, req.id)
  BY <1>2, RunFacts
<1>4. mp = (IF mk = "-" THEN map ELSE MarkedMap(cur.msg, mk))
  OBVIOUS
<1>5. wr = (IF mk = "-" THEN writes ELSE MarkedWrites(mp))
  OBVIOUS
<1> HIDE DEF mp, wr
<1>6. StoredFacts(mk, mp, wr)
  BY <1>1, <1>2, <1>4, <1>5, StoredNotes
<1>7. /\ UNCHANGED <<arrived, mailbox, drop, dele, req, loaded>>
      /\ loaded /\ open /\ drop = mailbox
      /\ cur.msg \in Msgs /\ todo[cur.msg] = None
  BY <1>1, <1>2, <1>3 DEF server, runs, Session, OnServer, TypeRest
<1>8. CASE /\ mp[cur.msg].st \in {"f", "d"}
           /\ pc' = Command(mp[cur.msg].st, topFailed)
           /\ map' = mp /\ writes' = wr
           /\ changed' = (changed \/ mk # "-")
           /\ UNCHANGED <<todo, cur, ok, locked>>
  <2>1. pc' \in {"retr", "dele"} /\ (pc' = "dele" => mp[cur.msg].st = "d")
    BY <1>8 DEF Command
  <2>2. Handling' /\ ~Before' /\ pc' # "idle"
    BY <2>1 DEF Handling, Before
  <2>3. AllSettled'
    <3> SUFFICES ASSUME NEW m \in Msgs, bodies'[m] > 0, ~Excused(m)'
                 PROVE  Settled(m)'
      BY DEF AllSettled
    <3>1. m # cur.msg /\ bodies[m] > 0
      BY <1>1, <1>6 DEF StoredFacts
    <3>2. /\ bodies[m] <= 1
          /\ m \in mailbox =>
               \/ m \in dele
               \/ /\ prefs.keep # "never"
                  /\ Noted(PutBack(mp, todo)[m])
                  /\ LastOf(wr, popstate)[m] \in Final \/ (changed /\ NoMark(wr))
      BY <1>6, <3>1 DEF StoredFacts
    <3>3. m \in dele => Leaving(m)'
      BY <1>7 DEF Leaving
    <3>4. cur'.msg # m
      BY <1>8, <3>1
    <3>5. /\ prefs.keep # "never"
          /\ Noted(PutBack(mp, todo)[m])
          /\ LastOf(wr, popstate)[m] \in Final \/ (changed /\ NoMark(wr))
          => Kept(m)'
      BY <1>1, <1>8, <2>2 DEF Kept, Recorded
    <3>6. QED
      BY <1>1, <1>7, <3>2, <3>3, <3>4, <3>5 DEF Settled
  <2>4. NotAgain'
    BY <1>1, <1>2, <1>3, <1>7, <1>8 DEF NotAgain
  <2>5. OnlyAsked'
    <3>1. OnlyMap(mp, Goes') /\ OnlyMap(todo, Goes') /\ OnlyWrites(wr, Goes')
      BY <1>6 DEF StoredFacts, OnlyWork
    <3>2. pc' = "dele" => cur.msg \in Goes'
      BY <1>7, <2>1, <3>1 DEF OnlyMap
    <3>3. OnlyFile(popstate, Goes') /\ dele \subseteq Goes'
          /\ (cur # NoCur /\ cur.e.st = "d" => cur.msg \in Goes')
      BY <1>3, <1>6 DEF OnlyAsked, OnlyFile, StoredFacts
    <3>4. QED
      BY <1>1, <1>7, <1>8, <3>1, <3>2, <3>3 DEF OnlyAsked, OnlyMap, OnlyWrites, OnlyFile
  <2>6. Session'
    BY <1>1, <1>3, <1>7, <2>2 DEF Session
  <2>7. Calm'
    <3> SUFFICES ASSUME marks' = 0, prefs.keep # "never"
                 PROVE  /\ changed' /\ Apart(todo', map')
                        /\ cur'.e.st \in {"b", "f"} => map'[cur'.msg].st # "d"
      BY <1>1 DEF Calm, Apart
    <3>1. marks = 0 /\ mk = "-" /\ mp = map
      BY <1>6 DEF StoredFacts
    <3>2. QED
      BY <1>2, <1>3, <1>8, <3>1 DEF Calm
  <2>8. Writers'
    BY <1>6, <1>7, <1>8, <2>2 DEF Writers, FromRuns, NotEnded, StoredFacts
  <2>9. QED
    BY <2>3, <2>4, <2>5, <2>6, <2>7, <2>8 DEF SInv
<1>9. CASE HandleMessage(todo, mpB, TRUE, wr)
  <2>1. /\ mpB \in [Msgs -> Entry]
        /\ \A m \in Msgs : mpB[m] = IF m = cur.msg THEN Known("b") ELSE mp[m]
    BY <1>6, <1>7 DEF StoredFacts, Known, Entry, Status
  <2> HIDE DEF mpB
  <2>2. GoodTodo(todo, Msgs) /\ GoodMap(mpB, Msgs) /\ GoodWrites(wr, Msgs)
    <3>1. \A i \in DOMAIN wr : wr[i].file \in [Msgs -> Status]
      <4>1. wr \in Seq(WriteRecs)
        BY <1>6 DEF StoredFacts
      <4>2. \A i \in DOMAIN wr : wr[i] \in WriteRecs
        BY <4>1
      <4>3. QED
        BY <4>2 DEF WriteRecs
    <3>2. GoodWrites(wr, Msgs)
      BY <1>6, <3>1 DEF StoredFacts, GoodWrites, GoodFile
    <3>3. QED
      BY <1>3, <2>1, <3>2 DEF GoodWork, GoodTodo, GoodMap
  <2>3. SessionKept(wr)
    <3>1. dele' \subseteq Goes' /\ OnlyFile(popstate', Goes')
      BY <1>1, <1>3, <1>6, <1>7 DEF OnlyAsked, OnlyFile, StoredFacts
    <3>2. QED
      BY <1>1, <1>3, <1>6, <1>7, <3>1 DEF SessionKept, StoredFacts, Session
  <2>4. OnlyWork(todo, mpB, wr) /\ NotEnded(wr, req.id)
    BY <1>6, <2>1 DEF OnlyWork, OnlyMap, StoredFacts, Known
  <2>5. NextCalm(todo, mpB, TRUE)
    <3> SUFFICES ASSUME marks' = 0, prefs.keep # "never"
                 PROVE  Apart(todo, mpB)
      BY <1>1 DEF NextCalm
    <3>1. Apart(todo, map) /\ mp = map
      BY <1>2, <1>3, <1>6 DEF Calm, StoredFacts
    <3>2. QED
      BY <2>1, <3>1 DEF Apart, Known
  <2>6. NextNoted(todo, mpB, TRUE, wr)
    <3> SUFFICES ASSUME NEW m \in Msgs, bodies'[m] > 0, ~Excused(m)'
                 PROVE  /\ bodies[m] <= 1
                        /\ m \in mailbox =>
                             \/ m \in dele
                             \/ /\ prefs.keep # "never"
                                /\ Noted(PutBack(mpB, todo)[m])
                                /\ LastOf(wr, popstate)[m] \in Final \/ NoMark(wr)
      BY <1>1, <1>7 DEF NextNoted
    <3>1. m # cur.msg /\ bodies[m] > 0
      BY <1>1, <1>6 DEF StoredFacts
    <3>2. PutBack(mpB, todo)[m] = PutBack(mp, todo)[m]
      BY <2>1, <3>1 DEF PutBack
    <3>3. QED
      BY <1>6, <3>1, <3>2 DEF StoredFacts
  <2>7. loaded' /\ open' /\ drop' = mailbox' /\ \A m \in dele' : todo[m] = None
    BY <1>1, <1>2, <1>3, <1>7 DEF NotAgain
  <2>8. topFailed \in BOOLEAN /\ TRUE \in BOOLEAN
    BY <1>3 DEF TypeRest
  <2>9. QED
    BY <1>9, <2>2, <2>3, <2>4, <2>5, <2>6, <2>7, <2>8, HandlesStored
<1>10. QED
  BY <1>1, <1>8, <1>9

LEMMA RetrReplyStored ==
  ASSUME Overlap = FALSE, IInv, IInv', SInv, NEW mk \in {"-", "d"}, RetrReply(mk)
  PROVE  SInv'
<1> SUFFICES ASSUME Intact'
             PROVE  SInv'
  BY DEF SInv
<1> DEFINE mp == IF mk = "-" THEN map ELSE MarkedMap(cur.msg, mk)
           wr == IF mk = "-" THEN writes ELSE MarkedWrites(mp)
           mpK == [mp EXCEPT ![cur.msg] = Known("k")]
<1>1. /\ pc = "retr" /\ Quiet /\ FilterMark(mk)
      /\ bodies' = [bodies EXCEPT ![cur.msg] = @ + 1]
      /\ UNCHANGED <<prefs, server, runs, mishaps, login, popstate, open, topFailed>>
      /\ \/ /\ prefs.keep = "never" \/ mp[cur.msg].st = "d"
            /\ pc' = "dele" /\ map' = mp /\ writes' = wr
            /\ changed' = (changed \/ mk # "-")
            /\ UNCHANGED <<todo, cur, ok, locked>>
         \/ prefs.keep # "never" /\ HandleMessage(todo, mpK, TRUE, wr)
  BY DEF RetrReply
<1>2. Intact /\ Handling /\ pc # "idle"
  BY <1>1 DEF Intact, Handling
<1>3. /\ AllSettled /\ NotAgain /\ OnlyAsked /\ Session /\ Calm /\ Writers
      /\ GoodWork(cur, todo, map, writes, Safe) /\ TypeRest /\ OnServer
      /\ req.id \in Nat /\ FromRuns(writes, marks, req.id)
  BY <1>2, RunFacts
<1>4. mp = (IF mk = "-" THEN map ELSE MarkedMap(cur.msg, mk))
  OBVIOUS
<1>5. wr = (IF mk = "-" THEN writes ELSE MarkedWrites(mp))
  OBVIOUS
<1> HIDE DEF mp, wr
<1>6. StoredFacts(mk, mp, wr)
  <2>1. mk \in {"-", "d", "f"}
    OBVIOUS
  <2>2. QED
    BY <1>1, <1>2, <1>4, <1>5, <2>1, StoredNotes
<1>7. /\ UNCHANGED <<arrived, mailbox, drop, dele, req, loaded>>
      /\ loaded /\ open /\ drop = mailbox
      /\ cur.msg \in Msgs /\ todo[cur.msg] = None /\ cur.msg \in arrived
  BY <1>1, <1>2, <1>3 DEF server, runs, Session, OnServer, TypeRest
<1>8. /\ \A m \in Msgs : m # cur.msg => bodies'[m] = bodies[m]
      /\ bodies'[cur.msg] = bodies[cur.msg] + 1 /\ bodies[cur.msg] \in Nat
  BY <1>1, <1>3, <1>7 DEF TypeRest
<1>9. \A m \in Msgs : bodies'[m] > 0 => m \in arrived'
  BY <1>3, <1>7, <1>8 DEF Session
<1>10. ASSUME NEW m \in Msgs, bodies'[m] > 0, ~Excused(m)'
       PROVE  /\ bodies'[m] <= 1
              /\ m = cur.msg => mk = "-"
              /\ m # cur.msg /\ m \in mailbox =>
                   \/ m \in dele
                   \/ /\ prefs.keep # "never"
                      /\ Noted(PutBack(mp, todo)[m])
                      /\ LastOf(wr, popstate)[m] \in Final \/ (changed /\ NoMark(wr))
  <2>1. CASE m = cur.msg
    <3>1. ~(bodies[m] > 0) /\ mk # "d"
      BY <1>6, <1>10, <2>1 DEF StoredFacts
    <3>2. QED
      BY <1>8, <2>1, <3>1
  <2>2. CASE m # cur.msg
    BY <1>6, <1>8, <1>10, <2>2 DEF StoredFacts
  <2>3. QED
    BY <2>1, <2>2
<1>11. CASE /\ prefs.keep = "never" \/ mp[cur.msg].st = "d"
            /\ pc' = "dele" /\ map' = mp /\ writes' = wr
            /\ changed' = (changed \/ mk # "-")
            /\ UNCHANGED <<todo, cur, ok, locked>>
  <2>1. Handling' /\ ~Before' /\ pc' # "idle"
    BY <1>11 DEF Handling, Before
  <2>2. AllSettled'
    <3> SUFFICES ASSUME NEW m \in Msgs, bodies'[m] > 0, ~Excused(m)'
                 PROVE  Settled(m)'
      BY DEF AllSettled
    <3>1. CASE m = cur.msg
      <4>1. bodies'[m] <= 1 /\ mk = "-"
        BY <1>10, <3>1
      <4>2. Leaving(m)'
        BY <1>11, <3>1 DEF Leaving
      <4>3. ~(marks' = 0 /\ prefs'.keep # "never")
        <5> SUFFICES ASSUME marks' = 0, prefs.keep # "never"
                     PROVE  FALSE
          BY <1>1
        <5>1. marks = 0 /\ mp = map
          BY <1>6 DEF StoredFacts
        <5>2. map[cur.msg].st # "d"
          BY <1>1, <1>2, <1>3, <5>1 DEF Calm, NotAgain
        <5>3. QED
          BY <1>11, <5>1, <5>2
      <4>4. QED
        BY <4>1, <4>2, <4>3 DEF Settled
    <3>2. CASE m # cur.msg
      <4>1. /\ bodies'[m] <= 1
            /\ m \in mailbox =>
                 \/ m \in dele
                 \/ /\ prefs.keep # "never"
                    /\ Noted(PutBack(mp, todo)[m])
                    /\ LastOf(wr, popstate)[m] \in Final \/ (changed /\ NoMark(wr))
        BY <1>10, <3>2
      <4>2. m \in dele => Leaving(m)'
        BY <1>7 DEF Leaving
      <4>3. cur'.msg # m
        BY <1>11, <3>2
      <4>4. /\ prefs.keep # "never"
            /\ Noted(PutBack(mp, todo)[m])
            /\ LastOf(wr, popstate)[m] \in Final \/ (changed /\ NoMark(wr))
            => Kept(m)'
        BY <1>1, <1>11, <2>1 DEF Kept, Recorded
      <4>5. QED
        BY <1>7, <4>1, <4>2, <4>3, <4>4 DEF Settled
    <3>3. QED
      BY <3>1, <3>2
  <2>3. NotAgain'
    BY <1>2, <1>3, <1>7, <1>11 DEF NotAgain
  <2>4. OnlyAsked'
    <3>1. OnlyMap(mp, Goes') /\ OnlyMap(todo, Goes') /\ OnlyWrites(wr, Goes')
      BY <1>6 DEF StoredFacts, OnlyWork
    <3>2. cur.msg \in Goes'
      <4>1. mp[cur.msg].st = "d" => cur.msg \in Goes'
        BY <1>7, <3>1 DEF OnlyMap
      <4>2. prefs.keep = "never" => cur.msg \in Goes'
        BY <1>1, <1>7 DEF Goes
      <4>3. QED
        BY <1>11, <4>1, <4>2
    <3>3. OnlyFile(popstate, Goes') /\ dele \subseteq Goes'
      BY <1>3, <1>6 DEF OnlyAsked, OnlyFile, StoredFacts
    <3>4. QED
      BY <1>1, <1>7, <1>11, <3>1, <3>2, <3>3 DEF OnlyAsked, OnlyMap, OnlyWrites, OnlyFile
  <2>5. Session'
    BY <1>1, <1>3, <1>7, <1>9, <2>1 DEF Session
  <2>6. Calm'
    <3> SUFFICES ASSUME marks' = 0, prefs.keep # "never"
                 PROVE  /\ changed' /\ Apart(todo', map')
                        /\ cur'.e.st \in {"b", "f"} => map'[cur'.msg].st # "d"
      BY <1>1 DEF Calm, Apart
    <3>1. marks = 0 /\ mk = "-" /\ mp = map
      BY <1>6 DEF StoredFacts
    <3>2. QED
      BY <1>2, <1>3, <1>11, <3>1 DEF Calm
  <2>7. Writers'
    BY <1>6, <1>7, <1>11, <2>1 DEF Writers, FromRuns, NotEnded, StoredFacts
  <2>8. QED
    BY <2>2, <2>3, <2>4, <2>5, <2>6, <2>7 DEF SInv
<1>12. CASE prefs.keep # "never" /\ HandleMessage(todo, mpK, TRUE, wr)
  <2>1. /\ mpK \in [Msgs -> Entry]
        /\ \A m \in Msgs : mpK[m] = IF m = cur.msg THEN Known("k") ELSE mp[m]
    BY <1>6, <1>7 DEF StoredFacts, Known, Entry, Status
  <2> HIDE DEF mpK
  <2>2. GoodTodo(todo, Msgs) /\ GoodMap(mpK, Msgs) /\ GoodWrites(wr, Msgs)
    <3>1. \A i \in DOMAIN wr : wr[i].file \in [Msgs -> Status]
      <4>1. wr \in Seq(WriteRecs)
        BY <1>6 DEF StoredFacts
      <4>2. \A i \in DOMAIN wr : wr[i] \in WriteRecs
        BY <4>1
      <4>3. QED
        BY <4>2 DEF WriteRecs
    <3>2. GoodWrites(wr, Msgs)
      BY <1>6, <3>1 DEF StoredFacts, GoodWrites, GoodFile
    <3>3. QED
      BY <1>3, <2>1, <3>2 DEF GoodWork, GoodTodo, GoodMap
  <2>3. SessionKept(wr)
    <3>1. dele' \subseteq Goes' /\ OnlyFile(popstate', Goes')
      BY <1>1, <1>3, <1>6, <1>7 DEF OnlyAsked, OnlyFile, StoredFacts
    <3>2. QED
      BY <1>1, <1>3, <1>6, <1>7, <1>9, <3>1 DEF SessionKept, StoredFacts
  <2>4. OnlyWork(todo, mpK, wr) /\ NotEnded(wr, req.id)
    BY <1>6, <2>1 DEF OnlyWork, OnlyMap, StoredFacts, Known
  <2>5. NextCalm(todo, mpK, TRUE)
    <3> SUFFICES ASSUME marks' = 0, prefs.keep # "never"
                 PROVE  Apart(todo, mpK)
      BY <1>1 DEF NextCalm
    <3>1. Apart(todo, map) /\ mp = map
      BY <1>2, <1>3, <1>6 DEF Calm, StoredFacts
    <3>2. QED
      BY <2>1, <3>1 DEF Apart, Known
  <2>6. NextNoted(todo, mpK, TRUE, wr)
    <3> SUFFICES ASSUME NEW m \in Msgs, bodies'[m] > 0, ~Excused(m)'
                 PROVE  /\ bodies'[m] <= 1
                        /\ m \in mailbox =>
                             \/ m \in dele
                             \/ /\ prefs.keep # "never"
                                /\ Noted(PutBack(mpK, todo)[m])
                                /\ LastOf(wr, popstate)[m] \in Final \/ NoMark(wr)
      BY <1>1, <1>7 DEF NextNoted
    <3>1. bodies'[m] <= 1
      BY <1>10
    <3>2. CASE m = cur.msg
      <4>1. PutBack(mpK, todo)[m] = Known("k")
        BY <1>7, <2>1, <3>2 DEF PutBack
      <4>2. NoMark(wr)
        BY <1>6, <1>10, <3>2 DEF StoredFacts
      <4>3. QED
        BY <1>12, <3>1, <4>1, <4>2 DEF Noted, Known, Final
    <3>3. CASE m # cur.msg
      <4>1. PutBack(mpK, todo)[m] = PutBack(mp, todo)[m]
        BY <2>1, <3>3 DEF PutBack
      <4>2. QED
        BY <1>10, <3>3, <4>1
    <3>4. QED
      BY <3>2, <3>3
  <2>7. loaded' /\ open' /\ drop' = mailbox' /\ \A m \in dele' : todo[m] = None
    BY <1>1, <1>2, <1>3, <1>7 DEF NotAgain
  <2>8. topFailed \in BOOLEAN /\ TRUE \in BOOLEAN
    BY <1>3 DEF TypeRest
  <2>9. QED
    BY <1>12, <2>2, <2>3, <2>4, <2>5, <2>6, <2>7, <2>8, HandlesStored
<1>13. QED
  BY <1>1, <1>11, <1>12

LEMMA TopRefusedStored ==
  ASSUME IInv, SInv, TopRefused
  PROVE  SInv'
<1> SUFFICES ASSUME Intact'
             PROVE  SInv'
  BY DEF SInv
<1>1. /\ pc = "top" /\ pc' = "retr"
      /\ UNCHANGED <<prefs, server, folder, runs, ghosts, login, work, popstate, open>>
  BY DEF TopRefused
<1>2. Intact /\ Handling /\ Handling' /\ pc # "idle" /\ ~Before' /\ pc' # "idle"
  BY <1>1 DEF Intact, ghosts, Handling, Before
<1>3. /\ AllSettled /\ NotAgain /\ OnlyAsked /\ Session /\ Calm /\ Writers
      /\ FromRuns(writes, marks, req.id)
  BY <1>2, RunFacts
<1>4. /\ UNCHANGED <<arrived, mailbox, drop, dele, bodies, req, loaded, asked, marks, mishaps>>
      /\ UNCHANGED <<map, changed, todo, cur, writes>>
      /\ Goes' = Goes
  BY <1>1 DEF server, folder, runs, ghosts, work, Goes
<1>5. AllSettled'
  <2> SUFFICES ASSUME NEW m \in Msgs, bodies'[m] > 0, ~Excused(m)'
               PROVE  Settled(m)'
    BY DEF AllSettled
  <2>1. bodies[m] > 0 /\ ~Excused(m)
    BY <1>1, <1>4 DEF Excused
  <2>2. Settled(m)
    BY <1>3, <2>1 DEF AllSettled
  <2>3. (Leaving(m) => Leaving(m)') /\ (Kept(m) => Kept(m)')
    BY <1>1, <1>2, <1>4 DEF Leaving, Kept, Recorded
  <2>4. QED
    BY <1>1, <1>2, <1>4, <2>2, <2>3 DEF Settled
<1>6. NotAgain' /\ Calm'
  BY <1>1, <1>2, <1>3, <1>4 DEF NotAgain, Calm, Apart
<1>7. OnlyAsked'
  BY <1>1, <1>3, <1>4 DEF OnlyAsked, OnlyMap, OnlyWrites, OnlyFile
<1>8. Session' /\ Writers'
  BY <1>1, <1>2, <1>3, <1>4 DEF Session, Writers, FromRuns, NotEnded
<1>9. QED
  BY <1>5, <1>6, <1>7, <1>8 DEF SInv

\* The oldest write has reached popstate.dat, and at most the flag of changes is
\* cleared: by the end of the run's last write, or by that of a mark.
LEMMA WrittenStored ==
  ASSUME IInv, SInv, Intact, writes # <<>>,
         popstate' = Head(writes).file, writes' = Tail(writes),
         UNCHANGED <<prefs, server, bodies, runs, ghosts, map, todo, cur, open>>,
         changed' = changed \/ (~changed' /\ (~Handling \/ Head(writes).who = "mark")),
         \/ pc' = pc
         \/ pc = "pause" /\ pc' \in {"top", "retr", "dele"} /\ pc' = Command(cur.e.st, topFailed)
         \/ pc \in {"saving", "quit"} /\ pc' = "quit"
  PROVE  SInv'
<1>1. /\ AllSettled /\ NotAgain /\ OnlyAsked /\ Session /\ Calm /\ Writers
      /\ writes \in Seq(WriteRecs) /\ OnServer /\ GoodCur(cur, Safe)
  BY DEF SInv, IInv, GoodWork, GoodWrites
<1>2. /\ UNCHANGED <<arrived, mailbox, drop, dele, req, loaded, asked, marks, mishaps, issued>>
      /\ Goes' = Goes
  BY DEF server, runs, ghosts, Goes
<1>3. (Handling' <=> Handling) /\ (Before' <=> Before) /\ (pc' = "idle" <=> pc = "idle")
      /\ (pc' # pc /\ Handling => pc = "pause" /\ (pc' = "dele" <=> cur.e.st = "d"))
      /\ (pc' \in {"top", "retr"} /\ pc # pc' => cur.e.st \in {"b", "f"})
  <2>1. CASE pc' = pc
    BY <2>1 DEF Handling, Before
  <2>2. CASE pc \in {"saving", "quit"} /\ pc' = "quit"
    BY <2>2 DEF Handling, Before
  <2>3. CASE /\ pc = "pause" /\ pc' \in {"top", "retr", "dele"}
             /\ pc' = Command(cur.e.st, topFailed)
    <3>1. cur.e.st \in Orders
      BY <1>1, <2>3 DEF OnServer, Handling, GoodCur
    <3>2. QED
      BY <2>3, <3>1 DEF Handling, Before, Orders, Command
  <2>4. QED
    BY <2>1, <2>2, <2>3
<1>4. /\ LastOf(writes', popstate') = LastOf(writes, popstate)
      /\ 1 \in DOMAIN writes /\ Head(writes) = writes[1]
      /\ \A i \in DOMAIN writes' : i + 1 \in DOMAIN writes /\ writes'[i] = writes[i + 1]
  <2> DEFINE rest == Tail(writes)
  <2>1. LastOf(rest, Head(writes).file) = LastOf(writes, popstate)
    BY <1>1, LastTail
  <2>2. \A i \in DOMAIN rest : i + 1 \in DOMAIN writes /\ rest[i] = writes[i + 1]
    BY <1>1, InTail
  <2>3. 1 \in DOMAIN writes /\ Head(writes) = writes[1]
    BY <1>1
  <2> HIDE DEF rest
  <2>4. writes' = rest
    BY DEF rest
  <2>5. QED
    BY <2>1, <2>2, <2>3, <2>4
<1>5. /\ \A k, top : FromRuns(writes, k, top) => FromRuns(writes', k, top)
      /\ \A id : NotEnded(writes, id) => NotEnded(writes', id)
      /\ NoMark(writes) => NoMark(writes')
      /\ \A S : OnlyWrites(writes, S) => OnlyWrites(writes', S) /\ OnlyFile(popstate', S)
  BY <1>4 DEF FromRuns, NotEnded, NoMark, OnlyWrites
<1>6. NoMark(writes) /\ Handling => changed' = changed
  BY <1>4 DEF NoMark
<1>7. AllSettled'
  <2> SUFFICES ASSUME NEW m \in Msgs, bodies'[m] > 0, ~Excused(m)'
               PROVE  Settled(m)'
    BY DEF AllSettled
  <2>1. bodies[m] > 0 /\ ~Excused(m)
    BY <1>2 DEF Excused
  <2>2. Settled(m)
    BY <1>1, <2>1 DEF AllSettled
  <2>3. Leaving(m) => Leaving(m)'
    <3>1. CASE Handling /\ pc' # pc
      BY <1>2, <1>3, <3>1 DEF Leaving
    <3>2. CASE ~(Handling /\ pc' # pc)
      BY <1>2, <1>3, <3>2 DEF Leaving, Handling
    <3>3. QED
      BY <3>1, <3>2
  <2>4. Recorded(m) => Recorded(m)'
    BY <1>3, <1>4, <1>5, <1>6 DEF Recorded
  <2>5. Kept(m) => Kept(m)'
    BY <1>2, <2>4 DEF Kept
  <2>6. QED
    BY <1>2, <1>3, <2>2, <2>3, <2>5 DEF Settled
<1>8. NotAgain'
  BY <1>1, <1>2, <1>3 DEF NotAgain
<1>9. OnlyAsked'
  <2>1. OnlyWrites(writes', Goes) /\ OnlyFile(popstate', Goes)
    BY <1>1, <1>5 DEF OnlyAsked
  <2>2. pc' = "dele" => cur.msg \in Goes
    <3>1. CASE Handling /\ pc' # pc
      BY <1>1, <1>3, <3>1 DEF OnlyAsked, OnServer
    <3>2. CASE ~(Handling /\ pc' # pc)
      BY <1>1, <1>3, <3>2 DEF OnlyAsked, Handling
    <3>3. QED
      BY <3>1, <3>2
  <2>3. QED
    BY <1>1, <1>2, <2>1, <2>2 DEF OnlyAsked, OnlyMap, OnlyWrites, OnlyFile
<1>10. Session'
  <2>1. pc' \in {"stat", "list", "uidl", "auth"} => pc' = pc
    OBVIOUS
  <2>2. changed' => changed
    OBVIOUS
  <2>3. QED
    BY <1>1, <1>2, <1>3, <2>1, <2>2 DEF Session
<1>11. Calm'
  <2> SUFFICES ASSUME marks = 0, prefs.keep # "never", Handling
               PROVE  /\ changed' /\ Apart(todo, map)
                      /\ cur.e.st \in {"b", "f"} => map[cur.msg].st # "d"
    BY <1>2, <1>3 DEF Calm, Apart
  <2>1. NoMark(writes)
    BY <1>1 DEF Writers, FromRuns, NoMark
  <2>2. QED
    BY <1>1, <1>6, <2>1 DEF Calm
<1>12. Writers'
  BY <1>1, <1>2, <1>3, <1>5 DEF Writers
<1>13. QED
  BY <1>7, <1>8, <1>9, <1>10, <1>11, <1>12 DEF SInv

LEMMA WriteDoneStored ==
  ASSUME IInv, SInv, NEW success \in BOOLEAN, WriteDone(success)
  PROVE  SInv'
<1> SUFFICES ASSUME Intact'
             PROVE  SInv'
  BY DEF SInv
<1> DEFINE w == Head(writes)
           mine == w.run = req.id /\ ~Idle
<1>1. success
  BY DEF WriteDone, Intact
<1>2. /\ writes # <<>> /\ popstate' = w.file /\ mishaps' = mishaps
      /\ UNCHANGED <<prefs, server, folder, runs, asked, marks, login, open, topFailed>>
      /\ \/ /\ mine /\ w.who = "done"
            /\ pc' = "quit" /\ changed' = (changed /\ ~success) /\ writes' = Tail(writes)
            /\ UNCHANGED <<map, todo, cur>>
         \/ /\ mine /\ w.who = "periodic" /\ pc = "pause"
            /\ pc' = Command(cur.e.st, topFailed) /\ writes' = Tail(writes)
            /\ UNCHANGED <<map, changed, todo, cur, ok>>
         \/ /\ ~mine \/ w.who = "mark" \/ (w.who = "periodic" /\ pc # "pause")
            /\ changed' = (changed /\ ~(mine /\ w.reset /\ success))
            /\ writes' = Tail(writes)
            /\ UNCHANGED <<pc, map, todo, cur, ok>>
  BY <1>1 DEF WriteDone
<1>3. Intact /\ Writers /\ TypeRest /\ OnServer /\ GoodCur(cur, Safe) /\ writes \in Seq(WriteRecs)
  BY <1>2 DEF Intact, SInv, IInv, GoodWork, GoodWrites
<1>4. 1 \in DOMAIN writes /\ w = writes[1] /\ w \in WriteRecs
  BY <1>2, <1>3
<1> HIDE DEF w
<1>5. changed \in BOOLEAN /\ w.reset \in BOOLEAN
  BY <1>3, <1>4 DEF TypeRest, WriteRecs
<1>6. UNCHANGED <<prefs, server, bodies, runs, ghosts, open>>
  BY <1>2 DEF folder, ghosts
<1>7. w.who = "periodic" => ~w.reset
  BY <1>3, <1>4 DEF Writers, FromRuns
<1>8. CASE mine /\ w.who = "done" /\ pc' = "quit" /\ changed' = (changed /\ ~success)
           /\ writes' = Tail(writes) /\ UNCHANGED <<map, todo, cur>>
  <2>1. ~(Before \/ Handling) /\ pc # "idle"
    BY <1>3, <1>4, <1>8 DEF Writers, NotEnded, Idle
  <2>2. pc \in {"saving", "quit"}
    BY <1>3, <2>1 DEF TypeRest, Before, Handling
  <2>3. QED
    BY <1>1, <1>2, <1>3, <1>5, <1>6, <1>8, <2>1, <2>2, WrittenStored DEF w
<1>9. CASE /\ pc = "pause" /\ pc' = Command(cur.e.st, topFailed) /\ writes' = Tail(writes)
           /\ UNCHANGED <<map, changed, todo, cur, ok>>
  <2>1. cur.e.st \in Orders
    BY <1>3, <1>9 DEF OnServer, Handling, GoodCur
  <2>2. pc' \in {"top", "retr", "dele"}
    BY <1>3, <1>9, <2>1, CommandOf DEF TypeRest
  <2>3. QED
    BY <1>2, <1>3, <1>6, <1>9, <2>2, WrittenStored DEF w
<1>10. CASE /\ ~mine \/ w.who = "mark" \/ (w.who = "periodic" /\ pc # "pause")
            /\ changed' = (changed /\ ~(mine /\ w.reset /\ success))
            /\ writes' = Tail(writes) /\ UNCHANGED <<pc, map, todo, cur, ok>>
  <2>1. changed' = changed \/ (~changed' /\ w.who = "mark")
    BY <1>1, <1>5, <1>7, <1>10
  <2>2. QED
    BY <1>2, <1>3, <1>6, <1>10, <2>1, WrittenStored DEF w
<1>11. QED
  BY <1>2, <1>8, <1>9, <1>10

LEMMA UserMarkStored ==
  ASSUME IInv, SInv, NEW n \in Msgs, NEW mk \in {"d", "f"}, UserMark(n, mk)
  PROVE  SInv'
<1> SUFFICES ASSUME Intact'
             PROVE  SInv'
  BY DEF SInv
<1>1. /\ marks' = marks + 1 /\ (mk = "f" => bodies[n] = 0)
      /\ asked' = IF mk = "d" /\ asked[n] = "no" THEN [asked EXCEPT ![n] = "user"] ELSE asked
      /\ UNCHANGED <<prefs, server, folder, runs, mishaps, login, todo, cur, ok, pc, open,
                     topFailed>>
      /\ \/ /\ ~loaded /\ writes = <<>>
            /\ popstate' = IF popstate[n] = "-" THEN popstate ELSE [popstate EXCEPT ![n] = mk]
            /\ UNCHANGED <<map, changed, writes>>
         \/ /\ loaded /\ map' = MarkedMap(n, mk) /\ changed' = TRUE
            /\ writes' = MarkedWrites(MarkedMap(n, mk)) /\ UNCHANGED popstate
  BY DEF UserMark
<1>2. Intact
  BY <1>1 DEF Intact
<1>3. /\ AllSettled /\ NotAgain /\ OnlyAsked /\ Session /\ Writers
      /\ TypeRest /\ OnServer /\ GoodFile(popstate, Safe)
      /\ map \in [Msgs -> Entry] /\ todo \in [Msgs -> Entry] /\ writes \in Seq(WriteRecs)
      /\ req.id \in Nat /\ marks \in Nat
  <2>1. AllSettled /\ NotAgain /\ OnlyAsked /\ Session /\ Writers
    BY <1>2 DEF SInv
  <2>2. /\ TypeRest /\ OnServer /\ GoodFile(popstate, Safe)
        /\ GoodWork(cur, todo, map, writes, Safe)
    BY DEF IInv, SafeServer
  <2>3. /\ map \in [Msgs -> Entry] /\ todo \in [Msgs -> Entry] /\ writes \in Seq(WriteRecs)
    BY <2>2 DEF GoodWork, GoodMap, GoodTodo, GoodWrites
  <2>4. req.id \in Nat
    BY <2>2 DEF TypeRest, Requests
  <2>5. marks \in Nat
    BY <2>2, Bounds DEF TypeRest
  <2>6. QED
    BY <2>1, <2>2, <2>3, <2>4, <2>5
<1>4. /\ UNCHANGED <<arrived, mailbox, drop, dele, bodies, req, loaded, issued>>
      /\ marks' > 0 /\ (Handling' <=> Handling) /\ (Before' <=> Before)
  <2>1. marks' > 0
    <3>1. marks' = marks + 1
      BY <1>1
    <3>2. QED
      BY <1>3, <3>1
  <2>2. (Handling' <=> Handling) /\ (Before' <=> Before)
    BY <1>1 DEF Handling, Before
  <2>3. UNCHANGED <<arrived, mailbox, drop, dele, bodies, req, loaded, issued>>
    BY <1>1 DEF server, folder, runs
  <2>4. QED
    BY <2>1, <2>2, <2>3
<1>5. /\ \A m \in Msgs : asked'[m] = asked[m] \/ (asked[m] = "no" /\ asked'[m] = "user")
      /\ mk = "d" => asked'[n] # "no"
  BY <1>1, <1>3 DEF TypeRest
<1>6. Goes \subseteq Goes' /\ (mk = "d" => n \in Goes')
  BY <1>1, <1>5 DEF Goes
<1>7. \A m \in Msgs : Excused(m) => Excused(m)'
  BY <1>1, <1>4, <1>5 DEF Excused
<1>8. bodies[n] \in Nat /\ \A m \in Msgs : bodies[m] > 0 => m # n \/ mk = "d"
  BY <1>1, <1>3 DEF TypeRest
<1>9. \A m \in Msgs : (Leaving(m) => Leaving(m)') /\ (Leaving(m)' => Leaving(m))
  BY <1>1, <1>4 DEF Leaving
<1>10. ASSUME \A m \in Msgs : bodies[m] > 0 /\ ~Excused(m)' /\ Kept(m) => Kept(m)'
       PROVE  AllSettled'
  <2> SUFFICES ASSUME NEW m \in Msgs, bodies'[m] > 0, ~Excused(m)'
               PROVE  Settled(m)'
    BY DEF AllSettled
  <2>1. bodies[m] > 0 /\ ~Excused(m)
    BY <1>4, <1>7
  <2>2. Settled(m)
    BY <1>3, <2>1 DEF AllSettled
  <2>3. ~(marks' = 0)
    BY <1>4
  <2>4. QED
    BY <1>1, <1>4, <1>9, <1>10, <2>1, <2>2, <2>3 DEF Settled
<1>11. NotAgain'
  BY <1>1, <1>3, <1>4 DEF NotAgain
<1>12. Calm'
  BY <1>4 DEF Calm
<1>13. ASSUME OnlyMap(map', Goes'), OnlyWrites(writes', Goes'), OnlyFile(popstate', Goes')
       PROVE  OnlyAsked'
  <2>1. OnlyMap(todo, Goes') /\ dele \subseteq Goes'
    BY <1>3, <1>6 DEF OnlyAsked, OnlyMap
  <2>2. (cur # NoCur /\ cur.e.st = "d" => cur.msg \in Goes') /\ (pc = "dele" => cur.msg \in Goes')
    BY <1>3, <1>6 DEF OnlyAsked
  <2>3. QED
    BY <1>1, <1>4, <1>13, <2>1, <2>2 DEF OnlyAsked, OnlyMap, OnlyWrites, OnlyFile
<1>14. CASE /\ ~loaded /\ writes = <<>>
            /\ popstate' = IF popstate[n] = "-" THEN popstate ELSE [popstate EXCEPT ![n] = mk]
            /\ UNCHANGED <<map, changed, writes>>
  <2>1. /\ popstate' \in [Msgs -> Status]
        /\ \A m \in Msgs : \/ popstate'[m] = popstate[m]
                           \/ m = n /\ popstate'[m] = mk
    BY <1>3, <1>14 DEF GoodFile, Status
  <2>2. AllSettled'
    <3> SUFFICES ASSUME NEW m \in Msgs, bodies[m] > 0, Kept(m)
                 PROVE  Kept(m)'
      BY <1>10
    <3>1. popstate[m] \in Final
      BY <1>3, <1>14 DEF Kept, Recorded, LastOf, Session
    <3>2. popstate'[m] \in Final
      BY <1>8, <2>1, <3>1 DEF Final
    <3>3. Recorded(m)'
      BY <1>14, <3>2 DEF Recorded, LastOf
    <3>4. QED
      BY <1>1, <1>4, <1>14, <3>3 DEF Kept
  <2>3. OnlyAsked'
    <3>1. OnlyMap(map, Goes') /\ OnlyWrites(writes, Goes') /\ OnlyFile(popstate, Goes')
      BY <1>3, <1>6 DEF OnlyAsked, OnlyMap, OnlyWrites, OnlyFile
    <3>2. OnlyFile(popstate', Goes')
      BY <1>6, <2>1, <3>1 DEF OnlyFile
    <3>3. QED
      BY <1>13, <1>14, <3>1, <3>2 DEF OnlyMap, OnlyWrites, OnlyFile
  <2>4. Session'
    BY <1>1, <1>3, <1>4, <1>14 DEF Session
  <2>5. Writers'
    BY <1>14 DEF Writers, FromRuns, NotEnded
  <2>6. QED
    BY <1>11, <1>12, <2>2, <2>3, <2>4, <2>5 DEF SInv
<1>15. CASE /\ loaded /\ map' = MarkedMap(n, mk) /\ changed' = TRUE
            /\ writes' = MarkedWrites(MarkedMap(n, mk)) /\ UNCHANGED popstate
  <2> DEFINE mp == MarkedMap(n, mk)
             S == Goes'
             k == marks'
             top == IF pc = "idle" THEN issued ELSE req.id
  <2>1. top = req.id /\ pc # "idle"
    BY <1>3, <1>15 DEF Session
  <2>2. FromRuns(writes, k, top)
    BY <1>1, <1>3, MoreMarks DEF Writers
  <2>3. /\ OnlyMap(map, S) /\ OnlyMap(todo, S) /\ OnlyWrites(writes, S) /\ OnlyFile(popstate, S)
        /\ mk = "d" => n \in S
    BY <1>3, <1>6 DEF OnlyAsked, OnlyMap, OnlyWrites, OnlyFile
  <2>4. k > 0 /\ req.id <= top
    BY <1>3, <1>4, <2>1
  <2> HIDE DEF S, k, top
  <2>5. /\ mp \in [Msgs -> Entry] /\ OnlyMap(mp, S) /\ OnlyWrites(MarkedWrites(mp), S)
        /\ FromRuns(MarkedWrites(mp), k, top)
        /\ \A id : NotEnded(writes, id) => NotEnded(MarkedWrites(mp), id)
    BY <1>3, <2>2, <2>3, <2>4, MarkedOnly
  <2>6. AllSettled'
    <3> SUFFICES ASSUME NEW m \in Msgs, bodies[m] > 0, Kept(m)
                 PROVE  Kept(m)'
      BY <1>10
    <3>1. Noted(PutBack(map, todo)[m])
      BY <1>15 DEF Kept
    <3>2. m # n \/ mk = "d"
      BY <1>8
    <3>3. /\ LastOf(MarkedWrites(mp), popstate)[m] \in Final
          /\ Noted(PutBack(mp, todo)[m])
      BY <1>3, <3>1, <3>2, MarkedNotes
    <3>4. QED
      BY <1>1, <1>15, <3>3 DEF Kept, Recorded
  <2>7. OnlyAsked'
    BY <1>13, <1>15, <2>3, <2>5 DEF S, OnlyFile
  <2>8. Session'
    BY <1>1, <1>3, <1>4, <1>15 DEF Session
  <2>9. Writers'
    <3>1. FromRuns(writes', marks', req.id)
      BY <1>15, <2>1, <2>5 DEF k
    <3>2. Before \/ Handling => NotEnded(writes', req.id)
      BY <1>3, <1>15, <2>5 DEF Writers
    <3>3. QED
      BY <1>1, <1>4, <2>1, <3>1, <3>2 DEF Writers
  <2>10. QED
    BY <1>11, <1>12, <2>6, <2>7, <2>8, <2>9 DEF SInv
<1>16. QED
  BY <1>1, <1>14, <1>15

\* The writes in flight when a later run starts.
LEMMA LaterRun ==
  ASSUME NEW wr \in Seq(WriteRecs), NEW mk, NEW top \in Nat, FromRuns(wr, mk, top),
         NEW id \in Nat
  PROVE  /\ top <= id => FromRuns(wr, mk, id)
         /\ top < id => NotEnded(wr, id)
<1>1. \A i \in DOMAIN wr : wr[i].run \in Int /\ wr[i].run <= top
  <2>1. \A i \in DOMAIN wr : wr[i] \in WriteRecs
    OBVIOUS
  <2>2. QED
    BY <2>1, Bounds DEF WriteRecs, FromRuns
<1>2. top <= id => FromRuns(wr, mk, id)
  <2> SUFFICES ASSUME top <= id, NEW i \in DOMAIN wr
               PROVE  /\ wr[i].who = "mark" => mk > 0
                      /\ wr[i].who = "periodic" => ~wr[i].reset
                      /\ wr[i].run <= id
    BY DEF FromRuns
  <2>1. wr[i].run <= id
    BY <1>1
  <2>2. QED
    BY <2>1 DEF FromRuns
<1>3. top < id => NotEnded(wr, id)
  BY <1>1 DEF NotEnded
<1>4. QED
  BY <1>2, <1>3

\* Between two runs, and when one starts: what is left is in popstate.dat or on its way.
LEMMA FreshStored ==
  ASSUME pc' \in {"connect", "idle"}, loaded' = FALSE, map' = Empty, todo' = Empty,
         cur' = NoCur, changed' = FALSE, dele' = {},
         OnlyWrites(writes', Goes'), OnlyFile(popstate', Goes'),
         FromRuns(writes', marks', IF pc' = "idle" THEN issued' ELSE req'.id),
         pc' = "idle" \/ NotEnded(writes', req'.id),
         \A m \in Msgs : bodies'[m] > 0 => m \in arrived',
         \A m \in Msgs : bodies'[m] > 0 /\ ~Excused(m)' =>
             /\ bodies'[m] <= 1
             /\ m \in mailbox' => /\ prefs'.keep # "never"
                                  /\ LastOf(writes', popstate')[m] \in Final
  PROVE  SInv'
<1>1. ~Handling' /\ pc' \notin {"auth", "stat", "list", "uidl", "dele"}
  BY DEF Handling
<1>2. AllSettled'
  BY <1>1 DEF AllSettled, Settled, Kept, Recorded
<1>3. NotAgain' /\ Calm'
  BY <1>1 DEF NotAgain, Calm
<1>4. OnlyAsked'
  BY <1>1 DEF OnlyAsked, OnlyMap, OnlyWrites, OnlyFile, Empty, None, NoCur
<1>5. Session'
  BY <1>1 DEF Session, Before
<1>6. Writers'
  BY <1>1 DEF Writers, Before
<1>7. QED
  BY <1>2, <1>3, <1>4, <1>5, <1>6 DEF SInv

\* The end of a run: the server has removed what was deleted, or the session was cut.
LEMMA CleanUpStored ==
  ASSUME IInv, IInv', SInv, NEW quitSeen \in BOOLEAN, CleanUp(quitSeen)
  PROVE  SInv'
<1> SUFFICES ASSUME Intact'
             PROVE  SInv'
  BY DEF SInv
<1>1. /\ pc = "quit" /\ (quitSeen => open)
      /\ mailbox' = IF quitSeen THEN mailbox \ dele ELSE mailbox
      /\ mishaps' = IF open /\ ~quitSeen THEN mishaps \cup {"cut"} ELSE mishaps
      /\ dele' = {}
      /\ UNCHANGED <<prefs, arrived, bodies, issued, asked, marks, prompts, popstate, writes>>
      /\ \/ NextRun # NoReq /\ Start(NextRun)
         \/ /\ pc' = "idle" /\ loaded' = FALSE
            /\ map' = Empty /\ todo' = Empty /\ cur' = NoCur /\ changed' = FALSE
  BY DEF CleanUp
<1>2. Intact /\ pc # "idle" /\ mishaps \subseteq mishaps'
  BY <1>1 DEF Intact
<1>3. /\ AllSettled /\ NotAgain /\ OnlyAsked /\ Session /\ Calm /\ Writers
      /\ GoodWork(cur, todo, map, writes, Safe) /\ TypeRest /\ OnServer
      /\ req.id \in Nat /\ FromRuns(writes, marks, req.id)
  BY <1>2, RunFacts
<1>4. /\ Goes' = Goes /\ writes \in Seq(WriteRecs)
      /\ OnlyWrites(writes', Goes') /\ OnlyFile(popstate', Goes')
  BY <1>1, <1>3 DEF Goes, GoodWork, GoodWrites, OnlyAsked, OnlyWrites, OnlyFile
<1>5. ASSUME NEW m \in Msgs, bodies[m] > 0, ~Excused(m)'
      PROVE  /\ bodies[m] <= 1
             /\ m \in mailbox' => /\ prefs.keep # "never"
                                  /\ LastOf(writes, popstate)[m] \in Final
  <2>1. Settled(m)
    BY <1>1, <1>2, <1>3, <1>5, StaysExcused DEF AllSettled
  <2>2. Leaving(m) => m \in dele
    BY <1>1 DEF Leaving
  <2>3. m \in dele => m \notin mailbox'
    <3> SUFFICES ASSUME m \in dele, ~quitSeen
                 PROVE  FALSE
      BY <1>1
    <3>1. "cut" \in mishaps' /\ m \in Goes
      BY <1>1, <1>3 DEF Session, OnlyAsked
    <3>2. asked[m] \in {"no", "user", "filter"}
      BY <1>3 DEF TypeRest
    <3>3. Excused(m)'
      BY <1>1, <3>1, <3>2 DEF Goes, Excused
    <3>4. QED
      BY <1>5, <3>3
  <2>4. Kept(m) => prefs.keep # "never" /\ LastOf(writes, popstate)[m] \in Final
    BY <1>1 DEF Kept, Recorded, Handling
  <2>5. QED
    BY <1>1, <1>5, <2>1, <2>2, <2>3, <2>4 DEF Settled
<1>6. /\ req.id \in 1..issued /\ issued \in Nat
      /\ \A i \in 1..Len(queue) : queue[i].id = req.id + i
      /\ queue \in Seq(Requests)
  BY <1>2, <1>3, Bounds DEF IInv, Numbered, TypeRest
<1>7. \A m \in Msgs : bodies'[m] > 0 => m \in arrived'
  BY <1>1, <1>3 DEF Session
<1>8. CASE NextRun # NoReq /\ Start(NextRun)
  <2>1. /\ pc' = "connect" /\ req' = NextRun /\ loaded' = FALSE /\ map' = Empty
        /\ todo' = Empty /\ cur' = NoCur /\ changed' = FALSE
    BY <1>8 DEF Start
  <2>2. req'.id = req.id + 1
    <3>1. queue # <<>> /\ req' = Head(queue)
      BY <1>8, <2>1 DEF NextRun
    <3>2. Head(queue) = queue[1] /\ 1 \in 1..Len(queue)
      BY <1>6, <3>1
    <3>3. queue[1].id = req.id + 1
      BY <1>6, <3>2
    <3>4. QED
      BY <3>1, <3>2, <3>3
  <2>3. FromRuns(writes, marks, req'.id) /\ NotEnded(writes, req'.id)
    <3> DEFINE id == req.id + 1
    <3>1. id \in Nat /\ req.id <= id /\ req.id < id
      BY <1>3
    <3> HIDE DEF id
    <3>2. FromRuns(writes, marks, id) /\ NotEnded(writes, id)
      BY <1>3, <1>4, <3>1, LaterRun
    <3>3. QED
      BY <2>2, <3>2 DEF id
  <2>4. QED
    BY <1>1, <1>4, <1>5, <1>7, <2>1, <2>3, FreshStored
<1>9. CASE /\ pc' = "idle" /\ loaded' = FALSE
           /\ map' = Empty /\ todo' = Empty /\ cur' = NoCur /\ changed' = FALSE
  <2>1. FromRuns(writes, marks, issued)
    BY <1>3, <1>4, <1>6, LaterRun
  <2>2. QED
    BY <1>1, <1>4, <1>5, <1>7, <1>9, <2>1, FreshStored
<1>10. QED
  BY <1>1, <1>8, <1>9

LEMMA AskStored ==
  ASSUME IInv, SInv, NEW kind, NEW n, Ask(kind, n)
  PROVE  SInv'
<1> SUFFICES ASSUME Intact'
             PROVE  SInv'
  BY DEF SInv
<1> DEFINE r == [id |-> issued + 1, kind |-> kind, uidl |-> n]
<1>1. /\ issued' = issued + 1 /\ r.id = issued + 1
      /\ UNCHANGED <<prefs, server, folder, ghosts, popstate, open, writes>>
      /\ IF Idle THEN Start(r)
         ELSE UNCHANGED <<req, pc, loaded, map, changed, todo, cur, ok>>
  BY DEF Ask
<1> HIDE DEF r
<1>2. Intact
  BY <1>1 DEF Intact, ghosts
<1>3. /\ AllSettled /\ NotAgain /\ OnlyAsked /\ Session /\ Calm /\ Writers
      /\ writes \in Seq(WriteRecs) /\ issued \in Nat
  BY <1>2, Bounds DEF SInv, IInv, GoodWork, GoodWrites, TypeRest
<1>4. /\ UNCHANGED <<arrived, mailbox, drop, dele, bodies, asked, marks, mishaps>>
      /\ Goes' = Goes
  BY <1>1 DEF server, folder, ghosts, Goes
<1>5. CASE Idle
  <2>1. /\ pc' = "connect" /\ req' = r /\ loaded' = FALSE /\ map' = Empty
        /\ todo' = Empty /\ cur' = NoCur /\ changed' = FALSE /\ pc = "idle"
    BY <1>1, <1>5 DEF Start, Idle
  <2>2. FromRuns(writes, marks, issued) /\ dele = {} /\ ~Handling
    BY <1>3, <2>1 DEF Writers, Session, Handling
  <2>3. FromRuns(writes, marks, r.id) /\ NotEnded(writes, r.id)
    <3> DEFINE id == issued + 1
    <3>1. id \in Nat /\ issued <= id /\ issued < id
      BY <1>3
    <3> HIDE DEF id
    <3>2. FromRuns(writes, marks, id) /\ NotEnded(writes, id)
      BY <1>3, <2>2, <3>1, LaterRun
    <3>3. QED
      BY <1>1, <3>2 DEF id
  <2>4. ASSUME NEW m \in Msgs, bodies[m] > 0, ~Excused(m)'
        PROVE  /\ bodies[m] <= 1
               /\ m \in mailbox => /\ prefs.keep # "never"
                                   /\ LastOf(writes, popstate)[m] \in Final
    <3>1. ~Excused(m)
      BY <1>1, <1>4, <2>4 DEF Excused
    <3>2. Settled(m)
      BY <1>3, <2>4, <3>1 DEF AllSettled
    <3>3. ~Leaving(m)
      BY <2>1, <2>2 DEF Leaving
    <3>4. QED
      BY <2>2, <3>2, <3>3 DEF Settled, Kept, Recorded
  <2>5. OnlyWrites(writes', Goes') /\ OnlyFile(popstate', Goes')
    BY <1>1, <1>3, <1>4 DEF OnlyAsked, OnlyWrites, OnlyFile
  <2>6. \A m \in Msgs : bodies'[m] > 0 => m \in arrived'
    BY <1>3, <1>4 DEF Session
  <2>7. FromRuns(writes', marks', req'.id) /\ NotEnded(writes', req'.id)
    BY <1>1, <1>4, <2>1, <2>3
  <2>8. QED
    BY <1>1, <1>4, <2>1, <2>2, <2>4, <2>5, <2>6, <2>7, FreshStored
<1>6. CASE ~Idle
  <2>1. UNCHANGED <<req, pc, loaded, map, changed, todo, cur>> /\ pc # "idle"
    BY <1>1, <1>6 DEF Idle
  <2>2. (Handling' <=> Handling) /\ (Before' <=> Before)
    BY <2>1 DEF Handling, Before
  <2>3. AllSettled'
    BY <1>1, <1>3, <1>4, <2>1, <2>2
       DEF AllSettled, Settled, Excused, Kept, Recorded, Leaving
  <2>4. NotAgain' /\ Calm'
    BY <1>1, <1>3, <1>4, <2>1, <2>2 DEF NotAgain, Calm, Apart
  <2>5. OnlyAsked'
    BY <1>1, <1>3, <1>4, <2>1 DEF OnlyAsked, OnlyMap, OnlyWrites, OnlyFile
  <2>6. Session' /\ Writers'
    BY <1>1, <1>3, <1>4, <2>1, <2>2 DEF Session, Writers, FromRuns, NotEnded
  <2>7. QED
    BY <2>3, <2>4, <2>5, <2>6 DEF SInv
<1>7. QED
  BY <1>5, <1>6

LEMMA CrashStored ==
  ASSUME Crash
  PROVE  SInv'
  BY DEF Crash, SInv, Intact

LEMMA StutterStored ==
  ASSUME SInv, UNCHANGED vars
  PROVE  SInv'
<1> SUFFICES ASSUME Intact'
             PROVE  SInv'
  BY DEF SInv
<1>1. /\ UNCHANGED <<prefs, arrived, mailbox, drop, dele, bodies, asked, marks, mishaps>>
      /\ UNCHANGED <<req, pc, loaded, issued, map, changed, todo, cur, writes, popstate, open>>
  BY DEF vars, server, folder, runs, ghosts, work
<1>2. Intact /\ Goes' = Goes /\ (Handling' <=> Handling) /\ (Before' <=> Before)
  BY <1>1 DEF Intact, Goes, Handling, Before
<1>3. AllSettled /\ NotAgain /\ OnlyAsked /\ Session /\ Calm /\ Writers
  BY <1>2 DEF SInv
<1>4. AllSettled'
  BY <1>1, <1>2, <1>3 DEF AllSettled, Settled, Excused, Kept, Recorded, Leaving
<1>5. NotAgain' /\ Calm'
  BY <1>1, <1>2, <1>3 DEF NotAgain, Calm, Apart
<1>6. OnlyAsked'
  BY <1>1, <1>2, <1>3 DEF OnlyAsked, OnlyMap, OnlyWrites, OnlyFile
<1>7. Session' /\ Writers'
  BY <1>1, <1>2, <1>3 DEF Session, Writers, FromRuns, NotEnded
<1>8. QED
  BY <1>4, <1>5, <1>6, <1>7 DEF SInv

LEMMA InitStored ==
  ASSUME Init
  PROVE  SInv
<1>1. pc = "idle" /\ ~Handling /\ ~Before
  BY DEF Init, Handling, Before
<1>2. AllSettled /\ NotAgain /\ Calm
  BY <1>1 DEF Init, AllSettled, NotAgain, Calm
<1>3. OnlyAsked /\ Session /\ Writers
  BY <1>1 DEF Init, OnlyAsked, OnlyMap, OnlyWrites, OnlyFile, Session, Writers, FromRuns,
              NotEnded, Empty, None
<1>4. QED
  BY <1>2, <1>3 DEF SInv

LEMMA RunStepStored ==
  ASSUME Overlap = FALSE, IInv, IInv', SInv, RunStep
  PROVE  SInv'
<1>1. CASE \/ Connect \/ ConnectFails \/ AuthAccepted
           \/ \E stays \in BOOLEAN : AuthRejected(stays)
           \/ StatReply \/ ListReply \/ NoUidl
           \/ \E Old \in SUBSET Msgs : UidlReply(Old)
  BY <1>1, ConnectStored, ConnectFailsStored, AuthAcceptedStored, AuthRejectedStored,
     StatReplyStored, ListReplyStored, NoUidlStored, UidlReplyStored
<1>2. CASE \/ \E mk \in {"-", "d", "f"} : TopReply(mk)
           \/ \E mk \in {"-", "d"} : RetrReply(mk)
           \/ TopRefused \/ StoreFails \/ DeleReply \/ Refused
  BY <1>2, TopReplyStored, RetrReplyStored, TopRefusedStored, StoreFailsStored,
     DeleReplyStored, RefusedStored
<1>3. CASE \/ \E status \in BOOLEAN : Lost(status)
           \/ \E success \in BOOLEAN : WriteDone(success)
           \/ \E quitSeen \in BOOLEAN : CleanUp(quitSeen)
  BY <1>3, LostStored, WriteDoneStored, CleanUpStored
<1>4. QED
  BY <1>1, <1>2, <1>3 DEF RunStep

\* As long as every mark reaches the disk before the next reply is handled, a message
\* is stored twice only for the reasons StoredOnce names: the decisions of
\* _actionUidlResponse, the maps that _actionDone and _actionHandleMessage put back and
\* write, and the order RETR, store, DELE, QUIT never make the client fetch again what
\* it has, for any number of messages, runs and marks.  With Overlap the model does not
\* promise it: the end of the write of a mark also clears _uidlMapChanged for the
\* changes made since it began.
THEOREM Pop3StoredOnce ==
  ASSUME Overlap = FALSE
  PROVE  Spec => []StoredOnce
<1>1. Init => SInv
  BY InitStored
<1>2. IInv /\ IInv' /\ SInv /\ [Next]_vars => SInv'
  <2> SUFFICES ASSUME IInv, IInv', SInv, [Next]_vars
               PROVE  SInv'
    OBVIOUS
  <2>1. CASE RunStep
    BY <2>1, RunStepStored
  <2>2. CASE \/ Ask("get", NoMsg) \/ Ask("check", NoMsg)
             \/ \E m \in Big \cap arrived : Ask("body", m)
    BY <2>2, AskStored
  <2>3. CASE \E m \in Msgs : Deliver(m)
    BY <2>3, DeliverStored
  <2>4. CASE \E m \in Msgs, mk \in {"d", "f"} : UserMark(m, mk)
    BY <2>4, UserMarkStored
  <2>5. CASE Crash
    BY <2>5, CrashStored
  <2>6. CASE UNCHANGED vars
    BY <2>6, StutterStored
  <2>7. QED
    BY <2>1, <2>2, <2>3, <2>4, <2>5, <2>6 DEF Next
<1>3. IInv /\ SInv => StoredOnce
  <2> SUFFICES ASSUME IInv, SInv, NEW m \in Msgs, bodies[m] > 1
               PROVE  ~Intact \/ Excused(m)
    BY DEF StoredOnce, Intact, Excused
  <2>1. bodies[m] \in Nat
    BY DEF IInv, TypeRest
  <2>2. QED
    BY <2>1 DEF SInv, AllSettled, Settled
<1>4. QED
  BY <1>1, <1>2, <1>3, Pop3Invariant, PTL DEF Spec
=============================================================================
