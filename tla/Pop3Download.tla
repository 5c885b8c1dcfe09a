---------------------------- MODULE Pop3Download ----------------------------
(***************************************************************************)
(* Fetching mail from a POP3 server: Pop3Client.sys.mjs (one client per    *)
(* run), the queue of runs in Pop3IncomingServer.sys.mjs, and what they    *)
(* leave behind on three stores that fail independently: the mailbox on    *)
(* the server, the local folder, and popstate.dat, the record of which     *)
(* messages are already known.                                             *)
(*                                                                         *)
(* A message is its UIDL.  The order in which the server numbers messages  *)
(* is left open: the next message to handle is any one of those pending.   *)
(***************************************************************************)
EXTENDS Naturals, Sequences, FiniteSets

CONSTANTS
    Msgs,         \* the messages (UIDLs) that may arrive
    Big,          \* those above the size limit: only their head is fetched at first
    NoMsg,        \* stands for "no current message"
    MaxRequests,  \* bound: number of runs asked for
    MaxMarks,     \* bound: number of marks a filter or the user sets
    WriteEvery,   \* popstate.dat is written every so many messages (20 in the code)
    Methods,      \* number of authentication methods worth a try
    MaxPrompts,   \* bound: how often the user answers "Retry" to a failed login
    Keep,         \* the values of the "leave on server" setting to try
    Faults,       \* the faults that may happen, a subset of AllFaults
    Overlap       \* may replies be handled while a mark is being written?

AllKeep == {"never", "always", "days"}
AllFaults == {"err", "auth", "lost", "disk", "busy", "crash"}

ASSUME Pop3Assumption ==
    /\ Big \subseteq Msgs
    /\ NoMsg \notin Msgs
    /\ {MaxRequests, MaxMarks, MaxPrompts} \subseteq Nat
    /\ {WriteEvery, Methods} \subseteq Nat \ {0}
    /\ Keep \subseteq AllKeep
    /\ Faults \subseteq AllFaults
    /\ Overlap \in BOOLEAN

VARIABLES
    prefs,     \* the account's settings, and whether the server has UIDL
    arrived,   \* messages that were ever delivered to the server
    mailbox,   \* messages on the server
    drop,      \* messages the current session sees
    dele,      \* messages DELEd in the current session, not yet committed
    popstate,  \* popstate.dat: a status for each known UIDL
    bodies,    \* how often the whole message was stored in the folder
    locked,    \* _folderLocked: the folder's semaphore is held
    pc,        \* what the running client waits for
    req,       \* the request it serves
    open,      \* its socket is open
    loaded,    \* the client has read popstate.dat into its _uidlMap
    map,       \* _uidlMap
    changed,   \* _uidlMapChanged
    todo,      \* _messagesToHandle
    cur,       \* _currentMessage
    ok,        \* the status the run will report
    method,    \* index of the current authentication method
    topFailed, \* _topFailed
    writes,    \* writes of popstate.dat in flight, oldest first
    queue,     \* runs waiting for the running client
    issued,    \* number of runs asked for so far
    answered,  \* runs that were told of their end
    prompts,   \* number of times the user chose to log in again
    asked,     \* who asked for a message to be deleted from the server
    marks,     \* number of marks set so far
    mishaps    \* the kinds of failure that have happened

server == <<arrived, mailbox, drop, dele>>
folder == <<bodies, locked>>
runs   == <<queue, issued, answered, req, loaded>>
ghosts == <<asked, marks, mishaps>>
login  == <<method, prompts>>
work   == <<map, changed, todo, cur, writes, ok>>
vars == <<prefs, server, folder, runs, ghosts, login, work,
          popstate, pc, open, topFailed>>

-----------------------------------------------------------------------------
(* The record of known messages. *)

\* The letters of popstate.dat; "-" is a UIDL that is not in it.
Status == {"-", "k", "d", "b", "f"}

\* An entry of the map.  Only entries that carry the time the message was
\* received (dated) are ever written to the file.
Entry == [st : Status, dated : BOOLEAN]
None == [st |-> "-", dated |-> FALSE]
Empty == [m \in Msgs |-> None]
Known(st) == [st |-> st, dated |-> TRUE]
Fresh(st) == [st |-> st, dated |-> FALSE]

Pending(t) == {m \in Msgs : t[m] # None}

\* _loadUidlState
Load(file) == [m \in Msgs |-> IF file[m] = "-" THEN None ELSE Known(file[m])]

\* The lines _writeUidlState writes.
FileOf(mp) == [m \in Msgs |-> IF mp[m].dated THEN mp[m].st ELSE "-"]

\* Variant: what is still to be handled is not put back.
PutBackNothing(mp, t) == mp

\* _writeUidlState first puts the messages still to be handled back into the map.
PutBack(mp, t) == [m \in Msgs |-> IF t[m] # None THEN t[m] ELSE mp[m]]

\* A write of popstate.dat by the current run.
Write(mp, reset, who) ==
    [file |-> FileOf(mp), reset |-> reset, run |-> req.id, who |-> who]

NoCur == [msg |-> NoMsg, e |-> None]
NoReq == [id |-> 0, kind |-> "get", uidl |-> NoMsg]
Idle == pc = "idle"
Working == pc \in {"auth", "stat", "list", "uidl", "top", "retr", "dele", "pause"}

\* Whether a reply may be handled now: without Overlap a mark reaches the disk first.
Quiet == Overlap \/ \A i \in DOMAIN writes : writes[i].who # "mark"

-----------------------------------------------------------------------------
(* The pieces the reply handlers end with.  t, mp, ch, wr and c are the    *)
(* values that todo, map, changed, writes and cur have reached in them.    *)

\* _actionDone: on an error the current message goes back to the pending ones,
\* then the map is saved if it changed, and the session ends with QUIT.
Done(status, c, t, mp, ch, wr) ==
    LET t1 == IF ~status /\ c # NoCur THEN [t EXCEPT ![c.msg] = c.e] ELSE t
        mp1 == IF ch THEN PutBack(mp, t1) ELSE mp
    IN  /\ ok' = status
        /\ cur' = c
        /\ todo' = t1
        /\ changed' = ch
        /\ map' = mp1
        /\ pc' = IF ch THEN "saving" ELSE "quit"
        /\ writes' = IF ch THEN Append(wr, Write(mp1, TRUE, "done")) ELSE wr

\* Done from a handler that has changed nothing yet.
Fail == Done(FALSE, cur, todo, map, changed, writes)

\* Variant: a status without a case of its own falls to the empty default branch.
CommandNoTop(st, top) ==
    CASE st = "f" -> "retr" [] st = "d" -> "dele" [] OTHER -> "none"

\* The command that a pending message asks for.
Command(st, top) ==
    CASE st = "b" -> (IF top THEN "retr" ELSE "top")
      [] st = "f" -> "retr"
      [] st = "d" -> "dele"

\* _actionHandleMessage: take the next message, saving the map every WriteEvery
\* messages, or end the delivery when there is none.
HandleMessage(t, mp, ch, wr) ==
    \/ /\ Pending(t) = {}
       /\ \/ /\ locked' = FALSE
             /\ Done(TRUE, NoCur, t, mp, ch, wr)
          \/ /\ "disk" \in Faults
             /\ UNCHANGED locked
             /\ Done(FALSE, NoCur, t, mp, ch, wr)
    \/ \E m \in Pending(t) :
         LET t1 == [t EXCEPT ![m] = None]
             left == Cardinality(Pending(t1))
             saves == left > 0 /\ left % WriteEvery = 0 /\ wr = <<>> /\ ch
             mp1 == IF saves THEN PutBack(mp, t1) ELSE mp
         IN  /\ cur' = [msg |-> m, e |-> t[m]]
             /\ todo' = t1
             /\ changed' = ch
             /\ map' = mp1
             /\ pc' = IF saves THEN "pause" ELSE Command(t[m].st, topFailed)
             /\ writes' = IF saves THEN Append(wr, Write(mp1, FALSE, "periodic"))
                          ELSE wr
             /\ UNCHANGED <<locked, ok>>

\* Start a run on a new client.
Start(r) ==
    /\ req' = r
    /\ pc' = "connect"
    /\ loaded' = FALSE
    /\ map' = Empty
    /\ changed' = FALSE
    /\ todo' = Empty
    /\ cur' = NoCur
    /\ ok' = TRUE
    /\ method' = 1
    /\ topFailed' = FALSE

-----------------------------------------------------------------------------
(* The steps of a run. *)

\* withClient and _getNewClient: run at once, or wait for the running client.
Ask(kind, m) ==
    LET r == [id |-> issued + 1, kind |-> kind, uidl |-> m]
    IN  /\ issued < MaxRequests
        /\ issued' = issued + 1
        /\ IF Idle
           THEN Start(r) /\ UNCHANGED queue
           ELSE /\ queue' = Append(queue, r)
                /\ UNCHANGED <<req, pc, loaded, map, changed, todo, cur, ok, method, topFailed>>
        /\ UNCHANGED <<prefs, server, folder, ghosts, popstate, open, prompts,
                       writes, answered>>

\* The connection is up: getMail or fetchBodyForUidl reads popstate.dat.
Connect ==
    LET mp == Load(popstate)
    IN  /\ pc = "connect"
        /\ writes = <<>>
        /\ open' = TRUE
        /\ loaded' = TRUE
        /\ \/ /\ req.kind # "body"
              /\ map' = mp
              /\ pc' = "auth"
              /\ UNCHANGED <<changed, todo, cur, writes, ok>>
           \/ /\ req.kind = "body"
              /\ mp[req.uidl].st = "b"
              /\ map' = [mp EXCEPT ![req.uidl].st = "f"]
              /\ pc' = "auth"
              /\ UNCHANGED <<changed, todo, cur, writes, ok>>
           \/ /\ req.kind = "body"
              /\ mp[req.uidl].st # "b"
              /\ Done(FALSE, cur, todo, mp, FALSE, writes)
        /\ UNCHANGED <<prefs, server, folder, queue, issued, answered, req, ghosts, login,
                       popstate, topFailed>>

\* The connection cannot be made: _onError.
ConnectFails ==
    /\ pc = "connect"
    /\ "lost" \in Faults
    /\ Fail
    /\ UNCHANGED <<prefs, server, folder, runs, ghosts, login, popstate, open, topFailed>>

\* The server accepts the login; the session sees the mailbox as it is now.
AuthAccepted ==
    /\ pc = "auth"
    /\ pc' = "stat"
    /\ drop' = mailbox
    /\ UNCHANGED <<prefs, arrived, mailbox, dele, folder, runs, ghosts, login, work,
                   popstate, open, topFailed>>

\* _actionAuthResponse after a refusal: the next method, or the user's decision.
\* A server that hung up (~stays) is connected to again.
AuthRejected(stays) ==
    LET again == IF stays THEN "auth" ELSE "connect"
    IN  /\ pc = "auth"
        /\ "auth" \in Faults
        /\ open' = stays
        /\ \/ /\ method < Methods
              /\ method' = method + 1
              /\ pc' = again
              /\ UNCHANGED <<prompts, work>>
           \/ /\ method = Methods
              /\ prompts < MaxPrompts
              /\ prompts' = prompts + 1
              /\ method' = 1
              /\ pc' = again
              /\ UNCHANGED work
           \/ /\ method = Methods
              /\ Fail
              /\ UNCHANGED login
        /\ UNCHANGED <<prefs, server, folder, runs, ghosts, popstate, topFailed>>

\* _actionStatResponse
StatReply ==
    /\ pc = "stat"
    /\ Quiet
    /\ \/ /\ drop = {}
          /\ Done(TRUE, cur, todo, Empty, changed \/ map # Empty, writes)
          /\ UNCHANGED locked
       \/ /\ drop # {}
          /\ req.kind = "check" /\ prefs.keep = "never"
          /\ Done(TRUE, cur, todo, map, changed, writes)
          /\ UNCHANGED locked
       \/ /\ drop # {}
          /\ req.kind # "check" \/ prefs.keep # "never"
          /\ locked' = (req.kind # "check")
          /\ pc' = "list"
          /\ UNCHANGED work
       \/ /\ drop # {}
          /\ req.kind # "check"
          /\ "busy" \in Faults
          /\ Fail
          /\ UNCHANGED locked
    /\ UNCHANGED <<prefs, server, bodies, runs, ghosts, login, popstate, open, topFailed>>

\* _actionListResponse
ListReply ==
    /\ pc = "list"
    /\ Quiet
    /\ pc' = "uidl"
    /\ UNCHANGED <<prefs, server, folder, runs, ghosts, login, work, popstate, open,
                   topFailed>>

\* Variant: heads of messages are taken for messages already fetched.
UidlRuleNoHeads(e, old) ==
    CASE e.st = "-" -> "new"
      [] e.st \in {"k", "b"} /\ (prefs.keep = "never" \/ old) -> "d"
      [] e.st \in {"d", "f"} -> e.st
      [] OTHER -> "-"

\* What _actionUidlResponse decides about a message it finds on the server; old
\* says that the message was received before the cut-off date.
UidlRule(e, old) ==
    CASE e.st = "-" -> "new"
      [] e.st = "k" /\ (prefs.keep = "never" \/ old) -> "d"
      [] e.st \in {"d", "f"} -> e.st
      [] OTHER -> "-"

\* The pending message made of it.
ToHandle(m, old) ==
    LET rule == UidlRule(map[m], old)
    IN  CASE m \notin drop \/ rule = "-" -> None
          [] m \in drop /\ rule = "new" ->
               Fresh(IF prefs.limit /\ m \in Big THEN "b" ELSE "f")
          [] OTHER -> [map[m] EXCEPT !.st = rule]

\* The map keeps what is still on the server and needs nothing; UIDLs that are
\* gone from the server are forgotten.
Remembered(all) ==
    [m \in Msgs |-> IF m \in drop /\ all[m] = None THEN map[m] ELSE None]

\* _actionUidlResponse: sort the messages on the server into those to handle and
\* those to leave alone.
UidlReply(Old) ==
    LET all == [m \in Msgs |-> ToHandle(m, m \in Old)]
        single == req.kind = "body"
        t == IF single THEN [m \in Msgs |-> IF m = req.uidl THEN all[m] ELSE None]
             ELSE all
        mp == IF single THEN map ELSE Remembered(all)
    IN  /\ pc = "uidl"
        /\ prefs.uidl
        /\ Quiet
        /\ Old # {} => prefs.keep = "days"
        /\ \/ /\ req.kind = "check"
              /\ Done(TRUE, cur, all, map, changed, writes)
              /\ UNCHANGED locked
           \/ /\ single /\ Pending(t) = {}
              /\ Done(FALSE, cur, t, map, changed, writes)
              /\ UNCHANGED locked
           \/ /\ req.kind = "get" \/ (single /\ Pending(t) # {})
              /\ "disk" \in Faults
              /\ Done(FALSE, cur, t, map, changed, writes)
              /\ UNCHANGED locked
           \/ /\ req.kind = "get" \/ (single /\ Pending(t) # {})
              /\ HandleMessage(t, mp,
                     \/ Pending(t) # {}
                     \/ Cardinality(Pending(map)) # Cardinality(Pending(mp)),
                     writes)
        /\ UNCHANGED <<prefs, server, bodies, runs, ghosts, login, popstate, open, topFailed>>

\* _actionNoUidl on a server without UIDL: every message is fetched and deleted,
\* unless a setting needs UIDLs.
NoUidl ==
    /\ pc = "uidl"
    /\ ~prefs.uidl
    /\ Quiet
    /\ \/ /\ prefs.keep # "never" \/ prefs.limit \/ req.kind = "body"
          /\ Fail
          /\ UNCHANGED locked
       \/ /\ prefs.keep = "never" /\ ~prefs.limit /\ req.kind # "body"
          /\ HandleMessage([m \in Msgs |-> IF m \in drop THEN Fresh("f") ELSE None],
                           map, changed, writes)
    /\ UNCHANGED <<prefs, server, bodies, runs, ghosts, login, popstate, open, topFailed>>

\* markMessages on the running client: one status is changed, then the map is
\* written at once.
MarkedMap(m, mk) == PutBack([map EXCEPT ![m].st = mk], todo)
MarkedWrites(mp) == Append(writes, Write(mp, TRUE, "mark"))

\* A filter that runs while the message is stored may mark it ("-" when none does).
FilterMark(mk) ==
    /\ mk # "-" => marks < MaxMarks
    /\ marks' = IF mk = "-" THEN marks ELSE marks + 1
    /\ asked' = IF mk = "d" THEN [asked EXCEPT ![cur.msg] = "filter"] ELSE asked

\* _actionTopResponse once the head is stored.
TopReply(mk) ==
    LET m == cur.msg
        mp == IF mk = "-" THEN map ELSE MarkedMap(m, mk)
        wr == IF mk = "-" THEN writes ELSE MarkedWrites(mp)
    IN  /\ pc = "top"
        /\ Quiet
        /\ FilterMark(mk)
        /\ \/ /\ mp[m].st \in {"f", "d"}
              /\ pc' = Command(mp[m].st, topFailed)
              /\ map' = mp
              /\ writes' = wr
              /\ changed' = (changed \/ mk # "-")
              /\ UNCHANGED <<todo, cur, ok, locked>>
           \/ /\ mp[m].st \notin {"f", "d"}
              /\ HandleMessage(todo, [mp EXCEPT ![m] = Known("b")], TRUE, wr)
        /\ UNCHANGED <<prefs, server, bodies, runs, mishaps, login, popstate, open, topFailed>>

\* _actionTopResponse on -ERR: the server has no TOP, fetch the whole message.
TopRefused ==
    /\ pc = "top"
    /\ Quiet
    /\ "err" \in Faults
    /\ topFailed' = TRUE
    /\ pc' = "retr"
    /\ UNCHANGED <<prefs, server, folder, runs, ghosts, login, work, popstate, open>>

\* _actionRetrResponse once the whole message is stored.
RetrReply(mk) ==
    LET m == cur.msg
        mp == IF mk = "-" THEN map ELSE MarkedMap(m, mk)
        wr == IF mk = "-" THEN writes ELSE MarkedWrites(mp)
    IN  /\ pc = "retr"
        /\ Quiet
        /\ FilterMark(mk)
        /\ bodies' = [bodies EXCEPT ![m] = @ + 1]
        /\ \/ /\ prefs.keep = "never" \/ mp[m].st = "d"
              /\ pc' = "dele"
              /\ map' = mp
              /\ writes' = wr
              /\ changed' = (changed \/ mk # "-")
              /\ UNCHANGED <<todo, cur, ok, locked>>
           \/ /\ prefs.keep # "never" /\ mp[m].st # "d"
              /\ HandleMessage(todo, [mp EXCEPT ![m] = Known("k")], TRUE, wr)
        /\ UNCHANGED <<prefs, server, runs, mishaps, login, popstate, open, topFailed>>

\* The folder cannot be written: _actionError from the handler of TOP or RETR.
StoreFails ==
    /\ pc \in {"top", "retr"}
    /\ Quiet
    /\ "disk" \in Faults
    /\ Fail
    /\ UNCHANGED <<prefs, server, folder, runs, ghosts, login, popstate, open, topFailed>>

\* _actionDeleteResponse
DeleReply ==
    /\ pc = "dele"
    /\ Quiet
    /\ dele' = dele \cup {cur.msg}
    /\ HandleMessage(todo, map, changed, writes)
    /\ UNCHANGED <<prefs, arrived, mailbox, drop, bodies, runs, ghosts, login, popstate,
                   open, topFailed>>

\* A command is refused with -ERR: _actionError.
Refused ==
    /\ pc \in {"stat", "list", "uidl", "retr", "dele"}
    /\ pc = "uidl" => prefs.uidl
    /\ Quiet
    /\ "err" \in Faults
    /\ Fail
    /\ mishaps' = mishaps \cup {"err"}
    /\ UNCHANGED <<prefs, server, folder, runs, asked, marks, login, popstate, open, topFailed>>

\* The connection is lost: _onClose ends the run as if all were well, _onError
\* (an error status) as a failure.
Lost(status) ==
    /\ Working
    /\ "lost" \in Faults
    /\ open' = FALSE
    /\ dele' = {}
    /\ mishaps' = mishaps \cup {"cut"}
    /\ Done(status, cur, todo, map, changed, writes)
    /\ UNCHANGED <<prefs, arrived, mailbox, drop, folder, runs, asked, marks, login,
                   popstate, topFailed>>
\* A write of popstate.dat ends.  Only the client that started it looks at the
\* outcome: it clears the flag when it was told to, goes on with the message it
\* had taken, or, in _actionDone, sends QUIT.
WriteDone(success) ==
    LET w == Head(writes)
        mine == w.run = req.id /\ ~Idle
    IN  /\ writes # <<>>
        /\ success \/ "disk" \in Faults
        /\ popstate' = IF success THEN w.file ELSE popstate
        /\ mishaps' = IF success THEN mishaps ELSE mishaps \cup {"disk"}
        /\ \/ /\ mine /\ w.who = "done"
              /\ pc' = "quit"
              /\ ok' = (ok /\ success)
              /\ changed' = (changed /\ ~success)
              /\ writes' = Tail(writes)
              /\ UNCHANGED <<map, todo, cur>>
           \/ /\ mine /\ w.who = "periodic" /\ pc = "pause"
              /\ \/ /\ success
                    /\ pc' = Command(cur.e.st, topFailed)
                    /\ writes' = Tail(writes)
                    /\ UNCHANGED <<map, changed, todo, cur, ok>>
                 \/ /\ ~success
                    /\ Done(FALSE, cur, todo, map, changed, Tail(writes))
           \/ /\ ~mine \/ w.who = "mark" \/ (w.who = "periodic" /\ pc # "pause")
              /\ changed' = (changed /\ ~(mine /\ w.reset /\ success))
              /\ writes' = Tail(writes)
              /\ UNCHANGED <<pc, map, todo, cur, ok>>
        /\ UNCHANGED <<prefs, server, folder, runs, asked, marks, login, open, topFailed>>

\* Variant: the next run is started only after a run that went well.
NextRunOnSuccess == IF ok /\ queue # <<>> THEN Head(queue) ELSE NoReq

\* onFree: the run to start now, the one that waits longest.
NextRun == IF queue # <<>> THEN Head(queue) ELSE NoReq

\* The reply to QUIT, the three second timer or a closed socket: _cleanUp tells the
\* caller, aborts a delivery that was not ended, which releases the folder, and lets the
\* next run start.  A server that got the QUIT (quitSeen) removes what was DELEd.
CleanUp(quitSeen) ==
    /\ pc = "quit"
    /\ quitSeen => open
    /\ ~quitSeen => (~open \/ "lost" \in Faults)
    /\ mailbox' = IF quitSeen THEN mailbox \ dele ELSE mailbox
    /\ mishaps' = IF open /\ ~quitSeen THEN mishaps \cup {"cut"} ELSE mishaps
    /\ dele' = {}
    /\ drop' = {}
    /\ open' = FALSE
    /\ locked' = FALSE
    /\ answered' = answered \cup {req.id}
    /\ \/ /\ NextRun # NoReq
          /\ Start(NextRun)
          /\ queue' = Tail(queue)
       \/ /\ NextRun = NoReq
          /\ pc' = "idle"
          /\ req' = NoReq /\ loaded' = FALSE
          /\ map' = Empty /\ todo' = Empty /\ cur' = NoCur
          /\ changed' = FALSE /\ ok' = TRUE /\ method' = 1 /\ topFailed' = FALSE
          /\ UNCHANGED queue
    /\ UNCHANGED <<prefs, arrived, bodies, issued, asked, marks, prompts, popstate, writes>>

-----------------------------------------------------------------------------
(* The world around a run. *)

\* A new message reaches the server.  A session sees the mailbox as it is at login,
\* so an arrival at any other time is the same as one just before the next login.
Deliver(m) ==
    /\ pc = "auth"
    /\ m \notin arrived
    /\ arrived' = arrived \cup {m}
    /\ mailbox' = mailbox \cup {m}
    /\ UNCHANGED <<prefs, drop, dele, folder, runs, ghosts, login, work, popstate, pc,
                   open, topFailed>>

\* The user deletes a message ("d") or asks for its body ("f"): addUidlToMark and
\* markMessages.  A client that has read popstate.dat marks its own map; otherwise
\* the file is read, marked and written by a client of its own.
UserMark(m, mk) ==
    /\ marks < MaxMarks
    /\ bodies[m] > 0 \/ popstate[m] # "-"
    /\ mk = "f" => m \in Big /\ bodies[m] = 0
    /\ marks' = marks + 1
    /\ asked' = IF mk = "d" /\ asked[m] = "no" THEN [asked EXCEPT ![m] = "user"] ELSE asked
    /\ \/ /\ ~loaded
          /\ writes = <<>>
          /\ popstate' = IF popstate[m] = "-" THEN popstate
                         ELSE [popstate EXCEPT ![m] = mk]
          /\ UNCHANGED <<map, changed, writes>>
       \/ /\ loaded
          /\ map' = MarkedMap(m, mk)
          /\ changed' = TRUE
          /\ writes' = MarkedWrites(MarkedMap(m, mk))
          /\ UNCHANGED popstate
    /\ UNCHANGED <<prefs, server, folder, runs, mishaps, login, todo, cur, ok, pc, open,
                   topFailed>>

\* What a kill leaves of popstate.dat: IOUtils.writeUTF8 writes in place, so a write
\* in flight may have happened, not have happened, or have left an empty file.
AfterKill ==
    {popstate} \cup
    (IF writes = <<>> THEN {}
     ELSE {Head(writes).file, [m \in Msgs |-> "-"]})

\* The program is killed: connection and map are gone, and with them the runs and
\* those who asked for them.
Crash ==
    /\ "crash" \in Faults
    /\ "crash" \notin mishaps
    /\ ~Idle \/ writes # <<>>
    /\ mishaps' = mishaps \cup {"crash"}
    /\ popstate' \in AfterKill
    /\ pc' = "idle" /\ req' = NoReq /\ loaded' = FALSE /\ open' = FALSE
    /\ map' = Empty /\ todo' = Empty /\ cur' = NoCur /\ changed' = FALSE /\ ok' = TRUE
    /\ method' = 1 /\ topFailed' = FALSE
    /\ writes' = <<>>
    /\ locked' = FALSE
    /\ queue' = <<>>
    /\ answered' = 1..issued
    /\ dele' = {} /\ drop' = {}
    /\ UNCHANGED <<prefs, arrived, mailbox, bodies, issued, asked, marks, prompts>>

-----------------------------------------------------------------------------

Init ==
    /\ prefs \in [keep : Keep, limit : BOOLEAN, uidl : BOOLEAN]
    /\ arrived = {} /\ mailbox = {} /\ drop = {} /\ dele = {}
    /\ popstate = [m \in Msgs |-> "-"]
    /\ bodies = [m \in Msgs |-> 0]
    /\ locked = FALSE
    /\ pc = "idle" /\ req = NoReq /\ loaded = FALSE /\ open = FALSE
    /\ map = Empty /\ changed = FALSE /\ todo = Empty /\ cur = NoCur /\ ok = TRUE
    /\ method = 1 /\ topFailed = FALSE
    /\ writes = <<>>
    /\ queue = <<>> /\ issued = 0 /\ answered = {}
    /\ prompts = 0
    /\ asked = [m \in Msgs |-> "no"] /\ marks = 0 /\ mishaps = {}

\* What happens without anyone asking for it once a run has begun.
RunStep ==
    \/ Connect \/ ConnectFails
    \/ AuthAccepted \/ \E stays \in BOOLEAN : AuthRejected(stays)
    \/ StatReply \/ ListReply \/ NoUidl
    \/ \E Old \in SUBSET Msgs : UidlReply(Old)
    \/ \E mk \in {"-", "d", "f"} : TopReply(mk)
    \/ \E mk \in {"-", "d"} : RetrReply(mk)
    \/ TopRefused \/ StoreFails \/ DeleReply \/ Refused
    \/ \E status \in BOOLEAN : Lost(status)
    \/ \E success \in BOOLEAN : WriteDone(success)
    \/ \E quitSeen \in BOOLEAN : CleanUp(quitSeen)

Next ==
    \/ RunStep
    \/ Ask("get", NoMsg) \/ Ask("check", NoMsg)
    \/ \E m \in Big \cap arrived : Ask("body", m)
    \/ \E m \in Msgs : Deliver(m)
    \/ \E m \in Msgs, mk \in {"d", "f"} : UserMark(m, mk)
    \/ Crash

\* The server answers or the socket times out, and the file system ends its writes.
Fairness == WF_vars(RunStep)

Spec == Init /\ [][Next]_vars /\ Fairness
-----------------------------------------------------------------------------
(* Properties. *)

Requests == [id : 0..MaxRequests, kind : {"get", "check", "body"}, uidl : Msgs \cup {NoMsg}]

TypeOK ==
    /\ prefs \in [keep : AllKeep, limit : BOOLEAN, uidl : BOOLEAN]
    /\ mailbox \subseteq arrived /\ drop \subseteq mailbox /\ dele \subseteq drop
    /\ arrived \subseteq Msgs
    /\ popstate \in [Msgs -> Status]
    /\ bodies \in [Msgs -> 0..MaxRequests]
    /\ {locked, open, loaded, changed, ok, topFailed} \subseteq BOOLEAN
    /\ pc \in {"idle", "connect", "auth", "stat", "list", "uidl", "top", "retr", "dele",
               "pause", "saving", "quit"}
    /\ req \in Requests
    /\ map \in [Msgs -> Entry] /\ todo \in [Msgs -> Entry]
    /\ cur \in [msg : Msgs \cup {NoMsg}, e : Entry]
    /\ method \in 1..Methods /\ prompts \in 0..MaxPrompts
    /\ \A i \in DOMAIN writes :
         writes[i] \in [file : [Msgs -> Status], reset : BOOLEAN, run : 0..MaxRequests,
                       who : {"done", "mark", "periodic"}]
    /\ \A i \in DOMAIN queue : queue[i] \in Requests
    /\ issued \in 0..MaxRequests /\ answered \subseteq 1..issued
    /\ asked \in [Msgs -> {"no", "user", "filter"}] /\ marks \in 0..MaxMarks
    /\ mishaps \subseteq {"crash", "cut", "disk", "err"}

\* A message that is gone from the server is in the folder in full, unless the user
\* or a filter had asked for its deletion: the order RETR, store, DELE, QUIT and
\* the statuses of popstate.dat lose nothing, whatever fails in between.
NothingLost ==
    \A m \in arrived \ mailbox : bodies[m] > 0 \/ asked[m] # "no"

\* A message is stored twice only after popstate.dat was lost or could not be
\* written, when a filter deleted it, when its DELE was refused right after it was
\* stored or after a mark was written, or when the session that deleted it was cut.
\* Nothing else that fails, a refused DELE of an older message included, makes the
\* client fetch again what it has.
StoredOnce ==
    \A m \in Msgs :
        bodies[m] > 1 => \/ mishaps \cap {"crash", "disk"} # {}
                         \/ asked[m] = "filter"
                         \/ "err" \in mishaps /\ (prefs.keep = "never" \/ marks > 0)
                         \/ /\ "cut" \in mishaps
                            /\ prefs.keep # "always" \/ asked[m] = "user"

\* Every run asked for is told of its end: none is forgotten in the waiting queue.
EveryRequestAnswered ==
    \A i \in 1..MaxRequests : (issued >= i) ~> (i \in answered)
=============================================================================
