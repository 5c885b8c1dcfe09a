------------------------------ MODULE SmtpPool ------------------------------
(***************************************************************************)
(* Sending mail over a pool of SMTP connections: sendMailMessage,          *)
(* _getNextClient and closeCachedConnections of SmtpServer.sys.mjs, and    *)
(* the SmtpClient.sys.mjs objects they hand from one send to the next.     *)
(*                                                                         *)
(* A client object outlives its sockets and its sends: its callbacks       *)
(* (onidle, onready, ondone, onerror, onFree) are those of the send that   *)
(* took it last, and the close event of an earlier socket still reaches    *)
(* it.  A message has one recipient and fits the socket's buffer; greeting, *)
(* EHLO and STARTTLS are one exchange, "hello", and the steps of one       *)
(* authentication another one, "login".                                    *)
(***************************************************************************)
EXTENDS Naturals, Sequences, FiniteSets

CONSTANTS
    Sends,        \* the messages to send
    NoSend,       \* no message
    MaxClients,   \* bound: number of client objects ever made
    MaxConns,     \* maximumConnectionsNumber
    MsgsPerConn,  \* max_messages_per_connection
    MaxPrompts,   \* bound: how often the user answers "Retry" to a failed login
    Faults        \* the faults that may happen, a subset of AllFaults

\* perm, temp: a command is refused with 5xx, 4xx; reject: the message itself is;
\* auth: a login is refused, authStep: in the middle of its exchange, authHangup: by
\* hanging up; refused: no connection can be made; net, tls: a socket error on an open
\* plain or TLS connection; hangup: the server closes the connection; quit: the QUIT
\* timer of an idle connection fires.
AllFaults == {"perm", "temp", "reject", "auth", "authStep", "authHangup", "refused",
              "net", "tls", "hangup", "quit"}

ASSUME SmtpAssumption ==
    /\ NoSend \notin Sends
    /\ {MaxClients, MaxConns, MsgsPerConn} \subseteq Nat \ {0}
    /\ MaxPrompts \in Nat
    /\ Faults \subseteq AllFaults

Clients == 1..MaxClients

VARIABLES
    client,     \* the client objects
    made,       \* how many of them exist
    free,       \* _freeConnections
    busy,       \* _busyConnections
    waiting,    \* _connectionWaitingQueue: promises of waiting sends, to be resolved
    waits,      \* how many such promises each send has made
    woken,      \* sends whose promise is resolved and that try again next
    taken,      \* sends that got a client
    active,     \* sendIsActive
    told,       \* what each send was told at last
    answers,    \* how often it was told something
    delivered,  \* how often the server accepted each message
    prompts     \* number of times the user chose to log in again

vars == <<client, made, free, busy, waiting, waits, woken, taken, active, told,
          answers, delivered, prompts>>

-----------------------------------------------------------------------------
(* A client.                                                               *)

\* sock: "open" is readyState open; "gone" too, but the server has closed and the
\* close event is yet to come; "closing" is closed by us, with the event to come.
Sockets == {"closed", "connecting", "open", "gone", "closing"}

\* act: _currentAction.
Actions == {"none", "hello", "login", "idle", "mail", "rcpt", "data", "stream", "close"}

\* tx: how far the server is with a message on this connection.
Transactions == {"none", "mail", "rcpt", "data"}

\* A command on the wire, with the send it belongs to.
Cmd(name, s) == [name |-> name, send |-> s]

NewClient ==
    [sock |-> "closed", act |-> "none", send |-> NoSend, wire |-> <<>>,
     fresh |-> FALSE, freed |-> FALSE, retry |-> FALSE, reuse |-> TRUE,
     timer |-> FALSE, auth |-> FALSE, sent |-> 0, stale |-> 0, failing |-> FALSE,
     tx |-> "none"]

Open(k) == k.sock \in {"open", "gone"}

\* Variant: the state of the socket is not looked at.
SendCmdAnyway(k, name) == [k EXCEPT !.wire = Append(@, Cmd(name, k.send))]

\* _sendCommand: lost unless the socket is open.
SendCmd(k, name) ==
    IF k.sock = "open" THEN [k EXCEPT !.wire = Append(@, Cmd(name, k.send))] ELSE k

\* quit
Quit(k) == [SendCmd(k, "quit") EXCEPT !.auth = FALSE, !.act = "close"]

\* onidle of the current send, and useEnvelope: MAIL is sent once for each send, and
\* again after a retry.
OnIdle(k) ==
    IF k.fresh \/ k.retry
    THEN [SendCmd(k, "mail") EXCEPT !.fresh = FALSE, !.act = "mail", !.timer = FALSE]
    ELSE k

\* connect: use the open socket, or make a new one.  The close event of a socket that
\* is still closing will come later (stale).
Connect(k) ==
    IF Open(k)
    THEN [OnIdle(k) EXCEPT !.freed = FALSE]
    ELSE [k EXCEPT !.sock = "connecting", !.wire = <<>>, !.sent = 0, !.freed = FALSE,
                   !.stale = IF k.sock = "closing" THEN @ + 1 ELSE @]

-----------------------------------------------------------------------------
(* Handlers run to completion: each is a function from a state to a state, *)
(* so that they can call one another.                                      *)

Now == [client |-> client, free |-> free, busy |-> busy, waiting |-> waiting,
        woken |-> woken, told |-> told, answers |-> answers]

Become(s) ==
    /\ client' = s.client
    /\ free' = s.free
    /\ busy' = s.busy
    /\ waiting' = s.waiting
    /\ woken' = s.woken
    /\ told' = s.told
    /\ answers' = s.answers

Set(s, c, k) == [s EXCEPT !.client[c] = k]

\* ondone or onerror of the send the client has now: onSendStop.
Tell(s, c, what) ==
    LET snd == s.client[c].send
    IN  IF snd = NoSend THEN s
        ELSE [s EXCEPT !.told[snd] = what, !.answers[snd] = @ + 1]

\* The sends that wake up when the promises of es are resolved: a promise that was
\* resolved before, or whose send waits on a newer one, wakes nobody.
Wakes(es) == {e.send : e \in {x \in es : x.send \notin taken /\ x.n = waits[x.send]}}

\* Variant: nobody is woken.
WakeNobody(s) == s

\* onFree: resolve the first promise in the queue.
WakeFirst(s) ==
    IF s.waiting = <<>> THEN s
    ELSE [s EXCEPT !.waiting = Tail(@), !.woken = @ \cup Wakes({Head(s.waiting)})]

\* onFree: a client at its limit is left to QUIT, any other one goes back to the pool
\* and wakes the send that waits longest.
OnFree(s, c) ==
    IF ~s.client[c].reuse
    THEN [s EXCEPT !.busy = @ \ {c}, !.client[c] = Quit(@)]
    ELSE WakeFirst([s EXCEPT !.busy = @ \ {c}, !.free = Append(@, c)])

\* _free
Free(s, c) ==
    IF s.client[c].freed THEN s
    ELSE OnFree([s EXCEPT !.client[c].freed = TRUE], c)

\* close
Close(s, c) ==
    IF Open(s.client[c])
    THEN [s EXCEPT !.client[c].sock = "closing", !.client[c].wire = <<>>]
    ELSE Free(s, c)

\* _onNsError: whether a 4xx reply is worth a new connection.
Retries(k, temp) == temp /\ ~k.retry /\ k.act \in {"mail", "rcpt"}

\* _onNsError: one retry on a new socket, or the send is told and the socket closed.
NsError(s, c, temp) ==
    LET k == s.client[c]
        again == [Quit(k) EXCEPT !.retry = TRUE, !.sock = "closing", !.wire = <<>>]
    IN  IF Retries(k, temp)
        THEN Set(s, c, Connect(again))
        ELSE Close(Tell(s, c, "failed"), c)

\* _onAuthFailed once every method was tried: the user gives up, or tries again on
\* this connection or, when it was lost, on a new one.
AuthFailed(s, c, again) ==
    LET k == s.client[c]
    IN  IF ~again THEN NsError(s, c, FALSE)
        ELSE IF k.freed THEN Set(s, c, Connect(k))
        ELSE Set(s, c, SendCmd([k EXCEPT !.act = "login", !.auth = TRUE], "login"))

\* Variant: a connection that was lost in the middle is made again.
OnCloseRetry(s, c, again) ==
    IF s.client[c].act \in {"mail", "rcpt", "data", "stream"}
    THEN Set(s, c, Connect([s.client[c] EXCEPT !.retry = TRUE])) ELSE Free(s, c)

\* _onClose, for the current socket or a stale one.
OnClose(s, c, again) ==
    LET s1 == Free(s, c)
    IN  IF s1.client[c].auth THEN AuthFailed(s1, c, again) ELSE s1

\* closeCachedConnections: every connection gets a QUIT and is forgotten; the waiting
\* sends are woken, but stay in the queue.
CloseCached(s) ==
    LET gone == s.busy \cup {s.free[i] : i \in DOMAIN s.free}
    IN  [s EXCEPT !.client = [c \in Clients |-> IF c \in gone THEN Quit(@[c]) ELSE @[c]],
                  !.woken = @ \cup Wakes({s.waiting[i] : i \in DOMAIN s.waiting}),
                  !.free = <<>>,
                  !.busy = {}]
-----------------------------------------------------------------------------
(* The pool.                                                               *)

\* The client's callbacks become those of send m, and connect is called.
Assign(s, c, m) ==
    Set([s EXCEPT !.busy = @ \cup {c}], c,
        Connect([s.client[c] EXCEPT !.send = m, !.fresh = TRUE]))

\* Whether the pool may make one more client.
Room == Len(free) + Cardinality(busy) < MaxConns

\* Variant: the client handed out stays among the free ones.
Peeked == free

\* _freeConnections after pop.
Popped == SubSeq(free, 1, Len(free) - 1)

\* _getNextClient: the newest free client, a new one, or wait.
GetNextClient(m) ==
    \/ /\ free # <<>>
       /\ Become(Assign([Now EXCEPT !.free = Popped,
                                     !.woken = @ \ {m}], free[Len(free)], m))
       /\ taken' = taken \cup {m}
       /\ UNCHANGED <<made, waits>>
    \/ /\ free = <<>>
       /\ Room
       /\ made < MaxClients
       /\ made' = made + 1
       /\ Become(Assign([Now EXCEPT !.woken = @ \ {m}], made + 1, m))
       /\ taken' = taken \cup {m}
       /\ UNCHANGED waits
    \/ /\ free = <<>>
       /\ ~Room
       /\ waits' = [waits EXCEPT ![m] = @ + 1]
       /\ Become([Now EXCEPT !.woken = @ \ {m},
                             !.waiting = Append(@, [send |-> m, n |-> waits[m] + 1])])
       /\ UNCHANGED <<made, taken>>

\* Promise continuations run before the next event.
Settled == woken = {}

\* sendMailMessage
SendMailMessage(m) ==
    /\ Settled
    /\ m \notin taken /\ waits[m] = 0
    /\ active' = TRUE
    /\ GetNextClient(m)
    /\ UNCHANGED <<delivered, prompts>>

\* A waiting send goes on.
Resume(m) ==
    /\ m \in woken
    /\ GetNextClient(m)
    /\ UNCHANGED <<active, delivered, prompts>>

-----------------------------------------------------------------------------
(* Socket events.                                                          *)

rest == <<made, waits, taken, active, delivered, prompts>>

\* Whether a command is in turn: the server takes one message after the other.
InTurn(cmd, tx) ==
    CASE cmd = "mail" -> tx = "none"
      [] cmd = "rcpt" -> tx \in {"mail", "rcpt"}
      [] cmd = "data" -> tx = "rcpt"
      [] cmd = "dot" -> tx = "data"
      [] OTHER -> TRUE

\* How far the server is after its answer.
Advance(cmd, tx, code) ==
    CASE cmd = "dot" -> "none"
      [] cmd \in {"mail", "rcpt", "data"} /\ code \in {"250", "354"} -> cmd
      [] OTHER -> tx

\* The messages on the wire that a server accepts if it still gets all that was sent.
Accepts(k) ==
    {k.wire[i].send : i \in {j \in DOMAIN k.wire :
       /\ k.wire[j].name = "dot"
       /\ InTurn(k.wire[1].name, k.tx)
       /\ \A l \in 2..j : InTurn(k.wire[l].name, Advance(k.wire[l-1].name, "none", "250"))}}

\* A connection is lost.  If a message was on its way, the server may have accepted it
\* although its reply is lost.
ReplyLost(k, accepted) ==
    IF accepted THEN \E m \in Accepts(k) : delivered' = [delivered EXCEPT ![m] = @ + 1]
    ELSE UNCHANGED delivered

\* _onOpen.  A connection takes a round trip: the close event of a socket the client
\* closed itself comes before its successor is open.
Opened(c) ==
    /\ Settled
    /\ client[c].stale = 0
    /\ client[c].sock = "connecting"
    /\ Become(Set(Now, c, [client[c] EXCEPT !.sock = "open", !.act = "hello", !.tx = "none",
                                            !.wire = <<Cmd("hello", client[c].send)>>]))
    /\ UNCHANGED rest

\* _onError, up to its await.  A socket that was open has its close event yet to come.
\* On a TLS connection the send is told only later.
SocketError(c, tls, accepted) ==
    LET k == client[c]
        end == IF k.sock = "open" THEN "closing" ELSE "closed"
        s1 == Set(Now, c, [k EXCEPT !.sock = end, !.wire = <<>>])
        s2 == Free(s1, c)
        s3 == Set(s2, c, [Quit(s2.client[c]) EXCEPT !.failing = tls])
    IN  /\ Settled
        /\ IF tls THEN "tls" \in Faults /\ k.sock = "open" /\ ~k.failing
           ELSE \/ "refused" \in Faults /\ k.sock = "connecting"
                \/ "net" \in Faults /\ k.sock = "open"
        /\ Become(CASE k.freed -> s1
                    [] ~k.freed /\ tls -> s3
                    [] OTHER -> Tell(s3, c, "failed"))
        /\ ReplyLost(k, accepted)
        /\ UNCHANGED <<made, waits, taken, active, prompts>>

\* _onError after its await: the security info is there, every connection is closed.
ErrorInfo(c) ==
    /\ Settled
    /\ client[c].failing
    /\ LET s1 == CloseCached(Set(Now, c, [client[c] EXCEPT !.failing = FALSE]))
       IN  Become(Tell(s1, c, "failed"))
    /\ UNCHANGED rest

\* Whether the user tries again, when _onAuthFailed asks.
Prompted(asks, again) ==
    /\ again => asks /\ prompts < MaxPrompts
    /\ prompts' = IF again THEN prompts + 1 ELSE prompts

\* The close event of the current socket.
Closed(c, again) ==
    /\ Settled
    /\ client[c].sock \in {"gone", "closing"}
    /\ Prompted(client[c].auth, again)
    /\ Become(OnClose(Set(Now, c, [client[c] EXCEPT !.sock = "closed", !.wire = <<>>]),
                      c, again))
    /\ UNCHANGED <<made, waits, taken, active, delivered>>

\* The close event of a socket the client has already replaced.
StaleClosed(c, again) ==
    /\ Settled
    /\ client[c].stale > 0
    /\ Prompted(client[c].auth, again)
    /\ Become(OnClose([Now EXCEPT !.client[c].stale = @ - 1], c, again))
    /\ UNCHANGED <<made, waits, taken, active, delivered>>

\* The server closes the connection, while it checks a login or at another moment; an
\* idle one perhaps with a 421 first, on which the client closes its side at once.
HangUp(c, accepted) ==
    LET k == client[c]
    IN  /\ Settled
        /\ k.sock = "open"
        /\ (IF k.auth THEN "authHangup" ELSE "hangup") \in Faults
        /\ \E end \in IF k.act = "idle" THEN {"gone", "closing"} ELSE {"gone"} :
             Become(Set(Now, c, [k EXCEPT !.sock = end, !.wire = <<>>]))
        /\ ReplyLost(k, accepted)
        /\ UNCHANGED <<made, waits, taken, active, prompts>>

\* The QUIT timer of an idle connection.
QuitTimer(c) ==
    /\ Settled
    /\ "quit" \in Faults
    /\ client[c].timer
    /\ LET k == [client[c] EXCEPT !.timer = FALSE]
       IN  Become(Set(Now, c, IF Open(k) /\ ~active THEN Quit(k) ELSE k))
    /\ UNCHANGED rest

-----------------------------------------------------------------------------
(* Replies.  The server answers commands in order; the client takes each   *)
(* reply as the answer to its current action.                              *)

\* Variant: no upper limit.
SuccessFrom200(code) == code \in {"250", "221", "354", "4xx", "5xx"}

\* _parse: a status code from 200 to 299.
Success(code) == code \in {"250", "221"}

\* What the server may answer, given the faults.
Codes(cmd, tx) ==
    CASE ~InTurn(cmd, tx) -> {"5xx"}
      [] InTurn(cmd, tx) /\ cmd = "quit" -> {"221"}
      [] InTurn(cmd, tx) /\ cmd = "data" ->
           {"354"} \cup (IF "perm" \in Faults THEN {"5xx"} ELSE {})
      [] OTHER ->
           {"250"} \cup {code \in {"4xx", "5xx"} :
              \/ code = "5xx" /\ cmd \in {"hello", "mail", "rcpt"} /\ "perm" \in Faults
              \/ code = "5xx" /\ cmd = "login" /\ "authStep" \in Faults
              \/ code = "5xx" /\ cmd = "dot" /\ "reject" \in Faults
              \/ code = "4xx" /\ cmd \in {"mail", "rcpt"} /\ "temp" \in Faults}

\* The handlers of a step that went well, up to the next command.
Proceed(k, act, cmd) == SendCmd([k EXCEPT !.act = act], cmd)

\* _actionStream: the message is accepted or not, and the client is free.
StreamDone(s, c, good) ==
    LET k == s.client[c]
        reuse == k.reuse /\ k.sent + 1 < MsgsPerConn
        s1 == Set(s, c, [k EXCEPT !.retry = @ /\ ~good, !.sent = @ + 1, !.reuse = reuse,
                                  !.timer = @ \/ reuse, !.act = "idle"])
        s2 == IF good THEN Tell(s1, c, "ok") ELSE NsError(s1, c, FALSE)
    IN  OnFree([s2 EXCEPT !.client[c].freed = TRUE], c)

\* _onCommand and the action it calls.
Handle(s, c, code) ==
    LET k == s.client[c]
    IN  CASE k.act = "hello" /\ Success(code) ->
               Set(s, c, Proceed([k EXCEPT !.auth = TRUE], "login", "login"))
          [] k.act = "login" /\ Success(code) ->
               Set(s, c, OnIdle([k EXCEPT !.auth = FALSE, !.act = "idle"]))
          [] k.act = "mail" /\ Success(code) -> Set(s, c, Proceed(k, "rcpt", "rcpt"))
          [] k.act = "rcpt" /\ Success(code) -> Set(s, c, Proceed(k, "data", "data"))
          [] k.act = "data" /\ code \in {"250", "354"} ->
               Set(s, c, Proceed(k, "stream", "dot"))
          [] k.act = "stream" -> StreamDone(s, c, Success(code))
          [] k.act = "close" -> Close(s, c)
          [] OTHER -> NsError(s, c, code = "4xx")

\* _onData for one reply.
Reply(c, code) ==
    LET k == client[c]
        cmd == Head(k.wire)
        k1 == IF cmd.name = "quit" THEN [k EXCEPT !.wire = <<>>, !.sock = "gone"]
              ELSE [k EXCEPT !.wire = Tail(@), !.tx = Advance(cmd.name, @, code)]
    IN  /\ Settled
        /\ k.sock = "open" /\ k.wire # <<>>
        /\ code \in Codes(cmd.name, k.tx)
        /\ delivered' = IF cmd.name = "dot" /\ code = "250"
                        THEN [delivered EXCEPT ![cmd.send] = @ + 1] ELSE delivered
        /\ active' = (active /\ ~(k.act = "stream" /\ k.reuse /\ k.sent + 1 < MsgsPerConn))
        /\ Become(Handle(Set(Now, c, k1), c, code))
        /\ UNCHANGED <<made, waits, taken, prompts>>

\* _actionAUTHComplete on a refusal by a server that stays.
AuthRejected(c, again) ==
    LET k == client[c]
    IN  /\ Settled
        /\ "auth" \in Faults
        /\ k.sock = "open" /\ k.act = "login" /\ k.wire # <<>>
        /\ Prompted(TRUE, again)
        /\ Become(AuthFailed(Set(Now, c, [k EXCEPT !.wire = Tail(@), !.auth = FALSE]),
                             c, again))
        /\ UNCHANGED <<made, waits, taken, active, delivered>>

-----------------------------------------------------------------------------

Init ==
    /\ client = [c \in Clients |-> NewClient]
    /\ made = 0
    /\ free = <<>> /\ busy = {} /\ waiting = <<>> /\ woken = {} /\ taken = {}
    /\ waits = [m \in Sends |-> 0]
    /\ active = FALSE
    /\ told = [m \in Sends |-> "no"]
    /\ answers = [m \in Sends |-> 0]
    /\ delivered = [m \in Sends |-> 0]
    /\ prompts = 0

\* What happens once a send has begun.
Step ==
    \/ \E m \in Sends : Resume(m)
    \/ \E c \in Clients :
         \/ Opened(c) \/ ErrorInfo(c)
         \/ \E code \in {"250", "354", "221", "4xx", "5xx"} : Reply(c, code)
         \/ \E again \in BOOLEAN :
              Closed(c, again) \/ StaleClosed(c, again) \/ AuthRejected(c, again)

Next ==
    \/ Step
    \/ \E m \in Sends : SendMailMessage(m)
    \/ \E c \in Clients :
         \/ QuitTimer(c)
         \/ \E accepted \in BOOLEAN :
              \/ HangUp(c, accepted)
              \/ \E tls \in BOOLEAN : SocketError(c, tls, accepted)

\* The server answers, and the event loop delivers what is due.
Fairness == WF_vars(Step)

Spec == Init /\ [][Next]_vars /\ Fairness

-----------------------------------------------------------------------------
(* Properties.                                                             *)

TypeOK ==
    /\ \A c \in Clients :
         LET k == client[c]
         IN  /\ k.sock \in Sockets /\ k.act \in Actions /\ k.tx \in Transactions
             /\ k.send \in Sends \cup {NoSend}
             /\ k.stale \in 0..(MaxPrompts + 2 * Cardinality(Sends))
             /\ k.wire # <<>> => k.sock = "open"
             /\ c > made => k = NewClient
    /\ made \in 0..MaxClients
    /\ \A i \in DOMAIN free : free[i] \in 1..made
    /\ busy \subseteq 1..made
    /\ woken \subseteq Sends \ taken /\ taken \subseteq Sends
    /\ told \in [Sends -> {"no", "ok", "failed"}]

\* However a send is retried, interrupted or mixed up with another one, and also if the
\* connection is lost after the server took the message and before its reply, the
\* server accepts the message at most once: _onNsError asks for a new connection only
\* while the data has not been sent, and _onClose and _onError for none at all.
DeliveredOnce == \A m \in Sends : delivered[m] <= 1

\* A send whose listener was told NS_OK (ondone) has had its message accepted by the
\* server, even where a client was handed to the next send too early and the replies of
\* two sends meet on one connection.
OkMeansDelivered == \A m \in Sends : told[m] = "ok" => delivered[m] > 0

\* What _getNextClient relies on: a connection in _freeConnections is there once, is not
\* in use, and its last send has been answered.
FreeIsIdle ==
    \A i \in DOMAIN free :
        /\ free[i] \notin busy
        /\ \A j \in DOMAIN free : free[i] = free[j] => i = j
        /\ client[free[i]].failing \/ answers[client[free[i]].send] > 0

\* Every call of sendMailMessage ends with onSendStop, also that of a send which had to
\* wait for a connection.
EverySendAnswered ==
    \A m \in Sends : (m \in taken \/ waits[m] > 0) ~> answers[m] > 0
=============================================================================
