--------------------------- MODULE SmtpPoolProofs ---------------------------
(***************************************************************************)
(* Proofs about SmtpPool: however connections are retried, lost, given     *)
(* back too early or twice, a message is accepted at most once, and a send *)
(* that was told NS_OK has been accepted; the pool holds idle clients      *)
(* while nothing happens to an open connection; types, and the number of   *)
(* close events that a client may still get.                               *)
(***************************************************************************)
EXTENDS SmtpPool, SequenceTheorems, FiniteSetTheorems, TLAPS

\* Either no command is ever refused with 4xx, so that no client has its retry flag
\* set, or the user does not answer "Retry" to a failed login.  The flag outlives its
\* send: together the two can send a message again that the server has.
RetriesOnce == MaxPrompts = 0 \/ "temp" \notin Faults

-----------------------------------------------------------------------------
(* The first invariant: what is still to be sent.                          *)

Senders == Sends \cup {NoSend}
Cmds == [name : {"hello", "login", "mail", "rcpt", "data", "dot", "quit"}, send : Senders]

ClientRecs ==
    [sock : Sockets, act : Actions, send : Senders, wire : Seq(Cmds), fresh : BOOLEAN,
     freed : BOOLEAN, retry : BOOLEAN, reuse : BOOLEAN, timer : BOOLEAN, auth : BOOLEAN,
     sent : Nat, stale : Nat, failing : BOOLEAN, tx : Transactions]

\* The part of the state that the handlers map, when the sends of tk have a client.
States(tk) ==
    [client : [Clients -> ClientRecs], free : Seq(Clients), busy : SUBSET Clients,
     waiting : Seq([send : Sends, n : Nat]), woken : SUBSET (Sends \ tk),
     told : [Sends -> {"no", "ok", "failed"}], answers : [Sends -> Nat]]

\* The end of a message is on the wire at most once.
HasDot(w, m) == \E i \in DOMAIN w : w[i] = Cmd("dot", m)
Single(w) == \A i, j \in DOMAIN w : w[i].name = "dot" /\ w[i] = w[j] => i = j

\* Envelope and data are on their way.
Sending(k) == k.act \in {"mail", "rcpt", "data"}

\* The client will not send its message any more.
Ended(k) ==
    /\ ~Sending(k)
    /\ ~k.fresh
    /\ k.retry => k.act \in {"stream", "idle", "close"} /\ k.sock # "connecting"

GoodClient(k) ==
    /\ k \in ClientRecs
    /\ Single(k.wire)
    /\ k.sock = "open" /\ Sending(k) => ~k.fresh
    /\ k.retry => "temp" \in Faults

\* A client that was never used: nothing will happen to it.
Unused(k) ==
    k.sock = "closed" /\ k.stale = 0 /\ ~k.failing /\ ~k.timer

Spent(cl, dl, m) == dl[m] > 0 \/ \E c \in Clients : HasDot(cl[c].wire, m)

Once(cl, dl, tk) ==
    /\ cl \in [Clients -> ClientRecs]
    /\ dl \in [Sends -> {0, 1}]
    /\ tk \subseteq Sends
    /\ \A c \in Clients : /\ GoodClient(cl[c])
                          /\ cl[c].send \in tk \cup {NoSend}
                          /\ cl[c].send = NoSend => Unused(cl[c])
    /\ \A c \in Clients, m \in Senders :
         HasDot(cl[c].wire, m) => m \in tk /\ dl[m] = 0
    /\ \A c, d \in Clients, m \in Senders :
         HasDot(cl[c].wire, m) /\ HasDot(cl[d].wire, m) => c = d
    /\ \A c, d \in Clients : cl[c].send = cl[d].send /\ cl[c].send # NoSend => c = d
    /\ \A c \in Clients : cl[c].send # NoSend /\ Spent(cl, dl, cl[c].send) => Ended(cl[c])
    /\ \A m \in Sends \ tk : dl[m] = 0

IInv ==
    /\ Once(client, delivered, taken)
    /\ Now \in States(taken)
    /\ made \in 0..MaxClients
    /\ waits \in [Sends -> Nat]
    /\ prompts \in 0..MaxPrompts

\* What a handler may make of a client.
Evo(k, k2) ==
    /\ GoodClient(k2)
    /\ k2.send = k.send
    /\ \A m \in Senders : HasDot(k2.wire, m) => HasDot(k.wire, m)
    /\ Ended(k) => Ended(k2)

\* What it may make of the wire.
Fewer(w, w2) ==
    /\ w2 \in Seq(Cmds)
    /\ Single(w) => Single(w2)
    /\ \A m \in Senders : HasDot(w2, m) => HasDot(w, m)

-----------------------------------------------------------------------------
(* The wire.                                                               *)

Names == {"hello", "login", "mail", "rcpt", "data", "dot", "quit"}

LEMMA CmdType ==
  ASSUME NEW name \in Names, NEW m \in Senders
  PROVE  Cmd(name, m) \in Cmds /\ Cmd(name, m).name = name /\ Cmd(name, m).send = m
  BY DEF Cmd, Cmds, Names

LEMMA FewerSame ==
  ASSUME NEW w \in Seq(Cmds)
  PROVE  Fewer(w, w) /\ Fewer(w, <<>>)
  BY DEF Fewer, Single, HasDot

LEMMA FewerAppend ==
  ASSUME NEW w \in Seq(Cmds), NEW x \in Cmds, x.name # "dot"
  PROVE  Fewer(w, Append(w, x))
<1> DEFINE v == Append(w, x)
<1>1. /\ v \in Seq(Cmds) /\ Len(v) = Len(w) + 1 /\ DOMAIN v = 1..Len(v)
      /\ \A i \in 1..Len(w) : v[i] = w[i]
      /\ v[Len(w) + 1] = x /\ Len(w) \in Nat /\ DOMAIN w = 1..Len(w)
  OBVIOUS
<1> HIDE DEF v
<1>2. \A i \in DOMAIN v : v[i].name = "dot" => i \in DOMAIN w /\ v[i] = w[i]
  BY <1>1
<1>3. Single(w) => Single(v)
  BY <1>2 DEF Single
<1>4. \A m \in Senders : HasDot(v, m) => HasDot(w, m)
  BY <1>2 DEF HasDot, Cmd
<1>5. QED
  BY <1>1, <1>3, <1>4 DEF Fewer, v

LEMMA FewerTail ==
  ASSUME NEW w \in Seq(Cmds), w # <<>>
  PROVE  /\ Fewer(w, Tail(w)) /\ Head(w) \in Cmds
         /\ \A m \in Senders : Single(w) /\ Head(w) = Cmd("dot", m) => ~HasDot(Tail(w), m)
         /\ \A m \in Senders : Head(w) = Cmd("dot", m) => HasDot(w, m)
<1> DEFINE v == Tail(w)
<1>1. /\ v \in Seq(Cmds) /\ Head(w) = w[1] /\ 1 \in DOMAIN w /\ Head(w) \in Cmds
      /\ \A i \in DOMAIN v : i \in Nat /\ i # 0 /\ i + 1 \in DOMAIN w /\ v[i] = w[i + 1]
  OBVIOUS
<1> HIDE DEF v
<1>2. Single(w) => Single(v)
  <2> SUFFICES ASSUME Single(w), NEW i \in DOMAIN v, NEW j \in DOMAIN v,
                      v[i].name = "dot", v[i] = v[j]
               PROVE  i = j
    BY DEF Single
  <2>1. i + 1 \in DOMAIN w /\ j + 1 \in DOMAIN w /\ w[i + 1].name = "dot" /\ w[i + 1] = w[j + 1]
    BY <1>1
  <2>2. i + 1 = j + 1
    BY <2>1, Zenon DEF Single
  <2>3. QED
    BY <1>1, <2>2
<1>3. \A m \in Senders : HasDot(v, m) => HasDot(w, m)
  BY <1>1 DEF HasDot
<1>4. ASSUME NEW m \in Senders, Single(w), Head(w) = Cmd("dot", m), HasDot(v, m)
      PROVE  FALSE
  <2>1. PICK i \in DOMAIN v : v[i] = Cmd("dot", m)
    BY <1>4 DEF HasDot
  <2>2. i + 1 \in DOMAIN w /\ w[i + 1] = w[1] /\ w[1].name = "dot"
    BY <1>1, <1>4, <2>1 DEF Cmd
  <2>3. i + 1 = 1
    BY <1>1, <1>4, <2>2, Zenon DEF Single
  <2>4. QED
    BY <1>1, <2>3
<1>5. \A m \in Senders : Head(w) = Cmd("dot", m) => HasDot(w, m)
  BY <1>1 DEF HasDot
<1>6. QED
  BY <1>1, <1>2, <1>3, <1>4, <1>5 DEF Fewer, v

\* Sending the end of a message that is not on the wire.
LEMMA AppendDot ==
  ASSUME NEW w \in Seq(Cmds), NEW m \in Senders, Single(w), ~HasDot(w, m)
  PROVE  /\ Append(w, Cmd("dot", m)) \in Seq(Cmds)
         /\ Single(Append(w, Cmd("dot", m)))
         /\ \A n \in Senders : HasDot(Append(w, Cmd("dot", m)), n) => n = m \/ HasDot(w, n)
<1> DEFINE x == Cmd("dot", m)
           v == Append(w, x)
<1>1. x \in Cmds /\ x.name = "dot" /\ x.send = m
  BY CmdType DEF Names
<1> HIDE DEF x
<1>2. /\ v \in Seq(Cmds) /\ DOMAIN v = 1..(Len(w) + 1)
      /\ \A i \in 1..Len(w) : v[i] = w[i]
      /\ v[Len(w) + 1] = x /\ Len(w) \in Nat /\ DOMAIN w = 1..Len(w)
  BY <1>1
<1> HIDE DEF v
<1>3. \A i \in DOMAIN w : w[i] # x
  BY DEF HasDot, x
<1>4. \A i \in DOMAIN v : (i \in DOMAIN w /\ v[i] = w[i]) \/ (i = Len(w) + 1 /\ v[i] = x)
  BY <1>2
<1>5. Single(v)
  BY <1>3, <1>4 DEF Single
<1>6. \A n \in Senders : HasDot(v, n) => n = m \/ HasDot(w, n)
  BY <1>1, <1>4 DEF HasDot, Cmd
<1>7. QED
  BY <1>2, <1>5, <1>6 DEF x, v

-----------------------------------------------------------------------------
(* One client.                                                             *)

LEMMA EvoTrans ==
  ASSUME NEW k, NEW k1, NEW k2, Evo(k, k1), Evo(k1, k2)
  PROVE  Evo(k, k2)
  BY DEF Evo

LEMMA EvoSame ==
  ASSUME NEW k, GoodClient(k)
  PROVE  Evo(k, k)
  BY DEF Evo

\* The fields that decide what a client may still send.
LEMMA EvoFields ==
  ASSUME NEW k, NEW k2 \in ClientRecs, GoodClient(k), k2.send = k.send, Fewer(k.wire, k2.wire),
         k2.sock = "open" /\ Sending(k2) => ~k2.fresh,
         k2.retry => k.retry \/ "temp" \in Faults,
         Ended(k) => Ended(k2)
  PROVE  Evo(k, k2)
  BY DEF Evo, GoodClient, Fewer

LEMMA SendCmdWire ==
  ASSUME NEW k \in ClientRecs, NEW name \in Names
  PROVE  \E w \in Seq(Cmds) : /\ SendCmd(k, name) = [k EXCEPT !.wire = w]
                              /\ name # "dot" => Fewer(k.wire, w)
<1>1. k.wire \in Seq(Cmds) /\ k.send \in Senders
  BY DEF ClientRecs
<1> DEFINE x == Cmd(name, k.send)
<1>2. x \in Cmds /\ x.name = name
  BY <1>1, CmdType
<1>3. k = [k EXCEPT !.wire = k.wire]
  BY DEF ClientRecs
<1>4. [k EXCEPT !.wire = Append(@, x)] = [k EXCEPT !.wire = Append(k.wire, x)]
  BY DEF ClientRecs
<1>5. Append(k.wire, x) \in Seq(Cmds) /\ (name # "dot" => Fewer(k.wire, Append(k.wire, x)))
  BY <1>1, <1>2, FewerAppend
<1>6. QED
  BY <1>1, <1>3, <1>4, <1>5, FewerSame DEF SendCmd

LEMMA QuitEvo ==
  ASSUME NEW k, GoodClient(k)
  PROVE  /\ Evo(k, Quit(k)) /\ Quit(k).sock = k.sock /\ Quit(k).auth = FALSE
         /\ Quit(k).act = "close" /\ Quit(k).retry = k.retry /\ Quit(k).freed = k.freed
         /\ Unused(k) => Unused(Quit(k))
<1>1. k \in ClientRecs
  BY DEF GoodClient
<1>2. PICK w \in Seq(Cmds) : SendCmd(k, "quit") = [k EXCEPT !.wire = w] /\ Fewer(k.wire, w)
  BY <1>1, SendCmdWire DEF Names
<1> DEFINE k2 == [k EXCEPT !.wire = w, !.auth = FALSE, !.act = "close"]
<1>3. Quit(k) = k2
  BY <1>1, <1>2 DEF Quit, ClientRecs
<1>4. /\ k2 \in ClientRecs /\ k2.wire = w /\ k2.auth = FALSE /\ k2.act = "close"
      /\ k2.sock = k.sock /\ k2.send = k.send /\ k2.fresh = k.fresh /\ k2.retry = k.retry
      /\ k2.freed = k.freed /\ k2.stale = k.stale /\ k2.failing = k.failing /\ k2.timer = k.timer
  BY <1>1 DEF ClientRecs, Actions
<1> HIDE DEF k2
<1>5. Evo(k, k2)
  BY <1>2, <1>4, EvoFields DEF Sending, Ended
<1>6. QED
  BY <1>3, <1>4, <1>5 DEF Unused

\* A new state of the socket, with nothing on the wire.
LEMMA SocketEvo ==
  ASSUME NEW k, GoodClient(k), NEW st \in {"closed", "closing", "gone"}
  PROVE  LET k2 == [k EXCEPT !.sock = st, !.wire = <<>>]
         IN  /\ Evo(k, k2) /\ k2.sock = st /\ k2.auth = k.auth /\ k2.act = k.act
             /\ k2.retry = k.retry /\ k2.freed = k.freed
<1> DEFINE e == <<>>
           k2 == [k EXCEPT !.sock = st, !.wire = e]
<1>0. e \in Seq(Cmds) /\ e = <<>>
  OBVIOUS
<1> HIDE DEF e
<1>1. k \in ClientRecs /\ k.wire \in Seq(Cmds)
  BY DEF GoodClient, ClientRecs
<1>2. /\ k2 \in ClientRecs /\ k2.wire = <<>> /\ k2.auth = k.auth /\ k2.act = k.act
      /\ k2.sock = st /\ k2.send = k.send /\ k2.fresh = k.fresh /\ k2.retry = k.retry
      /\ k2.freed = k.freed
  BY <1>0, <1>1 DEF ClientRecs, Sockets
<1> HIDE DEF k2
<1>3. Evo(k, k2)
  BY <1>1, <1>2, EvoFields, FewerSame DEF Sending, Ended
<1>4. QED
  BY <1>2, <1>3 DEF k2, e

\* Fields that decide nothing here.
LEMMA FreedEvo ==
  ASSUME NEW k, GoodClient(k), NEW b \in BOOLEAN
  PROVE  LET k2 == [k EXCEPT !.freed = b]
         IN  Evo(k, k2) /\ k2.sock = k.sock /\ k2.auth = k.auth /\ k2.act = k.act
             /\ k2.retry = k.retry /\ k2.freed = b
<1> DEFINE k2 == [k EXCEPT !.freed = b]
<1>1. k \in ClientRecs /\ k.wire \in Seq(Cmds)
  BY DEF GoodClient, ClientRecs
<1>2. /\ k2 \in ClientRecs /\ k2.wire = k.wire /\ k2.auth = k.auth /\ k2.act = k.act
      /\ k2.sock = k.sock /\ k2.send = k.send /\ k2.fresh = k.fresh /\ k2.retry = k.retry
      /\ k2.freed = b
  BY <1>1 DEF ClientRecs
<1> HIDE DEF k2
<1>3. Evo(k, k2)
  BY <1>1, <1>2, EvoFields, FewerSame DEF Sending, Ended, GoodClient
<1>4. QED
  BY <1>2, <1>3 DEF k2

\* onidle, when the client may send: a message is pending, or no retry is.
LEMMA OnIdleEvo ==
  ASSUME NEW k, GoodClient(k)
  PROVE  /\ GoodClient(OnIdle(k)) /\ OnIdle(k).send = k.send /\ OnIdle(k).sock = k.sock
         /\ OnIdle(k).retry = k.retry
         /\ \A m \in Senders : HasDot(OnIdle(k).wire, m) => HasDot(k.wire, m)
         /\ ~k.retry /\ Ended(k) => Ended(OnIdle(k))
<1>1. k \in ClientRecs
  BY DEF GoodClient
<1>2. PICK w \in Seq(Cmds) : SendCmd(k, "mail") = [k EXCEPT !.wire = w] /\ Fewer(k.wire, w)
  BY <1>1, SendCmdWire DEF Names
<1> DEFINE k2 == [k EXCEPT !.wire = w, !.fresh = FALSE, !.act = "mail", !.timer = FALSE]
<1>3. OnIdle(k) = IF k.fresh \/ k.retry THEN k2 ELSE k
  BY <1>1, <1>2 DEF OnIdle, ClientRecs
<1>4. /\ k2 \in ClientRecs /\ k2.wire = w /\ k2.sock = k.sock /\ k2.send = k.send
      /\ k2.fresh = FALSE /\ k2.retry = k.retry
  BY <1>1 DEF ClientRecs, Actions
<1> HIDE DEF k2
<1>5. GoodClient(k2)
  BY <1>2, <1>4 DEF GoodClient, Fewer
<1>6. ~k.retry /\ Ended(k) => OnIdle(k) = k
  BY <1>3 DEF Ended
<1>7. QED
  BY <1>2, <1>3, <1>4, <1>5, <1>6 DEF Fewer

\* connect, when the client may send.
LEMMA ConnectEvo ==
  ASSUME NEW k, GoodClient(k)
  PROVE  /\ GoodClient(Connect(k)) /\ Connect(k).send = k.send
         /\ \A m \in Senders : HasDot(Connect(k).wire, m) => HasDot(k.wire, m)
         /\ ~k.retry /\ Ended(k) => Ended(Connect(k))
<1>1. k \in ClientRecs /\ k.wire \in Seq(Cmds)
  BY DEF GoodClient, ClientRecs
<1>2. CASE Open(k)
  <2> DEFINE k1 == OnIdle(k)
             k2 == [k1 EXCEPT !.freed = FALSE]
  <2>1. /\ GoodClient(k1) /\ k1.send = k.send /\ k1.retry = k.retry
        /\ \A m \in Senders : HasDot(k1.wire, m) => HasDot(k.wire, m)
        /\ ~k.retry /\ Ended(k) => Ended(k1)
    BY OnIdleEvo
  <2> HIDE DEF k1
  <2>2. Evo(k1, k2)
    BY <2>1, FreedEvo
  <2>3. Connect(k) = k2
    BY <1>2 DEF Connect, k1
  <2>4. QED
    BY <2>1, <2>2, <2>3 DEF Evo
<1>3. CASE ~Open(k)
  <2> DEFINE n == IF k.sock = "closing" THEN k.stale + 1 ELSE k.stale
             e == <<>>
             k2 == [k EXCEPT !.sock = "connecting", !.wire = e, !.sent = 0, !.freed = FALSE,
                             !.stale = n]
  <2>1. Connect(k) = k2
    BY <1>1, <1>3 DEF Connect, ClientRecs
  <2>2. n \in Nat /\ e \in Seq(Cmds) /\ e = <<>>
    BY <1>1 DEF ClientRecs
  <2> HIDE DEF n, e
  <2>3. /\ k2 \in ClientRecs /\ k2.wire = <<>> /\ k2.sock = "connecting" /\ k2.send = k.send
        /\ k2.fresh = k.fresh /\ k2.retry = k.retry /\ k2.act = k.act
    BY <1>1, <2>2 DEF ClientRecs, Sockets
  <2> HIDE DEF k2
  <2>4. QED
    BY <1>1, <2>1, <2>3, FewerSame DEF GoodClient, Ended, Sending, Fewer
<1>4. QED
  BY <1>2, <1>3

-----------------------------------------------------------------------------
(* Handlers.                                                               *)

\* What a handler that works for client c may make of the state.
Touch(s, s2, c, tk) ==
    /\ s2 \in States(tk)
    /\ \A d \in Clients : d # c => s2.client[d] = s.client[d]
    /\ Evo(s.client[c], s2.client[c])

LEMMA TouchTrans ==
  ASSUME NEW s, NEW s1, NEW s2, NEW c \in Clients, NEW tk, Touch(s, s1, c, tk), Touch(s1, s2, c, tk)
  PROVE  Touch(s, s2, c, tk)
  BY EvoTrans DEF Touch

LEMMA SetTouch ==
  ASSUME NEW tk, NEW s \in States(tk), NEW c \in Clients, NEW k2, Evo(s.client[c], k2)
  PROVE  Touch(s, Set(s, c, k2), c, tk) /\ Set(s, c, k2).client[c] = k2
<1>1. k2 \in ClientRecs /\ s.client \in [Clients -> ClientRecs]
  BY DEF Evo, GoodClient, States
<1> DEFINE cl == [s.client EXCEPT ![c] = k2]
           s2 == [s EXCEPT !.client = cl]
<1>2. /\ cl \in [Clients -> ClientRecs] /\ cl[c] = k2
      /\ \A d \in Clients : d # c => cl[d] = s.client[d]
  BY <1>1
<1>3. Set(s, c, k2) = s2
  BY DEF Set, States
<1> HIDE DEF cl
<1>4. s2 \in States(tk) /\ s2.client = cl
  BY <1>2 DEF States
<1> HIDE DEF s2
<1>5. QED
  BY <1>2, <1>3, <1>4 DEF Touch, cl

\* A change that leaves the clients alone.
LEMMA SameTouch ==
  ASSUME NEW tk, NEW s \in States(tk), NEW c \in Clients, NEW s2 \in States(tk),
         GoodClient(s.client[c]), s2.client = s.client
  PROVE  Touch(s, s2, c, tk)
  BY EvoSame DEF Touch

LEMMA TellSame ==
  ASSUME NEW tk, NEW s \in States(tk), NEW c \in Clients, NEW what \in {"ok", "failed"}
  PROVE  /\ Tell(s, c, what) \in States(tk) /\ Tell(s, c, what).client = s.client
         /\ Tell(s, c, what).free = s.free /\ Tell(s, c, what).busy = s.busy
         /\ \A m \in Sends : Tell(s, c, what).told[m] =
                             IF m = s.client[c].send THEN what ELSE s.told[m]
<1> DEFINE n == s.client[c].send
           td == [s.told EXCEPT ![n] = what]
           an == [s.answers EXCEPT ![n] = s.answers[n] + 1]
           s2 == [s EXCEPT !.told = td, !.answers = an]
<1>1. n \in Sends \cup {NoSend} /\ NoSend \notin Sends
  BY SmtpAssumption DEF States, ClientRecs, Senders
<1>2. CASE n = NoSend
  BY <1>1, <1>2 DEF Tell
<1>3. CASE n # NoSend
  <2>1. n \in Sends /\ s.told \in [Sends -> {"no", "ok", "failed"}] /\ s.answers \in [Sends -> Nat]
    BY <1>1, <1>3 DEF States
  <2>2. Tell(s, c, what) = s2
    BY <1>3 DEF Tell, States
  <2>3. /\ td \in [Sends -> {"no", "ok", "failed"}]
        /\ \A m \in Sends : td[m] = IF m = n THEN what ELSE s.told[m]
    BY <2>1
  <2> HIDE DEF n
  <2>4. an \in [Sends -> Nat]
    BY <2>1
  <2> HIDE DEF td, an
  <2>5. s2 \in States(tk) /\ s2.client = s.client /\ s2.free = s.free /\ s2.busy = s.busy
        /\ s2.told = td
    BY <2>3, <2>4 DEF States
  <2>6. QED
    BY <2>2, <2>3, <2>5 DEF n
<1>4. QED
  BY <1>2, <1>3

LEMMA TellTouch ==
  ASSUME NEW tk, NEW s \in States(tk), NEW c \in Clients, GoodClient(s.client[c]),
         NEW what \in {"ok", "failed"}
  PROVE  Touch(s, Tell(s, c, what), c, tk) /\ Tell(s, c, what).client = s.client
  BY TellSame, SameTouch

LEMMA WakesType ==
  ASSUME NEW es \in SUBSET [send : Sends, n : Nat]
  PROVE  Wakes(es) \in SUBSET (Sends \ taken)
  BY DEF Wakes

LEMMA WakeFirstSame ==
  ASSUME NEW s \in States(taken)
  PROVE  /\ WakeFirst(s) \in States(taken) /\ WakeFirst(s).client = s.client
         /\ WakeFirst(s).free = s.free /\ WakeFirst(s).busy = s.busy
         /\ WakeFirst(s).told = s.told
<1>1. CASE s.waiting = <<>>
  BY <1>1 DEF WakeFirst
<1>2. CASE s.waiting # <<>>
  <2> DEFINE w == Tail(s.waiting)
             v == Wakes({Head(s.waiting)})
             u == s.woken \cup v
             s2 == [s EXCEPT !.waiting = w, !.woken = u]
  <2>1. s.waiting \in Seq([send : Sends, n : Nat]) /\ s.woken \in SUBSET (Sends \ taken)
    BY DEF States
  <2>2. w \in Seq([send : Sends, n : Nat]) /\ Head(s.waiting) \in [send : Sends, n : Nat]
    BY <1>2, <2>1, HeadTailProperties
  <2>3. v \in SUBSET (Sends \ taken)
    BY <2>2, WakesType
  <2>4. WakeFirst(s) = s2
    BY <1>2 DEF WakeFirst, States
  <2> HIDE DEF w, v
  <2>5. u \in SUBSET (Sends \ taken)
    BY <2>1, <2>3
  <2> HIDE DEF u
  <2>6. /\ s2 \in States(taken) /\ s2.client = s.client /\ s2.free = s.free
        /\ s2.busy = s.busy /\ s2.told = s.told
    BY <2>2, <2>5 DEF States
  <2>7. QED
    BY <2>4, <2>6
<1>3. QED
  BY <1>1, <1>2

LEMMA WakeFirstTouch ==
  ASSUME NEW s \in States(taken), NEW c \in Clients, GoodClient(s.client[c])
  PROVE  Touch(s, WakeFirst(s), c, taken) /\ WakeFirst(s).client = s.client
  BY WakeFirstSame, SameTouch

LEMMA OnFreeTouch ==
  ASSUME NEW s \in States(taken), NEW c \in Clients, GoodClient(s.client[c])
  PROVE  /\ Touch(s, OnFree(s, c), c, taken)
         /\ OnFree(s, c).client[c].retry = s.client[c].retry
         /\ OnFree(s, c).client[c].freed = s.client[c].freed
         /\ OnFree(s, c).client[c].sock = s.client[c].sock
<1> DEFINE b == s.busy \ {c}
           f == Append(s.free, c)
<1>1. b \in SUBSET Clients /\ f \in Seq(Clients)
  BY DEF States
<1>2. CASE ~s.client[c].reuse
  <2> DEFINE s1 == [s EXCEPT !.busy = b]
             k2 == Quit(s.client[c])
  <2> HIDE DEF b
  <2>1. s1 \in States(taken) /\ s1.client = s.client
    BY <1>1 DEF States
  <2>2. OnFree(s, c) = Set(s1, c, k2)
    BY <1>2 DEF OnFree, Set, States, b
  <2> HIDE DEF s1
  <2>3. /\ Evo(s1.client[c], k2) /\ k2.retry = s.client[c].retry /\ k2.freed = s.client[c].freed
        /\ k2.sock = s.client[c].sock
    BY <2>1, QuitEvo
  <2> HIDE DEF k2
  <2>4. Touch(s1, Set(s1, c, k2), c, taken) /\ Set(s1, c, k2).client[c] = k2
    BY <2>1, <2>3, SetTouch
  <2>5. Touch(s, s1, c, taken)
    BY <2>1, SameTouch
  <2>6. QED
    BY <2>2, <2>3, <2>4, <2>5, TouchTrans
<1>3. CASE s.client[c].reuse
  <2> DEFINE s1 == [s EXCEPT !.busy = b, !.free = f]
  <2>0. OnFree(s, c) = WakeFirst(s1)
    BY <1>3 DEF OnFree, States
  <2> HIDE DEF b, f
  <2>1. s1 \in States(taken) /\ s1.client = s.client
    BY <1>1 DEF States
  <2> HIDE DEF s1
  <2>2. Touch(s1, WakeFirst(s1), c, taken) /\ WakeFirst(s1).client = s1.client
    BY <2>1, WakeFirstTouch
  <2>3. Touch(s, s1, c, taken)
    BY <2>1, SameTouch
  <2>4. QED
    BY <2>0, <2>1, <2>2, <2>3, TouchTrans
<1>4. QED
  BY <1>2, <1>3

LEMMA FreeTouch ==
  ASSUME NEW s \in States(taken), NEW c \in Clients, GoodClient(s.client[c])
  PROVE  /\ Touch(s, Free(s, c), c, taken)
         /\ Free(s, c).client[c].retry = s.client[c].retry
         /\ Free(s, c).client[c].freed
<1>0. s.client[c] \in ClientRecs
  BY DEF GoodClient
<1>1. CASE s.client[c].freed
  BY <1>1, SameTouch DEF Free
<1>2. CASE ~s.client[c].freed
  <2> DEFINE k2 == [s.client[c] EXCEPT !.freed = TRUE]
             s1 == Set(s, c, k2)
  <2>1. Free(s, c) = OnFree(s1, c)
    BY <1>2 DEF Free, Set, States
  <2>2. Evo(s.client[c], k2) /\ k2.retry = s.client[c].retry /\ k2.freed = TRUE
    BY FreedEvo
  <2> HIDE DEF k2
  <2>3. Touch(s, s1, c, taken) /\ s1.client[c] = k2
    BY <2>2, SetTouch
  <2> HIDE DEF s1
  <2>4. s1 \in States(taken) /\ GoodClient(s1.client[c])
    BY <2>2, <2>3 DEF Touch, Evo
  <2>5. Touch(s1, OnFree(s1, c), c, taken) /\ OnFree(s1, c).client[c].retry = k2.retry
        /\ OnFree(s1, c).client[c].freed = TRUE
    BY <2>2, <2>3, <2>4, OnFreeTouch
  <2>6. QED
    BY <2>1, <2>2, <2>3, <2>5, TouchTrans
<1>3. QED
  BY <1>1, <1>2

LEMMA CloseTouch ==
  ASSUME NEW s \in States(taken), NEW c \in Clients, GoodClient(s.client[c])
  PROVE  Touch(s, Close(s, c), c, taken)
<1>1. CASE Open(s.client[c])
  <2> DEFINE k2 == [s.client[c] EXCEPT !.sock = "closing", !.wire = <<>>]
  <2>1. Close(s, c) = Set(s, c, k2)
    BY <1>1 DEF Close, Set, States
  <2>2. Evo(s.client[c], k2)
    BY SocketEvo
  <2> HIDE DEF k2
  <2>3. Touch(s, Set(s, c, k2), c, taken)
    BY <2>2, SetTouch
  <2>4. QED
    BY <2>1, <2>3
<1>2. CASE ~Open(s.client[c])
  BY <1>2, FreeTouch DEF Close
<1>3. QED
  BY <1>1, <1>2

\* The new connection of a 4xx reply: the client was still sending.
LEMMA AgainEvo ==
  ASSUME NEW k, GoodClient(k), k.act \in {"mail", "rcpt"}, "temp" \in Faults
  PROVE  Evo(k, Connect([Quit(k) EXCEPT !.retry = TRUE, !.sock = "closing", !.wire = <<>>]))
<1> DEFINE q == Quit(k)
           e == <<>>
           k2 == [q EXCEPT !.retry = TRUE, !.sock = "closing", !.wire = e]
<1>1. Evo(k, q) /\ q.act = "close"
  BY QuitEvo
<1>2. e \in Seq(Cmds) /\ e = <<>>
  OBVIOUS
<1> HIDE DEF e, q
<1>3. q \in ClientRecs /\ q.wire \in Seq(Cmds) /\ q.send = k.send
  BY <1>1 DEF Evo, GoodClient, ClientRecs
<1>4. /\ k2 \in ClientRecs /\ k2.wire = <<>> /\ k2.sock = "closing" /\ k2.act = "close"
      /\ k2.send = k.send
  BY <1>1, <1>2, <1>3 DEF ClientRecs, Sockets
<1> HIDE DEF k2
<1>5. GoodClient(k2) /\ \A m \in Senders : ~HasDot(k2.wire, m)
  BY <1>4 DEF GoodClient, Single, HasDot
<1>6. /\ GoodClient(Connect(k2)) /\ Connect(k2).send = k.send
      /\ \A m \in Senders : ~HasDot(Connect(k2).wire, m)
  BY <1>4, <1>5, ConnectEvo
<1>7. ~Ended(k)
  BY DEF Ended, Sending
<1>8. Evo(k, Connect(k2))
  BY <1>6, <1>7 DEF Evo
<1>9. QED
  BY <1>8 DEF k2, q, e

LEMMA NsErrorTouch ==
  ASSUME NEW s \in States(taken), NEW c \in Clients, GoodClient(s.client[c]),
         NEW temp \in BOOLEAN, temp => "temp" \in Faults
  PROVE  Touch(s, NsError(s, c, temp), c, taken)
<1> DEFINE k == s.client[c]
           again == [Quit(k) EXCEPT !.retry = TRUE, !.sock = "closing", !.wire = <<>>]
           k2 == Connect(again)
<1>1. CASE Retries(k, temp)
  <2>1. NsError(s, c, temp) = Set(s, c, k2)
    BY <1>1 DEF NsError
  <2>2. k.act \in {"mail", "rcpt"} /\ "temp" \in Faults
    BY <1>1 DEF Retries
  <2>3. Evo(k, k2)
    BY <2>2, AgainEvo
  <2> HIDE DEF k2
  <2>4. QED
    BY <2>1, <2>3, SetTouch
<1>2. CASE ~Retries(k, temp)
  <2> DEFINE s1 == Tell(s, c, "failed")
  <2>1. NsError(s, c, temp) = Close(s1, c)
    BY <1>2 DEF NsError
  <2>2. Touch(s, s1, c, taken) /\ s1.client = s.client
    BY TellTouch
  <2> HIDE DEF s1
  <2>3. s1 \in States(taken) /\ GoodClient(s1.client[c])
    BY <2>2 DEF Touch
  <2>4. Touch(s1, Close(s1, c), c, taken)
    BY <2>3, CloseTouch
  <2>5. QED
    BY <2>1, <2>2, <2>4, TouchTrans
<1>3. QED
  BY <1>1, <1>2

\* Logging in again on the same connection.
LEMMA LoginEvo ==
  ASSUME NEW k, GoodClient(k), Ended(k) => ~k.retry
  PROVE  Evo(k, SendCmd([k EXCEPT !.act = "login", !.auth = TRUE], "login"))
<1> DEFINE k1 == [k EXCEPT !.act = "login", !.auth = TRUE]
<1>1. k \in ClientRecs /\ k.wire \in Seq(Cmds)
  BY DEF GoodClient, ClientRecs
<1>2. /\ k1 \in ClientRecs /\ k1.wire = k.wire /\ k1.act = "login" /\ k1.sock = k.sock
      /\ k1.send = k.send /\ k1.fresh = k.fresh /\ k1.retry = k.retry
  BY <1>1 DEF ClientRecs, Actions
<1> HIDE DEF k1
<1>3. PICK w \in Seq(Cmds) : SendCmd(k1, "login") = [k1 EXCEPT !.wire = w] /\ Fewer(k.wire, w)
  BY <1>2, SendCmdWire DEF Names
<1> DEFINE k2 == [k1 EXCEPT !.wire = w]
<1>4. /\ k2 \in ClientRecs /\ k2.wire = w /\ k2.act = "login" /\ k2.sock = k.sock
      /\ k2.send = k.send /\ k2.fresh = k.fresh /\ k2.retry = k.retry
  BY <1>2 DEF ClientRecs
<1> HIDE DEF k2
<1>5. Evo(k, k2)
  BY <1>1, <1>3, <1>4, EvoFields DEF Sending, Ended, GoodClient
<1>6. QED
  BY <1>3, <1>5 DEF k1, k2

LEMMA AuthFailedTouch ==
  ASSUME NEW s \in States(taken), NEW c \in Clients, GoodClient(s.client[c]),
         NEW again \in BOOLEAN, again => ~s.client[c].retry
  PROVE  Touch(s, AuthFailed(s, c, again), c, taken)
<1> DEFINE k == s.client[c]
<1>1. CASE ~again
  BY <1>1, NsErrorTouch DEF AuthFailed
<1>2. CASE again /\ k.freed
  <2> DEFINE k2 == Connect(k)
  <2>1. AuthFailed(s, c, again) = Set(s, c, k2)
    BY <1>2 DEF AuthFailed
  <2>2. Evo(k, k2)
    BY <1>2, ConnectEvo DEF Evo
  <2> HIDE DEF k2
  <2>3. QED
    BY <2>1, <2>2, SetTouch
<1>3. CASE again /\ ~k.freed
  <2> DEFINE k2 == SendCmd([k EXCEPT !.act = "login", !.auth = TRUE], "login")
  <2>1. AuthFailed(s, c, again) = Set(s, c, k2)
    BY <1>3 DEF AuthFailed
  <2>2. Evo(k, k2)
    BY <1>3, LoginEvo
  <2> HIDE DEF k2
  <2>3. QED
    BY <2>1, <2>2, SetTouch
<1>4. QED
  BY <1>1, <1>2, <1>3

LEMMA OnCloseTouch ==
  ASSUME NEW s \in States(taken), NEW c \in Clients, GoodClient(s.client[c]),
         NEW again \in BOOLEAN, again => ~s.client[c].retry
  PROVE  Touch(s, OnClose(s, c, again), c, taken)
<1> DEFINE s1 == Free(s, c)
<1>1. Touch(s, s1, c, taken) /\ s1.client[c].retry = s.client[c].retry
  BY FreeTouch
<1>2. OnClose(s, c, again) = IF s1.client[c].auth THEN AuthFailed(s1, c, again) ELSE s1
  BY DEF OnClose
<1> HIDE DEF s1
<1>3. s1 \in States(taken) /\ GoodClient(s1.client[c])
  BY <1>1 DEF Touch, Evo
<1>4. Touch(s1, AuthFailed(s1, c, again), c, taken)
  BY <1>1, <1>3, AuthFailedTouch
<1>5. QED
  BY <1>1, <1>2, <1>4, TouchTrans

LEMMA StreamDoneTouch ==
  ASSUME NEW s \in States(taken), NEW c \in Clients, GoodClient(s.client[c]),
         NEW good \in BOOLEAN
  PROVE  Touch(s, StreamDone(s, c, good), c, taken)
<1> DEFINE k == s.client[c]
           reuse == k.reuse /\ k.sent + 1 < MsgsPerConn
           rt == k.retry /\ ~good
           n == k.sent + 1
           tm == k.timer \/ reuse
           k1 == [k EXCEPT !.retry = rt, !.sent = n, !.reuse = reuse, !.timer = tm, !.act = "idle"]
           s1 == Set(s, c, k1)
           s2 == IF good THEN Tell(s1, c, "ok") ELSE NsError(s1, c, FALSE)
           s3 == Set(s2, c, [s2.client[c] EXCEPT !.freed = TRUE])
<1>1. k \in ClientRecs /\ k.wire \in Seq(Cmds) /\ k.retry \in BOOLEAN /\ k.sent \in Nat
      /\ k.reuse \in BOOLEAN /\ k.timer \in BOOLEAN
  BY DEF GoodClient, ClientRecs
<1>2. n \in Nat /\ reuse \in BOOLEAN /\ rt \in BOOLEAN /\ tm \in BOOLEAN /\ (rt => k.retry)
  BY <1>1
<1>3. [k EXCEPT !.retry = @ /\ ~good, !.sent = @ + 1, !.reuse = reuse,
                !.timer = @ \/ reuse, !.act = "idle"] = k1
  BY <1>1 DEF ClientRecs
<1>4. StreamDone(s, c, good) = OnFree([s2 EXCEPT !.client[c].freed = TRUE], c)
  BY <1>3, Zenon DEF StreamDone
<1> HIDE DEF n, reuse, rt, tm, k
<1>5. /\ k1 \in ClientRecs /\ k1.wire = k.wire /\ k1.act = "idle" /\ k1.sock = k.sock
      /\ k1.send = k.send /\ k1.fresh = k.fresh /\ k1.retry = rt
  <2>1. k1 \in ClientRecs
    BY <1>1, <1>2 DEF ClientRecs, Actions
  <2>2. /\ k1.wire = k.wire /\ k1.act = "idle" /\ k1.sock = k.sock
        /\ k1.send = k.send /\ k1.fresh = k.fresh /\ k1.retry = rt
    BY <1>1 DEF ClientRecs
  <2>3. QED
    BY <2>1, <2>2
<1> HIDE DEF k1
<1>6. Evo(s.client[c], k1)
  BY <1>1, <1>2, <1>5, EvoFields, FewerSame DEF Sending, Ended, GoodClient, k
<1>7. Touch(s, s1, c, taken) /\ s1.client[c] = k1
  BY <1>6, SetTouch
<1> HIDE DEF s1
<1>8. s1 \in States(taken) /\ GoodClient(s1.client[c])
  BY <1>6, <1>7 DEF Touch, Evo
<1>9. Touch(s1, s2, c, taken)
  BY <1>8, TellTouch, NsErrorTouch
<1> HIDE DEF s2
<1>10. s2 \in States(taken) /\ GoodClient(s2.client[c])
  BY <1>9 DEF Touch, Evo
<1>11. [s2 EXCEPT !.client[c].freed = TRUE] = s3
  BY <1>10 DEF Set, States
<1>12. Touch(s2, s3, c, taken)
  BY <1>10, FreedEvo, SetTouch
<1> HIDE DEF s3
<1>13. s3 \in States(taken) /\ GoodClient(s3.client[c])
  BY <1>12 DEF Touch, Evo
<1>14. Touch(s3, OnFree(s3, c), c, taken)
  BY <1>13, OnFreeTouch
<1>15. Touch(s, s2, c, taken)
  BY <1>7, <1>9, TouchTrans
<1>16. Touch(s, s3, c, taken)
  BY <1>12, <1>15, TouchTrans
<1>17. StreamDone(s, c, good) = OnFree(s3, c)
  BY <1>4, <1>11, Zenon
<1>18. QED
  BY <1>14, <1>16, <1>17, TouchTrans

-----------------------------------------------------------------------------
(* Messages and the clients that have them.                                *)

\* Every client evolves; one that was never used stays so.
EvoAll(cl, cl2) ==
    /\ cl2 \in [Clients -> ClientRecs]
    /\ \A d \in Clients : /\ Evo(cl[d], cl2[d])
                          /\ Unused(cl[d]) /\ cl[d].send = NoSend => Unused(cl2[d])

LEMMA OnceEvolves ==
  ASSUME NEW cl, NEW cl2, NEW dl, NEW tk, Once(cl, dl, tk), EvoAll(cl, cl2)
  PROVE  Once(cl2, dl, tk)
<1>1. \A d \in Clients : /\ GoodClient(cl2[d]) /\ cl2[d].send = cl[d].send
                         /\ \A m \in Senders : HasDot(cl2[d].wire, m) => HasDot(cl[d].wire, m)
                         /\ Ended(cl[d]) => Ended(cl2[d])
  BY DEF EvoAll, Evo
<1>2. \A d \in Clients : cl[d].send = NoSend => Unused(cl2[d])
  BY DEF EvoAll, Once
<1>3. \A m \in Senders : Spent(cl2, dl, m) => Spent(cl, dl, m)
  BY <1>1 DEF Spent
<1>4. \A d \in Clients : cl[d].send \in Senders
  BY DEF Once, GoodClient, ClientRecs
<1>5. \A d \in Clients : cl2[d].send # NoSend /\ Spent(cl2, dl, cl2[d].send) => Ended(cl2[d])
  BY <1>1, <1>3, <1>4 DEF Once
<1>6. cl2 \in [Clients -> ClientRecs]
  BY DEF EvoAll
<1>7. QED
  BY <1>1, <1>2, <1>5, <1>6 DEF Once

\* The server accepts a message whose end leaves the wire.
LEMMA OncePop ==
  ASSUME NEW cl, NEW cl2, NEW dl, NEW tk, NEW c \in Clients, NEW m \in Senders,
         Once(cl, dl, tk), EvoAll(cl, cl2), HasDot(cl[c].wire, m), ~HasDot(cl2[c].wire, m)
  PROVE  Once(cl2, [dl EXCEPT ![m] = @ + 1], tk)
<1> DEFINE dl2 == [dl EXCEPT ![m] = @ + 1]
<1>1. m \in tk /\ dl[m] = 0 /\ dl \in [Sends -> {0, 1}] /\ tk \subseteq Sends
  BY DEF Once
<1>2. dl2 \in [Sends -> {0, 1}] /\ dl2[m] = 1 /\ \A n \in Sends : n # m => dl2[n] = dl[n]
  BY <1>1
<1> HIDE DEF dl2
<1>3. Once(cl2, dl, tk)
  BY OnceEvolves
<1>4. \A d \in Clients : ~HasDot(cl2[d].wire, m)
  <2> SUFFICES ASSUME NEW d \in Clients, HasDot(cl2[d].wire, m) PROVE FALSE
    OBVIOUS
  <2>1. HasDot(cl[d].wire, m)
    BY DEF EvoAll, Evo
  <2>2. d = c
    BY <2>1 DEF Once
  <2>3. QED
    BY <2>2
<1>5. \A d \in Clients, n \in Senders : HasDot(cl2[d].wire, n) => n \in tk /\ dl2[n] = 0
  BY <1>1, <1>2, <1>3, <1>4 DEF Once
<1>6. ASSUME NEW d \in Clients, cl2[d].send # NoSend, Spent(cl2, dl2, cl2[d].send)
      PROVE  Ended(cl2[d])
  <2>1. cl2[d].send \in Sends
    BY <1>6, <1>3 DEF Once
  <2>2. CASE cl2[d].send = m
    <3>1. cl[d].send = m
      BY <2>2 DEF EvoAll, Evo
    <3>2. Spent(cl, dl, m)
      BY DEF Spent
    <3>3. Ended(cl[d])
      BY <1>6, <2>2, <3>1, <3>2 DEF Once
    <3>4. QED
      BY <3>3 DEF EvoAll, Evo
  <2>3. CASE cl2[d].send # m
    <3>1. Spent(cl2, dl, cl2[d].send)
      BY <1>2, <1>6, <2>1, <2>3 DEF Spent
    <3>2. QED
      BY <1>3, <1>6, <3>1 DEF Once
  <2>4. QED
    BY <2>2, <2>3
<1>7. \A n \in Sends \ tk : dl2[n] = 0
  BY <1>1, <1>2, <1>3 DEF Once
<1>8. QED
  BY <1>2, <1>3, <1>5, <1>6, <1>7 DEF Once, dl2

\* A client that was sending puts the end of its message on the wire.
LEMMA OnceDot ==
  ASSUME NEW cl, NEW dl, NEW tk, NEW c \in Clients, NEW k2,
         Once(cl, dl, tk), ~Ended(cl[c]), cl[c].send # NoSend,
         GoodClient(k2), k2.send = cl[c].send, Ended(k2),
         \A n \in Senders : HasDot(k2.wire, n) => n = cl[c].send \/ HasDot(cl[c].wire, n)
  PROVE  Once([cl EXCEPT ![c] = k2], dl, tk)
<1> DEFINE cl2 == [cl EXCEPT ![c] = k2]
           m == cl[c].send
<1>1. /\ cl2 \in [Clients -> ClientRecs] /\ cl2[c] = k2
      /\ \A d \in Clients : d # c => cl2[d] = cl[d]
  BY DEF Once, GoodClient
<1>2. m \in tk /\ m \in Sends /\ ~Spent(cl, dl, m) /\ dl \in [Sends -> {0, 1}]
  BY DEF Once
<1>3. dl[m] = 0 /\ \A d \in Clients : ~HasDot(cl[d].wire, m)
  BY <1>2 DEF Spent
<1> HIDE DEF cl2
<1>4. \A d \in Clients, n \in Senders :
        HasDot(cl2[d].wire, n) => (d = c /\ n = m) \/ HasDot(cl[d].wire, n)
  BY <1>1
<1>5. \A d \in Clients : cl2[d].send = cl[d].send
  BY <1>1
<1>6. \A d \in Clients, n \in Senders : HasDot(cl2[d].wire, n) => n \in tk /\ dl[n] = 0
  BY <1>2, <1>3, <1>4 DEF Once
<1>7. ASSUME NEW d1 \in Clients, NEW d2 \in Clients, NEW n \in Senders,
             HasDot(cl2[d1].wire, n), HasDot(cl2[d2].wire, n)
      PROVE  d1 = d2
  <2>1. CASE n = m
    BY <1>3, <1>4, <1>7, <2>1
  <2>2. CASE n # m
    <3>1. HasDot(cl[d1].wire, n) /\ HasDot(cl[d2].wire, n)
      BY <1>4, <1>7, <2>2
    <3>2. QED
      BY <3>1 DEF Once
  <2>3. QED
    BY <2>1, <2>2
<1>8. ASSUME NEW d \in Clients, cl2[d].send # NoSend, Spent(cl2, dl, cl2[d].send)
      PROVE  Ended(cl2[d])
  <2>1. CASE d = c
    BY <1>1, <2>1
  <2>2. CASE d # c
    <3>1. cl2[d].send = cl[d].send /\ cl[d].send \in Sends /\ cl[d].send # m /\ cl2[d] = cl[d]
      BY <1>1, <1>5, <1>8, <2>2 DEF Once
    <3>2. Spent(cl, dl, cl[d].send)
      BY <1>4, <1>8, <3>1 DEF Spent, Senders
    <3>3. QED
      BY <1>8, <3>1, <3>2 DEF Once
  <2>3. QED
    BY <2>1, <2>2
<1>9. \A d \in Clients : /\ GoodClient(cl2[d]) /\ cl2[d].send \in tk \cup {NoSend}
                         /\ cl2[d].send = NoSend => Unused(cl2[d])
  BY <1>1, <1>5 DEF Once
<1>10. \A d, e \in Clients : cl2[d].send = cl2[e].send /\ cl2[d].send # NoSend => d = e
  BY <1>5 DEF Once
<1>11. Once(cl2, dl, tk)
  BY <1>1, <1>6, <1>7, <1>8, <1>9, <1>10 DEF Once
<1>12. QED
  BY <1>11 DEF cl2

\* A client gets a message that none had before.
LEMMA OnceAssign ==
  ASSUME NEW cl, NEW dl, NEW tk, NEW c \in Clients, NEW k2, NEW m \in Sends, m \notin tk,
         Once(cl, dl, tk), GoodClient(k2), k2.send = m,
         \A n \in Senders : HasDot(k2.wire, n) => HasDot(cl[c].wire, n)
  PROVE  Once([cl EXCEPT ![c] = k2], dl, tk \cup {m})
<1> DEFINE cl2 == [cl EXCEPT ![c] = k2]
           tk2 == tk \cup {m}
<1>1. /\ cl2 \in [Clients -> ClientRecs] /\ cl2[c] = k2
      /\ \A d \in Clients : d # c => cl2[d] = cl[d]
  BY DEF Once, GoodClient
<1>2. tk2 \subseteq Sends /\ m # NoSend /\ dl[m] = 0 /\ dl \in [Sends -> {0, 1}]
  BY SmtpAssumption DEF Once
<1> HIDE DEF cl2
<1>3. \A d \in Clients, n \in Senders : HasDot(cl2[d].wire, n) => HasDot(cl[d].wire, n)
  BY <1>1
<1>4. \A d \in Clients, n \in Senders : HasDot(cl2[d].wire, n) => n \in tk /\ dl[n] = 0
  BY <1>3 DEF Once
<1>5. ~Spent(cl2, dl, m)
  BY <1>2, <1>4 DEF Spent, Senders
<1>6. ASSUME NEW d \in Clients, cl2[d].send # NoSend, Spent(cl2, dl, cl2[d].send)
      PROVE  Ended(cl2[d])
  <2>1. cl2[d].send # m /\ cl2[d] = cl[d]
    BY <1>1, <1>5, <1>6
  <2>2. cl[d].send \in Senders
    BY DEF Once, GoodClient, ClientRecs
  <2>3. Spent(cl, dl, cl[d].send)
    BY <1>3, <1>6, <2>1, <2>2 DEF Spent
  <2>4. QED
    BY <1>6, <2>1, <2>3 DEF Once
<1>7. \A d \in Clients : /\ GoodClient(cl2[d]) /\ cl2[d].send \in tk2 \cup {NoSend}
                         /\ cl2[d].send = NoSend => Unused(cl2[d])
  BY <1>1, <1>2 DEF Once
<1>8. \A d, e \in Clients : cl2[d].send = cl2[e].send /\ cl2[d].send # NoSend => d = e
  BY <1>1, <1>2 DEF Once
<1>9. \A d, e \in Clients, n \in Senders : HasDot(cl2[d].wire, n) /\ HasDot(cl2[e].wire, n) => d = e
  BY <1>3 DEF Once
<1>10. \A n \in Sends \ tk2 : dl[n] = 0
  BY DEF Once
<1>11. \A d \in Clients, n \in Senders : HasDot(cl2[d].wire, n) => n \in tk2 /\ dl[n] = 0
  BY <1>4
<1> HIDE DEF tk2
<1>12. Once(cl2, dl, tk2)
  BY <1>1, <1>2, <1>6, <1>7, <1>8, <1>9, <1>10, <1>11 DEF Once
<1>13. QED
  BY <1>12 DEF cl2, tk2

\* A handler that works for a client with a send.
LEMMA TouchEvo ==
  ASSUME NEW s, NEW c \in Clients, NEW tk, NEW s2, Touch(s, s2, c, tk),
         \A d \in Clients : GoodClient(s.client[d]), s.client[c].send # NoSend
  PROVE  EvoAll(s.client, s2.client)
<1>1. s2.client \in [Clients -> ClientRecs]
  BY DEF Touch, States
<1>2. \A d \in Clients : Evo(s.client[d], s2.client[d])
  BY EvoSame DEF Touch
<1>3. \A d \in Clients : Unused(s.client[d]) /\ s.client[d].send = NoSend => Unused(s2.client[d])
  BY DEF Touch
<1>4. QED
  BY <1>1, <1>2, <1>3 DEF EvoAll

LEMMA OnceTouch ==
  ASSUME NEW s, NEW c \in Clients, NEW tk, NEW s2, Touch(s, s2, c, tk),
         s.client[c].send # NoSend, NEW dl, Once(s.client, dl, tk)
  PROVE  Once(s2.client, dl, tk)
<1>1. \A d \in Clients : GoodClient(s.client[d])
  BY DEF Once
<1>2. EvoAll(s.client, s2.client)
  BY <1>1, TouchEvo
<1>3. QED
  BY <1>2, OnceEvolves

-----------------------------------------------------------------------------
(* Replies.                                                                *)

ReplyCodes == {"250", "354", "221", "4xx", "5xx"}

\* A client in the middle of its message goes on with another command.
LEMMA ProceedEvo ==
  ASSUME NEW k, GoodClient(k), Sending(k), NEW act \in {"rcpt", "data", "stream"},
         NEW name \in Names, name # "dot"
  PROVE  Evo(k, Proceed(k, act, name))
<1> DEFINE k1 == [k EXCEPT !.act = act]
<1>1. k \in ClientRecs /\ k.wire \in Seq(Cmds)
  BY DEF GoodClient, ClientRecs
<1>2. /\ k1 \in ClientRecs /\ k1.wire = k.wire /\ k1.sock = k.sock
      /\ k1.send = k.send /\ k1.fresh = k.fresh /\ k1.retry = k.retry
  BY <1>1 DEF ClientRecs, Actions
<1> HIDE DEF k1
<1>3. PICK w \in Seq(Cmds) : SendCmd(k1, name) = [k1 EXCEPT !.wire = w] /\ Fewer(k.wire, w)
  BY <1>2, SendCmdWire
<1> DEFINE k2 == [k1 EXCEPT !.wire = w]
<1>4. /\ k2 \in ClientRecs /\ k2.wire = w /\ k2.sock = k.sock
      /\ k2.send = k.send /\ k2.fresh = k.fresh /\ k2.retry = k.retry
  BY <1>2 DEF ClientRecs
<1> HIDE DEF k2
<1>5. ~Ended(k) /\ (k.sock = "open" => ~k.fresh) /\ (k.retry => "temp" \in Faults)
  BY DEF Ended, GoodClient
<1>6. Evo(k, k2)
  BY <1>1, <1>3, <1>4, <1>5, EvoFields
<1>7. QED
  BY <1>3, <1>6 DEF k1, k2, Proceed

\* The end of the message, on an open socket or not.
LEMMA ProceedDot ==
  ASSUME NEW k, GoodClient(k), Sending(k), ~HasDot(k.wire, k.send)
  PROVE  LET k2 == Proceed(k, "stream", "dot")
         IN  \/ Evo(k, k2)
             \/ /\ GoodClient(k2) /\ k2.send = k.send /\ Ended(k2)
                /\ \A n \in Senders : HasDot(k2.wire, n) => n = k.send \/ HasDot(k.wire, n)
<1> DEFINE k1 == [k EXCEPT !.act = "stream"]
           m == k.send
           w == Append(k.wire, Cmd("dot", m))
           k2 == [k1 EXCEPT !.wire = w]
<1>1. k \in ClientRecs /\ k.wire \in Seq(Cmds) /\ m \in Senders /\ Single(k.wire)
  BY DEF GoodClient, ClientRecs
<1>2. /\ k1 \in ClientRecs /\ k1.wire = k.wire /\ k1.sock = k.sock /\ k1.act = "stream"
      /\ k1.send = m /\ k1.fresh = k.fresh /\ k1.retry = k.retry
  BY <1>1 DEF ClientRecs, Actions
<1>3. Proceed(k, "stream", "dot") = IF k1.sock = "open" THEN [k1 EXCEPT !.wire = Append(@, Cmd("dot", k1.send))] ELSE k1
  BY DEF Proceed, SendCmd
<1>4. ~Ended(k) /\ (k.sock = "open" => ~k.fresh) /\ (k.retry => "temp" \in Faults)
  BY DEF Ended, GoodClient
<1>5. CASE k.sock # "open"
  <2> HIDE DEF k1
  <2>1. Evo(k, k1)
    BY <1>1, <1>2, <1>4, <1>5, EvoFields, FewerSame DEF Sending
  <2>2. QED
    BY <1>2, <1>3, <1>5, <2>1
<1>6. CASE k.sock = "open"
  <2> HIDE DEF k1
  <2>1. Proceed(k, "stream", "dot") = k2
    BY <1>2, <1>3, <1>6 DEF ClientRecs
  <2> HIDE DEF m
  <2>2. /\ w \in Seq(Cmds) /\ Single(w)
        /\ \A n \in Senders : HasDot(w, n) => n = m \/ HasDot(k.wire, n)
    BY <1>1, AppendDot DEF m
  <2> HIDE DEF w
  <2>3. /\ k2 \in ClientRecs /\ k2.wire = w /\ k2.sock = k.sock /\ k2.act = "stream"
        /\ k2.send = m /\ k2.fresh = k.fresh /\ k2.retry = k.retry
    BY <1>2, <2>2 DEF ClientRecs
  <2> HIDE DEF k2
  <2>4. GoodClient(k2) /\ Ended(k2)
    BY <1>4, <1>6, <2>2, <2>3 DEF GoodClient, Ended, Sending
  <2>5. QED
    BY <2>1, <2>2, <2>3, <2>4 DEF m
<1>7. QED
  BY <1>5, <1>6

\* A login that went well.
LEMMA LoggedInEvo ==
  ASSUME NEW k, GoodClient(k), k.act = "login"
  PROVE  Evo(k, OnIdle([k EXCEPT !.auth = FALSE, !.act = "idle"]))
<1> DEFINE k1 == [k EXCEPT !.auth = FALSE, !.act = "idle"]
<1>1. k \in ClientRecs /\ k.wire \in Seq(Cmds)
  BY DEF GoodClient, ClientRecs
<1>2. /\ k1 \in ClientRecs /\ k1.wire = k.wire /\ k1.act = "idle" /\ k1.sock = k.sock
      /\ k1.send = k.send /\ k1.fresh = k.fresh /\ k1.retry = k.retry
  BY <1>1 DEF ClientRecs, Actions
<1> HIDE DEF k1
<1>3. GoodClient(k1)
  BY <1>2 DEF GoodClient, Sending
<1>4. Ended(k) => ~k1.retry /\ Ended(k1)
  BY <1>2 DEF Ended, Sending
<1>5. Evo(k, OnIdle(k1))
  BY <1>2, <1>3, <1>4, OnIdleEvo DEF Evo
<1>6. QED
  BY <1>5 DEF k1

LEMMA HandleOnce ==
  ASSUME NEW s \in States(taken), NEW c \in Clients, NEW dl, Once(s.client, dl, taken),
         s.client[c].send # NoSend, NEW code \in ReplyCodes, code = "4xx" => "temp" \in Faults
  PROVE  Handle(s, c, code) \in States(taken) /\ Once(Handle(s, c, code).client, dl, taken)
<1> DEFINE k == s.client[c]
           h == Handle(s, c, code)
<1>1. GoodClient(k)
  BY DEF Once
<1>2. SUFFICES ASSUME ~(k.act = "data" /\ code \in {"250", "354"})
               PROVE  Touch(s, h, c, taken)
  <2>1. CASE ~(k.act = "data" /\ code \in {"250", "354"})
    <3>1. Touch(s, h, c, taken)
      BY <1>2, <2>1
    <3> HIDE DEF h
    <3>2. Once(h.client, dl, taken)
      BY <3>1, OnceTouch
    <3>3. QED
      BY <3>1, <3>2 DEF Touch, h
  <2>2. CASE k.act = "data" /\ code \in {"250", "354"}
    <3> DEFINE k2 == Proceed(k, "stream", "dot")
    <3>1. h = Set(s, c, k2)
      BY <2>2 DEF Handle
    <3>2. Sending(k) /\ ~Ended(k)
      BY <2>2 DEF Ended, Sending
    <3>3. ~HasDot(k.wire, k.send)
      BY <3>2 DEF Once, Spent
    <3>4. \/ Evo(k, k2)
          \/ /\ GoodClient(k2) /\ k2.send = k.send /\ Ended(k2)
             /\ \A n \in Senders : HasDot(k2.wire, n) => n = k.send \/ HasDot(k.wire, n)
      BY <1>1, <3>2, <3>3, ProceedDot
    <3> HIDE DEF k2
    <3>5. CASE Evo(k, k2)
      <4>1. Touch(s, Set(s, c, k2), c, taken)
        BY <3>5, SetTouch
      <4>2. Once(Set(s, c, k2).client, dl, taken)
        BY <4>1, OnceTouch
      <4>3. QED
        BY <3>1, <4>1, <4>2 DEF Touch
    <3>6. CASE ~Evo(k, k2)
      <4> DEFINE cl2 == [s.client EXCEPT ![c] = k2]
      <4>1. Once(cl2, dl, taken)
        BY <3>2, <3>4, <3>6, OnceDot
      <4>2. cl2 \in [Clients -> ClientRecs]
        BY <4>1 DEF Once
      <4>3. Set(s, c, k2) = [s EXCEPT !.client = cl2]
        BY DEF Set, States
      <4> HIDE DEF cl2
      <4>4. [s EXCEPT !.client = cl2] \in States(taken) /\ [s EXCEPT !.client = cl2].client = cl2
        BY <4>2 DEF States
      <4>5. QED
        BY <3>1, <4>1, <4>3, <4>4
    <3>7. QED
      BY <3>5, <3>6
  <2>3. QED
    BY <2>1, <2>2
<1>3. CASE k.act = "hello" /\ Success(code)
  <2> DEFINE k2 == SendCmd([k EXCEPT !.act = "login", !.auth = TRUE], "login")
  <2>1. k \in ClientRecs
    BY <1>1 DEF GoodClient
  <2>2. [[k EXCEPT !.auth = TRUE] EXCEPT !.act = "login"] = [k EXCEPT !.act = "login", !.auth = TRUE]
    BY <2>1 DEF ClientRecs
  <2>3. h = Set(s, c, Proceed([k EXCEPT !.auth = TRUE], "login", "login"))
    BY <1>3 DEF Handle
  <2>4. h = Set(s, c, k2)
    BY <2>2, <2>3 DEF Proceed
  <2>5. Evo(k, k2)
    BY <1>1, <1>3, LoginEvo DEF Ended
  <2> HIDE DEF k2, h
  <2>6. QED
    BY <2>4, <2>5, SetTouch
<1>4. CASE k.act = "login" /\ Success(code)
  <2> DEFINE k2 == OnIdle([k EXCEPT !.auth = FALSE, !.act = "idle"])
  <2>1. h = Set(s, c, k2)
    BY <1>4 DEF Handle
  <2>2. Evo(k, k2)
    BY <1>1, <1>4, LoggedInEvo
  <2> HIDE DEF k2, h
  <2>3. QED
    BY <2>1, <2>2, SetTouch
<1>5. CASE k.act = "mail" /\ Success(code)
  <2> DEFINE k2 == Proceed(k, "rcpt", "rcpt")
  <2>1. h = Set(s, c, k2)
    BY <1>5 DEF Handle
  <2>2. Evo(k, k2)
    BY <1>1, <1>5, ProceedEvo DEF Sending, Names
  <2> HIDE DEF k2, h
  <2>3. QED
    BY <2>1, <2>2, SetTouch
<1>6. CASE k.act = "rcpt" /\ Success(code)
  <2> DEFINE k2 == Proceed(k, "data", "data")
  <2>1. h = Set(s, c, k2)
    BY <1>6 DEF Handle
  <2>2. Evo(k, k2)
    BY <1>1, <1>6, ProceedEvo DEF Sending, Names
  <2> HIDE DEF k2, h
  <2>3. QED
    BY <2>1, <2>2, SetTouch
<1>7. CASE k.act = "stream"
  <2>1. h = StreamDone(s, c, Success(code))
    BY <1>7 DEF Handle
  <2>2. Success(code) \in BOOLEAN
    BY DEF Success
  <2>3. QED
    BY <1>1, <2>1, <2>2, StreamDoneTouch
<1>8. CASE k.act = "close"
  <2>1. h = Close(s, c)
    BY <1>8 DEF Handle
  <2>2. QED
    BY <1>1, <2>1, CloseTouch
<1>9. CASE /\ ~(k.act \in {"hello", "login", "mail", "rcpt"} /\ Success(code))
           /\ k.act \notin {"stream", "close"}
  <2>1. h = NsError(s, c, code = "4xx")
    BY <1>2, <1>9 DEF Handle
  <2>2. QED
    BY <1>1, <2>1, NsErrorTouch
<1>10. QED
  BY <1>3, <1>4, <1>5, <1>6, <1>7, <1>8, <1>9

-----------------------------------------------------------------------------
(* The actions.                                                            *)

LEMMA BecomeNow ==
  ASSUME NEW tk, NEW s \in States(tk), Become(s)
  PROVE  Now' = s /\ client' = s.client
  BY DEF Become, Now, States

LEMMA NowIs ==
  ASSUME IInv
  PROVE  /\ Now \in States(taken) /\ Now.client = client
         /\ \A c \in Clients : GoodClient(client[c]) /\ client[c] \in ClientRecs
         /\ \A c \in Clients : ~Unused(client[c]) => client[c].send # NoSend
  BY DEF IInv, Now, Once, GoodClient

\* A client with a new send: MAIL is sent, or a socket is opened first.
LEMMA AssignClient ==
  ASSUME NEW k, GoodClient(k), NEW m \in Sends
  PROVE  LET k2 == Connect([k EXCEPT !.send = m, !.fresh = TRUE])
         IN  /\ GoodClient(k2) /\ k2.send = m
             /\ \A n \in Senders : HasDot(k2.wire, n) => HasDot(k.wire, n)
<1> DEFINE k0 == [k EXCEPT !.send = m, !.fresh = TRUE]
<1>1. k \in ClientRecs /\ k.wire \in Seq(Cmds) /\ Single(k.wire) /\ (k.retry => "temp" \in Faults)
  BY DEF GoodClient, ClientRecs
<1>2. /\ k0 \in ClientRecs /\ k0.wire = k.wire /\ k0.send = m /\ k0.fresh = TRUE
      /\ k0.retry = k.retry
  BY <1>1 DEF ClientRecs, Senders
<1> HIDE DEF k0
<1>3. CASE Open(k0)
  <2>1. PICK w \in Seq(Cmds) : SendCmd(k0, "mail") = [k0 EXCEPT !.wire = w] /\ Fewer(k.wire, w)
    BY <1>2, SendCmdWire DEF Names
  <2> DEFINE k2 == [k0 EXCEPT !.wire = w, !.fresh = FALSE, !.act = "mail", !.timer = FALSE,
                              !.freed = FALSE]
  <2>2. Connect(k0) = k2
    BY <1>2, <1>3, <2>1 DEF Connect, OnIdle, ClientRecs
  <2>3. /\ k2 \in ClientRecs /\ k2.wire = w /\ k2.send = m /\ k2.fresh = FALSE
        /\ k2.retry = k.retry
    BY <1>2 DEF ClientRecs, Actions
  <2> HIDE DEF k2
  <2>4. GoodClient(k2)
    BY <1>1, <2>1, <2>3 DEF GoodClient, Fewer
  <2>5. QED
    BY <2>1, <2>2, <2>3, <2>4 DEF Fewer, k0
<1>4. CASE ~Open(k0)
  <2> DEFINE n == IF k0.sock = "closing" THEN k0.stale + 1 ELSE k0.stale
             e == <<>>
             k2 == [k0 EXCEPT !.sock = "connecting", !.wire = e, !.sent = 0, !.freed = FALSE,
                              !.stale = n]
  <2>1. Connect(k0) = k2
    BY <1>2, <1>4 DEF Connect, ClientRecs
  <2>2. n \in Nat /\ e \in Seq(Cmds) /\ e = <<>>
    BY <1>2 DEF ClientRecs
  <2> HIDE DEF n, e
  <2>3. /\ k2 \in ClientRecs /\ k2.wire = <<>> /\ k2.sock = "connecting" /\ k2.send = m
        /\ k2.retry = k.retry
    BY <1>2, <2>2 DEF ClientRecs, Sockets
  <2> HIDE DEF k2
  <2>4. GoodClient(k2) /\ \A x \in Senders : HasDot(k2.wire, x) => HasDot(k.wire, x)
    BY <1>1, <2>3, FewerSame DEF GoodClient, Fewer
  <2>5. QED
    BY <2>1, <2>3, <2>4 DEF k0
<1>5. QED
  BY <1>3, <1>4

\* The state from which a send takes client c.
LEMMA AssignOnce ==
  ASSUME NEW s \in States(taken), s.client = client, IInv, NEW c \in Clients, NEW m \in Sends,
         m \notin taken, m \notin s.woken
  PROVE  /\ Assign(s, c, m) \in States(taken \cup {m})
         /\ Once(Assign(s, c, m).client, delivered, taken \cup {m})
<1> DEFINE k2 == Connect([s.client[c] EXCEPT !.send = m, !.fresh = TRUE])
           cl2 == [client EXCEPT ![c] = k2]
           b == s.busy \cup {c}
           s2 == [s EXCEPT !.busy = b, !.client = cl2]
<1>1. Assign(s, c, m) = s2
  BY DEF Assign, Set, States
<1>2. /\ GoodClient(k2) /\ k2.send = m
      /\ \A n \in Senders : HasDot(k2.wire, n) => HasDot(client[c].wire, n)
  BY NowIs, AssignClient
<1> HIDE DEF k2
<1>3. Once(cl2, delivered, taken \cup {m})
  BY <1>2, OnceAssign DEF IInv
<1>4. cl2 \in [Clients -> ClientRecs] /\ b \in SUBSET Clients
  BY <1>3 DEF Once, States
<1> HIDE DEF cl2, b
<1>5. s.woken \in SUBSET (Sends \ (taken \cup {m}))
  BY DEF States
<1>6. s2 \in States(taken \cup {m}) /\ s2.client = cl2
  BY <1>4, <1>5 DEF States
<1>7. QED
  BY <1>1, <1>3, <1>6

LEMMA GetNextClientOnce ==
  ASSUME IInv, NEW m \in Sends, m \notin taken, GetNextClient(m),
         delivered' = delivered, prompts' = prompts
  PROVE  IInv'
<1>1. Now \in States(taken) /\ Now.client = client
  BY NowIs
<1> DEFINE u == woken \ {m}
<1>2. u \in SUBSET (Sends \ taken) /\ m \notin u /\ waits \in [Sends -> Nat] /\ made \in 0..MaxClients
      /\ free \in Seq(Clients) /\ waiting \in Seq([send : Sends, n : Nat]) /\ MaxClients \in Nat
  BY SmtpAssumption DEF IInv, Now, States
<1>3. CASE /\ free # <<>>
           /\ Become(Assign([Now EXCEPT !.free = Popped, !.woken = @ \ {m}], free[Len(free)], m))
           /\ taken' = taken \cup {m}
           /\ UNCHANGED <<made, waits>>
  <2> DEFINE p == Popped
             c == free[Len(free)]
             s == [Now EXCEPT !.free = p, !.woken = u]
  <2>1. p \in Seq(Clients) /\ c \in Clients
    BY <1>2, <1>3 DEF Popped
  <2>2. [Now EXCEPT !.free = Popped, !.woken = @ \ {m}] = s
    BY DEF Now
  <2> HIDE DEF p, c, u
  <2>3. s \in States(taken) /\ s.client = client /\ s.woken = u
    BY <1>1, <1>2, <2>1 DEF States
  <2> HIDE DEF s
  <2> DEFINE s2 == Assign(s, c, m)
  <2>4. s2 \in States(taken \cup {m}) /\ Once(s2.client, delivered, taken \cup {m})
    BY <1>2, <2>1, <2>3, AssignOnce
  <2>5. Become(s2)
    BY <1>3, <2>2 DEF c
  <2> HIDE DEF s2
  <2>6. Now' = s2 /\ client' = s2.client
    BY <2>4, <2>5, BecomeNow
  <2>7. QED
    BY <1>3, <2>4, <2>6 DEF IInv
<1>4. CASE /\ free = <<>> /\ made < MaxClients /\ made' = made + 1
           /\ Become(Assign([Now EXCEPT !.woken = @ \ {m}], made + 1, m))
           /\ taken' = taken \cup {m}
           /\ UNCHANGED waits
  <2> DEFINE s == [Now EXCEPT !.woken = u]
             c == made + 1
  <2>1. c \in Clients /\ made' \in 0..MaxClients
    BY <1>2, <1>4 DEF Clients
  <2>2. [Now EXCEPT !.woken = @ \ {m}] = s
    BY DEF Now
  <2> HIDE DEF c, u
  <2>3. s \in States(taken) /\ s.client = client /\ s.woken = u
    BY <1>1, <1>2 DEF States
  <2> HIDE DEF s
  <2> DEFINE s2 == Assign(s, c, m)
  <2>4. s2 \in States(taken \cup {m}) /\ Once(s2.client, delivered, taken \cup {m})
    BY <1>2, <2>1, <2>3, AssignOnce
  <2>5. Become(s2)
    BY <1>4, <2>2 DEF c
  <2> HIDE DEF s2
  <2>6. Now' = s2 /\ client' = s2.client
    BY <2>4, <2>5, BecomeNow
  <2>7. QED
    BY <1>4, <2>1, <2>4, <2>6 DEF IInv
<1>5. CASE /\ waits' = [waits EXCEPT ![m] = @ + 1]
           /\ Become([Now EXCEPT !.woken = @ \ {m},
                                 !.waiting = Append(@, [send |-> m, n |-> waits[m] + 1])])
           /\ UNCHANGED <<made, taken>>
  <2> DEFINE w == Append(waiting, [send |-> m, n |-> waits[m] + 1])
             s2 == [Now EXCEPT !.woken = u, !.waiting = w]
  <2>1. [Now EXCEPT !.woken = @ \ {m}, !.waiting = Append(@, [send |-> m, n |-> waits[m] + 1])] = s2
    BY DEF Now
  <2>2. w \in Seq([send : Sends, n : Nat]) /\ waits' \in [Sends -> Nat]
    BY <1>2, <1>5
  <2> HIDE DEF w, u
  <2>3. s2 \in States(taken) /\ s2.client = client
    BY <1>1, <1>2, <2>2 DEF States
  <2>4. Become(s2)
    BY <1>5, <2>1
  <2> HIDE DEF s2
  <2>5. Now' = s2 /\ client' = s2.client
    BY <2>3, <2>4, BecomeNow
  <2>6. QED
    BY <1>5, <2>2, <2>3, <2>5 DEF IInv
<1>6. QED
  BY <1>3, <1>4, <1>5 DEF GetNextClient

LEMMA SendsOnce ==
  ASSUME IInv, NEW m \in Sends, SendMailMessage(m) \/ Resume(m)
  PROVE  IInv'
<1>1. m \notin taken
  BY DEF SendMailMessage, Resume, IInv, Now, States
<1>2. GetNextClient(m) /\ delivered' = delivered /\ prompts' = prompts
  BY DEF SendMailMessage, Resume
<1>3. QED
  BY <1>1, <1>2, GetNextClientOnce

\* An action that takes the state of the pool to s, for a client with a send.
LEMMA StepOnce ==
  ASSUME IInv, NEW s, NEW c \in Clients, client[c].send # NoSend, Touch(Now, s, c, taken),
         Become(s), UNCHANGED <<made, waits, taken, delivered>>, prompts' \in 0..MaxPrompts
  PROVE  IInv'
<1>1. Once(Now.client, delivered, taken) /\ Now.client[c].send # NoSend
  BY NowIs DEF IInv
<1>2. Once(s.client, delivered, taken)
  BY <1>1, OnceTouch
<1>3. s \in States(taken)
  BY DEF Touch
<1>4. Now' = s /\ client' = s.client
  BY <1>3, BecomeNow
<1>5. QED
  BY <1>2, <1>3, <1>4 DEF IInv

LEMMA OpenedOnce ==
  ASSUME IInv, NEW c \in Clients, Opened(c)
  PROVE  IInv'
<1> DEFINE k == client[c]
           w == <<Cmd("hello", k.send)>>
           k2 == [k EXCEPT !.sock = "open", !.act = "hello", !.tx = "none", !.wire = w]
<1>1. k \in ClientRecs /\ GoodClient(k) /\ k.sock = "connecting" /\ k.send # NoSend
  BY NowIs DEF Opened, Unused
<1>2. k.send \in Senders /\ k.wire \in Seq(Cmds)
  BY <1>1 DEF ClientRecs
<1>3. Cmd("hello", k.send) \in Cmds /\ Cmd("hello", k.send).name = "hello"
  BY <1>2, CmdType DEF Names
<1>4. Fewer(k.wire, w) /\ w \in Seq(Cmds)
  <2> DEFINE x == Cmd("hello", k.send)
  <2>1. w \in Seq(Cmds) /\ \A i \in DOMAIN w : w[i] = x
    BY <1>3
  <2>2. \A i \in DOMAIN w : i = 1
    OBVIOUS
  <2>3. \A m \in Senders : x # Cmd("dot", m)
    BY <1>3 DEF Cmd
  <2> HIDE DEF x, w
  <2>4. QED
    BY <2>1, <2>2, <2>3 DEF Fewer, Single, HasDot
<1>5. Become(Set(Now, c, k2)) /\ UNCHANGED rest
  BY DEF Opened
<1> HIDE DEF w
<1>6. /\ k2 \in ClientRecs /\ k2.wire = w /\ k2.act = "hello" /\ k2.sock = "open"
      /\ k2.send = k.send /\ k2.fresh = k.fresh /\ k2.retry = k.retry
  BY <1>1, <1>4 DEF ClientRecs, Actions, Sockets, Transactions
<1> HIDE DEF k2
<1>7. Evo(k, k2)
  BY <1>1, <1>4, <1>6, EvoFields DEF Sending, Ended, GoodClient
<1>8. Touch(Now, Set(Now, c, k2), c, taken)
  BY <1>7, NowIs, SetTouch
<1>9. prompts' \in 0..MaxPrompts
  BY <1>5 DEF IInv, rest
<1>10. QED
  BY <1>1, <1>5, <1>8, <1>9, StepOnce DEF rest

\* A user who logs in again meets no client with a pending retry.
LEMMA PromptedOnce ==
  ASSUME IInv, RetriesOnce, NEW c \in Clients, NEW asks, NEW again \in BOOLEAN,
         Prompted(asks, again)
  PROVE  (again => ~client[c].retry) /\ prompts' \in 0..MaxPrompts
<1>1. prompts \in 0..MaxPrompts /\ MaxPrompts \in Nat
  BY SmtpAssumption DEF IInv
<1>2. prompts' \in 0..MaxPrompts /\ (again => MaxPrompts # 0)
  BY <1>1 DEF Prompted
<1>3. client[c].retry => "temp" \in Faults
  BY NowIs DEF GoodClient
<1>4. QED
  BY <1>2, <1>3 DEF RetriesOnce

LEMMA ClosedOnce ==
  ASSUME IInv, RetriesOnce, NEW c \in Clients, NEW again \in BOOLEAN, Closed(c, again)
  PROVE  IInv'
<1> DEFINE k == client[c]
           k2 == [k EXCEPT !.sock = "closed", !.wire = <<>>]
           s1 == Set(Now, c, k2)
<1>1. GoodClient(k) /\ k.send # NoSend
  BY NowIs DEF Closed, Unused
<1>2. (again => ~k.retry) /\ prompts' \in 0..MaxPrompts
  BY PromptedOnce DEF Closed
<1>3. Evo(k, k2) /\ k2.retry = k.retry
  BY <1>1, SocketEvo
<1>4. Become(OnClose(s1, c, again)) /\ UNCHANGED <<made, waits, taken, delivered>>
  BY DEF Closed
<1> HIDE DEF k2
<1>5. Touch(Now, s1, c, taken) /\ s1.client[c] = k2
  BY <1>3, NowIs, SetTouch
<1> HIDE DEF s1
<1>6. s1 \in States(taken) /\ GoodClient(s1.client[c]) /\ (again => ~s1.client[c].retry)
  BY <1>2, <1>3, <1>5 DEF Touch, Evo
<1>7. Touch(s1, OnClose(s1, c, again), c, taken)
  BY <1>6, OnCloseTouch
<1>8. Touch(Now, OnClose(s1, c, again), c, taken)
  BY <1>5, <1>7, TouchTrans
<1>9. QED
  BY <1>1, <1>2, <1>4, <1>8, StepOnce

LEMMA StaleClosedOnce ==
  ASSUME IInv, RetriesOnce, NEW c \in Clients, NEW again \in BOOLEAN, StaleClosed(c, again)
  PROVE  IInv'
<1> DEFINE k == client[c]
           n == k.stale - 1
           k2 == [k EXCEPT !.stale = n]
           s1 == Set(Now, c, k2)
<1>1. GoodClient(k) /\ k.send # NoSend /\ k \in ClientRecs /\ k.stale \in Nat /\ k.stale > 0
  BY NowIs DEF StaleClosed, Unused, ClientRecs
<1>2. (again => ~k.retry) /\ prompts' \in 0..MaxPrompts
  BY PromptedOnce DEF StaleClosed
<1>3. [Now EXCEPT !.client[c].stale = @ - 1] = s1
  BY DEF Set, Now
<1>4. Become(OnClose(s1, c, again)) /\ UNCHANGED <<made, waits, taken, delivered>>
  BY <1>3 DEF StaleClosed
<1>5. n \in Nat
  BY <1>1
<1> HIDE DEF n
<1>6. /\ k2 \in ClientRecs /\ k2.wire = k.wire /\ k2.act = k.act /\ k2.sock = k.sock
      /\ k2.send = k.send /\ k2.fresh = k.fresh /\ k2.retry = k.retry /\ k.wire \in Seq(Cmds)
  BY <1>1, <1>5 DEF ClientRecs
<1> HIDE DEF k2
<1>7. Evo(k, k2)
  BY <1>1, <1>6, EvoFields, FewerSame DEF Sending, Ended, GoodClient
<1>8. Touch(Now, s1, c, taken) /\ s1.client[c] = k2
  BY <1>7, NowIs, SetTouch
<1> HIDE DEF s1
<1>9. s1 \in States(taken) /\ GoodClient(s1.client[c]) /\ (again => ~s1.client[c].retry)
  BY <1>2, <1>6, <1>7, <1>8 DEF Touch, Evo
<1>10. Touch(s1, OnClose(s1, c, again), c, taken)
  BY <1>9, OnCloseTouch
<1>11. Touch(Now, OnClose(s1, c, again), c, taken)
  BY <1>8, <1>10, TouchTrans
<1>12. QED
  BY <1>1, <1>2, <1>4, <1>11, StepOnce

LEMMA QuitTimerOnce ==
  ASSUME IInv, NEW c \in Clients, QuitTimer(c)
  PROVE  IInv'
<1> DEFINE k == client[c]
           k1 == [k EXCEPT !.timer = FALSE]
           k2 == IF Open(k1) /\ ~active THEN Quit(k1) ELSE k1
<1>1. GoodClient(k) /\ k.send # NoSend /\ k \in ClientRecs /\ k.wire \in Seq(Cmds)
  BY NowIs DEF QuitTimer, Unused, ClientRecs
<1>2. Become(Set(Now, c, k2)) /\ UNCHANGED rest
  BY DEF QuitTimer
<1>3. /\ k1 \in ClientRecs /\ k1.wire = k.wire /\ k1.act = k.act /\ k1.sock = k.sock
      /\ k1.send = k.send /\ k1.fresh = k.fresh /\ k1.retry = k.retry
  BY <1>1 DEF ClientRecs
<1> HIDE DEF k1
<1>4. Evo(k, k1)
  BY <1>1, <1>3, EvoFields, FewerSame DEF Sending, Ended, GoodClient
<1>5. Evo(k1, Quit(k1))
  BY <1>4, QuitEvo DEF Evo
<1>6. Evo(k, k2)
  BY <1>4, <1>5, EvoTrans
<1> HIDE DEF k2
<1>7. Touch(Now, Set(Now, c, k2), c, taken)
  BY <1>6, NowIs, SetTouch
<1>8. prompts' \in 0..MaxPrompts
  BY <1>2 DEF IInv, rest
<1>9. QED
  BY <1>1, <1>2, <1>7, <1>8, StepOnce DEF rest

LEMMA AuthRejectedOnce ==
  ASSUME IInv, RetriesOnce, NEW c \in Clients, NEW again \in BOOLEAN, AuthRejected(c, again)
  PROVE  IInv'
<1> DEFINE k == client[c]
           w == Tail(k.wire)
           k2 == [k EXCEPT !.wire = w, !.auth = FALSE]
           s1 == Set(Now, c, k2)
<1>1. /\ GoodClient(k) /\ k.send # NoSend /\ k \in ClientRecs /\ k.wire \in Seq(Cmds)
      /\ k.wire # <<>>
  BY NowIs DEF AuthRejected, Unused, ClientRecs
<1>2. (again => ~k.retry) /\ prompts' \in 0..MaxPrompts
  BY PromptedOnce DEF AuthRejected
<1>3. [k EXCEPT !.wire = Tail(@), !.auth = FALSE] = k2
  BY <1>1 DEF ClientRecs
<1>4. Become(AuthFailed(s1, c, again)) /\ UNCHANGED <<made, waits, taken, delivered>>
  BY <1>3 DEF AuthRejected
<1>5. Fewer(k.wire, w) /\ w \in Seq(Cmds)
  BY <1>1, FewerTail DEF Fewer
<1> HIDE DEF w
<1>6. /\ k2 \in ClientRecs /\ k2.wire = w /\ k2.act = k.act /\ k2.sock = k.sock
      /\ k2.send = k.send /\ k2.fresh = k.fresh /\ k2.retry = k.retry
  BY <1>1, <1>5 DEF ClientRecs
<1> HIDE DEF k2
<1>7. Evo(k, k2)
  BY <1>1, <1>5, <1>6, EvoFields DEF Sending, Ended, GoodClient
<1>8. Touch(Now, s1, c, taken) /\ s1.client[c] = k2
  BY <1>7, NowIs, SetTouch
<1> HIDE DEF s1
<1>9. s1 \in States(taken) /\ GoodClient(s1.client[c]) /\ (again => ~s1.client[c].retry)
  BY <1>2, <1>6, <1>7, <1>8 DEF Touch, Evo
<1>10. Touch(s1, AuthFailed(s1, c, again), c, taken)
  BY <1>9, AuthFailedTouch
<1>11. Touch(Now, AuthFailed(s1, c, again), c, taken)
  BY <1>8, <1>10, TouchTrans
<1>12. QED
  BY <1>1, <1>2, <1>4, <1>11, StepOnce

LEMMA AcceptsOnWire ==
  ASSUME NEW k \in ClientRecs, NEW m \in Accepts(k)
  PROVE  m \in Senders /\ HasDot(k.wire, m)
<1>1. PICK j \in DOMAIN k.wire : k.wire[j].name = "dot" /\ m = k.wire[j].send
  BY DEF Accepts
<1>2. k.wire \in Seq(Cmds)
  BY DEF ClientRecs
<1>3. k.wire[j] \in Cmds
  BY <1>2
<1>4. k.wire[j] = Cmd("dot", m) /\ m \in Senders
  BY <1>1, <1>3 DEF Cmds, Cmd
<1>5. QED
  BY <1>4 DEF HasDot

\* A connection is lost, and perhaps the reply to a message with it.
LEMMA LostOnce ==
  ASSUME IInv, NEW c \in Clients, NEW k2, Evo(client[c], k2), k2.wire = <<>>,
         client[c].send # NoSend, NEW accepted \in BOOLEAN, ReplyLost(client[c], accepted)
  PROVE  /\ Touch(Now, Set(Now, c, k2), c, taken)
         /\ Set(Now, c, k2).client[c] = k2
         /\ Once(Set(Now, c, k2).client, delivered', taken)
<1> DEFINE s1 == Set(Now, c, k2)
<1>1. Now \in States(taken) /\ Now.client = client
  BY NowIs
<1>2. Touch(Now, s1, c, taken) /\ s1.client[c] = k2
  BY <1>1, SetTouch
<1>3. Once(client, delivered, taken) /\ client[c] \in ClientRecs
  BY NowIs DEF IInv
<1> HIDE DEF s1
<1>4. CASE ~accepted
  <2>1. delivered' = delivered
    BY <1>4 DEF ReplyLost
  <2>2. Once(s1.client, delivered, taken)
    BY <1>1, <1>2, <1>3, OnceTouch
  <2>3. QED
    BY <1>2, <2>1, <2>2 DEF s1
<1>5. CASE accepted
  <2>1. PICK m \in Accepts(client[c]) : delivered' = [delivered EXCEPT ![m] = @ + 1]
    BY <1>5 DEF ReplyLost
  <2>2. m \in Senders /\ HasDot(client[c].wire, m)
    BY <1>3, AcceptsOnWire
  <2>3. ~HasDot(s1.client[c].wire, m)
    BY <1>2 DEF HasDot
  <2>4. EvoAll(client, s1.client)
    <3>1. \A d \in Clients : GoodClient(Now.client[d])
      BY <1>1, NowIs
    <3>2. Now.client[c].send # NoSend
      BY <1>1
    <3>3. QED
      BY <1>1, <1>2, <3>1, <3>2, TouchEvo
  <2>5. Once(s1.client, delivered', taken)
    BY <1>3, <2>1, <2>2, <2>3, <2>4, OncePop
  <2>6. QED
    BY <1>2, <2>5 DEF s1
<1>6. QED
  BY <1>4, <1>5

LEMMA HangUpOnce ==
  ASSUME IInv, NEW c \in Clients, NEW accepted \in BOOLEAN, HangUp(c, accepted)
  PROVE  IInv'
<1> DEFINE k == client[c]
<1>1. GoodClient(k) /\ k.send # NoSend
  BY NowIs DEF HangUp, Unused
<1>2. PICK end \in {"gone", "closing"} : Become(Set(Now, c, [k EXCEPT !.sock = end, !.wire = <<>>]))
  BY DEF HangUp
<1> DEFINE k2 == [k EXCEPT !.sock = end, !.wire = <<>>]
           s1 == Set(Now, c, k2)
<1>3. ReplyLost(k, accepted) /\ UNCHANGED <<made, waits, taken, prompts>>
  BY DEF HangUp
<1>4. Evo(k, k2)
  BY <1>1, SocketEvo
<1>5. k2.wire = <<>>
  BY NowIs DEF ClientRecs
<1>6. Become(s1)
  BY <1>2
<1> HIDE DEF k2
<1>7. Touch(Now, s1, c, taken) /\ Once(s1.client, delivered', taken)
  BY <1>1, <1>3, <1>4, <1>5, LostOnce
<1> HIDE DEF s1
<1>8. s1 \in States(taken)
  BY <1>7 DEF Touch
<1>9. Now' = s1 /\ client' = s1.client
  BY <1>6, <1>8, BecomeNow
<1>10. QED
  BY <1>3, <1>7, <1>8, <1>9 DEF IInv

LEMMA FailingEvo ==
  ASSUME NEW k, GoodClient(k), NEW b \in BOOLEAN
  PROVE  Evo(k, [k EXCEPT !.failing = b])
<1> DEFINE k2 == [k EXCEPT !.failing = b]
<1>1. k \in ClientRecs /\ k.wire \in Seq(Cmds)
  BY DEF GoodClient, ClientRecs
<1>2. /\ k2 \in ClientRecs /\ k2.wire = k.wire /\ k2.act = k.act
      /\ k2.sock = k.sock /\ k2.send = k.send /\ k2.fresh = k.fresh /\ k2.retry = k.retry
  BY <1>1 DEF ClientRecs
<1> HIDE DEF k2
<1>3. Evo(k, k2)
  BY <1>1, <1>2, EvoFields, FewerSame DEF Sending, Ended, GoodClient
<1>4. QED
  BY <1>3 DEF k2

LEMMA SocketErrorOnce ==
  ASSUME IInv, NEW c \in Clients, NEW tls \in BOOLEAN, NEW accepted \in BOOLEAN,
         SocketError(c, tls, accepted)
  PROVE  IInv'
<1> DEFINE k == client[c]
           end == IF k.sock = "open" THEN "closing" ELSE "closed"
           k1 == [k EXCEPT !.sock = end, !.wire = <<>>]
           s1 == Set(Now, c, k1)
           s2 == Free(s1, c)
           k3 == [Quit(s2.client[c]) EXCEPT !.failing = tls]
           s3 == Set(s2, c, k3)
           s4 == CASE k.freed -> s1 [] ~k.freed /\ tls -> s3 [] OTHER -> Tell(s3, c, "failed")
<1>1. GoodClient(k) /\ k.send # NoSend
  BY NowIs DEF SocketError, Unused
<1>2. Become(s4) /\ ReplyLost(k, accepted) /\ UNCHANGED <<made, waits, taken, prompts>>
  BY DEF SocketError
<1>3. end \in {"closed", "closing", "gone"}
  OBVIOUS
<1>4. k1.wire = <<>>
  BY NowIs DEF ClientRecs
<1> HIDE DEF end
<1>5. Evo(k, k1)
  BY <1>1, <1>3, SocketEvo
<1> HIDE DEF k1
<1>6. /\ Touch(Now, s1, c, taken) /\ s1.client[c] = k1
      /\ Once(s1.client, delivered', taken)
  BY <1>1, <1>2, <1>4, <1>5, LostOnce
<1> HIDE DEF s1
<1>7. s1 \in States(taken) /\ GoodClient(s1.client[c]) /\ s1.client[c].send # NoSend
  BY <1>1, <1>5, <1>6 DEF Touch, Evo
<1>8. Touch(s1, s2, c, taken)
  BY <1>7, FreeTouch
<1> HIDE DEF s2
<1>9. s2 \in States(taken) /\ GoodClient(s2.client[c])
  BY <1>8 DEF Touch, Evo
<1>10. Evo(s2.client[c], Quit(s2.client[c])) /\ GoodClient(Quit(s2.client[c]))
  BY <1>9, QuitEvo DEF Evo
<1>11. Evo(s2.client[c], k3)
  BY <1>10, FailingEvo, EvoTrans
<1> HIDE DEF k3
<1>12. Touch(s2, s3, c, taken)
  BY <1>9, <1>11, SetTouch
<1> HIDE DEF s3
<1>13. s3 \in States(taken) /\ GoodClient(s3.client[c])
  BY <1>12 DEF Touch, Evo
<1>14. Touch(s3, Tell(s3, c, "failed"), c, taken)
  BY <1>13, TellTouch
<1>15. Touch(s1, s3, c, taken)
  BY <1>8, <1>12, TouchTrans
<1>16. Touch(s1, Tell(s3, c, "failed"), c, taken)
  BY <1>14, <1>15, TouchTrans
<1>17. Touch(s1, s1, c, taken)
  BY <1>7, SameTouch
<1>18. Touch(s1, s4, c, taken)
  BY <1>15, <1>16, <1>17
<1> HIDE DEF s4
<1>19. Once(s4.client, delivered', taken)
  BY <1>6, <1>7, <1>18, OnceTouch
<1>20. s4 \in States(taken)
  BY <1>18 DEF Touch
<1>21. Now' = s4 /\ client' = s4.client
  BY <1>2, <1>20, BecomeNow
<1>22. QED
  BY <1>2, <1>19, <1>20, <1>21 DEF IInv

\* Every connection is closed: also those of other sends, and those never used.
LEMMA CloseCachedOnce ==
  ASSUME NEW s \in States(taken), NEW dl, Once(s.client, dl, taken)
  PROVE  /\ CloseCached(s) \in States(taken) /\ Once(CloseCached(s).client, dl, taken)
         /\ EvoAll(s.client, CloseCached(s).client)
<1> DEFINE gone == s.busy \cup {s.free[i] : i \in DOMAIN s.free}
           cl == [c \in Clients |-> IF c \in gone THEN Quit(s.client[c]) ELSE s.client[c]]
           v == Wakes({s.waiting[i] : i \in DOMAIN s.waiting})
           u == s.woken \cup v
           e == <<>>
           z == {}
           s2 == [s EXCEPT !.client = cl, !.woken = u, !.free = e, !.busy = z]
<1>1. CloseCached(s) = s2
  BY DEF CloseCached, States
<1>2. \A c \in Clients : GoodClient(s.client[c])
  BY DEF Once
<1>3. \A c \in Clients : /\ Evo(s.client[c], cl[c])
                         /\ Unused(s.client[c]) => Unused(cl[c])
  BY <1>2, QuitEvo, EvoSame
<1>4. cl \in [Clients -> ClientRecs]
  BY <1>3 DEF Evo, GoodClient
<1>5. {s.waiting[i] : i \in DOMAIN s.waiting} \in SUBSET [send : Sends, n : Nat]
  <2> DEFINE R == [send : Sends, n : Nat]
             q == s.waiting
  <2>1. q \in Seq(R)
    BY DEF States
  <2> HIDE DEF R, q
  <2>2. \A i \in DOMAIN q : q[i] \in R
    BY <2>1
  <2>3. QED
    BY <2>2 DEF R, q
<1>6. v \in SUBSET (Sends \ taken)
  BY <1>5, WakesType
<1> HIDE DEF v, cl
<1>7. u \in SUBSET (Sends \ taken) /\ e \in Seq(Clients) /\ z \in SUBSET Clients
  BY <1>6 DEF States
<1> HIDE DEF u, e, z
<1>8. s2 \in States(taken) /\ s2.client = cl
  BY <1>4, <1>7 DEF States
<1>9. EvoAll(s.client, cl)
  BY <1>3, <1>4 DEF EvoAll
<1>10. Once(cl, dl, taken)
  BY <1>9, OnceEvolves
<1>11. QED
  BY <1>1, <1>8, <1>9, <1>10

LEMMA ErrorInfoOnce ==
  ASSUME IInv, NEW c \in Clients, ErrorInfo(c)
  PROVE  IInv'
<1> DEFINE k == client[c]
           k2 == [k EXCEPT !.failing = FALSE]
           s0 == Set(Now, c, k2)
           s1 == CloseCached(s0)
           s2 == Tell(s1, c, "failed")
<1>1. GoodClient(k) /\ k.send # NoSend
  BY NowIs DEF ErrorInfo, Unused
<1>2. Become(s2) /\ UNCHANGED rest
  BY DEF ErrorInfo
<1>3. Evo(k, k2)
  BY <1>1, FailingEvo
<1> HIDE DEF k2
<1>4. Touch(Now, s0, c, taken)
  BY <1>3, NowIs, SetTouch
<1> HIDE DEF s0
<1>5. Once(Now.client, delivered, taken) /\ Now.client[c].send # NoSend
  BY <1>1, NowIs DEF IInv
<1>6. Once(s0.client, delivered, taken) /\ s0 \in States(taken)
  BY <1>4, <1>5, OnceTouch DEF Touch
<1>7. s1 \in States(taken) /\ Once(s1.client, delivered, taken)
  BY <1>6, CloseCachedOnce
<1> HIDE DEF s1
<1>8. GoodClient(s1.client[c])
  BY <1>7 DEF Once
<1>9. Touch(s1, s2, c, taken) /\ s2.client = s1.client
  BY <1>7, <1>8, TellTouch
<1> HIDE DEF s2
<1>10. s2 \in States(taken) /\ Once(s2.client, delivered, taken)
  BY <1>7, <1>9 DEF Touch
<1>11. Now' = s2 /\ client' = s2.client
  BY <1>2, <1>10, BecomeNow
<1>12. QED
  BY <1>2, <1>10, <1>11 DEF IInv, rest

LEMMA AdvanceType ==
  ASSUME NEW cmd \in Names, NEW tx \in Transactions, NEW code \in ReplyCodes
  PROVE  Advance(cmd, tx, code) \in Transactions
<1>1. CASE cmd = "dot"
  BY <1>1 DEF Advance, Transactions
<1>2. CASE cmd \in {"mail", "rcpt", "data"} /\ code \in {"250", "354"}
  <2>1. Advance(cmd, tx, code) = cmd
    BY <1>2 DEF Advance
  <2>2. QED
    BY <1>2, <2>1 DEF Transactions
<1>3. CASE cmd # "dot" /\ ~(cmd \in {"mail", "rcpt", "data"} /\ code \in {"250", "354"})
  <2>1. Advance(cmd, tx, code) = tx
    BY <1>3 DEF Advance
  <2>2. QED
    BY <2>1
<1>4. QED
  BY <1>1, <1>2, <1>3

LEMMA TempCode ==
  ASSUME NEW cmd \in Names, NEW tx, "4xx" \in Codes(cmd, tx)
  PROVE  "temp" \in Faults
<1>1. CASE ~InTurn(cmd, tx)
  BY <1>1 DEF Codes
<1>2. CASE InTurn(cmd, tx) /\ cmd = "quit"
  BY <1>2 DEF Codes
<1>3. CASE InTurn(cmd, tx) /\ cmd = "data"
  BY <1>3 DEF Codes
<1>4. CASE InTurn(cmd, tx) /\ cmd # "quit" /\ cmd # "data"
  BY <1>4 DEF Codes
<1>5. QED
  BY <1>1, <1>2, <1>3, <1>4

LEMMA ReplyOnce ==
  ASSUME IInv, NEW c \in Clients, NEW code \in ReplyCodes, Reply(c, code)
  PROVE  IInv'
<1> DEFINE k == client[c]
           cmd == Head(k.wire)
           w == Tail(k.wire)
           tx == Advance(cmd.name, k.tx, code)
           kq == [k EXCEPT !.wire = <<>>, !.sock = "gone"]
           kt == [k EXCEPT !.wire = w, !.tx = tx]
           k1 == IF cmd.name = "quit" THEN kq ELSE kt
           s1 == Set(Now, c, k1)
           s2 == Handle(s1, c, code)
<1>1. /\ GoodClient(k) /\ k.send # NoSend /\ k \in ClientRecs /\ k.wire \in Seq(Cmds)
      /\ k.wire # <<>> /\ k.tx \in Transactions /\ Single(k.wire)
  BY NowIs DEF Reply, Unused, ClientRecs, GoodClient
<1>2. /\ cmd \in Cmds /\ Fewer(k.wire, w) /\ w \in Seq(Cmds)
      /\ \A m \in Senders : cmd = Cmd("dot", m) => HasDot(k.wire, m) /\ ~HasDot(w, m)
  BY <1>1, FewerTail DEF Fewer
<1>3. cmd.name \in Names /\ cmd.send \in Senders
  BY <1>2 DEF Cmds, Names
<1>4. code \in Codes(cmd.name, k.tx)
  BY DEF Reply
<1>5. code = "4xx" => "temp" \in Faults
  BY <1>3, <1>4, TempCode
<1>6. [k EXCEPT !.wire = Tail(@), !.tx = Advance(cmd.name, @, code)] = kt
  BY <1>1 DEF ClientRecs
<1>7. /\ Become(s2) /\ UNCHANGED <<made, waits, taken, prompts>>
      /\ delivered' = IF cmd.name = "dot" /\ code = "250"
                      THEN [delivered EXCEPT ![cmd.send] = @ + 1] ELSE delivered
  BY <1>6, Zenon DEF Reply
<1>8. tx \in Transactions
  BY <1>1, <1>3, AdvanceType
<1> HIDE DEF w, tx
<1>9. /\ kt \in ClientRecs /\ kt.wire = w /\ kt.act = k.act /\ kt.sock = k.sock
      /\ kt.send = k.send /\ kt.fresh = k.fresh /\ kt.retry = k.retry
  BY <1>1, <1>2, <1>8 DEF ClientRecs
<1>10. kq = [k EXCEPT !.sock = "gone", !.wire = <<>>]
  BY <1>1 DEF ClientRecs
<1>11. Evo(k, kq)
  BY <1>1, <1>10, SocketEvo
<1> HIDE DEF kt, kq
<1>12. Evo(k, kt)
  BY <1>1, <1>2, <1>9, EvoFields DEF Sending, Ended, GoodClient
<1>13. Evo(k, k1)
  BY <1>11, <1>12
<1>14. cmd.name # "quit" => k1.wire = w
  BY <1>9
<1> HIDE DEF k1, cmd
<1>15. Touch(Now, s1, c, taken) /\ s1.client[c] = k1
  BY <1>13, NowIs, SetTouch
<1> HIDE DEF s1
<1>16. Now.client = client /\ Once(Now.client, delivered, taken) /\ Now.client[c].send # NoSend
  BY <1>1, NowIs DEF IInv
<1>17. s1 \in States(taken) /\ s1.client[c].send # NoSend
  BY <1>1, <1>13, <1>15 DEF Touch, Evo
<1>18. Once(s1.client, delivered', taken)
  <2>1. CASE ~(cmd.name = "dot" /\ code = "250")
    <3>1. delivered' = delivered
      BY <1>7, <2>1
    <3>2. Once(s1.client, delivered, taken)
      BY <1>15, <1>16, OnceTouch
    <3>3. QED
      BY <3>1, <3>2
  <2>2. CASE cmd.name = "dot" /\ code = "250"
    <3> DEFINE m == cmd.send
    <3>1. cmd = Cmd("dot", m)
      BY <1>2, <2>2 DEF Cmds, Cmd
    <3>2. delivered' = [delivered EXCEPT ![m] = @ + 1]
      BY <1>7, <2>2
    <3>3. HasDot(client[c].wire, m) /\ ~HasDot(s1.client[c].wire, m) /\ m \in Senders
      BY <1>2, <1>3, <1>14, <1>15, <2>2, <3>1
    <3>4. \A d \in Clients : GoodClient(Now.client[d])
      BY <1>16 DEF Once
    <3>5. EvoAll(Now.client, s1.client)
      BY <1>15, <1>16, <3>4, TouchEvo
    <3>6. Once(client, delivered, taken) /\ EvoAll(client, s1.client)
      BY <1>16, <3>5
    <3> HIDE DEF m
    <3>7. QED
      BY <3>2, <3>3, <3>6, OncePop
  <2>3. QED
    BY <2>1, <2>2
<1> DEFINE dl == delivered'
<1>19. Once(s1.client, dl, taken)
  BY <1>18
<1> HIDE DEF dl
<1>20. s2 \in States(taken) /\ Once(s2.client, dl, taken)
  BY <1>5, <1>17, <1>19, HandleOnce
<1> HIDE DEF s2
<1>21. Now' = s2 /\ client' = s2.client
  BY <1>7, <1>20, BecomeNow
<1>22. QED
  BY <1>7, <1>20, <1>21 DEF IInv, dl

-----------------------------------------------------------------------------
(* The theorem.                                                            *)

LEMMA InitOnce == Init => IInv
<1> SUFFICES ASSUME Init PROVE IInv
  OBVIOUS
<1>0. MaxPrompts \in Nat /\ MaxClients \in Nat /\ NoSend \notin Sends
  BY SmtpAssumption
<1>1. NewClient \in ClientRecs
  <2>1. <<>> \in Seq(Cmds)
    OBVIOUS
  <2>2. QED
    BY <2>1 DEF NewClient, ClientRecs, Sockets, Actions, Senders, Transactions
<1>2. GoodClient(NewClient) /\ Unused(NewClient) /\ NewClient.send = NoSend
  BY <1>1 DEF NewClient, GoodClient, Single, Unused, Sending
<1>3. \A m \in Senders : ~HasDot(NewClient.wire, m)
  BY DEF NewClient, HasDot
<1>4. client = [c \in Clients |-> NewClient] /\ delivered = [m \in Sends |-> 0] /\ taken = {}
  BY DEF Init
<1>5. Once(client, delivered, taken)
  <2> HIDE DEF NewClient
  <2>1. client \in [Clients -> ClientRecs] /\ \A c \in Clients : client[c] = NewClient
    BY <1>1, <1>4
  <2>2. delivered \in [Sends -> {0, 1}] /\ \A m \in Sends : delivered[m] = 0
    BY <1>4
  <2>3. QED
    BY <1>2, <1>3, <1>4, <2>1, <2>2 DEF Once
<1>6. Now \in States(taken)
  <2>1. client \in [Clients -> ClientRecs]
    BY <1>5 DEF Once
  <2>2. free \in Seq(Clients) /\ waiting \in Seq([send : Sends, n : Nat]) /\ busy \in SUBSET Clients
        /\ woken \in SUBSET (Sends \ taken)
    BY DEF Init
  <2>3. told \in [Sends -> {"no", "ok", "failed"}] /\ answers \in [Sends -> Nat]
    BY DEF Init
  <2>4. QED
    BY <2>1, <2>2, <2>3 DEF Now, States
<1>7. made \in 0..MaxClients /\ waits \in [Sends -> Nat] /\ prompts \in 0..MaxPrompts
  BY <1>0 DEF Init
<1>8. QED
  BY <1>5, <1>6, <1>7 DEF IInv

LEMMA NextOnce ==
  ASSUME RetriesOnce, IInv, [Next]_vars
  PROVE  IInv'
<1>1. CASE Next
  <2>1. ASSUME NEW m \in Sends, SendMailMessage(m) \/ Resume(m)
        PROVE  IInv'
    BY <2>1, SendsOnce
  <2>2. ASSUME NEW c \in Clients, NEW code \in ReplyCodes, Reply(c, code)
        PROVE  IInv'
    BY <2>2, ReplyOnce
  <2>3. ASSUME NEW c \in Clients, Opened(c) \/ ErrorInfo(c) \/ QuitTimer(c)
        PROVE  IInv'
    BY <2>3, OpenedOnce, ErrorInfoOnce, QuitTimerOnce
  <2>4. ASSUME NEW c \in Clients, NEW again \in BOOLEAN,
               Closed(c, again) \/ StaleClosed(c, again) \/ AuthRejected(c, again)
        PROVE  IInv'
    BY <2>4, ClosedOnce, StaleClosedOnce, AuthRejectedOnce
  <2>5. ASSUME NEW c \in Clients, NEW accepted \in BOOLEAN,
               HangUp(c, accepted) \/ \E tls \in BOOLEAN : SocketError(c, tls, accepted)
        PROVE  IInv'
    BY <2>5, HangUpOnce, SocketErrorOnce
  <2>6. QED
    BY <1>1, <2>1, <2>2, <2>3, <2>4, <2>5 DEF Next, Step, ReplyCodes
<1>2. CASE UNCHANGED vars
  <2>1. Now' = Now
    BY <1>2 DEF vars, Now
  <2>2. QED
    BY <1>2, <2>1 DEF vars, IInv
<1>3. QED
  BY <1>1, <1>2

\* The invariant of the pool: the end of a message is on at most one wire and only
\* before its delivery, and then the client that has the message will not send it
\* again, whatever of quit, connect, onidle, _onNsError, _onClose and _onError follows.
THEOREM SmtpInvariant ==
  ASSUME RetriesOnce
  PROVE  Spec => []IInv
<1>1. IInv /\ [Next]_vars => IInv'
  BY NextOnce
<1>2. QED
  BY <1>1, InitOnce, PTL DEF Spec

\* For any number of messages, clients and connections, any limit of messages per
\* connection and any faults, a message handed to sendMailMessage is accepted by the
\* server at most once, as long as a 4xx reply and a user who answers "Retry" to a
\* failed login do not meet.
THEOREM SmtpDeliveredOnce ==
  ASSUME RetriesOnce
  PROVE  Spec => []DeliveredOnce
<1>1. IInv => DeliveredOnce
  BY DEF IInv, Once, DeliveredOnce
<1>2. QED
  BY <1>1, SmtpInvariant, PTL

-----------------------------------------------------------------------------
(* What a reply answers: the second invariant, with no condition.          *)

Steps == {"mail", "rcpt", "data", "stream"}

\* The command that a step waits for, and the number of replies until the send ends.
Sent(act) == IF act = "stream" THEN "dot" ELSE act
Left(act) ==
    CASE act = "mail" -> 4 [] act = "rcpt" -> 3 [] act = "data" -> 2 [] OTHER -> 1

\* The command at place n, a second MAIL, is refused when its turn comes.
Refused(w, tx, n) ==
    /\ w[n].name = "mail"
    /\ IF n = 1 THEN tx # "none" ELSE w[n-1].name \in {"mail", "rcpt", "data"}

\* At place n the replies on their way stop doing what the client takes them for.
Stops(w, tx, act, n) ==
    \/ n <= Left(act) /\ Refused(w, tx, n)
    \/ n < Left(act) /\ w[n].name = "quit"
    \/ n = 1 /\ act # "data" /\ w[1].name = "data"

\* One reply is due to the previous send, whose command came right before.
Behind(name, act) ==
    \/ act = "mail"
    \/ act = "rcpt" /\ name = "mail"
    \/ act = "data" /\ name = "rcpt"
    \/ act = "stream" /\ name = "data"

\* The last command is that of the step; no reply is due to another send, or one is,
\* or the client gets stuck before it takes a reply for the end of message m.
InLine(w, tx, act, m) ==
    /\ w # <<>> /\ w[Len(w)].name = Sent(act)
    /\ act = "stream" => w[Len(w)].send = m
    /\ \/ Len(w) = 1
       \/ Len(w) = 2 /\ Behind(w[1].name, act)
       \/ \E n \in 1..Len(w) : Stops(w, tx, act, n)

\* A QUIT comes at once.
Quits(w) == \E n \in 1..Len(w) : n <= 2 /\ w[n].name = "quit"

\* Whether a reply is good for the step.
Positive(act, code) == IF act = "data" THEN code \in {"250", "354"} ELSE Success(code)

LEMMA WireEnds ==
  ASSUME NEW w \in Seq(Cmds), NEW x \in Cmds
  PROVE  /\ Len(w) \in Nat /\ \A n \in 1..Len(w) : w[n] \in Cmds
         /\ Append(w, x) \in Seq(Cmds) /\ Len(Append(w, x)) = Len(w) + 1
         /\ Append(w, x)[Len(w) + 1] = x
         /\ \A n \in 1..Len(w) : Append(w, x)[n] = w[n]
         /\ w # <<>> => /\ Len(w) > 0 /\ Head(w) = w[1] /\ Head(w) \in Cmds
                        /\ Tail(w) \in Seq(Cmds) /\ Len(Tail(w)) = Len(w) - 1
                        /\ \A n \in 1..Len(w) - 1 : Tail(w)[n] = w[n + 1]
  OBVIOUS

\* MAIL of the next send, behind whatever is on the wire.
LEMMA LineAssign ==
  ASSUME NEW w \in Seq(Cmds), NEW tx, NEW m \in Senders,
         Len(w) <= 1 \/ Quits(w) \/ \E act \in Steps, n \in Senders : InLine(w, tx, act, n)
  PROVE  InLine(Append(w, Cmd("mail", m)), tx, "mail", m)
<1> DEFINE x == Cmd("mail", m)
           v == Append(w, x)
<1>1. x \in Cmds /\ x.name = "mail"
  BY CmdType DEF Names
<1> HIDE DEF x
<1>2. /\ Len(w) \in Nat /\ v \in Seq(Cmds) /\ Len(v) = Len(w) + 1 /\ v[Len(w) + 1] = x
      /\ \A n \in 1..Len(w) : v[n] = w[n]
  BY <1>1, WireEnds
<1> HIDE DEF v
<1>3. v # <<>> /\ v[Len(v)].name = Sent("mail") /\ Left("mail") = 4
  BY <1>1, <1>2 DEF Sent, Left
<1>4. CASE Len(w) = 0
  BY <1>2, <1>3, <1>4 DEF InLine, v, x
<1>5. CASE Len(w) = 1
  BY <1>2, <1>3, <1>5 DEF InLine, Behind, v, x
<1>6. CASE Quits(w)
  <2>1. PICK n \in 1..Len(w) : n <= 2 /\ w[n].name = "quit"
    BY <1>6 DEF Quits
  <2>2. n \in 1..Len(v) /\ n < 4 /\ v[n].name = "quit"
    BY <1>2, <2>1
  <2>3. Stops(v, tx, "mail", n)
    BY <1>3, <2>2 DEF Stops
  <2>4. QED
    BY <1>3, <2>2, <2>3 DEF InLine, v, x
<1>7. ASSUME NEW act \in Steps, NEW n \in Senders, InLine(w, tx, act, n), Len(w) > 1
      PROVE  \E j \in 1..Len(v) : Stops(v, tx, "mail", j)
  <2>1. CASE Len(w) = 2 /\ Behind(w[1].name, act)
    <3>1. w[2].name = Sent(act) /\ v[2] = w[2] /\ v[1] = w[1] /\ Len(v) = 3 /\ v[3].name = "mail"
      BY <1>1, <1>2, <1>7, <2>1 DEF InLine
    <3>2. CASE act = "stream"
      <4>1. v[1].name = "data"
        BY <2>1, <3>1, <3>2 DEF Behind
      <4>2. Stops(v, tx, "mail", 1)
        BY <4>1 DEF Stops
      <4>3. QED
        BY <3>1, <4>2
    <3>3. CASE act # "stream"
      <4>1. v[2].name \in {"mail", "rcpt", "data"}
        BY <3>1, <3>3 DEF Sent, Steps
      <4>2. Stops(v, tx, "mail", 3)
        BY <1>3, <3>1, <4>1 DEF Stops, Refused
      <4>3. QED
        BY <3>1, <4>2
    <3>4. QED
      BY <3>2, <3>3
  <2>2. ASSUME NEW j \in 1..Len(w), Stops(w, tx, act, j)
        PROVE  Stops(v, tx, "mail", j) /\ j \in 1..Len(v)
    <3>1. v[j] = w[j] /\ (j # 1 => v[j - 1] = w[j - 1]) /\ j \in 1..Len(v)
      BY <1>2
    <3>2. Left(act) \in Nat /\ Left(act) <= 4
      BY DEF Left
    <3>3. CASE j <= Left(act) /\ Refused(w, tx, j)
      <4>1. Refused(v, tx, j)
        BY <3>1, <3>3 DEF Refused
      <4>2. j <= Left("mail")
        BY <1>3, <3>2, <3>3
      <4>3. QED
        BY <3>1, <4>1, <4>2 DEF Stops
    <3>4. CASE j < Left(act) /\ w[j].name = "quit"
      <4>1. j < Left("mail") /\ v[j].name = "quit"
        BY <1>3, <3>1, <3>2, <3>4
      <4>2. QED
        BY <3>1, <4>1 DEF Stops
    <3>5. CASE j = 1 /\ w[1].name = "data"
      BY <3>1, <3>5 DEF Stops
    <3>6. QED
      BY <2>2, <3>3, <3>4, <3>5 DEF Stops
  <2>3. QED
    BY <1>7, <2>1, <2>2 DEF InLine
<1>8. CASE Len(w) > 1 /\ ~Quits(w)
  <2>1. \E j \in 1..Len(v) : Stops(v, tx, "mail", j)
    BY <1>2, <1>7, <1>8
  <2>2. InLine(v, tx, "mail", m)
    BY <1>3, <2>1 DEF InLine
  <2>3. QED
    BY <2>2 DEF v, x
<1>9. Len(w) = 0 \/ Len(w) = 1 \/ Len(w) > 1
  <2>1. \A n \in Nat : n = 0 \/ n = 1 \/ n > 1
    OBVIOUS
  <2>2. QED
    BY <1>2, <2>1, Zenon
<1>10. QED
  BY <1>4, <1>5, <1>6, <1>8, <1>9

\* What the server may answer.
LEMMA CodeFacts ==
  ASSUME NEW cmd \in Names, NEW tx \in Transactions, NEW code \in Codes(cmd, tx)
  PROVE  /\ ~InTurn(cmd, tx) => code = "5xx"
         /\ cmd # "quit" => code # "221"
         /\ cmd = "data" => code \in {"354", "5xx"}
         /\ cmd # "data" => code # "354"
<1>1. CASE ~InTurn(cmd, tx)
  BY <1>1 DEF Codes
<1>2. CASE InTurn(cmd, tx) /\ cmd = "quit"
  BY <1>2 DEF Codes
<1>3. CASE InTurn(cmd, tx) /\ cmd = "data"
  BY <1>3 DEF Codes
<1>4. CASE InTurn(cmd, tx) /\ cmd # "quit" /\ cmd # "data"
  BY <1>4 DEF Codes
<1>5. QED
  BY <1>1, <1>2, <1>3, <1>4

\* A second MAIL at the head of the wire is refused.
LEMMA RefusedHead ==
  ASSUME NEW w \in Seq(Cmds), w # <<>>, NEW tx \in Transactions,
         NEW code \in Codes(Head(w).name, tx), Refused(w, tx, 1)
  PROVE  code = "5xx"
<1>1. Head(w) = w[1] /\ Head(w) \in Cmds
  BY WireEnds
<1>2. w[1].name = "mail" /\ tx # "none"
  BY DEF Refused
<1>3. ~InTurn(Head(w).name, tx) /\ Head(w).name \in Names
  BY <1>1, <1>2 DEF InTurn, Names
<1>4. QED
  BY <1>3, CodeFacts

\* The step after one that went well.
After(act) == IF act = "mail" THEN "rcpt" ELSE IF act = "rcpt" THEN "data" ELSE "stream"

\* A reply that the client takes for the answer to its step, and its next command.
LEMMA LineStep ==
  ASSUME NEW w \in Seq(Cmds), NEW tx \in Transactions, NEW act \in {"mail", "rcpt", "data"},
         NEW m \in Senders, InLine(w, tx, act, m), Head(w).name # "quit",
         NEW code \in Codes(Head(w).name, tx), Positive(act, code)
  PROVE  InLine(Append(Tail(w), Cmd(Sent(After(act)), m)), Advance(Head(w).name, tx, code),
                After(act), m)
<1> DEFINE x == Cmd(Sent(After(act)), m)
           t == Tail(w)
           v == Append(t, x)
           tx2 == Advance(Head(w).name, tx, code)
<1>0. Sent(After(act)) \in Names
  BY DEF Sent, After, Names
<1>1. x \in Cmds /\ x.name = Sent(After(act)) /\ x.send = m
  BY <1>0, CmdType
<1> HIDE DEF x
<1>2. w # <<>>
  BY DEF InLine
<1>3. /\ Len(w) \in Nat /\ Len(w) > 0 /\ Head(w) = w[1] /\ Head(w) \in Cmds
      /\ t \in Seq(Cmds) /\ Len(t) = Len(w) - 1 /\ \A n \in 1..Len(w) - 1 : t[n] = w[n + 1]
  BY <1>1, <1>2, WireEnds
<1> HIDE DEF t
<1>4. /\ v \in Seq(Cmds) /\ Len(v) = Len(w) /\ v[Len(w)] = x
      /\ \A n \in 1..Len(w) - 1 : v[n] = w[n + 1]
  BY <1>1, <1>3, WireEnds
<1> HIDE DEF v
<1>5. v # <<>> /\ v[Len(v)].name = Sent(After(act)) /\ v[Len(v)].send = m
  BY <1>1, <1>3, <1>4
<1>6. /\ Head(w).name \in Names /\ code # "5xx" /\ code # "4xx"
      /\ w[1].name = "data" => code = "354"
      /\ code \in {"250", "354"} /\ (code = "354" => act = "data")
  <2>1. Head(w).name \in Names
    BY <1>3 DEF Cmds, Names
  <2>2. code # "5xx" /\ code # "4xx" /\ code \in {"250", "354", "221"} /\ (code = "354" => act = "data")
    BY DEF Positive, Success
  <2>3. QED
    BY <1>3, <2>1, <2>2, CodeFacts
<1>7. Left(After(act)) = Left(act) - 1 /\ Left(act) \in Nat /\ After(act) \in Steps
  BY DEF Left, After, Steps
<1>8. CASE Len(w) = 1
  BY <1>4, <1>5, <1>8 DEF InLine, v, x, t
<1>9. CASE Len(w) = 2 /\ Behind(w[1].name, act)
  <2>1. v[1].name = Sent(act)
    BY <1>3, <1>4, <1>9 DEF InLine
  <2>2. Behind(v[1].name, After(act))
    BY <2>1 DEF Behind, After, Sent
  <2>3. QED
    BY <1>4, <1>5, <1>9, <2>2 DEF InLine, v, x, t
<1>10. ASSUME NEW n \in 1..Len(w), Stops(w, tx, act, n)
       PROVE  \E j \in 1..Len(v) : Stops(v, tx2, After(act), j)
  <2>1. n # 1
    <3>1. ~Refused(w, tx, 1)
      BY <1>2, <1>6, RefusedHead
    <3>2. w[1].name # "quit"
      BY <1>3
    <3>3. w[1].name = "data" => act = "data"
      BY <1>6
    <3>4. QED
      BY <1>10, <3>1, <3>2, <3>3 DEF Stops
  <2> DEFINE j == n - 1
  <2>2. j \in 1..Len(w) - 1 /\ j \in 1..Len(v) /\ v[j] = w[n] /\ n = j + 1
    <3>1. n \in Nat /\ n >= 1 /\ n <= Len(w)
      BY <1>3
    <3>2. j \in 1..Len(w) - 1 /\ n = j + 1
      BY <1>3, <2>1, <3>1
    <3>3. j \in 1..Len(w)
      BY <1>3, <3>2
    <3>4. j \in 1..Len(v)
      BY <1>4, <3>3
    <3>5. v[j] = w[n]
      BY <1>4, <3>2
    <3> HIDE DEF j
    <3>6. QED
      BY <3>2, <3>4, <3>5
  <2>3. CASE n < Left(act) /\ w[n].name = "quit"
    <3>1. j < Left(After(act))
      BY <1>7, <2>2, <2>3
    <3>2. v[j].name = "quit"
      BY <2>2, <2>3
    <3> HIDE DEF j
    <3>3. Stops(v, tx2, After(act), j)
      BY <3>1, <3>2 DEF Stops
    <3>4. QED
      BY <2>2, <3>3
  <2>4. CASE n <= Left(act) /\ Refused(w, tx, n)
    <3>0. j <= Left(After(act))
      <4>1. n <= Left(act) /\ n \in Nat
        BY <1>3, <2>4
      <4>2. QED
        BY <1>7, <2>2, <4>1
    <3>1. v[j].name = "mail" /\ w[j].name \in {"mail", "rcpt", "data"}
      BY <2>1, <2>2, <2>4 DEF Refused
    <3>2. CASE j = 1
      <4>1. tx2 = w[1].name
        BY <1>3, <1>6, <3>1, <3>2 DEF Advance
      <4>2. Refused(v, tx2, j)
        BY <3>1, <3>2, <4>1 DEF Refused
      <4>3. QED
        BY <2>2, <3>0, <4>2, Zenon DEF Stops
    <3>3. CASE j # 1
      <4>1. j - 1 \in 1..Len(w) - 1 /\ v[j - 1] = w[j]
        BY <1>3, <1>4, <2>2, <3>3
      <4>2. Refused(v, tx2, j)
        BY <3>1, <3>3, <4>1 DEF Refused
      <4>3. QED
        BY <2>2, <3>0, <4>2, Zenon DEF Stops
    <3>4. QED
      BY <3>2, <3>3
  <2>5. QED
    BY <1>10, <2>1, <2>3, <2>4 DEF Stops
<1>11. QED
  BY <1>5, <1>8, <1>9, <1>10 DEF InLine, v, x, t

\* The reply that the client takes for the end of message m is the right one.
LEMMA LineEnd ==
  ASSUME NEW w \in Seq(Cmds), NEW tx \in Transactions, NEW m \in Senders,
         InLine(w, tx, "stream", m),
         NEW code \in Codes(Head(w).name, tx), Success(code)
  PROVE  /\ Tail(w) = <<>> /\ Head(w).name = "dot" /\ Head(w).send = m
         /\ code = "250"
<1>1. w # <<>>
  BY DEF InLine
<1>2. Len(w) \in Nat /\ Len(w) > 0 /\ Head(w) = w[1] /\ Head(w) \in Cmds
  BY <1>1, WireEnds
<1>3. Head(w).name \in Names /\ code \in {"250", "221"}
  BY <1>2 DEF Cmds, Names, Success
<1>4. w[1].name # "data"
  BY <1>2, <1>3, CodeFacts
<1>5. ~Refused(w, tx, 1)
  BY <1>1, <1>3, RefusedHead
<1>6. \A n \in 1..Len(w) : ~Stops(w, tx, "stream", n)
  BY <1>2, <1>4, <1>5 DEF Stops, Left
<1>7. Len(w) = 1
  BY <1>4, <1>6 DEF InLine, Behind
<1>8. Tail(w) = <<>> /\ w[1].name = "dot" /\ w[1].send = m
  BY <1>7, WireEnds DEF InLine, Sent
<1>9. QED
  BY <1>2, <1>3, <1>8, CodeFacts

-----------------------------------------------------------------------------
(* A client and its wire.                                                  *)

\* What is on the wire of an open socket, by what the client waits for.
Lined(k) ==
    /\ k.act \in Steps => ~k.timer
    /\ k.sock = "open" =>
         /\ k.stale = 0
         /\ k.act \in {"none", "hello", "login", "idle"} => Len(k.wire) <= 1
         /\ k.act \in Steps => InLine(k.wire, k.tx, k.act, k.send)

\* A client that may be handed to the next send.
Returnable(k) == k.sock = "open" /\ k.act = "close" => Quits(k.wire)

Ready(k) == k \in ClientRecs /\ Lined(k) /\ Returnable(k)

LEMMA ShutReady ==
  ASSUME NEW k \in ClientRecs, k.sock # "open", k.act \in Steps => ~k.timer
  PROVE  Ready(k)
  BY DEF Ready, Lined, Returnable

LEMMA SendCmdFields ==
  ASSUME NEW k \in ClientRecs, NEW name \in Names
  PROVE  LET w == IF k.sock = "open" THEN Append(k.wire, Cmd(name, k.send)) ELSE k.wire
         IN  w \in Seq(Cmds) /\ SendCmd(k, name) = [k EXCEPT !.wire = w]
<1> DEFINE x == Cmd(name, k.send)
           w == IF k.sock = "open" THEN Append(k.wire, x) ELSE k.wire
<1>1. k.wire \in Seq(Cmds) /\ k.send \in Senders
  BY DEF ClientRecs
<1>2. x \in Cmds
  BY <1>1, CmdType
<1>3. w \in Seq(Cmds)
  BY <1>1, <1>2
<1>4. SendCmd(k, name) = [k EXCEPT !.wire = w]
  BY DEF SendCmd, ClientRecs
<1>5. QED
  BY <1>3, <1>4

LEMMA QuitsMore ==
  ASSUME NEW w \in Seq(Cmds), NEW m \in Senders, Len(w) <= 1 \/ Quits(w)
  PROVE  Quits(Append(w, Cmd("quit", m)))
<1> DEFINE x == Cmd("quit", m)
           v == Append(w, x)
<1>1. x \in Cmds /\ x.name = "quit"
  BY CmdType DEF Names
<1> HIDE DEF x
<1>2. /\ Len(w) \in Nat /\ Len(v) = Len(w) + 1 /\ v[Len(w) + 1] = x
      /\ \A n \in 1..Len(w) : v[n] = w[n]
  BY <1>1, WireEnds
<1> HIDE DEF v
<1>3. CASE Len(w) <= 1
  <2>1. Len(w) + 1 \in 1..Len(v) /\ Len(w) + 1 <= 2
    BY <1>2, <1>3
  <2>2. QED
    BY <1>1, <1>2, <2>1 DEF Quits, v, x
<1>4. CASE Quits(w)
  <2>1. PICK n \in 1..Len(w) : n <= 2 /\ w[n].name = "quit"
    BY <1>4 DEF Quits
  <2>2. n \in 1..Len(v) /\ v[n].name = "quit"
    BY <1>2, <2>1
  <2>3. QED
    BY <2>1, <2>2 DEF Quits, v, x
<1>5. QED
  BY <1>3, <1>4

LEMMA QuitReady ==
  ASSUME NEW k \in ClientRecs
  PROVE  /\ Quit(k) \in ClientRecs
         /\ (k.sock = "open" => k.stale = 0) => Lined(Quit(k))
         /\ Quit(k).sock = k.sock /\ Quit(k).freed = k.freed /\ Quit(k).send = k.send
         /\ Quit(k).auth = FALSE /\ Quit(k).act = "close"
         /\ k.sock = "open" => (Len(k.wire) <= 1 \/ Quits(k.wire) => Quits(Quit(k).wire))
         /\ Unused(k) => Unused(Quit(k))
<1> DEFINE w == IF k.sock = "open" THEN Append(k.wire, Cmd("quit", k.send)) ELSE k.wire
           k2 == [k EXCEPT !.wire = w, !.auth = FALSE, !.act = "close"]
<1>1. w \in Seq(Cmds) /\ SendCmd(k, "quit") = [k EXCEPT !.wire = w]
  BY SendCmdFields DEF Names
<1>2. k.wire \in Seq(Cmds) /\ k.send \in Senders
  BY DEF ClientRecs
<1>3. k.sock = "open" => (Len(k.wire) <= 1 \/ Quits(k.wire) => Quits(w))
  BY <1>2, QuitsMore
<1> HIDE DEF w
<1>4. Quit(k) = k2
  BY <1>1 DEF Quit, ClientRecs
<1>5. /\ k2 \in ClientRecs /\ k2.wire = w /\ k2.auth = FALSE /\ k2.act = "close"
      /\ k2.sock = k.sock /\ k2.send = k.send /\ k2.freed = k.freed
      /\ k2.stale = k.stale /\ k2.failing = k.failing /\ k2.timer = k.timer
  BY <1>1 DEF ClientRecs, Actions
<1> HIDE DEF k2
<1>6. (k.sock = "open" => k.stale = 0) => Lined(k2)
  BY <1>5 DEF Lined, Steps
<1>7. QED
  BY <1>3, <1>4, <1>5, <1>6 DEF Unused

\* MAIL, as onidle sends it.
Mailed(k) == [SendCmd(k, "mail") EXCEPT !.fresh = FALSE, !.act = "mail", !.timer = FALSE]

LEMMA MailedReady ==
  ASSUME NEW k \in ClientRecs,
         k.sock = "open" =>
           /\ k.stale = 0
           /\ \/ Len(k.wire) <= 1 \/ Quits(k.wire)
              \/ \E act \in Steps, n \in Senders : InLine(k.wire, k.tx, act, n)
  PROVE  Ready(Mailed(k)) /\ Mailed(k).send = k.send
<1> DEFINE w == IF k.sock = "open" THEN Append(k.wire, Cmd("mail", k.send)) ELSE k.wire
           k2 == [k EXCEPT !.wire = w, !.fresh = FALSE, !.act = "mail", !.timer = FALSE]
<1>1. k.wire \in Seq(Cmds) /\ k.send \in Senders
  BY DEF ClientRecs
<1>2. w \in Seq(Cmds) /\ SendCmd(k, "mail") = [k EXCEPT !.wire = w]
  BY <1>1, SendCmdFields DEF Names
<1>3. k.sock = "open" => InLine(w, k.tx, "mail", k.send)
  BY <1>1, LineAssign
<1> HIDE DEF w
<1>4. Mailed(k) = k2
  BY <1>2 DEF Mailed, ClientRecs
<1>5. /\ k2 \in ClientRecs /\ k2.wire = w /\ k2.sock = k.sock /\ k2.send = k.send
      /\ k2.timer = FALSE /\ k2.act = "mail" /\ k2.tx = k.tx /\ k2.stale = k.stale
  BY <1>1, <1>2 DEF ClientRecs, Actions
<1> HIDE DEF k2
<1>6. Ready(k2)
  BY <1>3, <1>5 DEF Ready, Lined, Returnable
<1>7. QED
  BY <1>4, <1>5, <1>6

LEMMA ReadyWire ==
  ASSUME NEW k, Ready(k), k.sock = "open"
  PROVE  /\ k.stale = 0
         /\ \/ Len(k.wire) <= 1 \/ Quits(k.wire)
            \/ \E act \in Steps, n \in Senders : InLine(k.wire, k.tx, act, n)
  BY DEF Ready, Lined, Returnable, ClientRecs, Actions, Steps

LEMMA OnIdleReady ==
  ASSUME NEW k, Ready(k)
  PROVE  Ready(OnIdle(k)) /\ OnIdle(k).send = k.send
<1>1. Ready(Mailed(k)) /\ Mailed(k).send = k.send
  BY MailedReady, ReadyWire DEF Ready
<1>2. OnIdle(k) = IF k.fresh \/ k.retry THEN Mailed(k) ELSE k
  BY DEF OnIdle, Mailed
<1>3. QED
  BY <1>1, <1>2

LEMMA ConnectReady ==
  ASSUME NEW k, Ready(k)
  PROVE  /\ Ready(Connect(k)) /\ Connect(k).send = k.send
         /\ ~Open(k) => Connect(k).sock = "connecting"
<1>1. k \in ClientRecs
  BY DEF Ready
<1>2. CASE Open(k)
  <2> DEFINE k1 == OnIdle(k)
             k2 == [k1 EXCEPT !.freed = FALSE]
  <2>1. Ready(k1) /\ k1.send = k.send
    BY OnIdleReady
  <2>2. Connect(k) = k2
    BY <1>2 DEF Connect
  <2> HIDE DEF k1
  <2>3. /\ k2 \in ClientRecs /\ k2.wire = k1.wire /\ k2.sock = k1.sock /\ k2.send = k1.send
        /\ k2.timer = k1.timer /\ k2.act = k1.act /\ k2.tx = k1.tx /\ k2.stale = k1.stale
    BY <2>1 DEF Ready, ClientRecs
  <2> HIDE DEF k2
  <2>4. Ready(k2)
    BY <2>1, <2>3 DEF Ready, Lined, Returnable
  <2>5. QED
    BY <1>2, <2>1, <2>2, <2>3, <2>4
<1>3. CASE ~Open(k)
  <2> DEFINE n == IF k.sock = "closing" THEN k.stale + 1 ELSE k.stale
             e == <<>>
             k2 == [k EXCEPT !.sock = "connecting", !.wire = e, !.sent = 0, !.freed = FALSE,
                             !.stale = n]
  <2>1. Connect(k) = k2
    BY <1>1, <1>3 DEF Connect, ClientRecs
  <2>2. n \in Nat /\ e \in Seq(Cmds)
    BY <1>1 DEF ClientRecs
  <2> HIDE DEF n, e
  <2>3. /\ k2 \in ClientRecs /\ k2.sock = "connecting" /\ k2.send = k.send
        /\ k2.timer = k.timer /\ k2.act = k.act
    BY <1>1, <2>2 DEF ClientRecs, Sockets
  <2> HIDE DEF k2
  <2>4. QED
    BY <2>1, <2>3, ShutReady DEF Ready, Lined
<1>4. QED
  BY <1>2, <1>3

-----------------------------------------------------------------------------
(* The pool and its handlers.                                              *)

\* The pool, when md clients were made and the sends of tk have one.
Fine(s, md, tk) ==
    /\ s \in States(tk) /\ md \in 0..MaxClients
    /\ \A d \in Clients : Lined(s.client[d]) /\ (d > md => Unused(s.client[d]))
    /\ \A i \in DOMAIN s.free : s.free[i] \in 1..md /\ Returnable(s.client[s.free[i]])
    /\ s.busy \subseteq 1..md

\* The same in the middle of a handler for client c.
FineBut(s, c, md, tk) ==
    /\ s \in States(tk) /\ md \in 0..MaxClients /\ c \in 1..md
    /\ \A d \in Clients \ {c} : Lined(s.client[d]) /\ (d > md => Unused(s.client[d]))
    /\ \A i \in DOMAIN s.free :
         s.free[i] \in 1..md /\ (s.free[i] # c => Returnable(s.client[s.free[i]]))
    /\ s.busy \subseteq 1..md
    /\ s.client[c].act \in Steps => ~s.client[c].timer

\* No send is told NS_OK.
NoNews(s, s2) == \A m \in Sends : s2.told[m] = "ok" => s.told[m] = "ok"

LEMMA ButFacts ==
  ASSUME NEW s, NEW md, NEW tk, NEW c, FineBut(s, c, md, tk)
  PROVE  /\ s \in States(tk) /\ c \in Clients /\ s.client[c] \in ClientRecs
         /\ md \in Nat /\ md <= MaxClients /\ c \in Nat /\ c <= md
         /\ Ready(s.client[c]) => Fine(s, md, tk)
         /\ s.client[c].sock # "open" => Ready(s.client[c])
<1>1. s \in States(tk) /\ md \in 0..MaxClients /\ c \in 1..md /\ MaxClients \in Nat
  BY SmtpAssumption DEF FineBut
<1>2. c \in Clients /\ md \in Nat /\ md <= MaxClients /\ c \in Nat /\ c <= md
  BY <1>1 DEF Clients
<1>3. s.client[c] \in ClientRecs
  BY <1>1, <1>2 DEF States
<1>4. ASSUME Ready(s.client[c]) PROVE Fine(s, md, tk)
  BY <1>2, <1>4 DEF Fine, FineBut, Ready
<1>5. s.client[c].sock # "open" => Ready(s.client[c])
  BY <1>3, ShutReady DEF FineBut
<1>6. QED
  BY <1>1, <1>2, <1>3, <1>4, <1>5

LEMMA FineDrop ==
  ASSUME NEW s, NEW md, NEW tk, Fine(s, md, tk), NEW c \in 1..md
  PROVE  FineBut(s, c, md, tk)
<1>1. c \in Clients
  BY SmtpAssumption DEF Fine, Clients
<1>2. QED
  BY <1>1 DEF Fine, FineBut, Lined

\* Only what the sends and the promises are told has changed.
LEMMA FineSame ==
  ASSUME NEW s, NEW md, NEW tk, NEW s2 \in States(tk), s2.client = s.client, s2.free = s.free,
         s2.busy = s.busy
  PROVE  /\ Fine(s, md, tk) => Fine(s2, md, tk)
         /\ \A c : FineBut(s, c, md, tk) => FineBut(s2, c, md, tk)
  BY DEF Fine, FineBut

LEMMA SetFields ==
  ASSUME NEW tk, NEW s \in States(tk), NEW c \in Clients, NEW k \in ClientRecs
  PROVE  LET s2 == Set(s, c, k)
         IN  /\ s2 \in States(tk) /\ s2.client[c] = k /\ s2.free = s.free /\ s2.busy = s.busy
             /\ s2.told = s.told /\ \A d \in Clients : d # c => s2.client[d] = s.client[d]
<1> DEFINE cl == [s.client EXCEPT ![c] = k]
           s2 == [s EXCEPT !.client = cl]
<1>1. /\ cl \in [Clients -> ClientRecs] /\ cl[c] = k
      /\ \A d \in Clients : d # c => cl[d] = s.client[d]
  BY DEF States
<1>2. Set(s, c, k) = s2
  BY DEF Set, States
<1> HIDE DEF cl
<1>3. /\ s2 \in States(tk) /\ s2.client = cl /\ s2.free = s.free /\ s2.busy = s.busy
      /\ s2.told = s.told
  BY <1>1 DEF States
<1>4. QED
  BY <1>1, <1>2, <1>3

LEMMA SetFine ==
  ASSUME NEW s, NEW md, NEW tk, NEW c, FineBut(s, c, md, tk), NEW k \in ClientRecs,
         k.act \in Steps => ~k.timer
  PROVE  LET s2 == Set(s, c, k)
         IN  /\ FineBut(s2, c, md, tk) /\ s2.client[c] = k /\ s2.told = s.told
             /\ Ready(k) => Fine(s2, md, tk)
<1> DEFINE s2 == Set(s, c, k)
<1>1. s \in States(tk) /\ c \in Clients /\ MaxClients \in Nat /\ md \in 0..MaxClients
  BY ButFacts, SmtpAssumption DEF FineBut
<1>2. /\ s2 \in States(tk) /\ s2.client[c] = k /\ s2.free = s.free /\ s2.busy = s.busy
      /\ s2.told = s.told /\ \A d \in Clients : d # c => s2.client[d] = s.client[d]
  BY <1>1, SetFields
<1> HIDE DEF s2
<1>3. 1..md \subseteq Clients
  BY <1>1 DEF Clients
<1>4. FineBut(s2, c, md, tk)
  BY <1>2, <1>3 DEF FineBut
<1>5. Ready(k) => Fine(s2, md, tk)
  BY <1>2, <1>4, ButFacts
<1>6. QED
  BY <1>2, <1>4, <1>5 DEF s2

\* A change that leaves open whether the client is among the free ones.
LEMMA SetKeeps ==
  ASSUME NEW s, NEW md, NEW tk, Fine(s, md, tk), NEW c \in 1..md, NEW k \in ClientRecs,
         Lined(k), Returnable(s.client[c]) => Returnable(k)
  PROVE  Fine(Set(s, c, k), md, tk)
<1> DEFINE s2 == Set(s, c, k)
<1>1. FineBut(s, c, md, tk) /\ (k.act \in Steps => ~k.timer)
  BY FineDrop DEF Lined
<1>2. FineBut(s2, c, md, tk) /\ c \in Clients /\ s \in States(tk)
  BY <1>1, SetFine, ButFacts
<1>3. s2.client[c] = k /\ s2.free = s.free
  BY <1>2, SetFields
<1> HIDE DEF s2
<1>4. \A d \in Clients : Lined(s2.client[d]) /\ (d > md => Unused(s2.client[d]))
  BY <1>2, <1>3, ButFacts DEF FineBut
<1>5. \A i \in DOMAIN s2.free : s2.free[i] \in 1..md /\ Returnable(s2.client[s2.free[i]])
  BY <1>2, <1>3 DEF FineBut, Fine
<1>6. QED
  BY <1>2, <1>4, <1>5 DEF Fine, FineBut, s2

LEMMA TellFine ==
  ASSUME NEW s, NEW md, NEW tk, NEW c \in Clients, NEW d, NEW what \in {"ok", "failed"},
         s \in States(tk)
  PROVE  LET s2 == Tell(s, c, what)
         IN  /\ FineBut(s, d, md, tk) => FineBut(s2, d, md, tk)
             /\ Fine(s, md, tk) => Fine(s2, md, tk)
             /\ s2.client = s.client
             /\ what = "failed" => NoNews(s, s2)
             /\ \A m \in Sends : s2.told[m] = "ok" =>
                  s.told[m] = "ok" \/ (what = "ok" /\ m = s.client[c].send)
<1> DEFINE s2 == Tell(s, c, what)
<1>1. /\ s2 \in States(tk) /\ s2.client = s.client /\ s2.free = s.free /\ s2.busy = s.busy
      /\ \A m \in Sends : s2.told[m] = IF m = s.client[c].send THEN what ELSE s.told[m]
  BY TellSame
<1> HIDE DEF s2
<1>2. QED
  BY <1>1, FineSame DEF NoNews, s2

\* onFree.
LEMMA OnFreeFine ==
  ASSUME NEW s, NEW c, FineBut(s, c, made, taken), Ready(s.client[c]),
         s.client[c].sock = "open" /\ ~s.client[c].reuse => Len(s.client[c].wire) <= 1
  PROVE  LET s2 == OnFree(s, c)
         IN  /\ Fine(s2, made, taken) /\ s2.told = s.told
             /\ s2.client[c].sock = s.client[c].sock /\ s2.client[c].freed = s.client[c].freed
<1> DEFINE b == s.busy \ {c}
           f == Append(s.free, c)
           k == s.client[c]
<1>1. s \in States(taken) /\ c \in Clients /\ k \in ClientRecs /\ Fine(s, made, taken) /\ c \in 1..made
  BY ButFacts DEF FineBut
<1>2. b \in SUBSET Clients /\ f \in Seq(Clients) /\ b \subseteq s.busy
  BY <1>1 DEF States
<1>3. CASE ~k.reuse
  <2> DEFINE s1 == [s EXCEPT !.busy = b]
             k2 == Quit(k)
  <2>1. OnFree(s, c) = Set(s1, c, k2)
    BY <1>3 DEF OnFree, Set, States
  <2> HIDE DEF b
  <2>2. /\ s1 \in States(taken) /\ s1.client = s.client /\ s1.free = s.free /\ s1.busy = b
        /\ s1.told = s.told
    BY <1>1, <1>2 DEF States
  <2> HIDE DEF s1
  <2>3. FineBut(s1, c, made, taken)
    BY <1>2, <2>2 DEF FineBut
  <2>4. /\ k2 \in ClientRecs /\ Lined(k2) /\ k2.sock = k.sock /\ k2.freed = k.freed
        /\ k2.act = "close"
        /\ k.sock = "open" => Quits(k2.wire)
    BY <1>1, <1>3, QuitReady DEF Ready, Lined
  <2> HIDE DEF k2
  <2>5. Ready(k2) /\ (k2.act \in Steps => ~k2.timer)
    BY <2>4 DEF Ready, Returnable, Lined
  <2>6. /\ Fine(Set(s1, c, k2), made, taken) /\ Set(s1, c, k2).client[c] = k2
        /\ Set(s1, c, k2).told = s1.told
    BY <2>3, <2>4, <2>5, SetFine
  <2>7. QED
    BY <2>1, <2>2, <2>4, <2>6
<1>4. CASE k.reuse
  <2> DEFINE s1 == [s EXCEPT !.busy = b, !.free = f]
  <2>1. OnFree(s, c) = WakeFirst(s1)
    BY <1>4 DEF OnFree, States
  <2>2. \A i \in DOMAIN f : f[i] = c \/ (i \in DOMAIN s.free /\ f[i] = s.free[i])
    BY <1>1 DEF States
  <2> HIDE DEF b, f
  <2>3. /\ s1 \in States(taken) /\ s1.client = s.client /\ s1.free = f /\ s1.busy = b
        /\ s1.told = s.told
    BY <1>1, <1>2 DEF States
  <2> HIDE DEF s1
  <2>4. Fine(s1, made, taken)
    BY <1>1, <1>2, <2>2, <2>3 DEF Fine, Ready
  <2>5. /\ WakeFirst(s1) \in States(taken) /\ WakeFirst(s1).client = s1.client
        /\ WakeFirst(s1).free = s1.free /\ WakeFirst(s1).busy = s1.busy
        /\ WakeFirst(s1).told = s1.told
    BY <2>3, WakeFirstSame
  <2>6. Fine(WakeFirst(s1), made, taken)
    BY <2>4, <2>5, FineSame
  <2>7. QED
    BY <2>1, <2>3, <2>5, <2>6
<1>5. QED
  BY <1>3, <1>4

\* A field that says nothing about the wire.
LEMMA FreedReady ==
  ASSUME NEW k \in ClientRecs, NEW b \in BOOLEAN
  PROVE  LET k2 == [k EXCEPT !.freed = b]
         IN  /\ k2 \in ClientRecs /\ k2.sock = k.sock /\ k2.freed = b /\ k2.wire = k.wire
             /\ k2.act = k.act /\ k2.timer = k.timer /\ k2.reuse = k.reuse
             /\ Ready(k) => Ready(k2)
<1> DEFINE k2 == [k EXCEPT !.freed = b]
<1>1. /\ k2 \in ClientRecs /\ k2.sock = k.sock /\ k2.freed = b /\ k2.wire = k.wire
      /\ k2.act = k.act /\ k2.timer = k.timer /\ k2.reuse = k.reuse /\ k2.tx = k.tx
      /\ k2.send = k.send /\ k2.stale = k.stale
  BY DEF ClientRecs
<1> HIDE DEF k2
<1>2. Ready(k) => Ready(k2)
  BY <1>1 DEF Ready, Lined, Returnable
<1>3. QED
  BY <1>1, <1>2 DEF k2

\* _free, for a connection that is lost.
LEMMA FreeFine ==
  ASSUME NEW s, NEW c, FineBut(s, c, made, taken), s.client[c].sock # "open"
  PROVE  LET s2 == Free(s, c)
         IN  /\ Fine(s2, made, taken) /\ s2.told = s.told
             /\ s2.client[c].sock = s.client[c].sock /\ s2.client[c].freed
<1> DEFINE k == s.client[c]
           k2 == [k EXCEPT !.freed = TRUE]
           s1 == Set(s, c, k2)
<1>1. s \in States(taken) /\ c \in Clients /\ k \in ClientRecs /\ Ready(k)
  BY ButFacts
<1>2. CASE k.freed
  BY <1>1, <1>2, ButFacts DEF Free
<1>3. CASE ~k.freed
  <2>1. Free(s, c) = OnFree(s1, c)
    <3>1. [s EXCEPT !.client[c].freed = TRUE] = s1
      BY <1>1 DEF Set, States
    <3>2. QED
      BY <1>3, <3>1, Zenon DEF Free
  <2>2. k2 \in ClientRecs /\ k2.sock = k.sock /\ k2.freed /\ Ready(k2)
    BY <1>1, FreedReady
  <2> HIDE DEF k2
  <2>3. FineBut(s1, c, made, taken) /\ s1.client[c] = k2 /\ s1.told = s.told
    BY <2>2, SetFine DEF Ready, Lined
  <2> HIDE DEF s1
  <2>4. QED
    BY <2>1, <2>2, <2>3, OnFreeFine
<1>4. QED
  BY <1>2, <1>3

\* close
LEMMA CloseFine ==
  ASSUME NEW s, NEW c, FineBut(s, c, made, taken)
  PROVE  LET s2 == Close(s, c)
         IN  Fine(s2, made, taken) /\ s2.told = s.told /\ s2.client[c].sock # "open"
<1> DEFINE k == s.client[c]
           k2 == [k EXCEPT !.sock = "closing", !.wire = <<>>]
<1>1. s \in States(taken) /\ c \in Clients /\ k \in ClientRecs
  BY ButFacts
<1>2. CASE Open(k)
  <2>1. Close(s, c) = Set(s, c, k2)
    BY <1>1, <1>2 DEF Close, Set, States
  <2>2. k2 \in ClientRecs /\ k2.sock = "closing" /\ k2.act = k.act /\ k2.timer = k.timer
    <3> DEFINE e == <<>>
               k3 == [k EXCEPT !.sock = "closing", !.wire = e]
    <3>1. e \in Seq(Cmds)
      OBVIOUS
    <3> HIDE DEF e
    <3>2. k3 \in ClientRecs /\ k3.sock = "closing" /\ k3.act = k.act /\ k3.timer = k.timer
      BY <1>1, <3>1 DEF ClientRecs, Sockets
    <3>3. QED
      BY <3>2 DEF e
  <2> HIDE DEF k2
  <2>3. k2.act \in Steps => ~k2.timer
    BY <2>2 DEF FineBut
  <2>4. Ready(k2)
    BY <2>2, <2>3, ShutReady
  <2>5. QED
    BY <2>1, <2>2, <2>3, <2>4, SetFine
<1>3. CASE ~Open(k)
  <2>1. k.sock # "open"
    BY <1>3 DEF Open
  <2>2. QED
    BY <1>3, <2>1, FreeFine DEF Close
<1>4. QED
  BY <1>2, <1>3

\* _onNsError: in the end the socket is another one, or none.
LEMMA NsErrorFine ==
  ASSUME NEW s, NEW c, FineBut(s, c, made, taken), NEW temp
  PROVE  LET s2 == NsError(s, c, temp)
         IN  Fine(s2, made, taken) /\ NoNews(s, s2) /\ s2.client[c].sock # "open"
<1> DEFINE k == s.client[c]
<1>1. s \in States(taken) /\ c \in Clients /\ k \in ClientRecs
  BY ButFacts
<1>2. CASE Retries(k, temp)
  <2> DEFINE q == Quit(k)
             e == <<>>
             k1 == [q EXCEPT !.retry = TRUE, !.sock = "closing", !.wire = e]
             k2 == Connect(k1)
  <2>1. NsError(s, c, temp) = Set(s, c, k2)
    BY <1>2 DEF NsError
  <2>2. q \in ClientRecs /\ q.act = "close"
    BY <1>1, QuitReady
  <2> HIDE DEF q
  <2>0. e \in Seq(Cmds)
    OBVIOUS
  <2> HIDE DEF e
  <2>3. k1 \in ClientRecs /\ k1.sock = "closing" /\ k1.act = "close"
    BY <2>0, <2>2 DEF ClientRecs, Sockets
  <2> HIDE DEF k1
  <2>4. Ready(k1) /\ ~Open(k1)
    BY <2>3, ShutReady DEF Steps, Open
  <2>5. Ready(k2) /\ k2.sock = "connecting"
    BY <2>4, ConnectReady
  <2> HIDE DEF k2
  <2>6. /\ Fine(Set(s, c, k2), made, taken) /\ Set(s, c, k2).client[c] = k2
        /\ Set(s, c, k2).told = s.told
    BY <2>5, SetFine DEF Ready, Lined
  <2>7. QED
    BY <2>1, <2>5, <2>6 DEF NoNews
<1>3. CASE ~Retries(k, temp)
  <2> DEFINE s1 == Tell(s, c, "failed")
  <2>1. NsError(s, c, temp) = Close(s1, c)
    BY <1>3 DEF NsError
  <2>2. FineBut(s1, c, made, taken) /\ NoNews(s, s1)
    BY <1>1, TellFine
  <2> HIDE DEF s1
  <2>3. Fine(Close(s1, c), made, taken) /\ Close(s1, c).told = s1.told
        /\ Close(s1, c).client[c].sock # "open"
    BY <2>2, CloseFine
  <2>4. QED
    BY <2>1, <2>2, <2>3 DEF NoNews
<1>4. QED
  BY <1>2, <1>3

\* A command of the steps before the first message.
LEMMA StartReady ==
  ASSUME NEW k \in ClientRecs, k.act \in {"hello", "login", "idle"}, NEW name \in Names,
         k.sock = "open" => k.wire = <<>> /\ k.stale = 0
  PROVE  Ready(SendCmd(k, name))
<1> DEFINE w == IF k.sock = "open" THEN Append(k.wire, Cmd(name, k.send)) ELSE k.wire
           k2 == [k EXCEPT !.wire = w]
<1>1. w \in Seq(Cmds) /\ SendCmd(k, name) = k2
  BY SendCmdFields
<1>2. k.sock = "open" => Len(w) <= 1
  <2>1. \A x : Len(Append(<<>>, x)) <= 1
    OBVIOUS
  <2>2. QED
    BY <2>1
<1> HIDE DEF w
<1>3. /\ k2 \in ClientRecs /\ k2.wire = w /\ k2.sock = k.sock /\ k2.act = k.act
      /\ k2.stale = k.stale
  BY <1>1 DEF ClientRecs
<1> HIDE DEF k2
<1>4. QED
  BY <1>1, <1>2, <1>3 DEF Ready, Lined, Returnable, Steps

\* _onAuthFailed, while nothing is on the wire.
LEMMA AuthFailedFine ==
  ASSUME NEW s, NEW c, FineBut(s, c, made, taken), NEW again \in BOOLEAN,
         s.client[c].sock = "open" =>
           s.client[c].wire = <<>> /\ s.client[c].stale = 0 /\ s.client[c].act = "login"
  PROVE  Fine(AuthFailed(s, c, again), made, taken) /\ NoNews(s, AuthFailed(s, c, again))
<1> DEFINE k == s.client[c]
<1>1. s \in States(taken) /\ c \in Clients /\ k \in ClientRecs
  BY ButFacts
<1>2. CASE ~again
  BY <1>2, NsErrorFine DEF AuthFailed
<1>3. ASSUME NEW k2, Ready(k2)
      PROVE  Fine(Set(s, c, k2), made, taken) /\ NoNews(s, Set(s, c, k2))
  <2>1. Fine(Set(s, c, k2), made, taken) /\ Set(s, c, k2).told = s.told
    BY <1>3, SetFine DEF Ready, Lined
  <2>2. QED
    BY <2>1 DEF NoNews
<1>4. CASE again /\ k.freed
  <2>1. Ready(k)
    <3>1. CASE k.sock = "open"
      <4>1. Len(k.wire) <= 1
        BY <3>1
      <4>2. QED
        BY <1>1, <3>1, <4>1 DEF Ready, Lined, Returnable, Steps
    <3>2. QED
      BY <3>1, ButFacts
  <2>2. Ready(Connect(k))
    BY <2>1, ConnectReady
  <2>3. AuthFailed(s, c, again) = Set(s, c, Connect(k))
    BY <1>4 DEF AuthFailed
  <2>4. QED
    BY <1>3, <2>2, <2>3
<1>5. CASE again /\ ~k.freed
  <2> DEFINE k1 == [k EXCEPT !.act = "login", !.auth = TRUE]
             k2 == SendCmd(k1, "login")
  <2>1. AuthFailed(s, c, again) = Set(s, c, k2)
    BY <1>5 DEF AuthFailed
  <2>2. /\ k1 \in ClientRecs /\ k1.act = "login" /\ k1.sock = k.sock /\ k1.wire = k.wire
        /\ k1.stale = k.stale
    BY <1>1 DEF ClientRecs, Actions
  <2> HIDE DEF k1
  <2>3. Ready(k2)
    BY <2>2, StartReady DEF Names
  <2> HIDE DEF k2
  <2>4. QED
    BY <1>3, <2>1, <2>3
<1>6. QED
  BY <1>2, <1>4, <1>5

\* _onClose
LEMMA OnCloseFine ==
  ASSUME NEW s, NEW c, FineBut(s, c, made, taken), NEW again \in BOOLEAN,
         s.client[c].sock # "open"
  PROVE  Fine(OnClose(s, c, again), made, taken) /\ NoNews(s, OnClose(s, c, again))
<1> DEFINE s1 == Free(s, c)
<1>1. Fine(s1, made, taken) /\ s1.told = s.told /\ s1.client[c].sock # "open"
  BY FreeFine
<1>2. OnClose(s, c, again) = IF s1.client[c].auth THEN AuthFailed(s1, c, again) ELSE s1
  BY DEF OnClose
<1> HIDE DEF s1
<1>3. FineBut(s1, c, made, taken)
  BY <1>1, FineDrop DEF FineBut
<1>4. Fine(AuthFailed(s1, c, again), made, taken) /\ NoNews(s1, AuthFailed(s1, c, again))
  BY <1>1, <1>3, AuthFailedFine
<1>5. QED
  BY <1>1, <1>2, <1>4 DEF NoNews

\* _actionStream: the only place where a send is told NS_OK.
LEMMA StreamDoneFine ==
  ASSUME NEW s, NEW c, FineBut(s, c, made, taken), NEW good \in BOOLEAN,
         good => s.client[c].wire = <<>> /\ (s.client[c].sock = "open" => s.client[c].stale = 0)
  PROVE  /\ Fine(StreamDone(s, c, good), made, taken)
         /\ \A m \in Sends : StreamDone(s, c, good).told[m] = "ok" =>
              s.told[m] = "ok" \/ (good /\ m = s.client[c].send)
<1> DEFINE k == s.client[c]
           reuse == k.reuse /\ k.sent + 1 < MsgsPerConn
           rt == k.retry /\ ~good
           n == k.sent + 1
           tm == k.timer \/ reuse
           k1 == [k EXCEPT !.retry = rt, !.sent = n, !.reuse = reuse, !.timer = tm, !.act = "idle"]
           s1 == Set(s, c, k1)
           s2 == IF good THEN Tell(s1, c, "ok") ELSE NsError(s1, c, FALSE)
           k3 == [s2.client[c] EXCEPT !.freed = TRUE]
           s3 == Set(s2, c, k3)
<1>1. s \in States(taken) /\ c \in Clients /\ k \in ClientRecs
  BY ButFacts
<1>2. n \in Nat /\ reuse \in BOOLEAN /\ rt \in BOOLEAN /\ tm \in BOOLEAN
  BY <1>1 DEF ClientRecs
<1>3. [k EXCEPT !.retry = @ /\ ~good, !.sent = @ + 1, !.reuse = reuse,
                !.timer = @ \/ reuse, !.act = "idle"] = k1
  BY <1>1 DEF ClientRecs
<1>4. StreamDone(s, c, good) = OnFree([s2 EXCEPT !.client[c].freed = TRUE], c)
  BY <1>3, Zenon DEF StreamDone
<1> HIDE DEF n, reuse, rt, tm
<1>5. /\ k1 \in ClientRecs /\ k1.wire = k.wire /\ k1.act = "idle" /\ k1.sock = k.sock
      /\ k1.stale = k.stale /\ k1.send = k.send
  <2>1. k1 \in ClientRecs
    BY <1>1, <1>2 DEF ClientRecs, Actions
  <2>2. /\ k1.wire = k.wire /\ k1.act = "idle" /\ k1.sock = k.sock
        /\ k1.stale = k.stale /\ k1.send = k.send
    BY <1>1 DEF ClientRecs
  <2>3. QED
    BY <2>1, <2>2
<1> HIDE DEF k1
<1>6. /\ FineBut(s1, c, made, taken) /\ s1.client[c] = k1 /\ s1.told = s.told
      /\ Ready(k1) => Fine(s1, made, taken)
  BY <1>5, SetFine DEF Steps
<1> HIDE DEF s1
<1>7. /\ Fine(s2, made, taken) /\ Ready(s2.client[c])
      /\ s2.client[c].sock = "open" => Len(s2.client[c].wire) <= 1
      /\ \A m \in Sends : s2.told[m] = "ok" => s.told[m] = "ok" \/ (good /\ m = k.send)
  <2>1. CASE good
    <3>1. Len(k1.wire) <= 1
      BY <1>5, <2>1
    <3>2. Ready(k1)
      BY <1>5, <2>1, <3>1 DEF Ready, Lined, Returnable, Steps
    <3>3. s1 \in States(taken)
      BY <1>6, ButFacts
    <3>4. /\ Fine(s2, made, taken) /\ s2.client = s1.client
          /\ \A m \in Sends : s2.told[m] = "ok" => s1.told[m] = "ok" \/ m = s1.client[c].send
      BY <1>1, <1>6, <2>1, <3>2, <3>3, TellFine
    <3>5. QED
      BY <1>5, <1>6, <2>1, <3>1, <3>2, <3>4
  <2>2. CASE ~good
    <3>1. Fine(s2, made, taken) /\ NoNews(s1, s2) /\ s2.client[c].sock # "open"
      BY <1>6, <2>2, NsErrorFine
    <3>2. FineBut(s2, c, made, taken)
      BY <1>6, <3>1, FineDrop DEF FineBut
    <3>3. Ready(s2.client[c])
      BY <3>1, <3>2, ButFacts
    <3>4. QED
      BY <1>6, <3>1, <3>3 DEF NoNews
  <2>3. QED
    BY <2>1, <2>2
<1> HIDE DEF s2
<1>8. FineBut(s2, c, made, taken) /\ s2 \in States(taken) /\ s2.client[c] \in ClientRecs
  BY <1>6, <1>7, FineDrop DEF FineBut, Ready
<1>9. [s2 EXCEPT !.client[c].freed = TRUE] = s3
  BY <1>1, <1>8 DEF Set, States
<1>10. /\ k3 \in ClientRecs /\ Ready(k3) /\ k3.sock = s2.client[c].sock
       /\ k3.wire = s2.client[c].wire
  BY <1>7, <1>8, FreedReady
<1> HIDE DEF k3
<1>11. FineBut(s3, c, made, taken) /\ s3.client[c] = k3 /\ s3.told = s2.told
  BY <1>8, <1>10, SetFine DEF Ready, Lined
<1> HIDE DEF s3
<1>12. Fine(OnFree(s3, c), made, taken) /\ OnFree(s3, c).told = s3.told
  BY <1>7, <1>10, <1>11, OnFreeFine
<1>13. QED
  BY <1>4, <1>7, <1>9, <1>11, <1>12

\* closeCachedConnections: what it quits is no longer anybody's.
LEMMA CloseCachedFine ==
  ASSUME NEW s, Fine(s, made, taken)
  PROVE  Fine(CloseCached(s), made, taken) /\ CloseCached(s).told = s.told
<1> DEFINE gone == s.busy \cup {s.free[i] : i \in DOMAIN s.free}
           cl == [c \in Clients |-> IF c \in gone THEN Quit(s.client[c]) ELSE s.client[c]]
           v == Wakes({s.waiting[i] : i \in DOMAIN s.waiting})
           u == s.woken \cup v
           e == <<>>
           z == {}
           s2 == [s EXCEPT !.client = cl, !.woken = u, !.free = e, !.busy = z]
<1>0. s \in States(taken) /\ made \in 0..MaxClients /\ MaxClients \in Nat
  BY SmtpAssumption DEF Fine
<1>1. CloseCached(s) = s2
  BY <1>0 DEF CloseCached, States
<1>2. \A c \in Clients : /\ s.client[c] \in ClientRecs /\ Lined(s.client[c])
                         /\ c > made => Unused(s.client[c])
  BY <1>0 DEF Fine, States
<1>3. \A c \in Clients : /\ cl[c] \in ClientRecs /\ Lined(cl[c])
                         /\ Unused(s.client[c]) => Unused(cl[c])
  <2>1. TAKE c \in Clients
  <2> DEFINE k == s.client[c]
  <2>2. k \in ClientRecs /\ Lined(k) /\ (k.sock = "open" => k.stale = 0)
    BY <1>2 DEF Lined
  <2>3. Quit(k) \in ClientRecs /\ Lined(Quit(k)) /\ (Unused(k) => Unused(Quit(k)))
    BY <2>2, QuitReady
  <2>4. cl[c] = IF c \in gone THEN Quit(k) ELSE k
    OBVIOUS
  <2> HIDE DEF cl, gone, k
  <2>5. QED
    BY <2>2, <2>3, <2>4 DEF k
<1>4. cl \in [Clients -> ClientRecs]
  BY <1>3
<1>5. {s.waiting[i] : i \in DOMAIN s.waiting} \in SUBSET [send : Sends, n : Nat]
  <2> DEFINE R == [send : Sends, n : Nat]
             q == s.waiting
  <2>1. q \in Seq(R)
    BY <1>0 DEF States
  <2> HIDE DEF R, q
  <2>2. \A i \in DOMAIN q : q[i] \in R
    BY <2>1
  <2>3. QED
    BY <2>2 DEF R, q
<1>6. v \in SUBSET (Sends \ taken)
  BY <1>5, WakesType
<1> HIDE DEF v, cl
<1>7. u \in SUBSET (Sends \ taken) /\ e \in Seq(Clients) /\ DOMAIN e = {} /\ z \subseteq 1..made
      /\ z \in SUBSET Clients
  BY <1>0, <1>6 DEF States
<1> HIDE DEF u, e, z
<1>8. /\ s2 \in States(taken) /\ s2.client = cl /\ s2.free = e /\ s2.busy = z
      /\ s2.told = s.told
  BY <1>0, <1>4, <1>7 DEF States
<1>9. Fine(s2, made, taken)
  BY <1>0, <1>2, <1>3, <1>7, <1>8 DEF Fine
<1>10. QED
  BY <1>1, <1>8, <1>9

-----------------------------------------------------------------------------
(* The actions, with no condition.                                         *)

LInv ==
    /\ Fine(Now, made, taken)
    /\ waits \in [Sends -> Nat]
    /\ delivered \in [Sends -> Nat]
    /\ OkMeansDelivered

\* A client that something can happen to.
LEMMA InUse ==
  ASSUME LInv, NEW c \in Clients
  PROVE  /\ Now \in States(taken) /\ Now.client = client /\ Now.told = told
         /\ client[c] \in ClientRecs /\ Lined(client[c]) /\ made \in 0..MaxClients
         /\ ~Unused(client[c]) => c \in 1..made /\ FineBut(Now, c, made, taken)
<1>1. Now.client = client /\ Now.told = told
  BY DEF Now
<1>2. /\ Now \in States(taken) /\ made \in 0..MaxClients /\ Lined(client[c])
      /\ c > made => Unused(client[c])
  BY <1>1 DEF LInv, Fine
<1>3. client[c] \in ClientRecs
  BY <1>1, <1>2 DEF States
<1>4. ~Unused(client[c]) => c \in 1..made
  BY <1>2, SmtpAssumption DEF Clients
<1>5. c \in 1..made => FineBut(Now, c, made, taken)
  BY FineDrop DEF LInv
<1>6. QED
  BY <1>1, <1>2, <1>3, <1>4, <1>5

\* An action that takes the state of the pool to s.
LEMMA StepFine ==
  ASSUME LInv, NEW s, Fine(s, made, taken), Become(s), UNCHANGED <<made, waits, taken>>,
         delivered' \in [Sends -> Nat],
         \A m \in Sends : s.told[m] = "ok" => delivered'[m] > 0
  PROVE  LInv'
<1>1. Now' = s /\ told' = s.told
  BY BecomeNow DEF Fine, Become
<1>2. Fine(Now', made', taken')
  BY <1>1
<1>3. QED
  BY <1>1, <1>2 DEF LInv, OkMeansDelivered

LEMMA StepNoNews ==
  ASSUME LInv, NEW s, Fine(s, made, taken), Become(s), UNCHANGED <<made, waits, taken>>,
         delivered' \in [Sends -> Nat], \A m \in Sends : delivered'[m] >= delivered[m],
         NoNews(Now, s)
  PROVE  LInv'
<1>1. \A m \in Sends : s.told[m] = "ok" => delivered'[m] > 0
  BY DEF LInv, OkMeansDelivered, NoNews, Now
<1>2. QED
  BY <1>1, StepFine

\* The callbacks become those of send m.
LEMMA AssignFine ==
  ASSUME NEW s, NEW c, NEW md, NEW tk, FineBut(s, c, md, tk), Ready(s.client[c]),
         NEW m \in Sends, m \notin s.woken
  PROVE  Fine(Assign(s, c, m), md, tk \cup {m}) /\ Assign(s, c, m).told = s.told
<1> DEFINE k == s.client[c]
           k0 == [k EXCEPT !.send = m, !.fresh = TRUE]
           k2 == Connect(k0)
           b == s.busy \cup {c}
           s1 == [s EXCEPT !.busy = b]
<1>1. /\ s \in States(tk) /\ c \in Clients /\ k \in ClientRecs /\ c \in 1..md
  BY ButFacts DEF FineBut
<1>2. Assign(s, c, m) = Set(s1, c, k2)
  BY DEF Assign
<1>3. /\ k0 \in ClientRecs /\ k0.wire = k.wire /\ k0.fresh = TRUE /\ k0.sock = k.sock
      /\ k0.stale = k.stale /\ k0.tx = k.tx /\ k0.act = k.act /\ k0.timer = k.timer
  BY <1>1 DEF ClientRecs, Senders
<1> HIDE DEF k0
<1>4. Ready(k2)
  <2>1. CASE Open(k0)
    <3> DEFINE k1 == Mailed(k0)
    <3>1. Ready(k1)
      BY <1>3, MailedReady, ReadyWire
    <3>2. k2 = [k1 EXCEPT !.freed = FALSE]
      BY <1>3, <2>1 DEF Connect, OnIdle, Mailed
    <3> HIDE DEF k1
    <3>3. QED
      BY <3>1, <3>2, FreedReady DEF Ready
  <2>2. CASE ~Open(k0)
    <3>1. Ready(k0)
      BY <1>3, <2>2, ShutReady DEF Open, Ready, Lined
    <3>2. QED
      BY <3>1, ConnectReady
  <2>3. QED
    BY <2>1, <2>2
<1> HIDE DEF k2
<1>5. b \in SUBSET Clients /\ b \subseteq 1..md /\ s.woken \in SUBSET (Sends \ (tk \cup {m}))
  BY <1>1 DEF States, FineBut
<1> HIDE DEF b
<1>6. /\ s1 \in States(tk \cup {m}) /\ s1.client = s.client /\ s1.free = s.free /\ s1.busy = b
      /\ s1.told = s.told
  BY <1>1, <1>5 DEF States
<1> HIDE DEF s1
<1>7. FineBut(s1, c, md, tk \cup {m})
  BY <1>5, <1>6 DEF FineBut
<1>8. Fine(Set(s1, c, k2), md, tk \cup {m}) /\ Set(s1, c, k2).told = s1.told
  BY <1>4, <1>7, SetFine DEF Ready, Lined
<1>9. QED
  BY <1>2, <1>6, <1>8

LEMMA GetNextClientFine ==
  ASSUME LInv, NEW m \in Sends, m \notin taken, GetNextClient(m), delivered' = delivered
  PROVE  LInv'
<1> DEFINE u == woken \ {m}
<1>1. /\ Now \in States(taken) /\ Fine(Now, made, taken) /\ made \in 0..MaxClients
      /\ made \in Nat /\ MaxClients \in Nat /\ waits \in [Sends -> Nat]
      /\ u \in SUBSET (Sends \ taken) /\ m \notin u
      /\ free \in Seq(Clients) /\ waiting \in Seq([send : Sends, n : Nat])
  <2>1. /\ Fine(Now, made, taken) /\ waits \in [Sends -> Nat]
        /\ Now \in States(taken) /\ made \in 0..MaxClients
    BY DEF LInv, Fine
  <2>2. MaxClients \in Nat /\ made \in Nat
    BY <2>1, SmtpAssumption
  <2>3. /\ woken \in SUBSET (Sends \ taken) /\ free \in Seq(Clients)
        /\ waiting \in Seq([send : Sends, n : Nat])
    BY <2>1 DEF Now, States
  <2>4. QED
    BY <2>1, <2>2, <2>3
<1>2. ASSUME NEW s, Become(s), Fine(s, made', taken'), s.told = told,
             waits' \in [Sends -> Nat]
      PROVE  LInv'
  <2>1. Now' = s /\ told' = told
    BY <1>2, BecomeNow DEF Fine, Become
  <2>2. Fine(Now', made', taken')
    BY <1>2, <2>1
  <2>3. QED
    BY <1>2, <2>1, <2>2 DEF LInv, OkMeansDelivered
<1>3. CASE /\ free # <<>>
           /\ Become(Assign([Now EXCEPT !.free = Popped, !.woken = @ \ {m}], free[Len(free)], m))
           /\ taken' = taken \cup {m}
           /\ UNCHANGED <<made, waits>>
  <2> DEFINE p == Popped
             c == free[Len(free)]
             s == [Now EXCEPT !.free = p, !.woken = u]
  <2>1. /\ p \in Seq(Clients) /\ c \in Clients /\ Len(free) \in DOMAIN free
        /\ \A i \in DOMAIN p : i \in DOMAIN free /\ p[i] = free[i]
    BY <1>1, <1>3 DEF Popped
  <2>2. [Now EXCEPT !.free = Popped, !.woken = @ \ {m}] = s
    BY DEF Now
  <2> HIDE DEF p, u
  <2>3. /\ s \in States(taken) /\ s.client = client /\ s.woken = u /\ s.free = p
        /\ s.busy = busy /\ s.told = told
    BY <1>1, <2>1 DEF States, Now
  <2> HIDE DEF s
  <2>4. c \in 1..made /\ Returnable(client[c]) /\ Lined(client[c]) /\ client[c] \in ClientRecs
    BY <1>1, <2>1 DEF Fine, Now, States
  <2> HIDE DEF c
  <2>5. FineBut(s, c, made, taken)
    BY <1>1, <2>1, <2>3, <2>4 DEF Fine, FineBut, Now, Lined
  <2> DEFINE s2 == Assign(s, c, m)
  <2>6. Fine(s2, made, taken \cup {m}) /\ s2.told = told
    BY <1>1, <2>3, <2>4, <2>5, AssignFine DEF Ready
  <2>7. Become(s2)
    BY <1>3, <2>2 DEF c
  <2> HIDE DEF s2
  <2>8. QED
    BY <1>1, <1>2, <1>3, <2>6, <2>7
<1>4. CASE /\ free = <<>> /\ made < MaxClients /\ made' = made + 1
           /\ Become(Assign([Now EXCEPT !.woken = @ \ {m}], made + 1, m))
           /\ taken' = taken \cup {m}
           /\ UNCHANGED waits
  <2> DEFINE s == [Now EXCEPT !.woken = u]
             c == made + 1
  <2>1. /\ c \in Clients /\ made' \in 0..MaxClients /\ made' = c /\ c > made
        /\ c \in 1..c /\ 1..made \subseteq 1..c /\ c \notin 1..made
        /\ \A d \in Clients : d > c => d > made
    BY <1>1, <1>4 DEF Clients
  <2>2. [Now EXCEPT !.woken = @ \ {m}] = s
    BY DEF Now
  <2> HIDE DEF u
  <2>3. /\ s \in States(taken) /\ s.client = client /\ s.woken = u /\ s.free = free
        /\ s.busy = busy /\ s.told = told
    BY <1>1 DEF States, Now
  <2> HIDE DEF s
  <2>4. /\ client[c] \in ClientRecs /\ Lined(client[c]) /\ Unused(client[c])
        /\ client[c].sock # "open"
    BY <1>1, <2>1 DEF Fine, Now, States, Unused
  <2>5. \A d \in Clients : Lined(client[d]) /\ (d > made => Unused(client[d]))
    BY <1>1 DEF Fine, Now
  <2>6. (\A i \in DOMAIN free : free[i] \in 1..made) /\ busy \subseteq 1..made
    BY <1>1 DEF Fine, Now
  <2> HIDE DEF c
  <2>7. FineBut(s, c, c, taken)
    BY <1>4, <2>1, <2>3, <2>4, <2>5, <2>6 DEF FineBut, Lined
  <2> DEFINE s2 == Assign(s, c, m)
  <2>8. Fine(s2, c, taken \cup {m}) /\ s2.told = told
    BY <1>1, <2>3, <2>4, <2>7, ButFacts, AssignFine
  <2>9. Become(s2)
    BY <1>4, <2>2 DEF c
  <2> HIDE DEF s2
  <2>10. QED
    BY <1>1, <1>2, <1>4, <2>1, <2>8, <2>9
<1>5. CASE /\ waits' = [waits EXCEPT ![m] = @ + 1]
           /\ Become([Now EXCEPT !.woken = @ \ {m},
                                 !.waiting = Append(@, [send |-> m, n |-> waits[m] + 1])])
           /\ UNCHANGED <<made, taken>>
  <2> DEFINE w == Append(waiting, [send |-> m, n |-> waits[m] + 1])
             s2 == [Now EXCEPT !.woken = u, !.waiting = w]
  <2>1. [Now EXCEPT !.woken = @ \ {m}, !.waiting = Append(@, [send |-> m, n |-> waits[m] + 1])] = s2
    BY DEF Now
  <2>2. w \in Seq([send : Sends, n : Nat]) /\ waits' \in [Sends -> Nat]
    BY <1>1, <1>5
  <2> HIDE DEF w, u
  <2>3. /\ s2 \in States(taken) /\ s2.client = Now.client /\ s2.free = Now.free
        /\ s2.busy = Now.busy /\ s2.told = told
    BY <1>1, <2>2 DEF States, Now
  <2>4. Become(s2)
    BY <1>5, <2>1
  <2> HIDE DEF s2
  <2>5. Fine(s2, made, taken)
    BY <1>1, <2>3, FineSame
  <2>6. QED
    BY <1>2, <1>5, <2>2, <2>3, <2>4, <2>5
<1>6. QED
  BY <1>3, <1>4, <1>5 DEF GetNextClient

LEMMA SendsFine ==
  ASSUME LInv, NEW m \in Sends, SendMailMessage(m) \/ Resume(m)
  PROVE  LInv'
<1>1. m \notin taken
  BY DEF SendMailMessage, Resume, LInv, Fine, Now, States
<1>2. GetNextClient(m) /\ delivered' = delivered
  BY DEF SendMailMessage, Resume
<1>3. QED
  BY <1>1, <1>2, GetNextClientFine

LEMMA OpenedFine ==
  ASSUME LInv, NEW c \in Clients, Opened(c)
  PROVE  LInv'
<1> DEFINE k == client[c]
           x == Cmd("hello", k.send)
           w == <<x>>
           k2 == [k EXCEPT !.sock = "open", !.act = "hello", !.tx = "none", !.wire = w]
<1>1. /\ k \in ClientRecs /\ k.stale = 0 /\ k.sock = "connecting"
      /\ c \in 1..made /\ FineBut(Now, c, made, taken) /\ Now.told = told
  BY InUse DEF Opened, Unused
<1>2. Become(Set(Now, c, k2)) /\ UNCHANGED rest
  BY DEF Opened
<1>3. x \in Cmds
  BY <1>1, CmdType DEF Names, ClientRecs
<1> HIDE DEF x
<1>4. w \in Seq(Cmds) /\ Len(w) <= 1
  BY <1>3
<1> HIDE DEF w
<1>5. /\ k2 \in ClientRecs /\ k2.wire = w /\ k2.act = "hello" /\ k2.stale = 0
  BY <1>1, <1>4 DEF ClientRecs, Actions, Sockets, Transactions
<1> HIDE DEF k2
<1>6. Ready(k2)
  <2>1. Len(k2.wire) <= 1
    BY <1>4, <1>5, Zenon
  <2>2. QED
    BY <1>5, <2>1 DEF Ready, Lined, Returnable, Steps
<1> DEFINE s == Set(Now, c, k2)
<1>7. Fine(s, made, taken) /\ s.told = told
  BY <1>1, <1>6, SetFine DEF Ready, Lined
<1> HIDE DEF s
<1>8. NoNews(Now, s) /\ Become(s)
  BY <1>1, <1>2, <1>7 DEF NoNews, s
<1>9. QED
  BY <1>2, <1>7, <1>8, StepNoNews DEF rest, LInv

LEMMA ClosedFine ==
  ASSUME LInv, NEW c \in Clients, NEW again \in BOOLEAN, Closed(c, again)
  PROVE  LInv'
<1> DEFINE k == client[c]
           e == <<>>
           k2 == [k EXCEPT !.sock = "closed", !.wire = e]
           s1 == Set(Now, c, k2)
<1>1. /\ k \in ClientRecs /\ Lined(k) /\ FineBut(Now, c, made, taken) /\ Now.told = told
  BY InUse DEF Closed, Unused
<1>2. Become(OnClose(s1, c, again)) /\ UNCHANGED <<made, waits, taken, delivered>>
  BY DEF Closed
<1>3. e \in Seq(Cmds)
  OBVIOUS
<1> HIDE DEF e
<1>4. k2 \in ClientRecs /\ k2.sock = "closed" /\ k2.act = k.act /\ k2.timer = k.timer
  BY <1>1, <1>3 DEF ClientRecs, Sockets
<1> HIDE DEF k2
<1>5. FineBut(s1, c, made, taken) /\ s1.client[c] = k2 /\ s1.told = told
  BY <1>1, <1>4, SetFine DEF Lined
<1> HIDE DEF s1
<1> DEFINE s == OnClose(s1, c, again)
<1>6. Fine(s, made, taken) /\ NoNews(s1, s)
  BY <1>4, <1>5, OnCloseFine
<1> HIDE DEF s
<1>7. NoNews(Now, s) /\ Become(s)
  BY <1>1, <1>2, <1>5, <1>6 DEF NoNews, s
<1>8. QED
  BY <1>2, <1>6, <1>7, StepNoNews DEF LInv

\* The close event of a socket that was replaced comes before its successor is open.
LEMMA StaleClosedFine ==
  ASSUME LInv, NEW c \in Clients, NEW again \in BOOLEAN, StaleClosed(c, again)
  PROVE  LInv'
<1> DEFINE k == client[c]
           n == k.stale - 1
           k2 == [k EXCEPT !.stale = n]
           s1 == Set(Now, c, k2)
<1>1. k \in ClientRecs /\ Lined(k) /\ Now.told = told /\ Now \in States(taken) /\ Now.client = client
  BY InUse
<1>2. k.stale \in Nat /\ k.stale > 0
  BY <1>1 DEF StaleClosed, ClientRecs
<1>3. FineBut(Now, c, made, taken) /\ k.sock # "open" /\ n \in Nat
  BY <1>1, <1>2, InUse DEF Unused, Lined
<1>4. [Now EXCEPT !.client[c].stale = @ - 1] = s1
  BY <1>1 DEF Set, States, ClientRecs
<1>5. Become(OnClose(s1, c, again)) /\ UNCHANGED <<made, waits, taken, delivered>>
  BY <1>4, Zenon DEF StaleClosed
<1> HIDE DEF n
<1>6. k2 \in ClientRecs /\ k2.sock = k.sock /\ k2.act = k.act /\ k2.timer = k.timer
  BY <1>1, <1>3 DEF ClientRecs
<1> HIDE DEF k2
<1>7. FineBut(s1, c, made, taken) /\ s1.client[c] = k2 /\ s1.told = told
  BY <1>1, <1>3, <1>6, SetFine DEF Lined
<1> HIDE DEF s1
<1> DEFINE s == OnClose(s1, c, again)
<1>8. Fine(s, made, taken) /\ NoNews(s1, s)
  BY <1>3, <1>6, <1>7, OnCloseFine
<1> HIDE DEF s
<1>9. NoNews(Now, s) /\ Become(s)
  BY <1>1, <1>5, <1>7, <1>8 DEF NoNews, s
<1>10. QED
  BY <1>5, <1>8, <1>9, StepNoNews DEF LInv

LEMMA QuitTimerFine ==
  ASSUME LInv, NEW c \in Clients, QuitTimer(c)
  PROVE  LInv'
<1> DEFINE k == client[c]
           k1 == [k EXCEPT !.timer = FALSE]
           k2 == IF Open(k1) /\ ~active THEN Quit(k1) ELSE k1
           s == Set(Now, c, k2)
<1>1. /\ k \in ClientRecs /\ Lined(k) /\ c \in 1..made /\ Now.told = told /\ Now.client = client
      /\ k.timer
  BY InUse DEF QuitTimer, Unused
<1>2. Become(s) /\ UNCHANGED rest
  BY DEF QuitTimer
<1>3. /\ k1 \in ClientRecs /\ k1.sock = k.sock /\ k1.act = k.act /\ k1.wire = k.wire
      /\ k1.tx = k.tx /\ k1.send = k.send /\ k1.stale = k.stale /\ k1.timer = FALSE
  BY <1>1 DEF ClientRecs
<1> HIDE DEF k1
<1>4. k.act \notin Steps /\ (k.sock = "open" => k.stale = 0)
  BY <1>1 DEF Lined
<1>5. Lined(k1) /\ (Returnable(k) => Returnable(k1))
  BY <1>1, <1>3 DEF Lined, Returnable
<1>6. Quit(k1) \in ClientRecs /\ Lined(Quit(k1)) /\ (Returnable(k) => Returnable(Quit(k1)))
  <2>1. /\ Quit(k1) \in ClientRecs /\ Lined(Quit(k1)) /\ Quit(k1).sock = k.sock
        /\ k.sock = "open" => (Len(k.wire) <= 1 \/ Quits(k.wire) => Quits(Quit(k1).wire))
    BY <1>3, <1>4, QuitReady
  <2>2. k.sock = "open" /\ Returnable(k) => Len(k.wire) <= 1 \/ Quits(k.wire)
    BY <1>1, <1>4 DEF Lined, Returnable, ClientRecs, Actions, Steps
  <2>3. QED
    BY <2>1, <2>2 DEF Returnable
<1>7. k2 \in ClientRecs /\ Lined(k2) /\ (Returnable(k) => Returnable(k2))
  BY <1>3, <1>5, <1>6
<1> HIDE DEF k2
<1>8. Fine(s, made, taken) /\ s.told = told
  BY <1>1, <1>7, SetKeeps, SetFields, InUse DEF LInv
<1> HIDE DEF s
<1>9. QED
  BY <1>1, <1>2, <1>8, StepNoNews DEF NoNews, rest, LInv

\* _onError after its await.
LEMMA ErrorInfoFine ==
  ASSUME LInv, NEW c \in Clients, ErrorInfo(c)
  PROVE  LInv'
<1> DEFINE k == client[c]
           k1 == [k EXCEPT !.failing = FALSE]
           s1 == Set(Now, c, k1)
           s2 == CloseCached(s1)
           s == Tell(s2, c, "failed")
<1>1. /\ k \in ClientRecs /\ Lined(k) /\ c \in 1..made /\ Now.told = told /\ Now.client = client
      /\ Now \in States(taken)
  BY InUse DEF ErrorInfo, Unused
<1>2. Become(s) /\ UNCHANGED rest
  BY DEF ErrorInfo
<1>3. k1 \in ClientRecs /\ Lined(k1) /\ (Returnable(k) => Returnable(k1))
  <2>1. /\ k1 \in ClientRecs /\ k1.sock = k.sock /\ k1.act = k.act /\ k1.wire = k.wire
        /\ k1.tx = k.tx /\ k1.send = k.send /\ k1.stale = k.stale /\ k1.timer = k.timer
    BY <1>1 DEF ClientRecs
  <2> HIDE DEF k1
  <2>2. QED
    BY <1>1, <2>1 DEF Lined, Returnable
<1> HIDE DEF k1
<1>4. Fine(s1, made, taken) /\ s1.told = told
  BY <1>1, <1>3, SetKeeps, SetFields DEF LInv
<1> HIDE DEF s1
<1>5. Fine(s2, made, taken) /\ s2.told = told
  BY <1>4, CloseCachedFine
<1> HIDE DEF s2
<1>6. Fine(s, made, taken) /\ NoNews(s2, s)
  BY <1>5, TellFine DEF Fine
<1> HIDE DEF s
<1>7. QED
  BY <1>1, <1>2, <1>5, <1>6, StepNoNews DEF NoNews, rest, LInv

LEMMA AuthRejectedFine ==
  ASSUME LInv, NEW c \in Clients, NEW again \in BOOLEAN, AuthRejected(c, again)
  PROVE  LInv'
<1> DEFINE k == client[c]
           t == Tail(k.wire)
           k1 == [k EXCEPT !.wire = t, !.auth = FALSE]
           s1 == Set(Now, c, k1)
           s == AuthFailed(s1, c, again)
<1>1. /\ k \in ClientRecs /\ Lined(k) /\ FineBut(Now, c, made, taken) /\ Now.told = told
      /\ k.sock = "open" /\ k.act = "login" /\ k.wire # <<>>
  BY InUse DEF AuthRejected, Unused
<1>2. Become(s) /\ UNCHANGED <<made, waits, taken, delivered>>
  <2>1. [k EXCEPT !.wire = Tail(@), !.auth = FALSE] = k1
    BY <1>1 DEF ClientRecs
  <2>2. QED
    BY <2>1, Zenon DEF AuthRejected
<1>3. k.wire \in Seq(Cmds) /\ k.stale = 0 /\ Len(k.wire) <= 1
  BY <1>1 DEF Lined, ClientRecs
<1>4. t \in Seq(Cmds) /\ t = <<>>
  BY <1>1, <1>3
<1> HIDE DEF t
<1>5. k1 \in ClientRecs /\ k1.wire = t /\ k1.act = "login" /\ k1.stale = 0
  BY <1>1, <1>3, <1>4 DEF ClientRecs
<1> HIDE DEF k1
<1>6. FineBut(s1, c, made, taken) /\ s1.client[c] = k1 /\ s1.told = told
  BY <1>1, <1>5, SetFine DEF Steps
<1> HIDE DEF s1
<1>7. Fine(s, made, taken) /\ NoNews(s1, s)
  BY <1>4, <1>5, <1>6, AuthFailedFine
<1> HIDE DEF s
<1>8. QED
  BY <1>1, <1>2, <1>6, <1>7, StepNoNews DEF NoNews, LInv

\* A message whose reply is lost may have been delivered; nothing is taken back.
LEMMA LostMore ==
  ASSUME delivered \in [Sends -> Nat], NEW k, NEW accepted \in BOOLEAN, ReplyLost(k, accepted)
  PROVE  delivered' \in [Sends -> Nat] /\ \A m \in Sends : delivered'[m] >= delivered[m]
<1>1. CASE ~accepted
  BY <1>1 DEF ReplyLost
<1>2. CASE accepted
  <2>1. PICK m \in Accepts(k) : delivered' = [delivered EXCEPT ![m] = @ + 1]
    BY <1>2 DEF ReplyLost
  <2>2. \A n \in Sends : delivered'[n] = IF n = m THEN delivered[n] + 1 ELSE delivered[n]
    BY <2>1
  <2>3. \A n \in Sends : delivered'[n] \in Nat /\ delivered'[n] >= delivered[n]
    BY <2>2
  <2>4. delivered' \in [Sends -> Nat]
    BY <2>1, <2>3
  <2>5. QED
    BY <2>3, <2>4
<1>3. QED
  BY <1>1, <1>2

\* A socket that is closed takes what is on the wire with it.
LEMMA ShutFine ==
  ASSUME LInv, NEW c \in Clients, client[c].sock # "closed", NEW end \in {"closed", "closing", "gone"}
  PROVE  LET s == Set(Now, c, [client[c] EXCEPT !.sock = end, !.wire = <<>>])
         IN  /\ FineBut(s, c, made, taken) /\ Fine(s, made, taken) /\ s.told = told
             /\ s.client[c].sock # "open"
<1> DEFINE k == client[c]
           e == <<>>
           k2 == [k EXCEPT !.sock = end, !.wire = e]
           s == Set(Now, c, k2)
<1>1. k \in ClientRecs /\ Lined(k) /\ FineBut(Now, c, made, taken) /\ Now.told = told
  BY InUse DEF Unused
<1>2. e \in Seq(Cmds)
  OBVIOUS
<1> HIDE DEF e
<1>3. k2 \in ClientRecs /\ k2.sock # "open" /\ k2.act = k.act /\ k2.timer = k.timer
  BY <1>1, <1>2 DEF ClientRecs, Sockets
<1> HIDE DEF k2
<1>4. Ready(k2)
  BY <1>1, <1>3, ShutReady DEF Lined
<1>5. FineBut(s, c, made, taken) /\ Fine(s, made, taken) /\ s.told = told /\ s.client[c] = k2
  BY <1>1, <1>3, <1>4, SetFine DEF Lined
<1>6. QED
  BY <1>3, <1>5 DEF s, k2, e

LEMMA HangUpFine ==
  ASSUME LInv, NEW c \in Clients, NEW accepted \in BOOLEAN, HangUp(c, accepted)
  PROVE  LInv'
<1> DEFINE k == client[c]
<1>1. PICK end \in {"gone", "closing"} : Become(Set(Now, c, [k EXCEPT !.sock = end, !.wire = <<>>]))
  BY DEF HangUp
<1>2. k.sock # "closed" /\ ReplyLost(k, accepted) /\ UNCHANGED <<made, waits, taken>>
  BY DEF HangUp
<1> DEFINE s == Set(Now, c, [k EXCEPT !.sock = end, !.wire = <<>>])
<1>3. Fine(s, made, taken) /\ s.told = told /\ Now.told = told
  BY <1>2, ShutFine, InUse
<1>4. Become(s)
  BY <1>1
<1> HIDE DEF s
<1>5. delivered' \in [Sends -> Nat] /\ \A m \in Sends : delivered'[m] >= delivered[m]
  BY <1>2, LostMore DEF LInv
<1>6. QED
  BY <1>2, <1>3, <1>4, <1>5, StepNoNews DEF NoNews

LEMMA SocketErrorFine ==
  ASSUME LInv, NEW c \in Clients, NEW tls \in BOOLEAN, NEW accepted \in BOOLEAN,
         SocketError(c, tls, accepted)
  PROVE  LInv'
<1> DEFINE k == client[c]
           end == IF k.sock = "open" THEN "closing" ELSE "closed"
           s1 == Set(Now, c, [k EXCEPT !.sock = end, !.wire = <<>>])
           s2 == Free(s1, c)
           q == Quit(s2.client[c])
           k3 == [q EXCEPT !.failing = tls]
           s3 == Set(s2, c, k3)
           s == CASE k.freed -> s1 [] ~k.freed /\ tls -> s3 [] OTHER -> Tell(s3, c, "failed")
<1>1. /\ k.sock # "closed" /\ Become(s) /\ ReplyLost(k, accepted)
      /\ UNCHANGED <<made, waits, taken>>
  BY DEF SocketError
<1>2. end \in {"closed", "closing", "gone"}
  OBVIOUS
<1> HIDE DEF end
<1>3. /\ FineBut(s1, c, made, taken) /\ Fine(s1, made, taken) /\ s1.told = told
      /\ s1.client[c].sock # "open" /\ Now.told = told
  BY <1>1, <1>2, ShutFine, InUse
<1> HIDE DEF s1
<1>4. Fine(s2, made, taken) /\ s2.told = told /\ s2.client[c].sock # "open"
  BY <1>3, FreeFine
<1> HIDE DEF s2
<1>5. FineBut(s2, c, made, taken) /\ s2.client[c] \in ClientRecs
  BY <1>3, <1>4, FineDrop, ButFacts DEF FineBut
<1>6. q \in ClientRecs /\ q.sock # "open" /\ q.act = "close"
  BY <1>4, <1>5, QuitReady
<1> HIDE DEF q
<1>7. k3 \in ClientRecs /\ k3.sock # "open" /\ k3.act = "close"
  BY <1>6 DEF ClientRecs
<1> HIDE DEF k3
<1>8. Ready(k3)
  BY <1>7, ShutReady DEF Steps
<1>9. Fine(s3, made, taken) /\ s3.told = told
  BY <1>4, <1>5, <1>7, <1>8, SetFine DEF Steps
<1> HIDE DEF s3
<1>10. Fine(Tell(s3, c, "failed"), made, taken) /\ NoNews(s3, Tell(s3, c, "failed"))
  BY <1>9, TellFine DEF Fine
<1>11. Fine(s, made, taken) /\ NoNews(Now, s)
  BY <1>3, <1>9, <1>10 DEF NoNews
<1> HIDE DEF s
<1>12. delivered' \in [Sends -> Nat] /\ \A m \in Sends : delivered'[m] >= delivered[m]
  BY <1>1, LostMore DEF LInv
<1>13. QED
  BY <1>1, <1>11, <1>12, StepNoNews

\* A client goes on with the next step of its message, on an open socket or not.
LEMMA ProceedReady ==
  ASSUME NEW k \in ClientRecs, ~k.timer, NEW act \in {"rcpt", "data", "stream"},
         k.sock = "open" =>
           k.stale = 0 /\ InLine(Append(k.wire, Cmd(Sent(act), k.send)), k.tx, act, k.send)
  PROVE  Ready(Proceed(k, act, Sent(act)))
<1> DEFINE k1 == [k EXCEPT !.act = act]
           w == IF k1.sock = "open" THEN Append(k1.wire, Cmd(Sent(act), k1.send)) ELSE k1.wire
           k2 == [k1 EXCEPT !.wire = w]
<1>1. /\ k1 \in ClientRecs /\ k1.wire = k.wire /\ k1.sock = k.sock /\ k1.act = act
      /\ k1.send = k.send /\ k1.timer = FALSE /\ k1.tx = k.tx /\ k1.stale = k.stale
  BY DEF ClientRecs, Actions
<1> HIDE DEF k1
<1>2. Sent(act) \in Names
  BY DEF Sent, Names
<1>3. w \in Seq(Cmds) /\ SendCmd(k1, Sent(act)) = k2
  BY <1>1, <1>2, SendCmdFields
<1>4. k.sock = "open" => k.stale = 0 /\ InLine(w, k.tx, act, k.send)
  BY <1>1
<1> HIDE DEF w
<1>5. /\ k2 \in ClientRecs /\ k2.wire = w /\ k2.sock = k.sock /\ k2.act = act
      /\ k2.send = k.send /\ k2.timer = FALSE /\ k2.tx = k.tx /\ k2.stale = k.stale
  BY <1>1, <1>3 DEF ClientRecs
<1> HIDE DEF k2
<1>6. Ready(k2)
  BY <1>4, <1>5 DEF Ready, Lined, Returnable
<1>7. QED
  BY <1>3, <1>6 DEF Proceed, k1

\* _onCommand, when the reply has left the wire.
LEMMA HandleFine ==
  ASSUME NEW s, NEW c, FineBut(s, c, made, taken), NEW code \in ReplyCodes,
         s.client[c].sock = "open" =>
           /\ s.client[c].stale = 0
           /\ s.client[c].act \in {"hello", "login"} => s.client[c].wire = <<>>
           /\ s.client[c].act \in {"mail", "rcpt", "data"} /\ Positive(s.client[c].act, code) =>
                InLine(Append(s.client[c].wire,
                              Cmd(Sent(After(s.client[c].act)), s.client[c].send)),
                       s.client[c].tx, After(s.client[c].act), s.client[c].send),
         s.client[c].act = "stream" /\ Success(code) => s.client[c].wire = <<>>
  PROVE  /\ Fine(Handle(s, c, code), made, taken)
         /\ \A m \in Sends : Handle(s, c, code).told[m] = "ok" =>
              \/ s.told[m] = "ok"
              \/ s.client[c].act = "stream" /\ Success(code) /\ m = s.client[c].send
<1> DEFINE k == s.client[c]
           h == Handle(s, c, code)
<1>1. s \in States(taken) /\ c \in Clients /\ k \in ClientRecs /\ (k.act \in Steps => ~k.timer)
  BY ButFacts DEF FineBut
<1>2. ASSUME NEW k2, Ready(k2), h = Set(s, c, k2)
      PROVE  Fine(h, made, taken) /\ h.told = s.told
  BY <1>2, SetFine DEF Ready, Lined
<1>3. CASE k.act = "hello" /\ Success(code)
  <2> DEFINE k1 == [k EXCEPT !.auth = TRUE]
             k2 == [k1 EXCEPT !.act = "login"]
             k3 == SendCmd(k2, "login")
  <2>1. h = Set(s, c, k3)
    BY <1>3 DEF Handle, Proceed
  <2>2. k1 \in ClientRecs /\ k1.sock = k.sock /\ k1.wire = k.wire /\ k1.stale = k.stale
    BY <1>1 DEF ClientRecs
  <2> HIDE DEF k1
  <2>3. /\ k2 \in ClientRecs /\ k2.act = "login" /\ k2.sock = k.sock /\ k2.wire = k.wire
        /\ k2.stale = k.stale
    BY <2>2 DEF ClientRecs, Actions
  <2> HIDE DEF k2
  <2>4. Ready(k3)
    BY <1>3, <2>3, StartReady DEF Names
  <2>5. QED
    BY <1>2, <2>1, <2>4
<1>4. CASE k.act = "login" /\ Success(code)
  <2> DEFINE k1 == [k EXCEPT !.auth = FALSE, !.act = "idle"]
             k2 == OnIdle(k1)
  <2>1. h = Set(s, c, k2)
    BY <1>4 DEF Handle
  <2>2. /\ k1 \in ClientRecs /\ k1.act = "idle" /\ k1.sock = k.sock /\ k1.wire = k.wire
        /\ k1.stale = k.stale
    BY <1>1 DEF ClientRecs, Actions
  <2> HIDE DEF k1
  <2>3. k1.sock = "open" => Len(k1.wire) <= 1
    BY <1>4, <2>2
  <2>4. Ready(k1)
    BY <1>4, <2>2, <2>3 DEF Ready, Lined, Returnable, Steps
  <2>5. Ready(k2)
    BY <2>4, OnIdleReady
  <2>6. QED
    BY <1>2, <2>1, <2>5
<1>5. CASE k.act \in {"mail", "rcpt", "data"} /\ Positive(k.act, code)
  <2> DEFINE act == After(k.act)
             k2 == Proceed(k, act, Sent(act))
  <2>1. h = Set(s, c, k2)
    <3>1. CASE k.act = "mail"
      BY <1>5, <3>1 DEF Handle, After, Sent, Positive
    <3>2. CASE k.act = "rcpt"
      BY <1>5, <3>2 DEF Handle, After, Sent, Positive
    <3>3. CASE k.act = "data"
      BY <1>5, <3>3 DEF Handle, After, Sent, Positive
    <3>4. QED
      BY <1>5, <3>1, <3>2, <3>3
  <2>2. act \in {"rcpt", "data", "stream"}
    BY <1>5 DEF After
  <2>3. k.timer = FALSE
    BY <1>1, <1>5 DEF Steps, ClientRecs
  <2>4. Ready(k2)
    BY <1>1, <1>5, <2>2, <2>3, ProceedReady
  <2>5. QED
    BY <1>2, <2>1, <2>4
<1>6. CASE k.act = "stream"
  <2>1. h = StreamDone(s, c, Success(code))
    BY <1>6 DEF Handle
  <2>2. Success(code) \in BOOLEAN
    BY DEF Success
  <2>3. QED
    BY <1>6, <2>1, <2>2, StreamDoneFine
<1>7. CASE k.act = "close"
  <2>1. h = Close(s, c)
    BY <1>7 DEF Handle
  <2>2. QED
    BY <2>1, CloseFine
<1>8. CASE /\ ~(k.act \in {"hello", "login"} /\ Success(code))
           /\ ~(k.act \in {"mail", "rcpt", "data"} /\ Positive(k.act, code))
           /\ k.act \notin {"stream", "close"}
  <2>1. h = NsError(s, c, code = "4xx")
    BY <1>8 DEF Handle, Positive
  <2>2. QED
    BY <2>1, NsErrorFine DEF NoNews
<1>9. QED
  BY <1>3, <1>4, <1>5, <1>6, <1>7, <1>8

LEMMA ReplyFine ==
  ASSUME LInv, NEW c \in Clients, NEW code \in ReplyCodes, Reply(c, code)
  PROVE  LInv'
<1> DEFINE k == client[c]
           cmd == Head(k.wire)
           w == Tail(k.wire)
           e == <<>>
           tx == Advance(cmd.name, k.tx, code)
           kq == [k EXCEPT !.wire = e, !.sock = "gone"]
           kt == [k EXCEPT !.wire = w, !.tx = tx]
           k1 == IF cmd.name = "quit" THEN kq ELSE kt
           s1 == Set(Now, c, k1)
           s == Handle(s1, c, code)
<1>1. /\ k \in ClientRecs /\ Lined(k) /\ FineBut(Now, c, made, taken) /\ Now.told = told
      /\ k.sock = "open" /\ k.wire # <<>>
  BY InUse DEF Reply, Unused
<1>2. k.wire \in Seq(Cmds) /\ k.tx \in Transactions /\ k.send \in Senders /\ k.stale = 0
  BY <1>1 DEF ClientRecs, Lined
<1>3. cmd \in Cmds /\ w \in Seq(Cmds) /\ (Len(k.wire) <= 1 => w = <<>>)
  BY <1>1, <1>2
<1>4. cmd.name \in Names
  BY <1>3 DEF Cmds, Names
<1>5. code \in Codes(cmd.name, k.tx) /\ tx \in Transactions
  BY <1>2, <1>4, AdvanceType DEF Reply
<1>6. [k EXCEPT !.wire = Tail(@), !.tx = Advance(cmd.name, @, code)] = kt
  BY <1>1 DEF ClientRecs
<1>7. /\ Become(s) /\ UNCHANGED <<made, waits, taken>>
      /\ delivered' = IF cmd.name = "dot" /\ code = "250"
                      THEN [delivered EXCEPT ![cmd.send] = @ + 1] ELSE delivered
  BY <1>6, Zenon DEF Reply
<1>8. k.act \in {"hello", "login"} => w = <<>>
  BY <1>1, <1>3 DEF Lined
<1>9. cmd.name # "quit" /\ k.act \in {"mail", "rcpt", "data"} /\ Positive(k.act, code) =>
        InLine(Append(w, Cmd(Sent(After(k.act)), k.send)), tx, After(k.act), k.send)
  BY <1>1, <1>2, <1>5, LineStep DEF Lined, Steps
<1>10. k.act = "stream" /\ Success(code) =>
         w = <<>> /\ cmd.name = "dot" /\ cmd.send = k.send /\ code = "250"
  BY <1>1, <1>2, <1>5, LineEnd DEF Lined, Steps
<1>11. e \in Seq(Cmds) /\ e = <<>>
  OBVIOUS
<1> HIDE DEF cmd, w, e, tx
<1>12. /\ kq \in ClientRecs /\ kq.wire = <<>> /\ kq.sock = "gone" /\ kq.act = k.act
       /\ kq.send = k.send /\ kq.timer = k.timer
  BY <1>1, <1>11 DEF ClientRecs, Sockets
<1>13. /\ kt \in ClientRecs /\ kt.wire = w /\ kt.sock = "open" /\ kt.act = k.act
       /\ kt.send = k.send /\ kt.timer = k.timer /\ kt.tx = tx /\ kt.stale = 0
  BY <1>1, <1>2, <1>3, <1>5 DEF ClientRecs
<1> HIDE DEF kq, kt
<1>14. /\ k1 \in ClientRecs /\ k1.act = k.act /\ k1.send = k.send /\ k1.timer = k.timer
       /\ k1.sock = "open" =>
            k1 = kt /\ cmd.name # "quit"
       /\ k1.wire = <<>> \/ k1.wire = w
  BY <1>12, <1>13
<1> HIDE DEF k1
<1>15. FineBut(s1, c, made, taken) /\ s1.client[c] = k1 /\ s1.told = told
  BY <1>1, <1>14, SetFine DEF Lined
<1> HIDE DEF s1
<1>16. /\ Fine(s, made, taken)
       /\ \A m \in Sends : s.told[m] = "ok" =>
            told[m] = "ok" \/ (k.act = "stream" /\ Success(code) /\ m = k.send)
  <2>1. k1.act \in {"hello", "login"} /\ k1.sock = "open" => k1.wire = <<>>
    BY <1>8, <1>14
  <2>2. k1.sock = "open" => /\ k1.stale = 0
                            /\ k1.act \in {"mail", "rcpt", "data"} /\ Positive(k1.act, code) =>
                                 InLine(Append(k1.wire, Cmd(Sent(After(k1.act)), k1.send)),
                                        k1.tx, After(k1.act), k1.send)
    BY <1>9, <1>13, <1>14
  <2>3. k1.act = "stream" /\ Success(code) => k1.wire = <<>>
    BY <1>10, <1>14
  <2>4. QED
    BY <1>14, <1>15, <2>1, <2>2, <2>3, HandleFine
<1> HIDE DEF s
<1>17. /\ delivered' \in [Sends -> Nat] /\ \A m \in Sends : delivered'[m] >= delivered[m]
       /\ \A m \in Sends : cmd.name = "dot" /\ code = "250" /\ cmd.send = m => delivered'[m] > 0
  <2>1. delivered \in [Sends -> Nat]
    BY DEF LInv
  <2>2. CASE cmd.name = "dot" /\ code = "250"
    <3>1. delivered' = [delivered EXCEPT ![cmd.send] = @ + 1]
      BY <1>7, <2>2
    <3>2. \A n \in Sends : delivered'[n] = IF n = cmd.send THEN delivered[n] + 1 ELSE delivered[n]
      BY <2>1, <3>1
    <3>3. \A n \in Sends : /\ delivered'[n] \in Nat /\ delivered'[n] >= delivered[n]
                           /\ n = cmd.send => delivered'[n] > 0
      BY <2>1, <3>2
    <3>4. delivered' \in [Sends -> Nat]
      BY <2>1, <3>1, <3>3
    <3>5. QED
      BY <3>3, <3>4
  <2>3. CASE ~(cmd.name = "dot" /\ code = "250")
    <3>1. delivered' = delivered
      BY <1>7, <2>3
    <3>2. \A n \in Sends : delivered[n] >= delivered[n]
      BY <2>1
    <3>3. QED
      BY <2>1, <2>3, <3>1, <3>2
  <2>4. QED
    BY <2>2, <2>3
<1>18. \A m \in Sends : s.told[m] = "ok" => delivered'[m] > 0
  <2>1. TAKE m \in Sends
  <2>2. CASE told[m] = "ok"
    <3>1. delivered[m] > 0 /\ delivered[m] \in Nat
      BY <2>2 DEF LInv, OkMeansDelivered
    <3>2. delivered'[m] \in Nat /\ delivered'[m] >= delivered[m]
      BY <1>17
    <3>3. QED
      BY <3>1, <3>2
  <2>3. CASE k.act = "stream" /\ Success(code) /\ m = k.send
    BY <1>10, <1>17, <2>3
  <2>4. QED
    BY <1>16, <2>2, <2>3
<1>19. QED
  BY <1>7, <1>16, <1>17, <1>18, StepFine

LEMMA InitFine == Init => LInv
<1> SUFFICES ASSUME Init PROVE LInv
  OBVIOUS
<1>1. MaxClients \in Nat
  BY SmtpAssumption
<1>2. NewClient \in ClientRecs
  <2>1. <<>> \in Seq(Cmds)
    OBVIOUS
  <2>2. QED
    BY <2>1 DEF NewClient, ClientRecs, Sockets, Actions, Senders, Transactions
<1>3. Lined(NewClient) /\ Unused(NewClient)
  BY DEF NewClient, Lined, Unused, Steps
<1>4. client \in [Clients -> ClientRecs] /\ \A c \in Clients : client[c] = NewClient
  BY <1>2 DEF Init
<1> HIDE DEF NewClient
<1>5. Now \in States(taken)
  <2>1. free \in Seq(Clients) /\ waiting \in Seq([send : Sends, n : Nat]) /\ busy \in SUBSET Clients
        /\ woken \in SUBSET (Sends \ taken)
    BY DEF Init
  <2>2. told \in [Sends -> {"no", "ok", "failed"}] /\ answers \in [Sends -> Nat]
    BY DEF Init
  <2>3. QED
    BY <1>4, <2>1, <2>2 DEF Now, States
<1>6. made \in 0..MaxClients /\ DOMAIN free = {} /\ busy \subseteq 1..made
  BY <1>1 DEF Init
<1>7. Fine(Now, made, taken)
  BY <1>3, <1>4, <1>5, <1>6 DEF Fine, Now
<1>8. waits \in [Sends -> Nat] /\ delivered \in [Sends -> Nat] /\ OkMeansDelivered
  BY DEF Init, OkMeansDelivered
<1>9. QED
  BY <1>7, <1>8 DEF LInv

LEMMA NextFine ==
  ASSUME LInv, [Next]_vars
  PROVE  LInv'
<1>1. CASE Next
  <2>1. ASSUME NEW m \in Sends, SendMailMessage(m) \/ Resume(m)
        PROVE  LInv'
    BY <2>1, SendsFine
  <2>2. ASSUME NEW c \in Clients, NEW code \in ReplyCodes, Reply(c, code)
        PROVE  LInv'
    BY <2>2, ReplyFine
  <2>3. ASSUME NEW c \in Clients, Opened(c) \/ ErrorInfo(c) \/ QuitTimer(c)
        PROVE  LInv'
    BY <2>3, OpenedFine, ErrorInfoFine, QuitTimerFine
  <2>4. ASSUME NEW c \in Clients, NEW again \in BOOLEAN,
               Closed(c, again) \/ StaleClosed(c, again) \/ AuthRejected(c, again)
        PROVE  LInv'
    BY <2>4, ClosedFine, StaleClosedFine, AuthRejectedFine
  <2>5. ASSUME NEW c \in Clients, NEW accepted \in BOOLEAN,
               HangUp(c, accepted) \/ \E tls \in BOOLEAN : SocketError(c, tls, accepted)
        PROVE  LInv'
    BY <2>5, HangUpFine, SocketErrorFine
  <2>6. QED
    BY <1>1, <2>1, <2>2, <2>3, <2>4, <2>5 DEF Next, Step, ReplyCodes
<1>2. CASE UNCHANGED vars
  <2>1. Now' = Now
    BY <1>2 DEF vars, Now
  <2>2. Fine(Now', made', taken')
    BY <1>2, <2>1 DEF vars, LInv
  <2>3. QED
    BY <1>2, <2>2 DEF vars, LInv, OkMeansDelivered
<1>3. QED
  BY <1>1, <1>2

\* The invariant of the wires: on an open connection the client's step waits for the
\* last command sent; a reply of the previous send may be due before it, and then a
\* second MAIL is refused, a QUIT closes the connection or the 354 of a DATA is no
\* answer to the step, before onready and ondone can be told anything wrong.
THEOREM SmtpLines == Spec => []LInv
<1>1. LInv /\ [Next]_vars => LInv'
  BY NextFine
<1>2. QED
  BY <1>1, InitFine, PTL DEF Spec

\* For any number of messages, clients and connections and any faults: a send whose
\* ondone was called with NS_OK has had its message accepted by the server, although a
\* client that _free gave back too early sends the MAIL of the next message behind the
\* commands of the one before.
THEOREM SmtpOkMeansDelivered == Spec => []OkMeansDelivered
<1>1. LInv => OkMeansDelivered
  BY DEF LInv
<1>2. QED
  BY <1>1, SmtpLines, PTL

-----------------------------------------------------------------------------
(* The pool holds idle clients, as long as nothing happens to an open      *)
(* connection but that commands and logins are refused.  A refused command *)
(* ends with close, a login may end by the server hanging up; then the     *)
(* client is busy until the close event, and the user must not answer      *)
(* "Retry", for _onClose frees the client before _onAuthFailed asks.       *)

Orderly ==
    /\ Faults \subseteq {"perm", "auth", "refused", "authStep", "authHangup"}
    /\ MaxPrompts = 0 \/ Faults \cap {"authStep", "authHangup"} = {}

\* How far the server is when it gets the command of a step.
Reached(act) ==
    CASE act = "rcpt" -> "mail"
      [] act = "data" -> "rcpt"
      [] act = "stream" -> "data"
      [] OTHER -> "none"

\* The client waits for the answer to one command, that of its step.
Exchange(k) ==
    /\ k.act \in {"hello", "login"} \cup Steps
    /\ k.wire = <<Cmd(Sent(k.act), k.send)>>
    /\ k.tx = Reached(k.act)
    /\ IF k.act \in Steps THEN ~k.auth ELSE k.fresh

\* A busy client; its send has been answered once the client closes the socket, and is
\* answered by the close event when the server hung up on a login.
Serves(k, ans) ==
    /\ ~k.freed /\ k.send \in Sends
    /\ \/ k.sock = "connecting" /\ k.fresh
       \/ k.sock = "open" /\ Exchange(k)
       \/ k.sock = "closing" /\ ans[k.send] > 0
       \/ k.sock = "gone" /\ k.auth

\* A free client.
Rests(k, ans) ==
    /\ k.freed /\ k.send \in Sends /\ ans[k.send] > 0
    /\ \/ k.sock = "closed"
       \/ k.sock = "open" /\ k.act = "idle" /\ k.wire = <<>> /\ k.tx = "none" /\ ~k.auth

\* A client that is not made yet, or that reached its limit of messages.
Retired(k) ==
    \/ k.sock = "closed"
    \/ /\ k.freed /\ ~k.auth
       /\ \/ k.sock = "closing"
          \/ k.sock = "open" /\ k.act = "close" /\ k.wire = <<Cmd("quit", k.send)>>

Steady(k) ==
    /\ k.stale = 0 /\ ~k.failing
    /\ k.auth => MaxPrompts = 0 \/ (k.sock = "open" /\ k.act = "login")

InFree(s, c) == \E i \in DOMAIN s.free : s.free[i] = c

Place(s, c) ==
    /\ Steady(s.client[c])
    /\ c \in s.busy => Serves(s.client[c], s.answers)
    /\ InFree(s, c) => Rests(s.client[c], s.answers)
    /\ c \in s.busy \/ InFree(s, c) \/ Retired(s.client[c])

\* No client is in the pool twice.
Apart(s) ==
    /\ \A i, j \in DOMAIN s.free : s.free[i] = s.free[j] => i = j
    /\ \A i \in DOMAIN s.free : s.free[i] \notin s.busy

Whole(s) == Apart(s) /\ \A c \in Clients : Place(s, c)

\* The same in the middle of a handler for client c.
Others(s, c) ==
    /\ s \in States(taken) /\ c \in Clients
    /\ Apart(s)
    /\ \A d \in Clients \ {c} : Place(s, d)

FInv == Whole(Now)

\* What changes of the pool when a client is given back.
GivenBack(s, s2, c, k) ==
    /\ c \notin s2.busy /\ s2.answers = s.answers
    /\ \/ InFree(s2, c) /\ s2.client[c] = k
       \/ ~InFree(s2, c) /\ s2.client[c] = Quit(k)

-----------------------------------------------------------------------------
(* The handlers.                                                           *)

\* Nothing but the answers has changed for client d.
LEMMA PlaceKept ==
  ASSUME NEW tk, NEW s \in States(tk), NEW tk2, NEW s2 \in States(tk2), NEW d \in Clients,
         Place(s, d), s2.client[d] = s.client[d], d \in s2.busy <=> d \in s.busy,
         InFree(s2, d) <=> InFree(s, d), \A m \in Sends : s2.answers[m] >= s.answers[m]
  PROVE  Place(s2, d)
<1> DEFINE k == s.client[d]
<1>1. s.answers \in [Sends -> Nat] /\ s2.answers \in [Sends -> Nat]
  BY DEF States
<1>2. Serves(k, s.answers) => Serves(k, s2.answers)
  BY <1>1 DEF Serves
<1>3. Rests(k, s.answers) => Rests(k, s2.answers)
  BY <1>1 DEF Rests
<1>4. QED
  BY <1>2, <1>3 DEF Place

LEMMA OthersKept ==
  ASSUME NEW s, NEW c, Others(s, c), NEW s2 \in States(taken), s2.free = s.free,
         s2.busy = s.busy, \A m \in Sends : s2.answers[m] >= s.answers[m],
         \A d \in Clients \ {c} : s2.client[d] = s.client[d]
  PROVE  Others(s2, c)
<1>1. Apart(s2) /\ \A d \in Clients : InFree(s2, d) <=> InFree(s, d)
  BY DEF Others, Apart, InFree
<1>2. \A d \in Clients \ {c} : Place(s2, d)
  BY <1>1, PlaceKept DEF Others
<1>3. QED
  BY <1>1, <1>2 DEF Others

LEMMA OthersWhole ==
  ASSUME NEW s, NEW c, Others(s, c), Place(s, c)
  PROVE  s \in States(taken) /\ Whole(s)
  BY DEF Others, Whole

LEMMA WholeOthers ==
  ASSUME NEW s \in States(taken), NEW c \in Clients, Whole(s)
  PROVE  /\ Others(s, c) /\ Place(s, c) /\ s.client[c] \in ClientRecs
         /\ c \in s.busy => ~InFree(s, c)
  BY DEF Others, Whole, States, Apart, InFree

LEMMA SetOthers ==
  ASSUME NEW s, NEW c, Others(s, c), NEW k \in ClientRecs
  PROVE  LET s2 == Set(s, c, k)
         IN  /\ Others(s2, c) /\ s2.client[c] = k /\ s2.free = s.free /\ s2.busy = s.busy
             /\ s2.answers = s.answers /\ (InFree(s2, c) <=> InFree(s, c))
<1> DEFINE s2 == Set(s, c, k)
<1>1. s \in States(taken) /\ c \in Clients
  BY DEF Others
<1>2. /\ s2 \in States(taken) /\ s2.client[c] = k /\ s2.free = s.free /\ s2.busy = s.busy
      /\ \A d \in Clients : d # c => s2.client[d] = s.client[d]
  BY <1>1, SetFields
<1>3. s2.answers = s.answers
  BY <1>1 DEF Set, States
<1> HIDE DEF s2
<1>4. \A m \in Sends : s2.answers[m] >= s.answers[m]
  BY <1>1, <1>3 DEF States
<1>5. Others(s2, c)
  BY <1>2, <1>4, OthersKept
<1>6. QED
  BY <1>2, <1>3, <1>5 DEF InFree, s2

LEMMA TellOthers ==
  ASSUME NEW s, NEW c, Others(s, c), NEW what \in {"ok", "failed"}
  PROVE  LET s2 == Tell(s, c, what)
             m == s.client[c].send
         IN  /\ Others(s2, c) /\ s2.client = s.client /\ s2.free = s.free /\ s2.busy = s.busy
             /\ m \in Sends => s2.answers[m] > 0
             /\ \A n \in Sends : s2.answers[n] >= s.answers[n]
             /\ InFree(s2, c) <=> InFree(s, c)
<1> DEFINE s2 == Tell(s, c, what)
           n == s.client[c].send
<1>1. s \in States(taken) /\ c \in Clients
  BY DEF Others
<1>2. s2 \in States(taken) /\ s2.client = s.client /\ s2.free = s.free /\ s2.busy = s.busy
  BY <1>1, TellSame
<1>3. s.answers \in [Sends -> Nat] /\ NoSend \notin Sends
  BY <1>1, SmtpAssumption DEF States
<1>4. s2.answers = IF n = NoSend THEN s.answers ELSE [s.answers EXCEPT ![n] = @ + 1]
  BY <1>1 DEF Tell, States
<1> HIDE DEF s2, n
<1>5. \A m \in Sends : s2.answers[m] >= s.answers[m] /\ (m = n => s2.answers[m] > 0)
  BY <1>3, <1>4
<1>6. Others(s2, c)
  BY <1>2, <1>5, OthersKept
<1>7. QED
  BY <1>2, <1>5, <1>6 DEF InFree, s2, n

\* onFree.
LEMMA OnFreeOthers ==
  ASSUME NEW s, NEW c, Others(s, c), c \in s.busy
  PROVE  Others(OnFree(s, c), c) /\ GivenBack(s, OnFree(s, c), c, s.client[c])
<1> DEFINE b == s.busy \ {c}
           f == Append(s.free, c)
           k == s.client[c]
           o == OnFree(s, c)
<1>1. /\ s \in States(taken) /\ c \in Clients /\ k \in ClientRecs /\ s.free \in Seq(Clients)
      /\ Apart(s) /\ ~InFree(s, c) /\ s.answers \in [Sends -> Nat]
  BY DEF Others, States, Apart, InFree
<1>2. b \in SUBSET Clients /\ f \in Seq(Clients) /\ c \notin b
  BY <1>1 DEF States
<1>3. ASSUME NEW s2 \in States(taken), s2.busy = b, s2.answers = s.answers,
             s2.free \in {s.free, f}, \A d \in Clients : d # c => s2.client[d] = s.client[d]
      PROVE  Others(s2, c)
  <2>1. /\ DOMAIN f = 1..(Len(s.free) + 1) /\ DOMAIN s.free = 1..Len(s.free) /\ Len(s.free) \in Nat
        /\ f[Len(s.free) + 1] = c
        /\ \A i \in DOMAIN s.free : f[i] = s.free[i] /\ s.free[i] # c
    BY <1>1 DEF InFree
  <2>2. Apart(s2)
    <3>1. CASE s2.free = s.free
      BY <1>1, <1>3, <3>1 DEF Apart
    <3>2. CASE s2.free = f
      <4>1. \A i \in DOMAIN f : i \in DOMAIN s.free \/ i = Len(s.free) + 1
        BY <2>1
      <4> HIDE DEF f
      <4>2. \A i, j \in DOMAIN f : f[i] = f[j] => i = j
        BY <1>1, <2>1, <4>1 DEF Apart
      <4>3. \A i \in DOMAIN f : f[i] \notin b
        BY <1>1, <2>1, <4>1 DEF Apart
      <4>4. QED
        BY <1>3, <3>2, <4>2, <4>3 DEF Apart
    <3>3. QED
      BY <1>3, <3>1, <3>2
  <2>3. \A d \in Clients \ {c} : InFree(s2, d) <=> InFree(s, d)
    BY <1>3, <2>1 DEF InFree
  <2>4. \A m \in Sends : s2.answers[m] >= s.answers[m]
    BY <1>1, <1>3
  <2>5. \A d \in Clients \ {c} : Place(s2, d)
    BY <1>1, <1>3, <2>3, <2>4, PlaceKept DEF Others
  <2>6. QED
    BY <1>1, <2>2, <2>5 DEF Others
<1>4. CASE ~k.reuse
  <2> DEFINE s1 == [s EXCEPT !.busy = b]
             k2 == Quit(k)
             s2 == Set(s1, c, k2)
  <2>1. o = s2
    BY <1>4 DEF OnFree, Set, States
  <2> HIDE DEF b
  <2>2. /\ s1 \in States(taken) /\ s1.client = s.client /\ s1.free = s.free /\ s1.busy = b
        /\ s1.answers = s.answers
    BY <1>1, <1>2 DEF States
  <2> HIDE DEF s1
  <2>3. k2 \in ClientRecs
    BY <1>1, QuitReady
  <2> HIDE DEF k2
  <2>4. /\ s2 \in States(taken) /\ s2.client[c] = k2 /\ s2.free = s.free /\ s2.busy = b
        /\ \A d \in Clients : d # c => s2.client[d] = s.client[d]
    BY <1>1, <2>2, <2>3, SetFields
  <2>5. s2.answers = s.answers
    BY <2>2 DEF Set, States
  <2> HIDE DEF s2, f
  <2>6. Others(s2, c) /\ GivenBack(s, s2, c, k)
    BY <1>1, <1>2, <1>3, <2>4, <2>5 DEF GivenBack, InFree, k2
  <2>7. QED
    BY <2>1, <2>6
<1>5. CASE k.reuse
  <2> DEFINE s1 == [s EXCEPT !.busy = b, !.free = f]
             s2 == WakeFirst(s1)
  <2>1. o = s2
    BY <1>5 DEF OnFree, States
  <2>2. Len(s.free) + 1 \in DOMAIN f /\ f[Len(s.free) + 1] = c
    BY <1>1
  <2> HIDE DEF b, f
  <2>3. /\ s1 \in States(taken) /\ s1.client = s.client /\ s1.free = f /\ s1.busy = b
        /\ s1.answers = s.answers
    BY <1>1, <1>2 DEF States
  <2> HIDE DEF s1
  <2>4. /\ s2 \in States(taken) /\ s2.client = s1.client /\ s2.free = s1.free /\ s2.busy = s1.busy
    BY <2>3, WakeFirstSame
  <2>5. s2.answers = s1.answers
    BY <2>3 DEF WakeFirst, States
  <2> HIDE DEF s2
  <2>6. Others(s2, c) /\ GivenBack(s, s2, c, k)
    BY <1>2, <1>3, <2>2, <2>3, <2>4, <2>5 DEF GivenBack, InFree
  <2>7. QED
    BY <2>1, <2>6
<1>6. QED
  BY <1>4, <1>5

\* _free
LEMMA FreeOthers ==
  ASSUME NEW s, NEW c, Others(s, c), c \in s.busy, ~s.client[c].freed
  PROVE  /\ Others(Free(s, c), c)
         /\ GivenBack(s, Free(s, c), c, [s.client[c] EXCEPT !.freed = TRUE])
<1> DEFINE k2 == [s.client[c] EXCEPT !.freed = TRUE]
           s1 == Set(s, c, k2)
<1>1. s \in States(taken) /\ c \in Clients /\ s.client[c] \in ClientRecs
  BY DEF Others, States
<1>2. Free(s, c) = OnFree(s1, c)
  <2>1. [s EXCEPT !.client[c].freed = TRUE] = s1
    BY <1>1 DEF Set, States
  <2>2. QED
    BY <2>1, Zenon DEF Free
<1>3. k2 \in ClientRecs
  BY <1>1, FreedReady
<1> HIDE DEF k2
<1>4. Others(s1, c) /\ s1.client[c] = k2 /\ s1.busy = s.busy /\ s1.answers = s.answers
  BY <1>3, SetOthers
<1> HIDE DEF s1
<1>5. Others(OnFree(s1, c), c) /\ GivenBack(s1, OnFree(s1, c), c, k2)
  BY <1>4, OnFreeOthers
<1>6. QED
  BY <1>2, <1>4, <1>5 DEF GivenBack, k2

LEMMA OneCmd ==
  ASSUME NEW x \in Cmds
  PROVE  LET w == <<x>>
         IN  /\ w \in Seq(Cmds) /\ w # <<>> /\ Head(w) = x /\ Tail(w) = <<>>
             /\ Append(<<>>, x) = w
  OBVIOUS

\* _onNsError for a refusal that is not temporary, on an open connection.
LEMMA NsErrorWhole ==
  ASSUME NEW s, NEW c, Others(s, c), c \in s.busy, s.client[c].sock = "open",
         ~s.client[c].freed, s.client[c].send \in Sends, s.client[c].stale = 0,
         ~s.client[c].failing, s.client[c].auth => MaxPrompts = 0
  PROVE  NsError(s, c, FALSE) \in States(taken) /\ Whole(NsError(s, c, FALSE))
<1> DEFINE k == s.client[c]
           s1 == Tell(s, c, "failed")
           e == <<>>
           k2 == [k EXCEPT !.sock = "closing", !.wire = e]
           s2 == Set(s1, c, k2)
<1>1. s \in States(taken) /\ c \in Clients /\ k \in ClientRecs /\ ~InFree(s, c)
  BY DEF Others, States, Apart, InFree
<1>2. /\ Others(s1, c) /\ s1.client = s.client /\ s1.free = s.free /\ s1.busy = s.busy
      /\ s1.answers[k.send] > 0 /\ ~InFree(s1, c)
  BY <1>1, TellOthers
<1>3. NsError(s, c, FALSE) = Close(s1, c)
  BY DEF NsError, Retries
<1> HIDE DEF s1
<1>4. Close(s1, c) = s2
  BY <1>1, <1>2 DEF Close, Open, Set, States, Others
<1>5. e \in Seq(Cmds)
  OBVIOUS
<1> HIDE DEF e
<1>6. /\ k2 \in ClientRecs /\ k2.sock = "closing" /\ k2.freed = k.freed /\ k2.send = k.send
      /\ k2.stale = k.stale /\ k2.failing = k.failing /\ k2.auth = k.auth
  BY <1>1, <1>5 DEF ClientRecs, Sockets
<1> HIDE DEF k2
<1>7. /\ Others(s2, c) /\ s2.client[c] = k2 /\ s2.busy = s.busy /\ s2.answers = s1.answers
      /\ ~InFree(s2, c)
  BY <1>2, <1>6, SetOthers
<1> HIDE DEF s2
<1>8. Place(s2, c)
  BY <1>2, <1>6, <1>7 DEF Place, Steady, Serves
<1>9. QED
  BY <1>3, <1>4, <1>7, <1>8, OthersWhole

\* The client sends the command of step act.
LEMMA AskServes ==
  ASSUME NEW k \in ClientRecs, NEW act \in {"login"} \cup Steps, NEW ans,
         k.sock = "open", k.wire = <<>>, ~k.freed, k.send \in Sends, k.stale = 0, ~k.failing,
         k.tx = Reached(act), IF act \in Steps THEN ~k.auth ELSE k.fresh
  PROVE  LET k2 == SendCmd([k EXCEPT !.act = act], Sent(act))
         IN  k2 \in ClientRecs /\ Steady(k2) /\ Serves(k2, ans)
<1> DEFINE x == Cmd(Sent(act), k.send)
           w == <<x>>
           k1 == [k EXCEPT !.act = act]
           k2 == [k1 EXCEPT !.wire = w]
<1>1. x \in Cmds /\ Sent(act) \in Names
  BY CmdType DEF Sent, Names, Steps, Senders
<1> HIDE DEF x
<1>2. /\ k1 \in ClientRecs /\ k1.act = act /\ k1.sock = "open" /\ k1.wire = <<>>
      /\ k1.freed = k.freed /\ k1.send = k.send /\ k1.stale = 0 /\ k1.failing = k.failing
      /\ k1.tx = k.tx /\ k1.auth = k.auth /\ k1.fresh = k.fresh
  BY DEF ClientRecs, Actions, Steps
<1> HIDE DEF k1
<1>3. Append(<<>>, x) = w /\ w \in Seq(Cmds)
  BY <1>1, OneCmd
<1>4. SendCmd(k1, Sent(act)) = k2
  BY <1>2, <1>3 DEF SendCmd, ClientRecs, x
<1> HIDE DEF w
<1>5. /\ k2 \in ClientRecs /\ k2.act = act /\ k2.sock = "open" /\ k2.wire = w
      /\ k2.freed = k.freed /\ k2.send = k.send /\ k2.stale = 0 /\ k2.failing = k.failing
      /\ k2.tx = k.tx /\ k2.auth = k.auth /\ k2.fresh = k.fresh
  BY <1>2, <1>3 DEF ClientRecs
<1> HIDE DEF k2
<1>6. Exchange(k2)
  BY <1>5 DEF Exchange, w, x
<1>7. Steady(k2)
  BY <1>5 DEF Steady
<1>8. Serves(k2, ans)
  BY <1>5, <1>6 DEF Serves
<1>9. QED
  BY <1>4, <1>5, <1>7, <1>8 DEF k1

\* onidle of a new send.
LEMMA OnIdleServes ==
  ASSUME NEW k \in ClientRecs, k.fresh, k.sock = "open", k.wire = <<>>, k.send \in Sends,
         k.stale = 0, ~k.failing, k.tx = "none", ~k.auth
  PROVE  LET k2 == OnIdle(k)
         IN  /\ k2 \in ClientRecs /\ k2.sock = "open" /\ Exchange(k2) /\ k2.freed = k.freed
             /\ k2.send = k.send /\ Steady(k2) /\ ~k2.auth
<1> DEFINE x == Cmd("mail", k.send)
           w == <<x>>
           k2 == [k EXCEPT !.wire = w, !.fresh = FALSE, !.act = "mail", !.timer = FALSE]
<1>1. x \in Cmds
  BY CmdType DEF Names, Senders
<1> HIDE DEF x
<1>2. Append(<<>>, x) = w /\ w \in Seq(Cmds)
  BY <1>1, OneCmd
<1>3. OnIdle(k) = k2
  BY <1>2 DEF OnIdle, SendCmd, ClientRecs, x
<1> HIDE DEF w
<1>4. /\ k2 \in ClientRecs /\ k2.act = "mail" /\ k2.sock = "open" /\ k2.wire = w
      /\ k2.freed = k.freed /\ k2.send = k.send /\ k2.stale = 0 /\ k2.failing = k.failing
      /\ k2.tx = "none" /\ k2.auth = k.auth
  BY <1>2 DEF ClientRecs, Actions
<1> HIDE DEF k2
<1>5. Exchange(k2)
  BY <1>4 DEF Exchange, w, x, Sent, Steps, Reached
<1>6. QED
  BY <1>3, <1>4, <1>5 DEF Steady

\* A client that is free or new is given to send m.
LEMMA ConnectServes ==
  ASSUME NEW k \in ClientRecs, NEW m \in Sends, NEW ans, Steady(k),
         \/ k.sock = "closed"
         \/ k.sock = "open" /\ k.act = "idle" /\ k.wire = <<>> /\ k.tx = "none" /\ ~k.auth
  PROVE  LET k2 == Connect([k EXCEPT !.send = m, !.fresh = TRUE])
         IN  k2 \in ClientRecs /\ Steady(k2) /\ Serves(k2, ans)
<1> DEFINE k1 == [k EXCEPT !.send = m, !.fresh = TRUE]
<1>1. /\ k1 \in ClientRecs /\ k1.send = m /\ k1.fresh = TRUE /\ k1.sock = k.sock
      /\ k1.wire = k.wire /\ k1.stale = k.stale /\ k1.failing = k.failing /\ k1.tx = k.tx
      /\ k1.auth = k.auth
  BY DEF ClientRecs, Senders
<1> HIDE DEF k1
<1>2. CASE k.sock = "closed"
  <2> DEFINE e == <<>>
             k2 == [k1 EXCEPT !.sock = "connecting", !.wire = e, !.sent = 0, !.freed = FALSE]
  <2>1. e \in Seq(Cmds)
    OBVIOUS
  <2>2. Connect(k1) = k2
    BY <1>1, <1>2 DEF Connect, Open, ClientRecs
  <2> HIDE DEF e
  <2>3. /\ k2 \in ClientRecs /\ k2.sock = "connecting" /\ k2.fresh = TRUE /\ k2.freed = FALSE
        /\ k2.send = m /\ k2.stale = k.stale /\ k2.failing = k.failing /\ k2.auth = k.auth
    BY <1>1, <2>1 DEF ClientRecs, Sockets
  <2> HIDE DEF k2
  <2>4. Steady(k2) /\ Serves(k2, ans)
    BY <1>2, <2>3 DEF Steady, Serves
  <2>5. QED
    BY <2>2, <2>3, <2>4 DEF k1
<1>3. CASE k.sock = "open" /\ k.act = "idle" /\ k.wire = <<>> /\ k.tx = "none" /\ ~k.auth
  <2> DEFINE k3 == OnIdle(k1)
             k2 == [k3 EXCEPT !.freed = FALSE]
  <2>1. /\ k3 \in ClientRecs /\ k3.sock = "open" /\ Exchange(k3) /\ k3.send = m /\ Steady(k3)
        /\ ~k3.auth
    BY <1>1, <1>3, OnIdleServes DEF Steady
  <2>2. Connect(k1) = k2
    BY <1>1, <1>3 DEF Connect, Open
  <2> HIDE DEF k3
  <2>3. /\ k2 \in ClientRecs /\ k2.sock = "open" /\ k2.freed = FALSE /\ k2.send = m
        /\ k2.stale = k3.stale /\ k2.failing = k3.failing /\ k2.auth = k3.auth
        /\ k2.act = k3.act /\ k2.wire = k3.wire /\ k2.tx = k3.tx /\ k2.fresh = k3.fresh
    BY <2>1 DEF ClientRecs
  <2> HIDE DEF k2
  <2>4. Exchange(k2)
    BY <2>1, <2>3 DEF Exchange
  <2>5. Steady(k2) /\ Serves(k2, ans)
    BY <2>1, <2>3, <2>4 DEF Steady, Serves
  <2>6. QED
    BY <2>2, <2>3, <2>5 DEF k1
<1>4. QED
  BY <1>2, <1>3

LEMMA QuitFields ==
  ASSUME NEW k \in ClientRecs
  PROVE  LET q == Quit(k)
         IN  /\ q \in ClientRecs /\ q.sock = k.sock /\ q.freed = k.freed /\ q.send = k.send
             /\ q.auth = FALSE /\ q.act = "close" /\ q.stale = k.stale /\ q.failing = k.failing
             /\ k.wire = <<>> =>
                  q.wire = IF k.sock = "open" THEN <<Cmd("quit", k.send)>> ELSE <<>>
<1> DEFINE x == Cmd("quit", k.send)
           w == IF k.sock = "open" THEN Append(k.wire, x) ELSE k.wire
           k2 == [k EXCEPT !.wire = w, !.auth = FALSE, !.act = "close"]
<1>1. w \in Seq(Cmds) /\ SendCmd(k, "quit") = [k EXCEPT !.wire = w]
  BY SendCmdFields DEF Names
<1>2. x \in Cmds
  BY CmdType DEF ClientRecs, Names
<1> HIDE DEF x
<1>3. k.wire = <<>> => w = IF k.sock = "open" THEN <<x>> ELSE <<>>
  BY <1>2, OneCmd
<1> HIDE DEF w
<1>4. Quit(k) = k2
  BY <1>1 DEF Quit, ClientRecs
<1>5. /\ k2 \in ClientRecs /\ k2.wire = w /\ k2.auth = FALSE /\ k2.act = "close"
      /\ k2.sock = k.sock /\ k2.send = k.send /\ k2.freed = k.freed
      /\ k2.stale = k.stale /\ k2.failing = k.failing
  BY <1>1 DEF ClientRecs, Actions
<1>6. QED
  BY <1>3, <1>4, <1>5 DEF x

\* The fields of a socket.
LEMMA SocketFields ==
  ASSUME NEW k \in ClientRecs, NEW sock \in Sockets
  PROVE  LET q == [k EXCEPT !.sock = sock, !.wire = <<>>]
         IN  /\ q \in ClientRecs /\ q.sock = sock /\ q.wire = <<>> /\ q.freed = k.freed
             /\ q.send = k.send /\ q.auth = k.auth /\ q.act = k.act /\ q.stale = k.stale
             /\ q.failing = k.failing
<1> DEFINE e == <<>>
           q == [k EXCEPT !.sock = sock, !.wire = e]
<1>1. e \in Seq(Cmds)
  OBVIOUS
<1> HIDE DEF e
<1>2. /\ q \in ClientRecs /\ q.sock = sock /\ q.wire = e /\ q.freed = k.freed
      /\ q.send = k.send /\ q.auth = k.auth /\ q.act = k.act /\ q.stale = k.stale
      /\ q.failing = k.failing
  BY <1>1 DEF ClientRecs
<1>3. QED
  BY <1>2 DEF e

-----------------------------------------------------------------------------
(* The actions.                                                            *)

LEMMA NowWhole ==
  ASSUME FInv, LInv, NEW c \in Clients
  PROVE  /\ Others(Now, c) /\ Place(Now, c) /\ client[c] \in ClientRecs
         /\ Now.client = client /\ Now.busy = busy /\ Now.free = free /\ Now.answers = answers
         /\ c \in busy => ~InFree(Now, c)
         /\ Steady(client[c])
<1>1. /\ Now.client = client /\ Now.busy = busy /\ Now.free = free /\ Now.answers = answers
  BY DEF Now
<1>2. Now \in States(taken)
  BY InUse
<1>3. QED
  BY <1>1, <1>2, WholeOthers DEF FInv, Place

LEMMA WholeStep ==
  ASSUME NEW s \in States(taken), Whole(s), Become(s)
  PROVE  FInv'
<1>1. Now' = s
  BY BecomeNow
<1>2. Whole(Now')
  BY <1>1
<1>3. QED
  BY <1>2 DEF FInv

\* A client that waits for something is busy.
LEMMA Serving ==
  ASSUME FInv, LInv, NEW c \in Clients,
         \/ client[c].sock \in {"connecting", "gone"}
         \/ client[c].sock = "open" /\ client[c].wire # <<>> /\ client[c].act # "close"
  PROVE  c \in busy /\ Serves(client[c], answers)
  BY NowWhole DEF Place, Rests, Retired

LEMMA OpenedWhole ==
  ASSUME FInv, LInv, NEW c \in Clients, Opened(c)
  PROVE  FInv'
<1> DEFINE k == client[c]
           x == Cmd("hello", k.send)
           w == <<x>>
           k2 == [k EXCEPT !.sock = "open", !.act = "hello", !.tx = "none", !.wire = w]
           s == Set(Now, c, k2)
<1>1. k.sock = "connecting" /\ Become(s)
  BY DEF Opened
<1>2. /\ Others(Now, c) /\ k \in ClientRecs /\ Steady(k) /\ Now.busy = busy /\ ~InFree(Now, c)
      /\ c \in busy /\ k.fresh /\ ~k.freed /\ k.send \in Sends
  BY <1>1, NowWhole, Serving DEF Serves
<1>3. w \in Seq(Cmds)
  BY <1>2, CmdType, OneCmd DEF Names, Senders
<1> HIDE DEF w
<1>4. /\ k2 \in ClientRecs /\ k2.sock = "open" /\ k2.act = "hello" /\ k2.tx = "none"
      /\ k2.wire = w /\ k2.fresh = k.fresh /\ k2.freed = k.freed /\ k2.send = k.send
      /\ k2.stale = k.stale /\ k2.failing = k.failing /\ k2.auth = k.auth
  BY <1>2, <1>3 DEF ClientRecs, Sockets, Actions, Transactions
<1> HIDE DEF k2
<1>5. Others(s, c) /\ s.client[c] = k2 /\ s.busy = busy /\ ~InFree(s, c)
  BY <1>2, <1>4, SetOthers
<1>6. Exchange(k2)
  BY <1>2, <1>4 DEF Exchange, Steps, Sent, Reached, w
<1>7. Steady(k2)
  BY <1>1, <1>2, <1>4 DEF Steady
<1> HIDE DEF s
<1>8. Place(s, c)
  BY <1>2, <1>4, <1>5, <1>6, <1>7 DEF Place, Serves
<1>9. QED
  BY <1>1, <1>5, <1>8, OthersWhole, WholeStep

\* The server hangs up on a login.
LEMMA HangUpWhole ==
  ASSUME Orderly, FInv, LInv, NEW c \in Clients, NEW accepted, HangUp(c, accepted)
  PROVE  FInv'
<1> DEFINE k == client[c]
<1>1. k.sock = "open" /\ k.auth /\ MaxPrompts = 0
  BY DEF HangUp, Orderly
<1>2. /\ Others(Now, c) /\ Place(Now, c) /\ k \in ClientRecs /\ Steady(k) /\ Now.client = client
      /\ Now.busy = busy /\ Now.answers = answers /\ (c \in busy => ~InFree(Now, c))
  BY NowWhole
<1>3. c \in busy /\ Serves(k, answers)
  BY <1>1, <1>2 DEF Place, Rests, Retired
<1>4. k.act # "idle"
  BY <1>1, <1>3 DEF Serves, Exchange, Steps
<1> DEFINE k2 == [k EXCEPT !.sock = "gone", !.wire = <<>>]
           s == Set(Now, c, k2)
<1>5. Become(s)
  BY <1>4 DEF HangUp
<1>6. /\ k2 \in ClientRecs /\ k2.sock = "gone" /\ k2.freed = k.freed /\ k2.send = k.send
      /\ k2.auth = k.auth /\ k2.stale = k.stale /\ k2.failing = k.failing
  BY <1>2, SocketFields DEF Sockets
<1> HIDE DEF k2
<1>7. Others(s, c) /\ s.client[c] = k2 /\ s.busy = busy /\ ~InFree(s, c)
  BY <1>2, <1>3, <1>6, SetOthers
<1> HIDE DEF s
<1>8. Place(s, c)
  BY <1>1, <1>2, <1>3, <1>6, <1>7 DEF Place, Serves, Steady
<1>9. QED
  BY <1>5, <1>7, <1>8, OthersWhole, WholeStep

\* The close event of a connection.
LEMMA ClosedWhole ==
  ASSUME FInv, LInv, IInv, NEW c \in Clients, NEW again \in BOOLEAN, Closed(c, again)
  PROVE  FInv'
<1> DEFINE k == client[c]
           k1 == [k EXCEPT !.sock = "closed", !.wire = <<>>]
           s1 == Set(Now, c, k1)
           s2 == Free(s1, c)
           s == OnClose(s1, c, again)
<1>1. k.sock \in {"gone", "closing"} /\ Prompted(k.auth, again) /\ Become(s)
  BY DEF Closed
<1>2. /\ Others(Now, c) /\ Place(Now, c) /\ k \in ClientRecs /\ Steady(k) /\ Now.client = client
      /\ Now.busy = busy /\ Now.answers = answers
  BY NowWhole
<1>3. k.auth => MaxPrompts = 0 /\ again = FALSE
  BY <1>1, <1>2 DEF Steady, Prompted, IInv
<1>4. /\ k1 \in ClientRecs /\ k1.sock = "closed" /\ k1.freed = k.freed /\ k1.send = k.send
      /\ k1.auth = k.auth /\ k1.stale = k.stale /\ k1.failing = k.failing
  BY <1>2, SocketFields DEF Sockets
<1> HIDE DEF k1
<1>5. /\ Others(s1, c) /\ s1.client[c] = k1 /\ s1.busy = busy /\ s1.answers = answers
      /\ InFree(s1, c) <=> InFree(Now, c)
  BY <1>2, <1>4, SetOthers
<1> HIDE DEF s1
<1>6. s = IF s2.client[c].auth THEN AuthFailed(s2, c, again) ELSE s2
  BY DEF OnClose
<1>7. CASE c \in busy
  <2> DEFINE kf == [k1 EXCEPT !.freed = TRUE]
  <2>1. Serves(k, answers) /\ ~k.freed /\ k.send \in Sends
    BY <1>2, <1>7 DEF Place, Serves
  <2>2. Others(s2, c) /\ GivenBack(s1, s2, c, kf)
    BY <1>4, <1>5, <1>7, <2>1, FreeOthers
  <2>3. /\ kf \in ClientRecs /\ kf.sock = "closed" /\ kf.freed = TRUE /\ kf.send = k.send
        /\ kf.auth = k.auth /\ kf.stale = k.stale /\ kf.failing = k.failing
    BY <1>4 DEF ClientRecs
  <2> HIDE DEF kf, s2
  <2>4. c \notin s2.busy /\ s2.answers = answers
    BY <1>5, <2>2 DEF GivenBack
  <2>5. CASE ~InFree(s2, c) /\ s2.client[c] = Quit(kf)
    <3>1. /\ Quit(kf).sock = "closed" /\ Quit(kf).auth = FALSE /\ Quit(kf).stale = k.stale
          /\ Quit(kf).failing = k.failing
      BY <2>3, QuitFields
    <3>2. s = s2
      BY <1>6, <2>5, <3>1
    <3>3. Place(s2, c)
      BY <1>2, <2>4, <2>5, <3>1 DEF Place, Steady, Retired
    <3>4. QED
      BY <1>1, <2>2, <3>2, <3>3, OthersWhole, WholeStep
  <2>6. CASE InFree(s2, c) /\ s2.client[c] = kf /\ ~k.auth
    <3>1. s = s2
      BY <1>6, <2>3, <2>6
    <3>2. answers[k.send] > 0
      BY <1>1, <2>1, <2>6 DEF Serves
    <3>3. Place(s2, c)
      BY <1>2, <2>1, <2>3, <2>4, <2>6, <3>2 DEF Place, Steady, Rests
    <3>4. QED
      BY <1>1, <2>2, <3>1, <3>3, OthersWhole, WholeStep
  <2>7. CASE InFree(s2, c) /\ s2.client[c] = kf /\ k.auth
    <3> DEFINE s3 == Tell(s2, c, "failed")
    <3>1. /\ Others(s3, c) /\ s3.client = s2.client /\ s3.busy = s2.busy
          /\ s3.answers[k.send] > 0 /\ InFree(s3, c)
      BY <2>1, <2>2, <2>3, <2>7, TellOthers
    <3>2. AuthFailed(s2, c, again) = Close(s3, c)
      BY <1>3, <2>7 DEF AuthFailed, NsError, Retries
    <3> HIDE DEF s3
    <3>3. Close(s3, c) = s3
      BY <2>3, <2>7, <3>1 DEF Close, Open, Free
    <3>4. s = s3
      BY <1>6, <2>3, <2>7, <3>2, <3>3
    <3>5. Place(s3, c)
      BY <1>2, <1>3, <2>1, <2>3, <2>4, <2>7, <3>1 DEF Place, Steady, Rests
    <3>6. QED
      BY <1>1, <3>1, <3>4, <3>5, OthersWhole, WholeStep
  <2>8. QED
    BY <2>2, <2>5, <2>6, <2>7 DEF GivenBack
<1>8. CASE c \notin busy
  <2>1. k.freed /\ ~k.auth /\ ~InFree(Now, c)
    BY <1>1, <1>2, <1>8 DEF Place, Rests, Retired
  <2>2. s2 = s1
    BY <1>4, <1>5, <2>1 DEF Free
  <2>3. s = s1
    BY <1>4, <1>5, <1>6, <2>1, <2>2
  <2>4. Place(s1, c)
    BY <1>2, <1>4, <1>5, <1>8, <2>1 DEF Place, Steady, Retired
  <2>5. QED
    BY <1>1, <1>5, <2>3, <2>4, OthersWhole, WholeStep
<1>9. QED
  BY <1>7, <1>8

\* No connection can be made.
LEMMA SocketErrorWhole ==
  ASSUME Orderly, FInv, LInv, NEW c \in Clients, NEW tls \in BOOLEAN, NEW accepted,
         SocketError(c, tls, accepted)
  PROVE  FInv'
<1> DEFINE k == client[c]
<1>1. ~tls /\ k.sock = "connecting"
  BY DEF SocketError, Orderly
<1>2. /\ Others(Now, c) /\ k \in ClientRecs /\ Steady(k) /\ Now.busy = busy
      /\ Now.answers = answers /\ c \in busy /\ ~k.freed /\ k.send \in Sends
  BY <1>1, NowWhole, Serving DEF Serves
<1> DEFINE k1 == [k EXCEPT !.sock = "closed", !.wire = <<>>]
           kf == [k1 EXCEPT !.freed = TRUE]
           s1 == Set(Now, c, k1)
           s2 == Free(s1, c)
           q == Quit(s2.client[c])
           k3 == [q EXCEPT !.failing = FALSE]
           s3 == Set(s2, c, k3)
           s == Tell(s3, c, "failed")
<1>3. Become(s)
  BY <1>1, <1>2 DEF SocketError
<1>4. /\ k1 \in ClientRecs /\ k1.sock = "closed" /\ k1.freed = k.freed /\ k1.send = k.send
      /\ k1.stale = k.stale /\ k1.failing = k.failing
  BY <1>2, SocketFields DEF Sockets
<1> HIDE DEF k1
<1>5. Others(s1, c) /\ s1.client[c] = k1 /\ s1.busy = busy
  BY <1>2, <1>4, SetOthers
<1> HIDE DEF s1
<1>6. Others(s2, c) /\ GivenBack(s1, s2, c, kf)
  BY <1>2, <1>4, <1>5, FreeOthers
<1>7. /\ kf \in ClientRecs /\ kf.sock = "closed" /\ kf.freed = TRUE /\ kf.send = k.send
      /\ kf.stale = k.stale
  BY <1>4 DEF ClientRecs
<1> HIDE DEF kf, s2
<1>8. LET d == s2.client[c]
      IN  d \in ClientRecs /\ d.sock = "closed" /\ d.freed = TRUE /\ d.send = k.send
          /\ d.stale = k.stale
  BY <1>6, <1>7, QuitFields DEF GivenBack
<1>9. /\ q \in ClientRecs /\ q.sock = "closed" /\ q.freed = TRUE /\ q.send = k.send
      /\ q.stale = k.stale /\ q.auth = FALSE
  BY <1>8, QuitFields
<1> HIDE DEF q
<1>10. /\ k3 \in ClientRecs /\ k3.sock = "closed" /\ k3.freed = TRUE /\ k3.send = k.send
       /\ k3.stale = k.stale /\ k3.auth = FALSE /\ k3.failing = FALSE
  BY <1>9 DEF ClientRecs
<1> HIDE DEF k3
<1>11. Others(s3, c) /\ s3.client[c] = k3 /\ s3.busy = s2.busy
  BY <1>6, <1>10, SetOthers
<1> HIDE DEF s3
<1>12. /\ Others(s, c) /\ s.client = s3.client /\ s.busy = s3.busy /\ s.answers[k.send] > 0
  BY <1>2, <1>10, <1>11, TellOthers
<1> HIDE DEF s
<1>13. c \notin s.busy
  BY <1>6, <1>11, <1>12 DEF GivenBack
<1>14. Place(s, c)
  BY <1>2, <1>10, <1>11, <1>12, <1>13 DEF Place, Steady, Rests, Retired
<1>15. QED
  BY <1>3, <1>12, <1>14, OthersWhole, WholeStep

LEMMA AuthRejectedWhole ==
  ASSUME FInv, LInv, NEW c \in Clients, NEW again \in BOOLEAN, AuthRejected(c, again)
  PROVE  FInv'
<1> DEFINE k == client[c]
           e == <<>>
           k1 == [k EXCEPT !.wire = e, !.auth = FALSE]
           s1 == Set(Now, c, k1)
<1>1. k.sock = "open" /\ k.act = "login" /\ k.wire # <<>>
  BY DEF AuthRejected
<1>2. /\ Others(Now, c) /\ k \in ClientRecs /\ Steady(k) /\ Now.busy = busy
      /\ c \in busy /\ ~k.freed /\ k.send \in Sends /\ Exchange(k) /\ ~InFree(Now, c)
  BY <1>1, NowWhole, Serving DEF Serves
<1>3. Tail(k.wire) = e /\ k.fresh /\ k.tx = "none"
  <2>1. Cmd(Sent(k.act), k.send) \in Cmds
    BY <1>1, <1>2, CmdType DEF Names, Senders, Sent
  <2>2. QED
    BY <1>1, <1>2, <2>1, OneCmd DEF Exchange, Steps, Reached
<1>4. Become(AuthFailed(s1, c, again))
  BY <1>3 DEF AuthRejected
<1>5. e \in Seq(Cmds) /\ e = <<>>
  OBVIOUS
<1> HIDE DEF e
<1>6. /\ k1 \in ClientRecs /\ k1.sock = "open" /\ k1.act = "login" /\ k1.wire = e /\ k1.auth = FALSE
      /\ k1.freed = k.freed /\ k1.send = k.send /\ k1.stale = k.stale /\ k1.failing = k.failing
      /\ k1.fresh = k.fresh /\ k1.tx = k.tx
  BY <1>1, <1>2, <1>5 DEF ClientRecs
<1> HIDE DEF k1
<1>7. Others(s1, c) /\ s1.client[c] = k1 /\ s1.busy = busy /\ ~InFree(s1, c)
  BY <1>2, <1>6, SetOthers
<1> HIDE DEF s1
<1>8. CASE again
  <2> DEFINE k2 == [k1 EXCEPT !.act = "login", !.auth = TRUE]
             k4 == [k1 EXCEPT !.auth = TRUE]
             k3 == SendCmd(k2, "login")
             s == Set(s1, c, k3)
  <2>1. AuthFailed(s1, c, again) = s
    BY <1>2, <1>6, <1>7, <1>8 DEF AuthFailed
  <2>2. /\ k4 \in ClientRecs /\ k4.sock = "open" /\ k4.wire = <<>> /\ k4.act = "login"
        /\ k4.freed = k.freed /\ k4.send = k.send /\ k4.stale = k.stale
        /\ k4.failing = k.failing /\ k4.fresh = k.fresh /\ k4.tx = k.tx
    BY <1>5, <1>6 DEF ClientRecs
  <2>3. k2 = [k4 EXCEPT !.act = "login"]
    BY <1>6 DEF ClientRecs
  <2> HIDE DEF k2, k4
  <2>4. "login" \notin Steps /\ Sent("login") = "login" /\ Reached("login") = "none"
    BY DEF Steps, Sent, Reached
  <2>5. k3 \in ClientRecs /\ Steady(k3) /\ \A ans : Serves(k3, ans)
    <3>1. k4.stale = 0 /\ ~k4.failing
      BY <1>2, <2>2 DEF Steady
    <3>2. /\ "login" \in {"login"} \cup Steps /\ k4.tx = Reached("login")
          /\ IF "login" \in Steps THEN ~k4.auth ELSE k4.fresh
      BY <1>3, <2>2, <2>4
    <3>3. ASSUME NEW ans
          PROVE  SendCmd(k2, Sent("login")) \in ClientRecs /\ Steady(SendCmd(k2, Sent("login")))
                 /\ Serves(SendCmd(k2, Sent("login")), ans)
      BY <1>2, <2>2, <2>3, <3>1, <3>2, AskServes
    <3>4. QED
      BY <2>4, <3>3
  <2> HIDE DEF k3
  <2>6. Others(s, c) /\ s.client[c] = k3 /\ s.busy = busy /\ ~InFree(s, c)
    BY <1>7, <2>5, SetOthers
  <2> HIDE DEF s
  <2>7. Place(s, c)
    BY <1>2, <2>5, <2>6 DEF Place
  <2>8. QED
    BY <1>4, <2>1, <2>6, <2>7, OthersWhole, WholeStep
<1>9. CASE ~again
  <2>1. AuthFailed(s1, c, again) = NsError(s1, c, FALSE)
    BY <1>9 DEF AuthFailed
  <2>2. NsError(s1, c, FALSE) \in States(taken) /\ Whole(NsError(s1, c, FALSE))
    BY <1>2, <1>6, <1>7, NsErrorWhole DEF Steady
  <2>3. QED
    BY <1>4, <2>1, <2>2, WholeStep
<1>10. QED
  BY <1>8, <1>9

\* What does not happen here.
LEMMA NeverWhole ==
  ASSUME Orderly, FInv, LInv, NEW c \in Clients, NEW again
  PROVE  ~StaleClosed(c, again) /\ ~ErrorInfo(c) /\ ~QuitTimer(c)
<1>1. Steady(client[c])
  BY NowWhole
<1>2. ~StaleClosed(c, again) /\ ~ErrorInfo(c)
  BY <1>1 DEF StaleClosed, ErrorInfo, Steady
<1>3. ~QuitTimer(c)
  BY DEF QuitTimer, Orderly
<1>4. QED
  BY <1>2, <1>3

\* A send gets a client of the pool, a new one, or waits.
LEMMA GetNextClientWhole ==
  ASSUME FInv, LInv, LInv', NEW m \in Sends, GetNextClient(m)
  PROVE  FInv'
<1>1. /\ Now \in States(taken) /\ client \in [Clients -> ClientRecs] /\ free \in Seq(Clients)
      /\ busy \in SUBSET Clients /\ answers \in [Sends -> Nat] /\ made \in 0..MaxClients
      /\ MaxClients \in Nat /\ busy \subseteq 1..made
  BY SmtpAssumption DEF LInv, Fine, States, Now
<1>2. Now' \in States(taken')
  BY DEF LInv, Fine
<1>3. /\ Now.client = client /\ Now.busy = busy /\ Now.free = free /\ Now.answers = answers
      /\ Now'.client = client' /\ Now'.busy = busy' /\ Now'.free = free'
      /\ Now'.answers = answers'
  BY DEF Now
<1>4. \A i, j \in DOMAIN free : free[i] = free[j] => i = j
  BY <1>3 DEF FInv, Whole, Apart
<1>5. \A d \in Clients : Place(Now, d) /\ (InFree(Now, d) => d \notin busy)
  BY <1>3 DEF FInv, Whole, Apart, InFree
<1>6. ASSUME NEW c \in Clients, NEW f \in Seq(Clients), c \notin busy, free' = f,
             \A i, j \in DOMAIN f : f[i] = f[j] => i = j,
             \A d \in Clients \ {c} : (\E i \in DOMAIN f : f[i] = d) <=> InFree(Now, d),
             ~\E i \in DOMAIN f : f[i] = c,
             client' = [client EXCEPT ![c] = Connect([client[c] EXCEPT !.send = m, !.fresh = TRUE])],
             busy' = busy \cup {c}, answers' = answers,
             \/ client[c].sock = "closed"
             \/ /\ client[c].sock = "open" /\ client[c].act = "idle" /\ client[c].wire = <<>>
                /\ client[c].tx = "none" /\ ~client[c].auth
      PROVE  FInv'
  <2> DEFINE k2 == Connect([client[c] EXCEPT !.send = m, !.fresh = TRUE])
  <2>1. k2 \in ClientRecs /\ Steady(k2) /\ Serves(k2, answers)
    BY <1>1, <1>3, <1>5, <1>6, ConnectServes DEF Place
  <2> HIDE DEF k2
  <2>2. client'[c] = k2 /\ \A d \in Clients \ {c} : client'[d] = client[d]
    BY <1>1, <1>6 DEF k2
  <2> DEFINE s2 == Now'
  <2>3. /\ s2 \in States(taken') /\ s2.client = client' /\ s2.busy = busy \cup {c} /\ s2.free = f
        /\ s2.answers = answers
    BY <1>2, <1>3, <1>6
  <2> HIDE DEF s2
  <2>4. ~InFree(s2, c) /\ \A d \in Clients \ {c} : InFree(s2, d) <=> InFree(Now, d)
    BY <1>6, <2>3 DEF InFree
  <2>5. Place(s2, c)
    BY <2>1, <2>2, <2>3, <2>4 DEF Place
  <2>6. ASSUME NEW d \in Clients \ {c}
        PROVE  Place(s2, d)
    <3>1. s2.client[d] = Now.client[d] /\ (d \in s2.busy <=> d \in Now.busy)
      BY <1>3, <2>2, <2>3
    <3>2. \A n \in Sends : s2.answers[n] >= Now.answers[n]
      BY <1>1, <1>3, <2>3
    <3>3. QED
      BY <1>1, <1>5, <2>3, <2>4, <3>1, <3>2, PlaceKept
  <2>7. Apart(s2)
    <3>1. \A i \in DOMAIN f : f[i] \in Clients /\ f[i] # c
      BY <1>6
    <3>2. \A i \in DOMAIN f : f[i] \notin busy
      BY <1>5, <1>6, <3>1
    <3>3. QED
      BY <1>6, <2>3, <3>1, <3>2 DEF Apart
  <2>8. Whole(s2)
    BY <2>5, <2>6, <2>7 DEF Whole
  <2>9. QED
    BY <2>8 DEF FInv, s2
<1>7. CASE /\ free # <<>>
           /\ Become(Assign([Now EXCEPT !.free = Popped, !.woken = @ \ {m}], free[Len(free)], m))
  <2> DEFINE c == free[Len(free)]
             f == Popped
  <2>1. /\ Len(free) \in Nat /\ Len(free) \in DOMAIN free /\ DOMAIN free = 1..Len(free)
        /\ c \in Clients /\ f \in Seq(Clients) /\ DOMAIN f = 1..(Len(free) - 1)
        /\ \A i \in DOMAIN f : i \in DOMAIN free /\ i # Len(free) /\ f[i] = free[i]
    BY <1>1, <1>7 DEF Popped
  <2>2. /\ client' = [client EXCEPT ![c] = Connect([client[c] EXCEPT !.send = m, !.fresh = TRUE])]
        /\ busy' = busy \cup {c} /\ answers' = answers /\ free' = f
    BY <1>7 DEF Become, Assign, Set, Now
  <2> HIDE DEF f
  <2>3. InFree(Now, c)
    BY <1>3, <2>1 DEF InFree
  <2>4. /\ c \notin busy
        /\ \/ client[c].sock = "closed"
           \/ /\ client[c].sock = "open" /\ client[c].act = "idle" /\ client[c].wire = <<>>
              /\ client[c].tx = "none" /\ ~client[c].auth
    BY <1>3, <1>5, <2>1, <2>3 DEF Place, Rests
  <2>5. ~\E i \in DOMAIN f : f[i] = c
    BY <1>4, <2>1
  <2>6. \A i, j \in DOMAIN f : f[i] = f[j] => i = j
    BY <1>4, <2>1
  <2>7. \A d \in Clients \ {c} : (\E i \in DOMAIN f : f[i] = d) <=> InFree(Now, d)
    <3>1. \A i \in DOMAIN free : i \in DOMAIN f \/ free[i] = c
      BY <2>1
    <3>2. QED
      BY <1>3, <2>1, <3>1 DEF InFree
  <2> HIDE DEF c
  <2>8. QED
    BY <1>6, <2>1, <2>2, <2>4, <2>5, <2>6, <2>7
<1>8. CASE /\ free = <<>> /\ made < MaxClients
           /\ Become(Assign([Now EXCEPT !.woken = @ \ {m}], made + 1, m))
  <2> DEFINE c == made + 1
  <2>1. c \in Clients /\ c \notin busy /\ c \notin 1..made
    BY <1>1, <1>8 DEF Clients
  <2>2. /\ client' = [client EXCEPT ![c] = Connect([client[c] EXCEPT !.send = m, !.fresh = TRUE])]
        /\ busy' = busy \cup {c} /\ answers' = answers /\ free' = free
    BY <1>8 DEF Become, Assign, Set, Now
  <2>3. client[c].sock = "closed"
    BY <1>1, <1>3, <2>1 DEF LInv, Fine, Unused, Clients
  <2> HIDE DEF c
  <2>4. DOMAIN free = {} /\ \A d \in Clients : ~InFree(Now, d)
    BY <1>3, <1>8 DEF InFree
  <2>5. QED
    BY <1>1, <1>6, <2>1, <2>2, <2>3, <2>4
<1>9. CASE Become([Now EXCEPT !.woken = @ \ {m},
                             !.waiting = Append(@, [send |-> m, n |-> waits[m] + 1])])
  <2>1. client' = client /\ free' = free /\ busy' = busy /\ answers' = answers
    BY <1>9 DEF Become, Now
  <2> DEFINE s2 == Now'
  <2>2. /\ s2 \in States(taken') /\ s2.client = client /\ s2.busy = busy /\ s2.free = free
        /\ s2.answers = answers
    BY <1>2, <1>3, <2>1
  <2> HIDE DEF s2
  <2>3. Apart(s2)
    BY <1>3, <2>2 DEF FInv, Whole, Apart
  <2>4. \A d \in Clients : Place(s2, d)
    BY <1>3, <1>5, <2>2 DEF Place, InFree
  <2>5. Whole(s2)
    BY <2>3, <2>4 DEF Whole
  <2>6. QED
    BY <2>5 DEF FInv, s2
<1>10. QED
  BY <1>7, <1>8, <1>9, Zenon DEF GetNextClient

-----------------------------------------------------------------------------
(* Replies.                                                                *)

\* The answer to the command of a step.
LEMMA CodesAre ==
  ASSUME Orderly, NEW act \in {"hello", "login"} \cup Steps,
         NEW code \in Codes(Sent(act), Reached(act))
  PROVE  /\ act \in {"hello", "login", "mail", "rcpt"} => code \in {"250", "5xx"}
         /\ act = "data" => code \in {"354", "5xx"}
         /\ act = "stream" => code = "250"
         /\ act = "login" /\ code = "5xx" => MaxPrompts = 0
<1>1. CASE act = "hello"
  BY <1>1 DEF Codes, InTurn, Sent, Reached, Orderly
<1>2. CASE act = "login"
  BY <1>2 DEF Codes, InTurn, Sent, Reached, Orderly
<1>3. CASE act = "mail"
  BY <1>3 DEF Codes, InTurn, Sent, Reached, Orderly
<1>4. CASE act = "rcpt"
  BY <1>4 DEF Codes, InTurn, Sent, Reached, Orderly
<1>5. CASE act = "data"
  BY <1>5 DEF Codes, InTurn, Sent, Reached, Orderly
<1>6. CASE act = "stream"
  BY <1>6 DEF Codes, InTurn, Sent, Reached, Orderly
<1>7. QED
  BY <1>1, <1>2, <1>3, <1>4, <1>5, <1>6 DEF Steps

\* How far the server is then.
LEMMA AdvanceReached ==
  ASSUME NEW act \in {"hello", "login"} \cup Steps, NEW code \in {"250", "354"}
  PROVE  LET tx == Advance(Sent(act), Reached(act), code)
         IN  /\ act \in {"hello", "login", "stream"} => tx = "none"
             /\ act \in {"mail", "rcpt", "data"} => tx = Reached(After(act))
<1>1. CASE act \in {"hello", "login", "stream"}
  BY <1>1 DEF Advance, Sent, Reached
<1>2. CASE act \in {"mail", "rcpt", "data"}
  BY <1>2 DEF Advance, Sent, Reached, After
<1>3. QED
  BY <1>1, <1>2 DEF Steps

\* A busy client changes and stays busy.
LEMMA SetServes ==
  ASSUME NEW s, NEW c, Others(s, c), c \in s.busy, NEW k \in ClientRecs, Steady(k),
         Serves(k, s.answers)
  PROVE  Set(s, c, k) \in States(taken) /\ Whole(Set(s, c, k))
<1> DEFINE s2 == Set(s, c, k)
<1>1. ~InFree(s, c)
  BY DEF Others, Apart, InFree
<1>2. /\ Others(s2, c) /\ s2.client[c] = k /\ s2.busy = s.busy /\ s2.answers = s.answers
      /\ ~InFree(s2, c)
  BY <1>1, SetOthers
<1> HIDE DEF s2
<1>3. Place(s2, c)
  BY <1>2 DEF Place
<1>4. QED
  BY <1>2, <1>3, OthersWhole DEF s2

\* _actionStream, when the message is accepted.
LEMMA StreamDoneWhole ==
  ASSUME NEW s, NEW c, Others(s, c), c \in s.busy, s.client[c].sock = "open",
         s.client[c].wire = <<>>, s.client[c].send \in Sends, s.client[c].stale = 0,
         ~s.client[c].failing, ~s.client[c].auth, s.client[c].tx = "none"
  PROVE  StreamDone(s, c, TRUE) \in States(taken) /\ Whole(StreamDone(s, c, TRUE))
<1> DEFINE k == s.client[c]
           reuse == k.reuse /\ k.sent + 1 < MsgsPerConn
           n == k.sent + 1
           tm == k.timer \/ reuse
           k1 == [k EXCEPT !.retry = FALSE, !.sent = n, !.reuse = reuse, !.timer = tm,
                           !.act = "idle"]
           s1 == Set(s, c, k1)
           s2 == Tell(s1, c, "ok")
           k3 == [s2.client[c] EXCEPT !.freed = TRUE]
           s3 == Set(s2, c, k3)
           o == OnFree(s3, c)
<1>1. s \in States(taken) /\ c \in Clients /\ k \in ClientRecs
  BY DEF Others, States
<1>2. n \in Nat /\ reuse \in BOOLEAN /\ tm \in BOOLEAN
  BY <1>1 DEF ClientRecs
<1>3. [k EXCEPT !.retry = @ /\ ~TRUE, !.sent = @ + 1, !.reuse = reuse,
                !.timer = @ \/ reuse, !.act = "idle"] = k1
  BY <1>1 DEF ClientRecs
<1>4. StreamDone(s, c, TRUE) = OnFree([s2 EXCEPT !.client[c].freed = TRUE], c)
  BY <1>3, Zenon DEF StreamDone
<1> HIDE DEF n, reuse, tm
<1>5. /\ k1 \in ClientRecs /\ k1.wire = <<>> /\ k1.act = "idle" /\ k1.sock = "open"
      /\ k1.stale = 0 /\ k1.send = k.send /\ ~k1.failing /\ ~k1.auth /\ k1.tx = "none"
  <2>1. k1 \in ClientRecs
    BY <1>1, <1>2 DEF ClientRecs, Actions
  <2>2. /\ k1.wire = <<>> /\ k1.act = "idle" /\ k1.sock = "open"
        /\ k1.stale = 0 /\ k1.send = k.send /\ ~k1.failing /\ ~k1.auth /\ k1.tx = "none"
    BY <1>1 DEF ClientRecs
  <2>3. QED
    BY <2>1, <2>2
<1> HIDE DEF k1
<1>6. Others(s1, c) /\ s1.client[c] = k1 /\ s1.busy = s.busy
  BY <1>5, SetOthers
<1> HIDE DEF s1
<1>7. Others(s2, c) /\ s2.client[c] = k1 /\ s2.busy = s.busy /\ s2.answers[k.send] > 0
  BY <1>5, <1>6, TellOthers
<1> HIDE DEF s2
<1>8. [s2 EXCEPT !.client[c].freed = TRUE] = s3
  BY <1>1, <1>7 DEF Set, States, Others
<1>9. /\ k3 \in ClientRecs /\ k3.wire = <<>> /\ k3.act = "idle" /\ k3.sock = "open"
      /\ k3.stale = 0 /\ k3.send = k.send /\ ~k3.failing /\ ~k3.auth /\ k3.tx = "none"
      /\ k3.freed = TRUE
  BY <1>5, <1>7 DEF ClientRecs
<1> HIDE DEF k3
<1>10. Others(s3, c) /\ s3.client[c] = k3 /\ s3.busy = s.busy /\ s3.answers = s2.answers
  BY <1>7, <1>9, SetOthers
<1> HIDE DEF s3
<1>11. Others(o, c) /\ GivenBack(s3, o, c, k3)
  BY <1>10, OnFreeOthers
<1>12. o.answers[k.send] > 0 /\ c \notin o.busy
  BY <1>7, <1>10, <1>11 DEF GivenBack
<1> HIDE DEF o
<1>13. Place(o, c)
  <2>1. CASE InFree(o, c) /\ o.client[c] = k3
    BY <1>9, <1>12, <2>1 DEF Place, Steady, Rests
  <2>2. CASE ~InFree(o, c) /\ o.client[c] = Quit(k3)
    <3>1. Retired(Quit(k3)) /\ Steady(Quit(k3))
      BY <1>9, QuitFields DEF Retired, Steady
    <3>2. QED
      BY <1>12, <2>2, <3>1 DEF Place
  <2>3. QED
    BY <1>11, <2>1, <2>2 DEF GivenBack
<1>14. QED
  BY <1>4, <1>8, <1>11, <1>13, OthersWhole DEF o

\* _onCommand of a busy client, when the reply has left the wire.
LEMMA HandleWhole ==
  ASSUME Orderly, NEW s, NEW c, Others(s, c), c \in s.busy,
         NEW act \in {"hello", "login"} \cup Steps, NEW code \in Codes(Sent(act), Reached(act)),
         s.client[c].act = act, s.client[c].sock = "open", s.client[c].wire = <<>>,
         ~s.client[c].freed, s.client[c].send \in Sends, Steady(s.client[c]),
         IF act \in Steps THEN ~s.client[c].auth ELSE s.client[c].fresh,
         s.client[c].tx = Advance(Sent(act), Reached(act), code)
  PROVE  Handle(s, c, code) \in States(taken) /\ Whole(Handle(s, c, code))
<1> DEFINE k == s.client[c]
           h == Handle(s, c, code)
<1>1. k \in ClientRecs /\ k.stale = 0 /\ ~k.failing
  BY DEF Others, States, Steady
<1>2. /\ act \in {"hello", "login", "mail", "rcpt"} => code \in {"250", "5xx"}
      /\ act = "data" => code \in {"354", "5xx"}
      /\ act = "stream" => code = "250"
      /\ act = "login" /\ code = "5xx" => MaxPrompts = 0
  BY CodesAre
<1>3. CASE code = "5xx"
  <2>1. h = NsError(s, c, FALSE)
    BY <1>2, <1>3 DEF Handle, Success, Steps
  <2>2. k.auth => MaxPrompts = 0
    BY <1>2, <1>3 DEF Steady
  <2>3. QED
    BY <1>1, <2>1, <2>2, NsErrorWhole
<1>4. CASE act = "hello" /\ code = "250"
  <2> DEFINE k1 == [k EXCEPT !.auth = TRUE]
             k2 == SendCmd([k1 EXCEPT !.act = "login"], "login")
  <2>1. h = Set(s, c, k2)
    BY <1>4 DEF Handle, Proceed, Success
  <2>2. k.fresh /\ k.tx = "none"
    BY <1>4, AdvanceReached DEF Steps
  <2>3. /\ k1 \in ClientRecs /\ k1.sock = "open" /\ k1.wire = <<>> /\ ~k1.freed
        /\ k1.send \in Sends /\ k1.stale = 0 /\ ~k1.failing /\ k1.tx = "none" /\ k1.fresh
    BY <1>1, <2>2 DEF ClientRecs
  <2> HIDE DEF k1
  <2>4. "login" \notin Steps /\ Sent("login") = "login" /\ Reached("login") = "none"
    BY DEF Steps, Sent, Reached
  <2>5. /\ "login" \in {"login"} \cup Steps /\ k1.tx = Reached("login")
        /\ IF "login" \in Steps THEN ~k1.auth ELSE k1.fresh
    BY <2>3, <2>4
  <2>6. LET q == SendCmd([k1 EXCEPT !.act = "login"], Sent("login"))
        IN  q \in ClientRecs /\ Steady(q) /\ Serves(q, s.answers)
    BY <2>3, <2>5, AskServes
  <2>7. k2 \in ClientRecs /\ Steady(k2) /\ Serves(k2, s.answers)
    BY <2>4, <2>6
  <2>8. QED
    BY <2>1, <2>7, SetServes
<1>5. CASE act = "login" /\ code = "250"
  <2> DEFINE k1 == [k EXCEPT !.auth = FALSE, !.act = "idle"]
             k2 == OnIdle(k1)
  <2>1. h = Set(s, c, k2)
    BY <1>5 DEF Handle, Success
  <2>2. k.fresh /\ k.tx = "none"
    BY <1>5, AdvanceReached DEF Steps
  <2>3. /\ k1 \in ClientRecs /\ k1.sock = "open" /\ k1.wire = <<>> /\ ~k1.freed /\ k1.fresh
        /\ k1.send \in Sends /\ k1.stale = 0 /\ ~k1.failing /\ k1.tx = "none" /\ ~k1.auth
    BY <1>1, <2>2 DEF ClientRecs, Actions
  <2> HIDE DEF k1
  <2>4. /\ k2 \in ClientRecs /\ k2.sock = "open" /\ Exchange(k2) /\ k2.freed = k1.freed
        /\ k2.send = k1.send /\ Steady(k2)
    BY <2>3, OnIdleServes
  <2> HIDE DEF k2
  <2>5. Serves(k2, s.answers)
    BY <2>3, <2>4 DEF Serves
  <2>6. QED
    BY <2>1, <2>4, <2>5, SetServes
<1>6. CASE act \in {"mail", "rcpt", "data"} /\ code # "5xx"
  <2> DEFINE a == After(act)
             k2 == SendCmd([k EXCEPT !.act = a], Sent(a))
  <2>1. a \in Steps /\ k.tx = Reached(a) /\ ~k.auth
    BY <1>2, <1>6, AdvanceReached DEF After, Steps
  <2>2. h = Set(s, c, k2)
    <3>1. CASE act = "mail"
      BY <1>2, <1>6, <3>1 DEF Handle, After, Sent, Success, Proceed
    <3>2. CASE act = "rcpt"
      BY <1>2, <1>6, <3>2 DEF Handle, After, Sent, Success, Proceed
    <3>3. CASE act = "data"
      BY <1>2, <1>6, <3>3 DEF Handle, After, Sent, Success, Proceed
    <3>4. QED
      BY <1>6, <3>1, <3>2, <3>3
  <2> HIDE DEF a
  <2>3. k2 \in ClientRecs /\ Steady(k2) /\ Serves(k2, s.answers)
    BY <1>1, <2>1, AskServes
  <2>4. QED
    BY <2>2, <2>3, SetServes
<1>7. CASE act = "stream"
  <2>1. h = StreamDone(s, c, TRUE)
    BY <1>2, <1>7 DEF Handle, Success
  <2>2. k.tx = "none" /\ ~k.auth
    BY <1>2, <1>7, AdvanceReached DEF Steps
  <2>3. QED
    BY <1>1, <2>1, <2>2, StreamDoneWhole
<1>8. QED
  BY <1>2, <1>3, <1>4, <1>5, <1>6, <1>7 DEF Steps

LEMMA ReplyWhole ==
  ASSUME Orderly, FInv, LInv, NEW c \in Clients, NEW code \in ReplyCodes, Reply(c, code)
  PROVE  FInv'
<1> DEFINE k == client[c]
           cmd == Head(k.wire)
<1>1. k.sock = "open" /\ k.wire # <<>> /\ code \in Codes(cmd.name, k.tx)
  BY DEF Reply
<1>2. /\ Others(Now, c) /\ Place(Now, c) /\ k \in ClientRecs /\ Steady(k) /\ Now.client = client
      /\ Now.busy = busy /\ Now.answers = answers /\ (c \in busy => ~InFree(Now, c))
  BY NowWhole
<1>3. CASE c \in busy
  <2> DEFINE act == k.act
             e == <<>>
             tx == Advance(Sent(act), Reached(act), code)
             k1 == [k EXCEPT !.wire = e, !.tx = tx]
             s1 == Set(Now, c, k1)
  <2>1. /\ Exchange(k) /\ ~k.freed /\ k.send \in Sends
    BY <1>1, <1>2, <1>3 DEF Place, Serves
  <2>2. act \in {"hello", "login"} \cup Steps
    BY <2>1 DEF Exchange
  <2>3. Sent(act) \in Names /\ Sent(act) # "quit"
    BY <2>2 DEF Sent, Steps, Names
  <2>4. Cmd(Sent(act), k.send) \in Cmds /\ Cmd(Sent(act), k.send).name = Sent(act)
    BY <2>1, <2>3, CmdType DEF Senders
  <2>5. cmd.name = Sent(act) /\ Tail(k.wire) = e /\ k.tx = Reached(act)
    BY <2>1, <2>4, OneCmd DEF Exchange
  <2>6. [k EXCEPT !.wire = Tail(@), !.tx = Advance(cmd.name, @, code)] = k1
    BY <1>2, <2>5 DEF ClientRecs
  <2>7. Become(Handle(s1, c, code))
    BY <2>3, <2>5, <2>6 DEF Reply
  <2>8. code \in Codes(Sent(act), Reached(act)) /\ tx \in Transactions
    <3>1. code \in Codes(cmd.name, k.tx) /\ k.tx \in Transactions
      BY <1>1, <1>2 DEF ClientRecs
    <3>2. QED
      BY <2>3, <2>5, <3>1, AdvanceType
  <2>9. e \in Seq(Cmds) /\ e = <<>>
    OBVIOUS
  <2> HIDE DEF e, tx
  <2>10. /\ k1 \in ClientRecs /\ k1.act = act /\ k1.sock = "open" /\ k1.wire = <<>> /\ ~k1.freed
         /\ k1.send \in Sends /\ k1.tx = tx /\ k1.stale = k.stale /\ k1.failing = k.failing
         /\ k1.auth = k.auth /\ k1.fresh = k.fresh
    BY <1>1, <1>2, <2>1, <2>8, <2>9 DEF ClientRecs
  <2> HIDE DEF k1
  <2>11. Others(s1, c) /\ s1.client[c] = k1 /\ s1.busy = busy
    BY <1>2, <2>10, SetOthers
  <2> HIDE DEF s1
  <2>12. Steady(k1) /\ (IF act \in Steps THEN ~k1.auth ELSE k1.fresh)
    BY <1>1, <1>2, <2>1, <2>10 DEF Steady, Exchange
  <2>13. Handle(s1, c, code) \in States(taken) /\ Whole(Handle(s1, c, code))
    BY <1>3, <2>2, <2>8, <2>10, <2>11, <2>12, HandleWhole DEF tx
  <2>14. QED
    BY <2>7, <2>13, WholeStep
<1>4. CASE c \notin busy
  <2> DEFINE k1 == [k EXCEPT !.wire = <<>>, !.sock = "gone"]
             k3 == [k EXCEPT !.sock = "gone", !.wire = <<>>]
             k2 == [k1 EXCEPT !.sock = "closing", !.wire = <<>>]
             s1 == Set(Now, c, k1)
             s2 == Set(s1, c, k2)
  <2>1. /\ ~InFree(Now, c) /\ k.freed /\ ~k.auth /\ k.act = "close"
        /\ k.wire = <<Cmd("quit", k.send)>>
    BY <1>1, <1>2, <1>4 DEF Place, Rests, Retired
  <2>2. cmd.name = "quit"
    <3>1. k.send \in Senders
      BY <1>2 DEF ClientRecs
    <3>2. QED
      BY <2>1, <3>1, CmdType, OneCmd DEF Names
  <2>3. Become(Handle(s1, c, code))
    BY <2>2 DEF Reply
  <2>4. k1 = k3
    BY <1>2 DEF ClientRecs
  <2>5. /\ k1 \in ClientRecs /\ k1.sock = "gone" /\ k1.freed = k.freed /\ k1.act = k.act
        /\ k1.auth = k.auth /\ k1.stale = k.stale /\ k1.failing = k.failing
    <3>1. /\ k3 \in ClientRecs /\ k3.sock = "gone" /\ k3.freed = k.freed /\ k3.act = k.act
          /\ k3.auth = k.auth /\ k3.stale = k.stale /\ k3.failing = k.failing
      BY <1>2, SocketFields DEF Sockets
    <3> HIDE DEF k1, k3
    <3>2. QED
      BY <2>4, <3>1
  <2> HIDE DEF k1, k3
  <2>6. Others(s1, c) /\ s1.client[c] = k1 /\ s1.busy = busy /\ ~InFree(s1, c)
    BY <1>2, <2>1, <2>5, SetOthers
  <2> HIDE DEF s1
  <2>7. Handle(s1, c, code) = Close(s1, c)
    BY <2>1, <2>5, <2>6 DEF Handle
  <2>8. Close(s1, c) = s2
    BY <2>5, <2>6 DEF Close, Open, Set, States, Others
  <2>9. /\ k2 \in ClientRecs /\ k2.sock = "closing" /\ k2.freed = k.freed
        /\ k2.auth = k.auth /\ k2.stale = k.stale /\ k2.failing = k.failing
    BY <2>5, SocketFields DEF Sockets
  <2> HIDE DEF k2
  <2>10. Others(s2, c) /\ s2.client[c] = k2 /\ s2.busy = busy /\ ~InFree(s2, c)
    BY <2>6, <2>9, SetOthers
  <2> HIDE DEF s2
  <2>11. Place(s2, c)
    BY <1>2, <1>4, <2>1, <2>9, <2>10 DEF Place, Steady, Retired
  <2>12. QED
    BY <2>3, <2>7, <2>8, <2>10, <2>11, OthersWhole, WholeStep
<1>5. QED
  BY <1>3, <1>4

-----------------------------------------------------------------------------
(* The theorem.                                                            *)

LEMMA InitWhole == Init => FInv
<1> SUFFICES ASSUME Init PROVE FInv
  OBVIOUS
<1>1. \A c \in Clients : client[c] = NewClient
  BY DEF Init
<1>2. /\ Now.client = client /\ Now.free = <<>> /\ Now.busy = {} /\ DOMAIN Now.free = {}
  BY DEF Init, Now
<1>3. Steady(NewClient) /\ Retired(NewClient)
  BY DEF NewClient, Steady, Retired
<1>4. Apart(Now)
  BY <1>2 DEF Apart
<1>5. \A c \in Clients : Place(Now, c)
  BY <1>1, <1>2, <1>3 DEF Place, InFree
<1>6. QED
  BY <1>4, <1>5 DEF FInv, Whole

LEMMA NextWhole ==
  ASSUME Orderly, FInv, LInv, LInv', IInv, [Next]_vars
  PROVE  FInv'
<1>1. CASE Next
  <2>1. ASSUME NEW m \in Sends, SendMailMessage(m) \/ Resume(m)
        PROVE  FInv'
    BY <2>1, GetNextClientWhole DEF SendMailMessage, Resume
  <2>2. ASSUME NEW c \in Clients, NEW code \in ReplyCodes, Reply(c, code)
        PROVE  FInv'
    BY <2>2, ReplyWhole
  <2>3. ASSUME NEW c \in Clients, Opened(c) \/ ErrorInfo(c) \/ QuitTimer(c)
        PROVE  FInv'
    BY <2>3, OpenedWhole, NeverWhole
  <2>4. ASSUME NEW c \in Clients, NEW again \in BOOLEAN,
               Closed(c, again) \/ StaleClosed(c, again) \/ AuthRejected(c, again)
        PROVE  FInv'
    BY <2>4, ClosedWhole, NeverWhole, AuthRejectedWhole
  <2>5. ASSUME NEW c \in Clients, NEW accepted \in BOOLEAN,
               HangUp(c, accepted) \/ \E tls \in BOOLEAN : SocketError(c, tls, accepted)
        PROVE  FInv'
    BY <2>5, HangUpWhole, SocketErrorWhole
  <2>6. QED
    BY <1>1, <2>1, <2>2, <2>3, <2>4, <2>5 DEF Next, Step, ReplyCodes
<1>2. CASE UNCHANGED vars
  <2>1. Now' = Now
    BY <1>2 DEF vars, Now
  <2>2. Whole(Now')
    BY <2>1 DEF FInv
  <2>3. QED
    BY <2>2 DEF FInv
<1>3. QED
  BY <1>1, <1>2

\* What _getNextClient relies on, for any number of messages, clients and connections
\* and any limit of messages per connection, while commands, logins and connections are
\* refused: a client of _freeConnections is in use by nobody, is there once, and its
\* last send has been told how it ended.
THEOREM SmtpFreeIsIdle ==
  ASSUME Orderly
  PROVE  Spec => []FreeIsIdle
<1>1. RetriesOnce
  BY DEF RetriesOnce, Orderly
<1>2. FInv /\ LInv => FreeIsIdle
  <2> SUFFICES ASSUME FInv, LInv, NEW i \in DOMAIN free
               PROVE  /\ free[i] \notin busy
                      /\ \A j \in DOMAIN free : free[i] = free[j] => i = j
                      /\ answers[client[free[i]].send] > 0
    BY DEF FreeIsIdle
  <2>1. free[i] \in Clients
    BY DEF LInv, Fine, States, Now
  <2>2. /\ Now.client = client /\ Now.busy = busy /\ Now.free = free /\ Now.answers = answers
    BY DEF Now
  <2>3. InFree(Now, free[i])
    BY <2>2 DEF InFree
  <2>4. Rests(client[free[i]], answers)
    BY <2>1, <2>2, <2>3 DEF FInv, Whole, Place
  <2>5. QED
    BY <2>2, <2>4 DEF FInv, Whole, Apart, Rests
<1>3. FInv /\ LInv /\ LInv' /\ IInv /\ [Next]_vars => FInv'
  BY NextWhole
<1>4. Spec => []LInv /\ []IInv
  BY <1>1, SmtpLines, SmtpInvariant
<1>5. QED
  BY <1>2, <1>3, <1>4, InitWhole, PTL DEF Spec

-----------------------------------------------------------------------------
(* Types.  The close events still to come are counted: one for each client *)
(* given to a send, one for a retry of each, one for each new login.       *)

\* A client that may still ask for a new connection on its own, after a 4xx reply.
Credit(k) == IF ~k.retry /\ (k.fresh \/ k.act \in Steps) THEN 1 ELSE 0

Tidy(k, n) ==
    /\ k.wire # <<>> => k.sock = "open"
    /\ k.sock = "open" /\ k.act \in Steps => ~k.fresh
    /\ k.stale + Credit(k) <= n

TInv ==
    /\ taken \subseteq Sends /\ IsFiniteSet(taken)
    /\ prompts \in 0..MaxPrompts
    /\ \A c \in Clients :
         /\ Tidy(client[c], prompts + 2 * Cardinality(taken))
         /\ c > made => client[c] = NewClient

\* In the middle of a handler for client c.
Fits(s, c, n) ==
    /\ s \in States(taken) /\ c \in Clients
    /\ \A d \in Clients \ {c} : s.client[d] = client[d]
    /\ Tidy(s.client[c], n)

LEMMA TidyFrom ==
  ASSUME NEW n \in Nat, NEW k \in ClientRecs, Tidy(k, n), NEW k2 \in ClientRecs,
         k2.wire # <<>> => k2.sock = "open",
         k2.sock = "open" /\ k2.act \in Steps => ~k2.fresh,
         k2.stale <= k.stale, k2.retry = k.retry, k2.fresh => k.fresh,
         k2.act \in Steps => k.act \in Steps \/ k.fresh \/ k.retry
  PROVE  Tidy(k2, n)
<1>1. k.stale \in Nat /\ k2.stale \in Nat
  BY DEF ClientRecs
<1>2. Credit(k2) <= Credit(k) /\ Credit(k) \in Nat /\ Credit(k2) \in Nat
  BY DEF Credit, ClientRecs
<1>3. QED
  BY <1>1, <1>2 DEF Tidy

\* A command is sent, and the step changes to act.
LEMMA SendTidy ==
  ASSUME NEW n \in Nat, NEW k \in ClientRecs, Tidy(k, n), NEW name \in Names
  PROVE  LET k2 == SendCmd(k, name)
         IN  /\ k2 \in ClientRecs /\ Tidy(k2, n) /\ k2.sock = k.sock /\ k2.act = k.act
             /\ k2.fresh = k.fresh /\ k2.retry = k.retry /\ k2.stale = k.stale
             /\ k2.wire # <<>> => k2.sock = "open"
             /\ k2 = [k EXCEPT !.wire = k2.wire] /\ k2.wire \in Seq(Cmds)
<1> DEFINE w == IF k.sock = "open" THEN Append(k.wire, Cmd(name, k.send)) ELSE k.wire
           k2 == [k EXCEPT !.wire = w]
<1>1. w \in Seq(Cmds) /\ SendCmd(k, name) = k2
  BY SendCmdFields
<1>2. w # <<>> => k.sock = "open"
  BY DEF Tidy
<1> HIDE DEF w
<1>3. /\ k2 \in ClientRecs /\ k2.sock = k.sock /\ k2.act = k.act /\ k2.wire = w
      /\ k2.fresh = k.fresh /\ k2.retry = k.retry /\ k2.stale = k.stale
  BY <1>1 DEF ClientRecs
<1>4. k.stale <= k.stale /\ (k.sock = "open" /\ k.act \in Steps => ~k.fresh)
  BY DEF ClientRecs, Tidy
<1>5. k2 = [k EXCEPT !.wire = k2.wire]
  BY <1>3
<1> HIDE DEF k2
<1>6. Tidy(k2, n)
  BY <1>2, <1>3, <1>4, TidyFrom
<1>7. QED
  BY <1>1, <1>2, <1>3, <1>5, <1>6

LEMMA QuitTidy ==
  ASSUME NEW n \in Nat, NEW k \in ClientRecs, Tidy(k, n)
  PROVE  LET k2 == Quit(k)
         IN  /\ k2 \in ClientRecs /\ Tidy(k2, n) /\ k2.sock = k.sock /\ k2.act = "close"
             /\ k2.fresh = k.fresh /\ k2.retry = k.retry /\ k2.stale = k.stale
<1> DEFINE k1 == SendCmd(k, "quit")
           k2 == [k1 EXCEPT !.auth = FALSE, !.act = "close"]
<1>1. /\ k1 \in ClientRecs /\ k1.sock = k.sock /\ (k1.wire # <<>> => k1.sock = "open")
      /\ k1.fresh = k.fresh /\ k1.retry = k.retry /\ k1.stale = k.stale
  BY SendTidy DEF Names
<1>2. Quit(k) = k2
  BY DEF Quit
<1> HIDE DEF k1
<1>3. /\ k2 \in ClientRecs /\ k2.sock = k.sock /\ k2.act = "close" /\ k2.wire = k1.wire
      /\ k2.fresh = k.fresh /\ k2.retry = k.retry /\ k2.stale = k.stale
  BY <1>1 DEF ClientRecs, Actions
<1>4. k2.stale <= k.stale /\ "close" \notin Steps
  BY <1>3 DEF ClientRecs, Steps
<1> HIDE DEF k2
<1>5. Tidy(k2, n)
  BY <1>1, <1>3, <1>4, TidyFrom
<1>6. QED
  BY <1>2, <1>3, <1>5

LEMMA OnIdleTidy ==
  ASSUME NEW n \in Nat, NEW k \in ClientRecs,
         k.wire # <<>> => k.sock = "open", k.stale + Credit(k) <= n
  PROVE  LET k2 == OnIdle(k)
         IN  k2 \in ClientRecs /\ (k.fresh \/ k.retry \/ Tidy(k, n) => Tidy(k2, n))
<1> DEFINE w == IF k.sock = "open" THEN Append(k.wire, Cmd("mail", k.send)) ELSE k.wire
           k2 == [k EXCEPT !.wire = w, !.fresh = FALSE, !.act = "mail", !.timer = FALSE]
<1>1. CASE k.fresh \/ k.retry
  <2>1. w \in Seq(Cmds) /\ SendCmd(k, "mail") = [k EXCEPT !.wire = w]
    BY SendCmdFields DEF Names
  <2>2. OnIdle(k) = k2
    BY <1>1, <2>1 DEF OnIdle, ClientRecs
  <2>3. w # <<>> => k.sock = "open"
    OBVIOUS
  <2> HIDE DEF w
  <2>4. /\ k2 \in ClientRecs /\ k2.wire = w /\ k2.sock = k.sock /\ k2.fresh = FALSE
        /\ k2.act = "mail" /\ k2.retry = k.retry /\ k2.stale = k.stale
    BY <2>1 DEF ClientRecs, Actions
  <2> HIDE DEF k2
  <2>5. k.stale \in Nat /\ Credit(k2) <= Credit(k) /\ Credit(k) \in Nat /\ Credit(k2) \in Nat
    BY <1>1, <2>4 DEF Credit, ClientRecs
  <2>6. Tidy(k2, n)
    BY <2>3, <2>4, <2>5 DEF Tidy
  <2>7. QED
    BY <2>2, <2>4, <2>6
<1>2. CASE ~(k.fresh \/ k.retry)
  BY <1>2 DEF OnIdle
<1>3. QED
  BY <1>1, <1>2

\* Only a socket that is still closing leaves one close event more.
LEMMA ConnectTidy ==
  ASSUME NEW n \in Nat, NEW k \in ClientRecs,
         k.wire # <<>> => k.sock = "open",
         k.stale + Credit(k) <= n
  PROVE  LET k2 == Connect(k)
         IN  /\ k2 \in ClientRecs
             /\ k.fresh \/ k.retry \/ Tidy(k, n) => Tidy(k2, n + 1)
             /\ ~Open(k) => k2.stale <= k.stale + 1 /\ k2.sock = "connecting" /\ k2.wire = <<>>
                            /\ k2.fresh = k.fresh /\ k2.retry = k.retry /\ k2.act = k.act
<1>1. CASE Open(k)
  <2> DEFINE k1 == OnIdle(k)
             k2 == [k1 EXCEPT !.freed = FALSE]
  <2>1. k1 \in ClientRecs /\ (k.fresh \/ k.retry \/ Tidy(k, n) => Tidy(k1, n))
    BY OnIdleTidy
  <2>2. Connect(k) = k2
    BY <1>1 DEF Connect
  <2> HIDE DEF k1
  <2>3. /\ k2 \in ClientRecs /\ k2.wire = k1.wire /\ k2.sock = k1.sock /\ k2.fresh = k1.fresh
        /\ k2.act = k1.act /\ k2.retry = k1.retry /\ k2.stale = k1.stale
    BY <2>1 DEF ClientRecs
  <2> HIDE DEF k2
  <2>4. Tidy(k1, n) => Tidy(k2, n + 1)
    <3>1. k2.stale \in Nat /\ Credit(k2) \in Nat /\ Credit(k2) = Credit(k1)
      BY <2>3 DEF ClientRecs, Credit
    <3>2. QED
      BY <2>3, <3>1 DEF Tidy
  <2>5. QED
    BY <1>1, <2>1, <2>2, <2>3, <2>4
<1>2. CASE ~Open(k)
  <2> DEFINE e == <<>>
             st == IF k.sock = "closing" THEN k.stale + 1 ELSE k.stale
             k2 == [k EXCEPT !.sock = "connecting", !.wire = e, !.sent = 0, !.freed = FALSE,
                             !.stale = st]
  <2>1. e \in Seq(Cmds) /\ e = <<>>
    OBVIOUS
  <2>2. k.stale \in Nat /\ st \in Nat /\ st <= k.stale + 1
    BY DEF ClientRecs
  <2>3. Connect(k) = k2
    BY <1>2 DEF Connect, ClientRecs
  <2> HIDE DEF e, st
  <2>4. /\ k2 \in ClientRecs /\ k2.wire = <<>> /\ k2.sock = "connecting" /\ k2.fresh = k.fresh
        /\ k2.act = k.act /\ k2.retry = k.retry /\ k2.stale = st
    BY <2>1, <2>2 DEF ClientRecs, Sockets
  <2> HIDE DEF k2
  <2>5. Credit(k2) = Credit(k) /\ Credit(k) \in Nat
    BY <2>4 DEF Credit
  <2>6. Tidy(k2, n + 1)
    BY <2>2, <2>4, <2>5 DEF Tidy
  <2>7. QED
    BY <2>2, <2>3, <2>4, <2>6
<1>3. QED
  BY <1>1, <1>2

LEMMA FitsFacts ==
  ASSUME NEW s, NEW c, NEW n, Fits(s, c, n)
  PROVE  /\ s \in States(taken) /\ c \in Clients /\ s.client[c] \in ClientRecs
         /\ Tidy(s.client[c], n)
  BY DEF Fits, States

LEMMA FitsMore ==
  ASSUME NEW s, NEW c, NEW n \in Nat, Fits(s, c, n), NEW j \in Nat, n <= j
  PROVE  Fits(s, c, j)
<1>1. s.client[c].stale \in Nat /\ Credit(s.client[c]) \in Nat
  BY FitsFacts DEF ClientRecs, Credit
<1>2. QED
  BY <1>1 DEF Fits, Tidy

LEMMA FitsSame ==
  ASSUME NEW s, NEW c, NEW n, Fits(s, c, n), NEW s2 \in States(taken), s2.client = s.client
  PROVE  Fits(s2, c, n)
  BY DEF Fits

LEMMA FitsSet ==
  ASSUME NEW s, NEW c, NEW n, Fits(s, c, n), NEW k \in ClientRecs, NEW j, Tidy(k, j)
  PROVE  Fits(Set(s, c, k), c, j) /\ Set(s, c, k).client[c] = k
<1> DEFINE s2 == Set(s, c, k)
<1>1. /\ s2 \in States(taken) /\ s2.client[c] = k
      /\ \A d \in Clients : d # c => s2.client[d] = s.client[d]
  BY FitsFacts, SetFields
<1> HIDE DEF s2
<1>2. Fits(s2, c, j)
  BY <1>1 DEF Fits
<1>3. QED
  BY <1>1, <1>2 DEF s2

LEMMA TellFits ==
  ASSUME NEW s, NEW c, NEW n, Fits(s, c, n), NEW what \in {"ok", "failed"}
  PROVE  Fits(Tell(s, c, what), c, n) /\ Tell(s, c, what).client = s.client
  BY FitsFacts, TellSame, FitsSame

LEMMA FreedTidy ==
  ASSUME NEW n, NEW k \in ClientRecs, Tidy(k, n)
  PROVE  LET k2 == [k EXCEPT !.freed = TRUE]
         IN  k2 \in ClientRecs /\ Tidy(k2, n) /\ k2.sock = k.sock /\ k2.wire = k.wire
<1> DEFINE k2 == [k EXCEPT !.freed = TRUE]
<1>1. /\ k2 \in ClientRecs /\ k2.wire = k.wire /\ k2.sock = k.sock /\ k2.fresh = k.fresh
      /\ k2.act = k.act /\ k2.retry = k.retry /\ k2.stale = k.stale
  BY DEF ClientRecs
<1> HIDE DEF k2
<1>2. Tidy(k2, n)
  BY <1>1 DEF Tidy, Credit
<1>3. QED
  BY <1>1, <1>2 DEF k2

LEMMA OnFreeFits ==
  ASSUME NEW s, NEW c, NEW n \in Nat, Fits(s, c, n)
  PROVE  Fits(OnFree(s, c), c, n) /\ OnFree(s, c).client[c].sock = s.client[c].sock
<1> DEFINE b == s.busy \ {c}
           f == Append(s.free, c)
           k == s.client[c]
<1>1. /\ s \in States(taken) /\ c \in Clients /\ k \in ClientRecs /\ Tidy(k, n)
  BY FitsFacts
<1>2. b \in SUBSET Clients /\ f \in Seq(Clients)
  BY <1>1 DEF States
<1>3. CASE ~k.reuse
  <2> DEFINE s1 == [s EXCEPT !.busy = b]
             k2 == Quit(k)
  <2>1. OnFree(s, c) = Set(s1, c, k2)
    BY <1>3 DEF OnFree, Set, States
  <2> HIDE DEF b
  <2>2. s1 \in States(taken) /\ s1.client = s.client
    BY <1>1, <1>2 DEF States
  <2> HIDE DEF s1
  <2>3. k2 \in ClientRecs /\ Tidy(k2, n) /\ k2.sock = k.sock
    BY <1>1, QuitTidy
  <2> HIDE DEF k2
  <2>4. QED
    BY <2>1, <2>2, <2>3, FitsSame, FitsSet
<1>4. CASE k.reuse
  <2> DEFINE s1 == [s EXCEPT !.busy = b, !.free = f]
  <2>1. OnFree(s, c) = WakeFirst(s1)
    BY <1>4 DEF OnFree, States
  <2> HIDE DEF b, f
  <2>2. s1 \in States(taken) /\ s1.client = s.client
    BY <1>1, <1>2 DEF States
  <2> HIDE DEF s1
  <2>3. QED
    BY <2>1, <2>2, WakeFirstSame, FitsSame
<1>5. QED
  BY <1>3, <1>4

LEMMA FreeFits ==
  ASSUME NEW s, NEW c, NEW n \in Nat, Fits(s, c, n)
  PROVE  Fits(Free(s, c), c, n) /\ Free(s, c).client[c].sock = s.client[c].sock
<1> DEFINE k2 == [s.client[c] EXCEPT !.freed = TRUE]
           s1 == Set(s, c, k2)
<1>1. s \in States(taken) /\ c \in Clients /\ s.client[c] \in ClientRecs /\ Tidy(s.client[c], n)
  BY FitsFacts
<1>2. Free(s, c) = IF s.client[c].freed THEN s ELSE OnFree(s1, c)
  <2>1. [s EXCEPT !.client[c].freed = TRUE] = s1
    BY <1>1 DEF Set, States
  <2>2. QED
    BY <2>1, Zenon DEF Free
<1>3. k2 \in ClientRecs /\ Tidy(k2, n) /\ k2.sock = s.client[c].sock
  BY <1>1, FreedTidy
<1> HIDE DEF k2
<1>4. Fits(s1, c, n) /\ s1.client[c] = k2
  BY <1>3, FitsSet
<1> HIDE DEF s1
<1>5. Fits(OnFree(s1, c), c, n) /\ OnFree(s1, c).client[c].sock = s1.client[c].sock
  BY <1>4, OnFreeFits
<1>6. QED
  BY <1>2, <1>3, <1>4, <1>5

\* A socket that is not open any more.
LEMMA ShutTidy ==
  ASSUME NEW n \in Nat, NEW k \in ClientRecs, Tidy(k, n), NEW sock \in Sockets, sock # "open"
  PROVE  LET k2 == [k EXCEPT !.sock = sock, !.wire = <<>>]
         IN  /\ k2 \in ClientRecs /\ Tidy(k2, n) /\ k2.sock = sock /\ k2.auth = k.auth
             /\ k2.act = k.act
<1> DEFINE e == <<>>
           k2 == [k EXCEPT !.sock = sock, !.wire = e]
<1>1. e \in Seq(Cmds) /\ e = <<>>
  OBVIOUS
<1>2. k2 = [k EXCEPT !.sock = sock, !.wire = <<>>]
  OBVIOUS
<1> HIDE DEF e
<1>3. /\ k2 \in ClientRecs /\ k2.wire = <<>> /\ k2.sock = sock /\ k2.fresh = k.fresh
      /\ k2.act = k.act /\ k2.retry = k.retry /\ k2.stale = k.stale /\ k2.auth = k.auth
  BY <1>1 DEF ClientRecs
<1>4. k2.stale <= k.stale
  BY <1>3 DEF ClientRecs
<1>5. Tidy(k2, n)
  BY <1>3, <1>4, TidyFrom
<1>6. QED
  BY <1>2, <1>3, <1>5

LEMMA CloseFits ==
  ASSUME NEW s, NEW c, NEW n \in Nat, Fits(s, c, n)
  PROVE  Fits(Close(s, c), c, n)
<1> DEFINE k == s.client[c]
           k2 == [k EXCEPT !.sock = "closing", !.wire = <<>>]
<1>1. s \in States(taken) /\ c \in Clients /\ k \in ClientRecs /\ Tidy(k, n)
  BY FitsFacts
<1>2. CASE Open(k)
  <2>1. Close(s, c) = Set(s, c, k2)
    BY <1>1, <1>2 DEF Close, Set, States
  <2>2. k2 \in ClientRecs /\ Tidy(k2, n)
    BY <1>1, ShutTidy DEF Sockets
  <2> HIDE DEF k2
  <2>3. QED
    BY <2>1, <2>2, FitsSet
<1>3. CASE ~Open(k)
  BY <1>3, FreeFits DEF Close
<1>4. QED
  BY <1>2, <1>3

\* _onNsError: the retry takes the place of the credit.
LEMMA NsErrorFits ==
  ASSUME NEW s, NEW c, NEW n \in Nat, Fits(s, c, n), NEW temp
  PROVE  Fits(NsError(s, c, temp), c, n)
<1> DEFINE k == s.client[c]
<1>1. s \in States(taken) /\ c \in Clients /\ k \in ClientRecs /\ Tidy(k, n)
  BY FitsFacts
<1>2. CASE Retries(k, temp)
  <2> DEFINE q == Quit(k)
             e == <<>>
             k1 == [q EXCEPT !.retry = TRUE, !.sock = "closing", !.wire = e]
             k2 == Connect(k1)
  <2>1. NsError(s, c, temp) = Set(s, c, k2)
    BY <1>2 DEF NsError
  <2>2. q \in ClientRecs /\ q.stale = k.stale
    BY <1>1, QuitTidy
  <2> HIDE DEF q
  <2>3. e \in Seq(Cmds) /\ e = <<>>
    OBVIOUS
  <2> HIDE DEF e
  <2>4. /\ k1 \in ClientRecs /\ k1.sock = "closing" /\ k1.wire = <<>> /\ k1.retry = TRUE
        /\ k1.stale = k.stale
    BY <2>2, <2>3 DEF ClientRecs, Sockets
  <2> HIDE DEF k1
  <2>5. k.stale \in Nat /\ k.stale + 1 <= n /\ Credit(k1) = 0
    BY <1>1, <1>2, <2>4 DEF Retries, Tidy, Credit, Steps, ClientRecs
  <2>6. k1.stale + Credit(k1) <= n /\ ~Open(k1)
    BY <2>4, <2>5 DEF Open
  <2>7. /\ k2 \in ClientRecs /\ k2.stale <= k1.stale + 1 /\ k2.sock = "connecting"
        /\ k2.wire = <<>> /\ k2.retry = TRUE
    BY <2>4, <2>6, ConnectTidy
  <2> HIDE DEF k2
  <2>8. Tidy(k2, n)
    <3>1. k2.stale \in Nat /\ Credit(k2) = 0
      BY <2>7 DEF ClientRecs, Credit
    <3>2. QED
      BY <2>4, <2>5, <2>7, <3>1 DEF Tidy
  <2>9. QED
    BY <2>1, <2>7, <2>8, FitsSet
<1>3. CASE ~Retries(k, temp)
  <2> DEFINE s1 == Tell(s, c, "failed")
  <2>1. NsError(s, c, temp) = Close(s1, c)
    BY <1>3 DEF NsError
  <2>2. Fits(s1, c, n)
    BY TellFits
  <2>3. QED
    BY <2>1, <2>2, CloseFits
<1>4. QED
  BY <1>2, <1>3

\* _onAuthFailed: a login that is tried again may leave a close event more.
LEMMA AuthFailedFits ==
  ASSUME NEW s, NEW c, NEW n \in Nat, Fits(s, c, n), NEW again \in BOOLEAN
  PROVE  Fits(AuthFailed(s, c, again), c, IF again THEN n + 1 ELSE n)
<1> DEFINE k == s.client[c]
<1>1. s \in States(taken) /\ c \in Clients /\ k \in ClientRecs /\ Tidy(k, n)
  BY FitsFacts
<1>2. CASE ~again
  BY <1>2, NsErrorFits DEF AuthFailed
<1>3. CASE again /\ k.freed
  <2> DEFINE k2 == Connect(k)
  <2>1. AuthFailed(s, c, again) = Set(s, c, k2)
    BY <1>3 DEF AuthFailed
  <2>2. k2 \in ClientRecs /\ Tidy(k2, n + 1)
    BY <1>1, ConnectTidy DEF Tidy
  <2> HIDE DEF k2
  <2>3. Fits(Set(s, c, k2), c, n + 1)
    BY <2>2, FitsSet
  <2>4. (IF again THEN n + 1 ELSE n) = n + 1
    BY <1>3
  <2>5. QED
    BY <2>1, <2>3, <2>4
<1>4. CASE again /\ ~k.freed
  <2> DEFINE k1 == [k EXCEPT !.act = "login", !.auth = TRUE]
             k2 == SendCmd(k1, "login")
  <2>1. AuthFailed(s, c, again) = Set(s, c, k2)
    BY <1>4 DEF AuthFailed
  <2>2. /\ k1 \in ClientRecs /\ k1.wire = k.wire /\ k1.sock = k.sock /\ k1.fresh = k.fresh
        /\ k1.act = "login" /\ k1.retry = k.retry /\ k1.stale = k.stale
    BY <1>1 DEF ClientRecs, Actions
  <2>3. "login" \notin Steps /\ (k.wire # <<>> => k.sock = "open") /\ k.stale <= k.stale
    BY <1>1 DEF Steps, Tidy, ClientRecs
  <2> HIDE DEF k1
  <2>4. Tidy(k1, n)
    BY <1>1, <2>2, <2>3, TidyFrom
  <2>5. k2 \in ClientRecs /\ Tidy(k2, n)
    BY <2>2, <2>4, SendTidy DEF Names
  <2> HIDE DEF k2
  <2>6. Fits(Set(s, c, k2), c, n)
    BY <2>5, FitsSet
  <2>7. Fits(Set(s, c, k2), c, n + 1)
    <3>1. n + 1 \in Nat /\ n <= n + 1
      OBVIOUS
    <3>2. QED
      BY <2>6, <3>1, FitsMore
  <2>8. (IF again THEN n + 1 ELSE n) = n + 1
    BY <1>4
  <2>9. QED
    BY <2>1, <2>7, <2>8
<1>5. QED
  BY <1>2, <1>3, <1>4

LEMMA OnCloseFits ==
  ASSUME NEW s, NEW c, NEW n \in Nat, Fits(s, c, n), NEW again \in BOOLEAN
  PROVE  Fits(OnClose(s, c, again), c, IF again THEN n + 1 ELSE n)
<1> DEFINE s1 == Free(s, c)
<1>1. Fits(s1, c, n)
  BY FreeFits
<1>2. OnClose(s, c, again) = IF s1.client[c].auth THEN AuthFailed(s1, c, again) ELSE s1
  BY DEF OnClose
<1> HIDE DEF s1
<1>3. Fits(AuthFailed(s1, c, again), c, IF again THEN n + 1 ELSE n)
  BY <1>1, AuthFailedFits
<1>4. Fits(s1, c, IF again THEN n + 1 ELSE n)
  BY <1>1, FitsMore
<1>5. QED
  BY <1>2, <1>3, <1>4

LEMMA StreamDoneFits ==
  ASSUME NEW s, NEW c, NEW n \in Nat, Fits(s, c, n), NEW good \in BOOLEAN,
         ~s.client[c].fresh
  PROVE  Fits(StreamDone(s, c, good), c, n)
<1> DEFINE k == s.client[c]
           reuse == k.reuse /\ k.sent + 1 < MsgsPerConn
           rt == k.retry /\ ~good
           sn == k.sent + 1
           tm == k.timer \/ reuse
           k1 == [k EXCEPT !.retry = rt, !.sent = sn, !.reuse = reuse, !.timer = tm, !.act = "idle"]
           s1 == Set(s, c, k1)
           s2 == IF good THEN Tell(s1, c, "ok") ELSE NsError(s1, c, FALSE)
           k3 == [s2.client[c] EXCEPT !.freed = TRUE]
           s3 == Set(s2, c, k3)
<1>1. s \in States(taken) /\ c \in Clients /\ k \in ClientRecs /\ Tidy(k, n)
  BY FitsFacts
<1>2. sn \in Nat /\ reuse \in BOOLEAN /\ rt \in BOOLEAN /\ tm \in BOOLEAN
  BY <1>1 DEF ClientRecs
<1>3. [k EXCEPT !.retry = @ /\ ~good, !.sent = @ + 1, !.reuse = reuse,
                !.timer = @ \/ reuse, !.act = "idle"] = k1
  BY <1>1 DEF ClientRecs
<1>4. StreamDone(s, c, good) = OnFree([s2 EXCEPT !.client[c].freed = TRUE], c)
  BY <1>3, Zenon DEF StreamDone
<1> HIDE DEF sn, reuse, rt, tm
<1>5. k1 \in ClientRecs
  BY <1>1, <1>2 DEF ClientRecs, Actions
<1>6. /\ k1.wire = k.wire /\ k1.act = "idle" /\ k1.sock = k.sock /\ k1.stale = k.stale
      /\ k1.fresh = k.fresh
  BY <1>1 DEF ClientRecs
<1> HIDE DEF k1
<1>7. Tidy(k1, n)
  <2>1. Credit(k1) = 0
    BY <1>6 DEF Credit, Steps
  <2>2. k.stale \in Nat /\ Credit(k) \in Nat
    BY <1>1 DEF ClientRecs, Credit
  <2>3. QED
    BY <1>1, <1>6, <2>1, <2>2 DEF Tidy, Steps
<1>8. Fits(s1, c, n)
  BY <1>5, <1>7, FitsSet
<1> HIDE DEF s1
<1>9. Fits(s2, c, n)
  BY <1>8, TellFits, NsErrorFits
<1> HIDE DEF s2
<1>10. [s2 EXCEPT !.client[c].freed = TRUE] = s3
  BY <1>9 DEF Set, States, Fits
<1>11. k3 \in ClientRecs /\ Tidy(k3, n)
  BY <1>9, FitsFacts, FreedTidy
<1> HIDE DEF k3
<1>12. Fits(s3, c, n)
  BY <1>9, <1>11, FitsSet
<1> HIDE DEF s3
<1>13. QED
  BY <1>4, <1>10, <1>12, OnFreeFits

LEMMA ProceedTidy ==
  ASSUME NEW n \in Nat, NEW k \in ClientRecs, Tidy(k, n), NEW act \in Actions,
         act \in Steps => k.act \in Steps, NEW name \in Names
  PROVE  Proceed(k, act, name) \in ClientRecs /\ Tidy(Proceed(k, act, name), n)
<1> DEFINE k1 == [k EXCEPT !.act = act]
<1>1. /\ k1 \in ClientRecs /\ k1.wire = k.wire /\ k1.sock = k.sock /\ k1.fresh = k.fresh
      /\ k1.act = act /\ k1.retry = k.retry /\ k1.stale = k.stale
  BY DEF ClientRecs
<1>2. /\ k.stale <= k.stale /\ (k.wire # <<>> => k.sock = "open")
      /\ k.sock = "open" /\ act \in Steps => ~k.fresh
  BY DEF ClientRecs, Tidy
<1> HIDE DEF k1
<1>3. Tidy(k1, n)
  BY <1>1, <1>2, TidyFrom
<1>4. SendCmd(k1, name) \in ClientRecs /\ Tidy(SendCmd(k1, name), n)
  BY <1>1, <1>3, SendTidy
<1>5. QED
  BY <1>4 DEF Proceed, k1

LEMMA HandleFits ==
  ASSUME NEW s, NEW c, NEW n \in Nat, Fits(s, c, n), NEW code,
         s.client[c].act \in Steps => ~s.client[c].fresh
  PROVE  Fits(Handle(s, c, code), c, n)
<1> DEFINE k == s.client[c]
           h == Handle(s, c, code)
<1>1. s \in States(taken) /\ c \in Clients /\ k \in ClientRecs /\ Tidy(k, n)
  BY FitsFacts
<1>2. CASE k.act = "hello" /\ Success(code)
  <2> DEFINE k1 == [k EXCEPT !.auth = TRUE]
             k2 == Proceed(k1, "login", "login")
  <2>1. h = Set(s, c, k2)
    BY <1>2 DEF Handle
  <2>2. /\ k1 \in ClientRecs /\ k1.wire = k.wire /\ k1.sock = k.sock /\ k1.fresh = k.fresh
        /\ k1.act = k.act /\ k1.retry = k.retry /\ k1.stale = k.stale
    BY <1>1 DEF ClientRecs
  <2> HIDE DEF k1
  <2>3. Tidy(k1, n)
    BY <1>1, <2>2 DEF Tidy, Credit
  <2>4. k2 \in ClientRecs /\ Tidy(k2, n)
    BY <2>2, <2>3, ProceedTidy DEF Actions, Names, Steps
  <2>5. QED
    BY <2>1, <2>4, FitsSet
<1>3. CASE k.act = "login" /\ Success(code)
  <2> DEFINE k1 == [k EXCEPT !.auth = FALSE, !.act = "idle"]
             k2 == OnIdle(k1)
  <2>1. h = Set(s, c, k2)
    BY <1>3 DEF Handle
  <2>2. /\ k1 \in ClientRecs /\ k1.wire = k.wire /\ k1.sock = k.sock /\ k1.fresh = k.fresh
        /\ k1.act = "idle" /\ k1.retry = k.retry /\ k1.stale = k.stale
    BY <1>1 DEF ClientRecs, Actions
  <2> HIDE DEF k1
  <2>3. k.stale <= k.stale /\ "idle" \notin Steps /\ (k.wire # <<>> => k.sock = "open")
    BY <1>1 DEF Tidy, Steps, ClientRecs
  <2>4. Tidy(k1, n)
    BY <1>1, <2>2, <2>3, TidyFrom
  <2>5. k2 \in ClientRecs /\ Tidy(k2, n)
    BY <2>2, <2>4, OnIdleTidy DEF Tidy
  <2>6. QED
    BY <2>1, <2>5, FitsSet
<1>4. ASSUME NEW act \in {"rcpt", "data", "stream"}, NEW name \in {"rcpt", "data", "dot"},
             k.act \in Steps, h = Set(s, c, Proceed(k, act, name))
      PROVE  Fits(h, c, n)
  <2>1. act \in Actions /\ name \in Names
    BY DEF Actions, Names
  <2>2. Proceed(k, act, name) \in ClientRecs /\ Tidy(Proceed(k, act, name), n)
    BY <1>1, <1>4, <2>1, ProceedTidy
  <2>3. Fits(Set(s, c, Proceed(k, act, name)), c, n)
    BY <2>2, FitsSet
  <2>4. QED
    BY <1>4, <2>3
<1>5. CASE k.act = "mail" /\ Success(code)
  BY <1>4, <1>5 DEF Handle, Steps
<1>6. CASE k.act = "rcpt" /\ Success(code)
  BY <1>4, <1>6 DEF Handle, Steps
<1>7. CASE k.act = "data" /\ code \in {"250", "354"}
  BY <1>4, <1>7 DEF Handle, Steps
<1>8. CASE k.act = "stream"
  <2>1. h = StreamDone(s, c, Success(code))
    BY <1>8 DEF Handle
  <2>2. Success(code) \in BOOLEAN /\ ~k.fresh
    BY <1>8 DEF Success, Steps
  <2>3. QED
    BY <2>1, <2>2, StreamDoneFits
<1>9. CASE k.act = "close"
  BY <1>9, CloseFits DEF Handle
<1>10. CASE /\ ~(k.act \in {"hello", "login", "mail", "rcpt"} /\ Success(code))
            /\ ~(k.act = "data" /\ code \in {"250", "354"})
            /\ k.act \notin {"stream", "close"}
  BY <1>10, NsErrorFits DEF Handle
<1>11. QED
  BY <1>2, <1>3, <1>5, <1>6, <1>7, <1>8, <1>9, <1>10

-----------------------------------------------------------------------------
(* The actions.                                                            *)

Due == prompts + 2 * Cardinality(taken)

LEMMA NowFits ==
  ASSUME TInv, LInv, NEW c \in Clients
  PROVE  /\ Fits(Now, c, Due) /\ Due \in Nat /\ Due + 1 \in Nat
         /\ Cardinality(taken) \in Nat /\ prompts \in Nat
         /\ Now.client = client /\ client[c] \in ClientRecs /\ Tidy(client[c], Due)
         /\ ~Unused(client[c]) => c \in 1..made
<1>1. Cardinality(taken) \in Nat /\ prompts \in Nat
  BY FS_CardinalityType, SmtpAssumption DEF TInv
<1>2. Due \in Nat /\ Due + 1 \in Nat
  BY <1>1 DEF Due
<1>3. /\ Now \in States(taken) /\ Now.client = client /\ client[c] \in ClientRecs
      /\ ~Unused(client[c]) => c \in 1..made
  BY InUse
<1>4. Tidy(client[c], Due)
  BY DEF TInv, Due
<1>5. Fits(Now, c, Due)
  BY <1>3, <1>4 DEF Fits
<1>6. QED
  BY <1>1, <1>2, <1>3, <1>4, <1>5

\* An action that takes the state of the pool to s, after up to one new login.
LEMMA TidyStep ==
  ASSUME TInv, LInv, NEW s, NEW c \in 1..made, Fits(s, c, prompts' + 2 * Cardinality(taken)),
         Become(s), UNCHANGED <<made, taken>>, prompts' \in 0..MaxPrompts, prompts <= prompts'
  PROVE  TInv'
<1>1. client' = s.client /\ s \in States(taken) /\ c \in Clients
  BY FitsFacts DEF Become
<1>2. /\ Cardinality(taken) \in Nat /\ prompts \in Nat /\ prompts' \in Nat
      /\ made \in Nat
  BY <1>1, NowFits, SmtpAssumption DEF LInv, Fine
<1>3. \A d \in Clients \ {c} : client'[d] = client[d]
  BY <1>1 DEF Fits
<1>4. ASSUME NEW d \in Clients
      PROVE  /\ Tidy(client'[d], prompts' + 2 * Cardinality(taken))
             /\ d > made => client'[d] = NewClient
  <2>1. CASE d = c
    BY <1>1, <1>2, <2>1 DEF Fits
  <2>2. CASE d # c
    <3>1. client'[d] = client[d] /\ (d > made => client'[d] = NewClient)
      BY <1>3, <2>2 DEF TInv
    <3>2. client[d] \in ClientRecs /\ Tidy(client[d], prompts + 2 * Cardinality(taken))
      BY NowFits DEF Due
    <3>3. client[d].stale \in Nat /\ Credit(client[d]) \in Nat
      BY <3>2 DEF ClientRecs, Credit
    <3>4. Tidy(client[d], prompts' + 2 * Cardinality(taken))
      BY <1>2, <3>2, <3>3 DEF Tidy
    <3>5. QED
      BY <3>1, <3>4
  <2>3. QED
    BY <2>1, <2>2
<1>5. taken' \subseteq Sends /\ IsFiniteSet(taken')
  BY DEF TInv
<1>6. QED
  BY <1>4, <1>5 DEF TInv

\* The same for an action that asks the user nothing.
LEMMA QuietStep ==
  ASSUME TInv, LInv, NEW s, NEW c \in 1..made, Fits(s, c, Due), Become(s),
         UNCHANGED <<made, taken, prompts>>
  PROVE  TInv'
<1>1. prompts' \in 0..MaxPrompts /\ prompts <= prompts'
  BY SmtpAssumption DEF TInv
<1>2. Fits(s, c, prompts' + 2 * Cardinality(taken))
  BY DEF Due
<1>3. QED
  BY <1>1, <1>2, TidyStep

LEMMA OpenedTidy ==
  ASSUME TInv, LInv, NEW c \in Clients, Opened(c)
  PROVE  TInv'
<1> DEFINE k == client[c]
           w == <<Cmd("hello", k.send)>>
           k2 == [k EXCEPT !.sock = "open", !.act = "hello", !.tx = "none", !.wire = w]
           s == Set(Now, c, k2)
<1>1. k.sock = "connecting" /\ Become(s) /\ UNCHANGED <<made, taken, prompts>>
  BY DEF Opened, rest
<1>2. Fits(Now, c, Due) /\ k \in ClientRecs /\ Tidy(k, Due) /\ c \in 1..made /\ Due \in Nat
  BY <1>1, NowFits DEF Unused
<1>3. w \in Seq(Cmds)
  BY <1>2, CmdType, OneCmd DEF Names, ClientRecs
<1> HIDE DEF w
<1>4. /\ k2 \in ClientRecs /\ k2.sock = "open" /\ k2.act = "hello" /\ k2.wire = w
      /\ k2.fresh = k.fresh /\ k2.stale = k.stale /\ k2.retry = k.retry
  BY <1>2, <1>3 DEF ClientRecs, Sockets, Actions, Transactions
<1>5. k.stale <= k.stale /\ "hello" \notin Steps
  BY <1>2 DEF ClientRecs, Steps
<1> HIDE DEF k2
<1>6. Tidy(k2, Due)
  BY <1>2, <1>4, <1>5, TidyFrom
<1>7. Fits(s, c, Due)
  BY <1>2, <1>4, <1>6, FitsSet
<1>8. QED
  BY <1>1, <1>2, <1>7, QuietStep

LEMMA HangUpTidy ==
  ASSUME TInv, LInv, NEW c \in Clients, NEW accepted, HangUp(c, accepted)
  PROVE  TInv'
<1> DEFINE k == client[c]
<1>1. k.sock = "open" /\ UNCHANGED <<made, taken, prompts>>
  BY DEF HangUp
<1>2. Fits(Now, c, Due) /\ k \in ClientRecs /\ Tidy(k, Due) /\ c \in 1..made /\ Due \in Nat
  BY <1>1, NowFits DEF Unused
<1>3. PICK end \in {"gone", "closing"} : Become(Set(Now, c, [k EXCEPT !.sock = end, !.wire = <<>>]))
  BY DEF HangUp
<1> DEFINE k2 == [k EXCEPT !.sock = end, !.wire = <<>>]
<1>4. k2 \in ClientRecs /\ Tidy(k2, Due)
  <2>1. end \in Sockets /\ end # "open"
    BY DEF Sockets
  <2>2. QED
    BY <1>2, <2>1, ShutTidy
<1> HIDE DEF k2
<1>5. Fits(Set(Now, c, k2), c, Due)
  BY <1>2, <1>4, FitsSet
<1>6. QED
  BY <1>1, <1>2, <1>3, <1>5, QuietStep DEF k2

LEMMA QuitTimerTidy ==
  ASSUME TInv, LInv, NEW c \in Clients, QuitTimer(c)
  PROVE  TInv'
<1> DEFINE k == client[c]
           k1 == [k EXCEPT !.timer = FALSE]
           k2 == IF Open(k1) /\ ~active THEN Quit(k1) ELSE k1
<1>1. k.timer /\ Become(Set(Now, c, k2)) /\ UNCHANGED <<made, taken, prompts>>
  BY DEF QuitTimer, rest
<1>2. Fits(Now, c, Due) /\ k \in ClientRecs /\ Tidy(k, Due) /\ c \in 1..made /\ Due \in Nat
  BY <1>1, NowFits DEF Unused
<1>3. /\ k1 \in ClientRecs /\ k1.wire = k.wire /\ k1.sock = k.sock /\ k1.fresh = k.fresh
      /\ k1.act = k.act /\ k1.retry = k.retry /\ k1.stale = k.stale
  BY <1>2 DEF ClientRecs
<1> HIDE DEF k1
<1>4. Tidy(k1, Due)
  BY <1>2, <1>3 DEF Tidy, Credit
<1>5. k2 \in ClientRecs /\ Tidy(k2, Due)
  BY <1>2, <1>3, <1>4, QuitTidy
<1> HIDE DEF k2
<1>6. Fits(Set(Now, c, k2), c, Due)
  BY <1>2, <1>5, FitsSet
<1>7. QED
  BY <1>1, <1>2, <1>6, QuietStep

\* The security info has come: every connection of the pool gets a QUIT.
LEMMA ErrorInfoTidy ==
  ASSUME TInv, LInv, NEW c \in Clients, ErrorInfo(c)
  PROVE  TInv'
<1> DEFINE k == client[c]
           k1 == [k EXCEPT !.failing = FALSE]
           s1 == Set(Now, c, k1)
           gone == s1.busy \cup {s1.free[i] : i \in DOMAIN s1.free}
           s2 == CloseCached(s1)
           s == Tell(s2, c, "failed")
<1>1. k.failing /\ Become(s) /\ UNCHANGED <<made, taken, prompts>>
  BY DEF ErrorInfo, rest
<1>2. /\ Fits(Now, c, Due) /\ k \in ClientRecs /\ Tidy(k, Due) /\ c \in 1..made /\ Due \in Nat
      /\ Fine(Now, made, taken)
  BY <1>1, NowFits DEF Unused, LInv
<1>3. /\ k1 \in ClientRecs /\ k1.wire = k.wire /\ k1.sock = k.sock /\ k1.fresh = k.fresh
      /\ k1.act = k.act /\ k1.retry = k.retry /\ k1.stale = k.stale
  BY <1>2 DEF ClientRecs
<1> HIDE DEF k1
<1>4. Tidy(k1, Due)
  BY <1>2, <1>3 DEF Tidy, Credit
<1>5. Fits(s1, c, Due) /\ s1.client[c] = k1
  BY <1>2, <1>3, <1>4, FitsSet
<1>6. s1.busy = busy /\ s1.free = free
  BY DEF Set, Now
<1>7. gone \subseteq 1..made
  <2>1. busy \subseteq 1..made /\ \A i \in DOMAIN free : free[i] \in 1..made
    BY <1>2 DEF Fine, Now
  <2>2. gone = busy \cup {free[i] : i \in DOMAIN free}
    BY <1>6
  <2>3. QED
    BY <2>1, <2>2, Zenon
<1>8. ASSUME NEW d \in Clients
      PROVE  /\ s1.client[d] \in ClientRecs /\ Tidy(s1.client[d], Due)
             /\ d > made => s1.client[d] = NewClient
  <2>2. CASE d = c
    BY <1>2, <1>3, <1>4, <1>5, <2>2, SmtpAssumption DEF Fine
  <2>3. CASE d # c
    BY <1>5, <2>3, NowFits DEF Fits, TInv
  <2>4. QED
    BY <2>2, <2>3
<1> HIDE DEF s1
<1>9. s2.client = [d \in Clients |-> IF d \in gone THEN Quit(s1.client[d]) ELSE s1.client[d]]
  BY <1>5 DEF CloseCached, Fits, States
<1>10. s.client = s2.client
  BY DEF Tell
<1> HIDE DEF s, s2, gone
<1>11. client' = s.client
  BY <1>1 DEF Become
<1>12. ASSUME NEW d \in Clients
       PROVE  /\ Tidy(client'[d], Due)
              /\ d > made => client'[d] = NewClient
  <2>1. client'[d] = IF d \in gone THEN Quit(s1.client[d]) ELSE s1.client[d]
    BY <1>9, <1>10, <1>11
  <2>2. s1.client[d] \in ClientRecs /\ Tidy(s1.client[d], Due)
    BY <1>8
  <2>3. Tidy(Quit(s1.client[d]), Due)
    BY <1>2, <2>2, QuitTidy
  <2>4. made \in Nat /\ d \in Nat
    BY <1>2, SmtpAssumption DEF Fine, Clients
  <2>5. d > made => d \notin gone
    BY <1>7, <2>4
  <2>6. QED
    BY <1>8, <2>1, <2>2, <2>3, <2>5
<1>13. QED
  BY <1>1, <1>12 DEF TInv, Due

LEMMA SocketErrorTidy ==
  ASSUME TInv, LInv, NEW c \in Clients, NEW tls \in BOOLEAN, NEW accepted,
         SocketError(c, tls, accepted)
  PROVE  TInv'
<1> DEFINE k == client[c]
           end == IF k.sock = "open" THEN "closing" ELSE "closed"
           k1 == [k EXCEPT !.sock = end, !.wire = <<>>]
           s1 == Set(Now, c, k1)
           s2 == Free(s1, c)
           q == Quit(s2.client[c])
           k3 == [q EXCEPT !.failing = tls]
           s3 == Set(s2, c, k3)
           s == CASE k.freed -> s1 [] ~k.freed /\ tls -> s3 [] OTHER -> Tell(s3, c, "failed")
<1>1. k.sock # "closed" /\ Become(s) /\ UNCHANGED <<made, taken, prompts>>
  BY DEF SocketError
<1>2. Fits(Now, c, Due) /\ k \in ClientRecs /\ Tidy(k, Due) /\ c \in 1..made /\ Due \in Nat
  BY <1>1, NowFits DEF Unused
<1>3. k1 \in ClientRecs /\ Tidy(k1, Due)
  BY <1>2, ShutTidy DEF Sockets
<1> HIDE DEF k1, end
<1>4. Fits(s1, c, Due)
  BY <1>2, <1>3, FitsSet
<1> HIDE DEF s1
<1>5. Fits(s2, c, Due)
  BY <1>2, <1>4, FreeFits
<1> HIDE DEF s2
<1>6. q \in ClientRecs /\ Tidy(q, Due)
  BY <1>2, <1>5, FitsFacts, QuitTidy
<1> HIDE DEF q
<1>7. /\ k3 \in ClientRecs /\ k3.wire = q.wire /\ k3.sock = q.sock /\ k3.fresh = q.fresh
      /\ k3.act = q.act /\ k3.retry = q.retry /\ k3.stale = q.stale
  BY <1>6 DEF ClientRecs
<1> HIDE DEF k3
<1>8. Tidy(k3, Due)
  BY <1>6, <1>7 DEF Tidy, Credit
<1>9. Fits(s3, c, Due)
  BY <1>5, <1>7, <1>8, FitsSet
<1> HIDE DEF s3
<1>10. Fits(Tell(s3, c, "failed"), c, Due)
  BY <1>9, TellFits
<1>11. Fits(s, c, Due)
  BY <1>4, <1>9, <1>10
<1> HIDE DEF s
<1>12. QED
  BY <1>1, <1>2, <1>11, QuietStep

\* What the user was asked.
LEMMA PromptedDue ==
  ASSUME TInv, LInv, NEW c \in 1..made, NEW asks, NEW again \in BOOLEAN, Prompted(asks, again),
         NEW s, Fits(s, c, IF again THEN Due + 1 ELSE Due), Become(s), UNCHANGED <<made, taken>>
  PROVE  TInv'
<1>1. c \in Clients
  BY FitsFacts
<1>2. prompts \in Nat /\ Cardinality(taken) \in Nat /\ MaxPrompts \in Nat
  BY <1>1, NowFits, SmtpAssumption
<1>3. CASE again
  <2>1. prompts' = prompts + 1 /\ prompts < MaxPrompts
    BY <1>3 DEF Prompted
  <2>2. prompts' \in 0..MaxPrompts /\ prompts <= prompts'
    BY <1>2, <2>1
  <2>3. prompts' + 2 * Cardinality(taken) = Due + 1
    BY <1>2, <2>1 DEF Due
  <2>4. Fits(s, c, prompts' + 2 * Cardinality(taken))
    BY <1>3, <2>3
  <2>5. QED
    BY <2>2, <2>4, TidyStep
<1>4. CASE ~again
  <2>1. prompts' = prompts /\ Fits(s, c, Due)
    BY <1>4 DEF Prompted
  <2>2. QED
    BY <2>1, QuietStep
<1>5. QED
  BY <1>3, <1>4

LEMMA ClosedTidy ==
  ASSUME TInv, LInv, NEW c \in Clients, NEW again \in BOOLEAN, Closed(c, again)
  PROVE  TInv'
<1> DEFINE k == client[c]
           k2 == [k EXCEPT !.sock = "closed", !.wire = <<>>]
           s1 == Set(Now, c, k2)
           s == OnClose(s1, c, again)
<1>1. Become(s) /\ UNCHANGED <<made, taken>> /\ Prompted(k.auth, again) /\ k.sock # "closed"
  BY DEF Closed
<1>2. Fits(Now, c, Due) /\ k \in ClientRecs /\ Tidy(k, Due) /\ c \in 1..made /\ Due \in Nat
  BY <1>1, NowFits DEF Unused
<1>3. k2 \in ClientRecs /\ Tidy(k2, Due)
  BY <1>2, ShutTidy DEF Sockets
<1> HIDE DEF k2
<1>4. Fits(s1, c, Due)
  BY <1>2, <1>3, FitsSet
<1> HIDE DEF s1
<1>5. Fits(s, c, IF again THEN Due + 1 ELSE Due)
  BY <1>2, <1>4, OnCloseFits
<1> HIDE DEF s
<1>6. QED
  BY <1>1, <1>2, <1>5, PromptedDue

LEMMA StaleClosedTidy ==
  ASSUME TInv, LInv, NEW c \in Clients, NEW again \in BOOLEAN, StaleClosed(c, again)
  PROVE  TInv'
<1> DEFINE k == client[c]
           n == k.stale - 1
           k2 == [k EXCEPT !.stale = n]
           s1 == Set(Now, c, k2)
           s == OnClose(s1, c, again)
<1>1. UNCHANGED <<made, taken>> /\ Prompted(k.auth, again) /\ k.stale > 0
  BY DEF StaleClosed
<1>2. k \in ClientRecs /\ k.stale \in Nat /\ Now \in States(taken) /\ Now.client = client
  BY NowFits DEF Fits, ClientRecs
<1>3. Fits(Now, c, Due) /\ Tidy(k, Due) /\ c \in 1..made /\ Due \in Nat
  BY <1>1, <1>2, NowFits DEF Unused
<1>4. Become(s)
  <2>1. [Now EXCEPT !.client[c].stale = @ - 1] = s1
    BY <1>2 DEF Set, States, ClientRecs
  <2>2. QED
    BY <2>1, Zenon DEF StaleClosed
<1>5. n \in Nat /\ n <= k.stale
  BY <1>1, <1>2
<1> HIDE DEF n
<1>6. /\ k2 \in ClientRecs /\ k2.wire = k.wire /\ k2.sock = k.sock /\ k2.fresh = k.fresh
      /\ k2.act = k.act /\ k2.retry = k.retry /\ k2.stale = n
  BY <1>2, <1>5 DEF ClientRecs
<1> HIDE DEF k2
<1>7. Tidy(k2, Due)
  <2>1. (k.wire # <<>> => k.sock = "open") /\ (k.sock = "open" /\ k.act \in Steps => ~k.fresh)
    BY <1>3 DEF Tidy
  <2>2. QED
    BY <1>2, <1>3, <1>5, <1>6, <2>1, TidyFrom
<1>8. Fits(s1, c, Due)
  BY <1>3, <1>6, <1>7, FitsSet
<1> HIDE DEF s1
<1>9. Fits(s, c, IF again THEN Due + 1 ELSE Due)
  BY <1>3, <1>8, OnCloseFits
<1> HIDE DEF s
<1>10. QED
  BY <1>1, <1>3, <1>4, <1>9, PromptedDue

\* A command less on the wire.
LEMMA TailTidy ==
  ASSUME NEW n \in Nat, NEW k \in ClientRecs, Tidy(k, n), k.sock = "open", NEW k2 \in ClientRecs,
         k2.sock = k.sock, k2.act = k.act, k2.fresh = k.fresh, k2.retry = k.retry,
         k2.stale = k.stale
  PROVE  Tidy(k2, n)
<1>1. (k.act \in Steps => ~k.fresh) /\ k.stale <= k.stale
  BY DEF Tidy, ClientRecs
<1>2. QED
  BY <1>1, TidyFrom

LEMMA AuthRejectedTidy ==
  ASSUME TInv, LInv, NEW c \in Clients, NEW again \in BOOLEAN, AuthRejected(c, again)
  PROVE  TInv'
<1> DEFINE k == client[c]
           t == Tail(k.wire)
           k1 == [k EXCEPT !.wire = t, !.auth = FALSE]
           s1 == Set(Now, c, k1)
           s == AuthFailed(s1, c, again)
<1>1. UNCHANGED <<made, taken>> /\ Prompted(TRUE, again) /\ k.sock = "open" /\ k.wire # <<>>
  BY DEF AuthRejected
<1>2. Fits(Now, c, Due) /\ k \in ClientRecs /\ Tidy(k, Due) /\ c \in 1..made /\ Due \in Nat
  BY <1>1, NowFits DEF Unused
<1>3. Become(s)
  <2>1. [k EXCEPT !.wire = Tail(@), !.auth = FALSE] = k1
    BY <1>2 DEF ClientRecs
  <2>2. QED
    BY <2>1, Zenon DEF AuthRejected
<1>4. k1 \in ClientRecs /\ Tidy(k1, Due)
  <2>1. k.wire \in Seq(Cmds)
    BY <1>2 DEF ClientRecs
  <2>2. t \in Seq(Cmds)
    BY <1>1, <2>1
  <2> HIDE DEF t
  <2>3. /\ k1 \in ClientRecs /\ k1.sock = k.sock /\ k1.act = k.act /\ k1.fresh = k.fresh
        /\ k1.retry = k.retry /\ k1.stale = k.stale
    BY <1>2, <2>2 DEF ClientRecs
  <2> HIDE DEF k1
  <2>4. QED
    BY <1>1, <1>2, <2>3, TailTidy
<1> HIDE DEF k1, t
<1>5. Fits(s1, c, Due)
  BY <1>2, <1>4, FitsSet
<1> HIDE DEF s1
<1>6. Fits(s, c, IF again THEN Due + 1 ELSE Due)
  BY <1>2, <1>5, AuthFailedFits
<1> HIDE DEF s
<1>7. QED
  BY <1>1, <1>2, <1>3, <1>6, PromptedDue

LEMMA ReplyTidy ==
  ASSUME TInv, LInv, NEW c \in Clients, NEW code \in ReplyCodes, Reply(c, code)
  PROVE  TInv'
<1> DEFINE k == client[c]
           cmd == Head(k.wire)
           w == Tail(k.wire)
           tx == Advance(cmd.name, k.tx, code)
           kq == [k EXCEPT !.wire = <<>>, !.sock = "gone"]
           kt == [k EXCEPT !.wire = w, !.tx = tx]
           k1 == IF cmd.name = "quit" THEN kq ELSE kt
           s1 == Set(Now, c, k1)
           s == Handle(s1, c, code)
<1>1. UNCHANGED <<made, taken, prompts>> /\ k.sock = "open" /\ k.wire # <<>>
  BY DEF Reply
<1>2. Fits(Now, c, Due) /\ k \in ClientRecs /\ Tidy(k, Due) /\ c \in 1..made /\ Due \in Nat
  BY <1>1, NowFits DEF Unused
<1>3. Become(s)
  <2>1. [k EXCEPT !.wire = Tail(@), !.tx = Advance(cmd.name, @, code)] = kt
    BY <1>2 DEF ClientRecs
  <2>2. QED
    BY <2>1, Zenon DEF Reply
<1>4. k.act \in Steps => ~k.fresh
  BY <1>1, <1>2 DEF Tidy
<1>5. kt \in ClientRecs /\ Tidy(kt, Due) /\ kt.act = k.act /\ kt.fresh = k.fresh
  <2>1. k.wire \in Seq(Cmds) /\ k.tx \in Transactions
    BY <1>2 DEF ClientRecs
  <2>2. cmd \in Cmds /\ w \in Seq(Cmds)
    BY <1>1, <2>1
  <2>3. cmd.name \in Names
    BY <2>2 DEF Cmds, Names
  <2>4. tx \in Transactions
    BY <2>1, <2>3, AdvanceType
  <2> HIDE DEF tx, cmd, w
  <2>5. /\ kt \in ClientRecs /\ kt.sock = k.sock /\ kt.act = k.act /\ kt.fresh = k.fresh
        /\ kt.retry = k.retry /\ kt.stale = k.stale
    BY <1>2, <2>2, <2>4 DEF ClientRecs
  <2> HIDE DEF kt
  <2>6. QED
    BY <1>1, <1>2, <2>5, TailTidy
<1>6. kq \in ClientRecs /\ Tidy(kq, Due) /\ kq.act = k.act /\ kq.fresh = k.fresh
  <2> DEFINE k2 == [k EXCEPT !.sock = "gone", !.wire = <<>>]
  <2>1. k2 \in ClientRecs /\ Tidy(k2, Due) /\ kq = k2
    BY <1>2, ShutTidy DEF Sockets
  <2>2. kq.act = k.act /\ kq.fresh = k.fresh
    BY <1>2 DEF ClientRecs
  <2>3. QED
    BY <2>1, <2>2
<1> HIDE DEF kt, kq, tx, w, cmd
<1>7. k1 \in ClientRecs /\ Tidy(k1, Due) /\ (k1.act \in Steps => ~k1.fresh)
  BY <1>4, <1>5, <1>6
<1> HIDE DEF k1
<1>8. Fits(s1, c, Due) /\ s1.client[c] = k1
  BY <1>2, <1>7, FitsSet
<1> HIDE DEF s1
<1>9. Fits(s, c, Due)
  BY <1>2, <1>7, <1>8, HandleFits
<1> HIDE DEF s
<1>10. QED
  BY <1>1, <1>2, <1>3, <1>9, QuietStep

\* A send takes a client: a socket that is still closing may be replaced, now and
\* once more when the send is retried.
LEMMA AssignTidy ==
  ASSUME NEW n \in Nat, NEW k \in ClientRecs, Tidy(k, n), NEW m \in Sends
  PROVE  LET k2 == Connect([k EXCEPT !.send = m, !.fresh = TRUE])
         IN  k2 \in ClientRecs /\ Tidy(k2, n + 2)
<1> DEFINE k0 == [k EXCEPT !.send = m, !.fresh = TRUE]
           k2 == Connect(k0)
<1>1. /\ k0 \in ClientRecs /\ k0.wire = k.wire /\ k0.sock = k.sock /\ k0.fresh = TRUE
      /\ k0.stale = k.stale
  BY DEF ClientRecs, Senders
<1> HIDE DEF k0
<1>2. k.stale \in Nat /\ Credit(k) \in Nat /\ Credit(k0) \in 0..1
  BY DEF ClientRecs, Credit
<1>3. k0.stale + Credit(k0) <= n + 1 /\ n + 1 \in Nat
  BY <1>1, <1>2 DEF Tidy
<1>4. k0.wire # <<>> => k0.sock = "open"
  BY <1>1 DEF Tidy
<1>5. k2 \in ClientRecs /\ Tidy(k2, (n + 1) + 1)
  BY <1>1, <1>3, <1>4, ConnectTidy
<1>6. (n + 1) + 1 = n + 2
  OBVIOUS
<1>7. QED
  BY <1>5, <1>6 DEF k0

\* One client more is given to a send.
LEMMA TakenTidy ==
  ASSUME TInv, LInv, NEW s \in States(taken), s.client = client, NEW c \in Clients,
         NEW m \in Sends, m \notin taken, Become(Assign(s, c, m)), taken' = taken \cup {m},
         made' \in Nat, made <= made', c <= made', prompts' = prompts
  PROVE  TInv'
<1> DEFINE k == client[c]
           k2 == Connect([k EXCEPT !.send = m, !.fresh = TRUE])
           b == s.busy \cup {c}
           s1 == [s EXCEPT !.busy = b]
           s2 == Set(s1, c, k2)
<1>1. /\ Due \in Nat /\ k \in ClientRecs /\ Tidy(k, Due) /\ prompts \in Nat
      /\ Cardinality(taken) \in Nat /\ made \in Nat
  BY NowFits, SmtpAssumption DEF LInv, Fine
<1>2. Assign(s, c, m) = s2
  BY DEF Assign
<1>3. k2 \in ClientRecs /\ Tidy(k2, Due + 2)
  BY <1>1, AssignTidy
<1> HIDE DEF k2
<1>4. b \in SUBSET Clients
  BY DEF States
<1> HIDE DEF b
<1>5. s1 \in States(taken) /\ s1.client = client
  BY <1>4 DEF States
<1> HIDE DEF s1
<1>6. s2.client[c] = k2 /\ \A d \in Clients : d # c => s2.client[d] = client[d]
  BY <1>3, <1>5, SetFields
<1>7. client' = s2.client
  BY <1>2 DEF Become
<1> HIDE DEF s2
<1>8. /\ IsFiniteSet(taken') /\ Cardinality(taken') = Cardinality(taken) + 1
      /\ taken' \subseteq Sends
  BY FS_AddElement DEF TInv
<1>9. prompts' + 2 * Cardinality(taken') = Due + 2
  BY <1>1, <1>8 DEF Due
<1>10. ASSUME NEW d \in Clients
       PROVE  /\ Tidy(client'[d], prompts' + 2 * Cardinality(taken'))
              /\ d > made' => client'[d] = NewClient
  <2>1. d \in Nat /\ c \in Nat
    BY SmtpAssumption DEF Clients
  <2>2. CASE d = c
    BY <1>3, <1>6, <1>7, <1>9, <2>1, <2>2
  <2>3. CASE d # c
    <3>1. client'[d] = client[d]
      BY <1>6, <1>7, <2>3
    <3>2. client[d] \in ClientRecs /\ Tidy(client[d], Due)
      BY NowFits
    <3>3. client[d].stale \in Nat /\ Credit(client[d]) \in Nat
      BY <3>2 DEF ClientRecs, Credit
    <3>4. Tidy(client[d], Due + 2)
      BY <1>1, <3>2, <3>3 DEF Tidy
    <3>5. d > made' => client[d] = NewClient
      BY <1>1, <2>1 DEF TInv
    <3>6. QED
      BY <1>9, <3>1, <3>4, <3>5
  <2>4. QED
    BY <2>2, <2>3
<1>11. prompts' \in 0..MaxPrompts
  BY DEF TInv
<1>12. QED
  BY <1>8, <1>10, <1>11 DEF TInv

LEMMA GetNextClientTidy ==
  ASSUME TInv, LInv, NEW m \in Sends, m \notin taken, GetNextClient(m), prompts' = prompts
  PROVE  TInv'
<1> DEFINE u == woken \ {m}
<1>1. /\ Now \in States(taken) /\ Now.client = client /\ made \in 0..MaxClients
      /\ made \in Nat /\ MaxClients \in Nat
      /\ \A i \in DOMAIN free : free[i] \in 1..made
  BY SmtpAssumption DEF LInv, Fine, Now
<1>2. /\ u \in SUBSET (Sends \ taken) /\ free \in Seq(Clients)
  BY <1>1 DEF Now, States
<1>3. CASE /\ free # <<>>
           /\ Become(Assign([Now EXCEPT !.free = Popped, !.woken = @ \ {m}], free[Len(free)], m))
           /\ taken' = taken \cup {m}
           /\ UNCHANGED <<made, waits>>
  <2> DEFINE p == Popped
             c == free[Len(free)]
             s == [Now EXCEPT !.free = p, !.woken = u]
  <2>1. p \in Seq(Clients) /\ c \in Clients /\ Len(free) \in DOMAIN free
    BY <1>2, <1>3 DEF Popped
  <2>2. [Now EXCEPT !.free = Popped, !.woken = @ \ {m}] = s
    BY DEF Now
  <2> HIDE DEF p, u
  <2>3. s \in States(taken) /\ s.client = client
    BY <1>1, <1>2, <2>1 DEF States
  <2>4. c \in 1..made /\ c <= made
    BY <1>1, <2>1
  <2>5. made' \in Nat /\ made <= made' /\ c <= made'
    BY <1>1, <1>3, <2>4
  <2>6. Become(Assign(s, c, m))
    BY <1>3, <2>2
  <2> HIDE DEF s, c
  <2>7. QED
    BY <1>3, <2>1, <2>3, <2>5, <2>6, TakenTidy
<1>4. CASE /\ free = <<>> /\ made < MaxClients /\ made' = made + 1
           /\ Become(Assign([Now EXCEPT !.woken = @ \ {m}], made + 1, m))
           /\ taken' = taken \cup {m}
           /\ UNCHANGED waits
  <2> DEFINE c == made + 1
             s == [Now EXCEPT !.woken = u]
  <2>1. c \in Clients /\ made' \in Nat /\ made <= made' /\ c <= made'
    BY <1>1, <1>4 DEF Clients
  <2>2. [Now EXCEPT !.woken = @ \ {m}] = s
    BY DEF Now
  <2> HIDE DEF u
  <2>3. s \in States(taken) /\ s.client = client
    BY <1>1, <1>2 DEF States
  <2>4. Become(Assign(s, c, m))
    BY <1>4, <2>2
  <2> HIDE DEF s, c
  <2>5. QED
    BY <1>4, <2>1, <2>3, <2>4, TakenTidy
<1>5. CASE /\ Become([Now EXCEPT !.woken = @ \ {m},
                                 !.waiting = Append(@, [send |-> m, n |-> waits[m] + 1])])
           /\ UNCHANGED <<made, taken>>
  <2>1. client' = client
    BY <1>5 DEF Become, Now
  <2>2. QED
    BY <1>5, <2>1 DEF TInv
<1>6. QED
  BY <1>3, <1>4, <1>5 DEF GetNextClient

LEMMA SendsTidy ==
  ASSUME TInv, LInv, NEW m \in Sends, SendMailMessage(m) \/ Resume(m)
  PROVE  TInv'
<1>1. m \notin taken
  BY DEF SendMailMessage, Resume, LInv, Fine, Now, States
<1>2. GetNextClient(m) /\ prompts' = prompts
  BY DEF SendMailMessage, Resume
<1>3. QED
  BY <1>1, <1>2, GetNextClientTidy

LEMMA InitTidy == Init => TInv
<1> SUFFICES ASSUME Init PROVE TInv
  OBVIOUS
<1>1. taken = {} /\ prompts = 0 /\ \A c \in Clients : client[c] = NewClient
  BY DEF Init
<1>2. IsFiniteSet(taken) /\ Cardinality(taken) = 0
  BY <1>1, FS_EmptySet
<1>3. Tidy(NewClient, 0)
  BY DEF Tidy, Credit, NewClient, Steps
<1>4. prompts \in 0..MaxPrompts /\ prompts + 2 * Cardinality(taken) = 0
  BY <1>1, <1>2, SmtpAssumption
<1>5. QED
  BY <1>1, <1>2, <1>3, <1>4 DEF TInv

LEMMA NextTidy ==
  ASSUME TInv, LInv, [Next]_vars
  PROVE  TInv'
<1>1. CASE Next
  <2>1. ASSUME NEW m \in Sends, SendMailMessage(m) \/ Resume(m)
        PROVE  TInv'
    BY <2>1, SendsTidy
  <2>2. ASSUME NEW c \in Clients, NEW code \in ReplyCodes, Reply(c, code)
        PROVE  TInv'
    BY <2>2, ReplyTidy
  <2>3. ASSUME NEW c \in Clients, Opened(c) \/ ErrorInfo(c) \/ QuitTimer(c)
        PROVE  TInv'
    BY <2>3, OpenedTidy, ErrorInfoTidy, QuitTimerTidy
  <2>4. ASSUME NEW c \in Clients, NEW again \in BOOLEAN,
               Closed(c, again) \/ StaleClosed(c, again) \/ AuthRejected(c, again)
        PROVE  TInv'
    BY <2>4, ClosedTidy, StaleClosedTidy, AuthRejectedTidy
  <2>5. ASSUME NEW c \in Clients, NEW accepted \in BOOLEAN,
               HangUp(c, accepted) \/ \E tls \in BOOLEAN : SocketError(c, tls, accepted)
        PROVE  TInv'
    BY <2>5, HangUpTidy, SocketErrorTidy
  <2>6. QED
    BY <1>1, <2>1, <2>2, <2>3, <2>4, <2>5 DEF Next, Step, ReplyCodes
<1>2. CASE UNCHANGED vars
  BY <1>2 DEF vars, TInv
<1>3. QED
  BY <1>1, <1>2

\* For any number of messages, clients and connections and any faults: the records of the
\* pool have their types, only clients that were made are handed out, commands are on the
\* wire of an open socket alone, and a client is not overtaken by the close events of its
\* earlier sockets: it has at most one for each send that took it, one for the retry in
\* _onNsError of each and one for each new login after _onAuthFailed.
THEOREM SmtpTypeCorrect ==
  ASSUME IsFiniteSet(Sends)
  PROVE  Spec => []TypeOK
<1>1. TInv /\ LInv /\ [Next]_vars => TInv'
  BY NextTidy
<1>2. TInv /\ LInv => TypeOK
  <2> SUFFICES ASSUME TInv, LInv PROVE TypeOK
    OBVIOUS
  <2>1. /\ Now \in States(taken) /\ made \in 0..MaxClients
        /\ \A i \in DOMAIN free : free[i] \in 1..made
        /\ busy \subseteq 1..made
    BY DEF LInv, Fine, Now
  <2>2. /\ woken \subseteq Sends \ taken
        /\ told \in [Sends -> {"no", "ok", "failed"}]
    BY <2>1 DEF States, Now
  <2>3. Cardinality(taken) <= Cardinality(Sends) /\ Cardinality(Sends) \in Nat
    BY FS_Subset, FS_CardinalityType DEF TInv
  <2>4. taken \subseteq Sends /\ prompts \in 0..MaxPrompts
    BY DEF TInv
  <2>5. ASSUME NEW c \in Clients
        PROVE  LET k == client[c]
               IN  /\ k.sock \in Sockets /\ k.act \in Actions /\ k.tx \in Transactions
                   /\ k.send \in Sends \cup {NoSend}
                   /\ k.stale \in 0..(MaxPrompts + 2 * Cardinality(Sends))
                   /\ k.wire # <<>> => k.sock = "open"
                   /\ c > made => k = NewClient
    <3> DEFINE k == client[c]
    <3>1. /\ k \in ClientRecs /\ Tidy(k, Due) /\ Due \in Nat
          /\ Cardinality(taken) \in Nat /\ prompts \in Nat
      BY NowFits
    <3>2. c > made => k = NewClient
      BY DEF TInv
    <3>3. /\ k.sock \in Sockets /\ k.act \in Actions /\ k.tx \in Transactions
          /\ k.send \in Sends \cup {NoSend} /\ k.stale \in Nat
      BY <3>1 DEF ClientRecs, Senders
    <3>4. Credit(k) \in Nat /\ k.stale + Credit(k) <= Due /\ (k.wire # <<>> => k.sock = "open")
      BY <3>1 DEF Credit, Tidy
    <3>5. MaxPrompts \in Nat /\ prompts <= MaxPrompts
      BY <2>4, SmtpAssumption
    <3>6. k.stale \in 0..(MaxPrompts + 2 * Cardinality(Sends))
      BY <2>3, <3>1, <3>3, <3>4, <3>5 DEF Due
    <3>7. QED
      BY <3>2, <3>3, <3>4, <3>6
  <2>6. QED
    BY <2>1, <2>2, <2>4, <2>5 DEF TypeOK
<1>3. QED
  BY <1>1, <1>2, InitTidy, SmtpLines, PTL DEF Spec
=============================================================================
