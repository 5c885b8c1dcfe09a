---------------------------- MODULE CardDavProofs ----------------------------
(***************************************************************************)
(* Proofs about CardDav: types, _syncInProgress, and the changes of the    *)
(* user that the server has yet to get.                                    *)
(***************************************************************************)
EXTENDS CardDav, SequenceTheorems, FiniteSetTheorems, TLAPS

-----------------------------------------------------------------------------
(* Types.                                                                  *)

Values == 0..Blank
LocalCards(rv) == {x \in [v : Values, etag : 0..rv, href : BOOLEAN] :
                     x.href => x.v # Absent /\ x.etag > 0}
ServerCards(rv) == {x \in [v : Values, etag : 0..rv] : x.v # Absent => x.etag > 0}

Lists == UNION {[D -> [v : Values, etag : Nat]] : D \in SUBSET Cards}
Reports == [cards : Lists, rev : Nat, data : BOOLEAN]
Pairs == (SUBSET Cards) \X (SUBSET Cards)

\* What a request can be about, its argument and its answer.
Topics == Cards \cup SUBSET Cards
Args == Nat \cup {{}} \cup Pairs
Answers == {<<>>} \cup Nat \cup [v : Values, etag : Nat] \cup Reports \cup Lists

Makers == {"user", "sync", "first"}
CardKinds == {"put", "get", "delete"}
FetchKinds == {"list", "bulk", "token"}
Kinds == CardKinds \cup FetchKinds \cup {"report", "propfind", "multiget"}

Reqs == [by : Makers, kind : Kinds, card : Topics, arg : Args,
         st : {"sent", "ok", "failed", "refused"}, ans : Answers]

ListOK(a, rv) ==
    /\ DOMAIN a \in SUBSET Cards
    /\ \A c \in DOMAIN a : a[c] \in ServerCards(rv)

AnswerOK(kind, a, rv) ==
    /\ kind = "get" => a \in ServerCards(rv)
    /\ kind = "report" => ListOK(a.cards, rv) /\ a.rev \in 0..rv /\ a.data \in BOOLEAN
    /\ kind \in {"propfind", "list", "multiget", "bulk"} =>
         ListOK(a, rv) /\ \A c \in DOMAIN a : a[c].v # Absent
    /\ kind = "token" => a \in 0..rv

RequestOK(r, rv) ==
    /\ r.kind \in CardKinds => r.card \in Cards
    /\ r.kind = "put" => r.arg \in Values
    /\ r.kind = "delete" /\ r.by = "user" => r.arg \in Pairs
    /\ r.kind = "multiget" => r.arg \in 0..rv
    /\ r.by = "user" => r.kind \in CardKinds
    /\ r.by = "first" => r.kind \in FetchKinds
    /\ r.st = "ok" => AnswerOK(r.kind, r.ans, rv)
    /\ r.st = "refused" => r.kind \in {"put", "delete", "report"}

GoodReqs(rv) == {r \in Reqs : RequestOK(r, rv)}
Loops == [at : {"idle", "remove", "upload", "update"}, seen : SUBSET Cards]

\* The part of the state that the directory's functions change.
States(rv) ==
    [local : [Cards -> LocalCards(rv)], toSync : SUBSET Cards, toRemove : SUBSET Cards,
     token : 0..rv, progress : BOOLEAN, loop : Loops, wire : Seq(GoodReqs(rv))]

TypeInv ==
    /\ Now \in States(rev)
    /\ rev \in Nat /\ changes \in 0..MaxChanges
    /\ server \in [Cards -> ServerCards(rev)]
    /\ prefs \in [uids : SUBSET Cards, hrefs : SUBSET Cards]
    /\ want \in [Cards -> Values]
    /\ due \in SUBSET Cards /\ lost \in SUBSET Cards /\ shared \in SUBSET Cards
    /\ online \in BOOLEAN /\ running \in BOOLEAN

-----------------------------------------------------------------------------
(* Requests on the wire.                                                   *)

None(w, X) == \A i \in DOMAIN w : w[i] \notin X

\* A request of X is on the wire, and none of Y behind it.
Last(w, X, Y) ==
    \E i \in DOMAIN w : w[i] \in X /\ \A j \in DOMAIN w : j > i => w[j] \notin Y

NonUser == {r \in Reqs : r.by # "user"}
BySync == {r \in Reqs : r.by = "sync"}
ByFirst == {r \in Reqs : r.by = "first"}
Puts(c, v) == {r \in Reqs : r.kind = "put" /\ r.card = c /\ r.arg = v}
UserPuts(c, v) == {r \in Puts(c, v) : r.by = "user" /\ r.st = "sent"}
SyncPuts(c, v) == {r \in Puts(c, v) : r.by = "sync" /\ r.st \in {"sent", "refused"}}
Transfers(c) == {r \in Reqs : r.kind \in {"put", "get"} /\ r.card = c}
Deletes(c) == {r \in Reqs : r.kind = "delete" /\ r.card = c}
UserDeletes(c) == {r \in Deletes(c) : r.by = "user"}
SentDeletes(c, by) == {r \in Deletes(c) : r.by = by /\ r.st = "sent"}

\* The loop of syncWithServer that makes requests of a kind.
Phase(kind) ==
    CASE kind = "delete" -> "remove"
      [] kind \in {"put", "get"} -> "upload"
      [] OTHER -> "update"

\* At most one function other than those of the user is under way, and if it is
\* syncWithServer, then in the loop its request belongs to.
Task(s) ==
    /\ \A i, j \in DOMAIN s.wire : s.wire[i] \in NonUser /\ s.wire[j] \in NonUser => i = j
    /\ \A i \in DOMAIN s.wire : s.wire[i].by = "sync" => s.loop.at = Phase(s.wire[i].kind)
    /\ None(s.wire, BySync) => s.loop = Idle
    /\ ~None(s.wire, NonUser) => s.progress

LineInv ==
    /\ \A i \in DOMAIN wire : online <=> wire[i].st # "failed"
    /\ ~running => ~online /\ wire = <<>>
    /\ running => prefs.uids = {} /\ prefs.hrefs = {}

TaskInv == Task(Now)

FlagInv ==
    /\ progress => ~None(wire, NonUser)
    /\ ~online => None(wire, ByFirst)

-----------------------------------------------------------------------------
(* The user's changes.                                                     *)

\* The card is noted for upload, and nothing can change it until then.
Noted(s, c, v) ==
    /\ c \in s.toSync /\ s.local[c].v = v
    /\ None(s.wire, UserDeletes(c))
    /\ None(s.wire, Transfers(c) \ SyncPuts(c, v))
    /\ None(s.wire, SyncPuts(c, v)) =>
         /\ s.loop.at = "upload" => c \notin s.loop.seen
         /\ s.loop.at # "update"
         /\ None(s.wire, ByFirst)

\* A card that the user has saved as v: while online, the user's PUT waits to be served,
\* or the card is noted.
SavedOnline(s, c, v) == Last(s.wire, UserPuts(c, v), UserDeletes(c)) \/ Noted(s, c, v)

SavedOffline(s, c, v, uids) ==
    /\ s.local[c].v = v
    /\ \/ Last(s.wire, Puts(c, v), UserDeletes(c))
       \/ c \in s.toSync \cup uids /\ None(s.wire, UserDeletes(c))

\* A card that the user has deleted.
Listed(s, c) ==
    /\ c \in s.toRemove
    /\ s.loop.at = "remove" /\ c \in s.loop.seen => ~None(s.wire, SentDeletes(c, "sync"))

GoneOnline(s, c) == ~None(s.wire, SentDeletes(c, "user")) \/ Listed(s, c)

GoneOffline(s, c, hrefs) == ~None(s.wire, Deletes(c)) \/ c \in s.toRemove \cup hrefs

Kept(s, on, c, v, pf) ==
    /\ on /\ v # Absent => SavedOnline(s, c, v)
    /\ ~on /\ v # Absent => SavedOffline(s, c, v, pf.uids)
    /\ on /\ v = Absent => GoneOnline(s, c)
    /\ ~on /\ v = Absent => GoneOffline(s, c, pf.hrefs)

\* The user's removals are for one card each.
Single(w) ==
    \A i \in DOMAIN w : w[i].kind = "delete" /\ w[i].by = "user" =>
                          w[i].arg[1] = {w[i].card} /\ w[i].arg[2] = {}

KeptInv ==
    /\ \A c \in due : c \notin shared /\ Kept(Now, online, c, want[c], prefs)
    /\ Single(wire)
    /\ ~running => toSync = {} /\ toRemove = {}

-----------------------------------------------------------------------------
(* Lemmas about the wire.                                                  *)

LEMMA AppendIs ==
  ASSUME NEW S, NEW w \in Seq(S), NEW r \in S
  PROVE  /\ Append(w, r) \in Seq(S)
         /\ DOMAIN w = 1..Len(w) /\ Len(w) \in Nat
         /\ DOMAIN Append(w, r) = 1..(Len(w) + 1)
         /\ \A i \in 1..Len(w) : Append(w, r)[i] = w[i]
         /\ Append(w, r)[Len(w) + 1] = r
  OBVIOUS

LEMMA TailIs ==
  ASSUME NEW S, NEW w \in Seq(S), w # <<>>
  PROVE  /\ Tail(w) \in Seq(S) /\ Head(w) \in S /\ Head(w) = w[1] /\ 1 \in DOMAIN w
         /\ DOMAIN w = 1..Len(w) /\ Len(w) \in Nat
         /\ DOMAIN Tail(w) = 1..(Len(w) - 1)
         /\ \A i \in DOMAIN Tail(w) : Tail(w)[i] = w[i + 1] /\ i + 1 \in DOMAIN w
         /\ \A i \in DOMAIN w : i # 1 => i - 1 \in DOMAIN Tail(w) /\ Tail(w)[i - 1] = w[i]
  OBVIOUS

LEMMA NoneAppend ==
  ASSUME NEW S, NEW w \in Seq(S), NEW r \in S, NEW X
  PROVE  None(Append(w, r), X) <=> None(w, X) /\ r \notin X
<1> DEFINE v == Append(w, r)
<1>1. /\ DOMAIN w = 1..Len(w) /\ Len(w) \in Nat /\ DOMAIN v = 1..(Len(w) + 1)
      /\ \A i \in 1..Len(w) : v[i] = w[i]
      /\ v[Len(w) + 1] = r
  BY AppendIs
<1> HIDE DEF v
<1>2. \A i \in DOMAIN v : (i \in DOMAIN w /\ v[i] = w[i]) \/ v[i] = r
  BY <1>1
<1>3. \A i \in DOMAIN w : i \in DOMAIN v /\ v[i] = w[i]
  BY <1>1
<1>4. Len(w) + 1 \in DOMAIN v
  BY <1>1
<1>5. None(v, X) <=> None(w, X) /\ r \notin X
  BY <1>1, <1>2, <1>3, <1>4 DEF None
<1>6. QED
  BY <1>5 DEF v

LEMMA NoneTail ==
  ASSUME NEW S, NEW w \in Seq(S), w # <<>>, NEW X
  PROVE  None(w, X) <=> None(Tail(w), X) /\ Head(w) \notin X
<1> DEFINE v == Tail(w)
<1>1. /\ Head(w) = w[1] /\ 1 \in DOMAIN w
      /\ \A i \in DOMAIN v : v[i] = w[i + 1] /\ i + 1 \in DOMAIN w
      /\ \A i \in DOMAIN w : i # 1 => i - 1 \in DOMAIN v /\ v[i - 1] = w[i]
  BY TailIs
<1> HIDE DEF v
<1>2. None(w, X) <=> None(v, X) /\ Head(w) \notin X
  BY <1>1 DEF None
<1>3. QED
  BY <1>2 DEF v

LEMMA LastAppend ==
  ASSUME NEW S, NEW w \in Seq(S), NEW r \in S, NEW X, NEW Y,
         r \in X \/ (r \notin Y /\ Last(w, X, Y))
  PROVE  Last(Append(w, r), X, Y)
<1> DEFINE v == Append(w, r)
<1>1. /\ DOMAIN w = 1..Len(w) /\ Len(w) \in Nat /\ DOMAIN v = 1..(Len(w) + 1)
      /\ \A i \in 1..Len(w) : v[i] = w[i]
      /\ v[Len(w) + 1] = r
  BY AppendIs
<1> HIDE DEF v
<1>2. CASE r \in X
  <2>1. Len(w) + 1 \in DOMAIN v /\ \A j \in DOMAIN v : ~(j > Len(w) + 1)
    BY <1>1
  <2>2. Last(v, X, Y)
    BY <1>1, <1>2, <2>1 DEF Last
  <2>3. QED
    BY <2>2 DEF v
<1>3. CASE r \notin Y /\ Last(w, X, Y)
  <2>1. PICK i \in DOMAIN w : w[i] \in X /\ \A j \in DOMAIN w : j > i => w[j] \notin Y
    BY <1>3 DEF Last
  <2>2. i \in DOMAIN v /\ v[i] \in X
    BY <1>1, <2>1
  <2>3. \A j \in DOMAIN v : j > i => v[j] \notin Y
    BY <1>1, <1>3, <2>1
  <2>4. Last(v, X, Y)
    BY <2>2, <2>3 DEF Last
  <2>5. QED
    BY <2>4 DEF v
<1>4. QED
  BY <1>2, <1>3

LEMMA LastTail ==
  ASSUME NEW S, NEW w \in Seq(S), w # <<>>, NEW X, NEW Y, Last(w, X, Y)
  PROVE  Last(Tail(w), X, Y) \/ (Head(w) \in X /\ None(Tail(w), Y))
<1> DEFINE v == Tail(w)
<1>1. /\ Head(w) = w[1] /\ 1 \in DOMAIN w /\ DOMAIN w = 1..Len(w) /\ Len(w) \in Nat
      /\ DOMAIN v = 1..(Len(w) - 1)
      /\ \A i \in DOMAIN v : v[i] = w[i + 1] /\ i + 1 \in DOMAIN w
      /\ \A i \in DOMAIN w : i # 1 => i - 1 \in DOMAIN v /\ v[i - 1] = w[i]
  BY TailIs
<1> HIDE DEF v
<1>2. PICK i \in DOMAIN w : w[i] \in X /\ \A j \in DOMAIN w : j > i => w[j] \notin Y
  BY DEF Last
<1>3. CASE i = 1
  <2>1. \A j \in DOMAIN v : j + 1 > 1 /\ j + 1 \in DOMAIN w /\ v[j] = w[j + 1]
    BY <1>1
  <2>2. None(v, Y)
    BY <1>2, <1>3, <2>1 DEF None
  <2>3. QED
    BY <1>1, <1>2, <1>3, <2>2 DEF v
<1>4. CASE i # 1
  <2>1. i - 1 \in DOMAIN v /\ v[i - 1] \in X
    BY <1>1, <1>2, <1>4
  <2>2. ASSUME NEW j \in DOMAIN v, j > i - 1 PROVE v[j] \notin Y
    <3>1. j + 1 \in DOMAIN w /\ j + 1 > i /\ v[j] = w[j + 1]
      BY <1>1, <2>2
    <3>2. QED
      BY <1>2, <3>1
  <2>3. Last(v, X, Y)
    BY <2>1, <2>2 DEF Last
  <2>4. QED
    BY <2>3 DEF v
<1>5. QED
  BY <1>3, <1>4

\* A request as it is put on the wire.
Sent(r) == IF online THEN r ELSE [r EXCEPT !.st = "failed"]
Fresh(r) == r.st = IF online THEN "sent" ELSE "failed"

LEMMA SentIs ==
  ASSUME NEW by \in Makers, NEW kind \in Kinds, NEW c \in Topics, NEW arg \in Args, NEW rv \in Nat,
         kind \in CardKinds => c \in Cards,
         kind = "put" => arg \in Values,
         kind = "delete" /\ by = "user" => arg \in Pairs,
         kind = "multiget" => arg \in 0..rv,
         by = "user" => kind \in CardKinds,
         by = "first" => kind \in FetchKinds
  PROVE  LET r == Sent(Request(by, kind, c, arg))
         IN  /\ r \in GoodReqs(rv) /\ r \in Reqs
             /\ r.by = by /\ r.kind = kind /\ r.card = c /\ r.arg = arg
             /\ r.st = IF online THEN "sent" ELSE "failed"
<1> DEFINE st == IF online THEN "sent" ELSE "failed"
           e == <<>>
           r == [by |-> by, kind |-> kind, card |-> c, arg |-> arg, st |-> st, ans |-> e]
<1>1. Sent(Request(by, kind, c, arg)) = r
  BY DEF Sent, Request
<1>2. st \in {"sent", "failed"} /\ e \in Answers
  BY DEF Answers
<1>3. st \in {"sent", "ok", "failed", "refused"}
  BY <1>2
<1> HIDE DEF st, e
<1>4. /\ r \in Reqs /\ r.by = by /\ r.kind = kind /\ r.card = c /\ r.arg = arg /\ r.st = st
  BY <1>2, <1>3 DEF Reqs
<1> HIDE DEF r
<1>5. RequestOK(r, rv)
  BY <1>2, <1>4 DEF RequestOK
<1>6. QED
  BY <1>1, <1>4, <1>5 DEF GoodReqs, st

LEMMA SendIs ==
  ASSUME NEW rv \in Nat, NEW s \in States(rv), NEW r, Sent(r) \in GoodReqs(rv)
  PROVE  /\ Send(s, r) \in States(rv) /\ Send(s, r).local = s.local /\ Send(s, r).toSync = s.toSync
         /\ Send(s, r).toRemove = s.toRemove /\ Send(s, r).token = s.token
         /\ Send(s, r).progress = s.progress /\ Send(s, r).loop = s.loop
         /\ Send(s, r).wire = Append(s.wire, Sent(r))
<1> DEFINE w == Append(s.wire, Sent(r))
           s2 == [s EXCEPT !.wire = w]
<1>1. s.wire \in Seq(GoodReqs(rv))
  BY DEF States
<1>2. w \in Seq(GoodReqs(rv))
  BY <1>1
<1>3. Send(s, r) = s2
  BY DEF Send, Sent, States
<1> HIDE DEF w
<1>4. /\ s2 \in States(rv) /\ s2.local = s.local /\ s2.toSync = s.toSync
      /\ s2.toRemove = s.toRemove /\ s2.token = s.token /\ s2.progress = s.progress
      /\ s2.loop = s.loop /\ s2.wire = w
  BY <1>2 DEF States
<1> HIDE DEF s2
<1>5. QED
  BY <1>3, <1>4 DEF w

-----------------------------------------------------------------------------
(* What a function leaves behind: types, and which function is under way.  *)

\* A function other than those of the user may go on.
Ready(s) == s \in States(rev) /\ None(s.wire, NonUser)

\* A synchronisation or fetchAllFromServer is under way, or none is.
Flagged(s) == s.progress <=> ~None(s.wire, NonUser)

Result(s) == s \in States(rev) /\ Task(s) /\ Flagged(s)

LEMMA SetsOf ==
  /\ \A r \in Reqs : r \in NonUser <=> r.by # "user"
  /\ \A r \in Reqs : r \in BySync <=> r.by = "sync"
  /\ \A r \in Reqs : r \in ByFirst <=> r.by = "first"
  BY DEF NonUser, BySync, ByFirst

LEMMA GoodSeq ==
  ASSUME NEW rv, NEW w \in Seq(GoodReqs(rv))
  PROVE  \A i \in DOMAIN w : w[i] \in Reqs /\ w[i] \in GoodReqs(rv)
  BY DEF GoodReqs

LEMMA QuietTask ==
  ASSUME NEW s, Ready(s), s.loop = Idle
  PROVE  Task(s)
<1>1. \A i \in DOMAIN s.wire : s.wire[i] \in Reqs
  BY GoodSeq DEF Ready, States
<1>2. \A i \in DOMAIN s.wire : s.wire[i] \notin NonUser
  BY DEF Ready, None
<1>3. \A i \in DOMAIN s.wire : s.wire[i].by # "sync"
  BY <1>1, <1>2, SetsOf
<1>4. QED
  BY <1>2, <1>3 DEF Task, None, Ready

LEMMA SendTask ==
  ASSUME rev \in Nat, NEW s, Ready(s), s.progress, NEW q, Sent(q) \in GoodReqs(rev), Sent(q).by # "user",
         Sent(q).by = "sync" => s.loop.at = Phase(Sent(q).kind),
         Sent(q).by # "sync" => s.loop = Idle
  PROVE  Result(Send(s, q))
<1> DEFINE r == Sent(q)
           s2 == Send(s, q)
           w == s.wire
           v == s2.wire
<1>1. s \in States(rev) /\ w \in Seq(GoodReqs(rev)) /\ None(w, NonUser)
  BY DEF Ready, States
<1>2. /\ s2 \in States(rev) /\ s2.progress = s.progress /\ s2.loop = s.loop /\ v = Append(w, r)
  BY <1>1, SendIs
<1> HIDE DEF s2
<1>3. /\ DOMAIN w = 1..Len(w) /\ Len(w) \in Nat /\ DOMAIN v = 1..(Len(w) + 1)
      /\ \A i \in 1..Len(w) : v[i] = w[i]
      /\ v[Len(w) + 1] = r
  BY <1>1, <1>2, AppendIs
<1>4. r \in Reqs /\ r \in NonUser
  BY SetsOf DEF GoodReqs
<1> HIDE DEF r, w
<1>5. \A i \in DOMAIN v : v[i] \in NonUser => i = Len(w) + 1
  BY <1>1, <1>3 DEF None
<1>6. \A i \in DOMAIN v : v[i].by = "sync" => v[i] \in NonUser
  BY <1>2, GoodSeq, SetsOf DEF States
<1>7. ~None(v, NonUser)
  BY <1>3, <1>4 DEF None
<1>8. \A i \in DOMAIN v : v[i].by = "sync" => v[i] = r
  BY <1>3, <1>5, <1>6
<1>9. None(v, BySync) => r.by # "sync"
  BY <1>3, <1>4, SetsOf DEF None
<1>10. Task(s2)
  BY <1>2, <1>5, <1>7, <1>8, <1>9 DEF Task, r
<1>11. QED
  BY <1>2, <1>7, <1>10 DEF Result, Flagged, s2

LEMMA SendUserTask ==
  ASSUME rev \in Nat, NEW s \in States(rev), Task(s), NEW q, Sent(q) \in GoodReqs(rev), Sent(q).by = "user"
  PROVE  /\ Send(s, q) \in States(rev) /\ Task(Send(s, q))
         /\ None(Send(s, q).wire, NonUser) <=> None(s.wire, NonUser)
         /\ None(Send(s, q).wire, ByFirst) <=> None(s.wire, ByFirst)
<1> DEFINE r == Sent(q)
           s2 == Send(s, q)
           w == s.wire
           v == s2.wire
<1>1. w \in Seq(GoodReqs(rev))
  BY DEF States
<1>2. /\ s2 \in States(rev) /\ s2.progress = s.progress /\ s2.loop = s.loop /\ v = Append(w, r)
  BY SendIs
<1> HIDE DEF s2
<1>3. /\ DOMAIN w = 1..Len(w) /\ Len(w) \in Nat /\ DOMAIN v = 1..(Len(w) + 1)
      /\ \A i \in 1..Len(w) : v[i] = w[i]
      /\ v[Len(w) + 1] = r
  BY <1>1, <1>2, AppendIs
<1>4. r \in Reqs /\ r \notin NonUser /\ r \notin BySync /\ r \notin ByFirst
  BY SetsOf DEF GoodReqs
<1>5. /\ None(v, NonUser) <=> None(w, NonUser)
      /\ None(v, BySync) <=> None(w, BySync)
      /\ None(v, ByFirst) <=> None(w, ByFirst)
  BY <1>1, <1>2, <1>4, NoneAppend
<1> HIDE DEF r
<1>6. \A i \in DOMAIN v : v[i] \in NonUser \/ v[i].by = "sync" => i \in DOMAIN w /\ v[i] = w[i]
  BY <1>3, <1>4 DEF r
<1>7. Task(s2)
  BY <1>2, <1>5, <1>6 DEF Task
<1>8. QED
  BY <1>2, <1>5, <1>7 DEF s2

\* Other parts of the state do not matter to Task.
LEMMA SameTask ==
  ASSUME NEW s, NEW s2, s2.wire = s.wire, Task(s), s2.loop.at = s.loop.at,
         s.loop = Idle => s2.loop = Idle, s2.progress = s.progress
  PROVE  Task(s2)
  BY DEF Task

LEMMA ThrowIs ==
  ASSUME rev \in Nat, NEW s, Ready(s), NEW by \in {"sync", "first"}, by = "first" => s.loop = Idle
  PROVE  /\ Throw(s, by) \in States(rev) /\ Task(Throw(s, by)) /\ Throw(s, by).wire = s.wire
         /\ Throw(s, by).local = s.local /\ Throw(s, by).toSync = s.toSync
         /\ Throw(s, by).toRemove = s.toRemove /\ Throw(s, by).loop = Idle
         /\ by = "sync" => Flagged(Throw(s, by))
<1> DEFINE f == FALSE
           l == Idle
           s2 == [s EXCEPT !.progress = f, !.loop = l]
<1>1. l \in Loops /\ f \in BOOLEAN /\ s \in States(rev)
  BY DEF Idle, Loops, Ready
<1>2. CASE by = "first"
  BY <1>2, <1>1, QuietTask DEF Throw
<1>3. CASE by = "sync"
  <2>1. Throw(s, by) = s2
    BY <1>3 DEF Throw
  <2> HIDE DEF f, l
  <2>2. /\ s2 \in States(rev) /\ s2.wire = s.wire /\ s2.local = s.local /\ s2.toSync = s.toSync
        /\ s2.toRemove = s.toRemove /\ s2.loop = l /\ s2.progress = f
    BY <1>1 DEF States
  <2> HIDE DEF s2
  <2>3. Ready(s2) /\ s2.loop = Idle
    BY <2>2 DEF Ready, l
  <2>4. Flagged(s2)
    BY <2>2 DEF Flagged, Ready, f
  <2>5. QED
    BY <2>1, <2>2, <2>3, <2>4, QuietTask
<1>4. QED
  BY <1>2, <1>3

LEMMA SyncedIs ==
  ASSUME rev \in Nat, NEW s, Ready(s)
  PROVE  Result(Synced(s))
<1>1. Synced(s) = Throw(s, "sync")
  BY DEF Synced, Throw
<1>2. QED
  BY <1>1, ThrowIs DEF Result

-----------------------------------------------------------------------------
(* The loops of syncWithServer.                                            *)

LEMMA SyncUpdateIs ==
  ASSUME rev \in Nat, NEW s, Ready(s), s.progress
  PROVE  /\ Result(SyncUpdate(s))
         /\ SyncUpdate(s).local = s.local /\ SyncUpdate(s).toSync = {}
         /\ SyncUpdate(s).toRemove = s.toRemove /\ SyncUpdate(s).loop.at = "update"
         /\ \E r \in GoodReqs(rev) : /\ SyncUpdate(s).wire = Append(s.wire, r)
                                     /\ r.by = "sync" /\ r.kind \in {"report", "propfind"} /\ Fresh(r)
<1> DEFINE z == {}
           l == [at |-> "update", seen |-> z]
           s1 == [s EXCEPT !.toSync = z, !.loop = l]
           q == IF s.token # 0 THEN Request("sync", "report", {}, s.token)
                               ELSE Request("sync", "propfind", {}, 0)
<1>1. s \in States(rev) /\ s.token \in Nat
  BY DEF Ready, States
<1>2. SyncUpdate(s) = Send(s1, q)
  BY DEF SyncUpdate
<1>3. z \in SUBSET Cards /\ l \in Loops /\ l.at = "update"
  BY DEF Loops
<1> HIDE DEF l
<1>4. /\ s1 \in States(rev) /\ s1.wire = s.wire /\ s1.local = s.local /\ s1.toSync = {}
      /\ s1.toRemove = s.toRemove /\ s1.loop = l /\ s1.progress = s.progress
  BY <1>1, <1>3 DEF States
<1> HIDE DEF s1
<1>5. {} \in Topics /\ s.token \in Args /\ 0 \in Args
  BY <1>1 DEF Topics, Args
<1>6. /\ Sent(q) \in GoodReqs(rev) /\ Sent(q).by = "sync" /\ Sent(q).kind \in {"report", "propfind"}
      /\ Fresh(Sent(q))
  <2>1. CASE s.token # 0
    BY <1>5, <2>1, SentIs DEF Kinds, CardKinds, FetchKinds, Makers, Fresh
  <2>2. CASE s.token = 0
    BY <1>5, <2>2, SentIs DEF Kinds, CardKinds, FetchKinds, Makers, Fresh
  <2>3. QED
    BY <2>1, <2>2
<1> HIDE DEF q
<1>7. Ready(s1) /\ s1.progress /\ s1.loop.at = "update"
  BY <1>3, <1>4 DEF Ready
<1>8. Phase(Sent(q).kind) = "update"
  BY <1>6 DEF Phase
<1>9. Result(Send(s1, q))
  BY <1>6, <1>7, <1>8, SendTask
<1>10. /\ Send(s1, q).local = s1.local /\ Send(s1, q).toSync = s1.toSync
       /\ Send(s1, q).toRemove = s1.toRemove /\ Send(s1, q).loop = s1.loop
       /\ Send(s1, q).wire = Append(s1.wire, Sent(q))
  BY <1>4, <1>6, SendIs
<1>11. QED
  BY <1>2, <1>4, <1>6, <1>7, <1>9, <1>10

\* The rest of the state after a request of one of the loops for card c.
Visits(s, s2, c, kind, arg) ==
    /\ s2.local = s.local /\ s2.toSync = s.toSync /\ s2.toRemove = s.toRemove
    /\ s2.loop.at = s.loop.at /\ s2.loop.seen = s.loop.seen \cup {c}
    /\ \E r \in GoodReqs(rev) :
         /\ s2.wire = Append(s.wire, r)
         /\ r.by = "sync" /\ r.kind = kind /\ r.card = c /\ r.arg = arg
         /\ Fresh(r)

LEMMA VisitIs ==
  ASSUME rev \in Nat, NEW s, Ready(s), s.progress, NEW c \in Cards,
         NEW kind \in {"put", "delete"}, s.loop.at = Phase(kind),
         NEW arg \in Args, kind = "put" => arg \in Values
  PROVE  LET s2 == Send([s EXCEPT !.loop.seen = @ \cup {c}], Request("sync", kind, c, arg))
         IN  Result(s2) /\ Visits(s, s2, c, kind, arg)
<1> DEFINE n == s.loop.seen \cup {c}
           l == [s.loop EXCEPT !.seen = n]
           s1 == [s EXCEPT !.loop = l]
           q == Request("sync", kind, c, arg)
           s2 == Send(s1, q)
<1>1. s \in States(rev) /\ s.loop \in Loops
  BY DEF Ready, States
<1>2. [s EXCEPT !.loop.seen = @ \cup {c}] = s1
  BY DEF States
<1>3. n \in SUBSET Cards
  BY <1>1 DEF Loops
<1> HIDE DEF n
<1>4. l \in Loops /\ l.at = s.loop.at /\ l.seen = n
  BY <1>1, <1>3 DEF Loops
<1> HIDE DEF l
<1>5. /\ s1 \in States(rev) /\ s1.wire = s.wire /\ s1.local = s.local /\ s1.toSync = s.toSync
      /\ s1.toRemove = s.toRemove /\ s1.loop = l /\ s1.progress = s.progress
  BY <1>1, <1>4 DEF States
<1> HIDE DEF s1
<1>6. c \in Topics /\ kind \in Kinds /\ "sync" \in Makers
  BY DEF Topics, Kinds, CardKinds, Makers
<1>7. /\ Sent(q) \in GoodReqs(rev) /\ Sent(q).by = "sync" /\ Sent(q).kind = kind
      /\ Sent(q).card = c /\ Sent(q).arg = arg /\ Fresh(Sent(q))
  BY <1>6, SentIs DEF Fresh
<1> HIDE DEF q
<1>8. Ready(s1) /\ s1.progress /\ s1.loop.at = Phase(Sent(q).kind)
  BY <1>4, <1>5, <1>7 DEF Ready
<1>9. Result(s2)
  BY <1>7, <1>8, SendTask
<1>10. /\ s2.local = s1.local /\ s2.toSync = s1.toSync
       /\ s2.toRemove = s1.toRemove /\ s2.loop = s1.loop
       /\ s2.wire = Append(s1.wire, Sent(q))
  BY <1>5, <1>7, SendIs
<1> HIDE DEF s2
<1>11. Visits(s, s2, c, kind, arg)
  BY <1>4, <1>5, <1>7, <1>10 DEF Visits, n
<1>12. QED
  BY <1>2, <1>9, <1>11 DEF s2, q

LEMMA ContentIs ==
  ASSUME NEW rv, NEW s \in States(rv), NEW c \in Cards
  PROVE  Content(s, c) \in Values /\ Content(s, c) \in Args /\ Content(s, c) # Absent
<1>1. s.local[c] \in LocalCards(rv) /\ MaxChanges \in Nat
  BY CardDavAssumption DEF States
<1>2. Blank \in Values /\ Blank # Absent
  BY <1>1 DEF Values, Blank, Absent
<1>3. s.local[c].v \in Values
  BY <1>1 DEF LocalCards
<1>4. Content(s, c) \in Values /\ Content(s, c) # Absent
  BY <1>2, <1>3 DEF Content, Has
<1>5. QED
  BY <1>1, <1>4 DEF Values, Args, Blank

LEMMA SyncUploadIs ==
  ASSUME rev \in Nat, NEW s, Ready(s), s.progress, s.loop.at = "upload", NEW s2 \in SyncUpload(s)
  PROVE  /\ Result(s2)
         /\ \/ \E c \in s.toSync \ s.loop.seen : Visits(s, s2, c, "put", Content(s, c))
            \/ s.toSync \ s.loop.seen = {} /\ s2 = SyncUpdate(s)
<1> DEFINE left == s.toSync \ s.loop.seen
<1>1. CASE left = {}
  <2>1. s2 = SyncUpdate(s)
    BY <1>1 DEF SyncUpload
  <2>2. QED
    BY <1>1, <2>1, SyncUpdateIs
<1>2. CASE left # {}
  <2>1. s2 \in {Send([s EXCEPT !.loop.seen = @ \cup {c}],
                     Request("sync", "put", c, Content(s, c))) : c \in left}
    BY <1>2 DEF SyncUpload
  <2>2. PICK c \in left : s2 = Send([s EXCEPT !.loop.seen = @ \cup {c}],
                                    Request("sync", "put", c, Content(s, c)))
    BY <2>1, Zenon
  <2>3. s \in States(rev) /\ s.toSync \in SUBSET Cards
    BY DEF Ready, States
  <2>4. c \in Cards
    BY <2>3
  <2>5. Content(s, c) \in Values /\ Content(s, c) \in Args
    BY <2>3, <2>4, ContentIs
  <2>6. s.loop.at = Phase("put")
    BY DEF Phase
  <2>7. Result(s2) /\ Visits(s, s2, c, "put", Content(s, c))
    BY <2>2, <2>4, <2>5, <2>6, VisitIs
  <2>8. QED
    BY <2>7
<1>3. QED
  BY <1>1, <1>2

\* The state with which the loop over _uidsToSync begins.
Uploading(s) == [s EXCEPT !.toRemove = {}, !.loop = [at |-> "upload", seen |-> {}]]

LEMMA UploadingIs ==
  ASSUME NEW s, Ready(s)
  PROVE  /\ Ready(Uploading(s)) /\ Uploading(s).progress = s.progress /\ Uploading(s).wire = s.wire
         /\ Uploading(s).local = s.local /\ Uploading(s).toSync = s.toSync
         /\ Uploading(s).toRemove = {} /\ Uploading(s).loop.at = "upload"
         /\ Uploading(s).loop.seen = {}
<1> DEFINE z == {}
           l == [at |-> "upload", seen |-> z]
           s1 == [s EXCEPT !.toRemove = z, !.loop = l]
<1>1. z \in SUBSET Cards /\ l \in Loops /\ l.at = "upload" /\ l.seen = {} /\ s \in States(rev)
  BY DEF Loops, Ready
<1> HIDE DEF l
<1>2. /\ s1 \in States(rev) /\ s1.wire = s.wire /\ s1.local = s.local /\ s1.toSync = s.toSync
      /\ s1.toRemove = {} /\ s1.loop = l /\ s1.progress = s.progress
  BY <1>1 DEF States
<1> HIDE DEF s1
<1>3. Uploading(s) = s1
  BY DEF Uploading, s1, l
<1>4. QED
  BY <1>1, <1>2, <1>3 DEF Ready

LEMMA SyncRemoveIs ==
  ASSUME rev \in Nat, NEW s, Ready(s), s.progress, s.loop.at = "remove", NEW s2 \in SyncRemove(s)
  PROVE  /\ Result(s2)
         /\ \/ \E c \in s.toRemove \ s.loop.seen : Visits(s, s2, c, "delete", {})
            \/ s.toRemove \ s.loop.seen = {} /\ s2 \in SyncUpload(Uploading(s))
<1> DEFINE left == s.toRemove \ s.loop.seen
<1>1. CASE left = {}
  <2>1. s2 \in SyncUpload(Uploading(s))
    BY <1>1 DEF SyncRemove, Uploading
  <2>2. Result(s2)
    BY <2>1, UploadingIs, SyncUploadIs
  <2>3. QED
    BY <1>1, <2>1, <2>2
<1>2. CASE left # {}
  <2>1. s2 \in {Send([s EXCEPT !.loop.seen = @ \cup {c}], Request("sync", "delete", c, {})) :
                  c \in left}
    BY <1>2 DEF SyncRemove
  <2>2. PICK c \in left : s2 = Send([s EXCEPT !.loop.seen = @ \cup {c}],
                                    Request("sync", "delete", c, {}))
    BY <2>1, Zenon
  <2>3. c \in Cards /\ {} \in Args /\ s.loop.at = Phase("delete")
    BY DEF Ready, States, Args, Phase
  <2>4. Result(s2) /\ Visits(s, s2, c, "delete", {})
    BY <2>2, <2>3, VisitIs
  <2>5. QED
    BY <2>4
<1>3. QED
  BY <1>1, <1>2

-----------------------------------------------------------------------------
(* syncWithServer and fetchAllFromServer after the answer to a request for *)
(* many cards.                                                             *)

\* Function r.by goes on with its answer r; nothing but the user's requests is on the wire.
Handling(s, r) ==
    /\ Ready(s) /\ s.progress
    /\ r \in GoodReqs(rev) /\ r.st # "sent" /\ r.by # "user"
    /\ r.by = "sync" => s.loop.at = Phase(r.kind)
    /\ r.by = "first" => s.loop = Idle

\* The cards or the token may have changed, and nothing else.
Like(s, s1) ==
    /\ s1 \in States(rev)
    /\ s1.wire = s.wire /\ s1.toSync = s.toSync /\ s1.toRemove = s.toRemove
    /\ s1.loop = s.loop /\ s1.progress = s.progress

Outcome(s2, r) ==
    /\ s2 \in States(rev) /\ Task(s2)
    /\ r.by = "sync" \/ r.st = "ok" => Flagged(s2)

FetchOutcome(s, s2, r) ==
    /\ Outcome(s2, r)
    /\ s2.toRemove = s.toRemove /\ s2.toSync = s.toSync /\ s2.loop.at \in {"idle", "update"}
    /\ \/ s2.wire = s.wire
       \/ \E r2 \in GoodReqs(rev) : /\ r2.by # "user" /\ r2.kind \notin CardKinds /\ Fresh(r2)
                                    /\ s2.wire = Append(s.wire, r2)
    /\ r.st = "failed" => s2 = Throw(s, r.by)

LEMMA HandlingFields ==
  ASSUME NEW s, NEW r, Handling(s, r)
  PROVE  /\ s \in States(rev) /\ r \in Reqs /\ RequestOK(r, rev) /\ r.by \in {"sync", "first"}
         /\ r.st \in {"ok", "failed", "refused"}
         /\ r.kind \notin CardKinds => s.loop.at \in {"idle", "update"}
         /\ r.kind \in Kinds
<1>1. s \in States(rev) /\ r \in Reqs /\ RequestOK(r, rev) /\ r.st # "sent" /\ r.by # "user"
  BY DEF Handling, Ready, GoodReqs
<1>2. r.by \in {"sync", "first"} /\ r.st \in {"ok", "failed", "refused"} /\ r.kind \in Kinds
  BY <1>1 DEF Reqs, Makers
<1>3. r.kind \notin CardKinds => Phase(r.kind) = "update"
  BY DEF Phase, CardKinds
<1>4. Idle.at = "idle"
  BY DEF Idle
<1>5. QED
  BY <1>1, <1>2, <1>3, <1>4 DEF Handling

LEMMA FetchThrow ==
  ASSUME rev \in Nat, NEW s, NEW r, Handling(s, r)
  PROVE  r.st # "ok" => FetchOutcome(s, Throw(s, r.by), r)
<1>1. Ready(s) /\ r.by \in {"sync", "first"} /\ (r.by = "first" => s.loop = Idle)
  BY HandlingFields DEF Handling
<1>2. /\ Throw(s, r.by) \in States(rev) /\ Task(Throw(s, r.by)) /\ Throw(s, r.by).wire = s.wire
      /\ Throw(s, r.by).toRemove = s.toRemove /\ Throw(s, r.by).toSync = s.toSync
      /\ Throw(s, r.by).loop = Idle
      /\ r.by = "sync" => Flagged(Throw(s, r.by))
  BY <1>1, ThrowIs
<1>3. Idle.at = "idle"
  BY DEF Idle
<1>4. QED
  BY <1>2, <1>3 DEF FetchOutcome, Outcome

LEMMA FetchSend ==
  ASSUME rev \in Nat, NEW s, NEW r, Handling(s, r), r.kind \notin CardKinds, r.st # "failed",
         NEW s1, Like(s, s1), NEW kind \in Kinds \ CardKinds, NEW cs \in SUBSET Cards,
         NEW arg \in 0..rev, r.by = "first" => kind \in FetchKinds
  PROVE  FetchOutcome(s, Send(s1, Request(r.by, kind, cs, arg)), r)
<1> DEFINE q == Request(r.by, kind, cs, arg)
           s2 == Send(s1, q)
<1>1. /\ s \in States(rev) /\ r.by \in {"sync", "first"} /\ s.loop.at \in {"idle", "update"}
      /\ Ready(s) /\ s.progress
      /\ (r.by = "first" => s.loop = Idle) /\ (r.by = "sync" => s.loop.at = Phase(r.kind))
  BY HandlingFields DEF Handling
<1>2. cs \in Topics /\ arg \in Args /\ kind \in Kinds /\ r.by \in Makers
  BY <1>1 DEF Topics, Args, Makers
<1>3. Sent(q) \in GoodReqs(rev) /\ Sent(q).by = r.by /\ Sent(q).kind = kind /\ Fresh(Sent(q))
  BY <1>1, <1>2, SentIs DEF CardKinds, Fresh
<1> HIDE DEF q
<1>4. Phase(kind) = "update" /\ Phase(r.kind) = "update"
  BY DEF Phase, CardKinds
<1>5. Ready(s1) /\ s1.progress /\ s1.loop = s.loop /\ s1 \in States(rev) /\ s1.wire = s.wire
      /\ s1.toRemove = s.toRemove /\ s1.toSync = s.toSync
  BY <1>1 DEF Like, Ready
<1>6. Result(s2)
  BY <1>1, <1>3, <1>4, <1>5, SendTask
<1>7. s2.toRemove = s1.toRemove /\ s2.toSync = s1.toSync /\ s2.loop = s1.loop
      /\ s2.wire = Append(s1.wire, Sent(q))
  BY <1>3, <1>5, SendIs
<1> HIDE DEF s2
<1>8. FetchOutcome(s, s2, r)
  BY <1>1, <1>3, <1>5, <1>6, <1>7 DEF FetchOutcome, Outcome, Result
<1>9. QED
  BY <1>8 DEF s2, q

LEMMA FetchSynced ==
  ASSUME rev \in Nat, NEW s, NEW r, Handling(s, r), r.st # "failed", NEW s1, Like(s, s1)
  PROVE  FetchOutcome(s, Synced(s1), r)
<1>1. Ready(s1) /\ s1.wire = s.wire /\ s1.toRemove = s.toRemove /\ s1.toSync = s.toSync /\ s1 \in States(rev)
  BY DEF Like, Handling, Ready
<1>2. Result(Synced(s1))
  BY <1>1, SyncedIs
<1>3. Synced(s1) = Throw(s1, "sync")
  BY DEF Synced, Throw
<1>4. Synced(s1).wire = s.wire /\ Synced(s1).toRemove = s.toRemove /\ Synced(s1).toSync = s.toSync
      /\ Synced(s1).loop = Idle
  BY <1>1, <1>3, ThrowIs
<1>5. Idle.at = "idle"
  BY DEF Idle
<1>6. QED
  BY <1>2, <1>4, <1>5 DEF FetchOutcome, Outcome, Result

LEMMA GotLocal ==
  ASSUME NEW rv \in Nat, NEW x \in ServerCards(rv), x.v # Absent
  PROVE  Got(x) \in LocalCards(rv)
  BY DEF Got, ServerCards, LocalCards, Absent

LEMMA NoCardLocal ==
  ASSUME NEW rv \in Nat
  PROVE  NoCard \in LocalCards(rv)
  BY CardDavAssumption DEF NoCard, LocalCards, Values, Absent, Blank

LEMMA LikeLocal ==
  ASSUME NEW s \in States(rev), NEW f \in [Cards -> LocalCards(rev)], NEW t \in 0..rev
  PROVE  Like(s, [s EXCEPT !.local = f]) /\ Like(s, [s EXCEPT !.token = t, !.local = f])
         /\ Like(s, [s EXCEPT !.token = t]) /\ Like(s, s)
         /\ [s EXCEPT !.local = f].token = s.token
  BY DEF Like, States

\* The local cards, some of them replaced by the server's.
LEMMA StoredLocal ==
  ASSUME rev \in Nat, NEW s \in States(rev), NEW stored, NEW gone, NEW a,
         \A c \in stored : a[c] \in ServerCards(rev) /\ a[c].v # Absent
  PROVE  /\ [c \in Cards |-> IF c \in stored THEN Got(a[c])
                             ELSE IF c \in gone THEN NoCard ELSE s.local[c]] \in [Cards -> LocalCards(rev)]
         /\ [c \in Cards |-> IF c \in stored THEN Got(a[c]) ELSE s.local[c]] \in [Cards -> LocalCards(rev)]
<1>1. \A c \in Cards : s.local[c] \in LocalCards(rev)
  BY DEF States
<1>2. \A c \in stored : Got(a[c]) \in LocalCards(rev)
  BY GotLocal
<1>3. NoCard \in LocalCards(rev)
  BY NoCardLocal
<1>4. QED
  BY <1>1, <1>2, <1>3

LEMMA DropLike ==
  ASSUME rev \in Nat, NEW s \in States(rev), NEW cs
  PROVE  Like(s, Drop(s, cs)) /\ Drop(s, cs).token = s.token
         /\ \A c \in Cards : Drop(s, cs).local[c] = IF c \in cs THEN NoCard ELSE s.local[c]
<1> DEFINE f == [c \in Cards |-> IF c \in cs THEN NoCard ELSE s.local[c]]
<1>1. f \in [Cards -> LocalCards(rev)] /\ \A c \in Cards : f[c] = IF c \in cs THEN NoCard ELSE s.local[c]
  BY NoCardLocal DEF States
<1>2. Drop(s, cs) = [s EXCEPT !.local = f]
  BY DEF Drop
<1> HIDE DEF f
<1>3. 0 \in 0..rev
  OBVIOUS
<1>4. [s EXCEPT !.local = f].local = f
  BY DEF States
<1>5. QED
  BY <1>1, <1>2, <1>3, <1>4, LikeLocal

LEMMA FetchIs ==
  ASSUME rev \in Nat, NEW s, NEW r, Handling(s, r), r.kind \notin CardKinds, r.st # "failed", r.by = "sync",
         NEW s1, Like(s, s1), NEW cs \in SUBSET Cards, NEW t \in 0..rev
  PROVE  FetchOutcome(s, Fetch(s1, cs, t), r)
<1>1. s1 \in States(rev)
  BY DEF Like
<1>2. CASE cs = {}
  <2> DEFINE s2 == [s1 EXCEPT !.token = t]
  <2>1. s1.local \in [Cards -> LocalCards(rev)]
    BY <1>1 DEF States
  <2>2. Like(s1, s2)
    BY <1>1, <2>1, LikeLocal
  <2>3. Like(s, s2)
    BY <2>2 DEF Like
  <2>4. Fetch(s1, cs, t) = Synced(s2)
    BY <1>2 DEF Fetch
  <2> HIDE DEF s2
  <2>5. QED
    BY <2>3, <2>4, FetchSynced
<1>3. CASE cs # {}
  <2>1. Fetch(s1, cs, t) = Send(s1, Request(r.by, "multiget", cs, t))
    BY <1>3 DEF Fetch
  <2>2. "multiget" \in Kinds \ CardKinds
    BY DEF Kinds, CardKinds
  <2>3. QED
    BY <2>1, <2>2, FetchSend
<1>4. QED
  BY <1>2, <1>3

LEMMA AfterReportIs ==
  ASSUME rev \in Nat, NEW s, NEW r, Handling(s, r), r.kind = "report", NEW s2 \in AfterReport(s, r)
  PROVE  FetchOutcome(s, s2, r)
<1>1. /\ s \in States(rev) /\ RequestOK(r, rev) /\ r.by \in {"sync", "first"}
      /\ r.st \in {"ok", "failed", "refused"}
  BY HandlingFields
<1>2. r.by = "sync" /\ r.kind \notin CardKinds
  BY <1>1 DEF RequestOK, FetchKinds, CardKinds
<1>3. CASE r.st = "failed"
  <2>1. s2 = Throw(s, r.by)
    BY <1>2, <1>3 DEF AfterReport
  <2>2. QED
    BY <1>3, <2>1, FetchThrow
<1>4. CASE r.st = "refused"
  <2> DEFINE f == TRUE
             s1 == [s EXCEPT !.progress = f]
  <2>1. s2 = Send(s1, Request(r.by, "list", {}, 0))
    BY <1>2, <1>4 DEF AfterReport, FetchAll
  <2>2. s.progress = f /\ f \in BOOLEAN
    BY <1>1 DEF Handling, States
  <2> HIDE DEF f
  <2>3. Like(s, s1)
    BY <1>1, <2>2 DEF Like, States
  <2> HIDE DEF s1
  <2>4. "list" \in Kinds \ CardKinds /\ 0 \in 0..rev /\ {} \in SUBSET Cards
    BY DEF Kinds, CardKinds, FetchKinds
  <2>5. QED
    BY <1>2, <1>4, <2>1, <2>3, <2>4, FetchSend
<1>5. CASE r.st = "ok"
  <2> DEFINE a == r.ans
             stored == {c \in DOMAIN a.cards :
                         a.data /\ a.cards[c].v # Absent /\ Stale(s, c, a.cards[c].etag)}
             gone == {c \in DOMAIN a.cards : a.cards[c].v = Absent /\ Known(s.local, c)}
             f == [c \in Cards |-> IF c \in stored THEN Got(a.cards[c])
                                   ELSE IF c \in gone THEN NoCard ELSE s.local[c]]
             s1 == [s EXCEPT !.local = f]
             cs == IF a.data THEN {} ELSE {c \in DOMAIN a.cards : a.cards[c].v # Absent}
  <2>1. s2 = Fetch(s1, cs, a.rev)
    BY <1>5 DEF AfterReport
  <2>2. ListOK(a.cards, rev) /\ a.rev \in 0..rev
    BY <1>1, <1>5 DEF RequestOK, AnswerOK
  <2>3. \A c \in stored : a.cards[c] \in ServerCards(rev) /\ a.cards[c].v # Absent
    BY <2>2 DEF ListOK
  <2>4. cs \in SUBSET Cards
    BY <2>2 DEF ListOK
  <2> HIDE DEF stored, gone
  <2>5. f \in [Cards -> LocalCards(rev)]
    <3>1. \A c \in stored : Got(a.cards[c]) \in LocalCards(rev)
      BY <2>3, GotLocal
    <3>2. NoCard \in LocalCards(rev) /\ \A c \in Cards : s.local[c] \in LocalCards(rev)
      BY <1>1, NoCardLocal DEF States
    <3> HIDE DEF a
    <3>3. QED
      BY <3>1, <3>2
  <2> HIDE DEF f, cs
  <2>6. 0 \in 0..rev
    OBVIOUS
  <2>7. Like(s, s1)
    BY <1>1, <2>5, <2>6, LikeLocal
  <2> HIDE DEF s1
  <2>8. QED
    BY <1>2, <1>5, <2>1, <2>2, <2>4, <2>7, FetchIs
<1>6. QED
  BY <1>1, <1>3, <1>4, <1>5

LEMMA AfterPropfindIs ==
  ASSUME rev \in Nat, NEW s, NEW r, Handling(s, r), r.kind = "propfind", NEW s2 \in AfterPropfind(s, r)
  PROVE  FetchOutcome(s, s2, r)
<1>1. /\ s \in States(rev) /\ RequestOK(r, rev) /\ r.by \in {"sync", "first"}
  BY HandlingFields
<1>2. r.by = "sync" /\ r.kind \notin CardKinds
  BY <1>1 DEF RequestOK, FetchKinds, CardKinds
<1>3. CASE r.st # "ok"
  <2>1. s2 = Throw(s, r.by)
    BY <1>2, <1>3 DEF AfterPropfind
  <2>2. QED
    BY <1>3, <2>1, FetchThrow
<1>4. CASE r.st = "ok"
  <2>1. s2 = Fetch(Drop(s, Unlisted(s, r.ans)), Changed(s, r.ans), s.token)
    BY <1>4 DEF AfterPropfind
  <2>2. DOMAIN r.ans \in SUBSET Cards
    BY <1>1, <1>4 DEF RequestOK, AnswerOK, ListOK
  <2>3. Changed(s, r.ans) \in SUBSET Cards
    BY <2>2 DEF Changed
  <2>4. Like(s, Drop(s, Unlisted(s, r.ans))) /\ s.token \in 0..rev
    BY <1>1, DropLike DEF States
  <2>5. QED
    BY <1>2, <1>4, <2>1, <2>3, <2>4, FetchIs
<1>5. QED
  BY <1>3, <1>4

LEMMA AfterMultigetIs ==
  ASSUME rev \in Nat, NEW s, NEW r, Handling(s, r), r.kind = "multiget", NEW s2 \in AfterMultiget(s, r)
  PROVE  FetchOutcome(s, s2, r)
<1>1. /\ s \in States(rev) /\ RequestOK(r, rev) /\ r.by \in {"sync", "first"}
  BY HandlingFields
<1>2. r.by = "sync"
  BY <1>1 DEF RequestOK, FetchKinds
<1>3. CASE r.st # "ok"
  <2>1. s2 = Throw(s, r.by)
    BY <1>2, <1>3 DEF AfterMultiget
  <2>2. QED
    BY <1>3, <2>1, FetchThrow
<1>4. CASE r.st = "ok"
  <2> DEFINE a == r.ans
             stored == {c \in DOMAIN a : ~Has(s.local, c) \/ s.local[c].etag # a[c].etag}
             f == [c \in Cards |-> IF c \in stored THEN Got(a[c]) ELSE s.local[c]]
             t == r.arg
             s1 == [s EXCEPT !.token = t, !.local = f]
  <2>1. s2 = Synced(s1)
    BY <1>4 DEF AfterMultiget
  <2>2. \A c \in stored : a[c] \in ServerCards(rev) /\ a[c].v # Absent
    BY <1>1, <1>4 DEF RequestOK, AnswerOK, ListOK
  <2> HIDE DEF stored
  <2>3. f \in [Cards -> LocalCards(rev)] /\ t \in 0..rev
    BY <1>1, <2>2, StoredLocal DEF RequestOK
  <2> HIDE DEF f, t
  <2>4. Like(s, s1)
    BY <1>1, <2>3, LikeLocal
  <2> HIDE DEF s1
  <2>5. QED
    BY <1>4, <2>1, <2>4, FetchSynced
<1>5. QED
  BY <1>3, <1>4

LEMMA AfterListIs ==
  ASSUME rev \in Nat, NEW s, NEW r, Handling(s, r), r.kind = "list", NEW s2 \in AfterList(s, r)
  PROVE  FetchOutcome(s, s2, r)
<1>1. s \in States(rev) /\ RequestOK(r, rev) /\ r.kind \notin CardKinds
  BY HandlingFields DEF CardKinds
<1>2. CASE r.st # "ok"
  <2>1. s2 = Throw(s, r.by)
    BY <1>2 DEF AfterList
  <2>2. QED
    BY <1>2, <2>1, FetchThrow
<1>3. CASE r.st = "ok"
  <2> DEFINE cs == Changed(s, r.ans)
             s1 == Drop(s, Unlisted(s, r.ans))
  <2>1. \/ s2 = Send(s1, Request(r.by, "token", {}, 0))
        \/ s2 = Send(s1, Request(r.by, "bulk", cs, 0))
    BY <1>3 DEF AfterList
  <2>2. DOMAIN r.ans \in SUBSET Cards
    BY <1>1, <1>3 DEF RequestOK, AnswerOK, ListOK
  <2>3. cs \in SUBSET Cards /\ {} \in SUBSET Cards /\ 0 \in 0..rev
    BY <2>2 DEF Changed
  <2>4. Like(s, s1)
    BY <1>1, DropLike
  <2>5. {"token", "bulk"} \subseteq Kinds \ CardKinds /\ {"token", "bulk"} \subseteq FetchKinds
    BY DEF Kinds, CardKinds, FetchKinds
  <2> HIDE DEF cs, s1
  <2>6. FetchOutcome(s, Send(s1, Request(r.by, "token", {}, 0)), r)
    BY <1>1, <1>3, <2>3, <2>4, <2>5, FetchSend
  <2>7. FetchOutcome(s, Send(s1, Request(r.by, "bulk", cs, 0)), r)
    BY <1>1, <1>3, <2>3, <2>4, <2>5, FetchSend
  <2>8. QED
    BY <2>1, <2>6, <2>7
<1>4. QED
  BY <1>2, <1>3

LEMMA AfterBulkIs ==
  ASSUME rev \in Nat, NEW s, NEW r, Handling(s, r), r.kind = "bulk", NEW s2 \in AfterBulk(s, r)
  PROVE  FetchOutcome(s, s2, r)
<1>1. s \in States(rev) /\ RequestOK(r, rev) /\ r.kind \notin CardKinds
  BY HandlingFields DEF CardKinds
<1>2. CASE r.st # "ok"
  <2>1. s2 = Throw(s, r.by)
    BY <1>2 DEF AfterBulk
  <2>2. QED
    BY <1>2, <2>1, FetchThrow
<1>3. CASE r.st = "ok"
  <2> DEFINE a == r.ans
             D == DOMAIN a
             f == [c \in Cards |-> IF c \in D THEN Got(a[c]) ELSE s.local[c]]
             s1 == [s EXCEPT !.local = f]
  <2>1. s2 = Send(s1, Request(r.by, "token", {}, 0))
    BY <1>3 DEF AfterBulk
  <2>2. \A c \in D : a[c] \in ServerCards(rev) /\ a[c].v # Absent
    BY <1>1, <1>3 DEF RequestOK, AnswerOK, ListOK
  <2> HIDE DEF a, D
  <2>3. f \in [Cards -> LocalCards(rev)]
    <3>1. \A c \in D : Got(a[c]) \in LocalCards(rev)
      BY <2>2, GotLocal
    <3>2. \A c \in Cards : s.local[c] \in LocalCards(rev)
      BY <1>1 DEF States
    <3> QED
      BY <3>1, <3>2
  <2> HIDE DEF f
  <2>4. 0 \in 0..rev /\ {} \in SUBSET Cards /\ "token" \in Kinds \ CardKinds /\ "token" \in FetchKinds
    BY DEF Kinds, CardKinds, FetchKinds
  <2>5. Like(s, s1)
    BY <1>1, <2>3, <2>4, LikeLocal
  <2> HIDE DEF s1
  <2>6. QED
    BY <1>1, <1>3, <2>1, <2>4, <2>5, FetchSend
<1>4. QED
  BY <1>2, <1>3

LEMMA AfterTokenIs ==
  ASSUME rev \in Nat, NEW s, NEW r, Handling(s, r), r.kind = "token", NEW s2 \in AfterToken(s, r)
  PROVE  FetchOutcome(s, s2, r)
<1>1. s \in States(rev) /\ RequestOK(r, rev)
  BY HandlingFields
<1>2. CASE r.st # "ok"
  <2>1. s2 = Throw(s, r.by)
    BY <1>2 DEF AfterToken
  <2>2. QED
    BY <1>2, <2>1, FetchThrow
<1>3. CASE r.st = "ok"
  <2> DEFINE t == r.ans
             s1 == [s EXCEPT !.token = t]
  <2>1. s2 = Synced(s1)
    BY <1>3 DEF AfterToken
  <2>2. t \in 0..rev /\ s.local \in [Cards -> LocalCards(rev)]
    BY <1>1, <1>3 DEF RequestOK, AnswerOK, States
  <2> HIDE DEF t
  <2>3. Like(s, s1)
    BY <1>1, <2>2, LikeLocal
  <2> HIDE DEF s1
  <2>4. QED
    BY <1>3, <2>1, <2>3, FetchSynced
<1>4. QED
  BY <1>2, <1>3

-----------------------------------------------------------------------------
(* syncWithServer after the answer to a request for one card.              *)

\* The request q is put on the wire and nothing else changes.
Adds(s, s2, q) ==
    /\ s2.local = s.local /\ s2.toSync = s.toSync /\ s2.toRemove = s.toRemove /\ s2.loop = s.loop
    /\ q \in GoodReqs(rev) /\ Fresh(q)
    /\ s2.wire = Append(s.wire, q)

\* syncWithServer has ended early.
Ends(s, s2) == s2.local = s.local /\ s2.wire = s.wire /\ s2.loop = Idle

LEMMA AfterSyncPut ==
  ASSUME rev \in Nat, NEW s, NEW r, Handling(s, r), r.kind = "put", NEW s2 \in AfterPut(s, r)
  PROVE  /\ Result(s2) /\ s2.toRemove = s.toRemove
         /\ r.st = "ok" => \E q : Adds(s, s2, q) /\ q.by = "sync" /\ q.kind = "get" /\ q.card = r.card
         /\ r.st = "failed" => Ends(s, s2) /\ s2.toSync = s.toSync \cup {r.card}
         /\ r.st = "refused" => Ends(s, s2) /\ s2.toSync = s.toSync
<1>1. /\ s \in States(rev) /\ RequestOK(r, rev) /\ r.by \in {"sync", "first"}
      /\ r.st \in {"ok", "failed", "refused"}
  BY HandlingFields
<1>2. r.by = "sync" /\ r.card \in Cards
  BY <1>1 DEF RequestOK, FetchKinds, CardKinds
<1>3. Ready(s) /\ s.progress /\ s.loop.at = "upload" /\ "sync" \in {"sync", "first"}
  BY <1>2 DEF Handling, Phase
<1>4. CASE r.st = "ok"
  <2> DEFINE q == Request("sync", "get", r.card, {})
  <2>1. s2 = Send(s, q)
    BY <1>2, <1>4 DEF AfterPut
  <2>2. "sync" \in Makers /\ "get" \in Kinds /\ r.card \in Topics /\ {} \in Args
    BY <1>2 DEF Makers, Kinds, CardKinds, Topics, Args
  <2>3. /\ Sent(q) \in GoodReqs(rev) /\ Sent(q).by = "sync" /\ Sent(q).kind = "get"
        /\ Sent(q).card = r.card /\ Fresh(Sent(q))
    BY <1>2, <2>2, SentIs DEF Fresh
  <2> HIDE DEF q
  <2>4. Phase("get") = "upload"
    BY DEF Phase
  <2>5. Result(s2)
    BY <1>3, <2>1, <2>3, <2>4, SendTask
  <2>6. Adds(s, s2, Sent(q))
    BY <1>1, <2>1, <2>3, SendIs DEF Adds
  <2>7. QED
    BY <1>4, <2>3, <2>5, <2>6 DEF Adds
<1>5. CASE r.st = "failed"
  <2> DEFINE t == s.toSync \cup {r.card}
             s1 == [s EXCEPT !.toSync = t]
  <2>1. s2 = Throw(s1, "sync")
    BY <1>1, <1>2, <1>5 DEF AfterPut
  <2>2. t \in SUBSET Cards
    BY <1>1, <1>2 DEF States
  <2> HIDE DEF t
  <2>3. /\ s1 \in States(rev) /\ s1.wire = s.wire /\ s1.local = s.local /\ s1.toSync = t
        /\ s1.toRemove = s.toRemove
    BY <1>1, <2>2 DEF States
  <2> HIDE DEF s1
  <2>4. Ready(s1)
    BY <1>3, <2>3 DEF Ready
  <2>5. /\ s2 \in States(rev) /\ Task(s2) /\ s2.wire = s1.wire /\ s2.local = s1.local
        /\ s2.toSync = s1.toSync /\ s2.toRemove = s1.toRemove /\ s2.loop = Idle /\ Flagged(s2)
    BY <1>3, <2>1, <2>4, ThrowIs
  <2>6. QED
    BY <1>5, <2>3, <2>5 DEF Result, Ends, t
<1>6. CASE r.st = "refused"
  <2>1. s2 = Throw(s, "sync")
    BY <1>1, <1>2, <1>6 DEF AfterPut
  <2>2. /\ s2 \in States(rev) /\ Task(s2) /\ s2.wire = s.wire /\ s2.local = s.local
        /\ s2.toSync = s.toSync /\ s2.toRemove = s.toRemove /\ s2.loop = Idle /\ Flagged(s2)
    BY <1>3, <2>1, ThrowIs
  <2>3. QED
    BY <1>6, <2>2 DEF Result, Ends
<1>7. QED
  BY <1>1, <1>4, <1>5, <1>6

\* The server's copy of a card that has been sent, if it has one.
Refreshed(s, r) == IF r.ans.v = Absent THEN s ELSE [s EXCEPT !.local[r.card] = Got(r.ans)]

LEMMA RefreshedIs ==
  ASSUME rev \in Nat, NEW s \in States(rev), NEW r \in GoodReqs(rev), r.kind = "get", r.st = "ok"
  PROVE  /\ Like(s, Refreshed(s, r)) /\ \A c \in Cards : c # r.card => Refreshed(s, r).local[c] = s.local[c]
         /\ Refreshed(s, r).local[r.card].v = IF r.ans.v = Absent THEN s.local[r.card].v ELSE r.ans.v
<1> DEFINE g == Got(r.ans)
           f == [s.local EXCEPT ![r.card] = g]
           s1 == [s EXCEPT !.local = f]
<1>1. r.card \in Cards /\ r.ans \in ServerCards(rev)
  BY DEF GoodReqs, RequestOK, CardKinds, AnswerOK
<1>2. s.local \in [Cards -> LocalCards(rev)] /\ 0 \in 0..rev
  BY DEF States
<1>3. CASE r.ans.v = Absent
  <2>1. Refreshed(s, r) = s
    BY <1>3 DEF Refreshed
  <2>2. Like(s, s)
    BY <1>2, LikeLocal
  <2>3. QED
    BY <1>3, <2>1, <2>2
<1>4. CASE r.ans.v # Absent
  <2>1. g \in LocalCards(rev) /\ g.v = r.ans.v
    BY <1>1, <1>4, GotLocal DEF Got
  <2>2. Refreshed(s, r) = s1
    BY <1>4 DEF Refreshed
  <2> HIDE DEF g
  <2>3. /\ f \in [Cards -> LocalCards(rev)] /\ \A c \in Cards : c # r.card => f[c] = s.local[c]
        /\ f[r.card].v = r.ans.v
    BY <1>1, <1>2, <2>1
  <2> HIDE DEF f
  <2>4. Like(s, s1) /\ s1.local = f
    BY <1>2, <2>3, LikeLocal DEF States
  <2>5. s1.local[r.card].v = r.ans.v /\ \A c \in Cards : c # r.card => s1.local[c] = s.local[c]
    BY <2>3, <2>4
  <2> HIDE DEF s1
  <2>6. QED
    BY <1>4, <2>2, <2>4, <2>5
<1>5. QED
  BY <1>3, <1>4

LEMMA AfterSyncGet ==
  ASSUME rev \in Nat, NEW s, NEW r, Handling(s, r), r.kind = "get", NEW s2 \in AfterGet(s, r)
  PROVE  /\ Result(s2)
         /\ r.st # "ok" => Ends(s, s2) /\ s2.toSync = s.toSync /\ s2.toRemove = s.toRemove
         /\ r.st = "ok" => s2 \in SyncUpload(Refreshed(s, r))
         /\ s.loop.at = "upload"
<1>1. /\ s \in States(rev) /\ RequestOK(r, rev) /\ r.by \in {"sync", "first"} /\ r \in GoodReqs(rev)
  BY HandlingFields DEF Handling
<1>2. r.by = "sync" /\ r.card \in Cards
  BY <1>1 DEF RequestOK, FetchKinds, CardKinds
<1>3. Ready(s) /\ s.progress /\ s.loop.at = "upload" /\ "sync" \in {"sync", "first"}
  BY <1>2 DEF Handling, Phase
<1>4. CASE r.st = "ok"
  <2> DEFINE s1 == Refreshed(s, r)
  <2>1. s2 \in GoOn(s1, r.by)
    BY <1>4 DEF AfterGet, Refreshed
  <2>2. Like(s, s1)
    BY <1>1, <1>4, RefreshedIs
  <2> HIDE DEF s1
  <2>3. Ready(s1) /\ s1.progress /\ s1.loop.at = "upload"
    BY <1>3, <2>2 DEF Ready, Like
  <2>4. s2 \in SyncUpload(s1)
    BY <1>2, <2>1, <2>3 DEF GoOn
  <2>5. Result(s2)
    BY <2>3, <2>4, SyncUploadIs
  <2>6. QED
    BY <1>3, <1>4, <2>4, <2>5 DEF s1
<1>5. CASE r.st # "ok"
  <2>1. s2 = Throw(s, "sync")
    BY <1>1, <1>2, <1>5 DEF AfterGet
  <2>2. /\ s2 \in States(rev) /\ Task(s2) /\ s2.wire = s.wire /\ s2.local = s.local
        /\ s2.toSync = s.toSync /\ s2.toRemove = s.toRemove /\ s2.loop = Idle /\ Flagged(s2)
    BY <1>3, <2>1, ThrowIs
  <2>3. QED
    BY <1>3, <1>5, <2>2 DEF Result, Ends
<1>6. QED
  BY <1>4, <1>5

LEMMA AfterSyncDelete ==
  ASSUME rev \in Nat, NEW s, NEW r, Handling(s, r), r.kind = "delete", NEW s2 \in AfterDelete(s, r)
  PROVE  /\ Result(s2)
         /\ r.st = "failed" => /\ Ends(s, s2) /\ s2.toSync = s.toSync
                               /\ s2.toRemove = s.toRemove \cup {r.card}
         /\ r.st # "failed" => s2 \in SyncRemove(s)
         /\ s.loop.at = "remove"
<1>1. /\ s \in States(rev) /\ RequestOK(r, rev) /\ r.by \in {"sync", "first"} /\ r \in GoodReqs(rev)
  BY HandlingFields DEF Handling
<1>2. r.by = "sync" /\ r.card \in Cards
  BY <1>1 DEF RequestOK, FetchKinds, CardKinds
<1>3. Ready(s) /\ s.progress /\ s.loop.at = "remove" /\ "sync" \in {"sync", "first"}
  BY <1>2 DEF Handling, Phase
<1>4. CASE r.st # "failed"
  <2>1. s2 \in GoOn(s, r.by)
    BY <1>2, <1>4 DEF AfterDelete, Removed
  <2>2. s2 \in SyncRemove(s)
    BY <1>2, <1>3, <2>1 DEF GoOn
  <2>3. Result(s2)
    BY <1>3, <2>2, SyncRemoveIs
  <2>4. QED
    BY <1>3, <1>4, <2>2, <2>3
<1>5. CASE r.st = "failed"
  <2> DEFINE t == s.toRemove \cup {r.card}
             s1 == [s EXCEPT !.toRemove = t]
  <2>1. s2 = Throw(s1, "sync")
    BY <1>1, <1>2, <1>5 DEF AfterDelete, Removed
  <2>2. t \in SUBSET Cards
    BY <1>1, <1>2 DEF States
  <2> HIDE DEF t
  <2>3. /\ s1 \in States(rev) /\ s1.wire = s.wire /\ s1.local = s.local /\ s1.toRemove = t
        /\ s1.toSync = s.toSync
    BY <1>1, <2>2 DEF States
  <2> HIDE DEF s1
  <2>4. Ready(s1)
    BY <1>3, <2>3 DEF Ready
  <2>5. /\ s2 \in States(rev) /\ Task(s2) /\ s2.wire = s1.wire /\ s2.local = s1.local
        /\ s2.toSync = s1.toSync /\ s2.toRemove = s1.toRemove /\ s2.loop = Idle /\ Flagged(s2)
    BY <1>3, <2>1, <2>4, ThrowIs
  <2>6. QED
    BY <1>3, <1>5, <2>3, <2>5 DEF Result, Ends, t
<1>6. QED
  BY <1>4, <1>5

-----------------------------------------------------------------------------
(* The user's functions.                                                   *)

\* A function of the user has changed s to s2.
UserStep(s, s2) ==
    /\ s2 \in States(rev) /\ Task(s2)
    /\ s2.progress = s.progress
    /\ None(s2.wire, NonUser) <=> None(s.wire, NonUser)
    /\ None(s2.wire, ByFirst) <=> None(s.wire, ByFirst)

LEMMA UserAdds ==
  ASSUME rev \in Nat, NEW s \in States(rev), Task(s), NEW kind \in CardKinds, NEW c \in Cards,
         NEW arg \in Args, kind = "put" => arg \in Values, kind = "delete" => arg \in Pairs
  PROVE  LET s2 == Send(s, Request("user", kind, c, arg))
         IN  /\ UserStep(s, s2)
             /\ \E q : Adds(s, s2, q) /\ q.by = "user" /\ q.kind = kind /\ q.card = c /\ q.arg = arg
<1> DEFINE q == Request("user", kind, c, arg)
           s2 == Send(s, q)
<1>1. "user" \in Makers /\ kind \in Kinds /\ c \in Topics
  BY DEF Makers, Kinds, Topics
<1>2. /\ Sent(q) \in GoodReqs(rev) /\ Sent(q).by = "user" /\ Sent(q).kind = kind
      /\ Sent(q).card = c /\ Sent(q).arg = arg /\ Fresh(Sent(q))
  BY <1>1, SentIs DEF Fresh, CardKinds
<1> HIDE DEF q
<1>3. /\ s2 \in States(rev) /\ Task(s2)
      /\ None(s2.wire, NonUser) <=> None(s.wire, NonUser)
      /\ None(s2.wire, ByFirst) <=> None(s.wire, ByFirst)
  BY <1>2, SendUserTask
<1>4. Adds(s, s2, Sent(q)) /\ s2.progress = s.progress
  BY <1>2, SendIs DEF Adds
<1> HIDE DEF s2
<1>5. UserStep(s, s2)
  BY <1>3, <1>4 DEF UserStep
<1>6. \E q1 : Adds(s, s2, q1) /\ q1.by = "user" /\ q1.kind = kind /\ q1.card = c /\ q1.arg = arg
  BY <1>2, <1>4
<1>7. QED
  BY <1>5, <1>6 DEF s2, q

\* What is left of the wire and the directory when only cards, _uidsToSync and
\* _hrefsToRemove change.
LEMMA UserSame ==
  ASSUME NEW s, Task(s), NEW s2 \in States(rev), s2.wire = s.wire, s2.loop = s.loop,
         s2.progress = s.progress
  PROVE  UserStep(s, s2)
  BY SameTask DEF UserStep

\* The user's request r has been answered or has failed.
Replied(s, r) ==
    /\ s \in States(rev) /\ Task(s)
    /\ r \in GoodReqs(rev) /\ r.st # "sent" /\ r.by = "user"

LEMMA RepliedFields ==
  ASSUME NEW s, NEW r, Replied(s, r)
  PROVE  /\ s \in States(rev) /\ Task(s) /\ r \in Reqs /\ RequestOK(r, rev)
         /\ r.st \in {"ok", "failed", "refused"} /\ r.kind \in CardKinds /\ r.card \in Cards
  BY DEF Replied, GoodReqs, Reqs, RequestOK

LEMMA AfterUserPut ==
  ASSUME rev \in Nat, NEW s, NEW r, Replied(s, r), r.kind = "put", NEW s2 \in AfterPut(s, r)
  PROVE  /\ UserStep(s, s2)
         /\ r.st = "ok" => \E q : Adds(s, s2, q) /\ q.by = "user" /\ q.kind = "get" /\ q.card = r.card
         /\ r.st # "ok" => /\ s2.local = s.local /\ s2.toRemove = s.toRemove /\ s2.loop = s.loop
                           /\ s2.wire = s.wire
         /\ r.st = "failed" => s2.toSync = s.toSync \cup {r.card}
         /\ r.st = "refused" => s2.toSync = s.toSync
<1>1. /\ s \in States(rev) /\ Task(s) /\ r.st \in {"ok", "failed", "refused"} /\ r.card \in Cards
      /\ r.by = "user"
  BY RepliedFields DEF Replied
<1>2. CASE r.st = "ok"
  <2>1. s2 = Send(s, Request("user", "get", r.card, {}))
    BY <1>1, <1>2 DEF AfterPut
  <2>2. {} \in Args /\ "get" \in CardKinds
    BY DEF Args, CardKinds
  <2>3. UserStep(s, s2) /\ \E q : Adds(s, s2, q) /\ q.by = "user" /\ q.kind = "get" /\ q.card = r.card
    BY <1>1, <2>1, <2>2, UserAdds
  <2>4. QED
    BY <1>2, <2>3
<1>3. CASE r.st = "failed"
  <2> DEFINE t == s.toSync \cup {r.card}
             s1 == [s EXCEPT !.toSync = t]
  <2>1. s2 = s1
    BY <1>1, <1>3 DEF AfterPut, Throw
  <2>2. t \in SUBSET Cards
    BY <1>1 DEF States
  <2> HIDE DEF t
  <2>3. /\ s1 \in States(rev) /\ s1.wire = s.wire /\ s1.local = s.local /\ s1.toSync = t
        /\ s1.toRemove = s.toRemove /\ s1.loop = s.loop /\ s1.progress = s.progress
    BY <1>1, <2>2 DEF States
  <2> HIDE DEF s1
  <2>4. UserStep(s, s2)
    BY <1>1, <2>1, <2>3, UserSame
  <2>5. QED
    BY <1>3, <2>1, <2>3, <2>4 DEF t
<1>4. CASE r.st = "refused"
  <2>1. s2 = s
    BY <1>1, <1>4 DEF AfterPut, Throw
  <2>2. UserStep(s, s2)
    BY <1>1, <2>1, UserSame
  <2>3. QED
    BY <1>4, <2>1, <2>2
<1>5. QED
  BY <1>1, <1>2, <1>3, <1>4

LEMMA AfterUserGet ==
  ASSUME rev \in Nat, NEW s, NEW r, Replied(s, r), r.kind = "get", NEW s2 \in AfterGet(s, r)
  PROVE  /\ UserStep(s, s2)
         /\ s2.toSync = s.toSync /\ s2.toRemove = s.toRemove /\ s2.loop = s.loop /\ s2.wire = s.wire
         /\ r.st # "ok" => s2.local = s.local
         /\ r.st = "ok" => s2 = Refreshed(s, r)
         /\ \A c \in Cards : c # r.card => s2.local[c] = s.local[c]
<1>1. /\ s \in States(rev) /\ Task(s) /\ r.by = "user" /\ r \in GoodReqs(rev)
  BY RepliedFields DEF Replied
<1>2. CASE r.st # "ok"
  <2>1. s2 = s
    BY <1>1, <1>2 DEF AfterGet, Throw
  <2>2. UserStep(s, s2)
    BY <1>1, <2>1, UserSame
  <2>3. QED
    BY <1>2, <2>1, <2>2
<1>3. CASE r.st = "ok"
  <2>1. s2 = Refreshed(s, r)
    <3>1. s2 \in GoOn(Refreshed(s, r), r.by)
      BY <1>3 DEF AfterGet, Refreshed
    <3>2. QED
      BY <1>1, <3>1 DEF GoOn
  <2>2. Like(s, s2) /\ \A c \in Cards : c # r.card => s2.local[c] = s.local[c]
    BY <1>1, <1>3, <2>1, RefreshedIs
  <2>3. UserStep(s, s2)
    BY <1>1, <2>2, UserSame DEF Like
  <2>4. QED
    BY <1>3, <2>1, <2>2, <2>3 DEF Like
<1>4. QED
  BY <1>2, <1>3

\* _deleteCards sends the next removal.
Deleting(s, s2, all, rest) ==
    \E c \in rest : \E q : /\ Adds(s, s2, q) /\ q.by = "user" /\ q.kind = "delete" /\ q.card = c
                          /\ q.arg = <<all, rest \ {c}>>

LEMMA DeleteRestIs ==
  ASSUME rev \in Nat, NEW s \in States(rev), Task(s), NEW all \in SUBSET Cards, NEW rest \in SUBSET Cards,
         NEW s2 \in DeleteRest(s, all, rest)
  PROVE  /\ UserStep(s, s2)
         /\ rest # {} => Deleting(s, s2, all, rest)
         /\ rest = {} => /\ s2.local = s.local /\ s2.toRemove = s.toRemove /\ s2.wire = s.wire
                         /\ s2.toSync = s.toSync \ all
                         /\ s2.loop.at = s.loop.at /\ s2.loop.seen \subseteq s.loop.seen
                         /\ s.loop.at # "upload" => s2.loop.seen = s.loop.seen
                         /\ \A c \in Cards \ all : c \in s2.loop.seen <=> c \in s.loop.seen
<1>1. CASE rest # {}
  <2>1. s2 \in {Send(s, Request("user", "delete", c, <<all, rest \ {c}>>)) : c \in rest}
    BY <1>1 DEF DeleteRest
  <2>2. PICK c \in rest : s2 = Send(s, Request("user", "delete", c, <<all, rest \ {c}>>))
    BY <2>1, Zenon
  <2> DEFINE arg == <<all, rest \ {c}>>
  <2>3. arg \in Pairs
    BY DEF Pairs
  <2> HIDE DEF arg
  <2>4. arg \in Args /\ "delete" \in CardKinds /\ c \in Cards
    BY <2>3 DEF Args, CardKinds
  <2>5. s2 = Send(s, Request("user", "delete", c, arg))
    BY <2>2 DEF arg
  <2>6. UserStep(s, s2) /\ \E q : /\ Adds(s, s2, q) /\ q.by = "user" /\ q.kind = "delete" /\ q.card = c
                                  /\ q.arg = arg
    BY <2>3, <2>4, <2>5, UserAdds
  <2>7. QED
    BY <1>1, <2>6 DEF arg, Deleting
<1>2. CASE rest = {}
  <2> DEFINE t == s.toSync \ all
             n == IF s.loop.at = "upload" THEN s.loop.seen \ all ELSE s.loop.seen
             l == [s.loop EXCEPT !.seen = n]
             s1 == [s EXCEPT !.toSync = t, !.loop = l]
  <2>1. s2 = s1
    BY <1>2 DEF DeleteRest, States
  <2>2. s.loop \in Loops /\ t \in SUBSET Cards
    BY DEF States
  <2>3. n \in SUBSET Cards
    BY <2>2 DEF Loops
  <2> HIDE DEF n, t
  <2>4. l \in Loops /\ l.at = s.loop.at /\ l.seen = n
    BY <2>2, <2>3 DEF Loops
  <2> HIDE DEF l
  <2>5. /\ s1 \in States(rev) /\ s1.wire = s.wire /\ s1.local = s.local /\ s1.toSync = t
        /\ s1.toRemove = s.toRemove /\ s1.loop = l /\ s1.progress = s.progress
    BY <2>2, <2>4 DEF States
  <2> HIDE DEF s1
  <2>6. s.loop = Idle => l = Idle
    <3>1. s.loop = Idle => n = s.loop.seen
      BY DEF Idle, n
    <3>2. n = s.loop.seen => l = s.loop
      BY <2>2 DEF Loops, l
    <3>3. QED
      BY <3>1, <3>2
  <2>7. Task(s1)
    BY <2>4, <2>5, <2>6, SameTask
  <2>8. UserStep(s, s1)
    BY <2>5, <2>7 DEF UserStep
  <2>9. n \subseteq s.loop.seen /\ (s.loop.at # "upload" => n = s.loop.seen)
        /\ \A c \in Cards \ all : c \in n <=> c \in s.loop.seen
    BY DEF n
  <2>10. QED
    BY <1>2, <2>1, <2>4, <2>5, <2>8, <2>9 DEF t
<1>3. QED
  BY <1>1, <1>2

LEMMA AfterUserDelete ==
  ASSUME rev \in Nat, NEW s, NEW r, Replied(s, r), r.kind = "delete", NEW s2 \in AfterDelete(s, r)
  PROVE  \E s1 \in States(rev), rest \in SUBSET Cards :
            /\ Task(s1) /\ s1.local = s.local /\ s1.toSync = s.toSync /\ s1.wire = s.wire
            /\ s1.loop = s.loop /\ s1.progress = s.progress
            /\ s1.toRemove = IF r.st = "failed" THEN s.toRemove \cup {r.card} ELSE s.toRemove
            /\ r.arg \in Pairs /\ rest = IF r.st = "failed" THEN {} ELSE r.arg[2]
            /\ s2 \in DeleteRest(s1, r.arg[1], rest)
            /\ UserStep(s, s2)
<1> DEFINE t == s.toRemove \cup {r.card}
           s3 == [s EXCEPT !.toRemove = t]
           s1 == Removed(s, r)
           rest == IF r.st = "failed" THEN {} ELSE r.arg[2]
<1>1. /\ s \in States(rev) /\ Task(s) /\ r.card \in Cards /\ r.by = "user" /\ RequestOK(r, rev)
  BY RepliedFields DEF Replied
<1>2. r.arg \in Pairs
  BY <1>1 DEF RequestOK
<1>3. rest \in SUBSET Cards /\ r.arg[1] \in SUBSET Cards
  BY <1>2 DEF Pairs
<1>4. s2 \in DeleteRest(s1, r.arg[1], rest)
  BY <1>1 DEF AfterDelete
<1>5. t \in SUBSET Cards
  BY <1>1 DEF States
<1> HIDE DEF t
<1>6. /\ s3 \in States(rev) /\ s3.wire = s.wire /\ s3.local = s.local /\ s3.toSync = s.toSync
      /\ s3.toRemove = t /\ s3.loop = s.loop /\ s3.progress = s.progress
  BY <1>1, <1>5 DEF States
<1>7. s1 = IF r.st = "failed" THEN s3 ELSE s
  BY DEF Removed, s3, t
<1> HIDE DEF s1, s3, rest
<1>8. /\ s1 \in States(rev) /\ s1.wire = s.wire /\ s1.local = s.local /\ s1.toSync = s.toSync
      /\ s1.toRemove = IF r.st = "failed" THEN t ELSE s.toRemove
      /\ s1.loop = s.loop /\ s1.progress = s.progress
  BY <1>1, <1>6, <1>7
<1>9. Task(s1)
  BY <1>1, <1>8, SameTask
<1>10. UserStep(s1, s2)
  BY <1>3, <1>4, <1>8, <1>9, DeleteRestIs
<1>11. UserStep(s, s2)
  BY <1>8, <1>10 DEF UserStep
<1>12. QED
  BY <1>2, <1>3, <1>4, <1>8, <1>9, <1>11 DEF t, rest

-----------------------------------------------------------------------------
(* Whatever is answered.                                                   *)

Grows(s, s2) ==
    \/ s2.wire = s.wire
    \/ \E q \in GoodReqs(rev) : Fresh(q) /\ s2.wire = Append(s.wire, q)

\* A function that is not the user's goes on.
OtherGrows(s, s2) ==
    \/ s2.wire = s.wire
    \/ \E q \in GoodReqs(rev) : Fresh(q) /\ q.by # "user" /\ s2.wire = Append(s.wire, q)

SyncGrows(s, s2) ==
    \E q \in GoodReqs(rev) : Fresh(q) /\ q.by = "sync" /\ s2.wire = Append(s.wire, q)

LEMMA SyncUploadGrows ==
  ASSUME rev \in Nat, NEW s, Ready(s), s.progress, s.loop.at = "upload", NEW s2 \in SyncUpload(s)
  PROVE  SyncGrows(s, s2)
<1>1. \/ \E c \in s.toSync \ s.loop.seen : Visits(s, s2, c, "put", Content(s, c))
      \/ s2 = SyncUpdate(s)
  BY SyncUploadIs
<1>2. ASSUME NEW c, Visits(s, s2, c, "put", Content(s, c)) PROVE SyncGrows(s, s2)
  BY <1>2 DEF Visits, SyncGrows
<1>3. SyncGrows(s, SyncUpdate(s))
  <2>1. \E r \in GoodReqs(rev) : SyncUpdate(s).wire = Append(s.wire, r) /\ Fresh(r) /\ r.by = "sync"
    BY SyncUpdateIs
  <2>2. QED
    BY <2>1 DEF SyncGrows
<1>4. QED
  BY <1>1, <1>2, <1>3

LEMMA SyncRemoveGrows ==
  ASSUME rev \in Nat, NEW s, Ready(s), s.progress, s.loop.at = "remove", NEW s2 \in SyncRemove(s)
  PROVE  SyncGrows(s, s2)
<1>1. \/ \E c \in s.toRemove \ s.loop.seen : Visits(s, s2, c, "delete", {})
      \/ s2 \in SyncUpload(Uploading(s))
  BY SyncRemoveIs
<1>2. ASSUME NEW c, Visits(s, s2, c, "delete", {}) PROVE SyncGrows(s, s2)
  BY <1>2 DEF Visits, SyncGrows
<1>3. ASSUME s2 \in SyncUpload(Uploading(s)) PROVE SyncGrows(s, s2)
  <2> DEFINE s1 == Uploading(s)
  <2>1. Ready(s1) /\ s1.progress /\ s1.loop.at = "upload" /\ s1.wire = s.wire
    BY UploadingIs
  <2> HIDE DEF s1
  <2>2. SyncGrows(s1, s2)
    BY <1>3, <2>1, SyncUploadGrows DEF s1
  <2>3. QED
    BY <2>1, <2>2 DEF SyncGrows
<1>4. QED
  BY <1>1, <1>2, <1>3

LEMMA AddsGrows ==
  ASSUME NEW s, NEW s2, NEW q, Adds(s, s2, q)
  PROVE  Grows(s, s2)
  BY DEF Adds, Grows

LEMMA ResultOutcome ==
  ASSUME NEW s2, NEW r, Result(s2)
  PROVE  Outcome(s2, r)
  BY DEF Result, Outcome

LEMMA OtherIsGrows ==
  ASSUME NEW s, NEW s2, OtherGrows(s, s2)
  PROVE  Grows(s, s2)
  BY DEF OtherGrows, Grows

LEMMA AfterHandling ==
  ASSUME rev \in Nat, NEW s, NEW r, Handling(s, r), NEW s2 \in After(s, r)
  PROVE  /\ Outcome(s2, r) /\ Grows(s, s2) /\ OtherGrows(s, s2)
         /\ r.kind \notin CardKinds => FetchOutcome(s, s2, r)
<1>1. r.kind \in Kinds /\ r.st \in {"ok", "failed", "refused"} /\ Ready(s) /\ s.progress
      /\ s \in States(rev) /\ r \in GoodReqs(rev) /\ r.by # "user"
  BY HandlingFields DEF Handling
<1>2. CASE r.kind = "put"
  <2>1. s2 \in AfterPut(s, r)
    BY <1>2 DEF After
  <2>2. /\ Result(s2)
        /\ r.st = "ok" => \E q : Adds(s, s2, q) /\ q.by = "sync"
        /\ r.st # "ok" => s2.wire = s.wire
    BY <1>1, <1>2, <2>1, AfterSyncPut DEF Ends
  <2>3. OtherGrows(s, s2)
    BY <2>2 DEF OtherGrows, Adds
  <2>4. QED
    BY <1>2, <2>2, <2>3, OtherIsGrows, ResultOutcome DEF CardKinds
<1>3. CASE r.kind = "get"
  <2>1. s2 \in AfterGet(s, r)
    BY <1>3 DEF After
  <2>2. /\ Result(s2) /\ s.loop.at = "upload"
        /\ r.st # "ok" => s2.wire = s.wire
        /\ r.st = "ok" => s2 \in SyncUpload(Refreshed(s, r))
    BY <1>3, <2>1, AfterSyncGet DEF Ends
  <2>3. ASSUME r.st = "ok" PROVE OtherGrows(s, s2)
    <3> DEFINE s1 == Refreshed(s, r)
    <3>1. Like(s, s1)
      BY <1>1, <1>3, <2>3, RefreshedIs
    <3> HIDE DEF s1
    <3>2. Ready(s1) /\ s1.progress /\ s1.loop.at = "upload" /\ s1.wire = s.wire
      BY <1>1, <2>2, <3>1 DEF Like, Ready
    <3>3. SyncGrows(s1, s2)
      BY <2>2, <2>3, <3>2, SyncUploadGrows DEF s1
    <3>4. QED
      BY <3>2, <3>3 DEF OtherGrows, SyncGrows
  <2>4. OtherGrows(s, s2)
    BY <2>2, <2>3 DEF OtherGrows
  <2>5. QED
    BY <1>3, <2>2, <2>4, OtherIsGrows, ResultOutcome DEF CardKinds
<1>4. CASE r.kind = "delete"
  <2>1. s2 \in AfterDelete(s, r)
    BY <1>4 DEF After
  <2>2. /\ Result(s2) /\ s.loop.at = "remove"
        /\ r.st = "failed" => s2.wire = s.wire
        /\ r.st # "failed" => s2 \in SyncRemove(s)
    BY <1>4, <2>1, AfterSyncDelete DEF Ends
  <2>3. OtherGrows(s, s2)
    BY <1>1, <2>2, SyncRemoveGrows DEF OtherGrows, SyncGrows
  <2>4. QED
    BY <1>4, <2>2, <2>3, OtherIsGrows, ResultOutcome DEF CardKinds
<1>5. CASE r.kind \notin CardKinds
  <2>1. r.kind \in {"report", "propfind", "multiget", "list", "bulk", "token"}
    BY <1>1, <1>5 DEF Kinds, FetchKinds
  <2>2. FetchOutcome(s, s2, r)
    <3>1. CASE r.kind = "report"
      <4>1. s2 \in AfterReport(s, r)
        BY <3>1 DEF After
      <4>2. QED
        BY <3>1, <4>1, AfterReportIs
    <3>2. CASE r.kind = "propfind"
      <4>1. s2 \in AfterPropfind(s, r)
        BY <3>2 DEF After
      <4>2. QED
        BY <3>2, <4>1, AfterPropfindIs
    <3>3. CASE r.kind = "multiget"
      <4>1. s2 \in AfterMultiget(s, r)
        BY <3>3 DEF After
      <4>2. QED
        BY <3>3, <4>1, AfterMultigetIs
    <3>4. CASE r.kind = "list"
      <4>1. s2 \in AfterList(s, r)
        BY <3>4 DEF After
      <4>2. QED
        BY <3>4, <4>1, AfterListIs
    <3>5. CASE r.kind = "bulk"
      <4>1. s2 \in AfterBulk(s, r)
        BY <3>5 DEF After
      <4>2. QED
        BY <3>5, <4>1, AfterBulkIs
    <3>6. CASE r.kind = "token"
      <4>1. s2 \in AfterToken(s, r)
        BY <3>6 DEF After
      <4>2. QED
        BY <3>6, <4>1, AfterTokenIs
    <3>7. QED
      BY <2>1, <3>1, <3>2, <3>3, <3>4, <3>5, <3>6
  <2>3. QED
    BY <1>5, <2>2, OtherIsGrows DEF FetchOutcome, OtherGrows
<1>6. QED
  BY <1>2, <1>3, <1>4, <1>5 DEF CardKinds

LEMMA DeleteRestGrows ==
  ASSUME rev \in Nat, NEW s \in States(rev), Task(s), NEW all \in SUBSET Cards, NEW rest \in SUBSET Cards,
         NEW s2 \in DeleteRest(s, all, rest)
  PROVE  Grows(s, s2)
<1>1. (\E q : Adds(s, s2, q)) \/ s2.wire = s.wire
  <2>1. rest # {} => \E c \in rest : \E q : Adds(s, s2, q)
    BY DeleteRestIs DEF Deleting
  <2>2. rest = {} => s2.wire = s.wire
    BY DeleteRestIs DEF Deleting
  <2>3. QED
    BY <2>1, <2>2
<1>2. QED
  BY <1>1, AddsGrows DEF Grows

LEMMA AfterReplied ==
  ASSUME rev \in Nat, NEW s, NEW r, Replied(s, r), NEW s2 \in After(s, r)
  PROVE  UserStep(s, s2) /\ Grows(s, s2)
<1>1. r.kind \in {"put", "get", "delete"}
  BY RepliedFields DEF CardKinds
<1>2. CASE r.kind = "put"
  <2>1. s2 \in AfterPut(s, r)
    BY <1>2 DEF After
  <2>2. /\ UserStep(s, s2)
        /\ r.st = "ok" => \E q : Adds(s, s2, q)
        /\ r.st # "ok" => s2.wire = s.wire
    BY <1>2, <2>1, AfterUserPut
  <2>3. QED
    BY <2>2, AddsGrows DEF Grows
<1>3. CASE r.kind = "get"
  <2>1. s2 \in AfterGet(s, r)
    BY <1>3 DEF After
  <2>2. QED
    BY <1>3, <2>1, AfterUserGet DEF Grows
<1>4. CASE r.kind = "delete"
  <2>1. s2 \in AfterDelete(s, r)
    BY <1>4 DEF After
  <2>2. PICK s1 \in States(rev), rest \in SUBSET Cards :
          /\ Task(s1) /\ s1.wire = s.wire /\ r.arg \in Pairs
          /\ s2 \in DeleteRest(s1, r.arg[1], rest) /\ UserStep(s, s2)
    BY <1>4, <2>1, AfterUserDelete
  <2>3. r.arg[1] \in SUBSET Cards
    BY <2>2 DEF Pairs
  <2>4. Grows(s1, s2)
    BY <2>2, <2>3, DeleteRestGrows
  <2>5. QED
    BY <2>2, <2>4 DEF Grows
<1>5. QED
  BY <1>1, <1>2, <1>3, <1>4

-----------------------------------------------------------------------------
(* The steps.                                                              *)

Core == TypeInv /\ LineInv /\ TaskInv

LEMMA NowIs ==
  /\ Now.local = local /\ Now.toSync = toSync /\ Now.toRemove = toRemove /\ Now.token = token
  /\ Now.progress = progress /\ Now.loop = loop /\ Now.wire = wire
  BY DEF Now

LEMMA BecomeIs ==
  ASSUME NEW rv, NEW s \in States(rv), Become(s)
  PROVE  Now' = s
<1>1. Now' = [local |-> s.local, toSync |-> s.toSync, toRemove |-> s.toRemove, token |-> s.token,
              progress |-> s.progress, loop |-> s.loop, wire |-> s.wire]
  BY DEF Now, Become
<1>2. s = [local |-> s.local, toSync |-> s.toSync, toRemove |-> s.toRemove, token |-> s.token,
           progress |-> s.progress, loop |-> s.loop, wire |-> s.wire]
  BY DEF States
<1>3. QED
  BY <1>1, <1>2

\* The state when the first request on the wire is handled.
Popped == [Now EXCEPT !.wire = Tail(wire)]

LEMMA PoppedIs ==
  ASSUME Core, wire # <<>>
  PROVE  /\ Popped \in States(rev) /\ Popped.local = local /\ Popped.toSync = toSync
         /\ Popped.toRemove = toRemove /\ Popped.token = token /\ Popped.progress = progress
         /\ Popped.loop = loop /\ Popped.wire = Tail(wire)
         /\ wire \in Seq(GoodReqs(rev)) /\ Tail(wire) \in Seq(GoodReqs(rev)) /\ Head(wire) \in GoodReqs(rev)
<1> DEFINE w == Tail(wire)
<1>1. Now \in States(rev)
  BY DEF Core, TypeInv
<1>2. wire \in Seq(GoodReqs(rev))
  BY <1>1, NowIs DEF States
<1>3. w \in Seq(GoodReqs(rev)) /\ Head(wire) \in GoodReqs(rev)
  BY <1>2, TailIs
<1>4. [Now EXCEPT !.wire = w] = Popped
  BY DEF Popped
<1> HIDE DEF w
<1>5. LET s == [Now EXCEPT !.wire = w]
      IN  /\ s \in States(rev) /\ s.local = Now.local /\ s.toSync = Now.toSync
          /\ s.toRemove = Now.toRemove /\ s.token = Now.token /\ s.progress = Now.progress
          /\ s.loop = Now.loop /\ s.wire = w
  BY <1>1, <1>3 DEF States
<1>6. QED
  BY <1>2, <1>3, <1>4, <1>5, NowIs DEF w

LEMMA PoppedTask ==
  ASSUME Core, wire # <<>>, Head(wire).st # "sent"
  PROVE  /\ Head(wire).by = "user" => Replied(Popped, Head(wire))
         /\ Head(wire).by # "user" => Handling(Popped, Head(wire))
<1> DEFINE r == Head(wire)
           w == Tail(wire)
<1>1. /\ Popped \in States(rev) /\ Popped.progress = progress /\ Popped.loop = loop /\ Popped.wire = w
      /\ wire \in Seq(GoodReqs(rev)) /\ w \in Seq(GoodReqs(rev)) /\ r \in GoodReqs(rev)
  BY PoppedIs
<1>2. /\ r = wire[1] /\ 1 \in DOMAIN wire
      /\ \A i \in DOMAIN w : i \in Nat /\ w[i] = wire[i + 1] /\ i + 1 \in DOMAIN wire /\ i + 1 # 1
  BY <1>1, TailIs
<1>3. Task(Now)
  BY DEF Core, TaskInv
<1>4. /\ \A i, j \in DOMAIN wire : wire[i] \in NonUser /\ wire[j] \in NonUser => i = j
      /\ \A i \in DOMAIN wire : wire[i].by = "sync" => loop.at = Phase(wire[i].kind)
      /\ None(wire, BySync) => loop = Idle
      /\ ~None(wire, NonUser) => progress
  BY <1>3, NowIs DEF Task
<1>5. \A X : None(wire, X) <=> None(w, X) /\ r \notin X
  BY <1>1, NoneTail
<1>6. r \in Reqs
  BY <1>1 DEF GoodReqs
<1> HIDE DEF r, w
<1>7. ASSUME r.by = "user" PROVE Replied(Popped, r)
  <2>1. r \notin BySync /\ r \notin NonUser
    BY <1>6, <1>7, SetsOf
  <2>2. (None(w, BySync) <=> None(wire, BySync)) /\ (None(w, NonUser) <=> None(wire, NonUser))
    BY <1>5, <2>1
  <2>3. \A i, j \in DOMAIN w : w[i] \in NonUser /\ w[j] \in NonUser => i = j
    BY <1>2, <1>4
  <2>4. \A i \in DOMAIN w : w[i].by = "sync" => loop.at = Phase(w[i].kind)
    BY <1>2, <1>4
  <2>5. Task(Popped)
    BY <1>1, <1>4, <2>2, <2>3, <2>4 DEF Task
  <2>6. QED
    BY <1>1, <1>7, <2>5 DEF Replied, r
<1>8. ASSUME r.by # "user" PROVE Handling(Popped, r)
  <2>1. r \in NonUser
    BY <1>6, <1>8, SetsOf
  <2>2. None(w, NonUser)
    BY <1>2, <1>4, <2>1 DEF None
  <2>3. progress
    BY <1>4, <1>5, <2>1
  <2>4. \A i \in DOMAIN w : w[i] \in Reqs
    BY <1>1, GoodSeq
  <2>5. r.by = "first" => None(w, BySync) /\ r \notin BySync
    BY <1>6, <2>2, <2>4, SetsOf DEF None
  <2>6. r.by = "first" => loop = Idle
    BY <1>4, <1>5, <2>5
  <2>7. r.by = "sync" => loop.at = Phase(r.kind)
    BY <1>2, <1>4
  <2>8. Ready(Popped)
    BY <1>1, <2>2 DEF Ready
  <2>9. QED
    BY <1>1, <1>8, <2>3, <2>6, <2>7, <2>8 DEF Handling, r
<1>9. QED
  BY <1>7, <1>8 DEF r

LEMMA NextResponseIs ==
  ASSUME NextResponse
  PROVE  /\ wire # <<>> /\ Head(wire).st # "sent"
         /\ \E s2 \in After(Popped, Head(wire)) : Become(s2)
         /\ UNCHANGED <<prefs, online, server, rev, changes, faults, running, lost, want, shared, due>>
<1>1. [Now EXCEPT !.wire = Tail(@)] = Popped
  BY DEF Popped, Now
<1>2. QED
  BY <1>1 DEF NextResponse

\* The part of TypeInv that is not about the directory itself.
RestType ==
    /\ rev \in Nat /\ changes \in 0..MaxChanges
    /\ server \in [Cards -> ServerCards(rev)]
    /\ prefs \in [uids : SUBSET Cards, hrefs : SUBSET Cards]
    /\ want \in [Cards -> Values]
    /\ due \in SUBSET Cards /\ lost \in SUBSET Cards /\ shared \in SUBSET Cards
    /\ online \in BOOLEAN /\ running \in BOOLEAN

LEMMA TypeParts == TypeInv <=> Now \in States(rev) /\ RestType
  BY DEF TypeInv, RestType

LEMMA LineAppend ==
  ASSUME NEW S, NEW w \in Seq(S), NEW q \in S, Fresh(q), \A i \in DOMAIN w : online <=> w[i].st # "failed"
  PROVE  \A i \in DOMAIN Append(w, q) : online <=> Append(w, q)[i].st # "failed"
<1> DEFINE v == Append(w, q)
<1>1. /\ DOMAIN w = 1..Len(w) /\ Len(w) \in Nat /\ DOMAIN v = 1..(Len(w) + 1)
      /\ \A i \in 1..Len(w) : v[i] = w[i]
      /\ v[Len(w) + 1] = q
  BY AppendIs
<1>2. \A i \in DOMAIN v : (i \in DOMAIN w /\ v[i] = w[i]) \/ v[i] = q
  BY <1>1
<1>3. online <=> q.st # "failed"
  BY DEF Fresh
<1>4. QED
  BY <1>2, <1>3

LEMMA CoreStep ==
  ASSUME Core, running, NEW s, s.wire = wire \/ (wire # <<>> /\ s.wire = Tail(wire)),
         NEW s2 \in States(rev), Task(s2), Grows(s, s2), Become(s2),
         UNCHANGED <<prefs, online, rev, running>>, RestType'
  PROVE  Core'
<1>1. Now' = s2 /\ wire' = s2.wire
  BY BecomeIs DEF Become
<1>2. TypeInv'
  BY <1>1 DEF TypeInv, RestType
<1>3. TaskInv'
  BY <1>1 DEF TaskInv
<1>4. Now \in States(rev) /\ \A i \in DOMAIN wire : online <=> wire[i].st # "failed"
  BY DEF Core, TypeInv, LineInv
<1>5. wire \in Seq(GoodReqs(rev))
  BY <1>4, NowIs DEF States
<1>6. s.wire \in Seq(GoodReqs(rev)) /\ \A i \in DOMAIN s.wire : online <=> s.wire[i].st # "failed"
  <2>1. CASE s.wire = wire
    BY <1>4, <1>5, <2>1
  <2>2. CASE wire # <<>> /\ s.wire = Tail(wire)
    <3>1. /\ Tail(wire) \in Seq(GoodReqs(rev))
          /\ \A i \in DOMAIN Tail(wire) : Tail(wire)[i] = wire[i + 1] /\ i + 1 \in DOMAIN wire
      BY <1>5, <2>2, TailIs
    <3>2. QED
      BY <1>4, <2>2, <3>1
  <2>3. QED
    BY <2>1, <2>2
<1>7. \A i \in DOMAIN s2.wire : online <=> s2.wire[i].st # "failed"
  <2>1. CASE s2.wire = s.wire
    BY <1>6, <2>1
  <2>2. CASE \E q \in GoodReqs(rev) : Fresh(q) /\ s2.wire = Append(s.wire, q)
    <3>1. PICK q \in GoodReqs(rev) : Fresh(q) /\ s2.wire = Append(s.wire, q)
      BY <2>2
    <3>2. QED
      BY <1>6, <3>1, LineAppend
  <2>3. QED
    BY <2>1, <2>2 DEF Grows
<1>8. LineInv'
  BY <1>1, <1>7 DEF Core, LineInv
<1>9. QED
  BY <1>2, <1>3, <1>8 DEF Core

LEMMA CoreNextResponse ==
  ASSUME Core, NextResponse
  PROVE  Core'
<1> DEFINE r == Head(wire)
<1>1. PICK s2 \in After(Popped, r) : Become(s2)
  BY NextResponseIs
<1>2. /\ wire # <<>> /\ r.st # "sent" /\ rev \in Nat
      /\ UNCHANGED <<prefs, online, server, rev, changes, faults, running, lost, want, shared, due>>
  BY NextResponseIs DEF Core, TypeInv
<1>3. running /\ Popped.wire = Tail(wire)
  BY <1>2, PoppedIs DEF Core, LineInv
<1>4. s2 \in States(rev) /\ Task(s2) /\ Grows(Popped, s2)
  <2>1. CASE r.by = "user"
    BY <1>2, <2>1, PoppedTask, AfterReplied DEF UserStep
  <2>2. CASE r.by # "user"
    BY <1>2, <2>2, PoppedTask, AfterHandling DEF Outcome
  <2>3. QED
    BY <2>1, <2>2
<1>5. RestType'
  BY <1>2, TypeParts DEF Core, RestType
<1>6. QED
  BY <1>1, <1>2, <1>3, <1>4, <1>5, CoreStep

-----------------------------------------------------------------------------
(* Steps of the server.                                                    *)

LEMMA Mono ==
  ASSUME NEW a \in Nat, NEW b \in Nat, a =< b
  PROVE  /\ LocalCards(a) \subseteq LocalCards(b) /\ ServerCards(a) \subseteq ServerCards(b)
         /\ GoodReqs(a) \subseteq GoodReqs(b) /\ States(a) \subseteq States(b)
<1>1. 0..a \subseteq 0..b
  OBVIOUS
<1>2. LocalCards(a) \subseteq LocalCards(b)
  BY <1>1 DEF LocalCards
<1>3. ServerCards(a) \subseteq ServerCards(b)
  BY <1>1 DEF ServerCards
<1>4. \A l : ListOK(l, a) => ListOK(l, b)
  BY <1>3 DEF ListOK
<1>5. \A kind, x : AnswerOK(kind, x, a) => AnswerOK(kind, x, b)
  BY <1>1, <1>3, <1>4 DEF AnswerOK
<1>6. \A r : RequestOK(r, a) => RequestOK(r, b)
  BY <1>1, <1>5 DEF RequestOK
<1>7. GoodReqs(a) \subseteq GoodReqs(b)
  BY <1>6 DEF GoodReqs
<1>8. ASSUME NEW s \in States(a) PROVE s \in States(b)
  <2>1. /\ s.local \in [Cards -> LocalCards(b)] /\ s.token \in 0..b
    BY <1>1, <1>2 DEF States
  <2>2. s.wire \in Seq(GoodReqs(b))
    <3>1. s.wire \in Seq(GoodReqs(a))
      BY DEF States
    <3>2. QED
      BY <1>7, <3>1
  <2>3. /\ s.toSync \in SUBSET Cards /\ s.toRemove \in SUBSET Cards /\ s.progress \in BOOLEAN
        /\ s.loop \in Loops
        /\ s = [local |-> s.local, toSync |-> s.toSync, toRemove |-> s.toRemove, token |-> s.token,
                progress |-> s.progress, loop |-> s.loop, wire |-> s.wire]
    BY DEF States
  <2> DEFINE f1 == s.local
             f2 == s.toSync
             f3 == s.toRemove
             f4 == s.token
             f5 == s.progress
             f6 == s.loop
             f7 == s.wire
  <2> HIDE DEF f1, f2, f3, f4, f5, f6, f7
  <2>4. [local |-> f1, toSync |-> f2, toRemove |-> f3, token |-> f4,
         progress |-> f5, loop |-> f6, wire |-> f7] \in States(b)
    <3>1. /\ f1 \in [Cards -> LocalCards(b)] /\ f4 \in 0..b /\ f7 \in Seq(GoodReqs(b))
          /\ f2 \in SUBSET Cards /\ f3 \in SUBSET Cards /\ f5 \in BOOLEAN /\ f6 \in Loops
      BY <2>1, <2>2, <2>3 DEF f1, f2, f3, f4, f5, f6, f7
    <3>2. QED
      BY <3>1 DEF States
  <2>5. QED
    BY <2>3, <2>4 DEF f1, f2, f3, f4, f5, f6, f7
<1>9. QED
  BY <1>2, <1>3, <1>7, <1>8

\* The same requests, perhaps answered by now.
Alike(w, v) ==
    /\ DOMAIN v = DOMAIN w
    /\ \A i \in DOMAIN w : /\ v[i].by = w[i].by /\ v[i].kind = w[i].kind
                           /\ v[i].card = w[i].card /\ v[i].arg = w[i].arg

LEMMA AlikeTask ==
  ASSUME NEW s, NEW s2, Task(s), Alike(s.wire, s2.wire),
         \A i \in DOMAIN s.wire : s.wire[i] \in Reqs /\ s2.wire[i] \in Reqs,
         s2.loop = s.loop, s2.progress = s.progress
  PROVE  /\ Task(s2)
         /\ None(s2.wire, NonUser) <=> None(s.wire, NonUser)
         /\ None(s2.wire, ByFirst) <=> None(s.wire, ByFirst)
<1> DEFINE w == s.wire
           v == s2.wire
<1>1. DOMAIN v = DOMAIN w /\ \A i \in DOMAIN w : v[i].by = w[i].by /\ v[i].kind = w[i].kind
  BY DEF Alike
<1>2. \A i \in DOMAIN w : /\ v[i] \in NonUser <=> w[i] \in NonUser
                          /\ v[i] \in BySync <=> w[i] \in BySync
                          /\ v[i] \in ByFirst <=> w[i] \in ByFirst
  BY <1>1, SetsOf
<1>3. \A i \in DOMAIN v : v[i].by = "sync" => s.loop.at = Phase(v[i].kind)
  BY <1>1 DEF Task
<1> HIDE DEF v
<1>4. None(v, NonUser) <=> None(w, NonUser)
  BY <1>1, <1>2 DEF None
<1>5. None(v, BySync) <=> None(w, BySync)
  BY <1>1, <1>2 DEF None
<1>6. None(v, ByFirst) <=> None(w, ByFirst)
  BY <1>1, <1>2 DEF None
<1>7. \A i, j \in DOMAIN v : v[i] \in NonUser /\ v[j] \in NonUser => i = j
  BY <1>1, <1>2 DEF Task
<1>8. Task(s2)
  BY <1>3, <1>4, <1>5, <1>7 DEF Task, v
<1>9. QED
  BY <1>4, <1>6, <1>8 DEF v

LEMMA Marked ==
  ASSUME NEW a \in Nat, NEW b \in Nat, a =< b, NEW w \in Seq(GoodReqs(a)), NEW i \in DOMAIN w,
         NEW x \in GoodReqs(b), x.by = w[i].by, x.kind = w[i].kind, x.card = w[i].card, x.arg = w[i].arg
  PROVE  LET v == [w EXCEPT ![i] = x]
         IN  /\ v \in Seq(GoodReqs(b)) /\ Alike(w, v) /\ v[i] = x
             /\ \A j \in DOMAIN w : j # i => v[j] = w[j]
<1> DEFINE v == [w EXCEPT ![i] = x]
<1>1. w \in Seq(GoodReqs(b))
  BY Mono
<1>2. DOMAIN v = DOMAIN w /\ v[i] = x /\ \A j \in DOMAIN w : j # i => v[j] = w[j]
  OBVIOUS
<1>3. v \in Seq(GoodReqs(b))
  BY <1>1
<1> HIDE DEF v
<1>4. Alike(w, v)
  BY <1>2 DEF Alike
<1>5. QED
  BY <1>2, <1>3, <1>4 DEF v

LEMMA CoreWire ==
  ASSUME Core, rev \in Nat, rev' \in Nat, rev =< rev', wire' \in Seq(GoodReqs(rev')), Alike(wire, wire'),
         \A i \in DOMAIN wire' : online' <=> wire'[i].st # "failed",
         UNCHANGED <<local, toSync, toRemove, token, progress, loop, prefs, running>>,
         running \/ (wire' = wire /\ online' = online), RestType'
  PROVE  Core' /\ (None(wire', NonUser) <=> None(wire, NonUser))
               /\ (None(wire', ByFirst) <=> None(wire, ByFirst))
<1> DEFINE v == wire'
           n == rev'
           s2 == [Now EXCEPT !.wire = v]
<1>1. Now \in States(rev) /\ Task(Now)
  BY DEF Core, TypeInv, TaskInv
<1>2. Now \in States(n)
  BY <1>1, Mono
<1>3. s2 = Now'
  BY DEF Now
<1>4. v \in Seq(GoodReqs(n))
  OBVIOUS
<1>5. wire \in Seq(GoodReqs(rev)) /\ Alike(wire, v)
  BY <1>1, NowIs DEF States
<1>6. DOMAIN v = DOMAIN wire
  BY <1>5 DEF Alike
<1> HIDE DEF v, n
<1>7. s2 \in States(n) /\ s2.wire = v /\ s2.loop = Now.loop /\ s2.progress = Now.progress
  BY <1>2, <1>4 DEF States
<1>8. \A i \in DOMAIN wire : wire[i] \in Reqs /\ v[i] \in Reqs
  BY <1>4, <1>5, <1>6, GoodSeq
<1> HIDE DEF s2
<1>9. /\ Task(s2)
      /\ None(v, NonUser) <=> None(wire, NonUser)
      /\ None(v, ByFirst) <=> None(wire, ByFirst)
  BY <1>1, <1>5, <1>7, <1>8, NowIs, AlikeTask
<1>10. TypeInv' /\ TaskInv'
  BY <1>3, <1>7, <1>9 DEF TypeInv, RestType, TaskInv, n
<1>11. LineInv'
  BY DEF Core, LineInv
<1>12. QED
  BY <1>9, <1>10, <1>11 DEF Core, v

LEMMA ServerFields ==
  ASSUME RestType
  PROVE  /\ rev \in Nat
         /\ \A c \in Cards : /\ server[c] \in ServerCards(rev)
                             /\ server[c] \in [v : Values, etag : Nat]
<1>1. rev \in Nat /\ \A c \in Cards : server[c] \in ServerCards(rev)
  BY DEF RestType
<1>2. ServerCards(rev) \subseteq [v : Values, etag : Nat]
  BY <1>1 DEF ServerCards
<1>3. QED
  BY <1>1, <1>2

LEMMA CopyIs ==
  ASSUME RestType, NEW cs \in SUBSET Cards
  PROVE  Copy(cs) \in Lists /\ ListOK(Copy(cs), rev) /\ DOMAIN Copy(cs) = cs
         /\ \A c \in cs : Copy(cs)[c] = server[c]
<1> DEFINE f == [c \in cs |-> server[c]]
<1>1. \A c \in cs : server[c] \in ServerCards(rev) /\ server[c] \in [v : Values, etag : Nat]
  BY ServerFields
<1>2. f \in [cs -> [v : Values, etag : Nat]] /\ DOMAIN f = cs /\ \A c \in cs : f[c] = server[c]
  BY <1>1
<1>3. Copy(cs) = f
  BY DEF Copy
<1> HIDE DEF f
<1>4. f \in Lists
  BY <1>2 DEF Lists
<1>5. ListOK(f, rev)
  BY <1>1, <1>2 DEF ListOK
<1>6. QED
  BY <1>2, <1>3, <1>4, <1>5

LEMMA AnswerIs ==
  ASSUME RestType, NEW r \in GoodReqs(rev), r.kind \notin {"put", "delete"}, NEW a \in Answer(r)
  PROVE  a \in Answers /\ AnswerOK(r.kind, a, rev)
<1>1. rev \in Nat /\ r.kind \in Kinds
  BY DEF RestType, GoodReqs, Reqs
<1>2. OnServer \subseteq Cards /\ \A c \in OnServer : server[c].v # Absent
  BY DEF OnServer
<1>3. CASE r.kind = "get"
  <2>1. a = server[r.card] /\ r.card \in Cards
    BY <1>3 DEF Answer, GoodReqs, RequestOK, CardKinds
  <2>2. a \in ServerCards(rev) /\ a \in [v : Values, etag : Nat]
    BY <2>1, ServerFields
  <2>3. QED
    BY <1>3, <2>2 DEF AnswerOK, Answers
<1>4. CASE r.kind = "report"
  <2> DEFINE cs == {c \in Cards : server[c].etag > r.arg}
  <2>1. PICK d \in BOOLEAN : a = [cards |-> Copy(cs), rev |-> rev, data |-> d]
    BY <1>4, Zenon DEF Answer
  <2>2. cs \in SUBSET Cards
    OBVIOUS
  <2> DEFINE l == Copy(cs)
  <2>3. l \in Lists /\ ListOK(l, rev)
    BY <2>2, CopyIs
  <2> HIDE DEF l
  <2>4. a = [cards |-> l, rev |-> rev, data |-> d]
    BY <2>1 DEF l
  <2>5. a \in Reports /\ a.cards = l /\ a.rev = rev /\ a.data = d
    BY <1>1, <2>3, <2>4 DEF Reports
  <2>6. AnswerOK(r.kind, a, rev)
    BY <1>1, <1>4, <2>3, <2>5 DEF AnswerOK
  <2>7. QED
    BY <2>5, <2>6 DEF Answers
<1>5. CASE r.kind \in {"propfind", "list"}
  <2>1. a = Copy(OnServer)
    BY <1>5 DEF Answer
  <2>2. OnServer \in SUBSET Cards
    BY <1>2
  <2>3. a \in Lists /\ ListOK(a, rev) /\ \A c \in DOMAIN a : a[c].v # Absent
    BY <1>2, <2>1, <2>2, CopyIs
  <2>4. QED
    BY <1>5, <2>3 DEF AnswerOK, Answers
<1>6. CASE r.kind \in {"multiget", "bulk"}
  <2>1. a = Copy(r.card \cap OnServer)
    BY <1>6 DEF Answer
  <2>2. r.card \cap OnServer \in SUBSET Cards
    BY <1>2
  <2>3. a \in Lists /\ ListOK(a, rev) /\ \A c \in DOMAIN a : a[c].v # Absent
    BY <1>2, <2>1, <2>2, CopyIs
  <2>4. QED
    BY <1>6, <2>3 DEF AnswerOK, Answers
<1>7. CASE r.kind = "token"
  <2>1. a \in {rev, 0}
    BY <1>7 DEF Answer
  <2>2. QED
    BY <1>1, <1>7, <2>1 DEF AnswerOK, Answers
<1>8. QED
  BY <1>1, <1>3, <1>4, <1>5, <1>6, <1>7 DEF Kinds, CardKinds, FetchKinds

LEMMA RequestMarked ==
  ASSUME NEW rv \in Nat, NEW r \in GoodReqs(rv), NEW x \in Reqs,
         x.by = r.by, x.kind = r.kind, x.card = r.card, x.arg = r.arg,
         x.st = "ok" => AnswerOK(x.kind, x.ans, rv),
         x.st = "refused" => x.kind \in {"put", "delete", "report"}
  PROVE  x \in GoodReqs(rv)
  BY DEF GoodReqs, RequestOK

LEMMA RequestStatus ==
  ASSUME NEW rv \in Nat, NEW r \in GoodReqs(rv), NEW st \in {"ok", "refused", "failed"},
         st = "ok" => r.kind \in {"put", "delete"},
         st = "refused" => r.kind \in {"put", "delete", "report"}
  PROVE  LET x == [r EXCEPT !.st = st]
         IN  x \in GoodReqs(rv) /\ x.by = r.by /\ x.kind = r.kind /\ x.card = r.card /\ x.arg = r.arg
             /\ x.st = st
<1> DEFINE x == [r EXCEPT !.st = st]
<1>1. r \in Reqs /\ RequestOK(r, rv)
  BY DEF GoodReqs
<1>2. /\ x \in Reqs /\ x.by = r.by /\ x.kind = r.kind /\ x.card = r.card /\ x.arg = r.arg
      /\ x.st = st /\ x.ans = r.ans
  BY <1>1 DEF Reqs
<1> HIDE DEF x
<1>3. r.kind \in {"put", "delete"} => AnswerOK(r.kind, r.ans, rv)
  BY DEF AnswerOK
<1>4. RequestOK(x, rv)
  BY <1>1, <1>2, <1>3 DEF RequestOK
<1>5. QED
  BY <1>2, <1>4 DEF GoodReqs, x

\* Write
LEMMA WriteIs ==
  ASSUME RestType, NEW c \in Cards, NEW v \in Values, Write(c, v),
         UNCHANGED <<prefs, want, online, running>>,
         changes' \in 0..MaxChanges, due' \in SUBSET Cards, lost' \in SUBSET Cards, shared' \in SUBSET Cards
  PROVE  RestType' /\ rev' \in Nat /\ rev \in Nat /\ rev =< rev'
<1> DEFINE x == [v |-> v, etag |-> rev + 1]
           n == rev + 1
           f == [server EXCEPT ![c] = x]
<1>1. rev \in Nat /\ n \in Nat /\ rev =< n /\ n > 0
  BY DEF RestType
<1>2. x \in ServerCards(n)
  BY <1>1 DEF ServerCards
<1>3. server \in [Cards -> ServerCards(n)]
  BY <1>1, Mono DEF RestType
<1> HIDE DEF x, n
<1>4. f \in [Cards -> ServerCards(n)]
  BY <1>2, <1>3
<1>5. server' = f /\ rev' = n
  BY DEF Write, x, n
<1> HIDE DEF f
<1>6. server' \in [Cards -> ServerCards(rev')] /\ rev' \in Nat /\ rev =< rev'
  BY <1>1, <1>4, <1>5
<1>7. QED
  BY <1>1, <1>6 DEF RestType

LEMMA WaitingIs ==
  ASSUME Core, NEW i \in Waiting
  PROVE  /\ i \in DOMAIN wire /\ wire \in Seq(GoodReqs(rev)) /\ wire[i] \in GoodReqs(rev)
         /\ wire[i].st = "sent" /\ running /\ online /\ rev \in Nat /\ RestType
<1>1. i \in DOMAIN wire /\ wire[i].st = "sent"
  BY DEF Waiting
<1>2. Now \in States(rev) /\ rev \in Nat /\ RestType
  BY TypeParts DEF Core, RestType
<1>3. wire \in Seq(GoodReqs(rev))
  BY <1>2, NowIs DEF States
<1>4. wire # <<>> /\ wire[i] \in GoodReqs(rev)
  BY <1>1, <1>3
<1>5. running /\ online
  BY <1>1, <1>4 DEF Core, LineInv
<1>6. QED
  BY <1>1, <1>2, <1>3, <1>4, <1>5

\* A step that only answers request i.
LEMMA CoreAnswered ==
  ASSUME Core, NEW i \in Waiting, NEW x, rev \in Nat, rev' \in Nat, rev =< rev', x \in GoodReqs(rev'),
         x.by = wire[i].by, x.kind = wire[i].kind, x.card = wire[i].card, x.arg = wire[i].arg,
         x.st # "failed", wire' = [wire EXCEPT ![i] = x],
         UNCHANGED <<local, toSync, toRemove, token, progress, loop, prefs, running, online>>, RestType'
  PROVE  Core' /\ (None(wire', NonUser) <=> None(wire, NonUser))
               /\ (None(wire', ByFirst) <=> None(wire, ByFirst))
<1> DEFINE n == rev'
           v == wire'
<1>1. i \in DOMAIN wire /\ wire \in Seq(GoodReqs(rev)) /\ running /\ online
  BY WaitingIs
<1>2. n \in Nat /\ rev =< n /\ x \in GoodReqs(n) /\ v = [wire EXCEPT ![i] = x]
  OBVIOUS
<1> HIDE DEF n, v
<1>3. v \in Seq(GoodReqs(n)) /\ Alike(wire, v) /\ v[i] = x /\ \A j \in DOMAIN wire : j # i => v[j] = wire[j]
  BY <1>1, <1>2, Marked
<1>4. \A j \in DOMAIN wire : online <=> wire[j].st # "failed"
  BY DEF Core, LineInv
<1>5. \A j \in DOMAIN v : online <=> v[j].st # "failed"
  <2>1. DOMAIN v = DOMAIN wire
    BY <1>3 DEF Alike
  <2>2. QED
    BY <1>1, <1>3, <1>4, <2>1
<1>6. QED
  BY <1>1, <1>3, <1>5, CoreWire DEF v, n

LEMMA CoreServe ==
  ASSUME Core, NEW i \in Waiting, Serve(i)
  PROVE  Core' /\ (None(wire', NonUser) <=> None(wire, NonUser))
               /\ (None(wire', ByFirst) <=> None(wire, ByFirst))
<1> DEFINE r == wire[i]
           v == IF r.kind = "put" THEN r.arg ELSE Absent
<1>1. /\ i \in DOMAIN wire /\ wire \in Seq(GoodReqs(rev)) /\ r \in GoodReqs(rev) /\ rev \in Nat /\ RestType
  BY WaitingIs
<1>2. UNCHANGED <<local, toSync, toRemove, prefs, token, progress, loop, online,
                  changes, faults, running, lost, want, shared>>
  BY DEF Serve
<1>3. CASE r.kind \in {"put", "delete"} /\ wire' = [wire EXCEPT ![i].st = "ok"] /\ Write(r.card, v)
           /\ due' = NowDue(r.card, v)
  <2> DEFINE x == [r EXCEPT !.st = "ok"]
  <2>1. wire' = [wire EXCEPT ![i].st = "ok"] /\ Write(r.card, v) /\ due' = NowDue(r.card, v)
    BY <1>3
  <2>2. wire' = [wire EXCEPT ![i] = x]
    BY <2>1
  <2>3. r.card \in Cards /\ v \in Values
    <3>1. Absent \in Values
      BY CardDavAssumption DEF Absent, Values, Blank
    <3>2. QED
      BY <1>1, <1>3, <3>1 DEF GoodReqs, RequestOK, CardKinds
  <2>4. due' \in SUBSET Cards
    BY <1>1, <2>1, <2>3 DEF RestType, NowDue
  <2>5. /\ changes' \in 0..MaxChanges /\ lost' \in SUBSET Cards /\ shared' \in SUBSET Cards
    BY <1>1, <1>2 DEF RestType
  <2>6. RestType' /\ rev' \in Nat /\ rev =< rev'
    BY <1>1, <1>2, <2>1, <2>3, <2>4, <2>5, WriteIs
  <2>7. /\ x \in GoodReqs(rev) /\ x.by = r.by /\ x.kind = r.kind /\ x.card = r.card /\ x.arg = r.arg
        /\ x.st = "ok"
    BY <1>1, <1>3, RequestStatus
  <2> DEFINE n == rev'
  <2>8. x \in GoodReqs(n)
    <3>1. n \in Nat /\ rev =< n
      BY <2>6
    <3> HIDE DEF n
    <3>2. QED
      BY <1>1, <2>7, <3>1, Mono
  <2> HIDE DEF x
  <2>9. QED
    BY <1>1, <1>2, <2>2, <2>6, <2>7, <2>8, CoreAnswered
<1>4. CASE r.kind \in {"put", "delete"} /\ wire' = [wire EXCEPT ![i].st = "refused"]
           /\ UNCHANGED <<rev, server, due>>
  <2> DEFINE x == [r EXCEPT !.st = "refused"]
  <2>1. wire' = [wire EXCEPT ![i] = x]
    BY <1>1, <1>4
  <2>2. /\ x \in GoodReqs(rev) /\ x.by = r.by /\ x.kind = r.kind /\ x.card = r.card /\ x.arg = r.arg
        /\ x.st = "refused"
    BY <1>1, <1>4, RequestStatus
  <2> HIDE DEF x
  <2>3. RestType' /\ rev' = rev
    BY <1>1, <1>2, <1>4 DEF RestType
  <2>4. x \in GoodReqs(rev') /\ rev' \in Nat /\ rev =< rev'
    BY <1>1, <2>2, <2>3
  <2>5. QED
    BY <1>1, <1>2, <2>1, <2>2, <2>3, <2>4, CoreAnswered
<1>5. CASE r.kind \notin {"put", "delete"}
  <2>1. PICK a \in Answer(r) : wire' = [wire EXCEPT ![i].st = "ok", ![i].ans = a]
    BY <1>5 DEF Serve
  <2> DEFINE x == [r EXCEPT !.st = "ok", !.ans = a]
  <2>2. wire' = [wire EXCEPT ![i] = x]
    BY <1>1, <2>1
  <2>3. UNCHANGED <<rev, server, due>>
    BY <1>5 DEF Serve
  <2>4. a \in Answers /\ AnswerOK(r.kind, a, rev)
    BY <1>1, <1>5, AnswerIs
  <2>5. /\ x \in GoodReqs(rev) /\ x.by = r.by /\ x.kind = r.kind /\ x.card = r.card /\ x.arg = r.arg
        /\ x.st = "ok"
    <3>1. r \in Reqs
      BY <1>1 DEF GoodReqs
    <3> HIDE DEF r
    <3>2. /\ x \in Reqs /\ x.by = r.by /\ x.kind = r.kind /\ x.card = r.card
          /\ x.arg = r.arg /\ x.st = "ok" /\ x.ans = a
      BY <2>4, <3>1 DEF Reqs
    <3> HIDE DEF x
    <3>3. QED
      BY <1>1, <2>4, <3>2, RequestMarked
  <2>6. RestType' /\ rev' = rev
    BY <1>1, <1>2, <2>3 DEF RestType
  <2> HIDE DEF x
  <2>7. x \in GoodReqs(rev') /\ rev' \in Nat /\ rev =< rev'
    BY <1>1, <2>5, <2>6
  <2>8. QED
    BY <1>1, <1>2, <2>2, <2>5, <2>6, <2>7, CoreAnswered
<1>6. QED
  BY <1>3, <1>4, <1>5 DEF Serve

LEMMA CoreRefuse ==
  ASSUME Core, NEW i \in Waiting, Refuse(i)
  PROVE  Core' /\ (None(wire', NonUser) <=> None(wire, NonUser))
               /\ (None(wire', ByFirst) <=> None(wire, ByFirst))
<1> DEFINE r == wire[i]
           over == IF r.kind = "delete" \/ (r.kind = "put" /\ r.by = "user") THEN {r.card} ELSE {}
           x == [r EXCEPT !.st = "refused"]
<1>1. /\ i \in DOMAIN wire /\ wire \in Seq(GoodReqs(rev)) /\ r \in GoodReqs(rev) /\ rev \in Nat /\ RestType
  BY WaitingIs
<1>2. /\ r.kind \in {"put", "delete", "report"} /\ wire' = [wire EXCEPT ![i].st = "refused"]
      /\ due' = due \ over /\ lost' = lost \cup over
      /\ UNCHANGED <<local, toSync, toRemove, prefs, token, progress, loop, online,
                     server, rev, changes, running, want, shared>>
  BY DEF Refuse
<1>3. over \in SUBSET Cards
  BY <1>1 DEF GoodReqs, RequestOK, CardKinds
<1>4. wire' = [wire EXCEPT ![i] = x]
  BY <1>1, <1>2
<1>5. /\ x \in GoodReqs(rev) /\ x.by = r.by /\ x.kind = r.kind /\ x.card = r.card /\ x.arg = r.arg
      /\ x.st = "refused"
  BY <1>1, <1>2, RequestStatus
<1> HIDE DEF x, over
<1>6. RestType' /\ rev' = rev
  BY <1>1, <1>2, <1>3 DEF RestType
<1>7. x \in GoodReqs(rev') /\ rev' \in Nat /\ rev =< rev'
  BY <1>1, <1>5, <1>6
<1>8. QED
  BY <1>1, <1>2, <1>4, <1>5, <1>6, <1>7, CoreAnswered

LEMMA CoreOtherClient ==
  ASSUME Core, NEW c \in Cards, NEW v \in 0..MaxChanges, OtherClient(c, v)
  PROVE  Core'
<1>1. RestType /\ Now \in States(rev)
  BY TypeParts DEF Core
<1>2. /\ changes < MaxChanges /\ changes' = changes + 1 /\ Write(c, v) /\ shared' = shared \cup {c}
      /\ due' = due \ {c}
      /\ UNCHANGED <<local, toSync, toRemove, prefs, token, progress, loop, wire, online,
                     faults, running, lost, want>>
  BY DEF OtherClient
<1>3. v \in Values /\ MaxChanges \in Nat
  BY CardDavAssumption DEF Values, Blank
<1>4. /\ changes' \in 0..MaxChanges /\ shared' \in SUBSET Cards /\ due' \in SUBSET Cards
      /\ lost' \in SUBSET Cards
  BY <1>1, <1>2, <1>3 DEF RestType
<1>5. RestType' /\ rev \in Nat /\ rev' \in Nat /\ rev =< rev'
  BY <1>1, <1>2, <1>3, <1>4, WriteIs
<1> DEFINE n == rev'
<1>6. wire \in Seq(GoodReqs(n))
  <2>1. wire \in Seq(GoodReqs(rev)) /\ n \in Nat /\ rev =< n
    BY <1>1, <1>5, NowIs DEF States
  <2> HIDE DEF n
  <2>2. QED
    BY <1>5, <2>1, Mono
<1>7. Alike(wire, wire')
  BY <1>2 DEF Alike
<1>8. \A i \in DOMAIN wire' : online' <=> wire'[i].st # "failed"
  BY <1>2 DEF Core, LineInv
<1>9. wire' \in Seq(GoodReqs(rev'))
  BY <1>2, <1>6
<1>10. QED
  BY <1>2, <1>5, <1>7, <1>8, <1>9, CoreWire

-----------------------------------------------------------------------------
(* Steps of the user, the timer and the program.                           *)

\* The card is stored, and not sent yet.
Saving(c) == [Now EXCEPT !.local[c].v = changes + 1]

LEMMA SavingIs ==
  ASSUME Core, changes < MaxChanges, NEW c \in Cards
  PROVE  /\ Saving(c) \in States(rev) /\ Task(Saving(c)) /\ Saving(c).wire = wire /\ Saving(c).loop = loop
         /\ Saving(c).toSync = toSync /\ Saving(c).toRemove = toRemove /\ Saving(c).progress = progress
         /\ Saving(c).local[c].v = changes + 1
         /\ \A d \in Cards : d # c => Saving(c).local[d] = local[d]
         /\ changes + 1 \in Values /\ changes + 1 \in Args /\ changes + 1 # Absent
<1> DEFINE n == changes + 1
           x == [local[c] EXCEPT !.v = n]
           f == [local EXCEPT ![c] = x]
           s == [Now EXCEPT !.local = f]
<1>1. Now \in States(rev) /\ changes \in Nat /\ MaxChanges \in Nat /\ rev \in Nat
  BY CardDavAssumption DEF Core, TypeInv
<1>2. n \in Values /\ n \in Args /\ n # Absent
  BY <1>1 DEF Values, Args, Absent, Blank
<1>3. local \in [Cards -> LocalCards(rev)]
  BY <1>1, NowIs DEF States
<1>4. local[c] \in LocalCards(rev)
  BY <1>3
<1> HIDE DEF n
<1>5. x \in LocalCards(rev) /\ x.v = n
  BY <1>2, <1>4 DEF LocalCards
<1> HIDE DEF x
<1>6. f \in [Cards -> LocalCards(rev)] /\ f[c] = x /\ \A d \in Cards : d # c => f[d] = local[d]
  BY <1>3, <1>5
<1>7. Saving(c) = s
  BY <1>3 DEF Saving, Now, x, n
<1> HIDE DEF f
<1>8. /\ s \in States(rev) /\ s.wire = Now.wire /\ s.loop = Now.loop /\ s.toSync = Now.toSync
      /\ s.toRemove = Now.toRemove /\ s.progress = Now.progress /\ s.local = f
  BY <1>1, <1>6 DEF States
<1> HIDE DEF s
<1>9. Task(s)
  BY <1>8, SameTask DEF Core, TaskInv
<1>10. QED
  BY <1>2, <1>5, <1>6, <1>7, <1>8, <1>9, NowIs DEF n

LEMMA UserSaveIs ==
  ASSUME Core, NEW c \in Cards, UserSave(c)
  PROVE  /\ changes < MaxChanges /\ running /\ rev \in Nat
         /\ \E s2 : /\ Become(s2) /\ UserStep(Saving(c), s2)
                    /\ \E q : /\ Adds(Saving(c), s2, q) /\ q.by = "user" /\ q.kind = "put" /\ q.card = c
                              /\ q.arg = changes + 1
         /\ changes' = changes + 1 /\ want' = [want EXCEPT ![c] = changes + 1]
         /\ due' = due \cup ({c} \ shared)
         /\ UNCHANGED <<prefs, online, server, rev, faults, running, lost, shared>>
<1> DEFINE n == changes + 1
<1>1. /\ changes < MaxChanges /\ running /\ rev \in Nat
      /\ Become(Send(Saving(c), Request("user", "put", c, n)))
      /\ changes' = n /\ want' = [want EXCEPT ![c] = n] /\ due' = due \cup ({c} \ shared)
      /\ UNCHANGED <<prefs, online, server, rev, faults, running, lost, shared>>
  BY DEF UserSave, Saving, Core, TypeInv
<1>2. Saving(c) \in States(rev) /\ Task(Saving(c)) /\ n \in Values /\ n \in Args /\ "put" \in CardKinds
  BY <1>1, SavingIs DEF CardKinds
<1> HIDE DEF n
<1>3. LET s2 == Send(Saving(c), Request("user", "put", c, n))
      IN  /\ UserStep(Saving(c), s2)
          /\ \E q : Adds(Saving(c), s2, q) /\ q.by = "user" /\ q.kind = "put" /\ q.card = c /\ q.arg = n
  BY <1>1, <1>2, UserAdds
<1>4. QED
  BY <1>1, <1>3 DEF n

LEMMA CoreUserSave ==
  ASSUME Core, NEW c \in Cards, UserSave(c)
  PROVE  Core'
<1>1. PICK s2 : /\ Become(s2) /\ UserStep(Saving(c), s2)
                /\ \E q : Adds(Saving(c), s2, q)
  BY UserSaveIs
<1>2. /\ changes < MaxChanges /\ running /\ rev \in Nat
      /\ changes' = changes + 1 /\ want' = [want EXCEPT ![c] = changes + 1]
      /\ due' = due \cup ({c} \ shared)
      /\ UNCHANGED <<prefs, online, server, rev, faults, running, lost, shared>>
  BY UserSaveIs
<1>3. Saving(c).wire = wire /\ changes + 1 \in Values /\ RestType
  BY <1>2, SavingIs, TypeParts DEF Core
<1>4. changes' \in 0..MaxChanges
  BY <1>2, <1>3, CardDavAssumption DEF RestType
<1>5. want' \in [Cards -> Values] /\ due' \in SUBSET Cards
  BY <1>2, <1>3 DEF RestType
<1>6. RestType'
  BY <1>2, <1>3, <1>4, <1>5 DEF RestType
<1>7. s2 \in States(rev) /\ Task(s2) /\ Grows(Saving(c), s2)
  BY <1>1, AddsGrows DEF UserStep
<1>8. QED
  BY <1>1, <1>2, <1>3, <1>6, <1>7, CoreStep

LEMMA UserDeleteIs ==
  ASSUME Core, NEW cs \in SUBSET Cards, UserDelete(cs)
  PROVE  LET s == Drop(Now, cs)
             known == {c \in cs : local[c].href}
         IN  /\ Like(Now, s) /\ Task(s) /\ running /\ rev \in Nat /\ changes < MaxChanges
             /\ \A c \in Cards : c \notin cs => s.local[c] = local[c]
             /\ \E s2 \in DeleteRest(s, cs, known) : Become(s2) /\ UserStep(s, s2) /\ Grows(s, s2)
             /\ changes' = changes + 1 /\ due' = due \cup (cs \ shared)
             /\ want' = [c \in Cards |-> IF c \in cs THEN Absent ELSE want[c]]
             /\ UNCHANGED <<prefs, online, server, rev, faults, running, lost, shared>>
<1> DEFINE s == Drop(Now, cs)
           known == {c \in cs : local[c].href}
<1>1. /\ running /\ changes < MaxChanges
      /\ changes' = changes + 1 /\ due' = due \cup (cs \ shared)
      /\ want' = [c \in Cards |-> IF c \in cs THEN Absent ELSE want[c]]
      /\ UNCHANGED <<prefs, online, server, rev, faults, running, lost, shared>>
  BY DEF UserDelete
<1>2. PICK s2 \in DeleteRest(s, cs, known) : Become(s2)
  BY DEF UserDelete
<1>3. Now \in States(rev) /\ rev \in Nat /\ Task(Now) /\ known \in SUBSET Cards
  BY DEF Core, TypeInv, TaskInv
<1>4. Like(Now, s) /\ \A c \in Cards : s.local[c] = IF c \in cs THEN NoCard ELSE Now.local[c]
  BY <1>3, DropLike
<1>5. \A c \in Cards : c \notin cs => s.local[c] = local[c]
  BY <1>4, NowIs
<1> HIDE DEF s, known
<1>6. s \in States(rev) /\ Task(s)
  BY <1>3, <1>4, SameTask DEF Like
<1>7. UserStep(s, s2) /\ Grows(s, s2)
  BY <1>2, <1>3, <1>6, DeleteRestIs, DeleteRestGrows
<1>8. QED
  BY <1>1, <1>2, <1>3, <1>4, <1>5, <1>6, <1>7 DEF s, known

LEMMA CoreUserDelete ==
  ASSUME Core, NEW cs \in SUBSET Cards, UserDelete(cs)
  PROVE  Core'
<1> DEFINE s == Drop(Now, cs)
<1>1. PICK s2 : Become(s2) /\ UserStep(s, s2) /\ Grows(s, s2)
  BY UserDeleteIs
<1>2. /\ Like(Now, s) /\ running /\ rev \in Nat /\ changes < MaxChanges
      /\ changes' = changes + 1 /\ due' = due \cup (cs \ shared)
      /\ want' = [c \in Cards |-> IF c \in cs THEN Absent ELSE want[c]]
      /\ UNCHANGED <<prefs, online, server, rev, faults, running, lost, shared>>
  BY UserDeleteIs
<1> HIDE DEF s
<1>3. s.wire = wire /\ RestType /\ Absent \in Values
  BY <1>2, NowIs, TypeParts, CardDavAssumption DEF Core, Like, Absent, Values, Blank
<1>4. changes' \in 0..MaxChanges
  BY <1>2, <1>3, CardDavAssumption DEF RestType
<1>5. want' \in [Cards -> Values] /\ due' \in SUBSET Cards
  BY <1>2, <1>3 DEF RestType
<1>6. RestType'
  BY <1>2, <1>3, <1>4, <1>5 DEF RestType
<1>7. s2 \in States(rev) /\ Task(s2)
  BY <1>1 DEF UserStep
<1>8. QED
  BY <1>1, <1>2, <1>3, <1>6, <1>7, CoreStep

\* The state in which syncWithServer begins.
Syncing == [Now EXCEPT !.progress = TRUE, !.loop = [at |-> "remove", seen |-> {}]]

LEMMA SyncWithServerIs ==
  ASSUME Core, SyncWithServer
  PROVE  /\ Ready(Syncing) /\ Syncing.progress /\ Syncing.loop.at = "remove" /\ Syncing.loop.seen = {}
         /\ Syncing.local = local /\ Syncing.toSync = toSync /\ Syncing.toRemove = toRemove
         /\ Syncing.wire = wire /\ running /\ rev \in Nat /\ loop = Idle
         /\ \E s2 \in SyncRemove(Syncing) : Become(s2) /\ Result(s2) /\ SyncGrows(Syncing, s2)
         /\ UNCHANGED <<prefs, online, server, rev, changes, faults, running, lost, want, shared, due>>
<1> DEFINE z == {}
           f == TRUE
           l == [at |-> "remove", seen |-> z]
           s == [Now EXCEPT !.progress = f, !.loop = l]
<1>1. /\ running /\ ~progress /\ \E s2 \in SyncRemove(Syncing) : Become(s2)
      /\ UNCHANGED <<prefs, online, server, rev, changes, faults, running, lost, want, shared, due>>
  BY DEF SyncWithServer, Syncing
<1>2. Now \in States(rev) /\ rev \in Nat /\ Task(Now)
  BY DEF Core, TypeInv, TaskInv
<1>3. l \in Loops /\ l.at = "remove" /\ l.seen = {} /\ f \in BOOLEAN /\ f
  BY DEF Loops
<1>4. Syncing = s
  BY DEF Syncing
<1> HIDE DEF l, f
<1>5. /\ s \in States(rev) /\ s.wire = Now.wire /\ s.local = Now.local /\ s.toSync = Now.toSync
      /\ s.toRemove = Now.toRemove /\ s.progress = f /\ s.loop = l
  BY <1>2, <1>3 DEF States
<1> HIDE DEF s
<1>6. None(wire, NonUser)
  BY <1>1, <1>2, NowIs DEF Task
<1>7. \A i \in DOMAIN wire : wire[i] \in Reqs
  BY <1>2, NowIs, GoodSeq DEF States
<1>8. None(wire, BySync)
  BY <1>6, <1>7, SetsOf DEF None
<1>9. loop = Idle
  BY <1>2, <1>8, NowIs DEF Task
<1>10. Ready(s)
  BY <1>5, <1>6, NowIs DEF Ready
<1>11. /\ Ready(Syncing) /\ Syncing.progress /\ Syncing.loop.at = "remove" /\ Syncing.loop.seen = {}
       /\ Syncing.local = local /\ Syncing.toSync = toSync /\ Syncing.toRemove = toRemove
       /\ Syncing.wire = wire
  BY <1>3, <1>4, <1>5, <1>10, NowIs
<1>12. PICK s2 \in SyncRemove(Syncing) : Become(s2)
  BY <1>1
<1>13. Result(s2) /\ SyncGrows(Syncing, s2)
  BY <1>2, <1>11, SyncRemoveIs, SyncRemoveGrows
<1>14. QED
  BY <1>1, <1>2, <1>9, <1>11, <1>12, <1>13

LEMMA CoreSyncWithServer ==
  ASSUME Core, SyncWithServer
  PROVE  Core'
<1>1. /\ Syncing.wire = wire /\ running /\ rev \in Nat
      /\ UNCHANGED <<prefs, online, server, rev, changes, faults, running, lost, want, shared, due>>
  BY SyncWithServerIs
<1>2. PICK s2 : Become(s2) /\ Result(s2) /\ SyncGrows(Syncing, s2)
  BY SyncWithServerIs
<1>3. RestType'
  BY <1>1, TypeParts DEF Core, RestType
<1>4. s2 \in States(rev) /\ Task(s2) /\ Grows(Syncing, s2)
  BY <1>2 DEF Result, Grows, SyncGrows
<1>5. QED
  BY <1>1, <1>2, <1>3, <1>4, CoreStep

LEMMA GoOfflineIs ==
  ASSUME Core, GoOffline
  PROVE  /\ wire \in Seq(GoodReqs(rev)) /\ wire' \in Seq(GoodReqs(rev)) /\ Alike(wire, wire')
         /\ \A i \in DOMAIN wire : wire'[i].st = "failed"
         /\ online /\ online' = FALSE /\ running /\ rev \in Nat
         /\ UNCHANGED <<local, toSync, toRemove, prefs, token, progress, loop, server, rev,
                        changes, running, lost, want, shared, due>>
<1> DEFINE v == wire'
<1>1. /\ online /\ online' = FALSE
      /\ v = [i \in DOMAIN wire |-> [wire[i] EXCEPT !.st = "failed"]]
      /\ UNCHANGED <<local, toSync, toRemove, prefs, token, progress, loop, server, rev,
                     changes, running, lost, want, shared, due>>
  BY DEF GoOffline
<1>2. Now \in States(rev) /\ rev \in Nat /\ running
  BY <1>1 DEF Core, TypeInv, LineInv
<1>3. wire \in Seq(GoodReqs(rev))
  BY <1>2, NowIs DEF States
<1>4. ASSUME NEW i \in DOMAIN wire
      PROVE  /\ v[i] \in GoodReqs(rev) /\ v[i].by = wire[i].by /\ v[i].kind = wire[i].kind
             /\ v[i].card = wire[i].card /\ v[i].arg = wire[i].arg /\ v[i].st = "failed"
  <2>1. wire[i] \in GoodReqs(rev)
    BY <1>3
  <2> DEFINE r == wire[i]
             x == [r EXCEPT !.st = "failed"]
  <2>2. v[i] = x
    BY <1>1
  <2>3. /\ x \in GoodReqs(rev) /\ x.by = r.by /\ x.kind = r.kind /\ x.card = r.card /\ x.arg = r.arg
        /\ x.st = "failed"
    BY <1>2, <2>1, RequestStatus
  <2> HIDE DEF x
  <2>4. QED
    BY <2>2, <2>3
<1>5. DOMAIN v = DOMAIN wire
  BY <1>1
<1>6. DOMAIN wire = 1..Len(wire) /\ Len(wire) \in Nat
  BY <1>3
<1>7. v \in Seq(GoodReqs(rev))
  <2>1. v \in [1..Len(wire) -> GoodReqs(rev)]
    BY <1>1, <1>4, <1>6
  <2> HIDE DEF v
  <2>2. QED
    BY <1>6, <2>1
<1>8. Alike(wire, v)
  BY <1>4, <1>5 DEF Alike
<1>9. QED
  BY <1>1, <1>2, <1>3, <1>4, <1>7, <1>8

LEMMA CoreGoOffline ==
  ASSUME Core, GoOffline
  PROVE  Core' /\ (None(wire', NonUser) <=> None(wire, NonUser))
               /\ (None(wire', ByFirst) <=> None(wire, ByFirst))
<1>1. /\ wire' \in Seq(GoodReqs(rev)) /\ Alike(wire, wire')
      /\ \A i \in DOMAIN wire : wire'[i].st = "failed"
      /\ online' = FALSE /\ running /\ rev \in Nat
      /\ UNCHANGED <<local, toSync, toRemove, prefs, token, progress, loop, server, rev,
                     changes, running, lost, want, shared, due>>
  BY GoOfflineIs
<1>2. \A i \in DOMAIN wire' : online' <=> wire'[i].st # "failed"
  BY <1>1 DEF Alike
<1>3. RestType'
  BY <1>1, TypeParts DEF Core, RestType
<1>4. rev' \in Nat /\ rev =< rev' /\ wire' \in Seq(GoodReqs(rev'))
  BY <1>1
<1>5. QED
  BY <1>1, <1>2, <1>3, <1>4, CoreWire

LEMMA CoreGoOnline ==
  ASSUME Core, GoOnline
  PROVE  Core'
<1>1. /\ running /\ wire = <<>> /\ online' = TRUE
      /\ UNCHANGED <<local, toSync, toRemove, prefs, token, progress, loop, wire, server, rev,
                     changes, faults, running, lost, want, shared, due>>
  BY DEF GoOnline
<1>2. Now \in States(rev) /\ RestType /\ rev \in Nat
  BY TypeParts DEF Core, RestType
<1>3. wire' \in Seq(GoodReqs(rev')) /\ rev' \in Nat /\ rev =< rev' /\ Alike(wire, wire')
  BY <1>1, <1>2, NowIs DEF States, Alike
<1>4. \A i \in DOMAIN wire' : online' <=> wire'[i].st # "failed"
  BY <1>1
<1>5. RestType'
  BY <1>1, <1>2 DEF RestType
<1>6. QED
  BY <1>1, <1>2, <1>3, <1>4, <1>5, CoreWire

LEMMA EmptyNone ==
  ASSUME NEW w, w = <<>>, NEW X, NEW Y
  PROVE  None(w, X) /\ ~Last(w, X, Y)
  BY DEF None, Last

LEMMA QuietIs ==
  ASSUME Core, wire = <<>>
  PROVE  loop = Idle /\ None(wire, NonUser) /\ None(wire, ByFirst) /\ None(wire, BySync)
<1>1. None(wire, NonUser) /\ None(wire, ByFirst) /\ None(wire, BySync)
  BY EmptyNone
<1>2. QED
  BY <1>1, NowIs DEF Core, TaskInv, Task

\* A step without requests on the wire that changes the flag, _uidsToSync and
\* _hrefsToRemove.
LEMMA CoreQuiet ==
  ASSUME Core, wire = <<>>, progress' \in BOOLEAN, toSync' \in SUBSET Cards, toRemove' \in SUBSET Cards,
         UNCHANGED <<local, token, loop, wire, rev>>, RestType',
         LineInv'
  PROVE  Core'
<1> DEFINE a == toSync'
           b == toRemove'
           p == progress'
           s2 == [local |-> local, toSync |-> a, toRemove |-> b, token |-> token,
                  progress |-> p, loop |-> loop, wire |-> wire]
<1>1. Now \in States(rev) /\ loop = Idle /\ rev \in Nat
  BY QuietIs DEF Core, TypeInv
<1>2. s2 = Now'
  BY DEF Now
<1>3. a \in SUBSET Cards /\ b \in SUBSET Cards /\ p \in BOOLEAN
  OBVIOUS
<1>4. /\ local \in [Cards -> LocalCards(rev)] /\ token \in 0..rev /\ loop \in Loops
      /\ wire \in Seq(GoodReqs(rev))
  BY <1>1, NowIs DEF States
<1> HIDE DEF a, b, p
<1>5. s2 \in States(rev) /\ s2.wire = wire /\ s2.loop = loop
  BY <1>3, <1>4 DEF States
<1> HIDE DEF s2
<1>6. Ready(s2) /\ s2.loop = Idle
  BY <1>1, <1>5, QuietIs DEF Ready
<1>7. Task(s2)
  BY <1>6, QuietTask
<1>8. TypeInv' /\ TaskInv'
  BY <1>2, <1>5, <1>7 DEF TypeInv, RestType, TaskInv
<1>9. QED
  BY <1>8 DEF Core

LEMMA CoreCleanUp ==
  ASSUME Core, CleanUp
  PROVE  Core'
<1>1. /\ running /\ ~online /\ wire = <<>> /\ running' = FALSE
      /\ prefs' = [uids |-> toSync, hrefs |-> toRemove]
      /\ toSync' = {} /\ toRemove' = {} /\ progress' = FALSE
      /\ UNCHANGED <<local, token, loop, wire, online, server, rev, changes, faults, lost,
                     want, shared, due>>
  BY DEF CleanUp
<1>2. Now \in States(rev) /\ RestType
  BY TypeParts DEF Core
<1>3. toSync \in SUBSET Cards /\ toRemove \in SUBSET Cards
  BY <1>2, NowIs DEF States
<1>4. prefs' \in [uids : SUBSET Cards, hrefs : SUBSET Cards]
  BY <1>1, <1>3
<1>5. RestType'
  BY <1>1, <1>2, <1>4 DEF RestType
<1>6. LineInv'
  BY <1>1 DEF LineInv
<1>7. toSync' \in SUBSET Cards /\ toRemove' \in SUBSET Cards /\ progress' \in BOOLEAN
  BY <1>1
<1>8. QED
  BY <1>1, <1>5, <1>6, <1>7, CoreQuiet

LEMMA CoreStartUp ==
  ASSUME Core, StartUp
  PROVE  Core'
<1>1. /\ ~running /\ running' = TRUE /\ toSync' = prefs.uids /\ toRemove' = prefs.hrefs
      /\ prefs' = [uids |-> {}, hrefs |-> {}]
      /\ UNCHANGED <<local, token, progress, loop, wire, online, server, rev, changes, faults,
                     lost, want, shared, due>>
  BY DEF StartUp
<1>2. Now \in States(rev) /\ RestType /\ ~online /\ wire = <<>>
  BY <1>1, TypeParts DEF Core, LineInv
<1>3. /\ toSync' \in SUBSET Cards /\ toRemove' \in SUBSET Cards /\ progress' \in BOOLEAN
  BY <1>1, <1>2, NowIs DEF States, RestType
<1>4. prefs' \in [uids : SUBSET Cards, hrefs : SUBSET Cards] /\ prefs'.uids = {} /\ prefs'.hrefs = {}
  BY <1>1
<1>5. RestType'
  BY <1>1, <1>2, <1>4 DEF RestType
<1>6. LineInv'
  BY <1>1, <1>2, <1>4 DEF LineInv
<1>7. QED
  BY <1>1, <1>2, <1>3, <1>5, <1>6, CoreQuiet

LEMMA CoreInit ==
  ASSUME Init
  PROVE  Core /\ FlagInv
<1> DEFINE e == <<>>
           z == {}
           q == [by |-> "first", kind |-> "list", card |-> z, arg |-> 0, st |-> "sent", ans |-> e]
<1>1. /\ rev = 1 /\ local = [c \in Cards |-> NoCard] /\ toSync = {} /\ toRemove = {}
      /\ prefs = [uids |-> {}, hrefs |-> {}] /\ token = 0 /\ progress = TRUE /\ loop = Idle
      /\ wire = <<q>> /\ online = TRUE /\ running = TRUE /\ changes = 0
      /\ want = [c \in Cards |-> Absent] /\ due = {} /\ lost = {} /\ shared = {}
  BY DEF Init, Request
<1>2. PICK cs \in SUBSET Cards :
        server = [c \in Cards |-> IF c \in cs THEN [v |-> MaxChanges + 1, etag |-> 1]
                                  ELSE [v |-> Absent, etag |-> 0]]
  BY DEF Init
<1>3. MaxChanges \in Nat
  BY CardDavAssumption
<1>4. server \in [Cards -> ServerCards(rev)]
  <2>1. [v |-> MaxChanges + 1, etag |-> 1] \in ServerCards(1) /\ [v |-> Absent, etag |-> 0] \in ServerCards(1)
    BY <1>3 DEF ServerCards, Values, Absent, Blank
  <2>2. QED
    BY <1>1, <1>2, <2>1
<1>5. want \in [Cards -> Values] /\ changes \in 0..MaxChanges /\ rev \in Nat
  BY <1>1, <1>3 DEF Values, Absent, Blank
<1>6. prefs \in [uids : SUBSET Cards, hrefs : SUBSET Cards] /\ prefs.uids = {} /\ prefs.hrefs = {}
  BY <1>1
<1>7. RestType
  BY <1>1, <1>4, <1>5, <1>6 DEF RestType
<1>8. q \in GoodReqs(rev) /\ q.by = "first" /\ q.kind = "list" /\ q.st = "sent"
  <2>1. z \in Topics /\ e \in Answers /\ 0 \in Args
    BY DEF Topics, Answers, Args
  <2> HIDE DEF e, z
  <2>2. q \in Reqs /\ q.by = "first" /\ q.kind = "list" /\ q.st = "sent"
    BY <2>1 DEF Reqs, Makers, Kinds, FetchKinds
  <2> HIDE DEF q
  <2>3. RequestOK(q, rev)
    BY <2>2 DEF RequestOK, FetchKinds, CardKinds
  <2>4. QED
    BY <2>2, <2>3 DEF GoodReqs
<1>9. q \in Reqs
  BY <1>8 DEF GoodReqs
<1> HIDE DEF q
<1>10. wire \in Seq(GoodReqs(rev)) /\ DOMAIN wire = {1} /\ wire[1] = q
  BY <1>1, <1>8
<1>11. local \in [Cards -> LocalCards(rev)] /\ loop \in Loops /\ token \in 0..rev
  BY <1>1, <1>5, NoCardLocal DEF Idle, Loops
<1>12. Now \in States(rev)
  <2>1. toSync \in SUBSET Cards /\ toRemove \in SUBSET Cards /\ progress \in BOOLEAN
    BY <1>1
  <2>2. QED
    BY <1>10, <1>11, <2>1 DEF Now, States
<1>13. TypeInv
  BY <1>7, <1>12, TypeParts
<1>14. LineInv
  BY <1>1, <1>6, <1>8, <1>10 DEF LineInv
<1>15. q \in NonUser /\ ~None(wire, NonUser)
  BY <1>8, <1>9, <1>10, SetsOf DEF None
<1>16. Task(Now)
  <2>1. \A i \in DOMAIN wire : wire[i].by # "sync"
    BY <1>8, <1>10
  <2>2. \A i, j \in DOMAIN wire : i = j
    BY <1>10
  <2>3. QED
    BY <1>1, <2>1, <2>2, NowIs DEF Task
<1>17. FlagInv
  BY <1>1, <1>15 DEF FlagInv
<1>18. QED
  BY <1>13, <1>14, <1>16, <1>17 DEF Core, TaskInv

LEMMA CoreNext ==
  ASSUME Core, [Next]_vars
  PROVE  Core'
<1>1. ASSUME NEW i \in Waiting, Serve(i) \/ Refuse(i) PROVE Core'
  BY <1>1, CoreServe, CoreRefuse
<1>2. ASSUME UNCHANGED vars PROVE Core'
  <2>1. Now' = Now
    BY <1>2 DEF vars, Now
  <2>2. QED
    BY <1>2, <2>1 DEF vars, Core, TypeInv, LineInv, TaskInv
<1>3. QED
  BY <1>1, <1>2, CoreNextResponse, CoreSyncWithServer, CoreUserSave, CoreOtherClient,
     CoreUserDelete, CoreGoOffline, CoreGoOnline, CoreCleanUp, CoreStartUp DEF Next

\* The parts of the address book keep their types, whatever happens: cards have contents
\* that somebody gave them and revisions that the server has reached, and a card with an
\* _href is a card with an _etag.
THEOREM CardDavTypeCorrect == Spec => []TypeOK
<1>1. Init => Core
  BY CoreInit
<1>2. Core /\ [Next]_vars => Core'
  BY CoreNext
<1>3. Core => TypeOK
  <2> HAVE Core
  <2>1. Now \in States(rev) /\ RestType
    BY TypeParts DEF Core
  <2>2. /\ local \in [Cards -> LocalCards(rev)] /\ toSync \in SUBSET Cards
        /\ toRemove \in SUBSET Cards /\ token \in 0..rev
    BY <2>1, NowIs DEF States
  <2>3. ASSUME NEW c \in Cards
        PROVE  /\ local[c] \in [v : 0..Blank, etag : 0..rev, href : BOOLEAN]
               /\ local[c].href => Has(local, c) /\ local[c].etag > 0
               /\ server[c] \in [v : 0..Blank, etag : 0..rev]
    <3>1. local[c] \in LocalCards(rev) /\ server[c] \in ServerCards(rev)
      BY <2>1, <2>2 DEF RestType
    <3>2. QED
      BY <3>1 DEF LocalCards, ServerCards, Values, Has
  <2>4. QED
    BY <2>1, <2>2, <2>3 DEF TypeOK, RestType
<1>4. QED
  BY <1>1, <1>2, <1>3, PTL DEF Spec

-----------------------------------------------------------------------------
(* _syncInProgress.                                                        *)

\* While offline syncWithServer and fetchAllFromServer give up.
LEMMA AfterFailed ==
  ASSUME rev \in Nat, NEW s, NEW r, Handling(s, r), r.st = "failed", NEW s2 \in After(s, r)
  PROVE  s2.wire = s.wire /\ s2.local = s.local
<1>1. r.kind \in Kinds /\ s \in States(rev) /\ r.by \in {"sync", "first"} /\ Ready(s)
      /\ (r.by = "first" => s.loop = Idle)
  BY HandlingFields DEF Handling
<1>2. CASE r.kind = "put"
  BY <1>2, AfterSyncPut DEF After, Ends
<1>3. CASE r.kind = "get"
  BY <1>3, AfterSyncGet DEF After, Ends
<1>4. CASE r.kind = "delete"
  BY <1>4, AfterSyncDelete DEF After, Ends
<1>5. CASE r.kind \notin CardKinds
  <2>1. s2 = Throw(s, r.by)
    BY <1>5, AfterHandling DEF FetchOutcome
  <2>2. QED
    BY <1>1, <2>1, ThrowIs
<1>6. QED
  BY <1>2, <1>3, <1>4, <1>5 DEF CardKinds

LEMMA FlagNextResponse ==
  ASSUME Core, FlagInv, NextResponse
  PROVE  FlagInv'
<1> DEFINE r == Head(wire)
<1>1. PICK s2 \in After(Popped, r) : Become(s2)
  BY NextResponseIs
<1>2. /\ wire # <<>> /\ r.st # "sent" /\ rev \in Nat /\ online' = online
  BY NextResponseIs DEF Core, TypeInv
<1>3. /\ Popped.wire = Tail(wire) /\ Popped.progress = progress /\ wire \in Seq(GoodReqs(rev))
      /\ r \in GoodReqs(rev)
  BY <1>2, PoppedIs
<1>4. wire' = s2.wire /\ progress' = s2.progress
  BY <1>1 DEF Become
<1>5. r = wire[1] /\ 1 \in DOMAIN wire
  BY <1>2, <1>3, TailIs
<1>6. online <=> r.st # "failed"
  BY <1>5 DEF Core, LineInv
<1>7. \A X : None(wire, X) <=> None(Tail(wire), X) /\ r \notin X
  BY <1>2, <1>3, NoneTail
<1>8. r \in Reqs /\ RequestOK(r, rev)
  BY <1>3 DEF GoodReqs
<1>9. CASE r.by = "user"
  <2>1. UserStep(Popped, s2)
    BY <1>1, <1>2, <1>9, PoppedTask, AfterReplied
  <2>2. r \notin NonUser /\ r \notin ByFirst
    BY <1>8, <1>9, SetsOf
  <2>3. /\ None(s2.wire, NonUser) <=> None(wire, NonUser)
        /\ None(s2.wire, ByFirst) <=> None(wire, ByFirst)
        /\ s2.progress = progress
    BY <1>3, <1>7, <2>1, <2>2 DEF UserStep
  <2>4. QED
    BY <1>2, <1>4, <2>3 DEF FlagInv
<1>10. CASE r.by # "user"
  <2>1. Handling(Popped, r)
    BY <1>2, <1>10, PoppedTask
  <2>2. r.by = "sync" \/ r.st = "ok"
    <3>1. r.by \in {"sync", "first"} /\ r.st \in {"ok", "failed", "refused"}
      BY <2>1, HandlingFields
    <3>2. r.by = "first" => r.st # "refused"
      BY <1>8 DEF RequestOK, FetchKinds
    <3>3. r.by = "first" => r.st # "failed"
      BY <1>5, <1>6, <1>8, SetsOf DEF FlagInv, None
    <3>4. QED
      BY <3>1, <3>2, <3>3
  <2>3. Flagged(s2)
    BY <1>1, <1>2, <2>1, <2>2, AfterHandling DEF Outcome
  <2>4. ASSUME ~online PROVE None(s2.wire, ByFirst)
    <3>1. s2.wire = Tail(wire)
      BY <1>1, <1>2, <1>3, <1>6, <2>1, <2>4, AfterFailed
    <3>2. None(wire, ByFirst)
      BY <2>4 DEF FlagInv
    <3>3. QED
      BY <1>7, <3>1, <3>2
  <2>5. QED
    BY <1>2, <1>4, <2>3, <2>4 DEF FlagInv, Flagged
<1>11. QED
  BY <1>9, <1>10

LEMMA FlagSyncWithServer ==
  ASSUME Core, FlagInv, SyncWithServer
  PROVE  FlagInv'
<1>1. Syncing.wire = wire /\ online' = online /\ wire \in Seq(GoodReqs(rev))
  <2>1. Now \in States(rev)
    BY DEF Core, TypeInv
  <2>2. QED
    BY <2>1, NowIs, SyncWithServerIs DEF States
<1>2. PICK s2 : Become(s2) /\ Result(s2) /\ SyncGrows(Syncing, s2)
  BY SyncWithServerIs
<1>3. wire' = s2.wire /\ progress' = s2.progress /\ Flagged(s2)
  BY <1>2 DEF Become, Result
<1>4. PICK q \in GoodReqs(rev) : q.by = "sync" /\ s2.wire = Append(wire, q)
  BY <1>1, <1>2 DEF SyncGrows
<1>5. q \notin ByFirst
  BY <1>4 DEF ByFirst
<1>6. None(s2.wire, ByFirst) <=> None(wire, ByFirst)
  BY <1>1, <1>4, <1>5, NoneAppend
<1>7. QED
  BY <1>1, <1>3, <1>6 DEF FlagInv, Flagged

LEMMA FlagNext ==
  ASSUME "first" \notin Cases, Core, FlagInv, [Next]_vars
  PROVE  FlagInv'
<1>1. ASSUME NEW i \in Waiting, Serve(i) PROVE FlagInv'
  <2>1. progress' = progress /\ online' = online
    BY <1>1 DEF Serve
  <2>2. QED
    BY <1>1, <2>1, CoreServe DEF FlagInv
<1>2. ASSUME NEW i \in Waiting, Refuse(i) PROVE FlagInv'
  <2>1. progress' = progress /\ online' = online
    BY <1>2 DEF Refuse
  <2>2. QED
    BY <1>2, <2>1, CoreRefuse DEF FlagInv
<1>3. ASSUME NEW c \in Cards, UserSave(c) PROVE FlagInv'
  <2>1. PICK s2 : Become(s2) /\ UserStep(Saving(c), s2)
    BY <1>3, UserSaveIs
  <2>2. changes < MaxChanges /\ online' = online
    BY <1>3 DEF UserSave
  <2>3. Saving(c).wire = wire /\ Saving(c).progress = progress
    BY <2>2, SavingIs
  <2>4. QED
    BY <2>1, <2>2, <2>3 DEF FlagInv, UserStep, Become
<1>4. ASSUME NEW cs \in SUBSET Cards, UserDelete(cs) PROVE FlagInv'
  <2> DEFINE s == Drop(Now, cs)
  <2>1. PICK s2 : Become(s2) /\ UserStep(s, s2)
    BY <1>4, UserDeleteIs
  <2>2. online' = online
    BY <1>4 DEF UserDelete
  <2>3. s.wire = wire /\ s.progress = progress
    BY <1>4, UserDeleteIs, NowIs DEF Like
  <2> HIDE DEF s
  <2>4. QED
    BY <2>1, <2>2, <2>3 DEF FlagInv, UserStep, Become
<1>5. ASSUME NEW c \in Cards, NEW v \in 0..MaxChanges, OtherClient(c, v) PROVE FlagInv'
  BY <1>5 DEF OtherClient, FlagInv
<1>6. ASSUME GoOffline PROVE FlagInv'
  <2>1. progress' = progress /\ \A i \in DOMAIN wire : wire[i].by # "first"
    BY <1>6 DEF GoOffline
  <2>2. None(wire, ByFirst)
    BY <2>1 DEF None, ByFirst
  <2>3. QED
    BY <1>6, <2>1, <2>2, CoreGoOffline DEF FlagInv
<1>7. ASSUME GoOnline PROVE FlagInv'
  BY <1>7 DEF GoOnline, FlagInv
<1>8. ASSUME CleanUp PROVE FlagInv'
  BY <1>8, EmptyNone DEF CleanUp, FlagInv
<1>9. ASSUME StartUp PROVE FlagInv'
  BY <1>9 DEF StartUp, FlagInv
<1>10. ASSUME UNCHANGED vars PROVE FlagInv'
  BY <1>10 DEF vars, FlagInv
<1>11. QED
  BY <1>1, <1>2, <1>3, <1>4, <1>5, <1>6, <1>7, <1>8, <1>9, <1>10, FlagNextResponse,
     FlagSyncWithServer DEF Next

\* _syncInProgress is set exactly while a synchronisation or fetchAllFromServer has a
\* request under way, unless the connection fails during the first fetchAllFromServer
\* (the case "first"): CardDAVUtils calls that one directly, and nothing resets the flag.
THEOREM CardDavFlagMeansSync ==
  ASSUME "first" \notin Cases
  PROVE  Spec => []FlagMeansSync
<1>1. Init => Core /\ FlagInv
  BY CoreInit
<1>2. Core /\ FlagInv /\ [Next]_vars => Core' /\ FlagInv'
  BY CoreNext, FlagNext
<1>3. Core /\ FlagInv => FlagMeansSync
  <2> HAVE Core /\ FlagInv
  <2>1. Now \in States(rev) /\ Task(Now)
    BY DEF Core, TypeInv, TaskInv
  <2>2. \A i \in DOMAIN wire : wire[i] \in Reqs
    BY <2>1, NowIs, GoodSeq DEF States
  <2>3. progress <=> ~None(wire, NonUser)
    BY <2>1, NowIs DEF FlagInv, Task
  <2>4. ~None(wire, NonUser) <=> \E i \in DOMAIN wire : wire[i].by # "user"
    BY <2>2, SetsOf DEF None
  <2>5. (\E r \in Requests : r.by # "user") <=> \E i \in DOMAIN wire : wire[i].by # "user"
    BY DEF Requests
  <2>6. QED
    BY <2>3, <2>4, <2>5 DEF FlagMeansSync
<1>4. QED
  BY <1>1, <1>2, <1>3, PTL DEF Spec

-----------------------------------------------------------------------------
(* What the user has changed: lemmas about the wire.                       *)

LEMMA RequestSets ==
  ASSUME NEW r \in Reqs, NEW c, NEW v
  PROVE  /\ r \in Puts(c, v) <=> r.kind = "put" /\ r.card = c /\ r.arg = v
         /\ r \in UserPuts(c, v) <=> r.kind = "put" /\ r.card = c /\ r.arg = v /\ r.by = "user" /\ r.st = "sent"
         /\ r \in SyncPuts(c, v) <=> /\ r.kind = "put" /\ r.card = c /\ r.arg = v
                                     /\ r.by = "sync" /\ r.st \in {"sent", "refused"}
         /\ r \in Transfers(c) <=> r.kind \in {"put", "get"} /\ r.card = c
         /\ r \in Deletes(c) <=> r.kind = "delete" /\ r.card = c
         /\ r \in UserDeletes(c) <=> r.kind = "delete" /\ r.card = c /\ r.by = "user"
         /\ \A by : r \in SentDeletes(c, by) <=> r.kind = "delete" /\ r.card = c /\ r.by = by /\ r.st = "sent"
  BY DEF Puts, UserPuts, SyncPuts, Transfers, Deletes, UserDeletes, SentDeletes

\* The wire v is what is left of w after its first request, perhaps with a new request
\* that is not in X.
Follows(w, v, X) == v = Tail(w) \/ \E q \in GoodReqs(rev) \ X : v = Append(Tail(w), q)

LEMMA NoneFollows ==
  ASSUME NEW w \in Seq(GoodReqs(rev)), w # <<>>, NEW v, NEW X, Follows(w, v, X), NEW Y
  PROVE  /\ None(w, Y) /\ Y \subseteq X => None(v, Y)
         /\ None(v, Y) /\ Head(w) \notin Y => None(w, Y)
<1>1. Tail(w) \in Seq(GoodReqs(rev))
  BY TailIs
<1>2. None(w, Y) <=> None(Tail(w), Y) /\ Head(w) \notin Y
  BY NoneTail
<1>3. \A q \in GoodReqs(rev) : None(Append(Tail(w), q), Y) <=> None(Tail(w), Y) /\ q \notin Y
  BY <1>1, NoneAppend
<1>4. QED
  BY <1>2, <1>3 DEF Follows

LEMMA LastFollows ==
  ASSUME NEW w \in Seq(GoodReqs(rev)), w # <<>>, NEW v, NEW Y, Follows(w, v, Y), NEW X,
         Last(w, X, Y), Head(w) \notin X
  PROVE  Last(v, X, Y)
<1>1. Tail(w) \in Seq(GoodReqs(rev))
  BY TailIs
<1>2. Last(Tail(w), X, Y)
  BY LastTail
<1>3. \A q \in GoodReqs(rev) \ Y : Last(Append(Tail(w), q), X, Y)
  BY <1>1, <1>2, LastAppend
<1>4. QED
  BY <1>2, <1>3 DEF Follows

LEMMA NotedFollows ==
  ASSUME NEW s, NEW s2, NEW c, NEW v, Noted(s, c, v),
         s.wire \in Seq(GoodReqs(rev)), s.wire # <<>>, Head(s.wire) \notin SyncPuts(c, v),
         Follows(s.wire, s2.wire, UserDeletes(c) \cup Transfers(c) \cup ByFirst),
         c \in s2.toSync, s2.local[c].v = v, s2.loop.at = s.loop.at,
         s.loop.at = "upload" => (c \in s2.loop.seen => c \in s.loop.seen)
  PROVE  Noted(s2, c, v)
<1> DEFINE X == UserDeletes(c) \cup Transfers(c) \cup ByFirst
<1>1. /\ UserDeletes(c) \subseteq X /\ Transfers(c) \ SyncPuts(c, v) \subseteq X /\ ByFirst \subseteq X
      /\ Follows(s.wire, s2.wire, X)
  OBVIOUS
<1> HIDE DEF X
<1>2. None(s2.wire, UserDeletes(c)) /\ None(s2.wire, Transfers(c) \ SyncPuts(c, v))
  BY <1>1, NoneFollows DEF Noted
<1>3. None(s2.wire, SyncPuts(c, v)) => None(s.wire, SyncPuts(c, v))
  BY <1>1, NoneFollows
<1>4. None(s.wire, ByFirst) => None(s2.wire, ByFirst)
  BY <1>1, NoneFollows
<1>5. QED
  BY <1>2, <1>3, <1>4 DEF Noted

\* A card that is noted and of which nothing is on the wire.
Pending(s, c, v) ==
    /\ c \in s.toSync /\ s.local[c].v = v
    /\ None(s.wire, UserDeletes(c)) /\ None(s.wire, Transfers(c))

\* Nothing of the synchronisation is on the wire.
LEMMA ReadyNone ==
  ASSUME NEW s, Ready(s), NEW c, NEW v
  PROVE  /\ None(s.wire, SyncPuts(c, v)) /\ None(s.wire, SentDeletes(c, "sync"))
         /\ None(s.wire, ByFirst) /\ None(s.wire, BySync)
<1>1. \A i \in DOMAIN s.wire : s.wire[i] \in Reqs
  BY GoodSeq DEF Ready, States
<1>2. \A i \in DOMAIN s.wire : s.wire[i].by = "user"
  BY <1>1, SetsOf DEF Ready, None
<1>3. \A i \in DOMAIN s.wire : /\ s.wire[i] \notin SyncPuts(c, v) /\ s.wire[i] \notin SentDeletes(c, "sync")
                               /\ s.wire[i] \notin ByFirst /\ s.wire[i] \notin BySync
  BY <1>1, <1>2, RequestSets, SetsOf
<1>4. QED
  BY <1>3 DEF None

LEMMA PendingNoted ==
  ASSUME NEW s, Ready(s), NEW c, NEW v, Pending(s, c, v), s.loop.at # "update",
         s.loop.at = "upload" => c \notin s.loop.seen
  PROVE  Noted(s, c, v)
<1>1. None(s.wire, ByFirst)
  BY ReadyNone
<1>2. None(s.wire, Transfers(c) \ SyncPuts(c, v))
  BY DEF Pending, None
<1>3. QED
  BY <1>1, <1>2 DEF Noted, Pending

LEMMA NotedPending ==
  ASSUME NEW s, Ready(s), NEW c, NEW v, Noted(s, c, v)
  PROVE  Pending(s, c, v)
<1>1. None(s.wire, SyncPuts(c, v))
  BY ReadyNone
<1>2. None(s.wire, Transfers(c))
  BY <1>1 DEF Noted, None
<1>3. QED
  BY <1>2 DEF Noted, Pending

-----------------------------------------------------------------------------
(* What the user has changed: the loops of syncWithServer.                 *)

LEMMA FreshSent ==
  ASSUME online, NEW q, Fresh(q)
  PROVE  q.st = "sent"
  BY DEF Fresh

LEMMA UploadNoted ==
  ASSUME rev \in Nat, online, NEW s, Ready(s), s.progress, s.loop.at = "upload", NEW c, NEW v,
         c \notin s.loop.seen, Pending(s, c, v), v # Absent, NEW s2 \in SyncUpload(s)
  PROVE  Noted(s2, c, v)
<1>1. c \in s.toSync \ s.loop.seen /\ Content(s, c) = v
  BY DEF Pending, Content, Has
<1>2. PICK d \in s.toSync \ s.loop.seen : Visits(s, s2, d, "put", Content(s, d))
  BY <1>1, SyncUploadIs
<1>3. PICK q \in GoodReqs(rev) :
        /\ s2.wire = Append(s.wire, q)
        /\ q.by = "sync" /\ q.kind = "put" /\ q.card = d /\ q.arg = Content(s, d) /\ Fresh(q)
  BY <1>2 DEF Visits
<1>4. /\ s2.local = s.local /\ s2.toSync = s.toSync
      /\ s2.loop.at = "upload" /\ s2.loop.seen = s.loop.seen \cup {d}
  BY <1>2 DEF Visits
<1>5. q \in Reqs /\ q.st = "sent" /\ s.wire \in Seq(GoodReqs(rev))
  BY <1>3, FreshSent DEF GoodReqs, Ready, States
<1>6. q \notin UserDeletes(c) /\ q \notin ByFirst
  BY <1>3, <1>5, RequestSets, SetsOf
<1>7. q \in Transfers(c) => q \in SyncPuts(c, v)
  BY <1>1, <1>3, <1>5, RequestSets
<1>8. d = c => q \in SyncPuts(c, v)
  BY <1>1, <1>3, <1>5, RequestSets
<1>9. None(s2.wire, UserDeletes(c)) /\ None(s2.wire, ByFirst)
  BY <1>3, <1>5, <1>6, NoneAppend, ReadyNone DEF Pending
<1>10. None(s2.wire, Transfers(c) \ SyncPuts(c, v))
  <2>1. None(s.wire, Transfers(c) \ SyncPuts(c, v))
    BY DEF Pending, None
  <2>2. QED
    BY <1>3, <1>5, <1>7, <2>1, NoneAppend
<1>11. None(s2.wire, SyncPuts(c, v)) => d # c
  BY <1>3, <1>5, <1>8, NoneAppend
<1>12. QED
  BY <1>4, <1>9, <1>10, <1>11 DEF Noted, Pending

LEMMA RemoveNoted ==
  ASSUME rev \in Nat, online, NEW s, Ready(s), s.progress, s.loop.at = "remove", NEW c, NEW v,
         Pending(s, c, v), v # Absent, NEW s2 \in SyncRemove(s)
  PROVE  Noted(s2, c, v)
<1>1. CASE \E d \in s.toRemove \ s.loop.seen : Visits(s, s2, d, "delete", {})
  <2>1. PICK d : Visits(s, s2, d, "delete", {})
    BY <1>1
  <2>2. PICK q \in GoodReqs(rev) : s2.wire = Append(s.wire, q) /\ q.by = "sync" /\ q.kind = "delete"
    BY <2>1 DEF Visits
  <2>3. q \in Reqs /\ s.wire \in Seq(GoodReqs(rev))
    BY <2>2 DEF GoodReqs, Ready, States
  <2>4. q \notin UserDeletes(c) /\ q \notin ByFirst /\ q \notin Transfers(c)
    BY <2>2, <2>3, RequestSets, SetsOf
  <2>5. None(s2.wire, UserDeletes(c)) /\ None(s2.wire, ByFirst) /\ None(s2.wire, Transfers(c))
    BY <2>2, <2>3, <2>4, NoneAppend, ReadyNone DEF Pending
  <2>6. None(s2.wire, Transfers(c) \ SyncPuts(c, v))
    BY <2>5 DEF None
  <2>7. QED
    BY <2>1, <2>5, <2>6 DEF Visits, Noted, Pending
<1>2. CASE s2 \in SyncUpload(Uploading(s))
  <2> DEFINE s1 == Uploading(s)
  <2>1. /\ Ready(s1) /\ s1.progress /\ s1.wire = s.wire /\ s1.local = s.local /\ s1.toSync = s.toSync
        /\ s1.loop.at = "upload" /\ s1.loop.seen = {}
    BY UploadingIs
  <2> HIDE DEF s1
  <2>2. Pending(s1, c, v) /\ c \notin s1.loop.seen
    BY <2>1 DEF Pending
  <2>3. QED
    BY <1>2, <2>1, <2>2, UploadNoted DEF s1
<1>3. QED
  BY <1>1, <1>2, SyncRemoveIs

LEMMA RemoveListed ==
  ASSUME rev \in Nat, online, NEW s, Ready(s), s.progress, s.loop.at = "remove", NEW c,
         c \in s.toRemove, c \notin s.loop.seen, NEW s2 \in SyncRemove(s)
  PROVE  Listed(s2, c)
<1>1. PICK d \in s.toRemove \ s.loop.seen : Visits(s, s2, d, "delete", {})
  BY SyncRemoveIs
<1>2. PICK q \in GoodReqs(rev) : /\ s2.wire = Append(s.wire, q) /\ q.by = "sync" /\ q.kind = "delete"
                                 /\ q.card = d /\ Fresh(q)
  BY <1>1 DEF Visits
<1>3. q \in Reqs /\ q.st = "sent" /\ s.wire \in Seq(GoodReqs(rev))
  BY <1>2, FreshSent DEF GoodReqs, Ready, States
<1>4. d = c => q \in SentDeletes(c, "sync")
  BY <1>2, <1>3, RequestSets
<1>5. d = c => ~None(s2.wire, SentDeletes(c, "sync"))
  BY <1>2, <1>3, <1>4, NoneAppend
<1>6. c \in s2.toRemove /\ (c \in s2.loop.seen => d = c)
  BY <1>1 DEF Visits
<1>7. QED
  BY <1>5, <1>6 DEF Listed

\* The loops over _uidsToSync and the update leave _hrefsToRemove alone.
LEMMA UploadListed ==
  ASSUME rev \in Nat, NEW s, Ready(s), s.progress, s.loop.at = "upload", NEW c, c \in s.toRemove,
         NEW s2 \in SyncUpload(s)
  PROVE  Listed(s2, c)
<1>1. CASE \E d \in s.toSync \ s.loop.seen : Visits(s, s2, d, "put", Content(s, d))
  BY <1>1 DEF Visits, Listed
<1>2. CASE s2 = SyncUpdate(s)
  BY <1>2, SyncUpdateIs DEF Listed
<1>3. QED
  BY <1>1, <1>2, SyncUploadIs

-----------------------------------------------------------------------------
(* What the user has changed: answers.                                     *)

\* The first request on the wire has been answered, and its function has gone on.
HandledAs(s2) ==
    /\ Core /\ Single(wire) /\ wire # <<>> /\ Head(wire).st # "sent"
    /\ s2 \in After(Popped, Head(wire))

LEMMA HandledFields ==
  ASSUME NEW s2, HandledAs(s2)
  PROVE  /\ rev \in Nat /\ wire \in Seq(GoodReqs(rev)) /\ wire # <<>>
         /\ Head(wire) \in GoodReqs(rev) /\ Head(wire) \in Reqs /\ RequestOK(Head(wire), rev)
         /\ Head(wire) = wire[1] /\ 1 \in DOMAIN wire
         /\ Popped.wire = Tail(wire) /\ Popped.local = local /\ Popped.toSync = toSync
         /\ Popped.toRemove = toRemove /\ Popped.loop = loop
         /\ Head(wire).by = "user" => Replied(Popped, Head(wire))
         /\ Head(wire).by # "user" => Handling(Popped, Head(wire))
         /\ online <=> Head(wire).st # "failed"
         /\ Head(wire).kind = "delete" /\ Head(wire).by = "user" =>
              Head(wire).arg[1] = {Head(wire).card} /\ Head(wire).arg[2] = {}
<1>1. Core /\ Single(wire) /\ wire # <<>> /\ Head(wire).st # "sent" /\ rev \in Nat
  BY DEF HandledAs, Core, TypeInv
<1>2. /\ Popped.wire = Tail(wire) /\ Popped.local = local /\ Popped.toSync = toSync
      /\ Popped.toRemove = toRemove /\ Popped.loop = loop
      /\ wire \in Seq(GoodReqs(rev)) /\ Head(wire) \in GoodReqs(rev)
  BY <1>1, PoppedIs
<1>3. Head(wire) = wire[1] /\ 1 \in DOMAIN wire
  BY <1>1, <1>2, TailIs
<1>4. /\ Head(wire).by = "user" => Replied(Popped, Head(wire))
      /\ Head(wire).by # "user" => Handling(Popped, Head(wire))
  BY <1>1, PoppedTask
<1>5. Head(wire) \in Reqs /\ RequestOK(Head(wire), rev)
  BY <1>2 DEF GoodReqs
<1>6. online <=> Head(wire).st # "failed"
  BY <1>1, <1>3 DEF Core, LineInv
<1>7. Head(wire).kind = "delete" /\ Head(wire).by = "user" =>
        Head(wire).arg[1] = {Head(wire).card} /\ Head(wire).arg[2] = {}
  BY <1>1, <1>3 DEF Single
<1>8. QED
  BY <1>1, <1>2, <1>3, <1>4, <1>5, <1>6, <1>7

\* A removal of the user has been answered: nothing more is sent.
LEMMA HandledUserDelete ==
  ASSUME NEW s2, HandledAs(s2), Head(wire).by = "user", Head(wire).kind = "delete"
  PROVE  /\ s2.wire = Tail(wire) /\ s2.local = local
         /\ s2.toSync = toSync \ {Head(wire).card}
         /\ s2.toRemove = IF online THEN toRemove ELSE toRemove \cup {Head(wire).card}
         /\ s2.loop.at = loop.at /\ (loop.at # "upload" => s2.loop.seen = loop.seen)
         /\ s2.loop.seen \subseteq loop.seen
<1> DEFINE r == Head(wire)
<1>1. /\ rev \in Nat /\ Replied(Popped, r) /\ r.arg[1] = {r.card} /\ r.arg[2] = {} /\ r \in GoodReqs(rev)
      /\ (online <=> r.st # "failed")
      /\ Popped.wire = Tail(wire) /\ Popped.local = local /\ Popped.toSync = toSync
      /\ Popped.toRemove = toRemove /\ Popped.loop = loop
  BY HandledFields
<1>2. s2 \in AfterDelete(Popped, r)
  BY DEF HandledAs, After
<1>3. PICK s1 \in States(rev), rest \in SUBSET Cards :
        /\ Task(s1) /\ s1.local = Popped.local /\ s1.toSync = Popped.toSync /\ s1.wire = Popped.wire
        /\ s1.loop = Popped.loop
        /\ s1.toRemove = IF r.st = "failed" THEN Popped.toRemove \cup {r.card} ELSE Popped.toRemove
        /\ r.arg \in Pairs /\ rest = IF r.st = "failed" THEN {} ELSE r.arg[2]
        /\ s2 \in DeleteRest(s1, r.arg[1], rest)
  BY <1>1, <1>2, AfterUserDelete
<1>4. rest = {} /\ r.arg[1] \in SUBSET Cards
  BY <1>1, <1>3 DEF Pairs
<1>5. /\ s2.local = s1.local /\ s2.toRemove = s1.toRemove /\ s2.wire = s1.wire
      /\ s2.toSync = s1.toSync \ r.arg[1]
      /\ s2.loop.at = s1.loop.at /\ s2.loop.seen \subseteq s1.loop.seen
      /\ s1.loop.at # "upload" => s2.loop.seen = s1.loop.seen
  <2> DEFINE all == r.arg[1]
  <2>1. all \in SUBSET Cards /\ s2 \in DeleteRest(s1, all, rest) /\ Task(s1) /\ rev \in Nat /\ rest = {}
    BY <1>1, <1>3, <1>4
  <2> HIDE DEF all
  <2>2. /\ s2.local = s1.local /\ s2.toRemove = s1.toRemove /\ s2.wire = s1.wire
        /\ s2.toSync = s1.toSync \ all
        /\ s2.loop.at = s1.loop.at /\ s2.loop.seen \subseteq s1.loop.seen
        /\ s1.loop.at # "upload" => s2.loop.seen = s1.loop.seen
    BY <2>1, DeleteRestIs DEF Deleting
  <2>3. QED
    BY <2>2 DEF all
<1> HIDE DEF r
<1>6. QED
  BY <1>1, <1>3, <1>5 DEF r

\* No answer makes the user's functions remove another card.
LEMMA HandledFollows ==
  ASSUME NEW s2, HandledAs(s2), NEW c
  PROVE  Follows(wire, s2.wire, UserDeletes(c))
<1> DEFINE r == Head(wire)
<1>1. /\ rev \in Nat /\ Popped.wire = Tail(wire) /\ RequestOK(r, rev)
      /\ (r.by = "user" => Replied(Popped, r)) /\ (r.by # "user" => Handling(Popped, r))
      /\ s2 \in After(Popped, r)
  BY HandledFields DEF HandledAs
<1>2. \A q \in GoodReqs(rev) : q \in Reqs
  BY DEF GoodReqs
<1>3. CASE r.by # "user"
  <2>1. \/ s2.wire = Popped.wire
        \/ \E q \in GoodReqs(rev) : q.by # "user" /\ s2.wire = Append(Popped.wire, q)
    BY <1>1, <1>3, AfterHandling DEF OtherGrows
  <2>2. \A q \in GoodReqs(rev) : q.by # "user" => q \notin UserDeletes(c)
    BY <1>2, RequestSets
  <2>3. QED
    BY <1>1, <2>1, <2>2 DEF Follows
<1>4. CASE r.by = "user" /\ r.kind = "put"
  <2>1. s2 \in AfterPut(Popped, r)
    BY <1>1, <1>4 DEF After
  <2>2. /\ r.st = "ok" => \E q : Adds(Popped, s2, q) /\ q.kind = "get"
        /\ r.st # "ok" => s2.wire = Popped.wire
    BY <1>1, <1>4, <2>1, AfterUserPut
  <2>3. \A q \in GoodReqs(rev) : q.kind = "get" => q \notin UserDeletes(c)
    BY <1>2, RequestSets
  <2>4. QED
    BY <1>1, <2>2, <2>3 DEF Follows, Adds
<1>5. CASE r.by = "user" /\ r.kind = "get"
  <2>1. s2 \in AfterGet(Popped, r)
    BY <1>1, <1>5 DEF After
  <2>2. QED
    BY <1>1, <1>5, <2>1, AfterUserGet DEF Follows
<1>6. CASE r.by = "user" /\ r.kind = "delete"
  BY <1>6, HandledUserDelete DEF Follows
<1>7. QED
  BY <1>1, <1>3, <1>4, <1>5, <1>6 DEF RequestOK, CardKinds

LEMMA HandledUserNoted ==
  ASSUME NEW s2, HandledAs(s2), Head(wire).by = "user", NEW c \in Cards, NEW v, Noted(Now, c, v)
  PROVE  Noted(s2, c, v)
<1> DEFINE r == Head(wire)
           X == UserDeletes(c) \cup Transfers(c) \cup ByFirst
<1>1. /\ rev \in Nat /\ Popped.wire = Tail(wire) /\ Popped.local = local /\ Popped.toSync = toSync
      /\ Popped.loop = loop /\ wire \in Seq(GoodReqs(rev)) /\ wire # <<>>
      /\ Replied(Popped, r) /\ r \in Reqs /\ RequestOK(r, rev) /\ r = wire[1] /\ 1 \in DOMAIN wire
      /\ s2 \in After(Popped, r)
  BY HandledFields DEF HandledAs
<1>2. r \notin SyncPuts(c, v)
  BY <1>1, RequestSets
<1>3. r \notin UserDeletes(c) /\ r \notin Transfers(c)
  BY <1>1, <1>2, NowIs DEF Noted, None
<1>4. r.kind \in {"put", "get", "delete"} /\ r.card # c
  BY <1>1, <1>3, RequestSets DEF RequestOK, CardKinds
<1>5. c \in toSync /\ local[c].v = v
  BY NowIs DEF Noted
<1>6. /\ Follows(wire, s2.wire, X) /\ c \in s2.toSync /\ s2.local[c].v = v /\ s2.loop.at = loop.at
      /\ loop.at = "upload" => (c \in s2.loop.seen => c \in loop.seen)
  <2>1. CASE r.kind = "put"
    <3>1. s2 \in AfterPut(Popped, r) /\ r.st \in {"ok", "failed", "refused"}
      BY <1>1, <2>1, RepliedFields DEF After
    <3>2. /\ r.st = "ok" => \E q : Adds(Popped, s2, q) /\ q.by = "user" /\ q.kind = "get" /\ q.card = r.card
          /\ r.st # "ok" => s2.local = local /\ s2.loop = loop /\ s2.wire = Tail(wire)
          /\ r.st = "failed" => s2.toSync = toSync \cup {r.card}
          /\ r.st = "refused" => s2.toSync = toSync
      BY <1>1, <2>1, <3>1, AfterUserPut
    <3>3. ASSUME NEW q \in GoodReqs(rev), q.by = "user", q.kind = "get", q.card = r.card
          PROVE  q \notin X
      <4>1. q \in Reqs
        BY DEF GoodReqs
      <4>2. QED
        BY <1>4, <3>3, <4>1, RequestSets, SetsOf
    <3> HIDE DEF X
    <3>4. CASE r.st = "ok"
      <4>1. PICK q : Adds(Popped, s2, q) /\ q.by = "user" /\ q.kind = "get" /\ q.card = r.card
        BY <3>2, <3>4
      <4>2. q \in GoodReqs(rev) \ X /\ s2.wire = Append(Tail(wire), q)
        BY <1>1, <3>3, <4>1 DEF Adds
      <4>3. QED
        BY <1>1, <1>5, <4>1, <4>2 DEF Follows, Adds
    <3>5. CASE r.st # "ok"
      BY <1>5, <3>1, <3>2, <3>5 DEF Follows
    <3>6. QED
      BY <3>4, <3>5
  <2>2. CASE r.kind = "get"
    <3>1. s2 \in AfterGet(Popped, r)
      BY <1>1, <2>2 DEF After
    <3>2. /\ s2.toSync = toSync /\ s2.loop = loop /\ s2.wire = Tail(wire) /\ s2.local[c] = local[c]
      BY <1>1, <1>4, <2>2, <3>1, AfterUserGet
    <3>3. QED
      BY <1>5, <3>2 DEF Follows
  <2>3. CASE r.kind = "delete"
    <3>1. /\ s2.wire = Tail(wire) /\ s2.local = local /\ s2.toSync = toSync \ {r.card}
          /\ s2.loop.at = loop.at /\ s2.loop.seen \subseteq loop.seen
      BY <2>3, HandledUserDelete
    <3>2. QED
      BY <1>4, <1>5, <3>1 DEF Follows
  <2>4. QED
    BY <1>4, <2>1, <2>2, <2>3
<1>7. QED
  BY <1>1, <1>2, <1>6, NowIs, NotedFollows

LEMMA HandledOtherNoted ==
  ASSUME NEW s2, HandledAs(s2), online, Head(wire).by # "user", NEW c \in Cards, NEW v, v # Absent,
         Noted(Now, c, v)
  PROVE  Noted(s2, c, v)
<1> DEFINE r == Head(wire)
           s == Popped
<1>1. /\ rev \in Nat /\ s.wire = Tail(wire) /\ s.local = local /\ s.toSync = toSync
      /\ s.loop = loop /\ wire \in Seq(GoodReqs(rev)) /\ wire # <<>>
      /\ Handling(s, r) /\ r \in Reqs /\ RequestOK(r, rev) /\ r = wire[1] /\ 1 \in DOMAIN wire
      /\ s2 \in After(s, r) /\ r.st # "failed" /\ r \in GoodReqs(rev)
  BY HandledFields DEF HandledAs
<1>2. /\ Ready(s) /\ s.progress /\ (r.by = "sync" => loop.at = Phase(r.kind))
      /\ r.by \in {"sync", "first"} /\ r.kind \in Kinds /\ r.st \in {"ok", "refused"} /\ s \in States(rev)
  BY <1>1, HandlingFields DEF Handling
<1>3. /\ c \in toSync /\ local[c].v = v /\ None(wire, UserDeletes(c))
      /\ None(wire, Transfers(c) \ SyncPuts(c, v))
      /\ None(wire, SyncPuts(c, v)) => /\ loop.at = "upload" => c \notin loop.seen
                                       /\ loop.at # "update" /\ None(wire, ByFirst)
  BY NowIs DEF Noted
<1>4. \A Y : None(wire, Y) <=> None(s.wire, Y) /\ r \notin Y
  BY <1>1, NoneTail
<1>5. None(s.wire, SyncPuts(c, v)) /\ None(s.wire, ByFirst)
  BY <1>2, ReadyNone
<1>6. Pending(s, c, v)
  <2>1. None(s.wire, Transfers(c) \ SyncPuts(c, v)) /\ None(s.wire, UserDeletes(c))
    BY <1>3, <1>4
  <2>2. None(s.wire, Transfers(c))
    BY <1>5, <2>1 DEF None
  <2>3. QED
    BY <1>1, <1>3, <2>1, <2>2 DEF Pending
<1>7. r \notin Transfers(c) \ SyncPuts(c, v)
  BY <1>3, <1>4
<1>8. r \notin SyncPuts(c, v) =>
        /\ loop.at = "upload" => c \notin loop.seen
        /\ loop.at # "update" /\ r \notin ByFirst
  BY <1>3, <1>4, <1>5
<1> HIDE DEF s, r
<1>9. CASE r.kind = "put"
  <2>1. s2 \in AfterPut(s, r)
    BY <1>1, <1>9 DEF After
  <2>2. /\ Result(s2)
        /\ r.st = "ok" => \E q : Adds(s, s2, q) /\ q.by = "sync" /\ q.kind = "get" /\ q.card = r.card
        /\ r.st = "refused" => Ends(s, s2) /\ s2.toSync = s.toSync
    BY <1>1, <1>9, <2>1, AfterSyncPut
  <2>3. CASE r.st = "ok"
    <3>1. r \notin SyncPuts(c, v) /\ r \notin Transfers(c)
      BY <1>1, <1>7, <2>3, RequestSets
    <3>2. r.card # c /\ c \notin loop.seen /\ loop.at = "upload"
      <4>1. r.by = "sync"
        BY <1>1, <1>2, <1>9 DEF RequestOK, FetchKinds
      <4>2. Phase("put") = "upload"
        BY DEF Phase
      <4>3. QED
        BY <1>1, <1>2, <1>8, <1>9, <3>1, <4>1, <4>2, RequestSets
    <3>3. PICK q : Adds(s, s2, q) /\ q.by = "sync" /\ q.kind = "get" /\ q.card = r.card
      BY <2>2, <2>3
    <3>4. q \in Reqs /\ q \in GoodReqs(rev) /\ s.wire \in Seq(GoodReqs(rev)) /\ s2.wire = Append(s.wire, q)
      BY <1>2, <3>3 DEF Adds, GoodReqs, States
    <3>5. q \notin UserDeletes(c) /\ q \notin Transfers(c) /\ q \notin ByFirst
      BY <3>2, <3>3, <3>4, RequestSets, SetsOf
    <3>6. None(s2.wire, UserDeletes(c)) /\ None(s2.wire, Transfers(c)) /\ None(s2.wire, ByFirst)
      BY <1>5, <1>6, <3>4, <3>5, NoneAppend DEF Pending
    <3>7. None(s2.wire, Transfers(c) \ SyncPuts(c, v))
      BY <3>6 DEF None
    <3>8. s2.toSync = toSync /\ s2.local = local /\ s2.loop = loop
      BY <1>1, <3>3 DEF Adds
    <3>9. QED
      BY <1>3, <3>2, <3>6, <3>7, <3>8 DEF Noted
  <2>4. CASE r.st = "refused"
    <3>1. s2.wire = s.wire /\ s2.local = s.local /\ s2.toSync = s.toSync /\ s2.loop = Idle
      BY <2>2, <2>4 DEF Ends
    <3>2. Ready(s2) /\ s2.loop.at = "idle"
      BY <1>2, <2>2, <3>1 DEF Ready, Result, Idle
    <3>3. Pending(s2, c, v)
      BY <1>6, <3>1 DEF Pending
    <3>4. QED
      BY <3>2, <3>3, PendingNoted
  <2>5. QED
    BY <1>2, <2>3, <2>4
<1>10. CASE r.kind = "get"
  <2>1. s2 \in AfterGet(s, r)
    BY <1>1, <1>10 DEF After
  <2>2. /\ r.st = "ok" => s2 \in SyncUpload(Refreshed(s, r))
        /\ s.loop.at = "upload"
    BY <1>1, <1>10, <2>1, AfterSyncGet
  <2>3. r.st = "ok"
    BY <1>1, <1>2, <1>10 DEF RequestOK
  <2>4. r \notin SyncPuts(c, v) /\ r \notin Transfers(c)
    BY <1>1, <1>7, <1>10, RequestSets
  <2>5. r.card # c /\ c \notin s.loop.seen
    BY <1>1, <1>8, <1>10, <2>2, <2>4, RequestSets
  <2> DEFINE s1 == Refreshed(s, r)
  <2>6. Like(s, s1) /\ s1.local[c] = s.local[c]
    BY <1>1, <1>2, <1>10, <2>3, <2>5, RefreshedIs
  <2>7. s2 \in SyncUpload(s1)
    BY <2>2, <2>3
  <2> HIDE DEF s1
  <2>8. /\ Ready(s1) /\ s1.progress /\ s1.loop.at = "upload" /\ c \notin s1.loop.seen
        /\ Pending(s1, c, v)
    BY <1>2, <1>6, <2>2, <2>5, <2>6 DEF Like, Ready, Pending
  <2>9. QED
    BY <1>1, <2>7, <2>8, UploadNoted
<1>11. CASE r.kind = "delete"
  <2>1. s2 \in AfterDelete(s, r)
    BY <1>1, <1>11 DEF After
  <2>2. s2 \in SyncRemove(s) /\ s.loop.at = "remove"
    BY <1>1, <1>11, <2>1, AfterSyncDelete
  <2>3. QED
    BY <1>1, <1>2, <1>6, <2>2, RemoveNoted
<1>12. CASE r.kind \notin CardKinds
  <2>1. r \notin SyncPuts(c, v)
    BY <1>1, <1>12, RequestSets DEF CardKinds
  <2>2. loop.at # "update" /\ r \notin ByFirst
    BY <1>8, <2>1
  <2>3. r.by = "sync"
    BY <1>1, <1>2, <2>2, SetsOf
  <2>4. Phase(r.kind) = "update"
    BY <1>12 DEF Phase, CardKinds
  <2>5. QED
    BY <1>2, <2>2, <2>3, <2>4
<1>13. QED
  BY <1>9, <1>10, <1>11, <1>12 DEF CardKinds

LEMMA HandledUserListed ==
  ASSUME NEW s2, HandledAs(s2), online, Head(wire).by = "user", NEW c \in Cards, Listed(Now, c)
  PROVE  Listed(s2, c)
<1> DEFINE r == Head(wire)
           X == {}
<1>1. /\ rev \in Nat /\ Popped.wire = Tail(wire) /\ Popped.toRemove = toRemove
      /\ Popped.loop = loop /\ wire \in Seq(GoodReqs(rev)) /\ wire # <<>>
      /\ Replied(Popped, r) /\ r \in Reqs /\ RequestOK(r, rev) /\ r.st # "failed" /\ r.st # "sent"
      /\ s2 \in After(Popped, r)
  BY HandledFields DEF HandledAs
<1>2. r.kind \in {"put", "get", "delete"}
  BY <1>1 DEF RequestOK, CardKinds
<1>3. c \in toRemove /\ (loop.at = "remove" /\ c \in loop.seen => ~None(wire, SentDeletes(c, "sync")))
  BY NowIs DEF Listed
<1>4. Follows(wire, s2.wire, UserDeletes(c))
  BY HandledFollows
<1>5. ~None(wire, SentDeletes(c, "sync")) => ~None(s2.wire, SentDeletes(c, "sync"))
  <2>1. r \notin SentDeletes(c, "sync")
    BY <1>1, RequestSets
  <2>2. QED
    BY <1>1, <1>4, <2>1, NoneFollows
<1>6. /\ c \in s2.toRemove /\ s2.loop.at = loop.at
      /\ loop.at = "remove" /\ c \in s2.loop.seen => c \in loop.seen
  <2>1. CASE r.kind = "put"
    <3>1. s2 \in AfterPut(Popped, r)
      BY <1>1, <2>1 DEF After
    <3>2. s2.toRemove = toRemove /\ s2.loop = loop
      BY <1>1, <2>1, <3>1, AfterUserPut DEF Adds
    <3>3. QED
      BY <1>3, <3>2
  <2>2. CASE r.kind = "get"
    <3>1. s2 \in AfterGet(Popped, r)
      BY <1>1, <2>2 DEF After
    <3>2. s2.toRemove = toRemove /\ s2.loop = loop
      BY <1>1, <2>2, <3>1, AfterUserGet
    <3>3. QED
      BY <1>3, <3>2
  <2>3. CASE r.kind = "delete"
    BY <1>3, <2>3, HandledUserDelete
  <2>4. QED
    BY <1>2, <2>1, <2>2, <2>3
<1>7. QED
  BY <1>3, <1>5, <1>6 DEF Listed

LEMMA HandledOtherListed ==
  ASSUME NEW s2, HandledAs(s2), online, Head(wire).by # "user", NEW c \in Cards, Listed(Now, c)
  PROVE  Listed(s2, c)
<1> DEFINE r == Head(wire)
           s == Popped
<1>1. /\ rev \in Nat /\ s.wire = Tail(wire) /\ s.toRemove = toRemove
      /\ s.loop = loop /\ wire \in Seq(GoodReqs(rev)) /\ wire # <<>>
      /\ Handling(s, r) /\ r \in Reqs /\ RequestOK(r, rev) /\ r \in GoodReqs(rev)
      /\ s2 \in After(s, r) /\ r.st # "failed" /\ r.st # "sent"
  BY HandledFields DEF HandledAs
<1>2. /\ Ready(s) /\ s.progress /\ r.kind \in Kinds /\ r.st \in {"ok", "refused"} /\ s \in States(rev)
  BY <1>1, HandlingFields DEF Handling
<1>3. c \in toRemove /\ (loop.at = "remove" /\ c \in loop.seen => ~None(wire, SentDeletes(c, "sync")))
  BY NowIs DEF Listed
<1>4. None(wire, SentDeletes(c, "sync"))
  <2>1. r \notin SentDeletes(c, "sync")
    BY <1>1, RequestSets
  <2>2. None(s.wire, SentDeletes(c, "sync"))
    BY <1>2, ReadyNone
  <2>3. QED
    BY <1>1, <2>1, <2>2, NoneTail
<1>5. loop.at = "remove" => c \notin loop.seen
  BY <1>3, <1>4
<1> HIDE DEF r, s
<1>6. Idle.at = "idle"
  BY DEF Idle
<1>7. CASE r.kind = "put"
  <2>1. s2 \in AfterPut(s, r)
    BY <1>1, <1>7 DEF After
  <2>2. /\ s2.toRemove = s.toRemove
        /\ r.st = "ok" => \E q : Adds(s, s2, q)
        /\ r.st = "refused" => s2.loop = Idle
    BY <1>1, <1>7, <2>1, AfterSyncPut DEF Ends
  <2>3. s2.loop = s.loop \/ s2.loop = Idle
    BY <1>2, <2>2 DEF Adds
  <2>4. QED
    BY <1>1, <1>3, <1>5, <1>6, <2>2, <2>3 DEF Listed
<1>8. CASE r.kind = "get"
  <2>1. s2 \in AfterGet(s, r)
    BY <1>1, <1>8 DEF After
  <2>2. s2 \in SyncUpload(Refreshed(s, r)) /\ s.loop.at = "upload" /\ r.st = "ok"
    BY <1>1, <1>2, <1>8, <2>1, AfterSyncGet DEF RequestOK
  <2> DEFINE s1 == Refreshed(s, r)
  <2>3. Like(s, s1)
    BY <1>1, <1>2, <1>8, <2>2, RefreshedIs
  <2>4. s2 \in SyncUpload(s1)
    BY <2>2
  <2> HIDE DEF s1
  <2>5. Ready(s1) /\ s1.progress /\ s1.loop.at = "upload" /\ c \in s1.toRemove
    BY <1>1, <1>2, <1>3, <2>2, <2>3 DEF Like, Ready
  <2>6. QED
    BY <1>1, <2>4, <2>5, UploadListed
<1>9. CASE r.kind = "delete"
  <2>1. s2 \in AfterDelete(s, r)
    BY <1>1, <1>9 DEF After
  <2>2. s2 \in SyncRemove(s) /\ s.loop.at = "remove"
    BY <1>1, <1>9, <2>1, AfterSyncDelete
  <2>3. QED
    BY <1>1, <1>2, <1>3, <1>5, <2>2, RemoveListed
<1>10. CASE r.kind \notin CardKinds
  <2>1. s2.toRemove = s.toRemove /\ s2.loop.at # "remove"
    BY <1>1, <1>10, AfterHandling DEF FetchOutcome
  <2>2. QED
    BY <1>1, <1>3, <2>1 DEF Listed
<1>11. QED
  BY <1>7, <1>8, <1>9, <1>10 DEF CardKinds

LEMMA HandledOnline ==
  ASSUME NEW s2, HandledAs(s2), online, NEW c \in Cards, NEW v, NEW pf, Kept(Now, TRUE, c, v, pf)
  PROVE  Kept(s2, TRUE, c, v, pf)
<1> DEFINE r == Head(wire)
<1>1. /\ rev \in Nat /\ wire \in Seq(GoodReqs(rev)) /\ wire # <<>> /\ r \in Reqs /\ r.st # "sent"
  BY HandledFields DEF HandledAs
<1>2. Follows(wire, s2.wire, UserDeletes(c))
  BY HandledFollows
<1>3. r \notin UserPuts(c, v) /\ r \notin SentDeletes(c, "user")
  BY <1>1, RequestSets
<1>4. Last(wire, UserPuts(c, v), UserDeletes(c)) => Last(s2.wire, UserPuts(c, v), UserDeletes(c))
  BY <1>1, <1>2, <1>3, LastFollows
<1>5. ~None(wire, SentDeletes(c, "user")) => ~None(s2.wire, SentDeletes(c, "user"))
  BY <1>1, <1>2, <1>3, NoneFollows
<1>6. ASSUME v # Absent PROVE SavedOnline(s2, c, v)
  <2>1. Last(wire, UserPuts(c, v), UserDeletes(c)) \/ Noted(Now, c, v)
    BY <1>6, NowIs DEF Kept, SavedOnline
  <2>2. Noted(Now, c, v) => Noted(s2, c, v)
    BY <1>6, HandledUserNoted, HandledOtherNoted
  <2>3. QED
    BY <1>4, <2>1, <2>2 DEF SavedOnline
<1>7. ASSUME v = Absent PROVE GoneOnline(s2, c)
  <2>1. ~None(wire, SentDeletes(c, "user")) \/ Listed(Now, c)
    BY <1>7, NowIs DEF Kept, GoneOnline
  <2>2. Listed(Now, c) => Listed(s2, c)
    BY HandledUserListed, HandledOtherListed
  <2>3. QED
    BY <1>5, <2>1, <2>2 DEF GoneOnline
<1>8. QED
  BY <1>6, <1>7 DEF Kept

\* A failed request: what it was for is noted.
LEMMA HandledFailed ==
  ASSUME NEW s2, HandledAs(s2), ~online, NEW c \in Cards
  PROVE  /\ s2.wire = Tail(wire) /\ s2.local = local
         /\ Head(wire) \notin UserDeletes(c) /\ c \in toSync => c \in s2.toSync
         /\ c \in toRemove => c \in s2.toRemove
         /\ \A v : Head(wire) \in Puts(c, v) => c \in s2.toSync
         /\ Head(wire) \in Deletes(c) => c \in s2.toRemove
         /\ c \in s2.toSync => c \in toSync \/ (Head(wire).kind = "put" /\ Head(wire).card = c)
         /\ c \in s2.toRemove => c \in toRemove \/ (Head(wire).kind = "delete" /\ Head(wire).card = c)
<1> DEFINE r == Head(wire)
           s == Popped
<1>1. /\ rev \in Nat /\ s.wire = Tail(wire) /\ s.local = local /\ s.toSync = toSync
      /\ s.toRemove = toRemove /\ r \in Reqs /\ RequestOK(r, rev) /\ r.st = "failed"
      /\ (r.by = "user" => Replied(s, r)) /\ (r.by # "user" => Handling(s, r))
      /\ s2 \in After(s, r)
  BY HandledFields DEF HandledAs
<1>2. r.kind \in Kinds
  BY <1>1 DEF Reqs
<1>3. \A v : r \in Puts(c, v) => r.kind = "put" /\ r.card = c
  BY <1>1, RequestSets
<1>4. r \in Deletes(c) => r.kind = "delete" /\ r.card = c
  BY <1>1, RequestSets
<1>5. r \notin UserDeletes(c) => ~(r.kind = "delete" /\ r.by = "user" /\ r.card = c)
  BY <1>1, RequestSets
<1>6. CASE r.by = "user" /\ r.kind = "delete"
  BY <1>3, <1>4, <1>5, <1>6, HandledUserDelete
<1> HIDE DEF s, r
<1>7. CASE r.by = "user" /\ r.kind = "put"
  <2>1. s2 \in AfterPut(s, r)
    BY <1>1, <1>7 DEF After
  <2>2. s2.wire = s.wire /\ s2.local = s.local /\ s2.toSync = s.toSync \cup {r.card} /\ s2.toRemove = s.toRemove
    BY <1>1, <1>7, <2>1, AfterUserPut
  <2>3. QED
    BY <1>1, <1>3, <1>4, <1>7, <2>2 DEF r
<1>8. CASE r.by = "user" /\ r.kind = "get"
  <2>1. s2 \in AfterGet(s, r)
    BY <1>1, <1>8 DEF After
  <2>2. s2.wire = s.wire /\ s2.local = s.local /\ s2.toSync = s.toSync /\ s2.toRemove = s.toRemove
    BY <1>1, <1>8, <2>1, AfterUserGet
  <2>3. QED
    BY <1>1, <1>3, <1>4, <1>8, <2>2 DEF r
<1>9. CASE r.by # "user" /\ r.kind = "put"
  <2>1. s2 \in AfterPut(s, r)
    BY <1>1, <1>9 DEF After
  <2>2. s2.wire = s.wire /\ s2.local = s.local /\ s2.toSync = s.toSync \cup {r.card} /\ s2.toRemove = s.toRemove
    BY <1>1, <1>9, <2>1, AfterSyncPut DEF Ends
  <2>3. QED
    BY <1>1, <1>3, <1>4, <1>9, <2>2 DEF r
<1>10. CASE r.by # "user" /\ r.kind = "get"
  <2>1. s2 \in AfterGet(s, r)
    BY <1>1, <1>10 DEF After
  <2>2. s2.wire = s.wire /\ s2.local = s.local /\ s2.toSync = s.toSync /\ s2.toRemove = s.toRemove
    BY <1>1, <1>10, <2>1, AfterSyncGet DEF Ends
  <2>3. QED
    BY <1>1, <1>3, <1>4, <1>10, <2>2 DEF r
<1>11. CASE r.by # "user" /\ r.kind = "delete"
  <2>1. s2 \in AfterDelete(s, r)
    BY <1>1, <1>11 DEF After
  <2>2. s2.wire = s.wire /\ s2.local = s.local /\ s2.toSync = s.toSync /\ s2.toRemove = s.toRemove \cup {r.card}
    BY <1>1, <1>11, <2>1, AfterSyncDelete DEF Ends
  <2>3. QED
    BY <1>1, <1>3, <1>4, <1>11, <2>2 DEF r
<1>12. CASE r.by # "user" /\ r.kind \notin CardKinds
  <2>1. s2 = Throw(s, r.by)
    BY <1>1, <1>12, AfterHandling DEF FetchOutcome
  <2>2. Ready(s) /\ r.by \in {"sync", "first"} /\ (r.by = "first" => s.loop = Idle)
    BY <1>1, <1>12, HandlingFields DEF Handling
  <2>3. s2.wire = s.wire /\ s2.local = s.local /\ s2.toSync = s.toSync /\ s2.toRemove = s.toRemove
    BY <1>1, <2>1, <2>2, ThrowIs
  <2>4. QED
    BY <1>1, <1>3, <1>4, <1>12, <2>3 DEF r, CardKinds
<1>13. QED
  BY <1>1, <1>6, <1>7, <1>8, <1>9, <1>10, <1>11, <1>12 DEF CardKinds, RequestOK

LEMMA HandledOffline ==
  ASSUME NEW s2, HandledAs(s2), ~online, NEW c \in Cards, NEW v, NEW pf, Kept(Now, FALSE, c, v, pf)
  PROVE  Kept(s2, FALSE, c, v, pf)
<1> DEFINE r == Head(wire)
<1>1. wire \in Seq(GoodReqs(rev)) /\ wire # <<>>
  BY HandledFields
<1>2. /\ s2.wire = Tail(wire) /\ s2.local = local
      /\ r \notin UserDeletes(c) /\ c \in toSync => c \in s2.toSync
      /\ c \in toRemove => c \in s2.toRemove
      /\ r \in Puts(c, v) => c \in s2.toSync
      /\ r \in Deletes(c) => c \in s2.toRemove
  BY HandledFailed
<1>3. \A Y : None(wire, Y) <=> None(s2.wire, Y) /\ r \notin Y
  BY <1>1, <1>2, NoneTail
<1>4. Last(wire, Puts(c, v), UserDeletes(c)) =>
        \/ Last(s2.wire, Puts(c, v), UserDeletes(c))
        \/ r \in Puts(c, v) /\ None(s2.wire, UserDeletes(c))
  BY <1>1, <1>2, LastTail
<1> HIDE DEF r
<1>5. ASSUME v # Absent PROVE SavedOffline(s2, c, v, pf.uids)
  <2>1. /\ local[c].v = v
        /\ \/ Last(wire, Puts(c, v), UserDeletes(c))
           \/ c \in toSync \cup pf.uids /\ None(wire, UserDeletes(c))
    BY <1>5, NowIs DEF Kept, SavedOffline
  <2>2. QED
    BY <1>2, <1>3, <1>4, <2>1 DEF SavedOffline
<1>6. ASSUME v = Absent PROVE GoneOffline(s2, c, pf.hrefs)
  <2>1. ~None(wire, Deletes(c)) \/ c \in toRemove \cup pf.hrefs
    BY <1>6, NowIs DEF Kept, GoneOffline
  <2>2. QED
    BY <1>2, <1>3, <2>1 DEF GoneOffline
<1>7. QED
  BY <1>5, <1>6 DEF Kept

-----------------------------------------------------------------------------
(* What the user has changed: every step.                                  *)

LEMMA SingleAppend ==
  ASSUME NEW S, NEW w \in Seq(S), NEW q \in S, Single(w),
         q.kind = "delete" /\ q.by = "user" => q.arg[1] = {q.card} /\ q.arg[2] = {}
  PROVE  Single(Append(w, q))
<1> DEFINE v == Append(w, q)
<1>1. /\ DOMAIN w = 1..Len(w) /\ Len(w) \in Nat /\ DOMAIN v = 1..(Len(w) + 1)
      /\ \A i \in 1..Len(w) : v[i] = w[i]
      /\ v[Len(w) + 1] = q
  BY AppendIs
<1> HIDE DEF v
<1>2. \A i \in DOMAIN v : (i \in DOMAIN w /\ v[i] = w[i]) \/ v[i] = q
  BY <1>1
<1>3. Single(v)
  BY <1>2 DEF Single
<1>4. QED
  BY <1>3 DEF v

LEMMA SingleTail ==
  ASSUME NEW S, NEW w \in Seq(S), w # <<>>, Single(w)
  PROVE  Single(Tail(w))
<1> DEFINE v == Tail(w)
<1>1. \A i \in DOMAIN v : v[i] = w[i + 1] /\ i + 1 \in DOMAIN w
  BY TailIs
<1> HIDE DEF v
<1>2. Single(v)
  BY <1>1 DEF Single
<1>3. QED
  BY <1>2 DEF v

LEMMA SingleFollows ==
  ASSUME NEW w \in Seq(GoodReqs(rev)), w # <<>>, NEW v, Single(w), \A c : Follows(w, v, UserDeletes(c))
  PROVE  Single(v)
<1>1. Tail(w) \in Seq(GoodReqs(rev)) /\ Single(Tail(w))
  BY TailIs, SingleTail
<1>2. CASE v = Tail(w)
  BY <1>1, <1>2
<1>3. CASE v # Tail(w)
  <2>1. PICK q \in GoodReqs(rev) : v = Append(Tail(w), q)
    BY <1>3 DEF Follows
  <2>2. PICK p \in GoodReqs(rev) \ UserDeletes(q.card) : v = Append(Tail(w), p)
    BY <1>3 DEF Follows
  <2>3. p = q
    BY <1>1, <2>1, <2>2, AppendIs
  <2>4. q \in Reqs
    BY <2>1 DEF GoodReqs
  <2>5. ~(q.kind = "delete" /\ q.by = "user")
    BY <2>2, <2>3, <2>4, RequestSets
  <2>6. QED
    BY <1>1, <2>1, <2>5, SingleAppend
<1>4. QED
  BY <1>2, <1>3

LEMMA KeptNextResponse ==
  ASSUME Core, KeptInv, NextResponse
  PROVE  KeptInv'
<1> DEFINE r == Head(wire)
<1>1. PICK s2 \in After(Popped, r) : Become(s2)
  BY NextResponseIs
<1>2. /\ wire # <<>> /\ r.st # "sent" /\ rev \in Nat /\ online \in BOOLEAN /\ due \in SUBSET Cards
      /\ UNCHANGED <<prefs, online, server, rev, changes, faults, running, lost, want, shared, due>>
  BY NextResponseIs DEF Core, TypeInv
<1>3. HandledAs(s2)
  BY <1>1, <1>2 DEF HandledAs, KeptInv
<1>4. s2 \in States(rev)
  <2>1. CASE r.by = "user"
    BY <1>1, <1>2, <2>1, PoppedTask, AfterReplied DEF UserStep
  <2>2. CASE r.by # "user"
    BY <1>1, <1>2, <2>2, PoppedTask, AfterHandling DEF Outcome
  <2>3. QED
    BY <2>1, <2>2
<1>5. Now' = s2 /\ wire' = s2.wire
  BY <1>1, <1>4, BecomeIs DEF Become
<1>6. ASSUME NEW c \in due PROVE c \notin shared /\ Kept(s2, online, c, want[c], prefs)
  <2> DEFINE v == want[c]
  <2>1. c \notin shared /\ Kept(Now, online, c, v, prefs) /\ c \in Cards
    BY <1>2, <1>6 DEF KeptInv
  <2> HIDE DEF v
  <2>2. CASE online
    <3>1. online = TRUE
      BY <1>2, <2>2
    <3>2. Kept(s2, TRUE, c, v, prefs)
      BY <1>3, <2>1, <2>2, <3>1, HandledOnline
    <3>3. QED
      BY <2>1, <3>1, <3>2 DEF v
  <2>3. CASE ~online
    <3>1. online = FALSE
      BY <1>2, <2>3
    <3>2. Kept(s2, FALSE, c, v, prefs)
      BY <1>3, <2>1, <2>3, <3>1, HandledOffline
    <3>3. QED
      BY <2>1, <3>1, <3>2 DEF v
  <2>4. QED
    BY <2>2, <2>3
<1>7. Single(s2.wire)
  <2>1. wire \in Seq(GoodReqs(rev)) /\ wire # <<>> /\ Single(wire)
    BY <1>3, HandledFields DEF HandledAs
  <2>2. \A c : Follows(wire, s2.wire, UserDeletes(c))
    BY <1>3, HandledFollows
  <2>3. QED
    BY <2>1, <2>2, SingleFollows
<1>8. running
  BY <1>2 DEF Core, LineInv
<1>9. QED
  BY <1>2, <1>5, <1>6, <1>7, <1>8 DEF KeptInv

\* A request that is answered while online is of no importance for card c, unless it was
\* what the change of c waited for.
LEMMA AnsweredKept ==
  ASSUME NEW s, NEW s2, NEW i \in DOMAIN s.wire, \A j \in DOMAIN s.wire : s.wire[j] \in Reqs,
         s2.wire[i] \in Reqs, Alike(s.wire, s2.wire), \A j \in DOMAIN s.wire : j # i => s2.wire[j] = s.wire[j],
         s2.local = s.local, s2.toSync = s.toSync, s2.toRemove = s.toRemove, s2.loop = s.loop,
         NEW c, NEW v, NEW pf, Kept(s, TRUE, c, v, pf),
         s.wire[i] \notin UserPuts(c, v),
         s.wire[i] \in SyncPuts(c, v) => s2.wire[i] \in SyncPuts(c, v),
         v = Absent => s.wire[i] \notin SentDeletes(c, "user") /\ s.wire[i] \notin SentDeletes(c, "sync")
  PROVE  Kept(s2, TRUE, c, v, pf)
<1> DEFINE w == s.wire
           u == s2.wire
           r == w[i]
           x == u[i]
<1>1. /\ DOMAIN u = DOMAIN w /\ x.by = r.by /\ x.kind = r.kind /\ x.card = r.card /\ x.arg = r.arg
      /\ r \in Reqs /\ x \in Reqs
  BY DEF Alike
<1>2. \A j \in DOMAIN w : j # i => u[j] = w[j]
  OBVIOUS
<1> HIDE DEF r, x
<1>3. /\ x \in UserDeletes(c) <=> r \in UserDeletes(c)
      /\ x \in Transfers(c) <=> r \in Transfers(c)
      /\ x \in ByFirst <=> r \in ByFirst
  BY <1>1, RequestSets, SetsOf
<1>4. /\ \A j \in DOMAIN w : u[j] \in UserDeletes(c) <=> w[j] \in UserDeletes(c)
      /\ \A j \in DOMAIN w : u[j] \in ByFirst <=> w[j] \in ByFirst
      /\ \A j \in DOMAIN w : u[j] \in Transfers(c) \ SyncPuts(c, v) => w[j] \in Transfers(c) \ SyncPuts(c, v)
      /\ \A j \in DOMAIN w : w[j] \in SyncPuts(c, v) => u[j] \in SyncPuts(c, v)
  BY <1>2, <1>3 DEF r, x
<1> HIDE DEF w, u
<1>5. ASSUME v # Absent PROVE SavedOnline(s2, c, v)
  <2>1. CASE Last(w, UserPuts(c, v), UserDeletes(c))
    <3>1. PICK j \in DOMAIN w : /\ w[j] \in UserPuts(c, v)
                                /\ \A k \in DOMAIN w : k > j => w[k] \notin UserDeletes(c)
      BY <2>1 DEF Last
    <3>2. j # i
      BY <3>1 DEF w
    <3>3. u[j] \in UserPuts(c, v) /\ \A k \in DOMAIN u : k > j => u[k] \notin UserDeletes(c)
      BY <1>1, <1>2, <1>4, <3>1, <3>2
    <3>4. Last(u, UserPuts(c, v), UserDeletes(c))
      BY <1>1, <3>1, <3>3 DEF Last
    <3>5. QED
      BY <3>4 DEF SavedOnline, u
  <2>2. CASE Noted(s, c, v)
    <3>1. /\ None(w, UserDeletes(c)) /\ None(w, Transfers(c) \ SyncPuts(c, v))
          /\ None(w, SyncPuts(c, v)) =>
               /\ s.loop.at = "upload" => c \notin s.loop.seen
               /\ s.loop.at # "update"
               /\ None(w, ByFirst)
      BY <2>2 DEF Noted, w
    <3>2. None(u, UserDeletes(c)) /\ None(u, Transfers(c) \ SyncPuts(c, v))
      BY <1>1, <1>4, <3>1 DEF None
    <3>3. None(u, SyncPuts(c, v)) => None(w, SyncPuts(c, v))
      BY <1>1, <1>4 DEF None
    <3>4. None(w, ByFirst) => None(u, ByFirst)
      BY <1>1, <1>4 DEF None
    <3>5. c \in s2.toSync /\ s2.local[c].v = v
      BY <2>2 DEF Noted
    <3>6. Noted(s2, c, v)
      BY <3>1, <3>2, <3>3, <3>4, <3>5 DEF Noted, u
    <3>7. QED
      BY <3>6 DEF SavedOnline
  <2>3. QED
    BY <1>5, <2>1, <2>2 DEF Kept, SavedOnline, w
<1>6. ASSUME v = Absent PROVE GoneOnline(s2, c)
  <2>1. \A by \in {"user", "sync"} : ~None(w, SentDeletes(c, by)) => ~None(u, SentDeletes(c, by))
    <3> TAKE by \in {"user", "sync"}
    <3> HAVE ~None(w, SentDeletes(c, by))
    <3>1. PICK j \in DOMAIN w : w[j] \in SentDeletes(c, by)
      BY DEF None
    <3>2. j # i
      BY <1>6, <3>1 DEF w
    <3>3. QED
      BY <1>1, <1>2, <3>1, <3>2 DEF None
  <2>2. Listed(s, c) => Listed(s2, c)
    BY <2>1 DEF Listed, w, u
  <2>3. QED
    BY <1>6, <2>1, <2>2 DEF Kept, GoneOnline, w, u
<1>7. QED
  BY <1>5, <1>6 DEF Kept

LEMMA SingleAlike ==
  ASSUME NEW w, NEW v, Single(w), Alike(w, v)
  PROVE  Single(v)
  BY DEF Single, Alike

-----------------------------------------------------------------------------
(* Writes that come after the user's next change: definitions.             *)

Writes(c) == {r \in Reqs : r.kind \in {"put", "delete"} /\ r.card = c}
Written(r) == IF r.kind = "put" THEN r.arg ELSE Absent
UserWrites(c) == {r \in Writes(c) : r.by = "user"}
Wishes(c, w) == {r \in UserWrites(c) : Written(r) = w /\ (r.kind = "delete" <=> w = Absent)}
Strays(c, w) == {r \in Writes(c) : Written(r) \notin {w, Blank}}
Gets(c) == {r \in Reqs : r.kind = "get" /\ r.card = c}
OldGets(c, w) == {r \in Gets(c) : r.st = "ok" /\ r.ans.v \notin {w, Absent}}
AllPuts(c) == {r \in Reqs : r.kind = "put" /\ r.card = c}
Fetches == {r \in Reqs : r.kind \notin CardKinds}

\* Behind no request of X is there one of Y.
NoneBehind(w, X, Y) == \A i, j \in DOMAIN w : i < j /\ w[i] \in X => w[j] \notin Y

\* Requests are answered in order.
Fifo(w) == \A i, j \in DOMAIN w : i < j /\ w[i].st = "sent" => w[j].st = "sent"

\* While online, the loops of syncWithServer leave nothing to do behind them.
Emptied(s, on) ==
    /\ on /\ s.loop.at \in {"upload", "update"} => s.toRemove = {}
    /\ on /\ ~None(s.wire, Fetches) => s.toRemove = {} /\ s.toSync = {}

\* Behind every write of something else than w there is the user's write of w.
Overwritten(s, c, w) ==
    None(s.wire, Strays(c, w)) \/ Last(s.wire, Wishes(c, w), Strays(c, w))

\* The local copy of a card that is to be sent, or perhaps so, is w or no more there.
Uploadable(s, on, c, w, uids) ==
    c \in s.toSync \cup uids \/ (~on /\ ~None(s.wire, AllPuts(c))) => s.local[c].v \in {w, Absent}

Removable(s, on, c, w, hrefs) ==
    c \in s.toRemove \cup hrefs \/ (~on /\ ~None(s.wire, Deletes(c))) =>
      s.local[c].v = Absent /\ w = Absent

Undisturbed(s, on, c, w) ==
    /\ on /\ c \in s.toRemove => None(s.wire, Transfers(c))
    /\ on /\ c \in s.toSync => None(s.wire, OldGets(c, w)) /\ NoneBehind(s.wire, Gets(c), UserWrites(c))

Ours(s, on, c, w, pf) ==
    /\ Overwritten(s, c, w)
    /\ Uploadable(s, on, c, w, pf.uids)
    /\ Removable(s, on, c, w, pf.hrefs)
    /\ Undisturbed(s, on, c, w)

Touched(s, c, uids) == c \in s.toSync \cup uids \/ ~None(s.wire, AllPuts(c))

OursInv ==
    /\ \A c \in Cards \ (shared \cup lost) :
         /\ Ours(Now, online, c, want[c], prefs)
         /\ c \notin due /\ Touched(Now, c, prefs.uids) => server[c].v = want[c]
    /\ Emptied(Now, online)
    /\ Fifo(wire)
    /\ \A c \in Cards : want[c] # Blank

-----------------------------------------------------------------------------
(* Writes that come after the user's next change: lemmas about the wire.   *)

\* The wire v is w, perhaps with a new request that is not in X.
Extends(w, v, X) == v = w \/ \E q \in GoodReqs(rev) \ X : v = Append(w, q)

LEMMA WriteSets ==
  ASSUME NEW r \in Reqs, NEW c, NEW w
  PROVE  /\ r \in Writes(c) <=> r.kind \in {"put", "delete"} /\ r.card = c
         /\ r \in UserWrites(c) <=> r.kind \in {"put", "delete"} /\ r.card = c /\ r.by = "user"
         /\ r \in Wishes(c, w) <=> /\ r.kind \in {"put", "delete"} /\ r.card = c /\ r.by = "user"
                                   /\ Written(r) = w /\ (r.kind = "delete" <=> w = Absent)
         /\ r \in Strays(c, w) <=> /\ r.kind \in {"put", "delete"} /\ r.card = c
                                   /\ Written(r) \notin {w, Blank}
         /\ r \in Gets(c) <=> r.kind = "get" /\ r.card = c
         /\ r \in OldGets(c, w) <=> /\ r.kind = "get" /\ r.card = c /\ r.st = "ok"
                                    /\ r.ans.v \notin {w, Absent}
         /\ r \in AllPuts(c) <=> r.kind = "put" /\ r.card = c
         /\ r \in Fetches <=> r.kind \notin CardKinds
         /\ r \in Transfers(c) <=> r.kind \in {"put", "get"} /\ r.card = c
         /\ r \in Deletes(c) <=> r.kind = "delete" /\ r.card = c
  BY DEF Writes, UserWrites, Wishes, Strays, Gets, OldGets, AllPuts, Fetches, Transfers, Deletes

LEMMA NoneExtends ==
  ASSUME NEW w \in Seq(GoodReqs(rev)), NEW v, NEW X, Extends(w, v, X), NEW Y
  PROVE  /\ None(w, Y) /\ Y \subseteq X => None(v, Y)
         /\ None(v, Y) => None(w, Y)
<1>1. \A q \in GoodReqs(rev) : None(Append(w, q), Y) <=> None(w, Y) /\ q \notin Y
  BY NoneAppend
<1>2. QED
  BY <1>1 DEF Extends

LEMMA LastExtends ==
  ASSUME NEW w \in Seq(GoodReqs(rev)), NEW v, NEW Y, Extends(w, v, Y), NEW X, Last(w, X, Y)
  PROVE  Last(v, X, Y)
  BY LastAppend DEF Extends

LEMMA NoneBehindAppend ==
  ASSUME NEW S, NEW w \in Seq(S), NEW q \in S, NEW X, NEW Y,
         NoneBehind(w, X, Y), q \notin Y \/ None(w, X)
  PROVE  NoneBehind(Append(w, q), X, Y)
<1> DEFINE v == Append(w, q)
<1>1. /\ DOMAIN w = 1..Len(w) /\ Len(w) \in Nat /\ DOMAIN v = 1..(Len(w) + 1)
      /\ \A i \in 1..Len(w) : v[i] = w[i]
      /\ v[Len(w) + 1] = q
  BY AppendIs
<1> HIDE DEF v
<1>2. ASSUME NEW i \in DOMAIN v, NEW j \in DOMAIN v, i < j, v[i] \in X PROVE v[j] \notin Y
  <2>1. i \in DOMAIN w /\ v[i] = w[i]
    BY <1>1, <1>2
  <2>2. (j \in DOMAIN w /\ v[j] = w[j]) \/ v[j] = q
    BY <1>1
  <2>3. QED
    BY <1>2, <2>1, <2>2 DEF NoneBehind, None
<1>3. QED
  BY <1>2 DEF NoneBehind, v

LEMMA NoneBehindTail ==
  ASSUME NEW S, NEW w \in Seq(S), w # <<>>, NEW X, NEW Y, NoneBehind(w, X, Y)
  PROVE  NoneBehind(Tail(w), X, Y)
<1> DEFINE v == Tail(w)
<1>1. /\ DOMAIN w = 1..Len(w) /\ DOMAIN v = 1..(Len(w) - 1) /\ Len(w) \in Nat
      /\ \A i \in DOMAIN v : v[i] = w[i + 1] /\ i + 1 \in DOMAIN w
  BY TailIs
<1> HIDE DEF v
<1>2. ASSUME NEW i \in DOMAIN v, NEW j \in DOMAIN v, i < j, v[i] \in X PROVE v[j] \notin Y
  <2>1. i + 1 < j + 1 /\ i + 1 \in DOMAIN w /\ j + 1 \in DOMAIN w /\ v[i] = w[i + 1] /\ v[j] = w[j + 1]
    BY <1>1, <1>2
  <2>2. QED
    BY <1>2, <2>1 DEF NoneBehind
<1>3. QED
  BY <1>2 DEF NoneBehind, v

LEMMA FifoAppend ==
  ASSUME NEW S, NEW w \in Seq(S), NEW q \in S, Fifo(w), q.st = "sent" \/ \A i \in DOMAIN w : w[i].st # "sent"
  PROVE  Fifo(Append(w, q))
<1> DEFINE v == Append(w, q)
<1>1. /\ DOMAIN w = 1..Len(w) /\ Len(w) \in Nat /\ DOMAIN v = 1..(Len(w) + 1)
      /\ \A i \in 1..Len(w) : v[i] = w[i]
      /\ v[Len(w) + 1] = q
  BY AppendIs
<1> HIDE DEF v
<1>2. ASSUME NEW i \in DOMAIN v, NEW j \in DOMAIN v, i < j, v[i].st = "sent" PROVE v[j].st = "sent"
  <2>1. i \in DOMAIN w /\ v[i] = w[i]
    BY <1>1, <1>2
  <2>2. (j \in DOMAIN w /\ v[j] = w[j]) \/ v[j] = q
    BY <1>1
  <2>3. QED
    BY <1>2, <2>1, <2>2 DEF Fifo
<1>3. QED
  BY <1>2 DEF Fifo, v

LEMMA FifoTail ==
  ASSUME NEW S, NEW w \in Seq(S), w # <<>>, Fifo(w)
  PROVE  Fifo(Tail(w))
<1> DEFINE v == Tail(w)
<1>1. /\ DOMAIN w = 1..Len(w) /\ DOMAIN v = 1..(Len(w) - 1) /\ Len(w) \in Nat
      /\ \A i \in DOMAIN v : v[i] = w[i + 1] /\ i + 1 \in DOMAIN w
  BY TailIs
<1> HIDE DEF v
<1>2. ASSUME NEW i \in DOMAIN v, NEW j \in DOMAIN v, i < j, v[i].st = "sent" PROVE v[j].st = "sent"
  <2>1. i + 1 < j + 1 /\ i + 1 \in DOMAIN w /\ j + 1 \in DOMAIN w /\ v[i] = w[i + 1] /\ v[j] = w[j + 1]
    BY <1>1, <1>2
  <2>2. QED
    BY <1>2, <2>1 DEF Fifo
<1>3. QED
  BY <1>2 DEF Fifo, v

\* Whoever goes on does so with the rest of the wire.
LEMMA OursTail ==
  ASSUME NEW s, NEW s1, s.wire \in Seq(GoodReqs(rev)), s.wire # <<>>, s1.wire = Tail(s.wire),
         s1.local = s.local, s1.toSync = s.toSync, s1.toRemove = s.toRemove,
         NEW c, NEW w, NEW pf, NEW on, Ours(s, on, c, w, pf)
  PROVE  Ours(s1, on, c, w, pf) /\ (Touched(s1, c, pf.uids) => Touched(s, c, pf.uids))
<1>1. \A Y : None(s.wire, Y) <=> None(s1.wire, Y) /\ Head(s.wire) \notin Y
  BY NoneTail
<1>2. Overwritten(s1, c, w)
  <2>1. Last(s.wire, Wishes(c, w), Strays(c, w)) =>
          Last(s1.wire, Wishes(c, w), Strays(c, w)) \/ None(s1.wire, Strays(c, w))
    BY LastTail
  <2>2. QED
    BY <1>1, <2>1 DEF Ours, Overwritten
<1>3. Uploadable(s1, on, c, w, pf.uids)
  BY <1>1 DEF Ours, Uploadable
<1>4. Removable(s1, on, c, w, pf.hrefs)
  BY <1>1 DEF Ours, Removable
<1>5. Undisturbed(s1, on, c, w)
  <2>1. NoneBehind(s.wire, Gets(c), UserWrites(c)) => NoneBehind(s1.wire, Gets(c), UserWrites(c))
    BY NoneBehindTail
  <2>2. QED
    BY <1>1, <2>1 DEF Ours, Undisturbed
<1>6. Touched(s1, c, pf.uids) => Touched(s, c, pf.uids)
  BY <1>1 DEF Touched
<1>7. QED
  BY <1>2, <1>3, <1>4, <1>5, <1>6 DEF Ours

\* The local cards may change while online, except those that are to be sent.
LEMMA OursLocal ==
  ASSUME NEW s, NEW s1, s1.wire = s.wire, s1.toSync = s.toSync, s1.toRemove = s.toRemove,
         NEW c, NEW w, NEW pf, Ours(s, TRUE, c, w, pf),
         c \in s.toSync \cup pf.uids => s1.local[c].v \in {w, Absent},
         c \in s.toRemove \cup pf.hrefs => s1.local[c].v = Absent
  PROVE  Ours(s1, TRUE, c, w, pf) /\ (Touched(s1, c, pf.uids) => Touched(s, c, pf.uids))
<1>1. Overwritten(s1, c, w) /\ Undisturbed(s1, TRUE, c, w)
  BY DEF Ours, Overwritten, Undisturbed
<1>2. Uploadable(s1, TRUE, c, w, pf.uids) /\ Removable(s1, TRUE, c, w, pf.hrefs)
  BY DEF Ours, Uploadable, Removable
<1>3. QED
  BY <1>1, <1>2 DEF Ours, Touched

\* Only a request that does no harm to card c is added.
Harmful(c, w) == Strays(c, w) \cup OldGets(c, w) \cup UserWrites(c)

Grown(s, s2, c, w, pf) ==
    /\ s2.local[c] = s.local[c]
    /\ s2.toSync \subseteq s.toSync /\ s2.toRemove \subseteq s.toRemove
    /\ Extends(s.wire, s2.wire, Harmful(c, w))
    /\ c \in s2.toRemove => Extends(s.wire, s2.wire, Transfers(c))
    /\ c \notin s.toSync \cup pf.uids => Extends(s.wire, s2.wire, AllPuts(c))
    /\ c \notin s.toRemove \cup pf.hrefs => Extends(s.wire, s2.wire, Deletes(c))

LEMMA NoneBehindExtends ==
  ASSUME NEW w \in Seq(GoodReqs(rev)), NEW v, NEW Y, Extends(w, v, Y), NEW X, NoneBehind(w, X, Y)
  PROVE  NoneBehind(v, X, Y)
<1>1. \A q \in GoodReqs(rev) \ Y : NoneBehind(Append(w, q), X, Y)
  BY NoneBehindAppend
<1>2. QED
  BY <1>1 DEF Extends

LEMMA OursGrown ==
  ASSUME NEW s, NEW s2, s.wire \in Seq(GoodReqs(rev)), NEW c, NEW w, NEW pf, NEW on,
         Ours(s, on, c, w, pf), Grown(s, s2, c, w, pf)
  PROVE  Ours(s2, on, c, w, pf) /\ (Touched(s2, c, pf.uids) => Touched(s, c, pf.uids))
<1> DEFINE v == s2.wire
           u == s.wire
<1>1. /\ s2.local[c] = s.local[c]
      /\ s2.toSync \subseteq s.toSync /\ s2.toRemove \subseteq s.toRemove
      /\ c \in s2.toRemove => Extends(u, v, Transfers(c))
      /\ c \notin s.toSync \cup pf.uids => Extends(u, v, AllPuts(c))
      /\ c \notin s.toRemove \cup pf.hrefs => Extends(u, v, Deletes(c))
  BY DEF Grown
<1>2. Extends(u, v, Strays(c, w)) /\ Extends(u, v, OldGets(c, w)) /\ Extends(u, v, UserWrites(c))
  BY DEF Grown, Harmful, Extends
<1>3. u \in Seq(GoodReqs(rev))
  OBVIOUS
<1>4. /\ Overwritten(s, c, w) /\ Uploadable(s, on, c, w, pf.uids) /\ Removable(s, on, c, w, pf.hrefs)
      /\ Undisturbed(s, on, c, w)
  BY DEF Ours
<1>5. Overwritten(s2, c, w)
  BY <1>2, <1>3, <1>4, NoneExtends, LastExtends DEF Overwritten
<1>6. c \notin s.toSync \cup pf.uids /\ None(u, AllPuts(c)) => None(v, AllPuts(c))
  BY <1>1, <1>3, NoneExtends
<1>7. c \notin s.toRemove \cup pf.hrefs /\ None(u, Deletes(c)) => None(v, Deletes(c))
  BY <1>1, <1>3, NoneExtends
<1>8. Uploadable(s2, on, c, w, pf.uids)
  BY <1>1, <1>4, <1>6 DEF Uploadable
<1>9. Removable(s2, on, c, w, pf.hrefs)
  BY <1>1, <1>4, <1>7 DEF Removable
<1>10. Undisturbed(s2, on, c, w)
  <2>1. c \in s2.toRemove /\ None(u, Transfers(c)) => None(v, Transfers(c))
    BY <1>1, <1>3, NoneExtends
  <2>2. /\ None(u, OldGets(c, w)) => None(v, OldGets(c, w))
        /\ NoneBehind(u, Gets(c), UserWrites(c)) => NoneBehind(v, Gets(c), UserWrites(c))
    BY <1>2, <1>3, NoneExtends, NoneBehindExtends
  <2>3. QED
    BY <1>1, <1>4, <2>1, <2>2 DEF Undisturbed
<1>11. QED
  BY <1>1, <1>5, <1>6, <1>8, <1>9, <1>10 DEF Ours, Touched

LEMMA ReadyFetches ==
  ASSUME NEW s, Ready(s)
  PROVE  None(s.wire, Fetches)
<1>1. \A i \in DOMAIN s.wire : s.wire[i] \in Reqs /\ RequestOK(s.wire[i], rev)
  BY GoodSeq DEF Ready, States, GoodReqs
<1>2. \A i \in DOMAIN s.wire : s.wire[i].by = "user"
  BY <1>1, SetsOf DEF Ready, None
<1>3. \A i \in DOMAIN s.wire : s.wire[i] \notin Fetches
  BY <1>1, <1>2, WriteSets DEF RequestOK
<1>4. QED
  BY <1>3 DEF None

LEMMA UploadOurs ==
  ASSUME rev \in Nat, NEW s, Ready(s), s.progress, s.loop.at = "upload", s.toRemove = {},
         NEW s2 \in SyncUpload(s), NEW c, NEW w, NEW pf, NEW on, Ours(s, on, c, w, pf)
  PROVE  Ours(s2, on, c, w, pf) /\ (Touched(s2, c, pf.uids) => Touched(s, c, pf.uids))
<1>1. s.wire \in Seq(GoodReqs(rev))
  BY DEF Ready, States
<1>2. c \in s.toSync => Content(s, c) \in {w, Blank}
  BY DEF Ours, Uploadable, Content, Has
<1>3. CASE \E d \in s.toSync \ s.loop.seen : Visits(s, s2, d, "put", Content(s, d))
  <2>1. PICK d \in s.toSync \ s.loop.seen : Visits(s, s2, d, "put", Content(s, d))
    BY <1>3
  <2>2. PICK q \in GoodReqs(rev) :
          /\ s2.wire = Append(s.wire, q)
          /\ q.by = "sync" /\ q.kind = "put" /\ q.card = d /\ q.arg = Content(s, d)
    BY <2>1 DEF Visits
  <2>3. q \in Reqs /\ Written(q) = Content(s, d)
    BY <2>2 DEF GoodReqs, Written
  <2>4. q \notin Harmful(c, w) /\ q \notin Deletes(c) /\ (c \notin s.toSync => q \notin AllPuts(c))
    <3>1. q \in Strays(c, w) => d = c /\ Content(s, d) \notin {w, Blank}
      BY <2>2, <2>3, WriteSets
    <3>2. q \notin Strays(c, w)
      BY <1>2, <2>1, <3>1
    <3>3. /\ q \notin OldGets(c, w) /\ q \notin UserWrites(c) /\ q \notin Deletes(c)
          /\ q \in AllPuts(c) => d = c
      BY <2>2, <2>3, WriteSets
    <3>4. QED
      BY <2>1, <3>2, <3>3 DEF Harmful
  <2>5. Grown(s, s2, c, w, pf)
    BY <2>1, <2>2, <2>4 DEF Grown, Visits, Extends
  <2>6. QED
    BY <1>1, <2>5, OursGrown
<1>4. CASE s2 = SyncUpdate(s)
  <2>1. PICK q \in GoodReqs(rev) : /\ s2.wire = Append(s.wire, q)
                                   /\ q.by = "sync" /\ q.kind \in {"report", "propfind"}
    BY <1>4, SyncUpdateIs
  <2>2. q \in Reqs
    BY DEF GoodReqs
  <2>3. q \notin Harmful(c, w) /\ q \notin Deletes(c) /\ q \notin AllPuts(c) /\ q \notin Transfers(c)
    BY <2>1, <2>2, WriteSets DEF Harmful
  <2>4. s2.local = s.local /\ s2.toSync = {} /\ s2.toRemove = s.toRemove
    BY <1>4, SyncUpdateIs
  <2>5. Grown(s, s2, c, w, pf)
    BY <2>1, <2>3, <2>4 DEF Grown, Extends
  <2>6. QED
    BY <1>1, <2>5, OursGrown
<1>5. QED
  BY <1>3, <1>4, SyncUploadIs

LEMMA UploadEmptied ==
  ASSUME rev \in Nat, NEW s, Ready(s), s.progress, s.loop.at = "upload", s.toRemove = {},
         NEW s2 \in SyncUpload(s)
  PROVE  Emptied(s2, online)
<1>1. s.wire \in Seq(GoodReqs(rev)) /\ None(s.wire, Fetches)
  BY ReadyFetches DEF Ready, States
<1>2. CASE \E d \in s.toSync \ s.loop.seen : Visits(s, s2, d, "put", Content(s, d))
  <2>1. PICK d \in s.toSync \ s.loop.seen : Visits(s, s2, d, "put", Content(s, d))
    BY <1>2
  <2>2. PICK q \in GoodReqs(rev) : s2.wire = Append(s.wire, q) /\ q.kind = "put"
    BY <2>1 DEF Visits
  <2>3. q \notin Fetches
    BY <2>2 DEF Fetches, CardKinds
  <2>4. None(s2.wire, Fetches)
    BY <1>1, <2>2, <2>3, NoneAppend
  <2>5. QED
    BY <2>1, <2>4 DEF Visits, Emptied
<1>3. CASE s2 = SyncUpdate(s)
  BY <1>3, SyncUpdateIs DEF Emptied
<1>4. QED
  BY <1>2, <1>3, SyncUploadIs

LEMMA RemoveOurs ==
  ASSUME rev \in Nat, NEW s, Ready(s), s.progress, s.loop.at = "remove",
         NEW s2 \in SyncRemove(s), NEW c, NEW w, NEW pf, NEW on, Ours(s, on, c, w, pf)
  PROVE  Ours(s2, on, c, w, pf) /\ (Touched(s2, c, pf.uids) => Touched(s, c, pf.uids))
<1>1. s.wire \in Seq(GoodReqs(rev))
  BY DEF Ready, States
<1>2. CASE \E d \in s.toRemove \ s.loop.seen : Visits(s, s2, d, "delete", {})
  <2>1. PICK d \in s.toRemove \ s.loop.seen : Visits(s, s2, d, "delete", {})
    BY <1>2
  <2>2. PICK q \in GoodReqs(rev) :
          s2.wire = Append(s.wire, q) /\ q.by = "sync" /\ q.kind = "delete" /\ q.card = d
    BY <2>1 DEF Visits
  <2>3. q \in Reqs /\ Written(q) = Absent
    BY <2>2 DEF GoodReqs, Written
  <2>4. c \in s.toRemove => w = Absent
    BY DEF Ours, Removable
  <2>5. /\ q \notin Harmful(c, w) /\ q \notin Transfers(c) /\ q \notin AllPuts(c)
        /\ c \notin s.toRemove => q \notin Deletes(c)
    BY <2>1, <2>2, <2>3, <2>4, WriteSets DEF Harmful
  <2>6. Grown(s, s2, c, w, pf)
    BY <2>1, <2>2, <2>5 DEF Grown, Visits, Extends
  <2>7. QED
    BY <1>1, <2>6, OursGrown
<1>3. CASE s2 \in SyncUpload(Uploading(s))
  <2> DEFINE s1 == Uploading(s)
  <2>1. /\ Ready(s1) /\ s1.progress /\ s1.wire = s.wire /\ s1.local = s.local /\ s1.toSync = s.toSync
        /\ s1.loop.at = "upload" /\ s1.toRemove = {}
    BY UploadingIs
  <2>2. s2 \in SyncUpload(s1)
    BY <1>3
  <2> HIDE DEF s1
  <2>3. Grown(s, s1, c, w, pf)
    BY <2>1 DEF Grown, Extends
  <2>4. Ours(s1, on, c, w, pf) /\ (Touched(s1, c, pf.uids) => Touched(s, c, pf.uids))
    BY <1>1, <2>3, OursGrown
  <2>5. QED
    BY <2>1, <2>2, <2>4, UploadOurs
<1>4. QED
  BY <1>2, <1>3, SyncRemoveIs

LEMMA RemoveEmptied ==
  ASSUME rev \in Nat, NEW s, Ready(s), s.progress, s.loop.at = "remove", NEW s2 \in SyncRemove(s)
  PROVE  Emptied(s2, online)
<1>1. s.wire \in Seq(GoodReqs(rev)) /\ None(s.wire, Fetches)
  BY ReadyFetches DEF Ready, States
<1>2. CASE \E d \in s.toRemove \ s.loop.seen : Visits(s, s2, d, "delete", {})
  <2>1. PICK d : Visits(s, s2, d, "delete", {})
    BY <1>2
  <2>2. PICK q \in GoodReqs(rev) : s2.wire = Append(s.wire, q) /\ q.kind = "delete"
    BY <2>1 DEF Visits
  <2>3. q \notin Fetches
    BY <2>2 DEF Fetches, CardKinds
  <2>4. None(s2.wire, Fetches)
    BY <1>1, <2>2, <2>3, NoneAppend
  <2>5. QED
    BY <2>1, <2>4 DEF Visits, Emptied
<1>3. CASE s2 \in SyncUpload(Uploading(s))
  BY <1>3, UploadingIs, UploadEmptied
<1>4. QED
  BY <1>2, <1>3, SyncRemoveIs

\* An answer while offline: what it was for is noted.
LEMMA HandledOursOffline ==
  ASSUME NEW s2, HandledAs(s2), ~online, NEW c \in Cards, NEW w, NEW pf, Ours(Now, FALSE, c, w, pf)
  PROVE  Ours(s2, FALSE, c, w, pf) /\ (Touched(s2, c, pf.uids) => Touched(Now, c, pf.uids))
<1> DEFINE r == Head(wire)
<1>1. wire \in Seq(GoodReqs(rev)) /\ wire # <<>> /\ r \in Reqs
  BY HandledFields
<1>2. /\ s2.wire = Tail(wire) /\ s2.local = local
      /\ c \in s2.toSync => c \in toSync \/ (r.kind = "put" /\ r.card = c)
      /\ c \in s2.toRemove => c \in toRemove \/ (r.kind = "delete" /\ r.card = c)
  BY HandledFailed
<1>3. \A Y : None(wire, Y) <=> None(s2.wire, Y) /\ r \notin Y
  BY <1>1, <1>2, NoneTail
<1>4. /\ Overwritten(Now, c, w) /\ Uploadable(Now, FALSE, c, w, pf.uids)
      /\ Removable(Now, FALSE, c, w, pf.hrefs)
  BY DEF Ours
<1>5. /\ c \in s2.toSync \/ ~None(s2.wire, AllPuts(c)) => c \in toSync \/ ~None(wire, AllPuts(c))
      /\ c \in s2.toRemove \/ ~None(s2.wire, Deletes(c)) => c \in toRemove \/ ~None(wire, Deletes(c))
  <2>1. r \in AllPuts(c) <=> r.kind = "put" /\ r.card = c
    BY <1>1, WriteSets
  <2>2. r \in Deletes(c) <=> r.kind = "delete" /\ r.card = c
    BY <1>1, WriteSets
  <2> HIDE DEF r
  <2>3. QED
    BY <1>2, <1>3, <2>1, <2>2
<1>6. Overwritten(s2, c, w)
  <2>1. Last(wire, Wishes(c, w), Strays(c, w)) =>
          Last(s2.wire, Wishes(c, w), Strays(c, w)) \/ None(s2.wire, Strays(c, w))
    BY <1>1, <1>2, LastTail
  <2>2. QED
    BY <1>3, <1>4, <2>1, NowIs DEF Overwritten
<1> HIDE DEF r
<1>7. Uploadable(s2, FALSE, c, w, pf.uids)
  BY <1>2, <1>4, <1>5, NowIs DEF Uploadable
<1>8. Removable(s2, FALSE, c, w, pf.hrefs)
  BY <1>2, <1>4, <1>5, NowIs DEF Removable
<1>9. Touched(s2, c, pf.uids) => Touched(Now, c, pf.uids)
  BY <1>5, NowIs DEF Touched
<1>10. QED
  BY <1>6, <1>7, <1>8, <1>9 DEF Ours, Undisturbed

\* A card that is still to be sent is not replaced by an older answer.
LEMMA RefreshedOurs ==
  ASSUME NEW s, NEW r, rev \in Nat, s \in States(rev), r \in GoodReqs(rev), r.kind = "get", r.st = "ok",
         NEW c \in Cards, NEW w, NEW pf, pf.uids = {}, pf.hrefs = {}, Ours(s, TRUE, c, w, pf),
         c \in s.toSync => r \notin OldGets(c, w),
         c \in s.toRemove => r \notin Transfers(c)
  PROVE  /\ Ours(Refreshed(s, r), TRUE, c, w, pf)
         /\ Touched(Refreshed(s, r), c, pf.uids) => Touched(s, c, pf.uids)
<1> DEFINE s1 == Refreshed(s, r)
<1>1. /\ Like(s, s1) /\ (c # r.card => s1.local[c] = s.local[c])
      /\ s1.local[r.card].v = IF r.ans.v = Absent THEN s.local[r.card].v ELSE r.ans.v
  BY RefreshedIs
<1>2. r \in Reqs
  BY DEF GoodReqs
<1> HIDE DEF s1
<1>3. s1.local[c].v = s.local[c].v \/ (c = r.card /\ s1.local[c].v = r.ans.v)
  BY <1>1
<1>4. c = r.card /\ r \notin OldGets(c, w) => r.ans.v \in {w, Absent}
  BY <1>2, WriteSets
<1>5. r \notin Transfers(c) => c # r.card
  BY <1>2, WriteSets
<1>6. c \in s.toSync => s1.local[c].v \in {w, Absent}
  BY <1>3, <1>4 DEF Ours, Uploadable
<1>7. c \in s.toRemove => s1.local[c].v = Absent
  BY <1>3, <1>5 DEF Ours, Removable
<1>8. QED
  BY <1>1, <1>6, <1>7, OursLocal DEF Like, s1

\* A function asks for a card again after its PUT.
LEMMA AddedGet ==
  ASSUME online, NEW s, NEW s2, NEW q, Adds(s, s2, q), q.kind = "get",
         NEW c, NEW w, NEW pf, c \in s.toRemove => q.card # c
  PROVE  Grown(s, s2, c, w, pf)
<1>1. q \in Reqs /\ q.st = "sent" /\ q \in GoodReqs(rev) /\ s2.wire = Append(s.wire, q)
  BY FreshSent DEF GoodReqs, Adds
<1>2. /\ q \notin Strays(c, w) /\ q \notin OldGets(c, w) /\ q \notin UserWrites(c)
      /\ q \notin AllPuts(c) /\ q \notin Deletes(c)
      /\ q \in Transfers(c) => q.card = c
  BY <1>1, WriteSets
<1>3. Extends(s.wire, s2.wire, Harmful(c, w))
  BY <1>1, <1>2 DEF Extends, Harmful
<1>4. QED
  BY <1>1, <1>2, <1>3 DEF Grown, Adds, Extends

LEMMA HandledOursUser ==
  ASSUME NEW s2, HandledAs(s2), online, Head(wire).by = "user",
         NEW c \in Cards, NEW w, NEW pf, pf.uids = {}, pf.hrefs = {}, Ours(Now, TRUE, c, w, pf)
  PROVE  Ours(s2, TRUE, c, w, pf) /\ (Touched(s2, c, pf.uids) => Touched(Now, c, pf.uids))
<1> DEFINE r == Head(wire)
           s == Popped
<1>1. /\ rev \in Nat /\ wire \in Seq(GoodReqs(rev)) /\ wire # <<>> /\ r = wire[1] /\ 1 \in DOMAIN wire
      /\ r \in GoodReqs(rev) /\ r \in Reqs /\ RequestOK(r, rev)
      /\ s.wire = Tail(wire) /\ s.local = local /\ s.toSync = toSync /\ s.toRemove = toRemove
      /\ Replied(s, r) /\ s2 \in After(s, r) /\ r.st # "failed"
  BY HandledFields DEF HandledAs
<1>2. s \in States(rev) /\ s.wire \in Seq(GoodReqs(rev))
  BY <1>1 DEF Replied, States
<1>3. Ours(s, TRUE, c, w, pf) /\ (Touched(s, c, pf.uids) => Touched(Now, c, pf.uids))
  BY <1>1, NowIs, OursTail
<1>4. /\ c \in toSync => r \notin OldGets(c, w)
      /\ c \in toRemove => r \notin Transfers(c)
  BY <1>1, NowIs DEF Ours, Undisturbed, None
<1> HIDE DEF s, r
<1>5. CASE r.kind = "put" /\ r.st = "ok"
  <2>1. s2 \in AfterPut(s, r)
    BY <1>1, <1>5 DEF After
  <2>2. PICK q : Adds(s, s2, q) /\ q.kind = "get" /\ q.card = r.card
    BY <1>1, <1>5, <2>1, AfterUserPut
  <2>3. c \in s.toRemove => q.card # c
    BY <1>1, <1>4, <1>5, <2>2, WriteSets
  <2>4. Grown(s, s2, c, w, pf)
    BY <2>2, <2>3, AddedGet
  <2>5. QED
    BY <1>2, <1>3, <2>4, OursGrown
<1>6. CASE r.kind = "put" /\ r.st # "ok"
  <2>1. s2 \in AfterPut(s, r)
    BY <1>1, <1>6 DEF After
  <2>2. r.st = "refused"
    BY <1>1, <1>6, RepliedFields
  <2>3. s2.local = s.local /\ s2.toRemove = s.toRemove /\ s2.wire = s.wire /\ s2.toSync = s.toSync
    BY <1>1, <1>6, <2>1, <2>2, AfterUserPut
  <2>4. Grown(s, s2, c, w, pf)
    BY <2>3 DEF Grown, Extends
  <2>5. QED
    BY <1>2, <1>3, <2>4, OursGrown
<1>7. CASE r.kind = "get"
  <2>1. s2 \in AfterGet(s, r)
    BY <1>1, <1>7 DEF After
  <2>2. r.st = "ok"
    BY <1>1, <1>7, RepliedFields DEF RequestOK
  <2>3. s2 = Refreshed(s, r)
    BY <1>1, <1>7, <2>1, <2>2, AfterUserGet
  <2>4. /\ Ours(Refreshed(s, r), TRUE, c, w, pf)
        /\ Touched(Refreshed(s, r), c, pf.uids) => Touched(s, c, pf.uids)
    BY <1>1, <1>2, <1>3, <1>4, <1>7, <2>2, RefreshedOurs
  <2>5. QED
    BY <1>3, <2>3, <2>4
<1>8. CASE r.kind = "delete"
  <2>1. /\ s2.wire = s.wire /\ s2.local = s.local /\ s2.toSync \subseteq s.toSync
        /\ s2.toRemove = s.toRemove
    BY <1>1, <1>8, HandledUserDelete DEF r
  <2>2. Grown(s, s2, c, w, pf)
    BY <2>1 DEF Grown, Extends
  <2>3. QED
    BY <1>2, <1>3, <2>2, OursGrown
<1>9. r.kind \in CardKinds
  BY <1>1, RepliedFields
<1>10. QED
  BY <1>5, <1>6, <1>7, <1>8, <1>9 DEF CardKinds

LEMMA HandledOursOther ==
  ASSUME NEW s2, HandledAs(s2), online, Head(wire).by # "user", Emptied(Now, TRUE),
         NEW c \in Cards, NEW w, NEW pf, pf.uids = {}, pf.hrefs = {}, Ours(Now, TRUE, c, w, pf)
  PROVE  Ours(s2, TRUE, c, w, pf) /\ (Touched(s2, c, pf.uids) => Touched(Now, c, pf.uids))
<1> DEFINE r == Head(wire)
           s == Popped
<1>1. /\ rev \in Nat /\ wire \in Seq(GoodReqs(rev)) /\ wire # <<>> /\ r = wire[1] /\ 1 \in DOMAIN wire
      /\ r \in GoodReqs(rev) /\ r \in Reqs /\ RequestOK(r, rev)
      /\ s.wire = Tail(wire) /\ s.local = local /\ s.toSync = toSync /\ s.toRemove = toRemove
      /\ s.loop = loop /\ Handling(s, r) /\ s2 \in After(s, r) /\ r.st # "failed"
  BY HandledFields DEF HandledAs
<1>2. s \in States(rev) /\ s.wire \in Seq(GoodReqs(rev)) /\ Ready(s) /\ s.progress
  BY <1>1, HandlingFields DEF Handling, States
<1>3. Ours(s, TRUE, c, w, pf) /\ (Touched(s, c, pf.uids) => Touched(Now, c, pf.uids))
  BY <1>1, NowIs, OursTail
<1>4. /\ c \in toSync => r \notin OldGets(c, w)
      /\ c \in toRemove => r \notin Transfers(c)
  BY <1>1, NowIs DEF Ours, Undisturbed, None
<1>5. loop.at \in {"upload", "update"} => toRemove = {}
  BY NowIs DEF Emptied
<1>6. r \in Fetches => toRemove = {} /\ toSync = {}
  BY <1>1, NowIs DEF Emptied, None
<1> HIDE DEF s, r
<1>7. CASE r.kind = "put" /\ r.st = "ok"
  <2>1. s2 \in AfterPut(s, r)
    BY <1>1, <1>7 DEF After
  <2>2. PICK q : Adds(s, s2, q) /\ q.kind = "get" /\ q.card = r.card
    BY <1>1, <1>7, <2>1, AfterSyncPut
  <2>3. c \in s.toRemove => q.card # c
    BY <1>1, <1>4, <1>7, <2>2, WriteSets
  <2>4. Grown(s, s2, c, w, pf)
    BY <2>2, <2>3, AddedGet
  <2>5. QED
    BY <1>2, <1>3, <2>4, OursGrown
<1>8. CASE r.kind = "put" /\ r.st # "ok"
  <2>1. s2 \in AfterPut(s, r)
    BY <1>1, <1>8 DEF After
  <2>2. r.st = "refused"
    BY <1>1, <1>8, HandlingFields
  <2>3. s2.local = s.local /\ s2.toRemove = s.toRemove /\ s2.wire = s.wire /\ s2.toSync = s.toSync
    BY <1>1, <1>8, <2>1, <2>2, AfterSyncPut DEF Ends
  <2>4. Grown(s, s2, c, w, pf)
    BY <2>3 DEF Grown, Extends
  <2>5. QED
    BY <1>2, <1>3, <2>4, OursGrown
<1>9. CASE r.kind = "get"
  <2>1. s2 \in AfterGet(s, r)
    BY <1>1, <1>9 DEF After
  <2>2. r.st = "ok"
    BY <1>1, <1>9, HandlingFields DEF RequestOK
  <2> DEFINE s1 == Refreshed(s, r)
  <2>3. s2 \in SyncUpload(s1) /\ s.loop.at = "upload"
    BY <1>1, <1>9, <2>1, <2>2, AfterSyncGet
  <2>4. Like(s, s1)
    BY <1>1, <1>2, <1>9, <2>2, RefreshedIs
  <2>5. Ours(s1, TRUE, c, w, pf) /\ (Touched(s1, c, pf.uids) => Touched(s, c, pf.uids))
    BY <1>1, <1>2, <1>3, <1>4, <1>9, <2>2, RefreshedOurs
  <2> HIDE DEF s1
  <2>6. Ready(s1) /\ s1.progress /\ s1.loop.at = "upload" /\ s1.toRemove = {}
    BY <1>1, <1>2, <1>5, <2>3, <2>4 DEF Like, Ready
  <2>7. QED
    BY <1>1, <1>3, <2>3, <2>5, <2>6, UploadOurs
<1>10. CASE r.kind = "delete"
  <2>1. s2 \in AfterDelete(s, r)
    BY <1>1, <1>10 DEF After
  <2>2. s2 \in SyncRemove(s) /\ s.loop.at = "remove"
    BY <1>1, <1>10, <2>1, AfterSyncDelete
  <2>3. QED
    BY <1>1, <1>2, <1>3, <2>2, RemoveOurs
<1>11. CASE r.kind \notin CardKinds
  <2>1. FetchOutcome(s, s2, r)
    BY <1>1, <1>11, AfterHandling
  <2>2. /\ s.toRemove = {} /\ s.toSync = {} /\ s2.toRemove = {} /\ s2.toSync = {}
        /\ \/ s2.wire = s.wire
           \/ \E q \in GoodReqs(rev) : /\ q.by # "user" /\ q.kind \notin CardKinds
                                       /\ s2.wire = Append(s.wire, q)
    BY <1>1, <1>6, <1>11, <2>1, WriteSets DEF FetchOutcome
  <2> DEFINE s1 == [s EXCEPT !.local = s2.local]
  <2>3. /\ s1.wire = s.wire /\ s1.toSync = s.toSync /\ s1.toRemove = s.toRemove
        /\ s1.local = s2.local
    BY <1>2 DEF States
  <2> HIDE DEF s1
  <2>4. Ours(s1, TRUE, c, w, pf) /\ (Touched(s1, c, pf.uids) => Touched(s, c, pf.uids))
    BY <1>3, <2>2, <2>3, OursLocal
  <2>5. \A q \in GoodReqs(rev) : q.kind \notin CardKinds =>
          q \notin Harmful(c, w) /\ q \notin AllPuts(c) /\ q \notin Deletes(c) /\ q \notin Transfers(c)
    BY WriteSets DEF Harmful, GoodReqs, CardKinds
  <2>6. Grown(s1, s2, c, w, pf)
    BY <2>2, <2>3, <2>5 DEF Grown, Extends
  <2>7. QED
    BY <1>2, <1>3, <2>3, <2>4, <2>6, OursGrown
<1>12. QED
  BY <1>7, <1>8, <1>9, <1>10, <1>11 DEF CardKinds

LEMMA HandledEmptied ==
  ASSUME NEW s2, HandledAs(s2), online, Emptied(Now, TRUE)
  PROVE  Emptied(s2, TRUE)
<1> DEFINE r == Head(wire)
           s == Popped
<1>1. /\ rev \in Nat /\ wire \in Seq(GoodReqs(rev)) /\ wire # <<>>
      /\ r \in GoodReqs(rev) /\ r \in Reqs /\ RequestOK(r, rev)
      /\ s.wire = Tail(wire) /\ s.toSync = toSync /\ s.toRemove = toRemove /\ s.loop = loop
      /\ (r.by = "user" => Replied(s, r)) /\ (r.by # "user" => Handling(s, r))
      /\ s2 \in After(s, r) /\ r.st # "failed" /\ online = TRUE
  BY HandledFields DEF HandledAs, Core, TypeInv
<1>2. Tail(wire) \in Seq(GoodReqs(rev))
  BY <1>1, TailIs
<1>3. /\ loop.at \in {"upload", "update"} => toRemove = {}
      /\ ~None(wire, Fetches) => toRemove = {} /\ toSync = {}
  BY NowIs DEF Emptied
<1>4. None(wire, Fetches) <=> None(s.wire, Fetches) /\ r \notin Fetches
  BY <1>1, NoneTail
<1>5. r \in Fetches <=> r.kind \notin CardKinds
  BY <1>1, WriteSets
<1>6. \A q \in GoodReqs(rev) : q.kind = "get" => q \notin Fetches
  BY DEF GoodReqs, Fetches, CardKinds
<1>7. \A q \in GoodReqs(rev) : None(Append(s.wire, q), Fetches) <=> None(s.wire, Fetches) /\ q \notin Fetches
  <2>1. s.wire \in Seq(GoodReqs(rev))
    BY <1>1, <1>2
  <2>2. QED
    BY <2>1, NoneAppend
<1> HIDE DEF s, r
<1>8. ASSUME NEW at, at \in {loop.at, "idle"}, s2.loop.at = at, s2.toSync \subseteq s.toSync,
             s2.toRemove = s.toRemove,
             s2.wire = s.wire \/ \E q \in GoodReqs(rev) : q.kind = "get" /\ s2.wire = Append(s.wire, q)
      PROVE  Emptied(s2, TRUE)
  <2>1. ~None(s2.wire, Fetches) => ~None(wire, Fetches)
    BY <1>4, <1>6, <1>7, <1>8
  <2>2. QED
    BY <1>1, <1>3, <1>8, <2>1 DEF Emptied
<1>9. CASE r.by = "user" /\ r.kind = "put"
  <2>1. s2 \in AfterPut(s, r) /\ Replied(s, r)
    BY <1>1, <1>9 DEF After
  <2>2. r.st \in {"ok", "refused"}
    BY <1>1, <2>1, RepliedFields
  <2>3. CASE r.st = "ok"
    <3>1. PICK q : Adds(s, s2, q) /\ q.kind = "get"
      BY <1>1, <1>9, <2>1, <2>3, AfterUserPut
    <3>2. QED
      BY <1>1, <1>8, <3>1 DEF Adds
  <2>4. CASE r.st = "refused"
    <3>1. s2.toRemove = s.toRemove /\ s2.loop = s.loop /\ s2.wire = s.wire /\ s2.toSync = s.toSync
      BY <1>1, <1>9, <2>1, <2>4, AfterUserPut
    <3>2. QED
      BY <1>1, <1>8, <3>1
  <2>5. QED
    BY <2>2, <2>3, <2>4
<1>10. CASE r.by = "user" /\ r.kind = "get"
  <2>1. s2 \in AfterGet(s, r) /\ Replied(s, r)
    BY <1>1, <1>10 DEF After
  <2>2. s2.toSync = s.toSync /\ s2.toRemove = s.toRemove /\ s2.loop = s.loop /\ s2.wire = s.wire
    BY <1>1, <1>10, <2>1, AfterUserGet
  <2>3. QED
    BY <1>1, <1>8, <2>2
<1>11. CASE r.by = "user" /\ r.kind = "delete"
  <2>1. s2.wire = s.wire /\ s2.toSync \subseteq s.toSync /\ s2.toRemove = s.toRemove /\ s2.loop.at = loop.at
    BY <1>1, <1>11, HandledUserDelete DEF r
  <2>2. QED
    BY <1>8, <2>1
<1>12. CASE r.by # "user" /\ r.kind = "put"
  <2>1. s2 \in AfterPut(s, r) /\ Handling(s, r)
    BY <1>1, <1>12 DEF After
  <2>2. r.st \in {"ok", "refused"}
    BY <1>1, <2>1, HandlingFields
  <2>3. CASE r.st = "ok"
    <3>1. PICK q : Adds(s, s2, q) /\ q.kind = "get"
      BY <1>1, <1>12, <2>1, <2>3, AfterSyncPut
    <3>2. QED
      BY <1>1, <1>8, <3>1 DEF Adds
  <2>4. CASE r.st = "refused"
    <3>1. s2.toRemove = s.toRemove /\ s2.loop = Idle /\ s2.wire = s.wire /\ s2.toSync = s.toSync
      BY <1>1, <1>12, <2>1, <2>4, AfterSyncPut DEF Ends
    <3>2. s2.loop.at = "idle"
      BY <3>1 DEF Idle
    <3>3. QED
      BY <1>8, <3>1, <3>2
  <2>5. QED
    BY <2>2, <2>3, <2>4
<1>13. CASE r.by # "user" /\ r.kind = "get"
  <2>1. s2 \in AfterGet(s, r) /\ Handling(s, r)
    BY <1>1, <1>13 DEF After
  <2>2. r.st = "ok" /\ Ready(s) /\ s.progress /\ s \in States(rev)
    BY <1>1, <1>13, <2>1, HandlingFields DEF RequestOK, Handling
  <2> DEFINE s1 == Refreshed(s, r)
  <2>3. s2 \in SyncUpload(s1) /\ s.loop.at = "upload"
    BY <1>1, <1>13, <2>1, <2>2, AfterSyncGet
  <2>4. Like(s, s1)
    BY <1>1, <1>13, <2>2, RefreshedIs
  <2> HIDE DEF s1
  <2>5. Ready(s1) /\ s1.progress /\ s1.loop.at = "upload" /\ s1.toRemove = {}
    BY <1>1, <1>3, <2>2, <2>3, <2>4 DEF Like, Ready
  <2>6. QED
    BY <1>1, <2>3, <2>5, UploadEmptied
<1>14. CASE r.by # "user" /\ r.kind = "delete"
  <2>1. s2 \in AfterDelete(s, r) /\ Handling(s, r)
    BY <1>1, <1>14 DEF After
  <2>2. s2 \in SyncRemove(s) /\ s.loop.at = "remove" /\ Ready(s) /\ s.progress
    BY <1>1, <1>14, <2>1, AfterSyncDelete DEF Handling
  <2>3. QED
    BY <1>1, <2>2, RemoveEmptied
<1>15. CASE r.by # "user" /\ r.kind \notin CardKinds
  <2>1. FetchOutcome(s, s2, r)
    BY <1>1, <1>15, AfterHandling
  <2>2. s2.toRemove = {} /\ s2.toSync = {}
    BY <1>1, <1>3, <1>4, <1>5, <1>15, <2>1 DEF FetchOutcome
  <2>3. QED
    BY <2>2 DEF Emptied
<1>16. r.by = "user" => r.kind \in CardKinds
  BY <1>1 DEF RequestOK
<1>17. QED
  BY <1>9, <1>10, <1>11, <1>12, <1>13, <1>14, <1>15, <1>16 DEF CardKinds

-----------------------------------------------------------------------------
(* Writes that come after the user's next change: every step.              *)

LEMMA FifoGrows ==
  ASSUME NEW w \in Seq(GoodReqs(rev)), Fifo(w), \A i \in DOMAIN w : online <=> w[i].st # "failed",
         NEW v, v = w \/ \E q \in GoodReqs(rev) : Fresh(q) /\ v = Append(w, q)
  PROVE  Fifo(v)
<1>1. CASE v = w
  BY <1>1
<1>2. ASSUME NEW q \in GoodReqs(rev), Fresh(q), v = Append(w, q) PROVE Fifo(v)
  <2>1. q.st = "sent" \/ \A i \in DOMAIN w : w[i].st # "sent"
    BY <1>2 DEF Fresh
  <2>2. QED
    BY <1>2, <2>1, FifoAppend
<1>3. QED
  BY <1>1, <1>2

\* Neither the server nor what the user wants changes.
LEMMA OursBecome ==
  ASSUME OursInv, NEW s2, Now' = s2, wire' = s2.wire, Fifo(s2.wire), Emptied(s2, online),
         UNCHANGED <<prefs, online, server, lost, want, shared, due>>,
         \A c \in Cards \ (shared \cup lost) :
           /\ Ours(s2, online, c, want[c], prefs)
           /\ Touched(s2, c, prefs.uids) => Touched(Now, c, prefs.uids)
  PROVE  OursInv'
  BY DEF OursInv

LEMMA OursNextResponse ==
  ASSUME Core, KeptInv, OursInv, NextResponse
  PROVE  OursInv'
<1> DEFINE r == Head(wire)
<1>1. PICK s2 \in After(Popped, r) : Become(s2)
  BY NextResponseIs
<1>2. /\ wire # <<>> /\ r.st # "sent" /\ rev \in Nat /\ online \in BOOLEAN
      /\ UNCHANGED <<prefs, online, server, rev, changes, faults, running, lost, want, shared, due>>
  BY NextResponseIs DEF Core, TypeInv
<1>3. HandledAs(s2)
  BY <1>1, <1>2 DEF HandledAs, KeptInv
<1>4. s2 \in States(rev) /\ Grows(Popped, s2)
  <2>1. CASE r.by = "user"
    BY <1>1, <1>2, <2>1, PoppedTask, AfterReplied DEF UserStep
  <2>2. CASE r.by # "user"
    BY <1>1, <1>2, <2>2, PoppedTask, AfterHandling DEF Outcome
  <2>3. QED
    BY <2>1, <2>2
<1>5. Now' = s2 /\ wire' = s2.wire
  BY <1>1, <1>4, BecomeIs DEF Become
<1>6. prefs.uids = {} /\ prefs.hrefs = {}
  BY <1>2 DEF Core, LineInv
<1>7. wire \in Seq(GoodReqs(rev)) /\ Popped.wire = Tail(wire) /\ Tail(wire) \in Seq(GoodReqs(rev))
  BY <1>2, PoppedIs
<1>8. Fifo(s2.wire)
  <2>1. Fifo(Tail(wire))
    BY <1>2, <1>7, FifoTail DEF OursInv
  <2>2. \A i \in DOMAIN Tail(wire) : online <=> Tail(wire)[i].st # "failed"
    <3>1. \A i \in DOMAIN wire : online <=> wire[i].st # "failed"
      BY DEF Core, LineInv
    <3>2. \A i \in DOMAIN Tail(wire) : Tail(wire)[i] = wire[i + 1] /\ i + 1 \in DOMAIN wire
      BY <1>2, <1>7, TailIs
    <3>3. QED
      BY <3>1, <3>2
  <2>3. QED
    BY <1>4, <1>7, <2>1, <2>2, FifoGrows DEF Grows
<1> HIDE DEF r
<1>9. Emptied(s2, online)
  <2>1. CASE online
    <3>1. online = TRUE /\ Emptied(Now, TRUE)
      BY <1>2, <2>1 DEF OursInv
    <3>2. Emptied(s2, TRUE)
      BY <1>3, <2>1, <3>1, HandledEmptied
    <3>3. QED
      BY <3>1, <3>2
  <2>2. CASE ~online
    BY <2>2 DEF Emptied
  <2>3. QED
    BY <2>1, <2>2
<1>10. ASSUME NEW c \in Cards \ (shared \cup lost)
       PROVE  /\ Ours(s2, online, c, want[c], prefs)
              /\ Touched(s2, c, prefs.uids) => Touched(Now, c, prefs.uids)
  <2> DEFINE w == want[c]
  <2>1. Ours(Now, online, c, w, prefs)
    BY <1>10 DEF OursInv
  <2> HIDE DEF w
  <2>2. CASE online
    <3>1. online = TRUE /\ Emptied(Now, TRUE)
      BY <1>2, <2>2 DEF OursInv
    <3>2. Ours(Now, TRUE, c, w, prefs)
      BY <2>1, <3>1
    <3>3. Ours(s2, TRUE, c, w, prefs) /\ (Touched(s2, c, prefs.uids) => Touched(Now, c, prefs.uids))
      BY <1>3, <1>6, <2>2, <3>1, <3>2, HandledOursUser, HandledOursOther
    <3>4. QED
      BY <3>1, <3>3 DEF w
  <2>3. CASE ~online
    <3>1. online = FALSE
      BY <1>2, <2>3
    <3>2. Ours(Now, FALSE, c, w, prefs)
      BY <2>1, <3>1
    <3>3. Ours(s2, FALSE, c, w, prefs) /\ (Touched(s2, c, prefs.uids) => Touched(Now, c, prefs.uids))
      BY <1>3, <2>3, <3>2, HandledOursOffline
    <3>4. QED
      BY <3>1, <3>3 DEF w
  <2>4. QED
    BY <2>2, <2>3
<1>11. QED
  BY <1>2, <1>5, <1>8, <1>9, <1>10, OursBecome

LEMMA OursSyncWithServer ==
  ASSUME Core, OursInv, SyncWithServer
  PROVE  OursInv'
<1> DEFINE s == Syncing
<1>1. /\ Ready(s) /\ s.progress /\ s.loop.at = "remove"
      /\ s.local = local /\ s.toSync = toSync /\ s.toRemove = toRemove
      /\ s.wire = wire /\ rev \in Nat
      /\ UNCHANGED <<prefs, online, server, rev, changes, faults, running, lost, want, shared, due>>
  BY SyncWithServerIs
<1>2. PICK s2 \in SyncRemove(s) : Become(s2) /\ Result(s2) /\ SyncGrows(s, s2)
  BY SyncWithServerIs
<1> HIDE DEF s
<1>3. Now' = s2 /\ wire' = s2.wire
  BY <1>2, BecomeIs DEF Result, Become
<1>4. wire \in Seq(GoodReqs(rev))
  BY <1>1 DEF Ready, States
<1>5. Fifo(s2.wire)
  <2>1. \A i \in DOMAIN wire : online <=> wire[i].st # "failed"
    BY DEF Core, LineInv
  <2>2. QED
    BY <1>1, <1>2, <1>4, <2>1, FifoGrows DEF SyncGrows, OursInv
<1>6. Emptied(s2, online)
  BY <1>1, <1>2, RemoveEmptied
<1>7. ASSUME NEW c \in Cards \ (shared \cup lost)
      PROVE  /\ Ours(s2, online, c, want[c], prefs)
             /\ Touched(s2, c, prefs.uids) => Touched(Now, c, prefs.uids)
  <2> DEFINE w == want[c]
  <2>1. Ours(Now, online, c, w, prefs)
    BY <1>7 DEF OursInv
  <2> HIDE DEF w
  <2>2. Grown(Now, s, c, w, prefs)
    BY <1>1, NowIs DEF Grown, Extends
  <2>3. Ours(s, online, c, w, prefs) /\ (Touched(s, c, prefs.uids) => Touched(Now, c, prefs.uids))
    BY <1>4, <2>1, <2>2, NowIs, OursGrown
  <2>4. Ours(s2, online, c, w, prefs) /\ (Touched(s2, c, prefs.uids) => Touched(s, c, prefs.uids))
    BY <1>1, <1>2, <2>3, RemoveOurs
  <2>5. QED
    BY <2>3, <2>4 DEF w
<1>8. QED
  BY <1>1, <1>3, <1>5, <1>6, <1>7, OursBecome

\* A request is marked as answered: what matters of it stays the same.
LEMMA OursAlike ==
  ASSUME NEW s, NEW s2, Alike(s.wire, s2.wire),
         \A i \in DOMAIN s.wire : s.wire[i] \in Reqs /\ s2.wire[i] \in Reqs,
         s2.local = s.local, s2.toSync = s.toSync, s2.toRemove = s.toRemove,
         NEW c, NEW w, NEW pf, Ours(s, TRUE, c, w, pf), c \in s.toSync => None(s2.wire, OldGets(c, w))
  PROVE  Ours(s2, TRUE, c, w, pf) /\ (Touched(s2, c, pf.uids) => Touched(s, c, pf.uids))
<1> DEFINE u == s.wire
           v == s2.wire
<1>1. DOMAIN v = DOMAIN u /\ \A i \in DOMAIN u : /\ v[i].by = u[i].by /\ v[i].kind = u[i].kind
                                                 /\ v[i].card = u[i].card /\ v[i].arg = u[i].arg
  BY DEF Alike
<1>2. \A i \in DOMAIN u : u[i] \in Reqs /\ v[i] \in Reqs
  OBVIOUS
<1>3. \A i \in DOMAIN u : Written(v[i]) = Written(u[i])
  BY <1>1 DEF Written
<1> HIDE DEF u, v
<1>4. \A i \in DOMAIN u :
        /\ v[i] \in Strays(c, w) <=> u[i] \in Strays(c, w)
        /\ v[i] \in Wishes(c, w) <=> u[i] \in Wishes(c, w)
        /\ v[i] \in AllPuts(c) <=> u[i] \in AllPuts(c)
        /\ v[i] \in Transfers(c) <=> u[i] \in Transfers(c)
        /\ v[i] \in Gets(c) <=> u[i] \in Gets(c)
        /\ v[i] \in UserWrites(c) <=> u[i] \in UserWrites(c)
  <2> TAKE i \in DOMAIN u
  <2> DEFINE x == v[i]
             y == u[i]
  <2>1. x \in Reqs /\ y \in Reqs
    BY <1>2
  <2>2. x.by = y.by /\ x.kind = y.kind /\ x.card = y.card /\ Written(x) = Written(y)
    BY <1>1, <1>3
  <2> HIDE DEF x, y
  <2>3. (x \in Strays(c, w) <=> y \in Strays(c, w)) /\ (x \in Wishes(c, w) <=> y \in Wishes(c, w))
    BY <2>1, <2>2, WriteSets
  <2>4. /\ x \in AllPuts(c) <=> y \in AllPuts(c)
        /\ x \in Transfers(c) <=> y \in Transfers(c)
        /\ x \in Gets(c) <=> y \in Gets(c)
        /\ x \in UserWrites(c) <=> y \in UserWrites(c)
    BY <2>1, <2>2, WriteSets
  <2>5. QED
    BY <2>3, <2>4 DEF x, y
<1>5. /\ None(v, Strays(c, w)) <=> None(u, Strays(c, w))
      /\ None(v, AllPuts(c)) <=> None(u, AllPuts(c))
      /\ None(v, Transfers(c)) <=> None(u, Transfers(c))
  BY <1>1, <1>4 DEF None
<1>6. Last(u, Wishes(c, w), Strays(c, w)) => Last(v, Wishes(c, w), Strays(c, w))
  BY <1>1, <1>4 DEF Last
<1>7. NoneBehind(u, Gets(c), UserWrites(c)) => NoneBehind(v, Gets(c), UserWrites(c))
  BY <1>1, <1>4 DEF NoneBehind
<1>8. Overwritten(s2, c, w)
  BY <1>5, <1>6 DEF Ours, Overwritten, u, v
<1>9. Uploadable(s2, TRUE, c, w, pf.uids) /\ Removable(s2, TRUE, c, w, pf.hrefs)
  BY DEF Ours, Uploadable, Removable
<1>10. Undisturbed(s2, TRUE, c, w)
  BY <1>5, <1>7 DEF Ours, Undisturbed, u, v
<1>11. QED
  BY <1>5, <1>8, <1>9, <1>10 DEF Ours, Touched, u, v

LEMMA FifoMarked ==
  ASSUME NEW w, DOMAIN w \in SUBSET Nat, NEW v, Alike(w, v), Fifo(w), NEW i \in DOMAIN w,
         \A j \in DOMAIN w : j < i => w[j].st # "sent", \A j \in DOMAIN w : j # i => v[j] = w[j],
         v[i].st # "sent"
  PROVE  Fifo(v)
<1>1. DOMAIN v = DOMAIN w
  BY DEF Alike
<1>2. ASSUME NEW j \in DOMAIN w, NEW k \in DOMAIN w, j < k, v[j].st = "sent" PROVE v[k].st = "sent"
  <2>1. j # i /\ w[j].st = "sent"
    BY <1>2
  <2>2. w[k].st = "sent"
    BY <1>2, <2>1 DEF Fifo
  <2>3. k # i
    BY <1>2, <2>1
  <2>4. QED
    BY <2>2, <2>3
<1>3. QED
  BY <1>1, <1>2 DEF Fifo

\* What the server answers of a card that is still to be sent is not older than it.
LEMMA ServedGet ==
  ASSUME Core, KeptInv, OursInv, NEW i \in Waiting, NEW c \in Cards \ (shared \cup lost),
         c \in toSync, wire[i] \in Gets(c)
  PROVE  server[c].v = want[c]
<1> DEFINE w == want[c]
<1>1. /\ i \in DOMAIN wire /\ wire \in Seq(GoodReqs(rev)) /\ wire[i] \in Reqs /\ online = TRUE
      /\ wire[i].kind = "get" /\ wire[i].card = c
  BY WaitingIs, WriteSets DEF GoodReqs, RestType
<1>2. DOMAIN wire = 1..Len(wire) /\ Len(wire) \in Nat /\ \A j \in 1..(i-1) : wire[j].st # "sent"
  BY <1>1 DEF Waiting
<1>3. Undisturbed(Now, TRUE, c, w)
  BY <1>1 DEF OursInv, Ours
<1>4. NoneBehind(wire, Gets(c), UserWrites(c)) /\ (c \in toRemove => None(wire, Transfers(c)))
  BY <1>3, NowIs DEF Undisturbed
<1>5. ASSUME NEW j \in DOMAIN wire, wire[j].by = "user", wire[j].kind \in {"put", "delete"},
             wire[j].card = c, wire[j].st = "sent", wire[j] \in Reqs
      PROVE  FALSE
  <2>1. wire[j] \in UserWrites(c)
    BY <1>5, WriteSets
  <2>2. j # i /\ ~(j < i)
    BY <1>1, <1>2, <1>5
  <2>3. i < j
    BY <1>1, <1>2, <2>2
  <2>4. QED
    BY <1>1, <1>4, <2>1, <2>3 DEF NoneBehind
<1>6. c \notin due
  <2>1. SUFFICES ASSUME c \in due PROVE FALSE
    OBVIOUS
  <2>2. Kept(Now, TRUE, c, w, prefs)
    BY <1>1, <2>1 DEF KeptInv
  <2> HIDE DEF w
  <2>3. \A j \in DOMAIN wire : wire[j] \in UserPuts(c, w) =>
          wire[j].by = "user" /\ wire[j].kind = "put" /\ wire[j].card = c /\ wire[j].st = "sent" /\ wire[j] \in Reqs
    BY DEF UserPuts, Puts
  <2>4. \A j \in DOMAIN wire : wire[j] \in SentDeletes(c, "user") =>
          wire[j].by = "user" /\ wire[j].kind = "delete" /\ wire[j].card = c /\ wire[j].st = "sent" /\ wire[j] \in Reqs
    BY DEF SentDeletes, Deletes
  <2>5. wire[i] \in Transfers(c) /\ wire[i] \notin SyncPuts(c, w)
    BY <1>1, RequestSets
  <2>6. ~Noted(Now, c, w) /\ ~Listed(Now, c)
    BY <1>1, <1>4, <2>5, NowIs DEF Noted, Listed, None
  <2>7. ~Last(wire, UserPuts(c, w), UserDeletes(c)) /\ None(wire, SentDeletes(c, "user"))
    BY <1>5, <2>3, <2>4 DEF Last, None
  <2>8. QED
    BY <2>2, <2>6, <2>7, NowIs DEF Kept, SavedOnline, GoneOnline
<1>7. Touched(Now, c, prefs.uids)
  BY NowIs DEF Touched
<1>8. QED
  BY <1>6, <1>7 DEF OursInv

\* Request i is marked as answered, refused or served.
LEMMA OursMarked ==
  ASSUME Core, OursInv, NEW i \in Waiting, NEW x \in Reqs, wire' = [wire EXCEPT ![i] = x],
         x.by = wire[i].by, x.kind = wire[i].kind, x.card = wire[i].card, x.arg = wire[i].arg,
         x.st # "sent", online' = online,
         UNCHANGED <<local, toSync, toRemove, token, progress, loop, prefs, running, want>>,
         shared \subseteq shared', lost \subseteq lost',
         \A c \in Cards \ (shared \cup lost) : c \in toSync => x \notin OldGets(c, want[c]),
         \A c \in Cards \ (shared' \cup lost') :
           c \notin due' => server'[c].v = want[c] \/ (c \notin due /\ server'[c] = server[c])
  PROVE  OursInv'
<1> DEFINE u == wire'
           s2 == Now'
<1>1. /\ i \in DOMAIN wire /\ wire \in Seq(GoodReqs(rev)) /\ online = TRUE /\ wire[i].st = "sent"
      /\ DOMAIN wire = 1..Len(wire) /\ Len(wire) \in Nat
      /\ \A j \in 1..(i-1) : wire[j].st # "sent"
  BY WaitingIs DEF RestType, Waiting
<1>2. DOMAIN u = DOMAIN wire /\ u[i] = x /\ \A j \in DOMAIN wire : j # i => u[j] = wire[j]
  BY <1>1
<1>3. \A j \in DOMAIN wire : wire[j] \in Reqs
  BY <1>1, GoodSeq
<1>4. /\ s2.wire = u /\ s2.local = Now.local /\ s2.toSync = Now.toSync /\ s2.toRemove = Now.toRemove
      /\ s2.loop = Now.loop
  BY DEF Now
<1> HIDE DEF u, s2
<1>5. Alike(wire, u)
  BY <1>2 DEF Alike
<1>6. Fifo(u)
  <2>1. \A j \in DOMAIN wire : j < i => wire[j].st # "sent"
    BY <1>1
  <2>2. DOMAIN wire \in SUBSET Nat /\ Fifo(wire)
    BY <1>1 DEF OursInv
  <2>3. QED
    BY <1>1, <1>2, <1>5, <2>1, <2>2, FifoMarked
<1>7. Emptied(s2, TRUE)
  <2>1. \A j \in DOMAIN wire : u[j] \in Reqs
    BY <1>2, <1>3
  <2>2. \A j \in DOMAIN wire : u[j] \in Fetches <=> wire[j] \in Fetches
    BY <1>3, <1>5, <2>1 DEF Alike, Fetches
  <2>3. None(u, Fetches) <=> None(wire, Fetches)
    BY <1>2, <2>2 DEF None
  <2>4. QED
    BY <1>1, <1>4, <2>3, NowIs DEF Emptied, OursInv
<1>8. ASSUME NEW c \in Cards \ (shared \cup lost)
      PROVE  /\ Ours(s2, TRUE, c, want[c], prefs)
             /\ Touched(s2, c, prefs.uids) => Touched(Now, c, prefs.uids)
  <2> DEFINE w == want[c]
  <2>1. Ours(Now, TRUE, c, w, prefs) /\ (c \in toSync => x \notin OldGets(c, w))
    BY <1>1, <1>8 DEF OursInv
  <2> HIDE DEF w
  <2>2. c \in toSync => None(u, OldGets(c, w))
    <3>1. c \in toSync => None(wire, OldGets(c, w))
      BY <2>1, NowIs DEF Ours, Undisturbed
    <3>2. QED
      BY <1>2, <2>1, <3>1 DEF None
  <2>3. \A j \in DOMAIN wire : wire[j] \in Reqs /\ u[j] \in Reqs
    BY <1>2, <1>3
  <2>4. Ours(s2, TRUE, c, w, prefs) /\ (Touched(s2, c, prefs.uids) => Touched(Now, c, prefs.uids))
    BY <1>4, <1>5, <2>1, <2>2, <2>3, NowIs, OursAlike
  <2>5. QED
    BY <2>4 DEF w
<1>9. ASSUME NEW c \in Cards \ (shared' \cup lost'), c \notin due', Touched(s2, c, prefs.uids)
      PROVE  server'[c].v = want[c]
  <2>1. c \in Cards \ (shared \cup lost)
    OBVIOUS
  <2>2. Touched(Now, c, prefs.uids)
    BY <1>8, <1>9, <2>1
  <2>3. QED
    BY <1>9, <2>1, <2>2 DEF OursInv
<1>10. QED
  BY <1>1, <1>6, <1>7, <1>8, <1>9 DEF OursInv, s2, u

LEMMA OursServe ==
  ASSUME Core, KeptInv, OursInv, NEW i \in Waiting, Serve(i), "blank" \notin Cases
  PROVE  OursInv'
<1> DEFINE r == wire[i]
           v == IF r.kind = "put" THEN r.arg ELSE Absent
<1>1. i \in DOMAIN wire /\ r \in GoodReqs(rev) /\ r \in Reqs /\ rev \in Nat /\ RestType
  BY WaitingIs DEF GoodReqs
<1>2. UNCHANGED <<local, toSync, toRemove, prefs, token, progress, loop, online,
                  changes, faults, running, lost, want, shared>>
  BY DEF Serve
<1>3. server \in [Cards -> ServerCards(rev)]
  BY <1>1 DEF RestType
<1>4. CASE r.kind \in {"put", "delete"}
  <2>1. \/ /\ wire' = [wire EXCEPT ![i].st = "refused"]
           /\ UNCHANGED <<rev, server, due>>
        \/ /\ wire' = [wire EXCEPT ![i].st = "ok"]
           /\ Write(r.card, v)
           /\ due' = NowDue(r.card, v)
    BY <1>4 DEF Serve
  <2>2. PICK st \in {"ok", "refused"} :
          /\ wire' = [wire EXCEPT ![i].st = st]
          /\ \/ UNCHANGED <<rev, server, due>>
             \/ Write(r.card, v) /\ due' = NowDue(r.card, v)
    BY <2>1
  <2> DEFINE x == [r EXCEPT !.st = st]
  <2>3. wire' = [wire EXCEPT ![i] = x]
    BY <1>1, <2>2
  <2>4. /\ x \in GoodReqs(rev) /\ x.by = r.by /\ x.kind = r.kind /\ x.card = r.card /\ x.arg = r.arg
        /\ x.st = st
    <3>1. st \in {"ok", "refused", "failed"} /\ rev \in Nat /\ r \in GoodReqs(rev)
      BY <1>1
    <3>2. r.kind \in {"put", "delete", "report"} /\ r.kind \in {"put", "delete"}
      BY <1>4
    <3> HIDE DEF r
    <3>3. QED
      BY <3>1, <3>2, RequestStatus
  <2>5. x \in Reqs /\ x.st # "sent"
    BY <2>2, <2>4 DEF GoodReqs
  <2> HIDE DEF x
  <2>6. \A c, y : x \notin OldGets(c, y)
    BY <1>4, <2>4, <2>5, WriteSets
  <2>7. ASSUME NEW c \in Cards \ (shared' \cup lost'), c \notin due'
        PROVE  server'[c].v = want[c] \/ (c \notin due /\ server'[c] = server[c])
    <3>1. CASE UNCHANGED <<rev, server, due>>
      BY <2>7, <3>1
    <3>2. CASE Write(r.card, v) /\ due' = NowDue(r.card, v)
      <4>1. r.card = c => v = want[c] /\ server'[c].v = v
        BY <1>2, <1>3, <2>7, <3>2 DEF NowDue, Write
      <4>2. r.card # c => c \notin due /\ server'[c] = server[c]
        BY <1>3, <2>7, <3>2 DEF NowDue, Write
      <4>3. QED
        BY <4>1, <4>2
    <3>3. QED
      BY <2>2, <3>1, <3>2
  <2>8. QED
    BY <1>2, <2>3, <2>4, <2>5, <2>6, <2>7, OursMarked
<1>5. CASE r.kind \notin {"put", "delete"}
  <2>1. /\ \E a \in Answer(r) : wire' = [wire EXCEPT ![i].st = "ok", ![i].ans = a]
        /\ UNCHANGED <<rev, server, due>>
    BY <1>5 DEF Serve
  <2>2. PICK a \in Answer(r) : wire' = [wire EXCEPT ![i].st = "ok", ![i].ans = a]
    BY <2>1
  <2> DEFINE x == [r EXCEPT !.st = "ok", !.ans = a]
  <2>3. wire' = [wire EXCEPT ![i] = x]
    BY <1>1, <2>2
  <2>4. a \in Answers
    BY <1>1, <1>5, <2>2, AnswerIs
  <2>5. /\ x \in Reqs /\ x.by = r.by /\ x.kind = r.kind /\ x.card = r.card /\ x.arg = r.arg
        /\ x.st = "ok" /\ x.ans = a
    <3> HIDE DEF r
    <3>1. QED
      BY <1>1, <2>4 DEF Reqs
  <2> HIDE DEF x
  <2>6. ASSUME NEW c \in Cards \ (shared \cup lost), c \in toSync PROVE x \notin OldGets(c, want[c])
    <3>1. SUFFICES ASSUME x \in OldGets(c, want[c]) PROVE FALSE
      OBVIOUS
    <3>2. r.kind = "get" /\ r.card = c /\ a.v \notin {want[c], Absent}
      BY <2>5, <3>1, WriteSets
    <3>3. a = server[c]
      BY <2>2, <3>2 DEF Answer
    <3>4. wire[i] \in Gets(c)
      BY <1>1, <3>2, WriteSets
    <3>5. server[c].v = want[c]
      BY <2>6, <3>4, ServedGet
    <3>6. QED
      BY <3>2, <3>3, <3>5
  <2>7. \A c \in Cards \ (shared' \cup lost') :
          c \notin due' => server'[c].v = want[c] \/ (c \notin due /\ server'[c] = server[c])
    BY <2>1
  <2>8. x.st # "sent"
    BY <2>5
  <2>9. QED
    BY <1>2, <2>3, <2>5, <2>6, <2>7, <2>8, OursMarked
<1>6. QED
  BY <1>4, <1>5

LEMMA OursRefuse ==
  ASSUME Core, OursInv, NEW i \in Waiting, Refuse(i)
  PROVE  OursInv'
<1> DEFINE r == wire[i]
           over == IF r.kind = "delete" \/ (r.kind = "put" /\ r.by = "user") THEN {r.card} ELSE {}
           x == [r EXCEPT !.st = "refused"]
<1>1. i \in DOMAIN wire /\ r \in GoodReqs(rev) /\ r \in Reqs /\ rev \in Nat /\ RestType
  BY WaitingIs DEF GoodReqs
<1>2. /\ r.kind \in {"put", "delete", "report"} /\ wire' = [wire EXCEPT ![i].st = "refused"]
      /\ due' = due \ over /\ lost' = lost \cup over
      /\ UNCHANGED <<local, toSync, toRemove, prefs, token, progress, loop, online,
                     server, rev, changes, running, want, shared>>
  BY DEF Refuse
<1>3. wire' = [wire EXCEPT ![i] = x]
  BY <1>1, <1>2
<1>4. /\ x \in GoodReqs(rev) /\ x.by = r.by /\ x.kind = r.kind /\ x.card = r.card /\ x.arg = r.arg
      /\ x.st = "refused"
  BY <1>1, <1>2, RequestStatus
<1>5. x \in Reqs /\ x.st # "sent"
  BY <1>4 DEF GoodReqs
<1> HIDE DEF x
<1>6. \A c, y : x \notin OldGets(c, y)
  BY <1>4, <1>5, WriteSets
<1>7. \A c \in Cards \ (shared' \cup lost') : c \notin due' => c \notin due /\ server'[c] = server[c]
  BY <1>2
<1>8. shared \subseteq shared' /\ lost \subseteq lost'
  BY <1>2
<1>9. QED
  BY <1>2, <1>3, <1>4, <1>5, <1>6, <1>7, <1>8, OursMarked

LEMMA OursOtherClient ==
  ASSUME Core, OursInv, NEW c \in Cards, NEW v \in 0..MaxChanges, OtherClient(c, v)
  PROVE  OursInv'
<1>1. /\ shared' = shared \cup {c} /\ due' = due \ {c} /\ Write(c, v)
      /\ UNCHANGED <<local, toSync, toRemove, prefs, token, progress, loop, wire, online,
                     faults, running, lost, want>>
  BY DEF OtherClient
<1>2. Now' = Now
  BY <1>1 DEF Now
<1>3. server \in [Cards -> ServerCards(rev)]
  BY DEF Core, TypeInv
<1>5. ASSUME NEW d \in Cards \ (shared' \cup lost')
      PROVE  /\ Ours(Now', online', d, want'[d], prefs')
             /\ d \notin due' /\ Touched(Now', d, prefs'.uids) => server'[d].v = want'[d]
  <2>0. d \in Cards \ (shared \cup lost) /\ server'[d].v = server[d].v /\ (d \notin due' => d \notin due)
    BY <1>1, <1>3, <1>5 DEF Write
  <2>1. /\ Ours(Now, online, d, want[d], prefs)
        /\ d \notin due /\ Touched(Now, d, prefs.uids) => server[d].v = want[d]
    BY <2>0 DEF OursInv
  <2>2. Ours(Now', online', d, want'[d], prefs')
    BY <1>1, <1>2, <2>1
  <2>3. Touched(Now', d, prefs'.uids) => Touched(Now, d, prefs.uids)
    BY <1>1, <1>2
  <2>4. QED
    BY <1>1, <2>0, <2>1, <2>2, <2>3
<1>6. Emptied(Now', online') /\ Fifo(wire')
  BY <1>1, <1>2 DEF OursInv
<1>7. \A d \in Cards : want'[d] # Blank
  BY <1>1 DEF OursInv
<1>8. QED
  BY <1>5, <1>6, <1>7 DEF OursInv

\* The user writes card c as it is to be, n, and every other card stays as it is.
UserWrite(s2, q, c, n) ==
    /\ s2.wire = Append(wire, q) /\ q \in GoodReqs(rev) /\ Fresh(q)
    /\ s2.toSync = toSync /\ s2.toRemove = toRemove /\ s2.loop = loop
    /\ s2.local[c].v = n /\ \A d \in Cards : d # c => s2.local[d] = local[d]
    /\ q.by = "user" /\ q.kind \in {"put", "delete"} /\ q.card = c /\ Written(q) = n
    /\ (q.kind = "delete" <=> n = Absent) /\ n # Blank

LEMMA OursWritten ==
  ASSUME Core, running, NEW s2, NEW q, NEW c \in Cards, NEW n, UserWrite(s2, q, c, n),
         Has(local, c) \/ (n # Absent /\ Unused(c)), ~Overtaken(c),
         NEW v, Ours(Now, online, c, v, prefs)
  PROVE  Ours(s2, online, c, n, prefs)
<1>1. /\ s2.wire = Append(wire, q) /\ q \in GoodReqs(rev) /\ q \in Reqs /\ wire \in Seq(GoodReqs(rev))
      /\ s2.toSync = toSync /\ s2.toRemove = toRemove /\ s2.local[c].v = n
      /\ q.by = "user" /\ q.kind \in {"put", "delete"} /\ q.card = c /\ Written(q) = n
      /\ (q.kind = "delete" <=> n = Absent)
      /\ prefs.uids = {} /\ prefs.hrefs = {}
  <2>1. Now \in States(rev)
    BY DEF Core, TypeInv
  <2>2. QED
    BY <2>1, NowIs DEF UserWrite, GoodReqs, States, Core, LineInv
<1>2. q \in Wishes(c, n) /\ q \notin Gets(c) /\ (n # Absent => q \notin Deletes(c))
  BY <1>1, WriteSets
<1>3. Overwritten(s2, c, n)
  <2>1. Last(s2.wire, Wishes(c, n), Strays(c, n))
    BY <1>1, <1>2, LastAppend
  <2>2. QED
    BY <2>1 DEF Overwritten
<1>4. Uploadable(s2, online, c, n, prefs.uids)
  BY <1>1 DEF Uploadable
<1>5. \A i \in DOMAIN wire : wire[i] \in Reqs
  BY <1>1, GoodSeq
<1>6. c \notin toRemove \/ n = Absent
  BY NowIs DEF Ours, Removable, Has, Unused
<1>7. c \in toRemove => FALSE
  BY NowIs DEF Ours, Removable, Has, Unused
<1>8. Removable(s2, online, c, n, prefs.hrefs)
  <2>1. SUFFICES ASSUME ~online, ~None(s2.wire, Deletes(c)), n # Absent
                 PROVE  FALSE
    BY <1>1, <1>7 DEF Removable
  <2>2. ~None(wire, Deletes(c))
    BY <1>1, <1>2, <2>1, NoneAppend
  <2>3. ~Has(local, c)
    BY <2>1, <2>2, NowIs DEF Ours, Removable, Has
  <2>4. \A i \in DOMAIN wire : wire[i].card # c
    BY <2>3 DEF Unused
  <2>5. \A i \in DOMAIN wire : wire[i] \notin Deletes(c)
    BY <1>5, <2>4, WriteSets
  <2>6. QED
    BY <2>2, <2>5 DEF None
<1>9. Undisturbed(s2, online, c, n)
  <2>1. SUFFICES ASSUME online, c \in toSync
                 PROVE  None(s2.wire, OldGets(c, n)) /\ NoneBehind(s2.wire, Gets(c), UserWrites(c))
    BY <1>1, <1>7 DEF Undisturbed
  <2>2. \A i \in DOMAIN wire : wire[i] \notin Gets(c)
    BY <1>5, <2>1, WriteSets DEF Overtaken
  <2>3. None(s2.wire, Gets(c))
    <3>1. None(wire, Gets(c))
      BY <2>2 DEF None
    <3>2. QED
      BY <1>1, <1>2, <3>1, NoneAppend
  <2>4. None(s2.wire, OldGets(c, n))
    BY <2>3 DEF None, OldGets
  <2>5. QED
    BY <2>3, <2>4 DEF None, NoneBehind
<1>10. QED
  BY <1>3, <1>4, <1>8, <1>9 DEF Ours

LEMMA OursWrite ==
  ASSUME Core, OursInv, running, NEW s2, NEW q, NEW c \in Cards, NEW n, UserWrite(s2, q, c, n),
         Now' = s2, wire' = s2.wire,
         Has(local, c) \/ (n # Absent /\ Unused(c)), ~Overtaken(c),
         want'[c] = n, \A d \in Cards : d # c => want'[d] = want[d],
         due' = due \cup ({c} \ shared),
         UNCHANGED <<prefs, online, server, lost, shared>>
  PROVE  OursInv'
<1>1. wire \in Seq(GoodReqs(rev)) /\ q \in GoodReqs(rev) /\ q \in Reqs
  <2>1. Now \in States(rev)
    BY DEF Core, TypeInv
  <2>2. QED
    BY <2>1, NowIs DEF UserWrite, GoodReqs, States
<1>2. Fifo(wire')
  <2>1. \A i \in DOMAIN wire : online <=> wire[i].st # "failed"
    BY DEF Core, LineInv
  <2>2. QED
    BY <1>1, <2>1, FifoGrows DEF UserWrite, OursInv
<1>3. Emptied(s2, online)
  <2>1. q \notin Fetches
    BY <1>1, WriteSets DEF UserWrite, CardKinds
  <2>2. None(s2.wire, Fetches) <=> None(wire, Fetches)
    BY <1>1, <2>1, NoneAppend DEF UserWrite
  <2>3. QED
    BY <2>2, NowIs DEF Emptied, OursInv, UserWrite
<1>4. ASSUME NEW d \in Cards \ (shared \cup lost), d # c
      PROVE  /\ Ours(s2, online, d, want[d], prefs)
             /\ Touched(s2, d, prefs.uids) => Touched(Now, d, prefs.uids)
  <2> DEFINE w == want[d]
  <2>1. Ours(Now, online, d, w, prefs)
    BY <1>4 DEF OursInv
  <2> HIDE DEF w
  <2>2. q \notin Harmful(d, w) /\ q \notin Transfers(d) /\ q \notin AllPuts(d) /\ q \notin Deletes(d)
    BY <1>1, <1>4, WriteSets DEF Harmful, UserWrite
  <2>3. Grown(Now, s2, d, w, prefs)
    BY <1>1, <1>4, <2>2, NowIs DEF Grown, Extends, UserWrite
  <2>4. QED
    BY <1>1, <2>1, <2>3, NowIs, OursGrown DEF w
<1>5. ASSUME NEW d \in Cards \ (shared' \cup lost')
      PROVE  /\ Ours(s2, online', d, want'[d], prefs')
             /\ d \notin due' /\ Touched(s2, d, prefs'.uids) => server'[d].v = want'[d]
  <2>1. d \in Cards \ (shared \cup lost)
    OBVIOUS
  <2>2. CASE d = c
    <3>1. Ours(Now, online, c, want[c], prefs)
      BY <2>1, <2>2 DEF OursInv
    <3>2. Ours(s2, online, c, n, prefs)
      BY <3>1, OursWritten
    <3>3. d \in due'
      BY <2>1, <2>2
    <3>4. QED
      BY <2>2, <3>2, <3>3
  <2>3. CASE d # c
    <3>1. /\ Ours(s2, online, d, want[d], prefs)
          /\ Touched(s2, d, prefs.uids) => Touched(Now, d, prefs.uids)
      BY <1>4, <2>1, <2>3
    <3>2. d \notin due' => d \notin due
      OBVIOUS
    <3>3. d \notin due /\ Touched(Now, d, prefs.uids) => server[d].v = want[d]
      BY <2>1 DEF OursInv
    <3>4. want'[d] = want[d] /\ online' = online /\ prefs' = prefs /\ server' = server
      BY <2>1, <2>3
    <3>5. QED
      BY <3>1, <3>2, <3>3, <3>4
  <2>4. QED
    BY <2>2, <2>3
<1>6. \A d \in Cards : want'[d] # Blank
  BY DEF OursInv, UserWrite
<1>7. QED
  BY <1>2, <1>3, <1>5, <1>6 DEF OursInv

LEMMA OursUserSave ==
  ASSUME Core, OursInv, NEW c \in Cards, UserSave(c), "overwrite" \notin Cases
  PROVE  OursInv'
<1> DEFINE n == changes + 1
<1>1. PICK s2 : /\ Become(s2) /\ UserStep(Saving(c), s2)
                /\ \E q : /\ Adds(Saving(c), s2, q) /\ q.by = "user" /\ q.kind = "put" /\ q.card = c
                          /\ q.arg = n
  BY UserSaveIs
<1>2. PICK q : Adds(Saving(c), s2, q) /\ q.by = "user" /\ q.kind = "put" /\ q.card = c /\ q.arg = n
  BY <1>1
<1>3. /\ changes < MaxChanges /\ running
      /\ want' = [want EXCEPT ![c] = n]
      /\ due' = due \cup ({c} \ shared)
      /\ UNCHANGED <<prefs, online, server, rev, faults, running, lost, shared>>
  BY UserSaveIs
<1>4. /\ Saving(c).wire = wire /\ Saving(c).loop = loop
      /\ Saving(c).toSync = toSync /\ Saving(c).toRemove = toRemove
      /\ Saving(c).local[c].v = n
      /\ \A d \in Cards : d # c => Saving(c).local[d] = local[d]
      /\ n # Absent /\ n # Blank
  <2>1. changes \in 0..MaxChanges /\ MaxChanges \in Nat
    BY CardDavAssumption DEF Core, TypeInv
  <2>2. QED
    BY <1>3, <2>1, SavingIs DEF Blank
<1>5. want \in [Cards -> Values]
  BY DEF Core, TypeInv
<1>6. (Has(local, c) \/ Unused(c)) /\ ~Overtaken(c)
  BY DEF UserSave
<1>7. s2 \in States(rev) /\ Now' = s2 /\ wire' = s2.wire
  BY <1>1, BecomeIs DEF UserStep, Become
<1> HIDE DEF n
<1>8. UserWrite(s2, q, c, n)
  BY <1>2, <1>4 DEF Adds, UserWrite, Written
<1>9. want'[c] = n /\ \A d \in Cards : d # c => want'[d] = want[d]
  BY <1>3, <1>5
<1>10. QED
  BY <1>3, <1>4, <1>6, <1>7, <1>8, <1>9, OursWrite

\* What KeptUserDelete and OursUserDelete need of deleteCards for a single, known card.
LEMMA DeletesOne ==
  ASSUME Core, NEW cs \in SUBSET Cards, UserDelete(cs), "early" \notin Cases, "many" \notin Cases
  PROVE  \E c \in Cards : \E s2, q :
           /\ cs = {c} /\ Has(local, c) /\ Become(s2) /\ UserStep(Drop(Now, cs), s2)
           /\ Adds(Drop(Now, cs), s2, q) /\ q.by = "user" /\ q.kind = "delete" /\ q.card = c
           /\ q.arg = <<{c}, {}>>
<1> DEFINE s == Drop(Now, cs)
           known == {c \in cs : local[c].href}
<1>1. PICK s2 \in DeleteRest(s, cs, known) : Become(s2) /\ UserStep(s, s2) /\ Grows(s, s2)
  BY UserDeleteIs
<1>2. /\ Like(Now, s) /\ Task(s) /\ rev \in Nat
  BY UserDeleteIs
<1>3. known = cs /\ cs # {} /\ ~(Cardinality(cs) > 1) /\ \A c \in cs : Has(local, c)
  BY DEF UserDelete
<1>4. PICK c \in cs : cs = {c}
  <2>1. PICK c \in cs : TRUE
    BY <1>3
  <2>2. IsFiniteSet(cs)
    BY CardDavAssumption, FS_Subset
  <2>3. IsFiniteSet(cs \ {c}) /\ Cardinality(cs \ {c}) = Cardinality(cs) - 1
    BY <2>1, <2>2, FS_RemoveElement
  <2>4. Cardinality(cs) \in Nat /\ Cardinality(cs \ {c}) \in Nat
    BY <2>2, <2>3, FS_CardinalityType
  <2>5. Cardinality(cs \ {c}) = 0
    BY <1>3, <2>3, <2>4
  <2>6. cs \ {c} = {}
    BY <2>3, <2>5, FS_EmptySet
  <2>7. QED
    BY <2>1, <2>6
<1>5. PICK q : Adds(s, s2, q) /\ q.by = "user" /\ q.kind = "delete" /\ q.card = c /\ q.arg = <<{c}, {}>>
  <2> HIDE DEF s, known
  <2>1. /\ s \in States(rev) /\ known \in SUBSET Cards /\ known # {} /\ rev \in Nat /\ Task(s)
        /\ s2 \in DeleteRest(s, cs, known)
    BY <1>1, <1>2, <1>3 DEF Like
  <2>2. Deleting(s, s2, cs, known)
    BY <2>1, DeleteRestIs
  <2>3. QED
    BY <1>3, <1>4, <2>2 DEF Deleting
<1> HIDE DEF s
<1>6. QED
  BY <1>1, <1>3, <1>4, <1>5 DEF s

LEMMA OursUserDelete ==
  ASSUME Core, OursInv, NEW cs \in SUBSET Cards, UserDelete(cs),
         "early" \notin Cases, "many" \notin Cases, "overwrite" \notin Cases
  PROVE  OursInv'
<1> DEFINE s == Drop(Now, cs)
<1>0. PICK c \in Cards : \E s2, q :
        /\ cs = {c} /\ Has(local, c) /\ Become(s2) /\ UserStep(s, s2)
        /\ Adds(s, s2, q) /\ q.by = "user" /\ q.kind = "delete" /\ q.card = c
  BY DeletesOne
<1>1. PICK s2, q :
        /\ cs = {c} /\ Has(local, c) /\ Become(s2) /\ UserStep(s, s2)
        /\ Adds(s, s2, q) /\ q.by = "user" /\ q.kind = "delete" /\ q.card = c
  BY <1>0
<1>2. /\ Like(Now, s) /\ running
      /\ \A d \in Cards : d \notin cs => s.local[d] = local[d]
      /\ due' = due \cup (cs \ shared)
      /\ want' = [d \in Cards |-> IF d \in cs THEN Absent ELSE want[d]]
      /\ UNCHANGED <<prefs, online, server, rev, faults, running, lost, shared>>
  BY UserDeleteIs
<1>3. Now \in States(rev) /\ s.local[c].v = Absent
  <2>1. Now \in States(rev) /\ rev \in Nat
    BY DEF Core, TypeInv
  <2>2. s.local[c] = IF c \in cs THEN NoCard ELSE Now.local[c]
    BY <2>1, DropLike
  <2>3. QED
    BY <1>1, <2>1, <2>2 DEF NoCard
<1>4. ~Overtaken(c)
  BY <1>1 DEF UserDelete
<1>5. s2 \in States(rev) /\ Now' = s2 /\ wire' = s2.wire
  BY <1>1, BecomeIs DEF UserStep, Become
<1> HIDE DEF s
<1>6. UserWrite(s2, q, c, Absent)
  <2>1. Absent # Blank
    BY CardDavAssumption DEF Absent, Blank
  <2>2. QED
    BY <1>1, <1>2, <1>3, <2>1, NowIs DEF Adds, Like, UserWrite, Written
<1>7. want'[c] = Absent /\ \A d \in Cards : d # c => want'[d] = want[d]
  BY <1>1, <1>2
<1>8. due' = due \cup ({c} \ shared)
  BY <1>1, <1>2
<1>9. QED
  BY <1>1, <1>2, <1>4, <1>5, <1>6, <1>7, <1>8, OursWrite

\* The connection breaks.  Unless an older answer has replaced a card that is being sent,
\* or a card that is being removed ("overwrite"), what will be noted is what the user wants.
LEMMA OursGoOffline ==
  ASSUME Core, OursInv, GoOffline, "overwrite" \notin Cases, "blank" \notin Cases
  PROVE  OursInv'
<1> DEFINE u == wire'
           s2 == Now'
<1>1. /\ wire \in Seq(GoodReqs(rev)) /\ u \in Seq(GoodReqs(rev)) /\ Alike(wire, u)
      /\ \A i \in DOMAIN wire : u[i].st = "failed"
      /\ online /\ online' = FALSE /\ running
      /\ UNCHANGED <<local, toSync, toRemove, prefs, token, progress, loop, server, rev,
                     changes, running, lost, want, shared, due>>
  BY GoOfflineIs
<1>2. /\ \A i \in DOMAIN wire : wire[i].kind = "put" => local[wire[i].card].v = wire[i].arg /\ wire[i].arg # Blank
      /\ \A i \in DOMAIN wire : wire[i].kind = "delete" => local[wire[i].card].v = Absent
  BY DEF GoOffline, Has
<1>3. s2.wire = u /\ s2.local = local /\ s2.toSync = toSync /\ s2.toRemove = toRemove
  BY <1>1 DEF Now
<1>4. online = TRUE
  BY <1>1 DEF Core, TypeInv
<1> HIDE DEF u, s2
<1>5. DOMAIN u = DOMAIN wire /\ \A i \in DOMAIN wire : /\ u[i].by = wire[i].by /\ u[i].kind = wire[i].kind
                                                       /\ u[i].card = wire[i].card /\ u[i].arg = wire[i].arg
  BY <1>1 DEF Alike
<1>6. \A i \in DOMAIN wire : wire[i] \in Reqs /\ u[i] \in Reqs
  BY <1>1, <1>5, GoodSeq
<1>7. ASSUME NEW c \in Cards \ (shared \cup lost)
      PROVE  /\ Ours(s2, FALSE, c, want[c], prefs)
             /\ Touched(s2, c, prefs.uids) => Touched(Now, c, prefs.uids)
  <2> DEFINE w == want[c]
  <2>1. Ours(Now, TRUE, c, w, prefs)
    BY <1>4, <1>7 DEF OursInv
  <2> HIDE DEF w
  <2>2. None(wire, Strays(c, w)) \/ Last(wire, Wishes(c, w), Strays(c, w))
    <3>1. Overwritten(Now, c, w)
      BY <2>1 DEF Ours
    <3>2. QED
      BY <3>1, NowIs DEF Overwritten
  <2>3. \A i \in DOMAIN wire :
          /\ wire[i] \in AllPuts(c) => wire[i].kind = "put" /\ wire[i].card = c /\ Written(wire[i]) = wire[i].arg
          /\ wire[i] \in Deletes(c) => wire[i].kind = "delete" /\ wire[i].card = c /\ Written(wire[i]) = Absent
          /\ wire[i] \in Wishes(c, w) => /\ wire[i].kind \in {"put", "delete"} /\ wire[i].card = c
                                         /\ Written(wire[i]) = w
          /\ wire[i].kind \in {"put", "delete"} /\ wire[i].card = c => wire[i] \in Strays(c, w) \/ Written(wire[i]) \in {w, Blank}
    BY <1>6, WriteSets DEF Written
  <2>4. \A i \in DOMAIN wire : wire[i].kind \in {"put", "delete"} /\ wire[i].card = c =>
          local[c].v = Written(wire[i]) /\ Written(wire[i]) # Blank
    BY <1>2, CardDavAssumption DEF Written, Absent, Blank
  <2>5. \A i \in DOMAIN wire : wire[i].kind \in {"put", "delete"} /\ wire[i].card = c => local[c].v = w /\ Written(wire[i]) = w
    <3>1. ASSUME NEW i \in DOMAIN wire, wire[i].kind \in {"put", "delete"}, wire[i].card = c, Written(wire[i]) # w
          PROVE  FALSE
      <4>1. wire[i] \in Strays(c, w)
        BY <2>3, <2>4, <3>1
      <4>2. PICK k \in DOMAIN wire : wire[k] \in Wishes(c, w)
        BY <2>2, <4>1 DEF None, Last
      <4>3. local[c].v = w
        BY <2>3, <2>4, <4>2
      <4>4. QED
        BY <2>4, <3>1, <4>3
    <3>2. QED
      BY <2>4, <3>1
  <2>6. /\ ~None(u, AllPuts(c)) <=> ~None(wire, AllPuts(c))
        /\ ~None(u, Deletes(c)) <=> ~None(wire, Deletes(c))
    <3>1. \A i \in DOMAIN wire : u[i] \in AllPuts(c) <=> wire[i] \in AllPuts(c)
      BY <1>5, <1>6 DEF AllPuts
    <3>2. \A i \in DOMAIN wire : u[i] \in Deletes(c) <=> wire[i] \in Deletes(c)
      BY <1>5, <1>6 DEF Deletes
    <3>3. QED
      BY <1>5, <3>1, <3>2 DEF None
  <2>7. Overwritten(s2, c, w)
    <3>1. \A i \in DOMAIN wire : Written(u[i]) = Written(wire[i])
      BY <1>5 DEF Written
    <3>2. \A i \in DOMAIN wire : u[i] \notin Strays(c, w)
      <4>1. SUFFICES ASSUME NEW i \in DOMAIN wire, u[i] \in Strays(c, w) PROVE FALSE
        OBVIOUS
      <4>2. u[i].kind \in {"put", "delete"} /\ u[i].card = c /\ Written(u[i]) \notin {w, Blank}
        BY <1>6, <4>1, WriteSets
      <4>3. QED
        BY <1>5, <2>5, <3>1, <4>2
    <3>3. QED
      BY <1>3, <1>5, <3>2 DEF Overwritten, None
  <2>8. ~None(wire, AllPuts(c)) => local[c].v = w
    BY <2>3, <2>5 DEF None
  <2>9. ~None(wire, Deletes(c)) => local[c].v = Absent /\ w = Absent
    BY <2>3, <2>5 DEF None
  <2>10. Uploadable(s2, FALSE, c, w, prefs.uids)
    BY <1>3, <2>1, <2>6, <2>8, NowIs DEF Ours, Uploadable
  <2>11. Removable(s2, FALSE, c, w, prefs.hrefs)
    BY <1>3, <2>1, <2>6, <2>9, NowIs DEF Ours, Removable
  <2>12. Touched(s2, c, prefs.uids) => Touched(Now, c, prefs.uids)
    BY <1>3, <2>6, NowIs DEF Touched
  <2>13. QED
    BY <2>7, <2>10, <2>11, <2>12 DEF Ours, Undisturbed, w
<1>8. Fifo(u)
  BY <1>1, <1>5 DEF Fifo
<1>9. ASSUME NEW c \in Cards \ (shared' \cup lost')
      PROVE  /\ Ours(s2, online', c, want'[c], prefs')
             /\ c \notin due' /\ Touched(s2, c, prefs'.uids) => server'[c].v = want'[c]
  <2>1. c \in Cards \ (shared \cup lost)
    BY <1>1
  <2>2. /\ Ours(s2, FALSE, c, want[c], prefs)
        /\ Touched(s2, c, prefs.uids) => Touched(Now, c, prefs.uids)
    BY <1>7, <2>1
  <2>3. c \notin due /\ Touched(Now, c, prefs.uids) => server[c].v = want[c]
    BY <2>1 DEF OursInv
  <2>4. QED
    BY <1>1, <2>2, <2>3
<1>10. Emptied(s2, online')
  BY <1>1 DEF Emptied
<1>11. \A c \in Cards : want'[c] # Blank
  BY <1>1 DEF OursInv
<1>12. QED
  BY <1>8, <1>9, <1>10, <1>11 DEF OursInv, u, s2

LEMMA QuietOurs ==
  ASSUME NEW s, s.wire = <<>>, s.loop.at = "idle", NEW on, NEW c, NEW w, NEW pf
  PROVE  /\ Ours(s, on, c, w, pf) <=>
              /\ c \in s.toSync \cup pf.uids => s.local[c].v \in {w, Absent}
              /\ c \in s.toRemove \cup pf.hrefs => s.local[c].v = Absent /\ w = Absent
         /\ Touched(s, c, pf.uids) <=> c \in s.toSync \cup pf.uids
         /\ Emptied(s, on)
<1>1. \A X : None(s.wire, X)
  BY EmptyNone
<1>2. Overwritten(s, c, w)
  BY <1>1 DEF Overwritten
<1>3. Undisturbed(s, on, c, w)
  BY <1>1 DEF Undisturbed, NoneBehind
<1>4. Uploadable(s, on, c, w, pf.uids) <=> (c \in s.toSync \cup pf.uids => s.local[c].v \in {w, Absent})
  BY <1>1 DEF Uploadable
<1>5. Removable(s, on, c, w, pf.hrefs) <=>
        (c \in s.toRemove \cup pf.hrefs => s.local[c].v = Absent /\ w = Absent)
  BY <1>1 DEF Removable
<1>6. QED
  BY <1>1, <1>2, <1>3, <1>4, <1>5 DEF Ours, Touched, Emptied

LEMMA OursQuiet ==
  ASSUME Core, OursInv, ~online, wire = <<>>,
         UNCHANGED <<local, loop, wire, server, want, lost, shared, due>>,
         toSync' \cup prefs'.uids = toSync \cup prefs.uids,
         toRemove' \cup prefs'.hrefs = toRemove \cup prefs.hrefs
  PROVE  OursInv'
<1> DEFINE s2 == Now'
           pf == prefs'
           on == online'
<1>1. loop.at = "idle"
  BY QuietIs DEF Idle
<1>2. /\ s2.wire = <<>> /\ s2.loop.at = "idle" /\ s2.local = local
      /\ s2.toSync \cup pf.uids = toSync \cup prefs.uids
      /\ s2.toRemove \cup pf.hrefs = toRemove \cup prefs.hrefs
  BY <1>1 DEF Now
<1>3. Now.wire = <<>> /\ Now.loop.at = "idle"
  BY <1>1, NowIs
<1> HIDE DEF s2, pf, on
<1>4. ASSUME NEW c \in Cards \ (shared \cup lost)
      PROVE  /\ Ours(s2, on, c, want[c], pf)
             /\ c \notin due /\ Touched(s2, c, pf.uids) => server[c].v = want[c]
  <2> DEFINE w == want[c]
  <2>1. Ours(Now, online, c, w, prefs) /\ (c \notin due /\ Touched(Now, c, prefs.uids) => server[c].v = w)
    BY <1>4 DEF OursInv
  <2> HIDE DEF w
  <2>2. /\ c \in toSync \cup prefs.uids => local[c].v \in {w, Absent}
        /\ c \in toRemove \cup prefs.hrefs => local[c].v = Absent /\ w = Absent
        /\ Touched(Now, c, prefs.uids) <=> c \in toSync \cup prefs.uids
    BY <1>3, <2>1, NowIs, QuietOurs
  <2>3. /\ c \in s2.toSync \cup pf.uids => s2.local[c].v \in {w, Absent}
        /\ c \in s2.toRemove \cup pf.hrefs => s2.local[c].v = Absent /\ w = Absent
    BY <1>2, <2>2
  <2>4. Ours(s2, on, c, w, pf)
    BY <1>2, <2>3, QuietOurs
  <2>5. Touched(s2, c, pf.uids) <=> c \in s2.toSync \cup pf.uids
    BY <1>2, QuietOurs
  <2>6. QED
    BY <1>2, <2>1, <2>2, <2>4, <2>5 DEF w
<1>5. Emptied(s2, on)
  BY <1>2, QuietOurs
<1>6. Fifo(wire')
  BY DEF Fifo
<1>7. QED
  BY <1>4, <1>5, <1>6 DEF OursInv, s2, pf, on

LEMMA OursGoOnline ==
  ASSUME Core, OursInv, GoOnline
  PROVE  OursInv'
<1>1. /\ running /\ ~online /\ wire = <<>>
      /\ UNCHANGED <<local, toSync, toRemove, prefs, token, progress, loop, wire, server, rev,
                     changes, faults, running, lost, want, shared, due>>
  BY DEF GoOnline
<1>2. /\ toSync' \cup prefs'.uids = toSync \cup prefs.uids
      /\ toRemove' \cup prefs'.hrefs = toRemove \cup prefs.hrefs
  BY <1>1
<1>3. QED
  BY <1>1, <1>2, OursQuiet

LEMMA OursCleanUp ==
  ASSUME Core, OursInv, CleanUp
  PROVE  OursInv'
<1>1. /\ running /\ ~online /\ wire = <<>>
      /\ prefs' = [uids |-> toSync, hrefs |-> toRemove]
      /\ toSync' = {} /\ toRemove' = {}
      /\ UNCHANGED <<local, token, loop, wire, online, server, rev, changes, faults, lost,
                     want, shared, due>>
  BY DEF CleanUp
<1>2. prefs.uids = {} /\ prefs.hrefs = {}
  BY <1>1 DEF Core, LineInv
<1>3. /\ toSync' \cup prefs'.uids = toSync \cup prefs.uids
      /\ toRemove' \cup prefs'.hrefs = toRemove \cup prefs.hrefs
  BY <1>1, <1>2
<1>4. QED
  BY <1>1, <1>3, OursQuiet

LEMMA OursStartUp ==
  ASSUME Core, KeptInv, OursInv, StartUp
  PROVE  OursInv'
<1>1. /\ ~running /\ toSync' = prefs.uids /\ toRemove' = prefs.hrefs
      /\ prefs' = [uids |-> {}, hrefs |-> {}]
      /\ UNCHANGED <<local, token, progress, loop, wire, online, server, rev, changes, faults,
                     lost, want, shared, due>>
  BY DEF StartUp
<1>2. ~online /\ wire = <<>> /\ toSync = {} /\ toRemove = {}
  BY <1>1 DEF Core, LineInv, KeptInv
<1>3. /\ toSync' \cup prefs'.uids = toSync \cup prefs.uids
      /\ toRemove' \cup prefs'.hrefs = toRemove \cup prefs.hrefs
  BY <1>1, <1>2
<1>4. QED
  BY <1>1, <1>2, <1>3, OursQuiet

LEMMA OursInit ==
  ASSUME Init
  PROVE  OursInv
<1>1. /\ want = [c \in Cards |-> Absent] /\ local = [c \in Cards |-> NoCard]
      /\ toSync = {} /\ toRemove = {} /\ prefs = [uids |-> {}, hrefs |-> {}]
      /\ wire = <<Request("first", "list", {}, 0)>> /\ loop = Idle
  BY DEF Init
<1>2. DOMAIN wire = {1} /\ wire[1].kind = "list" /\ wire[1].card = {}
  BY <1>1 DEF Request
<1>3. \A c, w : /\ None(wire, Strays(c, w)) /\ None(wire, AllPuts(c)) /\ None(wire, Deletes(c))
                /\ None(wire, Transfers(c)) /\ None(wire, OldGets(c, w))
  BY <1>2 DEF None, Strays, AllPuts, Deletes, Transfers, OldGets, Gets, Writes
<1>4. \A X, Y : NoneBehind(wire, X, Y)
  BY <1>2 DEF NoneBehind
<1>5. ASSUME NEW c \in Cards, NEW w
      PROVE  Ours(Now, online, c, w, prefs) /\ ~Touched(Now, c, prefs.uids)
  <2>1. Overwritten(Now, c, w) /\ Undisturbed(Now, online, c, w)
    BY <1>1, <1>3, <1>4, NowIs DEF Overwritten, Undisturbed
  <2>2. online = TRUE
    BY DEF Init
  <2>3. Uploadable(Now, online, c, w, prefs.uids) /\ Removable(Now, online, c, w, prefs.hrefs)
    BY <1>1, <2>2, NowIs DEF Uploadable, Removable
  <2>4. QED
    BY <1>1, <1>3, <2>1, <2>3, NowIs DEF Ours, Touched
<1>6. Emptied(Now, online)
  BY <1>1, NowIs DEF Emptied
<1>7. Fifo(wire)
  BY <1>2 DEF Fifo
<1>8. \A c \in Cards : want[c] # Blank
  BY <1>1, CardDavAssumption DEF Absent, Blank
<1>9. QED
  BY <1>5, <1>6, <1>7, <1>8 DEF OursInv

LEMMA OursNext ==
  ASSUME Core, KeptInv, OursInv, [Next]_vars,
         {"early", "many", "overwrite", "blank"} \cap Cases = {}
  PROVE  OursInv'
<1>1. ASSUME NEW i \in Waiting, Serve(i) \/ Refuse(i) PROVE OursInv'
  BY <1>1, OursServe, OursRefuse
<1>2. ASSUME UNCHANGED vars PROVE OursInv'
  <2>1. Now' = Now
    BY <1>2 DEF vars, Now
  <2>2. QED
    BY <1>2, <2>1 DEF vars, OursInv
<1>3. QED
  BY <1>1, <1>2, OursNextResponse, OursSyncWithServer, OursUserSave, OursOtherClient,
     OursUserDelete, OursGoOffline, OursGoOnline, OursCleanUp, OursStartUp DEF Next

\* A write that the user does not want any more has been served: the user's next one is
\* still on the wire.
LEMMA LateKept ==
  ASSUME Core, OursInv, NEW i \in Waiting, NEW x, wire' = [wire EXCEPT ![i] = x],
         UNCHANGED <<local, toSync, toRemove, token, progress, loop>>,
         NEW c \in Cards \ (shared \cup lost), wire[i] \in Strays(c, want[c])
  PROVE  Kept(Now', TRUE, c, want[c], prefs)
<1> DEFINE w == want[c]
           u == wire'
           s2 == Now'
<1>1. i \in DOMAIN wire /\ wire \in Seq(GoodReqs(rev)) /\ wire[i].st = "sent"
  BY WaitingIs DEF Waiting, RestType
<1>2. DOMAIN u = DOMAIN wire /\ \A j \in DOMAIN wire : j # i => u[j] = wire[j]
  BY <1>1
<1>3. \A j \in DOMAIN wire : wire[j] \in Reqs
  BY <1>1, GoodSeq
<1>4. s2.wire = u
  BY DEF Now
<1>5. Overwritten(Now, c, w) /\ Fifo(wire)
  BY DEF OursInv, Ours
<1>6. wire[i] \in Strays(c, w) /\ DOMAIN wire \in SUBSET Nat
  BY <1>1
<1> HIDE DEF w, u, s2
<1>7. PICK j \in DOMAIN wire : wire[j] \in Wishes(c, w) /\ \A k \in DOMAIN wire : k > j => wire[k] \notin Strays(c, w)
  BY <1>1, <1>5, <1>6, NowIs DEF Overwritten, None, Last
<1>8. wire[j] \notin Strays(c, w)
  BY <1>3, <1>7, WriteSets
<1>9. i < j
  BY <1>1, <1>6, <1>7, <1>8
<1>10. wire[j].st = "sent" /\ u[j] = wire[j]
  BY <1>1, <1>2, <1>5, <1>6, <1>9 DEF Fifo
<1>11. CASE w # Absent
  <2>1. wire[j] \in UserPuts(c, w)
    BY <1>3, <1>7, <1>10, <1>11, RequestSets, WriteSets DEF Written
  <2>2. \A k \in DOMAIN wire : wire[k] \in UserDeletes(c) => wire[k] \in Strays(c, w)
    <3>1. Absent \notin {w, Blank}
      BY <1>11, CardDavAssumption DEF Absent, Blank
    <3>2. QED
      BY <1>3, <3>1, RequestSets, WriteSets DEF Written
  <2>3. \A k \in DOMAIN u : k > j => u[k] \notin UserDeletes(c)
    BY <1>2, <1>6, <1>7, <1>9, <2>2
  <2>4. Last(u, UserPuts(c, w), UserDeletes(c))
    BY <1>2, <1>10, <2>1, <2>3 DEF Last
  <2>5. QED
    BY <1>4, <1>11, <2>4 DEF Kept, SavedOnline, w, s2
<1>12. CASE w = Absent
  <2>1. wire[j] \in SentDeletes(c, "user")
    BY <1>3, <1>7, <1>10, <1>12, RequestSets, WriteSets
  <2>2. ~None(u, SentDeletes(c, "user"))
    BY <1>2, <1>10, <2>1 DEF None
  <2>3. QED
    BY <1>4, <1>12, <2>2 DEF Kept, GoneOnline, w, s2
<1>13. QED
  BY <1>11, <1>12

-----------------------------------------------------------------------------
(* What the user has changed: every other step.                            *)

\* Request i is answered: with that changes are made, or are due again.
LEMMA KeptAnswered ==
  ASSUME Core, KeptInv, NEW i \in Waiting, NEW x \in Reqs, wire' = [wire EXCEPT ![i] = x],
         x.by = wire[i].by, x.kind = wire[i].kind, x.card = wire[i].card, x.arg = wire[i].arg,
         UNCHANGED <<local, toSync, toRemove, token, progress, loop, prefs, running, online, want, shared>>,
         \A c \in due' :
           \/ c \notin shared /\ Kept(Now', TRUE, c, want[c], prefs)
           \/ /\ c \in due
              /\ wire[i] \notin UserPuts(c, want[c])
              /\ wire[i] \in SyncPuts(c, want[c]) => x.st = "refused"
              /\ want[c] = Absent =>
                   wire[i] \notin SentDeletes(c, "user") /\ wire[i] \notin SentDeletes(c, "sync")
  PROVE  KeptInv'
<1> DEFINE u == wire'
           s2 == Now'
<1>1. i \in DOMAIN wire /\ wire \in Seq(GoodReqs(rev)) /\ running /\ online = TRUE /\ wire[i] \in Reqs
  BY WaitingIs DEF GoodReqs, RestType
<1>2. DOMAIN u = DOMAIN wire /\ u[i] = x /\ \A j \in DOMAIN wire : j # i => u[j] = wire[j]
  BY <1>1
<1>3. \A j \in DOMAIN wire : wire[j] \in Reqs
  BY <1>1, GoodSeq
<1>4. /\ s2.wire = u /\ s2.local = Now.local /\ s2.toSync = Now.toSync /\ s2.toRemove = Now.toRemove
      /\ s2.loop = Now.loop
  BY DEF Now
<1> HIDE DEF u, s2
<1>5. Alike(wire, u)
  BY <1>2 DEF Alike
<1>6. ASSUME NEW c \in due' PROVE c \notin shared /\ Kept(s2, online, c, want[c], prefs)
  <2> DEFINE v == want[c]
  <2> SUFFICES ASSUME ~(c \notin shared /\ Kept(Now', TRUE, c, want[c], prefs))
               PROVE  c \notin shared /\ Kept(s2, online, c, v, prefs)
    BY <1>1 DEF s2
  <2>1. c \in due /\ c \notin shared /\ Kept(Now, TRUE, c, v, prefs)
    BY <1>1, <1>6 DEF KeptInv
  <2>2. /\ wire[i] \notin UserPuts(c, v)
        /\ wire[i] \in SyncPuts(c, v) => x.st = "refused"
        /\ v = Absent => wire[i] \notin SentDeletes(c, "user") /\ wire[i] \notin SentDeletes(c, "sync")
    BY <1>6
  <2> HIDE DEF v
  <2>3. wire[i] \in SyncPuts(c, v) => x \in SyncPuts(c, v)
    BY <1>1, <2>2, RequestSets
  <2>4. Kept(s2, TRUE, c, v, prefs)
    BY <1>1, <1>2, <1>3, <1>4, <1>5, <2>1, <2>2, <2>3, NowIs, AnsweredKept
  <2>5. QED
    BY <1>1, <2>1, <2>4 DEF v
<1>7. Single(u)
  BY <1>5, SingleAlike DEF KeptInv
<1>8. QED
  BY <1>1, <1>6, <1>7 DEF KeptInv, s2, u

LEMMA KeptServe ==
  ASSUME Core, KeptInv, OursInv, NEW i \in Waiting, Serve(i), "blank" \notin Cases
  PROVE  KeptInv'
<1> DEFINE r == wire[i]
           v == IF r.kind = "put" THEN r.arg ELSE Absent
<1>1. i \in DOMAIN wire /\ r \in GoodReqs(rev) /\ r \in Reqs /\ rev \in Nat /\ RestType
  BY WaitingIs DEF GoodReqs
<1>2. UNCHANGED <<local, toSync, toRemove, prefs, token, progress, loop, online,
                  changes, faults, running, lost, want, shared>>
  BY DEF Serve
<1>3. \A c, y : /\ r \in UserPuts(c, y) => r.kind = "put" /\ r.card = c /\ r.arg = y
                /\ r \in SyncPuts(c, y) => r.kind = "put" /\ r.card = c /\ r.arg = y
                /\ \A by : r \in SentDeletes(c, by) => r.kind = "delete" /\ r.card = c
  BY <1>1 DEF Puts, UserPuts, SyncPuts, Deletes, SentDeletes
<1>4. CASE r.kind \in {"put", "delete"} /\ v = Blank
  <2> DEFINE x == [r EXCEPT !.st = "refused"]
  <2>1. wire' = [wire EXCEPT ![i].st = "refused"] /\ due' = due
    BY <1>4 DEF Serve
  <2>2. wire' = [wire EXCEPT ![i] = x]
    BY <1>1, <2>1
  <2>3. /\ x \in GoodReqs(rev) /\ x.by = r.by /\ x.kind = r.kind /\ x.card = r.card /\ x.arg = r.arg
        /\ x.st = "refused"
    BY <1>1, <1>4, RequestStatus
  <2>4. x \in Reqs
    BY <2>3 DEF GoodReqs
  <2> HIDE DEF x
  <2>5. r.kind = "put" /\ r.arg = Blank /\ due \in SUBSET Cards
    BY <1>1, <1>4, CardDavAssumption DEF Absent, Blank, RestType
  <2>6. \A c \in due' :
           /\ r \notin UserPuts(c, want[c])
           /\ r \notin SentDeletes(c, "user") /\ r \notin SentDeletes(c, "sync")
    BY <1>3, <2>1, <2>5 DEF OursInv
  <2>7. QED
    BY <1>2, <2>1, <2>2, <2>3, <2>4, <2>6, KeptAnswered
<1>5. CASE r.kind \in {"put", "delete"} /\ v # Blank
  <2> DEFINE x == [r EXCEPT !.st = "ok"]
  <2>1. wire' = [wire EXCEPT ![i].st = "ok"] /\ due' = NowDue(r.card, v)
    BY <1>5 DEF Serve
  <2>2. wire' = [wire EXCEPT ![i] = x]
    BY <1>1, <2>1
  <2>3. x \in GoodReqs(rev) /\ x.by = r.by /\ x.kind = r.kind /\ x.card = r.card /\ x.arg = r.arg
    BY <1>1, <1>5, RequestStatus
  <2>4. x \in Reqs
    BY <2>3 DEF GoodReqs
  <2> HIDE DEF x
  <2>5. \A c \in due' :
           /\ r \notin UserPuts(c, want[c]) /\ r \notin SyncPuts(c, want[c])
           /\ want[c] = Absent => r \notin SentDeletes(c, "user") /\ r \notin SentDeletes(c, "sync")
    BY <1>3, <2>1 DEF NowDue
  <2>6. ASSUME NEW c \in due', c \notin due
        PROVE  c \notin shared /\ Kept(Now', TRUE, c, want[c], prefs)
    <3>1. c = r.card /\ c \notin shared \cup lost /\ v # want[c]
      BY <2>1, <2>6 DEF NowDue
    <3>2. c \in Cards
      BY <1>1, <1>5, <3>1 DEF GoodReqs, RequestOK, CardKinds
    <3>3. r \in Strays(c, want[c])
      BY <1>1, <1>5, <3>1, WriteSets DEF Written
    <3>4. Kept(Now', TRUE, c, want[c], prefs)
      BY <1>2, <2>2, <3>1, <3>2, <3>3, LateKept
    <3>5. QED
      BY <3>1, <3>4
  <2>7. QED
    BY <1>2, <2>2, <2>3, <2>4, <2>5, <2>6, KeptAnswered
<1>6. CASE r.kind \notin {"put", "delete"}
  <2>1. PICK a \in Answer(r) : wire' = [wire EXCEPT ![i].st = "ok", ![i].ans = a]
    BY <1>6 DEF Serve
  <2> DEFINE x == [r EXCEPT !.st = "ok", !.ans = a]
  <2>2. wire' = [wire EXCEPT ![i] = x]
    BY <1>1, <2>1
  <2>3. a \in Answers
    BY <1>1, <1>6, AnswerIs
  <2>4. x \in Reqs /\ x.by = r.by /\ x.kind = r.kind /\ x.card = r.card /\ x.arg = r.arg
    <3> HIDE DEF r
    <3>1. QED
      BY <1>1, <2>3 DEF Reqs
  <2> HIDE DEF x
  <2>5. due' = due
    BY <1>6 DEF Serve
  <2>6. \A c \in due' :
           /\ r \notin UserPuts(c, want[c]) /\ r \notin SyncPuts(c, want[c])
           /\ want[c] = Absent => r \notin SentDeletes(c, "user") /\ r \notin SentDeletes(c, "sync")
    BY <1>3, <1>6
  <2>7. QED
    BY <1>2, <2>2, <2>4, <2>5, <2>6, KeptAnswered
<1>7. QED
  BY <1>4, <1>5, <1>6

LEMMA KeptRefuse ==
  ASSUME Core, KeptInv, NEW i \in Waiting, Refuse(i)
  PROVE  KeptInv'
<1> DEFINE r == wire[i]
           over == IF r.kind = "delete" \/ (r.kind = "put" /\ r.by = "user") THEN {r.card} ELSE {}
           x == [r EXCEPT !.st = "refused"]
<1>1. i \in DOMAIN wire /\ r \in GoodReqs(rev) /\ r \in Reqs /\ rev \in Nat /\ RestType
  BY WaitingIs DEF GoodReqs
<1>2. /\ r.kind \in {"put", "delete", "report"} /\ wire' = [wire EXCEPT ![i].st = "refused"]
      /\ due' = due \ over
      /\ UNCHANGED <<local, toSync, toRemove, prefs, token, progress, loop, online,
                     server, rev, changes, running, want, shared>>
  BY DEF Refuse
<1>3. wire' = [wire EXCEPT ![i] = x]
  BY <1>1, <1>2
<1>4. /\ x \in GoodReqs(rev) /\ x.by = r.by /\ x.kind = r.kind /\ x.card = r.card /\ x.arg = r.arg
      /\ x.st = "refused"
  BY <1>1, <1>2, RequestStatus
<1>5. x \in Reqs
  BY <1>4 DEF GoodReqs
<1> HIDE DEF x
<1>6. \A c, y : /\ r \in UserPuts(c, y) => r.kind = "put" /\ r.card = c /\ r.by = "user"
                /\ \A by : r \in SentDeletes(c, by) => r.kind = "delete" /\ r.card = c
  BY <1>1, RequestSets
<1>7. \A c \in due' : /\ r \notin UserPuts(c, want[c])
                      /\ r \notin SentDeletes(c, "user") /\ r \notin SentDeletes(c, "sync")
  BY <1>2, <1>6
<1>8. due' \subseteq due
  BY <1>2
<1>9. QED
  BY <1>2, <1>3, <1>4, <1>5, <1>7, <1>8, KeptAnswered

LEMMA KeptOtherClient ==
  ASSUME KeptInv, NEW c \in Cards, NEW v \in 0..MaxChanges, OtherClient(c, v)
  PROVE  KeptInv'
<1>1. /\ shared' = shared \cup {c} /\ due' = due \ {c}
      /\ UNCHANGED <<local, toSync, toRemove, prefs, token, progress, loop, wire, online,
                     faults, running, lost, want>>
  BY DEF OtherClient
<1>2. Now' = Now
  BY <1>1 DEF Now
<1>3. QED
  BY <1>1, <1>2 DEF KeptInv

\* The user changes another card.
LEMMA AddedKept ==
  ASSUME NEW s, NEW s2, s.wire \in Seq(GoodReqs(rev)), NEW q \in GoodReqs(rev), s2.wire = Append(s.wire, q),
         q.by = "user", NEW d, q.card # d, s2.local[d] = s.local[d], s2.toSync = s.toSync,
         s2.toRemove = s.toRemove, s2.loop = s.loop,
         NEW on, NEW v, NEW pf, Kept(s, on, d, v, pf)
  PROVE  Kept(s2, on, d, v, pf)
<1>1. q \in Reqs
  BY DEF GoodReqs
<1>2. /\ q \notin UserDeletes(d) /\ q \notin Transfers(d) /\ q \notin ByFirst /\ q \notin SyncPuts(d, v)
  BY <1>1 DEF UserDeletes, Deletes, Transfers, ByFirst, SyncPuts, Puts
<1>3. q \notin Transfers(d) \ SyncPuts(d, v)
  BY <1>2
<1>4. \A X : None(s2.wire, X) => None(s.wire, X)
  BY NoneAppend
<1>5. \A X : q \notin X /\ None(s.wire, X) => None(s2.wire, X)
  BY NoneAppend
<1>6. \A X : Last(s.wire, X, UserDeletes(d)) => Last(s2.wire, X, UserDeletes(d))
  BY <1>2, LastAppend
<1>7. Noted(s, d, v) => Noted(s2, d, v)
  BY <1>2, <1>3, <1>4, <1>5 DEF Noted
<1>8. Listed(s, d) => Listed(s2, d)
  BY <1>4 DEF Listed
<1>9. SavedOnline(s, d, v) => SavedOnline(s2, d, v)
  BY <1>6, <1>7 DEF SavedOnline
<1>10. SavedOffline(s, d, v, pf.uids) => SavedOffline(s2, d, v, pf.uids)
  BY <1>2, <1>5, <1>6 DEF SavedOffline
<1>11. GoneOnline(s, d) => GoneOnline(s2, d)
  BY <1>4, <1>8 DEF GoneOnline
<1>12. GoneOffline(s, d, pf.hrefs) => GoneOffline(s2, d, pf.hrefs)
  BY <1>4 DEF GoneOffline
<1>13. QED
  BY <1>9, <1>10, <1>11, <1>12 DEF Kept

LEMMA KeptUserSave ==
  ASSUME Core, KeptInv, NEW c \in Cards, UserSave(c)
  PROVE  KeptInv'
<1> DEFINE n == changes + 1
<1>1. PICK s2 : /\ Become(s2) /\ UserStep(Saving(c), s2)
                /\ \E q : /\ Adds(Saving(c), s2, q) /\ q.by = "user" /\ q.kind = "put" /\ q.card = c
                          /\ q.arg = n
  BY UserSaveIs
<1>2. PICK q : Adds(Saving(c), s2, q) /\ q.by = "user" /\ q.kind = "put" /\ q.card = c /\ q.arg = n
  BY <1>1
<1>3. /\ changes < MaxChanges /\ running /\ rev \in Nat
      /\ want' = [want EXCEPT ![c] = n]
      /\ due' = due \cup ({c} \ shared)
      /\ UNCHANGED <<prefs, online, server, rev, faults, running, lost, shared>>
  BY UserSaveIs
<1>4. /\ Saving(c).wire = wire /\ Saving(c).loop = loop
      /\ Saving(c).toSync = toSync /\ Saving(c).toRemove = toRemove
      /\ Saving(c).local[c].v = n
      /\ \A d \in Cards : d # c => Saving(c).local[d] = local[d]
      /\ n # Absent
  BY <1>3, SavingIs
<1>5. Now \in States(rev) /\ RestType
  BY TypeParts DEF Core
<1>6. wire \in Seq(GoodReqs(rev)) /\ due \in SUBSET Cards /\ want \in [Cards -> Values]
  BY <1>5, NowIs DEF States, RestType
<1>7. s2 \in States(rev) /\ Now' = s2 /\ wire' = s2.wire
  BY <1>1, BecomeIs DEF UserStep, Become
<1> HIDE DEF n
<1>8. /\ s2.wire = Append(wire, q) /\ q \in GoodReqs(rev) /\ Fresh(q)
      /\ s2.toSync = toSync /\ s2.toRemove = toRemove /\ s2.loop = loop
      /\ s2.local[c].v = n /\ \A d \in Cards : d # c => s2.local[d] = local[d]
  BY <1>2, <1>4 DEF Adds
<1>9. ASSUME NEW d \in due, d # c PROVE d \notin shared /\ Kept(s2, online, d, want[d], prefs)
  <2> DEFINE v == want[d]
  <2>1. d \in Cards /\ d \notin shared /\ Kept(Now, online, d, v, prefs)
    BY <1>6, <1>9 DEF KeptInv
  <2> HIDE DEF v
  <2>2. s2.local[d] = Now.local[d] /\ q.card # d
    BY <1>2, <1>8, <1>9, <2>1, NowIs
  <2>3. Kept(s2, online, d, v, prefs)
    BY <1>2, <1>6, <1>8, <2>1, <2>2, NowIs, AddedKept
  <2>4. QED
    BY <2>1, <2>3 DEF v
<1>10. Kept(s2, online, c, n, prefs)
  <2>1. q \in Reqs /\ (online => q.st = "sent")
    BY <1>8, FreshSent DEF GoodReqs
  <2>2. q \in Puts(c, n) /\ (online => q \in UserPuts(c, n))
    BY <1>2, <2>1, RequestSets
  <2>3. online => Last(s2.wire, UserPuts(c, n), UserDeletes(c))
    BY <1>6, <1>8, <2>2, LastAppend
  <2>4. Last(s2.wire, Puts(c, n), UserDeletes(c))
    BY <1>6, <1>8, <2>2, LastAppend
  <2>5. QED
    BY <1>4, <1>8, <2>3, <2>4 DEF Kept, SavedOnline, SavedOffline
<1>11. ASSUME NEW d \in due' PROVE d \notin shared /\ Kept(s2, online, d, want'[d], prefs)
  <2>1. CASE d = c
    <3>1. d \notin shared /\ want'[d] = n
      BY <1>3, <1>6, <1>11, <2>1 DEF KeptInv
    <3>2. QED
      BY <1>10, <2>1, <3>1
  <2>2. CASE d # c
    <3>1. d \in due /\ want'[d] = want[d]
      BY <1>3, <1>6, <1>11, <2>2
    <3>2. QED
      BY <1>9, <2>2, <3>1
  <2>3. QED
    BY <2>1, <2>2
<1>12. Single(s2.wire)
  <2>1. Single(wire) /\ q.kind # "delete"
    BY <1>2 DEF KeptInv
  <2>2. QED
    BY <1>6, <1>8, <2>1, SingleAppend
<1>13. QED
  BY <1>3, <1>7, <1>11, <1>12 DEF KeptInv

LEMMA KeptUserDelete ==
  ASSUME Core, KeptInv, NEW cs \in SUBSET Cards, UserDelete(cs), "early" \notin Cases, "many" \notin Cases
  PROVE  KeptInv'
<1> DEFINE s == Drop(Now, cs)
<1>0. PICK c \in Cards : \E s2, q :
        /\ cs = {c} /\ Become(s2) /\ UserStep(s, s2)
        /\ Adds(s, s2, q) /\ q.by = "user" /\ q.kind = "delete" /\ q.card = c /\ q.arg = <<{c}, {}>>
  BY DeletesOne
<1>1. PICK s2, q :
        /\ cs = {c} /\ Become(s2) /\ UserStep(s, s2)
        /\ Adds(s, s2, q) /\ q.by = "user" /\ q.kind = "delete" /\ q.card = c /\ q.arg = <<{c}, {}>>
  BY <1>0
<1>2. /\ Like(Now, s) /\ Task(s) /\ running /\ rev \in Nat
      /\ \A d \in Cards : d \notin cs => s.local[d] = local[d]
      /\ due' = due \cup (cs \ shared)
      /\ want' = [d \in Cards |-> IF d \in cs THEN Absent ELSE want[d]]
      /\ UNCHANGED <<prefs, online, server, rev, faults, running, lost, shared>>
  BY UserDeleteIs
<1>3. Now \in States(rev) /\ RestType
  BY TypeParts DEF Core
<1>4. wire \in Seq(GoodReqs(rev)) /\ due \in SUBSET Cards /\ want \in [Cards -> Values] /\ c \in Cards
  BY <1>3, NowIs DEF States, RestType
<1>5. s2 \in States(rev) /\ Now' = s2 /\ wire' = s2.wire
  BY <1>1, BecomeIs DEF UserStep, Become
<1> HIDE DEF s
<1>6. /\ s2.wire = Append(wire, q) /\ q \in GoodReqs(rev) /\ Fresh(q)
      /\ s2.toSync = toSync /\ s2.toRemove = toRemove /\ s2.loop = loop
      /\ \A d \in Cards : d # c => s2.local[d] = local[d]
  BY <1>2, <1>1, NowIs DEF Adds, Like
<1>7. ASSUME NEW d \in due, d # c PROVE d \notin shared /\ Kept(s2, online, d, want[d], prefs)
  <2> DEFINE v == want[d]
  <2>1. d \in Cards /\ d \notin shared /\ Kept(Now, online, d, v, prefs)
    BY <1>4, <1>7 DEF KeptInv
  <2> HIDE DEF v
  <2>2. s2.local[d] = Now.local[d] /\ q.card # d
    BY <1>1, <1>6, <1>7, <2>1, NowIs
  <2>3. Kept(s2, online, d, v, prefs)
    BY <1>4, <1>1, <1>6, <2>1, <2>2, NowIs, AddedKept
  <2>4. QED
    BY <2>1, <2>3 DEF v
<1>8. Kept(s2, online, c, Absent, prefs)
  <2>1. q \in Reqs /\ (online => q.st = "sent")
    BY <1>6, FreshSent DEF GoodReqs
  <2>2. q \in Deletes(c) /\ (online => q \in SentDeletes(c, "user"))
    BY <1>1, <2>1, RequestSets
  <2>3. /\ online => ~None(s2.wire, SentDeletes(c, "user"))
        /\ ~None(s2.wire, Deletes(c))
    BY <1>4, <1>6, <2>2, NoneAppend
  <2>4. QED
    BY <2>3 DEF Kept, GoneOnline, GoneOffline
<1>9. ASSUME NEW d \in due' PROVE d \notin shared /\ Kept(s2, online, d, want'[d], prefs)
  <2>1. CASE d = c
    <3>1. d \notin shared /\ want'[d] = Absent
      BY <1>2, <1>1, <1>4, <1>9, <2>1 DEF KeptInv
    <3>2. QED
      BY <1>8, <2>1, <3>1
  <2>2. CASE d # c
    <3>1. d \in due /\ want'[d] = want[d]
      BY <1>2, <1>1, <1>4, <1>9, <2>2
    <3>2. QED
      BY <1>7, <2>2, <3>1
  <2>3. QED
    BY <2>1, <2>2
<1>10. Single(s2.wire)
  <2>1. Single(wire) /\ q.arg[1] = {q.card} /\ q.arg[2] = {}
    BY <1>1 DEF KeptInv
  <2>2. QED
    BY <1>4, <1>6, <2>1, SingleAppend
<1>11. QED
  BY <1>2, <1>5, <1>9, <1>10 DEF KeptInv

\* What the beginning of syncWithServer leaves alone, online or not.
LEMMA SyncBegins ==
  ASSUME rev \in Nat, NEW s, Ready(s), s.progress, s.loop.at = "remove", s.loop.seen = {},
         NEW s2 \in SyncRemove(s)
  PROVE  /\ s2.local = s.local
         /\ \A c : c \in s.toSync /\ s.local[c].v # Absent => c \in s2.toSync
         /\ \A c : c \in s.toRemove => c \in s2.toRemove
<1>1. CASE \E d \in s.toRemove \ s.loop.seen : Visits(s, s2, d, "delete", {})
  BY <1>1 DEF Visits
<1>2. CASE s.toRemove \ s.loop.seen = {} /\ s2 \in SyncUpload(Uploading(s))
  <2> DEFINE s1 == Uploading(s)
  <2>1. /\ Ready(s1) /\ s1.progress /\ s1.local = s.local /\ s1.toSync = s.toSync
        /\ s1.loop.at = "upload" /\ s1.loop.seen = {}
    BY UploadingIs
  <2> HIDE DEF s1
  <2>2. s2 \in SyncUpload(s1)
    BY <1>2 DEF s1
  <2>3. s.toRemove = {}
    BY <1>2
  <2>4. CASE \E d \in s1.toSync \ s1.loop.seen : Visits(s1, s2, d, "put", Content(s1, d))
    BY <2>1, <2>3, <2>4 DEF Visits
  <2>5. CASE s1.toSync \ s1.loop.seen = {} /\ s2 = SyncUpdate(s1)
    <3>1. s2.local = s1.local
      BY <2>1, <2>5, SyncUpdateIs
    <3>2. QED
      BY <2>1, <2>3, <2>5, <3>1
  <2>6. QED
    BY <2>1, <2>2, <2>4, <2>5, SyncUploadIs
<1>3. QED
  BY <1>1, <1>2, SyncRemoveIs

LEMMA KeptSyncWithServer ==
  ASSUME Core, KeptInv, SyncWithServer
  PROVE  KeptInv'
<1> DEFINE s == Syncing
<1>1. /\ Ready(s) /\ s.progress /\ s.loop.at = "remove" /\ s.loop.seen = {}
      /\ s.local = local /\ s.toSync = toSync /\ s.toRemove = toRemove
      /\ s.wire = wire /\ running /\ rev \in Nat /\ loop = Idle
      /\ UNCHANGED <<prefs, online, server, rev, changes, faults, running, lost, want, shared, due>>
  BY SyncWithServerIs
<1>2. PICK s2 \in SyncRemove(s) : Become(s2) /\ Result(s2) /\ SyncGrows(s, s2)
  BY SyncWithServerIs
<1> HIDE DEF s
<1>3. PICK q \in GoodReqs(rev) : q.by = "sync" /\ s2.wire = Append(wire, q)
  BY <1>1, <1>2 DEF SyncGrows
<1>4. wire \in Seq(GoodReqs(rev)) /\ q \in Reqs /\ due \in SUBSET Cards /\ online \in BOOLEAN
  BY <1>1, <1>3 DEF Ready, States, GoodReqs, Core, TypeInv
<1>5. Now' = s2 /\ wire' = s2.wire
  BY <1>2, BecomeIs DEF Result, Become
<1>6. prefs.uids = {} /\ prefs.hrefs = {}
  BY <1>1 DEF Core, LineInv
<1>7. ASSUME NEW c \in due PROVE c \notin shared /\ Kept(s2, online, c, want[c], prefs)
  <2> DEFINE v == want[c]
  <2>1. c \notin shared /\ Kept(Now, online, c, v, prefs)
    BY <1>7 DEF KeptInv
  <2> HIDE DEF v
  <2>2. q \notin UserDeletes(c)
    BY <1>3, <1>4 DEF UserDeletes, Deletes
  <2>3. /\ \A X : None(s2.wire, X) => None(wire, X)
        /\ None(wire, UserDeletes(c)) => None(s2.wire, UserDeletes(c))
    BY <1>3, <1>4, <2>2, NoneAppend
  <2>4. \A X : Last(wire, X, UserDeletes(c)) => Last(s2.wire, X, UserDeletes(c))
    BY <1>3, <1>4, <2>2, LastAppend
  <2>5. /\ s2.local = local /\ (c \in toSync /\ local[c].v # Absent => c \in s2.toSync)
        /\ c \in toRemove => c \in s2.toRemove
    BY <1>1, <1>2, SyncBegins
  <2>6. CASE online
    <3>1. ASSUME v # Absent, Noted(Now, c, v) PROVE Noted(s2, c, v)
      <4>1. /\ c \in toSync /\ local[c].v = v /\ None(wire, UserDeletes(c))
            /\ None(wire, Transfers(c) \ SyncPuts(c, v))
        BY <3>1, NowIs DEF Noted
      <4>2. None(wire, SyncPuts(c, v))
        BY <1>1, ReadyNone
      <4>3. Pending(s, c, v)
        BY <1>1, <4>1, <4>2 DEF Pending, None
      <4>4. QED
        BY <1>1, <1>2, <2>6, <3>1, <4>3, RemoveNoted
    <3>2. ASSUME Listed(Now, c) PROVE Listed(s2, c)
      <4>1. c \in s.toRemove /\ c \notin s.loop.seen
        BY <1>1, <3>2, NowIs DEF Listed
      <4>2. QED
        BY <1>1, <1>2, <2>6, <4>1, RemoveListed
    <3>3. v # Absent => SavedOnline(s2, c, v)
      BY <2>1, <2>4, <2>6, <3>1, NowIs DEF Kept, SavedOnline
    <3>4. v = Absent => GoneOnline(s2, c)
      BY <2>1, <2>3, <2>6, <3>2, NowIs DEF Kept, GoneOnline
    <3>5. QED
      BY <2>1, <2>6, <3>3, <3>4 DEF Kept, v
  <2>7. CASE ~online
    <3>1. v # Absent => SavedOffline(s2, c, v, prefs.uids)
      BY <1>6, <2>1, <2>3, <2>4, <2>5, <2>7, NowIs DEF Kept, SavedOffline
    <3>2. v = Absent => GoneOffline(s2, c, prefs.hrefs)
      BY <1>6, <2>1, <2>3, <2>5, <2>7, NowIs DEF Kept, GoneOffline
    <3>3. QED
      BY <2>1, <2>7, <3>1, <3>2 DEF Kept, v
  <2>8. QED
    BY <2>6, <2>7
<1>8. Single(s2.wire)
  <2>1. Single(wire) /\ q.by # "user"
    BY <1>3 DEF KeptInv
  <2>2. QED
    BY <1>3, <1>4, <2>1, SingleAppend
<1>9. QED
  BY <1>1, <1>5, <1>7, <1>8 DEF KeptInv

LEMMA KeptGoOffline ==
  ASSUME Core, KeptInv, GoOffline, "overwrite" \notin Cases
  PROVE  KeptInv'
<1> DEFINE u == wire'
           s2 == Now'
<1>1. /\ wire \in Seq(GoodReqs(rev)) /\ u \in Seq(GoodReqs(rev)) /\ Alike(wire, u)
      /\ online /\ online' = FALSE /\ running
      /\ UNCHANGED <<local, toSync, toRemove, prefs, token, progress, loop, server, rev,
                     changes, running, lost, want, shared, due>>
  BY GoOfflineIs
<1>2. \A i \in DOMAIN wire : wire[i].kind = "put" => local[wire[i].card].v = wire[i].arg
  BY DEF GoOffline
<1>3. /\ s2.wire = u /\ s2.local = local /\ s2.toSync = toSync /\ s2.toRemove = toRemove
  BY <1>1 DEF Now
<1> HIDE DEF u, s2
<1>4. DOMAIN u = DOMAIN wire /\ \A i \in DOMAIN wire : /\ u[i].by = wire[i].by /\ u[i].kind = wire[i].kind
                                                       /\ u[i].card = wire[i].card /\ u[i].arg = wire[i].arg
  BY <1>1 DEF Alike
<1>5. \A i \in DOMAIN wire : wire[i] \in Reqs /\ u[i] \in Reqs
  BY <1>1, <1>4, GoodSeq
<1>6. ASSUME NEW c \in due PROVE c \notin shared /\ Kept(s2, FALSE, c, want[c], prefs)
  <2> DEFINE v == want[c]
  <2>1. c \notin shared /\ Kept(Now, online, c, v, prefs)
    BY <1>6 DEF KeptInv
  <2> HIDE DEF v
  <2>2. \A i \in DOMAIN wire :
          /\ u[i] \in UserDeletes(c) <=> wire[i] \in UserDeletes(c)
          /\ wire[i] \in UserPuts(c, v) => u[i] \in Puts(c, v) /\ wire[i].kind = "put" /\ wire[i].card = c /\ wire[i].arg = v
          /\ wire[i] \in SentDeletes(c, "user") => u[i] \in Deletes(c)
    BY <1>4, <1>5 DEF UserDeletes, Deletes, SentDeletes, UserPuts, Puts
  <2>3. None(wire, UserDeletes(c)) => None(u, UserDeletes(c))
    BY <1>4, <2>2 DEF None
  <2>4. ASSUME Last(wire, UserPuts(c, v), UserDeletes(c))
        PROVE  local[c].v = v /\ Last(u, Puts(c, v), UserDeletes(c))
    <3>1. PICK i \in DOMAIN wire : /\ wire[i] \in UserPuts(c, v)
                                   /\ \A j \in DOMAIN wire : j > i => wire[j] \notin UserDeletes(c)
      BY <2>4 DEF Last
    <3>2. local[c].v = v
      BY <1>2, <2>2, <3>1
    <3>3. i \in DOMAIN u /\ u[i] \in Puts(c, v) /\ \A j \in DOMAIN u : j > i => u[j] \notin UserDeletes(c)
      BY <1>4, <2>2, <3>1
    <3>4. QED
      BY <3>2, <3>3 DEF Last
  <2>5. ~None(wire, SentDeletes(c, "user")) => ~None(u, Deletes(c))
    BY <1>4, <2>2 DEF None
  <2>6. v # Absent => SavedOffline(s2, c, v, prefs.uids)
    <3> HAVE v # Absent
    <3>1. Last(wire, UserPuts(c, v), UserDeletes(c)) \/ Noted(Now, c, v)
      BY <1>1, <2>1, NowIs DEF Kept, SavedOnline
    <3>2. QED
      BY <1>3, <2>3, <2>4, <3>1, NowIs DEF Noted, SavedOffline
  <2>7. v = Absent => GoneOffline(s2, c, prefs.hrefs)
    <3> HAVE v = Absent
    <3>1. ~None(wire, SentDeletes(c, "user")) \/ Listed(Now, c)
      BY <1>1, <2>1, NowIs DEF Kept, GoneOnline
    <3>2. QED
      BY <1>3, <2>5, <3>1, NowIs DEF Listed, GoneOffline
  <2>8. QED
    BY <2>1, <2>6, <2>7 DEF Kept, v
<1>7. Single(u)
  BY <1>1, SingleAlike DEF KeptInv
<1>8. QED
  BY <1>1, <1>6, <1>7 DEF KeptInv, s2, u

\* With nothing on the wire, a change is kept exactly if it is noted.
LEMMA QuietKept ==
  ASSUME NEW s, s.wire = <<>>, s.loop.at = "idle", NEW c, NEW v, NEW pf
  PROVE  /\ Kept(s, FALSE, c, v, pf) <=>
              /\ v # Absent => c \in s.toSync \cup pf.uids /\ s.local[c].v = v
              /\ v = Absent => c \in s.toRemove \cup pf.hrefs
         /\ Kept(s, TRUE, c, v, pf) <=>
              /\ v # Absent => c \in s.toSync /\ s.local[c].v = v
              /\ v = Absent => c \in s.toRemove
<1>1. \A X : None(s.wire, X)
  BY EmptyNone
<1>2. \A X, Y : ~Last(s.wire, X, Y)
  BY EmptyNone
<1>3. SavedOffline(s, c, v, pf.uids) <=> c \in s.toSync \cup pf.uids /\ s.local[c].v = v
  BY <1>1, <1>2 DEF SavedOffline
<1>4. GoneOffline(s, c, pf.hrefs) <=> c \in s.toRemove \cup pf.hrefs
  BY <1>1 DEF GoneOffline
<1>5. SavedOnline(s, c, v) <=> c \in s.toSync /\ s.local[c].v = v
  BY <1>1, <1>2 DEF SavedOnline, Noted
<1>6. GoneOnline(s, c) <=> c \in s.toRemove
  BY <1>1 DEF GoneOnline, Listed
<1>7. QED
  BY <1>3, <1>4, <1>5, <1>6 DEF Kept

\* A step with nothing on the wire that moves what is noted between the directory and the
\* preferences, or goes online.
LEMMA KeptQuiet ==
  ASSUME Core, KeptInv, ~online, wire = <<>>, UNCHANGED <<local, loop, wire, want, shared, due>>,
         online' \in BOOLEAN,
         online' => toSync' = toSync \cup prefs.uids /\ toRemove' = toRemove \cup prefs.hrefs,
         ~online' => /\ toSync' \cup prefs'.uids = toSync \cup prefs.uids
                     /\ toRemove' \cup prefs'.hrefs = toRemove \cup prefs.hrefs,
         ~running' => toSync' = {} /\ toRemove' = {}
  PROVE  KeptInv'
<1> DEFINE s2 == Now'
           pf == prefs'
           on == online'
<1>1. loop.at = "idle" /\ online = FALSE
  BY QuietIs DEF Idle, Core, TypeInv
<1>2. /\ s2.wire = <<>> /\ s2.loop.at = "idle" /\ s2.local = local /\ s2.toSync = toSync'
      /\ s2.toRemove = toRemove'
  BY <1>1 DEF Now
<1>3. on \in BOOLEAN
  OBVIOUS
<1>4. /\ on => s2.toSync = toSync \cup prefs.uids /\ s2.toRemove = toRemove \cup prefs.hrefs
      /\ ~on => /\ s2.toSync \cup pf.uids = toSync \cup prefs.uids
                /\ s2.toRemove \cup pf.hrefs = toRemove \cup prefs.hrefs
  BY <1>2
<1> HIDE DEF s2, pf, on
<1>5. ASSUME NEW c \in due PROVE c \notin shared /\ Kept(s2, on, c, want[c], pf)
  <2> DEFINE v == want[c]
  <2>1. c \notin shared /\ Kept(Now, FALSE, c, v, prefs)
    BY <1>1, <1>5 DEF KeptInv
  <2> HIDE DEF v
  <2>2. Now.wire = <<>> /\ Now.loop.at = "idle"
    BY <1>1, NowIs
  <2>3. /\ v # Absent => c \in toSync \cup prefs.uids /\ local[c].v = v
        /\ v = Absent => c \in toRemove \cup prefs.hrefs
    BY <2>1, <2>2, NowIs, QuietKept
  <2>4. CASE on
    <3>1. on = TRUE
      BY <1>3, <2>4
    <3>2. Kept(s2, TRUE, c, v, pf)
      BY <1>2, <1>4, <2>3, <2>4, QuietKept, ZenonT(30)
    <3>3. Kept(s2, on, c, v, pf)
      BY <3>1, <3>2, Zenon
    <3>4. QED
      BY <2>1, <3>3, Zenon DEF v
  <2>5. CASE ~on
    <3>1. on = FALSE
      BY <1>3, <2>5
    <3>2. Kept(s2, FALSE, c, v, pf)
      <4>1. /\ v # Absent => c \in s2.toSync \cup pf.uids /\ s2.local[c].v = v
            /\ v = Absent => c \in s2.toRemove \cup pf.hrefs
        BY <1>2, <1>4, <2>3, <2>5
      <4>2. s2.wire = <<>> /\ s2.loop.at = "idle"
        BY <1>2
      <4>3. QED
        BY <4>1, <4>2, QuietKept
    <3>3. QED
      BY <2>1, <3>1, <3>2 DEF v
  <2>6. QED
    BY <2>4, <2>5
<1>6. QED
  BY <1>5 DEF KeptInv, s2, pf, on

LEMMA KeptGoOnline ==
  ASSUME Core, KeptInv, GoOnline
  PROVE  KeptInv'
<1>1. /\ running /\ ~online /\ wire = <<>> /\ online' = TRUE
      /\ UNCHANGED <<local, toSync, toRemove, prefs, token, progress, loop, wire, server, rev,
                     changes, faults, running, lost, want, shared, due>>
  BY DEF GoOnline
<1>2. prefs.uids = {} /\ prefs.hrefs = {}
  BY <1>1 DEF Core, LineInv
<1>3. toSync' = toSync \cup prefs.uids /\ toRemove' = toRemove \cup prefs.hrefs /\ online' \in BOOLEAN
  BY <1>1, <1>2
<1>4. QED
  BY <1>1, <1>3, KeptQuiet

LEMMA KeptCleanUp ==
  ASSUME Core, KeptInv, CleanUp
  PROVE  KeptInv'
<1>1. /\ running /\ ~online /\ wire = <<>> /\ running' = FALSE
      /\ prefs' = [uids |-> toSync, hrefs |-> toRemove]
      /\ toSync' = {} /\ toRemove' = {}
      /\ UNCHANGED <<local, token, loop, wire, online, server, rev, changes, faults, lost,
                     want, shared, due>>
  BY DEF CleanUp
<1>2. prefs.uids = {} /\ prefs.hrefs = {} /\ online \in BOOLEAN
  BY <1>1 DEF Core, LineInv, TypeInv
<1>3. /\ toSync' \cup prefs'.uids = toSync \cup prefs.uids
      /\ toRemove' \cup prefs'.hrefs = toRemove \cup prefs.hrefs
      /\ online' \in BOOLEAN
  BY <1>1, <1>2
<1>4. QED
  BY <1>1, <1>3, KeptQuiet

LEMMA KeptStartUp ==
  ASSUME Core, KeptInv, StartUp
  PROVE  KeptInv'
<1>1. /\ ~running /\ running' = TRUE /\ toSync' = prefs.uids /\ toRemove' = prefs.hrefs
      /\ prefs' = [uids |-> {}, hrefs |-> {}]
      /\ UNCHANGED <<local, token, progress, loop, wire, online, server, rev, changes, faults,
                     lost, want, shared, due>>
  BY DEF StartUp
<1>2. ~online /\ wire = <<>> /\ online \in BOOLEAN /\ toSync = {} /\ toRemove = {}
  BY <1>1 DEF Core, LineInv, TypeInv, KeptInv
<1>3. /\ toSync' \cup prefs'.uids = toSync \cup prefs.uids
      /\ toRemove' \cup prefs'.hrefs = toRemove \cup prefs.hrefs
      /\ online' \in BOOLEAN
  BY <1>1, <1>2
<1>4. QED
  BY <1>1, <1>2, <1>3, KeptQuiet

LEMMA KeptInit ==
  ASSUME Init
  PROVE  KeptInv
<1>1. due = {} /\ running /\ wire = <<Request("first", "list", {}, 0)>>
  BY DEF Init
<1>2. \A i \in DOMAIN wire : wire[i].by = "first"
  BY <1>1 DEF Request
<1>3. QED
  BY <1>1, <1>2 DEF KeptInv, Single

LEMMA KeptNext ==
  ASSUME Core, KeptInv, OursInv, [Next]_vars,
         {"early", "many", "overwrite", "blank"} \cap Cases = {}
  PROVE  KeptInv'
<1>1. ASSUME NEW i \in Waiting, Serve(i) \/ Refuse(i) PROVE KeptInv'
  BY <1>1, KeptServe, KeptRefuse
<1>2. ASSUME UNCHANGED vars PROVE KeptInv'
  <2>1. Now' = Now
    BY <1>2 DEF vars, Now
  <2>2. QED
    BY <1>2, <2>1 DEF vars, KeptInv
<1>3. QED
  BY <1>1, <1>2, KeptNextResponse, KeptSyncWithServer, KeptUserSave, KeptOtherClient,
     KeptUserDelete, KeptGoOffline, KeptGoOnline, KeptCleanUp, KeptStartUp DEF Next

LEMMA KeptRemembered ==
  ASSUME Core, KeptInv
  PROVE  ChangesRemembered
<1>1. Now \in States(rev) /\ online \in BOOLEAN
  BY DEF Core, TypeInv
<1>2. \A i \in DOMAIN wire : wire[i] \in Reqs
  BY <1>1, NowIs, GoodSeq DEF States
<1>3. \A i \in DOMAIN wire : wire[i] \in Requests
  BY DEF Requests
<1>4. ASSUME NEW c \in due, want[c] # Absent
      PROVE  \/ c \in toSync \cup prefs.uids /\ local[c].v = want[c]
             \/ \E r \in Requests : r.kind = "put" /\ r.card = c /\ r.arg = want[c]
  <2> DEFINE v == want[c]
  <2>1. Kept(Now, online, c, v, prefs)
    BY <1>4 DEF KeptInv
  <2>2. v # Absent
    BY <1>4
  <2> HIDE DEF v
  <2>3. \A Y : Last(wire, UserPuts(c, v), Y) \/ Last(wire, Puts(c, v), Y) =>
          \E r \in Requests : r.kind = "put" /\ r.card = c /\ r.arg = v
    BY <1>3 DEF Last, UserPuts, Puts
  <2>4. (online /\ SavedOnline(Now, c, v)) \/ (~online /\ SavedOffline(Now, c, v, prefs.uids))
    BY <1>1, <2>1, <2>2 DEF Kept
  <2>5. \/ c \in toSync \cup prefs.uids /\ local[c].v = v
        \/ \E r \in Requests : r.kind = "put" /\ r.card = c /\ r.arg = v
    BY <2>3, <2>4, NowIs DEF SavedOnline, SavedOffline, Noted
  <2>6. QED
    BY <2>5 DEF v
<1>5. ASSUME NEW c \in due, want[c] = Absent
      PROVE  \/ c \in toRemove \cup prefs.hrefs
             \/ \E r \in Requests : r.kind = "delete" /\ r.card = c
  <2>1. (online /\ GoneOnline(Now, c)) \/ (~online /\ GoneOffline(Now, c, prefs.hrefs))
    BY <1>1, <1>5 DEF Kept, KeptInv
  <2>2. ~None(wire, SentDeletes(c, "user")) \/ ~None(wire, Deletes(c)) =>
          \E r \in Requests : r.kind = "delete" /\ r.card = c
    BY <1>3 DEF None, SentDeletes, Deletes
  <2>3. QED
    BY <2>1, <2>2, NowIs DEF GoneOnline, GoneOffline, Listed
<1>6. QED
  BY <1>4, <1>5 DEF ChangesRemembered

\* What the user has saved or deleted and the server has not got yet is under way or
\* noted, in memory or in the preferences, and nothing but the user replaces what is noted
\* for upload: whatever the order of saves, removals, synchronisations, answers, failures,
\* refusals, lost tokens and restarts.  That holds as well for a change that the server has
\* got, but that a later write of the directory, an old one on its way, undoes.  Four cases
\* are left out, in which CardDAVDirectory does lose a change: a card deleted before its
\* _href is known ("early"), several cards deleted at once ("many", a failure ends
\* _deleteCards), an older answer that has replaced a card whose upload then fails
\* ("overwrite"), and an upload of a card that the user has deleted meanwhile ("blank").
THEOREM CardDavChangesRemembered ==
  ASSUME {"early", "many", "overwrite", "blank"} \cap Cases = {}
  PROVE  Spec => []ChangesRemembered
<1>1. Init => Core /\ KeptInv /\ OursInv
  BY CoreInit, KeptInit, OursInit
<1>2. Core /\ KeptInv /\ OursInv /\ [Next]_vars => Core' /\ KeptInv' /\ OursInv'
  BY CoreNext, KeptNext, OursNext
<1>3. Core /\ KeptInv => ChangesRemembered
  BY KeptRemembered
<1>4. QED
  BY <1>1, <1>2, <1>3, PTL DEF Spec
=============================================================================
