------------------------------ MODULE CardDav ------------------------------
(***************************************************************************)
(* A CardDAV address book: CardDAVDirectory.sys.mjs, its local cards, the  *)
(* changes it has yet to send, and its synchronisation with the server.    *)
(*                                                                         *)
(* The asynchronous functions of the directory are suspended while they    *)
(* wait for a request, so a request in flight says where its function goes *)
(* on.  bulkAddCards, which the code awaits as well, is one step here, and *)
(* so is every other call of the database.  Requests are served and        *)
(* answered in the order in which they are made.  A card keeps its UID and *)
(* its path on the server.                                                 *)
(***************************************************************************)
EXTENDS Naturals, Sequences, FiniteSets

CONSTANTS
    Cards,        \* UIDs; the href of a card is made from its UID
    MaxChanges,   \* bound: number of changes by the user and by other clients
    MaxFaults,    \* bound: number of failures, refusals and forgotten tokens
    Cases         \* what may happen besides, a subset of AllCases

\* offline: the connection fails for a time; status: a PUT or DELETE is answered with a
\* status from 400; token: the server no longer knows the sync token; early: the user
\* deletes a card whose href is not known yet; many: several cards at once; first: the
\* connection fails during the first fetch; midway: the user or another client
\* makes a change during fetchAllFromServer, or another client deletes a card before the
\* directory has learnt its href; overwrite: the connection fails while an older answer has
\* replaced the local copy of a card that is being sent or removed, or the user changes a
\* card that waits to be sent while it is being read back; blank: the server stores a vCard
\* without a line, or the connection fails while one is being sent.
AllCases == {"offline", "status", "token", "early", "many", "first", "midway", "overwrite",
             "blank"}

ASSUME CardDavAssumption ==
    /\ IsFiniteSet(Cards)
    /\ {MaxChanges, MaxFaults} \subseteq Nat
    /\ Cases \subseteq AllCases

VARIABLES
    local,     \* the cards of the directory, with _etag and whether they have an _href
    toSync,    \* _uidsToSync
    toRemove,  \* _hrefsToRemove
    prefs,     \* the preferences carddav.uidsToSync and carddav.hrefsToRemove
    token,     \* carddav.token, 0 for none
    progress,  \* _syncInProgress
    loop,      \* the loop syncWithServer is in, and what it has visited
    wire,      \* requests in flight
    online,    \* whether the server can be reached
    server,    \* the cards on the server, with the revision that changed them last
    rev,       \* the server's revision
    changes,   \* number of changes so far; each has its number as the card's content
    faults,    \* number of faults so far
    running,   \* whether the program runs
    lost,      \* cards for which the server has refused a change of the user
    want,      \* what the user made of each card last
    shared,    \* cards that another client has changed as well
    due        \* other cards for which the server has yet to learn what the user wants

vars == <<local, toSync, toRemove, prefs, token, progress, loop, wire, online, server,
          rev, changes, faults, running, lost, want, shared, due>>

Absent == 0
Blank == MaxChanges + 2  \* the content of a vCard without a line
NoCard == [v |-> Absent, etag |-> 0, href |-> FALSE]
Idle == [at |-> "idle", seen |-> {}]

Has(l, c) == l[c].v # Absent

\* getCardFromProperty("_href")
Known(l, c) == Has(l, c) /\ l[c].href

\* Variant: the etag is left out.
GotNoEtag(x) == [v |-> x.v, etag |-> 0, href |-> TRUE]

\* A card as the server sent it.
Got(x) == [v |-> x.v, etag |-> x.etag, href |-> TRUE]

-----------------------------------------------------------------------------
(* The part of the state the directory's functions change, as a record; a  *)
(* function that goes on after a response maps it to the set of possible   *)
(* outcomes.                                                               *)

Now == [local |-> local, toSync |-> toSync, toRemove |-> toRemove, token |-> token,
        progress |-> progress, loop |-> loop, wire |-> wire]

Become(s) ==
    /\ local' = s.local
    /\ toSync' = s.toSync
    /\ toRemove' = s.toRemove
    /\ token' = s.token
    /\ progress' = s.progress
    /\ loop' = s.loop
    /\ wire' = s.wire

\* _makeRequest, by the user's change, the synchronisation or a direct
\* fetchAllFromServer.  A request made while offline will fail.
Request(by, kind, c, arg) == [by |-> by, kind |-> kind, card |-> c, arg |-> arg,
                              st |-> "sent", ans |-> <<>>]
Send(s, r) ==
    [s EXCEPT !.wire = Append(@, IF online THEN r ELSE [r EXCEPT !.st = "failed"])]

\* Variant: the flag is not reset.
ThrowOut(s, by) == s

\* An exception: syncWithServer resets its flag, a direct fetchAllFromServer does not.
Throw(s, by) ==
    IF by = "sync" THEN [s EXCEPT !.progress = FALSE, !.loop = Idle] ELSE s

\* The end of syncWithServer or fetchAllFromServer.
Synced(s) == [s EXCEPT !.progress = FALSE, !.loop = Idle]

\* The rest of syncWithServer: the next removal, then the next upload, then the update.
\* A Set is visited together with what is added to it meanwhile.
SyncUpdate(s) ==
    Send([s EXCEPT !.toSync = {}, !.loop = [at |-> "update", seen |-> {}]],
         IF s.token # 0 THEN Request("sync", "report", {}, s.token)
                        ELSE Request("sync", "propfind", {}, 0))

\* getCard makes a card for any UID, so that there is always something to send: for a UID
\* that the directory no longer has, a vCard without a line.
Content(s, c) == IF Has(s.local, c) THEN s.local[c].v ELSE Blank

SyncUpload(s) ==
    LET left == s.toSync \ s.loop.seen
    IN  IF left = {} THEN {SyncUpdate(s)}
        ELSE {Send([s EXCEPT !.loop.seen = @ \cup {c}],
                   Request("sync", "put", c, Content(s, c))) : c \in left}

SyncRemove(s) ==
    LET left == s.toRemove \ s.loop.seen
    IN  IF left = {}
        THEN SyncUpload([s EXCEPT !.toRemove = {}, !.loop = [at |-> "upload", seen |-> {}]])
        ELSE {Send([s EXCEPT !.loop.seen = @ \cup {c}], Request("sync", "delete", c, {})) :
                c \in left}

\* Whoever sent the request for a single card goes on.
GoOn(s, by) ==
    CASE by = "user" -> {s}
      [] by # "user" /\ s.loop.at = "remove" -> SyncRemove(s)
      [] by # "user" /\ s.loop.at # "remove" -> SyncUpload(s)

-----------------------------------------------------------------------------
(* What happens when a request is answered or fails.                       *)

\* _sendCardToServer after its PUT: a failed one is remembered, a refused one is not.
AfterPut(s, r) ==
    CASE r.st = "ok" -> {Send(s, Request(r.by, "get", r.card, {}))}
      [] r.st = "failed" -> {Throw([s EXCEPT !.toSync = @ \cup {r.card}], r.by)}
      [] r.st = "refused" -> {Throw(s, r.by)}

\* _sendCardToServer after its multiget: the server's copy replaces the local one, or
\* creates it.
AfterGet(s, r) ==
    IF r.st # "ok" THEN {Throw(s, r.by)}
    ELSE GoOn(IF r.ans.v = Absent THEN s ELSE [s EXCEPT !.local[r.card] = Got(r.ans)], r.by)

\* Variant: a removal that failed is not remembered.
RemovedForgotten(s, r) == s

\* _deleteCardFromServer: any answer will do; a failure is remembered.
Removed(s, r) == IF r.st = "failed" THEN [s EXCEPT !.toRemove = @ \cup {r.card}] ELSE s

\* _deleteCards: the rest of the cards, unless the removal failed; at the end none of
\* them is to be sent any more.
DeleteRest(s, all, rest) ==
    IF rest # {}
    THEN {Send(s, Request("user", "delete", c, <<all, rest \ {c}>>)) : c \in rest}
    ELSE {[s EXCEPT !.toSync = @ \ all,
                    !.loop.seen = IF s.loop.at = "upload" THEN @ \ all ELSE @]}

AfterDelete(s, r) ==
    LET s1 == Removed(s, r)
        stop == r.st = "failed"
    IN  IF r.by = "user"
        THEN DeleteRest(s1, r.arg[1], IF stop THEN {} ELSE r.arg[2])
        ELSE IF stop THEN {Throw(s1, r.by)} ELSE GoOn(s1, r.by)

\* fetchAllFromServer begins.
FetchAll(s, by) == Send([s EXCEPT !.progress = TRUE], Request(by, "list", {}, 0))

\* _fetchAndStore, or the end of the update if there is nothing to fetch.
Fetch(s, cs, newToken) ==
    IF cs = {} THEN Synced([s EXCEPT !.token = newToken])
    ELSE Send(s, Request("sync", "multiget", cs, newToken))

\* Variant: a card is fetched only if there is none.
StaleIfMissing(s, c, etag) == ~Known(s.local, c)

\* Whether the server's copy is another one than the local one.
Stale(s, c, etag) == ~Known(s.local, c) \/ s.local[c].etag # etag

\* updateAllFromServerV2 after the REPORT: changed cards come with their data or are
\* fetched next; cards that are gone are deleted.
AfterReport(s, r) ==
    LET a == r.ans
        stored == {c \in DOMAIN a.cards :
                     a.data /\ a.cards[c].v # Absent /\ Stale(s, c, a.cards[c].etag)}
        gone == {c \in DOMAIN a.cards : a.cards[c].v = Absent /\ Known(s.local, c)}
        s1 == [s EXCEPT !.local = [c \in Cards |-> IF c \in stored THEN Got(a.cards[c])
                                                   ELSE IF c \in gone THEN NoCard ELSE @[c]]]
    IN  CASE r.st = "failed" -> {Throw(s, "sync")}
          [] r.st = "refused" -> {FetchAll(s, "sync")}
          [] r.st = "ok" ->
               {Fetch(s1, IF a.data THEN {} ELSE {c \in DOMAIN a.cards : a.cards[c].v # Absent},
                      a.rev)}

\* The cards to delete and to fetch, given the list of what is on the server.
Unlisted(s, a) == {c \in Cards : Known(s.local, c) /\ s.local[c].etag # 0 /\ c \notin DOMAIN a}
Changed(s, a) == {c \in DOMAIN a : Stale(s, c, a[c].etag)}
Drop(s, cs) == [s EXCEPT !.local = [c \in Cards |-> IF c \in cs THEN NoCard ELSE @[c]]]

\* updateAllFromServerV1 after the PROPFIND.
AfterPropfind(s, r) ==
    IF r.st # "ok" THEN {Throw(s, "sync")}
    ELSE {Fetch(Drop(s, Unlisted(s, r.ans)), Changed(s, r.ans), s.token)}

\* _fetchAndStore after its multiget; V2 then has a new token.
AfterMultiget(s, r) ==
    LET stored == {c \in DOMAIN r.ans : ~Has(s.local, c) \/ s.local[c].etag # r.ans[c].etag}
    IN  IF r.st # "ok" THEN {Throw(s, "sync")}
        ELSE {Synced([s EXCEPT !.token = r.arg,
                               !.local = [c \in Cards |-> IF c \in stored THEN Got(r.ans[c])
                                                          ELSE @[c]]])}

\* fetchAllFromServer after its PROPFIND, after its multiget (bulkAddCards) and after
\* that of _getSyncToken.
AfterList(s, r) ==
    LET cs == Changed(s, r.ans)
        s1 == Drop(s, Unlisted(s, r.ans))
    IN  IF r.st # "ok" THEN {Throw(s, r.by)}
        ELSE {IF cs = {} THEN Send(s1, Request(r.by, "token", {}, 0))
              ELSE Send(s1, Request(r.by, "bulk", cs, 0))}

AfterBulk(s, r) ==
    IF r.st # "ok" THEN {Throw(s, r.by)}
    ELSE {Send([s EXCEPT !.local = [c \in Cards |-> IF c \in DOMAIN r.ans
                                                    THEN Got(r.ans[c]) ELSE @[c]]],
               Request(r.by, "token", {}, 0))}

AfterToken(s, r) ==
    IF r.st # "ok" THEN {Throw(s, r.by)} ELSE {Synced([s EXCEPT !.token = r.ans])}

After(s, r) ==
    CASE r.kind = "put" -> AfterPut(s, r)
      [] r.kind = "get" -> AfterGet(s, r)
      [] r.kind = "delete" -> AfterDelete(s, r)
      [] r.kind = "report" -> AfterReport(s, r)
      [] r.kind = "propfind" -> AfterPropfind(s, r)
      [] r.kind = "multiget" -> AfterMultiget(s, r)
      [] r.kind = "list" -> AfterList(s, r)
      [] r.kind = "bulk" -> AfterBulk(s, r)
      [] r.kind = "token" -> AfterToken(s, r)

-----------------------------------------------------------------------------
(* The server.                                                             *)

OnServer == {c \in Cards : server[c].v # Absent}
Copy(cs) == [c \in cs |-> server[c]]

\* What the server answers to a request that changes nothing.
Answer(r) ==
    CASE r.kind = "get" -> {server[r.card]}
      [] r.kind = "report" ->
           {[cards |-> Copy({c \in Cards : server[c].etag > r.arg}), rev |-> rev, data |-> d] :
              d \in BOOLEAN}
      [] r.kind \in {"propfind", "list"} -> {Copy(OnServer)}
      [] r.kind \in {"multiget", "bulk"} -> {Copy(r.card \cap OnServer)}
      [] r.kind = "token" -> {rev, 0}

\* The next request that waits for the server.
Waiting == {i \in DOMAIN wire : wire[i].st = "sent" /\ \A j \in 1..(i-1) : wire[j].st # "sent"}

Write(c, v) ==
    /\ rev' = rev + 1
    /\ server' = [server EXCEPT ![c] = [v |-> v, etag |-> rev + 1]]

\* After a write the server has what the user wants, or has yet to learn it (again).
NowDue(c, v) == IF v = want[c] THEN due \ {c} ELSE due \cup ({c} \ (shared \cup lost))

Serve(i) ==
    LET r == wire[i]
        v == IF r.kind = "put" THEN r.arg ELSE Absent
    IN  /\ online
        /\ IF r.kind \in {"put", "delete"}
           THEN IF v = Blank /\ "blank" \notin Cases
                THEN /\ wire' = [wire EXCEPT ![i].st = "refused"]
                     /\ UNCHANGED <<rev, server, due>>
                ELSE /\ wire' = [wire EXCEPT ![i].st = "ok"]
                     /\ Write(r.card, v)
                     /\ due' = NowDue(r.card, v)
           ELSE /\ \E a \in Answer(r) : wire' = [wire EXCEPT ![i].st = "ok", ![i].ans = a]
                /\ UNCHANGED <<rev, server, due>>
        /\ UNCHANGED <<local, toSync, toRemove, prefs, token, progress, loop, online,
                       changes, faults, running, lost, want, shared>>

\* A PUT or DELETE is refused, or the token is.  The directory does not try to make a
\* refused change again, except for a card it found in _uidsToSync.
Refuse(i) ==
    LET r == wire[i]
        over == IF r.kind = "delete" \/ (r.kind = "put" /\ r.by = "user") THEN {r.card} ELSE {}
    IN  /\ online
        /\ faults < MaxFaults
        /\ \/ "status" \in Cases /\ r.kind \in {"put", "delete"}
           \/ "token" \in Cases /\ r.kind = "report"
        /\ wire' = [wire EXCEPT ![i].st = "refused"]
        /\ faults' = faults + 1
        /\ due' = due \ over
        /\ lost' = lost \cup over
        /\ UNCHANGED <<local, toSync, toRemove, prefs, token, progress, loop, online,
                       server, rev, changes, running, want, shared>>

\* fetchAllFromServer is under way.
Fetching == \E i \in DOMAIN wire : wire[i].kind \in {"list", "bulk", "token"}

\* Another client changes or deletes a card, or adds one.
OtherClient(c, v) ==
    /\ changes < MaxChanges
    /\ v \in {changes + 1, Absent}
    /\ v = Absent => c \in OnServer
    /\ c \notin OnServer => server[c].etag = 0 /\ want[c] = Absent
    /\ Fetching \/ (v = Absent /\ Has(local, c) /\ ~local[c].href) => "midway" \in Cases
    /\ changes' = changes + 1
    /\ Write(c, v)
    /\ shared' = shared \cup {c}
    /\ due' = due \ {c}
    /\ UNCHANGED <<local, toSync, toRemove, prefs, token, progress, loop, wire, online,
                   faults, running, lost, want>>
-----------------------------------------------------------------------------
(* The directory.                                                          *)

\* A function goes on.
NextResponse ==
    /\ wire # <<>>
    /\ Head(wire).st # "sent"
    /\ \E s \in After([Now EXCEPT !.wire = Tail(@)], Head(wire)) : Become(s)
    /\ UNCHANGED <<prefs, online, server, rev, changes, faults, running, lost, want, shared, due>>

\* A card that waits to be sent is being read back as it was before.
Overtaken(c) == c \in toSync /\ \E i \in DOMAIN wire : wire[i].kind = "get" /\ wire[i].card = c

\* A new card has a new UID.
Unused(c) ==
    /\ server[c].etag = 0 /\ want[c] = Absent
    /\ c \notin toSync \cup toRemove
    /\ \A i \in DOMAIN wire : wire[i].card # c

\* modifyCard or dropCard by the user: stored at once, and sent.
UserSave(c) ==
    /\ running
    /\ changes < MaxChanges
    /\ Fetching => "midway" \in Cases
    /\ Has(local, c) \/ Unused(c)
    /\ Overtaken(c) => "overwrite" \in Cases
    /\ local[c].v # Blank
    /\ changes' = changes + 1
    /\ want' = [want EXCEPT ![c] = changes + 1]
    /\ due' = due \cup ({c} \ shared)
    /\ Become(Send([Now EXCEPT !.local[c].v = changes + 1],
                   Request("user", "put", c, changes + 1)))
    /\ UNCHANGED <<prefs, online, server, rev, faults, running, lost, shared>>

\* deleteCards by the user: deleted at once, and then removed from the server, if it is
\* known there.
UserDelete(cs) ==
    LET known == {c \in cs : local[c].href}
    IN  /\ running
        /\ changes < MaxChanges
        /\ cs # {} /\ \A c \in cs : Has(local, c)
        /\ Cardinality(cs) > 1 => "many" \in Cases
        /\ Fetching => "midway" \in Cases
        /\ known # cs => "early" \in Cases
        /\ (\E c \in cs : Overtaken(c)) => "overwrite" \in Cases
        /\ \A c \in cs : local[c].v # Blank
        /\ changes' = changes + 1
        /\ want' = [c \in Cards |-> IF c \in cs THEN Absent ELSE want[c]]
        /\ due' = due \cup (cs \ shared)
        /\ \E s \in DeleteRest(Drop(Now, cs), cs, known) : Become(s)
        /\ UNCHANGED <<prefs, online, server, rev, faults, running, lost, shared>>

\* syncWithServer, called by the timer or the user.
SyncWithServer ==
    /\ running /\ ~progress
    /\ ~online /\ (\E c \in toSync : ~Has(local, c)) => "blank" \in Cases
    /\ \E s \in SyncRemove([Now EXCEPT !.progress = TRUE,
                                       !.loop = [at |-> "remove", seen |-> {}]]) : Become(s)
    /\ UNCHANGED <<prefs, online, server, rev, changes, faults, running, lost, want, shared, due>>

\* The connection breaks: whatever was under way fails.
GoOffline ==
    /\ online
    /\ "offline" \in Cases
    /\ faults < MaxFaults
    /\ (\E i \in DOMAIN wire : wire[i].by = "first") => "first" \in Cases
    /\ (\E i \in DOMAIN wire :
           \/ wire[i].kind = "put" /\ local[wire[i].card].v # wire[i].arg
           \/ wire[i].kind = "delete" /\ Has(local, wire[i].card))
         => "overwrite" \in Cases
    /\ (\E i \in DOMAIN wire : wire[i].kind = "put" /\ wire[i].arg = Blank) => "blank" \in Cases
    /\ online' = FALSE
    /\ faults' = faults + 1
    /\ wire' = [i \in DOMAIN wire |-> [wire[i] EXCEPT !.st = "failed"]]
    /\ UNCHANGED <<local, toSync, toRemove, prefs, token, progress, loop, server, rev,
                   changes, running, lost, want, shared, due>>

\* It is back once the program knows of the failures.
GoOnline ==
    /\ running /\ ~online
    /\ wire = <<>>
    /\ online' = TRUE
    /\ UNCHANGED <<local, toSync, toRemove, prefs, token, progress, loop, wire, server, rev,
                   changes, faults, running, lost, want, shared, due>>

\* cleanUp.  When the program ends the network is down and every request has failed.
CleanUp ==
    /\ running /\ ~online /\ wire = <<>>
    /\ running' = FALSE
    /\ prefs' = [uids |-> toSync, hrefs |-> toRemove]
    /\ toSync' = {} /\ toRemove' = {} /\ progress' = FALSE
    /\ UNCHANGED <<local, token, loop, wire, online, server, rev, changes, faults, lost,
                   want, shared, due>>

\* init
StartUp ==
    /\ ~running
    /\ running' = TRUE
    /\ toSync' = prefs.uids
    /\ toRemove' = prefs.hrefs
    /\ prefs' = [uids |-> {}, hrefs |-> {}]
    /\ UNCHANGED <<local, token, progress, loop, wire, online, server, rev, changes, faults,
                   lost, want, shared, due>>

-----------------------------------------------------------------------------

\* A new address book, of which CardDAVUtils has begun to fetch all cards.
Init ==
    /\ \E cs \in SUBSET Cards :
         server = [c \in Cards |-> IF c \in cs THEN [v |-> MaxChanges + 1, etag |-> 1]
                                   ELSE [v |-> Absent, etag |-> 0]]
    /\ rev = 1
    /\ local = [c \in Cards |-> NoCard]
    /\ toSync = {} /\ toRemove = {}
    /\ prefs = [uids |-> {}, hrefs |-> {}]
    /\ token = 0
    /\ progress = TRUE
    /\ loop = Idle
    /\ wire = <<Request("first", "list", {}, 0)>>
    /\ online = TRUE /\ running = TRUE
    /\ changes = 0 /\ faults = 0
    /\ want = [c \in Cards |-> Absent]
    /\ due = {} /\ lost = {} /\ shared = {}

Next ==
    \/ NextResponse
    \/ \E i \in Waiting : Serve(i) \/ Refuse(i)
    \/ SyncWithServer
    \/ \E c \in Cards : UserSave(c)
    \/ \E c \in Cards, v \in 0..MaxChanges : OtherClient(c, v)
    \/ \E cs \in SUBSET Cards : UserDelete(cs)
    \/ GoOffline \/ GoOnline
    \/ CleanUp \/ StartUp

\* The server and the event loop go on, the program is started again and the connection
\* comes back; the interval timer calls syncWithServer again and again.
Fairness ==
    /\ WF_vars(NextResponse)
    /\ WF_vars(\E i \in Waiting : Serve(i))
    /\ WF_vars(StartUp)
    /\ SF_vars(GoOnline)
    /\ SF_vars(SyncWithServer)

Spec == Init /\ [][Next]_vars /\ Fairness

-----------------------------------------------------------------------------
(* Properties.                                                             *)

Requests == {wire[i] : i \in DOMAIN wire}

TypeOK ==
    /\ \A c \in Cards :
         /\ local[c] \in [v : 0..Blank, etag : 0..rev, href : BOOLEAN]
         /\ local[c].href => Has(local, c) /\ local[c].etag > 0
         /\ server[c] \in [v : 0..Blank, etag : 0..rev]
    /\ toSync \cup toRemove \cup due \cup lost \cup shared \subseteq Cards
    /\ token \in 0..rev

\* _syncInProgress, which keeps every further synchronisation out, is set exactly while
\* one is under way, however the last one ended.
FlagMeansSync == progress <=> \E r \in Requests : r.by # "user"

\* A change of the user that the server does not have yet is not forgotten: it is under
\* way, or noted in _uidsToSync or _hrefsToRemove or in the preferences, and what is
\* noted for upload is still the user's last version.  ("First perform all pending
\* removals. We don't want to have deleted cards reappearing when we sync.")
ChangesRemembered ==
    \A c \in due :
        IF want[c] = Absent
        THEN \/ c \in toRemove \cup prefs.hrefs
             \/ \E r \in Requests : r.kind = "delete" /\ (r.card = c \/ (r.by = "user" /\ c \in r.arg[2]))
        ELSE \/ c \in toSync \cup prefs.uids /\ local[c].v = want[c]
             \/ \E r \in Requests : r.kind = "put" /\ r.card = c /\ r.arg = want[c]

\* Once nobody makes changes any more, the address book and the server come to have the
\* same cards, except those for which the server refused a change, and stay so.
Converges ==
    <>[](\A c \in Cards \ lost : local[c].v = server[c].v)
=============================================================================
