------------------------ MODULE BatchCompactionProofs ------------------------
(***************************************************************************)
(* Proofs about BatchCompaction, for any folders, any number of batches    *)
(* and any maximal number of attempts.                                     *)
(***************************************************************************)
EXTENDS BatchCompaction, SequenceTheorems, FiniteSetTheorems, TLAPS

-----------------------------------------------------------------------------
(* Sequences without duplicates: what a pop, a push and a concatenation do *)
(* to the set of their elements.                                           *)

LEMMA EmptyParts ==
    /\ Range(<< >>) = {} /\ IsInjective(<< >>)
    /\ \A S : << >> \in Seq(S) /\ \A s \in Seq(S) : Range(s) = {} => s = << >>
  <1>1. DOMAIN << >> = {}
    BY EmptySeq, LenProperties
  <1>2. ASSUME NEW S, NEW s \in Seq(S), Range(s) = {}
        PROVE  s = << >>
    <2>1. s # << >> => 1 \in DOMAIN s
      BY EmptySeq, LenProperties
    <2> QED
      BY <1>2, <2>1 DEF Range
  <1> QED
    BY <1>1, <1>2, EmptySeq DEF Range, IsInjective

LEMMA Popped ==
    ASSUME NEW S, NEW s \in Seq(S), s # << >>, IsInjective(s)
    PROVE  /\ Front(s) \in Seq(S) /\ IsInjective(Front(s))
           /\ Last(s) \in Range(s) /\ Last(s) \in S
           /\ Range(Front(s)) = Range(s) \ {Last(s)}
  <1> DEFINE n == Len(s)
  <1>1. n \in Nat \ {0} /\ DOMAIN s = 1 .. n /\ s \in [1 .. n -> S]
    BY EmptySeq, LenProperties
  <1>2. /\ Front(s) \in Seq(S) /\ Len(Front(s)) = n - 1
        /\ \A i \in 1 .. n - 1 : Front(s)[i] = s[i]
    BY <1>1 DEF Front
  <1>3. DOMAIN Front(s) = 1 .. n - 1
    BY <1>2, LenProperties
  <1>4. Last(s) = s[n] /\ n \in DOMAIN s
    BY <1>1 DEF Last
  <1>5. IsInjective(Front(s))
    BY <1>1, <1>2, <1>3 DEF IsInjective
  <1>6. \A i \in 1 .. n - 1 : s[i] # s[n]
    BY <1>1 DEF IsInjective
  <1>7. Range(Front(s)) = {s[i] : i \in 1 .. n - 1}
    BY <1>2, <1>3 DEF Range
  <1>8. Range(s) = {s[i] : i \in 1 .. n - 1} \cup {s[n]}
    <2>1. 1 .. n = (1 .. n - 1) \cup {n}
      BY <1>1
    <2> QED
      BY <1>1, <2>1 DEF Range
  <1>9. s[n] \notin {s[i] : i \in 1 .. n - 1}
    BY <1>6
  <1> QED
    BY <1>1, <1>2, <1>4, <1>5, <1>7, <1>8, <1>9

LEMMA Pushed ==
    ASSUME NEW S, NEW s \in Seq(S), NEW e \in S
    PROVE  /\ Append(s, e) \in Seq(S) /\ Append(s, e) # << >>
           /\ Range(Append(s, e)) = Range(s) \cup {e}
           /\ IsInjective(s) /\ e \notin Range(s) => IsInjective(Append(s, e))
  <1> DEFINE n == Len(s)
             t == Append(s, e)
  <1>1. n \in Nat /\ DOMAIN s = 1 .. n
    BY LenProperties
  <1>2. /\ t \in Seq(S) /\ t # << >> /\ Len(t) = n + 1
        /\ \A i \in 1 .. n : t[i] = s[i]
        /\ t[n + 1] = e
    BY AppendProperties
  <1>3. DOMAIN t = (1 .. n) \cup {n + 1}
    <2>1. DOMAIN t = 1 .. n + 1
      BY <1>2, LenProperties
    <2> QED
      BY <1>1, <2>1
  <1> HIDE DEF t
  <1>4. Range(t) = Range(s) \cup {e}
    <2>1. Range(t) = {t[i] : i \in 1 .. n} \cup {t[n + 1]}
      BY <1>3 DEF Range
    <2>2. {t[i] : i \in 1 .. n} = {s[i] : i \in 1 .. n}
      BY <1>2
    <2> QED
      BY <1>1, <1>2, <2>1, <2>2 DEF Range
  <1>5. ASSUME IsInjective(s), e \notin Range(s)
        PROVE  IsInjective(t)
    <2>1. \A i \in 1 .. n : s[i] # e
      BY <1>1, <1>5 DEF Range
    <2> QED
      BY <1>1, <1>2, <1>3, <1>5, <2>1 DEF IsInjective
  <1> QED
    BY <1>2, <1>4, <1>5 DEF t

LEMMA Joined ==
    ASSUME NEW S, NEW s \in Seq(S), NEW t \in Seq(S)
    PROVE  /\ s \o t \in Seq(S)
           /\ Range(s \o t) = Range(s) \cup Range(t)
           /\ IsInjective(s) /\ IsInjective(t) /\ Range(s) \cap Range(t) = {} =>
                IsInjective(s \o t)
  <1> DEFINE m == Len(s)
             n == Len(t)
             u == s \o t
  <1>1. m \in Nat /\ n \in Nat /\ DOMAIN s = 1 .. m /\ DOMAIN t = 1 .. n
    BY LenProperties
  <1>2. /\ u \in Seq(S) /\ Len(u) = m + n
        /\ \A i \in 1 .. m + n : u[i] = IF i <= m THEN s[i] ELSE t[i - m]
    BY ConcatProperties
  <1>3. DOMAIN u = 1 .. m + n
    BY <1>2, LenProperties
  <1>4. Range(u) = Range(s) \cup Range(t)
    BY RangeConcatenation
  <1> HIDE DEF u
  <1>5. ASSUME IsInjective(s), IsInjective(t), Range(s) \cap Range(t) = {}
        PROVE  IsInjective(u)
    <2>1. \A i \in 1 .. m, j \in 1 .. n : s[i] # t[j]
      BY <1>1, <1>5 DEF Range
    <2>2. SUFFICES ASSUME NEW i \in 1 .. m + n, NEW j \in 1 .. m + n, u[i] = u[j]
                   PROVE  i = j
      BY <1>3 DEF IsInjective
    <2>3. CASE i <= m /\ j <= m
      BY <1>1, <1>2, <1>5, <2>2, <2>3 DEF IsInjective
    <2>4. CASE i > m /\ j > m
      <3>1. i - m \in 1 .. n /\ j - m \in 1 .. n /\ t[i - m] = t[j - m]
        BY <1>1, <1>2, <2>2, <2>4
      <3>2. i - m = j - m
        BY <1>1, <1>5, <3>1 DEF IsInjective
      <3> QED
        BY <1>1, <3>2
    <2>5. CASE i <= m /\ j > m
      <3>1. i \in 1 .. m /\ j - m \in 1 .. n /\ s[i] = t[j - m]
        BY <1>1, <1>2, <2>2, <2>5
      <3> QED
        BY <2>1, <3>1
    <2>6. CASE i > m /\ j <= m
      <3>1. j \in 1 .. m /\ i - m \in 1 .. n /\ s[j] = t[i - m]
        BY <1>1, <1>2, <2>2, <2>6
      <3> QED
        BY <2>1, <3>1
    <2> QED
      BY <1>1, <2>3, <2>4, <2>5, <2>6
  <1> QED
    BY <1>2, <1>4, <1>5 DEF u

\* Two lists of equal length to which as much is added.
LEMMA PushedBoth ==
    ASSUME NEW s \in Seq(Folders), NEW e \in Folders,
           NEW c \in Seq(Codes), NEW d \in Codes, Len(c) = Len(s)
    PROVE  /\ Len(Append(c, d)) = Len(Append(s, e))
           /\ DOMAIN Append(c, d) = DOMAIN Append(s, e)
           /\ \A i \in DOMAIN Append(c, d) :
                \/ i \in DOMAIN c /\ i \in DOMAIN s /\ Append(c, d)[i] = c[i]
                \/ Append(c, d)[i] = d
  <1>1. Len(s) \in Nat /\ DOMAIN s = 1 .. Len(s) /\ DOMAIN c = 1 .. Len(s)
    BY LenProperties
  <1>2. Len(Append(s, e)) = Len(s) + 1 /\ Append(s, e) \in Seq(Folders)
    BY AppendProperties
  <1>3. /\ Len(Append(c, d)) = Len(s) + 1 /\ Append(c, d) \in Seq(Codes)
        /\ \A i \in 1 .. Len(s) : Append(c, d)[i] = c[i]
        /\ Append(c, d)[Len(s) + 1] = d
    BY AppendProperties
  <1>4. DOMAIN Append(s, e) = 1 .. Len(s) + 1 /\ DOMAIN Append(c, d) = 1 .. Len(s) + 1
    BY <1>2, <1>3, LenProperties
  <1>5. \A i \in 1 .. Len(s) + 1 : i \in 1 .. Len(s) \/ i = Len(s) + 1
    BY <1>1
  <1> QED
    BY <1>1, <1>2, <1>3, <1>4, <1>5

LEMMA JoinedBoth ==
    ASSUME NEW s \in Seq(Folders), NEW t \in Seq(Folders),
           NEW c \in Seq(Codes), Len(c) = Len(s),
           NEW d \in Seq(Codes), Len(d) = Len(t),
           \A i \in 1 .. Len(t) : d[i] = "unexpected"
    PROVE  /\ c \o d \in Seq(Codes)
           /\ Len(c \o d) = Len(s \o t)
           /\ DOMAIN (c \o d) = DOMAIN (s \o t)
           /\ \A i \in DOMAIN (c \o d) :
                \/ i \in DOMAIN c /\ i \in DOMAIN s /\ (c \o d)[i] = c[i]
                \/ (c \o d)[i] = "unexpected" /\ (s \o t)[i] \in Range(t)
  <1>1. /\ Len(s) \in Nat /\ DOMAIN s = 1 .. Len(s) /\ DOMAIN c = 1 .. Len(s)
        /\ Len(t) \in Nat /\ DOMAIN t = 1 .. Len(t)
    BY LenProperties
  <1>2. \A i \in 1 .. Len(t) : d[i] = "unexpected"
    OBVIOUS
  <1>3. /\ s \o t \in Seq(Folders) /\ Len(s \o t) = Len(s) + Len(t)
        /\ \A i \in 1 .. Len(s) + Len(t) :
             (s \o t)[i] = IF i <= Len(s) THEN s[i] ELSE t[i - Len(s)]
    BY ConcatProperties
  <1>4. /\ c \o d \in Seq(Codes) /\ Len(c \o d) = Len(s) + Len(t)
        /\ \A i \in 1 .. Len(s) + Len(t) :
             (c \o d)[i] = IF i <= Len(s) THEN c[i] ELSE d[i - Len(s)]
    <2>1. /\ c \o d \in Seq(Codes) /\ Len(c \o d) = Len(c) + Len(d)
          /\ \A i \in 1 .. Len(c) + Len(d) :
               (c \o d)[i] = IF i <= Len(c) THEN c[i] ELSE d[i - Len(c)]
      BY ConcatProperties, ZenonT(30)
    <2>2. Len(c) = Len(s) /\ Len(d) = Len(t)
      OBVIOUS
    <2> QED
      BY <2>1, <2>2, ZenonT(30)
  <1>5. /\ DOMAIN (s \o t) = 1 .. Len(s) + Len(t) /\ DOMAIN (c \o d) = 1 .. Len(s) + Len(t)
    BY <1>3, <1>4, LenProperties
  <1>6. ASSUME NEW i \in 1 .. Len(s) + Len(t)
        PROVE  \/ i \in DOMAIN c /\ i \in DOMAIN s /\ (c \o d)[i] = c[i]
               \/ (c \o d)[i] = "unexpected" /\ (s \o t)[i] \in Range(t)
    <2>1. CASE i <= Len(s)
      BY <1>1, <1>4, <2>1
    <2>2. CASE ~(i <= Len(s))
      <3>1. i - Len(s) \in 1 .. Len(t)
        BY <1>1, <2>2
      <3>2. (c \o d)[i] = "unexpected" /\ (s \o t)[i] = t[i - Len(s)]
        BY <1>2, <1>3, <1>4, <2>2, <3>1
      <3> QED
        BY <1>1, <3>1, <3>2 DEF Range
    <2> QED
      BY <2>1, <2>2
  <1> QED
    BY <1>3, <1>4, <1>5, <1>6

LEMMA DistinctTyped ==
    ASSUME NEW s \in Distinct
    PROVE  s \in Seq(Folders) /\ IsInjective(s)
  <1>1. Cardinality(Folders) \in Nat
    BY FoldersAssumption, FS_CardinalityType
  <1>2. PICK m \in 0 .. Cardinality(Folders) : s \in [1 .. m -> Folders]
    BY DEF Distinct, SeqOf
  <1>3. m \in Nat
    BY <1>1
  <1>4. s \in Seq(Folders)
    BY <1>2, <1>3, SeqDef
  <1> QED
    BY <1>4 DEF Distinct

-----------------------------------------------------------------------------
(* The invariant: what is true of the record of one request.               *)

\* The phases before there is a BatchCompactor.
Early == {"new", "refused", "dispatched", "expunging"}

BatchRecord ==
    [phase : {"new", "refused", "dispatched", "expunging", "queued", "running",
              "waiting", "done"},
     caller : Kinds, asked : Seq(Folders), expunging : SUBSET Folders,
     told : Seq(Codes), mQueue : Seq(Folders), mRetry : Seq(Folders),
     mAttempt : 0 .. kMaxAttempts, mComplete : Seq(Folders),
     mFailed : Seq(Folders), mFailedCodes : Seq(Codes), folders : Seq(Folders),
     deferred : [Folders -> 0 .. kMaxAttempts], compacted : SUBSET Folders]

\* The four lists of a batch share its folders out among them.
Shared(r) ==
    /\ IsInjective(r.mQueue) /\ IsInjective(r.mRetry)
    /\ IsInjective(r.mComplete) /\ IsInjective(r.mFailed)
    /\ Range(r.mQueue) \cap Range(r.mRetry) = {}
    /\ Range(r.mQueue) \cap Range(r.mComplete) = {}
    /\ Range(r.mQueue) \cap Range(r.mFailed) = {}
    /\ Range(r.mRetry) \cap Range(r.mComplete) = {}
    /\ Range(r.mRetry) \cap Range(r.mFailed) = {}
    /\ Range(r.mComplete) \cap Range(r.mFailed) = {}
    /\ Range(r.folders) = Range(r.mQueue) \cup Range(r.mRetry) \cup Range(r.mComplete)
                            \cup Range(r.mFailed)
    /\ Range(r.mComplete) = r.compacted

\* There is no batch yet.
Untouched(r) ==
    /\ r.mQueue = << >> /\ r.mRetry = << >> /\ r.mComplete = << >> /\ r.mFailed = << >>
    /\ r.mFailedCodes = << >> /\ r.folders = << >> /\ r.mAttempt = 0
    /\ r.deferred = [f \in Folders |-> 0] /\ r.compacted = {}

\* What the phase of a request says of the rest of it.
Phases(r) ==
    /\ r.phase \in Early => Untouched(r)
    /\ r.phase # "expunging" => r.expunging = {}
    /\ r.phase = "running" => r.mQueue # << >>
    /\ r.phase = "done" => r.mQueue = << >> /\ r.mRetry = << >>
    /\ r.phase \in {"dispatched", "expunging"} /\ r.caller = "one" => r.asked # << >>
    /\ r.told # << >> => r.phase = "done" /\ Len(r.told) = 1

\* mFailed and mFailedCodes go together, and the listener is told the first code.
Coded(r) ==
    /\ Len(r.mFailedCodes) = Len(r.mFailed)
    /\ \A i \in DOMAIN r.mFailedCodes : r.mFailedCodes[i] # "ok"
    /\ r.told # << >> /\ r.folders # << >> => r.told[1] = Status(r)

\* A queued folder was put off in every pass so far, one in mRetry in this one as
\* well; once folders are given up nothing is left to do.
Passes(r) ==
    /\ r.mQueue # << >> \/ r.mRetry # << >> => r.mAttempt < kMaxAttempts
    /\ \A f \in Range(r.mQueue) : r.deferred[f] = r.mAttempt
    /\ \A f \in Range(r.mRetry) : r.deferred[f] = r.mAttempt + 1
    /\ \A i \in DOMAIN r.mFailed : r.mFailedCodes[i] = "unexpected" =>
         /\ r.mQueue = << >> /\ r.mRetry = << >>
         /\ r.deferred[r.mFailed[i]] = r.mAttempt
         /\ r.mAttempt = kMaxAttempts \/ FALSE \in Outcome("timer")

GoodBatch(r) == r \in BatchRecord /\ Shared(r) /\ Phases(r) /\ Coded(r) /\ Passes(r)

IInv ==
    /\ TypeOK
    /\ OneAtATime
    /\ \A b \in Batches : GoodBatch(batch[b])

-----------------------------------------------------------------------------
(* The changes that the actions make to such a record.                     *)

LEMMA NewGood == GoodBatch(NewBatch)
  <1>1. NewBatch \in BatchRecord
    BY EmptyParts, AttemptsAssumption DEF NewBatch, BatchRecord, Kinds
  <1>2. Shared(NewBatch) /\ Phases(NewBatch)
    BY EmptyParts DEF NewBatch, Shared, Phases, Early, Untouched
  <1>3. Coded(NewBatch)
    BY EmptyParts DEF NewBatch, Coded, Range
  <1>4. Passes(NewBatch)
    BY EmptyParts DEF NewBatch, Passes, Range
  <1> QED
    BY <1>1, <1>2, <1>3, <1>4 DEF GoodBatch

\* A request without a batch gets one, whose first StartNext is to come.
LEMMA AcceptedGood ==
    ASSUME NEW r \in BatchRecord, Untouched(r), r.told = << >>, r.expunging = {},
           NEW q \in Distinct
    PROVE  GoodBatch(Accepted(r, q)) /\ Accepted(r, q).phase = "queued"
  <1> DEFINE x == Accepted(r, q)
  <1>1. q \in Seq(Folders) /\ IsInjective(q)
    BY DistinctTyped
  <1>2. Range(q) \subseteq Folders
    BY <1>1, RangeOfSeq
  <1>3. x \in BatchRecord /\ x.phase = "queued"
    BY <1>1 DEF Accepted, BatchRecord
  <1>4. /\ x.mQueue = q /\ x.folders = q /\ x.mRetry = << >> /\ x.mComplete = << >>
        /\ x.mFailed = << >> /\ x.mFailedCodes = << >> /\ x.mAttempt = 0
        /\ x.deferred = [f \in Folders |-> 0] /\ x.compacted = {} /\ x.told = << >>
        /\ x.expunging = {}
    BY DEF Accepted, BatchRecord, Untouched
  <1> HIDE DEF x
  <1>5. Shared(x)
    BY <1>1, <1>4, EmptyParts DEF Shared
  <1>6. Phases(x)
    BY <1>3, <1>4 DEF Phases, Early
  <1>7. Coded(x)
    BY <1>4, EmptySeq, LenProperties DEF Coded
  <1>8. Passes(x)
    BY <1>2, <1>4, EmptyParts, AttemptsAssumption DEF Passes, Range
  <1> QED
    BY <1>3, <1>5, <1>6, <1>7, <1>8 DEF GoodBatch, x

\* Without a batch there are no folders to account for.
LEMMA UntouchedGood ==
    ASSUME NEW x \in BatchRecord, Untouched(x), Phases(x)
    PROVE  GoodBatch(x)
  <1>1. Shared(x)
    BY EmptyParts DEF Untouched, Shared
  <1>2. Coded(x)
    BY EmptySeq, LenProperties DEF Untouched, Coded
  <1>3. Passes(x)
    BY EmptyParts, AttemptsAssumption DEF Untouched, Passes, Range
  <1> QED
    BY <1>1, <1>2, <1>3 DEF GoodBatch

\* A request without a batch ends, perhaps with one word to the listener.
LEMMA EndedGood ==
    ASSUME NEW x \in BatchRecord, x.phase \in {"refused", "done"}, Untouched(x),
           x.expunging = {},
           x.told = << >> \/ (x.phase = "done" /\ Len(x.told) = 1)
    PROVE  GoodBatch(x)
  <1>1. Phases(x)
    BY DEF Untouched, Phases, Early
  <1> QED
    BY <1>1, UntouchedGood

LEMMA RefusedGood ==
    ASSUME NEW r \in BatchRecord, Untouched(r), r.told = << >>, r.expunging = {}
    PROVE  GoodBatch(Refused(r)) /\ Refused(r).phase \in {"refused", "done"}
  <1> DEFINE x == Refused(r)
  <1>1. "error" \in Codes
    BY DEF Codes
  <1>2. Append(<< >>, "error") \in Seq(Codes) /\ Len(Append(<< >>, "error")) = 1
    BY <1>1
  <1>3. x \in BatchRecord
    BY <1>2 DEF Refused, BatchRecord
  <1>4. /\ x.phase = IF r.caller = "direct" THEN "refused" ELSE "done"
        /\ x.told = IF r.caller = "all" THEN Append(<< >>, "error") ELSE << >>
        /\ x.expunging = {} /\ Untouched(x)
    BY DEF Refused, BatchRecord, Untouched
  <1> QED
    BY <1>2, <1>3, <1>4, EndedGood

\* A request for which there is no batch, and which is not waiting for an expunge.
Unserved(r) ==
    /\ r \in BatchRecord /\ Untouched(r) /\ r.told = << >> /\ r.expunging = {}

LEMMA AsyncGood ==
    ASSUME NEW r, Unserved(r), NEW fs, NEW x \in AsyncCompactFolders(r, fs)
    PROVE  GoodBatch(x) /\ x.phase \in {"queued", "refused", "done"}
  <1>1. CASE \E q \in Filtered(fs) : x = Accepted(r, q)
    <2>1. PICK q \in Filtered(fs) : x = Accepted(r, q)
      BY <1>1
    <2>2. q \in Distinct
      BY DEF Filtered
    <2> QED
      BY <2>1, <2>2, AcceptedGood DEF Unserved
  <1>2. CASE x = Refused(r)
    BY <1>2, RefusedGood DEF Unserved
  <1> QED
    BY <1>1, <1>2 DEF AsyncCompactFolders

LEMMA DoCompactGood ==
    ASSUME NEW r, Unserved(r), NEW x \in DoCompact(r)
    PROVE  GoodBatch(x) /\ x.phase \in {"queued", "refused", "done"}
  <1>1. CASE \E fs : x \in AsyncCompactFolders(r, fs)
    BY <1>1, AsyncGood
  <1>2. ASSUME NEW code \in {"ok", "error"}, x = Concluded(r, code)
        PROVE  GoodBatch(x) /\ x.phase \in {"queued", "refused", "done"}
    <2>1. Append(<< >>, code) \in Seq(Codes) /\ Len(Append(<< >>, code)) = 1
      BY DEF Codes
    <2>2. x \in BatchRecord
      BY <1>2, <2>1 DEF BatchRecord, Unserved, Concluded
    <2>3. x.phase = "done" /\ x.told = Append(<< >>, code) /\ x.expunging = {} /\ Untouched(x)
      BY <1>2 DEF BatchRecord, Unserved, Untouched, Concluded
    <2> QED
      BY <2>1, <2>2, <2>3, EndedGood
  <1> QED
    BY <1>1, <1>2 DEF DoCompact, CompactOne

\* A request that waits: to be dispatched, or for its expunges; or that failed at once.
Waits(r, caller, fs, phase, started) ==
    [r EXCEPT !.caller = caller, !.asked = fs, !.phase = phase, !.expunging = started]

LEMMA WaitingGood ==
    ASSUME NEW r, Unserved(r),
           NEW caller \in Kinds, NEW fs \in Seq(Folders), NEW started \in SUBSET Folders,
           NEW phase \in {"dispatched", "expunging", "refused"},
           phase # "expunging" => started = {},
           caller = "one" => fs # << >>
    PROVE  /\ GoodBatch(Waits(r, caller, fs, phase, started))
           /\ Waits(r, caller, fs, phase, started).phase = phase
  <1> DEFINE x == Waits(r, caller, fs, phase, started)
  <1>1. x \in BatchRecord
    BY DEF BatchRecord, Unserved, Waits
  <1>2. /\ x.phase = phase /\ x.expunging = started /\ x.told = << >> /\ x.asked = fs
        /\ x.caller = caller /\ Untouched(x)
    BY DEF BatchRecord, Unserved, Untouched, Waits
  <1> HIDE DEF x
  <1>3. Phases(x)
    BY <1>2 DEF Phases, Early
  <1> QED
    BY <1>1, <1>2, <1>3, UntouchedGood DEF x

\* A batch that has not told its listener.
Serving(r) == GoodBatch(r) /\ r.phase \in {"queued", "running", "waiting"}

LEMMA ServingFacts ==
    ASSUME NEW r, Serving(r)
    PROVE  r \in BatchRecord /\ r.told = << >> /\ r.expunging = {}
  BY DEF Serving, GoodBatch, Phases

\* The next folder is put off.
LEMMA DeferGood ==
    ASSUME NEW r, Serving(r), r.mQueue # << >>, r.phase # "running",
           NEW f, f = Last(r.mQueue),
           NEW x, x = [r EXCEPT !.mQueue = Front(@), !.mRetry = Append(@, f),
                                !.deferred = [r.deferred EXCEPT ![f] = r.deferred[f] + 1]]
    PROVE  Serving(x) /\ x.phase = r.phase
  <1>1. r \in BatchRecord /\ r.told = << >> /\ r.expunging = {}
    BY ServingFacts
  <1>2. /\ r.mQueue \in Seq(Folders) /\ r.mRetry \in Seq(Folders) /\ IsInjective(r.mQueue)
        /\ r.deferred \in [Folders -> 0 .. kMaxAttempts] /\ r.mAttempt \in 0 .. kMaxAttempts
        /\ r.mFailed \in Seq(Folders) /\ r.mFailedCodes \in Seq(Codes)
    BY <1>1 DEF BatchRecord, Serving, GoodBatch, Shared
  <1>3. /\ Front(r.mQueue) \in Seq(Folders) /\ IsInjective(Front(r.mQueue))
        /\ f \in Folders /\ f \in Range(r.mQueue)
        /\ Range(Front(r.mQueue)) = Range(r.mQueue) \ {f}
    BY <1>2, Popped
  <1>4. /\ Append(r.mRetry, f) \in Seq(Folders)
        /\ Range(Append(r.mRetry, f)) = Range(r.mRetry) \cup {f}
        /\ IsInjective(r.mRetry) /\ f \notin Range(r.mRetry) => IsInjective(Append(r.mRetry, f))
    BY <1>2, <1>3, Pushed
  <1>5. r.deferred[f] = r.mAttempt /\ r.mAttempt < kMaxAttempts
    BY <1>3 DEF Serving, GoodBatch, Passes
  <1>6. [r.deferred EXCEPT ![f] = r.deferred[f] + 1] \in [Folders -> 0 .. kMaxAttempts]
    BY <1>2, <1>3, <1>5, AttemptsAssumption
  <1>7. x \in BatchRecord
    BY <1>1, <1>3, <1>4, <1>6 DEF BatchRecord
  <1>8. /\ x.mQueue = Front(r.mQueue) /\ x.mRetry = Append(r.mRetry, f)
        /\ x.deferred = [r.deferred EXCEPT ![f] = r.deferred[f] + 1]
        /\ x.phase = r.phase /\ x.caller = r.caller /\ x.asked = r.asked
        /\ x.expunging = {} /\ x.told = << >> /\ x.mAttempt = r.mAttempt
        /\ x.mComplete = r.mComplete /\ x.mFailed = r.mFailed
        /\ x.mFailedCodes = r.mFailedCodes /\ x.folders = r.folders
        /\ x.compacted = r.compacted
    BY <1>1 DEF BatchRecord
  <1>9. Shared(x)
    BY <1>3, <1>4, <1>8 DEF Serving, GoodBatch, Shared
  <1>10. Phases(x)
    BY <1>8 DEF Serving, Phases, Early
  <1>11. Coded(x)
    BY <1>8 DEF Serving, GoodBatch, Coded
  <1>12. Passes(x)
    <2>1. \A g \in Folders : x.deferred[g] = IF g = f THEN r.deferred[g] + 1 ELSE r.deferred[g]
      BY <1>2, <1>8
    <2>2. Range(r.mQueue) \subseteq Folders /\ Range(r.mRetry) \subseteq Folders
      BY <1>2, RangeOfSeq
    <2>3. f \notin Range(r.mRetry)
      BY <1>3 DEF Serving, GoodBatch, Shared
    <2>4. \A g \in Range(x.mQueue) : x.deferred[g] = x.mAttempt
      BY <1>3, <1>8, <2>1, <2>2 DEF Serving, GoodBatch, Passes
    <2>5. \A g \in Range(x.mRetry) : x.deferred[g] = x.mAttempt + 1
      BY <1>3, <1>4, <1>5, <1>8, <2>1, <2>2, <2>3 DEF Serving, GoodBatch, Passes
    <2>6. \A i \in DOMAIN r.mFailed : r.mFailedCodes[i] # "unexpected"
      BY DEF Serving, GoodBatch, Passes
    <2> QED
      BY <1>5, <1>8, <2>4, <2>5, <2>6, ZenonT(30) DEF Passes
  <1>13. GoodBatch(x)
    BY <1>7, <1>9, <1>10, <1>11, <1>12 DEF GoodBatch
  <1>14. r.phase \in {"queued", "running", "waiting"} /\ x.phase = r.phase
    BY <1>8 DEF Serving
  <1> QED
    BY <1>13, <1>14, Zenon DEF Serving

\* While a folder is queued none has been given up.
LEMMA NoneGivenUp ==
    ASSUME NEW r, Serving(r), r.mQueue # << >> \/ r.mRetry # << >>
    PROVE  \A i \in DOMAIN r.mFailed : r.mFailedCodes[i] # "unexpected"
  BY DEF Serving, GoodBatch, Passes

\* The next folder fails, for a reason other than IMAP activity.
LEMMA FailedGood ==
    ASSUME NEW r, Serving(r), r.mQueue # << >>, NEW code \in {"busy", "error"},
           NEW phase \in {"queued", "waiting"},
           NEW x, x = [Failed(r, code) EXCEPT !.phase = phase]
    PROVE  Serving(x) /\ x.phase = phase
  <1> DEFINE f == Last(r.mQueue)
  <1>1. r \in BatchRecord /\ r.told = << >> /\ r.expunging = {}
    BY ServingFacts
  <1>2. /\ r.mQueue \in Seq(Folders) /\ r.mFailed \in Seq(Folders)
        /\ r.mFailedCodes \in Seq(Codes) /\ IsInjective(r.mQueue)
        /\ Len(r.mFailedCodes) = Len(r.mFailed) /\ code \in Codes
    BY <1>1 DEF BatchRecord, Serving, GoodBatch, Shared, Coded, Codes
  <1>3. /\ Front(r.mQueue) \in Seq(Folders) /\ IsInjective(Front(r.mQueue))
        /\ f \in Folders /\ f \in Range(r.mQueue)
        /\ Range(Front(r.mQueue)) = Range(r.mQueue) \ {f}
    BY <1>2, Popped
  <1> HIDE DEF f
  <1>4. /\ Append(r.mFailed, f) \in Seq(Folders)
        /\ Range(Append(r.mFailed, f)) = Range(r.mFailed) \cup {f}
        /\ IsInjective(r.mFailed) /\ f \notin Range(r.mFailed) =>
             IsInjective(Append(r.mFailed, f))
    BY <1>2, <1>3, Pushed
  <1>5. Append(r.mFailedCodes, code) \in Seq(Codes)
    BY <1>2, AppendProperties
  <1>6. /\ x.mQueue = Front(r.mQueue) /\ x.mFailed = Append(r.mFailed, f)
        /\ x.mFailedCodes = Append(r.mFailedCodes, code) /\ x.phase = phase
        /\ x.mRetry = r.mRetry /\ x.mComplete = r.mComplete /\ x.mAttempt = r.mAttempt
        /\ x.folders = r.folders /\ x.deferred = r.deferred /\ x.compacted = r.compacted
        /\ x.told = << >> /\ x.expunging = {}
    BY <1>1 DEF BatchRecord, Failed, f
  <1>7. x \in BatchRecord
    <2> DEFINE p == Front(r.mQueue)
               q == Append(r.mFailed, f)
               d == Append(r.mFailedCodes, code)
    <2>1. x = [r EXCEPT !.mQueue = p, !.mFailed = q, !.mFailedCodes = d, !.phase = phase]
      BY <1>1, ZenonT(30) DEF BatchRecord, Failed, f
    <2>2. p \in Seq(Folders) /\ q \in Seq(Folders) /\ d \in Seq(Codes)
      BY <1>3, <1>4, <1>5
    <2> HIDE DEF p, q, d
    <2> QED
      BY <1>1, <2>1, <2>2, ZenonT(40) DEF BatchRecord
  <1>8. Shared(x)
    BY <1>3, <1>4, <1>6, ZenonT(30) DEF Serving, GoodBatch, Shared
  <1>9. Phases(x)
    BY <1>6 DEF Phases, Early
  <1>10. /\ Len(x.mFailedCodes) = Len(x.mFailed)
         /\ DOMAIN x.mFailedCodes = DOMAIN x.mFailed
         /\ \A i \in DOMAIN x.mFailedCodes :
              \/ i \in DOMAIN r.mFailedCodes /\ i \in DOMAIN r.mFailed
                    /\ x.mFailedCodes[i] = r.mFailedCodes[i]
              \/ x.mFailedCodes[i] = code
    <2>1. /\ Len(Append(r.mFailedCodes, code)) = Len(Append(r.mFailed, f))
          /\ DOMAIN Append(r.mFailedCodes, code) = DOMAIN Append(r.mFailed, f)
          /\ \A i \in DOMAIN Append(r.mFailedCodes, code) :
               \/ /\ i \in DOMAIN r.mFailedCodes /\ i \in DOMAIN r.mFailed
                  /\ Append(r.mFailedCodes, code)[i] = r.mFailedCodes[i]
               \/ Append(r.mFailedCodes, code)[i] = code
      BY <1>2, <1>3, PushedBoth, Zenon
    <2> QED
      BY <1>6, <2>1, Zenon
  <1>11. Coded(x)
    BY <1>6, <1>10 DEF Serving, GoodBatch, Coded
  <1>12. Passes(x)
    <2>1. \A i \in DOMAIN x.mFailed : x.mFailedCodes[i] # "unexpected"
      BY <1>10, NoneGivenUp
    <2> QED
      BY <1>3, <1>6, <2>1 DEF Serving, GoodBatch, Passes
  <1> QED
    BY <1>6, <1>7, <1>8, <1>9, <1>11, <1>12 DEF Serving, GoodBatch

\* The folder that was being compacted is done.
LEMMA CompletedGood ==
    ASSUME NEW r, Serving(r), r.mQueue # << >>, NEW f, f = Last(r.mQueue),
           NEW x, x = [Completed(r) EXCEPT !.phase = "queued", !.compacted = @ \cup {f}]
    PROVE  Serving(x) /\ x.phase = "queued"
  <1>1. r \in BatchRecord /\ r.told = << >> /\ r.expunging = {}
    BY ServingFacts
  <1>2. /\ r.mQueue \in Seq(Folders) /\ r.mComplete \in Seq(Folders)
        /\ IsInjective(r.mQueue)
    BY <1>1 DEF BatchRecord, Serving, GoodBatch, Shared
  <1>3. /\ Front(r.mQueue) \in Seq(Folders) /\ IsInjective(Front(r.mQueue))
        /\ f \in Folders /\ f \in Range(r.mQueue)
        /\ Range(Front(r.mQueue)) = Range(r.mQueue) \ {f}
    BY <1>2, Popped
  <1>4. /\ Append(r.mComplete, f) \in Seq(Folders)
        /\ Range(Append(r.mComplete, f)) = Range(r.mComplete) \cup {f}
        /\ IsInjective(r.mComplete) /\ f \notin Range(r.mComplete) =>
             IsInjective(Append(r.mComplete, f))
    BY <1>2, <1>3, Pushed
  <1>5. /\ x.mQueue = Front(r.mQueue) /\ x.mComplete = Append(r.mComplete, f)
        /\ x.phase = "queued" /\ x.compacted = r.compacted \cup {f}
        /\ x.mRetry = r.mRetry /\ x.mFailed = r.mFailed /\ x.mAttempt = r.mAttempt
        /\ x.mFailedCodes = r.mFailedCodes /\ x.folders = r.folders
        /\ x.deferred = r.deferred /\ x.told = << >> /\ x.expunging = {}
    BY <1>1 DEF BatchRecord, Completed
  <1>6. x \in BatchRecord
    BY <1>1, <1>3, <1>4 DEF BatchRecord, Completed
  <1>7. Shared(x)
    BY <1>3, <1>4, <1>5 DEF Serving, GoodBatch, Shared
  <1>8. Phases(x)
    BY <1>5 DEF Phases, Early
  <1>9. Coded(x)
    BY <1>5 DEF Serving, GoodBatch, Coded
  <1>10. Passes(x)
    <2>1. \A i \in DOMAIN x.mFailed : x.mFailedCodes[i] # "unexpected"
      BY <1>5, NoneGivenUp
    <2> QED
      BY <1>3, <1>5, <2>1 DEF Serving, GoodBatch, Passes
  <1> QED
    BY <1>5, <1>6, <1>7, <1>8, <1>9, <1>10 DEF Serving, GoodBatch

\* What was put off is queued again for another pass.
LEMMA RequeuedGood ==
    ASSUME NEW r, Serving(r), r.mQueue = << >>, r.mRetry # << >>,
           ~OutOfRetries(r.mAttempt + 1),
           NEW x, x = [Requeued([r EXCEPT !.mAttempt = @ + 1]) EXCEPT !.phase = "waiting"]
    PROVE  Serving(x) /\ x.phase = "waiting"
  <1>1. r \in BatchRecord /\ r.told = << >> /\ r.expunging = {}
    BY ServingFacts
  <1>2. r.mAttempt + 1 \in 0 .. kMaxAttempts /\ r.mAttempt + 1 < kMaxAttempts
    BY <1>1, AttemptsAssumption DEF BatchRecord, OutOfRetries
  <1>3. /\ x.mQueue = r.mRetry /\ x.mRetry = << >> /\ x.mAttempt = r.mAttempt + 1
        /\ x.phase = "waiting" /\ x.mComplete = r.mComplete /\ x.mFailed = r.mFailed
        /\ x.mFailedCodes = r.mFailedCodes /\ x.folders = r.folders
        /\ x.deferred = r.deferred /\ x.compacted = r.compacted
        /\ x.told = << >> /\ x.expunging = {}
    BY <1>1 DEF BatchRecord, Requeued
  <1>4. x \in BatchRecord
    BY <1>1, <1>2, EmptyParts DEF BatchRecord, Requeued
  <1>5. Shared(x)
    BY <1>3, EmptyParts DEF Serving, GoodBatch, Shared
  <1>6. Phases(x)
    BY <1>3 DEF Phases, Early
  <1>7. Coded(x)
    BY <1>3 DEF Serving, GoodBatch, Coded
  <1>8. Passes(x)
    <2>1. \A i \in DOMAIN x.mFailed : x.mFailedCodes[i] # "unexpected"
      BY <1>3, NoneGivenUp
    <2>2. \A f \in Range(x.mQueue) : x.deferred[f] = x.mAttempt
      BY <1>3 DEF Serving, GoodBatch, Passes
    <2>3. Range(x.mRetry) = {}
      BY <1>3, EmptyParts
    <2> QED
      BY <1>2, <1>3, <2>1, <2>2, <2>3 DEF Passes
  <1> QED
    BY <1>3, <1>4, <1>5, <1>6, <1>7, <1>8 DEF Serving, GoodBatch

\* What was put off is given up, whichever way StartNext does it.
GivenUp(r) ==
    [r EXCEPT !.mAttempt = @ + 1, !.mRetry = << >>, !.mFailed = @ \o r.mRetry,
              !.mFailedCodes = @ \o [i \in 1 .. Len(r.mRetry) |-> "unexpected"]]

LEMMA GivenUpBothWays ==
    ASSUME NEW r \in BatchRecord, r.mQueue = << >>,
           NEW y, y = [r EXCEPT !.mAttempt = @ + 1]
    PROVE  /\ [FailAll(y, y.mRetry) EXCEPT !.mRetry = << >>] = GivenUp(r)
           /\ [FailAll(Requeued(y), y.mRetry) EXCEPT !.mQueue = << >>] = GivenUp(r)
  <1>1. y.mRetry = r.mRetry
    BY DEF BatchRecord
  <1>2. [FailAll(y, r.mRetry) EXCEPT !.mRetry = << >>] = GivenUp(r)
    BY DEF BatchRecord, FailAll, GivenUp
  <1>3. [FailAll(Requeued(y), r.mRetry) EXCEPT !.mQueue = << >>] = GivenUp(r)
    BY DEF BatchRecord, FailAll, GivenUp, Requeued
  <1> QED
    BY <1>1, <1>2, <1>3

LEMMA GivenUpGood ==
    ASSUME NEW r, Serving(r), r.mQueue = << >>, r.mRetry # << >>, r.phase # "running",
           OutOfRetries(r.mAttempt + 1) \/ FALSE \in Outcome("timer"),
           NEW x, x = GivenUp(r)
    PROVE  Serving(x) /\ x.phase = r.phase
  <1> DEFINE codes == [i \in 1 .. Len(r.mRetry) |-> "unexpected"]
  <1>1. r \in BatchRecord /\ r.told = << >> /\ r.expunging = {}
    BY ServingFacts
  <1>2. /\ r.mRetry \in Seq(Folders) /\ r.mFailed \in Seq(Folders)
        /\ r.mFailedCodes \in Seq(Codes) /\ Len(r.mFailedCodes) = Len(r.mFailed)
        /\ r.mAttempt \in 0 .. kMaxAttempts /\ r.mAttempt < kMaxAttempts
    BY <1>1 DEF BatchRecord, Serving, GoodBatch, Coded, Passes
  <1>3. /\ codes \in Seq(Codes) /\ Len(codes) = Len(r.mRetry)
        /\ \A i \in 1 .. Len(r.mRetry) : codes[i] = "unexpected"
    <2>1. Len(r.mRetry) \in Nat
      BY <1>2, LenProperties
    <2> QED
      BY <2>1 DEF Codes
  <1> HIDE DEF codes
  <1>4. /\ r.mFailedCodes \o codes \in Seq(Codes)
        /\ Len(r.mFailedCodes \o codes) = Len(r.mFailed \o r.mRetry)
        /\ DOMAIN (r.mFailedCodes \o codes) = DOMAIN (r.mFailed \o r.mRetry)
        /\ \A i \in DOMAIN (r.mFailedCodes \o codes) :
             \/ /\ i \in DOMAIN r.mFailedCodes /\ i \in DOMAIN r.mFailed
                /\ (r.mFailedCodes \o codes)[i] = r.mFailedCodes[i]
             \/ /\ (r.mFailedCodes \o codes)[i] = "unexpected"
                /\ (r.mFailed \o r.mRetry)[i] \in Range(r.mRetry)
    BY <1>2, <1>3, JoinedBoth, Zenon
  <1>5. r.mAttempt + 1 \in 0 .. kMaxAttempts
    BY <1>2, AttemptsAssumption
  <1>6. r.mAttempt + 1 = kMaxAttempts \/ FALSE \in Outcome("timer")
    <2>1. OutOfRetries(r.mAttempt + 1) => r.mAttempt + 1 = kMaxAttempts
      BY <1>2, AttemptsAssumption DEF OutOfRetries
    <2> QED
      BY <2>1
  <1>7. /\ r.mFailed \o r.mRetry \in Seq(Folders)
        /\ Range(r.mFailed \o r.mRetry) = Range(r.mFailed) \cup Range(r.mRetry)
        /\ IsInjective(r.mFailed) /\ IsInjective(r.mRetry)
             /\ Range(r.mFailed) \cap Range(r.mRetry) = {} => IsInjective(r.mFailed \o r.mRetry)
    BY <1>2, Joined
  <1>8. /\ x.mQueue = << >> /\ x.mRetry = << >> /\ x.mAttempt = r.mAttempt + 1
        /\ x.mFailed = r.mFailed \o r.mRetry /\ x.mFailedCodes = r.mFailedCodes \o codes
        /\ x.phase = r.phase /\ x.mComplete = r.mComplete /\ x.folders = r.folders
        /\ x.deferred = r.deferred /\ x.compacted = r.compacted
        /\ x.told = << >> /\ x.expunging = {}
    BY <1>1 DEF BatchRecord, GivenUp, codes
  <1>9. x \in BatchRecord
    BY <1>1, <1>4, <1>5, <1>7, EmptyParts DEF BatchRecord, GivenUp, codes
  <1>10. Shared(x)
    BY <1>7, <1>8, EmptyParts DEF Serving, GoodBatch, Shared
  <1>11. Phases(x)
    BY <1>8 DEF Serving, Phases, Early
  <1>12. Coded(x)
    BY <1>4, <1>8 DEF Serving, GoodBatch, Coded
  <1>13. Passes(x)
    <2>1. \A f \in Range(r.mRetry) : r.deferred[f] = r.mAttempt + 1
      BY DEF Serving, GoodBatch, Passes
    <2>2. \A i \in DOMAIN x.mFailed :
             x.mFailedCodes[i] = "unexpected" => x.deferred[x.mFailed[i]] = x.mAttempt
      <3> TAKE i \in DOMAIN x.mFailed
      <3>1. CASE i \in DOMAIN r.mFailed /\ x.mFailedCodes[i] = r.mFailedCodes[i]
        BY <3>1, NoneGivenUp
      <3>2. CASE x.mFailed[i] \in Range(r.mRetry)
        BY <1>8, <2>1, <3>2
      <3> QED
        BY <1>4, <1>8, <3>1, <3>2
    <2> QED
      BY <1>6, <1>8, <2>2, EmptyParts DEF Passes
  <1> QED
    BY <1>8, <1>9, <1>10, <1>11, <1>12, <1>13 DEF Serving, GoodBatch

\* The compaction of the next folder begins.
LEMMA RunningGood ==
    ASSUME NEW r, Serving(r), r.mQueue # << >>,
           NEW x, x = [r EXCEPT !.phase = "running"]
    PROVE  Serving(x) /\ x.phase = "running" /\ x.mQueue = r.mQueue
  <1>1. r \in BatchRecord /\ r.told = << >> /\ r.expunging = {}
    BY ServingFacts
  <1>2. /\ x.mQueue = r.mQueue /\ x.mRetry = r.mRetry /\ x.mAttempt = r.mAttempt
        /\ x.mFailed = r.mFailed /\ x.mFailedCodes = r.mFailedCodes /\ x.phase = "running"
        /\ x.mComplete = r.mComplete /\ x.folders = r.folders /\ x.deferred = r.deferred
        /\ x.compacted = r.compacted /\ x.told = << >> /\ x.expunging = {}
        /\ x \in BatchRecord
    BY <1>1 DEF BatchRecord
  <1>3. Shared(x) /\ Passes(x)
    BY <1>2 DEF Serving, GoodBatch, Shared, Passes
  <1>4. Phases(x) /\ Coded(x)
    BY <1>2 DEF Serving, GoodBatch, Phases, Early, Coded
  <1> QED
    BY <1>2, <1>3, <1>4 DEF Serving, GoodBatch

\* Nothing is left, and the listener is told.
LEMMA FinishedGood ==
    ASSUME NEW r, Serving(r), r.mQueue = << >>, r.mRetry = << >>,
           NEW x, x = [r EXCEPT !.phase = "done", !.told = Append(@, Status(r))]
    PROVE  GoodBatch(x) /\ x.phase = "done"
  <1>1. r \in BatchRecord /\ r.told = << >> /\ r.expunging = {}
    BY ServingFacts
  <1>2. r.mFailedCodes \in Seq(Codes)
    BY <1>1 DEF BatchRecord
  <1>3. Status(r) \in Codes
    <2>1. r.mFailedCodes # << >> => 1 \in 1 .. Len(r.mFailedCodes)
      BY <1>2, EmptySeq
    <2>2. r.mFailedCodes # << >> => r.mFailedCodes[1] \in Codes
      BY <1>2, <2>1, ElementOfSeq
    <2> QED
      BY <2>2 DEF Status, Codes
  <1> DEFINE t == Append(<< >>, Status(r))
  <1>4. t \in Seq(Codes) /\ Len(t) = 1 /\ t[1] = Status(r)
    BY <1>3
  <1> HIDE DEF t
  <1>5. /\ x.mQueue = << >> /\ x.mRetry = << >> /\ x.mAttempt = r.mAttempt
        /\ x.mFailed = r.mFailed /\ x.mFailedCodes = r.mFailedCodes /\ x.phase = "done"
        /\ x.mComplete = r.mComplete /\ x.folders = r.folders /\ x.deferred = r.deferred
        /\ x.compacted = r.compacted /\ x.told = t /\ x.expunging = {}
        /\ x \in BatchRecord
    BY <1>1, <1>4 DEF BatchRecord, t
  <1>6. Shared(x) /\ Passes(x)
    <2>1. Shared(r) /\ Passes(r)
      BY DEF Serving, GoodBatch
    <2>2. Shared(x)
      BY <1>5, <2>1 DEF Shared
    <2>3. Passes(x)
      BY <1>5, <2>1, ZenonT(30) DEF Passes
    <2> QED
      BY <2>2, <2>3
  <1>7. Phases(x)
    BY <1>4, <1>5 DEF Phases, Early
  <1>8. Coded(x)
    BY <1>4, <1>5 DEF Serving, GoodBatch, Coded, Status
  <1> QED
    BY <1>5, <1>6, <1>7, <1>8 DEF GoodBatch

-----------------------------------------------------------------------------
(* The actions.                                                            *)

\* Most actions change one request that has no compaction running and starts none.
LEMMA OneChanged ==
    ASSUME IInv, NEW b \in Batches, NEW x, GoodBatch(x),
           batch' = [batch EXCEPT ![b] = x],
           batch[b].phase # "running", x.phase # "running",
           thread' \in {b, None}, thread' = b => x.phase \in {"queued", "waiting"},
           holder' = holder, active' = active, expunged' = expunged
    PROVE  IInv'
  <1>1. batch \in [Batches -> BatchRecord] /\ x \in BatchRecord
    BY DEF IInv, TypeOK, BatchRecord, GoodBatch
  <1>2. batch'[b] = x /\ \A c \in Batches : c # b => batch'[c] = batch[c]
    BY <1>1
  <1>3. \A c \in Batches : GoodBatch(batch'[c])
    BY <1>2 DEF IInv
  <1>4. TypeOK'
    <2>1. batch' \in [Batches -> BatchRecord]
      BY <1>1
    <2>2. thread' \in Batches \cup {None}
      BY DEF IInv, TypeOK
    <2>3. thread' # None => batch'[thread'].phase \in {"queued", "waiting"}
      BY <1>2
    <2> QED
      BY <2>1, <2>2, <2>3 DEF IInv, TypeOK, BatchRecord
  <1>5. OneAtATime'
    BY <1>2 DEF IInv, OneAtATime
  <1> QED
    BY <1>3, <1>4, <1>5 DEF IInv, GoodBatch, Shared, Phases, Coded, Passes

LEMMA UnservedFacts ==
    ASSUME IInv, NEW b \in Batches, batch[b].phase \in {"new", "dispatched"}
    PROVE  Unserved(batch[b])
  BY DEF IInv, GoodBatch, Phases, Early, Unserved

LEMMA ServedFacts ==
    ASSUME IInv, NEW b \in Batches, batch[b].phase \in {"queued", "running", "waiting"}
    PROVE  Serving(batch[b])
  BY DEF IInv, Serving

LEMMA CompactDirectlyKeeps ==
    ASSUME IInv, NEW b \in Batches, NEW fs \in Distinct, CompactDirectly(b, fs)
    PROVE  IInv'
  <1> DEFINE r == [batch[b] EXCEPT !.caller = "direct"]
  <1>1. Unserved(batch[b]) /\ batch[b].phase = "new"
    BY UnservedFacts DEF CompactDirectly
  <1>2. Unserved(r)
    BY <1>1 DEF Unserved, BatchRecord, Kinds, Untouched
  <1>3. PICK x \in AsyncCompactFolders(r, fs) : batch' = [batch EXCEPT ![b] = x]
    BY DEF CompactDirectly
  <1>4. GoodBatch(x) /\ x.phase \in {"queued", "refused", "done"}
    BY <1>2, <1>3, AsyncGood
  <1>5. thread' = None /\ UNCHANGED <<holder, active, expunged>>
    BY DEF CompactDirectly, InEventLoop
  <1>6. thread' = b => x.phase \in {"queued", "waiting"}
    BY <1>5, NoneAssumption
  <1> QED
    BY <1>1, <1>3, <1>4, <1>5, <1>6, OneChanged

LEMMA ExpungeAndCompactKeeps ==
    ASSUME IInv, NEW b \in Batches, NEW f \in Folders, ExpungeAndCompact(b, f)
    PROVE  IInv'
  <1> DEFINE r == batch[b]
             fs == <<f>>
             s == [r EXCEPT !.caller = "one", !.asked = fs]
  <1>1. Unserved(r) /\ r.phase = "new" /\ r \in BatchRecord /\ r.expunging = {}
    BY UnservedFacts DEF ExpungeAndCompact, Unserved
  <1>2. "one" \in Kinds /\ fs \in Seq(Folders) /\ fs # << >> /\ {f} \subseteq Folders
    BY DEF Kinds
  <1>3. thread' = None /\ UNCHANGED <<holder, active, expunged>> /\ thread' # b
    BY NoneAssumption DEF ExpungeAndCompact, InEventLoop
  <1>4. \/ batch' = [batch EXCEPT ![b] = [s EXCEPT !.phase = "dispatched"]]
        \/ batch' = [batch EXCEPT ![b] = [s EXCEPT !.phase = "expunging", !.expunging = {f}]]
        \/ batch' = [batch EXCEPT ![b] = [s EXCEPT !.phase = "refused"]]
    BY DEF ExpungeAndCompact
  <1>5. /\ \A phase : [s EXCEPT !.phase = phase] = Waits(r, "one", fs, phase, {})
        /\ [s EXCEPT !.phase = "expunging", !.expunging = {f}] =
             Waits(r, "one", fs, "expunging", {f})
    BY <1>1 DEF BatchRecord, Waits
  <1> HIDE DEF s, fs
  <1>6. /\ GoodBatch(Waits(r, "one", fs, "dispatched", {}))
        /\ Waits(r, "one", fs, "dispatched", {}).phase = "dispatched"
    BY <1>1, <1>2, WaitingGood
  <1>7. /\ GoodBatch(Waits(r, "one", fs, "expunging", {f}))
        /\ Waits(r, "one", fs, "expunging", {f}).phase = "expunging"
    BY <1>1, <1>2, WaitingGood
  <1>8. /\ GoodBatch(Waits(r, "one", fs, "refused", {}))
        /\ Waits(r, "one", fs, "refused", {}).phase = "refused"
    BY <1>1, <1>2, WaitingGood
  <1>9. PICK x : /\ batch' = [batch EXCEPT ![b] = x]
                 /\ GoodBatch(x) /\ x.phase # "running"
    BY <1>4, <1>5, <1>6, <1>7, <1>8
  <1> QED
    BY <1>1, <1>3, <1>9, OneChanged

LEMMA CompactAllKeeps ==
    ASSUME IInv, NEW b \in Batches, NEW fs \in Distinct, NEW started \in SUBSET Folders,
           CompactAll(b, fs, started)
    PROVE  IInv'
  <1> DEFINE r == batch[b]
             s == [r EXCEPT !.caller = "all", !.asked = fs]
  <1>1. Unserved(r) /\ r.phase = "new" /\ r \in BatchRecord /\ r.expunging = {}
    BY UnservedFacts DEF CompactAll, Unserved
  <1>2. fs \in Seq(Folders) /\ "all" \in Kinds
    BY DistinctTyped DEF Kinds
  <1>3. thread' = None /\ UNCHANGED <<holder, active, expunged>> /\ thread' # b
    BY NoneAssumption DEF CompactAll, InEventLoop
  <1>4. Unserved(s)
    BY <1>1, <1>2 DEF Unserved, BatchRecord, Untouched
  <1>5. CASE batch' = [batch EXCEPT ![b] = [s EXCEPT !.phase = "dispatched"]]
    <2> DEFINE x == Waits(r, "all", fs, "dispatched", {})
    <2>1. [s EXCEPT !.phase = "dispatched"] = x
      BY <1>1 DEF BatchRecord, Waits
    <2>2. GoodBatch(x) /\ x.phase = "dispatched"
      BY <1>1, <1>2, WaitingGood
    <2> HIDE DEF x, s
    <2> QED
      BY <1>1, <1>3, <1>5, <2>1, <2>2, OneChanged
  <1>6. CASE batch' = [batch EXCEPT ![b] = [s EXCEPT !.phase = "expunging",
                                                     !.expunging = started]]
    <2> DEFINE x == Waits(r, "all", fs, "expunging", started)
    <2>1. [s EXCEPT !.phase = "expunging", !.expunging = started] = x
      BY <1>1 DEF BatchRecord, Waits
    <2>2. GoodBatch(x) /\ x.phase = "expunging"
      BY <1>1, <1>2, WaitingGood
    <2> HIDE DEF x, s
    <2> QED
      BY <1>1, <1>3, <1>6, <2>1, <2>2, OneChanged
  <1>7. CASE \E x \in AsyncCompactFolders(s, fs) : batch' = [batch EXCEPT ![b] = x]
    <2>1. PICK x \in AsyncCompactFolders(s, fs) : batch' = [batch EXCEPT ![b] = x]
      BY <1>7
    <2>2. GoodBatch(x) /\ x.phase \in {"queued", "refused", "done"}
      BY <1>4, AsyncGood
    <2> QED
      BY <1>1, <1>3, <2>1, <2>2, OneChanged
  <1> QED
    BY <1>5, <1>6, <1>7 DEF CompactAll

LEMMA DispatchedKeeps ==
    ASSUME IInv, NEW b \in Batches, Dispatched(b)
    PROVE  IInv'
  <1>1. Unserved(batch[b]) /\ batch[b].phase = "dispatched"
    BY UnservedFacts DEF Dispatched
  <1>2. PICK x \in DoCompact(batch[b]) : batch' = [batch EXCEPT ![b] = x]
    BY DEF Dispatched
  <1>3. GoodBatch(x) /\ x.phase \in {"queued", "refused", "done"}
    BY <1>1, DoCompactGood
  <1>4. thread' = None /\ UNCHANGED <<holder, active, expunged>> /\ thread' # b
    BY NoneAssumption DEF Dispatched, InEventLoop
  <1> QED
    BY <1>1, <1>2, <1>3, <1>4, OneChanged

\* The last expunge leaves a request that waits for nothing.
LEMMA ExpungeDoneKeeps ==
    ASSUME IInv, NEW b \in Batches, NEW f \in Folders, ExpungeDone(b, f)
    PROVE  IInv'
  <1> DEFINE r == batch[b]
             s == [r EXCEPT !.expunging = @ \ {f}]
  <1>1. GoodBatch(r) /\ r \in BatchRecord /\ r.phase = "expunging"
    BY DEF IInv, GoodBatch, Phases, ExpungeDone
  <1>2. Untouched(r) /\ r.told = << >>
    BY <1>1 DEF GoodBatch, Phases, Early
  <1>3. s \in BatchRecord /\ Untouched(s) /\ s.told = << >> /\ s.phase = "expunging"
        /\ s.expunging = r.expunging \ {f} /\ s.caller = r.caller /\ s.asked = r.asked
    BY <1>1, <1>2 DEF BatchRecord, Untouched
  <1>4. thread' = None /\ UNCHANGED <<holder, active, expunged>> /\ thread' # b
    BY NoneAssumption DEF ExpungeDone, InEventLoop
  <1>5. CASE LastExpunge(r, f)
    <2>1. PICK x \in DoCompact(s) : batch' = [batch EXCEPT ![b] = x]
      BY <1>5 DEF ExpungeDone
    <2> HIDE DEF s
    <2>2. Unserved(s)
      BY <1>3, <1>5 DEF Unserved, LastExpunge
    <2>3. GoodBatch(x) /\ x.phase \in {"queued", "refused", "done"}
      BY <2>2, DoCompactGood
    <2> QED
      BY <1>1, <1>4, <2>1, <2>3, OneChanged
  <1>6. CASE ~LastExpunge(r, f)
    <2>1. batch' = [batch EXCEPT ![b] = s]
      BY <1>6 DEF ExpungeDone
    <2> HIDE DEF s
    <2>2. Phases(s)
      BY <1>1, <1>3 DEF GoodBatch, Phases, Early
    <2>3. GoodBatch(s)
      BY <1>3, <2>2, UntouchedGood
    <2> QED
      BY <1>1, <1>3, <1>4, <2>1, <2>3, OneChanged
  <1> QED
    BY <1>5, <1>6

LEMMA StartNextKeeps ==
    ASSUME IInv, NEW b \in Batches, Kickoff(b) \/ RetryTimerCallback(b)
    PROVE  IInv'
  <1>1. /\ thread' = b /\ batch' = batch /\ batch[b].phase \in {"queued", "waiting"}
        /\ UNCHANGED <<holder, active, expunged>>
    BY DEF Kickoff, RetryTimerCallback
  <1>2. TypeOK'
    BY <1>1 DEF IInv, TypeOK
  <1>3. OneAtATime'
    BY <1>1 DEF IInv, OneAtATime
  <1>4. \A c \in Batches : GoodBatch(batch'[c])
    BY <1>1 DEF IInv
  <1> QED
    BY <1>2, <1>3, <1>4 DEF IInv, GoodBatch, Shared, Phases, Coded, Passes

LEMMA RetryKeeps ==
    ASSUME IInv, NEW b \in Batches, Retry(b)
    PROVE  IInv'
  <1> DEFINE r == batch[b]
             y == [r EXCEPT !.mAttempt = @ + 1]
  <1>1. Serving(r) /\ r.phase \in {"queued", "waiting"} /\ r \in BatchRecord
    BY NoneAssumption, ServedFacts, ServingFacts DEF Retry, IInv, TypeOK
  <1>2. r.mQueue = << >> /\ r.mRetry # << >> /\ UNCHANGED <<holder, active, expunged>>
    BY DEF Retry
  <1>3. y.mAttempt = r.mAttempt + 1
    BY <1>1 DEF BatchRecord
  <1>4. CASE /\ OutOfRetries(y.mAttempt) \/ FALSE \in Outcome("timer")
             /\ batch' = [batch EXCEPT ![b] = GivenUp(r)]
             /\ thread' = b
    <2>1. Serving(GivenUp(r)) /\ GivenUp(r).phase = r.phase
      BY <1>1, <1>2, <1>3, <1>4, GivenUpGood
    <2> QED
      BY <1>1, <1>2, <1>4, <2>1, OneChanged DEF Serving
  <1>5. CASE /\ ~OutOfRetries(y.mAttempt)
             /\ batch' = [batch EXCEPT ![b] = [Requeued(y) EXCEPT !.phase = "waiting"]]
             /\ thread' = None
    <2> DEFINE x == [Requeued(y) EXCEPT !.phase = "waiting"]
    <2>1. Serving(x) /\ x.phase = "waiting"
      BY <1>1, <1>2, <1>3, <1>5, RequeuedGood
    <2> HIDE DEF x, y
    <2> QED
      BY <1>1, <1>2, <1>5, <2>1, OneChanged, NoneAssumption DEF Serving, x
  <1>6. /\ [FailAll(y, y.mRetry) EXCEPT !.mRetry = << >>] = GivenUp(r)
        /\ [FailAll(Requeued(y), y.mRetry) EXCEPT !.mQueue = << >>] = GivenUp(r)
    BY <1>1, <1>2, GivenUpBothWays
  <1> QED
    BY <1>4, <1>5, <1>6 DEF Retry

LEMMA DeferKeeps ==
    ASSUME IInv, NEW b \in Batches, Defer(b)
    PROVE  IInv'
  <1> DEFINE r == batch[b]
             f == Last(r.mQueue)
             x == [r EXCEPT !.mQueue = Front(@), !.mRetry = Append(@, f),
                            !.deferred = [r.deferred EXCEPT ![f] = r.deferred[f] + 1]]
  <1>1. Serving(r) /\ r.phase \in {"queued", "waiting"} /\ r \in BatchRecord
    BY NoneAssumption, ServedFacts, ServingFacts DEF Defer, IInv, TypeOK
  <1>2. r.mQueue # << >> /\ thread' = b /\ UNCHANGED <<holder, active, expunged>>
    BY DEF Defer
  <1>3. batch' = [batch EXCEPT ![b] = x]
    BY <1>1 DEF Defer, BatchRecord, IInv, TypeOK
  <1>4. Serving(x) /\ x.phase = r.phase
    BY <1>1, <1>2, DeferGood
  <1> HIDE DEF x
  <1> QED
    BY <1>1, <1>2, <1>3, <1>4, OneChanged DEF Serving

LEMMA BeginKeeps ==
    ASSUME IInv, NEW b \in Batches, Begin(b)
    PROVE  IInv'
  <1> DEFINE r == batch[b]
             f == Last(r.mQueue)
  <1>1. Serving(r) /\ r.phase \in {"queued", "waiting"} /\ r \in BatchRecord
    BY NoneAssumption, ServedFacts, ServingFacts DEF Begin, IInv, TypeOK
  <1>2. r.mQueue # << >> /\ UNCHANGED <<active, expunged>>
    BY DEF Begin
  <1>3. f \in Folders
    BY <1>1, <1>2, Popped DEF BatchRecord, Serving, GoodBatch, Shared
  <1>4. batch \in [Batches -> BatchRecord] /\ holder \in [Folders -> Batches \cup {None, "other"}]
    BY DEF IInv, TypeOK, BatchRecord
  <1>5. CASE /\ Free(f)
             /\ holder' = [holder EXCEPT ![f] = b]
             /\ batch' = [batch EXCEPT ![b].phase = "running"]
             /\ thread' = None
    <2> DEFINE x == [r EXCEPT !.phase = "running"]
    <2>1. Serving(x) /\ x.phase = "running" /\ x.mQueue = r.mQueue
      BY <1>1, <1>2, RunningGood
    <2>2. batch' = [batch EXCEPT ![b] = x]
      BY <1>5
    <2> HIDE DEF x
    <2>3. batch'[b] = x /\ \A c \in Batches : c # b => batch'[c] = batch[c]
      BY <1>4, <2>2
    <2>4. x \in BatchRecord /\ GoodBatch(x)
      BY <2>1 DEF Serving, GoodBatch
    <2>5. \A c \in Batches : GoodBatch(batch'[c])
      BY <2>3, <2>4 DEF IInv
    <2>6. TypeOK'
      <3>1. batch' \in [Batches -> BatchRecord]
        BY <1>4, <2>2, <2>4
      <3>2. holder' \in [Folders -> Batches \cup {None, "other"}]
        BY <1>3, <1>4, <1>5
      <3> QED
        BY <1>2, <1>5, <3>1, <3>2 DEF IInv, TypeOK, BatchRecord
    <2>7. OneAtATime'
      <3>1. SUFFICES ASSUME NEW c \in Batches, NEW g \in Folders
                     PROVE  holder'[g] = c <=>
                              batch'[c].phase = "running" /\ Last(batch'[c].mQueue) = g
        BY DEF OneAtATime
      <3>2. holder'[g] = IF g = f THEN b ELSE holder[g]
        BY <1>3, <1>4, <1>5
      <3>3. holder[g] = c <=> batch[c].phase = "running" /\ Last(batch[c].mQueue) = g
        BY DEF IInv, OneAtATime
      <3>4. holder[f] # c
        BY <1>5, NoneAssumption DEF Free
      <3>5. CASE c = b
        <4>1. holder[g] # b
          BY <1>1, <3>3, <3>5
        <4> QED
          BY <2>1, <2>3, <3>2, <3>5, <4>1
      <3>6. CASE c # b
        BY <2>3, <3>2, <3>3, <3>4, <3>6
      <3> QED
        BY <3>5, <3>6
    <2> QED
      BY <2>5, <2>6, <2>7 DEF IInv, GoodBatch, Shared, Phases, Coded, Passes
  <1>6. CASE /\ \E code \in {"busy", "error"} : batch' = [batch EXCEPT ![b] = Failed(r, code)]
             /\ UNCHANGED <<holder, thread>>
    <2>1. PICK code \in {"busy", "error"} : batch' = [batch EXCEPT ![b] = Failed(r, code)]
      BY <1>6
    <2>2. Failed(r, code) = [Failed(r, code) EXCEPT !.phase = r.phase]
      BY <1>1 DEF Failed, BatchRecord
    <2>3. Serving(Failed(r, code)) /\ Failed(r, code).phase = r.phase
      BY <1>1, <1>2, <2>2, FailedGood
    <2>4. thread' = b
      BY <1>6 DEF Begin
    <2> QED
      BY <1>1, <1>2, <1>6, <2>1, <2>3, <2>4, OneChanged DEF Serving
  <1> QED
    BY <1>5, <1>6 DEF Begin

LEMMA FinishKeeps ==
    ASSUME IInv, NEW b \in Batches, Finish(b)
    PROVE  IInv'
  <1> DEFINE r == batch[b]
             x == [r EXCEPT !.phase = "done", !.told = Append(@, Status(r))]
  <1>1. Serving(r) /\ r.phase \in {"queued", "waiting"} /\ r \in BatchRecord
    BY NoneAssumption, ServedFacts, ServingFacts DEF Finish, IInv, TypeOK
  <1>2. /\ r.mQueue = << >> /\ r.mRetry = << >> /\ thread' = None
        /\ UNCHANGED <<holder, active, expunged>>
    BY DEF Finish
  <1>3. batch' = [batch EXCEPT ![b] = x]
    BY <1>1 DEF Finish, BatchRecord, IInv, TypeOK
  <1>4. GoodBatch(x) /\ x.phase = "done"
    BY <1>1, <1>2, FinishedGood
  <1> HIDE DEF x
  <1> QED
    BY <1>1, <1>2, <1>3, <1>4, OneChanged, NoneAssumption

LEMMA OnDoneKeeps ==
    ASSUME IInv, NEW b \in Batches, NEW f \in Folders, OnDone(b, f)
    PROVE  IInv'
  <1> DEFINE r == batch[b]
  <1>1. r.phase = "running" /\ f = Last(r.mQueue) /\ thread' = b
    BY DEF OnDone, IInv, OneAtATime
  <1>2. Serving(r) /\ r.mQueue # << >>
    BY <1>1, ServedFacts DEF Serving, GoodBatch, Phases
  <1>3. PICK x : /\ batch' = [batch EXCEPT ![b] = x]
                 /\ Serving(x) /\ x.phase = "queued"
    <2>1. CASE batch' = [batch EXCEPT ![b] = [Completed(r) EXCEPT
                             !.phase = "queued", !.compacted = @ \cup {f}]]
      <3> DEFINE x == [Completed(r) EXCEPT !.phase = "queued", !.compacted = @ \cup {f}]
      <3>1. Serving(x) /\ x.phase = "queued"
        BY <1>1, <1>2, CompletedGood
      <3> HIDE DEF x
      <3> QED
        BY <2>1, <3>1 DEF x
    <2>2. CASE batch' = [batch EXCEPT ![b] = [Failed(r, "error") EXCEPT !.phase = "queued"]]
      <3> DEFINE x == [Failed(r, "error") EXCEPT !.phase = "queued"]
      <3>1. Serving(x) /\ x.phase = "queued"
        BY <1>2, FailedGood
      <3> HIDE DEF x
      <3> QED
        BY <2>2, <3>1 DEF x
    <2> QED
      BY <2>1, <2>2 DEF OnDone
  <1>4. /\ holder' = [holder EXCEPT ![f] = None] /\ holder[f] = b
        /\ active' = active /\ expunged' \subseteq expunged
    BY DEF OnDone
  <1>5. batch \in [Batches -> BatchRecord] /\ holder \in [Folders -> Batches \cup {None, "other"}]
    BY DEF IInv, TypeOK, BatchRecord
  <1>6. batch'[b] = x /\ \A c \in Batches : c # b => batch'[c] = batch[c]
    BY <1>3, <1>5
  <1>7. x \in BatchRecord /\ GoodBatch(x)
    BY <1>3 DEF Serving, GoodBatch
  <1>8. \A c \in Batches : GoodBatch(batch'[c])
    BY <1>6, <1>7 DEF IInv
  <1>9. TypeOK'
    <2>1. batch' \in [Batches -> BatchRecord]
      BY <1>3, <1>5, <1>7
    <2>2. holder' \in [Folders -> Batches \cup {None, "other"}]
      BY <1>4, <1>5
    <2>3. active' \subseteq Folders /\ expunged' \subseteq Folders
      BY <1>4 DEF IInv, TypeOK
    <2>4. thread' \in Batches \cup {None} /\ batch'[thread'].phase \in {"queued", "waiting"}
      BY <1>1, <1>3, <1>6
    <2> QED
      BY <2>1, <2>2, <2>3, <2>4 DEF TypeOK, BatchRecord
  <1>10. OneAtATime'
    <2>1. SUFFICES ASSUME NEW c \in Batches, NEW g \in Folders
                   PROVE  holder'[g] = c <=>
                            batch'[c].phase = "running" /\ Last(batch'[c].mQueue) = g
      BY DEF OneAtATime
    <2>2. holder'[g] = IF g = f THEN None ELSE holder[g]
      BY <1>4, <1>5
    <2>3. holder[g] = c <=> batch[c].phase = "running" /\ Last(batch[c].mQueue) = g
      BY DEF IInv, OneAtATime
    <2>4. None # c
      BY NoneAssumption
    <2>5. CASE c = b
      <3>1. batch'[c].phase # "running"
        BY <1>3, <1>6, <2>5
      <3>2. holder[g] = b => g = f
        BY <1>1, <2>3, <2>5
      <3> QED
        BY <2>2, <2>4, <2>5, <3>1, <3>2
    <2>6. CASE c # b
      BY <1>4, <1>6, <2>2, <2>3, <2>4, <2>6
    <2> QED
      BY <2>5, <2>6
  <1> QED
    BY <1>8, <1>9, <1>10 DEF IInv, GoodBatch, Shared, Phases, Coded, Passes

LEMMA OthersKeep ==
    ASSUME IInv, Others
    PROVE  IInv'
  <1>1. PICK f \in Folders :
          AcquireSemaphore(f) \/ ReleaseSemaphore(f) \/ ImapActivity(f) \/ DeleteMessage(f)
    BY DEF Others
  <1>2. batch' = batch /\ thread' = thread /\ active' \subseteq Folders /\ expunged' \subseteq Folders
    BY <1>1 DEF AcquireSemaphore, ReleaseSemaphore, ImapActivity, DeleteMessage, IInv, TypeOK
  <1>3. /\ holder' \in [Folders -> Batches \cup {None, "other"}]
        /\ \A g \in Folders, c \in Batches : holder'[g] = c <=> holder[g] = c
    <2>1. CASE holder' = holder
      BY <2>1 DEF IInv, TypeOK
    <2>2. CASE \E h \in {None, "other"} : holder' = [holder EXCEPT ![f] = h]
               /\ holder[f] \in {None, "other"}
      BY <2>2, NoneAssumption DEF IInv, TypeOK
    <2> QED
      BY <1>1, <2>1, <2>2
         DEF AcquireSemaphore, ReleaseSemaphore, ImapActivity, DeleteMessage, Free
  <1>4. TypeOK'
    BY <1>2, <1>3 DEF IInv, TypeOK
  <1>5. OneAtATime'
    BY <1>2, <1>3 DEF IInv, OneAtATime
  <1>6. \A c \in Batches : GoodBatch(batch'[c])
    BY <1>2 DEF IInv
  <1> QED
    BY <1>4, <1>5, <1>6 DEF IInv, GoodBatch, Shared, Phases, Coded, Passes

-----------------------------------------------------------------------------
(* The invariant, and what follows from it.                                *)

LEMMA InitInvariant == Init => IInv
  <1> SUFFICES ASSUME Init PROVE IInv
    OBVIOUS
  <1>1. \A b \in Batches : batch[b] = NewBatch
    BY DEF Init
  <1>2. NewBatch \in BatchRecord /\ NewBatch.phase = "new"
    BY NewGood DEF GoodBatch, NewBatch
  <1>3. TypeOK
    <2>1. batch \in [Batches -> BatchRecord]
      BY <1>2 DEF Init
    <2> QED
      BY <2>1 DEF Init, TypeOK, BatchRecord
  <1>4. OneAtATime
    BY <1>1, <1>2, NoneAssumption DEF Init, OneAtATime
  <1> QED
    BY <1>1, <1>3, <1>4, NewGood DEF IInv

LEMMA NextInvariant == IInv /\ [Next]_vars => IInv'
  <1> SUFFICES ASSUME IInv, [Next]_vars PROVE IInv'
    OBVIOUS
  <1>1. ASSUME NEW b \in Batches, Step(b)
        PROVE  IInv'
    BY <1>1, DispatchedKeeps, StartNextKeeps, RetryKeeps, DeferKeeps, BeginKeeps, FinishKeeps,
       ExpungeDoneKeeps, OnDoneKeeps DEF Step
  <1>2. ASSUME NEW b \in Batches, Request(b)
        PROVE  IInv'
    BY <1>2, CompactDirectlyKeeps, ExpungeAndCompactKeeps, CompactAllKeeps DEF Request
  <1>3. CASE Others
    BY <1>3, OthersKeep
  <1>4. CASE UNCHANGED vars
    <2>1. TypeOK' /\ OneAtATime'
      BY <1>4 DEF vars, IInv, TypeOK, OneAtATime
    <2>2. \A b \in Batches : GoodBatch(batch'[b])
      BY <1>4 DEF vars, IInv
    <2> QED
      BY <2>1, <2>2 DEF IInv, GoodBatch, Shared, Phases, Coded, Passes
  <1> QED
    BY <1>1, <1>2, <1>3, <1>4 DEF Next

\* The invariant of every request, of the thread and of the semaphores.
THEOREM BatchInvariant == Spec => []IInv
  BY InitInvariant, NextInvariant, PTL DEF Spec

\* Every variable keeps its type, and StartNext runs only for a batch that is queued or
\* waiting: mAttempt and the number of times a folder is put off never exceed
\* kMaxAttempts (FolderCompactor.cpp, StartNext).
THEOREM BatchTypeCorrect == Spec => []TypeOK
  <1>1. IInv => TypeOK
    BY DEF IInv
  <1> QED
    BY <1>1, BatchInvariant, PTL

\* The semaphore of a folder is held by a batch exactly while that batch compacts it,
\* and a batch compacts only the folder at the end of its queue.
THEOREM BatchOneAtATime == Spec => []OneAtATime
  <1>1. IInv => OneAtATime
    BY DEF IInv
  <1> QED
    BY <1>1, BatchInvariant, PTL

\* mQueue, mRetry, mComplete and mFailed share the folders of the batch out among them:
\* none is lost and none is listed twice, however often StartNext puts folders off.
THEOREM BatchEveryFolderAccounted == Spec => []EveryFolderAccounted
  <1>1. ASSUME IInv
        PROVE  EveryFolderAccounted
    <2>1. SUFFICES ASSUME NEW b \in Batches
                   PROVE  LET r == batch[b]
                              all == r.mQueue \o r.mRetry \o r.mComplete \o r.mFailed
                          IN  IsInjective(all) /\ Range(all) = Range(r.folders)
      BY DEF EveryFolderAccounted
    <2> DEFINE r == batch[b]
               u == r.mQueue \o r.mRetry
               v == u \o r.mComplete
               w == v \o r.mFailed
    <2>2. /\ r.mQueue \in Seq(Folders) /\ r.mRetry \in Seq(Folders)
          /\ r.mComplete \in Seq(Folders) /\ r.mFailed \in Seq(Folders)
      BY <1>1 DEF IInv, GoodBatch, BatchRecord
    <2>3. Shared(r)
      BY <1>1 DEF IInv, GoodBatch
    <2>4. u \in Seq(Folders) /\ Range(u) = Range(r.mQueue) \cup Range(r.mRetry) /\ IsInjective(u)
      BY <2>2, <2>3, Joined DEF Shared
    <2> HIDE DEF u
    <2>5. /\ v \in Seq(Folders) /\ Range(v) = Range(u) \cup Range(r.mComplete)
          /\ IsInjective(v)
      BY <2>2, <2>3, <2>4, Joined DEF Shared
    <2> HIDE DEF v
    <2>6. Range(w) = Range(v) \cup Range(r.mFailed) /\ IsInjective(w)
      BY <2>2, <2>3, <2>4, <2>5, Joined DEF Shared
    <2>7. IsInjective(w) /\ Range(w) = Range(r.folders)
      BY <2>3, <2>4, <2>5, <2>6 DEF Shared
    <2> QED
      BY <2>7 DEF u, v
  <1> QED
    BY <1>1, BatchInvariant, PTL

\* OnDone, which is not told which folder is done, books the right one.
THEOREM BatchCompletedWereCompacted == Spec => []CompletedWereCompacted
  <1>1. IInv => CompletedWereCompacted
    BY DEF IInv, GoodBatch, Shared, CompletedWereCompacted
  <1> QED
    BY <1>1, BatchInvariant, PTL

\* A folder is given up for IMAP activity only after it was found busy in every pass, as
\* many as kMaxAttempts unless the timer could not be set.
THEOREM BatchGivenUpAfterEveryAttempt == Spec => []GivenUpAfterEveryAttempt
  <1>1. IInv => GivenUpAfterEveryAttempt
    BY DEF IInv, GoodBatch, Passes, GivenUpAfterEveryAttempt
  <1> QED
    BY <1>1, BatchInvariant, PTL

\* The listener is told at most once, at the end, and NS_OK if and only if every folder
\* of the batch was compacted.
THEOREM BatchToldTheTruth == Spec => []ToldTheTruth
  <1>1. ASSUME IInv
        PROVE  ToldTheTruth
    <2>1. SUFFICES ASSUME NEW b \in Batches, batch[b].told # << >>
                   PROVE  /\ batch[b].phase = "done" /\ Len(batch[b].told) = 1
                          /\ batch[b].folders # << >> =>
                               (batch[b].told[1] = "ok" <=>
                                   Range(batch[b].folders) = batch[b].compacted)
      BY DEF ToldTheTruth
    <2> DEFINE r == batch[b]
    <2>2. r \in BatchRecord /\ Shared(r) /\ Phases(r) /\ Coded(r)
      BY <1>1 DEF IInv, GoodBatch
    <2>3. r.phase = "done" /\ Len(r.told) = 1 /\ r.mQueue = << >> /\ r.mRetry = << >>
      BY <2>1, <2>2 DEF Phases
    <2>4. r.mFailed \in Seq(Folders) /\ r.mFailedCodes \in Seq(Codes)
      BY <2>2 DEF BatchRecord
    <2>5. r.mFailedCodes = << >> <=> Range(r.mFailed) = {}
      <3>1. r.mFailedCodes = << >> <=> r.mFailed = << >>
        BY <2>2, <2>4, EmptySeq DEF Coded
      <3> QED
        BY <2>4, <3>1, EmptyParts
    <2>6. Status(r) = "ok" <=> r.mFailedCodes = << >>
      <3>1. r.mFailedCodes # << >> => 1 \in DOMAIN r.mFailedCodes
        BY <2>4, EmptySeq, LenProperties
      <3> QED
        BY <2>2, <3>1 DEF Coded, Status
    <2>7. Range(r.folders) = r.compacted <=> Range(r.mFailed) = {}
      BY <2>2, <2>3, EmptyParts DEF Shared
    <2>8. r.folders # << >> => r.told[1] = Status(r)
      BY <2>1, <2>2 DEF Coded
    <2> QED
      BY <2>3, <2>5, <2>6, <2>7, <2>8
  <1> QED
    BY <1>1, BatchInvariant, PTL

\* No folder of a CompactAll is compacted before the last of its expunges has ended.
THEOREM BatchExpungeFirst == Spec => []ExpungeFirst
  <1>1. IInv => ExpungeFirst
    BY DEF IInv, GoodBatch, Phases, ExpungeFirst, InBatch
  <1> QED
    BY <1>1, BatchInvariant, PTL

=============================================================================
