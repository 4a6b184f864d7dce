----------------------------- MODULE FeedsProofs -----------------------------
(***************************************************************************)
(* What holds of a reader's feeds for any number of feeds, addresses and   *)
(* entries, any policy, and any number of edits and faults.                *)
(***************************************************************************)
EXTENDS Feeds, FiniteSetTheorems, WellFoundedInduction, TLAPS

-----------------------------------------------------------------------------
(* How long to wait.                                                       *)

\* A power of two counts the subsets of a set, which makes it a number and ascending.
LEMMA PowerOfTwo ==
    ASSUME NEW n \in Nat
    PROVE  /\ 2 ^ n \in Nat
           /\ \A m \in 0 .. n : 2 ^ m <= 2 ^ n
  <1> DEFINE S(k) == SUBSET (1 .. k)
  <1>1. ASSUME NEW k \in Nat
        PROVE  IsFiniteSet(S(k)) /\ Cardinality(S(k)) = 2 ^ k
    <2>1. IsFiniteSet(1 .. k) /\ Cardinality(1 .. k) = k
      BY FS_Interval
    <2> QED BY <2>1, FS_SUBSET
  <1>2. 2 ^ n \in Nat
    BY <1>1, FS_CardinalityType
  <1>3. ASSUME NEW m \in 0 .. n
        PROVE  2 ^ m <= 2 ^ n
    <2>1. S(m) \in SUBSET S(n)
      OBVIOUS
    <2>2. IsFiniteSet(S(n)) /\ Cardinality(S(n)) = 2 ^ n /\ Cardinality(S(m)) = 2 ^ m
      BY <1>1
    <2> HIDE DEF S
    <2> QED BY <2>1, <2>2, FS_Subset
  <1> QED BY <1>2, <1>3

LEMMA Policy ==
    /\ Min \in Nat /\ Max \in Nat /\ Never \in Nat
    /\ 1 < Min /\ Min <= Max /\ Max + 1 < Never
    /\ \A d \in Cadence : d \in Nat /\ d > 0 /\ d + 1 < Never
  <1>1. Max + 1 < Never
    BY FeedsConstants
  <1> QED BY <1>1, FeedsConstants

LEMMA ClampType ==
    ASSUME NEW d \in Nat
    PROVE  /\ Clamp(d) \in Min .. Max
           /\ \A c \in 0 .. d : Clamp(c) <= Clamp(d)
  BY FeedsConstants DEF Clamp, Larger, Smaller

\* The back-off stays within the policy and never shrinks as failures add up.
THEOREM BackOff ==
    ASSUME NEW n \in Nat
    PROVE  /\ OnFailure(n) \in Min .. Max
           /\ \A m \in 0 .. n : OnFailure(m) <= OnFailure(n)
  <1> DEFINE e(k) == Smaller(Larger(k, 1) - 1, 32)
             d(k) == Min * 2 ^ e(k)
  <1>1. ASSUME NEW m \in 0 .. n
        PROVE  e(n) \in Nat /\ e(m) \in 0 .. e(n)
    BY DEF Larger, Smaller
  <1>2. ASSUME NEW m \in 0 .. n
        PROVE  d(n) \in Nat /\ d(m) \in 0 .. d(n)
    <2> DEFINE p == 2 ^ e(n)
               q == 2 ^ e(m)
    <2>1. p \in Nat /\ q \in Nat /\ q <= p
      <3> HIDE DEF e
      <3> QED BY <1>1, PowerOfTwo
    <2>2. Min \in Nat
      BY FeedsConstants
    <2> HIDE DEF e, p, q
    <2>3. Min * p \in Nat /\ Min * q \in Nat /\ Min * q <= Min * p
      BY <2>1, <2>2
    <2> QED BY <2>3 DEF p, q
  <1> HIDE DEF d
  <1>3. ASSUME NEW k \in Nat
        PROVE  OnFailure(k) = Clamp(d(k))
    BY DEF OnFailure, d
  <1>4. d(n) \in Nat
    BY <1>2
  <1> QED BY <1>2, <1>3, <1>4, ClampType

-----------------------------------------------------------------------------
(* Type correctness.  What it takes beside types: no id has a feed or a    *)
(* job before it is handed out, and a feed that is polled has failed fewer *)
(* times than disable it.                                                  *)

Column == [there : BOOLEAN, url : Address, etag : Entry \cup {None}, interval : Min .. Never,
           due : 0 .. Never, age : 0 .. Never, failures : 0 .. DisableAfter,
           disabled : BOOLEAN, override : PollChoices]

Holds == [at : Running \cup {"none", "queued"}, read : Column, answer : Entry \cup {None},
          todo : SUBSET Entry, new : BOOLEAN, edited : BOOLEAN]

RowsFit ==
    \A f \in Feed :
       /\ f >= nextId => ~row[f].there /\ job[f].at = "none"
       /\ ~row[f].disabled \/ job[f].at \in Running => row[f].failures < DisableAfter

ItemsFit ==
    /\ items \in [Feed -> SUBSET (Address \X Entry)]
    /\ \A f \in Feed : ~row[f].there => items[f] = {}

OneFeedEach == \A f, g \in Live : row[f].url = row[g].url => f = g

TypeInv ==
    /\ row \in [Feed -> Column] /\ job \in [Feed -> Holds]
    /\ nextId \in 1 .. MaxFeed + 1 /\ default \in PollChoices
    /\ version \in [Address -> Entry \cup {0}]
    /\ articles \subseteq Url /\ \A u \in articles : ~Refuses(u) /\ Canonicalize(u) = u
    /\ edits \in 0 .. MaxEdits /\ faults \in 0 .. MaxFaults
    /\ poisoned \in SUBSET Feed /\ behind \in SUBSET Feed /\ asked \in SUBSET Feed
    /\ RowsFit /\ ItemsFit /\ OneFeedEach

\* TypeInv says all that TypeOK does.
LEMMA TypeInvIsTyped == TypeInv => TypeOK
  BY DEF TypeInv, TypeOK, Column, Holds, ItemsFit, OneFeedEach

LEMMA NoFeedType == NoFeed \in Column /\ NoJob \in Holds
  BY FeedsConstants DEF NoFeed, NoJob, Column, Holds, None, PollChoices, Running

LEMMA EntryUpTo ==
    ASSUME NEW v \in Entry \cup {0}
    PROVE  v \in Nat /\ 1 .. v \subseteq Entry
  <1>1. Cardinality(Entry) \in Nat
    BY FeedsConstants, FS_CardinalityType
  <1> QED BY <1>1, FeedsConstants

LEMMA InitType == Init => TypeInv
  <1> SUFFICES ASSUME Init PROVE TypeInv
    OBVIOUS
  <1> USE DEF Init
  <1>1. row \in [Feed -> Column] /\ job \in [Feed -> Holds]
    BY NoFeedType
  <1>2. /\ nextId \in 1 .. MaxFeed + 1 /\ default \in PollChoices
        /\ version \in [Address -> Entry \cup {0}]
        /\ edits \in 0 .. MaxEdits /\ faults \in 0 .. MaxFaults
    BY FeedsConstants DEF PollChoices, None
  <1>3. RowsFit /\ ItemsFit /\ OneFeedEach
    BY FeedsConstants DEF RowsFit, ItemsFit, OneFeedEach, Live, NoFeed, NoJob
  <1> QED BY <1>1, <1>2, <1>3 DEF TypeInv

LEMMA NextIntervalType ==
    ASSUME NEW r \in Column, NEW choice \in PollChoices, NEW parsed \in BOOLEAN,
           NEW foundNew \in BOOLEAN
    PROVE  /\ NextInterval(r, choice, parsed, foundNew) \in Min .. Never
           /\ choice # None => NextInterval(r, choice, parsed, foundNew) = Chosen(choice)
  <1>1. choice # None => Chosen(choice) \in Min .. Never
    BY Policy DEF PollChoices, Chosen, Larger
  <1>2. r.interval \in Nat /\ r.url \in Address
    BY FeedsConstants DEF Column
  <1>3. /\ FromHint(r.url) \in Min .. Max
        /\ OnNewItems(r.interval) \in Min .. Max
        /\ OnNoChange(r.interval) \in Min .. Max
    <2>1. Hint[r.url] \in Nat
      BY <1>2, FeedsConstants
    <2>2. r.interval \div 2 \in Nat
      BY <1>2
    <2>3. (IF (3 * r.interval) \div 2 <= r.interval THEN r.interval + 1
           ELSE (3 * r.interval) \div 2) \in Nat
      BY <1>2
    <2> QED BY <2>1, <2>2, <2>3, ClampType DEF FromHint, OnNewItems, OnNoChange
  <1>4. Min .. Max \subseteq Min .. Never
    BY Policy
  <1> QED BY <1>1, <1>3, <1>4 DEF NextInterval

LEMMA FailureIntervalType ==
    ASSUME NEW r \in Column
    PROVE  /\ FailureInterval(r) \in Min .. Never
           /\ FailureInterval(r) >= OnFailure(r.failures + 1)
           /\ r.override # None => FailureInterval(r) >= Chosen(r.override)
  <1>1. OnFailure(r.failures + 1) \in Min .. Max
    <2>1. r.failures + 1 \in Nat
      BY FeedsConstants DEF Column
    <2> QED BY <2>1, BackOff
  <1>2. r.override # None => Chosen(r.override) \in Min .. Never
    BY Policy DEF Column, PollChoices, Chosen, Larger
  <1> QED BY <1>1, <1>2, Policy DEF FailureInterval, Larger

\* The choice in force is one that can be made.
LEMMA ChosenIntervalType ==
    ASSUME TypeInv, NEW f \in Feed
    PROVE  ChosenInterval(row[f]) \in PollChoices
  BY DEF TypeInv, Column, ChosenInterval

\* A step that moves jobs alone starts none for a feed that is gone or disabled.
LEMMA JobsMove ==
    ASSUME TypeInv, UNCHANGED <<row, nextId, items>>,
           \A f \in Feed :
              /\ job'[f].at # "none" => job[f].at # "none" \/ row[f].there
              /\ job'[f].at \in Running => job[f].at \in Running \/ ~row[f].disabled
    PROVE  RowsFit' /\ ItemsFit' /\ OneFeedEach'
  <1>1. RowsFit'
    BY DEF TypeInv, RowsFit
  <1>2. ItemsFit' /\ OneFeedEach'
    BY DEF TypeInv, ItemsFit, OneFeedEach, Live
  <1> QED BY <1>1, <1>2

LEMMA JobStepType ==
    ASSUME TypeInv,
           \/ ScheduleFeeds
           \/ \E f \in Feed : SkipPoll(f) \/ StartPoll(f) \/ Respond(f) \/ Retry(f)
    PROVE  TypeInv'
  <1> USE DEF At, bounds, history
  <1>1. CASE ScheduleFeeds
    <2> USE <1>1 DEF ScheduleFeeds
    <2>1. job' \in [Feed -> Holds]
      BY NoFeedType DEF TypeInv, Holds
    <2>2. RowsFit' /\ ItemsFit' /\ OneFeedEach'
      BY JobsMove DEF DueFeeds, Running, NoJob
    <2> QED BY <2>1, <2>2 DEF TypeInv
  <1>2. ASSUME NEW f \in Feed, SkipPoll(f)
        PROVE  TypeInv'
    <2> USE <1>2 DEF SkipPoll, Done
    <2>1. job' \in [Feed -> Holds]
      BY NoFeedType DEF TypeInv
    <2>2. RowsFit' /\ ItemsFit' /\ OneFeedEach'
      BY JobsMove DEF TypeInv, Running, NoJob
    <2> QED BY <2>1, <2>2 DEF TypeInv
  <1>3. ASSUME NEW f \in Feed, StartPoll(f)
        PROVE  TypeInv'
    <2> USE <1>3 DEF StartPoll
    <2>1. [row[f] EXCEPT !.override = ChosenInterval(row[f])] \in Column
      BY ChosenIntervalType DEF TypeInv, Column
    <2>2. job' \in [Feed -> Holds]
      <3> DEFINE r == [row[f] EXCEPT !.override = ChosenInterval(row[f])]
                 h == [job[f] EXCEPT !.at = "read", !.edited = FALSE, !.read = r]
      <3>1. job[f] \in Holds
        BY DEF TypeInv
      <3>2. h \in Holds
        <4> HIDE DEF r
        <4> QED BY <3>1, <2>1 DEF Holds, Running, r
      <3>3. job' = [job EXCEPT ![f] = h]
        BY DEF TypeInv
      <3> HIDE DEF h
      <3> QED BY <3>2, <3>3 DEF TypeInv
    <2>3. RowsFit' /\ ItemsFit' /\ OneFeedEach'
      BY JobsMove DEF TypeInv
    <2> QED BY <2>2, <2>3 DEF TypeInv
  <1>4. ASSUME NEW f \in Feed, Respond(f)
        PROVE  TypeInv'
    <2> USE <1>4 DEF Respond
    <2>1. job[f].read.url \in Address
      BY DEF TypeInv, Holds, Column
    <2>2. version[job[f].read.url] \in Entry \cup {None}
      BY <2>1 DEF TypeInv, None
    <2>3. 1 .. version[job[f].read.url] \in SUBSET Entry
      BY <2>1, EntryUpTo DEF TypeInv
    <2> DEFINE v == version[job[f].read.url]
               h == [job[f] EXCEPT !.at = "ingest", !.answer = v, !.todo = 1 .. v]
    <2>4. job[f] \in Holds
      BY DEF TypeInv
    <2>5. /\ [job[f] EXCEPT !.at = "unchanged"] \in Holds
          /\ [job[f] EXCEPT !.at = "failed"] \in Holds
      BY <2>4 DEF Holds, Running
    <2>6. h \in Holds
      <3> HIDE DEF v
      <3> QED BY <2>4, <2>2, <2>3 DEF Holds, Running, v
    <2>7. \/ job' = [job EXCEPT ![f] = [job[f] EXCEPT !.at = "unchanged"]]
          \/ job' = [job EXCEPT ![f] = h]
          \/ job' = [job EXCEPT ![f] = [job[f] EXCEPT !.at = "failed"]]
      BY DEF TypeInv
    <2>8. job' \in [Feed -> Holds]
      <3> HIDE DEF h
      <3> QED BY <2>5, <2>6, <2>7 DEF TypeInv
    <2>9. RowsFit' /\ ItemsFit' /\ OneFeedEach'
      BY JobsMove DEF TypeInv, Running
    <2>10. faults' \in 0 .. MaxFaults
      <3>1. UNCHANGED faults \/ (faults < MaxFaults /\ faults' = faults + 1)
        OBVIOUS
      <3> HIDE DEF Respond
      <3>2. faults \in 0 .. MaxFaults /\ MaxFaults \in Nat
        BY FeedsConstants DEF TypeInv
      <3> QED BY <3>1, <3>2
    <2> QED BY <2>8, <2>9, <2>10 DEF TypeInv
  <1>5. ASSUME NEW f \in Feed, Retry(f)
        PROVE  TypeInv'
    <2> USE <1>5 DEF Retry
    <2>1. job' \in [Feed -> Holds]
      BY NoFeedType DEF TypeInv, Holds
    <2>2. RowsFit' /\ ItemsFit' /\ OneFeedEach'
      BY JobsMove DEF TypeInv, Running, NoJob
    <2>3. faults' \in 0 .. MaxFaults
      BY FeedsConstants DEF TypeInv
    <2> QED BY <2>1, <2>2, <2>3 DEF TypeInv
  <1> QED BY <1>1, <1>2, <1>3, <1>4, <1>5

\* A step that records a poll writes one row, and ends its job.
LEMMA RecordMoves ==
    ASSUME TypeInv, NEW f \in Feed, NEW r \in Column,
           row' = IF row[f].there THEN [row EXCEPT ![f] = r] ELSE row, Done(f),
           r.there = row[f].there, r.url = row[f].url,
           ~r.disabled => r.failures < DisableAfter,
           UNCHANGED <<nextId, items>>
    PROVE  /\ row' \in [Feed -> Column] /\ job' \in [Feed -> Holds]
           /\ RowsFit' /\ ItemsFit' /\ OneFeedEach'
  <1>1. row' \in [Feed -> Column] /\ job' \in [Feed -> Holds]
    BY NoFeedType DEF TypeInv, Done
  <1>2. \A g \in Feed : row'[g].there = row[g].there /\ row'[g].url = row[g].url
    BY DEF TypeInv
  <1>3. RowsFit'
    <2> SUFFICES ASSUME NEW g \in Feed
                 PROVE  /\ g >= nextId => ~row'[g].there /\ job'[g].at = "none"
                        /\ ~row'[g].disabled \/ job'[g].at \in Running
                              => row'[g].failures < DisableAfter
      BY DEF RowsFit
    <2>1. CASE g = f
      BY <2>1 DEF TypeInv, RowsFit, Done, NoJob, Running
    <2>2. CASE g # f
      BY <2>2 DEF TypeInv, RowsFit, Done
    <2> QED BY <2>1, <2>2
  <1>4. ItemsFit' /\ OneFeedEach'
    BY <1>2 DEF TypeInv, ItemsFit, OneFeedEach, Live
  <1> QED BY <1>1, <1>3, <1>4

LEMMA RecordType ==
    ASSUME TypeInv, NEW f \in Feed,
           RecordPollSuccess(f) \/ RecordPollNotModified(f) \/ RecordPollFailure(f)
    PROVE  TypeInv'
  <1> USE DEF At, bounds, history, Remember
  <1>1. /\ job[f].read \in Column /\ job[f].answer \in Entry \cup {None}
        /\ job[f].new \in BOOLEAN /\ job[f].read.override \in PollChoices
    BY DEF TypeInv, Holds, Column
  <1>2. row[f] \in Column
    BY DEF TypeInv
  <1>3. job[f].at \in Running => row[f].failures < DisableAfter
    BY DEF TypeInv, RowsFit
  <1>4. ASSUME NEW i \in Min .. Never
        PROVE  /\ Recorded(f, i) \in Column
               /\ Recorded(f, i).there = row[f].there /\ Recorded(f, i).url = row[f].url
    <2>1. i \in 0 .. Never /\ 0 \in 0 .. Never
      BY Policy
    <2> QED BY <1>2, <2>1 DEF Recorded, Column
  <1>5. behind' \in SUBSET Feed /\ asked' \in SUBSET Feed /\ poisoned' \in SUBSET Feed
    BY DEF TypeInv, RecordPollSuccess, RecordPollNotModified, RecordPollFailure
  <1>9. 0 \in 0 .. DisableAfter /\ 0 < DisableAfter
    BY FeedsConstants
  <1>6. CASE RecordPollSuccess(f)
    <2> DEFINE i == NextInterval(job[f].read, job[f].read.override, TRUE, job[f].new)
               r == [Recorded(f, i) EXCEPT !.etag = job[f].answer, !.failures = 0]
    <2>1. i \in Min .. Never
      BY <1>1, NextIntervalType
    <2> HIDE DEF i
    <2>2. r \in Column /\ r.there = row[f].there /\ r.url = row[f].url /\ r.failures = 0
      BY <1>1, <1>4, <1>9, <2>1 DEF Column
    <2>3. row' = IF row[f].there THEN [row EXCEPT ![f] = r] ELSE row
      BY <1>6 DEF RecordPollSuccess, i
    <2> HIDE DEF r
    <2>4. /\ row' \in [Feed -> Column] /\ job' \in [Feed -> Holds]
          /\ RowsFit' /\ ItemsFit' /\ OneFeedEach'
      BY <1>6, <1>9, <2>2, <2>3, RecordMoves DEF RecordPollSuccess
    <2> QED BY <1>5, <1>6, <2>4 DEF TypeInv, RecordPollSuccess
  <1>7. CASE RecordPollNotModified(f)
    <2> DEFINE i == NextInterval(job[f].read, job[f].read.override, FALSE, FALSE)
               r == [Recorded(f, i) EXCEPT !.failures = 0]
    <2>1. i \in Min .. Never
      BY <1>1, NextIntervalType
    <2> HIDE DEF i
    <2>2. r \in Column /\ r.there = row[f].there /\ r.url = row[f].url /\ r.failures = 0
      BY <1>4, <1>9, <2>1 DEF Column
    <2>3. row' = IF row[f].there THEN [row EXCEPT ![f] = r] ELSE row
      BY <1>7 DEF RecordPollNotModified, i
    <2> HIDE DEF r
    <2>4. /\ row' \in [Feed -> Column] /\ job' \in [Feed -> Holds]
          /\ RowsFit' /\ ItemsFit' /\ OneFeedEach'
      BY <1>7, <1>9, <2>2, <2>3, RecordMoves DEF RecordPollNotModified
    <2> QED BY <1>5, <1>7, <2>4 DEF TypeInv, RecordPollNotModified
  <1>8. CASE RecordPollFailure(f)
    <2> DEFINE i == FailureInterval(job[f].read)
               n == row[f].failures + 1
               r == [Recorded(f, i) EXCEPT !.failures = n,
                                           !.disabled = @ \/ n >= DisableAfter]
    <2>1. i \in Min .. Never
      BY <1>1, FailureIntervalType
    <2>2. n \in 0 .. DisableAfter
      <3>1. row[f].failures < DisableAfter
        BY <1>3, <1>8 DEF RecordPollFailure, Running
      <3>2. row[f].failures \in 0 .. DisableAfter /\ DisableAfter \in Nat
        BY <1>2, FeedsConstants DEF Column
      <3> QED BY <3>1, <3>2
    <2> HIDE DEF i
    <2>3. Recorded(f, i).failures = row[f].failures
      BY <1>2 DEF Recorded, Column
    <2>4. row' = IF row[f].there THEN [row EXCEPT ![f] = r] ELSE row
      BY <1>8, <2>3 DEF RecordPollFailure, i
    <2> HIDE DEF n
    <2>5. /\ r \in Column /\ r.there = row[f].there /\ r.url = row[f].url
          /\ ~r.disabled => r.failures < DisableAfter
      <3>1. Recorded(f, i) \in Column /\ Recorded(f, i).disabled \in BOOLEAN
        BY <1>4, <2>1 DEF Column
      <3> DEFINE b == Recorded(f, i).disabled \/ n >= DisableAfter
      <3>2. b \in BOOLEAN /\ (~b => n < DisableAfter)
        BY <2>2, FeedsConstants
      <3>3. Recorded(f, i).there = row[f].there /\ Recorded(f, i).url = row[f].url
        BY <1>4, <2>1
      <3> HIDE DEF b
      <3>4. [Recorded(f, i) EXCEPT !.failures = n, !.disabled = b] \in Column
        BY <2>2, <3>1, <3>2 DEF Column
      <3>5. r = [Recorded(f, i) EXCEPT !.failures = n, !.disabled = b]
        BY DEF b
      <3> QED BY <3>1, <3>2, <3>3, <3>4, <3>5 DEF Column
    <2> HIDE DEF r
    <2>6. /\ row' \in [Feed -> Column] /\ job' \in [Feed -> Holds]
          /\ RowsFit' /\ ItemsFit' /\ OneFeedEach'
      BY <1>8, <2>4, <2>5, RecordMoves DEF RecordPollFailure
    <2> QED BY <1>5, <1>8, <2>6 DEF TypeInv, RecordPollFailure
  <1> QED BY <1>6, <1>7, <1>8

-----------------------------------------------------------------------------
(* Canonical addresses.  What strings.TrimRight leaves is a longest prefix *)
(* that does not end in the mark: one exists, because a set of numbers has *)
(* a least.                                                                *)

Below == {ss \in Nat \X Nat : ss[1] < ss[2]}

LEMMA BelowIsWellFounded == IsWellFoundedOn(Below, Nat)
  BY NatLessThanWellFounded DEF OpToRel, Below

LEMMA LeastExists ==
    ASSUME NEW T \in SUBSET Nat, T # {}
    PROVE  \E x \in T : \A y \in T : x <= y
  <1>1. PICK x \in T : \A y \in T : ~(<<y, x>> \in Below)
    BY BelowIsWellFounded, WFMin
  <1>2. ASSUME NEW y \in T PROVE x <= y
    <2>1. ~(<<y, x>> \in Below) /\ x \in Nat /\ y \in Nat
      BY <1>1
    <2> QED BY <2>1 DEF Below
  <1> QED BY <1>2

LEMMA KeptExists ==
    ASSUME NEW C, NEW s \in Seq(C), NEW mark
    PROVE  /\ Kept(s, mark) \in 0 .. Len(s)
           /\ Kept(s, mark) > 0 => s[Kept(s, mark)] # mark
           /\ \A i \in Kept(s, mark) + 1 .. Len(s) : s[i] = mark
  <1> DEFINE T == {n \in 0 .. Len(s) : \A i \in n + 1 .. Len(s) : s[i] = mark}
  <1>1. T \in SUBSET Nat /\ Len(s) \in T
    OBVIOUS
  <1>2. PICK n \in T : \A m \in T : n <= m
    BY <1>1, LeastExists
  <1>3. n > 0 => s[n] # mark
    <2> SUFFICES ASSUME n > 0, s[n] = mark PROVE FALSE
      OBVIOUS
    <2>1. ASSUME NEW i \in (n - 1) + 1 .. Len(s) PROVE s[i] = mark
      <3>1. i = n \/ i \in n + 1 .. Len(s)
        BY <1>2
      <3> QED BY <3>1, <1>2
    <2>2. n - 1 \in T
      BY <1>2, <2>1
    <2> QED BY <1>2, <2>2
  <1> QED BY <1>2, <1>3 DEF Kept

\* Trimming keeps a prefix that does not end in the mark, and trims no further.
LEMMA TrimRightOnce ==
    ASSUME NEW C, NEW s \in Seq(C), NEW mark
    PROVE  /\ TrimRight(s, mark) \in Seq(C)
           /\ Len(TrimRight(s, mark)) <= Len(s)
           /\ \A i \in 1 .. Len(TrimRight(s, mark)) : TrimRight(s, mark)[i] = s[i]
           /\ TrimRight(TrimRight(s, mark), mark) = TrimRight(s, mark)
  <1> DEFINE n == Kept(s, mark)
             t == TrimRight(s, mark)
             m == Kept(t, mark)
  <1>1. n \in 0 .. Len(s) /\ (n > 0 => s[n] # mark)
    BY KeptExists
  <1>2. t \in Seq(C) /\ Len(t) = n /\ \A i \in 1 .. n : t[i] = s[i]
    BY <1>1 DEF TrimRight
  <1>3. m \in 0 .. Len(t) /\ \A i \in m + 1 .. Len(t) : t[i] = mark
    BY <1>2, KeptExists
  <1> HIDE DEF n, m, t
  <1>4. m = n
    <2> SUFFICES ASSUME m # n PROVE FALSE
      OBVIOUS
    <2>1. n \in m + 1 .. Len(t) /\ n \in 1 .. n
      BY <1>1, <1>2, <1>3
    <2> QED BY <1>1, <1>2, <1>3, <2>1
  <1>5. TrimRight(t, mark) = t
    <2>1. SubSeq(t, 1, m) = t
      BY <1>2, <1>4
    <2> QED BY <2>1 DEF TrimRight, m
  <1> QED BY <1>1, <1>2, <1>5 DEF t

LEMMA HostTwice ==
    ASSUME NEW h \in Seq(HostMark)
    PROVE  /\ CanonicalizeHost(h) \in Seq(HostMark)
           /\ CanonicalizeHost(CanonicalizeHost(h)) = CanonicalizeHost(h)
  <1> DEFINE l == ToLower(h)
             t == TrimRight(l, ".")
  <1>1. l \in Seq(HostMark) /\ \A i \in 1 .. Len(l) : l[i] # "H"
    BY DEF ToLower, HostMark
  <1>2. /\ t \in Seq(HostMark) /\ Len(t) <= Len(l) /\ TrimRight(t, ".") = t
        /\ \A i \in 1 .. Len(t) : t[i] = l[i]
    BY <1>1, TrimRightOnce
  <1> HIDE DEF l, t
  <1>3. ToLower(t) = t
    <2>1. \A i \in 1 .. Len(t) : t[i] # "H"
      BY <1>1, <1>2
    <2> QED BY <1>2, <2>1 DEF ToLower
  <1>4. CanonicalizeHost(h) = t
    BY DEF CanonicalizeHost, t, l
  <1>5. CanonicalizeHost(t) = t
    BY <1>2, <1>3 DEF CanonicalizeHost
  <1> QED BY <1>2, <1>4, <1>5

Paths == {p \in Seq(PathMark) : p = << >> \/ p[1] = "/"}

LEMMA PathTwice ==
    ASSUME NEW p \in Paths
    PROVE  /\ CanonicalizePath(p) \in Paths
           /\ CanonicalizePath(CanonicalizePath(p)) = CanonicalizePath(p)
  <1> DEFINE t == TrimRight(p, "/")
  <1>1. p \in Seq(PathMark) /\ (p = << >> \/ p[1] = "/")
    BY DEF Paths
  <1>2. /\ t \in Seq(PathMark) /\ Len(t) <= Len(p) /\ TrimRight(t, "/") = t
        /\ \A i \in 1 .. Len(t) : t[i] = p[i]
    BY <1>1, TrimRightOnce
  <1>3. CanonicalizePath(p) = IF t = << >> THEN <<"/">> ELSE t
    BY DEF CanonicalizePath
  <1> HIDE DEF t
  <1>4. CASE t = << >>
    <2>1. <<"/">> \in Seq(PathMark) /\ Len(<<"/">>) = 1 /\ <<"/">>[1] = "/"
      BY DEF PathMark
    <2> DEFINE r == TrimRight(<<"/">>, "/")
               k == Kept(<<"/">>, "/")
    <2>2. k \in 0 .. 1 /\ (k > 0 => <<"/">>[k] # "/")
      BY <2>1, KeptExists
    <2>3. k = 0
      BY <2>1, <2>2
    <2>4. SubSeq(<<"/">>, 1, 0) = << >>
      BY <2>1
    <2>5. r = << >>
      BY <2>3, <2>4 DEF TrimRight
    <2>6. CanonicalizePath(<<"/">>) = <<"/">>
      BY <2>5 DEF CanonicalizePath
    <2> QED BY <1>3, <1>4, <2>1, <2>6 DEF Paths
  <1>5. CASE t # << >>
    <2>1. t[1] = "/"
      <3>1. 1 \in 1 .. Len(t)
        BY <1>2, <1>5
      <3>2. p # << >>
        BY <1>1, <1>2, <3>1
      <3> QED BY <1>1, <1>2, <3>1, <3>2
    <2>2. CanonicalizePath(t) = t
      BY <1>2, <1>5 DEF CanonicalizePath
    <2> QED BY <1>2, <1>3, <1>5, <2>1, <2>2 DEF Paths
  <1> QED BY <1>4, <1>5

\* The canonical form of an address is one that would be accepted, and is its own: an
\* article is found again under the address it was stored by, however many dots and
\* slashes the links to it end with (urlcanon.go, "so that the result is a fixed point"
\* and "a canonical form must be canonicalizable").
THEOREM CanonicalizeTwice ==
    ASSUME NEW u \in Url, ~Refuses(u)
    PROVE  /\ Canonicalize(u) \in Url
           /\ ~Refuses(Canonicalize(u))
           /\ Canonicalize(Canonicalize(u)) = Canonicalize(u)
  <1> DEFINE p == CanonicalizePort(u)
             h == CanonicalizeHost(u.host)
             q == CanonicalizePath(u.path)
             k == CanonicalizeQuery(u.query)
             g == CanonicalizeFragment(u.fragment)
             c == [u EXCEPT !.host = h, !.port = p, !.path = q, !.query = k, !.fragment = g]
             S == {"", "http", "https", "mailto"}
             P == {"", "80", "443", "8080"}
             K == SUBSET {"id", "utm_source"}
             G == {"", "x", "!x"}
             H == Seq(HostMark)
  <1>0. Url = [scheme : S, host : H, port : P, path : Paths, query : K, fragment : G]
    BY DEF Url, Paths
  <1>1. /\ h \in H /\ CanonicalizeHost(h) = h
        /\ q \in Paths /\ CanonicalizePath(q) = q
    BY <1>0, HostTwice, PathTwice
  <1>2. /\ u.scheme \in {"http", "https"} /\ h # << >>
        /\ DefaultPort[u.scheme] \in {"80", "443"}
    BY DEF Refuses, DefaultPort
  <1>3. /\ p \in P /\ p # DefaultPort[u.scheme]
        /\ k \in K /\ CanonicalizeQuery(k) = k
        /\ g \in G /\ CanonicalizeFragment(g) = g
    BY <1>0, <1>2 DEF CanonicalizePort, CanonicalizeQuery, CanonicalizeFragment
  <1>4. Canonicalize(u) = c
    BY DEF Canonicalize
  <1> HIDE DEF p, h, q, k, g, S, P, K, G, H
  <1>5. /\ c.scheme = u.scheme /\ c.host = h /\ c.port = p /\ c.path = q
        /\ c.query = k /\ c.fragment = g
    BY <1>0
  <1>6. c \in Url
    BY <1>0, <1>1, <1>3
  <1>7. CanonicalizePort(c) = p
    BY <1>3, <1>5 DEF CanonicalizePort
  <1> HIDE DEF c
  <1>8. ~Refuses(c)
    BY <1>1, <1>2, <1>5 DEF Refuses
  <1>9. Canonicalize(c) = [c EXCEPT !.host = h, !.port = p, !.path = q, !.query = k,
                                    !.fragment = g]
    BY <1>1, <1>3, <1>5, <1>7 DEF Canonicalize
  <1>10. Canonicalize(c) = c
    BY <1>0, <1>5, <1>6, <1>9
  <1> QED BY <1>4, <1>6, <1>8, <1>10

-----------------------------------------------------------------------------
(* What an entry stores.                                                   *)

LEMMA IngestType ==
    ASSUME TypeInv, NEW f \in Feed, Ingest(f)
    PROVE  TypeInv'
  <1> USE DEF At, bounds, history
  <1>1. PICK e \in job[f].todo :
           /\ IF Refuses(Link[e]) THEN UNCHANGED <<items, articles>>
              ELSE UpsertArticle(e) /\ InsertFeedItem(f, e)
           /\ job' = [job EXCEPT ![f].todo = @ \ {e}, ![f].new = @ \/ items' # items]
    BY DEF Ingest
  <1>2. e \in Entry /\ job[f] \in Holds /\ job[f].read.url \in Address
    BY DEF TypeInv, Holds, Column
  <1>3. ~Refuses(Link[e]) =>
           /\ Canonicalize(Link[e]) \in Url /\ ~Refuses(Canonicalize(Link[e]))
           /\ Canonicalize(Canonicalize(Link[e])) = Canonicalize(Link[e])
    <2>1. Link[e] \in Url
      BY <1>2, LinksAreUrls
    <2> QED BY <2>1, CanonicalizeTwice
  <1>4. articles' \subseteq Url /\ \A u \in articles' : ~Refuses(u) /\ Canonicalize(u) = u
    BY <1>1, <1>3 DEF TypeInv, UpsertArticle
  <1>5. job' \in [Feed -> Holds]
    <2> DEFINE h == [job[f] EXCEPT !.todo = @ \ {e}, !.new = @ \/ items' # items]
    <2>1. h \in Holds
      BY <1>2 DEF Holds
    <2>2. job' = [job EXCEPT ![f] = h]
      BY <1>1 DEF TypeInv
    <2> HIDE DEF h
    <2> QED BY <2>1, <2>2 DEF TypeInv
  <1>6. ItemsFit'
    BY <1>1, <1>2 DEF TypeInv, ItemsFit, InsertFeedItem, Ingest
  <1>7. RowsFit' /\ OneFeedEach'
    <2>1. \A g \in Feed : job'[g].at = job[g].at
      BY <1>1, <1>2 DEF TypeInv, Holds
    <2> QED BY <2>1 DEF TypeInv, RowsFit, OneFeedEach, Live, Ingest
  <1> QED BY <1>4, <1>5, <1>6, <1>7 DEF TypeInv, Ingest

\* A poll that is overtaken stays where it is.
LEMMA TouchType ==
    ASSUME TypeInv, NEW F, Touch(F)
    PROVE  job' \in [Feed -> Holds] /\ \A f \in Feed : job'[f].at = job[f].at
  <1>1. \A f \in Feed : job[f] \in Holds /\ [job[f] EXCEPT !.edited = TRUE] \in Holds
    BY DEF TypeInv, Holds
  <1>2. job' \in [Feed -> Holds]
    BY <1>1 DEF Touch
  <1>3. \A f \in Feed : job'[f].at = job[f].at
    BY <1>1 DEF Touch, Holds
  <1> QED BY <1>2, <1>3

\* A step that only reschedules keeps every feed where and what it is.
LEMMA Rescheduled ==
    ASSUME TypeInv, UNCHANGED <<nextId, items>>,
           \A f \in Feed :
              /\ row'[f].there = row[f].there /\ row'[f].url = row[f].url
              /\ row'[f].failures = row[f].failures /\ row'[f].disabled = row[f].disabled
              /\ job'[f].at = job[f].at
    PROVE  RowsFit' /\ ItemsFit' /\ OneFeedEach'
  <1>1. RowsFit'
    BY DEF TypeInv, RowsFit
  <1>2. ItemsFit' /\ OneFeedEach'
    BY DEF TypeInv, ItemsFit, OneFeedEach, Live
  <1> QED BY <1>1, <1>2

LEMMA UpsertFeedType ==
    ASSUME TypeInv, NEW a \in Address, UpsertFeed(a), UNCHANGED <<job, items>>
    PROVE  /\ row' \in [Feed -> Column] /\ nextId' \in 1 .. MaxFeed + 1
           /\ RowsFit' /\ ItemsFit' /\ OneFeedEach'
  <1>1. CASE At1(a) # {}
    BY <1>1 DEF TypeInv, UpsertFeed, RowsFit, ItemsFit, OneFeedEach, Live
  <1>2. CASE At1(a) = {}
    <2> DEFINE r == [NoFeed EXCEPT !.there = TRUE, !.url = a]
    <2>1. /\ nextId \in Feed /\ nextId' = nextId + 1
          /\ row' = [row EXCEPT ![nextId] = r]
      BY <1>2 DEF UpsertFeed
    <2>2. r \in Column /\ r.there /\ r.url = a /\ r.failures = 0
      BY NoFeedType DEF NoFeed, Column
    <2> HIDE DEF r
    <2>3. row' \in [Feed -> Column] /\ nextId' \in 1 .. MaxFeed + 1
      BY <2>1, <2>2, FeedsConstants DEF TypeInv, Feed
    <2>4. RowsFit'
      BY <2>1, <2>2, FeedsConstants DEF TypeInv, RowsFit, Feed
    <2>5. ItemsFit'
      BY <2>1, <2>2 DEF TypeInv, ItemsFit
    <2>6. OneFeedEach'
      BY <1>2, <2>1, <2>2 DEF TypeInv, OneFeedEach, Live, At1
    <2> QED BY <2>3, <2>4, <2>5, <2>6
  <1> QED BY <1>1, <1>2

LEMMA SubscribeType ==
    ASSUME TypeInv,
           \/ \E a \in Address, tested \in BOOLEAN : HandleAddFeed(a, tested)
           \/ \E a \in Address : HandleImportOPML({a, Folder})
    PROVE  TypeInv'
  <1>1. PICK a \in Address : UpsertFeed(a)
    <2>1. ASSUME NEW b \in Address, NEW tested \in BOOLEAN, HandleAddFeed(b, tested)
          PROVE  \E a \in Address : UpsertFeed(a)
      <3>1. HandleTestFeed(b, tested) \in Address
        BY FeedsConstants DEF HandleTestFeed, Probe, ParseProbe, DiscoverFeedURL
      <3> QED BY <2>1, <3>1 DEF HandleAddFeed
    <2>2. ASSUME NEW b \in Address, HandleImportOPML({b, Folder})
          PROVE  \E a \in Address : UpsertFeed(a)
      BY <2>2 DEF HandleImportOPML, Import, ParseOPML
    <2> QED BY <2>1, <2>2
  <1>2. /\ Edits
        /\ UNCHANGED <<default, items, articles, version, job, faults, history>>
    BY DEF HandleAddFeed, HandleImportOPML
  <1>3. edits' \in 0 .. MaxEdits
    BY <1>2, FeedsConstants DEF TypeInv, Edits
  <1>4. /\ row' \in [Feed -> Column] /\ nextId' \in 1 .. MaxFeed + 1
        /\ RowsFit' /\ ItemsFit' /\ OneFeedEach'
    BY <1>1, <1>2, UpsertFeedType
  <1> QED BY <1>2, <1>3, <1>4 DEF TypeInv, history

LEMMA EditType ==
    ASSUME TypeInv, NEW f \in Feed, NEW a \in Address, NEW off \in BOOLEAN,
           NEW d \in PollChoices, HandleEditFeed(f, a, off, d)
    PROVE  TypeInv'
  <1> DEFINE now == row[f].url # a \/ (row[f].disabled /\ ~off)
             bound == IF d = None THEN Never
                      ELSE IF row[f].age = Never THEN d ELSE Larger(0, d - row[f].age)
             n == IF now THEN 0 ELSE row[f].failures
             t == IF now THEN 0 ELSE Smaller(row[f].due, bound)
             e == IF row[f].url = a THEN row[f].etag ELSE None
             r == [row[f] EXCEPT !.etag = e, !.url = a, !.disabled = off,
                                 !.override = d, !.failures = n, !.due = t]
  <1>1. row[f] \in Column
    BY DEF TypeInv
  <1>2. row' = [row EXCEPT ![f] = r]
    BY <1>1 DEF HandleEditFeed, UpdateFeed, Moved, Column
  <1>3. n \in 0 .. DisableAfter /\ (~off => n < DisableAfter)
        /\ (job[f].at \in Running => n < DisableAfter)
    <2>1. /\ ~row[f].disabled \/ job[f].at \in Running => row[f].failures < DisableAfter
          /\ row[f].failures \in 0 .. DisableAfter
          /\ DisableAfter \in Nat \ {0}
      BY <1>1, FeedsConstants DEF TypeInv, RowsFit, Column
    <2> QED BY <2>1
  <1>4. t \in 0 .. Never
    <2>1. d # None => d \in Nat /\ d < Never
      BY Policy DEF PollChoices
    <2>2. row[f].due \in 0 .. Never /\ row[f].age \in 0 .. Never /\ Never \in Nat
      BY <1>1, Policy DEF Column
    <2> QED BY <2>1, <2>2 DEF Larger, Smaller
  <1>5. e \in Entry \cup {None}
    BY <1>1 DEF Column
  <1> HIDE DEF n, t, e
  <1>6. /\ r \in Column /\ r.there = row[f].there /\ r.url = a /\ r.disabled = off
        /\ r.failures = n
    BY <1>1, <1>3, <1>4, <1>5 DEF Column
  <1> HIDE DEF r
  <1>7. /\ row[f].there /\ Edits /\ At1(a) \subseteq {f} /\ Touch({f})
        /\ asked' = asked \cup {f}
        /\ poisoned' = (IF a # row[f].url THEN poisoned \ {f} ELSE poisoned)
        /\ behind' = (IF d = None /\ row[f].override # None THEN behind \cup {f} ELSE behind)
        /\ UNCHANGED <<nextId, default, items, articles, version, faults>>
    BY DEF HandleEditFeed
  <1>8. edits' \in 0 .. MaxEdits
    BY <1>7, FeedsConstants DEF TypeInv, Edits
  <1>9. job' \in [Feed -> Holds] /\ \A g \in Feed : job'[g].at = job[g].at
    BY <1>7, TouchType
  <1>10. row' \in [Feed -> Column]
    BY <1>2, <1>6 DEF TypeInv
  <1>11. RowsFit'
    <2> SUFFICES ASSUME NEW g \in Feed
                 PROVE  /\ g >= nextId => ~row'[g].there /\ job'[g].at = "none"
                        /\ ~row'[g].disabled \/ job'[g].at \in Running
                              => row'[g].failures < DisableAfter
      BY <1>7 DEF RowsFit
    <2>1. CASE g = f
      BY <1>2, <1>3, <1>6, <1>7, <1>9, <2>1 DEF TypeInv, RowsFit
    <2>2. CASE g # f
      BY <1>2, <1>9, <2>2 DEF TypeInv, RowsFit
    <2> QED BY <2>1, <2>2
  <1>12. ItemsFit'
    BY <1>2, <1>6, <1>7 DEF TypeInv, ItemsFit
  <1>13. OneFeedEach'
    BY <1>2, <1>6, <1>7 DEF TypeInv, OneFeedEach, Live, At1
  <1>14. asked' \in SUBSET Feed /\ behind' \in SUBSET Feed /\ poisoned' \in SUBSET Feed
    BY <1>7 DEF TypeInv
  <1> QED BY <1>7, <1>8, <1>9, <1>10, <1>11, <1>12, <1>13, <1>14 DEF TypeInv

LEMMA RescheduleType ==
    ASSUME TypeInv,
           \/ \E d \in PollChoices : HandleDefaultPollInterval(d)
           \/ HandleRefreshFeeds \/ Tick
    PROVE  TypeInv'
  <1>1. \A f \in Feed : row[f] \in Column
    BY DEF TypeInv
  <1>2. ASSUME NEW d \in PollChoices, HandleDefaultPollInterval(d)
        PROVE  TypeInv'
    <2> DEFINE t(f) == Smaller(row[f].due, IF row[f].age = Never THEN d
                                           ELSE Larger(0, d - row[f].age))
               stays(f) == \/ ~row[f].there \/ row[f].disabled
                           \/ row[f].override # None \/ d = None
    <2>1. row' = [f \in Feed |-> IF stays(f) THEN row[f] ELSE [row[f] EXCEPT !.due = t(f)]]
      BY <1>1, <1>2 DEF HandleDefaultPollInterval, SetDefaultPollInterval, Column
    <2>2. ASSUME NEW f \in Feed, ~stays(f)
          PROVE  t(f) \in 0 .. Never
      <3>1. d \in Nat /\ d < Never
        BY <2>2, Policy DEF PollChoices
      <3>2. row[f].due \in 0 .. Never /\ row[f].age \in 0 .. Never /\ Never \in Nat
        BY <1>1, Policy DEF Column
      <3> QED BY <3>1, <3>2 DEF Larger, Smaller
    <2>3. \A f \in Feed :
             /\ row'[f] \in Column
             /\ row'[f].there = row[f].there /\ row'[f].url = row[f].url
             /\ row'[f].failures = row[f].failures /\ row'[f].disabled = row[f].disabled
      <3> HIDE DEF t, stays
      <3> QED BY <1>1, <2>1, <2>2 DEF Column
    <2>4. job' \in [Feed -> Holds] /\ \A f \in Feed : job'[f].at = job[f].at
      BY <1>2, TouchType DEF HandleDefaultPollInterval
    <2>5. RowsFit' /\ ItemsFit' /\ OneFeedEach'
      BY <1>2, <2>3, <2>4, Rescheduled DEF HandleDefaultPollInterval
    <2>6. row' \in [Feed -> Column]
      BY <2>1, <2>3
    <2>7. edits' \in 0 .. MaxEdits
      BY <1>2, FeedsConstants DEF TypeInv, Edits, HandleDefaultPollInterval
    <2> QED BY <1>2, <2>4, <2>5, <2>6, <2>7
            DEF TypeInv, HandleDefaultPollInterval, SetDefaultPollInterval, Live
  <1>3. CASE HandleRefreshFeeds
    <2>1. \A f \in Feed :
             /\ row'[f] \in Column
             /\ row'[f].there = row[f].there /\ row'[f].url = row[f].url
             /\ row'[f].failures = row[f].failures /\ row'[f].disabled = row[f].disabled
      <3>1. 0 \in 0 .. Never
        BY Policy
      <3> QED BY <1>1, <1>3, <3>1 DEF HandleRefreshFeeds, Column
    <2>2. RowsFit' /\ ItemsFit' /\ OneFeedEach'
      BY <1>3, <2>1, Rescheduled DEF HandleRefreshFeeds
    <2>3. row' \in [Feed -> Column]
      BY <1>3, <2>1 DEF HandleRefreshFeeds
    <2>4. edits' \in 0 .. MaxEdits
      BY <1>3, FeedsConstants DEF TypeInv, Edits, HandleRefreshFeeds
    <2> QED BY <1>3, <2>2, <2>3, <2>4 DEF TypeInv, HandleRefreshFeeds, PollNow, Live
  <1>4. CASE Tick
    <2>1. \A f \in Feed :
             /\ row'[f] \in Column
             /\ row'[f].there = row[f].there /\ row'[f].url = row[f].url
             /\ row'[f].failures = row[f].failures /\ row'[f].disabled = row[f].disabled
      <3> SUFFICES ASSUME NEW f \in Feed
                   PROVE  /\ row'[f] \in Column
                          /\ row'[f].there = row[f].there /\ row'[f].url = row[f].url
                          /\ row'[f].failures = row[f].failures
                          /\ row'[f].disabled = row[f].disabled
        OBVIOUS
      <3> DEFINE t == Larger(0, row[f].due - 1)
                 o == IF row[f].age = Never THEN row[f].age
                      ELSE Smaller(row[f].age + 1, Never - 1)
      <3>1. t \in 0 .. Never /\ o \in 0 .. Never
        <4>1. row[f].due \in 0 .. Never /\ row[f].age \in 0 .. Never /\ Never \in Nat
          BY <1>1, Policy DEF Column
        <4>2. 1 < Never
          BY Policy
        <4> QED BY <4>1, <4>2 DEF Larger, Smaller
      <3>2. row'[f] = IF ~row[f].there THEN row[f]
                      ELSE [row[f] EXCEPT !.due = t, !.age = o]
        BY <1>1, <1>4 DEF Tick, Column
      <3> HIDE DEF t, o
      <3> QED BY <1>1, <3>1, <3>2 DEF Column
    <2>2. RowsFit' /\ ItemsFit' /\ OneFeedEach'
      BY <1>4, <2>1, Rescheduled DEF Tick
    <2>3. row' \in [Feed -> Column]
      BY <1>4, <2>1 DEF Tick
    <2> QED BY <1>4, <2>2, <2>3 DEF TypeInv, Tick, bounds, history
  <1> QED BY <1>2, <1>3, <1>4

LEMMA UnsubscribeType ==
    ASSUME TypeInv, NEW f \in Feed, HandleUnsubscribeFeed(f)
    PROVE  TypeInv'
  <1> USE DEF HandleUnsubscribeFeed, DeleteFeed
  <1>1. row' \in [Feed -> Column]
    BY NoFeedType DEF TypeInv
  <1>2. RowsFit'
    <2>1. ~NoFeed.there /\ NoFeed.failures < DisableAfter
      BY FeedsConstants DEF NoFeed
    <2> QED BY <2>1 DEF TypeInv, RowsFit
  <1>3. ItemsFit'
    BY DEF TypeInv, ItemsFit
  <1>4. OneFeedEach'
    BY DEF TypeInv, OneFeedEach, Live, NoFeed
  <1>5. edits' \in 0 .. MaxEdits
    BY FeedsConstants DEF TypeInv, Edits
  <1> QED BY <1>1, <1>2, <1>3, <1>4, <1>5 DEF TypeInv

LEMMA PublishType ==
    ASSUME TypeInv, NEW a \in Address, Publish(a)
    PROVE  TypeInv'
  BY DEF TypeInv, Publish, RowsFit, ItemsFit, OneFeedEach, Live, bounds, history

LEMMA NextType ==
    ASSUME TypeInv, [Next]_vars
    PROVE  TypeInv'
  <1>1. CASE UNCHANGED vars
    BY <1>1 DEF vars, bounds, history, TypeInv, RowsFit, ItemsFit, OneFeedEach, Live
  <1>2. CASE Reader
    BY <1>2, SubscribeType, EditType, RescheduleType, UnsubscribeType DEF Reader
  <1>3. CASE \E f \in Feed : Poll(f)
    BY <1>3, JobStepType, IngestType, RecordType DEF Poll
  <1> QED
    BY <1>1, <1>2, <1>3, JobStepType, RescheduleType, PublishType DEF Next

\* Every row a subscription, a poll, an edit or the clock writes is one the columns
\* allow, two subscriptions never have one address, and no feed fails more often than
\* disables it (store/feeds.go).
THEOREM TypeCorrect == Spec => []TypeOK
  <1>1. Init => TypeInv
    BY InitType
  <1>2. TypeInv /\ [Next]_vars => TypeInv'
    BY NextType
  <1>3. TypeInv => TypeOK
    BY TypeInvIsTyped
  <1> QED BY <1>1, <1>2, <1>3, PTL DEF Spec

-----------------------------------------------------------------------------
(* What is promised of each feed, and what it takes: an ingestion that was *)
(* begun has stored what it is past, what a poll has read is the row until *)
(* somebody edits it, and a feed that was never polled is due.             *)

ReadFits(f) ==
    row[f].there /\ job[f].at \in Running /\ ~job[f].edited =>
       /\ job[f].read.url = row[f].url
       /\ job[f].read.failures = row[f].failures
       /\ job[f].read.override = ChosenInterval(row[f])

StoredTo(f, a, v) == \A e \in 1 .. v : Refuses(Link[e]) \/ <<a, e>> \in items[f]

StoredSoFar(f) ==
    row[f].there /\ At(f, "ingest") =>
       \A e \in 1 .. job[f].answer :
          e \in job[f].todo \/ Refuses(Link[e]) \/ <<job[f].read.url, e>> \in items[f]

Vouched(f) == row[f].there /\ f \notin poisoned => StoredTo(f, row[f].url, row[f].etag)

DueAtOnce(f) == row[f].age = Never => row[f].due = 0

Prompt(r, d) ==
    ~r.disabled /\ r.failures = 0 /\ d # None =>
       IF r.age = Never THEN r.due = 0 ELSE r.due <= Larger(0, Chosen(d) - r.age)

Rare(r, d) ==
    r.failures > 0 /\ r.age < Never - 1 =>
       /\ r.due + r.age >= OnFailure(r.failures)
       /\ d # None => r.due + r.age >= Chosen(d)

Scheduled(f) ==
    /\ DueAtOnce(f)
    /\ row[f].there /\ f \notin behind => Prompt(row[f], ChosenInterval(row[f]))
    /\ row[f].there /\ f \notin asked \cup behind => Rare(row[f], ChosenInterval(row[f]))

FeedInv(f) == ReadFits(f) /\ StoredSoFar(f) /\ Vouched(f) /\ Scheduled(f)

FeedsInv == \A f \in Feed : FeedInv(f)

\* The promises as the runs check them follow.
LEMMA FeedsInvPromises ==
    ASSUME FeedsInv
    PROVE  ValidatorsMeanIngested /\ CadenceHonoured /\ FailingIsAskedLess
  <1>1. ValidatorsMeanIngested
    BY DEF FeedsInv, FeedInv, Vouched, StoredTo, ValidatorsMeanIngested, Usable, Live
  <1>2. CadenceHonoured
    BY DEF FeedsInv, FeedInv, Scheduled, Prompt, CadenceHonoured, Live
  <1>3. FailingIsAskedLess
    BY DEF FeedsInv, FeedInv, Scheduled, Rare, FailingIsAskedLess, Live
  <1> QED BY <1>1, <1>2, <1>3

LEMMA InitFeeds == Init => FeedsInv
  BY DEF Init, FeedsInv, FeedInv, ReadFits, StoredSoFar, Vouched, Scheduled, DueAtOnce,
         NoFeed, NoJob, Running, At

\* What nobody writes stays as promised.
LEMMA ScheduleStands ==
    ASSUME NEW f \in Feed, Scheduled(f), row'[f] = row[f], default' = default,
           UNCHANGED <<behind, asked>>
    PROVE  Scheduled(f)'
  BY DEF Scheduled, DueAtOnce, Prompt, Rare, ChosenInterval

LEMMA Untouched ==
    ASSUME NEW f \in Feed, FeedInv(f), row'[f] = row[f], job'[f] = job[f],
           items'[f] = items[f], default' = default,
           f \in poisoned' <=> f \in poisoned, f \in behind' <=> f \in behind,
           f \in asked' <=> f \in asked
    PROVE  FeedInv(f)'
  <1>1. Scheduled(f)'
    BY DEF FeedInv, Scheduled, DueAtOnce, Prompt, Rare, ChosenInterval
  <1>2. ReadFits(f)' /\ StoredSoFar(f)' /\ Vouched(f)'
    BY DEF FeedInv, ReadFits, StoredSoFar, Vouched, StoredTo, At, ChosenInterval
  <1> QED BY <1>1, <1>2 DEF FeedInv

LEMMA JobStepKeeps ==
    ASSUME TypeInv, FeedsInv,
           \/ ScheduleFeeds
           \/ \E f \in Feed : SkipPoll(f) \/ StartPoll(f) \/ Respond(f) \/ Retry(f)
    PROVE  FeedsInv'
  <1> USE DEF bounds, history
  <1>1. UNCHANGED <<row, items, default, poisoned, behind, asked>>
    BY DEF ScheduleFeeds, SkipPoll, StartPoll, Respond, Retry
  <1>2. \A f \in Feed : Scheduled(f)' /\ Vouched(f)'
    BY <1>1, ScheduleStands DEF FeedsInv, FeedInv, Vouched, StoredTo
  <1>3. ASSUME NEW f \in Feed, job'[f].at \notin Running
        PROVE  ReadFits(f)' /\ StoredSoFar(f)'
    BY <1>3 DEF ReadFits, StoredSoFar, At, Running
  <1>4. ASSUME NEW f \in Feed, job'[f] = job[f]
        PROVE  ReadFits(f)' /\ StoredSoFar(f)'
    BY <1>1, <1>4 DEF FeedsInv, FeedInv, ReadFits, StoredSoFar, At, ChosenInterval
  <1>5. CASE ScheduleFeeds
    <2>1. \A f \in Feed : job'[f] = job[f] \/ job'[f].at \notin Running
      BY <1>5 DEF ScheduleFeeds, NoJob, Running
    <2> QED BY <1>2, <1>3, <1>4, <2>1 DEF FeedsInv, FeedInv
  <1>6. ASSUME NEW f \in Feed, SkipPoll(f) \/ Retry(f)
        PROVE  FeedsInv'
    <2>1. \A g \in Feed : job'[g] = job[g] \/ job'[g].at \notin Running
      BY <1>6 DEF TypeInv, SkipPoll, Retry, Done, NoJob, Running
    <2> QED BY <1>2, <1>3, <1>4, <2>1 DEF FeedsInv, FeedInv
  <1>7. ASSUME NEW f \in Feed, StartPoll(f)
        PROVE  FeedsInv'
    <2>1. \A g \in Feed \ {f} : job'[g] = job[g]
      BY <1>7 DEF TypeInv, StartPoll
    <2>2. /\ job'[f].at = "read"
          /\ job'[f].read = [row[f] EXCEPT !.override = ChosenInterval(row[f])]
      BY <1>7 DEF TypeInv, Holds, StartPoll
    <2>3. ReadFits(f)' /\ StoredSoFar(f)'
      BY <1>1, <2>2 DEF TypeInv, Column, ReadFits, StoredSoFar, At, ChosenInterval
    <2> QED BY <1>2, <1>4, <2>1, <2>3 DEF FeedsInv, FeedInv
  <1>8. ASSUME NEW f \in Feed, Respond(f)
        PROVE  FeedsInv'
    <2>1. \A g \in Feed \ {f} : job'[g] = job[g]
      BY <1>8 DEF TypeInv, Respond
    <2>2. /\ job[f].at = "read" /\ job'[f].read = job[f].read
          /\ job'[f].edited = job[f].edited
          /\ job'[f].at = "ingest" => job'[f].todo = 1 .. job'[f].answer
      <3> DEFINE v == version[job[f].read.url]
                 h == [job[f] EXCEPT !.at = "ingest", !.answer = v, !.todo = 1 .. v]
      <3>1. /\ \/ job'[f] = [job[f] EXCEPT !.at = "unchanged"]
               \/ job'[f] = h
               \/ job'[f] = [job[f] EXCEPT !.at = "failed"]
            /\ job[f].at = "read" /\ job[f] \in Holds
        BY <1>8 DEF TypeInv, Respond, At
      <3>2. /\ h.read = job[f].read /\ h.edited = job[f].edited
            /\ h.todo = 1 .. v /\ h.answer = v
        <4> HIDE DEF v
        <4> QED BY <3>1 DEF Holds
      <3>3. ASSUME NEW k \in {"unchanged", "failed"}, job'[f] = [job[f] EXCEPT !.at = k]
            PROVE  /\ job'[f].read = job[f].read /\ job'[f].edited = job[f].edited
                   /\ job'[f].at # "ingest"
        BY <3>1, <3>3 DEF Holds
      <3> HIDE DEF h, v
      <3> QED BY <3>1, <3>2, <3>3
    <2>3. ReadFits(f)' /\ StoredSoFar(f)'
      BY <1>1, <2>2 DEF FeedsInv, FeedInv, ReadFits, StoredSoFar, At, ChosenInterval, Running
    <2> QED BY <1>2, <1>4, <2>1, <2>3 DEF FeedsInv, FeedInv
  <1> QED BY <1>5, <1>6, <1>7, <1>8

LEMMA IngestKeeps ==
    ASSUME TypeInv, FeedsInv, NEW f \in Feed, Ingest(f)
    PROVE  FeedsInv'
  <1> USE DEF bounds, history
  <1>1. PICK e \in job[f].todo :
           /\ IF Refuses(Link[e]) THEN UNCHANGED <<items, articles>>
              ELSE UpsertArticle(e) /\ InsertFeedItem(f, e)
           /\ job' = [job EXCEPT ![f].todo = @ \ {e}, ![f].new = @ \/ items' # items]
    BY DEF Ingest
  <1>2. UNCHANGED <<row, default, poisoned, behind, asked>> /\ At(f, "ingest")
    BY DEF Ingest
  <1>3. \A g \in Feed \ {f} : job'[g] = job[g] /\ items'[g] = items[g]
    BY <1>1 DEF TypeInv, ItemsFit, InsertFeedItem
  <1>4. /\ job'[f].at = job[f].at /\ job'[f].read = job[f].read
        /\ job'[f].edited = job[f].edited /\ job'[f].answer = job[f].answer
        /\ job'[f].todo = job[f].todo \ {e}
    BY <1>1 DEF TypeInv, Holds
  <1>5. /\ items[f] \subseteq items'[f]
        /\ row[f].there => Refuses(Link[e]) \/ <<job[f].read.url, e>> \in items'[f]
    BY <1>1 DEF TypeInv, ItemsFit, InsertFeedItem
  <1>6. FeedInv(f)'
    <2>1. Scheduled(f)'
      BY <1>2, ScheduleStands DEF FeedsInv, FeedInv
    <2>2. ReadFits(f)'
      BY <1>2, <1>4 DEF FeedsInv, FeedInv, ReadFits, ChosenInterval
    <2>3. Vouched(f)'
      BY <1>2, <1>5 DEF FeedsInv, FeedInv, Vouched, StoredTo
    <2>4. StoredSoFar(f)'
      BY <1>2, <1>4, <1>5 DEF FeedsInv, FeedInv, StoredSoFar, At
    <2> QED BY <2>1, <2>2, <2>3, <2>4 DEF FeedInv
  <1>7. \A g \in Feed \ {f} : FeedInv(g)'
    BY <1>2, <1>3, Untouched DEF FeedsInv
  <1> QED BY <1>6, <1>7 DEF FeedsInv

\* A poll's record keeps the schedule's promises if what it writes does, or if it was
\* overtaken.
LEMMA RecordSchedules ==
    ASSUME TypeInv, NEW f \in Feed, NEW r \in Column, row[f].there,
           row' = [row EXCEPT ![f] = r], default' = default, Remember(f),
           r.age = 0, r.override = row[f].override,
           ~Overtaken(f) => /\ Prompt(r, ChosenInterval(row[f]))
                            /\ Rare(r, ChosenInterval(row[f]))
    PROVE  Scheduled(f)'
  <1>1. row'[f] = r
    BY DEF TypeInv
  <1>2. ChosenInterval(row[f])' = ChosenInterval(row[f])
    BY <1>1 DEF ChosenInterval
  <1>3. DueAtOnce(f)'
    BY <1>1, Policy DEF DueAtOnce
  <1>4. f \notin behind' => ~Overtaken(f)
    BY DEF Remember, TypeInv
  <1> QED BY <1>1, <1>2, <1>3, <1>4 DEF Scheduled, Prompt, Rare

\* What a poll that was not overtaken has read is in the row still.
LEMMA ReadIsRow ==
    ASSUME FeedsInv, NEW f \in Feed, row[f].there, job[f].at \in Running, ~Overtaken(f)
    PROVE  /\ job[f].read.url = row[f].url /\ job[f].read.failures = row[f].failures
           /\ job[f].read.override = ChosenInterval(row[f])
  BY DEF FeedsInv, FeedInv, ReadFits, Overtaken

LEMMA PromptAtOnce ==
    ASSUME NEW d \in PollChoices, NEW r \in Column, r.age = 0, d # None => r.due = Chosen(d)
    PROVE  Prompt(r, d)
  <1>1. d # None => Chosen(d) \in Nat
    BY Policy DEF PollChoices, Chosen, Larger
  <1> QED BY <1>1, Policy DEF Prompt, Larger

LEMMA RecordKeeps ==
    ASSUME TypeInv, FeedsInv, NEW f \in Feed,
           RecordPollSuccess(f) \/ RecordPollNotModified(f) \/ RecordPollFailure(f)
    PROVE  FeedsInv'
  <1> USE DEF bounds, history
  <1>1. /\ UNCHANGED <<default, items>> /\ Remember(f) /\ Done(f)
        /\ \A g \in Feed \ {f} :
              /\ row'[g] = row[g] /\ job'[g] = job[g]
              /\ g \in poisoned' <=> g \in poisoned
    BY DEF RecordPollSuccess, RecordPollNotModified, RecordPollFailure, TypeInv, Done
  <1>2. \A g \in Feed \ {f} : (g \in behind' <=> g \in behind) /\ (g \in asked' <=> g \in asked)
    BY <1>1 DEF Remember
  <1>3. \A g \in Feed \ {f} : FeedInv(g)'
    BY <1>1, <1>2, Untouched DEF FeedsInv
  <1>4. ReadFits(f)' /\ StoredSoFar(f)'
    BY <1>1 DEF Done, TypeInv, NoJob, ReadFits, StoredSoFar, At, Running
  <1>5. /\ job[f].at \in Running /\ row[f] \in Column /\ job[f].read \in Column
        /\ job[f].read.override \in PollChoices /\ job[f].new \in BOOLEAN
        /\ job[f].answer \in Entry \cup {None}
        /\ ChosenInterval(row[f]) \in PollChoices
    BY ChosenIntervalType
       DEF TypeInv, Holds, Column, RecordPollSuccess, RecordPollNotModified,
           RecordPollFailure, At, Running
  <1>6. CASE ~row[f].there
    <2>1. row'[f] = row[f]
      BY <1>6 DEF RecordPollSuccess, RecordPollNotModified, RecordPollFailure
    <2>2. Vouched(f)' /\ Scheduled(f)'
      BY <1>6, <2>1 DEF FeedsInv, FeedInv, Vouched, Scheduled, DueAtOnce
    <2> QED BY <1>3, <1>4, <2>2 DEF FeedsInv, FeedInv
  <1>7. CASE row[f].there /\ RecordPollSuccess(f)
    <2> DEFINE i == NextInterval(job[f].read, job[f].read.override, TRUE, job[f].new)
               r == [Recorded(f, i) EXCEPT !.etag = job[f].answer, !.failures = 0]
    <2>1. /\ i \in Min .. Never
          /\ job[f].read.override # None => i = Chosen(job[f].read.override)
      BY <1>5, NextIntervalType
    <2>2. row' = [row EXCEPT ![f] = r]
      BY <1>7 DEF RecordPollSuccess
    <2> HIDE DEF i
    <2>3. /\ r.age = 0 /\ r.due = i /\ r.failures = 0 /\ r.etag = job[f].answer
          /\ r.override = row[f].override /\ r.url = row[f].url /\ r.there
      BY <1>5, <1>7 DEF Recorded, Column
    <2>4. r \in Column
      <3>1. row' \in [Feed -> Column] /\ row'[f] = r
        BY <2>2, RecordType DEF TypeInv
      <3> QED BY <3>1
    <2> HIDE DEF r
    <2>5. ~Overtaken(f) => /\ Prompt(r, ChosenInterval(row[f]))
                           /\ Rare(r, ChosenInterval(row[f]))
      BY <1>5, <1>7, <2>1, <2>3, <2>4, ReadIsRow, PromptAtOnce DEF Rare
    <2>6. Scheduled(f)'
      BY <1>1, <1>7, <2>2, <2>3, <2>4, <2>5, RecordSchedules
    <2>7. Vouched(f)'
      <3>1. row'[f] = r
        BY <2>2 DEF TypeInv
      <3> SUFFICES ASSUME f \notin poisoned'
                   PROVE  StoredTo(f, row[f].url, job[f].answer)
        BY <1>1, <2>3, <3>1 DEF Vouched, StoredTo
      <3>2. ~Overtaken(f)
        BY <1>7 DEF RecordPollSuccess
      <3>3. job[f].todo = {} /\ job[f].read.url = row[f].url /\ At(f, "ingest")
        BY <1>5, <1>7, <3>2, ReadIsRow DEF RecordPollSuccess
      <3> QED BY <1>7, <3>3 DEF FeedsInv, FeedInv, StoredSoFar, StoredTo
    <2> QED BY <1>3, <1>4, <2>6, <2>7 DEF FeedsInv, FeedInv
  <1>8. CASE row[f].there /\ RecordPollNotModified(f)
    <2> DEFINE i == NextInterval(job[f].read, job[f].read.override, FALSE, FALSE)
               r == [Recorded(f, i) EXCEPT !.failures = 0]
    <2>1. /\ i \in Min .. Never
          /\ job[f].read.override # None => i = Chosen(job[f].read.override)
      BY <1>5, NextIntervalType
    <2>2. row' = [row EXCEPT ![f] = r]
      BY <1>8 DEF RecordPollNotModified
    <2> HIDE DEF i
    <2>3. /\ r.age = 0 /\ r.due = i /\ r.failures = 0 /\ r.etag = row[f].etag
          /\ r.override = row[f].override /\ r.url = row[f].url /\ r.there
      BY <1>5, <1>8 DEF Recorded, Column
    <2>4. r \in Column
      <3>1. row' \in [Feed -> Column] /\ row'[f] = r
        BY <2>2, RecordType DEF TypeInv
      <3> QED BY <3>1
    <2> HIDE DEF r
    <2>5. ~Overtaken(f) => /\ Prompt(r, ChosenInterval(row[f]))
                           /\ Rare(r, ChosenInterval(row[f]))
      BY <1>5, <1>8, <2>1, <2>3, <2>4, ReadIsRow, PromptAtOnce DEF Rare
    <2>6. Scheduled(f)'
      BY <1>1, <1>8, <2>2, <2>3, <2>4, <2>5, RecordSchedules
    <2>7. Vouched(f)'
      <3>1. row'[f] = r /\ poisoned' = poisoned
        BY <1>8, <2>2 DEF TypeInv, RecordPollNotModified
      <3> QED BY <1>1, <1>8, <2>3, <3>1 DEF FeedsInv, FeedInv, Vouched, StoredTo
    <2> QED BY <1>3, <1>4, <2>6, <2>7 DEF FeedsInv, FeedInv
  <1>9. CASE row[f].there /\ RecordPollFailure(f)
    <2> DEFINE i == FailureInterval(job[f].read)
               n == row[f].failures + 1
               b == Recorded(f, i).disabled \/ n >= DisableAfter
               r == [Recorded(f, i) EXCEPT !.failures = n, !.disabled = b]
    <2>1. /\ i \in Min .. Never /\ i >= OnFailure(job[f].read.failures + 1)
          /\ job[f].read.override # None => i >= Chosen(job[f].read.override)
      BY <1>5, FailureIntervalType
    <2>2. row' = [row EXCEPT ![f] = r]
      <3>1. Recorded(f, i).failures = row[f].failures
        BY <1>5 DEF Recorded, Column
      <3> QED BY <1>9, <3>1 DEF RecordPollFailure
    <2>3. n \in Nat /\ n > 0
      BY <1>5, FeedsConstants DEF Column
    <2> HIDE DEF i, n, b
    <2>4. /\ r.age = 0 /\ r.due = i /\ r.failures = n /\ r.etag = row[f].etag
          /\ r.override = row[f].override /\ r.url = row[f].url /\ r.there
      BY <1>5, <1>9 DEF Recorded, Column
    <2>5. r \in Column
      <3>1. row' \in [Feed -> Column] /\ row'[f] = r
        BY <2>2, RecordType DEF TypeInv
      <3> QED BY <3>1
    <2> HIDE DEF r
    <2>6. ~Overtaken(f) => /\ Prompt(r, ChosenInterval(row[f]))
                           /\ Rare(r, ChosenInterval(row[f]))
      <3> SUFFICES ASSUME ~Overtaken(f)
                   PROVE  /\ Prompt(r, ChosenInterval(row[f]))
                          /\ Rare(r, ChosenInterval(row[f]))
        OBVIOUS
      <3>1. /\ job[f].read.failures + 1 = n
            /\ job[f].read.override = ChosenInterval(row[f])
        BY <1>5, <1>9, ReadIsRow DEF n
      <3>2. i \in Nat /\ i + 0 = i
        BY <2>1, Policy
      <3> QED BY <2>1, <2>3, <2>4, <3>1, <3>2 DEF Prompt, Rare
    <2>7. Scheduled(f)'
      BY <1>1, <1>9, <2>2, <2>4, <2>5, <2>6, RecordSchedules
    <2>8. Vouched(f)'
      <3>1. row'[f] = r /\ poisoned' = poisoned
        BY <1>9, <2>2 DEF TypeInv, RecordPollFailure
      <3> QED BY <1>1, <1>9, <2>4, <3>1 DEF FeedsInv, FeedInv, Vouched, StoredTo
    <2> QED BY <1>3, <1>4, <2>7, <2>8 DEF FeedsInv, FeedInv
  <1> QED BY <1>6, <1>7, <1>8, <1>9

LEMMA SubscribeKeeps ==
    ASSUME TypeInv, FeedsInv,
           \/ \E a \in Address, tested \in BOOLEAN : HandleAddFeed(a, tested)
           \/ \E a \in Address : HandleImportOPML({a, Folder})
    PROVE  FeedsInv'
  <1>1. /\ UNCHANGED <<default, items, job, poisoned, behind, asked>>
        /\ \E a : UpsertFeed(a)
    BY DEF HandleAddFeed, HandleImportOPML, Import, history
  <1>2. CASE row' = row
    BY <1>1, <1>2, Untouched DEF FeedsInv
  <1>3. CASE row' # row
    <2>1. PICK n \in Feed :
             /\ n = nextId
             /\ \E a : row' = [row EXCEPT ![n] = [NoFeed EXCEPT !.there = TRUE, !.url = a]]
      BY <1>1, <1>3 DEF UpsertFeed
    <2>2. \A g \in Feed \ {n} : FeedInv(g)'
      BY <1>1, <2>1, Untouched DEF FeedsInv, TypeInv
    <2>3. /\ row'[n].etag = None /\ row'[n].age = Never
          /\ row'[n].due = 0 /\ row'[n].failures = 0
      BY <2>1, NoFeedType DEF TypeInv, NoFeed, Column
    <2>4. job'[n].at = "none"
      BY <1>1, <2>1, FeedsConstants DEF TypeInv, RowsFit, Feed
    <2>5. FeedInv(n)'
      BY <1>1, <2>3, <2>4
         DEF FeedInv, ReadFits, StoredSoFar, Vouched, StoredTo, Scheduled, DueAtOnce,
             Prompt, Rare, None, At, Running
    <2> QED BY <2>2, <2>5 DEF FeedsInv
  <1> QED BY <1>2, <1>3

\* What an edit makes of a schedule that was in order.
LEMMA EditSchedules ==
    ASSUME TypeInv, NEW f \in Feed, row[f].there, Scheduled(f), NEW a, NEW off \in BOOLEAN,
           NEW d \in PollChoices, UpdateFeed(f, a, off, d), default' = default,
           asked' = asked \cup {f},
           behind' = IF d = None /\ row[f].override # None THEN behind \cup {f} ELSE behind
    PROVE  Scheduled(f)'
  <1> DEFINE now == row[f].url # a \/ (row[f].disabled /\ ~off)
             bound == IF d = None THEN Never
                      ELSE IF row[f].age = Never THEN d ELSE Larger(0, d - row[f].age)
             n == IF now THEN 0 ELSE row[f].failures
             t == IF now THEN 0 ELSE Smaller(row[f].due, bound)
             c == IF d # None THEN d ELSE default
  <1>1. row[f] \in Column
    BY DEF TypeInv
  <1>2. /\ row'[f].there /\ row'[f].age = row[f].age /\ row'[f].due = t
        /\ row'[f].failures = n /\ row'[f].disabled = off /\ row'[f].override = d
    BY <1>1 DEF TypeInv, UpdateFeed, Moved, Column
  <1>3. ChosenInterval(row[f])' = c
    BY <1>2 DEF ChosenInterval
  <1>4. /\ row[f].due \in 0 .. Never /\ row[f].age \in 0 .. Never /\ Never \in Nat /\ 1 < Min
        /\ Min \in Nat /\ (d # None => d \in Nat /\ d > 0 /\ d < Never)
    BY <1>1, Policy DEF Column, PollChoices
  <1>5. DueAtOnce(f)'
    <2>1. row[f].age = Never => row[f].due = 0
      BY DEF Scheduled, DueAtOnce
    <2>2. row[f].age = Never => t = 0
      BY <1>4, <2>1 DEF Smaller
    <2> QED BY <1>2, <2>2 DEF DueAtOnce
  <1>6. ASSUME f \notin behind', ~off, n = 0, c # None
        PROVE  IF row[f].age = Never THEN t = 0 ELSE t <= Larger(0, Chosen(c) - row[f].age)
    <2>1. row[f].age = Never => t = 0
      BY <1>2, <1>5 DEF DueAtOnce
    <2>2. Larger(0, Chosen(c) - row[f].age) \in Nat
      <3>1. c \in Nat
        BY <1>6, Policy DEF TypeInv, PollChoices
      <3> QED BY <1>4, <3>1 DEF Larger, Chosen
    <2>3. CASE now
      BY <2>3, <2>2
    <2>4. CASE ~now /\ d # None
      BY <1>4, <2>1, <2>4 DEF Larger, Smaller, Chosen
    <2>5. CASE ~now /\ d = None
      <3>1. row[f].override = None /\ f \notin behind /\ ChosenInterval(row[f]) = c
        BY <1>6, <2>5 DEF ChosenInterval
      <3>2. ~row[f].disabled /\ row[f].failures = 0
        BY <1>1, <1>6, <2>5 DEF Column
      <3>3. Prompt(row[f], c)
        BY <3>1 DEF Scheduled
      <3>4. t <= row[f].due /\ t \in Nat
        BY <1>4, <2>5 DEF Smaller
      <3>5. row[f].age # Never => row[f].due <= Larger(0, Chosen(c) - row[f].age)
        BY <1>6, <3>2, <3>3 DEF Prompt
      <3> QED BY <1>4, <2>1, <2>2, <3>4, <3>5
    <2> QED BY <2>3, <2>4, <2>5
  <1> HIDE DEF n, t, c
  <1>7. row'[f].there /\ f \notin behind' => Prompt(row[f], ChosenInterval(row[f]))'
    BY <1>2, <1>3, <1>6 DEF Prompt
  <1> QED BY <1>5, <1>7 DEF Scheduled

LEMMA EditKeeps ==
    ASSUME TypeInv, FeedsInv, NEW f \in Feed, NEW a \in Address, NEW off \in BOOLEAN,
           NEW d \in PollChoices, HandleEditFeed(f, a, off, d)
    PROVE  FeedsInv'
  <1>1. /\ row[f].there /\ Touch({f}) /\ UpdateFeed(f, a, off, d)
        /\ asked' = asked \cup {f}
        /\ poisoned' = (IF a # row[f].url THEN poisoned \ {f} ELSE poisoned)
        /\ behind' = (IF d = None /\ row[f].override # None THEN behind \cup {f} ELSE behind)
        /\ UNCHANGED <<default, items>>
    BY DEF HandleEditFeed
  <1>2. \A g \in Feed \ {f} : row'[g] = row[g] /\ job'[g] = job[g]
    BY <1>1 DEF TypeInv, UpdateFeed, Touch
  <1>3. \A g \in Feed \ {f} : FeedInv(g)'
    BY <1>1, <1>2, Untouched DEF FeedsInv
  <1>4. /\ row'[f].url = a
        /\ row'[f].etag = IF row[f].url = a THEN row[f].etag ELSE None
    BY <1>1 DEF TypeInv, Column, UpdateFeed, Moved
  <1>5. /\ job'[f].at = job[f].at /\ job'[f].read = job[f].read
        /\ job'[f].answer = job[f].answer /\ job'[f].todo = job[f].todo
        /\ job[f].at \in Running => job'[f].edited
    BY <1>1 DEF TypeInv, Holds, Touch
  <1>6. ReadFits(f)' /\ StoredSoFar(f)'
    BY <1>1, <1>5 DEF FeedsInv, FeedInv, ReadFits, StoredSoFar, At
  <1>7. Vouched(f)'
    BY <1>1, <1>4 DEF FeedsInv, FeedInv, Vouched, StoredTo, None
  <1>8. Scheduled(f)'
    BY <1>1, EditSchedules DEF FeedsInv, FeedInv
  <1> QED BY <1>3, <1>6, <1>7, <1>8 DEF FeedsInv, FeedInv

LEMMA DefaultKeeps ==
    ASSUME TypeInv, FeedsInv, NEW d \in PollChoices, HandleDefaultPollInterval(d)
    PROVE  FeedsInv'
  <1> SUFFICES ASSUME NEW f \in Feed
               PROVE  FeedInv(f)'
    BY DEF FeedsInv
  <1> DEFINE t == Smaller(row[f].due, IF row[f].age = Never THEN d
                                      ELSE Larger(0, d - row[f].age))
             stays == ~row[f].there \/ row[f].disabled \/ row[f].override # None \/ d = None
  <1>1. /\ default' = d /\ asked' = asked \cup Live /\ Touch(Live)
        /\ UNCHANGED <<items, poisoned, behind>>
    BY DEF HandleDefaultPollInterval, SetDefaultPollInterval
  <1>2. row[f] \in Column /\ job[f] \in Holds
    BY DEF TypeInv
  <1>3. /\ row'[f] = IF stays THEN row[f] ELSE [row[f] EXCEPT !.due = t]
        /\ job'[f] = IF f \in Live /\ job[f].at \in Running
                     THEN [job[f] EXCEPT !.edited = TRUE] ELSE job[f]
    BY <1>1, <1>2 DEF HandleDefaultPollInterval, SetDefaultPollInterval, Column, Touch
  <1> HIDE DEF t
  <1>4. /\ row'[f].there = row[f].there /\ row'[f].url = row[f].url
        /\ row'[f].etag = row[f].etag /\ row'[f].age = row[f].age
        /\ row'[f].failures = row[f].failures /\ row'[f].disabled = row[f].disabled
        /\ row'[f].override = row[f].override
        /\ row'[f].due = IF stays THEN row[f].due ELSE t
    BY <1>2, <1>3 DEF Column
  <1>5. /\ job'[f].at = job[f].at /\ job'[f].read = job[f].read
        /\ job'[f].answer = job[f].answer /\ job'[f].todo = job[f].todo
        /\ row[f].there /\ job[f].at \in Running => job'[f].edited
    BY <1>2, <1>3 DEF Holds, Live
  <1>6. ReadFits(f)' /\ StoredSoFar(f)' /\ Vouched(f)'
    BY <1>1, <1>4, <1>5 DEF FeedsInv, FeedInv, ReadFits, StoredSoFar, Vouched, StoredTo, At
  <1>7. Scheduled(f)
    BY DEF FeedsInv, FeedInv
  <1>8. /\ row[f].due \in 0 .. Never /\ row[f].age \in 0 .. Never /\ Never \in Nat
        /\ Min \in Nat /\ (d # None => d \in Nat)
    BY <1>2, Policy DEF Column, PollChoices
  <1>9. DueAtOnce(f)'
    <2>1. row[f].age = Never => row[f].due = 0
      BY <1>7 DEF Scheduled, DueAtOnce
    <2>2. row[f].age = Never => row'[f].due = 0
      BY <1>4, <1>8, <2>1 DEF Smaller, t
    <2> QED BY <1>4, <2>2 DEF DueAtOnce
  <1>10. row[f].there => f \in asked'
    BY <1>1 DEF Live
  <1>11. ASSUME row[f].there, f \notin behind
         PROVE  Prompt(row[f], ChosenInterval(row[f]))'
    <2>1. Prompt(row[f], ChosenInterval(row[f]))
      BY <1>7, <1>11 DEF Scheduled
    <2>2. CASE stays
      <3>1. CASE row[f].disabled
        BY <1>4, <3>1 DEF Prompt
      <3>2. CASE row[f].override # None
        BY <1>4, <2>1, <2>2, <3>2 DEF Prompt, ChosenInterval
      <3>3. CASE row[f].override = None /\ d = None
        BY <1>1, <1>4, <3>3 DEF Prompt, ChosenInterval
      <3> QED BY <1>11, <2>2, <3>1, <3>2, <3>3
    <2>3. CASE ~stays
      <3>1. ChosenInterval(row[f])' = d /\ d \in Nat
        BY <1>1, <1>4, <1>8, <2>3 DEF ChosenInterval
      <3>2. row[f].age # Never => t <= Larger(0, Chosen(d) - row[f].age)
        BY <1>8, <2>3 DEF t, Smaller, Larger, Chosen
      <3> QED BY <1>4, <1>9, <2>3, <3>1, <3>2 DEF Prompt, DueAtOnce
    <2> QED BY <2>2, <2>3
  <1>12. Scheduled(f)'
    BY <1>1, <1>4, <1>9, <1>10, <1>11 DEF Scheduled
  <1> QED BY <1>6, <1>12 DEF FeedInv

LEMMA RefreshKeeps ==
    ASSUME TypeInv, FeedsInv, HandleRefreshFeeds
    PROVE  FeedsInv'
  <1> SUFFICES ASSUME NEW f \in Feed
               PROVE  FeedInv(f)'
    BY DEF FeedsInv
  <1>1. /\ UNCHANGED <<default, job, items, poisoned, behind>>
        /\ asked' = asked \cup PollNow
        /\ row'[f] = IF f \in PollNow THEN [row[f] EXCEPT !.due = 0] ELSE row[f]
    BY DEF HandleRefreshFeeds
  <1>2. CASE f \notin PollNow
    BY <1>1, <1>2, Untouched DEF FeedsInv
  <1>3. CASE f \in PollNow
    <2>1. row[f] \in Column
      BY DEF TypeInv
    <2>2. /\ row'[f].there = row[f].there /\ row'[f].url = row[f].url
          /\ row'[f].etag = row[f].etag /\ row'[f].age = row[f].age
          /\ row'[f].failures = row[f].failures /\ row'[f].disabled = row[f].disabled
          /\ row'[f].override = row[f].override /\ row'[f].due = 0
      BY <1>1, <1>3, <2>1 DEF Column
    <2>3. ReadFits(f)' /\ StoredSoFar(f)' /\ Vouched(f)'
      BY <1>1, <2>2 DEF FeedsInv, FeedInv, ReadFits, StoredSoFar, Vouched, StoredTo, At,
                        ChosenInterval
    <2>4. Prompt(row[f], ChosenInterval(row[f]))'
      <3>1. ChosenInterval(row[f])' = ChosenInterval(row[f])
        BY <1>1, <2>2 DEF ChosenInterval
      <3>2. ChosenInterval(row[f]) # None =>
               Larger(0, Chosen(ChosenInterval(row[f])) - row[f].age) \in Nat
        <4>1. ChosenInterval(row[f]) # None => ChosenInterval(row[f]) \in Nat
          BY ChosenIntervalType, Policy DEF PollChoices
        <4>2. row[f].age \in Nat /\ Min \in Nat
          BY <2>1, Policy DEF Column
        <4> QED BY <4>1, <4>2 DEF Larger, Chosen
      <3> QED BY <2>2, <3>1, <3>2 DEF Prompt
    <2>5. Scheduled(f)'
      BY <1>1, <1>3, <2>2, <2>4 DEF Scheduled, DueAtOnce
    <2> QED BY <2>3, <2>5 DEF FeedInv
  <1> QED BY <1>2, <1>3

\* Time brings a poll nearer as fast as it takes the last one away.
LEMMA TickKeeps ==
    ASSUME TypeInv, FeedsInv, Tick
    PROVE  FeedsInv'
  <1> SUFFICES ASSUME NEW f \in Feed
               PROVE  FeedInv(f)'
    BY DEF FeedsInv
  <1> DEFINE t == Larger(0, row[f].due - 1)
             o == IF row[f].age = Never THEN Never ELSE Smaller(row[f].age + 1, Never - 1)
             d == ChosenInterval(row[f])
  <1>1. /\ UNCHANGED <<default, job, items, poisoned, behind, asked>>
        /\ job[f].at \notin Running
    BY DEF Tick, history
  <1>2. row[f] \in Column
    BY DEF TypeInv
  <1>3. row'[f] = IF ~row[f].there THEN row[f] ELSE [row[f] EXCEPT !.due = t, !.age = o]
    BY <1>2 DEF Tick, Column
  <1>4. CASE ~row[f].there
    BY <1>1, <1>3, <1>4, Untouched DEF FeedsInv
  <1>5. CASE row[f].there
    <2> HIDE DEF t, o
    <2>1. /\ row'[f].there = row[f].there /\ row'[f].url = row[f].url
          /\ row'[f].etag = row[f].etag /\ row'[f].age = o /\ row'[f].due = t
          /\ row'[f].failures = row[f].failures /\ row'[f].disabled = row[f].disabled
          /\ row'[f].override = row[f].override
      BY <1>2, <1>3, <1>5 DEF Column
    <2>2. ReadFits(f)' /\ StoredSoFar(f)' /\ Vouched(f)'
      BY <1>1, <2>1 DEF FeedsInv, FeedInv, ReadFits, StoredSoFar, Vouched, StoredTo, At,
                        Running
    <2>3. d' = d
      BY <1>1, <2>1 DEF ChosenInterval
    <2>4. /\ row[f].due \in Nat /\ row[f].age \in 0 .. Never /\ Never \in Nat
          /\ 2 < Never /\ Min \in Nat /\ (d # None => d \in Nat)
      <3>1. d \in PollChoices
        BY ChosenIntervalType
      <3> HIDE DEF d
      <3> QED BY <1>2, <3>1, Policy DEF Column, PollChoices
    <2>5. Scheduled(f)
      BY DEF FeedsInv, FeedInv
    <2> HIDE DEF d
    <2>6. DueAtOnce(f)'
      <3>1. row[f].age = Never => row[f].due = 0
        BY <2>5 DEF Scheduled, DueAtOnce
      <3>2. o = Never => t = 0
        BY <2>4, <3>1 DEF o, t, Larger, Smaller
      <3> QED BY <2>1, <3>2 DEF DueAtOnce
    <2>7. ASSUME f \notin behind
          PROVE  Prompt(row[f], d)'
      <3>1. Prompt(row[f], d)
        BY <1>5, <2>5, <2>7 DEF Scheduled, d
      <3> SUFFICES ASSUME ~row[f].disabled, row[f].failures = 0, d # None
                   PROVE  IF o = Never THEN t = 0 ELSE t <= Larger(0, Chosen(d) - o)
        BY <2>1, <2>3 DEF Prompt
      <3>2. IF row[f].age = Never THEN row[f].due = 0
            ELSE row[f].due <= Larger(0, Chosen(d) - row[f].age)
        BY <3>1 DEF Prompt
      <3> QED BY <2>4, <3>2 DEF o, t, Larger, Smaller, Chosen
    <2>8. ASSUME f \notin asked \cup behind
          PROVE  Rare(row[f], d)'
      <3>1. Rare(row[f], d)
        BY <1>5, <2>5, <2>8 DEF Scheduled, d
      <3> SUFFICES ASSUME row[f].failures > 0, o < Never - 1
                   PROVE  /\ t + o >= OnFailure(row[f].failures)
                          /\ d # None => t + o >= Chosen(d)
        BY <2>1, <2>3 DEF Rare
      <3>2. /\ row[f].age < Never - 1 /\ t + o \in Nat
            /\ t + o >= row[f].due + row[f].age /\ row[f].due + row[f].age \in Nat
        BY <2>4 DEF o, t, Larger, Smaller
      <3>3. /\ row[f].due + row[f].age >= OnFailure(row[f].failures)
            /\ d # None => row[f].due + row[f].age >= Chosen(d)
        BY <3>1, <3>2 DEF Rare
      <3>4. OnFailure(row[f].failures) \in Nat /\ (d # None => Chosen(d) \in Nat)
        <4>1. row[f].failures \in Nat
          BY <1>2, FeedsConstants DEF Column
        <4> QED BY <2>4, <4>1, BackOff, Policy DEF Chosen, Larger
      <3> QED BY <3>2, <3>3, <3>4
    <2>9. Scheduled(f)'
      BY <1>1, <2>1, <2>6, <2>7, <2>8 DEF Scheduled, d
    <2> QED BY <2>2, <2>9 DEF FeedInv
  <1> QED BY <1>4, <1>5

LEMMA UnsubscribeKeeps ==
    ASSUME TypeInv, FeedsInv, NEW f \in Feed, HandleUnsubscribeFeed(f)
    PROVE  FeedsInv'
  <1> USE DEF HandleUnsubscribeFeed, DeleteFeed
  <1>1. \A g \in Feed \ {f} : FeedInv(g)'
    BY Untouched DEF TypeInv, ItemsFit, FeedsInv
  <1>2. row'[f] = NoFeed /\ ~NoFeed.there /\ NoFeed.due = 0
    BY DEF TypeInv, NoFeed
  <1>3. FeedInv(f)'
    BY <1>2 DEF FeedInv, ReadFits, StoredSoFar, Vouched, Scheduled, DueAtOnce
  <1> QED BY <1>1, <1>3 DEF FeedsInv

LEMMA NextKeeps ==
    ASSUME TypeInv, FeedsInv, [Next]_vars
    PROVE  FeedsInv'
  <1>1. CASE UNCHANGED vars
    BY <1>1, Untouched DEF vars, bounds, history, FeedsInv
  <1>2. CASE Reader
    BY <1>2, SubscribeKeeps, EditKeeps, DefaultKeeps, RefreshKeeps, UnsubscribeKeeps DEF Reader
  <1>3. CASE \E f \in Feed : Poll(f)
    BY <1>3, JobStepKeeps, IngestKeeps, RecordKeeps DEF Poll
  <1>4. CASE \E a \in Address : Publish(a)
    BY <1>4, Untouched DEF Publish, bounds, history, FeedsInv
  <1> QED
    BY <1>1, <1>2, <1>3, <1>4, JobStepKeeps, TickKeeps DEF Next

LEMMA AlwaysInOrder == Spec => [](TypeInv /\ FeedsInv)
  <1>1. Init => TypeInv /\ FeedsInv
    BY InitType, InitFeeds
  <1>2. TypeInv /\ FeedsInv /\ [Next]_vars => (TypeInv /\ FeedsInv)'
    BY NextType, NextKeeps
  <1> QED BY <1>1, <1>2, PTL DEF Spec

\* No 304 is invited for a document some entry of which was never stored, however polls,
\* crashes, retries and edits of the address alternate (store/feeds.go, feed/poller.go),
\* but for a poll that was in flight over an edit.
THEOREM ValidatorsVouch == Spec => []ValidatorsMeanIngested
  <1>1. FeedsInv => ValidatorsMeanIngested
    BY FeedsInvPromises
  <1> QED BY <1>1, AlwaysInOrder, PTL

\* A cadence somebody chose is never exceeded, under any policy and any sequence of
\* polls, edits and changes of the preference (store/feeds.go, feed/interval.go).
THEOREM CadenceIsHonoured == Spec => []CadenceHonoured
  <1>1. FeedsInv => CadenceHonoured
    BY FeedsInvPromises
  <1> QED BY <1>1, AlwaysInOrder, PTL

\* A failing feed is left alone for at least its back-off, and for at least the cadence
\* in force, from one poll to the next (feed/poller.go, FailureInterval).
THEOREM FailingIsLeftAlone == Spec => []FailingIsAskedLess
  <1>1. FeedsInv => FailingIsAskedLess
    BY FeedsInvPromises
  <1> QED BY <1>1, AlwaysInOrder, PTL

=============================================================================
