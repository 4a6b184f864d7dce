-------------------------------- MODULE Feeds --------------------------------
(***************************************************************************)
(* One reader's subscriptions and the worker that polls them: when a feed  *)
(* is asked, what it is asked with, what its answer stores and when it is  *)
(* asked again, while the reader edits the very rows a poll is about.      *)
(*                                                                         *)
(* Times are relative: due is how long until next_poll_at, age how long    *)
(* since last_polled_at.  A document is its version, which is also the     *)
(* validator it is served with: it lists the entries up to that number.    *)
(***************************************************************************)
EXTENDS Integers, FiniteSets, Sequences

CONSTANTS
    MaxFeed,        \* bound: ids the sequence hands out
    Address,        \* addresses that answer
    Page,           \* those that answer with a web page, which is no feed
    Advertised,     \* the feed each of those advertises
    Entry,          \* 1 .. n, in the order they are published
    Served,         \* the version each address serves at first, 0 for a page
    Link,           \* the link each entry carries
    Hint,           \* the cadence each address declares, 0 if none
    Min, Max,       \* IntervalPolicy, with a growth of one and a half
    PollFloor,
    Never,          \* longer than any time here; also last_polled_at IS NULL
    DisableAfter,
    Cadence,        \* what a reader may choose
    MaxLive, MaxEdits, MaxFaults    \* bounds: rows at once, reader's acts, failures

ASSUME FeedsConstants ==
    /\ MaxFeed \in Nat \ {0} /\ Page \subseteq Address /\ Address # {}
    /\ IsFiniteSet(Entry) /\ Entry = 1 .. Cardinality(Entry)
    /\ Advertised \in [Page -> Address \ Page]
    /\ Hint \in [Address -> Nat] /\ Served \in [Address -> Entry \cup {0}]
    /\ Min \in Nat \ {0, 1} /\ Max \in Nat /\ Min <= Max
    /\ Never \in Nat /\ \A d \in Cadence \cup {Max, PollFloor} : d + 1 < Never
    /\ PollFloor \in Nat /\ DisableAfter \in Nat \ {0} /\ Cadence \subseteq Nat \ {0}
    /\ MaxLive \in Nat /\ MaxEdits \in Nat /\ MaxFaults \in Nat

VARIABLES
    row,        \* feeds
    nextId,     \* the sequence behind feeds.id
    default,    \* users.default_poll_interval, 0 for automatic
    items,      \* feed_items: the entries each feed has delivered
    articles,   \* articles, by canonical address
    version,    \* what each address serves
    job,        \* the poll_feed job of each feed, and what it holds
    edits, faults,
    \* history, read by no guard
    poisoned,   \* feeds whose validators are of another document than its address's
    behind,     \* feeds whose schedule was written by a poll that was overtaken
    asked       \* feeds a reader has moved forward since their last poll

bounds  == <<edits, faults>>
history == <<poisoned, behind, asked>>
vars    == <<row, nextId, default, items, articles, version, job, bounds, history>>

None    == 0
Folder  == [outlines |-> {}]
Feed    == 1 .. MaxFeed
NoFeed  == [there |-> FALSE, url |-> CHOOSE a \in Address : TRUE, etag |-> None,
            interval |-> Min, due |-> 0, age |-> Never, failures |-> 0,
            disabled |-> FALSE, override |-> None]
NoJob   == [at |-> "none", read |-> NoFeed, answer |-> None, todo |-> {}, new |-> FALSE,
            edited |-> FALSE]

Larger(a, b)  == IF a > b THEN a ELSE b
Smaller(a, b) == IF a < b THEN a ELSE b

-----------------------------------------------------------------------------
(* Canonical addresses: what makes two links one article.                  *)

HostMark == {"h", "H", "."}
PathMark == {"/", "a", "%2F"}

\* A parsed address: its host and its escaped path are sequences of marks, its query a
\* set of keys, since Encode sorts them.
Url == [scheme : {"", "http", "https", "mailto"}, host : Seq(HostMark),
        port : {"", "80", "443", "8080"},
        path : {p \in Seq(PathMark) : p = << >> \/ p[1] = "/"},
        query : SUBSET {"id", "utm_source"}, fragment : {"", "x", "!x"}]

ASSUME LinksAreUrls == Link \in [Entry -> Url]

\* How much of s strings.TrimRight leaves: what comes after is all marks.
Kept(s, mark) ==
    CHOOSE n \in 0 .. Len(s) :
        (n > 0 => s[n] # mark) /\ \A i \in n + 1 .. Len(s) : s[i] = mark

TrimRight(s, mark) == SubSeq(s, 1, Kept(s, mark))

DefaultPort == [http |-> "80", https |-> "443"]

ToLower(h) == [i \in 1 .. Len(h) |-> IF h[i] = "H" THEN "h" ELSE h[i]]
CanonicalizeHost(h) == TrimRight(ToLower(h), ".")
CanonicalizePort(u) == IF u.port = DefaultPort[u.scheme] THEN "" ELSE u.port
CanonicalizePath(p) == LET trimmed == TrimRight(p, "/")
                       IN  IF trimmed = << >> THEN <<"/">> ELSE trimmed
CanonicalizeQuery(q) == q \ {"utm_source"}
CanonicalizeFragment(f) == IF f = "!x" THEN f ELSE ""

\* Not an absolute http or https address, or a host that normalizes to nothing.
Refuses(u) == u.scheme \notin {"http", "https"} \/ CanonicalizeHost(u.host) = << >>

Canonicalize(u) ==
    [u EXCEPT !.host = CanonicalizeHost(@), !.port = CanonicalizePort(u),
              !.path = CanonicalizePath(@), !.query = CanonicalizeQuery(@),
              !.fragment = CanonicalizeFragment(@)]

-----------------------------------------------------------------------------
(* How long to wait.                                                       *)

Clamp(d) == Smaller(Larger(d, Min), Max)

\* Raised to the floor, never lowered to the ceiling.
Chosen(d) == Larger(d, Min)

OnNewItems(current) == Clamp(current \div 2)

OnNoChange(current) ==
    LET grown == (3 * current) \div 2
    IN  Clamp(IF grown <= current THEN current + 1 ELSE grown)

OnFailure(n) == Clamp(Min * 2 ^ Smaller(Larger(n, 1) - 1, 32))

FromHint(a) == Clamp(Hint[a])

ChosenInterval(f) == IF f.override # None THEN f.override ELSE default

\* A choice, then what the document declares, then what the poll found.
NextInterval(f, choice, parsed, foundNew) ==
    IF choice # None THEN Chosen(choice)
    ELSE IF parsed /\ Hint[f.url] # None THEN FromHint(f.url)
    ELSE IF foundNew THEN OnNewItems(f.interval)
    ELSE OnNoChange(f.interval)

-----------------------------------------------------------------------------
(* The scheduler and a poll, from its read of the row to its record.       *)

At(f, s) == job[f].at = s
Running  == {"read", "answered", "ingest", "failed", "unchanged"}

\* Mutant of DueFeeds: a feed that was never polled has no time to compare.
DueFeedsPolled == {f \in Feed : row[f].there /\ ~row[f].disabled /\ row[f].due = 0 /\ row[f].age < Never}

\* The order and the batch of DueFeeds are left out.
DueFeeds == {f \in Feed : row[f].there /\ ~row[f].disabled /\ row[f].due = 0}

\* One insertion for all of them; a poll still in flight is skipped as a duplicate.
ScheduleFeeds ==
    /\ \E f \in DueFeeds : At(f, "none")
    /\ job' = [f \in Feed |-> IF f \in DueFeeds /\ At(f, "none")
                              THEN [NoJob EXCEPT !.at = "queued"] ELSE job[f]]
    /\ UNCHANGED <<row, nextId, default, items, articles, version, bounds, history>>

Done(f) == job' = [job EXCEPT ![f] = NoJob]

\* A feed that is gone fails the job until it is discarded; one disabled is skipped.
SkipPoll(f) ==
    /\ At(f, "queued")
    /\ ~row[f].there \/ row[f].disabled
    /\ Done(f)
    /\ UNCHANGED <<row, nextId, default, items, articles, version, bounds, history>>

\* The choice in force is read with the row.
StartPoll(f) ==
    /\ At(f, "queued") /\ row[f].there /\ ~row[f].disabled
    /\ job' = [job EXCEPT ![f].at = "read", ![f].edited = FALSE,
                          ![f].read = [row[f] EXCEPT !.override = ChosenInterval(row[f])]]
    /\ UNCHANGED <<row, nextId, default, items, articles, version, bounds, history>>

\* Conditional headers: the address answers 304 when it still serves that version.
NotModified(f) == LET r == job[f].read IN r.etag # None /\ r.etag = version[r.url]

Respond(f) ==
    LET r == job[f].read IN
    /\ At(f, "read")
    /\ \/ /\ r.url \notin Page
          /\ job' = IF NotModified(f) THEN [job EXCEPT ![f].at = "unchanged"]
                    ELSE [job EXCEPT ![f].at = "ingest", ![f].answer = version[r.url],
                                     ![f].todo = 1 .. version[r.url]]
          /\ UNCHANGED faults
       \/ /\ r.url \in Page
          /\ job' = [job EXCEPT ![f].at = "failed"]
          /\ UNCHANGED faults
       \/ /\ faults < MaxFaults /\ faults' = faults + 1
          /\ job' = [job EXCEPT ![f].at = "failed"]
    /\ UNCHANGED <<row, nextId, default, items, articles, version, edits, history>>

UpsertArticle(e) == articles' = articles \cup {Canonicalize(Link[e])}

\* Mutant of InsertFeedItem: the row need not be there.
InsertFeedItemUnguarded(f, e) == items' = [items EXCEPT ![f] = @ \cup {<<job[f].read.url, e>>}]

\* Guarded by the row being there, and keyed by the entry's guid.
InsertFeedItem(f, e) ==
    items' = IF row[f].there THEN [items EXCEPT ![f] = @ \cup {<<job[f].read.url, e>>}]
             ELSE items

\* One entry, newest first; an unusable link is passed over.
Ingest(f) ==
    /\ At(f, "ingest")
    /\ \E e \in job[f].todo :
          /\ \A d \in job[f].todo : e >= d
          /\ IF Refuses(Link[e]) THEN UNCHANGED <<items, articles>>
             ELSE UpsertArticle(e) /\ InsertFeedItem(f, e)
          /\ job' = [job EXCEPT ![f].todo = @ \ {e}, ![f].new = @ \/ items' # items]
    /\ UNCHANGED <<row, nextId, default, version, bounds, history>>

\* What every record writes, with its interval.
Recorded(f, interval) ==
    [row[f] EXCEPT !.interval = interval, !.due = interval, !.age = 0]

\* A poll says nothing of a row that was edited since it was read.
Overtaken(f) == job[f].edited
Remember(f) ==
    /\ behind' = IF Overtaken(f) THEN behind \cup {f} ELSE behind \ {f}
    /\ asked' = asked \ {f}

RecordPollSuccess(f) ==
    LET r == job[f].read
        next == NextInterval(r, r.override, TRUE, job[f].new)
    IN
    /\ At(f, "ingest") /\ job[f].todo = {}
    /\ row' = IF ~row[f].there THEN row
              ELSE [row EXCEPT ![f] = [Recorded(f, next) EXCEPT
                                         !.etag = job[f].answer, !.failures = 0]]
    /\ poisoned' = IF Overtaken(f) THEN poisoned \cup {f} ELSE poisoned \ {f}
    /\ Remember(f) /\ Done(f)
    /\ UNCHANGED <<nextId, default, items, articles, version, bounds>>

RecordPollNotModified(f) ==
    LET r == job[f].read IN
    /\ At(f, "unchanged")
    /\ row' = IF ~row[f].there THEN row
              ELSE [row EXCEPT ![f] = [Recorded(f, NextInterval(r, r.override, FALSE, FALSE))
                                         EXCEPT !.failures = 0]]
    /\ Remember(f) /\ Done(f)
    /\ UNCHANGED <<nextId, default, items, articles, version, bounds, poisoned>>

\* Mutant of FailureInterval: a choice stands for the back-off too.
FailureIntervalChosen(r) ==
    IF r.override = None THEN OnFailure(r.failures + 1) ELSE Chosen(r.override)

\* Backed off by the failures that were read, and no sooner than the choice.
FailureInterval(r) ==
    IF r.override = None THEN OnFailure(r.failures + 1)
    ELSE Larger(OnFailure(r.failures + 1), Chosen(r.override))

RecordPollFailure(f) ==
    /\ At(f, "failed")
    /\ row' = IF ~row[f].there THEN row
              ELSE [row EXCEPT ![f] = [Recorded(f, FailureInterval(job[f].read)) EXCEPT
                       !.failures = @ + 1,
                       !.disabled = @ \/ row[f].failures + 1 >= DisableAfter]]
    /\ Remember(f) /\ Done(f)
    /\ UNCHANGED <<nextId, default, items, articles, version, bounds, poisoned>>

\* A worker dies, or the database refuses a write: the job runs again from its start.
Retry(f) ==
    /\ job[f].at \in Running /\ faults < MaxFaults
    /\ faults' = faults + 1
    /\ job' = [job EXCEPT ![f] = [NoJob EXCEPT !.at = "queued"]]
    /\ UNCHANGED <<row, nextId, default, items, articles, version, edits, history>>

-----------------------------------------------------------------------------
(* The reader.                                                             *)

Live == {f \in Feed : row[f].there}
At1(a) == {f \in Live : row[f].url = a}

Edits == edits < MaxEdits /\ edits' = edits + 1

\* Polls in flight over a row that is being written have been overtaken.
Touch(F) == job' = [f \in Feed |-> IF f \in F /\ job[f].at \in Running
                                   THEN [job[f] EXCEPT !.edited = TRUE] ELSE job[f]]

ParseProbe(a) == a \notin Page
DiscoverFeedURL(a) == Advertised[a]

\* What answers as a feed: what was typed, or what that page advertises, one hop on.
Probe(typed) == IF ParseProbe(typed) THEN typed ELSE DiscoverFeedURL(typed)

\* The address a test leaves in the form; a test that fails leaves what was typed.
HandleTestFeed(typed, tested) == IF tested THEN Probe(typed) ELSE typed

UpsertFeed(a) ==
    IF At1(a) # {} THEN UNCHANGED <<row, nextId>>       \* title and folder only
    ELSE /\ nextId \in Feed /\ nextId' = nextId + 1
         /\ row' = [row EXCEPT ![nextId] = [NoFeed EXCEPT !.there = TRUE, !.url = a]]

\* Testing first is up to the reader.
HandleAddFeed(typed, tested) ==
    /\ Edits /\ Cardinality(Live) < MaxLive
    /\ UpsertFeed(HandleTestFeed(typed, tested))
    /\ UNCHANGED <<default, items, articles, version, job, faults, history>>

\* Folders and links that cannot be fetched are no subscriptions.
ParseOPML(outlines) == outlines \cap Address

\* Each subscription on its own, so that a bad one or a crash keeps the rest.
Import(subs) == \E a \in subs : UpsertFeed(a)

HandleImportOPML(outlines) ==
    /\ Edits /\ Cardinality(Live) < MaxLive
    /\ Import(ParseOPML(outlines))
    /\ UNCHANGED <<default, items, articles, version, job, faults, history>>

\* Mutant of Moved: the validators stay.
MovedKeepingValidators(r, a) == r

Moved(r, a) == [r EXCEPT !.etag = IF r.url = a THEN @ ELSE None]

\* What a form or the preferences may ask for; anything else is refused.
PollChoices == Cadence \cup {None}

\* One statement; every column on its right is the row as it was.
UpdateFeed(f, a, off, d) ==
    LET r == row[f]
        now == r.url # a \/ (r.disabled /\ ~off)
        bound == IF d = None THEN Never ELSE IF r.age = Never THEN d ELSE Larger(0, d - r.age)
    IN
    row' = [row EXCEPT ![f] =
              [Moved(r, a) EXCEPT !.url = a, !.disabled = off, !.override = d,
                                  !.failures = IF now THEN 0 ELSE @,
                                  !.due = IF now THEN 0 ELSE Smaller(@, bound)]]

\* Clearing a feed's own cadence moves nothing, though the reader's general one may be
\* shorter than what it was scheduled under.
HandleEditFeed(f, a, off, d) ==
    /\ row[f].there /\ Edits /\ At1(a) \subseteq {f}
    /\ UpdateFeed(f, a, off, d) /\ Touch({f})
    /\ asked' = asked \cup {f}
    /\ poisoned' = IF a # row[f].url THEN poisoned \ {f} ELSE poisoned
    /\ behind' = IF d = None /\ row[f].override # None THEN behind \cup {f} ELSE behind
    /\ UNCHANGED <<nextId, default, items, articles, version, faults>>

\* Mutant of SetDefaultPollInterval: the schedule stands.
SetDefaultPollIntervalAlone(d) == default' = d /\ row' = row

\* Brings forward what it can, and pushes nothing out.
SetDefaultPollInterval(d) ==
    /\ default' = d
    /\ row' = [f \in Feed |->
                 IF ~row[f].there \/ row[f].disabled \/ row[f].override # None \/ d = None
                 THEN row[f]
                 ELSE [row[f] EXCEPT !.due = Smaller(@, IF row[f].age = Never THEN d
                                                        ELSE Larger(0, d - row[f].age))]]

HandleDefaultPollInterval(d) ==
    /\ Edits /\ SetDefaultPollInterval(d)
    /\ asked' = asked \cup Live /\ Touch(Live)
    /\ UNCHANGED <<nextId, items, articles, version, faults, poisoned, behind>>

\* A manual refresh leaves alone what was just polled, and what is disabled.
PollNow == {f \in Live : ~row[f].disabled /\ row[f].age > PollFloor}

HandleRefreshFeeds ==
    /\ Edits
    /\ row' = [f \in Feed |-> IF f \in PollNow THEN [row[f] EXCEPT !.due = 0] ELSE row[f]]
    /\ asked' = asked \cup PollNow
    /\ UNCHANGED <<nextId, default, items, articles, version, job, faults, poisoned, behind>>

\* Its items go with it; the articles stay.
DeleteFeed(f) == row' = [row EXCEPT ![f] = NoFeed] /\ items' = [items EXCEPT ![f] = {}]

HandleUnsubscribeFeed(f) ==
    /\ row[f].there /\ Edits /\ DeleteFeed(f)
    /\ poisoned' = poisoned \ {f} /\ behind' = behind \ {f} /\ asked' = asked \ {f}
    /\ UNCHANGED <<nextId, default, articles, version, job, faults>>

-----------------------------------------------------------------------------
Publish(a) ==
    /\ version[a] + 1 \in Entry /\ a \notin Page
    /\ version' = [version EXCEPT ![a] = @ + 1]
    /\ UNCHANGED <<row, nextId, default, items, articles, job, bounds, history>>

Tick ==
    /\ \A f \in Feed : job[f].at \notin Running      \* a poll is shorter than a tick
    /\ row' = [f \in Feed |->
                 IF ~row[f].there THEN row[f]
                 ELSE [row[f] EXCEPT !.due = Larger(0, @ - 1),
                                     !.age = IF @ = Never THEN @ ELSE Smaller(@ + 1, Never - 1)]]
    /\ UNCHANGED <<nextId, default, items, articles, version, job, bounds, history>>

\* A reader who subscribes to nothing yet.
Init ==
    /\ row = [f \in Feed |-> NoFeed] /\ nextId = 1
    /\ default = None
    /\ items = [f \in Feed |-> {}] /\ articles = {}
    /\ version = Served
    /\ job = [f \in Feed |-> NoJob]
    /\ edits = 0 /\ faults = 0
    /\ poisoned = {} /\ behind = {} /\ asked = {}

\* What the worker does for a feed.
Poll(f) ==
    \/ SkipPoll(f) \/ StartPoll(f) \/ Respond(f) \/ Ingest(f)
    \/ RecordPollSuccess(f) \/ RecordPollNotModified(f) \/ RecordPollFailure(f)

Reader ==
    \/ \E a \in Address, tested \in BOOLEAN : HandleAddFeed(a, tested)
    \/ \E a \in Address : HandleImportOPML({a, Folder})
    \/ \E f \in Feed, a \in Address, off \in BOOLEAN, d \in PollChoices :
          HandleEditFeed(f, a, off, d)
    \/ \E d \in PollChoices : HandleDefaultPollInterval(d)
    \/ HandleRefreshFeeds
    \/ \E f \in Feed : HandleUnsubscribeFeed(f)

Next ==
    \/ ScheduleFeeds
    \/ \E f \in Feed : Poll(f) \/ Retry(f)
    \/ Reader
    \/ \E a \in Address : Publish(a)
    \/ Tick

\* The scheduler is a periodic job, a job that is queued is worked, and time passes.
Fairness == WF_vars(ScheduleFeeds) /\ WF_vars(Tick) /\ \A f \in Feed : WF_vars(Poll(f))

Spec == Init /\ [][Next]_vars /\ Fairness

-----------------------------------------------------------------------------
(* Properties.                                                             *)

Usable(a, v) == {<<a, e>> : e \in {d \in 1 .. v : ~Refuses(Link[d])}}

TypeOK ==
    /\ row \in [Feed -> [there : BOOLEAN, url : Address, etag : Entry \cup {None},
                         interval : Min .. Never, due : 0 .. Never, age : 0 .. Never,
                         failures : 0 .. DisableAfter, disabled : BOOLEAN,
                         override : PollChoices]]
    /\ nextId \in 1 .. MaxFeed + 1
    /\ default \in PollChoices
    /\ \A f \in Feed : items[f] \subseteq Address \X Entry /\ (~row[f].there => items[f] = {})
    /\ articles \subseteq Url /\ \A u \in articles : ~Refuses(u) /\ Canonicalize(u) = u
    /\ \A f, g \in Live : row[f].url = row[g].url => f = g
    /\ version \in [Address -> Entry \cup {0}]
    /\ \A f \in Feed : job[f].at \in Running \cup {"none", "queued"}
    /\ edits \in 0 .. MaxEdits /\ faults \in 0 .. MaxFaults
    /\ poisoned \cup behind \cup asked \subseteq Feed

\* A validator that is stored vouches for entries that are stored: whatever fails while
\* a document is ingested, and wherever the feed moves, no 304 is invited for something
\* never seen (feeds.go:221-225, poller.go:158-167).  The exception is a poll that was
\* in flight while the reader edited the row.
ValidatorsMeanIngested ==
    \A f \in Live \ poisoned : Usable(row[f].url, row[f].etag) \subseteq items[f]

\* The next poll of a feed whose reader has chosen a cadence is no further off than
\* that cadence from the last one, however the choice, the address and polls alternate
\* (feeds.go:233-241).  The exceptions are a poll that was in flight, and a feed whose
\* own cadence was cleared: neither moves the schedule to the choice in force.
CadenceHonoured ==
    \A f \in Live \ behind :
        LET d == ChosenInterval(row[f]) IN
        ~row[f].disabled /\ row[f].failures = 0 /\ d # None =>
            IF row[f].age = Never THEN row[f].due = 0
            ELSE row[f].due <= Larger(0, Chosen(d) - row[f].age)

\* A failing feed is asked ever less often, and no more often than a working one would
\* be, unless its reader has asked since (poller.go:281-290).
FailingIsAskedLess ==
    \A f \in Live \ (asked \cup behind) :
        LET apart == row[f].due + row[f].age IN
        row[f].failures > 0 /\ row[f].age < Never - 1 =>
            /\ apart >= OnFailure(row[f].failures)
            /\ ChosenInterval(row[f]) # None => apart >= Chosen(ChosenInterval(row[f]))

\* Whatever an address publishes is stored in the end by a feed that goes on being
\* subscribed there and is not disabled, unless its validators are of another document.
PublishedIsStored ==
    \A f \in Feed, a \in Address \ Page :
        (f \in Live /\ row[f].url = a /\ ~row[f].disabled) ~>
            \/ f \notin Live \/ row[f].url # a \/ row[f].disabled \/ f \in poisoned
            \/ Usable(a, version[a]) \subseteq items[f]

=============================================================================
