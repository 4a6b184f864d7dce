------------------------------ MODULE Reading ------------------------------
(***************************************************************************)
(* One reader's lists: what their feeds carry and what they saved, read    *)
(* page by page in a browser, article by article, and through a client     *)
(* that speaks Fever, while feeds deliver, extractions fill in dates and   *)
(* folders are renamed, merged and deleted.                                *)
(*                                                                         *)
(* An article is its id.  Ids ascend with arrival, and so do the times of  *)
(* arrival: the n-th article arrived at n.                                 *)
(***************************************************************************)
EXTENDS Integers, Sequences, FiniteSets

CONSTANTS
    Feed, Folder, Name,
    NoFolder, NoName,   \* filed nowhere, and the name of that bucket
    Unsubscribed,       \* no such subscription
    Gone,               \* the name of a folder that does not exist
    PageSize,           \* rows of a page of a stream (50)
    FeverItemLimit,     \* items of a Fever response (50)
    Dates,              \* of publication, others than those of arrival
    Walked,             \* the lists a reader may go through
    MaxArticles,        \* bounds: articles that ever arrive,
    MaxActs             \* and what people and their clients begin to do

NoDate == 0             \* of publication, when neither feed nor page gave one

Id     == 1 .. MaxArticles
Bucket == Name \cup {NoName}

\* The lists that can be marked read at once; the others are picked by hand.
Markable ==
    {[kind |-> k, of |-> NoName] : k \in {"unread", "all"}}
        \cup {[kind |-> "feed", of |-> f] : f \in Feed}
        \cup {[kind |-> k, of |-> n] : k \in {"category", "unread-category"}, n \in Bucket}
UnreadOnly(list) == list.kind \in {"unread", "unread-category"}
ScrollMarkable == {list \in Markable : UnreadOnly(list)}
Everything == [kind |-> "all", of |-> NoName]

ASSUME ReadingConstants ==
    /\ NoFolder \notin Folder /\ Unsubscribed \notin Folder \cup {NoFolder}
    /\ Gone \notin Name \cup {NoName} /\ NoName \notin Name
    /\ Dates \subseteq Int \ {NoDate} /\ Walked \subseteq Markable
    /\ PageSize \in Nat \ {0} /\ FeverItemLimit \in Nat \ {0}
    /\ MaxArticles \in Nat \ {0, 1} /\ MaxActs \in Nat

VARIABLES
    published,  \* of each article stored, in order of arrival
    carried,    \* feed_items: the articles each feed of the reader carries
    state,      \* article_state: the reader's row of each article
    filed,      \* the folder of each subscription
    name,       \* of each folder
    tab,        \* the list open in a browser, and how far it has been gone through
    client,     \* the Fever client: what it holds, and where it is in a round
    mark,       \* a group mark whose folder has been looked up
    acts,
    left        \* history: articles that left the open list, moved in it, or were passed

vars == <<published, carried, state, filed, name, tab, client, mark, acts, left>>

Stored == 1 .. Len(published)
\* lapsed: read more than neighborReadWindow, half an hour, ago.
NoRow  == [row |-> FALSE, read |-> FALSE, lapsed |-> FALSE, starred |-> FALSE, saved |-> FALSE]
Row    == [row : BOOLEAN, read : BOOLEAN, lapsed : BOOLEAN, starred : BOOLEAN, saved : BOOLEAN]
\* at is the cursor of the next page, or the article the page at hand links to.
Tab    == [how : {"closed", "pages", "article", "ended"}, list : Markable, at : Seq(Int),
           shown : SUBSET Id, was : SUBSET Id]
NoTab  == [how |-> "closed", list |-> Everything, at |-> <<>>, shown |-> {}, was |-> {}]
Mark   == [at : {"none", "found"}, group : Folder \cup {NoFolder}, name : Bucket, before : Nat,
           renamed : BOOLEAN]
NoMark == [at |-> "none", group |-> NoFolder, name |-> NoName, before |-> 0, renamed |-> FALSE]

-----------------------------------------------------------------------------
(* What a list contains, and in which order.                               *)

Subscribed == {f \in Feed : filed[f] # Unsubscribed}
CategoryOf(f) == IF filed[f] = NoFolder THEN NoName ELSE name[filed[f]]

VisibleArticles ==
    {a \in Stored : state[a].row \/ \E f \in Subscribed : a \in carried[f]}

\* within admits what was read in the last half hour, too.
Filter(list, within) ==
    {a \in VisibleArticles :
        /\ UnreadOnly(list) => ~state[a].read \/ (within /\ ~state[a].lapsed)
        /\ list.kind = "feed" => list.of \in Subscribed /\ a \in carried[list.of]
        /\ list.kind \in {"category", "unread-category"} =>
              \E f \in Subscribed : a \in carried[f] /\ CategoryOf(f) = list.of}

SortKey(a) == IF published[a] = NoDate THEN a ELSE published[a]
Position(a) == <<SortKey(a), a>>
Before(p, q) == p[1] < q[1] \/ (p[1] = q[1] /\ p[2] < q[2])

\* Mutant of Below: a page begins below the date of the last row.
BelowTheDate(S, at) == {a \in S : at = <<>> \/ SortKey(a) < at[1]}

\* The keyset comparison: strictly below a row, or everything.
Below(S, at) == {a \in S : at = <<>> \/ Before(Position(a), at)}

\* The first n, newest first.
Newest(S, n) ==
    {a \in S : Cardinality({b \in S : Before(Position(a), Position(b))}) < n}

Last(S) == Position(CHOOSE a \in S : \A b \in S : ~Before(Position(b), Position(a)))

\* The article below this one: the reader's "next".
Older(list, a) == Newest(Below(Filter(list, TRUE), Position(a)), 1)

Moved(a) == SortKey(a)' # SortKey(a)

\* Of the list open before the step, t: what left it, what moved in it, and what the
\* article linked to was above and is above no longer, having been dated since.
Passed(t, a) ==
    t.how = "article" /\ \E m \in Id :
        t.at = <<m>> /\ Before(Position(a), Position(m)) /\ ~Before(Position(a)', Position(m)')
Leaving(t) ==
    {a \in t.was : a \notin Filter(t.list, t.how = "article")' \/ Moved(a) \/ Passed(t, a)}
Watched ==
    \E t \in {tab} : left' = IF t.how = "closed" THEN {} ELSE left \cup Leaving(t)

-----------------------------------------------------------------------------
(* What readers do to articles.                                            *)

Act == acts < MaxActs /\ acts' = acts + 1

SetRead(a, on) ==
    /\ a \in VisibleArticles
    /\ state' = [state EXCEPT ![a] = [@ EXCEPT !.row = TRUE, !.read = on,
                                               !.lapsed = state[a].lapsed /\ on]]

SetStarred(a, on) ==
    /\ a \in VisibleArticles
    /\ state' = [state EXCEPT ![a] = [@ EXCEPT !.row = TRUE, !.starred = on,
                                               !.saved = state[a].saved \/ on]]

Toggle(a) ==
    /\ Act
    /\ \E on \in BOOLEAN : SetRead(a, on) \/ SetStarred(a, on)
    /\ UNCHANGED <<published, carried, filed, name, tab, client, mark>>
    /\ Watched

\* Stored already, by another reader's feed for one, or just now.
SaveArticle(a) ==
    /\ Act
    /\ \/ a \in Stored /\ UNCHANGED published
       \/ a = Len(published) + 1 /\ a \in Id /\ published' = Append(published, NoDate)
    /\ state' = [state EXCEPT ![a] = [@ EXCEPT !.row = TRUE, !.saved = TRUE]]
    /\ UNCHANGED <<carried, filed, name, tab, client, mark>>
    /\ Watched

\* Half an hour has passed since an article was read.
HalfAnHour(a) ==
    /\ state[a].read /\ ~state[a].lapsed
    /\ state' = [state EXCEPT ![a] = [@ EXCEPT !.lapsed = TRUE]]
    /\ UNCHANGED <<published, carried, filed, name, tab, client, mark, acts>>
    /\ Watched

\* Everything unread in a list, sorted before an instant if one is given.
MarkReadIn(list, before) ==
    {a \in Filter(list, FALSE) : ~state[a].read /\ (before = 0 \/ SortKey(a) < before)}

MarkRead(S) ==
    state' = [a \in Id |-> IF a \in S THEN [state[a] EXCEPT !.row = TRUE, !.read = TRUE]
                           ELSE state[a]]

\* Scrolling past is no decision about what somebody kept.
MarkReadAutomatically(S) ==
    MarkRead({a \in S \cap VisibleArticles :
                 ~state[a].read /\ ~state[a].starred /\ ~state[a].saved})

HandleMarkRead(list) ==
    /\ Act
    /\ list.kind = "feed" => list.of \in Subscribed
    /\ MarkRead(MarkReadIn(list, 0))
    /\ UNCHANGED <<published, carried, filed, name, tab, client, mark>>
    /\ Watched

-----------------------------------------------------------------------------
(* Going through a list, by its pages or from one article to the next.     *)

Open(how, list, at, shown) ==
    tab' = [how |-> how, list |-> list, at |-> at, shown |-> shown,
            was |-> Filter(list, FALSE)]

\* The first page of a list; a short one ends it.
RenderStream(list) ==
    LET page == Newest(Filter(list, FALSE), PageSize) IN
    /\ Act /\ tab.how = "closed"
    /\ IF Cardinality(Filter(list, FALSE)) > PageSize THEN Open("pages", list, Last(page), page)
       ELSE Open("ended", list, <<>>, page)
    /\ UNCHANGED <<published, carried, state, filed, name, client, mark>>
    /\ Watched

\* One row more than the page is asked for, to know whether there is another.  A cursor
\* is cut at its first "-", so one with a date before 1970 is answered by an error.
NextPage ==
    LET rest == Below(Filter(tab.list, FALSE), tab.at)
        page == Newest(rest, PageSize)
    IN
    /\ tab.how = "pages" /\ tab.at[1] >= 0
    /\ tab' = IF Cardinality(rest) > PageSize
              THEN [tab EXCEPT !.at = Last(page), !.shown = @ \cup page]
              ELSE [tab EXCEPT !.how = "ended", !.shown = @ \cup page]
    /\ UNCHANGED <<published, carried, state, filed, name, client, mark, acts>>
    /\ Watched

HandleMarkScrolledRead ==
    /\ Act
    /\ tab.how \in {"pages", "ended"} /\ tab.list \in ScrollMarkable
    /\ \E S \in SUBSET tab.shown \ {{}} : MarkReadAutomatically(S)
    /\ UNCHANGED <<published, carried, filed, name, tab, client, mark>>
    /\ Watched

\* The page of an article: with it a link to the one below is drawn, if there is one.
Showing(t, a) ==
    LET older == Older(t.list, a)
        seen  == [t EXCEPT !.shown = @ \cup {a}] IN
    IF older = {} THEN {[seen EXCEPT !.how = "ended", !.at = <<>>]}
    ELSE {[seen EXCEPT !.how = "article", !.at = <<m>>] : m \in older}

\* Opening an article marks it read.
ServeArticle(list, a) ==
    /\ Act /\ tab.how = "closed" /\ a \in Newest(Filter(list, FALSE), 1)
    /\ tab' \in Showing([NoTab EXCEPT !.list = list, !.was = Filter(list, FALSE)], a)
    /\ SetRead(a, TRUE)
    /\ UNCHANGED <<published, carried, filed, name, client, mark>>
    /\ Watched

\* To the article the link was drawn to, wherever it is by now, if it can be seen.
NextArticle ==
    /\ tab.how = "article"
    /\ \E m \in Stored :
          /\ tab.at = <<m>> /\ SetRead(m, TRUE)
          /\ tab' \in Showing(tab, m)
    /\ UNCHANGED <<published, carried, filed, name, client, mark, acts>>
    /\ Watched

-----------------------------------------------------------------------------
(* What arrives.                                                           *)

UpsertArticle ==
    /\ Len(published) < MaxArticles
    /\ \E d \in Dates \cup {NoDate} : published' = Append(published, d)
    /\ UNCHANGED <<carried, state, filed, name, tab, client, mark, acts>>
    /\ Watched

\* In any order of the ids, and of articles stored long ago.
InsertFeedItem(f, a) ==
    /\ f \in Subscribed /\ a \in Stored \ carried[f]
    /\ carried' = [carried EXCEPT ![f] = @ \cup {a}]
    /\ UNCHANGED <<published, state, filed, name, tab, client, mark, acts>>
    /\ Watched

\* An extraction, or another feed, finds the date the first feed did not give.
UpdateArticleMetadata(a) ==
    /\ Act
    /\ a \in Stored /\ published[a] = NoDate
    /\ \E d \in Dates : published' = [published EXCEPT ![a] = d]
    /\ UNCHANGED <<carried, state, filed, name, tab, client, mark>>
    /\ Watched

-----------------------------------------------------------------------------
(* Folders.  One that loses its name under a group mark is noted.          *)

Live == {c \in Folder : name[c] # Gone}
Noted == mark' = IF mark.at = "none" THEN mark ELSE [mark EXCEPT !.renamed = TRUE]

\* Mutant of NameIsFree: any name will do.
NameIsFreeAlways(c, n) == TRUE

NameIsFree(c, n) == \A d \in Live \ {c} : name[d] # n

CreateCategory(c, n) ==
    /\ Act
    /\ c \notin Live /\ NameIsFree(c, n)
    /\ name' = [name EXCEPT ![c] = n]
    /\ UNCHANGED <<published, carried, state, filed, tab, client, mark>>
    /\ Watched

RenameCategory(c, n) ==
    /\ Act
    /\ c \in Live /\ NameIsFree(c, n) /\ name[c] # n
    /\ name' = [name EXCEPT ![c] = n] /\ Noted
    /\ UNCHANGED <<published, carried, state, filed, tab, client>>
    /\ Watched

DropFeeds(S) ==
    /\ filed' = [f \in Feed |-> IF f \in S THEN Unsubscribed ELSE filed[f]]
    /\ carried' = [f \in Feed |-> IF f \in S THEN {} ELSE carried[f]]

Refile(S, c) ==
    /\ filed' = [f \in Feed |-> IF f \in S THEN c ELSE filed[f]]
    /\ UNCHANGED carried

\* Its feeds are filed nowhere, moved, or dropped; no article is touched.
DeleteCategory(c) ==
    LET feeds == {f \in Feed : filed[f] = c} IN
    /\ Act
    /\ c \in Live
    /\ \/ Refile(feeds, NoFolder)
       \/ \E into \in Live \ {c} : Refile(feeds, into)
       \/ DropFeeds(feeds)
    /\ name' = [name EXCEPT ![c] = Gone] /\ Noted
    /\ UNCHANGED <<published, state, tab, client>>
    /\ Watched

\* By name, which makes the folder if there is none.
EnsureCategory(n, c) ==
    \/ n = NoName /\ c = NoFolder /\ UNCHANGED name
    \/ c \in Live /\ name[c] = n /\ UNCHANGED name
    \/ /\ n # NoName /\ c \in Folder \ Live /\ NameIsFree(c, n)
       /\ name' = [name EXCEPT ![c] = n]

UpdateFeed(f, n) ==
    /\ Act
    /\ f \in Subscribed
    /\ \E c \in Folder \cup {NoFolder} : EnsureCategory(n, c) /\ Refile({f}, c)
    /\ UNCHANGED <<published, state, tab, client, mark>>
    /\ Watched

HandleUnsubscribeFeed(f) ==
    /\ Act
    /\ f \in Subscribed
    /\ DropFeeds({f})
    /\ UNCHANGED <<published, state, name, tab, client, mark>>
    /\ Watched

-----------------------------------------------------------------------------
(* Fever: what the endpoint answers, and a client that keeps a cache.      *)

Client == [at : {"idle", "items", "ids", "fetch", "synced"}, since : Nat, cache : SUBSET Id,
           unread : SUBSET Id, was : SUBSET Id, before : Nat]
Fresh  == [at |-> "idle", since |-> 0, cache |-> {}, unread |-> {}, was |-> {}, before |-> 0]

Lowest(S, n) == {a \in S : Cardinality({b \in S : b < a}) < n}

ItemsSince(since) == Lowest({a \in VisibleArticles : a > since}, FeverItemLimit)
ItemsWithIds(ids) == ids \cap VisibleArticles

Unread == {a \in VisibleArticles : ~state[a].read}

\* Mutant of UnreadArticleIDs: a page of them.
UnreadArticlePage == Lowest(Unread, FeverItemLimit)

\* All of them: a list cut short would say the rest are read.
UnreadArticleIDs == Unread

\* A round begins at an instant, which later marks name.
BeginRound ==
    /\ Act
    /\ client.at \in {"idle", "synced"}
    /\ client' = [client EXCEPT !.at = "items", !.before = Len(published) + 1]
    /\ UNCHANGED <<published, carried, state, filed, name, tab, mark>>
    /\ Watched

\* Page after page of what has a greater id, until one is empty.
FeverItems ==
    LET page == ItemsSince(client.since) IN
    /\ client.at = "items"
    /\ client' = IF page = {} THEN [client EXCEPT !.at = "ids"]
                 ELSE [client EXCEPT !.cache = @ \cup page,
                                     !.since = CHOOSE a \in page : \A b \in page : a >= b]
    /\ UNCHANGED <<published, carried, state, filed, name, tab, mark, acts>>
    /\ Watched

FeverUnreadIds ==
    /\ client.at = "ids"
    /\ client' = [client EXCEPT !.at = "fetch", !.unread = UnreadArticleIDs, !.was = Unread]
    /\ UNCHANGED <<published, carried, state, filed, name, tab, mark, acts>>
    /\ Watched

\* What it lacks, a batch at a time; an item that is not returned is forgotten.
FeverWithIds ==
    LET ids == Lowest(client.unread \ client.cache, FeverItemLimit) IN
    /\ client.at = "fetch"
    /\ client' = IF ids = {} THEN [client EXCEPT !.at = "synced"]
                 ELSE [client EXCEPT !.cache = @ \cup ItemsWithIds(ids),
                                     !.unread = @ \ (ids \ VisibleArticles),
                                     !.was = @ \ (ids \ VisibleArticles)]
    /\ UNCHANGED <<published, carried, state, filed, name, tab, mark, acts>>
    /\ Watched

\* A write's answer carries the list as it is after it.
Answered ==
    client' = [client EXCEPT !.unread = UnreadArticleIDs', !.was = Unread',
                             !.at = IF @ = "synced" THEN "fetch" ELSE @]

FeverMarkItem(a) ==
    /\ Act
    /\ \E on \in BOOLEAN : SetRead(a, on) \/ SetStarred(a, on)
    /\ UNCHANGED <<published, carried, filed, name, tab, mark>>
    /\ Answered
    /\ Watched

\* With the instant of the last round, or without.
FeverBefore == {0, client.before}

FeverMarkFeed(f, before) ==
    /\ Act /\ f \in Subscribed
    /\ MarkRead(MarkReadIn([kind |-> "feed", of |-> f], before))
    /\ UNCHANGED <<published, carried, filed, name, tab, mark>>
    /\ Answered
    /\ Watched

\* Mutant of FeverCategoryFor: a folder that is not there has no name.
FeverCategoryForAny(c) == {IF c \in Live THEN name[c] ELSE NoName}

\* The folder of one of the reader's feeds, or none.
FeverCategoryFor(c) == {name[d] : d \in {filed[f] : f \in Subscribed} \cap {c}}

\* The group that is everything.
FeverMarkAll ==
    /\ Act
    /\ \E before \in FeverBefore : MarkRead(MarkReadIn(Everything, before))
    /\ UNCHANGED <<published, carried, filed, name, tab, mark>>
    /\ Answered
    /\ Watched

\* The folder is looked up by its id,
FeverMarkGroup(c) ==
    /\ Act /\ mark.at = "none"
    /\ \E n \in FeverCategoryFor(c), before \in FeverBefore :
          mark' = [at |-> "found", group |-> c, name |-> n, before |-> before, renamed |-> FALSE]
    /\ UNCHANGED <<published, carried, state, filed, name, tab, client>>
    /\ Watched

\* and its articles are marked by its name.
MarkGroupRead ==
    /\ mark.at = "found"
    /\ MarkRead(MarkReadIn([kind |-> "category", of |-> mark.name], mark.before))
    /\ mark' = NoMark
    /\ UNCHANGED <<published, carried, filed, name, tab, acts>>
    /\ Answered
    /\ Watched

-----------------------------------------------------------------------------
\* An article of another reader's, and one of a feed filed under a folder.
Init ==
    /\ published = <<NoDate, NoDate>>
    /\ \E f \in Feed, c \in Folder, n \in Name :
          /\ carried = [g \in Feed |-> IF g = f THEN {2} ELSE {}]
          /\ filed = [g \in Feed |-> IF g = f THEN c ELSE NoFolder]
          /\ name = [d \in Folder |-> IF d = c THEN n ELSE Gone]
    /\ state = [a \in Id |-> NoRow]
    /\ tab = NoTab /\ client = Fresh /\ mark = NoMark
    /\ acts = 0 /\ left = {}

Readers ==
    \/ \E a \in Stored : Toggle(a) \/ FeverMarkItem(a) \/ HalfAnHour(a)
    \/ \E a \in Id : SaveArticle(a)
    \/ \E list \in Markable : HandleMarkRead(list)
    \/ \E list \in Walked : RenderStream(list) \/ \E a \in Stored : ServeArticle(list, a)
    \/ NextPage \/ NextArticle \/ HandleMarkScrolledRead

Arrivals ==
    \/ UpsertArticle
    \/ \E f \in Feed, a \in Stored : InsertFeedItem(f, a)
    \/ \E a \in Stored : UpdateArticleMetadata(a)

Folders ==
    \/ \E c \in Folder, n \in Name : CreateCategory(c, n) \/ RenameCategory(c, n)
    \/ \E c \in Folder : DeleteCategory(c)
    \/ \E f \in Feed : HandleUnsubscribeFeed(f) \/ \E n \in Bucket : UpdateFeed(f, n)

Fever ==
    \/ BeginRound \/ FeverItems \/ FeverUnreadIds \/ FeverWithIds
    \/ \E f \in Feed, before \in FeverBefore : FeverMarkFeed(f, before)
    \/ FeverMarkAll \/ MarkGroupRead
    \/ \E c \in Folder : FeverMarkGroup(c)

Next == Readers \/ Arrivals \/ Folders \/ Fever

Spec == Init /\ [][Next]_vars

-----------------------------------------------------------------------------
\* The tables hold what their constraints allow: no two folders of one name, no
\* feed filed under a folder that is gone, nothing carried by a dropped feed, no
\* state but of a row (00013_categories.sql, feed_items, article_state).
TypeOK ==
    /\ published \in Seq(Dates \cup {NoDate}) /\ Len(published) <= MaxArticles
    /\ carried \in [Feed -> SUBSET Stored]
    /\ state \in [Id -> Row]
    /\ \A a \in Id : (state[a].read \/ state[a].saved => state[a].row)
                     /\ (state[a].starred => state[a].saved) /\ (state[a].lapsed => state[a].read)
    /\ filed \in [Feed -> Folder \cup {NoFolder, Unsubscribed}]
    /\ name \in [Folder -> Name \cup {Gone}]
    /\ \A f \in Feed : filed[f] \in Folder => filed[f] \in Live
    /\ \A f \in Feed \ Subscribed : carried[f] = {}
    /\ \A c, d \in Live : name[c] = name[d] => c = d
    /\ tab \in Tab /\ tab.shown \cup tab.was \subseteq Stored
    /\ client \in Client /\ client.cache \cup client.unread \cup client.was \subseteq Stored
    /\ mark \in Mark
    /\ acts \in 0 .. MaxActs /\ left \subseteq Id

\* Whoever goes through a list to its end has been shown all of it, though reading
\* it changes it and feeds add to it meanwhile, but for what left it, what moved in it
\* and, from article to article, what the next one, linked to when the last was served,
\* came to stand below because it was dated in between (store/reading.go Stream's
\* keyset, NeighborsIn; server/reading.go serveArticle).
NothingSkipped == tab.how = "ended" => tab.was \subseteq tab.shown \cup left

\* After a round a client holds every article it was told is unread, whatever the
\* order of ids in which they came to be visible: those that since_id passed over
\* are in the list of ids, whole (store/fever.go FeverItems, UnreadArticleIDs).
SyncedClientHoldsUnread ==
    client.at = "synced" => client.was \cap VisibleArticles \subseteq client.cache

\* A group mark reads what the folder of that id carries, and nothing else, unless a
\* folder lost its name while the mark was under way (server/fever.go
\* feverCategoryFor, store/reading.go's lists by name).
CarriedUnder(c) == UNION {carried[f] : f \in {g \in Feed : filed[g] = c}}
GroupMarkStaysInGroup ==
    [][mark.at = "found" /\ mark' = NoMark /\ ~mark.renamed =>
          \A a \in Id : ~state[a].read /\ state'[a].read => a \in CarriedUnder(mark.group)]_vars

=============================================================================
