# Tomekeeper in TLA+

Tomekeeper is a self-hosted feed reader that keeps what it reads. `tome worker`
polls feeds, fetches each article's page, extracts its text, localizes its
images and writes an archive directory; `tome serve` shows it to the readers of
one household and offers a Fever API; the command line does the operator's
work. PostgreSQL holds all state but the files, and River, a job queue in the
same database, carries the work between stages.

This directory holds the TLA+ modules that model the parts of it where order,
failure and sharing matter, the TLC configurations that check them on small
instances, and the TLAPS proofs of what must hold on instances of any size.
`PROJECT.json` maps every definition to the lines it stands for.

## 1. Inventory

### Who runs what

| process | does | state of its own |
|---|---|---|
| `tome worker` | River workers on two queues (`default`, `render`), six periodic jobs, graceful stop | the contexts of running jobs, the HTTP client's limiters and robots cache |
| `tome serve` | pages, forms, Fever; inserts jobs and works none | session cookies are verified against `users.session_epoch` |
| `tome <command>` | imports, backup and restore, rules, users, re-extraction, pruning | none |
| PostgreSQL | rows; READ COMMITTED transactions, most operations a single statement | everything below |
| blob store | files, each written beside and renamed into place | raw pages, images, `index.html`, `meta.json` |
| outside | origins, a headless browser that may be scaled to zero, readers | pages that change and vanish |

### Components

For each: the state it keeps, its operations, and what makes it correct.

1. **Article pipeline** (`internal/jobs`, `store/content.go`, `store/assets.go`).
   State: `articles.fetch_status`, `fetch_error`, `assets_status`,
   `raw_blob_path`; the current `article_content` row; the stored page; one job
   per distinct arguments. Operations: fetch, render, extract, localize, the
   sweeps `ScheduleFetches`, `ScheduleAssets`, `ScheduleReextraction`, re-fetch
   and reprocess requests. Correct when every article ends (fetched, refused or
   failed) for a reason of its own, a fetched page ends as a body or in the
   attention queue, a body gets its images and files, and a re-fetch replaces
   what was there. Hard: each stage commits, then enqueues the next; contexts
   end for two different reasons; uniqueness drops duplicates, running ones
   included; sweeps are the only second chance.
2. **Bodies and slots** (`store/content.go`, `store/bodies.go`,
   `store/ownedbody.go`, `store/imports.go`). State: versioned bodies, one
   current per article and owner, `immutable`. Operations: insert, import,
   promote, localize, delete. Correct when a reader sees their own current body
   or the household's, an immutable body is never demoted by a machine, and
   nobody's choice changes another's view. Hard: check-then-act under READ
   COMMITTED.
3. **Retention** (`jobs/expire.go`, `store/retention.go`, `store/forget.go`,
   `store/prune.go`). State: `article_state` claims and tombstones, shared
   content-addressed images, files. Operations: forget, expire, prune, star,
   keep, save. Correct when nothing anybody claims is released and no row names
   a deleted file. Hard: selected in one transaction, deleted in the next, files
   removed after the commit while a localizer is storing the same image.
4. **Feed polling** (`internal/feed`, `store/feeds.go`). State: validators,
   `next_poll_at`, failures, `disabled`. Operations: poll, record success or
   failure, change URL or cadence, poll now. Correct when stored validators mean
   the document's entries are stored, a chosen cadence is honoured, and a
   failing feed is asked ever less often within its cap. Hard: requests in
   flight while the row changes.
5. **Domain rules** (`store/domainrules.go`, `store/effectiverule.go`,
   `store/reextractsweep.go`). State: rules per owner and domain, the ruleset
   key stored with each body. Operations: upsert, delete, resolve, sweep.
   Correct when fetching obeys the household's rule alone, a reader's rule
   affects that reader alone, and a changed rule reaches every body it covers.
6. **Reading state** (`store/reading.go`, `store/saved.go`,
   `server/scrollread.go`, `store/fever.go`). State: read, starred, kept, saved
   per reader and article. Operations: toggles, bulk marking up to a watermark,
   marking on scroll, unsubscribing. Correct when who goes through a list is
   shown all of it, a client misses nothing unread, and a mark reads what its
   list contains.
7. **Accounts and sessions** (`store/accounts.go`, `store/users.go`,
   `internal/session`). State: users, roles, password hashes, session epochs,
   setup links. Correct when a link works once, a changed password ends older
   sessions, and an administrator remains (which two overlapping requests can
   break: section 11). Hard: rows and counts read before a slow step or by
   concurrent transactions.
8. **HTTP client** (`internal/httpclient`). State: a global semaphore, a limiter
   and a robots answer per host. Correct when no host is asked faster than its
   rate and nothing deadlocks on the semaphore.
9. **Blob store** (`internal/blob`). Correct when a reader never sees half a
   file.
10. **Backup, export, import** (`internal/backup`, `internal/exchange`). Correct
    when a restored archive names only files it contains and an interrupted
    import can be run again.
11. **Extraction ladder, sanitizing, image policy** (`internal/extract`,
    `internal/asset`): pure functions of one page or image.
12. **The rest**: search, streams, views, themes, settings, metrics,
    configuration, migrations: queries, formatting and wiring with no protocol.

They interact through rows and jobs. A poll (4) creates articles for the
pipeline (1); rules (5) decide how a page is fetched and which extraction is
current (1, 2); extraction writes slots (2) that reading (6) shows; reading and
forgetting release claims that retention (3) acts on, deleting rows and files
the pipeline may be using. Every arrow is a commit followed by an insertion, or
a query followed by an update: those are the seams the models cut at.

## 2. The modules

Modules are split by the state they share, and each is written to be proved
about: constants with assumptions, one action per statement or request, no
recursive operator.

| module | state | run that passes | runs that show a disagreement |
|---|---|---|---|
| `Pipeline`, `PipelineProofs` | articles, the household's body, jobs, the stored page | `PipelineRaces`, `PipelineRecovers`, `PipelineChanges` | |
| `Retention`, `RetentionProofs` | claims, tombstones, bodies, two-step forgetting and expiry | `RetentionClaims` | `RetentionLateClaim` |
| `Feeds`, `FeedsProofs` | subscriptions, validators, cadence, failures, what a poll holds | `FeedsPolled` | |
| `Bodies`, refining `ReaderView`; `BodiesProofs` | bodies and rules of every slot, extraction jobs, imports | `BodiesRules` | `BodiesImported` |
| `Images`, `ImagesProofs` | image rows, links and files, localizations, a release | `ImagesShared` | `ImagesDangling` |
| `Accounts`, `AccountsProofs` | users, links, sessions, keys, requests in progress | `AccountsRequests` | |
| `Reading`, `ReadingProofs` | lists, read state, folders, a Fever client | `ReadingLists` | |

Each `MC` module gives its constants values that a `.cfg` cannot write. Modules
meet where one has as an action what another takes apart: `Pipeline` treats the
household's slot alone and `Bodies` takes all slots with the same insertion but no
crashes between stages; `Retention` has an extraction, and a release, as one action,
and `Images` takes the release apart; `Reading` marks what `Retention` acts on;
`Feeds` ends where an article is stored.

Every safety invariant and every action property a passing run checks is also a
theorem (section 10). What is left to do: the parts of section 12 whose state is worth
a module (the HTTP client's limiter and robots answers; a backup taken beside the
worker), and the composition of `Pipeline` with `Bodies`, which today meet in the
insertion of a body alone.

## 3. Pipeline

### State and actions

An article is a number in `first_seen_at` order. The row is `known` (it
exists), `fetchStatus`, `fetchError` (the reason as a cause, not a sentence),
`assetsStatus`, `rawPath` (whether the row names a stored page) and `body`, the
household's current `article_content`: whether there is one, the version of the
page it came from (0: the feed's own body) and the version its markup came
from. `disk` is the version of the page the blob store holds and `index` whether
the article's files were written.

River is `queue` and `attempt` per job, where a job is its kind and its article:
`FetchArticleArgs{Again: true}` and `ExtractArticleArgs{Force: true}` are other
arguments, so the kinds `refetch` and `force`. A running job has a program
counter `step`, a context `ctx`, the page it holds and the outcome it is about
to record. `announced` is what a poll has found and not yet enqueued. `origin`,
`needsJS`, `feedBody` and `browserUp` are the world outside.

One action is one statement, one blob call or one request, so a worker can be
interrupted between any two. `StartFetch`, `StartRender`, `StartExtract` and
`StartLocalize` take a queued job into a free slot and perform the reads that
decide its path; the other actions follow `Work` of each worker in order. Three
things are worth knowing when comparing them with the code:

- A context is `live`, `expired` (River's minute ran out) or `cancelled` (the
  worker is stopping). `Interrupted` is `interrupted` of `outcome.go`: only a
  cancelled context hands the job back. Recording has a context of its own
  (`recording`), `blobs.Put` looks at none, and every other statement of a job
  whose context has ended fails (`StatementRefused`).
- A River insertion skips arguments already outstanding, running ones included
  (`Inserted`); a returned job is queued again until its attempts are used and
  then is outstanding no longer (`Returned`). A crash is River's rescue.
- `Extract` stands for the ladder: which versions of a page yield a body is a
  constant, and the feed's body is what is left when the page yields none.

### What each run checks

| run | instance | shows |
|---|---|---|
| `PipelineRaces` | one article, one version, two default slots and one render slot, one request by an operator, one change of a flag, a feed or the browser | types; the reason discipline; an article at rest that was fetched has a body; one with a body has its files |
| `PipelineRecovers` | one slot, a browser, a rule on the host, one fault of any kind anywhere | the page named is there; the reason discipline; the sweeps end everything they are for |
| `PipelineChanges` | one slot, a browser, two versions of the page of which the second has no text, and one request, or one change of a flag, a feed or the browser | once a browser stays nothing waits for it; a re-fetched page is extracted over the body there was |

*At rest* means that no job for the article is outstanding and no sweep would
enqueue one: what holds then is what its readers are left with. Stating the
promises there makes them safety properties, so that they can be checked with
every interleaving and without fairness.

Each of them is checked, and proved (section 10), where it holds. None is true if calls
fail: a job discarded between two stages leaves what it had. `FetchedArticleIsReadable`
also wants pages that have something to extract. One that has not ends in the attention
queue, unless a second fetch of it records its success after the extraction recorded its
failure and before that job is gone from the queue: the extraction it asks for is then
dropped by uniqueness, and the article is left fetched and bodyless. The property asks for
a body and not for the page's: a feed's body salvaged by an extraction that is at its end
when the page arrives stays in the page's place (section 11).

Two promises are not properties here because the code does not keep them where it is
configured as it is by default: that an extraction which finds nothing never lists an
article with a body as failed (not with two workers), and that a re-fetch asks the origin
(not with a browser). Both are in section 11.

### Bounds, and why they are enough

`MaxArticle = 1`: stages of different articles meet only in slots and in a
sweep's batch, so races between jobs of one article are what the instances are
for; the price is that a full batch is not reached (see the hazard about waiting
articles). `MaxAttempts = 2` reaches both a retry and a discard (one is enough in
`PipelineRaces` and `PipelineChanges`, where nothing fails but a render without a
browser); the program has 25. `MaxPage = 2` tells an old page from a new one. One fault,
one request and one change of the world (a flag, a feed that carries a body, the browser)
are placed at every step of every interleaving by TLC. `MaxChanges` bounds requests and
changes together: both in one behaviour of `PipelineRaces`, one or the other in
`PipelineChanges`, none in `PipelineRecovers`, which has the fault. `Slots = 2`
in `PipelineRaces` lets two jobs of the article run together, which is what the
program's uniqueness by arguments allows; a second render slot could only run
another article's render.

### Fairness

`FairSpec` assumes that a running job takes its next step (weak fairness of
`Proceed`: every wait in the workers is under a deadline), that the periodic
sweeps run (they are periodic jobs at `ScheduleInterval`, run on start), that a
poll's insertion happens if nothing prevents it, and strong fairness of starting
a job: River fetches queued jobs oldest first, so a job that is queued again and
again cannot be passed over for ever. Nothing outside the program is fair: no
article need arrive, no browser come back, no fault happen or stop happening
beyond its bound. `BrowserDrainsTheQueue` therefore assumes `<>[]browserUp`: in
`PipelineChanges` the browser may come to a queue that waits for it, or a host be flagged
while its page is being fetched. `WaitingIsVisible` has the same question with a fault.

## 4. Retention

### State and actions

`carried[r]` is the set of articles in `feed_items` of reader r's feeds and
`state[r][a]` their `article_state` row for an article: whether there is one,
read and since when, wanted how, and whether it is a tombstone. A read time is
`recent` or `lapsed` by that reader's window; `Lapse` is time passing. An absent
row has the defaults every query gives it, so each of the reader's statements is
one upsert of a row. `body` is what `article_content` holds, in all slots
together, and `expired` whether `content_expired_at` is set.

What the code does in two steps is two actions here. `ForgetSelect` reads what a
reader may forget into `tombstone` and `remove`; `ForgetCommit` writes from those
lists, which is one action because the rows it has written are locked until it
commits. `ExpirableArticles` and `PrunableArticles` list candidates for the hourly
job and for `tome prune --yes`; `ExpireArticle` releases one listed article. An
import is `ImportBody`, then `ImportState`. `overtaken` has no counterpart in the
code: it is the listed articles somebody has acted on since they were listed, and
no guard reads it.

A reader's windows do not change here, an administrator is always left, and a
list is never cut at a hundred. A household window with every reader opted out
lists nothing either, because only a retaining reader's sweep makes a tombstone.

### What each run checks

| run | instance | shows |
|---|---|---|
| `RetentionClaims` | two readers with windows, one article, three acts, one fault | rows; tombstones; no gap between expiry and prune; releases of what was let go; in the end everything finished with goes |
| `RetentionLateClaim` | the same, one act | **violated**: kept after being listed, released all the same |

`NothingClaimedIsReleased` is what the documentation promises and the code does
not keep; `ReleasedWhenLetGo` is what it does keep, and says exactly where the
gap is: an act on a listed article. `Unclaimed` is stated without the queries:
nobody who can see the article has anything left to say about it.

### Bounds and fairness

Articles do not meet in this module but in lists, and lists are walked one
article at a time, so one article is enough; two readers are the fewest for whom
one reader's being done says nothing about the other. Three acts reach
unsubscribing, subscribing again and an act on the result, at every step of a
sweep and a list. Every combination of a carried article and a row read recently,
long ago or never is an initial state. One fault is a failed transaction or a
stopped worker anywhere. Fairness is of the two periodic sweeps and of a job that
runs (`ForgetSelect`, `ForgetCommit`, `ExpirableArticles` and the worker's
`ExpireArticle`): no reader need act, time need not pass, and prune is never
assumed, which is why `FinishedIsReleased` ends in `Prunable` for an article that
no trace of a reader is left on. It is about articles never released before (section 11).

## 5. Feeds

### State and actions

`row` is a feed's row: its address, validator, interval, `due` and `age` (the time to
`next_poll_at` and since `last_polled_at`), failures, `disabled` and the reader's
override; `default` is the reader's default cadence. `items` is what each feed has
delivered and `version` what each address serves. A document is its version: version
n lists the entries up to n and is served with the validator n. `job[f]` is the
`poll_feed` job and everything the poller has in hand: the row as it read it, the
answer, the entries still to ingest.

A poll is `StartPoll` (the row and the choice in force are read together),
`Respond`, an `Ingest` per entry, and one of `RecordPollSuccess`,
`RecordPollNotModified` and `RecordPollFailure`, each a single UPDATE. The reader's
actions are the handlers, whole: subscribing with or without a probe, importing
outlines, editing (`Moved` clears validators when the address changes, and a form
that switches the feed on ends its back-off), choosing a default, refreshing,
unsubscribing. Links are parsed addresses: host and path are sequences of marks, of any
length, which `Canonicalize` lowers and trims (`TrimRight`) as the code does strings; the
query is a set of keys, as `Encode` sorts them, and the port one of the defaults or not.

### What the run checks

`FeedsPolled`: one live feed, a page that advertises it and an address it moves to,
three acts of the reader, one failure, two entries of which one cannot be used.
`ValidatorsMeanIngested`: what a stored validator vouches for has been stored, so a
304 never hides an entry. `CadenceHonoured` and `FailingIsAskedLess` relate the
schedule to the choice in force and to the back-off after any sequence of edits and
polls. `PublishedIsStored` is liveness: what is published arrives, while the feed
stays subscribed there and is not disabled.

`poisoned`, `behind` and `asked` are read by no guard: feeds whose validators, or
whose schedule, were written by a poll that had been in flight while the row was
edited, and feeds somebody asked to refresh. The code does lose those races, and the
properties say exactly where.

Bounds: Min 2, Max 3, floor 1 and cadences 1 and 4 put a choice on each side of both
limits; two failures disable. Two feeds share nothing but the articles they deliver,
so `MaxLive` is one. Fairness: the scheduler is periodic, a queued poll is worked, and
time passes; nothing need be published.

## 6. Bodies

### State and actions

`rule[d][s]` is the rule of owner s for a domain, `current[a][s]` the current body of
each slot (the household's or a reader's), `kept[a][s]` the rows that are not current.
A body is its rung, origin, ruleset key, `immutable`, and whether an earlier build of
the extractor made it. `job[a][s][f]` is `extract_article`, unique by article, slot
and force; `import[r]` a reader's import and where it is in its file. `Stale(a, s)` is
the sweep's question about one article and owner, `StaleBodies` its list.

The ladder is a function of the page (`Run`, from the sizes each rung yields), with
its thresholds, the richer feed body and the textless page with images. Rules are
resolved by domain length per owner. `InsertContent` is split where the code is
open to another transaction: the check of the current body is in `Extract` or
`CheckRecord`, the demotion and the insertion in `Store` or `ImportArticle`. The acts
are the handlers and commands that write rules, reprocess, import and promote. A
failure or a crash sends a job back to its start (`Retry`) or stops an import.

### What the runs check

`BodiesRules` has two readers, one of them an administrator, two domains over one
article, two selectors, two acts and one fault, from each state of the household's
body (none and listed as failed, of an older build, imported).

- `ReaderViewed`: the module implements `ReaderView`, the abstract promise. Every
  body ever made stays on its shelf; an immutable one is replaced only by the reader
  it is shown to, or where a check was overtaken, which is an action of its own there
  (`Overtake`); no reader's act changes another slot; the attention list lists what
  has no body. The mapping is `shelf <- Shelf` (current and kept together),
  `up <- current`, `attention <- failed`.
- `CopiesAreAskedFor`: nobody holds a private copy of an article they never wrote a
  rule over, reprocessed by its domain or chose a body of.
- `RuleReachesItsPages`, liveness: whatever is merged into a running job, lost or
  overtaken, every slot with a rule ends with a body made by it.

`BodiesImported` finds that the sweep for stale bodies replaces an imported body in a
reader's view.

Fairness: the sweep is periodic and the pool works its queue. Acts are bounded by two,
so "in the end" is after the last of them. A batch is never full here.

## 7. Images

### State and actions

`assets`, `source` and `links` are the rows of `assets` and `article_assets`, `files`
the blob store, `body[a]` and `page[a]` what the current body and `index.html` show in
the place of each image: the address, an image, or `/`. `job[a]` is the localization of
an article with the markup it works on, `lead[u]` the download in flight for an
address, `expiry` the article being released and the files to be removed.

A localization walks the images of the body it read (`NextImage`, `Resolve`); the
first to ask for an address leads (`Leads`) and goes through `CheckSource`, `Fetch`,
`Exists`, `Put` and `UpsertAsset`, and its answer is everybody's who waits. Each links
the row for itself (`LinkAsset`), then `UpdateContentHTML` and `WriteFiles`. A release
is the query for what no other article links, the commit, and the removal of each
file. `Crash` forgets what was in memory and runs jobs again.

### What the runs check

`ImagesShared`: two articles, one of which shows the other's picture after one of its
own, any answer of either address, three extractions or releases, one failure or
crash. `ShownImageIsStored`: what a body or page shows from the archive is linked by
that article and is on the disk, with two exceptions kept in history variables:
articles released while they were being localized (`late`), and images whose file was
found or written while its removal was under way (`raced`). `AskedOnce`: an address is
not downloaded by two at a time, nor while a row that came from it exists; of the same
bytes under a second address it says nothing (section 11).
`ImagesDangling` shows the second exception to be a disagreement with the code's own
comment. Contents are symmetric; no property speaks of one in particular. Two articles
are the fewest that share; the hourly release takes articles one at a time.

## 8. Accounts

### State and actions

`row` is `users` with a hash as the password it verifies and `api_key` as the pair it is
computed from; `link` the setup links, `jar` the cookie of each browser, `secret` the
key sessions are sealed with. A request is between statements in `req[c]`, with
everything its handler holds: reading the account, verifying a password (slow by
design) and writing are separate actions, so that two requests about one account
interleave as they do under READ COMMITTED; `link` rows read for update are locked.
`Migrate` is `tome serve migrate` seeding the operator's account on every deploy, which
also puts the sequence of ids back after the latest account there is (`SetSequence`): an
id whose account was deleted is then given out again. A link's slot is `issued` once and
never used for another, as its token is a digest of random bytes.

### What the run checks

`AccountsRequests`: two browsers and a shell, three accounts, two names, two
passwords, two links, four requests. `AdmittedKnowsThePassword` relates a cookie to
the password proved when it was issued and the one the account has now, whatever came
between. `KeyFollowsNameAndPassword` says that a mobile client opens exactly the
account whose name and password it has. `LinkSetsOnePassword` and `DeployIsQuiet` are
about a link opened twice and a deploy over an account that has moved on. That an
administrator remains is not among them: `CountAdmins` and `DeleteUser` are two statements
here as in the code, and two deletions that overlap leave none (section 11). `crossed`,
the `stale` of a request and the `raced` of a session mark the overlaps the code does not guard against, and `gone` the
ids whose account was deleted: what was issued for it may meet the next account with it.

There is no liveness here: a request may be given up at any statement.

## 9. Reading

### State and actions

An article is its id, ids ascend with arrival, and `published` has the date a feed or
page gave, if any: the sort key is that or the arrival. `carried`, `state`, `filed` and
`name` are `feed_items`, `article_state`, `feeds.category_id` and `categories`. `tab` is
a list a browser goes through, by pages (`NextPage`, a keyset below the last row) or
from one article to the one below: serving an article (`ServeArticle`) draws the link to
the next one, among what is unread or was read in the last half hour (`lapsed` is longer
ago), and `NextArticle` follows the link drawn, wherever its article is by then; `client` a Fever client in its
round: items by ascending id, the ids of what is unread, the items it lacks by id.
`mark` is a group mark between looking the group's id up and marking by name.

Reading marks, toggles, bulk marks, scrolling, saving, filing, folders and
unsubscribing are one action each, with the visibility test the statement has.

### What the run checks

`ReadingLists`: three articles with and without dates, which may be before 1970 (a cursor
for such a row is answered by an error, so the walk ends there), two feeds, two folders, pages of
one, two acts; arrivals, deliveries and the reader's paging are not bounded by the
acts. `NothingSkipped`: who reaches the end of a list was shown all that was in it at
first, but for what left it or moved in it while they went, and for what a walker passed
because the article linked to was dated after the link was drawn, and so stands further
down than it did (`left`, which `Watched` adds to in every action by comparing the list
before and after it). `SyncedClientHoldsUnread`: after a round a client has every article it was told is unread, those included that became
visible below `since_id`. `GroupMarkStaysInGroup`: a group mark reads what the folder
of that id carries, unless a folder lost its name meanwhile.

A page of one row and a Fever batch of one put a boundary between any two articles.
Feeds, folders and names are interchangeable (symmetry).

## 10. What is proved

`PipelineProofs` proves five theorems of `Pipeline`'s `Spec`, the first three for all
values of the constants that satisfy `PipelineConstants`.

- `TypeCorrect`. `TypeOK` is not inductive: an attempt is added when a job is
  claimed, so it stays in range only because a queued job has an attempt left
  (`AttemptLeft`, which rests on `Returned` discarding), and a status or reason
  written from `outcome` is of its type only because a job about to record a
  failure holds a cause and one about to record localizing holds a status
  (`OutcomeFits`). `TypeInv` is the conjunction.
- `OwnReasons`. Inductive relative to `TypeInv`: `OutcomeFits` is what says that
  no recorder ever holds a shutdown as its cause, because `Settle` returns an
  interrupted job.
- `StoredPages`. Inductive with `PageInHand`: a job about to put a page holds
  one, and a job about to record a success has a page on the disk. Files are
  never removed in this module; `Retention` is where they are.

- `FetchedPages`, for constants with `MaxFaults = 0` and `Extractable = 1 .. MaxPage`.
  With no fault every context stays live (`Calm`), so only a browser that is not there
  returns a job. `ExtractInv` says that an article whose status is ok has its page and,
  until it has its body, a job that delivers one: about to enqueue an extraction, or
  itself an outstanding extraction. An enqueue dropped by uniqueness loses nothing,
  because every outstanding extraction is of an article with a page or a feed's body and,
  past its insertion, of one that has its body (`ExtractFits`). A frame lemma reduces
  each action to the one job that moves.
- `LocalizedBodies`, for `MaxFaults = 0`. `LocalizeInv`: a body whose files are not
  written is in the hands of an extraction that has inserted it and not yet passed it
  on, or of a localization, which never finds itself without a body.

Each proof has one step per action. The hypotheses on the constants are those without
which TLC finds the property violated (section 3); they say which instances the
theorem is about and hide no state of these.

`RetentionProofs` proves four theorems of `Retention`'s `Spec` for every
household, archive, set of retaining readers and bound. The readers' six
statements are first shown to be instances of one step (`Engages`: rows of some
articles are written and none is a tombstone after it), so each proof has a case
per kind of step.

- `TypeCorrect`, whose rows are those the columns' CASE expressions are for: no
  read time without a read, no star that was never saved.
- `Tombstones`, inductive with the types.
- `NoGap`. Needs `GoneWithTheUser`: a deleted account leaves no row, feed item or
  half-done import, or a row of nobody's would hold an article for ever.
- `LetGo`. The invariant is `ListedIsLetGo`: a listed article that is not
  overtaken has no claim on it. It is inductive only with `SweepHoldsNoTombstone`:
  a sweep in progress has read no row that is a tombstone, and none of those rows
  becomes one before it writes. Without it the sweep's commit might delete the
  tombstone by which an article was listed, turning a reader who is done into one
  who never opened it.

`FeedsProofs` proves four theorems of `Feeds`' `Spec`, for any policy, feeds, documents
and bounds, from `FeedsConstants` and `LinksAreUrls`, and two of its operators.

- `TypeCorrect`. Beyond types, `TypeInv` has `RowsFit` (no row or job past the next id;
  a feed that can be polled has failures to spare), `ItemsFit` (a feed that is gone has
  delivered nothing) and `OneFeedEach`. `BackOff` gives the back-off's range and that it
  never shrinks; a power of two is a number there because it counts the subsets of a
  set. `CanonicalizeTwice` is why what is stored under an address is found by it: for hosts
  and paths of any length, what canonicalizing makes of an accepted address is accepted
  and canonical. `TrimRight` takes off a longest run of marks, which exists by the
  least-number principle (`LeastExists`, from the well-foundedness of the naturals, cited
  for the set of the numbers that would do).
- `ValidatorsVouch`, `CadenceIsHonoured`, `FailingIsLeftAlone`. One invariant per feed:
  what a running poll read is still so unless the row was edited (`ReadFits`), what it
  has left to ingest and what it has stored make up the document it was answered with
  (`StoredSoFar`), the stored validator vouches for stored entries (`Vouched`), and
  `due` and `age` stand to each other as the cadence and the back-off want (`Scheduled`).

`AccountsProofs` proves five theorems of `Accounts`' `Spec`, from `AccountsConstants`:
`TypeCorrect`, `AdmittedKnows`, `KeyFollows`, and of its steps
`DeploysAreQuiet` and `LinksSetOnePassword`. The invariant is about what each request
knows of a row it no longer looks at: a writer that nobody overtook has the name or the
password still in force (`WriterKnows`), a signer never has an epoch ahead of the
account's and with the same epoch has its password (`SignerKnows`, and `SessionFits` of
the cookie it becomes). Each write marks the requests it overtakes, and the lemmas say what is
kept of every other request when an account is written, deleted or seeded.

`BodiesProofs` proves three theorems of `Bodies`' `Spec`, from `BodiesConstants`.

- `TypeCorrect`: only an import is immutable, and only the household's extraction
  records failures.
- `CopiesAskedFor` needs every way a reader's slot comes to be in a job: a rule asks for
  every article under its domain (`RulesAsk`), and so does whoever put a job in the
  queue (`JobFits`). `LongestNamed`, by well-founded induction on the length of a
  domain, says that an article under some rule has a most specific one.
- `ImplementsReaderView`: each action is a step of `ReaderView` under the mapping of
  section 6, or changes nothing a reader can see. An insertion is an extraction, a
  reader's choice or an import there, or `Overtake` where its check had been overtaken.

`ImagesProofs` proves four theorems of `Images`' `Spec`, from `ImagesConstants`:
`TypeCorrect`, `ShownIsStored`, `OriginAskedOnce` and `OnlyARaceDangles`, which says that
the race of `ImagesDangling` is the only one: a row without its file is in `raced`. The
invariant ties each address being downloaded to one job (`LeadsFit`), which found no row
for it (`NewToTheArchive`); every row, and every image about to get one, has a file that
no release is about to remove, or is raced (`Stored`); and what a localization, a body or
a page that was not released shows is linked by its article (`Linked`), so that no
release of another article takes it.

`ReadingProofs` proves four theorems of `Reading`'s `Spec`, from `ReadingConstants`:
`TypeCorrect`, `NothingIsSkipped`, `ClientHoldsUnread` and, of its steps,
`GroupMarkStays`. The keyset is a strict total order (`TotalOrder`), so a page of any
length ends where everything above its last row has been shown (`PageEnds`,
`ShortPage`); `Ahead` says that what was in the list at first has been shown, has left,
moved or been passed, or is still below: below the last row of a page, or not above the
article a page links to, because the link was drawn to the first one below (`WalkFits`)
and what is between the two when it is followed came there after. A round's invariant is the same for ids ascending, page by
page. `left` is exact only because `Watched` fixes the list and the walker's place as
they were before the step and compares the tables around it: compared with the place
after the step, every article a walker passes would count as one that left, and nothing
would be said of walks from article to article.

The proofs rest on the named assumptions on constants alone, which TLC evaluates on
every run. What stays with TLC:

- Liveness, and `ENABLED` with it: `WaitingIsVisible`, `BrowserDrainsTheQueue`,
  `PendingAssetsSettle`, `RuledPageIsExtracted`, `RefetchedPageIsExtracted`, `FinishedIsReleased`, `PublishedIsStored`,
  `RuleReachesItsPages`. They are shown on the instances of the runs and no others.
- The disagreements: a violation needs one instance.
- Each proof is of one module. That `Pipeline`'s household slot is `Bodies`', or that
  `Retention`'s release is `Images`', is said in words (section 2).

## 11. What the runs found

- **A claim made after listing is not seen** (`RetentionLateClaim`). Expiry and prune
  never look at an article again between listing and releasing it; an import's
  immutable body can go the same way.
- **The sweep replaces an imported body in a reader's view** (`BodiesImported`). It
  asks the reader's own slot alone; the eager path asks the household's too.
- **A row can be left without its file** (`ImagesDangling`). A download that finds the
  file of an image just released does not write it, and the release then removes it;
  the row answers for the address from then on.

The modules also have these behaviours, which contradict no property a run checks, are
excepted by one by name, or were found by runs that are not kept:

- *Pipeline.* A re-fetch of a flagged host, queued when the page is already stored,
  does nothing: the hand-off to a render loses `Again` (`jobs/render.go:95`), though
  `jobs/fetch.go:35-39` has a re-fetch ask the origin whatever is stored. A worker
  that stops between recording a page and enqueueing its extraction leaves it unread on
  a host without a rule (`jobs/fetch.go:196`). `FetchedArticleIsReadable` is checked where
  nothing fails, and `RuledPageIsExtracted` says what the sweep repairs. A localization running while the page is
  extracted again writes the old markup over the new body (`jobs/assets.go:154`). A fetch
  that succeeds while an extraction that failed is ending has its own extraction dropped,
  and the article stands as fetched with no body (`jobs/extract.go:45`; section 3); where
  the one that is ending salvaged a feed's body, that stays over a page nobody reads. An
  article settled as having no images (its fetch failed) whose feed body comes later is
  localized by the job that extraction enqueues, and if a crash comes before that it is
  never: the sweep looks at `pending` alone, though `jobs/assets.go:447-450` has it cover
  anything lost to a crash. An extraction that finds nothing looks for a body and
  then records its failure, in two statements, and uniqueness lets a plain and a forced
  extraction of an article run together: with two workers one can insert a body between
  the two statements of the other, which then lists an article that has a body, though
  the comment at `jobs/extract.go:155` says that such an article is not a failure; and a
  query for the body that fails is taken for there being none (`jobs/extract.go:167-169`).
- *Retention.* A star set while the sweep is between its query and its update is lost.
  Nothing clears `content_expired_at`, so a released article that is fetched again is
  never released again, and `FinishedIsReleased` leaves it out: `docs/reference/retention.md:114`
  says that fetching it again archives it again, and nothing says that this is for ever.
- *Feeds.* A poll in flight writes the old address's validators after the reader moved
  the feed, and the old cadence after a new one was chosen. Any edit of a feed pulls
  `next_poll_at` to at most the last poll plus the chosen cadence, failing or not.
  Clearing a choice leaves the schedule where it was. A form opened before a feed was
  disabled switches it on again.
- *Bodies.* Deleting a domain's rule deletes every owner's. An import that commits
  between another writer's check and its demotion is demoted, and a failure recorded
  then lists an article that has a body. A promoted copy carries no ruleset key, so a
  reader with a rule has it replaced by the sweep. `DomainRuleFor` may answer with any
  reader's rule for the host.
- *Images.* An image not worth keeping is answered with an empty path and taken for
  localized, so it is shown as `/` (`jobs/assets.go`, resolver; `asset/localize.go:89`).
  The same bytes under a second address are downloaded for every article, since a row
  keeps the first address, though `store/assets.go:77-80` has the same image of ten articles
  downloaded once: `AskedOnce` is about addresses. An article released while it is localized gets links again
  that nothing will release. A re-extraction that ends while a localization of the
  article has written its body and is not done loses its own localization to
  uniqueness.
- *Accounts.* Two administrators deleted by overlapping requests each count two and leave
  none, though the comment at `store/accounts.go:239-243` says that the count and the
  change cannot be separated so: under READ COMMITTED a transaction does not keep another
  from deleting between its statements. Two overlapping issues of a
  link leave two that work. A rename and a change of password that overlap leave a key
  of neither. A deploy sets the sequence of ids back to the latest account there is
  (`store/users.go:94`), so the next account may have the id of a deleted one, with epochs
  from the start: an old cookie of the first is then admitted to the second.
- *Reading.* A mark bounded by the client's last round takes an article that arrived
  later with an earlier date (`store/reading.go:110`). Marking a list read from a page
  evaluates the list again when it is posted, by the folder's name, and a group mark reads
  the folder that has the name by then. The link to the next article is drawn when a page
  is served (`server/reading.go:536-547`): if its article is dated before it is followed,
  the reader lands below everything in between. A page that ends at an article dated
  before 1970 leads to a cursor that is answered 400 (`server/reading.go:1312-1330`). Two
  requests that
  create a folder, and then file a feed in it, are separate statements.

## 12. Not modelled

The `PROJECT.json` entry of each component says what is left out of it. In general:

- HTML, pixels and formats: what libraries make of a page or an image is a constant of
  the instance; sanitizing, transcoding, templates, OPML and export files are left out.
- Read-only code: search, streams' counts, export, audit, explain, metrics, views.
- Configuration, migrations, wiring and logging, which keep no state.
- The HTTP client's limiter and robots cache, under one request's deadline each, and
  backup and restore, a snapshot beside a copy of the files.
- Tags, highlights, themes and a reader's retention window, rows that are read back as
  they were written.
- Batches of a hundred. Sweeps take everything that is due in the instances, so
  starvation behind a full batch, by articles that are due for ever, is a hazard listed
  without a property.
- River's own tables, whose behaviour is taken from how the code configures it (unique
  arguments, attempts, timeouts, rescue).
