------------------------------ MODULE Pipeline ------------------------------
(***************************************************************************)
(* The archiving pipeline of one household: an article row, the River jobs *)
(* that work on it (fetch, render, extract, localize), the schedulers that *)
(* sweep up what those jobs lost, and the process that runs them all.      *)
(*                                                                         *)
(* One action is one statement against the database, one call to the blob  *)
(* store or one request: a worker can lose its context, fail a statement   *)
(* or die between any two of them.  Reader-owned bodies and imported ones  *)
(* are in BodySlots, releasing bodies is in Retention.                     *)
(***************************************************************************)
EXTENDS Integers, FiniteSets

CONSTANTS
    MaxArticle,         \* articles are numbered in first_seen_at order
    MaxPage,            \* bound: versions of its page an origin serves
    MaxAttempts,        \* river's MaxAttempts, 25 in the program
    Slots,              \* MaxWorkers of the default queue
    RenderSlots,        \* MaxWorkers of the render queue
    Batch,              \* scheduleBatchSize, 100 in the program
    BrowserConfigured,  \* whether the worker was given a Renderer
    Extractable,        \* versions of a page the ladder finds a body in
    Ruled,              \* articles on hosts with a household domain rule
    MaxFaults,          \* bound: crashes, shutdowns, deadlines, failed calls
    MaxAsks,            \* bound: re-fetches and reprocesses asked for
    MaxFlips,           \* bound: changes of a flag, the browser or a feed
    MaxChanges          \* bound: the two together

Article == 1 .. MaxArticle

ASSUME PipelineConstants ==
    /\ MaxArticle \in Nat \ {0} /\ MaxPage \in Nat \ {0}
    /\ MaxAttempts \in Nat \ {0} /\ Batch \in Nat \ {0}
    /\ Slots \in Nat \ {0} /\ RenderSlots \in 1 .. 4
    /\ BrowserConfigured \in BOOLEAN
    /\ Extractable \subseteq 1 .. MaxPage /\ Ruled \subseteq Article
    /\ MaxFaults \in Nat /\ MaxAsks \in Nat /\ MaxFlips \in Nat /\ MaxChanges \in Nat

VARIABLES
    \* the articles row and the household's current article_content row
    known,          \* articles that have a row
    fetchStatus, fetchError, assetsStatus,
    rawPath,        \* whether raw_blob_path and raw_blob_sha are set
    body,           \* the household's current body
    \* the blob store
    disk,           \* version of the page stored, 0 for none
    index,          \* whether index.html has been written
    \* river_job, one entry per distinct set of arguments
    queue, attempt,
    \* a running job: where it is, whose context, what it holds
    step, ctx, page, outcome,
    announced,      \* new articles a poll holds before it enqueues them
    \* the world outside
    origin, needsJS, feedBody, browserUp,
    faults, asks, flips

rowVars   == <<known, fetchStatus, fetchError, assetsStatus, rawPath, body>>
blobVars  == <<disk, index>>
jobVars   == <<queue, attempt, step, ctx, page, outcome>>
worldVars == <<origin, needsJS, feedBody, browserUp, asks, flips>>
vars == <<rowVars, blobVars, jobVars, announced, worldVars, faults>>

-----------------------------------------------------------------------------
(* Jobs.  "refetch" is FetchArticleArgs{Again: true} and "force" is        *)
(* ExtractArticleArgs{Force: true}: other arguments, so other jobs to      *)
(* river's uniqueness.                                                     *)

FetchKind   == {"fetch", "refetch"}
ExtractKind == {"extract", "force"}
Kind == FetchKind \cup {"render"} \cup ExtractKind \cup {"localize"}

Job == [kind : Kind, article : Article]
J(k, a) == [kind |-> k, article |-> a]

JobState == {"none", "queued", "running"}
Context  == {"live", "expired", "cancelled"}

\* What ended a network step, and what an extraction can fail for.
\* A request that ran out of time was refused by the page as much as a 404 was.
Cause == {"refused", "disallowed", "shutdown", "empty"}

\* How localizing went, as the status it will be recorded under.
Localized == {"ok", "partial", "none"}

Step == {"idle", "handoff", "get", "permit", "render", "put", "record",
         "extract", "fail", "salvage", "page", "nopage", "nothing", "insert",
         "clear", "localize", "images", "update", "status", "files", "done"}

\* from is the page the body was extracted from and html the page its markup
\* was taken from; 0 stands for the feed's own body.
Body   == [has : BOOLEAN, from : 0 .. MaxPage, html : 0 .. MaxPage]
NoBody == [has |-> FALSE, from |-> 0, html |-> 0]

FetchStatus  == {"pending", "ok", "failed", "skipped"}
FetchError   == {"null", "waiting"} \cup Cause
AssetsStatus == {"pending"} \cup Localized

TypeOK ==
    /\ known \in SUBSET Article
    /\ fetchStatus \in [Article -> FetchStatus]
    /\ fetchError \in [Article -> FetchError]
    /\ assetsStatus \in [Article -> AssetsStatus]
    /\ rawPath \in [Article -> BOOLEAN]
    /\ body \in [Article -> Body]
    /\ disk \in [Article -> 0 .. MaxPage]
    /\ index \in [Article -> BOOLEAN]
    /\ queue \in [Job -> JobState]
    /\ attempt \in [Job -> 0 .. MaxAttempts]
    /\ step \in [Job -> Step]
    /\ ctx \in [Job -> Context]
    /\ page \in [Job -> 0 .. MaxPage]
    /\ outcome \in [Job -> Cause \cup Localized]
    /\ announced \in SUBSET Article
    /\ origin \in [Article -> 1 .. MaxPage]
    /\ needsJS \in [Article -> BOOLEAN]
    /\ feedBody \in [Article -> BOOLEAN]
    /\ browserUp \in BOOLEAN
    /\ faults \in 0 .. MaxFaults
    /\ asks \in 0 .. MaxAsks
    /\ flips \in 0 .. MaxFlips

Init ==
    /\ known = {}
    /\ fetchStatus = [a \in Article |-> "pending"]
    /\ fetchError = [a \in Article |-> "null"]
    /\ assetsStatus = [a \in Article |-> "pending"]
    /\ rawPath = [a \in Article |-> FALSE]
    /\ body = [a \in Article |-> NoBody]
    /\ disk = [a \in Article |-> 0]
    /\ index = [a \in Article |-> FALSE]
    /\ queue = [j \in Job |-> "none"]
    /\ attempt = [j \in Job |-> 0]
    /\ step = [j \in Job |-> "idle"]
    /\ ctx = [j \in Job |-> "live"]
    /\ page = [j \in Job |-> 0]
    /\ outcome = [j \in Job |-> "none"]
    /\ announced = {}
    /\ origin = [a \in Article |-> 1]
    /\ needsJS \in [Article -> BOOLEAN]
    /\ feedBody = [a \in Article |-> FALSE]
    /\ browserUp \in BOOLEAN
    /\ faults = 0
    /\ asks = 0
    /\ flips = 0

-----------------------------------------------------------------------------
(* The queue.                                                              *)

\* river.Insert under UniqueOpts{ByArgs, ByState}: a job whose arguments are
\* already outstanding, running included, is skipped without an error.
Inserted(jobs) ==
    [j \in Job |-> IF j \in jobs /\ queue[j] = "none" THEN "queued" ELSE queue[j]]

Running(kinds) == {j \in Job : queue[j] = "running" /\ j.kind \in kinds}

SlotFree(k) ==
    IF k = "render" THEN Cardinality(Running({"render"})) < RenderSlots
                    ELSE Cardinality(Running(Kind \ {"render"})) < Slots

\* A worker takes a queued job and starts it at step s.
Claim(j, s) ==
    /\ queue[j] = "queued"
    /\ SlotFree(j.kind)
    /\ queue' = [queue EXCEPT ![j] = "running"]
    /\ attempt' = [attempt EXCEPT ![j] = @ + 1]
    /\ step' = [step EXCEPT ![j] = s]
    /\ ctx' = [ctx EXCEPT ![j] = "live"]

\* Mutant of Returned: a job is retried for ever.
ReturnedForEver(S) ==
    /\ queue' = [j \in Job |-> IF j \in S THEN "queued" ELSE queue[j]]
    /\ step' = [j \in Job |-> IF j \in S THEN "idle" ELSE step[j]]
    /\ ctx' = [j \in Job |-> IF j \in S THEN "live" ELSE ctx[j]]
    /\ page' = [j \in Job |-> IF j \in S THEN 0 ELSE page[j]]
    /\ outcome' = [j \in Job |-> IF j \in S THEN "none" ELSE outcome[j]]
    /\ UNCHANGED attempt

\* Where a job that returned an error goes: it is retried until its attempts
\* are used up, then discarded, which is no longer outstanding.
Returned(S) ==
    /\ queue' = [j \in Job |-> IF j \notin S THEN queue[j]
                               ELSE IF attempt[j] < MaxAttempts THEN "queued" ELSE "none"]
    /\ attempt' = [j \in Job |-> IF j \in S /\ attempt[j] = MaxAttempts THEN 0 ELSE attempt[j]]
    /\ step' = [j \in Job |-> IF j \in S THEN "idle" ELSE step[j]]
    /\ ctx' = [j \in Job |-> IF j \in S THEN "live" ELSE ctx[j]]
    /\ page' = [j \in Job |-> IF j \in S THEN 0 ELSE page[j]]
    /\ outcome' = [j \in Job |-> IF j \in S THEN "none" ELSE outcome[j]]

\* Job j, running at step s, goes on to step t.
At(j, s)   == queue[j] = "running" /\ step[j] = s
Goes(j, t) == step' = [step EXCEPT ![j] = t]

\* The statement of a job that runs on the job's own context.
Live(j) == ctx[j] = "live"

\* Mutant of Interrupted: a cancelled context is read as the page's failure.
NeverInterrupted(j) == FALSE

\* outcome.go: a shutdown is the worker's, a deadline is the page's.
Interrupted(j) == ctx[j] = "cancelled"

Finish(j) ==
    /\ At(j, "done")
    /\ queue' = [queue EXCEPT ![j] = "none"]
    /\ attempt' = [attempt EXCEPT ![j] = 0]
    /\ Goes(j, "idle")
    /\ ctx' = [ctx EXCEPT ![j] = "live"]
    /\ page' = [page EXCEPT ![j] = 0]
    /\ outcome' = [outcome EXCEPT ![j] = "none"]
    /\ UNCHANGED <<rowVars, blobVars, announced, worldVars, faults>>

-----------------------------------------------------------------------------
(* The poll that finds an article, and the reader who saves one.           *)

\* Poller.ingest: the row first; the poll keeps the new id until every entry
\* of the feed is stored.
Ingest(a, withBody) ==
    /\ a \notin known
    /\ known' = known \cup {a}
    /\ announced' = announced \cup {a}
    /\ feedBody' = [feedBody EXCEPT ![a] = withBody]
    /\ UNCHANGED <<fetchStatus, fetchError, assetsStatus, rawPath, body, blobVars, jobVars,
                   origin, needsJS, browserUp, asks, flips, faults>>

\* PollFeedWorker.Work: one InsertMany for everything the poll found.
Announce ==
    /\ announced # {}
    /\ queue' = Inserted({J("fetch", a) : a \in announced})
    /\ announced' = {}
    /\ UNCHANGED <<rowVars, blobVars, attempt, step, ctx, page, outcome, worldVars, faults>>

\* SaveArticle: the row alone, since the web process enqueues nothing.
Save(a) ==
    /\ a \notin known
    /\ known' = known \cup {a}
    /\ UNCHANGED <<fetchStatus, fetchError, assetsStatus, rawPath, body, blobVars, jobVars,
                   announced, worldVars, faults>>

Flippable == flips < MaxFlips /\ asks + flips < MaxChanges

\* Another feed carries the same story with a body of its own.
CarryBody(a) ==
    /\ a \in known /\ ~feedBody[a] /\ Flippable
    /\ feedBody' = [feedBody EXCEPT ![a] = TRUE]
    /\ flips' = flips + 1
    /\ UNCHANGED <<rowVars, blobVars, jobVars, announced, origin, needsJS, browserUp, asks, faults>>

-----------------------------------------------------------------------------
(* FetchArticleWorker.                                                     *)

StoredAlready(a) == fetchStatus[a] = "ok" /\ rawPath[a]

\* GetArticle, the refusal of a page already stored, and the domain rule.
StartFetch(j) ==
    LET a == j.article IN
    /\ j.kind \in FetchKind
    /\ Claim(j, IF j.kind = "fetch" /\ StoredAlready(a) THEN "done"
                ELSE IF BrowserConfigured /\ needsJS[a] THEN "handoff" ELSE "get")
    /\ UNCHANGED <<rowVars, blobVars, page, outcome, announced, worldVars, faults>>

HandOffToBrowser(j) ==
    /\ At(j, "handoff") /\ Live(j)
    /\ queue' = Inserted({J("render", j.article)})
    /\ Goes(j, "done")
    /\ UNCHANGED <<rowVars, blobVars, attempt, ctx, page, outcome, announced, worldVars, faults>>

\* Mutant of GetPage: the row is written whether or not the page was stored.
GetPageUnstored(j) ==
    /\ At(j, "get") /\ Live(j)
    /\ Goes(j, "record")
    /\ UNCHANGED <<rowVars, blobVars, queue, attempt, ctx, page, outcome, announced, worldVars,
                   faults>>

\* A 2xx whose body arrived whole.
GetPage(j) ==
    /\ At(j, "get") /\ Live(j)
    /\ page' = [page EXCEPT ![j] = origin[j.article]]
    /\ Goes(j, "put")
    /\ UNCHANGED <<rowVars, blobVars, queue, attempt, ctx, outcome, announced, worldVars, faults>>

\* What a request can end with, given how the job's context stands.
Ended(j) == IF Live(j) THEN {"refused", "disallowed"}
            ELSE IF ctx[j] = "expired" THEN {"refused"} ELSE {"shutdown"}

\* The page did not arrive: the job's own interruption is returned for the
\* next worker, anything else is on its way to being recorded.
Settle(j, cause) ==
    \/ /\ Interrupted(j)
       /\ Returned({j})
    \/ /\ ~Interrupted(j)
       /\ Goes(j, "fail")
       /\ outcome' = [outcome EXCEPT ![j] = cause]
       /\ UNCHANGED <<queue, attempt, ctx, page>>

GetFails(j) ==
    /\ At(j, "get")
    /\ \E cause \in Ended(j) : Settle(j, cause)
    /\ UNCHANGED <<rowVars, blobVars, announced, worldVars, faults>>

\* blobs.Put does not look at the context.
PutPage(j) ==
    /\ At(j, "put")
    /\ disk' = [disk EXCEPT ![j.article] = page[j]]
    /\ page' = [page EXCEPT ![j] = 0]
    /\ Goes(j, "record")
    /\ UNCHANGED <<rowVars, index, queue, attempt, ctx, outcome, announced, worldVars, faults>>

\* Mutant of RecordFetchSuccess: the fetch ends without asking for extraction.
RecordFetchSuccessOnly(j) ==
    LET a == j.article IN
    /\ At(j, "record") /\ Live(j)
    /\ rawPath' = [rawPath EXCEPT ![a] = TRUE]
    /\ fetchStatus' = [fetchStatus EXCEPT ![a] = "ok"]
    /\ fetchError' = [fetchError EXCEPT ![a] = "null"]
    /\ Goes(j, "done")
    /\ UNCHANGED <<known, assetsStatus, body, blobVars, queue, attempt, ctx, page, outcome,
                   announced, worldVars, faults>>

RecordFetchSuccess(j) ==
    LET a == j.article IN
    /\ At(j, "record") /\ Live(j)
    /\ rawPath' = [rawPath EXCEPT ![a] = TRUE]
    /\ fetchStatus' = [fetchStatus EXCEPT ![a] = "ok"]
    /\ fetchError' = [fetchError EXCEPT ![a] = "null"]
    /\ Goes(j, "extract")
    /\ UNCHANGED <<known, assetsStatus, body, blobVars, queue, attempt, ctx, page, outcome,
                   announced, worldVars, faults>>

\* Mutant of EnqueueExtraction: Again is not passed on as Force.
EnqueueExtractionUnforced(j) ==
    /\ At(j, "extract") /\ Live(j)
    /\ queue' = Inserted({J("extract", j.article)})
    /\ Goes(j, "done")
    /\ UNCHANGED <<rowVars, blobVars, attempt, ctx, page, outcome, announced, worldVars, faults>>

EnqueueExtraction(j) ==
    /\ At(j, "extract") /\ Live(j)
    /\ queue' = Inserted({J(IF j.kind = "refetch" THEN "force" ELSE "extract", j.article)})
    /\ Goes(j, "done")
    /\ UNCHANGED <<rowVars, blobVars, attempt, ctx, page, outcome, announced, worldVars, faults>>

\* recordFetchFailure, on a context of its own: the status and the reason, and
\* assets_status settled for an article that has nothing to localize.
RecordFetchFailure(j) ==
    LET a == j.article IN
    /\ At(j, "fail")
    /\ fetchStatus' = [fetchStatus EXCEPT
                          ![a] = IF outcome[j] = "disallowed" THEN "skipped" ELSE "failed"]
    /\ fetchError' = [fetchError EXCEPT ![a] = outcome[j]]
    /\ assetsStatus' = [assetsStatus EXCEPT
                          ![a] = IF @ = "pending" /\ ~body[a].has THEN "none" ELSE @]
    /\ outcome' = [outcome EXCEPT ![j] = "none"]
    /\ Goes(j, IF j.kind \in ExtractKind THEN "done" ELSE "salvage")
    /\ UNCHANGED <<known, rawPath, body, blobVars, queue, attempt, ctx, page,
                   announced, worldVars, faults>>

\* salvageFromFeed: nothing in it is fatal, so a call that fails is only lost.
SalvageFromFeed(j) ==
    /\ At(j, "salvage")
    /\ \/ /\ queue' = Inserted(IF feedBody[j.article] THEN {J("extract", j.article)} ELSE {})
          /\ UNCHANGED faults
       \/ /\ feedBody[j.article] /\ faults < MaxFaults
          /\ faults' = faults + 1
          /\ UNCHANGED queue
    /\ Goes(j, "done")
    /\ UNCHANGED <<rowVars, blobVars, attempt, ctx, page, outcome, announced, worldVars>>

-----------------------------------------------------------------------------
(* RenderArticleWorker, which shares the tail of a fetch from "put" on.    *)

StartRender(j) ==
    /\ j.kind = "render"
    /\ Claim(j, IF StoredAlready(j.article) THEN "done" ELSE "permit")
    /\ UNCHANGED <<rowVars, blobVars, page, outcome, announced, worldVars, faults>>

\* Permit: robots.txt's refusal is recorded unless the worker is stopping.
Permit(j) ==
    /\ At(j, "permit") /\ Live(j)
    /\ \/ /\ Goes(j, "render")
          /\ UNCHANGED <<queue, attempt, ctx, page, outcome>>
       \/ Settle(j, "disallowed")
    /\ UNCHANGED <<rowVars, blobVars, announced, worldVars, faults>>

RenderPage(j) ==
    /\ At(j, "render") /\ Live(j) /\ browserUp
    /\ page' = [page EXCEPT ![j] = origin[j.article]]
    /\ Goes(j, "put")
    /\ UNCHANGED <<rowVars, blobVars, queue, attempt, ctx, outcome, announced, worldVars, faults>>

\* Mutants of RenderUnavailable: the note is written over any status, or never.
RenderUnavailableAnyStatus(j) ==
    /\ At(j, "render") /\ (~browserUp \/ ~Live(j))
    /\ fetchError' = [fetchError EXCEPT ![j.article] = "waiting"]
    /\ Returned({j})
    /\ UNCHANGED <<known, fetchStatus, assetsStatus, rawPath, body, blobVars, announced,
                   worldVars, faults>>

RenderUnavailableSilent(j) ==
    /\ At(j, "render") /\ (~browserUp \/ ~Live(j))
    /\ Returned({j})
    /\ UNCHANGED <<rowVars, blobVars, announced, worldVars, faults>>

\* ErrUnavailable: RecordFetchWaiting writes the note only while the article
\* is pending, and the job is returned.  A context that ended while dialling
\* is the same error.
RenderUnavailable(j) ==
    LET a == j.article IN
    /\ At(j, "render") /\ (~browserUp \/ ~Live(j))
    /\ fetchError' = [fetchError EXCEPT ![a] = IF fetchStatus[a] = "pending" THEN "waiting" ELSE @]
    /\ Returned({j})
    /\ UNCHANGED <<known, fetchStatus, assetsStatus, rawPath, body, blobVars, announced,
                   worldVars, faults>>

RenderFails(j) ==
    /\ At(j, "render") /\ browserUp
    /\ \E cause \in Ended(j) \ {"disallowed"} : Settle(j, cause)
    /\ UNCHANGED <<rowVars, blobVars, announced, worldVars, faults>>

-----------------------------------------------------------------------------
(* ExtractArticleWorker, for the household.                                *)

\* The article, its rule and alreadyCurrent: the extractor and the rules do
\* not change here, so any body is current.
StartExtract(j) ==
    LET a == j.article IN
    /\ j.kind \in ExtractKind
    /\ Claim(j, IF j.kind = "extract" /\ body[a].has THEN "done"
                ELSE IF rawPath[a] THEN "page" ELSE "nopage")
    /\ UNCHANGED <<rowVars, blobVars, page, outcome, announced, worldVars, faults>>

\* readRaw, FeedBodyFor and the ladder: the page's own text, else the feed's
\* body, else nothing.  A recorded page that is not on the disk is an error.
Extract(j) ==
    LET a == j.article
        extractable == step[j] = "page" /\ disk[a] \in Extractable IN
    /\ At(j, "nopage") \/ (At(j, "page") /\ disk[a] > 0)
    /\ Live(j)
    /\ page' = [page EXCEPT ![j] = IF extractable THEN disk[a] ELSE 0]
    /\ Goes(j, IF extractable \/ feedBody[a] THEN "insert" ELSE "nothing")
    /\ UNCHANGED <<rowVars, blobVars, queue, attempt, ctx, outcome, announced, worldVars, faults>>

\* ErrNoContent: an article that has a body keeps it, if CurrentContent could
\* be asked: a query that fails is taken for the answer that there is none.
ExtractedNothing(j) ==
    LET has == Live(j) /\ body[j.article].has IN
    /\ At(j, "nothing")
    /\ \/ has /\ Goes(j, "done") /\ UNCHANGED <<queue, attempt, ctx, page, outcome, faults>>
       \/ ~has /\ Settle(j, "empty") /\ UNCHANGED faults
       \/ has /\ faults < MaxFaults /\ faults' = faults + 1 /\ Settle(j, "empty")
    /\ UNCHANGED <<rowVars, blobVars, announced, worldVars>>

\* InsertContent for the household's slot, whose body is never immutable here.
InsertContent(j) ==
    /\ At(j, "insert") /\ Live(j)
    /\ body' = [body EXCEPT ![j.article] = [has |-> TRUE, from |-> page[j], html |-> page[j]]]
    /\ page' = [page EXCEPT ![j] = 0]
    /\ Goes(j, "clear")
    /\ UNCHANGED <<known, fetchStatus, fetchError, assetsStatus, rawPath, blobVars, queue,
                   attempt, ctx, outcome, announced, worldVars, faults>>

ClearExtractionFailure(j) ==
    LET a == j.article
        cleared == fetchStatus[a] = "failed" /\ rawPath[a] IN
    /\ At(j, "clear") /\ Live(j)
    /\ fetchStatus' = [fetchStatus EXCEPT ![a] = IF cleared THEN "ok" ELSE @]
    /\ fetchError' = [fetchError EXCEPT ![a] = IF cleared THEN "null" ELSE @]
    /\ Goes(j, "localize")
    /\ UNCHANGED <<known, assetsStatus, rawPath, body, blobVars, queue, attempt, ctx, page,
                   outcome, announced, worldVars, faults>>

\* Mutant of EnqueueLocalization: only for an article whose images were never
\* looked at.
EnqueueLocalizationOnce(j) ==
    /\ At(j, "localize") /\ Live(j)
    /\ queue' = Inserted(IF assetsStatus[j.article] = "pending"
                         THEN {J("localize", j.article)} ELSE {})
    /\ Goes(j, "done")
    /\ UNCHANGED <<rowVars, blobVars, attempt, ctx, page, outcome, announced, worldVars, faults>>

EnqueueLocalization(j) ==
    /\ At(j, "localize") /\ Live(j)
    /\ queue' = Inserted({J("localize", j.article)})
    /\ Goes(j, "done")
    /\ UNCHANGED <<rowVars, blobVars, attempt, ctx, page, outcome, announced, worldVars, faults>>

-----------------------------------------------------------------------------
(* LocalizeAssetsWorker, for the household's body.                         *)

\* CurrentContent: the markup this job will rewrite is the one read here.
StartLocalize(j) ==
    LET a == j.article IN
    /\ j.kind = "localize"
    /\ Claim(j, IF body[a].has THEN "images" ELSE "done")
    /\ page' = [page EXCEPT ![j] = IF body[a].has THEN body[a].html ELSE 0]
    /\ UNCHANGED <<rowVars, blobVars, outcome, announced, worldVars, faults>>

\* asset.Localize: a download that fails is not fatal, a context that has
\* ended makes every one of them fail.
LocalizeImages(j) ==
    /\ At(j, "images")
    /\ \E found \in IF Live(j) THEN Localized ELSE {"none", "partial"} :
           /\ outcome' = [outcome EXCEPT ![j] = found]
           /\ Goes(j, IF found = "none" THEN "status" ELSE "update")
           /\ page' = [page EXCEPT ![j] = IF found = "none" THEN 0 ELSE @]
    /\ UNCHANGED <<rowVars, blobVars, queue, attempt, ctx, announced, worldVars, faults>>

\* UpdateContentHTML writes to whatever row is current by now.
UpdateContentHTML(j) ==
    LET a == j.article IN
    /\ At(j, "update") /\ Live(j)
    /\ body' = [body EXCEPT ![a].html = IF body[a].has THEN page[j] ELSE @]
    /\ page' = [page EXCEPT ![j] = 0]
    /\ Goes(j, "status")
    /\ UNCHANGED <<known, fetchStatus, fetchError, assetsStatus, rawPath, blobVars, queue,
                   attempt, ctx, outcome, announced, worldVars, faults>>

SetAssetsStatus(j) ==
    /\ At(j, "status") /\ Live(j)
    /\ assetsStatus' = [assetsStatus EXCEPT ![j.article] = outcome[j]]
    /\ outcome' = [outcome EXCEPT ![j] = "none"]
    /\ Goes(j, "files")
    /\ UNCHANGED <<known, fetchStatus, fetchError, rawPath, body, blobVars, queue, attempt, ctx,
                   page, announced, worldVars, faults>>

WriteFiles(j) ==
    /\ At(j, "files") /\ Live(j)
    /\ index' = [index EXCEPT ![j.article] = TRUE]
    /\ Goes(j, "done")
    /\ UNCHANGED <<rowVars, disk, queue, attempt, ctx, page, outcome, announced, worldVars, faults>>

-----------------------------------------------------------------------------
(* The schedulers: each reads a batch in first_seen_at order, and enqueues *)
(* it.                                                                     *)

Oldest(S) == {a \in S : Cardinality({b \in S : b < a}) < Batch}

\* Mutants: an article noted as waiting is nobody's to fetch, the sweep looks
\* for another status, an inner join loses the articles without a body.
PendingFetchUnnoted  == Oldest({a \in known : fetchStatus[a] = "pending" /\ fetchError[a] = "null"})
PendingAssetsPartial == Oldest({a \in known : assetsStatus[a] = "partial" /\ body[a].has})
StaleBodiesJoined    == Oldest({a \in known \cap Ruled : rawPath[a] /\ body[a].has})

PendingFetch  == Oldest({a \in known : fetchStatus[a] = "pending"})
PendingAssets == Oldest({a \in known : assetsStatus[a] = "pending" /\ body[a].has})

\* Bodies a rule's host lacks; a rule that changed is in DomainRules.
StaleBodies == Oldest({a \in known \cap Ruled : rawPath[a] /\ ~body[a].has})

Schedule(kind, articles) ==
    /\ queue' = Inserted({J(kind, a) : a \in articles})
    /\ queue' # queue
    /\ UNCHANGED <<rowVars, blobVars, attempt, step, ctx, page, outcome, announced,
                   worldVars, faults>>

ScheduleFetches      == Schedule("fetch", PendingFetch)
ScheduleAssets       == Schedule("localize", PendingAssets)
ScheduleReextraction == Schedule("extract", StaleBodies)

-----------------------------------------------------------------------------
(* What an operator or a reader asks for.                                  *)

Asked(kind, a) ==
    /\ a \in known /\ asks < MaxAsks /\ asks + flips < MaxChanges
    /\ queue' = Inserted({J(kind, a)})
    /\ asks' = asks + 1
    /\ UNCHANGED <<rowVars, blobVars, attempt, step, ctx, page, outcome, announced,
                   origin, needsJS, feedBody, browserUp, flips, faults>>

\* EnqueueRefetch: any article, whatever its state.
AskRefetch(a) == Asked("refetch", a)

\* QueueReextraction and QueueRuleExtraction: only what has a page stored.
AskReprocess(a) == rawPath[a] /\ Asked("force", a)

\* The household's requires_js flag is data that changes while jobs wait.
FlagDomain(a) ==
    /\ Flippable
    /\ needsJS' = [needsJS EXCEPT ![a] = ~@]
    /\ flips' = flips + 1
    /\ UNCHANGED <<rowVars, blobVars, jobVars, announced, origin, feedBody, browserUp, asks, faults>>

BrowserChanges ==
    /\ BrowserConfigured /\ Flippable
    /\ browserUp' = ~browserUp
    /\ flips' = flips + 1
    /\ UNCHANGED <<rowVars, blobVars, jobVars, announced, origin, needsJS, feedBody, asks, faults>>

PageChanges(a) ==
    /\ origin[a] < MaxPage
    /\ origin' = [origin EXCEPT ![a] = @ + 1]
    /\ UNCHANGED <<rowVars, blobVars, jobVars, announced, needsJS, feedBody, browserUp,
                   asks, flips, faults>>

-----------------------------------------------------------------------------
(* What goes wrong.                                                        *)

\* Steps whose statement returns its error to river.
Statement == {"handoff", "put", "permit", "record", "extract", "page", "nopage", "insert",
              "clear", "localize", "update", "status", "files"}

\* A statement on a context that has ended cannot run; blobs.Put can.
StatementRefused(j) ==
    /\ queue[j] = "running" /\ step[j] \in Statement \ {"put"} /\ ~Live(j)
    /\ Returned({j})
    /\ UNCHANGED <<rowVars, blobVars, announced, worldVars, faults>>

\* The database or the disk fails one call.
StatementFails(j) ==
    /\ queue[j] = "running" /\ step[j] \in Statement \cup {"fail"} /\ Live(j)
    /\ faults < MaxFaults
    /\ faults' = faults + 1
    /\ Returned({j})
    /\ UNCHANGED <<rowVars, blobVars, announced, worldVars>>

\* Jobs that would notice: recording has a context of its own, and one whose
\* work has returned no longer minds.
Working(j) == queue[j] = "running" /\ step[j] \notin {"fail", "salvage", "done"} /\ Live(j)

\* River's minute runs out.
Expire(j) ==
    /\ Working(j) /\ faults < MaxFaults
    /\ ctx' = [ctx EXCEPT ![j] = "expired"]
    /\ faults' = faults + 1
    /\ UNCHANGED <<rowVars, blobVars, queue, attempt, step, page, outcome, announced, worldVars>>

\* The worker is told to stop: every running job's context is cancelled, and
\* a poll's insertion with it.
Shutdown ==
    /\ faults < MaxFaults
    /\ ctx' = [j \in Job |-> IF Working(j) THEN "cancelled" ELSE ctx[j]]
    /\ announced' = {}
    /\ faults' = faults + 1
    /\ UNCHANGED <<rowVars, blobVars, queue, attempt, step, page, outcome, worldVars>>

\* The worker dies: what it was running is rescued later as an error would be.
Crash ==
    /\ faults < MaxFaults
    /\ Returned({j \in Job : queue[j] = "running"})
    /\ announced' = {}
    /\ faults' = faults + 1
    /\ UNCHANGED <<rowVars, blobVars, worldVars>>

-----------------------------------------------------------------------------
Start(j) ==
    /\ queue[j] = "queued"
    /\ StartFetch(j) \/ StartRender(j) \/ StartExtract(j) \/ StartLocalize(j)

FetchStep(j) ==
    \/ HandOffToBrowser(j) \/ GetPage(j) \/ GetFails(j) \/ PutPage(j)
    \/ RecordFetchSuccess(j) \/ EnqueueExtraction(j)
    \/ RecordFetchFailure(j) \/ SalvageFromFeed(j)

RenderStep(j) == Permit(j) \/ RenderPage(j) \/ RenderUnavailable(j) \/ RenderFails(j)

ExtractStep(j) ==
    \/ Extract(j) \/ ExtractedNothing(j) \/ InsertContent(j)
    \/ ClearExtractionFailure(j) \/ EnqueueLocalization(j)

LocalizeStep(j) ==
    \/ LocalizeImages(j) \/ UpdateContentHTML(j) \/ SetAssetsStatus(j) \/ WriteFiles(j)

\* What a running job does next.
Proceed(j) ==
    /\ queue[j] = "running"
    /\ \/ FetchStep(j) \/ RenderStep(j) \/ ExtractStep(j) \/ LocalizeStep(j)
       \/ StatementRefused(j) \/ Finish(j)

Schedulers == ScheduleFetches \/ ScheduleAssets \/ ScheduleReextraction

Environment ==
    \/ \E a \in Article : \/ \E carried \in BOOLEAN : Ingest(a, carried)
                          \/ Save(a) \/ CarryBody(a) \/ FlagDomain(a) \/ PageChanges(a)
                          \/ AskRefetch(a) \/ AskReprocess(a)
    \/ BrowserChanges

Fault == Shutdown \/ Crash \/ \E j \in Job : StatementFails(j) \/ Expire(j)

Next ==
    \/ Announce \/ Schedulers \/ Environment \/ Fault
    \/ \E j \in Job : Start(j) \/ Proceed(j)

\* River works its queues oldest first, so a queued job gets a slot however
\* often others come back; a running job takes its next step; the periodic
\* jobs run every minute.  Nothing outside the program is fair.
Fairness ==
    /\ \A j \in Job : SF_vars(Start(j)) /\ WF_vars(Proceed(j))
    /\ WF_vars(Announce)
    /\ WF_vars(ScheduleFetches) /\ WF_vars(ScheduleAssets) /\ WF_vars(ScheduleReextraction)

Spec == Init /\ [][Next]_vars
FairSpec == Spec /\ Fairness

-----------------------------------------------------------------------------
(* What the pipeline promises.                                             *)

\* A row that names a stored page names one that is there: the page is on the
\* disk before the row says so (fetch.go and render.go, Put before
\* RecordFetchSuccess), however the two are cut apart.
StoredPageIsReadable == \A a \in Article : rawPath[a] => disk[a] > 0

\* The status and its reason agree, and a reason is always the page's own:
\* neither the worker's shutdown nor a missing browser is written against an
\* article as its failure (outcome.go, render.go).
SettledForItsOwnReason ==
    \A a \in Article :
        /\ fetchStatus[a] = "ok"      => fetchError[a] = "null"
        /\ fetchStatus[a] = "pending" => fetchError[a] \in {"null", "waiting"}
        /\ fetchStatus[a] = "skipped" => fetchError[a] = "disallowed"
        /\ fetchStatus[a] = "failed"  => fetchError[a] \in {"refused", "empty"}

\* No job is outstanding for the article and no sweep would enqueue one: what
\* holds of it now is what its readers are left with.
AtRest(a) ==
    /\ a \in known \ announced
    /\ \A kind \in Kind : queue[J(kind, a)] = "none"
    /\ fetchStatus[a] # "pending"
    /\ ~(assetsStatus[a] = "pending" /\ body[a].has)
    /\ ~(a \in Ruled /\ rawPath[a] /\ ~body[a].has)

\* An article whose page was fetched ends with something to read, or in the
\* attention queue, whatever extraction uniqueness dropped on the way.  What is read
\* need not be that page: a feed's body that was salvaged first may stay in its place.
FetchedArticleIsReadable ==
    \A a \in Article : AtRest(a) /\ fetchStatus[a] = "ok" => body[a].has

\* An article with a body ends with its files written (assets.go, writeFiles).
BodyIsLocalized == \A a \in Article : AtRest(a) /\ body[a].has => index[a]

\* Every article somebody knows of is fetched, refused or failed in the end,
\* whatever jobs the worker lost (ScheduleFetchesWorker).
EveryArticleSettles ==
    \A a \in Article : a \in known ~> fetchStatus[a] # "pending"

\* While there is no browser an article may wait, and then it says so.
WaitingIsVisible ==
    \A a \in Article : a \in known ~> fetchStatus[a] # "pending" \/ fetchError[a] = "waiting"

\* Once a browser stays, nothing waits for it any longer.
BrowserDrainsTheQueue == <>[]browserUp => EveryArticleSettles

\* A page under a rule gets its body whatever extraction was lost
\* (ScheduleReextractionWorker).
RuledPageIsExtracted ==
    \A a \in Ruled : rawPath[a] ~> body[a].has \/ fetchStatus[a] \in {"failed", "skipped"}

\* A body whose images were never looked at gets them, and its files, whatever
\* localization was lost (ScheduleAssetsWorker).  An article that was settled as having
\* none before its body came is no longer pending, and is not looked for.
PendingAssetsSettle ==
    \A a \in Article : body[a].has /\ assetsStatus[a] = "pending" ~> index[a]

\* Each re-fetched page is extracted when it lands, whatever body the article
\* already has (fetch.go, Force: job.Args.Again).
RefetchedPageIsExtracted ==
    \A a \in Article :
        LET j == J("refetch", a) IN
        At(j, "extract") /\ disk[a] \in Extractable ~> body[a].from = disk[a]

=============================================================================
