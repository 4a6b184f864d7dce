--------------------------- MODULE PipelineProofs ---------------------------
(***************************************************************************)
(* What holds of the pipeline for any number of articles, pages, workers,  *)
(* attempts and faults.                                                    *)
(***************************************************************************)
EXTENDS Pipeline, FiniteSetTheorems, TLAPS

-----------------------------------------------------------------------------
(* Type correctness.  Two things it needs are not types: a job waits only  *)
(* while it has an attempt left, and what a job holds fits the step it is  *)
(* at, so that what is written to the row is a reason or a status.         *)

AttemptLeft ==
    \A j \in Job : /\ queue[j] = "none" => attempt[j] = 0
                   /\ queue[j] = "queued" => attempt[j] < MaxAttempts

\* The reasons that are the page's own.
OwnReason == {"refused", "disallowed", "empty"}

OutcomeFits ==
    \A j \in Job : /\ step[j] = "fail" => outcome[j] \in OwnReason
                   /\ step[j] \in {"update", "status"} => outcome[j] \in Localized

TypeInv == TypeOK /\ AttemptLeft /\ OutcomeFits

LEMMA JobParts ==
    ASSUME NEW j \in Job
    PROVE  j.article \in Article /\ j.kind \in Kind
  BY DEF Job

\* Inserting a job gives no job an attempt it does not have.
LEMMA InsertedType ==
    ASSUME TypeInv, NEW S, queue' = Inserted(S), attempt' = attempt
    PROVE  /\ queue' \in [Job -> JobState]
           /\ AttemptLeft'
  BY PipelineConstants DEF TypeInv, TypeOK, AttemptLeft, Inserted, JobState

\* Neither does handing back the jobs that failed.
LEMMA ReturnedType ==
    ASSUME TypeInv, NEW S \in SUBSET Job, Returned(S),
           \A j \in S : queue[j] = "running"
    PROVE  /\ queue' \in [Job -> JobState]
           /\ attempt' \in [Job -> 0 .. MaxAttempts]
           /\ step' \in [Job -> Step]
           /\ ctx' \in [Job -> Context]
           /\ page' \in [Job -> 0 .. MaxPage]
           /\ outcome' \in [Job -> Cause \cup Localized]
           /\ AttemptLeft' /\ OutcomeFits'
  <1>1. /\ step' \in [Job -> Step]
        /\ ctx' \in [Job -> Context]
        /\ page' \in [Job -> 0 .. MaxPage]
        /\ outcome' \in [Job -> Cause \cup Localized]
    BY PipelineConstants DEF TypeInv, TypeOK, Returned, Step, Context, Localized
  <1>2. /\ queue' \in [Job -> JobState]
        /\ attempt' \in [Job -> 0 .. MaxAttempts]
    BY PipelineConstants DEF TypeInv, TypeOK, Returned, JobState
  <1>3. AttemptLeft'
    <2> SUFFICES ASSUME NEW j \in Job
                 PROVE  /\ queue'[j] = "none" => attempt'[j] = 0
                        /\ queue'[j] = "queued" => attempt'[j] < MaxAttempts
      BY DEF AttemptLeft
    <2>1. CASE j \in S
      <3>1. attempt[j] \in Int /\ attempt[j] <= MaxAttempts /\ MaxAttempts \in Int
        BY PipelineConstants DEF TypeInv, TypeOK
      <3>2. /\ queue'[j] = IF attempt[j] < MaxAttempts THEN "queued" ELSE "none"
            /\ attempt'[j] = IF attempt[j] = MaxAttempts THEN 0 ELSE attempt[j]
        BY <2>1 DEF Returned
      <3> QED BY <3>1, <3>2
    <2>2. CASE j \notin S
      BY <2>2 DEF TypeInv, AttemptLeft, Returned
    <2> QED BY <2>1, <2>2
  <1>4. OutcomeFits'
    BY DEF TypeInv, OutcomeFits, Returned, TypeOK
  <1> QED BY <1>1, <1>2, <1>3, <1>4

LEMMA ClaimType ==
    ASSUME TypeInv, NEW j \in Job, NEW s \in Step \ {"fail", "update", "status"},
           Claim(j, s), outcome' = outcome
    PROVE  /\ queue' \in [Job -> JobState]
           /\ attempt' \in [Job -> 0 .. MaxAttempts]
           /\ step' \in [Job -> Step]
           /\ ctx' \in [Job -> Context]
           /\ AttemptLeft' /\ OutcomeFits'
  BY PipelineConstants
     DEF TypeInv, TypeOK, AttemptLeft, OutcomeFits, Claim, JobState, Context

\* The causes a request can end with, of which a recorded one is the page's.
LEMMA SettleCause ==
    ASSUME TypeInv, NEW j \in Job, NEW cause \in Ended(j), ~Interrupted(j)
    PROVE  cause \in OwnReason
  BY DEF Ended, Live, Interrupted, OwnReason, TypeInv, TypeOK, Context

\* Settling keeps the types of everything a job holds.
LEMMA SettleType ==
    ASSUME TypeInv, NEW j \in Job, queue[j] = "running", NEW cause, Settle(j, cause),
           ~Interrupted(j) => cause \in OwnReason
    PROVE  /\ queue' \in [Job -> JobState]
           /\ attempt' \in [Job -> 0 .. MaxAttempts]
           /\ step' \in [Job -> Step]
           /\ ctx' \in [Job -> Context]
           /\ page' \in [Job -> 0 .. MaxPage]
           /\ outcome' \in [Job -> Cause \cup Localized]
           /\ AttemptLeft' /\ OutcomeFits'
  <1>1. CASE Interrupted(j) /\ Returned({j})
    BY <1>1, ReturnedType
  <1>2. CASE /\ ~Interrupted(j)
             /\ Goes(j, "fail")
             /\ outcome' = [outcome EXCEPT ![j] = cause]
             /\ UNCHANGED <<queue, attempt, ctx, page>>
    BY <1>2 DEF Goes, OwnReason, TypeInv, TypeOK, Step, Cause, AttemptLeft, OutcomeFits
  <1> QED BY <1>1, <1>2 DEF Settle

LEMMA FetchStepType ==
    ASSUME TypeInv, NEW j \in Job, FetchStep(j)
    PROVE  TypeInv'
  <1> USE PipelineConstants, JobParts
      DEF TypeInv, TypeOK, At, Goes, rowVars, blobVars, jobVars, worldVars
  <1>1. CASE HandOffToBrowser(j)
    BY <1>1, InsertedType DEF HandOffToBrowser, Step, OutcomeFits
  <1>2. CASE GetPage(j)
    BY <1>2 DEF GetPage, Step, AttemptLeft, OutcomeFits
  <1>3. CASE GetFails(j)
    <2>1. PICK cause \in Ended(j) : Settle(j, cause)
      BY <1>3 DEF GetFails
    <2> QED BY <1>3, <2>1, SettleCause, SettleType DEF GetFails
  <1>4. CASE PutPage(j)
    BY <1>4 DEF PutPage, Step, AttemptLeft, OutcomeFits
  <1>5. CASE RecordFetchSuccess(j)
    BY <1>5 DEF RecordFetchSuccess, Step, FetchStatus, FetchError, AttemptLeft, OutcomeFits
  <1>6. CASE EnqueueExtraction(j)
    BY <1>6, InsertedType DEF EnqueueExtraction, Step, OutcomeFits
  <1>7. CASE RecordFetchFailure(j)
    <2>1. outcome[j] \in OwnReason
      BY <1>7 DEF RecordFetchFailure, OutcomeFits
    <2> QED
      BY <1>7, <2>1 DEF RecordFetchFailure, OwnReason, Step, FetchStatus, FetchError, Cause,
                       AssetsStatus, Localized, AttemptLeft, OutcomeFits
  <1>8. CASE SalvageFromFeed(j)
    BY <1>8, InsertedType DEF SalvageFromFeed, Step, AttemptLeft, OutcomeFits
  <1> QED BY <1>1, <1>2, <1>3, <1>4, <1>5, <1>6, <1>7, <1>8 DEF FetchStep

LEMMA RenderStepType ==
    ASSUME TypeInv, NEW j \in Job, RenderStep(j)
    PROVE  TypeInv'
  <1> USE PipelineConstants, JobParts
      DEF TypeInv, TypeOK, At, Goes, rowVars, blobVars, jobVars, worldVars
  <1>1. CASE Permit(j)
    <2>1. CASE Goes(j, "render") /\ UNCHANGED <<queue, attempt, ctx, page, outcome>>
      BY <1>1, <2>1 DEF Permit, Step, AttemptLeft, OutcomeFits
    <2>2. CASE Settle(j, "disallowed")
      BY <1>1, <2>2, SettleType DEF Permit, OwnReason
    <2> QED BY <1>1, <2>1, <2>2 DEF Permit
  <1>2. CASE RenderPage(j)
    BY <1>2 DEF RenderPage, Step, AttemptLeft, OutcomeFits
  <1>3. CASE RenderUnavailable(j)
    BY <1>3, ReturnedType DEF RenderUnavailable, FetchError
  <1>4. CASE RenderFails(j)
    <2>1. PICK cause \in Ended(j) : Settle(j, cause)
      BY <1>4 DEF RenderFails
    <2> QED BY <1>4, <2>1, SettleCause, SettleType DEF RenderFails
  <1> QED BY <1>1, <1>2, <1>3, <1>4 DEF RenderStep

LEMMA ExtractStepType ==
    ASSUME TypeInv, NEW j \in Job, ExtractStep(j)
    PROVE  TypeInv'
  <1> USE PipelineConstants, JobParts
      DEF TypeInv, TypeOK, At, Goes, rowVars, blobVars, jobVars, worldVars
  <1>1. CASE Extract(j)
    BY <1>1 DEF Extract, Step, AttemptLeft, OutcomeFits
  <1>2. CASE ExtractedNothing(j)
    <2>0. faults' \in 0 .. MaxFaults
      BY <1>2 DEF ExtractedNothing
    <2>1. CASE Settle(j, "empty")
      BY <1>2, <2>0, <2>1, SettleType DEF ExtractedNothing, OwnReason
    <2>2. CASE Goes(j, "done") /\ UNCHANGED <<queue, attempt, ctx, page, outcome>>
      BY <1>2, <2>0, <2>2 DEF ExtractedNothing, Step, AttemptLeft, OutcomeFits
    <2> QED BY <1>2, <2>1, <2>2 DEF ExtractedNothing
  <1>3. CASE InsertContent(j)
    BY <1>3 DEF InsertContent, Body, Step, AttemptLeft, OutcomeFits
  <1>4. CASE ClearExtractionFailure(j)
    BY <1>4 DEF ClearExtractionFailure, Step, FetchStatus, FetchError, AttemptLeft, OutcomeFits
  <1>5. CASE EnqueueLocalization(j)
    BY <1>5, InsertedType DEF EnqueueLocalization, Step, OutcomeFits
  <1> QED BY <1>1, <1>2, <1>3, <1>4, <1>5 DEF ExtractStep

LEMMA LocalizeStepType ==
    ASSUME TypeInv, NEW j \in Job, LocalizeStep(j)
    PROVE  TypeInv'
  <1> USE PipelineConstants, JobParts
      DEF TypeInv, TypeOK, At, Goes, rowVars, blobVars, jobVars, worldVars
  <1>1. CASE LocalizeImages(j)
    BY <1>1 DEF LocalizeImages, Localized, Step, AttemptLeft, OutcomeFits
  <1>2. CASE UpdateContentHTML(j)
    <2> DEFINE b == body[j.article]
               html == IF b.has THEN page[j] ELSE b.html
    <2>1. j.article \in Article /\ b \in Body /\ page[j] \in 0 .. MaxPage
      OBVIOUS
    <2>2. [b EXCEPT !.html = html] \in Body
      BY <2>1 DEF Body
    <2>3. body' = [body EXCEPT ![j.article] = [b EXCEPT !.html = html]]
      BY <1>2 DEF UpdateContentHTML
    <2>4. body' \in [Article -> Body]
      <3> HIDE DEF b, html
      <3> QED BY <2>2, <2>3
    <2> QED
      BY <1>2, <2>4 DEF UpdateContentHTML, Step, AttemptLeft, OutcomeFits
  <1>3. CASE SetAssetsStatus(j)
    <2>1. outcome[j] \in AssetsStatus
      BY <1>3 DEF SetAssetsStatus, OutcomeFits, AssetsStatus
    <2> QED
      BY <1>3, <2>1 DEF SetAssetsStatus, Localized, Step, AttemptLeft, OutcomeFits
  <1>4. CASE WriteFiles(j)
    BY <1>4 DEF WriteFiles, Step, AttemptLeft, OutcomeFits
  <1> QED BY <1>1, <1>2, <1>3, <1>4 DEF LocalizeStep

\* Claiming, refusing and finishing a job.
LEMMA JobType ==
    ASSUME TypeInv, NEW j \in Job, Start(j) \/ StatementRefused(j) \/ Finish(j)
    PROVE  TypeInv'
  <1> USE PipelineConstants, JobParts
      DEF TypeInv, TypeOK, At, Goes, rowVars, blobVars, jobVars, worldVars
  <1>1. CASE StartFetch(j)
    BY <1>1, ClaimType DEF StartFetch, Step
  <1>2. CASE StartRender(j)
    BY <1>2, ClaimType DEF StartRender, Step
  <1>3. CASE StartExtract(j)
    BY <1>3, ClaimType DEF StartExtract, Step
  <1>4. CASE StartLocalize(j)
    <2>1. page' \in [Job -> 0 .. MaxPage]
      BY <1>4 DEF StartLocalize, Body
    <2> QED BY <1>4, <2>1, ClaimType DEF StartLocalize, Step
  <1>5. CASE StatementRefused(j)
    BY <1>5, ReturnedType DEF StatementRefused
  <1>6. CASE Finish(j)
    BY <1>6 DEF Finish, JobState, Step, Context, Localized, AttemptLeft, OutcomeFits
  <1> QED BY <1>1, <1>2, <1>3, <1>4, <1>5, <1>6 DEF Start

\* The poll, the sweeps and what is asked for only enqueue; the rest of the
\* world changes nothing a job holds.
LEMMA OutsideType ==
    ASSUME TypeInv, Announce \/ Schedulers \/ Environment
    PROVE  TypeInv'
  <1> USE PipelineConstants DEF TypeInv, TypeOK, rowVars, blobVars, jobVars, worldVars
  <1>1. CASE Announce
    BY <1>1, InsertedType DEF Announce, OutcomeFits
  <1>2. CASE Schedulers
    <2>1. PICK kind, articles : Schedule(kind, articles)
      BY <1>2 DEF Schedulers, ScheduleFetches, ScheduleAssets, ScheduleReextraction
    <2> QED BY <2>1, InsertedType DEF Schedule, OutcomeFits
  <1>3. ASSUME NEW a \in Article, NEW carried \in BOOLEAN, Ingest(a, carried)
        PROVE  TypeInv'
    BY <1>3 DEF Ingest, AttemptLeft, OutcomeFits
  <1>4. ASSUME NEW a \in Article, Save(a) \/ CarryBody(a) \/ FlagDomain(a) \/ PageChanges(a)
        PROVE  TypeInv'
    <2>1. CASE Save(a)
      BY <1>4, <2>1 DEF Save, AttemptLeft, OutcomeFits
    <2>2. CASE CarryBody(a)
      BY <1>4, <2>2 DEF CarryBody, Flippable, AttemptLeft, OutcomeFits
    <2>3. CASE FlagDomain(a)
      BY <1>4, <2>3 DEF FlagDomain, Flippable, AttemptLeft, OutcomeFits
    <2>4. CASE PageChanges(a)
      BY <1>4, <2>4 DEF PageChanges, AttemptLeft, OutcomeFits
    <2> QED BY <1>4, <2>1, <2>2, <2>3, <2>4
  <1>5. ASSUME NEW a \in Article, NEW kind, Asked(kind, a)
        PROVE  TypeInv'
    <2>1. queue' \in [Job -> JobState] /\ AttemptLeft'
      BY <1>5, InsertedType DEF Asked
    <2>2. asks' \in 0 .. MaxAsks
      BY <1>5 DEF Asked
    <2> QED BY <1>5, <2>1, <2>2 DEF Asked, OutcomeFits
  <1>6. CASE BrowserChanges
    BY <1>6 DEF BrowserChanges, Flippable, AttemptLeft, OutcomeFits
  <1> QED
    BY <1>1, <1>2, <1>3, <1>4, <1>5, <1>6 DEF Environment, AskRefetch, AskReprocess

LEMMA FaultType ==
    ASSUME TypeInv, Fault
    PROVE  TypeInv'
  <1> USE PipelineConstants DEF TypeInv, TypeOK, rowVars, blobVars, jobVars, worldVars
  <1>1. CASE Shutdown
    BY <1>1 DEF Shutdown, Context, AttemptLeft, OutcomeFits
  <1>2. CASE Crash
    BY <1>2, ReturnedType DEF Crash
  <1>3. ASSUME NEW j \in Job, StatementFails(j)
        PROVE  TypeInv'
    BY <1>3, ReturnedType DEF StatementFails
  <1>4. ASSUME NEW j \in Job, Expire(j)
        PROVE  TypeInv'
    BY <1>4 DEF Expire, Context, AttemptLeft, OutcomeFits
  <1> QED BY <1>1, <1>2, <1>3, <1>4 DEF Fault

LEMMA TypeInvariant == Spec => []TypeInv
  <1>1. Init => TypeInv
    BY PipelineConstants
       DEF Init, TypeInv, TypeOK, AttemptLeft, OutcomeFits, FetchStatus, FetchError,
           AssetsStatus, Body, NoBody, JobState, Step, Context, Localized
  <1>2. TypeInv /\ [Next]_vars => TypeInv'
    <2> SUFFICES ASSUME TypeInv, [Next]_vars
                 PROVE  TypeInv'
      OBVIOUS
    <2>1. ASSUME NEW j \in Job, Start(j) \/ Proceed(j)
          PROVE  TypeInv'
      BY <2>1, FetchStepType, RenderStepType, ExtractStepType, LocalizeStepType, JobType
         DEF Proceed
    <2>2. CASE UNCHANGED vars
      BY <2>2 DEF vars, rowVars, blobVars, jobVars, worldVars, TypeInv, TypeOK,
                  AttemptLeft, OutcomeFits
    <2> QED BY <2>1, <2>2, OutsideType, FaultType DEF Next
  <1> QED BY <1>1, <1>2, PTL DEF Spec

\* The types and bounds of Pipeline hold in every reachable state: a job is
\* never worked on more than MaxAttempts times, and a row's status and reason
\* are never anything else than the statuses and the causes.
THEOREM TypeCorrect == Spec => []TypeOK
  BY TypeInvariant, PTL DEF TypeInv

-----------------------------------------------------------------------------
(* Statuses and reasons.  Four statements write them; OutcomeFits is why   *)
(* what RecordFetchFailure writes is the page's own.                       *)

\* Every other step leaves the status and the reason of every article alone.
LEMMA ReasonFrame ==
    ASSUME [Next]_vars,
           \A j \in Job : ~(\/ RecordFetchSuccess(j) \/ RecordFetchFailure(j)
                            \/ RenderUnavailable(j) \/ ClearExtractionFailure(j))
    PROVE  UNCHANGED <<fetchStatus, fetchError>>
  <1> USE DEF rowVars, blobVars, jobVars, worldVars
  <1>1. ASSUME NEW j \in Job, FetchStep(j)
        PROVE  UNCHANGED <<fetchStatus, fetchError>>
    BY <1>1 DEF FetchStep, HandOffToBrowser, GetPage, GetFails, PutPage, EnqueueExtraction,
                SalvageFromFeed
  <1>2. ASSUME NEW j \in Job, RenderStep(j)
        PROVE  UNCHANGED <<fetchStatus, fetchError>>
    BY <1>2 DEF RenderStep, Permit, RenderPage, RenderFails
  <1>3. ASSUME NEW j \in Job, ExtractStep(j)
        PROVE  UNCHANGED <<fetchStatus, fetchError>>
    BY <1>3 DEF ExtractStep, Extract, ExtractedNothing, InsertContent, EnqueueLocalization
  <1>4. ASSUME NEW j \in Job, LocalizeStep(j)
        PROVE  UNCHANGED <<fetchStatus, fetchError>>
    BY <1>4 DEF LocalizeStep, LocalizeImages, UpdateContentHTML, SetAssetsStatus, WriteFiles
  <1>5. ASSUME NEW j \in Job, Start(j) \/ StatementRefused(j) \/ Finish(j)
        PROVE  UNCHANGED <<fetchStatus, fetchError>>
    BY <1>5 DEF Start, StartFetch, StartRender, StartExtract, StartLocalize,
                StatementRefused, Finish
  <1>6. CASE Announce \/ Schedulers
    BY <1>6 DEF Announce, Schedulers, ScheduleFetches, ScheduleAssets, ScheduleReextraction,
                Schedule
  <1>7. CASE Environment
    BY <1>7 DEF Environment, Ingest, Save, CarryBody, FlagDomain, PageChanges, AskRefetch,
                AskReprocess, Asked, BrowserChanges
  <1>8. CASE Fault
    BY <1>8 DEF Fault, Shutdown, Crash, StatementFails, Expire
  <1>9. CASE UNCHANGED vars
    BY <1>9 DEF vars
  <1> QED BY <1>1, <1>2, <1>3, <1>4, <1>5, <1>6, <1>7, <1>8, <1>9 DEF Next, Proceed

\* A recorded status always comes with a reason of the page's own: a shutdown
\* or a missing browser is never written against an article as its failure.
THEOREM OwnReasons == Spec => []SettledForItsOwnReason
  <1>1. Init => SettledForItsOwnReason
    BY DEF Init, SettledForItsOwnReason
  <1>2. TypeInv /\ SettledForItsOwnReason /\ [Next]_vars => SettledForItsOwnReason'
    <2> SUFFICES ASSUME TypeInv, SettledForItsOwnReason, [Next]_vars
                 PROVE  SettledForItsOwnReason'
      OBVIOUS
    <2> USE JobParts DEF TypeInv, TypeOK, SettledForItsOwnReason
    <2>1. ASSUME NEW j \in Job, RecordFetchSuccess(j)
          PROVE  SettledForItsOwnReason'
      BY <2>1 DEF RecordFetchSuccess
    <2>2. ASSUME NEW j \in Job, RecordFetchFailure(j)
          PROVE  SettledForItsOwnReason'
      <3>1. outcome[j] \in OwnReason
        BY <2>2 DEF RecordFetchFailure, At, OutcomeFits
      <3> QED BY <2>2, <3>1 DEF RecordFetchFailure, OwnReason
    <2>3. ASSUME NEW j \in Job, RenderUnavailable(j)
          PROVE  SettledForItsOwnReason'
      BY <2>3 DEF RenderUnavailable
    <2>4. ASSUME NEW j \in Job, ClearExtractionFailure(j)
          PROVE  SettledForItsOwnReason'
      BY <2>4 DEF ClearExtractionFailure
    <2>5. CASE UNCHANGED <<fetchStatus, fetchError>>
      BY <2>5
    <2> QED BY <2>1, <2>2, <2>3, <2>4, <2>5, ReasonFrame
  <1> QED BY <1>1, <1>2, TypeInvariant, PTL DEF Spec

-----------------------------------------------------------------------------
(* Stored pages.  A fetch that reached "put" holds a page, and one that    *)
(* reached "record" has put it: a crash or an error between the two leaves *)
(* a page nobody names, never a name without a page.                       *)

PageInHand ==
    \A j \in Job : /\ step[j] = "put" => page[j] > 0
                   /\ step[j] = "record" => disk[j.article] > 0

PageInv == StoredPageIsReadable /\ PageInHand

\* A step that moves no job to "put" or "record" and leaves the pages of the
\* jobs that are there alone disturbs neither.
LEMMA PageFrame ==
    ASSUME TypeInv, PageInv, UNCHANGED <<disk, rawPath>>,
           \A j \in Job : step'[j] \in {"put", "record"} =>
                              step'[j] = step[j] /\ page'[j] = page[j]
    PROVE  PageInv'
  BY DEF PageInv, StoredPageIsReadable, PageInHand

LEMMA ReturnedPage ==
    ASSUME TypeInv, PageInv, NEW S \in SUBSET Job, Returned(S), UNCHANGED <<disk, rawPath>>
    PROVE  PageInv'
  <1> SUFFICES ASSUME NEW j \in Job, step'[j] \in {"put", "record"}
               PROVE  step'[j] = step[j] /\ page'[j] = page[j]
    BY PageFrame
  <1> QED BY DEF Returned, TypeInv, TypeOK

LEMMA SettlePage ==
    ASSUME TypeInv, PageInv, NEW j \in Job, NEW cause, Settle(j, cause),
           UNCHANGED <<disk, rawPath>>
    PROVE  PageInv'
  <1>1. CASE Returned({j})
    BY <1>1, ReturnedPage
  <1>2. CASE Goes(j, "fail") /\ UNCHANGED page
    BY <1>2, PageFrame DEF Goes, TypeInv, TypeOK
  <1> QED BY <1>1, <1>2 DEF Settle

LEMMA FetchStepPage ==
    ASSUME TypeInv, PageInv, NEW j \in Job, FetchStep(j)
    PROVE  PageInv'
  <1> USE PipelineConstants, JobParts
      DEF TypeInv, TypeOK, At, Goes, rowVars, blobVars, jobVars, worldVars
  <1>1. CASE GetPage(j)
    BY <1>1 DEF GetPage, PageInv, StoredPageIsReadable, PageInHand
  <1>2. CASE GetFails(j)
    BY <1>2, SettlePage DEF GetFails
  <1>3. CASE PutPage(j)
    BY <1>3 DEF PutPage, PageInv, StoredPageIsReadable, PageInHand
  <1>4. CASE RecordFetchSuccess(j)
    BY <1>4 DEF RecordFetchSuccess, PageInv, StoredPageIsReadable, PageInHand
  <1>5. CASE HandOffToBrowser(j) \/ EnqueueExtraction(j)
    BY <1>5, PageFrame DEF HandOffToBrowser, EnqueueExtraction
  <1>6. CASE RecordFetchFailure(j) \/ SalvageFromFeed(j)
    BY <1>6, PageFrame DEF RecordFetchFailure, SalvageFromFeed
  <1> QED BY <1>1, <1>2, <1>3, <1>4, <1>5, <1>6 DEF FetchStep

LEMMA WorkerStepPage ==
    ASSUME TypeInv, PageInv, NEW j \in Job, RenderStep(j) \/ ExtractStep(j) \/ LocalizeStep(j)
    PROVE  PageInv'
  <1> USE PipelineConstants, JobParts
      DEF TypeInv, TypeOK, At, Goes, rowVars, blobVars, jobVars, worldVars
  <1>1. CASE Permit(j)
    <2>1. CASE Goes(j, "render") /\ UNCHANGED page
      BY <1>1, <2>1, PageFrame DEF Permit
    <2>2. CASE Settle(j, "disallowed")
      BY <1>1, <2>2, SettlePage DEF Permit
    <2> QED BY <1>1, <2>1, <2>2 DEF Permit
  <1>2. CASE RenderPage(j)
    BY <1>2 DEF RenderPage, PageInv, StoredPageIsReadable, PageInHand
  <1>3. CASE RenderUnavailable(j)
    BY <1>3, ReturnedPage DEF RenderUnavailable
  <1>4. CASE RenderFails(j)
    BY <1>4, SettlePage DEF RenderFails
  <1>5. CASE ExtractedNothing(j)
    <2>1. CASE Goes(j, "done") /\ UNCHANGED page
      BY <1>5, <2>1, PageFrame DEF ExtractedNothing
    <2>2. CASE Settle(j, "empty")
      BY <1>5, <2>2, SettlePage DEF ExtractedNothing
    <2> QED BY <1>5, <2>1, <2>2 DEF ExtractedNothing
  <1>6. CASE Extract(j)
    BY <1>6, PageFrame DEF Extract
  <1>7. CASE InsertContent(j)
    BY <1>7, PageFrame DEF InsertContent
  <1>8. CASE ClearExtractionFailure(j) \/ EnqueueLocalization(j)
    BY <1>8, PageFrame DEF ClearExtractionFailure, EnqueueLocalization
  <1>9. CASE LocalizeStep(j)
    <2>1. CASE LocalizeImages(j)
      BY <2>1, PageFrame DEF LocalizeImages
    <2>2. CASE UpdateContentHTML(j)
      BY <2>2, PageFrame DEF UpdateContentHTML
    <2>3. CASE SetAssetsStatus(j) \/ WriteFiles(j)
      BY <2>3, PageFrame DEF SetAssetsStatus, WriteFiles
    <2> QED BY <1>9, <2>1, <2>2, <2>3 DEF LocalizeStep
  <1> QED
    BY <1>1, <1>2, <1>3, <1>4, <1>5, <1>6, <1>7, <1>8, <1>9 DEF RenderStep, ExtractStep

LEMMA JobPage ==
    ASSUME TypeInv, PageInv, NEW j \in Job, Start(j) \/ StatementRefused(j) \/ Finish(j)
    PROVE  PageInv'
  <1> USE JobParts DEF TypeInv, TypeOK, At, Goes, rowVars, blobVars, jobVars, worldVars
  <1>1. CASE StartFetch(j)
    BY <1>1, PageFrame DEF StartFetch, Claim
  <1>2. CASE StartRender(j)
    BY <1>2, PageFrame DEF StartRender, Claim
  <1>3. CASE StartExtract(j)
    BY <1>3, PageFrame DEF StartExtract, Claim
  <1>4. CASE StartLocalize(j)
    BY <1>4, PageFrame DEF StartLocalize, Claim
  <1>5. CASE StatementRefused(j)
    BY <1>5, ReturnedPage DEF StatementRefused
  <1>6. CASE Finish(j)
    BY <1>6, PageFrame DEF Finish
  <1> QED BY <1>1, <1>2, <1>3, <1>4, <1>5, <1>6 DEF Start

\* No step outside a job moves a job, except to hand it back.
LEMMA OutsidePage ==
    ASSUME TypeInv, PageInv, Announce \/ Schedulers \/ Environment \/ Fault
    PROVE  PageInv'
  <1> USE DEF rowVars, blobVars, jobVars, worldVars
  <1>1. CASE Crash
    BY <1>1, ReturnedPage DEF Crash
  <1>2. ASSUME NEW j \in Job, StatementFails(j)
        PROVE  PageInv'
    BY <1>2, ReturnedPage DEF StatementFails
  <1>3. CASE UNCHANGED <<disk, rawPath, step, page>>
    BY <1>3, PageFrame
  <1>4. CASE Announce \/ Schedulers
    BY <1>3, <1>4 DEF Announce, Schedulers, ScheduleFetches, ScheduleAssets,
                      ScheduleReextraction, Schedule
  <1>5. CASE Environment
    BY <1>3, <1>5 DEF Environment, Ingest, Save, CarryBody, FlagDomain, PageChanges,
                      AskRefetch, AskReprocess, Asked, BrowserChanges
  <1>6. CASE Shutdown \/ \E j \in Job : Expire(j)
    BY <1>3, <1>6 DEF Shutdown, Expire
  <1> QED BY <1>1, <1>2, <1>4, <1>5, <1>6 DEF Fault

\* A row that names a stored page names one that is on the disk, wherever a
\* crash, a deadline, a shutdown or an error cuts the jobs that wrote them.
THEOREM StoredPages == Spec => []StoredPageIsReadable
  <1>1. Init => PageInv
    BY DEF Init, PageInv, StoredPageIsReadable, PageInHand
  <1>2. TypeInv /\ PageInv /\ [Next]_vars => PageInv'
    <2> SUFFICES ASSUME TypeInv, PageInv, [Next]_vars
                 PROVE  PageInv'
      OBVIOUS
    <2>1. ASSUME NEW j \in Job, Start(j) \/ Proceed(j)
          PROVE  PageInv'
      BY <2>1, FetchStepPage, WorkerStepPage, JobPage DEF Proceed
    <2>2. CASE UNCHANGED vars
      BY <2>2 DEF vars, rowVars, blobVars, jobVars, PageInv, StoredPageIsReadable, PageInHand
    <2> QED BY <2>1, <2>2, OutsidePage DEF Next
  <1> QED BY <1>1, <1>2, TypeInvariant, PTL DEF Spec, PageInv

-----------------------------------------------------------------------------
(* Where nothing fails: no context ends before its job, so no job is       *)
(* handed back but by a browser that is not there.                         *)

Calm == \A j \in Job : ctx[j] = "live"

LEMMA CalmSettle ==
    ASSUME Calm, NEW j \in Job, NEW cause, Settle(j, cause)
    PROVE  /\ Goes(j, "fail") /\ outcome' = [outcome EXCEPT ![j] = cause]
           /\ UNCHANGED <<queue, attempt, ctx, page>>
  BY DEF Calm, Settle, Interrupted

LEMMA CalmSteps ==
    ASSUME MaxFaults = 0, TypeInv, Calm, [Next]_vars
    PROVE  \/ Announce \/ Schedulers \/ Environment \/ UNCHANGED vars
           \/ \E j \in Job : Start(j) \/ Finish(j) \/ FetchStep(j) \/ RenderStep(j)
                                \/ ExtractStep(j) \/ LocalizeStep(j)
  <1>1. ~(faults < MaxFaults)
    BY DEF TypeInv, TypeOK
  <1>2. ~Fault
    BY <1>1 DEF Fault, Shutdown, Crash, StatementFails, Expire
  <1>3. \A j \in Job : ~StatementRefused(j)
    BY DEF StatementRefused, Live, Calm
  <1> QED BY <1>2, <1>3 DEF Next, Proceed

LEMMA CalmStays ==
    ASSUME MaxFaults = 0, TypeInv, Calm, [Next]_vars
    PROVE  Calm'
  <1> USE DEF Calm, rowVars, blobVars, jobVars, worldVars
  <1>1. ASSUME UNCHANGED ctx PROVE Calm'
    BY <1>1
  <1>2. ASSUME NEW S, Returned(S) PROVE Calm'
    BY <1>2 DEF Returned, TypeInv, TypeOK
  <1>3. ASSUME NEW j \in Job, NEW s, Claim(j, s) PROVE Calm'
    BY <1>3 DEF Claim, TypeInv, TypeOK
  <1>4. ASSUME NEW j \in Job, NEW cause, Settle(j, cause) PROVE Calm'
    BY <1>1, <1>4, CalmSettle
  <1>5. CASE Announce \/ Schedulers \/ Environment \/ UNCHANGED vars
    BY <1>1, <1>5 DEF Announce, Schedulers, ScheduleFetches, ScheduleAssets, ScheduleReextraction,
                      Schedule, Environment, Ingest, Save, CarryBody, FlagDomain, PageChanges,
                      AskRefetch, AskReprocess, Asked, BrowserChanges, vars
  <1>6. ASSUME NEW j \in Job, Start(j) PROVE Calm'
    BY <1>3, <1>6 DEF Start, StartFetch, StartRender, StartExtract, StartLocalize
  <1>7. ASSUME NEW j \in Job, Finish(j) PROVE Calm'
    BY <1>7 DEF Finish, TypeInv, TypeOK
  <1>8. ASSUME NEW j \in Job, FetchStep(j) PROVE Calm'
    BY <1>1, <1>4, <1>8 DEF FetchStep, HandOffToBrowser, GetPage, GetFails, PutPage, RecordFetchSuccess,
                            EnqueueExtraction, RecordFetchFailure, SalvageFromFeed
  <1>9. ASSUME NEW j \in Job, RenderStep(j) PROVE Calm'
    BY <1>1, <1>2, <1>4, <1>9 DEF RenderStep, Permit, RenderPage, RenderUnavailable, RenderFails
  <1>10. ASSUME NEW j \in Job, ExtractStep(j) \/ LocalizeStep(j) PROVE Calm'
    BY <1>1, <1>4, <1>10 DEF ExtractStep, Extract, ExtractedNothing, InsertContent, ClearExtractionFailure,
                            EnqueueLocalization, LocalizeStep, LocalizeImages, UpdateContentHTML,
                            SetAssetsStatus, WriteFiles
  <1> QED BY <1>5, <1>6, <1>7, <1>8, <1>9, <1>10, CalmSteps

LEMMA CalmAtFirst == Init => Calm
  BY DEF Init, Calm

-----------------------------------------------------------------------------
(* Fetched pages.  From the row's "ok" until the body is there some job of *)
(* the article is about to enqueue an extraction, or is one; and one that  *)
(* is skipped because another is outstanding loses nothing, since that one *)
(* has inserted a body or is yet to.                                       *)

\* An extraction is of a page that is stored or of a feed's body, and past its
\* insertion the article has a body.
ExtractFits(j) ==
    LET a == j.article IN
    /\ queue[j] = "running" /\ step[j] = "extract" => rawPath[a]
    /\ queue[j] = "running" /\ step[j] = "clear" => body[a].has
    /\ j.kind \in ExtractKind /\ queue[j] = "queued" => rawPath[a] \/ feedBody[a]
    /\ j.kind \in ExtractKind /\ queue[j] = "running" =>
          /\ step[j] \in {"page", "nopage", "insert", "clear", "localize", "done"}
          /\ step[j] = "page" => rawPath[a]
          /\ step[j] = "nopage" => feedBody[a]
          /\ step[j] \in {"clear", "localize", "done"} => body[a].has

Delivers(j) ==
    queue[j] # "none" /\ (j.kind \in ExtractKind \/ (queue[j] = "running" /\ step[j] = "extract"))

UnderWay(a) ==
    fetchStatus[a] = "ok" =>
        rawPath[a] /\ (body[a].has \/ \E j \in Job : j.article = a /\ Delivers(j))

ExtractInv == (\A j \in Job : ExtractFits(j)) /\ \A a \in Article : UnderWay(a)

\* What is stored, carried and extracted stays so.
Grows ==
    \A a \in Article : /\ rawPath[a] => rawPath'[a]
                       /\ feedBody[a] => feedBody'[a]
                       /\ body[a].has => body'[a].has

\* A job that does not move, though it may be enqueued.
Unmoved(k) ==
    /\ step'[k] = step[k]
    /\ \/ queue'[k] = queue[k]
       \/ /\ queue[k] = "none" /\ queue'[k] = "queued"
          /\ k.kind \in ExtractKind => rawPath'[k.article] \/ feedBody'[k.article]

LEMMA UnmovedFits ==
    ASSUME Grows, NEW k \in Job, ExtractFits(k), Unmoved(k)
    PROVE  ExtractFits(k)' /\ (Delivers(k) => Delivers(k)')
  <1>1. k.article \in Article
    BY JobParts
  <1> QED BY <1>1 DEF Grows, Unmoved, ExtractFits, Delivers

\* One job moves, and if it was to deliver a body it or another still is, or has.
LEMMA ExtractFrame ==
    ASSUME ExtractInv, Grows, NEW j \in Job, \A k \in Job \ {j} : Unmoved(k),
           ExtractFits(j)',
           Delivers(j) => body'[j.article].has \/ \E k \in Job : k.article = j.article /\ Delivers(k)',
           \A a \in Article : fetchStatus'[a] = "ok" =>
              \/ fetchStatus[a] = "ok"
              \/ rawPath'[a] /\ (body'[a].has \/ \E k \in Job : k.article = a /\ Delivers(k)')
    PROVE  ExtractInv'
  <1>1. \A k \in Job \ {j} : ExtractFits(k)' /\ (Delivers(k) => Delivers(k)')
    BY UnmovedFits DEF ExtractInv
  <1>2. ASSUME NEW a \in Article, fetchStatus[a] = "ok"
        PROVE  rawPath'[a] /\ (body'[a].has \/ \E k \in Job : k.article = a /\ Delivers(k)')
    <2>1. rawPath[a] /\ (body[a].has \/ \E k \in Job : k.article = a /\ Delivers(k))
      BY <1>2 DEF ExtractInv, UnderWay
    <2>2. CASE body[a].has
      BY <2>1, <2>2 DEF Grows
    <2>3. ASSUME NEW k \in Job, k.article = a, Delivers(k)
          PROVE  body'[a].has \/ \E i \in Job : i.article = a /\ Delivers(i)'
      <3>1. CASE k = j
        BY <2>3, <3>1
      <3>2. CASE k # j
        BY <1>1, <2>3, <3>2
      <3> QED BY <3>1, <3>2
    <2> QED BY <2>1, <2>2, <2>3 DEF Grows
  <1>3. \A a \in Article : UnderWay(a)'
    BY <1>2 DEF UnderWay
  <1> QED BY <1>1, <1>3 DEF ExtractInv

\* No job moves.
LEMMA EnqueueFrame ==
    ASSUME ExtractInv, Grows, \A k \in Job : Unmoved(k), UNCHANGED fetchStatus
    PROVE  ExtractInv'
  <1>1. \A k \in Job : ExtractFits(k)' /\ (Delivers(k) => Delivers(k)')
    BY UnmovedFits DEF ExtractInv
  <1>2. \A a \in Article : UnderWay(a)'
    BY <1>1 DEF ExtractInv, UnderWay, Grows
  <1> QED BY <1>1, <1>2 DEF ExtractInv


\* A job that is not at "extract" and no extraction goes on, and stores and enqueues
\* nothing of the kind.
LEMMA ExtractAside ==
    ASSUME TypeInv, ExtractInv, NEW j \in Job, j.kind \notin ExtractKind, step[j] # "extract",
           NEW t \in Step \ {"extract", "clear"}, Goes(j, t), Grows,
           \A k \in Job \ {j} : queue'[k] = queue[k] \/ (queue[k] = "none" /\ queue'[k] = "queued"
                                                         /\ k.kind \notin ExtractKind),
           \A a \in Article : fetchStatus'[a] = "ok" => fetchStatus[a] = "ok"
    PROVE  ExtractInv'
  <1>1. step'[j] = t /\ \A k \in Job \ {j} : step'[k] = step[k]
    BY DEF Goes, TypeInv, TypeOK
  <1>2. ExtractFits(j)' /\ ~Delivers(j)
    BY <1>1 DEF ExtractFits, Delivers
  <1>3. \A k \in Job \ {j} : Unmoved(k)
    BY <1>1 DEF Unmoved
  <1> QED BY <1>2, <1>3, ExtractFrame

LEMMA NoExtraction ==
    ASSUME ExtractInv, NEW j \in Job,
           At(j, "handoff") \/ At(j, "get") \/ At(j, "put") \/ At(j, "record") \/ At(j, "fail") \/ At(j, "salvage")
             \/ At(j, "permit") \/ At(j, "render") \/ At(j, "images") \/ At(j, "update") \/ At(j, "status")
             \/ At(j, "files") \/ At(j, "nothing") \/ At(j, "extract")
    PROVE  j.kind \notin ExtractKind
  BY DEF ExtractInv, ExtractFits, At

LEMMA KindsApart == "render" \notin ExtractKind /\ "localize" \notin ExtractKind /\ "fetch" \notin ExtractKind
                    /\ "refetch" \notin ExtractKind /\ "extract" \in ExtractKind /\ "force" \in ExtractKind
  BY DEF ExtractKind

LEMMA Enqueued ==
    ASSUME TypeInv, NEW kind \in Kind, NEW a \in Article, queue' = Inserted({J(kind, a)})
    PROVE  /\ \A k \in Job : queue'[k] = queue[k]
                                 \/ (queue[k] = "none" /\ queue'[k] = "queued" /\ k.kind = kind /\ k.article = a)
           /\ J(kind, a) \in Job /\ J(kind, a).kind = kind /\ J(kind, a).article = a
           /\ queue'[J(kind, a)] # "none"
           /\ queue[J(kind, a)] # "none" => queue'[J(kind, a)] = queue[J(kind, a)]
  BY DEF Inserted, TypeInv, TypeOK, J, Job, JobState

LEMMA FetchStepExtracts ==
    ASSUME TypeInv, Calm, ExtractInv, NEW j \in Job, FetchStep(j)
    PROVE  ExtractInv'
  <1> USE JobParts DEF rowVars, blobVars, jobVars, worldVars
  <1>1. CASE HandOffToBrowser(j)
    <2>1. \A k \in Job : queue'[k] = queue[k] \/ (queue[k] = "none" /\ queue'[k] = "queued" /\ k.kind = "render")
      BY <1>1, Enqueued DEF HandOffToBrowser, Kind
    <2> QED BY <1>1, <2>1, NoExtraction, KindsApart, ExtractAside DEF HandOffToBrowser, At, Step, Grows
  <1>2. CASE GetPage(j)
    BY <1>2, NoExtraction, ExtractAside DEF GetPage, At, Step, Grows
  <1>3. CASE GetFails(j)
    <2>1. PICK cause : Settle(j, cause)
      BY <1>3 DEF GetFails
    <2> QED BY <1>3, <2>1, CalmSettle, NoExtraction, ExtractAside DEF GetFails, At, Step, Grows
  <1>4. CASE PutPage(j)
    BY <1>4, NoExtraction, ExtractAside DEF PutPage, At, Step, Grows
  <1>5. CASE RecordFetchSuccess(j)
    <2>1. j.kind \notin ExtractKind /\ queue[j] = "running"
      BY <1>5, NoExtraction DEF RecordFetchSuccess, At
    <2>2. step' = [step EXCEPT ![j] = "extract"] /\ queue' = queue /\ feedBody' = feedBody /\ body' = body
          /\ rawPath' = [rawPath EXCEPT ![j.article] = TRUE]
          /\ fetchStatus' = [fetchStatus EXCEPT ![j.article] = "ok"]
      BY <1>5 DEF RecordFetchSuccess, Goes
    <2>3. Grows /\ (\A k \in Job \ {j} : Unmoved(k)) /\ step'[j] = "extract" /\ rawPath'[j.article]
          /\ \A a \in Article : a # j.article => fetchStatus'[a] = fetchStatus[a]
      BY <2>2 DEF Grows, Unmoved, TypeInv, TypeOK
    <2>4. ExtractFits(j)' /\ Delivers(j)'
      BY <2>1, <2>2, <2>3 DEF ExtractFits, Delivers
    <2> QED BY <2>3, <2>4, ExtractFrame
  <1>6. CASE EnqueueExtraction(j)
    <2>0. PICK kind \in ExtractKind, a \in Article : a = j.article /\ queue' = Inserted({J(kind, a)})
      BY <1>6, KindsApart DEF EnqueueExtraction
    <2>1. /\ kind \in Kind /\ a = j.article
          /\ At(j, "extract") /\ Goes(j, "done") /\ UNCHANGED <<fetchStatus, rawPath, feedBody, body>>
      BY <1>6, <2>0 DEF EnqueueExtraction, Kind
    <2>2. j.kind \notin ExtractKind /\ rawPath[a]
      BY <2>1, NoExtraction DEF ExtractInv, ExtractFits, At
    <2>3. /\ \A k \in Job : queue'[k] = queue[k]
                               \/ (queue[k] = "none" /\ queue'[k] = "queued" /\ k.kind = kind /\ k.article = a)
          /\ J(kind, a) \in Job /\ J(kind, a).kind = kind /\ J(kind, a).article = a
          /\ queue'[J(kind, a)] # "none"
      BY <2>0, <2>1, Enqueued
    <2>4. step'[j] = "done" /\ \A k \in Job \ {j} : step'[k] = step[k]
      BY <2>1 DEF Goes, TypeInv, TypeOK
    <2>5. Grows /\ \A k \in Job \ {j} : Unmoved(k)
      BY <2>1, <2>2, <2>3, <2>4 DEF Grows, Unmoved
    <2>6. Delivers(J(kind, a))'
      BY <2>1, <2>3 DEF Delivers
    <2>7. ExtractFits(j)'
      BY <2>2, <2>4 DEF ExtractFits
    <2> QED BY <2>1, <2>3, <2>5, <2>6, <2>7, ExtractFrame
  <1>7. CASE RecordFetchFailure(j)
    <2>1. j.kind \notin ExtractKind /\ step[j] # "extract" /\ queue' = queue /\ Goes(j, "salvage")
          /\ UNCHANGED <<rawPath, feedBody, body>>
      BY <1>7, NoExtraction DEF RecordFetchFailure, At
    <2>2. \A a \in Article : fetchStatus'[a] = "ok" => fetchStatus[a] = "ok"
      BY <1>7 DEF RecordFetchFailure, TypeInv, TypeOK
    <2> QED BY <2>1, <2>2, ExtractAside DEF Step, Grows
  <1>8. CASE SalvageFromFeed(j)
    <2>1. j.kind \notin ExtractKind /\ step[j] = "salvage" /\ Goes(j, "done")
          /\ UNCHANGED <<fetchStatus, rawPath, feedBody, body>>
      BY <1>8, NoExtraction DEF SalvageFromFeed, At
    <2>2. \A k \in Job : queue'[k] = queue[k] \/ (queue[k] = "none" /\ queue'[k] = "queued" /\ feedBody[k.article])
      <3>1. CASE ~feedBody[j.article]
        BY <1>8, <3>1 DEF SalvageFromFeed, Inserted, TypeInv, TypeOK
      <3>2. CASE feedBody[j.article] /\ queue' = Inserted({J("extract", j.article)})
        <4>1. "extract" \in Kind
          BY DEF Kind, ExtractKind
        <4>2. \A k \in Job : queue'[k] = queue[k]
                                \/ (queue[k] = "none" /\ queue'[k] = "queued" /\ k.kind = "extract" /\ k.article = j.article)
          BY <3>2, <4>1, Enqueued
        <4> QED BY <3>2, <4>2
      <3> QED BY <1>8, <3>1, <3>2 DEF SalvageFromFeed
    <2>3. step'[j] = "done" /\ \A k \in Job \ {j} : step'[k] = step[k]
      BY <2>1 DEF Goes, TypeInv, TypeOK
    <2>4. Grows /\ \A k \in Job \ {j} : Unmoved(k)
      BY <2>1, <2>2, <2>3 DEF Grows, Unmoved
    <2>5. ExtractFits(j)' /\ ~Delivers(j)
      BY <2>1, <2>3 DEF ExtractFits, Delivers
    <2> QED BY <2>1, <2>4, <2>5, ExtractFrame
  <1> QED BY <1>1, <1>2, <1>3, <1>4, <1>5, <1>6, <1>7, <1>8 DEF FetchStep


LEMMA RenderStepExtracts ==
    ASSUME TypeInv, Calm, ExtractInv, NEW j \in Job, RenderStep(j)
    PROVE  ExtractInv'
  <1> USE JobParts DEF rowVars, blobVars, jobVars, worldVars
  <1>1. CASE Permit(j)
    <2>1. CASE Goes(j, "render") /\ UNCHANGED <<queue, attempt, ctx, page, outcome>>
      BY <1>1, <2>1, NoExtraction, ExtractAside DEF Permit, At, Step, Grows
    <2>2. CASE Settle(j, "disallowed")
      BY <1>1, <2>2, CalmSettle, NoExtraction, ExtractAside DEF Permit, At, Step, Grows
    <2> QED BY <1>1, <2>1, <2>2 DEF Permit
  <1>2. CASE RenderPage(j)
    BY <1>2, NoExtraction, ExtractAside DEF RenderPage, At, Step, Grows
  <1>3. CASE RenderUnavailable(j)
    <2>1. j.kind \notin ExtractKind /\ step[j] = "render" /\ Returned({j})
          /\ UNCHANGED <<fetchStatus, rawPath, feedBody, body>>
      BY <1>3, NoExtraction DEF RenderUnavailable, At
    <2>2. step'[j] = "idle" /\ \A k \in Job \ {j} : step'[k] = step[k] /\ queue'[k] = queue[k]
      BY <2>1 DEF Returned, TypeInv, TypeOK
    <2>3. Grows /\ \A k \in Job \ {j} : Unmoved(k)
      BY <2>1, <2>2 DEF Grows, Unmoved
    <2>4. ExtractFits(j)' /\ ~Delivers(j)
      BY <2>1, <2>2 DEF ExtractFits, Delivers
    <2> QED BY <2>1, <2>3, <2>4, ExtractFrame
  <1>4. CASE RenderFails(j)
    <2>1. PICK cause : Settle(j, cause)
      BY <1>4 DEF RenderFails
    <2> QED BY <1>4, <2>1, CalmSettle, NoExtraction, ExtractAside DEF RenderFails, At, Step, Grows
  <1> QED BY <1>1, <1>2, <1>3, <1>4 DEF RenderStep

\* Every page has something to extract, so an extraction ends in a body.
LEMMA ExtractStepExtracts ==
    ASSUME Extractable = 1 .. MaxPage, TypeInv, Calm, ExtractInv, NEW j \in Job, ExtractStep(j)
    PROVE  ExtractInv'
  <1> USE JobParts DEF rowVars, blobVars, jobVars, worldVars
  <1>0. ExtractFits(j)
    BY DEF ExtractInv
  <1>1. CASE Extract(j)
    <2>0. disk[j.article] > 0 => disk[j.article] \in Extractable
      <3>1. disk[j.article] \in 0 .. MaxPage /\ MaxPage \in Nat
        BY PipelineConstants DEF TypeInv, TypeOK
      <3> QED BY <3>1
    <2>1. /\ queue[j] = "running" /\ UNCHANGED <<queue, fetchStatus, rawPath, feedBody, body>>
          /\ At(j, "page") /\ disk[j.article] > 0 => Goes(j, "insert")
          /\ At(j, "nopage") /\ feedBody[j.article] => Goes(j, "insert")
          /\ (At(j, "page") /\ disk[j.article] > 0) \/ At(j, "nopage")
          /\ step[j] \in {"page", "nopage"}
      BY <1>1, <2>0 DEF Extract, At
    <2>2. CASE Goes(j, "insert")
      <3>1. step'[j] = "insert" /\ \A k \in Job \ {j} : step'[k] = step[k]
        BY <2>2 DEF Goes, TypeInv, TypeOK
      <3>2. Grows /\ \A k \in Job \ {j} : Unmoved(k)
        BY <2>1, <3>1 DEF Grows, Unmoved
      <3>3. ExtractFits(j)' /\ (Delivers(j) => Delivers(j)')
        BY <2>1, <3>1 DEF ExtractFits, Delivers
      <3> QED BY <2>1, <3>2, <3>3, ExtractFrame
    <2>3. CASE ~Goes(j, "insert")
      <3>1. step[j] = "nopage" /\ j.kind \notin ExtractKind
        BY <1>0, <2>1, <2>3 DEF ExtractFits, At
      <3>2. PICK t \in {"insert", "nothing"} : Goes(j, t)
        BY <1>1 DEF Extract
      <3> QED BY <2>1, <3>1, <3>2, ExtractAside DEF Step, Grows
    <2> QED BY <2>2, <2>3
  <1>2. CASE ExtractedNothing(j)
    <2>1. j.kind \notin ExtractKind /\ step[j] = "nothing" /\ UNCHANGED <<fetchStatus, rawPath, feedBody, body>>
      BY <1>2, NoExtraction DEF ExtractedNothing, At
    <2>2. PICK t \in {"done", "fail"} : Goes(j, t) /\ queue' = queue
      BY <1>2, CalmSettle DEF ExtractedNothing
    <2> QED BY <2>1, <2>2, ExtractAside DEF Step, Grows
  <1>3. CASE InsertContent(j)
    <2>1. /\ body' = [body EXCEPT ![j.article] = [has |-> TRUE, from |-> page[j], html |-> page[j]]]
          /\ step' = [step EXCEPT ![j] = "clear"] /\ queue[j] = "running"
          /\ UNCHANGED <<queue, fetchStatus, rawPath, feedBody>>
      BY <1>3 DEF InsertContent, At, Goes
    <2>2. /\ body'[j.article].has /\ step'[j] = "clear"
          /\ \A a \in Article : a # j.article => body'[a] = body[a]
          /\ \A k \in Job \ {j} : step'[k] = step[k]
      BY <2>1 DEF TypeInv, TypeOK
    <2>3. Grows /\ \A k \in Job \ {j} : Unmoved(k)
      BY <2>1, <2>2 DEF Grows, Unmoved
    <2>4. ExtractFits(j)'
      BY <2>1, <2>2 DEF ExtractFits
    <2> QED BY <2>1, <2>2, <2>3, <2>4, ExtractFrame
  <1>4. CASE ClearExtractionFailure(j)
    <2>1. /\ step' = [step EXCEPT ![j] = "localize"] /\ queue[j] = "running" /\ body[j.article].has
          /\ UNCHANGED <<queue, rawPath, feedBody, body>>
      BY <1>0, <1>4 DEF ClearExtractionFailure, At, Goes, ExtractFits
    <2>2. step'[j] = "localize" /\ \A k \in Job \ {j} : step'[k] = step[k]
      BY <2>1 DEF TypeInv, TypeOK
    <2>3. \A a \in Article : fetchStatus'[a] = "ok" => fetchStatus[a] = "ok" \/ (a = j.article /\ rawPath[a])
      BY <1>4 DEF ClearExtractionFailure, TypeInv, TypeOK
    <2>4. Grows /\ \A k \in Job \ {j} : Unmoved(k)
      BY <2>1, <2>2 DEF Grows, Unmoved
    <2>5. ExtractFits(j)'
      BY <2>1, <2>2 DEF ExtractFits
    <2> QED BY <2>1, <2>3, <2>4, <2>5, ExtractFrame
  <1>5. CASE EnqueueLocalization(j)
    <2>1. /\ step' = [step EXCEPT ![j] = "done"] /\ queue[j] = "running" /\ step[j] = "localize"
          /\ queue' = Inserted({J("localize", j.article)})
          /\ UNCHANGED <<fetchStatus, rawPath, feedBody, body>>
      BY <1>5 DEF EnqueueLocalization, At, Goes
    <2>2. \A k \in Job : queue'[k] = queue[k] \/ (queue[k] = "none" /\ queue'[k] = "queued" /\ k.kind = "localize")
      BY <2>1 DEF Inserted, J, TypeInv, TypeOK
    <2>3. step'[j] = "done" /\ \A k \in Job \ {j} : step'[k] = step[k]
      BY <2>1 DEF TypeInv, TypeOK
    <2>4. Grows /\ \A k \in Job \ {j} : Unmoved(k)
      BY <2>1, <2>2, <2>3, KindsApart DEF Grows, Unmoved
    <2>5. ExtractFits(j)' /\ (Delivers(j) => body'[j.article].has)
      BY <1>0, <2>1, <2>2, <2>3 DEF ExtractFits, Delivers
    <2> QED BY <2>1, <2>4, <2>5, ExtractFrame
  <1> QED BY <1>1, <1>2, <1>3, <1>4, <1>5 DEF ExtractStep

LEMMA LocalizeStepExtracts ==
    ASSUME TypeInv, ExtractInv, NEW j \in Job, LocalizeStep(j)
    PROVE  ExtractInv'
  <1> USE JobParts DEF rowVars, blobVars, jobVars, worldVars
  <1>1. CASE LocalizeImages(j)
    <2>1. PICK t \in {"status", "update"} : Goes(j, t)
      BY <1>1 DEF LocalizeImages
    <2> QED BY <1>1, <2>1, NoExtraction, ExtractAside DEF LocalizeImages, At, Step, Grows
  <1>2. CASE UpdateContentHTML(j)
    <2>1. \A a \in Article : body'[a].has = body[a].has
      <3> DEFINE b == body[j.article]
      <3>1. b \in Body
        BY DEF TypeInv, TypeOK
      <3>2. PICK html : body' = [body EXCEPT ![j.article] = [b EXCEPT !.html = html]]
        BY <1>2 DEF UpdateContentHTML
      <3>3. [b EXCEPT !.html = html].has = b.has
        BY <3>1 DEF Body
      <3> HIDE DEF b
      <3> QED BY <3>2, <3>3 DEF b, TypeInv, TypeOK
    <2> QED BY <1>2, <2>1, NoExtraction, ExtractAside DEF UpdateContentHTML, At, Step, Grows
  <1>3. CASE SetAssetsStatus(j)
    BY <1>3, NoExtraction, ExtractAside DEF SetAssetsStatus, At, Step, Grows
  <1>4. CASE WriteFiles(j)
    BY <1>4, NoExtraction, ExtractAside DEF WriteFiles, At, Step, Grows
  <1> QED BY <1>1, <1>2, <1>3, <1>4 DEF LocalizeStep

LEMMA JobExtracts ==
    ASSUME TypeInv, ExtractInv, NEW j \in Job, Start(j) \/ Finish(j)
    PROVE  ExtractInv'
  <1> USE JobParts DEF rowVars, blobVars, jobVars, worldVars
  <1>0. ExtractFits(j)
    BY DEF ExtractInv
  <1>1. ASSUME Start(j) PROVE ExtractInv'
    <2>1. PICK s : /\ Claim(j, s)
                   /\ j.kind \notin ExtractKind => s \notin {"extract", "clear"}
                   /\ j.kind \in ExtractKind => s = IF j.kind = "extract" /\ body[j.article].has THEN "done"
                                                    ELSE IF rawPath[j.article] THEN "page" ELSE "nopage"
      BY <1>1, KindsApart DEF Start, StartFetch, StartRender, StartExtract, StartLocalize, FetchKind
    <2>2. UNCHANGED <<fetchStatus, rawPath, feedBody, body>>
      BY <1>1 DEF Start, StartFetch, StartRender, StartExtract, StartLocalize
    <2>3. /\ step'[j] = s /\ queue'[j] = "running" /\ queue[j] = "queued"
          /\ \A k \in Job \ {j} : step'[k] = step[k] /\ queue'[k] = queue[k]
      BY <2>1 DEF Claim, TypeInv, TypeOK
    <2>4. Grows /\ \A k \in Job \ {j} : Unmoved(k)
      BY <2>2, <2>3 DEF Grows, Unmoved
    <2>5. ExtractFits(j)'
      BY <1>0, <2>1, <2>2, <2>3 DEF ExtractFits
    <2>6. Delivers(j) => Delivers(j)'
      BY <2>3 DEF Delivers
    <2> QED BY <2>2, <2>4, <2>5, <2>6, ExtractFrame
  <1>2. ASSUME Finish(j) PROVE ExtractInv'
    <2>1. UNCHANGED <<fetchStatus, rawPath, feedBody, body>> /\ At(j, "done")
      BY <1>2 DEF Finish
    <2>2. /\ queue'[j] = "none" /\ \A k \in Job \ {j} : step'[k] = step[k] /\ queue'[k] = queue[k]
      BY <1>2 DEF Finish, Goes, TypeInv, TypeOK
    <2>3. Grows /\ \A k \in Job \ {j} : Unmoved(k)
      BY <2>1, <2>2 DEF Grows, Unmoved
    <2>4. ExtractFits(j)' /\ (Delivers(j) => body[j.article].has)
      BY <1>0, <2>1, <2>2 DEF ExtractFits, Delivers, At
    <2> QED BY <2>1, <2>3, <2>4, ExtractFrame
  <1> QED BY <1>1, <1>2

\* A body a feed carries is of an article that has a row.
CarriedIsKnown == \A a \in Article : feedBody[a] => a \in known

\* An extraction is asked for only of an article that has a page.
LEMMA OutsideExtracts ==
    ASSUME TypeInv, CarriedIsKnown, ExtractInv, Announce \/ Schedulers \/ Environment
    PROVE  ExtractInv'
  <1> USE DEF rowVars, blobVars, jobVars, worldVars
  <1>1. ASSUME NEW S, queue' = Inserted(S), UNCHANGED <<step, fetchStatus, rawPath, feedBody, body>>,
               \A k \in S : k.kind \in ExtractKind => rawPath[k.article]
        PROVE  ExtractInv'
    <2>1. Grows /\ \A k \in Job : Unmoved(k)
      BY <1>1 DEF Grows, Unmoved, Inserted, TypeInv, TypeOK
    <2> QED BY <1>1, <2>1, EnqueueFrame
  <1>2. ASSUME UNCHANGED <<queue, step, fetchStatus, rawPath, body>>,
               \A a \in Article : feedBody[a] => feedBody'[a]
        PROVE  ExtractInv'
    <2>1. Grows /\ \A k \in Job : Unmoved(k)
      BY <1>2 DEF Grows, Unmoved
    <2> QED BY <1>2, <2>1, EnqueueFrame
  <1>3. CASE Announce
    <2>1. \A k \in {J("fetch", a) : a \in announced} : k.kind \notin ExtractKind
      BY KindsApart DEF J
    <2> QED BY <1>1, <1>3, <2>1 DEF Announce
  <1>4. CASE Schedulers
    <2>1. \A a : \A kind : J(kind, a).kind = kind /\ J(kind, a).article = a
      BY DEF J
    <2>2. \A a \in StaleBodies : rawPath[a]
      BY DEF StaleBodies, Oldest
    <2>3. CASE ScheduleFetches
      <3>1. \A k \in {J("fetch", a) : a \in PendingFetch} : k.kind \notin ExtractKind
        BY <2>1, KindsApart
      <3> QED BY <1>1, <2>3, <3>1 DEF ScheduleFetches, Schedule
    <2>4. CASE ScheduleAssets
      <3>1. \A k \in {J("localize", a) : a \in PendingAssets} : k.kind \notin ExtractKind
        BY <2>1, KindsApart
      <3> QED BY <1>1, <2>4, <3>1 DEF ScheduleAssets, Schedule
    <2>5. CASE ScheduleReextraction
      <3>1. \A k \in {J("extract", a) : a \in StaleBodies} : rawPath[k.article]
        BY <2>1, <2>2
      <3> QED BY <1>1, <2>5, <3>1 DEF ScheduleReextraction, Schedule
    <2> QED BY <1>4, <2>3, <2>4, <2>5 DEF Schedulers
  <1>5. CASE Environment
    <2>1. ASSUME NEW a \in Article, NEW kind, Asked(kind, a), kind \in ExtractKind => rawPath[a]
          PROVE  ExtractInv'
      <3>1. \A k \in {J(kind, a)} : k.kind \in ExtractKind => rawPath[k.article]
        BY <2>1 DEF J
      <3> QED BY <1>1, <2>1, <3>1 DEF Asked
    <2>2. ASSUME NEW a \in Article, AskRefetch(a) \/ AskReprocess(a) PROVE ExtractInv'
      BY <2>1, <2>2, KindsApart DEF AskRefetch, AskReprocess
    <2>3. ASSUME NEW a \in Article, NEW carried, Ingest(a, carried) PROVE ExtractInv'
      BY <1>2, <2>3 DEF Ingest, CarriedIsKnown, TypeInv, TypeOK
    <2>4. ASSUME NEW a \in Article, Save(a) \/ CarryBody(a) \/ FlagDomain(a) \/ PageChanges(a) PROVE ExtractInv'
      BY <1>2, <2>4 DEF Save, CarryBody, FlagDomain, PageChanges, TypeInv, TypeOK
    <2>5. CASE BrowserChanges
      BY <1>2, <2>5 DEF BrowserChanges
    <2> QED BY <1>5, <2>2, <2>3, <2>4, <2>5 DEF Environment
  <1> QED BY <1>3, <1>4, <1>5


LEMMA CarriedStays ==
    ASSUME TypeInv, CarriedIsKnown, [Next]_vars
    PROVE  CarriedIsKnown'
  <1> USE DEF CarriedIsKnown, rowVars, blobVars, jobVars, worldVars
  <1>1. ASSUME UNCHANGED <<known, feedBody>> PROVE CarriedIsKnown'
    BY <1>1
  <1>2. CASE Announce \/ Schedulers \/ Fault \/ UNCHANGED vars
    BY <1>1, <1>2 DEF Announce, Schedulers, ScheduleFetches, ScheduleAssets, ScheduleReextraction, Schedule,
                      Fault, Shutdown, Crash, StatementFails, Expire, vars
  <1>3. CASE Environment
    <2>1. ASSUME NEW a \in Article, NEW carried \in BOOLEAN, Ingest(a, carried) PROVE CarriedIsKnown'
      BY <2>1 DEF Ingest, TypeInv, TypeOK
    <2>2. ASSUME NEW a \in Article, Save(a) \/ CarryBody(a) PROVE CarriedIsKnown'
      BY <2>2 DEF Save, CarryBody, TypeInv, TypeOK
    <2> QED BY <1>1, <1>3, <2>1, <2>2 DEF Environment, FlagDomain, PageChanges, AskRefetch, AskReprocess,
                                         Asked, BrowserChanges
  <1>4. ASSUME NEW j \in Job, Start(j) PROVE CarriedIsKnown'
    BY <1>1, <1>4 DEF Start, StartFetch, StartRender, StartExtract, StartLocalize
  <1>5. ASSUME NEW j \in Job, FetchStep(j) PROVE CarriedIsKnown'
    BY <1>1, <1>5 DEF FetchStep, HandOffToBrowser, GetPage, GetFails, PutPage, RecordFetchSuccess,
                      EnqueueExtraction, RecordFetchFailure, SalvageFromFeed
  <1>6. ASSUME NEW j \in Job, RenderStep(j) \/ ExtractStep(j) PROVE CarriedIsKnown'
    BY <1>1, <1>6 DEF RenderStep, Permit, RenderPage, RenderUnavailable, RenderFails,
                      ExtractStep, Extract, ExtractedNothing, InsertContent, ClearExtractionFailure,
                      EnqueueLocalization
  <1>7. ASSUME NEW j \in Job, LocalizeStep(j) \/ StatementRefused(j) \/ Finish(j) PROVE CarriedIsKnown'
    BY <1>1, <1>7 DEF LocalizeStep, LocalizeImages, UpdateContentHTML, SetAssetsStatus, WriteFiles,
                      StatementRefused, Finish
  <1> QED BY <1>2, <1>3, <1>4, <1>5, <1>6, <1>7 DEF Next, Proceed

LEMMA NextExtracts ==
    ASSUME MaxFaults = 0, Extractable = 1 .. MaxPage, TypeInv, CarriedIsKnown, Calm, ExtractInv, [Next]_vars
    PROVE  ExtractInv'
  <1>1. CASE UNCHANGED vars
    <2>1. Grows /\ (\A k \in Job : Unmoved(k)) /\ UNCHANGED fetchStatus
      BY <1>1 DEF Grows, Unmoved, vars, rowVars, blobVars, jobVars, worldVars
    <2> QED BY <2>1, EnqueueFrame
  <1>2. CASE Announce \/ Schedulers \/ Environment
    BY <1>2, OutsideExtracts
  <1>3. ASSUME NEW j \in Job, Start(j) \/ Finish(j) PROVE ExtractInv'
    BY <1>3, JobExtracts
  <1>4. ASSUME NEW j \in Job, FetchStep(j) PROVE ExtractInv'
    BY <1>4, FetchStepExtracts
  <1>5. ASSUME NEW j \in Job, RenderStep(j) PROVE ExtractInv'
    BY <1>5, RenderStepExtracts
  <1>6. ASSUME NEW j \in Job, ExtractStep(j) PROVE ExtractInv'
    BY <1>6, ExtractStepExtracts
  <1>7. ASSUME NEW j \in Job, LocalizeStep(j) PROVE ExtractInv'
    BY <1>7, LocalizeStepExtracts
  <1> QED BY <1>1, <1>2, <1>3, <1>4, <1>5, <1>6, <1>7, CalmSteps

\* Where nothing fails and every page has something to extract, an article at
\* rest whose page was fetched has a body, if not always that page's
\* (FetchArticleWorker's enqueue after RecordFetchSuccess, the skip of an
\* extraction already outstanding, and the ladder).  Both hypotheses are needed.
\* Without the first an extraction can be discarded; without the second a fetch
\* repeated while an extraction that found nothing is at its end has its own
\* extraction skipped.
THEOREM FetchedPages ==
    ASSUME MaxFaults = 0, Extractable = 1 .. MaxPage
    PROVE  Spec => []FetchedArticleIsReadable
  <1> DEFINE Inv == TypeInv /\ CarriedIsKnown /\ Calm /\ ExtractInv
  <1>1. Init => CarriedIsKnown /\ ExtractInv
    <2> SUFFICES ASSUME Init PROVE CarriedIsKnown /\ ExtractInv
      OBVIOUS
    <2>1. \A j \in Job : queue[j] = "none"
      BY DEF Init
    <2> QED BY <2>1 DEF Init, CarriedIsKnown, ExtractInv, ExtractFits, UnderWay
  <1>2. TypeInv /\ CarriedIsKnown /\ Calm /\ ExtractInv /\ [Next]_vars => (CarriedIsKnown /\ Calm /\ ExtractInv)'
    BY CarriedStays, CalmStays, NextExtracts
  <1>3. ExtractInv => FetchedArticleIsReadable
    <2> SUFFICES ASSUME ExtractInv, NEW a \in Article, AtRest(a), fetchStatus[a] = "ok"
                 PROVE  body[a].has
      BY DEF FetchedArticleIsReadable
    <2>1. ASSUME NEW j \in Job, j.article = a PROVE ~Delivers(j)
      <3>1. j = J(j.kind, a) /\ j.kind \in Kind
        BY <2>1 DEF J, Job
      <3> QED BY <3>1 DEF AtRest, Delivers
    <2> QED BY <2>1 DEF ExtractInv, UnderWay
  <1> QED BY <1>1, <1>2, <1>3, CalmAtFirst, TypeInvariant, PTL DEF Spec

-----------------------------------------------------------------------------
(* Localized bodies.  A body whose files are not written yet is in the     *)
(* hands of the extraction that inserted it, or of a localization.         *)

LocalizeFits(j) ==
    LET a == j.article IN
    /\ queue[j] = "running" /\ step[j] \in {"clear", "localize"} => body[a].has
    /\ j.kind = "localize" /\ queue[j] # "none" => body[a].has
    /\ j.kind = "localize" /\ queue[j] = "running" =>
          /\ step[j] \in {"images", "update", "status", "files", "done"}
          /\ step[j] = "done" => index[a]

Localizes(j) == \/ queue[j] = "running" /\ step[j] \in {"clear", "localize"}
                \/ j.kind = "localize" /\ queue[j] # "none"

InHand(a) == body[a].has => index[a] \/ \E j \in Job : j.article = a /\ Localizes(j)

LocalizeInv == (\A j \in Job : LocalizeFits(j)) /\ \A a \in Article : InHand(a)

\* A body stays, and so do its files.
Kept == \A a \in Article : (body[a].has => body'[a].has) /\ (index[a] => index'[a])

\* A job that does not move, though it may be enqueued.
Waits(k) ==
    /\ step'[k] = step[k]
    /\ \/ queue'[k] = queue[k]
       \/ /\ queue[k] = "none" /\ queue'[k] = "queued"
          /\ k.kind = "localize" => body'[k.article].has

LEMMA WaitsFits ==
    ASSUME Kept, NEW k \in Job, LocalizeFits(k), Waits(k)
    PROVE  LocalizeFits(k)' /\ (Localizes(k) => Localizes(k)')
  <1>1. k.article \in Article
    BY JobParts
  <1> QED BY <1>1 DEF Kept, Waits, LocalizeFits, Localizes

\* One job moves, and if it had a body in hand it still has, or another does,
\* or its files are written.
LEMMA LocalizeFrame ==
    ASSUME LocalizeInv, Kept, NEW j \in Job, \A k \in Job \ {j} : Waits(k), LocalizeFits(j)',
           Localizes(j) => index'[j.article] \/ \E k \in Job : k.article = j.article /\ Localizes(k)',
           \A a \in Article : body'[a].has =>
              body[a].has \/ \E k \in Job : k.article = a /\ Localizes(k)'
    PROVE  LocalizeInv'
  <1>1. \A k \in Job \ {j} : LocalizeFits(k)' /\ (Localizes(k) => Localizes(k)')
    BY WaitsFits DEF LocalizeInv
  <1>2. ASSUME NEW a \in Article, body[a].has
        PROVE  index'[a] \/ \E k \in Job : k.article = a /\ Localizes(k)'
    <2>1. index[a] \/ \E k \in Job : k.article = a /\ Localizes(k)
      BY <1>2 DEF LocalizeInv, InHand
    <2>2. CASE index[a]
      BY <2>2 DEF Kept
    <2>3. ASSUME NEW k \in Job, k.article = a, Localizes(k)
          PROVE  index'[a] \/ \E i \in Job : i.article = a /\ Localizes(i)'
      <3>1. CASE k = j
        BY <2>3, <3>1
      <3>2. CASE k # j
        BY <1>1, <2>3, <3>2
      <3> QED BY <3>1, <3>2
    <2> QED BY <2>1, <2>2, <2>3
  <1>3. \A a \in Article : InHand(a)'
    BY <1>2 DEF InHand
  <1> QED BY <1>1, <1>3 DEF LocalizeInv

\* No job moves.
LEMMA LocalizeUnmoved ==
    ASSUME LocalizeInv, Kept, \A k \in Job : Waits(k), \A a \in Article : body'[a].has => body[a].has
    PROVE  LocalizeInv'
  <1>1. \A k \in Job : LocalizeFits(k)' /\ (Localizes(k) => Localizes(k)')
    BY WaitsFits DEF LocalizeInv
  <1>2. \A a \in Article : InHand(a)'
    BY <1>1 DEF LocalizeInv, InHand, Kept
  <1> QED BY <1>1, <1>2 DEF LocalizeInv

\* A job with no body in hand goes on to where it has none, and enqueues no
\* localization.
LEMMA LocalizeAside ==
    ASSUME TypeInv, LocalizeInv, NEW j \in Job, j.kind # "localize", step[j] \notin {"clear", "localize"},
           NEW t \in Step \ {"clear", "localize"}, Goes(j, t), Kept,
           \A a \in Article : body'[a].has => body[a].has,
           \A k \in Job \ {j} : queue'[k] = queue[k] \/ (queue[k] = "none" /\ queue'[k] = "queued"
                                                         /\ k.kind # "localize")
    PROVE  LocalizeInv'
  <1>1. step'[j] = t /\ \A k \in Job \ {j} : step'[k] = step[k]
    BY DEF Goes, TypeInv, TypeOK
  <1>2. LocalizeFits(j)' /\ ~Localizes(j)
    BY <1>1 DEF LocalizeFits, Localizes
  <1>3. \A k \in Job \ {j} : Waits(k)
    BY <1>1 DEF Waits
  <1> QED BY <1>2, <1>3, LocalizeFrame

LEMMA NoLocalization ==
    ASSUME LocalizeInv, NEW j \in Job, queue[j] = "running",
           step[j] \notin {"images", "update", "status", "files", "done"}
    PROVE  j.kind # "localize"
  BY DEF LocalizeInv, LocalizeFits

LEMMA FetchStepLocalizes ==
    ASSUME TypeInv, Calm, LocalizeInv, NEW j \in Job, FetchStep(j)
    PROVE  LocalizeInv'
  <1> USE JobParts DEF rowVars, blobVars, jobVars, worldVars
  <1>1. CASE HandOffToBrowser(j)
    <2>1. \A k \in Job : queue'[k] = queue[k] \/ (queue[k] = "none" /\ queue'[k] = "queued" /\ k.kind = "render")
      BY <1>1 DEF HandOffToBrowser, Inserted, J, TypeInv, TypeOK
    <2> QED BY <1>1, <2>1, NoLocalization, LocalizeAside DEF HandOffToBrowser, At, Step, Kept
  <1>2. CASE GetPage(j)
    BY <1>2, NoLocalization, LocalizeAside DEF GetPage, At, Step, Kept
  <1>3. CASE GetFails(j)
    <2>1. PICK cause : Settle(j, cause)
      BY <1>3 DEF GetFails
    <2> QED BY <1>3, <2>1, CalmSettle, NoLocalization, LocalizeAside DEF GetFails, At, Step, Kept
  <1>4. CASE PutPage(j)
    BY <1>4, NoLocalization, LocalizeAside DEF PutPage, At, Step, Kept
  <1>5. CASE RecordFetchSuccess(j)
    BY <1>5, NoLocalization, LocalizeAside DEF RecordFetchSuccess, At, Step, Kept
  <1>6. CASE EnqueueExtraction(j)
    <2>1. \A k \in Job : queue'[k] = queue[k] \/ (queue[k] = "none" /\ queue'[k] = "queued" /\ k.kind # "localize")
      BY <1>6 DEF EnqueueExtraction, Inserted, J, TypeInv, TypeOK
    <2> QED BY <1>6, <2>1, NoLocalization, LocalizeAside DEF EnqueueExtraction, At, Step, Kept
  <1>7. CASE RecordFetchFailure(j)
    <2>1. PICK t \in {"done", "salvage"} : Goes(j, t)
      BY <1>7 DEF RecordFetchFailure
    <2> QED BY <1>7, <2>1, NoLocalization, LocalizeAside DEF RecordFetchFailure, At, Step, Kept
  <1>8. CASE SalvageFromFeed(j)
    <2>1. \A k \in Job : queue'[k] = queue[k] \/ (queue[k] = "none" /\ queue'[k] = "queued" /\ k.kind # "localize")
      BY <1>8 DEF SalvageFromFeed, Inserted, J, TypeInv, TypeOK
    <2> QED BY <1>8, <2>1, NoLocalization, LocalizeAside DEF SalvageFromFeed, At, Step, Kept
  <1> QED BY <1>1, <1>2, <1>3, <1>4, <1>5, <1>6, <1>7, <1>8 DEF FetchStep

LEMMA RenderStepLocalizes ==
    ASSUME TypeInv, Calm, LocalizeInv, NEW j \in Job, RenderStep(j)
    PROVE  LocalizeInv'
  <1> USE JobParts DEF rowVars, blobVars, jobVars, worldVars
  <1>1. CASE Permit(j)
    <2>1. PICK t \in {"render", "fail"} : Goes(j, t) /\ queue' = queue
      BY <1>1, CalmSettle DEF Permit
    <2> QED BY <1>1, <2>1, NoLocalization, LocalizeAside DEF Permit, At, Step, Kept
  <1>2. CASE RenderPage(j)
    BY <1>2, NoLocalization, LocalizeAside DEF RenderPage, At, Step, Kept
  <1>3. CASE RenderUnavailable(j)
    <2>1. j.kind # "localize" /\ step[j] = "render" /\ Returned({j}) /\ UNCHANGED <<body, index>>
      BY <1>3, NoLocalization DEF RenderUnavailable, At
    <2>2. step'[j] = "idle" /\ \A k \in Job \ {j} : step'[k] = step[k] /\ queue'[k] = queue[k]
      BY <2>1 DEF Returned, TypeInv, TypeOK
    <2>3. Kept /\ \A k \in Job \ {j} : Waits(k)
      BY <2>1, <2>2 DEF Kept, Waits
    <2>4. LocalizeFits(j)' /\ ~Localizes(j)
      BY <2>1, <2>2 DEF LocalizeFits, Localizes
    <2> QED BY <2>1, <2>3, <2>4, LocalizeFrame
  <1>4. CASE RenderFails(j)
    <2>1. PICK cause : Settle(j, cause)
      BY <1>4 DEF RenderFails
    <2> QED BY <1>4, <2>1, CalmSettle, NoLocalization, LocalizeAside DEF RenderFails, At, Step, Kept
  <1> QED BY <1>1, <1>2, <1>3, <1>4 DEF RenderStep

LEMMA ExtractStepLocalizes ==
    ASSUME TypeInv, Calm, LocalizeInv, NEW j \in Job, ExtractStep(j)
    PROVE  LocalizeInv'
  <1> USE JobParts DEF rowVars, blobVars, jobVars, worldVars
  <1>0. LocalizeFits(j)
    BY DEF LocalizeInv
  <1>1. CASE Extract(j)
    <2>1. PICK t \in {"insert", "nothing"} : Goes(j, t)
      BY <1>1 DEF Extract
    <2>2. queue[j] = "running" /\ step[j] \in {"page", "nopage"}
      BY <1>1 DEF Extract, At
    <2> QED BY <1>1, <2>1, <2>2, NoLocalization, LocalizeAside DEF Extract, Step, Kept
  <1>2. CASE ExtractedNothing(j)
    <2>1. PICK t \in {"done", "fail"} : Goes(j, t) /\ queue' = queue
      BY <1>2, CalmSettle DEF ExtractedNothing
    <2> QED BY <1>2, <2>1, NoLocalization, LocalizeAside DEF ExtractedNothing, At, Step, Kept
  <1>3. CASE InsertContent(j)
    <2>1. /\ body' = [body EXCEPT ![j.article] = [has |-> TRUE, from |-> page[j], html |-> page[j]]]
          /\ step' = [step EXCEPT ![j] = "clear"] /\ queue[j] = "running" /\ step[j] = "insert"
          /\ UNCHANGED <<queue, index>>
      BY <1>3 DEF InsertContent, At, Goes
    <2>2. /\ body'[j.article].has /\ step'[j] = "clear"
          /\ \A a \in Article : a # j.article => body'[a] = body[a]
          /\ \A k \in Job \ {j} : step'[k] = step[k]
      BY <2>1 DEF TypeInv, TypeOK
    <2>3. Kept /\ \A k \in Job \ {j} : Waits(k)
      BY <2>1, <2>2 DEF Kept, Waits
    <2>4. LocalizeFits(j)' /\ Localizes(j)'
      BY <2>1, <2>2, NoLocalization DEF LocalizeFits, Localizes
    <2> QED BY <2>2, <2>3, <2>4, LocalizeFrame
  <1>4. CASE ClearExtractionFailure(j)
    <2>1. /\ step' = [step EXCEPT ![j] = "localize"] /\ queue[j] = "running" /\ step[j] = "clear"
          /\ body[j.article].has /\ UNCHANGED <<queue, body, index>>
      BY <1>0, <1>4 DEF ClearExtractionFailure, At, Goes, LocalizeFits
    <2>2. step'[j] = "localize" /\ \A k \in Job \ {j} : step'[k] = step[k]
      BY <2>1 DEF TypeInv, TypeOK
    <2>3. Kept /\ \A k \in Job \ {j} : Waits(k)
      BY <2>1, <2>2 DEF Kept, Waits
    <2>4. LocalizeFits(j)' /\ Localizes(j)'
      BY <2>1, <2>2, NoLocalization DEF LocalizeFits, Localizes
    <2> QED BY <2>1, <2>3, <2>4, LocalizeFrame
  <1>5. CASE EnqueueLocalization(j)
    <2>1. /\ step' = [step EXCEPT ![j] = "done"] /\ queue[j] = "running" /\ step[j] = "localize"
          /\ body[j.article].has /\ queue' = Inserted({J("localize", j.article)})
          /\ UNCHANGED <<body, index>>
      BY <1>0, <1>5 DEF EnqueueLocalization, At, Goes, LocalizeFits
    <2>2. \A k \in Job : queue'[k] = queue[k] \/ (queue[k] = "none" /\ queue'[k] = "queued" /\ k.article = j.article)
      BY <2>1 DEF Inserted, J, TypeInv, TypeOK
    <2>3. PICK k \in Job : k.kind = "localize" /\ k.article = j.article /\ queue'[k] # "none"
      <3> DEFINE k == J("localize", j.article)
      <3>1. k \in Job /\ k.kind = "localize" /\ k.article = j.article
        BY DEF J, Job, Kind
      <3>2. queue'[k] # "none"
        BY <2>1, <3>1 DEF Inserted, TypeInv, TypeOK
      <3> QED BY <3>1, <3>2
    <2>4. step'[j] = "done" /\ \A i \in Job \ {j} : step'[i] = step[i]
      BY <2>1 DEF TypeInv, TypeOK
    <2>5. Kept /\ \A i \in Job \ {j} : Waits(i)
      BY <2>1, <2>2, <2>4 DEF Kept, Waits
    <2>6. LocalizeFits(j)' /\ Localizes(k)'
      BY <2>1, <2>3, <2>4, NoLocalization DEF LocalizeFits, Localizes
    <2> QED BY <2>1, <2>3, <2>5, <2>6, LocalizeFrame
  <1> QED BY <1>1, <1>2, <1>3, <1>4, <1>5 DEF ExtractStep

LEMMA LocalizeStepLocalizes ==
    ASSUME TypeInv, LocalizeInv, NEW j \in Job, LocalizeStep(j)
    PROVE  LocalizeInv'
  <1> USE JobParts DEF rowVars, blobVars, jobVars, worldVars
  <1>0. LocalizeFits(j)
    BY DEF LocalizeInv
  <1>1. ASSUME NEW t \in {"status", "update", "files"}, Goes(j, t), queue' = queue, index' = index,
               step[j] \notin {"clear", "localize"}, \A a \in Article : body'[a].has = body[a].has
        PROVE  LocalizeInv'
    <2>1. step'[j] = t /\ \A k \in Job \ {j} : step'[k] = step[k]
      BY <1>1 DEF Goes, TypeInv, TypeOK
    <2>2. Kept /\ \A k \in Job \ {j} : Waits(k)
      BY <1>1, <2>1 DEF Kept, Waits
    <2>3. LocalizeFits(j)' /\ (Localizes(j) => Localizes(j)')
      BY <1>0, <1>1, <2>1 DEF LocalizeFits, Localizes
    <2> QED BY <1>1, <2>2, <2>3, LocalizeFrame
  <1>2. CASE LocalizeImages(j)
    <2>1. PICK t \in {"status", "update"} : Goes(j, t)
      BY <1>2 DEF LocalizeImages
    <2> QED BY <1>1, <1>2, <2>1 DEF LocalizeImages, At
  <1>3. CASE UpdateContentHTML(j)
    <2>1. \A a \in Article : body'[a].has = body[a].has
      <3> DEFINE b == body[j.article]
      <3>1. b \in Body
        BY DEF TypeInv, TypeOK
      <3>2. PICK html : body' = [body EXCEPT ![j.article] = [b EXCEPT !.html = html]]
        BY <1>3 DEF UpdateContentHTML
      <3>3. [b EXCEPT !.html = html].has = b.has
        BY <3>1 DEF Body
      <3> HIDE DEF b
      <3> QED BY <3>2, <3>3 DEF b, TypeInv, TypeOK
    <2> QED BY <1>1, <1>3, <2>1 DEF UpdateContentHTML, At
  <1>4. CASE SetAssetsStatus(j)
    BY <1>1, <1>4 DEF SetAssetsStatus, At
  <1>5. CASE WriteFiles(j)
    <2>1. step' = [step EXCEPT ![j] = "done"] /\ index' = [index EXCEPT ![j.article] = TRUE]
          /\ UNCHANGED <<queue, body>>
      BY <1>5 DEF WriteFiles, Goes
    <2>2. step'[j] = "done" /\ index'[j.article] /\ \A k \in Job \ {j} : step'[k] = step[k]
      BY <2>1 DEF TypeInv, TypeOK
    <2>3. Kept /\ \A k \in Job \ {j} : Waits(k)
      BY <2>1, <2>2 DEF Kept, Waits, TypeInv, TypeOK
    <2>4. LocalizeFits(j)'
      BY <1>0, <2>1, <2>2 DEF LocalizeFits
    <2> QED BY <2>1, <2>2, <2>3, <2>4, LocalizeFrame
  <1> QED BY <1>2, <1>3, <1>4, <1>5 DEF LocalizeStep

LEMMA JobLocalizes ==
    ASSUME TypeInv, LocalizeInv, NEW j \in Job, Start(j) \/ Finish(j)
    PROVE  LocalizeInv'
  <1> USE JobParts DEF rowVars, blobVars, jobVars, worldVars
  <1>0. LocalizeFits(j)
    BY DEF LocalizeInv
  <1>1. ASSUME Start(j) PROVE LocalizeInv'
    <2>1. PICK s : /\ Claim(j, s)
                   /\ j.kind # "localize" => s \notin {"clear", "localize"}
                   /\ j.kind = "localize" => s = IF body[j.article].has THEN "images" ELSE "done"
      BY <1>1 DEF Start, StartFetch, StartRender, StartExtract, StartLocalize, FetchKind, ExtractKind
    <2>2. UNCHANGED <<body, index>>
      BY <1>1 DEF Start, StartFetch, StartRender, StartExtract, StartLocalize
    <2>3. /\ step'[j] = s /\ queue'[j] = "running" /\ queue[j] = "queued"
          /\ \A k \in Job \ {j} : step'[k] = step[k] /\ queue'[k] = queue[k]
      BY <2>1 DEF Claim, TypeInv, TypeOK
    <2>4. Kept /\ \A k \in Job \ {j} : Waits(k)
      BY <2>2, <2>3 DEF Kept, Waits
    <2>5. LocalizeFits(j)' /\ (Localizes(j) => Localizes(j)')
      BY <1>0, <2>1, <2>2, <2>3 DEF LocalizeFits, Localizes
    <2> QED BY <2>2, <2>4, <2>5, LocalizeFrame
  <1>2. ASSUME Finish(j) PROVE LocalizeInv'
    <2>1. UNCHANGED <<body, index>> /\ queue[j] = "running" /\ step[j] = "done"
      BY <1>2 DEF Finish, At
    <2>2. queue'[j] = "none" /\ \A k \in Job \ {j} : step'[k] = step[k] /\ queue'[k] = queue[k]
      BY <1>2 DEF Finish, Goes, TypeInv, TypeOK
    <2>3. Kept /\ \A k \in Job \ {j} : Waits(k)
      BY <2>1, <2>2 DEF Kept, Waits
    <2>4. LocalizeFits(j)' /\ (Localizes(j) => index[j.article])
      BY <1>0, <2>1, <2>2 DEF LocalizeFits, Localizes
    <2> QED BY <2>1, <2>3, <2>4, LocalizeFrame
  <1> QED BY <1>1, <1>2

\* The sweep enqueues the localization of bodies alone.
LEMMA OutsideLocalizes ==
    ASSUME TypeInv, LocalizeInv, Announce \/ Schedulers \/ Environment
    PROVE  LocalizeInv'
  <1> USE DEF rowVars, blobVars, jobVars, worldVars
  <1>1. ASSUME NEW S, queue' = Inserted(S), UNCHANGED <<step, body, index>>,
               \A k \in S : k.kind = "localize" => body[k.article].has
        PROVE  LocalizeInv'
    <2>1. Kept /\ \A k \in Job : Waits(k)
      BY <1>1 DEF Kept, Waits, Inserted, TypeInv, TypeOK
    <2> QED BY <1>1, <2>1, LocalizeUnmoved
  <1>2. ASSUME UNCHANGED <<queue, step, body, index>> PROVE LocalizeInv'
    <2>1. Kept /\ \A k \in Job : Waits(k)
      BY <1>2 DEF Kept, Waits
    <2> QED BY <1>2, <2>1, LocalizeUnmoved
  <1>3. \A a : \A kind : J(kind, a).kind = kind /\ J(kind, a).article = a
    BY DEF J
  <1>4. CASE Announce
    <2>1. \A k \in {J("fetch", a) : a \in announced} : k.kind # "localize"
      BY <1>3
    <2> QED BY <1>1, <1>4, <2>1 DEF Announce
  <1>5. CASE Schedulers
    <2>1. CASE ScheduleFetches
      <3>1. \A k \in {J("fetch", a) : a \in PendingFetch} : k.kind # "localize"
        BY <1>3
      <3> QED BY <1>1, <2>1, <3>1 DEF ScheduleFetches, Schedule
    <2>2. CASE ScheduleAssets
      <3>1. \A a \in PendingAssets : body[a].has
        BY DEF PendingAssets, Oldest
      <3>2. \A k \in {J("localize", a) : a \in PendingAssets} : body[k.article].has
        BY <1>3, <3>1
      <3> QED BY <1>1, <2>2, <3>2 DEF ScheduleAssets, Schedule
    <2>3. CASE ScheduleReextraction
      <3>1. \A k \in {J("extract", a) : a \in StaleBodies} : k.kind # "localize"
        BY <1>3
      <3> QED BY <1>1, <2>3, <3>1 DEF ScheduleReextraction, Schedule
    <2> QED BY <1>5, <2>1, <2>2, <2>3 DEF Schedulers
  <1>6. CASE Environment
    <2>1. ASSUME NEW a \in Article, NEW kind, Asked(kind, a), kind # "localize"
          PROVE  LocalizeInv'
      <3>1. \A k \in {J(kind, a)} : k.kind # "localize"
        BY <1>3, <2>1
      <3> QED BY <1>1, <2>1, <3>1 DEF Asked
    <2>2. ASSUME NEW a \in Article, AskRefetch(a) \/ AskReprocess(a) PROVE LocalizeInv'
      BY <2>1, <2>2 DEF AskRefetch, AskReprocess
    <2>3. ASSUME NEW a \in Article, NEW carried,
                 Ingest(a, carried) \/ Save(a) \/ CarryBody(a) \/ FlagDomain(a) \/ PageChanges(a)
          PROVE  LocalizeInv'
      BY <1>2, <2>3 DEF Ingest, Save, CarryBody, FlagDomain, PageChanges
    <2>4. CASE BrowserChanges
      BY <1>2, <2>4 DEF BrowserChanges
    <2> QED BY <1>6, <2>2, <2>3, <2>4 DEF Environment
  <1> QED BY <1>4, <1>5, <1>6

LEMMA NextLocalizes ==
    ASSUME MaxFaults = 0, TypeInv, Calm, LocalizeInv, [Next]_vars
    PROVE  LocalizeInv'
  <1>1. CASE UNCHANGED vars
    <2>1. Kept /\ (\A k \in Job : Waits(k)) /\ body' = body
      BY <1>1 DEF Kept, Waits, vars, rowVars, blobVars, jobVars, worldVars
    <2> QED BY <2>1, LocalizeUnmoved
  <1>2. CASE Announce \/ Schedulers \/ Environment
    BY <1>2, OutsideLocalizes
  <1>3. ASSUME NEW j \in Job, Start(j) \/ Finish(j) PROVE LocalizeInv'
    BY <1>3, JobLocalizes
  <1>4. ASSUME NEW j \in Job, FetchStep(j) PROVE LocalizeInv'
    BY <1>4, FetchStepLocalizes
  <1>5. ASSUME NEW j \in Job, RenderStep(j) PROVE LocalizeInv'
    BY <1>5, RenderStepLocalizes
  <1>6. ASSUME NEW j \in Job, ExtractStep(j) PROVE LocalizeInv'
    BY <1>6, ExtractStepLocalizes
  <1>7. ASSUME NEW j \in Job, LocalizeStep(j) PROVE LocalizeInv'
    BY <1>7, LocalizeStepLocalizes
  <1> QED BY <1>1, <1>2, <1>3, <1>4, <1>5, <1>6, <1>7, CalmSteps

\* Where nothing fails, an article at rest that has a body has its files
\* written, whatever was extracted, re-fetched or asked for on the way
\* (ExtractArticleWorker's enqueue after InsertContent, ScheduleAssetsWorker and
\* writeFiles).
THEOREM LocalizedBodies ==
    ASSUME MaxFaults = 0
    PROVE  Spec => []BodyIsLocalized
  <1>1. Init => LocalizeInv
    <2> SUFFICES ASSUME Init PROVE LocalizeInv
      OBVIOUS
    <2>1. \A j \in Job : queue[j] = "none"
      BY DEF Init
    <2>2. \A a \in Article : ~body[a].has
      BY DEF Init, NoBody
    <2> QED BY <2>1, <2>2 DEF LocalizeInv, LocalizeFits, InHand
  <1>2. TypeInv /\ Calm /\ LocalizeInv /\ [Next]_vars => (Calm /\ LocalizeInv)'
    BY CalmStays, NextLocalizes
  <1>3. LocalizeInv => BodyIsLocalized
    <2> SUFFICES ASSUME LocalizeInv, NEW a \in Article, AtRest(a), body[a].has
                 PROVE  index[a]
      BY DEF BodyIsLocalized
    <2>1. ASSUME NEW j \in Job, j.article = a PROVE ~Localizes(j)
      <3>1. j = J(j.kind, a) /\ j.kind \in Kind
        BY <2>1 DEF J, Job
      <3> QED BY <3>1 DEF AtRest, Localizes
    <2> QED BY <2>1 DEF LocalizeInv, InHand
  <1> QED BY <1>1, <1>2, <1>3, CalmAtFirst, TypeInvariant, PTL DEF Spec

=============================================================================
