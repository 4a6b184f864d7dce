------------------------------- MODULE Bodies -------------------------------
(***************************************************************************)
(* The bodies of the archive's articles: who has one of their own, which   *)
(* rules it was made with, and everything that replaces one: an extraction *)
(* a rule, a sweep or an operator asked for, an import, a reader's choice. *)
(*                                                                         *)
(* Every article here has a stored page.  A page is the sizes its rungs    *)
(* are judged by; a rule is the key of its selectors.                      *)
(***************************************************************************)
EXTENDS Integers, Sequences, FiniteSets

CONSTANTS
    Article, Reader,
    Household,          \* the slot everybody reads until they have their own
    Admin,              \* readers who may write for the household
    Domain,
    Under,              \* the articles each domain covers, its subdomains included
    Length,             \* of its name: the longer, the more specific
    Key,                \* the selectors a rule may have
    NoKey, NoRule,      \* a rule that only says how to fetch; no rule at all
    Page,               \* what is on the disk for each article
    File,               \* exports somebody may import: records, and whether it is whole
    Stock,              \* the household's body of each article at first: one of Start
    MaxActs, MaxFaults  \* bounds: what people ask for, and failures

Slot == Reader \cup {Household}
Start == {"failed", "extracted", "outdated", "imported"}

\* What an export says of an article; stated: that it was extracted from the page.
Record == [article : Article, readable : BOOLEAN, content : {"placeholder", "markup", "text"},
           stated : BOOLEAN]

ASSUME BodiesConstants ==
    /\ Household \notin Reader /\ Admin \subseteq Reader
    /\ Under \in [Domain -> SUBSET Article] /\ Length \in [Domain -> Nat]
    /\ \A d, e \in Domain : Length[d] = Length[e] /\ Under[d] \cap Under[e] # {} => d = e
    /\ IsFiniteSet(Domain)
    /\ NoKey \notin Key /\ NoRule \notin Key \cup {NoKey}
    /\ Stock \in [Article -> SUBSET Start]
    /\ File \subseteq [records : Seq(Record), whole : BOOLEAN]
    /\ MaxActs \in Nat /\ MaxFaults \in Nat

VARIABLES
    rule,       \* domain_rules: one per domain and owner
    current,    \* article_content, the row that is_current of each slot
    kept,       \* and the rows that are not
    attempted,  \* articles whose extract_attempt_version is this build's
    failed,     \* articles whose fetch_status says the extraction failed
    job,        \* extract_article, unique by article, slot and force
    import,     \* each reader's import, and where it is in its file
    acts, faults,
    \* history, read by no guard
    asked,      \* <<r, a>> where r asked for a body of their own
    late        \* slots where a check was overtaken before what it allowed

bounds  == <<acts, faults>>
history == <<asked, late>>
vars    == <<rule, current, kept, attempted, failed, job, import, bounds, history>>

Nothing == "nothing"
Rung    == {"domain_rule", "trafilatura", "readability", "feed_body", "page_images", "imported"}
Body    == [rung : Rung, origin : {"fetched", "feed_body", "import"}, key : Key \cup {NoKey},
            immutable : BOOLEAN, old : BOOLEAN]
NoBody  == [rung |-> Nothing, origin |-> Nothing, key |-> NoKey, immutable |-> FALSE,
            old |-> FALSE]
Job     == [at : {"none", "queued", "resolved", "checked", "empty", "stored"},
            key : Key \cup {NoKey}, blocked : BOOLEAN]
NoJob   == [at |-> "none", key |-> NoKey, blocked |-> FALSE]
Import  == [at : {"idle", "next", "checked"}, records : Seq(Record), blocked : BOOLEAN]
Idle    == [at |-> "idle", records |-> <<>>, blocked |-> FALSE]

-----------------------------------------------------------------------------
(* The extraction ladder, over what each rung makes of a page.             *)

minChars         == 200
longBody         == 2000
feedAdvantage    == 3
imageTextCeiling == 120

Acceptable(chars, visible) ==
    /\ chars >= minChars
    /\ chars >= longBody \/ visible = 0 \/ 4 * chars >= visible

\* A rule needs a match, and either length or a picture.
ViaDomainRule(p, k) ==
    k # NoKey /\ (p.selected[k].chars >= minChars \/ p.selected[k].images # {})

ViaTrafilatura(p) == Acceptable(p.trafilatura.chars, p.visible)
ViaReadability(p) == Acceptable(p.readability.chars, p.visible)
ViaFeedBody(p)    == p.feed.chars >= minChars
ViaPageImages(p)  == p.named # {}

OrTheFeedIfRicher(p, name, piece) ==
    IF ViaFeedBody(p) /\ p.feed.words >= feedAdvantage * piece.words
    THEN <<"feed_body", p.feed>> ELSE <<name, piece>>

SharesAnImage(p, piece) == piece.images \cap p.named # {}

OrThePageImagesIfTextless(p, best) ==
    IF best[2].words <= imageTextCeiling /\ ViaPageImages(p) /\ ~SharesAnImage(p, best[2])
    THEN "page_images" ELSE best[1]

BestOf(p, name, piece) == OrThePageImagesIfTextless(p, OrTheFeedIfRicher(p, name, piece))

\* Rung by rung; the two rungs that guess are second-guessed.
Run(p, k) ==
    CASE ViaDomainRule(p, k) -> "domain_rule"
      [] ~ViaDomainRule(p, k) /\ ViaTrafilatura(p) -> BestOf(p, "trafilatura", p.trafilatura)
      [] ~ViaDomainRule(p, k) /\ ~ViaTrafilatura(p) /\ ViaReadability(p) ->
            BestOf(p, "readability", p.readability)
      [] OTHER -> IF ViaFeedBody(p) THEN "feed_body"
                  ELSE IF ViaPageImages(p) THEN "page_images" ELSE Nothing

-----------------------------------------------------------------------------
(* Rules.                                                                  *)

RulesOf(s, a) == {d \in Domain : a \in Under[d] /\ rule[d][s] # NoRule}
HasRule(s, a) == RulesOf(s, a) # {}
MostSpecific(s, a) ==
    rule[CHOOSE d \in RulesOf(s, a) : \A e \in RulesOf(s, a) : Length[d] >= Length[e]][s]

\* The reader's own where they have one, the household's otherwise.
EffectiveRuleFor(s, a) ==
    IF HasRule(s, a) THEN MostSpecific(s, a)
    ELSE IF HasRule(Household, a) THEN MostSpecific(Household, a) ELSE NoKey

\* Mutant of Refused: a rule that would do nothing is taken all the same.
RefusedNever(s, k) == FALSE

\* How to fetch is the household's to say; a rule that says nothing is refused.
Refused(s, k) == s # Household /\ k = NoKey

-----------------------------------------------------------------------------
(* The queue.                                                              *)

Outstanding(a, s, f) == job[a][s][f].at # "none"

Insert(wanted, force) ==
    job' = [a \in Article |-> [s \in Slot |-> [f \in BOOLEAN |->
               IF <<a, s>> \in wanted /\ f = force /\ ~Outstanding(a, s, f)
               THEN [NoJob EXCEPT !.at = "queued"] ELSE job[a][s][f]]]]

\* What a rule just written is applied to: the household's body stands in for none.
ArticlesUnderRule(s, d) ==
    {a \in Under[d] : ~(IF current[a][s] # NoBody THEN current[a][s]
                        ELSE current[a][Household]).immutable}

QueueRuleExtraction(s, d) == Insert({<<a, s>> : a \in ArticlesUnderRule(s, d)}, TRUE)

\* Mutant of ReextractCandidates: a reader without a body of their own is one too.
ReextractCandidatesOfAnyone(s, every, scope) ==
    {a \in scope : IF current[a][s] # NoBody THEN ~current[a][s].immutable /\ (every \/ current[a][s].old)
                   ELSE every \/ a \notin attempted}

\* Either outcome of an earlier build; every asks for version 0, which none has.
ReextractCandidates(s, every, scope) ==
    {a \in scope :
        \/ current[a][s] # NoBody /\ ~current[a][s].immutable /\ (every \/ current[a][s].old)
        \/ s = Household /\ current[a][s] = NoBody /\ (every \/ a \notin attempted)}

QueueReextraction(s, every, scope) ==
    Insert({<<a, s>> : a \in ReextractCandidates(s, every, scope)}, TRUE)

\* Mutant of Stale: only a missing body is stale.
StaleMissing(a, s) == HasRule(s, a) /\ current[a][s] = NoBody

\* Per owner, against the most specific of their own rules.
Stale(a, s) ==
    /\ HasRule(s, a)
    /\ \/ current[a][s] = NoBody
       \/ ~current[a][s].immutable /\ current[a][s].key # MostSpecific(s, a)

\* The batch is left out.
StaleBodies == {pair \in Article \X Slot : Stale(pair[1], pair[2])}

ScheduleReextraction ==
    /\ \E pair \in StaleBodies : ~Outstanding(pair[1], pair[2], FALSE)
    /\ Insert(StaleBodies, FALSE)
    /\ UNCHANGED <<rule, current, kept, attempted, failed, import, bounds, history>>

-----------------------------------------------------------------------------
(* What people ask for.                                                    *)

Act == acts < MaxActs /\ acts' = acts + 1 /\ UNCHANGED faults
Asks(r, articles) == asked' = asked \cup ({r} \X articles)

MayWrite(r, s) == s = r \/ (s = Household /\ r \in Admin)

UpsertDomainRule(d, k)    == rule' = [rule EXCEPT ![d][Household] = k]
UpsertReaderRule(r, d, k) == rule' = [rule EXCEPT ![d][r] = k]

\* Saved whether or not its articles could be queued.
HandleSaveDomainRule(r, d) ==
    /\ Act
    /\ \E s \in Slot, k \in Key \cup {NoKey} :
          /\ MayWrite(r, s) /\ ~Refused(s, k)
          /\ IF s = Household THEN UpsertDomainRule(d, k) ELSE UpsertReaderRule(r, d, k)
          /\ QueueRuleExtraction(s, d) \/ UNCHANGED job
          /\ IF s = Household THEN UNCHANGED asked ELSE Asks(r, Under[d])
    /\ UNCHANGED <<current, kept, attempted, failed, import, late>>

\* The command queues nothing.
DomainRuleSet(d) ==
    /\ Act
    /\ \E k \in Key \cup {NoKey} : UpsertDomainRule(d, k)
    /\ UNCHANGED <<current, kept, attempted, failed, job, import, history>>

\* By domain alone: everybody's goes.
DeleteDomainRule(d) == rule' = [rule EXCEPT ![d] = [s \in Slot |-> NoRule]]

HandleDeleteDomainRule(d) ==
    /\ Act
    /\ \E s \in Slot : rule[d][s] # NoRule
    /\ DeleteDomainRule(d)
    /\ UNCHANGED <<current, kept, attempted, failed, job, import, history>>

HandleReprocessDomain(r, d) ==
    /\ Act
    /\ \/ r \in Admin /\ QueueReextraction(Household, TRUE, Under[d]) /\ UNCHANGED asked
       \/ QueueRuleExtraction(r, d) /\ Asks(r, Under[d])
    /\ UNCHANGED <<rule, current, kept, attempted, failed, import, late>>

HandleReprocess(r) ==
    /\ Act
    /\ \E s \in Slot, every \in BOOLEAN :
          MayWrite(r, s) /\ QueueReextraction(s, every, Article)
    /\ UNCHANGED <<rule, current, kept, attempted, failed, import, history>>

\* For anybody, at a shell; with a domain or without.
Reextract ==
    /\ Act
    /\ \E s \in Slot, every \in BOOLEAN, scope \in {Article} \cup {Under[d] : d \in Domain} :
          QueueReextraction(s, every, scope)
    /\ UNCHANGED <<rule, current, kept, attempted, failed, import, history>>

BodiesOf(a, s) == kept[a][s] \cup ({current[a][s]} \ {NoBody})

\* What a reader may choose among.
BodiesForArticle(r, a) == BodiesOf(a, r) \cup BodiesOf(a, Household)

\* A copy in the reader's own slot, without the rules it was made with.
PromoteBody(r, a, b) ==
    /\ b \in BodiesForArticle(r, a)
    /\ current' = [current EXCEPT ![a][r] = [b EXCEPT !.key = NoKey]]
    /\ kept' = [kept EXCEPT ![a][r] = BodiesOf(a, r)]

HandlePromoteBody(r, a) ==
    /\ Act
    /\ \E b \in BodiesForArticle(r, a) : PromoteBody(r, a, b)
    /\ Asks(r, {a})
    /\ UNCHANGED <<rule, attempted, failed, job, import, late>>

-----------------------------------------------------------------------------
(* Storing a body: the check, and later the demotion and the insertion.    *)

CurrentIsImmutable(a, s) == current[a][s].immutable

\* Mutant of MakeCurrent: nothing is kept from being replaced.
MakeCurrentAlways(blocked) == TRUE

MakeCurrent(blocked) == ~blocked

InsertContent(a, s, b, blocked) ==
    IF MakeCurrent(blocked)
    THEN /\ current' = [current EXCEPT ![a][s] = b]
         /\ kept' = [kept EXCEPT ![a][s] = BodiesOf(a, s)]
         /\ late' = IF CurrentIsImmutable(a, s) /\ ~blocked THEN late \cup {<<a, s>>} ELSE late
    ELSE /\ kept' = [kept EXCEPT ![a][s] = @ \cup {b}]
         /\ UNCHANGED <<current, late>>

-----------------------------------------------------------------------------
(* An extraction, from its rule to the failure it clears.                  *)

At(a, s, f, where) == job[a][s][f].at = where
Done(a, s, f) == job' = [job EXCEPT ![a][s][f] = NoJob]

AlreadyCurrent(a, s, k) ==
    current[a][s] # NoBody /\ ~current[a][s].old /\ current[a][s].key = k

Resolve(a, s, f) ==
    LET k == EffectiveRuleFor(s, a) IN
    /\ At(a, s, f, "queued")
    /\ IF ~f /\ AlreadyCurrent(a, s, k) THEN Done(a, s, f)
       ELSE job' = [job EXCEPT ![a][s][f] = [@ EXCEPT !.at = "resolved", !.key = k]]
    /\ UNCHANGED <<rule, current, kept, attempted, failed, import, bounds, history>>

RecordExtractAttempt(a, s) == attempted' = IF s = Household THEN attempted \cup {a} ELSE attempted

\* A page that yields nothing is a failure only where it leaves the household none.
IsAFailure(a, s) == current[a][s] = NoBody /\ s = Household

\* Runs the ladder, and opens the transaction that will store what it made.
Extract(a, s, f) ==
    /\ At(a, s, f, "resolved")
    /\ RecordExtractAttempt(a, s)
    /\ IF Run(Page[a], job[a][s][f].key) # Nothing
       THEN job' = [job EXCEPT ![a][s][f] = [@ EXCEPT !.at = "checked",
                                                      !.blocked = CurrentIsImmutable(a, s)]]
       ELSE IF IsAFailure(a, s) THEN job' = [job EXCEPT ![a][s][f].at = "empty"]
       ELSE Done(a, s, f)
    /\ UNCHANGED <<rule, current, kept, failed, import, bounds, history>>

\* The household's list says so, and is overtaken if a body came meanwhile.
RecordFetchFailure(a, s, f) ==
    /\ At(a, s, f, "empty")
    /\ failed' = failed \cup {a}
    /\ late' = IF current[a][Household] = NoBody THEN late ELSE late \cup {<<a, Household>>}
    /\ Done(a, s, f)
    /\ UNCHANGED <<rule, current, kept, attempted, import, bounds, asked>>

Extracted(a, k) ==
    LET name == Run(Page[a], k)
    IN  [rung |-> name, origin |-> IF name = "feed_body" THEN "feed_body" ELSE "fetched",
         key |-> k, immutable |-> FALSE, old |-> FALSE]

\* Only the household's run has a failure to clear; images are localized elsewhere.
Store(a, s, f) ==
    /\ At(a, s, f, "checked")
    /\ InsertContent(a, s, Extracted(a, job[a][s][f].key), job[a][s][f].blocked)
    /\ IF MakeCurrent(job[a][s][f].blocked) /\ s = Household
       THEN job' = [job EXCEPT ![a][s][f].at = "stored"] ELSE Done(a, s, f)
    /\ UNCHANGED <<rule, attempted, failed, import, bounds, asked>>

ClearExtractionFailure(a, s, f) ==
    /\ At(a, s, f, "stored")
    /\ failed' = failed \ {a}
    /\ Done(a, s, f)
    /\ UNCHANGED <<rule, current, kept, attempted, import, bounds, history>>

Work(a, s, f) ==
    \/ Resolve(a, s, f) \/ Extract(a, s, f) \/ RecordFetchFailure(a, s, f)
    \/ Store(a, s, f) \/ ClearExtractionFailure(a, s, f)

\* A worker that dies, or a statement that fails: the job is run again.
Retry(a, s, f) ==
    /\ job[a][s][f].at \notin {"none", "queued"}
    /\ faults < MaxFaults /\ faults' = faults + 1
    /\ job' = [job EXCEPT ![a][s][f] = [NoJob EXCEPT !.at = "queued"]]
    /\ UNCHANGED <<rule, current, kept, attempted, failed, import, acts, history>>

-----------------------------------------------------------------------------
(* An import, record by record; the reader's own marks are elsewhere.      *)

\* The source's notice that it could not fetch the page is no body,
MapEntry(rec) == rec.readable /\ rec.content # "placeholder"

\* nor is markup the sanitizer leaves nothing of.
CleanImported(rec) == rec.content # "markup"

ParamsFor(rec) ==
    IF ~MapEntry(rec) \/ ~CleanImported(rec) THEN NoBody
    ELSE IF rec.stated
    THEN [rung |-> "trafilatura", origin |-> "fetched", key |-> NoKey,
          immutable |-> FALSE, old |-> TRUE]
    ELSE [rung |-> "imported", origin |-> "import", key |-> NoKey,
          immutable |-> TRUE, old |-> TRUE]

HasBodyFrom(a, origin) == \E s \in Slot : \E b \in BodiesOf(a, s) : b.origin = origin

\* The whole file is read first: one that breaks off imports nothing.
HandleImportLibrary(r) ==
    /\ Act
    /\ import[r].at = "idle"
    /\ \E f \in File : f.whole /\ import' = [import EXCEPT ![r] =
                                                [Idle EXCEPT !.at = "next", !.records = f.records]]
    /\ UNCHANGED <<rule, current, kept, attempted, failed, job, history>>

Next1(r) == [import[r] EXCEPT !.at = "next", !.blocked = FALSE, !.records = Tail(@)]

\* Asks for a body of that provenance, then whether the current one may go.
CheckRecord(r) ==
    /\ import[r].at = "next" /\ import[r].records # <<>>
    /\ LET rec == Head(import[r].records)
           b == ParamsFor(rec)
       IN  import' = [import EXCEPT ![r] =
               IF b = NoBody \/ HasBodyFrom(rec.article, b.origin) THEN Next1(r)
               ELSE [@ EXCEPT !.at = "checked", !.blocked = CurrentIsImmutable(rec.article, Household)]]
    /\ UNCHANGED <<rule, current, kept, attempted, failed, job, bounds, history>>

ImportArticle(r) ==
    /\ import[r].at = "checked"
    /\ LET rec == Head(import[r].records)
       IN  InsertContent(rec.article, Household, ParamsFor(rec), import[r].blocked)
    /\ import' = [import EXCEPT ![r] = Next1(r)]
    /\ UNCHANGED <<rule, attempted, failed, job, bounds, asked>>

FinishImport(r) ==
    /\ import[r].at = "next" /\ import[r].records = <<>>
    /\ import' = [import EXCEPT ![r] = Idle]
    /\ UNCHANGED <<rule, current, kept, attempted, failed, job, bounds, history>>

\* The request ends half way; running it again finishes it.
StopImport(r) ==
    /\ import[r].at # "idle"
    /\ faults < MaxFaults /\ faults' = faults + 1
    /\ import' = [import EXCEPT ![r] = Idle]
    /\ UNCHANGED <<rule, current, kept, attempted, failed, job, acts, history>>

-----------------------------------------------------------------------------
Stocked(a, how) ==
    CASE how \in {"extracted", "outdated"} ->
            [rung |-> "trafilatura", origin |-> "fetched", key |-> NoKey, immutable |-> FALSE,
             old |-> how = "outdated"]
      [] how = "imported"  -> [rung |-> "imported", origin |-> "import", key |-> NoKey,
                               immutable |-> TRUE, old |-> TRUE]
      [] OTHER -> NoBody

Init ==
    \E how \in [Article -> Start] :
        /\ \A a \in Article : how[a] \in Stock[a]
        /\ rule = [d \in Domain |-> [s \in Slot |-> NoRule]]
        /\ current = [a \in Article |-> [s \in Slot |->
                         IF s = Household THEN Stocked(a, how[a]) ELSE NoBody]]
        /\ kept = [a \in Article |-> [s \in Slot |-> {}]]
        /\ attempted = {a \in Article : how[a] = "extracted"}
        /\ failed = {a \in Article : how[a] = "failed"}
        /\ job = [a \in Article |-> [s \in Slot |-> [f \in BOOLEAN |-> NoJob]]]
        /\ import = [r \in Reader |-> Idle]
        /\ acts = 0 /\ faults = 0 /\ asked = {} /\ late = {}

Next ==
    \/ ScheduleReextraction
    \/ \E a \in Article, s \in Slot, f \in BOOLEAN : Work(a, s, f) \/ Retry(a, s, f)
    \/ \E r \in Reader, d \in Domain : HandleSaveDomainRule(r, d) \/ HandleReprocessDomain(r, d)
    \/ \E d \in Domain : DomainRuleSet(d) \/ HandleDeleteDomainRule(d)
    \/ \E r \in Reader : HandleReprocess(r) \/ \E a \in Article : HandlePromoteBody(r, a)
    \/ Reextract
    \/ \E r \in Reader : HandleImportLibrary(r) \/ CheckRecord(r) \/ ImportArticle(r)
                         \/ FinishImport(r) \/ StopImport(r)

\* The scheduler is periodic and the pool works its queue; nobody need ask for anything.
Fairness ==
    /\ WF_vars(ScheduleReextraction)
    /\ \A a \in Article, s \in Slot, f \in BOOLEAN : WF_vars(Work(a, s, f))

Spec == Init /\ [][Next]_vars /\ Fairness

-----------------------------------------------------------------------------
\* Every row is one the columns and the checks allow: a reader's rule selects
\* something, only an import is immutable, and only the household's runs touch
\* what is the article's (domain_rules, article_content, extract.go).
TypeOK ==
    /\ rule \in [Domain -> [Slot -> Key \cup {NoKey, NoRule}]]
    /\ \A d \in Domain, r \in Reader : rule[d][r] # NoKey
    /\ current \in [Article -> [Slot -> Body \cup {NoBody}]]
    /\ kept \in [Article -> [Slot -> SUBSET Body]]
    /\ \A a \in Article, s \in Slot : \A b \in BodiesOf(a, s) :
          b.immutable <=> b.rung = "imported"
    /\ attempted \subseteq Article /\ failed \subseteq Article
    /\ job \in [Article -> [Slot -> [BOOLEAN -> Job]]]
    /\ \A a \in Article, s \in Slot, f \in BOOLEAN :
          job[a][s][f].at \in {"empty", "stored"} => s = Household
    /\ import \in [Reader -> Import]
    /\ acts \in 0 .. MaxActs /\ faults \in 0 .. MaxFaults
    /\ asked \subseteq Reader \X Article /\ late \subseteq Article \X Slot

\* Extraction, imports and choices keep the archive's promise about bodies
\* (store/content.go InsertContent, store/bodies.go PromoteBody): see ReaderView.
Shelf == [a \in Article |-> [s \in Slot |-> BodiesOf(a, s)]]
View == INSTANCE ReaderView WITH shelf <- Shelf, up <- current, attention <- failed
ReaderViewed == View!Spec

\* A rule reaches the pages it covers in the end, through the queue or the sweep,
\* whatever was lost, merged or overtaken on the way and whoever else has a rule
\* (reextractsweep.go StaleBodies): but for pages it extracts nothing from.
Follows(a, s) ==
    LET k == EffectiveRuleFor(s, a) IN
    HasRule(s, a) =>
        \/ CurrentIsImmutable(a, s)
        \/ current[a][s] # NoBody /\ current[a][s].key = k
        \/ Run(Page[a], k) = Nothing
RuleReachesItsPages == <>[](\A a \in Article, s \in Slot : Follows(a, s))

\* Nobody is given a private copy they did not ask for: a reader holds a body only
\* of what they wrote a rule over, reprocessed by its domain or chose
\* (store/content.go ReextractCandidates, store/reextractsweep.go StaleBodies).
CopiesAreAskedFor ==
    \A a \in Article, r \in Reader : current[a][r] # NoBody => <<r, a>> \in asked

\* What a reader is shown of an article: their own, or the household's.
OwnedBody(r, a) == IF current[a][r] # NoBody THEN current[a][r] ELSE current[a][Household]

\* Nothing automatic replaces an imported copy in front of a reader
\* (store/bodies.go PromoteBody: "nothing automatic may ever replace it").
ImportedStaysShown ==
    [][\A a \in Article, r \in Reader :
          OwnedBody(r, a).immutable /\ <<a, Household>> \notin late' =>
             \/ OwnedBody(r, a)' = OwnedBody(r, a)
             \/ \E b \in BodiesForArticle(r, a) : PromoteBody(r, a, b)]_vars

=============================================================================
