---------------------------- MODULE BodiesProofs ----------------------------
(***************************************************************************)
(* What holds of the archive's bodies for any articles, readers, rules,    *)
(* pages and exports, and any number of acts and faults; and that the      *)
(* jobs, imports and choices that make them implement ReaderView.          *)
(***************************************************************************)
EXTENDS Bodies, FiniteSetTheorems, WellFoundedInduction, SequenceTheorems, TLAPS

-----------------------------------------------------------------------------
(* Which rule applies.                                                     *)

\* Some rule is the most specific: the least set without one would be longer by one.
LEMMA LongestNamed ==
    ASSUME NEW D \in SUBSET Domain, D # {}
    PROVE  \E d \in D : \A e \in D : Length[d] >= Length[e]
  <1> DEFINE Longest(S, d) == d \in S /\ \A e \in S : Length[d] >= Length[e]
             Without == {S \in SUBSET Domain : S # {} /\ ~\E d \in S : Longest(S, d)}
  <1>1. Length \in [Domain -> Nat] /\ IsFiniteSet(Domain)
    BY BodiesConstants
  <1>2. SUFFICES ASSUME Without # {} PROVE FALSE
    BY DEF Longest
  <1>3. PICK S \in Without : \A T \in Without : <<T, S>> \notin StrictSubsetOrdering(Domain)
    <2> HIDE DEF Without
    <2>1. IsWellFoundedOn(StrictSubsetOrdering(Domain), SUBSET Domain)
      BY <1>1, FS_StrictSubsetOrderingWellFounded, FS_FiniteSubsetsOfFinite
    <2>2. Without \subseteq SUBSET Domain
      BY DEF Without
    <2> QED BY <1>2, <2>1, <2>2, WFMin
  <1>4. PICK d \in S : TRUE
    OBVIOUS
  <1> DEFINE T == S \ {d}
  <1>5. <<T, S>> \in StrictSubsetOrdering(Domain)
    BY <1>4 DEF StrictSubsetOrdering
  <1>6. T \notin Without
    BY <1>3, <1>5
  <1>7. ASSUME T = {} PROVE FALSE
    BY <1>1, <1>4, <1>7
  <1>8. ASSUME NEW e, Longest(T, e) PROVE FALSE
    <2>1. S \subseteq Domain /\ d \in Domain /\ e \in Domain /\ e \in S
      BY <1>4, <1>8
    <2>2. Length[d] \in Nat /\ Length[e] \in Nat /\ \A c \in S : Length[c] \in Nat
      BY <1>1, <2>1
    <2>3. CASE Length[d] >= Length[e]
      <3>1. Longest(S, d)
        BY <1>8, <2>2, <2>3
      <3> QED BY <3>1
    <2>4. CASE ~(Length[d] >= Length[e])
      <3>1. Longest(S, e)
        BY <1>8, <2>1, <2>2, <2>4
      <3> QED BY <3>1
    <2> QED BY <2>3, <2>4
  <1> QED BY <1>6, <1>7, <1>8

RuleFits ==
    /\ rule \in [Domain -> [Slot -> Key \cup {NoKey, NoRule}]]
    /\ \A d \in Domain, r \in Reader : rule[d][r] # NoKey

LEMMA MostSpecificType ==
    ASSUME RuleFits, NEW s \in Slot, NEW a \in Article, HasRule(s, a)
    PROVE  MostSpecific(s, a) \in Key \cup {NoKey}
  <1> DEFINE D == RulesOf(s, a)
             d == CHOOSE d \in D : \A e \in D : Length[d] >= Length[e]
  <1>1. D \in SUBSET Domain /\ D # {} /\ \A e \in D : rule[e][s] # NoRule
    BY DEF HasRule, RulesOf
  <1>2. d \in D
    <2> HIDE DEF D
    <2> QED BY <1>1, LongestNamed
  <1>3. MostSpecific(s, a) = rule[d][s]
    BY DEF MostSpecific
  <1> HIDE DEF d, D
  <1> QED BY <1>1, <1>2, <1>3 DEF RuleFits

LEMMA EffectiveRuleType ==
    ASSUME RuleFits, NEW s \in Slot, NEW a \in Article
    PROVE  EffectiveRuleFor(s, a) \in Key \cup {NoKey}
  <1>1. Household \in Slot
    BY DEF Slot
  <1> QED BY <1>1, MostSpecificType DEF EffectiveRuleFor

-----------------------------------------------------------------------------
(* What a body may be.                                                     *)

\* The ladder names a rung of its own, or nothing.
LEMMA RunType ==
    ASSUME NEW p, NEW k
    PROVE  Run(p, k) \in (Rung \ {"imported"}) \cup {Nothing}
  <1>1. ASSUME NEW piece, NEW name \in {"trafilatura", "readability"}
        PROVE  BestOf(p, name, piece) \in {"trafilatura", "readability", "feed_body", "page_images"}
    <2>1. OrTheFeedIfRicher(p, name, piece)[1] \in {"trafilatura", "readability", "feed_body"}
      BY DEF OrTheFeedIfRicher
    <2> QED BY <2>1 DEF BestOf, OrThePageImagesIfTextless
  <1>2. BestOf(p, "trafilatura", p.trafilatura) \in Rung \ {"imported"}
    BY <1>1 DEF Rung
  <1>3. BestOf(p, "readability", p.readability) \in Rung \ {"imported"}
    BY <1>1 DEF Rung
  <1> QED BY <1>2, <1>3 DEF Run, Rung, Nothing

\* A body of its columns, which only an import may freeze.
Kept(b) == b \in Body /\ (b.immutable <=> b.rung = "imported")

LEMMA NoBodyIsNone == NoBody \notin Body /\ ~NoBody.immutable /\ NoBody.key = NoKey
  BY DEF NoBody, Body, Rung, Nothing

LEMMA ExtractedType ==
    ASSUME NEW a, NEW k \in Key \cup {NoKey}, Run(Page[a], k) # Nothing
    PROVE  Kept(Extracted(a, k)) /\ ~Extracted(a, k).immutable
  <1> DEFINE n == Run(Page[a], k)
  <1>1. n \in Rung \ {"imported"}
    BY RunType
  <1>2. Extracted(a, k) = [rung |-> n, origin |-> IF n = "feed_body" THEN "feed_body" ELSE "fetched",
                           key |-> k, immutable |-> FALSE, old |-> FALSE]
    BY DEF Extracted
  <1> HIDE DEF n
  <1> QED BY <1>1, <1>2 DEF Kept, Body

LEMMA ImportedType ==
    ASSUME NEW rec, ParamsFor(rec) # NoBody
    PROVE  Kept(ParamsFor(rec))
  BY DEF ParamsFor, Kept, Body, Rung

LEMMA StockedType ==
    ASSUME NEW a, NEW how \in Start
    PROVE  Kept(Stocked(a, how)) \/ (Stocked(a, how) = NoBody /\ how = "failed")
  BY DEF Stocked, Kept, Body, Rung, Start

LEMMA CopyType ==
    ASSUME NEW b, Kept(b)
    PROVE  Kept([b EXCEPT !.key = NoKey])
  BY DEF Kept, Body

-----------------------------------------------------------------------------
(* The invariant.                                                          *)

RowFits(a, s) ==
    /\ current[a][s] = NoBody \/ Kept(current[a][s])
    /\ \A b \in kept[a][s] : Kept(b)

RowsFit ==
    /\ current \in [Article -> [Slot -> Body \cup {NoBody}]]
    /\ kept \in [Article -> [Slot -> SUBSET Body]]
    /\ \A a \in Article, s \in Slot : RowFits(a, s)

\* What a job holds between two of its steps is still so, and a reader's was asked for.
JobFits(a, s, f) ==
    /\ job[a][s][f].at \in {"empty", "stored"} => s = Household
    /\ job[a][s][f].at = "checked" => Run(Page[a], job[a][s][f].key) # Nothing
    /\ job[a][s][f].at = "stored" => current[a][s] # NoBody
    /\ s \in Reader /\ job[a][s][f].at # "none" => <<s, a>> \in asked

JobsFit ==
    /\ job \in [Article -> [Slot -> [BOOLEAN -> Job]]]
    /\ \A a \in Article, s \in Slot, f \in BOOLEAN : JobFits(a, s, f)

ImportFits(r) ==
    import[r].at = "checked" =>
        import[r].records # <<>> /\ ParamsFor(Head(import[r].records)) # NoBody

ImportsFit == import \in [Reader -> Import] /\ \A r \in Reader : ImportFits(r)

\* A rule over an article is a request for a body of one's own of it.
RulesAsk ==
    \A d \in Domain, r \in Reader : \A a \in Under[d] :
        rule[d][r] # NoRule => <<r, a>> \in asked

CountsFit ==
    /\ attempted \subseteq Article /\ failed \subseteq Article
    /\ acts \in 0 .. MaxActs /\ faults \in 0 .. MaxFaults
    /\ asked \subseteq Reader \X Article /\ late \subseteq Article \X Slot

BodiesInv ==
    /\ RuleFits /\ RowsFit /\ JobsFit /\ ImportsFit /\ CountsFit
    /\ RulesAsk /\ CopiesAreAskedFor

LEMMA HouseholdSlot == Household \in Slot /\ Household \notin Reader /\ Reader \subseteq Slot
  BY BodiesConstants DEF Slot

LEMMA NoJobType ==
    /\ NoJob \in Job /\ NoJob.at = "none"
    /\ [NoJob EXCEPT !.at = "queued"] \in Job /\ [NoJob EXCEPT !.at = "queued"].at = "queued"
  BY DEF NoJob, Job

LEMMA ImmutableType ==
    ASSUME RowsFit, NEW a \in Article, NEW s \in Slot
    PROVE  CurrentIsImmutable(a, s) \in BOOLEAN
  <1>1. PICK b : b = current[a][s]
    OBVIOUS
  <1>2. b \in Body \/ b = NoBody
    BY <1>1 DEF RowsFit
  <1>3. b.immutable \in BOOLEAN
    <2>1. CASE b \in Body
      BY <2>1 DEF Body
    <2>2. CASE b = NoBody
      <3>1. NoBody.immutable = FALSE
        BY DEF NoBody
      <3> QED BY <2>2, <3>1
    <2> QED BY <1>2, <2>1, <2>2
  <1> QED BY <1>1, <1>3 DEF CurrentIsImmutable

-----------------------------------------------------------------------------
(* What happens to a job.                                                  *)

\* Nothing: bodies are never taken away, requests never withdrawn.
LEMMA JobsKept ==
    ASSUME JobsFit, UNCHANGED job, asked \subseteq asked',
           \A a \in Article, s \in Slot : current[a][s] # NoBody => current'[a][s] # NoBody
    PROVE  JobsFit'
  BY DEF JobsFit, JobFits

\* A step of its own.
LEMMA JobMoves ==
    ASSUME JobsFit, NEW a \in Article, NEW s \in Slot, NEW f \in BOOLEAN, NEW j \in Job,
           job' = [job EXCEPT ![a][s][f] = j], UNCHANGED asked,
           \A c \in Article, t \in Slot : current[c][t] # NoBody => current'[c][t] # NoBody,
           j.at \in {"empty", "stored"} => s = Household,
           j.at = "checked" => Run(Page[a], j.key) # Nothing,
           j.at = "stored" => current'[a][s] # NoBody,
           j.at # "none" => job[a][s][f].at # "none"
    PROVE  JobsFit'
  <1>1. job' \in [Article -> [Slot -> [BOOLEAN -> Job]]]
    BY DEF JobsFit
  <1>2. ASSUME NEW c \in Article, NEW t \in Slot, NEW g \in BOOLEAN
        PROVE  JobFits(c, t, g)'
    <2>1. CASE c = a /\ t = s /\ g = f
      <3>1. job'[c][t][g] = j
        BY <2>1 DEF JobsFit
      <3>2. JobFits(c, t, g)
        BY DEF JobsFit
      <3> QED BY <2>1, <3>1, <3>2 DEF JobFits
    <2>2. CASE ~(c = a /\ t = s /\ g = f)
      <3>1. job'[c][t][g] = job[c][t][g]
        BY <2>2 DEF JobsFit
      <3>2. JobFits(c, t, g)
        BY DEF JobsFit
      <3> QED BY <3>1, <3>2 DEF JobFits
    <2> QED BY <2>1, <2>2
  <1> QED BY <1>1, <1>2 DEF JobsFit

\* Queued, one or many, with what is already there left alone.
LEMMA JobsQueued ==
    ASSUME JobsFit, NEW wanted, NEW force \in BOOLEAN, Insert(wanted, force),
           UNCHANGED current, asked \subseteq asked',
           \A a \in Article, r \in Reader : <<a, r>> \in wanted => <<r, a>> \in asked'
    PROVE  JobsFit'
  <1>1. job' \in [Article -> [Slot -> [BOOLEAN -> Job]]]
    BY NoJobType DEF JobsFit, Insert
  <1>2. ASSUME NEW a \in Article, NEW s \in Slot, NEW f \in BOOLEAN
        PROVE  JobFits(a, s, f)'
    <2>1. JobFits(a, s, f)
      BY DEF JobsFit
    <2>2. CASE <<a, s>> \in wanted /\ f = force /\ ~Outstanding(a, s, f)
      <3>1. job'[a][s][f].at = "queued"
        BY <2>2, NoJobType DEF Insert
      <3> QED BY <2>2, <3>1 DEF JobFits
    <2>3. CASE ~(<<a, s>> \in wanted /\ f = force /\ ~Outstanding(a, s, f))
      <3>1. job'[a][s][f] = job[a][s][f]
        BY <2>3 DEF Insert
      <3> QED BY <2>1, <3>1 DEF JobFits
    <2> QED BY <2>2, <2>3
  <1> QED BY <1>1, <1>2 DEF JobsFit

-----------------------------------------------------------------------------
(* What happens to a row.                                                  *)

\* Stored beside what is current, or in its place and it kept.
LEMMA ContentInserted ==
    ASSUME RowsFit, late \subseteq Article \X Slot, NEW a \in Article, NEW s \in Slot,
           NEW b, Kept(b), NEW blocked \in BOOLEAN, InsertContent(a, s, b, blocked)
    PROVE  /\ RowsFit' /\ late' \subseteq Article \X Slot
           /\ \A c \in Article, t \in Slot : current'[c][t] = current[c][t] \/ (c = a /\ t = s /\ current'[c][t] = b)
           /\ \A c \in Article, t \in Slot : BodiesOf(c, t)' = BodiesOf(c, t) \/ (c = a /\ t = s)
           /\ BodiesOf(a, s)' = BodiesOf(a, s) \cup {b}
  <1>1. b \in Body /\ b # NoBody
    BY NoBodyIsNone DEF Kept
  <1>2. BodiesOf(a, s) \subseteq Body
    BY DEF RowsFit, BodiesOf
  <1>3. CASE ~blocked
    <2>1. /\ current' = [current EXCEPT ![a][s] = b]
          /\ kept' = [kept EXCEPT ![a][s] = BodiesOf(a, s)]
          /\ late' \subseteq Article \X Slot
      BY <1>3 DEF InsertContent, MakeCurrent
    <2>2. ASSUME NEW c \in Article, NEW t \in Slot
          PROVE  IF c = a /\ t = s
                 THEN current'[c][t] = b /\ kept'[c][t] = BodiesOf(a, s)
                 ELSE current'[c][t] = current[c][t] /\ kept'[c][t] = kept[c][t]
      BY <2>1 DEF RowsFit
    <2>3. ASSUME NEW c \in Article, NEW t \in Slot
          PROVE  RowFits(c, t)'
      <3>1. RowFits(c, t)
        BY DEF RowsFit
      <3> QED BY <2>2, <3>1 DEF RowFits, BodiesOf
    <2>4. RowsFit'
      BY <1>1, <1>2, <2>1, <2>3 DEF RowsFit
    <2>5. BodiesOf(a, s)' = BodiesOf(a, s) \cup {b}
      BY <1>1, <2>2 DEF BodiesOf
    <2> QED BY <2>1, <2>2, <2>4, <2>5 DEF BodiesOf
  <1>4. CASE blocked
    <2>1. /\ kept' = [kept EXCEPT ![a][s] = kept[a][s] \cup {b}]
          /\ UNCHANGED <<current, late>>
      BY <1>4 DEF InsertContent, MakeCurrent
    <2>2. ASSUME NEW c \in Article, NEW t \in Slot
          PROVE  IF c = a /\ t = s THEN kept'[c][t] = kept[a][s] \cup {b} ELSE kept'[c][t] = kept[c][t]
      BY <2>1 DEF RowsFit
    <2>3. ASSUME NEW c \in Article, NEW t \in Slot
          PROVE  RowFits(c, t)'
      <3>1. RowFits(c, t)
        BY DEF RowsFit
      <3> QED BY <2>1, <2>2, <3>1 DEF RowFits
    <2>4. RowsFit'
      BY <1>1, <2>1, <2>3 DEF RowsFit
    <2>5. BodiesOf(a, s)' = BodiesOf(a, s) \cup {b}
      BY <2>1, <2>2 DEF BodiesOf
    <2> QED BY <2>1, <2>2, <2>4, <2>5 DEF BodiesOf
  <1> QED BY <1>3, <1>4

\* A reader's choice becomes theirs, and what they had is kept.
LEMMA CopyPromoted ==
    ASSUME RowsFit, NEW r \in Reader, NEW a \in Article, NEW b, PromoteBody(r, a, b)
    PROVE  /\ RowsFit' /\ Kept([b EXCEPT !.key = NoKey])
           /\ \A c \in Article, t \in Slot :
                 current'[c][t] = IF c = a /\ t = r THEN [b EXCEPT !.key = NoKey] ELSE current[c][t]
           /\ \A c \in Article, t \in Slot : BodiesOf(c, t)' = BodiesOf(c, t) \/ (c = a /\ t = r)
           /\ BodiesOf(a, r)' = BodiesOf(a, r) \cup {[b EXCEPT !.key = NoKey]}
  <1>1. r \in Slot /\ Household \in Slot
    BY HouseholdSlot
  <1>2. RowFits(a, r) /\ RowFits(a, Household)
    BY <1>1 DEF RowsFit
  <1>3. Kept(b)
    BY <1>2 DEF PromoteBody, BodiesForArticle, BodiesOf, RowFits
  <1>4. PICK copy : copy = [b EXCEPT !.key = NoKey]
    OBVIOUS
  <1>5. Kept(copy) /\ copy \in Body /\ copy # NoBody
    BY <1>3, <1>4, CopyType, NoBodyIsNone DEF Kept
  <1>6. /\ current' = [current EXCEPT ![a][r] = copy]
        /\ kept' = [kept EXCEPT ![a][r] = BodiesOf(a, r)]
    BY <1>4 DEF PromoteBody
  <1>7. ASSUME NEW c \in Article, NEW t \in Slot
        PROVE  IF c = a /\ t = r
               THEN current'[c][t] = copy /\ kept'[c][t] = BodiesOf(a, r)
               ELSE current'[c][t] = current[c][t] /\ kept'[c][t] = kept[c][t]
    BY <1>6 DEF RowsFit
  <1>8. ASSUME NEW c \in Article, NEW t \in Slot
        PROVE  RowFits(c, t)'
    <2>1. RowFits(c, t)
      BY DEF RowsFit
    <2> QED BY <1>5, <1>7, <2>1 DEF RowFits, BodiesOf
  <1>9. RowsFit'
    <2>1. BodiesOf(a, r) \subseteq Body
      BY <1>1 DEF RowsFit, BodiesOf
    <2> QED BY <1>5, <1>6, <1>8, <2>1 DEF RowsFit
  <1>10. BodiesOf(a, r)' = BodiesOf(a, r) \cup {copy}
    BY <1>1, <1>5, <1>7 DEF BodiesOf
  <1> QED BY <1>4, <1>5, <1>7, <1>9, <1>10 DEF BodiesOf

-----------------------------------------------------------------------------
(* Each action keeps it.                                                   *)

LEMMA InitInv == Init => BodiesInv
  <1> SUFFICES ASSUME Init PROVE BodiesInv
    OBVIOUS
  <1>1. PICK how \in [Article -> Start] :
           /\ rule = [d \in Domain |-> [s \in Slot |-> NoRule]]
           /\ current = [a \in Article |-> [s \in Slot |->
                            IF s = Household THEN Stocked(a, how[a]) ELSE NoBody]]
           /\ kept = [a \in Article |-> [s \in Slot |-> {}]]
           /\ attempted = {a \in Article : how[a] = "extracted"}
           /\ failed = {a \in Article : how[a] = "failed"}
           /\ job = [a \in Article |-> [s \in Slot |-> [f \in BOOLEAN |-> NoJob]]]
           /\ import = [r \in Reader |-> Idle]
           /\ acts = 0 /\ faults = 0 /\ asked = {} /\ late = {}
    BY DEF Init
  <1>2. RuleFits
    BY <1>1, HouseholdSlot, BodiesConstants DEF RuleFits
  <1>3. RowsFit
    <2>1. ASSUME NEW a \in Article, NEW s \in Slot
          PROVE  (current[a][s] = NoBody \/ Kept(current[a][s])) /\ kept[a][s] = {}
      BY <1>1, StockedType
    <2>2. \A a \in Article, s \in Slot : current[a][s] \in Body \cup {NoBody}
      BY <2>1 DEF Kept
    <2> QED BY <1>1, <2>1, <2>2 DEF RowsFit, RowFits
  <1>4. JobsFit
    BY <1>1, NoJobType DEF JobsFit, JobFits
  <1>5. ImportsFit
    <2>1. Idle \in Import /\ Idle.at = "idle"
      BY EmptySeq DEF Idle, Import
    <2> QED BY <1>1, <2>1 DEF ImportsFit, ImportFits
  <1>6. CountsFit
    BY <1>1, BodiesConstants DEF CountsFit
  <1>7. RulesAsk
    BY <1>1, HouseholdSlot DEF RulesAsk
  <1>8. CopiesAreAskedFor
    BY <1>1, HouseholdSlot DEF CopiesAreAskedFor
  <1> QED BY <1>2, <1>3, <1>4, <1>5, <1>6, <1>7, <1>8 DEF BodiesInv

LEMMA ScheduleReextractionInv == BodiesInv /\ ScheduleReextraction => BodiesInv'
  <1> SUFFICES ASSUME BodiesInv, ScheduleReextraction PROVE BodiesInv'
    OBVIOUS
  <1> USE DEF BodiesInv
  <1>1. Insert(StaleBodies, FALSE) /\ UNCHANGED <<rule, current, kept, attempted, failed, import, bounds, history>>
    BY DEF ScheduleReextraction
  <1>2. ASSUME NEW a \in Article, NEW r \in Reader, <<a, r>> \in StaleBodies
        PROVE  <<r, a>> \in asked'
    <2>1. HasRule(r, a)
      BY <1>2 DEF StaleBodies, Stale
    <2>2. PICK d \in Domain : a \in Under[d] /\ rule[d][r] # NoRule
      BY <2>1 DEF HasRule, RulesOf
    <2> QED BY <1>1, <2>2 DEF RulesAsk, history
  <1>3. JobsFit'
    BY <1>1, <1>2, JobsQueued DEF history
  <1> QED BY <1>1, <1>3 DEF RuleFits, RowsFit, RowFits, ImportsFit, ImportFits, CountsFit, RulesAsk,
             CopiesAreAskedFor, bounds, history, BodiesOf

LEMMA ActCounts ==
    ASSUME CountsFit, Act, UNCHANGED <<attempted, failed, late>>, asked' \subseteq Reader \X Article
    PROVE  CountsFit'
  BY BodiesConstants DEF CountsFit, Act

\* Queueing for a rule reaches the articles of its domain; queueing again, whoever has a body.
LEMMA WhoIsQueued ==
    ASSUME BodiesInv
    PROVE  /\ \A r \in Reader, d \in Domain : ArticlesUnderRule(r, d) \subseteq Under[d]
           /\ \A r \in Reader, every \in BOOLEAN, scope \in SUBSET Article :
                 \A a \in ReextractCandidates(r, every, scope) : a \in Article /\ <<r, a>> \in asked
           /\ \A d \in Domain : Under[d] \subseteq Article
  BY HouseholdSlot, BodiesConstants
     DEF BodiesInv, ArticlesUnderRule, ReextractCandidates, CopiesAreAskedFor

LEMMA RequeueInv ==
    ASSUME BodiesInv, NEW s \in Slot, NEW every \in BOOLEAN, NEW scope \in SUBSET Article,
           QueueReextraction(s, every, scope), UNCHANGED <<current, asked>>
    PROVE  JobsFit'
  <1> DEFINE W == {<<a, s>> : a \in ReextractCandidates(s, every, scope)}
  <1>1. Insert(W, TRUE)
    BY DEF QueueReextraction
  <1>2. ASSUME NEW a \in Article, NEW r \in Reader, <<a, r>> \in W
        PROVE  <<r, a>> \in asked'
    BY <1>2, WhoIsQueued
  <1> HIDE DEF W
  <1> QED BY <1>1, <1>2, JobsQueued DEF BodiesInv

LEMMA RuleQueuedInv ==
    ASSUME BodiesInv, NEW s \in Slot, NEW d \in Domain, QueueRuleExtraction(s, d),
           UNCHANGED current, asked \subseteq asked',
           s \in Reader => {s} \X Under[d] \subseteq asked'
    PROVE  JobsFit'
  <1> DEFINE W == {<<a, s>> : a \in ArticlesUnderRule(s, d)}
  <1>1. Insert(W, TRUE)
    BY DEF QueueRuleExtraction
  <1>2. ASSUME NEW a \in Article, NEW r \in Reader, <<a, r>> \in W
        PROVE  <<r, a>> \in asked'
    <2>1. r = s /\ a \in Under[d]
      BY <1>2, WhoIsQueued
    <2> QED BY <2>1
  <1> HIDE DEF W
  <1> QED BY <1>1, <1>2, JobsQueued DEF BodiesInv

LEMMA SaveRuleInv ==
    ASSUME BodiesInv, NEW r \in Reader, NEW d \in Domain, HandleSaveDomainRule(r, d)
    PROVE  BodiesInv'
  <1> USE DEF BodiesInv
  <1>1. PICK s \in Slot, k \in Key \cup {NoKey} :
           /\ MayWrite(r, s) /\ ~Refused(s, k)
           /\ IF s = Household THEN UpsertDomainRule(d, k) ELSE UpsertReaderRule(r, d, k)
           /\ QueueRuleExtraction(s, d) \/ UNCHANGED job
           /\ IF s = Household THEN UNCHANGED asked ELSE Asks(r, Under[d])
    BY DEF HandleSaveDomainRule
  <1>2. Act /\ UNCHANGED <<current, kept, attempted, failed, import, late>>
    BY DEF HandleSaveDomainRule
  <1>3. s = r \/ s = Household
    BY <1>1 DEF MayWrite
  <1>4. rule' = [rule EXCEPT ![d][s] = k] /\ (s # Household => k # NoKey)
    BY <1>1, <1>3 DEF UpsertDomainRule, UpsertReaderRule, Refused
  <1>5. /\ asked \subseteq asked' /\ asked' \subseteq Reader \X Article
        /\ s \in Reader => {s} \X Under[d] \subseteq asked'
    <2>1. Under[d] \subseteq Article
      BY WhoIsQueued
    <2> QED BY <1>1, <1>3, <2>1, HouseholdSlot DEF Asks, CountsFit
  <1>6. JobsFit'
    <2>1. CASE QueueRuleExtraction(s, d)
      BY <1>2, <1>5, <2>1, RuleQueuedInv
    <2>2. CASE UNCHANGED job
      BY <1>2, <1>5, <2>2, JobsKept
    <2> QED BY <1>1, <2>1, <2>2
  <1>7. ASSUME NEW e \in Domain, NEW t \in Slot
        PROVE  rule'[e][t] = IF e = d /\ t = s THEN k ELSE rule[e][t]
    BY <1>4 DEF RuleFits
  <1>8. RuleFits'
    <2>1. rule' \in [Domain -> [Slot -> Key \cup {NoKey, NoRule}]]
      BY <1>4 DEF RuleFits
    <2> QED BY <1>4, <1>7, <2>1, HouseholdSlot DEF RuleFits
  <1>9. RulesAsk'
    <2> SUFFICES ASSUME NEW e \in Domain, NEW t \in Reader, NEW a \in Under[e], rule'[e][t] # NoRule
                 PROVE  <<t, a>> \in asked'
      BY DEF RulesAsk
    <2>1. t \in Slot
      BY HouseholdSlot
    <2>2. CASE e = d /\ t = s
      BY <1>5, <2>2
    <2>3. CASE ~(e = d /\ t = s)
      BY <1>5, <1>7, <2>1, <2>3 DEF RulesAsk
    <2> QED BY <2>2, <2>3
  <1>10. CountsFit'
    BY <1>2, <1>5, ActCounts
  <1>11. CopiesAreAskedFor'
    BY <1>2, <1>5 DEF CopiesAreAskedFor
  <1> QED BY <1>2, <1>6, <1>8, <1>9, <1>10, <1>11
         DEF RowsFit, RowFits, ImportsFit, ImportFits

LEMMA SetRuleInv ==
    ASSUME BodiesInv, NEW d \in Domain, DomainRuleSet(d)
    PROVE  BodiesInv'
  <1> USE DEF BodiesInv
  <1>1. PICK k \in Key \cup {NoKey} : rule' = [rule EXCEPT ![d][Household] = k]
    BY DEF DomainRuleSet, UpsertDomainRule
  <1>2. Act /\ UNCHANGED <<current, kept, attempted, failed, job, import, history>>
    BY DEF DomainRuleSet
  <1>3. \A e \in Domain, r \in Reader : rule'[e][r] = rule[e][r]
    BY <1>1, HouseholdSlot DEF RuleFits
  <1>4. RuleFits'
    <2>1. rule' \in [Domain -> [Slot -> Key \cup {NoKey, NoRule}]]
      BY <1>1, HouseholdSlot DEF RuleFits
    <2> QED BY <1>3, <2>1 DEF RuleFits
  <1>5. RulesAsk'
    BY <1>2, <1>3 DEF RulesAsk, history
  <1>6. CountsFit'
    <2>1. asked' \subseteq Reader \X Article
      BY <1>2 DEF history, CountsFit
    <2> QED BY <1>2, <2>1, ActCounts DEF history
  <1>7. JobsFit'
    BY <1>2, JobsKept DEF history
  <1> QED BY <1>2, <1>4, <1>5, <1>6, <1>7
         DEF RowsFit, RowFits, ImportsFit, ImportFits, CopiesAreAskedFor, history

LEMMA DeleteRuleInv ==
    ASSUME BodiesInv, NEW d \in Domain, HandleDeleteDomainRule(d)
    PROVE  BodiesInv'
  <1> USE DEF BodiesInv
  <1>1. rule' = [rule EXCEPT ![d] = [s \in Slot |-> NoRule]]
    BY DEF HandleDeleteDomainRule, DeleteDomainRule
  <1>2. Act /\ UNCHANGED <<current, kept, attempted, failed, job, import, history>>
    BY DEF HandleDeleteDomainRule
  <1>3. \A e \in Domain, r \in Reader : rule'[e][r] = IF e = d THEN NoRule ELSE rule[e][r]
    BY <1>1, HouseholdSlot DEF RuleFits
  <1>4. RuleFits'
    <2>1. rule' \in [Domain -> [Slot -> Key \cup {NoKey, NoRule}]]
      BY <1>1 DEF RuleFits
    <2> QED BY <1>3, <2>1, BodiesConstants DEF RuleFits
  <1>5. RulesAsk'
    BY <1>2, <1>3 DEF RulesAsk, history
  <1>6. CountsFit'
    <2>1. asked' \subseteq Reader \X Article
      BY <1>2 DEF history, CountsFit
    <2> QED BY <1>2, <2>1, ActCounts DEF history
  <1>7. JobsFit'
    BY <1>2, JobsKept DEF history
  <1> QED BY <1>2, <1>4, <1>5, <1>6, <1>7
         DEF RowsFit, RowFits, ImportsFit, ImportFits, CopiesAreAskedFor, history

LEMMA ReprocessDomainInv ==
    ASSUME BodiesInv, NEW r \in Reader, NEW d \in Domain, HandleReprocessDomain(r, d)
    PROVE  BodiesInv'
  <1> USE DEF BodiesInv
  <1>1. Act /\ UNCHANGED <<rule, current, kept, attempted, failed, import, late>>
    BY DEF HandleReprocessDomain
  <1>2. /\ Household \in Slot /\ r \in Slot /\ Under[d] \in SUBSET Article
    BY HouseholdSlot, WhoIsQueued
  <1>3. asked \subseteq asked' /\ asked' \subseteq Reader \X Article
    BY <1>2 DEF HandleReprocessDomain, Asks, CountsFit
  <1>4. JobsFit'
    <2>1. CASE QueueReextraction(Household, TRUE, Under[d]) /\ UNCHANGED asked
      BY <1>1, <1>2, <2>1, RequeueInv
    <2>2. CASE QueueRuleExtraction(r, d) /\ Asks(r, Under[d])
      <3>1. {r} \X Under[d] \subseteq asked'
        BY <2>2 DEF Asks
      <3> QED BY <1>1, <1>2, <1>3, <2>2, <3>1, RuleQueuedInv
    <2> QED BY <2>1, <2>2 DEF HandleReprocessDomain
  <1>5. CountsFit'
    BY <1>1, <1>3, ActCounts
  <1> QED BY <1>1, <1>3, <1>4, <1>5
         DEF RuleFits, RowsFit, RowFits, ImportsFit, ImportFits, RulesAsk, CopiesAreAskedFor

\* Whoever asks for the archive to be extracted again.
LEMMA ReextractionInv ==
    ASSUME BodiesInv, NEW s \in Slot, NEW every \in BOOLEAN, NEW scope \in SUBSET Article,
           QueueReextraction(s, every, scope), Act,
           UNCHANGED <<rule, current, kept, attempted, failed, import, history>>
    PROVE  BodiesInv'
  <1> USE DEF BodiesInv
  <1>1. UNCHANGED <<asked, late>>
    BY DEF history
  <1>2. JobsFit'
    BY <1>1, RequeueInv
  <1>3. CountsFit'
    <2>1. asked' \subseteq Reader \X Article
      BY <1>1 DEF CountsFit
    <2> QED BY <1>1, <2>1, ActCounts
  <1> QED BY <1>1, <1>2, <1>3
         DEF RuleFits, RowsFit, RowFits, ImportsFit, ImportFits, RulesAsk, CopiesAreAskedFor

LEMMA ReprocessInv ==
    ASSUME BodiesInv, NEW r \in Reader, HandleReprocess(r)
    PROVE  BodiesInv'
  <1>1. PICK s \in Slot, every \in BOOLEAN : QueueReextraction(s, every, Article)
    BY DEF HandleReprocess
  <1>2. Act /\ UNCHANGED <<rule, current, kept, attempted, failed, import, history>>
    BY DEF HandleReprocess
  <1>3. Article \in SUBSET Article
    OBVIOUS
  <1> QED BY <1>1, <1>2, <1>3, ReextractionInv

LEMMA ReextractInv == BodiesInv /\ Reextract => BodiesInv'
  <1> SUFFICES ASSUME BodiesInv, Reextract PROVE BodiesInv'
    OBVIOUS
  <1>1. PICK s \in Slot, every \in BOOLEAN, scope \in {Article} \cup {Under[d] : d \in Domain} :
           QueueReextraction(s, every, scope)
    BY DEF Reextract
  <1>2. Act /\ UNCHANGED <<rule, current, kept, attempted, failed, import, history>>
    BY DEF Reextract
  <1>3. scope \in SUBSET Article
    BY WhoIsQueued
  <1> QED BY <1>1, <1>2, <1>3, ReextractionInv

LEMMA PromoteInv ==
    ASSUME BodiesInv, NEW r \in Reader, NEW a \in Article, HandlePromoteBody(r, a)
    PROVE  BodiesInv'
  <1> USE DEF BodiesInv
  <1>1. PICK b : PromoteBody(r, a, b)
    BY DEF HandlePromoteBody
  <1>2. /\ Act /\ asked' = asked \cup ({r} \X {a})
        /\ UNCHANGED <<rule, attempted, failed, job, import, late>>
    BY DEF HandlePromoteBody, Asks
  <1>3. PICK copy : copy = [b EXCEPT !.key = NoKey]
    OBVIOUS
  <1>4. /\ RowsFit' /\ Kept(copy)
        /\ \A c \in Article, t \in Slot :
              current'[c][t] = IF c = a /\ t = r THEN copy ELSE current[c][t]
    BY <1>1, <1>3, CopyPromoted
  <1>5. copy # NoBody
    BY <1>4, NoBodyIsNone DEF Kept
  <1>6. JobsFit'
    BY <1>2, <1>4, <1>5, JobsKept
  <1>7. CopiesAreAskedFor'
    BY <1>2, <1>4, HouseholdSlot DEF CopiesAreAskedFor
  <1>8. CountsFit'
    <2>1. asked' \subseteq Reader \X Article
      BY <1>2 DEF CountsFit
    <2> QED BY <1>2, <2>1, ActCounts
  <1> QED BY <1>2, <1>4, <1>6, <1>7, <1>8
         DEF RuleFits, ImportsFit, ImportFits, RulesAsk

-----------------------------------------------------------------------------
(* An extraction.                                                          *)

LEMMA ResolveInv ==
    ASSUME BodiesInv, NEW a \in Article, NEW s \in Slot, NEW f \in BOOLEAN, Resolve(a, s, f)
    PROVE  BodiesInv'
  <1> USE DEF BodiesInv
  <1>1. PICK k \in Key \cup {NoKey} : k = EffectiveRuleFor(s, a)
    BY EffectiveRuleType
  <1>2. /\ job[a][s][f].at = "queued"
        /\ UNCHANGED <<rule, current, kept, attempted, failed, import, bounds, history>>
    BY DEF Resolve, At
  <1>3. PICK x \in Job : x = job[a][s][f]
    BY DEF JobsFit
  <1>4. PICK j \in Job : /\ job' = [job EXCEPT ![a][s][f] = j]
                         /\ j = NoJob \/ j.at = "resolved"
    <2>1. CASE Done(a, s, f)
      BY <2>1, NoJobType DEF Done
    <2>2. CASE job' = [job EXCEPT ![a][s][f] = [x EXCEPT !.at = "resolved", !.key = k]]
      <3>1. [x EXCEPT !.at = "resolved", !.key = k] \in Job
        BY DEF Job
      <3>2. [x EXCEPT !.at = "resolved", !.key = k].at = "resolved"
        BY DEF Job
      <3> QED BY <2>2, <3>1, <3>2
    <2>3. Done(a, s, f) \/ job' = [job EXCEPT ![a][s][f] = [x EXCEPT !.at = "resolved", !.key = k]]
      BY <1>1, <1>3 DEF Resolve, JobsFit
    <2> QED BY <2>1, <2>2, <2>3
  <1>5. JobsFit'
    BY <1>2, <1>4, JobMoves, NoJobType DEF history
  <1> QED BY <1>2, <1>5 DEF RuleFits, RowsFit, RowFits, ImportsFit, ImportFits, CountsFit, RulesAsk,
             CopiesAreAskedFor, bounds, history

LEMMA ExtractInv ==
    ASSUME BodiesInv, NEW a \in Article, NEW s \in Slot, NEW f \in BOOLEAN, Extract(a, s, f)
    PROVE  BodiesInv'
  <1> USE DEF BodiesInv
  <1>1. /\ job[a][s][f].at = "resolved" /\ attempted' \subseteq Article
        /\ UNCHANGED <<rule, current, kept, failed, import, bounds, history>>
    BY DEF Extract, At, RecordExtractAttempt, CountsFit
  <1>2. PICK x \in Job : x = job[a][s][f]
    BY DEF JobsFit
  <1>3. CurrentIsImmutable(a, s) \in BOOLEAN
    BY ImmutableType
  <1>4. PICK j \in Job : /\ job' = [job EXCEPT ![a][s][f] = j]
                         /\ \/ j = NoJob
                            \/ j.at = "empty" /\ s = Household
                            \/ j.at = "checked" /\ Run(Page[a], j.key) # Nothing
    <2>1. CASE Done(a, s, f)
      BY <2>1, NoJobType DEF Done
    <2>2. CASE IsAFailure(a, s) /\ job' = [job EXCEPT ![a][s][f].at = "empty"]
      <3> DEFINE j == [x EXCEPT !.at = "empty"]
      <3>1. j \in Job /\ j.at = "empty"
        BY DEF Job
      <3>2. job' = [job EXCEPT ![a][s][f] = j]
        BY <1>2, <2>2 DEF JobsFit
      <3> QED BY <2>2, <3>1, <3>2 DEF IsAFailure
    <2>3. CASE /\ Run(Page[a], x.key) # Nothing
               /\ job' = [job EXCEPT ![a][s][f] =
                             [x EXCEPT !.at = "checked", !.blocked = CurrentIsImmutable(a, s)]]
      <3> DEFINE j == [x EXCEPT !.at = "checked", !.blocked = CurrentIsImmutable(a, s)]
      <3>1. j \in Job /\ j.at = "checked" /\ j.key = x.key
        BY <1>3 DEF Job
      <3> HIDE DEF j
      <3> QED BY <2>3, <3>1 DEF j
    <2>4. \/ Done(a, s, f)
          \/ IsAFailure(a, s) /\ job' = [job EXCEPT ![a][s][f].at = "empty"]
          \/ /\ Run(Page[a], x.key) # Nothing
             /\ job' = [job EXCEPT ![a][s][f] =
                           [x EXCEPT !.at = "checked", !.blocked = CurrentIsImmutable(a, s)]]
      BY <1>2 DEF Extract, JobsFit
    <2> QED BY <2>1, <2>2, <2>3, <2>4
  <1>5. JobsFit'
    BY <1>1, <1>4, JobMoves, NoJobType DEF history
  <1> QED BY <1>1, <1>5 DEF RuleFits, RowsFit, RowFits, ImportsFit, ImportFits, CountsFit, RulesAsk,
             CopiesAreAskedFor, bounds, history

LEMMA RecordFailureInv ==
    ASSUME BodiesInv, NEW a \in Article, NEW s \in Slot, NEW f \in BOOLEAN, RecordFetchFailure(a, s, f)
    PROVE  BodiesInv'
  <1> USE DEF BodiesInv
  <1>1. /\ UNCHANGED <<rule, current, kept, attempted, import, bounds, asked>>
        /\ failed' \subseteq Article /\ late' \subseteq Article \X Slot
    BY HouseholdSlot DEF RecordFetchFailure, CountsFit
  <1>2. job' = [job EXCEPT ![a][s][f] = NoJob]
    BY DEF RecordFetchFailure, Done
  <1>3. JobsFit'
    BY <1>1, <1>2, JobMoves, NoJobType
  <1> QED BY <1>1, <1>3 DEF RuleFits, RowsFit, RowFits, ImportsFit, ImportFits, CountsFit, RulesAsk,
             CopiesAreAskedFor, bounds

LEMMA StoreInv ==
    ASSUME BodiesInv, NEW a \in Article, NEW s \in Slot, NEW f \in BOOLEAN, Store(a, s, f)
    PROVE  BodiesInv'
  <1> USE DEF BodiesInv
  <1>1. PICK x \in Job : x = job[a][s][f]
    BY DEF JobsFit
  <1>2. x.key \in Key \cup {NoKey} /\ x.blocked \in BOOLEAN
    BY DEF Job
  <1>3. JobFits(a, s, f) /\ x.at = "checked"
    BY <1>1 DEF JobsFit, Store, At
  <1>4. PICK b : b = Extracted(a, x.key)
    OBVIOUS
  <1>5. Kept(b) /\ b # NoBody
    <2>1. Kept(b)
      BY <1>1, <1>2, <1>3, <1>4, ExtractedType DEF JobFits
    <2> QED BY <2>1, NoBodyIsNone DEF Kept
  <1>6. InsertContent(a, s, b, x.blocked) /\ UNCHANGED <<rule, attempted, failed, import, bounds, asked>>
    BY <1>1, <1>4 DEF Store
  <1>7. /\ RowsFit' /\ late' \subseteq Article \X Slot
        /\ \A c \in Article, t \in Slot : current'[c][t] = current[c][t] \/ (c = a /\ t = s /\ current'[c][t] = b)
    BY <1>2, <1>5, <1>6, ContentInserted DEF CountsFit
  <1>8. \A c \in Article, t \in Slot : current[c][t] # NoBody => current'[c][t] # NoBody
    BY <1>5, <1>7
  <1>9. JobsFit'
    <2>1. CASE Done(a, s, f)
      <3>1. job' = [job EXCEPT ![a][s][f] = NoJob]
        BY <2>1 DEF Done
      <3> QED BY <1>6, <1>8, <3>1, JobMoves, NoJobType
    <2>2. CASE ~x.blocked /\ s = Household /\ job' = [job EXCEPT ![a][s][f].at = "stored"]
      <3> DEFINE j == [x EXCEPT !.at = "stored"]
      <3>1. j \in Job /\ j.at = "stored"
        BY DEF Job
      <3>2. job' = [job EXCEPT ![a][s][f] = j]
        BY <1>1, <2>2 DEF JobsFit
      <3>3. current'[a][s] = b
        BY <1>6, <2>2 DEF InsertContent, MakeCurrent, RowsFit
      <3>4. job[a][s][f].at # "none"
        BY <1>1, <1>3
      <3>5. current'[a][s] # NoBody /\ s = Household /\ UNCHANGED asked
        BY <1>5, <1>6, <2>2, <3>3
      <3> HIDE DEF j
      <3> QED BY <1>8, <3>1, <3>2, <3>4, <3>5, JobMoves
    <2> QED BY <1>1, <2>1, <2>2 DEF Store, MakeCurrent
  <1>10. CopiesAreAskedFor'
    <2>1. s \in Reader => <<s, a>> \in asked
      BY <1>1, <1>3 DEF JobFits
    <2> QED BY <1>6, <1>7, <2>1, HouseholdSlot DEF CopiesAreAskedFor
  <1> QED BY <1>6, <1>7, <1>9, <1>10 DEF RuleFits, ImportsFit, ImportFits, CountsFit, RulesAsk, bounds

LEMMA ClearFailureInv ==
    ASSUME BodiesInv, NEW a \in Article, NEW s \in Slot, NEW f \in BOOLEAN, ClearExtractionFailure(a, s, f)
    PROVE  BodiesInv'
  <1> USE DEF BodiesInv
  <1>1. /\ UNCHANGED <<rule, current, kept, attempted, import, bounds, history>>
        /\ failed' \subseteq Article
    BY DEF ClearExtractionFailure, CountsFit
  <1>2. job' = [job EXCEPT ![a][s][f] = NoJob]
    BY DEF ClearExtractionFailure, Done
  <1>3. JobsFit'
    BY <1>1, <1>2, JobMoves, NoJobType DEF history
  <1> QED BY <1>1, <1>3 DEF RuleFits, RowsFit, RowFits, ImportsFit, ImportFits, CountsFit, RulesAsk,
             CopiesAreAskedFor, bounds, history

LEMMA RetryInv ==
    ASSUME BodiesInv, NEW a \in Article, NEW s \in Slot, NEW f \in BOOLEAN, Retry(a, s, f)
    PROVE  BodiesInv'
  <1> USE DEF BodiesInv
  <1>1. /\ UNCHANGED <<rule, current, kept, attempted, failed, import, acts, history>>
        /\ faults < MaxFaults /\ faults' = faults + 1
    BY DEF Retry
  <1>2. PICK j \in Job : /\ j.at = "queued" /\ job' = [job EXCEPT ![a][s][f] = j]
    BY NoJobType DEF Retry
  <1>3. job[a][s][f].at # "none"
    BY DEF Retry
  <1>4. JobsFit'
    BY <1>1, <1>2, <1>3, JobMoves DEF history
  <1>5. CountsFit'
    BY <1>1, BodiesConstants DEF CountsFit, history
  <1> QED BY <1>1, <1>4, <1>5 DEF RuleFits, RowsFit, RowFits, ImportsFit, ImportFits, RulesAsk,
             CopiesAreAskedFor, history

-----------------------------------------------------------------------------
(* An import.                                                              *)

LEMMA IdleType == Idle \in Import /\ Idle.at = "idle"
  BY EmptySeq DEF Idle, Import

\* Whatever one reader's import comes to.
LEMMA ImportMoves ==
    ASSUME ImportsFit, NEW r \in Reader, NEW i \in Import, import' = [import EXCEPT ![r] = i],
           i.at = "checked" => i.records # <<>> /\ ParamsFor(Head(i.records)) # NoBody
    PROVE  ImportsFit'
  <1>1. ASSUME NEW q \in Reader
        PROVE  ImportFits(q)'
    <2>1. ImportFits(q)
      BY DEF ImportsFit
    <2>2. import'[q] = IF q = r THEN i ELSE import[q]
      BY DEF ImportsFit
    <2> QED BY <2>1, <2>2 DEF ImportFits
  <1> QED BY <1>1 DEF ImportsFit

\* The record in hand is dealt with.
LEMMA NextRecordType ==
    ASSUME ImportsFit, NEW r \in Reader, import[r].records # <<>>
    PROVE  Next1(r) \in Import /\ Next1(r).at = "next"
  <1>1. PICK x \in Import : x = import[r]
    BY DEF ImportsFit
  <1>2. x.records \in Seq(Record) /\ x.records # <<>>
    BY <1>1 DEF Import
  <1>3. Tail(x.records) \in Seq(Record)
    BY <1>2, HeadTailProperties
  <1>4. Next1(r) = [x EXCEPT !.at = "next", !.blocked = FALSE, !.records = Tail(x.records)]
    BY <1>1 DEF Next1
  <1> QED BY <1>3, <1>4 DEF Import

LEMMA StartImportInv ==
    ASSUME BodiesInv, NEW r \in Reader, HandleImportLibrary(r)
    PROVE  BodiesInv'
  <1> USE DEF BodiesInv
  <1>1. PICK f \in File : import' = [import EXCEPT ![r] = [Idle EXCEPT !.at = "next", !.records = f.records]]
    BY DEF HandleImportLibrary
  <1>2. Act /\ UNCHANGED <<rule, current, kept, attempted, failed, job, history>>
    BY DEF HandleImportLibrary
  <1>3. f.records \in Seq(Record)
    BY BodiesConstants
  <1>4. PICK i \in Import : i.at = "next" /\ import' = [import EXCEPT ![r] = i]
    BY <1>1, <1>3 DEF Idle, Import
  <1>5. ImportsFit'
    BY <1>4, ImportMoves
  <1>6. CountsFit'
    <2>1. asked' \subseteq Reader \X Article
      BY <1>2 DEF history, CountsFit
    <2> QED BY <1>2, <2>1, ActCounts DEF history
  <1>7. JobsFit'
    BY <1>2, JobsKept DEF history
  <1> QED BY <1>2, <1>5, <1>6, <1>7 DEF RuleFits, RowsFit, RowFits, RulesAsk, CopiesAreAskedFor, history

\* What changes no row, rule or count leaves the rest as it was.
LEMMA ImportOnly ==
    ASSUME BodiesInv, ImportsFit', CountsFit',
           UNCHANGED <<rule, current, kept, attempted, failed, job, history>>
    PROVE  BodiesInv'
  <1> USE DEF BodiesInv
  <1>1. JobsFit'
    BY JobsKept DEF history
  <1> QED BY <1>1 DEF RuleFits, RowsFit, RowFits, RulesAsk, CopiesAreAskedFor, history

LEMMA CheckRecordInv ==
    ASSUME BodiesInv, NEW r \in Reader, CheckRecord(r)
    PROVE  BodiesInv'
  <1> USE DEF BodiesInv
  <1>1. PICK x \in Import : x = import[r]
    BY DEF ImportsFit
  <1>2. x.records # <<>> /\ x.records \in Seq(Record)
    BY <1>1 DEF CheckRecord, Import
  <1>3. PICK rec \in Record : rec = Head(x.records)
    BY <1>2, HeadTailProperties
  <1>4. rec.article \in Article
    BY DEF Record
  <1>5. CurrentIsImmutable(rec.article, Household) \in BOOLEAN
    BY <1>4, HouseholdSlot, ImmutableType
  <1>6. PICK i \in Import : /\ import' = [import EXCEPT ![r] = i]
                            /\ i.at = "checked" => i.records = x.records /\ ParamsFor(rec) # NoBody
    <2>1. CASE import' = [import EXCEPT ![r] = Next1(r)]
      BY <1>1, <1>2, <2>1, NextRecordType
    <2>2. CASE /\ ParamsFor(rec) # NoBody
               /\ import' = [import EXCEPT ![r] =
                     [x EXCEPT !.at = "checked", !.blocked = CurrentIsImmutable(rec.article, Household)]]
      <3> DEFINE i == [x EXCEPT !.at = "checked", !.blocked = CurrentIsImmutable(rec.article, Household)]
      <3>1. i \in Import /\ i.records = x.records
        BY <1>5 DEF Import
      <3> HIDE DEF i
      <3> QED BY <2>2, <3>1 DEF i
    <2> QED BY <1>1, <1>3, <2>1, <2>2 DEF CheckRecord, ImportsFit
  <1>7. ImportsFit'
    BY <1>2, <1>3, <1>6, ImportMoves
  <1>8. UNCHANGED <<rule, current, kept, attempted, failed, job, bounds, history>>
    BY DEF CheckRecord
  <1>9. CountsFit'
    BY <1>8 DEF CountsFit, bounds, history
  <1> QED BY <1>7, <1>8, <1>9, ImportOnly

LEMMA ImportArticleInv ==
    ASSUME BodiesInv, NEW r \in Reader, ImportArticle(r)
    PROVE  BodiesInv'
  <1> USE DEF BodiesInv
  <1>1. PICK x \in Import : x = import[r]
    BY DEF ImportsFit
  <1>2. x.at = "checked" /\ ImportFits(r)
    BY <1>1 DEF ImportArticle, ImportsFit
  <1>3. x.records # <<>> /\ x.records \in Seq(Record) /\ x.blocked \in BOOLEAN
    BY <1>1, <1>2 DEF ImportFits, Import
  <1>4. PICK rec \in Record : rec = Head(x.records)
    BY <1>3, HeadTailProperties
  <1>5. PICK a \in Article : a = rec.article
    BY DEF Record
  <1>6. PICK b : b = ParamsFor(rec)
    OBVIOUS
  <1>7. Kept(b) /\ b # NoBody
    BY <1>1, <1>2, <1>4, <1>6, ImportedType DEF ImportFits
  <1>8. /\ InsertContent(a, Household, b, x.blocked)
        /\ import' = [import EXCEPT ![r] = Next1(r)]
        /\ UNCHANGED <<rule, attempted, failed, job, bounds, asked>>
    BY <1>1, <1>4, <1>5, <1>6 DEF ImportArticle
  <1>9. /\ RowsFit' /\ late' \subseteq Article \X Slot
        /\ \A c \in Article, t \in Slot :
              current'[c][t] = current[c][t] \/ (c = a /\ t = Household /\ current'[c][t] = b)
    BY <1>3, <1>7, <1>8, HouseholdSlot, ContentInserted DEF CountsFit
  <1>10. JobsFit'
    <2>1. \A c \in Article, t \in Slot : current[c][t] # NoBody => current'[c][t] # NoBody
      BY <1>7, <1>9
    <2> QED BY <1>8, <2>1, JobsKept
  <1>11. ImportsFit'
    BY <1>1, <1>3, <1>8, NextRecordType, ImportMoves
  <1>12. CopiesAreAskedFor'
    BY <1>8, <1>9, HouseholdSlot DEF CopiesAreAskedFor
  <1> QED BY <1>8, <1>9, <1>10, <1>11, <1>12 DEF RuleFits, CountsFit, RulesAsk, bounds

LEMMA EndImportInv ==
    ASSUME BodiesInv, NEW r \in Reader, FinishImport(r) \/ StopImport(r)
    PROVE  BodiesInv'
  <1> USE DEF BodiesInv
  <1>1. /\ import' = [import EXCEPT ![r] = Idle]
        /\ UNCHANGED <<rule, current, kept, attempted, failed, job, history, acts>>
        /\ faults' = faults \/ (faults < MaxFaults /\ faults' = faults + 1)
    BY DEF FinishImport, StopImport, bounds
  <1>2. ImportsFit'
    BY <1>1, IdleType, ImportMoves
  <1>3. CountsFit'
    BY <1>1, BodiesConstants DEF CountsFit, history
  <1> QED BY <1>1, <1>2, <1>3, ImportOnly

-----------------------------------------------------------------------------
LEMMA NextInv == BodiesInv /\ [Next]_vars => BodiesInv'
  <1> SUFFICES ASSUME BodiesInv, [Next]_vars PROVE BodiesInv'
    OBVIOUS
  <1>1. CASE ScheduleReextraction
    BY <1>1, ScheduleReextractionInv
  <1>2. ASSUME NEW a \in Article, NEW s \in Slot, NEW f \in BOOLEAN, Work(a, s, f) \/ Retry(a, s, f)
        PROVE  BodiesInv'
    BY <1>2, ResolveInv, ExtractInv, RecordFailureInv, StoreInv, ClearFailureInv, RetryInv DEF Work
  <1>3. ASSUME NEW r \in Reader, NEW d \in Domain,
               HandleSaveDomainRule(r, d) \/ HandleReprocessDomain(r, d)
        PROVE  BodiesInv'
    BY <1>3, SaveRuleInv, ReprocessDomainInv
  <1>4. ASSUME NEW d \in Domain, DomainRuleSet(d) \/ HandleDeleteDomainRule(d)
        PROVE  BodiesInv'
    BY <1>4, SetRuleInv, DeleteRuleInv
  <1>5. ASSUME NEW r \in Reader, HandleReprocess(r) \/ \E a \in Article : HandlePromoteBody(r, a)
        PROVE  BodiesInv'
    BY <1>5, ReprocessInv, PromoteInv
  <1>6. CASE Reextract
    BY <1>6, ReextractInv
  <1>7. ASSUME NEW r \in Reader,
               HandleImportLibrary(r) \/ CheckRecord(r) \/ ImportArticle(r) \/ FinishImport(r) \/ StopImport(r)
        PROVE  BodiesInv'
    BY <1>7, StartImportInv, CheckRecordInv, ImportArticleInv, EndImportInv
  <1>8. CASE UNCHANGED vars
    <2> USE DEF BodiesInv
    <2>1. UNCHANGED <<rule, current, kept, attempted, failed, job, import, acts, faults, asked, late>>
      BY <1>8 DEF vars, bounds, history
    <2>2. JobsFit'
      BY <2>1, JobsKept
    <2> QED BY <2>1, <2>2 DEF RuleFits, RowsFit, RowFits, ImportsFit, ImportFits, CountsFit, RulesAsk,
               CopiesAreAskedFor
  <1> QED BY <1>1, <1>2, <1>3, <1>4, <1>5, <1>6, <1>7, <1>8 DEF Next

\* The invariant is one: every reachable state of the archive keeps it.
LEMMA Invariance == Spec => []BodiesInv
  BY InitInv, NextInv, PTL DEF Spec

\* Every row is one the columns and the checks allow, whatever is asked for, imported,
\* retried or overtaken (domain_rules, article_content, extract.go).
THEOREM TypeCorrect == Spec => []TypeOK
  <1>1. BodiesInv => TypeOK
    <2> SUFFICES ASSUME BodiesInv PROVE TypeOK
      OBVIOUS
    <2>1. \A a \in Article, s \in Slot : \A b \in BodiesOf(a, s) : b.immutable <=> b.rung = "imported"
      BY DEF BodiesInv, RowsFit, RowFits, BodiesOf, Kept
    <2> QED BY <2>1 DEF BodiesInv, TypeOK, RuleFits, RowsFit, JobsFit, JobFits, ImportsFit, CountsFit
  <1> QED BY <1>1, Invariance, PTL

\* Nobody is given a private copy they did not ask for, through the queue, the sweep,
\* an import or somebody else's request (content.go ReextractCandidates,
\* reextractsweep.go StaleBodies).
THEOREM CopiesAskedFor == Spec => []CopiesAreAskedFor
  <1>1. BodiesInv => CopiesAreAskedFor
    BY DEF BodiesInv
  <1> QED BY <1>1, Invariance, PTL

-----------------------------------------------------------------------------
(* The archive implements ReaderView: each step of the jobs, imports and   *)
(* choices is one of its steps, or changes nothing a reader can see.       *)

LEMMA ViewSlot == View!Slot = Slot
  BY DEF View!Slot, Slot

\* One slot's shelf gains one body.
LEMMA ShelfGrows ==
    ASSUME NEW a \in Article, NEW s \in Slot, NEW b,
           \A c \in Article, t \in Slot : BodiesOf(c, t)' = BodiesOf(c, t) \/ (c = a /\ t = s),
           BodiesOf(a, s)' = BodiesOf(a, s) \cup {b}
    PROVE  View!Add(a, s, b) /\ b \in Shelf'[a][s] /\ Shelf[a][s] = BodiesOf(a, s)
  <1>2. Shelf' = [Shelf EXCEPT ![a][s] = Shelf[a][s] \cup {b}]
    BY DEF Shelf
  <1>3. b \in Shelf'[a][s] /\ Shelf[a][s] = BodiesOf(a, s)
    BY DEF Shelf
  <1> QED BY <1>2, <1>3 DEF View!Add


LEMMA ViewInit == Init => View!Init
  <1> SUFFICES ASSUME Init PROVE View!Init
    OBVIOUS
  <1>1. BodiesInv
    BY InitInv
  <1>2. PICK how \in [Article -> Start] :
           /\ current = [a \in Article |-> [s \in Slot |->
                            IF s = Household THEN Stocked(a, how[a]) ELSE NoBody]]
           /\ kept = [a \in Article |-> [s \in Slot |-> {}]]
           /\ failed = {a \in Article : how[a] = "failed"}
           /\ late = {}
    BY DEF Init
  <1>3. ASSUME NEW a \in Article, NEW s \in Slot
        PROVE  /\ Shelf[a][s] = {current[a][s]} \ {NoBody}
               /\ current[a][s] = IF s = Household THEN Stocked(a, how[a]) ELSE NoBody
    BY <1>2 DEF Shelf, BodiesOf
  <1>4. Shelf \in [Article -> [Slot -> SUBSET Body]]
    BY <1>1 DEF Shelf, BodiesOf, BodiesInv, RowsFit
  <1>5. ASSUME NEW a \in Article
        PROVE  /\ \A r \in Reader : current[a][r] = NoBody /\ Shelf[a][r] = {}
               /\ current[a][Household] # NoBody => current[a][Household] \in Shelf[a][Household]
               /\ a \in failed => current[a][Household] = NoBody
    <2>1. how[a] = "failed" => Stocked(a, how[a]) = NoBody
      BY DEF Stocked
    <2>2. current[a][Household] = Stocked(a, how[a])
      BY <1>3, HouseholdSlot
    <2>3. ASSUME NEW r \in Reader
          PROVE  current[a][r] = NoBody /\ Shelf[a][r] = {}
      <3>1. r \in Slot /\ r # Household
        BY HouseholdSlot
      <3> QED BY <1>3, <3>1
    <2> QED BY <1>2, <1>3, <2>1, <2>2, <2>3, HouseholdSlot
  <1> QED BY <1>1, <1>2, <1>4, <1>5, ViewSlot DEF View!Init, BodiesInv, RowsFit, CountsFit

\* What is stored goes in place of what can be made again, over a kept copy that came
\* between the check and this, or beside it.
LEMMA ViewInsert ==
    ASSUME RowsFit, CountsFit, NEW a \in Article, NEW s \in Slot,
           NEW b, Kept(b), s \in Reader => ~b.immutable, NEW blocked \in BOOLEAN,
           InsertContent(a, s, b, blocked), UNCHANGED failed
    PROVE  View!Next
  <1>1. View!Add(a, s, b) /\ b \in Shelf'[a][s]
    BY ContentInserted, ShelfGrows DEF CountsFit
  <1>2. PICK c : c = current[a][s]
    OBVIOUS
  <1>3. c = NoBody => ~c.immutable
    BY NoBodyIsNone
  <1>4. CASE blocked
    <2>1. UNCHANGED <<current, late>>
      BY <1>4 DEF InsertContent, MakeCurrent
    <2> QED BY <1>1, <2>1, ViewSlot DEF View!Next, View!Shelve
  <1>5. CASE ~blocked /\ ~c.immutable
    <2>1. View!Show(a, s, b) /\ UNCHANGED late
      BY <1>2, <1>5 DEF InsertContent, MakeCurrent, CurrentIsImmutable, View!Show
    <2>2. View!Replace(a, s, b)
      BY <1>1, <1>2, <1>5, <2>1 DEF View!Replace
    <2> QED BY <1>1, <2>2, ViewSlot DEF View!Next
  <1>6. CASE ~blocked /\ c.immutable
    <2>1. View!Show(a, s, b) /\ late' = late \cup {<<a, s>>}
      BY <1>2, <1>6 DEF InsertContent, MakeCurrent, CurrentIsImmutable, View!Show
    <2>2. View!Overtake(a, s, b)
      BY <1>1, <1>2, <1>3, <1>6, <2>1 DEF View!Overtake
    <2> QED BY <1>1, <2>2, ViewSlot DEF View!Next
  <1> QED BY <1>4, <1>5, <1>6

LEMMA ViewStore ==
    ASSUME BodiesInv, NEW a \in Article, NEW s \in Slot, NEW f \in BOOLEAN, Store(a, s, f)
    PROVE  View!Next
  <1> USE DEF BodiesInv
  <1>1. PICK x \in Job : x = job[a][s][f]
    BY DEF JobsFit
  <1>2. x.key \in Key \cup {NoKey} /\ x.blocked \in BOOLEAN
    BY DEF Job
  <1>3. Run(Page[a], x.key) # Nothing
    BY <1>1 DEF JobsFit, JobFits, Store, At
  <1>4. PICK b : b = Extracted(a, x.key)
    OBVIOUS
  <1>5. Kept(b) /\ ~b.immutable
    BY <1>2, <1>3, <1>4, ExtractedType
  <1>6. InsertContent(a, s, b, x.blocked) /\ UNCHANGED failed
    BY <1>1, <1>4 DEF Store
  <1> QED BY <1>2, <1>5, <1>6, ViewInsert

LEMMA ViewImport ==
    ASSUME BodiesInv, NEW r \in Reader, ImportArticle(r)
    PROVE  View!Next
  <1> USE DEF BodiesInv
  <1>1. PICK x \in Import : x = import[r]
    BY DEF ImportsFit
  <1>2. x.records # <<>> /\ x.records \in Seq(Record) /\ x.blocked \in BOOLEAN
    BY <1>1 DEF ImportArticle, ImportsFit, ImportFits, Import
  <1>3. PICK rec \in Record : rec = Head(x.records)
    BY <1>2, HeadTailProperties
  <1>4. PICK a \in Article : a = rec.article
    BY DEF Record
  <1>5. PICK b : b = ParamsFor(rec)
    OBVIOUS
  <1>6. Kept(b)
    BY <1>1, <1>3, <1>5, ImportedType DEF ImportArticle, ImportsFit, ImportFits
  <1>7. InsertContent(a, Household, b, x.blocked) /\ UNCHANGED failed
    BY <1>1, <1>3, <1>4, <1>5 DEF ImportArticle
  <1> QED BY <1>2, <1>6, <1>7, ViewInsert, HouseholdSlot

LEMMA ViewPromote ==
    ASSUME BodiesInv, NEW r \in Reader, NEW a \in Article, HandlePromoteBody(r, a)
    PROVE  View!Next
  <1>1. PICK b \in BodiesForArticle(r, a) : PromoteBody(r, a, b)
    BY DEF HandlePromoteBody
  <1>2. PICK copy : copy = [b EXCEPT !.key = NoKey]
    OBVIOUS
  <1>3. r \in Slot /\ Household \in Slot
    BY HouseholdSlot
  <1>4. View!Add(a, r, copy) /\ b \in Shelf[a][Household] \cup Shelf[a][r]
    <2>1. View!Add(a, r, copy)
      BY <1>1, <1>2, <1>3, CopyPromoted, ShelfGrows DEF BodiesInv
    <2>2. b \in Shelf[a][Household] \cup Shelf[a][r]
      BY <1>1, <1>3 DEF BodiesForArticle, Shelf
    <2> QED BY <2>1, <2>2
  <1>5. View!Show(a, r, copy) /\ UNCHANGED <<failed, late>>
    BY <1>1, <1>2 DEF HandlePromoteBody, PromoteBody, View!Show
  <1>6. copy = [b EXCEPT !.key = NoBody.key]
    BY <1>2, NoBodyIsNone
  <1>7. View!Choose(r, a)
    BY <1>4, <1>5, <1>6 DEF View!Choose
  <1> QED BY <1>7 DEF View!Next

\* What moves no row, no failure and nothing overtaken is nothing a reader can see.
LEMMA ViewStutters ==
    ASSUME UNCHANGED <<current, kept, failed, late>>
    PROVE  UNCHANGED View!vars
  BY DEF View!vars, Shelf, BodiesOf

LEMMA ViewRecordFailure ==
    ASSUME NEW a \in Article, NEW s \in Slot, NEW f \in BOOLEAN, RecordFetchFailure(a, s, f)
    PROVE  View!Next
  <1>1. UNCHANGED <<Shelf, current>>
    BY DEF RecordFetchFailure, Shelf, BodiesOf
  <1>2. View!Raise(a)
    BY <1>1 DEF RecordFetchFailure, View!Raise
  <1> QED BY <1>2 DEF View!Next

LEMMA ViewClearFailure ==
    ASSUME BodiesInv, NEW a \in Article, NEW s \in Slot, NEW f \in BOOLEAN, ClearExtractionFailure(a, s, f)
    PROVE  View!Next
  <1>1. UNCHANGED <<Shelf, current, late>>
    BY DEF ClearExtractionFailure, Shelf, BodiesOf, history
  <1>2. current[a][Household] # NoBody
    BY DEF ClearExtractionFailure, At, BodiesInv, JobsFit, JobFits
  <1>3. View!Lower(a)
    BY <1>1, <1>2 DEF ClearExtractionFailure, View!Lower
  <1> QED BY <1>3 DEF View!Next

LEMMA ViewNext == BodiesInv /\ [Next]_vars => [View!Next]_(View!vars)
  <1> SUFFICES ASSUME BodiesInv, [Next]_vars PROVE View!Next \/ UNCHANGED View!vars
    OBVIOUS
  <1>1. CASE ScheduleReextraction
    BY <1>1, ViewStutters DEF ScheduleReextraction, history
  <1>2. ASSUME NEW a \in Article, NEW s \in Slot, NEW f \in BOOLEAN, Work(a, s, f)
        PROVE  View!Next \/ UNCHANGED View!vars
    <2>1. CASE Resolve(a, s, f)
      BY <2>1, ViewStutters DEF Resolve, history
    <2>2. CASE Extract(a, s, f)
      BY <2>2, ViewStutters DEF Extract, history
    <2> QED BY <1>2, <2>1, <2>2, ViewRecordFailure, ViewStore, ViewClearFailure DEF Work
  <1>3. ASSUME NEW a \in Article, NEW s \in Slot, NEW f \in BOOLEAN, Retry(a, s, f)
        PROVE  UNCHANGED View!vars
    BY <1>3, ViewStutters DEF Retry, history
  <1>4. ASSUME NEW r \in Reader, NEW d \in Domain,
               HandleSaveDomainRule(r, d) \/ HandleReprocessDomain(r, d)
        PROVE  UNCHANGED View!vars
    BY <1>4, ViewStutters DEF HandleSaveDomainRule, HandleReprocessDomain
  <1>5. ASSUME NEW d \in Domain, DomainRuleSet(d) \/ HandleDeleteDomainRule(d)
        PROVE  UNCHANGED View!vars
    BY <1>5, ViewStutters DEF DomainRuleSet, HandleDeleteDomainRule, history
  <1>6. ASSUME NEW r \in Reader, HandleReprocess(r) \/ \E a \in Article : HandlePromoteBody(r, a)
        PROVE  View!Next \/ UNCHANGED View!vars
    BY <1>6, ViewStutters, ViewPromote DEF HandleReprocess, history
  <1>7. CASE Reextract
    BY <1>7, ViewStutters DEF Reextract, history
  <1>8. ASSUME NEW r \in Reader, ImportArticle(r)
        PROVE  View!Next
    BY <1>8, ViewImport
  <1>9. ASSUME NEW r \in Reader,
               HandleImportLibrary(r) \/ CheckRecord(r) \/ FinishImport(r) \/ StopImport(r)
        PROVE  UNCHANGED View!vars
    BY <1>9, ViewStutters DEF HandleImportLibrary, CheckRecord, FinishImport, StopImport, history
  <1>10. CASE UNCHANGED vars
    BY <1>10, ViewStutters DEF vars, history
  <1> QED BY <1>1, <1>2, <1>3, <1>4, <1>5, <1>6, <1>7, <1>8, <1>9, <1>10 DEF Next

\* Extraction, imports and choices keep the archive's promise about bodies: every body
\* is kept, a kept copy goes only to a reader's own choice or to what had checked before
\* it came, a reader's act moves no slot but theirs, and the failures listed have no body
\* (store/content.go InsertContent, store/bodies.go PromoteBody).
THEOREM ImplementsReaderView == Spec => ReaderViewed
  <1>1. BodiesInv /\ [Next]_vars => [View!Next]_(View!vars)
    BY ViewNext
  <1> QED BY <1>1, ViewInit, Invariance, PTL DEF Spec, ReaderViewed, View!Spec

=============================================================================
