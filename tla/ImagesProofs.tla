---------------------------- MODULE ImagesProofs ----------------------------
(***************************************************************************)
(* What holds of the archive's images for any articles, addresses and      *)
(* contents, any number of localizations and releases at once, and any     *)
(* number of faults.                                                       *)
(***************************************************************************)
EXTENDS Images, SequenceTheorems, TLAPS

-----------------------------------------------------------------------------
(* The invariant.                                                          *)

ArticlesFit ==
    /\ body \in [Article -> Body] /\ page \in [Article -> Seq(Shown)]
    /\ \A a \in Article :
          /\ body[a] = NoBody \/ (body[a].has /\ DOMAIN body[a].shows = DOMAIN Uses[a])
          /\ page[a] = <<>> \/ DOMAIN page[a] = DOMAIN Uses[a]

\* What article a's job may be.
MayBe(a, j) ==
    /\ j.at \in Running => DOMAIN j.shows = DOMAIN Uses[a]
    /\ j.at \notin Running => j.shows = <<>>
    /\ j.at \in Downloading \cup {"wait", "link"} => j.k \in DOMAIN Uses[a]
    /\ j.at \in {"exists", "put", "row"} => j.got \in Image

JobsFit == job \in [Article -> Job] /\ \A a \in Article : MayBe(a, job[a])

\* Who downloads an address leads it, nobody else does, and nobody waits for no one.
LeadsFit ==
    /\ lead \in [Url -> Article \cup {Nobody}]
    /\ \A u \in Url : lead[u] # Nobody => job[lead[u]].at \in Downloading /\ UrlOf(lead[u]) = u
    /\ \A a \in Article : job[a].at \in Downloading => lead[UrlOf(a)] = a
    /\ \A a \in Article : At(a, "wait") => lead[UrlOf(a)] # Nobody

RowsFit ==
    /\ assets \subseteq Image /\ source \in [Image -> Url \cup {Nobody}]
    /\ \A i \in assets : source[i] \in Url
    /\ links \in [Article -> SUBSET assets] /\ files \subseteq Image

OthersFit ==
    /\ serves \in [Url -> Image \cup {Pixel}]
    /\ expiry \in Expiry /\ (expiry.at # "idle" => expiry.of \in Article)
    /\ expired \in [Article -> BOOLEAN]
    /\ raced \subseteq Image /\ late \subseteq Article
    /\ acts \in 0 .. MaxActs /\ faults \in 0 .. MaxFaults

\* Nobody fetches what the archive has from that address.
NewToTheArchive == \A a \in Article : At(a, "fetch") => AssetBySourceURL(UrlOf(a)) = {}

\* What is being removed, and a row or a job is sure of, is overlapped by its storing.
Stored ==
    /\ assets \subseteq files \cup raced
    /\ expiry.at = "files" => expiry.paths \cap assets \subseteq raced
    /\ \A a \in Article : At(a, "row") =>
          /\ job[a].got \in files \cup raced
          /\ expiry.at = "files" /\ job[a].got \in expiry.paths => job[a].got \in raced

\* What an article's body, page and job show is linked, if it was not released under the job.
Linked(a) ==
    a \notin late =>
        /\ ImagesIn(job[a].shows) \subseteq links[a]
        /\ ImagesIn(body[a].shows) \subseteq links[a]
        /\ ~expired[a] => ImagesIn(page[a]) \subseteq links[a]

ImagesInv ==
    /\ ArticlesFit /\ JobsFit /\ LeadsFit /\ RowsFit /\ OthersFit
    /\ NewToTheArchive /\ Stored /\ \A a \in Article : Linked(a)

-----------------------------------------------------------------------------
(* What bodies show.                                                       *)

LEMMA UsesType ==
    ASSUME NEW a \in Article
    PROVE  /\ Uses[a] \in Seq(Url) /\ DOMAIN Uses[a] = 1 .. Len(Uses[a]) /\ Len(Uses[a]) \in Nat
           /\ \A k \in DOMAIN Uses[a] : k \in Nat /\ Uses[a][k] \in Url
  <1>1. Uses[a] \in Seq(Url)
    BY ImagesConstants
  <1> QED BY <1>1

LEMMA UrlType ==
    ASSUME JobsFit, NEW a \in Article, job[a].at \in Downloading \cup {"wait", "link"}
    PROVE  UrlOf(a) \in Url
  BY UsesType DEF JobsFit, MayBe, UrlOf

LEMMA NothingShown == <<>> \in Seq(Shown) /\ ImagesIn(<<>>) = {}
  BY EmptySeq DEF ImagesIn

LEMMA ShowsType ==
    ASSUME NEW a \in Article
    PROVE  Shows(a) \in Seq(Shown) /\ DOMAIN Shows(a) = DOMAIN Uses[a] /\ ImagesIn(Shows(a)) = {}
  <1>1. Shows(a) \in [1 .. Len(Uses[a]) -> Shown]
    BY UsesType DEF Shows, Shown
  <1>2. Shows(a) \in Seq(Shown)
    BY <1>1, UsesType, SeqDef
  <1>3. ImagesIn(Shows(a)) = {}
    BY ImagesConstants DEF ImagesIn, Shows
  <1> QED BY <1>2, <1>3 DEF Shows

\* One more image dealt with, the others as they were.
LEMMA OneShown ==
    ASSUME NEW s \in Seq(Shown), NEW k \in DOMAIN s, NEW what \in Shown
    PROVE  /\ [s EXCEPT ![k] = what] \in Seq(Shown)
           /\ DOMAIN [s EXCEPT ![k] = what] = DOMAIN s
           /\ ImagesIn([s EXCEPT ![k] = what]) \subseteq ImagesIn(s) \cup ({what} \cap Image)
  <1>1. k \in 1 .. Len(s)
    OBVIOUS
  <1>2. [s EXCEPT ![k] = what] \in Seq(Shown)
    BY <1>1, ExceptSeq
  <1> QED BY <1>2 DEF ImagesIn

LEMMA JobConstants ==
    /\ NoJob \in Job /\ NoJob.at = "none" /\ NoJob.shows = <<>>
    /\ Queued \in Job /\ Queued.at = "queued" /\ Queued.shows = <<>>
    /\ Idle \in Expiry /\ Idle.at = "idle"
  <1>1. NoJob \in Job /\ NoJob.at = "none" /\ NoJob.shows = <<>>
    BY NothingShown DEF NoJob, Job
  <1>2. Queued \in Job /\ Queued.at = "queued" /\ Queued.shows = <<>>
    BY <1>1, NothingShown DEF NoJob, Queued, Job
  <1>3. Idle \in Expiry /\ Idle.at = "idle"
    BY DEF Idle, Expiry
  <1> QED BY <1>1, <1>2, <1>3

LEMMA NoBodyType == NoBody \in Body /\ NoBody.shows = <<>> /\ ~NoBody.has
  BY NothingShown DEF NoBody, Body

-----------------------------------------------------------------------------
(* What happens to a job, and who leads.                                   *)

LEMMA JobMoves ==
    ASSUME JobsFit, NEW a \in Article, NEW j \in Job, MayBe(a, j), job' = [job EXCEPT ![a] = j]
    PROVE  JobsFit' /\ \A b \in Article : job'[b] = IF b = a THEN j ELSE job[b]
  <1>1. \A b \in Article : job'[b] = IF b = a THEN j ELSE job[b]
    BY DEF JobsFit
  <1>2. \A b \in Article : MayBe(b, job'[b])
    BY <1>1 DEF JobsFit
  <1>3. job' \in [Article -> Job]
    BY DEF JobsFit
  <1> QED BY <1>1, <1>2, <1>3 DEF JobsFit, MayBe

\* A step that begins and ends no download.
LEMMA QuietMove ==
    ASSUME JobsFit, LeadsFit, NewToTheArchive, Stored,
           NEW a \in Article, NEW j \in Job, MayBe(a, j), job' = [job EXCEPT ![a] = j],
           job[a].at \notin Downloading, j.at \notin Downloading,
           j.at = "wait" => lead[Uses[a][j.k]] # Nobody,
           UNCHANGED <<lead, assets, source, files, raced, expiry>>
    PROVE  /\ JobsFit' /\ LeadsFit' /\ NewToTheArchive' /\ Stored'
           /\ \A b \in Article : job'[b] = IF b = a THEN j ELSE job[b]
  <1>1. JobsFit' /\ \A b \in Article : job'[b] = IF b = a THEN j ELSE job[b]
    BY JobMoves
  <1>2. \A b \in Article : b # a => UrlOf(b)' = UrlOf(b) /\ job'[b].at = job[b].at
    BY <1>1 DEF UrlOf
  <1>3. j.at # "fetch" /\ j.at # "row"
    BY DEF Downloading
  <1>4. LeadsFit'
    <2>1. ASSUME NEW u \in Url, lead[u] # Nobody
          PROVE  job'[lead[u]].at \in Downloading /\ UrlOf(lead[u])' = u
      <3>1. lead[u] \in Article /\ lead[u] # a
        BY <2>1 DEF LeadsFit
      <3> QED BY <1>2, <2>1, <3>1 DEF LeadsFit
    <2>2. ASSUME NEW b \in Article, job'[b].at \in Downloading
          PROVE  lead[UrlOf(b)'] = b
      BY <1>1, <1>2, <2>2 DEF LeadsFit
    <2>3. ASSUME NEW b \in Article, job'[b].at = "wait"
          PROVE  lead[UrlOf(b)'] # Nobody
      BY <1>1, <1>2, <2>3 DEF LeadsFit, At, UrlOf
    <2> QED BY <2>1, <2>2, <2>3 DEF LeadsFit, At
  <1>5. NewToTheArchive'
    BY <1>1, <1>2, <1>3 DEF NewToTheArchive, At, AssetBySourceURL
  <1>6. Stored'
    BY <1>1, <1>3 DEF Stored, At
  <1> QED BY <1>1, <1>4, <1>5, <1>6

\* The next step of a download.
LEMMA DownloadMove ==
    ASSUME JobsFit, LeadsFit, NEW a \in Article, NEW j \in Job, MayBe(a, j),
           job' = [job EXCEPT ![a] = j], UNCHANGED lead,
           job[a].at \in Downloading, j.at \in Downloading, j.k = job[a].k
    PROVE  /\ JobsFit' /\ LeadsFit' /\ \A b \in Article : UrlOf(b)' = UrlOf(b)
           /\ \A b \in Article : job'[b] = IF b = a THEN j ELSE job[b]
  <1>1. JobsFit' /\ \A b \in Article : job'[b] = IF b = a THEN j ELSE job[b]
    BY JobMoves
  <1>2. \A b \in Article : UrlOf(b)' = UrlOf(b)
    BY <1>1 DEF UrlOf
  <1>3. \A b \in Article : /\ job'[b].at \in Downloading <=> job[b].at \in Downloading
                           /\ job'[b].at = "wait" => job[b].at = "wait"
    BY <1>1 DEF Downloading
  <1>4. LeadsFit'
    BY <1>2, <1>3 DEF LeadsFit, At
  <1> QED BY <1>1, <1>2, <1>4

\* A download ends, and with it the waiting of everybody who asked for the address.
LEMMA Answered ==
    ASSUME JobsFit, LeadsFit, NEW a \in Article, job[a].at \in Downloading,
           NEW got \in Image \cup {Pixel, Missing}, Answer(a, got)
    PROVE  /\ JobsFit' /\ LeadsFit'
           /\ \A b \in Article :
                 \/ job'[b] = job[b] /\ b # a
                 \/ job'[b].at = "link" /\ job'[b].shows = job[b].shows
  <1>1. PICK u \in Url : u = UrlOf(a)
    BY UrlType
  <1>2. ASSUME NEW b \in Article
        PROVE  job'[b] = IF b = a \/ (At(b, "wait") /\ UrlOf(b) = u)
                         THEN [job[b] EXCEPT !.at = "link", !.got = got] ELSE job[b]
    BY <1>1 DEF Answer
  <1>3. ASSUME NEW b \in Article, b = a \/ (At(b, "wait") /\ UrlOf(b) = u)
        PROVE  /\ job'[b] \in Job /\ MayBe(b, job'[b])
               /\ job'[b].at = "link" /\ job'[b].shows = job[b].shows
    <2>1. PICK x \in Job : x = job[b]
      BY DEF JobsFit
    <2>2. MayBe(b, x) /\ x.at \in Downloading \cup {"wait"}
      BY <1>3, <2>1 DEF JobsFit, At
    <2> DEFINE j == [x EXCEPT !.at = "link", !.got = got]
    <2>3. j \in Job /\ j.at = "link" /\ j.shows = x.shows /\ j.k = x.k
      BY DEF Job, Running
    <2>4. job'[b] = j
      BY <1>2, <1>3, <2>1
    <2> HIDE DEF j
    <2>5. MayBe(b, j)
      BY <2>2, <2>3 DEF MayBe, Running, Downloading
    <2> QED BY <2>1, <2>3, <2>4, <2>5
  <1>4. \A b \in Article : \/ job'[b] = job[b] /\ b # a /\ ~(At(b, "wait") /\ UrlOf(b) = u)
                           \/ job'[b].at = "link" /\ job'[b].shows = job[b].shows
    BY <1>2, <1>3
  <1>5. JobsFit'
    <2>1. job' \in [Article -> Job]
      <3>1. \A b \in Article : job'[b] \in Job
        BY <1>2, <1>3 DEF JobsFit
      <3>2. job' = [b \in Article |-> job'[b]]
        BY DEF Answer
      <3> QED BY <3>1, <3>2
    <2>2. \A b \in Article : MayBe(b, job'[b])
      BY <1>2, <1>3 DEF JobsFit
    <2> QED BY <2>1, <2>2 DEF JobsFit, MayBe
  <1>6. LeadsFit'
    <2>1. lead' = [lead EXCEPT ![u] = Nobody]
      BY <1>1 DEF Answer
    <2>2. \A v \in Url : lead'[v] = IF v = u THEN Nobody ELSE lead[v]
      BY <2>1 DEF LeadsFit
    <2>3. ASSUME NEW v \in Url, lead'[v] # Nobody
          PROVE  (job[lead[v]].at \in Downloading /\ UrlOf(lead[v]) = v)'
      <3>1. PICK b : b = lead[v]
        OBVIOUS
      <3>2. v # u /\ lead'[v] = b /\ b \in Article /\ job[b].at \in Downloading /\ UrlOf(b) = v
        BY <2>2, <2>3, <3>1 DEF LeadsFit
      <3>3. b # a /\ ~At(b, "wait")
        BY <1>1, <3>2 DEF At, Downloading
      <3>4. job'[b] = job[b]
        BY <1>2, <3>2, <3>3
      <3> QED BY <3>2, <3>4 DEF UrlOf
    <2>4. ASSUME NEW b \in Article, job'[b].at \in Downloading
          PROVE  lead'[UrlOf(b)'] = b
      <3>1. job'[b] = job[b] /\ b # a
        BY <1>4, <2>4 DEF Downloading
      <3>2. lead[UrlOf(b)] = b /\ UrlOf(b) \in Url /\ lead[u] = a
        BY <1>1, <2>4, <3>1, UrlType DEF LeadsFit
      <3> QED BY <2>2, <3>1, <3>2 DEF UrlOf
    <2>5. ASSUME NEW b \in Article, job'[b].at = "wait"
          PROVE  lead'[UrlOf(b)'] # Nobody
      <3>1. job'[b] = job[b] /\ UrlOf(b) # u
        BY <1>4, <2>5 DEF At
      <3>2. lead[UrlOf(b)] # Nobody /\ UrlOf(b) \in Url
        BY <2>5, <3>1, UrlType DEF LeadsFit, At
      <3> QED BY <2>2, <3>1, <3>2 DEF UrlOf
    <2>6. lead' \in [Url -> Article \cup {Nobody}]
      BY <2>1 DEF LeadsFit
    <2> QED BY <2>3, <2>4, <2>5, <2>6 DEF LeadsFit, At
  <1> QED BY <1>4, <1>5, <1>6

-----------------------------------------------------------------------------
(* Each action keeps it.                                                   *)

LEMMA InitInv == Init => ImagesInv
  <1> SUFFICES ASSUME Init PROVE ImagesInv
    OBVIOUS
  <1> USE DEF Init
  <1>1. \A a \in Article : job[a] = Queued /\ body[a].shows = Shows(a) /\ body[a].has /\ page[a] = <<>>
    OBVIOUS
  <1>2. ArticlesFit
    BY ShowsType, NothingShown DEF ArticlesFit, Body
  <1>3. JobsFit
    BY <1>1, JobConstants DEF JobsFit, MayBe, Running, Downloading
  <1>4. LeadsFit
    BY <1>1, JobConstants DEF LeadsFit, At, Downloading
  <1>5. RowsFit
    BY DEF RowsFit
  <1>6. OthersFit
    BY JobConstants, ImagesConstants DEF OthersFit
  <1>7. NewToTheArchive /\ Stored
    BY <1>1, JobConstants DEF NewToTheArchive, Stored, At
  <1>8. ASSUME NEW a \in Article PROVE Linked(a)
    BY <1>1, ShowsType, NothingShown, JobConstants DEF Linked
  <1> QED BY <1>2, <1>3, <1>4, <1>5, <1>6, <1>7, <1>8 DEF ImagesInv

\* A step that changes what no article shows.
LEMMA LinksKept ==
    ASSUME \A a \in Article : Linked(a), UNCHANGED <<body, page, links, expired, late>>,
           \A a \in Article : job'[a].shows = job[a].shows \/ ImagesIn(job'[a].shows) = {}
                              \/ job'[a].shows = body[a].shows
    PROVE  \A a \in Article : Linked(a)'
  BY DEF Linked

LEMMA FaultCounts ==
    ASSUME OthersFit, UNCHANGED <<serves, expiry, expired, late, acts>>, raced' \subseteq Image,
           Fault \/ UNCHANGED faults
    PROVE  OthersFit'
  BY ImagesConstants DEF OthersFit, Fault

LEMMA InsertContentInv ==
    ASSUME ImagesInv, NEW a \in Article, InsertContent(a)
    PROVE  ImagesInv'
  <1> USE DEF ImagesInv
  <1>1. /\ acts < MaxActs /\ acts' = acts + 1
        /\ body' = [body EXCEPT ![a] = [has |-> TRUE, shows |-> Shows(a)]]
        /\ UNCHANGED <<serves, page, assets, source, links, files, lead, expiry, expired, raced, late, faults>>
    BY DEF InsertContent, Act, rowVars
  <1>2. PICK j \in Job : /\ job' = [job EXCEPT ![a] = j]
                         /\ \/ j = Queued /\ job[a].at = "none"
                            \/ j = job[a]
    BY JobConstants DEF InsertContent, JobsFit
  <1>3. JobsFit' /\ LeadsFit' /\ NewToTheArchive' /\ Stored' /\ \A b \in Article : job'[b] = IF b = a THEN j ELSE job[b]
    <2>1. CASE j = job[a]
      <3>1. job' = job
        BY <1>2, <2>1 DEF JobsFit
      <3> QED BY <1>1, <2>1, <3>1 DEF JobsFit, MayBe, LeadsFit, UrlOf, NewToTheArchive, Stored, At, AssetBySourceURL
    <2>2. CASE j = Queued /\ job[a].at = "none"
      <3>1. MayBe(a, j) /\ j.at \notin Downloading /\ job[a].at \notin Downloading /\ j.at # "wait"
        BY <2>2, JobConstants DEF MayBe, Running, Downloading
      <3> QED BY <1>1, <1>2, <3>1, QuietMove
    <2> QED BY <1>2, <2>1, <2>2
  <1>4. \A b \in Article : body'[b] = IF b = a THEN [has |-> TRUE, shows |-> Shows(a)] ELSE body[b]
    BY <1>1 DEF ArticlesFit
  <1>5. ArticlesFit'
    <2>1. [has |-> TRUE, shows |-> Shows(a)] \in Body
      BY ShowsType DEF Body
    <2>2. body' \in [Article -> Body]
      BY <1>1, <2>1 DEF ArticlesFit
    <2> QED BY <1>1, <1>4, <2>2, ShowsType DEF ArticlesFit
  <1>6. ASSUME NEW b \in Article PROVE Linked(b)'
    <2>1. job'[b].shows = job[b].shows \/ ImagesIn(job'[b].shows) = {}
      BY <1>2, <1>3, JobConstants, NothingShown
    <2>2. body'[b].shows = body[b].shows \/ ImagesIn(body'[b].shows) = {}
      BY <1>4, ShowsType
    <2>3. Linked(b)
      OBVIOUS
    <2> QED BY <1>1, <2>1, <2>2, <2>3 DEF Linked
  <1>7. OthersFit'
    BY <1>1, ImagesConstants DEF OthersFit
  <1> QED BY <1>1, <1>3, <1>5, <1>6, <1>7 DEF RowsFit

\* A quiet step that changes nothing but its job.
LEMMA JobOnly ==
    ASSUME ImagesInv, NEW a \in Article, NEW j \in Job, MayBe(a, j), job' = [job EXCEPT ![a] = j],
           job[a].at \notin Downloading, j.at \notin Downloading,
           j.at = "wait" => lead[Uses[a][j.k]] # Nobody,
           j.shows = job[a].shows \/ j.shows = body[a].shows \/ ImagesIn(j.shows) = {},
           UNCHANGED <<rest, body, page, rowVars, files, lead, faults>>
    PROVE  ImagesInv'
  <1> USE DEF ImagesInv
  <1>1. UNCHANGED <<serves, expiry, expired, raced, late, acts, body, page, assets, source, links, files, lead, faults>>
    BY DEF rest, rowVars
  <1>2. /\ JobsFit' /\ LeadsFit' /\ NewToTheArchive' /\ Stored'
        /\ \A b \in Article : job'[b] = IF b = a THEN j ELSE job[b]
    BY <1>1, QuietMove
  <1>3. \A b \in Article : Linked(b)'
    BY <1>1, <1>2, LinksKept
  <1> QED BY <1>1, <1>2, <1>3 DEF ArticlesFit, RowsFit, OthersFit

LEMMA StartLocalizeInv ==
    ASSUME ImagesInv, NEW a \in Article, StartLocalize(a)
    PROVE  ImagesInv'
  <1>1. job[a].at \notin Downloading
    BY DEF StartLocalize, At, Downloading
  <1>2. UNCHANGED <<rest, body, page, rowVars, files, lead, faults>>
    BY DEF StartLocalize
  <1>3. CASE ~body[a].has
    <2>1. job' = [job EXCEPT ![a] = NoJob]
      BY <1>3 DEF StartLocalize
    <2>2. MayBe(a, NoJob) /\ NoJob.at \notin Downloading /\ NoJob.at # "wait"
      BY JobConstants DEF MayBe, Running, Downloading
    <2> QED BY <1>1, <1>2, <2>1, <2>2, JobConstants, NothingShown, JobOnly
  <1>4. CASE body[a].has
    <2> DEFINE j == [NoJob EXCEPT !.at = "image", !.shows = body[a].shows]
    <2>1. body[a].shows \in Seq(Shown) /\ DOMAIN body[a].shows = DOMAIN Uses[a]
      BY <1>4, NoBodyType DEF ImagesInv, ArticlesFit, Body
    <2>2. j \in Job /\ j.at = "image" /\ j.shows = body[a].shows
      BY <2>1 DEF NoJob, Job, Running
    <2>3. job' = [job EXCEPT ![a] = j]
      BY <1>4 DEF StartLocalize
    <2> HIDE DEF j
    <2>4. MayBe(a, j) /\ j.at \notin Downloading /\ j.at # "wait"
      BY <2>1, <2>2 DEF MayBe, Running, Downloading
    <2> QED BY <1>1, <1>2, <2>2, <2>3, <2>4, JobOnly
  <1> QED BY <1>3, <1>4

LEMMA NextImageInv ==
    ASSUME ImagesInv, NEW a \in Article, NextImage(a) \/ Localized(a)
    PROVE  ImagesInv'
  <1>1. PICK x \in Job : x = job[a]
    BY DEF ImagesInv, JobsFit
  <1>2. MayBe(a, x) /\ x.at = "image" /\ x.k \in Nat
    BY <1>1 DEF ImagesInv, JobsFit, NextImage, Localized, At, Job
  <1>3. PICK j \in Job : j.at \in {"image", "update"} /\ j.shows = x.shows /\ job' = [job EXCEPT ![a] = j]
    <2>1. CASE NextImage(a)
      <3> DEFINE j == [x EXCEPT !.k = x.k + 1]
      <3>1. j \in Job /\ j.at = "image" /\ j.shows = x.shows
        BY <1>2 DEF Job
      <3>2. job' = [job EXCEPT ![a] = j]
        BY <1>1, <2>1 DEF NextImage
      <3> QED BY <3>1, <3>2
    <2>2. CASE Localized(a)
      <3> DEFINE j == [x EXCEPT !.at = "update"]
      <3>1. j \in Job /\ j.at = "update" /\ j.shows = x.shows
        BY DEF Job, Running
      <3>2. job' = [job EXCEPT ![a] = j]
        BY <1>1, <2>2 DEF Localized, Goes
      <3> QED BY <3>1, <3>2
    <2> QED BY <2>1, <2>2
  <1>4. MayBe(a, j) /\ j.at \notin Downloading /\ j.at # "wait" /\ x.at \notin Downloading
    BY <1>2, <1>3 DEF MayBe, Running, Downloading
  <1>5. UNCHANGED <<rest, body, page, rowVars, files, lead, faults>>
    BY DEF NextImage, Localized
  <1> QED BY <1>1, <1>3, <1>4, <1>5, JobOnly

LEMMA ResolveInv ==
    ASSUME ImagesInv, NEW a \in Article, Resolve(a)
    PROVE  ImagesInv'
  <1> USE DEF ImagesInv
  <1>1. PICK x \in Job : x = job[a]
    BY DEF JobsFit
  <1>2. MayBe(a, x) /\ x.at = "image" /\ x.k \in DOMAIN Uses[a]
    BY <1>1 DEF JobsFit, Resolve, At
  <1>3. PICK u \in Url : u = UrlOf(a) /\ u = Uses[a][x.k]
    BY <1>1, <1>2, UsesType DEF UrlOf
  <1>4. UNCHANGED <<serves, expiry, expired, raced, late, acts, body, page, assets, source, links, files, faults>>
    BY DEF Resolve, rest, rowVars
  <1>5. CASE lead[u] # Nobody
    <2> DEFINE j == [x EXCEPT !.at = "wait"]
    <2>1. j \in Job /\ j.at = "wait" /\ j.shows = x.shows /\ j.k = x.k
      BY DEF Job, Running
    <2>2. job' = [job EXCEPT ![a] = j] /\ UNCHANGED lead
      BY <1>1, <1>3, <1>5 DEF Resolve, Goes, Leads
    <2> HIDE DEF j
    <2>3. MayBe(a, j) /\ j.at \notin Downloading /\ x.at \notin Downloading
      BY <1>2, <2>1 DEF MayBe, Running, Downloading
    <2>4. UNCHANGED <<rest, body, page, rowVars, files, lead, faults>>
      BY <1>4, <2>2 DEF rest, rowVars
    <2> QED BY <1>1, <1>3, <1>5, <2>1, <2>2, <2>3, <2>4, JobOnly
  <1>6. CASE lead[u] = Nobody
    <2> DEFINE j == [x EXCEPT !.at = "check"]
    <2>1. j \in Job /\ j.at = "check" /\ j.shows = x.shows /\ j.k = x.k
      BY DEF Job, Running, Downloading
    <2>2. job' = [job EXCEPT ![a] = j] /\ lead' = [lead EXCEPT ![u] = a]
      BY <1>1, <1>3, <1>6 DEF Resolve, Goes, Leads
    <2> HIDE DEF j
    <2>3. MayBe(a, j) /\ j.at \in Downloading
      BY <1>2, <2>1 DEF MayBe, Running, Downloading
    <2>4. JobsFit' /\ \A b \in Article : job'[b] = IF b = a THEN j ELSE job[b]
      BY <2>1, <2>2, <2>3, JobMoves
    <2>5. \A v \in Url : lead'[v] = IF v = u THEN a ELSE lead[v]
      BY <2>2 DEF LeadsFit
    <2>6. \A b \in Article : UrlOf(b)' = UrlOf(b)
      BY <1>1, <2>1, <2>4 DEF UrlOf
    <2>7. LeadsFit'
      <3>1. ASSUME NEW v \in Url, lead'[v] # Nobody
            PROVE  (job[lead[v]].at \in Downloading /\ UrlOf(lead[v]) = v)'
        <4>1. CASE v = u
          BY <1>3, <2>3, <2>4, <2>5, <2>6, <4>1
        <4>2. CASE v # u
          <5>1. PICK b : b = lead[v]
            OBVIOUS
          <5>2. lead'[v] = b /\ b \in Article /\ job[b].at \in Downloading /\ UrlOf(b) = v
            BY <2>5, <3>1, <4>2, <5>1 DEF LeadsFit
          <5>3. b # a
            BY <1>1, <1>2, <5>2 DEF Downloading
          <5> QED BY <2>4, <2>6, <5>2, <5>3
        <4> QED BY <4>1, <4>2
      <3>2. ASSUME NEW b \in Article, job'[b].at \in Downloading
            PROVE  lead'[UrlOf(b)'] = b
        <4>1. CASE b = a
          BY <1>3, <2>5, <2>6, <4>1
        <4>2. CASE b # a
          <5>1. job[b].at \in Downloading
            BY <2>4, <3>2, <4>2
          <5>2. UrlOf(b) \in Url /\ lead[UrlOf(b)] = b
            BY <5>1, UrlType DEF LeadsFit
          <5>3. UrlOf(b) # u
            BY <1>6, <5>2, ImagesConstants
          <5> QED BY <2>5, <2>6, <5>2, <5>3
        <4> QED BY <4>1, <4>2
      <3>3. ASSUME NEW b \in Article, job'[b].at = "wait"
            PROVE  lead'[UrlOf(b)'] # Nobody
        <4>1. b # a /\ job[b].at = "wait"
          BY <2>1, <2>4, <3>3
        <4>2. UrlOf(b) \in Url /\ lead[UrlOf(b)] # Nobody
          BY <4>1, UrlType DEF LeadsFit, At
        <4> QED BY <2>5, <2>6, <4>2, ImagesConstants
      <3>4. lead' \in [Url -> Article \cup {Nobody}]
        BY <2>2 DEF LeadsFit
      <3> QED BY <3>1, <3>2, <3>3, <3>4 DEF LeadsFit, At
    <2>8. NewToTheArchive'
      BY <1>4, <2>1, <2>4, <2>6 DEF NewToTheArchive, At, AssetBySourceURL
    <2>9. Stored'
      BY <1>4, <2>1, <2>4 DEF Stored, At
    <2>10. \A b \in Article : Linked(b)'
      BY <1>1, <1>4, <2>1, <2>4, LinksKept
    <2> QED BY <1>4, <2>4, <2>7, <2>8, <2>9, <2>10 DEF ArticlesFit, RowsFit, OthersFit
  <1> QED BY <1>5, <1>6

-----------------------------------------------------------------------------
(* A download.                                                             *)

\* What a removal under way overlaps is noted as it comes about.
LEMMA WatchedGrows ==
    ASSUME Watched, JobsFit', raced \subseteq Image
    PROVE  /\ raced \subseteq raced' /\ raced' \subseteq Image
           /\ \A b \in Article : job'[b].at = "row" /\ expiry'.at = "files" /\ job'[b].got \in expiry'.paths
                 => job'[b].got \in raced'
  BY DEF Watched, Overlapping, JobsFit, MayBe, At

\* A download that ends having stored nothing.
LEMMA AnswerOnly ==
    ASSUME ImagesInv, NEW a \in Article, job[a].at \in Downloading,
           NEW got \in Image \cup {Pixel, Missing}, Answer(a, got),
           UNCHANGED <<serves, expiry, expired, late, acts, body, page, assets, source, links, files>>,
           Fault \/ UNCHANGED faults, raced \subseteq raced', raced' \subseteq Image
    PROVE  ImagesInv'
  <1> USE DEF ImagesInv
  <1>1. /\ JobsFit' /\ LeadsFit'
        /\ \A b \in Article : \/ job'[b] = job[b]
                              \/ job'[b].at = "link" /\ job'[b].shows = job[b].shows
    BY Answered
  <1>2. NewToTheArchive'
    BY <1>1 DEF NewToTheArchive, At, AssetBySourceURL, UrlOf
  <1>3. Stored'
    BY <1>1 DEF Stored, At
  <1>4. \A b \in Article : Linked(b)'
    BY <1>1, LinksKept
  <1>5. OthersFit'
    BY FaultCounts
  <1> QED BY <1>1, <1>2, <1>3, <1>4, <1>5 DEF ArticlesFit, RowsFit

\* A download that goes on.
LEMMA DownloadOnly ==
    ASSUME ImagesInv, NEW a \in Article, NEW j \in Job, MayBe(a, j), job' = [job EXCEPT ![a] = j],
           job[a].at \in Downloading, j.at \in Downloading, j.k = job[a].k, j.shows = job[a].shows,
           j.at = "fetch" => AssetBySourceURL(UrlOf(a)) = {},
           j.at = "row" => j.got \in files'
                           /\ (expiry.at = "files" /\ j.got \in expiry.paths => j.got \in raced'),
           UNCHANGED <<serves, expiry, expired, late, acts, body, page, assets, source, links, lead, faults>>,
           files \subseteq files', files' \subseteq Image, raced \subseteq raced', raced' \subseteq Image
    PROVE  ImagesInv'
  <1> USE DEF ImagesInv
  <1>1. /\ JobsFit' /\ LeadsFit' /\ \A b \in Article : UrlOf(b)' = UrlOf(b)
        /\ \A b \in Article : job'[b] = IF b = a THEN j ELSE job[b]
    BY DownloadMove
  <1>2. NewToTheArchive'
    BY <1>1 DEF NewToTheArchive, At, AssetBySourceURL
  <1>3. Stored'
    <2>1. ASSUME NEW b \in Article, job'[b].at = "row"
          PROVE  /\ job'[b].got \in files' \cup raced'
                 /\ expiry.at = "files" /\ job'[b].got \in expiry.paths => job'[b].got \in raced'
      BY <1>1, <2>1 DEF Stored, At
    <2> QED BY <2>1 DEF Stored, At
  <1>4. \A b \in Article : Linked(b)'
    BY <1>1, LinksKept
  <1>5. OthersFit'
    BY FaultCounts
  <1> QED BY <1>1, <1>2, <1>3, <1>4, <1>5 DEF ArticlesFit, RowsFit

LEMMA CheckSourceInv ==
    ASSUME ImagesInv, NEW a \in Article, CheckSource(a)
    PROVE  ImagesInv'
  <1> USE DEF ImagesInv
  <1>1. PICK x \in Job : x = job[a]
    BY DEF JobsFit
  <1>2. MayBe(a, x) /\ x.at = "check" /\ x.at \in Downloading
    BY <1>1 DEF JobsFit, CheckSource, At, Downloading
  <1>3. /\ UNCHANGED <<serves, expiry, expired, raced, late, acts, body, page, assets, source, links, files, faults>>
        /\ raced' \subseteq Image
    BY DEF CheckSource, rest, rowVars, OthersFit
  <1>4. CASE AssetBySourceURL(UrlOf(a)) = {}
    <2> DEFINE j == [x EXCEPT !.at = "fetch"]
    <2>1. j \in Job /\ j.at = "fetch" /\ j.k = x.k /\ j.shows = x.shows
      BY DEF Job, Running, Downloading
    <2>2. job' = [job EXCEPT ![a] = j] /\ UNCHANGED lead
      BY <1>1, <1>4 DEF CheckSource, Goes
    <2> HIDE DEF j
    <2>3. MayBe(a, j) /\ j.at \in Downloading
      BY <1>2, <2>1 DEF MayBe, Running, Downloading
    <2>4. files \subseteq files' /\ files' \subseteq Image /\ raced \subseteq raced'
      BY <1>3 DEF RowsFit
    <2> QED BY <1>1, <1>2, <1>3, <1>4, <2>1, <2>2, <2>3, <2>4, DownloadOnly
  <1>5. CASE AssetBySourceURL(UrlOf(a)) # {}
    <2>1. PICK i \in AssetBySourceURL(UrlOf(a)) : Answer(a, i)
      BY <1>5 DEF CheckSource
    <2>2. i \in Image
      BY DEF AssetBySourceURL, RowsFit
    <2> QED BY <1>1, <1>2, <1>3, <2>1, <2>2, AnswerOnly
  <1> QED BY <1>4, <1>5

LEMMA FetchInv ==
    ASSUME ImagesInv, NEW a \in Article, Fetch(a)
    PROVE  ImagesInv'
  <1> USE DEF ImagesInv
  <1>1. PICK x \in Job : x = job[a]
    BY DEF JobsFit
  <1>2. MayBe(a, x) /\ x.at = "fetch" /\ x.at \in Downloading
    BY <1>1 DEF JobsFit, Fetch, At, Downloading
  <1>3. /\ UNCHANGED <<serves, expiry, expired, raced, late, acts, body, page, assets, source, links, files>>
        /\ raced' \subseteq Image
    BY DEF Fetch, rest, rowVars, OthersFit
  <1>4. PICK got \in Image \cup {Pixel} : got = serves[UrlOf(a)]
    BY <1>1, <1>2, UrlType DEF OthersFit
  <1>5. CASE got = Pixel /\ Answer(a, Pixel) /\ UNCHANGED faults
    BY <1>1, <1>2, <1>3, <1>5, AnswerOnly
  <1>6. CASE Fault /\ Answer(a, Missing)
    BY <1>1, <1>2, <1>3, <1>6, AnswerOnly
  <1>7. CASE /\ got # Pixel /\ UNCHANGED <<lead, faults>>
             /\ job' = [job EXCEPT ![a] = [x EXCEPT !.at = "exists", !.got = got]]
    <2> DEFINE j == [x EXCEPT !.at = "exists", !.got = got]
    <2>1. j \in Job /\ j.at = "exists" /\ j.k = x.k /\ j.shows = x.shows /\ j.got = got
      BY DEF Job, Running, Downloading
    <2>2. job' = [job EXCEPT ![a] = j]
      BY <1>7
    <2> HIDE DEF j
    <2>3. MayBe(a, j) /\ j.at \in Downloading
      BY <1>2, <1>7, <2>1 DEF MayBe, Running, Downloading
    <2>4. files \subseteq files' /\ files' \subseteq Image /\ raced \subseteq raced'
      BY <1>3 DEF RowsFit
    <2> QED BY <1>1, <1>2, <1>3, <1>7, <2>1, <2>2, <2>3, <2>4, DownloadOnly
  <1>8. job' = [job EXCEPT ![a] = [job[a] EXCEPT !.at = "exists", !.got = got]]
        <=> job' = [job EXCEPT ![a] = [x EXCEPT !.at = "exists", !.got = got]]
    BY <1>1
  <1> QED BY <1>1, <1>4, <1>5, <1>6, <1>7, <1>8 DEF Fetch, JobsFit

LEMMA ExistsInv ==
    ASSUME ImagesInv, NEW a \in Article, Exists(a)
    PROVE  ImagesInv'
  <1> USE DEF ImagesInv
  <1>1. PICK x \in Job : x = job[a]
    BY DEF JobsFit
  <1>2. MayBe(a, x) /\ x.at = "exists" /\ x.at \in Downloading
    BY <1>1 DEF JobsFit, Exists, At, Downloading
  <1>3. UNCHANGED <<serves, expiry, expired, late, acts, body, page, assets, source, links, files, lead, faults>>
    BY DEF Exists, downloadRest, rowVars
  <1> DEFINE to == IF x.got \in files THEN "row" ELSE "put"
             j == [x EXCEPT !.at = to]
  <1>4. j \in Job /\ j.at = to /\ j.k = x.k /\ j.shows = x.shows /\ j.got = x.got
    BY DEF Job, Running, Downloading
  <1>5. job' = [job EXCEPT ![a] = j]
    BY <1>1 DEF Exists, Goes
  <1> HIDE DEF j
  <1>6. MayBe(a, j) /\ j.at \in Downloading
    BY <1>2, <1>4 DEF MayBe, Running, Downloading
  <1>7. JobsFit' /\ \A b \in Article : job'[b] = IF b = a THEN j ELSE job[b]
    BY <1>4, <1>5, <1>6, JobMoves
  <1>8. /\ raced \subseteq raced' /\ raced' \subseteq Image
        /\ j.at = "row" /\ expiry.at = "files" /\ j.got \in expiry.paths => j.got \in raced'
    BY <1>3, <1>7, WatchedGrows DEF Exists, OthersFit
  <1>9. j.at # "fetch" /\ (j.at = "row" => j.got \in files')
    BY <1>3, <1>4
  <1>10. files \subseteq files' /\ files' \subseteq Image
    BY <1>3 DEF RowsFit
  <1> QED BY <1>1, <1>2, <1>3, <1>4, <1>5, <1>6, <1>8, <1>9, <1>10, DownloadOnly

LEMMA PutInv ==
    ASSUME ImagesInv, NEW a \in Article, Put(a)
    PROVE  ImagesInv'
  <1> USE DEF ImagesInv
  <1>1. PICK x \in Job : x = job[a]
    BY DEF JobsFit
  <1>2. MayBe(a, x) /\ x.at = "put" /\ x.at \in Downloading
    BY <1>1 DEF JobsFit, Put, At, Downloading
  <1>3. UNCHANGED <<serves, expiry, expired, late, acts, body, page, assets, source, links>> /\ Watched
    BY DEF Put, downloadRest, rowVars
  <1>4. CASE Fault /\ Answer(a, Missing) /\ UNCHANGED files
    <2>1. JobsFit'
      BY <1>1, <1>2, <1>4, Answered
    <2>2. raced \subseteq raced' /\ raced' \subseteq Image
      BY <1>3, <2>1, WatchedGrows DEF OthersFit
    <2> QED BY <1>1, <1>2, <1>3, <1>4, <2>2, AnswerOnly
  <1>5. CASE files' = files \cup {x.got} /\ Goes(a, "row") /\ UNCHANGED <<lead, faults>>
    <2> DEFINE j == [x EXCEPT !.at = "row"]
    <2>1. j \in Job /\ j.at = "row" /\ j.k = x.k /\ j.shows = x.shows /\ j.got = x.got
      BY DEF Job, Running, Downloading
    <2>2. job' = [job EXCEPT ![a] = j]
      BY <1>1, <1>5 DEF Goes
    <2> HIDE DEF j
    <2>3. MayBe(a, j) /\ j.at \in Downloading
      BY <1>2, <2>1 DEF MayBe, Running, Downloading
    <2>4. JobsFit' /\ \A b \in Article : job'[b] = IF b = a THEN j ELSE job[b]
      BY <2>1, <2>2, <2>3, JobMoves
    <2>5. /\ raced \subseteq raced' /\ raced' \subseteq Image
          /\ expiry.at = "files" /\ j.got \in expiry.paths => j.got \in raced'
      BY <1>3, <2>1, <2>4, WatchedGrows DEF OthersFit
    <2>6. files \subseteq files' /\ files' \subseteq Image /\ j.got \in files'
      BY <1>2, <1>5, <2>1 DEF MayBe, RowsFit
    <2> QED BY <1>1, <1>2, <1>3, <1>5, <2>1, <2>2, <2>3, <2>5, <2>6, DownloadOnly
  <1> QED BY <1>1, <1>4, <1>5 DEF Put

LEMMA UpsertAssetInv ==
    ASSUME ImagesInv, NEW a \in Article, UpsertAsset(a)
    PROVE  ImagesInv'
  <1> USE DEF ImagesInv
  <1>1. PICK i \in Image : i = job[a].got
    BY DEF JobsFit, MayBe, UpsertAsset, At
  <1>2. job[a].at = "row" /\ job[a].at \in Downloading
    BY DEF UpsertAsset, At, Downloading
  <1>3. PICK u \in Url : u = UrlOf(a)
    BY <1>2, UrlType
  <1>4. /\ assets' = assets \cup {i} /\ Answer(a, i)
        /\ source' = [source EXCEPT ![i] = IF i \in assets THEN source[i] ELSE u]
        /\ UNCHANGED <<serves, expiry, expired, raced, late, acts, body, page, links, files, faults>>
    BY <1>1, <1>3 DEF UpsertAsset, rest
  <1>5. /\ JobsFit' /\ LeadsFit'
        /\ \A b \in Article : \/ job'[b] = job[b] /\ b # a
                              \/ job'[b].at = "link" /\ job'[b].shows = job[b].shows
    BY <1>2, <1>4, Answered
  <1>6. \A k \in Image : source'[k] = IF k = i /\ i \notin assets THEN u ELSE source[k]
    BY <1>4 DEF RowsFit
  <1>7. RowsFit'
    <2>1. source' \in [Image -> Url \cup {Nobody}]
      BY <1>4 DEF RowsFit
    <2>2. \A k \in assets' : source'[k] \in Url
      BY <1>4, <1>6 DEF RowsFit
    <2>3. links' \in [Article -> SUBSET assets']
      BY <1>4 DEF RowsFit
    <2> QED BY <1>4, <2>1, <2>2, <2>3 DEF RowsFit
  <1>8. NewToTheArchive'
    <2> SUFFICES ASSUME NEW b \in Article, job'[b].at = "fetch", NEW k \in assets', source'[k] = UrlOf(b)'
                 PROVE  FALSE
      BY DEF NewToTheArchive, At, AssetBySourceURL
    <2>1. job'[b] = job[b] /\ b # a /\ job[b].at = "fetch" /\ UrlOf(b)' = UrlOf(b)
      BY <1>5 DEF UrlOf
    <2>2. AssetBySourceURL(UrlOf(b)) = {}
      BY <2>1 DEF NewToTheArchive, At
    <2>3. UrlOf(b) # u
      BY <1>2, <1>3, <2>1 DEF LeadsFit, Downloading
    <2> QED BY <1>4, <1>6, <2>1, <2>2, <2>3 DEF AssetBySourceURL, RowsFit
  <1>9. Stored'
    <2>1. i \in files \cup raced /\ (expiry.at = "files" /\ i \in expiry.paths => i \in raced)
      BY <1>1, <1>2 DEF Stored, At
    <2>2. assets' \subseteq files \cup raced /\ (expiry.at = "files" => expiry.paths \cap assets' \subseteq raced)
      BY <1>4, <2>1 DEF Stored
    <2> QED BY <1>4, <1>5, <2>2 DEF Stored, At
  <1>10. \A b \in Article : Linked(b)'
    BY <1>4, <1>5, LinksKept
  <1> QED BY <1>4, <1>5, <1>7, <1>8, <1>9, <1>10 DEF ArticlesFit, OthersFit

-----------------------------------------------------------------------------
(* What a body shows.                                                      *)

LEMMA LinkAssetInv ==
    ASSUME ImagesInv, NEW a \in Article, LinkAsset(a)
    PROVE  ImagesInv'
  <1> USE DEF ImagesInv
  <1>1. PICK x \in Job : x = job[a]
    BY DEF JobsFit
  <1>2. MayBe(a, x) /\ x.at = "link" /\ x.k \in Nat /\ x.shows \in Seq(Shown)
    BY <1>1 DEF JobsFit, LinkAsset, At, Job
  <1>3. x.k \in DOMAIN x.shows /\ DOMAIN x.shows = DOMAIN Uses[a]
    BY <1>2 DEF MayBe, Running
  <1>4. UNCHANGED <<serves, expiry, expired, raced, late, acts, body, page, assets, source, files, lead, faults>>
    BY DEF LinkAsset, rest
  <1>5. PICK what \in Shown :
           /\ job' = [job EXCEPT ![a] = [at |-> "image", k |-> x.k + 1, got |-> Missing,
                                         shows |-> [x.shows EXCEPT ![x.k] = what]]]
           /\ \/ what \notin Image /\ UNCHANGED links
              \/ what \in assets /\ links' = [links EXCEPT ![a] = links[a] \cup {what}]
    <2>1. ASSUME NEW w, Showing(a, w)
          PROVE  job' = [job EXCEPT ![a] = [at |-> "image", k |-> x.k + 1, got |-> Missing,
                                            shows |-> [x.shows EXCEPT ![x.k] = w]]]
      BY <1>1, <2>1 DEF Showing, JobsFit
    <2>2. Root \in Shown \ Image /\ Origin \in Shown \ Image
      BY ImagesConstants DEF Shown
    <2>3. CASE Showing(a, Root) /\ UNCHANGED links
      BY <2>1, <2>2, <2>3
    <2>4. CASE Showing(a, Origin) /\ UNCHANGED links
      BY <2>1, <2>2, <2>4
    <2>5. CASE x.got \in assets /\ Showing(a, x.got) /\ links' = [links EXCEPT ![a] = links[a] \cup {x.got}]
      <3>1. x.got \in Shown
        BY <2>5 DEF RowsFit, Shown
      <3> QED BY <2>1, <2>5, <3>1
    <2> QED BY <1>1, <2>3, <2>4, <2>5 DEF LinkAsset, Referenced
  <1>6. PICK shows : shows = [x.shows EXCEPT ![x.k] = what]
    OBVIOUS
  <1>7. /\ shows \in Seq(Shown) /\ DOMAIN shows = DOMAIN Uses[a]
        /\ ImagesIn(shows) \subseteq ImagesIn(x.shows) \cup ({what} \cap Image)
    BY <1>2, <1>3, <1>6, OneShown
  <1> DEFINE j == [at |-> "image", k |-> x.k + 1, got |-> Missing, shows |-> shows]
  <1>8. j \in Job /\ j.at = "image" /\ j.shows = shows
    BY <1>2, <1>7 DEF Job, Running
  <1>9. job' = [job EXCEPT ![a] = j]
    BY <1>5, <1>6
  <1> HIDE DEF j
  <1>10. MayBe(a, j) /\ j.at \notin Downloading /\ j.at # "wait" /\ job[a].at \notin Downloading
    BY <1>1, <1>2, <1>7, <1>8 DEF MayBe, Running, Downloading
  <1>11. /\ JobsFit' /\ LeadsFit' /\ NewToTheArchive' /\ Stored'
         /\ \A b \in Article : job'[b] = IF b = a THEN j ELSE job[b]
    BY <1>4, <1>8, <1>9, <1>10, QuietMove
  <1>12. RowsFit'
    BY <1>4, <1>5 DEF RowsFit
  <1>13. \A b \in Article : links[b] \subseteq links'[b]
    BY <1>5 DEF RowsFit
  <1>14. a \notin late => ImagesIn(shows) \subseteq links'[a]
    <2>1. a \notin late => ImagesIn(x.shows) \subseteq links[a]
      BY <1>1 DEF Linked
    <2>2. what \in Image => what \in links'[a]
      BY <1>5 DEF RowsFit
    <2> QED BY <1>7, <1>13, <2>1, <2>2
  <1>15. ASSUME NEW b \in Article PROVE Linked(b)'
    <2>1. Linked(b)
      OBVIOUS
    <2> QED BY <1>4, <1>8, <1>11, <1>13, <1>14, <2>1 DEF Linked
  <1> QED BY <1>4, <1>11, <1>12, <1>15 DEF ArticlesFit, OthersFit

LEMMA UpdateContentInv ==
    ASSUME ImagesInv, NEW a \in Article, UpdateContentHTML(a)
    PROVE  ImagesInv'
  <1> USE DEF ImagesInv
  <1>1. PICK x \in Job : x = job[a]
    BY DEF JobsFit
  <1>2. MayBe(a, x) /\ x.at = "update" /\ x.shows \in Seq(Shown)
    BY <1>1 DEF JobsFit, UpdateContentHTML, At, Job
  <1>3. UNCHANGED <<serves, expiry, expired, raced, late, acts, page, assets, source, links, files, lead, faults>>
    BY DEF UpdateContentHTML, rest, rowVars
  <1> DEFINE j == [x EXCEPT !.at = "files"]
  <1>4. j \in Job /\ j.at = "files" /\ j.shows = x.shows
    BY DEF Job, Running
  <1>5. job' = [job EXCEPT ![a] = j]
    BY <1>1 DEF UpdateContentHTML, Goes
  <1> HIDE DEF j
  <1>6. MayBe(a, j) /\ j.at \notin Downloading /\ j.at # "wait" /\ job[a].at \notin Downloading
    BY <1>1, <1>2, <1>4 DEF MayBe, Running, Downloading
  <1>7. /\ JobsFit' /\ LeadsFit' /\ NewToTheArchive' /\ Stored'
        /\ \A b \in Article : job'[b] = IF b = a THEN j ELSE job[b]
    BY <1>3, <1>4, <1>5, <1>6, QuietMove
  <1>8. PICK old \in Body : old = body[a]
    BY DEF ArticlesFit
  <1>9. PICK new \in Body : /\ body' = [body EXCEPT ![a] = new]
                            /\ IF old.has THEN new.has /\ new.shows = x.shows ELSE new = old
    <2>1. CASE old.has
      <3> DEFINE new == [old EXCEPT !.shows = x.shows]
      <3>1. new \in Body /\ new.has /\ new.shows = x.shows
        BY <1>2, <2>1 DEF Body
      <3>2. body' = [body EXCEPT ![a] = new]
        BY <1>1, <1>8, <2>1 DEF UpdateContentHTML, ArticlesFit
      <3> QED BY <2>1, <3>1, <3>2
    <2>2. CASE ~old.has
      <3>1. [old EXCEPT !.shows = old.shows] = old
        BY DEF Body
      <3>2. body' = [body EXCEPT ![a] = [old EXCEPT !.shows = old.shows]]
        BY <1>8, <2>2 DEF UpdateContentHTML, ArticlesFit
      <3> QED BY <2>2, <3>1, <3>2
    <2> QED BY <2>1, <2>2
  <1>10. \A b \in Article : body'[b] = IF b = a THEN new ELSE body[b]
    BY <1>9 DEF ArticlesFit
  <1>11. DOMAIN x.shows = DOMAIN Uses[a]
    BY <1>2 DEF MayBe, Running
  <1>12. ArticlesFit'
    <2>1. body' \in [Article -> Body]
      BY <1>9 DEF ArticlesFit
    <2>2. new = NoBody \/ (new.has /\ DOMAIN new.shows = DOMAIN Uses[a])
      BY <1>8, <1>9, <1>11 DEF ArticlesFit
    <2> QED BY <1>3, <1>10, <2>1, <2>2 DEF ArticlesFit
  <1>13. ASSUME NEW b \in Article PROVE Linked(b)'
    <2>1. Linked(b)
      OBVIOUS
    <2>2. body'[b].shows = body[b].shows \/ (b = a /\ body'[b].shows = job[b].shows)
      BY <1>1, <1>8, <1>9, <1>10
    <2>3. job'[b].shows = job[b].shows
      BY <1>1, <1>4, <1>7
    <2> QED BY <1>3, <2>1, <2>2, <2>3 DEF Linked
  <1> QED BY <1>3, <1>7, <1>12, <1>13 DEF RowsFit, OthersFit

LEMMA WriteFilesInv ==
    ASSUME ImagesInv, NEW a \in Article, WriteFiles(a)
    PROVE  ImagesInv'
  <1> USE DEF ImagesInv
  <1>1. PICK x \in Job : x = job[a]
    BY DEF JobsFit
  <1>2. MayBe(a, x) /\ x.at = "files" /\ x.shows \in Seq(Shown)
    BY <1>1 DEF JobsFit, WriteFiles, At, Job
  <1>3. /\ UNCHANGED <<serves, expiry, expired, raced, late, acts, body, assets, source, links, files, lead, faults>>
        /\ page' = [page EXCEPT ![a] = x.shows] /\ job' = [job EXCEPT ![a] = NoJob]
    BY <1>1 DEF WriteFiles, rest, rowVars
  <1>4. MayBe(a, NoJob) /\ NoJob.at \notin Downloading /\ NoJob.at # "wait" /\ job[a].at \notin Downloading
    BY <1>1, <1>2, JobConstants DEF MayBe, Running, Downloading
  <1>5. /\ JobsFit' /\ LeadsFit' /\ NewToTheArchive' /\ Stored'
        /\ \A b \in Article : job'[b] = IF b = a THEN NoJob ELSE job[b]
    BY <1>3, <1>4, JobConstants, QuietMove
  <1>6. \A b \in Article : page'[b] = IF b = a THEN x.shows ELSE page[b]
    BY <1>3 DEF ArticlesFit
  <1>7. ArticlesFit'
    <2>1. page' \in [Article -> Seq(Shown)]
      BY <1>2, <1>3 DEF ArticlesFit
    <2>2. DOMAIN x.shows = DOMAIN Uses[a]
      BY <1>2 DEF MayBe, Running
    <2> QED BY <1>3, <1>6, <2>1, <2>2 DEF ArticlesFit
  <1>8. ASSUME NEW b \in Article PROVE Linked(b)'
    <2>1. Linked(b)
      OBVIOUS
    <2>2. page'[b] = page[b] \/ (b = a /\ page'[b] = job[b].shows)
      BY <1>1, <1>6
    <2>3. job'[b].shows = job[b].shows \/ ImagesIn(job'[b].shows) = {}
      BY <1>5, JobConstants, NothingShown
    <2> QED BY <1>3, <2>1, <2>2, <2>3 DEF Linked
  <1> QED BY <1>3, <1>5, <1>7, <1>8 DEF RowsFit, OthersFit

-----------------------------------------------------------------------------
(* A release, and a crash.                                                 *)

\* Jobs and who leads them are left alone.
LEMMA SameJobs ==
    ASSUME JobsFit, LeadsFit, UNCHANGED <<job, lead>>
    PROVE  JobsFit' /\ LeadsFit'
  BY DEF JobsFit, MayBe, LeadsFit, UrlOf, At

LEMMA ExpireArticleInv ==
    ASSUME ImagesInv, NEW a \in Article, ExpireArticle(a)
    PROVE  ImagesInv'
  <1> USE DEF ImagesInv
  <1>1. /\ acts < MaxActs /\ acts' = acts + 1
        /\ expiry' = [at |-> "commit", of |-> a, paths |-> Orphans(a)]
        /\ UNCHANGED <<serves, body, page, assets, source, links, files, job, lead, expired, raced, late, faults>>
    BY DEF ExpireArticle, Act, rowVars
  <1>2. expiry' \in Expiry /\ expiry'.at = "commit" /\ expiry'.of = a
    BY <1>1 DEF Expiry, Orphans, RowsFit
  <1>3. OthersFit'
    BY <1>1, <1>2, ImagesConstants DEF OthersFit
  <1>4. JobsFit' /\ LeadsFit'
    BY <1>1, SameJobs
  <1>5. NewToTheArchive' /\ Stored'
    BY <1>1, <1>2 DEF NewToTheArchive, Stored, At, AssetBySourceURL, UrlOf
  <1>6. \A b \in Article : Linked(b)'
    BY <1>1, LinksKept
  <1> QED BY <1>1, <1>3, <1>4, <1>5, <1>6 DEF ArticlesFit, RowsFit

LEMMA CommitExpiryInv == ImagesInv /\ CommitExpiry => ImagesInv'
  <1> SUFFICES ASSUME ImagesInv, CommitExpiry PROVE ImagesInv'
    OBVIOUS
  <1> USE DEF ImagesInv
  <1>1. PICK e \in Expiry : e = expiry
    BY DEF OthersFit
  <1>2. PICK a \in Article : a = e.of
    BY <1>1 DEF CommitExpiry, OthersFit
  <1>3. e.at = "commit" /\ e.paths \subseteq Image
    BY <1>1 DEF CommitExpiry, Expiry
  <1>4. UNCHANGED <<serves, page, source, files, job, lead, acts, faults>> /\ Watched
    BY DEF CommitExpiry
  <1>5. JobsFit' /\ LeadsFit'
    BY <1>4, SameJobs
  <1>6. /\ raced \subseteq raced' /\ raced' \subseteq Image
        /\ \A b \in Article : job'[b].at = "row" /\ expiry'.at = "files" /\ job'[b].got \in expiry'.paths
              => job'[b].got \in raced'
    BY <1>4, <1>5, WatchedGrows DEF OthersFit
  <1>7. CASE \E i \in e.paths, b \in Article \ {a} : i \in links[b]
    <2>1. expiry' = Idle /\ UNCHANGED <<body, assets, links, expired, late>>
      BY <1>1, <1>2, <1>7 DEF CommitExpiry
    <2>2. OthersFit'
      BY <1>4, <1>6, <2>1, JobConstants DEF OthersFit
    <2>3. NewToTheArchive'
      BY <1>4, <2>1 DEF NewToTheArchive, At, AssetBySourceURL, UrlOf
    <2>4. Stored'
      BY <1>4, <1>6, <2>1, JobConstants DEF Stored, At
    <2>5. \A b \in Article : Linked(b)'
      BY <1>4, <2>1, LinksKept
    <2> QED BY <1>4, <1>5, <2>1, <2>2, <2>3, <2>4, <2>5 DEF ArticlesFit, RowsFit
  <1>8. CASE \A i \in e.paths, b \in Article \ {a} : i \notin links[b]
    <2>1. /\ body' = [body EXCEPT ![a] = NoBody]
          /\ expired' = [expired EXCEPT ![a] = TRUE]
          /\ links' = [links EXCEPT ![a] = {}]
          /\ assets' = assets \ e.paths
          /\ expiry' = [e EXCEPT !.at = "files"]
          /\ late' = late \cup (IF job[a].at \in Running THEN {a} ELSE {})
      BY <1>1, <1>2, <1>8 DEF CommitExpiry
    <2>2. expiry' \in Expiry /\ expiry'.at = "files" /\ expiry'.of = a /\ expiry'.paths = e.paths
      BY <1>2, <2>1 DEF Expiry
    <2>3. \A b \in Article : /\ body'[b] = IF b = a THEN NoBody ELSE body[b]
                             /\ links'[b] = IF b = a THEN {} ELSE links[b]
                             /\ expired'[b] = IF b = a THEN TRUE ELSE expired[b]
      BY <2>1 DEF ArticlesFit, RowsFit, OthersFit
    <2>4. ArticlesFit'
      <3>1. body' \in [Article -> Body]
        BY <2>1, NoBodyType DEF ArticlesFit
      <3> QED BY <1>4, <2>3, <3>1 DEF ArticlesFit
    <2>5. RowsFit'
      <3>1. \A b \in Article : links'[b] \subseteq assets'
        BY <1>8, <2>1, <2>3 DEF RowsFit
      <3>2. links' = [b \in Article |-> links'[b]]
        BY <2>1 DEF RowsFit
      <3> QED BY <1>4, <2>1, <3>1, <3>2 DEF RowsFit
    <2>6. OthersFit'
      <3>1. expired' \in [Article -> BOOLEAN] /\ late' \subseteq Article
        BY <2>1 DEF OthersFit
      <3> QED BY <1>4, <1>6, <2>2, <3>1 DEF OthersFit
    <2>7. NewToTheArchive'
      BY <1>4, <2>1 DEF NewToTheArchive, At, AssetBySourceURL, UrlOf
    <2>8. Stored'
      <3>1. assets' \subseteq files' \cup raced' /\ expiry'.paths \cap assets' \subseteq raced'
        BY <1>4, <1>6, <2>1, <2>2 DEF Stored
      <3>2. \A b \in Article : job'[b].at = "row" => job'[b].got \in files' \cup raced'
        BY <1>4, <1>6 DEF Stored, At
      <3> QED BY <1>6, <3>1, <3>2 DEF Stored, At
    <2>9. ASSUME NEW b \in Article PROVE Linked(b)'
      <3>1. Linked(b)
        OBVIOUS
      <3>2. CASE b # a
        BY <1>4, <2>1, <2>3, <3>1, <3>2 DEF Linked
      <3>3. CASE b = a /\ job[a].at \in Running
        BY <2>1, <3>3 DEF Linked
      <3>4. CASE b = a /\ job[a].at \notin Running
        <4>1. job'[a].shows = <<>> /\ body'[a].shows = <<>> /\ expired'[a]
          BY <1>4, <2>3, <3>4, NoBodyType DEF JobsFit, MayBe
        <4> QED BY <3>4, <4>1, NothingShown DEF Linked
      <3> QED BY <3>2, <3>3, <3>4
    <2> QED BY <1>5, <2>4, <2>5, <2>6, <2>7, <2>8, <2>9
  <1> QED BY <1>7, <1>8

LEMMA RemoveBlobsInv == ImagesInv /\ RemoveBlobs => ImagesInv'
  <1> SUFFICES ASSUME ImagesInv, RemoveBlobs PROVE ImagesInv'
    OBVIOUS
  <1> USE DEF ImagesInv
  <1>1. PICK e \in Expiry : e = expiry
    BY DEF OthersFit
  <1>2. e.at = "files" /\ e.paths \subseteq Image
    BY <1>1 DEF RemoveBlobs, Expiry
  <1>3. UNCHANGED <<serves, body, page, assets, source, links, job, lead, expired, raced, late, acts>>
    BY DEF RemoveBlobs, rowVars
  <1>4. JobsFit' /\ LeadsFit'
    BY <1>3, SameJobs
  <1>5. NewToTheArchive'
    BY <1>3 DEF NewToTheArchive, At, AssetBySourceURL, UrlOf
  <1>6. \A b \in Article : Linked(b)'
    BY <1>3, LinksKept
  <1>7. CASE e.paths = {}
    <2>1. expiry' = Idle /\ UNCHANGED <<files, faults>>
      BY <1>1, <1>7 DEF RemoveBlobs
    <2>2. Stored' /\ OthersFit'
      BY <1>3, <2>1, JobConstants DEF Stored, At, OthersFit
    <2> QED BY <1>3, <1>4, <1>5, <1>6, <2>1, <2>2 DEF ArticlesFit, RowsFit
  <1>8. CASE e.paths # {}
    <2>1. PICK i \in e.paths :
             /\ expiry' = [e EXCEPT !.paths = e.paths \ {i}]
             /\ \/ files' = files \ {i} /\ UNCHANGED faults
                \/ Fault /\ UNCHANGED files
      BY <1>1, <1>8 DEF RemoveBlobs
    <2>2. /\ expiry' \in Expiry /\ expiry'.at = "files" /\ expiry'.of = e.of
          /\ expiry'.paths = e.paths \ {i}
      BY <1>2, <2>1 DEF Expiry
    <2>3. /\ files \ {i} \subseteq files' /\ files' \subseteq files
          /\ faults' \in 0 .. MaxFaults
      BY <2>1, ImagesConstants DEF OthersFit, Fault
    <2>4. Stored'
      <3>1. assets' \subseteq files' \cup raced' /\ expiry'.paths \cap assets' \subseteq raced'
        BY <1>1, <1>2, <1>3, <2>2, <2>3 DEF Stored
      <3>2. ASSUME NEW b \in Article, job'[b].at = "row"
            PROVE  /\ job'[b].got \in files' \cup raced'
                   /\ job'[b].got \in expiry'.paths => job'[b].got \in raced'
        BY <1>1, <1>2, <1>3, <2>2, <2>3, <3>2 DEF Stored, At
      <3> QED BY <3>1, <3>2 DEF Stored, At
    <2>5. OthersFit'
      BY <1>1, <1>2, <1>3, <2>2, <2>3 DEF OthersFit
    <2> QED BY <1>3, <1>4, <1>5, <1>6, <2>3, <2>4, <2>5 DEF ArticlesFit, RowsFit
  <1> QED BY <1>7, <1>8

LEMMA CrashInv == ImagesInv /\ Crash => ImagesInv'
  <1> SUFFICES ASSUME ImagesInv, Crash PROVE ImagesInv'
    OBVIOUS
  <1> USE DEF ImagesInv
  <1>1. /\ job' = [a \in Article |-> IF job[a].at \in Running THEN Queued ELSE job[a]]
        /\ lead' = [u \in Url |-> Nobody] /\ expiry' = Idle
        /\ faults < MaxFaults /\ faults' = faults + 1
        /\ UNCHANGED <<serves, body, page, assets, source, links, files, expired, raced, late, acts>>
    BY DEF Crash, Fault, rowVars
  <1>2. \A a \in Article : job'[a] = IF job[a].at \in Running THEN Queued ELSE job[a]
    BY <1>1
  <1>3. \A a \in Article : job'[a].at \in {"none", "queued"} /\ job'[a].shows = <<>>
    BY <1>2, JobConstants DEF JobsFit, Job, MayBe
  <1>4. JobsFit'
    <2>1. job' \in [Article -> Job]
      BY <1>1, JobConstants DEF JobsFit
    <2> QED BY <1>3, <2>1 DEF JobsFit, MayBe, Running, Downloading
  <1>5. LeadsFit'
    BY <1>1, <1>3 DEF LeadsFit, At, Downloading
  <1>6. NewToTheArchive' /\ Stored'
    BY <1>1, <1>3, JobConstants DEF NewToTheArchive, Stored, At
  <1>7. OthersFit'
    BY <1>1, JobConstants, ImagesConstants DEF OthersFit
  <1>8. \A a \in Article : Linked(a)'
    BY <1>1, <1>3, NothingShown, LinksKept
  <1> QED BY <1>1, <1>4, <1>5, <1>6, <1>7, <1>8 DEF ArticlesFit, RowsFit

-----------------------------------------------------------------------------
LEMMA NextInv == ImagesInv /\ [Next]_vars => ImagesInv'
  <1> SUFFICES ASSUME ImagesInv, [Next]_vars PROVE ImagesInv'
    OBVIOUS
  <1>1. ASSUME NEW a \in Article, InsertContent(a) \/ ExpireArticle(a) PROVE ImagesInv'
    BY <1>1, InsertContentInv, ExpireArticleInv
  <1>2. ASSUME NEW a \in Article, Localize(a) PROVE ImagesInv'
    BY <1>2, StartLocalizeInv, NextImageInv, ResolveInv, CheckSourceInv, FetchInv, ExistsInv,
       PutInv, UpsertAssetInv, LinkAssetInv, UpdateContentInv, WriteFilesInv DEF Localize
  <1>3. CASE CommitExpiry \/ RemoveBlobs \/ Crash
    BY <1>3, CommitExpiryInv, RemoveBlobsInv, CrashInv
  <1>4. CASE UNCHANGED vars
    <2> USE DEF ImagesInv
    <2>1. UNCHANGED <<serves, body, page, assets, source, links, files, job, lead, expiry, expired, raced, late, acts, faults>>
      BY <1>4 DEF vars
    <2>2. JobsFit' /\ LeadsFit' /\ \A a \in Article : Linked(a)'
      BY <2>1, SameJobs, LinksKept
    <2>3. NewToTheArchive' /\ Stored'
      BY <2>1 DEF NewToTheArchive, Stored, At, AssetBySourceURL, UrlOf
    <2> QED BY <2>1, <2>2, <2>3 DEF ArticlesFit, RowsFit, OthersFit
  <1> QED BY <1>1, <1>2, <1>3, <1>4 DEF Next

\* The invariant is one: every reachable state of the archive keeps it.
LEMMA Invariance == Spec => []ImagesInv
  BY InitInv, NextInv, PTL DEF Spec

\* Bodies show what their addresses came to, links name rows, and an address is led
\* by a job that is downloading it, whatever is extracted, released or cut short.
THEOREM TypeCorrect == Spec => []TypeOK
  <1>1. ImagesInv => TypeOK
    BY DEF ImagesInv, TypeOK, ArticlesFit, JobsFit, MayBe, LeadsFit, RowsFit, OthersFit
  <1> QED BY <1>1, Invariance, PTL

\* A picture a body or a page shows from the archive is linked by its article and on the
\* disk, however many articles share it and are released: but for an article released
\* while it was localized, and an image stored under a removal of its file
\* (store/retention.go ExpireArticle).
THEOREM ShownIsStored == Spec => []ShownImageIsStored
  <1>1. ImagesInv => ShownImageIsStored
    <2> SUFFICES ASSUME ImagesInv, NEW a \in Article \ late
                 PROVE  /\ Kept(a, body[a].shows)
                        /\ ~expired[a] => Kept(a, page[a])
      BY DEF ShownImageIsStored
    <2>1. links[a] \subseteq files \cup raced
      BY DEF ImagesInv, RowsFit, Stored
    <2>2. Linked(a)
      BY DEF ImagesInv
    <2> QED BY <2>1, <2>2 DEF Linked, Kept
  <1> QED BY <1>1, Invariance, PTL

\* No two jobs fetch one address together, and none fetches an address that a row
\* names as the one its image came from (jobs/assets.go, inflight and resolve). It says
\* nothing of an address whose bytes were first met under another: the row keeps the
\* first, so those are fetched again for every article (store/assets.go:77-80 has the
\* same image of ten articles downloaded once).
THEOREM OriginAskedOnce == Spec => []AskedOnce
  <1>1. ImagesInv => AskedOnce
    <2> SUFFICES ASSUME ImagesInv, NEW a \in Article, At(a, "fetch")
                 PROVE  /\ AssetBySourceURL(UrlOf(a)) = {}
                        /\ \A b \in Article \ {a} : At(b, "fetch") => UrlOf(b) # UrlOf(a)
      BY DEF AskedOnce
    <2>1. \A b \in Article : At(b, "fetch") => lead[UrlOf(b)] = b
      BY DEF ImagesInv, LeadsFit, At, Downloading
    <2> QED BY <2>1 DEF ImagesInv, NewToTheArchive
  <1> QED BY <1>1, Invariance, PTL


\* The race RowHasItsFile loses is the only way to lose it: a row is without its file
\* only where the image was stored under a removal of that file (jobs/assets.go,
\* download: "An extra file is harmless; a dangling reference breaks the page").
THEOREM OnlyARaceDangles == Spec => [](assets \subseteq files \cup raced)
  <1>1. ImagesInv => assets \subseteq files \cup raced
    BY DEF ImagesInv, Stored
  <1> QED BY <1>1, Invariance, PTL

=============================================================================
