------------------------------- MODULE Images -------------------------------
(***************************************************************************)
(* The images of articles: rows and files under content addresses, shared  *)
(* by every article that shows them.  Localization jobs bring them in, one *)
(* download per address at a time, and rewrite bodies to show them; expiry *)
(* releases a body and whatever no other article links.                    *)
(*                                                                         *)
(* The household's bodies alone, and no article with the same picture      *)
(* twice.  Statuses are in Pipeline, who lets go of an article in          *)
(* Retention.                                                              *)
(***************************************************************************)
EXTENDS Naturals, Sequences, FiniteSets

CONSTANTS
    Article, Url,
    Image,              \* contents, by their hash
    Origin, Root,       \* what a body shows instead: the address, or "/"
    Pixel, Missing,     \* of a download: an image not worth keeping, no image
    Nobody,
    Uses,               \* the addresses a body shows, in order
    MaxActs, MaxFaults  \* bounds: extractions and releases, and what fails

ASSUME ImagesConstants ==
    /\ Uses \in [Article -> Seq(Url)]
    /\ \A a \in Article : \A j, k \in DOMAIN Uses[a] : Uses[a][j] = Uses[a][k] => j = k
    /\ {Origin, Root, Pixel, Missing} \cap Image = {} /\ Nobody \notin Article \cup Url
    /\ MaxActs \in Nat /\ MaxFaults \in Nat

VARIABLES
    serves,     \* what each address answers
    body,       \* article_content: of each image of the body, what it shows
    page,       \* index.html of each article
    assets, source, \* rows, and the address the first download came from
    links,      \* article_assets
    files,      \* images in the blob store
    job,        \* the localization of each article
    lead,       \* inflight: who downloads an address
    expiry,     \* the article being released, and the files to remove
    expired,    \* content_expired_at IS NOT NULL
    raced,      \* history: images stored under a removal of the same file
    late,       \* history: articles released while they were localized
    acts, faults

vars == <<serves, body, page, assets, source, links, files, job, lead, expiry, expired,
          raced, late, acts, faults>>

Shown    == Image \cup {Origin, Root}
Shows(a) == [k \in DOMAIN Uses[a] |-> Origin]
Body     == [has : BOOLEAN, shows : Seq(Shown)]
NoBody   == [has |-> FALSE, shows |-> <<>>]
NoJob    == [at |-> "none", k |-> 1, shows |-> <<>>, got |-> Missing]
Queued   == [NoJob EXCEPT !.at = "queued"]
Idle     == [at |-> "idle", of |-> Nobody, paths |-> {}]

\* Between the beginning of a download and its end.
Downloading == {"check", "fetch", "exists", "put", "row"}
Running     == Downloading \cup {"image", "wait", "link", "update", "files"}

Job    == [at : Running \cup {"none", "queued"}, k : Nat, shows : Seq(Shown),
           got : Image \cup {Pixel, Missing}]
Expiry == [at : {"idle", "commit", "files"}, of : Article \cup {Nobody}, paths : SUBSET Image]

Act   == acts < MaxActs /\ acts' = acts + 1
Fault == faults < MaxFaults /\ faults' = faults + 1

At(a, where) == job[a].at = where
UrlOf(a)     == Uses[a][job[a].k]
Goes(a, to)  == job' = [job EXCEPT ![a].at = to]

rowVars  == <<assets, source, links>>
rest     == <<serves, expiry, expired, raced, late, acts>>

downloadRest == <<serves, expiry, expired, late, acts, body, page, rowVars>>

\* An image whose file was found, or just written, and is still to be removed.
Overlapping ==
    {job[a].got : a \in {b \in Article : At(b, "row")}}
        \cap (IF expiry.at = "files" THEN expiry.paths ELSE {})
Watched == raced' = raced \cup Overlapping'

-----------------------------------------------------------------------------
(* Bodies come from extraction, which asks for their images.               *)

\* An outstanding job is not doubled, a running one included.
InsertContent(a) ==
    /\ Act
    /\ body' = [body EXCEPT ![a] = [has |-> TRUE, shows |-> Shows(a)]]
    /\ job' = [job EXCEPT ![a] = IF @.at = "none" THEN Queued ELSE @]
    /\ UNCHANGED <<serves, page, rowVars, files, lead, expiry, expired, raced, late, faults>>

StartLocalize(a) ==
    /\ At(a, "queued")
    /\ job' = [job EXCEPT ![a] = IF body[a].has
                                 THEN [NoJob EXCEPT !.at = "image", !.shows = body[a].shows]
                                 ELSE NoJob]
    /\ UNCHANGED <<rest, body, page, rowVars, files, lead, faults>>

-----------------------------------------------------------------------------
(* asset.Localize, and the resolver it calls for each image in turn.       *)

\* What is in the archive already, or has no address, is left as it is.
ShouldFetch(a) == job[a].shows[job[a].k] = Origin

NextImage(a) ==
    /\ At(a, "image") /\ job[a].k \in DOMAIN Uses[a] /\ ~ShouldFetch(a)
    /\ job' = [job EXCEPT ![a].k = @ + 1]
    /\ UNCHANGED <<rest, body, page, rowVars, files, lead, faults>>

\* Mutant of Leads: everybody downloads for themselves.
LeadsAlways(u) == TRUE

\* inflight.Do: the first to ask downloads, the others wait for what it gets.
Leads(u) == lead[u] = Nobody

Resolve(a) ==
    /\ At(a, "image") /\ job[a].k \in DOMAIN Uses[a] /\ ShouldFetch(a)
    /\ IF Leads(UrlOf(a))
       THEN lead' = [lead EXCEPT ![UrlOf(a)] = a] /\ Goes(a, "check")
       ELSE UNCHANGED lead /\ Goes(a, "wait")
    /\ UNCHANGED <<rest, body, page, rowVars, files, faults>>

\* The answer is everybody's who asked for the address.
Answer(a, got) ==
    LET u == UrlOf(a) IN
    /\ lead' = [lead EXCEPT ![u] = Nobody]
    /\ job' = [b \in Article |-> IF b = a \/ (At(b, "wait") /\ UrlOf(b) = u)
                                 THEN [job[b] EXCEPT !.at = "link", !.got = got] ELSE job[b]]

AssetBySourceURL(u) == {i \in assets : source[i] = u}

CheckSource(a) ==
    /\ At(a, "check")
    /\ IF AssetBySourceURL(UrlOf(a)) = {} THEN Goes(a, "fetch") /\ UNCHANGED lead
       ELSE \E i \in AssetBySourceURL(UrlOf(a)) : Answer(a, i)
    /\ UNCHANGED <<rest, body, page, rowVars, files, faults>>

\* The origin, the image policy and the transcoder, or a shutdown.
Fetch(a) ==
    LET got == serves[UrlOf(a)] IN
    /\ At(a, "fetch")
    /\ \/ got = Pixel /\ Answer(a, Pixel) /\ UNCHANGED faults
       \/ /\ got # Pixel
          /\ job' = [job EXCEPT ![a] = [@ EXCEPT !.at = "exists", !.got = got]]
          /\ UNCHANGED <<lead, faults>>
       \/ Fault /\ Answer(a, Missing)
    /\ UNCHANGED <<rest, body, page, rowVars, files>>

Exists(a) ==
    /\ At(a, "exists")
    /\ Goes(a, IF job[a].got \in files THEN "row" ELSE "put")
    /\ UNCHANGED <<downloadRest, files, lead, faults>>
    /\ Watched

Put(a) ==
    /\ At(a, "put")
    /\ \/ files' = files \cup {job[a].got} /\ Goes(a, "row") /\ UNCHANGED <<lead, faults>>
       \/ Fault /\ Answer(a, Missing) /\ UNCHANGED files
    /\ UNCHANGED downloadRest
    /\ Watched

\* The same bytes keep the address they first came from.
UpsertAsset(a) ==
    LET i == job[a].got IN
    /\ At(a, "row")
    /\ assets' = assets \cup {i}
    /\ source' = [source EXCEPT ![i] = IF i \in assets THEN @ ELSE UrlOf(a)]
    /\ Answer(a, i)
    /\ UNCHANGED <<rest, body, page, links, files, faults>>

\* What the body shows for this image from here on.
Showing(a, what) ==
    job' = [job EXCEPT ![a] = [at |-> "image", k |-> @.k + 1, got |-> Missing,
                               shows |-> [@.shows EXCEPT ![job[a].k] = what]]]

\* Mutant of Referenced: the link does not name a row.
ReferencedAnyway(i) == TRUE

\* article_assets.sha256 REFERENCES assets.
Referenced(i) == i \in assets

\* Mutant of LinkAsset: an image the article before brought in needs no link.
LinkAssetOnce(a) ==
    LET i == job[a].got IN
    /\ At(a, "link")
    /\ IF i = Pixel THEN Showing(a, Root) /\ UNCHANGED links
       ELSE IF i = Missing \/ ~Referenced(i) THEN Showing(a, Origin) /\ UNCHANGED links
       ELSE /\ links' = [links EXCEPT ![a] = IF \E b \in Article : i \in links[b] THEN @
                                             ELSE @ \cup {i}]
            /\ Showing(a, i)
    /\ UNCHANGED <<rest, body, page, assets, source, files, lead, faults>>

\* A row that went meanwhile cannot be linked, and counts as a failure.  One not
\* worth keeping is answered with an empty path, which the body shows as "/".
LinkAsset(a) ==
    LET i == job[a].got IN
    /\ At(a, "link")
    /\ \/ i = Pixel /\ Showing(a, Root) /\ UNCHANGED links
       \/ (i = Missing \/ (i \in Image /\ ~Referenced(i))) /\ Showing(a, Origin) /\ UNCHANGED links
       \/ /\ i \in Image /\ Referenced(i)
          /\ links' = [links EXCEPT ![a] = @ \cup {i}]
          /\ Showing(a, i)
    /\ UNCHANGED <<rest, body, page, assets, source, files, lead, faults>>

Localized(a) ==
    /\ At(a, "image") /\ job[a].k \notin DOMAIN Uses[a]
    /\ Goes(a, "update")
    /\ UNCHANGED <<rest, body, page, rowVars, files, lead, faults>>

\* Of whatever body is current by now, and of none if it was released.
UpdateContentHTML(a) ==
    /\ At(a, "update")
    /\ body' = [body EXCEPT ![a].shows = IF body[a].has THEN job[a].shows ELSE @]
    /\ Goes(a, "files")
    /\ UNCHANGED <<rest, page, rowVars, files, lead, faults>>

\* index.html and meta.json, from the markup at hand.
WriteFiles(a) ==
    /\ At(a, "files")
    /\ page' = [page EXCEPT ![a] = job[a].shows]
    /\ job' = [job EXCEPT ![a] = NoJob]
    /\ UNCHANGED <<rest, body, rowVars, files, lead, faults>>

-----------------------------------------------------------------------------
(* ExpireContentWorker, and its transaction of three statements that count *)
(* here: what only this article links, the deletions, the commit.          *)

Orphans(a) == {i \in links[a] : \A b \in Article \ {a} : i \notin links[b]}

ExpireArticle(a) ==
    /\ Act
    /\ expiry.at = "idle" /\ body[a].has /\ ~expired[a]
    /\ expiry' = [at |-> "commit", of |-> a, paths |-> Orphans(a)]
    /\ UNCHANGED <<serves, body, page, rowVars, files, job, lead, expired, raced, late, faults>>

\* A link made since holds the row, and with it the whole release.
CommitExpiry ==
    LET a == expiry.of IN
    /\ expiry.at = "commit"
    /\ IF \E i \in expiry.paths, b \in Article \ {a} : i \in links[b]
       THEN expiry' = Idle /\ UNCHANGED <<body, assets, links, expired, late>>
       ELSE /\ body' = [body EXCEPT ![a] = NoBody]
            /\ expired' = [expired EXCEPT ![a] = TRUE]
            /\ links' = [links EXCEPT ![a] = {}]
            /\ assets' = assets \ expiry.paths
            /\ expiry' = [expiry EXCEPT !.at = "files"]
            /\ late' = late \cup (IF job[a].at \in Running THEN {a} ELSE {})
    /\ UNCHANGED <<serves, page, source, files, job, lead, acts, faults>>
    /\ Watched

\* Failures are swallowed: a file that stays is only wasted space.
RemoveBlobs ==
    /\ expiry.at = "files"
    /\ IF expiry.paths = {} THEN expiry' = Idle /\ UNCHANGED <<files, faults>>
       ELSE \E i \in expiry.paths :
               /\ expiry' = [expiry EXCEPT !.paths = @ \ {i}]
               /\ \/ files' = files \ {i} /\ UNCHANGED faults
                  \/ Fault /\ UNCHANGED files
    /\ UNCHANGED <<serves, body, page, rowVars, job, lead, expired, raced, late, acts>>

\* The process dies: jobs are run again, what was only in memory is gone.
Crash ==
    /\ Fault
    /\ job' = [a \in Article |-> IF job[a].at \in Running THEN Queued ELSE job[a]]
    /\ lead' = [u \in Url |-> Nobody]
    /\ expiry' = Idle
    /\ UNCHANGED <<serves, body, page, rowVars, files, expired, raced, late, acts>>

-----------------------------------------------------------------------------
\* Two bodies just extracted.
Init ==
    /\ serves \in [Url -> Image \cup {Pixel}]
    /\ body = [a \in Article |-> [has |-> TRUE, shows |-> Shows(a)]]
    /\ page = [a \in Article |-> <<>>]
    /\ assets = {} /\ source = [i \in Image |-> Nobody]
    /\ links = [a \in Article |-> {}] /\ files = {}
    /\ job = [a \in Article |-> Queued]
    /\ lead = [u \in Url |-> Nobody]
    /\ expiry = Idle /\ expired = [a \in Article |-> FALSE]
    /\ raced = {} /\ late = {} /\ acts = 0 /\ faults = 0

Localize(a) ==
    \/ StartLocalize(a) \/ NextImage(a) \/ Resolve(a) \/ CheckSource(a)
    \/ Fetch(a) \/ Exists(a) \/ Put(a) \/ UpsertAsset(a) \/ LinkAsset(a)
    \/ Localized(a) \/ UpdateContentHTML(a) \/ WriteFiles(a)

Next ==
    \/ \E a \in Article : InsertContent(a) \/ Localize(a) \/ ExpireArticle(a)
    \/ CommitExpiry \/ RemoveBlobs \/ Crash

Spec == Init /\ [][Next]_vars

-----------------------------------------------------------------------------
ImagesIn(shows) == {shows[k] : k \in DOMAIN shows} \cap Image

\* Bodies show what their addresses came to, links name rows, and an address is
\* downloaded by a job that says so.
TypeOK ==
    /\ serves \in [Url -> Image \cup {Pixel}]
    /\ body \in [Article -> Body] /\ page \in [Article -> Seq(Shown)]
    /\ job \in [Article -> Job]
    /\ \A a \in Article :
          /\ body[a] = NoBody \/ (body[a].has /\ DOMAIN body[a].shows = DOMAIN Uses[a])
          /\ page[a] = <<>> \/ DOMAIN page[a] = DOMAIN Uses[a]
          /\ job[a].at \in Running => DOMAIN job[a].shows = DOMAIN Uses[a]
    /\ assets \subseteq Image /\ source \in [Image -> Url \cup {Nobody}]
    /\ \A i \in assets : source[i] \in Url
    /\ links \in [Article -> SUBSET assets] /\ files \subseteq Image
    /\ lead \in [Url -> Article \cup {Nobody}]
    /\ \A u \in Url : lead[u] # Nobody =>
          job[lead[u]].at \in Downloading /\ UrlOf(lead[u]) = u
    /\ expiry \in Expiry /\ (expiry.at # "idle" => expiry.of \in Article)
    /\ expired \in [Article -> BOOLEAN]
    /\ raced \subseteq Image /\ late \subseteq Article
    /\ acts \in 0 .. MaxActs /\ faults \in 0 .. MaxFaults

\* A picture that a body or a page shows from the archive is linked by that article
\* and on the disk, however many articles share it and are released: but for an
\* article released while it was being localized, and an image stored under a
\* removal of its file (store/retention.go, ExpireArticle: one used by three
\* articles must survive the expiry of two of them).
Kept(a, shows) == \A i \in ImagesIn(shows) : i \in links[a] /\ i \in files \cup raced
ShownImageIsStored ==
    \A a \in Article \ late :
       /\ body[a].has => Kept(a, body[a].shows)
       /\ ~expired[a] => Kept(a, page[a])

\* No two jobs fetch one address together, and none fetches an address that a row
\* names as the one its image came from (jobs/assets.go, inflight and resolve). It says
\* nothing of an address whose bytes were first met under another: the row keeps the
\* first, so those are fetched again for every article (store/assets.go:77-80 has the
\* same image of ten articles downloaded once).
AskedOnce ==
    \A a \in Article : At(a, "fetch") =>
       /\ AssetBySourceURL(UrlOf(a)) = {}
       /\ \A b \in Article \ {a} : At(b, "fetch") => UrlOf(b) # UrlOf(a)

\* A row is never left pointing at nothing (jobs/assets.go, download: "An extra file
\* is harmless; a dangling reference breaks the page"), releases of articles being
\* localized apart.
RowHasItsFile == late = {} => assets \subseteq files

=============================================================================
