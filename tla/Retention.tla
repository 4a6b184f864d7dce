----------------------------- MODULE Retention ------------------------------
(***************************************************************************)
(* Who still wants an article, and when its stored body may go.  Bodies    *)
(* belong to the household, claims on them to its readers: each reader's   *)
(* window lets their own reading lapse (ForgetReadArticles), and only when *)
(* nobody has a claim left does expiry, or an operator's prune, release    *)
(* the body (ExpireArticle).                                               *)
(*                                                                         *)
(* Statements of one transaction are one action where another transaction  *)
(* cannot tell; a query and the writes made from its answer are two.       *)
(* Images and files are not here: what is released is the body.            *)
(***************************************************************************)
EXTENDS Integers, FiniteSets

CONSTANTS
    Reader,     \* accounts of the household
    Article,
    Retaining,  \* readers whose window, or the archive's for them, is not zero
    MaxActs,    \* bound: what readers, feeds, imports and the pipeline do
    MaxFaults   \* bound: failed transactions and stopped workers

ASSUME RetentionConstants ==
    /\ Retaining \subseteq Reader
    /\ MaxActs \in Nat /\ MaxFaults \in Nat

VARIABLES
    users,      \* accounts that exist
    carried,    \* carried[r]: articles in feed_items of r's feeds
    state,      \* state[r][a]: r's article_state row for a
    body,       \* article_content of the article
    expired,    \* content_expired_at IS NOT NULL
    tombstone, remove,  \* what a sweep of r's window has read and not written
    expiring,   \* candidates a releaser has listed and not got to
    overtaken,  \* of those, the ones somebody has acted on since
    importing,  \* imports between the body and the reader's state
    acts, faults

sweepVars   == <<tombstone, remove>>
releaseVars == <<expiring, overtaken>>
vars == <<users, carried, state, body, expired, sweepVars, releaseVars,
          importing, acts, faults>>

\* The hourly job and the operator's `tome prune --yes`: each lists its
\* candidates once, then calls ExpireArticle on them one by one.
Releaser == {"expire", "prune"}

\* A read time is recent or lapsed as measured by the reader's window.
ReadAt == {"never", "recent", "lapsed"}
Want   == {"starred", "saved", "kept"}
Body   == {"none", "fetched", "immutable"}

Field == [there : BOOLEAN, read : BOOLEAN, readAt : ReadAt,
          wanted : SUBSET Want, forgotten : BOOLEAN]

\* Without a row an article is unread and unwanted, which is what COALESCE
\* makes of it in every query.
NoRow == [there |-> FALSE, read |-> FALSE, readAt |-> "never",
          wanted |-> {}, forgotten |-> FALSE]

\* A row never claims a read that was undone, and a star has always been saved.
Row == {row \in Field : /\ row.there \/ row = NoRow
                        /\ row.read \/ row.readAt = "never"
                        /\ "starred" \in row.wanted => "saved" \in row.wanted}

-----------------------------------------------------------------------------
(* Reading the state.                                                      *)

\* visibleArticles
Visible(r, a) == r \in users /\ (a \in carried[r] \/ state[r][a].there)

Forgettable(r, a) ==
    LET row == state[r][a]
    IN  /\ row.there /\ ~row.forgotten
        /\ row.read /\ row.wanted = {}
        /\ row.readAt = "lapsed"

\* Mutant of Expirable: only a subscriber's tombstone counts.
ExpirableForASubscriber(a) ==
    /\ ~expired[a] /\ body[a] = "fetched"
    /\ \E r \in Reader : a \in carried[r] /\ state[r][a].forgotten
    /\ \A r \in Reader : state[r][a].there => state[r][a].forgotten
    /\ \A r \in Reader : a \in carried[r] => state[r][a].there

\* Mutant of Expirable: a subscriber who has not seen it has no claim.
ExpirableUnseen(a) ==
    /\ ~expired[a] /\ body[a] = "fetched"
    /\ \E r \in Reader : state[r][a].there /\ state[r][a].forgotten
    /\ \A r \in Reader : state[r][a].there => state[r][a].forgotten

\* ExpirableArticles: the body can be got back, somebody has forgotten the
\* article, nobody's row says otherwise and no subscriber has yet to see it.
Expirable(a) ==
    /\ ~expired[a] /\ body[a] = "fetched"
    /\ \E r \in Reader : state[r][a].there /\ state[r][a].forgotten
    /\ \A r \in Reader : state[r][a].there => state[r][a].forgotten
    /\ \A r \in Reader : a \in carried[r] => state[r][a].there

\* PrunableArticles
Prunable(a) ==
    /\ ~expired[a] /\ body[a] = "fetched"
    /\ \A r \in Reader : a \notin carried[r] /\ ~state[r][a].there

-----------------------------------------------------------------------------
(* What readers do.  Each is one statement, an upsert of one row or of     *)
(* several, and engaging with an article takes its tombstone away.         *)

Act == acts < MaxActs /\ acts' = acts + 1

\* Somebody acts on the articles in S: whoever has listed them is overtaken.
Touch(S) ==
    /\ Act
    /\ overtaken' = [x \in Releaser |-> overtaken[x] \cup (S \cap expiring[x])]

\* COALESCE(read_at, t): the first time it was read, not the latest.
ReadSince(row, t) == IF row.readAt = "never" THEN t ELSE row.readAt

MarkedRead(row) ==
    [row EXCEPT !.there = TRUE, !.forgotten = FALSE,
                !.read = TRUE, !.readAt = ReadSince(row, "recent")]

\* Mutant of Upsert: forgotten_at is not cleared.
UpsertOverTombstone(r, a, row) ==
    state' = [state EXCEPT ![r][a] = [row EXCEPT !.there = TRUE]]

\* INSERT ... ON CONFLICT DO UPDATE SET forgotten_at = NULL, ...
Upsert(r, a, row) ==
    state' = [state EXCEPT ![r][a] = [row EXCEPT !.there = TRUE, !.forgotten = FALSE]]

Wants(r, a, W) == Upsert(r, a, [state[r][a] EXCEPT !.wanted = W])

bodyVars == <<body, expired>>
restOfReading == <<users, carried, bodyVars, sweepVars, expiring, importing, faults>>

\* Mutant of SetRead: read_at is kept when a read is undone.
SetReadKeepingTime(r, a, read) ==
    /\ Visible(r, a)
    /\ Upsert(r, a, IF read THEN MarkedRead(state[r][a])
                    ELSE [state[r][a] EXCEPT !.read = FALSE])
    /\ Touch({a})
    /\ UNCHANGED restOfReading

SetRead(r, a, read) ==
    /\ Visible(r, a)
    /\ Upsert(r, a, IF read THEN MarkedRead(state[r][a])
                    ELSE [state[r][a] EXCEPT !.read = FALSE, !.readAt = "never"])
    /\ Touch({a})
    /\ UNCHANGED restOfReading

\* Unstarring leaves saved_at as it was.
SetStarred(r, a, starred) ==
    /\ Visible(r, a)
    /\ Wants(r, a, IF starred THEN state[r][a].wanted \cup {"starred", "saved"}
                              ELSE state[r][a].wanted \ {"starred"})
    /\ Touch({a})
    /\ UNCHANGED restOfReading

\* The one that does not ask whether the reader can see the article.
SetKept(r, a, kept) ==
    /\ r \in users
    /\ Wants(r, a, IF kept THEN state[r][a].wanted \cup {"kept"}
                           ELSE state[r][a].wanted \ {"kept"})
    /\ Touch({a})
    /\ UNCHANGED restOfReading

SaveArticle(r, a) ==
    /\ r \in users
    /\ Wants(r, a, state[r][a].wanted \cup {"saved"})
    /\ Touch({a})
    /\ UNCHANGED restOfReading

MarkRead(r, S) ==
    /\ S # {} /\ \A a \in S : Visible(r, a) /\ ~state[r][a].read
    /\ state' = [state EXCEPT ![r] =
                    [a \in Article |-> IF a \in S THEN MarkedRead(state[r][a])
                                                  ELSE state[r][a]]]
    /\ Touch(S)
    /\ UNCHANGED restOfReading

\* A whole stream, or a part of it a bookmark bounds.
MarkReadIn(r) == \E S \in SUBSET Article : MarkRead(r, S)

\* Scrolled past: never what the reader starred or saved, though what they kept.
MarkReadAutomatically(r) ==
    \E S \in SUBSET {a \in Article : state[r][a].wanted \subseteq {"kept"}} :
        MarkRead(r, S)

\* A poll of one of r's feeds records that it carries the article.
InsertFeedItem(r, a) ==
    /\ r \in users /\ a \notin carried[r]
    /\ carried' = [carried EXCEPT ![r] = @ \cup {a}]
    /\ Touch({a})
    /\ UNCHANGED <<users, state, bodyVars, sweepVars, expiring, importing, faults>>

\* Unsubscribing takes the articles no other feed of r's carries.
DeleteFeed(r) ==
    /\ r \in users
    /\ \E S \in SUBSET carried[r] \ {{}} : carried' = [carried EXCEPT ![r] = @ \ S]
    /\ Act
    /\ UNCHANGED <<users, state, bodyVars, sweepVars, releaseVars, importing, faults>>

\* Everything scoped to the reader goes with the row.  An administrator is left.
DeleteUser(r) ==
    /\ r \in users /\ users # {r}
    /\ users' = users \ {r}
    /\ carried' = [carried EXCEPT ![r] = {}]
    /\ state' = [state EXCEPT ![r] = [a \in Article |-> NoRow]]
    /\ importing' = {i \in importing : i[1] # r}
    /\ Act
    /\ UNCHANGED <<bodyVars, sweepVars, releaseVars, faults>>

-----------------------------------------------------------------------------
(* Bodies arrive from the pipeline and from imports.                       *)

\* An extraction stores a body: of a new article, of one fetched again, or by a
\* job that was on its way when the old body went.  Nothing clears `expired`.
InsertContent(a) ==
    /\ body[a] = "none"
    /\ body' = [body EXCEPT ![a] = "fetched"]
    /\ Act
    /\ UNCHANGED <<users, carried, state, expired, sweepVars, releaseVars, importing,
                   faults>>

\* An import's body, if it has one that is not here yet, is the source's, and
\* immutable unless the source is this archive's own export and says otherwise.
ImportBody(r, a) ==
    /\ r \in users /\ <<r, a>> \notin importing
    /\ \E b \in {body[a], "fetched", "immutable"} :
          body' = [body EXCEPT ![a] = IF @ = "immutable" THEN @ ELSE b]
    /\ importing' = importing \cup {<<r, a>>}
    /\ Touch({a})
    /\ UNCHANGED <<users, carried, state, expired, sweepVars, expiring, faults>>

\* applyImportedState: read and starred are OR-ed with what the reader has.
ImportState(r, a) ==
    /\ <<r, a>> \in importing
    /\ \E read, starred \in BOOLEAN, t \in {"recent", "lapsed"} :
         LET row == state[r][a]
         IN  Upsert(r, a, [row EXCEPT
                !.read = @ \/ read,
                !.readAt = IF read THEN ReadSince(row, t) ELSE @,
                !.wanted = @ \cup {"saved"} \cup IF starred THEN {"starred"} ELSE {}])
    /\ importing' = importing \ {<<r, a>>}
    /\ overtaken' = [x \in Releaser |-> overtaken[x] \cup ({a} \cap expiring[x])]
    /\ UNCHANGED <<users, carried, bodyVars, sweepVars, expiring, acts, faults>>

\* The importer stops, or fails at this record and goes on to the next.  What says
\* that a record is done is written last, so the import can be run again.
ImportStops(r, a) ==
    /\ <<r, a>> \in importing
    /\ importing' = importing \ {<<r, a>>}
    /\ UNCHANGED <<users, carried, state, bodyVars, sweepVars, releaseVars, acts,
                   faults>>

\* Time passes: something r has read leaves r's window.
Lapse(r, a) ==
    /\ r \in Retaining /\ state[r][a].readAt = "recent"
    /\ state' = [state EXCEPT ![r][a].readAt = "lapsed"]
    /\ UNCHANGED <<users, carried, bodyVars, sweepVars, releaseVars, importing, acts,
                   faults>>

-----------------------------------------------------------------------------
(* The sweep of a reader's window.  One job walks the readers, one         *)
(* transaction each: it reads what may be forgotten, then writes from that *)
(* list without asking again.                                              *)

NoSweep == \A r \in Reader : tombstone[r] = {} /\ remove[r] = {}

\* Mutant of ForgetSelect: every row is deleted, none becomes a tombstone.
ForgetSelectRemoving(r) ==
    /\ NoSweep /\ r \in users \cap Retaining
    /\ LET may == {a \in Article : Forgettable(r, a)}
       IN  may # {} /\ remove' = [remove EXCEPT ![r] = may]
    /\ UNCHANGED <<users, carried, state, bodyVars, tombstone, releaseVars, importing,
                   acts, faults>>

\* What a feed of theirs carries gets a tombstone, the rest loses its row.
ForgetSelect(r) ==
    /\ NoSweep /\ r \in users \cap Retaining
    /\ LET may == {a \in Article : Forgettable(r, a)}
       IN  /\ may # {}
           /\ tombstone' = [tombstone EXCEPT ![r] = may \cap carried[r]]
           /\ remove' = [remove EXCEPT ![r] = may \ carried[r]]
    /\ UNCHANGED <<users, carried, state, bodyVars, releaseVars, importing, acts,
                   faults>>

EndSweep(r) == /\ tombstone' = [tombstone EXCEPT ![r] = {}]
               /\ remove' = [remove EXCEPT ![r] = {}]

Tombstone(row) ==
    IF row.there THEN [row EXCEPT !.forgotten = TRUE, !.readAt = "never",
                                  !.read = TRUE, !.wanted = {}]
                 ELSE row

ForgetCommit(r) ==
    /\ tombstone[r] \cup remove[r] # {}
    /\ state' = [state EXCEPT ![r] =
                   [a \in Article |->
                      IF a \in tombstone[r] THEN Tombstone(state[r][a])
                      ELSE IF a \in remove[r] THEN NoRow ELSE state[r][a]]]
    /\ EndSweep(r)
    /\ UNCHANGED <<users, carried, bodyVars, releaseVars, importing, acts, faults>>

Fault == faults < MaxFaults /\ faults' = faults + 1

\* A statement fails or the worker stops: the transaction is rolled back.
ForgetRollback(r) ==
    /\ tombstone[r] \cup remove[r] # {}
    /\ Fault
    /\ EndSweep(r)
    /\ UNCHANGED <<users, carried, state, bodyVars, releaseVars, importing, acts>>

-----------------------------------------------------------------------------
(* Releasing bodies.                                                       *)

List(x, S) ==
    /\ expiring[x] = {} /\ S # {}
    /\ expiring' = [expiring EXCEPT ![x] = S]
    /\ overtaken' = [overtaken EXCEPT ![x] = {}]
    /\ UNCHANGED <<users, carried, state, bodyVars, sweepVars, importing, acts, faults>>

\* Nothing is listed while nobody has a window: no tombstone is made either.
ExpirableArticles ==
    /\ users \cap Retaining # {}
    /\ List("expire", {a \in Article : Expirable(a)})

PrunableArticles == List("prune", {a \in Article : Prunable(a)})

Unlist(x, S) == /\ expiring' = [expiring EXCEPT ![x] = @ \ S]
                /\ overtaken' = [overtaken EXCEPT ![x] = @ \ S]

\* Whatever body there is goes: the article is not looked at again.
ExpireArticle(x, a) ==
    /\ a \in expiring[x]
    /\ body' = [body EXCEPT ![a] = "none"]
    /\ expired' = [expired EXCEPT ![a] = TRUE]
    /\ Unlist(x, {a})
    /\ UNCHANGED <<users, carried, state, sweepVars, importing, acts, faults>>

\* One article failing does not stop the rest.
ExpireFails(x, a) ==
    /\ a \in expiring[x]
    /\ Fault
    /\ Unlist(x, {a})
    /\ UNCHANGED <<users, carried, state, bodyVars, sweepVars, importing, acts>>

\* The worker or the command stops in the middle of its list.
ReleaserStops(x) ==
    /\ expiring[x] # {}
    /\ Fault
    /\ Unlist(x, expiring[x])
    /\ UNCHANGED <<users, carried, state, bodyVars, sweepVars, importing, acts>>

-----------------------------------------------------------------------------
\* An archive that has been read for a while: articles have their bodies, feeds
\* carry some of them, and readers have read some recently and some long ago.
Init ==
    /\ users = Reader
    /\ carried \in [Reader -> SUBSET Article]
    /\ state \in [Reader -> [Article ->
                    {NoRow} \cup {[NoRow EXCEPT !.there = TRUE, !.read = TRUE, !.readAt = t]
                                    : t \in {"recent", "lapsed"}}]]
    /\ body = [a \in Article |-> "fetched"]
    /\ expired = [a \in Article |-> FALSE]
    /\ tombstone = [r \in Reader |-> {}] /\ remove = [r \in Reader |-> {}]
    /\ expiring = [x \in Releaser |-> {}] /\ overtaken = [x \in Releaser |-> {}]
    /\ importing = {}
    /\ acts = 0 /\ faults = 0

Reading(r) ==
    \/ \E a \in Article, flag \in BOOLEAN :
          SetRead(r, a, flag) \/ SetStarred(r, a, flag) \/ SetKept(r, a, flag)
    \/ \E a \in Article : SaveArticle(r, a) \/ InsertFeedItem(r, a)
    \/ MarkReadIn(r)
    \/ MarkReadAutomatically(r)
    \/ DeleteFeed(r)
    \/ DeleteUser(r)

Arriving ==
    \/ \E a \in Article : InsertContent(a)
    \/ \E r \in Reader, a \in Article :
          ImportBody(r, a) \/ ImportState(r, a) \/ ImportStops(r, a)

Forgetting(r) == ForgetSelect(r) \/ ForgetCommit(r) \/ ForgetRollback(r)

Releasing ==
    \/ ExpirableArticles
    \/ PrunableArticles
    \/ \E x \in Releaser, a \in Article : ExpireArticle(x, a) \/ ExpireFails(x, a)
    \/ \E x \in Releaser : ReleaserStops(x)

Next ==
    \/ \E r \in Reader : Reading(r) \/ Forgetting(r) \/ \E a \in Article : Lapse(r, a)
    \/ Arriving
    \/ Releasing

Spec == Init /\ [][Next]_vars

\* Both sweeps are periodic jobs, and a job that runs reaches its end.  Nobody
\* need read, subscribe, import or prune.
Fairness ==
    /\ \A r \in Reader : WF_vars(ForgetSelect(r)) /\ WF_vars(ForgetCommit(r))
    /\ WF_vars(ExpirableArticles)
    /\ \A a \in Article : WF_vars(ExpireArticle("expire", a))

FairSpec == Spec /\ Fairness

-----------------------------------------------------------------------------
(* Properties.                                                             *)

TypeOK ==
    /\ users \subseteq Reader
    /\ carried \in [Reader -> SUBSET Article]
    /\ state \in [Reader -> [Article -> Row]]
    /\ body \in [Article -> Body]
    /\ expired \in [Article -> BOOLEAN]
    /\ tombstone \in [Reader -> SUBSET Article]
    /\ remove \in [Reader -> SUBSET Article]
    /\ expiring \in [Releaser -> SUBSET Article]
    /\ overtaken \in [Releaser -> SUBSET Article]
    /\ importing \subseteq Reader \X Article
    /\ acts \in 0 .. MaxActs /\ faults \in 0 .. MaxFaults

\* A tombstone says that its reader is done with the article and nothing else:
\* not when they read it nor what they marked, and no act of theirs leaves it
\* standing beside a mark (forget.go:103-113).
TombstoneHoldsNothing ==
    \A r \in Reader, a \in Article :
       state[r][a].forgotten =>
          /\ state[r][a].there /\ state[r][a].read
          /\ state[r][a].readAt = "never" /\ state[r][a].wanted = {}

\* Nobody who can see the article has anything left to say about it.
Unclaimed(a) == \A r \in users : Visible(r, a) => state[r][a].forgotten

\* Expiry and prune leave no gap between them: a body that nobody has a claim on
\* is a candidate of one or the other, whoever unsubscribed, was deleted or let
\* the article lapse, and in which order (forget.go:42-44).
NothingIsStranded ==
    \A a \in Article : Unclaimed(a) /\ body[a] = "fetched" /\ ~expired[a] =>
                          Expirable(a) \/ Prunable(a)

Releases(a) == body[a] # "none" /\ body'[a] = "none"

\* Of the program's own steps none can come between listing an article and
\* releasing it: unless somebody acted on it meanwhile, a body is released only
\* when nobody has a claim on it and it can be fetched again (retention.go:32-55).
ReleasedWhenLetGo ==
    [][\A a \in Article :
          Releases(a) /\ (\E x \in Releaser : a \in expiring[x] \ overtaken[x])
             => Unclaimed(a) /\ body[a] # "immutable"]_vars

\* The bytes of an article that was never released go when everybody has forgotten
\* (docs/reference/retention.md:21): once nobody acts any more, an article that its
\* readers are done with is released, or is left to prune when no trace of a reader
\* remains. One released before and fetched again (retention.md:114) is left out:
\* nothing clears content_expired_at, so it is released never again.
Done(r, a) == Visible(r, a) =>
                state[r][a].forgotten \/ (r \in Retaining /\ Forgettable(r, a))

Finished(a) == /\ acts = MaxActs /\ importing = {} /\ NoSweep
               /\ body[a] = "fetched"
               /\ \A r \in users : Done(r, a)

FinishedIsReleased ==
    \A a \in Article : Finished(a) /\ ~expired[a] ~> body[a] = "none" \/ Prunable(a)

\* docs/reference/retention.md:47: the worker releases a stored copy only when
\* every reader who can see it has finished with it, and an imported body never.
NothingClaimedIsReleased ==
    [][\A a \in Article :
          Releases(a) /\ a \in expiring["expire"] /\ a \notin expiring'["expire"]
             => Unclaimed(a) /\ body[a] # "immutable"]_vars

=============================================================================
