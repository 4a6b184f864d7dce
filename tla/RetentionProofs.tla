-------------------------- MODULE RetentionProofs ---------------------------
(***************************************************************************)
(* What holds of claims and releases for any household and any archive.    *)
(***************************************************************************)
EXTENDS Retention, TLAPS

-----------------------------------------------------------------------------
(* A reader's acts differ in what they write and agree in what matters:    *)
(* r's rows of the articles in S are written and none of them is a         *)
(* tombstone afterwards.                                                   *)

RowsEngaged(r, S) ==
    /\ state' \in [Reader -> [Article -> Row]]
    /\ \A q \in Reader, a \in Article :
          IF q = r /\ a \in S THEN ~state'[q][a].forgotten
                              ELSE state'[q][a] = state[q][a]

Engages(r, S) ==
    r \in users /\ RowsEngaged(r, S) /\ Touch(S) /\ UNCHANGED restOfReading

\* What may be given to an upsert: a row, or what NoRow becomes.
Draft == {row \in Field : /\ row.read \/ row.readAt = "never"
                          /\ "starred" \in row.wanted => "saved" \in row.wanted}

LEMMA DraftsOfRows ==
    ASSUME TypeOK, NEW r \in Reader, NEW a \in Article
    PROVE  state[r][a] \in Draft
  BY DEF TypeOK, Row, Draft

LEMMA UpsertRows ==
    ASSUME TypeOK, NEW r \in Reader, NEW a \in Article, NEW row \in Draft,
           Upsert(r, a, row)
    PROVE  RowsEngaged(r, {a})
  <1>1. [row EXCEPT !.there = TRUE, !.forgotten = FALSE] \in Row
    BY DEF Draft, Row, Field, NoRow
  <1> QED
    BY <1>1 DEF TypeOK, Upsert, RowsEngaged

LEMMA MarkedReadRow ==
    ASSUME NEW row \in Draft
    PROVE  /\ MarkedRead(row) \in Row /\ MarkedRead(row) \in Draft
           /\ ~MarkedRead(row).forgotten
  BY DEF Draft, Row, Field, NoRow, MarkedRead, ReadSince, ReadAt

LEMMA SetReadEngages ==
    ASSUME TypeOK, NEW r \in Reader, NEW a \in Article, NEW read \in BOOLEAN,
           SetRead(r, a, read)
    PROVE  Engages(r, {a})
  <1>1. state[r][a] \in Draft
    BY DraftsOfRows
  <1>2. [state[r][a] EXCEPT !.read = FALSE, !.readAt = "never"] \in Draft
    BY <1>1 DEF Draft, Field, ReadAt
  <1>3. MarkedRead(state[r][a]) \in Draft
    BY <1>1, MarkedReadRow
  <1>4. r \in users
    BY DEF SetRead, Visible
  <1>5. RowsEngaged(r, {a})
    BY <1>2, <1>3, <1>4, UpsertRows DEF SetRead
  <1> QED
    BY <1>4, <1>5 DEF SetRead, Engages

LEMMA WantsEngages ==
    ASSUME TypeOK, NEW r \in Reader, NEW a \in Article, NEW W \in SUBSET Want,
           "starred" \in W => "saved" \in W, Wants(r, a, W)
    PROVE  RowsEngaged(r, {a})
  <1>1. state[r][a] \in Draft
    BY DraftsOfRows
  <1>2. [state[r][a] EXCEPT !.wanted = W] \in Draft
    BY <1>1 DEF Draft, Field
  <1> QED
    BY <1>2, UpsertRows DEF Wants

LEMMA MarksEngage ==
    ASSUME TypeOK, NEW r \in Reader, NEW a \in Article, NEW flag \in BOOLEAN,
           SetStarred(r, a, flag) \/ SetKept(r, a, flag) \/ SaveArticle(r, a)
    PROVE  Engages(r, {a})
  <1> DEFINE W == state[r][a].wanted
  <1>1. W \in SUBSET Want /\ ("starred" \in W => "saved" \in W)
    BY DraftsOfRows DEF Draft, Field
  <1> HIDE DEF W
  <1>2. r \in users
    BY DEF SetStarred, SetKept, SaveArticle, Visible
  <1>3. CASE SetStarred(r, a, flag)
    <2>1. Wants(r, a, W \cup {"starred", "saved"}) \/ Wants(r, a, W \ {"starred"})
      BY <1>3 DEF SetStarred, W
    <2> QED
      BY <1>1, <1>2, <1>3, <2>1, WantsEngages DEF SetStarred, Engages, Want
  <1>4. CASE SetKept(r, a, flag)
    <2>1. Wants(r, a, W \cup {"kept"}) \/ Wants(r, a, W \ {"kept"})
      BY <1>4 DEF SetKept, W
    <2> QED
      BY <1>1, <1>2, <1>4, <2>1, WantsEngages DEF SetKept, Engages, Want
  <1>5. CASE SaveArticle(r, a)
    <2>1. Wants(r, a, W \cup {"saved"})
      BY <1>5 DEF SaveArticle, W
    <2> QED
      BY <1>1, <1>2, <1>5, <2>1, WantsEngages DEF SaveArticle, Engages, Want
  <1> QED
    BY <1>3, <1>4, <1>5

LEMMA MarkReadEngages ==
    ASSUME TypeOK, NEW r \in Reader, NEW S \in SUBSET Article, MarkRead(r, S)
    PROVE  Engages(r, S)
  <1>1. r \in users
    BY DEF MarkRead, Visible
  <1>2. \A a \in Article : MarkedRead(state[r][a]) \in Row
                           /\ ~MarkedRead(state[r][a]).forgotten
    BY DraftsOfRows, MarkedReadRow
  <1>3. RowsEngaged(r, S)
    BY <1>1, <1>2 DEF MarkRead, RowsEngaged, TypeOK
  <1> QED
    BY <1>1, <1>3 DEF MarkRead, Engages

LEMMA ImportEngages ==
    ASSUME TypeOK, NEW r \in Reader, NEW a \in Article, ImportState(r, a)
    PROVE  RowsEngaged(r, {a})
  <1>1. PICK read \in BOOLEAN, starred \in BOOLEAN, t \in {"recent", "lapsed"} :
           Upsert(r, a, [state[r][a] EXCEPT
                !.read = @ \/ read,
                !.readAt = IF read THEN ReadSince(state[r][a], t) ELSE @,
                !.wanted = @ \cup {"saved"} \cup IF starred THEN {"starred"} ELSE {}])
    BY DEF ImportState
  <1>2. state[r][a] \in Draft
    BY DraftsOfRows
  <1> DEFINE row == state[r][a]
             W == row.wanted \cup {"saved"} \cup IF starred THEN {"starred"} ELSE {}
  <1>3. W \in SUBSET Want /\ "saved" \in W
    BY <1>2 DEF Draft, Field, Want
  <1>4. [row EXCEPT !.read = @ \/ read,
                    !.readAt = IF read THEN ReadSince(row, t) ELSE @,
                    !.wanted = W] \in Draft
    BY <1>2, <1>3 DEF Draft, Field, ReadSince, ReadAt
  <1> QED
    BY <1>1, <1>4, UpsertRows

\* So the steps of Next are fewer than its actions.
LEMMA ReadingSteps ==
    ASSUME TypeOK, NEW r \in Reader, Reading(r)
    PROVE  \/ \E S \in SUBSET Article : Engages(r, S)
           \/ \E a \in Article : InsertFeedItem(r, a)
           \/ DeleteFeed(r)
           \/ DeleteUser(r)
  <1>1. CASE \E a \in Article, flag \in BOOLEAN :
               SetRead(r, a, flag) \/ SetStarred(r, a, flag) \/ SetKept(r, a, flag)
    BY <1>1, SetReadEngages, MarksEngage
  <1>2. CASE \E a \in Article : SaveArticle(r, a)
    BY <1>2, MarksEngage
  <1>3. CASE MarkReadIn(r) \/ MarkReadAutomatically(r)
    BY <1>3, MarkReadEngages DEF MarkReadIn, MarkReadAutomatically
  <1> QED
    BY <1>1, <1>2, <1>3 DEF Reading

LEMMA Steps ==
    ASSUME TypeOK, Next
    PROVE  \/ \E r \in Reader, S \in SUBSET Article : Engages(r, S)
           \/ \E r \in Reader, a \in Article :
                 \/ InsertFeedItem(r, a)
                 \/ ImportBody(r, a)
                 \/ ImportState(r, a)
                 \/ ImportStops(r, a)
                 \/ Lapse(r, a)
           \/ \E r \in Reader :
                 \/ DeleteFeed(r)
                 \/ DeleteUser(r)
                 \/ ForgetSelect(r)
                 \/ ForgetCommit(r)
                 \/ ForgetRollback(r)
           \/ \E a \in Article : InsertContent(a)
           \/ \E x \in Releaser, S \in SUBSET Article :
                 List(x, S) /\ \A a \in S : Expirable(a) \/ Prunable(a)
           \/ \E x \in Releaser, a \in Article : ExpireArticle(x, a) \/ ExpireFails(x, a)
           \/ \E x \in Releaser : ReleaserStops(x)
  <1>1. CASE \E r \in Reader : Reading(r)
    BY <1>1, ReadingSteps
  <1>2. CASE ExpirableArticles
    <2>1. List("expire", {a \in Article : Expirable(a)})
      BY <1>2 DEF ExpirableArticles
    <2> QED
      BY <2>1 DEF Releaser
  <1>3. CASE PrunableArticles
    <2>1. List("prune", {a \in Article : Prunable(a)})
      BY <1>3 DEF PrunableArticles
    <2> QED
      BY <2>1 DEF Releaser
  <1> QED
    BY <1>1, <1>2, <1>3 DEF Next, Arriving, Releasing, Forgetting

-----------------------------------------------------------------------------
(* Type correctness, which holds of rows what their CASE expressions are   *)
(* for: no read time without a read, no star that was never saved.         *)

LEMMA EmptyRow == NoRow \in Row
  BY DEF Row, Field, NoRow, ReadAt

LEMMA TombstoneRow ==
    ASSUME NEW row \in Row
    PROVE  Tombstone(row) \in Row
  <1>1. CASE row.there
    BY <1>1 DEF Row, Field, Tombstone, ReadAt
  <1>2. CASE ~row.there
    BY <1>2 DEF Tombstone
  <1> QED
    BY <1>1, <1>2

LEMMA StartTypes == Init => TypeOK
  <1>1. \A t \in {"recent", "lapsed"} :
           [NoRow EXCEPT !.there = TRUE, !.read = TRUE, !.readAt = t] \in Row
    BY DEF Row, Field, NoRow, ReadAt
  <1>2. ASSUME Init PROVE state \in [Reader -> [Article -> Row]]
    BY <1>1, <1>2, EmptyRow DEF Init
  <1> QED
    BY <1>2, RetentionConstants DEF Init, TypeOK, Body, Releaser

\* TypeOK.  What is written is what the columns hold (reading.go:646-691,
\* forget.go:103-113), whoever writes it and in whatever order.
THEOREM TypeCorrect == Spec => []TypeOK
  <1>1. ASSUME TypeOK, [Next]_vars PROVE TypeOK'
    <2>1. ASSUME NEW r \in Reader, NEW S \in SUBSET Article, Engages(r, S)
          PROVE  TypeOK'
      BY <1>1, <2>1, RetentionConstants
      DEF TypeOK, Engages, RowsEngaged, restOfReading, bodyVars, sweepVars, Touch, Act
    <2>2. ASSUME NEW r \in Reader, NEW a \in Article, InsertFeedItem(r, a)
          PROVE  TypeOK'
      BY <1>1, <2>2, RetentionConstants
      DEF TypeOK, InsertFeedItem, bodyVars, sweepVars, Touch, Act
    <2>3. ASSUME NEW r \in Reader, NEW a \in Article, ImportBody(r, a)
          PROVE  TypeOK'
      BY <1>1, <2>3, RetentionConstants
      DEF TypeOK, ImportBody, sweepVars, Touch, Act, Body
    <2>4. ASSUME NEW r \in Reader, NEW a \in Article, ImportState(r, a)
          PROVE  TypeOK'
      <3>1. state' \in [Reader -> [Article -> Row]]
        BY <1>1, <2>4, ImportEngages DEF RowsEngaged
      <3> QED
        BY <1>1, <2>4, <3>1 DEF TypeOK, ImportState, bodyVars, sweepVars
    <2>5. ASSUME NEW r \in Reader, NEW a \in Article, Lapse(r, a)
          PROVE  TypeOK'
      <3>1. state[r][a] \in Row /\ state[r][a].there /\ state[r][a].read
        BY <1>1, <2>5 DEF TypeOK, Lapse, Row, NoRow
      <3>2. [state[r][a] EXCEPT !.readAt = "lapsed"] \in Row
        BY <3>1 DEF Row, Field, ReadAt
      <3>3. state' \in [Reader -> [Article -> Row]]
        BY <1>1, <2>5, <3>2 DEF TypeOK, Lapse
      <3> QED
        BY <1>1, <2>5, <3>3 DEF TypeOK, Lapse, bodyVars, sweepVars, releaseVars
    <2>6. ASSUME NEW r \in Reader, DeleteFeed(r)
          PROVE  TypeOK'
      BY <1>1, <2>6, RetentionConstants
      DEF TypeOK, DeleteFeed, bodyVars, sweepVars, releaseVars, Act
    <2>7. ASSUME NEW r \in Reader, DeleteUser(r)
          PROVE  TypeOK'
      BY <1>1, <2>7, RetentionConstants, EmptyRow
      DEF TypeOK, DeleteUser, bodyVars, sweepVars, releaseVars, Act
    <2>8. ASSUME NEW r \in Reader, ForgetSelect(r)
          PROVE  TypeOK'
      BY <1>1, <2>8 DEF TypeOK, ForgetSelect, bodyVars, releaseVars
    <2>9. ASSUME NEW r \in Reader, ForgetCommit(r)
          PROVE  TypeOK'
      <3>1. \A a \in Article : /\ state[r][a] \in Row /\ NoRow \in Row
                               /\ Tombstone(state[r][a]) \in Row
        BY <1>1, EmptyRow, TombstoneRow DEF TypeOK
      <3>2. state' \in [Reader -> [Article -> Row]]
        BY <1>1, <2>9, <3>1 DEF TypeOK, ForgetCommit
      <3> QED
        BY <1>1, <2>9, <3>2 DEF TypeOK, ForgetCommit, EndSweep, bodyVars, releaseVars
    <2>10. ASSUME NEW r \in Reader, ForgetRollback(r)
           PROVE  TypeOK'
      BY <1>1, <2>10, RetentionConstants
      DEF TypeOK, ForgetRollback, EndSweep, bodyVars, releaseVars, Fault
    <2>11. ASSUME NEW a \in Article, InsertContent(a)
           PROVE  TypeOK'
      BY <1>1, <2>11, RetentionConstants
      DEF TypeOK, InsertContent, sweepVars, releaseVars, Act, Body
    <2>12. ASSUME NEW r \in Reader, NEW a \in Article, ImportStops(r, a)
           PROVE  TypeOK'
      BY <1>1, <2>12 DEF TypeOK, ImportStops, bodyVars, sweepVars, releaseVars
    <2>13. ASSUME NEW x \in Releaser, NEW S \in SUBSET Article, List(x, S)
           PROVE  TypeOK'
      BY <1>1, <2>13 DEF TypeOK, List, bodyVars, sweepVars
    <2>14. ASSUME NEW x \in Releaser, NEW a \in Article,
                  ExpireArticle(x, a) \/ ExpireFails(x, a)
           PROVE  TypeOK'
      <3>1. CASE ExpireArticle(x, a)
        BY <1>1, <3>1 DEF TypeOK, ExpireArticle, Unlist, sweepVars, Body
      <3>2. CASE ExpireFails(x, a)
        BY <1>1, <3>2, RetentionConstants
        DEF TypeOK, ExpireFails, Unlist, Fault, bodyVars, sweepVars
      <3> QED
        BY <2>14, <3>1, <3>2
    <2>15. ASSUME NEW x \in Releaser, ReleaserStops(x)
           PROVE  TypeOK'
      BY <1>1, <2>15, RetentionConstants
      DEF TypeOK, ReleaserStops, Unlist, Fault, bodyVars, sweepVars
    <2>16. CASE UNCHANGED vars
      BY <1>1, <2>16 DEF TypeOK, vars, sweepVars, releaseVars
    <2> QED
      BY <1>1, <2>1, <2>2, <2>3, <2>4, <2>5, <2>6, <2>7, <2>8, <2>9, <2>10, <2>11,
         <2>12, <2>13, <2>14, <2>15, <2>16, Steps
  <1> QED
    BY <1>1, StartTypes, PTL DEF Spec

-----------------------------------------------------------------------------
(* What a tombstone holds.                                                 *)

\* TombstoneHoldsNothing.  Only the sweep makes a tombstone, clearing the row as
\* it does, and every other write to a row takes the tombstone away.
THEOREM Tombstones == Spec => []TombstoneHoldsNothing
  <1>1. Init => TombstoneHoldsNothing
    <2>1. \A t \in {"recent", "lapsed"} :
             ~[NoRow EXCEPT !.there = TRUE, !.read = TRUE, !.readAt = t].forgotten
      BY DEF NoRow
    <2>2. ~NoRow.forgotten
      BY DEF NoRow
    <2>3. ASSUME Init, NEW r \in Reader, NEW a \in Article
          PROVE  ~state[r][a].forgotten
      <3> DEFINE Start == {NoRow} \cup
                   {[NoRow EXCEPT !.there = TRUE, !.read = TRUE, !.readAt = t]
                       : t \in {"recent", "lapsed"}}
      <3>1. state[r][a] \in Start
        BY <2>3 DEF Init
      <3>2. \A row \in Start : ~row.forgotten
        BY <2>1, <2>2
      <3> QED
        BY <3>1, <3>2
    <2> QED
      BY <2>3 DEF TombstoneHoldsNothing
  <1>2. ASSUME TypeOK, TombstoneHoldsNothing, [Next]_vars
        PROVE  TombstoneHoldsNothing'
    <2>1. ASSUME NEW r \in Reader, NEW S \in SUBSET Article, RowsEngaged(r, S)
          PROVE  TombstoneHoldsNothing'
      BY <1>2, <2>1 DEF TombstoneHoldsNothing, RowsEngaged
    <2>2. ASSUME NEW r \in Reader, NEW a \in Article, Lapse(r, a)
          PROVE  TombstoneHoldsNothing'
      <3>1. ~state[r][a].forgotten
        BY <1>2, <2>2 DEF TombstoneHoldsNothing, Lapse
      <3>2. ~[state[r][a] EXCEPT !.readAt = "lapsed"].forgotten
        BY <1>2, <3>1 DEF TypeOK, Row, Field
      <3> QED
        BY <1>2, <2>2, <3>2 DEF TombstoneHoldsNothing, TypeOK, Lapse
    <2>3. ASSUME NEW r \in Reader, DeleteUser(r)
          PROVE  TombstoneHoldsNothing'
      BY <1>2, <2>3 DEF TombstoneHoldsNothing, TypeOK, DeleteUser, NoRow
    <2>4. ASSUME NEW r \in Reader, ForgetCommit(r)
          PROVE  TombstoneHoldsNothing'
      <3>1. ASSUME NEW a \in Article, a \in tombstone[r]
            PROVE  LET row == Tombstone(state[r][a])
                   IN  row.forgotten => /\ row.there /\ row.read
                                        /\ row.readAt = "never" /\ row.wanted = {}
        <4>1. state[r][a] \in Row
          BY <1>2 DEF TypeOK
        <4>2. CASE state[r][a].there
          BY <4>1, <4>2 DEF Tombstone, Row, Field
        <4>3. CASE ~state[r][a].there
          BY <4>1, <4>3 DEF Tombstone, Row, NoRow
        <4> QED
          BY <4>2, <4>3
      <3>2. ~NoRow.forgotten
        BY DEF NoRow
      <3> QED
        BY <1>2, <2>4, <3>1, <3>2 DEF TombstoneHoldsNothing, TypeOK, ForgetCommit
    <2>5. CASE UNCHANGED state
      BY <1>2, <2>5 DEF TombstoneHoldsNothing
    <2>6. \/ UNCHANGED state
          \/ \E r \in Reader, S \in SUBSET Article : RowsEngaged(r, S)
          \/ \E r \in Reader, a \in Article : ImportState(r, a) \/ Lapse(r, a)
          \/ \E r \in Reader : DeleteUser(r) \/ ForgetCommit(r)
      BY <1>2, Steps
      DEF vars, Engages, InsertFeedItem, ImportBody, DeleteFeed, ForgetSelect,
          ForgetRollback, InsertContent, ImportStops, List, ExpireArticle, ExpireFails,
          ReleaserStops
    <2> QED
      BY <1>2, <2>1, <2>2, <2>3, <2>4, <2>5, <2>6, ImportEngages
  <1> QED
    BY <1>1, <1>2, TypeCorrect, PTL DEF Spec

-----------------------------------------------------------------------------
(* No gap between expiry and prune.  A deleted account must have left      *)
(* nothing behind, or a row of nobody's would hold an article for ever.    *)

GoneWithTheUser ==
    /\ \A r \in Reader \ users : /\ carried[r] = {}
                                 /\ \A a \in Article : state[r][a] = NoRow
    /\ \A i \in importing : i[1] \in users

LEMMA GoneStays ==
    ASSUME TypeOK, GoneWithTheUser, [Next]_vars
    PROVE  GoneWithTheUser'
  <1>1. ASSUME NEW r \in users, NEW S \in SUBSET Article, RowsEngaged(r, S),
               UNCHANGED <<users, carried>>, importing' \subseteq importing
        PROVE  GoneWithTheUser'
    <2>1. \A q \in Reader \ users, a \in Article : state'[q][a] = state[q][a]
      BY <1>1 DEF RowsEngaged
    <2> QED
      BY <1>1, <2>1 DEF GoneWithTheUser
  <1>2. ASSUME NEW r \in Reader, NEW a \in Article, InsertFeedItem(r, a)
        PROVE  GoneWithTheUser'
    BY <1>2 DEF GoneWithTheUser, TypeOK, InsertFeedItem
  <1>3. ASSUME NEW r \in Reader, NEW a \in Article, ImportBody(r, a)
        PROVE  GoneWithTheUser'
    BY <1>3 DEF GoneWithTheUser, TypeOK, ImportBody
  <1>4. ASSUME NEW r \in Reader, NEW a \in Article, ImportState(r, a)
        PROVE  GoneWithTheUser'
    <2>1. r \in users
      BY <1>4 DEF GoneWithTheUser, ImportState
    <2>2. RowsEngaged(r, {a})
      BY <1>4, ImportEngages
    <2> QED
      BY <1>1, <1>4, <2>1, <2>2 DEF ImportState
  <1>5. ASSUME NEW r \in Reader, NEW a \in Article, Lapse(r, a)
        PROVE  GoneWithTheUser'
    <2>1. r \in users
      BY <1>5 DEF GoneWithTheUser, Lapse, NoRow
    <2>2. \A q \in Reader \ users : state'[q] = state[q]
      BY <1>5, <2>1 DEF TypeOK, Lapse
    <2> QED
      BY <1>5, <2>2 DEF GoneWithTheUser, Lapse
  <1>6. ASSUME NEW r \in Reader, DeleteFeed(r)
        PROVE  GoneWithTheUser'
    BY <1>6 DEF GoneWithTheUser, TypeOK, DeleteFeed
  <1>7. ASSUME NEW r \in Reader, DeleteUser(r)
        PROVE  GoneWithTheUser'
    BY <1>7 DEF GoneWithTheUser, TypeOK, DeleteUser
  <1>8. ASSUME NEW r \in Reader, ForgetCommit(r)
        PROVE  GoneWithTheUser'
    <2>1. Tombstone(NoRow) = NoRow
      BY DEF Tombstone, NoRow
    <2> QED
      BY <1>8, <2>1 DEF GoneWithTheUser, TypeOK, ForgetCommit
  <1>9. CASE UNCHANGED <<users, carried, state>> /\ importing' \subseteq importing
    BY <1>9 DEF GoneWithTheUser
  <1>10. \/ UNCHANGED <<users, carried, state>> /\ importing' \subseteq importing
         \/ \E r \in users, S \in SUBSET Article :
               RowsEngaged(r, S) /\ UNCHANGED <<users, carried, importing>>
         \/ \E r \in Reader, a \in Article :
               \/ InsertFeedItem(r, a)
               \/ ImportBody(r, a)
               \/ ImportState(r, a)
               \/ Lapse(r, a)
         \/ \E r \in Reader : DeleteFeed(r) \/ DeleteUser(r) \/ ForgetCommit(r)
    BY Steps
    DEF vars, Engages, restOfReading, ForgetSelect, ForgetRollback, InsertContent,
        ImportStops, List, ExpireArticle, ExpireFails, ReleaserStops
  <1> QED
    BY <1>1, <1>2, <1>3, <1>4, <1>5, <1>6, <1>7, <1>8, <1>9, <1>10

\* NothingIsStranded.  Once no row is of nobody's, a body without a claim either
\* has a tombstone among its rows or has no rows and no feed.
THEOREM NoGap == Spec => []NothingIsStranded
  <1>1. Init => GoneWithTheUser
    BY DEF Init, GoneWithTheUser
  <1>2. ASSUME TombstoneHoldsNothing, GoneWithTheUser
        PROVE  NothingIsStranded
    <2> SUFFICES ASSUME NEW a \in Article, Unclaimed(a), body[a] = "fetched",
                        ~expired[a], ~Prunable(a)
                 PROVE  Expirable(a)
      BY DEF NothingIsStranded
    <2>1. \A r \in Reader : a \in carried[r] \/ state[r][a].there => Visible(r, a)
      BY <1>2 DEF GoneWithTheUser, NoRow, Visible
    <2>2. \A r \in Reader : Visible(r, a) => state[r][a].there /\ state[r][a].forgotten
      BY <1>2 DEF Unclaimed, Visible, TombstoneHoldsNothing
    <2>3. PICK r \in Reader : a \in carried[r] \/ state[r][a].there
      BY DEF Prunable
    <2> QED
      BY <2>1, <2>2, <2>3 DEF Expirable
  <1>3. Spec => []GoneWithTheUser
    BY <1>1, GoneStays, TypeCorrect, PTL DEF Spec
  <1> QED
    BY <1>2, <1>3, Tombstones, PTL

-----------------------------------------------------------------------------
(* What can come between listing an article and releasing it.  A listed    *)
(* article that nobody has acted on is still let go, for which the sweep   *)
(* in progress must not take away the tombstone that says so: it has only  *)
(* read rows that were no tombstones, and those stay so until it writes.   *)

SweepHoldsNoTombstone ==
    \A r \in Reader : \A a \in tombstone[r] \cup remove[r] : ~state[r][a].forgotten

ListedIsLetGo ==
    \A x \in Releaser : \A a \in expiring[x] \ overtaken[x] :
       Unclaimed(a) /\ body[a] # "immutable"

LEMMA SweepStays ==
    ASSUME TypeOK, SweepHoldsNoTombstone, [Next]_vars
    PROVE  SweepHoldsNoTombstone'
  <1>1. ASSUME NEW r \in Reader, NEW S \in SUBSET Article, RowsEngaged(r, S),
               UNCHANGED sweepVars
        PROVE  SweepHoldsNoTombstone'
    BY <1>1 DEF SweepHoldsNoTombstone, RowsEngaged, sweepVars, TypeOK
  <1>2. ASSUME NEW r \in Reader, NEW a \in Article, Lapse(r, a)
        PROVE  SweepHoldsNoTombstone'
    <2>1. state[r][a] \in Field
      BY DEF TypeOK, Row
    <2>2. [state[r][a] EXCEPT !.readAt = "lapsed"].forgotten = state[r][a].forgotten
      BY <2>1 DEF Field
    <2>3. \A q \in Reader, b \in Article : state'[q][b].forgotten = state[q][b].forgotten
      BY <1>2, <2>2 DEF TypeOK, Lapse
    <2> QED
      BY <1>2, <2>3 DEF SweepHoldsNoTombstone, Lapse, sweepVars, TypeOK
  <1>3. ASSUME NEW r \in Reader, DeleteUser(r)
        PROVE  SweepHoldsNoTombstone'
    BY <1>3 DEF SweepHoldsNoTombstone, TypeOK, DeleteUser, sweepVars, NoRow
  <1>4. ASSUME NEW r \in Reader, ForgetSelect(r)
        PROVE  SweepHoldsNoTombstone'
    BY <1>4 DEF SweepHoldsNoTombstone, TypeOK, ForgetSelect, Forgettable
  <1>5. ASSUME NEW r \in Reader, ForgetCommit(r)
        PROVE  SweepHoldsNoTombstone'
    <2>1. \A q \in Reader \ {r} : state'[q] = state[q]
      BY <1>5 DEF TypeOK, ForgetCommit
    <2> QED
      BY <1>5, <2>1 DEF SweepHoldsNoTombstone, TypeOK, ForgetCommit, EndSweep
  <1>6. ASSUME NEW r \in Reader, ForgetRollback(r)
        PROVE  SweepHoldsNoTombstone'
    BY <1>6 DEF SweepHoldsNoTombstone, TypeOK, ForgetRollback, EndSweep
  <1>7. CASE UNCHANGED <<state, sweepVars>>
    BY <1>7 DEF SweepHoldsNoTombstone, sweepVars
  <1>8. \/ UNCHANGED <<state, sweepVars>>
        \/ \E r \in Reader, S \in SUBSET Article :
              RowsEngaged(r, S) /\ UNCHANGED sweepVars
        \/ \E r \in Reader, a \in Article : Lapse(r, a)
        \/ \E r \in Reader : \/ DeleteUser(r)
                             \/ ForgetSelect(r)
                             \/ ForgetCommit(r)
                             \/ ForgetRollback(r)
    <2>1. \A r \in Reader, a \in Article :
             ImportState(r, a) => RowsEngaged(r, {a}) /\ UNCHANGED sweepVars
      BY ImportEngages DEF ImportState
    <2> QED
      BY <2>1, Steps
      DEF vars, Engages, restOfReading, InsertFeedItem, ImportBody, DeleteFeed,
          InsertContent, ImportStops, List, ExpireArticle, ExpireFails, ReleaserStops
  <1> QED
    BY <1>1, <1>2, <1>3, <1>4, <1>5, <1>6, <1>7, <1>8

\* Acting on the articles in S leaves the lists with what nobody has acted on.
LEMMA TouchedAreOut ==
    ASSUME TypeOK, NEW S \in SUBSET Article,
           overtaken' = [x \in Releaser |-> overtaken[x] \cup (S \cap expiring[x])],
           UNCHANGED expiring
    PROVE  \A x \in Releaser :
              expiring'[x] \ overtaken'[x] = (expiring[x] \ overtaken[x]) \ S
  OBVIOUS

\* Nobody gains a claim on an article that nothing was written about.
LEMMA SameRowsSameClaim ==
    ASSUME NEW a \in Article, Unclaimed(a),
           UNCHANGED users, users \subseteq Reader,
           \A q \in Reader : /\ a \in carried'[q] => a \in carried[q]
                             /\ state'[q][a] = state[q][a]
    PROVE  Unclaimed(a)'
  BY DEF Unclaimed, Visible

\* Nor does a sweep that commits raise a claim where there was none.
LEMMA SweepRaisesNoClaim ==
    ASSUME TypeOK, SweepHoldsNoTombstone, NEW r \in Reader, ForgetCommit(r),
           NEW a \in Article, Unclaimed(a)
    PROVE  Unclaimed(a)'
  <1>1. \A q \in Reader \ {r} : state'[q] = state[q]
    BY DEF TypeOK, ForgetCommit
  <1>2. CASE a \notin tombstone[r] \cup remove[r]
    <2>1. state'[r][a] = state[r][a]
      BY <1>2 DEF TypeOK, ForgetCommit
    <2> QED
      BY <1>1, <2>1, SameRowsSameClaim DEF ForgetCommit, TypeOK
  <1>3. CASE a \in tombstone[r] \cup remove[r]
    <2>1. ~Visible(r, a)
      BY <1>3 DEF SweepHoldsNoTombstone, Unclaimed, Visible
    <2>2. state'[r][a] \in {Tombstone(state[r][a]), NoRow}
      BY <1>3 DEF TypeOK, ForgetCommit
    <2>3. ~state[r][a].there => ~Tombstone(state[r][a]).there
      BY DEF Tombstone
    <2>4. ~Visible(r, a)'
      BY <2>1, <2>2, <2>3 DEF Visible, ForgetCommit, NoRow
    <2> QED
      BY <1>1, <2>4 DEF Unclaimed, Visible, ForgetCommit, TypeOK
  <1> QED
    BY <1>2, <1>3

LEMMA ListedStays ==
    ASSUME TypeOK, SweepHoldsNoTombstone, ListedIsLetGo, [Next]_vars
    PROVE  ListedIsLetGo'
  <1>1. ASSUME NEW S \in SUBSET Article,
               \A x \in Releaser :
                  expiring'[x] \ overtaken'[x] = (expiring[x] \ overtaken[x]) \ S,
               UNCHANGED users,
               \A a \in Article \ S : /\ body'[a] = body[a]
                                      /\ \A q \in Reader :
                                           /\ a \in carried'[q] => a \in carried[q]
                                           /\ state'[q][a] = state[q][a]
        PROVE  ListedIsLetGo'
    BY <1>1, SameRowsSameClaim DEF ListedIsLetGo, TypeOK
  <1>2. ASSUME NEW r \in Reader, NEW S \in SUBSET Article, Engages(r, S)
        PROVE  ListedIsLetGo'
    <2>1. \A q \in Reader, a \in Article \ S : state'[q][a] = state[q][a]
      BY <1>2 DEF Engages, RowsEngaged
    <2> QED
      BY <1>1, <1>2, <2>1, TouchedAreOut DEF Engages, Touch, restOfReading, bodyVars
  <1>3. ASSUME NEW r \in Reader, NEW a \in Article, InsertFeedItem(r, a)
        PROVE  ListedIsLetGo'
    BY <1>1, <1>3, TouchedAreOut, {a} \in SUBSET Article
    DEF InsertFeedItem, Touch, bodyVars, TypeOK
  <1>4. ASSUME NEW r \in Reader, NEW a \in Article, ImportBody(r, a)
        PROVE  ListedIsLetGo'
    BY <1>1, <1>4, TouchedAreOut, {a} \in SUBSET Article
    DEF ImportBody, Touch, TypeOK
  <1>5. ASSUME NEW r \in Reader, NEW a \in Article, ImportState(r, a)
        PROVE  ListedIsLetGo'
    <2>1. RowsEngaged(r, {a})
      BY <1>5, ImportEngages
    <2>2. \A q \in Reader, b \in Article \ {a} : state'[q][b] = state[q][b]
      BY <2>1 DEF RowsEngaged
    <2>3. \A x \in Releaser :
             expiring'[x] \ overtaken'[x] = (expiring[x] \ overtaken[x]) \ {a}
      BY <1>5, TouchedAreOut, {a} \in SUBSET Article DEF ImportState
    <2>4. UNCHANGED <<users, carried, body>>
      BY <1>5 DEF ImportState, bodyVars
    <2> QED
      BY <1>1, <2>2, <2>3, <2>4, {a} \in SUBSET Article
  <1>6. ASSUME NEW r \in Reader, NEW a \in Article, Lapse(r, a)
        PROVE  ListedIsLetGo'
    <2>1. state[r][a] \in Field
      BY DEF TypeOK, Row
    <2>2. LET row == [state[r][a] EXCEPT !.readAt = "lapsed"]
          IN  row.there = state[r][a].there /\ row.forgotten = state[r][a].forgotten
      BY <2>1 DEF Field
    <2>3. \A q \in Reader, b \in Article : /\ state'[q][b].there = state[q][b].there
                                          /\ state'[q][b].forgotten = state[q][b].forgotten
      BY <1>6, <2>2 DEF TypeOK, Lapse
    <2> QED
      BY <1>6, <2>3
      DEF ListedIsLetGo, Unclaimed, Visible, Lapse, bodyVars, releaseVars, TypeOK
  <1>7. ASSUME NEW r \in Reader, DeleteFeed(r)
        PROVE  ListedIsLetGo'
    BY <1>7 DEF ListedIsLetGo, Unclaimed, Visible, DeleteFeed, bodyVars, releaseVars, TypeOK
  <1>8. ASSUME NEW r \in Reader, DeleteUser(r)
        PROVE  ListedIsLetGo'
    <2>1. \A q \in users' : state'[q] = state[q] /\ carried'[q] = carried[q]
      BY <1>8 DEF DeleteUser, TypeOK
    <2> QED
      BY <1>8, <2>1
      DEF ListedIsLetGo, Unclaimed, Visible, DeleteUser, bodyVars, releaseVars, TypeOK
  <1>9. ASSUME NEW r \in Reader, ForgetCommit(r)
        PROVE  ListedIsLetGo'
    BY <1>9, SweepRaisesNoClaim DEF ListedIsLetGo, ForgetCommit, bodyVars, releaseVars, TypeOK
  <1>10. ASSUME NEW a \in Article, InsertContent(a)
         PROVE  ListedIsLetGo'
    BY <1>10 DEF ListedIsLetGo, Unclaimed, Visible, InsertContent, releaseVars, TypeOK
  <1>11. ASSUME NEW x \in Releaser, NEW S \in SUBSET Article, List(x, S),
                \A a \in S : Expirable(a) \/ Prunable(a)
         PROVE  ListedIsLetGo'
    <2>1. \A a \in S : Unclaimed(a) /\ body[a] # "immutable"
      BY <1>11 DEF Expirable, Prunable, Unclaimed, Visible, TypeOK
    <2> QED
      BY <1>11, <2>1 DEF ListedIsLetGo, List, Unclaimed, Visible, bodyVars, TypeOK
  <1>12. ASSUME NEW x \in Releaser, NEW S \in SUBSET Article, Unlist(x, S),
                UNCHANGED <<users, carried, state>>,
                \A a \in Article : body'[a] \in {body[a], "none"}
         PROVE  ListedIsLetGo'
    BY <1>12 DEF ListedIsLetGo, Unlist, Unclaimed, Visible, TypeOK
  <1>13. ASSUME NEW x \in Releaser, NEW a \in Article, ExpireArticle(x, a)
         PROVE  ListedIsLetGo'
    BY <1>12, <1>13, {a} \in SUBSET Article DEF ExpireArticle, TypeOK
  <1>14. CASE UNCHANGED <<users, carried, state, body, releaseVars>>
    BY <1>14 DEF ListedIsLetGo, Unclaimed, Visible, releaseVars
  <1>15. ASSUME NEW x \in Releaser,
                ReleaserStops(x) \/ \E a \in Article : ExpireFails(x, a)
         PROVE  ListedIsLetGo'
    BY <1>12, <1>15 DEF ReleaserStops, ExpireFails, bodyVars, TypeOK
  <1> QED
    BY <1>2, <1>3, <1>4, <1>5, <1>6, <1>7, <1>8, <1>9, <1>10, <1>11, <1>13, <1>14,
       <1>15, Steps
    DEF vars, ForgetSelect, ForgetRollback, ImportStops, bodyVars

\* ReleasedWhenLetGo, from the list's own invariant: what is released has been
\* listed, and what is listed and not overtaken is still let go.
THEOREM LetGo == Spec => ReleasedWhenLetGo
  <1>1. Init => SweepHoldsNoTombstone /\ ListedIsLetGo
    BY DEF Init, SweepHoldsNoTombstone, ListedIsLetGo
  <1>2. Spec => [](SweepHoldsNoTombstone /\ ListedIsLetGo)
    BY <1>1, SweepStays, ListedStays, TypeCorrect, PTL DEF Spec
  <1>3. ASSUME ListedIsLetGo, [Next]_vars
        PROVE  [\A a \in Article :
                  Releases(a) /\ (\E x \in Releaser : a \in expiring[x] \ overtaken[x])
                     => Unclaimed(a) /\ body[a] # "immutable"]_vars
    BY <1>3 DEF ListedIsLetGo
  <1> QED
    BY <1>2, <1>3, PTL DEF Spec, ReleasedWhenLetGo

=============================================================================
