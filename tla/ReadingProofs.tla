--------------------------- MODULE ReadingProofs ---------------------------
(***************************************************************************)
(* What holds of a reader's lists for any feeds, folders, names and dates, *)
(* pages of any length, and any number of articles and acts.               *)
(***************************************************************************)
EXTENDS Reading, FiniteSetTheorems, WellFoundedInduction, SequenceTheorems, TLAPS

-----------------------------------------------------------------------------
(* The order of a list, and where its pages end.                           *)

PublishedFits ==
    published \in Seq(Dates \cup {NoDate}) /\ Len(published) \in 2 .. MaxArticles

LEMMA StoredType ==
    ASSUME PublishedFits
    PROVE  /\ Stored \subseteq Id /\ Id \subseteq Nat /\ 1 \in Stored
           /\ \A a \in Stored : SortKey(a) \in Int /\ Position(a) \in Seq(Int) /\ Position(a) # <<>>
           /\ \A a \in Stored : Position(a) = <<SortKey(a), a>>
  <1>1. Dates \cup {NoDate} \subseteq Int /\ MaxArticles \in Nat
    BY ReadingConstants DEF NoDate
  <1>2. Stored \subseteq Id /\ Id \subseteq Nat /\ 1 \in Stored
    BY <1>1 DEF PublishedFits, Stored, Id
  <1>3. ASSUME NEW a \in Stored PROVE SortKey(a) \in Int
    <2>1. published[a] \in Dates \cup {NoDate}
      BY <1>3 DEF PublishedFits, Stored
    <2>2. a \in Int
      BY <1>2
    <2> QED BY <1>1, <2>1, <2>2 DEF SortKey
  <1>4. \A a \in Stored : Position(a) \in Seq(Int) /\ Position(a) # <<>>
    BY <1>2, <1>3 DEF Position
  <1> QED BY <1>2, <1>3, <1>4 DEF Position

\* Above: what a list shows before an article.
Above(S, a) == {b \in S : Before(Position(a), Position(b))}

LEMMA TotalOrder ==
    ASSUME PublishedFits
    PROVE  /\ \A a \in Stored : ~Before(Position(a), Position(a))
           /\ \A a, b \in Stored : a = b \/ Before(Position(a), Position(b)) \/ Before(Position(b), Position(a))
           /\ \A a, b \in Stored : ~(Before(Position(a), Position(b)) /\ Before(Position(b), Position(a)))
           /\ \A a, b, c \in Stored : Before(Position(a), Position(b)) /\ Before(Position(b), Position(c))
                                          => Before(Position(a), Position(c))
  <1>1. \A a \in Stored : a \in Int /\ SortKey(a) \in Int
    BY StoredType
  <1>2. \A a, b \in Stored : Before(Position(a), Position(b)) <=>
                                SortKey(a) < SortKey(b) \/ (SortKey(a) = SortKey(b) /\ a < b)
    BY DEF Before, Position
  <1> QED BY <1>1, <1>2

LEMMA FiniteList ==
    ASSUME PublishedFits, NEW S \in SUBSET Stored
    PROVE  IsFiniteSet(S) /\ Cardinality(S) \in Nat
  <1>1. IsFiniteSet(Stored)
    BY FS_Interval DEF PublishedFits, Stored
  <1> QED BY <1>1, FS_Subset, FS_CardinalityType

LEMMA AboveIsOrdered ==
    ASSUME PublishedFits, NEW S \in SUBSET Stored, NEW a \in S, NEW b \in S
    PROVE  /\ Cardinality(Above(S, a)) \in Nat
           /\ Cardinality(Above(S, a)) < Cardinality(S)
           /\ a = b \/ Before(Position(a), Position(b)) \/ Cardinality(Above(S, a)) <= Cardinality(Above(S, b))
  <1>1. Above(S, a) \in SUBSET S /\ a \notin Above(S, a) /\ Above(S, b) \in SUBSET S
    BY TotalOrder DEF Above
  <1>2. IsFiniteSet(S) /\ Cardinality(S) \in Nat /\ IsFiniteSet(Above(S, b)) /\ IsFiniteSet(Above(S, a))
    BY <1>1, FiniteList
  <1>3. Cardinality(Above(S, a)) \in Nat /\ Cardinality(Above(S, b)) \in Nat
    BY <1>2, FS_CardinalityType
  <1>4. Cardinality(Above(S, a)) < Cardinality(S)
    <2>1. Cardinality(Above(S, a)) <= Cardinality(S) /\ (Cardinality(S) = Cardinality(Above(S, a)) => S = Above(S, a))
      BY <1>1, <1>2, FS_Subset
    <2> QED BY <1>1, <1>2, <1>3, <2>1
  <1>5. ASSUME Before(Position(b), Position(a)) PROVE Cardinality(Above(S, a)) <= Cardinality(Above(S, b))
    <2>1. Above(S, a) \in SUBSET Above(S, b)
      BY <1>5, TotalOrder DEF Above
    <2> QED BY <1>2, <2>1, FS_Subset
  <1> QED BY <1>3, <1>4, <1>5, TotalOrder

\* A list that is not empty has a least set of what is above one of its articles.
LEMMA TopIsThere ==
    ASSUME PublishedFits, NEW S \in SUBSET Stored, S # {}
    PROVE  \E a \in S : Above(S, a) = {}
  <1> DEFINE Heads == {Above(S, a) : a \in S}
  <1>1. PICK H \in Heads : \A T \in Heads : <<T, H>> \notin StrictSubsetOrdering(S)
    <2> HIDE DEF Heads
    <2>1. IsWellFoundedOn(StrictSubsetOrdering(S), SUBSET S)
      BY FiniteList, FS_StrictSubsetOrderingWellFounded, FS_FiniteSubsetsOfFinite
    <2>2. Heads \subseteq SUBSET S /\ Heads # {}
      BY DEF Heads, Above
    <2> QED BY <2>1, <2>2, WFMin
  <1>2. PICK a \in S : H = Above(S, a)
    OBVIOUS
  <1>3. SUFFICES ASSUME NEW b \in S, Before(Position(a), Position(b)) PROVE FALSE
    BY <1>2 DEF Above
  <1>4. Above(S, b) \subseteq Above(S, a) /\ b \in Above(S, a) /\ b \notin Above(S, b)
    BY <1>3, TotalOrder DEF Above
  <1>5. <<Above(S, b), H>> \in StrictSubsetOrdering(S)
    BY <1>2, <1>4 DEF StrictSubsetOrdering, Above
  <1> QED BY <1>1, <1>5

\* The same from below.
LEMMA BottomIsThere ==
    ASSUME PublishedFits, NEW S \in SUBSET Stored, S # {}
    PROVE  \E a \in S : \A b \in S : ~Before(Position(b), Position(a))
  <1> DEFINE Under(a) == {b \in S : Before(Position(b), Position(a))}
             Tails == {Under(a) : a \in S}
  <1>1. PICK H \in Tails : \A T \in Tails : <<T, H>> \notin StrictSubsetOrdering(S)
    <2>1. IsWellFoundedOn(StrictSubsetOrdering(S), SUBSET S)
      BY FiniteList, FS_StrictSubsetOrderingWellFounded, FS_FiniteSubsetsOfFinite
    <2>2. Tails \subseteq SUBSET S /\ Tails # {}
      OBVIOUS
    <2> HIDE DEF Tails
    <2> QED BY <2>1, <2>2, WFMin
  <1>2. PICK a \in S : H = Under(a)
    OBVIOUS
  <1>3. SUFFICES ASSUME NEW b \in S, Before(Position(b), Position(a)) PROVE FALSE
    OBVIOUS
  <1>4. Under(b) \subseteq Under(a) /\ b \in Under(a) /\ b \notin Under(b)
    BY <1>3, TotalOrder
  <1>5. <<Under(b), H>> \in StrictSubsetOrdering(S)
    BY <1>2, <1>4 DEF StrictSubsetOrdering
  <1> QED BY <1>1, <1>5

LEMMA NewestIs == ASSUME NEW S, NEW n PROVE Newest(S, n) = {a \in S : Cardinality(Above(S, a)) < n}
  BY DEF Newest, Above

\* A page of a list that is longer ends with a row; the rest of the list is below it.
LEMMA PageEnds ==
    ASSUME PublishedFits, NEW S \in SUBSET Stored, NEW n \in Nat \ {0}, S # {}
    PROVE  /\ Newest(S, n) # {}
           /\ \E m \in Newest(S, n) : /\ Last(Newest(S, n)) = Position(m)
                                      /\ \A a \in S : a \in Newest(S, n) \/ Before(Position(a), Position(m))
  <1> DEFINE page == Newest(S, n)
  <1>1. page \in SUBSET Stored /\ page \subseteq S
    BY NewestIs
  <1>2. page # {}
    <2>1. PICK a \in S : Above(S, a) = {}
      BY TopIsThere
    <2>2. Cardinality(Above(S, a)) < n
      BY <2>1, FS_EmptySet
    <2> QED BY <2>2, NewestIs
  <1>3. PICK x \in page : \A b \in page : ~Before(Position(b), Position(x))
    <2> HIDE DEF page
    <2> QED BY <1>1, <1>2, BottomIsThere
  <1> DEFINE m == CHOOSE a \in page : \A b \in page : ~Before(Position(b), Position(a))
  <1>4. m \in page /\ \A b \in page : ~Before(Position(b), Position(m))
    BY <1>3
  <1>5. Last(page) = Position(m)
    BY DEF Last
  <1>6. ASSUME NEW a \in S, a \notin page PROVE Before(Position(a), Position(m))
    <2> HIDE DEF m
    <2>1. m \in S /\ Cardinality(Above(S, m)) < n /\ ~(Cardinality(Above(S, a)) < n) /\ a # m
      BY <1>4, <1>6, NewestIs
    <2>2. Cardinality(Above(S, a)) \in Nat /\ Cardinality(Above(S, m)) \in Nat
      BY <2>1, AboveIsOrdered
    <2> QED BY <2>1, <2>2, AboveIsOrdered
  <1> HIDE DEF m, page
  <1> QED BY <1>2, <1>4, <1>5, <1>6 DEF page

\* One that is not longer than a page is on it.
LEMMA ShortPage ==
    ASSUME PublishedFits, NEW S \in SUBSET Stored, NEW n \in Nat, ~(Cardinality(S) > n)
    PROVE  Newest(S, n) = S
  <1>1. ASSUME NEW a \in S PROVE Cardinality(Above(S, a)) < n
    <2>1. Cardinality(Above(S, a)) \in Nat /\ Cardinality(Above(S, a)) < Cardinality(S) /\ Cardinality(S) \in Nat
      BY AboveIsOrdered, FiniteList
    <2> QED BY <2>1
  <1> QED BY <1>1, NewestIs

\* A long one has a row.
LEMMA LongIsThere ==
    ASSUME NEW S, NEW n \in Nat, Cardinality(S) > n
    PROVE  S # {}
  BY FS_EmptySet

\* The first of a list: everything else is below it.
LEMMA TheFirst ==
    ASSUME PublishedFits, NEW S \in SUBSET Stored, NEW a \in Newest(S, 1)
    PROVE  a \in S /\ \A b \in S : b = a \/ Before(Position(b), Position(a))
  <1>1. a \in S /\ Cardinality(Above(S, a)) < 1 /\ Above(S, a) \in SUBSET Stored
    BY NewestIs DEF Above
  <1>2. Above(S, a) = {}
    <2>1. IsFiniteSet(Above(S, a)) /\ Cardinality(Above(S, a)) \in Nat
      BY <1>1, FiniteList
    <2> QED BY <1>1, <2>1, FS_EmptySet
  <1> QED BY <1>1, <1>2, TotalOrder DEF Above

-----------------------------------------------------------------------------
(* What a client is sent.                                                  *)

\* What is not empty has a first id: the least set of those below one.
LEMMA LowestIsThere ==
    ASSUME PublishedFits, NEW S \in SUBSET Stored, NEW n \in Nat \ {0}, S # {}
    PROVE  Lowest(S, n) # {}
  <1> DEFINE Under(a) == {b \in S : b < a}
             Tails == {Under(a) : a \in S}
  <1>0. \A x, y, z \in S : ~(x < x) /\ (x < y /\ y < z => x < z)
    <2>1. \A x \in S : x \in Nat
      BY StoredType
    <2> QED BY <2>1
  <1>1. PICK H \in Tails : \A T \in Tails : <<T, H>> \notin StrictSubsetOrdering(S)
    <2>1. IsWellFoundedOn(StrictSubsetOrdering(S), SUBSET S)
      BY FiniteList, FS_StrictSubsetOrderingWellFounded, FS_FiniteSubsetsOfFinite
    <2>2. Tails \subseteq SUBSET S /\ Tails # {}
      OBVIOUS
    <2> HIDE DEF Tails
    <2> QED BY <2>1, <2>2, WFMin
  <1>2. PICK a \in S : H = Under(a)
    OBVIOUS
  <1>3. Under(a) = {}
    <2> SUFFICES ASSUME NEW b \in S, b < a PROVE FALSE
      OBVIOUS
    <2>1. Under(b) \subseteq Under(a) /\ b \in Under(a) /\ b \notin Under(b)
      BY <1>0
    <2>2. <<Under(b), H>> \in StrictSubsetOrdering(S)
      BY <1>2, <2>1 DEF StrictSubsetOrdering
    <2> QED BY <1>1, <2>2
  <1>4. Cardinality(Under(a)) < n
    <2>1. Cardinality(Under(a)) = 0
      BY <1>3, FS_EmptySet
    <2> QED BY <2>1
  <1> QED BY <1>4 DEF Lowest

\* A page of items has a last id.
LEMMA GreatestIsThere ==
    ASSUME PublishedFits, NEW S \in SUBSET Stored, S # {}
    PROVE  (CHOOSE a \in S : \A b \in S : a >= b) \in S
  <1> DEFINE Over(a) == {b \in S : b > a}
             Heads == {Over(a) : a \in S}
  <1>0. \A x, y, z \in S : (~(x > y) => y >= x) /\ ~(x > x) /\ (x > y /\ y > z => x > z)
    <2>1. \A x \in S : x \in Nat
      BY StoredType
    <2> QED BY <2>1
  <1>1. PICK H \in Heads : \A T \in Heads : <<T, H>> \notin StrictSubsetOrdering(S)
    <2>1. IsWellFoundedOn(StrictSubsetOrdering(S), SUBSET S)
      BY FiniteList, FS_StrictSubsetOrderingWellFounded, FS_FiniteSubsetsOfFinite
    <2>2. Heads \subseteq SUBSET S /\ Heads # {}
      OBVIOUS
    <2> HIDE DEF Heads
    <2> QED BY <2>1, <2>2, WFMin
  <1>2. PICK a \in S : H = Over(a)
    OBVIOUS
  <1>3. \A b \in S : a >= b
    <2> SUFFICES ASSUME NEW b \in S, b > a PROVE FALSE
      BY <1>0
    <2>1. Over(b) \subseteq Over(a) /\ b \in Over(a) /\ b \notin Over(b)
      BY <1>0
    <2>2. <<Over(b), H>> \in StrictSubsetOrdering(S)
      BY <1>2, <2>1 DEF StrictSubsetOrdering
    <2> QED BY <1>1, <2>2
  <1> QED BY <1>3

-----------------------------------------------------------------------------
(* The invariant.                                                          *)

RowFits(r) ==
    r \in Row /\ (r.read \/ r.saved => r.row) /\ (r.starred => r.saved) /\ (r.lapsed => r.read)

ListsFit ==
    /\ PublishedFits
    /\ carried \in [Feed -> SUBSET Stored]
    /\ state \in [Id -> Row] /\ \A a \in Id : RowFits(state[a])

FoldersFit ==
    /\ filed \in [Feed -> Folder \cup {NoFolder, Unsubscribed}]
    /\ name \in [Folder -> Name \cup {Gone}]
    /\ \A f \in Feed : filed[f] \in Folder => filed[f] \in Live
    /\ \A f \in Feed \ Subscribed : carried[f] = {}
    /\ \A c, d \in Live : name[c] = name[d] => c = d

\* What was on the list at first, and neither left it nor moved nor was passed, is still
\* on it, and was shown, is next, or is below where the reader is.
Ahead(t, within, next, p) ==
    \A a \in t.was \ left :
        a \in Filter(t.list, within) /\ (a \in t.shown \cup next \/ Before(Position(a), p))

TabFits ==
    /\ tab \in Tab /\ tab.shown \cup tab.was \subseteq Stored /\ left \subseteq Id
    /\ tab.how = "pages" => tab.at # <<>> /\ Ahead(tab, FALSE, {}, tab.at)
    /\ tab.how = "article" => \E m \in Stored : tab.at = <<m>> /\ Ahead(tab, TRUE, {m}, Position(m))
    /\ NothingSkipped

\* What the client was told is unread is what it asks for, and once it asks for
\* nothing more it has it.
ClientFits ==
    /\ client \in Client /\ client.cache \cup client.unread \cup client.was \subseteq Stored
    /\ client.unread = client.was
    /\ client.at = "synced" => client.unread \subseteq client.cache

\* The folder of a mark has the name it was looked up under, or is noted.
MarkFits ==
    /\ mark \in Mark
    /\ mark.at = "found" =>
          mark.group \in Folder /\ (~mark.renamed => mark.group \in Live /\ name[mark.group] = mark.name)

ReadingInv == ListsFit /\ FoldersFit /\ TabFits /\ ClientFits /\ MarkFits /\ acts \in 0 .. MaxActs

-----------------------------------------------------------------------------
(* What stays as it is.                                                    *)

\* A list gone through by nobody in this step, whatever becomes of what is on it.
LEMMA TabKept ==
    ASSUME ListsFit, TabFits, UNCHANGED tab, Watched, Stored \subseteq Stored'
    PROVE  TabFits'
  <1>1. PICK t \in Tab : t = tab
    BY DEF TabFits
  <1>2. left' = IF t.how = "closed" THEN {} ELSE left \cup Leaving(t)
    BY <1>1 DEF Watched
  <1>3. t.was \subseteq Stored /\ t.shown \subseteq Stored /\ Stored \subseteq Id
    BY <1>1, StoredType DEF TabFits, ListsFit
  <1>4. left' \subseteq Id
    BY <1>2, <1>3 DEF Leaving, TabFits
  <1>5. ASSUME t.how # "closed", NEW a \in t.was \ left'
        PROVE  /\ a \in t.was \ left /\ a \in Filter(t.list, t.how = "article")'
               /\ SortKey(a)' = SortKey(a)
               /\ t.how = "article" =>
                     \A m \in Id : t.at = <<m>> /\ Before(Position(a), Position(m))
                                       => Before(Position(a)', Position(m)')
    <2> QED BY <1>2, <1>5 DEF Leaving, Moved, Passed
  <1>6. CASE t.how = "pages"
    <2>1. ASSUME NEW a \in t.was \ left'
          PROVE  a \in Filter(t.list, FALSE)' /\ (a \in t.shown \/ Before(Position(a)', t.at))
      <3>1. a \in Filter(t.list, t.how = "article")' /\ a \in t.was \ left /\ SortKey(a)' = SortKey(a)
        BY <1>5, <1>6
      <3>2. (t.how = "article") = FALSE
        BY <1>6
      <3>3. a \in Filter(t.list, FALSE)'
        BY <3>1, <3>2
      <3>4. Position(a)' = Position(a)
        BY <3>1 DEF Position
      <3>5. a \in t.shown \/ Before(Position(a), t.at)
        BY <1>1, <1>6, <3>1 DEF TabFits, Ahead
      <3> QED BY <3>3, <3>4, <3>5
    <2> QED BY <1>1, <1>3, <1>4, <1>6, <2>1 DEF TabFits, Ahead, NothingSkipped
  <1>7. CASE t.how = "article"
    <2>0. PICK m \in Stored : t.at = <<m>> /\ Ahead(t, TRUE, {m}, Position(m))
      BY <1>1, <1>7 DEF TabFits
    <2>1. ASSUME NEW a \in t.was \ left'
          PROVE  a \in Filter(t.list, TRUE)' /\ (a \in t.shown \cup {m} \/ Before(Position(a)', Position(m)'))
      <3>1. a \in Filter(t.list, t.how = "article")' /\ a \in t.was \ left
            /\ (Before(Position(a), Position(m)) => Before(Position(a)', Position(m)'))
        BY <1>3, <1>5, <1>7, <2>0
      <3>2. (t.how = "article") = TRUE
        BY <1>7
      <3>3. a \in Filter(t.list, TRUE)'
        BY <3>1, <3>2
      <3>5. a \in t.shown \cup {m} \/ Before(Position(a), Position(m))
        BY <2>0, <3>1 DEF Ahead
      <3> QED BY <3>1, <3>3, <3>5
    <2>2. m \in Stored'
      BY <2>0
    <2> QED BY <1>1, <1>3, <1>4, <1>7, <2>0, <2>1, <2>2 DEF TabFits, Ahead, NothingSkipped
  <1>8. CASE t.how \notin {"pages", "article"}
    <2>1. t.how = "ended" => left \subseteq left'
      BY <1>2
    <2> QED BY <1>1, <1>3, <1>4, <1>8, <2>1 DEF TabFits, NothingSkipped
  <1> QED BY <1>6, <1>7, <1>8

LEMMA ClientKept ==
    ASSUME ClientFits, UNCHANGED client, Stored \subseteq Stored'
    PROVE  ClientFits'
  BY DEF ClientFits

LEMMA MarkKept ==
    ASSUME MarkFits, UNCHANGED <<mark, name>>
    PROVE  MarkFits'
  BY DEF MarkFits, Live

LEMMA FoldersKept ==
    ASSUME FoldersFit, UNCHANGED <<filed, name, carried>>
    PROVE  FoldersFit'
  BY DEF FoldersFit, Live, Subscribed

LEMMA ListsKept ==
    ASSUME ListsFit, UNCHANGED <<published, carried, state>>
    PROVE  ListsFit' /\ Stored \subseteq Stored'
  BY DEF ListsFit, PublishedFits, Stored

LEMMA ActFits == ASSUME acts \in 0 .. MaxActs, Act PROVE acts' \in 0 .. MaxActs
  BY ReadingConstants DEF Act

\* What is on a list is stored.
LEMMA ListIsStored == \A list, within : Filter(list, within) \subseteq VisibleArticles /\ VisibleArticles \subseteq Stored
  BY DEF Filter, VisibleArticles


-----------------------------------------------------------------------------
(* What readers and their clients do to articles.                          *)

RowsFit == state \in [Id -> Row] /\ \A a \in Id : RowFits(state[a])

LEMMA RowWritten ==
    ASSUME ListsFit, NEW a \in Id, NEW on \in BOOLEAN,
           \/ state' = [state EXCEPT ![a] = [@ EXCEPT !.row = TRUE, !.read = on, !.lapsed = state[a].lapsed /\ on]]
           \/ state' = [state EXCEPT ![a] = [@ EXCEPT !.row = TRUE, !.starred = on, !.saved = state[a].saved \/ on]]
           \/ state' = [state EXCEPT ![a] = [@ EXCEPT !.row = TRUE, !.saved = TRUE]]
           \/ state[a].read /\ state' = [state EXCEPT ![a] = [@ EXCEPT !.lapsed = TRUE]]
    PROVE  RowsFit'
  <1>1. PICK r \in Row : r = state[a] /\ RowFits(r)
    BY DEF ListsFit
  <1>2. /\ RowFits([r EXCEPT !.row = TRUE, !.read = on, !.lapsed = r.lapsed /\ on])
        /\ RowFits([r EXCEPT !.row = TRUE, !.starred = on, !.saved = r.saved \/ on])
        /\ RowFits([r EXCEPT !.row = TRUE, !.saved = TRUE])
        /\ r.read => RowFits([r EXCEPT !.lapsed = TRUE])
    BY <1>1 DEF RowFits, Row
  <1>3. PICK w : RowFits(w) /\ state' = [state EXCEPT ![a] = w]
    <2>1. CASE state' = [state EXCEPT ![a] = [r EXCEPT !.row = TRUE, !.read = on, !.lapsed = r.lapsed /\ on]]
      BY <1>2, <2>1
    <2>2. CASE state' = [state EXCEPT ![a] = [r EXCEPT !.row = TRUE, !.starred = on, !.saved = r.saved \/ on]]
      BY <1>2, <2>2
    <2>3. CASE state' = [state EXCEPT ![a] = [r EXCEPT !.row = TRUE, !.saved = TRUE]]
      BY <1>2, <2>3
    <2>4. \/ state' = [state EXCEPT ![a] = [state[a] EXCEPT !.row = TRUE, !.read = on, !.lapsed = state[a].lapsed /\ on]]
          \/ state' = [state EXCEPT ![a] = [state[a] EXCEPT !.row = TRUE, !.starred = on, !.saved = state[a].saved \/ on]]
          \/ state' = [state EXCEPT ![a] = [state[a] EXCEPT !.row = TRUE, !.saved = TRUE]]
          \/ state[a].read /\ state' = [state EXCEPT ![a] = [state[a] EXCEPT !.lapsed = TRUE]]
      OBVIOUS
    <2>5. CASE r.read /\ state' = [state EXCEPT ![a] = [r EXCEPT !.lapsed = TRUE]]
      BY <1>2, <2>5
    <2> QED BY <1>1, <2>1, <2>2, <2>3, <2>4, <2>5
  <1> QED BY <1>3 DEF ListsFit, RowsFit, RowFits

LEMMA ArticleWritten ==
    ASSUME ListsFit, NEW a, NEW on \in BOOLEAN, SetRead(a, on) \/ SetStarred(a, on)
    PROVE  RowsFit'
  <1>1. a \in Id
    BY StoredType DEF SetRead, SetStarred, VisibleArticles, ListsFit
  <1>2. \/ state' = [state EXCEPT ![a] = [@ EXCEPT !.row = TRUE, !.read = on, !.lapsed = state[a].lapsed /\ on]]
        \/ state' = [state EXCEPT ![a] = [@ EXCEPT !.row = TRUE, !.starred = on, !.saved = state[a].saved \/ on]]
    BY DEF SetRead, SetStarred
  <1> QED BY <1>1, <1>2, RowWritten

LEMMA Marked ==
    ASSUME ListsFit, NEW S, MarkRead(S)
    PROVE  RowsFit' /\ \A a \in Id : ~state[a].read /\ state'[a].read => a \in S
  <1>1. ASSUME NEW a \in Id
        PROVE  RowFits(IF a \in S THEN [state[a] EXCEPT !.row = TRUE, !.read = TRUE] ELSE state[a])
    <2>1. PICK r \in Row : r = state[a] /\ RowFits(r)
      BY DEF ListsFit
    <2>2. RowFits([r EXCEPT !.row = TRUE, !.read = TRUE])
      BY <2>1 DEF RowFits, Row
    <2> QED BY <2>1, <2>2
  <1>2. state' = [a \in Id |-> IF a \in S THEN [state[a] EXCEPT !.row = TRUE, !.read = TRUE] ELSE state[a]]
    BY DEF MarkRead
  <1>3. \A a \in Id : RowFits(state'[a])
    BY <1>1, <1>2
  <1>4. state' \in [Id -> Row]
    BY <1>1, <1>2 DEF RowFits
  <1>5. \A a \in Id : a \notin S => state'[a] = state[a]
    BY <1>2
  <1> QED BY <1>3, <1>4, <1>5 DEF RowsFit

\* Rows are written, and nothing else.
LEMMA Written ==
    ASSUME ReadingInv, RowsFit', UNCHANGED <<published, carried, filed, name, tab>>, Watched
    PROVE  ListsFit' /\ FoldersFit' /\ TabFits' /\ Stored' = Stored
  <1>1. ListsFit' /\ Stored' = Stored
    BY DEF ReadingInv, ListsFit, RowsFit, PublishedFits, Stored
  <1> QED BY <1>1, TabKept, FoldersKept DEF ReadingInv

LEMMA AnswerFits ==
    ASSUME ClientFits, Answered, ListsFit', Stored \subseteq Stored'
    PROVE  ClientFits'
  <1>1. PICK c \in Client : c = client
    BY DEF ClientFits
  <1>2. PICK U \in SUBSET Id : U = Unread'
    <2>1. Len(published)' \in 2 .. MaxArticles /\ MaxArticles \in Nat
      BY ReadingConstants DEF ListsFit, PublishedFits
    <2>2. Stored' \subseteq Id
      BY <2>1 DEF Stored, Id
    <2> QED BY <2>2 DEF Unread, VisibleArticles
  <1>3. U \subseteq Stored'
    BY <1>2 DEF Unread, VisibleArticles
  <1>4. client' = [c EXCEPT !.unread = U, !.was = U, !.at = IF @ = "synced" THEN "fetch" ELSE @]
    BY <1>1, <1>2 DEF Answered, UnreadArticleIDs
  <1> HIDE <1>2
  <1>5. client' \in Client /\ client'.unread = U /\ client'.was = U /\ client'.at # "synced"
        /\ client'.cache = c.cache
    BY <1>4 DEF Client
  <1>6. c.cache \subseteq Stored'
    BY <1>1 DEF ClientFits
  <1> QED BY <1>3, <1>5, <1>6 DEF ClientFits


LEMMA ToggleKeeps == ASSUME ReadingInv, NEW a, Toggle(a) PROVE ReadingInv'
  <1>1. RowsFit'
    BY ArticleWritten DEF Toggle, ReadingInv
  <1> QED BY <1>1, Written, ClientKept, MarkKept, ActFits DEF Toggle, ReadingInv

LEMMA HalfAnHourKeeps == ASSUME ReadingInv, NEW a \in Stored, HalfAnHour(a) PROVE ReadingInv'
  <1>1. a \in Id
    BY StoredType DEF ReadingInv, ListsFit
  <1>2. state[a].read /\ state' = [state EXCEPT ![a] = [@ EXCEPT !.lapsed = TRUE]]
    BY DEF HalfAnHour
  <1>3. RowsFit'
    BY <1>1, <1>2, RowWritten DEF ReadingInv
  <1> QED BY <1>3, Written, ClientKept, MarkKept DEF HalfAnHour, ReadingInv

LEMMA HandleMarkReadKeeps == ASSUME ReadingInv, NEW list, HandleMarkRead(list) PROVE ReadingInv'
  <1>1. RowsFit'
    BY Marked DEF HandleMarkRead, ReadingInv
  <1> QED BY <1>1, Written, ClientKept, MarkKept, ActFits DEF HandleMarkRead, ReadingInv

LEMMA HandleMarkScrolledReadKeeps == ASSUME ReadingInv, HandleMarkScrolledRead PROVE ReadingInv'
  <1>1. PICK S : MarkReadAutomatically(S)
    BY DEF HandleMarkScrolledRead
  <1>2. RowsFit'
    BY <1>1, Marked DEF MarkReadAutomatically, ReadingInv
  <1> QED BY <1>2, Written, ClientKept, MarkKept, ActFits DEF HandleMarkScrolledRead, ReadingInv

LEMMA FeverMarkItemKeeps == ASSUME ReadingInv, NEW a, FeverMarkItem(a) PROVE ReadingInv'
  <1>1. RowsFit'
    BY ArticleWritten DEF FeverMarkItem, ReadingInv
  <1>2. ListsFit' /\ FoldersFit' /\ TabFits' /\ Stored' = Stored
    BY <1>1, Written DEF FeverMarkItem
  <1> QED BY <1>2, AnswerFits, MarkKept, ActFits DEF FeverMarkItem, ReadingInv

LEMMA FeverMarkFeedKeeps ==
    ASSUME ReadingInv, NEW f, NEW before, FeverMarkFeed(f, before) PROVE ReadingInv'
  <1>1. RowsFit'
    BY Marked DEF FeverMarkFeed, ReadingInv
  <1>2. ListsFit' /\ FoldersFit' /\ TabFits' /\ Stored' = Stored
    BY <1>1, Written DEF FeverMarkFeed
  <1> QED BY <1>2, AnswerFits, MarkKept, ActFits DEF FeverMarkFeed, ReadingInv

LEMMA FeverMarkAllKeeps == ASSUME ReadingInv, FeverMarkAll PROVE ReadingInv'
  <1>1. PICK S : MarkRead(S)
    BY DEF FeverMarkAll
  <1>2. RowsFit'
    BY <1>1, Marked DEF ReadingInv
  <1>3. ListsFit' /\ FoldersFit' /\ TabFits' /\ Stored' = Stored
    BY <1>2, Written DEF FeverMarkAll
  <1> QED BY <1>3, AnswerFits, MarkKept, ActFits DEF FeverMarkAll, ReadingInv

LEMMA NoMarkFits == NoMark \in Mark /\ NoMark.at = "none"
  BY DEF NoMark, Mark, Bucket

LEMMA MarkGroupReadKeeps == ASSUME ReadingInv, MarkGroupRead PROVE ReadingInv'
  <1>1. PICK S : MarkRead(S)
    BY DEF MarkGroupRead
  <1>2. RowsFit'
    BY <1>1, Marked DEF ReadingInv
  <1>3. ListsFit' /\ FoldersFit' /\ TabFits' /\ Stored' = Stored
    BY <1>2, Written DEF MarkGroupRead
  <1>4. MarkFits'
    BY NoMarkFits DEF MarkGroupRead, MarkFits
  <1>5. ClientFits' /\ acts' = acts
    BY <1>3, AnswerFits DEF MarkGroupRead, ReadingInv
  <1> QED BY <1>3, <1>4, <1>5 DEF ReadingInv

-----------------------------------------------------------------------------
(* What arrives.                                                           *)

LEMMA Arrived ==
    ASSUME ListsFit, NEW d \in Dates \cup {NoDate}, Len(published) < MaxArticles,
           published' = Append(published, d)
    PROVE  PublishedFits' /\ Stored \subseteq Stored' /\ Len(published) + 1 \in Stored'
  <1>1. MaxArticles \in Nat /\ published \in Seq(Dates \cup {NoDate}) /\ Len(published) \in Nat
    BY ReadingConstants DEF ListsFit, PublishedFits
  <1>2. published' \in Seq(Dates \cup {NoDate}) /\ Len(published') = Len(published) + 1
    BY <1>1, AppendProperties
  <1> QED BY <1>1, <1>2 DEF ListsFit, PublishedFits, Stored

LEMMA NoDateIs == NoDate \in Dates \cup {NoDate}
  OBVIOUS

LEMMA SaveArticleKeeps == ASSUME ReadingInv, NEW a \in Id, SaveArticle(a) PROVE ReadingInv'
  <1>1. PublishedFits' /\ Stored \subseteq Stored'
    <2>1. CASE UNCHANGED published
      BY <2>1 DEF ReadingInv, ListsFit, PublishedFits, Stored
    <2>2. CASE a = Len(published) + 1 /\ published' = Append(published, NoDate)
      <3>1. Len(published) < MaxArticles
        BY <2>2, ReadingConstants DEF Id, ReadingInv, ListsFit, PublishedFits
      <3> QED BY <2>2, <3>1, Arrived, NoDateIs DEF ReadingInv
    <2> QED BY <2>1, <2>2 DEF SaveArticle
  <1>2. RowsFit'
    <2>1. state' = [state EXCEPT ![a] = [@ EXCEPT !.row = TRUE, !.saved = TRUE]]
      BY DEF SaveArticle
    <2> QED BY <2>1, RowWritten DEF ReadingInv
  <1>3. ListsFit'
    BY <1>1, <1>2 DEF SaveArticle, ReadingInv, ListsFit, RowsFit
  <1> QED BY <1>1, <1>3, TabKept, FoldersKept, ClientKept, MarkKept, ActFits DEF SaveArticle, ReadingInv

LEMMA UpsertArticleKeeps == ASSUME ReadingInv, UpsertArticle PROVE ReadingInv'
  <1>1. PublishedFits' /\ Stored \subseteq Stored'
    BY Arrived DEF UpsertArticle, ReadingInv
  <1>2. ListsFit'
    BY <1>1 DEF UpsertArticle, ReadingInv, ListsFit
  <1> QED BY <1>1, <1>2, TabKept, FoldersKept, ClientKept, MarkKept DEF UpsertArticle, ReadingInv

LEMMA UpdateArticleMetadataKeeps == ASSUME ReadingInv, NEW a, UpdateArticleMetadata(a) PROVE ReadingInv'
  <1>1. PICK d \in Dates : a \in Stored /\ published' = [published EXCEPT ![a] = d]
    BY DEF UpdateArticleMetadata
  <1>2. PublishedFits' /\ Stored' = Stored
    <2>1. published \in Seq(Dates \cup {NoDate}) /\ a \in 1 .. Len(published)
      BY <1>1 DEF ReadingInv, ListsFit, PublishedFits, Stored
    <2>2. published' \in Seq(Dates \cup {NoDate}) /\ Len(published') = Len(published)
      BY <1>1, <2>1, ExceptSeq
    <2> QED BY <2>2 DEF ReadingInv, ListsFit, PublishedFits, Stored
  <1>3. ListsFit'
    BY <1>2 DEF UpdateArticleMetadata, ReadingInv, ListsFit
  <1> QED BY <1>2, <1>3, TabKept, FoldersKept, ClientKept, MarkKept, ActFits
          DEF UpdateArticleMetadata, ReadingInv

LEMMA InsertFeedItemKeeps ==
    ASSUME ReadingInv, NEW f \in Feed, NEW a \in Stored, InsertFeedItem(f, a) PROVE ReadingInv'
  <1>1. carried' = [carried EXCEPT ![f] = @ \cup {a}] /\ f \in Subscribed
        /\ UNCHANGED <<published, state, filed, name, tab, client, mark, acts>> /\ Watched
    BY DEF InsertFeedItem
  <1>2. ListsFit' /\ Stored' = Stored
    BY <1>1 DEF ReadingInv, ListsFit, PublishedFits, Stored
  <1>3. FoldersFit'
    BY <1>1 DEF ReadingInv, ListsFit, FoldersFit, Subscribed, Live
  <1> QED BY <1>1, <1>2, <1>3, TabKept, ClientKept, MarkKept DEF ReadingInv

-----------------------------------------------------------------------------
(* Folders.                                                                *)

\* A folder is made under a name no other has.
LEMMA Named ==
    ASSUME FoldersFit, NEW c \in Folder, NEW n \in Name, NameIsFree(c, n),
           name' = [name EXCEPT ![c] = n]
    PROVE  /\ name' \in [Folder -> Name \cup {Gone}] /\ Live' = Live \cup {c}
           /\ \A d, e \in Live' : name'[d] = name'[e] => d = e
  <1>1. n # Gone
    BY ReadingConstants
  <1>2. name' \in [Folder -> Name \cup {Gone}]
        /\ \A d \in Folder : name'[d] = IF d = c THEN n ELSE name[d]
    BY DEF FoldersFit
  <1>3. Live' = Live \cup {c}
    BY <1>1, <1>2 DEF Live
  <1>4. \A d \in Live \ {c} : name[d] # n
    BY DEF NameIsFree
  <1>5. \A d \in Live : d \in Folder
    BY DEF Live
  <1> QED BY <1>2, <1>3, <1>4, <1>5 DEF FoldersFit

\* Marks under way when the folders change: those of other folders, and those noted.
LEMMA MarkOfAnother ==
    ASSUME MarkFits, UNCHANGED mark, NEW c \in Folder \ Live, NEW n,
           name \in [Folder -> Name \cup {Gone}],
           name' = [name EXCEPT ![c] = n], Live' = Live \cup {c}
    PROVE  MarkFits'
  <1>1. \A d \in Live : d # c /\ name'[d] = name[d] /\ d \in Live'
    BY DEF Live
  <1> QED BY <1>1 DEF MarkFits

LEMMA NotedFits ==
    ASSUME MarkFits, Noted
    PROVE  MarkFits'
  <1>1. PICK m \in Mark : m = mark
    BY DEF MarkFits
  <1>2. mark' = IF m.at = "none" THEN m ELSE [m EXCEPT !.renamed = TRUE]
    BY <1>1 DEF Noted
  <1>3. mark' \in Mark /\ mark'.group = m.group /\ mark'.at = m.at /\ (m.at # "none" => mark'.renamed)
    BY <1>2 DEF Mark
  <1> QED BY <1>1, <1>3 DEF MarkFits

LEMMA CreateCategoryKeeps ==
    ASSUME ReadingInv, NEW c \in Folder, NEW n \in Name, CreateCategory(c, n) PROVE ReadingInv'
  <1>1. c \notin Live /\ NameIsFree(c, n) /\ name' = [name EXCEPT ![c] = n] /\ Act
        /\ UNCHANGED <<published, carried, state, filed, tab, client, mark>> /\ Watched
    BY DEF CreateCategory
  <1>2. /\ name' \in [Folder -> Name \cup {Gone}] /\ Live' = Live \cup {c}
        /\ \A d, e \in Live' : name'[d] = name'[e] => d = e
    BY <1>1, Named DEF ReadingInv
  <1>3. FoldersFit'
    BY <1>1, <1>2 DEF ReadingInv, FoldersFit, Subscribed
  <1>4. MarkFits'
    BY <1>1, <1>2, MarkOfAnother DEF ReadingInv, FoldersFit
  <1> QED BY <1>1, <1>3, <1>4, ListsKept, TabKept, ClientKept, ActFits DEF ReadingInv

LEMMA RenameCategoryKeeps ==
    ASSUME ReadingInv, NEW c \in Folder, NEW n \in Name, RenameCategory(c, n) PROVE ReadingInv'
  <1>1. c \in Live /\ NameIsFree(c, n) /\ name' = [name EXCEPT ![c] = n] /\ Act /\ Noted
        /\ UNCHANGED <<published, carried, state, filed, tab, client>> /\ Watched
    BY DEF RenameCategory
  <1>2. /\ name' \in [Folder -> Name \cup {Gone}] /\ Live' = Live \cup {c}
        /\ \A d, e \in Live' : name'[d] = name'[e] => d = e
    BY <1>1, Named DEF ReadingInv
  <1>3. FoldersFit'
    BY <1>1, <1>2 DEF ReadingInv, FoldersFit, Subscribed
  <1> QED BY <1>1, <1>3, ListsKept, TabKept, ClientKept, NotedFits, ActFits DEF ReadingInv


\* Feeds that are dropped carry nothing, and feeds that are moved what they did.
LEMMA Dropped ==
    ASSUME ListsFit, FoldersFit, NEW S, DropFeeds(S)
    PROVE  /\ carried' \in [Feed -> SUBSET Stored]
           /\ filed' \in [Feed -> Folder \cup {NoFolder, Unsubscribed}]
           /\ \A f \in Feed \ Subscribed' : carried'[f] = {}
           /\ \A f \in Feed : filed'[f] = IF f \in S THEN Unsubscribed ELSE filed[f]
  <1>1. /\ carried' = [f \in Feed |-> IF f \in S THEN {} ELSE carried[f]]
        /\ filed' = [f \in Feed |-> IF f \in S THEN Unsubscribed ELSE filed[f]]
    BY DEF DropFeeds
  <1> QED BY <1>1 DEF ListsFit, FoldersFit, Subscribed

LEMMA Refiled ==
    ASSUME ListsFit, FoldersFit, NEW S \in SUBSET Subscribed, NEW c \in Folder \cup {NoFolder}, Refile(S, c)
    PROVE  /\ carried' \in [Feed -> SUBSET Stored]
           /\ filed' \in [Feed -> Folder \cup {NoFolder, Unsubscribed}]
           /\ \A f \in Feed \ Subscribed' : carried'[f] = {}
           /\ \A f \in Feed : filed'[f] = IF f \in S THEN c ELSE filed[f]
  <1>1. filed' = [f \in Feed |-> IF f \in S THEN c ELSE filed[f]] /\ carried' = carried
    BY DEF Refile
  <1>2. c # Unsubscribed
    BY ReadingConstants
  <1> QED BY <1>1, <1>2 DEF ListsFit, FoldersFit, Subscribed

LEMMA DeleteCategoryKeeps ==
    ASSUME ReadingInv, NEW c \in Folder, DeleteCategory(c) PROVE ReadingInv'
  <1> DEFINE feeds == {f \in Feed : filed[f] = c}
  <1>0. feeds \subseteq Subscribed
    BY ReadingConstants DEF Subscribed
  <1>1. /\ Act /\ c \in Live /\ name' = [name EXCEPT ![c] = Gone] /\ Noted
        /\ UNCHANGED <<published, state, tab, client>> /\ Watched
        /\ DropFeeds(feeds) \/ \E into \in (Live \ {c}) \cup {NoFolder} : Refile(feeds, into)
    BY DEF DeleteCategory
  <1> HIDE DEF feeds
  <1>2. PICK to \in (Live \ {c}) \cup {NoFolder, Unsubscribed} :
          \A f \in Feed : filed'[f] = IF f \in feeds THEN to ELSE filed[f]
    <2>1. CASE DropFeeds(feeds)
      <3>1. \A f \in Feed : filed'[f] = IF f \in feeds THEN Unsubscribed ELSE filed[f]
        BY <2>1, Dropped DEF ReadingInv
      <3> QED BY <3>1
    <2>2. ASSUME NEW into \in (Live \ {c}) \cup {NoFolder}, Refile(feeds, into)
          PROVE  \A f \in Feed : filed'[f] = IF f \in feeds THEN into ELSE filed[f]
      BY <1>0, <2>2, Refiled DEF ReadingInv, Live
    <2> QED BY <1>1, <2>1, <2>2
  <1>3. /\ carried' \in [Feed -> SUBSET Stored]
        /\ filed' \in [Feed -> Folder \cup {NoFolder, Unsubscribed}]
        /\ \A f \in Feed \ Subscribed' : carried'[f] = {}
    <2>1. CASE DropFeeds(feeds)
      BY <2>1, Dropped DEF ReadingInv
    <2>2. ASSUME NEW into \in (Live \ {c}) \cup {NoFolder}, Refile(feeds, into) PROVE <1>3
      BY <1>0, <2>2, Refiled DEF ReadingInv, Live
    <2> QED BY <1>1, <2>1, <2>2
  <1>4. /\ name' \in [Folder -> Name \cup {Gone}] /\ Live' = Live \ {c}
        /\ \A d \in Live' : name'[d] = name[d]
    BY <1>1 DEF ReadingInv, FoldersFit, Live
  <1>5. ListsFit' /\ Stored' = Stored
    BY <1>1, <1>3 DEF ReadingInv, ListsFit, PublishedFits, Stored
  <1>6. \A f \in Feed : filed'[f] \in Folder => filed'[f] \in Live'
    <2> SUFFICES ASSUME NEW f \in Feed, filed'[f] \in Folder PROVE filed'[f] \in Live'
      OBVIOUS
    <2>1. CASE f \in feeds
      BY <1>2, <1>4, <2>1, ReadingConstants
    <2>2. CASE f \notin feeds
      BY <1>2, <1>4, <2>2 DEF feeds, ReadingInv, FoldersFit
    <2> QED BY <2>1, <2>2
  <1>7. \A d, e \in Live' : name'[d] = name'[e] => d = e
    BY <1>4 DEF ReadingInv, FoldersFit
  <1>8. FoldersFit'
    BY <1>3, <1>4, <1>6, <1>7 DEF FoldersFit
  <1> QED BY <1>1, <1>5, <1>8, TabKept, ClientKept, NotedFits, ActFits DEF ReadingInv

LEMMA UpdateFeedKeeps ==
    ASSUME ReadingInv, NEW f \in Feed, NEW n \in Bucket, UpdateFeed(f, n) PROVE ReadingInv'
  <1>1. PICK c \in Folder \cup {NoFolder} : EnsureCategory(n, c) /\ Refile({f}, c)
    BY DEF UpdateFeed
  <1>2. Act /\ {f} \in SUBSET Subscribed /\ UNCHANGED <<published, state, tab, client, mark>> /\ Watched
    BY DEF UpdateFeed
  <1>3. /\ carried' \in [Feed -> SUBSET Stored]
        /\ filed' \in [Feed -> Folder \cup {NoFolder, Unsubscribed}]
        /\ \A g \in Feed \ Subscribed' : carried'[g] = {}
        /\ \A g \in Feed : filed'[g] = IF g \in {f} THEN c ELSE filed[g]
    BY <1>1, <1>2, Refiled DEF ReadingInv
  <1>4. /\ name' \in [Folder -> Name \cup {Gone}] /\ Live \subseteq Live'
        /\ \A d, e \in Live' : name'[d] = name'[e] => d = e
        /\ c \in Folder => c \in Live'
        /\ MarkFits'
    <2>1. CASE UNCHANGED name /\ (c = NoFolder \/ c \in Live)
      <3>1. Live' = Live
        BY <2>1 DEF Live
      <3>2. MarkFits'
        BY <1>2, <2>1, MarkKept DEF ReadingInv
      <3> QED BY <2>1, <3>1, <3>2, ReadingConstants DEF ReadingInv, FoldersFit
    <2>2. CASE n # NoName /\ c \in Folder \ Live /\ NameIsFree(c, n) /\ name' = [name EXCEPT ![c] = n]
      <3>1. n \in Name
        BY <2>2 DEF Bucket
      <3>2. /\ name' \in [Folder -> Name \cup {Gone}] /\ Live' = Live \cup {c}
            /\ \A d, e \in Live' : name'[d] = name'[e] => d = e
        BY <2>2, <3>1, Named DEF ReadingInv
      <3>3. MarkFits'
        BY <1>2, <2>2, <3>2, MarkOfAnother DEF ReadingInv, FoldersFit
      <3> QED BY <3>2, <3>3
    <2> QED BY <1>1, <2>1, <2>2 DEF EnsureCategory
  <1>5. ListsFit' /\ Stored' = Stored
    BY <1>2, <1>3 DEF ReadingInv, ListsFit, PublishedFits, Stored
  <1>6. \A g \in Feed : filed'[g] \in Folder => filed'[g] \in Live'
    BY <1>3, <1>4 DEF ReadingInv, FoldersFit
  <1>7. FoldersFit'
    BY <1>3, <1>4, <1>6 DEF FoldersFit
  <1> QED BY <1>2, <1>4, <1>5, <1>7, TabKept, ClientKept, ActFits DEF ReadingInv

LEMMA HandleUnsubscribeFeedKeeps ==
    ASSUME ReadingInv, NEW f \in Feed, HandleUnsubscribeFeed(f) PROVE ReadingInv'
  <1>1. Act /\ DropFeeds({f}) /\ UNCHANGED <<published, state, name, tab, client, mark>> /\ Watched
    BY DEF HandleUnsubscribeFeed
  <1>2. /\ carried' \in [Feed -> SUBSET Stored]
        /\ filed' \in [Feed -> Folder \cup {NoFolder, Unsubscribed}]
        /\ \A g \in Feed \ Subscribed' : carried'[g] = {}
        /\ \A g \in Feed : filed'[g] = IF g \in {f} THEN Unsubscribed ELSE filed[g]
    BY <1>1, Dropped DEF ReadingInv
  <1>3. ListsFit' /\ Stored' = Stored
    BY <1>1, <1>2 DEF ReadingInv, ListsFit, PublishedFits, Stored
  <1>4. FoldersFit'
    BY <1>1, <1>2, ReadingConstants DEF ReadingInv, FoldersFit, Live
  <1> QED BY <1>1, <1>3, <1>4, TabKept, ClientKept, MarkKept, ActFits DEF ReadingInv


-----------------------------------------------------------------------------
(* Fever.                                                                  *)

\* A step of the client alone.
LEMMA ClientStep ==
    ASSUME ReadingInv, ClientFits',
           UNCHANGED <<published, carried, state, filed, name, tab, mark>>, Watched
    PROVE  ListsFit' /\ FoldersFit' /\ TabFits' /\ MarkFits'
  BY ListsKept, FoldersKept, TabKept, MarkKept DEF ReadingInv

LEMMA BeginRoundKeeps == ASSUME ReadingInv, BeginRound PROVE ReadingInv'
  <1>1. PICK c \in Client : c = client
    BY DEF ReadingInv, ClientFits
  <1>2. client' = [c EXCEPT !.at = "items", !.before = Len(published) + 1]
    BY <1>1 DEF BeginRound
  <1>3. Len(published) + 1 \in Nat
    BY DEF ReadingInv, ListsFit, PublishedFits
  <1>4. client' \in Client /\ client'.at = "items" /\ client'.cache = c.cache
        /\ client'.unread = c.unread /\ client'.was = c.was
    BY <1>2, <1>3 DEF Client
  <1>5. Stored' = Stored
    BY DEF BeginRound, Stored
  <1>6. ClientFits'
    BY <1>1, <1>4, <1>5 DEF ReadingInv, ClientFits
  <1> QED BY <1>6, ClientStep, ActFits DEF BeginRound, ReadingInv

LEMMA FeverItemsKeeps == ASSUME ReadingInv, FeverItems PROVE ReadingInv'
  <1> DEFINE page == ItemsSince(client.since)
             last == CHOOSE a \in page : \A b \in page : a >= b
  <1>1. PICK c \in Client : c = client
    BY DEF ReadingInv, ClientFits
  <1>2. page \in SUBSET Stored
    BY DEF ItemsSince, Lowest, VisibleArticles
  <1>3. page # {} => last \in page
    <2> HIDE DEF page
    <2> QED BY <1>2, GreatestIsThere DEF ReadingInv, ListsFit
  <1>4. client' = IF page = {} THEN [c EXCEPT !.at = "ids"]
                  ELSE [c EXCEPT !.cache = @ \cup page, !.since = last]
    BY <1>1 DEF FeverItems
  <1>5. c.at = "items" /\ Stored' = Stored
    BY <1>1 DEF FeverItems, Stored
  <1> HIDE DEF page, last
  <1>6. Stored \subseteq Id /\ Id \subseteq Nat
    BY StoredType DEF ReadingInv, ListsFit
  <1>7. client' \in Client /\ client'.at \in {"items", "ids"} /\ client'.cache \subseteq c.cache \cup page
        /\ client'.unread = c.unread /\ client'.was = c.was
    BY <1>2, <1>3, <1>4, <1>5, <1>6 DEF Client
  <1>8. ClientFits'
    BY <1>1, <1>2, <1>5, <1>7 DEF ReadingInv, ClientFits
  <1> QED BY <1>8, ClientStep DEF FeverItems, ReadingInv

LEMMA FeverUnreadIdsKeeps == ASSUME ReadingInv, FeverUnreadIds PROVE ReadingInv'
  <1>1. PICK c \in Client : c = client
    BY DEF ReadingInv, ClientFits
  <1>2. client' = [c EXCEPT !.at = "fetch", !.unread = Unread, !.was = Unread]
    BY <1>1 DEF FeverUnreadIds, UnreadArticleIDs
  <1>3. Unread \subseteq Stored /\ Stored \subseteq Id /\ Stored' = Stored
    BY StoredType DEF Unread, VisibleArticles, ReadingInv, ListsFit, FeverUnreadIds, Stored
  <1>4. client' \in Client /\ client'.at = "fetch" /\ client'.cache = c.cache
        /\ client'.unread = Unread /\ client'.was = Unread
    BY <1>2, <1>3 DEF Client
  <1>5. ClientFits'
    BY <1>1, <1>3, <1>4 DEF ReadingInv, ClientFits
  <1> QED BY <1>5, ClientStep DEF FeverUnreadIds, ReadingInv

\* When it has nothing more to ask for, it has all of it.
LEMMA FeverWithIdsKeeps == ASSUME ReadingInv, FeverWithIds PROVE ReadingInv'
  <1> DEFINE ids == Lowest(client.unread \ client.cache, FeverItemLimit)
  <1>1. PICK c \in Client : c = client
    BY DEF ReadingInv, ClientFits
  <1>2. client' = IF ids = {} THEN [c EXCEPT !.at = "synced"]
                  ELSE [c EXCEPT !.cache = @ \cup ItemsWithIds(ids),
                                 !.unread = @ \ (ids \ VisibleArticles),
                                 !.was = @ \ (ids \ VisibleArticles)]
    BY <1>1 DEF FeverWithIds
  <1>3. c.at = "fetch" /\ Stored' = Stored
    BY <1>1 DEF FeverWithIds, Stored
  <1>4. ids = {} => c.unread \subseteq c.cache
    <2>1. FeverItemLimit \in Nat \ {0} /\ c.unread \ c.cache \in SUBSET Stored
      BY <1>1, ReadingConstants DEF ReadingInv, ClientFits
    <2> QED BY <1>1, <2>1, LowestIsThere DEF ReadingInv, ListsFit
  <1> HIDE DEF ids
  <1>5. ItemsWithIds(ids) \subseteq Stored /\ Stored \subseteq Id
    BY StoredType DEF ItemsWithIds, VisibleArticles, ReadingInv, ListsFit
  <1>6. c.unread = c.was /\ c.cache \cup c.unread \subseteq Stored
    BY <1>1 DEF ReadingInv, ClientFits
  <1>7. CASE ids = {}
    <2>1. client' = [c EXCEPT !.at = "synced"]
      BY <1>2, <1>7
    <2>2. client' \in Client /\ client'.cache = c.cache /\ client'.unread = c.unread /\ client'.was = c.was
      BY <2>1 DEF Client
    <2>3. ClientFits'
      BY <1>3, <1>4, <1>6, <1>7, <2>2 DEF ClientFits
    <2> QED BY <2>3, ClientStep DEF FeverWithIds, ReadingInv
  <1>8. CASE ids # {}
    <2>1. client' = [c EXCEPT !.cache = @ \cup ItemsWithIds(ids),
                              !.unread = @ \ (ids \ VisibleArticles),
                              !.was = @ \ (ids \ VisibleArticles)]
      BY <1>2, <1>8
    <2>2. client' \in Client /\ client'.cache = c.cache \cup ItemsWithIds(ids) /\ client'.at = "fetch"
          /\ client'.unread = c.unread \ (ids \ VisibleArticles)
          /\ client'.was = c.was \ (ids \ VisibleArticles)
      BY <1>3, <1>5, <2>1 DEF Client
    <2>3. ClientFits'
      BY <1>3, <1>5, <1>6, <2>2 DEF ClientFits
    <2> QED BY <2>3, ClientStep DEF FeverWithIds, ReadingInv
  <1> QED BY <1>7, <1>8

LEMMA FeverMarkGroupKeeps ==
    ASSUME ReadingInv, NEW c \in Folder, FeverMarkGroup(c) PROVE ReadingInv'
  <1>1. PICK n \in FeverCategoryFor(c), before \in FeverBefore :
          mark' = [at |-> "found", group |-> c, name |-> n, before |-> before, renamed |-> FALSE]
    BY DEF FeverMarkGroup
  <1>2. n = name[c] /\ c \in Live
    <2>1. PICK f \in Subscribed : filed[f] = c /\ n = name[c]
      BY <1>1 DEF FeverCategoryFor
    <2> QED BY <2>1 DEF ReadingInv, FoldersFit, Subscribed
  <1>3. n \in Bucket
    BY <1>2 DEF ReadingInv, FoldersFit, Live, Bucket
  <1>4. before \in Nat
    BY <1>1 DEF FeverBefore, ReadingInv, ClientFits, Client
  <1>5. mark' \in Mark
    BY <1>1, <1>3, <1>4 DEF Mark
  <1>6. UNCHANGED <<published, carried, state, filed, name, tab, client>> /\ Watched /\ Act
    BY DEF FeverMarkGroup
  <1>7. MarkFits'
    BY <1>1, <1>2, <1>5, <1>6 DEF MarkFits, Live
  <1> QED BY <1>6, <1>7, ListsKept, FoldersKept, TabKept, ClientKept, ActFits DEF ReadingInv


-----------------------------------------------------------------------------
(* Going through a list.                                                   *)

LEMMA NoTabFits == NoTab \in Tab /\ NoTab.how = "closed" /\ NoTab.shown = {} /\ NoTab.was = {}
  <1>1. Everything \in Markable
    BY DEF Everything, Markable
  <1> QED BY <1>1 DEF NoTab, Tab

\* A list opened: nothing has left it yet.
LEMMA Opened ==
    ASSUME NEW how, NEW list \in Markable, NEW at, NEW shown \in SUBSET Stored, ListsFit,
           Open(how, list, at, shown), how \in {"pages", "article", "ended"}, at \in Seq(Int),
           tab.how = "closed", Watched
    PROVE  /\ tab' \in Tab /\ tab' = [how |-> how, list |-> list, at |-> at, shown |-> shown,
                                      was |-> Filter(list, FALSE)]
           /\ tab'.shown \cup tab'.was \subseteq Stored /\ left' = {}
  <1>1. Filter(list, FALSE) \subseteq Stored /\ Stored \subseteq Id
    BY ListIsStored, StoredType DEF ListsFit
  <1> QED BY <1>1 DEF Open, Tab, Watched

LEMMA RenderStreamKeeps ==
    ASSUME ReadingInv, NEW list \in Walked, RenderStream(list) PROVE ReadingInv'
  <1> DEFINE S == Filter(list, FALSE)
             page == Newest(S, PageSize)
  <1>1. S \in SUBSET Stored /\ page \subseteq S /\ list \in Markable /\ PageSize \in Nat \ {0}
    BY ListIsStored, ReadingConstants DEF Newest
  <1>2. /\ Act /\ tab.how = "closed" /\ Watched
        /\ UNCHANGED <<published, carried, state, filed, name, client, mark>>
    BY DEF RenderStream
  <1>3. S' = S /\ Stored' = Stored /\ \A a : Position(a)' = Position(a)
    BY <1>2 DEF Filter, VisibleArticles, Subscribed, CategoryOf, Stored, Position, SortKey
  <1>4. TabFits'
    <2>1. CASE Cardinality(S) > PageSize
      <3>1. PICK m \in page : /\ Last(page) = Position(m)
                              /\ \A a \in S : a \in page \/ Before(Position(a), Position(m))
        <4>1. S # {}
          BY <1>1, <2>1, LongIsThere
        <4> QED BY <1>1, <4>1, PageEnds DEF ReadingInv, ListsFit
      <3>2. Position(m) \in Seq(Int) /\ Position(m) # <<>>
        BY <1>1, <3>1, StoredType DEF ReadingInv, ListsFit
      <3>3. Open("pages", list, Position(m), page)
        BY <2>1, <3>1 DEF RenderStream
      <3> HIDE DEF page, S
      <3>4. /\ tab' \in Tab /\ left' = {} /\ tab'.shown \cup tab'.was \subseteq Stored
            /\ tab' = [how |-> "pages", list |-> list, at |-> Position(m), shown |-> page, was |-> S]
        BY <1>1, <1>2, <3>2, <3>3, Opened DEF ReadingInv, S
      <3>5. tab'.how = "pages" /\ tab'.list = list /\ tab'.at = Position(m) /\ tab'.shown = page /\ tab'.was = S
        BY <3>4
      <3>6. Ahead(tab, FALSE, {}, tab.at)'
        BY <1>3, <3>1, <3>4, <3>5 DEF Ahead, S
      <3> QED BY <1>3, <3>2, <3>4, <3>5, <3>6 DEF TabFits, NothingSkipped
    <2>2. CASE ~(Cardinality(S) > PageSize)
      <3>1. page = S
        BY <1>1, <2>2, ShortPage DEF ReadingInv, ListsFit
      <3>2. Open("ended", list, <<>>, page)
        BY <2>2 DEF RenderStream
      <3> HIDE DEF page, S
      <3>3. <<>> \in Seq(Int) /\ page \in SUBSET Stored
        BY <1>1
      <3>4. /\ tab' \in Tab /\ left' = {} /\ tab'.shown \cup tab'.was \subseteq Stored
            /\ tab' = [how |-> "ended", list |-> list, at |-> <<>>, shown |-> page, was |-> S]
        BY <1>1, <1>2, <3>2, <3>3, Opened DEF ReadingInv, S
      <3> QED BY <1>3, <3>1, <3>4 DEF TabFits, NothingSkipped
    <2> QED BY <2>1, <2>2
  <1> QED BY <1>2, <1>4, ListsKept, FoldersKept, ClientKept, MarkKept, ActFits DEF ReadingInv

\* The rows of the next page are shown, and what is left of the list is below them.
LEMMA NextPageKeeps == ASSUME ReadingInv, NextPage PROVE ReadingInv'
  <1>0. PICK t \in Tab : t = tab
    BY DEF ReadingInv, TabFits
  <1> DEFINE S == Filter(t.list, FALSE)
             rest == Below(S, t.at)
             page == Newest(rest, PageSize)
  <1>1. S \in SUBSET Stored /\ rest \in SUBSET Stored /\ page \subseteq rest /\ PageSize \in Nat \ {0}
    BY ListIsStored, ReadingConstants DEF Newest, Below
  <1>2. /\ t.how = "pages" /\ Watched
        /\ UNCHANGED <<published, carried, state, filed, name, client, mark, acts>>
        /\ tab' = IF Cardinality(rest) > PageSize
                  THEN [t EXCEPT !.at = Last(page), !.shown = @ \cup page]
                  ELSE [t EXCEPT !.how = "ended", !.shown = @ \cup page]
    BY <1>0 DEF NextPage
  <1>3. S' = S /\ Stored' = Stored /\ \A a : Position(a)' = Position(a)
    BY <1>2 DEF Filter, VisibleArticles, Subscribed, CategoryOf, Stored, Position, SortKey
  <1>4. left \subseteq left' /\ left' \subseteq Id
    <2>1. left' = left \cup Leaving(t)
      BY <1>0, <1>2 DEF Watched
    <2> QED BY <1>0, <2>1 DEF Leaving, ReadingInv, TabFits, Tab
  <1>5. \A a \in t.was \ left' : a \in S /\ (a \in t.shown \/ a \in rest)
    BY <1>0, <1>2, <1>4 DEF ReadingInv, TabFits, Ahead, Below
  <1>6. t.shown \cup t.was \subseteq Stored /\ Stored \subseteq Id
    BY <1>0, StoredType DEF ReadingInv, TabFits, ListsFit
  <1> HIDE DEF page, rest
  <1>7. TabFits'
    <2>1. CASE Cardinality(rest) > PageSize
      <3>1. PICK m \in page : /\ Last(page) = Position(m)
                              /\ \A a \in rest : a \in page \/ Before(Position(a), Position(m))
        <4>1. rest # {}
          BY <1>1, <2>1, LongIsThere
        <4> QED BY <1>1, <4>1, PageEnds DEF ReadingInv, ListsFit, page
      <3>2. Position(m) \in Seq(Int) /\ Position(m) # <<>>
        BY <1>1, <3>1, StoredType DEF ReadingInv, ListsFit
      <3>3. tab' = [t EXCEPT !.at = Position(m), !.shown = @ \cup page]
        BY <1>2, <2>1, <3>1
      <3>4. tab' \in Tab /\ tab'.how = "pages" /\ tab'.list = t.list /\ tab'.at = Position(m)
            /\ tab'.shown = t.shown \cup page /\ tab'.was = t.was
        BY <1>1, <1>2, <1>6, <3>2, <3>3 DEF Tab
      <3>5. \A a \in t.was \ left' : a \in S' /\ (a \in tab'.shown \/ Before(Position(a)', Position(m)))
        BY <1>3, <1>5, <3>1, <3>4
      <3> HIDE DEF S
      <3>6. Ahead(tab, FALSE, {}, tab.at)'
        BY <3>4, <3>5 DEF Ahead, S
      <3> QED BY <1>1, <1>3, <1>4, <1>6, <3>2, <3>4, <3>6 DEF TabFits, NothingSkipped
    <2>2. CASE ~(Cardinality(rest) > PageSize)
      <3>1. page = rest
        BY <1>1, <2>2, ShortPage DEF ReadingInv, ListsFit, page
      <3>2. tab' = [t EXCEPT !.how = "ended", !.shown = @ \cup page]
        BY <1>2, <2>2
      <3>3. tab' \in Tab /\ tab'.how = "ended" /\ tab'.shown = t.shown \cup page /\ tab'.was = t.was
        BY <1>1, <1>6, <3>2 DEF Tab
      <3> QED BY <1>1, <1>3, <1>4, <1>5, <1>6, <3>1, <3>3 DEF TabFits, NothingSkipped
    <2> QED BY <2>1, <2>2
  <1> QED BY <1>2, <1>7, ListsKept, FoldersKept, ClientKept, MarkKept DEF ReadingInv

\* Marking an article read takes it off no list of what was read a moment ago.
LEMMA StillOnTheList ==
    ASSUME ListsFit, NEW a, SetRead(a, TRUE), NEW list,
           UNCHANGED <<published, carried, filed, name>>
    PROVE  Filter(list, TRUE) \subseteq Filter(list, TRUE)' /\ Filter(list, FALSE) \subseteq Filter(list, TRUE)
  <1>1. a \in Stored /\ Stored \subseteq Id /\ state \in [Id -> Row]
    BY StoredType DEF SetRead, VisibleArticles, ListsFit
  <1>2. PICK r \in Row : r = state[a] /\ RowFits(r)
    BY <1>1 DEF ListsFit
  <1>3. PICK w : w = [r EXCEPT !.row = TRUE, !.read = TRUE, !.lapsed = r.lapsed /\ TRUE]
    OBVIOUS
  <1>4. w.row /\ (w.lapsed => r.lapsed)
    BY <1>2, <1>3 DEF Row
  <1>5. state' = [state EXCEPT ![a] = w]
    BY <1>2, <1>3 DEF SetRead
  <1>9. \A b \in Stored : state'[b] = IF b = a THEN w ELSE state[b]
    BY <1>1, <1>5
  <1>8. \A b \in Stored : state[b].row => state'[b].row
    BY <1>4, <1>9
  <1>10. \A b \in Stored : state'[b].lapsed => state[b].lapsed
    BY <1>2, <1>4, <1>9
  <1>11. \A b \in Stored : state[b].lapsed => state[b].read
    BY <1>1 DEF ListsFit, RowFits
  <1>6. Stored' = Stored /\ Subscribed' = Subscribed /\ carried' = carried
        /\ \A f : CategoryOf(f)' = CategoryOf(f)
    BY DEF Stored, Subscribed, CategoryOf
  <1>7. VisibleArticles \subseteq VisibleArticles' /\ VisibleArticles \subseteq Stored
    BY <1>6, <1>8 DEF VisibleArticles
  <1>12. ASSUME NEW b \in Filter(list, FALSE) PROVE b \in Filter(list, TRUE)
    BY <1>7, <1>11 DEF Filter
  <1>13. ASSUME NEW b \in Filter(list, TRUE) PROVE b \in Filter(list, TRUE)'
    <2>1. b \in VisibleArticles /\ b \in Stored /\ b \in VisibleArticles'
      BY <1>7 DEF Filter
    <2>2. UnreadOnly(list) => ~state'[b].read \/ ~state'[b].lapsed
      BY <1>10, <1>11, <2>1 DEF Filter
    <2> QED BY <1>6, <2>1, <2>2 DEF Filter
  <1> QED BY <1>12, <1>13

\* The page of an article is shown, and links to what everything else below it is below.
LEMMA ShowingFits ==
    ASSUME ListsFit, NEW t \in Tab, NEW a \in Stored, NEW u \in Showing(t, a)
    PROVE  LET below == Below(Filter(t.list, TRUE), Position(a)) IN
           /\ u \in Tab /\ u.list = t.list /\ u.was = t.was /\ u.shown = t.shown \cup {a}
           /\ \/ u.how = "ended" /\ below = {}
              \/ /\ u.how = "article"
                 /\ \E m \in Stored : u.at = <<m>> /\ \A b \in below : b = m \/ Before(Position(b), Position(m))
  <1> DEFINE below == Below(Filter(t.list, TRUE), Position(a))
             older == Newest(below, 1)
             seen == [t EXCEPT !.shown = @ \cup {a}]
  <1>1. below \in SUBSET Stored /\ Stored \subseteq Id /\ Id \subseteq Nat
    BY ListIsStored, StoredType DEF Below, ListsFit
  <1>2. seen \in Tab /\ seen.list = t.list /\ seen.was = t.was /\ seen.shown = t.shown \cup {a}
    BY <1>1 DEF Tab
  <1>3. u \in IF older = {} THEN {[seen EXCEPT !.how = "ended", !.at = <<>>]}
              ELSE {[seen EXCEPT !.how = "article", !.at = <<m>>] : m \in older}
    BY DEF Showing, Older
  <1> HIDE DEF below, older, seen
  <1>4. CASE older = {}
    <2>1. below = {}
      BY <1>1, <1>4, PageEnds DEF older, ListsFit
    <2>2. u = [seen EXCEPT !.how = "ended", !.at = <<>>]
      BY <1>3, <1>4
    <2>0. <<>> \in Seq(Int)
      OBVIOUS
    <2>3. u \in Tab /\ u.how = "ended" /\ u.list = seen.list /\ u.was = seen.was /\ u.shown = seen.shown
      BY <1>2, <2>0, <2>2 DEF Tab
    <2> QED BY <1>2, <2>1, <2>3 DEF below
  <1>5. CASE older # {}
    <2>1. PICK m \in older : u = [seen EXCEPT !.how = "article", !.at = <<m>>]
      BY <1>3, <1>5
    <2>2. m \in below /\ \A b \in below : b = m \/ Before(Position(b), Position(m))
      BY <1>1, <2>1, TheFirst DEF older, ListsFit
    <2>3. m \in Stored /\ <<m>> \in Seq(Int)
      BY <1>1, <2>2
    <2>4. u \in Tab /\ u.how = "article" /\ u.at = <<m>> /\ u.list = seen.list /\ u.was = seen.was
          /\ u.shown = seen.shown
      BY <1>2, <2>1, <2>3 DEF Tab
    <2> QED BY <1>2, <2>2, <2>3, <2>4 DEF below
  <1> QED BY <1>4, <1>5

\* A walker who has been shown all of the list, but for what is below the article at hand.
LEMMA WalkFits ==
    ASSUME ListsFit, NEW t \in Tab, NEW a \in Stored, tab' \in Showing(t, a), Stored' = Stored,
           \A b : Position(b)' = Position(b), t.shown \cup t.was \subseteq Stored, left' \subseteq Id,
           \A b \in t.was \ left' :
              /\ b \in Filter(t.list, TRUE)'
              /\ b \in t.shown \cup {a} \/ b \in Below(Filter(t.list, TRUE), Position(a))
    PROVE  TabFits'
  <1> DEFINE below == Below(Filter(t.list, TRUE), Position(a))
  <1>1. PICK u : u = tab'
    OBVIOUS
  <1>2. /\ u \in Tab /\ u.list = t.list /\ u.was = t.was /\ u.shown = t.shown \cup {a}
        /\ \/ u.how = "ended" /\ below = {}
           \/ /\ u.how = "article"
              /\ \E m \in Stored : u.at = <<m>> /\ \A b \in below : b = m \/ Before(Position(b), Position(m))
    BY <1>1, ShowingFits
  <1> HIDE DEF below
  <1>3. CASE u.how = "ended" /\ below = {}
    BY <1>1, <1>2, <1>3 DEF TabFits, NothingSkipped, below
  <1>4. CASE u.how = "article" /\ \E m \in Stored : u.at = <<m>> /\ \A b \in below : b = m \/ Before(Position(b), Position(m))
    <2>1. PICK m \in Stored : u.at = <<m>> /\ \A b \in below : b = m \/ Before(Position(b), Position(m))
      BY <1>4
    <2>2. tab'.list = t.list /\ tab'.was = t.was /\ tab'.shown = t.shown \cup {a}
      BY <1>1, <1>2
    <2>4. \A b \in t.was \ left' : /\ b \in Filter(t.list, TRUE)'
                                  /\ (b \in tab'.shown \cup {m} \/ Before(Position(b)', Position(m)'))
      BY <2>1, <2>2 DEF below
    <2>3. Ahead(tab, TRUE, {m}, Position(m))'
      BY <2>2, <2>4 DEF Ahead
    <2> QED BY <1>1, <1>2, <1>4, <2>1, <2>3 DEF TabFits, NothingSkipped
  <1> QED BY <1>2, <1>3, <1>4

LEMMA ServeArticleKeeps ==
    ASSUME ReadingInv, NEW list \in Walked, NEW a, ServeArticle(list, a) PROVE ReadingInv'
  <1> DEFINE S == Filter(list, FALSE)
             t == [NoTab EXCEPT !.list = list, !.was = S]
  <1>1. /\ Act /\ tab.how = "closed" /\ a \in Newest(S, 1) /\ Watched
        /\ tab' \in Showing(t, a) /\ SetRead(a, TRUE)
        /\ UNCHANGED <<published, carried, filed, name, client, mark>>
    BY DEF ServeArticle
  <1>2. S \in SUBSET Stored /\ list \in Markable /\ Stored \subseteq Id
    BY ListIsStored, ReadingConstants, StoredType DEF ReadingInv, ListsFit
  <1>3. a \in S /\ \A b \in S : b = a \/ Before(Position(b), Position(a))
    BY <1>1, <1>2, TheFirst DEF ReadingInv, ListsFit
  <1>4. S \subseteq Filter(list, TRUE) /\ S \subseteq Filter(list, TRUE)'
    BY <1>1, StillOnTheList DEF ReadingInv
  <1>5. RowsFit'
    BY <1>1, ArticleWritten DEF ReadingInv
  <1>6. ListsFit' /\ Stored' = Stored /\ \A b : Position(b)' = Position(b)
    BY <1>1, <1>5 DEF ReadingInv, ListsFit, RowsFit, PublishedFits, Stored, Position, SortKey
  <1>7. TabFits'
    <2> HIDE DEF S
    <2>1. t \in Tab /\ t.list = list /\ t.was = S /\ t.shown = {}
      BY <1>2, NoTabFits DEF Tab
    <2> HIDE DEF t
    <2>2. left' = {}
      BY <1>1 DEF Watched
    <2>3. \A b \in S : b = a \/ b \in Below(Filter(list, TRUE), Position(a))
      BY <1>3, <1>4 DEF Below
    <2> QED BY <1>1, <1>2, <1>3, <1>4, <1>6, <2>1, <2>2, <2>3, WalkFits DEF ReadingInv
  <1>8. FoldersFit' /\ ClientFits' /\ MarkFits' /\ acts' \in 0 .. MaxActs
    BY <1>1, <1>6, FoldersKept, ClientKept, MarkKept, ActFits DEF ReadingInv
  <1> QED BY <1>6, <1>7, <1>8 DEF ReadingInv

\* To the article linked to: what it was above is still below it, or was passed.
LEMMA NextArticleKeeps == ASSUME ReadingInv, NextArticle PROVE ReadingInv'
  <1>0. PICK t \in Tab : t = tab
    BY DEF ReadingInv, TabFits
  <1>1. t.how = "article" /\ Watched
        /\ UNCHANGED <<published, carried, filed, name, client, mark, acts>>
    BY <1>0 DEF NextArticle
  <1>2. PICK m \in Stored : t.at = <<m>> /\ Ahead(t, TRUE, {m}, Position(m))
    BY <1>0, <1>1 DEF ReadingInv, TabFits
  <1>3. SetRead(m, TRUE) /\ tab' \in Showing(t, m)
    <2>1. PICK n \in Stored : t.at = <<n>> /\ SetRead(n, TRUE) /\ tab' \in Showing(t, n)
      BY <1>0 DEF NextArticle
    <2>2. n = m
      BY <1>2, <2>1
    <2> QED BY <2>1, <2>2
  <1>4. Stored \subseteq Id /\ t.shown \cup t.was \subseteq Stored
    BY <1>0, StoredType DEF ReadingInv, ListsFit, TabFits
  <1>5. left' = left \cup Leaving(t)
    BY <1>0, <1>1 DEF Watched
  <1>6. left' \subseteq Id /\ \A a \in t.was \ left' : a \in Filter(t.list, TRUE)'
    <2>1. (t.how = "article") = TRUE
      BY <1>1
    <2>2. \A a \in t.was \ left' : a \in Filter(t.list, t.how = "article")'
      BY <1>5 DEF Leaving
    <2>3. left' \subseteq Id
      BY <1>0, <1>4, <1>5 DEF Leaving, ReadingInv, TabFits
    <2> QED BY <2>1, <2>2, <2>3
  <1>7. \A a \in t.was \ left' : a \in t.shown \cup {m} \/ a \in Below(Filter(t.list, TRUE), Position(m))
    BY <1>2, <1>5 DEF Ahead, Below
  <1>8. RowsFit'
    BY <1>3, ArticleWritten DEF ReadingInv
  <1>9. ListsFit' /\ Stored' = Stored /\ \A b : Position(b)' = Position(b)
    BY <1>1, <1>8 DEF ReadingInv, ListsFit, RowsFit, PublishedFits, Stored, Position, SortKey
  <1>10. TabFits'
    BY <1>2, <1>3, <1>4, <1>6, <1>7, <1>9, WalkFits DEF ReadingInv
  <1>11. FoldersFit' /\ ClientFits' /\ MarkFits' /\ acts' = acts
    BY <1>1, <1>9, FoldersKept, ClientKept, MarkKept DEF ReadingInv
  <1> QED BY <1>9, <1>10, <1>11 DEF ReadingInv


-----------------------------------------------------------------------------
(* Every step, and what follows.                                           *)

LEMMA InitInv == Init => ReadingInv
  <1> SUFFICES ASSUME Init PROVE ReadingInv
    OBVIOUS
  <1>1. PICK f \in Feed, c \in Folder, n \in Name :
          /\ carried = [g \in Feed |-> IF g = f THEN {2} ELSE {}]
          /\ filed = [g \in Feed |-> IF g = f THEN c ELSE NoFolder]
          /\ name = [d \in Folder |-> IF d = c THEN n ELSE Gone]
    BY DEF Init
  <1>2. published = <<NoDate, NoDate>> /\ state = [a \in Id |-> NoRow] /\ tab = NoTab /\ client = Fresh
        /\ mark = NoMark /\ acts = 0 /\ left = {}
    BY DEF Init
  <1>3. PublishedFits /\ Stored = 1 .. 2
    <2>1. published \in Seq(Dates \cup {NoDate}) /\ Len(published) = 2
      BY <1>2
    <2>2. 2 \in 2 .. MaxArticles
      BY ReadingConstants
    <2> QED BY <2>1, <2>2 DEF PublishedFits, Stored
  <1>4. ListsFit
    <2>1. carried \in [Feed -> SUBSET Stored]
      BY <1>1, <1>3
    <2>2. RowFits(NoRow)
      BY DEF RowFits, NoRow, Row
    <2>3. state \in [Id -> Row] /\ \A a \in Id : RowFits(state[a])
      BY <1>2, <2>2 DEF RowFits
    <2> QED BY <1>3, <2>1, <2>3 DEF ListsFit
  <1>5. FoldersFit
    <2>1. \A d \in Live : d = c
      BY <1>1 DEF Live
    <2>2. c \in Live
      BY <1>1, ReadingConstants DEF Live
    <2>3. Subscribed = Feed
      BY <1>1, ReadingConstants DEF Subscribed
    <2> QED BY <1>1, <2>1, <2>2, <2>3, ReadingConstants DEF FoldersFit
  <1>6. TabFits
    BY <1>2, NoTabFits DEF TabFits, NothingSkipped
  <1>7. ClientFits /\ MarkFits
    <2>1. Fresh \in Client
      BY DEF Fresh, Client
    <2> QED BY <1>2, <2>1, NoMarkFits DEF ClientFits, MarkFits, Fresh
  <1>8. acts \in 0 .. MaxActs
    BY <1>2, ReadingConstants
  <1> QED BY <1>4, <1>5, <1>6, <1>7, <1>8 DEF ReadingInv

LEMMA NextInv == ReadingInv /\ [Next]_vars => ReadingInv'
  <1> SUFFICES ASSUME ReadingInv, [Next]_vars PROVE ReadingInv'
    OBVIOUS
  <1>1. CASE Readers
    BY <1>1, ToggleKeeps, HalfAnHourKeeps, FeverMarkItemKeeps, SaveArticleKeeps, HandleMarkReadKeeps, RenderStreamKeeps,
       ServeArticleKeeps, NextPageKeeps, NextArticleKeeps, HandleMarkScrolledReadKeeps DEF Readers
  <1>2. CASE Arrivals
    BY <1>2, UpsertArticleKeeps, InsertFeedItemKeeps, UpdateArticleMetadataKeeps DEF Arrivals
  <1>3. CASE Folders
    BY <1>3, CreateCategoryKeeps, RenameCategoryKeeps, DeleteCategoryKeeps, HandleUnsubscribeFeedKeeps,
       UpdateFeedKeeps DEF Folders
  <1>4. CASE Fever
    BY <1>4, BeginRoundKeeps, FeverItemsKeeps, FeverUnreadIdsKeeps, FeverWithIdsKeeps, FeverMarkFeedKeeps,
       FeverMarkAllKeeps, MarkGroupReadKeeps, FeverMarkGroupKeeps DEF Fever
  <1>5. CASE UNCHANGED vars
    <2>1. UNCHANGED <<published, carried, state, filed, name, tab, client, mark, acts, left>>
      BY <1>5 DEF vars
    <2>2. \A list, within : Filter(list, within)' = Filter(list, within)
      BY <2>1 DEF Filter, VisibleArticles, Subscribed, CategoryOf, Stored
    <2>3. Stored' = Stored /\ \A a : Position(a)' = Position(a)
      BY <2>1 DEF Stored, Position, SortKey
    <2>4. TabFits'
      BY <2>1, <2>2, <2>3 DEF ReadingInv, TabFits, Ahead, NothingSkipped
    <2> QED BY <2>1, <2>3, <2>4, ListsKept, FoldersKept, ClientKept, MarkKept DEF ReadingInv
  <1> QED BY <1>1, <1>2, <1>3, <1>4, <1>5 DEF Next

LEMMA Invariance == Spec => []ReadingInv
  BY InitInv, NextInv, PTL DEF Spec

\* The tables hold what their constraints allow, whatever readers, feeds and clients do
\* at the same time: in particular no two folders ever share a name, and no feed is
\* filed under one that is gone (store/categories.go, 00013_categories.sql).
THEOREM TypeCorrect == Spec => []TypeOK
  <1>1. ReadingInv => TypeOK
    <2> SUFFICES ASSUME ReadingInv PROVE TypeOK
      OBVIOUS
    <2>1. /\ published \in Seq(Dates \cup {NoDate}) /\ Len(published) <= MaxArticles
          /\ carried \in [Feed -> SUBSET Stored] /\ state \in [Id -> Row]
      BY ReadingConstants DEF ReadingInv, ListsFit, PublishedFits
    <2>2. \A a \in Id : (state[a].read \/ state[a].saved => state[a].row)
                        /\ (state[a].starred => state[a].saved) /\ (state[a].lapsed => state[a].read)
      BY DEF ReadingInv, ListsFit, RowFits
    <2>3. /\ tab \in Tab /\ tab.shown \cup tab.was \subseteq Stored /\ left \subseteq Id
          /\ client \in Client /\ client.cache \cup client.unread \cup client.was \subseteq Stored
          /\ mark \in Mark /\ acts \in 0 .. MaxActs
      BY DEF ReadingInv, TabFits, ClientFits, MarkFits
    <2> QED BY <2>1, <2>2, <2>3 DEF TypeOK, ReadingInv, FoldersFit
  <1> QED BY <1>1, Invariance, PTL

\* Whoever goes through a list to its end, by pages of any length or by the links drawn
\* from one article to the next, has been shown all that was on it and neither left it
\* nor moved nor was passed by a link whose article was dated after it was drawn
\* (store/reading.go Stream's keyset, NeighborsIn; server/reading.go serveArticle).
THEOREM NothingIsSkipped == Spec => []NothingSkipped
  <1>1. ReadingInv => NothingSkipped
    BY DEF ReadingInv, TabFits
  <1> QED BY <1>1, Invariance, PTL

\* A Fever client that has ended a round holds every article it was told is unread,
\* however many items a response may carry (store/fever.go).
THEOREM ClientHoldsUnread == Spec => []SyncedClientHoldsUnread
  <1>1. ReadingInv => SyncedClientHoldsUnread
    BY DEF ReadingInv, ClientFits, SyncedClientHoldsUnread
  <1> QED BY <1>1, Invariance, PTL

\* A group mark reads nothing but what the folder it names carries, unless that folder
\* was renamed or deleted under it (server/fever.go feverMarkGroup).
LEMMA ByNameIsByFolder ==
    ASSUME ReadingInv, mark.at = "found", ~mark.renamed, NEW before,
           NEW a \in MarkReadIn([kind |-> "category", of |-> mark.name], before)
    PROVE  a \in CarriedUnder(mark.group)
  <1>1. PICK f \in Subscribed : a \in carried[f] /\ CategoryOf(f) = mark.name
    BY DEF MarkReadIn, Filter
  <1>2. mark.group \in Live /\ name[mark.group] = mark.name /\ mark.name \in Name
    BY DEF ReadingInv, MarkFits, FoldersFit, Live
  <1>3. filed[f] # NoFolder /\ name[filed[f]] = mark.name
    BY <1>1, <1>2, ReadingConstants DEF CategoryOf
  <1>4. f \in Feed /\ filed[f] \in Live
    BY <1>3 DEF Subscribed, ReadingInv, FoldersFit
  <1>5. filed[f] = mark.group
    BY <1>2, <1>3, <1>4 DEF ReadingInv, FoldersFit
  <1> QED BY <1>1, <1>4, <1>5 DEF CarriedUnder

\* Only one step ends a mark.
LEMMA OnlyMarkGroupReadEnds ==
    ASSUME ReadingInv, [Next]_vars, mark.at = "found", mark' = NoMark
    PROVE  MarkGroupRead
  <1>1. mark' # mark
    BY NoMarkFits
  <1>2. ~Noted
    <2> SUFFICES ASSUME Noted PROVE FALSE
      OBVIOUS
    <2>1. mark'.at = "found"
      BY DEF Noted, ReadingInv, MarkFits, Mark
    <2> QED BY <2>1, NoMarkFits
  <1>3. ~Readers
    BY <1>1 DEF Readers, Toggle, HalfAnHour, FeverMarkItem, SaveArticle, HandleMarkRead, RenderStream, ServeArticle,
                NextPage, NextArticle, HandleMarkScrolledRead
  <1>4. ~Arrivals
    BY <1>1 DEF Arrivals, UpsertArticle, InsertFeedItem, UpdateArticleMetadata
  <1>5. ~Folders
    BY <1>1, <1>2 DEF Folders, CreateCategory, RenameCategory, DeleteCategory, HandleUnsubscribeFeed, UpdateFeed
  <1>6. ASSUME Fever PROVE MarkGroupRead
    BY <1>1, <1>6 DEF Fever, BeginRound, FeverItems, FeverUnreadIds, FeverWithIds, FeverMarkFeed,
                      FeverMarkAll, FeverMarkGroup
  <1> QED BY <1>1, <1>3, <1>4, <1>5, <1>6 DEF Next, vars

\* The same of every step of the specification.
THEOREM GroupMarkStays == Spec => GroupMarkStaysInGroup
  <1> DEFINE Step == mark.at = "found" /\ mark' = NoMark /\ ~mark.renamed =>
                \A a \in Id : ~state[a].read /\ state'[a].read => a \in CarriedUnder(mark.group)
  <1>1. ReadingInv /\ [Next]_vars => Step
    <2> SUFFICES ASSUME ReadingInv, [Next]_vars, mark.at = "found", mark' = NoMark, ~mark.renamed,
                        NEW a \in Id, ~state[a].read, state'[a].read
                 PROVE  a \in CarriedUnder(mark.group)
      OBVIOUS
    <2>1. MarkRead(MarkReadIn([kind |-> "category", of |-> mark.name], mark.before))
      BY OnlyMarkGroupReadEnds DEF MarkGroupRead
    <2>2. a \in MarkReadIn([kind |-> "category", of |-> mark.name], mark.before)
      BY <2>1, Marked DEF ReadingInv
    <2> QED BY <2>2, ByNameIsByFolder
  <1>2. ReadingInv /\ [Next]_vars => [Step]_vars
    BY <1>1
  <1> QED BY <1>2, Invariance, PTL DEF Spec, GroupMarkStaysInGroup


=============================================================================
