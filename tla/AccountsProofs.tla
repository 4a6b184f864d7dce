---------------------------- MODULE AccountsProofs ----------------------------
(***************************************************************************)
(* What holds of a household's accounts for any number of accounts, names, *)
(* passwords and links, any browsers and shells, and any number of         *)
(* requests with their statements interleaved.                             *)
(***************************************************************************)
EXTENDS Accounts, TLAPS

-----------------------------------------------------------------------------
(* The inductive invariant, account by account, link by link, request by   *)
(* request and cookie by cookie.                                           *)

RowFits(u) ==
    /\ row[u].there => row[u].name \in Name /\ u < nextId
    /\ ~row[u].there => row[u] = NoRow
    /\ row[u].there /\ row[u].pw # 0 /\ u \notin crossed =>
          row[u].key = Key(row[u].name, row[u].pw)

LinkFits(k) ==
    /\ link[k].usable => link[k].user # 0
    /\ link[k].user # 0 => link[k].issued

\* What a request holds at each of its statements.
Fits(c) ==
    /\ req[c].at # "idle" => req[c].id \in User
    /\ req[c].at = "login" => req[c].old \in Password
    /\ req[c].at \in {"password.check", "password.set", "password.issue", "redeem"} =>
          req[c].name \in Name /\ req[c].new \in Password
    /\ req[c].at \in {"name.check", "name.set"} =>
          req[c].new \in Name /\ req[c].old \in Password
    /\ req[c].at = "redeem" =>
          /\ req[c].link \in Link
          /\ link[req[c].link].issued /\ link[req[c].link].user \in {0, req[c].id}
    /\ req[c].at = "migrate" =>
          req[c].id = SeedUser /\ req[c].name \in Name /\ req[c].new = ConfiguredPassword

\* A request that nobody overtook still knows the credentials it will write over.
WriterKnows(c) ==
    /\ req[c].at \in {"password.check", "password.set", "name.check", "name.set", "redeem",
                      "migrate"} /\ ~req[c].stale => row[req[c].id].there
    /\ req[c].at \in {"password.check", "password.set", "redeem", "migrate"} /\ ~req[c].stale =>
          row[req[c].id].name = req[c].name
    /\ req[c].at = "name.set" /\ ~req[c].stale => row[req[c].id].pw = req[c].old

\* An epoch that is still the account's was read with the password it still has.
SignerKnows(c) ==
    /\ req[c].at = "login" /\ req[c].id \notin gone =>
          /\ row[req[c].id].there /\ req[c].epoch <= row[req[c].id].epoch
          /\ req[c].epoch = row[req[c].id].epoch => req[c].old = row[req[c].id].pw
    /\ req[c].at = "password.issue" /\ req[c].id \notin gone =>
          row[req[c].id].there /\ (~req[c].stale => req[c].new = row[req[c].id].pw)

Good(c) == Fits(c) /\ WriterKnows(c) /\ SignerKnows(c)

SessionFits(c) ==
    jar[c] # NoSession /\ jar[c].user \notin gone =>
        /\ row[jar[c].user].there /\ jar[c].epoch <= row[jar[c].user].epoch
        /\ jar[c].epoch = row[jar[c].user].epoch /\ ~jar[c].raced =>
              jar[c].proved = row[jar[c].user].pw

AccountsInv ==
    /\ TypeOK
    /\ \A u \in User : RowFits(u)
    /\ \A k \in Link : LinkFits(k)
    /\ secret <= acts
    /\ \A c \in Actor : Good(c)
    /\ \A c \in Browser : SessionFits(c)

-----------------------------------------------------------------------------
(* Types.                                                                  *)

LEMMA Bounds ==
    /\ MaxUser \in Nat /\ MaxName \in Nat /\ MaxPassword \in Nat /\ MaxLink \in Nat
    /\ MaxActs \in Nat
    /\ User \subseteq Nat /\ Name \subseteq Nat /\ Password \subseteq Nat /\ Link \subseteq Nat
    /\ 1 \in User /\ 2 \in User /\ 1 \in Name /\ 2 \in Name /\ 1 \in Password
    /\ 0 \notin User /\ 0 \notin Name /\ 0 \notin Password /\ 0 \notin Link
    /\ User \subseteq 0 .. MaxUser /\ Name \subseteq 0 .. MaxName
    /\ Password \subseteq 0 .. MaxPassword /\ Link \subseteq 0 .. MaxLink
    /\ User = 1 .. MaxUser
  BY AccountsConstants DEF User, Name, Password, Link

LEMMA IdleType == Idle \in Request
  BY Bounds DEF Idle, Request, Step

LEMMA KeyType ==
    /\ \A n \in 0 .. MaxName, p \in 0 .. MaxPassword :
          Key(n, p) \in (0 .. MaxName) \X (0 .. MaxPassword)
    /\ NoKey \in (0 .. MaxName) \X (0 .. MaxPassword)
  BY Bounds DEF Key, NoKey

LEMMA NoRowType == NoRow \in Row
  BY Bounds, KeyType DEF NoRow, Row

LEMMA InitInv == Init => AccountsInv
  <1> SUFFICES ASSUME Init PROVE AccountsInv
    OBVIOUS
  <1> USE Bounds
  <1>1. row \in [User -> Row]
    <2> SUFFICES ASSUME NEW u \in User
                 PROVE  (IF u > 2 THEN NoRow
                         ELSE [there |-> TRUE, name |-> u, pw |-> 1, key |-> Key(u, 1),
                               admin |-> TRUE, epoch |-> 1]) \in Row
      BY DEF Init
    <2>1. CASE u > 2
      BY <2>1, NoRowType
    <2>2. CASE ~(u > 2)
      <3>1. u \in Name
        BY <2>2, AccountsConstants DEF Name
      <3> QED BY <2>2, <3>1, KeyType DEF Row
    <2> QED BY <2>1, <2>2
  <1>2. TypeOK
    <2>1. jar \in [Browser -> Session \cup {NoSession}]
      BY DEF Init, Session, SeedUser
    <2>2. req \in [Actor -> Request]
      BY IdleType DEF Init
    <2>3. link \in [Link -> [user : 0 .. MaxUser, usable : BOOLEAN, issued : BOOLEAN]]
      BY DEF Init, NoLink
    <2>4. nextId \in 1 .. MaxUser + 1
      BY AccountsConstants DEF Init
    <2>5. \A k \in Link : link[k].user # 0 => row[link[k].user].there
      BY DEF Init, NoLink
    <2>6. secret \in 0 .. MaxActs /\ acts \in 0 .. MaxActs
      BY DEF Init
    <2>7. crossed \subseteq User /\ gone \subseteq User
      BY DEF Init
    <2> QED BY ONLY <1>1, <2>1, <2>2, <2>3, <2>4, <2>5, <2>6, <2>7 DEF TypeOK
  <1>3. ASSUME NEW u \in User PROVE RowFits(u)
    <2>1. u > 2 => row[u] = NoRow
      BY DEF Init
    <2>2. ~(u > 2) => /\ row[u] = [there |-> TRUE, name |-> u, pw |-> 1, key |-> Key(u, 1),
                                   admin |-> TRUE, epoch |-> 1]
                      /\ u \in Name
      BY AccountsConstants DEF Init, Name
    <2> QED BY <2>1, <2>2 DEF RowFits, NoRow, Init
  <1>4. \A k \in Link : LinkFits(k)
    BY DEF Init, LinkFits, NoLink
  <1>5. \A c \in Actor : Good(c)
    BY DEF Init, Good, Fits, WriterKnows, SignerKnows, Idle
  <1>6. ASSUME NEW c \in Browser PROVE SessionFits(c)
    <2>1. row[SeedUser] = [there |-> TRUE, name |-> 1, pw |-> 1, key |-> Key(1, 1),
                           admin |-> TRUE, epoch |-> 1]
      BY DEF Init, SeedUser
    <2>2. jar[c] = NoSession \/ jar[c] = [user |-> SeedUser, epoch |-> 1, secret |-> 0,
                                          proved |-> 1, raced |-> FALSE]
      BY DEF Init
    <2> QED BY <2>1, <2>2 DEF SessionFits
  <1> QED BY <1>2, <1>3, <1>4, <1>5, <1>6 DEF AccountsInv, Init

-----------------------------------------------------------------------------
(* Steps that leave the tables alone.                                      *)

\* Only the request of c has moved, to one that holds what it should.
LEMMA Turn ==
    ASSUME AccountsInv, NEW c \in Actor,
           UNCHANGED <<row, nextId, link, jar, secret, history>>,
           acts' \in acts .. MaxActs, req' \in [Actor -> Request],
           \A d \in Actor \ {c} : req'[d] = req[d],
           Good(c)'
    PROVE  AccountsInv'
  <1>1. TypeOK'
    BY DEF AccountsInv, TypeOK, history
  <1>2. \A u \in User : RowFits(u)'
    BY DEF AccountsInv, RowFits, history
  <1>3. \A k \in Link : LinkFits(k)'
    BY DEF AccountsInv, LinkFits
  <1>4. (secret <= acts)'
    BY Bounds DEF AccountsInv, TypeOK
  <1>5. ASSUME NEW d \in Actor PROVE Good(d)'
    <2>1. CASE d # c
      <3>1. req'[d] = req[d] /\ Good(d)
        BY <2>1 DEF AccountsInv
      <3> QED BY <3>1 DEF Good, Fits, WriterKnows, SignerKnows, history
    <2> QED BY <2>1
  <1>6. \A d \in Browser : SessionFits(d)'
    BY DEF AccountsInv, SessionFits, history
  <1> QED BY <1>1, <1>2, <1>3, <1>4, <1>5, <1>6 DEF AccountsInv

\* Only the cookie of c has changed, and its request is answered.
LEMMA Cookie ==
    ASSUME AccountsInv, NEW c \in Browser,
           UNCHANGED <<row, nextId, link, secret, acts, history>>,
           jar' \in [Browser -> Session \cup {NoSession}],
           \A d \in Browser \ {c} : jar'[d] = jar[d],
           SessionFits(c)',
           req' = [req EXCEPT ![c] = Idle] \/ req' = req
    PROVE  AccountsInv'
  <1>1. TypeOK'
    BY IdleType DEF AccountsInv, TypeOK, history
  <1>2. \A u \in User : RowFits(u)'
    BY DEF AccountsInv, RowFits, history
  <1>3. \A k \in Link : LinkFits(k)'
    BY DEF AccountsInv, LinkFits
  <1>5. ASSUME NEW d \in Actor PROVE Good(d)'
    <2>1. req'[d] = Idle \/ req'[d] = req[d]
      BY DEF AccountsInv, TypeOK
    <2>2. Good(d)
      BY DEF AccountsInv
    <2>3. CASE req'[d] = Idle
      BY <2>3 DEF Good, Fits, WriterKnows, SignerKnows, Idle
    <2>4. CASE req'[d] = req[d]
      BY <2>2, <2>4 DEF Good, Fits, WriterKnows, SignerKnows, history
    <2> QED BY <2>1, <2>3, <2>4
  <1>6. ASSUME NEW d \in Browser PROVE SessionFits(d)'
    <2>1. CASE d # c
      BY <2>1 DEF AccountsInv, SessionFits, history
    <2> QED BY <2>1
  <1> QED BY <1>1, <1>2, <1>3, <1>5, <1>6 DEF AccountsInv

-----------------------------------------------------------------------------
(* Requests that begin.                                                    *)

LEMMA Begun ==
    ASSUME AccountsInv, NEW c \in Actor, NEW r \in Request, Begin(c, r),
           UNCHANGED unchangedUnlessAsked, Good(c)'
    PROVE  AccountsInv'
  <1>1. acts' \in acts .. MaxActs
    BY Bounds DEF AccountsInv, TypeOK, Begin
  <1>2. /\ req' \in [Actor -> Request]
        /\ \A d \in Actor \ {c} : req'[d] = req[d]
    BY DEF AccountsInv, TypeOK, Begin
  <1> QED BY <1>1, <1>2, Turn DEF unchangedUnlessAsked, history

\* Whoever is admitted is there, under a name.
LEMMA Admitted ==
    ASSUME AccountsInv, NEW c \in Browser, Admits(c)
    PROVE  /\ jar[c] \in Session /\ jar[c].user \in User
           /\ row[jar[c].user].there /\ row[jar[c].user].name \in Name
  <1>1. jar[c] \in Session /\ jar[c].user \in User
    BY DEF AccountsInv, TypeOK, Admits, Identify, Session
  <1> QED BY <1>1 DEF AccountsInv, RowFits, Admits

LEMMA SignInInv ==
    ASSUME AccountsInv, NEW c \in Browser, NEW u \in User, NEW p \in Password, SignIn(c, u, p)
    PROVE  AccountsInv'
  <1> PICK r : r = [Idle EXCEPT !.at = "login", !.id = u, !.old = p, !.epoch = row[u].epoch]
    OBVIOUS
  <1>1. row[u] \in Row /\ row[u].epoch \in Nat
    BY DEF AccountsInv, TypeOK, Row
  <1>2. r \in Request
    BY <1>1, IdleType, Bounds DEF Request, Idle, Step
  <1>3. /\ r.at = "login" /\ r.id = u /\ r.old = p /\ r.epoch = row[u].epoch
        /\ c \in Actor
    BY DEF Idle, Actor
  <1>4. Begin(c, r) /\ UNCHANGED unchangedUnlessAsked /\ row[u].there /\ row[u].pw = p
    BY DEF SignIn
  <1>5. req'[c] = r /\ row' = row
    BY <1>3, <1>4 DEF Begin, AccountsInv, TypeOK, unchangedUnlessAsked
  <1>6. Good(c)'
    BY <1>1, <1>3, <1>4, <1>5 DEF Good, Fits, WriterKnows, SignerKnows
  <1> QED BY <1>2, <1>3, <1>4, <1>6, Begun

\* What a signed-in reader asks for, of an account named id.
LEMMA RequireUserInv ==
    ASSUME AccountsInv, NEW c \in Browser,
           NEW s \in {"password.check", "name.check", "self.check", "bump", "delete.count",
                      "link.supersede"},
           NEW id \in User, NEW old \in 0 .. MaxPassword, NEW new \in {0} \cup Name \cup Password,
           RequireUser(c, s, id, old, new),
           s \in {"password.check", "name.check"} => id = jar[c].user,
           s = "password.check" => new \in Password,
           s = "name.check" => new \in Name /\ old \in Password
    PROVE  AccountsInv'
  <1> PICK r : r = [Idle EXCEPT !.at = s, !.id = id, !.name = row[jar[c].user].name,
                                !.old = old, !.new = new]
    OBVIOUS
  <1>1. /\ row[jar[c].user].there /\ row[jar[c].user].name \in Name
        /\ Begin(c, r) /\ UNCHANGED unchangedUnlessAsked
    BY Admitted DEF RequireUser
  <1>2. r \in Request
    BY <1>1, IdleType, Bounds DEF Request, Idle, Step
  <1>3. /\ r.at = s /\ r.id = id /\ r.old = old /\ r.new = new
        /\ r.name = row[jar[c].user].name
        /\ c \in Actor
    BY DEF Idle, Actor
  <1>5. req'[c] = r /\ row' = row
    BY <1>1, <1>3 DEF Begin, AccountsInv, TypeOK, unchangedUnlessAsked
  <1>6. Good(c)'
    BY <1>1, <1>3, <1>5 DEF Good, Fits, WriterKnows, SignerKnows
  <1> QED BY <1>1, <1>2, <1>3, <1>6, Begun

\* What an operator asks for of an account that is there.
LEMMA ShellInv ==
    ASSUME AccountsInv, NEW c \in Shell, NEW u \in User,
           NEW s \in {"delete.count", "link.supersede"},
           Begin(c, [Idle EXCEPT !.at = s, !.id = u]), UNCHANGED unchangedUnlessAsked
    PROVE  AccountsInv'
  <1> PICK r : r = [Idle EXCEPT !.at = s, !.id = u]
    OBVIOUS
  <1>2. r \in Request
    BY IdleType, Bounds DEF Request, Idle, Step
  <1>3. r.at = s /\ r.id = u /\ c \in Actor
    BY DEF Idle, Actor
  <1>5. req'[c] = r /\ Begin(c, r)
    BY <1>3 DEF Begin, AccountsInv, TypeOK
  <1>6. Good(c)'
    BY <1>3, <1>5 DEF Good, Fits, WriterKnows, SignerKnows
  <1> QED BY <1>2, <1>3, <1>5, <1>6, Begun

LEMMA SetupLinkAccountInv ==
    ASSUME AccountsInv, NEW c \in Browser, NEW k \in Link, NEW new \in Password,
           SetupLinkAccount(c, k, new)
    PROVE  AccountsInv'
  <1> PICK r : r = [Idle EXCEPT !.at = "redeem", !.id = link[k].user, !.link = k,
                                !.name = row[link[k].user].name, !.new = new]
    OBVIOUS
  <1>1. /\ link[k].user \in 0 .. MaxUser /\ link[k].user # 0 /\ link[k].issued
        /\ row[link[k].user].there
    BY DEF SetupLinkAccount, Usable, AccountsInv, LinkFits, TypeOK
  <1>2. link[k].user \in User /\ row[link[k].user].name \in Name
    BY <1>1, Bounds DEF AccountsInv, RowFits
  <1>3. r \in Request
    BY <1>1, <1>2, IdleType, Bounds DEF Request, Idle, Step
  <1>4. /\ r.at = "redeem" /\ r.id = link[k].user /\ r.link = k /\ r.new = new
        /\ r.name = row[link[k].user].name /\ c \in Actor
    BY DEF Idle, Actor
  <1>5. /\ Begin(c, r) /\ UNCHANGED unchangedUnlessAsked
        /\ req'[c] = r /\ row' = row /\ link' = link
    BY <1>4 DEF SetupLinkAccount, Begin, AccountsInv, TypeOK, unchangedUnlessAsked
  <1>6. Good(c)'
    BY <1>1, <1>2, <1>4, <1>5 DEF Good, Fits, WriterKnows, SignerKnows
  <1> QED BY <1>3, <1>4, <1>5, <1>6, Begun

LEMMA UserPasswdInv ==
    ASSUME AccountsInv, NEW c \in Shell, NEW name \in Name, NEW new \in Password,
           UserPasswd(c, name, new)
    PROVE  AccountsInv'
  <1> PICK u \in Named(name) :
           /\ Begin(c, [Idle EXCEPT !.at = "password.set", !.id = u, !.name = name, !.new = new])
           /\ UNCHANGED unchangedUnlessAsked
    BY DEF UserPasswd
  <1> PICK r : r = [Idle EXCEPT !.at = "password.set", !.id = u, !.name = name, !.new = new]
    OBVIOUS
  <1>1. u \in User /\ row[u].there /\ row[u].name = name
    BY DEF Named
  <1>2. r \in Request
    BY <1>1, IdleType, Bounds DEF Request, Idle, Step
  <1>3. r.at = "password.set" /\ r.id = u /\ r.name = name /\ r.new = new /\ c \in Actor
    BY DEF Idle, Actor
  <1>4. req'[c] = r /\ row' = row /\ Begin(c, r)
    BY <1>3 DEF Begin, AccountsInv, TypeOK, unchangedUnlessAsked
  <1>5. Good(c)'
    BY <1>1, <1>3, <1>4 DEF Good, Fits, WriterKnows, SignerKnows
  <1> QED BY <1>2, <1>3, <1>4, <1>5, Begun

-----------------------------------------------------------------------------
(* Statements that only move their own request on.                         *)

LEMMA Answered ==
    ASSUME AccountsInv, NEW c \in Actor, Answer(c),
           UNCHANGED <<row, nextId, link, jar, secret, acts, history>>
    PROVE  AccountsInv'
  <1>1. acts' \in acts .. MaxActs
    BY Bounds DEF AccountsInv, TypeOK
  <1>2. /\ req' \in [Actor -> Request] /\ \A d \in Actor \ {c} : req'[d] = req[d]
        /\ req'[c] = Idle
    BY IdleType DEF AccountsInv, TypeOK, Answer
  <1>3. Good(c)'
    BY <1>2 DEF Good, Fits, WriterKnows, SignerKnows, Idle
  <1> QED BY <1>1, <1>2, <1>3, Turn

LEMMA Moved ==
    ASSUME AccountsInv, NEW c \in Actor, NEW r \in Request, req' = [req EXCEPT ![c] = r],
           UNCHANGED <<row, nextId, link, jar, secret, acts, history>>,
           Good(c)'
    PROVE  AccountsInv'
  <1>1. acts' \in acts .. MaxActs
    BY Bounds DEF AccountsInv, TypeOK
  <1>2. req' \in [Actor -> Request] /\ \A d \in Actor \ {c} : req'[d] = req[d]
    BY DEF AccountsInv, TypeOK
  <1> QED BY <1>1, <1>2, Turn

\* A request that goes on holding what it held.
LEMMA GoesOn ==
    ASSUME AccountsInv, NEW c \in Actor, NEW s \in Step, Goes(c, s),
           UNCHANGED <<row, nextId, link, jar, secret, acts, history>>
    PROVE  \E r \in Request :
              /\ req' = [req EXCEPT ![c] = r] /\ req'[c] = r
              /\ r.at = s /\ r.id = req[c].id /\ r.name = req[c].name /\ r.old = req[c].old
              /\ r.new = req[c].new /\ r.stale = req[c].stale /\ r.epoch = req[c].epoch
              /\ r.link = req[c].link
  <1> PICK r : r = [req[c] EXCEPT !.at = s]
    OBVIOUS
  <1>1. req[c] \in Request
    BY DEF AccountsInv, TypeOK
  <1>2. /\ r \in Request
        /\ r.at = s /\ r.id = req[c].id /\ r.name = req[c].name /\ r.old = req[c].old
        /\ r.new = req[c].new /\ r.stale = req[c].stale /\ r.epoch = req[c].epoch
        /\ r.link = req[c].link
    BY <1>1 DEF Request
  <1>3. req' = [req EXCEPT ![c] = r] /\ req'[c] = r
    BY DEF Goes, AccountsInv, TypeOK
  <1> QED BY <1>2, <1>3

LEMMA VerifiedInv ==
    ASSUME AccountsInv, NEW c \in Actor,
           \/ Verified(c, "password.check", "password.set")
           \/ Verified(c, "name.check", "name.set")
           \/ Verified(c, "self.check", "delete.count")
    PROVE  AccountsInv'
  <1> PICK s, t : /\ <<s, t>> \in {<<"password.check", "password.set">>,
                                   <<"name.check", "name.set">>,
                                   <<"self.check", "delete.count">>}
                  /\ Verified(c, s, t)
    OBVIOUS
  <1>1. t \in Step /\ Goes(c, t) /\ req[c].at = s /\ row[req[c].id].pw = req[c].old
        /\ UNCHANGED <<row, nextId, link, jar, secret, acts, history>>
    BY DEF Verified, Step, At
  <1>2. PICK r \in Request :
              /\ req' = [req EXCEPT ![c] = r] /\ req'[c] = r
              /\ r.at = t /\ r.id = req[c].id /\ r.name = req[c].name /\ r.old = req[c].old
              /\ r.new = req[c].new /\ r.stale = req[c].stale /\ r.epoch = req[c].epoch
              /\ r.link = req[c].link
    BY <1>1, GoesOn
  <1>3. Good(c)
    BY DEF AccountsInv
  <1>4. Good(c)'
    <2>1. Fits(c)'
      BY <1>1, <1>2, <1>3 DEF Good, Fits
    <2>2. WriterKnows(c)'
      BY <1>1, <1>2, <1>3 DEF Good, WriterKnows
    <2>3. SignerKnows(c)'
      BY <1>1, <1>2 DEF SignerKnows
    <2> QED BY <2>1, <2>2, <2>3 DEF Good
  <1> QED BY <1>1, <1>2, <1>4, Moved

LEMMA CountAdminsInv ==
    ASSUME AccountsInv, NEW c \in Actor, CountAdmins(c)
    PROVE  AccountsInv'
  <1>1. CASE LastAdmin(req[c].id)
    BY <1>1, Answered DEF CountAdmins
  <1>2. CASE ~LastAdmin(req[c].id)
    <2>1. Goes(c, "delete") /\ req[c].at = "delete.count"
      BY <1>2 DEF CountAdmins, At
    <2> DEFINE r == [req[c] EXCEPT !.at = "delete"]
    <2>2. req[c] \in Request /\ Good(c)
      BY DEF AccountsInv, TypeOK
    <2>3. /\ r \in Request /\ r.at = "delete" /\ r.id = req[c].id
          /\ req' = [req EXCEPT ![c] = r] /\ req'[c] = r
      BY <2>1, <2>2 DEF Goes, Request, Step, AccountsInv, TypeOK
    <2> HIDE DEF r
    <2>4. Good(c)'
      BY <2>1, <2>2, <2>3 DEF Good, Fits, WriterKnows, SignerKnows
    <2> QED BY <2>3, <2>4, Moved DEF CountAdmins
  <1> QED BY <1>1, <1>2

LEMMA SupersedeLinksInv ==
    ASSUME AccountsInv, NEW c \in Actor, SupersedeLinks(c)
    PROVE  AccountsInv'
  <1> DEFINE earlier == {k \in Link : link[k].user = req[c].id /\ Usable(k)}
  <1>a. PICK r : r = [req[c] EXCEPT !.at = "link.insert", !.locks = earlier]
    OBVIOUS
  <1>1. req[c] \in Request /\ Good(c) /\ req[c].at = "link.supersede"
    BY DEF AccountsInv, TypeOK, SupersedeLinks, At
  <1>b. earlier \in SUBSET Link /\ req' = [req EXCEPT ![c].at = "link.insert", ![c].locks = earlier]
    BY DEF SupersedeLinks
  <1> HIDE DEF earlier
  <1>2. r \in Request /\ r.at = "link.insert" /\ r.id = req[c].id
    BY <1>1, <1>a, <1>b DEF Request, Step
  <1>3. req' = [req EXCEPT ![c] = r] /\ req'[c] = r
    BY <1>a, <1>b DEF AccountsInv, TypeOK
  <1>5. Good(c)'
    BY <1>1, <1>2, <1>3 DEF Good, Fits, WriterKnows, SignerKnows
  <1> QED BY <1>2, <1>3, <1>5, Moved DEF SupersedeLinks

LEMMA MigrateInv ==
    ASSUME AccountsInv, NEW c \in Actor, Migrate(c)
    PROVE  AccountsInv'
  <1>1. CASE ConfiguredPassword = 0 \/ PasswordUnchanged(c)
    BY <1>1, Answered DEF Migrate
  <1>2. CASE ~(ConfiguredPassword = 0 \/ PasswordUnchanged(c))
    <2>1. /\ Goes(c, "password.set") /\ req[c].at = "migrate" /\ "password.set" \in Step
          /\ UNCHANGED <<row, nextId, link, jar, secret, acts, history>>
      BY <1>2 DEF Migrate, Migrating, At, Step
    <2>2. PICK r \in Request :
              /\ req' = [req EXCEPT ![c] = r] /\ req'[c] = r
              /\ r.at = "password.set" /\ r.id = req[c].id /\ r.name = req[c].name
              /\ r.new = req[c].new /\ r.stale = req[c].stale
      BY <2>1, GoesOn
    <2>3. Good(c) /\ ConfiguredPassword \in Password
      BY <1>2, AccountsConstants DEF AccountsInv, Password
    <2>4. Good(c)'
      BY <2>1, <2>2, <2>3 DEF Good, Fits, WriterKnows, SignerKnows
    <2> QED BY <2>1, <2>2, <2>4, Moved
  <1> QED BY <1>1, <1>2

-----------------------------------------------------------------------------
(* Cookies.                                                                *)

LEMMA IssueInv ==
    ASSUME AccountsInv, NEW c \in Browser, Issue(c)
    PROVE  AccountsInv'
  <1> PICK s : s = [user |-> req[c].id, epoch |-> req[c].epoch, secret |-> secret,
                    proved |-> req[c].old, raced |-> FALSE]
    OBVIOUS
  <1>1. c \in Actor /\ req[c] \in Request /\ Good(c) /\ req[c].at = "login"
    BY DEF AccountsInv, TypeOK, Issue, At, Actor
  <1>2. s \in Session
    BY <1>1 DEF Good, Fits, Session, Request, AccountsInv, TypeOK
  <1>3. /\ jar' \in [Browser -> Session \cup {NoSession}]
        /\ \A d \in Browser \ {c} : jar'[d] = jar[d]
        /\ jar'[c] = s
    BY <1>2 DEF Issue, AccountsInv, TypeOK
  <1>4. SessionFits(c)'
    BY <1>1, <1>3 DEF Issue, Good, SignerKnows, SessionFits, history
  <1> QED BY <1>3, <1>4, Cookie DEF Issue, Answer

LEMMA ReissueInv ==
    ASSUME AccountsInv, NEW c \in Browser, Reissue(c)
    PROVE  AccountsInv'
  <1> DEFINE u == req[c].id
  <1> PICK s : s = IF row[u].there
                   THEN [user |-> u, epoch |-> row[u].epoch, secret |-> secret,
                         proved |-> req[c].new, raced |-> req[c].stale]
                   ELSE NoSession
    OBVIOUS
  <1>1. c \in Actor /\ req[c] \in Request /\ Good(c) /\ req[c].at = "password.issue"
    BY DEF AccountsInv, TypeOK, Reissue, At, Actor
  <1>2. u \in User /\ row[u] \in Row /\ req[c].new \in Password
    BY <1>1 DEF Good, Fits, AccountsInv, TypeOK
  <1>3. s \in Session \cup {NoSession}
    BY <1>1, <1>2 DEF Session, Row, Request, AccountsInv, TypeOK
  <1>4. /\ jar' \in [Browser -> Session \cup {NoSession}]
        /\ \A d \in Browser \ {c} : jar'[d] = jar[d]
        /\ jar'[c] = s
    BY <1>3 DEF Reissue, AccountsInv, TypeOK
  <1>5. SessionFits(c)'
    <2>1. row[u].epoch \in Nat
      BY <1>2 DEF Row
    <2> QED BY <1>1, <1>4, <2>1 DEF Reissue, Good, SignerKnows, SessionFits, history
  <1> QED BY <1>4, <1>5, Cookie DEF Reissue, Answer

LEMMA ClearInv ==
    ASSUME AccountsInv, NEW c \in Browser, RefuseAnonymous(c) \/ Logout(c)
    PROVE  AccountsInv'
  <1>1. /\ jar' \in [Browser -> Session \cup {NoSession}]
        /\ \A d \in Browser \ {c} : jar'[d] = jar[d]
        /\ jar'[c] = NoSession
    BY DEF RefuseAnonymous, Logout, Clear, AccountsInv, TypeOK
  <1>2. SessionFits(c)'
    BY <1>1 DEF SessionFits
  <1> QED BY <1>1, <1>2, Cookie DEF RefuseAnonymous, Logout

-----------------------------------------------------------------------------
(* Statements that write credentials.                                      *)

\* A request as it was before another wrote to account u.
Kept(d, u) ==
    /\ req'[d].at = req[d].at /\ req'[d].id = req[d].id
    /\ req'[d].name = req[d].name /\ req'[d].old = req[d].old
    /\ req'[d].new = req[d].new /\ req'[d].link = req[d].link
    /\ req'[d].epoch = req[d].epoch
    /\ req[d].id = u => req'[d].stale
    /\ req[d].id # u => req'[d] = req[d]

LinksKept ==
    /\ link' \in [Link -> [user : 0 .. MaxUser, usable : BOOLEAN, issued : BOOLEAN]]
    /\ \A k \in Link : /\ link'[k].user = link[k].user /\ link'[k].issued = link[k].issued
                       /\ link'[k].usable => link[k].usable

\* A request d that another overtakes at account u.
LEMMA Overtaken ==
    ASSUME AccountsInv, NEW c \in Actor, NEW u \in User, NEW next \in Request,
           req' = Overtaking(c, u, next)
    PROVE  /\ req' \in [Actor -> Request]
           /\ req'[c] = next
           /\ \A d \in Actor \ {c} : Kept(d, u)
  <1>1. ASSUME NEW d \in Actor
        PROVE  /\ req[d] \in Request
               /\ [req[d] EXCEPT !.stale = TRUE] \in Request
    <2>1. req[d] \in Request
      BY DEF AccountsInv, TypeOK
    <2> QED BY <2>1 DEF Request
  <1>2. req' \in [Actor -> Request] /\ req'[c] = next
    BY <1>1 DEF Overtaking
  <1>3. ASSUME NEW d \in Actor \ {c}
        PROVE  /\ req[d].id = u => req'[d] = [req[d] EXCEPT !.stale = TRUE]
               /\ req[d].id # u => req'[d] = req[d]
    BY DEF Overtaking
  <1>4. ASSUME NEW d \in Actor \ {c} PROVE Kept(d, u)
    <2>1. CASE req[d].id = u
      <3> DEFINE q == req[d]
      <3>2. q \in Request /\ req'[d] = [q EXCEPT !.stale = TRUE]
        BY <1>1, <1>3, <2>1
      <3> HIDE DEF q
      <3>3. /\ req'[d].at = q.at /\ req'[d].id = q.id /\ req'[d].name = q.name
            /\ req'[d].old = q.old /\ req'[d].new = q.new /\ req'[d].link = q.link
            /\ req'[d].epoch = q.epoch /\ req'[d].stale = TRUE
        BY ONLY <3>2 DEF Request
      <3> QED BY <2>1, <3>3 DEF q, Kept
    <2>2. CASE req[d].id # u
      BY <1>3, <2>2 DEF Kept
    <2> QED BY <2>1, <2>2
  <1> QED BY <1>1, <1>2, <1>3, <1>4

LEMMA Written ==
    ASSUME AccountsInv, NEW c \in Actor, NEW u \in User, row[u].there,
           NEW h \in Row, row' = [row EXCEPT ![u] = h],
           h.there, h.name \in Name,
           (h.epoch = row[u].epoch /\ h.pw = row[u].pw) \/ h.epoch > row[u].epoch,
           ~req[c].stale => h.key = Key(h.name, h.pw),
           NEW next \in Request, req' = Overtaking(c, u, next),
           crossed' = Marked(c, u),
           UNCHANGED <<nextId, jar, secret, acts, gone>>,
           LinksKept,
           Good(c)'
    PROVE  AccountsInv'
  <1>1. /\ row' \in [User -> Row] /\ row'[u] = h
        /\ \A v \in User \ {u} : row'[v] = row[v]
        /\ row[u] \in Row
    BY DEF AccountsInv, TypeOK
  <1>2. /\ crossed' \subseteq User
        /\ req[c].stale => crossed' = crossed \cup {u}
        /\ ~req[c].stale => crossed' = crossed \ {u}
    BY DEF Marked, AccountsInv, TypeOK
  <1>3. TypeOK'
    <2>1. req' \in [Actor -> Request]
      BY Overtaken
    <2>2. ASSUME NEW k \in Link, link'[k].user # 0
          PROVE  row'[link'[k].user].there
      <3>1. link[k].user \in User /\ row[link[k].user].there /\ link'[k].user = link[k].user
        BY <2>2, Bounds DEF AccountsInv, TypeOK, LinksKept
      <3> QED BY <3>1, <1>1
    <2> QED BY <1>1, <1>2, <2>1, <2>2 DEF AccountsInv, TypeOK, LinksKept
  <1>4. ASSUME NEW v \in User PROVE RowFits(v)'
    <2>1. RowFits(v)
      BY DEF AccountsInv
    <2>2. CASE v # u
      BY <1>1, <1>2, <2>1, <2>2 DEF RowFits
    <2>3. CASE v = u
      BY <1>1, <1>2, <2>1, <2>3 DEF RowFits
    <2> QED BY <2>2, <2>3
  <1>5. \A k \in Link : LinkFits(k)'
    BY DEF AccountsInv, LinkFits, LinksKept
  <1>7. ASSUME NEW d \in Actor PROVE Good(d)'
    <2>1. CASE d = c
      BY <2>1
    <2>2. CASE d # c
      <3>1. Good(d) /\ req[d] \in Request /\ row[u].epoch \in Nat /\ h.epoch \in Nat
        BY <1>1 DEF AccountsInv, TypeOK, Row
      <3>2. /\ req'[d].at = req[d].at /\ req'[d].id = req[d].id
            /\ req'[d].name = req[d].name /\ req'[d].old = req[d].old
            /\ req'[d].new = req[d].new /\ req'[d].link = req[d].link
            /\ req'[d].epoch = req[d].epoch
            /\ req[d].id = u => req'[d].stale
            /\ req[d].id # u => req'[d] = req[d]
        <4>1. Kept(d, u)
          BY <2>2, Overtaken
        <4> QED BY <4>1 DEF Kept
      <3>6. req[d].epoch \in Nat
        BY <3>1 DEF Request
      <3>3. Fits(d)'
        BY <3>1, <3>2 DEF Good, Fits, LinksKept
      <3>4. CASE req[d].id = u
        <4>1. WriterKnows(d)'
          BY <3>2, <3>4 DEF WriterKnows
        <4>2. SignerKnows(d)'
          BY <1>1, <3>1, <3>2, <3>4, <3>6 DEF Good, SignerKnows
        <4> QED BY <3>3, <4>1, <4>2 DEF Good
      <3>5. CASE req[d].id # u
        <4>0. req[d].at # "idle" => row'[req[d].id] = row[req[d].id]
          BY <1>1, <3>1, <3>5 DEF Good, Fits
        <4>1. WriterKnows(d)' /\ SignerKnows(d)'
          BY <3>1, <3>2, <3>5, <4>0 DEF Good, WriterKnows, SignerKnows
        <4> QED BY <3>3, <4>1 DEF Good
      <3> QED BY <3>4, <3>5
    <2> QED BY <2>1, <2>2
  <1>8. ASSUME NEW d \in Browser PROVE SessionFits(d)'
    <2>1. SessionFits(d) /\ row[u].epoch \in Nat /\ h.epoch \in Nat
      BY <1>1 DEF AccountsInv, TypeOK, Row
    <2>2. jar[d] # NoSession => jar[d].user \in User /\ jar[d].epoch \in Nat
      BY DEF AccountsInv, TypeOK, Session
    <2> QED BY <1>1, <2>1, <2>2 DEF SessionFits
  <1> QED BY <1>3, <1>4, <1>5, <1>7, <1>8 DEF AccountsInv

\* A link spent.
LEMMA Spent ==
    ASSUME AccountsInv, NEW k \in Link,
           link' = link \/ link' = [link EXCEPT ![k].usable = FALSE]
    PROVE  LinksKept
  <1>1. ASSUME NEW j \in Link
        PROVE  /\ link[j] \in [user : 0 .. MaxUser, usable : BOOLEAN, issued : BOOLEAN]
               /\ [link[j] EXCEPT !.usable = FALSE] \in
                     [user : 0 .. MaxUser, usable : BOOLEAN, issued : BOOLEAN]
               /\ [link[j] EXCEPT !.usable = FALSE].user = link[j].user
               /\ [link[j] EXCEPT !.usable = FALSE].issued = link[j].issued
               /\ [link[j] EXCEPT !.usable = FALSE].usable = FALSE
    BY DEF AccountsInv, TypeOK
  <1>2. link \in [Link -> [user : 0 .. MaxUser, usable : BOOLEAN, issued : BOOLEAN]]
    BY DEF AccountsInv, TypeOK
  <1>3. CASE link' = link
    BY <1>2, <1>3 DEF LinksKept
  <1>4. CASE link' = [link EXCEPT ![k].usable = FALSE]
    <2>1. link' \in [Link -> [user : 0 .. MaxUser, usable : BOOLEAN, issued : BOOLEAN]]
      BY <1>1, <1>2, <1>4
    <2>2. ASSUME NEW j \in Link
          PROVE  link'[j] = IF j = k THEN [link[j] EXCEPT !.usable = FALSE] ELSE link[j]
      BY <1>2, <1>4
    <2> QED BY <1>1, <2>1, <2>2 DEF LinksKept
  <1> QED BY <1>3, <1>4

\* SetPassword, by a request that holds the name it was given and the new password.
LEMMA SetPasswordInv ==
    ASSUME AccountsInv, NEW c \in Actor, req[c].id \in User, row[req[c].id].there,
           req[c].name \in Name, req[c].new \in Password,
           req[c].at \in {"password.set", "redeem"},
           NEW next \in Request, SetPassword(c, req[c].id, req[c].name, req[c].new, next),
           \/ next = Idle
           \/ /\ next.at = "password.issue" /\ next.id = req[c].id
              /\ next.name = req[c].name /\ next.new = req[c].new,
           UNCHANGED <<nextId, jar, secret, acts, gone>>, LinksKept
    PROVE  AccountsInv'
  <1> DEFINE u == req[c].id
             h == [row[u] EXCEPT !.pw = req[c].new, !.key = Key(req[c].name, req[c].new),
                                 !.epoch = @ + 1]
  <1>1. row[u] \in Row /\ Good(c) /\ RowFits(u) /\ row \in [User -> Row]
    BY DEF AccountsInv, TypeOK
  <1>2. /\ h \in Row /\ h.there /\ h.name = row[u].name
        /\ h.epoch > row[u].epoch /\ h.pw = req[c].new
        /\ h.key = Key(req[c].name, req[c].new)
    <2> DEFINE e == row[u].epoch + 1
               key == Key(req[c].name, req[c].new)
               pw == req[c].new
               q == row[u]
    <2>1. key \in (0 .. MaxName) \X (0 .. MaxPassword) /\ pw \in 0 .. MaxPassword
      BY Bounds, KeyType
    <2>2. row[u].epoch \in Nat
      BY <1>1 DEF Row
    <2>3. e \in Nat /\ e > q.epoch /\ q \in Row /\ q.there
      BY <1>1, <2>2
    <2>4. h = [q EXCEPT !.pw = pw, !.key = key, !.epoch = e]
      OBVIOUS
    <2> HIDE DEF e, key, pw, q, h
    <2>5. /\ h \in Row /\ h.there /\ h.name = q.name
          /\ h.epoch > q.epoch /\ h.pw = pw /\ h.key = key
      BY ONLY <2>1, <2>3, <2>4 DEF Row
    <2> QED BY <2>5 DEF key, pw, q
  <1>3. row' = [row EXCEPT ![u] = h] /\ req' = Overtaking(c, u, next) /\ crossed' = Marked(c, u)
    BY <1>1 DEF SetPassword
  <1>4. h.name \in Name /\ (~req[c].stale => h.key = Key(h.name, h.pw))
    BY <1>1, <1>2 DEF Good, WriterKnows, RowFits
  <1>5. req'[c] = next /\ row'[u] = h
    <2> HIDE DEF h
    <2>1. row'[u] = h
      BY ONLY <1>1, <1>3, req[c].id \in User
    <2> QED BY <1>3, <2>1, Overtaken
  <1>6. Good(c)'
    <2>1. CASE next = Idle
      BY <1>5, <2>1 DEF Good, Fits, WriterKnows, SignerKnows, Idle
    <2>2. CASE /\ next.at = "password.issue" /\ next.id = req[c].id
               /\ next.name = req[c].name /\ next.new = req[c].new
      BY <1>2, <1>5, <2>2 DEF Good, Fits, WriterKnows, SignerKnows
    <2> QED BY <2>1, <2>2
  <1> HIDE DEF h
  <1> QED BY <1>2, <1>3, <1>4, <1>6, Written

LEMMA StorePasswordInv ==
    ASSUME AccountsInv, NEW c \in Actor, StorePassword(c)
    PROVE  AccountsInv'
  <1>1. PICK next : next = IF c \in Browser
                           THEN [req[c] EXCEPT !.at = "password.issue", !.stale = FALSE]
                           ELSE Idle
    OBVIOUS
  <1>2. /\ req[c] \in Request /\ Good(c) /\ req[c].at = "password.set" /\ row[req[c].id].there
        /\ SetPassword(c, req[c].id, req[c].name, req[c].new, next)
        /\ UNCHANGED <<nextId, link, jar, secret, acts, gone>>
    BY <1>1 DEF AccountsInv, TypeOK, StorePassword, At
  <1>3. /\ next \in Request
        /\ \/ next = Idle
           \/ /\ next.at = "password.issue" /\ next.id = req[c].id
              /\ next.name = req[c].name /\ next.new = req[c].new
    BY <1>1, <1>2, IdleType DEF Request, Step
  <1>4. LinksKept
    BY <1>2 DEF LinksKept, AccountsInv, TypeOK
  <1>5. req[c].id \in User /\ req[c].name \in Name /\ req[c].new \in Password
    BY <1>2 DEF Good, Fits
  <1> QED BY <1>2, <1>3, <1>4, <1>5, SetPasswordInv

LEMMA RedeemSetupLinkInv ==
    ASSUME AccountsInv, NEW c \in Actor, RedeemSetupLink(c)
    PROVE  AccountsInv'
  <1> DEFINE k == req[c].link
  <1>1. /\ req[c] \in Request /\ Good(c) /\ req[c].at = "redeem" /\ link[k].usable
        /\ SetPassword(c, req[c].id, req[c].name, req[c].new, Idle)
        /\ link' = [link EXCEPT ![k].usable = FALSE]
        /\ UNCHANGED <<nextId, jar, secret, acts, gone>>
    BY DEF AccountsInv, TypeOK, RedeemSetupLink, At, Usable
  <1>2. req[c].id \in User /\ req[c].name \in Name /\ req[c].new \in Password /\ k \in Link
    BY <1>1 DEF Good, Fits
  <1>3. link[k].user = req[c].id /\ row[req[c].id].there
    BY <1>1, <1>2 DEF Good, Fits, AccountsInv, LinkFits, TypeOK
  <1>4. LinksKept
    BY <1>1, <1>2, Spent
  <1> QED BY <1>1, <1>2, <1>3, <1>4, IdleType, SetPasswordInv

LEMMA StoreUsernameInv ==
    ASSUME AccountsInv, NEW c \in Actor, StoreUsername(c)
    PROVE  AccountsInv'
  <1> DEFINE u == req[c].id
             h == [row[u] EXCEPT !.name = req[c].new, !.key = Key(req[c].new, req[c].old)]
  <1>1. /\ req[c] \in Request /\ Good(c) /\ req[c].at = "name.set" /\ row[u].there
        /\ SetUsername(c, u, req[c].new, req[c].old)
        /\ UNCHANGED <<nextId, link, jar, secret, acts, gone>>
    BY DEF AccountsInv, TypeOK, StoreUsername, At
  <1>2. u \in User /\ req[c].new \in Name /\ req[c].old \in Password
    BY <1>1 DEF Good, Fits
  <1>3. row[u] \in Row /\ row \in [User -> Row]
    BY <1>2 DEF AccountsInv, TypeOK
  <1>4. /\ h \in Row /\ h.there /\ h.name = req[c].new
        /\ h.epoch = row[u].epoch /\ h.pw = row[u].pw
        /\ h.key = Key(req[c].new, req[c].old)
    <2>1. Key(req[c].new, req[c].old) \in (0 .. MaxName) \X (0 .. MaxPassword)
      BY <1>2, Bounds, KeyType
    <2>2. req[c].new \in 0 .. MaxName
      BY <1>2, Bounds
    <2> QED BY <1>1, <1>3, <2>1, <2>2 DEF Row
  <1>5. row' = [row EXCEPT ![u] = h] /\ req' = Overtaking(c, u, Idle) /\ crossed' = Marked(c, u)
    BY <1>1, <1>3 DEF SetUsername
  <1>6. ~req[c].stale => h.key = Key(h.name, h.pw)
    BY <1>1, <1>4 DEF Good, WriterKnows
  <1>7. req'[c] = Idle
    BY <1>2, <1>5, Overtaken, IdleType
  <1>8. Good(c)'
    BY <1>7 DEF Good, Fits, WriterKnows, SignerKnows, Idle
  <1>9. LinksKept
    BY <1>1 DEF LinksKept, AccountsInv, TypeOK
  <1> HIDE DEF h
  <1> QED BY <1>1, <1>2, <1>4, <1>5, <1>6, <1>8, <1>9, IdleType, Written

LEMMA BumpSessionEpochInv ==
    ASSUME AccountsInv, NEW c \in Browser, BumpSessionEpoch(c)
    PROVE  AccountsInv'
  <1> DEFINE u == req[c].id
             e == row[u].epoch + 1
             h == [row[u] EXCEPT !.epoch = e]
  <1>1. /\ c \in Actor /\ Good(c) /\ req[c].at = "bump" /\ row[u].there
        /\ row \in [User -> Row] /\ req \in [Actor -> Request]
        /\ jar \in [Browser -> Session \cup {NoSession}]
    BY DEF AccountsInv, TypeOK, BumpSessionEpoch, At, Actor
  <1>2. u \in User /\ row[u] \in Row /\ row[u].epoch \in Nat
    BY <1>1 DEF Good, Fits, Row
  <1>3. e \in Nat /\ e > row[u].epoch
    BY <1>2
  <1>4. row' = [row EXCEPT ![u] = h]
    BY <1>1 DEF BumpSessionEpoch
  <1> HIDE DEF e
  <1>5. /\ h \in Row /\ h.there = row[u].there /\ h.name = row[u].name /\ h.pw = row[u].pw
        /\ h.key = row[u].key /\ h.epoch = e
    BY <1>2, <1>3 DEF Row
  <1> HIDE DEF h
  <1>6. /\ row' \in [User -> Row] /\ row'[u] = h /\ \A v \in User \ {u} : row'[v] = row[v]
    BY <1>1, <1>2, <1>4, <1>5
  <1>7. \A v \in User : /\ row'[v].there = row[v].there /\ row'[v].name = row[v].name
                        /\ row'[v].pw = row[v].pw /\ row'[v].key = row[v].key
                        /\ v # u => row'[v] = row[v]
    BY <1>5, <1>6
  <1>8. /\ req' \in [Actor -> Request] /\ \A d \in Actor : req'[d] = Idle \/ req'[d] = req[d]
        /\ jar' \in [Browser -> Session \cup {NoSession}]
        /\ \A d \in Browser : jar'[d] = NoSession \/ jar'[d] = jar[d]
        /\ UNCHANGED <<nextId, link, secret, acts, history>>
    BY <1>1, IdleType DEF BumpSessionEpoch, Clear, Answer
  <1>9. TypeOK'
    <2>1. ASSUME NEW k \in Link, link'[k].user # 0
          PROVE  row'[link'[k].user].there
      <3>1. link'[k].user = link[k].user /\ link[k].user \in User /\ row[link[k].user].there
        BY <1>8, <2>1, Bounds DEF AccountsInv, TypeOK
      <3> QED BY <3>1, <1>7
    <2> QED BY <1>6, <1>8, <2>1 DEF AccountsInv, TypeOK, history
  <1>10. ASSUME NEW v \in User PROVE RowFits(v)'
    <2>1. RowFits(v) /\ row[v] \in Row
      BY <1>1 DEF AccountsInv
    <2>2. v = u => row'[v].there
      BY <1>1, <1>7
    <2> QED BY <1>7, <1>8, <2>1, <2>2 DEF RowFits, history
  <1>11. \A k \in Link : LinkFits(k)'
    BY <1>8 DEF AccountsInv, LinkFits
  <1>13. ASSUME NEW d \in Actor PROVE Good(d)'
    <2>1. CASE req'[d] = Idle
      BY <2>1 DEF Good, Fits, WriterKnows, SignerKnows, Idle
    <2>2. CASE req'[d] = req[d]
      <3>1. Good(d) /\ req[d] \in Request /\ req[d].epoch \in Nat
        BY <1>1 DEF AccountsInv, Request
      <3>2. Fits(d)'
        BY <1>8, <2>2, <3>1 DEF Good, Fits
      <3>3. req[d].at # "idle" => req[d].id \in User
        BY <3>1 DEF Good, Fits
      <3>4. WriterKnows(d)'
        BY <1>7, <1>8, <2>2, <3>1, <3>3 DEF Good, WriterKnows, history
      <3>5. SignerKnows(d)'
        BY <1>2, <1>3, <1>5, <1>6, <1>7, <1>8, <2>2, <3>1, <3>3 DEF Good, SignerKnows, history
      <3> QED BY <3>2, <3>4, <3>5 DEF Good
    <2> QED BY <1>8, <2>1, <2>2
  <1>14. ASSUME NEW d \in Browser PROVE SessionFits(d)'
    <2>1. SessionFits(d)
      BY DEF AccountsInv
    <2>2. jar[d] # NoSession => jar[d].user \in User /\ jar[d].epoch \in Nat
      BY <1>1 DEF Session
    <2> QED BY <1>2, <1>3, <1>5, <1>6, <1>7, <1>8, <2>1, <2>2 DEF SessionFits, history
  <1> QED BY <1>8, <1>9, <1>10, <1>11, <1>13, <1>14 DEF AccountsInv

-----------------------------------------------------------------------------
(* Accounts that come and go.                                              *)

LEMMA NewRowType ==
    ASSUME NEW name \in Name, NEW admin \in BOOLEAN
    PROVE  /\ NewRow(name, admin) \in Row /\ NewRow(name, admin).there
           /\ NewRow(name, admin).name = name /\ NewRow(name, admin).pw = 0
  BY NoRowType, Bounds DEF NewRow, NoRow, Row

\* No account but a new one is written, with the sequence past all that are there.
LEMMA NewAccount ==
    ASSUME AccountsInv, NEW name \in Name, NEW admin \in BOOLEAN,
           row' \in [User -> Row],
           \A u \in User : \/ row'[u] = row[u]
                           \/ ~row[u].there /\ row'[u] = NewRow(name, admin),
           nextId' \in 1 .. MaxUser + 1,
           \A u \in User : row'[u].there => u < nextId',
           UNCHANGED <<link, jar, secret, history>>,
           acts' \in acts .. MaxActs,
           req' \in [Actor -> Request],
           \A d \in Actor : req'[d] = req[d] \/ Good(d)'
    PROVE  AccountsInv'
  <1>1. \A u \in User : row[u].there => row'[u] = row[u]
    OBVIOUS
  <1>2. TypeOK'
    <2>1. ASSUME NEW k \in Link, link'[k].user # 0
          PROVE  row'[link'[k].user].there
      <3>1. link'[k].user = link[k].user /\ link[k].user \in User /\ row[link[k].user].there
        BY <2>1, Bounds DEF AccountsInv, TypeOK
      <3> QED BY <3>1, <1>1
    <2>2. acts' \in 0 .. MaxActs
      BY DEF AccountsInv, TypeOK
    <2> QED BY <2>1, <2>2 DEF AccountsInv, TypeOK, history
  <1>3. ASSUME NEW u \in User PROVE RowFits(u)'
    <2>1. RowFits(u) /\ (row'[u].there => u < nextId')
      BY DEF AccountsInv
    <2>2. CASE row'[u] = row[u]
      BY <2>1, <2>2 DEF RowFits, history
    <2>3. CASE row'[u] = NewRow(name, admin)
      BY <2>1, <2>3, NewRowType DEF RowFits
    <2> QED BY <2>2, <2>3
  <1>4. \A k \in Link : LinkFits(k)'
    BY DEF AccountsInv, LinkFits
  <1>5. (secret <= acts)'
    BY Bounds DEF AccountsInv, TypeOK
  <1>7. ASSUME NEW d \in Actor PROVE Good(d)'
    <2>1. CASE req'[d] = req[d]
      <3>1. Good(d) /\ req[d] \in Request
        BY DEF AccountsInv, TypeOK
      <3>2. Fits(d)'
        BY <2>1, <3>1 DEF Good, Fits
      <3>3. req[d].at # "idle" => req[d].id \in User
        BY <3>1 DEF Good, Fits
      <3>4. WriterKnows(d)'
        BY <1>1, <2>1, <3>1, <3>3 DEF Good, WriterKnows
      <3>5. SignerKnows(d)'
        BY <1>1, <2>1, <3>1, <3>3 DEF Good, SignerKnows, history
      <3> QED BY <3>2, <3>4, <3>5 DEF Good
    <2> QED BY <2>1
  <1>8. ASSUME NEW d \in Browser PROVE SessionFits(d)'
    <2>1. jar[d] # NoSession => jar[d].user \in User
      BY DEF AccountsInv, TypeOK, Session
    <2> QED BY <1>1, <2>1 DEF AccountsInv, SessionFits, history
  <1> QED BY <1>2, <1>3, <1>4, <1>5, <1>7, <1>8 DEF AccountsInv

LEMMA CreateUserInv ==
    ASSUME AccountsInv, NEW name \in Name, NEW admin \in BOOLEAN, CreateUser(name, admin)
    PROVE  AccountsInv'
  <1>1. /\ nextId \in User /\ nextId' = nextId + 1 /\ ~row[nextId].there
        /\ row' = [row EXCEPT ![nextId] = NewRow(name, admin)]
        /\ UNCHANGED <<link, jar, req, secret, history>>
    <2>1. nextId \in User /\ RowFits(nextId)
      BY DEF CreateUser, AccountsInv
    <2>2. nextId \in Nat
      BY <2>1, Bounds
    <2>3. ~row[nextId].there
      BY <2>1, <2>2 DEF RowFits
    <2> QED BY <2>1, <2>3 DEF CreateUser
  <1>2. row' \in [User -> Row]
    BY <1>1, NewRowType DEF AccountsInv, TypeOK
  <1>3. \A u \in User : row'[u] = IF u = nextId THEN NewRow(name, admin) ELSE row[u]
    BY <1>1 DEF AccountsInv, TypeOK
  <1>4. \A u \in User : \/ row'[u] = row[u]
                        \/ ~row[u].there /\ row'[u] = NewRow(name, admin)
    BY <1>1, <1>3
  <1>5. nextId' \in 1 .. MaxUser + 1
    BY <1>1, Bounds
  <1>6. ASSUME NEW u \in User, row'[u].there PROVE u < nextId'
    <2>1. u = nextId \/ row[u].there
      BY <1>3, <1>6
    <2>2. u = nextId \/ u < nextId
      BY <2>1 DEF AccountsInv, RowFits
    <2> QED BY <1>1, <2>2, Bounds
  <1>7. acts' \in acts .. MaxActs
    BY Bounds DEF CreateUser, AccountsInv, TypeOK
  <1>8. req' \in [Actor -> Request] /\ \A d \in Actor : req'[d] = req[d]
    BY <1>1 DEF AccountsInv, TypeOK
  <1> QED BY <1>1, <1>2, <1>4, <1>5, <1>6, <1>7, <1>8, NewAccount

LEMMA EnsureSeedUserInv ==
    ASSUME AccountsInv, NEW c \in Shell, EnsureSeedUser(c)
    PROVE  AccountsInv'
  <1> PICK r : r = [Idle EXCEPT !.at = "migrate", !.id = SeedUser, !.new = ConfiguredPassword,
                                !.name = IF row[SeedUser].there THEN row[SeedUser].name
                                         ELSE ConfiguredName]
    OBVIOUS
  <1>1. Begin(c, r) /\ c \in Actor
    BY DEF EnsureSeedUser, Actor
  <1>2. SeedUser \in User /\ ConfiguredName \in Name
    BY Bounds DEF SeedUser, ConfiguredName
  <1>3. (IF row[SeedUser].there THEN row[SeedUser].name ELSE ConfiguredName) \in Name
    BY <1>2 DEF AccountsInv, RowFits
  <1>4. /\ r.at = "migrate" /\ r.id = SeedUser /\ r.new = ConfiguredPassword
        /\ r.name = IF row[SeedUser].there THEN row[SeedUser].name ELSE ConfiguredName
        /\ r.stale = FALSE
    BY DEF Idle
  <1>5. ConfiguredPassword \in {0} \cup Name \cup Password
    BY AccountsConstants DEF Password
  <1>6. r \in Request
    BY <1>2, <1>3, <1>5, IdleType, Bounds DEF Request, Idle, Step
  <1>7. /\ req' = [req EXCEPT ![c] = r] /\ req' \in [Actor -> Request] /\ req'[c] = r
        /\ \A d \in Actor \ {c} : req'[d] = req[d]
    BY <1>1, <1>6 DEF Begin, AccountsInv, TypeOK
  <1>8. /\ row' \in [User -> Row]
        /\ row'[SeedUser].there /\ row'[SeedUser].name = r.name
        /\ \A u \in User : \/ row'[u] = row[u]
                           \/ ~row[u].there /\ row'[u] = NewRow(ConfiguredName, TRUE)
    <2>1. row \in [User -> Row]
      BY DEF AccountsInv, TypeOK
    <2>2. CASE row[SeedUser].there
      BY <1>4, <2>1, <2>2 DEF EnsureSeedUser
    <2>3. CASE ~row[SeedUser].there
      <3>1. row' = [row EXCEPT ![SeedUser] = NewRow(ConfiguredName, TRUE)]
        BY <2>3 DEF EnsureSeedUser
      <3>2. NewRow(ConfiguredName, TRUE) \in Row /\ NewRow(ConfiguredName, TRUE).there
            /\ NewRow(ConfiguredName, TRUE).name = ConfiguredName
        BY <1>2, NewRowType
      <3> QED BY <1>2, <1>4, <2>1, <2>3, <3>1, <3>2
    <2> QED BY <2>2, <2>3
  <1>9. nextId' \in 1 .. MaxUser + 1 /\ \A u \in User : row'[u].there => u < nextId'
    <2>1. PICK u \in User : /\ row'[u].there /\ \A v \in u + 1 .. MaxUser : ~row'[v].there
                            /\ nextId' = u + 1
      BY DEF EnsureSeedUser, SetSequence
    <2>2. \A v \in User : v > u => v \in u + 1 .. MaxUser
      BY Bounds
    <2> QED BY <2>1, <2>2, Bounds
  <1>10. Good(c)'
    <2>1. Fits(c)'
      BY <1>2, <1>3, <1>4, <1>7 DEF Fits
    <2>2. WriterKnows(c)'
      BY <1>4, <1>7, <1>8 DEF WriterKnows
    <2>3. SignerKnows(c)'
      BY <1>4, <1>7 DEF SignerKnows
    <2> QED BY <2>1, <2>2, <2>3 DEF Good
  <1>11. acts' \in acts .. MaxActs
    BY <1>1, Bounds DEF Begin, AccountsInv, TypeOK
  <1>12. \A d \in Actor : req'[d] = req[d] \/ Good(d)'
    BY <1>7, <1>10
  <1>13. UNCHANGED <<link, jar, secret, history>>
    BY DEF EnsureSeedUser
  <1> QED BY <1>2, <1>7, <1>8, <1>9, <1>11, <1>12, <1>13, NewAccount

\* What a deletion leaves of the requests of others.
Bereft(d, u) ==
    /\ req'[d].at = req[d].at /\ req'[d].id = req[d].id
    /\ req'[d].name = req[d].name /\ req'[d].old = req[d].old
    /\ req'[d].new = req[d].new /\ req'[d].link = req[d].link
    /\ req'[d].epoch = req[d].epoch
    /\ req[d].id = u => req'[d].stale
    /\ ~req'[d].stale => ~req[d].stale

LEMMA Bereaved ==
    ASSUME AccountsInv, NEW c \in Actor, NEW u \in User,
           req' = [d \in Actor |-> IF d = c THEN Idle
                                   ELSE IF req[d].id = u
                                   THEN [req[d] EXCEPT !.stale = TRUE] ELSE req[d]]
    PROVE  /\ req' \in [Actor -> Request] /\ req'[c] = Idle
           /\ \A d \in Actor \ {c} : Bereft(d, u)
  <1>1. ASSUME NEW q \in Request
        PROVE  /\ [q EXCEPT !.stale = TRUE] \in Request
               /\ [q EXCEPT !.stale = TRUE].at = q.at /\ [q EXCEPT !.stale = TRUE].id = q.id
               /\ [q EXCEPT !.stale = TRUE].name = q.name
               /\ [q EXCEPT !.stale = TRUE].old = q.old
               /\ [q EXCEPT !.stale = TRUE].new = q.new
               /\ [q EXCEPT !.stale = TRUE].link = q.link
               /\ [q EXCEPT !.stale = TRUE].epoch = q.epoch
               /\ [q EXCEPT !.stale = TRUE].stale
    BY DEF Request
  <1>2. req \in [Actor -> Request]
    BY DEF AccountsInv, TypeOK
  <1>3. req' \in [Actor -> Request] /\ req'[c] = Idle
    BY <1>1, <1>2, IdleType
  <1>4. ASSUME NEW d \in Actor \ {c}
        PROVE  /\ req[d] \in Request
               /\ \/ req[d].id = u /\ req'[d] = [req[d] EXCEPT !.stale = TRUE]
                  \/ req[d].id # u /\ req'[d] = req[d]
    BY <1>2
  <1>5. ASSUME NEW d \in Actor \ {c} PROVE Bereft(d, u)
    <2>1. CASE req[d].id = u /\ req'[d] = [req[d] EXCEPT !.stale = TRUE]
      BY <1>1, <1>4, <2>1 DEF Bereft
    <2>2. CASE req[d].id # u /\ req'[d] = req[d]
      BY <2>2 DEF Bereft
    <2> QED BY <1>4, <2>1, <2>2
  <1> QED BY <1>3, <1>5

LEMMA DeleteUserInv ==
    ASSUME AccountsInv, NEW c \in Actor, DeleteUser(c)
    PROVE  AccountsInv'
  <1> DEFINE u == req[c].id
  <1>1. /\ Good(c) /\ req[c] \in Request /\ req[c].at = "delete" /\ row[u].there
        /\ UNCHANGED <<nextId, secret, acts>>
        /\ crossed' = crossed \ {u} /\ gone' = gone \cup {u}
    BY DEF AccountsInv, TypeOK, DeleteUser, At
  <1>2. u \in User /\ row \in [User -> Row]
    BY <1>1 DEF Good, Fits, AccountsInv, TypeOK
  <1>3. /\ row' \in [User -> Row] /\ row'[u] = NoRow
        /\ \A v \in User \ {u} : row'[v] = row[v]
    BY <1>2, NoRowType DEF DeleteUser
  <1>4. /\ req' \in [Actor -> Request] /\ req'[c] = Idle
        /\ \A d \in Actor \ {c} : Bereft(d, u)
    <2>1. req' = [d \in Actor |-> IF d = c THEN Idle
                                   ELSE IF req[d].id = u
                                   THEN [req[d] EXCEPT !.stale = TRUE] ELSE req[d]]
      BY DEF DeleteUser
    <2> HIDE DEF u
    <2> QED BY <1>2, <2>1, Bereaved
  <1>5. /\ link' \in [Link -> [user : 0 .. MaxUser, usable : BOOLEAN, issued : BOOLEAN]]
        /\ \A k \in Link : \/ link[k].user = u /\ link'[k].user = 0
                              /\ link'[k].usable = FALSE /\ link'[k].issued
                           \/ link[k].user # u /\ link'[k] = link[k]
    <2>1. /\ [NoLink EXCEPT !.issued = TRUE] \in
                [user : 0 .. MaxUser, usable : BOOLEAN, issued : BOOLEAN]
          /\ [NoLink EXCEPT !.issued = TRUE].user = 0
          /\ [NoLink EXCEPT !.issued = TRUE].usable = FALSE
          /\ [NoLink EXCEPT !.issued = TRUE].issued
      <3>1. /\ NoLink \in [user : 0 .. MaxUser, usable : BOOLEAN, issued : BOOLEAN]
            /\ NoLink.user = 0 /\ NoLink.usable = FALSE
        BY Bounds DEF NoLink
      <3> QED BY ONLY <3>1
    <2>2. link \in [Link -> [user : 0 .. MaxUser, usable : BOOLEAN, issued : BOOLEAN]]
      BY DEF AccountsInv, TypeOK
    <2>3. link' = [k \in Link |-> IF link[k].user = u THEN [NoLink EXCEPT !.issued = TRUE]
                                  ELSE link[k]]
      BY DEF DeleteUser
    <2> HIDE DEF u
    <2> QED BY <2>1, <2>2, <2>3
  <1>6. /\ jar' \in [Browser -> Session \cup {NoSession}]
        /\ \A d \in Browser : jar'[d] = NoSession \/ jar'[d] = jar[d]
    BY DEF DeleteUser, AccountsInv, TypeOK
  <1> HIDE DEF u
  <1>7. TypeOK'
    <2>1. ASSUME NEW k \in Link, link'[k].user # 0
          PROVE  row'[link'[k].user].there
      <3>1. link'[k] = link[k] /\ link[k].user \in User /\ row[link[k].user].there
            /\ link[k].user # u
        BY <1>5, <2>1, Bounds DEF AccountsInv, TypeOK
      <3> QED BY <3>1, <1>3
    <2>2. crossed' \subseteq User /\ gone' \subseteq User
      BY <1>1, <1>2 DEF AccountsInv, TypeOK
    <2> QED BY <1>1, <1>3, <1>4, <1>5, <1>6, <2>1, <2>2 DEF AccountsInv, TypeOK
  <1>8. ASSUME NEW v \in User PROVE RowFits(v)'
    <2>1. RowFits(v)
      BY DEF AccountsInv
    <2>2. CASE v = u
      BY <1>1, <1>3, <2>2 DEF RowFits, NoRow
    <2>3. CASE v # u
      BY <1>1, <1>3, <2>1, <2>3 DEF RowFits
    <2> QED BY <2>2, <2>3
  <1>9. \A k \in Link : LinkFits(k)'
    BY <1>5 DEF AccountsInv, LinkFits
  <1>12. ASSUME NEW d \in Actor PROVE Good(d)'
    <2>1. CASE d = c
      BY <1>4, <2>1 DEF Good, Fits, WriterKnows, SignerKnows, Idle
    <2>2. CASE d # c
      <3>1. Good(d)
        BY DEF AccountsInv
      <3>2. /\ req'[d].at = req[d].at /\ req'[d].id = req[d].id
            /\ req'[d].name = req[d].name /\ req'[d].old = req[d].old
            /\ req'[d].new = req[d].new /\ req'[d].link = req[d].link
            /\ req'[d].epoch = req[d].epoch
            /\ req[d].id = u => req'[d].stale
            /\ ~req'[d].stale => ~req[d].stale
        BY <1>4, <2>2 DEF Bereft
      <3>3. Fits(d)'
        <4>1. req[d].at = "redeem" =>
                 /\ link'[req[d].link].issued
                 /\ link'[req[d].link].user \in {0, req[d].id}
          BY <1>5, <3>1 DEF Good, Fits
        <4> QED BY <3>1, <3>2, <4>1 DEF Good, Fits
      <3>4. req[d].at # "idle" /\ req[d].id # u => row'[req[d].id] = row[req[d].id]
        BY <1>3, <3>1 DEF Good, Fits
      <3>5. WriterKnows(d)'
        BY <3>1, <3>2, <3>4 DEF Good, WriterKnows
      <3>6. SignerKnows(d)'
        BY <1>1, <3>1, <3>2, <3>4 DEF Good, SignerKnows
      <3> QED BY <3>3, <3>5, <3>6 DEF Good
    <2> QED BY <2>1, <2>2
  <1>13. ASSUME NEW d \in Browser PROVE SessionFits(d)'
    <2>1. jar[d] # NoSession => jar[d].user \in User
      BY DEF AccountsInv, TypeOK, Session
    <2>2. SessionFits(d)
      BY DEF AccountsInv
    <2> QED BY <1>1, <1>3, <1>6, <2>1, <2>2 DEF SessionFits
  <1>15. (secret <= acts)'
    BY <1>1 DEF AccountsInv
  <1> QED BY <1>7, <1>8, <1>9, <1>12, <1>13, <1>15 DEF AccountsInv

-----------------------------------------------------------------------------
(* Links, and a new process.                                               *)

\* Only the links have changed, and requests that hold one still do.
LEMMA Linked ==
    ASSUME AccountsInv,
           UNCHANGED <<row, nextId, jar, secret, acts, history>>,
           req' \in [Actor -> Request],
           \A d \in Actor : req'[d] = req[d] \/ req'[d] = Idle,
           link' \in [Link -> [user : 0 .. MaxUser, usable : BOOLEAN, issued : BOOLEAN]],
           \A k \in Link :
              /\ link[k].issued => link'[k].issued /\ link'[k].user = link[k].user
              /\ link'[k].user # 0 => row[link'[k].user].there /\ link'[k].issued
              /\ link'[k].usable => link'[k].user # 0
    PROVE  AccountsInv'
  <1>1. TypeOK'
    BY DEF AccountsInv, TypeOK, history
  <1>2. \A u \in User : RowFits(u)'
    BY DEF AccountsInv, RowFits, history
  <1>3. \A k \in Link : LinkFits(k)'
    BY DEF LinkFits
  <1>5. ASSUME NEW d \in Actor PROVE Good(d)'
    <2>1. CASE req'[d] = Idle
      BY <2>1 DEF Good, Fits, WriterKnows, SignerKnows, Idle
    <2>2. CASE req'[d] = req[d]
      <3>1. Good(d)
        BY DEF AccountsInv
      <3>2. Fits(d)'
        BY <2>2, <3>1 DEF Good, Fits
      <3> QED BY <2>2, <3>1, <3>2 DEF Good, WriterKnows, SignerKnows, history
    <2> QED BY <2>1, <2>2
  <1>6. \A d \in Browser : SessionFits(d)'
    BY DEF AccountsInv, SessionFits, history
  <1> QED BY <1>1, <1>2, <1>3, <1>5, <1>6 DEF AccountsInv

LEMMA LinkExpiresInv ==
    ASSUME AccountsInv, NEW k \in Link, LinkExpires(k)
    PROVE  AccountsInv'
  <1>1. LinksKept
    BY Spent DEF LinkExpires
  <1>2. /\ UNCHANGED <<row, nextId, jar, secret, acts, history>>
        /\ req' \in [Actor -> Request] /\ \A d \in Actor : req'[d] = req[d]
    BY DEF LinkExpires, AccountsInv, TypeOK
  <1>3. \A j \in Link :
              /\ link[j].issued => link'[j].issued /\ link'[j].user = link[j].user
              /\ link'[j].user # 0 => row[link'[j].user].there /\ link'[j].issued
              /\ link'[j].usable => link'[j].user # 0
    BY <1>1 DEF LinksKept, AccountsInv, TypeOK, LinkFits
  <1> QED BY <1>1, <1>2, <1>3, Linked DEF LinksKept

LEMMA InsertLinkInv ==
    ASSUME AccountsInv, NEW c \in Actor, InsertLink(c)
    PROVE  AccountsInv'
  <1>1. PICK k \in Link :
           /\ ~link[k].issued
           /\ link' = [j \in Link |->
                         IF j = k THEN [user |-> req[c].id, usable |-> TRUE, issued |-> TRUE]
                         ELSE IF j \in req[c].locks THEN [link[j] EXCEPT !.usable = FALSE]
                         ELSE link[j]]
    BY DEF InsertLink
  <1>2. /\ Good(c) /\ req[c].at = "link.insert" /\ row[req[c].id].there
        /\ UNCHANGED <<row, nextId, jar, secret, acts, history>>
        /\ req' = [req EXCEPT ![c] = Idle]
        /\ link \in [Link -> [user : 0 .. MaxUser, usable : BOOLEAN, issued : BOOLEAN]]
    BY DEF InsertLink, At, Answer, AccountsInv, TypeOK
  <1>3. req[c].id \in User /\ req[c].id \in 0 .. MaxUser /\ req[c].id # 0
    BY <1>2, Bounds DEF Good, Fits
  <1>4. req' \in [Actor -> Request] /\ \A d \in Actor : req'[d] = req[d] \/ req'[d] = Idle
    BY <1>2, IdleType DEF AccountsInv, TypeOK
  <1>5. ASSUME NEW j \in Link
        PROVE  /\ [link[j] EXCEPT !.usable = FALSE] \in
                     [user : 0 .. MaxUser, usable : BOOLEAN, issued : BOOLEAN]
               /\ [link[j] EXCEPT !.usable = FALSE].user = link[j].user
               /\ [link[j] EXCEPT !.usable = FALSE].issued = link[j].issued
               /\ [link[j] EXCEPT !.usable = FALSE].usable = FALSE
    BY <1>2
  <1> DEFINE l == [user |-> req[c].id, usable |-> TRUE, issued |-> TRUE]
  <1>6. /\ l \in [user : 0 .. MaxUser, usable : BOOLEAN, issued : BOOLEAN]
        /\ l.user = req[c].id /\ l.usable /\ l.issued
    BY <1>3
  <1> HIDE DEF l
  <1>7. ASSUME NEW j \in Link
        PROVE  \/ j = k /\ link'[j] = l
               \/ j # k /\ link'[j] = [link[j] EXCEPT !.usable = FALSE]
               \/ j # k /\ link'[j] = link[j]
    BY <1>1 DEF l
  <1>8. link' \in [Link -> [user : 0 .. MaxUser, usable : BOOLEAN, issued : BOOLEAN]]
    <2>1. \A j \in Link : link'[j] \in [user : 0 .. MaxUser, usable : BOOLEAN, issued : BOOLEAN]
      BY <1>2, <1>5, <1>6, <1>7
    <2>2. link' = [j \in Link |-> link'[j]]
      BY <1>1
    <2> QED BY <2>1, <2>2
  <1>9. ASSUME NEW j \in Link
        PROVE  /\ link[j].issued => link'[j].issued /\ link'[j].user = link[j].user
               /\ link'[j].user # 0 => row[link'[j].user].there /\ link'[j].issued
               /\ link'[j].usable => link'[j].user # 0
    <2>1. /\ link[j].user # 0 => row[link[j].user].there
          /\ LinkFits(j)
      BY DEF AccountsInv, TypeOK
    <2>2. CASE j = k /\ link'[j] = l
      BY <1>1, <1>2, <1>3, <1>6, <2>2
    <2>3. CASE j # k /\ link'[j] = [link[j] EXCEPT !.usable = FALSE]
      BY <1>5, <2>1, <2>3 DEF LinkFits
    <2>4. CASE j # k /\ link'[j] = link[j]
      BY <2>1, <2>4 DEF LinkFits
    <2> QED BY <1>7, <2>2, <2>3, <2>4
  <1> QED BY <1>2, <1>4, <1>8, <1>9, Linked

LEMMA RestartInv ==
    ASSUME AccountsInv, Restart
    PROVE  AccountsInv'
  <1>1. /\ UNCHANGED <<row, nextId, link, jar, history>>
        /\ req' \in [Actor -> Request] /\ \A d \in Actor : req'[d] = req[d] \/ req'[d] = Idle
    BY IdleType DEF Restart, AccountsInv, TypeOK
  <1>2. secret' \in 0 .. MaxActs /\ acts' \in 0 .. MaxActs /\ secret' <= acts'
    BY Bounds DEF Restart, AccountsInv, TypeOK
  <1>3. TypeOK'
    BY <1>1, <1>2 DEF AccountsInv, TypeOK, history
  <1>4. \A u \in User : RowFits(u)'
    BY <1>1 DEF AccountsInv, RowFits, history
  <1>5. \A k \in Link : LinkFits(k)'
    BY <1>1 DEF AccountsInv, LinkFits
  <1>6. ASSUME NEW d \in Actor PROVE Good(d)'
    <2>1. CASE req'[d] = Idle
      BY <2>1 DEF Good, Fits, WriterKnows, SignerKnows, Idle
    <2>2. CASE req'[d] = req[d]
      <3>1. Good(d)
        BY DEF AccountsInv
      <3> QED BY <1>1, <2>2, <3>1
            DEF Good, Fits, WriterKnows, SignerKnows, history
    <2> QED BY <1>1, <2>1, <2>2
  <1>7. \A d \in Browser : SessionFits(d)'
    BY <1>1 DEF AccountsInv, SessionFits, history
  <1> QED BY <1>2, <1>3, <1>4, <1>5, <1>6, <1>7 DEF AccountsInv

-----------------------------------------------------------------------------
(* Every step.                                                             *)

LEMMA AsksInv ==
    ASSUME AccountsInv, NEW c \in Browser, Asks(c)
    PROVE  AccountsInv'
  <1>0. 0 \in 0 .. MaxPassword /\ Password \subseteq 0 .. MaxPassword
    BY Bounds
  <1>1. ASSUME NEW u \in User, NEW p \in Password, SignIn(c, u, p) PROVE AccountsInv'
    BY <1>1, SignInInv
  <1>2. ASSUME NEW old \in Password, NEW new \in Password, ChangePassword(c, old, new)
        PROVE  AccountsInv'
    <2>1. RequireUser(c, "password.check", jar[c].user, old, new)
      BY <1>2 DEF ChangePassword
    <2>2. jar[c].user \in User
      BY <2>1, Admitted DEF RequireUser
    <2> QED BY <1>0, <2>1, <2>2, RequireUserInv
  <1>3. ASSUME NEW old \in Password, NEW n \in Name, ChangeUsername(c, old, n)
        PROVE  AccountsInv'
    <2>1. RequireUser(c, "name.check", jar[c].user, old, n)
      BY <1>3 DEF ChangeUsername
    <2>2. jar[c].user \in User
      BY <2>1, Admitted DEF RequireUser
    <2> QED BY <1>0, <2>1, <2>2, RequireUserInv
  <1>4. ASSUME NEW old \in Password, DeleteMyAccount(c, old) PROVE AccountsInv'
    <2>1. RequireUser(c, "self.check", jar[c].user, old, 0)
      BY <1>4 DEF DeleteMyAccount
    <2>2. jar[c].user \in User
      BY <2>1, Admitted DEF RequireUser
    <2> QED BY <1>0, <2>1, <2>2, RequireUserInv
  <1>5. ASSUME SignOutEverywhere(c) PROVE AccountsInv'
    <2>1. RequireUser(c, "bump", jar[c].user, 0, 0)
      BY <1>5 DEF SignOutEverywhere
    <2>2. jar[c].user \in User
      BY <2>1, Admitted DEF RequireUser
    <2> QED BY <1>0, <2>1, <2>2, RequireUserInv
  <1>6. ASSUME NEW k \in Link, NEW new \in Password, SetupLinkAccount(c, k, new)
        PROVE  AccountsInv'
    BY <1>6, SetupLinkAccountInv
  <1>7. ASSUME NEW n \in Name, NEW admin \in BOOLEAN, HandleCreateUser(c, n, admin)
        PROVE  AccountsInv'
    BY <1>7, CreateUserInv DEF HandleCreateUser
  <1>8. ASSUME NEW u \in User, HandleDeleteUser(c, u) \/ HandleIssueSetupLink(c, u)
        PROVE  AccountsInv'
    <2>1. PICK s \in {"delete.count", "link.supersede"} : RequireUser(c, s, u, 0, 0)
      BY <1>8 DEF HandleDeleteUser, HandleIssueSetupLink, RequireAdmin
    <2> QED BY <1>0, <2>1, RequireUserInv
  <1> QED BY <1>1, <1>2, <1>3, <1>4, <1>5, <1>6, <1>7, <1>8 DEF Asks

LEMMA RunsInv ==
    ASSUME AccountsInv, NEW c \in Shell, Runs(c)
    PROVE  AccountsInv'
  <1>1. ASSUME NEW n \in Name, NEW admin \in BOOLEAN, UserAdd(c, n, admin) PROVE AccountsInv'
    BY <1>1, CreateUserInv DEF UserAdd
  <1>2. ASSUME NEW u \in User, UserRemove(c, u) \/ UserLink(c, u) PROVE AccountsInv'
    BY <1>2, ShellInv DEF UserRemove, UserLink
  <1>3. ASSUME NEW n \in Name, NEW new \in Password, UserPasswd(c, n, new) PROVE AccountsInv'
    BY <1>3, UserPasswdInv
  <1>4. ASSUME EnsureSeedUser(c) PROVE AccountsInv'
    BY <1>4, EnsureSeedUserInv
  <1> QED BY <1>1, <1>2, <1>3, <1>4 DEF Runs

LEMMA ProceedsInv ==
    ASSUME AccountsInv, NEW c \in Actor, Proceeds(c)
    PROVE  AccountsInv'
  <1>1. CASE c \in Browser /\ (Issue(c) \/ Reissue(c) \/ BumpSessionEpoch(c))
    BY <1>1, IssueInv, ReissueInv, BumpSessionEpochInv
  <1>2. CASE \/ Verified(c, "password.check", "password.set")
             \/ Verified(c, "name.check", "name.set")
             \/ Verified(c, "self.check", "delete.count")
    BY <1>2, VerifiedInv
  <1>3. ASSUME NEW s, Refused(c, s) PROVE AccountsInv'
    BY <1>3, Answered DEF Refused
  <1>4. CASE StorePassword(c) \/ StoreUsername(c)
    BY <1>4, StorePasswordInv, StoreUsernameInv
  <1>5. CASE CountAdmins(c) \/ DeleteUser(c)
    BY <1>5, CountAdminsInv, DeleteUserInv
  <1>6. CASE SupersedeLinks(c) \/ InsertLink(c)
    BY <1>6, SupersedeLinksInv, InsertLinkInv
  <1>7. CASE RedeemSetupLink(c)
    BY <1>7, RedeemSetupLinkInv
  <1>8. CASE LinkUnusable(c)
    BY <1>8, Answered DEF LinkUnusable
  <1>9. CASE Migrate(c)
    BY <1>9, MigrateInv
  <1>10. ASSUME NEW s, StatementFails(c, s) PROVE AccountsInv'
    BY <1>10, Answered DEF StatementFails
  <1> QED BY <1>1, <1>2, <1>3, <1>4, <1>5, <1>6, <1>7, <1>8, <1>9, <1>10 DEF Proceeds

LEMMA NextInv == AccountsInv /\ [Next]_vars => AccountsInv'
  <1> SUFFICES ASSUME AccountsInv, [Next]_vars PROVE AccountsInv'
    OBVIOUS
  <1>1. ASSUME NEW c \in Actor, Proceeds(c) PROVE AccountsInv'
    BY <1>1, ProceedsInv
  <1>2. ASSUME NEW c \in Browser, Asks(c) PROVE AccountsInv'
    BY <1>2, AsksInv
  <1>3. ASSUME NEW c \in Shell, Runs(c) PROVE AccountsInv'
    BY <1>3, RunsInv
  <1>4. ASSUME NEW c \in Browser, RefuseAnonymous(c) \/ Logout(c) PROVE AccountsInv'
    BY <1>4, ClearInv
  <1>5. ASSUME NEW k \in Link, LinkExpires(k) PROVE AccountsInv'
    BY <1>5, LinkExpiresInv
  <1>6. CASE Restart
    BY <1>6, RestartInv
  <1>7. CASE UNCHANGED vars
    BY <1>7 DEF vars, history, AccountsInv, TypeOK, RowFits, LinkFits, Good, Fits, WriterKnows,
         SignerKnows, SessionFits
  <1> QED BY <1>1, <1>2, <1>3, <1>4, <1>5, <1>6, <1>7 DEF Next

-----------------------------------------------------------------------------
(* The theorems.                                                           *)

LEMMA AlwaysInv == Spec => []AccountsInv
  <1> QED BY InitInv, NextInv, PTL DEF Spec

\* Every statement leaves rows, links, requests and cookies the columns and the
\* handlers allow; a link never outlives the account it is for.
THEOREM TypeCorrect == Spec => []TypeOK
  <1>1. AccountsInv => TypeOK
    BY DEF AccountsInv
  <1> QED BY <1>1, AlwaysInv, PTL

\* A session that is admitted was opened with the password the account has, whatever
\* was changed between reading it and sealing the cookie.
THEOREM AdmittedKnows == Spec => []AdmittedKnowsThePassword
  <1>1. AccountsInv => AdmittedKnowsThePassword
    BY DEF AccountsInv, SessionFits, AdmittedKnowsThePassword, Admits, Identify
  <1> QED BY <1>1, AlwaysInv, PTL

\* The stored key is the one of the current name and password, and opens no other
\* account, unless two writers of its credentials overlapped.
THEOREM KeyFollows == Spec => []KeyFollowsNameAndPassword
  <1>1. ASSUME AccountsInv PROVE KeyFollowsNameAndPassword
    <2> SUFFICES ASSUME NEW u \in User \ crossed, row[u].there, row[u].pw # 0,
                        NEW n \in Name, NEW p \in Password
                 PROVE  u \in FeverAuthenticate(Key(n, p)) <=> n = row[u].name /\ p = row[u].pw
      BY DEF KeyFollowsNameAndPassword
    <2>1. row[u].key = <<row[u].name, row[u].pw>>
      BY <1>1 DEF AccountsInv, RowFits, Key
    <2>2. Key(n, p) # NoKey
      BY Bounds DEF Key, NoKey
    <2> QED BY <2>1, <2>2 DEF FeverAuthenticate, Key
  <1> QED BY <1>1, AlwaysInv, PTL

-----------------------------------------------------------------------------
(* What a step does to a request under way.                                *)

LEMMA BegunByOthers ==
    ASSUME AccountsInv, NEW c \in Actor, req[c].at # "idle",
           NEW d \in Actor, NEW r, Begin(d, r)
    PROVE  req'[c] = req[c]
  BY DEF Begin, At, AccountsInv, TypeOK

LEMMA AsksApart ==
    ASSUME AccountsInv, NEW c \in Actor, req[c].at # "idle", NEW d \in Browser, Asks(d)
    PROVE  req'[c] = req[c]
  <1>0. d \in Actor
    BY DEF Actor
  <1>1. ASSUME NEW s, NEW id, NEW old, NEW new, RequireUser(d, s, id, old, new)
        PROVE  req'[c] = req[c]
    BY <1>0, <1>1, BegunByOthers DEF RequireUser
  <1>2. ASSUME NEW u \in User, NEW p \in Password, SignIn(d, u, p) PROVE req'[c] = req[c]
    BY <1>0, <1>2, BegunByOthers DEF SignIn
  <1>3. ASSUME NEW k \in Link, NEW new \in Password, SetupLinkAccount(d, k, new)
        PROVE  req'[c] = req[c]
    BY <1>0, <1>3, BegunByOthers DEF SetupLinkAccount
  <1>4. ASSUME NEW n \in Name, NEW admin \in BOOLEAN, HandleCreateUser(d, n, admin)
        PROVE  req'[c] = req[c]
    BY <1>4 DEF HandleCreateUser, CreateUser
  <1>5. ASSUME NEW u \in User, HandleDeleteUser(d, u) \/ HandleIssueSetupLink(d, u)
        PROVE  req'[c] = req[c]
    BY <1>1, <1>5 DEF HandleDeleteUser, HandleIssueSetupLink, RequireAdmin
  <1> QED BY <1>1, <1>2, <1>3, <1>4, <1>5
        DEF Asks, ChangePassword, ChangeUsername, DeleteMyAccount, SignOutEverywhere

LEMMA RunsApart ==
    ASSUME AccountsInv, NEW c \in Actor, req[c].at # "idle", NEW d \in Shell, Runs(d)
    PROVE  req'[c] = req[c]
  <1>0. d \in Actor
    BY DEF Actor
  <1>1. ASSUME NEW n \in Name, NEW admin \in BOOLEAN, UserAdd(d, n, admin)
        PROVE  req'[c] = req[c]
    BY <1>1 DEF UserAdd, CreateUser
  <1>2. ASSUME NEW u \in User, UserRemove(d, u) \/ UserLink(d, u) PROVE req'[c] = req[c]
    BY <1>0, <1>2, BegunByOthers DEF UserRemove, UserLink
  <1>3. ASSUME NEW n \in Name, NEW new \in Password, UserPasswd(d, n, new)
        PROVE  req'[c] = req[c]
    BY <1>0, <1>3, BegunByOthers DEF UserPasswd
  <1>4. ASSUME EnsureSeedUser(d) PROVE req'[c] = req[c]
    BY <1>0, <1>4, BegunByOthers DEF EnsureSeedUser
  <1> QED BY <1>1, <1>2, <1>3, <1>4 DEF Runs

LEMMA SetPasswordApart ==
    ASSUME AccountsInv, NEW c \in Actor, NEW d \in Actor \ {c},
           NEW u, NEW name, NEW new, NEW next,
           SetPassword(d, u, name, new, next) \/ SetUsername(d, u, name, new)
    PROVE  req'[c].at = req[c].at
  <1>1. req[c] \in Request
    BY DEF AccountsInv, TypeOK
  <1>2. req'[c] = [req[c] EXCEPT !.stale = TRUE] \/ req'[c] = req[c]
    BY DEF SetPassword, SetUsername, Overtaking
  <1> QED BY <1>1, <1>2 DEF Request

LEMMA ProceedsApart ==
    ASSUME AccountsInv, NEW c \in Actor, NEW d \in Actor \ {c}, Proceeds(d)
    PROVE  req'[c].at = req[c].at
  <1>0. req \in [Actor -> Request]
    BY DEF AccountsInv, TypeOK
  <1>1. CASE d \in Browser /\ (Issue(d) \/ Reissue(d) \/ BumpSessionEpoch(d))
    BY <1>0, <1>1 DEF Issue, Reissue, BumpSessionEpoch, Answer
  <1>2. ASSUME NEW s, NEW t, Verified(d, s, t) PROVE req'[c].at = req[c].at
    BY <1>0, <1>2 DEF Verified, Goes
  <1>3. ASSUME NEW s, Refused(d, s) \/ StatementFails(d, s) PROVE req'[c].at = req[c].at
    BY <1>0, <1>3 DEF Refused, StatementFails, Answer
  <1>4. CASE StorePassword(d) \/ StoreUsername(d) \/ RedeemSetupLink(d)
    BY <1>4, SetPasswordApart DEF StorePassword, StoreUsername, RedeemSetupLink
  <1>5. CASE CountAdmins(d) \/ SupersedeLinks(d)
    BY <1>0, <1>5 DEF CountAdmins, SupersedeLinks, Answer, Goes
  <1>6. CASE InsertLink(d) \/ LinkUnusable(d)
    BY <1>0, <1>6 DEF InsertLink, LinkUnusable, Answer
  <1>7. CASE Migrate(d)
    BY <1>0, <1>7 DEF Migrate, Answer, Goes
  <1>8. CASE DeleteUser(d)
    <2>1. req'[c] = [req[c] EXCEPT !.stale = TRUE] \/ req'[c] = req[c]
      BY <1>8 DEF DeleteUser
    <2> QED BY <1>0, <2>1 DEF Request
  <1> QED BY <1>1, <1>2, <1>3, <1>4, <1>5, <1>6, <1>7, <1>8 DEF Proceeds

\* A request moves on by a statement of its own, or a new process forgets it.
LEMMA OwnStatement ==
    ASSUME AccountsInv, [Next]_vars, NEW c \in Actor, req[c].at # "idle",
           req'[c].at # req[c].at
    PROVE  Proceeds(c) \/ Restart
  <1>1. ASSUME NEW d \in Actor, Proceeds(d), d # c PROVE FALSE
    BY <1>1, ProceedsApart
  <1>2. ASSUME NEW d \in Browser, Asks(d) PROVE FALSE
    BY <1>2, AsksApart
  <1>3. ASSUME NEW d \in Shell, Runs(d) PROVE FALSE
    BY <1>3, RunsApart
  <1>4. ASSUME NEW d \in Browser, RefuseAnonymous(d) \/ Logout(d) PROVE FALSE
    BY <1>4 DEF RefuseAnonymous, Logout
  <1>5. ASSUME NEW k \in Link, LinkExpires(k) PROVE FALSE
    BY <1>5 DEF LinkExpires
  <1>6. ASSUME UNCHANGED vars PROVE FALSE
    BY <1>6 DEF vars
  <1> QED BY <1>1, <1>2, <1>3, <1>4, <1>5, <1>6 DEF Next

\* A deploy that configures the password the account has writes nothing, by whatever
\* name the account goes, unless somebody was writing its credentials.
THEOREM DeploysAreQuiet == Spec => DeployIsQuiet
  <1>1. ASSUME AccountsInv, [Next]_vars, NEW c \in Shell, Migrating(c),
               req'[c].at = "password.set", ~req[c].stale
        PROVE  row[SeedUser].pw # ConfiguredPassword
    <2>1. c \in Actor /\ req[c].at = "migrate" /\ Good(c) /\ SeedUser \in User
          /\ req \in [Actor -> Request]
      BY <1>1, Bounds DEF Migrating, At, Actor, AccountsInv, TypeOK, SeedUser
    <2>2. Proceeds(c) \/ Restart
      BY <1>1, <2>1, OwnStatement
    <2>3. ~Restart
      BY <1>1, <2>1 DEF Restart, Idle
    <2>4. Migrate(c)
      BY <2>1, <2>2, <2>3 DEF Proceeds, Issue, Reissue, BumpSessionEpoch, Verified, Refused,
         StorePassword, StoreUsername, CountAdmins, DeleteUser, SupersedeLinks, InsertLink,
         RedeemSetupLink, LinkUnusable, StatementFails, At
    <2>5. ConfiguredPassword # 0 /\ ~PasswordUnchanged(c)
      <3>1. Answer(c) => req'[c].at = "idle"
        BY <2>1 DEF Answer, Idle
      <3> QED BY <1>1, <2>4, <3>1 DEF Migrate
    <2>6. SeedUser \in Named(req[c].name)
      BY <1>1, <2>1 DEF Good, Fits, WriterKnows, Named
    <2> QED BY <2>5, <2>6 DEF PasswordUnchanged
  <1>2. AccountsInv /\ [Next]_vars =>
           [\A c \in Shell :
              Migrating(c) /\ req'[c].at = "password.set" =>
                 \/ req[c].stale
                 \/ row[SeedUser].pw # ConfiguredPassword]_vars
    BY <1>1
  <1> QED BY <1>2, AlwaysInv, PTL DEF Spec, DeployIsQuiet

\* A password is set by a link only while the link is usable, however many requests
\* hold it.
THEOREM LinksSetOnePassword == Spec => LinkSetsOnePassword
  <1>1. ASSUME AccountsInv, [Next]_vars, NEW c \in Actor, At(c, "redeem"),
               NEW u \in User, row'[u].pw # row[u].pw, req'[c] = Idle
        PROVE  Usable(req[c].link)
    <2>1. req[c].at = "redeem" /\ Idle.at = "idle"
      BY <1>1 DEF At, Idle
    <2>2. Proceeds(c) \/ Restart
      BY <1>1, <2>1, OwnStatement
    <2>3. ~Restart
      BY <1>1 DEF Restart
    <2>4. RedeemSetupLink(c) \/ LinkUnusable(c)
      BY <2>1, <2>2, <2>3 DEF Proceeds, Issue, Reissue, BumpSessionEpoch, Verified, Refused,
         StorePassword, StoreUsername, CountAdmins, DeleteUser, SupersedeLinks, InsertLink,
         Migrate, Migrating, StatementFails, At
    <2>5. ~LinkUnusable(c)
      BY <1>1 DEF LinkUnusable
    <2> QED BY <2>4, <2>5 DEF RedeemSetupLink
  <1>2. AccountsInv /\ [Next]_vars =>
           [\A c \in Actor :
              At(c, "redeem") /\ (\E u \in User : row'[u].pw # row[u].pw)
              /\ req'[c] = Idle => Usable(req[c].link)]_vars
    BY <1>1
  <1> QED BY <1>2, AlwaysInv, PTL DEF Spec, LinkSetsOnePassword

=============================================================================
