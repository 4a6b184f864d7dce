------------------------------- MODULE Accounts -------------------------------
(***************************************************************************)
(* Accounts of one household: what a browser, a mobile client and a shell  *)
(* may do, and what each of their requests does to the users table, to the *)
(* links that set a first password and to the cookies in the browsers.     *)
(*                                                                         *)
(* A request is its statements: it reads, checks a password (which takes   *)
(* long, by design) and then writes, and other requests come in between.   *)
(* Hashing, sealing and encoding are abstract: a hash is the password it   *)
(* verifies, a key is the pair it is computed from.                        *)
(***************************************************************************)
EXTENDS Integers, FiniteSets

CONSTANTS
    MaxUser,        \* bound: ids the sequence hands out
    MaxName, MaxPassword, MaxLink,  \* bounds: names, passwords, links issued
    Browser, Shell, \* who sends requests, who runs commands
    ConfiguredPassword,     \* TOME_PASSWORD, 0 if unset; TOME_USERNAME is 1
    SessionKeyConfigured,   \* whether TOME_SESSION_KEY is set
    MaxActs         \* bound: requests and commands begun

ASSUME AccountsConstants ==
    /\ MaxUser \in Nat \ {0, 1} /\ MaxName \in Nat \ {0, 1} /\ MaxPassword \in Nat \ {0}
    /\ MaxLink \in Nat /\ MaxActs \in Nat
    /\ ConfiguredPassword \in 0 .. MaxPassword
    /\ SessionKeyConfigured \in BOOLEAN
    /\ Browser \cap Shell = {}

VARIABLES
    row,        \* users
    nextId,     \* the sequence behind users.id
    link,       \* password_setup_links: whose each is and whether it is usable
    jar,        \* the cookie in each browser
    req,        \* what each browser or shell has asked for and where it stands
    secret,     \* which key this `tome serve` seals sessions under
    acts,
    \* history, read by no guard
    crossed,    \* accounts written by a request that had been overtaken
    gone        \* the ids of accounts that were deleted

history == <<crossed, gone>>
vars == <<row, nextId, link, jar, req, secret, acts, history>>

User     == 1 .. MaxUser
Name     == 1 .. MaxName
Password == 1 .. MaxPassword
Link     == 1 .. MaxLink
Actor    == Browser \cup Shell
SeedUser == 1
ConfiguredName == 1

\* FeverAPIKey: what a mobile client computes from what its reader types.
Key(name, password) == <<name, password>>
NoKey == <<0, 0>>

\* Password 0 is an account that cannot be signed in to.
NoRow == [there |-> FALSE, name |-> 0, pw |-> 0, key |-> NoKey, admin |-> FALSE, epoch |-> 0]
Row   == [there : BOOLEAN, name : 0 .. MaxName, pw : 0 .. MaxPassword,
          key : (0 .. MaxName) \X (0 .. MaxPassword), admin : BOOLEAN,
          epoch : Nat]

\* proved is the password its holder gave when the session was issued; raced says
\* that the account's credentials were written while it was being issued.
NoSession == [user |-> 0, epoch |-> 0, secret |-> 0, proved |-> 0, raced |-> FALSE]
Session   == [user : User, epoch : Nat, secret : 0 .. MaxActs,
              proved : Password, raced : BOOLEAN]

\* A request between two of its statements: whose account it is about, the name and
\* the password it read or was given, the one it will store, the links it has locked.
Idle == [at |-> "idle", id |-> 0, name |-> 0, old |-> 0, new |-> 0, locks |-> {},
         link |-> 0, epoch |-> 0, stale |-> FALSE]
Step == {"idle", "login", "password.check", "password.set", "password.issue",
         "name.check", "name.set", "bump", "self.check", "delete.count", "delete",
         "link.supersede", "link.insert", "redeem", "migrate"}
Request == [at : Step, id : 0 .. MaxUser, name : 0 .. MaxName, old : 0 .. MaxPassword,
            new : {0} \cup Name \cup Password, locks : SUBSET Link, link : 0 .. MaxLink,
            epoch : Nat, stale : BOOLEAN]

\* A row of the links: a token is issued once, and its row goes with its account.
NoLink == [user |-> 0, usable |-> FALSE, issued |-> FALSE]

-----------------------------------------------------------------------------
(* Statements.                                                             *)

\* LookupUser and Credentials: names are unique.
Named(n) == {u \in User : row[u].there /\ row[u].name = n}

Admins == {u \in User : row[u].there /\ row[u].admin}

\* Session.Identify and the epoch compared by requireUser.
Identify(c) == jar[c] # NoSession /\ jar[c].secret = secret
Admits(c) ==
    /\ Identify(c)
    /\ row[jar[c].user].there
    /\ row[jar[c].user].epoch = jar[c].epoch

\* The api_key a client presents is looked up as it is.
FeverAuthenticate(key) == {u \in User : row[u].there /\ key # NoKey /\ row[u].key = key}

\* Both columns carry a UNIQUE constraint.
Unique(u, name, key) ==
    \A v \in User \ {u} : row[v].there => row[v].name # name /\ row[v].key # key

\* Requests about u that have read what is being written are overtaken.
Overtaking(c, u, next) ==
    [d \in Actor |-> IF d = c THEN next
                     ELSE IF req[d].id = u THEN [req[d] EXCEPT !.stale = TRUE]
                     ELSE req[d]]

Answer(c) == req' = [req EXCEPT ![c] = Idle]
Goes(c, s) == req' = [req EXCEPT ![c].at = s]
At(c, s)  == req[c].at = s

\* A written account is crossed if the writer was overtaken, and put right by the
\* next that was not.
Marked(c, u) == IF req[c].stale THEN crossed \cup {u} ELSE crossed \ {u}

\* Mutant of SetPassword: the key is left to be written by itself.
SetPasswordAlone(c, u, name, new, next) ==
    /\ row' = [row EXCEPT ![u].pw = new, ![u].epoch = @ + 1]
    /\ req' = Overtaking(c, u, next)
    /\ crossed' = Marked(c, u)

\* SetPassword: hash, key and epoch in one statement.
SetPassword(c, u, name, new, next) ==
    /\ Unique(u, row[u].name, Key(name, new))
    /\ row' = [row EXCEPT ![u].pw = new, ![u].key = Key(name, new), ![u].epoch = @ + 1]
    /\ req' = Overtaking(c, u, next)
    /\ crossed' = Marked(c, u)

SetUsername(c, u, name, old) ==
    /\ Unique(u, name, Key(name, old))
    /\ row' = [row EXCEPT ![u].name = name, ![u].key = Key(name, old)]
    /\ req' = Overtaking(c, u, Idle)
    /\ crossed' = Marked(c, u)

\* The rows a transaction has written and not committed are locked.
Locked(k) == \E c \in Actor : k \in req[c].locks

Begin(c, r) ==
    /\ At(c, "idle") /\ acts < MaxActs
    /\ acts' = acts + 1
    /\ req' = [req EXCEPT ![c] = r]

unchangedUnlessAsked == <<row, nextId, link, jar, secret, history>>

-----------------------------------------------------------------------------
(* Signing in, and what a session admits to.                               *)

\* handleLogin reads the account; the password is verified against what it read.
SignIn(c, u, password) ==
    /\ row[u].there /\ row[u].pw = password
    /\ Begin(c, [Idle EXCEPT !.at = "login", !.id = u, !.old = password,
                             !.epoch = row[u].epoch])
    /\ UNCHANGED unchangedUnlessAsked

\* Mutant of Issue: the epoch sealed is the one of the moment.
IssueLatest(c) ==
    /\ At(c, "login")
    /\ jar' = [jar EXCEPT ![c] = [user |-> req[c].id, epoch |-> row[req[c].id].epoch,
                                  secret |-> secret, proved |-> req[c].old, raced |-> FALSE]]
    /\ Answer(c)
    /\ UNCHANGED <<row, nextId, link, secret, acts, history>>

\* The epoch sealed is the one read with the hash, so what was changed meanwhile
\* revokes it.
Issue(c) ==
    /\ At(c, "login")
    /\ jar' = [jar EXCEPT ![c] = [user |-> req[c].id, epoch |-> req[c].epoch,
                                  secret |-> secret, proved |-> req[c].old, raced |-> FALSE]]
    /\ Answer(c)
    /\ UNCHANGED <<row, nextId, link, secret, acts, history>>

Clear(c) == jar' = [jar EXCEPT ![c] = NoSession]

\* requireUser finds the account gone or the session revoked, or a reader signs out.
RefuseAnonymous(c) ==
    /\ At(c, "idle") /\ jar[c] # NoSession /\ ~Admits(c)
    /\ Clear(c)
    /\ UNCHANGED <<row, nextId, link, req, secret, acts, history>>

Logout(c) ==
    /\ At(c, "idle") /\ jar[c] # NoSession
    /\ Clear(c)
    /\ UNCHANGED <<row, nextId, link, req, secret, acts, history>>

\* requireUser: the account is loaded, and the request goes on with what was read.
RequireUser(c, s, id, old, new) ==
    /\ Admits(c)
    /\ Begin(c, [Idle EXCEPT !.at = s, !.id = id, !.name = row[jar[c].user].name,
                             !.old = old, !.new = new])
    /\ UNCHANGED unchangedUnlessAsked

\* requireAdmin, around it.
RequireAdmin(c, s, id) ==
    /\ Admits(c) /\ row[jar[c].user].admin
    /\ RequireUser(c, s, id, 0, 0)

\* A request whose account is gone, or whose password is not the stored one.
Refused(c, s) ==
    /\ At(c, s)
    /\ ~row[req[c].id].there \/ row[req[c].id].pw # req[c].old
    /\ Answer(c)
    /\ UNCHANGED <<row, nextId, link, jar, secret, acts, history>>

Verified(c, s, t) ==
    /\ At(c, s)
    /\ row[req[c].id].there /\ row[req[c].id].pw = req[c].old
    /\ Goes(c, t)
    /\ UNCHANGED <<row, nextId, link, jar, secret, acts, history>>

\* A statement that fails: a name or a key is taken, or there is no row.
StatementFails(c, s) ==
    /\ At(c, s)
    /\ \/ ~row[req[c].id].there
       \/ s = "name.set" /\ ~Unique(req[c].id, req[c].new, Key(req[c].new, req[c].old))
       \/ s = "password.set" /\ ~Unique(req[c].id, row[req[c].id].name,
                                        Key(req[c].name, req[c].new))
    /\ Answer(c)
    /\ UNCHANGED <<row, nextId, link, jar, secret, acts, history>>

-----------------------------------------------------------------------------
(* What readers do to their own accounts.                                  *)

ChangePassword(c, old, new) == RequireUser(c, "password.check", jar[c].user, old, new)

\* The name the key is computed from is the one requireUser read.
StorePassword(c) ==
    /\ At(c, "password.set") /\ row[req[c].id].there
    /\ SetPassword(c, req[c].id, req[c].name, req[c].new,
                   IF c \in Browser THEN [req[c] EXCEPT !.at = "password.issue", !.stale = FALSE]
                   ELSE Idle)
    /\ UNCHANGED <<nextId, link, jar, secret, acts, gone>>

\* The epoch is read again, so that this browser stays signed in; failing that,
\* the cookie is cleared.
Reissue(c) ==
    LET u == req[c].id IN
    /\ At(c, "password.issue")
    /\ jar' = [jar EXCEPT ![c] =
                 IF row[u].there
                 THEN [user |-> u, epoch |-> row[u].epoch, secret |-> secret,
                       proved |-> req[c].new, raced |-> req[c].stale]
                 ELSE NoSession]
    /\ Answer(c)
    /\ UNCHANGED <<row, nextId, link, secret, acts, history>>

ChangeUsername(c, old, name) ==
    /\ Admits(c) /\ row[jar[c].user].name # name
    /\ RequireUser(c, "name.check", jar[c].user, old, name)

StoreUsername(c) ==
    /\ At(c, "name.set") /\ row[req[c].id].there
    /\ SetUsername(c, req[c].id, req[c].new, req[c].old)
    /\ UNCHANGED <<nextId, link, jar, secret, acts, gone>>

SignOutEverywhere(c) == RequireUser(c, "bump", jar[c].user, 0, 0)

BumpSessionEpoch(c) ==
    LET u == req[c].id IN
    /\ At(c, "bump") /\ row[u].there
    /\ row' = [row EXCEPT ![u].epoch = @ + 1]
    /\ Clear(c)
    /\ Answer(c)
    /\ UNCHANGED <<nextId, link, secret, acts, history>>

DeleteMyAccount(c, old) == RequireUser(c, "self.check", jar[c].user, old, 0)

-----------------------------------------------------------------------------
(* What administrators do to the others', in a browser or from a shell.    *)

NewRow(name, admin) == [NoRow EXCEPT !.there = TRUE, !.name = name, !.admin = admin]

\* No password: it takes a link or a shell to set one.
CreateUser(name, admin) ==
    /\ acts < MaxActs /\ acts' = acts + 1
    /\ nextId \in User /\ Named(name) = {}
    /\ row' = [row EXCEPT ![nextId] = NewRow(name, admin)]
    /\ nextId' = nextId + 1
    /\ UNCHANGED <<link, jar, req, secret, history>>

HandleCreateUser(c, name, admin) ==
    /\ At(c, "idle") /\ Admits(c) /\ row[jar[c].user].admin
    /\ CreateUser(name, admin)

UserAdd(c, name, admin) == At(c, "idle") /\ CreateUser(name, admin)

\* You cannot delete the account you are signed in as.
HandleDeleteUser(c, u) == u # jar[c].user /\ RequireAdmin(c, "delete.count", u)

UserRemove(c, u) ==
    /\ row[u].there
    /\ Begin(c, [Idle EXCEPT !.at = "delete.count", !.id = u])
    /\ UNCHANGED unchangedUnlessAsked

LastAdmin(u) == Admins = {u}

\* The transaction counts under READ COMMITTED, and deletes in its next statement: what
\* is counted may be gone by then.
CountAdmins(c) ==
    /\ At(c, "delete.count")
    /\ IF LastAdmin(req[c].id) THEN Answer(c)
       ELSE Goes(c, "delete")
    /\ UNCHANGED <<row, nextId, link, jar, secret, acts, history>>

\* Mutant of DeleteUser: the links are left behind.
DeleteUserKeepingLinks(c) ==
    LET u == req[c].id IN
    /\ At(c, "delete") /\ row[u].there
    /\ row' = [row EXCEPT ![u] = NoRow]
    /\ req' = [d \in Actor |-> IF d = c THEN Idle
                               ELSE IF req[d].id = u
                               THEN [req[d] EXCEPT !.stale = TRUE] ELSE req[d]]
    /\ crossed' = crossed \ {u}
    /\ gone' = gone \cup {u}
    /\ jar' = [jar EXCEPT ![c] = IF c \in Browser /\ @.user = u THEN NoSession ELSE @]
    /\ UNCHANGED <<nextId, link, secret, acts>>

\* What hangs on the account goes with it.
DeleteUser(c) ==
    LET u == req[c].id IN
    /\ At(c, "delete") /\ row[u].there
    /\ \A k \in Link : link[k].user = u => ~Locked(k)
    /\ row' = [row EXCEPT ![u] = NoRow]
    /\ link' = [k \in Link |-> IF link[k].user = u THEN [NoLink EXCEPT !.issued = TRUE]
                               ELSE link[k]]
    /\ req' = [d \in Actor |-> IF d = c THEN Idle
                               ELSE IF req[d].id = u
                               THEN [req[d] EXCEPT !.stale = TRUE] ELSE req[d]]
    /\ crossed' = crossed \ {u}
    /\ gone' = gone \cup {u}
    /\ jar' = IF c \in Browser /\ jar[c].user = u THEN [jar EXCEPT ![c] = NoSession] ELSE jar
    /\ UNCHANGED <<nextId, secret, acts>>

\* Issuing: earlier links are spent, the new one inserted, and both committed.
HandleIssueSetupLink(c, u) == row[u].there /\ RequireAdmin(c, "link.supersede", u)

UserLink(c, u) ==
    /\ row[u].there
    /\ Begin(c, [Idle EXCEPT !.at = "link.supersede", !.id = u])
    /\ UNCHANGED unchangedUnlessAsked

Usable(k) == link[k].usable

SupersedeLinks(c) ==
    LET earlier == {k \in Link : link[k].user = req[c].id /\ Usable(k)} IN
    /\ At(c, "link.supersede") /\ row[req[c].id].there
    /\ \A k \in earlier : ~Locked(k)
    /\ req' = [req EXCEPT ![c].at = "link.insert", ![c].locks = earlier]
    /\ UNCHANGED <<row, nextId, link, jar, secret, acts, history>>

InsertLink(c) ==
    /\ At(c, "link.insert") /\ row[req[c].id].there
    /\ \E k \in Link :
          /\ ~link[k].issued /\ \A j \in 1 .. k - 1 : link[j].issued
          /\ link' = [j \in Link |->
                        IF j = k THEN [user |-> req[c].id, usable |-> TRUE, issued |-> TRUE]
                        ELSE IF j \in req[c].locks THEN [link[j] EXCEPT !.usable = FALSE]
                        ELSE link[j]]
    /\ Answer(c)
    /\ UNCHANGED <<row, nextId, jar, secret, acts, history>>

LinkExpires(k) ==
    /\ link[k].usable /\ ~Locked(k)
    /\ link' = [link EXCEPT ![k].usable = FALSE]
    /\ UNCHANGED <<row, nextId, jar, req, secret, acts, history>>

\* handleSetPassword asks whose link it is before the password is hashed.
SetupLinkAccount(c, k, new) ==
    /\ Usable(k)
    /\ Begin(c, [Idle EXCEPT !.at = "redeem", !.id = link[k].user, !.link = k,
                             !.name = row[link[k].user].name, !.new = new])
    /\ UNCHANGED unchangedUnlessAsked

\* Mutant of RedeemSetupLink: the link is not asked about again.
RedeemSetupLinkTwice(c) ==
    /\ At(c, "redeem") /\ row[req[c].id].there
    /\ SetPassword(c, req[c].id, req[c].name, req[c].new, Idle)
    /\ link' = [link EXCEPT ![req[c].link].usable = FALSE]
    /\ UNCHANGED <<nextId, jar, secret, acts, gone>>

\* The link is spent by an update that matches only a usable one, and the password
\* is stored in the same transaction.
RedeemSetupLink(c) ==
    LET k == req[c].link IN
    /\ At(c, "redeem") /\ ~Locked(k) /\ Usable(k)
    /\ SetPassword(c, req[c].id, req[c].name, req[c].new, Idle)
    /\ link' = [link EXCEPT ![k].usable = FALSE]
    /\ UNCHANGED <<nextId, jar, secret, acts, gone>>

\* ErrLinkUnusable, or the account's key is already another's.
LinkUnusable(c) ==
    /\ At(c, "redeem") /\ ~Locked(req[c].link)
    /\ \/ ~Usable(req[c].link)
       \/ ~Unique(req[c].id, row[req[c].id].name, Key(req[c].name, req[c].new))
    /\ Answer(c)
    /\ UNCHANGED <<row, nextId, link, jar, secret, acts, history>>

\* tome user passwd: the key is computed from the name that was typed.
UserPasswd(c, name, new) ==
    \E u \in Named(name) :
        /\ Begin(c, [Idle EXCEPT !.at = "password.set", !.id = u, !.name = name, !.new = new])
        /\ UNCHANGED unchangedUnlessAsked

-----------------------------------------------------------------------------
(* A deploy: `tome migrate`, then a new `tome serve`.                      *)

Migrating(c) == At(c, "migrate")

\* The sequence goes on after the latest account that is there: the ids of the
\* deleted ones above it are given out again.
SetSequence ==
    \E u \in User : /\ row'[u].there /\ \A v \in u + 1 .. MaxUser : ~row'[v].there
                   /\ nextId' = u + 1

\* EnsureSeedUser, which renames and promotes nobody that is there.
EnsureSeedUser(c) ==
    /\ Begin(c, [Idle EXCEPT !.at = "migrate", !.id = SeedUser, !.new = ConfiguredPassword,
                             !.name = IF row[SeedUser].there THEN row[SeedUser].name
                                      ELSE ConfiguredName])
    /\ IF row[SeedUser].there THEN UNCHANGED row
       ELSE /\ Named(ConfiguredName) = {}
            /\ row' = [row EXCEPT ![SeedUser] = NewRow(ConfiguredName, TRUE)]
    /\ SetSequence
    /\ UNCHANGED <<link, jar, secret, history>>

\* Mutant of PasswordUnchanged: asked about the name in the configuration.
PasswordUnchangedAsConfigured(c) ==
    \E u \in Named(ConfiguredName) : row[u].pw # 0 /\ row[u].pw = ConfiguredPassword

\* Asked about the account by the name EnsureSeedUser read.
PasswordUnchanged(c) ==
    \E u \in Named(req[c].name) : row[u].pw # 0 /\ row[u].pw = ConfiguredPassword

Migrate(c) ==
    /\ Migrating(c)
    /\ IF ConfiguredPassword = 0 \/ PasswordUnchanged(c) THEN Answer(c)
       ELSE Goes(c, "password.set")
    /\ UNCHANGED <<row, nextId, link, jar, secret, acts, history>>

\* Without a configured key a new process seals, and opens, with another one.
Restart ==
    /\ acts < MaxActs /\ acts' = acts + 1
    /\ secret' = IF SessionKeyConfigured THEN secret ELSE secret + 1
    /\ req' = [c \in Actor |-> IF c \in Browser THEN Idle ELSE req[c]]
    /\ UNCHANGED <<row, nextId, link, jar, history>>

-----------------------------------------------------------------------------
\* Two administrators: the operator, signed in or not, and one who has redeemed a link.
Init ==
    /\ row = [u \in User |->
                IF u > 2 THEN NoRow
                ELSE [there |-> TRUE, name |-> u, pw |-> 1, key |-> Key(u, 1),
                      admin |-> TRUE, epoch |-> 1]]
    /\ nextId = 3
    /\ link = [k \in Link |-> NoLink]
    /\ \E in \in SUBSET Browser :
          jar = [c \in Browser |-> IF c \notin in THEN NoSession
                                   ELSE [user |-> SeedUser, epoch |-> 1, secret |-> 0,
                                         proved |-> 1, raced |-> FALSE]]
    /\ req = [c \in Actor |-> Idle]
    /\ secret = 0 /\ acts = 0
    /\ crossed = {} /\ gone = {}

\* What a reader or an administrator asks for in a browser.
Asks(c) ==
    \/ \E u \in User, p \in Password : SignIn(c, u, p)
    \/ \E old, new \in Password : ChangePassword(c, old, new)
    \/ \E old \in Password, n \in Name : ChangeUsername(c, old, n)
    \/ \E old \in Password : DeleteMyAccount(c, old)
    \/ SignOutEverywhere(c)
    \/ \E k \in Link, new \in Password : SetupLinkAccount(c, k, new)
    \/ \E n \in Name, admin \in BOOLEAN : HandleCreateUser(c, n, admin)
    \/ \E u \in User : HandleDeleteUser(c, u) \/ HandleIssueSetupLink(c, u)

\* What an operator runs, a deploy included.
Runs(c) ==
    \/ \E n \in Name, admin \in BOOLEAN : UserAdd(c, n, admin)
    \/ \E u \in User : UserRemove(c, u) \/ UserLink(c, u)
    \/ \E n \in Name, new \in Password : UserPasswd(c, n, new)
    \/ EnsureSeedUser(c)

\* The next statement of one that has begun.
Proceeds(c) ==
    \/ c \in Browser /\ (Issue(c) \/ Reissue(c) \/ BumpSessionEpoch(c))
    \/ Verified(c, "password.check", "password.set")
    \/ Verified(c, "name.check", "name.set")
    \/ Verified(c, "self.check", "delete.count")
    \/ \E s \in {"password.check", "name.check", "self.check"} : Refused(c, s)
    \/ StorePassword(c) \/ StoreUsername(c)
    \/ CountAdmins(c) \/ DeleteUser(c)
    \/ SupersedeLinks(c) \/ InsertLink(c)
    \/ RedeemSetupLink(c) \/ LinkUnusable(c)
    \/ Migrate(c)
    \/ \E s \in {"password.set", "name.set", "bump", "delete", "link.supersede",
                "link.insert"} : StatementFails(c, s)

Next ==
    \/ \E c \in Actor : Proceeds(c)
    \/ \E c \in Browser : Asks(c)
    \/ \E c \in Shell : Runs(c)
    \/ \E c \in Browser : RefuseAnonymous(c) \/ Logout(c)
    \/ \E k \in Link : LinkExpires(k)
    \/ Restart

Spec == Init /\ [][Next]_vars

-----------------------------------------------------------------------------
(* Properties.                                                             *)

TypeOK ==
    /\ row \in [User -> Row]
    /\ nextId \in 1 .. MaxUser + 1
    /\ link \in [Link -> [user : 0 .. MaxUser, usable : BOOLEAN, issued : BOOLEAN]]
    /\ \A k \in Link : link[k].user # 0 => row[link[k].user].there
    /\ jar \in [Browser -> Session \cup {NoSession}]
    /\ req \in [Actor -> Request]
    /\ secret \in 0 .. MaxActs /\ acts \in 0 .. MaxActs
    /\ crossed \subseteq User /\ gone \subseteq User

\* A session that is admitted was opened with the password the account has now:
\* whatever set another one, and at whatever point of the sign-in, has ended it
\* (auth.go:294, users.go:120-126).  The exceptions are a password change whose
\* fresh session was issued after yet another change, and the epochs of an id that
\* is given out again once its account was deleted, which start over.
AdmittedKnowsThePassword ==
    \A c \in Browser :
        /\ Admits(c) /\ ~jar[c].raced
        /\ jar[c].user \notin gone
        => jar[c].proved = row[jar[c].user].pw

\* The key a mobile client computes from the current name and password is the one
\* stored, and no other opens the account, unless two writers of its credentials
\* overlapped (users.go:109-118, accounts.go:400-410).
KeyFollowsNameAndPassword ==
    \A u \in User \ crossed : row[u].there /\ row[u].pw # 0 =>
        \A n \in Name, p \in Password :
            u \in FeverAuthenticate(Key(n, p)) <=> n = row[u].name /\ p = row[u].pw

\* A deploy that configures the password the account has leaves its sessions, its
\* key and its name alone, whatever the account is called by then
\* (serve.go:322-345), unless somebody was writing them at the same time.
DeployIsQuiet ==
    [][\A c \in Shell :
          Migrating(c) /\ req'[c].at = "password.set" =>
             \/ req[c].stale
             \/ row[SeedUser].pw # ConfiguredPassword]_vars

\* What sets a password by a link is a link that was usable until then: an
\* invitation is good for one password however many open it at once
\* (accounts.go:347-365).
LinkSetsOnePassword ==
    [][\A c \in Actor :
          At(c, "redeem") /\ (\E u \in User : row'[u].pw # row[u].pw)
          /\ req'[c] = Idle => Usable(req[c].link)]_vars

=============================================================================
