------------------------------ MODULE WebAccounts ------------------------------
(* Accounts and logins of the web backend: accounts.ts, credentials.ts,        *)
(* auth.ts, the two OAuth flows, and the rules the schema in db.ts enforces.    *)
(* A handler runs up to its next `await` without interruption, so an action is  *)
(* the code between two awaits; what a request keeps across one is a record in  *)
(* `req`.  User ids are fresh UUIDs, numbered in the order they are given out.  *)
(* All names asked for share one base: 1 is the base itself, 2 is "base-2".     *)
EXTENDS Naturals, FiniteSets

CONSTANTS Browser,      \* each with one cookie jar and one request at a time
          Identity,     \* accounts at the OAuth providers
          GithubIds,    \* those at GitHub; the others are at QQ
          Nonce,        \* bound: state tokens that have not expired
          MaxUser,      \* bound: users ever created
          MaxRestart    \* bound: restarts of the backend

ASSUME AccountsAssumption ==
    /\ IsFiniteSet(Identity)
    /\ GithubIds \subseteq Identity
    /\ {MaxUser, MaxRestart} \subseteq Nat

User == 1 .. MaxUser
NoUser == 0
Name == 1 .. MaxUser
AdminName == 1          \* config.adminUser

VARIABLES
    users,     \* rows of users
    name,      \* their usernames, AdminName for ids not in use
    creds,     \* users with a row in credentials
    owner,     \* user_id of the row in oauth_accounts, NoUser if there is none
    born,      \* how many UUIDs have been given to users
    cut,       \* history: users whose OAuth row was never inserted
    cookie,    \* the user named by the session JWT in a browser
    ticket,    \* the state tokens made and not expired
    req,       \* the request of a browser that is waiting in an await
    preset,    \* the user whose password the boot code is hashing
    restarts

db == <<users, name, creds, owner, born, cut>>
vars == <<users, name, creds, owner, born, cut, cookie, ticket, req, preset, restarts>>

Idle == [kind |-> "idle"]
NoTicket == [mode |-> "none"]
State(mode, u) == [mode |-> mode, user |-> u, consumed |-> FALSE]

Init ==
    /\ users = {}
    /\ name = [u \in User |-> AdminName]
    /\ creds = {}
    /\ owner = [i \in Identity |-> NoUser]
    /\ born = 0
    /\ cut = {}
    /\ cookie = [b \in Browser |-> NoUser]
    /\ ticket = [t \in Nonce |-> NoTicket]
    /\ req = [b \in Browser |-> Idle]
    /\ preset = NoUser
    /\ restarts = 0

Await(b, r) == req[b] = Idle /\ req' = [req EXCEPT ![b] = r]
Answer(b) == req' = [req EXCEPT ![b] = Idle]
SetCookie(b, u) == cookie' = [cookie EXCEPT ![b] = u]

\* requireAuth: the JWT is looked at, the user is not.
Authenticated(b) == cookie[b] # NoUser

\* Mutant of Exists: the database does not enforce foreign keys.
ExistsUnchecked(u) == TRUE

\* REFERENCES users(id), with foreign_keys = ON.
Exists(u) == u \in users

Taken(n) == \E u \in users : name[u] = n

\* uniqueUsername().
Unique(n) == ~ Taken(n) /\ \A k \in 1 .. n - 1 : Taken(k)

Insert(n) ==
    /\ born < MaxUser
    /\ born' = born + 1
    /\ users' = users \cup {born + 1}
    /\ name' = [name EXCEPT ![born + 1] = n]

Linked(u) == {i \in Identity : owner[i] = u}
-------------------------------------------------------------------------------
(* Passwords.  Each handler hashes or compares in an await.                    *)

Register(b, n) ==
    /\ Await(b, [kind |-> "register", name |-> n])
    /\ UNCHANGED <<db, cookie, ticket, preset, restarts>>

Registered(b) ==
    /\ req[b].kind = "register"
    /\ ~ Taken(req[b].name)
    /\ Insert(req[b].name)
    /\ creds' = creds \cup {born + 1}
    /\ SetCookie(b, born + 1)
    /\ Answer(b)
    /\ UNCHANGED <<owner, cut, ticket, preset, restarts>>

\* 409: the name was taken, perhaps during the await.
NameConflict(b) ==
    /\ req[b].kind = "register"
    /\ Taken(req[b].name)
    /\ Answer(b)
    /\ UNCHANGED <<db, cookie, ticket, preset, restarts>>

\* loginWithPassword() reads the row before it compares.
Login(b, u) ==
    /\ u \in creds
    /\ Await(b, [kind |-> "login", user |-> u])
    /\ UNCHANGED <<db, cookie, ticket, preset, restarts>>

\* The session is for the row that was read, whatever became of it.
LoggedIn(b) ==
    /\ req[b].kind = "login"
    /\ SetCookie(b, req[b].user)
    /\ Answer(b)
    /\ UNCHANGED <<db, ticket, preset, restarts>>

SetPassword(b) ==
    /\ Authenticated(b)
    /\ Await(b, [kind |-> "password", user |-> cookie[b]])
    /\ UNCHANGED <<db, cookie, ticket, preset, restarts>>

PasswordSet(b) ==
    /\ req[b].kind = "password"
    /\ Exists(req[b].user)
    /\ creds' = creds \cup {req[b].user}
    /\ Answer(b)
    /\ UNCHANGED <<users, name, owner, born, cut, cookie, ticket, preset, restarts>>

\* A wrong password, or a user that is gone (500).
Refused(b) ==
    /\ req[b].kind \in {"login", "password"}
    /\ Answer(b)
    /\ UNCHANGED <<db, cookie, ticket, preset, restarts>>
-------------------------------------------------------------------------------
(* OAuth.                                                                      *)

\* The provider is in the token too, and nothing looks at it.
Send(b, mode, u) ==
    /\ req[b] = Idle
    /\ \E t \in Nonce :
          /\ ticket[t] = NoTicket
          /\ ticket' = [ticket EXCEPT ![t] = State(mode, u)]
    /\ UNCHANGED <<db, cookie, req, preset, restarts>>

\* GitHub's routes never put a user in the state token.
GithubAuthorize(b, mode) == Send(b, mode, NoUser)

\* QQ's route puts in the user of the session, and turns a link without a
\* session into a login.
QqAuthorize(b, mode) ==
    IF mode = "link" /\ Authenticated(b)
    THEN Send(b, "link", cookie[b])
    ELSE Send(b, "login", NoUser)

\* verifyState(): a token is good once, for either provider and from any browser.
Verified(t) == ticket[t] # NoTicket /\ ~ ticket[t].consumed

\* Back from a provider with a token, which is consumed; then the provider is
\* asked which of its accounts this is.
Exchange(b, ids) ==
    /\ \E t \in Nonce :
          /\ Verified(t)
          /\ \E i \in ids :
                Await(b, [kind |-> "oauth", id |-> i, mode |-> ticket[t].mode,
                          user |-> ticket[t].user])
          /\ ticket' = [ticket EXCEPT ![t].consumed = TRUE]
    /\ UNCHANGED <<db, cookie, preset, restarts>>

GithubToken(b) == Exchange(b, GithubIds)
QqCallback(b) == Exchange(b, Identity \ GithubIds)

\* Ten minutes after it was made.
TicketExpires(t) ==
    /\ ticket[t] # NoTicket
    /\ ticket' = [ticket EXCEPT ![t] = NoTicket]
    /\ UNCHANGED <<db, cookie, req, preset, restarts>>

\* One of the provider's answers is an error, or GitHub's link has no user.
ProviderFails(b) ==
    /\ req[b].kind = "oauth"
    /\ Answer(b)
    /\ UNCHANGED <<db, cookie, ticket, preset, restarts>>

\* A link of an identity that is another user's.
IsConflict(r) == r.mode = "link" /\ r.user # NoUser /\ owner[r.id] # r.user

\* The identity is known: a session for its owner, whoever asked; or a conflict,
\* which changes nothing here.
KnownIdentity(b) ==
    /\ req[b].kind = "oauth"
    /\ owner[req[b].id] # NoUser
    /\ IF IsConflict(req[b])
       THEN UNCHANGED cookie
       ELSE SetCookie(b, owner[req[b].id])
    /\ Answer(b)
    /\ UNCHANGED <<db, ticket, preset, restarts>>

NewLogin(b) ==
    /\ req[b].kind = "oauth"
    /\ req[b].mode = "login"
    /\ owner[req[b].id] = NoUser
    /\ \E n \in Name : Unique(n) /\ Insert(n)

\* The user is inserted, then its OAuth account.
OauthCreate(b) ==
    /\ NewLogin(b)
    /\ owner' = [owner EXCEPT ![req[b].id] = born + 1]
    /\ SetCookie(b, born + 1)
    /\ Answer(b)
    /\ UNCHANGED <<creds, cut, ticket, preset, restarts>>

\* The two are no transaction: the second fails, and the first stays.
OauthCreateCut(b) ==
    /\ NewLogin(b)
    /\ cut' = cut \cup {born + 1}
    /\ Answer(b)
    /\ UNCHANGED <<creds, owner, cookie, ticket, preset, restarts>>

OauthLink(b) ==
    /\ req[b].kind = "oauth"
    /\ req[b].mode = "link"
    /\ owner[req[b].id] = NoUser
    /\ req[b].user # NoUser
    /\ Exists(req[b].user)
    /\ owner' = [owner EXCEPT ![req[b].id] = req[b].user]
    /\ SetCookie(b, req[b].user)
    /\ Answer(b)
    /\ UNCHANGED <<users, name, creds, born, cut, ticket, preset, restarts>>
-------------------------------------------------------------------------------
(* The protected routes without an await.                                      *)

\* Mutant of Moved: the accounts of the source go with it, by the cascade.
MovedNowhere(t, s) == [i \in Identity |-> IF owner[i] = s THEN NoUser ELSE owner[i]]

Moved(t, s) == [i \in Identity |-> IF owner[i] = s THEN t ELSE owner[i]]

\* mergeAccounts(): s is deleted, its password with it.
Merge(b, s) ==
    /\ req[b] = Idle
    /\ Authenticated(b)
    /\ cookie[b] # s
    /\ {cookie[b], s} \subseteq users
    /\ owner' = Moved(cookie[b], s)
    /\ users' = users \ {s}
    /\ creds' = creds \ {s}
    /\ name' = [name EXCEPT ![s] = AdminName]
    /\ UNCHANGED <<born, cut, cookie, ticket, req, preset, restarts>>

\* Mutant of IsOnlyLogin: the accounts are counted before one is taken away.
NoLoginNow(u) == Linked(u) = {} /\ u \notin creds

IsOnlyLogin(u) == Cardinality(Linked(u)) = 1 /\ u \notin creds

\* unlinkAccount(): the first row of the provider, in an order left open.
Unlink(b, i) ==
    /\ req[b] = Idle
    /\ Authenticated(b)
    /\ i \in Linked(cookie[b])
    /\ ~ IsOnlyLogin(cookie[b])
    /\ owner' = [owner EXCEPT ![i] = NoUser]
    /\ UNCHANGED <<users, name, creds, born, cut, cookie, ticket, req, preset, restarts>>

\* Logged out, or 24 hours have passed.
Logout(b) ==
    /\ req[b] = Idle
    /\ Authenticated(b)
    /\ SetCookie(b, NoUser)
    /\ UNCHANGED <<db, ticket, req, preset, restarts>>
-------------------------------------------------------------------------------
(* The process.  What the browsers hold and what is in the database stays.     *)

\* The listen callback looks up the administrator and hashes the password.
Admin == {u \in users : name[u] = AdminName}

\* The nonces seen are in memory: a token that has not expired is good again.
Forgotten(t) ==
    IF ticket[t] = NoTicket THEN NoTicket ELSE State(ticket[t].mode, ticket[t].user)

Boot ==
    /\ req' = [b \in Browser |-> Idle]
    /\ ticket' = [t \in Nonce |-> Forgotten(t)]
    /\ preset' \in IF Admin = {} THEN {NoUser} ELSE Admin
    /\ UNCHANGED <<db, cookie>>

Restart == Boot /\ restarts < MaxRestart /\ restarts' = restarts + 1

PresetStored ==
    /\ preset # NoUser
    /\ Exists(preset)
    /\ creds' = creds \cup {preset}
    /\ preset' = NoUser
    /\ UNCHANGED <<users, name, owner, born, cut, cookie, ticket, req, restarts>>

\* The user is gone: the rejection is handled nowhere, and the process ends.
PresetFails ==
    /\ preset # NoUser
    /\ ~ Exists(preset)
    /\ Boot
    /\ UNCHANGED restarts

Next ==
    \/ Restart \/ PresetStored \/ PresetFails
    \/ \E t \in Nonce : TicketExpires(t)
    \/ \E b \in Browser :
          \/ Registered(b) \/ NameConflict(b) \/ LoggedIn(b)
          \/ SetPassword(b) \/ PasswordSet(b) \/ Refused(b)
          \/ GithubToken(b) \/ QqCallback(b) \/ ProviderFails(b) \/ KnownIdentity(b)
          \/ OauthCreate(b) \/ OauthCreateCut(b) \/ OauthLink(b) \/ Logout(b)
          \/ \E n \in Name : Register(b, n)
          \/ \E u \in User : Login(b, u) \/ Merge(b, u)
          \/ \E i \in Identity : Unlink(b, i)
          \/ \E mode \in {"login", "link"} : GithubAuthorize(b, mode) \/ QqAuthorize(b, mode)

Spec == Init /\ [][Next]_vars
-------------------------------------------------------------------------------
Request ==
    {Idle}
        \cup [kind : {"register"}, name : Name]
        \cup [kind : {"login", "password"}, user : 1 .. born]
        \cup [kind : {"oauth"}, id : Identity, mode : {"login", "link"}, user : 0 .. born]

\* Types, and the references between them: nothing belongs to a user that is
\* not there, although requests, cookies and state tokens outlive a merged user
\* (accounts.ts:216-225, 308; credentials.ts:191-200; db.ts:27-56).
TypeOK ==
    /\ born \in 0 .. MaxUser
    /\ users \subseteq 1 .. born
    /\ cut \subseteq 1 .. born
    /\ name \in [User -> Name]
    /\ creds \subseteq users
    /\ owner \in [Identity -> users \cup {NoUser}]
    /\ cookie \in [Browser -> 0 .. born]
    /\ ticket \in [Nonce -> {NoTicket} \cup
                   [mode : {"login", "link"}, user : 0 .. born, consumed : BOOLEAN]]
    /\ req \in [Browser -> Request]
    /\ preset \in 0 .. born
    /\ restarts \in 0 .. MaxRestart

\* "Every user must have at least one way to log in" (accounts.ts:322-323),
\* whatever is linked, merged and unlinked side by side; only a user whose
\* creation was cut between its two rows has none.
EveryoneCanLogIn == \A u \in users \ cut : u \in creds \/ Linked(u) # {}

\* An identity that is linked stays so: it changes hands only when its user is
\* merged into another, and is unlinked only from a session of its owner, who
\* keeps another way in (accounts.ts:165-176, 268-311, 325-346).
IdentityStays ==
    [][\A i \in Identity : owner[i] # NoUser /\ owner'[i] # owner[i] =>
          \/ owner[i] \notin users' /\ owner'[i] \in users'
          \/ /\ owner'[i] = NoUser
             /\ \E b \in Browser : cookie[b] = owner[i]
             /\ \E j \in Identity : owner'[j] = owner[i] \/ owner[i] \in creds']_vars
===============================================================================
