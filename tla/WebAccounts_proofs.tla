-------------------------- MODULE WebAccounts_proofs --------------------------
(* What the accounts keep, for any browsers, identities and number of users.  *)
EXTENDS WebAccounts, FiniteSetTheorems, TLAPS

\* The steps of one browser.
BrowserStep(b) ==
    \/ Registered(b) \/ NameConflict(b) \/ LoggedIn(b)
    \/ SetPassword(b) \/ PasswordSet(b) \/ Refused(b)
    \/ GithubToken(b) \/ QqCallback(b) \/ ProviderFails(b)
    \/ KnownIdentity(b)
    \/ OauthCreate(b) \/ OauthCreateCut(b) \/ OauthLink(b) \/ Logout(b)
    \/ \E n \in Name : Register(b, n)
    \/ \E u \in User : Login(b, u) \/ Merge(b, u)
    \/ \E i \in Identity : Unlink(b, i)
    \/ \E mode \in {"login", "link"} : GithubAuthorize(b, mode) \/ QqAuthorize(b, mode)

\* The end of a state token.
Expiry == \E t \in Nonce : TicketExpires(t)

\* The fields of a request, by its kind (the records kept across an await).
LEMMA RequestFields ==
    ASSUME NEW r \in Request
    PROVE  /\ r.kind = "register" => r.name \in Name
           /\ r.kind \in {"login", "password"} => r.user \in 1 .. born
           /\ r.kind = "oauth" => /\ r.id \in Identity
                                  /\ r.mode \in {"login", "link"}
                                  /\ r.user \in 0 .. born
  BY DEF Request, Idle

\* A wider range of users leaves every request one (new users only add).
LEMMA RequestsStay ==
    ASSUME born \in Nat, born' \in Nat, born <= born', NEW r \in Request
    PROVE  r \in Request'
  BY DEF Request, Idle


\* The requests stay well typed when one is answered, put off, or when all of
\* them are dropped by a restart.
LEMMA RequestTypes ==
    ASSUME TypeOK, born' \in Nat, born <= born', NEW b \in Browser,
           \/ req' = req
           \/ Answer(b)
           \/ \E r \in Request' : Await(b, r)
           \/ req' = [c \in Browser |-> Idle]
    PROVE  req' \in [Browser -> Request']
<1>1. \A r \in Request : r \in Request'
  BY RequestsStay, AccountsAssumption DEF TypeOK
<1>2. Idle \in Request'
  BY DEF Request, Idle
<1>3. req \in [Browser -> Request']
  BY <1>1 DEF TypeOK
<1> QED  BY <1>2, <1>3 DEF Answer, Await

\* A new row of users.
LEMMA InsertTypes ==
    ASSUME TypeOK, NEW n \in Name, Insert(n)
    PROVE  /\ born \in Nat /\ born' = born + 1 /\ born' \in 0 .. MaxUser
           /\ users' = users \cup {born + 1} /\ users' \subseteq 1 .. born'
           /\ name' \in [User -> Name]
           /\ born + 1 \notin users
  BY AccountsAssumption DEF TypeOK, Insert, User

\* A ticket or a cookie of fewer users is one of more.
LEMMA BrowserTypes ==
    ASSUME TypeOK, born' \in Nat, born <= born'
    PROVE  /\ cookie \in [Browser -> 0 .. born']
           /\ ticket \in [Nonce -> {NoTicket} \cup
                   [mode : {"login", "link"}, user : 0 .. born', consumed : BOOLEAN]]
           /\ preset \in 0 .. born'
           /\ cut \subseteq 1 .. born'
<1>1. 0 .. born \subseteq 0 .. born' /\ 1 .. born \subseteq 1 .. born'
  BY AccountsAssumption DEF TypeOK
<1>2. [mode : {"login", "link"}, user : 0 .. born, consumed : BOOLEAN]
         \subseteq [mode : {"login", "link"}, user : 0 .. born', consumed : BOOLEAN]
  BY <1>1
<1> QED  BY <1>1, <1>2 DEF TypeOK

\* The users there are have been given an id.
LEMMA UsersKnown ==
    ASSUME TypeOK
    PROVE  users \cup {NoUser} \subseteq 0 .. born
<1>1. born \in Nat /\ users \subseteq 1 .. born
  BY AccountsAssumption DEF TypeOK
<1> QED  BY <1>1 DEF NoUser

LEMMA TypeInit == Init => TypeOK
  BY AccountsAssumption DEF Init, TypeOK, Request, Idle, User, Name, NoUser, AdminName

-------------------------------------------------------------------------------
\* Steps that leave the database as it is: what a browser holds moves between
\* its cookie, its ticket and its request.
LEMMA TypeQuiet ==
    ASSUME TypeOK, NEW b \in Browser, UNCHANGED db,
           \/ \E n \in Name : Register(b, n)
           \/ \E u \in User : Login(b, u)
           \/ \E mode \in {"login", "link"} : GithubAuthorize(b, mode) \/ QqAuthorize(b, mode)
           \/ NameConflict(b) \/ LoggedIn(b) \/ SetPassword(b) \/ Refused(b)
           \/ GithubToken(b) \/ QqCallback(b) \/ ProviderFails(b)
           \/ KnownIdentity(b) \/ Logout(b)
    PROVE  TypeOK'
<1> USE AccountsAssumption
<1>db. /\ born' = born /\ users' = users /\ cut' = cut /\ name' = name
       /\ creds' = creds /\ owner' = owner /\ born \in Nat
  BY DEF db, TypeOK
<1>r. /\ req[b] \in Request /\ Request' = Request
      /\ req \in [Browser -> Request] /\ cookie \in [Browser -> 0 .. born]
  BY <1>db DEF TypeOK, Request
<1>f. /\ req[b].kind \in {"login", "password"} => req[b].user \in 1 .. born
      /\ req[b].kind = "oauth" => req[b].id \in Identity
  BY <1>r, RequestFields
<1> SUFFICES /\ cookie' \in [Browser -> 0 .. born]
             /\ ticket' \in [Nonce -> {NoTicket} \cup
                   [mode : {"login", "link"}, user : 0 .. born, consumed : BOOLEAN]]
             /\ req' \in [Browser -> Request]
             /\ preset' = preset /\ restarts' = restarts
  BY <1>db, <1>r DEF TypeOK
<1>1. CASE \E n \in Name : Register(b, n)
  <2>1. \A n \in Name : [kind |-> "register", name |-> n] \in Request
    BY DEF Request
  <2> QED  BY <1>1, <1>r, <2>1 DEF Register, Await, TypeOK
<1>2. CASE \E u \in User : Login(b, u)
  <2>1. \A u \in 1 .. born : [kind |-> "login", user |-> u] \in Request
    BY DEF Request
  <2>2. PICK u \in User : Login(b, u)
    BY <1>2
  <2>3. u \in 1 .. born
    BY <2>2 DEF Login, TypeOK
  <2>4. [kind |-> "login", user |-> u] \in Request
    BY <2>1, <2>3
  <2> QED  BY <2>2, <2>4, <1>r DEF Login, Await, TypeOK
<1>3. CASE SetPassword(b)
  <2>1. cookie[b] \in 1 .. born
    BY <1>3, <1>db, <1>r DEF SetPassword, Authenticated, NoUser
  <2>2. [kind |-> "password", user |-> cookie[b]] \in Request
    BY <2>1 DEF Request
  <2> QED  BY <1>3, <1>r, <2>2 DEF SetPassword, Await, TypeOK
<1>4. CASE \E mode \in {"login", "link"} : GithubAuthorize(b, mode) \/ QqAuthorize(b, mode)
  <2>1. \A mode \in {"login", "link"}, u \in 0 .. born : State(mode, u) \in
           [mode : {"login", "link"}, user : 0 .. born, consumed : BOOLEAN]
    BY DEF State
  <2>2. cookie[b] \in 0 .. born /\ NoUser \in 0 .. born
    BY <1>r, <1>db DEF NoUser
  <2>3. PICK mode \in {"login", "link"}, u \in 0 .. born : Send(b, mode, u)
    BY <1>4, <2>2 DEF GithubAuthorize, QqAuthorize
  <2> QED  BY <2>1, <2>3, <1>r DEF Send, TypeOK
<1>5. CASE GithubToken(b) \/ QqCallback(b)
  <2>1. PICK ids \in SUBSET Identity : Exchange(b, ids)
    BY <1>5 DEF GithubToken, QqCallback
  <2>2. PICK t \in Nonce :
           /\ Verified(t)
           /\ \E i \in ids :
                 Await(b, [kind |-> "oauth", id |-> i, mode |-> ticket[t].mode,
                           user |-> ticket[t].user])
           /\ ticket' = [ticket EXCEPT ![t].consumed = TRUE]
    BY <2>1 DEF Exchange
  <2>3. ticket[t] \in [mode : {"login", "link"}, user : 0 .. born, consumed : BOOLEAN]
    BY <2>2 DEF Verified, TypeOK
  <2>4. \A i \in ids :
           [kind |-> "oauth", id |-> i, mode |-> ticket[t].mode, user |-> ticket[t].user]
              \in Request
    BY <2>3 DEF Request
  <2>5. [ticket[t] EXCEPT !.consumed = TRUE]
           \in [mode : {"login", "link"}, user : 0 .. born, consumed : BOOLEAN]
    BY <2>3
  <2>6. req' \in [Browser -> Request]
    BY <2>2, <2>4, <1>r DEF Await
  <2>7. ticket' \in [Nonce -> {NoTicket} \cup
           [mode : {"login", "link"}, user : 0 .. born, consumed : BOOLEAN]]
    BY <2>2, <2>5 DEF TypeOK
  <2> QED  BY <2>1, <2>6, <2>7, <1>r DEF Exchange
<1>6. CASE KnownIdentity(b)
  <2>1. owner[req[b].id] \in 0 .. born
    <3>u. users \cup {NoUser} \subseteq 0 .. born
      BY <1>db, UsersKnown
    <3>1. owner \in [Identity -> 0 .. born]
      BY <3>u DEF TypeOK
    <3>2. req[b].id \in Identity
      BY <1>6, <1>f DEF KnownIdentity
    <3> QED  BY <3>1, <3>2
  <2>2. Idle \in Request
    BY DEF Request
  <2> QED  BY <1>6, <1>r, <2>1, <2>2 DEF KnownIdentity, SetCookie, Answer, TypeOK
<1>7. CASE \/ NameConflict(b) \/ LoggedIn(b) \/ Refused(b) \/ ProviderFails(b)
           \/ Logout(b)
  <2>1. Idle \in Request
    BY DEF Request
  <2> QED
    BY <1>7, <1>r, <1>f, <1>db, <2>1
    DEF NameConflict, LoggedIn, Refused, ProviderFails, Logout, SetCookie, Answer,
        TypeOK, NoUser
<1> QED  BY <1>1, <1>2, <1>3, <1>4, <1>5, <1>6, <1>7

\* Steps that create a user.
LEMMA TypeCreate ==
    ASSUME TypeOK, NEW b \in Browser,
           Registered(b) \/ OauthCreate(b) \/ OauthCreateCut(b)
    PROVE  TypeOK'
<1> USE AccountsAssumption
<1>r. req[b] \in Request
  BY DEF TypeOK
<1>1. PICK n \in Name : Insert(n)
  <2>1. CASE Registered(b)
    BY <1>r, <2>1, RequestFields DEF Registered
  <2>2. CASE OauthCreate(b) \/ OauthCreateCut(b)
    BY <2>2 DEF OauthCreate, OauthCreateCut, NewLogin
  <2> QED  BY <2>1, <2>2
<1>2. /\ born \in Nat /\ born' = born + 1 /\ born' \in 0 .. MaxUser
      /\ users' = users \cup {born + 1} /\ users' \subseteq 1 .. born'
      /\ name' \in [User -> Name]
  BY <1>1, InsertTypes
<1>3. Answer(b)
  BY DEF Registered, OauthCreate, OauthCreateCut
<1>4. /\ req' \in [Browser -> Request']
      /\ cookie \in [Browser -> 0 .. born']
      /\ ticket \in [Nonce -> {NoTicket} \cup
              [mode : {"login", "link"}, user : 0 .. born', consumed : BOOLEAN]]
      /\ preset \in 0 .. born'
      /\ cut \subseteq 1 .. born'
  BY <1>2, <1>3, RequestTypes, BrowserTypes
<1>5. cookie' \in [Browser -> 0 .. born'] /\ ticket' = ticket /\ preset' = preset
  BY <1>2, <1>4 DEF Registered, OauthCreate, OauthCreateCut, SetCookie
<1>6. creds' \subseteq users' /\ cut' \subseteq 1 .. born' /\ restarts' = restarts
  BY <1>2, <1>4 DEF Registered, OauthCreate, OauthCreateCut, TypeOK
<1>7. owner' \in [Identity -> users' \cup {NoUser}]
  BY <1>2 DEF Registered, OauthCreate, OauthCreateCut, TypeOK
<1> QED  BY <1>2, <1>4, <1>5, <1>6, <1>7 DEF TypeOK

\* Steps that move, add or remove what a user logs in with.
LEMMA TypeChange ==
    ASSUME TypeOK, NEW b \in Browser,
           \/ PasswordSet(b) \/ OauthLink(b)
           \/ \E u \in User : Merge(b, u)
           \/ \E i \in Identity : Unlink(b, i)
    PROVE  TypeOK'
<1> USE AccountsAssumption
<1>1. born' = born /\ born \in Nat
  BY DEF TypeOK, PasswordSet, OauthLink, Merge, Unlink
<1>2. req' = req \/ Answer(b)
  BY DEF PasswordSet, OauthLink, Merge, Unlink
<1>3. req' \in [Browser -> Request']
  BY <1>1, <1>2, RequestTypes
<1>4. /\ cut' = cut /\ ticket' = ticket /\ preset' = preset /\ restarts' = restarts
      /\ name' \in [User -> Name]
  BY DEF TypeOK, PasswordSet, OauthLink, Merge, Unlink, User, Name, AdminName
<1>5. cookie' \in [Browser -> 0 .. born] /\ users' \subseteq users
  BY DEF TypeOK, PasswordSet, OauthLink, Merge, Unlink, SetCookie, Exists
<1>6. creds' \subseteq users' /\ owner' \in [Identity -> users' \cup {NoUser}]
  <2>1. CASE PasswordSet(b) \/ OauthLink(b) \/ \E i \in Identity : Unlink(b, i)
    BY <2>1 DEF TypeOK, PasswordSet, OauthLink, Unlink, Exists
  <2>2. CASE \E u \in User : Merge(b, u)
    <3>1. PICK s \in User : Merge(b, s)
      BY <2>2
    <3>2. /\ users' = users \ {s} /\ creds' = creds \ {s}
          /\ owner' = [i \in Identity |-> IF owner[i] = s THEN cookie[b] ELSE owner[i]]
          /\ cookie[b] \in users /\ cookie[b] # s
      BY <3>1 DEF Merge, Moved
    <3>3. \A i \in Identity : owner[i] \in users \cup {NoUser}
      BY DEF TypeOK
    <3>4. owner' \in [Identity -> users' \cup {NoUser}]
      BY <3>2, <3>3
    <3> QED  BY <3>2, <3>4 DEF TypeOK
  <2> QED  BY <2>1, <2>2
<1> QED  BY <1>1, <1>3, <1>4, <1>5, <1>6 DEF TypeOK

\* Steps of the process.
LEMMA TypeProcess ==
    ASSUME TypeOK, Restart \/ PresetStored \/ PresetFails \/ Expiry
    PROVE  TypeOK'
<1> USE AccountsAssumption
<1>1. born' = born /\ born \in Nat
  BY DEF TypeOK, PresetStored, PresetFails, Restart, Expiry, TicketExpires, Boot, db
<1>2. Request' = Request /\ Idle \in Request
  BY <1>1 DEF Request
<1>3. req' \in [Browser -> Request]
  BY <1>2 DEF TypeOK, PresetStored, PresetFails, Restart, Expiry, TicketExpires, Boot
<1>4. preset' \in 0 .. born
  <2>1. CASE Boot
    <3>1. Admin \subseteq 0 .. born
      BY UsersKnown DEF Admin
    <3>2. 0 \in 0 .. born
      BY <1>1
    <3> QED  BY <2>1, <3>1, <3>2 DEF Boot, NoUser
  <2>2. CASE PresetStored
    BY <2>2, <1>1 DEF PresetStored, NoUser
  <2>3. CASE Expiry
    BY <2>3 DEF Expiry, TicketExpires, TypeOK
  <2> QED  BY <2>1, <2>2, <2>3 DEF Restart, PresetFails
<1>5. restarts' \in 0 .. MaxRestart
  BY DEF TypeOK, PresetStored, PresetFails, Restart, Expiry, TicketExpires
<1>6. /\ users' = users /\ name' = name /\ owner' = owner /\ cut' = cut
      /\ cookie' = cookie /\ creds' \subseteq users
  BY DEF TypeOK, PresetStored, PresetFails, Restart, Expiry, TicketExpires, Boot, db, Exists
<1>7. ticket' \in [Nonce -> {NoTicket} \cup
              [mode : {"login", "link"}, user : 0 .. born, consumed : BOOLEAN]]
  <2>1. CASE Boot
    BY <2>1 DEF Boot, Forgotten, State, TypeOK
  <2>2. CASE PresetStored
    BY <2>2 DEF PresetStored, TypeOK
  <2>3. CASE Expiry
    BY <2>3 DEF Expiry, TicketExpires, TypeOK
  <2> QED  BY <2>1, <2>2, <2>3 DEF Restart, PresetFails
<1> QED  BY <1>1, <1>2, <1>3, <1>4, <1>5, <1>6, <1>7 DEF TypeOK

LEMMA TypeStep == TypeOK /\ [Next]_vars => TypeOK'
<1> SUFFICES ASSUME TypeOK, [Next]_vars PROVE TypeOK'
  OBVIOUS
<1>1. CASE Restart \/ PresetStored \/ PresetFails \/ Expiry
  BY <1>1, TypeProcess
<1>2. ASSUME NEW b \in Browser, BrowserStep(b) PROVE TypeOK'
  <2>1. CASE Registered(b) \/ OauthCreate(b) \/ OauthCreateCut(b)
    BY <2>1, TypeCreate
  <2>2. CASE \/ PasswordSet(b) \/ OauthLink(b)
             \/ \E u \in User : Merge(b, u)
             \/ \E i \in Identity : Unlink(b, i)
    BY <2>2, TypeChange
  <2>3. CASE \/ \E n \in Name : Register(b, n)
             \/ \E u \in User : Login(b, u)
             \/ \E mode \in {"login", "link"} : GithubAuthorize(b, mode) \/ QqAuthorize(b, mode)
             \/ NameConflict(b) \/ LoggedIn(b) \/ SetPassword(b) \/ Refused(b)
             \/ GithubToken(b) \/ QqCallback(b) \/ ProviderFails(b)
             \/ KnownIdentity(b) \/ Logout(b)
    <3>1. UNCHANGED db
      BY <2>3
      DEF Register, Login, GithubAuthorize, QqAuthorize, Send, NameConflict, LoggedIn,
          SetPassword, Refused, GithubToken, QqCallback, Exchange,
          ProviderFails, KnownIdentity, Logout, db
    <3> QED  BY <2>3, <3>1, TypeQuiet
  <2> QED  BY <1>2, <2>1, <2>2, <2>3 DEF BrowserStep
<1>3. CASE UNCHANGED vars
  BY <1>3 DEF TypeOK, vars, Request
<1> QED  BY <1>1, <1>2, <1>3 DEF Next, BrowserStep, Expiry

\* Nothing belongs to a user that is not there, in every reachable state.
THEOREM TypeCorrect == Spec => []TypeOK
  BY TypeInit, TypeStep, PTL DEF Spec

-------------------------------------------------------------------------------
(* Everyone can log in.                                                        *)

\* Steps that leave the database alone.
LEMMA QuietSteps ==
    ASSUME NEW b \in Browser, BrowserStep(b)
    PROVE  \/ UNCHANGED db
           \/ Registered(b) \/ OauthCreate(b) \/ OauthCreateCut(b)
           \/ PasswordSet(b) \/ OauthLink(b)
           \/ \E u \in User : Merge(b, u)
           \/ \E i \in Identity : Unlink(b, i)
  BY DEF BrowserStep, Register, Login, GithubAuthorize, QqAuthorize, Send, NameConflict,
     LoggedIn, SetPassword, Refused, GithubToken, QqCallback, Exchange,
          ProviderFails, KnownIdentity, Logout, db

\* A user that may unlink one account has another, or a password.
LEMMA UnlinkLeavesALogin ==
    ASSUME TypeOK, NEW u \in users, NEW i \in Linked(u), ~ IsOnlyLogin(u)
    PROVE  u \in creds \/ \E j \in Linked(u) : j # i
<1>1. IsFiniteSet(Linked(u))
  BY AccountsAssumption, FS_Subset DEF Linked
<1>2. Cardinality(Linked(u)) = 1 => \E x : Linked(u) = {x}
  BY <1>1, FS_Singleton
<1>3. Linked(u) = {i} => Cardinality(Linked(u)) = 1
  BY <1>1, FS_Singleton
<1>4. (\A j \in Linked(u) : j = i) => Linked(u) = {i}
  OBVIOUS
<1> QED  BY <1>3, <1>4 DEF IsOnlyLogin

\* Whoever keeps a password and an account, keeps a way in.
LEMMA LoginKept ==
    ASSUME EveryoneCanLogIn, creds \subseteq creds', NEW u \in users \ cut,
           \A i \in Identity : owner[i] = u => owner'[i] = u
    PROVE  u \in creds' \/ Linked(u)' # {}
  BY DEF EveryoneCanLogIn, Linked

LEMMA LoginStep == TypeOK /\ EveryoneCanLogIn /\ [Next]_vars => EveryoneCanLogIn'
<1> SUFFICES ASSUME TypeOK, EveryoneCanLogIn, [Next]_vars,
                    NEW u \in users' \ cut'
             PROVE  u \in creds' \/ Linked(u)' # {}
  BY DEF EveryoneCanLogIn
<1> USE AccountsAssumption
<1>0. CASE UNCHANGED db
  BY <1>0 DEF EveryoneCanLogIn, Linked, db
<1>1. CASE PresetStored
  BY <1>1 DEF PresetStored, EveryoneCanLogIn, Linked
<1>2. ASSUME NEW b \in Browser, BrowserStep(b), ~ UNCHANGED db
      PROVE  u \in creds' \/ Linked(u)' # {}
  <2>r. req[b] \in Request
    BY DEF TypeOK
  <2>n. born \in Nat /\ users \subseteq 1 .. born /\ NoUser \notin users
    BY DEF TypeOK, NoUser
  <2>1. CASE Registered(b)
    BY <2>1, LoginKept DEF Registered, Insert
  <2>2. CASE OauthCreate(b)
    <3>1. /\ users' = users \cup {born + 1} /\ cut' = cut /\ creds' = creds
          /\ owner' = [owner EXCEPT ![req[b].id] = born + 1]
          /\ owner[req[b].id] = NoUser
      BY <2>2 DEF OauthCreate, NewLogin, Insert
    <3>2. req[b].id \in Identity
      BY <2>2, <2>r, RequestFields DEF OauthCreate, NewLogin
    <3>3. CASE u = born + 1
      BY <3>1, <3>2, <3>3 DEF Linked, TypeOK
    <3>4. CASE u \in users
      <4>1. \A i \in Identity : owner[i] = u => owner'[i] = u
        BY <3>1, <3>4, <2>n DEF TypeOK
      <4> QED  BY <3>1, <3>4, <4>1, LoginKept
    <3> QED  BY <3>1, <3>3, <3>4
  <2>3. CASE OauthCreateCut(b)
    <3>1. /\ users' = users \cup {born + 1} /\ cut' = cut \cup {born + 1}
          /\ creds' = creds /\ owner' = owner
      BY <2>3 DEF OauthCreateCut, NewLogin, Insert
    <3> QED  BY <3>1, LoginKept
  <2>4. CASE PasswordSet(b)
    BY <2>4, LoginKept DEF PasswordSet
  <2>5. CASE OauthLink(b)
    <3>1. /\ users' = users /\ cut' = cut /\ creds' = creds
          /\ owner' = [owner EXCEPT ![req[b].id] = req[b].user]
          /\ owner[req[b].id] = NoUser
      BY <2>5 DEF OauthLink
    <3>2. \A i \in Identity : owner[i] = u => owner'[i] = u
      BY <3>1, <2>n DEF TypeOK
    <3> QED  BY <3>1, <3>2, LoginKept
  <2>6. CASE \E s \in User : Merge(b, s)
    <3>1. PICK s \in User : Merge(b, s)
      BY <2>6
    <3>2. /\ users' = users \ {s} /\ cut' = cut /\ creds' = creds \ {s}
          /\ owner' = [i \in Identity |-> IF owner[i] = s THEN cookie[b] ELSE owner[i]]
      BY <3>1 DEF Merge, Moved
    <3>3. \A i \in Identity : owner[i] = u => owner'[i] = u
      BY <3>2
    <3> QED  BY <3>2, <3>3 DEF EveryoneCanLogIn, Linked
  <2>7. CASE \E i \in Identity : Unlink(b, i)
    <3>1. PICK i \in Identity : Unlink(b, i)
      BY <2>7
    <3>2. /\ users' = users /\ cut' = cut /\ creds' = creds
          /\ owner' = [owner EXCEPT ![i] = NoUser]
          /\ i \in Linked(cookie[b]) /\ ~ IsOnlyLogin(cookie[b])
      BY <3>1 DEF Unlink
    <3>3. \A j \in Identity : j # i /\ owner[j] = u => owner'[j] = u
      BY <3>2 DEF TypeOK
    <3>4. CASE u = cookie[b]
      <4>1. u \in creds \/ \E j \in Linked(u) : j # i
        BY <3>2, <3>4, UnlinkLeavesALogin
      <4> QED  BY <3>2, <3>3, <4>1 DEF Linked
    <3>5. CASE u # cookie[b]
      <4>1. \A j \in Identity : owner[j] = u => owner'[j] = u
        BY <3>2, <3>3, <3>5 DEF Linked
      <4> QED  BY <3>2, <4>1, LoginKept
    <3> QED  BY <3>4, <3>5
  <2> QED  BY <1>2, <2>1, <2>2, <2>3, <2>4, <2>5, <2>6, <2>7, QuietSteps
<1>3. CASE Restart \/ PresetFails \/ Expiry \/ UNCHANGED vars
  BY <1>3, <1>0 DEF Restart, PresetFails, Expiry, TicketExpires, Boot, db, vars
<1> QED  BY <1>0, <1>1, <1>2, <1>3 DEF Next, BrowserStep, Expiry

\* Every user has a way to log in, unless its creation was cut in two
\* (accounts.ts:322-323).
THEOREM LoginsKept == Spec => []EveryoneCanLogIn
<1>1. Init => EveryoneCanLogIn
  BY DEF Init, EveryoneCanLogIn
<1> QED  BY <1>1, LoginStep, TypeCorrect, PTL DEF Spec
-------------------------------------------------------------------------------
(* An identity stays with its user.                                            *)

\* What IdentityStays says of a step.
Stays(i) ==
    owner[i] # NoUser /\ owner'[i] # owner[i] =>
       \/ owner[i] \notin users' /\ owner'[i] \in users'
       \/ /\ owner'[i] = NoUser
          /\ \E b \in Browser : cookie[b] = owner[i]
          /\ \E j \in Identity : owner'[j] = owner[i] \/ owner[i] \in creds'

LEMMA StaysStep ==
    ASSUME TypeOK, [Next]_vars, NEW i \in Identity
    PROVE  Stays(i)
<1> USE AccountsAssumption
<1>0. CASE owner'[i] = owner[i] \/ owner[i] = NoUser
  BY <1>0 DEF Stays
<1>1. ASSUME NEW b \in Browser, OauthCreate(b) \/ OauthLink(b) PROVE Stays(i)
  <2>1. owner[req[b].id] = NoUser
    BY <1>1 DEF OauthCreate, NewLogin, OauthLink
  <2>2. i # req[b].id => owner'[i] = owner[i]
    BY <1>1 DEF OauthCreate, OauthLink, TypeOK
  <2> QED  BY <2>1, <2>2, <1>0
<1>2. ASSUME NEW b \in Browser, NEW s \in User, Merge(b, s) PROVE Stays(i)
  <2>1. /\ users' = users \ {s} /\ cookie[b] \in users /\ cookie[b] # s
        /\ owner' = [j \in Identity |-> IF owner[j] = s THEN cookie[b] ELSE owner[j]]
    BY <1>2 DEF Merge, Moved
  <2> QED  BY <2>1 DEF Stays
<1>3. ASSUME NEW b \in Browser, NEW j \in Identity, Unlink(b, j) PROVE Stays(i)
  <2>1. /\ owner' = [owner EXCEPT ![j] = NoUser] /\ creds' = creds
        /\ j \in Linked(cookie[b]) /\ ~ IsOnlyLogin(cookie[b]) /\ cookie[b] # NoUser
    BY <1>3 DEF Unlink, Authenticated
  <2>2. i # j => owner'[i] = owner[i]
    BY <2>1 DEF TypeOK
  <2>3. CASE i = j
    <3>1. owner[i] = cookie[b] /\ owner'[i] = NoUser
      BY <2>1, <2>3 DEF Linked, TypeOK
    <3>2. cookie[b] \in users
      BY <3>1, <2>1 DEF TypeOK
    <3>3. cookie[b] \in creds \/ \E k \in Linked(cookie[b]) : k # i
      BY <2>1, <2>3, <3>2, UnlinkLeavesALogin
    <3>4. \A k \in Linked(cookie[b]) : k # i => owner'[k] = cookie[b]
      BY <2>1, <2>3 DEF Linked, TypeOK
    <3>5. \E k \in Identity : owner'[k] = owner[i] \/ owner[i] \in creds'
      BY <2>1, <3>1, <3>3, <3>4 DEF Linked
    <3> QED  BY <3>1, <3>5 DEF Stays
  <2> QED  BY <2>2, <2>3, <1>0
<1>4. ASSUME NEW b \in Browser, Registered(b) \/ OauthCreateCut(b) \/ PasswordSet(b)
      PROVE  Stays(i)
  BY <1>4, <1>0 DEF Registered, OauthCreateCut, PasswordSet
<1>5. ASSUME UNCHANGED db PROVE Stays(i)
  BY <1>5, <1>0 DEF db
<1>6. ASSUME NEW b \in Browser, BrowserStep(b) PROVE Stays(i)
  BY <1>1, <1>2, <1>3, <1>4, <1>5, <1>6, QuietSteps
<1>7. CASE Restart \/ PresetStored \/ PresetFails \/ Expiry \/ UNCHANGED vars
  BY <1>7, <1>0 DEF Restart, PresetStored, PresetFails, Expiry, TicketExpires, Boot, db, vars
<1> QED  BY <1>6, <1>7 DEF Next, BrowserStep, Expiry

\* A linked identity leaves its user only by a merge or by the user's own
\* unlink, which leaves another way in (accounts.ts:268-311, 325-346).
THEOREM IdentitiesKept == Spec => IdentityStays
<1>1. TypeOK /\ [Next]_vars
         => [\A i \in Identity : owner[i] # NoUser /\ owner'[i] # owner[i] =>
               \/ owner[i] \notin users' /\ owner'[i] \in users'
               \/ /\ owner'[i] = NoUser
                  /\ \E b \in Browser : cookie[b] = owner[i]
                  /\ \E j \in Identity : owner'[j] = owner[i] \/ owner[i] \in creds']_vars
  BY StaysStep DEF Stays
<1> QED  BY <1>1, TypeCorrect, PTL DEF Spec, IdentityStays
===============================================================================
