--------------------------- MODULE AccountsProofs ---------------------------
(***************************************************************************)
(* Theorems about Accounts, for every set of subjects, clients and keys,   *)
(* for every choice of the times and for every bound.                      *)
(***************************************************************************)
EXTENDS Accounts, TLAPS

-----------------------------------------------------------------------------
(***************************************************************************)
(* Shapes.  The list an administrator picks an account from is left open:  *)
(* an edit of any account, even of one that is not there, has them.        *)
(***************************************************************************)

Fields == [stored : BOOLEAN, active : BOOLEAN, scopes : SUBSET Roles]

\* The steps that need the token of the request.
WithToken == {"asking", "served", "stored", "lookup", "search", "insert", "sync"}

Sound(r) ==
  /\ r \in Requests
  /\ r.step # "idle" => r.result = "none"
  /\ r.step \in WithToken => r.token # {}

Shape ==
  /\ account \in [Subjects -> Fields]
  /\ session \in [Clients -> Subjects \cup {None}]
  /\ time \in Nat /\ fetchedAt \in Nat /\ jwks \subseteq Keys
  /\ publishedAt \in [Keys -> Nat \cup {Never}]
  /\ withdrawnAt \in [Keys -> Nat \cup {Never}]
  /\ request \in [Clients -> Requests]
  /\ \A c \in Clients : Sound(request[c])

\* Only a request with a session reads one.
HasSession == \A c \in Clients : request[c].step = "session" => session[c] # None

\* A request under way.
LEMMA UnderWay ==
  ASSUME NEW step \in Steps, NEW purpose \in {"none", "call", "login"},
         NEW token \in SUBSET Tokens, NEW attempt \in 0..2, NEW asked \in Nat,
         NEW served \in SUBSET Keys, step \in WithToken => token # {}
  PROVE  Sound(Request(step, purpose, token, attempt, asked, served))
BY DEF Request, Requests, Sound, Results

\* A request that has ended.
LEMMA AtAnEnd ==
  ASSUME NEW result \in Results, NEW identity \in Subjects \cup {None},
         NEW scopes \in SUBSET Roles
  PROVE  Sound(Ended(result, identity, scopes))
BY DEF Ended, Requests, Sound, Steps, WithToken

\* A step of a client changes its own request.
LEMMA OneRequest ==
  ASSUME Shape, NEW c \in Clients, NEW r, Sound(r), request' = [request EXCEPT ![c] = r]
  PROVE  /\ request' \in [Clients -> Requests]
         /\ \A d \in Clients : Sound(request'[d])
         /\ request'[c] = r
         /\ \A d \in Clients \ {c} : request'[d] = request[d]
BY DEF Shape, Sound

\* The token a step works with is the token of the request.
LEMMA TokenFacts ==
  ASSUME Shape, NEW c \in Clients, request[c].token # {}
  PROVE  /\ Token(c) \in request[c].token /\ Token(c) \in Tokens
         /\ Subject(c) \in Subjects /\ Token(c).roles \subseteq Roles
         /\ Token(c).kid \in Keys
<1>1. Token(c) \in request[c].token
  BY DEF Token
<1>2. request[c].token \subseteq Tokens
  BY DEF Shape, Requests
<1>. QED BY <1>1, <1>2 DEF Tokens, Subject

LEMMA IssuedTokens ==
  ASSUME Shape, NEW t \in Issued
  PROVE  t \in Tokens /\ publishedAt[t.kid] # Never
<1>1. PICK at \in 0..time : t \in SignedAt(at)
  BY DEF Issued
<1>2. PICK s \in Subjects, roles \in SUBSET Roles,
           k \in {j \in Keys : /\ publishedAt[j] # Never /\ publishedAt[j] <= at
                               /\ withdrawnAt[j] # Never => at <= withdrawnAt[j]} :
        t = [sub |-> s, kid |-> k, roles |-> roles, expires |-> Expiry(at, s)]
  BY <1>1 DEF SignedAt
<1>3. Expiry(at, s) \in Nat
  BY TimesAssumption DEF Shape, Expiry
<1>. QED BY <1>2, <1>3 DEF Tokens

\* The ends of a request, and going on with it.
LEMMA Transitions ==
  ASSUME Shape, NEW c \in Clients
  PROVE  /\ \A result \in Results : request' = End(c, result) =>
              /\ request' \in [Clients -> Requests]
              /\ \A d \in Clients : Sound(request'[d])
              /\ request'[c] = Ended(result, None, {})
         /\ \A step \in Steps :
              (step \in WithToken => request[c].token # {}) /\ request' = GoTo(c, step) =>
                /\ request' \in [Clients -> Requests]
                /\ \A d \in Clients : Sound(request'[d])
         /\ \A s \in Subjects, scopes \in SUBSET Roles :
              request' = AuthenticatedAs(c, s, scopes) =>
                /\ request' \in [Clients -> Requests]
                /\ \A d \in Clients : Sound(request'[d])
         /\ \A attempt \in 0..2 :
              request[c].token # {} /\ request' = Asking(c, attempt) =>
                /\ request' \in [Clients -> Requests]
                /\ \A d \in Clients : Sound(request'[d])
<1>1. ASSUME NEW result \in Results, request' = End(c, result)
      PROVE  /\ request' \in [Clients -> Requests]
             /\ \A d \in Clients : Sound(request'[d])
             /\ request'[c] = Ended(result, None, {})
  <2>1. Sound(Ended(result, None, {}))
    <3>1. None \in Subjects \cup {None} /\ {} \in SUBSET Roles
      OBVIOUS
    <3>. QED BY <3>1, AtAnEnd
  <2>. QED BY <1>1, <2>1, OneRequest DEF End
<1>2. request[c].purpose \in {"none", "call", "login"} /\ request[c].token \in SUBSET Tokens
  BY DEF Shape, Requests
<1>3. ASSUME NEW step \in Steps, step \in WithToken => request[c].token # {},
             request' = GoTo(c, step)
      PROVE  /\ request' \in [Clients -> Requests]
             /\ \A d \in Clients : Sound(request'[d])
  <2>1. Sound(Request(step, request[c].purpose, request[c].token, 0, 0, {}))
    <3>1. 0 \in 0..2 /\ 0 \in Nat /\ {} \in SUBSET Keys
      OBVIOUS
    <3>. QED BY <1>2, <1>3, <3>1, UnderWay
  <2>. QED BY <1>3, <2>1, OneRequest DEF GoTo
<1>4. ASSUME NEW s \in Subjects, NEW scopes \in SUBSET Roles,
             request' = AuthenticatedAs(c, s, scopes)
      PROVE  /\ request' \in [Clients -> Requests]
             /\ \A d \in Clients : Sound(request'[d])
  <2>1. "user" \in Results
    BY DEF Results
  <2>. QED BY <1>4, <2>1, AtAnEnd, OneRequest DEF AuthenticatedAs
<1>5. ASSUME NEW attempt \in 0..2, request[c].token # {}, request' = Asking(c, attempt)
      PROVE  /\ request' \in [Clients -> Requests]
             /\ \A d \in Clients : Sound(request'[d])
  <2>1. "asking" \in Steps /\ time \in Nat
    BY DEF Steps, Shape
  <2>. QED BY <1>2, <1>5, <2>1, UnderWay, OneRequest DEF Asking
<1>. QED BY <1>1, <1>3, <1>4, <1>5

\* What a request does with an account that was just read or inserted.
LEMMA UseAccountShape ==
  ASSUME Shape, NEW c \in Clients, NEW a \in Fields, request[c].token # {},
         UseAccount(c, a)
  PROVE  /\ request' \in [Clients -> Requests]
         /\ \A d \in Clients : Sound(request'[d])
         /\ session' \in [Clients -> Subjects \cup {None}]
<1>1. Token(c).roles \subseteq Roles /\ Subject(c) \in Subjects /\ a.scopes \subseteq Roles
  BY TokenFacts DEF Fields
<1>2. session' \in [Clients -> Subjects \cup {None}]
  BY <1>1 DEF UseAccount, Shape
<1>3. \/ \E result \in {"inactive", "opened", "failed"} : request' = End(c, result)
      \/ \E scopes \in SUBSET Roles : request' = AuthenticatedAs(c, Subject(c), scopes)
      \/ request' = GoTo(c, "sync")
  BY <1>1 DEF UseAccount
<1>. QED BY <1>1, <1>2, <1>3, Transitions DEF Results, Steps

\* The token checked, on to its account.
LEMMA DecodedShape ==
  ASSUME Shape, NEW c \in Clients, NEW key, request[c].token # {}, request' = Decoded(c, key)
  PROVE  request' \in [Clients -> Requests] /\ \A d \in Clients : Sound(request'[d])
<1>1. \/ \E result \in {"noKey", "expired"} : request' = End(c, result)
      \/ \E step \in {"search", "lookup"} : request' = GoTo(c, step)
  BY DEF Decoded
<1>. QED BY <1>1, Transitions DEF Results, Steps

\* The administrator changes one account at a time.
LEMMA EditShape ==
  ASSUME Shape, CreateUser \/ UpdateUser \/ DeleteUser
  PROVE  Shape'
<1>1. account' \in [Subjects -> Fields]
  <2>1. CASE CreateUser
    <3>1. PICK s \in Subjects \ retired, scopes \in SUBSET ValidRoles :
            account' = [account EXCEPT ![s] = NewAccount(scopes)]
      BY <2>1 DEF CreateUser
    <3>2. NewAccount(scopes) \in Fields
      BY NamesAssumption DEF NewAccount, Fields
    <3>. QED BY <3>1, <3>2 DEF Shape
  <2>2. CASE UpdateUser
    <3>0. PICK page \in 1..Cardinality(Subjects), active \in BOOLEAN,
               scopes \in SUBSET ValidRoles :
            \E s \in PaginatedListUsers(page, 1) :
              account' = [account EXCEPT ![s] = Updated(@, active, scopes)]
      BY <2>2, Zenon DEF UpdateUser
    <3>1. PICK s : account' = [account EXCEPT ![s] = Updated(@, active, scopes)]
      BY <3>0
    <3>2. ASSUME NEW a \in Fields PROVE Updated(a, active, scopes) \in Fields
      <4>1. scopes \subseteq Roles /\ a.scopes \subseteq Roles
        BY NamesAssumption DEF Fields
      <4>2. [a EXCEPT !.active = active] \in Fields
        BY DEF Fields
      <4>. QED BY <4>1, <4>2 DEF Updated, Fields
    <3>. QED BY <3>1, <3>2 DEF Shape
  <2>3. CASE DeleteUser
    <3>1. PICK s : account' = [account EXCEPT ![s] = NoAccount]
      BY <2>3 DEF DeleteUser
    <3>2. NoAccount \in Fields
      BY DEF NoAccount, Fields
    <3>. QED BY <3>1, <3>2 DEF Shape
  <2>. QED BY <2>1, <2>2, <2>3
<1>2. UNCHANGED <<session, time, publishedAt, withdrawnAt, jwks, fetchedAt, request>>
  BY DEF CreateUser, UpdateUser, DeleteUser, unchangedByEdits, keyVars, cacheVars
<1>. QED BY <1>1, <1>2 DEF Shape

\* The provider and the clock change the keys and the time.
LEMMA ProviderShape ==
  ASSUME Shape, PublishKey \/ WithdrawKey \/ Tick
  PROVE  /\ Shape' /\ UNCHANGED <<account, session, jwks, fetchedAt, request>>
         /\ time' >= time
<1>1. UNCHANGED <<account, session, jwks, fetchedAt, request>>
  BY DEF PublishKey, WithdrawKey, Tick, unchangedByProvider, cacheVars
<1>2. /\ time' \in Nat /\ time' >= time
      /\ publishedAt' \in [Keys -> Nat \cup {Never}]
      /\ withdrawnAt' \in [Keys -> Nat \cup {Never}]
  BY DEF PublishKey, WithdrawKey, Tick, keyVars, Shape
<1>. QED BY <1>1, <1>2 DEF Shape

\* A new request.
LEMMA CallShape ==
  ASSUME Shape, NEW c \in Clients, Call(c) \/ Callback(c)
  PROVE  /\ request' \in [Clients -> Requests]
         /\ \A d \in Clients : Sound(request'[d])
         /\ UNCHANGED <<account, session, time, publishedAt, withdrawnAt, jwks, fetchedAt>>
         /\ request[c].step = "idle" /\ request'[c].step \in {"session", "token"}
         /\ \A t, u \in request'[c].token : t \in Issued /\ t = u
         /\ \A d \in Clients \ {c} : request'[d] = request[d]
<1>1. PICK step \in {"session", "token"}, purpose \in {"call", "login"}, token \in SUBSET Issued :
        /\ \A t, u \in token : t = u
        /\ request' = [request EXCEPT ![c] = Request(step, purpose, token, 0, 0, {})]
  <2>1. CASE Call(c)
    <3>1. PICK token \in {{}} \cup {{t} : t \in Issued} :
            request' = [request EXCEPT ![c] =
              Request(IF session[c] # None THEN "session" ELSE "token", "call", token, 0, 0, {})]
      BY <2>1 DEF Call
    <3>2. token \in SUBSET Issued /\ \A t, u \in token : t = u
      OBVIOUS
    <3>. QED BY <3>1, <3>2
  <2>2. CASE Callback(c)
    <3>1. PICK t \in Issued \cap SignedAt(time) :
            request' = [request EXCEPT ![c] = Request("token", "login", {t}, 0, 0, {})]
      BY <2>2 DEF Callback
    <3>. QED BY <3>1
  <2>. QED BY <2>1, <2>2
<1>2. token \in SUBSET Tokens
  BY IssuedTokens
<1> DEFINE r == Request(step, purpose, token, 0, 0, {})
<1>3. Sound(r) /\ r.token = token /\ r.step = step
  <2>1. step \in Steps /\ step \notin WithToken /\ purpose \in {"none", "call", "login"}
    BY DEF Steps, WithToken
  <2>2. 0 \in 0..2 /\ 0 \in Nat /\ {} \in SUBSET Keys
    OBVIOUS
  <2>. QED BY <1>2, <2>1, <2>2, UnderWay DEF Request
<1>4. /\ UNCHANGED <<account, session, time, publishedAt, withdrawnAt, jwks, fetchedAt>>
      /\ request[c].step = "idle"
  BY DEF Call, Callback, keyVars, cacheVars
<1> HIDE DEF r
<1>5. request' = [request EXCEPT ![c] = r]
  BY <1>1 DEF r
<1>6. \A t, u \in token : t \in Issued /\ t = u
  BY <1>1
<1>. QED BY <1>3, <1>4, <1>5, <1>6, OneRequest

\* A step of a request, or of its client between requests, is nobody else's.
LEMMA OneClient ==
  ASSUME Shape, NEW c \in Clients,
         \/ ReadSession(c) \/ WithoutToken(c) \/ LocalToken(c) \/ PasswordLogin(c)
         \/ Logout(c) \/ FindKey(c) \/ ServeKeys(c) \/ StoreKeys(c) \/ ReadKeys(c) \/ FetchFails(c)
         \/ LookUp(c) \/ Search(c) \/ ProvisionOidcUser(c) \/ SyncScopes(c)
  PROVE  /\ \A d \in Clients \ {c} : request'[d] = request[d] /\ session'[d] = session[d]
         /\ request'[c].step # "session"
         /\ Logout(c) \/ \E r : request' = [request EXCEPT ![c] = r]
<1>1. \/ Logout(c) /\ UNCHANGED request
      \/ \E r : request' = [request EXCEPT ![c] = r] /\ r.step # "session"
  <2>1. \/ Logout(c) /\ UNCHANGED request
        \/ \E result : request' = End(c, result)
        \/ \E step \in Steps \ {"session"} : request' = GoTo(c, step)
        \/ \E s, scopes : request' = AuthenticatedAs(c, s, scopes)
        \/ \E attempt : request' = Asking(c, attempt)
        \/ \E step \in {"served", "stored"} : \E purpose, token, attempt, asked, served :
             request' = [request EXCEPT ![c] =
               Request(step, purpose, token, attempt, asked, served)]
    <3>1. CASE \/ ReadSession(c) \/ WithoutToken(c) \/ LocalToken(c)
               \/ PasswordLogin(c) \/ FetchFails(c)
      BY <3>1 DEF ReadSession, WithoutToken, LocalToken, PasswordLogin, FetchFails, Steps
    <3>2. CASE FindKey(c) \/ ReadKeys(c)
      BY <3>2 DEF FindKey, ReadKeys, Decoded, Steps
    <3>3. CASE LookUp(c) \/ Search(c) \/ ProvisionOidcUser(c) \/ SyncScopes(c)
      BY <3>3 DEF LookUp, Search, ProvisionOidcUser, SyncScopes, UseAccount, Steps
    <3>4. CASE ServeKeys(c) \/ StoreKeys(c)
      BY <3>4 DEF ServeKeys, StoreKeys
    <3>5. CASE Logout(c)
      BY <3>5 DEF Logout
    <3>. QED BY <3>1, <3>2, <3>3, <3>4, <3>5
  <2>2. \A result, s, scopes : Ended(result, s, scopes).step = "idle"
    BY DEF Ended
  <2>3. \A step, purpose, token, attempt, asked, served :
          Request(step, purpose, token, attempt, asked, served).step = step
    BY DEF Request
  <2>. QED
    BY <2>1, <2>2, <2>3 DEF End, GoTo, AuthenticatedAs, Asking
<1>2. \A d \in Clients \ {c} : session'[d] = session[d]
  BY DEF ReadSession, WithoutToken, LocalToken, PasswordLogin, Logout, FindKey,
     ServeKeys, StoreKeys, ReadKeys, FetchFails, LookUp, Search, ProvisionOidcUser,
     SyncScopes, UseAccount, Shape
<1>. QED BY <1>1, <1>2 DEF Logout, Shape

\* It keeps the shapes.
LEMMA RequestShape ==
  ASSUME Shape, HasSession, NEW c \in Clients,
         \/ ReadSession(c) \/ WithoutToken(c) \/ LocalToken(c) \/ PasswordLogin(c)
         \/ Logout(c) \/ FindKey(c) \/ ServeKeys(c) \/ StoreKeys(c) \/ ReadKeys(c) \/ FetchFails(c)
         \/ LookUp(c) \/ Search(c) \/ ProvisionOidcUser(c) \/ SyncScopes(c)
  PROVE  Shape'
<1>1. /\ request' \in [Clients -> Requests] /\ \A d \in Clients : Sound(request'[d])
      /\ session' \in [Clients -> Subjects \cup {None}]
  <2>1. CASE ReadSession(c)
    <3>1. UNCHANGED session
      BY <2>1 DEF ReadSession
    <3>2. CASE Live(account[session[c]])
      <4>1. session[c] \in Subjects \cup {None}
        BY DEF Shape
      <4>2. CASE session[c] \in Subjects
        <5>1. account[session[c]].scopes \in SUBSET Roles
          BY <4>2 DEF Shape, Fields
        <5>. QED BY <2>1, <3>1, <3>2, <4>2, <5>1, Transitions DEF ReadSession, Shape
      <4>3. CASE session[c] = None
        BY <2>1, <4>3 DEF ReadSession, HasSession
      <4>. QED BY <4>1, <4>2, <4>3
    <3>3. CASE ~Live(account[session[c]])
      BY <2>1, <3>1, <3>3, Transitions DEF ReadSession, Shape, Steps, WithToken
    <3>. QED BY <3>2, <3>3
  <2>2. CASE WithoutToken(c) \/ FetchFails(c)
    BY <2>2, Transitions DEF WithoutToken, FetchFails, Results, Shape
  <2>3. CASE LocalToken(c)
    <3>1. Subject(c) \in Subjects /\ account[Subject(c)].scopes \in SUBSET Roles
      BY <2>3, TokenFacts DEF LocalToken, Shape, Fields
    <3>. QED BY <2>3, <3>1, Transitions DEF LocalToken, Results, Shape
  <2>4. CASE PasswordLogin(c) \/ Logout(c)
    <3>1. session' \in [Clients -> Subjects \cup {None}]
      BY <2>4 DEF PasswordLogin, Logout, ByUsername, Shape
    <3>2. UNCHANGED request \/ \E result \in {"anonymous", "opened"} : request' = End(c, result)
      BY <2>4 DEF PasswordLogin, Logout
    <3>. QED BY <3>1, <3>2, Transitions DEF Results, Shape
  <2>5. CASE FindKey(c)
    <3>1. request[c].token # {} /\ UNCHANGED session
      BY <2>5 DEF FindKey
    <3>2. \/ \E key : request' = Decoded(c, key)
          \/ \E attempt \in {1, 2} : request' = Asking(c, attempt)
      BY <2>5 DEF FindKey
    <3>. QED BY <3>1, <3>2, Transitions, DecodedShape DEF Shape
  <2>6. CASE ServeKeys(c)
    <3> DEFINE r == Request("served", request[c].purpose, request[c].token,
                            request[c].attempt, request[c].asked, Published)
    <3>1. /\ request[c].purpose \in {"none", "call", "login"}
          /\ request[c].token \in SUBSET Tokens /\ request[c].token # {}
          /\ request[c].attempt \in 0..2 /\ request[c].asked \in Nat
          /\ Published \in SUBSET Keys /\ "served" \in Steps
      BY <2>6 DEF ServeKeys, Shape, Requests, Sound, WithToken, Published, Steps
    <3>2. Sound(r)
      BY <3>1, UnderWay
    <3>. QED BY <2>6, <3>2, OneRequest DEF ServeKeys, Shape
  <2>7. CASE ReadKeys(c)
    <3>1. request[c].token # {} /\ UNCHANGED session
      BY <2>7 DEF ReadKeys, Shape, Sound, WithToken
    <3>2. \/ \E key : request' = Decoded(c, key)
          \/ request' = Asking(c, 2)
          \/ \E result \in {"failed", "noKey"} : request' = End(c, result)
      BY <2>7 DEF ReadKeys
    <3>. QED BY <3>1, <3>2, Transitions, DecodedShape DEF Shape, Results
  <2>8. CASE LookUp(c) \/ Search(c)
    <3>1. request[c].token # {}
      BY <2>8 DEF LookUp, Search, Shape, Sound, WithToken
    <3>2. account[Subject(c)] \in Fields
      BY <3>1, TokenFacts DEF Shape
    <3>3. \/ UseAccount(c, account[Subject(c)])
          \/ /\ UNCHANGED session
             /\ \/ \E step \in {"search", "insert"} : request' = GoTo(c, step)
                \/ request' = End(c, "failed")
      BY <2>8 DEF LookUp, Search
    <3>. QED BY <3>1, <3>2, <3>3, UseAccountShape, Transitions DEF Steps, Results, Shape
  <2>9. CASE ProvisionOidcUser(c)
    <3>1. request[c].token # {}
      BY <2>9 DEF ProvisionOidcUser, Shape, Sound, WithToken
    <3>2. NewAccount(Token(c).roles) \in Fields
      BY <3>1, TokenFacts DEF NewAccount, Fields
    <3>3. \/ UseAccount(c, NewAccount(Token(c).roles))
          \/ UNCHANGED session /\ request' = End(c, "failed")
      BY <2>9 DEF ProvisionOidcUser
    <3>. QED BY <3>1, <3>2, <3>3, UseAccountShape, Transitions DEF Results, Shape
  <2>10. CASE SyncScopes(c)
    <3>1. request[c].token # {}
      BY <2>10 DEF SyncScopes, Shape, Sound, WithToken
    <3>2. session' \in [Clients -> Subjects \cup {None}]
      BY <2>10, <3>1, TokenFacts DEF SyncScopes, Shape
    <3>3. \E result \in {"opened", "failed"} : request' = End(c, result)
      BY <2>10 DEF SyncScopes
    <3>. QED BY <3>2, <3>3, Transitions DEF Results
  <2>11. CASE StoreKeys(c)
    <3> DEFINE r == Request("stored", request[c].purpose, request[c].token,
                            request[c].attempt, request[c].asked, {})
    <3>1. /\ request[c].purpose \in {"none", "call", "login"}
          /\ request[c].token \in SUBSET Tokens /\ request[c].token # {}
          /\ request[c].attempt \in 0..2 /\ request[c].asked \in Nat
          /\ {} \in SUBSET Keys /\ "stored" \in Steps
      BY <2>11 DEF StoreKeys, Shape, Requests, Sound, WithToken, Steps
    <3>2. Sound(r)
      BY <3>1, UnderWay
    <3>. QED BY <2>11, <3>2, OneRequest DEF StoreKeys, Shape
  <2>. QED
    BY <2>1, <2>2, <2>3, <2>4, <2>5, <2>6, <2>7, <2>8, <2>9, <2>10, <2>11
<1>2. account' \in [Subjects -> Fields]
  <2>1. CASE ProvisionOidcUser(c)
    <3>1. request[c].token # {}
      BY <2>1 DEF ProvisionOidcUser, Shape, Sound, WithToken
    <3>2. NewAccount(Token(c).roles) \in Fields
      BY <3>1, TokenFacts DEF NewAccount, Fields
    <3>. QED BY <2>1, <3>2 DEF ProvisionOidcUser, Shape
  <2>2. CASE SyncScopes(c)
    <3>1. request[c].token # {}
      BY <2>2 DEF SyncScopes, Shape, Sound, WithToken
    <3>2. Token(c).roles \in SUBSET Roles
      BY <3>1, TokenFacts
    <3>3. \A a \in Fields : [a EXCEPT !.scopes = Token(c).roles] \in Fields
      BY <3>2 DEF Fields
    <3>4. UNCHANGED account \/ account' = [account EXCEPT ![Subject(c)].scopes = Token(c).roles]
      BY <2>2 DEF SyncScopes
    <3>. QED BY <3>3, <3>4 DEF Shape
  <2>3. CASE ~(ProvisionOidcUser(c) \/ SyncScopes(c))
    <3>1. UNCHANGED account
      BY <2>3 DEF ReadSession, WithoutToken, LocalToken, PasswordLogin, Logout,
         FindKey, ServeKeys, StoreKeys, ReadKeys, FetchFails, LookUp, Search
    <3>. QED BY <3>1 DEF Shape
  <2>. QED BY <2>1, <2>2, <2>3
<1>3. UNCHANGED <<time, publishedAt, withdrawnAt>>
  BY DEF ReadSession, WithoutToken, LocalToken, PasswordLogin, Logout, FindKey,
     ServeKeys, StoreKeys, ReadKeys, FetchFails, LookUp, Search, ProvisionOidcUser,
     SyncScopes, unchangedByRequests, keyVars
<1>4. jwks' \subseteq Keys /\ fetchedAt' \in Nat
  <2>1. CASE StoreKeys(c)
    <3>1. request[c].asked \in Nat /\ request[c].served \subseteq Keys
      BY DEF Shape, Requests
    <3>. QED BY <2>1, <3>1 DEF StoreKeys
  <2>2. CASE FindKey(c) \/ ReadKeys(c)
    BY <2>2 DEF FindKey, ReadKeys, Shape
  <2>3. CASE ~(StoreKeys(c) \/ FindKey(c) \/ ReadKeys(c))
    <3>1. UNCHANGED <<jwks, fetchedAt>>
      BY <2>3 DEF ReadSession, WithoutToken, LocalToken, PasswordLogin, Logout,
         ServeKeys, FetchFails, LookUp, Search, ProvisionOidcUser, SyncScopes,
         cacheVars
    <3>. QED BY <3>1 DEF Shape
  <2>. QED BY <2>1, <2>2, <2>3
<1>. QED BY <1>1, <1>2, <1>3, <1>4 DEF Shape

ShapeInv == Shape /\ HasSession

LEMMA ShapeInductive ==
  ASSUME ShapeInv, [Next]_vars
  PROVE  ShapeInv'
<1>1. CASE CreateUser \/ UpdateUser \/ DeleteUser
  <2>1. UNCHANGED <<session, request>>
    BY <1>1 DEF CreateUser, UpdateUser, DeleteUser, unchangedByEdits
  <2>. QED BY <1>1, <2>1, EditShape DEF ShapeInv, HasSession
<1>2. CASE PublishKey \/ WithdrawKey \/ Tick
  BY <1>2, ProviderShape DEF ShapeInv, HasSession
<1>3. ASSUME NEW c \in Clients, Call(c) \/ Callback(c) PROVE ShapeInv'
  <2>1. request'[c].step = "session" => session[c] # None
    <3>1. ASSUME NEW token, request' = [request EXCEPT ![c] =
              Request(IF session[c] # None THEN "session" ELSE "token", "call", token, 0, 0, {})]
          PROVE  request'[c].step = "session" => session[c] # None
      BY <3>1 DEF Request, ShapeInv, Shape
    <3>2. ASSUME NEW token, request' = [request EXCEPT ![c] =
              Request("token", "login", token, 0, 0, {})]
          PROVE  request'[c].step # "session"
      BY <3>2 DEF Request, ShapeInv, Shape
    <3>. QED BY <1>3, <3>1, <3>2 DEF Call, Callback
  <2>. QED BY <1>3, <2>1, CallShape DEF ShapeInv, Shape, HasSession
<1>4. ASSUME NEW c \in Clients,
             \/ ReadSession(c) \/ WithoutToken(c) \/ LocalToken(c) \/ PasswordLogin(c)
             \/ Logout(c) \/ FindKey(c) \/ ServeKeys(c) \/ StoreKeys(c) \/ ReadKeys(c) \/ FetchFails(c)
             \/ LookUp(c) \/ Search(c) \/ ProvisionOidcUser(c) \/ SyncScopes(c)
      PROVE  ShapeInv'
  BY <1>4, RequestShape, OneClient DEF ShapeInv, HasSession
<1>5. CASE UNCHANGED vars
  BY <1>5 DEF vars, keyVars, cacheVars, ShapeInv, Shape, HasSession
<1>. QED BY <1>1, <1>2, <1>3, <1>4, <1>5 DEF Next

LEMMA ShapeHolds == Spec => []ShapeInv
<1>1. Init => ShapeInv
  <2> SUFFICES ASSUME Init PROVE ShapeInv
    OBVIOUS
  <2>1. Sound(NoRequest) /\ NoRequest.step = "idle"
    <3>1. None \in Subjects \cup {None} /\ {} \in SUBSET Roles /\ "none" \in Results
      BY DEF Results
    <3>. QED BY <3>1, AtAnEnd DEF NoRequest, Ended
  <2>2. NoAccount \in Fields
    BY DEF NoAccount, Fields
  <2>3. request \in [Clients -> Requests] /\ \A c \in Clients : Sound(request[c])
    BY <2>1 DEF Init, Sound
  <2>. QED
    BY <2>1, <2>2, <2>3 DEF Init, ShapeInv, Shape, HasSession
<1>2. ShapeInv /\ [Next]_vars => ShapeInv'
  BY ShapeInductive
<1>. QED BY <1>1, <1>2, PTL DEF Spec

-----------------------------------------------------------------------------
(***************************************************************************)
(* Acting for an account.                                                  *)
(***************************************************************************)

Acts(c) ==
  LET r == request'[c]
      bearer == \E t \in request[c].token : t.sub = r.identity
  IN r.result = "user" =>
       LET a == account'[r.identity] IN
       /\ a.stored /\ a.active
       /\ r.identity = session[c] \/ bearer
       /\ \/ r.scopes = a.scopes
          \/ \E t \in request[c].token : t.sub = r.identity /\ r.scopes = t.roles

\* Only AuthenticatedAs says that a request acts for a user.
LEMMA OtherAnswers ==
  ASSUME Shape, NEW c \in Clients,
         \/ \E result \in Results \ {"user"} : request' = End(c, result)
         \/ \E step : request' = GoTo(c, step)
         \/ \E attempt : request' = Asking(c, attempt)
         \/ \E step, purpose, token, attempt, asked, served :
              request' = [request EXCEPT ![c] =
                Request(step, purpose, token, attempt, asked, served)]
  PROVE  request'[c].result # "user"
<1>1. \A result, s, scopes : Ended(result, s, scopes).result = result
  BY DEF Ended
<1>2. \A step, purpose, token, attempt, asked, served :
        Request(step, purpose, token, attempt, asked, served).result = "none"
  BY DEF Request
<1>. QED BY <1>1, <1>2 DEF Shape, End, GoTo, Asking

\* It does so with the account of its token as that is stored at this step.
LEMMA ActsWithAccount ==
  ASSUME Shape, NEW c \in Clients, NEW a, request[c].token # {},
         UseAccount(c, a), account'[Subject(c)] = a
  PROVE  Acts(c)
<1>1. CASE \E scopes \in {Token(c).roles, a.scopes} :
             Live(a) /\ request' = AuthenticatedAs(c, Subject(c), scopes)
  <2>1. PICK scopes \in {Token(c).roles, a.scopes} :
          Live(a) /\ request' = AuthenticatedAs(c, Subject(c), scopes)
    BY <1>1
  <2>2. request'[c].identity = Subject(c) /\ request'[c].scopes = scopes
    BY <2>1 DEF AuthenticatedAs, Ended, Shape
  <2>3. Token(c) \in request[c].token /\ Token(c).sub = Subject(c)
    BY TokenFacts DEF Subject
  <2>. QED BY <2>1, <2>2, <2>3 DEF Acts, Live
<1>2. CASE \/ \E result \in Results \ {"user"} : request' = End(c, result)
           \/ request' = GoTo(c, "sync")
  BY <1>2, OtherAnswers DEF Acts
<1>. QED BY <1>1, <1>2 DEF UseAccount, Results

LEMMA StepsAct ==
  ASSUME ShapeInv, NEW c \in Clients,
         \/ ReadSession(c) \/ WithoutToken(c) \/ LocalToken(c)
         \/ FindKey(c) \/ ServeKeys(c) \/ StoreKeys(c) \/ ReadKeys(c) \/ FetchFails(c)
         \/ LookUp(c) \/ Search(c) \/ ProvisionOidcUser(c) \/ SyncScopes(c)
  PROVE  Acts(c)
<1>. USE DEF ShapeInv
<1>1. CASE ReadSession(c)
  <2> DEFINE s == session[c]
  <2>1. CASE Live(account[s])
    <3>1. request' = AuthenticatedAs(c, s, account[s].scopes) /\ account' = account
      BY <1>1, <2>1 DEF ReadSession
    <3>2. request'[c].identity = s /\ request'[c].scopes = account[s].scopes
      BY <3>1 DEF AuthenticatedAs, Ended, Shape
    <3>. QED BY <2>1, <3>1, <3>2 DEF Acts, Live
  <2>2. CASE ~Live(account[s])
    BY <1>1, <2>2, OtherAnswers DEF ReadSession, Acts
  <2>. QED BY <2>1, <2>2
<1>2. CASE LocalToken(c)
  <2> DEFINE s == Subject(c)
  <2>1. CASE ~Expired(c) /\ Live(account[s])
    <3>1. request' = AuthenticatedAs(c, s, account[s].scopes) /\ account' = account
      BY <1>2, <2>1 DEF LocalToken
    <3>2. request'[c].identity = s /\ request'[c].scopes = account[s].scopes
      BY <3>1 DEF AuthenticatedAs, Ended, Shape
    <3>3. Token(c) \in request[c].token /\ Token(c).sub = s
      BY <1>2, TokenFacts DEF LocalToken, Subject
    <3>. QED BY <2>1, <3>1, <3>2, <3>3 DEF Acts, Live
  <2>2. CASE Expired(c) \/ ~Live(account[s])
    <3>1. \E result \in Results \ {"user"} : request' = End(c, result)
      BY <1>2, <2>2 DEF LocalToken, Results
    <3>. QED BY <3>1, OtherAnswers DEF Acts
  <2>. QED BY <2>1, <2>2
<1>3. CASE WithoutToken(c) \/ FetchFails(c) \/ SyncScopes(c)
  <2>1. \E result \in Results \ {"user"} : request' = End(c, result)
    BY <1>3 DEF WithoutToken, FetchFails, SyncScopes, Results
  <2>. QED BY <2>1, OtherAnswers DEF Acts
<1>4. CASE FindKey(c) \/ ServeKeys(c) \/ StoreKeys(c) \/ ReadKeys(c)
  <2>1. \/ \E result \in Results \ {"user"} : request' = End(c, result)
        \/ \E step : request' = GoTo(c, step)
        \/ \E attempt : request' = Asking(c, attempt)
        \/ \E step, purpose, token, attempt, asked, served :
             request' = [request EXCEPT ![c] =
               Request(step, purpose, token, attempt, asked, served)]
    <3>1. \A key : request' = Decoded(c, key) =>
            \/ \E result \in {"noKey", "expired"} : request' = End(c, result)
            \/ \E step : request' = GoTo(c, step)
      BY DEF Decoded
    <3>2. {"expired", "failed", "noKey"} \subseteq Results \ {"user"}
      BY DEF Results
    <3>3. FindKey(c) => \/ \E key : request' = Decoded(c, key)
                        \/ \E attempt : request' = Asking(c, attempt)
      BY DEF FindKey
    <3>4. ReadKeys(c) => \/ \E key : request' = Decoded(c, key)
                         \/ request' = Asking(c, 2)
                         \/ \E result \in {"failed", "noKey"} : request' = End(c, result)
      BY DEF ReadKeys
    <3>5. CASE ServeKeys(c) \/ StoreKeys(c)
      BY <3>5 DEF ServeKeys, StoreKeys
    <3>6. CASE FindKey(c) \/ ReadKeys(c)
      BY <3>1, <3>2, <3>3, <3>4, <3>6
    <3>. QED BY <1>4, <3>5, <3>6
  <2>. QED BY <2>1, OtherAnswers DEF Acts
<1>5. CASE LookUp(c) \/ Search(c)
  <2>1. request[c].token # {} /\ account' = account
    BY <1>5 DEF LookUp, Search, Shape, Sound, WithToken
  <2>2. \/ UseAccount(c, account[Subject(c)])
        \/ \E step : request' = GoTo(c, step)
        \/ request' = End(c, "failed")
    BY <1>5 DEF LookUp, Search
  <2>. QED BY <2>1, <2>2, ActsWithAccount, OtherAnswers DEF Acts, Results
<1>6. CASE ProvisionOidcUser(c)
  <2> DEFINE new == NewAccount(Token(c).roles)
  <2>1. request[c].token # {}
    BY <1>6 DEF ProvisionOidcUser, Shape, Sound, WithToken
  <2>2. CASE Taken(Subject(c))
    BY <1>6, <2>2, OtherAnswers DEF ProvisionOidcUser, Acts, Results
  <2>3. CASE ~Taken(Subject(c))
    <3>1. UseAccount(c, new) /\ account' = [account EXCEPT ![Subject(c)] = new]
      BY <1>6, <2>3 DEF ProvisionOidcUser
    <3>2. account'[Subject(c)] = new
      BY <2>1, <3>1, TokenFacts DEF Shape
    <3>. QED BY <2>1, <3>1, <3>2, ActsWithAccount
  <2>. QED BY <2>2, <2>3
<1>. QED BY <1>1, <1>2, <1>3, <1>4, <1>5, <1>6

\* A request under way acts only at a step of its own.
LEMMA OthersDoNotAct ==
  ASSUME ShapeInv, NEW c \in Clients, request'[c] = request[c], request[c].step # "idle"
  PROVE  request'[c].result # "user"
BY DEF ShapeInv, Shape, Sound

\* A request acts for a user only if, at that very step, an account of the user
\* is stored and active, and with that account's scopes or those of a token of
\* the user (get_user_from_request in authn/backend.py and both backends),
\* however the requests, the provisioning and the administrator interleave.
THEOREM AccountActedFor == Spec => ActsForItsAccount
<1> DEFINE Body ==
      \A c \in Clients :
        LET r == request'[c]
            bearer == \E t \in request[c].token : t.sub = r.identity
        IN request[c].step # "idle" /\ r.result = "user" =>
             LET a == account'[r.identity] IN
             /\ a.stored /\ a.active
             /\ r.identity = session[c] \/ bearer
             /\ \/ r.scopes = a.scopes
                \/ \E t \in request[c].token : t.sub = r.identity /\ r.scopes = t.roles
<1>1. ShapeInv /\ [Next]_vars => [Body]_vars
  <2> SUFFICES ASSUME ShapeInv, Next, NEW c \in Clients, request[c].step # "idle"
               PROVE  Acts(c)
    BY DEF Acts
  <2>1. CASE CreateUser \/ UpdateUser \/ DeleteUser
    BY <2>1, OthersDoNotAct DEF CreateUser, UpdateUser, DeleteUser, unchangedByEdits, Acts
  <2>2. CASE PublishKey \/ WithdrawKey \/ Tick
    BY <2>2, OthersDoNotAct DEF PublishKey, WithdrawKey, Tick, unchangedByProvider, Acts
  <2>3. ASSUME NEW d \in Clients, Call(d) \/ Callback(d) PROVE Acts(c)
    <3>1. c # d
      BY <2>3 DEF Call, Callback
    <3>. QED BY <2>3, <3>1, CallShape, OthersDoNotAct DEF ShapeInv, Acts
  <2>4. ASSUME NEW d \in Clients, PasswordLogin(d) \/ Logout(d) PROVE Acts(c)
    <3>1. c # d
      BY <2>4 DEF PasswordLogin, Logout
    <3>. QED BY <2>4, <3>1, OneClient, OthersDoNotAct DEF ShapeInv, Acts
  <2>5. ASSUME NEW d \in Clients,
               \/ ReadSession(d) \/ WithoutToken(d) \/ LocalToken(d)
               \/ FindKey(d) \/ ServeKeys(d) \/ StoreKeys(d) \/ ReadKeys(d) \/ FetchFails(d)
               \/ LookUp(d) \/ Search(d) \/ ProvisionOidcUser(d) \/ SyncScopes(d)
        PROVE  Acts(c)
    <3>1. CASE c = d
      BY <2>5, <3>1, StepsAct
    <3>2. CASE c # d
      BY <2>5, <3>2, OneClient, OthersDoNotAct DEF ShapeInv, Acts
    <3>. QED BY <3>1, <3>2
  <2>. QED BY <2>1, <2>2, <2>3, <2>4, <2>5 DEF Next
<1>2. Spec => [][Body]_vars
  BY <1>1, ShapeHolds, PTL DEF Spec
<1>. QED BY <1>2 DEF ActsForItsAccount

-----------------------------------------------------------------------------
(***************************************************************************)
(* Signing keys.  What is known of an answer holds at the moment it was    *)
(* asked for, whatever was published or withdrawn since; the cache is      *)
(* dated so too.  A fetch that was stored may read another's answer, which *)
(* was asked for no longer before it than a fetch may take.                *)
(***************************************************************************)

Waiting(c) == request[c].step \in Fetching

Clocked ==
  /\ fetchedAt <= time
  /\ \A k \in Keys : withdrawnAt[k] <= time
  /\ \A c \in Clients : Waiting(c) =>
       request[c].asked <= time /\ time <= request[c].asked + FetchLimit

Bearers ==
  \A c \in Clients : \A t, u \in request[c].token : t = u /\ publishedAt[t.kid] # Never

\* The keys were those of the provider at some moment from at on.
Dated(keys, at) ==
  /\ \A k \in keys : Withdrawn(k) => at <= withdrawnAt[k]
  /\ \A k \in Keys \ keys : publishedAt[k] # Never /\ ~Withdrawn(k) => at <= publishedAt[k]

CacheDated == jwks # {} => Dated(jwks, fetchedAt)

Answers ==
  \A c \in Clients : request[c].step = "served" => Dated(request[c].served, request[c].asked)

\* The cache of a fetch that was stored is its own, or of one under way since.
Readable ==
  \A c \in Clients :
    request[c].step = "stored" /\ jwks # {} => request[c].asked <= fetchedAt + FetchLimit

KeyInv == Clocked /\ Bearers /\ CacheDated /\ Answers /\ Readable

\* A rotation publishes or withdraws a key now, and none comes back.
LEMMA ProviderKeys ==
  ASSUME ShapeInv, KeyInv, PublishKey \/ WithdrawKey \/ Tick
  PROVE  KeyInv'
<1>. USE DEF ShapeInv
<1>1. UNCHANGED <<jwks, fetchedAt, request>> /\ time' >= time /\ Shape'
  BY ProviderShape
<1>2. \A k \in Keys : \/ withdrawnAt'[k] = withdrawnAt[k]
                      \/ withdrawnAt'[k] = time /\ WithdrawKey
  BY DEF PublishKey, WithdrawKey, Tick, keyVars, Shape
<1>3. \A k \in Keys : \/ publishedAt'[k] = publishedAt[k]
                      \/ publishedAt[k] = Never /\ publishedAt'[k] = time
  BY DEF PublishKey, WithdrawKey, Tick, keyVars, Shape
<1>4. \A k \in Keys : Withdrawn(k) => Withdrawn(k)'
  BY <1>2 DEF Withdrawn, Shape, Never
<1>5. \A c \in Clients : /\ request[c].served \subseteq Keys /\ request[c].asked \in Nat
                         /\ \A t \in request[c].token : t.kid \in Keys
  BY DEF Shape, Requests, Tokens
<1>6. Clocked'
  <2>1. \A c \in Clients : Waiting(c) => time' <= request[c].asked + FetchLimit
    <3>1. CASE Tick
      BY <1>5, <3>1, TimesAssumption DEF Tick, Waiting, Shape
    <3>2. CASE PublishKey \/ WithdrawKey
      BY <3>2 DEF PublishKey, WithdrawKey, KeyInv, Clocked
    <3>. QED BY <3>1, <3>2
  <2>2. \A k \in Keys : withdrawnAt'[k] <= time'
    BY <1>1, <1>2 DEF KeyInv, Clocked, Shape, Never
  <2>3. \A c \in Clients : Waiting(c) => request[c].asked <= time'
    BY <1>1, <1>5 DEF KeyInv, Clocked, Shape
  <2>4. fetchedAt' <= time'
    BY <1>1 DEF KeyInv, Clocked, Shape
  <2>. QED BY <1>1, <2>1, <2>2, <2>3, <2>4 DEF Clocked, Waiting
<1>7. Bearers'
  BY <1>1, <1>3, <1>5 DEF KeyInv, Bearers, Shape, Never
<1>8. ASSUME NEW keys \in SUBSET Keys, NEW at \in Nat, at <= time, Dated(keys, at)
      PROVE  Dated(keys, at)'
  <2>1. ASSUME NEW k \in keys, withdrawnAt'[k] # Never PROVE at <= withdrawnAt'[k]
    BY <1>2, <1>8, <2>1 DEF Dated, Withdrawn
  <2>2. ASSUME NEW k \in Keys \ keys, publishedAt'[k] # Never, ~Withdrawn(k)'
        PROVE  at <= publishedAt'[k]
    BY <1>3, <1>4, <1>8, <2>2 DEF Dated
  <2>. QED BY <2>1, <2>2 DEF Dated, Withdrawn
<1>9. CacheDated'
  <2>1. jwks \in SUBSET Keys /\ fetchedAt \in Nat /\ fetchedAt <= time
    BY DEF Shape, KeyInv, Clocked
  <2>2. CASE jwks = {}
    BY <1>1, <2>2 DEF CacheDated
  <2>3. CASE jwks # {}
    <3>1. Dated(jwks, fetchedAt)
      BY <2>3 DEF KeyInv, CacheDated
    <3>2. \A k \in jwks : Withdrawn(k)' => fetchedAt <= withdrawnAt'[k]
      BY <1>8, <2>1, <3>1 DEF Dated
    <3>3. \A k \in Keys \ jwks :
            publishedAt'[k] # Never /\ ~Withdrawn(k)' => fetchedAt <= publishedAt'[k]
      BY <1>8, <2>1, <3>1 DEF Dated
    <3>. QED BY <1>1, <3>2, <3>3 DEF CacheDated, Dated
  <2>. QED BY <2>2, <2>3
<1>10. Answers'
  <2> SUFFICES ASSUME NEW c \in Clients, request[c].step = "served"
               PROVE  Dated(request[c].served, request[c].asked)'
    BY <1>1 DEF Answers
  <2> DEFINE keys == request[c].served
             at == request[c].asked
  <2>1. Dated(keys, at) /\ at <= time /\ keys \in SUBSET Keys /\ at \in Nat
    BY <1>5 DEF KeyInv, Answers, Clocked, Waiting, Fetching
  <2>2. \A k \in keys : Withdrawn(k)' => at <= withdrawnAt'[k]
    BY <1>8, <2>1 DEF Dated
  <2>3. \A k \in Keys \ keys :
          publishedAt'[k] # Never /\ ~Withdrawn(k)' => at <= publishedAt'[k]
    BY <1>8, <2>1 DEF Dated
  <2>. QED BY <1>1, <2>2, <2>3 DEF Dated
<1>11. Readable'
  BY <1>1 DEF KeyInv, Readable
<1>. QED BY <1>6, <1>7, <1>9, <1>10, <1>11 DEF KeyInv

\* What a step leaves of the token and of a request for keys.
LEMMA StepKeys ==
  ASSUME ShapeInv, NEW c \in Clients,
         \/ ReadSession(c) \/ WithoutToken(c) \/ LocalToken(c) \/ PasswordLogin(c)
         \/ Logout(c) \/ FindKey(c) \/ ServeKeys(c) \/ StoreKeys(c) \/ ReadKeys(c) \/ FetchFails(c)
         \/ LookUp(c) \/ Search(c) \/ ProvisionOidcUser(c) \/ SyncScopes(c)
  PROVE  /\ request'[c].token \subseteq request[c].token
         /\ \/ Logout(c) /\ UNCHANGED request
            \/ ~Waiting(c)'
            \/ request'[c].step = "asking" /\ request'[c].asked = time
            \/ /\ ServeKeys(c) /\ request[c].step = "asking" /\ request'[c].step = "served"
               /\ request'[c].asked = request[c].asked /\ request'[c].served = Published
            \/ /\ StoreKeys(c) /\ request[c].step = "served" /\ request'[c].step = "stored"
               /\ request'[c].asked = request[c].asked
<1>1. \/ Logout(c) /\ UNCHANGED request
      \/ \E result : request' = End(c, result)
      \/ \E step \in Steps \ Fetching : request' = GoTo(c, step)
      \/ \E s, scopes : request' = AuthenticatedAs(c, s, scopes)
      \/ \E attempt : request' = Asking(c, attempt)
      \/ ServeKeys(c)
      \/ StoreKeys(c)
  <2>1. CASE \/ ReadSession(c) \/ WithoutToken(c) \/ LocalToken(c)
             \/ PasswordLogin(c) \/ FetchFails(c)
    BY <2>1 DEF ReadSession, WithoutToken, LocalToken, PasswordLogin, FetchFails, Steps,
       Fetching
  <2>2. CASE FindKey(c) \/ ReadKeys(c)
    BY <2>2 DEF FindKey, ReadKeys, Decoded, Steps, Fetching
  <2>3. CASE LookUp(c) \/ Search(c) \/ ProvisionOidcUser(c) \/ SyncScopes(c)
    BY <2>3 DEF LookUp, Search, ProvisionOidcUser, SyncScopes, UseAccount, Steps, Fetching
  <2>4. CASE Logout(c)
    BY <2>4 DEF Logout
  <2>. QED BY <2>1, <2>2, <2>3, <2>4
<1>2. \A result, s, scopes : /\ Ended(result, s, scopes).step = "idle"
                             /\ Ended(result, s, scopes).token = {}
  BY DEF Ended
<1>3. \A step, purpose, token, attempt, asked, served :
        LET r == Request(step, purpose, token, attempt, asked, served)
        IN r.step = step /\ r.token = token /\ r.asked = asked /\ r.served = served
  BY DEF Request
<1>4. CASE Logout(c) /\ UNCHANGED request
  BY <1>4
<1>5. CASE \/ \E result : request' = End(c, result)
           \/ \E s, scopes : request' = AuthenticatedAs(c, s, scopes)
  BY <1>2, <1>5 DEF End, AuthenticatedAs, ShapeInv, Shape, Waiting, Fetching
<1>6. CASE \E step \in Steps \ Fetching : request' = GoTo(c, step)
  BY <1>3, <1>6 DEF GoTo, ShapeInv, Shape, Waiting
<1>7. CASE \E attempt : request' = Asking(c, attempt)
  BY <1>3, <1>7 DEF Asking, ShapeInv, Shape
<1>8. CASE ServeKeys(c)
  BY <1>3, <1>8 DEF ServeKeys, ShapeInv, Shape
<1>9. CASE StoreKeys(c)
  BY <1>3, <1>9 DEF StoreKeys, ShapeInv, Shape
<1>. QED BY <1>1, <1>4, <1>5, <1>6, <1>7, <1>8, <1>9

\* What a step leaves of the cache.
LEMMA StepCache ==
  ASSUME ShapeInv, NEW c \in Clients,
         \/ ReadSession(c) \/ WithoutToken(c) \/ LocalToken(c) \/ PasswordLogin(c)
         \/ Logout(c) \/ FindKey(c) \/ ServeKeys(c) \/ StoreKeys(c) \/ ReadKeys(c) \/ FetchFails(c)
         \/ LookUp(c) \/ Search(c) \/ ProvisionOidcUser(c) \/ SyncScopes(c)
  PROVE  /\ UNCHANGED <<time, publishedAt, withdrawnAt>>
         /\ \/ UNCHANGED <<jwks, fetchedAt>>
            \/ jwks' = {} /\ UNCHANGED fetchedAt
            \/ /\ request[c].step = "served"
               /\ jwks' = request[c].served /\ fetchedAt' = request[c].asked
<1>1. UNCHANGED <<time, publishedAt, withdrawnAt>>
  BY DEF ReadSession, WithoutToken, LocalToken, PasswordLogin, Logout, FindKey,
     ServeKeys, StoreKeys, ReadKeys, FetchFails, LookUp, Search, ProvisionOidcUser,
     SyncScopes, unchangedByRequests, keyVars
<1>2. CASE FindKey(c) \/ ReadKeys(c) \/ StoreKeys(c)
  BY <1>1, <1>2 DEF FindKey, ReadKeys, StoreKeys
<1>3. CASE ~(FindKey(c) \/ ReadKeys(c) \/ StoreKeys(c))
  <2>1. UNCHANGED <<jwks, fetchedAt>>
    BY <1>3 DEF ReadSession, WithoutToken, LocalToken, PasswordLogin, Logout,
       ServeKeys, FetchFails, LookUp, Search, ProvisionOidcUser, SyncScopes, cacheVars
  <2>. QED BY <1>1, <2>1
<1>. QED BY <1>2, <1>3

LEMMA KeyInductive ==
  ASSUME ShapeInv, KeyInv, [Next]_vars
  PROVE  KeyInv'
<1>. USE DEF ShapeInv
<1>1. CASE CreateUser \/ UpdateUser \/ DeleteUser
  <2>1. UNCHANGED <<time, publishedAt, withdrawnAt, jwks, fetchedAt, request>>
    BY <1>1 DEF CreateUser, UpdateUser, DeleteUser, unchangedByEdits, keyVars, cacheVars
  <2>. QED BY <2>1 DEF KeyInv, Clocked, Bearers, CacheDated, Dated, Answers, Readable,
              Waiting, Withdrawn
<1>2. CASE PublishKey \/ WithdrawKey \/ Tick
  BY <1>2, ProviderKeys
<1>3. ASSUME NEW c \in Clients, Call(c) \/ Callback(c) PROVE KeyInv'
  <2>1. /\ UNCHANGED <<time, publishedAt, withdrawnAt, jwks, fetchedAt>>
        /\ request'[c].step \notin Fetching
        /\ \A t, u \in request'[c].token : t \in Issued /\ t = u
        /\ \A d \in Clients \ {c} : request'[d] = request[d]
    BY <1>3, CallShape DEF Fetching
  <2>2. \A t, u \in request'[c].token : t = u /\ publishedAt'[t.kid] # Never
    BY <2>1, IssuedTokens
  <2>3. Clocked'
    BY <2>1 DEF KeyInv, Clocked, Waiting
  <2>4. Bearers'
    BY <2>1, <2>2 DEF KeyInv, Bearers
  <2>5. CacheDated' /\ Answers' /\ Readable'
    BY <2>1 DEF KeyInv, CacheDated, Answers, Readable, Dated, Withdrawn, Fetching
  <2>. QED BY <2>3, <2>4, <2>5 DEF KeyInv
<1>4. ASSUME NEW c \in Clients,
             \/ ReadSession(c) \/ WithoutToken(c) \/ LocalToken(c) \/ PasswordLogin(c)
             \/ Logout(c) \/ FindKey(c) \/ ServeKeys(c) \/ StoreKeys(c) \/ ReadKeys(c) \/ FetchFails(c)
             \/ LookUp(c) \/ Search(c) \/ ProvisionOidcUser(c) \/ SyncScopes(c)
      PROVE  KeyInv'
  <2>1. /\ UNCHANGED <<time, publishedAt, withdrawnAt>>
        /\ \/ UNCHANGED <<jwks, fetchedAt>>
           \/ jwks' = {} /\ UNCHANGED fetchedAt
           \/ /\ request[c].step = "served"
              /\ jwks' = request[c].served /\ fetchedAt' = request[c].asked
    BY <1>4, StepCache
  <2>2. \A d \in Clients \ {c} : request'[d] = request[d]
    BY <1>4, OneClient
  <2> DEFINE R == request'[c]
  <2>3. /\ R.token \subseteq request[c].token
        /\ \/ UNCHANGED request
           \/ R.step \notin Fetching
           \/ R.step = "asking" /\ R.asked = time
           \/ /\ request[c].step = "asking" /\ R.step = "served"
              /\ R.asked = request[c].asked /\ R.served = Published
           \/ /\ StoreKeys(c) /\ request[c].step = "served" /\ R.step = "stored"
              /\ R.asked = request[c].asked
    BY <1>4, StepKeys DEF Waiting
  <2>4. Clocked'
    <3>1. R.step \in Fetching => R.asked <= time /\ time <= R.asked + FetchLimit
      BY <2>3, TimesAssumption DEF KeyInv, Clocked, Waiting, Fetching, Shape
    <3>2. \A d \in Clients : Waiting(d)' =>
            request'[d].asked <= time' /\ time' <= request'[d].asked + FetchLimit
      BY <2>1, <2>2, <3>1 DEF KeyInv, Clocked, Waiting
    <3>3. fetchedAt' <= time'
      BY <2>1 DEF KeyInv, Clocked, Waiting, Fetching
    <3>. QED BY <2>1, <3>2, <3>3 DEF KeyInv, Clocked
  <2>5. Bearers'
    BY <2>1, <2>2, <2>3 DEF KeyInv, Bearers
  <2>6. CacheDated'
    BY <2>1 DEF KeyInv, CacheDated, Dated, Answers, Withdrawn
  <2>7. Answers'
    <3>1. R.step = "served" => Dated(R.served, R.asked)
      <4>1. CASE UNCHANGED request
        BY <4>1 DEF KeyInv, Answers
      <4>2. CASE R.served = Published
        BY <4>2 DEF Dated, Published, Withdrawn
      <4>. QED BY <2>3, <4>1, <4>2 DEF Fetching
    <3>. QED BY <2>1, <2>2, <3>1 DEF KeyInv, Answers, Dated, Withdrawn
  <2>8. Readable'
    <3> SUFFICES ASSUME NEW d \in Clients, request'[d].step = "stored", jwks' # {}
                 PROVE  request'[d].asked <= fetchedAt' + FetchLimit
      BY DEF Readable
    <3>0. /\ request[d].asked \in Nat /\ request[c].asked \in Nat /\ time \in Nat
          /\ fetchedAt \in Nat /\ FetchLimit \in Nat
      BY TimesAssumption DEF Shape, Requests
    <3>1. \/ request'[d] = request[d]
          \/ StoreKeys(c) /\ d = c /\ request'[d].asked = request[c].asked
      BY <2>2, <2>3 DEF Fetching
    <3>2. CASE StoreKeys(c)
      <4>1. fetchedAt' = request[c].asked /\ request[c].step = "served"
        BY <3>2 DEF StoreKeys
      <4>2. time <= request[c].asked + FetchLimit
        BY <4>1 DEF KeyInv, Clocked, Waiting, Fetching
      <4>3. CASE request'[d] = request[d]
        <5>1. request[d].asked <= time
          BY <4>3 DEF KeyInv, Clocked, Waiting, Fetching
        <5>. QED BY <3>0, <4>1, <4>2, <4>3, <5>1
      <4>4. CASE request'[d].asked = request[c].asked
        BY <3>0, <4>1, <4>4
      <4>. QED BY <3>1, <4>3, <4>4
    <3>3. CASE ~StoreKeys(c) /\ UNCHANGED <<jwks, fetchedAt>>
      BY <3>1, <3>3 DEF KeyInv, Readable
    <3>4. CASE request[c].step = "served" /\ ~StoreKeys(c) /\ fetchedAt' = request[c].asked
      <4>1. request'[d] = request[d] /\ request[d].asked <= time
        BY <3>1, <3>4 DEF KeyInv, Clocked, Waiting, Fetching
      <4>2. time <= request[c].asked + FetchLimit
        BY <3>4 DEF KeyInv, Clocked, Waiting, Fetching
      <4>. QED BY <3>0, <3>4, <4>1, <4>2
    <3>. QED BY <2>1, <3>2, <3>3, <3>4
  <2>. QED BY <2>4, <2>5, <2>6, <2>7, <2>8 DEF KeyInv
<1>5. CASE UNCHANGED vars
  BY <1>5 DEF vars, keyVars, cacheVars, KeyInv, Clocked, Bearers, CacheDated, Dated,
     Answers, Readable, Waiting, Withdrawn
<1>. QED BY <1>1, <1>2, <1>3, <1>4, <1>5 DEF Next

Follows(c, t) ==
  /\ Honours(c) /\ Withdrawn(t.kid) => time - withdrawnAt[t.kid] <= Ttl
  /\ TurnsDown(c) => \/ Withdrawn(t.kid)
                     \/ time - publishedAt[t.kid] <= 2 * FetchLimit

\* A request that does not move honours nothing and is turned down for nothing.
LEMMA OthersFollow ==
  ASSUME ShapeInv, NEW c \in Clients, request'[c] = request[c], NEW t
  PROVE  Follows(c, t)
BY DEF Follows, Honours, TurnsDown, ShapeInv, Shape, Sound

LEMMA StepsFollow ==
  ASSUME ShapeInv, KeyInv, NEW c \in Clients, NEW t \in request[c].token,
         \/ ReadSession(c) \/ WithoutToken(c) \/ LocalToken(c) \/ PasswordLogin(c)
         \/ Logout(c) \/ FindKey(c) \/ ServeKeys(c) \/ StoreKeys(c) \/ ReadKeys(c) \/ FetchFails(c)
         \/ LookUp(c) \/ Search(c) \/ ProvisionOidcUser(c) \/ SyncScopes(c)
  PROVE  Follows(c, t)
<1>. USE DEF ShapeInv
<1>1. Token(c) = t /\ t.kid \in Keys /\ publishedAt[t.kid] # Never
  BY TokenFacts DEF KeyInv, Bearers
<1>2. /\ withdrawnAt[t.kid] \in Nat \cup {Never} /\ time \in Nat /\ fetchedAt \in Nat
      /\ publishedAt[t.kid] \in Nat /\ request[c].asked \in Nat
  BY <1>1 DEF Shape, Requests
<1>3. \A result, s, scopes : /\ Ended(result, s, scopes).step = "idle"
                             /\ Ended(result, s, scopes).result = result
  BY DEF Ended
<1>4. \A step, purpose, token, attempt, asked, served :
        LET r == Request(step, purpose, token, attempt, asked, served)
        IN r.step = step /\ r.result = "none"
  BY DEF Request
<1>5. CASE FindKey(c)
  <2>1. request[c].step = "token"
    BY <1>5 DEF FindKey
  <2>2. CASE ~Stale /\ t.kid \in jwks
    <3>1. Withdrawn(t.kid) => fetchedAt <= withdrawnAt[t.kid]
      BY <2>2 DEF KeyInv, CacheDated, Dated
    <3>2. time - fetchedAt <= Ttl
      BY <1>2, <2>2, TimesAssumption DEF Stale
    <3>3. Withdrawn(t.kid) => time - withdrawnAt[t.kid] <= Ttl
      BY <1>2, <3>1, <3>2, TimesAssumption DEF Withdrawn
    <3>. QED BY <2>1, <3>3 DEF Follows, TurnsDown
  <2>3. CASE Stale \/ t.kid \notin jwks
    <3>1. \/ \E attempt : request' = Asking(c, attempt)
          \/ request' = End(c, "noKey")
      BY <1>1, <1>5, <2>3 DEF FindKey, Matching, Decoded
    <3>2. request'[c].step \in {"asking", "idle"}
      BY <1>3, <1>4, <3>1 DEF Asking, End, Shape
    <3>. QED BY <2>1, <3>2 DEF Follows, Honours, TurnsDown
  <2>. QED BY <2>2, <2>3
<1>6. CASE ReadKeys(c)
  <2>1. request[c].step = "stored"
    BY <1>6 DEF ReadKeys
  <2>2. time <= request[c].asked + FetchLimit
    BY <2>1 DEF KeyInv, Clocked, Waiting, Fetching
  <2>3. ASSUME jwks # {} PROVE time - fetchedAt <= 2 * FetchLimit
    <3>1. request[c].asked <= fetchedAt + FetchLimit
      BY <2>1, <2>3 DEF KeyInv, Readable
    <3>. QED BY <1>2, <2>2, <3>1, TimesAssumption
  <2>4. CASE jwks = {}
    <3>1. request' = End(c, "failed")
      BY <1>6, <2>4 DEF ReadKeys, Matching
    <3>2. request'[c].step = "idle" /\ request'[c].result = "failed"
      BY <1>3, <3>1 DEF End, Shape
    <3>. QED BY <3>2 DEF Follows, Honours, TurnsDown
  <2>5. CASE t.kid \in jwks
    <3>1. Withdrawn(t.kid) => fetchedAt <= withdrawnAt[t.kid]
      BY <2>5 DEF KeyInv, CacheDated, Dated
    <3>2. Withdrawn(t.kid) => time - withdrawnAt[t.kid] <= Ttl
      BY <1>2, <2>3, <2>5, <3>1, TimesAssumption DEF Withdrawn
    <3>3. ~TurnsDown(c)
      <4>1. SUFFICES ASSUME \E u \in request[c].token : u.sub \in NamesKey
                     PROVE  request'[c].result # "noKey"
        BY DEF TurnsDown
      <4>2. t.sub \in NamesKey
        BY <4>1 DEF KeyInv, Bearers
      <4>3. Matching(t) = {t.kid}
        BY <2>5, <4>2 DEF Matching
      <4>4. request' = Decoded(c, t.kid)
        BY <1>1, <1>6, <2>5, <4>3 DEF ReadKeys
      <4>5. \/ request' = End(c, "expired")
            \/ \E step : request' = GoTo(c, step)
        BY <1>1, <4>4 DEF Decoded
      <4>. QED BY <1>3, <1>4, <4>5 DEF End, GoTo, Shape
    <3>. QED BY <3>2, <3>3 DEF Follows
  <2>6. CASE jwks # {} /\ t.kid \notin jwks
    <3>1. Withdrawn(t.kid) \/ fetchedAt <= publishedAt[t.kid]
      BY <1>1, <2>6 DEF KeyInv, CacheDated, Dated
    <3>2. Withdrawn(t.kid) \/ time - publishedAt[t.kid] <= 2 * FetchLimit
      BY <1>2, <2>3, <2>6, <3>1, TimesAssumption
    <3>3. \/ request' = Asking(c, 2)
          \/ request' = End(c, "noKey")
      BY <1>1, <1>6, <2>6 DEF ReadKeys, Matching, Decoded
    <3>4. request'[c].step \in {"asking", "idle"}
      BY <1>3, <1>4, <3>3 DEF End, Asking, Shape
    <3>. QED BY <3>2, <3>4 DEF Follows, Honours
  <2>. QED BY <2>4, <2>5, <2>6
<1>7. CASE FetchFails(c)
  <2>1. request' = End(c, "failed")
    BY <1>7 DEF FetchFails
  <2>2. request'[c].step = "idle" /\ request'[c].result = "failed"
    BY <1>3, <2>1 DEF End, Shape
  <2>. QED BY <2>2 DEF Follows, Honours, TurnsDown
<1>8. CASE LocalToken(c)
  <2>1. request[c].step = "token"
    BY <1>8 DEF LocalToken
  <2>2. \/ \E result : request' = End(c, result)
        \/ \E s, scopes : request' = AuthenticatedAs(c, s, scopes)
    BY <1>8 DEF LocalToken
  <2>3. request'[c].step = "idle"
    BY <1>3, <2>2 DEF End, AuthenticatedAs, Shape
  <2>. QED BY <2>1, <2>3 DEF Follows, Honours, TurnsDown
<1>9. CASE \/ ReadSession(c) \/ WithoutToken(c) \/ PasswordLogin(c) \/ ServeKeys(c)
           \/ StoreKeys(c) \/ LookUp(c) \/ Search(c) \/ ProvisionOidcUser(c) \/ SyncScopes(c)
  <2>1. request[c].step \notin {"token", "stored"} \/ WithoutToken(c)
    BY <1>9 DEF ReadSession, PasswordLogin, ServeKeys, StoreKeys, LookUp, Search,
       ProvisionOidcUser, SyncScopes
  <2>2. ~WithoutToken(c)
    BY DEF WithoutToken
  <2>. QED BY <2>1, <2>2 DEF Follows, Honours, TurnsDown
<1>10. CASE Logout(c)
  BY <1>10, OthersFollow DEF Logout
<1>. QED BY <1>5, <1>6, <1>7, <1>8, <1>9, <1>10

\* The signing key of a token is honoured at most the time to live of the cache
\* after the provider withdrew it, and a token that names its key is refused
\* for it only when that is withdrawn or was published no longer ago than two
\* fetches may take (_find_signing_key of authn/oidc.py), with any number of
\* requests clearing, filling and reading the one cache out of order.
THEOREM KeysFollowed == Spec => KeysFollowProvider
<1> DEFINE Body == \A c \in Clients : \A t \in request[c].token :
                     /\ Honours(c) /\ Withdrawn(t.kid) => time - withdrawnAt[t.kid] <= Ttl
                     /\ TurnsDown(c) => \/ Withdrawn(t.kid)
                                        \/ time - publishedAt[t.kid] <= 2 * FetchLimit
<1>1. Init => KeyInv
  <2> SUFFICES ASSUME Init PROVE KeyInv
    OBVIOUS
  <2>1. \A c \in Clients : request[c].step = "idle" /\ request[c].token = {}
    BY DEF Init, NoRequest, Ended
  <2>. QED
    BY <2>1 DEF Init, KeyInv, Clocked, Bearers, CacheDated, Answers, Readable, Waiting,
       Fetching, Never
<1>2. ShapeInv /\ KeyInv /\ [Next]_vars => KeyInv'
  BY KeyInductive
<1>3. ShapeInv /\ KeyInv /\ [Next]_vars => [Body]_vars
  <2> SUFFICES ASSUME ShapeInv, KeyInv, Next, NEW c \in Clients, NEW t \in request[c].token
               PROVE  Follows(c, t)
    BY DEF Follows
  <2>1. CASE CreateUser \/ UpdateUser \/ DeleteUser
    BY <2>1, OthersFollow DEF CreateUser, UpdateUser, DeleteUser, unchangedByEdits
  <2>2. CASE PublishKey \/ WithdrawKey \/ Tick
    BY <2>2, OthersFollow DEF PublishKey, WithdrawKey, Tick, unchangedByProvider
  <2>3. ASSUME NEW d \in Clients, Call(d) \/ Callback(d) PROVE Follows(c, t)
    <3>1. CASE c = d
      BY <2>3, <3>1, CallShape DEF ShapeInv, Follows, Honours, TurnsDown
    <3>2. CASE c # d
      BY <2>3, <3>2, CallShape, OthersFollow DEF ShapeInv
    <3>. QED BY <3>1, <3>2
  <2>4. ASSUME NEW d \in Clients,
               \/ ReadSession(d) \/ WithoutToken(d) \/ LocalToken(d) \/ PasswordLogin(d)
               \/ Logout(d) \/ FindKey(d) \/ ServeKeys(d) \/ StoreKeys(d) \/ ReadKeys(d) \/ FetchFails(d)
               \/ LookUp(d) \/ Search(d) \/ ProvisionOidcUser(d) \/ SyncScopes(d)
        PROVE  Follows(c, t)
    <3>1. CASE c = d
      BY <2>4, <3>1, StepsFollow
    <3>2. CASE c # d
      BY <2>4, <3>2, OneClient, OthersFollow DEF ShapeInv
    <3>. QED BY <3>1, <3>2
  <2>. QED BY <2>1, <2>2, <2>3, <2>4 DEF Next
<1>4. Spec => [][Body]_vars
  BY <1>1, <1>2, <1>3, ShapeHolds, PTL DEF Spec
<1>. QED BY <1>4 DEF KeysFollowProvider

=============================================================================
