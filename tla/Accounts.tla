------------------------------ MODULE Accounts ------------------------------
(***************************************************************************)
(* User accounts and the authentication of requests, with local passwords  *)
(* or with an OpenID Connect provider: sessions and bearer tokens, the     *)
(* cache of the provider's signing keys, the provisioning of accounts on   *)
(* first sight, and the administrator who edits and deletes them.          *)
(*                                                                         *)
(* Every await is a boundary between steps: a request reads the account of *)
(* its session, then looks for the key of its token, fetches the keys when *)
(* it must, looks the account of the subject up, looks again, and inserts  *)
(* it.  The id of a provisioned account is the subject of its token; the   *)
(* id of any other is never used again.  The id token and the access token *)
(* of a login are one token here, for the provider signs both at a time.   *)
(***************************************************************************)
EXTENDS Integers, Sequences, FiniteSets, FiniteSetsExt, SequencesExt

CONSTANTS
  Subjects,      \* ids of accounts
  NameOf,        \* [Subjects -> its user name, a number for its place in the order]
  Roles,         \* scopes an account or a token may name
  ValidRoles,    \* those that are scopes of this program
  RolesGiven,    \* [Subjects -> the sets of roles its tokens may name]
  Clients,       \* clients, each with a session of its own
  Modes,         \* subset of {"local", "oidc"}: is settings.oidc set?
  Keys,          \* signing keys of the provider, a range of numbers
  NamesKey,      \* the subjects whose tokens have a kid, the id of their key
  Ttl,           \* _JWKS_CACHE_TTL
  FetchLimit,    \* how long a fetch may take, the close of its client included
  TokenLife,     \* [Subjects -> how long its tokens are valid]
  MaxTime,       \* bound on the clock
  MaxActs        \* [Modes -> bound on all requests and edits]

ASSUME NamesAssumption == NameOf \in [Subjects -> Nat] /\ ValidRoles \subseteq Roles
ASSUME RolesAssumption == RolesGiven \in [Subjects -> SUBSET SUBSET Roles]
ASSUME ModesAssumption == Modes \subseteq {"local", "oidc"}
ASSUME TimesAssumption ==
  /\ Ttl \in Nat /\ FetchLimit \in Nat \ {0} /\ 2 * FetchLimit <= Ttl
  /\ TokenLife \in [Subjects -> Nat \ {0}] /\ MaxTime \in Nat /\ MaxActs \in [Modes -> Nat]
ASSUME KeysAssumption ==
  Keys = 1..Cardinality(Keys) /\ 1 \in Keys /\ NamesKey \subseteq Subjects

VARIABLES
  mode,       \* which backend the server was started with
  account,    \* what is stored of each id
  retired,    \* ids that cannot be given to a new local account
  session,    \* the user id in the session of each client
  time,       \* the clock
  publishedAt, withdrawnAt,   \* when the provider did so with each key
  jwks,       \* the keys in the cache; {} stands for None
  fetchedAt,  \* _jwks_fetched_at
  request,    \* the request each client has under way, or its last one
  acts        \* requests and edits made so far

keyVars == <<publishedAt, withdrawnAt>>
cacheVars == <<jwks, fetchedAt>>
vars == <<mode, account, retired, session, time, keyVars, cacheVars, request, acts>>

None == "none"
Never == -1
NoAccount == [stored |-> FALSE, active |-> FALSE, scopes |-> {}]
\* What the schemas of accounts accept as scopes.
AreScopes(roles) == roles \subseteq ValidRoles

AccountRows == {NoAccount} \cup [stored : {TRUE}, active : BOOLEAN, scopes : SUBSET Roles]
Tokens == [sub : Subjects, kid : Keys, roles : SUBSET Roles, expires : Nat]
Request(step, purpose, token, attempt, asked, served) ==
  [step |-> step, purpose |-> purpose, token |-> token, attempt |-> attempt,
   asked |-> asked, served |-> served, identity |-> None, scopes |-> {}, result |-> "none"]
Ended(result, identity, scopes) ==
  [step |-> "idle", purpose |-> "none", token |-> {}, attempt |-> 0,
   asked |-> 0, served |-> {}, identity |-> identity, scopes |-> scopes, result |-> result]
NoRequest == Ended("none", None, {})
Steps == {"idle", "session", "token", "asking", "served", "stored", "lookup",
          "search", "insert", "sync"}
Results == {"none", "user", "anonymous", "expired", "noKey", "inactive", "opened", "failed"}
Requests ==
  [step : Steps, purpose : {"none", "call", "login"}, token : SUBSET Tokens,
   attempt : 0..2, asked : Nat, served : SUBSET Keys,
   identity : Subjects \cup {None}, scopes : SUBSET Roles, result : Results]

TypeOK ==
  /\ mode \in Modes /\ account \in [Subjects -> AccountRows]
  /\ retired \subseteq Subjects /\ session \in [Clients -> Subjects \cup {None}]
  /\ time \in 0..MaxTime
  /\ publishedAt \in [Keys -> 0..MaxTime \cup {Never}]
  /\ withdrawnAt \in [Keys -> 0..MaxTime \cup {Never}]
  /\ jwks \subseteq Keys /\ fetchedAt \in 0..MaxTime
  /\ request \in [Clients -> Requests]
  /\ \A c \in Clients : Cardinality(request[c].token) <= 1
  /\ acts \in 0..MaxActs[mode]

\* The first key is published, and nobody has been seen yet.
Init ==
  /\ mode \in Modes
  /\ account = [s \in Subjects |-> NoAccount]
  /\ retired = {}
  /\ session = [c \in Clients |-> None]
  /\ time = 0
  /\ publishedAt = [k \in Keys |-> IF k = 1 THEN 0 ELSE Never]
  /\ withdrawnAt = [k \in Keys |-> Never]
  /\ jwks = {} /\ fetchedAt = 0
  /\ request = [c \in Clients |-> NoRequest]
  /\ acts = 0

Act == acts < MaxActs[mode] /\ acts' = acts + 1

-----------------------------------------------------------------------------
(* Accounts in the database *)

Stored(s) == account[s].stored

\* MUTANT: an account need not be active to be used.
LiveIfStored(a) == a.stored

Live(a) == a.stored /\ a.active

\* The user name has a unique index, as the id has.
Taken(s) == Stored(s) \/ \E other \in Subjects : Stored(other) /\ NameOf[other] = NameOf[s]
ByUsername(name) == {s \in Subjects : Stored(s) /\ NameOf[s] = name}

\* The rows of a page, in the order of the user names.
PaginatedListUsers(page, size) ==
  LET before(s, t) == NameOf[s] < NameOf[t]
      users == SetToSortSeq({s \in Subjects : Stored(s)}, before)
      offset == size * (page - 1)
  IN {users[i] : i \in {n \in DOMAIN users : offset < n /\ n <= offset + size}}

-----------------------------------------------------------------------------
(* The administrator *)

unchangedByEdits == <<mode, session, time, keyVars, cacheVars, request>>

NewAccount(scopes) == [stored |-> TRUE, active |-> TRUE, scopes |-> scopes]

CreateUser ==
  /\ mode = "local" /\ Act
  /\ \E s \in Subjects \ retired, scopes \in SUBSET ValidRoles :
       /\ ~Taken(s)
       /\ account' = [account EXCEPT ![s] = NewAccount(scopes)]
       /\ retired' = retired \cup {s}
  /\ UNCHANGED unchangedByEdits

\* The fields that were set, of a form whose empty scopes are not.
Updated(a, active, scopes) ==
  [a EXCEPT !.active = active, !.scopes = IF scopes = {} THEN @ ELSE scopes]

\* An account is picked from a page of the list.
UpdateUser ==
  /\ Act
  /\ \E page \in 1..Cardinality(Subjects), active \in BOOLEAN, scopes \in SUBSET ValidRoles :
       \E s \in PaginatedListUsers(page, 1) :
         account' = [account EXCEPT ![s] = Updated(@, active, scopes)]
  /\ UNCHANGED <<unchangedByEdits, retired>>

DeleteUser ==
  /\ Act
  /\ \E page \in 1..Cardinality(Subjects) : \E s \in PaginatedListUsers(page, 1) :
       account' = [account EXCEPT ![s] = NoAccount]
  /\ UNCHANGED <<unchangedByEdits, retired>>

-----------------------------------------------------------------------------
(* The identity provider and the clock *)

Published == {k \in Keys : publishedAt[k] # Never /\ withdrawnAt[k] = Never}

\* A token that outlives the clock's bound never expires.
Expiry(at, s) ==
  IF at + TokenLife[s] <= MaxTime THEN at + TokenLife[s] ELSE MaxTime + 1

\* A token is signed with a key that is published, by the program itself in
\* local mode, where the key does not change and the roles are not named.
SignedAt(at) ==
  {[sub |-> s, kid |-> k, roles |-> roles, expires |-> Expiry(at, s)] :
     s \in Subjects, roles \in SUBSET Roles,
     k \in {j \in Keys : /\ publishedAt[j] # Never /\ publishedAt[j] <= at
                         /\ withdrawnAt[j] # Never => at <= withdrawnAt[j]}}
Issued ==
  {t \in UNION {SignedAt(at) : at \in 0..time} :
     IF mode = "oidc" THEN t.roles \in RolesGiven[t.sub]
     ELSE t.kid = 1 /\ t.roles = {} /\ t.sub \in retired}

unchangedByProvider ==
  <<mode, account, retired, session, cacheVars, request, acts>>

PublishKey ==
  /\ mode = "oidc"
  /\ \E k \in Keys : /\ publishedAt[k] = Never
                     /\ \A j \in 1..(k - 1) : publishedAt[j] # Never
                     /\ publishedAt' = [publishedAt EXCEPT ![k] = time]
  /\ UNCHANGED <<unchangedByProvider, time, withdrawnAt>>

WithdrawKey ==
  /\ mode = "oidc" /\ Cardinality(Published) > 1
  /\ withdrawnAt' = [withdrawnAt EXCEPT ![Min(Published)] = time]
  /\ UNCHANGED <<unchangedByProvider, time, publishedAt>>

\* A fetch ends or times out within its limit.
Fetching == {"asking", "served", "stored"}
Tick ==
  /\ time < MaxTime
  /\ \A c \in Clients : request[c].step \in Fetching =>
       time < request[c].asked + FetchLimit
  /\ time' = time + 1
  /\ UNCHANGED <<unchangedByProvider, keyVars>>

-----------------------------------------------------------------------------
(* Requests and sessions *)

Token(c) == CHOOSE t \in request[c].token : TRUE
Subject(c) == Token(c).sub
End(c, result) == [request EXCEPT ![c] = Ended(result, None, {})]
GoTo(c, step) ==
  [request EXCEPT ![c] = Request(step, request[c].purpose, request[c].token, 0, 0, {})]
AuthenticatedAs(c, s, scopes) == [request EXCEPT ![c] = Ended("user", s, scopes)]

\* A request with the session of its client and perhaps a bearer token.
Call(c) ==
  /\ request[c].step = "idle" /\ Act
  /\ \E token \in {{}} \cup {{t} : t \in Issued} :
       request' = [request EXCEPT ![c] =
         Request(IF session[c] # None THEN "session" ELSE "token", "call", token, 0, 0, {})]
  /\ UNCHANGED <<mode, account, retired, session, time, keyVars, cacheVars>>

unchangedByRequests == <<mode, retired, time, keyVars, acts>>

\* _get_user_from_db of the session; without a usable account the request may
\* still have a token.
ReadSession(c) ==
  /\ request[c].step = "session"
  /\ LET s == session[c] IN
     request' = IF Live(account[s]) THEN AuthenticatedAs(c, s, account[s].scopes)
                ELSE GoTo(c, "token")
  /\ UNCHANGED <<unchangedByRequests, account, session, cacheVars>>

WithoutToken(c) ==
  /\ request[c].step = "token" /\ request[c].token = {}
  /\ request' = End(c, "anonymous")
  /\ UNCHANGED <<unchangedByRequests, account, session, cacheVars>>

Expired(c) == Token(c).expires <= time

\* decode_access_token and the account of its subject.
LocalToken(c) ==
  /\ mode = "local" /\ request[c].step = "token" /\ request[c].token # {}
  /\ LET a == account[Subject(c)] IN
     request' = IF Expired(c) THEN End(c, "expired")
                ELSE IF Live(a) THEN AuthenticatedAs(c, Subject(c), a.scopes)
                ELSE End(c, "anonymous")
  /\ UNCHANGED <<unchangedByRequests, account, session, cacheVars>>

\* authenticate: a password opens a session with the local account that has
\* the user name (the administrator's login form; /login answers a token).
PasswordLogin(c) ==
  /\ mode = "local" /\ request[c].step = "idle" /\ Act
  /\ \E name \in {NameOf[s] : s \in Subjects} :
       \/ /\ \A s \in ByUsername(name) : ~account[s].active
          /\ request' = End(c, "anonymous")
          /\ UNCHANGED session
       \/ \E s \in ByUsername(name) :
            /\ account[s].active
            /\ session' = [session EXCEPT ![c] = s]
            /\ request' = End(c, "opened")
  /\ UNCHANGED <<mode, account, retired, time, keyVars, cacheVars>>

Logout(c) ==
  /\ request[c].step = "idle" /\ session[c] # None
  /\ session' = [session EXCEPT ![c] = None]
  /\ UNCHANGED <<unchangedByRequests, account, cacheVars, request>>

\* oidc_callback with the tokens its code was exchanged for.
Callback(c) ==
  /\ mode = "oidc" /\ request[c].step = "idle" /\ Act
  /\ \E t \in Issued \cap SignedAt(time) :
       request' = [request EXCEPT ![c] = Request("token", "login", {t}, 0, 0, {})]
  /\ UNCHANGED <<mode, account, retired, session, time, keyVars, cacheVars>>

-----------------------------------------------------------------------------
(* The signing key of a token *)

\* MUTANT: keys stay in the cache for good.
StaleNever == jwks = {}

Stale == jwks = {} \/ time - fetchedAt > Ttl

Asking(c, attempt) ==
  [request EXCEPT ![c] =
    Request("asking", request[c].purpose, request[c].token, attempt, time, {})]

\* _match_key: the cached keys that may be the first to match; a token without
\* a kid matches whichever key the provider lists first.
Matching(t) == {k \in jwks : t.sub \in NamesKey => k = t.kid}

\* jwt.decode with the key found, and on to the account.
Decoded(c, key) ==
  IF key # Token(c).kid THEN End(c, "noKey")
  ELSE IF Expired(c) THEN End(c, "expired")
  ELSE GoTo(c, IF request[c].purpose = "login" THEN "search" ELSE "lookup")

\* _find_signing_key up to its first await: the cached keys are used while
\* they are fresh; a key that is not among them clears the cache.
FindKey(c) ==
  /\ mode = "oidc" /\ request[c].step = "token" /\ request[c].token # {}
  /\ \/ /\ Stale
        /\ request' = Asking(c, 1)
        /\ UNCHANGED jwks
     \/ /\ ~Stale
        /\ \E key \in Matching(Token(c)) : request' = Decoded(c, key)
        /\ UNCHANGED jwks
     \/ /\ ~Stale /\ Matching(Token(c)) = {}
        /\ jwks' = {}
        /\ request' = Asking(c, 2)
  /\ UNCHANGED <<unchangedByRequests, account, session, fetchedAt>>

\* The provider answers with the keys of that moment.
ServeKeys(c) ==
  /\ request[c].step = "asking"
  /\ LET r == request[c] IN
     request' = [request EXCEPT ![c] =
       Request("served", r.purpose, r.token, r.attempt, r.asked, Published)]
  /\ UNCHANGED <<unchangedByRequests, account, session, cacheVars>>

\* The answer replaces the cache, dated when it was asked for.
StoreKeys(c) ==
  /\ request[c].step = "served"
  /\ LET r == request[c] IN
     /\ jwks' = r.served /\ fetchedAt' = r.asked
     /\ request' = [request EXCEPT ![c] =
          Request("stored", r.purpose, r.token, r.attempt, r.asked, {})]
  /\ UNCHANGED <<unchangedByRequests, account, session>>

\* The cache is read when the client of the fetch has been closed, and may by
\* then be another request's answer, or None, which is a TypeError.  The first
\* time that the key is not there, the cache is cleared and filled again.
ReadKeys(c) ==
  /\ request[c].step = "stored"
  /\ \/ /\ jwks = {}
        /\ request' = End(c, "failed")
        /\ UNCHANGED jwks
     \/ /\ \E key \in Matching(Token(c)) : request' = Decoded(c, key)
        /\ UNCHANGED jwks
     \/ /\ jwks # {} /\ Matching(Token(c)) = {} /\ request[c].attempt = 1
        /\ jwks' = {}
        /\ request' = Asking(c, 2)
     \/ /\ jwks # {} /\ Matching(Token(c)) = {} /\ request[c].attempt = 2
        /\ request' = End(c, "noKey")
        /\ UNCHANGED jwks
  /\ UNCHANGED <<unchangedByRequests, account, session, fetchedAt>>

\* An error of the provider, or of the close, is no InvalidTokenError and ends
\* the request.
FetchFails(c) ==
  /\ request[c].step \in Fetching
  /\ request' = End(c, "failed")
  /\ UNCHANGED <<unchangedByRequests, account, session, cacheVars>>

-----------------------------------------------------------------------------
(* The account of a token *)

\* What is done with the account a, just read or inserted: an API call acts
\* for it with the roles of the token or, without any, with its own scopes; a
\* login writes the roles of the token to it and opens a session.
UseAccount(c, a) ==
  LET roles == Token(c).roles IN
  IF ~Live(a) THEN request' = End(c, "inactive") /\ UNCHANGED session
  ELSE IF request[c].purpose = "call"
    THEN /\ request' = AuthenticatedAs(c, Subject(c), IF roles # {} THEN roles ELSE a.scopes)
         /\ UNCHANGED session
  ELSE IF roles = {} \/ roles = a.scopes
    THEN /\ request' = End(c, "opened")
         /\ session' = [session EXCEPT ![c] = Subject(c)]
  ELSE IF AreScopes(roles) THEN request' = GoTo(c, "sync") /\ UNCHANGED session
  ELSE request' = End(c, "failed") /\ UNCHANGED session

\* OIDCAuthBackend.authenticate looks for the account before provision_user
\* looks again.
LookUp(c) ==
  /\ request[c].step = "lookup"
  /\ IF Stored(Subject(c)) THEN UseAccount(c, account[Subject(c)])
     ELSE request' = GoTo(c, "search") /\ UNCHANGED session
  /\ UNCHANGED <<unchangedByRequests, account, cacheVars>>

\* provision_user: roles that are no scopes of this program are no account.
Search(c) ==
  /\ request[c].step = "search"
  /\ IF Stored(Subject(c)) THEN UseAccount(c, account[Subject(c)])
     ELSE /\ request' = IF AreScopes(Token(c).roles) THEN GoTo(c, "insert")
                        ELSE End(c, "failed")
          /\ UNCHANGED session
  /\ UNCHANGED <<unchangedByRequests, account, cacheVars>>

\* A unique index refuses the second of two inserts.
ProvisionOidcUser(c) ==
  /\ request[c].step = "insert"
  /\ IF Taken(Subject(c))
       THEN request' = End(c, "failed") /\ UNCHANGED <<account, session>>
       ELSE LET new == NewAccount(Token(c).roles) IN
            /\ account' = [account EXCEPT ![Subject(c)] = new]
            /\ UseAccount(c, new)
  /\ UNCHANGED <<unchangedByRequests, cacheVars>>

SyncScopes(c) ==
  /\ request[c].step = "sync"
  /\ IF Stored(Subject(c))
       THEN /\ account' = [account EXCEPT ![Subject(c)].scopes = Token(c).roles]
            /\ session' = [session EXCEPT ![c] = Subject(c)]
            /\ request' = End(c, "opened")
       ELSE request' = End(c, "failed") /\ UNCHANGED <<account, session>>
  /\ UNCHANGED <<unchangedByRequests, cacheVars>>

-----------------------------------------------------------------------------
Next ==
  \/ CreateUser \/ UpdateUser \/ DeleteUser
  \/ PublishKey \/ WithdrawKey \/ Tick
  \/ \E c \in Clients :
       \/ Call(c) \/ ReadSession(c) \/ WithoutToken(c) \/ LocalToken(c)
       \/ PasswordLogin(c) \/ Logout(c) \/ Callback(c)
       \/ FindKey(c) \/ ServeKeys(c) \/ StoreKeys(c) \/ ReadKeys(c) \/ FetchFails(c)
       \/ LookUp(c) \/ Search(c) \/ ProvisionOidcUser(c) \/ SyncScopes(c)

Spec == Init /\ [][Next]_vars

-----------------------------------------------------------------------------
(* Properties *)

\* A request that acts for a user does so for an account that is stored and
\* active at the step that says so (authn/backend.py): no answer of an earlier
\* await outlives a deactivation or a deletion, whichever way the request came
\* and however often the account was provisioned meanwhile.  It has the scopes
\* stored, or those named by a token of that very subject.
ActsForItsAccount ==
  [][\A c \in Clients :
       LET r == request'[c]
           bearer == \E t \in request[c].token : t.sub = r.identity
       IN request[c].step # "idle" /\ r.result = "user" =>
            LET a == account'[r.identity] IN
            /\ a.stored /\ a.active
            /\ r.identity = session[c] \/ bearer
            /\ \/ r.scopes = a.scopes
               \/ \E t \in request[c].token : t.sub = r.identity /\ r.scopes = t.roles]_vars

Honours(c) ==
  request[c].step \in {"token", "stored"} /\ request'[c].step \in {"lookup", "search"}
TurnsDown(c) ==
  /\ request[c].step = "stored" /\ request'[c].result = "noKey"
  /\ \E t \in request[c].token : t.sub \in NamesKey
Withdrawn(k) == withdrawnAt[k] # Never

\* Signing keys follow the provider (_find_signing_key), though requests clear
\* and fill one cache out of order and read it after it was filled by another.
\* A key is honoured no longer than the time to live after it was withdrawn,
\* and a token that names its key is turned down for it only when that has
\* been withdrawn, or was published no longer ago than two fetches may take.
KeysFollowProvider ==
  [][\A c \in Clients : \A t \in request[c].token :
       /\ Honours(c) /\ Withdrawn(t.kid) => time - withdrawnAt[t.kid] <= Ttl
       /\ TurnsDown(c) => \/ Withdrawn(t.kid)
                          \/ time - publishedAt[t.kid] <= 2 * FetchLimit]_vars

\* What the retry of _find_signing_key is for ("Possible key rotation - clear
\* cache and retry once"): no token that names its key is turned down while
\* that is published.  It does not hold: an older answer may be read.
RotationTurnsDownNone ==
  [][\A c \in Clients : \A t \in request[c].token :
       TurnsDown(c) => Withdrawn(t.kid)]_vars
=============================================================================
