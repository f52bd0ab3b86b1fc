------------------------------ MODULE Sharing ------------------------------
(***************************************************************************)
(* Requests that create, change, share and delete resources, and run jobs, *)
(* interleaved at every await.                                             *)
(*                                                                         *)
(* A request works on what it read: the account at authentication, the row *)
(* of the resource when it was looked up, the scopes of the target user    *)
(* when that was read.  The permission is decided on those copies; the     *)
(* change is then made to the rows of the moment.  An update finds the row *)
(* again by its identifier; a deletion and the foreign key of a job go by  *)
(* the primary key, the field key.  A grant or a revocation writes back    *)
(* the target's whole list of scopes, computed from the copy.              *)
(*                                                                         *)
(* Scopes name identifiers, and no deletion removes any.  Accounts are     *)
(* neither created nor deleted here; their activity is left to the module  *)
(* EventBridge, deployment to ProcessDeployment.  What a request asks for  *)
(* is chosen when the code first depends on it.                            *)
(***************************************************************************)
EXTENDS AccessPolicy, Naturals

CONSTANTS
  Requests,    \* requests, each made at most once: bounds the operations
  Assignable,  \* lists of scopes an administrator may write, a bound
  NoRow        \* "no such row"

ASSUME AssignableAssumption == Assignable \subseteq SUBSET Scopes

Rows == [name : Resources, owner : Users, public : BOOLEAN, key : Nat]
JobRows == [name : Jobs, owner : Users, public : BOOLEAN, process : Processes]
ASSUME NoRowAssumption == NoRow \notin Rows \cup JobRows

VARIABLES
  scopes,      \* scopes of each account
  row,         \* row of each collection and process, NoRow where there is none
  job,         \* row of each job; its process is the name of it
  usedJobs,    \* job identifiers generated so far
  nextKey,     \* the next primary key
  pc,          \* where each request is
  actor,       \* the account each request authenticated as
  found,       \* the row each request looked up and was allowed to act on
  target,      \* the account a grant or revocation is for
  held,        \* the scopes of it, as read
  sanctioned,  \* history: <<user, scope, key>> an entitled actor asked for
  revoked      \* history: <<user, name>> revoked, and not granted since

tables == <<scopes, row, job, usedJobs, nextKey>>
locals == <<actor, found, target, held>>
history == <<sanctioned, revoked>>
vars == <<scopes, row, job, usedJobs, nextKey, pc, actor, found, target, held,
          sanctioned, revoked>>

Locations ==
  {"idle", "authenticated", "editing", "sharing", "running", "deleting", "ended"}

Exists(r) == row[r] # NoRow
JobExists(j) == job[j] # NoRow

\* The job as its schema presents it, with the present row of its process.
JobFacts(j) == [job[j] EXCEPT !.process = row[job[j].process]]

\* The key of what a scope names at present; 0 for the admin scope, a job, or
\* a name without a row.
KeyOf(scope) ==
  IF scope[1] \in Resources /\ row[scope[1]] # NoRow THEN row[scope[1]].key ELSE 0

Account(a) == [id |-> a, scopes |-> IF a \in Users THEN scopes[a] ELSE {}]
Visitors == {Account(a) : a \in Users \cup {Anonymous}}

TablesTyped ==
  /\ scopes \in [Users -> SUBSET Scopes]
  /\ row \in [Resources -> Rows \cup {NoRow}]
  /\ \A r \in Resources : Exists(r) => row[r].name = r /\ row[r].key < nextKey
  /\ job \in [Jobs -> JobRows \cup {NoRow}]
  /\ \A j \in Jobs : JobExists(j) => /\ job[j].name = j
                                     /\ j \in usedJobs
                                     /\ Exists(job[j].process)
  /\ usedJobs \subseteq Jobs
  /\ nextKey \in Nat

RequestsTyped ==
  /\ pc \in [Requests -> Locations]
  /\ actor \in [Requests -> Principals]
  /\ found \in [Requests -> Rows \cup JobRows \cup {NoRow}]
  /\ target \in [Requests -> Users \cup {Anonymous}]
  /\ held \in [Requests -> SUBSET Scopes]
  /\ \A q \in Requests :
       /\ pc[q] \in {"editing", "sharing", "running"} => found[q] \in Rows
       /\ pc[q] = "running" => found[q].name \in Processes
       /\ pc[q] = "deleting" => found[q] \in JobRows
       /\ pc[q] = "sharing" => target[q] \in Users

HistoryTyped ==
  /\ sanctioned \subseteq (Users \X Scopes \X Nat)
  /\ revoked \subseteq (Users \X Resources)

\* The type invariant.  Beside types: a job exists only with its process
\* (foreign key, cascade_delete), and primary keys are handed out in order.
TypeOK == TablesTyped /\ RequestsTyped /\ HistoryTyped

-----------------------------------------------------------------------------

FirstRows == [name : Resources, owner : Users, public : BOOLEAN, key : {1}]

\* An installation whose first administrator was created with the CLI; what
\* exists has not been shared yet.
Init ==
  /\ \E a \in Users :
       /\ scopes = [u \in Users |-> IF u = a THEN {Admin} ELSE {}]
       /\ sanctioned = {<<a, Admin, 0>>}
  /\ row \in {t \in [Resources -> FirstRows \cup {NoRow}] :
                \A r \in Resources : t[r] # NoRow => t[r].name = r}
  /\ job = [j \in Jobs |-> NoRow]
  /\ usedJobs = {}
  /\ nextKey = 2
  /\ pc = [q \in Requests |-> "idle"]
  /\ actor = [q \in Requests |-> NobodyIn]
  /\ found = [q \in Requests |-> NoRow]
  /\ target = [q \in Requests |-> Anonymous]
  /\ held = [q \in Requests |-> {}]
  /\ revoked = {}

\* The request is answered, with a result or an error; its copies are gone.
End(q) ==
  /\ pc' = [pc EXCEPT ![q] = "ended"]
  /\ actor' = [actor EXCEPT ![q] = NobodyIn]
  /\ found' = [found EXCEPT ![q] = NoRow]
  /\ target' = [target EXCEPT ![q] = Anonymous]
  /\ held' = [held EXCEPT ![q] = {}]

Goto(q, from, to) ==
  /\ pc[q] = from
  /\ pc' = [pc EXCEPT ![q] = to]

Authenticate(q) ==
  /\ Goto(q, "idle", "authenticated")
  /\ \E a \in Users \cup {Anonymous, System} :
       actor' = [actor EXCEPT ![q] = Account(a)]
  /\ UNCHANGED <<tables, found, target, held, history>>

-----------------------------------------------------------------------------
(* Creating, changing and deleting a collection or a process.              *)

Create(q) ==
  /\ pc[q] = "authenticated"
  /\ actor[q].id \in Users
  /\ CanCreate(actor[q])
  /\ \E r \in Resources, public \in BOOLEAN,
        owner \in Users :
       /\ ~Exists(r)
       /\ r \in Processes => owner = actor[q].id
       /\ row' = [row EXCEPT ![r] = [name |-> r, owner |-> owner,
                                     public |-> public, key |-> nextKey]]
  /\ nextKey' = nextKey + 1
  /\ End(q)
  /\ UNCHANGED <<scopes, job, usedJobs, history>>

\* MUTANT: a resource is found for editing by anyone who may view it.
FindForViewing(q) ==
  /\ Goto(q, "authenticated", "editing")
  /\ \E r \in Resources :
       /\ Exists(r)
       /\ IsSystem(actor[q]) \/ CanView(actor[q], row[r])
       /\ found' = [found EXCEPT ![q] = row[r]]
  /\ UNCHANGED <<tables, actor, target, held, history>>

Find(q) ==
  /\ Goto(q, "authenticated", "editing")
  /\ \E r \in Resources :
       /\ Exists(r)
       /\ MayEdit(actor[q], row[r])
       /\ found' = [found EXCEPT ![q] = row[r]]
  /\ UNCHANGED <<tables, actor, target, held, history>>

\* Owners an update may write: none given, the one that was found, or
\* another one if the actor may change it.
NewOwners(q) ==
  {row[found[q].name].owner, found[q].owner}
    \cup {u \in Users : MayChangeOwner(actor[q], found[q])}

Update(q) ==
  /\ pc[q] = "editing"
  /\ Exists(found[q].name)
  /\ \E owner \in NewOwners(q), public \in BOOLEAN :
       row' = [row EXCEPT ![found[q].name].owner = owner,
                          ![found[q].name].public = public]
  /\ End(q)
  /\ UNCHANGED <<scopes, job, usedJobs, nextKey, history>>

\* MUTANT: the jobs of a process stay when it is deleted.
DeleteWithoutJobs(q) ==
  /\ pc[q] = "editing"
  /\ row[found[q].name] # NoRow /\ row[found[q].name].key = found[q].key
  /\ row' = [row EXCEPT ![found[q].name] = NoRow]
  /\ End(q)
  /\ UNCHANGED <<scopes, job, usedJobs, nextKey, history>>

\* MUTANT: the row is found again by its identifier.
DeleteByIdentifier(q) ==
  /\ pc[q] = "editing"
  /\ Exists(found[q].name)
  /\ row' = [row EXCEPT ![found[q].name] = NoRow]
  /\ job' = [j \in Jobs |-> IF JobExists(j) /\ job[j].process = found[q].name
                            THEN NoRow ELSE job[j]]
  /\ End(q)
  /\ UNCHANGED <<scopes, usedJobs, nextKey, history>>

Delete(q) ==
  /\ pc[q] = "editing"
  /\ Exists(found[q].name)
  /\ row[found[q].name].key = found[q].key
  /\ row' = [row EXCEPT ![found[q].name] = NoRow]
  /\ job' = [j \in Jobs |-> IF JobExists(j) /\ job[j].process = found[q].name
                            THEN NoRow ELSE job[j]]
  /\ End(q)
  /\ UNCHANGED <<scopes, usedJobs, nextKey, history>>

-----------------------------------------------------------------------------
(* Sharing.                                                                *)

ReadTarget(q) ==
  /\ Goto(q, "editing", "sharing")
  /\ \E u \in Users :
       /\ target' = [target EXCEPT ![q] = u]
       /\ held' = [held EXCEPT ![q] = scopes[u]]
  /\ UNCHANGED <<tables, actor, found, history>>

\* The list is written as a whole.  If it is the one that was read, nothing
\* is; a role that was held may have moved in the list, and then it is.
WriteScopes(q, new) ==
  \/ scopes' = [scopes EXCEPT ![target[q]] = new]
  \/ new = held[q] /\ UNCHANGED scopes

Grant(q) ==
  /\ pc[q] = "sharing"
  /\ \E role \in Roles :
       LET name == found[q].name
           granted == <<name, role>>
       IN /\ WriteScopes(q, (held[q] \ RolesOn(name)) \cup {granted})
          /\ sanctioned' =
               IF MayEdit(actor[q], found[q])
               THEN sanctioned \cup {<<target[q], granted, found[q].key>>}
               ELSE sanctioned
          /\ revoked' = revoked \ {<<target[q], name>>}
  /\ End(q)
  /\ UNCHANGED <<row, job, usedJobs, nextKey>>

Revoke(q) ==
  /\ pc[q] = "sharing"
  /\ LET name == found[q].name
         kept == held[q] \ RolesOn(name)
     IN IF kept = held[q]
        THEN UNCHANGED <<scopes, revoked>>
        ELSE /\ scopes' = [scopes EXCEPT ![target[q]] = kept]
             /\ revoked' = revoked \cup {<<target[q], name>>}
  /\ End(q)
  /\ UNCHANGED <<row, job, usedJobs, nextKey, sanctioned>>

Editable(a) ==
  {c \in Collections : \/ Exists(c) /\ row[c].owner = a.id
                       \/ Editor(c) \in a.scopes}

\* The new list does not depend on the old one: reading the account and
\* writing it are one step.
AssignScopes(q) ==
  /\ pc[q] = "authenticated"
  /\ \E u \in Users, new \in Assignable :
       /\ MayAssign(actor[q], new, Editable(actor[q]))
       /\ scopes' = [scopes EXCEPT ![u] = new]
       /\ sanctioned' = IF IsSystem(actor[q]) \/ IsAdmin(actor[q])
                        THEN sanctioned \cup {<<u, s, KeyOf(s)>> : s \in new}
                        ELSE sanctioned
       /\ revoked' = {x \in revoked : x[1] # u}
  /\ End(q)
  /\ UNCHANGED <<row, job, usedJobs, nextKey>>

-----------------------------------------------------------------------------
(* Jobs.                                                                   *)

FindProcess(q) ==
  /\ Goto(q, "authenticated", "running")
  /\ \E p \in Processes :
       /\ Exists(p)
       /\ MayCreateJob(actor[q], row[p])
       /\ found' = [found EXCEPT ![q] = row[p]]
  /\ UNCHANGED <<tables, actor, target, held, history>>

CreateJob(q) ==
  /\ pc[q] = "running"
  /\ Exists(found[q].name)
  /\ row[found[q].name].key = found[q].key
  /\ \E j \in Jobs \ usedJobs :
       /\ job' = [job EXCEPT ![j] =
                    [name |-> j, process |-> found[q].name,
                     owner |-> IF actor[q].id \in Users THEN actor[q].id
                               ELSE found[q].owner,
                     public |-> actor[q].id = Anonymous]]
       /\ usedJobs' = usedJobs \cup {j}
  /\ End(q)
  /\ UNCHANGED <<scopes, row, nextKey, history>>

FindJob(q) ==
  /\ Goto(q, "authenticated", "deleting")
  /\ \E j \in Jobs :
       /\ JobExists(j)
       /\ MayDeleteJob(actor[q], JobFacts(j))
       /\ found' = [found EXCEPT ![q] = job[j]]
  /\ UNCHANGED <<tables, actor, target, held, history>>

DeleteJob(q) ==
  /\ pc[q] = "deleting"
  /\ JobExists(found[q].name)
  /\ job' = [job EXCEPT ![found[q].name] = NoRow]
  /\ End(q)
  /\ UNCHANGED <<scopes, row, usedJobs, nextKey, history>>

\* Not found, not allowed, the database said no, or the server process died.
Abandon(q) ==
  /\ pc[q] \notin {"idle", "ended"}
  /\ End(q)
  /\ UNCHANGED <<tables, history>>

-----------------------------------------------------------------------------

Step(q) ==
  \/ Authenticate(q) \/ Create(q) \/ Find(q) \/ Update(q) \/ Delete(q)
  \/ ReadTarget(q) \/ Grant(q) \/ Revoke(q) \/ AssignScopes(q)
  \/ FindProcess(q) \/ CreateJob(q) \/ FindJob(q) \/ DeleteJob(q) \/ Abandon(q)

Next == \E q \in Requests : Step(q)

Spec == Init /\ [][Next]_vars

-----------------------------------------------------------------------------
(* Properties.                                                             *)

\* What a user holds somebody gave who could: every scope of an account was
\* asked for, for that account, by an administrator, by the system, or by one
\* who at the time of its reads could edit the resource the scope names, also
\* when lists of scopes overwrite each other (grant_process_access,
\* grant_collection_access, update_user).
ScopesWereGranted ==
  \A u \in Users : \A s \in scopes[u] : \E x \in sanctioned : x[1] = u /\ x[2] = s

ExistingRows(names) == {row[r] : r \in {n \in names : Exists(n)}}
ExistingJobs == {JobFacts(j) : j \in {n \in Jobs : JobExists(n)}}

\* The listings (statements with where clauses) and the permissions (the policy)
\* agree: visitors, users and the system are listed exactly the rows they can
\* open one by one (paginated_list_processes, paginated_list_collections and
\* paginated_list_jobs against get_process_by_resource_identifier, its twin and
\* get_job), and the configuration file manager lists the same processes.
ListingsShowWhatMayBeViewed ==
  \A a \in Visitors \cup {Account(System)} :
    /\ \A names \in {Collections, Processes} :
         LET rows == ExistingRows(names)
         IN ListResources(a, rows, names) = {r \in rows : r \in GetResource(a, rows, r.name)}
    /\ ListJobs(a, ExistingJobs) = {j \in ExistingJobs : j \in GetJob(a, ExistingJobs, j.name)}
    /\ ConfigListProcesses(a, ExistingRows(Processes))
         = ListResources(a, ExistingRows(Processes), Processes)

\* "This policy mirrors the logic of the LocalAuthorizationBackend"
\* (docker/opa/policies/potto.rego:3): in every state the two backends decide
\* alike on every visitor, every row and every assignment of scopes.
PolicyMirrorsLocal ==
  \A u \in Visitors :
    /\ \A r \in ExistingRows(Resources) :
         /\ OpaCanView(u, r) <=> CanView(u, r)
         /\ OpaCanEdit(u, r) <=> CanEdit(u, r)
         /\ OpaCanChangeOwner(u, r) <=> CanChangeOwner(u, r)
         /\ OpaCanCreateJob(u, r) <=> CanCreateJob(u, r)
    /\ \A j \in ExistingJobs :
         /\ OpaCanViewJob(u, j) <=> CanViewJob(u, j)
         /\ OpaJobEditor(u, j) <=> CanDeleteJob(u, j)
    /\ \A names \in {Collections, Processes, Jobs} :
         OpaAccessible(u, names) = Accessible(u, names)
    /\ \A new \in Assignable :
         OpaCanSetScopes(u, new, Editable(u)) <=> CanSetScopes(u, new, Editable(u))

Entitled(q, r, key) ==
  /\ pc'[q] = "ended"
  /\ found[q].name = r /\ found[q].key = key
  /\ \/ pc[q] = "editing" /\ MayEdit(actor[q], found[q])
     \/ pc[q] = "running" /\ MayCreateJob(actor[q], found[q])

\* What a request was found entitled to it does to that very row, although the
\* identifier may have gone to another row, of another owner, before it acts: a
\* resource is deleted only by a request that could edit the row that goes, and
\* a job is created only for the process row that its creator could run
\* (delete_process, delete_collection and create_job, which go on with the
\* primary key they read).
ActsOnWhatWasChecked ==
  [][/\ \A r \in Resources : Exists(r) /\ row'[r] = NoRow =>
          \E q \in Requests : pc[q] = "editing" /\ Entitled(q, r, row[r].key)
     /\ \A j \in Jobs : ~JobExists(j) /\ job'[j] # NoRow =>
          \E q \in Requests :
            /\ pc[q] = "running"
            /\ Entitled(q, job'[j].process, row'[job'[j].process].key)]_vars

\* "Only the owner or an admin may change a resource's owner"
\* (docs/decisions/0004, line 49): a step that changes the owner of a row ends
\* a request of one who was, when it read the row, its owner or an admin.
OwnerChangedByOwner ==
  [][\A r \in Resources :
       /\ row[r] # NoRow
       /\ row'[r] # NoRow
       /\ row'[r].key = row[r].key
       /\ row'[r].owner # row[r].owner
       => \E q \in Requests : /\ pc[q] = "editing"
                              /\ pc'[q] = "ended"
                              /\ MayChangeOwner(actor[q], found[q])]_vars

\* "A private resource is visible and actionable only by its owner, by admins
\* and by users it has been shared with" (docs/decisions/0004, lines 39-41):
\* the scope was given for this resource, not for an earlier one of its name.
PrivateMeansShared ==
  \A r \in {n \in Resources : Exists(n)}, u \in Users :
    CanView(Account(u), row[r]) =>
      \/ row[r].public \/ CanChangeOwner(Account(u), row[r])
      \/ \E s \in RolesOn(r) : <<u, s, row[r].key>> \in sanctioned

\* "Revoke a user's access to a process." (managers/processes.py:146, and
\* managers/postgis/manager.py:511): once a revocation is written the user has
\* no role on the resource until somebody gives one again.
RevokedStaysRevoked ==
  \A u \in Users, r \in Resources :
    <<u, r>> \in revoked => scopes[u] \cap RolesOn(r) = {}

=============================================================================
