---------------------------- MODULE AccessPolicy ----------------------------
(***************************************************************************)
(* Who may do what: the rules of LocalAuthorizationBackend, the reference  *)
(* Rego policy an OPA server evaluates in its place, the authorizer in     *)
(* front of either, and the where clauses of the listing queries.          *)
(*                                                                         *)
(* A user is the account as it was read at authentication: its id and its  *)
(* scopes.  A resource is a row: its name, owner and visibility; that of a *)
(* job holds the row of its process too.  The scope strings                *)
(* "collection-x:editor", "process-y:viewer" and so on are pairs of a name *)
(* and a role: the prefix of a scope is the kind of the name.  Collections *)
(* and processes have rules and queries of their own that read the same,   *)
(* so each is written once here, for a resource of either kind.            *)
(***************************************************************************)
CONSTANTS
  Users,        \* ids of user accounts
  Anonymous,    \* the id of a visitor who is not logged in (user is None)
  System,       \* the id of a SystemPrincipal (the CLI, the worker)
  Collections,  \* names of collections
  Processes,    \* names of processes
  Jobs          \* names of jobs

ASSUME PrincipalsAssumption ==
  /\ Anonymous \notin Users
  /\ System \notin Users
  /\ System # Anonymous
ASSUME NamesAssumption ==
  /\ Collections \cap Processes = {}
  /\ (Collections \cup Processes) \cap Jobs = {}

Resources == Collections \cup Processes
Names == Resources \cup Jobs
Roles == {"editor", "viewer"}

Admin == <<"server", "admin">>
Editor(name) == <<name, "editor">>
Viewer(name) == <<name, "viewer">>
RolesOn(name) == {Editor(name), Viewer(name)}
Scopes == {Admin} \cup (Names \X Roles)

Principals == [id : Users \cup {Anonymous, System}, scopes : SUBSET Scopes]
NobodyIn == [id |-> Anonymous, scopes |-> {}]

-----------------------------------------------------------------------------
(* LocalAuthorizationBackend: u is a user or the anonymous visitor.        *)

LoggedIn(u) == u.id # Anonymous
IsAdmin(u) == LoggedIn(u) /\ Admin \in u.scopes
Owns(u, r) == LoggedIn(u) /\ u.id = r.owner
Holds(u, scope) == LoggedIn(u) /\ scope \in u.scopes

CanEdit(u, r) == IsAdmin(u) \/ Owns(u, r) \/ Holds(u, Editor(r.name))
CanView(u, r) == r.public \/ CanEdit(u, r) \/ Holds(u, Viewer(r.name))
CanChangeOwner(u, r) == IsAdmin(u) \/ Owns(u, r)
CanCreate(u) == LoggedIn(u)

IsJobEditor(u, j) ==
  \/ IsAdmin(u) \/ Owns(u, j) \/ Holds(u, Editor(j.name))
  \/ Owns(u, j.process) \/ Holds(u, Editor(j.process.name))

IsJobViewer(u, j) ==
  \/ IsJobEditor(u, j)
  \/ Holds(u, Viewer(j.name)) \/ Holds(u, Viewer(j.process.name))

CanCreateJob(u, p) == CanView(u, p)
CanViewJob(u, j) == j.public \/ IsJobViewer(u, j)
CanDeleteJob(u, j) == IsJobEditor(u, j)

\* Scopes other than those of a collection the user edits need an admin.
CanSetScopes(u, new, editable) ==
  \/ IsAdmin(u)
  \/ LoggedIn(u) /\ \A s \in new : \E c \in editable \cap Collections : s \in RolesOn(c)

\* The answer None, "no restriction", stands for all the names of the kind.
Accessible(u, names) ==
  {n \in names : IsAdmin(u) \/ \E s \in RolesOn(n) : Holds(u, s)}

-----------------------------------------------------------------------------
(* docker/opa/policies/potto.rego.  With a null user, input.user.id and    *)
(* "in input.user.scopes" are undefined, so the rule does not succeed.     *)

OpaScope(u, scope) == u.id # Anonymous /\ scope \in u.scopes
OpaOwner(u, r) == u.id # Anonymous /\ r.owner = u.id

\* MUTANT: the policy forgets that viewers may create jobs.
OpaCanCreateJobNoViewer(u, p) ==
  \/ p.public
  \/ OpaScope(u, Admin) \/ OpaOwner(u, p) \/ OpaScope(u, Editor(p.name))

OpaCanView(u, r) ==
  \/ r.public
  \/ OpaScope(u, Admin)
  \/ OpaOwner(u, r)
  \/ OpaScope(u, Editor(r.name))
  \/ OpaScope(u, Viewer(r.name))
OpaCanEdit(u, r) ==
  OpaScope(u, Admin) \/ OpaOwner(u, r) \/ OpaScope(u, Editor(r.name))
OpaAccessible(u, names) ==
  IF u.id = Anonymous THEN {}
  ELSE IF OpaScope(u, Admin) THEN names
  ELSE {n \in names : \E s \in u.scopes : s \in RolesOn(n)}
OpaCanSetScopes(u, new, editable) ==
  \/ u.id # Anonymous /\ OpaScope(u, Admin)
  \/ /\ u.id # Anonymous
     /\ ~OpaScope(u, Admin)
     /\ \A s \in new : \E c \in Collections : s \in RolesOn(c) /\ c \in editable
OpaCanChangeOwner(u, r) == OpaScope(u, Admin) \/ OpaOwner(u, r)
OpaCanCreateJob(u, p) ==
  \/ p.public
  \/ OpaScope(u, Admin)
  \/ OpaOwner(u, p)
  \/ OpaScope(u, Editor(p.name))
  \/ OpaScope(u, Viewer(p.name))
OpaJobEditor(u, j) ==
  \/ OpaScope(u, Admin)
  \/ OpaOwner(u, j)
  \/ OpaScope(u, Editor(j.name))
  \/ OpaOwner(u, j.process)
  \/ OpaScope(u, Editor(j.process.name))
OpaJobViewer(u, j) ==
  \/ OpaJobEditor(u, j)
  \/ OpaScope(u, Viewer(j.name))
  \/ OpaScope(u, Viewer(j.process.name))
OpaCanViewJob(u, j) == j.public \/ OpaJobViewer(u, j)

-----------------------------------------------------------------------------
(* PottoAuthorizer: system principals pass, others are put to the backend. *)

IsSystem(a) == a.id = System
MayEdit(a, r) == IsSystem(a) \/ CanEdit(a, r)
MayChangeOwner(a, r) == IsSystem(a) \/ CanChangeOwner(a, r)
MayCreateJob(a, p) == IsSystem(a) \/ CanCreateJob(a, p)
MayDeleteJob(a, j) == IsSystem(a) \/ CanDeleteJob(a, j)

\* update_user: can_edit_user, can_assign_admin_scope and, for users,
\* can_set_user_scopes with the collections they own or edit.
MayAssign(a, new, editable) ==
  \/ IsSystem(a)
  \/ /\ IsAdmin(a)
     /\ Admin \in new => IsAdmin(a)
     /\ CanSetScopes(a, new, editable)

-----------------------------------------------------------------------------
(* Reading one by one and listing.  A listing is here all its pages        *)
(* together, without a filter; CollectionListing has the pages and filters *)
(* of one of the kinds.  Who is listed what is decided by which statement  *)
(* is run and by its where clause.                                         *)

MayView(a, r) == IsSystem(a) \/ CanView(a, r)
MayViewJob(a, j) == IsSystem(a) \/ CanViewJob(a, j)

GetResource(a, rows, name) == {r \in rows : r.name = name /\ MayView(a, r)}
GetJob(a, rows, name) == {j \in rows : j.name = name /\ MayViewJob(a, j)}

ListPublic(rows) == {r \in rows : r.public}

ListUserResources(u, rows, names) ==
  {r \in rows : r.public \/ u.id = r.owner \/ r.name \in Accessible(u, names)}

ListResources(a, rows, names) ==
  IF a.id = Anonymous THEN ListPublic(rows)
  ELSE IF IsSystem(a) THEN rows
  ELSE ListUserResources(a, rows, names)

\* MUTANT: the join with the process is there, its owner is not compared.
ListUserJobsByGrant(u, rows) ==
  {j \in rows : \/ j.public \/ u.id = j.owner
                \/ j.name \in Accessible(u, Jobs)
                \/ j.process.name \in Accessible(u, Processes)}

ListUserJobs(u, rows) ==
  {j \in rows : \/ j.public \/ u.id = j.owner \/ u.id = j.process.owner
                \/ j.name \in Accessible(u, Jobs)
                \/ j.process.name \in Accessible(u, Processes)}

ListJobs(a, rows) ==
  IF a.id = Anonymous THEN ListPublic(rows)
  ELSE IF IsSystem(a) THEN rows
  ELSE ListUserJobs(a, rows)

\* The configuration file manager asks for each entry whether it may be viewed.
ConfigListProcesses(a, rows) == {p \in rows : MayView(a, p)}

=============================================================================
