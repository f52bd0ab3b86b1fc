# TLA+ specifications of potto

Potto wraps pygeoapi's ideas of collections, processes and jobs in a web
application with its own persistence (PostGIS), ownership and sharing,
authorization, internal events and background workers.  This directory holds
TLA+ models of those parts of it whose correctness depends on the order in
which several actors act, TLC configurations that check them on small
instances, and proofs of their main properties for TLAPS.

`PROJECT.json` maps every definition to the lines of the source it stands for,
and lists components, runs, mutants, findings, hazards and theorems.

Contents: [the system](#the-system) · [plan](#plan) ·
[modules](#the-modules-and-the-code) · [runs](#runs) ·
[proofs](#proofs) · [what is not modelled](#what-is-not-modelled) ·
[what does not hold](#what-does-not-hold) · [seen while reading](#seen-while-reading-without-a-run)

## The system

Paths are relative to `src/src/potto/`.

| Component | State | Operations | Talks to | What is hard | What makes it correct |
|---|---|---|---|---|---|
| wrapper (`wrapper.py`) | none of its own | create, update, delete, deploy process; create, execute, dismiss, delete job | managers, internal broker | commits first, publishes later; a failed publish is swallowed; several transactions per call | no change is forgotten, no outcome attributed to the wrong definition |
| process lifecycle worker (`eventhandlers/processes.py`) | none | reconcile on every process event | wrapper, internal broker | events are repeated, lost, reordered; several workers; crashes | one deployment at a time; the process converges |
| job worker (`eventhandlers/jobs.py`) | none | execute on a created event | wrapper, internal broker | as above, and jobs dismissed, deleted, cascaded meanwhile | a job runs at most once, and an accepted one is run |
| event bridge (`eventhandlers/processes.py`, `pubsub/audience.py`, `pubsub/topics.py`) | none | resolve the audience, publish to the public broker | managers, public broker | the audience is read in three transactions; that of a deletion travels with the event | only users who may see the process are told, and all of them are |
| public broker (`pubsub/broker.py`, `plugins.py`, `tokens.py`) | sessions and their identity | authenticate, claim session, filter topics, disconnect the expired | tokens from the API | persistent sessions, token expiry, two listeners | a client receives only its own topics while its token lasts |
| postgis manager (`managers/postgis/`) | the database: collections, processes, jobs, users, metadata | CRUD, listings, conditional updates, sharing | authorizer, feature providers | check and change in separate transactions; read-modify-write of scopes; cascades | permissions hold where they are used; listings tell the truth |
| authorization (`authz/`) | none | decide on principals and facts; local rules or an OPA server | OPA over HTTP | the same policy in Python, in Rego and in SQL | the three agree |
| user accounts (`operations/users.py`) | users, scopes, activity | create, update, delete, grant, revoke, provision | authorizer | concurrent changes of one list of scopes; cascades | no scope that nobody gave |
| authentication (`authn/`) | caches of OIDC discovery and keys | sessions, bearer tokens, local passwords, just-in-time accounts | OIDC provider | refresh of keys on rotation; two first logins | a request acts as its user |
| collections (`operations/collections.py`) | collection rows | create and enrich, update, delete, import | feature providers | creation is several transactions | a created collection is complete or reported as failed |
| feature providers (`providers/features/`) | a bounded cache of provider instances | query items | DuckDB, pyogrio, PostGIS, pygeoapi plugins | concurrent misses of the same key | the cache keeps its bound, one instance per key |
| pygeoapi providers (`pygeoapi_providers/`, `operations/config.py`) | none | translate to and from pygeoapi's configuration | | | faithful translation |
| configuration file manager (`managers/configurationfile/`) | a parsed file | read only | | | answers every write with "not supported" |
| server metadata (`operations/metadata.py`) | one row | get (creates it), update | | two first readers | there is one row |
| web application, HTML and API (`webapp/`) | signed session cookies | handlers | wrapper, managers | | handlers check before they act |
| admin interface (`managers/postgis/admin/`, `webapp/admin/`) | none | forms on all tables | managers, publishes no events | writes from stale forms | as the managers |
| command line (`cliapp/`, `managers/postgis/cli.py`) | none | all of the above as a system principal | managers | | as the managers |
| settings, schemas, migrations, AsyncAPI document | none | | | | |

The flow of a change: a handler, an admin form or the command line calls the
wrapper or a manager; the manager decides with the authorizer on a copy of the
row and commits; the wrapper publishes an event to the internal MQTT broker;
a worker of each consumer group (process lifecycle, bridge, job execution)
takes it, acts with transactions of its own, and may publish more events.

The hazards of this code are listed in `PROJECT.json` with the line where each
bites and the properties that would catch it.

## Plan

The order is by how much depends on a part and how hard it is to test.

1. `ProcessDeployment`, with the abstract `DeploymentReconciler` it implements. **Done.**
2. `JobExecution`, with the abstract `JobLifecycle` it implements. **Done.**
3. `EventBridge`: who is told of what. **Done** for processes; the code publishes nothing else yet.
4. `AccessPolicy`, the pure rules, and `Sharing`, requests on top of them. **Done.**
5. `PublicBroker`: sessions, tokens, topic filters, expiry. **Done.**
6. `Accounts`: authentication, OpenID Connect provisioning, rotation of keys. **Done.**
7. `Catalogue`: creation, import, edits and deletion of collections over the
   shared cache of providers, with `CollectionListing` and `ProviderDescriptions`. **Done.**
8. `ItemPaging` over `FeatureProviders`: walks through items by their links. **Done.**
9. `ServerMetadata` over `Database` and `SchemaRevisions`. **Done.**

"Done" means modelled, checked and with every invariant and action property that a
run checks proved; liveness is what is left to TLC alone. None of the modules has a
RECURSIVE operator.

Composition: `Sharing` extends `AccessPolicy`; `ProcessDeployment` and
`JobExecution` share the deployment status and the deletion of a process, each
abstracting from the other (`ChangeDeployment`, `InsertProcess`,
`DeleteProcess` of `JobExecution` are what `ProcessDeployment` can do to a
row; jobs never touch the columns `ProcessDeployment` looks at). `EventBridge`
is the other consumer group of the same events. `Sharing` fixes what
`EventBridge` leaves open, who may grant and revoke. `Catalogue` extends
`CollectionListing`, which extends `AccessPolicy`, `ProviderDescriptions` and `Pages`;
`ItemPaging` extends `FeatureProviders`, which extends the latter two; `ServerMetadata` extends `Database`,
which extends `SchemaRevisions`. `PublicBroker` is where the topics that
`EventBridge` publishes on go.

## The modules and the code

### ProcessDeployment

One process identifier. `row` is its database row (`id` the primary key,
`definition` what `get_deployment_hash` covers, `value` and `hash` the recorded
deployment status), `unpublished` the commits whose event the wrapper still
owes, `queue` the events the group "process-lifecycle" has to handle. A worker
runs `internal_handle_process_event`, then `deploy_process`: each location of
`pc` stands before one transaction or call of it, and its local variables
(`snapshot`, `target`, `claimed`, `outcome`) are the code's.

| Action | Code |
|---|---|
| `CreateProcess`, `UpdateProcess`, `DeleteProcess` | the wrapper's operations, commit only |
| `AdminCreate`, `AdminEdit`, `AdminDelete` | the admin views, which publish nothing |
| `PublishProcessEvent` | `publish_internal_process_event` |
| `ReceiveEvent`, `ReconcileProcess` | the handler, with its decision on a fresh read |
| `TakeSnapshot`, `FindToClaim`, `Claim`, `RereadClaimed` | `deploy_process` up to the committed conditional UPDATE |
| `DeployProcess` | the job manager's `deploy_process`; an exception counts as failed |
| `FindToRecord`, `RecordOutcome`, `RereadRecorded`, `PublishOutcome` | recording by another conditional UPDATE, and its event |
| `DuplicateEvent`, `LoseClientEvent`, `LoseOutcomeEvent`, `Crash` | at-least-once delivery, swallowed publish errors, worker restarts |

`DeploymentReconciler` is the promise: a controller that looks at the row all
the time, without events, workers or transactions.

Abstractions: the digest is injective. A wrapper update whose re-read fails
because of a concurrent deletion publishes nothing in the code and one event
more in the model, which is handled as any event of a missing process is.
`undeploy_process` is not there: in the code it raises `NotImplementedError`.
Deploying "oci" and "cwl" processes raises too, which is the outcome failed;
the outcome deployed is what the pending implementation is to give.

### JobExecution

The jobs of one process identifier. `checked` is the process row a `create_job`
call found deployed, before it inserts the job; `owed` and `queue` are the
created events to be published and handled; a worker runs `execute_job` of the
wrapper and of the manager, with the locals `seen`, `outcome` and `executed`.

`CheckProcess`, `InsertJob` and `PublishJobCreated` are the wrapper's
`create_job`; `ReceiveJobCreated`, `GetJob`, `ClaimJob`, `RereadClaimed`,
`RunJob`, `RecordOutcome`, `Reread` and `PublishStatusChanged` the execution;
`DeleteJob`, `SetJobStatus` and the cascade of `DeleteProcess` interfere. The
lookup of the status before a conditional update is folded into that update:
the database decides. Deleted events have no consumer in this group, so their
publication is left out, and so is the audience they carry, which nothing
reads. `JobLifecycle` is the promise: accepted jobs start, running
jobs end, final statuses stay.

### EventBridge

One process and the users' relation to it. `process` is visibility and owner,
`role` the scope each account holds on the identifier, `active` its activity;
`queue` the events of the group "bridge-to-public". Bridges and the requests
that delete the process resolve an audience by the same three reads
(`FindProcess`, `ReadEditors`, `ReadViewers`). The history `witness` records
who was entitled at some moment, at all moments, and undisturbed, of each
resolution. An event is queued at its commit; the wrapper's delay shows as
queueing time. The order of publication inside an audience is left open. The
local authorizer never removes a candidate, since all are owners, editors or
viewers. `deployment_failed` stands for every internal-only event.

### AccessPolicy and Sharing

`AccessPolicy` has no state: the rules of `LocalAuthorizationBackend`, those of
`docker/opa/policies/potto.rego` with undefined values as failure, the
authorizer's shortcut for system principals, and the where clauses of the
listings. Collections and processes have rules that read the same, so each is
written once for a resource of either kind.

`Sharing` puts requests on top: a request authenticates (a copy of the
account), looks a resource or job up and decides (`Find`, `FindProcess`,
`FindJob`, a copy of the row), reads a target account (`ReadTarget`), and
writes. What it writes goes to the rows of that moment: by identifier for an
update, by primary key for a deletion and for a job's process, so that the last two
act on what was checked (`ActsOnWhatWasChecked`) whoever has the identifier by then. `Grant` and
`Revoke` write the target's whole list back. `Abandon` is every error path
after authentication. The histories `sanctioned` and `revoked` record what was
asked for by somebody entitled, and what was revoked and not granted since.

Abstractions: a list of scopes is a set; whether a list that only changed its
order is written is left open (`WriteScopes`). Inputs are chosen when the code
first depends on them. The admin's assignment of scopes does not use the old
list, so reading and writing are one step. Accounts are fixed.

### Pages, FeatureProviders and ItemPaging

`Pages` has what every listing is made of: the rows of a set in the order of the
table (`Select`), and the part of them that an offset and a limit give (`Slice`). It
takes a set where `SelectSeq` takes a test, so that theorems can speak of it.

`FeatureProviders` has no state: what each of the five providers lists
(`ListFeatures`), counts (`CountItems`) and fetches (`GetFeature`) for a filter,
and which filters it refuses, over a source that is a sequence of rows. The
providers differ where their code does: in the system they read a box in, in
whether they look at dates, in what they count, in the limits they apply. Of the
geometry there is left in which areas a row lies, `Covers`: the numbers of one box
cover other places in another reference system, and the first four of six numbers
yet others.

An item is asked for by a text, the one its page gives (`Str`), and each provider
makes a value of its column of it: `DuckdbCoerce` and `PostgisCoerce` are their
`_coerce_id`, and pyogrio reads a number when the source numbers its features and
leaves the rest to OGR's SQL. What they cannot read raises. The types are numbers,
texts, of which some look like numbers, and "date", for the Python types of
SQLAlchemy whose constructor takes no text. Identifiers that are booleans, and pyogrio
columns that are neither integers nor texts, are left out.

`ItemPaging` puts a client on top, which begins at a query and follows the links
of the pages, forward and then back. `BeginWalk` turns the query into a filter, as
the JSON or the HTML route does; `ListPage` and `CountAndAnswer` are the two
reads of `list_collection_items`; `FollowNext` and `FollowPrev` are the links of
`PaginationContext`. The source is changed between any two of these
(`InsertFeature`, `DeleteFeature`, `TouchFeature`).

### ProviderDescriptions, CollectionListing and Catalogue

`ProviderDescriptions` has what each provider says about its data: storage CRS,
extents, schema and queryables. `CollectionListing` has the queries of the postgis
manager, one per kind of reader (the system principal's lists everything), and the
listing of the configuration file manager, which slices a list in Python;
`AllPages` and `ConfigAllPages` are what a reader gets who asks for one page after
the other. Neither module has state. A box has the system its numbers are in and the
one it is labelled with. The files of duckdb and collection-config do not tell their
system: it is the one the configuration declares, and their numbers are taken to
be in it.

`Catalogue` is one server process. `Create` and `Import` commit a row; `LookUp`,
`Probe` and `KeepBuilt` are `get_feature_provider`, which gives way to other
tasks only while a duckdb connection is opened; `AskStorage`, `AskExtent` and
`AskDates` are the questions of `_enrich_from_provider`, each an await, `Enrich` and
`DefaultCrs` the second and third commit of a creation. What a provider remembers of
its source may be older than what it reads: the columns that duckdb probed, the box and the
dates it keeps once asked, and the table that postgis reflects before its first
answer (`ReadTable`, `KeepTable`, for two clients may be at it), from which it labels
a box whose numbers are those of the rows there are now. `Serve` and `Answer` are requests that use
the provider; `Update`, `Overwrite` and `Delete` change rows that others hold
copies of. `Restart` ends every request and empties the cache. Histories: `edited`,
the rows that somebody edited, and `cutOff`, those whose creation a restart ended.
A request is a record (`Request`), and every step of it makes a new one of the old
(`Becomes`). Assumed of the inputs: a box is given with the system its numbers are
in (`DraftsAssumption`), and the process starts on collections whose keys are those
of their order and whose creation ended (`TablesAssumption`).

### Accounts

`account` is the table of users, `session` the user id in each client's cookie,
`jwks` and `fetchedAt` the cache of `OIDCProvider`, `publishedAt` and
`withdrawnAt` the provider's own key set. A request goes through
`ReadSession`, then the token: `LocalToken`, or `FindKey`, `ServeKeys`, `StoreKeys`,
`ReadKeys` (or `FetchFails`), `LookUp`, `Search` and `ProvisionOidcUser`, each
await a boundary. One of them is the close of the HTTP client between the assignment
of the cache (`StoreKeys`) and its return (`ReadKeys`): what is returned may be
another request's answer, or None after another's clear, which raises. A subject outside
`NamesKey` has tokens without a kid, which match the first key listed. `PasswordLogin`, `Logout`, `Callback` and `SyncScopes` are the logins,
`CreateUser`, `UpdateUser` and `DeleteUser` the administrator. Which of the two
backends the server runs (`mode`) is chosen at the start.

### PublicBroker

`session` is the broker's session of each client id with the attributes that
`plugins.py` keeps in it, `presented` the credentials its connection was made
with, a history. `Connect` is authentication with `_claim_session`, on either
listener; `Subscribe` and `Deliver` apply the topic filters; `Wake` and
`CheckExpired` are the expiry task, one session per step. amqtt is external: it
keeps persistent sessions, reuses their attributes, and queues messages.

### SchemaRevisions, Database and ServerMetadata

`SchemaRevisions` has the sixteen scripts as sets of facts dropped and added,
in both directions, and what the classes of `models.py` map. A fact is a table, a
column of it and what holds of the column; a script fits a schema that has what
it drops, has the tables it alters, has no table that it creates and no other
column of a name that it adds (`Fits`). `Database` runs them:
a command is one transaction (`Begin`, `Step`, `Commit`, `RollBack`, `Abort`), a
script fails on a schema or on rows it does not fit, and Alembic's update of the
version row makes the second of two commands wait and then fail. `CheckHealth`,
`GetHealthStatus` and `HealthCheck` are the health route.

`ServerMetadata` adds sessions that look for the row and create it (`Look`,
`CreateMetadata`), and edits that are merged with what an earlier session read
(`OpenEdit`, `Submit`, `UpdateMetadata`).

## Runs

| Run | Question | Distinct states |
|---|---|---|
| `deploy_reliable` | with events at worst repeated: is any change forgotten, does the process converge, do the workers implement the reconciler? | 209 k |
| `deploy_faulty` | with every fault: are recorded outcomes true, is deployment exclusive? | 1.9 M |
| `deploy_crashed` | violation: a crash leaves the process in progress for good | |
| `job_reliable` | with events at worst repeated: is any accepted job or outcome forgotten, is the life cycle implemented? | 334 k |
| `job_faulty` | with every fault: does a job run twice, is an outcome false, a final status undone, a job orphaned? | 132 k |
| `bridge` | with every fault: is anybody told who should not be, is anybody forgotten, do deletions reach their audience? | 844 k |
| `sharing` | with three interleaved requests: unsanctioned scopes, lying listings, policies that differ, a deletion or a job of another row than the one that was checked? | 430 k |
| `items` | for each provider and both routes, while the source changes: do the links lead to every item once, does the page honour the query, does the text of an identifier lead to its item, does the walk end? | 478 k |
| `collections` | with creations, imports, edits, deletions and requests over one cache: is a collection left without a storage CRS, is a given value overwritten, is anybody served from another configuration, do the listings agree with the lookups? | 583 k |
| `accounts` | while keys rotate and accounts come and go: does a request act for an account that is gone or somebody else's, is a key honoured long after its withdrawal, or one refused long after its publication? | 2.8 M |
| `broker` | with persistent sessions, takeovers and expiry: does a message reach who is not entitled to it, does an expired connection stay? | 1.2 M |
| `database` | with two commands and two sessions: is the schema that of its revision, is a healthy server's schema the mapped one, is there ever one more row of metadata, is an edit undone? | 168 k |

Every property of a passing run has a mutant in `PROJECT.json`: a plausible
mistake in one mapped definition, kept beside it and marked `MUTANT`, with
which the property fails under the same configuration.

**Bounds.** Two workers are enough for every race of the protocols: a claim is
between two. Two definitions and up to four writes give a change during a
deployment, one back to the former definition, and a deletion followed by a
second creation; in `job_faulty` two process rows do the same, and one job is
enough, for jobs meet only in their process and in the workers they keep busy,
as `job_reliable` has it with two. Two faults (three in `job_faulty`) allow a
fault during the recovery from another. In `bridge` one bridge, one
deleter and two users, one of them without an addressable id, with four changes, give a
change between any two reads, for the bridge's resolution and the deleter's at
once. In `sharing` three requests among two users, one collection, one process and
one job give every pair of racing writers with a third request between;
`Assignable`, the lists an administrator may write, is a small menu. In
`deploy_crashed` the bounds are the smallest that show the violation.

In `items` three tables of up to four rows and limits from one to four against
a page size of at most three, or one where the collection says so, give walks of
one to four pages, over sources with dates and one without, with identifiers of every type, with limits below, at and above what is allowed, and one change
between any two reads; a second change adds
nothing that the properties tell apart. In `collections` a cache of one entry is
always full, two clients with three requests give a creation with an edit, a
deletion or a second creation between any two of its questions and commits, and the data source
changes once, to another system and other columns, and may be down. In `accounts` two clients are two
requests with a fetch each; the two subjects derive the same user name, the
first has tokens with and without a role, the second short-lived ones with a role that is no scope or with none; two keys are one
rotation, the first subject's tokens name theirs and the second's do not, and a clock
of three, with a time to live of two and fetches that take one at most, passes the expiry
of the cache; three requests and edits with OpenID Connect, four with passwords, whose
tokens need an account that an edit created, let one change come between any two steps of
the requests (`MaxActs`). In `broker` two client ids and three users, one with an id that is no
topic level, reconnect four times; the clock passes two rounds of the expiry
task and several lifetimes of a token. In `database` the targets are the empty database,
the one with the tables but no users, the one after the downgrade that fails, and the newest;
`Scenarios` keeps migrations and edits of the metadata apart, for the states of both
at once are too many, while servers start in both.
`CHECK_DEADLOCK FALSE` in all runs but `database`: the models stop when writes, requests or
faults run out, and the system idles when there is nothing to do.

**Fairness.** `PublishProcessEvent`, `PublishJobCreated`: after the commit the wrapper's
coroutine goes on to publish. `WorkerStep`, `BridgeStep`: a live worker's event
loop goes on with its handler, and its subscription hands it the next event. It
is weak and per worker. `ItemPaging`: the client goes on to follow links and the
server to answer (`Request`), since a walk that is abandoned ends by itself; the
changes of the source are under none. Clients, administrators, operators and faults are under no
fairness. The other modules have none: their properties are safety. That an
expired client is disconnected (`ExpiredAreDisconnected`) is stated with the
clock: within one interval of the expiry, and one more for each disconnection
that raised.

## What does not hold

Promises of documents or comments that the code breaks. `deploy_crashed` is a run;
the other seven configurations are kept beside the runs, for TLC to show the
counterexample with `tlc -config <name>.cfg MC<module>`
(`MCProcessDeployment`, `MCEventBridge`, `MCSharing`, `MCAccounts`, `MCCatalogue`).  Paths are relative to
`src/src/potto/`, some to `managers/postgis/` there.

| Configuration | Property | What the code does | What is said of it |
|---|---|---|---|
| `deploy_crashed` | `NotLeftInProgress` | a worker that dies between its claim and the record leaves the status in progress, and every later event ends in `DeploymentAlreadyInProgressError` (`wrapper.py:412`) | `eventhandlers/processes.py:151`: "whoever is deploying the process publishes an event when done, which triggers reconciling it again" |
| `deploy_recreated` | `OnlyClaimantRecords` | the row is looked up again by its identifier before the outcome is recorded, and only status and hash are compared: the outcome of a deleted row's deployment is recorded on the row created anew (`operations/processes.py:139`) | `wrapper.py:422`: "only the deployment that claimed the process gets to record its outcome" |
| `bridge_role_change` | `VisibleThroughoutTold` | editors and viewers are read by two calls; a viewer who is made an editor in between is in neither (`pubsub/audience.py:32`) | `docs/pubsub.md:74`: "A private process you can see is modified" |
| `sharing_owner` | `OwnerChangedByOwner` | an editor's form always sends the owner it was opened with, and so undoes a transfer of ownership (`operations/processes.py:183`, `admin/processes.py:395`) | ADR 0004, line 49: "Only the owner or an admin may change a resource's owner" |
| `sharing_reused` | `PrivateMeansShared` | a deletion removes no scopes; the identifier is used again and the old scopes apply to its new resource (`db/commands/processes.py:238`) | ADR 0004, line 39: "A private resource is visible and actionable only by its owner, by admins and by users it has been shared with" |
| `sharing_revoked` | `RevokedStaysRevoked` | scopes are read, changed and written back as a whole; a concurrent grant elsewhere restores a scope that was revoked (`operations/users.py:371`) | `managers/processes.py:146`: "Revoke a user's access to a process." |
| `accounts_rotation` | `RotationTurnsDownNone` | the cache is assigned (`authn/oidc.py:73`) and returned (`:75`) on two sides of an await; an older answer stored in between is read, and a token whose key is published is refused by the retry, too | `authn/oidc.py:82`: "Possible key rotation – clear cache and retry once" |
| `collections_moved` | `BoxesLabelled` | the box of a postgis collection is labelled with the system cached at reflection (`providers/features/_postgis.py:182`, `:346`), its numbers are those of the rows there are now | no document speaks of it; readers take the numbers to be in the system named |

## Proofs

`tlapm` checks the following for every value of the constants that satisfies
the named assumptions of the modules, thus for any number of workers, users,
jobs, definitions, requests and faults.

**ProcessDeploymentProofs.** `TypeCorrect`. `Truthful` (`TruthfulStatus`): the
invariant adds that a worker on its way to record "deployed" saw the definition
it re-read after its claim succeed; that copy, not the row's present definition,
gives the hash it records. `Exclusive`
(`ExclusiveDeployment`): while the identifier has had one row, whoever holds the
claim finds the row in progress, so that a second claim's condition fails.
`ReconcilerSafety`: the workers, with whatever faults, implement the safety half of
`DeploymentReconciler`; a status
changes only by a claim of a row that is not in progress, or by recording an outcome
on one that is, whatever the definition has become meanwhile.
`NoLostWakeup` (`WokenOrClaimed`) assumes that faults are at worst duplicates;
the property is inductive given the types, since a worker ignores an event only
while a claimant is able to record and to publish, and
`QuietMeansConverged` (`ConvergedWhenQuiet`) is its corollary.

**JobExecutionProofs.** `TypeCorrect`. `AtMostOneRun` (`RunsAtMostOnce`)
assumes that nobody sets a job back to accepted: the inductive invariant says
that a job is accepted and was never run, or was claimed by one worker that has
not run it yet, or has been run or given up. `OutcomeTrue` (`OutcomeIsOfRun`) adds
what each worker on its way to record knows. `LifecycleSafety`: every step is one of
`JobLifecycle` or leaves the statuses alone; `FinalKept` (`FinalStatusKept`)
follows from the same case analysis. `JobsBelongToProcess` (`JobsBelong`) and
`AcceptedAwaited` (`AcceptedIsAwaited`, faults at worst duplicates).
`OutcomesAnnounced` (`OutcomeAnnounced`) assumes that clients set no status but
"dismissed" and that faults are at worst duplicates, since a crash between recording
and publishing does lose the announcement. A worker announces when the job differs
from what it saw last, and whoever claims a job had seen it accepted (`SeenInv`), a
status no job returns to: the comparison never hides an outcome.

**EventBridgeProofs.** `TypeCorrect`, `OnlyEntitled` (`OnlyEntitledTold`) and
`NobodyForgotten` (`SteadyUsersTold`) from one invariant, `AudienceInv`: at every
stage of a resolution the users collected so far lie between those who held their
role throughout and those who were entitled at some moment; the same holds of the
audience and witness inside every queued deletion.

**SharingProofs.** `TypeCorrect`. `ScopesGranted` (`ScopesWereGranted`) from
`GrantInv`: it holds of the copies of scopes that requests carry, too, and every row
found for editing is one the actor's copy may edit, so that writing a stale list
back never invents a scope. `ActsOnChecked` (`ActsOnWhatWasChecked`) from
`EntitledRequests`: a request about to delete, or to create a job, carries the row it was
allowed to act on, and a row found by its primary key is that row, for keys are given
out once. `ListingsTruthful` follows from the
types of the rows; it takes the reader's kind by cases, for the manager has
a query of its own for each, the system principal included. `PolicyIsMirrored` holds
in every state, since both policies are functions of the same facts.

**PublicBrokerProofs.** `TypeCorrect`. `DeliveriesEntitled`
(`DeliversOnlyToEntitled`) from `ClientInv`: what a session holds, its subscriptions
and the messages kept while it is away, lies within the namespaces of its owner, who
alone may take it up (`Held`), and a connection that acts as a client still has the
subject and the expiry it presented (`SignedOn`), whatever connection attempts
were refused in between. `ExpiredDisconnected` (`ExpiredAreDisconnected`) from
`RoundInv`: the task wakes within an interval; a connection that the round has dealt
with, or that none is looking at, expires late enough for the next one (`Deadline`,
an interval more for every disconnection that raised), and one the round has yet to
look at is at most a round late. The assumptions are those of
`PublicBroker`: no account is named as a role is, and ids that are wildcards
are refused.

**AccountsProofs.** Two action properties. `AccountActedFor` (`ActsForItsAccount`)
from the shape of a request at each of its awaits (`ShapeInv`): it carries the token
or the session, and the step that answers reads the account itself, so that whatever
the administrator and other requests do in between is seen. `KeysFollowed`
(`KeysFollowProvider`) from `KeyInv`: what the cache or an answer on its way holds was
the provider's key set at some moment since the one it is dated with, whatever was withdrawn since
(`Dated`, `Answers`), and a key withdrawn is published no more; what a request reads
after it stored an answer is its own or one asked for at most a fetch earlier (`Readable`).
Hence a key is refused for two fetches at most after its publication, and honoured for the
time to live after its withdrawal. It assumes that two fetches take
no longer than the time to live (`TimesAssumption`): `httpx` gives up after seconds,
the cache lives for an hour.

**CatalogueProofs.** One invariant, `CatalogueInv`, gives `TypeCorrect`, `CrsKnown`
(`StorageCrsKnown`), `CreationKeeps` (`CreationKeepsWhatWasGiven`) and
`Served` (`ServedFromItsConfiguration`). Of the table: keys grow and identifiers are
unique (`TableOK`), so that a key names one row. Of each request: the provider it
uses, and the one it answered from, is of the row it read (`Uses`); what it was told so
far is what the row leaves open, and an answer that provider can give (`Finds`); a row being
created is in one request's hands, at a step of creation (`Creates`); while that
request has a storage CRS in hand the stored row has one (`Pending`), so that it
does not skip the default in vain; and what it holds of a row nobody edited is the stored
row, made of what was given (`Keeps`). Of the cache: one entry of each key, with
a provider built for that key, within the bound (`CacheOK`). `ClientActs` is the
case of all clients: who writes a row takes no storage CRS away, and marks
what is not its own as edited (`RowsStep`), which leaves everybody else's facts
true (`OthersStay`). `QueryablesInSchema` goes through the five kinds of provider.

`ListingsServe` (`ListingsServeWhatMayBeViewed`) needs `TableOK` only: the where
clause of each kind of reader keeps the rows that reader may view (`WhereClauses`),
a statement with OFFSET and LIMIT serves the same pages as a slice in Python
(`PostgisListing`, `ConfigListing`), and the pages of a sequence, of whatever size,
put together are the sequence, each but the last full (`SequenceInPages`).

The same module has the walk through items, `ItemsResolve` (`ListedItemsResolve`, by
`TextsName` and `TextsLead`: texts of two identifiers of a type differ, and what a
provider makes of a text is the identifier it was written for),
`PagesHonourQuery` (`PageHonoursQuery`), `PagesFollow` (`PagesDoNotOverlap`) and
`LinksMissNothing` (`NothingSkipped`), for both rest on the lemmas about `Select`
and `Slice`. Those go by induction over the length of the sequence, as the existence
of a least counterexample (`Counting`, `SequenceInduction`): `SelectPlaces` gives
every element of a selection its place in the source, in order; from it follow that
appending to the source appends to the selection, and that a source without repeated
identifiers has a selection without them. The walk has three invariants. `WalkingOK`:
the filter of a request is that of the query with the offset of a link, and the page
and the context are those of an answer to it. `ForwardOK`: while nothing was taken out
or moved, the matches extend those of the beginning, and what was received is the
matches up to the offset of the request; the two premises on pygeoapi are what make the
page as long as the link's step and the count that of the matches. `BackOK`: going back
over an unchanged source, everything from the offset on has been received again.
`MaxEdits` is any bound: TLC checked the invariants with two changes of the source.

**ServerMetadataProofs.** `TypeCorrect`. `SchemaFollows` (`SchemaIsItsRevisions`)
from `SchemaInv`: a transaction's schema is that of the revision it has reached, for
each step of a command applies one script to a schema that the script fits, and all
scripts up to there have fitted (`Fitted`), which is why undoing one gives back
what was there before it. `HealthyMapped` (`HealthyIsMapped`) adds that the
sixteen scripts together make what the classes map (`NewestIsMapped`, by computing
each). `RowSettled` (`SettledStays`) and `UrlSurvives` (`UnnamedUrlSurvives`) are
action properties of the metadata: a session about to
create the row is the only way to another one, and an update on its way sets the URL
its command named, or none (`EditsCarried`).

Every inductive invariant was checked by TLC on its run's instance before it was proved.

Only model-checked is liveness, as it needs fairness and ENABLED: `Converges`,
`DeletionReachesAudience`, `WalkEnds`, and the progress that `ImplementsReconciler`
and `ImplementsLifecycle` state beside the safety proved of them.

## What is not modelled

- The brokers' engines (mosquitto, amqtt) and FastStream: external; what matters of them (at least once,
  shared subscriptions, persistent sessions) is in the actions of the models.
- The cascade from a deleted account to what it owned: one DELETE of the
  database, to which no code reacts.
- The OPA server's HTTP interface, the discovery document of OpenID Connect,
  state and nonce of its login, password hashing.
- CQL2 and property filters, the text of SQL, and geometry: a box is a set of
  places for each reference system.
- Filters and paging of the listings of processes and jobs.
- Conversions to and from pygeoapi's configuration; rendering, forms, OpenAPI and
  AsyncAPI documents, settings, command line parsing: no state that several
  actors share.
- The execution of deployed processes: both implementations raise
  `NotImplementedError` at this commit.

## Seen while reading, without a run

Where code and documents differ, or where the code surprises. The models follow
the code in all of them; properties are stated so that they hold beside them.

Processes, jobs, events, sharing:

- A worker that dies while it runs a job leaves the job running
  (`managers/postgis/manager.py:640`); `docs/decisions/0016`, line 56, says that
  long-running operations can be "retried and restarted independently". It is
  the phenomenon of `deploy_crashed` again.
- A created event that is lost leaves its job accepted (`wrapper.py:538`), and a
  job may be accepted for a process whose deployment is withdrawn meanwhile.
- The reference Rego policy has no rule for `can_edit_server_metadata`, so that
  it is undefined, hence denied, for administrators too; its header says that it
  mirrors the local backend. `can_create_user` differs by design (ADR 0006).
- `webapp/api/routers/collections.py:252-300` says of granting and revoking that
  only the owner may; editors may as well.
- `docs/pubsub.md` announces job events for the submitter only;
  `resolve_job_audience` includes those the job and its process are shared with.
  It also calls deployed events planned, while the bridge publishes them.
- The audience of a deletion is resolved before the deletion: a process made
  private in between is announced on the public topic.
- A converged process may be deployed once more by a worker that decided on an
  older read (`eventhandlers/processes.py:144`); harmless to what is recorded.
- The user form of the admin interface drops an empty list of scopes
  (`managers/postgis/admin/users.py:160`), so that the last scope cannot be
  taken away there; the schema of its update has no user name, so that a rename
  is dropped too.

Items (`wrapper.py`, `providers/features/`); the premises `LinksCarryQuery`,
`FullPages` and `CountsItsMatches` of `NothingSkipped` are these:

- `list_collection_items` clamps the limit for the links only and hands the
  filter's own to the provider; a filter always carries a limit, so that a
  collection's custom page size has no effect.
- pygeoapi's own limit of 50 is below the default `page_size_max` of 100: with
  limits in between, the links skip items. Its count ignores `bbox-crs`.
- The HTML route ignores dates, takes the first four of six numbers of a box,
  and its links drop the box, the reference systems and the filter.
- pyogrio reads a box in the system of its source; only collection-config and
  pygeoapi look at dates; only collection-config's features set `Content-Crs`.
- duckdb's listing gives the length of the page as its total; duckdb and postgis list
  without ORDER BY, so that an updated row may move between pages.
- A malformed identifier is an error 500 with duckdb and postgis, and 404 with
  the others. With postgis no item of a table whose key is a date or a timestamp can be
  fetched, for their types are called with a text and raise, which is the premise of
  `ListedItemsResolve`; a boolean key is read by `bool`, true for every text.
- `GET /collections` has no parameter for a page.

Collections:

- Enrichment and the default CRS overwrite what a concurrent editor sets
  between the commits of a creation; a row deleted meanwhile makes the creation
  fail with `StaleDataError`; a restart in between leaves the storage CRS unset for good.
- `commands.create_collection` drops the additional extents it is given.
- A cached provider keeps the collection it was built from, with its title and
  page sizes; the key is name and configuration only. Columns and extents of
  duckdb and the reflected table of postgis are cached for the provider's life,
  across deletion and recreation of the collection. The box of a postgis collection is
  labelled from that table (`_postgis.py:346`), which `collections_moved` shows.
- Extents in a local system are stored in a column of SRID 4326, so that a
  search by area misses them.
- The configuration file manager's filter by identifiers wants them exact, the
  postgis manager's looks for the first as a part.
- The API trusts the `owner_id` in the body of a creation.

Accounts:

- A role in an OpenID Connect claim that is not a scope of potto makes
  provisioning raise (500), although `extract_scopes` is said to "Extract potto
  scopes". The second of two concurrent provisionings fails on the unique id; a
  second subject with the same derived user name can never be provisioned.
- Deleting a provisioned account does not lock it out: its next request provisions it again.
- A fetch whose cache another request clears before it is returned (`authn/oidc.py:73-75`,
  `:83`) hands None to `_match_key`, which raises a TypeError that nothing turns into a 401.
- A token without a kid is checked against the first key the provider lists, so that
  during a rotation good ones are refused when that is not theirs.
- A JWT outlives a change of the password; an error while fetching keys escapes
  `authenticate`; the nonce of a login is stored and not compared.
- The deletion of a user, with all that cascades, publishes no event;
  `docs/pubsub.md:72` announces one for every deleted process.

Public broker:

- A refused attempt to use a persistent session that is connected clears the role and
  expiry of that session; the connection stays, receives nothing, and is not
  disconnected when its token expires. Whether the broker lets it stay depends on amqtt.
- `_claim_session` tells identities apart by one string, so that an account
  whose id is "anonymous" or "publisher" would share sessions with those;
  `UsersAssumption` excludes it.

Server metadata and migrations:

- Two first readers create a row each, and `.first()` without ORDER BY reads
  either from then on; `admin/metadata.py` says that "The server can only have a
  single ServerMetadata instance". `SettledStays` starts after that.
- `potto metadata update` always writes title and description as it read them,
  and resets the keywords when none are given, although it is said to "Merge a
  flat, CLI-friendly update onto existing metadata's nested shape". A license URL
  without an existing license fails its validation.
- The downgrade of `be887326a68c` drops a constraint without a name and always
  raises: once past it, there is no way down. `be887326a68c` and `7c905bcd0d6e`
  add columns that may not be null, without a default, and fail when there are collections;
  the downgrade of `5a1f26b97088` fails on user ids that are no UUIDs.
