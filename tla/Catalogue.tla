------------------------------ MODULE Catalogue ------------------------------
(***************************************************************************)
(* The catalogue of collections of one server process on the postgis       *)
(* manager: clients create, import, edit, delete and serve collections,    *)
(* each commit a step of its own, over a cache of feature providers that   *)
(* they share.                                                             *)
(*                                                                         *)
(* Creation commits the row first.  It then looks the provider up, asks it *)
(* in turn for the storage CRS, the box and the dates the row leaves open, *)
(* commits the answers, and at last commits CRS84 when there is still no   *)
(* storage CRS.  Only the factory of duckdb gives way to other tasks: its  *)
(* connection is opened in a thread and put in the cache when the event    *)
(* loop comes back to it.                                                  *)
(*                                                                         *)
(* A provider holds on to what it was built from: duckdb to the columns    *)
(* and, once asked, the box and the dates; postgis to the table it         *)
(* reflected when it was first asked anything.                             *)
(***************************************************************************)
EXTENDS CollectionListing

CONSTANTS
  Clients,
  ActsAs,         \* [client -> principal]
  Asks,           \* [client -> the purposes it has]
  Configs,        \* configurations of providers
  Drafts,         \* what creators give: visibility, storage CRS and extent
  ContentOf,      \* sequence of contents of the one data source
  Tables,         \* tables the process may start on
  CacheSize,      \* settings.feature_provider_cache_size
  MaxRows,        \* bound on the rows ever inserted
  MaxRequests,    \* bound on the requests of all clients
  MaxRestarts     \* bound on the restarts of the process

NoProvider == [kind |-> "none", declared |-> "unset", dated |-> FALSE]
Settings == Configs \cup {NoProvider}
PygeoapiSettings == {g \in Configs : g.kind = "pygeoapi"}
Versions == 1 .. Len(ContentOf)
Unread == 0
TableRows ==
  [pk : 1..MaxRows, name : Collections, owner : Users, public : BOOLEAN,
   config : Settings, storage : Systems \cup {None}, extent : Extents,
   dates : BOOLEAN]

ASSUME ConfigsAssumption ==
  Configs \subseteq [kind : Kinds, declared : Systems \cup {"unset"}, dated : BOOLEAN]
ASSUME ContentsAssumption ==
  /\ Len(ContentOf) \in Nat \ {0}
  /\ \A v \in Versions : ContentOf[v] \in Contents(DOMAIN ContentOf[v].columns)
\* A box is given with the system its numbers are in.
ASSUME DraftsAssumption ==
  Drafts \subseteq [public : BOOLEAN, storage : Systems \cup {None},
                    extent : {NoExtent} \cup {In(system) : system \in Systems}]
\* A process starts on collections that were created before it.
ASSUME TablesAssumption ==
  \A t \in Tables :
    /\ t \in Seq(TableRows) /\ Len(t) <= MaxRows
    /\ \A i \in DOMAIN t : t[i].pk = i /\ t[i].storage # None
    /\ \A i, j \in DOMAIN t : t[i].name = t[j].name => i = j
ASSUME ClientsAssumption ==
  /\ ActsAs \in [Clients -> Principals]
  /\ Asks \in [Clients -> SUBSET {"create", "serve", "update", "delete", "import"}]
ASSUME BoundsAssumption ==
  /\ CacheSize \in Nat /\ MaxRows \in Nat \ {0}
  /\ MaxRequests \in Nat /\ MaxRestarts \in Nat

VARIABLES
  table,      \* the rows, in the order of their creation
  inserted,   \* rows inserted so far: the sequence of the primary key
  source,     \* the data source: whether it answers, and its content
  providers,  \* every provider built, in the order it was built
  cache,      \* keys and providers, the oldest first
  client,     \* the request each client has under way, or its last one
  requests,   \* requests made so far
  restarts,   \* restarts so far
  edited,     \* rows somebody else changed
  cutOff      \* rows whose creation a restart cut off

vars == <<table, inserted, source, providers, cache, client, requests,
          restarts, edited, cutOff>>

Provider == [name : Collections, config : Configs, columns : Versions \cup {Unread},
             box : Versions \cup {Unread}, dates : Versions \cup {Unread}]
Steps == {"idle", "lookup", "probing", "probed", "ready", "reflected", "extent",
          "dates", "found", "default", "editing", "deleting", "overwriting"}
Purposes == {"none", "create", "serve", "update", "delete", "import"}
Results == {"none", "ok", "missing", "refused", "failed"}
\* What a provider has answered to a creation so far: update_kwargs.
UpdateKwargs == [storage : Systems \cup {None}, extent : Extents, dates : BOOLEAN]
NothingFound == [storage |-> None, extent |-> NoExtent, dates |-> FALSE]
Request(purpose, step, result, row, asked) ==
  [step |-> step, purpose |-> purpose, result |-> result, row |-> row,
   asked |-> asked, uses |-> 0, probe |-> Unread, found |-> NothingFound,
   answer |-> {}]
Idle == Request("none", "idle", "none", {}, {})

TypeOK ==
  /\ table \in Seq(TableRows) /\ inserted \in 0..MaxRows
  /\ \A i, j \in DOMAIN table : i < j =>
       table[i].pk < table[j].pk /\ table[i].name # table[j].name
  /\ source \in [up : BOOLEAN, version : Versions]
  /\ providers \in Seq(Provider)
  /\ cache \in Seq([name : Collections, config : Configs, uses : DOMAIN providers])
  /\ \A c \in Clients :
       /\ client[c].step \in Steps /\ client[c].purpose \in Purposes
       /\ client[c].result \in Results
       /\ client[c].row \subseteq TableRows /\ client[c].asked \subseteq TableRows
       /\ Cardinality(client[c].row) <= 1
       /\ client[c].uses \in {0} \cup DOMAIN providers
       /\ client[c].probe \in Versions \cup {Unread} /\ client[c].found \in UpdateKwargs
  /\ requests \in 0..MaxRequests /\ restarts \in 0..MaxRestarts
  /\ edited \subseteq 1..MaxRows /\ cutOff \subseteq 1..MaxRows

-----------------------------------------------------------------------------
(* The table and the requests *)

Init ==
  /\ table \in Tables /\ inserted = Len(table)
  /\ source \in [up : BOOLEAN, version : {1}]
  /\ providers = <<>> /\ cache = <<>>
  /\ client = [c \in Clients |-> Idle]
  /\ requests = 0 /\ restarts = 0
  /\ edited = {} /\ cutOff = {}

Row(c) == CHOOSE r \in client[c].row : TRUE
Stored(pk) == CHOOSE r \in GetByKey(table, pk) : TRUE
IsStored(pk) == GetByKey(table, pk) # {}
Replace(row) == [i \in DOMAIN table |-> IF table[i].pk = row.pk THEN row ELSE table[i]]

CanBegin(c, purpose) ==
  client[c].step = "idle" /\ requests < MaxRequests /\ purpose \in Asks[c]
Becomes(c, request) == client' = [client EXCEPT ![c] = request]
Begin(c, purpose, step, row) ==
  /\ requests' = requests + 1
  /\ Becomes(c, Request(purpose, step, "none", row, {}))
Fail(c, purpose, result) ==
  /\ requests' = requests + 1
  /\ Becomes(c, Request(purpose, "idle", result, {}, {}))
Goes(c, step) == Becomes(c, [client[c] EXCEPT !.step = step])
\* A request that ends keeps its outcome; a creation, or an answer, its row too.
End(c, result) == Becomes(c, Request(client[c].purpose, "idle", result, {}, {}))

\* commands.create_collection: one row, its identifier unique.
Insert(c, row, purpose) ==
  IF GetByResourceIdentifier(table, row.name) # {}
    THEN /\ Fail(c, purpose, "refused")
         /\ UNCHANGED <<table, inserted>>
    ELSE /\ inserted < MaxRows
         /\ table' = Append(table, row)
         /\ inserted' = inserted + 1
         /\ requests' = requests + 1
         /\ Becomes(c, Request(purpose,
              IF row.config = NoProvider THEN "default" ELSE "lookup", "none", {row}, {row}))

\* commands.update_collection on the object a session holds: the columns that
\* were set are written to its row, and None stands for CRS84 in the storage
\* CRS.  Without a row the flush raises.
UpdateCollection(row, storage) ==
  [row EXCEPT !.storage = IF storage = None THEN "CRS84" ELSE storage]

-----------------------------------------------------------------------------
(* Creation and import *)

Create(c) ==
  /\ CanBegin(c, "create") /\ CanCreate(ActsAs[c])
  /\ \E name \in Collections, config \in Settings, draft \in Drafts,
        owner \in {ActsAs[c].id} \cap Users :
       Insert(c, [pk |-> inserted + 1, name |-> name, owner |-> owner,
                  public |-> draft.public, config |-> config,
                  storage |-> draft.storage, extent |-> draft.extent,
                  dates |-> FALSE], "create")
  /\ UNCHANGED <<source, providers, cache, restarts, edited, cutOff>>

\* Of a resource without a box the reference systems are not read either, and
\* one with a box need not have a provider that names its storage CRS.
Imported == {[storage |-> None, extent |-> NoExtent],
             [storage |-> None, extent |-> In("CRS84")],
             [storage |-> "local", extent |-> In("CRS84")]}

\* import_pygeoapi_collection: a new row by the way of creation, or, when told
\* to overwrite, an update of the row it read.
Import(c) ==
  /\ CanBegin(c, "import") /\ CanCreate(ActsAs[c])
  /\ \E name \in Collections, overwrite \in BOOLEAN, config \in PygeoapiSettings,
        owner \in {ActsAs[c].id} \cap Users :
       LET existing == GetByResourceIdentifier(table, name) IN
       \/ /\ existing = {}
          /\ \E got \in Imported :
               Insert(c, [pk |-> inserted + 1, name |-> name, owner |-> owner,
                          public |-> FALSE, config |-> config, storage |-> got.storage,
                          extent |-> got.extent, dates |-> FALSE], "import")
       \/ /\ existing # {}
          /\ IF overwrite /\ \A r \in existing : MayEdit(ActsAs[c], r)
               THEN Begin(c, "import", "overwriting", existing)
               ELSE Fail(c, "import", "refused")
          /\ UNCHANGED <<table, inserted>>
  /\ UNCHANGED <<source, providers, cache, restarts, edited, cutOff>>

Overwrite(c) ==
  /\ client[c].step = "overwriting"
  /\ IF IsStored(Row(c).pk)
       THEN /\ \E config \in PygeoapiSettings, got \in Imported :
                 table' = Replace([UpdateCollection(Stored(Row(c).pk), got.storage)
                   EXCEPT !.config = config, !.dates = FALSE, !.extent = got.extent])
            /\ edited' = edited \cup {Row(c).pk}
            /\ End(c, "ok")
       ELSE /\ End(c, "failed")
            /\ UNCHANGED <<table, edited>>
  /\ UNCHANGED <<inserted, source, providers, cache, requests, restarts, cutOff>>

-----------------------------------------------------------------------------
(* get_feature_provider *)

\* MUTANT: collections with the same provider share an entry.
CacheKeyOfName(name, config) == <<name, NoProvider>>

CacheKey(name, config) == <<name, config>>

Cached(name, config) ==
  {i \in DOMAIN cache : CacheKey(cache[i].name, cache[i].config) = CacheKey(name, config)}

\* The oldest entry goes when the cache is full, and an entry of the same key
\* keeps its place and changes its provider.
Remember(name, config, uses) ==
  LET entry == [name |-> name, config |-> config, uses |-> uses]
      room == IF Len(cache) >= CacheSize THEN Tail(cache) ELSE cache
      same == {i \in DOMAIN room :
                 CacheKey(room[i].name, room[i].config) = CacheKey(name, config)}
  IN IF CacheSize = 0 THEN cache
     ELSE IF same = {} THEN Append(room, entry)
     ELSE [i \in DOMAIN room |-> IF i \in same THEN entry ELSE room[i]]

NewProvider(c, columns) ==
  LET r == Row(c) IN
  /\ providers' = Append(providers, [name |-> r.name, config |-> r.config,
                                     columns |-> columns, box |-> Unread,
                                     dates |-> Unread])
  /\ cache' = Remember(r.name, r.config, Len(providers) + 1)
  /\ Becomes(c, [client[c] EXCEPT !.step = "ready", !.uses = Len(providers) + 1,
                                  !.probe = Unread])

\* Creation goes on without the provider; a request fails.
Unavailable(c) ==
  IF client[c].purpose = "serve" THEN End(c, "failed")
  ELSE Goes(c, "default")

LookUp(c) ==
  /\ client[c].step = "lookup"
  /\ LET hits == Cached(Row(c).name, Row(c).config) IN
     \/ /\ hits # {}
        /\ \E i \in hits :
             Becomes(c, [client[c] EXCEPT !.step = "ready", !.uses = cache[i].uses])
        /\ UNCHANGED <<providers, cache>>
     \/ /\ hits = {} /\ Row(c).config.kind # "duckdb"
        /\ NewProvider(c, Unread)
     \/ /\ hits = {} /\ Row(c).config.kind = "duckdb"
        /\ Goes(c, "probing")
        /\ UNCHANGED <<providers, cache>>
  /\ UNCHANGED <<table, inserted, source, requests, restarts, edited, cutOff>>

\* The thread of the duckdb factory, which probes the columns of the source.
Probe(c) ==
  /\ client[c].step = "probing"
  /\ IF BuildRaises(Row(c).config, source.up, ContentOf[source.version])
       THEN Unavailable(c)
       ELSE Becomes(c, [client[c] EXCEPT !.step = "probed", !.probe = source.version])
  /\ UNCHANGED <<table, inserted, source, providers, cache, requests, restarts,
                 edited, cutOff>>

KeepBuilt(c) ==
  /\ client[c].step = "probed"
  /\ NewProvider(c, client[c].probe)
  /\ UNCHANGED <<table, inserted, source, requests, restarts, edited, cutOff>>

-----------------------------------------------------------------------------
(* What a provider in use knows of its source *)

\* postgis keeps to the table it reflected, duckdb to what it probed.
ColumnsSeen(p) ==
  IF p.config.kind \in {"duckdb", "postgis"} /\ p.columns # Unread
    THEN p.columns ELSE source.version
\* duckdb keeps the box and the dates it was first asked for.
BoxSeen(p) == IF p.config.kind = "duckdb" /\ p.box # Unread THEN p.box ELSE source.version
DatesSeen(p) ==
  IF p.config.kind = "duckdb" /\ p.dates # Unread THEN p.dates ELSE source.version
WithBox(p) ==
  IF p.config.kind = "duckdb" /\ ContentOf[source.version].rows
    THEN [p EXCEPT !.box = BoxSeen(p)] ELSE p
WithDates(p) ==
  IF p.config.kind = "duckdb" /\ p.config.dated /\ ContentOf[source.version].rows
    THEN [p EXCEPT !.dates = DatesSeen(p)] ELSE p

\* The questions that need the source raise without it.  The schema of duckdb
\* looks at the geometries, its queryables do not.
ColumnsRaise(p, question) ==
  CASE p.config.kind \in {"pyogrio", "pygeoapi"} -> ~source.up
    [] p.config.kind = "duckdb" -> question = "schema" /\ ~source.up
    [] OTHER -> FALSE
CrsRaises(p) == p.config.kind = "pyogrio" /\ ~source.up
ExtentRaises(p) ==
  CASE p.config.kind = "duckdb"               -> p.box = Unread /\ ~source.up
    [] p.config.kind \in {"pyogrio", "postgis"} -> ~source.up
    [] OTHER                                  -> FALSE
DatesRaise(p) ==
  p.config.kind = "duckdb" /\ p.config.dated /\ p.dates = Unread /\ ~source.up

-----------------------------------------------------------------------------
(* _ensure_reflected: postgis reflects its table before the first question *)
(* that needs it.  Two clients may both be at it; the one that comes back  *)
(* later has its table kept.                                               *)

\* MUTANT: the provider has the last word on the storage CRS.
LacksStorageAlways(row) ==
  [storage |-> TRUE, extent |-> row.extent = NoExtent, dates |-> ~row.dates]

\* What it asks is what the object of its session leaves open.
Lacks(row) == [storage |-> row.storage = None, extent |-> row.extent = NoExtent,
               dates |-> ~row.dates]

InUse(c) == providers[client[c].uses]
Unreflected(c) ==
  /\ InUse(c).config.kind = "postgis" /\ InUse(c).columns = Unread
  /\ \/ client[c].purpose = "serve"
     \/ Lacks(Row(c)).storage \/ Lacks(Row(c)).extent

ReadTable(c) ==
  /\ client[c].step = "ready" /\ Unreflected(c)
  /\ IF ReflectRaises(source.up, ContentOf[source.version])
       THEN Unavailable(c)
       ELSE Becomes(c, [client[c] EXCEPT !.step = "reflected", !.probe = source.version])
  /\ UNCHANGED <<table, inserted, source, providers, cache, requests, restarts,
                 edited, cutOff>>

KeepTable(c) ==
  /\ client[c].step = "reflected"
  /\ providers' = [providers EXCEPT ![client[c].uses] =
                     [InUse(c) EXCEPT !.columns = client[c].probe]]
  /\ Becomes(c, [client[c] EXCEPT !.step = "ready", !.probe = Unread])
  /\ UNCHANGED <<table, inserted, source, cache, requests, restarts, edited, cutOff>>

-----------------------------------------------------------------------------
(* _enrich_from_provider, an await for each question and one for the       *)
(* commit, and the default storage CRS                                     *)

\* One question that raises, and the answers to the others are dropped.
GivesUp(c) ==
  Becomes(c, [client[c] EXCEPT !.step = "default", !.found = NothingFound])

AskStorage(c) ==
  LET p == InUse(c)
      asks == Lacks(Row(c)).storage
  IN
  /\ client[c].step = "ready" /\ client[c].purpose \in {"create", "import"}
  /\ ~Unreflected(c)
  /\ IF asks /\ CrsRaises(p) THEN GivesUp(c)
     ELSE Becomes(c, [client[c] EXCEPT !.step = "extent",
            !.found = [NothingFound EXCEPT !.storage =
              IF asks THEN StorageCrs(p.config, ContentOf[ColumnsSeen(p)]) ELSE None]])
  /\ UNCHANGED <<table, inserted, source, providers, cache, requests, restarts,
                 edited, cutOff>>

AskExtent(c) ==
  LET p == InUse(c)
      asks == Lacks(Row(c)).extent
  IN
  /\ client[c].step = "extent"
  /\ IF asks /\ ExtentRaises(p) THEN GivesUp(c) /\ UNCHANGED providers
     ELSE /\ Becomes(c, [client[c] EXCEPT !.step = "dates",
               !.found = [client[c].found EXCEPT !.extent =
                 IF asks THEN SpatialExtent(p.config, ContentOf[ColumnsSeen(p)],
                                            ContentOf[BoxSeen(p)]) ELSE NoExtent]])
          /\ providers' = [providers EXCEPT ![client[c].uses] =
                             IF asks THEN WithBox(p) ELSE p]
  /\ UNCHANGED <<table, inserted, source, cache, requests, restarts, edited, cutOff>>

AskDates(c) ==
  LET p == InUse(c)
      asks == Lacks(Row(c)).dates
  IN
  /\ client[c].step = "dates"
  /\ IF asks /\ DatesRaise(p) THEN GivesUp(c) /\ UNCHANGED providers
     ELSE /\ Becomes(c, [client[c] EXCEPT !.step = "found",
               !.found = [client[c].found EXCEPT !.dates =
                 asks /\ TemporalExtent(p.config, ContentOf[DatesSeen(p)])]])
          /\ providers' = [providers EXCEPT ![client[c].uses] =
                             IF asks THEN WithDates(p) ELSE p]
  /\ UNCHANGED <<table, inserted, source, cache, requests, restarts, edited, cutOff>>

Enriched(row, found) ==
  [row EXCEPT !.storage = IF found.storage # None THEN found.storage ELSE @,
              !.extent = IF found.extent # NoExtent THEN found.extent ELSE @,
              !.dates = @ \/ found.dates]

Enrich(c) ==
  /\ client[c].step = "found"
  /\ LET found == client[c].found
         seen == Row(c)
     IN
     \/ /\ found = NothingFound
        /\ GivesUp(c)
        /\ UNCHANGED table
     \/ /\ found # NothingFound /\ IsStored(seen.pk)
        /\ LET row == Enriched(Stored(seen.pk), found)
           IN /\ table' = Replace(row)
              /\ Becomes(c, [client[c] EXCEPT !.step = "default", !.row = {row},
                                              !.found = NothingFound])
     \/ /\ found # NothingFound /\ ~IsStored(seen.pk)
        /\ End(c, "failed")
        /\ UNCHANGED table
  /\ UNCHANGED <<inserted, source, providers, cache, requests, restarts, edited, cutOff>>

\* MUTANT: a failed enrichment ends the creation as it is.
NoDefault(row) == row

Default(row) == IF row.storage = None THEN UpdateCollection(row, None) ELSE row

Created(c, row) ==
  Becomes(c, [client[c] EXCEPT !.step = "idle", !.result = "ok", !.uses = 0, !.row = row])

DefaultCrs(c) ==
  /\ client[c].step = "default"
  /\ LET seen == Row(c) IN
     \/ /\ Default(seen) = seen
        /\ Created(c, client[c].row)
        /\ UNCHANGED table
     \/ /\ Default(seen) # seen /\ IsStored(seen.pk)
        /\ LET row == [Stored(seen.pk) EXCEPT !.storage = Default(seen).storage] IN
           /\ table' = Replace(row)
           /\ Created(c, {row})
     \/ /\ Default(seen) # seen /\ ~IsStored(seen.pk)
        /\ End(c, "failed")
        /\ UNCHANGED table
  /\ UNCHANGED <<inserted, source, providers, cache, requests, restarts, edited, cutOff>>

-----------------------------------------------------------------------------
(* Reading, editing, deleting *)

\* A request for the items, the schema or the queryables of a collection.
Serve(c) ==
  /\ CanBegin(c, "serve")
  /\ \E name \in Collections :
       LET got == GetCollection(table, ActsAs[c], name) IN
       IF got = {} THEN Fail(c, "serve", "missing")
       ELSE IF \E r \in got : r.config = NoProvider THEN Fail(c, "serve", "failed")
       ELSE Begin(c, "serve", "lookup", got)
  /\ UNCHANGED <<table, inserted, source, providers, cache, restarts, edited, cutOff>>

Answer(c) ==
  /\ client[c].step = "ready" /\ client[c].purpose = "serve" /\ ~Unreflected(c)
  /\ LET p == InUse(c)
         d == ContentOf[ColumnsSeen(p)]
     IN \E question \in {"schema", "queryables"} :
        IF ColumnsRaise(p, question) THEN End(c, "failed")
        ELSE Becomes(c, [client[c] EXCEPT !.step = "idle", !.result = "ok", !.uses = 0,
               !.answer = {[provider |-> p, version |-> ColumnsSeen(p),
                            columns |-> IF question = "schema" THEN Schema(p.config, d)
                                        ELSE Queryables(p.config, d)]}])
  /\ UNCHANGED <<table, inserted, source, providers, cache, requests, restarts,
                 edited, cutOff>>

BeginUpdate(c) ==
  /\ CanBegin(c, "update")
  /\ \E name \in Collections :
       LET got == GetCollection(table, ActsAs[c], name) IN
       IF got = {} THEN Fail(c, "update", "missing")
       ELSE Begin(c, "update", "editing", got)
  /\ UNCHANGED <<table, inserted, source, providers, cache, restarts, edited, cutOff>>

\* update_collection: allowed by the copy the caller read, applied to the row
\* that has the identifier now.
Update(c) ==
  /\ client[c].step = "editing"
  /\ LET found == GetByResourceIdentifier(table, Row(c).name) IN
     \/ /\ ~MayEdit(ActsAs[c], Row(c))
        /\ End(c, "refused")
        /\ UNCHANGED <<table, edited>>
     \/ /\ MayEdit(ActsAs[c], Row(c)) /\ found = {}
        /\ End(c, "missing")
        /\ UNCHANGED <<table, edited>>
     \/ /\ MayEdit(ActsAs[c], Row(c))
        /\ \E r \in found :
             /\ \/ \E config \in Settings : table' = Replace([r EXCEPT !.config = config])
                \/ \E s \in {None, "local"} : table' = Replace(UpdateCollection(r, s))
                \/ table' = Replace([r EXCEPT !.public = ~r.public])
             /\ edited' = edited \cup {r.pk}
        /\ End(c, "ok")
  /\ UNCHANGED <<inserted, source, providers, cache, requests, restarts, cutOff>>

BeginDelete(c) ==
  /\ CanBegin(c, "delete")
  /\ \E name \in Collections :
       LET found == GetByResourceIdentifier(table, name) IN
       IF found = {} THEN Fail(c, "delete", "missing")
       ELSE IF \E r \in found : ~MayEdit(ActsAs[c], r) THEN Fail(c, "delete", "refused")
       ELSE Begin(c, "delete", "deleting", found)
  /\ UNCHANGED <<table, inserted, source, providers, cache, restarts, edited, cutOff>>

\* delete_collection by the key of the row the permission was checked on.
Delete(c) ==
  /\ client[c].step = "deleting"
  /\ IF IsStored(Row(c).pk)
       THEN /\ \E i \in DOMAIN table :
                 table[i].pk = Row(c).pk /\ table' = RemoveAt(table, i)
            /\ End(c, "ok")
       ELSE /\ End(c, "missing")
            /\ UNCHANGED table
  /\ UNCHANGED <<inserted, source, providers, cache, requests, restarts, edited, cutOff>>

-----------------------------------------------------------------------------
(* The environment *)

\* The source belongs to somebody else: it fails, comes back and changes.
SourceChanges ==
  /\ \/ source' = [source EXCEPT !.up = ~@]
     \/ source.version < Len(ContentOf) /\ source' = [source EXCEPT !.version = @ + 1]
  /\ UNCHANGED <<table, inserted, providers, cache, client, requests, restarts,
                 edited, cutOff>>

\* A restart drops the cache and every request under way.
Restart ==
  /\ restarts < MaxRestarts
  /\ restarts' = restarts + 1
  /\ cutOff' = cutOff \cup
       {r.pk : r \in UNION {client[c].asked : c \in {d \in Clients : client[d].step # "idle"}}}
  /\ client' = [c \in Clients |-> Idle]
  /\ providers' = <<>> /\ cache' = <<>>
  /\ UNCHANGED <<table, inserted, source, requests, edited>>

Next ==
  \/ \E c \in Clients :
       \/ Create(c) \/ Import(c) \/ Overwrite(c)
       \/ LookUp(c) \/ Probe(c) \/ KeepBuilt(c) \/ ReadTable(c) \/ KeepTable(c)
       \/ AskStorage(c) \/ AskExtent(c) \/ AskDates(c) \/ Enrich(c) \/ DefaultCrs(c)
       \/ Serve(c) \/ Answer(c)
       \/ BeginUpdate(c) \/ Update(c) \/ BeginDelete(c) \/ Delete(c)
  \/ SourceChanges
  \/ Restart

Spec == Init /\ [][Next]_vars

-----------------------------------------------------------------------------
(* Properties *)

Creating(pk) ==
  \E c \in Clients : client[c].step # "idle" /\ \E r \in client[c].asked : r.pk = pk

\* A collection has a storage CRS once it is created (operations/collections.py
\* create_collection), whatever its provider did meanwhile and whoever edited
\* it; only a creation cut off by a restart leaves one without, for good.
StorageCrsKnown ==
  \A r \in Range(table) : r.storage = None => Creating(r.pk) \/ r.pk \in cutOff

\* The answers a provider of the configuration can give, of some contents.
CrsOf(config) ==
  {StorageCrs(config, ContentOf[v]) : v \in {x \in Versions : config # NoProvider}}
BoxesOf(config) ==
  UNION {{SpatialExtent(config, ContentOf[v], ContentOf[w]) : w \in Versions} :
           v \in {x \in Versions : config # NoProvider}}

\* Creation fills in what was left open and keeps what was given
\* (_enrich_from_provider), whatever is edited, deleted and created again between
\* its questions and its commits: a row nobody else edited has the values its
\* creator gave, and its other ones are answers of the provider it names.  A box is
\* labelled with the system its numbers are in, but for postgis, whose label is as
\* old as the reflected table.
CreationKeepsWhatWasGiven ==
  \A c \in Clients : \A given \in client[c].asked : \A r \in GetByKey(table, given.pk) :
    client[c].step = "idle" /\ client[c].result = "ok" /\ r.pk \notin edited =>
      /\ r.storage = given.storage
         \/ (given.storage = None /\ r.storage \in {"CRS84"} \cup CrsOf(r.config))
      /\ r.extent = given.extent
         \/ (given.extent = NoExtent /\ r.extent \in BoxesOf(r.config))
      /\ r.config.kind # "postgis" => r.extent.numbers = r.extent.label
      /\ r.config = given.config /\ client[c].row = {r}

\* Does not hold, see collections_moved.cfg: the table of a postgis provider may be
\* moved to another system between its reflection and the question for the box.
BoxesLabelled == \A r \in Range(table) : r.extent.numbers = r.extent.label

\* A request is answered by a provider of the collection it read, built from
\* the configuration it read (registry.py get_feature_provider), even when the
\* entry was replaced or evicted while the provider was built.  The cache keeps
\* one provider of each key and no more than its bound, and what is answered
\* describes columns of the content the provider has seen.
ServedFromItsConfiguration ==
  /\ Len(cache) <= CacheSize
  /\ \A i, j \in DOMAIN cache : i # j =>
       <<cache[i].name, cache[i].config>> # <<cache[j].name, cache[j].config>>
  /\ \A c \in Clients : \A a \in client[c].answer : \A r \in client[c].row :
       /\ a.provider.name = r.name /\ a.provider.config = r.config
       /\ DOMAIN a.columns \subseteq DOMAIN Schema(a.provider.config, ContentOf[a.version])

PrincipalsAsking == {ActsAs[c] : c \in Clients} \cup {NobodyIn, [id |-> System, scopes |-> {}]}

\* The pages, one after the other, are the listing: what stands on them stands
\* at its place in the listing, and every place of the listing is on a page.
InPages(listing, pages, size) ==
  /\ \A n \in DOMAIN pages : \A i \in DOMAIN pages[n] :
       /\ size * (n - 1) + i \in DOMAIN listing
       /\ pages[n][i] = listing[size * (n - 1) + i]
  /\ \A k \in DOMAIN listing : \E n \in DOMAIN pages : \E i \in DOMAIN pages[n] :
       k = size * (n - 1) + i

\* Page by page, either manager lists to everybody the collections that
\* get_collection shows them, whatever the size of a page, and the total is their
\* number (paginated_list_collections); the postgis manager lists each once and
\* in order.  Asked for an area they agree as well.  The listings read the table
\* and nothing else, so they are compared whenever no request is under way, be it
\* that a restart has cut one off.
ListingsServeWhatMayBeViewed ==
  (\A c \in Clients : client[c].step = "idle") =>
  \A a \in PrincipalsAsking :
    LET shown == Select(table, {r \in Range(table) : r \in GetCollection(table, a, r.name)})
        nearby == [NoFilter EXCEPT !.area = TRUE]
    IN \A size \in 1 .. Len(table) :
       /\ InPages(shown, AllPages(table, a, NoFilter, size), size)
       /\ PaginatedListCollections(table, a, NoFilter, 1, size).total = Len(shown)
       /\ ServedOn(ConfigAllPages(table, a, NoFilter, size)) = Range(shown)
       /\ ConfigPaginatedList(table, a, NoFilter, 1, size).total = Len(shown)
       /\ ServedOn(ConfigAllPages(table, a, nearby, size))
            = ServedOn(AllPages(table, a, nearby, size))
=============================================================================
