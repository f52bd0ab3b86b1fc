------------------------------ MODULE Database ------------------------------
(***************************************************************************)
(* The database of the postgis manager, which operators migrate up and     *)
(* down, at the same time if it so happens, with scripts that fail on the  *)
(* rows they find and commands that are killed, and the health check of    *)
(* the servers on it.  ServerMetadata composes these actions with the      *)
(* sessions that read and edit the server metadata.                        *)
(*                                                                         *)
(* env.py runs a whole command in one transaction, and PostgreSQL's        *)
(* schema changes are transactional.  After each script Alembic changes    *)
(* the row of alembic_version provided that it still holds the revision    *)
(* the script starts from; the transaction holds that row until it ends,   *)
(* and the tables it has changed.  A script and that change are one step.  *)
(***************************************************************************)
EXTENDS Integers, Sequences, FiniteSets, SchemaRevisions

CONSTANTS
  Migrators,   \* processes that run `upgrade` or `downgrade`
  Targets      \* revision identifiers given to the commands

ASSUME TargetsAssumption == Targets \subseteq 0..Newest

VARIABLES
  schema, revision,   \* what is committed, and the row of alembic_version
  rows,       \* what is known of the rows of collection and user
  migration   \* the transaction each migrator is in

dbVars == <<schema, revision, rows, migration>>

Idle == [target |-> -1, from |-> 0, at |-> 0, schema |-> {}, rows |-> {},
         locked |-> {}]

\* There is a collection, one without crs, a user whose id is no UUID.
RowFacts == {"collection", "no_crs", "no_uuid"}
AllFacts == UNION {SchemaAt(n) : n \in 0..Newest}

DbTypeOK ==
  /\ schema \subseteq AllFacts /\ revision \in 0..Newest
  /\ rows \subseteq RowFacts
  /\ migration \in [Migrators ->
       [target : Targets \cup {-1}, from : 0..Newest, at : 0..Newest,
        schema : SUBSET AllFacts, rows : SUBSET RowFacts,
        locked : SUBSET {TableOf(fact) : fact \in AllFacts}]]

\* A database migrated to the given revision, without rows.
Migrated(to) ==
  /\ schema = SchemaAt(to) /\ revision = to /\ rows = {}
  /\ migration = [m \in Migrators |-> Idle]

-----------------------------------------------------------------------------
(* Migrations. *)

Begun(m) == migration[m] # Idle
Open(m) == Begun(m) /\ migration[m].at # migration[m].from
Locked(table) == \E m \in Migrators : table \in migration[m].locked

Crs(what) == Fact("collection", "crs", what)

\* A script that adds columns to a table with rows cannot make them required; one
\* that alters ids to UUIDs needs every id to be one.
RowsAllow(script, before, held) ==
  /\ "collection" \in held =>
       \A new \in script.add :
          TableOf(new) = "collection" /\ new[3] \in {"not_null", "uuid", "text"}
            => \E old \in before : SameName(new, old)
  /\ "no_uuid" \in held => Fact("user", "id", "uuid") \notin script.add

\* The rows after a script.  MakeCollectionCrsNotNull fills crs in before it makes
\* the column required.
RowsAfter(script, held) ==
  CASE "collection" \in script.tables -> held \ {"collection", "no_crs"}
    [] "user" \in script.tables -> held \ {"no_uuid"}
    [] Crs("null") \in script.add /\ script.drop = {} ->
         IF "collection" \in held THEN held \cup {"no_crs"} ELSE held
    [] Crs("null") \in script.drop -> held \ {"no_crs"}
    [] OTHER -> held

Touched(script) ==
  script.tables \cup {TableOf(fact) : fact \in script.add \cup script.drop}

Begin(m, target) ==
  /\ ~Begun(m)
  /\ target # revision
  /\ migration' = [migration EXCEPT ![m] =
       [target |-> target, from |-> revision, at |-> revision, schema |-> {},
        rows |-> {}, locked |-> {}]]
  /\ UNCHANGED <<schema, revision, rows>>

\* The script m runs next.
NextScript(m) ==
  LET at == migration[m].at
  IN IF migration[m].target > at THEN Revisions[at + 1].up ELSE Revisions[at].down

RollBack(m) ==
  /\ migration' = [migration EXCEPT ![m] = Idle]
  /\ UNCHANGED <<schema, revision, rows>>

Step(m) ==
  /\ Begun(m) /\ migration[m].at # migration[m].target
  /\ \A other \in Migrators \ {m} : ~Open(other)
  /\ LET mine == migration[m]
         script == NextScript(m)
         before == IF Open(m) THEN mine.schema ELSE schema
         held == IF Open(m) THEN mine.rows ELSE rows
     IN IF /\ Open(m) \/ revision = mine.from
           /\ Fits(script, before) /\ RowsAllow(script, before, held)
        THEN /\ migration' = [migration EXCEPT ![m] =
                  [target |-> mine.target, from |-> mine.from,
                   at |-> IF mine.target > mine.at THEN mine.at + 1 ELSE mine.at - 1,
                   schema |-> Applied(script, before), rows |-> RowsAfter(script, held),
                   locked |-> mine.locked \cup Touched(script)]]
             /\ UNCHANGED <<schema, revision, rows>>
        ELSE RollBack(m)

Commit(m) ==
  /\ Open(m) /\ migration[m].at = migration[m].target
  /\ schema' = migration[m].schema
  /\ revision' = migration[m].at
  /\ rows' = migration[m].rows
  /\ migration' = [migration EXCEPT ![m] = Idle]

\* The command is interrupted, or the connection is lost.
Abort(m) == Begun(m) /\ RollBack(m)

-----------------------------------------------------------------------------
(* Rows written by the release that goes with the revision. *)

\* An open migration sees what is committed to the tables it has not changed.
WriteRow(facts) ==
  /\ rows' = rows \cup facts
  /\ migration' = [m \in Migrators |->
       IF Open(m) THEN [migration[m] EXCEPT !.rows = @ \cup facts] ELSE migration[m]]
  /\ UNCHANGED <<schema, revision>>

WriteCollection ==
  /\ ~Locked("collection")
  /\ InTables(schema, {"collection"}) # {}
  /\ \/ WriteRow({"collection"})
     \/ /\ Crs("null") \in schema
        /\ WriteRow({"collection", "no_crs"})

WriteUser ==
  /\ ~Locked("user")
  /\ Fact("user", "id", "text") \in schema
  /\ WriteRow({"no_uuid"})

Migrate ==
  \/ \E m \in Migrators :
       \/ \E target \in Targets : Begin(m, target)
       \/ Step(m) \/ Commit(m) \/ Abort(m)
  \/ WriteCollection \/ WriteUser

-----------------------------------------------------------------------------
(* Health. *)

CheckHealth(reachable) ==
  CASE ~reachable -> "error"
    [] reachable /\ revision = Newest -> "ok"
    [] OTHER -> "not-ready"

GetHealthStatus(reachable, broker) ==
  [status |-> IF CheckHealth(reachable) = "ok" THEN "ok" ELSE "error",
   collection_manager |-> CheckHealth(reachable),
   internal_broker |-> IF broker THEN "ok" ELSE "error"]

HealthCheck(reachable, broker) ==
  IF GetHealthStatus(reachable, broker).status = "ok" THEN 200 ELSE 503

\* What check_for_changes prints: where tables and classes differ.
CheckForChanges == (schema \ Mapped) \cup (Mapped \ schema)

-----------------------------------------------------------------------------
(* Properties *)

\* Whichever upgrades and downgrades ran, failed half way, were killed or ran into
\* each other, the schema is the one that the upgrades up to its revision give an
\* empty database, in what is committed and in every open migration (the scripts
\* under migrations/versions, env.py run_migrations_online).
SchemaIsItsRevisions ==
  /\ schema = SchemaAt(revision)
  /\ \A m \in Migrators : Open(m) => migration[m].schema = SchemaAt(migration[m].at)

\* A server that answers its health check with 200 has in its database every
\* table, column, index and constraint that its classes map and no others, though
\* _check_health only compares revisions (routers/base.py health_check, manager.py).
HealthyIsMapped ==
  \A reachable, broker \in BOOLEAN :
    HealthCheck(reachable, broker) = 200 => CheckForChanges = {}
=============================================================================
