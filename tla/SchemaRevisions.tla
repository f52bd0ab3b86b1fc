-------------------------- MODULE SchemaRevisions --------------------------
(***************************************************************************)
(* The migration scripts of the database, each with its upgrade and its    *)
(* downgrade, and the tables that the mapped classes of models.py expect.  *)
(*                                                                         *)
(* A schema is a set of facts of a table, a name and what: a column and if *)
(* it may be null (or its type, where a revision changes that), an index,  *)
(* a constraint, an enumeration.  A script drops tables, drops facts by    *)
(* name and adds facts; the order within a script, types and lengths that  *)
(* never change are left out.                                              *)
(***************************************************************************)
EXTENDS Integers, Sequences

Script(tables, drop, add) == [tables |-> tables, drop |-> drop, add |-> add]
Adds(facts) == Script({}, {}, facts)
Drops(facts) == Script({}, facts, {})

Fact(table, name, what) == <<table, name, what>>
Columns(table, names, what) == {Fact(table, name, what) : name \in names}
Optional(table, columns) == Columns(table, columns, "null")
Required(table, columns) == Columns(table, columns, "not_null")
Enumeration(name) == {Fact(name, name, "enum")}

-----------------------------------------------------------------------------
(* What models.py maps. *)

MappedCollection ==
  Required("collection", {"id", "resource_identifier", "is_public",
                          "collection_type", "title", "crs"})
  \cup Optional("collection",
         {"description", "keywords", "spatial_extent_crs", "storage_crs",
          "storage_crs_coordinate_epoch", "temporal_extent_begin",
          "temporal_extent_end", "additional_extents", "custom_page_size",
          "custom_page_size_max", "additional_links", "providers", "created_at",
          "updated_at"})
  \cup {Fact("collection", "owner_id", "text"),
        Fact("collection", "spatial_extent", "srid_4326"),
        Fact("collection", "collection_pkey", "primary_key"),
        Fact("collection", "collection_owner_id_fkey", "cascade"),
        Fact("collection", "ix_collection_resource_identifier", "unique"),
        Fact("collection", "idx_collection_title_gin", "index"),
        Fact("collection", "idx_collection_spatial_extent", "index")}
  \cup Enumeration("collectiontype")

MappedProcess ==
  Required("process", {"id", "resource_identifier", "version", "is_public", "title"})
  \cup Optional("process",
         {"description", "keywords", "additional_links", "created_at",
          "updated_at", "inputs", "outputs", "execution_unit",
          "deployment_status"})
  \cup {Fact("process", "owner_id", "text"),
        Fact("process", "process_pkey", "primary_key"),
        Fact("process", "process_owner_id_fkey", "cascade"),
        Fact("process", "unique_constraint_identifier_version", "unique"),
        Fact("process", "ix_process_resource_identifier", "unique"),
        Fact("process", "idx_process_title_gin", "index")}

MappedJob ==
  Required("job", {"id", "resource_identifier", "process_id", "is_public", "status",
                   "response_type", "created_at", "processing_entity_type"})
  \cup Optional("job",
         {"additional_links", "updated_at", "started_at", "finished_at",
          "message", "exception", "progress", "inputs", "outputs",
          "callback_uris"})
  \cup {Fact("job", "owner_id", "text"),
        Fact("job", "job_pkey", "primary_key"),
        Fact("job", "job_owner_id_fkey", "cascade"),
        Fact("job", "job_process_id_fkey", "cascade"),
        Fact("job", "ix_job_resource_identifier", "unique")}
  \cup Enumeration("jobstatus")

MappedUser ==
  Required("user", {"username", "is_active", "scopes"})
  \cup Optional("user", {"email", "hashed_password"})
  \cup {Fact("user", "id", "text"),
        Fact("user", "user_pkey", "primary_key"),
        Fact("user", "user_email_key", "unique"),
        Fact("user", "ix_user_username", "unique")}

MappedServerMetadata ==
  Required("servermetadata", {"id", "title"})
  \cup Optional("servermetadata",
         {"description", "keywords", "keywords_type", "terms_of_service",
          "url", "license", "data_provider", "point_of_contact"})
  \cup {Fact("servermetadata", "servermetadata_pkey", "primary_key")}

Mapped == MappedCollection \cup MappedProcess \cup MappedJob
          \cup MappedUser \cup MappedServerMetadata

-----------------------------------------------------------------------------
(* The revisions, in their order. *)

Initial ==
  LET others == Enumeration("collectiontype")
        \cup {Fact("collection", "idx_collection_spatial_extent", "index"),
              Fact("collection", "idx_collection_title_gin", "index"),
              Fact("collection", "ix_collection_resource_identifier", "unique")}
  IN [up |-> Adds(
        others
        \cup Required("collection",
               {"id", "resource_identifier", "collection_type", "title"})
        \cup Optional("collection",
               {"description", "keywords", "temporal_extent_begin",
                "temporal_extent_end", "additional_links", "providers"})
        \cup {Fact("collection", "spatial_extent", "any_srid"),
              Fact("collection", "collection_pkey", "primary_key")}
        \cup Required("servermetadata", {"id", "title"})
        \cup Optional("servermetadata",
               {"description", "keywords", "license", "data_provider",
                "point_of_contact"})
        \cup {Fact("servermetadata", "servermetadata_pkey", "primary_key")}),
      down |-> Script({"servermetadata", "collection"}, others, {})]

AddedMetadataColumns ==
  LET columns ==
        Optional("servermetadata", {"keywords_type", "terms_of_service", "url"})
  IN [up |-> Adds(columns), down |-> Drops(columns)]

AddUserTable ==
  LET index == {Fact("user", "ix_user_username", "unique")}
  IN [up |-> Adds(
        index
        \cup Required("user", {"username", "is_active", "scopes"})
        \cup Optional("user", {"email", "hashed_password"})
        \cup {Fact("user", "id", "uuid"), Fact("user", "user_pkey", "primary_key"),
              Fact("user", "user_email_key", "unique")}),
      down |-> Script({"user"}, index, {})]

\* The key gets the name PostgreSQL gives it.  The downgrade drops a constraint
\* without a name, which Alembic cannot render: the script raises.
AddOwnerIdToCollection ==
  LET owner == {Fact("collection", "owner_id", "uuid")}
  IN [up |-> Adds(owner \cup {Fact("collection", "collection_owner_id_fkey", "restrict")}),
      down |-> Drops(owner \cup {Fact("collection", "None", "restrict")})]

AddCollectionIsPublic ==
  LET column == Required("collection", {"is_public"})
  IN [up |-> Adds(column), down |-> Drops(column)]

OidcSub == Optional("user", {"oidc_sub"}) \cup {Fact("user", "uq_user_oidc_sub", "unique")}

AddOidcSubToUser == [up |-> Adds(OidcSub), down |-> Drops(OidcSub)]

UseStrIdForUserDropOidcSub ==
  LET ids(type) == {Fact("user", "id", type), Fact("collection", "owner_id", type)}
  IN [up |-> Script({}, ids("uuid") \cup OidcSub, ids("text")),
      down |-> Script({}, ids("text"), ids("uuid") \cup OidcSub)]

CascadeDeleteCollectionsOnUser ==
  LET key(rule) == {Fact("collection", "collection_owner_id_fkey", rule)}
  IN [up |-> Script({}, key("restrict"), key("cascade")),
      down |-> Script({}, key("cascade"), key("restrict"))]

AddedCreationAndModifiedDates ==
  LET columns == Optional("collection", {"created_at", "updated_at"})
  IN [up |-> Adds(columns), down |-> Drops(columns)]

\* MUTANT: the revision leaves out a column that the class maps.
AddedCollectionCrsWithoutEpoch ==
  LET columns == Optional("collection", {"crs", "storage_crs"})
  IN [up |-> Adds(columns), down |-> Drops(columns)]

AddedCollectionCrsInfo ==
  LET columns ==
        Optional("collection", {"crs", "storage_crs", "storage_crs_coordinate_epoch"})
  IN [up |-> Adds(columns), down |-> Drops(columns)]

AddedSpatialExtentCrs ==
  LET column == Optional("collection", {"spatial_extent_crs"})
  IN [up |-> Adds(column), down |-> Drops(column)]

\* MUTANT: the downgrade forgets a column that the upgrade added.
AddedCustomExtentsHalfDropped ==
  [up |-> Adds(Optional("collection", {"additional_extents", "custom_page_size",
                                       "custom_page_size_max"})),
   down |-> Drops(Optional("collection", {"additional_extents", "custom_page_size"}))]

AddedCustomExtentsPerCollection ==
  LET columns == Optional("collection", {"additional_extents", "custom_page_size",
                                         "custom_page_size_max"})
  IN [up |-> Adds(columns), down |-> Drops(columns)]

\* PostGIS gives a geometry without an SRID that of its column.
AddDefaultSridToCollectionSpatialExtent ==
  LET extent(srid) == {Fact("collection", "spatial_extent", srid)}
  IN [up |-> Script({}, extent("any_srid"), extent("srid_4326")),
      down |-> Script({}, extent("srid_4326"), extent("any_srid"))]

MakeCollectionCrsNotNull ==
  LET crs(what) == {Fact("collection", "crs", what)}
  IN [up |-> Script({}, crs("null"), crs("not_null")),
      down |-> Script({}, crs("not_null"), crs("null"))]

AddedProcessTable ==
  LET indexes == {Fact("process", "idx_process_title_gin", "index"),
                  Fact("process", "ix_process_resource_identifier", "unique")}
  IN [up |-> Adds(
        indexes
        \cup Required("process",
               {"id", "resource_identifier", "version", "is_public", "title"})
        \cup Optional("process",
               {"description", "keywords", "additional_links", "created_at",
                "updated_at", "inputs", "outputs", "execution_unit",
                "deployment_status"})
        \cup {Fact("process", "owner_id", "text"),
              Fact("process", "process_pkey", "primary_key"),
              Fact("process", "process_owner_id_fkey", "cascade"),
              Fact("process", "unique_constraint_identifier_version", "unique")}),
      down |-> Script({"process"}, indexes, {})]

AddedJobTable ==
  LET others == Enumeration("jobstatus")
                \cup {Fact("job", "ix_job_resource_identifier", "unique")}
  IN [up |-> Adds(
        others
        \cup Required("job",
               {"id", "resource_identifier", "process_id", "is_public", "status",
                "response_type", "created_at", "processing_entity_type"})
        \cup Optional("job",
               {"additional_links", "updated_at", "started_at", "finished_at",
                "message", "exception", "progress", "inputs", "outputs",
                "callback_uris"})
        \cup {Fact("job", "owner_id", "text"), Fact("job", "job_pkey", "primary_key"),
              Fact("job", "job_owner_id_fkey", "cascade"),
              Fact("job", "job_process_id_fkey", "cascade")}),
      down |-> Script({"job"}, others, {})]

Revisions ==
  <<Initial, AddedMetadataColumns, AddUserTable, AddOwnerIdToCollection,
    AddCollectionIsPublic, AddOidcSubToUser, UseStrIdForUserDropOidcSub,
    CascadeDeleteCollectionsOnUser, AddedCreationAndModifiedDates,
    AddedCollectionCrsInfo, AddedSpatialExtentCrs, AddedCustomExtentsPerCollection,
    AddDefaultSridToCollectionSpatialExtent, MakeCollectionCrsNotNull,
    AddedProcessTable, AddedJobTable>>

Newest == Len(Revisions)

-----------------------------------------------------------------------------
(* What PostgreSQL makes of a script. *)

TableOf(fact) == fact[1]
InTables(schema, tables) == {fact \in schema : TableOf(fact) \in tables}
IsKey(fact) == fact[3] = "primary_key"
SameName(fact, other) == fact[1] = other[1] /\ fact[2] = other[2]

\* Everything dropped is there, and nothing added is there already.  A table comes
\* with its primary key, where there is none of its name.
Fits(script, schema) ==
  /\ script.drop \subseteq schema
  /\ \A table \in script.tables : InTables(schema, {table}) # {}
  /\ \A new \in script.add : IsKey(new) => InTables(schema, {TableOf(new)}) = {}
  /\ \A new \in script.add, old \in schema \ script.drop : ~SameName(new, old)

Removes(script, fact) == fact \in script.drop \/ TableOf(fact) \in script.tables

Applied(script, schema) ==
  {fact \in schema \cup script.add : fact \in script.add \/ ~Removes(script, fact)}

\* The schema that the upgrades to each revision give an empty database: what one
\* of them adds and no later one removes.
Schemas ==
  [n \in 0..Newest |->
     {fact \in UNION {Revisions[i].up.add : i \in 1..n} :
        \E i \in 1..n : /\ fact \in Revisions[i].up.add
                        /\ \A j \in i+1..n : ~Removes(Revisions[j].up, fact)}]
SchemaAt(n) == Schemas[n]

=============================================================================
