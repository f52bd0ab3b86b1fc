------------------------ MODULE ProviderDescriptions ------------------------
(***************************************************************************)
(* What the five feature providers say about their data: the reference     *)
(* system it is stored in, its extents, its schema and its queryables.     *)
(*                                                                         *)
(* A configuration c names the kind of a provider, its data source, the    *)
(* reference system it declares ("unset" when it declares none) and        *)
(* whether it names a column of dates.  A content d is what is in the      *)
(* source: its reference system, whether there are rows, and its columns,  *)
(* a function from names to types.  "WGS84" is EPSG:4326 and "local" a     *)
(* projected system; the numbers of WGS84 and of CRS84 are the same here,  *)
(* for all providers give longitude first.                                 *)
(*                                                                         *)
(* d.native is the system of the data where the provider asks the source   *)
(* for it, which pyogrio and postgis do.  The files of duckdb and of       *)
(* collection-config do not tell: their system is the one the              *)
(* configuration declares, and their numbers are taken to be in it.        *)
(***************************************************************************)
EXTENDS Naturals

Kinds == {"collection-config", "duckdb", "pyogrio", "postgis", "pygeoapi"}
Systems == {"CRS84", "WGS84", "local"}
None == "none"                        \* Python's None
Types == {"integer", "number", "text", "boolean", "uuid", "date", "time",
          "instant", "bytes", "json", "list"}

Contents(columnNames) ==
  [native : Systems \cup {None}, rows : BOOLEAN,
   columns : UNION {[names -> Types] : names \in SUBSET columnNames}]

-----------------------------------------------------------------------------
(* Reference systems *)

ConfigStorageCrs(c) == IF c.declared = "unset" THEN "CRS84" ELSE c.declared

\* A source that declares no system is taken for EPSG:4326.
DuckdbNative(c) == IF c.declared = "unset" THEN "WGS84" ELSE c.declared
DuckdbStorageCrs(c) == DuckdbNative(c)

PyogrioStorageCrs(d) == d.native

\* A column without a system counts as EPSG:4326 too.
PostgisNative(d) == IF d.native \in {None, "CRS84"} THEN "WGS84" ELSE d.native
PostgisStorageCrs(d) == PostgisNative(d)

PygeoapiStorageCrs(c) == IF c.declared = "unset" THEN None ELSE c.declared

StorageCrs(c, d) ==
  CASE c.kind = "collection-config" -> ConfigStorageCrs(c)
    [] c.kind = "duckdb"            -> DuckdbStorageCrs(c)
    [] c.kind = "pyogrio"           -> PyogrioStorageCrs(d)
    [] c.kind = "postgis"           -> PostgisStorageCrs(d)
    [] c.kind = "pygeoapi"          -> PygeoapiStorageCrs(c)

-----------------------------------------------------------------------------
(* Extents: the system the numbers of the box are in and the one it is     *)
(* labelled with                                                           *)

NoExtent == [numbers |-> None, label |-> None]
In(system) == [numbers |-> system, label |-> system]
Extents == {NoExtent} \cup [numbers : Systems, label : Systems]

ConfigExtent(c, d) == IF d.rows THEN In(ConfigStorageCrs(c)) ELSE NoExtent

\* Transformed by the query unless it is in EPSG:4326 already.
DuckdbExtent(c, d) == IF d.rows THEN In("CRS84") ELSE NoExtent

PyogrioExtent(d) == IF d.rows /\ d.native # None THEN In(d.native) ELSE NoExtent

\* The numbers are those of the rows there are, the label that of the table as
\* it was reflected, which may have been another content.
PostgisExtent(reflected, d) ==
  IF d.rows THEN [numbers |-> PostgisNative(d), label |-> PostgisNative(reflected)]
  ELSE NoExtent

SpatialExtent(c, reflected, d) ==
  CASE c.kind = "collection-config" -> ConfigExtent(c, d)
    [] c.kind = "duckdb"            -> DuckdbExtent(c, d)
    [] c.kind = "pyogrio"           -> PyogrioExtent(d)
    [] c.kind = "postgis"           -> PostgisExtent(reflected, d)
    [] c.kind = "pygeoapi"          -> NoExtent

\* Two kinds read dates, in the column or pair of columns configured.
ConfigDates(c, d) == c.dated /\ d.rows
DuckdbDates(c, d) == c.dated /\ d.rows
TemporalExtent(c, d) ==
  CASE c.kind = "collection-config" -> ConfigDates(c, d)
    [] c.kind = "duckdb"            -> DuckdbDates(c, d)
    [] OTHER                        -> FALSE

-----------------------------------------------------------------------------
(* Schemas: a function from names to JSON types.  "id" and "geom" are the  *)
(* columns configured as such.                                             *)

Id == "id"
Geometry == "geom"
JsonString == {"text", "uuid", "date", "time", "instant", "bytes"}
Plain(t) == IF t \in JsonString THEN "string" ELSE t

InferProperty(t) == IF t \in {"boolean", "integer", "number"} THEN t ELSE "string"

\* _map_duckdb_type_to_json_schema; of a list, the items are described too.
MapDuckdbType(t) ==
  CASE t = "json" -> "any" [] t = "list" -> "array" [] OTHER -> Plain(t)

MapDtype(t) == IF t \in {"boolean", "integer", "number"} THEN t ELSE "string"

BuildColSchema(t) ==
  CASE t = "json" -> "any" [] t = "list" -> "string" [] OTHER -> Plain(t)

Mapped(columns, Map(_)) == [n \in DOMAIN columns |-> Map(columns[n])]
WithGeometry(properties) ==
  [n \in DOMAIN properties \cup {Geometry} |->
    IF n = Geometry THEN "geometry" ELSE properties[n]]
WithTextId(properties) ==
  [n \in DOMAIN properties \cup {Id} |-> IF n = Id THEN "string" ELSE properties[n]]

ConfigSchema(d) == WithGeometry(WithTextId(Mapped(d.columns, InferProperty)))
ConfigQueryables(d) == WithTextId(Mapped(d.columns, InferProperty))

DuckdbQueryables(d) == Mapped(d.columns, MapDuckdbType)
DuckdbSchema(d) == WithGeometry(DuckdbQueryables(d))

\* The same function answers both questions.
PyogrioSchema(d) == WithGeometry(Mapped(d.columns, MapDtype))

BuildOgcSchema(d) == WithGeometry(Mapped(d.columns, BuildColSchema))
PostgisSchema(d) == BuildOgcSchema(d)
PostgisQueryables(d) == BuildOgcSchema(d)

\* What pygeoapi answers is an open question; the columns are in it.
GetCollectionSchema(d) == WithGeometry(Mapped(d.columns, Plain))
PygeoapiSchema(d) == GetCollectionSchema(d)
PygeoapiQueryables(d) == GetCollectionSchema(d)

Schema(c, d) ==
  CASE c.kind = "collection-config" -> ConfigSchema(d)
    [] c.kind = "duckdb"            -> DuckdbSchema(d)
    [] c.kind = "pyogrio"           -> PyogrioSchema(d)
    [] c.kind = "postgis"           -> PostgisSchema(d)
    [] c.kind = "pygeoapi"          -> PygeoapiSchema(d)

Queryables(c, d) ==
  CASE c.kind = "collection-config" -> ConfigQueryables(d)
    [] c.kind = "duckdb"            -> DuckdbQueryables(d)
    [] c.kind = "pyogrio"           -> PyogrioSchema(d)
    [] c.kind = "postgis"           -> PostgisQueryables(d)
    [] c.kind = "pygeoapi"          -> PygeoapiQueryables(d)

-----------------------------------------------------------------------------
(* Failures *)

\* duckdb attaches its source and probes its columns when it is built; the
\* factories of the others only validate the configuration.
SetupConnectionRaises(up) == ~up
ValidateColumnsRaises(d) == Id \notin DOMAIN d.columns
ReflectRaises(up, d) == ~up \/ Id \notin DOMAIN d.columns

BuildRaises(c, up, d) ==
  c.kind = "duckdb" /\ (SetupConnectionRaises(up) \/ ValidateColumnsRaises(d))
=============================================================================
