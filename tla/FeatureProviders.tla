--------------------------- MODULE FeatureProviders ---------------------------
(***************************************************************************)
(* What the five feature providers list, count and fetch for one filter.   *)
(*                                                                         *)
(* A data source is a sequence of rows in the order a scan returns them.   *)
(* A row has an identifier, the place of its geometry and, for sources     *)
(* with a date, a time stamp.  The four numbers of a flat bounding box and *)
(* the horizontal four of a solid one are the area "asked"; the first four *)
(* of a solid one are the area "skewed".  Which places an area covers      *)
(* depends on the reference system its numbers are read in (Covers).       *)
(*                                                                         *)
(* A call that raises is left to the module ItemPaging: Raises tells which *)
(* filters a provider refuses.                                             *)
(***************************************************************************)
EXTENDS Pages, ProviderDescriptions

CONSTANTS
  Ids,         \* identifiers of rows
  Places,      \* places of geometries
  Covers,      \* [area -> [reference system -> set of places]]
  Numerals,    \* identifiers that are written with digits in a column of texts
  Throttle     \* max_items of the pygeoapi configuration, 50 in the code

Crs == {"CRS84", "EPSG", "bad"}     \* "bad": not the URI of a known system
KnownCrs == Crs \ {"bad"}
Boxes == {"none", "flat", "solid", "skewed"}
Times == 1..2
Open == 0                           \* ".." on either side of an interval
AnyTime == [start |-> Open, end |-> Open]
Periods == {AnyTime} \cup [start : Times \cup {Open}, end : Times \cup {Open}]

Rows == [id : Ids, place : Places, stamp : Times \cup {Open}]

\* The types of the column of identifiers.  "fid": the source numbers its
\* features; "integer" stands for every type whose constructor reads what str()
\* wrote, "date" for those whose constructor takes no text.
IdTypes == {"fid", "integer", "text", "date"}
ColumnTypes(kind) ==
  CASE kind = "pyogrio"              -> {"fid", "integer", "text"}
    [] kind \in {"duckdb", "postgis"} -> {"integer", "text", "date"}
    [] OTHER                         -> {"text"}

Sources ==
  {src \in [kind : Kinds, native : KnownCrs, timed : BOOLEAN, idType : IdTypes,
            pageMax : Nat] :                     \* 0: not set
     src.idType \in ColumnTypes(src.kind)}

ASSUME CoversAssumption ==
  Covers \in [{"asked", "skewed"} -> [KnownCrs -> SUBSET Places]]
ASSUME ThrottleAssumption == Throttle \in Nat \ {0}
ASSUME NumeralsAssumption == Numerals \subseteq Ids

IdsIn(rows) == {rows[i].id : i \in DOMAIN rows}

-----------------------------------------------------------------------------
(* The filter *)

Filters == [bbox : Boxes, bboxCrs : Crs, crs : Crs, datetime : Periods,
            limit : Nat, offset : Nat]

\* The horizontal numbers of the box of a filter.
Bbox2d(f) == IF f.bbox \in {"flat", "solid"} THEN "asked" ELSE f.bbox

InArea(r, area, crs) == area = "none" \/ r.place \in Covers[area][crs]
InBox(rows, f, crs) == {r \in Range(rows) : InArea(r, Bbox2d(f), crs)}

-----------------------------------------------------------------------------
(* collection-config: features kept in the configuration of the collection *)

FeatureMatchesBbox(r, f) == InArea(r, Bbox2d(f), f.bboxCrs)

ParseDatetimeRange(period) ==
  {t \in Times : /\ period.start # Open => t >= period.start
                 /\ period.end # Open => t <= period.end}

FeatureMatchesDatetime(r, f, src) ==
  src.timed /\ f.datetime # AnyTime
    => r.stamp \in ParseDatetimeRange(f.datetime)

MatchFeatures(rows, f, src) ==
  Select(rows, {r \in Range(rows) : FeatureMatchesBbox(r, f)
                                    /\ FeatureMatchesDatetime(r, f, src)})

ConfigList(rows, f, src) == Slice(MatchFeatures(rows, f, src), f.offset, f.limit)

ConfigCount(rows, f, src) ==
  [matched |-> Len(MatchFeatures(rows, f, src)), total |-> Len(rows)]

-----------------------------------------------------------------------------
(* duckdb: a query over a connection in memory; no date is compared *)

\* MUTANT: the numbers of the box always taken for CRS84.
BuildPredicatesInCrs84(rows, f) == Select(rows, InBox(rows, f, "CRS84"))

BuildPredicates(rows, f) == Select(rows, InBox(rows, f, f.bboxCrs))

BuildFeaturesQuery(rows, f) == Slice(BuildPredicates(rows, f), f.offset, f.limit)
BuildCountQuery(rows, f) == Len(BuildPredicates(rows, f))

\* MUTANT: the number of rows on the page given as the number of matches.
DuckdbCountOfPage(rows, f) ==
  [matched |-> Min({f.limit, Max({0, BuildCountQuery(rows, f) - f.offset})}),
   total |-> Len(rows)]

DuckdbCount(rows, f) ==
  LET matched == BuildCountQuery(rows, f)
      remaining == Max({0, matched - f.offset})
  IN [matched |-> matched, total |-> Min({f.limit, remaining})]

-----------------------------------------------------------------------------
(* pyogrio: the box is handed over without its reference system, so its    *)
(* numbers are read in the one of the source                               *)

ReadDataframe(rows, f, src) == Select(rows, InBox(rows, f, src.native))

PyogrioList(rows, f, src) == Slice(ReadDataframe(rows, f, src), f.offset, f.limit)

PyogrioCount(rows, f, src) ==
  [matched |-> Len(ReadDataframe(rows, f, src)), total |-> Len(rows)]

-----------------------------------------------------------------------------
(* postgis: a statement without an order; the rows come as the heap holds  *)
(* them                                                                    *)

ApplyFilter(rows, f) == Select(rows, InBox(rows, f, f.bboxCrs))

\* MUTANT: a limit without the offset.
PostgisListFromStart(rows, f) == Slice(ApplyFilter(rows, f), 0, f.limit)

PostgisList(rows, f) == Slice(ApplyFilter(rows, f), f.offset, f.limit)

PostgisCount(rows, f) ==
  [matched |-> IF f.bbox = "none" THEN Len(rows) ELSE Len(ApplyFilter(rows, f)),
   total |-> Len(rows)]

-----------------------------------------------------------------------------
(* pygeoapi: the filter becomes a request to an embedded pygeoapi, which   *)
(* bounds the limit by max_items and filters dates itself; the reference   *)
(* system of the box goes with the listing and not with the count          *)

MaxItems(src) == IF src.pageMax # 0 THEN src.pageMax ELSE Throttle

GetCollectionItems(rows, f, src, bboxCrs) ==
  Select(rows, {r \in InBox(rows, f, bboxCrs) : FeatureMatchesDatetime(r, f, src)})

PygeoapiList(rows, f, src) ==
  Slice(GetCollectionItems(rows, f, src, f.bboxCrs), f.offset,
        Min({f.limit, MaxItems(src)}))

PygeoapiCount(rows, f, src) ==
  LET matched == Len(GetCollectionItems(rows, f, src, "CRS84"))
  IN [matched |-> matched, total |-> matched]

-----------------------------------------------------------------------------
(* The protocol every provider implements *)

ListFeatures(rows, f, src) ==
  CASE src.kind = "collection-config" -> ConfigList(rows, f, src)
    [] src.kind = "duckdb"            -> BuildFeaturesQuery(rows, f)
    [] src.kind = "pyogrio"           -> PyogrioList(rows, f, src)
    [] src.kind = "postgis"           -> PostgisList(rows, f)
    [] src.kind = "pygeoapi"          -> PygeoapiList(rows, f, src)

CountItems(rows, f, src) ==
  CASE src.kind = "collection-config" -> ConfigCount(rows, f, src)
    [] src.kind = "duckdb"            -> DuckdbCount(rows, f)
    [] src.kind = "pyogrio"           -> PyogrioCount(rows, f, src)
    [] src.kind = "postgis"           -> PostgisCount(rows, f)
    [] src.kind = "pygeoapi"          -> PygeoapiCount(rows, f, src)

\* The rows a provider lists for a filter, all pages together.
Matching(rows, f, src) ==
  ListFeatures(rows, [f EXCEPT !.offset = 0, !.limit = Len(rows)],
               [src EXCEPT !.pageMax = Len(rows)])

-----------------------------------------------------------------------------
(* Refusals: a request answered with "bad request", or a call that raises *)

\* collection-config transforms only what is not in the system asked for:
\* the box, against every row, and the rows of the page.
BoxRaises(rows, f) == f.bbox # "none" /\ f.bboxCrs = "bad" /\ rows # <<>>
ConfigRaises(rows, f, src) ==
  \/ BoxRaises(rows, f)
  \/ f.crs = "bad" /\ ConfigList(rows, f, src) # <<>>

\* duckdb and postgis parse a number out of the URIs before the query runs.
ParseSridRaises(f) == f.crs = "bad" \/ (f.bbox # "none" /\ f.bboxCrs = "bad")

\* What becomes of a listing: "listed", "refused" or "raised".
ListOutcome(rows, f, src) ==
  CASE src.kind = "collection-config" /\ ConfigRaises(rows, f, src)  -> "raised"
    [] src.kind \in {"duckdb", "postgis"} /\ ParseSridRaises(f)      -> "raised"
    [] src.kind = "pyogrio" /\ f.crs = "bad"                         -> "raised"
    [] src.kind = "pygeoapi" /\ ParseSridRaises(f)                   -> "refused"
    [] OTHER                                                         -> "listed"

-----------------------------------------------------------------------------
(* Single items.  A page gives the text of an identifier, and the text is  *)
(* what a client asks for; each provider turns it into a value of its      *)
(* column, or fails to.                                                    *)

Texts == [digits : BOOLEAN, of : Ids]

\* id_=str(value), digits for a number.
Str(id, type) ==
  [digits |-> type \in {"fid", "integer"} \/ (type = "text" /\ id \in Numerals),
   of |-> id]

\* int(text): no value (ValueError) unless it is written with digits.
AsNumber(text) == IF text.digits THEN {text.of} ELSE {}

\* What a database finds equal to a text in a column of the type.
Cast(text, type) == {id \in Ids : Str(id, type) = text}

WithId(rows, ids) == {r \in Range(rows) : r.id \in ids}
Got(found) == [outcome |-> IF found = {} THEN "missing" ELSE "found", rows |-> found]
Raised == [outcome |-> "raised", rows |-> {}]

ConfigGet(rows, text, crs) ==
  LET found == WithId(rows, Cast(text, "text"))
  IN IF crs = "bad" /\ found # {} THEN Raised ELSE Got(found)

\* _coerce_id of duckdb: only numbers are read, the rest goes as it is.
DuckdbCoerce(text, type) == IF type = "integer" THEN AsNumber(text) ELSE Cast(text, type)

DuckdbGet(rows, text, crs, src) ==
  IF crs = "bad" \/ (src.idType = "integer" /\ ~text.digits) THEN Raised
  ELSE Got(WithId(rows, DuckdbCoerce(text, src.idType)))

\* A number the source gave is looked up as one; a column by OGR's SQL.
PyogrioGet(rows, text, crs, src) ==
  LET found == WithId(rows, IF src.idType = "fid" THEN AsNumber(text)
                            ELSE Cast(text, src.idType))
  IN IF crs = "bad" /\ found # {} THEN Raised ELSE Got(found)

\* MUTANT: the text handed to the driver whatever the column holds.
PostgisCoerceNothing(text, type) == IF type = "text" THEN Cast(text, type) ELSE {}

\* _coerce_id of postgis calls the Python type of the column; what it does not
\* read ends the request.
PostgisCoerce(text, type) ==
  CASE type = "text" -> Cast(text, type)
    [] type = "date" -> {}
    [] OTHER         -> AsNumber(text)

PostgisGet(rows, text, crs, src) ==
  LET ids == PostgisCoerce(text, src.idType) IN
  IF crs = "bad" \/ (src.idType # "text" /\ ids = {}) THEN Raised
  ELSE Got(WithId(rows, ids))

PygeoapiGet(rows, text, crs) ==
  IF crs = "bad" THEN [outcome |-> "refused", rows |-> {}]
  ELSE Got(WithId(rows, Cast(text, "text")))

GetFeature(rows, text, crs, src) ==
  CASE src.kind = "collection-config" -> ConfigGet(rows, text, crs)
    [] src.kind = "duckdb"            -> DuckdbGet(rows, text, crs, src)
    [] src.kind = "pyogrio"           -> PyogrioGet(rows, text, crs, src)
    [] src.kind = "postgis"           -> PostgisGet(rows, text, crs, src)
    [] src.kind = "pygeoapi"          -> PygeoapiGet(rows, text, crs)
=============================================================================
