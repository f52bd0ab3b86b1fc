---------------------------- MODULE MCItemPaging ----------------------------
EXTENDS ItemPaging

MCCovers == [asked  |-> [CRS84 |-> {"near"}, EPSG |-> {"far"}],
             skewed |-> [CRS84 |-> {"far"},  EPSG |-> {}]]

At(i, p, t) == [id |-> i, place |-> p, stamp |-> t]

MCScans == {
  <<At("a", "near", 1), At("b", "far", 2), At("c", "near", Open), At("d", "near", 2)>>,
  <<At("b", "near", 1), At("a", "near", 2), At("c", "far", 2)>>,
  <<>>}

\* The system of the source matters to pyogrio alone, so the others vary the
\* column of identifiers with it.
IdTypeOf(k, native) ==
  CASE k = "pyogrio"               -> IF native = "CRS84" THEN "fid" ELSE "text"
    [] k \in {"duckdb", "postgis"} -> IF native = "CRS84" THEN "integer" ELSE "date"
    [] OTHER                       -> "text"

DatedSources == {
  [kind |-> k, native |-> n, timed |-> TRUE, idType |-> IdTypeOf(k, n),
   pageMax |-> m] : k \in Kinds, n \in KnownCrs, m \in {0, 1}}

\* The two kinds that look at dates, over sources without any.
UndatedSources == {
  [kind |-> k, native |-> "CRS84", timed |-> FALSE, idType |-> "text",
   pageMax |-> 0] : k \in {"collection-config", "pygeoapi"}}

MCSourceSettings == DatedSources \cup UndatedSources

Ask == [bbox |-> "none", bboxCrs |-> "CRS84", crs |-> "CRS84",
        datetime |-> AnyTime, limit |-> 2, offset |-> 0, extra |-> FALSE]

MCQueries ==
  {[Ask EXCEPT !.limit = l, !.offset = o] : l \in 1..4, o \in 0..1}
  \cup {[Ask EXCEPT !.bbox = b, !.bboxCrs = c] : b \in RawBoxes, c \in Crs}
  \cup {[Ask EXCEPT !.datetime = [start |-> 2, end |-> Open], !.limit = 1],
        [Ask EXCEPT !.crs = "EPSG"], [Ask EXCEPT !.crs = "bad"],
        [Ask EXCEPT !.limit = 0], [Ask EXCEPT !.extra = TRUE]}
=============================================================================
