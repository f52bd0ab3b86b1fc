-------------------------- MODULE CollectionListing --------------------------
(***************************************************************************)
(* How the two managers find and list collections: the queries of the      *)
(* postgis manager over its table, and the configuration file manager over *)
(* the entries of its file.                                                *)
(*                                                                         *)
(* A table is a sequence of rows in the order of their creation, the order *)
(* the queries ask for.  The entries of a file are a sequence too, in the  *)
(* order of their identifiers.  A filter names a text the identifier is to *)
(* be like ("all" when there is none) and whether an area is given, one    *)
(* that every collection of the model lies in when its numbers are degrees.*)
(***************************************************************************)
EXTENDS AccessPolicy, Pages, ProviderDescriptions

CONSTANT SimilarTo     \* [identifier -> the identifiers it is a part of]

ASSUME SimilarAssumption ==
  /\ SimilarTo \in [Collections -> SUBSET Collections]
  /\ \A n \in Collections : n \in SimilarTo[n]

NoFilter == [like |-> "all", area |-> FALSE]
Visitor(a) == a.id = Anonymous
Found(items, total) == [items |-> items, total |-> total]

-----------------------------------------------------------------------------
(* The postgis manager *)

\* A collection without an extent is in every area.
ApplyCommonFilters(rows, f) ==
  Select(rows, {r \in Range(rows) :
    /\ f.like # "all" => r.name \in SimilarTo[f.like]
    /\ f.area => r.extent.numbers \in {None, "CRS84", "WGS84"}})

ListPublicCollections(rows, f, limit, offset) ==
  LET matching == ApplyCommonFilters(Select(rows, {r \in Range(rows) : r.public}), f)
  IN Found(Slice(matching, offset, limit), Len(matching))

ListUserCollections(rows, u, f, limit, offset) ==
  LET shown == ListUserResources(u, Range(rows), Collections)
      matching == ApplyCommonFilters(Select(rows, shown), f)
  IN Found(Slice(matching, offset, limit), Len(matching))

\* For the system and for admins no clause is added.
ListAllCollections(rows, f, limit, offset) ==
  LET matching == ApplyCommonFilters(rows, f)
  IN Found(Slice(matching, offset, limit), Len(matching))

\* MUTANT: pages counted from zero.
PageFromZero(page, size) == size * page

PageOffset(page, size) == size * (page - 1)

PaginatedListCollections(rows, a, f, page, size) ==
  LET offset == PageOffset(page, size) IN
  IF Visitor(a) THEN ListPublicCollections(rows, f, size, offset)
  ELSE IF IsSystem(a) \/ IsAdmin(a) THEN ListAllCollections(rows, f, size, offset)
  ELSE ListUserCollections(rows, a, f, size, offset)

\* The row of an identifier, as a set of at most one row.
GetByResourceIdentifier(rows, name) == {r \in Range(rows) : r.name = name}
GetByKey(rows, pk) == {r \in Range(rows) : r.pk = pk}

GetCollection(rows, a, name) ==
  {r \in GetByResourceIdentifier(rows, name) : IsSystem(a) \/ CanView(a, r)}

\* The pages of a listing, as many as there can be with something on them, and
\* what is served on them.
AllPages(rows, a, f, size) ==
  [n \in 1 .. Len(rows) |-> PaginatedListCollections(rows, a, f, n, size).items]

ServedOn(pages) == UNION {Range(pages[n]) : n \in DOMAIN pages}

-----------------------------------------------------------------------------
(* The configuration file manager: entries parsed once, a later entry in   *)
(* the place of an earlier one of the same identifier                      *)

ParseCollections(rows) ==
  Select(rows, {r \in Range(rows) :
    \A other \in Range(rows) : other.name = r.name => other.pk <= r.pk})

Paginate(s, page, size) == Slice(s, size * (page - 1), size)

ConfigGetCollection(rows, a, name) ==
  {r \in Range(ParseCollections(rows)) : r.name = name /\ (IsSystem(a) \/ CanView(a, r))}

ConfigPaginatedList(rows, a, f, page, size) ==
  LET entries == ParseCollections(rows)
      candidates == Select(entries, {r \in Range(entries) :
        /\ f.like # "all" => r.name = f.like
        /\ f.area => r.extent.numbers \in {None, "CRS84", "WGS84"}})
      accessible == Select(candidates,
        {r \in Range(candidates) : IsSystem(a) \/ CanView(a, r)})
  IN Found(Paginate(accessible, page, size), Len(accessible))

ConfigAllPages(rows, a, f, size) ==
  [n \in 1 .. Len(rows) |-> ConfigPaginatedList(rows, a, f, n, size).items]
=============================================================================
