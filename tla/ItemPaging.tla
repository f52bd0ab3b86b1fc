------------------------------ MODULE ItemPaging ------------------------------
(***************************************************************************)
(* A client that walks through the items of a collection by following the  *)
(* links of the pages, while the data source changes.                      *)
(*                                                                         *)
(* One request of the client is two reads of the provider, the page and    *)
(* then the count of the matches; the source may change between them.  The *)
(* JSON route ("api") validates its query and repeats it in its links; the *)
(* HTML route ("html") reads its query with from_query_parameters and      *)
(* from_feature_filter, and its links carry an offset and a limit only.    *)
(*                                                                         *)
(* The client goes forward until a page has no next link and may then go   *)
(* back until a page has no previous one.                                  *)
(***************************************************************************)
EXTENDS FeatureProviders

CONSTANTS
  Scans,          \* contents of the source a run starts from
  SourceSettings, \* sources, with the page sizes of their collection
  Queries,        \* what the client asks for
  PageSizeMax,    \* settings.page_size_max
  MaxFeatures,    \* bound on the rows of the source
  MaxEdits        \* bound on the changes of the source

RawBoxes == {"none", "flat", "solid", "five", "short", "text"}
RawQueries == [bbox : RawBoxes, bboxCrs : Crs, crs : Crs, datetime : Periods,
               limit : Nat, offset : Nat, extra : BOOLEAN]
Routes == {"api", "html"}

ASSUME ScansAssumption ==
  /\ Scans \subseteq Seq(Rows)
  /\ \A s \in Scans :
       Len(s) <= MaxFeatures /\ \A i, j \in DOMAIN s : s[i].id = s[j].id => i = j
ASSUME SettingsAssumption == SourceSettings \subseteq Sources
ASSUME QueriesAssumption == Queries \subseteq RawQueries
ASSUME SizesAssumption ==
  PageSizeMax \in Nat \ {0} /\ MaxFeatures \in Nat /\ MaxEdits \in Nat

VARIABLES
  provider,   \* the provider of the collection and its page sizes
  features,   \* the rows of its data source, in the order of a scan
  edits,      \* changes of the source so far
  walker,     \* the client: its step, route, query and heading
  filter,     \* the filter of the request being answered
  page,       \* the rows the provider listed for it
  pagination, \* the pagination context of the last answer
  walked,     \* identifiers received going forward, in order
  retraced,   \* identifiers received going back
  atStart,    \* the matching rows when the walk began, from its offset on
  calm        \* no row was taken out or moved since the walk began

walkVars == <<provider, features, edits, walker, filter, page, pagination,
              walked, retraced, atStart, calm>>

WalkSteps == {"idle", "listing", "counting", "answered", "done", "rejected", "failed"}
PlainFilter == [bbox |-> "none", bboxCrs |-> "CRS84", crs |-> "CRS84",
             datetime |-> AnyTime, limit |-> 1, offset |-> 0]
NoPagination == [limit |-> 1, offset |-> 0, matched |-> 0, returned |-> 0]

WalkTypeOK ==
  /\ provider \in SourceSettings
  /\ features \in Seq(Rows) /\ Len(features) <= MaxFeatures
  /\ edits \in 0..MaxEdits
  /\ walker \in [step : WalkSteps, route : Routes, asked : Queries,
                 heading : {"forward", "back"}]
  /\ filter \in Filters
  /\ page \in Seq(Rows)
  /\ pagination \in [limit : Nat \ {0}, offset : Nat, matched : Nat, returned : Nat]
  /\ walked \in Seq(Ids) /\ retraced \subseteq Ids
  /\ atStart \in Seq(Ids)
  /\ calm \in BOOLEAN

-----------------------------------------------------------------------------
(* From the query of a request to a filter *)

\* _parse_bbox accepts four or six numbers; the JSON route refuses the rest,
\* a limit below one, and parameters it does not know.
ParseBboxFails(q) == q.bbox \in {"five", "short", "text"}
ApiRefuses(q) == ParseBboxFails(q) \/ q.limit = 0 \/ q.extra

ApiFilter(q) ==
  [bbox |-> q.bbox, bboxCrs |-> q.bboxCrs, crs |-> q.crs,
   datetime |-> q.datetime, limit |-> q.limit, offset |-> q.offset]

\* from_feature_filter takes the first four numbers, whatever follows, no box
\* from fewer, and no date.  A word among them, or a limit below one, raises.
HtmlRaises(q) == q.bbox = "text" \/ q.limit = 0

HtmlFilter(q) ==
  [bbox |-> CASE q.bbox = "short"            -> "none"
              [] q.bbox \in {"solid", "five"} -> "skewed"
              [] OTHER                       -> q.bbox,
   bboxCrs |-> q.bboxCrs, crs |-> q.crs, datetime |-> AnyTime,
   limit |-> q.limit, offset |-> q.offset]

\* get_collection_pagination_limit; the filter always carries a limit.
PaginationLimit(requested) ==
  Min({requested, IF provider.pageMax # 0 THEN provider.pageMax ELSE PageSizeMax})

-----------------------------------------------------------------------------
(* The links of a page *)

HasPrev(p) == p.offset > 0
HasNext(p) == p.matched > p.offset + p.limit
PrevOffset(p) == Max({0, p.offset - p.limit})
\* MUTANT: the next page after what the page held, not after its limit.
NextOffsetByReturned(p) == p.offset + p.returned

NextOffset(p) == p.offset + p.limit

\* The JSON links repeat the filter with its own limit; those of the HTML
\* page give the limit of the page and nothing else.
LinkedFilter(offset) ==
  IF walker.route = "api"
    THEN [filter EXCEPT !.offset = offset]
    ELSE [PlainFilter EXCEPT !.offset = offset, !.limit = pagination.limit]

-----------------------------------------------------------------------------
(* Requests *)

WalkInit ==
  /\ provider \in SourceSettings
  /\ features \in Scans
  /\ edits = 0
  /\ walker \in [step : {"idle"}, route : Routes, asked : Queries,
                 heading : {"forward"}]
  /\ filter = PlainFilter
  /\ page = <<>>
  /\ pagination = NoPagination
  /\ walked = <<>> /\ retraced = {} /\ atStart = <<>>
  /\ calm = TRUE

\* The first request of the walk, refused or turned into a filter.
BeginWalk ==
  LET q == walker.asked
      wanted == IF walker.route = "api" THEN ApiFilter(q) ELSE HtmlFilter(q)
  IN
  /\ walker.step = "idle"
  /\ \/ /\ walker.route = "api" /\ ApiRefuses(q)
        /\ walker' = [walker EXCEPT !.step = "rejected"]
        /\ UNCHANGED <<filter, atStart>>
     \/ /\ walker.route = "html" /\ HtmlRaises(q)
        /\ walker' = [walker EXCEPT !.step = "failed"]
        /\ UNCHANGED <<filter, atStart>>
     \/ /\ IF walker.route = "api" THEN ~ApiRefuses(q) ELSE ~HtmlRaises(q)
        /\ filter' = wanted
        /\ walker' = [walker EXCEPT !.step = "listing"]
        /\ atStart' =
             LET m == IF wanted.bboxCrs = "bad" THEN <<>>
                      ELSE Matching(features, wanted, provider)
             IN [i \in 1 .. Max({0, Len(m) - wanted.offset}) |-> m[wanted.offset + i].id]
  /\ UNCHANGED <<provider, features, edits, page, pagination, walked, retraced,
                 calm>>

\* list_collection_items, up to the return of list_features.
ListPage ==
  /\ walker.step = "listing"
  /\ \/ /\ ListOutcome(features, filter, provider) = "listed"
        /\ page' = ListFeatures(features, filter, provider)
        /\ walker' = [walker EXCEPT !.step = "counting"]
     \/ /\ ListOutcome(features, filter, provider) = "refused"
        /\ walker' = [walker EXCEPT !.step = "rejected"]
        /\ UNCHANGED page
     \/ /\ ListOutcome(features, filter, provider) = "raised"
        /\ walker' = [walker EXCEPT !.step = "failed"]
        /\ UNCHANGED page
  /\ UNCHANGED <<provider, features, edits, filter, pagination, walked, retraced,
                 atStart, calm>>

\* The rest of list_collection_items: the count, the pagination context and
\* the answer, received by the client.
CountRaises == provider.kind = "collection-config" /\ BoxRaises(features, filter)

CountAndAnswer ==
  /\ walker.step = "counting" /\ ~CountRaises
  /\ pagination' = [limit |-> PaginationLimit(filter.limit),
                    offset |-> filter.offset,
                    matched |-> CountItems(features, filter, provider).matched,
                    returned |-> Len(page)]
  /\ walker' = [walker EXCEPT !.step = "answered"]
  /\ IF walker.heading = "forward"
       THEN /\ walked' = walked \o [i \in DOMAIN page |-> page[i].id]
            /\ UNCHANGED retraced
       ELSE /\ retraced' = retraced \cup IdsIn(page)
            /\ UNCHANGED walked
  /\ UNCHANGED <<provider, features, edits, filter, page, atStart, calm>>

\* A box nothing was compared with when the page was listed, and now is.
CountFails ==
  /\ walker.step = "counting" /\ CountRaises
  /\ walker' = [walker EXCEPT !.step = "failed"]
  /\ UNCHANGED <<provider, features, edits, filter, page, pagination, walked,
                 retraced, atStart, calm>>

FollowNext ==
  /\ walker.step = "answered" /\ walker.heading = "forward"
  /\ HasNext(pagination)
  /\ filter' = LinkedFilter(NextOffset(pagination))
  /\ walker' = [walker EXCEPT !.step = "listing"]
  /\ page' = <<>>
  /\ UNCHANGED <<provider, features, edits, pagination, walked, retraced,
                 atStart, calm>>

\* At the last page the client stops, or turns back and keeps that page.
TurnBack ==
  /\ walker.step = "answered" /\ walker.heading = "forward"
  /\ ~HasNext(pagination)
  /\ walker' = [walker EXCEPT !.heading = "back"]
  /\ retraced' = IdsIn(page)
  /\ UNCHANGED <<provider, features, edits, filter, page, pagination, walked,
                 atStart, calm>>

FollowPrev ==
  /\ walker.step = "answered" /\ walker.heading = "back"
  /\ HasPrev(pagination)
  /\ filter' = LinkedFilter(PrevOffset(pagination))
  /\ walker' = [walker EXCEPT !.step = "listing"]
  /\ page' = <<>>
  /\ UNCHANGED <<provider, features, edits, pagination, walked, retraced,
                 atStart, calm>>

Stop ==
  /\ walker.step = "answered" /\ walker.heading = "back"
  /\ ~HasPrev(pagination)
  /\ walker' = [walker EXCEPT !.step = "done"]
  /\ UNCHANGED <<provider, features, edits, filter, page, pagination, walked,
                 retraced, atStart, calm>>

WalkRequest == BeginWalk \/ ListPage \/ CountAndAnswer \/ CountFails \/ FollowNext
               \/ TurnBack \/ FollowPrev \/ Stop

-----------------------------------------------------------------------------
(* Changes of the source.  The rows of collection-config are part of the   *)
(* collection; the others belong to somebody else.                         *)

InsertFeature ==
  /\ edits < MaxEdits /\ Len(features) < MaxFeatures
  /\ \E r \in Rows :
       /\ r.id \notin IdsIn(features)
       /\ r.stamp = Open
       /\ features' = Append(features, r)
  /\ edits' = edits + 1
  /\ UNCHANGED <<provider, walker, filter, page, pagination, walked, retraced,
                 atStart, calm>>

DeleteFeature ==
  /\ edits < MaxEdits
  /\ \E i \in DOMAIN features : features' = RemoveAt(features, i)
  /\ edits' = edits + 1
  /\ calm' = FALSE
  /\ UNCHANGED <<provider, walker, filter, page, pagination, walked, retraced,
                 atStart>>

\* An update of a row of a PostgreSQL table writes a new version of it, which
\* a scan may meet at another position.
TouchFeature ==
  /\ edits < MaxEdits
  /\ provider.kind = "postgis"
  /\ \E i \in DOMAIN features : features' = Append(RemoveAt(features, i), features[i])
  /\ edits' = edits + 1
  /\ calm' = FALSE
  /\ UNCHANGED <<provider, walker, filter, page, pagination, walked, retraced,
                 atStart>>

Edit == walker.step # "idle" /\ (InsertFeature \/ DeleteFeature \/ TouchFeature)

WalkNext == WalkRequest \/ Edit
WalkSpec == WalkInit /\ [][WalkNext]_walkVars
FairWalkSpec == WalkSpec /\ WF_walkVars(WalkRequest)

-----------------------------------------------------------------------------
(* Properties *)

Ended == walker.step \in {"done", "rejected", "failed"}
AtLastPage == walker.step = "answered" /\ walker.heading = "forward"
              /\ ~HasNext(pagination)

\* The filter of the walk is the query: always on the JSON route, and on the
\* HTML route when the query asks for nothing its links leave out.
LinksCarryQuery ==
  walker.route = "api"
  \/ LET f == HtmlFilter(walker.asked) IN
     f.bbox = "none" /\ f.crs = "CRS84" /\ f.bboxCrs = "CRS84"

\* The page of the provider is as long as its links assume, and it counts the
\* matches it lists.  pygeoapi falls short of the first when its own limit is
\* the smaller one, of the second when the box is in another system.
FullPages ==
  provider.kind = "pygeoapi" => PaginationLimit(walker.asked.limit) <= MaxItems(provider)
CountsItsMatches ==
  provider.kind = "pygeoapi" /\ walker.asked.bbox # "none" =>
    walker.asked.bboxCrs = "CRS84"

\* Following the links misses no item (wrapper.py list_collection_items and
\* PaginationContext.get_links).  At the last page the client has received every
\* item that matched when it began, whatever was appended to the source since,
\* unless rows were taken out or moved.  Back at the first page it has received
\* again everything that matches.
NothingSkipped ==
  LinksCarryQuery /\ FullPages /\ CountsItsMatches =>
    /\ AtLastPage /\ calm => Range(atStart) \subseteq Range(walked)
    /\ walker.step = "done" /\ edits = 0 =>
         IdsIn(Matching(features, filter, provider)) \subseteq retraced

\* With a limit no larger than the page size allowed, the pages are those of
\* one listing: what was received is a prefix of the matches or the matches
\* and what was appended to them, each once and in order.
PagesDoNotOverlap ==
  /\ calm /\ LinksCarryQuery /\ FullPages
  /\ walker.asked.limit <= PaginationLimit(walker.asked.limit)
  => /\ IsPrefix(walked, atStart) \/ IsPrefix(atStart, walked)
     /\ Cardinality(Range(walked)) = Len(walked)

\* What the client receives is what it asked for: each item listed on the JSON
\* route lies in the box, read in the system the client named, and within the
\* period.  pyogrio reads the box in the system of the source, and only
\* collection-config and pygeoapi look at dates, where the source has them.
PageHonoursQuery ==
  LET q == walker.asked
      area == Bbox2d([filter EXCEPT !.bbox = q.bbox])
  IN
  walker.route = "api" /\ walker.step \in {"counting", "answered"} =>
    \A r \in Range(page) :
      /\ (provider.kind = "pyogrio" => q.bboxCrs = provider.native)
         => InArea(r, area, q.bboxCrs)
      /\ provider.kind \in {"collection-config", "pygeoapi"} /\ provider.timed
           /\ q.datetime # AnyTime
         => r.stamp \in ParseDatetimeRange(q.datetime)

\* The identifier a page gives for an item leads back to it: asked for by that
\* text (get_collection_item), in the system of the page, the item is answered
\* while it is in the source and is missing, not an error, afterwards, and no text
\* leads to an item listed under another.  postgis cannot read back the types
\* whose Python constructor takes no text.
ListedItemsResolve ==
  walker.step = "answered" /\ (provider.kind = "postgis" => provider.idType # "date") =>
    /\ \A i \in DOMAIN page :
         GetFeature(features, Str(page[i].id, provider.idType), filter.crs, provider)
           = Got(WithId(features, {page[i].id}))
    /\ \A text \in Texts :
         \A r \in GetFeature(features, text, filter.crs, provider).rows :
           Str(r.id, provider.idType) = text

\* A walk ends, though its source may grow while it goes on: every next link
\* leads further (get_links), and the changes are bounded here.
WalkEnds == <>(Ended)
=============================================================================
