---------------------------- MODULE MCCatalogue ----------------------------
EXTENDS Catalogue

MCSimilar == [n \in Collections |-> Collections]
MCActs == [c \in Clients |->
  IF c = "c1" THEN [id |-> "owner", scopes |-> {}]
  ELSE [id |-> "helper", scopes |-> {Editor("roads")}]]

MCAsks == [c \in Clients |->
  IF c = "c1" THEN {"create", "import", "serve"} ELSE {"serve", "update", "delete"}]

Cfg(k, d) == [kind |-> k, declared |-> d, dated |-> k = "duckdb"]
MCConfigs == {Cfg("duckdb", "local"), Cfg("postgis", "unset"),
              Cfg("pygeoapi", "unset")}
MCDrafts == {
  [public |-> FALSE, storage |-> None, extent |-> NoExtent],
  [public |-> TRUE, storage |-> "local", extent |-> In("CRS84")]}
MCTables == {<<
  [pk |-> 1, name |-> "rivers", owner |-> "owner", public |-> FALSE,
   config |-> Cfg("postgis", "unset"), storage |-> "local", extent |-> NoExtent,
   dates |-> FALSE]>>}
MCContents == <<
  [native |-> "local", rows |-> TRUE, columns |-> [n \in {"id", "name"} |-> "text"]],
  [native |-> "WGS84", rows |-> TRUE, columns |-> [n \in {"id"} |-> "integer"]]>>
=============================================================================
