--------------------------- MODULE ServerMetadata ---------------------------
(***************************************************************************)
(* The server metadata, one row of the database of the postgis manager:    *)
(* servers read it when they start, administrators edit it from the        *)
(* command line and in the form of the admin pages, and whoever finds no   *)
(* row creates one.  The database is migrated meanwhile.                   *)
(*                                                                         *)
(* Each call of the manager has a session of its own and each await is a   *)
(* boundary between steps.  An edit reads the metadata in one call, merges *)
(* what was typed with it, and writes in another call, which finds the     *)
(* row again.  Of its fields two are modelled: the title, which the        *)
(* command line always writes, and the url, which it writes when given.    *)
(***************************************************************************)
EXTENDS Integers, Sequences, FiniteSets, Database

CONSTANTS
  Sessions,   \* processes that read and edit the server metadata
  Scenarios   \* bound: the database is migrated or the metadata edited, subset of
              \* {"migrations", "edits"}; servers start in both

ASSUME ScenariosAssumption == Scenarios \subseteq {"migrations", "edits"}

VARIABLES
  scenario,  \* which of them
  metadata,  \* rows of servermetadata
  session    \* what each session does

vars == <<dbVars, scenario, metadata, session>>

Unset == "unset"
DefaultMetadata == [title |-> "default", url |-> "none"]
Metadata == [title : {"default", "given"}, url : {"none", "given"}]

\* What a user types.  In the form a url may be emptied, a title may not.
Edits ==
  [by : {"cli"}, title : {Unset, "given"}, url : {Unset, "given"}]
  \cup [by : {"form"}, title : {Unset, "given"}, url : {Unset, "given", "none"}]
NoEdit == [by |-> "nobody", title |-> Unset, url |-> Unset]

Update == [title : {Unset, "default", "given"}, url : {Unset, "none", "given"}]

\* known is the metadata read last, row and update where an edit writes and what.
Session ==
  [phase : {"closed", "starting", "serving", "opening", "merging", "editing", "updating"},
   edit : Edits \cup {NoEdit}, known : Metadata, row : Nat,
   update : Update]
Closed == [phase |-> "closed", edit |-> NoEdit, known |-> DefaultMetadata, row |-> 0,
           update |-> [title |-> Unset, url |-> Unset]]

TypeOK ==
  /\ DbTypeOK
  /\ metadata \in Seq(Metadata)
  /\ session \in [Sessions -> Session]

Init ==
  /\ scenario \in Scenarios
  /\ Migrated(IF scenario = "edits" THEN Newest ELSE 0)
  /\ metadata = <<>>
  /\ session = [s \in Sessions |-> Closed]

-----------------------------------------------------------------------------
(* get_server_metadata, of which update_server_metadata has its own copy. *)

Creating(s) == session[s].phase \in {"starting", "opening", "editing"}

\* A SELECT waits for a migration that changes the table, and names every column.
Readable == ~Locked("servermetadata") /\ MappedServerMetadata \subseteq schema

\* What a session that found row i goes on with: a server keeps the title in its
\* API document, an edit is merged with what it read, or writes the row.
Found(state, i, stored) ==
  CASE state.phase = "starting" -> [state EXCEPT !.phase = "serving", !.known = stored[i]]
    [] state.phase = "opening" -> [state EXCEPT !.phase = "merging", !.known = stored[i]]
    [] state.phase = "editing" ->
         [state EXCEPT !.phase = "updating", !.known = stored[i], !.row = i]

\* MUTANT: the row is created without looking for one.
LookBlind(s, state) ==
  /\ Readable
  /\ session' = [session EXCEPT ![s] = state]
  /\ UNCHANGED <<dbVars, scenario, metadata>>

\* Without an ORDER BY, .first() is any of the rows.
Look(s, state) ==
  /\ Readable
  /\ \/ \E i \in DOMAIN metadata :
          session' = [session EXCEPT ![s] = Found(state, i, metadata)]
     \/ metadata = <<>> /\ session' = [session EXCEPT ![s] = state]
  /\ UNCHANGED <<dbVars, scenario, metadata>>

CreateMetadata(s) ==
  /\ Creating(s) /\ Readable
  /\ metadata' = Append(metadata, DefaultMetadata)
  /\ \E i \in DOMAIN metadata' :
       session' = [session EXCEPT ![s] = Found(session[s], i, metadata')]
  /\ UNCHANGED <<dbVars, scenario>>

StartServer(s) ==
  session[s] = Closed /\ Look(s, [Closed EXCEPT !.phase = "starting"])

-----------------------------------------------------------------------------
(* Edits. *)

OpenEdit(s, edit) ==
  /\ scenario = "edits"
  /\ session[s] = Closed
  /\ Look(s, [Closed EXCEPT !.phase = "opening", !.edit = edit])

Typed(given, existing) == IF given = Unset THEN existing ELSE given

\* MUTANT: fields that were not given are written as they were read.
UnflattenAll(existing, flattened) ==
  [title |-> Typed(flattened.title, existing.title),
   url |-> Typed(flattened.url, existing.url)]

\* From the command line: the title is always part of the update, the url is if it
\* was given.
UnflattenServerMetadataUpdate(existing, flattened) ==
  [title |-> Typed(flattened.title, existing.title), url |-> flattened.url]

\* From the form, which is submitted as a whole.
EditForm(shown, typed) ==
  [title |-> Typed(typed.title, shown.title), url |-> Typed(typed.url, shown.url)]

Submit(s) ==
  /\ session[s].phase = "merging"
  /\ LET merged == IF session[s].edit.by = "cli"
                   THEN UnflattenServerMetadataUpdate(session[s].known, session[s].edit)
                   ELSE EditForm(session[s].known, session[s].edit)
     IN Look(s, [session[s] EXCEPT !.phase = "editing", !.update = merged])

\* setattr for what the update sets, and commit: SQLAlchemy writes the columns that
\* differ from what it has loaded.
UpdateMetadata(s) ==
  /\ session[s].phase = "updating" /\ Readable
  /\ LET written(field, stored) ==
           LET new == session[s].update[field]
           IN IF new \in {Unset, session[s].known[field]} THEN stored ELSE new
     IN metadata' = [metadata EXCEPT ![session[s].row] =
          [title |-> written("title", @.title), url |-> written("url", @.url)]]
  /\ session' = [session EXCEPT ![s] = Closed]
  /\ UNCHANGED <<dbVars, scenario>>

\* A server stops, a user leaves the form, or the table is gone and a query fails.
CloseSession(s) ==
  /\ session[s] # Closed
  /\ \/ session[s].phase \in {"serving", "merging"}
     \/ ~(MappedServerMetadata \subseteq schema)
  /\ session' = [session EXCEPT ![s] = Closed]
  /\ UNCHANGED <<dbVars, scenario, metadata>>

-----------------------------------------------------------------------------
MigrateDatabase ==
  /\ scenario = "migrations"
  /\ Migrate
  /\ metadata' = IF InTables(schema', {"servermetadata"}) = {} THEN <<>> ELSE metadata
  /\ UNCHANGED <<scenario, session>>

Next ==
  \/ MigrateDatabase
  \/ \E s \in Sessions :
       \/ StartServer(s) \/ CreateMetadata(s)
       \/ \E edit \in Edits : OpenEdit(s, edit)
       \/ Submit(s) \/ UpdateMetadata(s) \/ CloseSession(s)

Spec == Init /\ [][Next]_vars

-----------------------------------------------------------------------------
(* Properties *)

\* get_server_metadata and update_server_metadata create the row without a lock, so
\* the first sessions can make one each; once there is a row and nobody is about to
\* create one, no session, edit or migration ever brings about another, unless a
\* downgrade drops the table.
SettledStays ==
  [][ /\ metadata # <<>> /\ \A s \in Sessions : ~Creating(s)
      /\ InTables(schema', {"servermetadata"}) # {}
      => /\ Len(metadata') = Len(metadata) /\ \A s \in Sessions : ~Creating(s)' ]_vars

\* `potto metadata update` without a url leaves the url of every row alone, though
\* it merges its fields with metadata it read in an earlier session and others edit
\* the url in between (unflatten_server_metadata_update, update_metadata).
UnnamedUrlSurvives ==
  [][ \A s \in Sessions :
        /\ session[s].phase = "updating" /\ session'[s] = Closed
        /\ session[s].edit.by = "cli" /\ session[s].edit.url = Unset
        /\ Len(metadata') = Len(metadata)
        => \A i \in DOMAIN metadata : metadata'[i].url = metadata[i].url ]_vars

=============================================================================
