------------------------ MODULE ServerMetadataProofs ------------------------
(***************************************************************************)
(* What is proved of the migrations, the health check and the server       *)
(* metadata, for any migrators, targets of commands and sessions.          *)
(***************************************************************************)
EXTENDS ServerMetadata, TLAPS

-----------------------------------------------------------------------------
(* The schema of a revision *)

LEMMA SixteenRevisions == Newest = 16
BY DEF Newest, Revisions

LEMMA InSchema ==
  ASSUME NEW n \in 0..Newest, NEW fact
  PROVE  fact \in SchemaAt(n) <=>
           \E i \in 1..n : /\ fact \in Revisions[i].up.add
                           /\ \A j \in i+1..n : ~Removes(Revisions[j].up, fact)
BY DEF SchemaAt, Schemas

\* The upgrades of an empty database, one revision after the other.
LEMMA SchemaOfNothing == SchemaAt(0) = {}
<1>1. 0 \in 0..Newest
  BY SixteenRevisions
<1>. QED BY <1>1, InSchema

LEMMA SchemaOfNext ==
  ASSUME NEW n \in Nat, n + 1 \in 0..Newest
  PROVE  SchemaAt(n + 1) = Applied(Revisions[n + 1].up, SchemaAt(n))
<1>1. n \in 0..Newest
  BY SixteenRevisions
<1>2. ASSUME NEW fact
      PROVE  fact \in SchemaAt(n + 1) <=> fact \in Applied(Revisions[n + 1].up, SchemaAt(n))
  <2> DEFINE Adds1(i) == fact \in Revisions[i].up.add
             Removes1(j) == Removes(Revisions[j].up, fact)
  <2>1. fact \in SchemaAt(n) <=> \E i \in 1..n : Adds1(i) /\ \A j \in i+1..n : ~Removes1(j)
    BY <1>1, InSchema
  <2>2. fact \in SchemaAt(n + 1)
          <=> \E i \in 1..n + 1 : Adds1(i) /\ \A j \in i+1..n + 1 : ~Removes1(j)
    BY InSchema
  <2>3. fact \in Applied(Revisions[n + 1].up, SchemaAt(n))
          <=> Adds1(n + 1) \/ (fact \in SchemaAt(n) /\ ~Removes1(n + 1))
    BY DEF Applied
  <2> HIDE DEF Adds1, Removes1
  <2>4. (\E i \in 1..n + 1 : Adds1(i) /\ \A j \in i+1..n + 1 : ~Removes1(j))
          <=> \/ Adds1(n + 1)
              \/ (\E i \in 1..n : Adds1(i) /\ \A j \in i+1..n : ~Removes1(j)) /\ ~Removes1(n + 1)
    <3>1. \A i \in 1..n : (\A j \in i+1..n + 1 : ~Removes1(j))
                             <=> (\A j \in i+1..n : ~Removes1(j)) /\ ~Removes1(n + 1)
      OBVIOUS
    <3>2. 1..n + 1 = (1..n) \cup {n + 1} /\ (n + 1) + 1..n + 1 = {}
      OBVIOUS
    <3>. QED BY <3>1, <3>2
  <2>. QED BY <2>1, <2>2, <2>3, <2>4
<1>. QED BY <1>2

-----------------------------------------------------------------------------
(* A downgrade undoes its upgrade *)

\* What an upgrade replaces, and what it only adds or only drops.
LEMMA ReplacementUndone ==
  ASSUME NEW S, NEW old, NEW new, Fits(Script({}, old, new), S)
  PROVE  Applied(Script({}, new, old), Applied(Script({}, old, new), S)) = S
<1>1. old \subseteq S /\ \A a \in new, f \in S \ old : a # f
  BY DEF Fits, Script, SameName
<1>. QED BY <1>1 DEF Applied, Script, Removes

\* A table that nothing of the schema before belongs to.
LEMMA CreationUndone ==
  ASSUME NEW S, NEW facts, NEW tables, NEW named, Fits(Adds(facts), S),
         named \subseteq facts,
         \A f \in facts : f \in named \/ TableOf(f) \in tables,
         \A t \in tables : \E f \in facts : TableOf(f) = t /\ IsKey(f)
  PROVE  Applied(Script(tables, named, {}), Applied(Adds(facts), S)) = S
<1>1. (\A a \in facts, f \in S : a # f) /\ \A f \in S : TableOf(f) \notin tables
  BY DEF Fits, Script, Adds, SameName, InTables
<1>. QED BY <1>1 DEF Applied, Script, Adds, Removes

LEMMA FactsDiffer ==
  /\ \A a, b, c, t, n, w : Fact(a, b, c) = Fact(t, n, w) <=> a = t /\ b = n /\ c = w
  /\ \A t, n, w : TableOf(Fact(t, n, w)) = t /\ (IsKey(Fact(t, n, w)) <=> w = "primary_key")
BY DEF Fact, TableOf, IsKey

LEMMA InColumns ==
  \A t, n, w, table, names, what :
    Fact(t, n, w) \in Columns(table, names, what) <=> t = table /\ n \in names /\ w = what
BY FactsDiffer DEF Columns

\* What a revision that creates tables adds, its downgrade names or drops with them.
Creates(revision_) ==
  /\ \A f \in revision_.up.add :
       f \in revision_.down.drop \/ TableOf(f) \in revision_.down.tables
  /\ \A t \in revision_.down.tables : \E f \in revision_.up.add : TableOf(f) = t /\ IsKey(f)
  /\ revision_.up = Adds(revision_.up.add)
  /\ revision_.down = Script(revision_.down.tables, revision_.down.drop, {})
  /\ revision_.down.drop \subseteq revision_.up.add

LEMMA CreatingInitial == Creates(Initial)
<1> USE FactsDiffer, InColumns DEF Adds, Script, Optional, Required, Enumeration
<1>1. /\ Fact("collection", "collection_pkey", "primary_key") \in Initial.up.add
      /\ Fact("servermetadata", "servermetadata_pkey", "primary_key") \in Initial.up.add
      /\ Initial.down.tables = {"servermetadata", "collection"}
  BY DEF Initial
<1>2. \A f \in Initial.up.add :
        f \in Initial.down.drop \/ TableOf(f) \in Initial.down.tables
  BY DEF Initial, Columns
<1>3. \A t \in Initial.down.tables : \E f \in Initial.up.add : TableOf(f) = t /\ IsKey(f)
  BY <1>1
<1>4. /\ Initial.up = Adds(Initial.up.add)
      /\ Initial.down = Script(Initial.down.tables, Initial.down.drop, {})
      /\ Initial.down.drop \subseteq Initial.up.add
  BY DEF Initial
<1>. QED BY <1>2, <1>3, <1>4 DEF Creates

LEMMA CreatingUser == Creates(AddUserTable)
<1> USE FactsDiffer, InColumns DEF Adds, Script, Optional, Required
<1>1. /\ Fact("user", "user_pkey", "primary_key") \in AddUserTable.up.add
      /\ AddUserTable.down.tables = {"user"}
  BY DEF AddUserTable
<1>2. \A f \in AddUserTable.up.add :
        f \in AddUserTable.down.drop \/ TableOf(f) \in AddUserTable.down.tables
  BY DEF AddUserTable, Columns
<1>3. /\ AddUserTable.up = Adds(AddUserTable.up.add)
      /\ AddUserTable.down = Script(AddUserTable.down.tables, AddUserTable.down.drop, {})
      /\ AddUserTable.down.drop \subseteq AddUserTable.up.add
  BY DEF AddUserTable
<1>. QED BY <1>1, <1>2, <1>3 DEF Creates

LEMMA CreatingProcess == Creates(AddedProcessTable)
<1> USE FactsDiffer, InColumns DEF Adds, Script, Optional, Required
<1>1. /\ Fact("process", "process_pkey", "primary_key") \in AddedProcessTable.up.add
      /\ AddedProcessTable.down.tables = {"process"}
  BY DEF AddedProcessTable
<1>2. \A f \in AddedProcessTable.up.add :
        f \in AddedProcessTable.down.drop \/ TableOf(f) \in AddedProcessTable.down.tables
  BY DEF AddedProcessTable, Columns
<1>3. /\ AddedProcessTable.up = Adds(AddedProcessTable.up.add)
      /\ AddedProcessTable.down
           = Script(AddedProcessTable.down.tables, AddedProcessTable.down.drop, {})
      /\ AddedProcessTable.down.drop \subseteq AddedProcessTable.up.add
  BY DEF AddedProcessTable
<1>. QED BY <1>1, <1>2, <1>3 DEF Creates

LEMMA CreatingJob == Creates(AddedJobTable)
<1> USE FactsDiffer, InColumns DEF Adds, Script, Optional, Required, Enumeration
<1>1. /\ Fact("job", "job_pkey", "primary_key") \in AddedJobTable.up.add
      /\ AddedJobTable.down.tables = {"job"}
  BY DEF AddedJobTable
<1>2. \A f \in AddedJobTable.up.add :
        f \in AddedJobTable.down.drop \/ TableOf(f) \in AddedJobTable.down.tables
  BY DEF AddedJobTable, Columns
<1>3. /\ AddedJobTable.up = Adds(AddedJobTable.up.add)
      /\ AddedJobTable.down
           = Script(AddedJobTable.down.tables, AddedJobTable.down.drop, {})
      /\ AddedJobTable.down.drop \subseteq AddedJobTable.up.add
  BY DEF AddedJobTable
<1>. QED BY <1>1, <1>2, <1>3 DEF Creates

LEMMA CreatingRevisions == \A n \in {1, 3, 15, 16} : Creates(Revisions[n])
<1>1. /\ Revisions[1] = Initial /\ Revisions[3] = AddUserTable
      /\ Revisions[15] = AddedProcessTable /\ Revisions[16] = AddedJobTable
  BY DEF Revisions
<1>. QED BY <1>1, CreatingInitial, CreatingUser, CreatingProcess, CreatingJob

\* The other revisions replace facts by others, and their downgrades the other way
\* round, but for the one whose downgrade drops a constraint without a name.
Replaces(revision_) ==
  /\ revision_.up = Script({}, revision_.up.drop, revision_.up.add)
  /\ revision_.down = Script({}, revision_.up.add, revision_.up.drop)

LEMMA ReplacingRevisions == \A n \in {2} \cup 5..14 : Replaces(Revisions[n])
<1>1. /\ Replaces(AddedMetadataColumns) /\ Replaces(AddCollectionIsPublic)
      /\ Replaces(AddOidcSubToUser) /\ Replaces(UseStrIdForUserDropOidcSub)
      /\ Replaces(CascadeDeleteCollectionsOnUser) /\ Replaces(AddedCreationAndModifiedDates)
  BY DEF AddedMetadataColumns, AddCollectionIsPublic, AddOidcSubToUser,
     UseStrIdForUserDropOidcSub, CascadeDeleteCollectionsOnUser,
     AddedCreationAndModifiedDates, Replaces, Adds, Drops, Script
<1>2. /\ Replaces(AddedCollectionCrsInfo) /\ Replaces(AddedSpatialExtentCrs)
      /\ Replaces(AddedCustomExtentsPerCollection)
      /\ Replaces(AddDefaultSridToCollectionSpatialExtent)
      /\ Replaces(MakeCollectionCrsNotNull)
  BY DEF AddedCollectionCrsInfo, AddedSpatialExtentCrs, AddedCustomExtentsPerCollection,
     AddDefaultSridToCollectionSpatialExtent, MakeCollectionCrsNotNull,
     Replaces, Adds, Drops, Script
<1>3. /\ Revisions[2] = AddedMetadataColumns /\ Revisions[5] = AddCollectionIsPublic
      /\ Revisions[6] = AddOidcSubToUser /\ Revisions[7] = UseStrIdForUserDropOidcSub
      /\ Revisions[8] = CascadeDeleteCollectionsOnUser
      /\ Revisions[9] = AddedCreationAndModifiedDates
      /\ Revisions[10] = AddedCollectionCrsInfo /\ Revisions[11] = AddedSpatialExtentCrs
      /\ Revisions[12] = AddedCustomExtentsPerCollection
      /\ Revisions[13] = AddDefaultSridToCollectionSpatialExtent
      /\ Revisions[14] = MakeCollectionCrsNotNull
  BY DEF Revisions
<1>4. {2} \cup 5..14 = {2, 5, 6, 7, 8, 9, 10, 11, 12, 13, 14}
  OBVIOUS
<1>. QED BY <1>1, <1>2, <1>3, <1>4

Nameless == Fact("collection", "None", "restrict")

LEMMA OwnerStays ==
  Nameless \in Revisions[4].down.drop /\ \A i \in 1..4 : Nameless \notin Revisions[i].up.add
BY FactsDiffer, InColumns DEF Nameless, Revisions, Adds, Drops, Script, Optional, Required,
   Enumeration, Initial, AddedMetadataColumns, AddUserTable, AddOwnerIdToCollection

\* A downgrade that fits undoes an upgrade that fitted.
LEMMA DowngradeUndoes ==
  ASSUME NEW n \in 1..Newest, Fits(Revisions[n].up, SchemaAt(n - 1)),
         Fits(Revisions[n].down, SchemaAt(n))
  PROVE  Applied(Revisions[n].down, SchemaAt(n)) = SchemaAt(n - 1)
<1>1. n - 1 \in Nat /\ (n - 1) + 1 = n /\ n \in 1..16
  BY SixteenRevisions
<1>2. SchemaAt(n) = Applied(Revisions[n].up, SchemaAt(n - 1))
  BY <1>1, SchemaOfNext
<1>3. CASE n \in {1, 3, 15, 16}
  <2>1. Creates(Revisions[n])
    BY <1>3, CreatingRevisions
  <2>. QED BY <1>2, <2>1, CreationUndone DEF Creates
<1>4. CASE n \in {2} \cup 5..14
  <2>1. Replaces(Revisions[n])
    BY <1>4, ReplacingRevisions
  <2>. QED BY <1>2, <2>1, ReplacementUndone DEF Replaces
<1>5. CASE n = 4
  <2>1. Nameless \in SchemaAt(4)
    BY <1>5, OwnerStays DEF Fits
  <2>. QED BY <2>1, OwnerStays, InSchema, SixteenRevisions
<1>. QED BY <1>1, <1>3, <1>4, <1>5

-----------------------------------------------------------------------------
(* The schema is that of its revision *)

\* The upgrades up to a revision, which fitted when they ran.
Fitted(n) == \A i \in 1..n : Fits(Revisions[i].up, SchemaAt(i - 1))

\* A command that has begun goes to one of the targets.
Commanded == \A m \in Migrators : Begun(m) => migration[m].target \in Targets

\* A database that is migrated was migrated from nothing, script after script.
Grown ==
  scenario = "migrations" =>
    /\ Fitted(revision)
    /\ \A m \in Migrators : Open(m) => Fitted(migration[m].at)

SchemaInv == DbTypeOK /\ Commanded /\ SchemaIsItsRevisions /\ Grown

LEMMA ScriptApplied ==
  ASSUME NEW at \in 0..Newest, NEW target \in 0..Newest, at # target, Fitted(at),
         NEW script, script = IF target > at THEN Revisions[at + 1].up
                                             ELSE Revisions[at].down,
         NEW to, to = IF target > at THEN at + 1 ELSE at - 1,
         Fits(script, SchemaAt(at))
  PROVE  to \in 0..Newest /\ Applied(script, SchemaAt(at)) = SchemaAt(to) /\ Fitted(to)
<1>0. Newest = 16
  BY SixteenRevisions
<1>1. CASE target > at
  <2>1. to = at + 1 /\ script = Revisions[at + 1].up /\ at + 1 \in 0..Newest /\ at \in Nat
    BY <1>0, <1>1
  <2>2. Fitted(at + 1)
    <3>1. \A i \in 1..at + 1 : i \in 1..at \/ i = at + 1
      OBVIOUS
    <3>2. Fits(Revisions[at + 1].up, SchemaAt((at + 1) - 1))
      <4>1. (at + 1) - 1 = at
        OBVIOUS
      <4>. QED BY <2>1, <4>1
    <3>. QED BY <3>1, <3>2 DEF Fitted
  <2>. QED BY <2>1, <2>2, SchemaOfNext
<1>2. CASE target < at
  <2>1. /\ to = at - 1 /\ script = Revisions[at].down /\ at \in 1..Newest /\ at - 1 \in 0..Newest
        /\ \A i \in 1..at - 1 : i \in 1..at
    BY <1>0, <1>2
  <2>2. Fits(Revisions[at].up, SchemaAt(at - 1))
    BY <2>1 DEF Fitted
  <2>3. Applied(Revisions[at].down, SchemaAt(at)) = SchemaAt(at - 1)
    BY <2>1, <2>2, DowngradeUndoes
  <2>. QED BY <2>1, <2>3 DEF Fitted
<1>. QED BY <1>0, <1>1, <1>2

LEMMA TablesOfFacts ==
  ASSUME NEW script, NEW before, Fits(script, before), before \subseteq AllFacts,
         Applied(script, before) \subseteq AllFacts
  PROVE  Touched(script) \subseteq {TableOf(fact) : fact \in AllFacts}
<1>1. script.add \subseteq Applied(script, before)
  BY DEF Applied
<1>2. \A table \in script.tables : \E fact \in before : TableOf(fact) = table
  BY DEF Fits, InTables
<1>3. script.drop \subseteq before
  BY DEF Fits
<1>. QED BY <1>1, <1>2, <1>3 DEF Touched

LEMMA RowsTyped ==
  ASSUME NEW script, NEW held \in SUBSET RowFacts
  PROVE  RowsAfter(script, held) \in SUBSET RowFacts
BY DEF RowsAfter, RowFacts

LEMMA SchemaInitially == Init => SchemaInv
<1>. SUFFICES ASSUME Init PROVE SchemaInv
  OBVIOUS
<1>1. /\ revision \in {0, Newest} /\ revision \in 0..Newest /\ rows = {}
      /\ schema = SchemaAt(revision) /\ \A m \in Migrators : migration[m] = Idle
      /\ migration \in [Migrators -> {Idle}]
      /\ scenario = "migrations" => revision = 0
  BY SixteenRevisions DEF Init, Migrated
<1>2. Idle \in [target : Targets \cup {-1}, from : 0..Newest, at : 0..Newest,
               schema : SUBSET AllFacts, rows : SUBSET RowFacts,
               locked : SUBSET {TableOf(fact) : fact \in AllFacts}]
  BY SixteenRevisions DEF Idle
<1>3. \A m \in Migrators : ~Begun(m) /\ ~Open(m)
  BY <1>1 DEF Begun, Open
<1>4. Fitted(0)
  BY DEF Fitted
<1>5. SchemaAt(revision) \subseteq AllFacts
  BY <1>1 DEF AllFacts
<1>6. DbTypeOK
  BY <1>1, <1>2, <1>5 DEF DbTypeOK
<1>. QED BY <1>1, <1>3, <1>4, <1>6 DEF SchemaInv, Commanded, SchemaIsItsRevisions, Grown

\* What a transaction of a migrator is.
Transaction ==
  [target : Targets \cup {-1}, from : 0..Newest, at : 0..Newest,
   schema : SUBSET AllFacts, rows : SUBSET RowFacts,
   locked : SUBSET {TableOf(fact) : fact \in AllFacts}]

\* What SchemaInv says of one migrator's transaction.
Sound(transaction) ==
  /\ transaction \in Transaction
  /\ transaction # Idle => transaction.target \in Targets
  /\ transaction # Idle /\ transaction.at # transaction.from =>
       /\ transaction.schema = SchemaAt(transaction.at)
       /\ scenario = "migrations" => Fitted(transaction.at)

Committed ==
  /\ revision \in 0..Newest /\ schema = SchemaAt(revision) /\ rows \subseteq RowFacts
  /\ scenario = "migrations" => Fitted(revision)

Transactions ==
  /\ migration \in [Migrators -> Transaction]
  /\ \A m \in Migrators : Sound(migration[m])

LEMMA SchemaInvByParts ==
  SchemaInv <=> Committed /\ Transactions
<1>1. \A n \in 0..Newest : SchemaAt(n) \subseteq AllFacts
  BY DEF AllFacts
<1>2. DbTypeOK <=> /\ schema \subseteq AllFacts /\ revision \in 0..Newest
                   /\ rows \subseteq RowFacts /\ migration \in [Migrators -> Transaction]
  BY DEF DbTypeOK, Transaction
<1>3. migration \in [Migrators -> Transaction] =>
        \A m \in Migrators : migration[m] \in Transaction
  OBVIOUS
<1>. QED
  BY <1>1, <1>2, <1>3 DEF SchemaInv, Commanded, SchemaIsItsRevisions, Grown, Committed,
     Transactions, Sound, Begun, Open

LEMMA SchemaInvAfter == SchemaInv' <=> Committed' /\ Transactions'
BY SchemaInvByParts, PTL

\* One transaction changes and what is committed does not.
LEMMA OneTransaction ==
  ASSUME SchemaInv, NEW m \in Migrators, NEW transaction, Sound(transaction),
         migration' = [migration EXCEPT ![m] = transaction],
         UNCHANGED <<schema, revision, rows, scenario>>
  PROVE  SchemaInv'
<1>1. Committed'
  BY SchemaInvByParts DEF Committed
<1>2. migration' \in [Migrators -> Transaction]
  BY SchemaInvByParts DEF Transactions, Sound
<1>3. \A other \in Migrators : Sound(migration[other])
  BY SchemaInvByParts DEF Transactions
<1>4. \A other \in Migrators :
        migration'[other] = IF other = m THEN transaction ELSE migration[other]
  BY SchemaInvByParts DEF Transactions
<1>5. \A other \in Migrators : Sound(migration[other])'
  BY <1>3, <1>4 DEF Sound
<1>. QED BY <1>1, <1>2, <1>5, SchemaInvAfter DEF Transactions

LEMMA IdleSound == Sound(Idle)
BY SixteenRevisions DEF Sound, Idle, Transaction

LEMMA BeginSound ==
  ASSUME SchemaInv, UNCHANGED scenario, NEW m \in Migrators, NEW target \in Targets,
         Begin(m, target)
  PROVE  SchemaInv'
<1> DEFINE begun == [target |-> target, from |-> revision, at |-> revision, schema |-> {},
                     rows |-> {}, locked |-> {}]
<1>1. begun \in Transaction
  BY SchemaInvByParts DEF Transaction, Committed
<1>2. Sound(begun)
  BY <1>1 DEF Sound
<1>. QED BY <1>2, OneTransaction DEF Begin

LEMMA RollBackSound ==
  ASSUME SchemaInv, UNCHANGED scenario, NEW m \in Migrators, RollBack(m)
  PROVE  SchemaInv'
BY IdleSound, OneTransaction DEF RollBack

LEMMA StepSound ==
  ASSUME SchemaInv, UNCHANGED scenario, scenario = "migrations", NEW m \in Migrators, Step(m)
  PROVE  SchemaInv'
<1> DEFINE mine == migration[m]
           script == NextScript(m)
           before == IF Open(m) THEN mine.schema ELSE schema
           held == IF Open(m) THEN mine.rows ELSE rows
           runs == /\ Open(m) \/ revision = mine.from
                   /\ Fits(script, before) /\ RowsAllow(script, before, held)
           to == IF mine.target > mine.at THEN mine.at + 1 ELSE mine.at - 1
           next == [target |-> mine.target, from |-> mine.from, at |-> to,
                    schema |-> Applied(script, before), rows |-> RowsAfter(script, held),
                    locked |-> mine.locked \cup Touched(script)]
<1>1. CASE ~runs
  BY <1>1, RollBackSound DEF Step
<1>2. CASE runs
  <2>1. /\ mine \in Transaction /\ Sound(mine) /\ mine # Idle
        /\ mine.at \in 0..Newest /\ mine.from \in 0..Newest /\ mine.target \in Targets
        /\ mine.locked \subseteq {TableOf(fact) : fact \in AllFacts}
        /\ mine.rows \in SUBSET RowFacts /\ mine.target # mine.at
    BY SchemaInvByParts DEF Transactions, Sound, Transaction, Step, Begun
  <2>2. mine.target \in 0..Newest
    BY <2>1, TargetsAssumption
  <2>3. before = SchemaAt(mine.at) /\ Fitted(mine.at) /\ held \in SUBSET RowFacts
    <3>1. CASE Open(m)
      BY <2>1, <3>1 DEF Sound, Open
    <3>2. CASE ~Open(m)
      BY <1>2, <2>1, <3>2, SchemaInvByParts DEF Committed, Open, Begun
    <3>. QED BY <3>1, <3>2
  <2>4. /\ script = IF mine.target > mine.at THEN Revisions[mine.at + 1].up
                                             ELSE Revisions[mine.at].down
        /\ Fits(script, SchemaAt(mine.at))
    BY <1>2, <2>3 DEF NextScript
  <2> HIDE DEF script, mine, before, held
  <2>5. to \in 0..Newest /\ Applied(script, before) = SchemaAt(to) /\ Fitted(to)
    BY <2>1, <2>2, <2>3, <2>4, ScriptApplied
  <2>6. before \subseteq AllFacts /\ Applied(script, before) \subseteq AllFacts
    BY <2>1, <2>3, <2>5 DEF AllFacts
  <2>7. Touched(script) \subseteq {TableOf(fact) : fact \in AllFacts}
    BY <2>3, <2>4, <2>6, TablesOfFacts
  <2>8. RowsAfter(script, held) \in SUBSET RowFacts
    BY <2>3, RowsTyped
  <2>9. next \in Transaction
    <3> HIDE DEF to
    <3>. QED BY <2>1, <2>5, <2>6, <2>7, <2>8 DEF Transaction
  <2>10. Sound(next)
    <3> HIDE DEF to
    <3>. QED BY <2>1, <2>5, <2>9 DEF Sound
  <2>11. /\ migration' = [migration EXCEPT ![m] = next]
         /\ UNCHANGED <<schema, revision, rows>>
    BY <1>2 DEF Step, script, mine, before, held
  <2>. QED BY <2>10, <2>11, OneTransaction
<1>. QED BY <1>1, <1>2

LEMMA CommitSound ==
  ASSUME SchemaInv, UNCHANGED scenario, NEW m \in Migrators, Commit(m)
  PROVE  SchemaInv'
<1>1. Sound(migration[m]) /\ migration[m] # Idle /\ migration[m].at # migration[m].from
  BY SchemaInvByParts DEF Commit, Open, Begun, Transactions
<1>2. Committed'
  BY <1>1 DEF Commit, Sound, Transaction, Committed
<1>3. Transactions'
  BY SchemaInvByParts, IdleSound DEF Commit, Transactions, Sound
<1>. QED BY <1>2, <1>3, SchemaInvAfter

LEMMA WriteSound ==
  ASSUME SchemaInv, UNCHANGED scenario, NEW facts \in SUBSET RowFacts, WriteRow(facts)
  PROVE  SchemaInv'
<1>1. Committed'
  BY SchemaInvByParts DEF WriteRow, Committed
<1>2. ASSUME NEW m \in Migrators
      PROVE  Sound(migration'[m])
  <2>1. Sound(migration[m])
    BY SchemaInvByParts DEF Transactions
  <2>2. CASE ~Open(m)
    BY <2>1, <2>2 DEF WriteRow
  <2>3. CASE Open(m)
    <3>1. migration'[m] = [migration[m] EXCEPT !.rows = @ \cup facts]
      BY <2>3 DEF WriteRow
    <3>2. migration'[m] \in Transaction
      BY <2>1, <3>1 DEF Sound, Transaction
    <3>. QED BY <2>1, <2>3, <3>1, <3>2 DEF Sound, Transaction, Open, Begun
  <2>. QED BY <2>2, <2>3
<1>3. Transactions'
  BY <1>2 DEF WriteRow, Transactions, Sound
<1>. QED BY <1>1, <1>3, SchemaInvAfter

LEMMA SchemaStep == SchemaInv /\ [Next]_vars => SchemaInv'
<1>. SUFFICES ASSUME SchemaInv, [Next]_vars PROVE SchemaInv'
  OBVIOUS
<1>1. ASSUME UNCHANGED <<dbVars, scenario>> PROVE SchemaInv'
  BY <1>1, SchemaInvByParts, SchemaInvAfter
     DEF dbVars, Committed, Transactions, Sound
<1>2. CASE MigrateDatabase
  <2>1. scenario = "migrations" /\ UNCHANGED scenario /\ Migrate
    BY <1>2 DEF MigrateDatabase
  <2>2. ASSUME NEW m \in Migrators, NEW target \in Targets, Begin(m, target)
        PROVE  SchemaInv'
    BY <2>1, <2>2, BeginSound
  <2>3. ASSUME NEW m \in Migrators, Step(m) PROVE SchemaInv'
    BY <2>1, <2>3, StepSound
  <2>4. ASSUME NEW m \in Migrators, Commit(m) PROVE SchemaInv'
    BY <2>1, <2>4, CommitSound
  <2>5. ASSUME NEW m \in Migrators, Abort(m) PROVE SchemaInv'
    BY <2>1, <2>5, RollBackSound DEF Abort
  <2>6. CASE WriteCollection
    <3>1. PICK facts \in SUBSET RowFacts : WriteRow(facts)
      BY <2>6 DEF WriteCollection, RowFacts
    <3>. QED BY <2>1, <3>1, WriteSound
  <2>7. CASE WriteUser
    <3>1. PICK facts \in SUBSET RowFacts : WriteRow(facts)
      BY <2>7 DEF WriteUser, RowFacts
    <3>. QED BY <2>1, <3>1, WriteSound
  <2>. QED BY <2>1, <2>2, <2>3, <2>4, <2>5, <2>6, <2>7 DEF Migrate
<1>3. CASE ~MigrateDatabase
  <2>1. UNCHANGED <<dbVars, scenario>>
    BY <1>3 DEF Next, StartServer, CreateMetadata, OpenEdit, Submit, UpdateMetadata,
       CloseSession, Look, vars
  <2>. QED BY <1>1, <2>1
<1>. QED BY <1>2, <1>3

LEMMA SchemaAlways == Spec => []SchemaInv
BY SchemaInitially, SchemaStep, PTL DEF Spec

\* Every database that was migrated from nothing has the schema of its revision,
\* though operators migrate it up and down at the same time, scripts fail half way
\* and commands are killed (env.py run_migrations_online, the scripts' downgrade).
THEOREM SchemaFollows == Spec => []SchemaIsItsRevisions
<1>1. SchemaInv => SchemaIsItsRevisions
  BY DEF SchemaInv
<1>. QED BY <1>1, SchemaAlways, PTL

-----------------------------------------------------------------------------
(* The newest schema is the one that is mapped *)

LEMMA AddsOnly ==
  ASSUME NEW S, NEW facts
  PROVE  Applied(Adds(facts), S) = S \cup facts
BY DEF Applied, Adds, Script, Removes

LEMMA ReplacesOnly ==
  ASSUME NEW S, NEW drop, NEW add
  PROVE  Applied(Script({}, drop, add), S) = (S \ drop) \cup add
BY DEF Applied, Script, Removes

\* The two that are the last add what is mapped of their tables.
LEMMA LastTables ==
  AddedProcessTable.up = Adds(MappedProcess) /\ AddedJobTable.up = Adds(MappedJob)
BY DEF AddedProcessTable, AddedJobTable, MappedProcess, MappedJob

\* No upgrade drops a table.
LEMMA UpgradesKeepTables == \A n \in 1..16 : Revisions[n].up.tables = {}
<1>1. \A n \in {1, 3, 15, 16} : Revisions[n].up.tables = {}
  BY CreatingRevisions DEF Creates, Adds, Script
<1>2. \A n \in {2} \cup 5..14 : Revisions[n].up.tables = {}
  BY ReplacingRevisions DEF Replaces, Script
<1>3. Revisions[4].up.tables = {}
  BY DEF Revisions, AddOwnerIdToCollection, Adds, Script
<1>. QED BY <1>1, <1>2, <1>3

LEMMA Upgraded ==
  \A n \in 1..16 : SchemaAt(n) = (SchemaAt(n - 1) \ Revisions[n].up.drop)
                                 \cup Revisions[n].up.add
<1>. SUFFICES ASSUME NEW n \in 1..16
              PROVE  SchemaAt(n) = (SchemaAt(n - 1) \ Revisions[n].up.drop)
                                   \cup Revisions[n].up.add
  OBVIOUS
<1>1. n - 1 \in Nat /\ (n - 1) + 1 = n /\ n \in 0..Newest
  BY SixteenRevisions
<1>2. SchemaAt(n) = Applied(Revisions[n].up, SchemaAt(n - 1))
  BY <1>1, SchemaOfNext
<1>. QED BY <1>2, UpgradesKeepTables DEF Applied, Removes

\* The tables that the first fourteen upgrades are about.
LEMMA UpgradedTables ==
  \A t, n, w :
    /\ Fact(t, n, w) \in Revisions[1].up.add
         => t \in {"collection", "collectiontype", "servermetadata"}
    /\ Fact(t, n, w) \in Revisions[2].up.add => t = "servermetadata"
    /\ Fact(t, n, w) \in Revisions[3].up.add \cup Revisions[6].up.add => t = "user"
    /\ \A k \in 1..6 : Fact(t, n, w) \notin Revisions[k].up.drop
    /\ Fact(t, n, w) \in Revisions[7].up.drop \cup Revisions[7].up.add
         => t \in {"user", "collection"}
    /\ \A k \in {4, 5} \cup 8..14 :
         Fact(t, n, w) \in Revisions[k].up.drop \cup Revisions[k].up.add => t = "collection"
<1> USE FactsDiffer, InColumns DEF Adds, Drops, Script, Optional, Required, Enumeration
<1>. TAKE t, n, w
<1>1. /\ Fact(t, n, w) \in Revisions[1].up.add
           => t \in {"collection", "collectiontype", "servermetadata"}
      /\ Fact(t, n, w) \in Revisions[2].up.add => t = "servermetadata"
      /\ Fact(t, n, w) \notin Revisions[1].up.drop \cup Revisions[2].up.drop
  BY DEF Revisions, Initial, AddedMetadataColumns
<1>2. /\ Fact(t, n, w) \in Revisions[3].up.add \cup Revisions[6].up.add => t = "user"
      /\ Fact(t, n, w) \notin Revisions[3].up.drop \cup Revisions[6].up.drop
      /\ Fact(t, n, w) \in Revisions[7].up.drop \cup Revisions[7].up.add
           => t \in {"user", "collection"}
  BY DEF Revisions, AddUserTable, AddOidcSubToUser, UseStrIdForUserDropOidcSub, OidcSub
<1>3. /\ Fact(t, n, w) \in Revisions[4].up.add \cup Revisions[5].up.add => t = "collection"
      /\ Fact(t, n, w) \notin Revisions[4].up.drop \cup Revisions[5].up.drop
  BY DEF Revisions, AddOwnerIdToCollection, AddCollectionIsPublic
<1>4. \A k \in {8, 9, 10, 11} :
        Fact(t, n, w) \in Revisions[k].up.drop \cup Revisions[k].up.add => t = "collection"
  BY DEF Revisions, CascadeDeleteCollectionsOnUser, AddedCreationAndModifiedDates,
     AddedCollectionCrsInfo, AddedSpatialExtentCrs
<1>5. \A k \in {12, 13, 14} :
        Fact(t, n, w) \in Revisions[k].up.drop \cup Revisions[k].up.add => t = "collection"
  BY DEF Revisions, AddedCustomExtentsPerCollection,
     AddDefaultSridToCollectionSpatialExtent, MakeCollectionCrsNotNull
<1>. QED BY <1>1, <1>2, <1>3, <1>4, <1>5

LEMMA UpgradedFact ==
  ASSUME NEW fact
  PROVE  /\ fact \notin SchemaAt(0)
         /\ \A k \in 1..16 : fact \in SchemaAt(k)
              <=> \/ fact \in SchemaAt(k - 1) /\ fact \notin Revisions[k].up.drop
                  \/ fact \in Revisions[k].up.add
BY Upgraded, SchemaOfNothing

LEMMA UserTable ==
  ASSUME NEW n, NEW w
  PROVE  Fact("user", n, w) \in SchemaAt(14) <=> Fact("user", n, w) \in MappedUser
<1> DEFINE fact == Fact("user", n, w)
           In(k) == fact \in SchemaAt(k)
<1>1. /\ ~In(0)
      /\ \A k \in 1..16 : In(k) <=> \/ In(k - 1) /\ fact \notin Revisions[k].up.drop
                                    \/ fact \in Revisions[k].up.add
  BY UpgradedFact
<1>2. /\ \A k \in {1, 2, 4, 5} \cup 8..14 : fact \notin Revisions[k].up.add
      /\ \A k \in 1..6 \cup 8..14 : fact \notin Revisions[k].up.drop
  BY UpgradedTables
<1> HIDE DEF In
<1>3. In(6) <=> fact \in Revisions[3].up.add \/ fact \in Revisions[6].up.add
  BY <1>1, <1>2
<1>4. In(7) <=> (In(6) /\ fact \notin Revisions[7].up.drop) \/ fact \in Revisions[7].up.add
  BY <1>1
<1>5. In(14) <=> In(7)
  BY <1>1, <1>2
<1>6. In(7) <=> fact \in MappedUser
  BY <1>3, <1>4, FactsDiffer, InColumns
     DEF Revisions, AddUserTable, AddOidcSubToUser, UseStrIdForUserDropOidcSub, OidcSub,
         MappedUser, Adds, Script, Optional, Required
<1>. QED BY <1>5, <1>6 DEF In

LEMMA ServerMetadataTable ==
  ASSUME NEW n, NEW w
  PROVE  Fact("servermetadata", n, w) \in SchemaAt(14)
           <=> Fact("servermetadata", n, w) \in MappedServerMetadata
<1> DEFINE fact == Fact("servermetadata", n, w)
           In(k) == fact \in SchemaAt(k)
<1>1. /\ ~In(0)
      /\ \A k \in 1..16 : In(k) <=> \/ In(k - 1) /\ fact \notin Revisions[k].up.drop
                                    \/ fact \in Revisions[k].up.add
  BY UpgradedFact
<1>2. /\ \A k \in 3..14 : fact \notin Revisions[k].up.add
      /\ \A k \in 1..14 : fact \notin Revisions[k].up.drop
  BY UpgradedTables
<1> HIDE DEF In
<1>3. In(2) <=> fact \in Revisions[1].up.add \/ fact \in Revisions[2].up.add
  BY <1>1, <1>2
<1>4. In(14) <=> In(2)
  BY <1>1, <1>2
<1>5. In(2) <=> fact \in MappedServerMetadata
  BY <1>3, FactsDiffer, InColumns
     DEF Revisions, Initial, AddedMetadataColumns, MappedServerMetadata, Adds, Script,
         Optional, Required, Enumeration
<1>. QED BY <1>4, <1>5 DEF In

LEMMA CollectionTable ==
  ASSUME NEW n, NEW w, NEW t \in {"collection", "collectiontype"}
  PROVE  Fact(t, n, w) \in SchemaAt(14) <=> Fact(t, n, w) \in MappedCollection
<1> DEFINE fact == Fact(t, n, w)
           In(k) == fact \in SchemaAt(k)
<1>1. /\ ~In(0)
      /\ \A k \in 1..16 : In(k) <=> \/ In(k - 1) /\ fact \notin Revisions[k].up.drop
                                    \/ fact \in Revisions[k].up.add
  BY UpgradedFact
<1>2. /\ \A k \in {2, 3, 6} : fact \notin Revisions[k].up.add
      /\ \A k \in 1..6 : fact \notin Revisions[k].up.drop
  BY UpgradedTables
<1> HIDE DEF In
<1> USE FactsDiffer, InColumns DEF Adds, Drops, Script, Optional, Required, Enumeration
<1>3. In(6) <=> \/ fact \in Initial.up.add \/ fact \in AddOwnerIdToCollection.up.add
                \/ fact \in AddCollectionIsPublic.up.add
  <2>1. In(6) <=> \E k \in {1, 4, 5} : fact \in Revisions[k].up.add
    BY <1>1, <1>2
  <2>. QED BY <2>1 DEF Revisions
<1>4. /\ In(7) <=> \/ In(6) /\ fact \notin UseStrIdForUserDropOidcSub.up.drop
                   \/ fact \in UseStrIdForUserDropOidcSub.up.add
      /\ In(8) <=> \/ In(7) /\ fact \notin CascadeDeleteCollectionsOnUser.up.drop
                   \/ fact \in CascadeDeleteCollectionsOnUser.up.add
  BY <1>1 DEF Revisions
<1>5. In(12) <=> In(8) \/ fact \in AddedCreationAndModifiedDates.up.add
                 \/ fact \in AddedCollectionCrsInfo.up.add
                 \/ fact \in AddedSpatialExtentCrs.up.add
                 \/ fact \in AddedCustomExtentsPerCollection.up.add
  <2>1. \A k \in 9..12 : Revisions[k].up.drop = {}
    BY DEF Revisions, AddedCreationAndModifiedDates, AddedCollectionCrsInfo,
       AddedSpatialExtentCrs, AddedCustomExtentsPerCollection
  <2>2. In(12) <=> In(8) \/ \E k \in 9..12 : fact \in Revisions[k].up.add
    BY <1>1, <2>1
  <2>. QED BY <2>2 DEF Revisions
<1>6. /\ In(13) <=> \/ In(12) /\ fact \notin AddDefaultSridToCollectionSpatialExtent.up.drop
                    \/ fact \in AddDefaultSridToCollectionSpatialExtent.up.add
      /\ In(14) <=> \/ In(13) /\ fact \notin MakeCollectionCrsNotNull.up.drop
                    \/ fact \in MakeCollectionCrsNotNull.up.add
  BY <1>1 DEF Revisions
<1>7. In(14) <=> fact \in MappedCollection
  BY <1>3, <1>4, <1>5, <1>6
     DEF Initial, AddOwnerIdToCollection, AddCollectionIsPublic,
         UseStrIdForUserDropOidcSub, OidcSub, CascadeDeleteCollectionsOnUser,
         AddedCreationAndModifiedDates, AddedCollectionCrsInfo, AddedSpatialExtentCrs,
         AddedCustomExtentsPerCollection, AddDefaultSridToCollectionSpatialExtent,
         MakeCollectionCrsNotNull, MappedCollection
<1>. QED BY <1>7 DEF In

\* Every fact has a table, a name and what.
AreFacts(facts) == \A fact \in facts : \E t, n, w : fact = Fact(t, n, w)

LEMMA PiecesAreFacts ==
  /\ \A table, names, what : AreFacts(Columns(table, names, what))
  /\ \A t, n, w : AreFacts({Fact(t, n, w)})
BY DEF AreFacts, Columns

LEMMA MappedAreFacts == AreFacts(MappedCollection \cup MappedUser \cup MappedServerMetadata)
BY DEF AreFacts, MappedCollection, MappedUser, MappedServerMetadata, Optional, Required,
   Enumeration, Columns

LEMMA AddedAreFacts == \A k \in 1..14 : AreFacts(Revisions[k].up.add)
<1> USE DEF AreFacts, Revisions, Adds, Drops, Script, Optional, Required, Enumeration, Columns
<1>1. \A k \in {1, 2} : AreFacts(Revisions[k].up.add)
  BY DEF Initial, AddedMetadataColumns
<1>2. \A k \in {3, 4, 5} : AreFacts(Revisions[k].up.add)
  BY DEF AddUserTable, AddOwnerIdToCollection, AddCollectionIsPublic
<1>3. \A k \in {6, 7, 8} : AreFacts(Revisions[k].up.add)
  BY DEF AddOidcSubToUser, UseStrIdForUserDropOidcSub, OidcSub,
     CascadeDeleteCollectionsOnUser
<1>4. \A k \in {9, 10, 11} : AreFacts(Revisions[k].up.add)
  BY DEF AddedCreationAndModifiedDates, AddedCollectionCrsInfo, AddedSpatialExtentCrs
<1>5. \A k \in {12, 13, 14} : AreFacts(Revisions[k].up.add)
  BY DEF AddedCustomExtentsPerCollection, AddDefaultSridToCollectionSpatialExtent,
     MakeCollectionCrsNotNull
<1> HIDE DEF AreFacts, Revisions
<1>. QED BY <1>1, <1>2, <1>3, <1>4, <1>5

LEMMA SchemaFourteen ==
  SchemaAt(14) = MappedCollection \cup MappedUser \cup MappedServerMetadata
<1> DEFINE mapped == MappedCollection \cup MappedUser \cup MappedServerMetadata
<1>1. \A t, n, w :
        /\ Fact(t, n, w) \in MappedCollection => t \in {"collection", "collectiontype"}
        /\ Fact(t, n, w) \in MappedUser => t = "user"
        /\ Fact(t, n, w) \in MappedServerMetadata => t = "servermetadata"
  BY FactsDiffer, InColumns
     DEF MappedCollection, MappedUser, MappedServerMetadata, Optional, Required, Enumeration
<1>2. \A fact \in SchemaAt(14) : \E k \in 1..14 : fact \in Revisions[k].up.add
  BY InSchema, SixteenRevisions
<1>3. \A t, n, w : Fact(t, n, w) \in SchemaAt(14)
                     => t \in {"collection", "collectiontype", "user", "servermetadata"}
  <2>. SUFFICES ASSUME NEW t, NEW n, NEW w, Fact(t, n, w) \in SchemaAt(14)
                PROVE  t \in {"collection", "collectiontype", "user", "servermetadata"}
    OBVIOUS
  <2>1. PICK k \in 1..14 : Fact(t, n, w) \in Revisions[k].up.add
    BY <1>2
  <2>2. k \in {1, 2, 3, 6, 7} \/ k \in {4, 5} \cup 8..14
    OBVIOUS
  <2>. QED BY <2>1, <2>2, UpgradedTables
<1>4. \A t, n, w : Fact(t, n, w) \in SchemaAt(14) <=> Fact(t, n, w) \in mapped
  BY <1>1, <1>3, UserTable, ServerMetadataTable, CollectionTable
<1>5. AreFacts(SchemaAt(14))
  BY <1>2, AddedAreFacts DEF AreFacts
<1>6. AreFacts(mapped)
  BY MappedAreFacts
<1>. QED BY <1>4, <1>5, <1>6 DEF AreFacts

LEMMA NewestIsMapped == SchemaAt(Newest) = Mapped
<1>1. /\ Revisions[15].up.drop = {} /\ Revisions[15].up.add = MappedProcess
      /\ Revisions[16].up.drop = {} /\ Revisions[16].up.add = MappedJob
  <2>1. Revisions[15] = AddedProcessTable /\ Revisions[16] = AddedJobTable
    BY DEF Revisions
  <2>. QED BY <2>1, LastTables DEF Adds, Script
<1>2. SchemaAt(15) = SchemaAt(14) \cup MappedProcess
  BY <1>1, Upgraded
<1>3. SchemaAt(16) = SchemaAt(15) \cup MappedJob
  BY <1>1, Upgraded
<1>. QED BY <1>2, <1>3, SchemaFourteen, SixteenRevisions DEF Mapped

\* A server whose database says that it is at the newest revision finds in it every
\* table, column, index and constraint its classes map, whatever was done to it: it
\* is enough that the health check compares revisions (_check_health, health_check).
THEOREM HealthyMapped == Spec => []HealthyIsMapped
<1>1. ASSUME SchemaIsItsRevisions, NEW reachable \in BOOLEAN, NEW broker \in BOOLEAN,
             HealthCheck(reachable, broker) = 200
      PROVE  CheckForChanges = {}
  <2>1. CheckHealth(reachable) = "ok"
    BY <1>1 DEF HealthCheck, GetHealthStatus
  <2>2. revision = Newest
    BY <2>1 DEF CheckHealth
  <2>. QED BY <1>1, <2>2, NewestIsMapped DEF SchemaIsItsRevisions, CheckForChanges
<1>2. SchemaIsItsRevisions => HealthyIsMapped
  BY <1>1 DEF HealthyIsMapped
<1>. QED BY <1>2, SchemaFollows, PTL

-----------------------------------------------------------------------------
(* Sessions *)

SessionsOK == metadata \in Seq(Metadata) /\ session \in [Sessions -> Session]

\* A session that finds a row goes on as the same session, and creates no row.
LEMMA FoundGoesOn ==
  ASSUME NEW state \in Session, state.phase \in {"starting", "opening", "editing"},
         NEW stored \in Seq(Metadata), NEW i \in DOMAIN stored
  PROVE  /\ Found(state, i, stored) \in Session
         /\ Found(state, i, stored).phase \in {"serving", "merging", "updating"}
         /\ Found(state, i, stored).phase = "updating" => state.phase = "editing"
         /\ Found(state, i, stored).edit = state.edit
         /\ Found(state, i, stored).update = state.update
<1>1. stored[i] \in Metadata /\ i \in Nat
  OBVIOUS
<1>2. CASE state.phase = "starting"
  BY <1>1, <1>2 DEF Found, Session
<1>3. CASE state.phase = "opening"
  BY <1>1, <1>3 DEF Found, Session
<1>4. CASE state.phase = "editing"
  BY <1>1, <1>4 DEF Found, Session
<1>. QED BY <1>2, <1>3, <1>4

LEMMA ClosedSession == Closed \in Session
BY DEF Closed, Session, Metadata, DefaultMetadata, Update

\* What a session does next: it goes on where it found or did not find a row.
GoesOn(s, state) ==
  \E next \in Session :
    /\ session' = [session EXCEPT ![s] = next]
    /\ next.edit = state.edit /\ next.update = state.update
    /\ metadata # <<>> => next.phase \in {"serving", "merging", "updating"}
    /\ next.phase \in {"editing", "updating"} => state.phase = "editing"

LEMMA LookGoesOn ==
  ASSUME SessionsOK, NEW s \in Sessions, NEW state \in Session, Look(s, state),
         state.phase \in {"starting", "opening", "editing"}
  PROVE  GoesOn(s, state) /\ UNCHANGED <<dbVars, scenario, metadata>>
<1>1. CASE metadata = <<>> /\ session' = [session EXCEPT ![s] = state]
  BY <1>1 DEF GoesOn, Look
<1>2. ASSUME NEW i \in DOMAIN metadata,
             session' = [session EXCEPT ![s] = Found(state, i, metadata)]
      PROVE  GoesOn(s, state)
  <2>1. metadata \in Seq(Metadata)
    BY DEF SessionsOK
  <2>2. /\ Found(state, i, metadata) \in Session
        /\ Found(state, i, metadata).phase \in {"serving", "merging", "updating"}
        /\ Found(state, i, metadata).phase = "updating" => state.phase = "editing"
        /\ Found(state, i, metadata).edit = state.edit
        /\ Found(state, i, metadata).update = state.update
    BY <2>1, FoundGoesOn
  <2>. QED BY <1>2, <2>2 DEF GoesOn
<1>. QED BY <1>1, <1>2 DEF Look

LEMMA CreateGoesOn ==
  ASSUME SessionsOK, NEW s \in Sessions, CreateMetadata(s)
  PROVE  /\ \E next \in Session :
              /\ session' = [session EXCEPT ![s] = next]
              /\ next.edit = session[s].edit /\ next.update = session[s].update
              /\ next.phase = "updating" => session[s].phase = "editing"
              /\ next.phase # "editing"
         /\ metadata' \in Seq(Metadata)
         /\ UNCHANGED <<dbVars, scenario>>
<1>1. session[s] \in Session /\ session[s].phase \in {"starting", "opening", "editing"}
  BY DEF SessionsOK, CreateMetadata, Creating
<1>2. metadata' \in Seq(Metadata)
  BY DEF SessionsOK, CreateMetadata, DefaultMetadata, Metadata
<1>3. PICK i \in DOMAIN metadata' :
        session' = [session EXCEPT ![s] = Found(session[s], i, metadata')]
  BY DEF CreateMetadata
<1> DEFINE next == Found(session[s], i, metadata')
<1>4. /\ next \in Session
      /\ next.phase \in {"serving", "merging", "updating"}
      /\ next.phase = "updating" => session[s].phase = "editing"
      /\ next.edit = session[s].edit /\ next.update = session[s].update
  BY <1>1, <1>2, FoundGoesOn
<1>5. UNCHANGED <<dbVars, scenario>>
  BY DEF CreateMetadata
<1> HIDE DEF next
<1>. QED BY <1>2, <1>3, <1>4, <1>5 DEF next

LEMMA StartGoesOn ==
  ASSUME SessionsOK, NEW s \in Sessions, StartServer(s)
  PROVE  /\ session[s] = Closed
         /\ GoesOn(s, [Closed EXCEPT !.phase = "starting"])
         /\ UNCHANGED <<dbVars, scenario, metadata>>
<1>1. [Closed EXCEPT !.phase = "starting"] \in Session
  BY ClosedSession DEF Session
<1>2. [Closed EXCEPT !.phase = "starting"].phase = "starting"
  BY DEF Closed
<1>. QED BY <1>1, <1>2, LookGoesOn DEF StartServer

LEMMA OpenGoesOn ==
  ASSUME SessionsOK, NEW s \in Sessions, NEW edit \in Edits, OpenEdit(s, edit)
  PROVE  /\ session[s] = Closed
         /\ GoesOn(s, [Closed EXCEPT !.phase = "opening", !.edit = edit])
         /\ UNCHANGED <<dbVars, scenario, metadata>>
<1>1. [Closed EXCEPT !.phase = "opening", !.edit = edit] \in Session
  BY ClosedSession DEF Session
<1>2. [Closed EXCEPT !.phase = "opening", !.edit = edit].phase = "opening"
  BY DEF Closed
<1>. QED BY <1>1, <1>2, LookGoesOn DEF OpenEdit

\* The update that a session submits.
Merged(s) ==
  IF session[s].edit.by = "cli"
  THEN UnflattenServerMetadataUpdate(session[s].known, session[s].edit)
  ELSE EditForm(session[s].known, session[s].edit)

LEMMA MergedTyped ==
  ASSUME SessionsOK, NEW s \in Sessions
  PROVE  /\ Merged(s) \in Update
         /\ session[s].edit.by = "cli" => Merged(s).url = session[s].edit.url
<1>1. session[s].known \in Metadata /\ session[s].edit \in Edits \cup {NoEdit}
  BY DEF SessionsOK, Session
<1>. QED
  BY <1>1 DEF Merged, UnflattenServerMetadataUpdate, EditForm, Typed, Edits, NoEdit,
     Metadata, Update, Unset

LEMMA SubmitGoesOn ==
  ASSUME SessionsOK, NEW s \in Sessions, Submit(s)
  PROVE  /\ session[s].phase = "merging"
         /\ GoesOn(s, [session[s] EXCEPT !.phase = "editing", !.update = Merged(s)])
         /\ UNCHANGED <<dbVars, scenario, metadata>>
<1> DEFINE submitted == [session[s] EXCEPT !.phase = "editing", !.update = Merged(s)]
<1>1. submitted \in Session /\ submitted.phase = "editing"
  BY MergedTyped DEF SessionsOK, Session
<1>2. session[s].phase = "merging" /\ Look(s, submitted)
  BY DEF Submit, Merged
<1>. QED BY <1>1, <1>2, LookGoesOn

LEMMA UpdateKeepsRows ==
  ASSUME SessionsOK, NEW s \in Sessions, UpdateMetadata(s)
  PROVE  /\ metadata' \in Seq(Metadata) /\ Len(metadata') = Len(metadata)
         /\ session[s].update.url = Unset =>
              \A i \in DOMAIN metadata : metadata'[i].url = metadata[i].url
<1> DEFINE row == session[s].row
           mine == session[s]
           Written(field, stored) ==
             IF mine.update[field] \in {Unset, mine.known[field]} THEN stored
                                                                  ELSE mine.update[field]
           new == [title |-> Written("title", metadata[row].title),
                   url |-> Written("url", metadata[row].url)]
<1>1. metadata' = [metadata EXCEPT ![row] = new]
  BY DEF UpdateMetadata
<1>2. mine.update \in Update /\ metadata \in Seq(Metadata)
  BY DEF SessionsOK, Session
<1>3. ASSUME row \in DOMAIN metadata
      PROVE  /\ new \in Metadata
             /\ mine.update.url = Unset => new.url = metadata[row].url
  <2>1. metadata[row] \in Metadata
    BY <1>2, <1>3
  <2>. QED BY <1>2, <2>1 DEF Update, Metadata, Unset
<1> HIDE DEF new, row, mine
<1>4. \A i \in DOMAIN metadata : metadata'[i] = IF i = row THEN new ELSE metadata[i]
  BY <1>1, <1>2
<1>5. metadata' \in Seq(Metadata) /\ Len(metadata') = Len(metadata)
  <2>1. CASE row \in DOMAIN metadata
    BY <1>1, <1>2, <1>3, <2>1
  <2>2. CASE row \notin DOMAIN metadata
    <3>1. metadata' = metadata
      BY <1>1, <1>2, <2>2
    <3>. QED BY <1>2, <3>1
  <2>. QED BY <2>1, <2>2
<1>. QED BY <1>3, <1>4, <1>5 DEF mine

\* What a session comes to, whichever step takes it there.
LEMMA SessionStep ==
  ASSUME SessionsOK, NEW s \in Sessions,
         \/ StartServer(s) \/ CreateMetadata(s)
         \/ \E edit \in Edits : OpenEdit(s, edit)
         \/ Submit(s) \/ UpdateMetadata(s) \/ CloseSession(s)
  PROVE  /\ metadata' \in Seq(Metadata)
         /\ \E next \in Session :
              /\ session' = [session EXCEPT ![s] = next]
              /\ next.phase \in {"editing", "updating"} /\ next.edit.by = "cli" =>
                   \/ session[s].phase = "merging" /\ next.update.url = next.edit.url
                   \/ /\ session[s].phase = "editing"
                      /\ next.edit = session[s].edit /\ next.update = session[s].update
              /\ metadata # <<>> /\ ~Creating(s) =>
                   /\ next.phase \notin {"starting", "opening", "editing"}
                   /\ Len(metadata') = Len(metadata)
         /\ session[s].phase = "updating" /\ session[s].update.url = Unset =>
              \A i \in DOMAIN metadata : metadata'[i].url = metadata[i].url
<1> USE DEF SessionsOK
<1>1. session[s] \in Session
  OBVIOUS
<1>2. CASE StartServer(s)
  <2>1. [Closed EXCEPT !.phase = "starting"].phase = "starting" /\ Closed.phase = "closed"
    BY DEF Closed
  <2>. QED BY <1>2, <2>1, StartGoesOn DEF GoesOn
<1>3. ASSUME NEW edit \in Edits, OpenEdit(s, edit)
      PROVE  /\ metadata' = metadata
             /\ \E next \in Session :
                  /\ session' = [session EXCEPT ![s] = next]
                  /\ next.phase \notin {"editing", "updating"}
                  /\ metadata # <<>> => next.phase \in {"serving", "merging", "updating"}
             /\ session[s] = Closed
  <2>1. [Closed EXCEPT !.phase = "opening", !.edit = edit].phase = "opening"
    BY DEF Closed
  <2>. QED BY <1>3, <2>1, OpenGoesOn DEF GoesOn
<1>4. CASE \E edit \in Edits : OpenEdit(s, edit)
  <2>1. Closed.phase = "closed"
    BY DEF Closed
  <2>. QED BY <1>3, <1>4, <2>1
<1>5. CASE Submit(s)
  <2> DEFINE submitted == [session[s] EXCEPT !.phase = "editing", !.update = Merged(s)]
  <2>1. submitted.edit = session[s].edit /\ submitted.update = Merged(s)
    BY <1>1 DEF Session
  <2>2. session[s].phase = "merging" /\ GoesOn(s, submitted) /\ metadata' = metadata
    BY <1>5, SubmitGoesOn
  <2> HIDE DEF submitted
  <2>3. session[s].edit.by = "cli" => Merged(s).url = session[s].edit.url
    BY MergedTyped
  <2>. QED BY <2>1, <2>2, <2>3 DEF GoesOn
<1>6. CASE CreateMetadata(s)
  <2>1. Creating(s) /\ session[s].phase # "updating"
    BY <1>6 DEF CreateMetadata, Creating
  <2>. QED BY <1>6, <2>1, CreateGoesOn
<1>7. CASE UpdateMetadata(s)
  <2>1. session' = [session EXCEPT ![s] = Closed] /\ Closed.phase = "closed"
    BY <1>7 DEF UpdateMetadata, Closed
  <2>. QED BY <1>7, <2>1, ClosedSession, UpdateKeepsRows
<1>8. CASE CloseSession(s)
  <2>1. /\ session' = [session EXCEPT ![s] = Closed] /\ Closed.phase = "closed"
        /\ metadata' = metadata
    BY <1>8 DEF CloseSession, Closed
  <2>. QED BY <2>1, ClosedSession
<1>. QED BY <1>2, <1>4, <1>5, <1>6, <1>7, <1>8

\* An update that is on its way sets the url to what its command named.
EditsCarried ==
  \A s \in Sessions :
    session[s].phase \in {"editing", "updating"} /\ session[s].edit.by = "cli" =>
      session[s].update.url = session[s].edit.url

SessionInv == SessionsOK /\ EditsCarried

LEMMA SessionInitially == Init => SessionInv
<1>. SUFFICES ASSUME Init PROVE SessionInv
  OBVIOUS
<1>1. metadata = <<>> /\ session = [s \in Sessions |-> Closed]
  BY DEF Init
<1>2. Closed.phase = "closed"
  BY DEF Closed
<1>. QED BY <1>1, <1>2, ClosedSession DEF SessionInv, SessionsOK, EditsCarried

LEMMA SessionInvStep == SessionInv /\ [Next]_vars => SessionInv'
<1>. SUFFICES ASSUME SessionInv, [Next]_vars PROVE SessionInv'
  OBVIOUS
<1>1. SessionsOK
  BY DEF SessionInv
<1>2. CASE MigrateDatabase
  <2>1. session' = session /\ metadata' \in Seq(Metadata)
    BY <1>1, <1>2 DEF MigrateDatabase, SessionsOK
  <2>. QED BY <2>1 DEF SessionInv, SessionsOK, EditsCarried
<1>3. CASE UNCHANGED vars
  BY <1>3 DEF vars, SessionInv, SessionsOK, EditsCarried
<1>4. ASSUME NEW s \in Sessions,
             \/ StartServer(s) \/ CreateMetadata(s)
             \/ \E edit \in Edits : OpenEdit(s, edit)
             \/ Submit(s) \/ UpdateMetadata(s) \/ CloseSession(s)
      PROVE  SessionInv'
  <2>1. metadata' \in Seq(Metadata)
    BY <1>1, <1>4, SessionStep
  <2>2. PICK next \in Session :
          /\ session' = [session EXCEPT ![s] = next]
          /\ next.phase \in {"editing", "updating"} /\ next.edit.by = "cli" =>
               \/ session[s].phase = "merging" /\ next.update.url = next.edit.url
               \/ /\ session[s].phase = "editing"
                  /\ next.edit = session[s].edit /\ next.update = session[s].update
    BY <1>1, <1>4, SessionStep
  <2>. QED BY <2>1, <2>2 DEF SessionInv, SessionsOK, EditsCarried
<1>. QED BY <1>2, <1>3, <1>4 DEF Next

LEMMA SessionAlways == Spec => []SessionInv
BY SessionInitially, SessionInvStep, PTL DEF Spec

\* The database, the rows of the metadata and the sessions stay of their types.
THEOREM TypeCorrect == Spec => []TypeOK
<1>1. SchemaInv /\ SessionInv => TypeOK
  BY DEF SchemaInv, SessionInv, SessionsOK, TypeOK
<1>. QED BY <1>1, SchemaAlways, SessionAlways, PTL

\* Once there is a row and no session is about to create one, there is never another,
\* whatever sessions, edits and migrations do, until a downgrade drops the table
\* (get_server_metadata creates the row it does not find without a lock).
THEOREM RowSettled == Spec => SettledStays
<1> DEFINE Body ==
      /\ metadata # <<>> /\ \A s \in Sessions : ~Creating(s)
      /\ InTables(schema', {"servermetadata"}) # {}
      => /\ Len(metadata') = Len(metadata) /\ \A s \in Sessions : ~Creating(s)'
<1>1. SessionInv /\ [Next]_vars => [Body]_vars
  <2>. SUFFICES ASSUME SessionInv, Next, metadata # <<>>, \A s \in Sessions : ~Creating(s),
                       InTables(schema', {"servermetadata"}) # {}
                PROVE  /\ Len(metadata') = Len(metadata)
                       /\ \A s \in Sessions : ~Creating(s)'
    OBVIOUS
  <2>1. CASE MigrateDatabase
    BY <2>1 DEF MigrateDatabase, Creating
  <2>2. ASSUME NEW s \in Sessions,
               \/ StartServer(s) \/ CreateMetadata(s)
               \/ \E edit \in Edits : OpenEdit(s, edit)
               \/ Submit(s) \/ UpdateMetadata(s) \/ CloseSession(s)
        PROVE  /\ Len(metadata') = Len(metadata)
               /\ \A other \in Sessions : ~Creating(other)'
    <3>1. PICK next \in Session :
            /\ session' = [session EXCEPT ![s] = next]
            /\ next.phase \notin {"starting", "opening", "editing"}
            /\ Len(metadata') = Len(metadata)
      BY <2>2, SessionStep DEF SessionInv
    <3>. QED BY <3>1 DEF SessionInv, SessionsOK, Creating
  <2>. QED BY <2>1, <2>2 DEF Next
<1>2. Spec => [][Body]_vars
  BY <1>1, SessionAlways, PTL DEF Spec
<1>. QED BY <1>2 DEF SettledStays

\* `potto metadata update` without a url changes the url of no row, though it merges
\* with what another session read and others edit the url in between
\* (unflatten_server_metadata_update, update_metadata).
THEOREM UrlSurvives == Spec => UnnamedUrlSurvives
<1> DEFINE Body ==
      \A s \in Sessions :
        /\ session[s].phase = "updating" /\ session'[s] = Closed
        /\ session[s].edit.by = "cli" /\ session[s].edit.url = Unset
        /\ Len(metadata') = Len(metadata)
        => \A i \in DOMAIN metadata : metadata'[i].url = metadata[i].url
<1>1. SessionInv /\ [Next]_vars => [Body]_vars
  <2>. SUFFICES ASSUME SessionInv, Next, NEW s \in Sessions,
                       session[s].phase = "updating", session'[s] = Closed,
                       session[s].edit.by = "cli", session[s].edit.url = Unset
                PROVE  \A i \in DOMAIN metadata : metadata'[i].url = metadata[i].url
    OBVIOUS
  <2>1. session[s].update.url = Unset /\ session[s] # Closed
    BY DEF SessionInv, EditsCarried, Closed
  <2>2. CASE MigrateDatabase
    BY <2>1, <2>2 DEF MigrateDatabase
  <2>3. ASSUME NEW other \in Sessions,
               \/ StartServer(other) \/ CreateMetadata(other)
               \/ \E edit \in Edits : OpenEdit(other, edit)
               \/ Submit(other) \/ UpdateMetadata(other) \/ CloseSession(other)
        PROVE  \A i \in DOMAIN metadata : metadata'[i].url = metadata[i].url
    <3>1. \E next \in Session : session' = [session EXCEPT ![other] = next]
      BY <2>3, SessionStep DEF SessionInv
    <3>2. other = s
      BY <2>1, <3>1 DEF SessionInv, SessionsOK
    <3>. QED BY <2>1, <2>3, <3>2, SessionStep DEF SessionInv
  <2>. QED BY <2>2, <2>3 DEF Next
<1>2. Spec => [][Body]_vars
  BY <1>1, SessionAlways, PTL DEF Spec
<1>. QED BY <1>2 DEF UnnamedUrlSurvives

=============================================================================
