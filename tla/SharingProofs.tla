--------------------------- MODULE SharingProofs ---------------------------
(***************************************************************************)
(* What holds of Sharing for every set of users, resources, jobs and       *)
(* requests.                                                               *)
(***************************************************************************)
EXTENDS Sharing, TLAPS

\* A user's principal is one whatever scopes the user has.
LEMMA AccountTyped ==
  ASSUME TablesTyped, NEW a \in Users \cup {Anonymous, System}
  PROVE  Account(a) \in Principals
BY DEF TablesTyped, Account, Principals

\* An answered request keeps no copy: Requests stay well typed.
LEMMA EndTyped ==
  ASSUME RequestsTyped, NEW q \in Requests, End(q)
  PROVE  RequestsTyped'
<1>1. NobodyIn \in Principals
  BY DEF NobodyIn, Principals
<1>2. pc' \in [Requests -> Locations] /\ pc'[q] = "ended"
  BY DEF End, RequestsTyped, Locations
<1>3. actor' \in [Requests -> Principals]
  BY <1>1 DEF End, RequestsTyped
<1>4. found' \in [Requests -> Rows \cup JobRows \cup {NoRow}]
  BY DEF End, RequestsTyped
<1>5. target' \in [Requests -> Users \cup {Anonymous}]
  BY DEF End, RequestsTyped
<1>6. held' \in [Requests -> SUBSET Scopes]
  BY DEF End, RequestsTyped
<1>7. ASSUME NEW p \in Requests
      PROVE  /\ pc'[p] \in {"editing", "sharing", "running"} => found'[p] \in Rows
             /\ pc'[p] = "running" => found'[p].name \in Processes
             /\ pc'[p] = "deleting" => found'[p] \in JobRows
             /\ pc'[p] = "sharing" => target'[p] \in Users
  <2>1. CASE p = q
    BY <2>1, <1>2
  <2>2. CASE p # q
    BY <2>2 DEF End, RequestsTyped
  <2>3. QED
    BY <2>1, <2>2
<1>8. QED
  BY <1>2, <1>3, <1>4, <1>5, <1>6, <1>7 DEF RequestsTyped

\* A request that goes on has found what its next step needs.
LEMMA GotoTyped ==
  ASSUME RequestsTyped, NEW q \in Requests, NEW from, NEW to \in Locations,
         Goto(q, from, to),
         actor' \in [Requests -> Principals],
         found' \in [Requests -> Rows \cup JobRows \cup {NoRow}],
         target' \in [Requests -> Users \cup {Anonymous}],
         held' \in [Requests -> SUBSET Scopes],
         \A p \in Requests : p # q => found'[p] = found[p] /\ target'[p] = target[p],
         to \in {"editing", "sharing", "running"} => found'[q] \in Rows,
         to = "running" => found'[q].name \in Processes,
         to = "deleting" => found'[q] \in JobRows,
         to = "sharing" => target'[q] \in Users
  PROVE  RequestsTyped'
<1>1. pc' \in [Requests -> Locations] /\ pc'[q] = to
  BY DEF Goto, RequestsTyped
<1>2. ASSUME NEW p \in Requests
      PROVE  /\ pc'[p] \in {"editing", "sharing", "running"} => found'[p] \in Rows
             /\ pc'[p] = "running" => found'[p].name \in Processes
             /\ pc'[p] = "deleting" => found'[p] \in JobRows
             /\ pc'[p] = "sharing" => target'[p] \in Users
  <2>1. CASE p = q
    BY <2>1, <1>1
  <2>2. CASE p # q
    <3>1. pc'[p] = pc[p] /\ found'[p] = found[p] /\ target'[p] = target[p]
      BY <2>2 DEF Goto, RequestsTyped
    <3>2. QED
      BY <3>1 DEF RequestsTyped
  <2>3. QED
    BY <2>1, <2>2
<1>3. QED
  BY <1>1, <1>2 DEF RequestsTyped

LEMMA InitTyped == Init => TypeOK
<1> SUFFICES ASSUME Init PROVE TypeOK
  OBVIOUS
<1>1. Admin \in Scopes /\ NobodyIn \in Principals
  BY DEF Scopes, NobodyIn, Principals
<1>2. FirstRows \subseteq Rows
  BY DEF FirstRows, Rows
<1>3. scopes \in [Users -> SUBSET Scopes] /\ sanctioned \subseteq Users \X Scopes \X Nat
  <2>1. PICK a \in Users :
          /\ scopes = [u \in Users |-> IF u = a THEN {Admin} ELSE {}]
          /\ sanctioned = {<<a, Admin, 0>>}
    BY DEF Init
  <2>2. QED
    BY <2>1, <1>1
<1>4. row \in [Resources -> FirstRows \cup {NoRow}]
      /\ \A r \in Resources : row[r] # NoRow => row[r].name = r
  BY DEF Init
<1>5. \A r \in Resources : Exists(r) => row[r].name = r /\ row[r].key < nextKey
  <2> SUFFICES ASSUME NEW r \in Resources, Exists(r)
               PROVE  row[r].name = r /\ row[r].key < nextKey
    OBVIOUS
  <2>1. row[r] \in FirstRows
    BY <1>4 DEF Exists
  <2>2. row[r].key = 1 /\ nextKey = 2
    BY <2>1 DEF FirstRows, Init
  <2>3. QED
    BY <1>4, <2>2 DEF Exists
<1>6. TablesTyped
  BY <1>2, <1>3, <1>4, <1>5 DEF TablesTyped, Init, JobExists
<1>7. RequestsTyped
  BY <1>1 DEF RequestsTyped, Init, Locations
<1>8. HistoryTyped
  BY <1>3 DEF HistoryTyped, Init
<1>9. QED
  BY <1>6, <1>7, <1>8 DEF TypeOK

\* A row written for the resource it names keeps the tables typed, if it has a
\* key given out before.
LEMMA RowWritten ==
  ASSUME TablesTyped, NEW r \in Resources, NEW x \in Rows,
         x.name = r, row' = [row EXCEPT ![r] = x],
         nextKey' \in Nat, nextKey =< nextKey', x.key < nextKey',
         UNCHANGED <<scopes, job, usedJobs>>
  PROVE  TablesTyped'
<1>1. x # NoRow
  BY NoRowAssumption
<1>2. row' \in [Resources -> Rows \cup {NoRow}]
  BY DEF TablesTyped
<1>3. ASSUME NEW s \in Resources, row'[s] # NoRow
      PROVE  row'[s].name = s /\ row'[s].key < nextKey'
  <2>1. CASE s = r
    BY <2>1 DEF TablesTyped
  <2>2. CASE s # r
    <3>1. row'[s] = row[s] /\ row[s] \in Rows
      BY <2>2, <1>3 DEF TablesTyped
    <3>2. row[s].name = s /\ row[s].key < nextKey /\ row[s].key \in Nat
      BY <3>1, <1>3 DEF TablesTyped, Exists, Rows
    <3>3. QED
      BY <3>1, <3>2 DEF TablesTyped
  <2>3. QED
    BY <2>1, <2>2
<1>4. ASSUME NEW s \in Resources, row[s] # NoRow PROVE row'[s] # NoRow
  BY <1>1, <1>4 DEF TablesTyped
<1>5. ASSUME NEW j \in Jobs, job'[j] # NoRow
      PROVE  job'[j].name = j /\ j \in usedJobs' /\ row'[job'[j].process] # NoRow
  <2>1. job'[j] = job[j] /\ job[j] \in JobRows /\ job[j].process \in Resources
    BY <1>5 DEF TablesTyped, JobRows, Resources
  <2>2. QED
    BY <2>1, <1>4, <1>5 DEF TablesTyped, JobExists, Exists
<1>6. QED
  BY <1>2, <1>3, <1>5 DEF TablesTyped, Exists, JobExists

\* Every step of a request keeps the tables, the requests and the history
\* well typed.
LEMMA StepTyped ==
  ASSUME TypeOK, NEW q \in Requests, Step(q)
  PROVE  TypeOK'
<1> USE DEF TypeOK
<1>1. CASE Authenticate(q)
  <2>1. PICK a \in Users \cup {Anonymous, System} :
          actor' = [actor EXCEPT ![q] = Account(a)]
    BY <1>1 DEF Authenticate
  <2>2. Account(a) \in Principals
    BY AccountTyped
  <2>3. actor' \in [Requests -> Principals]
    BY <2>1, <2>2 DEF RequestsTyped
  <2>4. RequestsTyped'
    <3>1. Goto(q, "idle", "authenticated") /\ UNCHANGED <<found, target, held>>
      BY <1>1 DEF Authenticate
    <3>2. QED
      BY <2>3, <3>1, GotoTyped DEF RequestsTyped, Locations
  <2>5. TablesTyped' /\ HistoryTyped'
    BY <1>1 DEF Authenticate, tables, history, TablesTyped, HistoryTyped, Exists, JobExists
  <2>6. QED
    BY <2>4, <2>5
<1>2. CASE Create(q)
  <2>1. PICK r \in Resources, public \in BOOLEAN, owner \in Users :
          row' = [row EXCEPT ![r] = [name |-> r, owner |-> owner,
                                     public |-> public, key |-> nextKey]]
    BY <1>2 DEF Create
  <2> DEFINE x == [name |-> r, owner |-> owner, public |-> public, key |-> nextKey]
  <2>2. nextKey' \in Nat /\ nextKey =< nextKey' /\ nextKey < nextKey'
    BY <1>2 DEF Create, TablesTyped
  <2>3. x \in Rows /\ x.name = r /\ x.key = nextKey
    BY DEF Rows, TablesTyped
  <2>4. UNCHANGED <<scopes, job, usedJobs>>
    BY <1>2 DEF Create
  <2> HIDE DEF x
  <2>5. TablesTyped'
    <3>1. row' = [row EXCEPT ![r] = x]
      BY <2>1 DEF x
    <3>2. QED
      BY <3>1, <2>2, <2>3, <2>4, RowWritten
  <2>6. RequestsTyped'
    BY <1>2, EndTyped DEF Create
  <2>7. HistoryTyped'
    BY <1>2 DEF Create, history, HistoryTyped
  <2>8. QED
    BY <2>5, <2>6, <2>7
<1>3. CASE Find(q)
  <2>1. PICK r \in Resources : Exists(r) /\ found' = [found EXCEPT ![q] = row[r]]
    BY <1>3 DEF Find
  <2>2. row[r] \in Rows
    BY <2>1 DEF Exists, TablesTyped
  <2>3. /\ Goto(q, "authenticated", "editing")
        /\ UNCHANGED <<actor, target, held>>
    BY <1>3 DEF Find
  <2>4. RequestsTyped'
    BY <2>1, <2>2, <2>3, GotoTyped DEF RequestsTyped, Locations
  <2>5. TablesTyped' /\ HistoryTyped'
    BY <1>3 DEF Find, tables, history, TablesTyped, HistoryTyped, Exists, JobExists
  <2>6. QED
    BY <2>4, <2>5
<1>4. CASE Update(q)
  <2>1. PICK owner \in NewOwners(q), public \in BOOLEAN :
          row' = [row EXCEPT ![found[q].name].owner = owner,
                             ![found[q].name].public = public]
    BY <1>4 DEF Update
  <2> DEFINE r == found[q].name
             x == [row[r] EXCEPT !.owner = owner, !.public = public]
  <2>2. found[q] \in Rows /\ r \in Resources /\ row[r] \in Rows
    <3>1. found[q] \in Rows /\ Exists(r)
      BY <1>4 DEF Update, RequestsTyped
    <3>2. QED
      BY <3>1 DEF Rows, Exists, TablesTyped
  <2>3. owner \in Users
    BY <2>2 DEF NewOwners, Rows
  <2>4. x \in Rows /\ x.name = row[r].name /\ x.key = row[r].key
    BY <2>2, <2>3 DEF Rows
  <2>5. Exists(r)
    BY <1>4 DEF Update
  <2>6. x.name = r /\ x.key < nextKey
    BY <2>2, <2>4, <2>5 DEF TablesTyped
  <2>7. row' = [row EXCEPT ![r] = x]
    BY <2>1, <2>2 DEF TablesTyped
  <2>8. UNCHANGED <<scopes, job, usedJobs, nextKey>> /\ nextKey' \in Nat /\ nextKey =< nextKey'
    BY <1>4 DEF Update, TablesTyped
  <2>9. TablesTyped'
    <3> HIDE DEF x
    <3>1. QED
      BY <2>2, <2>4, <2>6, <2>7, <2>8, RowWritten
  <2>10. RequestsTyped'
    BY <1>4, EndTyped DEF Update
  <2>11. HistoryTyped'
    BY <1>4 DEF Update, history, HistoryTyped
  <2>12. QED
    BY <2>9, <2>10, <2>11
<1>5. CASE Delete(q)
  <2> DEFINE r == found[q].name
  <2>1. found[q] \in Rows /\ r \in Resources
    BY <1>5 DEF Delete, RequestsTyped, Rows
  <2>2. row' = [row EXCEPT ![r] = NoRow] /\ UNCHANGED <<scopes, usedJobs, nextKey>>
    BY <1>5 DEF Delete
  <2>3. job' = [j \in Jobs |-> IF JobExists(j) /\ job[j].process = r
                               THEN NoRow ELSE job[j]]
    BY <1>5 DEF Delete
  <2>4. row' \in [Resources -> Rows \cup {NoRow}]
    BY <2>2 DEF TablesTyped
  <2>5. job' \in [Jobs -> JobRows \cup {NoRow}]
    BY <2>3 DEF TablesTyped
  <2>6. ASSUME NEW s \in Resources, row'[s] # NoRow
        PROVE  row'[s].name = s /\ row'[s].key < nextKey'
    BY <2>2, <2>6 DEF TablesTyped, Exists
  <2>7. ASSUME NEW j \in Jobs, job'[j] # NoRow
        PROVE  job'[j].name = j /\ j \in usedJobs' /\ row'[job'[j].process] # NoRow
    <3>1. job'[j] = job[j] /\ JobExists(j) /\ job[j].process # r
      BY <2>3, <2>7 DEF JobExists
    <3>2. job[j].name = j /\ j \in usedJobs /\ row[job[j].process] # NoRow
      BY <3>1 DEF TablesTyped, Exists
    <3>3. row'[job[j].process] = row[job[j].process]
      <4>1. job[j].process \in Resources
        BY <3>1 DEF JobExists, TablesTyped, JobRows, Resources
      <4>2. QED
        BY <4>1, <3>1, <2>2 DEF TablesTyped
    <3>4. QED
      BY <3>1, <3>2, <3>3, <2>2
  <2>8. TablesTyped'
    BY <2>2, <2>4, <2>5, <2>6, <2>7 DEF TablesTyped, Exists, JobExists
  <2>9. RequestsTyped'
    BY <1>5, EndTyped DEF Delete
  <2>10. HistoryTyped'
    BY <1>5 DEF Delete, history, HistoryTyped
  <2>11. QED
    BY <2>8, <2>9, <2>10
<1>6. CASE ReadTarget(q)
  <2>1. PICK u \in Users : /\ target' = [target EXCEPT ![q] = u]
                           /\ held' = [held EXCEPT ![q] = scopes[u]]
    BY <1>6 DEF ReadTarget
  <2>2. Goto(q, "editing", "sharing") /\ UNCHANGED <<actor, found>>
    BY <1>6 DEF ReadTarget
  <2>3. found[q] \in Rows
    BY <2>2 DEF Goto, RequestsTyped
  <2>4. scopes[u] \in SUBSET Scopes
    BY DEF TablesTyped
  <2>5. held' \in [Requests -> SUBSET Scopes]
    BY <2>1, <2>4 DEF RequestsTyped
  <2>6. /\ target' \in [Requests -> Users \cup {Anonymous}]
        /\ target'[q] \in Users
        /\ \A p \in Requests : p # q => target'[p] = target[p]
    BY <2>1 DEF RequestsTyped
  <2>7. RequestsTyped'
    BY <2>2, <2>3, <2>5, <2>6, GotoTyped DEF RequestsTyped, Locations
  <2>8. TablesTyped' /\ HistoryTyped'
    BY <1>6 DEF ReadTarget, tables, history, TablesTyped, HistoryTyped, Exists, JobExists
  <2>9. QED
    BY <2>7, <2>8
<1>7. CASE Grant(q)
  <2>1. PICK role \in Roles :
          /\ WriteScopes(q, (held[q] \ RolesOn(found[q].name)) \cup {<<found[q].name, role>>})
          /\ sanctioned' \subseteq
               sanctioned \cup {<<target[q], <<found[q].name, role>>, found[q].key>>}
    BY <1>7 DEF Grant
  <2> DEFINE granted == <<found[q].name, role>>
             new == (held[q] \ RolesOn(found[q].name)) \cup {granted}
  <2>2. found[q] \in Rows /\ target[q] \in Users /\ held[q] \subseteq Scopes
    BY <1>7 DEF Grant, RequestsTyped
  <2>3. granted \in Scopes
    BY <2>2 DEF Scopes, Names, Rows
  <2>4. new \subseteq Scopes
    BY <2>2, <2>3
  <2>5. scopes' \in [Users -> SUBSET Scopes]
    <3> HIDE DEF new
    <3>1. \/ scopes' = [scopes EXCEPT ![target[q]] = new]
          \/ scopes' = scopes
      BY <2>1 DEF WriteScopes, new, granted
    <3>2. QED
      BY <3>1, <2>4 DEF TablesTyped
  <2>6. TablesTyped'
    BY <2>5, <1>7 DEF Grant, TablesTyped, Exists, JobExists
  <2>7. RequestsTyped'
    BY <1>7, EndTyped DEF Grant
  <2>8. <<target[q], granted, found[q].key>> \in Users \X Scopes \X Nat
    BY <2>2, <2>3 DEF Rows
  <2>9. revoked' \subseteq revoked
    BY <1>7 DEF Grant
  <2>10. HistoryTyped'
    BY <2>1, <2>8, <2>9 DEF HistoryTyped
  <2>11. QED
    BY <2>6, <2>7, <2>10
<1>8. CASE Revoke(q)
  <2> DEFINE kept == held[q] \ RolesOn(found[q].name)
  <2>1. found[q] \in Rows /\ target[q] \in Users /\ kept \subseteq Scopes
    BY <1>8 DEF Revoke, RequestsTyped
  <2>2. /\ \/ scopes' = [scopes EXCEPT ![target[q]] = kept]
           \/ scopes' = scopes
        /\ \/ revoked' = revoked \cup {<<target[q], found[q].name>>}
           \/ revoked' = revoked
    BY <1>8 DEF Revoke
  <2> HIDE DEF kept
  <2>3. scopes' \in [Users -> SUBSET Scopes]
    BY <2>1, <2>2 DEF TablesTyped
  <2>4. TablesTyped'
    BY <2>3, <1>8 DEF Revoke, TablesTyped, Exists, JobExists
  <2>5. RequestsTyped'
    BY <1>8, EndTyped DEF Revoke
  <2>6. <<target[q], found[q].name>> \in Users \X Resources
    BY <2>1 DEF Rows
  <2>7. HistoryTyped'
    BY <2>2, <2>6, <1>8 DEF Revoke, HistoryTyped
  <2>8. QED
    BY <2>4, <2>5, <2>7
<1>9. CASE AssignScopes(q)
  <2>1. PICK u \in Users, new \in Assignable :
          /\ scopes' = [scopes EXCEPT ![u] = new]
          /\ sanctioned' \subseteq sanctioned \cup {<<u, s, KeyOf(s)>> : s \in new}
          /\ revoked' \subseteq revoked
    BY <1>9 DEF AssignScopes
  <2>2. new \subseteq Scopes
    BY AssignableAssumption
  <2>3. scopes' \in [Users -> SUBSET Scopes]
    BY <2>1, <2>2 DEF TablesTyped
  <2>4. TablesTyped'
    BY <2>3, <1>9 DEF AssignScopes, TablesTyped, Exists, JobExists
  <2>5. RequestsTyped'
    BY <1>9, EndTyped DEF AssignScopes
  <2>6. ASSUME NEW s \in Scopes PROVE KeyOf(s) \in Nat
    <3>1. CASE s[1] \in Resources /\ row[s[1]] # NoRow
      <4>1. row[s[1]] \in Rows
        BY <3>1 DEF TablesTyped
      <4>2. QED
        BY <3>1, <4>1 DEF KeyOf, Rows
    <3>2. CASE ~(s[1] \in Resources /\ row[s[1]] # NoRow)
      BY <3>2 DEF KeyOf
    <3>3. QED
      BY <3>1, <3>2
  <2>7. {<<u, s, KeyOf(s)>> : s \in new} \subseteq Users \X Scopes \X Nat
    BY <2>2, <2>6
  <2>8. HistoryTyped'
    BY <2>1, <2>7 DEF HistoryTyped
  <2>9. QED
    BY <2>4, <2>5, <2>8
<1>10. CASE FindProcess(q)
  <2>1. PICK r \in Processes : Exists(r) /\ found' = [found EXCEPT ![q] = row[r]]
    BY <1>10 DEF FindProcess
  <2>2. row[r] \in Rows /\ row[r].name = r
    BY <2>1 DEF Exists, TablesTyped, Resources
  <2>3. /\ Goto(q, "authenticated", "running")
        /\ UNCHANGED <<actor, target, held>>
    BY <1>10 DEF FindProcess
  <2>4. RequestsTyped'
    BY <2>1, <2>2, <2>3, GotoTyped DEF RequestsTyped, Locations
  <2>5. TablesTyped' /\ HistoryTyped'
    BY <1>10 DEF FindProcess, tables, history, TablesTyped, HistoryTyped, Exists, JobExists
  <2>6. QED
    BY <2>4, <2>5

<1>11. CASE CreateJob(q)
  <2> DEFINE p == found[q].name
  <2>1. PICK j \in Jobs \ usedJobs :
          /\ job' = [job EXCEPT ![j] =
                       [name |-> j, process |-> p,
                        owner |-> IF actor[q].id \in Users THEN actor[q].id
                                  ELSE found[q].owner,
                        public |-> actor[q].id = Anonymous]]
          /\ usedJobs' = usedJobs \cup {j}
    BY <1>11 DEF CreateJob
  <2> DEFINE x == [name |-> j, process |-> p,
                   owner |-> IF actor[q].id \in Users THEN actor[q].id
                             ELSE found[q].owner,
                   public |-> actor[q].id = Anonymous]
  <2>2. Exists(p) /\ UNCHANGED <<scopes, row, nextKey>>
    BY <1>11 DEF CreateJob
  <2>3. found[q] \in Rows /\ p \in Resources
    BY <1>11 DEF CreateJob, RequestsTyped, Rows
  <2>4. p \in Processes
    BY <1>11 DEF CreateJob, RequestsTyped
  <2>5. x \in JobRows /\ x.name = j /\ x.process = p
    BY <2>3, <2>4 DEF JobRows, Rows
  <2> HIDE DEF x
  <2>6. job' = [job EXCEPT ![j] = x]
    BY <2>1 DEF x
  <2>7. job' \in [Jobs -> JobRows \cup {NoRow}]
    BY <2>5, <2>6 DEF TablesTyped
  <2>8. ASSUME NEW i \in Jobs, job'[i] # NoRow
        PROVE  job'[i].name = i /\ i \in usedJobs' /\ row'[job'[i].process] # NoRow
    <3>1. CASE i = j
      BY <3>1, <2>1, <2>2, <2>5, <2>6 DEF TablesTyped, Exists
    <3>2. CASE i # j
      BY <3>2, <2>1, <2>2, <2>6, <2>8 DEF TablesTyped, Exists, JobExists
    <3>3. QED
      BY <3>1, <3>2
  <2>9. TablesTyped'
    BY <2>1, <2>2, <2>7, <2>8 DEF TablesTyped, Exists, JobExists
  <2>10. RequestsTyped'
    BY <1>11, EndTyped DEF CreateJob
  <2>11. HistoryTyped'
    BY <1>11 DEF CreateJob, history, HistoryTyped
  <2>12. QED
    BY <2>9, <2>10, <2>11
<1>12. CASE FindJob(q)
  <2>1. PICK j \in Jobs : JobExists(j) /\ found' = [found EXCEPT ![q] = job[j]]
    BY <1>12 DEF FindJob
  <2>2. job[j] \in JobRows
    BY <2>1 DEF JobExists, TablesTyped
  <2>3. /\ Goto(q, "authenticated", "deleting")
        /\ UNCHANGED <<actor, target, held>>
    BY <1>12 DEF FindJob
  <2>4. RequestsTyped'
    BY <2>1, <2>2, <2>3, GotoTyped DEF RequestsTyped, Locations
  <2>5. TablesTyped' /\ HistoryTyped'
    BY <1>12 DEF FindJob, tables, history, TablesTyped, HistoryTyped, Exists, JobExists
  <2>6. QED
    BY <2>4, <2>5
<1>13. CASE DeleteJob(q)
  <2>1. /\ job' = [job EXCEPT ![found[q].name] = NoRow]
        /\ UNCHANGED <<scopes, row, usedJobs, nextKey>>
    BY <1>13 DEF DeleteJob
  <2>2. job' \in [Jobs -> JobRows \cup {NoRow}]
    BY <2>1 DEF TablesTyped
  <2>3. ASSUME NEW j \in Jobs, job'[j] # NoRow
        PROVE  job'[j] = job[j] /\ JobExists(j)
    BY <2>1, <2>3 DEF TablesTyped, JobExists
  <2>4. TablesTyped'
    BY <2>1, <2>2, <2>3 DEF TablesTyped, Exists, JobExists
  <2>5. RequestsTyped'
    BY <1>13, EndTyped DEF DeleteJob
  <2>6. HistoryTyped'
    BY <1>13 DEF DeleteJob, history, HistoryTyped
  <2>7. QED
    BY <2>4, <2>5, <2>6
<1>14. CASE Abandon(q)
  <2>1. RequestsTyped'
    BY <1>14, EndTyped DEF Abandon
  <2>2. TablesTyped' /\ HistoryTyped'
    BY <1>14 DEF Abandon, tables, history, TablesTyped, HistoryTyped, Exists, JobExists
  <2>3. QED
    BY <2>1, <2>2
<1>15. QED
  BY <1>1, <1>2, <1>3, <1>4, <1>5, <1>6, <1>7, <1>8, <1>9, <1>10, <1>11, <1>12,
     <1>13, <1>14 DEF Step

\* The types of the tables and of the requests' copies, no job without its
\* process, keys in order (db/models.py and the operations on it).
THEOREM TypeCorrect == Spec => []TypeOK
<1>1. TypeOK /\ [Next]_vars => TypeOK'
  <2> SUFFICES ASSUME TypeOK, [Next]_vars PROVE TypeOK'
    OBVIOUS
  <2>1. CASE Next
    BY <2>1, StepTyped DEF Next
  <2>2. CASE UNCHANGED vars
    BY <2>2 DEF vars, TypeOK, TablesTyped, RequestsTyped, HistoryTyped, Exists, JobExists
  <2>3. QED
    BY <2>1, <2>2
<1>2. QED
  BY InitTyped, <1>1, PTL DEF Spec

-----------------------------------------------------------------------------
(* What the policy says, in every state.                                   *)

\* The reference policy is consulted about any visitor and any row: neither
\* the state nor the types of the rows matter.
THEOREM PolicyIsMirrored == PolicyMirrorsLocal
<1> SUFFICES ASSUME NEW u \in Visitors
    PROVE /\ \A r \in ExistingRows(Resources) :
               /\ OpaCanView(u, r) <=> CanView(u, r)
               /\ OpaCanEdit(u, r) <=> CanEdit(u, r)
               /\ OpaCanChangeOwner(u, r) <=> CanChangeOwner(u, r)
               /\ OpaCanCreateJob(u, r) <=> CanCreateJob(u, r)
          /\ \A j \in ExistingJobs :
               /\ OpaCanViewJob(u, j) <=> CanViewJob(u, j)
               /\ OpaJobEditor(u, j) <=> CanDeleteJob(u, j)
          /\ \A names \in {Collections, Processes, Jobs} :
               OpaAccessible(u, names) = Accessible(u, names)
          /\ \A new \in Assignable :
               OpaCanSetScopes(u, new, Editable(u)) <=> CanSetScopes(u, new, Editable(u))
  BY DEF PolicyMirrorsLocal
<1> USE DEF OpaScope, OpaOwner, LoggedIn, IsAdmin, Owns, Holds
<1>1. ASSUME NEW r
      PROVE  /\ OpaCanView(u, r) <=> CanView(u, r)
             /\ OpaCanEdit(u, r) <=> CanEdit(u, r)
             /\ OpaCanChangeOwner(u, r) <=> CanChangeOwner(u, r)
             /\ OpaCanCreateJob(u, r) <=> CanCreateJob(u, r)
  BY DEF OpaCanView, CanView, OpaCanEdit, CanEdit, OpaCanChangeOwner,
         CanChangeOwner, OpaCanCreateJob, CanCreateJob
<1>2. ASSUME NEW j
      PROVE  /\ OpaCanViewJob(u, j) <=> CanViewJob(u, j)
             /\ OpaJobEditor(u, j) <=> CanDeleteJob(u, j)
  BY DEF OpaCanViewJob, OpaJobViewer, OpaJobEditor, CanViewJob, IsJobViewer,
         CanDeleteJob, IsJobEditor
<1>3. ASSUME NEW names PROVE OpaAccessible(u, names) = Accessible(u, names)
  BY DEF OpaAccessible, Accessible
<1>4. ASSUME NEW new, NEW editable
      PROVE  OpaCanSetScopes(u, new, editable) <=> CanSetScopes(u, new, editable)
  BY DEF OpaCanSetScopes, CanSetScopes
<1>5. QED
  BY <1>1, <1>2, <1>3, <1>4

\* Every visitor is listed what the visitor may open, nothing more and nothing
\* less, given that a row is stored under its name.
LEMMA ListingsAgree == TypeOK => ListingsShowWhatMayBeViewed
<1> SUFFICES ASSUME TypeOK, NEW a \in Visitors \cup {Account(System)}
    PROVE /\ \A names \in {Collections, Processes} :
               LET rows == ExistingRows(names)
               IN ListResources(a, rows, names)
                    = {r \in rows : r \in GetResource(a, rows, r.name)}
          /\ ListJobs(a, ExistingJobs)
               = {j \in ExistingJobs : j \in GetJob(a, ExistingJobs, j.name)}
          /\ ConfigListProcesses(a, ExistingRows(Processes))
               = ListResources(a, ExistingRows(Processes), Processes)
  BY DEF ListingsShowWhatMayBeViewed
<1> USE DEF LoggedIn, IsAdmin, Owns, Holds, RolesOn, Accessible
<1>1. ASSUME NEW names \in {Collections, Processes}, NEW r \in ExistingRows(names)
      PROVE  r \in ListResources(a, ExistingRows(names), names) <=> MayView(a, r)
  <2>1. r.name \in names /\ r.owner \in Users
    BY <1>1 DEF ExistingRows, TypeOK, TablesTyped, Exists, Resources, Rows
  <2>2. CASE a.id = Anonymous
    <3>1. a.scopes = {} /\ ~IsSystem(a)
      BY <2>2, PrincipalsAssumption DEF Visitors, Account, IsSystem
    <3>. QED BY <2>2, <3>1 DEF ListResources, ListPublic, MayView, CanView, CanEdit
  <2>3. CASE IsSystem(a) /\ a.id # Anonymous
    BY <2>3 DEF ListResources, MayView
  <2>4. CASE ~IsSystem(a) /\ a.id # Anonymous
    BY <2>1, <2>4 DEF ListResources, ListUserResources, MayView, CanView, CanEdit
  <2>. QED BY <2>2, <2>3, <2>4
<1>2. ASSUME NEW j \in ExistingJobs
      PROVE  j \in ListJobs(a, ExistingJobs) <=> MayViewJob(a, j)
  <2>1. PICK i \in Jobs : JobExists(i) /\ j = JobFacts(i)
    BY DEF ExistingJobs
  <2>2. job[i] \in JobRows /\ job[i].name = i /\ row[job[i].process] # NoRow
    BY <2>1 DEF JobExists, TypeOK, TablesTyped, Exists
  <2>3. j.name = i /\ j.process = row[job[i].process]
    BY <2>1, <2>2 DEF JobFacts, JobRows
  <2>4. j.process.name \in Processes
    BY <2>2, <2>3 DEF TypeOK, TablesTyped, Exists, JobRows, Resources
  <2>5. CASE a.id = Anonymous
    <3>1. a.scopes = {} /\ ~IsSystem(a)
      BY <2>5, PrincipalsAssumption DEF Visitors, Account, IsSystem
    <3>. QED
      BY <2>5, <3>1 DEF ListJobs, ListPublic, MayViewJob, CanViewJob, IsJobViewer, IsJobEditor
  <2>6. CASE IsSystem(a) /\ a.id # Anonymous
    BY <2>6 DEF ListJobs, MayViewJob
  <2>7. CASE ~IsSystem(a) /\ a.id # Anonymous
    BY <2>3, <2>4, <2>7 DEF ListJobs, ListUserJobs, MayViewJob, CanViewJob, IsJobViewer,
       IsJobEditor
  <2>. QED BY <2>5, <2>6, <2>7
<1>3. \A names \in {Collections, Processes} :
        ListResources(a, ExistingRows(names), names) \subseteq ExistingRows(names)
  BY DEF ListResources, ListPublic, ListUserResources
<1>4. ListJobs(a, ExistingJobs) \subseteq ExistingJobs
  BY DEF ListJobs, ListPublic, ListUserJobs
<1>5. QED
  BY <1>1, <1>2, <1>3, <1>4 DEF GetResource, GetJob, ConfigListProcesses

\* In every reachable state, for every visitor.
THEOREM ListingsTruthful == Spec => []ListingsShowWhatMayBeViewed
BY TypeCorrect, ListingsAgree, PTL

\* A request that found what it may edit, or run, has not changed since.
EntitledRequests ==
  \A q \in Requests :
    /\ pc[q] = "editing" => MayEdit(actor[q], found[q])
    /\ pc[q] = "running" => MayCreateJob(actor[q], found[q])

\* A request steps alone, and only looking a row up leads to acting on it.
LEMMA OwnSteps ==
  ASSUME RequestsTyped, NEW q \in Requests, Step(q)
  PROVE  /\ \A p \in Requests \ {q} :
              pc'[p] = pc[p] /\ actor'[p] = actor[p] /\ found'[p] = found[p]
         /\ pc'[q] = "editing" => Find(q)
         /\ pc'[q] = "running" => FindProcess(q)
<1>1. CASE Authenticate(q) \/ Find(q) \/ ReadTarget(q) \/ FindProcess(q) \/ FindJob(q)
  BY <1>1 DEF Authenticate, Find, ReadTarget, FindProcess, FindJob, Goto, RequestsTyped
<1>2. CASE ~(Authenticate(q) \/ Find(q) \/ ReadTarget(q) \/ FindProcess(q) \/ FindJob(q))
  <2>1. End(q)
    BY <1>2 DEF Step, Create, Update, Delete, Grant, Revoke, AssignScopes, CreateJob,
       DeleteJob, Abandon
  <2>. QED BY <2>1 DEF End, RequestsTyped
<1>. QED BY <1>1, <1>2

LEMMA EntitledKept ==
  ASSUME TypeOK, EntitledRequests, [Next]_vars
  PROVE  EntitledRequests'
<1>1. CASE UNCHANGED vars
  BY <1>1 DEF vars, EntitledRequests
<1>2. ASSUME NEW q \in Requests, Step(q) PROVE EntitledRequests'
  <2>1. pc'[q] = "editing" => MayEdit(actor'[q], found'[q])
    <3> SUFFICES ASSUME Find(q) PROVE MayEdit(actor'[q], found'[q])
      BY <1>2, OwnSteps DEF TypeOK
    <3>1. PICK r \in Resources : MayEdit(actor[q], row[r]) /\ found' = [found EXCEPT ![q] = row[r]]
      BY DEF Find
    <3>2. found'[q] = row[r] /\ actor' = actor
      BY <3>1 DEF Find, TypeOK, RequestsTyped
    <3>. QED BY <3>1, <3>2
  <2>2. pc'[q] = "running" => MayCreateJob(actor'[q], found'[q])
    <3> SUFFICES ASSUME FindProcess(q) PROVE MayCreateJob(actor'[q], found'[q])
      BY <1>2, OwnSteps DEF TypeOK
    <3>1. PICK r \in Processes : /\ MayCreateJob(actor[q], row[r])
                                 /\ found' = [found EXCEPT ![q] = row[r]]
      BY DEF FindProcess
    <3>2. found'[q] = row[r] /\ actor' = actor
      BY <3>1 DEF FindProcess, TypeOK, RequestsTyped
    <3>. QED BY <3>1, <3>2
  <2>3. ASSUME NEW p \in Requests \ {q}
        PROVE  /\ pc'[p] = "editing" => MayEdit(actor'[p], found'[p])
               /\ pc'[p] = "running" => MayCreateJob(actor'[p], found'[p])
    BY <1>2, OwnSteps DEF EntitledRequests, TypeOK
  <2>. QED BY <2>1, <2>2, <2>3 DEF EntitledRequests
<1>. QED BY <1>1, <1>2 DEF Next

\* Only Delete takes a row away, and only CreateJob adds a job.
LEMMA StepActsOnChecked ==
  ASSUME TypeOK, EntitledRequests, NEW q \in Requests, Step(q)
  PROVE  /\ \A r \in Resources : Exists(r) /\ row'[r] = NoRow =>
              pc[q] = "editing" /\ Entitled(q, r, row[r].key)
         /\ \A j \in Jobs : ~JobExists(j) /\ job'[j] # NoRow =>
              /\ pc[q] = "running"
              /\ Entitled(q, job'[j].process, row'[job'[j].process].key)
<1>. USE DEF TypeOK, TablesTyped, RequestsTyped
<1>1. CASE Delete(q)
  <2>1. /\ pc[q] = "editing" /\ pc'[q] = "ended"
        /\ row' = [row EXCEPT ![found[q].name] = NoRow]
        /\ row[found[q].name].key = found[q].key
        /\ \A j \in Jobs : job'[j] \in {NoRow, job[j]}
    BY <1>1 DEF Delete, End
  <2>2. MayEdit(actor[q], found[q])
    BY <2>1 DEF EntitledRequests
  <2>3. \A r \in Resources : row[r] # NoRow /\ row'[r] = NoRow => r = found[q].name
    BY <2>1
  <2>. QED BY <2>1, <2>2, <2>3 DEF Entitled, Exists, JobExists
<1>2. CASE CreateJob(q)
  <2>1. /\ pc[q] = "running" /\ pc'[q] = "ended" /\ UNCHANGED row
        /\ row[found[q].name].key = found[q].key
    BY <1>2 DEF CreateJob, End
  <2>2. PICK i \in Jobs :
          job' = [job EXCEPT ![i] =
                    [name |-> i, process |-> found[q].name,
                     owner |-> IF actor[q].id \in Users THEN actor[q].id ELSE found[q].owner,
                     public |-> actor[q].id = Anonymous]]
    BY <1>2 DEF CreateJob
  <2>3. MayCreateJob(actor[q], found[q])
    BY <2>1 DEF EntitledRequests
  <2>4. \A j \in Jobs : job[j] = NoRow /\ job'[j] # NoRow => job'[j].process = found[q].name
    BY <2>2
  <2>. QED BY <2>1, <2>3, <2>4 DEF Entitled, Exists, JobExists
<1>3. CASE Create(q)
  <2>1. PICK r \in Resources, owner \in Users, public \in BOOLEAN :
          row' = [row EXCEPT ![r] = [name |-> r, owner |-> owner,
                                     public |-> public, key |-> nextKey]]
    BY <1>3 DEF Create
  <2>2. [name |-> r, owner |-> owner, public |-> public, key |-> nextKey] # NoRow
    BY NoRowAssumption DEF Rows
  <2>3. UNCHANGED job
    BY <1>3 DEF Create
  <2>. QED BY <2>1, <2>2, <2>3 DEF Exists, JobExists
<1>4. CASE Update(q)
  <2>1. PICK owner \in NewOwners(q), public \in BOOLEAN :
          row' = [row EXCEPT ![found[q].name].owner = owner,
                             ![found[q].name].public = public]
    BY <1>4 DEF Update
  <2>2. /\ found[q] \in Rows /\ row[found[q].name] \in Rows /\ found[q].name \in Resources
        /\ UNCHANGED job
    BY <1>4 DEF Update, Exists, Rows
  <2>3. owner \in Users
    BY <2>1, <2>2 DEF NewOwners, Rows
  <2>4. row'[found[q].name] \in Rows
    BY <2>1, <2>2, <2>3 DEF Rows
  <2>5. \A r \in Resources : row[r] # NoRow => row'[r] # NoRow
    BY <2>1, <2>4, NoRowAssumption
  <2>. QED BY <2>2, <2>5 DEF Exists, JobExists
<1>5. CASE DeleteJob(q)
  BY <1>5 DEF DeleteJob, Exists, JobExists
<1>6. CASE ~(Delete(q) \/ CreateJob(q) \/ Create(q) \/ Update(q) \/ DeleteJob(q))
  <2>1. UNCHANGED <<row, job>>
    BY <1>6 DEF Step, Authenticate, Find, ReadTarget, Grant, Revoke, AssignScopes,
       FindProcess, FindJob, Abandon, tables
  <2>. QED BY <2>1 DEF Exists, JobExists
<1>. QED BY <1>1, <1>2, <1>3, <1>4, <1>5, <1>6

\* A deletion, and the creation of a job, act on the very row that the request
\* was allowed to act on when it looked it up, for any number of requests that
\* delete and create rows of one identifier meanwhile.
THEOREM ActsOnChecked == Spec => ActsOnWhatWasChecked
<1> DEFINE Body ==
      /\ \A r \in Resources : Exists(r) /\ row'[r] = NoRow =>
           \E q \in Requests : pc[q] = "editing" /\ Entitled(q, r, row[r].key)
      /\ \A j \in Jobs : ~JobExists(j) /\ job'[j] # NoRow =>
           \E q \in Requests :
             /\ pc[q] = "running"
             /\ Entitled(q, job'[j].process, row'[job'[j].process].key)
<1>1. Init => EntitledRequests
  BY DEF Init, EntitledRequests
<1>2. TypeOK /\ EntitledRequests /\ [Next]_vars => EntitledRequests'
  BY EntitledKept
<1>3. TypeOK /\ EntitledRequests /\ [Next]_vars => [Body]_vars
  <2> SUFFICES ASSUME TypeOK, EntitledRequests, Next PROVE Body
    OBVIOUS
  <2>1. PICK q \in Requests : Step(q)
    BY DEF Next
  <2>. QED BY <2>1, StepActsOnChecked, Zenon
<1>4. Spec => [][Body]_vars
  BY <1>1, <1>2, <1>3, TypeCorrect, PTL DEF Spec
<1>. QED BY <1>4 DEF ActsOnWhatWasChecked


-----------------------------------------------------------------------------
(* Scopes come from those who could give them.  A list of scopes is written *)
(* back from a copy, so the copies have to be granted as well; and what is  *)
(* added is granted because the request found a row it may edit.            *)

Asked(u, s) == \E x \in sanctioned : x[1] = u /\ x[2] = s

HeldWereGranted ==
  \A q \in Requests :
    pc[q] = "sharing" => \A s \in held[q] : Asked(target[q], s)

FoundMayBeEdited ==
  \A q \in Requests :
    pc[q] \in {"editing", "sharing"} => MayEdit(actor[q], found[q])

GrantInv == ScopesWereGranted /\ HeldWereGranted /\ FoundMayBeEdited

\* What was asked for stays asked for.
LEMMA AskedStays ==
  ASSUME sanctioned \subseteq sanctioned', NEW u, NEW s, Asked(u, s)
  PROVE  Asked(u, s)'
BY DEF Asked

\* Steps that leave the requests as they are leave their copies granted.
LEMMA EndKeeps ==
  ASSUME RequestsTyped, HeldWereGranted, FoundMayBeEdited,
         sanctioned \subseteq sanctioned', NEW q \in Requests, End(q)
  PROVE  HeldWereGranted' /\ FoundMayBeEdited'
<1>1. pc'[q] = "ended"
  BY DEF End, RequestsTyped
<1>2. ASSUME NEW p \in Requests, p # q
      PROVE  /\ pc'[p] = pc[p] /\ actor'[p] = actor[p] /\ found'[p] = found[p]
             /\ target'[p] = target[p] /\ held'[p] = held[p]
  BY <1>2 DEF End, RequestsTyped
<1>3. ASSUME NEW p \in Requests, pc'[p] = "sharing", NEW s \in held'[p]
      PROVE  Asked(target[p], s)' /\ target'[p] = target[p]
  <2>1. p # q /\ pc[p] = "sharing" /\ s \in held[p]
    BY <1>1, <1>2, <1>3
  <2>2. Asked(target[p], s)
    BY <2>1 DEF HeldWereGranted
  <2>3. target'[p] = target[p]
    BY <1>2, <2>1
  <2>4. QED
    BY <2>2, <2>3 DEF Asked
<1>4. HeldWereGranted'
  BY <1>3 DEF HeldWereGranted, Asked
<1>5. FoundMayBeEdited'
  <2> SUFFICES ASSUME NEW p \in Requests, pc'[p] \in {"editing", "sharing"}
               PROVE  MayEdit(actor'[p], found'[p])
    BY DEF FoundMayBeEdited
  <2>1. p # q
    BY <1>1
  <2>2. QED
    BY <2>1, <1>2 DEF FoundMayBeEdited
<1>6. QED
  BY <1>4, <1>5

LEMMA GotoKeeps ==
  ASSUME RequestsTyped, HeldWereGranted, FoundMayBeEdited, UNCHANGED sanctioned,
         NEW q \in Requests, NEW from, NEW to, Goto(q, from, to),
         \A p \in Requests : p # q => /\ actor'[p] = actor[p] /\ found'[p] = found[p]
                                      /\ target'[p] = target[p] /\ held'[p] = held[p],
         to \in {"editing", "sharing"} => MayEdit(actor'[q], found'[q]),
         to = "sharing" => \A s \in held'[q] : Asked(target'[q], s)
  PROVE  HeldWereGranted' /\ FoundMayBeEdited'
<1>1. pc'[q] = to /\ \A p \in Requests : p # q => pc'[p] = pc[p]
  BY DEF Goto, RequestsTyped
<1>2. ASSUME NEW p \in Requests, pc'[p] = "sharing", NEW s \in held'[p]
      PROVE  \E x \in sanctioned' : x[1] = target'[p] /\ x[2] = s
  <2>1. CASE p = q
    BY <2>1, <1>1, <1>2 DEF Asked
  <2>2. CASE p # q
    BY <2>2, <1>1, <1>2 DEF HeldWereGranted, Asked
  <2>3. QED
    BY <2>1, <2>2
<1>3. ASSUME NEW p \in Requests, pc'[p] \in {"editing", "sharing"}
      PROVE  MayEdit(actor'[p], found'[p])
  <2>1. CASE p = q
    BY <2>1, <1>1, <1>3
  <2>2. CASE p # q
    BY <2>2, <1>1, <1>3 DEF FoundMayBeEdited
  <2>3. QED
    BY <2>1, <2>2
<1>4. QED
  BY <1>2, <1>3 DEF HeldWereGranted, FoundMayBeEdited, Asked

LEMMA InitGranted == Init => GrantInv
<1> SUFFICES ASSUME Init PROVE GrantInv
  OBVIOUS
<1>1. ScopesWereGranted
  <2>1. PICK a \in Users :
          /\ scopes = [u \in Users |-> IF u = a THEN {Admin} ELSE {}]
          /\ sanctioned = {<<a, Admin, 0>>}
    BY DEF Init
  <2>2. ASSUME NEW u \in Users, NEW s \in scopes[u] PROVE u = a /\ s = Admin
    BY <2>1, <2>2
  <2>3. QED
    BY <2>1, <2>2 DEF ScopesWereGranted
<1>2. HeldWereGranted /\ FoundMayBeEdited
  BY DEF Init, HeldWereGranted, FoundMayBeEdited
<1>3. QED
  BY <1>1, <1>2 DEF GrantInv

\* A list written from granted scopes leaves all accounts granted.
LEMMA WriteGranted ==
  ASSUME TypeOK, ScopesWereGranted, sanctioned \subseteq sanctioned',
         NEW u \in Users, NEW new,
         scopes' = [scopes EXCEPT ![u] = new],
         \A s \in new : \E x \in sanctioned' : x[1] = u /\ x[2] = s
  PROVE  ScopesWereGranted'
<1> SUFFICES ASSUME NEW v \in Users, NEW s \in scopes'[v]
             PROVE  \E x \in sanctioned' : x[1] = v /\ x[2] = s
  BY DEF ScopesWereGranted
<1>1. CASE v = u
  BY <1>1 DEF TypeOK, TablesTyped
<1>2. CASE v # u
  <2>1. s \in scopes[v]
    BY <1>2 DEF TypeOK, TablesTyped
  <2>2. QED
    BY <2>1 DEF ScopesWereGranted
<1>3. QED
  BY <1>1, <1>2

LEMMA StepGranted ==
  ASSUME TypeOK, GrantInv, NEW q \in Requests, Step(q)
  PROVE  GrantInv'
<1> USE DEF GrantInv
<1>0. RequestsTyped
  BY DEF TypeOK
<1>1. CASE Create(q) \/ Update(q) \/ Delete(q) \/ CreateJob(q) \/ DeleteJob(q) \/ Abandon(q)
  <2>1. End(q) /\ UNCHANGED <<scopes, sanctioned>>
    BY <1>1 DEF Create, Update, Delete, CreateJob, DeleteJob, Abandon, history, tables
  <2>2. ScopesWereGranted'
    BY <2>1 DEF ScopesWereGranted
  <2>3. QED
    BY <1>0, <2>1, <2>2, EndKeeps
<1>2. CASE Authenticate(q) \/ FindProcess(q) \/ FindJob(q)
  <2>1. PICK to \in {"authenticated", "running", "deleting"} :
          \E from : Goto(q, from, to)
    BY <1>2 DEF Authenticate, FindProcess, FindJob
  <2>2. /\ UNCHANGED <<scopes, sanctioned, target, held>>
        /\ \E a : actor' = [actor EXCEPT ![q] = a]
        /\ \E f : found' = [found EXCEPT ![q] = f]
    <3>1. /\ UNCHANGED <<scopes, sanctioned, target, held>>
          /\ actor' = actor \/ \E a : actor' = [actor EXCEPT ![q] = a]
          /\ found' = found \/ \E f : found' = [found EXCEPT ![q] = f]
      BY <1>2 DEF Authenticate, FindProcess, FindJob, history, tables
    <3>2. actor = [actor EXCEPT ![q] = actor[q]] /\ found = [found EXCEPT ![q] = found[q]]
      BY <1>0 DEF RequestsTyped
    <3>3. QED
      BY <3>1, <3>2
  <2>3. \A p \in Requests : p # q => /\ actor'[p] = actor[p] /\ found'[p] = found[p]
                                     /\ target'[p] = target[p] /\ held'[p] = held[p]
    BY <1>0, <2>2 DEF RequestsTyped
  <2>4. ScopesWereGranted'
    BY <2>2 DEF ScopesWereGranted
  <2>5. QED
    BY <1>0, <2>1, <2>2, <2>3, <2>4, GotoKeeps
<1>3. CASE Find(q)
  <2>1. PICK r \in Resources :
          MayEdit(actor[q], row[r]) /\ found' = [found EXCEPT ![q] = row[r]]
    BY <1>3 DEF Find
  <2>2. /\ Goto(q, "authenticated", "editing")
        /\ UNCHANGED <<scopes, sanctioned, actor, target, held>>
    BY <1>3 DEF Find, history, tables
  <2>3. MayEdit(actor'[q], found'[q])
    BY <1>0, <2>1, <2>2 DEF RequestsTyped
  <2>4. \A p \in Requests : p # q => found'[p] = found[p]
    BY <1>0, <2>1 DEF RequestsTyped
  <2>5. ScopesWereGranted'
    BY <2>2 DEF ScopesWereGranted
  <2>6. QED
    BY <1>0, <2>2, <2>3, <2>4, <2>5, GotoKeeps
<1>4. CASE ReadTarget(q)
  <2>1. PICK u \in Users : /\ target' = [target EXCEPT ![q] = u]
                           /\ held' = [held EXCEPT ![q] = scopes[u]]
    BY <1>4 DEF ReadTarget
  <2>2. /\ Goto(q, "editing", "sharing")
        /\ UNCHANGED <<scopes, sanctioned, actor, found>>
    BY <1>4 DEF ReadTarget, history, tables
  <2>3. MayEdit(actor'[q], found'[q])
    BY <2>2 DEF Goto, FoundMayBeEdited
  <2>4. held'[q] = scopes[u] /\ target'[q] = u
    BY <1>0, <2>1 DEF RequestsTyped
  <2>5. \A s \in held'[q] : Asked(target'[q], s)
    BY <2>4 DEF ScopesWereGranted, Asked
  <2>6. \A p \in Requests : p # q => target'[p] = target[p] /\ held'[p] = held[p]
    BY <1>0, <2>1 DEF RequestsTyped
  <2>7. ScopesWereGranted'
    BY <2>2 DEF ScopesWereGranted
  <2>8. QED
    BY <1>0, <2>2, <2>3, <2>5, <2>6, <2>7, GotoKeeps
<1>5. CASE Grant(q)
  <2>1. pc[q] = "sharing" /\ End(q)
    BY <1>5 DEF Grant
  <2>2. target[q] \in Users
    BY <1>0, <2>1 DEF RequestsTyped
  <2>3. MayEdit(actor[q], found[q])
    BY <2>1 DEF FoundMayBeEdited
  <2>4. PICK role \in Roles :
          /\ WriteScopes(q, (held[q] \ RolesOn(found[q].name)) \cup {<<found[q].name, role>>})
          /\ sanctioned' =
               sanctioned \cup {<<target[q], <<found[q].name, role>>, found[q].key>>}
    BY <1>5, <2>3 DEF Grant
  <2> DEFINE granted == <<found[q].name, role>>
             new == (held[q] \ RolesOn(found[q].name)) \cup {granted}
  <2>5. sanctioned \subseteq sanctioned'
    BY <2>4
  <2>6. ASSUME NEW s \in new PROVE \E x \in sanctioned' : x[1] = target[q] /\ x[2] = s
    <3>1. CASE s = granted
      <4>1. <<target[q], granted, found[q].key>> \in sanctioned'
        BY <2>4
      <4>2. QED
        BY <4>1, <3>1
    <3>2. CASE s \in held[q]
      BY <3>2, <2>1, <2>5 DEF HeldWereGranted, Asked
    <3>3. QED
      BY <3>1, <3>2
  <2>7. \/ scopes' = [scopes EXCEPT ![target[q]] = new]
        \/ scopes' = scopes
    BY <2>4 DEF WriteScopes
  <2> HIDE DEF new, granted
  <2>8. ScopesWereGranted'
    <3>1. CASE scopes' = [scopes EXCEPT ![target[q]] = new]
      BY <3>1, <2>2, <2>5, <2>6, WriteGranted
    <3>2. CASE scopes' = scopes
      BY <3>2, <2>5 DEF ScopesWereGranted
    <3>3. QED
      BY <2>7, <3>1, <3>2
  <2>9. QED
    BY <1>0, <2>1, <2>5, <2>8, EndKeeps
<1>6. CASE Revoke(q)
  <2> DEFINE kept == held[q] \ RolesOn(found[q].name)
  <2>1. pc[q] = "sharing" /\ End(q) /\ UNCHANGED sanctioned
    BY <1>6 DEF Revoke
  <2>2. target[q] \in Users
    BY <1>0, <2>1 DEF RequestsTyped
  <2>3. \/ scopes' = [scopes EXCEPT ![target[q]] = kept]
        \/ scopes' = scopes
    BY <1>6 DEF Revoke
  <2>4. \A s \in kept : \E x \in sanctioned' : x[1] = target[q] /\ x[2] = s
    BY <2>1 DEF HeldWereGranted, Asked
  <2> HIDE DEF kept
  <2>5. ScopesWereGranted'
    <3>1. CASE scopes' = [scopes EXCEPT ![target[q]] = kept]
      BY <3>1, <2>1, <2>2, <2>4, WriteGranted
    <3>2. CASE scopes' = scopes
      BY <3>2, <2>1 DEF ScopesWereGranted
    <3>3. QED
      BY <2>3, <3>1, <3>2
  <2>6. QED
    BY <1>0, <2>1, <2>5, EndKeeps
<1>7. CASE AssignScopes(q)
  <2>1. End(q)
    BY <1>7 DEF AssignScopes
  <2>2. PICK u \in Users, new \in Assignable :
          /\ MayAssign(actor[q], new, Editable(actor[q]))
          /\ scopes' = [scopes EXCEPT ![u] = new]
          /\ sanctioned' = IF IsSystem(actor[q]) \/ IsAdmin(actor[q])
                           THEN sanctioned \cup {<<u, s, KeyOf(s)>> : s \in new}
                           ELSE sanctioned
    BY <1>7 DEF AssignScopes
  <2>3. sanctioned' = sanctioned \cup {<<u, s, KeyOf(s)>> : s \in new}
    BY <2>2 DEF MayAssign
  <2>4. ASSUME NEW s \in new PROVE \E x \in sanctioned' : x[1] = u /\ x[2] = s
    <3>1. <<u, s, KeyOf(s)>> \in sanctioned'
      BY <2>3
    <3>2. QED
      BY <3>1
  <2>5. ScopesWereGranted'
    BY <2>2, <2>3, <2>4, WriteGranted
  <2>6. QED
    BY <1>0, <2>1, <2>3, <2>5, EndKeeps
<1>8. QED
  BY <1>1, <1>2, <1>3, <1>4, <1>5, <1>6, <1>7 DEF Step

\* Every scope of every account was given by one who could, for any number of
\* concurrent requests (operations/users.py, grant, revoke and update_user).
THEOREM ScopesGranted == Spec => []ScopesWereGranted
<1>1. TypeOK /\ GrantInv /\ [Next]_vars => GrantInv'
  <2> SUFFICES ASSUME TypeOK, GrantInv, [Next]_vars PROVE GrantInv'
    OBVIOUS
  <2>1. CASE Next
    BY <2>1, StepGranted DEF Next
  <2>2. CASE UNCHANGED vars
    BY <2>2 DEF vars, GrantInv, ScopesWereGranted, HeldWereGranted,
                FoundMayBeEdited, Asked
  <2>3. QED
    BY <2>1, <2>2
<1>2. GrantInv => ScopesWereGranted
  BY DEF GrantInv
<1>3. QED
  BY InitGranted, TypeCorrect, <1>1, <1>2, PTL DEF Spec

=============================================================================
