---------------------- MODULE ProcessDeploymentProofs ----------------------
(***************************************************************************)
(* Theorems about ProcessDeployment, for every set of workers and of       *)
(* definitions and for every bound.                                        *)
(***************************************************************************)
EXTENDS ProcessDeployment, TLAPS

LEMMA NoRowType == NoRow \in Rows
BY DEF NoRow, Rows, Hashes, StatusValues

\* A worker that moves on to a location stays at one.
LEMMA GoesType ==
  ASSUME TypeOK, NEW w \in Workers, NEW from, NEW to \in Locations,
         Goes(w, from, to)
  PROVE  pc' \in [Workers -> Locations]
BY DEF TypeOK, Goes

\* The end of a handler leaves its local variables well typed.
LEMMA EndsType ==
  ASSUME TypeOK, NEW w \in Workers, NEW from, Ends(w, from)
  PROVE  /\ pc' \in [Workers -> Locations]
         /\ snapshot' \in [Workers -> Hashes]
         /\ target' \in [Workers -> Nat]
         /\ claimed' \in [Workers -> Rows]
         /\ outcome' \in [Workers -> Outcomes]
<1>1. "idle" \in Locations
  BY DEF Locations
<1>. QED
  BY <1>1, GoesType, NoRowType DEF TypeOK, Ends, ForgetsLocals, Hashes, Outcomes

\* Looking the row up is the same step before the claim and before the record.
LEMMA FindType ==
  ASSUME TypeOK, NEW w \in Workers, NEW from, NEW to \in Locations,
         Find(w, from, to)
  PROVE  TypeOK'
<1>1. row.id \in Nat
  BY DEF TypeOK, Rows
<1>2. UNCHANGED <<row, nextId, unpublished, writes, queue, succeeded, faults>>
  BY DEF Find, DatabaseUntouched, clientVars
<1>3. CASE Ends(w, from)
  BY <1>2, <1>3, EndsType DEF TypeOK
<1>4. CASE /\ Goes(w, from, to)
           /\ target' = [target EXCEPT ![w] = row.id]
           /\ UNCHANGED <<snapshot, claimed, outcome>>
  BY <1>1, <1>2, <1>4, GoesType DEF TypeOK
<1>. QED
  BY <1>3, <1>4 DEF Find

\* Every variable keeps its type, whatever faults are allowed.
THEOREM TypeCorrect == Spec => []TypeOK
<1>1. Init => TypeOK
  BY NoRowType DEF Init, TypeOK, Locations, Outcomes, Hashes
<1>2. TypeOK /\ [Next]_vars => TypeOK'
  <2> SUFFICES ASSUME TypeOK, [Next]_vars PROVE TypeOK'
    OBVIOUS
  <2> USE NoRowType DEF TypeOK
  <2>1. ASSUME NEW d \in Definitions,
               CreateProcess(d) \/ UpdateProcess(d) \/ AdminCreate(d) \/ AdminEdit(d)
        PROVE  TypeOK'
    <3>1. row' \in Rows /\ nextId' \in Nat \ {0}
      BY <2>1 DEF CreateProcess, UpdateProcess, AdminCreate, AdminEdit, Inserts,
           Updates, NewRow, Rows, Hashes, StatusValues
    <3>2. unpublished' \in Nat /\ writes' \in Nat /\ faults' \in Nat
      BY <2>1 DEF CreateProcess, UpdateProcess, AdminCreate, AdminEdit,
           ThroughWrapper, ThroughAdmin, Fault
    <3>3. UNCHANGED <<queue, pc, snapshot, target, claimed, outcome, succeeded>>
      BY <2>1 DEF CreateProcess, UpdateProcess, AdminCreate, AdminEdit,
           WorkersUntouched, localVars
    <3>. QED BY <3>1, <3>2, <3>3
  <2>2. CASE DeleteProcess \/ AdminDelete
    BY <2>2 DEF DeleteProcess, AdminDelete, Deletes, ThroughWrapper,
         ThroughAdmin, Fault, WorkersUntouched, localVars
  <2>3. CASE PublishProcessEvent
    BY <2>3 DEF PublishProcessEvent, localVars
  <2>4. ASSUME NEW w \in Workers, WorkerStep(w)
        PROVE  TypeOK'
    <3>1. CASE ReceiveEvent(w)
      BY <3>1, GoesType DEF ReceiveEvent, Locations, DatabaseUntouched,
         clientVars, localVars
    <3>2. CASE ReconcileProcess(w)
      BY <3>2, GoesType, EndsType DEF ReconcileProcess, Locations,
         DatabaseUntouched, clientVars, localVars
    <3>3. CASE TakeSnapshot(w)
      BY <3>3, GoesType, EndsType DEF TakeSnapshot, Locations, Rows,
         DatabaseUntouched, clientVars
    <3>4. CASE FindToClaim(w)
      BY <3>4, FindType DEF FindToClaim, Locations
    <3>5. CASE Claim(w)
      <4>1. row' \in Rows
        BY <3>5 DEF Claim, SetStatus, Rows, StatusValues
      <4>. QED
        BY <3>5, <4>1, GoesType, EndsType DEF Claim, Locations, localVars
    <3>6. CASE RereadClaimed(w)
      BY <3>6, GoesType, EndsType DEF RereadClaimed, Locations,
         DatabaseUntouched, clientVars
    <3>7. CASE DeployProcess(w)
      <4>1. claimed[w].definition \in Hashes
        BY DEF Rows
      <4>. QED
        BY <3>7, <4>1, GoesType DEF DeployProcess, Locations,
           DatabaseUntouched, clientVars
    <3>8. CASE FindToRecord(w)
      BY <3>8, FindType DEF FindToRecord, Locations
    <3>9. CASE RecordOutcome(w)
      <4>1. row' \in Rows
        BY <3>9 DEF RecordOutcome, SetStatus, Rows, StatusValues, Outcomes
      <4>. QED
        BY <3>9, <4>1, GoesType, EndsType DEF RecordOutcome, Locations, localVars
    <3>10. CASE RereadRecorded(w)
      BY <3>10, GoesType, EndsType DEF RereadRecorded, Locations,
         DatabaseUntouched, clientVars, localVars
    <3>11. CASE PublishOutcome(w)
      BY <3>11, EndsType DEF PublishOutcome, DatabaseUntouched, clientVars
    <3>. QED
      BY <2>4, <3>1, <3>2, <3>3, <3>4, <3>5, <3>6, <3>7, <3>8, <3>9, <3>10,
         <3>11 DEF WorkerStep
  <2>5. CASE DuplicateEvent
    BY <2>5 DEF DuplicateEvent, Fault, DatabaseUntouched, clientVars, localVars
  <2>6. CASE LoseClientEvent
    BY <2>6 DEF LoseClientEvent, Fault, localVars
  <2>7. ASSUME NEW w \in Workers, LoseOutcomeEvent(w) \/ Crash(w)
        PROVE  TypeOK'
    BY <2>7 DEF LoseOutcomeEvent, Crash, Ends, Goes, ForgetsLocals, Fault,
         DatabaseUntouched, clientVars, Locations, Outcomes, Hashes
  <2>8. CASE UNCHANGED vars
    BY <2>8 DEF vars
  <2>. QED
    BY <2>1, <2>2, <2>3, <2>4, <2>5, <2>6, <2>7, <2>8 DEF Next
<1>. QED
  BY <1>1, <1>2, PTL DEF Spec

-----------------------------------------------------------------------------
(***************************************************************************)
(* Truthfulness of the recorded status.  The strengthening remembers that  *)
(* a worker which is about to record a success has had one, for the        *)
(* definition of the row that it re-read after its claim.                  *)
(***************************************************************************)

\* A worker with a successful outcome in hand deployed what it claimed.
OutcomeEarned ==
  \A w \in Workers :
    pc[w] \in {"find_to_record", "record"} /\ outcome[w] = "deployed"
      => claimed[w].definition \in succeeded

TruthfulInv == TruthfulStatus /\ OutcomeEarned

\* A step of a worker that neither deploys nor records changes neither the
\* row's status nor the history; whoever then has an outcome had it before.
LEMMA OutcomeEarnedStable ==
  ASSUME TypeOK, TruthfulInv, NEW w \in Workers,
         UNCHANGED succeeded,
         \A v \in Workers \ {w} : pc'[v] = pc[v] /\ outcome'[v] = outcome[v]
                                    /\ claimed'[v] = claimed[v],
         \/ pc'[w] \notin {"find_to_record", "record"}
         \/ /\ pc[w] \in {"find_to_record", "record"}
            /\ outcome'[w] = outcome[w] /\ claimed'[w] = claimed[w]
  PROVE  OutcomeEarned'
BY DEF TruthfulInv, OutcomeEarned

\* The status "deployed" is only ever recorded with the hash of a definition
\* that was deployed successfully, under every kind of fault.
THEOREM Truthful == Spec => []TruthfulStatus
<1>1. Init => TruthfulInv
  BY DEF Init, TruthfulInv, TruthfulStatus, OutcomeEarned, NoRow
<1>2. TypeOK /\ TruthfulInv /\ [Next]_vars => TruthfulInv'
  <2> SUFFICES ASSUME TypeOK, TruthfulInv, [Next]_vars PROVE TruthfulInv'
    OBVIOUS
  <2>1. ASSUME NEW d \in Definitions,
               CreateProcess(d) \/ UpdateProcess(d) \/ AdminCreate(d) \/ AdminEdit(d)
        PROVE  TruthfulInv'
    <3>1. UNCHANGED <<pc, claimed, outcome, succeeded>>
      BY <2>1 DEF CreateProcess, UpdateProcess, AdminCreate, AdminEdit,
           WorkersUntouched, localVars
    <3>2. row'.value = "deployed" => row.value = "deployed" /\ row'.hash = row.hash
      BY <2>1 DEF CreateProcess, UpdateProcess, AdminCreate, AdminEdit,
           Inserts, Updates, NewRow, TypeOK, Rows
    <3>. QED
      BY <3>1, <3>2 DEF TruthfulInv, TruthfulStatus, OutcomeEarned
  <2>2. CASE DeleteProcess \/ AdminDelete
    BY <2>2 DEF DeleteProcess, AdminDelete, Deletes, NoRow, WorkersUntouched,
         localVars, TruthfulInv, TruthfulStatus, OutcomeEarned
  <2>3. CASE PublishProcessEvent \/ DuplicateEvent \/ LoseClientEvent
    BY <2>3 DEF PublishProcessEvent, DuplicateEvent, LoseClientEvent,
         DatabaseUntouched, clientVars, localVars, TruthfulInv,
         TruthfulStatus, OutcomeEarned
  <2>4. ASSUME NEW w \in Workers, WorkerStep(w)
        PROVE  TruthfulInv'
    <3>1. CASE DeployProcess(w)
      <4>1. row' = row
        BY <3>1 DEF DeployProcess, DatabaseUntouched, clientVars
      <4>2. succeeded \subseteq succeeded'
        BY <3>1 DEF DeployProcess
      <4>3. outcome'[w] = "deployed" => claimed'[w].definition \in succeeded'
        BY <3>1 DEF DeployProcess, TypeOK
      <4>4. \A v \in Workers \ {w} :
              pc'[v] = pc[v] /\ outcome'[v] = outcome[v] /\ claimed'[v] = claimed[v]
        BY <3>1 DEF DeployProcess, Goes, TypeOK
      <4>. QED
        BY <4>1, <4>2, <4>3, <4>4 DEF TruthfulInv, TruthfulStatus, OutcomeEarned
    <3>2. CASE RecordOutcome(w)
      <4>1. TruthfulStatus'
        <5>1. CASE MayRecord(w) /\ SetStatus(outcome[w], claimed[w].definition)
          BY <3>2, <5>1 DEF RecordOutcome, SetStatus, Goes, TypeOK, Rows,
               TruthfulInv, TruthfulStatus, OutcomeEarned
        <5>2. CASE UNCHANGED row
          BY <3>2, <5>2 DEF RecordOutcome, TruthfulInv, TruthfulStatus
        <5>. QED BY <3>2, <5>1, <5>2 DEF RecordOutcome
      <4>2. OutcomeEarned'
        BY <3>2, OutcomeEarnedStable DEF RecordOutcome, Goes, Ends,
             ForgetsLocals, localVars, TypeOK
      <4>. QED BY <4>1, <4>2 DEF TruthfulInv
    <3>3. CASE Claim(w)
      <4>1. TruthfulStatus'
        BY <3>3 DEF Claim, SetStatus, TypeOK, Rows, TruthfulInv, TruthfulStatus
      <4>2. OutcomeEarned'
        BY <3>3, OutcomeEarnedStable DEF Claim, Goes, Ends, ForgetsLocals,
             localVars, TypeOK
      <4>. QED BY <4>1, <4>2 DEF TruthfulInv
    <3>4. CASE \/ ReceiveEvent(w) \/ ReconcileProcess(w) \/ TakeSnapshot(w)
               \/ FindToClaim(w) \/ RereadClaimed(w) \/ FindToRecord(w)
               \/ RereadRecorded(w) \/ PublishOutcome(w)
      <4>1. row' = row /\ succeeded' = succeeded
        BY <3>4 DEF ReceiveEvent, ReconcileProcess, TakeSnapshot, FindToClaim,
             Find, RereadClaimed, FindToRecord, RereadRecorded, PublishOutcome,
             DatabaseUntouched, clientVars
      <4>2. OutcomeEarned'
        BY <3>4, <4>1, OutcomeEarnedStable DEF ReceiveEvent, ReconcileProcess,
             TakeSnapshot, FindToClaim, Find, RereadClaimed, FindToRecord,
             RereadRecorded, PublishOutcome, Goes, Ends, ForgetsLocals,
             localVars, TypeOK
      <4>. QED BY <4>1, <4>2 DEF TruthfulInv, TruthfulStatus
    <3>. QED
      BY <2>4, <3>1, <3>2, <3>3, <3>4 DEF WorkerStep
  <2>5. ASSUME NEW w \in Workers, LoseOutcomeEvent(w) \/ Crash(w)
        PROVE  TruthfulInv'
    BY <2>5, OutcomeEarnedStable DEF LoseOutcomeEvent, Crash, Ends, Goes,
         ForgetsLocals, DatabaseUntouched, clientVars, TypeOK, TruthfulInv,
         TruthfulStatus
  <2>6. CASE UNCHANGED vars
    BY <2>6 DEF vars, TruthfulInv, TruthfulStatus, OutcomeEarned
  <2>. QED
    BY <2>1, <2>2, <2>3, <2>4, <2>5, <2>6 DEF Next
<1>. QED
  BY <1>1, <1>2, TypeCorrect, PTL DEF Spec, TruthfulInv

-----------------------------------------------------------------------------
(***************************************************************************)
(* Exclusion.  The claim is an UPDATE that requires a status other than    *)
(* in-progress, so it suffices that the row stays in progress while a      *)
(* worker holds it.  Only a second row under the same identifier breaks    *)
(* this, hence the condition on nextId.                                    *)
(***************************************************************************)

\* Before the first row there is nothing to hold.
NothingBeforeFirstRow == nextId = 1 => ~Exists /\ \A w \in Workers : ~Holds(w)

\* A held row is in progress.
HeldInProgress ==
  nextId <= 2 => \A w \in Workers : Holds(w) /\ Exists => row.value = "in-progress"

ExclusiveInv == NothingBeforeFirstRow /\ HeldInProgress /\ ExclusiveDeployment

\* A step that leaves the row alone and gives no worker a hold it did not
\* have preserves the invariant.
LEMMA ExclusiveStable ==
  ASSUME ExclusiveInv, row' = row, nextId' = nextId,
         \A v \in Workers : Holds(v)' => Holds(v)
  PROVE  ExclusiveInv'
BY DEF ExclusiveInv, NothingBeforeFirstRow, HeldInProgress,
   ExclusiveDeployment, Exists

\* At most one worker at a time deploys a row, whatever crashes, duplicates,
\* lost events and admin edits happen, until the identifier is used again.
THEOREM Exclusive == Spec => []ExclusiveDeployment
<1>1. Init => ExclusiveInv
  BY DEF Init, ExclusiveInv, NothingBeforeFirstRow, HeldInProgress,
       ExclusiveDeployment, Exists, Holds, NoRow
<1>2. TypeOK /\ ExclusiveInv /\ [Next]_vars => ExclusiveInv'
  <2> SUFFICES ASSUME TypeOK, ExclusiveInv, [Next]_vars PROVE ExclusiveInv'
    OBVIOUS
  <2>1. ASSUME NEW d \in Definitions, CreateProcess(d) \/ AdminCreate(d)
        PROVE  ExclusiveInv'
    <3>1. /\ ~Exists /\ nextId' = nextId + 1 /\ pc' = pc
          /\ row' = NewRow(d)
      BY <2>1 DEF CreateProcess, AdminCreate, Inserts, WorkersUntouched
    <3>2. nextId' # 1 /\ (nextId' <= 2 => nextId = 1)
      BY <3>1 DEF TypeOK
    <3>. QED
      BY <3>1, <3>2 DEF ExclusiveInv, NothingBeforeFirstRow, HeldInProgress,
           ExclusiveDeployment, Exists, Holds
  <2>2. ASSUME NEW d \in Definitions, UpdateProcess(d) \/ AdminEdit(d)
        PROVE  ExclusiveInv'
    <3>1. Exists /\ row'.value = row.value /\ nextId' = nextId /\ pc' = pc
      BY <2>2 DEF UpdateProcess, AdminEdit, Updates, WorkersUntouched, TypeOK, Rows
    <3>. QED
      BY <3>1 DEF ExclusiveInv, NothingBeforeFirstRow, HeldInProgress,
           ExclusiveDeployment, Exists, Holds
  <2>3. CASE DeleteProcess \/ AdminDelete
    BY <2>3 DEF DeleteProcess, AdminDelete, Deletes, WorkersUntouched, NoRow,
         ExclusiveInv, NothingBeforeFirstRow, HeldInProgress,
         ExclusiveDeployment, Exists, Holds
  <2>4. CASE PublishProcessEvent \/ DuplicateEvent \/ LoseClientEvent
    BY <2>4, ExclusiveStable DEF PublishProcessEvent, DuplicateEvent,
         LoseClientEvent, DatabaseUntouched, clientVars, Holds
  <2>5. ASSUME NEW w \in Workers, WorkerStep(w)
        PROVE  ExclusiveInv'
    <3>1. CASE Claim(w)
      <4>1. CASE Ends(w, "claim") /\ UNCHANGED row
        BY <3>1, <4>1, ExclusiveStable DEF Claim, Ends, Goes, Holds, TypeOK
      <4>2. CASE /\ Matches(w, ClaimableValues)
                 /\ SetStatus("in-progress", snapshot[w])
                 /\ Goes(w, "claim", "reread_claimed")
        <5>1. Exists /\ row.value # "in-progress"
          BY <4>2 DEF Matches, ClaimableValues
        <5>2. row'.value = "in-progress" /\ row'.id = row.id /\ nextId' = nextId
          BY <3>1, <4>2 DEF Claim, SetStatus, TypeOK, Rows
        <5>3. nextId <= 2 => \A v \in Workers : ~Holds(v)
          BY <5>1 DEF ExclusiveInv, HeldInProgress
        <5>4. \A v \in Workers \ {w} : Holds(v)' <=> Holds(v)
          BY <4>2 DEF Goes, Holds, TypeOK
        <5>. QED
          BY <5>1, <5>2, <5>3, <5>4 DEF ExclusiveInv, NothingBeforeFirstRow,
               HeldInProgress, ExclusiveDeployment, Exists
      <4>. QED BY <3>1, <4>1, <4>2 DEF Claim
    <3>2. CASE RecordOutcome(w)
      <4>1. CASE UNCHANGED row
        BY <3>2, <4>1, ExclusiveStable DEF RecordOutcome, Ends, Goes, Holds, TypeOK
      <4>2. CASE /\ MayRecord(w)
                 /\ SetStatus(outcome[w], claimed[w].definition)
                 /\ Goes(w, "record", "reread_recorded")
        <5>1. Exists /\ Holds(w)
          BY <4>2 DEF MayRecord, Matches, Goes, Holds
        <5>2. ~Holds(w)' /\ \A v \in Workers \ {w} : Holds(v)' <=> Holds(v)
          BY <4>2 DEF Goes, Holds, TypeOK
        <5>3. nextId <= 2 => \A v \in Workers \ {w} : ~Holds(v)
          BY <5>1 DEF ExclusiveInv, ExclusiveDeployment
        <5>4. nextId' = nextId /\ nextId # 1
          BY <3>2, <5>1 DEF RecordOutcome, ExclusiveInv, NothingBeforeFirstRow
        <5>. QED
          BY <5>2, <5>3, <5>4 DEF ExclusiveInv, NothingBeforeFirstRow,
               HeldInProgress, ExclusiveDeployment
      <4>. QED BY <3>2, <4>1, <4>2 DEF RecordOutcome
    <3>3. CASE \/ ReceiveEvent(w) \/ ReconcileProcess(w) \/ TakeSnapshot(w)
               \/ FindToClaim(w) \/ RereadClaimed(w) \/ DeployProcess(w)
               \/ FindToRecord(w) \/ RereadRecorded(w) \/ PublishOutcome(w)
      <4>1. row' = row /\ nextId' = nextId
        BY <3>3 DEF ReceiveEvent, ReconcileProcess, TakeSnapshot, FindToClaim,
             Find, RereadClaimed, DeployProcess, FindToRecord, RereadRecorded,
             PublishOutcome, DatabaseUntouched, clientVars
      <4>2. \A v \in Workers : Holds(v)' => Holds(v)
        BY <3>3 DEF ReceiveEvent, ReconcileProcess, TakeSnapshot, FindToClaim,
             Find, RereadClaimed, DeployProcess, FindToRecord, RereadRecorded,
             PublishOutcome, Goes, Ends, Holds, TypeOK
      <4>. QED BY <4>1, <4>2, ExclusiveStable
    <3>. QED
      BY <2>5, <3>1, <3>2, <3>3 DEF WorkerStep
  <2>6. ASSUME NEW w \in Workers, LoseOutcomeEvent(w) \/ Crash(w)
        PROVE  ExclusiveInv'
    BY <2>6, ExclusiveStable DEF LoseOutcomeEvent, Crash, Ends, Goes,
         DatabaseUntouched, clientVars, TypeOK, Holds
  <2>7. CASE UNCHANGED vars
    BY <2>7, ExclusiveStable DEF vars, Holds
  <2>. QED
    BY <2>1, <2>2, <2>3, <2>4, <2>5, <2>6, <2>7 DEF Next
<1>. QED
  BY <1>1, <1>2, TypeCorrect, PTL DEF Spec, ExclusiveInv

-----------------------------------------------------------------------------
(***************************************************************************)
(* No lost wake-up, when nothing worse than a repeated event happens.      *)
(* WokenOrClaimed is inductive as it stands: every step that takes a       *)
(* wake-up away from a row that is not converged leaves another one.       *)
(***************************************************************************)

\* A step of one worker that leaves the row alone keeps the row covered when
\* the worker's own promise, to record or to look again, is kept.
LEMMA KeepsWoken ==
  ASSUME WokenOrClaimed, NEW w \in Workers, row' = row,
         \A v \in Workers \ {w} : /\ pc'[v] = pc[v]
                                  /\ target'[v] = target[v]
                                  /\ claimed'[v] = claimed[v],
         Exists /\ row.value = "in-progress" /\ WillRecord(w) => WillRecord(w)',
         Exists /\ ~Converged /\ row.value # "in-progress"
           /\ (unpublished > 0 \/ queue > 0 \/ WillReexamine(w))
           => unpublished' > 0 \/ queue' > 0 \/ WillReexamine(w)'
  PROVE  WokenOrClaimed'
<1>1. Exists' = Exists /\ Converged' = Converged
  BY DEF Exists, Converged
<1>2. \A v \in Workers \ {w} : /\ WillRecord(v)' <=> WillRecord(v)
                               /\ WillReexamine(v)' <=> WillReexamine(v)
  BY DEF WillRecord, WillReexamine
<1>. QED
  BY <1>1, <1>2 DEF WokenOrClaimed

\* No definition change is forgotten: while the process is not converged, an
\* event is under way, or a worker will look again or record an outcome.
THEOREM NoLostWakeup ==
  ASSUME Faults \subseteq {"duplicate"}
  PROVE  Spec => []WokenOrClaimed
<1>1. Init => WokenOrClaimed
  BY DEF Init, WokenOrClaimed, Exists, NoRow
<1>2. TypeOK /\ TypeOK' /\ WokenOrClaimed /\ [Next]_vars => WokenOrClaimed'
  <2> SUFFICES ASSUME TypeOK, TypeOK', WokenOrClaimed, [Next]_vars
               PROVE  WokenOrClaimed'
    OBVIOUS
  <2>1. ASSUME NEW d \in Definitions, CreateProcess(d) PROVE WokenOrClaimed'
    <3>1. row'.value # "in-progress"
      BY <2>1 DEF CreateProcess, Inserts, NewRow
    <3>2. unpublished' > 0
      BY <2>1 DEF CreateProcess, ThroughWrapper, WorkersUntouched, TypeOK
    <3>. QED BY <3>1, <3>2 DEF WokenOrClaimed
  <2>2. ASSUME NEW d \in Definitions, UpdateProcess(d) PROVE WokenOrClaimed'
    <3>1. /\ Exists
          /\ row'.value = row.value /\ row'.id = row.id /\ row'.hash = row.hash
          /\ UNCHANGED <<pc, target, claimed>>
          /\ unpublished' > 0
      BY <2>2 DEF UpdateProcess, Updates, ThroughWrapper, WorkersUntouched,
           localVars, TypeOK, Rows
    <3>2. CASE row.value = "in-progress"
      <4>1. \E v \in Workers : WillRecord(v)
        BY <3>1, <3>2 DEF WokenOrClaimed, Converged
      <4>2. \A v \in Workers : WillRecord(v)' <=> WillRecord(v)
        BY <3>1 DEF WillRecord
      <4>. QED BY <3>1, <3>2, <4>1, <4>2 DEF WokenOrClaimed
    <3>3. CASE row.value # "in-progress"
      BY <3>1, <3>3 DEF WokenOrClaimed
    <3>. QED BY <3>2, <3>3
  <2>3. CASE DeleteProcess
    BY <2>3 DEF DeleteProcess, Deletes, NoRow, WokenOrClaimed, Exists
  <2>4. CASE PublishProcessEvent \/ DuplicateEvent
    <3>1. UNCHANGED <<row, pc, target, claimed>>
      BY <2>4 DEF PublishProcessEvent, DuplicateEvent, DatabaseUntouched,
           clientVars, localVars
    <3>2. queue' > 0
      BY <2>4 DEF PublishProcessEvent, DuplicateEvent, TypeOK
    <3>3. \A v \in Workers : WillRecord(v)' <=> WillRecord(v)
      BY <3>1 DEF WillRecord
    <3>4. Exists' = Exists /\ Converged' = Converged
      BY <3>1 DEF Exists, Converged
    <3>5. CASE row.value = "in-progress"
      BY <3>1, <3>3, <3>4, <3>5 DEF WokenOrClaimed
    <3>6. CASE row.value # "in-progress"
      BY <3>1, <3>2, <3>6 DEF WokenOrClaimed
    <3>. QED BY <3>5, <3>6
  <2>5. ASSUME NEW w \in Workers, WorkerStep(w) PROVE WokenOrClaimed'
    <3>1. \A v \in Workers \ {w} : /\ pc'[v] = pc[v]
                                   /\ target'[v] = target[v]
                                   /\ claimed'[v] = claimed[v]
      BY <2>5 DEF WorkerStep, ReceiveEvent, ReconcileProcess, TakeSnapshot,
           FindToClaim, Claim, RereadClaimed, DeployProcess, FindToRecord, Find,
           RecordOutcome, RereadRecorded, PublishOutcome, Goes, Ends,
           ForgetsLocals, localVars, TypeOK
    <3>2. CASE ReceiveEvent(w)
      BY <3>1, <3>2, KeepsWoken DEF ReceiveEvent, Goes, DatabaseUntouched,
           clientVars, WillRecord, WillReexamine, TypeOK
    <3>3. CASE ReconcileProcess(w)
      BY <3>1, <3>3, KeepsWoken DEF ReconcileProcess, Goes, Ends,
           DatabaseUntouched, clientVars, WillRecord, WillReexamine, TypeOK
    <3>4. CASE TakeSnapshot(w)
      BY <3>1, <3>4, KeepsWoken DEF TakeSnapshot, Goes, Ends,
           DatabaseUntouched, clientVars, WillRecord, WillReexamine, TypeOK
    <3>5. CASE FindToClaim(w)
      BY <3>1, <3>5, KeepsWoken DEF FindToClaim, Find, Goes, Ends,
           DatabaseUntouched, clientVars, WillRecord, WillReexamine, TypeOK
    <3>6. CASE Claim(w)
      <4>1. CASE /\ ~Matches(w, ClaimableValues)
                 /\ Ends(w, "claim")
                 /\ UNCHANGED row
        <5>1. Exists /\ target[w] = row.id => row.value = "in-progress"
          BY <4>1 DEF Matches, ClaimableValues, TypeOK, Rows, StatusValues
        <5>. QED
          BY <3>1, <3>6, <4>1, <5>1, KeepsWoken DEF Claim, Goes, Ends,
               WillRecord, WillReexamine, TypeOK
      <4>2. CASE /\ Matches(w, ClaimableValues)
                 /\ SetStatus("in-progress", snapshot[w])
                 /\ Goes(w, "claim", "reread_claimed")
                 /\ UNCHANGED localVars
        <5>1. row'.value = "in-progress" /\ WillRecord(w)'
          BY <4>2 DEF Matches, SetStatus, Goes, localVars, WillRecord, TypeOK, Rows
        <5>. QED BY <5>1 DEF WokenOrClaimed
      <4>. QED BY <3>6, <4>1, <4>2 DEF Claim
    <3>7. CASE RereadClaimed(w)
      BY <3>1, <3>7, KeepsWoken DEF RereadClaimed, Goes, Ends,
           DatabaseUntouched, clientVars, WillRecord, WillReexamine, TypeOK
    <3>8. CASE DeployProcess(w)
      BY <3>1, <3>8, KeepsWoken DEF DeployProcess, Goes, DatabaseUntouched,
           clientVars, WillRecord, WillReexamine, TypeOK
    <3>9. CASE FindToRecord(w)
      BY <3>1, <3>9, KeepsWoken DEF FindToRecord, Find, Goes, Ends,
           DatabaseUntouched, clientVars, WillRecord, WillReexamine, TypeOK
    <3>10. CASE RecordOutcome(w)
      <4>1. CASE ~MayRecord(w) /\ Ends(w, "record") /\ UNCHANGED row
        <5>1. ~(Exists /\ row.value = "in-progress" /\ WillRecord(w))
          BY <4>1 DEF MayRecord, Matches, Ends, Goes, WillRecord
        <5>. QED
          BY <3>1, <3>10, <4>1, <5>1, KeepsWoken DEF RecordOutcome, Goes, Ends,
               WillReexamine, TypeOK
      <4>2. CASE /\ MayRecord(w)
                 /\ SetStatus(outcome[w], claimed[w].definition)
                 /\ Goes(w, "record", "reread_recorded")
                 /\ UNCHANGED localVars
        <5>1. row'.value # "in-progress" /\ WillReexamine(w)'
          BY <4>2 DEF MayRecord, Matches, SetStatus, Goes, localVars,
               WillReexamine, TypeOK, Rows, Outcomes
        <5>. QED BY <5>1 DEF WokenOrClaimed
      <4>. QED BY <3>10, <4>1, <4>2 DEF RecordOutcome
    <3>11. CASE RereadRecorded(w)
      BY <3>1, <3>11, KeepsWoken DEF RereadRecorded, Goes, Ends,
           DatabaseUntouched, clientVars, localVars, WillRecord,
           WillReexamine, TypeOK
    <3>12. CASE PublishOutcome(w)
      BY <3>1, <3>12, KeepsWoken DEF PublishOutcome, Goes, Ends,
           DatabaseUntouched, clientVars, WillRecord, WillReexamine, TypeOK
    <3>. QED
      BY <2>5, <3>2, <3>3, <3>4, <3>5, <3>6, <3>7, <3>8, <3>9, <3>10, <3>11,
         <3>12 DEF WorkerStep
  <2>6. ASSUME NEW d \in Definitions,
               AdminCreate(d) \/ AdminEdit(d) \/ AdminDelete
        PROVE  FALSE
    BY <2>6 DEF AdminCreate, AdminEdit, AdminDelete, ThroughAdmin, Fault
  <2>7. ASSUME NEW w \in Workers,
               LoseClientEvent \/ LoseOutcomeEvent(w) \/ Crash(w)
        PROVE  FALSE
    BY <2>7 DEF LoseClientEvent, LoseOutcomeEvent, Crash, Fault
  <2>8. CASE AdminDelete \/ LoseClientEvent
    BY <2>8 DEF AdminDelete, LoseClientEvent, ThroughAdmin, Fault
  <2>9. CASE UNCHANGED vars
    BY <2>9 DEF vars, WokenOrClaimed, Exists, Converged, WillRecord, WillReexamine
  <2>. QED
    BY <2>1, <2>2, <2>3, <2>4, <2>5, <2>6, <2>7, <2>8, <2>9 DEF Next
<1>. QED
  BY <1>1, <1>2, TypeCorrect, PTL DEF Spec

\* Hence nothing is left undone: when all events are handled and the workers
\* are idle, the process is converged.
THEOREM QuietMeansConverged ==
  ASSUME Faults \subseteq {"duplicate"}
  PROVE  Spec => []ConvergedWhenQuiet
<1>1. WokenOrClaimed => ConvergedWhenQuiet
  BY DEF WokenOrClaimed, ConvergedWhenQuiet, Quiet, WillRecord, WillReexamine
<1>. QED
  BY <1>1, NoLostWakeup, PTL

-----------------------------------------------------------------------------
(***************************************************************************)
(* The implementation of DeploymentReconciler.  What a worker writes to    *)
(* the row is a definition it has read from one, however long ago: its     *)
(* snapshot when it claims, the row re-read after the claim when it        *)
(* records.                                                                *)
(***************************************************************************)

DefinesWhenPresent(r) == r = NoRow \/ (r.id # 0 /\ r.definition \in Definitions)

CarriesDefinition(w) ==
  /\ pc[w] \in {"find_to_claim", "claim"} => snapshot[w] \in Definitions
  /\ pc[w] \in {"deploying", "find_to_record", "record"} =>
       claimed[w].definition \in Definitions

MappedInv == DefinesWhenPresent(row) /\ \A w \in Workers : CarriesDefinition(w)

\* A row that is there has a definition.
LEMMA PresentDefines ==
  ASSUME DefinesWhenPresent(row), Exists
  PROVE  row.definition \in Definitions
BY DEF DefinesWhenPresent, Exists, NoRow

\* A step of one worker that takes it to another place of its handler.
LEMMA OneWorkerCarries ==
  ASSUME TypeOK, MappedInv, NEW w \in Workers,
         \A v \in Workers \ {w} :
           pc'[v] = pc[v] /\ snapshot'[v] = snapshot[v] /\ claimed'[v] = claimed[v],
         CarriesDefinition(w)'
  PROVE  \A v \in Workers : CarriesDefinition(v)'
BY DEF MappedInv, CarriesDefinition

\* A handler that has ended carries nothing.
LEMMA EndsCarries ==
  ASSUME TypeOK, MappedInv, NEW w \in Workers, NEW from, Ends(w, from)
  PROVE  \A v \in Workers : CarriesDefinition(v)'
<1>1. pc'[w] = "idle"
  BY DEF TypeOK, Ends, Goes
<1>2. \A v \in Workers \ {w} :
        pc'[v] = pc[v] /\ snapshot'[v] = snapshot[v] /\ claimed'[v] = claimed[v]
  BY DEF TypeOK, Ends, Goes, ForgetsLocals
<1>. QED BY <1>1, <1>2, OneWorkerCarries DEF CarriesDefinition

\* The fields of the row that the reconciler sees, after a conditional update.
LEMMA StatusWritten ==
  ASSUME TypeOK, NEW value, NEW hash, SetStatus(value, hash)
  PROVE  /\ row'.id = row.id /\ row'.definition = row.definition
         /\ row'.value = value /\ row'.hash = hash
BY DEF TypeOK, Rows, SetStatus

LEMMA StepMapped ==
  ASSUME TypeOK, MappedInv, [Next]_vars
  PROVE  MappedInv' /\ [Reconciler!Next]_(Reconciler!vars)
<1> DEFINE Carried == \A v \in Workers : CarriesDefinition(v)'
           Done == MappedInv' /\ [Reconciler!Next]_(Reconciler!vars)
<1>1. ASSUME UNCHANGED row, Carried PROVE Done
  BY <1>1 DEF MappedInv, DefinesWhenPresent, Reconciler!vars
<1>2. ASSUME UNCHANGED <<pc, snapshot, claimed>> PROVE Carried
  BY <1>2 DEF MappedInv, CarriesDefinition
<1>3. ASSUME NEW d \in Definitions, Inserts(d) \/ Updates(d), WorkersUntouched
      PROVE  Done
  <2>1. Carried
    BY <1>2, <1>3 DEF WorkersUntouched, localVars
  <2>2. /\ row'.definition = d /\ row'.id # 0
        /\ row'.value = row.value /\ row'.hash = row.hash
    <3>1. CASE Inserts(d)
      <4>1. row = NoRow
        BY <3>1 DEF Inserts, Exists, MappedInv, DefinesWhenPresent, TypeOK, Rows
      <4>. QED BY <3>1, <4>1 DEF Inserts, NewRow, NoRow, TypeOK
    <3>2. CASE Updates(d)
      BY <3>2 DEF Updates, Exists, TypeOK, Rows
    <3>. QED BY <1>3, <3>1, <3>2
  <2>3. Reconciler!Write
    BY <2>2 DEF Reconciler!Write
  <2>. QED BY <2>1, <2>2, <2>3 DEF MappedInv, DefinesWhenPresent, Reconciler!Next
<1>4. ASSUME Deletes, WorkersUntouched PROVE Done
  <2>1. Carried
    BY <1>2, <1>4 DEF WorkersUntouched, localVars
  <2>2. row' = NoRow /\ Reconciler!Remove
    BY <1>4 DEF Deletes, NoRow, Reconciler!Remove
  <2>. QED BY <2>1, <2>2 DEF MappedInv, DefinesWhenPresent, Reconciler!Next
<1>5. ASSUME NEW w \in Workers, WorkerStep(w) PROVE Done
  <2> DEFINE Others == \A v \in Workers \ {w} :
               pc'[v] = pc[v] /\ snapshot'[v] = snapshot[v] /\ claimed'[v] = claimed[v]
  <2>1. ASSUME NEW from, Ends(w, from), UNCHANGED row PROVE Done
    BY <1>1, <2>1, EndsCarries
  <2>2. CASE ReceiveEvent(w)
    <3>1. Others /\ pc'[w] = "reconcile"
      BY <2>2 DEF ReceiveEvent, Goes, localVars, TypeOK
    <3>. QED
      BY <1>1, <2>2, <3>1, OneWorkerCarries
         DEF ReceiveEvent, DatabaseUntouched, clientVars, CarriesDefinition
  <2>3. CASE ReconcileProcess(w)
    <3>1. UNCHANGED row
      BY <2>3 DEF ReconcileProcess, DatabaseUntouched, clientVars
    <3>2. CASE Goes(w, "reconcile", "snapshot") /\ UNCHANGED localVars
      <4>1. Others /\ pc'[w] = "snapshot"
        BY <3>2 DEF Goes, localVars, TypeOK
      <4>. QED BY <1>1, <3>1, <4>1, OneWorkerCarries DEF CarriesDefinition
    <3>. QED BY <2>1, <2>3, <3>1, <3>2 DEF ReconcileProcess
  <2>4. CASE TakeSnapshot(w)
    <3>1. UNCHANGED row
      BY <2>4 DEF TakeSnapshot, DatabaseUntouched, clientVars
    <3>2. CASE /\ Exists /\ Goes(w, "snapshot", "find_to_claim")
               /\ snapshot' = [snapshot EXCEPT ![w] = row.definition]
               /\ UNCHANGED <<target, claimed, outcome>>
      <4>1. Others /\ pc'[w] = "find_to_claim" /\ snapshot'[w] = row.definition
        BY <3>2 DEF Goes, TypeOK
      <4>2. row.definition \in Definitions
        BY <3>2, PresentDefines DEF MappedInv
      <4>. QED BY <1>1, <3>1, <4>1, <4>2, OneWorkerCarries DEF CarriesDefinition
    <3>. QED BY <2>1, <2>4, <3>1, <3>2 DEF TakeSnapshot
  <2>5. ASSUME NEW from \in {"find_to_claim", "find_to_record"}, NEW to,
               to = IF from = "find_to_claim" THEN "claim" ELSE "record",
               Find(w, from, to)
        PROVE  Done
    <3>1. UNCHANGED row
      BY <2>5 DEF Find, DatabaseUntouched, clientVars
    <3>2. CASE Goes(w, from, to) /\ UNCHANGED <<snapshot, claimed, outcome>>
      <4>1. Others /\ pc[w] = from /\ pc'[w] = to
            /\ snapshot'[w] = snapshot[w] /\ claimed'[w] = claimed[w]
        BY <3>2 DEF Goes, TypeOK
      <4>2. CarriesDefinition(w)'
        BY <2>5, <4>1 DEF MappedInv, CarriesDefinition
      <4>. QED BY <1>1, <3>1, <4>1, <4>2, OneWorkerCarries
    <3>. QED BY <2>1, <2>5, <3>1, <3>2 DEF Find
  <2>6. CASE Claim(w)
    <3>1. CASE /\ Matches(w, ClaimableValues) /\ SetStatus("in-progress", snapshot[w])
               /\ Goes(w, "claim", "reread_claimed") /\ UNCHANGED localVars
      <4>1. Others /\ pc[w] = "claim" /\ pc'[w] = "reread_claimed"
        BY <3>1 DEF Goes, localVars, TypeOK
      <4>2. /\ Exists /\ row.definition \in Definitions /\ row.value # "in-progress"
            /\ snapshot[w] \in Definitions
        BY <3>1, <4>1, PresentDefines DEF Matches, ClaimableValues, MappedInv,
           CarriesDefinition
      <4>3. Reconciler!Begin /\ DefinesWhenPresent(row)'
        BY <3>1, <4>2, StatusWritten, DefinitionsAssumption
           DEF Reconciler!Begin, Reconciler!Present, DefinesWhenPresent, Exists
      <4>. QED
        BY <4>1, <4>3, OneWorkerCarries
           DEF MappedInv, CarriesDefinition, Reconciler!Next
    <3>. QED BY <2>1, <2>6, <3>1 DEF Claim
  <2>7. CASE RereadClaimed(w)
    <3>1. UNCHANGED row
      BY <2>7 DEF RereadClaimed, DatabaseUntouched, clientVars
    <3>2. CASE /\ Exists /\ Goes(w, "reread_claimed", "deploying")
               /\ claimed' = [claimed EXCEPT ![w] = row]
               /\ UNCHANGED <<snapshot, target, outcome>>
      <4>1. Others /\ pc'[w] = "deploying" /\ claimed'[w] = row
        BY <3>2 DEF Goes, TypeOK
      <4>2. row.definition \in Definitions
        BY <3>2, PresentDefines DEF MappedInv
      <4>. QED BY <1>1, <3>1, <4>1, <4>2, OneWorkerCarries DEF CarriesDefinition
    <3>. QED BY <2>1, <2>7, <3>1, <3>2 DEF RereadClaimed
  <2>8. CASE DeployProcess(w)
    <3>1. Others /\ pc[w] = "deploying" /\ pc'[w] = "find_to_record"
          /\ claimed'[w] = claimed[w]
      BY <2>8 DEF DeployProcess, Goes, TypeOK
    <3>2. CarriesDefinition(w)'
      BY <3>1 DEF MappedInv, CarriesDefinition
    <3>. QED
      BY <1>1, <2>8, <3>1, <3>2, OneWorkerCarries
         DEF DeployProcess, DatabaseUntouched, clientVars
  <2>9. CASE RecordOutcome(w)
    <3>1. CASE /\ MayRecord(w) /\ SetStatus(outcome[w], claimed[w].definition)
               /\ Goes(w, "record", "reread_recorded") /\ UNCHANGED localVars
      <4>1. Others /\ pc[w] = "record" /\ pc'[w] = "reread_recorded"
        BY <3>1 DEF Goes, localVars, TypeOK
      <4>2. /\ Exists /\ row.definition \in Definitions /\ row.value = "in-progress"
            /\ claimed[w].definition \in Definitions /\ outcome[w] \in Outcomes
        BY <3>1, <4>1, PresentDefines DEF MayRecord, Matches, MappedInv,
           CarriesDefinition, TypeOK
      <4>3. Reconciler!Finish /\ DefinesWhenPresent(row)'
        BY <3>1, <4>2, StatusWritten
           DEF Reconciler!Finish, DefinesWhenPresent, Outcomes, Exists
      <4>. QED
        BY <4>1, <4>3, OneWorkerCarries
           DEF MappedInv, CarriesDefinition, Reconciler!Next
    <3>. QED BY <2>1, <2>9, <3>1 DEF RecordOutcome
  <2>10. CASE RereadRecorded(w)
    <3>1. UNCHANGED row
      BY <2>10 DEF RereadRecorded, DatabaseUntouched, clientVars
    <3>2. CASE Goes(w, "reread_recorded", "publish") /\ UNCHANGED localVars
      <4>1. Others /\ pc'[w] = "publish"
        BY <3>2 DEF Goes, localVars, TypeOK
      <4>. QED BY <1>1, <3>1, <4>1, OneWorkerCarries DEF CarriesDefinition
    <3>. QED BY <2>1, <2>10, <3>1, <3>2 DEF RereadRecorded
  <2>11. CASE PublishOutcome(w)
    BY <2>1, <2>11 DEF PublishOutcome, DatabaseUntouched, clientVars
  <2>. QED
    BY <1>5, <2>2, <2>3, <2>4, <2>5, <2>6, <2>7, <2>8, <2>9, <2>10, <2>11
       DEF WorkerStep, FindToClaim, FindToRecord
<1>6. CASE PublishProcessEvent \/ DuplicateEvent \/ LoseClientEvent \/ UNCHANGED vars
  BY <1>1, <1>2, <1>6 DEF PublishProcessEvent, DuplicateEvent, LoseClientEvent,
     DatabaseUntouched, clientVars, localVars, vars
<1>7. ASSUME NEW w \in Workers, LoseOutcomeEvent(w) \/ Crash(w) PROVE Done
  <2>1. UNCHANGED row /\ pc'[w] = "idle"
    BY <1>7 DEF LoseOutcomeEvent, Crash, Ends, Goes, DatabaseUntouched, clientVars, TypeOK
  <2>2. \A v \in Workers \ {w} :
          pc'[v] = pc[v] /\ snapshot'[v] = snapshot[v] /\ claimed'[v] = claimed[v]
    BY <1>7 DEF LoseOutcomeEvent, Crash, Ends, Goes, ForgetsLocals, TypeOK
  <2>. QED BY <1>1, <2>1, <2>2, OneWorkerCarries DEF CarriesDefinition
<1>. QED
  BY <1>3, <1>4, <1>5, <1>6, <1>7
     DEF Next, CreateProcess, UpdateProcess, DeleteProcess, AdminCreate, AdminEdit,
         AdminDelete

\* Whatever is lost, repeated, restarted or edited in the admin pages, the row of
\* a process changes as the reconciler changes it: deployments begin when none is
\* in progress (Claim), end in an outcome for a definition (RecordOutcome), and
\* nothing else touches the status.  That it does so in the end is for the runs.
THEOREM ReconcilerSafety == Spec => Reconciler!Safety
<1>1. Init => MappedInv /\ Reconciler!Init
  BY DEF Init, NoRow, MappedInv, DefinesWhenPresent, CarriesDefinition, Reconciler!Init
<1>2. TypeOK /\ MappedInv /\ [Next]_vars => MappedInv' /\ [Reconciler!Next]_(Reconciler!vars)
  BY StepMapped
<1>. QED
  BY <1>1, <1>2, TypeCorrect, PTL DEF Spec, Reconciler!Safety

=============================================================================
