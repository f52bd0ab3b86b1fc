------------------------- MODULE ProcessDeployment -------------------------
(***************************************************************************)
(* Deployment of one process by potto's event driven background workers.   *)
(*                                                                         *)
(* Clients write the process row (create, update, delete); the Potto       *)
(* wrapper commits first and publishes an internal event afterwards.       *)
(* Workers of the "process-lifecycle" shared subscription receive the      *)
(* events and reconcile: they claim the row by a conditional UPDATE, ask   *)
(* the job manager to deploy, and record the outcome by another            *)
(* conditional UPDATE.  Every database access is a transaction of its own, *)
(* hence an action of its own here; between two of them anything may       *)
(* happen.                                                                 *)
(*                                                                         *)
(* The module follows one resource identifier.  Processes with different   *)
(* identifiers share no state; a worker that is busy with another process  *)
(* is, seen from here, a worker that does not move.                        *)
(***************************************************************************)
EXTENDS Naturals

CONSTANTS
  Workers,       \* handler slots of the "process-lifecycle" consumer group
  Definitions,   \* values of the part of a process that get_deployment_hash
                 \* covers; the SHA-256 digest is taken to be injective
  NoDefinition,  \* the missing definition, and the missing hash
  Faults,        \* the kinds of fault that may happen, among FaultKinds
  MaxWrites,     \* bound on the writes made through the Potto wrapper
  MaxFaults      \* bound on the number of faults

FaultKinds == {"duplicate", "loss", "crash", "admin"}

ASSUME DefinitionsAssumption == NoDefinition \notin Definitions
ASSUME BoundsAssumption ==
  /\ MaxWrites \in Nat
  /\ MaxFaults \in Nat
  /\ Faults \subseteq FaultKinds

VARIABLES
  row,          \* the row of the identifier; NoRow when there is none
  nextId,       \* next value of the primary key sequence
  unpublished,  \* committed writes whose event is still to be published
  queue,        \* events of the identifier the consumer group has to handle
  pc,           \* where each worker is in the handler
  snapshot,     \* definition of `process`, as read by deploy_process
  target,       \* `db_process.id`, the row found by the identifier
  claimed,      \* `claimed`, the row re-read after the claim was committed
  outcome,      \* `outcome` of the deployment
  succeeded,    \* history: definitions whose deployment ever succeeded
  writes,       \* number of wrapper writes so far
  faults        \* number of faults so far

clientVars == <<row, nextId, unpublished, writes>>
localVars  == <<snapshot, target, claimed, outcome>>
vars == <<row, nextId, unpublished, queue, pc, snapshot, target, claimed,
          outcome, succeeded, writes, faults>>

StatusValues == {"queued", "in-progress", "deployed", "failed"}

Locations == {"idle", "reconcile", "snapshot", "find_to_claim", "claim",
              "reread_claimed", "deploying", "find_to_record", "record",
              "reread_recorded", "publish"}

\* The outcomes a job manager reports; an exception counts as "failed".
Outcomes == {"deployed", "failed"}

Hashes == Definitions \cup {NoDefinition}

Rows == [id: Nat, definition: Hashes, value: StatusValues, hash: Hashes]

NoRow == [id |-> 0, definition |-> NoDefinition,
          value |-> "failed", hash |-> NoDefinition]

Exists == row.id # 0

\* Process.to_potto: a process without a recorded status counts as failed.
NewRow(d) == [id |-> nextId, definition |-> d,
              value |-> "failed", hash |-> NoDefinition]

Init ==
  /\ row = NoRow
  /\ nextId = 1
  /\ unpublished = 0
  /\ queue = 0
  /\ pc = [w \in Workers |-> "idle"]
  /\ snapshot = [w \in Workers |-> NoDefinition]
  /\ target = [w \in Workers |-> 0]
  /\ claimed = [w \in Workers |-> NoRow]
  /\ outcome = [w \in Workers |-> "failed"]
  /\ succeeded = {}
  /\ writes = 0
  /\ faults = 0

-----------------------------------------------------------------------------
(***************************************************************************)
(* Clients.                                                                *)
(***************************************************************************)

\* A fault of the given kind, counted against its bound.
Fault(kind) ==
  /\ kind \in Faults
  /\ faults < MaxFaults
  /\ faults' = faults + 1

\* A write through the wrapper owes an event; it is published later.
ThroughWrapper ==
  /\ writes < MaxWrites
  /\ writes' = writes + 1
  /\ unpublished' = unpublished + 1
  /\ UNCHANGED faults

\* The admin views call the process manager directly: nothing is published.
ThroughAdmin ==
  /\ Fault("admin")
  /\ UNCHANGED <<writes, unpublished>>

Inserts(d) ==
  /\ ~Exists
  /\ row' = NewRow(d)
  /\ nextId' = nextId + 1

\* MUTANT: an update that also resets the deployment status.
UpdatesResettingStatus(d) ==
  /\ Exists
  /\ row' = [row EXCEPT !.definition = d, !.value = "failed", !.hash = NoDefinition]
  /\ UNCHANGED nextId

\* An update leaves the deployment status alone.
Updates(d) ==
  /\ Exists
  /\ row' = [row EXCEPT !.definition = d]
  /\ UNCHANGED nextId

Deletes ==
  /\ Exists
  /\ row' = NoRow
  /\ UNCHANGED nextId

WorkersUntouched == UNCHANGED <<queue, pc, localVars, succeeded>>

CreateProcess(d) == Inserts(d) /\ ThroughWrapper /\ WorkersUntouched
UpdateProcess(d) == Updates(d) /\ ThroughWrapper /\ WorkersUntouched
DeleteProcess    == Deletes    /\ ThroughWrapper /\ WorkersUntouched

AdminCreate(d) == Inserts(d) /\ ThroughAdmin /\ WorkersUntouched
AdminEdit(d)   == Updates(d) /\ ThroughAdmin /\ WorkersUntouched
AdminDelete    == Deletes    /\ ThroughAdmin /\ WorkersUntouched

\* MUTANT: the wrapper also publishes when it wrote nothing.
PublishWithoutWrite ==
  /\ unpublished' = unpublished - 1
  /\ queue' = queue + 1
  /\ UNCHANGED <<row, nextId, pc, localVars, succeeded, writes, faults>>

PublishProcessEvent ==
  /\ unpublished > 0
  /\ unpublished' = unpublished - 1
  /\ queue' = queue + 1
  /\ UNCHANGED <<row, nextId, pc, localVars, succeeded, writes, faults>>

-----------------------------------------------------------------------------
(***************************************************************************)
(* Workers.                                                                *)
(***************************************************************************)

DatabaseUntouched == UNCHANGED clientVars

Goes(w, from, to) ==
  /\ pc[w] = from
  /\ pc' = [pc EXCEPT ![w] = to]

\* The local variables of the handler go out of scope.
ForgetsLocals(w) ==
  /\ snapshot' = [snapshot EXCEPT ![w] = NoDefinition]
  /\ target' = [target EXCEPT ![w] = 0]
  /\ claimed' = [claimed EXCEPT ![w] = NoRow]
  /\ outcome' = [outcome EXCEPT ![w] = "failed"]

\* The handler ends, normally or by an exception; its event is consumed.
Ends(w, from) ==
  /\ Goes(w, from, "idle")
  /\ ForgetsLocals(w)

ReceiveEvent(w) ==
  /\ Goes(w, "idle", "reconcile")
  /\ queue > 0
  /\ queue' = queue - 1
  /\ DatabaseUntouched
  /\ UNCHANGED <<localVars, succeeded, faults>>

\* The process was deployed, or failed to, with its current definition.
Converged ==
  /\ row.hash = row.definition
  /\ row.value \in {"deployed", "failed"}

\* A missing process ends in undeploy_process, which is not implemented and
\* raises; a converged one needs nothing; any other is to be deployed.
ReconcileProcess(w) ==
  /\ \/ /\ Exists /\ ~Converged
        /\ Goes(w, "reconcile", "snapshot")
        /\ UNCHANGED localVars
     \/ (~Exists \/ Converged) /\ Ends(w, "reconcile")
  /\ DatabaseUntouched
  /\ UNCHANGED <<queue, succeeded, faults>>

\* deploy_process reads the process again.
TakeSnapshot(w) ==
  /\ \/ /\ Exists
        /\ Goes(w, "snapshot", "find_to_claim")
        /\ snapshot' = [snapshot EXCEPT ![w] = row.definition]
        /\ UNCHANGED <<target, claimed, outcome>>
     \/ ~Exists /\ Ends(w, "snapshot")
  /\ DatabaseUntouched
  /\ UNCHANGED <<queue, succeeded, faults>>

\* set_process_deployment_status first looks the row up by its identifier.
Find(w, from, to) ==
  /\ \/ /\ Exists
        /\ Goes(w, from, to)
        /\ target' = [target EXCEPT ![w] = row.id]
        /\ UNCHANGED <<snapshot, claimed, outcome>>
     \/ ~Exists /\ Ends(w, from)
  /\ DatabaseUntouched
  /\ UNCHANGED <<queue, succeeded, faults>>

FindToClaim(w)  == Find(w, "find_to_claim", "claim")
FindToRecord(w) == Find(w, "find_to_record", "record")

\* The conditional UPDATE ... WHERE id = target AND value IN fromValues.
Matches(w, fromValues) ==
  /\ Exists
  /\ row.id = target[w]
  /\ row.value \in fromValues

SetStatus(value, hash) ==
  row' = [row EXCEPT !.value = value, !.hash = hash]

\* MUTANT: a claim that does not exclude a process in progress.
AnyStatusValues == StatusValues

ClaimableValues == {"queued", "deployed", "failed"}

\* The hash written is that of the snapshot, not of the row.
Claim(w) ==
  /\ \/ /\ Matches(w, ClaimableValues)
        /\ SetStatus("in-progress", snapshot[w])
        /\ Goes(w, "claim", "reread_claimed")
        /\ UNCHANGED localVars
     \/ ~Matches(w, ClaimableValues) /\ Ends(w, "claim") /\ UNCHANGED row
  /\ UNCHANGED <<nextId, unpublished, writes, queue, succeeded, faults>>

\* The command re-reads the row, by its id, in a transaction of its own.
RereadClaimed(w) ==
  /\ \/ /\ Exists /\ row.id = target[w]
        /\ Goes(w, "reread_claimed", "deploying")
        /\ claimed' = [claimed EXCEPT ![w] = row]
        /\ UNCHANGED <<snapshot, target, outcome>>
     \/ ~(Exists /\ row.id = target[w]) /\ Ends(w, "reread_claimed")
  /\ DatabaseUntouched
  /\ UNCHANGED <<queue, succeeded, faults>>

\* MUTANT: no catch-all; an exception of the manager ends the handler.
DeployWithoutCatchAll(w) ==
  /\ \/ /\ Goes(w, "deploying", "find_to_record")
        /\ outcome' = [outcome EXCEPT ![w] = "deployed"]
        /\ succeeded' = succeeded \cup {claimed[w].definition}
        /\ UNCHANGED <<snapshot, target, claimed>>
     \/ Ends(w, "deploying") /\ UNCHANGED succeeded
  /\ DatabaseUntouched
  /\ UNCHANGED <<queue, faults>>

\* The job manager deploys the re-read process: it succeeds or fails.
DeployProcess(w) ==
  /\ Goes(w, "deploying", "find_to_record")
  /\ \E o \in Outcomes :
       /\ outcome' = [outcome EXCEPT ![w] = o]
       /\ succeeded' = IF o = "deployed"
                         THEN succeeded \cup {claimed[w].definition}
                         ELSE succeeded
  /\ DatabaseUntouched
  /\ UNCHANGED <<snapshot, target, claimed, queue, faults>>

\* The conditional UPDATE that records the outcome: the row must still be in
\* progress, with the hash that the claim had.
MayRecord(w) ==
  /\ Matches(w, {"in-progress"})
  /\ row.hash = claimed[w].hash

\* MUTANT: the outcome is recorded for the definition the row has now.
RecordForCurrentDefinition(w) ==
  /\ \/ /\ MayRecord(w)
        /\ SetStatus(outcome[w], row.definition)
        /\ Goes(w, "record", "reread_recorded")
        /\ UNCHANGED localVars
     \/ ~MayRecord(w) /\ Ends(w, "record") /\ UNCHANGED row
  /\ UNCHANGED <<nextId, unpublished, writes, queue, succeeded, faults>>

RecordOutcome(w) ==
  /\ \/ /\ MayRecord(w)
        /\ SetStatus(outcome[w], claimed[w].definition)
        /\ Goes(w, "record", "reread_recorded")
        /\ UNCHANGED localVars
     \/ ~MayRecord(w) /\ Ends(w, "record") /\ UNCHANGED row
  /\ UNCHANGED <<nextId, unpublished, writes, queue, succeeded, faults>>

RereadRecorded(w) ==
  /\ \/ /\ Exists /\ row.id = target[w]
        /\ Goes(w, "reread_recorded", "publish")
        /\ UNCHANGED localVars
     \/ ~(Exists /\ row.id = target[w]) /\ Ends(w, "reread_recorded")
  /\ DatabaseUntouched
  /\ UNCHANGED <<queue, succeeded, faults>>

\* MUTANT: the outcome is published to the public broker only.
PublishOutcomeToPublicOnly(w) ==
  /\ Ends(w, "publish")
  /\ DatabaseUntouched
  /\ UNCHANGED <<queue, succeeded, faults>>

\* The deployed or deployment_failed event, which triggers reconciling again.
PublishOutcome(w) ==
  /\ Ends(w, "publish")
  /\ queue' = queue + 1
  /\ DatabaseUntouched
  /\ UNCHANGED <<succeeded, faults>>

WorkerStep(w) ==
  \/ ReceiveEvent(w)
  \/ ReconcileProcess(w)
  \/ TakeSnapshot(w)
  \/ FindToClaim(w)
  \/ Claim(w)
  \/ RereadClaimed(w)
  \/ DeployProcess(w)
  \/ FindToRecord(w)
  \/ RecordOutcome(w)
  \/ RereadRecorded(w)
  \/ PublishOutcome(w)

-----------------------------------------------------------------------------
(***************************************************************************)
(* Faults.                                                                 *)
(***************************************************************************)

\* QoS 1: the broker may deliver an event more than once.
DuplicateEvent ==
  /\ queue > 0
  /\ Fault("duplicate")
  /\ queue' = queue + 1
  /\ DatabaseUntouched
  /\ UNCHANGED <<pc, localVars, succeeded>>

\* The exception of a failed publish is logged and swallowed; an api process
\* that dies between commit and publish has the same effect.
LoseClientEvent ==
  /\ unpublished > 0
  /\ Fault("loss")
  /\ unpublished' = unpublished - 1
  /\ UNCHANGED <<row, nextId, writes, queue, pc, localVars, succeeded>>

LoseOutcomeEvent(w) ==
  /\ Ends(w, "publish")
  /\ Fault("loss")
  /\ DatabaseUntouched
  /\ UNCHANGED <<queue, succeeded>>

\* A worker dies and is restarted.  The session is persistent, so an event
\* that was not acknowledged yet is delivered again.
Crash(w) ==
  /\ pc[w] # "idle"
  /\ pc' = [pc EXCEPT ![w] = "idle"]
  /\ Fault("crash")
  /\ queue' \in {queue, queue + 1}
  /\ ForgetsLocals(w)
  /\ DatabaseUntouched
  /\ UNCHANGED succeeded

-----------------------------------------------------------------------------
Next ==
  \/ \E d \in Definitions : CreateProcess(d)
  \/ \E d \in Definitions : UpdateProcess(d)
  \/ DeleteProcess
  \/ \E d \in Definitions : AdminCreate(d)
  \/ \E d \in Definitions : AdminEdit(d)
  \/ AdminDelete
  \/ PublishProcessEvent
  \/ \E w \in Workers : WorkerStep(w)
  \/ DuplicateEvent
  \/ LoseClientEvent
  \/ \E w \in Workers : LoseOutcomeEvent(w)
  \/ \E w \in Workers : Crash(w)

Spec == Init /\ [][Next]_vars

\* The wrapper goes on to publish after its commit, and a live worker goes on
\* with its handler and takes the next event; clients need not do anything.
Fairness ==
  /\ WF_vars(PublishProcessEvent)
  /\ \A w \in Workers : WF_vars(WorkerStep(w))

FairSpec == Spec /\ Fairness

-----------------------------------------------------------------------------
(***************************************************************************)
(* Properties.                                                             *)
(***************************************************************************)

\* Every variable stays in its range; in particular no event is taken or
\* published that does not exist.
TypeOK ==
  /\ row \in Rows
  /\ nextId \in Nat \ {0}
  /\ unpublished \in Nat
  /\ queue \in Nat
  /\ pc \in [Workers -> Locations]
  /\ snapshot \in [Workers -> Hashes]
  /\ target \in [Workers -> Nat]
  /\ claimed \in [Workers -> Rows]
  /\ outcome \in [Workers -> Outcomes]
  /\ succeeded \subseteq Hashes
  /\ writes \in Nat
  /\ faults \in Nat

\* A process that is recorded as deployed carries the hash of a definition
\* whose deployment really succeeded: the outcome of deploying one
\* definition is never attributed to another one, whatever was written,
\* lost, repeated or restarted in between.
TruthfulStatus == row.value = "deployed" => row.hash \in succeeded

\* The worker owns the claim on the row: from the committed claim until the
\* outcome is recorded or the handler ends.
Holds(w) ==
  pc[w] \in {"reread_claimed", "deploying", "find_to_record", "record"}

\* "Claiming the deployment is atomic, so that concurrent workers do not
\* deploy the same process at the same time": as long as the identifier has
\* not been used for a second row, one worker at most is between its claim
\* and its record, also when workers crash and events repeat.
ExclusiveDeployment ==
  nextId <= 2 => \A v, w \in Workers : Holds(v) /\ Holds(w) => v = w

\* The worker will look at the row again, or tell others to.
WillReexamine(w) ==
  \/ pc[w] \in {"reconcile", "snapshot", "find_to_claim", "publish"}
  \/ pc[w] \in {"claim", "reread_recorded"} /\ target[w] = row.id

\* The worker is on its way to record an outcome that the row will accept.
WillRecord(w) ==
  \/ pc[w] = "reread_claimed" /\ target[w] = row.id
  \/ /\ pc[w] \in {"deploying", "find_to_record"}
     /\ claimed[w].hash = row.hash
  \/ /\ pc[w] = "record"
     /\ target[w] = row.id
     /\ claimed[w].hash = row.hash

\* No wake-up is lost: while the row is not converged, either it is in
\* progress and some worker is able to record an outcome on it, or an event
\* is under way, or a worker will look again.  The events that are ignored
\* because "whoever is deploying the process publishes an event when done"
\* rely on this.
WokenOrClaimed ==
  Exists /\ ~Converged =>
    IF row.value = "in-progress"
      THEN \E w \in Workers : WillRecord(w)
      ELSE unpublished > 0 \/ queue > 0 \/ \E w \in Workers : WillReexamine(w)

Quiet ==
  /\ unpublished = 0
  /\ queue = 0
  /\ \A w \in Workers : pc[w] = "idle"

\* Once all events are published and handled, the process is deployed, or
\* has failed to, with the definition that it has now: no definition change
\* is forgotten by ignoring events during a deployment.
ConvergedWhenQuiet == Quiet => ~Exists \/ Converged

\* The reconciler converges: after the last write the row is, again and again,
\* deployed or failed with its current definition.  It need not stay so: a
\* worker that read the process before it converged may deploy it once more.
Converges == []<>(~Exists \/ Converged)

\* "Only the deployment that claimed the process gets to record its outcome."
OnlyClaimantRecords ==
  [][ (/\ row.value = "in-progress"
       /\ row'.value # "in-progress"
       /\ row'.id = row.id)
      => \E w \in Workers : /\ pc[w] = "record"
                            /\ pc'[w] = "reread_recorded"
                            /\ claimed[w].id = row.id ]_vars

\* An event that finds the process already in progress is ignored because
\* whoever deploys it "publishes an event when done": the process does not
\* stay in progress.
NotLeftInProgress ==
  (row.value = "in-progress") ~> (row.value # "in-progress")

Reconciler ==
  INSTANCE DeploymentReconciler
    WITH definition <- row.definition, value <- row.value, hash <- row.hash

\* The event driven workers implement the reconciler that looks at the row
\* all the time, its fairness included.
ImplementsReconciler == Reconciler!Spec

=============================================================================
