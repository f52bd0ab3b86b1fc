---------------------------- MODULE JobExecution ----------------------------
(***************************************************************************)
(* Creation, execution and deletion of the jobs of one process.            *)
(*                                                                         *)
(* A client creates a job for a deployed process; the wrapper commits the  *)
(* accepted job and publishes a "created" event.  Workers of the           *)
(* "job-execution" group execute the job: they claim it by a conditional   *)
(* UPDATE, run it, and record the outcome by another conditional UPDATE.   *)
(* Meanwhile the job may be dismissed or deleted, and the process may be   *)
(* deleted, which deletes its jobs, or lose its deployment.                *)
(*                                                                         *)
(* Every database transaction is an action.  The deployment of the process *)
(* is the subject of ProcessDeployment; here its status just changes.      *)
(***************************************************************************)
EXTENDS Naturals

CONSTANTS
  Workers,           \* handler slots of the "job-execution" consumer group
  Jobs,              \* job identifiers; UUIDs, so none is used twice
  NoJob,             \* the missing job
  Settable,          \* statuses set through the job manager's set_job_status
  Faults,            \* the kinds of fault that may happen, among FaultKinds
  MaxProcesses,      \* bound on the process rows ever inserted
  MaxFaults          \* bound on the number of faults

FaultKinds == {"duplicate", "loss", "crash"}

JobStatus == {"accepted", "running", "successful", "failed", "dismissed"}

ASSUME JobsAssumption == NoJob \notin Jobs
ASSUME SettableAssumption == Settable \subseteq JobStatus
ASSUME FaultsAssumption == Faults \subseteq FaultKinds
ASSUME BoundsAssumption == MaxProcesses \in Nat /\ MaxFaults \in Nat

VARIABLES
  process,       \* id of the process row, 0 when there is none
  deployed,      \* whether its deployment status is "deployed"
  nextProcess,   \* next value of the primary key sequence
  status,        \* status of each job; "none" before, "gone" after its life
  parent,        \* process_id of each job
  checked,       \* per create_job call: process row it found deployed
  owed,          \* jobs whose "created" event is still to be published
  queue,         \* number of "created" events in the group, per job
  pc,            \* where each worker is in execute_job
  subject,       \* the job each worker was told to execute
  seen,          \* `job.status`, read when execute_job was entered
  outcome,       \* outcome of the run
  executed,      \* `executed.status`, the status execute_job returns
  runs,          \* history: how often each job was run
  results,       \* history: outcomes of the runs of each job
  everDeployed,  \* history: process rows that were ever deployed
  announced,     \* history: statuses announced by status_changed events
  faults         \* number of faults so far

processVars == <<process, deployed, nextProcess, everDeployed>>
requestVars == <<checked, owed>>
workerVars  == <<pc, subject, seen, outcome, executed>>
historyVars == <<runs, results, announced>>
vars == <<process, deployed, nextProcess, status, parent, checked, owed, queue,
          pc, subject, seen, outcome, executed, runs, results, everDeployed,
          announced, faults>>

Statuses  == JobStatus \cup {"none", "gone"}
Locations == {"idle", "get", "claim", "reread_claimed", "run", "record",
              "reread", "publish"}
Outcomes  == {"successful", "failed"}

Present(j) == status[j] \in JobStatus

Init ==
  /\ process = 0
  /\ deployed = FALSE
  /\ nextProcess = 1
  /\ status = [j \in Jobs |-> "none"]
  /\ parent = [j \in Jobs |-> 0]
  /\ checked = [j \in Jobs |-> 0]
  /\ owed = {}
  /\ queue = [j \in Jobs |-> 0]
  /\ pc = [w \in Workers |-> "idle"]
  /\ subject = [w \in Workers |-> NoJob]
  /\ seen = [w \in Workers |-> "none"]
  /\ outcome = [w \in Workers |-> "failed"]
  /\ executed = [w \in Workers |-> "none"]
  /\ runs = [j \in Jobs |-> 0]
  /\ results = [j \in Jobs |-> {}]
  /\ everDeployed = {}
  /\ announced = [j \in Jobs |-> {}]
  /\ faults = 0

-----------------------------------------------------------------------------
(***************************************************************************)
(* The process.                                                            *)
(***************************************************************************)

JobsUntouched == UNCHANGED <<status, parent>>
ElsewhereUntouched ==
  UNCHANGED <<requestVars, queue, workerVars, historyVars, faults>>

InsertProcess ==
  /\ process = 0
  /\ nextProcess <= MaxProcesses
  /\ process' = nextProcess
  /\ nextProcess' = nextProcess + 1
  /\ UNCHANGED <<deployed, everDeployed>>
  /\ JobsUntouched
  /\ ElsewhereUntouched

\* The reconciler claims the process, or records the outcome of deploying it.
ChangeDeployment ==
  /\ process # 0
  /\ deployed' = ~deployed
  /\ everDeployed' = IF deployed' THEN everDeployed \cup {process}
                                  ELSE everDeployed
  /\ UNCHANGED <<process, nextProcess>>
  /\ JobsUntouched
  /\ ElsewhereUntouched

\* The foreign key deletes the jobs together with their process, no event of
\* theirs is published.
DeleteProcess ==
  /\ process # 0
  /\ process' = 0
  /\ deployed' = FALSE
  /\ status' = [j \in Jobs |->
                  IF Present(j) /\ parent[j] = process THEN "gone" ELSE status[j]]
  /\ UNCHANGED <<nextProcess, everDeployed, parent>>
  /\ ElsewhereUntouched

-----------------------------------------------------------------------------
(***************************************************************************)
(* Clients.                                                                *)
(***************************************************************************)

\* create_job reads the process and rejects one that is not deployed.
CheckProcess(j) ==
  /\ status[j] = "none"
  /\ checked[j] = 0
  /\ process # 0
  /\ deployed
  /\ checked' = [checked EXCEPT ![j] = process]
  /\ JobsUntouched
  /\ UNCHANGED <<processVars, owed, queue, workerVars, historyVars, faults>>

\* MUTANT: the insert looks the process up by its identifier once more.
InsertForCurrentProcess(j) ==
  /\ status[j] = "none"
  /\ checked[j] # 0
  /\ checked' = [checked EXCEPT ![j] = 0]
  /\ IF process # 0
       THEN /\ status' = [status EXCEPT ![j] = "accepted"]
            /\ parent' = [parent EXCEPT ![j] = process]
            /\ owed' = owed \cup {j}
       ELSE JobsUntouched /\ UNCHANGED owed
  /\ UNCHANGED <<processVars, queue, workerVars, historyVars, faults>>

\* MUTANT: the job is recorded, the event is forgotten.
InsertSilently(j) ==
  /\ status[j] = "none"
  /\ checked[j] # 0
  /\ checked' = [checked EXCEPT ![j] = 0]
  /\ IF process = checked[j]
       THEN /\ status' = [status EXCEPT ![j] = "accepted"]
            /\ parent' = [parent EXCEPT ![j] = process]
       ELSE JobsUntouched
  /\ UNCHANGED <<processVars, owed, queue, workerVars, historyVars, faults>>

\* The insert is a later transaction; it fails on the foreign key when the
\* row found by the check is gone.
InsertJob(j) ==
  /\ status[j] = "none"
  /\ checked[j] # 0
  /\ checked' = [checked EXCEPT ![j] = 0]
  /\ IF process = checked[j]
       THEN /\ status' = [status EXCEPT ![j] = "accepted"]
            /\ parent' = [parent EXCEPT ![j] = process]
            /\ owed' = owed \cup {j}
       ELSE JobsUntouched /\ UNCHANGED owed
  /\ UNCHANGED <<processVars, queue, workerVars, historyVars, faults>>

PublishJobCreated(j) ==
  /\ j \in owed
  /\ owed' = owed \ {j}
  /\ queue' = [queue EXCEPT ![j] = @ + 1]
  /\ JobsUntouched
  /\ UNCHANGED <<processVars, checked, workerVars, historyVars, faults>>

DeleteJob(j) ==
  /\ Present(j)
  /\ status' = [status EXCEPT ![j] = "gone"]
  /\ UNCHANGED <<processVars, parent>>
  /\ ElsewhereUntouched

\* The manager's set_job_status is unconditional; only system principals may
\* call it, to dismiss a job for instance.
SetJobStatus(j, s) ==
  /\ Present(j)
  /\ status' = [status EXCEPT ![j] = s]
  /\ UNCHANGED <<processVars, parent>>
  /\ ElsewhereUntouched

-----------------------------------------------------------------------------
(***************************************************************************)
(* Workers.                                                                *)
(***************************************************************************)

Goes(w, from, to) ==
  /\ pc[w] = from
  /\ pc' = [pc EXCEPT ![w] = to]

\* The handler ends, normally or by an exception; its event is consumed.
Ends(w, from) ==
  /\ Goes(w, from, "idle")
  /\ seen' = [seen EXCEPT ![w] = "none"]
  /\ outcome' = [outcome EXCEPT ![w] = "failed"]
  /\ executed' = [executed EXCEPT ![w] = "none"]
  /\ subject' = [subject EXCEPT ![w] = NoJob]

OutsideUntouched == UNCHANGED <<processVars, parent, requestVars>>

\* MUTANT: an event is handled that nobody published.
ReceiveUnpublished(w, j) ==
  /\ Goes(w, "idle", "get")
  /\ subject' = [subject EXCEPT ![w] = j]
  /\ queue' = [queue EXCEPT ![j] = @ - 1]
  /\ OutsideUntouched
  /\ UNCHANGED <<status, seen, outcome, executed, historyVars, faults>>

ReceiveJobCreated(w, j) ==
  /\ queue[j] > 0
  /\ Goes(w, "idle", "get")
  /\ subject' = [subject EXCEPT ![w] = j]
  /\ queue' = [queue EXCEPT ![j] = @ - 1]
  /\ OutsideUntouched
  /\ UNCHANGED <<status, seen, outcome, executed, historyVars, faults>>

\* The wrapper reads the job; a missing one raises.
GetJob(w) ==
  /\ pc[w] = "get"
  /\ \/ /\ Present(subject[w])
        /\ Goes(w, "get", "claim")
        /\ seen' = [seen EXCEPT ![w] = status[subject[w]]]
        /\ UNCHANGED <<subject, outcome, executed>>
     \/ ~Present(subject[w]) /\ Ends(w, "get")
  /\ OutsideUntouched
  /\ UNCHANGED <<status, queue, historyVars, faults>>

\* UPDATE ... SET status = `to` WHERE identifier = subject AND status = `from`,
\* and what the handler does when it matched a row and when it did not.
SetStatusFrom(w, from, to, at, matched, otherwise) ==
  /\ pc[w] = at
  /\ IF status[subject[w]] = from
       THEN /\ status' = [status EXCEPT ![subject[w]] = to]
            /\ Goes(w, at, matched)
       ELSE UNCHANGED status /\ Goes(w, at, otherwise)
  /\ OutsideUntouched
  /\ UNCHANGED <<subject, seen, outcome, executed, queue, historyVars, faults>>

\* MUTANT: a redelivered event also restarts a job that is running.
ClaimAcceptedOrRunning(w) ==
  SetStatusFrom(w, IF status[subject[w]] = "running" THEN "running" ELSE "accepted",
                "running", "claim", "reread_claimed", "reread")

\* MUTANT: a redelivered event gives up a job that is running.
ClaimOrGiveUp(w) ==
  \/ SetStatusFrom(w, "accepted", "running", "claim", "reread_claimed", "reread")
  \/ /\ pc[w] = "claim" /\ status[subject[w]] = "running"
     /\ SetStatusFrom(w, "running", "failed", "claim", "reread", "reread")

\* Only an accepted job is claimed; any other is returned as it is.
ClaimJob(w) ==
  SetStatusFrom(w, "accepted", "running", "claim", "reread_claimed", "reread")

RereadClaimed(w) ==
  /\ pc[w] = "reread_claimed"
  /\ \/ /\ Present(subject[w])
        /\ Goes(w, "reread_claimed", "run")
        /\ UNCHANGED <<subject, seen, outcome, executed>>
     \/ ~Present(subject[w]) /\ Ends(w, "reread_claimed")
  /\ OutsideUntouched
  /\ UNCHANGED <<status, queue, historyVars, faults>>

\* MUTANT: an exception of the run is not caught.
RunWithoutCatchAll(w) ==
  /\ \/ /\ Goes(w, "run", "record")
        /\ outcome' = [outcome EXCEPT ![w] = "successful"]
        /\ results' = [results EXCEPT ![subject[w]] = @ \cup {"successful"}]
        /\ UNCHANGED <<subject, seen, executed>>
     \/ Ends(w, "run") /\ results' = [results EXCEPT ![subject[w]] = @ \cup {"failed"}]
  /\ runs' = [runs EXCEPT ![subject[w]] = @ + 1]
  /\ OutsideUntouched
  /\ UNCHANGED <<status, queue, announced, faults>>

\* An exception of the run is caught and makes the outcome "failed".
RunJob(w) ==
  /\ Goes(w, "run", "record")
  /\ \E o \in Outcomes :
       /\ outcome' = [outcome EXCEPT ![w] = o]
       /\ results' = [results EXCEPT ![subject[w]] = @ \cup {o}]
  /\ runs' = [runs EXCEPT ![subject[w]] = @ + 1]
  /\ OutsideUntouched
  /\ UNCHANGED <<status, subject, seen, executed, queue, announced, faults>>

\* MUTANT: the outcome is recorded whatever happened to the job meanwhile.
RecordAnyway(w) ==
  SetStatusFrom(w, IF Present(subject[w]) THEN status[subject[w]] ELSE "running",
                outcome[w], "record", "reread", "reread")

\* Only a job that is still running gets its outcome recorded.
RecordOutcome(w) ==
  SetStatusFrom(w, "running", outcome[w], "record", "reread", "reread")

\* The job as it is after the conditional UPDATE, matched or not.
Reread(w) ==
  /\ pc[w] = "reread"
  /\ \/ /\ Present(subject[w])
        /\ Goes(w, "reread", "publish")
        /\ executed' = [executed EXCEPT ![w] = status[subject[w]]]
        /\ UNCHANGED <<subject, seen, outcome>>
     \/ ~Present(subject[w]) /\ Ends(w, "reread")
  /\ OutsideUntouched
  /\ UNCHANGED <<status, queue, historyVars, faults>>

\* MUTANT: the status to compare with is read after the execution.
PublishComparingLate(w) ==
  /\ Ends(w, "publish")
  /\ announced' = IF executed[w] # status[subject[w]]
                    THEN [announced EXCEPT ![subject[w]] = @ \cup {executed[w]}]
                    ELSE announced
  /\ OutsideUntouched
  /\ UNCHANGED <<status, queue, runs, results, faults>>

\* status_changed is published when the status is not the one first read.
PublishStatusChanged(w) ==
  /\ Ends(w, "publish")
  /\ announced' = IF executed[w] # seen[w]
                    THEN [announced EXCEPT ![subject[w]] = @ \cup {executed[w]}]
                    ELSE announced
  /\ OutsideUntouched
  /\ UNCHANGED <<status, queue, runs, results, faults>>

WorkerStep(w) ==
  \/ \E j \in Jobs : ReceiveJobCreated(w, j)
  \/ GetJob(w)
  \/ ClaimJob(w)
  \/ RereadClaimed(w)
  \/ RunJob(w)
  \/ RecordOutcome(w)
  \/ Reread(w)
  \/ PublishStatusChanged(w)

-----------------------------------------------------------------------------
(***************************************************************************)
(* Faults.                                                                 *)
(***************************************************************************)

Fault(kind) ==
  /\ kind \in Faults
  /\ faults < MaxFaults
  /\ faults' = faults + 1

\* QoS 1: an event may be delivered more than once.
DuplicateJobCreated(j) ==
  /\ queue[j] > 0
  /\ Fault("duplicate")
  /\ queue' = [queue EXCEPT ![j] = @ + 1]
  /\ OutsideUntouched
  /\ UNCHANGED <<status, workerVars, historyVars>>

\* The exception of a failed publish is logged and swallowed.
LoseJobCreated(j) ==
  /\ j \in owed
  /\ Fault("loss")
  /\ owed' = owed \ {j}
  /\ JobsUntouched
  /\ UNCHANGED <<processVars, checked, queue, workerVars, historyVars>>

LoseStatusChanged(w) ==
  /\ Ends(w, "publish")
  /\ Fault("loss")
  /\ OutsideUntouched
  /\ UNCHANGED <<status, queue, historyVars>>

\* A worker dies and is restarted; an event that was not acknowledged yet is
\* delivered again.
Crash(w) ==
  /\ pc[w] # "idle"
  /\ Ends(w, pc[w])
  /\ Fault("crash")
  /\ \E again \in {0, 1} : queue' = [queue EXCEPT ![subject[w]] = @ + again]
  /\ OutsideUntouched
  /\ UNCHANGED <<status, historyVars>>

-----------------------------------------------------------------------------
Next ==
  \/ InsertProcess
  \/ ChangeDeployment
  \/ DeleteProcess
  \/ \E j \in Jobs : CheckProcess(j)
  \/ \E j \in Jobs : InsertJob(j)
  \/ \E j \in Jobs : PublishJobCreated(j)
  \/ \E j \in Jobs : DeleteJob(j)
  \/ \E j \in Jobs, s \in Settable : SetJobStatus(j, s)
  \/ \E w \in Workers : WorkerStep(w)
  \/ \E j \in Jobs : DuplicateJobCreated(j)
  \/ \E j \in Jobs : LoseJobCreated(j)
  \/ \E w \in Workers : LoseStatusChanged(w)
  \/ \E w \in Workers : Crash(w)

Spec == Init /\ [][Next]_vars

\* The wrapper goes on to publish after its commit, and a live worker goes on
\* with its handler and takes the next event.
Fairness ==
  /\ \A j \in Jobs : WF_vars(PublishJobCreated(j))
  /\ \A w \in Workers : WF_vars(WorkerStep(w))

FairSpec == Spec /\ Fairness

-----------------------------------------------------------------------------
(***************************************************************************)
(* Properties.                                                             *)
(***************************************************************************)

\* Every variable stays in its range; in particular no event is taken that
\* is not in the queue.
TypeOK ==
  /\ process \in Nat
  /\ deployed \in BOOLEAN
  /\ nextProcess \in Nat \ {0}
  /\ status \in [Jobs -> Statuses]
  /\ parent \in [Jobs -> Nat]
  /\ checked \in [Jobs -> Nat]
  /\ owed \subseteq Jobs
  /\ queue \in [Jobs -> Nat]
  /\ pc \in [Workers -> Locations]
  /\ subject \in [Workers -> Jobs \cup {NoJob}]
  /\ \A w \in Workers : pc[w] # "idle" => subject[w] \in Jobs
  /\ seen \in [Workers -> Statuses]
  /\ outcome \in [Workers -> Outcomes]
  /\ executed \in [Workers -> Statuses]
  /\ runs \in [Jobs -> Nat]
  /\ results \in [Jobs -> SUBSET Outcomes]
  /\ everDeployed \subseteq Nat
  /\ announced \in [Jobs -> SUBSET Statuses]
  /\ faults \in Nat

\* However often the event of a job is delivered, however many workers take
\* it, and even when they crash and are restarted, the job runs at most once.
RunsAtMostOnce == \A j \in Jobs : runs[j] <= 1

\* A recorded outcome is the outcome of the job's own run, and a job that is
\* dismissed while it runs keeps its status.
OutcomeIsOfRun ==
  \A j \in Jobs : status[j] \in Outcomes => results[j] = {status[j]}

\* No worker takes a job out of a final status: an outcome is only replaced
\* by a dismissal, and a dismissal by nothing.
FinalStatusKept ==
  [][ \A j \in Jobs :
        /\ status[j] \in Outcomes =>
             status'[j] \in {status[j], "dismissed", "gone"}
        /\ status[j] = "dismissed" => status'[j] \in {"dismissed", "gone"} ]_vars

\* A job belongs to the process row that is there, and that row was found
\* deployed: a job is neither left behind by its process nor inherited by a
\* process created later under the same identifier.
JobsBelong ==
  \A j \in Jobs : Present(j) => process = parent[j] /\ parent[j] \in everDeployed

\* An outcome that was recorded has been announced, or the worker that
\* recorded it is still to announce it.
OutcomeAnnounced ==
  \A j \in Jobs : status[j] \in Outcomes =>
    \/ status[j] \in announced[j]
    \/ \E w \in Workers :
         /\ subject[w] = j
         /\ seen[w] # status[j]
         /\ \/ pc[w] = "reread"
            \/ pc[w] = "publish" /\ executed[w] = status[j]

\* An accepted job waits for something that is there: its event is to be
\* published or received, or a worker is about to claim it.
AcceptedIsAwaited ==
  \A j \in Jobs : status[j] = "accepted" =>
    \/ j \in owed
    \/ queue[j] > 0
    \/ \E w \in Workers : subject[w] = j /\ pc[w] \in {"get", "claim"}

Lifecycle == INSTANCE JobLifecycle

\* Every accepted job is started and every running job ends, unless it is
\* dismissed or deleted first, and nothing else ever happens to a job.
ImplementsLifecycle == Lifecycle!Spec

=============================================================================
