------------------------- MODULE JobExecutionProofs -------------------------
(***************************************************************************)
(* Theorems about JobExecution, for every set of workers and of jobs and   *)
(* for every bound.                                                        *)
(***************************************************************************)
EXTENDS JobExecution, TLAPS

\* What the steps of clients and of the process leave alone.
LEMMA ElsewhereFacts ==
  ASSUME ElsewhereUntouched
  PROVE  UNCHANGED <<checked, owed, queue, pc, subject, seen, outcome,
                     executed, runs, results, announced, faults>>
BY DEF ElsewhereUntouched, requestVars, workerVars, historyVars

\* What the steps of workers and the faults leave alone.
LEMMA OutsideFacts ==
  ASSUME OutsideUntouched
  PROVE  UNCHANGED <<process, deployed, nextProcess, everDeployed, parent,
                     checked, owed>>
BY DEF OutsideUntouched, processVars, requestVars

\* The end of a handler leaves the workers well typed.
LEMMA EndsType ==
  ASSUME TypeOK, NEW w \in Workers, NEW from, Ends(w, from)
  PROVE  /\ pc' \in [Workers -> Locations]
         /\ subject' \in [Workers -> Jobs \cup {NoJob}]
         /\ \A v \in Workers : pc'[v] # "idle" => subject'[v] \in Jobs
         /\ seen' \in [Workers -> Statuses]
         /\ outcome' \in [Workers -> Outcomes]
         /\ executed' \in [Workers -> Statuses]
BY DEF TypeOK, Ends, Goes, Locations, Statuses, Outcomes

\* A conditional UPDATE keeps the types.
LEMMA SetStatusFromType ==
  ASSUME TypeOK, NEW w \in Workers, NEW from, NEW to \in Statuses,
         NEW at \in Locations \ {"idle"}, NEW matched \in Locations,
         NEW otherwise \in Locations,
         SetStatusFrom(w, from, to, at, matched, otherwise)
  PROVE  TypeOK'
<1>1. status' \in [Jobs -> Statuses] /\ pc' \in [Workers -> Locations]
  BY DEF SetStatusFrom, Goes, TypeOK
<1>2. \A v \in Workers : pc'[v] # "idle" => subject'[v] \in Jobs
  BY DEF SetStatusFrom, Goes, TypeOK
<1>. QED
  BY <1>1, <1>2, OutsideFacts DEF SetStatusFrom, TypeOK, historyVars

\* Every variable keeps its type, whatever faults are allowed.
THEOREM TypeCorrect == Spec => []TypeOK
<1>1. Init => TypeOK
  <2> SUFFICES ASSUME Init PROVE TypeOK
    OBVIOUS
  <2>1. /\ status \in [Jobs -> Statuses] /\ parent \in [Jobs -> Nat]
        /\ checked \in [Jobs -> Nat] /\ queue \in [Jobs -> Nat]
        /\ runs \in [Jobs -> Nat] /\ results \in [Jobs -> SUBSET Outcomes]
        /\ announced \in [Jobs -> SUBSET Statuses]
    BY DEF Init, Statuses
  <2>2. /\ pc \in [Workers -> Locations]
        /\ subject \in [Workers -> Jobs \cup {NoJob}]
        /\ seen \in [Workers -> Statuses] /\ executed \in [Workers -> Statuses]
        /\ outcome \in [Workers -> Outcomes]
        /\ \A w \in Workers : pc[w] # "idle" => subject[w] \in Jobs
    BY DEF Init, Statuses, Locations, Outcomes
  <2>3. /\ process \in Nat /\ faults \in Nat /\ nextProcess \in Nat \ {0}
        /\ owed \subseteq Jobs /\ everDeployed \subseteq Nat
    BY DEF Init
  <2>4. deployed \in BOOLEAN
    BY DEF Init
  <2>. QED
    BY <2>1, <2>2, <2>3, <2>4 DEF TypeOK
<1>2. TypeOK /\ [Next]_vars => TypeOK'
  <2> SUFFICES ASSUME TypeOK, [Next]_vars PROVE TypeOK'
    OBVIOUS
  <2>1. CASE InsertProcess \/ ChangeDeployment \/ DeleteProcess
    <3>1. /\ process' \in Nat /\ nextProcess' \in Nat \ {0}
          /\ everDeployed' \subseteq Nat /\ UNCHANGED parent
      <4>1. CASE InsertProcess
        BY <4>1 DEF InsertProcess, JobsUntouched, TypeOK
      <4>2. CASE ChangeDeployment
        <5>1. UNCHANGED <<process, nextProcess, parent>>
          BY <4>2 DEF ChangeDeployment, JobsUntouched
        <5>2. everDeployed' \subseteq everDeployed \cup {process}
          BY <4>2 DEF ChangeDeployment
        <5>. QED BY <5>1, <5>2 DEF TypeOK
      <4>3. CASE DeleteProcess
        BY <4>3 DEF DeleteProcess, TypeOK
      <4>. QED BY <2>1, <4>1, <4>2, <4>3
    <3>4. deployed' \in BOOLEAN
      BY <2>1 DEF InsertProcess, ChangeDeployment, DeleteProcess, TypeOK
    <3>2. status' \in [Jobs -> Statuses]
      <4>1. CASE DeleteProcess
        BY <4>1 DEF DeleteProcess, Statuses, TypeOK
      <4>2. CASE UNCHANGED status
        BY <4>2 DEF TypeOK
      <4>. QED
        BY <2>1, <4>1, <4>2 DEF InsertProcess, ChangeDeployment, JobsUntouched
    <3>3. ElsewhereUntouched
      BY <2>1 DEF InsertProcess, ChangeDeployment, DeleteProcess
    <3>. QED
      BY <3>1, <3>2, <3>3, <3>4, ElsewhereFacts DEF TypeOK
  <2>2. ASSUME NEW j \in Jobs, CheckProcess(j) \/ InsertJob(j)
        PROVE  TypeOK'
    <3>1. /\ status' \in [Jobs -> Statuses] /\ parent' \in [Jobs -> Nat]
          /\ checked' \in [Jobs -> Nat] /\ owed' \subseteq Jobs
      BY <2>2 DEF CheckProcess, InsertJob, JobsUntouched, TypeOK, Statuses, JobStatus
    <3>2. UNCHANGED <<processVars, queue, workerVars, historyVars, faults>>
      BY <2>2 DEF CheckProcess, InsertJob
    <3>. QED
      BY <3>1, <3>2 DEF processVars, workerVars, historyVars, TypeOK
  <2>3. ASSUME NEW j \in Jobs, PublishJobCreated(j) \/ LoseJobCreated(j)
        PROVE  TypeOK'
    <3>1. /\ owed' \subseteq Jobs /\ queue' \in [Jobs -> Nat] /\ faults' \in Nat
      BY <2>3 DEF PublishJobCreated, LoseJobCreated, Fault, TypeOK
    <3>2. UNCHANGED <<status, parent, processVars, checked, workerVars, historyVars>>
      BY <2>3 DEF PublishJobCreated, LoseJobCreated, JobsUntouched
    <3>. QED
      BY <3>1, <3>2 DEF processVars, workerVars, historyVars, TypeOK
  <2>4. ASSUME NEW j \in Jobs,
               DeleteJob(j) \/ \E s \in Settable : SetJobStatus(j, s)
        PROVE  TypeOK'
    <3>1. status' \in [Jobs -> Statuses] /\ UNCHANGED parent
      BY <2>4, SettableAssumption DEF DeleteJob, SetJobStatus, Statuses, TypeOK
    <3>. QED
      BY <2>4, <3>1, ElsewhereFacts DEF DeleteJob, SetJobStatus, processVars, TypeOK
  <2>5. ASSUME NEW w \in Workers, WorkerStep(w)
        PROVE  TypeOK'
    <3>1. ASSUME NEW j \in Jobs, ReceiveJobCreated(w, j)
          PROVE  TypeOK'
      <4>1. /\ pc' \in [Workers -> Locations]
            /\ subject' \in [Workers -> Jobs \cup {NoJob}]
            /\ \A v \in Workers : pc'[v] # "idle" => subject'[v] \in Jobs
            /\ queue' \in [Jobs -> Nat]
        BY <3>1 DEF ReceiveJobCreated, Goes, Locations, TypeOK
      <4>. QED
        BY <3>1, <4>1, OutsideFacts DEF ReceiveJobCreated, historyVars, TypeOK
    <3>2. CASE GetJob(w) \/ RereadClaimed(w) \/ Reread(w)
      <4>1. CASE Ends(w, "get") \/ Ends(w, "reread_claimed") \/ Ends(w, "reread")
        BY <3>2, <4>1, EndsType, OutsideFacts
           DEF GetJob, RereadClaimed, Reread, historyVars, TypeOK
      <4>2. CASE ~(Ends(w, "get") \/ Ends(w, "reread_claimed") \/ Ends(w, "reread"))
        <5>1. subject[w] \in Jobs /\ status[subject[w]] \in Statuses
          BY <3>2 DEF GetJob, RereadClaimed, Reread, TypeOK
        <5>2. /\ pc' \in [Workers -> Locations]
              /\ \A v \in Workers : pc'[v] # "idle" => subject'[v] \in Jobs
              /\ seen' \in [Workers -> Statuses]
              /\ executed' \in [Workers -> Statuses]
              /\ UNCHANGED <<subject, outcome>>
          BY <3>2, <4>2, <5>1 DEF GetJob, RereadClaimed, Reread, Goes,
               Locations, TypeOK
        <5>. QED
          BY <3>2, <5>2, OutsideFacts
             DEF GetJob, RereadClaimed, Reread, historyVars, TypeOK
      <4>. QED BY <4>1, <4>2
    <3>3. CASE ClaimJob(w)
      BY <3>3, SetStatusFromType DEF ClaimJob, Locations, Statuses, JobStatus
    <3>4. CASE RunJob(w)
      <4>1. subject[w] \in Jobs
        BY <3>4 DEF RunJob, Goes, TypeOK
      <4>2. /\ pc' \in [Workers -> Locations]
            /\ \A v \in Workers : pc'[v] # "idle" => subject'[v] \in Jobs
            /\ outcome' \in [Workers -> Outcomes]
            /\ results' \in [Jobs -> SUBSET Outcomes]
            /\ runs' \in [Jobs -> Nat]
        BY <3>4, <4>1 DEF RunJob, Goes, Locations, TypeOK
      <4>. QED
        BY <3>4, <4>2, OutsideFacts DEF RunJob, TypeOK
    <3>5. CASE RecordOutcome(w)
      <4>1. outcome[w] \in Statuses
        BY DEF TypeOK, Outcomes, Statuses, JobStatus
      <4>. QED
        BY <3>5, <4>1, SetStatusFromType DEF RecordOutcome, Locations
    <3>6. CASE PublishStatusChanged(w)
      <4>1. announced' \in [Jobs -> SUBSET Statuses]
        <5>1. executed[w] \in Statuses
          BY DEF TypeOK
        <5>. QED BY <3>6, <5>1 DEF PublishStatusChanged, TypeOK
      <4>. QED
        BY <3>6, <4>1, EndsType, OutsideFacts DEF PublishStatusChanged, TypeOK
    <3>. QED
      BY <2>5, <3>1, <3>2, <3>3, <3>4, <3>5, <3>6 DEF WorkerStep
  <2>6. ASSUME NEW j \in Jobs, DuplicateJobCreated(j)
        PROVE  TypeOK'
    <3>1. queue' \in [Jobs -> Nat] /\ faults' \in Nat
      BY <2>6 DEF DuplicateJobCreated, Fault, TypeOK
    <3>. QED
      BY <2>6, <3>1, OutsideFacts DEF DuplicateJobCreated, workerVars,
           historyVars, TypeOK
  <2>7. ASSUME NEW w \in Workers, LoseStatusChanged(w) \/ Crash(w)
        PROVE  TypeOK'
    <3>1. queue' \in [Jobs -> Nat] /\ faults' \in Nat
      BY <2>7 DEF LoseStatusChanged, Crash, Fault, TypeOK
    <3>. QED
      BY <2>7, <3>1, EndsType, OutsideFacts
         DEF LoseStatusChanged, Crash, historyVars, TypeOK
  <2>8. CASE UNCHANGED vars
    BY <2>8 DEF vars, TypeOK
  <2>. QED
    BY <2>1, <2>2, <2>3, <2>4, <2>5, <2>6, <2>7, <2>8 DEF Next
<1>. QED
  BY <1>1, <1>2, PTL DEF Spec

-----------------------------------------------------------------------------
(***************************************************************************)
(* At most one run.  A job that was not claimed yet was not run and is     *)
(* held by nobody; the claim is conditional, so it has one holder, and the *)
(* holder gives the job up by running it.                                  *)
(***************************************************************************)

\* The worker claimed the job and is yet to run it.
Holding(w, j) == subject[w] = j /\ pc[w] \in {"reread_claimed", "run"}

Unclaimed == {"none", "accepted"}

OnceInv ==
  /\ \A j \in Jobs : status[j] \in Unclaimed =>
       runs[j] = 0 /\ \A w \in Workers : ~Holding(w, j)
  /\ \A j \in Jobs, w \in Workers : Holding(w, j) => runs[j] = 0
  /\ \A j \in Jobs, v, w \in Workers : Holding(v, j) /\ Holding(w, j) => v = w
  /\ RunsAtMostOnce

\* A step that runs nothing, lets nobody hold a job and takes no job back to
\* its unclaimed state preserves the invariant.
LEMMA OnceStable ==
  ASSUME OnceInv, runs' = runs,
         \A j \in Jobs, w \in Workers : Holding(w, j)' => Holding(w, j),
         \A j \in Jobs : status'[j] \in Unclaimed => status[j] \in Unclaimed
  PROVE  OnceInv'
BY DEF OnceInv, RunsAtMostOnce

\* Only the worker itself changes its place and its local variables.
LEMMA OneWorkerMoves ==
  ASSUME TypeOK, NEW w \in Workers,
         WorkerStep(w) \/ LoseStatusChanged(w) \/ Crash(w)
  PROVE  \A v \in Workers \ {w} :
           UNCHANGED <<pc[v], subject[v], seen[v], outcome[v], executed[v]>>
BY DEF WorkerStep, ReceiveJobCreated, GetJob, ClaimJob, RereadClaimed, RunJob,
   RecordOutcome, SetStatusFrom, Reread, PublishStatusChanged,
   LoseStatusChanged, Crash, Goes, Ends, TypeOK

\* The steps of clients and of the process leave the workers alone, and no
\* job becomes unclaimed again.
LEMMA ClientsAndUnclaimed ==
  ASSUME TypeOK, "accepted" \notin Settable,
         \/ InsertProcess \/ ChangeDeployment \/ DeleteProcess
         \/ \E j \in Jobs : \/ CheckProcess(j) \/ InsertJob(j)
                            \/ PublishJobCreated(j) \/ DeleteJob(j)
                            \/ \E s \in Settable : SetJobStatus(j, s)
                            \/ DuplicateJobCreated(j) \/ LoseJobCreated(j)
  PROVE  /\ UNCHANGED <<pc, subject, seen, outcome, executed, runs, results,
                        announced>>
         /\ \A j \in Jobs : status'[j] \in Unclaimed => status[j] \in Unclaimed
<1>1. CASE InsertProcess \/ ChangeDeployment \/ DeleteProcess
  <2>1. ElsewhereUntouched
    BY <1>1 DEF InsertProcess, ChangeDeployment, DeleteProcess
  <2>2. \A j \in Jobs : status'[j] \in Unclaimed => status[j] \in Unclaimed
    <3>1. CASE DeleteProcess
      BY <3>1 DEF DeleteProcess, Unclaimed, TypeOK
    <3>2. CASE UNCHANGED status
      BY <3>2
    <3>. QED
      BY <1>1, <3>1, <3>2 DEF InsertProcess, ChangeDeployment, JobsUntouched
  <2>. QED BY <2>1, <2>2, ElsewhereFacts
<1>2. ASSUME NEW j \in Jobs,
             \/ CheckProcess(j) \/ InsertJob(j) \/ PublishJobCreated(j)
             \/ DuplicateJobCreated(j) \/ LoseJobCreated(j)
      PROVE  /\ UNCHANGED <<pc, subject, seen, outcome, executed, runs,
                            results, announced>>
             /\ \A i \in Jobs : status'[i] \in Unclaimed => status[i] \in Unclaimed
  BY <1>2 DEF CheckProcess, InsertJob, PublishJobCreated, DuplicateJobCreated,
     LoseJobCreated, JobsUntouched, workerVars, historyVars, Unclaimed, TypeOK
<1>3. ASSUME NEW j \in Jobs,
             DeleteJob(j) \/ \E s \in Settable : SetJobStatus(j, s)
      PROVE  /\ UNCHANGED <<pc, subject, seen, outcome, executed, runs,
                            results, announced>>
             /\ \A i \in Jobs : status'[i] \in Unclaimed => status[i] \in Unclaimed
  <2>1. ElsewhereUntouched
    BY <1>3 DEF DeleteJob, SetJobStatus
  <2>2. \A i \in Jobs : status'[i] \in Unclaimed => status[i] \in Unclaimed
    BY <1>3, SettableAssumption
       DEF DeleteJob, SetJobStatus, JobStatus, Unclaimed, TypeOK
  <2>. QED BY <2>1, <2>2, ElsewhereFacts
<1>. QED
  BY <1>1, <1>2, <1>3

LEMMA OnceInductive ==
  ASSUME "accepted" \notin Settable, TypeOK, OnceInv, [Next]_vars
  PROVE  OnceInv'
<1>1. CASE \/ InsertProcess \/ ChangeDeployment \/ DeleteProcess
           \/ \E j \in Jobs : \/ CheckProcess(j) \/ InsertJob(j)
                              \/ PublishJobCreated(j) \/ DeleteJob(j)
                              \/ \E s \in Settable : SetJobStatus(j, s)
                              \/ DuplicateJobCreated(j) \/ LoseJobCreated(j)
  BY <1>1, ClientsAndUnclaimed, OnceStable DEF Holding
<1>2. ASSUME NEW w \in Workers, ClaimJob(w) PROVE OnceInv'
  <2>1. subject[w] \in Jobs /\ UNCHANGED <<subject, runs>>
    BY <1>2 DEF ClaimJob, SetStatusFrom, historyVars, TypeOK
  <2>2. CASE status[subject[w]] = "accepted"
    <3>1. /\ status' = [status EXCEPT ![subject[w]] = "running"]
          /\ pc' = [pc EXCEPT ![w] = "reread_claimed"]
      BY <1>2, <2>2 DEF ClaimJob, SetStatusFrom, Goes
    <3>2. runs[subject[w]] = 0 /\ \A v \in Workers : ~Holding(v, subject[w])
      BY <2>1, <2>2 DEF OnceInv, Unclaimed
    <3>3. \A j \in Jobs, v \in Workers : Holding(v, j)' =>
            Holding(v, j) \/ (v = w /\ j = subject[w])
      BY <2>1, <3>1 DEF Holding, TypeOK
    <3>4. \A j \in Jobs : status'[j] \in Unclaimed =>
            status[j] \in Unclaimed /\ j # subject[w]
      BY <3>1 DEF Unclaimed, TypeOK
    <3>. QED
      BY <2>1, <3>2, <3>3, <3>4 DEF OnceInv, RunsAtMostOnce
  <2>3. CASE status[subject[w]] # "accepted"
    <3>1. UNCHANGED status /\ pc' = [pc EXCEPT ![w] = "reread"]
      BY <1>2, <2>3 DEF ClaimJob, SetStatusFrom, Goes
    <3>. QED
      BY <2>1, <3>1, OnceStable DEF Holding, TypeOK
  <2>. QED BY <2>2, <2>3
<1>3. ASSUME NEW w \in Workers, RunJob(w) PROVE OnceInv'
  <2>1. /\ Holding(w, subject[w]) /\ subject[w] \in Jobs
        /\ UNCHANGED <<status, subject>>
        /\ pc' = [pc EXCEPT ![w] = "record"]
        /\ runs' = [runs EXCEPT ![subject[w]] = @ + 1]
    BY <1>3 DEF RunJob, Goes, Holding, TypeOK
  <2>2. runs'[subject[w]] = 1 /\ status[subject[w]] \notin Unclaimed
    BY <2>1 DEF OnceInv, TypeOK
  <2>3. \A j \in Jobs \ {subject[w]} : runs'[j] = runs[j]
    BY <2>1 DEF TypeOK
  <2>4. \A j \in Jobs, v \in Workers : Holding(v, j)' => Holding(v, j) /\ v # w
    BY <2>1 DEF Holding, TypeOK
  <2>5. \A j \in Jobs, v \in Workers : Holding(v, j)' => j # subject[w]
    BY <2>1, <2>4 DEF OnceInv
  <2>. QED
    BY <2>1, <2>2, <2>3, <2>4, <2>5 DEF OnceInv, RunsAtMostOnce
<1>4. ASSUME NEW w \in Workers,
             \/ \E j \in Jobs : ReceiveJobCreated(w, j)
             \/ GetJob(w) \/ RereadClaimed(w) \/ RecordOutcome(w) \/ Reread(w)
             \/ PublishStatusChanged(w) \/ LoseStatusChanged(w) \/ Crash(w)
      PROVE  OnceInv'
  <2>1. runs' = runs
    BY <1>4 DEF ReceiveJobCreated, GetJob, RereadClaimed, RecordOutcome,
       SetStatusFrom, Reread, PublishStatusChanged, LoseStatusChanged, Crash,
       historyVars
  <2>2. \A j \in Jobs, v \in Workers : Holding(v, j)' => Holding(v, j)
    BY <1>4 DEF ReceiveJobCreated, GetJob, RereadClaimed, RecordOutcome,
       SetStatusFrom, Reread, PublishStatusChanged, LoseStatusChanged, Crash,
       Goes, Ends, Holding, TypeOK
  <2>3. \A j \in Jobs : status'[j] \in Unclaimed => status[j] \in Unclaimed
    BY <1>4 DEF ReceiveJobCreated, GetJob, RereadClaimed, RecordOutcome,
       SetStatusFrom, Reread, PublishStatusChanged, LoseStatusChanged, Crash,
       Unclaimed, Outcomes, TypeOK
  <2>. QED BY <2>1, <2>2, <2>3, OnceStable
<1>5. CASE UNCHANGED vars
  BY <1>5, OnceStable DEF vars, Holding
<1>. QED
  BY <1>1, <1>2, <1>3, <1>4, <1>5 DEF Next, WorkerStep

\* A job runs at most once, however many workers take its event, however
\* often it is delivered, and whatever crashes.
THEOREM AtMostOneRun ==
  ASSUME "accepted" \notin Settable
  PROVE  Spec => []RunsAtMostOnce
<1>1. Init => OnceInv
  BY DEF Init, OnceInv, RunsAtMostOnce, Holding
<1>2. TypeOK /\ OnceInv /\ [Next]_vars => OnceInv'
  BY OnceInductive
<1>3. OnceInv => RunsAtMostOnce
  BY DEF OnceInv
<1>. QED
  BY <1>1, <1>2, <1>3, TypeCorrect, PTL DEF Spec

-----------------------------------------------------------------------------
(***************************************************************************)
(* The recorded outcome.  Whoever is about to record has the only result   *)
(* of the job in hand, and whoever holds the job knows that it has none.   *)
(***************************************************************************)

\* A job has a result exactly when it was run; until then its worker has
\* nothing to record, and afterwards it records that result.
ResultInv ==
  /\ \A j \in Jobs : runs[j] = 0 => results[j] = {}
  /\ \A w \in Workers : pc[w] = "record" => results[subject[w]] = {outcome[w]}
  /\ OutcomeIsOfRun

\* A step that runs nothing, gives no worker an outcome to record and no job
\* an outcome preserves the invariant.
LEMMA ResultStable ==
  ASSUME ResultInv, UNCHANGED <<runs, results>>,
         \A w \in Workers : pc'[w] = "record" =>
           pc[w] = "record" /\ subject'[w] = subject[w] /\ outcome'[w] = outcome[w],
         \A j \in Jobs : status'[j] \in Outcomes => status'[j] = status[j]
  PROVE  ResultInv'
BY DEF ResultInv, OutcomeIsOfRun

\* The status "successful" or "failed" of a job is the result of its own and
\* only run.
THEOREM OutcomeTrue ==
  ASSUME Settable \subseteq {"dismissed"}
  PROVE  Spec => []OutcomeIsOfRun
<1>1. Init => OnceInv /\ ResultInv
  BY DEF Init, OnceInv, RunsAtMostOnce, Holding, ResultInv, OutcomeIsOfRun,
     Outcomes
<1>2. TypeOK /\ OnceInv /\ ResultInv /\ [Next]_vars => ResultInv'
  <2> SUFFICES ASSUME TypeOK, OnceInv, ResultInv, [Next]_vars
               PROVE  ResultInv'
    OBVIOUS
  <2>1. CASE \/ InsertProcess \/ ChangeDeployment \/ DeleteProcess
             \/ \E j \in Jobs : \/ CheckProcess(j) \/ InsertJob(j)
                                \/ PublishJobCreated(j) \/ DeleteJob(j)
                                \/ \E s \in Settable : SetJobStatus(j, s)
                                \/ DuplicateJobCreated(j) \/ LoseJobCreated(j)
    <3>1. UNCHANGED <<pc, subject, outcome, runs, results>>
      BY <2>1, ClientsAndUnclaimed
    <3>2. \A j \in Jobs : status'[j] \in Outcomes => status'[j] = status[j]
      BY <2>1 DEF InsertProcess, ChangeDeployment, DeleteProcess, CheckProcess,
         InsertJob, PublishJobCreated, DeleteJob, SetJobStatus,
         DuplicateJobCreated, LoseJobCreated, JobsUntouched, Outcomes, TypeOK
    <3>. QED BY <3>1, <3>2, ResultStable
  <2>2. ASSUME NEW w \in Workers, RunJob(w) PROVE ResultInv'
    <3>1. PICK o \in Outcomes :
            /\ outcome' = [outcome EXCEPT ![w] = o]
            /\ results' = [results EXCEPT ![subject[w]] = @ \cup {o}]
      BY <2>2 DEF RunJob
    <3>2. /\ subject[w] \in Jobs /\ Holding(w, subject[w])
          /\ pc' = [pc EXCEPT ![w] = "record"]
          /\ runs' = [runs EXCEPT ![subject[w]] = @ + 1]
          /\ UNCHANGED <<status, subject>>
      BY <2>2 DEF RunJob, Goes, Holding, TypeOK
    <3>3. runs[subject[w]] = 0 /\ results[subject[w]] = {}
      BY <3>2 DEF OnceInv, ResultInv
    <3>4. /\ results'[subject[w]] = {o} /\ outcome'[w] = o
          /\ runs'[subject[w]] # 0
      BY <3>1, <3>2, <3>3 DEF TypeOK
    <3>5. \A j \in Jobs \ {subject[w]} :
            results'[j] = results[j] /\ runs'[j] = runs[j]
      BY <3>1, <3>2 DEF TypeOK
    <3>6. \A v \in Workers \ {w} : pc'[v] = "record" =>
            /\ pc[v] = "record" /\ subject'[v] = subject[v]
            /\ outcome'[v] = outcome[v] /\ subject[v] \in Jobs \ {subject[w]}
      BY <3>1, <3>2, <3>3 DEF ResultInv, TypeOK
    <3>7. status[subject[w]] \notin Outcomes
      BY <3>2, <3>3 DEF ResultInv, OutcomeIsOfRun
    <3>8. OutcomeIsOfRun'
      BY <3>2, <3>5, <3>7 DEF ResultInv, OutcomeIsOfRun
    <3>9. \A v \in Workers : pc'[v] = "record" => results'[subject'[v]] = {outcome'[v]}
      BY <3>2, <3>4, <3>5, <3>6 DEF ResultInv
    <3>. QED
      BY <3>4, <3>5, <3>8, <3>9 DEF ResultInv
  <2>3. ASSUME NEW w \in Workers, RecordOutcome(w) PROVE ResultInv'
    <3>1. /\ pc[w] = "record" /\ subject[w] \in Jobs
          /\ pc' = [pc EXCEPT ![w] = "reread"]
          /\ UNCHANGED <<subject, outcome, runs, results>>
      BY <2>3 DEF RecordOutcome, SetStatusFrom, Goes, historyVars, TypeOK
    <3>2. \A j \in Jobs : status'[j] \in Outcomes =>
            status'[j] = status[j] \/ (j = subject[w] /\ status'[j] = outcome[w])
      BY <2>3 DEF RecordOutcome, SetStatusFrom, TypeOK
    <3>3. OutcomeIsOfRun'
      BY <3>1, <3>2 DEF ResultInv, OutcomeIsOfRun
    <3>. QED
      BY <3>1, <3>3 DEF ResultInv, TypeOK
  <2>4. ASSUME NEW w \in Workers,
               \/ \E j \in Jobs : ReceiveJobCreated(w, j)
               \/ GetJob(w) \/ ClaimJob(w) \/ RereadClaimed(w) \/ Reread(w)
               \/ PublishStatusChanged(w) \/ LoseStatusChanged(w) \/ Crash(w)
        PROVE  ResultInv'
    <3>1. UNCHANGED <<runs, results>>
      BY <2>4 DEF ReceiveJobCreated, GetJob, ClaimJob, RereadClaimed,
         SetStatusFrom, Reread, PublishStatusChanged, LoseStatusChanged, Crash,
         historyVars
    <3>2. pc'[w] # "record"
      BY <2>4 DEF ReceiveJobCreated, GetJob, ClaimJob, RereadClaimed,
         SetStatusFrom, Reread, PublishStatusChanged, LoseStatusChanged, Crash,
         Goes, Ends, TypeOK
    <3>3. \A v \in Workers \ {w} :
            UNCHANGED <<pc[v], subject[v], outcome[v]>>
      BY <2>4, OneWorkerMoves DEF WorkerStep
    <3>4. \A j \in Jobs : status'[j] \in Outcomes => status'[j] = status[j]
      BY <2>4 DEF ReceiveJobCreated, GetJob, ClaimJob, RereadClaimed,
         SetStatusFrom, Reread, PublishStatusChanged, LoseStatusChanged, Crash,
         Outcomes, TypeOK
    <3>. QED BY <3>1, <3>2, <3>3, <3>4, ResultStable
  <2>5. CASE UNCHANGED vars
    BY <2>5, ResultStable DEF vars
  <2>. QED
    BY <2>1, <2>2, <2>3, <2>4, <2>5 DEF Next, WorkerStep
<1>3. TypeOK /\ OnceInv /\ [Next]_vars => OnceInv'
  BY OnceInductive
<1>4. ResultInv => OutcomeIsOfRun
  BY DEF ResultInv
<1>. QED
  BY <1>1, <1>2, <1>3, <1>4, TypeCorrect, PTL DEF Spec

-----------------------------------------------------------------------------
(***************************************************************************)
(* What a step does to the status of the jobs: the abstract life cycle.    *)
(***************************************************************************)

\* Every step of the system is a step of the life cycle, or none.
LEMMA StatusStep ==
  ASSUME Settable \subseteq {"dismissed"}, TypeOK, [Next]_vars
  PROVE  [Lifecycle!Next]_status
<1>1. CASE UNCHANGED status
  BY <1>1
<1>2. CASE DeleteProcess
  <2>1. PICK S \in SUBSET Jobs :
          S = {j \in Jobs : Present(j) /\ parent[j] = process}
    OBVIOUS
  <2>2. Lifecycle!Vanish(S)
    BY <1>2, <2>1 DEF DeleteProcess, Lifecycle!Vanish, Lifecycle!Live, Present,
       JobStatus
  <2>. QED BY <2>2 DEF Lifecycle!Next
<1>3. ASSUME NEW j \in Jobs, InsertJob(j) PROVE [Lifecycle!Next]_status
  <2>1. UNCHANGED status \/ Lifecycle!Accept(j)
    BY <1>3 DEF InsertJob, JobsUntouched, Lifecycle!Accept, Lifecycle!Move
  <2>. QED BY <2>1 DEF Lifecycle!Next
<1>4. ASSUME NEW j \in Jobs, DeleteJob(j) PROVE [Lifecycle!Next]_status
  <2>1. Lifecycle!Vanish({j})
    BY <1>4 DEF DeleteJob, Lifecycle!Vanish, Lifecycle!Live, Present,
       JobStatus, TypeOK
  <2>2. {j} \in SUBSET Jobs
    OBVIOUS
  <2>. QED BY <2>1, <2>2 DEF Lifecycle!Next
<1>5. ASSUME NEW j \in Jobs, NEW s \in Settable, SetJobStatus(j, s)
      PROVE  [Lifecycle!Next]_status
  <2>1. Lifecycle!Dismiss(j)
    BY <1>5 DEF SetJobStatus, Lifecycle!Dismiss, Lifecycle!Live, Present, JobStatus
  <2>. QED BY <2>1 DEF Lifecycle!Next
<1>6. ASSUME NEW w \in Workers, ClaimJob(w) \/ RecordOutcome(w)
      PROVE  [Lifecycle!Next]_status
  <2>1. subject[w] \in Jobs
    BY <1>6 DEF ClaimJob, RecordOutcome, SetStatusFrom, TypeOK
  <2>2. outcome[w] = "successful" \/ outcome[w] = "failed"
    BY DEF TypeOK, Outcomes
  <2>3. \/ UNCHANGED status
        \/ Lifecycle!Start(subject[w])
        \/ Lifecycle!Finish(subject[w])
    BY <1>6, <2>2 DEF ClaimJob, RecordOutcome, SetStatusFrom, Lifecycle!Start,
       Lifecycle!Finish, Lifecycle!Move
  <2>. QED BY <2>1, <2>3 DEF Lifecycle!Next
<1>7. ASSUME NEW w \in Workers,
             WorkerStep(w) \/ LoseStatusChanged(w) \/ Crash(w)
      PROVE  UNCHANGED status \/ ClaimJob(w) \/ RecordOutcome(w)
  BY <1>7 DEF WorkerStep, ReceiveJobCreated, GetJob, RereadClaimed, RunJob,
     Reread, PublishStatusChanged, LoseStatusChanged, Crash
<1>8. ASSUME \/ InsertProcess \/ ChangeDeployment
             \/ \E j \in Jobs : \/ CheckProcess(j) \/ PublishJobCreated(j)
                                \/ DuplicateJobCreated(j) \/ LoseJobCreated(j)
             \/ UNCHANGED vars
      PROVE  UNCHANGED status
  BY <1>8 DEF InsertProcess, ChangeDeployment, CheckProcess,
     PublishJobCreated, DuplicateJobCreated, LoseJobCreated, JobsUntouched, vars
<1>. QED
  BY <1>1, <1>2, <1>3, <1>4, <1>5, <1>6, <1>7, <1>8 DEF Next

\* The workers implement the safety part of the life cycle, under every fault.
THEOREM LifecycleSafety ==
  ASSUME Settable \subseteq {"dismissed"}
  PROVE  Spec => Lifecycle!Safety
<1>1. Init => Lifecycle!Init
  BY DEF Init, Lifecycle!Init
<1>2. TypeOK /\ [Next]_vars => [Lifecycle!Next]_status
  BY StatusStep
<1>. QED
  BY <1>1, <1>2, TypeCorrect, PTL DEF Spec, Lifecycle!Safety

\* No worker replaces a final status: neither a late outcome nor a repeated
\* event undoes an outcome or a dismissal.
THEOREM FinalKept ==
  ASSUME Settable \subseteq {"dismissed"}
  PROVE  Spec => FinalStatusKept
<1> DEFINE Kept ==
      \A j \in Jobs :
        /\ status[j] \in Outcomes => status'[j] \in {status[j], "dismissed", "gone"}
        /\ status[j] = "dismissed" => status'[j] \in {"dismissed", "gone"}
<1>1. TypeOK /\ [Next]_vars => [Kept]_vars
  <2> SUFFICES ASSUME TypeOK, [Next]_vars PROVE Kept
    OBVIOUS
  <2>1. [Lifecycle!Next]_status
    BY StatusStep
  <2>. QED
    BY <2>1 DEF Lifecycle!Next, Lifecycle!Accept, Lifecycle!Start,
       Lifecycle!Finish, Lifecycle!Move, Lifecycle!Dismiss, Lifecycle!Vanish,
       Outcomes, TypeOK
<1>. QED
  BY <1>1, TypeCorrect, PTL DEF Spec, FinalStatusKept

-----------------------------------------------------------------------------
(***************************************************************************)
(* Jobs and their process.                                                 *)
(***************************************************************************)

\* What create_job found deployed had been deployed; the rows that ever were
\* deployed have ids that the sequence gave out.
DeployedOnce ==
  /\ deployed => process \in everDeployed
  /\ 0 \notin everDeployed
  /\ \A j \in Jobs : checked[j] # 0 => checked[j] \in everDeployed

BelongInv == DeployedOnce /\ JobsBelong

\* Every job belongs to the process row that is there, which was deployed:
\* the check that create_job makes in an earlier transaction is not undone by
\* deleting the process, or by creating another one with its identifier.
THEOREM JobsBelongToProcess == Spec => []JobsBelong
<1>1. Init => BelongInv
  BY DEF Init, BelongInv, DeployedOnce, JobsBelong, Present, JobStatus
<1>2. TypeOK /\ BelongInv /\ [Next]_vars => BelongInv'
  <2> SUFFICES ASSUME TypeOK, BelongInv, [Next]_vars PROVE BelongInv'
    OBVIOUS
  <2>1. CASE InsertProcess
    <3>1. /\ process = 0 /\ ~deployed
          /\ UNCHANGED <<deployed, everDeployed, checked, status, parent>>
      BY <2>1, ElsewhereFacts
         DEF InsertProcess, JobsUntouched, BelongInv, DeployedOnce
    <3>2. \A j \in Jobs : ~Present(j)
      BY <3>1 DEF BelongInv, DeployedOnce, JobsBelong
    <3>. QED
      BY <3>1, <3>2 DEF BelongInv, DeployedOnce, JobsBelong, Present
  <2>2. CASE ChangeDeployment
    <3>1. /\ UNCHANGED <<process, checked, status, parent>>
          /\ process # 0
          /\ everDeployed' = IF deployed' THEN everDeployed \cup {process}
                                          ELSE everDeployed
      BY <2>2, ElsewhereFacts DEF ChangeDeployment, JobsUntouched
    <3>. QED
      BY <3>1 DEF BelongInv, DeployedOnce, JobsBelong, Present
  <2>3. CASE DeleteProcess
    <3>1. /\ ~deployed' /\ UNCHANGED <<everDeployed, checked>>
      BY <2>3, ElsewhereFacts DEF DeleteProcess
    <3>2. \A j \in Jobs : ~Present(j)'
      BY <2>3 DEF DeleteProcess, BelongInv, JobsBelong, Present, JobStatus, TypeOK
    <3>. QED
      BY <3>1, <3>2 DEF BelongInv, DeployedOnce, JobsBelong
  <2>4. ASSUME NEW j \in Jobs, CheckProcess(j) PROVE BelongInv'
    BY <2>4 DEF CheckProcess, JobsUntouched, processVars, BelongInv,
       DeployedOnce, JobsBelong, Present, TypeOK
  <2>5. ASSUME NEW j \in Jobs, InsertJob(j) PROVE BelongInv'
    <3>1. UNCHANGED <<process, deployed, everDeployed>>
      BY <2>5 DEF InsertJob, processVars
    <3>2. \A i \in Jobs : checked'[i] # 0 => checked[i] # 0 /\ checked'[i] = checked[i]
      BY <2>5 DEF InsertJob, TypeOK
    <3>3. \A i \in Jobs : Present(i)' =>
            \/ Present(i) /\ parent'[i] = parent[i]
            \/ parent'[i] = process /\ checked[i] = process /\ checked[i] # 0
      BY <2>5 DEF InsertJob, JobsUntouched, Present, TypeOK
    <3>. QED
      BY <3>1, <3>2, <3>3 DEF BelongInv, DeployedOnce, JobsBelong
  <2>6. ASSUME NEW j \in Jobs,
               DeleteJob(j) \/ \E s \in Settable : SetJobStatus(j, s)
        PROVE  BelongInv'
    <3>1. UNCHANGED <<process, deployed, everDeployed, checked, parent>>
      BY <2>6, ElsewhereFacts DEF DeleteJob, SetJobStatus, processVars
    <3>2. \A i \in Jobs : Present(i)' => Present(i)
      BY <2>6 DEF DeleteJob, SetJobStatus, Present, TypeOK
    <3>. QED
      BY <3>1, <3>2 DEF BelongInv, DeployedOnce, JobsBelong
  <2>7. ASSUME \/ \E j \in Jobs : \/ PublishJobCreated(j) \/ LoseJobCreated(j)
                                  \/ DuplicateJobCreated(j)
               \/ \E w \in Workers : \/ WorkerStep(w) \/ LoseStatusChanged(w)
                                     \/ Crash(w)
               \/ UNCHANGED vars
        PROVE  BelongInv'
    <3>1. UNCHANGED <<process, deployed, everDeployed, checked, parent>>
      <4>1. ASSUME NEW j \in Jobs, PublishJobCreated(j) \/ LoseJobCreated(j)
            PROVE  UNCHANGED <<process, deployed, everDeployed, checked, parent>>
        BY <4>1 DEF PublishJobCreated, LoseJobCreated, JobsUntouched, processVars
      <4>2. ASSUME NEW w \in Workers,
                   \/ WorkerStep(w) \/ LoseStatusChanged(w) \/ Crash(w)
            PROVE  OutsideUntouched
        BY <4>2 DEF WorkerStep, ReceiveJobCreated, GetJob, ClaimJob,
           RereadClaimed, RunJob, RecordOutcome, SetStatusFrom, Reread,
           PublishStatusChanged, LoseStatusChanged, Crash
      <4>3. ASSUME NEW j \in Jobs, DuplicateJobCreated(j) PROVE OutsideUntouched
        BY <4>3 DEF DuplicateJobCreated
      <4>4. CASE UNCHANGED vars
        BY <4>4 DEF vars
      <4>. QED BY <2>7, <4>1, <4>2, <4>3, <4>4, OutsideFacts
    <3>2. \A i \in Jobs : Present(i)' => Present(i)
      <4>1. CASE UNCHANGED status
        BY <4>1 DEF Present
      <4>2. ASSUME NEW w \in Workers, ClaimJob(w) \/ RecordOutcome(w)
            PROVE  \A i \in Jobs : Present(i)' => Present(i)
        BY <4>2 DEF ClaimJob, RecordOutcome, SetStatusFrom, Present, JobStatus,
           TypeOK
      <4>. QED
        BY <2>7, <4>1, <4>2 DEF PublishJobCreated, LoseJobCreated,
           DuplicateJobCreated, JobsUntouched, WorkerStep, ReceiveJobCreated,
           GetJob, RereadClaimed, RunJob, Reread, PublishStatusChanged,
           LoseStatusChanged, Crash, vars
    <3>. QED
      BY <3>1, <3>2 DEF BelongInv, DeployedOnce, JobsBelong
  <2>. QED
    BY <2>1, <2>2, <2>3, <2>4, <2>5, <2>6, <2>7 DEF Next
<1>. QED
  BY <1>1, <1>2, TypeCorrect, PTL DEF Spec, BelongInv

-----------------------------------------------------------------------------
(***************************************************************************)
(* No accepted job is forgotten, when nothing worse than a repeated event  *)
(* happens.                                                                *)
(***************************************************************************)

\* The worker was told of the job and is yet to look whether it is accepted.
AboutToClaim(w, j) == subject[w] = j /\ pc[w] \in {"get", "claim"}

Awaited(j) ==
  j \in owed \/ queue[j] > 0 \/ \E w \in Workers : AboutToClaim(w, j)

\* While a job is accepted, its event is to be published or received, or a
\* worker is on its way to claim it.
THEOREM AcceptedAwaited ==
  ASSUME Faults \subseteq {"duplicate"}, "accepted" \notin Settable
  PROVE  Spec => []AcceptedIsAwaited
<1>1. Init => AcceptedIsAwaited
  BY DEF Init, AcceptedIsAwaited
<1>2. TypeOK /\ AcceptedIsAwaited /\ [Next]_vars => AcceptedIsAwaited'
  <2> SUFFICES ASSUME TypeOK, AcceptedIsAwaited, [Next]_vars,
                      NEW j \in Jobs, status'[j] = "accepted"
               PROVE  Awaited(j)'
    BY DEF AcceptedIsAwaited, Awaited, AboutToClaim
  <2>1. status[j] = "accepted" => Awaited(j)
    BY DEF AcceptedIsAwaited, Awaited, AboutToClaim
  <2>2. ASSUME status[j] = "accepted", owed \subseteq owed', queue'[j] = queue[j],
               UNCHANGED <<pc, subject>>
        PROVE  Awaited(j)'
    BY <2>1, <2>2 DEF Awaited, AboutToClaim
  <2>3. CASE InsertProcess \/ ChangeDeployment \/ DeleteProcess
    <3>1. status[j] = "accepted"
      BY <2>3 DEF InsertProcess, ChangeDeployment, DeleteProcess,
           JobsUntouched, TypeOK
    <3>2. ElsewhereUntouched
      BY <2>3 DEF InsertProcess, ChangeDeployment, DeleteProcess
    <3>. QED BY <2>2, <3>1, <3>2, ElsewhereFacts
  <2>4. ASSUME NEW i \in Jobs,
               DeleteJob(i) \/ \E s \in Settable : SetJobStatus(i, s)
        PROVE  Awaited(j)'
    <3>1. status[j] = "accepted"
      BY <2>4 DEF DeleteJob, SetJobStatus, TypeOK
    <3>2. ElsewhereUntouched
      BY <2>4 DEF DeleteJob, SetJobStatus
    <3>. QED BY <2>2, <3>1, <3>2, ElsewhereFacts
  <2>5. ASSUME NEW i \in Jobs, CheckProcess(i) \/ InsertJob(i)
        PROVE  Awaited(j)'
    <3>1. UNCHANGED <<queue, pc, subject>> /\ owed \subseteq owed'
      BY <2>5 DEF CheckProcess, InsertJob, workerVars
    <3>2. status[j] = "accepted" \/ j \in owed'
      BY <2>5 DEF CheckProcess, InsertJob, JobsUntouched, TypeOK
    <3>. QED BY <2>2, <3>1, <3>2 DEF Awaited
  <2>6. ASSUME NEW i \in Jobs, PublishJobCreated(i) \/ DuplicateJobCreated(i)
        PROVE  Awaited(j)'
    <3>1. /\ UNCHANGED <<status, pc, subject>>
          /\ queue' = [queue EXCEPT ![i] = @ + 1]
          /\ owed' = owed \ {i} \/ UNCHANGED owed
      BY <2>6 DEF PublishJobCreated, DuplicateJobCreated, JobsUntouched,
           OutsideUntouched, requestVars, workerVars
    <3>2. CASE i = j
      <4>1. queue'[j] > 0
        BY <3>1, <3>2 DEF TypeOK
      <4>. QED BY <4>1 DEF Awaited
    <3>3. CASE i # j
      <4>1. queue'[j] = queue[j] /\ (j \in owed => j \in owed')
        BY <3>1, <3>3 DEF TypeOK
      <4>. QED BY <2>1, <3>1, <4>1 DEF Awaited, AboutToClaim
    <3>. QED BY <3>2, <3>3
  <2>7. ASSUME NEW w \in Workers, NEW i \in Jobs, ReceiveJobCreated(w, i)
        PROVE  Awaited(j)'
    <3>1. /\ UNCHANGED <<status, owed>>
          /\ pc[w] = "idle"
          /\ pc' = [pc EXCEPT ![w] = "get"]
          /\ subject' = [subject EXCEPT ![w] = i]
          /\ queue' = [queue EXCEPT ![i] = @ - 1]
      BY <2>7, OutsideFacts DEF ReceiveJobCreated, Goes
    <3>2. CASE i = j
      <4>1. AboutToClaim(w, j)'
        BY <3>1, <3>2 DEF AboutToClaim, TypeOK
      <4>. QED BY <4>1 DEF Awaited
    <3>3. CASE i # j
      <4>1. queue'[j] = queue[j]
        BY <3>1, <3>3 DEF TypeOK
      <4>2. \A v \in Workers : AboutToClaim(v, j) => AboutToClaim(v, j)'
        BY <3>1 DEF AboutToClaim, TypeOK
      <4>. QED BY <2>1, <3>1, <4>1, <4>2 DEF Awaited
    <3>. QED BY <3>2, <3>3
  <2>8. ASSUME NEW w \in Workers,
               \/ GetJob(w) \/ ClaimJob(w) \/ RereadClaimed(w) \/ RunJob(w)
               \/ RecordOutcome(w) \/ Reread(w) \/ PublishStatusChanged(w)
        PROVE  Awaited(j)'
    <3>1. UNCHANGED <<owed, queue>>
      BY <2>8, OutsideFacts DEF GetJob, ClaimJob, RereadClaimed, RunJob,
         RecordOutcome, SetStatusFrom, Reread, PublishStatusChanged
    <3>2. status[j] = "accepted"
      BY <2>8 DEF GetJob, ClaimJob, RereadClaimed, RunJob, RecordOutcome,
         SetStatusFrom, Reread, PublishStatusChanged, Outcomes, TypeOK
    <3>3. \A v \in Workers \ {w} : AboutToClaim(v, j)' <=> AboutToClaim(v, j)
      BY <2>8, OneWorkerMoves DEF WorkerStep, AboutToClaim
    <3>4. AboutToClaim(w, j) => AboutToClaim(w, j)'
      <4>1. CASE GetJob(w)
        BY <3>2, <4>1 DEF GetJob, Goes, Ends, Present, JobStatus, AboutToClaim,
           TypeOK
      <4>2. CASE ClaimJob(w)
        BY <3>2, <4>2 DEF ClaimJob, SetStatusFrom, Goes, AboutToClaim, TypeOK
      <4>3. CASE \/ RereadClaimed(w) \/ RunJob(w) \/ RecordOutcome(w)
                 \/ Reread(w) \/ PublishStatusChanged(w)
        BY <4>3 DEF RereadClaimed, RunJob, RecordOutcome, SetStatusFrom,
           Reread, PublishStatusChanged, Goes, Ends, AboutToClaim
      <4>. QED BY <2>8, <4>1, <4>2, <4>3
    <3>. QED BY <2>1, <3>1, <3>2, <3>3, <3>4 DEF Awaited
  <2>9. ASSUME \/ \E i \in Jobs : LoseJobCreated(i)
               \/ \E w \in Workers : LoseStatusChanged(w) \/ Crash(w)
        PROVE  FALSE
    BY <2>9 DEF LoseJobCreated, LoseStatusChanged, Crash, Fault
  <2>10. CASE UNCHANGED vars
    BY <2>2, <2>10 DEF vars
  <2>. QED
    BY <2>3, <2>4, <2>5, <2>6, <2>7, <2>8, <2>9, <2>10 DEF Next, WorkerStep
<1>. QED
  BY <1>1, <1>2, TypeCorrect, PTL DEF Spec

-----------------------------------------------------------------------------
(***************************************************************************)
(* No recorded outcome stays untold, when nothing worse than a repeated    *)
(* event happens.  The announcement compares the status read first with    *)
(* the one read last: whoever claims a job had read it as accepted, so the *)
(* outcome it records always differs from what it compares with.           *)
(***************************************************************************)

\* What a worker has read of its job, as long as it may still record an
\* outcome of it.
SeenInv ==
  \A w \in Workers :
    /\ pc[w] = "claim" =>
         /\ status[subject[w]] # "none"
         /\ status[subject[w]] = "accepted" => seen[w] = "accepted"
    /\ pc[w] \in {"reread_claimed", "run", "record"} => seen[w] = "accepted"

\* No job returns to a status before its own, and none ends but from running.
LEMMA StatusMoves ==
  ASSUME Settable \subseteq {"dismissed"}, TypeOK, [Next]_vars, NEW j \in Jobs
  PROVE  /\ status[j] # "none" => status'[j] # "none"
         /\ status[j] # "none" /\ status'[j] = "accepted" => status[j] = "accepted"
<1>1. [Lifecycle!Next]_status
  BY StatusStep
<1>. QED
  BY <1>1 DEF Lifecycle!Next, Lifecycle!Accept, Lifecycle!Start,
     Lifecycle!Finish, Lifecycle!Move, Lifecycle!Dismiss, Lifecycle!Vanish,
     Lifecycle!Live, TypeOK

LEMMA SeenInductive ==
  ASSUME Settable \subseteq {"dismissed"}, TypeOK, SeenInv, [Next]_vars
  PROVE  SeenInv'
<1>1. ASSUME NEW w \in Workers, UNCHANGED <<pc[w], subject[w], seen[w]>>
      PROVE  /\ pc'[w] = "claim" =>
                  /\ status'[subject'[w]] # "none"
                  /\ status'[subject'[w]] = "accepted" => seen'[w] = "accepted"
             /\ pc'[w] \in {"reread_claimed", "run", "record"} => seen'[w] = "accepted"
  <2>1. pc[w] = "claim" => subject[w] \in Jobs
    BY DEF TypeOK
  <2>. QED BY <1>1, <2>1, StatusMoves DEF SeenInv
<1>2. CASE UNCHANGED <<pc, subject, seen>>
  BY <1>1, <1>2 DEF SeenInv
<1>3. ASSUME NEW w \in Workers,
             WorkerStep(w) \/ LoseStatusChanged(w) \/ Crash(w)
      PROVE  SeenInv'
  <2>1. \A v \in Workers \ {w} : UNCHANGED <<pc[v], subject[v], seen[v]>>
    BY <1>3, OneWorkerMoves
  <2>2. /\ pc'[w] = "claim" =>
             /\ status'[subject'[w]] # "none"
             /\ status'[subject'[w]] = "accepted" => seen'[w] = "accepted"
        /\ pc'[w] \in {"reread_claimed", "run", "record"} => seen'[w] = "accepted"
    <3>1. CASE GetJob(w)
      BY <3>1 DEF GetJob, Goes, Ends, Present, JobStatus, TypeOK
    <3>2. CASE ClaimJob(w)
      BY <3>2 DEF ClaimJob, SetStatusFrom, Goes, SeenInv, TypeOK
    <3>3. CASE RereadClaimed(w) \/ RunJob(w)
      BY <3>3 DEF RereadClaimed, RunJob, Goes, Ends, SeenInv, TypeOK
    <3>4. CASE \/ \E j \in Jobs : ReceiveJobCreated(w, j)
               \/ RecordOutcome(w) \/ Reread(w) \/ PublishStatusChanged(w)
               \/ LoseStatusChanged(w) \/ Crash(w)
      BY <3>4 DEF ReceiveJobCreated, RecordOutcome, SetStatusFrom, Reread,
         PublishStatusChanged, LoseStatusChanged, Crash, Goes, Ends, TypeOK
    <3>. QED BY <1>3, <3>1, <3>2, <3>3, <3>4 DEF WorkerStep
  <2>. QED BY <1>1, <2>1, <2>2 DEF SeenInv
<1>4. CASE \/ InsertProcess \/ ChangeDeployment \/ DeleteProcess
           \/ \E j \in Jobs : \/ CheckProcess(j) \/ InsertJob(j)
                              \/ PublishJobCreated(j) \/ DeleteJob(j)
                              \/ \E s \in Settable : SetJobStatus(j, s)
                              \/ DuplicateJobCreated(j) \/ LoseJobCreated(j)
           \/ UNCHANGED vars
  BY <1>2, <1>4, ClientsAndUnclaimed DEF vars
<1>. QED
  BY <1>3, <1>4 DEF Next

\* The worker that is still to announce the outcome of the job.
Announcing(w, j) ==
  /\ subject[w] = j
  /\ seen[w] # status[j]
  /\ \/ pc[w] = "reread"
     \/ pc[w] = "publish" /\ executed[w] = status[j]

\* Every outcome that is recorded has been announced by a status_changed
\* event, or its worker is on its way to announce it: neither a repeated
\* event nor another worker makes the announcement disappear.
THEOREM OutcomesAnnounced ==
  ASSUME Settable \subseteq {"dismissed"}, Faults \subseteq {"duplicate"}
  PROVE  Spec => []OutcomeAnnounced
<1>1. Init => SeenInv /\ OutcomeAnnounced
  BY DEF Init, SeenInv, OutcomeAnnounced, Outcomes
<1>2. TypeOK /\ SeenInv /\ [Next]_vars => SeenInv'
  BY SeenInductive
<1>3. TypeOK /\ SeenInv /\ OutcomeAnnounced /\ [Next]_vars => OutcomeAnnounced'
  <2> SUFFICES ASSUME TypeOK, SeenInv, OutcomeAnnounced, [Next]_vars,
                      NEW j \in Jobs, status'[j] \in Outcomes
               PROVE  status'[j] \in announced'[j] \/ \E w \in Workers : Announcing(w, j)'
    BY DEF OutcomeAnnounced, Announcing
  <2>1. status[j] \in Outcomes =>
          status[j] \in announced[j] \/ \E w \in Workers : Announcing(w, j)
    BY DEF OutcomeAnnounced, Announcing
  <2>2. CASE \/ InsertProcess \/ ChangeDeployment \/ DeleteProcess
             \/ \E i \in Jobs : \/ CheckProcess(i) \/ InsertJob(i)
                                \/ PublishJobCreated(i) \/ DeleteJob(i)
                                \/ \E s \in Settable : SetJobStatus(i, s)
                                \/ DuplicateJobCreated(i) \/ LoseJobCreated(i)
    <3>1. UNCHANGED <<pc, subject, seen, executed, announced>>
      BY <2>2, ClientsAndUnclaimed
    <3>2. status'[j] = status[j]
      BY <2>2 DEF InsertProcess, ChangeDeployment, DeleteProcess, CheckProcess,
         InsertJob, PublishJobCreated, DeleteJob, SetJobStatus,
         DuplicateJobCreated, LoseJobCreated, JobsUntouched, Outcomes, TypeOK
    <3>. QED BY <2>1, <3>1, <3>2 DEF Announcing
  <2>3. ASSUME NEW w \in Workers, RecordOutcome(w)
        PROVE  status'[j] \in announced'[j] \/ \E v \in Workers : Announcing(v, j)'
    <3>1. /\ pc[w] = "record" /\ subject[w] \in Jobs /\ seen[w] = "accepted"
          /\ pc' = [pc EXCEPT ![w] = "reread"]
          /\ UNCHANGED <<subject, seen, executed, announced>>
      BY <2>3 DEF RecordOutcome, SetStatusFrom, Goes, historyVars, SeenInv, TypeOK
    <3>2. CASE status'[j] = status[j]
      <4>1. \A v \in Workers : Announcing(v, j) => Announcing(v, j)'
        BY <3>1, <3>2 DEF Announcing, TypeOK
      <4>. QED BY <2>1, <3>1, <3>2, <4>1
    <3>3. CASE status'[j] # status[j]
      <4>1. subject[w] = j
        BY <2>3, <3>3 DEF RecordOutcome, SetStatusFrom, TypeOK
      <4>2. Announcing(w, j)'
        BY <3>1, <4>1 DEF Announcing, Outcomes, TypeOK
      <4>. QED BY <4>2
    <3>. QED BY <3>2, <3>3
  <2>4. ASSUME NEW w \in Workers,
               \/ \E i \in Jobs : ReceiveJobCreated(w, i)
               \/ GetJob(w) \/ ClaimJob(w) \/ RereadClaimed(w) \/ RunJob(w)
               \/ Reread(w) \/ PublishStatusChanged(w)
        PROVE  status'[j] \in announced'[j] \/ \E v \in Workers : Announcing(v, j)'
    <3>1. status'[j] = status[j]
      BY <2>4 DEF ReceiveJobCreated, GetJob, ClaimJob, RereadClaimed, RunJob,
         SetStatusFrom, Reread, PublishStatusChanged, Outcomes, TypeOK
    <3>2. \A v \in Workers \ {w} : Announcing(v, j) => Announcing(v, j)'
      BY <2>4, <3>1, OneWorkerMoves DEF WorkerStep, Announcing
    <3>3. status[j] \in announced[j] => status[j] \in announced'[j]
      BY <2>4 DEF ReceiveJobCreated, GetJob, ClaimJob, RereadClaimed, RunJob,
         SetStatusFrom, Reread, PublishStatusChanged, historyVars, TypeOK
    <3>4. Announcing(w, j) => Announcing(w, j)' \/ status[j] \in announced'[j]
      <4> SUFFICES ASSUME Announcing(w, j)
                   PROVE  Announcing(w, j)' \/ status[j] \in announced'[j]
        OBVIOUS
      <4>1. Reread(w) \/ PublishStatusChanged(w)
        BY <2>4 DEF Announcing, ReceiveJobCreated, GetJob, ClaimJob,
           RereadClaimed, RunJob, SetStatusFrom, Goes
      <4>2. CASE Reread(w)
        <5>1. Present(subject[w]) /\ subject[w] = j
          BY <3>1 DEF Announcing, Present, Outcomes, JobStatus
        <5>2. /\ pc' = [pc EXCEPT ![w] = "publish"]
              /\ executed' = [executed EXCEPT ![w] = status[j]]
              /\ UNCHANGED <<subject, seen>>
          BY <4>2, <5>1 DEF Reread, Goes
        <5>. QED BY <3>1, <5>1, <5>2 DEF Announcing, TypeOK
      <4>3. CASE PublishStatusChanged(w)
        <5>1. executed[w] = status[j] /\ seen[w] # executed[w] /\ subject[w] = j
          BY <4>3 DEF Announcing, PublishStatusChanged, Ends, Goes
        <5>. QED BY <4>3, <5>1 DEF PublishStatusChanged, TypeOK
      <4>. QED BY <4>1, <4>2, <4>3
    <3>. QED BY <2>1, <3>1, <3>2, <3>3, <3>4
  <2>5. ASSUME \E w \in Workers : LoseStatusChanged(w) \/ Crash(w)
        PROVE  FALSE
    BY <2>5 DEF LoseStatusChanged, Crash, Fault
  <2>6. CASE UNCHANGED vars
    BY <2>1, <2>6 DEF vars, Announcing
  <2>. QED
    BY <2>2, <2>3, <2>4, <2>5, <2>6 DEF Next, WorkerStep
<1>. QED
  BY <1>1, <1>2, <1>3, TypeCorrect, PTL DEF Spec

=============================================================================
