----------------------- MODULE DeploymentReconciler -----------------------
(***************************************************************************)
(* What potto promises about the deployment of a process, without events,  *)
(* workers or transactions: a controller that watches the process all the  *)
(* time, begins a deployment whenever the recorded outcome is not that of  *)
(* the current definition, and finishes every deployment it begins.        *)
(***************************************************************************)
CONSTANTS
  Definitions,
  NoDefinition

VARIABLES
  definition,  \* definition of the process; NoDefinition when there is none
  value,       \* value of its deployment status
  hash         \* definition that the status was recorded for

vars == <<definition, value, hash>>

Present == definition # NoDefinition

Outdated == Present /\ ~(hash = definition /\ value \in {"deployed", "failed"})

Init ==
  /\ definition = NoDefinition
  /\ value = "failed"
  /\ hash = NoDefinition

\* A new definition, for a new process or an existing one.
Write ==
  /\ definition' \in Definitions
  /\ UNCHANGED <<value, hash>>

Remove ==
  /\ definition' = NoDefinition
  /\ value' = "failed"
  /\ hash' = NoDefinition

Begin ==
  /\ Present
  /\ value # "in-progress"
  /\ value' = "in-progress"
  /\ hash' \in Definitions
  /\ UNCHANGED definition

Finish ==
  /\ value = "in-progress"
  /\ value' \in {"deployed", "failed"}
  /\ hash' \in Definitions
  /\ UNCHANGED definition

Next == Write \/ Remove \/ Begin \/ Finish

Safety == Init /\ [][Next]_vars

\* What is outdated does not wait forever, nor does a deployment last forever.
Progress == WF_vars(Outdated /\ Begin) /\ WF_vars(Finish)

Spec == Safety /\ Progress

=============================================================================
