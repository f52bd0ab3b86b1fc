---------------------------- MODULE JobLifecycle ----------------------------
(***************************************************************************)
(* What potto promises about jobs, without events, workers or processes:   *)
(* an accepted job is started, a running one ends with an outcome, and a   *)
(* job can be dismissed or disappear at any time.                          *)
(***************************************************************************)
CONSTANT Jobs

VARIABLE status  \* status of each job: "none" before it is created

Live == {"accepted", "running", "successful", "failed", "dismissed"}

Init == status = [j \in Jobs |-> "none"]

\* Some of the jobs in a given status move on to another one.
Move(j, from, to) ==
  /\ status[j] = from
  /\ status' = [status EXCEPT ![j] = to]

Accept(j) == Move(j, "none", "accepted")
Start(j)  == Move(j, "accepted", "running")
Finish(j) == Move(j, "running", "successful") \/ Move(j, "running", "failed")

Dismiss(j) ==
  /\ status[j] \in Live
  /\ status' = [status EXCEPT ![j] = "dismissed"]

\* Jobs are deleted one by one, or all together with their process.
Vanish(S) ==
  /\ \A j \in S : status[j] \in Live
  /\ status' = [j \in Jobs |-> IF j \in S THEN "gone" ELSE status[j]]

Next ==
  \/ \E j \in Jobs : Accept(j) \/ Start(j) \/ Finish(j) \/ Dismiss(j)
  \/ \E S \in SUBSET Jobs : Vanish(S)

Safety == Init /\ [][Next]_status

\* An accepted job does not wait forever, nor does a running one run forever.
Progress == \A j \in Jobs : WF_status(Start(j)) /\ WF_status(Finish(j))

Spec == Safety /\ Progress

=============================================================================
