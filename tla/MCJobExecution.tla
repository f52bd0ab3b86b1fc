--------------------------- MODULE MCJobExecution ---------------------------
(***************************************************************************)
(* Small instances of JobExecution for TLC.                                *)
(***************************************************************************)
EXTENDS JobExecution, TLC

CONSTANTS w1, w2, j1, j2

TwoWorkers == {w1, w2}
OneJob     == {j1}
TwoJobs    == {j1, j2}

OnlyDismissed == {"dismissed"}
NoStatus      == {}

NoFaults       == {}
DuplicatesOnly == {"duplicate"}
LossesOnly     == {"loss"}
AllFaults      == FaultKinds

\* Workers and jobs are interchangeable (used for safety runs only).
Symmetry == Permutations(Workers) \cup Permutations(Jobs)

=============================================================================
