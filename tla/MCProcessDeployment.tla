------------------------ MODULE MCProcessDeployment ------------------------
(***************************************************************************)
(* Small instances of ProcessDeployment for TLC.                           *)
(***************************************************************************)
EXTENDS ProcessDeployment, TLC

CONSTANTS w1, w2, w3, d1, d2, d3

TwoWorkers   == {w1, w2}
ThreeWorkers == {w1, w2, w3}
TwoDefinitions   == {d1, d2}
ThreeDefinitions == {d1, d2, d3}

NoFaults        == {}
DuplicatesOnly  == {"duplicate"}
CrashesOnly     == {"crash"}
AllFaults       == FaultKinds

\* Workers and definitions are interchangeable (used for safety runs only).
Symmetry == Permutations(Workers) \cup Permutations(Definitions)

=============================================================================
