--------------------------- MODULE MCEventBridge ---------------------------
(***************************************************************************)
(* Small instances of EventBridge for TLC.                                 *)
(***************************************************************************)
EXTENDS EventBridge, TLC

CONSTANTS u1, u2, u3, b1, b2, c1, c2

OneUser == {u1}
TwoUsers == {u1, u2}
ThreeUsers == {u1, u2, u3}
OneBridge == {b1}
TwoBridges == {b1, b2}
OneDeleter == {c1}
TwoDeleters == {c1, c2}

NoFaults == {}
DuplicatesOnly == {"duplicate"}
AllFaults == FaultKinds

\* Actors of a kind are interchangeable (used for safety runs only).
Symmetry == Permutations(Bridges) \cup Permutations(Deleters)
            \cup Permutations(Addressable)

=============================================================================
