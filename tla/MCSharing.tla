----------------------------- MODULE MCSharing -----------------------------
(***************************************************************************)
(* Small instances of Sharing for TLC.                                     *)
(***************************************************************************)
EXTENDS Sharing, TLC

CONSTANTS u1, u2, c1, p1, j1, q1, q2, q3

TwoUsers == {u1, u2}
OneCollection == {c1}
NoCollections == {}
OneProcess == {p1}
OneJob == {j1}
ThreeRequests == {q1, q2, q3}

\* What an administrator may write: another administrator, or direct roles on
\* a job and a process.
SomeScopes == {{Admin}, {Viewer(j1), Editor(p1)}}
OnlyAdmin == {{Admin}}

\* Requests are interchangeable, and so are accounts.
Symmetry == Permutations(Requests) \cup Permutations(Users)

=============================================================================
