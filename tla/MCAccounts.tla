----------------------------- MODULE MCAccounts -----------------------------
EXTENDS Accounts

\* The two subjects ask for one user name.
MCNames == [s \in Subjects |-> 1]
MCRoles == [s \in Subjects |-> IF s = "s1" THEN {{"admin"}} ELSE {{"stranger"}}]
MCLives == [s \in Subjects |-> IF s = "s1" THEN 4 ELSE 3]
\* The program's own tokens need an account, created by an edit.
MCActs == [m \in Modes |-> IF m = "local" THEN 4 ELSE 3]
MCClients == Permutations(Clients)
=============================================================================
