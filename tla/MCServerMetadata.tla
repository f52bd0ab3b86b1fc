-------------------------- MODULE MCServerMetadata --------------------------
EXTENDS ServerMetadata, TLC

MCTargets == {0, 2, 5, Newest}
MCSymmetry == Permutations(Migrators) \cup Permutations(Sessions)
=============================================================================
