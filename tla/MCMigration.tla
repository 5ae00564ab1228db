----------------------------- MODULE MCMigration -----------------------------
EXTENDS Migration, TLC

MCSeed == <<1, 2>>
MCV1Targets == {{1}, {1, 2}}
MCV2Targets == {{2}}
Symmetry == Permutations(Sessions)
=============================================================================
