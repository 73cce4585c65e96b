-------------------------- MODULE MCTrainingManager -------------------------
EXTENDS TrainingManager, TLC
CONSTANTS m1, m2, p1, p2, r1, r2
TwoManagers == {m1, m2}
TwoClis == {p1, p2}
TwoRecords == {r1, r2}
TwoBuilds == (m1 :> "old") @@ (m2 :> "new")
Symmetry == Permutations(TwoClis) \cup Permutations(TwoRecords)
=============================================================================
