-------------------------- MODULE MCTrainingCommits --------------------------
(* Small instances of TrainingCommits for TLC. *)
EXTENDS TrainingCommits

CONSTANTS c1, c2, s1, s2

TwoContexts == {c1, c2}
OneService == {s1}
TwoServices == {s1, s2}

=============================================================================
