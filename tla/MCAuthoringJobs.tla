--------------------------- MODULE MCAuthoringJobs ---------------------------
(***************************************************************************)
(* Small instances of AuthoringJobs for TLC.                               *)
(***************************************************************************)
EXTENDS AuthoringJobs, TLC

CONSTANTS j1, j2, j3, none, o1, o2, w1, w2

TwoJobs    == {j1, j2}
ThreeJobs  == {j1, j2, j3}
OneOwner   == {o1}
OneWorker  == {w1}
TwoWorkers == {w1, w2}

AllOfOne == [j \in Jobs |-> o1]

JobWorkerSymmetry == Permutations(Jobs) \cup Permutations(Workers)
=============================================================================
