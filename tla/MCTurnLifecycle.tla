--------------------------- MODULE MCTurnLifecycle ---------------------------
(***************************************************************************)
(* Small instances of TurnLifecycle for TLC.                               *)
(***************************************************************************)
EXTENDS TurnLifecycle, TLC

CONSTANTS r1, r2, r3, none, w1, w2, n1, n2

OneRequest    == {r1}
TwoRequests   == {r1, r2}
ThreeRequests == {r1, r2, r3}
OneResolver   == {w1}
TwoResolvers  == {w1, w2}
OneNarrator   == {n1}
TwoNarrators  == {n1, n2}

WorkerSymmetry == Permutations(Resolvers) \cup Permutations(Narrators)
=============================================================================
