------------------------------ MODULE MCErNet ------------------------------
(* Small instances of ErNet for TLC.                                       *)
EXTENDS ErNet, TLC

CONSTANTS c1, c2, w1, w2

OneClient  == {c1}
TwoClients == {c1, c2}
OneWorker  == {w1}
TwoWorkers == {w1, w2}

\* Workers run the same code; sound for what is checked state by state or step by
\* step, not for liveness.
WorkerSymmetry == Permutations(TwoWorkers)
=============================================================================
