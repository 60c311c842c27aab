---------------------------- MODULE MCOpsStream ------------------------------
(* Instances of OpsStream for TLC. Subscribers share nothing but the hub's    *)
(* map, so one of them meets every race there is.                             *)
EXTENDS OpsStream

CONSTANTS w1, w2, c1

OneWorker == {w1}
TwoWorkers == {w1, w2}
OneClient == {c1}
==============================================================================
