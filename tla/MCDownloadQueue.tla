-------------------------- MODULE MCDownloadQueue --------------------------
(* Instances of DownloadQueue for TLC: model values for the threads and the   *)
(* models, and their symmetry for the runs that check no liveness.            *)
EXTENDS DownloadQueue, TLC

CONSTANTS ui, api, t1, t2, vocals, drums

OneClient  == {ui}
TwoClients == {ui, api}
TwoWorkers == {t1, t2}
OneModel   == {vocals}
TwoModels  == {vocals, drums}

ThreadSymmetry == Permutations({ui, api}) \cup Permutations({t1, t2})
=============================================================================
