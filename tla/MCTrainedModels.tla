---------------------------- MODULE MCTrainedModels ----------------------------
(* TrainedModels with caches that are behind, or with calls that fail.      *)
EXTENDS TrainedModels

MCInit == Init /\ (lags => faults = 0)
MCSpec == MCInit /\ [][Next]_vars /\ Fairness
=============================================================================
