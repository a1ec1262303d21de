----------------------------- MODULE MCBackendSearch ---------------------------
(* A small instance of BackendSearch for TLC.  Workers are interchangeable.   *)
EXTENDS BackendSearch, TLC

CONSTANTS w1, w2

MCOthers == {"custom"}
WorkerSymmetry == Permutations(Workers)
===============================================================================
