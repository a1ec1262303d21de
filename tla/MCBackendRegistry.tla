--------------------------- MODULE MCBackendRegistry --------------------------
(* A small instance of BackendRegistry for TLC.                               *)
EXTENDS BackendRegistry, TLC

CONSTANTS h1, h2, n1, n2

Symmetry == Permutations({h1, h2}) \cup Permutations({n1, n2})
===============================================================================
