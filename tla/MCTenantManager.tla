--------------------------- MODULE MCTenantManager ----------------------------
(* A small instance of TenantManager for TLC.                                 *)
EXTENDS TenantManager, TLC

CONSTANTS h1, h2, t1, t2

Symmetry == Permutations({h1, h2}) \cup Permutations({t1, t2})
===============================================================================
