------------------------------ MODULE MCQueServers ----------------------------
(* A small instance of QueServers for TLC.                                    *)
EXTENDS QueServers

CONSTANTS r1, r2, l1, l2
===============================================================================
