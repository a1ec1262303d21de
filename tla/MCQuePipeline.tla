----------------------------- MODULE MCQuePipeline ----------------------------
(* A small instance of QuePipeline for TLC.  One run: runs only read the list, *)
(* so they do not disturb each other.                                         *)
EXTENDS QuePipeline

CONSTANTS a, b, t1

S(name, required) == [name |-> name, required |-> required]

MCLists == {<<>>, <<S(a, TRUE), S(b, FALSE)>>, <<S(a, FALSE), S(b, TRUE), S(a, TRUE)>>}
MCOrders == {<<b, a>>}
===============================================================================
