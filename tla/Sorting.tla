-------------------------------- MODULE Sorting -------------------------------
(* Lists that are made of a part of another list: comprehensions with a       *)
(* condition, and sort() and sorted() with a key, which are stable.           *)
EXTENDS Integers, Sequences, FiniteSets

(* The elements at some places of a list, sorted by a key that is given for   *)
(* every place; one comes behind those of its key that were before it.        *)
Sorted(list, kept, key) ==
  LET place(k) == Cardinality({j \in kept : key[j] < key[k] \/ (key[j] = key[k] /\ j <= k)})
  IN [n \in 1..Cardinality(kept) |-> list[CHOOSE k \in kept : place(k) = n]]

(* The elements at some places, in the order they have.                       *)
Filtered(list, kept) == Sorted(list, kept, [k \in DOMAIN list |-> 0])
===============================================================================
