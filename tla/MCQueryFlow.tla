----------------------------- MODULE MCQueryFlow ------------------------------
(* A small instance of QueryFlow for TLC: three contents of which a is a near *)
(* duplicate of b and b of c, but not a of c.  The question asked and all of  *)
(* its parts have one text, w: the cache can then answer any sub-query with   *)
(* the result of an earlier one.  The rewriter may make v of the question.    *)
EXTENDS QueryFlow

CONSTANTS w, v, a, b, c

MCSteps == 0..3
MCDependsOn == {{}, {-1}, {0}, {1}, {1, 2}}
MCSides == [q \in {w, v} |-> <<v, q>>]
MCExpansions == {<<>>, <<w>>, <<w, w>>}
MCCaps == {-1, 0, 1, 2, 3}

Both(x, y) == {<<x, y>>, <<y, x>>}
MCSimilar == {<<a, a>>, <<b, b>>, <<c, c>>} \cup Both(a, b) \cup Both(b, c)

Found(content, score) == [content |-> content, score |-> score]

MCChunkLists == {<<>>, <<Found(a, 1), Found(Blank, 1)>>, <<Found(b, 2), Found(c, 2)>>}
===============================================================================
