---------------------------- MODULE MCDagExecutor -----------------------------
(* Small instances of DagExecutor for TLC: two calls that overlap, the plans  *)
(* that the planner writes.                                                   *)
EXTENDS DagExecutor, TLC

CONSTANTS r1, r2, q1, q2, u1, u2, u3, c1

SubQ(q, group, deps) == [q |-> q, group |-> group, deps |-> deps]

Single(q) == <<SubQ(q, 0, {})>>
Chain == <<SubQ(q1, 0, {}), SubQ(q2, 1, {1})>>
\* Two steps of one wave, the second depending on the first.
SameWave == <<SubQ(q1, 0, {}), SubQ(q2, 0, {1})>>

At(plan, ctx) == [plan |-> plan, ctx |-> ctx]

MCRequests == {r1, r2}

\* Every text and context has a string of its own.
PlainSpelling == [p \in Text \X Contexts |-> p]

\* A value of u3 holds "," and "=": with it the context reads like u1.
AliasedSpelling == [p \in Text \X Contexts |-> IF p[2] = u3 THEN <<p[1], u1>> ELSE p]

\* The calls of the safety run.  Of two sub-queries in one wave one depends on
\* the other: its text is another one once it is submitted.
SafetyCalls ==
  {At(<<>>, u1), At(Single(q2), u2), At(Single(q1), u3), At(Chain, u1), At(SameWave, u1)}

\* A single question and a chain that ends in it, in one context.
ChainCalls == {At(Single(q2), u1), At(Chain, u1)}

\* The calls of the liveness run: one and two waves, with few interleavings.
LiveCalls == {At(Single(q2), u2), At(Chain, u1)}

Symmetry == Permutations(MCRequests)
===============================================================================
