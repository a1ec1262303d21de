----------------------------- MODULE QueryPlanner -----------------------------
(* engine/query_planner.py: how plan() turns an intent into the DAG of        *)
(* sub-queries that the executor walks.                                       *)
(*                                                                            *)
(* The language model is external and nothing validates what it replies: for  *)
(* a comparison any two texts, for a multi-hop question any list of items,    *)
(* with any step numbers and any depends_on, or a failure half way.  The loop *)
(* over the items is modelled item by item (Hop); the rest of plan() is one   *)
(* step.  What it is called with comes from the recognizer and the rewriter   *)
(* (QueryUnderstanding).                                                      *)
EXTENDS Integers, Sequences, FiniteSets

CONSTANTS Questions,   \* texts of questions
          Asked,       \* the question of the request
          Pieces,      \* the texts of parts of a question that the model replies
          Sides,       \* Sides[q]: the two texts that are made up for q without it
          Steps,       \* the numbers the model puts in "step"
          DependsOn,   \* the sets of numbers it puts in "depends_on"
          MaxHops,     \* bound on the items of a reply
          Expansions,  \* the lists of expanded queries the rewriter hands over
          Caps         \* values of max_sub_queries

Primaries == {"fact_lookup", "comparison", "multi_hop", "procedural", "open_discussion", "other"}
Complexities == {"simple", "multi-hop", "compound", "other"}

PlannedQuery == [q : Questions, group : Int, deps : SUBSET (Nat \ {0})]

ASSUME PlannerAssumption ==
  /\ Asked \in Questions
  /\ Pieces \subseteq Questions
  /\ Sides \in [Questions -> Questions \X Questions]
  /\ Steps \subseteq Int
  /\ DependsOn \subseteq SUBSET Int
  /\ MaxHops \in Nat
  /\ <<>> \in Expansions /\ Expansions \subseteq Seq(Questions)
  /\ Caps \subseteq Int

VARIABLES
  phase,    \* "idle", "hops" (in the loop over the reply) or "planned"
  intent,   \* primary_intent and complexity_level
  working,  \* working_query, while the loop runs
  cap,      \* max_sub_queries
  queries,  \* the sub-queries so far
  plan,     \* DAGPlan: the sub-queries and parallel_waves
  asAsked,  \* history: the reply so far has the form the prompt asks for
  heard     \* history: a reply of the model was used for this request

plannerVars == <<phase, intent, working, cap, queries, plan, asAsked, heard>>

Intents == [primary : Primaries, complexity : Complexities]

(* What the rewriter returns; without a reply it is the question as asked.    *)
Rewritings ==
  {r \in [question : Questions, expanded : Expansions, heard : BOOLEAN] :
     ~r.heard => r.question = Asked /\ r.expanded = <<>>}

(* s[:n] in Python: a negative n counts from the end.                         *)
Slice(s, n) ==
  LET last == IF n >= 0 THEN n ELSE Len(s) + n
  IN SubSeq(s, 1, IF last <= Len(s) THEN last ELSE Len(s))

Query(question, group, deps) == [q |-> question, group |-> group, deps |-> deps]

Groups(subs) == {subs[k].group : k \in DOMAIN subs}

(* max(groups, default=0) is last.                                            *)
IsLastGroup(last, subs) ==
  /\ \A g \in Groups(subs) : g <= last
  /\ IF subs = <<>> THEN last = 0 ELSE last \in Groups(subs)

(* The position that queries[i - 1] names when n sub-queries exist: an index  *)
(* below zero counts from the end, and one that misses raises IndexError.     *)
Position(i, n) == IF i >= 1 THEN i ELSE n + i

(* Faulty variant: an index below zero is taken as it is.                     *)
NeverMisses(i, n) == FALSE

Misses(i, n) == i <= n /\ Position(i, n) < 1

(* Faulty variant: a step may depend on any step of the reply.                *)
AnyStep(dependsOn, n) == {i \in dependsOn : i >= 1}

(* Dependencies on sub-queries that do not exist yet are dropped.             *)
Dependencies(dependsOn, n) == {Position(i, n) : i \in {i \in dependsOn : i <= n}}

(* Faulty variant: step numbers are taken as group numbers.                   *)
GroupIsStep(step) == step

GroupOf(step) == step - 1

(* parallel_waves is one more than the last group.                            *)
PlanOf(subs) ==
  /\ \E last \in Groups(subs) \cup {0} :
       IsLastGroup(last, subs) /\ plan' = [subs |-> subs, waves |-> last + 1]
  /\ phase' = "planned"

(* The end of plan(): the cap, and the number of waves.                       *)
Deliver(subs, max) == PlanOf(Slice(subs, max))

Init ==
  /\ phase = "idle"
  /\ intent = [primary |-> "other", complexity |-> "other"]
  /\ working = Asked
  /\ cap = 0
  /\ queries = <<>>
  /\ plan = [subs |-> <<>>, waves |-> 1]
  /\ asAsked = TRUE
  /\ heard = FALSE

Alone(question) == <<Query(question, 0, {})>>
Pair(a, b) == <<Query(a, 0, {}), Query(b, 0, {})>>

(* The question first, then its expansions, all in one wave.                  *)
SimplePlan(question, expanded, max) ==
  Alone(question)
    \o [k \in DOMAIN Slice(expanded, max - 1) |-> Query(Slice(expanded, max - 1)[k], 0, {})]

IsSimple(i) == i.complexity = "simple" \/ i.primary = "fact_lookup"

(* plan() for intent i and rewriting r, cut to max sub-queries, makes subs in *)
(* one go; replied: the model replied to it.                                  *)
PlanAtOnce(i, r, max, subs, replied) ==
  /\ phase = "idle"
  /\ intent' = i
  /\ cap' = max
  /\ heard' = (r.heard \/ replied)
  /\ Deliver(subs, max)
  /\ UNCHANGED <<working, queries, asAsked>>

PlanSimple(i, r, max) ==
  /\ IsSimple(i)
  /\ PlanAtOnce(i, r, max, SimplePlan(r.question, r.expanded, max), FALSE)

(* _split_comparison: two sides in one wave, from the reply or made up.       *)
PlanComparison(i, r, max) ==
  /\ ~IsSimple(i) /\ i.primary = "comparison"
  /\ \/ \E a, b \in Pieces : PlanAtOnce(i, r, max, Pair(a, b), TRUE)
     \/ PlanAtOnce(i, r, max, Pair(Sides[r.question][1], Sides[r.question][2]), FALSE)

(* procedural, open_discussion and any unknown intent: the question itself.   *)
PlanSingle(i, r, max) ==
  /\ ~IsSimple(i) /\ i.primary \notin {"comparison", "multi_hop"}
  /\ PlanAtOnce(i, r, max, Alone(r.question), FALSE)

(* _split_multi_hop: the loop over the items of the reply.                    *)
BeginHops(i, r, max) ==
  /\ phase = "idle"
  /\ ~IsSimple(i) /\ i.primary = "multi_hop"
  /\ intent' = i
  /\ working' = r.question
  /\ cap' = max
  /\ heard' = r.heard
  /\ phase' = "hops"
  /\ UNCHANGED <<queries, plan, asAsked>>

Hop(question, step, dependsOn) ==
  LET n == Len(queries)
  IN /\ phase = "hops"
     /\ n < MaxHops
     /\ \A i \in dependsOn : ~Misses(i, n)
     /\ queries' = Append(queries, Query(question, GroupOf(step), Dependencies(dependsOn, n)))
     /\ asAsked' = (asAsked /\ step = n + 1 /\ dependsOn \subseteq 1..n)
     /\ UNCHANGED <<phase, intent, working, cap, plan, heard>>

(* The loop's variables are gone when it is left.                             *)
LeaveHops(subs) ==
  /\ phase = "hops"
  /\ Deliver(subs, cap)
  /\ working' = Asked
  /\ queries' = <<>>
  /\ UNCHANGED <<intent, cap, asAsked>>

EndHops == LeaveHops(queries) /\ heard' = TRUE

(* Faulty variant: the plan is left empty.                                    *)
HopsGiveUp == LeaveHops(<<>>) /\ UNCHANGED heard

(* No reply, a malformed item or an index that misses: the question itself.   *)
HopsFail == LeaveHops(Alone(working)) /\ UNCHANGED heard

HopStep ==
  \/ \E question \in Pieces, step \in Steps, dependsOn \in DependsOn :
       Hop(question, step, dependsOn)
  \/ EndHops
  \/ HopsFail

PlanFor(i, r, max) ==
  \/ PlanSimple(i, r, max)
  \/ PlanComparison(i, r, max)
  \/ PlanSingle(i, r, max)
  \/ BeginHops(i, r, max)

Planned == phase = "planned" /\ UNCHANGED plannerVars

Next ==
  \/ \E i \in Intents, r \in Rewritings, max \in Caps : PlanFor(i, r, max)
  \/ HopStep
  \/ Planned

Spec == Init /\ [][Next]_plannerVars

(* --------------------------------- properties --------------------------------- *)

TypeOK ==
  /\ phase \in {"idle", "hops", "planned"}
  /\ intent \in Intents
  /\ working \in Questions
  /\ cap \in Caps \cup {0}
  /\ queries \in Seq(PlannedQuery)
  /\ plan.subs \in Seq(PlannedQuery) /\ plan.waves \in Int
  /\ asAsked \in BOOLEAN
  /\ heard \in BOOLEAN

(* A dependency is always a sub-query that comes earlier in the plan, so the  *)
(* plan has no cycle and the cap, which cuts the end off, leaves no dangling  *)
(* dependency; whatever the model replies (query_planner.py:81,160).          *)
DependenciesEarlier ==
  \A k \in DOMAIN plan.subs : plan.subs[k].deps \subseteq 1..(k - 1)

(* What is planned for intent i and question q without a reply of the model.  *)
PlanWithoutModel(i, q) ==
  IF i.primary = "comparison" /\ ~IsSimple(i)
  THEN Pair(Sides[q][1], Sides[q][2])
  ELSE Alone(q)

(* max_sub_queries bounds the plan, also when it is zero (query_planner.py:129*)
(* then slices the expansions from the end); and when every call to the model *)
(* failed, in recognize(), rewrite() or plan(), the plan is still made, of the*)
(* question as it was asked (query_planner.py:42-49,85-87).                   *)
PlanWithinCap ==
  phase = "planned" =>
    /\ cap >= 0 => Len(plan.subs) <= cap
    /\ ~heard => plan.subs = Slice(PlanWithoutModel(intent, Asked), cap)

(* When the model replies in the form the prompt asks for, steps 1, 2, ...    *)
(* that depend on earlier steps, every dependency is in an earlier wave, which*)
(* is what the injection of its result needs, and the waves are counted.      *)
ChainOrdered ==
  phase = "planned" /\ asAsked =>
    /\ \A k \in DOMAIN plan.subs : \A d \in plan.subs[k].deps :
         plan.subs[d].group < plan.subs[k].group
    /\ plan.subs # <<>> => plan.waves = Cardinality(Groups(plan.subs))
===============================================================================
