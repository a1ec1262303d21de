---------------------------- MODULE QueryFlowProofs ---------------------------
(* Proofs about QueryPlanner, ResultSynthesizer and QueryFlow, for every reply*)
(* of the language model, of any length, every cap, and any results.          *)
EXTENDS QueryFlow, SequenceTheorems, FiniteSetTheorems, FunctionTheorems, TLAPS

(* ------------------------------ the inductive invariant --------------------- *)

(* Dependencies point backwards.                                              *)
Backwards(subs) == \A k \in DOMAIN subs : subs[k].deps \subseteq 1..(k - 1)

(* Every sub-query has a wave of its own, or all are in the first.            *)
InStep(subs) == \A k \in DOMAIN subs : subs[k].group = k - 1
Flat(subs) == \A k \in DOMAIN subs : subs[k].group = 0 /\ subs[k].deps = {}

(* What holds of the sub-queries from the first to the last step: a reply that*)
(* has had the right form so far numbers its steps one by one.                *)
IInv ==
  /\ TypeOK
  /\ Backwards(queries) /\ Backwards(plan.subs)
  /\ phase = "idle" => queries = <<>> /\ asAsked
  /\ phase = "hops" =>
       /\ intent.primary = "multi_hop"
       /\ asAsked => InStep(queries)
       /\ ~heard => working = Asked
  /\ phase = "planned" =>
       /\ IsLastGroup(plan.waves - 1, plan.subs)
       /\ asAsked => InStep(plan.subs) \/ Flat(plan.subs)
       /\ cap >= 0 => Len(plan.subs) <= cap
       /\ ~heard => plan.subs = Slice(PlanWithoutModel(intent, Asked), cap)

(* ------------------------------------ lemmas -------------------------------- *)

(* A slice is a prefix, no longer than its bound says.                        *)
LEMMA SliceIsPrefix ==
  ASSUME NEW S, NEW s \in Seq(S), NEW n \in Int
  PROVE  /\ Slice(s, n) \in Seq(S)
         /\ Len(Slice(s, n)) <= Len(s)
         /\ n >= 0 => Len(Slice(s, n)) <= n
         /\ n >= 1 /\ s # <<>> => Slice(s, n) # <<>>
         /\ \A k \in DOMAIN Slice(s, n) : k \in DOMAIN s /\ Slice(s, n)[k] = s[k]
<1> DEFINE last == IF n >= 0 THEN n ELSE Len(s) + n
<1> DEFINE end == IF last <= Len(s) THEN last ELSE Len(s)
<1>1. Len(s) \in Nat /\ DOMAIN s = 1..Len(s)
  BY LenProperties
<1>2. last \in Int /\ end \in Int /\ end <= Len(s) /\ end <= last
  BY <1>1
<1>3. \A i \in 1..end : s[i] \in S
  BY <1>1, <1>2, ElementOfSeq
<1>4. Slice(s, n) = SubSeq(s, 1, end)
  BY DEF Slice
<1>5. /\ SubSeq(s, 1, end) \in Seq(S)
      /\ Len(SubSeq(s, 1, end)) = IF 1 <= end THEN end - 1 + 1 ELSE 0
      /\ \A i \in 1..(end - 1 + 1) : SubSeq(s, 1, end)[i] = s[1 + i - 1]
  BY <1>2, <1>3, SubSeqProperties
<1> QED
  BY <1>1, <1>2, <1>4, <1>5

(* A query of the plan.                                                       *)
LEMMA QueryType ==
  ASSUME NEW question \in Questions, NEW group \in Int, NEW deps \in SUBSET (Nat \ {0})
  PROVE  /\ Query(question, group, deps) \in PlannedQuery
         /\ Query(question, group, deps).q = question
         /\ Query(question, group, deps).group = group
         /\ Query(question, group, deps).deps = deps
BY DEF Query, PlannedQuery

(* The groups of a list of sub-queries are numbers.                           *)
LEMMA GroupsAreNumbers ==
  ASSUME NEW subs \in Seq(PlannedQuery)
  PROVE  Groups(subs) \subseteq Int
<1>1. DOMAIN subs = 1..Len(subs) /\ \A k \in 1..Len(subs) : subs[k] \in PlannedQuery
  BY LenProperties, ElementOfSeq
<1>2. \A x \in PlannedQuery : x.group \in Int
  BY DEF PlannedQuery
<1> QED
  BY <1>1, <1>2 DEF Groups

(* A list of one sub-query, and the numbers of its elements.                  *)
LEMMA OneQuery ==
  ASSUME NEW x \in PlannedQuery
  PROVE  /\ <<x>> \in Seq(PlannedQuery) /\ Len(<<x>>) = 1 /\ <<x>> # <<>>
         /\ DOMAIN <<x>> = {1} /\ <<x>>[1] = x
OBVIOUS

(* What the properties say of the sub-queries survives the cap, so the cap and*)
(* the count of waves make a plan of which all of it holds.                   *)
LEMMA DeliverEstablishes ==
  ASSUME NEW subs \in Seq(PlannedQuery), NEW max \in Int,
         Deliver(subs, max), Backwards(subs)
  PROVE  /\ phase' = "planned"
         /\ plan'.subs \in Seq(PlannedQuery) /\ plan'.waves \in Int
         /\ Backwards(plan'.subs)
         /\ IsLastGroup(plan'.waves - 1, plan'.subs)
         /\ InStep(subs) => InStep(plan'.subs)
         /\ Flat(subs) => Flat(plan'.subs)
         /\ max >= 0 => Len(plan'.subs) <= max
         /\ plan'.subs = Slice(subs, max)
<1> DEFINE cut == Slice(subs, max)
<1>1. /\ cut \in Seq(PlannedQuery)
      /\ max >= 0 => Len(cut) <= max
      /\ \A k \in DOMAIN cut : k \in DOMAIN subs /\ cut[k] = subs[k]
  BY SliceIsPrefix
<1>2. PICK last \in Groups(cut) \cup {0} :
        IsLastGroup(last, cut) /\ plan' = [subs |-> cut, waves |-> last + 1]
  BY DEF Deliver, PlanOf
<1>3. phase' = "planned"
  BY DEF Deliver, PlanOf
<1> HIDE DEF cut
<1>4. last \in Int
  BY <1>1, GroupsAreNumbers
<1>5. plan'.subs = cut /\ plan'.waves = last + 1 /\ plan'.waves - 1 = last
  BY <1>2, <1>4
<1>6. Backwards(cut) /\ (InStep(subs) => InStep(cut)) /\ (Flat(subs) => Flat(cut))
  BY <1>1 DEF Backwards, InStep, Flat
<1>7. plan'.subs = Slice(subs, max)
  BY <1>5 DEF cut
<1> QED
  BY <1>1, <1>2, <1>3, <1>4, <1>5, <1>6, <1>7

(* The question alone is a plan in which everything is in order.              *)
LEMMA QuestionAlone ==
  ASSUME NEW question \in Questions
  PROVE  /\ Alone(question) \in Seq(PlannedQuery)
         /\ Backwards(Alone(question)) /\ Flat(Alone(question))
<1>1. Query(question, 0, {}) \in PlannedQuery
  BY QueryType
<1>2. Query(question, 0, {}).group = 0 /\ Query(question, 0, {}).deps = {}
  BY DEF Query
<1> QED
  BY <1>1, <1>2, OneQuery DEF Alone, Backwards, Flat

(* So are two sides of it.                                                    *)
LEMMA SidesInOrder ==
  ASSUME NEW first \in Questions, NEW second \in Questions
  PROVE  /\ Pair(first, second) \in Seq(PlannedQuery)
         /\ Backwards(Pair(first, second)) /\ Flat(Pair(first, second))
<1> DEFINE pair == Pair(first, second)
<1>1. pair \in Seq(PlannedQuery)
  BY QueryType DEF Pair
<1>2. \A k \in DOMAIN pair : pair[k].group = 0 /\ pair[k].deps = {}
  BY DEF Pair, Query
<1> HIDE DEF pair
<1>3. Backwards(pair) /\ Flat(pair)
  BY <1>2 DEF Backwards, Flat
<1> QED
  BY <1>1, <1>3 DEF pair

(* So is the question with its expansions; without any it is alone.           *)
LEMMA SimplePlanInOrder ==
  ASSUME NEW question \in Questions, NEW expanded \in Seq(Questions), NEW max \in Int
  PROVE  LET subs == SimplePlan(question, expanded, max)
         IN /\ subs \in Seq(PlannedQuery) /\ Backwards(subs) /\ Flat(subs)
            /\ expanded = <<>> => subs = Alone(question)
<1> DEFINE alone == Alone(question)
           used == Slice(expanded, max - 1)
           more == [k \in DOMAIN used |-> Query(used[k], 0, {})]
<1>1. used \in Seq(Questions) /\ Len(used) \in Nat /\ DOMAIN used = 1..Len(used)
  BY SliceIsPrefix, LenProperties
<1>2. \A k \in DOMAIN used : Query(used[k], 0, {}) \in PlannedQuery
  BY <1>1, ElementOfSeq, QueryType
<1>3. more \in Seq(PlannedQuery) /\ Len(more) = Len(used)
  BY <1>1, <1>2
<1>4. \A k \in 1..Len(more) : more[k].group = 0 /\ more[k].deps = {}
  BY <1>1, <1>3 DEF Query
<1>5. /\ alone \in Seq(PlannedQuery) /\ Len(alone) = 1
      /\ alone[1].group = 0 /\ alone[1].deps = {}
  BY QueryType, OneQuery DEF Query, Alone
<1>6. SimplePlan(question, expanded, max) = alone \o more
  BY DEF SimplePlan
<1>7. ASSUME expanded = <<>> PROVE alone \o more = alone
  <2>1. Len(used) <= Len(expanded) /\ Len(expanded) = 0
    <3>1. max - 1 \in Int
      OBVIOUS
    <3>2. Len(Slice(expanded, max - 1)) <= Len(expanded)
      BY <3>1, SliceIsPrefix
    <3> QED
      BY <1>7, <3>2
  <2>2. Len(more) = 0 /\ more \in Seq(PlannedQuery)
    BY <1>1, <1>3, <2>1
  <2> HIDE DEF alone, more, used
  <2>3. more = <<>>
    BY <2>2, EmptySeq
  <2> QED
    BY <1>5, <2>3, ConcatEmptySeq
<1> HIDE DEF alone, used, more
<1> DEFINE both == alone \o more
<1>8. /\ both \in Seq(PlannedQuery) /\ Len(both) = Len(alone) + Len(more)
      /\ \A i \in 1..(Len(alone) + Len(more)) :
           both[i] = IF i <= Len(alone) THEN alone[i] ELSE more[i - Len(alone)]
  <2>1. alone \in Seq(PlannedQuery) /\ more \in Seq(PlannedQuery)
    BY <1>3, <1>5
  <2> QED
    BY <2>1, ConcatProperties, Zenon
<1>9. /\ Len(both) = 1 + Len(more)
      /\ \A i \in 1..(1 + Len(more)) : both[i] = IF i <= 1 THEN alone[i] ELSE more[i - 1]
  BY <1>5, <1>8
<1> HIDE DEF both
<1>10. Len(more) \in Nat /\ DOMAIN both = 1..(1 + Len(more))
  BY <1>1, <1>3, <1>8, <1>9, LenProperties
<1>11. \A k \in DOMAIN both : both[k].group = 0 /\ both[k].deps = {}
  BY <1>4, <1>5, <1>9, <1>10
<1>12. Backwards(both) /\ Flat(both)
  BY <1>11 DEF Backwards, Flat
<1> QED
  BY <1>6, <1>7, <1>8, <1>12 DEF both, alone

(* The dependencies that are kept are sub-queries that exist.                 *)
LEMMA DependenciesExist ==
  ASSUME NEW n \in Nat, NEW dependsOn \in SUBSET Int, \A i \in dependsOn : ~Misses(i, n)
  PROVE  Dependencies(dependsOn, n) \in SUBSET (1..n)
<1> SUFFICES ASSUME NEW i \in dependsOn, i <= n PROVE Position(i, n) \in 1..n
  BY DEF Dependencies
<1>1. i \in Int /\ ~Misses(i, n)
  OBVIOUS
<1>2. CASE i >= 1
  BY <1>1, <1>2 DEF Position
<1>3. CASE ~(i >= 1)
  <2>1. n + i >= 1
    BY <1>1, <1>3 DEF Misses, Position
  <2> QED
    BY <1>1, <1>3, <2>1 DEF Position
<1> QED
  BY <1>2, <1>3

(* ------------------------------------ steps --------------------------------- *)

LEMMA InitOK == Init => IInv
<1> SUFFICES ASSUME Init PROVE IInv
  OBVIOUS
<1>1. <<>> \in Seq(PlannedQuery) /\ DOMAIN <<>> = {}
  OBVIOUS
<1>2. Asked \in Questions /\ [primary |-> "other", complexity |-> "other"] \in Intents
  BY PlannerAssumption DEF Intents, Primaries, Complexities
<1>3. TypeOK
  <2>1. plan.subs \in Seq(PlannedQuery) /\ plan.waves \in Int
    BY <1>1 DEF Init
  <2>2. asAsked \in BOOLEAN /\ heard \in BOOLEAN
    BY DEF Init
  <2> QED
    BY <1>1, <1>2, <2>1, <2>2 DEF Init, TypeOK
<1> QED
  BY <1>1, <1>3 DEF Init, IInv, Backwards

(* The steps that make a plan at once: their sub-queries are in order, and    *)
(* without the model they are those of the question as asked.                 *)
LEMMA AtOnceOK ==
  ASSUME IInv, NEW i \in Intents, NEW r \in Rewritings, NEW max \in Caps,
         NEW subs \in Seq(PlannedQuery), NEW replied \in BOOLEAN,
         PlanAtOnce(i, r, max, subs, replied), Backwards(subs), Flat(subs),
         ~r.heard /\ ~replied => subs = PlanWithoutModel(i, Asked)
  PROVE  IInv'
<1>0. /\ phase = "idle" /\ intent' = i /\ cap' = max /\ heard' = (r.heard \/ replied)
      /\ Deliver(subs, max) /\ working' = working /\ queries' = queries /\ asAsked' = asAsked
  BY DEF PlanAtOnce
<1>1. max \in Int /\ r.heard \in BOOLEAN
  BY PlannerAssumption DEF Rewritings
<1>2. /\ phase' = "planned"
      /\ plan'.subs \in Seq(PlannedQuery) /\ plan'.waves \in Int
      /\ Backwards(plan'.subs)
      /\ IsLastGroup(plan'.waves - 1, plan'.subs)
      /\ Flat(plan'.subs)
      /\ max >= 0 => Len(plan'.subs) <= max
      /\ plan'.subs = Slice(subs, max)
  BY <1>0, <1>1, DeliverEstablishes
<1>3. TypeOK'
  BY <1>0, <1>1, <1>2 DEF IInv, TypeOK
<1>4. ~heard' => plan'.subs = Slice(PlanWithoutModel(intent', Asked), cap')
  BY <1>0, <1>1, <1>2
<1> QED
  BY <1>0, <1>2, <1>3, <1>4 DEF IInv

LEMMA PlanSimpleOK ==
  ASSUME IInv, NEW i \in Intents, NEW r \in Rewritings, NEW max \in Caps, PlanSimple(i, r, max)
  PROVE  IInv'
<1>1. /\ r.question \in Questions /\ r.expanded \in Seq(Questions) /\ max \in Int
      /\ ~r.heard => r.question = Asked /\ r.expanded = <<>>
  BY PlannerAssumption DEF Rewritings
<1> DEFINE subs == SimplePlan(r.question, r.expanded, max)
<1>2. /\ subs \in Seq(PlannedQuery) /\ Backwards(subs) /\ Flat(subs)
      /\ r.expanded = <<>> => subs = Alone(r.question)
  BY <1>1, SimplePlanInOrder
<1>3. IsSimple(i) /\ PlanAtOnce(i, r, max, subs, FALSE)
  BY DEF PlanSimple
<1> HIDE DEF subs
<1>4. ~r.heard => subs = PlanWithoutModel(i, Asked)
  BY <1>1, <1>2, <1>3 DEF PlanWithoutModel
<1> QED
  BY <1>2, <1>3, <1>4, AtOnceOK

LEMMA PlanComparisonOK ==
  ASSUME IInv, NEW i \in Intents, NEW r \in Rewritings, NEW max \in Caps,
         PlanComparison(i, r, max)
  PROVE  IInv'
<1>1. r.question \in Questions /\ (~r.heard => r.question = Asked)
  BY DEF Rewritings
<1>2. CASE \E a, b \in Pieces : PlanAtOnce(i, r, max, Pair(a, b), TRUE)
  <2>1. PICK a, b \in Pieces : PlanAtOnce(i, r, max, Pair(a, b), TRUE)
    BY <1>2
  <2>2. /\ Pair(a, b) \in Seq(PlannedQuery)
        /\ Backwards(Pair(a, b)) /\ Flat(Pair(a, b))
    BY SidesInOrder, PlannerAssumption
  <2> QED
    BY <2>1, <2>2, AtOnceOK
<1>3. CASE PlanAtOnce(i, r, max, Pair(Sides[r.question][1], Sides[r.question][2]), FALSE)
  <2> DEFINE subs == Pair(Sides[r.question][1], Sides[r.question][2])
  <2>1. Sides[r.question] \in Questions \X Questions
    BY <1>1, PlannerAssumption
  <2>2. Sides[r.question][1] \in Questions /\ Sides[r.question][2] \in Questions
    BY <2>1
  <2>3. subs \in Seq(PlannedQuery) /\ Backwards(subs) /\ Flat(subs)
    BY <2>2, SidesInOrder
  <2>4. ~r.heard => subs = PlanWithoutModel(i, Asked)
    BY <1>1 DEF PlanComparison, PlanWithoutModel
  <2> HIDE DEF subs
  <2>5. PlanAtOnce(i, r, max, subs, FALSE)
    BY <1>3 DEF subs
  <2> QED
    BY <2>3, <2>4, <2>5, AtOnceOK
<1> QED
  BY <1>2, <1>3 DEF PlanComparison

LEMMA PlanSingleOK ==
  ASSUME IInv, NEW i \in Intents, NEW r \in Rewritings, NEW max \in Caps, PlanSingle(i, r, max)
  PROVE  IInv'
<1> DEFINE subs == Alone(r.question)
<1>1. r.question \in Questions /\ (~r.heard => r.question = Asked)
  BY DEF Rewritings
<1>2. subs \in Seq(PlannedQuery) /\ Backwards(subs) /\ Flat(subs)
  BY <1>1, QuestionAlone
<1>3. i.primary # "comparison" /\ PlanAtOnce(i, r, max, subs, FALSE)
  BY DEF PlanSingle
<1>4. ~r.heard => subs = PlanWithoutModel(i, Asked)
  BY <1>1, <1>3 DEF PlanWithoutModel
<1> HIDE DEF subs
<1> QED
  BY <1>2, <1>3, <1>4, AtOnceOK

LEMMA BeginHopsOK ==
  ASSUME IInv, NEW i \in Intents, NEW r \in Rewritings, NEW max \in Caps, BeginHops(i, r, max)
  PROVE  IInv'
<1>1. /\ phase = "idle" /\ phase' = "hops" /\ cap' = max /\ intent' = i /\ i.primary = "multi_hop"
      /\ working' = r.question /\ heard' = r.heard
      /\ queries' = queries /\ plan' = plan /\ asAsked' = asAsked
  BY DEF BeginHops
<1>2. /\ r.question \in Questions /\ r.heard \in BOOLEAN
      /\ ~r.heard => r.question = Asked
  BY DEF Rewritings
<1>3. queries = <<>>
  BY <1>1 DEF IInv
<1>4. InStep(queries)
  BY <1>3 DEF InStep
<1>5. TypeOK'
  BY <1>1, <1>2 DEF IInv, TypeOK
<1> QED
  BY <1>1, <1>2, <1>4, <1>5 DEF IInv

(* One more item: what it depends on exists, and while the numbers are right  *)
(* it is alone in its wave.                                                   *)
LEMMA HopOK ==
  ASSUME IInv, NEW question \in Pieces, NEW step \in Steps, NEW dependsOn \in DependsOn,
         Hop(question, step, dependsOn)
  PROVE  IInv'
<1> DEFINE n == Len(queries)
           deps == Dependencies(dependsOn, n)
           new == Query(question, GroupOf(step), deps)
<1>1. /\ phase = "hops" /\ phase' = "hops" /\ intent' = intent /\ cap' = cap /\ plan' = plan
      /\ working' = working /\ heard' = heard
      /\ \A i \in dependsOn : ~Misses(i, n)
      /\ queries' = Append(queries, new)
      /\ asAsked' = (asAsked /\ step = n + 1 /\ dependsOn \subseteq 1..n)
  BY DEF Hop
<1>2. queries \in Seq(PlannedQuery) /\ n \in Nat /\ DOMAIN queries = 1..n
  BY LenProperties DEF IInv, TypeOK
<1>3. question \in Questions /\ step \in Int /\ dependsOn \in SUBSET Int
  BY PlannerAssumption
<1>4. deps \in SUBSET (1..n)
  BY <1>1, <1>2, <1>3, DependenciesExist
<1>5. new \in PlannedQuery /\ new.deps = deps /\ new.group = step - 1
  <2>1. GroupOf(step) \in Int /\ GroupOf(step) = step - 1
    BY <1>3 DEF GroupOf
  <2>2. deps \in SUBSET (Nat \ {0})
    BY <1>2, <1>4
  <2> HIDE DEF deps
  <2> QED
    BY <1>3, <2>1, <2>2, QueryType
<1> HIDE DEF new, deps, n
<1>6. /\ queries' \in Seq(PlannedQuery) /\ DOMAIN queries' = 1..(n + 1)
      /\ \A k \in 1..n : queries'[k] = queries[k]
      /\ queries'[n + 1] = new
  BY <1>1, <1>2, <1>5 DEF n
<1>7. Backwards(queries')
  <2>1. \A k \in 1..n : queries[k].deps \subseteq 1..(k - 1)
    BY <1>2 DEF IInv, Backwards
  <2>2. \A k \in 1..n : queries'[k].deps \subseteq 1..(k - 1)
    BY <1>6, <2>1
  <2>3. queries'[n + 1].deps \subseteq 1..((n + 1) - 1)
    <3>1. (n + 1) - 1 = n
      BY <1>2
    <3>2. queries'[n + 1].deps = deps
      BY <1>5, <1>6
    <3> QED
      BY <1>4, <3>1, <3>2
  <2>4. \A k \in 1..(n + 1) : k \in 1..n \/ k = n + 1
    BY <1>2
  <2> QED
    BY <1>6, <2>2, <2>3, <2>4 DEF Backwards
<1>8. asAsked' => InStep(queries')
  <2> SUFFICES ASSUME asAsked' PROVE InStep(queries')
    OBVIOUS
  <2>1. asAsked /\ step = n + 1
    BY <1>1
  <2>2. \A k \in 1..n : queries[k].group = k - 1
    BY <1>1, <1>2, <2>1 DEF IInv, InStep
  <2>3. \A k \in 1..n : queries'[k].group = k - 1
    BY <1>6, <2>2
  <2>4. queries'[n + 1].group = (n + 1) - 1
    BY <1>2, <1>5, <1>6, <2>1
  <2>5. \A k \in 1..(n + 1) : k \in 1..n \/ k = n + 1
    BY <1>2
  <2> QED
    BY <1>6, <2>3, <2>4, <2>5 DEF InStep
<1>9. TypeOK'
  BY <1>1, <1>6 DEF IInv, TypeOK
<1> QED
  BY <1>1, <1>7, <1>8, <1>9 DEF IInv

(* The end of the loop, and its failure, for the intent that was split.       *)
LEMMA LeaveHopsOK ==
  ASSUME IInv, NEW subs \in Seq(PlannedQuery), LeaveHops(subs), heard' \in BOOLEAN,
         Backwards(subs), asAsked => InStep(subs) \/ Flat(subs),
         ~heard' => subs = Alone(Asked)
  PROVE  IInv'
<1>0. /\ phase = "hops" /\ Deliver(subs, cap) /\ working' = Asked /\ queries' = <<>>
      /\ intent' = intent /\ cap' = cap /\ asAsked' = asAsked
  BY DEF LeaveHops
<1>1. cap \in Int
  <2>1. cap \in Caps \cup {0}
    BY DEF IInv, TypeOK
  <2> QED
    BY <2>1, PlannerAssumption
<1>2. /\ phase' = "planned"
      /\ plan'.subs \in Seq(PlannedQuery) /\ plan'.waves \in Int
      /\ Backwards(plan'.subs)
      /\ IsLastGroup(plan'.waves - 1, plan'.subs)
      /\ InStep(subs) => InStep(plan'.subs)
      /\ Flat(subs) => Flat(plan'.subs)
      /\ cap >= 0 => Len(plan'.subs) <= cap
      /\ plan'.subs = Slice(subs, cap)
  BY <1>0, <1>1, DeliverEstablishes
<1>3. <<>> \in Seq(PlannedQuery) /\ Backwards(<<>>)
  BY DEF Backwards
<1>4. TypeOK'
  BY <1>0, <1>2, <1>3, PlannerAssumption DEF IInv, TypeOK
<1>5. intent.primary = "multi_hop" /\ PlanWithoutModel(intent, Asked) = Alone(Asked)
  BY <1>0 DEF IInv, PlanWithoutModel
<1> QED
  BY <1>0, <1>2, <1>3, <1>4, <1>5 DEF IInv

LEMMA EndHopsOK == ASSUME IInv, EndHops PROVE IInv'
<1>1. LeaveHops(queries) /\ heard' = TRUE /\ phase = "hops"
  BY DEF EndHops, LeaveHops
<1>2. queries \in Seq(PlannedQuery) /\ Backwards(queries) /\ (asAsked => InStep(queries))
  BY <1>1 DEF IInv, TypeOK
<1> QED
  BY <1>1, <1>2, LeaveHopsOK

LEMMA HopsFailOK == ASSUME IInv, HopsFail PROVE IInv'
<1> DEFINE subs == Alone(working)
<1>1. LeaveHops(subs) /\ heard' = heard /\ phase = "hops"
  BY DEF HopsFail, LeaveHops
<1>2. working \in Questions /\ heard \in BOOLEAN
  BY DEF IInv, TypeOK
<1>3. subs \in Seq(PlannedQuery) /\ Backwards(subs) /\ Flat(subs)
  BY <1>2, QuestionAlone
<1>4. ~heard' => subs = Alone(Asked)
  BY <1>1 DEF IInv
<1> HIDE DEF subs
<1> QED
  BY <1>1, <1>2, <1>3, <1>4, LeaveHopsOK

LEMMA NextOK == IInv /\ [Next]_plannerVars => IInv'
<1> SUFFICES ASSUME IInv, [Next]_plannerVars PROVE IInv'
  OBVIOUS
<1>1. ASSUME NEW i \in Intents, NEW r \in Rewritings, NEW max \in Caps, PlanFor(i, r, max)
      PROVE  IInv'
  BY <1>1, PlanSimpleOK, PlanComparisonOK, PlanSingleOK, BeginHopsOK DEF PlanFor
<1>2. CASE HopStep
  BY <1>2, HopOK, EndHopsOK, HopsFailOK DEF HopStep
<1>3. CASE UNCHANGED plannerVars
  BY <1>3 DEF plannerVars, IInv, TypeOK
<1>4. CASE Planned
  BY <1>3, <1>4 DEF Planned
<1> QED
  BY <1>1, <1>2, <1>3, <1>4 DEF Next

LEMMA IInvHolds == Spec => []IInv
BY InitOK, NextOK, PTL DEF Spec

(* ----------------------------------- theorems ------------------------------- *)

(* The planner's variables keep their types: in particular every dependency is*)
(* the number of a sub-query, whatever the language model replied.            *)
THEOREM TypeCorrect == Spec => []TypeOK
<1>1. IInv => TypeOK
  BY DEF IInv
<1> QED
  BY <1>1, IInvHolds, PTL

(* A plan has no cycle and no dangling dependency (query_planner.py:81,160).  *)
THEOREM PlanIsAcyclic == Spec => []DependenciesEarlier
<1>1. IInv => DependenciesEarlier
  BY DEF IInv, Backwards, DependenciesEarlier
<1> QED
  BY <1>1, IInvHolds, PTL

(* The cap bounds the plan, and without the model the plan is made of the     *)
(* question as asked (query_planner.py:42-49,85-87,160).                      *)
THEOREM CapHolds == Spec => []PlanWithinCap
<1>1. IInv => PlanWithinCap
  BY DEF IInv, PlanWithinCap
<1> QED
  BY <1>1, IInvHolds, PTL

(* Waves that are numbered one by one are as many as there are sub-queries.   *)
LEMMA WavesInStep ==
  ASSUME NEW subs \in Seq(PlannedQuery), NEW last \in Int,
         InStep(subs), IsLastGroup(last, subs), subs # <<>>
  PROVE  last + 1 = Cardinality(Groups(subs))
<1>1. Len(subs) \in Nat \ {0} /\ DOMAIN subs = 1..Len(subs)
  BY LenProperties, EmptySeq
<1>2. Groups(subs) = 0..(Len(subs) - 1)
  <2>1. \A k \in 1..Len(subs) : subs[k].group = k - 1
    BY <1>1 DEF InStep
  <2>2. Groups(subs) \subseteq 0..(Len(subs) - 1)
    BY <1>1, <2>1 DEF Groups
  <2>3. ASSUME NEW g \in 0..(Len(subs) - 1) PROVE g \in Groups(subs)
    <3>1. g + 1 \in 1..Len(subs) /\ (g + 1) - 1 = g
      BY <1>1
    <3>2. subs[g + 1].group = g
      BY <2>1, <3>1
    <3> QED
      BY <1>1, <3>1, <3>2 DEF Groups
  <2> QED
    BY <2>2, <2>3
<1>3. Cardinality(Groups(subs)) = Len(subs)
  <2>1. Cardinality(0..(Len(subs) - 1)) =
          IF 0 > Len(subs) - 1 THEN 0 ELSE (Len(subs) - 1) - 0 + 1
    BY <1>1, FS_Interval
  <2> QED
    BY <1>1, <1>2, <2>1
<1>4. last = Len(subs) - 1
  <2>1. last \in Groups(subs) /\ \A g \in Groups(subs) : g <= last
    BY DEF IsLastGroup
  <2>2. Len(subs) - 1 \in Groups(subs)
    BY <1>1, <1>2
  <2>3. last \in 0..(Len(subs) - 1) /\ Len(subs) - 1 <= last
    BY <1>2, <2>1, <2>2
  <2> QED
    BY <2>3, LenProperties, SMTT(20)
<1> QED
  BY <1>1, <1>3, <1>4

(* A single wave.                                                             *)
LEMMA WavesFlat ==
  ASSUME NEW subs \in Seq(PlannedQuery), NEW last \in Int,
         Flat(subs), IsLastGroup(last, subs), subs # <<>>
  PROVE  last + 1 = Cardinality(Groups(subs))
<1>1. Len(subs) \in Nat \ {0} /\ DOMAIN subs = 1..Len(subs)
  BY LenProperties, EmptySeq
<1>2. 1 \in DOMAIN subs
  BY <1>1
<1>3. Groups(subs) = {0}
  BY <1>2 DEF Flat, Groups
<1>4. Cardinality(Groups(subs)) = 1
  BY <1>3, FS_Singleton
<1>5. last = 0
  BY <1>3 DEF IsLastGroup
<1> QED
  BY <1>4, <1>5

(* When the model keeps to the form it was asked for, dependencies are in     *)
(* earlier waves and the waves are counted (query_planner.py:81-84,163).      *)
THEOREM WavesInOrder == Spec => []ChainOrdered
<1>1. IInv => ChainOrdered
  <2> SUFFICES ASSUME IInv, phase = "planned", asAsked
               PROVE  /\ \A k \in DOMAIN plan.subs : \A d \in plan.subs[k].deps :
                            plan.subs[d].group < plan.subs[k].group
                      /\ plan.subs # <<>> => plan.waves = Cardinality(Groups(plan.subs))
    BY DEF ChainOrdered
  <2> DEFINE subs == plan.subs
  <2>1. /\ subs \in Seq(PlannedQuery) /\ plan.waves \in Int
        /\ IsLastGroup(plan.waves - 1, subs)
        /\ Backwards(subs)
        /\ InStep(subs) \/ Flat(subs)
    BY DEF IInv, TypeOK
  <2>2. DOMAIN subs = 1..Len(subs) /\ Len(subs) \in Nat
    BY <2>1, LenProperties
  <2> HIDE DEF subs
  <2>3. ASSUME NEW k \in DOMAIN subs, NEW d \in subs[k].deps
        PROVE  subs[d].group < subs[k].group
    <3>1. CASE Flat(subs)
      BY <2>3, <3>1 DEF Flat
    <3>2. CASE InStep(subs)
      <4>1. d \in 1..(k - 1)
        BY <2>1, <2>3 DEF Backwards
      <4>2. d \in DOMAIN subs /\ d < k /\ d \in Int /\ k \in Int
        BY <2>2, <2>3, <4>1
      <4>3. subs[d].group = d - 1 /\ subs[k].group = k - 1
        BY <2>3, <3>2, <4>2 DEF InStep
      <4> QED
        BY <4>2, <4>3
    <3> QED
      BY <2>1, <3>1, <3>2
  <2>4. subs # <<>> => (plan.waves - 1) + 1 = Cardinality(Groups(subs))
    BY <2>1, WavesInStep, WavesFlat
  <2> QED
    BY <2>1, <2>3, <2>4 DEF subs
<1> QED
  BY <1>1, IInvHolds, PTL

(* ------------------------------ recursive functions ------------------------- *)

(* Induction for a set of numbers, from the least one that is missing.        *)
LEMMA Induction ==
  ASSUME NEW N \in Nat, NEW good, 0 \in good,
         \A i \in 1..N : i - 1 \in good => i \in good
  PROVE  \A i \in 0..N : i \in good
<1> DEFINE R == {ss \in Nat \X Nat : ss[1] < ss[2]}
           bad == {i \in 0..N : i \notin good}
<1>1. IsWellFoundedOn(R, Nat)
  BY NatLessThanWellFounded DEF OpToRel
<1>2. SUFFICES ASSUME bad # {} PROVE FALSE
  OBVIOUS
<1>3. PICK m \in bad : \A n \in bad : <<n, m>> \notin R
  <2>1. bad \subseteq Nat
    OBVIOUS
  <2> HIDE DEF bad, R
  <2> QED
    BY <1>1, <1>2, <2>1, WFMin
<1>4. m \in 1..N /\ m - 1 \in 0..N
  <2>1. m \in 0..N /\ m # 0
    OBVIOUS
  <2> QED
    BY <2>1
<1>5. m - 1 \in bad
  BY <1>4
<1>6. <<m - 1, m>> \in R
  BY <1>4
<1> QED
  BY <1>3, <1>5, <1>6

(* A function on 0..N that begins with base and goes on by steps.             *)
Recurs(N, S, base, step) ==
  \E f \in [0..N -> S] : f[0] = base /\ \A i \in 1..N : f[i] = step[<<i, f[i - 1]>>]

(* There is one.                                                              *)
LEMMA Recursion ==
  ASSUME NEW N \in Nat, NEW S, NEW base \in S, NEW step \in [(1..N) \X S -> S]
  PROVE  Recurs(N, S, base, step)
<1> DEFINE Defines(f, n) == f[0] = base /\ \A i \in 1..n : f[i] = step[<<i, f[i - 1]>>]
           good == {n \in 0..N : \E f \in [0..n -> S] : Defines(f, n)}
<1>1. 0 \in good
  <2> DEFINE f == [i \in 0..0 |-> base]
  <2>1. f \in [0..0 -> S] /\ f[0] = base /\ 1..0 = {}
    OBVIOUS
  <2>2. 0 \in 0..N
    OBVIOUS
  <2> HIDE DEF f
  <2>3. Defines(f, 0)
    BY <2>1
  <2> QED
    BY <2>1, <2>2, <2>3
<1>2. ASSUME NEW n \in 1..N, n - 1 \in good
      PROVE  n \in good
  <2>1. PICK f \in [0..(n - 1) -> S] : Defines(f, n - 1)
    BY <1>2
  <2> DEFINE g == [i \in 0..n |-> IF i = n THEN step[<<n, f[n - 1]>>] ELSE f[i]]
  <2>2. \A i \in 0..n : i = n \/ i \in 0..(n - 1)
    OBVIOUS
  <2>3. n \in 1..N /\ f[n - 1] \in S /\ step[<<n, f[n - 1]>>] \in S
    <3>1. n \in 1..N /\ n - 1 \in 0..(n - 1)
      BY <1>2
    <3>2. f[n - 1] \in S
      BY <3>1
    <3> QED
      BY <3>1, <3>2
  <2>4. g \in [0..n -> S]
    BY <2>1, <2>2, <2>3
  <2>5. \A i \in 0..(n - 1) : g[i] = f[i]
    OBVIOUS
  <2>6. g[n] = step[<<n, g[n - 1]>>]
    <3>1. n \in 0..n /\ n - 1 \in 0..(n - 1)
      OBVIOUS
    <3>2. g[n] = step[<<n, f[n - 1]>>]
      BY <3>1
    <3>3. g[n - 1] = f[n - 1]
      BY <2>5, <3>1
    <3> QED
      BY <3>2, <3>3
  <2>7. \A i \in 1..(n - 1) : g[i] = step[<<i, g[i - 1]>>]
    BY <2>1, <2>5
  <2>8. g[0] = base
    BY <2>1, <2>5
  <2> HIDE DEF g
  <2>9. Defines(g, n)
    BY <2>6, <2>7, <2>8
  <2> QED
    BY <2>4, <2>9
<1>3. N \in good
  <2> HIDE DEF good
  <2>1. \A i \in 0..N : i \in good
    BY <1>1, <1>2, Induction
  <2> QED
    BY <2>1
<1> QED
  BY <1>3 DEF Recurs

(* --------------------------- lists of lists made flat ----------------------- *)

(* One list behind the other: flat is made of the lists up to n, each element *)
(* of which has its home in one of them, in their order.                      *)
IsFlat(flat, lists, n) ==
  /\ \A k \in 1..n : \A j \in DOMAIN lists[k] :
       \E m \in DOMAIN flat : flat[m] = lists[k][j]
  /\ \E home \in [DOMAIN flat -> 1..n] :
       /\ \A m \in DOMAIN flat : \E j \in DOMAIN lists[home[m]] : flat[m] = lists[home[m]][j]
       /\ \A l, m \in DOMAIN flat : l < m => home[l] <= home[m]

(* One more list keeps it that way.                                           *)
LEMMA FlatGrows ==
  ASSUME NEW S, NEW lists, NEW n \in Nat \ {0}, NEW flat \in Seq(S), lists[n] \in Seq(S),
         IsFlat(flat, lists, n - 1)
  PROVE  flat \o lists[n] \in Seq(S) /\ IsFlat(flat \o lists[n], lists, n)
<1> DEFINE last == lists[n]
           more == flat \o last
           a == Len(flat)
           b == Len(last)
<1>1. /\ more \in Seq(S) /\ Len(more) = a + b
      /\ \A i \in 1..(a + b) : more[i] = IF i <= a THEN flat[i] ELSE last[i - a]
  BY ConcatProperties, Zenon
<1>2. a \in Nat /\ b \in Nat /\ DOMAIN flat = 1..a /\ DOMAIN last = 1..b
  BY LenProperties
<1>3. DOMAIN more = 1..(a + b)
  BY <1>1, LenProperties, Zenon
<1>4. PICK home \in [DOMAIN flat -> 1..(n - 1)] :
        /\ \A m \in DOMAIN flat : \E j \in DOMAIN lists[home[m]] : flat[m] = lists[home[m]][j]
        /\ \A l, m \in DOMAIN flat : l < m => home[l] <= home[m]
  BY DEF IsFlat
<1>5. \A k \in 1..(n - 1) : \A j \in DOMAIN lists[k] :
        \E m \in DOMAIN flat : flat[m] = lists[k][j]
  BY DEF IsFlat
<1> HIDE DEF more, last, a, b
<1>6. /\ \A m \in 1..a : m \in 1..(a + b) /\ more[m] = flat[m]
      /\ \A j \in 1..b : a + j \in 1..(a + b) /\ more[a + j] = last[j]
      /\ \A m \in 1..(a + b) : m \notin 1..a => m - a \in 1..b /\ more[m] = last[m - a]
  <2>1. \A m \in 1..a : m \in 1..(a + b) /\ more[m] = flat[m]
    BY <1>1, <1>2
  <2>2. ASSUME NEW j \in 1..b PROVE a + j \in 1..(a + b) /\ more[a + j] = last[j]
    <3>1. a + j \in 1..(a + b) /\ ~(a + j <= a) /\ (a + j) - a = j
      BY <1>2
    <3> QED
      BY <1>1, <3>1
  <2>3. \A m \in 1..(a + b) : m \notin 1..a => m - a \in 1..b /\ more[m] = last[m - a]
    BY <1>1, <1>2
  <2> QED
    BY <2>1, <2>2, <2>3
<1>7. \A k \in 1..n : k \in 1..(n - 1) \/ k = n
  OBVIOUS
<1>8. ASSUME NEW k \in 1..n, NEW j \in DOMAIN lists[k]
      PROVE  \E m \in DOMAIN more : more[m] = lists[k][j]
  <2>1. CASE k \in 1..(n - 1)
    <3>1. PICK m \in DOMAIN flat : flat[m] = lists[k][j]
      BY <1>5, <1>8, <2>1
    <3> QED
      BY <1>2, <1>3, <1>6, <3>1
  <2>2. CASE k = n
    <3>1. j \in 1..b /\ lists[k] = last
      BY <1>2, <1>8, <2>2 DEF last
    <3> QED
      BY <1>3, <1>6, <3>1
  <2> QED
    BY <1>7, <2>1, <2>2
<1> DEFINE new == [m \in DOMAIN more |-> IF m \in 1..a THEN home[m] ELSE n]
<1>9. new \in [DOMAIN more -> 1..n]
  <2>1. \A m \in 1..a : home[m] \in 1..n
    BY <1>2, <1>4
  <2> QED
    BY <2>1
<1>10. ASSUME NEW m \in DOMAIN more
       PROVE  \E j \in DOMAIN lists[new[m]] : more[m] = lists[new[m]][j]
  <2>1. CASE m \in 1..a
    <3>1. new[m] = home[m] /\ more[m] = flat[m] /\ m \in DOMAIN flat
      BY <1>2, <1>6, <2>1
    <3> QED
      BY <1>4, <3>1
  <2>2. CASE m \notin 1..a
    <3>1. new[m] = n /\ m - a \in 1..b /\ more[m] = last[m - a]
      BY <1>3, <1>6, <2>2
    <3> QED
      BY <1>2, <3>1 DEF last
  <2> QED
    BY <2>1, <2>2
<1>11. ASSUME NEW l \in DOMAIN more, NEW m \in DOMAIN more, l < m
       PROVE  new[l] <= new[m]
  <2>1. CASE m \in 1..a
    <3>1. l \in 1..a
      BY <1>2, <1>3, <1>11, <2>1
    <3>2. home[l] <= home[m]
      BY <1>2, <1>4, <1>11, <2>1, <3>1
    <3> QED
      BY <2>1, <3>1, <3>2
  <2>2. CASE m \notin 1..a
    <3>1. new[m] = n /\ new[l] \in 1..n
      BY <1>9, <2>2
    <3> QED
      BY <3>1
  <2> QED
    BY <2>1, <2>2
<1> HIDE DEF new
<1>12. IsFlat(more, lists, n)
  BY <1>8, <1>9, <1>10, <1>11 DEF IsFlat
<1> QED
  BY <1>1, <1>12 DEF more, last

(* What FlattenSeq makes of a list of lists.                                  *)
LEMMA FlattenFacts ==
  ASSUME NEW S, NEW lists \in Seq(Seq(S))
  PROVE  FlattenSeq(lists) \in Seq(S) /\ IsFlat(FlattenSeq(lists), lists, Len(lists))
<1> DEFINE N == Len(lists)
           Nth(g, i) == IF i = 1 THEN lists[i] ELSE g[i - 1] \o lists[i]
           f == CHOOSE g : g = [i \in 1..N |-> Nth(g, i)]
           none == <<>>
<1>1. N \in Nat /\ DOMAIN lists = 1..N /\ \A i \in 1..N : lists[i] \in Seq(S)
  BY LenProperties, ElementOfSeq
<1>2. FlattenSeq(lists) = IF N = 0 THEN lists ELSE f[N]
  BY DEF FlattenSeq
<1>3. none \in Seq(S) /\ IsFlat(none, lists, 0)
  <2>1. DOMAIN <<>> = {} /\ 1..0 = {}
    OBVIOUS
  <2>2. [m \in {} |-> 0] \in [{} -> {}]
    OBVIOUS
  <2>3. IsFlat(<<>>, lists, 0)
    BY <2>1, <2>2 DEF IsFlat
  <2> QED
    BY <2>3
<1>4. \E g : g = [i \in 1..N |-> Nth(g, i)]
  <2> DEFINE step == [p \in (1..N) \X Seq(S) |-> p[2] \o lists[p[1]]]
  <2>1. step \in [(1..N) \X Seq(S) -> Seq(S)]
    BY <1>1, ConcatProperties
  <2>2. \A i \in 1..N : \A s \in Seq(S) : step[<<i, s>>] = s \o lists[i]
    OBVIOUS
  <2> HIDE DEF step, N, none
  <2>3. PICK h \in [0..N -> Seq(S)] : h[0] = none /\ \A i \in 1..N : h[i] = step[<<i, h[i - 1]>>]
    <3>1. Recurs(N, Seq(S), none, step)
      BY <1>1, <1>3, <2>1, Recursion
    <3> QED
      BY <3>1 DEF Recurs
  <2>4. ASSUME NEW i \in 1..N
        PROVE  h[i - 1] \in Seq(S) /\ h[i] = h[i - 1] \o lists[i]
    <3>1. i - 1 \in 0..N
      BY <1>1
    <3>2. h[i - 1] \in Seq(S)
      BY <3>1
    <3> QED
      BY <2>2, <2>3, <3>2
  <2> DEFINE g == [i \in 1..N |-> h[i]]
  <2>5. ASSUME NEW i \in 1..N PROVE h[i] = Nth(g, i)
    <3>1. CASE i = 1
      <4>1. h[i] = h[i - 1] \o lists[i] /\ i - 1 = 0 /\ lists[i] \in Seq(S)
        BY <1>1, <2>4, <3>1
      <4>2. h[i] = none \o lists[i]
        BY <2>3, <4>1
      <4> QED
        BY <3>1, <4>1, <4>2, ConcatEmptySeq DEF none
    <3>2. CASE i # 1
      <4>1. i - 1 \in 1..N
        BY <1>1, <3>2
      <4> QED
        BY <2>4, <3>2, <4>1
    <3> QED
      BY <3>1, <3>2
  <2>6. g = [i \in 1..N |-> Nth(g, i)]
    BY <2>5
  <2> QED
    BY <2>6
<1>5. f = [i \in 1..N |-> Nth(f, i)]
  BY <1>4
<1> DEFINE good == {i \in 0..N : i # 0 => f[i] \in Seq(S) /\ IsFlat(f[i], lists, i)}
<1> HIDE DEF f, N
<1>6. 0 \in good
  BY <1>1
<1>7. ASSUME NEW i \in 1..N, i - 1 \in good
      PROVE  i \in good
  <2>0. i \in Nat \ {0} /\ i \in 0..N /\ lists[i] \in Seq(S)
    BY <1>1, <1>7
  <2>1. CASE i = 1
    <3>1. f[i] = none \o lists[i]
      BY <1>1, <1>5, <2>0, <2>1, ConcatEmptySeq
    <3>2. none \in Seq(S) /\ IsFlat(none, lists, i - 1)
      BY <1>3, <2>1
    <3> HIDE DEF none
    <3>3. none \o lists[i] \in Seq(S) /\ IsFlat(none \o lists[i], lists, i)
      BY <2>0, <3>2, FlatGrows
    <3> QED
      BY <2>0, <3>1, <3>3
  <2>2. CASE i # 1
    <3>1. f[i] = f[i - 1] \o lists[i]
      BY <1>5, <2>2
    <3>2. i - 1 # 0
      BY <2>2
    <3>3. f[i - 1] \in Seq(S) /\ IsFlat(f[i - 1], lists, i - 1)
      BY <1>7, <3>2
    <3>4. f[i - 1] \o lists[i] \in Seq(S) /\ IsFlat(f[i - 1] \o lists[i], lists, i)
      BY <2>0, <3>3, FlatGrows
    <3> QED
      BY <2>0, <3>1, <3>4
  <2> QED
    BY <2>1, <2>2
<1>8. N \in good
  <2> HIDE DEF good
  <2>1. \A i \in 0..N : i \in good
    BY <1>1, <1>6, <1>7, Induction
  <2> QED
    BY <1>1, <2>1
<1>9. CASE N = 0
  <2>1. lists = <<>>
    BY <1>9, EmptySeq DEF N
  <2> QED
    BY <1>2, <1>3, <1>9, <2>1 DEF N
<1>10. CASE N # 0
  BY <1>2, <1>8, <1>10 DEF N
<1> QED
  BY <1>9, <1>10

(* ---------------------------------- sorting --------------------------------- *)

(* Place j comes no later than place k.                                       *)
NotAfter(key, j, k) == key[j] < key[k] \/ (key[j] = key[k] /\ j <= k)

(* Where a sorted list has what was at place k.                               *)
PlaceOf(kept, key, k) == Cardinality({j \in kept : NotAfter(key, j, k)})

(* Places differ and follow the order, hence each of them is taken.           *)
LEMMA PlaceFacts ==
  ASSUME NEW kept, IsFiniteSet(kept), kept \subseteq Nat,
         NEW key, \A k \in kept : key[k] \in Int
  PROVE  /\ \A k \in kept : PlaceOf(kept, key, k) \in 1..Cardinality(kept)
         /\ \A n \in 1..Cardinality(kept) : \E k \in kept : PlaceOf(kept, key, k) = n
         /\ \A j, k \in kept : PlaceOf(kept, key, j) = PlaceOf(kept, key, k) => j = k
         /\ \A j, k \in kept :
              NotAfter(key, j, k) => PlaceOf(kept, key, j) <= PlaceOf(kept, key, k)
<1> DEFINE Upto(k) == {j \in kept : NotAfter(key, j, k)}
           place == [k \in kept |-> Cardinality(Upto(k))]
           N == Cardinality(kept)
<1>1. N \in Nat
  BY FS_CardinalityType
<1>2. /\ \A j, k \in kept : NotAfter(key, j, k) \/ NotAfter(key, k, j)
      /\ \A j, k \in kept : NotAfter(key, j, k) /\ NotAfter(key, k, j) => j = k
      /\ \A i, j, k \in kept : NotAfter(key, i, j) /\ NotAfter(key, j, k) => NotAfter(key, i, k)
  BY DEF NotAfter
<1>3. \A k \in kept : Upto(k) \in SUBSET kept /\ k \in Upto(k)
  BY <1>2
<1>4. \A k \in kept : place[k] = Cardinality(Upto(k)) /\ PlaceOf(kept, key, k) = place[k]
  BY DEF PlaceOf
<1>5. /\ \A j, k \in kept : NotAfter(key, j, k) => Upto(j) \subseteq Upto(k)
      /\ \A j, k \in kept : Upto(j) = Upto(k) => j = k
  BY <1>2, <1>3
<1> HIDE DEF Upto, N
<1>6. \A k \in kept : IsFiniteSet(Upto(k)) /\ place[k] \in Nat /\ place[k] <= N /\ place[k] # 0
  <2>1. \A k \in kept : IsFiniteSet(Upto(k)) /\ place[k] \in Nat /\ place[k] <= N
    BY <1>3, <1>4, FS_Subset, FS_CardinalityType DEF N
  <2> QED
    BY <1>3, <1>4, <2>1, FS_EmptySet
<1>7. place \in [kept -> 1..N]
  <2>1. \A k \in kept : place[k] \in 1..N
    BY <1>1, <1>6
  <2> QED
    BY <2>1
<1>8. ASSUME NEW j \in kept, NEW k \in kept, NotAfter(key, j, k)
      PROVE  place[j] <= place[k] /\ (place[j] = place[k] => j = k)
  <2>1. Upto(j) \in SUBSET Upto(k) /\ IsFiniteSet(Upto(k))
    BY <1>5, <1>6, <1>8
  <2>2. /\ Cardinality(Upto(j)) <= Cardinality(Upto(k))
        /\ Cardinality(Upto(j)) = Cardinality(Upto(k)) => Upto(j) = Upto(k)
    BY <2>1, FS_Subset
  <2> QED
    BY <1>4, <1>5, <2>2
<1>9. ASSUME NEW j \in kept, NEW k \in kept, place[j] = place[k]
      PROVE  j = k
  BY <1>2, <1>8, <1>9
<1> HIDE DEF place
<1>10. place \in Injection(kept, 1..N)
  BY <1>7, <1>9, Fun_IsInj
<1>11. IsFiniteSet(1..N) /\ Cardinality(1..N) = N
  BY <1>1, FS_Interval
<1>12. place \in Surjection(kept, 1..N)
  BY <1>10, <1>11, FS_Injection DEF N
<1>13. \A n \in 1..N : \E k \in kept : place[k] = n
  BY <1>12, Fun_SurjectionProperties
<1> QED
  BY <1>4, <1>7, <1>8, <1>9, <1>13 DEF N

(* sorted has what list has at the places kept, in the order of the key and   *)
(* else in that of list.                                                      *)
IsSortedPart(sorted, list, kept, key) ==
  \E pick \in [DOMAIN sorted -> kept] :
    /\ \A n \in DOMAIN sorted : sorted[n] = list[pick[n]]
    /\ \A k \in kept : \E n \in DOMAIN sorted : pick[n] = k
    /\ \A m, n \in DOMAIN sorted : m < n => NotAfter(key, pick[m], pick[n]) /\ pick[m] # pick[n]

(* That is what Sorted makes.                                                 *)
LEMMA SortedFacts ==
  ASSUME NEW S, NEW list \in Seq(S), NEW kept \in SUBSET DOMAIN list,
         NEW key, \A k \in DOMAIN list : key[k] \in Int
  PROVE  /\ Sorted(list, kept, key) \in Seq(S)
         /\ Len(Sorted(list, kept, key)) = Cardinality(kept)
         /\ IsSortedPart(Sorted(list, kept, key), list, kept, key)
<1> DEFINE N == Cardinality(kept)
           place(k) == PlaceOf(kept, key, k)
           pick == [n \in 1..N |-> CHOOSE k \in kept : place(k) = n]
           sorted == [n \in 1..N |-> list[CHOOSE k \in kept : place(k) = n]]
<1>1. DOMAIN list = 1..Len(list) /\ Len(list) \in Nat
  BY LenProperties
<1>2. IsFiniteSet(kept) /\ N \in Nat /\ kept \subseteq Nat
  <2>1. IsFiniteSet(DOMAIN list)
    BY <1>1, FS_Interval
  <2>2. IsFiniteSet(kept)
    BY <2>1, FS_Subset
  <2> QED
    BY <1>1, <2>2, FS_CardinalityType
<1>3. \A k \in kept : key[k] \in Int
  OBVIOUS
<1>4. /\ \A k \in kept : place(k) \in 1..N
      /\ \A n \in 1..N : \E k \in kept : place(k) = n
      /\ \A j, k \in kept : place(j) = place(k) => j = k
      /\ \A j, k \in kept : NotAfter(key, j, k) => place(j) <= place(k)
  BY <1>2, <1>3, PlaceFacts
<1>5. Sorted(list, kept, key) = sorted
  BY DEF Sorted, PlaceOf, NotAfter
<1> HIDE DEF place, N
<1>6. \A n \in 1..N : pick[n] \in kept /\ place(pick[n]) = n /\ sorted[n] = list[pick[n]]
  BY <1>4
<1>7. \A k \in kept : list[k] \in S
  BY <1>1, ElementOfSeq
<1>8. sorted \in Seq(S) /\ Len(sorted) = N /\ DOMAIN sorted = 1..N
  <2>1. sorted \in [1..N -> S] /\ DOMAIN sorted = 1..N
    BY <1>6, <1>7
  <2> HIDE DEF sorted
  <2>2. sorted \in Seq(S)
    BY <1>2, <2>1, SeqDef
  <2> QED
    BY <1>2, <2>1, <2>2, LenProperties
<1>9. pick \in [1..N -> kept]
  <2>1. \A n \in 1..N : (CHOOSE k \in kept : place(k) = n) \in kept
    BY <1>4
  <2> QED
    BY <2>1
<1> HIDE DEF pick, sorted
<1>10. ASSUME NEW k \in kept PROVE \E n \in 1..N : pick[n] = k
  <2>1. place(k) \in 1..N
    BY <1>4
  <2>2. place(pick[place(k)]) = place(k) /\ pick[place(k)] \in kept
    BY <1>6, <2>1
  <2> QED
    BY <1>4, <2>1, <2>2
<1>11. ASSUME NEW m \in 1..N, NEW n \in 1..N, m < n
       PROVE  NotAfter(key, pick[m], pick[n]) /\ pick[m] # pick[n]
  <2>1. /\ pick[m] \in kept /\ place(pick[m]) = m
        /\ pick[n] \in kept /\ place(pick[n]) = n
    BY <1>6
  <2>2. ~(n <= m) /\ m # n
    BY <1>11
  <2>3. ~NotAfter(key, pick[n], pick[m])
    BY <1>4, <2>1, <2>2
  <2>4. pick[m] \in Nat /\ pick[n] \in Nat /\ key[pick[m]] \in Int /\ key[pick[n]] \in Int
    BY <1>2, <1>3, <2>1
  <2> QED
    BY <2>1, <2>2, <2>3, <2>4 DEF NotAfter
<1>12. IsSortedPart(sorted, list, kept, key)
  <2>1. DOMAIN sorted = 1..N
    BY <1>8
  <2>2. pick \in [DOMAIN sorted -> kept]
    BY <1>9, <2>1
  <2>3. \A n \in DOMAIN sorted : sorted[n] = list[pick[n]]
    BY <1>6, <2>1
  <2>4. \A k \in kept : \E n \in DOMAIN sorted : pick[n] = k
    BY <1>10, <2>1
  <2>5. \A m, n \in DOMAIN sorted :
          m < n => NotAfter(key, pick[m], pick[n]) /\ pick[m] # pick[n]
    BY <1>11, <2>1
  <2> QED
    BY <2>2, <2>3, <2>4, <2>5 DEF IsSortedPart
<1> QED
  BY <1>5, <1>8, <1>12 DEF N

(* -------------------------------- the contexts ------------------------------ *)

Parts == {"A", "B", "additional", "aggregate"} \cup Nat
ContextEntry == [part : Parts, at : Nat, content : Contents, score : Nat]

(* The entries of a result are its chunks, under the part given.              *)
LEMMA EntriesFacts ==
  ASSUME NEW part \in Parts, NEW result \in Result
  PROVE  /\ Entries(part, result) \in Seq(ContextEntry)
         /\ DOMAIN Entries(part, result) = DOMAIN result.chunks
         /\ \A k \in DOMAIN result.chunks :
              /\ Entries(part, result)[k].part = part
              /\ Entries(part, result)[k].at = result.at
              /\ Entries(part, result)[k].content = result.chunks[k].content
<1> DEFINE n == Len(result.chunks)
           e == Entries(part, result)
<1>1. result.at \in Nat /\ result.chunks \in Seq(Chunk)
  BY DEF Result
<1>2. n \in Nat /\ DOMAIN result.chunks = 1..n /\ \A k \in 1..n : result.chunks[k] \in Chunk
  BY <1>1, LenProperties, ElementOfSeq
<1>3. \A k \in 1..n : result.chunks[k].content \in Contents /\ result.chunks[k].score \in Nat
  BY <1>2 DEF Chunk
<1> HIDE DEF n
<1>4. /\ DOMAIN e = 1..n
      /\ \A k \in 1..n : e[k] = [part |-> part, at |-> result.at,
                                 content |-> result.chunks[k].content,
                                 score |-> result.chunks[k].score]
  BY <1>2 DEF Entries
<1>5. \A k \in 1..n : e[k] \in ContextEntry
  BY <1>1, <1>3, <1>4 DEF ContextEntry
<1>6. e \in [1..n -> ContextEntry]
  BY <1>2, <1>5 DEF Entries
<1>7. e \in Seq(ContextEntry)
  BY <1>2, <1>6, SeqDef
<1> QED
  BY <1>2, <1>4, <1>7

(* Every entry is a chunk of one of the results.                              *)
ComesFrom(shown, rs) ==
  \A m \in DOMAIN shown : \E k \in DOMAIN rs : \E n \in DOMAIN rs[k].chunks :
    shown[m].at = rs[k].at /\ shown[m].content = rs[k].chunks[n].content

(* The entries of one result behind those of the other, under given parts.    *)
LaidOut(rs, part) == FlattenSeq([k \in DOMAIN rs |-> Entries(part[k], rs[k])])

(* Every chunk is there, and every entry is of one of the results, in their   *)
(* order.                                                                     *)
LEMMA LaidOutFacts ==
  ASSUME NEW rs \in Seq(Result), NEW part \in [DOMAIN rs -> Parts]
  PROVE  /\ LaidOut(rs, part) \in Seq(ContextEntry)
         /\ ComesFrom(LaidOut(rs, part), rs)
         /\ \A k \in DOMAIN rs : \A n \in DOMAIN rs[k].chunks :
              \E m \in DOMAIN LaidOut(rs, part) :
                LaidOut(rs, part)[m].content = rs[k].chunks[n].content
         /\ \E home \in [DOMAIN LaidOut(rs, part) -> DOMAIN rs] :
              /\ \A m \in DOMAIN LaidOut(rs, part) :
                   /\ LaidOut(rs, part)[m].part = part[home[m]]
                   /\ LaidOut(rs, part)[m].at = rs[home[m]].at
              /\ \A l, m \in DOMAIN LaidOut(rs, part) : l < m => home[l] <= home[m]
<1> DEFINE lists == [k \in DOMAIN rs |-> Entries(part[k], rs[k])]
           flat == FlattenSeq(lists)
           N == Len(rs)
<1>1. N \in Nat /\ DOMAIN rs = 1..N /\ \A k \in 1..N : rs[k] \in Result
  BY LenProperties, ElementOfSeq
<1>2. \A k \in 1..N :
        /\ lists[k] \in Seq(ContextEntry)
        /\ DOMAIN lists[k] = DOMAIN rs[k].chunks
        /\ \A j \in DOMAIN rs[k].chunks :
             /\ lists[k][j].part = part[k] /\ lists[k][j].at = rs[k].at
             /\ lists[k][j].content = rs[k].chunks[j].content
  BY <1>1, EntriesFacts
<1>3. lists \in Seq(Seq(ContextEntry)) /\ Len(lists) = N
  <2>1. lists \in [1..N -> Seq(ContextEntry)] /\ DOMAIN lists = 1..N
    BY <1>1, <1>2
  <2> HIDE DEF lists, N
  <2>2. lists \in Seq(Seq(ContextEntry))
    BY <1>1, <2>1, SeqDef
  <2> QED
    BY <1>1, <2>1, <2>2, LenProperties
<1>4. LaidOut(rs, part) = flat
  BY DEF LaidOut
<1> HIDE DEF lists
<1>5. flat \in Seq(ContextEntry) /\ IsFlat(flat, lists, N)
  BY <1>3, FlattenFacts
<1> HIDE DEF flat, N
<1>6. \A k \in 1..N : \A n \in DOMAIN rs[k].chunks :
        \E m \in DOMAIN flat : flat[m].content = rs[k].chunks[n].content
  <2> SUFFICES ASSUME NEW k \in 1..N, NEW n \in DOMAIN rs[k].chunks
               PROVE  \E m \in DOMAIN flat : flat[m].content = rs[k].chunks[n].content
    OBVIOUS
  <2>1. n \in DOMAIN lists[k] /\ lists[k][n].content = rs[k].chunks[n].content
    BY <1>2
  <2>2. PICK m \in DOMAIN flat : flat[m] = lists[k][n]
    BY <1>5, <2>1 DEF IsFlat
  <2> QED
    BY <2>1, <2>2
<1>7. PICK home \in [DOMAIN flat -> 1..N] :
        /\ \A m \in DOMAIN flat : \E j \in DOMAIN lists[home[m]] : flat[m] = lists[home[m]][j]
        /\ \A l, m \in DOMAIN flat : l < m => home[l] <= home[m]
  BY <1>5 DEF IsFlat
<1>8. \A m \in DOMAIN flat : flat[m].part = part[home[m]] /\ flat[m].at = rs[home[m]].at
  BY <1>2, <1>7
<1>9. ASSUME NEW m \in DOMAIN flat
      PROVE  \E k \in DOMAIN rs : \E n \in DOMAIN rs[k].chunks :
               flat[m].at = rs[k].at /\ flat[m].content = rs[k].chunks[n].content
  <2>1. home[m] \in 1..N
    BY <1>7
  <2>2. PICK j \in DOMAIN lists[home[m]] : flat[m] = lists[home[m]][j]
    BY <1>7
  <2>3. j \in DOMAIN rs[home[m]].chunks
          /\ flat[m].content = rs[home[m]].chunks[j].content
    BY <1>2, <2>1, <2>2
  <2> QED
    BY <1>1, <1>8, <2>1, <2>3
<1>10. ComesFrom(flat, rs)
  BY <1>9 DEF ComesFrom
<1> QED
  BY <1>1, <1>4, <1>5, <1>6, <1>7, <1>8, <1>10

(* Every chunk is in the context, but for blanks and near duplicates.         *)
ShowsAll(shown, rs) ==
  \A k \in DOMAIN rs : \A n \in DOMAIN rs[k].chunks :
    \/ rs[k].chunks[n].content = Blank
    \/ \E m \in DOMAIN shown : Same(shown[m].content, rs[k].chunks[n].content)

(* A comparison of two or more shows everything.                              *)
LEMMA CompareFacts ==
  ASSUME NEW rs \in Seq(Result)
  PROVE  /\ SynthesizeCompare(rs) \in Seq(ContextEntry)
         /\ ComesFrom(SynthesizeCompare(rs), rs)
         /\ Len(rs) >= 2 => ShowsAll(SynthesizeCompare(rs), rs)
<1> DEFINE part == [k \in DOMAIN rs |-> Aspect(k)]
<1>1. part \in [DOMAIN rs -> Parts]
  BY DEF Aspect, Parts
<1>2. \A k \in DOMAIN rs : part[k] = Aspect(k)
  OBVIOUS
<1>3. [k \in DOMAIN rs |-> Entries(Aspect(k), rs[k])]
        = [k \in DOMAIN rs |-> Entries(part[k], rs[k])]
  BY <1>2
<1> HIDE DEF part
<1>4. SynthesizeCompare(rs) = IF Len(rs) < 2 THEN <<>> ELSE LaidOut(rs, part)
  BY <1>3 DEF SynthesizeCompare, LaidOut
<1>5. <<>> \in Seq(ContextEntry) /\ Len(rs) \in Nat /\ ComesFrom(<<>>, rs)
  <2>1. DOMAIN <<>> = {}
    OBVIOUS
  <2> QED
    BY <2>1, LenProperties DEF ComesFrom
<1>6. /\ LaidOut(rs, part) \in Seq(ContextEntry)
      /\ ComesFrom(LaidOut(rs, part), rs)
      /\ \A k \in DOMAIN rs : \A n \in DOMAIN rs[k].chunks :
           \E m \in DOMAIN LaidOut(rs, part) :
             LaidOut(rs, part)[m].content = rs[k].chunks[n].content
  BY <1>1, LaidOutFacts
<1>7. ShowsAll(LaidOut(rs, part), rs)
  BY <1>6 DEF ShowsAll, Same
<1> QED
  BY <1>4, <1>5, <1>6, <1>7

(* The wave a result is sorted under.                                         *)
LEMMA FindWaveType ==
  ASSUME NEW subs \in Seq(PlannedQuery), NEW query
  PROVE  FindWave(query, subs) \in Int
<1>1. \A k \in DOMAIN subs : subs[k] \in PlannedQuery
  BY LenProperties, ElementOfSeq
<1> QED
  BY <1>1 DEF FindWave, PlannedQuery

(* Every entry of the chain is of a result, and those of a later wave are     *)
(* under a later part.                                                        *)
StepsFollow(chain, rs, subs) ==
  \E of \in [DOMAIN chain -> DOMAIN rs] :
    /\ \A m \in DOMAIN chain : chain[m].at = rs[of[m]].at
    /\ \A m, n \in DOMAIN chain :
         FindWave(rs[of[m]].query, subs) < FindWave(rs[of[n]].query, subs) =>
           chain[m].part < chain[n].part

(* A chain shows everything, and its steps follow the waves.                  *)
LEMMA ChainFacts ==
  ASSUME NEW rs \in Seq(Result), NEW subs \in Seq(PlannedQuery)
  PROVE  /\ SynthesizeChain(rs, subs) \in Seq(ContextEntry)
         /\ ComesFrom(SynthesizeChain(rs, subs), rs)
         /\ ShowsAll(SynthesizeChain(rs, subs), rs)
         /\ StepsFollow(SynthesizeChain(rs, subs), rs, subs)
<1> DEFINE key == [k \in DOMAIN rs |-> FindWave(rs[k].query, subs)]
           sorted == Sorted(rs, DOMAIN rs, key)
           part == [k \in DOMAIN sorted |-> k]
           chain == LaidOut(sorted, part)
<1>1. \A k \in DOMAIN rs : key[k] \in Int /\ key[k] = FindWave(rs[k].query, subs)
  BY FindWaveType
<1> HIDE DEF key
<1>2. sorted \in Seq(Result) /\ IsSortedPart(sorted, rs, DOMAIN rs, key)
  BY <1>1, SortedFacts
<1>3. SortedByWave(rs, subs) = sorted
  BY DEF SortedByWave, key
<1> HIDE DEF sorted
<1>4. part \in [DOMAIN sorted -> Parts] /\ \A k \in DOMAIN sorted : part[k] = k /\ k \in Nat
  <2>1. DOMAIN sorted \subseteq Nat
    BY <1>2, LenProperties
  <2> QED
    BY <2>1 DEF Parts
<1>5. [k \in DOMAIN sorted |-> Entries(k, sorted[k])]
        = [k \in DOMAIN sorted |-> Entries(part[k], sorted[k])]
  BY <1>4
<1> HIDE DEF part
<1>6. SynthesizeChain(rs, subs) = chain
  BY <1>3, <1>5 DEF SynthesizeChain, LaidOut
<1>7. /\ chain \in Seq(ContextEntry) /\ ComesFrom(chain, sorted)
      /\ \A k \in DOMAIN sorted : \A n \in DOMAIN sorted[k].chunks :
           \E m \in DOMAIN chain : chain[m].content = sorted[k].chunks[n].content
      /\ \E home \in [DOMAIN chain -> DOMAIN sorted] :
           /\ \A m \in DOMAIN chain :
                chain[m].part = part[home[m]] /\ chain[m].at = sorted[home[m]].at
           /\ \A l, m \in DOMAIN chain : l < m => home[l] <= home[m]
  BY <1>2, <1>4, LaidOutFacts
<1> HIDE DEF chain
<1>8. PICK home \in [DOMAIN chain -> DOMAIN sorted] : \A m \in DOMAIN chain :
        chain[m].part = home[m] /\ chain[m].at = sorted[home[m]].at /\ home[m] \in Nat
  <2>1. PICK h \in [DOMAIN chain -> DOMAIN sorted] : \A m \in DOMAIN chain :
          chain[m].part = part[h[m]] /\ chain[m].at = sorted[h[m]].at
    BY <1>7
  <2>2. ASSUME NEW m \in DOMAIN chain
        PROVE  chain[m].part = h[m] /\ chain[m].at = sorted[h[m]].at /\ h[m] \in Nat
    <3>1. h[m] \in DOMAIN sorted
      OBVIOUS
    <3> QED
      BY <1>4, <2>1, <3>1
  <2> QED
    BY <2>2
<1>9. PICK pick \in [DOMAIN sorted -> DOMAIN rs] :
        /\ \A n \in DOMAIN sorted : sorted[n] = rs[pick[n]]
        /\ \A k \in DOMAIN rs : \E n \in DOMAIN sorted : pick[n] = k
        /\ \A m, n \in DOMAIN sorted : m < n => NotAfter(key, pick[m], pick[n])
  BY <1>2 DEF IsSortedPart
<1>10. ShowsAll(chain, rs)
  <2> SUFFICES ASSUME NEW k \in DOMAIN rs, NEW n \in DOMAIN rs[k].chunks
               PROVE  \E m \in DOMAIN chain : chain[m].content = rs[k].chunks[n].content
    BY DEF ShowsAll, Same
  <2>1. PICK i \in DOMAIN sorted : sorted[i] = rs[k]
    BY <1>9
  <2>2. n \in DOMAIN sorted[i].chunks
    BY <2>1
  <2>3. \E m \in DOMAIN chain : chain[m].content = sorted[i].chunks[n].content
    BY <1>7, <2>2
  <2> QED
    BY <2>1, <2>3
<1>11. ComesFrom(chain, rs)
  <2> SUFFICES ASSUME NEW m \in DOMAIN chain
               PROVE  \E k \in DOMAIN rs : \E n \in DOMAIN rs[k].chunks :
                        /\ chain[m].at = rs[k].at
                        /\ chain[m].content = rs[k].chunks[n].content
    BY DEF ComesFrom
  <2>1. PICK i \in DOMAIN sorted : \E n \in DOMAIN sorted[i].chunks :
          chain[m].at = sorted[i].at /\ chain[m].content = sorted[i].chunks[n].content
    BY <1>7 DEF ComesFrom
  <2>2. pick[i] \in DOMAIN rs /\ sorted[i] = rs[pick[i]]
    BY <1>9
  <2> QED
    BY <2>1, <2>2
<1> DEFINE of == [m \in DOMAIN chain |-> pick[home[m]]]
<1>12. of \in [DOMAIN chain -> DOMAIN rs]
         /\ \A m \in DOMAIN chain : of[m] = pick[home[m]] /\ chain[m].at = rs[of[m]].at
  BY <1>8, <1>9
<1> HIDE DEF of
<1>13. ASSUME NEW m \in DOMAIN chain, NEW n \in DOMAIN chain,
              FindWave(rs[of[m]].query, subs) < FindWave(rs[of[n]].query, subs)
       PROVE  chain[m].part < chain[n].part
  <2>1. /\ home[m] \in DOMAIN sorted /\ home[n] \in DOMAIN sorted
        /\ home[m] \in Nat /\ home[n] \in Nat
        /\ chain[m].part = home[m] /\ chain[n].part = home[n]
        /\ of[m] = pick[home[m]] /\ of[n] = pick[home[n]]
        /\ of[m] \in DOMAIN rs /\ of[n] \in DOMAIN rs
    BY <1>8, <1>12
  <2>2. key[of[m]] < key[of[n]] /\ key[of[m]] \in Int /\ key[of[n]] \in Int
    BY <1>1, <1>13, <2>1
  <2>3. ~NotAfter(key, of[n], of[m])
    BY <2>2 DEF NotAfter
  <2>4. ~(home[n] < home[m])
    BY <1>9, <2>1, <2>3
  <2>5. home[m] # home[n]
    BY <2>1, <2>2
  <2> QED
    BY <2>1, <2>4, <2>5
<1>14. StepsFollow(chain, rs, subs)
  BY <1>12, <1>13 DEF StepsFollow
<1> QED
  BY <1>6, <1>7, <1>10, <1>11, <1>14

(* What the aggregation has done with the first n entries found: each of them *)
(* is blank or like something kept, and no two of those kept are alike.       *)
Deduplicated(kept, found, n) ==
  /\ \A m \in DOMAIN kept : \E j \in 1..n : kept[m] = found[j]
  /\ \A j \in 1..n :
       found[j].content = Blank \/ \E m \in DOMAIN kept : Same(kept[m].content, found[j].content)
  /\ \A m \in DOMAIN kept : kept[m].content # Blank
  /\ \A l, m \in DOMAIN kept : l < m => ~Same(kept[l].content, kept[m].content)

(* Being alike goes both ways.                                                *)
LEMMA SameSymmetric ==
  ASSUME NEW c, NEW d
  PROVE  Same(c, d) <=> Same(d, c)
<1>1. \A a, b : <<a, b>> \in Similar => <<b, a>> \in Similar
  <2> SUFFICES ASSUME NEW a, NEW b, <<a, b>> \in Similar PROVE <<b, a>> \in Similar
    OBVIOUS
  <2> DEFINE p == <<a, b>>
  <2>1. p[1] = a /\ p[2] = b /\ p \in Similar
    OBVIOUS
  <2> HIDE DEF p
  <2>2. <<p[2], p[1]>> \in Similar
    BY <2>1, SynthesizerAssumption
  <2> QED
    BY <2>1, <2>2
<1> QED
  BY <1>1 DEF Same

(* One more entry is looked at.                                               *)
LEMMA DeduplicatedGrows ==
  ASSUME NEW found \in Seq(ContextEntry), NEW n \in 1..Len(found),
         NEW kept \in Seq(ContextEntry), Deduplicated(kept, found, n - 1)
  PROVE  /\ IsDuplicate(found[n].content, kept) => Deduplicated(kept, found, n)
         /\ ~IsDuplicate(found[n].content, kept) =>
              Deduplicated(Append(kept, found[n]), found, n)
<1>1. Len(found) \in Nat /\ found[n] \in ContextEntry /\ n \in Nat
  BY LenProperties, ElementOfSeq
<1>2. /\ \A j \in 1..n : j = n \/ j \in 1..(n - 1)
      /\ \A j \in 1..(n - 1) : j \in 1..n
  OBVIOUS
<1>3. ASSUME IsDuplicate(found[n].content, kept)
      PROVE  Deduplicated(kept, found, n)
  <2>1. found[n].content = Blank \/ \E m \in DOMAIN kept : Same(kept[m].content, found[n].content)
    <3>1. CASE found[n].content = Blank
      BY <3>1
    <3>2. CASE found[n].content # Blank
      <4>1. PICK m \in DOMAIN kept : <<found[n].content, kept[m].content>> \in Similar
        BY <1>3, <3>2 DEF IsDuplicate
      <4>2. Same(found[n].content, kept[m].content)
        BY <4>1 DEF Same
      <4>3. Same(kept[m].content, found[n].content)
        BY <4>2, SameSymmetric
      <4> QED
        BY <4>3
    <3> QED
      BY <3>1, <3>2
  <2>2. \A m \in DOMAIN kept : \E j \in 1..n : kept[m] = found[j]
    BY <1>2 DEF Deduplicated
  <2> QED
    BY <1>2, <2>1, <2>2 DEF Deduplicated
<1>4. ASSUME ~IsDuplicate(found[n].content, kept)
      PROVE  Deduplicated(Append(kept, found[n]), found, n)
  <2> DEFINE more == Append(kept, found[n])
             a == Len(kept)
  <2>1. a \in Nat /\ DOMAIN kept = 1..a
    BY LenProperties
  <2>2. /\ more \in Seq(ContextEntry) /\ Len(more) = a + 1
        /\ \A i \in 1..a : more[i] = kept[i]
        /\ more[a + 1] = found[n]
    BY <1>1, AppendProperties
  <2>3. DOMAIN more = 1..(a + 1)
    BY <2>2, LenProperties
  <2> HIDE DEF more, a
  <2>4. /\ \A m \in 1..a : m \in 1..(a + 1)
        /\ a + 1 \in 1..(a + 1)
        /\ \A m \in 1..(a + 1) : m = a + 1 \/ m \in 1..a
        /\ \A l, m \in 1..(a + 1) : l < m => l \in 1..a
    BY <2>1
  <2>5. /\ found[n].content # Blank
        /\ \A m \in 1..a : <<found[n].content, kept[m].content>> \notin Similar
    BY <1>4, <2>1 DEF IsDuplicate
  <2>6. ASSUME NEW m \in 1..a PROVE ~Same(kept[m].content, found[n].content)
    <3>1. found[n].content \in Contents \ {Blank}
      BY <1>1, <2>5 DEF ContextEntry
    <3>2. <<found[n].content, found[n].content>> \in Similar
      BY <3>1, SynthesizerAssumption
    <3>3. ~Same(found[n].content, kept[m].content)
      BY <2>5, <3>2 DEF Same
    <3> QED
      BY <3>3, SameSymmetric
  <2>7. ASSUME NEW j \in 1..n
        PROVE  found[j].content = Blank
                 \/ \E m \in DOMAIN more : Same(more[m].content, found[j].content)
    <3>1. CASE j = n
      <4>1. a + 1 \in DOMAIN more /\ Same(more[a + 1].content, found[j].content)
        BY <2>2, <2>3, <2>4, <3>1 DEF Same
      <4> QED
        BY <4>1
    <3>2. CASE j \in 1..(n - 1) /\ found[j].content # Blank
      <4>1. PICK m \in DOMAIN kept : Same(kept[m].content, found[j].content)
        BY <3>2 DEF Deduplicated
      <4>2. m \in DOMAIN more /\ more[m] = kept[m]
        BY <2>1, <2>2, <2>3, <2>4, <4>1
      <4> QED
        BY <4>1, <4>2
    <3> QED
      BY <1>2, <3>1, <3>2
  <2>8. ASSUME NEW m \in DOMAIN more PROVE more[m].content # Blank
    BY <2>1, <2>2, <2>3, <2>4, <2>5 DEF Deduplicated
  <2>9. ASSUME NEW l \in DOMAIN more, NEW m \in DOMAIN more, l < m
        PROVE  ~Same(more[l].content, more[m].content)
    <3>1. l \in 1..a /\ more[l] = kept[l]
      BY <2>2, <2>3, <2>4, <2>9
    <3>2. CASE m = a + 1
      BY <2>2, <2>6, <3>1, <3>2
    <3>3. CASE m \in 1..a
      <4>1. more[m] = kept[m]
        BY <2>2, <3>3
      <4>2. ~Same(kept[l].content, kept[m].content)
        BY <2>1, <2>9, <3>1, <3>3 DEF Deduplicated
      <4> QED
        BY <3>1, <4>1, <4>2
    <3> QED
      BY <2>3, <2>4, <3>2, <3>3
  <2>10. ASSUME NEW m \in DOMAIN more PROVE \E j \in 1..n : more[m] = found[j]
    <3>1. CASE m = a + 1
      BY <2>2, <3>1
    <3>2. CASE m \in 1..a
      <4>1. PICK j \in 1..(n - 1) : kept[m] = found[j]
        BY <2>1, <3>2 DEF Deduplicated
      <4> QED
        BY <1>2, <2>2, <3>2, <4>1
    <3> QED
      BY <2>3, <2>4, <3>1, <3>2
  <2>11. Deduplicated(more, found, n)
    BY <2>7, <2>8, <2>9, <2>10 DEF Deduplicated
  <2> QED
    BY <2>11 DEF more
<1> QED
  BY <1>3, <1>4

(* No two entries are alike.                                                  *)
AllDiffer(shown) ==
  \A m, n \in DOMAIN shown : m < n => ~Same(shown[m].content, shown[n].content)

(* So does an aggregation, in which no two entries are alike.                 *)
LEMMA AggregateFacts ==
  ASSUME NEW rs \in Seq(Result)
  PROVE  /\ SynthesizeAggregate(rs) \in Seq(ContextEntry)
         /\ ComesFrom(SynthesizeAggregate(rs), rs)
         /\ ShowsAll(SynthesizeAggregate(rs), rs)
         /\ AllDiffer(SynthesizeAggregate(rs))
<1> DEFINE found == FlattenSeq([k \in DOMAIN rs |-> Entries("aggregate", rs[k])])
           part == [k \in DOMAIN rs |-> "aggregate"]
           N == Len(found)
           E == Seq(ContextEntry)
           Nth(g, n) == IF n = 0 THEN <<>>
                        ELSE IF IsDuplicate(found[n].content, g[n - 1]) THEN g[n - 1]
                             ELSE Append(g[n - 1], found[n])
           seen == CHOOSE g : g = [n \in 0..N |-> Nth(g, n)]
           none == <<>>
<1>1. /\ found \in Seq(ContextEntry)
      /\ ComesFrom(found, rs)
      /\ \A k \in DOMAIN rs : \A n \in DOMAIN rs[k].chunks :
           \E m \in DOMAIN found : found[m].content = rs[k].chunks[n].content
  <2>1. part \in [DOMAIN rs -> Parts] /\ \A k \in DOMAIN rs : part[k] = "aggregate"
    BY DEF Parts
  <2>2. found = LaidOut(rs, part)
    BY <2>1 DEF LaidOut
  <2> HIDE DEF part, found
  <2> QED
    BY <2>1, <2>2, LaidOutFacts
<1>2. SynthesizeAggregate(rs) = seen[N]
  BY DEF SynthesizeAggregate
<1> HIDE DEF found
<1>3. N \in Nat /\ DOMAIN found = 1..N /\ \A n \in 1..N : found[n] \in ContextEntry
  BY <1>1, LenProperties, ElementOfSeq
<1>4. none \in E /\ Deduplicated(none, found, 0)
  <2>1. <<>> \in E /\ DOMAIN <<>> = {} /\ 1..0 = {}
    OBVIOUS
  <2> QED
    BY <2>1 DEF Deduplicated
<1> HIDE DEF N
<1>5. \E g : g = [n \in 0..N |-> Nth(g, n)]
  <2> DEFINE step == [p \in (1..N) \X E |->
                        IF IsDuplicate(found[p[1]].content, p[2]) THEN p[2]
                        ELSE Append(p[2], found[p[1]])]
  <2>1. step \in [(1..N) \X E -> E]
    BY <1>3, AppendProperties
  <2>2. \A n \in 1..N : \A s \in E :
          step[<<n, s>>] = IF IsDuplicate(found[n].content, s) THEN s ELSE Append(s, found[n])
    OBVIOUS
  <2> HIDE DEF step, none
  <2>3. PICK h \in [0..N -> E] : h[0] = none /\ \A n \in 1..N : h[n] = step[<<n, h[n - 1]>>]
    <3>1. Recurs(N, E, none, step)
      <4> HIDE DEF E
      <4> QED
        BY <1>3, <1>4, <2>1, Recursion
    <3> QED
      BY <3>1 DEF Recurs
  <2>4. ASSUME NEW n \in 0..N PROVE h[n] = Nth(h, n)
    <3>1. CASE n = 0
      BY <2>3, <3>1 DEF none
    <3>2. CASE n # 0
      <4>1. n \in 1..N /\ n - 1 \in 0..N
        BY <1>3, <3>2
      <4>2. h[n - 1] \in E
        BY <4>1
      <4> QED
        BY <2>2, <2>3, <3>2, <4>1, <4>2
    <3> QED
      BY <3>1, <3>2
  <2> HIDE DEF Nth
  <2>5. h = [n \in 0..N |-> Nth(h, n)]
    BY <2>4
  <2> QED
    BY <2>5
<1>6. seen = [n \in 0..N |-> Nth(seen, n)]
  BY <1>5
<1> DEFINE good == {n \in 0..N : seen[n] \in E /\ Deduplicated(seen[n], found, n)}
<1> HIDE DEF seen
<1>7. 0 \in good
  <2>1. 0 \in 0..N
    BY <1>3
  <2>2. seen[0] = none
    BY <1>6, <2>1
  <2> HIDE DEF none
  <2> QED
    BY <1>4, <2>1, <2>2
<1>8. ASSUME NEW n \in 1..N, n - 1 \in good
      PROVE  n \in good
  <2>1. n \in 0..N /\ n # 0 /\ n \in 1..Len(found)
    BY <1>3 DEF N
  <2> DEFINE before == seen[n - 1]
  <2>2. before \in E /\ Deduplicated(before, found, n - 1)
    BY <1>8
  <2>3. seen[n] = IF IsDuplicate(found[n].content, before) THEN before
                  ELSE Append(before, found[n])
    BY <1>6, <2>1
  <2> HIDE DEF before
  <2>4. /\ IsDuplicate(found[n].content, before) => Deduplicated(before, found, n)
        /\ ~IsDuplicate(found[n].content, before) =>
             Deduplicated(Append(before, found[n]), found, n)
    BY <1>1, <2>1, <2>2, DeduplicatedGrows
  <2>5. Append(before, found[n]) \in E
    BY <1>3, <2>2, AppendProperties
  <2> QED
    BY <2>1, <2>2, <2>3, <2>4, <2>5
<1>9. N \in good
  <2> HIDE DEF good
  <2>1. \A n \in 0..N : n \in good
    BY <1>3, <1>7, <1>8, Induction
  <2> QED
    BY <1>3, <2>1
<1>10. seen[N] \in E /\ Deduplicated(seen[N], found, N)
  BY <1>9
<1>11. ShowsAll(seen[N], rs)
  <2> SUFFICES ASSUME NEW k \in DOMAIN rs, NEW n \in DOMAIN rs[k].chunks,
                      rs[k].chunks[n].content # Blank
               PROVE  \E m \in DOMAIN seen[N] :
                        Same(seen[N][m].content, rs[k].chunks[n].content)
    BY DEF ShowsAll
  <2>1. PICK j \in DOMAIN found : found[j].content = rs[k].chunks[n].content
    BY <1>1
  <2> QED
    BY <1>3, <1>10, <2>1 DEF Deduplicated
<1>12. AllDiffer(seen[N])
  BY <1>10 DEF AllDiffer, Deduplicated
<1>13. ComesFrom(seen[N], rs)
  <2> SUFFICES ASSUME NEW m \in DOMAIN seen[N]
               PROVE  \E k \in DOMAIN rs : \E n \in DOMAIN rs[k].chunks :
                        /\ seen[N][m].at = rs[k].at
                        /\ seen[N][m].content = rs[k].chunks[n].content
    BY DEF ComesFrom
  <2>1. PICK j \in DOMAIN found : seen[N][m] = found[j]
    BY <1>3, <1>10 DEF Deduplicated
  <2> QED
    BY <1>1, <2>1 DEF ComesFrom
<1> QED
  BY <1>2, <1>10, <1>11, <1>12, <1>13

(* The results that succeeded, all of them and only they, in their order.     *)
LEMMA OkFacts ==
  ASSUME NEW rs \in Seq(Result)
  PROVE  /\ OkResults(rs) \in Seq(Result)
         /\ Len(OkResults(rs)) = Cardinality({k \in DOMAIN rs : rs[k].ok})
         /\ \A k \in DOMAIN rs : rs[k].ok =>
              \E n \in DOMAIN OkResults(rs) : OkResults(rs)[n] = rs[k]
         /\ \A n \in DOMAIN OkResults(rs) :
              \E k \in DOMAIN rs : rs[k].ok /\ OkResults(rs)[n] = rs[k]
<1> DEFINE kept == {k \in DOMAIN rs : rs[k].ok}
           key == [k \in DOMAIN rs |-> 0]
           ok == Sorted(rs, kept, key)
<1>1. OkResults(rs) = ok
  BY DEF OkResults, Filtered
<1>2. /\ kept \in SUBSET DOMAIN rs
      /\ \A k \in DOMAIN rs : key[k] \in Int
      /\ \A k \in DOMAIN rs : rs[k].ok => k \in kept
      /\ \A k \in kept : k \in DOMAIN rs /\ rs[k].ok
  OBVIOUS
<1> HIDE DEF kept, key
<1>3. ok \in Seq(Result) /\ Len(ok) = Cardinality(kept) /\ IsSortedPart(ok, rs, kept, key)
  BY <1>2, SortedFacts
<1> HIDE DEF ok
<1>4. PICK pick \in [DOMAIN ok -> kept] :
        /\ \A n \in DOMAIN ok : ok[n] = rs[pick[n]]
        /\ \A k \in kept : \E n \in DOMAIN ok : pick[n] = k
  BY <1>3 DEF IsSortedPart
<1>5. ASSUME NEW k \in kept PROVE \E n \in DOMAIN ok : ok[n] = rs[k]
  BY <1>4
<1>6. ASSUME NEW n \in DOMAIN ok
      PROVE  \E k \in DOMAIN rs : rs[k].ok /\ ok[n] = rs[k]
  <2>1. pick[n] \in kept /\ ok[n] = rs[pick[n]]
    BY <1>4
  <2> QED
    BY <1>2, <2>1
<1>7. Len(ok) = Cardinality({k \in DOMAIN rs : rs[k].ok})
  BY <1>3 DEF kept
<1> QED
  BY <1>1, <1>2, <1>3, <1>5, <1>6, <1>7

(* ------------------------------- a whole request ---------------------------- *)

(* The rules know the intents the planner does, and the model may reply any.  *)
LEMMA RecognizedIntent ==
  ASSUME NEW matched \in SUBSET DOMAIN Rules, NEW recognized \in Recognize(matched)
  PROVE  recognized.intent \in Intents /\ recognized.heard \in BOOLEAN
<1>1. DOMAIN Rules = 1..4 /\ Candidates(matched) \subseteq 1..4
  BY DEF Rules, Candidates
<1>2. \A k \in 1..4 : Rules[k] \in Primaries /\ RuleComplexity[k] \in Complexities
  BY DEF Rules, RuleComplexity, Primaries, Complexities
<1>3. RuleClassify(matched) \subseteq Intents
  BY <1>1, <1>2 DEF RuleClassify, Intents
<1> QED
  BY <1>3 DEF Recognize

(* Without a reply of the model the rewriting is the question as asked.       *)
LEMMA RewritingHandedOver ==
  ASSUME NEW i, NEW remembered \in BOOLEAN, NEW multiQuery \in BOOLEAN,
         NEW r \in Rewrite(i, remembered, multiQuery)
  PROVE  r \in Rewritings
<1>1. PICK c \in Coreferenced(remembered), x \in Expanded :
        r = [question |-> c.question, expanded |-> x.expanded, heard |-> c.heard \/ x.heard]
  BY DEF Rewrite
<1>2. /\ c.question \in Questions /\ c.heard \in BOOLEAN
      /\ ~c.heard => c.question = Asked
  BY PlannerAssumption DEF Coreferenced
<1>3. /\ x.expanded \in Expansions /\ x.heard \in BOOLEAN
      /\ ~x.heard => x.expanded = <<>>
  BY PlannerAssumption DEF Expanded
<1> QED
  BY <1>1, <1>2, <1>3 DEF Rewritings

(* Every step of a request is a step of its planning, or none.                *)
LEMMA FlowStepPlans ==
  ASSUME [FlowNext]_flowVars
  PROVE  [Next]_plannerVars
<1>1. ASSUME Understand PROVE Next
  <2>1. CASE HopStep
    BY <2>1 DEF Next
  <2>2. ASSUME NEW matched \in SUBSET DOMAIN Rules, NEW remembered \in BOOLEAN,
               NEW multiQuery \in BOOLEAN, NEW max \in Caps, NEW recognized \in Recognize(matched),
               NEW rewritten \in Rewrite(recognized.intent, remembered, multiQuery),
               PlanFrom(recognized, rewritten, max)
        PROVE  Next
    <3> DEFINE r == [rewritten EXCEPT !.heard = @ \/ recognized.heard]
    <3>1. recognized.intent \in Intents /\ recognized.heard \in BOOLEAN
      BY RecognizedIntent
    <3>2. rewritten \in Rewritings
      BY RewritingHandedOver
    <3>3. r \in Rewritings
      BY <3>1, <3>2 DEF Rewritings
    <3>4. PlanFor(recognized.intent, r, max)
      BY <2>2 DEF PlanFrom
    <3> HIDE DEF r
    <3> QED
      BY <3>1, <3>3, <3>4 DEF Next
  <2> QED
    BY <1>1, <2>1, <2>2 DEF Understand
<1>2. ASSUME UnderstandRaises \/ ExecuteNext \/ ExecuteReturns \/ ExecuteRaises
               \/ SynthesizeContext \/ Ended
      PROVE  UNCHANGED plannerVars
  BY <1>2 DEF UnderstandRaises, ExecuteNext, ExecuteReturns, ExecuteRaises, SynthesizeContext,
              Ended, flowVars
<1>3. CASE UNCHANGED flowVars
  BY <1>3 DEF flowVars
<1> QED
  BY <1>1, <1>2, <1>3 DEF FlowNext

(* A request plans as the planner does.                                       *)
THEOREM FlowImplementsPlanner == FlowSpec => Spec
<1>1. FlowInit => Init
  BY DEF FlowInit
<1> QED
  BY <1>1, FlowStepPlans, PTL DEF FlowSpec, Spec

(* What holds of a request from the first to the last step: the results are   *)
(* answers to sub-queries of the plan, all of them once the executor returned,*)
(* and the context of an answer is made of them.                              *)
FlowInv ==
  /\ IInv
  /\ stage \in {"plan", "execute", "synthesize"} \cup Ends
  /\ stage = "plan" => phase # "planned"
  /\ stage \notin {"plan", "raised"} => phase = "planned"
  /\ results \in [DOMAIN results -> Result]
  /\ DOMAIN results \subseteq DOMAIN plan.subs
  /\ \A k \in DOMAIN results : results[k].at = k
  /\ stage # "execute" => results \in Seq(Result)
  /\ stage = "plan" => results = <<>>
  /\ context \in Seq(ContextEntry)
  /\ stage # "answered" => context = <<>>
  /\ stage = "answered" => context = Synthesize(intent, plan.subs, results)

(* What the executor answers is a result for the sub-query.                   *)
LEMMA AnswersAreResults ==
  ASSUME results \in [DOMAIN results -> Result], NEW i \in Nat, NEW r \in Answers(i)
  PROVE  r \in Result /\ r.at = i
<1>1. \A j \in DOMAIN results : results[j] \in Result
  OBVIOUS
<1>2. <<>> \in Seq(Chunk) /\ ChunkLists \subseteq Seq(Chunk) /\ {0, i} \subseteq Nat
  BY FlowAssumption
<1>3. CASE \E id \in {0, i}, c \in ChunkLists :
             r = [at |-> i, query |-> id, ok |-> TRUE, chunks |-> c]
  BY <1>2, <1>3 DEF Result
<1>4. CASE \E id \in {0, i} : r = [at |-> i, query |-> id, ok |-> FALSE, chunks |-> <<>>]
  BY <1>2, <1>4 DEF Result
<1>5. CASE \E j \in DOMAIN results : r = [results[j] EXCEPT !.at = i]
  BY <1>1, <1>5 DEF Result
<1> QED
  BY <1>3, <1>4, <1>5 DEF Answers

(* What is made of the results is a context.                                  *)
LEMMA SynthesizeType ==
  ASSUME NEW i, NEW subs \in Seq(PlannedQuery), NEW rs \in Seq(Result)
  PROVE  Synthesize(i, subs, rs) \in Seq(ContextEntry)
<1>1. OkResults(rs) \in Seq(Result)
  BY OkFacts
<1>2. /\ SynthesizeCompare(OkResults(rs)) \in Seq(ContextEntry)
      /\ SynthesizeChain(OkResults(rs), subs) \in Seq(ContextEntry)
      /\ SynthesizeAggregate(OkResults(rs)) \in Seq(ContextEntry)
  BY <1>1, CompareFacts, ChainFacts, AggregateFacts
<1> QED
  BY <1>2 DEF Synthesize

LEMMA FlowInitOK == FlowInit => FlowInv
<1> SUFFICES ASSUME FlowInit PROVE FlowInv
  OBVIOUS
<1>1. IInv /\ phase = "idle" /\ plan.subs = <<>>
  BY InitOK DEF FlowInit, Init
<1>2. /\ <<>> \in Seq(Result) /\ <<>> \in Seq(ContextEntry)
      /\ <<>> \in [DOMAIN <<>> -> Result] /\ DOMAIN <<>> = {}
  OBVIOUS
<1> QED
  BY <1>1, <1>2 DEF FlowInv, FlowInit

(* Until there is a plan nothing else is known of the request.               *)
LEMMA UnderstandOK ==
  ASSUME FlowInv, Understand, IInv'
  PROVE  FlowInv'
<1>1. /\ stage = "plan" /\ stage' = (IF phase' = "planned" THEN "execute" ELSE "plan")
      /\ results' = results /\ context' = context
  BY DEF Understand
<1>2. /\ results' = <<>> /\ context' = <<>> /\ results' \in Seq(Result)
      /\ context' \in Seq(ContextEntry) /\ results' \in [DOMAIN results' -> Result]
  BY <1>1 DEF FlowInv
<1>3. DOMAIN results' = {}
  BY <1>2
<1> QED
  BY <1>1, <1>2, <1>3 DEF FlowInv

(* Nothing is known of the request but that it raised.                       *)
LEMMA UnderstandRaisesOK ==
  ASSUME FlowInv, UnderstandRaises, IInv'
  PROVE  FlowInv'
BY DEF FlowInv, UnderstandRaises, plannerVars, Ends

(* The next result is the answer to the sub-query that was next.              *)
LEMMA ExecuteNextOK ==
  ASSUME FlowInv, ExecuteNext, IInv'
  PROVE  FlowInv'
<1>0. PICK i \in DOMAIN plan.subs \ DOMAIN results : \E r \in Answers(i) :
        results' = [k \in DOMAIN results \cup {i} |-> IF k = i THEN r ELSE results[k]]
  BY DEF ExecuteNext
<1>1. PICK r \in Answers(i) :
        results' = [k \in DOMAIN results \cup {i} |-> IF k = i THEN r ELSE results[k]]
  BY <1>0
<1>2. /\ results \in [DOMAIN results -> Result] /\ DOMAIN results \subseteq DOMAIN plan.subs
      /\ DOMAIN plan.subs \subseteq Nat
      /\ UNCHANGED <<plannerVars, stage, context>> /\ stage = "execute"
  BY LenProperties DEF FlowInv, IInv, TypeOK, ExecuteNext
<1>3. r \in Result /\ r.at = i
  BY <1>1, <1>2, AnswersAreResults
<1>4. DOMAIN results' = DOMAIN results \cup {i} /\ results' \in [DOMAIN results' -> Result]
  BY <1>1, <1>2, <1>3
<1>5. \A k \in DOMAIN results' : results'[k].at = k
  BY <1>1, <1>3, <1>4 DEF FlowInv
<1> QED
  BY <1>1, <1>2, <1>4, <1>5 DEF FlowInv, plannerVars

(* The results are complete; nothing else changes.                            *)
LEMMA ExecuteReturnsOK ==
  ASSUME FlowInv, ExecuteReturns, IInv'
  PROVE  FlowInv'
<1>1. Len(plan.subs) \in Nat /\ DOMAIN plan.subs = 1..Len(plan.subs)
  BY LenProperties DEF FlowInv, IInv, TypeOK
<1>2. results \in [1..Len(plan.subs) -> Result]
  BY <1>1 DEF FlowInv, ExecuteReturns
<1>3. results \in Seq(Result)
  BY <1>1, <1>2, SeqDef
<1> QED
  BY <1>3 DEF FlowInv, ExecuteReturns, plannerVars

(* The results are gone with the exception.                                   *)
LEMMA ExecuteRaisesOK ==
  ASSUME FlowInv, ExecuteRaises, IInv'
  PROVE  FlowInv'
<1>1. <<>> \in Seq(Result) /\ <<>> \in [DOMAIN <<>> -> Result] /\ DOMAIN <<>> = {}
  OBVIOUS
<1> QED
  BY <1>1 DEF FlowInv, ExecuteRaises, plannerVars, Ends

(* The context is that of the results.                                        *)
LEMMA SynthesizeContextOK ==
  ASSUME FlowInv, SynthesizeContext, IInv'
  PROVE  FlowInv'
<1>0. results \in Seq(Result) /\ plan.subs \in Seq(PlannedQuery)
  BY DEF FlowInv, IInv, TypeOK, SynthesizeContext
<1>1. Synthesize(intent, plan.subs, results) \in Seq(ContextEntry)
  BY <1>0, SynthesizeType
<1>2. CASE OkResults(results) = <<>>
  BY <1>2 DEF FlowInv, SynthesizeContext, plannerVars, Ends
<1>3. CASE OkResults(results) # <<>>
  BY <1>1, <1>3 DEF FlowInv, SynthesizeContext, plannerVars, Ends
<1> QED
  BY <1>2, <1>3

LEMMA FlowNextOK == FlowInv /\ [FlowNext]_flowVars => FlowInv'
<1> SUFFICES ASSUME FlowInv, [FlowNext]_flowVars PROVE FlowInv'
  OBVIOUS
<1>1. IInv'
  BY FlowStepPlans, NextOK DEF FlowInv
<1>2. CASE UNCHANGED flowVars
  BY <1>1, <1>2 DEF FlowInv, flowVars, plannerVars
<1>3. CASE Ended
  BY <1>1, <1>3 DEF FlowInv, flowVars, plannerVars, Ended
<1> QED
  BY <1>1, <1>2, <1>3, UnderstandOK, UnderstandRaisesOK, ExecuteNextOK, ExecuteReturnsOK,
     ExecuteRaisesOK, SynthesizeContextOK DEF FlowNext

(* The inductive invariant holds of every behaviour.                          *)
LEMMA FlowInvHolds == FlowSpec => []FlowInv
BY FlowInitOK, FlowNextOK, PTL DEF FlowSpec

(* ------------------------------------ theorems ------------------------------ *)

(* The variables of a request keep their types; in particular a context holds *)
(* contents that backends returned, whatever the model planned.               *)
THEOREM FlowTypeCorrect == FlowSpec => []FlowTypeOK
<1>1. FlowInv => FlowTypeOK
  <2> SUFFICES ASSUME FlowInv PROVE FlowTypeOK
    OBVIOUS
  <2>1. \A k \in DOMAIN context : context[k] \in ContextEntry
    BY LenProperties, ElementOfSeq DEF FlowInv
  <2> QED
    BY <2>1 DEF FlowInv, IInv, FlowTypeOK, ContextEntry
<1> QED
  BY <1>1, FlowInvHolds, PTL

(* The context of an answer shows what the results that succeeded hold.       *)
LEMMA ContextShowsAll ==
  ASSUME FlowInv, stage = "answered", ~(Mode = "compare" /\ Cardinality(Succeeded) < 2)
  PROVE  ShowsAll(context, OkResults(results))
<1> DEFINE ok == OkResults(results)
<1>1. ok \in Seq(Result) /\ Len(ok) = Cardinality(Succeeded) /\ Len(ok) \in Nat
  BY OkFacts, LenProperties DEF FlowInv, Succeeded
<1>2. /\ context = Synthesize(intent, plan.subs, results) /\ Mode = SelectMode(intent)
      /\ plan.subs \in Seq(PlannedQuery)
  BY DEF FlowInv, IInv, TypeOK, Mode
<1> HIDE DEF ok
<1>3. CASE Mode = "compare"
  <2>1. Len(ok) >= 2
    BY <1>1, <1>3
  <2>2. context = SynthesizeCompare(ok)
    BY <1>2, <1>3 DEF Synthesize, ok
  <2> QED
    BY <1>1, <2>1, <2>2, CompareFacts DEF ok
<1>4. CASE Mode = "chain"
  <2>1. context = SynthesizeChain(ok, plan.subs)
    BY <1>2, <1>4 DEF Synthesize, ok
  <2> QED
    BY <1>1, <1>2, <2>1, ChainFacts DEF ok
<1>5. CASE Mode # "compare" /\ Mode # "chain"
  <2>1. context = SynthesizeAggregate(ok)
    BY <1>2, <1>5 DEF Synthesize, ok
  <2> QED
    BY <1>1, <2>1, AggregateFacts DEF ok
<1> QED
  BY <1>3, <1>4, <1>5

(* Whatever failed and whatever came from the cache, every chunk of a result  *)
(* that succeeded is in the context or a near duplicate of an entry, but for  *)
(* the comparison with one result (result_synthesizer.py:62,101).             *)
THEOREM NothingFoundIsLost == FlowSpec => []NothingLost
<1>1. FlowInv => NothingLost
  <2> SUFFICES ASSUME FlowInv, stage = "answered",
                      ~(Mode = "compare" /\ Cardinality(Succeeded) < 2),
                      NEW k \in Succeeded, NEW n \in DOMAIN results[k].chunks,
                      results[k].chunks[n].content # Blank
               PROVE  Kept(results[k].chunks[n])
    BY DEF NothingLost
  <2>1. ShowsAll(context, OkResults(results))
    BY ContextShowsAll
  <2>2. PICK i \in DOMAIN OkResults(results) : OkResults(results)[i] = results[k]
    BY OkFacts DEF FlowInv, Succeeded
  <2> QED
    BY <2>1, <2>2 DEF ShowsAll, Kept
<1> QED
  BY <1>1, FlowInvHolds, PTL

(* An aggregated context has no two near duplicates (result_synthesizer.py:   *)
(* 138-147).                                                                  *)
THEOREM ContextHasNoDuplicates == FlowSpec => []NoDuplicates
<1>1. FlowInv => NoDuplicates
  <2> SUFFICES ASSUME FlowInv, stage = "answered", Mode = "aggregate" PROVE AllDiffer(context)
    BY DEF NoDuplicates, AllDiffer
  <2>1. context = SynthesizeAggregate(OkResults(results))
    BY DEF FlowInv, Synthesize, Mode
  <2>2. OkResults(results) \in Seq(Result)
    BY OkFacts DEF FlowInv
  <2> QED
    BY <2>1, <2>2, AggregateFacts
<1> QED
  BY <1>1, FlowInvHolds, PTL

(* The steps of a chain follow the waves, whatever numbers the model gave them*)
(* (result_synthesizer.py:123).                                               *)
THEOREM StepsFollowWaves == FlowSpec => []ChainFollowsWaves
<1>1. FlowInv => ChainFollowsWaves
  <2> DEFINE ok == OkResults(results)
             wave(r) == FindWave(r.query, plan.subs)
  <2> SUFFICES ASSUME FlowInv, stage = "answered", Mode = "chain",
                      \A k \in Succeeded : results[k].query = results[k].at,
                      NEW m \in DOMAIN context, NEW n \in DOMAIN context,
                      WaveAt(context[m]) < WaveAt(context[n])
               PROVE  context[m].part < context[n].part
    BY DEF ChainFollowsWaves
  <2>1. context = SynthesizeChain(ok, plan.subs)
    BY DEF FlowInv, Synthesize, Mode
  <2>2. ok \in Seq(Result) /\ plan.subs \in Seq(PlannedQuery)
    BY OkFacts DEF FlowInv, IInv, TypeOK
  <2>3. \A i \in DOMAIN ok : \E k \in DOMAIN results : results[k].ok /\ ok[i] = results[k]
    BY OkFacts DEF FlowInv
  <2> HIDE DEF ok
  <2>4. PICK of \in [DOMAIN context -> DOMAIN ok] :
          /\ \A i \in DOMAIN context : context[i].at = ok[of[i]].at
          /\ \A i, j \in DOMAIN context :
               wave(ok[of[i]]) < wave(ok[of[j]]) => context[i].part < context[j].part
    <3>1. StepsFollow(context, ok, plan.subs)
      BY <2>1, <2>2, ChainFacts
    <3> QED
      BY <3>1 DEF StepsFollow
  <2>5. ASSUME NEW i \in DOMAIN context
        PROVE  wave(ok[of[i]]) = WaveAt(context[i])
    <3>1. of[i] \in DOMAIN ok /\ context[i].at = ok[of[i]].at
      BY <2>4
    <3>2. PICK k \in DOMAIN results : results[k].ok /\ ok[of[i]] = results[k]
      BY <2>3, <3>1
    <3>3. results[k].query = k /\ results[k].at = k
      BY <3>2 DEF FlowInv, Succeeded
    <3>4. k \in DOMAIN plan.subs
      BY <3>2 DEF FlowInv
    <3> QED
      BY <3>1, <3>2, <3>3, <3>4 DEF WaveAt, FindWave
  <2> QED
    BY <2>4, <2>5
<1> QED
  BY <1>1, FlowInvHolds, PTL

(* The context of an answer shows nothing but what results that succeeded     *)
(* hold, under the sub-query that they are the answer to.                     *)
THEOREM NothingIsInvented ==
  FlowSpec =>
    [](stage = "answered" =>
         \A m \in DOMAIN context : \E k \in Succeeded :
           /\ context[m].at = k
           /\ \E n \in DOMAIN results[k].chunks : context[m].content = results[k].chunks[n].content)
<1> DEFINE sound ==
      stage = "answered" =>
        \A m \in DOMAIN context : \E k \in Succeeded :
          /\ context[m].at = k
          /\ \E n \in DOMAIN results[k].chunks : context[m].content = results[k].chunks[n].content
<1>1. FlowInv => sound
  <2> SUFFICES ASSUME FlowInv, stage = "answered", NEW m \in DOMAIN context
               PROVE  \E k \in Succeeded :
                        /\ context[m].at = k
                        /\ \E n \in DOMAIN results[k].chunks :
                             context[m].content = results[k].chunks[n].content
    OBVIOUS
  <2> DEFINE ok == OkResults(results)
  <2>1. /\ ok \in Seq(Result) /\ plan.subs \in Seq(PlannedQuery)
        /\ \A i \in DOMAIN ok : \E k \in DOMAIN results : results[k].ok /\ ok[i] = results[k]
    BY OkFacts DEF FlowInv, IInv, TypeOK
  <2>2. context \in {SynthesizeCompare(ok), SynthesizeChain(ok, plan.subs), SynthesizeAggregate(ok)}
    BY DEF FlowInv, Synthesize
  <2> HIDE DEF ok
  <2>3. ComesFrom(context, ok)
    BY <2>1, <2>2, CompareFacts, ChainFacts, AggregateFacts
  <2>4. PICK i \in DOMAIN ok : \E n \in DOMAIN ok[i].chunks :
          context[m].at = ok[i].at /\ context[m].content = ok[i].chunks[n].content
    BY <2>3 DEF ComesFrom
  <2>5. PICK k \in DOMAIN results : results[k].ok /\ ok[i] = results[k]
    BY <2>1
  <2>6. k \in Succeeded /\ results[k].at = k
    BY <2>5 DEF FlowInv, Succeeded
  <2> QED
    BY <2>4, <2>5, <2>6
<1> HIDE DEF sound
<1>2. FlowSpec => []sound
  BY <1>1, FlowInvHolds, PTL
<1> QED
  BY <1>2 DEF sound

(* A request plans as the planner does, so what holds of every plan holds of  *)
(* the plan that is executed and synthesized from.                            *)
THEOREM RequestsPlanSoundly ==
  FlowSpec => [](DependenciesEarlier /\ PlanWithinCap /\ ChainOrdered)
BY FlowImplementsPlanner, PlanIsAcyclic, CapHolds, WavesInOrder, PTL
===============================================================================
