-------------------------- MODULE QueryUnderstanding --------------------------
(* engine/intent_recognizer.py and engine/query_rewriter.py: what recognize() *)
(* and rewrite() hand on to the planner, as the sets of their outcomes.  The  *)
(* language model and the memory service are external: a call fails, or       *)
(* replies what nobody validates.  HyDE and the completion of the question are*)
(* left out: they go into the answer as they are, and no later stage decides  *)
(* by them; the expansions, made of the completed question, are any replies.  *)
EXTENDS QueryPlanner

CONSTANTS Threshold  \* rule_confidence_threshold, in hundredths

ASSUME UnderstandingAssumption ==
  /\ Threshold \in Int
  /\ \A e \in Expansions : Len(e) <= 4  \* _expand_multi_query cuts them to 4

(* The rules in the order in which they are tried.                            *)
Rules == <<"comparison", "multi_hop", "procedural", "fact_lookup">>

RuleComplexity == <<"compound", "multi-hop", "simple", "simple">>

(* Every pattern is longer than 20 characters, so a match counts 0.75; without*)
(* one the question is taken for a fact lookup, with little confidence.       *)
Confidence(matched) == IF matched = {} THEN 35 ELSE 75

(* The numbers of the rules that match, or of the default without one.        *)
Candidates(matched) == IF matched = {} THEN {4} ELSE matched

(* _rule_classify: the first rule that matches decides.                       *)
RuleClassify(matched) ==
  {[primary |-> Rules[k], complexity |-> RuleComplexity[k]] :
     k \in {k \in Candidates(matched) : \A j \in Candidates(matched) : k <= j}}

(* recognize: the rules if they are sure enough, or else what the model       *)
(* replies, or the rules again if it fails.                                   *)
Recognize(matched) ==
  [intent : RuleClassify(matched), heard : {FALSE}]
    \cup (IF Confidence(matched) < Threshold THEN [intent : Intents, heard : {TRUE}] ELSE {})

(* _resolve_coreferences: without entries in the working memory, or when the  *)
(* model fails, the question as asked.  A reply without text is as good as    *)
(* that (query_planner.py:112).                                               *)
Coreferenced(remembered) ==
  [question : {Asked}, heard : {FALSE}]
    \cup (IF remembered THEN [question : Questions, heard : {TRUE}] ELSE {})

(* _expand_multi_query.                                                       *)
Expanded ==
  [expanded : {<<>>}, heard : {FALSE}] \cup [expanded : Expansions, heard : {TRUE}]

(* rewrite: the question is expanded if the request asks for it, unless its   *)
(* complexity is simple; an expansion that takes too long counts for nothing. *)
Rewrite(i, remembered, multiQuery) ==
  {r \in [question : Questions, expanded : Expansions, heard : BOOLEAN] :
     \E c \in Coreferenced(remembered), x \in Expanded :
       /\ x.heard => multiQuery /\ i.complexity # "simple"
       /\ r = [question |-> c.question, expanded |-> x.expanded, heard |-> c.heard \/ x.heard]}
===============================================================================
