------------------------------ MODULE QueryFlow -------------------------------
(* One request on its way through the ICAR stages as the request handlers call*)
(* them (api/rest_server.py execute): intent and rewriting, planning,         *)
(* execution, synthesis.  The first two are QueryUnderstanding, planning is   *)
(* QueryPlanner, synthesis is ResultSynthesizer.  The executor is its         *)
(* contract: it answers every sub-query of the plan or raises (DagExecutor    *)
(* implements ExecutorContract); what it answers may come from its cache.     *)
EXTENDS QueryUnderstanding, ResultSynthesizer

CONSTANTS ChunkLists  \* what backends return for one sub-query

ASSUME FlowAssumption == ChunkLists \subseteq Seq(Chunk)

VARIABLES
  stage,    \* "plan", "execute", "synthesize", or how the handler ended
  results,  \* results[i]: the answer to sub-query i, once it has one
  context   \* the synthesized context

flowVars == <<plannerVars, stage, results, context>>

Ends == {"answered", "fallback", "raised"}

FlowInit ==
  /\ Init
  /\ stage = "plan"
  /\ results = <<>>
  /\ context = <<>>

(* What is planned from: the rewriting, and whether the model was heard.      *)
PlanFrom(recognized, rewritten, max) ==
  PlanFor(recognized.intent, [rewritten EXCEPT !.heard = @ \/ recognized.heard], max)

(* recognize, rewrite and plan, one after the other.                          *)
Understand ==
  /\ stage = "plan"
  /\ \/ /\ phase = "idle"
        /\ \E matched \in SUBSET DOMAIN Rules, remembered, multiQuery \in BOOLEAN, max \in Caps :
             \E recognized \in Recognize(matched) :
               \E rewritten \in Rewrite(recognized.intent, remembered, multiQuery) :
                 PlanFrom(recognized, rewritten, max)
     \/ HopStep
  /\ stage' = IF phase' = "planned" THEN "execute" ELSE "plan"
  /\ UNCHANGED <<results, context>>

(* The reply of the model has a confidence that is no number, or a question   *)
(* that is no text: recognize() or rewrite() raises, and no handler catches it*)
UnderstandRaises ==
  /\ stage = "plan"
  /\ phase = "idle"
  /\ stage' = "raised"
  /\ UNCHANGED <<plannerVars, results, context>>

(* What the executor may answer to sub-query i: what it computed, or what the *)
(* cache holds for the same text, from another request or from a sub-query of *)
(* an earlier wave, which may have a later place in the plan.  That texts with*)
(* results prepended are other keys is left out: it only takes answers away.  *)
Answers(i) ==
  {[at |-> i, query |-> id, ok |-> TRUE, chunks |-> c] : id \in {0, i}, c \in ChunkLists}
    \cup {[at |-> i, query |-> id, ok |-> FALSE, chunks |-> <<>>] : id \in {0, i}}
    \cup {[results[j] EXCEPT !.at = i] :
            j \in {j \in DOMAIN results : /\ plan.subs[j].q = plan.subs[i].q
                                          /\ plan.subs[j].group < plan.subs[i].group}}

(* Wave after wave, and within one in the order of the plan, since the order  *)
(* there makes no difference: i is to be answered before j, or is j.          *)
Precedes(i, j) ==
  \/ plan.subs[i].group < plan.subs[j].group
  \/ plan.subs[i].group = plan.subs[j].group /\ i <= j

ExecuteNext ==
  /\ stage = "execute"
  /\ \E i \in DOMAIN plan.subs \ DOMAIN results :
       /\ \A j \in DOMAIN plan.subs \ DOMAIN results : Precedes(i, j)
       /\ \E r \in Answers(i) :
            results' = [k \in DOMAIN results \cup {i} |-> IF k = i THEN r ELSE results[k]]
  /\ UNCHANGED <<plannerVars, stage, context>>

ExecuteReturns ==
  /\ stage = "execute"
  /\ DOMAIN results = DOMAIN plan.subs
  /\ stage' = "synthesize"
  /\ UNCHANGED <<plannerVars, results, context>>

(* The time of a wave is over or the pool is closed: no handler catches it.   *)
ExecuteRaises ==
  /\ stage = "execute"
  /\ plan.subs # <<>>
  /\ stage' = "raised"
  /\ results' = <<>>
  /\ UNCHANGED <<plannerVars, context>>

SynthesizeContext ==
  /\ stage = "synthesize"
  /\ IF OkResults(results) = <<>>
     THEN stage' = "fallback" /\ UNCHANGED context
     ELSE stage' = "answered" /\ context' = Synthesize(intent, plan.subs, results)
  /\ UNCHANGED <<plannerVars, results>>

Ended == stage \in Ends /\ UNCHANGED flowVars

FlowNext ==
  \/ Understand
  \/ UnderstandRaises
  \/ ExecuteNext
  \/ ExecuteReturns
  \/ ExecuteRaises
  \/ SynthesizeContext
  \/ Ended

FlowSpec == FlowInit /\ [][FlowNext]_flowVars

(* --------------------------------- properties --------------------------------- *)

FlowTypeOK ==
  /\ TypeOK
  /\ stage \in {"plan", "execute", "synthesize"} \cup Ends
  /\ DOMAIN results \subseteq DOMAIN plan.subs /\ \A k \in DOMAIN results : results[k] \in Result
  /\ stage # "execute" => results \in Seq(Result)
  /\ \A k \in DOMAIN context : context[k].content \in Contents

Mode == SelectMode(intent)
Succeeded == {k \in DOMAIN results : results[k].ok}

Same(c, d) == c = d \/ <<c, d>> \in Similar

(* A chunk of results[k] is in the context, itself or a near duplicate of it. *)
Kept(chunk) == \E n \in DOMAIN context : Same(context[n].content, chunk.content)

(* Nothing that was found is lost on the way into the context, however many   *)
(* other sub-queries failed and whatever came from the cache: every chunk of a*)
(* result that succeeded is there, up to near duplicates.  The exception is a *)
(* comparison with one result (result_synthesizer.py:101).                    *)
NothingLost ==
  stage = "answered" /\ ~(Mode = "compare" /\ Cardinality(Succeeded) < 2) =>
    \A k \in Succeeded : \A n \in DOMAIN results[k].chunks :
      results[k].chunks[n].content = Blank \/ Kept(results[k].chunks[n])

(* No two entries of an aggregated context are near duplicates, although being*)
(* one is not transitive and the entries come from several sub-queries        *)
(* (result_synthesizer.py:138-147).                                           *)
NoDuplicates ==
  stage = "answered" /\ Mode = "aggregate" =>
    \A m, n \in DOMAIN context : m < n => ~Same(context[m].content, context[n].content)

WaveAt(entry) == plan.subs[entry.at].group

(* The steps of a chain follow the waves, when every result was computed for  *)
(* this request; also when the model numbered the steps backwards             *)
(* (result_synthesizer.py:123).                                               *)
ChainFollowsWaves ==
  stage = "answered" /\ Mode = "chain" /\ (\A k \in Succeeded : results[k].query = results[k].at) =>
    \A m, n \in DOMAIN context :
      WaveAt(context[m]) < WaveAt(context[n]) => context[m].part < context[n].part

(* ARCHITECTURE.md:169: when some sub-query fails, the others still make a    *)
(* usable context.                                                            *)
PartialFailureUsable ==
  /\ stage = "answered"
  /\ \E k \in DOMAIN results : ~results[k].ok
  /\ \E k \in Succeeded : results[k].chunks # <<>>
  => context # <<>>
===============================================================================
