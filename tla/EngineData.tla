------------------------------ MODULE EngineData ------------------------------
(* The data that the planner, the DAG executor and the result synthesizer     *)
(* hand to each other (engine/models.py), reduced to what the control of      *)
(* those components reads.                                                    *)
(*                                                                            *)
(* A sub-query is named by the request it belongs to and its position in the  *)
(* plan: this stands for its query_id, a fresh uuid.                          *)
EXTENDS Integers, Sequences

CONSTANTS Requests,   \* the calls of the executor that are in progress
          Questions,  \* the question texts planners write
          Contexts,   \* the context maps (user, session, knowledge bases)
          Contents,   \* the chunk contents that backends return
          MaxSub,     \* the longest plan
          Spelling,   \* Spelling[<<text, ctx>>]: the string they are joined to
          Calls,      \* the calls execute(plan, context) that are made
          None,       \* no content: an empty list of chunks
          NoResult    \* a sub-query without an entry in the results map

(* A query text: the planner's question, after the contents of the            *)
(* dependency results that the executor prepended to it.  The contents follow *)
(* the order of sq.dependencies in the code; only raw texts are ever looked   *)
(* up, so nothing depends on that order.                                      *)
Text == [q : Questions, inj : SUBSET Contents]

RawText(question) == [q |-> question, inj |-> {}]

(* SubQuery: deps are positions in the plan.  The planner names earlier       *)
(* positions (QueryPlanner), not always of earlier groups; the executor       *)
(* validates nothing and relies on neither.                                   *)
SubQuery == [q : Questions, group : Int, deps : SUBSET (1..MaxSub)]

(* The text and the context as one string: the executor joins "k=v" pairs     *)
(* with "," and puts the text before them with ":", and escapes none of these *)
(* where they occur in a value.  Two texts, or two contexts, may therefore be *)
(* spelled alike: nothing is assumed about Spelling.                          *)
SpelledAlike(text1, ctx1, text2, ctx2) ==
  Spelling[<<text1, ctx1>>] = Spelling[<<text2, ctx2>>]

Ids == Requests \X (1..MaxSub)

(* SubQueryResult.  The fields ctx (the context it was searched in) and born  *)
(* (when it was collected) are history: the code does not store them.         *)
Result == [id : Ids, text : Text, ctx : Contexts, ok : BOOLEAN,
           content : Contents \cup {None}, born : Nat]

ASSUME EngineAssumption ==
  /\ MaxSub \in Nat
  /\ Calls \subseteq [plan : Seq(SubQuery), ctx : Contexts]
  /\ \A c \in Calls : Len(c.plan) <= MaxSub
  /\ None \notin Contents
  /\ NoResult \notin Result
  /\ DOMAIN Spelling = Text \X Contexts
===============================================================================
