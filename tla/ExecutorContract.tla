--------------------------- MODULE ExecutorContract ---------------------------
(* What DAGExecutor.execute promises its callers, with no pool, no futures,   *)
(* no cache and no clock: every sub-query is answered at most once, wave      *)
(* after wave, by an answer to its own question in its own context, or to one *)
(* that is spelled like it; the call returns only when every sub-query is     *)
(* answered, or it raises; after that nothing about the call changes.         *)
EXTENDS EngineData

VARIABLES status,   \* status[r]: "idle", "running", "returned" or "raised"
          asked,    \* asked[r]: the plan and context of call r
          answer    \* answer[t]: the result of sub-query t, or NoResult

contractVars == <<status, asked, answer>>

(* The sub-queries of call r, and those of them in earlier waves than i.      *)
Subs(r) == DOMAIN asked[r].plan
Earlier(r, i) == {j \in Subs(r) : asked[r].plan[j].group < asked[r].plan[i].group}

Answered(r, S) == \A i \in S : answer[<<r, i>>] # NoResult

(* x answers the question of sub-query i of call r, with whatever contents    *)
(* before it, in the context of r, or it answers what is spelled like that.   *)
Answers(x, r, i) ==
  /\ x \in Result
  /\ \E contents \in SUBSET Contents :
       SpelledAlike(x.text, x.ctx, [q |-> asked[r].plan[i].q, inj |-> contents], asked[r].ctx)

ContractInit ==
  /\ asked \in [Requests -> Calls]
  /\ status = [r \in Requests |-> "idle"]
  /\ answer = [t \in Ids |-> NoResult]

(* A call of an empty plan returns the empty list at once.                    *)
Accept(r) ==
  /\ status[r] = "idle"
  /\ status' = [status EXCEPT ![r] = IF Subs(r) = {} THEN "returned" ELSE "running"]
  /\ UNCHANGED <<asked, answer>>

Answer(r, i) ==
  /\ status[r] = "running"
  /\ i \in Subs(r)
  /\ answer[<<r, i>>] = NoResult
  /\ Answered(r, Earlier(r, i))
  /\ Answers(answer'[<<r, i>>], r, i)
  /\ answer' = [answer EXCEPT ![<<r, i>>] = answer'[<<r, i>>]]
  /\ UNCHANGED <<status, asked>>

Return(r) ==
  /\ status[r] = "running"
  /\ Answered(r, Subs(r))
  /\ status' = [status EXCEPT ![r] = "returned"]
  /\ UNCHANGED <<asked, answer>>

Raise(r) ==
  /\ status[r] = "running"
  /\ status' = [status EXCEPT ![r] = "raised"]
  /\ UNCHANGED <<asked, answer>>

ContractNext ==
  \E r \in Requests : \/ Accept(r)
                      \/ \E i \in Subs(r) : Answer(r, i)
                      \/ Return(r)
                      \/ Raise(r)

ContractSpec == ContractInit /\ [][ContractNext]_contractVars
===============================================================================
