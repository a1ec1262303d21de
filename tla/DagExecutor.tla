----------------------------- MODULE DagExecutor ------------------------------
(* engine/dag_executor.py: calls of DAGExecutor.execute that run in the       *)
(* threads of the server and share one executor object, that is one thread    *)
(* pool and one result cache.                                                 *)
(*                                                                            *)
(* Per call, execute() walks the waves of its plan.  In a wave it goes        *)
(* through the sub-queries in plan order: LookUp asks the cache with the raw  *)
(* text; on a miss Submit injects the dependency results and hands the        *)
(* sub-query to the pool.  Then as_completed() yields the finished futures    *)
(* in batches (AwaitWave, Wake) that Collect takes one by one, until every    *)
(* future of the wave is collected (EndWave) or the time of the wave is over  *)
(* (WaveTimeout), when as_completed raises TimeoutError out of execute().     *)
(*                                                                            *)
(* The pool runs the submitted tasks in order, on MaxWorkers threads: Start   *)
(* and Finish.  Nothing cancels a future.                                     *)
(*                                                                            *)
(* Redis is off (its default), so the cache is the dictionary of the process. *)
EXTENDS EngineData, FiniteSets

CONSTANTS MaxWorkers,  \* threads of the pool
          TTL,         \* cache_ttl
          MaxTime      \* bound on the clock

ASSUME ExecutorAssumption ==
  /\ MaxWorkers \in Nat \ {0}
  /\ TTL \in Nat
  /\ MaxTime \in Nat
  /\ IsFiniteSet(Requests)

VARIABLES
  call,      \* call[r]: the plan and context of call r
  stage,     \* stage[r]: where call r is in execute()
  wave,      \* wave[r]: the parallel_group of the wave it executes
  pos,       \* pos[r]: next position in the plan for its submission loop
  batch,     \* batch[r]: finished futures that as_completed has yet to yield
  inj,       \* inj[t]: contents prepended to sq.query_text
  results,   \* results[t]: entry of the results map of the call
  fut,       \* fut[t]: the future of sub-query t
  outcome,   \* outcome[t]: what the finished future holds
  queue,     \* work queue of the pool
  poolOpen,  \* FALSE after shutdown()
  cache,     \* _cache
  stamps,    \* _cache_timestamps
  now        \* time.time()

reqVars == <<stage, wave, pos, batch>>
poolVars == <<fut, outcome, queue, poolOpen>>
cacheVars == <<cache, stamps>>
vars == <<call, reqVars, inj, results, poolVars, cacheVars, now>>

Stages == {"idle", "lookup", "submit", "collect", "returned", "raised"}
Ended == {"returned", "raised"}
FutureStates == {"none", "queued", "running", "done"}

Key == {Spelling[p] : p \in Text \X Contexts}

(* ---------------------------- the plan of a call ---------------------------- *)

Subs(r) == DOMAIN call[r].plan
Sub(r, i) == call[r].plan[i]

Members(r, w) == {i \in Subs(r) : Sub(r, i).group = w}

(* sq.query_text as it stands: the dependency contents, then the question.    *)
TextOf(r, i) == [q |-> Sub(r, i).q, inj |-> inj[<<r, i>>]]

(* The waves are the groups in increasing order.                              *)
Groups(r) == {Sub(r, i).group : i \in Subs(r)}
IsFirst(w, S) == w \in S /\ \A v \in S : w <= v

LaterGroups(r) == {w \in Groups(r) : w > wave[r]}

(* Sub-queries of the wave the submission loop has not reached yet.           *)
Unvisited(r) == {i \in Members(r, wave[r]) : i >= pos[r]}

(* futures_map, and the futures in it that as_completed has not yielded.      *)
Futures(r) == {i \in Members(r, wave[r]) : fut[<<r, i>>] # "none"}
Uncollected(r) == {i \in Futures(r) : results[<<r, i>>] = NoResult}
Finished(r) == {i \in Uncollected(r) : fut[<<r, i>>] = "done"}

(* Faulty variant: the key leaves the injected contents out.                  *)
RawKey(text, ctx) == Spelling[<<RawText(text.q), ctx>>]

(* _make_cache_key: the MD5 digest of the string that text and context are    *)
(* joined to.  The digest, but not the joining, is taken as injective.        *)
MakeCacheKey(text, ctx) == Spelling[<<text, ctx>>]

(* Faulty variant: without the age test.                                      *)
FreshForever(key) == key \in DOMAIN stamps

(* The age test of _get_cached; a key without timestamp counts as expired.    *)
Fresh(key) == key \in DOMAIN stamps /\ now - stamps[key] <= TTL

(* Faulty variant: failed and empty results are injected as well.             *)
InjectEveryResult(r, i) ==
  {results[<<r, d>>].content :
     d \in {d \in Sub(r, i).deps : results[<<r, d>>] # NoResult}}

(* _inject_dependencies: what the successful dependencies returned.           *)
InjectDependencies(r, i) ==
  {results[<<r, d>>].content :
     d \in {d \in Sub(r, i).deps :
              /\ results[<<r, d>>] # NoResult
              /\ results[<<r, d>>].ok
              /\ results[<<r, d>>].content # None}}

(* --------------------------------- cache ----------------------------------- *)

SetCache(key, result) ==
  /\ cache' = [k \in DOMAIN cache \cup {key} |-> IF k = key THEN result ELSE cache[k]]
  /\ stamps' = [k \in DOMAIN stamps \cup {key} |-> IF k = key THEN now ELSE stamps[k]]

(* Faulty variant: the timestamp of an expired entry stays.                   *)
EvictResultOnly(key) ==
  /\ cache' = [k \in DOMAIN cache \ {key} |-> cache[k]]
  /\ UNCHANGED stamps

Evict(key) ==
  /\ cache' = [k \in DOMAIN cache \ {key} |-> cache[k]]
  /\ stamps' = [k \in DOMAIN stamps \ {key} |-> stamps[k]]

(* -------------------------- execute(), step by step ------------------------- *)

Init ==
  /\ call \in [Requests -> Calls]
  /\ stage = [r \in Requests |-> "idle"]
  /\ wave = [r \in Requests |-> 0]
  /\ pos = [r \in Requests |-> 1]
  /\ batch = [r \in Requests |-> {}]
  /\ inj = [t \in Ids |-> {}]
  /\ results = [t \in Ids |-> NoResult]
  /\ fut = [t \in Ids |-> "none"]
  /\ outcome = [t \in Ids |-> NoResult]
  /\ queue = <<>>
  /\ poolOpen = TRUE
  /\ cache = [k \in {} |-> NoResult]
  /\ stamps = [k \in {} |-> 0]
  /\ now = 0

(* Enter the wave w, or return when the plan has no further wave.             *)
EnterWave(r, later) ==
  \/ /\ later = {}
     /\ stage' = [stage EXCEPT ![r] = "returned"]
     /\ UNCHANGED <<wave, pos>>
  \/ \E w \in later :
       /\ IsFirst(w, later)
       /\ wave' = [wave EXCEPT ![r] = w]
       /\ pos' = [pos EXCEPT ![r] = 1]
       /\ stage' = [stage EXCEPT ![r] = "lookup"]

Execute(r) ==
  /\ stage[r] = "idle"
  /\ EnterWave(r, Groups(r))
  /\ UNCHANGED <<call, batch, inj, results, poolVars, cacheVars, now>>

(* The cache is asked before the dependencies are injected.                   *)
LookUp(r, i) ==
  LET key == MakeCacheKey(TextOf(r, i), call[r].ctx)
  IN /\ stage[r] = "lookup"
     /\ IsFirst(i, Unvisited(r))
     /\ \/ /\ Fresh(key)
           /\ results' = [results EXCEPT ![<<r, i>>] = cache[key]]
           /\ pos' = [pos EXCEPT ![r] = i + 1]
           /\ UNCHANGED <<stage, cacheVars>>
        \/ /\ ~Fresh(key)
           /\ Evict(key)
           /\ stage' = [stage EXCEPT ![r] = "submit"]
           /\ UNCHANGED <<results, pos>>
     /\ UNCHANGED <<call, wave, batch, inj, poolVars, now>>

(* submit() on a pool that was shut down raises RuntimeError out of execute().*)
Submit(r, i) ==
  /\ stage[r] = "submit"
  /\ IsFirst(i, Unvisited(r))
  /\ inj' = [inj EXCEPT ![<<r, i>>] = InjectDependencies(r, i)]
  /\ \/ /\ poolOpen
        /\ fut' = [fut EXCEPT ![<<r, i>>] = "queued"]
        /\ queue' = Append(queue, <<r, i>>)
        /\ pos' = [pos EXCEPT ![r] = i + 1]
        /\ stage' = [stage EXCEPT ![r] = "lookup"]
     \/ /\ ~poolOpen
        /\ stage' = [stage EXCEPT ![r] = "raised"]
        /\ UNCHANGED <<fut, queue, pos>>
  /\ UNCHANGED <<call, wave, batch, results, outcome, poolOpen, cacheVars, now>>

(* as_completed() first yields what is finished when it is called.            *)
AwaitWave(r) ==
  /\ stage[r] = "lookup"
  /\ Unvisited(r) = {}
  /\ stage' = [stage EXCEPT ![r] = "collect"]
  /\ batch' = [batch EXCEPT ![r] = Finished(r)]
  /\ UNCHANGED <<call, wave, pos, inj, results, poolVars, cacheVars, now>>

(* The result is cached under the enriched text, whether it succeeded or not. *)
Collect(r, i) ==
  LET result == [outcome[<<r, i>>] EXCEPT !.born = now]
  IN /\ stage[r] = "collect"
     /\ i \in batch[r]
     /\ results' = [results EXCEPT ![<<r, i>>] = result]
     /\ SetCache(MakeCacheKey(TextOf(r, i), call[r].ctx), result)
     /\ batch' = [batch EXCEPT ![r] = @ \ {i}]
     /\ UNCHANGED <<call, stage, wave, pos, inj, poolVars, now>>

(* The event of the waiter is set: as_completed takes the next batch.         *)
Wake(r) ==
  /\ stage[r] = "collect"
  /\ batch[r] = {}
  /\ Finished(r) # {}
  /\ batch' = [batch EXCEPT ![r] = Finished(r)]
  /\ UNCHANGED <<call, stage, wave, pos, inj, results, poolVars, cacheVars, now>>

(* Faulty variant: as_completed without a timeout.                            *)
NoTimeout(r) == FALSE

(* The time of the wave is over while a future is not collected.              *)
WaveTimeout(r) ==
  /\ stage[r] = "collect"
  /\ batch[r] = {}
  /\ Uncollected(r) # {}
  /\ stage' = [stage EXCEPT ![r] = "raised"]
  /\ UNCHANGED <<call, wave, pos, batch, inj, results, poolVars, cacheVars, now>>

(* Faulty variant: a timeout ends the wave and the call goes on.              *)
EndWaveAnyway(r) ==
  /\ stage[r] = "collect"
  /\ batch[r] = {}
  /\ EnterWave(r, LaterGroups(r))
  /\ UNCHANGED <<call, batch, inj, results, poolVars, cacheVars, now>>

(* Every future is collected, so the loop that marks timed-out futures finds  *)
(* none.                                                                      *)
EndWave(r) ==
  /\ stage[r] = "collect"
  /\ batch[r] = {}
  /\ Uncollected(r) = {}
  /\ EnterWave(r, LaterGroups(r))
  /\ UNCHANGED <<call, batch, inj, results, poolVars, cacheVars, now>>

(* ------------------------------- thread pool -------------------------------- *)

Running == {t \in Ids : fut[t] = "running"}

(* Faulty variants: more tasks than workers; shutdown drops what is queued.   *)
StartUnbounded ==
  /\ queue # <<>>
  /\ fut' = [fut EXCEPT ![Head(queue)] = "running"]
  /\ queue' = Tail(queue)
  /\ UNCHANGED <<call, reqVars, inj, results, outcome, poolOpen, cacheVars, now>>

StartWhileOpen == poolOpen /\ StartUnbounded

Start ==
  /\ queue # <<>>
  /\ Cardinality(Running) < MaxWorkers
  /\ fut' = [fut EXCEPT ![Head(queue)] = "running"]
  /\ queue' = Tail(queue)
  /\ UNCHANGED <<call, reqVars, inj, results, outcome, poolOpen, cacheVars, now>>

(* _execute_one(sq): what the backend of the route returned, or success=False *)
(* when it raised or when no backend is registered; born is set by Collect.   *)
ExecuteOne(t, ok, content) ==
  [id |-> t, text |-> TextOf(t[1], t[2]), ctx |-> call[t[1]].ctx,
   ok |-> ok, content |-> content, born |-> 0]

(* Faulty variant: the thread of the pool puts the result into the cache.     *)
FinishAndCache(t) ==
  /\ fut[t] = "running"
  /\ fut' = [fut EXCEPT ![t] = "done"]
  /\ \E content \in Contents :
       LET result == ExecuteOne(t, TRUE, content)
       IN /\ outcome' = [outcome EXCEPT ![t] = result]
          /\ SetCache(MakeCacheKey(result.text, result.ctx), result)
  /\ UNCHANGED <<call, reqVars, inj, results, queue, poolOpen, now>>

Finish(t) ==
  /\ fut[t] = "running"
  /\ fut' = [fut EXCEPT ![t] = "done"]
  /\ \/ \E content \in Contents \cup {None} :
          outcome' = [outcome EXCEPT ![t] = ExecuteOne(t, TRUE, content)]
     \/ outcome' = [outcome EXCEPT ![t] = ExecuteOne(t, FALSE, None)]
  /\ UNCHANGED <<call, reqVars, inj, results, queue, poolOpen, cacheVars, now>>

(* shutdown(wait=False): queued and running tasks still run.                  *)
Shutdown ==
  /\ poolOpen
  /\ poolOpen' = FALSE
  /\ UNCHANGED <<call, reqVars, inj, results, fut, outcome, queue, cacheVars, now>>

Tick ==
  /\ now < MaxTime
  /\ now' = now + 1
  /\ UNCHANGED <<call, reqVars, inj, results, poolVars, cacheVars>>

(* Every call has ended and the pool is idle and closed.                      *)
Quiescent ==
  /\ \A r \in Requests : stage[r] \in Ended
  /\ \A t \in Ids : fut[t] \in {"none", "done"}
  /\ ~poolOpen
  /\ now = MaxTime
  /\ UNCHANGED vars

ExecuteStep(r) ==
  \/ \E i \in Subs(r) : LookUp(r, i) \/ Submit(r, i) \/ Collect(r, i)
  \/ AwaitWave(r)
  \/ Wake(r)
  \/ WaveTimeout(r)
  \/ EndWave(r)

Next ==
  \/ \E r \in Requests : Execute(r) \/ ExecuteStep(r)
  \/ Start
  \/ \E t \in Ids : Finish(t)
  \/ Shutdown
  \/ Tick
  \/ Quiescent

Spec == Init /\ [][Next]_vars

(* The thread of a call runs on; nothing is assumed about the backends.       *)
CallFairness == \A r \in Requests : WF_vars(ExecuteStep(r))

(* Backends answer in the end: their clients have timeouts of their own.      *)
BackendFairness == WF_vars(Start) /\ \A t \in Ids : WF_vars(Finish(t))

FairSpec == Spec /\ CallFairness

(* -------------------------------- properties -------------------------------- *)

Usable(x) == x # NoResult /\ x.ok /\ x.content # None

(* Dependencies of sub-query i whose wave is over when the wave of i starts.  *)
EarlierDeps(r, i) ==
  {d \in Sub(r, i).deps \cap Subs(r) : Sub(r, d).group < Sub(r, i).group}

TypeOK ==
  /\ call \in [Requests -> Calls]
  /\ stage \in [Requests -> Stages]
  /\ wave \in [Requests -> Int]
  /\ pos \in [Requests -> Nat]
  /\ batch \in [Requests -> SUBSET (1..MaxSub)]
  /\ inj \in [Ids -> SUBSET Contents]
  /\ results \in [Ids -> Result \cup {NoResult}]
  /\ fut \in [Ids -> FutureStates]
  /\ outcome \in [Ids -> Result \cup {NoResult}]
  /\ queue \in Seq(Ids)
  /\ poolOpen \in BOOLEAN
  /\ DOMAIN cache \subseteq Key
  /\ DOMAIN stamps = DOMAIN cache
  /\ \A k \in DOMAIN cache : cache[k] \in Result /\ stamps[k] \in Nat
  /\ now \in Nat

(* Waves are barriers (dag_executor.py:72-111): while a wave is in progress,  *)
(* every sub-query of the earlier waves has its result and no sub-query of a  *)
(* later one was submitted or answered.  Dependency injection relies on it.   *)
WaveBarrier ==
  \A r \in Requests : stage[r] \in {"lookup", "submit", "collect"} =>
    \A i \in Subs(r) :
      /\ Sub(r, i).group < wave[r] => results[<<r, i>>] # NoResult
      /\ Sub(r, i).group > wave[r] => /\ results[<<r, i>>] = NoResult
                                      /\ fut[<<r, i>>] = "none"

(* One result per sub-query (dag_executor.py:57): a call that returns has an  *)
(* entry for every sub-query, so that the default of line 129, a result with  *)
(* success=True and no chunks for a sub-query that never ran, is not used.    *)
CompleteOnReturn ==
  \A r \in Requests : stage[r] = "returned" =>
    \A i \in Subs(r) : results[<<r, i>>] # NoResult

(* The bookkeeping of the submission loop (dag_executor.py:76-111): what it    *)
(* has passed has a result or a future, what it has not reached has neither;  *)
(* as_completed yields a future of this wave that is finished, once.  This is *)
(* what makes the invariants above and below inductive.                       *)
CallLoop(r) ==
  /\ stage[r] = "idle" =>
       \A i \in Subs(r) : results[<<r, i>>] = NoResult /\ fut[<<r, i>>] = "none"
  /\ stage[r] \in {"lookup", "submit"} => \A i \in Members(r, wave[r]) :
       IF i >= pos[r] THEN results[<<r, i>>] = NoResult /\ fut[<<r, i>>] = "none"
                      ELSE results[<<r, i>>] # NoResult \/ fut[<<r, i>>] # "none"
  /\ stage[r] = "collect" => \A i \in Members(r, wave[r]) :
       results[<<r, i>>] # NoResult \/ fut[<<r, i>>] # "none"
  /\ stage[r] = "collect" => batch[r] \subseteq Finished(r)
  /\ stage[r] # "collect" => batch[r] = {}
  /\ \A i \in 1..MaxSub : fut[<<r, i>>] # "none" => i \in Subs(r)

QueueInv ==
  /\ \A n \in DOMAIN queue : fut[queue[n]] = "queued"
  /\ \A m, n \in DOMAIN queue : queue[m] = queue[n] => m = n

LoopInv == QueueInv /\ \A r \in Requests : CallLoop(r)

(* x was computed for this text in this context.                              *)
ComputedFor(x, text, ctx) == x # NoResult /\ x.text = text /\ x.ctx = ctx

(* x was computed for this text and context, or for one spelled alike.        *)
AnswerTo(x, text, ctx) == x # NoResult /\ SpelledAlike(x.text, x.ctx, text, ctx)

(* The cache mixes up texts and contexts that are spelled alike, and no       *)
(* others: an entry holds a result for the string of its key, and the result  *)
(* of a sub-query, its own or from the cache, was computed for its text as it *)
(* stands or for one spelled alike (dag_executor.py:79-102,229-232); what its *)
(* own task returns is exact.  Where no two texts and contexts are spelled    *)
(* alike, a result computed with injected dependencies never answers the bare *)
(* question, nor one context another.                                         *)
AnswersFaithful ==
  /\ \A k \in DOMAIN cache :
       cache[k] # NoResult /\ Spelling[<<cache[k].text, cache[k].ctx>>] = k
  /\ \A r \in Requests : \A i \in Subs(r) :
       /\ results[<<r, i>>] # NoResult =>
            AnswerTo(results[<<r, i>>], TextOf(r, i), call[r].ctx)
       /\ fut[<<r, i>>] = "done" =>
            ComputedFor(outcome[<<r, i>>], TextOf(r, i), call[r].ctx)

(* What the text of a sub-query owes to its dependencies: it holds what every *)
(* successful dependency of an earlier wave returned, and only contents that  *)
(* dependencies returned.                                                     *)
Injected(r, i) ==
  /\ \A d \in EarlierDeps(r, i) :
       Usable(results[<<r, d>>]) => results[<<r, d>>].content \in inj[<<r, i>>]
  /\ \A c \in inj[<<r, i>>] : \E d \in Sub(r, i).deps :
       Usable(results[<<r, d>>]) /\ results[<<r, d>>].content = c

(* Dependency injection (dag_executor.py:235-253) is complete for the waves   *)
(* that are over and adds nothing else, in every text that was submitted.     *)
DependenciesInjected ==
  \A r \in Requests : \A i \in Subs(r) : fut[<<r, i>>] # "none" => Injected(r, i)

(* The cache holds only what a call collected for a sub-query of its own      *)
(* (dag_executor.py:97-102): the tasks of a call that timed out run on after  *)
(* it, but what they return then never answers a later call.                  *)
CacheOnlyCollected ==
  \A k \in DOMAIN cache : results[cache[k].id] = cache[k]

(* No answer is older than cache_ttl when it is given: it was collected from  *)
(* a backend at most TTL before (dag_executor.py:140-146).                    *)
FreshAnswers ==
  [][\A t \in Ids : results'[t] # results[t] => now - results'[t].born <= TTL]_vars

(* The executor implements its contract.                                      *)
Status(r) == IF stage[r] \in {"lookup", "submit", "collect"} THEN "running" ELSE stage[r]

Contract == INSTANCE ExecutorContract
              WITH status <- [r \in Requests |-> Status(r)], asked <- call, answer <- results

ImplementsContract == Contract!ContractSpec

(* Every call ends, with a result or an exception, whatever the backends do:  *)
(* the wave timeout bounds the wait for them (dag_executor.py:70,97).         *)
EveryCallEnds ==
  \A r \in Requests : stage[r] # "idle" ~> stage[r] \in Ended

(* Tasks of calls that timed out are never cancelled, but no task is lost     *)
(* either: as long as backends answer in the end, every submitted task runs to *)
(* its end, also after shutdown() (dag_executor.py:91,165).                   *)
EveryTaskEnds ==
  BackendFairness => \A t \in Ids : fut[t] # "none" ~> fut[t] = "done"

(* dag_executor.py:28 and :113, ARCHITECTURE.md:82-84: a sub-query that times *)
(* out is a failed result of its own.  The only exception out of execute() is *)
(* then the one of a pool that was shut down.                                 *)
TimeoutIsolated ==
  \A r \in Requests : stage[r] = "raised" => ~poolOpen

(* ARCHITECTURE.md:80: the results of earlier waves are put into the text of  *)
(* the later sub-queries that depend on them, before these are answered.      *)
AnswersUseDependencies ==
  \A r \in Requests : \A i \in Subs(r) : results[<<r, i>>] # NoResult =>
    \A d \in EarlierDeps(r, i) : Usable(results[<<r, d>>]) =>
      results[<<r, d>>].content \in results[<<r, i>>].text.inj
===============================================================================
