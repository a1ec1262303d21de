# Verification of the QUE engine

TLA+ models, TLC checks and TLAPS proofs for the query understanding and
execution engine in this repository. Paths below are relative to the repository
(`src/engine/...` is `src/src/engine/...` in `PROJECT.json`, where the
repository itself is called `src/`).

A request passes through the stages the documentation calls ICAR: its intent is
recognized, the question is rewritten, a plan of sub-queries is made, the plan
is executed wave by wave against search backends, and the results are merged
into one context for a language model. Most of the risk is in the executor
(threads, timeouts, a shared cache), in the shared registries that request
threads use without locks, and in what the stages assume about each other's
data.

## The system

| Component | State | Operations | Talks to |
|---|---|---|---|
| DAG executor `engine/dag_executor.py` | result cache and timestamps (one lock), thread pool; per call: results, futures of the wave | `execute`, `shutdown`, cache read and write | registry and backends (from pool threads), Redis if configured |
| Tenant manager `engine/tenant.py` | two maps (tenants, token buckets) under one lock for writers, none for readers; each bucket has a lock | `register`, `unregister`, `get`, `check_rate_limit` | REST handler |
| Query planner `engine/query_planner.py` | none | `plan` | language model |
| Result synthesizer `engine/result_synthesizer.py` | none | `synthesize` | the plan and the results |
| Intent recognizer, rewriter, router | none | `recognize`, `rewrite`, `route` | language model |
| Backend registry `engine/backend_registry.py` | backends, health verdicts (no lock) | `register`, `unregister`, `is_healthy`, `health_summary`, `resolve*` | executor, health endpoints |
| Built-in backends `engine/builtin_backends.py` | none | `search`, `health_check` | RAG, memory and language-model services |
| Pipeline `engine/pipeline.py` | list of stages | add, remove, replace, reorder, `from_dict`, `run`, presets | the stages |
| REST server `api/rest_server.py` | one executor per process | `/execute`, listings, shutdown | all of the above |
| gRPC service `communication/grpc_server/que_service.py`, `main.py` | one executor, server threads | `Execute`, `ExecuteStream`, `HealthCheck`, signals | the same stages |
| Kafka consumer `api/kafka_consumer.py` | running flag, thread, consumer | `start`, `stop`, the loop, replies | the same stages, the broker |
| Telemetry `infrastructure/telemetry.py` | counters and histograms (no lock) | `add`, `record`, `quantile` | handlers |
| Retrieval and memory clients `infrastructure/{rag,memory}_client` | a channel and a stub each, created by the first call (no lock) | `retrieve`, `search_memory`, `close` | external services |
| Redis client, language-model adapter | connections | network calls | external services |
| SDK `sdk/que_sdk/client.py` | none, or an executor per call | `execute`, `health_check` | a server, or the stages in process |

What is hard here:

* **The executor.** Calls of many request threads share one pool and one cache.
  A wave waits with `as_completed(timeout=...)`; tasks of a call that timed out
  are never cancelled and keep their workers. Cache entries are written after
  injection changed the text and read before. A pool may be shut down under
  running calls.
* **The tenant manager.** Writers change two maps in two steps; readers look at
  one map after the other, without the lock, and then use a bucket that may
  have been replaced.
* **The backend registry.** No lock at all: a test for a verdict and its read,
  a probe of several seconds and the write of its verdict, and a walk over the
  dictionary are all open to `register` and `unregister`.
* **Data between stages.** The planner takes step numbers and dependencies from
  a language model unchecked; the synthesizer sorts by ids that a cached result
  does not share with the plan; two branches depend on how many results
  succeeded.
* **Lists and clients that are shared.** A run iterates over the very list that
  edits of the pipeline change; workers that find no stub each open a channel
  and build on whichever was stored last; a worker asks the registry twice for
  one sub-query.
* **Two servers with opposite rules.** REST handlers are `async def` without an
  `await`, so requests run one after the other, and what they share needs no
  lock; gRPC handlers run in threads. One closes the executor's pool after the
  last request, the other before it stops accepting.

`PROJECT.json` lists every hazard at its line, with the properties that cover
it or the reason why none does.

## The modules

`EngineData` holds the data of the executor and its contract: sub-queries,
texts, results. A text is the question with the set of dependency contents
prepended to it; a sub-query is named by its call and its position, which
stands for its uuid. `Spelling` is the string the cache hashes for a text and a
context, any function of the two: the code joins them with `:`, `,` and `=` and
escapes none of these in values (dag_executor.py:229-232), so that two contexts
may be spelled alike (`{kb_ids: "1,user_id=7"}` and `{kb_ids: "1", user_id: "7"}`)
and share an entry.

**`DagExecutor`** models `DAGExecutor.execute` for any set of concurrent calls.
Per call, `stage`, `wave`, `pos` and `batch` are the program counter, the wave,
the submission loop and the batch `as_completed` is yielding from; `results`,
`inj`, `fut`, `outcome` are the results map, the injected text, the futures and
what they hold; `queue`, `poolOpen`, `cache`, `stamps`, `now` are shared.
`LookUp`/`Submit` are the loop of lines 77-94, with the cache asked by the bare
text before the injection, as in the code; `AwaitWave`, `Wake`, `Collect` are
`as_completed`, which takes finished futures in batches and collects and caches
them one by one; `WaveTimeout` is its `TimeoutError`, which leaves `execute`;
`EndWave` goes to the next group or returns; `Start` and `Finish` are the pool and
`_execute_one` with any outcome; `MakeCacheKey` is the spelling; `Shutdown` and
`Tick` come at any time.

**`ExecutorContract`** is the abstract specification of the executor: no pool,
futures, cache or clock. A sub-query is answered at most once, in a running call,
after all sub-queries of earlier waves, by an answer to its own question in its
own context, or by one to what is spelled like it; a call returns only when all
its sub-queries are answered. `DagExecutor` implements it with `answer <-
results`, `asked <- call` and the stages of the submission and collection loops
mapped to "running".

**`TenantManager`** models `register` and `unregister` as two steps under the
lock and admission (`get`, `check_rate_limit`, `consume`) as three steps
without it. Buckets are objects in order of creation, so that a request can
hold one that is no longer in the map. `grants` and `before` are history: how
many requests a bucket let through, now and before each instant.

**`QueryPlanner`** models `plan()`: one action per branch, the loop over the
items of a multi-hop reply item by item, Python's slices and negative indices as
they behave. The language model may reply anything. What it is called with are
the constants `Asked` (the question), `Pieces` (parts of it that the model
names), `Sides` (the two sides that `_split_comparison` makes up without it) and
any rewriting. `heard` is history: whether a reply of the model was used for the
request.

**`QueryUnderstanding`** has the outcomes of the recognizer and the rewriter:
which rules matched gives the first of them with the confidence of a match
(`RuleClassify`); below the threshold the model decides, and whatever it replies
is taken, or the rules decide after all when it fails (`Recognize`). The rewriter
resolves references if there is something in the working memory and expands the
question if the request asks for it and it is not simple (`Rewrite`); each call
may fail, which leaves the question as it was.

**`ResultSynthesizer`** has the pure operators of the synthesizer: a context is
the sequence of its entries, each with the part it is written under, its
content and its score. Similarity of contents is a constant relation, symmetric
but not transitive. What the aggregation has kept so far is a recursive function
of the number of chunks it has looked at.

**`Sorting`** is what the synthesizer and the pipeline share: `Sorted`, Python's
stable `sort` with a key, and `Filtered`, a comprehension with a condition.

**`QueryFlow`** composes the three: one request from the intent to the context as
the REST handler runs it (`UnderstandRaises` is a reply whose confidence is no
number or whose question is no text, which no handler catches), with the executor
reduced to its contract (it answers every sub-query or raises). The answers come
wave after wave, which need not be the order of the plan; one may come from the
cache and then carries another request's id, or that of an earlier wave, also of
one later in the plan. That the results an earlier wave adds to a text make it
another key of the cache is left out here: it only takes answers away.

**`BackendRegistry`** models registration, removal and the cached health check
step by step for any set of threads, and the walk of `health_summary` with
CPython's rule for a dictionary that changes meanwhile: it raises when the size
changed, and may do anything when names changed and the size did not.

**`KafkaConsumer`** models `start`, `stop` and the loop. A session is one
consumer object with its thread. `start` is two steps (`Start` creates the
consumer and assigns `_consumer`, `Launch` sets the flag and starts the thread)
and `stop` three (flag, `close`, `join`), so that a thread can outlive its session
and overlap with the next one. The thread first imports the engine and builds its
executor; only then, in `Prepare`, does it read `_consumer` (line 108), which may
by now be that of a later session: `iter[t]` is the consumer it found. All of this
and the iterator are outside of the `try` of the loop, so that an exception there
ends the thread with `_running` set (`Raise`, `Undecodable`). At this commit the
imports always raise: they reach the language-model adapter, whose decorator is
not defined (`adapter.py:32`). The model lets them succeed too, for everything
behind them would be out of sight otherwise. Broker and client library are
external: the iterator advances the position before it hands out a message,
commits before it fetches and when it is closed, and decodes a whole batch at
once. `sessions`, `done`, `replies`, `upsets` and `base` are history. `start` and
`stop` are called by one thread.

**`QuePipeline`** models the pipeline as the sequence of its list objects:
`add_stage`, `replace_stage` and `reorder` change the current one, in place and
under any run that walks it; `remove_stage` makes a new one, and so do the
presets and `from_dict`, which `Reload` stands for. A run keeps the list it
began with and a cursor into it, as Python's list iterator does; `Visit` is the
body of the loop with every outcome a handler and its condition can have. An
edit by a handler is an edit between two visits. `began` and `upset` are
history. `Rank` is the key that `reorder` sorts by.

**`QueServers`** models either server with its clients, from the request
through the counting of metrics to the answer, and its shutdown. `Room` is the
difference between the two: one handler at a time on the event loop, up to
`MaxWorkers` threads under gRPC. `Counter.add` is two reads and two writes
(telemetry.py:100-103). The stages end well or raise; for gRPC they raise, as
they do at this commit. `StopRest` and `CloseRest` are uvicorn's stop and the
shutdown event; `Signal`, `StopGrpc` and `Exit` are the three calls of
`_shutdown`. A call that the grace period cuts off is a client that gives up.
`results` is history.

**`BackendSearch`** models a worker of the executor's pool from the route of its
sub-query to the call of a service: `get`, else `list_all` and the first backend
that can search, then the shared client of the service. `_get_stub` is five
steps, since threads may switch between any two of its statements, and `close`
three. A worker is any thread that uses a client: the workers of the pool, and for the
memory client also the handler threads, in which the rewriter asks it. Channels
are numbered per service in order of opening. Backends come and
go at any time. `missed`, `bare` and `raced` are history.

Each module `XProofs` holds the theorems about `X`, `QueryFlowProofs` also those
about the planner, the recognizer and rewriter, and the synthesizer; the `MC`
modules give the constants of the runs. Definitions marked *Faulty variant* are
not part of any specification: they are plausible bugs of the definition that
follows them, used to confirm that each property can fail.

## The runs

| Run | Shows | Distinct states |
|---|---|---|
| `executor_safety` | `WaveBarrier`, `AnswersFaithful`, `DependenciesInjected`, `CacheOnlyCollected`, `FreshAnswers` for two overlapping calls, two workers, an expiring cache, timeouts, shutdown, and two contexts that are spelled alike; and `ImplementsContract`: `DagExecutor` implements `ExecutorContract` | 803,084 |
| `executor_liveness` | `EveryCallEnds` without any assumption on backends; `EveryTaskEnds` if backends answer | 60,070 |
| `executor_timeout` (violated) | a late sub-query ends the call with an exception; comment and docs say it is marked as failed | |
| `executor_injection` (violated) | a cached bare question answers a step that should have used earlier results | |
| `tenants` | `MapsAgree`, `UnlimitedOnlyIfDisturbed`, `WindowBound`, `RejectsOnlyOverQuota` | 1,030,184 |
| `flow` | the plan (`DependenciesEarlier`, `PlanWithinCap`, `ChainOrdered`) and the context (`NothingLost`, `NoDuplicates`, `ChainFollowsWaves`) of a request, for every reply of the language model, its failure at any call, and every mix of failures and cached answers | 2,961,311 |
| `flow_partial` (violated) | one failed side of a comparison empties the context | |
| `registry` | `StaleWithinTTL`, `NoVerdictLeftBehind`, `KeyErrorOnlyIfRemoved`, `SummaryExact` | 3,516,827 |
| `kafka` | `OneReader`, `LostOnlyInHand`, `RepeatsOnlyAfterUpsets`, `ThreadLives` and, as long as the consumer runs and its thread has not raised, `EveryRequestHandled` | 552,948 |
| `pipeline` | `FollowsItsList`, `NothingPassedOver` for a run of a pipeline that is edited meanwhile | 807,888 |
| `servers` | `MetricsMatchResults`, `NoneMeetsClosedPool`, `EveryCallEnds` for both servers, told to stop at any time | 26,100 |
| `search` | `RouteIsKept`, `StubsStayUsable`, `ChannelsBounded` | 1,776,137 |

The runs `executor_safety`, `flow`, `pipeline`, `servers` and `search` check the
type invariant of their modules too; those of the tenant manager, the registry
and the consumer are proved (`TypeCorrect`) and not run again. The same goes for
`LoopInv` and `CompleteOnReturn` of the executor, parts of its inductive
invariant. The properties are stated, with the lines they are about, at the end
of each module.

**Bounds.** Two calls are what an interference through the pool or the cache
takes: the one that writes and the one that reads. The plans (`SafetyCalls`) are
shapes the planner produces: empty, single, a chain of two waves, and two steps
of one wave one of which depends on the other; one of the three contexts is
spelled like another. Two sub-queries are enough for a
wave with two futures and for two waves. Steps that the language model numbered
backwards are in the flow run, and the proofs cover every plan. Two
workers and up to four tasks fill the pool, let the futures of a wave finish in
any order, and let abandoned tasks block it; the liveness run has one worker.
`MaxTime = 1` with `TTL = 0` gives fresh and expired entries; runs that do not
speak of age keep the clock still.

For tenants, two threads and two buckets give a writer against an admission and
a request that holds a replaced bucket; two ticks per second, quotas 1 and 2 and
a clock up to 2 give partial refills, full and empty buckets. The flow sees
replies of up to three steps with numbers below, in and beyond the range, caps
from -1 to 3, three contents a ~ b ~ c with a and c not similar, and one text for
the question and all its parts, so that the cache can answer any step; the
rewriter may turn it into a second one. With the default threshold (`Threshold`,
in hundredths) a rule that matches decides and the model is asked when none
does. The registry has two threads, two
names and three objects: a walk, a replacement of one entry and a removal of
another. Its `HealthTTL = 1` with a clock up to 2 gives verdicts in force,
exactly expired and older. The consumer has two messages, any of them
undecodable, two sessions and two upsets: an old loop beside a new one or on the
new one's consumer, a restart after a crash, a commit that fails in `close`, a
rebalance and a crash.

A run of a pipeline reads the list and writes nothing another run sees, so one
run with two edits at any of its steps is enough for every pair of edits; lists
have up to three stages, two of the same name, besides the presets. The servers
have two requests of any kind, two labels and one gRPC thread: a request in
progress, one that waits, and a shutdown at every point between. The search has
two workers and three events, where a close counts for two: two first
connections at once, a close in the middle of them with one edit, or three edits
during the two lookups of a worker; `custom` is a backend that is not built in.

`executor_safety`, `tenants`, `registry` and `search` use symmetry of threads,
calls or workers (and tenants, names); the properties treat them alike, and none
of these runs checks liveness. `pipeline` and `servers` do not check deadlock,
for their runs and requests are finitely many and the process really comes to
an end.

**Fairness.** `CallFairness` is weak fairness of each call's own steps: the thread
of a request runs on. It includes the timeout of a wave, which the code always
sets (line 97), and is all that `EveryCallEnds` needs. `EveryTaskEnds` assumes in
addition that a free worker takes the next task and that a backend call ends; the
clients have timeouts of their own. Nothing is assumed about a call being started,
about the clock, or about shutdown. `LoopFairness` of the consumer says that the
thread of a session runs on (through its imports too) and that the broker answers
a fetch when there is something to fetch; commits, crashes, rebalances and
exceptions are left to chance. `FairSpec` of the servers says that a handler that
can go on does (its thread or the event loop runs it, and its stages end because
their calls have timeouts), and that a shutdown that has begun goes on. Nothing is
assumed about clients giving up or about the process being told to stop.

## The proofs

TLAPS proves the following for all values of the constants that satisfy the named
assumptions, which ask for no more than finite sets of calls, requests and
workers, at least one worker, a positive number of ticks per second, lists,
replies, chunks and quotas of the types the code declares, a rewriter that may
also expand nothing and expands to four queries at most, and a similarity that is
symmetric, holds between a content and itself and never of the blank one, which is
what `_is_duplicate` computes:

* **Executor.** `TypeOK`, `LoopInv`, `WaveBarrier`, `CompleteOnReturn`,
  `AnswersFaithful`, `DependenciesInjected`, `CacheOnlyCollected` as invariants,
  `FreshAnswers` as an action property, and `ImplementsContract`. Nothing is
  assumed about `Spelling`: `AnswersFaithful` says that an answer was computed for
  its own text and context or for one spelled alike, and `CacheExact` that it was
  its own where no two are spelled alike. The inductive invariant `IInv` is
  `TypeOK`, `LoopInv`, `WaveBarrier`, `CompleteOnReturn` and `AnswersFaithful`.
  `WaveBarrier` alone is not inductive: that the next wave starts with nothing
  submitted needs `LoopInv`, which says that what the submission loop has passed
  has a result or a future and what it has not reached has neither, and that a
  collected future is not yielded again. `AnswersFaithful` needs it too, since
  the text of a sub-query must not change after it was submitted.
  `DependenciesInjected` and `BornStamped` (the time of a cache
  entry is the time its result was collected) are inductive relative to `IInv`,
  and so is `CacheOnlyCollected` together with `OutcomeOwned`, that a future holds
  a result of its own sub-query; `FreshAnswers` and the refinement are step lemmas
  from it.
* **Tenant manager.** `TypeOK`, `MapsAgree`, `UnlimitedOnlyIfDisturbed`,
  `WindowBound` and `RejectsOnlyOverQuota`. `WindowBound` follows from a bound
  for every bucket and start: what it let through since then plus what it would
  hold now is at most what it could have held then plus the refill. The converse
  needs an equality: there is always a start (the last time the bucket was full)
  for which the bound is exact.
* **Kafka consumer.** `TypeOK`, `OneReader`, `ThreadLives`, `LostOnlyInHand` and
  `RepeatsOnlyAfterUpsets`. The type invariant carries `ThreadOK`, that a thread
  iterates over the consumer of its own session or of a later one and has nothing
  in hand before it reads it, and `LaunchOK`, that `start` launches a thread that
  did not exist. `OneReader` and `ThreadLives` are inductive together with
  `SessionInv`: sessions to come are untouched, and while the flag is set the last
  consumer is open and nobody is in `stop()`. `LostOnlyInHand` speaks of what is
  committed, but a commit takes whatever the position is: `HandledBehind` says
  the same of every position and `HandledBefore` of the commit, where the message
  a thread has in hand counts as `Accounted` for. `RepeatsOnlyAfterUpsets` is a
  counting argument: `Chances(m)`, the replies to m so far, the threads that have
  it in hand, and one more if the group has not read as far (`Frontier`), grows
  only with an upset; two threads on one consumer change nothing in it, since the
  consumer hands each offset out once.
* **Planner.** Its type invariant, `DependenciesEarlier`, `PlanWithinCap` and
  `ChainOrdered`, for replies of any length. `PlanWithinCap` also says what is
  planned when no call to the model succeeds: the question as asked, or the two
  sides made up for it. The invariant is about the reply so
  far: dependencies of what was built point backwards whatever the numbers are,
  because a position is resolved against the list as it is at that moment
  (`Backwards`); and a reply that has had the requested form up to here is
  numbered one by one (`InStep`). The slices, with negative bounds, are a lemma
  (`SliceIsPrefix`).
* **Request flow.** `FlowSpec` implements the planner's `Spec`
  (`FlowImplementsPlanner`): recognition and rewriting hand over no more than the
  planner is specified for (`RecognizedIntent`, `RewritingHandedOver`), and
  nothing after the planning touches the plan. So the planner's invariants hold of
  every request (`RequestsPlanSoundly`). The inductive invariant of the flow,
  `FlowInv`, adds to the planner's that the results are answers to sub-queries of
  the plan, each at its place, all of them once the executor returned, and that
  the context of an answer is what `synthesize` makes of them. The first matters
  because a result from the cache keeps another request's id: only its place says
  which sub-query it answers. From it follow `FlowTypeOK`, `NothingLost`,
  `NoDuplicates`, `ChainFollowsWaves` and `NothingIsInvented`, the converse of
  `NothingLost`: what a context shows was found by a sub-query that succeeded, and
  is shown for that one.
* **Synthesizer.** The lemmas those theorems rest on are about its operators, for
  results of any number and length. `SortedFacts`: a stable sort is a bijection
  on places that follows the key. `FlattenFacts`: one list behind the other has
  every element of each, in their order. `AggregateFacts`: each chunk looked at
  is blank or like one that was kept, and no two of those kept are alike; here
  symmetry of the similarity is needed, and transitivity is not. The
  concatenation and the aggregation are recursive functions; that such a function
  exists is proved (`Recursion`, one more value at a time), and what holds of all
  its values follows from the least number for which it would not (`Induction`,
  stated for a set of numbers, since the provers cannot instantiate the library's
  induction theorems).
* **Registry.** Its type invariant, `StaleWithinTTL`, `NoVerdictLeftBehind`,
  `KeyErrorOnlyIfRemoved` and `SummaryExact`, which is about the step that ends a
  walk: if no name came or went during it, it returns all backends in their order,
  or raises the `KeyError` of a name that was being removed. `VerdictInv` says of
  every verdict that its backend was seen registered at the time it carries, or
  later; `ThreadOK` says it of the verdict a thread is about to write, and what a
  walk knows as long as nothing touched the table: that it has reported a prefix
  of it. `TableInv`: names and objects occur once, so that a prefix determines
  what comes next.
* **Pipeline.** `TypeOK`, `FollowsItsList` and `NothingPassedOver`. `TypeOK` is
  not obvious: that `reorder` gives back a list of stages needs that a stable
  sort is a bijection on places, which is a counting argument
  (`EveryPlaceIsTaken`: the places are different and as many as the elements).
  `RunOK` ties a run's log and cursor to its list as long as no edit has changed
  that list; an edit in place marks every run over it. `PassesNone` carries the
  third: as long as a run goes on, the stages it began with are, in their order,
  among those it visited and those from its cursor on (`StillComes`). A visit
  moves one from the second part to the first. A stage that is put in before the
  cursor makes the last visited one come again, and one behind it moves the rest
  by a place; in both cases the embedding shifts by one from there on
  (`ComesInserted`). At the end nothing is left in the second part.
* **Servers.** `TypeOK`, `MetricsMatchResults` and `NoneMeetsClosedPool`.
  `OneAtATime` carries the first: what one handler has read is still the value
  when it writes, and what it has still to count is all that is missing
  (`CountOK`). `GrpcStopsShort` is why threads do no harm at this commit: no gRPC
  handler reaches a counter. `ShutdownInv` says that the pool of the REST server
  is closed only when all is served.
* **Search.** `TypeOK`, `RouteIsKept`, `StubsStayUsable` and `ChannelsBounded`.
  For a client nobody has closed (`FreshOK`), as long as there is no stub the
  channels opened are exactly the workers between opening and storing, so that
  the channels and the workers about to open one are together no more than the
  workers; once there is a stub only those that saw none go on. For one that was
  closed with nobody connecting (`CalmOK`), neither the stub nor a stub about to
  be stored is on a closed channel.

The modules prove initiation and one step lemma per part of the invariant, with
one case per action.

The digest of the cache key is taken to tell different strings apart; nothing is
assumed about the strings themselves. The language model, the backends and the
thread pool are as described above. No `RECURSIVE` operator is used.

Only model-checked: the liveness properties `EveryCallEnds` and `EveryTaskEnds`
of the executor, `EveryRequestHandled` of the consumer and `EveryCallEnds` of the
servers, since fairness is out of the prover's reach. Every invariant and every
action property that a run checks without finding a violation, and the
refinement, is also a theorem.

## What is not modelled

* Redis. It is off by default. With it, `cache_set` is given a float lifetime
  that SETEX rejects and the exception is swallowed, so nothing is shared; and a
  client whose first ping failed is handed out all the same.
* The route in the cache key: `_make_cache_key` leaves it out although `route`
  depends on the intent. Routes are in `BackendSearch`, the cache in
  `DagExecutor`; nothing says what a cached answer may have been routed by.
* `resolve*` of the registry, which no module calls. `BackendScore` computes its
  total when it is created, before any factor is set, so the list keeps the
  order of registration and not "best first" (backend_registry.py:234).
* What a gRPC handler would do behind the errors below. It is the flow of the
  REST handler, which is modelled.
* Tenant quotas besides the rate (`max_sub_queries`, timeout, pipeline, backends,
  cache prefix): the handler does not read them. The creation of the singletons:
  `get_tenant_manager` publishes the manager before "default" is registered, but
  its callers are the REST handlers, which run one at a time. For the same
  reason the races of `TenantManager` are those of a program that uses the
  exported class from threads, which its lock is meant for, and not of this
  server.
* Quantiles and the text of the metrics; tracing.
* `list.sort` empties the list while it sorts; the edits of a pipeline are one
  step each in the model.
* HyDE and the completion of the question by the rewriter: no later stage
  decides by them, and the expansions made of the latter are any replies.
* Wording of prompts, regular expressions of the recognizer and the router (which
  of them match is any set of rules), conversion of replies, generated stubs,
  configuration, logging. The in-process mode of the SDK is the flow with an
  executor of its own for every call.

The language-model adapter does not load at this commit: its decorator `_retry`
is not defined (`infrastructure/llm/adapter.py:32` and `:54`). The models assume
the retry its documentation describes; everything that takes a reply of the
language model takes any reply or a failure. The Kafka loop, which imports it
outside of any `try`, has the exception as one of its steps.

More places where code and documentation, or code and intention, differ, seen
while modelling and not given a run:

* `Execute` reads an undefined name (`que_service.py:70`), so each call ends in
  an error. `ExecuteStream` rebinds `context` to a dictionary and fails at its
  first `context.write` (`que_service.py:144`).
* The programs of README.md:305 and README.md:751-757 ("Ctrl+C to stop") return
  right after `start()`, which ends the process and with it the daemon thread
  (`Crash` of `KafkaConsumer`), so they consume nothing.
* A multi-hop reply with an empty list gives an empty plan; `test_e2e.py:176`
  asserts at least one sub-query.
* Two contexts whose values hold `,`, `:` or `=` can have one key of the cache and
  are then answered with each other's results (dag_executor.py:229-232);
  `AnswersFaithful` says that nothing else mixes answers up.
* A step that is answered from the cache carries a foreign id and may be written
  behind the steps that depend on it (result_synthesizer.py:120,
  ARCHITECTURE.md:93). `ChainFollowsWaves` says what does hold.
* `parallel_waves` is the largest step number, not the "parallel wave count"
  (query_planner.py:105 and :163), and aggregated contexts are not sorted by
  score (ARCHITECTURE.md:94, result_synthesizer.py:134-154).
* `main.py:48` closes the pool before the server stops: a call in between would
  be refused by the pool after it was accepted.
* `GET /metrics` (rest_server.py:9) does not exist, since nobody calls
  `install_metrics_endpoint`; `QUE_ERROR_COUNT` is never incremented; metrics are
  counted before the response is validated, so an answer with status 500 may be
  counted; `Counter` calls itself thread-safe (telemetry.py:92) and is not.
* The presets icar and retrieval_only hand `None` to `execute` and `synthesize`
  as the trace (pipeline.py:200 and :210), which call `trace.add` on it, so they
  cannot succeed; `timeout_ms` of a stage is never read; the
  stages of retrieval_only in `settings.yaml` are not those of the code.
* Nobody calls `close()` of the service clients. If somebody did during the first
  connection, a stub on a closed channel could stay for ever: hence the exception
  for `raced` in `StubsStayUsable`. Health probes open a channel each and close
  none.

## How it was built, and what is left

In this order: `EngineData`, `DagExecutor` with its contract and proofs;
`TenantManager` with its proofs; `QueryPlanner`, `ResultSynthesizer`, `QueryFlow`
and, put between planner and flow later, `QueryUnderstanding`; `BackendRegistry`;
`KafkaConsumer` with its proofs; `QuePipeline`, `QueServers` and `BackendSearch`
with theirs; the proofs for the planner and the registry; those for the
synthesizer and the request flow, and the rest of those for the pipeline.

Left: the gRPC handlers behind their errors once those are repaired, with metrics
that are then counted in threads; a theorem that ties the answers the flow takes
from the executor to `ExecutorContract`, which speak of the same calls in
different data.
