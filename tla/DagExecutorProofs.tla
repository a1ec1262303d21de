-------------------------- MODULE DagExecutorProofs ---------------------------
(* Proofs about DagExecutor, for every set of calls, pool size, TTL and clock *)
(* bound.                                                                     *)
EXTENDS DagExecutor, TLAPS

(* The inductive invariant.  TypeOK needs the others for the result that      *)
(* Collect takes from a future; the contract needs all of them.               *)
IInv ==
  /\ TypeOK
  /\ LoopInv
  /\ WaveBarrier
  /\ CompleteOnReturn
  /\ AnswersFaithful

(* ------------------------------- data lemmas -------------------------------- *)

(* The plan of a call is a sequence of sub-queries of at most MaxSub.         *)
LEMMA PlanFacts ==
  ASSUME TypeOK, NEW r \in Requests
  PROVE  /\ call[r].ctx \in Contexts
         /\ Subs(r) \subseteq 1..MaxSub
         /\ \A i \in Subs(r) : /\ <<r, i>> \in Ids
                               /\ Sub(r, i) \in SubQuery
                               /\ Sub(r, i).group \in Int
                               /\ Sub(r, i).q \in Questions
                               /\ Sub(r, i).deps \subseteq 1..MaxSub
<1>1. call[r] \in Calls
  BY DEF TypeOK
<1>2. /\ call[r] \in [plan : Seq(SubQuery), ctx : Contexts]
      /\ Len(call[r].plan) <= MaxSub
      /\ MaxSub \in Nat
  BY <1>1, EngineAssumption
<1>3. /\ call[r].plan \in Seq(SubQuery)
      /\ call[r].ctx \in Contexts
  BY <1>2
<1>4. /\ DOMAIN call[r].plan = 1..Len(call[r].plan)
      /\ Len(call[r].plan) \in Nat
      /\ \A i \in DOMAIN call[r].plan : call[r].plan[i] \in SubQuery
  BY <1>3
<1>5. Subs(r) \subseteq 1..MaxSub
  BY <1>2, <1>4 DEF Subs
<1> QED
  BY <1>3, <1>4, <1>5 DEF Subs, Sub, SubQuery, Ids

(* What the dependencies returned is a set of contents.                       *)
LEMMA InjectedType ==
  ASSUME TypeOK, NEW r \in Requests, NEW i \in Subs(r)
  PROVE  InjectDependencies(r, i) \in SUBSET Contents
<1>1. \A d \in Sub(r, i).deps : <<r, d>> \in Ids
  BY PlanFacts DEF Ids
<1>2. \A t \in Ids : results[t] # NoResult => results[t].content \in Contents \cup {None}
  BY DEF TypeOK, Result
<1> QED
  BY <1>1, <1>2 DEF InjectDependencies

(* The text and key of a sub-query are well typed.                            *)
LEMMA TextType ==
  ASSUME TypeOK, NEW r \in Requests, NEW i \in Subs(r)
  PROVE  /\ TextOf(r, i) \in Text
         /\ MakeCacheKey(TextOf(r, i), call[r].ctx) \in Key
<1>1. TextOf(r, i) \in Text /\ call[r].ctx \in Contexts
  BY PlanFacts DEF TypeOK, TextOf, Text
<1> QED
  BY <1>1 DEF MakeCacheKey, Key

(* Result is a set of records: taking fields, and writing born.               *)
LEMMA ResultBorn ==
  ASSUME NEW x \in Result, NEW n \in Nat
  PROVE  /\ [x EXCEPT !.born = n] \in Result
         /\ [x EXCEPT !.born = n].text = x.text
         /\ [x EXCEPT !.born = n].ctx = x.ctx
         /\ [x EXCEPT !.born = n].id = x.id
         /\ [x EXCEPT !.born = n].born = n
         /\ [x EXCEPT !.born = n] # NoResult
  BY EngineAssumption DEF Result

(* Storing into the cache keeps its two maps typed and in step.               *)
LEMMA SetCacheType ==
  ASSUME TypeOK, NEW key \in Key, NEW x \in Result, SetCache(key, x)
  PROVE  /\ DOMAIN cache' = DOMAIN cache \cup {key}
         /\ DOMAIN stamps' = DOMAIN cache'
         /\ \A k \in DOMAIN cache' : cache'[k] \in Result /\ stamps'[k] \in Nat
         /\ cache'[key] = x
         /\ \A k \in DOMAIN cache \ {key} : cache'[k] = cache[k]
  BY DEF TypeOK, SetCache

(* Evict keeps the two dictionaries of the cache on the same keys.            *)
LEMMA EvictType ==
  ASSUME TypeOK, NEW key, Evict(key)
  PROVE  /\ DOMAIN cache' \subseteq DOMAIN cache
         /\ DOMAIN stamps' = DOMAIN cache'
         /\ \A k \in DOMAIN cache' : cache'[k] = cache[k] /\ stamps'[k] = stamps[k]
  BY DEF TypeOK, Evict

(* ------------------------------ type invariant ------------------------------ *)

(* EnterWave keeps the types of the variables it writes.                      *)
LEMMA EnterWaveType ==
  ASSUME TypeOK, NEW r \in Requests, NEW later \in SUBSET Int, EnterWave(r, later)
  PROVE  /\ stage' \in [Requests -> Stages]
         /\ wave' \in [Requests -> Int]
         /\ pos' \in [Requests -> Nat]
<1>1. CASE /\ stage' = [stage EXCEPT ![r] = "returned"]
           /\ UNCHANGED <<wave, pos>>
  BY <1>1 DEF TypeOK, Stages
<1>2. CASE \E w \in later : /\ wave' = [wave EXCEPT ![r] = w]
                            /\ pos' = [pos EXCEPT ![r] = 1]
                            /\ stage' = [stage EXCEPT ![r] = "lookup"]
  <2>1. PICK w \in later : /\ wave' = [wave EXCEPT ![r] = w]
                           /\ pos' = [pos EXCEPT ![r] = 1]
                           /\ stage' = [stage EXCEPT ![r] = "lookup"]
    BY <1>2
  <2>2. w \in Int
    OBVIOUS
  <2> QED
    BY <2>1, <2>2 DEF TypeOK, Stages
<1> QED
  BY <1>1, <1>2 DEF EnterWave

(* Wave numbers are integers.                                                 *)
LEMMA GroupsType ==
  ASSUME TypeOK, NEW r \in Requests
  PROVE  Groups(r) \in SUBSET Int /\ LaterGroups(r) \in SUBSET Int
  BY PlanFacts DEF Groups, LaterGroups

(* The initial states are well typed.                                         *)
LEMMA TypeInit == Init => TypeOK
  BY EngineAssumption DEF Init, TypeOK, Stages, FutureStates

(* What the invariant says of a future that as_completed is about to yield.   *)
LEMMA BatchFacts ==
  ASSUME IInv, NEW r \in Requests, NEW i \in batch[r], stage[r] = "collect"
  PROVE  /\ i \in Subs(r)
         /\ Sub(r, i).group = wave[r]
         /\ fut[<<r, i>>] = "done"
         /\ results[<<r, i>>] = NoResult
         /\ outcome[<<r, i>>] \in Result
         /\ ComputedFor(outcome[<<r, i>>], TextOf(r, i), call[r].ctx)
<1>1. /\ i \in Subs(r) /\ Sub(r, i).group = wave[r]
      /\ fut[<<r, i>>] = "done" /\ results[<<r, i>>] = NoResult
  BY DEF IInv, LoopInv, CallLoop, Finished, Uncollected, Futures, Members
<1>2. ComputedFor(outcome[<<r, i>>], TextOf(r, i), call[r].ctx)
  BY <1>1 DEF IInv, AnswersFaithful
<1>3. <<r, i>> \in Ids
  BY <1>1, PlanFacts DEF IInv
<1> QED
  BY <1>1, <1>2, <1>3 DEF IInv, TypeOK, ComputedFor

(* Every step keeps the types; Collect is typed because of what the invariant *)
(* says of the batch.                                                         *)
LEMMA TypeStep ==
  ASSUME IInv, [Next]_vars
  PROVE  TypeOK'
<1> USE DEF IInv
<1>1. ASSUME NEW r \in Requests, Execute(r) PROVE TypeOK'
  BY <1>1, EnterWaveType, GroupsType DEF Execute, TypeOK, poolVars, cacheVars
<1>2. ASSUME NEW r \in Requests, NEW i \in Subs(r), LookUp(r, i) PROVE TypeOK'
  <2> DEFINE key == MakeCacheKey(TextOf(r, i), call[r].ctx)
  <2>1. <<r, i>> \in Ids /\ i \in Nat
    BY PlanFacts, EngineAssumption
  <2>2. CASE /\ Fresh(key)
             /\ results' = [results EXCEPT ![<<r, i>>] = cache[key]]
             /\ pos' = [pos EXCEPT ![r] = i + 1]
             /\ UNCHANGED <<stage, cacheVars>>
    <3>1. cache[key] \in Result
      BY <2>2 DEF Fresh, TypeOK
    <3> HIDE DEF key
    <3> QED
      BY <1>2, <2>1, <2>2, <3>1 DEF LookUp, TypeOK, poolVars, cacheVars
  <2>3. CASE /\ Evict(key)
             /\ stage' = [stage EXCEPT ![r] = "submit"]
             /\ UNCHANGED <<results, pos>>
    <3>1. DOMAIN cache' \subseteq Key /\ DOMAIN stamps' = DOMAIN cache'
      BY <2>3, EvictType DEF TypeOK
    <3>2. \A k \in DOMAIN cache' : cache'[k] \in Result /\ stamps'[k] \in Nat
      BY <2>3, EvictType DEF TypeOK
    <3> QED
      BY <1>2, <2>3, <3>1, <3>2 DEF LookUp, TypeOK, Stages, poolVars
  <2> QED
    BY <1>2, <2>2, <2>3 DEF LookUp
<1>3. ASSUME NEW r \in Requests, NEW i \in Subs(r), Submit(r, i) PROVE TypeOK'
  <2>1. <<r, i>> \in Ids /\ i \in Nat
    BY PlanFacts, EngineAssumption
  <2>2. InjectDependencies(r, i) \in SUBSET Contents
    BY InjectedType
  <2>3. CASE poolOpen
    <3>1. queue' \in Seq(Ids)
      <4>1. queue' = Append(queue, <<r, i>>) /\ queue \in Seq(Ids)
        BY <1>3, <2>3 DEF Submit, TypeOK
      <4> QED
        BY <2>1, <4>1
    <3>2. fut' \in [Ids -> FutureStates]
      BY <1>3, <2>1, <2>3 DEF Submit, TypeOK, FutureStates
    <3>3. inj' \in [Ids -> SUBSET Contents]
      BY <1>3, <2>1, <2>2 DEF Submit, TypeOK
    <3>4. stage' \in [Requests -> Stages] /\ pos' \in [Requests -> Nat]
      <4>1. /\ stage' = [stage EXCEPT ![r] = "lookup"]
            /\ pos' = [pos EXCEPT ![r] = i + 1]
        BY <1>3, <2>3 DEF Submit
      <4>2. i + 1 \in Nat
        BY <2>1
      <4> QED
        BY <4>1, <4>2 DEF TypeOK, Stages
    <3> QED
      BY <1>3, <3>1, <3>2, <3>3, <3>4 DEF Submit, TypeOK, cacheVars
  <2>4. CASE ~poolOpen
    BY <1>3, <2>1, <2>2, <2>4 DEF Submit, TypeOK, Stages, cacheVars
  <2> QED
    BY <2>3, <2>4
<1>4. ASSUME NEW r \in Requests, AwaitWave(r) PROVE TypeOK'
  <2>1. Finished(r) \in SUBSET (1..MaxSub)
    BY PlanFacts DEF Finished, Uncollected, Futures, Members
  <2> QED
    BY <1>4, <2>1 DEF AwaitWave, TypeOK, Stages, poolVars, cacheVars
<1>5. ASSUME NEW r \in Requests, NEW i \in Subs(r), Collect(r, i) PROVE TypeOK'
  <2> DEFINE result == [outcome[<<r, i>>] EXCEPT !.born = now]
             key == MakeCacheKey(TextOf(r, i), call[r].ctx)
  <2>1. <<r, i>> \in Ids
    BY PlanFacts
  <2>2. result \in Result
    BY <1>5, BatchFacts, ResultBorn DEF Collect, TypeOK
  <2>3. key \in Key
    BY TextType
  <2>4. SetCache(key, result)
    BY <1>5 DEF Collect
  <2> HIDE DEF result, key
  <2>5. /\ DOMAIN cache' \subseteq Key
        /\ DOMAIN stamps' = DOMAIN cache'
        /\ \A k \in DOMAIN cache' : cache'[k] \in Result /\ stamps'[k] \in Nat
    BY <2>2, <2>3, <2>4, SetCacheType DEF TypeOK
  <2>6. results' = [results EXCEPT ![<<r, i>>] = result]
    BY <1>5 DEF Collect, result
  <2>7. results' \in [Ids -> Result \cup {NoResult}]
    BY <2>1, <2>2, <2>6 DEF TypeOK
  <2>8. batch' \in [Requests -> SUBSET (1..MaxSub)]
    BY <1>5 DEF Collect, TypeOK
  <2> QED
    BY <1>5, <2>5, <2>7, <2>8 DEF Collect, TypeOK, poolVars
<1>6. ASSUME NEW r \in Requests, Wake(r) PROVE TypeOK'
  <2>1. Finished(r) \in SUBSET (1..MaxSub)
    BY PlanFacts DEF Finished, Uncollected, Futures, Members
  <2> QED
    BY <1>6, <2>1 DEF Wake, TypeOK, poolVars, cacheVars
<1>7. ASSUME NEW r \in Requests, WaveTimeout(r) PROVE TypeOK'
  BY <1>7 DEF WaveTimeout, TypeOK, Stages, poolVars, cacheVars
<1>8. ASSUME NEW r \in Requests, EndWave(r) PROVE TypeOK'
  BY <1>8, EnterWaveType, GroupsType DEF EndWave, TypeOK, poolVars, cacheVars
<1>9. ASSUME Start PROVE TypeOK'
  BY <1>9 DEF Start, TypeOK, FutureStates, reqVars, cacheVars
<1>10. ASSUME NEW t \in Ids, Finish(t) PROVE TypeOK'
  <2>1. PICK r \in Requests, i \in 1..MaxSub : t = <<r, i>>
    BY DEF Ids
  <2>2. i \in Subs(r)
    BY <1>10, <2>1 DEF Finish, LoopInv, CallLoop
  <2>3. \A ok \in BOOLEAN, content \in Contents \cup {None} :
          ExecuteOne(t, ok, content) \in Result
    BY <2>1, <2>2, TextType, PlanFacts DEF ExecuteOne, Result
  <2>4. outcome' \in [Ids -> Result \cup {NoResult}]
    <3>1. CASE \E content \in Contents \cup {None} :
                 outcome' = [outcome EXCEPT ![t] = ExecuteOne(t, TRUE, content)]
      <4>1. PICK content \in Contents \cup {None} :
                   outcome' = [outcome EXCEPT ![t] = ExecuteOne(t, TRUE, content)]
        BY <3>1
      <4>2. ExecuteOne(t, TRUE, content) \in Result
        BY <2>3
      <4> QED
        BY <4>1, <4>2 DEF TypeOK
    <3>2. CASE outcome' = [outcome EXCEPT ![t] = ExecuteOne(t, FALSE, None)]
      <4>1. ExecuteOne(t, FALSE, None) \in Result
        BY <2>3
      <4> QED
        BY <3>2, <4>1 DEF TypeOK
    <3> QED
      BY <1>10, <3>1, <3>2 DEF Finish
  <2> QED
    BY <1>10, <2>4 DEF Finish, TypeOK, FutureStates, reqVars, cacheVars
<1>11. ASSUME Shutdown PROVE TypeOK'
  BY <1>11 DEF Shutdown, TypeOK, reqVars, cacheVars
<1>12. ASSUME Tick PROVE TypeOK'
  BY <1>12 DEF Tick, TypeOK, reqVars, poolVars, cacheVars
<1>13. ASSUME UNCHANGED vars PROVE TypeOK'
  BY <1>13 DEF vars, TypeOK, reqVars, poolVars, cacheVars
<1> QED
  BY <1>1, <1>2, <1>3, <1>4, <1>5, <1>6, <1>7, <1>8, <1>9, <1>10, <1>11, <1>12, <1>13
  DEF Next, ExecuteStep, Quiescent

(* ----------------------------- loop and barrier ----------------------------- *)

(* What the invariant says of one call.                                       *)
Active(r) == stage[r] \in {"lookup", "submit", "collect"}

CallInv(r) ==
  /\ CallLoop(r)
  /\ Active(r) => \A i \in Subs(r) :
       /\ Sub(r, i).group < wave[r] => results[<<r, i>>] # NoResult
       /\ Sub(r, i).group > wave[r] => /\ results[<<r, i>>] = NoResult
                                       /\ fut[<<r, i>>] = "none"
  /\ stage[r] = "returned" => \A i \in Subs(r) : results[<<r, i>>] # NoResult

(* The parts of the invariant about single calls, as a property of each call. *)
LEMMA CallInvSplit ==
  (\A r \in Requests : CallInv(r))
    <=> (\A r \in Requests : CallLoop(r)) /\ WaveBarrier /\ CompleteOnReturn
BY DEF CallInv, Active, WaveBarrier, CompleteOnReturn

(* A call whose own state a step leaves alone, except that its futures may    *)
(* move on in the pool.                                                       *)
LEMMA CallFrame ==
  ASSUME TypeOK, NEW s \in Requests, CallInv(s), call' = call,
         stage'[s] = stage[s], wave'[s] = wave[s], pos'[s] = pos[s], batch'[s] = batch[s],
         \A i \in 1..MaxSub :
           /\ results'[<<s, i>>] = results[<<s, i>>]
           /\ fut'[<<s, i>>] = "none" <=> fut[<<s, i>>] = "none"
           /\ fut[<<s, i>>] = "done" => fut'[<<s, i>>] = "done"
  PROVE  CallInv(s)'
<1>1. Subs(s) \subseteq 1..MaxSub
  BY PlanFacts
<1>2. /\ Subs(s)' = Subs(s)
      /\ \A i : Sub(s, i)' = Sub(s, i)
      /\ Members(s, wave[s])' = Members(s, wave[s])
  BY DEF Subs, Sub, Members
<1>3. Finished(s) \subseteq Finished(s)'
  BY <1>1, <1>2 DEF Finished, Uncollected, Futures, Members
<1>4. CallLoop(s)'
  BY <1>1, <1>2, <1>3 DEF CallInv, CallLoop, Members
<1>5. (Active(s) => \A i \in Subs(s) :
         /\ Sub(s, i).group < wave[s] => results[<<s, i>>] # NoResult
         /\ Sub(s, i).group > wave[s] => /\ results[<<s, i>>] = NoResult
                                         /\ fut[<<s, i>>] = "none")'
  BY <1>1, <1>2 DEF CallInv, Active
<1>6. (stage[s] = "returned" => \A i \in Subs(s) : results[<<s, i>>] # NoResult)'
  BY <1>1, <1>2 DEF CallInv
<1> QED
  BY <1>4, <1>5, <1>6 DEF CallInv

(* Entering a wave, from a state in which every wave up to the last one is    *)
(* answered and no later one was touched.                                     *)
LEMMA EnterWaveInv ==
  ASSUME TypeOK, NEW r \in Requests, NEW later, EnterWave(r, later),
         later \in SUBSET Groups(r),
         UNCHANGED <<call, results, fut, batch>>, batch[r] = {},
         \A i \in 1..MaxSub : fut[<<r, i>>] # "none" => i \in Subs(r),
         \A i \in Subs(r) :
           /\ Sub(r, i).group \notin later => results[<<r, i>>] # NoResult
           /\ Sub(r, i).group \in later => /\ results[<<r, i>>] = NoResult
                                           /\ fut[<<r, i>>] = "none",
         \A v \in Groups(r) \ later, w \in later : v < w
  PROVE  CallInv(r)'
<1>1. /\ Subs(r)' = Subs(r)
      /\ \A i : Sub(r, i)' = Sub(r, i)
  BY DEF Subs, Sub
<1>2. Subs(r) \subseteq 1..MaxSub /\ \A i \in Subs(r) : Sub(r, i).group \in Int
  BY PlanFacts
<1>3. CASE /\ later = {}
           /\ stage' = [stage EXCEPT ![r] = "returned"]
  <2>1. stage'[r] = "returned"
    BY <1>3 DEF TypeOK
  <2> QED
    BY <1>1, <1>2, <1>3, <2>1 DEF CallInv, CallLoop, Active, Members
<1>4. CASE \E w \in later : /\ IsFirst(w, later)
                            /\ wave' = [wave EXCEPT ![r] = w]
                            /\ pos' = [pos EXCEPT ![r] = 1]
                            /\ stage' = [stage EXCEPT ![r] = "lookup"]
  <2>1. PICK w \in later : /\ IsFirst(w, later)
                           /\ wave' = [wave EXCEPT ![r] = w]
                           /\ pos' = [pos EXCEPT ![r] = 1]
                           /\ stage' = [stage EXCEPT ![r] = "lookup"]
    BY <1>4
  <2>2. stage'[r] = "lookup" /\ wave'[r] = w /\ pos'[r] = 1
    BY <2>1 DEF TypeOK
  <2>3. \A i \in Subs(r) : Sub(r, i).group \in Groups(r)
    BY DEF Groups
  <2>4. \A i \in Subs(r) : Sub(r, i).group < w => Sub(r, i).group \notin later
    <3>1. SUFFICES ASSUME NEW i \in Subs(r), Sub(r, i).group < w, Sub(r, i).group \in later
                   PROVE  FALSE
      OBVIOUS
    <3>2. w <= Sub(r, i).group /\ w \in Int
      BY <2>1, <3>1, GroupsType DEF IsFirst
    <3> QED
      BY <1>2, <3>1, <3>2
  <2>5. \A i \in Subs(r) : Sub(r, i).group >= w => Sub(r, i).group \in later
    <3>1. SUFFICES ASSUME NEW i \in Subs(r), Sub(r, i).group >= w, Sub(r, i).group \notin later
                   PROVE  FALSE
      OBVIOUS
    <3>2. Sub(r, i).group < w /\ w \in Int
      BY <2>1, <2>3, <3>1, GroupsType
    <3> QED
      BY <1>2, <3>1, <3>2
  <2>6. w \in Int
    BY GroupsType
  <2>7. CallLoop(r)'
    <3>1. \A i \in Members(r, w) : i >= 1 /\ results[<<r, i>>] = NoResult /\ fut[<<r, i>>] = "none"
      BY <1>2, <2>5, <2>6, EngineAssumption DEF Members
    <3> QED
      BY <1>1, <2>2, <3>1 DEF CallLoop, Members
  <2>8. \A i \in Subs(r) :
          /\ Sub(r, i).group < w => results[<<r, i>>] # NoResult
          /\ Sub(r, i).group > w => /\ results[<<r, i>>] = NoResult
                                    /\ fut[<<r, i>>] = "none"
    BY <1>2, <2>4, <2>5, <2>6
  <2> QED
    BY <1>1, <2>2, <2>7, <2>8 DEF CallInv
<1> QED
  BY <1>3, <1>4 DEF EnterWave

(* One step of the thread of call r keeps the invariant of call r.            *)
LEMMA OwnStep ==
  ASSUME IInv, NEW r \in Requests, Execute(r) \/ ExecuteStep(r)
  PROVE  CallInv(r)'
<1> USE DEF IInv
<1>0. CallInv(r)
  BY CallInvSplit DEF LoopInv
<1>p. Subs(r) \subseteq 1..MaxSub /\ \A i \in Subs(r) : Sub(r, i).group \in Int
  BY PlanFacts
<1>1. CASE Execute(r)
  <2>1. Groups(r) \in SUBSET Groups(r) /\ \A i \in Subs(r) : Sub(r, i).group \in Groups(r)
    BY DEF Groups
  <2>2. /\ batch[r] = {}
        /\ \A i \in 1..MaxSub : fut[<<r, i>>] # "none" => i \in Subs(r)
        /\ \A i \in Subs(r) : results[<<r, i>>] = NoResult /\ fut[<<r, i>>] = "none"
    BY <1>0, <1>1 DEF CallInv, CallLoop, Execute
  <2>3. EnterWave(r, Groups(r)) /\ UNCHANGED <<call, results, fut, batch>>
    BY <1>1 DEF Execute, poolVars
  <2> QED
    BY <2>1, <2>2, <2>3, EnterWaveInv
<1>2. ASSUME NEW i \in Subs(r), LookUp(r, i) PROVE CallInv(r)'
  <2> DEFINE key == MakeCacheKey(TextOf(r, i), call[r].ctx)
  <2>1. /\ stage[r] = "lookup" /\ i \in Members(r, wave[r]) /\ i >= pos[r]
        /\ \A j \in Members(r, wave[r]) : j >= pos[r] => i <= j
        /\ UNCHANGED <<call, wave, batch, fut>>
        /\ batch[r] = {}
    BY <1>0, <1>2 DEF LookUp, IsFirst, Unvisited, poolVars, CallInv, CallLoop
  <2>2. /\ Subs(r)' = Subs(r)
        /\ \A j : Sub(r, j)' = Sub(r, j)
        /\ Members(r, wave[r])' = Members(r, wave[r])
    BY <2>1 DEF Subs, Sub, Members
  <2>3. i \in Nat /\ pos[r] \in Nat /\ wave[r] \in Int /\ \A j \in Subs(r) : j \in Nat /\ <<r, j>> \in Ids
    BY <1>p, PlanFacts, EngineAssumption DEF TypeOK
  <2>4. CASE /\ Fresh(key)
             /\ results' = [results EXCEPT ![<<r, i>>] = cache[key]]
             /\ pos' = [pos EXCEPT ![r] = i + 1]
             /\ UNCHANGED <<stage, cacheVars>>
    <3>1. cache[key] \in Result /\ cache[key] # NoResult
      BY <2>4, EngineAssumption DEF Fresh, TypeOK
    <3> HIDE DEF key
    <3>2. /\ pos'[r] = i + 1 /\ stage' = stage
          /\ results'[<<r, i>>] # NoResult
          /\ \A j \in Subs(r) : j # i => results'[<<r, j>>] = results[<<r, j>>]
      BY <2>3, <2>4, <3>1 DEF TypeOK
    <3>3. \A j \in Members(r, wave[r]) :
            IF j >= i + 1 THEN results'[<<r, j>>] = NoResult /\ fut[<<r, j>>] = "none"
                          ELSE results'[<<r, j>>] # NoResult \/ fut[<<r, j>>] # "none"
      BY <1>0, <2>1, <2>3, <3>2 DEF CallInv, CallLoop, Members
    <3>4. CallLoop(r)'
      BY <1>0, <2>1, <2>2, <3>2, <3>3 DEF CallInv, CallLoop
    <3> QED
      BY <1>0, <2>1, <2>2, <2>3, <3>2, <3>4 DEF CallInv, Active, Members
  <2>5. CASE /\ stage' = [stage EXCEPT ![r] = "submit"]
             /\ UNCHANGED <<results, pos>>
    <3>1. stage'[r] = "submit"
      BY <2>5 DEF TypeOK
    <3> QED
      BY <1>0, <2>1, <2>2, <2>5, <3>1 DEF CallInv, CallLoop, Active
  <2> QED
    BY <1>2, <2>4, <2>5 DEF LookUp
<1>3. ASSUME NEW i \in Subs(r), Submit(r, i) PROVE CallInv(r)'
  <2>1. /\ stage[r] = "submit" /\ i \in Members(r, wave[r]) /\ i >= pos[r]
        /\ \A j \in Members(r, wave[r]) : j >= pos[r] => i <= j
        /\ UNCHANGED <<call, wave, batch, results>>
        /\ batch[r] = {}
    BY <1>0, <1>3 DEF Submit, IsFirst, Unvisited, CallInv, CallLoop
  <2>2. /\ Subs(r)' = Subs(r)
        /\ \A j : Sub(r, j)' = Sub(r, j)
        /\ Members(r, wave[r])' = Members(r, wave[r])
    BY <2>1 DEF Subs, Sub, Members
  <2>3. i \in Nat /\ pos[r] \in Nat /\ wave[r] \in Int /\ \A j \in Subs(r) : j \in Nat /\ <<r, j>> \in Ids
    BY <1>p, PlanFacts, EngineAssumption DEF TypeOK
  <2>4. CASE poolOpen
    <3>1. /\ fut' = [fut EXCEPT ![<<r, i>>] = "queued"]
          /\ pos' = [pos EXCEPT ![r] = i + 1]
          /\ stage' = [stage EXCEPT ![r] = "lookup"]
      BY <1>3, <2>4 DEF Submit
    <3>2. /\ pos'[r] = i + 1 /\ stage'[r] = "lookup"
          /\ fut'[<<r, i>>] = "queued"
          /\ \A j \in 1..MaxSub : j # i => fut'[<<r, j>>] = fut[<<r, j>>]
      BY <2>3, <3>1 DEF TypeOK, Ids
    <3>3. \A j \in Members(r, wave[r]) :
            IF j >= i + 1 THEN results[<<r, j>>] = NoResult /\ fut'[<<r, j>>] = "none"
                          ELSE results[<<r, j>>] # NoResult \/ fut'[<<r, j>>] # "none"
      BY <1>0, <1>p, <2>1, <2>3, <3>2 DEF CallInv, CallLoop, Members
    <3>4. CallLoop(r)'
      BY <1>0, <2>1, <2>2, <3>2, <3>3 DEF CallInv, CallLoop
    <3> QED
      BY <1>0, <1>p, <2>1, <2>2, <2>3, <3>2, <3>4 DEF CallInv, Active, Members
  <2>5. CASE ~poolOpen
    <3>1. stage'[r] = "raised" /\ UNCHANGED <<fut, pos>>
      BY <1>3, <2>5 DEF Submit, TypeOK
    <3> QED
      BY <1>0, <2>1, <2>2, <3>1 DEF CallInv, CallLoop, Active
  <2> QED
    BY <2>4, <2>5
<1>4. CASE AwaitWave(r)
  <2>1. /\ stage[r] = "lookup" /\ stage'[r] = "collect"
        /\ batch'[r] = Finished(r)
        /\ UNCHANGED <<call, wave, pos, results, fut>>
    BY <1>4 DEF AwaitWave, TypeOK, poolVars
  <2>2. /\ Subs(r)' = Subs(r)
        /\ \A j : Sub(r, j)' = Sub(r, j)
        /\ Members(r, wave[r])' = Members(r, wave[r])
        /\ Finished(r)' = Finished(r)
    BY <2>1 DEF Subs, Sub, Members, Finished, Uncollected, Futures
  <2>3. \A j \in Members(r, wave[r]) : ~(j >= pos[r])
    BY <1>4 DEF AwaitWave, Unvisited
  <2>4. CallLoop(r)'
    BY <1>0, <2>1, <2>2, <2>3 DEF CallInv, CallLoop
  <2> QED
    BY <1>0, <2>1, <2>2, <2>4 DEF CallInv, Active
<1>5. ASSUME NEW i \in Subs(r), Collect(r, i) PROVE CallInv(r)'
  <2> DEFINE result == [outcome[<<r, i>>] EXCEPT !.born = now]
  <2>1. /\ stage[r] = "collect" /\ i \in batch[r]
        /\ results' = [results EXCEPT ![<<r, i>>] = result]
        /\ UNCHANGED <<call, stage, wave, pos, fut>>
        /\ batch'[r] = batch[r] \ {i}
    <3>1. /\ stage[r] = "collect" /\ i \in batch[r]
          /\ results' = [results EXCEPT ![<<r, i>>] = result]
          /\ UNCHANGED <<call, stage, wave, pos, fut>>
          /\ batch' = [batch EXCEPT ![r] = @ \ {i}]
      BY <1>5 DEF Collect, poolVars
    <3>2. r \in DOMAIN batch
      BY DEF TypeOK
    <3> QED
      BY <3>1, <3>2
  <2>2. /\ Sub(r, i).group = wave[r] /\ result # NoResult
    <3>1. Sub(r, i).group = wave[r] /\ outcome[<<r, i>>] \in Result
      BY <2>1, BatchFacts
    <3>2. now \in Nat
      BY DEF TypeOK
    <3> QED
      BY <3>1, <3>2, ResultBorn
  <2>3. /\ Subs(r)' = Subs(r)
        /\ \A j : Sub(r, j)' = Sub(r, j)
        /\ Members(r, wave[r])' = Members(r, wave[r])
    BY <2>1 DEF Subs, Sub, Members
  <2> HIDE DEF result
  <2>4. /\ results'[<<r, i>>] # NoResult
        /\ \A j \in Subs(r) : j # i => results'[<<r, j>>] = results[<<r, j>>]
    BY <2>1, <2>2, PlanFacts DEF TypeOK
  <2>5. batch'[r] \subseteq Finished(r)'
    BY <1>0, <2>1, <2>3, <2>4 DEF CallInv, CallLoop, Finished, Uncollected, Futures, Members
  <2>6. CallLoop(r)'
    BY <1>0, <2>1, <2>3, <2>4, <2>5 DEF CallInv, CallLoop, Members
  <2> QED
    BY <1>0, <1>p, <2>1, <2>2, <2>3, <2>4, <2>6 DEF CallInv, Active
<1>6. CASE Wake(r)
  <2>1. /\ stage[r] = "collect" /\ batch'[r] = Finished(r)
        /\ UNCHANGED <<call, stage, wave, pos, results, fut>>
    BY <1>6 DEF Wake, TypeOK, poolVars
  <2>2. /\ Subs(r)' = Subs(r)
        /\ \A j : Sub(r, j)' = Sub(r, j)
        /\ Members(r, wave[r])' = Members(r, wave[r])
        /\ Finished(r)' = Finished(r)
    BY <2>1 DEF Subs, Sub, Members, Finished, Uncollected, Futures
  <2>3. CallLoop(r)'
    BY <1>0, <2>1, <2>2 DEF CallInv, CallLoop
  <2> QED
    BY <1>0, <2>1, <2>2, <2>3 DEF CallInv, Active
<1>7. CASE WaveTimeout(r)
  <2>1. /\ stage'[r] = "raised" /\ batch[r] = {}
        /\ UNCHANGED <<call, wave, pos, batch, results, fut>>
    BY <1>7 DEF WaveTimeout, TypeOK, poolVars
  <2>2. Subs(r)' = Subs(r)
    BY <2>1 DEF Subs
  <2> QED
    BY <1>0, <2>1, <2>2 DEF CallInv, CallLoop, Active
<1>8. CASE EndWave(r)
  <2>1. LaterGroups(r) \in SUBSET Groups(r) /\ \A v \in Groups(r) : v \in Int
    BY GroupsType DEF LaterGroups
  <2>2. wave[r] \in Int /\ stage[r] = "collect"
    BY <1>8 DEF TypeOK, EndWave
  <2>3. \A v \in Groups(r) \ LaterGroups(r), w \in LaterGroups(r) : v < w
    BY <2>1, <2>2 DEF LaterGroups
  <2>4. ASSUME NEW i \in Subs(r)
        PROVE  /\ Sub(r, i).group \notin LaterGroups(r) => results[<<r, i>>] # NoResult
               /\ Sub(r, i).group \in LaterGroups(r) => /\ results[<<r, i>>] = NoResult
                                                        /\ fut[<<r, i>>] = "none"
    <3>1. Sub(r, i).group \in Groups(r)
      BY DEF Groups
    <3>2. CASE Sub(r, i).group < wave[r]
      BY <1>p, <3>2, <1>0, <2>2 DEF CallInv, Active, LaterGroups
    <3>3. CASE Sub(r, i).group = wave[r]
      BY <1>8, <1>p, <3>3, <1>0, <2>2
      DEF CallInv, CallLoop, LaterGroups, EndWave, Uncollected, Futures, Members
    <3>4. CASE Sub(r, i).group > wave[r]
      BY <1>p, <3>1, <3>4, <1>0, <2>2 DEF CallInv, Active, LaterGroups
    <3> QED
      BY <1>p, <2>2, <3>2, <3>3, <3>4
  <2>5. /\ batch[r] = {}
        /\ \A i \in 1..MaxSub : fut[<<r, i>>] # "none" => i \in Subs(r)
    BY <1>0, <1>8 DEF CallInv, CallLoop, EndWave
  <2>6. EnterWave(r, LaterGroups(r)) /\ UNCHANGED <<call, results, fut, batch>>
    BY <1>8 DEF EndWave, poolVars
  <2> QED
    BY <2>1, <2>3, <2>4, <2>5, <2>6, EnterWaveInv
<1> QED
  BY <1>1, <1>2, <1>3, <1>4, <1>5, <1>6, <1>7, <1>8 DEF ExecuteStep

(* A step of call r leaves the state of every other call alone.               *)
LEMMA OtherCalls ==
  ASSUME IInv, NEW r \in Requests, NEW s \in Requests \ {r}, Execute(r) \/ ExecuteStep(r)
  PROVE  /\ call' = call
         /\ stage'[s] = stage[s] /\ wave'[s] = wave[s] /\ pos'[s] = pos[s] /\ batch'[s] = batch[s]
         /\ \A i \in 1..MaxSub : /\ results'[<<s, i>>] = results[<<s, i>>]
                                 /\ fut'[<<s, i>>] = fut[<<s, i>>]
<1> USE DEF IInv
<1>0. \A i \in 1..MaxSub : <<s, i>> \in Ids
  BY DEF Ids
<1>1. CASE Execute(r) \/ EndWave(r)
  BY <1>1 DEF Execute, EndWave, EnterWave, TypeOK, poolVars
<1>2. ASSUME NEW i \in Subs(r), LookUp(r, i) \/ Submit(r, i) \/ Collect(r, i)
      PROVE  /\ call' = call
             /\ stage'[s] = stage[s] /\ wave'[s] = wave[s] /\ pos'[s] = pos[s] /\ batch'[s] = batch[s]
             /\ \A j \in 1..MaxSub : /\ results'[<<s, j>>] = results[<<s, j>>]
                                     /\ fut'[<<s, j>>] = fut[<<s, j>>]
  <2>1. CASE LookUp(r, i)
    BY <1>0, <2>1 DEF LookUp, TypeOK, poolVars
  <2>2. CASE Submit(r, i)
    BY <1>0, <2>2 DEF Submit, TypeOK
  <2>3. CASE Collect(r, i)
    BY <1>0, <2>3 DEF Collect, TypeOK, poolVars
  <2> QED
    BY <1>2, <2>1, <2>2, <2>3
<1>3. CASE AwaitWave(r) \/ Wake(r) \/ WaveTimeout(r)
  BY <1>3 DEF AwaitWave, Wake, WaveTimeout, TypeOK, poolVars
<1> QED
  BY <1>1, <1>2, <1>3 DEF ExecuteStep

(* A step of the pool, of the clock, or a stuttering step.                    *)
PoolStep == Start \/ (\E t \in Ids : Finish(t)) \/ Shutdown \/ Tick \/ UNCHANGED vars

(* A step is one of the pool, the clock or shutdown, or one of a call.        *)
LEMMA NextSplit ==
  ASSUME [Next]_vars
  PROVE  PoolStep \/ \E r \in Requests : Execute(r) \/ ExecuteStep(r)
BY DEF Next, PoolStep, Quiescent

(* The steps that touch the data of the executor, apart from the many that    *)
(* only move a call, close the pool or let time pass.                         *)
LEMMA DataSteps ==
  ASSUME [Next]_vars
  PROVE  \/ \E r \in Requests : \E i \in Subs(r) : LookUp(r, i) \/ Submit(r, i) \/ Collect(r, i)
         \/ Start
         \/ \E t \in Ids : Finish(t)
         \/ UNCHANGED <<inj, results, fut, outcome, queue, cache, stamps>>
<1>1. ASSUME NEW r \in Requests,
             Execute(r) \/ AwaitWave(r) \/ Wake(r) \/ WaveTimeout(r) \/ EndWave(r)
      PROVE  UNCHANGED <<inj, results, fut, outcome, queue, cache, stamps>>
  BY <1>1 DEF Execute, AwaitWave, Wake, WaveTimeout, EndWave, poolVars, cacheVars
<1>2. Shutdown \/ Tick \/ Quiescent \/ UNCHANGED vars
        => UNCHANGED <<inj, results, fut, outcome, queue, cache, stamps>>
  BY DEF Shutdown, Tick, Quiescent, vars, poolVars, cacheVars
<1> QED
  BY <1>1, <1>2 DEF Next, ExecuteStep

(* The task that Start takes is queued.                                       *)
LEMMA HeadQueued ==
  ASSUME IInv, Start
  PROVE  Head(queue) \in Ids /\ fut[Head(queue)] = "queued"
<1>1. queue \in Seq(Ids) /\ queue # <<>>
  BY DEF IInv, TypeOK, Start
<1>2. 1 \in DOMAIN queue /\ Head(queue) = queue[1] /\ Head(queue) \in Ids
  BY <1>1
<1> QED
  BY <1>2 DEF IInv, LoopInv, QueueInv

(* Steps of the pool leave the calls alone, but for the progress of futures   *)
(* that exist.                                                                *)
LEMMA PoolStepFrame ==
  ASSUME IInv, PoolStep
  PROVE  /\ call' = call /\ reqVars' = reqVars /\ results' = results /\ inj' = inj
         /\ cacheVars' = cacheVars
         /\ \A t \in Ids : /\ fut'[t] = "none" <=> fut[t] = "none"
                           /\ fut[t] = "done" => fut'[t] = "done"
<1>1. CASE Start
  BY <1>1, HeadQueued DEF Start, IInv, TypeOK
<1>2. CASE \E t \in Ids : Finish(t)
  BY <1>2 DEF Finish, IInv, TypeOK
<1>3. CASE Shutdown \/ Tick \/ UNCHANGED vars
  BY <1>3 DEF Shutdown, Tick, vars, poolVars
<1> QED
  BY <1>1, <1>2, <1>3 DEF PoolStep

(* Every step keeps the invariant of every call: its own steps, those of      *)
(* other calls and those of the pool.                                         *)
LEMMA CallStep ==
  ASSUME IInv, [Next]_vars
  PROVE  \A s \in Requests : CallInv(s)'
<1>0. TypeOK /\ \A s \in Requests : CallInv(s)
  BY CallInvSplit DEF IInv, LoopInv
<1>1. CASE PoolStep
  <2>1. \A s \in Requests, i \in 1..MaxSub : <<s, i>> \in Ids
    BY DEF Ids
  <2>2. UNCHANGED <<call, stage, wave, pos, batch, results>>
    BY <1>1, PoolStepFrame DEF reqVars
  <2>3. ASSUME NEW s \in Requests PROVE CallInv(s)'
    <3>1. /\ stage'[s] = stage[s] /\ wave'[s] = wave[s]
          /\ pos'[s] = pos[s] /\ batch'[s] = batch[s]
          /\ \A i \in 1..MaxSub : results'[<<s, i>>] = results[<<s, i>>]
      BY <2>2
    <3>2. ASSUME NEW i \in 1..MaxSub
          PROVE  /\ fut'[<<s, i>>] = "none" <=> fut[<<s, i>>] = "none"
                 /\ fut[<<s, i>>] = "done" => fut'[<<s, i>>] = "done"
      <4>1. <<s, i>> \in Ids
        BY <2>1
      <4> QED
        BY <1>1, <4>1, PoolStepFrame
    <3> QED
      BY <1>0, <2>2, <3>1, <3>2, CallFrame
  <2> QED
    BY <2>3
<1>2. ASSUME NEW r \in Requests, Execute(r) \/ ExecuteStep(r), NEW s \in Requests
      PROVE  CallInv(s)'
  <2>1. CASE s = r
    BY <1>2, <2>1, OwnStep
  <2>2. CASE s # r
    BY <1>0, <1>2, <2>2, OtherCalls, CallFrame
  <2> QED
    BY <2>1, <2>2
<1> QED
  BY <1>1, <1>2, NextSplit

(* Every step keeps the queue in order: Submit adds a task that was not       *)
(* queued, Start takes the first.                                             *)
LEMMA QueueStep ==
  ASSUME IInv, [Next]_vars
  PROVE  QueueInv'
<1> USE DEF IInv
<1>0. /\ QueueInv /\ queue \in Seq(Ids) /\ fut \in [Ids -> FutureStates]
      /\ \A n \in DOMAIN queue : queue[n] \in Ids
  BY DEF LoopInv, TypeOK
<1>1. CASE Start
  <2>1. /\ queue # <<>> /\ queue' = Tail(queue)
        /\ fut' = [fut EXCEPT ![Head(queue)] = "running"]
    BY <1>1 DEF Start
  <2>2. /\ DOMAIN queue = 1..Len(queue) /\ Len(queue) \in Nat \ {0}
        /\ Head(queue) = queue[1]
        /\ DOMAIN queue' = 1..(Len(queue) - 1)
        /\ \A n \in DOMAIN queue' : queue'[n] = queue[n + 1] /\ n + 1 \in DOMAIN queue /\ n + 1 # 1
    BY <1>0, <2>1
  <2>3. \A n \in DOMAIN queue' : fut'[queue'[n]] = "queued"
    BY <1>0, <2>1, <2>2 DEF QueueInv
  <2>4. \A m, n \in DOMAIN queue' : queue'[m] = queue'[n] => m = n
    BY <1>0, <2>2 DEF QueueInv
  <2> QED
    BY <2>3, <2>4 DEF QueueInv
<1>2. ASSUME NEW t \in Ids, Finish(t) PROVE QueueInv'
  BY <1>0, <1>2 DEF Finish, QueueInv
<1>3. ASSUME NEW r \in Requests, NEW i \in Subs(r), Submit(r, i) PROVE QueueInv'
  <2>1. CASE ~poolOpen
    BY <1>0, <1>3, <2>1 DEF Submit, QueueInv
  <2>2. CASE poolOpen
    <3>1. /\ queue' = Append(queue, <<r, i>>)
          /\ fut' = [fut EXCEPT ![<<r, i>>] = "queued"]
      BY <1>3, <2>2 DEF Submit
    <3>2. fut[<<r, i>>] = "none" /\ <<r, i>> \in Ids
      BY <1>3, PlanFacts DEF LoopInv, CallLoop, Submit, IsFirst, Unvisited, Members
    <3>3. /\ DOMAIN queue = 1..Len(queue) /\ Len(queue) \in Nat
          /\ DOMAIN queue' = 1..(Len(queue) + 1)
          /\ \A n \in DOMAIN queue : queue'[n] = queue[n]
          /\ queue'[Len(queue) + 1] = <<r, i>>
      BY <1>0, <3>1, <3>2
    <3>4. \A n \in DOMAIN queue' : n \in DOMAIN queue \/ n = Len(queue) + 1
      BY <3>3
    <3>5. \A n \in DOMAIN queue : queue[n] # <<r, i>> /\ fut'[queue[n]] = "queued"
      BY <1>0, <3>1, <3>2 DEF QueueInv
    <3>6. \A n \in DOMAIN queue' : fut'[queue'[n]] = "queued"
      BY <1>0, <3>1, <3>2, <3>3, <3>4, <3>5
    <3>7. \A m, n \in DOMAIN queue' : queue'[m] = queue'[n] => m = n
      BY <1>0, <3>3, <3>4, <3>5 DEF QueueInv
    <3> QED
      BY <3>6, <3>7 DEF QueueInv
  <2> QED
    BY <2>1, <2>2
<1>4. CASE UNCHANGED <<fut, queue>>
  BY <1>0, <1>4 DEF QueueInv
<1> QED
  BY <1>1, <1>2, <1>3, <1>4, DataSteps DEF LookUp, Collect, poolVars

(* No step changes the plan or the context of a call.                         *)
LEMMA CallsKept ==
  ASSUME [Next]_vars
  PROVE  call' = call
<1>1. ASSUME NEW r \in Requests, Execute(r) PROVE call' = call
  BY <1>1 DEF Execute
<1>2. ASSUME NEW r \in Requests, ExecuteStep(r) PROVE call' = call
  <2>1. ASSUME NEW i \in Subs(r), LookUp(r, i) \/ Submit(r, i) \/ Collect(r, i)
        PROVE  call' = call
    BY <2>1 DEF LookUp, Submit, Collect
  <2>2. AwaitWave(r) \/ Wake(r) \/ WaveTimeout(r) \/ EndWave(r) => call' = call
    BY DEF AwaitWave, Wake, WaveTimeout, EndWave
  <2> QED
    BY <1>2, <2>1, <2>2 DEF ExecuteStep
<1>3. ASSUME Start \/ (\E t \in Ids : Finish(t)) \/ Shutdown \/ Tick \/ Quiescent \/ UNCHANGED vars
      PROVE  call' = call
  BY <1>3 DEF Start, Finish, Shutdown, Tick, Quiescent, vars
<1> QED
  BY <1>1, <1>2, <1>3 DEF Next

(* --------------------------------- answers ---------------------------------- *)

(* Every step keeps answers and cache entries with their texts.  The text of  *)
(* a sub-query changes only in Submit, when it has neither a result nor a     *)
(* finished future.                                                           *)
LEMMA FaithfulStep ==
  ASSUME IInv, [Next]_vars
  PROVE  AnswersFaithful'
<1> USE DEF IInv
<1>0. /\ \A r \in Requests : Subs(r) \subseteq 1..MaxSub
      /\ \A r \in Requests : \A i \in Subs(r) : <<r, i>> \in Ids
  BY PlanFacts
<1>c. call' = call
  BY CallsKept
<1>s. \A r \in Requests : Subs(r)' = Subs(r) /\ \A i : Sub(r, i)' = Sub(r, i)
  BY <1>c DEF Subs, Sub
<1>1. ASSUME NEW r \in Requests, NEW i \in Subs(r), LookUp(r, i) PROVE AnswersFaithful'
  <2> DEFINE key == MakeCacheKey(TextOf(r, i), call[r].ctx)
  <2>1. UNCHANGED <<inj, fut, outcome>>
    BY <1>1 DEF LookUp, poolVars
  <2>2. \A s \in Requests : \A j : TextOf(s, j)' = TextOf(s, j)
    BY <1>s, <2>1 DEF TextOf
  <2>3. /\ DOMAIN cache' \subseteq DOMAIN cache
        /\ \A k \in DOMAIN cache' : cache'[k] = cache[k]
    BY <1>1, EvictType DEF LookUp, cacheVars
  <2>4. \A s \in Requests : \A j \in Subs(s) : results'[<<s, j>>] # NoResult =>
          AnswerTo(results'[<<s, j>>], TextOf(s, j), call[s].ctx)
    <3>1. CASE results' = results
      BY <3>1 DEF AnswersFaithful
    <3>2. CASE Fresh(key) /\ results' = [results EXCEPT ![<<r, i>>] = cache[key]]
      <4>1. cache[key] # NoResult /\ Spelling[<<cache[key].text, cache[key].ctx>>] = key
        BY <3>2 DEF Fresh, AnswersFaithful, TypeOK
      <4>2. key = Spelling[<<TextOf(r, i), call[r].ctx>>]
        BY DEF MakeCacheKey
      <4> HIDE DEF key
      <4>3. AnswerTo(cache[key], TextOf(r, i), call[r].ctx)
        BY <4>1, <4>2 DEF AnswerTo, SpelledAlike
      <4> QED
        BY <1>0, <3>2, <4>3 DEF AnswersFaithful, TypeOK
    <3> QED
      BY <1>1, <3>1, <3>2 DEF LookUp
  <2>5. ASSUME NEW s \in Requests, NEW j \in Subs(s)
        PROVE  /\ results'[<<s, j>>] # NoResult =>
                    AnswerTo(results'[<<s, j>>], TextOf(s, j)', call[s].ctx)
               /\ fut'[<<s, j>>] = "done" =>
                    ComputedFor(outcome'[<<s, j>>], TextOf(s, j)', call[s].ctx)
    BY <2>1, <2>2, <2>4 DEF AnswersFaithful
  <2>6. \A k \in DOMAIN cache' :
          cache'[k] # NoResult /\ Spelling[<<cache'[k].text, cache'[k].ctx>>] = k
    BY <2>3 DEF AnswersFaithful
  <2> QED
    BY <1>c, <1>s, <2>5, <2>6 DEF AnswersFaithful, AnswerTo, SpelledAlike, ComputedFor
<1>2. ASSUME NEW r \in Requests, NEW i \in Subs(r), Submit(r, i) PROVE AnswersFaithful'
  <2>1. results[<<r, i>>] = NoResult /\ fut[<<r, i>>] = "none"
    BY <1>2 DEF LoopInv, CallLoop, Submit, IsFirst, Unvisited, Members
  <2>2. /\ UNCHANGED <<results, outcome, cache>>
        /\ fut'[<<r, i>>] # "done"
        /\ \A s \in Requests : \A j \in Subs(s) : <<s, j>> # <<r, i>> =>
             /\ inj'[<<s, j>>] = inj[<<s, j>>]
             /\ fut'[<<s, j>>] = fut[<<s, j>>]
    BY <1>0, <1>2, <2>1 DEF Submit, TypeOK, cacheVars
  <2>3. \A s \in Requests : \A j \in Subs(s) : <<s, j>> # <<r, i>> => TextOf(s, j)' = TextOf(s, j)
    BY <1>s, <2>2 DEF TextOf
  <2>4. \A k \in DOMAIN cache' :
          cache'[k] # NoResult /\ Spelling[<<cache'[k].text, cache'[k].ctx>>] = k
    BY <2>2 DEF AnswersFaithful
  <2>5. ASSUME NEW s \in Requests, NEW j \in Subs(s)
        PROVE  /\ results'[<<s, j>>] # NoResult =>
                    AnswerTo(results'[<<s, j>>], TextOf(s, j)', call[s].ctx)
               /\ fut'[<<s, j>>] = "done" =>
                    ComputedFor(outcome'[<<s, j>>], TextOf(s, j)', call[s].ctx)
    <3>1. CASE <<s, j>> = <<r, i>>
      BY <2>1, <2>2, <3>1
    <3>2. CASE <<s, j>> # <<r, i>>
      BY <2>2, <2>3, <3>2 DEF AnswersFaithful
    <3> QED
      BY <3>1, <3>2
  <2> QED
    BY <1>c, <1>s, <2>4, <2>5 DEF AnswersFaithful, AnswerTo, SpelledAlike, ComputedFor
<1>3. ASSUME NEW r \in Requests, NEW i \in Subs(r), Collect(r, i) PROVE AnswersFaithful'
  <2> DEFINE result == [outcome[<<r, i>>] EXCEPT !.born = now]
             key == MakeCacheKey(TextOf(r, i), call[r].ctx)
  <2>1. /\ results' = [results EXCEPT ![<<r, i>>] = result]
        /\ SetCache(key, result)
        /\ UNCHANGED <<inj, fut, outcome>>
    BY <1>3 DEF Collect, poolVars
  <2>2. result \in Result /\ ComputedFor(result, TextOf(r, i), call[r].ctx)
    <3>1. /\ outcome[<<r, i>>] \in Result
          /\ ComputedFor(outcome[<<r, i>>], TextOf(r, i), call[r].ctx)
      BY <1>3, BatchFacts DEF Collect
    <3>2. now \in Nat
      BY DEF TypeOK
    <3>3. /\ result \in Result /\ result # NoResult
          /\ result.text = outcome[<<r, i>>].text
          /\ result.ctx = outcome[<<r, i>>].ctx
      BY <3>1, <3>2, ResultBorn
    <3> QED
      BY <3>1, <3>3 DEF ComputedFor
  <2>3. key \in Key /\ key = Spelling[<<TextOf(r, i), call[r].ctx>>]
    BY TextType DEF MakeCacheKey
  <2> HIDE DEF result, key
  <2>4. \A k \in DOMAIN cache' :
          cache'[k] # NoResult /\ Spelling[<<cache'[k].text, cache'[k].ctx>>] = k
    <3>1. /\ DOMAIN cache' = DOMAIN cache \cup {key}
          /\ cache'[key] = result
          /\ \A k \in DOMAIN cache \ {key} : cache'[k] = cache[k]
      BY <2>1, <2>2, <2>3, SetCacheType
    <3> QED
      BY <2>2, <2>3, <3>1 DEF AnswersFaithful, ComputedFor
  <2>5. \A s \in Requests : \A j : TextOf(s, j)' = TextOf(s, j)
    BY <1>s, <2>1 DEF TextOf
  <2>6. \A s \in Requests : \A j \in Subs(s) : results'[<<s, j>>] # NoResult =>
          AnswerTo(results'[<<s, j>>], TextOf(s, j), call[s].ctx)
    <3>1. AnswerTo(result, TextOf(r, i), call[r].ctx)
      BY <2>2 DEF AnswerTo, ComputedFor, SpelledAlike
    <3> QED
      BY <1>0, <2>1, <3>1 DEF AnswersFaithful, TypeOK
  <2>7. ASSUME NEW s \in Requests, NEW j \in Subs(s)
        PROVE  /\ results'[<<s, j>>] # NoResult =>
                    AnswerTo(results'[<<s, j>>], TextOf(s, j)', call[s].ctx)
               /\ fut'[<<s, j>>] = "done" =>
                    ComputedFor(outcome'[<<s, j>>], TextOf(s, j)', call[s].ctx)
    BY <2>1, <2>5, <2>6 DEF AnswersFaithful
  <2> QED
    BY <1>c, <1>s, <2>4, <2>7 DEF AnswersFaithful, AnswerTo, SpelledAlike, ComputedFor
<1>4. ASSUME NEW t \in Ids, Finish(t) PROVE AnswersFaithful'
  <2>1. PICK r \in Requests, i \in 1..MaxSub : t = <<r, i>>
    BY DEF Ids
  <2>2. UNCHANGED <<inj, results, cache>>
    BY <1>4 DEF Finish, cacheVars
  <2>3. \A s \in Requests : \A j : TextOf(s, j)' = TextOf(s, j)
    BY <1>s, <2>2 DEF TextOf
  <2>4. i \in Subs(r)
    BY <1>4, <2>1 DEF Finish, LoopInv, CallLoop
  <2>5. \A ok \in BOOLEAN, content \in Contents \cup {None} :
          ComputedFor(ExecuteOne(t, ok, content), TextOf(r, i), call[r].ctx)
    <3> TAKE ok \in BOOLEAN, content \in Contents \cup {None}
    <3>1. /\ ExecuteOne(t, ok, content).text = TextOf(r, i)
          /\ ExecuteOne(t, ok, content).ctx = call[r].ctx
      BY <2>1 DEF ExecuteOne
    <3>2. ExecuteOne(t, ok, content) \in Result
      BY <2>1, <2>4, TextType, PlanFacts DEF ExecuteOne, Result
    <3>3. ExecuteOne(t, ok, content) # NoResult
      BY <3>2, EngineAssumption
    <3> QED
      BY <3>1, <3>3 DEF ComputedFor
  <2>6. /\ fut' = [fut EXCEPT ![t] = "done"]
        /\ \E ok \in BOOLEAN, content \in Contents \cup {None} :
             outcome' = [outcome EXCEPT ![t] = ExecuteOne(t, ok, content)]
    BY <1>4 DEF Finish
  <2>7. ASSUME NEW s \in Requests, NEW j \in Subs(s), fut'[<<s, j>>] = "done"
        PROVE  ComputedFor(outcome'[<<s, j>>], TextOf(s, j), call[s].ctx)
    <3>1. CASE <<s, j>> = <<r, i>>
      <4>1. PICK ok \in BOOLEAN, content \in Contents \cup {None} :
                   outcome' = [outcome EXCEPT ![t] = ExecuteOne(t, ok, content)]
        BY <2>6
      <4>2. outcome'[<<s, j>>] = ExecuteOne(t, ok, content)
        BY <2>1, <3>1, <4>1 DEF TypeOK
      <4>3. s = r /\ j = i
        BY <3>1
      <4> QED
        BY <2>5, <4>2, <4>3
    <3>2. CASE <<s, j>> # <<r, i>>
      BY <2>1, <2>6, <2>7, <3>2, <1>0 DEF TypeOK, AnswersFaithful
    <3> QED
      BY <3>1, <3>2
  <2> QED
    BY <1>c, <1>s, <2>2, <2>3, <2>7 DEF AnswersFaithful, AnswerTo, SpelledAlike, ComputedFor
<1>5. CASE UNCHANGED <<inj, results, outcome, cache>>
           /\ \A t \in Ids : fut'[t] = "done" => fut[t] = "done"
  <2>1. \A s \in Requests : \A j : TextOf(s, j)' = TextOf(s, j)
    BY <1>s, <1>5 DEF TextOf
  <2> QED
    BY <1>0, <1>c, <1>s, <1>5, <2>1 DEF AnswersFaithful, AnswerTo, SpelledAlike, ComputedFor
<1>6. CASE Start
  BY <1>5, <1>6 DEF Start, TypeOK, cacheVars
<1> QED
  BY <1>1, <1>2, <1>3, <1>4, <1>5, <1>6, DataSteps

(* ------------------------- the invariant of the system ---------------------- *)

(* The invariant holds initially.                                             *)
LEMMA InitInv == Init => IInv
<1> SUFFICES ASSUME Init PROVE IInv
  OBVIOUS
<1>1. TypeOK
  BY TypeInit
<1>2. \A r \in Requests : Subs(r) \subseteq 1..MaxSub /\ \A i \in Subs(r) : <<r, i>> \in Ids
  BY <1>1, PlanFacts
<1>3. \A r \in Requests, i \in 1..MaxSub : <<r, i>> \in Ids
  BY DEF Ids
<1>4. \A r \in Requests : CallLoop(r)
  BY <1>2, <1>3 DEF Init, CallLoop
<1>5. QueueInv
  BY DEF Init, QueueInv
<1>6. WaveBarrier /\ CompleteOnReturn
  BY DEF Init, WaveBarrier, CompleteOnReturn
<1>7. AnswersFaithful
  BY <1>2 DEF Init, AnswersFaithful
<1> QED
  BY <1>1, <1>4, <1>5, <1>6, <1>7 DEF IInv, LoopInv

(* The invariant is inductive.                                                *)
LEMMA InvStep ==
  ASSUME IInv, [Next]_vars
  PROVE  IInv'
<1>1. TypeOK'
  BY TypeStep
<1>2. \A r \in Requests : CallInv(r)'
  BY CallStep
<1>3. (\A r \in Requests : CallLoop(r))' /\ WaveBarrier' /\ CompleteOnReturn'
  BY <1>2 DEF CallInv, Active, WaveBarrier, CompleteOnReturn
<1> QED
  BY <1>1, <1>3, QueueStep, FaithfulStep DEF IInv, LoopInv

(* The inductive invariant (types, barrier, completeness, the bookkeeping of  *)
(* the loop and the cache) holds in every reachable state of the executor     *)
(* (dag_executor.py:41-165).                                                  *)
THEOREM Invariance == Spec => []IInv
<1>1. Init => IInv
  BY InitInv
<1>2. IInv /\ [Next]_vars => IInv'
  BY InvStep
<1> QED
  BY <1>1, <1>2, PTL DEF Spec

(* Every variable keeps its type.                                             *)
THEOREM TypeCorrect == Spec => []TypeOK
<1>1. IInv => TypeOK
  BY DEF IInv
<1> QED
  BY <1>1, Invariance, PTL

(* Waves are barriers, whatever groups and dependencies the planner wrote.    *)
THEOREM BarrierHolds == Spec => []WaveBarrier
<1>1. IInv => WaveBarrier
  BY DEF IInv
<1> QED
  BY <1>1, Invariance, PTL

(* The submission loop and as_completed visit every sub-query of a wave once  *)
(* (dag_executor.py:76-111).                                                  *)
THEOREM LoopHolds == Spec => []LoopInv
<1>1. IInv => LoopInv
  BY DEF IInv
<1> QED
  BY <1>1, Invariance, PTL

(* A call that returns has a result for every sub-query of its plan.          *)
THEOREM ReturnsComplete == Spec => []CompleteOnReturn
<1>1. IInv => CompleteOnReturn
  BY DEF IInv
<1> QED
  BY <1>1, Invariance, PTL

(* The cache answers a text in a context only with what was computed for them *)
(* or for a text and context that the key spells alike.                       *)
THEOREM CacheFaithful == Spec => []AnswersFaithful
<1>1. IInv => AnswersFaithful
  BY DEF IInv
<1> QED
  BY <1>1, Invariance, PTL

(* ------------------------------ the contract -------------------------------- *)

(* The contract speaks of the same identifiers and results.                   *)
LEMMA SameData == Contract!Ids = Ids /\ Contract!Result = Result
BY DEF Contract!Ids, Ids, Contract!Result, Result, Contract!Text, Text

(* Initial states of the executor are initial states of the contract.         *)
LEMMA ContractInit == Init => Contract!ContractInit
<1> SUFFICES ASSUME Init PROVE Contract!ContractInit
  OBVIOUS
<1>1. \A r \in Requests : Status(r) = "idle"
  BY DEF Init, Status
<1>2. [r \in Requests |-> Status(r)] = [r \in Requests |-> "idle"]
  BY <1>1
<1>3. call \in [Requests -> Calls] /\ results = [t \in Ids |-> NoResult]
  BY DEF Init
<1> QED
  BY <1>2, <1>3, SameData DEF Contract!ContractInit

(* Every step is a step of the contract or leaves its variables alone.        *)
LEMMA ContractStep ==
  ASSUME IInv, [Next]_vars
  PROVE  [Contract!ContractNext]_(Contract!contractVars)
<1> USE DEF IInv
<1> DEFINE status == [r \in Requests |-> Status(r)]
<1>1. CASE PoolStep
  <2>1. stage' = stage /\ call' = call /\ results' = results
    BY <1>1, PoolStepFrame DEF reqVars
  <2>2. status' = status
    BY <2>1 DEF Status
  <2> QED
    BY <2>1, <2>2 DEF Contract!contractVars
<1>2. ASSUME NEW r \in Requests, Execute(r) PROVE Contract!Accept(r)
  <2>1. Groups(r) = {} <=> Contract!Subs(r) = {}
    BY DEF Groups, Subs, Contract!Subs
  <2>2. /\ stage[r] = "idle"
        /\ stage' = [stage EXCEPT ![r] = IF Groups(r) = {} THEN "returned" ELSE "lookup"]
        /\ call' = call /\ results' = results
    BY <1>2 DEF Execute, EnterWave
  <2>3. status' = [status EXCEPT ![r] = IF Contract!Subs(r) = {} THEN "returned" ELSE "running"]
    BY <2>1, <2>2 DEF Status, TypeOK
  <2>4. status[r] = "idle"
    BY <2>2 DEF Status
  <2> QED
    BY <2>2, <2>3, <2>4 DEF Contract!Accept
<1>3. ASSUME NEW r \in Requests, NEW i \in Subs(r), NEW x,
             Active(r), stage' = stage \/ stage' = [stage EXCEPT ![r] = "lookup"],
             Sub(r, i).group = wave[r], results[<<r, i>>] = NoResult,
             x \in Result, AnswerTo(x, TextOf(r, i), call[r].ctx),
             results' = [results EXCEPT ![<<r, i>>] = x], call' = call
      PROVE  Contract!Answer(r, i)
  <2>1. i \in Contract!Subs(r) /\ <<r, i>> \in Ids
    BY PlanFacts DEF Subs, Contract!Subs
  <2>2. Contract!Answered(r, Contract!Earlier(r, i))
    BY <1>3 DEF Contract!Answered, Contract!Earlier, Contract!Subs, WaveBarrier, Active, Subs, Sub
  <2>3. results'[<<r, i>>] = x
    BY <1>3, <2>1 DEF TypeOK
  <2>4. Contract!Answers(x, r, i)
    <3>1. TextOf(r, i) = [q |-> call[r].plan[i].q, inj |-> inj[<<r, i>>]]
      BY DEF TextOf, Sub
    <3>2. inj[<<r, i>>] \in SUBSET Contents
      BY <2>1 DEF TypeOK
    <3>3. Contract!SpelledAlike(x.text, x.ctx, TextOf(r, i), call[r].ctx)
      BY <1>3 DEF AnswerTo, SpelledAlike, Contract!SpelledAlike
    <3> QED
      BY <1>3, <3>1, <3>2, <3>3, SameData DEF Contract!Answers
  <2>5. status' = status /\ status[r] = "running"
    BY <1>3 DEF Status, Active, TypeOK
  <2> QED
    BY <1>3, <2>1, <2>2, <2>3, <2>4, <2>5 DEF Contract!Answer
<1>4. ASSUME NEW r \in Requests, NEW i \in Subs(r), LookUp(r, i)
      PROVE  [Contract!ContractNext]_(Contract!contractVars)
  <2> DEFINE key == MakeCacheKey(TextOf(r, i), call[r].ctx)
  <2>1. /\ Active(r) /\ call' = call
        /\ Sub(r, i).group = wave[r] /\ results[<<r, i>>] = NoResult
    BY <1>4 DEF LookUp, Active, LoopInv, CallLoop, IsFirst, Unvisited, Members
  <2>2. CASE /\ Fresh(key)
             /\ results' = [results EXCEPT ![<<r, i>>] = cache[key]]
             /\ UNCHANGED <<stage, cacheVars>>
    <3>1. /\ cache[key] \in Result /\ cache[key] # NoResult
          /\ Spelling[<<cache[key].text, cache[key].ctx>>] = key
      BY <2>2 DEF Fresh, TypeOK, AnswersFaithful
    <3>2. AnswerTo(cache[key], TextOf(r, i), call[r].ctx)
      BY <3>1 DEF AnswerTo, SpelledAlike, MakeCacheKey
    <3> HIDE DEF key
    <3>3. Contract!Answer(r, i)
      BY <1>3, <2>1, <2>2, <3>1, <3>2
    <3> QED
      BY <3>3 DEF Contract!ContractNext, Contract!Subs, Subs
  <2>3. CASE /\ stage' = [stage EXCEPT ![r] = "submit"]
             /\ UNCHANGED <<results, pos>>
    <3>1. status' = status
      BY <1>4, <2>3 DEF Status, LookUp, TypeOK
    <3> QED
      BY <2>1, <2>3, <3>1 DEF Contract!contractVars
  <2> QED
    BY <1>4, <2>2, <2>3 DEF LookUp
<1>5. ASSUME NEW r \in Requests, NEW i \in Subs(r), Collect(r, i)
      PROVE  Contract!Answer(r, i)
  <2> DEFINE result == [outcome[<<r, i>>] EXCEPT !.born = now]
  <2>1. /\ outcome[<<r, i>>] \in Result
        /\ ComputedFor(outcome[<<r, i>>], TextOf(r, i), call[r].ctx)
        /\ Sub(r, i).group = wave[r] /\ results[<<r, i>>] = NoResult
    BY <1>5, BatchFacts DEF Collect
  <2>2. now \in Nat
    BY DEF TypeOK
  <2>3. result \in Result /\ AnswerTo(result, TextOf(r, i), call[r].ctx)
    BY <2>1, <2>2, ResultBorn DEF ComputedFor, AnswerTo, SpelledAlike
  <2>4. /\ Active(r) /\ stage' = stage /\ call' = call
        /\ results' = [results EXCEPT ![<<r, i>>] = result]
    BY <1>5 DEF Collect, Active
  <2> HIDE DEF result
  <2> QED
    BY <1>3, <2>1, <2>3, <2>4
<1>6. ASSUME NEW r \in Requests, EndWave(r)
      PROVE  [Contract!ContractNext]_(Contract!contractVars)
  <2>1. /\ Active(r) /\ stage[r] = "collect" /\ call' = call /\ results' = results
        /\ \/ stage' = [stage EXCEPT ![r] = "lookup"]
           \/ stage' = [stage EXCEPT ![r] = "returned"]
    BY <1>6 DEF EndWave, EnterWave, Active
  <2>2. CASE stage' = [stage EXCEPT ![r] = "lookup"]
    <3>1. status' = status
      BY <2>1, <2>2 DEF Status, Active, TypeOK
    <3> QED
      BY <2>1, <3>1 DEF Contract!contractVars
  <2>3. CASE stage' = [stage EXCEPT ![r] = "returned"]
    <3>1. CompleteOnReturn'
      BY InvStep
    <3>2. stage'[r] = "returned"
      BY <2>3 DEF TypeOK
    <3>3. Contract!Answered(r, Contract!Subs(r))
      BY <2>1, <3>1, <3>2 DEF CompleteOnReturn, Contract!Answered, Contract!Subs, Subs
    <3>4. status[r] = "running" /\ status' = [status EXCEPT ![r] = "returned"]
      BY <2>1, <2>3 DEF Status, Active, TypeOK
    <3>5. Contract!Return(r)
      BY <2>1, <3>3, <3>4 DEF Contract!Return
    <3> QED
      BY <3>5 DEF Contract!ContractNext
  <2> QED
    BY <2>1, <2>2, <2>3
<1>7. ASSUME NEW r \in Requests, stage' = [stage EXCEPT ![r] = "raised"], Active(r),
             call' = call, results' = results
      PROVE  Contract!Raise(r)
  <2>1. status[r] = "running" /\ status' = [status EXCEPT ![r] = "raised"]
    BY <1>7 DEF Status, Active, TypeOK
  <2> QED
    BY <1>7, <2>1 DEF Contract!Raise
<1>8. ASSUME NEW r \in Requests, stage[r] \in {"lookup", "submit", "collect"},
             \/ stage' = [stage EXCEPT ![r] = "lookup"]
             \/ stage' = [stage EXCEPT ![r] = "collect"]
             \/ stage' = stage,
             call' = call, results' = results
      PROVE  UNCHANGED Contract!contractVars
  <2>1. status' = status
    BY <1>8 DEF Status, TypeOK
  <2> QED
    BY <1>8, <2>1 DEF Contract!contractVars
<1>9. ASSUME NEW r \in Requests, NEW i \in Subs(r), Submit(r, i)
      PROVE  Contract!Raise(r) \/ UNCHANGED Contract!contractVars
  BY <1>7, <1>8, <1>9 DEF Submit, Active
<1>10. ASSUME NEW r \in Requests, AwaitWave(r) \/ Wake(r)
       PROVE  UNCHANGED Contract!contractVars
  BY <1>8, <1>10 DEF AwaitWave, Wake
<1>11. ASSUME NEW r \in Requests, WaveTimeout(r) PROVE Contract!Raise(r)
  BY <1>7, <1>11 DEF WaveTimeout, Active
<1>12. ASSUME NEW r \in Requests, Execute(r) \/ ExecuteStep(r)
       PROVE  [Contract!ContractNext]_(Contract!contractVars)
  <2>1. Contract!Accept(r) \/ Contract!Raise(r) => Contract!ContractNext
    BY DEF Contract!ContractNext
  <2>2. ASSUME NEW i \in Subs(r), Contract!Answer(r, i) PROVE Contract!ContractNext
    BY <2>2 DEF Contract!ContractNext, Contract!Subs, Subs
  <2> QED
    BY <1>2, <1>4, <1>5, <1>6, <1>9, <1>10, <1>11, <1>12, <2>1, <2>2 DEF ExecuteStep
<1> QED
  BY <1>1, <1>12, NextSplit

(* The executor implements its contract: every sub-query is answered at most  *)
(* once, to its own question and context, wave after wave, and a call returns *)
(* only with all answers.                                                     *)
THEOREM ExecutorImplementsContract == Spec => ImplementsContract
<1>1. Init => Contract!ContractInit
  BY ContractInit
<1>2. IInv /\ [Next]_vars => [Contract!ContractNext]_(Contract!contractVars)
  BY ContractStep
<1> QED
  BY <1>1, <1>2, Invariance, PTL DEF Spec, ImplementsContract, Contract!ContractSpec

(* --------------------------- dependency injection --------------------------- *)

(* A result is written once, and only for the wave that is in progress.       *)
LEMMA ResultsWrittenOnce ==
  ASSUME IInv, [Next]_vars, NEW s \in Requests, NEW j \in 1..MaxSub
  PROVE  \/ results'[<<s, j>>] = results[<<s, j>>]
         \/ /\ results[<<s, j>>] = NoResult
            /\ Active(s) /\ j \in Subs(s) /\ Sub(s, j).group = wave[s]
<1> USE DEF IInv
<1>0. <<s, j>> \in Ids
  BY DEF Ids
<1>1. ASSUME NEW r \in Requests, NEW i \in Subs(r), NEW x,
             results' = [results EXCEPT ![<<r, i>>] = x],
             results[<<r, i>>] = NoResult, Active(r), Sub(r, i).group = wave[r]
      PROVE  \/ results'[<<s, j>>] = results[<<s, j>>]
             \/ /\ results[<<s, j>>] = NoResult
                /\ Active(s) /\ j \in Subs(s) /\ Sub(s, j).group = wave[s]
  <2>1. CASE s = r /\ j = i
    BY <1>1, <2>1
  <2>2. CASE ~(s = r /\ j = i)
    BY <1>0, <1>1, <2>2 DEF TypeOK
  <2> QED
    BY <2>1, <2>2
<1>2. ASSUME NEW r \in Requests, NEW i \in Subs(r), LookUp(r, i), results' # results
      PROVE  /\ \E x : results' = [results EXCEPT ![<<r, i>>] = x]
             /\ results[<<r, i>>] = NoResult /\ Active(r) /\ Sub(r, i).group = wave[r]
  BY <1>2 DEF LookUp, Active, LoopInv, CallLoop, IsFirst, Unvisited, Members
<1>3. ASSUME NEW r \in Requests, NEW i \in Subs(r), Collect(r, i)
      PROVE  /\ \E x : results' = [results EXCEPT ![<<r, i>>] = x]
             /\ results[<<r, i>>] = NoResult /\ Active(r) /\ Sub(r, i).group = wave[r]
  BY <1>3, BatchFacts DEF Collect, Active
<1>4. CASE results' = results
  BY <1>4
<1>5. ASSUME NEW r \in Requests, Execute(r) \/ ExecuteStep(r), results' # results
      PROVE  \E i \in Subs(r) : LookUp(r, i) \/ Collect(r, i)
  BY <1>5 DEF Execute, ExecuteStep, Submit, AwaitWave, Wake, WaveTimeout, EndWave
<1>6. PoolStep => results' = results
  BY PoolStepFrame
<1>7. ASSUME NEW r \in Requests, NEW i \in Subs(r), LookUp(r, i) \/ Collect(r, i), results' # results
      PROVE  \/ results'[<<s, j>>] = results[<<s, j>>]
             \/ /\ results[<<s, j>>] = NoResult
                /\ Active(s) /\ j \in Subs(s) /\ Sub(s, j).group = wave[s]
  <2>1. /\ \E x : results' = [results EXCEPT ![<<r, i>>] = x]
        /\ results[<<r, i>>] = NoResult /\ Active(r) /\ Sub(r, i).group = wave[r]
    BY <1>2, <1>3, <1>7
  <2>2. PICK x : results' = [results EXCEPT ![<<r, i>>] = x]
    BY <2>1
  <2> QED
    BY <1>1, <2>1, <2>2
<1> QED
  BY <1>4, <1>5, <1>6, <1>7, NextSplit

(* Nothing is submitted in the initial state.                                 *)
LEMMA InjectedInit == Init => DependenciesInjected
<1> SUFFICES ASSUME Init PROVE DependenciesInjected
  OBVIOUS
<1>1. \A r \in Requests : \A i \in Subs(r) : fut[<<r, i>>] = "none"
  BY TypeInit, PlanFacts DEF Init
<1> QED
  BY <1>1 DEF DependenciesInjected

(* Every step keeps the injected contents complete: Submit injects what the   *)
(* finished waves returned, and no later step adds a result to them.          *)
LEMMA InjectedStep ==
  ASSUME IInv, DependenciesInjected, [Next]_vars
  PROVE  DependenciesInjected'
<1> USE DEF IInv
<1>c. call' = call
  BY CallsKept
<1>s. \A r \in Requests : /\ Subs(r)' = Subs(r)
                          /\ \A i : Sub(r, i)' = Sub(r, i) /\ EarlierDeps(r, i)' = EarlierDeps(r, i)
  BY <1>c DEF Subs, Sub, EarlierDeps
<1> SUFFICES ASSUME NEW r \in Requests, NEW i \in Subs(r), fut'[<<r, i>>] # "none"
             PROVE  Injected(r, i)'
  BY <1>s DEF DependenciesInjected
<1>p. /\ i \in 1..MaxSub /\ <<r, i>> \in Ids
      /\ Sub(r, i).deps \subseteq 1..MaxSub
      /\ Subs(r) \subseteq 1..MaxSub
      /\ \A j \in Subs(r) : Sub(r, j).group \in Int
  BY PlanFacts
<1>1. CASE Submit(r, i)
  <2>1. /\ results' = results
        /\ inj'[<<r, i>>] = InjectDependencies(r, i)
    BY <1>1, <1>p DEF Submit, TypeOK
  <2>2. \A d \in EarlierDeps(r, i) : Usable(results[<<r, d>>]) =>
          results[<<r, d>>].content \in InjectDependencies(r, i)
    BY DEF InjectDependencies, EarlierDeps, Usable
  <2>3. \A c \in InjectDependencies(r, i) : \E d \in Sub(r, i).deps :
          Usable(results[<<r, d>>]) /\ results[<<r, d>>].content = c
    BY DEF InjectDependencies, Usable
  <2> QED
    BY <1>s, <2>1, <2>2, <2>3 DEF Injected, Usable
<1>2. CASE ~Submit(r, i)
  <2>1. fut[<<r, i>>] # "none" /\ inj'[<<r, i>>] = inj[<<r, i>>]
    <3>1. CASE PoolStep
      <4>1. /\ inj' = inj
            /\ \A t \in Ids : fut'[t] = "none" <=> fut[t] = "none"
        BY <3>1, PoolStepFrame
      <4> QED
        BY <1>p, <4>1
    <3>2. ASSUME NEW q \in Requests, NEW j \in Subs(q), Submit(q, j)
          PROVE  fut[<<r, i>>] # "none" /\ inj'[<<r, i>>] = inj[<<r, i>>]
      <4>1. ~(q = r /\ j = i) /\ <<q, j>> \in Ids
        BY <1>2, <3>2, PlanFacts
      <4> QED
        BY <1>p, <3>2, <4>1 DEF Submit, TypeOK
    <3>3. CASE UNCHANGED <<fut, inj>>
      BY <3>3
    <3>4. ASSUME NEW q \in Requests, NEW j \in Subs(q), LookUp(q, j) \/ Collect(q, j)
          PROVE  UNCHANGED <<fut, inj>>
      BY <3>4 DEF LookUp, Collect, poolVars
    <3> QED
      BY <3>1, <3>2, <3>3, <3>4, DataSteps DEF PoolStep
  <2>2. Injected(r, i)
    BY <2>1 DEF DependenciesInjected
  <2>3. \A d \in EarlierDeps(r, i) : results'[<<r, d>>] = results[<<r, d>>]
    <3> SUFFICES ASSUME NEW d \in EarlierDeps(r, i), results'[<<r, d>>] # results[<<r, d>>]
                 PROVE  FALSE
      OBVIOUS
    <3>1. d \in Subs(r) /\ d \in 1..MaxSub /\ Sub(r, d).group < Sub(r, i).group
      BY <1>p DEF EarlierDeps
    <3>2. Active(r) /\ Sub(r, d).group = wave[r]
      BY <3>1, ResultsWrittenOnce
    <3> QED
      BY <2>1, <3>1, <3>2 DEF WaveBarrier, Active
  <2>4. \A d \in Sub(r, i).deps : results[<<r, d>>] # NoResult => results'[<<r, d>>] = results[<<r, d>>]
    BY <1>p, ResultsWrittenOnce
  <2>5. \A d \in EarlierDeps(r, i) :
          Usable(results'[<<r, d>>]) => results'[<<r, d>>].content \in inj'[<<r, i>>]
    BY <2>1, <2>2, <2>3 DEF Injected
  <2>6. \A c \in inj'[<<r, i>>] : \E d \in Sub(r, i).deps :
          Usable(results'[<<r, d>>]) /\ results'[<<r, d>>].content = c
    BY <2>1, <2>2, <2>4 DEF Injected, Usable
  <2> QED
    BY <1>s, <2>5, <2>6 DEF Injected, Usable
<1> QED
  BY <1>1, <1>2

(* A submitted sub-query has in its text what every successful dependency of  *)
(* an earlier wave returned, and nothing but what dependencies returned.      *)
THEOREM InjectionComplete == Spec => []DependenciesInjected
<1>1. Init => DependenciesInjected
  BY InjectedInit
<1>2. IInv /\ DependenciesInjected /\ [Next]_vars => DependenciesInjected'
  BY InjectedStep
<1> QED
  BY <1>1, <1>2, Invariance, PTL DEF Spec

(* -------------------------------- freshness --------------------------------- *)

(* The timestamp of an entry is the time at which its result was collected.   *)
BornStamped == \A k \in DOMAIN cache : cache[k].born = stamps[k]

(* Every step keeps the timestamp of an entry at the time its result was      *)
(* collected.                                                                 *)
LEMMA BornStep ==
  ASSUME IInv, BornStamped, [Next]_vars
  PROVE  BornStamped'
<1> USE DEF IInv
<1>1. ASSUME NEW r \in Requests, NEW i \in Subs(r), LookUp(r, i) PROVE BornStamped'
  BY <1>1, EvictType DEF LookUp, cacheVars, BornStamped
<1>2. ASSUME NEW r \in Requests, NEW i \in Subs(r), Collect(r, i) PROVE BornStamped'
  <2> DEFINE result == [outcome[<<r, i>>] EXCEPT !.born = now]
             key == MakeCacheKey(TextOf(r, i), call[r].ctx)
  <2>1. SetCache(key, result)
    BY <1>2 DEF Collect
  <2>2. outcome[<<r, i>>] \in Result /\ now \in Nat
    BY <1>2, BatchFacts DEF Collect, TypeOK
  <2>3. result.born = now
    BY <2>2, ResultBorn
  <2> HIDE DEF result, key
  <2> QED
    BY <2>1, <2>3 DEF SetCache, BornStamped, TypeOK
<1>3. CASE UNCHANGED cacheVars
  BY <1>3 DEF cacheVars, BornStamped
<1> QED
  BY <1>1, <1>2, <1>3, DataSteps DEF Submit, Start, Finish, cacheVars

(* A step that answers a sub-query answers it with a result that is not too   *)
(* old.                                                                       *)
LEMMA FreshStep ==
  ASSUME IInv, BornStamped, [Next]_vars, NEW t \in Ids, results'[t] # results[t]
  PROVE  now - results'[t].born <= TTL
<1> USE DEF IInv
<1>1. ASSUME NEW r \in Requests, NEW i \in Subs(r), LookUp(r, i)
      PROVE  now - results'[t].born <= TTL
  <2> DEFINE key == MakeCacheKey(TextOf(r, i), call[r].ctx)
  <2>1. Fresh(key) /\ results' = [results EXCEPT ![<<r, i>>] = cache[key]]
    BY <1>1 DEF LookUp
  <2>2. cache[key].born = stamps[key] /\ now - stamps[key] <= TTL
    BY <2>1 DEF Fresh, TypeOK, BornStamped
  <2> HIDE DEF key
  <2>3. results'[t] = cache[key]
    BY <2>1 DEF TypeOK
  <2> QED
    BY <2>2, <2>3
<1>2. ASSUME NEW r \in Requests, NEW i \in Subs(r), Collect(r, i)
      PROVE  now - results'[t].born <= TTL
  <2> DEFINE result == [outcome[<<r, i>>] EXCEPT !.born = now]
  <2>1. outcome[<<r, i>>] \in Result /\ now \in Nat
    BY <1>2, BatchFacts DEF Collect, TypeOK
  <2>2. result.born = now
    BY <2>1, ResultBorn
  <2>3. results' = [results EXCEPT ![<<r, i>>] = result]
    BY <1>2 DEF Collect
  <2> HIDE DEF result
  <2>4. results'[t] = result
    BY <2>3 DEF TypeOK
  <2> QED
    BY <2>1, <2>2, <2>4, ExecutorAssumption
<1>3. results' # results
  OBVIOUS
<1> QED
  BY <1>1, <1>2, <1>3, DataSteps DEF Submit, Start, Finish, cacheVars

(* No sub-query is given an answer that was collected more than TTL before.   *)
THEOREM AnswersAreFresh == Spec => FreshAnswers
<1>1. Init => BornStamped
  BY DEF Init, BornStamped
<1>2. IInv /\ BornStamped /\ [Next]_vars => BornStamped'
  BY BornStep
<1>3. IInv /\ BornStamped /\ [Next]_vars
        => [\A t \in Ids : results'[t] # results[t] => now - results'[t].born <= TTL]_vars
  BY FreshStep
<1> QED
  BY <1>1, <1>2, <1>3, Invariance, PTL DEF Spec, FreshAnswers

(* ------------------------------- the cache ---------------------------------- *)

(* Where no two texts and contexts are spelled alike, the key tells them all  *)
(* apart: every result was computed for its very text, with the contents that *)
(* were injected into it, in the context of its call.                         *)
THEOREM CacheExact ==
  ASSUME \A p1, p2 \in Text \X Contexts : Spelling[p1] = Spelling[p2] => p1 = p2
  PROVE  Spec => [](\A r \in Requests : \A i \in Subs(r) :
                      results[<<r, i>>] # NoResult =>
                        ComputedFor(results[<<r, i>>], TextOf(r, i), call[r].ctx))
<1> DEFINE Exact == \A r \in Requests : \A i \in Subs(r) :
                      results[<<r, i>>] # NoResult =>
                        ComputedFor(results[<<r, i>>], TextOf(r, i), call[r].ctx)
<1>1. IInv => Exact
  <2> SUFFICES ASSUME IInv, NEW r \in Requests, NEW i \in Subs(r), results[<<r, i>>] # NoResult
               PROVE  ComputedFor(results[<<r, i>>], TextOf(r, i), call[r].ctx)
    OBVIOUS
  <2> USE DEF IInv
  <2> DEFINE x == results[<<r, i>>]
             p == <<x.text, x.ctx>>
             q == <<TextOf(r, i), call[r].ctx>>
  <2>1. x \in Result
    BY PlanFacts DEF TypeOK
  <2>2. p \in Text \X Contexts /\ q \in Text \X Contexts
    BY <2>1, PlanFacts, TextType DEF Result
  <2>3. Spelling[p] = Spelling[q]
    BY DEF AnswersFaithful, AnswerTo, SpelledAlike
  <2>4. p = q
    BY <2>2, <2>3
  <2> QED
    BY <2>4 DEF ComputedFor
<1> HIDE DEF Exact
<1>2. Spec => []Exact
  BY <1>1, Invariance, PTL
<1> QED
  BY <1>2 DEF Exact

(* The identifier in the outcome of a future is the one of its sub-query.     *)
OutcomeOwned == \A t \in Ids : fut[t] = "done" => outcome[t].id = t

(* Every step keeps the cache to results that were collected: Collect writes  *)
(* one to the cache and to the results of its own sub-query, and a sub-query  *)
(* gets its result once.                                                      *)
LEMMA CollectedStep ==
  ASSUME IInv, OutcomeOwned, CacheOnlyCollected, [Next]_vars
  PROVE  OutcomeOwned' /\ CacheOnlyCollected'
<1> USE DEF IInv
<1>1. ASSUME NEW r \in Requests, NEW i \in Subs(r), LookUp(r, i)
      PROVE  OutcomeOwned' /\ CacheOnlyCollected'
  <2>1. UNCHANGED <<fut, outcome>> /\ results[<<r, i>>] = NoResult
    BY <1>1 DEF LookUp, poolVars, LoopInv, CallLoop, IsFirst, Unvisited, Members
  <2>2. /\ DOMAIN cache' \subseteq DOMAIN cache
        /\ \A k \in DOMAIN cache' : cache'[k] = cache[k]
    BY <1>1, EvictType DEF LookUp, cacheVars
  <2>3. \A k \in DOMAIN cache' : /\ cache[k] \in Result
                                 /\ results[cache[k].id] = cache[k]
    BY <2>2 DEF TypeOK, CacheOnlyCollected
  <2>4. \A k \in DOMAIN cache' : cache[k] # NoResult /\ cache[k].id \in Ids
    BY <2>3, EngineAssumption DEF Result
  <2>5. \A k \in DOMAIN cache' : results'[cache[k].id] = results[cache[k].id]
    BY <1>1, <2>1, <2>3, <2>4 DEF LookUp, TypeOK
  <2> QED
    BY <2>1, <2>2, <2>3, <2>5 DEF OutcomeOwned, CacheOnlyCollected
<1>2. ASSUME NEW r \in Requests, NEW i \in Subs(r), Collect(r, i)
      PROVE  OutcomeOwned' /\ CacheOnlyCollected'
  <2> DEFINE result == [outcome[<<r, i>>] EXCEPT !.born = now]
             key == MakeCacheKey(TextOf(r, i), call[r].ctx)
  <2>1. /\ <<r, i>> \in Ids /\ results[<<r, i>>] = NoResult /\ fut[<<r, i>>] = "done"
        /\ outcome[<<r, i>>] \in Result /\ now \in Nat
    BY <1>2, BatchFacts, PlanFacts DEF Collect, TypeOK
  <2>2. result \in Result /\ result.id = <<r, i>>
    BY <2>1, ResultBorn DEF OutcomeOwned
  <2>3. /\ SetCache(key, result) /\ key \in Key
        /\ results' = [results EXCEPT ![<<r, i>>] = result]
        /\ UNCHANGED <<fut, outcome>>
    BY <1>2, TextType DEF Collect, poolVars
  <2> HIDE DEF result, key
  <2>4. /\ DOMAIN cache' = DOMAIN cache \cup {key}
        /\ cache'[key] = result
        /\ \A k \in DOMAIN cache \ {key} : cache'[k] = cache[k]
    BY <2>2, <2>3, SetCacheType
  <2>5. results'[<<r, i>>] = result
    BY <2>1, <2>3 DEF TypeOK
  <2>6. ASSUME NEW k \in DOMAIN cache \ {key} PROVE results'[cache'[k].id] = cache'[k]
    <3>1. cache'[k] = cache[k] /\ cache[k] \in Result /\ results[cache[k].id] = cache[k]
      BY <2>4 DEF TypeOK, CacheOnlyCollected
    <3>2. cache[k].id \in Ids /\ cache[k] # NoResult
      BY <3>1, EngineAssumption DEF Result
    <3>3. cache[k].id # <<r, i>>
      BY <2>1, <3>1, <3>2
    <3> QED
      BY <2>3, <3>1, <3>2, <3>3 DEF TypeOK
  <2> QED
    BY <2>2, <2>3, <2>4, <2>5, <2>6 DEF OutcomeOwned, CacheOnlyCollected
<1>3. ASSUME NEW t \in Ids, Finish(t) PROVE OutcomeOwned' /\ CacheOnlyCollected'
  <2>1. UNCHANGED <<cache, results>> /\ fut' = [fut EXCEPT ![t] = "done"]
    BY <1>3 DEF Finish, cacheVars
  <2>2. \A ok, content : ExecuteOne(t, ok, content).id = t
    BY DEF ExecuteOne
  <2>3. \E x : outcome' = [outcome EXCEPT ![t] = x] /\ x.id = t
    <3>1. PICK ok \in BOOLEAN, content \in Contents \cup {None} :
                 outcome' = [outcome EXCEPT ![t] = ExecuteOne(t, ok, content)]
      BY <1>3 DEF Finish
    <3> QED
      BY <2>2, <3>1
  <2> QED
    BY <2>1, <2>3 DEF OutcomeOwned, CacheOnlyCollected, TypeOK
<1>4. CASE /\ UNCHANGED <<cache, results, outcome>>
           /\ \A t \in Ids : fut'[t] = "done" => fut[t] = "done"
  BY <1>4 DEF OutcomeOwned, CacheOnlyCollected
<1>5. ASSUME NEW r \in Requests, NEW i \in Subs(r), Submit(r, i)
      PROVE  OutcomeOwned' /\ CacheOnlyCollected'
  <2>1. UNCHANGED <<cache, results, outcome>>
    BY <1>5 DEF Submit, cacheVars
  <2>2. \A t \in Ids : fut'[t] = "done" => fut[t] = "done"
    BY <1>5 DEF Submit, TypeOK
  <2> QED
    BY <1>4, <2>1, <2>2
<1>6. CASE Start
  <2>1. UNCHANGED <<cache, results, outcome>>
    BY <1>6 DEF Start, cacheVars
  <2>2. \A t \in Ids : fut'[t] = "done" => fut[t] = "done"
    BY <1>6 DEF Start, TypeOK
  <2> QED
    BY <1>4, <2>1, <2>2
<1> QED
  BY <1>1, <1>2, <1>3, <1>4, <1>5, <1>6, DataSteps

(* Nothing enters the cache but what a call collected: what the abandoned     *)
(* tasks of a timed-out call return never answers another call.               *)
THEOREM CacheFromCalls == Spec => []CacheOnlyCollected
<1>1. Init => OutcomeOwned /\ CacheOnlyCollected
  BY DEF Init, OutcomeOwned, CacheOnlyCollected
<1>2. IInv /\ OutcomeOwned /\ CacheOnlyCollected /\ [Next]_vars
        => OutcomeOwned' /\ CacheOnlyCollected'
  BY CollectedStep
<1> QED
  BY <1>1, <1>2, Invariance, PTL DEF Spec
===============================================================================
