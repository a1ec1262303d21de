---------------------------- MODULE QueServersProofs --------------------------
(* Proofs about QueServers, for every finite set of requests, every set of    *)
(* labels and any number of workers.                                          *)
EXTENDS QueServers, FiniteSetTheorems, TLAPS

(* ------------------------------ the inductive invariant --------------------- *)

(* The REST server handles one request at a time.                             *)
OneAtATime ==
  front = "rest" => \A r, s \in Requests : pc[r] \in Handling /\ pc[s] \in Handling => r = s

(* A gRPC handler does not come past its second stage.                        *)
GrpcStopsShort ==
  \A r \in Requests : pc[r] \in {"admit", "execute"} \cup Counting => front = "rest"

ResultsAreDone ==
  \A r \in results : pc[r] \in Counting \cup {"respond", "done"}

Of(l) == {r \in results : label[r] = l}

(* What is still to be counted while r is.                                    *)
CountOK(r) ==
  pc[r] \in Counting =>
    /\ r \in results
    /\ total + (IF pc[r] \in {"count", "counting"} THEN 1 ELSE 0) = Cardinality(results)
    /\ latency + 1 = Cardinality(results)
    /\ \A l \in Labels :
         labels[l] + (IF pc[r] # "record" /\ label[r] = l THEN 1 ELSE 0) = Cardinality(Of(l))
    /\ pc[r] = "counting" => seen[r] = total
    /\ pc[r] = "labelling" => seen[r] = labels[label[r]]

CountInv == MetricsMatchResults /\ \A r \in Requests : CountOK(r)

(* The pool of the REST server is closed when all is over.                    *)
ShutdownInv ==
  front = "rest" =>
    /\ phase # "closing"
    /\ ~open => phase = "down"
    /\ phase = "down" => Served

(* A request that was not sent has no handler.                                *)
NewHasNone == \A r \in Requests : call[r] = "new" => pc[r] = "none"

IInv ==
  /\ TypeOK
  /\ NewHasNone
  /\ OneAtATime
  /\ GrpcStopsShort
  /\ ResultsAreDone
  /\ CountInv
  /\ ShutdownInv
  /\ NoneMeetsClosedPool

(* ------------------------------------ lemmas -------------------------------- *)

LEMMA ResultsFinite ==
  ASSUME results \subseteq Requests
  PROVE  /\ IsFiniteSet(results) /\ Cardinality(results) \in Nat
         /\ \A l : IsFiniteSet(Of(l)) /\ Cardinality(Of(l)) \in Nat
<1>1. IsFiniteSet(results)
  BY ServersAssumption, FS_Subset
<1>2. \A l : Of(l) \subseteq results
  BY DEF Of
<1>3. \A l : IsFiniteSet(Of(l))
  BY <1>1, <1>2, FS_Subset
<1> QED
  BY <1>1, <1>3, FS_CardinalityType

(* A step that neither counts nor brings a result.                            *)
LEMMA CountFrame ==
  ASSUME CountInv, UNCHANGED <<total, labels, latency, seen, label, results>>,
         \A r \in Requests :
           pc[r] \in Counting \/ pc'[r] \in Counting => pc'[r] = pc[r]
  PROVE  CountInv'
<1>1. MetricsMatchResults'
  BY DEF CountInv, MetricsMatchResults
<1>2. ASSUME NEW r \in Requests PROVE CountOK(r)'
  BY DEF CountInv, CountOK, Of
<1> QED
  BY <1>1, <1>2 DEF CountInv

(* A step of a handler leaves the other requests where they are.              *)
LEMMA HandleFacts ==
  ASSUME TypeOK, NEW r \in Requests, NEW from, NEW to \in Handling \cup {"done"},
         Handle(r, from, to)
  PROVE  /\ pc[r] = from /\ pc'[r] = to
         /\ pc' \in [Requests -> {"none", "waiting", "done"} \cup Handling]
         /\ \A s \in Requests \ {r} : pc'[s] = pc[s]
BY DEF TypeOK, Handle

(* A handler that goes on: what the servers are doing does not change.        *)
LEMMA HandlerStep ==
  ASSUME IInv, NEW r \in Requests, NEW from \in Handling, NEW to \in Handling \cup {"done"},
         Handle(r, from, to), UNCHANGED <<kind, serverVars, label>>,
         TypeOK', CountInv', ResultsAreDone', NoneMeetsClosedPool',
         \A s \in Requests : call'[s] = "new" => call[s] = "new",
         to \in {"execute"} \cup Counting => front = "rest", to # "admit"
  PROVE  IInv'
<1>1. /\ pc[r] = from /\ pc'[r] = to
      /\ \A s \in Requests \ {r} : pc'[s] = pc[s]
  BY HandleFacts DEF IInv
<1>2. UNCHANGED <<front, phase, open>>
  BY DEF serverVars
<1>0. from # "none"
  BY DEF Handling, Counting
<1>6. NewHasNone'
  BY <1>0, <1>1 DEF IInv, NewHasNone
<1>3. OneAtATime'
  BY <1>1, <1>2 DEF IInv, OneAtATime
<1>4. GrpcStopsShort'
  BY <1>1, <1>2 DEF IInv, GrpcStopsShort
<1>5. ShutdownInv'
  <2>1. from \notin {"none", "done"}
    BY DEF Handling, Counting
  <2>2. ~Served
    BY <1>1, <2>1 DEF Served
  <2> QED
    BY <1>2, <2>2 DEF IInv, ShutdownInv
<1> QED
  BY <1>3, <1>4, <1>5, <1>6 DEF IInv

(* The same when it is nothing to be counted and no result comes.             *)
LEMMA PlainStep ==
  ASSUME IInv, NEW r \in Requests, NEW from \in Handling \ Counting,
         NEW to \in (Handling \ Counting) \cup {"done"},
         Handle(r, from, to), UNCHANGED <<kind, serverVars, metricVars, label, results>>,
         call' \in [Requests -> {"new", "open", "answered", "failed"}],
         \A s \in Requests : call'[s] = "new" => call[s] = "new",
         reply' \in [Requests -> Replies], NoneMeetsClosedPool',
         to = "execute" => front = "rest", to # "admit",
         from = "respond" \/ to # "done", from = "respond" => to = "done"
  PROVE  IInv'
<1>1. /\ TypeOK /\ pc[r] = from /\ pc'[r] = to
      /\ pc' \in [Requests -> {"none", "waiting", "done"} \cup Handling]
      /\ \A s \in Requests \ {r} : pc'[s] = pc[s]
  BY HandleFacts DEF IInv
<1>2. TypeOK'
  BY <1>1 DEF TypeOK, serverVars, metricVars
<1>3. CountInv'
  <2>1. from \notin Counting /\ to \notin Counting
    BY DEF Handling, Counting
  <2> QED
    BY <1>1, <2>1, CountFrame DEF IInv, metricVars
<1>4. ResultsAreDone'
  BY <1>1 DEF IInv, ResultsAreDone, Handling, Counting, TypeOK
<1>5. to \notin Counting /\ to \in Handling \cup {"done"}
  BY DEF Counting
<1> QED
  BY <1>2, <1>3, <1>4, <1>5, HandlerStep

LEMMA InitOK == Init => IInv
<1> SUFFICES ASSUME Init PROVE IInv
  OBVIOUS
<1>1. \A r \in Requests : pc[r] = "none" /\ pc[r] \notin Handling /\ reply[r] = "none"
  BY DEF Init, Handling, Counting
<1>2. TypeOK
  BY DEF Init, TypeOK, Kinds, Replies
<1>3. NewHasNone /\ OneAtATime /\ GrpcStopsShort /\ ResultsAreDone /\ ShutdownInv /\ NoneMeetsClosedPool
  BY <1>1 DEF Init, OneAtATime, NewHasNone, GrpcStopsShort, ResultsAreDone, ShutdownInv,
              NoneMeetsClosedPool, Handling, Counting
<1>4. Cardinality(results) = 0 /\ \A l \in Labels : Of(l) = {} /\ labels[l] = 0
  BY FS_EmptySet DEF Init, Of
<1>5. \A l \in Labels : Cardinality(Of(l)) = 0
  BY <1>4, FS_EmptySet
<1>6. MetricsMatchResults
  BY <1>4, <1>5 DEF Init, MetricsMatchResults, Of
<1>7. \A r \in Requests : CountOK(r)
  BY <1>1 DEF CountOK, Counting
<1> QED
  BY <1>2, <1>3, <1>6, <1>7 DEF IInv, CountInv

(* ------------------------------ clients, first steps ------------------------ *)

LEMMA SendOK ==
  ASSUME IInv, NEW r \in Requests, NEW k \in Kinds, Send(r, k)
  PROVE  IInv'
<1>1. /\ TypeOK /\ pc[r] = "none"
      /\ UNCHANGED <<front, phase, open, total, labels, latency, seen, reply, label, results>>
      /\ kind' = [kind EXCEPT ![r] = k]
  BY DEF IInv, NewHasNone, Send, serverVars, metricVars
<1>2. PICK c \in {"open", "failed"}, q \in {"none", "waiting"} :
        /\ call' = [call EXCEPT ![r] = c] /\ pc' = [pc EXCEPT ![r] = q]
        /\ q = "waiting" => phase \in {"serving", "closing"}
  <2>1. CASE call' = [call EXCEPT ![r] = "failed"] /\ UNCHANGED pc
    <3>1. pc' = [pc EXCEPT ![r] = "none"]
      BY <1>1, <2>1 DEF TypeOK
    <3> QED
      BY <2>1, <3>1
  <2> QED
    BY <2>1 DEF Send
<1>3. /\ pc'[r] = q /\ \A s \in Requests \ {r} : pc'[s] = pc[s]
      /\ call'[r] = c /\ \A s \in Requests \ {r} : call'[s] = call[s]
  BY <1>1, <1>2 DEF TypeOK
<1>4. TypeOK'
  BY <1>1, <1>2 DEF TypeOK
<1>5. q \notin Handling /\ pc[r] \notin Handling /\ "none" \notin Counting /\ "waiting" \notin Counting
  BY <1>1 DEF Handling, Counting
<1>6. NewHasNone' /\ OneAtATime' /\ GrpcStopsShort'
  BY <1>1, <1>3, <1>5 DEF IInv, NewHasNone, OneAtATime, GrpcStopsShort, Handling
<1>7. CountInv'
  BY <1>1, <1>2, <1>3, <1>5, CountFrame DEF IInv
<1>8. ResultsAreDone'
  BY <1>1, <1>3, <1>5 DEF IInv, ResultsAreDone, TypeOK
<1>9. ShutdownInv' /\ NoneMeetsClosedPool'
  BY <1>1, <1>2, <1>3 DEF IInv, ShutdownInv, Served, NoneMeetsClosedPool
<1> QED
  BY <1>4, <1>6, <1>7, <1>8, <1>9 DEF IInv

LEMMA GiveUpOK ==
  ASSUME IInv, NEW r \in Requests, GiveUp(r)
  PROVE  IInv'
<1>1. /\ TypeOK /\ UNCHANGED <<kind, front, phase, open, total, labels, latency, seen, pc,
                               reply, label, results>>
      /\ call' = [call EXCEPT ![r] = "failed"]
  BY DEF IInv, GiveUp, serverVars, metricVars
<1>2. TypeOK' /\ NewHasNone'
  BY <1>1 DEF IInv, TypeOK, NewHasNone
<1>3. CountInv'
  BY <1>1, CountFrame DEF IInv
<1> QED
  BY <1>1, <1>2, <1>3 DEF IInv, OneAtATime, GrpcStopsShort, ResultsAreDone, ShutdownInv,
                          Served, NoneMeetsClosedPool

LEMMA BeginOK ==
  ASSUME IInv, NEW r \in Requests, Begin(r)
  PROVE  IInv'
<1> DEFINE to == IF kind[r] = "health" THEN "probe"
                 ELSE IF front = "rest" THEN "admit" ELSE "understand"
<1>1. /\ TypeOK /\ Room /\ Handle(r, "waiting", to)
      /\ UNCHANGED <<call, kind, front, phase, open, total, labels, latency, seen, label,
                     reply, results>>
  BY DEF IInv, Begin, Quiet, clientVars, serverVars, metricVars
<1>2. to \in {"probe", "admit", "understand"} /\ (to = "admit" => front = "rest")
  OBVIOUS
<1> HIDE DEF to
<1>3. /\ pc[r] = "waiting" /\ pc'[r] = to
      /\ pc' \in [Requests -> {"none", "waiting", "done"} \cup Handling]
      /\ \A s \in Requests \ {r} : pc'[s] = pc[s]
  BY <1>1, <1>2, HandleFacts DEF Handling
<1>4. TypeOK'
  BY <1>1, <1>3 DEF TypeOK
<1>5. to \notin Counting /\ "waiting" \notin Counting
  BY <1>2 DEF Counting
<1>6. CountInv'
  BY <1>1, <1>3, <1>5, CountFrame DEF IInv
<1>7. front = "rest" => \A s \in Requests : pc[s] \notin Handling
  BY <1>1 DEF Room
<1>8. NewHasNone' /\ OneAtATime' /\ GrpcStopsShort'
  BY <1>1, <1>2, <1>3, <1>5, <1>7 DEF IInv, NewHasNone, OneAtATime, GrpcStopsShort
<1>9. ResultsAreDone'
  BY <1>1, <1>3, <1>5 DEF IInv, ResultsAreDone, TypeOK
<1>10. ShutdownInv' /\ NoneMeetsClosedPool'
  BY <1>1, <1>3 DEF IInv, ShutdownInv, Served, NoneMeetsClosedPool
<1> QED
  BY <1>4, <1>6, <1>8, <1>9, <1>10 DEF IInv

(* ---------------------------------- handlers -------------------------------- *)

(* A handler answers, or fails.                                               *)
LEMMA RespondOK ==
  ASSUME IInv, NEW r \in Requests, NEW from \in Handling \ (Counting \cup {"respond"}),
         NEW answer \in Replies, Respond(r, from, answer),
         answer = "pool closed" => from = "execute" /\ ~open
  PROVE  IInv'
<1>1. /\ TypeOK /\ Handle(r, from, "respond") /\ reply' = [reply EXCEPT ![r] = answer]
      /\ UNCHANGED <<kind, call, serverVars, metricVars, label, results>>
  BY DEF IInv, Respond, Quiet, clientVars
<1>2. reply' \in [Requests -> Replies]
  BY <1>1 DEF TypeOK
<1>3. NoneMeetsClosedPool'
  <2> SUFFICES ASSUME front' = "rest" PROVE \A s \in Requests : reply'[s] # "pool closed"
    BY DEF NoneMeetsClosedPool
  <2>1. front = "rest" /\ \A s \in Requests : reply[s] # "pool closed"
    BY <1>1 DEF IInv, NoneMeetsClosedPool, serverVars
  <2>2. answer # "pool closed"
    <3> SUFFICES ASSUME from = "execute", ~open PROVE FALSE
      OBVIOUS
    <3>1. Served
      BY <2>1 DEF IInv, ShutdownInv
    <3>2. pc[r] = "execute"
      BY <1>1 DEF Handle
    <3> QED
      BY <3>1, <3>2 DEF Served
  <2> QED
    BY <1>1, <2>1, <2>2 DEF TypeOK
<1>4. "respond" \in Handling \ Counting /\ from \in Handling \ Counting /\ from # "respond"
  BY DEF Handling, Counting
<1> QED
  BY <1>1, <1>2, <1>3, <1>4, PlainStep DEF TypeOK

LEMMA AdvanceOK ==
  ASSUME IInv, NEW r \in Requests, NEW from \in {"admit", "understand"},
         NEW to \in {"understand", "execute"}, Advance(r, from, to), front = "rest"
  PROVE  IInv'
<1>1. /\ TypeOK /\ Handle(r, from, to)
      /\ UNCHANGED <<kind, call, serverVars, metricVars, label, reply, results>>
  BY DEF IInv, Advance, Quiet, clientVars
<1>2. from \in Handling \ Counting /\ to \in Handling \ Counting /\ from # "respond"
  BY DEF Handling, Counting
<1>3. NoneMeetsClosedPool'
  BY <1>1 DEF IInv, NoneMeetsClosedPool, serverVars
<1> QED
  BY <1>1, <1>2, <1>3, PlainStep DEF TypeOK

LEMMA AnswerOK ==
  ASSUME IInv, NEW r \in Requests, Answer(r)
  PROVE  IInv'
<1>1. /\ TypeOK /\ Handle(r, "respond", "done")
      /\ UNCHANGED <<kind, serverVars, metricVars, label, reply, results>>
  BY DEF IInv, Answer
<1>2. /\ call' \in [Requests -> {"new", "open", "answered", "failed"}]
      /\ \A s \in Requests : call'[s] = "new" => call[s] = "new"
  BY <1>1 DEF Answer, TypeOK
<1>3. "respond" \in Handling \ Counting
  BY DEF Handling, Counting
<1>4. NoneMeetsClosedPool'
  BY <1>1 DEF IInv, NoneMeetsClosedPool, serverVars
<1> QED
  BY <1>1, <1>2, <1>3, <1>4, PlainStep DEF TypeOK

(* ---------------------------------- metrics --------------------------------- *)

(* A handler that counts is alone.                                            *)
LEMMA Alone ==
  ASSUME IInv, NEW r \in Requests, pc[r] \in {"execute"} \cup Counting
  PROVE  /\ front = "rest"
         /\ \A s \in Requests \ {r} : pc[s] \notin Handling
         /\ \A s \in Requests \ {r} : pc[s] \notin Counting
<1>1. front = "rest"
  BY DEF IInv, GrpcStopsShort
<1>2. pc[r] \in Handling /\ Counting \subseteq Handling
  BY DEF Handling
<1> QED
  BY <1>1, <1>2 DEF IInv, OneAtATime

LEMMA CountStep ==
  ASSUME IInv, NEW r \in Requests, NEW from \in {"execute"} \cup Counting,
         NEW to \in Counting \cup {"respond"},
         Handle(r, from, to), UNCHANGED <<clientVars, serverVars, label>>,
         total' \in Nat, latency' \in Nat, labels' \in [Labels -> Nat],
         seen' \in [Requests -> Nat], reply' \in [Requests -> Replies],
         reply' = reply \/ \E a \in {"ok", "error"} : reply' = [reply EXCEPT ![r] = a],
         results' = results \cup {r},
         to \in Counting => CountOK(r)',
         to = "respond" =>
           /\ total' = Cardinality(results') /\ latency' = Cardinality(results')
           /\ \A l \in Labels : labels'[l] = Cardinality(Of(l)')
  PROVE  IInv'
<1>1. /\ TypeOK /\ pc[r] = from /\ pc'[r] = to /\ results \subseteq Requests
      /\ \A s \in Requests \ {r} : pc'[s] = pc[s]
      /\ pc' \in [Requests -> {"none", "waiting", "done"} \cup Handling]
      /\ UNCHANGED <<front, phase, open, call, kind, label>>
  BY HandleFacts DEF IInv, TypeOK, Handling, serverVars, clientVars
<1>2. /\ front = "rest" /\ \A s \in Requests \ {r} : pc[s] \notin Counting
  BY <1>1, Alone
<1>3. from \in Handling /\ to \in Handling /\ "respond" \notin Counting /\ to \notin {"execute", "admit"}
        /\ to # "done"
  BY DEF Handling, Counting
<1>4. TypeOK'
  BY <1>1 DEF TypeOK
<1>5. CountInv'
  <2>1. MetricsMatchResults'
    BY <1>1, <1>3 DEF MetricsMatchResults, Of
  <2>2. \A s \in Requests \ {r} : CountOK(s)'
    BY <1>1, <1>2 DEF CountOK
  <2>3. CountOK(r)'
    BY <1>1 DEF CountOK
  <2> QED
    BY <2>1, <2>2, <2>3 DEF CountInv
<1>6. ResultsAreDone'
  BY <1>1, <1>3 DEF IInv, ResultsAreDone
<1>7. NoneMeetsClosedPool'
  BY <1>1 DEF IInv, NoneMeetsClosedPool, TypeOK
<1> QED
  BY <1>1, <1>2, <1>3, <1>4, <1>5, <1>6, <1>7, HandlerStep DEF serverVars

(* A handler that counts has its result.                                      *)
LEMMA CountFacts ==
  ASSUME IInv, NEW r \in Requests, pc[r] \in Counting
  PROVE  /\ CountOK(r) /\ r \in results /\ results = results \cup {r}
         /\ TypeOK /\ Cardinality(results) \in Nat
         /\ \A l \in Labels : labels[l] \in Nat /\ Cardinality(Of(l)) \in Nat
         /\ label[r] \in Labels
<1>1. CountOK(r) /\ TypeOK
  BY DEF IInv, CountInv
<1>2. r \in results
  BY <1>1 DEF CountOK
<1>3. results \subseteq Requests
  BY <1>1 DEF TypeOK
<1> QED
  BY <1>1, <1>2, <1>3, ResultsFinite DEF TypeOK

LEMMA ExecuteOK ==
  ASSUME IInv, NEW r \in Requests, Execute(r)
  PROVE  IInv'
<1>1. CASE /\ Handle(r, "execute", "count")
           /\ results' = results \cup {r}
           /\ Quiet /\ UNCHANGED reply
  <2>1. /\ TypeOK /\ pc[r] = "execute" /\ pc'[r] = "count" /\ results \subseteq Requests
        /\ UNCHANGED <<total, labels, latency, seen, label>>
    BY <1>1, HandleFacts DEF IInv, TypeOK, Quiet, metricVars, Handling, Counting
  <2>2. \A s \in Requests : pc[s] \notin Counting
    BY <2>1, Alone DEF Counting
  <2>3. /\ total = Cardinality(results) /\ latency = Cardinality(results)
        /\ \A l \in Labels : labels[l] = Cardinality(Of(l))
    BY <2>2 DEF IInv, CountInv, MetricsMatchResults, Of
  <2>4. r \notin results
    BY <2>1 DEF IInv, ResultsAreDone, Counting
  <2>5. Cardinality(results') = Cardinality(results) + 1
    BY <1>1, <2>1, <2>4, ResultsFinite, FS_AddElement
  <2>6. \A l \in Labels :
          Cardinality(Of(l)') = Cardinality(Of(l)) + (IF label[r] = l THEN 1 ELSE 0)
    <3> SUFFICES ASSUME NEW l \in Labels
                 PROVE  Cardinality(Of(l)') = Cardinality(Of(l)) + (IF label[r] = l THEN 1 ELSE 0)
      OBVIOUS
    <3>0. IsFiniteSet(Of(l)) /\ Cardinality(Of(l)) \in Nat /\ r \notin Of(l)
      BY <2>1, <2>4, ResultsFinite DEF Of
    <3>1. CASE label[r] = l
      <4>1. Of(l)' = Of(l) \cup {r}
        BY <1>1, <2>1, <3>1 DEF Of
      <4> QED
        BY <3>0, <3>1, <4>1, FS_AddElement
    <3>2. CASE label[r] # l
      <4>1. Of(l)' = Of(l)
        BY <1>1, <2>1, <3>2 DEF Of
      <4> QED
        BY <3>0, <3>2, <4>1
    <3> QED
      BY <3>1, <3>2
  <2>7. CountOK(r)'
    BY <1>1, <2>1, <2>3, <2>5, <2>6 DEF CountOK, Counting
  <2>8. total' \in Nat /\ latency' \in Nat /\ labels' \in [Labels -> Nat]
          /\ seen' \in [Requests -> Nat] /\ reply' \in [Requests -> Replies]
    BY <1>1, <2>1 DEF TypeOK
  <2>9. "count" \in Counting
    BY DEF Counting
  <2>10. UNCHANGED <<clientVars, serverVars, label>> /\ reply' = reply
    BY <1>1 DEF Quiet
  <2> QED
    BY <1>1, <2>7, <2>8, <2>9, <2>10, CountStep
<1>2. CASE Respond(r, "execute", IF open THEN "error" ELSE "pool closed")
  <2> DEFINE answer == IF open THEN "error" ELSE "pool closed"
  <2>1. answer \in Replies /\ (answer = "pool closed" => ~open)
    BY DEF Replies
  <2>2. "execute" \in Handling \ (Counting \cup {"respond"})
    BY DEF Handling, Counting
  <2> HIDE DEF answer
  <2> QED
    BY <1>2, <2>1, <2>2, RespondOK DEF answer
<1> QED
  BY <1>1, <1>2 DEF Execute

LEMMA CountReadOK ==
  ASSUME IInv, NEW r \in Requests, CountRead(r)
  PROVE  IInv'
<1>1. /\ Handle(r, "count", "counting") /\ seen' = [seen EXCEPT ![r] = total]
      /\ UNCHANGED <<clientVars, serverVars, total, labels, latency, reply, label, results>>
  BY DEF CountRead
<1>2. pc[r] = "count" /\ "count" \in Counting /\ "counting" \in Counting
  BY <1>1 DEF Handle, Counting
<1>3. /\ CountOK(r) /\ r \in results /\ results = results \cup {r} /\ TypeOK
  BY <1>2, CountFacts
<1>4. pc'[r] = "counting" /\ seen'[r] = total /\ seen' \in [Requests -> Nat]
  BY <1>1, <1>3 DEF Handle, TypeOK
<1>5. CountOK(r)'
  BY <1>1, <1>2, <1>3, <1>4 DEF CountOK, Of
<1> QED
  BY <1>1, <1>2, <1>3, <1>4, <1>5, CountStep DEF TypeOK

LEMMA CountWriteOK ==
  ASSUME IInv, NEW r \in Requests, CountWrite(r)
  PROVE  IInv'
<1>1. /\ Handle(r, "counting", "label") /\ total' = seen[r] + 1
      /\ UNCHANGED <<clientVars, serverVars, labels, latency, seen, reply, label, results>>
  BY DEF CountWrite
<1>2. pc[r] = "counting" /\ "label" \in Counting /\ "counting" \in Counting
  BY <1>1 DEF Handle, Counting
<1>3. /\ CountOK(r) /\ r \in results /\ results = results \cup {r} /\ TypeOK
      /\ Cardinality(results) \in Nat
  BY <1>2, CountFacts
<1>4. pc'[r] = "label" /\ total' \in Nat
  BY <1>1, <1>3 DEF Handle, TypeOK
<1>5. CountOK(r)'
  <2>1. total \in Nat /\ total + 1 = Cardinality(results) /\ seen[r] = total
    BY <1>2, <1>3 DEF CountOK, TypeOK
  <2> QED
    BY <1>1, <1>2, <1>3, <1>4, <2>1 DEF CountOK, Of
<1> QED
  BY <1>1, <1>2, <1>3, <1>4, <1>5, CountStep DEF TypeOK

LEMMA LabelReadOK ==
  ASSUME IInv, NEW r \in Requests, LabelRead(r)
  PROVE  IInv'
<1>1. /\ Handle(r, "label", "labelling") /\ seen' = [seen EXCEPT ![r] = labels[label[r]]]
      /\ UNCHANGED <<clientVars, serverVars, total, labels, latency, reply, label, results>>
  BY DEF LabelRead
<1>2. pc[r] = "label" /\ "label" \in Counting /\ "labelling" \in Counting
  BY <1>1 DEF Handle, Counting
<1>3. /\ CountOK(r) /\ r \in results /\ results = results \cup {r} /\ TypeOK
      /\ label[r] \in Labels
  BY <1>2, CountFacts
<1>4. pc'[r] = "labelling" /\ seen'[r] = labels[label[r]] /\ seen' \in [Requests -> Nat]
  BY <1>1, <1>3 DEF Handle, TypeOK
<1>5. CountOK(r)'
  BY <1>1, <1>2, <1>3, <1>4 DEF CountOK, Of
<1> QED
  BY <1>1, <1>2, <1>3, <1>4, <1>5, CountStep DEF TypeOK

LEMMA LabelWriteOK ==
  ASSUME IInv, NEW r \in Requests, LabelWrite(r)
  PROVE  IInv'
<1>1. /\ Handle(r, "labelling", "record")
      /\ labels' = [labels EXCEPT ![label[r]] = seen[r] + 1]
      /\ UNCHANGED <<clientVars, serverVars, total, latency, seen, reply, label, results>>
  BY DEF LabelWrite
<1>2. pc[r] = "labelling" /\ "labelling" \in Counting /\ "record" \in Counting
  BY <1>1 DEF Handle, Counting
<1>3. /\ CountOK(r) /\ r \in results /\ results = results \cup {r} /\ TypeOK
      /\ label[r] \in Labels
      /\ \A l \in Labels : labels[l] \in Nat /\ Cardinality(Of(l)) \in Nat
  BY <1>2, CountFacts
<1>4. pc'[r] = "record" /\ seen[r] = labels[label[r]] /\ labels' \in [Labels -> Nat]
  BY <1>1, <1>2, <1>3 DEF Handle, TypeOK, CountOK
<1>5. \A l \in Labels : labels'[l] = Cardinality(Of(l))
  <2> SUFFICES ASSUME NEW l \in Labels PROVE labels'[l] = Cardinality(Of(l))
    OBVIOUS
  <2>1. labels[l] + (IF label[r] = l THEN 1 ELSE 0) = Cardinality(Of(l))
    BY <1>2, <1>3 DEF CountOK
  <2>2. labels'[l] = IF label[r] = l THEN labels[l] + 1 ELSE labels[l]
    BY <1>1, <1>3, <1>4 DEF TypeOK
  <2> QED
    BY <1>3, <2>1, <2>2
<1>6. CountOK(r)'
  <2>1. \A l \in Labels : Of(l)' = Of(l)
    BY <1>1 DEF Of
  <2> QED
    BY <1>1, <1>2, <1>3, <1>4, <1>5, <2>1 DEF CountOK
<1> QED
  BY <1>1, <1>2, <1>3, <1>4, <1>6, CountStep DEF TypeOK

LEMMA RecordOK ==
  ASSUME IInv, NEW r \in Requests, Record(r)
  PROVE  IInv'
<1>1. /\ Handle(r, "record", "respond") /\ latency' = latency + 1
      /\ UNCHANGED <<clientVars, serverVars, total, labels, seen, label, results>>
  BY DEF Record
<1>2. PICK a \in {"ok", "error"} : reply' = [reply EXCEPT ![r] = a]
  BY DEF Record
<1>3. pc[r] = "record" /\ "record" \in Counting /\ "record" \notin {"count", "counting"}
  BY <1>1 DEF Handle, Counting
<1>4. /\ CountOK(r) /\ r \in results /\ results = results \cup {r} /\ TypeOK
      /\ Cardinality(results) \in Nat
      /\ \A l \in Labels : labels[l] \in Nat /\ Cardinality(Of(l)) \in Nat
  BY <1>3, CountFacts
<1>5. reply' \in [Requests -> Replies] /\ latency' \in Nat
  <2>1. a \in Replies /\ reply \in [Requests -> Replies] /\ latency \in Nat
    BY <1>4 DEF TypeOK, Replies
  <2> QED
    BY <1>1, <1>2, <2>1
<1>6. total' = Cardinality(results') /\ latency' = Cardinality(results')
  BY <1>1, <1>3, <1>4 DEF CountOK, TypeOK
<1>7. \A l \in Labels : labels'[l] = Cardinality(Of(l)')
  <2>1. \A l \in Labels : Of(l)' = Of(l)
    BY <1>1 DEF Of
  <2>2. \A l \in Labels : labels[l] + 0 = Cardinality(Of(l))
    BY <1>3, <1>4 DEF CountOK
  <2> QED
    BY <1>1, <1>4, <2>1, <2>2
<1>8. "respond" \notin Counting
  BY DEF Counting
<1> QED
  BY <1>1, <1>2, <1>3, <1>4, <1>5, <1>6, <1>7, <1>8, CountStep DEF TypeOK

LEMMA HandlerOK ==
  ASSUME IInv, NEW r \in Requests, Handler(r)
  PROVE  IInv'
<1>1. /\ {"admit", "understand", "probe"} \subseteq Handling \ (Counting \cup {"respond"})
      /\ {"unknown tenant", "over quota", "error", "ok"} \subseteq Replies
  BY DEF Handling, Counting, Replies
<1>2. CASE Admit(r)
  <2>1. pc[r] = "admit" => front = "rest"
    BY DEF IInv, GrpcStopsShort
  <2>2. CASE Advance(r, "admit", "understand")
    BY <2>1, <2>2, AdvanceOK DEF Advance, Handle
  <2>3. CASE \E answer \in {"unknown tenant", "over quota"} : Respond(r, "admit", answer)
    BY <1>1, <2>3, RespondOK
  <2> QED
    BY <1>2, <2>2, <2>3 DEF Admit
<1>3. CASE Understand(r)
  <2>1. CASE front = "rest" /\ Advance(r, "understand", "execute")
    BY <2>1, AdvanceOK
  <2>2. CASE Respond(r, "understand", "error")
    BY <1>1, <2>2, RespondOK
  <2> QED
    BY <1>3, <2>1, <2>2 DEF Understand
<1>4. CASE Probe(r)
  BY <1>1, <1>4, RespondOK DEF Probe
<1> QED
  BY <1>2, <1>3, <1>4, BeginOK, ExecuteOK, CountReadOK, CountWriteOK, LabelReadOK,
     LabelWriteOK, RecordOK, AnswerOK DEF Handler

(* --------------------------------- shutdown --------------------------------- *)

LEMMA StopOK ==
  ASSUME IInv, NEW from, NEW to \in {"closing", "stopping", "down"},
         NEW stillOpen \in BOOLEAN, Stop(from, to, stillOpen),
         front = "rest" => \/ to = "stopping" /\ stillOpen /\ from # "down" /\ open
                           \/ to = "down" /\ Served
  PROVE  IInv'
<1>1. /\ TypeOK /\ phase' = to /\ open' = stillOpen
      /\ UNCHANGED <<front, call, kind, total, labels, latency, seen, pc, reply, label, results>>
  BY DEF IInv, Stop, clientVars, metricVars
<1>2. TypeOK'
  BY <1>1 DEF TypeOK
<1>3. CountInv'
  BY <1>1, CountFrame DEF IInv
<1>4. ShutdownInv'
  BY <1>1 DEF ShutdownInv, Served
<1> QED
  BY <1>1, <1>2, <1>3, <1>4 DEF IInv, NewHasNone, OneAtATime, GrpcStopsShort, ResultsAreDone,
                               NoneMeetsClosedPool

LEMMA ShutdownOK ==
  ASSUME IInv, StopRest \/ CloseRest \/ Signal \/ StopGrpc \/ Exit
  PROVE  IInv'
<1>1. CASE StopRest
  <2>1. front = "rest" /\ Stop("serving", "stopping", TRUE) /\ phase = "serving"
    BY <1>1 DEF StopRest, Stop
  <2>2. open
    BY <2>1 DEF IInv, ShutdownInv
  <2> QED
    BY <2>1, <2>2, StopOK
<1>2. CASE CloseRest
  BY <1>2, StopOK DEF CloseRest
<1>3. CASE Signal \/ StopGrpc \/ Exit
  <2>1. front # "rest"
    BY <1>3 DEF Signal, StopGrpc, Exit
  <2> QED
    BY <1>3, <2>1, StopOK DEF Signal, StopGrpc, Exit
<1> QED
  BY <1>1, <1>2, <1>3

(* --------------------------------- theorems --------------------------------- *)

LEMMA NextOK == IInv /\ [Next]_vars => IInv'
<1> SUFFICES ASSUME IInv, [Next]_vars PROVE IInv'
  OBVIOUS
<1>1. CASE UNCHANGED vars
  <2>1. UNCHANGED <<front, phase, open, call, kind, total, labels, latency, seen, pc, reply,
                    label, results>>
    BY <1>1 DEF vars, clientVars, serverVars, metricVars
  <2>2. CountInv'
    BY <2>1, CountFrame DEF IInv
  <2> QED
    BY <2>1, <2>2 DEF IInv, TypeOK, NewHasNone, OneAtATime, GrpcStopsShort, ResultsAreDone,
                      ShutdownInv, Served, NoneMeetsClosedPool
<1>2. CASE Next
  BY <1>2, SendOK, GiveUpOK, HandlerOK, ShutdownOK DEF Next
<1> QED
  BY <1>1, <1>2

(* The inductive invariant holds of every behaviour.                          *)
LEMMA Invariance == Spec => []IInv
BY InitOK, NextOK, PTL DEF Spec

(* What clients and servers hold keeps its type.                              *)
THEOREM TypeCorrect == Spec => []TypeOK
<1>1. IInv => TypeOK
  BY DEF IInv
<1> QED
  BY <1>1, Invariance, PTL

(* Counters that are updated without a lock lose nothing, for the handlers are*)
(* coroutines that do not await (telemetry.py:99-103, rest_server.py:100).    *)
THEOREM MetricsAreExact == Spec => []MetricsMatchResults
<1>1. IInv => MetricsMatchResults
  BY DEF IInv, CountInv
<1> QED
  BY <1>1, Invariance, PTL

(* The REST server closes the pool when no request can need it any more       *)
(* (rest_server.py:250).                                                      *)
THEOREM PoolOutlivesRequests == Spec => []NoneMeetsClosedPool
<1>1. IInv => NoneMeetsClosedPool
  BY DEF IInv
<1> QED
  BY <1>1, Invariance, PTL
===============================================================================
