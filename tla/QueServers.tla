------------------------------- MODULE QueServers -----------------------------
(* The two servers of the engine, as their clients see them, from the request *)
(* to the answer and through shutdown.  A process runs one of them.           *)
(*                                                                            *)
(* "rest" is api/rest_server.py under uvicorn.  Its handlers are coroutines   *)
(* that never await, so one request runs to its end on the event loop before  *)
(* the next one begins.  A shutdown waits for the requests that were accepted *)
(* and then closes the pool of the executor.                                  *)
(*                                                                            *)
(* "grpc" is main.py with communication/grpc_server/que_service.py: handlers  *)
(* run in MaxWorkers threads.  The signal handler closes the pool and then    *)
(* stops the server, which lets calls in progress go on for a while.  At this *)
(* commit Execute reads a name that is not defined after its second stage     *)
(* (que_service.py:70), and ExecuteStream fails at its first event (:144).    *)
(*                                                                            *)
(* The stages are the other modules' business: here they end well or raise.   *)
(* Clients are those of sdk/que_sdk/client.py: they wait, and give up in time.*)
EXTENDS Integers, FiniteSets

CONSTANTS Requests,
          Labels,     \* the labels of the request counter: tenant and intent
          MaxWorkers  \* threads of the gRPC server

ASSUME ServersAssumption ==
  /\ IsFiniteSet(Requests)
  /\ MaxWorkers \in Nat \ {0}

VARIABLES
  front,    \* the server this process runs
  phase,    \* "serving", "closing" (the pool, not yet the server), "stopping", "down"
  open,     \* whether the pool of the executor takes tasks
  call,     \* call[r]: what the client sees
  kind,     \* kind[r]: what it asks for
  pc,       \* pc[r]: the next step of the handler
  reply,    \* reply[r]: the answer
  label,    \* label[r]: the labels under which it is counted
  total,    \* QUE_REQUEST_COUNT._value
  labels,   \* QUE_REQUEST_COUNT._labels
  latency,  \* the number of values in QUE_LATENCY_HISTOGRAM
  seen,     \* seen[r]: the count its handler has read
  results   \* history: requests all of whose stages ended well

clientVars == <<call, kind>>
serverVars == <<front, phase, open>>
metricVars == <<total, labels, latency, seen>>
vars == <<clientVars, serverVars, metricVars, pc, reply, label, results>>

Kinds == {"execute", "stream", "health"}
Counting == {"count", "counting", "label", "labelling", "record"}
Handling == {"admit", "understand", "execute", "probe", "respond"} \cup Counting
Replies == {"none", "ok", "unknown tenant", "over quota", "pool closed", "error"}

Init ==
  /\ front \in {"rest", "grpc"}
  /\ phase = "serving"
  /\ open = TRUE
  /\ call = [r \in Requests |-> "new"]
  /\ kind = [r \in Requests |-> "health"]
  /\ pc = [r \in Requests |-> "none"]
  /\ reply = [r \in Requests |-> "none"]
  /\ label \in [Requests -> Labels]
  /\ total = 0
  /\ labels = [l \in Labels |-> 0]
  /\ latency = 0
  /\ seen = [r \in Requests |-> 0]
  /\ results = {}

(* ---------------------------------- clients --------------------------------- *)

(* A server that has stopped accepting refuses.                               *)
Send(r, k) ==
  /\ call[r] = "new"
  /\ k = "stream" => front = "grpc"
  /\ kind' = [kind EXCEPT ![r] = k]
  /\ \/ /\ phase \in {"serving", "closing"}
        /\ call' = [call EXCEPT ![r] = "open"]
        /\ pc' = [pc EXCEPT ![r] = "waiting"]
     \/ /\ phase \in {"stopping", "down"}
        /\ call' = [call EXCEPT ![r] = "failed"]
        /\ UNCHANGED pc
  /\ UNCHANGED <<serverVars, metricVars, reply, label, results>>

(* The client's timeout, of which the server takes no notice; or the gRPC     *)
(* server cuts the call off, when the time of grace after its stop is over.   *)
GiveUp(r) ==
  /\ call[r] = "open"
  /\ call' = [call EXCEPT ![r] = "failed"]
  /\ UNCHANGED <<kind, serverVars, metricVars, pc, reply, label, results>>

(* --------------------------------- handlers --------------------------------- *)

(* Faulty variant: plain def endpoints, which run in threads.                 *)
RoomInThreads == TRUE

Room ==
  LET busy == {r \in Requests : pc[r] \in Handling}
  IN IF front = "rest" THEN busy = {} ELSE Cardinality(busy) < MaxWorkers

Handle(r, from, to) == pc[r] = from /\ pc' = [pc EXCEPT ![r] = to]

Quiet == UNCHANGED <<clientVars, serverVars, metricVars, label>>

Begin(r) ==
  /\ Room
  /\ Handle(r, "waiting", IF kind[r] = "health" THEN "probe"
                          ELSE IF front = "rest" THEN "admit" ELSE "understand")
  /\ Quiet /\ UNCHANGED <<reply, results>>

(* A handler is over: it returned, or what it raised becomes the answer.      *)
Respond(r, from, answer) ==
  /\ Handle(r, from, "respond")
  /\ reply' = [reply EXCEPT ![r] = answer]
  /\ Quiet /\ UNCHANGED results

Advance(r, from, to) == Handle(r, from, to) /\ Quiet /\ UNCHANGED <<reply, results>>

(* The tenant check of the REST server (TenantManager).                       *)
Admit(r) ==
  \/ Advance(r, "admit", "understand")
  \/ \E answer \in {"unknown tenant", "over quota"} : Respond(r, "admit", answer)

(* Intent, rewriting and planning.  The gRPC handlers raise on their way.     *)
Understand(r) ==
  \/ front = "rest" /\ Advance(r, "understand", "execute")
  \/ Respond(r, "understand", "error")

(* An empty plan needs no pool; otherwise a pool that is closed raises, and one*)
(* that is open does when a wave takes too long.  Synthesis ends well.        *)
Execute(r) ==
  \/ /\ Handle(r, "execute", "count")
     /\ results' = results \cup {r}
     /\ Quiet /\ UNCHANGED reply
  \/ Respond(r, "execute", IF open THEN "error" ELSE "pool closed")

(* Counter.add: read and write of the value, then of the entry of the labels. *)
CountRead(r) ==
  /\ Handle(r, "count", "counting")
  /\ seen' = [seen EXCEPT ![r] = total]
  /\ UNCHANGED <<clientVars, serverVars, total, labels, latency, reply, label, results>>

CountWrite(r) ==
  /\ Handle(r, "counting", "label")
  /\ total' = seen[r] + 1
  /\ UNCHANGED <<clientVars, serverVars, labels, latency, seen, reply, label, results>>

LabelRead(r) ==
  /\ Handle(r, "label", "labelling")
  /\ seen' = [seen EXCEPT ![r] = labels[label[r]]]
  /\ UNCHANGED <<clientVars, serverVars, total, labels, latency, reply, label, results>>

LabelWrite(r) ==
  /\ Handle(r, "labelling", "record")
  /\ labels' = [labels EXCEPT ![label[r]] = seen[r] + 1]
  /\ UNCHANGED <<clientVars, serverVars, total, latency, seen, reply, label, results>>

(* Histogram.record, and the response: it is validated, and what the language *)
(* model put among the rewritten queries may be no text.                      *)
Record(r) ==
  /\ Handle(r, "record", "respond")
  /\ latency' = latency + 1
  /\ \E answer \in {"ok", "error"} : reply' = [reply EXCEPT ![r] = answer]
  /\ UNCHANGED <<clientVars, serverVars, total, labels, seen, label, results>>

(* health, HealthCheck: backends are probed; the answer may say unhealthy.    *)
Probe(r) == Respond(r, "probe", "ok") \/ Respond(r, "probe", "error")

(* Faulty variant: what a handler raised is passed on as it is.               *)
AnswerRaw(r) ==
  /\ Handle(r, "respond", "done")
  /\ call' = [call EXCEPT ![r] = IF @ = "open" THEN reply[r] ELSE @]
  /\ UNCHANGED <<kind, serverVars, metricVars, reply, label, results>>

(* Faulty variant: what a handler raised is not answered.                     *)
AnswerIfOk(r) ==
  /\ Handle(r, "respond", "done")
  /\ call' = [call EXCEPT ![r] = IF @ = "open" /\ reply[r] # "error" THEN "answered" ELSE @]
  /\ UNCHANGED <<kind, serverVars, metricVars, reply, label, results>>

Answer(r) ==
  /\ Handle(r, "respond", "done")
  /\ call' = [call EXCEPT ![r] = IF @ = "open" THEN "answered" ELSE @]
  /\ UNCHANGED <<kind, serverVars, metricVars, reply, label, results>>

Handler(r) ==
  \/ Begin(r) \/ Admit(r) \/ Understand(r) \/ Execute(r)
  \/ CountRead(r) \/ CountWrite(r) \/ LabelRead(r) \/ LabelWrite(r) \/ Record(r)
  \/ Probe(r) \/ Answer(r)

(* --------------------------------- shutdown --------------------------------- *)

Served == \A r \in Requests : pc[r] \in {"none", "done"}

Stop(from, to, stillOpen) ==
  /\ phase = from
  /\ phase' = to
  /\ open' = stillOpen
  /\ UNCHANGED <<front, clientVars, metricVars, pc, reply, label, results>>

(* uvicorn stops accepting and waits; the shutdown event closes the pool.     *)
StopRest == front = "rest" /\ Stop("serving", "stopping", TRUE)

(* Faulty variant: the pool is closed while requests are in progress.         *)
CloseAtOnce == front = "rest" /\ Stop("stopping", "down", FALSE)

CloseRest == front = "rest" /\ Served /\ Stop("stopping", "down", FALSE)

(* _shutdown: service.shutdown(), server.stop(), and exit, for which the      *)
(* threads of the server have to end.                                         *)
Signal == front = "grpc" /\ Stop("serving", "closing", FALSE)
StopGrpc == front = "grpc" /\ Stop("closing", "stopping", FALSE)
Exit == front = "grpc" /\ Served /\ Stop("stopping", "down", FALSE)

Next ==
  \/ \E r \in Requests, k \in Kinds : Send(r, k)
  \/ \E r \in Requests : GiveUp(r) \/ Handler(r)
  \/ StopRest \/ CloseRest \/ Signal \/ StopGrpc \/ Exit

Spec == Init /\ [][Next]_vars

FairSpec ==
  /\ Spec
  /\ \A r \in Requests : WF_vars(Handler(r))
  /\ WF_vars(CloseRest) /\ WF_vars(StopGrpc) /\ WF_vars(Exit)

(* -------------------------------- properties -------------------------------- *)

TypeOK ==
  /\ front \in {"rest", "grpc"}
  /\ phase \in {"serving", "closing", "stopping", "down"}
  /\ open \in BOOLEAN
  /\ call \in [Requests -> {"new", "open", "answered", "failed"}]
  /\ kind \in [Requests -> Kinds]
  /\ pc \in [Requests -> {"none", "waiting", "done"} \cup Handling]
  /\ reply \in [Requests -> Replies]
  /\ label \in [Requests -> Labels]
  /\ total \in Nat /\ latency \in Nat
  /\ labels \in [Labels -> Nat]
  /\ seen \in [Requests -> Nat]
  /\ results \subseteq Requests

(* The counter, its labels and the histogram agree with each other and with   *)
(* the requests whose stages ended well, although they are updated one after  *)
(* the other and without a lock (telemetry.py:99-103): for this the handlers  *)
(* have to be coroutines that do not await (rest_server.py:100).              *)
MetricsMatchResults ==
  (\A r \in Requests : pc[r] \notin Counting) =>
    /\ total = Cardinality(results)
    /\ latency = Cardinality(results)
    /\ \A l \in Labels : labels[l] = Cardinality({r \in results : label[r] = l})

(* No request that the REST server accepted meets a closed pool, whenever the *)
(* process is told to stop: the shutdown event comes after the last answer and*)
(* nothing is accepted in between (rest_server.py:250, dag_executor.py:91).   *)
NoneMeetsClosedPool == front = "rest" => \A r \in Requests : reply[r] # "pool closed"

(* Every client gets an answer unless it gave up, whatever raised, and a      *)
(* server that was told to stop comes to its end (rest_server.py:99,          *)
(* main.py:46).                                                               *)
EveryCallEnds ==
  /\ \A r \in Requests : call[r] = "open" ~> call[r] # "open"
  /\ phase = "stopping" ~> phase = "down"
===============================================================================
