------------------------------ MODULE BackendSearch ----------------------------
(* How a sub-query comes to its results: the router gives it a route          *)
(* (execution_router.py), a worker of the executor's pool finds the backend   *)
(* of that route or one to stand in for it (_execute_one), and the backend    *)
(* (builtin_backends.py) asks a service through a client that all workers     *)
(* share (rag_client/retrieval_client.py, memory_client/search_client.py).    *)
(*                                                                            *)
(* None of this is locked: backends come and go while workers look for them,  *)
(* several workers may make the first connection to a service at once, and    *)
(* close() may come at any time, though nothing in the repository calls it.   *)
(*                                                                            *)
(* Services and the language model are external: whether one that was asked   *)
(* answered or failed is all the same here, and so is what was asked.  A      *)
(* channel is the number under which its service's client opened it; 0 stands *)
(* for None.                                                                  *)
EXTENDS Integers, Sequences, FiniteSets

CONSTANTS Workers,
          Others,     \* names of backends that are not built in; they can search
          MaxEvents   \* bound on register, unregister and close(), which counts twice

ASSUME SearchAssumption ==
  /\ IsFiniteSet(Workers)
  /\ Others \cap {"none", "rag_retrieval", "direct_llm", "memory_lookup"} = {}
  /\ MaxEvents \in Nat

Services == {"rag_retrieval", "memory_lookup"}
Routes == Services \cup {"direct_llm"}
Names == Routes \cup Others

\* The capabilities that are declared: direct_llm only reasons, memory_lookup only remembers.
CanSearch == {"rag_retrieval"} \cup Others

VARIABLES
  backends, \* the keys of _backends, in dict order
  edits,    \* number of registrations and removals
  channel,  \* channel[s]: _channel of the client of service s
  stub,     \* stub[s]: the channel on which its _stub is built
  opened,   \* opened[s]: number of its channels that were opened
  closed,   \* closed[s]: those that were closed
  closing,  \* closing[s]: the next step of close()
  closes,   \* closes[s]: number of calls of close()
  pc,       \* pc[w]: the next step of worker w
  job,      \* job[w]: its route, the backend it found and the stub it holds
  result,   \* result[w]: how its last sub-query ended
  missed,   \* history: missed[w], whether during its job the route had no backend
  bare,     \* history: bare[w], whether during its job no backend could search
  raced     \* history: raced[s], whether a close overlapped a connection

tableVars == <<backends, edits, missed, bare>>
clientVars == <<channel, stub, opened, closed>>
closeVars == <<closing, closes>>
vars == <<tableVars, clientVars, closeVars, pc, job, result, raced>>

Events(more) == edits + 2 * (closes["rag_retrieval"] + closes["memory_lookup"]) + more

Registered == {backends[k] : k \in DOMAIN backends}

Connecting == {"open", "build", "store"}
PCs == {"idle", "get", "list", "search", "check", "read", "call"} \cup Connecting
Results == {"none", "asked", "no backend", "no stub", "closed channel"}

Init ==
  /\ backends = <<"rag_retrieval", "direct_llm", "memory_lookup">>
  /\ edits = 0
  /\ channel = [s \in Services |-> 0]
  /\ stub = [s \in Services |-> 0]
  /\ opened = [s \in Services |-> 0]
  /\ closed = [s \in Services |-> {}]
  /\ closing = [s \in Services |-> "no"]
  /\ closes = [s \in Services |-> 0]
  /\ pc = [w \in Workers |-> "idle"]
  /\ job = [w \in Workers |-> [route |-> "rag_retrieval", backend |-> "none", stub |-> 0]]
  /\ result = [w \in Workers |-> "none"]
  /\ missed = [w \in Workers |-> FALSE]
  /\ bare = [w \in Workers |-> FALSE]
  /\ raced = [s \in Services |-> FALSE]

(* ------------------------------ the registry -------------------------------- *)

Changed(table) ==
  LET names == {table[k] : k \in DOMAIN table}
  IN /\ Events(1) <= MaxEvents
     /\ edits' = edits + 1
     /\ backends' = table
     /\ missed' = [w \in Workers |-> missed[w] \/ job[w].route \notin names]
     /\ bare' = [w \in Workers |-> bare[w] \/ names \cap CanSearch = {}]
     /\ UNCHANGED <<clientVars, closeVars, pc, job, result, raced>>

(* A backend that takes the place of one of its name changes nothing here.    *)
Register(name) == name \notin Registered /\ Changed(Append(backends, name))

Struck(k) == SubSeq(backends, 1, k - 1) \o SubSeq(backends, k + 1, Len(backends))

Unregister(name) == \E k \in DOMAIN backends : backends[k] = name /\ Changed(Struck(k))

(* ------------------------------- the worker --------------------------------- *)

(* Faulty variant: a name that no backend has.                                *)
RouteMisspelt(planned, cues, open) ==
  IF planned # "rag_retrieval" THEN planned
  ELSE IF "memory" \in cues THEN "memory" ELSE "rag_retrieval"

(* route(): planned is what the planner assigned, cues the pattern lists that *)
(* match the text, and open whether the intent is an open discussion.         *)
Route(planned, cues, open) ==
  IF planned # "rag_retrieval" THEN planned
  ELSE IF "memory" \in cues THEN "memory_lookup"
  ELSE IF open \/ "definition" \in cues THEN "direct_llm"
  ELSE "rag_retrieval"

Step(w, from, to) == pc[w] = from /\ pc' = [pc EXCEPT ![w] = to]

(* The worker takes the next sub-query of a wave (DagExecutor).               *)
Take(w, planned, cues, open) ==
  LET way == Route(planned, cues, open)
  IN /\ Step(w, "idle", "get")
     /\ job' = [job EXCEPT ![w] = [route |-> way, backend |-> "none", stub |-> 0]]
     /\ result' = [result EXCEPT ![w] = "none"]
     /\ missed' = [missed EXCEPT ![w] = way \notin Registered]
     /\ bare' = [bare EXCEPT ![w] = Registered \cap CanSearch = {}]
     /\ UNCHANGED <<backends, edits, clientVars, closeVars, raced>>

End(w, from, how) ==
  /\ Step(w, from, "idle")
  /\ result' = [result EXCEPT ![w] = how]
  /\ job' = [job EXCEPT ![w].stub = 0]
  /\ UNCHANGED <<tableVars, clientVars, closeVars, raced>>

Found(w, from, name) ==
  /\ Step(w, from, "search")
  /\ job' = [job EXCEPT ![w].backend = name]
  /\ UNCHANGED <<tableVars, clientVars, closeVars, result, raced>>

Get(w) ==
  \/ job[w].route \in Registered /\ Found(w, "get", job[w].route)
  \/ /\ job[w].route \notin Registered
     /\ Step(w, "get", "list")
     /\ UNCHANGED <<tableVars, clientVars, closeVars, job, result, raced>>

(* Faulty variant: any backend will do.                                       *)
AnyStandIn(k) == k = 1

(* The first backend that can search.                                         *)
StandIn(k) ==
  /\ backends[k] \in CanSearch
  /\ \A j \in 1..(k - 1) : backends[j] \notin CanSearch

ListAll(w) ==
  \/ \E k \in DOMAIN backends : StandIn(k) /\ Found(w, "list", backends[k])
  \/ (\A k \in DOMAIN backends : ~StandIn(k)) /\ End(w, "list", "no backend")

(* Memory raises on a user_id that is no number.                              *)
Search(w) ==
  \/ /\ job[w].backend \in Services
     /\ Step(w, "search", "check")
     /\ UNCHANGED <<tableVars, clientVars, closeVars, job, result, raced>>
  \/ job[w].backend # "rag_retrieval" /\ End(w, "search", "asked")

(* -------------------------- the clients of services ------------------------- *)

Client(w) == job[w].backend

(* A close that is under way, or comes, while a connection is made.           *)
Racing(s) == closing[s] # "no" /\ \E w \in Workers : pc[w] \in Connecting /\ Client(w) = s

Overlap == raced' = [s \in Services |-> raced[s] \/ Racing(s)']

(* Faulty variant: the client connects for every call.                        *)
CheckNothing(w) ==
  /\ Step(w, "check", "open")
  /\ UNCHANGED <<tableVars, clientVars, closeVars, job, result>>
  /\ Overlap

(* _get_stub: if _stub is not None                                            *)
CheckStub(w) ==
  /\ Step(w, "check", IF stub[Client(w)] = 0 THEN "open" ELSE "read")
  /\ UNCHANGED <<tableVars, clientVars, closeVars, job, result>>
  /\ Overlap

OpenChannel(w) ==
  LET s == Client(w)
  IN /\ Step(w, "open", "build")
     /\ opened' = [opened EXCEPT ![s] = @ + 1]
     /\ channel' = [channel EXCEPT ![s] = opened[s] + 1]
     /\ UNCHANGED <<tableVars, stub, closed, closeVars, job, result, raced>>

(* The stub is built on the channel that _channel holds now, if any.          *)
BuildStub(w) ==
  /\ pc[w] = "build"
  /\ \/ /\ channel[Client(w)] # 0
        /\ Step(w, "build", "store")
        /\ job' = [job EXCEPT ![w].stub = channel[Client(w)]]
        /\ UNCHANGED <<tableVars, clientVars, closeVars, result, raced>>
     \/ channel[Client(w)] = 0 /\ End(w, "build", "no stub")

StoreStub(w) ==
  /\ Step(w, "store", "read")
  /\ stub' = [stub EXCEPT ![Client(w)] = job[w].stub]
  /\ UNCHANGED <<tableVars, channel, opened, closed, closeVars, job, result, raced>>

(* return _stub reads it again.                                               *)
ReadStub(w) ==
  /\ Step(w, "read", "call")
  /\ job' = [job EXCEPT ![w].stub = stub[Client(w)]]
  /\ UNCHANGED <<tableVars, clientVars, closeVars, result, raced>>

Call(w) ==
  LET gone == job[w].stub \in closed[Client(w)]
  IN /\ pc[w] = "call"
     /\ IF job[w].stub = 0 THEN End(w, "call", "no stub")
        ELSE IF gone THEN End(w, "call", "closed channel")
        ELSE End(w, "call", "asked")

Work(w) ==
  \/ Get(w) \/ ListAll(w) \/ Search(w) \/ CheckStub(w) \/ OpenChannel(w) \/ BuildStub(w)
  \/ StoreStub(w) \/ ReadStub(w) \/ Call(w)

(* close(): does nothing without a channel; else closes it and forgets it and *)
(* the stub, one after the other.  One caller at a time.                      *)
CloseChannel(s) ==
  /\ closing[s] = "no"
  /\ Events(2) <= MaxEvents
  /\ closes' = [closes EXCEPT ![s] = @ + 1]
  /\ channel[s] # 0
  /\ closing' = [closing EXCEPT ![s] = "channel"]
  /\ closed' = [closed EXCEPT ![s] = @ \cup {channel[s]}]
  /\ UNCHANGED <<tableVars, channel, stub, opened, pc, job, result>>
  /\ Overlap

ForgetChannel(s) ==
  /\ closing[s] = "channel"
  /\ closing' = [closing EXCEPT ![s] = "stub"]
  /\ channel' = [channel EXCEPT ![s] = 0]
  /\ UNCHANGED <<tableVars, stub, opened, closed, closes, pc, job, result, raced>>

(* Faulty variant: only the channel is forgotten.                             *)
KeepStub(s) ==
  /\ closing[s] = "stub"
  /\ closing' = [closing EXCEPT ![s] = "no"]
  /\ UNCHANGED <<tableVars, clientVars, closes, pc, job, result, raced>>

ForgetStub(s) ==
  /\ closing[s] = "stub"
  /\ closing' = [closing EXCEPT ![s] = "no"]
  /\ stub' = [stub EXCEPT ![s] = 0]
  /\ UNCHANGED <<tableVars, channel, opened, closed, closes, pc, job, result, raced>>

Next ==
  \/ \E name \in Names : Register(name) \/ Unregister(name)
  \/ \E w \in Workers : Work(w)
  \/ \E w \in Workers, planned \in {"rag_retrieval", "direct_llm"},
        cues \in SUBSET {"memory", "definition"}, open \in BOOLEAN :
       Take(w, planned, cues, open)
  \/ \E s \in Services : CloseChannel(s) \/ ForgetChannel(s) \/ ForgetStub(s)

Spec == Init /\ [][Next]_vars

(* -------------------------------- properties -------------------------------- *)

TypeOK ==
  /\ backends \in Seq(Names)
  /\ edits \in Nat
  /\ channel \in [Services -> Nat]
  /\ stub \in [Services -> Nat]
  /\ opened \in [Services -> Nat]
  /\ closed \in [Services -> SUBSET Nat]
  /\ closing \in [Services -> {"no", "channel", "stub"}]
  /\ closes \in [Services -> Nat]
  /\ pc \in [Workers -> PCs]
  /\ job \in [Workers -> [route : Routes, backend : Names \cup {"none"}, stub : Nat]]
  /\ result \in [Workers -> Results]
  /\ missed \in [Workers -> BOOLEAN]
  /\ bare \in [Workers -> BOOLEAN]
  /\ raced \in [Services -> BOOLEAN]

(* A sub-query is answered by the backend of its route; only if that was not  *)
(* registered at some time meanwhile another stands in, and never one that    *)
(* cannot search.  It goes without a backend only if, besides, there was a    *)
(* time when none could search; not necessarily the same time, for the two    *)
(* lookups are not one step (dag_executor.py:182-193).                        *)
RouteIsKept ==
  \A w \in Workers :
    /\ result[w] # "none" /\ job[w].backend \notin {"none", job[w].route} =>
         missed[w] /\ job[w].backend \in CanSearch
    /\ result[w] = "no backend" => missed[w] /\ bare[w]

(* Workers may connect to a service at once, and build their stubs on each    *)
(* other's channels: while nobody closes the client no call finds a stub      *)
(* missing or its channel closed.  After a close no stub stays behind on a    *)
(* channel that is closed, unless a connection was being made meanwhile       *)
(* (retrieval_client.py:18-29, 57-62).                                        *)
StubsStayUsable ==
  /\ \A w \in Workers :
       result[w] \in {"no stub", "closed channel"} => closes[Client(w)] > 0
  /\ \A s \in Services :
       closing[s] = "no" /\ ~raced[s] /\ stub[s] # 0 => stub[s] \notin closed[s]

(* The channels that the race of the first calls leaves open behind the one in*)
(* use, and which nobody can close any more, are fewer than the workers       *)
(* (retrieval_client.py:20-23).                                               *)
ChannelsBounded ==
  \A s \in Services : closes[s] = 0 => opened[s] <= Cardinality(Workers)
===============================================================================
