-------------------------- MODULE BackendSearchProofs -------------------------
(* Proofs about BackendSearch, for every finite set of workers, any backends  *)
(* besides the built-in ones and any number of events.                        *)
EXTENDS BackendSearch, FiniteSetTheorems, SequenceTheorems, NaturalsInduction, TLAPS

(* ------------------------------ the inductive invariant --------------------- *)

Busy == Connecting \cup {"read", "call"}

(* What a worker has found, and what it has missed.                           *)
WorkerOK(w) ==
  /\ job[w].route \notin Registered => missed[w]
  /\ Registered \cap CanSearch = {} => bare[w]
  /\ pc[w] \in {"get", "list"} => job[w].backend = "none"
  /\ pc[w] = "list" => missed[w]
  /\ pc[w] # "idle" => result[w] = "none"
  /\ pc[w] \in Busy \cup {"check"} => job[w].backend \in Services
  /\ job[w].backend \notin {"none", job[w].route} => missed[w] /\ job[w].backend \in CanSearch
  /\ result[w] = "no backend" => missed[w] /\ bare[w]
  /\ result[w] \in {"no stub", "closed channel"} =>
       job[w].backend \in Services /\ closes[job[w].backend] > 0

(* Workers that are at one of these steps with the client of s.               *)
At(s, steps) == {w \in Workers : pc[w] \in steps /\ Client(w) = s}

(* A client that nobody has closed yet.  While it has no stub, the workers    *)
(* that opened its channels are still connecting.                             *)
FreshOK(s) ==
  /\ closed[s] = {} /\ closing[s] = "no"
  /\ At(s, {"build", "store"}) # {} => channel[s] # 0
  /\ \A w \in At(s, {"store", "call"}) : job[w].stub # 0
  /\ At(s, {"read"}) # {} => stub[s] # 0
  /\ stub[s] = 0 => opened[s] = Cardinality(At(s, {"build", "store"}))
  /\ opened[s] + Cardinality(At(s, {"open"})) <= Cardinality(Workers)

(* A client none of whose closes overlapped a connection.                     *)
CalmOK(s) ==
  /\ closing[s] = "no" =>
       /\ channel[s] \notin closed[s] /\ stub[s] \notin closed[s]
       /\ \A w \in At(s, {"store"}) : job[w].stub \notin closed[s]
  /\ closing[s] = "stub" => channel[s] = 0

ClientOK(s) ==
  /\ channel[s] <= opened[s]
  /\ closed[s] \subseteq 1..opened[s]
  /\ Racing(s) => raced[s]
  /\ closes[s] = 0 => FreshOK(s)
  /\ ~raced[s] => CalmOK(s)

IInv ==
  /\ TypeOK
  /\ \A w \in Workers : WorkerOK(w)
  /\ \A s \in Services : ClientOK(s)

(* ------------------------------------ lemmas -------------------------------- *)

LEMMA AtFacts ==
  ASSUME NEW s, NEW steps
  PROVE  /\ At(s, steps) \subseteq Workers /\ IsFiniteSet(At(s, steps))
         /\ Cardinality(At(s, steps)) \in Nat
         /\ Cardinality(At(s, steps)) <= Cardinality(Workers) /\ Cardinality(Workers) \in Nat
<1>1. At(s, steps) \in SUBSET Workers
  BY DEF At
<1>2. IsFiniteSet(Workers)
  BY SearchAssumption
<1> QED
  BY <1>1, <1>2, FS_Subset, FS_CardinalityType

LEMMA JobFacts ==
  ASSUME TypeOK, NEW w \in Workers
  PROVE  /\ job[w].route \in Routes /\ job[w].backend \in Names \cup {"none"}
         /\ job[w].stub \in Nat
         /\ job[w] \in [route : Routes, backend : Names \cup {"none"}, stub : Nat]
BY DEF TypeOK

(* A worker of which nothing changes.                                         *)
LEMMA WorkerFrame ==
  ASSUME TypeOK, NEW w \in Workers, WorkerOK(w), UNCHANGED backends,
         pc'[w] = pc[w], job'[w] = job[w], result'[w] = result[w],
         missed'[w] = missed[w], bare'[w] = bare[w],
         \A s \in Services : closes'[s] = closes[s] \/ closes'[s] = closes[s] + 1
  PROVE  WorkerOK(w)'
<1>1. \A s \in Services : closes[s] \in Nat
  BY DEF TypeOK
<1>2. \A s \in Services : closes[s] > 0 => closes'[s] > 0
  BY <1>1
<1>3. Registered' = Registered
  BY DEF Registered
<1> QED
  BY <1>2, <1>3 DEF WorkerOK

(* A client of which nothing changes, whatever the other one meets.           *)
LEMMA ClientFrame ==
  ASSUME NEW s \in Services, ClientOK(s),
         channel'[s] = channel[s], stub'[s] = stub[s], opened'[s] = opened[s],
         closed'[s] = closed[s], closing'[s] = closing[s], closes'[s] = closes[s],
         raced[s] => raced'[s],
         \A w \in Workers : pc'[w] \in Busy /\ Client(w)' = s =>
           pc[w] = pc'[w] /\ Client(w) = s /\ job'[w].stub = job[w].stub,
         closes[s] = 0 => /\ At(s, {"open"})' = At(s, {"open"})
                          /\ At(s, {"build", "store"})' = At(s, {"build", "store"})
  PROVE  ClientOK(s)'
<1>1. /\ Connecting \subseteq Busy
      /\ {"store", "call", "read", "build", "open"} \subseteq Busy
  BY DEF Busy, Connecting
<1>2. Racing(s)' => raced'[s]
  BY <1>1 DEF ClientOK, Racing
<1>3. \A steps : steps \subseteq Busy =>
        \A w \in At(s, steps)' : w \in At(s, steps) /\ job'[w].stub = job[w].stub
  BY DEF At
<1>4. ASSUME closes[s] = 0 PROVE FreshOK(s)'
  <2>1. FreshOK(s)
    BY <1>4 DEF ClientOK
  <2>2. /\ \A w \in At(s, {"store", "call"})' :
             w \in At(s, {"store", "call"}) /\ job'[w].stub = job[w].stub
        /\ At(s, {"read"})' \subseteq At(s, {"read"})
    BY <1>1, <1>3
  <2> QED
    BY <1>4, <2>1, <2>2 DEF FreshOK
<1>5. ASSUME ~raced[s] PROVE CalmOK(s)'
  <2>1. CalmOK(s)
    BY <1>5 DEF ClientOK
  <2>2. \A w \in At(s, {"store"})' : w \in At(s, {"store"}) /\ job'[w].stub = job[w].stub
    BY <1>1, <1>3
  <2> QED
    BY <2>1, <2>2 DEF CalmOK
<1> QED
  BY <1>2, <1>4, <1>5 DEF ClientOK

(* The first backend that can search, if any can.                             *)
LEMMA StandInExists ==
  ASSUME TypeOK, Registered \cap CanSearch # {}
  PROVE  \E k \in DOMAIN backends : StandIn(k)
<1> DEFINE R == {ss \in Nat \X Nat : ss[1] < ss[2]}
           places == {k \in DOMAIN backends : backends[k] \in CanSearch}
<1>1. DOMAIN backends = 1..Len(backends) /\ Len(backends) \in Nat
  BY LenProperties DEF TypeOK
<1>2. places # {} /\ places \subseteq Nat
  BY <1>1 DEF Registered
<1>3. IsWellFoundedOn(R, Nat)
  BY NatLessThanWellFounded DEF OpToRel
<1>4. PICK k \in places : \A j \in places : <<j, k>> \notin R
  <2> HIDE DEF places, R
  <2> QED
    BY <1>2, <1>3, WFMin
<1>5. ASSUME NEW j \in 1..(k - 1) PROVE backends[j] \notin CanSearch
  <2>1. j \in DOMAIN backends /\ j < k /\ j \in Nat /\ k \in Nat
    BY <1>1
  <2> QED
    BY <1>4, <2>1
<1> QED
  BY <1>4, <1>5 DEF StandIn

LEMMA InitOK == Init => IInv
<1> SUFFICES ASSUME Init PROVE IInv
  OBVIOUS
<1>1. /\ \A w \in Workers : /\ pc[w] = "idle" /\ result[w] = "none"
                            /\ job[w].route = "rag_retrieval" /\ job[w].backend = "none"
                            /\ job[w] \in [route : Routes, backend : Names \cup {"none"}, stub : Nat]
      /\ \A s \in Services : /\ channel[s] = 0 /\ stub[s] = 0 /\ opened[s] = 0
                             /\ closed[s] = {} /\ closing[s] = "no" /\ closes[s] = 0
  BY DEF Init, Routes, Services
<1>2. backends \in Seq(Names) /\ "rag_retrieval" \in Registered
  <2>1. {"rag_retrieval", "direct_llm", "memory_lookup"} \subseteq Names
    BY DEF Names, Routes, Services
  <2>2. \A a, b, c \in Names : <<a, b, c>> \in Seq(Names)
    OBVIOUS
  <2>3. backends[1] = "rag_retrieval" /\ 1 \in DOMAIN backends
    BY DEF Init
  <2> QED
    BY <2>1, <2>2, <2>3 DEF Init, Registered
<1>3. TypeOK
  <2>1. {} \in SUBSET Nat /\ "idle" \in PCs /\ "none" \in Results
    BY DEF PCs, Results
  <2>2. job \in [Workers -> [route : Routes, backend : Names \cup {"none"}, stub : Nat]]
    BY <1>1 DEF Init
  <2> QED
    BY <1>2, <2>1, <2>2 DEF Init, TypeOK
<1>4. \A w \in Workers : WorkerOK(w)
  BY <1>1, <1>2 DEF WorkerOK, Busy, Connecting, CanSearch
<1>5. ASSUME NEW s \in Services PROVE ClientOK(s)
  <2>1. \A steps : "idle" \notin steps => At(s, steps) = {}
    BY <1>1 DEF At
  <2>2. /\ At(s, {"build", "store"}) = {} /\ At(s, {"store", "call"}) = {}
        /\ At(s, {"read"}) = {} /\ At(s, {"open"}) = {} /\ At(s, {"store"}) = {}
    BY <2>1
  <2>3. Cardinality(Workers) \in Nat /\ Cardinality({}) = 0
    BY AtFacts, FS_EmptySet
  <2>4. FreshOK(s)
    <3>1. Cardinality(At(s, {"build", "store"})) = 0 /\ Cardinality(At(s, {"open"})) = 0
      BY <2>2, <2>3
    <3> QED
      BY <1>1, <2>2, <2>3, <3>1 DEF FreshOK
  <2>5. CalmOK(s) /\ ~Racing(s)
    BY <1>1, <2>2 DEF CalmOK, Racing
  <2> QED
    BY <1>1, <2>4, <2>5 DEF ClientOK
<1> QED
  BY <1>3, <1>4, <1>5 DEF IInv

(* ------------------------------ the registry -------------------------------- *)

LEMMA ChangedOK ==
  ASSUME IInv, NEW table \in Seq(Names), Changed(table)
  PROVE  IInv'
<1> DEFINE names == {table[k] : k \in DOMAIN table}
<1>1. /\ TypeOK /\ backends' = table /\ edits' = edits + 1
      /\ missed' = [w \in Workers |-> missed[w] \/ job[w].route \notin names]
      /\ bare' = [w \in Workers |-> bare[w] \/ names \cap CanSearch = {}]
      /\ UNCHANGED <<channel, stub, opened, closed, closing, closes, pc, job, result, raced>>
  BY DEF IInv, Changed, clientVars, closeVars
<1>2. Registered' = names
  BY <1>1 DEF Registered
<1> HIDE DEF names
<1>3. \A w \in Workers : /\ missed'[w] <=> (missed[w] \/ job[w].route \notin names)
                         /\ bare'[w] <=> (bare[w] \/ names \cap CanSearch = {})
  BY <1>1
<1>4. TypeOK'
  <2>1. missed' \in [Workers -> BOOLEAN] /\ bare' \in [Workers -> BOOLEAN]
    BY <1>1 DEF TypeOK
  <2> QED
    BY <1>1, <2>1 DEF TypeOK
<1>5. ASSUME NEW w \in Workers PROVE WorkerOK(w)'
  BY <1>1, <1>2, <1>3 DEF IInv, WorkerOK
<1>6. ASSUME NEW s \in Services PROVE ClientOK(s)'
  <2>1. At(s, {"open"})' = At(s, {"open"})
          /\ At(s, {"build", "store"})' = At(s, {"build", "store"})
    BY <1>1 DEF At, Client
  <2>2. \A w \in Workers : pc'[w] = pc[w] /\ Client(w)' = Client(w) /\ job'[w].stub = job[w].stub
    BY <1>1 DEF Client
  <2> QED
    BY <1>1, <2>1, <2>2, ClientFrame DEF IInv
<1> QED
  BY <1>4, <1>5, <1>6 DEF IInv

LEMMA TableOK ==
  ASSUME IInv, NEW name \in Names, Register(name) \/ Unregister(name)
  PROVE  IInv'
<1>1. backends \in Seq(Names) /\ Len(backends) \in Nat /\ DOMAIN backends = 1..Len(backends)
  BY LenProperties DEF IInv, TypeOK
<1>2. Append(backends, name) \in Seq(Names)
  BY <1>1, AppendProperties
<1>3. ASSUME NEW k \in DOMAIN backends PROVE Struck(k) \in Seq(Names)
  <2> DEFINE f == SubSeq(backends, 1, k - 1)
             g == SubSeq(backends, k + 1, Len(backends))
  <2>1. f \in Seq(Names)
    BY <1>1, SubSeqProperties
  <2>2. g \in Seq(Names)
    BY <1>1, SubSeqProperties
  <2> HIDE DEF f, g
  <2>3. f \o g \in Seq(Names)
    BY <2>1, <2>2, ConcatProperties
  <2> QED
    BY <2>3 DEF Struck, f, g
<1>4. CASE Register(name)
  BY <1>2, <1>4, ChangedOK DEF Register
<1>5. CASE Unregister(name)
  BY <1>3, <1>5, ChangedOK DEF Unregister
<1> QED
  BY <1>4, <1>5

(* ------------------- a worker before it comes to a client ------------------- *)

(* A worker moves; its job and what it remembers may change.                  *)
LEMMA WorkerStep ==
  ASSUME IInv, NEW w \in Workers, TypeOK', UNCHANGED <<backends, closes>>,
         \A v \in Workers \ {w} :
           /\ pc'[v] = pc[v] /\ job'[v] = job[v] /\ result'[v] = result[v]
           /\ missed'[v] = missed[v] /\ bare'[v] = bare[v],
         WorkerOK(w)', \A s \in Services : ClientOK(s)'
  PROVE  IInv'
<1>1. ASSUME NEW v \in Workers \ {w} PROVE WorkerOK(v)'
  BY WorkerFrame DEF IInv
<1> QED
  BY <1>1 DEF IInv

(* A worker that is with no client disturbs none.                             *)
LEMMA OutsideClients ==
  ASSUME IInv, NEW w \in Workers,
         UNCHANGED <<channel, stub, opened, closed, closing, closes, raced>>,
         pc[w] \notin Busy, pc'[w] \notin Busy,
         \A v \in Workers \ {w} : pc'[v] = pc[v] /\ job'[v] = job[v]
  PROVE  \A s \in Services : ClientOK(s)'
<1> SUFFICES ASSUME NEW s \in Services PROVE ClientOK(s)'
  OBVIOUS
<1>1. "open" \in Busy /\ "build" \in Busy /\ "store" \in Busy
  BY DEF Busy, Connecting
<1>2. At(s, {"open"})' = At(s, {"open"}) /\ At(s, {"build", "store"})' = At(s, {"build", "store"})
  BY <1>1 DEF At, Client
<1>3. \A v \in Workers : pc'[v] \in Busy /\ Client(v)' = s =>
        pc[v] = pc'[v] /\ Client(v) = s /\ job'[v].stub = job[v].stub
  BY DEF Client
<1> QED
  BY <1>2, <1>3, ClientFrame DEF IInv

(* Where a step takes a worker.                                               *)
LEMMA StepFacts ==
  ASSUME TypeOK, NEW w \in Workers, NEW from, NEW to \in PCs, Step(w, from, to)
  PROVE  /\ pc[w] = from /\ pc'[w] = to /\ pc' \in [Workers -> PCs]
         /\ \A v \in Workers \ {w} : pc'[v] = pc[v]
BY DEF TypeOK, Step

LEMMA RouteFacts ==
  ASSUME NEW planned \in {"rag_retrieval", "direct_llm"}, NEW cues, NEW open
  PROVE  Route(planned, cues, open) \in Routes
BY DEF Route, Routes, Services

LEMMA TakeOK ==
  ASSUME IInv, NEW w \in Workers, NEW planned \in {"rag_retrieval", "direct_llm"},
         NEW cues, NEW open, Take(w, planned, cues, open)
  PROVE  IInv'
<1> DEFINE way == Route(planned, cues, open)
           new == [route |-> way, backend |-> "none", stub |-> 0]
<1>1. /\ TypeOK /\ Step(w, "idle", "get")
      /\ job' = [job EXCEPT ![w] = new] /\ result' = [result EXCEPT ![w] = "none"]
      /\ missed' = [missed EXCEPT ![w] = way \notin Registered]
      /\ bare' = [bare EXCEPT ![w] = Registered \cap CanSearch = {}]
      /\ UNCHANGED <<backends, edits, channel, stub, opened, closed, closing, closes, raced>>
  BY DEF IInv, Take, clientVars, closeVars
<1>2. way \in Routes
  BY RouteFacts
<1>3. /\ new \in [route : Routes, backend : Names \cup {"none"}, stub : Nat]
      /\ new.route = way /\ new.backend = "none"
  BY <1>2
<1> HIDE DEF new, way
<1>4. /\ pc[w] = "idle" /\ pc'[w] = "get" /\ pc' \in [Workers -> PCs]
      /\ \A v \in Workers \ {w} : pc'[v] = pc[v]
  BY <1>1, StepFacts DEF PCs
<1>5. /\ job'[w] = new /\ result'[w] = "none"
      /\ missed'[w] = (way \notin Registered) /\ bare'[w] = (Registered \cap CanSearch = {})
      /\ \A v \in Workers \ {w} : /\ job'[v] = job[v] /\ result'[v] = result[v]
                                  /\ missed'[v] = missed[v] /\ bare'[v] = bare[v]
  BY <1>1 DEF TypeOK
<1>6. TypeOK'
  <2>1. result' \in [Workers -> Results] /\ missed' \in [Workers -> BOOLEAN]
          /\ bare' \in [Workers -> BOOLEAN]
    BY <1>1 DEF TypeOK, Results
  <2> QED
    BY <1>1, <1>3, <1>4, <2>1 DEF TypeOK
<1>7. Registered' = Registered
  BY <1>1 DEF Registered
<1>8. WorkerOK(w)'
  BY <1>3, <1>4, <1>5, <1>7 DEF WorkerOK, Busy, Connecting
<1>9. \A s \in Services : ClientOK(s)'
  BY <1>1, <1>4, <1>5, OutsideClients DEF Busy, Connecting
<1> QED
  BY <1>1, <1>4, <1>5, <1>6, <1>8, <1>9, WorkerStep

(* Its sub-query ends.                                                        *)
LEMMA EndFacts ==
  ASSUME IInv, NEW w \in Workers, NEW from, NEW how \in Results, End(w, from, how),
         how = "no backend" => missed[w] /\ bare[w],
         how \in {"no stub", "closed channel"} =>
           job[w].backend \in Services /\ closes[job[w].backend] > 0
  PROVE  /\ TypeOK' /\ WorkerOK(w)' /\ pc[w] = from /\ pc'[w] = "idle"
         /\ UNCHANGED <<backends, channel, stub, opened, closed, closing, closes, raced>>
         /\ \A v \in Workers \ {w} :
              /\ pc'[v] = pc[v] /\ job'[v] = job[v] /\ result'[v] = result[v]
              /\ missed'[v] = missed[v] /\ bare'[v] = bare[v]
<1> DEFINE new == [job[w] EXCEPT !.stub = 0]
<1>1. /\ TypeOK /\ WorkerOK(w) /\ Step(w, from, "idle")
      /\ job' = [job EXCEPT ![w] = new] /\ result' = [result EXCEPT ![w] = how]
      /\ UNCHANGED <<backends, edits, missed, bare, channel, stub, opened, closed, closing,
                     closes, raced>>
  BY DEF IInv, End, tableVars, clientVars, closeVars
<1>2. /\ new \in [route : Routes, backend : Names \cup {"none"}, stub : Nat]
      /\ new.route = job[w].route /\ new.backend = job[w].backend
  BY <1>1, JobFacts
<1> HIDE DEF new
<1>3. /\ pc[w] = from /\ pc'[w] = "idle" /\ pc' \in [Workers -> PCs]
      /\ \A v \in Workers \ {w} : pc'[v] = pc[v]
  BY <1>1, StepFacts DEF PCs
<1>4. /\ job'[w] = new /\ result'[w] = how
      /\ \A v \in Workers \ {w} : job'[v] = job[v] /\ result'[v] = result[v]
  BY <1>1 DEF TypeOK
<1>5. TypeOK'
  BY <1>1, <1>2, <1>3 DEF TypeOK
<1>6. Registered' = Registered
  BY <1>1 DEF Registered
<1>7. WorkerOK(w)'
  <2>1. /\ pc'[w] = "idle" /\ result'[w] = how /\ missed'[w] = missed[w] /\ bare'[w] = bare[w]
        /\ job'[w].route = job[w].route /\ job'[w].backend = job[w].backend /\ closes' = closes
    BY <1>1, <1>2, <1>3, <1>4
  <2>2. "idle" \notin Busy \cup {"check"}
    BY DEF Busy, Connecting
  <2>3. /\ job'[w].route \notin Registered' => missed'[w]
        /\ Registered' \cap CanSearch = {} => bare'[w]
        /\ job'[w].backend \notin {"none", job'[w].route} =>
             missed'[w] /\ job'[w].backend \in CanSearch
    <3>1. /\ job[w].route \notin Registered => missed[w]
          /\ Registered \cap CanSearch = {} => bare[w]
      BY <1>1 DEF WorkerOK
    <3>2. job[w].backend \notin {"none", job[w].route} => missed[w] /\ job[w].backend \in CanSearch
      BY <1>1 DEF WorkerOK
    <3>3. job'[w].backend \notin {"none", job'[w].route} => missed'[w] /\ job'[w].backend \in CanSearch
      BY <2>1, <3>2
    <3> QED
      BY <1>6, <2>1, <3>1, <3>3
  <2>4. result'[w] = "no backend" => missed'[w] /\ bare'[w]
    BY <2>1
  <2>5. result'[w] \in {"no stub", "closed channel"} =>
          job'[w].backend \in Services /\ closes'[job'[w].backend] > 0
    BY <2>1
  <2> QED
    BY <2>1, <2>2, <2>3, <2>4, <2>5 DEF WorkerOK
<1> QED
  BY <1>1, <1>3, <1>4, <1>5, <1>7

LEMMA FoundOK ==
  ASSUME IInv, NEW w \in Workers, NEW from \in {"get", "list"}, NEW name \in Names,
         Found(w, from, name),
         name = job[w].route \/ (missed[w] /\ name \in CanSearch)
  PROVE  IInv'
<1> DEFINE new == [job[w] EXCEPT !.backend = name]
<1>1. /\ TypeOK /\ WorkerOK(w) /\ Step(w, from, "search")
      /\ job' = [job EXCEPT ![w] = new]
      /\ UNCHANGED <<backends, edits, missed, bare, channel, stub, opened, closed, closing,
                     closes, result, raced>>
  BY DEF IInv, Found, tableVars, clientVars, closeVars
<1>2. /\ new \in [route : Routes, backend : Names \cup {"none"}, stub : Nat]
      /\ new.route = job[w].route /\ new.backend = name
  BY <1>1, JobFacts
<1> HIDE DEF new
<1>3. /\ pc[w] = from /\ pc'[w] = "search" /\ pc' \in [Workers -> PCs]
      /\ \A v \in Workers \ {w} : pc'[v] = pc[v]
  BY <1>1, StepFacts DEF PCs
<1>4. job'[w] = new /\ \A v \in Workers \ {w} : job'[v] = job[v]
  BY <1>1 DEF TypeOK
<1>5. TypeOK'
  BY <1>1, <1>2, <1>3 DEF TypeOK
<1>6. Registered' = Registered
  BY <1>1 DEF Registered
<1>7. WorkerOK(w)'
  <2>1. /\ pc'[w] = "search" /\ result'[w] = "none" /\ missed'[w] = missed[w]
        /\ bare'[w] = bare[w] /\ job'[w].route = job[w].route /\ job'[w].backend = name
    BY <1>1, <1>2, <1>3, <1>4 DEF WorkerOK
  <2>2. "search" \notin Busy \cup {"check"}
    BY DEF Busy, Connecting
  <2> QED
    BY <1>1, <1>6, <2>1, <2>2 DEF WorkerOK
<1>8. \A s \in Services : ClientOK(s)'
  BY <1>1, <1>3, <1>4, OutsideClients DEF Busy, Connecting
<1> QED
  BY <1>1, <1>3, <1>4, <1>5, <1>7, <1>8, WorkerStep

(* It moves on with the same job, outside of the clients.                     *)
LEMMA MoveOK ==
  ASSUME IInv, NEW w \in Workers, NEW from \in {"get", "search"}, NEW to \in {"list", "check"},
         Step(w, from, to), UNCHANGED <<tableVars, clientVars, closeVars, job, result, raced>>,
         to = "list" => from = "get" /\ job[w].route \notin Registered,
         to = "check" => job[w].backend \in Services
  PROVE  IInv'
<1>1. /\ TypeOK /\ WorkerOK(w)
      /\ UNCHANGED <<backends, edits, missed, bare, channel, stub, opened, closed, closing,
                     closes, job, result, raced>>
  BY DEF IInv, tableVars, clientVars, closeVars
<1>2. /\ pc[w] = from /\ pc'[w] = to /\ pc' \in [Workers -> PCs]
      /\ \A v \in Workers \ {w} : pc'[v] = pc[v]
  BY <1>1, StepFacts DEF PCs
<1>3. TypeOK' /\ Registered' = Registered
  BY <1>1, <1>2 DEF TypeOK, Registered
<1>4. WorkerOK(w)'
  BY <1>1, <1>2, <1>3 DEF WorkerOK, Busy, Connecting
<1>5. \A s \in Services : ClientOK(s)'
  BY <1>1, <1>2, OutsideClients DEF Busy, Connecting
<1> QED
  BY <1>1, <1>2, <1>3, <1>4, <1>5, WorkerStep

(* The two lookups of the registry, and the call of the backend.              *)
LEMMA LookupOK ==
  ASSUME IInv, NEW w \in Workers, Get(w) \/ ListAll(w) \/ Search(w)
  PROVE  IInv'
<1>1. TypeOK /\ WorkerOK(w) /\ DOMAIN backends = 1..Len(backends)
        /\ \A k \in DOMAIN backends : backends[k] \in Names
  BY LenProperties, ElementOfSeq DEF IInv, TypeOK
<1>2. CASE Get(w)
  <2>1. \A name \in Registered : name \in Names
    BY <1>1 DEF Registered
  <2> QED
    BY <1>2, <2>1, FoundOK, MoveOK DEF Get
<1>3. ASSUME NEW from \in {"list", "search"}, NEW how \in {"asked", "no backend"},
             End(w, from, how), how = "no backend" => missed[w] /\ bare[w]
      PROVE  IInv'
  <2>1. how \in Results /\ how \notin {"no stub", "closed channel"}
    BY DEF Results
  <2>2. /\ TypeOK' /\ WorkerOK(w)' /\ pc[w] = from /\ pc'[w] = "idle"
        /\ UNCHANGED <<backends, channel, stub, opened, closed, closing, closes, raced>>
        /\ \A v \in Workers \ {w} :
             /\ pc'[v] = pc[v] /\ job'[v] = job[v] /\ result'[v] = result[v]
             /\ missed'[v] = missed[v] /\ bare'[v] = bare[v]
    BY <1>3, <2>1, EndFacts
  <2>3. \A s \in Services : ClientOK(s)'
    BY <2>2, OutsideClients DEF Busy, Connecting
  <2> QED
    BY <2>2, <2>3, WorkerStep
<1>4. CASE ListAll(w)
  <2>1. pc[w] = "list"
    BY <1>4 DEF ListAll, Found, End, Step
  <2>2. missed[w]
    BY <1>1, <2>1 DEF WorkerOK
  <2>3. CASE \E k \in DOMAIN backends : StandIn(k) /\ Found(w, "list", backends[k])
    BY <1>1, <2>2, <2>3, FoundOK DEF StandIn
  <2>4. CASE (\A k \in DOMAIN backends : ~StandIn(k)) /\ End(w, "list", "no backend")
    <3>1. Registered \cap CanSearch = {}
      BY <1>1, <2>4, StandInExists
    <3>2. bare[w]
      BY <1>1, <3>1 DEF WorkerOK
    <3> QED
      BY <1>3, <2>2, <2>4, <3>2
  <2> QED
    BY <1>4, <2>3, <2>4 DEF ListAll
<1>5. CASE Search(w)
  BY <1>3, <1>5, MoveOK DEF Search
<1> QED
  BY <1>2, <1>4, <1>5

(* ------------------------- a worker with its client ------------------------- *)

(* The types of a client's state.                                             *)
LEMMA ClientTypes ==
  ASSUME TypeOK, NEW s \in Services
  PROVE  /\ channel[s] \in Nat /\ stub[s] \in Nat /\ opened[s] \in Nat /\ closes[s] \in Nat
         /\ closed[s] \subseteq Nat /\ closing[s] \in {"no", "channel", "stub"}
         /\ raced[s] \in BOOLEAN
BY DEF TypeOK

(* A worker that stays with its client leaves the other client alone, and is  *)
(* itself in order.                                                           *)
LEMMA ClientStep ==
  ASSUME IInv, NEW w \in Workers, TypeOK', UNCHANGED <<tableVars, closeVars, result>>,
         pc[w] \in Busy \cup {"check"}, pc'[w] \in Busy,
         job'[w].route = job[w].route, job'[w].backend = job[w].backend,
         \A v \in Workers \ {w} : pc'[v] = pc[v] /\ job'[v] = job[v],
         \A s \in Services :
           /\ raced[s] => raced'[s]
           /\ s # Client(w) => /\ channel'[s] = channel[s] /\ stub'[s] = stub[s]
                               /\ opened'[s] = opened[s] /\ closed'[s] = closed[s],
         ClientOK(Client(w))'
  PROVE  IInv'
<1>1. /\ UNCHANGED <<backends, missed, bare, closing, closes, result>>
      /\ Registered' = Registered /\ TypeOK /\ WorkerOK(w)
  BY DEF IInv, tableVars, closeVars, Registered
<1>2. pc[w] # "idle" /\ pc'[w] \notin {"idle", "get", "list"}
  BY DEF Busy, Connecting
<1>3. WorkerOK(w)'
  BY <1>1, <1>2 DEF WorkerOK
<1>4. Client(w)' = Client(w)
  BY DEF Client
<1>5. ASSUME NEW s \in Services, s # Client(w) PROVE ClientOK(s)'
  <2>1. \A steps : At(s, steps)' = At(s, steps)
    BY <1>4, <1>5 DEF At, Client
  <2>2. \A v \in Workers : pc'[v] \in Busy /\ Client(v)' = s =>
          pc[v] = pc'[v] /\ Client(v) = s /\ job'[v].stub = job[v].stub
    BY <1>4, <1>5 DEF Client
  <2>3. ClientOK(s)
    BY DEF IInv
  <2> QED
    BY <1>1, <1>5, <2>1, <2>2, <2>3, ClientFrame
<1>6. \A s \in Services : ClientOK(s)'
  BY <1>4, <1>5
<1> QED
  BY <1>1, <1>3, <1>6, WorkerStep

(* How the sets of workers change when w goes from one step to another.       *)
LEMMA AtStep ==
  ASSUME TypeOK, NEW w \in Workers, NEW from, NEW to \in PCs, Step(w, from, to),
         \A v \in Workers : job'[v].backend = job[v].backend
  PROVE  \A steps : At(Client(w), steps)' =
           IF to \in steps THEN At(Client(w), steps) \cup {w} ELSE At(Client(w), steps) \ {w}
<1>1. /\ pc[w] = from /\ pc'[w] = to
      /\ \A v \in Workers \ {w} : pc'[v] = pc[v]
  BY StepFacts
<1>2. \A v \in Workers : Client(v)' = Client(v)
  BY DEF Client
<1> QED
  BY <1>1, <1>2 DEF At

LEMMA OverlapFacts ==
  ASSUME TypeOK, Overlap
  PROVE  /\ raced' \in [Services -> BOOLEAN]
         /\ \A s \in Services : /\ raced[s] => raced'[s]
                                /\ Racing(s)' => raced'[s]
                                /\ ~Racing(s)' => raced'[s] = raced[s]
BY DEF TypeOK, Overlap

LEMMA CheckStubOK ==
  ASSUME IInv, NEW w \in Workers, CheckStub(w)
  PROVE  IInv'
<1> DEFINE s == Client(w)
           to == IF stub[s] = 0 THEN "open" ELSE "read"
<1>1. /\ TypeOK /\ WorkerOK(w) /\ Step(w, "check", to) /\ Overlap
      /\ UNCHANGED <<tableVars, clientVars, closeVars, job, result>>
      /\ UNCHANGED <<channel, stub, opened, closed, closing, closes>>
  BY DEF IInv, CheckStub, clientVars, closeVars
<1>2. /\ to \in {"open", "read"} /\ to \in PCs /\ to \in Busy
      /\ stub[s] = 0 <=> to = "open"
  BY DEF PCs, Busy, Connecting
<1> HIDE DEF to
<1>3. /\ pc[w] = "check" /\ pc'[w] = to /\ pc' \in [Workers -> PCs]
      /\ \A v \in Workers \ {w} : pc'[v] = pc[v]
  BY <1>1, <1>2, StepFacts
<1>4. s \in Services
  BY <1>1, <1>3 DEF WorkerOK, Client
<1>5. /\ raced' \in [Services -> BOOLEAN]
      /\ \A x \in Services : /\ raced[x] => raced'[x]
                             /\ Racing(x)' => raced'[x]
  BY <1>1, OverlapFacts
<1>6. TypeOK'
  BY <1>1, <1>3, <1>5 DEF TypeOK, tableVars
<1>7. \A steps : At(s, steps)' = IF to \in steps THEN At(s, steps) \cup {w}
                                                 ELSE At(s, steps) \ {w}
  BY <1>1, <1>2, AtStep
<1>8. \A steps : "check" \notin steps => w \notin At(s, steps)
  BY <1>3 DEF At
<1>9. /\ At(s, {"build", "store"})' = At(s, {"build", "store"})
      /\ At(s, {"store", "call"})' = At(s, {"store", "call"})
      /\ At(s, {"store"})' = At(s, {"store"})
      /\ At(s, {"read"})' # {} => At(s, {"read"}) # {} \/ to = "read"
      /\ At(s, {"open"})' = IF to = "open" THEN At(s, {"open"}) \cup {w} ELSE At(s, {"open"})
  <2>1. /\ w \notin At(s, {"build", "store"}) /\ w \notin At(s, {"store", "call"})
        /\ w \notin At(s, {"store"}) /\ w \notin At(s, {"read"}) /\ w \notin At(s, {"open"})
    BY <1>8
  <2>2. /\ to \notin {"build", "store"} /\ to \notin {"store", "call"} /\ to \notin {"store"}
        /\ to \in {"read"} <=> to = "read"
        /\ to \in {"open"} <=> to = "open"
    BY <1>2
  <2>3. /\ At(s, {"build", "store"})' = At(s, {"build", "store"}) \ {w}
        /\ At(s, {"store", "call"})' = At(s, {"store", "call"}) \ {w}
        /\ At(s, {"store"})' = At(s, {"store"}) \ {w}
    BY <1>7, <2>2
  <2>4. At(s, {"read"})' = IF to = "read" THEN At(s, {"read"}) \cup {w}
                                          ELSE At(s, {"read"}) \ {w}
    BY <1>7, <2>2
  <2>5. At(s, {"open"})' = IF to = "open" THEN At(s, {"open"}) \cup {w}
                                          ELSE At(s, {"open"}) \ {w}
    BY <1>7, <2>2
  <2>6. \A steps : w \notin At(s, steps) => At(s, steps) \ {w} = At(s, steps)
    OBVIOUS
  <2> QED
    BY <2>1, <2>3, <2>4, <2>5, <2>6
<1>10. ASSUME closes[s] = 0 PROVE FreshOK(s)'
  <2>1. FreshOK(s)
    BY <1>4, <1>10 DEF IInv, ClientOK
  <2>2. opened[s] + Cardinality(At(s, {"open"})') <= Cardinality(Workers)
    <3>1. CASE to = "read"
      BY <1>9, <2>1, <3>1 DEF FreshOK
    <3>2. CASE to = "open"
      <4> DEFINE A == At(s, {"build", "store"})
                 B == At(s, {"open"}) \cup {w}
      <4>1. opened[s] = Cardinality(A)
        BY <1>2, <2>1, <3>2 DEF FreshOK
      <4>2. A \subseteq Workers /\ B \subseteq Workers /\ A \cap B = {}
        BY <1>3 DEF At
      <4> HIDE DEF A, B
      <4>3. IsFiniteSet(A) /\ IsFiniteSet(B) /\ IsFiniteSet(Workers) /\ A \cup B \in SUBSET Workers
        BY <4>2, SearchAssumption, FS_Subset
      <4>4. Cardinality(A \cup B) = Cardinality(A) + Cardinality(B) - Cardinality(A \cap B)
        BY <4>3, FS_Union
      <4>5. Cardinality(A \cap B) = 0
        BY <4>2, FS_EmptySet
      <4>6. Cardinality(A \cup B) <= Cardinality(Workers)
        BY <4>3, FS_Subset
      <4>7. Cardinality(A) \in Nat /\ Cardinality(B) \in Nat
        BY <4>3, FS_CardinalityType
      <4>8. At(s, {"open"})' = B
        BY <1>9, <3>2 DEF B
      <4> QED
        BY <4>1, <4>4, <4>5, <4>6, <4>7, <4>8
    <3> QED
      BY <1>2, <3>1, <3>2
  <2>3. \A v \in At(s, {"store", "call"})' : job'[v].stub # 0
    BY <1>1, <1>9, <2>1 DEF FreshOK
  <2> QED
    BY <1>1, <1>2, <1>9, <2>1, <2>2, <2>3 DEF FreshOK, Client
<1>11. ASSUME ~raced'[s] PROVE CalmOK(s)'
  BY <1>1, <1>4, <1>5, <1>9, <1>11 DEF IInv, ClientOK, CalmOK, Client
<1>12. ClientOK(s)'
  BY <1>1, <1>4, <1>5, <1>10, <1>11 DEF IInv, ClientOK, Client
<1> QED
  BY <1>1, <1>2, <1>3, <1>5, <1>6, <1>12, ClientStep

(* A worker that goes on connecting, or is done, begins no race.              *)
LEMMA RacingStep ==
  ASSUME TypeOK, NEW w \in Workers, NEW from, NEW to \in PCs, Step(w, from, to),
         from \in Connecting \/ to \notin Connecting,
         \A v \in Workers : job'[v].backend = job[v].backend, UNCHANGED closing,
         NEW s
  PROVE  Racing(s)' => Racing(s)
<1>1. /\ pc[w] = from /\ pc'[w] = to
      /\ \A v \in Workers \ {w} : pc'[v] = pc[v]
  BY StepFacts
<1>2. \A v \in Workers : pc'[v] \in Connecting => pc[v] \in Connecting
  BY <1>1
<1> QED
  BY <1>2 DEF Racing, Client

(* Someone connects: if the client is being closed, it is a race.             *)
LEMMA ConnectingFacts ==
  ASSUME IInv, NEW w \in Workers, pc[w] \in Connecting
  PROVE  /\ Client(w) \in Services /\ result[w] = "none"
         /\ raced[Client(w)] \/ closing[Client(w)] = "no"
<1>1. Client(w) \in Services /\ result[w] = "none"
  BY DEF IInv, WorkerOK, Client, Busy, Connecting
<1>2. closing[Client(w)] # "no" => Racing(Client(w))
  BY DEF Racing
<1> QED
  BY <1>1, <1>2 DEF IInv, ClientOK

LEMMA OpenChannelOK ==
  ASSUME IInv, NEW w \in Workers, OpenChannel(w)
  PROVE  IInv'
<1>0. PICK s \in Services : s = Client(w)
  <2>1. pc[w] \in Connecting
    BY DEF OpenChannel, Step, Connecting
  <2> QED
    BY <2>1, ConnectingFacts
<1>1. /\ TypeOK /\ Step(w, "open", "build")
      /\ opened' = [opened EXCEPT ![s] = @ + 1]
      /\ channel' = [channel EXCEPT ![s] = opened[s] + 1]
      /\ UNCHANGED <<stub, closed, closing, closes, job, result, raced>>
      /\ UNCHANGED <<tableVars, closeVars>>
  BY <1>0 DEF IInv, OpenChannel, closeVars
<1>2. /\ pc[w] = "open" /\ pc'[w] = "build" /\ pc' \in [Workers -> PCs]
      /\ \A v \in Workers \ {w} : pc'[v] = pc[v]
      /\ "open" \in Connecting /\ "build" \in Busy /\ "open" \in Busy /\ "build" \in PCs
  BY <1>1, StepFacts DEF PCs, Busy, Connecting
<1>3. s \in Services /\ (raced[s] \/ closing[s] = "no")
  BY <1>0, <1>2, ConnectingFacts
<1>4. /\ opened'[s] = opened[s] + 1 /\ channel'[s] = opened[s] + 1 /\ opened[s] \in Nat
      /\ \A x \in Services \ {s} : opened'[x] = opened[x] /\ channel'[x] = channel[x]
  BY <1>1, <1>3 DEF TypeOK
<1>5. opened' \in [Services -> Nat] /\ channel' \in [Services -> Nat]
  BY <1>1, <1>4 DEF TypeOK
<1>6. TypeOK'
  BY <1>1, <1>2, <1>5 DEF TypeOK, tableVars
<1>7. /\ \A steps : At(s, steps)' = IF "build" \in steps THEN At(s, steps) \cup {w}
                                                       ELSE At(s, steps) \ {w}
      /\ \A steps : w \in At(s, steps) <=> "open" \in steps
  <2>1. \A v \in Workers : job'[v].backend = job[v].backend
    BY <1>1
  <2>2. "build" \in PCs
    BY DEF PCs, Connecting
  <2>3. Client(w)' = s
    BY <1>0, <1>1 DEF Client
  <2>4. \A steps : At(s, steps)' = IF "build" \in steps THEN At(s, steps) \cup {w}
                                                       ELSE At(s, steps) \ {w}
    BY <1>0, <1>1, <2>1, <2>2, <2>3, AtStep
  <2>5. \A steps : w \in At(s, steps) <=> "open" \in steps
    BY <1>0, <1>2 DEF At
  <2> QED
    BY <2>4, <2>5
<1>8. /\ At(s, {"build", "store"})' = At(s, {"build", "store"}) \cup {w}
      /\ w \notin At(s, {"build", "store"}) /\ w \in At(s, {"open"})
      /\ At(s, {"open"})' = At(s, {"open"}) \ {w}
      /\ At(s, {"store", "call"})' = At(s, {"store", "call"})
      /\ At(s, {"store"})' = At(s, {"store"})
      /\ At(s, {"read"})' = At(s, {"read"})
  <2>1. /\ w \notin At(s, {"build", "store"}) /\ w \in At(s, {"open"})
        /\ w \notin At(s, {"store", "call"}) /\ w \notin At(s, {"store"})
        /\ w \notin At(s, {"read"})
    BY <1>7
  <2>2. /\ At(s, {"build", "store"})' = At(s, {"build", "store"}) \cup {w}
        /\ At(s, {"open"})' = At(s, {"open"}) \ {w}
    BY <1>7
  <2>3. /\ At(s, {"store", "call"})' = At(s, {"store", "call"}) \ {w}
        /\ At(s, {"store"})' = At(s, {"store"}) \ {w}
        /\ At(s, {"read"})' = At(s, {"read"}) \ {w}
    BY <1>7
  <2> QED
    BY <2>1, <2>2, <2>3
<1>9. /\ Cardinality(At(s, {"build", "store"})') = Cardinality(At(s, {"build", "store"})) + 1
      /\ Cardinality(At(s, {"open"})') = Cardinality(At(s, {"open"})) - 1
  BY <1>8, AtFacts, FS_AddElement, FS_RemoveElement
<1>10. ASSUME closes[s] = 0 PROVE FreshOK(s)'
  <2>1. FreshOK(s)
    BY <1>3, <1>10 DEF IInv, ClientOK
  <2>2. /\ stub[s] = 0 => opened'[s] = Cardinality(At(s, {"build", "store"})')
        /\ opened'[s] + Cardinality(At(s, {"open"})') <= Cardinality(Workers)
    BY <1>4, <1>9, <2>1, AtFacts DEF FreshOK
  <2>3. \A v \in At(s, {"store", "call"})' : job'[v].stub # 0
    BY <1>1, <1>8, <2>1 DEF FreshOK
  <2>4. At(s, {"read"})' # {} => stub'[s] # 0
    BY <1>1, <1>8, <2>1 DEF FreshOK
  <2>5. closed'[s] = {} /\ closing'[s] = "no" /\ channel'[s] # 0 /\ stub'[s] = stub[s]
    BY <1>1, <1>4, <2>1 DEF FreshOK
  <2> QED
    BY <2>2, <2>3, <2>4, <2>5 DEF FreshOK
<1>11. ASSUME ~raced'[s] PROVE CalmOK(s)'
  <2>1. ~raced[s] /\ closing[s] = "no" /\ CalmOK(s) /\ closed[s] \subseteq 1..opened[s]
    BY <1>1, <1>3, <1>11 DEF IInv, ClientOK
  <2>2. channel'[s] \notin closed'[s]
    BY <1>1, <1>4, <2>1
  <2>3. \A v \in At(s, {"store"})' : job'[v].stub \notin closed'[s]
    BY <1>1, <1>8, <2>1 DEF CalmOK
  <2> QED
    BY <1>1, <2>1, <2>2, <2>3 DEF CalmOK
<1>12. ClientOK(s)'
  <2>1. Racing(s)' => Racing(s)
    <3>1. \A v \in Workers : job'[v].backend = job[v].backend
      BY <1>1
    <3> QED
      BY <1>1, <1>2, <3>1, RacingStep
  <2>2. /\ Racing(s) => raced[s]
        /\ closed[s] \subseteq 1..opened[s]
    BY <1>3 DEF IInv, ClientOK
  <2>3. channel'[s] <= opened'[s] /\ closed'[s] \subseteq 1..opened'[s]
    BY <1>1, <1>4, <2>2
  <2> QED
    BY <1>1, <1>10, <1>11, <2>1, <2>2, <2>3 DEF ClientOK
<1> QED
  <2>1. ClientOK(Client(w))'
    <3>1. Client(w)' = s
      BY <1>0, <1>1 DEF Client
    <3> QED
      BY <1>12, <3>1
  <2> QED
    BY <1>0, <1>1, <1>2, <1>4, <1>6, <2>1, ClientStep

(* The same for a step that leaves _channel and what was opened alone.        *)
LEMMA MovedFacts ==
  ASSUME IInv, NEW w \in Workers, NEW s \in Services, s = Client(w),
         NEW from, NEW to \in Busy, Step(w, from, to),
         \A v \in Workers : job'[v].backend = job[v].backend
  PROVE  /\ TypeOK /\ pc[w] = from /\ pc'[w] = to /\ pc' \in [Workers -> PCs]
         /\ \A v \in Workers \ {w} : pc'[v] = pc[v]
         /\ Client(w)' = s
         /\ \A steps : At(s, steps)' = IF to \in steps THEN At(s, steps) \cup {w}
                                                       ELSE At(s, steps) \ {w}
         /\ \A steps : w \in At(s, steps) <=> from \in steps
<1>1. TypeOK /\ to \in PCs
  BY DEF IInv, Busy, PCs
<1>2. /\ pc[w] = from /\ pc'[w] = to /\ pc' \in [Workers -> PCs]
      /\ \A v \in Workers \ {w} : pc'[v] = pc[v]
  BY <1>1, StepFacts
<1>3. Client(w)' = s
  BY DEF Client
<1>4. \A steps : At(s, steps)' = IF to \in steps THEN At(s, steps) \cup {w}
                                                 ELSE At(s, steps) \ {w}
  BY <1>1, <1>3, AtStep
<1>5. \A steps : w \in At(s, steps) <=> from \in steps
  BY <1>2 DEF At
<1> QED
  BY <1>1, <1>2, <1>3, <1>4, <1>5

LEMMA Positive == \A n \in Nat : n # 0 => n > 0
OBVIOUS

(* A worker is through with its client.                                       *)
LEMMA LeaveOK ==
  ASSUME IInv, NEW w \in Workers, NEW c \in Services, c = Client(w),
         NEW from \in {"build", "call"}, NEW how \in Results,
         End(w, from, how), how # "no backend",
         pc[w] = "call" \/ closes[c] # 0, how = "asked" \/ closes[c] # 0
  PROVE  IInv'
<1>1. TypeOK /\ closes[c] \in Nat
  BY ClientTypes DEF IInv
<1>2. closes[c] # 0 => closes[c] > 0
  BY <1>1, Positive, Zenon
<1>3. /\ TypeOK' /\ WorkerOK(w)' /\ pc[w] = from /\ pc'[w] = "idle"
      /\ UNCHANGED <<backends, channel, stub, opened, closed, closing, closes, raced>>
      /\ \A v \in Workers \ {w} :
           /\ pc'[v] = pc[v] /\ job'[v] = job[v] /\ result'[v] = result[v]
           /\ missed'[v] = missed[v] /\ bare'[v] = bare[v]
  <2>1. job[w].backend = c
    BY DEF Client
  <2>2. how \in {"no stub", "closed channel"} =>
          job[w].backend \in Services /\ closes[job[w].backend] > 0
    BY <1>2, <2>1
  <2> QED
    BY <2>2, EndFacts
<1>4. ASSUME NEW s \in Services PROVE ClientOK(s)'
  <2>1. ClientOK(s)
    BY DEF IInv
  <2>2. "idle" \notin Busy
    BY DEF Busy, Connecting
  <2>3. \A v \in Workers : pc'[v] \in Busy /\ Client(v)' = s =>
          pc[v] = pc'[v] /\ Client(v) = s /\ job'[v].stub = job[v].stub
    BY <1>3, <2>2 DEF Client
  <2>4. ASSUME closes[s] = 0
        PROVE  /\ At(s, {"open"})' = At(s, {"open"})
               /\ At(s, {"build", "store"})' = At(s, {"build", "store"})
    <3>1. pc[w] = "call" \/ Client(w) # s
      BY <2>4
    <3>2. \A v \in Workers \ {w} : pc'[v] = pc[v] /\ Client(v)' = Client(v)
      BY <1>3 DEF Client
    <3>3. /\ At(s, {"open"})' = At(s, {"open"}) \ {w}
          /\ At(s, {"build", "store"})' = At(s, {"build", "store"}) \ {w}
      BY <1>3, <3>2 DEF At
    <3>4. w \notin At(s, {"open"}) /\ w \notin At(s, {"build", "store"})
      BY <3>1 DEF At
    <3> QED
      BY <3>3, <3>4
  <2> QED
    BY <1>3, <2>1, <2>3, <2>4, ClientFrame
<1> QED
  BY <1>3, <1>4, WorkerStep

LEMMA BuildStubOK ==
  ASSUME IInv, NEW w \in Workers, BuildStub(w)
  PROVE  IInv'
<1>1. pc[w] = "build" /\ pc[w] \in Connecting
  BY DEF BuildStub, Connecting
<1>2. PICK s \in Services : s = Client(w)
  BY <1>1, ConnectingFacts
<1>3. ClientOK(s) /\ closes[s] \in Nat /\ TypeOK
  BY ClientTypes DEF IInv
<1>4. CASE channel[s] = 0
  <2>1. End(w, "build", "no stub")
    BY <1>2, <1>4 DEF BuildStub
  <2>2. closes[s] # 0
    <3>1. w \in At(s, {"build", "store"})
      BY <1>1, <1>2 DEF At
    <3>2. closes[s] = 0 => FALSE
      BY <1>3, <1>4, <3>1 DEF ClientOK, FreshOK
    <3> QED
      BY <1>3, <3>2
  <2>3. "no stub" \in Results
    BY DEF Results
  <2> QED
    BY <1>2, <2>1, <2>2, <2>3, LeaveOK
<1>5. CASE channel[s] # 0
  <2> DEFINE new == [job[w] EXCEPT !.stub = channel[s]]
  <2>1. /\ Step(w, "build", "store") /\ job' = [job EXCEPT ![w] = new]
        /\ UNCHANGED <<tableVars, closeVars, result>>
        /\ UNCHANGED <<channel, stub, opened, closed, closing, closes, result, raced>>
    BY <1>2, <1>5 DEF BuildStub, clientVars, closeVars
  <2>2. /\ new \in [route : Routes, backend : Names \cup {"none"}, stub : Nat]
        /\ new.route = job[w].route /\ new.backend = job[w].backend /\ new.stub = channel[s]
    BY <1>3, JobFacts, ClientTypes
  <2> HIDE DEF new
  <2>3. /\ job'[w] = new /\ job' \in [Workers -> [route : Routes, backend : Names \cup {"none"},
                                                  stub : Nat]]
        /\ \A v \in Workers \ {w} : job'[v] = job[v]
    BY <1>3, <2>1, <2>2 DEF TypeOK
  <2>4. /\ \A v \in Workers : job'[v].backend = job[v].backend
        /\ "store" \in Busy /\ "build" \in Busy /\ "build" \in Connecting
    BY <2>2, <2>3 DEF Busy, Connecting
  <2>5. /\ pc'[w] = "store" /\ pc' \in [Workers -> PCs]
        /\ \A v \in Workers \ {w} : pc'[v] = pc[v]
        /\ Client(w)' = s
        /\ \A steps : At(s, steps)' = IF "store" \in steps THEN At(s, steps) \cup {w}
                                                           ELSE At(s, steps) \ {w}
        /\ \A steps : w \in At(s, steps) <=> "build" \in steps
    BY <1>2, <2>1, <2>4, MovedFacts
  <2>6. TypeOK'
    BY <1>3, <2>1, <2>3, <2>5 DEF TypeOK, tableVars
  <2>7. /\ At(s, {"build", "store"})' = At(s, {"build", "store"})
        /\ At(s, {"open"})' = At(s, {"open"}) /\ At(s, {"read"})' = At(s, {"read"})
    <3>1. /\ w \in At(s, {"build", "store"}) /\ w \notin At(s, {"open"})
          /\ w \notin At(s, {"read"})
      BY <2>5
    <3>2. At(s, {"build", "store"})' = At(s, {"build", "store"}) \cup {w}
      BY <2>5
    <3>3. At(s, {"open"})' = At(s, {"open"}) \ {w} /\ At(s, {"read"})' = At(s, {"read"}) \ {w}
      BY <2>5
    <3> QED
      BY <3>1, <3>2, <3>3
  <2>8. /\ At(s, {"store", "call"})' = At(s, {"store", "call"}) \cup {w}
        /\ At(s, {"store"})' = At(s, {"store"}) \cup {w}
        /\ w \notin At(s, {"store", "call"}) /\ w \notin At(s, {"store"})
    BY <2>5
  <2>9. \A v \in Workers : job'[v].stub = IF v = w THEN channel[s] ELSE job[v].stub
    BY <2>2, <2>3
  <2>10. ASSUME closes[s] = 0 PROVE FreshOK(s)'
    <3>1. FreshOK(s)
      BY <1>3, <2>10 DEF ClientOK
    <3>2. \A v \in At(s, {"store", "call"})' : job'[v].stub # 0
      BY <1>5, <2>8, <2>9, <3>1 DEF FreshOK, At
    <3> QED
      BY <2>1, <2>7, <3>1, <3>2 DEF FreshOK
  <2>11. ASSUME ~raced[s] PROVE CalmOK(s)'
    <3>1. CalmOK(s) /\ closing[s] = "no"
      BY <1>1, <1>2, <1>3, <2>11, ConnectingFacts DEF ClientOK
    <3>2. \A v \in At(s, {"store"})' : job'[v].stub \notin closed'[s]
      BY <2>1, <2>8, <2>9, <3>1 DEF CalmOK, At
    <3> QED
      BY <2>1, <3>1, <3>2 DEF CalmOK
  <2>12. ClientOK(s)'
    <3>1. Racing(s)' => Racing(s)
      <4>1. "store" \in PCs
        BY DEF PCs, Connecting
      <4> QED
        BY <1>3, <2>1, <2>4, <4>1, RacingStep
    <3> QED
      BY <1>3, <2>1, <2>10, <2>11, <3>1 DEF ClientOK
  <2>13. /\ ClientOK(Client(w))' /\ job'[w].route = job[w].route
    BY <2>2, <2>3, <2>5, <2>12
  <2> QED
    BY <1>1, <2>1, <2>3, <2>4, <2>5, <2>6, <2>13, ClientStep
<1> QED
  BY <1>4, <1>5

LEMMA StoreStubOK ==
  ASSUME IInv, NEW w \in Workers, StoreStub(w)
  PROVE  IInv'
<1>1. pc[w] = "store" /\ pc[w] \in Connecting
  BY DEF StoreStub, Step, Connecting
<1>2. PICK s \in Services : s = Client(w)
  BY <1>1, ConnectingFacts
<1>3. ClientOK(s) /\ TypeOK /\ job[w].stub \in Nat /\ (raced[s] \/ closing[s] = "no")
  BY <1>1, <1>2, JobFacts, ConnectingFacts DEF IInv
<1>4. /\ Step(w, "store", "read") /\ stub' = [stub EXCEPT ![s] = job[w].stub]
      /\ UNCHANGED <<tableVars, closeVars, result>>
      /\ UNCHANGED <<channel, opened, closed, closing, closes, job, result, raced>>
  BY <1>2 DEF StoreStub, closeVars
<1>5. /\ stub'[s] = job[w].stub /\ stub' \in [Services -> Nat]
      /\ \A x \in Services \ {s} : stub'[x] = stub[x]
  BY <1>3, <1>4 DEF TypeOK
<1>6. /\ "store" \in Busy /\ "read" \in Busy /\ "read" \in PCs /\ "store" \in Connecting
      /\ \A v \in Workers : job'[v].backend = job[v].backend
  BY <1>4 DEF Busy, Connecting, PCs
<1>7. /\ pc'[w] = "read" /\ pc' \in [Workers -> PCs]
      /\ \A v \in Workers \ {w} : pc'[v] = pc[v]
      /\ Client(w)' = s
      /\ \A steps : At(s, steps)' = IF "read" \in steps THEN At(s, steps) \cup {w}
                                                        ELSE At(s, steps) \ {w}
      /\ \A steps : w \in At(s, steps) <=> "store" \in steps
  BY <1>2, <1>4, <1>6, MovedFacts
<1>8. TypeOK'
  BY <1>3, <1>4, <1>5, <1>7 DEF TypeOK, tableVars
<1>9. /\ At(s, {"build", "store"})' \subseteq At(s, {"build", "store"})
      /\ At(s, {"store", "call"})' \subseteq At(s, {"store", "call"})
      /\ At(s, {"store"})' \subseteq At(s, {"store"})
      /\ w \in At(s, {"store", "call"}) /\ w \in At(s, {"store"})
  BY <1>7
<1>10. At(s, {"open"})' = At(s, {"open"})
  <2>1. w \notin At(s, {"open"})
    BY <1>7
  <2>2. At(s, {"open"})' = At(s, {"open"}) \ {w}
    BY <1>7
  <2> QED
    BY <2>1, <2>2
<1>11. ASSUME closes[s] = 0 PROVE FreshOK(s)'
  <2>1. FreshOK(s)
    BY <1>3, <1>11 DEF ClientOK
  <2>2. stub'[s] # 0
    BY <1>5, <1>9, <2>1 DEF FreshOK
  <2>3. \A v \in At(s, {"store", "call"})' : job'[v].stub # 0
    BY <1>4, <1>9, <2>1 DEF FreshOK
  <2>4. At(s, {"build", "store"})' # {} => channel'[s] # 0
    BY <1>4, <1>9, <2>1 DEF FreshOK
  <2> QED
    BY <1>4, <1>10, <2>1, <2>2, <2>3, <2>4 DEF FreshOK
<1>12. ASSUME ~raced[s] PROVE CalmOK(s)'
  <2>1. CalmOK(s) /\ closing[s] = "no"
    BY <1>3, <1>12 DEF ClientOK
  <2>2. stub'[s] \notin closed'[s]
    BY <1>4, <1>5, <1>9, <2>1 DEF CalmOK
  <2>3. \A v \in At(s, {"store"})' : job'[v].stub \notin closed'[s]
    BY <1>4, <1>9, <2>1 DEF CalmOK
  <2> QED
    BY <1>4, <2>1, <2>2, <2>3 DEF CalmOK
<1>13. ClientOK(s)'
  <2>1. Racing(s)' => Racing(s)
    BY <1>3, <1>4, <1>6, RacingStep
  <2> QED
    BY <1>3, <1>4, <1>11, <1>12, <2>1 DEF ClientOK
<1> QED
  <2>1. ClientOK(Client(w))'
    BY <1>7, <1>13
  <2> QED
    BY <1>1, <1>2, <1>4, <1>5, <1>6, <1>7, <1>8, <2>1, ClientStep

LEMMA ReadStubOK ==
  ASSUME IInv, NEW w \in Workers, ReadStub(w)
  PROVE  IInv'
<1>1. pc[w] = "read" /\ TypeOK
  BY DEF ReadStub, Step, IInv
<1>2. PICK s \in Services : s = Client(w)
  BY <1>1 DEF IInv, WorkerOK, Client, Busy
<1>3. ClientOK(s)
  BY DEF IInv
<1> DEFINE new == [job[w] EXCEPT !.stub = stub[s]]
<1>4. /\ Step(w, "read", "call") /\ job' = [job EXCEPT ![w] = new]
      /\ UNCHANGED <<tableVars, closeVars, result>>
      /\ UNCHANGED <<channel, stub, opened, closed, closing, closes, result, raced>>
  BY <1>2 DEF ReadStub, clientVars, closeVars
<1>5. /\ new \in [route : Routes, backend : Names \cup {"none"}, stub : Nat]
      /\ new.route = job[w].route /\ new.backend = job[w].backend /\ new.stub = stub[s]
  BY <1>1, JobFacts, ClientTypes
<1> HIDE DEF new
<1>6. /\ job'[w] = new /\ job' \in [Workers -> [route : Routes, backend : Names \cup {"none"},
                                                stub : Nat]]
      /\ \A v \in Workers \ {w} : job'[v] = job[v]
  BY <1>1, <1>4, <1>5 DEF TypeOK
<1>7. /\ \A v \in Workers : job'[v].backend = job[v].backend
      /\ \A v \in Workers : job'[v].stub = IF v = w THEN stub[s] ELSE job[v].stub
      /\ "read" \in Busy /\ "call" \in Busy /\ "call" \in PCs /\ "call" \notin Connecting
  BY <1>5, <1>6 DEF Busy, PCs, Connecting
<1>8. /\ pc'[w] = "call" /\ pc' \in [Workers -> PCs]
      /\ \A v \in Workers \ {w} : pc'[v] = pc[v]
      /\ Client(w)' = s
      /\ \A steps : At(s, steps)' = IF "call" \in steps THEN At(s, steps) \cup {w}
                                                        ELSE At(s, steps) \ {w}
      /\ \A steps : w \in At(s, steps) <=> "read" \in steps
  BY <1>2, <1>4, <1>7, MovedFacts
<1>9. TypeOK'
  BY <1>1, <1>4, <1>6, <1>8 DEF TypeOK, tableVars
<1>10. /\ At(s, {"build", "store"})' = At(s, {"build", "store"})
       /\ At(s, {"open"})' = At(s, {"open"}) /\ At(s, {"store"})' = At(s, {"store"})
  <2>1. /\ w \notin At(s, {"build", "store"}) /\ w \notin At(s, {"open"})
        /\ w \notin At(s, {"store"})
    BY <1>8
  <2>2. At(s, {"build", "store"})' = At(s, {"build", "store"}) \ {w}
    BY <1>8
  <2>3. /\ At(s, {"open"})' = At(s, {"open"}) \ {w}
        /\ At(s, {"store"})' = At(s, {"store"}) \ {w}
    BY <1>8
  <2> QED
    BY <2>1, <2>2, <2>3
<1>11. /\ At(s, {"store", "call"})' = At(s, {"store", "call"}) \cup {w}
       /\ At(s, {"read"})' \subseteq At(s, {"read"}) /\ w \in At(s, {"read"})
       /\ w \notin At(s, {"store"}) /\ \A v \in At(s, {"store", "call"})' : v \in Workers
  <2>1. At(s, {"store", "call"}) \subseteq Workers
    BY DEF At
  <2> QED
    BY <1>8, <2>1
<1>12. ASSUME closes[s] = 0 PROVE FreshOK(s)'
  <2>1. FreshOK(s)
    BY <1>3, <1>12 DEF ClientOK
  <2>2. stub[s] # 0
    BY <1>11, <2>1 DEF FreshOK
  <2>3. \A v \in At(s, {"store", "call"})' : job'[v].stub # 0
    BY <1>7, <1>11, <2>1, <2>2 DEF FreshOK
  <2> QED
    BY <1>4, <1>10, <2>1, <2>2, <2>3 DEF FreshOK
<1>13. ASSUME ~raced[s] PROVE CalmOK(s)'
  <2>1. CalmOK(s)
    BY <1>3, <1>13 DEF ClientOK
  <2>2. \A v \in At(s, {"store"}) : job'[v].stub = job[v].stub
    BY <1>7, <1>11 DEF At
  <2> QED
    BY <1>4, <1>10, <2>1, <2>2 DEF CalmOK
<1>14. ClientOK(s)'
  <2>1. Racing(s)' => Racing(s)
    BY <1>1, <1>4, <1>7, RacingStep
  <2> QED
    BY <1>3, <1>4, <1>12, <1>13, <2>1 DEF ClientOK
<1> QED
  <2>1. ClientOK(Client(w))' /\ job'[w].route = job[w].route
    BY <1>5, <1>6, <1>8, <1>14
  <2> QED
    BY <1>1, <1>4, <1>6, <1>7, <1>8, <1>9, <2>1, ClientStep

LEMMA CallOK ==
  ASSUME IInv, NEW w \in Workers, Call(w)
  PROVE  IInv'
<1>1. pc[w] = "call"
  BY DEF Call
<1>2. PICK s \in Services : s = Client(w)
  BY <1>1 DEF IInv, WorkerOK, Client, Busy
<1>3. ASSUME closes[s] = 0 PROVE job[w].stub # 0 /\ job[w].stub \notin closed[s]
  <2>1. w \in At(s, {"store", "call"})
    BY <1>1, <1>2 DEF At
  <2>2. FreshOK(s)
    BY <1>3 DEF IInv, ClientOK
  <2> QED
    BY <2>1, <2>2 DEF FreshOK
<1>4. /\ "asked" \in Results /\ "no stub" \in Results /\ "closed channel" \in Results
  BY DEF Results
<1>5. \/ End(w, "call", "asked")
      \/ End(w, "call", "no stub") /\ closes[s] # 0
      \/ End(w, "call", "closed channel") /\ closes[s] # 0
  BY <1>2, <1>3 DEF Call
<1> QED
  BY <1>1, <1>2, <1>4, <1>5, LeaveOK

(* ----------------------------------- close() -------------------------------- *)

(* A step of close() leaves the workers and the other client alone.           *)
LEMMA CloseStep ==
  ASSUME IInv, NEW s \in Services, TypeOK',
         UNCHANGED <<backends, missed, bare, pc, job, result>>,
         closes'[s] = closes[s] \/ closes'[s] = closes[s] + 1,
         \A x \in Services \ {s} :
           /\ channel'[x] = channel[x] /\ stub'[x] = stub[x] /\ opened'[x] = opened[x]
           /\ closed'[x] = closed[x] /\ closing'[x] = closing[x] /\ closes'[x] = closes[x],
         \A x \in Services : raced[x] => raced'[x],
         ClientOK(s)'
  PROVE  IInv'
<1>1. ASSUME NEW w \in Workers PROVE WorkerOK(w)'
  <2>1. \A x \in Services : closes'[x] = closes[x] \/ closes'[x] = closes[x] + 1
    OBVIOUS
  <2> QED
    BY <2>1, WorkerFrame DEF IInv
<1>2. ASSUME NEW x \in Services \ {s} PROVE ClientOK(x)'
  <2>1. \A steps : At(x, steps)' = At(x, steps)
    BY DEF At, Client
  <2>2. \A v \in Workers : pc'[v] \in Busy /\ Client(v)' = x =>
          pc[v] = pc'[v] /\ Client(v) = x /\ job'[v].stub = job[v].stub
    BY DEF Client
  <2>3. ClientOK(x)
    BY DEF IInv
  <2> QED
    BY <2>1, <2>2, <2>3, ClientFrame
<1> QED
  BY <1>1, <1>2 DEF IInv

LEMMA CloseChannelOK ==
  ASSUME IInv, NEW s \in Services, CloseChannel(s)
  PROVE  IInv'
<1>1. TypeOK /\ ClientOK(s)
  BY DEF IInv
<1>2. /\ closes' = [closes EXCEPT ![s] = @ + 1] /\ channel[s] # 0
      /\ closing' = [closing EXCEPT ![s] = "channel"]
      /\ closed' = [closed EXCEPT ![s] = @ \cup {channel[s]}]
      /\ UNCHANGED <<backends, edits, missed, bare, channel, stub, opened, pc, job, result>>
      /\ Overlap
  BY DEF CloseChannel, tableVars
<1>3. /\ closes'[s] = closes[s] + 1 /\ closing'[s] = "channel"
      /\ closed'[s] = closed[s] \cup {channel[s]} /\ closes[s] \in Nat
      /\ channel[s] \in Nat /\ opened[s] \in Nat
      /\ \A x \in Services \ {s} : /\ closed'[x] = closed[x] /\ closing'[x] = closing[x]
                                   /\ closes'[x] = closes[x]
  BY <1>1, <1>2 DEF TypeOK
<1>4. /\ raced' \in [Services -> BOOLEAN]
      /\ \A x \in Services : /\ raced[x] => raced'[x]
                             /\ Racing(x)' => raced'[x]
  BY <1>1, <1>2, OverlapFacts
<1>5. TypeOK'
  <2>1. closes' \in [Services -> Nat]
    BY <1>1, <1>2 DEF TypeOK
  <2>2. closing' \in [Services -> {"no", "channel", "stub"}]
    BY <1>1, <1>2 DEF TypeOK
  <2>3. closed' \in [Services -> SUBSET Nat]
    BY <1>1, <1>2, <1>3 DEF TypeOK
  <2> QED
    BY <1>1, <1>2, <1>4, <2>1, <2>2, <2>3 DEF TypeOK
<1>6. ClientOK(s)'
  <2>1. channel[s] <= opened[s] /\ closed[s] \subseteq 1..opened[s]
    BY <1>1 DEF ClientOK
  <2>2. closed'[s] \subseteq 1..opened'[s]
    BY <1>2, <1>3, <2>1
  <2>3. closes'[s] # 0
    BY <1>3
  <2>4. CalmOK(s)'
    BY <1>3 DEF CalmOK
  <2> QED
    BY <1>2, <1>4, <2>1, <2>2, <2>3, <2>4 DEF ClientOK
<1> QED
  BY <1>2, <1>3, <1>4, <1>5, <1>6, CloseStep

(* Who is closing was not the first to touch the client.                      *)
LEMMA ClosingFacts ==
  ASSUME IInv, NEW s \in Services, closing[s] # "no"
  PROVE  closes[s] # 0
BY DEF IInv, ClientOK, FreshOK

LEMMA ForgetChannelOK ==
  ASSUME IInv, NEW s \in Services, ForgetChannel(s)
  PROVE  IInv'
<1>1. TypeOK /\ ClientOK(s) /\ closing[s] = "channel" /\ closes[s] # 0
  BY ClosingFacts DEF IInv, ForgetChannel
<1>2. /\ closing' = [closing EXCEPT ![s] = "stub"] /\ channel' = [channel EXCEPT ![s] = 0]
      /\ UNCHANGED <<backends, edits, missed, bare, stub, opened, closed, closes, pc, job,
                     result, raced>>
  BY DEF ForgetChannel, tableVars
<1>3. /\ closing'[s] = "stub" /\ channel'[s] = 0 /\ opened[s] \in Nat
      /\ \A x \in Services \ {s} : closing'[x] = closing[x] /\ channel'[x] = channel[x]
  BY <1>1, <1>2 DEF TypeOK
<1>4. TypeOK'
  <2>1. closing' \in [Services -> {"no", "channel", "stub"}]
    BY <1>1, <1>2 DEF TypeOK
  <2>2. channel' \in [Services -> Nat]
    BY <1>1, <1>2 DEF TypeOK
  <2> QED
    BY <1>1, <1>2, <2>1, <2>2 DEF TypeOK
<1>5. ClientOK(s)'
  <2>1. Racing(s)' => Racing(s)
    BY <1>1, <1>2 DEF Racing, Client
  <2>2. channel'[s] <= opened'[s]
    BY <1>2, <1>3
  <2>3. CalmOK(s)'
    BY <1>3 DEF CalmOK
  <2> QED
    BY <1>1, <1>2, <2>1, <2>2, <2>3 DEF ClientOK
<1> QED
  BY <1>2, <1>3, <1>4, <1>5, CloseStep

LEMMA ForgetStubOK ==
  ASSUME IInv, NEW s \in Services, ForgetStub(s)
  PROVE  IInv'
<1>1. TypeOK /\ ClientOK(s) /\ closing[s] = "stub" /\ closes[s] # 0
  BY ClosingFacts DEF IInv, ForgetStub
<1>2. /\ closing' = [closing EXCEPT ![s] = "no"] /\ stub' = [stub EXCEPT ![s] = 0]
      /\ UNCHANGED <<backends, edits, missed, bare, channel, opened, closed, closes, pc, job,
                     result, raced>>
  BY DEF ForgetStub, tableVars
<1>3. /\ closing'[s] = "no" /\ stub'[s] = 0 /\ opened[s] \in Nat
      /\ \A x \in Services \ {s} : closing'[x] = closing[x] /\ stub'[x] = stub[x]
  BY <1>1, <1>2 DEF TypeOK
<1>4. TypeOK'
  <2>1. closing' \in [Services -> {"no", "channel", "stub"}]
    BY <1>1, <1>2 DEF TypeOK
  <2>2. stub' \in [Services -> Nat]
    BY <1>1, <1>2 DEF TypeOK
  <2> QED
    BY <1>1, <1>2, <2>1, <2>2 DEF TypeOK
<1>5. ClientOK(s)'
  <2>1. ~Racing(s)'
    BY <1>3 DEF Racing
  <2>2. ASSUME ~raced[s] PROVE CalmOK(s)'
    <3>1. CalmOK(s) /\ ~Racing(s) /\ closed[s] \subseteq 1..opened[s]
      BY <1>1, <2>2 DEF ClientOK
    <3>2. 0 \notin closed[s]
      BY <1>3, <3>1
    <3>3. channel[s] = 0
      BY <1>1, <3>1 DEF CalmOK
    <3>4. At(s, {"store"})' = {}
      <4>1. \A w \in Workers : ~(pc[w] \in Connecting /\ Client(w) = s)
        BY <1>1, <3>1 DEF Racing
      <4> QED
        BY <1>2, <4>1 DEF At, Connecting, Client
    <3>5. channel'[s] \notin closed'[s] /\ stub'[s] \notin closed'[s]
      BY <1>2, <1>3, <3>2, <3>3
    <3> QED
      BY <1>3, <3>4, <3>5 DEF CalmOK
  <2> QED
    BY <1>1, <1>2, <2>1, <2>2 DEF ClientOK
<1> QED
  BY <1>2, <1>3, <1>4, <1>5, CloseStep

(* ------------------------------ every step, and so on ----------------------- *)

LEMMA StutterOK ==
  ASSUME IInv, UNCHANGED vars
  PROVE  IInv'
<1>1. UNCHANGED <<backends, edits, missed, bare, channel, stub, opened, closed, closing,
                  closes, pc, job, result, raced>>
  BY DEF vars, tableVars, clientVars, closeVars
<1>2. TypeOK' = TypeOK /\ Registered' = Registered
  BY <1>1 DEF TypeOK, Registered
<1>3. \A w \in Workers : WorkerOK(w)' = WorkerOK(w)
  BY <1>1, <1>2 DEF WorkerOK
<1>4. ASSUME NEW s \in Services PROVE ClientOK(s)' = ClientOK(s)
  <2>1. (\A steps : At(s, steps)' = At(s, steps)) /\ Racing(s)' = Racing(s)
    BY <1>1 DEF At, Client, Racing
  <2>2. FreshOK(s)' = FreshOK(s) /\ CalmOK(s)' = CalmOK(s)
    BY <1>1, <2>1 DEF FreshOK, CalmOK
  <2> QED
    BY <1>1, <2>1, <2>2 DEF ClientOK
<1> QED
  BY <1>2, <1>3, <1>4 DEF IInv

LEMMA NextOK ==
  ASSUME IInv, [Next]_vars
  PROVE  IInv'
<1>1. CASE \E name \in Names : Register(name) \/ Unregister(name)
  BY <1>1, TableOK
<1>2. ASSUME NEW w \in Workers, Work(w) PROVE IInv'
  BY <1>2, LookupOK, CheckStubOK, OpenChannelOK, BuildStubOK, StoreStubOK, ReadStubOK, CallOK
     DEF Work
<1>3. CASE \E w \in Workers, planned \in {"rag_retrieval", "direct_llm"},
              cues \in SUBSET {"memory", "definition"}, open \in BOOLEAN :
             Take(w, planned, cues, open)
  BY <1>3, TakeOK
<1>4. ASSUME NEW s \in Services, CloseChannel(s) \/ ForgetChannel(s) \/ ForgetStub(s)
      PROVE  IInv'
  BY <1>4, CloseChannelOK, ForgetChannelOK, ForgetStubOK
<1>5. CASE UNCHANGED vars
  BY <1>5, StutterOK
<1> QED
  BY <1>1, <1>2, <1>3, <1>4, <1>5 DEF Next

LEMMA Invariance == Spec => []IInv
<1>1. Init => IInv
  BY InitOK
<1>2. IInv /\ [Next]_vars => IInv'
  BY NextOK
<1> QED
  BY <1>1, <1>2, PTL DEF Spec

(* Every variable keeps its type: in particular a route always names one of   *)
(* the three built-in backends (execution_router.py:37-61).                   *)
THEOREM TypeCorrect == Spec => []TypeOK
<1>1. IInv => TypeOK
  BY DEF IInv
<1> QED
  BY <1>1, Invariance, PTL

(* A sub-query is answered by the backend of its route, or by one that can    *)
(* search after the route's was missing; without any only after both were     *)
(* missing (dag_executor.py:182-193), however backends come and go.           *)
THEOREM RoutesAreKept == Spec => []RouteIsKept
<1>1. IInv => RouteIsKept
  BY DEF IInv, WorkerOK, RouteIsKept
<1> QED
  BY <1>1, Invariance, PTL

(* However many workers connect to a service at once, no call meets a missing *)
(* stub or a closed channel unless close() was called, and a close that       *)
(* overlaps no connection leaves no stub on a closed channel                  *)
(* (retrieval_client.py:18-29, 57-62).                                        *)
THEOREM StubsUsable == Spec => []StubsStayUsable
<1>1. ASSUME IInv PROVE StubsStayUsable
  <2>1. ASSUME NEW w \in Workers, result[w] \in {"no stub", "closed channel"}
        PROVE  closes[Client(w)] > 0
    BY <1>1, <2>1 DEF IInv, WorkerOK, Client
  <2>2. ASSUME NEW s \in Services, closing[s] = "no", ~raced[s], stub[s] # 0
        PROVE  stub[s] \notin closed[s]
    BY <1>1, <2>2 DEF IInv, ClientOK, CalmOK
  <2> QED
    BY <2>1, <2>2 DEF StubsStayUsable
<1> QED
  BY <1>1, Invariance, PTL

(* The race of the first calls opens at most one channel per worker, however  *)
(* many workers there are (retrieval_client.py:20-23).                        *)
THEOREM ChannelsAreBounded == Spec => []ChannelsBounded
<1>1. ASSUME IInv, NEW s \in Services, closes[s] = 0
      PROVE  opened[s] <= Cardinality(Workers)
  <2>1. FreshOK(s) /\ opened[s] \in Nat
    BY <1>1, ClientTypes DEF IInv, ClientOK
  <2>2. Cardinality(At(s, {"open"})) \in Nat /\ Cardinality(Workers) \in Nat
    BY AtFacts
  <2> QED
    BY <2>1, <2>2 DEF FreshOK
<1>2. IInv => ChannelsBounded
  BY <1>1 DEF ChannelsBounded
<1> QED
  BY <1>2, Invariance, PTL
===============================================================================
