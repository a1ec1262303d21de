------------------------- MODULE BackendRegistryProofs ------------------------
(* Proofs about BackendRegistry, for every set of threads and names, every    *)
(* lifetime of the verdicts and any number of backends.                       *)
EXTENDS BackendRegistry, SequenceTheorems, TLAPS

(* ------------------------------ the inductive invariant --------------------- *)

(* Entries of the dictionary differ in their names and in their objects, which*)
(* have not gone.                                                             *)
TableInv ==
  /\ \A j, k \in DOMAIN table : table[j].name = table[k].name => j = k
  /\ \A j, k \in DOMAIN table : table[j].backend = table[k].backend => j = k
  /\ \A b \in Objects : gone[b] <= now

(* Object b was registered at time t, or later.                               *)
SeenAt(b, t) == b \in Objects /\ (Present(b) \/ gone[b] >= t)

(* What is known of a thread at each point of is_healthy.                     *)
JobOK(h) ==
  /\ Asking(h) \/ pc[h] = "unregistering" => job[h].name \in Names
  /\ job[h].start <= now
  /\ pc[h] = "read" => job[h].name \in DOMAIN verdicts \/ job[h].removed
  /\ pc[h] = "probe" =>
       /\ SeenAt(job[h].backend, job[h].start)
       /\ job[h].name \in Registered \/ job[h].removed

(* What it was told.                                                          *)
ToldOK(h) ==
  /\ told[h].start <= now
  /\ told[h].kind = "verdict" =>
       /\ told[h].backend \in Objects
       /\ Present(told[h].backend) \/ gone[told[h].backend] > told[h].start - HealthTTL
  /\ told[h].kind = "KeyError" => told[h].removed

(* Where it is in its walk.                                                   *)
ScanOK(h) ==
  /\ pc[h] \in {"idle", "unregistering"} => ~scan[h].on
  /\ pc[h] = "scan" => scan[h].on
  /\ scan[h].on /\ ~scan[h].touched =>
       /\ scan[h].size = Len(table)
       /\ Len(scan[h].reported) <= Len(table)
       /\ \A k \in DOMAIN scan[h].reported : scan[h].reported[k] = table[k].name
       /\ Asking(h) => /\ Len(scan[h].reported) < Len(table)
                       /\ job[h].name = table[Len(scan[h].reported) + 1].name

ThreadOK(h) == JobOK(h) /\ ToldOK(h) /\ ScanOK(h)

VerdictInv ==
  \A n \in DOMAIN verdicts : SeenAt(verdicts[n].backend, verdicts[n].at)

IInv ==
  /\ TypeOK
  /\ TableInv
  /\ VerdictInv
  /\ NoVerdictLeftBehind
  /\ \A h \in Threads : ThreadOK(h)

(* ------------------------------------ lemmas -------------------------------- *)

(* The dictionary as a sequence of entries.                                   *)
LEMMA TableFacts ==
  ASSUME table \in Seq(Entry)
  PROVE  /\ Len(table) \in Nat /\ DOMAIN table = 1..Len(table)
         /\ \A k \in DOMAIN table : /\ table[k] \in Entry
                                    /\ table[k].name \in Names /\ table[k].backend \in Nat
<1>1. Len(table) \in Nat /\ DOMAIN table = 1..Len(table)
  BY LenProperties
<1>2. \A k \in DOMAIN table : table[k] \in Entry
  BY <1>1, ElementOfSeq
<1>3. \A x \in Entry : x.name \in Names /\ x.backend \in Nat
  BY DEF Entry
<1> QED
  BY <1>1, <1>2, <1>3

(* The objects are numbered.                                                  *)
LEMMA ObjectFacts ==
  ASSUME gone \in Seq(Nat)
  PROVE  /\ Len(gone) \in Nat /\ Objects = 1..Len(gone)
         /\ \A b \in Objects : gone[b] \in Nat /\ b \in Nat
<1>1. Len(gone) \in Nat /\ DOMAIN gone = 1..Len(gone)
  BY LenProperties
<1> QED
  BY <1>1, ElementOfSeq DEF Objects

(* The backend of a name that is registered.                                  *)
LEMMA BackendOfName ==
  ASSUME NEW k \in DOMAIN table, TableInv
  PROVE  BackendOf(table[k].name) = table[k].backend
<1> DEFINE E == {table[j] : j \in DOMAIN table}
           e == CHOOSE x \in E : x.name = table[k].name
<1>1. e \in E /\ e.name = table[k].name
  BY table[k] \in E
<1>2. PICK j \in DOMAIN table : e = table[j]
  BY <1>1
<1>3. j = k
  BY <1>1, <1>2 DEF TableInv
<1> QED
  BY <1>2, <1>3 DEF BackendOf

LEMMA RegisteredName ==
  ASSUME NEW name \in Registered
  PROVE  \E k \in DOMAIN table : table[k].name = name
BY DEF Registered

(* A thread of which nothing changes stays in order while the backends and the*)
(* clock stand still and no verdict goes.                                     *)
LEMMA OthersStay ==
  ASSUME NEW g \in Threads, ThreadOK(g), UNCHANGED <<table, gone, now>>,
         DOMAIN verdicts \subseteq DOMAIN verdicts',
         pc'[g] = pc[g], job'[g] = job[g], scan'[g] = scan[g], told'[g] = told[g]
  PROVE  ThreadOK(g)'
BY DEF ThreadOK, JobOK, ToldOK, ScanOK, SeenAt, Present, Registered, Objects, Asking

(* A step of one thread that leaves the backends alone.  At most one verdict  *)
(* is new.                                                                    *)
LEMMA LocalStep ==
  ASSUME IInv, NEW h \in Threads, UNCHANGED <<table, gone, now>>, TypeOK',
         \A g \in Threads \ {h} :
           /\ pc'[g] = pc[g] /\ job'[g] = job[g]
           /\ scan'[g] = scan[g] /\ told'[g] = told[g],
         pc[h] # "unregistering", pc'[h] # "unregistering",
         DOMAIN verdicts \subseteq DOMAIN verdicts',
         \A n \in DOMAIN verdicts' :
           \/ n \in DOMAIN verdicts /\ verdicts'[n] = verdicts[n]
           \/ /\ SeenAt(verdicts'[n].backend, verdicts'[n].at)
              /\ n \in Registered \/ verdicts'[n].late,
         ThreadOK(h)'
  PROVE  IInv'
<1>1. \A g \in Threads : ThreadOK(g)'
  BY OthersStay DEF IInv
<1>2. TableInv'
  BY DEF IInv, TableInv, Objects
<1>3. VerdictInv'
  BY DEF IInv, VerdictInv, SeenAt, Present, Objects
<1>4. \A n : BeingRemoved(n) => BeingRemoved(n)'
  BY DEF BeingRemoved
<1>5. NoVerdictLeftBehind'
  BY <1>4 DEF IInv, NoVerdictLeftBehind, Registered
<1> QED
  BY <1>1, <1>2, <1>3, <1>5 DEF IInv

(* ------------------------------------ steps --------------------------------- *)

LEMMA InitOK == Init => IInv
<1> SUFFICES ASSUME Init PROVE IInv
  OBVIOUS
<1>1. <<>> \in Seq(Entry) /\ <<>> \in Seq(Nat) /\ <<>> \in Seq(Names) /\ DOMAIN <<>> = {}
  OBVIOUS
<1>2. NoJob \in Job /\ Nothing \in Told /\ NoWalk \in Walk
  BY DEF NoJob, Nothing, NoWalk, Job, Told, Walk
<1>3. TypeOK
  BY <1>1, <1>2 DEF Init, TypeOK, PCs
<1>4. TableInv /\ VerdictInv /\ NoVerdictLeftBehind
  BY <1>1 DEF Init, TableInv, VerdictInv, NoVerdictLeftBehind, Objects
<1>5. ASSUME NEW h \in Threads PROVE ThreadOK(h)
  <2>1. pc[h] = "idle" /\ job[h] = NoJob /\ scan[h] = NoWalk /\ told[h] = Nothing /\ now = 0
    BY DEF Init
  <2> QED
    BY <2>1 DEF ThreadOK, JobOK, ToldOK, ScanOK, Asking, NoJob, NoWalk, Nothing
<1> QED
  BY <1>3, <1>4, <1>5 DEF IInv

(* Inquire leaves a thread at the start of is_healthy.                        *)
LEMMA InquireOK ==
  ASSUME IInv, NEW h \in Threads, NEW name \in Names, Inquire(h, name),
         UNCHANGED <<table, verdicts, gone, scan, now>>, pc[h] # "unregistering",
         scan[h].on /\ ~scan[h].touched =>
           /\ Len(scan[h].reported) < Len(table)
           /\ name = table[Len(scan[h].reported) + 1].name
  PROVE  IInv'
<1> DEFINE new == [name |-> name, start |-> now, backend |-> 0, removed |-> BeingRemoved(name)]
<1>1. pc' = [pc EXCEPT ![h] = "check"] /\ job' = [job EXCEPT ![h] = new]
        /\ told' = [told EXCEPT ![h] = Nothing]
  BY DEF Inquire
<1>2. new \in Job /\ Nothing \in Told
  BY DEF Job, Told, Nothing, IInv, TypeOK, BeingRemoved
<1>3. TypeOK'
  BY <1>1, <1>2 DEF IInv, TypeOK, PCs, Objects
<1>4. pc'[h] = "check" /\ job'[h] = new /\ told'[h] = Nothing /\ scan'[h] = scan[h]
  BY <1>1 DEF IInv, TypeOK
<1>5. now \in Nat /\ ThreadOK(h)
  BY DEF IInv, TypeOK
<1>6. JobOK(h)' /\ ToldOK(h)'
  BY <1>4, <1>5 DEF JobOK, ToldOK, Asking, Nothing
<1>7. ScanOK(h)'
  BY <1>4, <1>5 DEF ThreadOK, ScanOK, Asking
<1>8. \A g \in Threads \ {h} :
        pc'[g] = pc[g] /\ job'[g] = job[g] /\ scan'[g] = scan[g] /\ told'[g] = told[g]
  BY <1>1 DEF IInv, TypeOK
<1> QED
  BY <1>3, <1>4, <1>6, <1>7, <1>8, LocalStep DEF ThreadOK

(* What may become of the verdicts in a step of one thread.                   *)
VerdictsGrow ==
  /\ DOMAIN verdicts \subseteq DOMAIN verdicts' /\ DOMAIN verdicts' \subseteq Names
  /\ \A n \in DOMAIN verdicts' :
       \/ n \in DOMAIN verdicts /\ verdicts'[n] = verdicts[n]
       \/ /\ verdicts'[n] \in Verdict /\ verdicts'[n].at <= now
          /\ SeenAt(verdicts'[n].backend, verdicts'[n].at)
          /\ n \in Registered \/ verdicts'[n].late

(* is_healthy returns what it may.                                            *)
LEMMA ReturnOK ==
  ASSUME IInv, NEW h \in Threads, NEW kind \in {"verdict", "absent"},
         NEW start \in Nat, NEW b \in Nat, start <= now,
         kind = "verdict" =>
           b \in Objects /\ (Present(b) \/ gone[b] > start - HealthTTL),
         Return(h, kind, start, b), Asking(h),
         VerdictsGrow, UNCHANGED <<table, gone, now>>
  PROVE  IInv'
<1> DEFINE new == [kind |-> kind, start |-> start, backend |-> b, removed |-> FALSE]
           name == job[h].name
<1>1. /\ told' = [told EXCEPT ![h] = new]
      /\ job' = [job EXCEPT ![h] = NoJob]
  BY DEF Return
<1>2. new \in Told /\ NoJob \in Job
  BY DEF Told, Job, NoJob
<1>3. TypeOK /\ ThreadOK(h) /\ scan[h] \in Walk
  BY DEF IInv, TypeOK
<1>4. name \in Names /\ scan[h].reported \in Seq(Names)
  BY <1>3 DEF ThreadOK, JobOK, Walk
<1>5. PICK q \in {"idle", "scan"}, w \in Walk :
        /\ pc' = [pc EXCEPT ![h] = q] /\ scan' = [scan EXCEPT ![h] = w]
        /\ q = "idle" => w = scan[h] /\ ~scan[h].on
        /\ q = "scan" => /\ w = [scan[h] EXCEPT !.reported = Append(@, name)]
                         /\ scan[h].on
  <2>1. CASE scan[h].on
    <3> DEFINE r == Append(scan[h].reported, name)
    <3>0. r \in Seq(Names)
      BY <1>4, AppendProperties
    <3>1. [scan[h] EXCEPT !.reported = r] \in Walk
      <4> HIDE DEF r
      <4> QED
        BY <1>3, <3>0 DEF Walk
    <3> QED
      BY <2>1, <3>1 DEF Return
  <2>2. CASE ~scan[h].on
    BY <1>3, <2>2 DEF Return, TypeOK
  <2> QED
    BY <2>1, <2>2
<1>6. TypeOK'
  <2>1. \A n \in DOMAIN verdicts' : verdicts'[n] \in Verdict /\ verdicts'[n].at <= now
    BY <1>3 DEF VerdictsGrow, TypeOK
  <2> QED
    BY <1>1, <1>2, <1>3, <1>5, <2>1 DEF TypeOK, PCs, Objects, VerdictsGrow
<1>7. pc'[h] \in {"idle", "scan"} /\ job'[h] = NoJob /\ told'[h] = new
  BY <1>1, <1>3, <1>5 DEF TypeOK
<1>8. JobOK(h)' /\ ToldOK(h)'
  BY <1>3, <1>7 DEF JobOK, ToldOK, Asking, NoJob, TypeOK, Present, Objects
<1>9. ScanOK(h)'
  <2>1. CASE pc'[h] = "idle"
    BY <1>3, <1>5, <2>1 DEF ScanOK, Asking, TypeOK
  <2>2. CASE pc'[h] = "scan"
    <3>1. /\ scan[h].on /\ scan'[h].on
          /\ scan'[h].size = scan[h].size /\ scan'[h].touched = scan[h].touched
          /\ scan'[h].reported = Append(scan[h].reported, name)
      BY <1>3, <1>5, <2>2 DEF TypeOK, Walk
    <3>2. ASSUME ~scan[h].touched
          PROVE  /\ scan'[h].size = Len(table) /\ Len(scan'[h].reported) <= Len(table)
                 /\ \A k \in DOMAIN scan'[h].reported : scan'[h].reported[k] = table[k].name
      <4> DEFINE r == scan[h].reported
      <4>1. /\ scan[h].size = Len(table) /\ Len(r) < Len(table)
            /\ \A k \in DOMAIN r : r[k] = table[k].name
            /\ name = table[Len(r) + 1].name
        BY <1>3, <3>1, <3>2 DEF ThreadOK, ScanOK
      <4>2. /\ Len(Append(r, name)) = Len(r) + 1 /\ Len(r) \in Nat /\ Len(table) \in Nat
            /\ DOMAIN r = 1..Len(r) /\ DOMAIN Append(r, name) = 1..(Len(r) + 1)
            /\ \A k \in 1..Len(r) : Append(r, name)[k] = r[k]
            /\ Append(r, name)[Len(r) + 1] = name
        BY <1>3, <1>4, TableFacts, LenProperties, AppendProperties DEF TypeOK
      <4> QED
        BY <3>1, <4>1, <4>2
    <3> QED
      BY <2>2, <3>1, <3>2 DEF ScanOK, Asking
  <2> QED
    BY <1>7, <2>1, <2>2
<1>10. \A g \in Threads \ {h} :
         pc'[g] = pc[g] /\ job'[g] = job[g] /\ scan'[g] = scan[g] /\ told'[g] = told[g]
  BY <1>1, <1>3, <1>5 DEF TypeOK
<1>11. pc[h] # "unregistering" /\ pc'[h] # "unregistering"
  BY <1>7 DEF Asking
<1> QED
  BY <1>6, <1>8, <1>9, <1>10, <1>11, LocalStep DEF ThreadOK, VerdictsGrow

(* Nothing changes but the place of one thread, which stays in is_healthy.    *)
LEMMA MoveOK ==
  ASSUME IInv, NEW h \in Threads, NEW q \in {"read", "get"}, Asking(h),
         pc' = [pc EXCEPT ![h] = q],
         UNCHANGED <<table, verdicts, gone, job, scan, told, now>>,
         q = "read" => job[h].name \in DOMAIN verdicts
  PROVE  IInv'
<1>1. TypeOK'
  BY DEF IInv, TypeOK, PCs, Objects
<1>2. pc'[h] = q /\ \A g \in Threads \ {h} : pc'[g] = pc[g]
  BY DEF IInv, TypeOK
<1>3. ThreadOK(h)'
  BY <1>2 DEF IInv, ThreadOK, JobOK, ToldOK, ScanOK, Asking, Present, Objects
<1>4. pc[h] # "unregistering"
  BY DEF Asking
<1> QED
  BY <1>1, <1>2, <1>3, <1>4, LocalStep

(* A walk ends, with or without an exception.                                 *)
LEMMA RestOK ==
  ASSUME IInv, NEW h \in Threads, pc[h] # "unregistering",
         pc' = [pc EXCEPT ![h] = "idle"], scan' = [scan EXCEPT ![h] = NoWalk],
         UNCHANGED <<table, verdicts, gone, now>>,
         job' = job \/ job' = [job EXCEPT ![h] = NoJob],
         NEW new \in Told, told' = [told EXCEPT ![h] = new],
         new.kind # "verdict", new.kind = "KeyError" => new.removed, new.start = 0
  PROVE  IInv'
<1>1. NoWalk \in Walk /\ NoJob \in Job
  BY DEF NoWalk, NoJob, Walk, Job
<1>2. TypeOK'
  <2>1. /\ pc' \in [Threads -> PCs] /\ scan' \in [Threads -> Walk]
        /\ gone' = gone /\ Objects' = Objects
    BY <1>1 DEF IInv, TypeOK, PCs, Objects
  <2>2. job' \in [Threads -> Job] /\ told' \in [Threads -> Told]
    BY <1>1 DEF IInv, TypeOK
  <2> QED
    BY <2>1, <2>2 DEF IInv, TypeOK
<1>3. /\ pc'[h] = "idle" /\ scan'[h] = NoWalk
      /\ \A g \in Threads \ {h} :
           pc'[g] = pc[g] /\ job'[g] = job[g] /\ scan'[g] = scan[g] /\ told'[g] = told[g]
  BY DEF IInv, TypeOK
<1>4. JobOK(h)'
  BY <1>3 DEF IInv, TypeOK, ThreadOK, JobOK, Asking, NoJob
<1>5. ToldOK(h)'
  <2>1. told'[h] = new /\ now \in Nat
    BY DEF IInv, TypeOK
  <2> QED
    BY <2>1 DEF ToldOK
<1>6. ScanOK(h)'
  BY <1>3 DEF ScanOK, NoWalk
<1> QED
  BY <1>2, <1>3, <1>4, <1>5, <1>6, LocalStep DEF ThreadOK

(* ------------------------ steps that change the backends -------------------- *)

(* An object stays, or goes now.                                              *)
GoesNow ==
  \A b \in Objects :
    /\ b \in Objects'
    /\ Present(b)' \/ gone'[b] = now \/ (~Present(b) /\ gone'[b] = gone[b])

(* A thread that does nothing while a backend comes or goes.  A walk finds    *)
(* the same names, or is touched.                                             *)
LEMMA Bystander ==
  ASSUME IInv, NEW g \in Threads, GoesNow, UNCHANGED <<now, verdicts>>,
         pc'[g] = pc[g], told'[g] = told[g],
         job'[g].name = job[g].name, job'[g].start = job[g].start,
         job'[g].backend = job[g].backend, job[g].removed => job'[g].removed,
         Asking(g) /\ job[g].name \in Registered =>
           job[g].name \in Registered' \/ job'[g].removed,
         \/ /\ scan'[g] = scan[g] /\ DOMAIN table' = DOMAIN table
            /\ Len(table') = Len(table)
            /\ \A k \in DOMAIN table : table'[k].name = table[k].name
         \/ scan'[g] = [scan[g] EXCEPT !.touched = scan[g].on]
  PROVE  ThreadOK(g)'
<1>1. TypeOK /\ JobOK(g) /\ ToldOK(g) /\ ScanOK(g)
  BY DEF IInv, ThreadOK
<1>2. now \in Nat /\ told[g].start \in Nat /\ job[g].start \in Nat /\ scan[g] \in Walk
        /\ scan[g].reported \in Seq(Names)
  BY <1>1 DEF TypeOK, Told, Job, Walk
<1>3. JobOK(g)'
  BY <1>1, <1>2 DEF JobOK, Asking, SeenAt, GoesNow
<1>4. ToldOK(g)'
  BY <1>1, <1>2, RegistryAssumption DEF ToldOK, GoesNow
<1>5. ScanOK(g)'
  <2>1. CASE /\ scan'[g] = scan[g] /\ DOMAIN table' = DOMAIN table
             /\ Len(table') = Len(table)
             /\ \A k \in DOMAIN table : table'[k].name = table[k].name
    <3>1. Len(scan[g].reported) \in Nat /\ DOMAIN scan[g].reported = 1..Len(scan[g].reported)
      BY <1>2, LenProperties
    <3>2. Len(table) \in Nat /\ DOMAIN table = 1..Len(table)
      BY <1>1, TableFacts DEF TypeOK
    <3> QED
      BY <1>1, <2>1, <3>1, <3>2 DEF ScanOK, Asking
  <2>2. CASE scan'[g] = [scan[g] EXCEPT !.touched = scan[g].on]
    <3>1. scan'[g].on = scan[g].on /\ scan'[g].touched = scan[g].on
      BY <1>2, <2>2 DEF Walk
    <3> QED
      BY <1>1, <3>1 DEF ScanOK
  <2> QED
    BY <2>1, <2>2
<1> QED
  BY <1>3, <1>4, <1>5 DEF ThreadOK

(* Verdicts keep their reference to a time at which the backend was there.    *)
LEMMA VerdictsStay ==
  ASSUME IInv, GoesNow, UNCHANGED <<now, verdicts>>
  PROVE  VerdictInv'
<1> SUFFICES ASSUME NEW n \in DOMAIN verdicts
             PROVE  SeenAt(verdicts[n].backend, verdicts[n].at)'
  BY DEF VerdictInv
<1>1. SeenAt(verdicts[n].backend, verdicts[n].at) /\ verdicts[n].at <= now
  BY DEF IInv, VerdictInv, TypeOK
<1> QED
  BY <1>1 DEF SeenAt, GoesNow

(* The walks that are touched.                                                *)
LEMMA TouchFacts ==
  ASSUME TypeOK, Touch
  PROVE  /\ scan' \in [Threads -> Walk]
         /\ \A g \in Threads : scan'[g] = [scan[g] EXCEPT !.touched = scan[g].on]
<1>1. \A g \in Threads : [scan[g] EXCEPT !.touched = scan[g].on] \in Walk
  BY DEF TypeOK, Walk
<1> QED
  BY <1>1 DEF Touch

(* A backend that is replaced: its entry gets the new object.                 *)
LEMMA ReplaceFacts ==
  ASSUME TypeOK, TableInv, NEW name \in Registered, NEW b \in Nat
  PROVE  /\ Replaced(name, b) \in Seq(Entry)
         /\ DOMAIN Replaced(name, b) = DOMAIN table /\ Len(Replaced(name, b)) = Len(table)
         /\ \E k \in DOMAIN table :
              /\ table[k].name = name /\ BackendOf(name) = table[k].backend
              /\ Replaced(name, b)[k].backend = b
              /\ \A j \in DOMAIN table :
                   /\ Replaced(name, b)[j].name = table[j].name
                   /\ j # k => Replaced(name, b)[j].backend = table[j].backend
<1> DEFINE R == Replaced(name, b)
<1>1. /\ Len(table) \in Nat /\ DOMAIN table = 1..Len(table)
      /\ \A j \in DOMAIN table : table[j] \in Entry /\ table[j].name \in Names
  BY TableFacts DEF TypeOK
<1>2. PICK k \in DOMAIN table : table[k].name = name
  BY RegisteredName
<1>3. \A j \in DOMAIN table : table[j].name = name <=> j = k
  BY <1>2 DEF TableInv
<1>4. BackendOf(name) = table[k].backend
  BY <1>2, BackendOfName
<1>5. \A e \in Entry : LET f == [e EXCEPT !.backend = b]
                       IN f \in Entry /\ f.name = e.name /\ f.backend = b
  BY DEF Entry
<1>6. DOMAIN R = DOMAIN table
        /\ \A j \in DOMAIN table : R[j] = IF j = k THEN [table[j] EXCEPT !.backend = b]
                                                  ELSE table[j]
  BY <1>3 DEF Replaced
<1>7. \A j \in DOMAIN table : R[j] \in Entry
  BY <1>1, <1>5, <1>6
<1>8. R \in [1..Len(table) -> Entry]
  <2>1. R = [j \in 1..Len(table) |-> R[j]]
    BY <1>1, <1>6 DEF Replaced
  <2> QED
    BY <1>1, <1>7, <2>1
<1>9. R \in Seq(Entry) /\ Len(R) = Len(table)
  <2>1. R \in Seq(Entry)
    BY <1>1, <1>8, SeqDef
  <2> QED
    BY <1>1, <1>8, <2>1, LenProperties
<1>10. \A j \in DOMAIN table :
         /\ R[j].name = table[j].name
         /\ R[j].backend = IF j = k THEN b ELSE table[j].backend
  BY <1>1, <1>5, <1>6
<1> HIDE DEF R
<1>11. /\ R[k].backend = b
       /\ \A j \in DOMAIN table : /\ R[j].name = table[j].name
                                  /\ j # k => R[j].backend = table[j].backend
  BY <1>10
<1> QED
  BY <1>2, <1>4, <1>6, <1>9, <1>11 DEF R

(* The dictionary without one entry.                                          *)
LEMMA StruckFacts ==
  ASSUME table \in Seq(Entry), NEW k \in DOMAIN table
  PROVE  /\ Struck(k) \in Seq(Entry) /\ Len(Struck(k)) = Len(table) - 1
         /\ \A j \in DOMAIN Struck(k) :
              \E i \in DOMAIN table \ {k} :
                Struck(k)[j] = table[i] /\ i = (IF j < k THEN j ELSE j + 1)
         /\ \A i \in DOMAIN table \ {k} : \E j \in DOMAIN Struck(k) : Struck(k)[j] = table[i]
<1> DEFINE L == Len(table)
           f == SubSeq(table, 1, k - 1)
           g == SubSeq(table, k + 1, L)
           S == f \o g
<1>1. L \in Nat /\ k \in 1..L /\ DOMAIN table = 1..L
  BY TableFacts
<1>2. f \in Seq(Entry) /\ Len(f) = k - 1 /\ \A j \in 1..(k - 1) : f[j] = table[j]
  <2>1. k - 1 \in Int /\ \A i \in 1..(k - 1) : table[i] \in Entry
    BY <1>1, ElementOfSeq
  <2>2. /\ f \in Seq(Entry) /\ Len(f) = IF 1 <= k - 1 THEN (k - 1) - 1 + 1 ELSE 0
        /\ \A j \in 1..((k - 1) - 1 + 1) : f[j] = table[1 + j - 1]
    BY <2>1, SubSeqProperties
  <2> HIDE DEF f
  <2> QED
    BY <1>1, <2>2
<1>3. g \in Seq(Entry) /\ Len(g) = L - k /\ \A j \in 1..(L - k) : g[j] = table[k + j]
  <2>1. k + 1 \in Int /\ L \in Int /\ \A i \in (k + 1)..L : table[i] \in Entry
    BY <1>1, ElementOfSeq
  <2>2. /\ g \in Seq(Entry) /\ Len(g) = IF k + 1 <= L THEN L - (k + 1) + 1 ELSE 0
        /\ \A j \in 1..(L - (k + 1) + 1) : g[j] = table[(k + 1) + j - 1]
    BY <2>1, SubSeqProperties
  <2> HIDE DEF g
  <2>3. L - (k + 1) + 1 = L - k /\ (k + 1 <= L \/ L - k = 0)
    BY <1>1
  <2>4. \A j \in 1..(L - k) : (k + 1) + j - 1 = k + j
    BY <1>1
  <2> QED
    BY <2>2, <2>3, <2>4
<1>4. /\ S \in Seq(Entry) /\ Len(S) = L - 1
      /\ \A j \in 1..(L - 1) : S[j] = IF j <= k - 1 THEN f[j] ELSE g[j - (k - 1)]
  <2> HIDE DEF f, g
  <2>1. /\ S \in Seq(Entry) /\ Len(S) = Len(f) + Len(g)
        /\ \A j \in 1..(Len(f) + Len(g)) : S[j] = IF j <= Len(f) THEN f[j] ELSE g[j - Len(f)]
    BY <1>2, <1>3, ConcatProperties
  <2> HIDE DEF S
  <2>2. Len(f) + Len(g) = L - 1
    BY <1>1, <1>2, <1>3
  <2> QED
    BY <1>2, <2>1, <2>2
<1>5. DOMAIN S = 1..(L - 1)
  BY <1>4, LenProperties
<1>6. \A j \in 1..(L - 1) : S[j] = table[IF j < k THEN j ELSE j + 1]
  <2> SUFFICES ASSUME NEW j \in 1..(L - 1)
               PROVE  S[j] = table[IF j < k THEN j ELSE j + 1]
    OBVIOUS
  <2> HIDE DEF S, f, g
  <2>1. CASE j < k
    BY <1>1, <1>2, <1>4, <2>1
  <2>2. CASE ~(j < k)
    <3>1. S[j] = g[j - (k - 1)] /\ j - (k - 1) \in 1..(L - k)
      BY <1>1, <1>4, <2>2
    <3>2. g[j - (k - 1)] = table[k + (j - (k - 1))]
      BY <1>3, <3>1
    <3>3. k + (j - (k - 1)) = j + 1
      BY <1>1
    <3> QED
      BY <2>2, <3>1, <3>2, <3>3
  <2> QED
    BY <2>1, <2>2
<1>7. \A j \in DOMAIN S :
        LET i == IF j < k THEN j ELSE j + 1 IN i \in DOMAIN table \ {k} /\ S[j] = table[i]
  <2> HIDE DEF S
  <2> QED
    BY <1>1, <1>5, <1>6
<1>8. ASSUME NEW i \in DOMAIN table \ {k}
      PROVE  \E j \in DOMAIN S : S[j] = table[i]
  <2> HIDE DEF S
  <2> DEFINE j == IF i < k THEN i ELSE i - 1
  <2>1. j \in 1..(L - 1) /\ (IF j < k THEN j ELSE j + 1) = i
    BY <1>1
  <2> HIDE DEF j
  <2> QED
    BY <1>5, <1>6, <2>1
<1>9. Struck(k) = S
  BY DEF Struck
<1> HIDE DEF S
<1> QED
  BY <1>4, <1>7, <1>8, <1>9

(* A new object gets a number of its own; one that leaves has gone.           *)
LEMMA AppendGone ==
  ASSUME gone \in Seq(Nat), NEW old \in Seq(Nat), Len(old) = Len(gone),
         gone' = Append(old, 0)
  PROVE  /\ gone' \in Seq(Nat) /\ Objects' = 1..(Len(gone) + 1)
         /\ Len(gone) \in Nat /\ Objects = 1..Len(gone)
         /\ \A b \in Objects : gone'[b] = old[b]
         /\ gone'[Len(gone) + 1] = 0
<1>1. /\ Len(gone) \in Nat /\ Objects = 1..Len(gone)
      /\ DOMAIN old = 1..Len(gone)
  BY ObjectFacts, LenProperties
<1>2. /\ Append(old, 0) \in Seq(Nat) /\ Len(Append(old, 0)) = Len(gone) + 1
      /\ \A b \in 1..Len(gone) : Append(old, 0)[b] = old[b]
      /\ Append(old, 0)[Len(gone) + 1] = 0
  BY <1>1, AppendProperties
<1>3. DOMAIN Append(old, 0) = 1..(Len(gone) + 1)
  BY <1>2, LenProperties
<1> QED
  BY <1>1, <1>2, <1>3 DEF Objects

LEMMA RegisterOK ==
  ASSUME IInv, NEW name \in Names, Register(name)
  PROVE  IInv'
<1> DEFINE b == Len(gone) + 1
<1>1. /\ TypeOK /\ TableInv /\ now \in Nat /\ gone \in Seq(Nat) /\ table \in Seq(Entry)
      /\ UNCHANGED <<verdicts, pc, job, told, now>>
  BY DEF IInv, TypeOK, Register
<1>2. /\ Len(table) \in Nat /\ DOMAIN table = 1..Len(table)
      /\ Len(gone) \in Nat /\ Objects = 1..Len(gone)
      /\ \A j \in DOMAIN table : table[j].backend \in Objects
      /\ \A o \in Objects : gone[o] <= now /\ gone[o] \in Nat
  BY <1>1, TableFacts, ObjectFacts DEF TypeOK, TableInv
<1>3. b \in Nat /\ b \notin Objects /\ b = Len(gone) + 1
  BY <1>2
<1> HIDE DEF b
<1>4. CASE name \in Registered
  <2>1. /\ table' = Replaced(name, b)
        /\ gone' = Append([gone EXCEPT ![BackendOf(name)] = now], 0)
        /\ scan' = scan
    BY <1>3, <1>4 DEF Register
  <2>2. /\ table' \in Seq(Entry) /\ DOMAIN table' = DOMAIN table /\ Len(table') = Len(table)
    BY <1>1, <1>3, <1>4, <2>1, ReplaceFacts
  <2>3. PICK k \in DOMAIN table :
          /\ table[k].name = name /\ BackendOf(name) = table[k].backend
          /\ table'[k].backend = b
          /\ \A j \in DOMAIN table : /\ table'[j].name = table[j].name
                                     /\ j # k => table'[j].backend = table[j].backend
    BY <1>1, <1>3, <1>4, <2>1, ReplaceFacts
  <2> DEFINE old == [gone EXCEPT ![table[k].backend] = now]
  <2>4. old \in Seq(Nat) /\ Len(old) = Len(gone)
    BY <1>1, <1>2, ExceptSeq DEF Objects
  <2>5. /\ gone' \in Seq(Nat) /\ Objects' = 1..(Len(gone) + 1)
        /\ \A o \in Objects : gone'[o] = old[o]
        /\ gone'[b] = 0
    BY <1>1, <1>3, <2>1, <2>3, <2>4, AppendGone
  <2>6. \A o \in Objects : gone'[o] = IF o = table[k].backend THEN now ELSE gone[o]
    BY <2>5 DEF Objects
  <2>7. TableInv'
    <3>1. \A i, j \in DOMAIN table' : table'[i].name = table'[j].name => i = j
      BY <1>1, <2>2, <2>3 DEF TableInv
    <3>2. \A i, j \in DOMAIN table' : table'[i].backend = table'[j].backend => i = j
      <4>1. \A j \in DOMAIN table : table[j].backend # b
        BY <1>2, <1>3
      <4>2. \A i, j \in DOMAIN table : table[i].backend = table[j].backend => i = j
        BY <1>1 DEF TableInv
      <4> HIDE DEF b
      <4> QED
        BY <2>2, <2>3, <4>1, <4>2
    <3>3. \A o \in Objects' : gone'[o] <= now'
      <4>1. \A o \in Objects' : o \in Objects \/ o = b
        BY <1>2, <1>3, <2>5
      <4>2. ASSUME NEW o \in Objects PROVE gone'[o] <= now
        <5>1. CASE o = table[k].backend
          BY <1>1, <2>6, <5>1
        <5>2. CASE o # table[k].backend
          BY <1>2, <2>6, <5>2
        <5> QED
          BY <5>1, <5>2
      <4> QED
        BY <1>1, <2>5, <4>1, <4>2
    <3> QED
      BY <3>1, <3>2, <3>3 DEF TableInv
  <2>8. GoesNow
    <3> SUFFICES ASSUME NEW o \in Objects, o # table[k].backend
                 PROVE  Present(o)' \/ (~Present(o) /\ gone'[o] = gone[o])
      BY <1>2, <2>5, <2>6 DEF GoesNow
    <3>1. Present(o) => Present(o)'
      BY <2>2, <2>3 DEF Present
    <3> QED
      BY <2>6, <3>1
  <2>9. TypeOK'
    <3>1. ASSUME NEW j \in DOMAIN table' PROVE table'[j].backend \in Objects'
      <4>1. j \in DOMAIN table /\ b \in Objects' /\ Objects \subseteq Objects'
        BY <1>2, <1>3, <2>2, <2>5
      <4>2. CASE j = k
        BY <2>3, <4>1, <4>2
      <4>3. CASE j # k
        BY <1>2, <2>3, <4>1, <4>3
      <4> QED
        BY <4>2, <4>3
    <3> QED
      BY <1>1, <2>1, <2>2, <2>5, <3>1 DEF TypeOK
  <2>10. Registered' = Registered
    BY <2>2, <2>3 DEF Registered
  <2>11. \A g \in Threads : ThreadOK(g)'
    <3>1. \A j \in DOMAIN table : table'[j].name = table[j].name
      BY <2>3
    <3>2. \A g \in Threads :
            pc'[g] = pc[g] /\ told'[g] = told[g] /\ job'[g] = job[g] /\ scan'[g] = scan[g]
      BY <1>1, <2>1
    <3> QED
      BY <1>1, <2>2, <2>8, <2>10, <3>1, <3>2, Bystander
  <2>12. NoVerdictLeftBehind'
    BY <1>1, <2>10 DEF IInv, NoVerdictLeftBehind, BeingRemoved
  <2> QED
    BY <1>1, <2>7, <2>8, <2>9, <2>11, <2>12, VerdictsStay DEF IInv
<1>5. CASE name \notin Registered
  <2> DEFINE e == [name |-> name, backend |-> b]
  <2>1. table' = Append(table, e) /\ gone' = Append(gone, 0) /\ Touch
    BY <1>3, <1>5 DEF Register
  <2>2. e \in Entry /\ e.name = name /\ e.backend = b
    BY <1>3 DEF Entry
  <2> HIDE DEF e
  <2>3. /\ table' \in Seq(Entry) /\ Len(table') = Len(table) + 1
        /\ \A k \in 1..Len(table) : table'[k] = table[k]
        /\ table'[Len(table) + 1] = e
    BY <1>1, <1>2, <2>1, <2>2, AppendProperties
  <2>4. DOMAIN table' = 1..(Len(table) + 1)
    BY <2>3, LenProperties
  <2>5. /\ gone' \in Seq(Nat) /\ Objects' = 1..(Len(gone) + 1)
        /\ \A o \in Objects : gone'[o] = gone[o]
        /\ gone'[b] = 0
    BY <1>1, <1>3, <2>1, AppendGone
  <2>6. \A k \in DOMAIN table : table[k].name # name
    BY <1>5 DEF Registered
  <2>7. TableInv'
    <3>1. \A i, j \in DOMAIN table' : table'[i].name = table'[j].name => i = j
      <4>1. \A j \in DOMAIN table : table'[j].name # name
        BY <1>2, <2>3, <2>6
      <4>2. \A i, j \in DOMAIN table : table'[i].name = table'[j].name => i = j
        BY <1>1, <1>2, <2>3 DEF TableInv
      <4>3. table'[Len(table) + 1].name = name
        BY <2>2, <2>3
      <4>4. \A i \in DOMAIN table' : i \in DOMAIN table \/ i = Len(table) + 1
        BY <1>2, <2>4
      <4> QED
        BY <4>1, <4>2, <4>3, <4>4
    <3>2. \A i, j \in DOMAIN table' : table'[i].backend = table'[j].backend => i = j
      <4>1. \A j \in DOMAIN table : table'[j].backend # b
        BY <1>2, <1>3, <2>3
      <4> QED
        <5>1. \A i, j \in 1..Len(table) : table'[i].backend = table'[j].backend => i = j
          BY <1>1, <1>2, <2>3 DEF TableInv
        <5>2. table'[Len(table) + 1].backend = b
          BY <2>2, <2>3
        <5>3. \A i \in DOMAIN table' : i \in 1..Len(table) \/ i = Len(table) + 1
          BY <1>2, <2>4
        <5> QED
          BY <1>2, <4>1, <5>1, <5>2, <5>3
    <3>3. \A o \in Objects' : gone'[o] <= now'
      <4>1. \A o \in Objects' : o \in Objects \/ o = b
        BY <1>2, <1>3, <2>5
      <4>2. gone'[b] <= now /\ now' = now
        BY <1>1, <2>5
      <4>3. \A o \in Objects : gone'[o] <= now
        BY <1>2, <2>5
      <4> QED
        BY <4>1, <4>2, <4>3
    <3> QED
      BY <3>1, <3>2, <3>3 DEF TableInv
  <2>8. GoesNow
    BY <1>2, <2>3, <2>4, <2>5 DEF GoesNow, Present
  <2>9. TypeOK'
    <3>1. \A j \in DOMAIN table' : table'[j].backend \in Objects'
      <4>1. table'[Len(table) + 1].backend = b /\ b \in Objects'
        BY <1>2, <1>3, <2>2, <2>3, <2>5
      <4>2. \A i \in DOMAIN table' : i \in DOMAIN table \/ i = Len(table) + 1
        BY <1>2, <2>4
      <4>3. \A i \in DOMAIN table : table'[i].backend \in Objects
        BY <1>2, <2>3
      <4>4. Objects \subseteq Objects'
        BY <1>2, <2>5
      <4> QED
        BY <4>1, <4>2, <4>3, <4>4
    <3>2. scan' \in [Threads -> Walk]
      BY <1>1, <2>1, TouchFacts
    <3> QED
      BY <1>1, <2>3, <2>5, <3>1, <3>2 DEF TypeOK
  <2>10. Registered \subseteq Registered'
    BY <1>2, <2>3, <2>4 DEF Registered
  <2>11. \A g \in Threads : ThreadOK(g)'
    BY <1>1, <2>1, <2>8, <2>10, TouchFacts, Bystander
  <2>12. NoVerdictLeftBehind'
    BY <1>1, <2>10 DEF IInv, NoVerdictLeftBehind, BeingRemoved
  <2> QED
    BY <1>1, <2>7, <2>8, <2>9, <2>11, <2>12, VerdictsStay DEF IInv
<1> QED
  BY <1>4, <1>5

(* The calls that overlap the removal of a name.                              *)
LEMMA OverlapFacts ==
  ASSUME TypeOK, NEW name
  PROVE  /\ Overlapped(name) \in [Threads -> Job]
         /\ \A g \in Threads :
              /\ Overlapped(name)[g].name = job[g].name
              /\ Overlapped(name)[g].start = job[g].start
              /\ Overlapped(name)[g].backend = job[g].backend
              /\ job[g].removed => Overlapped(name)[g].removed
              /\ Asking(g) /\ job[g].name = name => Overlapped(name)[g].removed
<1>1. \A x \in Job : LET y == [x EXCEPT !.removed = TRUE]
                     IN /\ y \in Job /\ y.name = x.name /\ y.start = x.start
                        /\ y.backend = x.backend /\ y.removed
  BY DEF Job
<1>2. \A g \in Threads :
        /\ job[g] \in Job
        /\ Overlapped(name)[g] = IF Asking(g) /\ job[g].name = name
                                 THEN [job[g] EXCEPT !.removed = TRUE] ELSE job[g]
  BY DEF TypeOK, Overlapped
<1>3. \A g \in Threads : Overlapped(name)[g] \in Job
  BY <1>1, <1>2
<1>4. Overlapped(name) \in [Threads -> Job]
  BY <1>3 DEF Overlapped
<1> QED
  BY <1>1, <1>2, <1>4

(* The dictionary loses a backend, or has none of that name.                  *)
LEMMA StrikeOK ==
  ASSUME IInv, NEW name, UNCHANGED now, now \in Nat,
         \/ /\ \E k \in DOMAIN table : table[k].name = name /\ table' = Struck(k)
            /\ gone' = [gone EXCEPT ![BackendOf(name)] = now]
            /\ Touch
         \/ UNCHANGED <<table, gone, scan>>
  PROVE  /\ table' \in Seq(Entry) /\ gone' \in Seq(Nat) /\ scan' \in [Threads -> Walk]
         /\ \A k \in DOMAIN table' : table'[k].backend \in Objects'
         /\ TableInv' /\ GoesNow
         /\ Registered \ {name} \subseteq Registered'
         /\ \A g \in Threads : scan'[g].on = scan[g].on
         /\ \/ UNCHANGED <<table, scan>>
            \/ \A g \in Threads : scan'[g] = [scan[g] EXCEPT !.touched = scan[g].on]
<1>1. /\ TypeOK /\ TableInv /\ gone \in Seq(Nat) /\ table \in Seq(Entry)
      /\ scan \in [Threads -> Walk]
  BY DEF IInv, TypeOK
<1>2. /\ Len(table) \in Nat /\ DOMAIN table = 1..Len(table)
      /\ Len(gone) \in Nat /\ Objects = 1..Len(gone)
      /\ \A j \in DOMAIN table : table[j].backend \in Objects
      /\ \A o \in Objects : gone[o] <= now /\ gone[o] \in Nat
  BY <1>1, TableFacts, ObjectFacts DEF TypeOK, TableInv
<1>3. CASE UNCHANGED <<table, gone, scan>>
  <2>1. TableInv' /\ GoesNow /\ Registered' = Registered
    BY <1>1, <1>3 DEF TableInv, GoesNow, Registered, Objects, Present
  <2> QED
    BY <1>1, <1>2, <1>3, <2>1 DEF Objects
<1>4. CASE /\ \E k \in DOMAIN table : table[k].name = name /\ table' = Struck(k)
           /\ gone' = [gone EXCEPT ![BackendOf(name)] = now]
           /\ Touch
  <2>1. PICK k \in DOMAIN table : table[k].name = name /\ table' = Struck(k)
    BY <1>4
  <2>2. BackendOf(name) = table[k].backend
    BY <1>1, <2>1, BackendOfName
  <2>3. gone' \in Seq(Nat) /\ Objects' = Objects
          /\ \A o \in Objects : gone'[o] = IF o = table[k].backend THEN now ELSE gone[o]
    <3>1. /\ gone' \in Seq(Nat) /\ Len(gone') = Len(gone)
          /\ \A o \in 1..Len(gone) : gone'[o] = IF o = table[k].backend THEN now ELSE gone[o]
      BY <1>1, <1>2, <1>4, <2>2, ExceptSeq
    <3>2. DOMAIN gone' = 1..Len(gone')
      BY <3>1, LenProperties
    <3> QED
      BY <1>2, <3>1, <3>2 DEF Objects
  <2>4. /\ table' \in Seq(Entry) /\ Len(table') = Len(table) - 1
        /\ \A j \in DOMAIN table' :
             \E i \in DOMAIN table \ {k} :
               table'[j] = table[i] /\ i = (IF j < k THEN j ELSE j + 1)
        /\ \A i \in DOMAIN table \ {k} : \E j \in DOMAIN table' : table'[j] = table[i]
    BY <1>1, <2>1, StruckFacts
  <2>5. DOMAIN table' = 1..(Len(table) - 1)
    BY <2>4, LenProperties
  <2>6. \A j \in DOMAIN table' : table'[j].backend \in Objects'
    BY <1>2, <2>3, <2>4
  <2>7. TableInv'
    <3>1. \A i, j \in DOMAIN table' : table'[i].name = table'[j].name => i = j
      <4> SUFFICES ASSUME NEW i \in DOMAIN table', NEW j \in DOMAIN table',
                          table'[i].name = table'[j].name
                   PROVE  i = j
        OBVIOUS
      <4>1. PICK p \in DOMAIN table : table'[i] = table[p] /\ p = (IF i < k THEN i ELSE i + 1)
        BY <2>4
      <4>2. PICK q \in DOMAIN table : table'[j] = table[q] /\ q = (IF j < k THEN j ELSE j + 1)
        BY <2>4
      <4>3. p = q
        BY <1>1, <4>1, <4>2 DEF TableInv
      <4> QED
        BY <1>2, <2>5, <4>1, <4>2, <4>3
    <3>2. \A i, j \in DOMAIN table' : table'[i].backend = table'[j].backend => i = j
      <4> SUFFICES ASSUME NEW i \in DOMAIN table', NEW j \in DOMAIN table',
                          table'[i].backend = table'[j].backend
                   PROVE  i = j
        OBVIOUS
      <4>1. PICK p \in DOMAIN table : table'[i] = table[p] /\ p = (IF i < k THEN i ELSE i + 1)
        BY <2>4
      <4>2. PICK q \in DOMAIN table : table'[j] = table[q] /\ q = (IF j < k THEN j ELSE j + 1)
        BY <2>4
      <4>3. p = q
        BY <1>1, <4>1, <4>2 DEF TableInv
      <4> QED
        BY <1>2, <2>5, <4>1, <4>2, <4>3
    <3>3. ASSUME NEW o \in Objects PROVE gone'[o] <= now'
      <4>1. CASE o = table[k].backend
        BY <2>3, <4>1
      <4>2. CASE o # table[k].backend
        BY <1>2, <2>3, <4>2
      <4> QED
        BY <4>1, <4>2
    <3> QED
      BY <2>3, <3>1, <3>2, <3>3 DEF TableInv
  <2>8. GoesNow
    <3> SUFFICES ASSUME NEW o \in Objects, o # table[k].backend
                 PROVE  Present(o)' \/ (~Present(o) /\ gone'[o] = gone[o])
      BY <2>3 DEF GoesNow
    <3>1. Present(o) => Present(o)'
      BY <2>4 DEF Present
    <3> QED
      BY <2>3, <3>1
  <2>9. Registered \ {name} \subseteq Registered'
    BY <2>1, <2>4 DEF Registered
  <2>10. /\ scan' \in [Threads -> Walk]
         /\ \A g \in Threads : /\ scan'[g] = [scan[g] EXCEPT !.touched = scan[g].on]
                               /\ scan'[g].on = scan[g].on
    <3>1. /\ scan' \in [Threads -> Walk]
          /\ \A g \in Threads : scan'[g] = [scan[g] EXCEPT !.touched = scan[g].on]
      BY <1>1, <1>4, TouchFacts
    <3>2. ASSUME NEW g \in Threads PROVE [scan[g] EXCEPT !.touched = scan[g].on].on = scan[g].on
      <4>1. scan[g] \in Walk
        BY <1>1 DEF TypeOK
      <4> QED
        BY <4>1 DEF Walk
    <3> QED
      BY <3>1, <3>2
  <2> QED
    BY <2>3, <2>4, <2>6, <2>7, <2>8, <2>9, <2>10
<1> QED
  BY <1>3, <1>4

LEMMA UnregisterBackendOK ==
  ASSUME IInv, NEW h \in Threads, NEW name \in Names, UnregisterBackend(h, name)
  PROVE  IInv'
<1>1. /\ TypeOK /\ now \in Nat /\ UNCHANGED <<verdicts, now>>
      /\ pc[h] = "idle" /\ pc' = [pc EXCEPT ![h] = "unregistering"]
      /\ job' = [Overlapped(name) EXCEPT ![h].name = name]
      /\ told' = [told EXCEPT ![h] = Nothing]
  BY DEF IInv, TypeOK, UnregisterBackend
<1>2. \/ /\ \E k \in DOMAIN table : table[k].name = name /\ table' = Struck(k)
         /\ gone' = [gone EXCEPT ![BackendOf(name)] = now]
         /\ Touch
      \/ UNCHANGED <<table, gone, scan>>
  BY DEF UnregisterBackend
<1>3. /\ table' \in Seq(Entry) /\ gone' \in Seq(Nat) /\ scan' \in [Threads -> Walk]
      /\ \A k \in DOMAIN table' : table'[k].backend \in Objects'
      /\ TableInv' /\ GoesNow
      /\ Registered \ {name} \subseteq Registered'
      /\ \A g \in Threads : scan'[g].on = scan[g].on
      /\ \/ UNCHANGED <<table, scan>>
         \/ \A g \in Threads : scan'[g] = [scan[g] EXCEPT !.touched = scan[g].on]
  <2> HIDE DEF Struck
  <2> QED
    BY <1>1, <1>2, StrikeOK
<1> DEFINE over == Overlapped(name)
<1>4. /\ over \in [Threads -> Job]
      /\ \A g \in Threads :
           /\ over[g].name = job[g].name /\ over[g].start = job[g].start
           /\ over[g].backend = job[g].backend
           /\ job[g].removed => over[g].removed
           /\ Asking(g) /\ job[g].name = name => over[g].removed
  BY <1>1, OverlapFacts
<1> HIDE DEF over
<1>5. /\ [over[h] EXCEPT !.name = name] \in Job
      /\ [over[h] EXCEPT !.name = name].name = name
      /\ [over[h] EXCEPT !.name = name].start = over[h].start
  BY <1>4 DEF Job
<1>6. job' = [over EXCEPT ![h] = [over[h] EXCEPT !.name = name]]
  BY <1>1 DEF over
<1>7. job' \in [Threads -> Job] /\ job'[h].name = name /\ job'[h].start = job[h].start
        /\ \A g \in Threads \ {h} : job'[g] = over[g]
  BY <1>4, <1>5, <1>6
<1>8. Nothing \in Told
  BY DEF Nothing, Told
<1>9. TypeOK'
  BY <1>1, <1>3, <1>7, <1>8 DEF TypeOK, PCs
<1>10. VerdictInv'
  BY <1>1, <1>3, VerdictsStay
<1>11. pc'[h] = "unregistering" /\ told'[h] = Nothing
         /\ \A g \in Threads \ {h} : pc'[g] = pc[g] /\ told'[g] = told[g]
  BY <1>1 DEF TypeOK
<1>12. NoVerdictLeftBehind'
  <2> SUFFICES ASSUME NEW n \in DOMAIN verdicts
               PROVE  n \in Registered' \/ BeingRemoved(n)' \/ verdicts[n].late
    BY <1>1 DEF NoVerdictLeftBehind
  <2>1. CASE n = name
    BY <1>7, <1>11, <2>1 DEF BeingRemoved
  <2>2. CASE n # name /\ BeingRemoved(n)
    <3>1. PICK g \in Threads : pc[g] = "unregistering" /\ job[g].name = n
      BY <2>2 DEF BeingRemoved
    <3> QED
      BY <1>1, <1>4, <1>7, <1>11, <3>1 DEF BeingRemoved
  <2> QED
    BY <1>3, <2>1, <2>2 DEF IInv, NoVerdictLeftBehind
<1>13. ASSUME NEW g \in Threads PROVE ThreadOK(g)'
  <2>1. CASE g = h
    <3>1. JobOK(h)' /\ ToldOK(h)'
      BY <1>1, <1>7, <1>11 DEF IInv, ThreadOK, JobOK, ToldOK, Asking, Nothing
    <3>2. ScanOK(h)'
      BY <1>1, <1>3, <1>11 DEF IInv, ThreadOK, ScanOK
    <3> QED
      BY <2>1, <3>1, <3>2 DEF ThreadOK
  <2>2. CASE g # h
    <3>1. Asking(g) /\ job[g].name \in Registered =>
            job[g].name \in Registered' \/ job'[g].removed
      BY <1>3, <1>4, <1>7, <2>2
    <3> QED
      BY <1>1, <1>3, <1>4, <1>7, <1>11, <2>2, <3>1, Bystander
  <2> QED
    BY <2>1, <2>2
<1> QED
  BY <1>3, <1>9, <1>10, <1>12, <1>13 DEF IInv

LEMMA UnregisterVerdictOK ==
  ASSUME IInv, NEW h \in Threads, UnregisterVerdict(h)
  PROVE  IInv'
<1> DEFINE name == job[h].name
           over == Overlapped(name)
<1>1. /\ TypeOK /\ now \in Nat /\ UNCHANGED <<table, gone, scan, told, now>>
      /\ pc[h] = "unregistering" /\ pc' = [pc EXCEPT ![h] = "idle"]
      /\ verdicts' = [n \in DOMAIN verdicts \ {name} |-> verdicts[n]]
      /\ job' = [over EXCEPT ![h] = NoJob]
  BY DEF IInv, TypeOK, UnregisterVerdict
<1>2. /\ over \in [Threads -> Job]
      /\ \A g \in Threads :
           /\ over[g].name = job[g].name /\ over[g].start = job[g].start
           /\ over[g].backend = job[g].backend
           /\ job[g].removed => over[g].removed
           /\ Asking(g) /\ job[g].name = name => over[g].removed
  BY <1>1, OverlapFacts
<1> HIDE DEF over
<1>3. NoJob \in Job /\ NoJob.start = 0
  BY DEF NoJob, Job
<1>4. /\ DOMAIN verdicts' = DOMAIN verdicts \ {name}
      /\ \A n \in DOMAIN verdicts' : verdicts'[n] = verdicts[n]
  BY <1>1
<1>5. /\ pc'[h] = "idle" /\ job'[h] = NoJob
      /\ \A g \in Threads \ {h} : pc'[g] = pc[g] /\ job'[g] = over[g]
  BY <1>1, <1>2 DEF TypeOK
<1>6. TypeOK'
  <2>1. job' \in [Threads -> Job] /\ pc' \in [Threads -> PCs]
    BY <1>1, <1>2, <1>3 DEF TypeOK, PCs
  <2> QED
    BY <1>1, <1>4, <2>1 DEF TypeOK, Objects
<1>7. TableInv' /\ VerdictInv'
  BY <1>1, <1>4 DEF IInv, TableInv, VerdictInv, SeenAt, Present, Objects
<1>8. NoVerdictLeftBehind'
  <2> SUFFICES ASSUME NEW n \in DOMAIN verdicts, n # name
               PROVE  n \in Registered \/ BeingRemoved(n)' \/ verdicts[n].late
    BY <1>1, <1>4 DEF NoVerdictLeftBehind, Registered
  <2>1. CASE BeingRemoved(n)
    <3>1. PICK g \in Threads : pc[g] = "unregistering" /\ job[g].name = n
      BY <2>1 DEF BeingRemoved
    <3> QED
      BY <1>2, <1>5, <3>1 DEF BeingRemoved
  <2> QED
    BY <2>1 DEF IInv, NoVerdictLeftBehind
<1>9. ASSUME NEW g \in Threads PROVE ThreadOK(g)'
  <2>1. JobOK(g) /\ ToldOK(g) /\ ScanOK(g)
    BY DEF IInv, ThreadOK
  <2>2. ToldOK(g)'
    BY <1>1, <2>1 DEF ToldOK, Present, Objects
  <2>3. CASE g = h
    BY <1>1, <1>3, <1>5, <2>1, <2>2, <2>3 DEF ThreadOK, JobOK, ScanOK, Asking
  <2>4. CASE g # h
    <3>1. ScanOK(g)'
      BY <1>1, <1>2, <1>5, <2>1, <2>4 DEF ScanOK, Asking
    <3>2. JobOK(g)'
      BY <1>1, <1>2, <1>4, <1>5, <2>1, <2>4
         DEF JobOK, Asking, SeenAt, Present, Objects, Registered
    <3> QED
      BY <2>2, <3>1, <3>2 DEF ThreadOK
  <2> QED
    BY <2>3, <2>4
<1> QED
  BY <1>6, <1>7, <1>8, <1>9 DEF IInv

LEMMA TickOK == IInv /\ Tick => IInv'
<1> SUFFICES ASSUME IInv, Tick PROVE IInv'
  OBVIOUS
<1>1. /\ now \in Nat /\ now' = now + 1 /\ TypeOK
      /\ UNCHANGED <<table, verdicts, gone, pc, job, scan, told>>
  BY DEF IInv, TypeOK, Tick
<1>2. /\ \A n \in DOMAIN verdicts : verdicts[n] \in Verdict /\ verdicts[n].at \in Nat
      /\ gone \in Seq(Nat) /\ \A b \in Objects : gone[b] \in Nat
      /\ \A g \in Threads : job[g].start \in Nat /\ told[g].start \in Nat
  BY <1>1, ObjectFacts DEF TypeOK, Verdict, Job, Told
<1>3. TypeOK'
  BY <1>1, <1>2 DEF TypeOK, Objects
<1>4. TableInv'
  BY <1>1, <1>2 DEF IInv, TableInv, Objects
<1>5. VerdictInv' /\ NoVerdictLeftBehind'
  BY <1>1 DEF IInv, VerdictInv, NoVerdictLeftBehind, SeenAt, Present, Objects,
              Registered, BeingRemoved
<1>6. ASSUME NEW g \in Threads PROVE ThreadOK(g)'
  BY <1>1, <1>2 DEF IInv, ThreadOK, JobOK, ToldOK, ScanOK, SeenAt, Present, Objects,
                    Registered, Asking
<1> QED
  BY <1>3, <1>4, <1>5, <1>6 DEF IInv

(* --------------------------- steps of is_healthy ---------------------------- *)

(* The verdicts stay as they are.                                             *)
LEMMA VerdictsGrowNot == TypeOK /\ UNCHANGED verdicts => VerdictsGrow
BY DEF TypeOK, VerdictsGrow

LEMMA ReadOK ==
  ASSUME IInv, NEW h \in Threads, Read(h)
  PROVE  IInv'
<1> DEFINE name == job[h].name
           v == verdicts[name]
<1>1. /\ TypeOK /\ ThreadOK(h) /\ job[h] \in Job /\ job[h].start \in Nat /\ now \in Nat
      /\ pc[h] = "read" /\ Asking(h) /\ UNCHANGED <<table, verdicts, gone, now>>
  BY DEF IInv, TypeOK, Read, Job, Asking
<1>2. CASE /\ name \in DOMAIN verdicts /\ InForce(v, job[h].start)
           /\ Return(h, "verdict", job[h].start, v.backend)
  <2>1. /\ v \in Verdict /\ v.at \in Nat /\ v.backend \in Nat
        /\ SeenAt(v.backend, v.at) /\ gone \in Seq(Nat)
    BY <1>1, <1>2 DEF IInv, TypeOK, VerdictInv, Verdict
  <2>2. v.backend \in Objects /\ gone[v.backend] \in Nat
    BY <2>1, ObjectFacts DEF SeenAt
  <2>3. Present(v.backend) \/ gone[v.backend] > job[h].start - HealthTTL
    <3>1. job[h].start - v.at < HealthTTL
      BY <1>2 DEF InForce
    <3>2. Present(v.backend) \/ gone[v.backend] >= v.at
      BY <2>1 DEF SeenAt
    <3> HIDE DEF v
    <3> DEFINE start == job[h].start
               went == gone[v.backend]
    <3>3. start \in Nat /\ went \in Nat /\ v.at \in Nat /\ HealthTTL \in Nat
      BY <1>1, <2>1, <2>2, RegistryAssumption
    <3> HIDE DEF start, went
    <3>4. start - v.at < HealthTTL /\ (Present(v.backend) \/ went >= v.at)
      BY <3>1, <3>2 DEF start, went
    <3>5. Present(v.backend) \/ went > start - HealthTTL
      BY <3>3, <3>4
    <3> QED
      BY <3>5 DEF start, went
  <2>4. job[h].start <= now
    BY <1>1 DEF ThreadOK, JobOK
  <2> QED
    BY <1>1, <1>2, <2>1, <2>2, <2>3, <2>4, ReturnOK, VerdictsGrowNot
<1>3. CASE pc' = [pc EXCEPT ![h] = "get"] /\ UNCHANGED <<job, scan, told>>
  BY <1>1, <1>3, MoveOK
<1>4. CASE name \notin DOMAIN verdicts /\ RaiseKeyError(h)
  <2> DEFINE new == [kind |-> "KeyError", start |-> 0, backend |-> 0, removed |-> job[h].removed]
  <2>1. new \in Told /\ new.kind = "KeyError" /\ new.start = 0 /\ new.removed = job[h].removed
    BY <1>1 DEF Told, Job
  <2>2. job[h].removed
    BY <1>1, <1>4 DEF ThreadOK, JobOK
  <2>3. told' = [told EXCEPT ![h] = new] /\ job' = [job EXCEPT ![h] = NoJob]
          /\ pc' = [pc EXCEPT ![h] = "idle"] /\ scan' = [scan EXCEPT ![h] = NoWalk]
    BY <1>4 DEF RaiseKeyError
  <2> HIDE DEF new
  <2> QED
    BY <1>1, <2>1, <2>2, <2>3, RestOK
<1> QED
  BY <1>2, <1>3, <1>4 DEF Read

LEMMA GetBackendOK ==
  ASSUME IInv, NEW h \in Threads, GetBackend(h)
  PROVE  IInv'
<1> DEFINE name == job[h].name
<1>1. /\ TypeOK /\ TableInv /\ ThreadOK(h) /\ job[h] \in Job /\ now \in Nat
      /\ pc[h] = "get" /\ Asking(h) /\ UNCHANGED <<table, verdicts, gone, now>>
  BY DEF IInv, TypeOK, GetBackend, Asking
<1>2. CASE /\ name \in Registered
           /\ job' = [job EXCEPT ![h].backend = BackendOf(name)]
           /\ pc' = [pc EXCEPT ![h] = "probe"]
           /\ UNCHANGED <<scan, told>>
  <2>1. PICK k \in DOMAIN table : table[k].name = name /\ BackendOf(name) = table[k].backend
    BY <1>1, <1>2, RegisteredName, BackendOfName
  <2> DEFINE b == table[k].backend
             new == [job[h] EXCEPT !.backend = b]
  <2>2. b \in Nat /\ b \in Objects /\ Present(b)
    BY <1>1, TableFacts DEF TypeOK, Present
  <2>3. /\ new \in Job /\ new.backend = b /\ new.name = name
        /\ new.start = job[h].start /\ new.removed = job[h].removed
    BY <1>1, <2>2 DEF Job
  <2>4. job' = [job EXCEPT ![h] = new]
    BY <1>2, <2>1
  <2> HIDE DEF new, b
  <2>5. pc'[h] = "probe" /\ job'[h] = new
          /\ \A g \in Threads \ {h} : pc'[g] = pc[g] /\ job'[g] = job[g]
    BY <1>1, <1>2, <2>4 DEF TypeOK
  <2>6. TypeOK'
    BY <1>1, <1>2, <2>3, <2>4 DEF TypeOK, PCs, Objects
  <2>7. JobOK(h)'
    <3>1. /\ job'[h].backend = b /\ job'[h].name = job[h].name
          /\ job'[h].start = job[h].start
      BY <2>3, <2>5
    <3>2. SeenAt(job[h].backend, job[h].start)'
      BY <1>1, <2>2, <3>1 DEF SeenAt, Present, Objects
    <3>3. job[h].name \in Names /\ job[h].start <= now /\ job[h].name \in Registered
      BY <1>1, <1>2 DEF ThreadOK, JobOK
    <3>4. Registered' = Registered
      BY <1>1 DEF Registered
    <3> QED
      BY <1>1, <2>5, <3>1, <3>2, <3>3, <3>4 DEF JobOK
  <2>8. ToldOK(h)' /\ ScanOK(h)'
    BY <1>1, <1>2, <2>3, <2>5 DEF ThreadOK, ToldOK, ScanOK, Asking, Present, Objects
  <2> QED
    BY <1>1, <1>2, <2>5, <2>6, <2>7, <2>8, LocalStep DEF ThreadOK
<1>3. CASE Return(h, "absent", 0, 0)
  BY <1>1, <1>3, ReturnOK, VerdictsGrowNot
<1> QED
  BY <1>2, <1>3 DEF GetBackend

LEMMA ProbeOK ==
  ASSUME IInv, NEW h \in Threads, Probe(h)
  PROVE  IInv'
<1> DEFINE name == job[h].name
           b == job[h].backend
           start == job[h].start
           new == NewVerdict(h)
<1>1. /\ TypeOK /\ ThreadOK(h) /\ job[h] \in Job /\ now \in Nat
      /\ start \in Nat /\ b \in Nat /\ job[h].removed \in BOOLEAN
      /\ pc[h] = "probe" /\ Asking(h) /\ UNCHANGED <<table, gone, now>>
      /\ Return(h, "verdict", start, b)
      /\ verdicts' = [n \in DOMAIN verdicts \cup {name} |-> IF n = name THEN new ELSE verdicts[n]]
  BY DEF IInv, TypeOK, Probe, Asking, Job
<1>2. /\ name \in Names /\ start <= now /\ SeenAt(b, start)
      /\ name \in Registered \/ job[h].removed
  BY <1>1 DEF ThreadOK, JobOK
<1>3. /\ new \in Verdict /\ new.at = start /\ new.backend = b /\ new.late = job[h].removed
  BY <1>1 DEF NewVerdict, Verdict
<1> HIDE DEF new
<1>4. VerdictsGrow
  BY <1>1, <1>2, <1>3 DEF VerdictsGrow, TypeOK
<1>5. b \in Objects /\ gone[b] \in Nat
  BY <1>1, <1>2, ObjectFacts DEF SeenAt, TypeOK
<1>6. Present(b) \/ gone[b] > start - HealthTTL
  BY <1>1, <1>2, <1>5, RegistryAssumption DEF SeenAt
<1> QED
  BY <1>1, <1>2, <1>4, <1>5, <1>6, ReturnOK

(* ------------------------------------ walks --------------------------------- *)

LEMMA BeginScanOK ==
  ASSUME IInv, NEW h \in Threads, BeginScan(h)
  PROVE  IInv'
<1> DEFINE new == [on |-> TRUE, size |-> Len(table), touched |-> FALSE, reported |-> <<>>]
<1>1. /\ TypeOK /\ ThreadOK(h) /\ now \in Nat /\ Len(table) \in Nat
      /\ pc[h] = "idle" /\ UNCHANGED <<table, verdicts, gone, job, now>>
      /\ pc' = [pc EXCEPT ![h] = "scan"] /\ scan' = [scan EXCEPT ![h] = new]
      /\ told' = [told EXCEPT ![h] = Nothing]
  BY TableFacts DEF IInv, TypeOK, BeginScan
<1>2. <<>> \in Seq(Names) /\ Len(<<>>) = 0 /\ DOMAIN <<>> = {}
  OBVIOUS
<1>3. new \in Walk /\ Nothing \in Told
  BY <1>1, <1>2 DEF Walk, Told, Nothing
<1>4. /\ pc'[h] = "scan" /\ scan'[h] = new /\ told'[h] = Nothing
      /\ \A g \in Threads \ {h} : pc'[g] = pc[g] /\ scan'[g] = scan[g] /\ told'[g] = told[g]
  BY <1>1 DEF TypeOK
<1>5. TypeOK'
  BY <1>1, <1>3 DEF TypeOK, PCs, Objects
<1>6. JobOK(h)' /\ ToldOK(h)'
  BY <1>1, <1>4 DEF ThreadOK, JobOK, ToldOK, Asking, Nothing
<1>7. ScanOK(h)'
  BY <1>1, <1>2, <1>4 DEF ScanOK, Asking
<1> QED
  BY <1>1, <1>4, <1>5, <1>6, <1>7, LocalStep DEF ThreadOK

LEMMA ScanStepOK ==
  ASSUME IInv, NEW h \in Threads, Scan(h)
  PROVE  IInv'
<1> DEFINE k == Len(scan[h].reported) + 1
<1>1. /\ TypeOK /\ ThreadOK(h) /\ scan[h] \in Walk /\ scan[h].reported \in Seq(Names)
      /\ pc[h] = "scan" /\ UNCHANGED <<table, verdicts, gone, now>>
  BY DEF IInv, TypeOK, Scan, Walk
<1>2. /\ Len(table) \in Nat /\ Len(scan[h].reported) \in Nat
      /\ DOMAIN table = 1..Len(table) /\ \A j \in DOMAIN table : table[j].name \in Names
  BY <1>1, TableFacts, LenProperties DEF TypeOK
<1>3. ASSUME NEW kind \in {"summary", "RuntimeError"}, EndScan(h, kind) PROVE IInv'
  <2> DEFINE new == [Nothing EXCEPT !.kind = kind]
  <2>1. new \in Told /\ new.kind = kind /\ new.start = 0
    BY DEF Nothing, Told
  <2>2. /\ told' = [told EXCEPT ![h] = new] /\ job' = job
        /\ pc' = [pc EXCEPT ![h] = "idle"] /\ scan' = [scan EXCEPT ![h] = NoWalk]
    BY <1>3 DEF EndScan
  <2> HIDE DEF new
  <2> QED
    BY <1>1, <2>1, <2>2, RestOK
<1>4. CASE ~scan[h].touched /\ k <= Len(table) /\ ScanName(h, table[k].name)
  <2>1. k \in DOMAIN table /\ table[k].name \in Names
    BY <1>2, <1>4
  <2>2. Len(scan[h].reported) < Len(table)
    BY <1>2, <1>4
  <2> QED
    BY <1>1, <1>4, <2>1, <2>2, InquireOK DEF ScanName
<1>5. CASE scan[h].touched /\ \E name \in Registered : ScanName(h, name)
  <2>1. PICK name \in Registered : ScanName(h, name)
    BY <1>5
  <2>2. name \in Names
    BY <1>2, <2>1, RegisteredName
  <2> QED
    BY <1>1, <1>5, <2>1, <2>2, InquireOK DEF ScanName
<1> QED
  BY <1>3, <1>4, <1>5 DEF Scan

(* --------------------------------- theorems --------------------------------- *)

LEMMA StutterOK == IInv /\ UNCHANGED vars => IInv'
BY DEF IInv, TypeOK, TableInv, VerdictInv, NoVerdictLeftBehind, ThreadOK, JobOK, ToldOK,
       ScanOK, SeenAt, Present, Objects, Registered, BeingRemoved, Asking, vars

LEMMA NextOK == IInv /\ [Next]_vars => IInv'
<1> SUFFICES ASSUME IInv, [Next]_vars PROVE IInv'
  OBVIOUS
<1>1. ASSUME NEW name \in Names, Register(name) PROVE IInv'
  BY <1>1, RegisterOK
<1>2. ASSUME NEW h \in Threads, NEW name \in Names, UnregisterBackend(h, name) PROVE IInv'
  BY <1>2, UnregisterBackendOK
<1>3. ASSUME NEW h \in Threads, NEW name \in Names, Ask(h, name) PROVE IInv'
  <2>1. pc[h] = "idle" /\ Inquire(h, name) /\ UNCHANGED <<table, verdicts, gone, scan, now>>
    BY <1>3 DEF Ask
  <2>2. ~scan[h].on
    BY <2>1 DEF IInv, ThreadOK, ScanOK
  <2> QED
    BY <2>1, <2>2, InquireOK
<1>4. ASSUME NEW h \in Threads, UnregisterVerdict(h) PROVE IInv'
  BY <1>4, UnregisterVerdictOK
<1>5. ASSUME NEW h \in Threads, Check(h) PROVE IInv'
  <2> DEFINE q == IF job[h].name \in DOMAIN verdicts THEN "read" ELSE "get"
  <2>1. /\ pc[h] = "check" /\ pc' = [pc EXCEPT ![h] = q]
        /\ UNCHANGED <<table, verdicts, gone, job, scan, told, now>>
    BY <1>5 DEF Check
  <2>2. q \in {"read", "get"} /\ (q = "read" => job[h].name \in DOMAIN verdicts)
    OBVIOUS
  <2> HIDE DEF q
  <2> QED
    BY <2>1, <2>2, MoveOK DEF Asking
<1>6. ASSUME NEW h \in Threads, Read(h) PROVE IInv'
  BY <1>6, ReadOK
<1>7. ASSUME NEW h \in Threads, GetBackend(h) PROVE IInv'
  BY <1>7, GetBackendOK
<1>8. ASSUME NEW h \in Threads, Probe(h) PROVE IInv'
  BY <1>8, ProbeOK
<1>9. ASSUME NEW h \in Threads, BeginScan(h) PROVE IInv'
  BY <1>9, BeginScanOK
<1>10. ASSUME NEW h \in Threads, Scan(h) PROVE IInv'
  BY <1>10, ScanStepOK
<1> QED
  BY <1>1, <1>2, <1>3, <1>4, <1>5, <1>6, <1>7, <1>8, <1>9, <1>10, TickOK, StutterOK DEF Next

(* The inductive invariant holds of every behaviour.                          *)
LEMMA Invariance == Spec => []IInv
BY InitOK, NextOK, PTL DEF Spec

(* What the registry, its cache and its callers hold keeps its type.          *)
THEOREM TypeCorrect == Spec => []TypeOK
<1>1. IInv => TypeOK
  BY DEF IInv
<1> QED
  BY <1>1, Invariance, PTL

(* A verdict is about a backend that was registered at a time less than       *)
(* _health_ttl before the call that got it, whatever register and unregister  *)
(* do meanwhile (backend_registry.py:178-196).                                *)
THEOREM VerdictsAreRecent == Spec => []StaleWithinTTL
<1>1. IInv => StaleWithinTTL
  BY DEF IInv, ThreadOK, ToldOK, StaleWithinTTL
<1> QED
  BY <1>1, Invariance, PTL

(* The cache outlives unregister only where a probe overlapped it             *)
(* (backend_registry.py:131-134).                                             *)
THEOREM CacheFollowsTable == Spec => []NoVerdictLeftBehind
<1>1. IInv => NoVerdictLeftBehind
  BY DEF IInv
<1> QED
  BY <1>1, Invariance, PTL

(* Without an unregister of its name in between, is_healthy raises no KeyError*)
(* (backend_registry.py:181).                                                 *)
THEOREM KeyErrorNeedsRemoval == Spec => []KeyErrorOnlyIfRemoved
<1>1. IInv => KeyErrorOnlyIfRemoved
  BY DEF IInv, ThreadOK, ToldOK, KeyErrorOnlyIfRemoved
<1> QED
  BY <1>1, Invariance, PTL

(* A walk ends with everything it was to report, or with a KeyError.          *)
LEMMA SummaryStep ==
  ASSUME IInv, [Next]_vars, NEW h \in Threads,
         scan[h].on, ~scan'[h].on, ~scan[h].touched
  PROVE  \/ /\ told'[h].kind = "summary"
            /\ scan[h].reported = [k \in DOMAIN table |-> table[k].name]
         \/ told'[h].kind = "KeyError" /\ told'[h].removed
<1>1. /\ TypeOK /\ ThreadOK(h) /\ scan[h] \in Walk
      /\ scan[h].reported \in Seq(Names) /\ table \in Seq(Entry)
  BY DEF IInv, TypeOK, Walk
<1>2. ~UNCHANGED scan
  OBVIOUS
<1>3. ~Touch
  <2> SUFFICES ASSUME Touch PROVE FALSE
    OBVIOUS
  <2>1. scan'[h] = [scan[h] EXCEPT !.touched = scan[h].on]
    BY DEF Touch
  <2> QED
    BY <1>1, <2>1 DEF Walk
<1>4. ASSUME NEW g \in Threads, NEW kind, NEW start, NEW b, Return(g, kind, start, b)
      PROVE  FALSE
  BY <1>1, <1>4 DEF Return, TypeOK, Walk
<1>5. ASSUME NEW g \in Threads, Read(g) PROVE RaiseKeyError(h) /\ job[h].removed
  <2>1. /\ pc[g] = "read" /\ RaiseKeyError(g) /\ job[g].name \notin DOMAIN verdicts
    BY <1>2, <1>4, <1>5 DEF Read
  <2>2. g = h
    BY <1>1, <2>1 DEF RaiseKeyError, TypeOK
  <2> QED
    BY <1>1, <2>1, <2>2 DEF ThreadOK, JobOK
<1>6. ASSUME NEW g \in Threads, GetBackend(g) \/ Probe(g) PROVE FALSE
  BY <1>2, <1>4, <1>6 DEF GetBackend, Probe
<1>7. ASSUME NEW g \in Threads, BeginScan(g) PROVE FALSE
  BY <1>1, <1>7 DEF BeginScan, TypeOK
<1>8. ASSUME NEW g \in Threads, Scan(g)
      PROVE  EndScan(h, "summary") /\ Len(scan[h].reported) + 1 > Len(table)
  <2>1. \E kind \in {"summary", "RuntimeError"} : EndScan(g, kind)
    BY <1>2, <1>8 DEF Scan, ScanName
  <2>2. g = h
    BY <1>1, <2>1 DEF EndScan, TypeOK
  <2>3. scan[h].size = Len(table)
    BY <1>1 DEF ThreadOK, ScanOK
  <2> QED
    BY <1>2, <1>8, <2>2, <2>3 DEF Scan, ScanName
<1>9. CASE RaiseKeyError(h) /\ job[h].removed
  BY <1>1, <1>9 DEF RaiseKeyError, TypeOK
<1>10. CASE EndScan(h, "summary") /\ Len(scan[h].reported) + 1 > Len(table)
  <2>1. told'[h].kind = "summary"
    BY <1>1, <1>10 DEF EndScan, TypeOK, Nothing
  <2>2. /\ Len(scan[h].reported) <= Len(table)
        /\ \A k \in DOMAIN scan[h].reported : scan[h].reported[k] = table[k].name
    BY <1>1 DEF ThreadOK, ScanOK
  <2>3. Len(scan[h].reported) \in Nat /\ Len(table) \in Nat
    BY <1>1, LenProperties
  <2>4. Len(scan[h].reported) = Len(table)
    BY <1>10, <2>2, <2>3
  <2>5. DOMAIN scan[h].reported = DOMAIN table
    BY <1>1, <2>4
  <2>6. scan[h].reported = [k \in DOMAIN scan[h].reported |-> scan[h].reported[k]]
    BY <1>1
  <2> QED
    BY <2>1, <2>2, <2>5, <2>6
<1>11. ASSUME NEW name \in Names, Register(name) PROVE FALSE
  BY <1>2, <1>3, <1>11 DEF Register
<1>12. ASSUME NEW g \in Threads, NEW name \in Names, UnregisterBackend(g, name) \/ Ask(g, name)
       PROVE  FALSE
  BY <1>2, <1>3, <1>12 DEF UnregisterBackend, Ask
<1>13. ASSUME NEW g \in Threads, UnregisterVerdict(g) \/ Check(g) PROVE FALSE
  BY <1>2, <1>13 DEF UnregisterVerdict, Check
<1>14. Tick \/ UNCHANGED vars => UNCHANGED scan
  BY DEF Tick, vars
<1> QED
  BY <1>2, <1>5, <1>6, <1>7, <1>8, <1>9, <1>10, <1>11, <1>12, <1>13, <1>14 DEF Next

(* A health_summary during which no name came or went returns all backends in *)
(* their order, or raises the KeyError of a name that was being removed       *)
(* (backend_registry.py:198-206).                                             *)
THEOREM SummaryFollowsTable == Spec => SummaryExact
<1> DEFINE Exact(h) == scan[h].on /\ ~scan'[h].on /\ ~scan[h].touched =>
                         \/ /\ told'[h].kind = "summary"
                            /\ scan[h].reported = [k \in DOMAIN table |-> table[k].name]
                         \/ told'[h].kind = "KeyError" /\ told'[h].removed
<1>1. IInv /\ [Next]_vars => [\A h \in Threads : Exact(h)]_vars
  BY SummaryStep
<1>2. SummaryExact <=> [][\A h \in Threads : Exact(h)]_vars
  BY DEF SummaryExact
<1> HIDE DEF Exact
<1> QED
  BY <1>1, <1>2, Invariance, PTL DEF Spec
===============================================================================
