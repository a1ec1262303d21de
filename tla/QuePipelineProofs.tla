--------------------------- MODULE QuePipelineProofs --------------------------
(* Proofs about QuePipeline, for any runs, stages, lists, orders and edits.   *)
EXTENDS QuePipeline, FiniteSetTheorems, FunctionTheorems, SequenceTheorems,
        NaturalsInduction, TLAPS

(* ------------------------------ the inductive invariant --------------------- *)

(* A run whose list nobody changed: where it is in that list.                 *)
RunOK(t) ==
  /\ pc[t] = "idle" => cursor[t] = 1 /\ log[t] = <<>> /\ upset[t] = "not" /\ success[t]
  /\ pc[t] = "running" => success[t]
  /\ upset[t] = "not" /\ pc[t] # "idle" =>
       /\ Len(log[t]) <= Len(began[t])
       /\ \A k \in DOMAIN log[t] : log[t][k].stage = began[t][k]
       /\ \A k \in 1..(Len(log[t]) - 1) : ~Fatal(log[t][k])
       /\ pc[t] = "running" =>
            /\ lists[walked[t]] = began[t]
            /\ cursor[t] = Len(log[t]) + 1
            /\ \A k \in DOMAIN log[t] : ~Fatal(log[t][k])
       /\ pc[t] = "done" =>
            IF success[t] THEN Len(log[t]) = Len(began[t])
                          ELSE log[t] # <<>> /\ Fatal(log[t][Len(log[t])])

IInv == TypeOK /\ \A t \in Runs : RunOK(t)

(* ---------------------------------- sorting --------------------------------- *)

(* Where a sorted list has what was at place k.                               *)
PlaceOf(kept, key, k) ==
  Cardinality({j \in kept : key[j] < key[k] \/ (key[j] = key[k] /\ j <= k)})

(* Places differ, hence each of them is taken.                                *)
LEMMA EveryPlaceIsTaken ==
  ASSUME NEW kept, IsFiniteSet(kept), kept \subseteq Nat,
         NEW key, \A k \in kept : key[k] \in Int
  PROVE  \A n \in 1..Cardinality(kept) : \E k \in kept : PlaceOf(kept, key, k) = n
<1> DEFINE Before(j, k) == key[j] < key[k] \/ (key[j] = key[k] /\ j <= k)
           Upto(k) == {j \in kept : Before(j, k)}
           place == [k \in kept |-> Cardinality(Upto(k))]
           N == Cardinality(kept)
<1>1. N \in Nat
  BY FS_CardinalityType
<1>2. /\ \A j, k \in kept : Before(j, k) \/ Before(k, j)
      /\ \A j, k \in kept : Before(j, k) /\ Before(k, j) => j = k
      /\ \A i, j, k \in kept : Before(i, j) /\ Before(j, k) => Before(i, k)
  OBVIOUS
<1> HIDE DEF Before
<1>3. \A k \in kept : Upto(k) \in SUBSET kept /\ k \in Upto(k)
  BY <1>2
<1>4. \A k \in kept : place[k] = Cardinality(Upto(k))
  OBVIOUS
<1>5. \A j, k \in kept : Upto(j) \subseteq Upto(k) \/ Upto(k) \subseteq Upto(j)
  BY <1>2
<1>6. \A j, k \in kept : Upto(j) = Upto(k) => j = k
  BY <1>2, <1>3
<1> HIDE DEF Upto, N
<1>7. \A k \in kept : /\ IsFiniteSet(Upto(k)) /\ place[k] \in Nat /\ place[k] <= N
  BY <1>3, <1>4, FS_Subset, FS_CardinalityType DEF N
<1>8. \A k \in kept : place[k] # 0
  BY <1>3, <1>4, <1>7, FS_EmptySet
<1>9. place \in [kept -> 1..N]
  <2>1. \A k \in kept : place[k] \in 1..N
    BY <1>1, <1>7, <1>8
  <2> QED
    BY <2>1
<1>10. ASSUME NEW j \in kept, NEW k \in kept, place[j] = place[k]
       PROVE  j = k
  <2>1. Cardinality(Upto(j)) = Cardinality(Upto(k))
    BY <1>4, <1>10
  <2>2. CASE Upto(j) \subseteq Upto(k)
    BY <1>6, <1>7, <2>1, <2>2, FS_Subset
  <2>3. CASE Upto(k) \subseteq Upto(j)
    BY <1>6, <1>7, <2>1, <2>3, FS_Subset
  <2> QED
    BY <1>5, <2>2, <2>3
<1> HIDE DEF place
<1>11. place \in Injection(kept, 1..N)
  BY <1>9, <1>10, Fun_IsInj
<1>12. IsFiniteSet(1..N) /\ Cardinality(1..N) = N
  BY <1>1, FS_Interval
<1>13. place \in Surjection(kept, 1..N)
  BY <1>11, <1>12, FS_Injection DEF N
<1>14. \A n \in 1..N : \E k \in kept : place[k] = n
  BY <1>13, Fun_SurjectionProperties
<1> QED
  BY <1>4, <1>14 DEF Upto, Before, N, PlaceOf

(* Sorted is a list of as many stages.                                        *)
LEMMA SortedFacts ==
  ASSUME NEW stages \in Seq(Stage), NEW kept \in SUBSET DOMAIN stages,
         NEW key, \A k \in DOMAIN stages : key[k] \in Int
  PROVE  /\ Sorted(stages, kept, key) \in Seq(Stage)
         /\ Len(Sorted(stages, kept, key)) = Cardinality(kept)
<1> DEFINE N == Cardinality(kept)
           place(k) == Cardinality({j \in kept : key[j] < key[k] \/ (key[j] = key[k] /\ j <= k)})
           S == [n \in 1..N |-> stages[CHOOSE k \in kept : place(k) = n]]
<1>1. DOMAIN stages = 1..Len(stages) /\ Len(stages) \in Nat
  BY LenProperties
<1>2. IsFiniteSet(kept) /\ N \in Nat /\ kept \subseteq Nat
  <2>1. IsFiniteSet(DOMAIN stages)
    BY <1>1, FS_Interval
  <2>2. IsFiniteSet(kept)
    BY <2>1, FS_Subset
  <2> QED
    BY <1>1, <2>2, FS_CardinalityType
<1>3. \A n \in 1..N : \E k \in kept : place(k) = n
  <2>1. \A k \in kept : key[k] \in Int
    OBVIOUS
  <2>2. \A n \in 1..N : \E k \in kept : PlaceOf(kept, key, k) = n
    BY <1>2, <2>1, EveryPlaceIsTaken
  <2> QED
    BY <2>2 DEF PlaceOf
<1>4. \A n \in 1..N : (CHOOSE k \in kept : place(k) = n) \in kept
  <2> HIDE DEF place, N
  <2> QED
    BY <1>3
<1>5. \A k \in kept : stages[k] \in Stage
  BY <1>1, ElementOfSeq
<1>6. S \in [1..N -> Stage]
  <2> HIDE DEF place, N
  <2> QED
    BY <1>4, <1>5
<1>7. S \in Seq(Stage) /\ Len(S) = N
  <2> HIDE DEF S, N
  <2>1. S \in Seq(Stage)
    BY <1>2, <1>6, SeqDef
  <2>2. DOMAIN S = 1..N
    BY <1>6
  <2> QED
    BY <1>2, <2>1, <2>2, LenProperties
<1>8. Sorted(stages, kept, key) = S
  BY DEF Sorted
<1> QED
  BY <1>7, <1>8

LEMMA OnlyFacts ==
  ASSUME NEW stages \in Seq(Stage), NEW names
  PROVE  Only(stages, names) \in Seq(Stage)
<1> DEFINE kept == {k \in DOMAIN stages : stages[k].name \in names}
           key == [k \in DOMAIN stages |-> 0]
<1>1. kept \in SUBSET DOMAIN stages /\ \A k \in DOMAIN stages : key[k] \in Int
  OBVIOUS
<1> HIDE DEF kept, key
<1>2. Sorted(stages, kept, key) \in Seq(Stage)
  BY <1>1, SortedFacts
<1> QED
  BY <1>2 DEF Only, Filtered, kept, key

(* A name that is in the order has a last place there.                        *)
LEMMA RankIsInt ==
  ASSUME NEW name, NEW order, Len(order) \in Nat, DOMAIN order = 1..Len(order)
  PROVE  Rank(name, order) \in Int
<1>1. CASE \E i \in DOMAIN order : order[i] = name
  <2> DEFINE R == {ss \in Nat \X Nat : ss[1] < ss[2]}
             back == {n \in Nat : \E i \in DOMAIN order : order[i] = name /\ n = Len(order) - i}
  <2>1. IsWellFoundedOn(R, Nat)
    BY NatLessThanWellFounded DEF OpToRel
  <2>2. back # {} /\ back \subseteq Nat
    <3>1. PICK i \in DOMAIN order : order[i] = name
      BY <1>1
    <3>2. Len(order) - i \in Nat
      OBVIOUS
    <3> QED
      BY <3>1, <3>2
  <2>3. PICK m \in back : \A n \in back : <<n, m>> \notin R
    <3> HIDE DEF back, R
    <3> QED
      BY <2>1, <2>2, WFMin
  <2>4. PICK i \in DOMAIN order : order[i] = name /\ m = Len(order) - i
    OBVIOUS
  <2>5. ASSUME NEW j \in DOMAIN order, order[j] = name PROVE j <= i
    <3>1. Len(order) - j \in back
      BY <2>5
    <3>2. ~(Len(order) - j < m)
      BY <2>3, <3>1
    <3> QED
      BY <2>4, <3>2
  <2>6. \E k \in DOMAIN order :
          order[k] = name /\ \A j \in DOMAIN order : order[j] = name => j <= k
    BY <2>4, <2>5
  <2>7. Rank(name, order) \in DOMAIN order
    BY <1>1, <2>6 DEF Rank
  <2> QED
    BY <2>7
<1>2. CASE ~\E i \in DOMAIN order : order[i] = name
  BY <1>2 DEF Rank
<1> QED
  BY <1>1, <1>2

(* ----------------------------------- steps ---------------------------------- *)

LEMMA PresetFacts ==
  /\ PresetIcar \in Seq(Stage)
  /\ PresetRetrievalOnly \in Seq(Stage)
  /\ PresetIntentThenRetrieve \in Seq(Stage)
<1>1. \A name \in PresetNames, required \in BOOLEAN : Preset(name, required) \in Stage
  BY DEF Preset, Stage
<1>2. /\ Preset("intent", TRUE) \in Stage /\ Preset("rewrite", FALSE) \in Stage
      /\ Preset("plan", TRUE) \in Stage /\ Preset("execute", TRUE) \in Stage
      /\ Preset("synthesize", TRUE) \in Stage
  BY <1>1 DEF PresetNames
<1>3. PresetIcar \in Seq(Stage) /\ PresetIntentThenRetrieve \in Seq(Stage)
  <2>1. \A a, b, c, d, e \in Stage : <<a, b, c, d, e>> \in Seq(Stage) /\ <<a>> \in Seq(Stage)
    OBVIOUS
  <2> QED
    BY <1>2, <2>1 DEF PresetIcar, PresetIntentThenRetrieve
<1> QED
  BY <1>3, OnlyFacts DEF PresetRetrievalOnly, Without

LEMMA InitOK == Init => IInv
<1> SUFFICES ASSUME Init PROVE IInv
  OBVIOUS
<1>1. PICK stages \in Seq(Stage) : lists = <<stages>>
  BY PresetFacts, PipelineAssumption DEF Init
<1>2. lists \in Seq(Seq(Stage)) /\ DOMAIN lists = {1} /\ lists[1] = stages
  BY <1>1
<1>3. Len(stages) \in Nat
  BY LenProperties
<1>4. <<>> \in Seq(Entry) /\ <<>> \in Seq(Stage)
  OBVIOUS
<1>5. TypeOK
  BY <1>2, <1>3, <1>4 DEF Init, TypeOK
<1>6. \A t \in Runs : RunOK(t)
  BY DEF Init, RunOK
<1> QED
  BY <1>5, <1>6 DEF IInv

(* The list objects.                                                          *)
LEMMA ListFacts ==
  ASSUME TypeOK
  PROVE  /\ Len(lists) \in Nat /\ DOMAIN lists = 1..Len(lists)
         /\ \A i \in DOMAIN lists : lists[i] \in Seq(Stage) /\ Len(lists[i]) \in Nat
         /\ Stages \in Seq(Stage) /\ Len(Stages) \in Nat
<1>1. Len(lists) \in Nat /\ DOMAIN lists = 1..Len(lists)
  BY LenProperties DEF TypeOK
<1>2. \A i \in DOMAIN lists : lists[i] \in Seq(Stage)
  BY <1>1, ElementOfSeq DEF TypeOK
<1>3. \A i \in DOMAIN lists : Len(lists[i]) \in Nat
  BY <1>2, LenProperties
<1> QED
  BY <1>1, <1>2, <1>3 DEF TypeOK, Stages

(* A list that changes in place does not become shorter, and upsets the runs  *)
(* that walk over it.                                                         *)
LEMMA InPlaceOK ==
  ASSUME IInv, UNCHANGED runVars, edits' \in Nat,
         NEW stages \in Seq(Stage), Len(stages) >= Len(Stages),
         NEW how \in {"grown", "shuffled"}, InPlace(stages, how)
  PROVE  IInv'
<1>1. /\ TypeOK /\ current \in DOMAIN lists /\ lists \in Seq(Seq(Stage))
      /\ UNCHANGED <<pc, walked, cursor, log, success, began, current>>
      /\ lists' = [lists EXCEPT ![current] = stages]
  BY DEF IInv, TypeOK, InPlace, runVars
<1>2. /\ Len(lists) \in Nat /\ DOMAIN lists = 1..Len(lists) /\ Len(Stages) \in Nat
      /\ \A i \in DOMAIN lists : Len(lists[i]) \in Nat
  BY <1>1, ListFacts
<1>3. lists' \in Seq(Seq(Stage)) /\ Len(lists') = Len(lists) /\ DOMAIN lists' = DOMAIN lists
        /\ \A i \in DOMAIN lists : lists'[i] = IF i = current THEN stages ELSE lists[i]
  <2>1. lists' \in Seq(Seq(Stage)) /\ Len(lists') = Len(lists)
    BY <1>1, <1>2, ExceptSeq
  <2> QED
    BY <1>1, <2>1
<1>4. Len(stages) \in Nat
  BY LenProperties
<1>5. \A t \in Runs : upset'[t] = IF pc[t] = "running" /\ walked[t] = current /\ upset[t] # "shuffled"
                                  THEN how ELSE upset[t]
  BY DEF InPlace
<1>6. TypeOK'
  <2>1. upset' \in [Runs -> {"not", "grown", "shuffled"}]
    BY <1>1 DEF InPlace, TypeOK
  <2>2. ASSUME NEW t \in Runs
        PROVE  cursor[t] \in 1..(Len(lists'[walked[t]]) + 1)
    <3>1. cursor[t] \in 1..(Len(lists[walked[t]]) + 1) /\ walked[t] \in DOMAIN lists
      BY <1>1 DEF TypeOK
    <3>2. CASE walked[t] = current
      <4>1. lists'[walked[t]] = stages /\ lists[walked[t]] = Stages
        BY <1>1, <1>3, <3>2 DEF Stages
      <4> QED
        BY <1>2, <1>4, <3>1, <4>1
    <3>3. CASE walked[t] # current
      BY <1>3, <3>1, <3>3
    <3> QED
      BY <3>2, <3>3
  <2> QED
    BY <1>1, <1>3, <2>1, <2>2 DEF TypeOK
<1>7. ASSUME NEW t \in Runs PROVE RunOK(t)'
  <2>1. RunOK(t) /\ walked[t] \in DOMAIN lists
    BY <1>1 DEF IInv, TypeOK
  <2>2. upset'[t] = "not" /\ pc[t] = "running" => lists'[walked[t]] = lists[walked[t]]
    BY <1>3, <1>5, <2>1
  <2>3. upset'[t] = "not" => upset[t] = "not"
    BY <1>5
  <2>4. pc[t] = "idle" => upset'[t] = upset[t]
    BY <1>5
  <2> QED
    BY <1>1, <2>1, <2>2, <2>3, <2>4 DEF RunOK
<1> QED
  BY <1>6, <1>7 DEF IInv

(* A new list is nobody's yet.                                                *)
LEMMA RebindOK ==
  ASSUME IInv, UNCHANGED runVars, edits' \in Nat, NEW stages \in Seq(Stage), Rebind(stages)
  PROVE  IInv'
<1>1. /\ TypeOK /\ lists \in Seq(Seq(Stage))
      /\ UNCHANGED <<pc, walked, cursor, log, success, began, upset>>
      /\ lists' = Append(lists, stages) /\ current' = Len(lists) + 1
  BY DEF IInv, TypeOK, Rebind, runVars
<1>2. Len(lists) \in Nat /\ DOMAIN lists = 1..Len(lists)
  BY <1>1, ListFacts
<1>3. /\ lists' \in Seq(Seq(Stage)) /\ Len(lists') = Len(lists) + 1
      /\ \A i \in 1..Len(lists) : lists'[i] = lists[i]
  BY <1>1, <1>2, AppendProperties
<1>4. DOMAIN lists' = 1..(Len(lists) + 1)
  BY <1>3, LenProperties
<1>5. \A t \in Runs : walked[t] \in DOMAIN lists' /\ lists'[walked[t]] = lists[walked[t]]
  BY <1>1, <1>2, <1>3, <1>4 DEF TypeOK
<1>6. TypeOK'
  BY <1>1, <1>2, <1>3, <1>4, <1>5 DEF TypeOK
<1>7. ASSUME NEW t \in Runs PROVE RunOK(t)'
  BY <1>1, <1>5 DEF IInv, RunOK
<1> QED
  BY <1>6, <1>7 DEF IInv

(* ----------------------------------- edits ---------------------------------- *)

(* A stage is put in behind the first at; those behind it move by one place.  *)
LEMMA InsertedFacts ==
  ASSUME NEW stages \in Seq(Stage), NEW stage \in Stage, NEW at \in 0..Len(stages)
  PROVE  /\ Inserted(stages, at, stage) \in Seq(Stage)
         /\ Len(Inserted(stages, at, stage)) = Len(stages) + 1
         /\ \A k \in 1..at : Inserted(stages, at, stage)[k] = stages[k]
         /\ \A k \in (at + 1)..Len(stages) : Inserted(stages, at, stage)[k + 1] = stages[k]
<1> DEFINE f == SubSeq(stages, 1, at)
           g == SubSeq(stages, at + 1, Len(stages))
           n == Len(stages)
<1>1. n \in Nat /\ at \in Nat /\ at <= n
  BY LenProperties
<1>2. f \in Seq(Stage) /\ Len(f) = at /\ \A k \in 1..at : f[k] = stages[k]
  BY <1>1, SubSeqProperties
<1>3. g \in Seq(Stage) /\ Len(g) = n - at /\ \A k \in 1..(n - at) : g[k] = stages[at + k]
  BY <1>1, SubSeqProperties
<1>4. <<stage>> \in Seq(Stage) /\ Len(<<stage>>) = 1
  OBVIOUS
<1> HIDE DEF f, g, n
<1> DEFINE h == f \o <<stage>>
<1>5. h \in Seq(Stage) /\ Len(h) = at + 1 /\ \A k \in 1..at : h[k] = f[k]
  <2>1. /\ h \in Seq(Stage) /\ Len(h) = Len(f) + Len(<<stage>>)
        /\ \A k \in 1..(Len(f) + Len(<<stage>>)) :
             h[k] = IF k <= Len(f) THEN f[k] ELSE <<stage>>[k - Len(f)]
    BY <1>2, <1>4, ConcatProperties, Zenon
  <2> HIDE DEF h
  <2> QED
    BY <1>1, <1>2, <1>4, <2>1
<1> HIDE DEF h
<1>6. /\ h \o g \in Seq(Stage) /\ Len(h \o g) = Len(h) + Len(g)
      /\ \A k \in 1..(Len(h) + Len(g)) : (h \o g)[k] = IF k <= Len(h) THEN h[k] ELSE g[k - Len(h)]
  BY <1>3, <1>5, ConcatProperties, Zenon
<1> DEFINE new == h \o g
<1> HIDE DEF new
<1>7. /\ new \in Seq(Stage) /\ Len(new) = n + 1
      /\ \A k \in 1..(n + 1) : new[k] = IF k <= at + 1 THEN h[k] ELSE g[k - (at + 1)]
  BY <1>1, <1>3, <1>5, <1>6 DEF new
<1>8. \A k \in 1..at : new[k] = stages[k]
  BY <1>1, <1>2, <1>5, <1>7
<1>9. ASSUME NEW k \in (at + 1)..n PROVE new[k + 1] = stages[k]
  <2>1. /\ k + 1 \in 1..(n + 1) /\ ~(k + 1 <= at + 1)
        /\ (k + 1) - (at + 1) = k - at /\ k - at \in 1..(n - at) /\ at + (k - at) = k
    BY <1>1
  <2>2. new[k + 1] = g[k - at]
    BY <1>7, <2>1
  <2>3. g[k - at] = stages[at + (k - at)]
    BY <1>3, <2>1
  <2> QED
    BY <2>1, <2>2, <2>3
<1> QED
  BY <1>7, <1>8, <1>9 DEF Inserted, f, g, h, n, new

LEMMA EditOK ==
  ASSUME IInv,
         \/ \E stage \in [name : Names, required : BOOLEAN], position \in -1..2 :
              AddStage(stage, position)
         \/ \E name \in Names : RemoveStage(name)
         \/ \E name \in Names, stage \in [name : Names, required : BOOLEAN] :
              ReplaceStage(name, stage)
         \/ \E order \in Orders : Reorder(order)
         \/ \E known \in SUBSET Names : Reload(known)
  PROVE  IInv'
<1>1. TypeOK /\ edits \in Nat /\ Stages \in Seq(Stage) /\ Len(Stages) \in Nat
        /\ DOMAIN Stages = 1..Len(Stages)
  BY ListFacts, LenProperties DEF IInv, TypeOK
<1>2. Edit => UNCHANGED runVars /\ edits' \in Nat
  BY <1>1 DEF Edit
<1>3. [name : Names, required : BOOLEAN] \subseteq Stage
  BY DEF Stage
<1>4. ASSUME NEW stage \in Stage, NEW position \in -1..2, AddStage(stage, position)
      PROVE  IInv'
  <2> DEFINE at == IF position < 0 \/ position >= Len(Stages) THEN Len(Stages) ELSE position
  <2>1. at \in 0..Len(Stages)
    BY <1>1
  <2>2. Edit /\ InPlace(Inserted(Stages, at, stage), "grown")
    BY <1>4 DEF AddStage
  <2> HIDE DEF at
  <2>3. /\ Inserted(Stages, at, stage) \in Seq(Stage)
        /\ Len(Inserted(Stages, at, stage)) = Len(Stages) + 1
    BY <1>1, <2>1, InsertedFacts
  <2> QED
    BY <1>1, <1>2, <2>2, <2>3, InPlaceOK
<1>5. ASSUME NEW name \in Names, RemoveStage(name) PROVE IInv'
  BY <1>1, <1>2, <1>5, OnlyFacts, RebindOK DEF RemoveStage, Without
<1>6. ASSUME NEW name \in Names, NEW stage \in Stage, ReplaceStage(name, stage) PROVE IInv'
  <2>1. CASE \E k \in DOMAIN Stages : InPlace([Stages EXCEPT ![k] = stage], "shuffled")
    <3>1. PICK k \in DOMAIN Stages : InPlace([Stages EXCEPT ![k] = stage], "shuffled")
      BY <2>1
    <3>2. /\ [Stages EXCEPT ![k] = stage] \in Seq(Stage)
          /\ Len([Stages EXCEPT ![k] = stage]) = Len(Stages)
      BY <1>1, ExceptSeq
    <3>3. Edit
      BY <1>6 DEF ReplaceStage
    <3> DEFINE new == [Stages EXCEPT ![k] = stage]
    <3>4. new \in Seq(Stage) /\ Len(new) = Len(Stages) /\ InPlace(new, "shuffled")
      BY <3>1, <3>2
    <3> HIDE DEF new
    <3> QED
      BY <1>1, <1>2, <3>3, <3>4, InPlaceOK
  <2>2. CASE UNCHANGED <<lists, current, upset>>
    <3>1. UNCHANGED <<pc, walked, cursor, log, success, began>> /\ edits' \in Nat
      BY <1>2, <1>6 DEF ReplaceStage, runVars
    <3> QED
      BY <2>2, <3>1 DEF IInv, TypeOK, RunOK
  <2> QED
    BY <1>6, <2>1, <2>2 DEF ReplaceStage
<1>7. ASSUME NEW order \in Orders, Reorder(order) PROVE IInv'
  <2> DEFINE key == [k \in DOMAIN Stages |-> Rank(Stages[k].name, order)]
  <2>1. Len(order) \in Nat /\ DOMAIN order = 1..Len(order)
    BY PipelineAssumption, LenProperties
  <2>2. \A k \in DOMAIN Stages : key[k] \in Int
    BY <2>1, RankIsInt
  <2>3. Edit /\ InPlace(Sorted(Stages, DOMAIN Stages, key), "shuffled")
    BY <1>7 DEF Reorder
  <2> HIDE DEF key
  <2>4. /\ Sorted(Stages, DOMAIN Stages, key) \in Seq(Stage)
        /\ Len(Sorted(Stages, DOMAIN Stages, key)) = Cardinality(DOMAIN Stages)
    BY <1>1, <2>2, SortedFacts
  <2>5. Cardinality(DOMAIN Stages) = Len(Stages)
    <3>1. Len(Stages) \in Nat /\ DOMAIN Stages = 1..Len(Stages)
      BY <1>1, LenProperties
    <3> HIDE DEF Stages
    <3>2. \A n \in Nat : Cardinality(1..n) = n
      <4> TAKE n \in Nat
      <4>1. Cardinality(1..n) = IF 1 > n THEN 0 ELSE n - 1 + 1
        BY FS_Interval
      <4> QED
        BY <4>1
    <3> QED
      BY <3>1, <3>2
  <2> QED
    BY <1>1, <1>2, <2>3, <2>4, <2>5, InPlaceOK
<1>8. ASSUME NEW known \in SUBSET Names, Reload(known) PROVE IInv'
  BY <1>1, <1>2, <1>8, OnlyFacts, RebindOK DEF Reload
<1> QED
  BY <1>3, <1>4, <1>5, <1>6, <1>7, <1>8

(* ----------------------------------- run() ---------------------------------- *)

(* A step of one run, which moves its cursor within its list.                 *)
LEMMA RunStep ==
  ASSUME IInv, NEW t \in Runs, UNCHANGED <<lists, current, edits, upset>>, TypeOK',
         \A u \in Runs \ {t} :
           /\ pc'[u] = pc[u] /\ walked'[u] = walked[u] /\ cursor'[u] = cursor[u]
           /\ log'[u] = log[u] /\ success'[u] = success[u] /\ began'[u] = began[u],
         RunOK(t)'
  PROVE  IInv'
<1>1. ASSUME NEW u \in Runs \ {t} PROVE RunOK(u)'
  BY DEF IInv, RunOK
<1> QED
  BY <1>1 DEF IInv

LEMMA BeginOK ==
  ASSUME IInv, NEW t \in Runs, Run(t)
  PROVE  IInv'
<1>1. /\ TypeOK /\ RunOK(t) /\ pc[t] = "idle" /\ Stages \in Seq(Stage) /\ Len(Stages) \in Nat
      /\ UNCHANGED <<lists, current, edits, cursor, log, success, upset>>
      /\ pc' = [pc EXCEPT ![t] = "running"] /\ walked' = [walked EXCEPT ![t] = current]
      /\ began' = [began EXCEPT ![t] = Stages]
  BY ListFacts DEF IInv, Run
<1>2. /\ pc'[t] = "running" /\ walked'[t] = current /\ began'[t] = Stages
      /\ \A u \in Runs \ {t} : pc'[u] = pc[u] /\ walked'[u] = walked[u] /\ began'[u] = began[u]
  BY <1>1 DEF TypeOK
<1>3. cursor[t] = 1 /\ log[t] = <<>> /\ success[t]
  BY <1>1 DEF RunOK
<1>4. TypeOK'
  <2>1. ASSUME NEW u \in Runs
        PROVE  cursor[u] \in 1..(Len(lists[walked'[u]]) + 1)
    <3>1. CASE u = t
      BY <1>1, <1>2, <1>3, <3>1 DEF Stages
    <3>2. CASE u # t
      BY <1>1, <1>2, <3>2 DEF TypeOK
    <3> QED
      BY <3>1, <3>2
  <2> QED
    BY <1>1, <2>1 DEF TypeOK
<1>5. Len(<<>>) = 0 /\ DOMAIN <<>> = {} /\ 1..(0 - 1) = {}
  OBVIOUS
<1>6. RunOK(t)'
  BY <1>1, <1>2, <1>3, <1>5 DEF RunOK, Stages
<1> QED
  BY <1>1, <1>2, <1>4, <1>6, RunStep

LEMMA VisitOK ==
  ASSUME IInv, NEW t \in Runs, Visit(t)
  PROVE  IInv'
<1> DEFINE L == lists[walked[t]]
           stage == L[cursor[t]]
<1>1. /\ TypeOK /\ RunOK(t) /\ pc[t] = "running" /\ cursor[t] <= Len(L)
      /\ walked[t] \in DOMAIN lists /\ cursor[t] \in 1..(Len(L) + 1)
      /\ log[t] \in Seq(Entry) /\ began[t] \in Seq(Stage)
      /\ UNCHANGED <<lists, current, edits, walked, began, upset>>
  <2>1. TypeOK /\ RunOK(t) /\ pc[t] = "running" /\ ~Exhausted(t)
          /\ UNCHANGED <<lists, current, edits, walked, began, upset>>
    BY DEF IInv, Visit
  <2>2. walked[t] \in DOMAIN lists /\ cursor[t] \in 1..(Len(L) + 1)
          /\ log[t] \in Seq(Entry) /\ began[t] \in Seq(Stage)
    BY <2>1 DEF TypeOK
  <2>3. Len(L) \in Nat
    BY <2>1, <2>2, ListFacts
  <2> QED
    BY <2>1, <2>2, <2>3 DEF Exhausted
<1>2. L \in Seq(Stage) /\ Len(L) \in Nat /\ Len(log[t]) \in Nat /\ Len(began[t]) \in Nat
        /\ DOMAIN log[t] = 1..Len(log[t])
  BY <1>1, ListFacts, LenProperties
<1>3. stage \in Stage
  BY <1>1, <1>2, ElementOfSeq
<1>4. PICK how \in Ended :
        LET stops == how = "failed" /\ stage.required
        IN /\ log' = [log EXCEPT ![t] = Append(log[t], [stage |-> stage, how |-> how])]
           /\ cursor' = [cursor EXCEPT ![t] = cursor[t] + 1]
           /\ success' = [success EXCEPT ![t] = ~stops]
           /\ pc' = [pc EXCEPT ![t] = IF stops THEN "done" ELSE "running"]
  BY DEF Visit, Outcomes
<1> DEFINE e == [stage |-> stage, how |-> how]
           stops == how = "failed" /\ stage.required
           new == Append(log[t], e)
<1> HIDE DEF stage
<1>5. e \in Entry /\ e.stage = stage /\ e.how = how /\ stage.required \in BOOLEAN
        /\ (Fatal(e) <=> stops)
  BY <1>3 DEF Entry, Stage, Fatal
<1>6. stops \in BOOLEAN
  OBVIOUS
<1> HIDE DEF e
<1>7. /\ new \in Seq(Entry) /\ Len(new) = Len(log[t]) + 1
      /\ \A k \in 1..Len(log[t]) : new[k] = log[t][k]
      /\ new[Len(log[t]) + 1] = e
  BY <1>1, <1>2, <1>5, AppendProperties
<1>8. DOMAIN new = 1..(Len(log[t]) + 1)
  BY <1>7, LenProperties
<1> HIDE DEF new, stops
<1>9. /\ log' = [log EXCEPT ![t] = new] /\ cursor' = [cursor EXCEPT ![t] = cursor[t] + 1]
      /\ success' = [success EXCEPT ![t] = ~stops]
      /\ pc' = [pc EXCEPT ![t] = IF stops THEN "done" ELSE "running"]
  BY <1>4 DEF new, e, stops, stage
<1>10. /\ log'[t] = new /\ cursor'[t] = cursor[t] + 1 /\ success'[t] = ~stops
       /\ pc'[t] = (IF stops THEN "done" ELSE "running")
       /\ \A u \in Runs \ {t} : /\ pc'[u] = pc[u] /\ cursor'[u] = cursor[u]
                                /\ log'[u] = log[u] /\ success'[u] = success[u]
  BY <1>1, <1>9 DEF TypeOK
<1>11. TypeOK'
  <2>1. cursor' \in [Runs -> Nat] /\ log' \in [Runs -> Seq(Entry)] /\ success' \in [Runs -> BOOLEAN]
          /\ pc' \in [Runs -> {"idle", "running", "done"}]
    BY <1>1, <1>6, <1>7, <1>9 DEF TypeOK, stops
  <2>2. ASSUME NEW u \in Runs
        PROVE  cursor'[u] \in 1..(Len(lists[walked[u]]) + 1)
    <3>1. CASE u = t
      BY <1>1, <1>2, <1>10, <3>1
    <3>2. CASE u # t
      BY <1>1, <1>10, <3>2 DEF TypeOK
    <3> QED
      BY <3>1, <3>2
  <2> QED
    BY <1>1, <2>1, <2>2 DEF TypeOK
<1>12. RunOK(t)'
  <2>1. pc'[t] # "idle" /\ (pc'[t] = "running" => success'[t])
    BY <1>10
  <2>2. ASSUME upset[t] = "not"
        PROVE  /\ Len(new) <= Len(began[t])
               /\ \A k \in DOMAIN new : new[k].stage = began[t][k]
               /\ \A k \in 1..(Len(new) - 1) : ~Fatal(new[k])
               /\ L = began[t] /\ cursor[t] + 1 = Len(new) + 1
               /\ Fatal(new[Len(new)]) <=> stops
               /\ new # <<>>
    <3>1. /\ \A k \in DOMAIN log[t] : log[t][k].stage = began[t][k] /\ ~Fatal(log[t][k])
          /\ L = began[t] /\ cursor[t] = Len(log[t]) + 1
      BY <1>1, <2>2 DEF RunOK
    <3>2. e.stage = began[t][Len(log[t]) + 1]
      BY <1>5, <3>1 DEF stage
    <3>3. Len(new) <= Len(began[t]) /\ Len(new) - 1 = Len(log[t])
      BY <1>1, <1>2, <1>7, <3>1
    <3>4. \A k \in DOMAIN new : new[k].stage = began[t][k]
      BY <1>2, <1>7, <1>8, <3>1, <3>2
    <3>5. \A k \in 1..(Len(new) - 1) : ~Fatal(new[k])
      BY <1>2, <1>7, <3>1, <3>3
    <3>6. new # <<>>
      <4>1. Len(<<>>) = 0
        OBVIOUS
      <4> QED
        BY <1>2, <1>7, <4>1
    <3> QED
      BY <1>2, <1>5, <1>7, <3>1, <3>3, <3>4, <3>5, <3>6
  <2>3. CASE stops
    BY <1>1, <1>10, <2>1, <2>2, <2>3 DEF RunOK
  <2>4. CASE ~stops
    <3>1. upset[t] = "not" => \A k \in DOMAIN new : ~Fatal(new[k])
      BY <1>2, <1>5, <1>7, <1>8, <2>2, <2>4
    <3> QED
      BY <1>1, <1>10, <2>1, <2>2, <2>4, <3>1 DEF RunOK
  <2> QED
    BY <2>3, <2>4
<1> QED
  BY <1>1, <1>10, <1>11, <1>12, RunStep

LEMMA EndRunOK ==
  ASSUME IInv, NEW t \in Runs, EndRun(t)
  PROVE  IInv'
<1>1. /\ TypeOK /\ RunOK(t) /\ pc[t] = "running" /\ Exhausted(t)
      /\ pc' = [pc EXCEPT ![t] = "done"]
      /\ UNCHANGED <<lists, current, edits, walked, cursor, log, success, began, upset>>
  BY DEF IInv, EndRun
<1>2. pc'[t] = "done" /\ \A u \in Runs \ {t} : pc'[u] = pc[u]
  BY <1>1 DEF TypeOK
<1>3. TypeOK'
  BY <1>1 DEF TypeOK
<1>4. ASSUME upset[t] = "not" PROVE Len(log[t]) = Len(began[t])
  <2>1. log[t] \in Seq(Entry) /\ began[t] \in Seq(Stage)
    BY <1>1 DEF TypeOK
  <2>2. Len(log[t]) \in Nat /\ Len(began[t]) \in Nat
    BY <2>1, LenProperties
  <2> QED
    BY <1>1, <1>4, <2>2 DEF RunOK, Exhausted
<1>5. RunOK(t)'
  BY <1>1, <1>2, <1>4 DEF RunOK
<1> QED
  BY <1>1, <1>2, <1>3, <1>5, RunStep

(* --------------------------------- theorems --------------------------------- *)

LEMMA NextOK == IInv /\ [Next]_vars => IInv'
<1> SUFFICES ASSUME IInv, [Next]_vars PROVE IInv'
  OBVIOUS
<1>1. CASE UNCHANGED vars
  BY <1>1 DEF IInv, TypeOK, RunOK, vars, runVars
<1>2. CASE Next
  BY <1>2, EditOK, BeginOK, VisitOK, EndRunOK DEF Next
<1> QED
  BY <1>1, <1>2

(* The inductive invariant holds of every behaviour.                          *)
LEMMA Invariance == Spec => []IInv
BY InitOK, NextOK, PTL DEF Spec

(* The lists, the runs and their results keep their type; the cursor of a run *)
(* is never more than one past the end of its list.                           *)
THEOREM TypeCorrect == Spec => []TypeOK
<1>1. IInv => TypeOK
  BY DEF IInv
<1> QED
  BY <1>1, Invariance, PTL

(* What a run visited, as a part of the list it began with.                   *)
LEMMA VisitedPrefix ==
  ASSUME TypeOK, NEW t \in Runs, Len(log[t]) <= Len(began[t]),
         \A k \in DOMAIN log[t] : log[t][k].stage = began[t][k]
  PROVE  Visited(t) = SubSeq(began[t], 1, Len(log[t]))
<1> DEFINE n == Len(log[t])
           v == [k \in 1..n |-> log[t][k].stage]
<1>1. log[t] \in Seq(Entry) /\ began[t] \in Seq(Stage)
  BY DEF TypeOK
<1>2. n \in Nat /\ Len(began[t]) \in Nat /\ DOMAIN log[t] = 1..n
  BY <1>1, LenProperties
<1>3. /\ SubSeq(began[t], 1, n) \in Seq(Stage) /\ Len(SubSeq(began[t], 1, n)) = n
      /\ \A k \in 1..n : SubSeq(began[t], 1, n)[k] = began[t][k]
  BY <1>1, <1>2, SubSeqProperties
<1>4. \A k \in 1..n : log[t][k] \in Entry /\ log[t][k].stage \in Stage
  <2>1. \A k \in 1..n : log[t][k] \in Entry
    BY <1>1, <1>2, ElementOfSeq
  <2>2. \A e \in Entry : e.stage \in Stage
    BY DEF Entry
  <2> QED
    BY <2>1, <2>2
<1>5. v \in Seq(Stage) /\ Len(v) = n
  <2>1. v \in [1..n -> Stage]
    BY <1>4
  <2>2. v \in Seq(Stage)
    BY <1>2, <2>1, SeqDef
  <2>3. DOMAIN v = 1..n
    OBVIOUS
  <2> QED
    BY <1>2, <2>2, <2>3, LenProperties
<1>6. \A k \in 1..n : v[k] = SubSeq(began[t], 1, n)[k]
  BY <1>2, <1>3
<1>7. Visited(t) = v
  BY <1>2 DEF Visited
<1> HIDE DEF v, n
<1> QED
  BY <1>3, <1>5, <1>6, <1>7, SeqEqual DEF n

(* A run that nobody upsets deals with the stages it began with, in their     *)
(* order, each once, up to the first required one that fails, whatever is     *)
(* removed or rebuilt meanwhile (pipeline.py:85,110).                         *)
THEOREM RunsFollowTheirLists == Spec => []FollowsItsList
<1>1. IInv => FollowsItsList
  <2> SUFFICES ASSUME IInv, NEW t \in Runs, pc[t] # "idle", upset[t] = "not"
               PROVE  /\ Visited(t) = SubSeq(began[t], 1, Len(log[t]))
                      /\ \A k \in 1..(Len(log[t]) - 1) : ~Fatal(log[t][k])
                      /\ pc[t] = "done" =>
                           IF success[t] THEN Len(log[t]) = Len(began[t])
                                         ELSE log[t] # <<>> /\ Fatal(log[t][Len(log[t])])
    BY DEF FollowsItsList
  <2>1. RunOK(t) /\ TypeOK
    BY DEF IInv
  <2> QED
    BY <2>1, VisitedPrefix DEF RunOK
<1> QED
  BY <1>1, Invariance, PTL

(* ----------------------------- nothing passed over -------------------------- *)

(* The stages of s are, in their order and maybe among others, what is done   *)
(* and what comes from next on in the list: f counts the visits of both.      *)
StillComes(s, done, list, next) ==
  \E f \in [DOMAIN s -> Nat] :
    /\ \A i, j \in DOMAIN s : i < j => f[i] < f[j]
    /\ \A i \in DOMAIN s :
         \/ f[i] \in DOMAIN done /\ done[f[i]].stage = s[i]
         \/ /\ f[i] > Len(done)
            /\ f[i] - Len(done) + next - 1 \in DOMAIN list
            /\ list[f[i] - Len(done) + next - 1] = s[i]

(* What a run began with is still to come as long as it runs.                 *)
PassesNone(t) ==
  upset[t] # "shuffled" =>
    /\ pc[t] = "running" => StillComes(began[t], log[t], lists[walked[t]], cursor[t])
    /\ pc[t] = "done" /\ success[t] => IsWithin(began[t], Visited(t))

(* All of a list comes when it is walked from its first place.                *)
LEMMA ComesAtFirst ==
  ASSUME NEW s \in Seq(Stage)
  PROVE  StillComes(s, <<>>, s, 1)
<1> DEFINE f == [i \in DOMAIN s |-> i]
<1>1. f \in [DOMAIN s -> Nat] /\ \A i \in DOMAIN s : f[i] = i /\ i \in Nat /\ i > 0
  <2>1. \A i \in DOMAIN s : i \in Nat /\ i > 0
    BY LenProperties
  <2> QED
    BY <2>1
<1> HIDE DEF f
<1>2. Len(<<>>) = 0
  OBVIOUS
<1>3. \A i \in DOMAIN s : f[i] - 0 + 1 - 1 = i /\ f[i] > 0
  BY <1>1
<1> QED
  BY <1>1, <1>2, <1>3 DEF StillComes

(* The next visit takes one stage from what comes to what is done.            *)
LEMMA ComesVisited ==
  ASSUME NEW s, NEW done \in Seq(Entry), NEW list \in Seq(Stage), NEW next \in Nat \ {0},
         NEW e \in Entry, e.stage = list[next], StillComes(s, done, list, next)
  PROVE  StillComes(s, Append(done, e), list, next + 1)
<1> DEFINE n == Len(done)
           more == Append(done, e)
<1>1. n \in Nat /\ DOMAIN done = 1..n /\ DOMAIN list \subseteq Nat
  BY LenProperties
<1>2. Len(more) = n + 1 /\ (\A k \in 1..n : more[k] = done[k]) /\ more[n + 1] = e
  BY AppendProperties
<1>3. DOMAIN more = 1..(n + 1)
  BY <1>2, AppendProperties, LenProperties
<1> HIDE DEF n, more
<1>4. PICK f \in [DOMAIN s -> Nat] :
        /\ \A i, j \in DOMAIN s : i < j => f[i] < f[j]
        /\ \A i \in DOMAIN s :
             \/ f[i] \in DOMAIN done /\ done[f[i]].stage = s[i]
             \/ f[i] > n /\ f[i] - n + next - 1 \in DOMAIN list /\ list[f[i] - n + next - 1] = s[i]
  BY DEF StillComes, n
<1>5. ASSUME NEW i \in DOMAIN s
      PROVE  \/ f[i] \in DOMAIN more /\ more[f[i]].stage = s[i]
             \/ /\ f[i] > n + 1
                /\ f[i] - (n + 1) + (next + 1) - 1 \in DOMAIN list
                /\ list[f[i] - (n + 1) + (next + 1) - 1] = s[i]
  <2>0. f[i] \in Nat
    BY <1>4
  <2>1. CASE f[i] \in DOMAIN done /\ done[f[i]].stage = s[i]
    BY <1>1, <1>2, <1>3, <2>1
  <2>2. CASE f[i] = n + 1 /\ list[f[i] - n + next - 1] = s[i]
    <3>1. f[i] - n + next - 1 = next
      BY <1>1, <2>2
    <3> QED
      BY <1>1, <1>2, <1>3, <2>2, <3>1
  <2>3. CASE /\ f[i] > n + 1
             /\ f[i] - n + next - 1 \in DOMAIN list /\ list[f[i] - n + next - 1] = s[i]
    <3>1. f[i] - (n + 1) + (next + 1) - 1 = f[i] - n + next - 1
      BY <1>1, <2>0
    <3> QED
      BY <2>3, <3>1
  <2> QED
    BY <1>1, <1>4, <2>0, <2>1, <2>2, <2>3
<1> QED
  BY <1>2, <1>4, <1>5 DEF StillComes, more

(* A stage that is put in anywhere moves some of what comes by one place.     *)
LEMMA ComesInserted ==
  ASSUME NEW s, NEW done \in Seq(Entry), NEW list \in Seq(Stage), NEW next \in Nat \ {0},
         NEW stage \in Stage, NEW at \in 0..Len(list), StillComes(s, done, list, next),
         s \in Seq(Stage)
  PROVE  StillComes(s, done, Inserted(list, at, stage), next)
<1> DEFINE n == Len(done)
           m == Len(list)
           new == Inserted(list, at, stage)
<1>1. n \in Nat /\ DOMAIN done = 1..n /\ m \in Nat /\ DOMAIN list = 1..m /\ at \in Nat
  BY LenProperties
<1>2. /\ new \in Seq(Stage) /\ Len(new) = m + 1
      /\ \A k \in 1..at : new[k] = list[k]
      /\ \A k \in (at + 1)..m : new[k + 1] = list[k]
  BY InsertedFacts
<1>3. DOMAIN new = 1..(m + 1)
  BY <1>2, LenProperties
<1> HIDE DEF n, new
<1>4. PICK f \in [DOMAIN s -> Nat] :
        /\ \A i, j \in DOMAIN s : i < j => f[i] < f[j]
        /\ \A i \in DOMAIN s :
             \/ f[i] \in DOMAIN done /\ done[f[i]].stage = s[i]
             \/ f[i] > n /\ f[i] - n + next - 1 \in DOMAIN list /\ list[f[i] - n + next - 1] = s[i]
  BY DEF StillComes, n
<1> HIDE DEF m
<1> DEFINE moves(i) == f[i] > n /\ f[i] - n + next - 1 > at
           g == [i \in DOMAIN s |-> IF moves(i) THEN f[i] + 1 ELSE f[i]]
<1>5. g \in [DOMAIN s -> Nat] /\ \A i \in DOMAIN s : f[i] \in Nat /\ g[i] = IF moves(i) THEN f[i] + 1 ELSE f[i]
  BY <1>4
<1>6. ASSUME NEW i \in DOMAIN s, NEW j \in DOMAIN s, i < j
      PROVE  g[i] < g[j]
  <2>1. f[i] < f[j]
    BY <1>4, <1>6
  <2>2. f[i] \in Nat /\ f[j] \in Nat
    BY <1>5
  <2>3. moves(i) => moves(j)
    BY <1>1, <2>1, <2>2
  <2> HIDE DEF g, moves
  <2> QED
    BY <1>5, <2>1, <2>2, <2>3
<1> HIDE DEF g
<1>7. ASSUME NEW i \in DOMAIN s
      PROVE  \/ g[i] \in DOMAIN done /\ done[g[i]].stage = s[i]
             \/ g[i] > n /\ g[i] - n + next - 1 \in DOMAIN new /\ new[g[i] - n + next - 1] = s[i]
  <2>1. CASE f[i] \in DOMAIN done /\ done[f[i]].stage = s[i]
    <3>1. ~moves(i)
      BY <1>1, <2>1
    <3> QED
      BY <1>5, <2>1, <3>1
  <2>2. CASE /\ f[i] > n
             /\ f[i] - n + next - 1 \in DOMAIN list /\ list[f[i] - n + next - 1] = s[i]
    <3> DEFINE p == f[i] - n + next - 1
    <3>1. p \in 1..m /\ list[p] = s[i] /\ f[i] \in Nat
      BY <1>1, <1>5, <2>2
    <3>2. CASE p > at
      <4>1. g[i] = f[i] + 1
        BY <1>5, <2>2, <3>2
      <4>2. g[i] > n /\ g[i] - n + next - 1 = p + 1
        BY <1>1, <2>2, <3>1, <4>1
      <4> HIDE DEF p
      <4>3. p \in (at + 1)..m /\ p + 1 \in 1..(m + 1)
        BY <1>1, <3>1, <3>2
      <4> QED
        BY <1>2, <1>3, <3>1, <4>2, <4>3
    <3>3. CASE ~(p > at)
      <4>1. g[i] = f[i]
        BY <1>5, <3>3
      <4>2. g[i] > n /\ g[i] - n + next - 1 = p
        BY <2>2, <4>1
      <4> HIDE DEF p
      <4>3. p \in 1..at /\ p \in 1..(m + 1)
        BY <1>1, <3>1, <3>3
      <4> QED
        BY <1>2, <1>3, <3>1, <4>2, <4>3
    <3> QED
      BY <3>2, <3>3
  <2> QED
    BY <1>4, <2>1, <2>2
<1> QED
  BY <1>5, <1>6, <1>7 DEF StillComes, n, new

(* When nothing more comes, all of it is done.                                *)
LEMMA ComesToAnEnd ==
  ASSUME TypeOK, NEW t \in Runs, Exhausted(t),
         StillComes(began[t], log[t], lists[walked[t]], cursor[t])
  PROVE  IsWithin(began[t], Visited(t))
<1> DEFINE s == began[t]
           done == log[t]
           list == lists[walked[t]]
           n == Len(done)
           next == cursor[t]
<1>1. list \in Seq(Stage) /\ done \in Seq(Entry) /\ next \in Nat
  BY ListFacts DEF TypeOK
<1>2. n \in Nat /\ DOMAIN done = 1..n /\ Len(list) \in Nat /\ DOMAIN list = 1..Len(list)
  BY <1>1, LenProperties
<1>3. next > Len(list)
  BY DEF Exhausted
<1>4. StillComes(s, done, list, next) /\ Visited(t) = [k \in DOMAIN done |-> done[k].stage]
  BY DEF Visited
<1> HIDE DEF s, done, list, next
<1>5. PICK f \in [DOMAIN s -> Nat] :
        /\ \A i, j \in DOMAIN s : i < j => f[i] < f[j]
        /\ \A i \in DOMAIN s :
             \/ f[i] \in DOMAIN done /\ done[f[i]].stage = s[i]
             \/ f[i] > n /\ f[i] - n + next - 1 \in DOMAIN list /\ list[f[i] - n + next - 1] = s[i]
  BY <1>4 DEF StillComes
<1> HIDE DEF n
<1>6. ASSUME NEW i \in DOMAIN s
      PROVE  f[i] \in DOMAIN done /\ done[f[i]].stage = s[i]
  <2>1. f[i] \in Nat
    BY <1>5
  <2>2. f[i] > n => f[i] - n + next - 1 > Len(list)
    BY <1>1, <1>2, <1>3, <2>1
  <2>3. f[i] > n => f[i] - n + next - 1 \notin DOMAIN list
    BY <1>2, <2>2
  <2> QED
    BY <1>5, <2>3
<1>7. DOMAIN Visited(t) = DOMAIN done /\ \A k \in DOMAIN done : Visited(t)[k] = done[k].stage
  BY <1>4
<1>8. f \in [DOMAIN s -> DOMAIN Visited(t)]
  BY <1>5, <1>6, <1>7
<1>9. \A i \in DOMAIN s : Visited(t)[f[i]] = s[i]
  BY <1>6, <1>7
<1>10. IsWithin(s, Visited(t))
  BY <1>5, <1>8, <1>9 DEF IsWithin
<1> QED
  BY <1>10 DEF s

(* An edit keeps it: additions by the lemma above, anything else in place ends*)
(* the promise, and a new list is not the one that is walked.                 *)
LEMMA EditPassesNone ==
  ASSUME TypeOK, NEW t \in Runs, PassesNone(t),
         \/ \E stage \in [name : Names, required : BOOLEAN], position \in -1..2 :
              AddStage(stage, position)
         \/ \E name \in Names : RemoveStage(name)
         \/ \E name \in Names, stage \in [name : Names, required : BOOLEAN] :
              ReplaceStage(name, stage)
         \/ \E order \in Orders : Reorder(order)
         \/ \E known \in SUBSET Names : Reload(known)
  PROVE  PassesNone(t)'
<1>1. /\ UNCHANGED <<pc, walked, cursor, log, success, began>>
      /\ Visited(t)' = Visited(t)
  BY DEF AddStage, RemoveStage, ReplaceStage, Reorder, Reload, Edit, runVars, Visited
<1>2. /\ Stages \in Seq(Stage) /\ Len(Stages) \in Nat
      /\ walked[t] \in DOMAIN lists /\ current \in DOMAIN lists
      /\ Len(lists) \in Nat /\ DOMAIN lists = 1..Len(lists) /\ lists \in Seq(Seq(Stage))
      /\ began[t] \in Seq(Stage) /\ log[t] \in Seq(Entry) /\ cursor[t] \in Nat \ {0}
  <2>1. /\ walked[t] \in DOMAIN lists /\ current \in DOMAIN lists
        /\ lists \in Seq(Seq(Stage)) /\ log[t] \in Seq(Entry) /\ began[t] \in Seq(Stage)
        /\ cursor[t] \in 1..(Len(lists[walked[t]]) + 1)
    BY DEF TypeOK
  <2>2. /\ Stages \in Seq(Stage) /\ Len(Stages) \in Nat
        /\ Len(lists) \in Nat /\ DOMAIN lists = 1..Len(lists)
    BY ListFacts
  <2> QED
    BY <2>1, <2>2
<1>3. ASSUME upset'[t] = upset[t], lists'[walked[t]] = lists[walked[t]] PROVE PassesNone(t)'
  BY <1>1, <1>3 DEF PassesNone
<1>4. ASSUME NEW stages, NEW how, InPlace(stages, how),
             ~(pc[t] = "running" /\ walked[t] = current)
      PROVE  PassesNone(t)'
  <2>1. upset'[t] = upset[t]
    BY <1>4 DEF InPlace
  <2>2. CASE walked[t] # current
    <3>1. lists'[walked[t]] = lists[walked[t]]
      BY <1>2, <1>4, <2>2 DEF InPlace
    <3> QED
      BY <1>3, <2>1, <3>1
  <2>3. CASE pc[t] # "running"
    BY <1>1, <2>1, <2>3 DEF PassesNone
  <2> QED
    BY <1>4, <2>2, <2>3
<1>5. ASSUME NEW stages, InPlace(stages, "shuffled") PROVE PassesNone(t)'
  <2>1. CASE pc[t] = "running" /\ walked[t] = current
    <3>1. upset'[t] = "shuffled"
      BY <1>5, <2>1 DEF InPlace
    <3> QED
      BY <3>1 DEF PassesNone
  <2> QED
    BY <1>4, <1>5, <2>1
<1>6. ASSUME NEW stage \in [name : Names, required : BOOLEAN], NEW position \in -1..2,
             AddStage(stage, position)
      PROVE  PassesNone(t)'
  <2> DEFINE at == IF position < 0 \/ position >= Len(Stages) THEN Len(Stages) ELSE position
  <2>1. at \in 0..Len(Stages) /\ stage \in Stage
    BY <1>2 DEF Stage
  <2>2. InPlace(Inserted(Stages, at, stage), "grown")
    BY <1>6 DEF AddStage
  <2> HIDE DEF at
  <2>3. CASE pc[t] = "running" /\ walked[t] = current /\ upset[t] # "shuffled"
    <3>1. lists[walked[t]] = Stages /\ lists'[walked[t]] = Inserted(Stages, at, stage)
      BY <1>2, <2>2, <2>3 DEF InPlace, Stages
    <3>2. StillComes(began[t], log[t], Stages, cursor[t])
      BY <2>3, <3>1 DEF PassesNone
    <3>3. StillComes(began[t], log[t], Inserted(Stages, at, stage), cursor[t])
      BY <1>2, <2>1, <3>2, ComesInserted
    <3> QED
      BY <1>1, <2>3, <3>1, <3>3 DEF PassesNone
  <2>4. CASE pc[t] = "running" /\ walked[t] = current /\ upset[t] = "shuffled"
    <3>1. upset'[t] = "shuffled"
      BY <2>2, <2>4 DEF InPlace
    <3> QED
      BY <3>1 DEF PassesNone
  <2> QED
    BY <1>4, <2>2, <2>3, <2>4
<1>7. ASSUME NEW stages, Rebind(stages) PROVE PassesNone(t)'
  <2>1. /\ upset' = upset /\ lists' = Append(lists, stages)
    BY <1>7 DEF Rebind
  <2>2. lists'[walked[t]] = lists[walked[t]]
    BY <1>2, <2>1
  <2> QED
    BY <1>3, <2>1, <2>2
<1>8. ASSUME NEW name \in Names, NEW stage, ReplaceStage(name, stage) PROVE PassesNone(t)'
  <2>1. CASE UNCHANGED <<lists, current, upset>>
    BY <1>3, <2>1
  <2> QED
    BY <1>5, <1>8, <2>1 DEF ReplaceStage
<1>9. CASE \E name \in Names : RemoveStage(name)
  BY <1>7, <1>9 DEF RemoveStage
<1>10. CASE \E known \in SUBSET Names : Reload(known)
  BY <1>7, <1>10 DEF Reload
<1>11. CASE \E order \in Orders : Reorder(order)
  BY <1>5, <1>11 DEF Reorder
<1> QED
  BY <1>6, <1>8, <1>9, <1>10, <1>11

(* So does a step of a run.                                                   *)
LEMMA RunPassesNone ==
  ASSUME IInv, NEW u \in Runs, Run(u) \/ Visit(u) \/ EndRun(u),
         NEW t \in Runs, PassesNone(t)
  PROVE  PassesNone(t)'
<1>1. TypeOK /\ RunOK(t) /\ UNCHANGED <<lists, upset>>
  BY DEF IInv, Run, Visit, EndRun
<1>2. /\ Stages \in Seq(Stage) /\ walked[t] \in DOMAIN lists /\ lists[walked[t]] \in Seq(Stage)
      /\ log[t] \in Seq(Entry) /\ cursor[t] \in Nat \ {0} /\ began[t] \in Seq(Stage)
  <2>1. /\ walked[t] \in DOMAIN lists /\ log[t] \in Seq(Entry) /\ began[t] \in Seq(Stage)
        /\ cursor[t] \in 1..(Len(lists[walked[t]]) + 1)
    BY <1>1 DEF TypeOK
  <2>2. Stages \in Seq(Stage) /\ \A i \in DOMAIN lists : lists[i] \in Seq(Stage)
    BY <1>1, ListFacts
  <2> QED
    BY <2>1, <2>2
<1>3. CASE t # u
  <2>1. /\ pc'[t] = pc[t] /\ walked'[t] = walked[t] /\ cursor'[t] = cursor[t]
        /\ log'[t] = log[t] /\ success'[t] = success[t] /\ began'[t] = began[t]
    BY <1>1, <1>3 DEF TypeOK, Run, Visit, EndRun
  <2> QED
    BY <1>1, <2>1 DEF PassesNone, Visited
<1>4. CASE t = u /\ Run(u)
  <2>1. /\ pc'[t] = "running" /\ walked'[t] = current /\ began'[t] = Stages
        /\ log'[t] = <<>> /\ cursor'[t] = 1 /\ lists'[current] = Stages
    BY <1>1, <1>4 DEF TypeOK, Run, RunOK, Stages
  <2>2. StillComes(Stages, <<>>, Stages, 1)
    BY <1>2, ComesAtFirst
  <2> QED
    BY <2>1, <2>2 DEF PassesNone
<1>5. CASE t = u /\ Visit(u)
  <2> DEFINE stage == lists[walked[t]][cursor[t]]
  <2>1. PICK how \in Ended :
          LET stops == how = "failed" /\ stage.required
          IN /\ log' = [log EXCEPT ![t] = Append(log[t], [stage |-> stage, how |-> how])]
             /\ cursor' = [cursor EXCEPT ![t] = cursor[t] + 1]
             /\ success' = [success EXCEPT ![t] = ~stops]
             /\ pc' = [pc EXCEPT ![t] = IF stops THEN "done" ELSE "running"]
    BY <1>5 DEF Visit, Outcomes
  <2>2. pc[t] = "running" /\ cursor[t] \in DOMAIN lists[walked[t]] /\ UNCHANGED <<walked, began>>
    <3>1. pc[t] = "running" /\ ~(cursor[t] > Len(lists[walked[t]])) /\ UNCHANGED <<walked, began>>
      BY <1>5 DEF Visit, Exhausted
    <3>2. Len(lists[walked[t]]) \in Nat /\ DOMAIN lists[walked[t]] = 1..Len(lists[walked[t]])
      BY <1>2, LenProperties
    <3> QED
      BY <1>2, <3>1, <3>2
  <2>3. stage \in Stage
    BY <1>2, <2>2, LenProperties, ElementOfSeq
  <2> HIDE DEF stage
  <2> DEFINE e == [stage |-> stage, how |-> how]
  <2>4. e \in Entry /\ e.stage = stage
    BY <2>3 DEF Entry
  <2> HIDE DEF e
  <2>5. log'[t] = Append(log[t], e) /\ cursor'[t] = cursor[t] + 1
          /\ (pc'[t] = "running" \/ ~success'[t])
    BY <1>1, <2>1 DEF TypeOK, e
  <2>6. pc'[t] = "done" => ~success'[t]
    BY <2>5
  <2>7. ASSUME upset[t] # "shuffled"
        PROVE  StillComes(began[t], Append(log[t], e), lists[walked[t]], cursor[t] + 1)
    <3>1. StillComes(began[t], log[t], lists[walked[t]], cursor[t])
      BY <2>2, <2>7 DEF PassesNone
    <3> QED
      BY <1>2, <2>4, <3>1, ComesVisited DEF stage
  <2> QED
    BY <1>1, <2>2, <2>5, <2>6, <2>7 DEF PassesNone
<1>6. CASE t = u /\ EndRun(u)
  <2>1. /\ pc[t] = "running" /\ Exhausted(t) /\ pc'[t] = "done"
        /\ UNCHANGED <<lists, walked, cursor, log, success, began, upset>>
    BY <1>1, <1>6 DEF TypeOK, EndRun
  <2>2. upset[t] # "shuffled" => IsWithin(began[t], Visited(t))
    BY <1>1, <2>1, ComesToAnEnd DEF PassesNone
  <2>3. Visited(t)' = Visited(t)
    BY <2>1 DEF Visited
  <2> QED
    BY <2>1, <2>2, <2>3 DEF PassesNone
<1> QED
  BY <1>3, <1>4, <1>5, <1>6

(* Nor is a stage passed over in any behaviour.                               *)
LEMMA NonePassed == Spec => [](\A t \in Runs : PassesNone(t))
<1> DEFINE none == \A t \in Runs : PassesNone(t)
<1>1. Init => none
  BY DEF Init, PassesNone
<1>2. ASSUME IInv, none, [Next]_vars PROVE none'
  <2> SUFFICES ASSUME NEW t \in Runs PROVE PassesNone(t)'
    OBVIOUS
  <2>0. PassesNone(t) /\ TypeOK
    BY <1>2 DEF IInv
  <2>1. CASE UNCHANGED vars
    BY <2>0, <2>1 DEF vars, runVars, PassesNone, Visited
  <2>2. CASE Next
    BY <1>2, <2>0, <2>2, EditPassesNone, RunPassesNone DEF Next
  <2> QED
    BY <1>2, <2>1, <2>2
<1> HIDE DEF none
<1>3. Spec => []none
  BY <1>1, <1>2, Invariance, PTL DEF Spec
<1> QED
  BY <1>3 DEF none

(* A run that succeeds visits, in their order, all stages it began with, when *)
(* stages are only added, removed or rebuilt meanwhile, wherever its place is *)
(* (pipeline.py:74-76).                                                       *)
THEOREM RunsPassNothingOver == Spec => []NothingPassedOver
<1>1. (\A t \in Runs : PassesNone(t)) => NothingPassedOver
  BY DEF PassesNone, NothingPassedOver
<1> QED
  BY <1>1, NonePassed, PTL
===============================================================================
