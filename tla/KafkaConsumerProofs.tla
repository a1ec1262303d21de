------------------------- MODULE KafkaConsumerProofs --------------------------
(* Proofs about KafkaConsumer, for every number of messages, sessions and     *)
(* upsets.                                                                    *)
EXTENDS KafkaConsumer, FiniteSetTheorems, TLAPS

(* ------------------------------ type invariant ------------------------------ *)

InHand == {"taken", "handle", "reply"}
InLoop == {"poll"} \cup InHand

(* A thread iterates over the consumer of its own session or of a later one,  *)
(* and has nothing in hand before; a new process starts without threads.      *)
ThreadOK(t) ==
  /\ iter[t] \in {0} \cup t..sessions
  /\ iter[t] = 0 => held[t] = 0
  /\ pc[t] \in {"none", "imports"} => iter[t] = 0
  /\ pc[t] \in InLoop => iter[t] # 0
  /\ pc[t] \in InHand => held[t] # 0
  /\ consumer = 0 => pc[t] \in {"none", "ended"}
  /\ t > sessions => pc[t] = "none"

(* start() launches a thread that did not exist.                              *)
LaunchOK == caller = "start" => consumer \in Sessions /\ pc[consumer] = "none"

TypeInv == TypeOK /\ (\A t \in Sessions : ThreadOK(t)) /\ LaunchOK

ThreadStep(t) == LoopStep(t) \/ AutoCommit(t) \/ Rejoin(t) \/ Raise(t)

(* The type invariant holds initially.                                        *)
LEMMA TypeInit == Init => TypeInv
<1> SUFFICES ASSUME Init PROVE TypeInv
  OBVIOUS
<1>1. /\ 0 \in 0..0 /\ 0 \in 0..MaxSessions /\ 0 \in 0..MaxUpsets /\ 0 \in 0..MaxOffset
      /\ "none" \in PCs
  BY KafkaAssumption DEF PCs
<1>2. /\ status \in [Sessions -> {"none", "open", "closed", "lost"}]
      /\ position \in [Sessions -> 0..produced \cup {Unset}]
      /\ pc \in [Sessions -> PCs]
      /\ iter \in [Sessions -> 0..sessions]
      /\ held \in [Sessions -> 0..produced]
      /\ replies \in [Offsets -> Nat]
  BY <1>1 DEF Init
<1>3. TypeOK
  BY <1>1, <1>2 DEF Init, TypeOK
<1>4. \A t \in Sessions : pc[t] = "none" /\ iter[t] = 0 /\ held[t] = 0
  BY DEF Init
<1>5. \A t \in Sessions : ThreadOK(t)
  BY <1>4 DEF ThreadOK, InLoop, InHand
<1> QED
  BY <1>3, <1>5 DEF Init, TypeInv, LaunchOK

(* What start() does before it launches the thread.                           *)
LEMMA StartFrame ==
  ASSUME TypeInv, Start
  PROVE  /\ sessions' = sessions + 1 /\ sessions' \in Sessions /\ sessions \in Nat
         /\ sessions' \in 0..MaxSessions
         /\ ~running /\ consumer' = sessions' /\ caller = "idle" /\ caller' = "start"
         /\ status' \in [Sessions -> {"none", "open", "closed", "lost"}]
         /\ status'[sessions'] = "open"
         /\ \A c \in Sessions : c # sessions' => status'[c] = status[c]
         /\ UNCHANGED <<produced, poison, committed, running, position, pc, iter, held,
                        done, replies, upsets, base>>
<1>1. sessions' = sessions + 1 /\ sessions < MaxSessions /\ sessions \in 0..MaxSessions
  BY DEF Start, NewConsumer, TypeInv, TypeOK
<1>2. sessions' \in Sessions /\ sessions \in Nat /\ sessions' \in 0..MaxSessions
  BY <1>1, KafkaAssumption DEF Sessions
<1>3. status' = [status EXCEPT ![sessions'] = "open"]
  BY DEF Start, NewConsumer
<1>4. status \in [Sessions -> {"none", "open", "closed", "lost"}]
  BY DEF TypeInv, TypeOK
<1>5. /\ status' \in [Sessions -> {"none", "open", "closed", "lost"}]
      /\ status'[sessions'] = "open"
      /\ \A c \in Sessions : c # sessions' => status'[c] = status[c]
  BY <1>2, <1>3, <1>4
<1> QED
  BY <1>1, <1>2, <1>5 DEF Start, NewConsumer, broker, thread

(* How it launches it.                                                        *)
LEMMA LaunchFrame ==
  ASSUME TypeInv, Launch
  PROVE  /\ consumer \in Sessions /\ pc[consumer] = "none"
         /\ caller = "start" /\ caller' = "idle" /\ running' = TRUE
         /\ pc' \in [Sessions -> PCs] /\ pc'[consumer] = "imports"
         /\ \A t \in Sessions : t # consumer => pc'[t] = pc[t]
         /\ UNCHANGED <<produced, poison, committed, consumer, status, position, iter, held,
                        sessions, done, replies, upsets, base>>
<1>1. consumer \in Sessions /\ pc[consumer] = "none"
  BY DEF Launch, TypeInv, LaunchOK
<1>2. pc' = [pc EXCEPT ![consumer] = "imports"] /\ pc \in [Sessions -> PCs]
  BY DEF Launch, TypeInv, TypeOK
<1>3. /\ pc' \in [Sessions -> PCs] /\ pc'[consumer] = "imports"
      /\ \A t \in Sessions : t # consumer => pc'[t] = pc[t]
  BY <1>1, <1>2 DEF PCs
<1> QED
  BY <1>1, <1>3 DEF Launch, broker, history

(* The steps of the caller keep the type invariant.                           *)
LEMMA CallerType ==
  ASSUME TypeInv, Start \/ Launch \/ Stop \/ Close \/ Join \/ Crash
  PROVE  TypeInv'
<1> USE KafkaAssumption
<1>1. CASE Start
  <2>1. TypeOK'
    <3>1. 0..sessions \subseteq 0..sessions'
      BY <1>1, StartFrame
    <3>2. iter' \in [Sessions -> 0..sessions']
      BY <1>1, <3>1, StartFrame DEF TypeInv, TypeOK
    <3> QED
      BY <1>1, <3>2, StartFrame DEF TypeInv, TypeOK
  <2>2. ASSUME NEW t \in Sessions PROVE ThreadOK(t)'
    <3>1. ThreadOK(t) /\ t \in Int
      BY DEF TypeInv, Sessions
    <3>2. iter[t] \in {0} \cup t..sessions'
      BY <1>1, <3>1, StartFrame DEF ThreadOK
    <3>3. t > sessions' => t > sessions
      BY <1>1, <3>1, StartFrame
    <3>4. consumer' # 0
      BY <1>1, StartFrame
    <3> QED
      BY <1>1, <3>1, <3>2, <3>3, <3>4, StartFrame DEF ThreadOK
  <2>3. LaunchOK'
    <3>1. sessions' > sessions
      BY <1>1, StartFrame
    <3>2. pc[sessions'] = "none"
      BY <1>1, <3>1, StartFrame DEF TypeInv, ThreadOK
    <3> QED
      BY <1>1, <3>2, StartFrame DEF LaunchOK
  <2> QED
    BY <2>1, <2>2, <2>3 DEF TypeInv
<1>2. CASE Launch
  <2>1. TypeOK'
    BY <1>2, LaunchFrame DEF TypeInv, TypeOK
  <2>2. ASSUME NEW t \in Sessions PROVE ThreadOK(t)'
    <3>1. ThreadOK(t)
      BY DEF TypeInv
    <3>2. CASE t = consumer
      <4>1. iter[t] = 0 /\ held[t] = 0 /\ pc'[t] = "imports"
        BY <1>2, <3>1, <3>2, LaunchFrame DEF ThreadOK
      <4>2. consumer # 0 /\ ~(t > sessions)
        BY <1>2, <3>2, LaunchFrame DEF TypeInv, TypeOK, Sessions
      <4> QED
        BY <1>2, <3>1, <4>1, <4>2, LaunchFrame DEF ThreadOK, InLoop, InHand
    <3>3. CASE t # consumer
      BY <1>2, <3>1, <3>3, LaunchFrame DEF ThreadOK
    <3> QED
      BY <3>2, <3>3
  <2> QED
    BY <1>2, <2>1, <2>2, LaunchFrame DEF TypeInv, LaunchOK
<1>3. CASE Stop \/ Join
  <2>1. /\ UNCHANGED <<produced, poison, committed, consumer, status, position, pc, iter, held,
                       sessions, done, replies, upsets, base>>
        /\ running' \in BOOLEAN /\ caller' \in {"close", "idle"}
    BY <1>3 DEF Stop, Join, TypeInv, TypeOK, broker, thread, history
  <2> QED
    BY <2>1 DEF TypeInv, TypeOK, ThreadOK, LaunchOK
<1>4. CASE Close
  <2>1. /\ status' \in [Sessions -> {"none", "open", "closed", "lost"}]
        /\ caller' = "join"
        /\ UNCHANGED <<produced, poison, running, consumer, position, pc, iter, held, sessions,
                       done, replies>>
    BY <1>4 DEF Close, TypeInv, TypeOK, broker, thread
  <2>2. /\ committed' \in 0..produced \cup {Unset}
        /\ base' \in 0..produced \cup {Unset}
        /\ base' = Unset <=> committed' = Unset
        /\ upsets' \in 0..MaxUpsets
    BY <1>4 DEF Close, TypeInv, TypeOK, Commit, Upset
  <2>3. TypeOK'
    BY <2>1, <2>2 DEF TypeInv, TypeOK
  <2> QED
    BY <2>1, <2>3 DEF TypeInv, ThreadOK, LaunchOK
<1>5. CASE Crash
  <2>1. /\ status' \in [Sessions -> {"none", "open", "closed", "lost"}]
        /\ pc' \in [Sessions -> PCs]
        /\ \A t \in Sessions : pc'[t] \in {"none", "ended"} /\ (pc[t] = "none" <=> pc'[t] = "none")
    BY <1>5 DEF Crash, TypeInv, TypeOK, PCs
  <2>2. /\ running' = FALSE /\ consumer' = 0 /\ caller' = "idle" /\ upsets' \in 0..MaxUpsets
        /\ UNCHANGED <<produced, poison, committed, position, iter, held, sessions, done, replies,
                       base>>
    BY <1>5 DEF Crash, Upset, TypeInv, TypeOK, broker
  <2>3. TypeOK'
    BY <2>1, <2>2 DEF TypeInv, TypeOK
  <2>4. \A t \in Sessions : ThreadOK(t)'
    BY <2>1, <2>2 DEF TypeInv, ThreadOK, InLoop, InHand
  <2> QED
    BY <2>2, <2>3, <2>4 DEF TypeInv, LaunchOK
<1> QED
  BY <1>1, <1>2, <1>3, <1>4, <1>5

(* A thread whose iterator asks for more reads a consumer that exists.        *)
LEMMA PollingType ==
  ASSUME TypeInv, NEW t \in Sessions, pc[t] \in InLoop
  PROVE  iter[t] \in Sessions /\ iter[t] \in t..sessions
<1>1. iter[t] \in t..sessions /\ t \in 1..MaxSessions /\ sessions \in 0..MaxSessions
  BY DEF TypeInv, TypeOK, ThreadOK, Sessions
<1> QED
  BY <1>1, KafkaAssumption DEF Sessions

(* The steps of a loop that change nothing but where its thread is.           *)
LEMMA PlainSteps ==
  ASSUME NEW t \in Sessions, Undecodable(t) \/ Exhausted(t) \/ CheckRunning(t) \/ Raise(t)
  PROVE  /\ \E p \in {"handle", "ended", "raised"} :
              /\ Goto(t, p)
              /\ p = "handle" => pc[t] = "taken" /\ running
              /\ p = "ended" => \/ pc[t] = "poll" /\ status[iter[t]] # "open"
                                \/ pc[t] = "taken" /\ ~running
         /\ pc[t] \in {"imports", "poll", "taken"}
  BY DEF Undecodable, Exhausted, CheckRunning, Raise, Polling, Located

(* A step of the thread of session t leaves the object and the other threads  *)
(* alone; its loop ends for one of two reasons.                               *)
LEMMA ThreadFrame ==
  ASSUME TypeInv, NEW t \in Sessions, ThreadStep(t)
  PROVE  /\ UNCHANGED <<produced, poison, running, consumer, caller, status, sessions>>
         /\ pc[t] \in {"imports"} \cup InLoop
         /\ \A u \in Sessions \ {t} : pc'[u] = pc[u] /\ iter'[u] = iter[u] /\ held'[u] = held[u]
         /\ pc[t] # "imports" => iter'[t] = iter[t]
         /\ pc'[t] = "ended" => \/ pc[t] = "poll" /\ status[iter[t]] # "open"
                                \/ pc[t] = "taken" /\ ~running
<1> USE DEF InLoop, InHand
<1>1. pc \in [Sessions -> PCs] /\ iter \in [Sessions -> 0..sessions] /\ held \in [Sessions -> 0..produced]
  BY DEF TypeInv, TypeOK
<1>2. CASE Locate(t) \/ AutoCommit(t) \/ Rejoin(t)
  BY <1>2 DEF Locate, AutoCommit, Rejoin, Polling, Located, broker, object, thread, history
<1>3. CASE Take(t)
  BY <1>1, <1>3 DEF Take, Polling, Located, broker, object, history
<1>4. CASE Undecodable(t) \/ Exhausted(t) \/ CheckRunning(t) \/ Raise(t)
  <2>1. PICK p \in {"handle", "ended", "raised"} :
              /\ Goto(t, p)
              /\ p = "ended" => \/ pc[t] = "poll" /\ status[iter[t]] # "open"
                                \/ pc[t] = "taken" /\ ~running
    BY <1>4, PlainSteps
  <2>2. pc[t] \in {"imports"} \cup InLoop
    BY <1>4, PlainSteps
  <2> QED
    BY <1>1, <2>1, <2>2 DEF Goto, broker, object, history
<1>5. CASE Prepare(t)
  BY <1>1, <1>5 DEF Prepare, broker, object, history
<1>6. CASE Stages(t) \/ Reply(t)
  BY <1>1, <1>6 DEF Stages, Reply, Goto, broker, object, history
<1> QED
  BY <1>2, <1>3, <1>4, <1>5, <1>6 DEF ThreadStep, LoopStep

(* A step of a thread keeps ThreadOK when it does so for the thread.          *)
LEMMA OneThread ==
  ASSUME TypeInv, NEW t \in Sessions, ThreadStep(t), TypeOK', ThreadOK(t)'
  PROVE  TypeInv'
<1>1. \A u \in Sessions \ {t} : ThreadOK(u)'
  BY ThreadFrame DEF TypeInv, ThreadOK
<1>2. LaunchOK'
  BY ThreadFrame DEF TypeInv, LaunchOK, InLoop, InHand
<1> QED
  BY <1>1, <1>2 DEF TypeInv

(* A step of a thread keeps the type invariant.                               *)
LEMMA ThreadType ==
  ASSUME TypeInv, NEW t \in Sessions, ThreadStep(t)
  PROVE  TypeInv'
<1> USE DEF InLoop, InHand
<1>1. /\ pc \in [Sessions -> PCs] /\ iter \in [Sessions -> 0..sessions]
      /\ held \in [Sessions -> 0..produced] /\ position \in [Sessions -> 0..produced \cup {Unset}]
      /\ replies \in [Offsets -> Nat]
      /\ ThreadOK(t)
  BY DEF TypeInv, TypeOK
<1>2. pc[t] \in InLoop => iter[t] \in Sessions
  BY PollingType
<1>3. CASE Locate(t) \/ Rejoin(t)
  <2>1. position' \in [Sessions -> 0..produced \cup {Unset}]
    BY <1>1, <1>3 DEF Locate, Rejoin, TypeInv, TypeOK
  <2>2. UNCHANGED <<produced, poison, committed, running, consumer, caller, status, pc, iter, held,
                    sessions, done, replies, base>>
    BY <1>3 DEF Locate, Rejoin, broker, object, thread, history
  <2>3. upsets' \in 0..MaxUpsets
    <3>1. Locate(t) => upsets' = upsets
      BY DEF Locate, history
    <3>2. Rejoin(t) => upsets < MaxUpsets /\ upsets' = upsets + 1
      BY DEF Rejoin, Upset
    <3>3. upsets \in 0..MaxUpsets
      BY DEF TypeInv, TypeOK
    <3> QED
      BY <1>3, <3>1, <3>2, <3>3, KafkaAssumption
  <2>4. TypeOK'
    BY <2>1, <2>2, <2>3 DEF TypeInv, TypeOK
  <2> QED
    BY <1>1, <2>2, <2>4, OneThread DEF ThreadOK
<1>4. CASE AutoCommit(t)
  <2>1. pc[t] = "poll" /\ position[iter[t]] # Unset /\ Commit(position[iter[t]])
    BY <1>4 DEF AutoCommit, Located, Polling
  <2>2. /\ committed' \in 0..produced /\ committed' # Unset
        /\ base' \in 0..produced /\ base' # Unset
    BY <1>1, <1>2, <2>1, KafkaAssumption DEF Commit, TypeInv, TypeOK
  <2>3. UNCHANGED <<produced, poison, running, consumer, caller, status, position, pc, iter, held,
                    sessions, done, replies, upsets>>
    BY <1>4 DEF AutoCommit, broker, object, thread
  <2>4. TypeOK'
    BY <2>2, <2>3 DEF TypeInv, TypeOK
  <2> QED
    BY <1>1, <2>3, <2>4, OneThread DEF ThreadOK
<1>5. CASE Take(t)
  <2>1. /\ pc[t] = "poll" /\ position[iter[t]] # Unset /\ position[iter[t]] < produced
        /\ position' = [position EXCEPT ![iter[t]] = @ + 1]
        /\ held' = [held EXCEPT ![t] = position[iter[t]] + 1]
        /\ pc' = [pc EXCEPT ![t] = "taken"]
        /\ UNCHANGED <<produced, poison, committed, running, consumer, caller, status, iter,
                       sessions, done, replies, upsets, base>>
    BY <1>5 DEF Take, Located, Polling, broker, object, history
  <2>2. position[iter[t]] + 1 \in 1..produced
    BY <1>1, <1>2, <2>1 DEF TypeInv, TypeOK
  <2>3. /\ position' \in [Sessions -> 0..produced \cup {Unset}]
        /\ pc' \in [Sessions -> PCs] /\ pc'[t] = "taken"
        /\ held' \in [Sessions -> 0..produced] /\ held'[t] # 0
    <3> DEFINE n == position[iter[t]] + 1
               c == iter[t]
    <3>1. n \in 1..produced /\ n \in 0..produced
      BY <2>2
    <3>2. /\ position' = [position EXCEPT ![c] = n] /\ held' = [held EXCEPT ![t] = n]
          /\ pc' = [pc EXCEPT ![t] = "taken"]
      BY <2>1
    <3>3. "taken" \in PCs /\ n # 0
      BY <3>1 DEF PCs
    <3> HIDE DEF n, c
    <3> QED
      BY <1>1, <3>1, <3>2, <3>3
  <2>4. TypeOK'
    BY <2>1, <2>3 DEF TypeInv, TypeOK
  <2> QED
    BY <1>1, <2>1, <2>3, <2>4, OneThread DEF ThreadOK
<1>6. ASSUME NEW p \in {"handle", "reply", "ended", "raised"}, Goto(t, p),
             p \in {"handle", "reply"} => pc[t] \in {"taken", "handle"}
      PROVE  TypeInv'
  <2>1. /\ pc' \in [Sessions -> PCs] /\ pc'[t] = p
        /\ UNCHANGED <<produced, poison, committed, running, consumer, caller, status, position,
                       iter, held, sessions, done, replies, upsets, base>>
    BY <1>1, <1>6 DEF Goto, PCs, broker, object, history
  <2>2. TypeOK'
    BY <2>1 DEF TypeInv, TypeOK
  <2>3. pc[t] \notin {"none", "ended", "raised"}
    BY ThreadFrame
  <2>4. ThreadOK(t)'
    BY <1>1, <1>6, <2>1, <2>3 DEF ThreadOK
  <2> QED
    BY <2>2, <2>4, OneThread
<1>7. CASE Undecodable(t) \/ Exhausted(t) \/ CheckRunning(t) \/ Raise(t)
  BY <1>6, <1>7, PlainSteps
<1>8. CASE Prepare(t)
  <2>1. /\ pc[t] = "imports"
        /\ pc' \in [Sessions -> PCs] /\ pc'[t] = "poll"
        /\ iter' = [iter EXCEPT ![t] = consumer]
        /\ UNCHANGED <<produced, poison, committed, running, consumer, caller, status, position,
                       held, sessions, done, replies, upsets, base>>
    BY <1>1, <1>8 DEF Prepare, PCs, broker, object, history
  <2>2. consumer = sessions /\ consumer # 0 /\ sessions \in Nat /\ ~(t > sessions)
    BY <1>1, <2>1 DEF ThreadOK, TypeInv, TypeOK
  <2>3. iter' \in [Sessions -> 0..sessions] /\ iter'[t] \in t..sessions /\ iter'[t] # 0
    BY <1>1, <2>1, <2>2 DEF Sessions
  <2>4. TypeOK'
    BY <2>1, <2>3 DEF TypeInv, TypeOK
  <2> QED
    BY <1>1, <2>1, <2>2, <2>3, <2>4, OneThread DEF ThreadOK
<1>9. CASE Stages(t) \/ Reply(t)
  <2>1. CASE Goto(t, "reply")
    BY <1>6, <1>9, <2>1 DEF Stages, Reply, Goto
  <2>2. CASE /\ pc[t] \in {"handle", "reply"}
             /\ pc' = [pc EXCEPT ![t] = "poll"]
             /\ done' = done \cup {held[t]}
             /\ replies' = replies \/ replies' = [replies EXCEPT ![held[t]] = @ + 1]
             /\ UNCHANGED <<broker, committed, object, status, position, iter, held, sessions,
                            upsets, base>>
    <3>1. pc' \in [Sessions -> PCs] /\ pc'[t] = "poll"
      BY <1>1, <2>2 DEF PCs
    <3>2. held[t] \in 1..produced /\ done \subseteq 1..produced
      BY <1>1, <2>2 DEF TypeInv, TypeOK, ThreadOK
    <3>3. done' \subseteq 1..produced
      BY <2>2, <3>2
    <3>4. replies' \in [Offsets -> Nat]
      <4> DEFINE h == held[t]
      <4>1. h \in Offsets /\ replies \in [Offsets -> Nat]
        BY <3>2, KafkaAssumption DEF TypeInv, TypeOK, Offsets
      <4>2. replies' = replies \/ replies' = [replies EXCEPT ![h] = @ + 1]
        BY <2>2
      <4> HIDE DEF h
      <4> QED
        BY <4>1, <4>2
    <3>5. UNCHANGED <<produced, poison, committed, running, consumer, caller, status, position,
                      iter, held, sessions, upsets, base>>
      BY <2>2 DEF broker, object
    <3>6. TypeOK'
      BY <3>1, <3>3, <3>4, <3>5 DEF TypeInv, TypeOK
    <3> QED
      BY <1>1, <2>2, <3>1, <3>5, <3>6, OneThread DEF ThreadOK
  <2> QED
    BY <1>9, <2>1, <2>2 DEF Stages, Reply
<1> QED
  BY <1>3, <1>4, <1>5, <1>7, <1>8, <1>9 DEF ThreadStep, LoopStep

(* Every step keeps the type invariant.                                       *)
LEMMA TypeStep ==
  ASSUME TypeInv, [Next]_vars
  PROVE  TypeInv'
<1>1. CASE Produce
  <2>1. /\ produced' \in 0..MaxOffset /\ 0..produced \subseteq 0..produced'
        /\ 1..produced \subseteq 1..produced'
    BY <1>1, KafkaAssumption DEF Produce, TypeInv, TypeOK
  <2>2. UNCHANGED <<poison, committed, running, consumer, caller, status, position, pc, iter, held,
                    sessions, done, replies, upsets, base>>
    BY <1>1 DEF Produce, object, thread, history
  <2>3. /\ position' \in [Sessions -> 0..produced' \cup {Unset}]
        /\ held' \in [Sessions -> 0..produced']
        /\ committed' \in 0..produced' \cup {Unset} /\ base' \in 0..produced' \cup {Unset}
        /\ done' \subseteq 1..produced'
    BY <2>1, <2>2 DEF TypeInv, TypeOK
  <2>4. TypeOK'
    BY <2>1, <2>2, <2>3 DEF TypeInv, TypeOK
  <2> QED
    BY <2>2, <2>4 DEF TypeInv, ThreadOK, LaunchOK
<1>2. CASE UNCHANGED vars
  BY <1>2 DEF vars, broker, object, thread, history, TypeInv, TypeOK, ThreadOK, LaunchOK
<1>3. ASSUME NEW t \in Sessions, LoopStep(t) \/ AutoCommit(t) \/ Rejoin(t) \/ Raise(t) PROVE TypeInv'
  BY <1>3, ThreadType DEF ThreadStep
<1> QED
  BY <1>1, <1>2, <1>3, CallerType DEF Next

(* The type invariant holds in every reachable state.                         *)
LEMMA TypeInvariance == Spec => []TypeInv
  BY TypeInit, TypeStep, PTL DEF Spec

(* The variables keep their types; in particular no position, commit or       *)
(* message in hand is beyond the end of the topic.                            *)
THEOREM TypeCorrect == Spec => []TypeOK
<1>1. TypeInv => TypeOK
  BY DEF TypeInv
<1> QED
  BY <1>1, TypeInvariance, PTL

(* ---------------------------- sessions and the flag ------------------------- *)

(* Consumers that do not exist yet are blank, and the one that start() made   *)
(* is open until stop() or a crash.                                           *)
SessionInv ==
  /\ \A c \in Sessions : c > sessions => status[c] = "none" /\ position[c] = Unset
  /\ running => consumer \in Sessions /\ status[consumer] = "open" /\ caller = "idle"
  /\ caller = "start" => status[consumer] = "open"

ReaderInv == TypeInv /\ SessionInv /\ OneReader /\ ThreadLives

(* The one open consumer is the one a polling thread reads.                   *)
LEMMA PollingReads ==
  ASSUME ReaderInv, NEW t \in Sessions, Polling(t)
  PROVE  iter[t] = consumer /\ consumer \in Sessions /\ status[consumer] = "open" /\ pc[t] = "poll"
<1>1. iter[t] \in Sessions
  BY PollingType DEF ReaderInv, Polling, InLoop
<1> QED
  BY <1>1 DEF Polling, ReaderInv, OneReader

(* Only an exception ends the thread of the open consumer.                    *)
LEMMA LivesStep ==
  ASSUME ReaderInv, NEW t \in Sessions, ThreadStep(t)
  PROVE  ThreadLives'
<1> SUFFICES ASSUME running', pc'[consumer'] = "ended" PROVE FALSE
  BY DEF ThreadLives
<1>1. running /\ consumer' = consumer /\ TypeInv
  BY ThreadFrame DEF ReaderInv
<1>2. consumer \in Sessions /\ status[consumer] = "open" /\ pc[consumer] # "ended"
  BY <1>1 DEF ReaderInv, SessionInv, ThreadLives
<1>3. t = consumer
  BY <1>1, <1>2, ThreadFrame
<1>4. pc[t] = "poll" /\ status[iter[t]] # "open"
  BY <1>1, <1>3, ThreadFrame
<1>5. iter[t] \in t..sessions /\ consumer \in {0, sessions} /\ t \in Int /\ t > 0
  BY <1>1, <1>4, PollingType DEF TypeInv, TypeOK, InLoop, Sessions
<1>6. iter[t] = consumer
  BY <1>3, <1>5
<1> QED
  BY <1>2, <1>4, <1>6

(* Only a look-up, a rebalance or the iterator changes a position.            *)
LEMMA PositionFrame ==
  ASSUME ReaderInv, NEW t \in Sessions, ThreadStep(t)
  PROVE  \A c \in Sessions \ {consumer} : position'[c] = position[c]
<1>1. position \in [Sessions -> 0..produced \cup {Unset}]
  BY DEF ReaderInv, TypeInv, TypeOK
<1>2. CASE Polling(t) /\ (Locate(t) \/ Rejoin(t) \/ Take(t))
  <2>1. iter[t] = consumer
    BY <1>2, PollingReads
  <2> QED
    BY <1>1, <1>2, <2>1 DEF Locate, Rejoin, Take
<1>3. Locate(t) \/ Rejoin(t) \/ Take(t) => Polling(t)
  BY DEF Locate, Rejoin, Take, Located
<1>4. CASE AutoCommit(t) \/ Raise(t) \/ Prepare(t) \/ Undecodable(t) \/ Exhausted(t) \/ CheckRunning(t)
           \/ Stages(t) \/ Reply(t)
  BY <1>4 DEF AutoCommit, Raise, Prepare, Undecodable, Exhausted, CheckRunning, Stages, Reply, Goto
<1> QED
  BY <1>2, <1>3, <1>4 DEF ThreadStep, LoopStep

(* Every step keeps ReaderInv.                                                *)
LEMMA ReaderStep ==
  ASSUME ReaderInv, [Next]_vars
  PROVE  ReaderInv'
<1> USE DEF ReaderInv
<1>1. CASE Start
  <2>1. \A c \in Sessions : c > sessions' => c > sessions /\ c # sessions'
    BY <1>1, StartFrame DEF Sessions
  <2>2. SessionInv'
    BY <1>1, <2>1, StartFrame DEF SessionInv
  <2>3. \A c \in Sessions : status[c] # "open"
    BY <1>1, StartFrame DEF OneReader
  <2>4. OneReader'
    BY <1>1, <2>3, StartFrame DEF OneReader
  <2>5. ThreadLives'
    BY <1>1, StartFrame DEF ThreadLives
  <2> QED
    BY <2>2, <2>4, <2>5, TypeStep
<1>2. CASE Launch
  BY <1>2, TypeStep, LaunchFrame DEF SessionInv, OneReader, ThreadLives
<1>3. CASE Stop \/ Join
  <2>1. /\ UNCHANGED <<produced, poison, consumer, status, position, pc, sessions>>
        /\ \/ running' = FALSE /\ caller' = "close" /\ caller = "idle"
           \/ running' = running /\ caller = "join" /\ caller' = "idle"
    BY <1>3 DEF Stop, Join, broker, thread, history
  <2> QED
    BY <2>1, TypeStep DEF SessionInv, OneReader, ThreadLives
<1>4. CASE Close
  <2>1. /\ UNCHANGED <<produced, poison, running, consumer, position, pc, sessions>>
        /\ caller = "close" /\ caller' = "join"
        /\ \A c \in Sessions : status'[c] = IF c = consumer THEN "closed" ELSE status[c]
    BY <1>4 DEF Close, broker, thread
  <2>2. ~running
    BY <2>1 DEF SessionInv
  <2>3. consumer \in {0, sessions} /\ sessions \in Nat
    BY KafkaAssumption DEF TypeInv, TypeOK
  <2>4. SessionInv'
    BY <2>1, <2>2, <2>3 DEF SessionInv, Sessions
  <2>5. OneReader' /\ ThreadLives'
    BY <2>1, <2>2 DEF OneReader, ThreadLives
  <2> QED
    BY <2>4, <2>5, TypeStep
<1>5. CASE Crash
  <2>1. /\ UNCHANGED <<produced, poison, position, sessions>>
        /\ running' = FALSE /\ caller' = "idle"
        /\ \A c \in Sessions : status'[c] = IF status[c] = "open" THEN "lost" ELSE status[c]
    BY <1>5 DEF Crash, broker
  <2> QED
    BY <2>1, TypeStep DEF SessionInv, OneReader, ThreadLives
<1>6. ASSUME NEW t \in Sessions, LoopStep(t) \/ AutoCommit(t) \/ Rejoin(t) \/ Raise(t)
      PROVE  ReaderInv'
  <2>1. ThreadStep(t)
    BY <1>6 DEF ThreadStep
  <2>2. UNCHANGED <<produced, poison, running, consumer, caller, status, sessions>>
    BY <2>1, ThreadFrame
  <2>3. \A c \in Sessions : c > sessions => c # consumer
    <3>1. consumer \in {0, sessions} /\ sessions \in Nat
      BY KafkaAssumption DEF TypeInv, TypeOK
    <3> QED
      BY <3>1 DEF Sessions
  <2>4. SessionInv'
    BY <2>1, <2>2, <2>3, PositionFrame DEF SessionInv
  <2>5. OneReader'
    BY <2>2 DEF OneReader
  <2> QED
    BY <2>1, <2>4, <2>5, LivesStep, TypeStep
<1>7. CASE Produce \/ UNCHANGED vars
  <2>1. UNCHANGED <<poison, running, consumer, caller, status, position, pc, sessions>>
    BY <1>7 DEF Produce, vars, broker, object, thread, history
  <2> QED
    BY <2>1, TypeStep DEF SessionInv, OneReader, ThreadLives
<1> QED
  BY <1>1, <1>2, <1>3, <1>4, <1>5, <1>6, <1>7 DEF Next

(* The invariant about the sessions holds initially.                          *)
LEMMA ReaderInit == Init => ReaderInv
  BY TypeInit DEF Init, ReaderInv, SessionInv, OneReader, ThreadLives

(* The invariant about the sessions holds in every reachable state.           *)
LEMMA ReaderInvariance == Spec => []ReaderInv
  BY ReaderInit, ReaderStep, PTL DEF Spec

(* At most one consumer is open, and it is the one that stop() will close.    *)
THEOREM SingleReader == Spec => []OneReader
<1>1. ReaderInv => OneReader
  BY DEF ReaderInv
<1> QED
  BY <1>1, ReaderInvariance, PTL

(* While _running is set, only an exception outside of the try has ended the  *)
(* thread of the last start().                                                *)
THEOREM LoopAlive == Spec => []ThreadLives
<1>1. ReaderInv => ThreadLives
  BY DEF ReaderInv
<1> QED
  BY <1>1, ReaderInvariance, PTL

(* -------------------------------- what is lost ------------------------------ *)

Accounted(m) ==
  m \in done \/ \E t \in Sessions : held[t] = m /\ (status[iter[t]] = "closed" \/ Shared(t))

(* A thread that iterates over c took m, and did not come back for more.      *)
InHandOf(c, m) == \E t \in Sessions : held[t] = m /\ iter[t] = c /\ pc[t] # "poll"

(* Behind the position of the open consumer everything since the first commit *)
(* is accounted for, but for what its threads have in hand or dropped.        *)
HandledBehind ==
  \A c \in Sessions : status[c] = "open" /\ position[c] # Unset /\ base # Unset =>
    \A m \in (base + 1)..position[c] : Accounted(m) \/ InHandOf(c, m)

(* A thread that asks for more has handled what it took.                      *)
HandledBefore == \A t \in Sessions : pc[t] = "poll" /\ held[t] # 0 => held[t] \in done

LossInv == HandledBehind /\ HandledBefore /\ LostOnlyInHand

(* What a commit speaks of are offsets.                                       *)
LEMMA LossType ==
  ASSUME TypeInv
  PROVE  /\ base # Unset => base \in Nat
         /\ \A c \in Sessions : position[c] # Unset => position[c] \in Nat
         /\ base # Unset <=> committed # Unset
         /\ \A t \in Sessions : held[t] # 0 => iter[t] # 0
  BY KafkaAssumption DEF TypeInv, TypeOK, ThreadOK

(* Nothing that is accounted for is forgotten, unless a thread takes another  *)
(* message before it handled the last.                                        *)
LEMMA AccountedStays ==
  ASSUME TypeInv, done \subseteq done', NEW m, m # 0, Accounted(m),
         \A c \in Sessions : status[c] = "closed" => status'[c] = "closed",
         \A t \in Sessions : iter[t] # 0 => iter'[t] = iter[t],
         \A t \in Sessions : held[t] # 0 => held'[t] = held[t] \/ held[t] \in done
  PROVE  Accounted(m)'
<1>1. CASE m \in done
  BY <1>1 DEF Accounted
<1>2. CASE m \notin done
  <2>1. PICK t \in Sessions : held[t] = m /\ (status[iter[t]] = "closed" \/ Shared(t))
    BY <1>2 DEF Accounted
  <2>2. iter[t] # 0 /\ iter'[t] = iter[t] /\ held'[t] = m
    BY <1>2, <2>1, LossType
  <2>3. Shared(t) => Shared(t)'
    BY <2>2 DEF Shared
  <2>4. iter[t] \in Sessions
    <3>1. iter[t] \in t..sessions /\ t \in 1..MaxSessions /\ sessions \in 0..MaxSessions
      BY <2>2 DEF TypeInv, TypeOK, ThreadOK, Sessions
    <3> QED
      BY <3>1, KafkaAssumption DEF Sessions
  <2> QED
    BY <2>1, <2>2, <2>3, <2>4 DEF Accounted
<1> QED
  BY <1>1, <1>2

(* Steps that commit nothing, forget nothing that was done, reopen nothing,   *)
(* and go back to the iterator only when the message in hand is done.         *)
LEMMA LossFrame ==
  ASSUME TypeInv, LossInv,
         UNCHANGED <<base, committed, held>>,
         done \subseteq done',
         \A c \in Sessions : status[c] = "closed" => status'[c] = "closed",
         \A t \in Sessions : iter[t] # 0 => iter'[t] = iter[t],
         \A t \in Sessions : pc'[t] = "poll" /\ held[t] # 0 => pc[t] = "poll" \/ held[t] \in done',
         \A c \in Sessions : status'[c] = "open" =>
           position'[c] = Unset \/ (status[c] = "open" /\ position'[c] = position[c])
  PROVE  LossInv'
<1>1. \A m : m # 0 /\ Accounted(m) => Accounted(m)'
  BY AccountedStays
<1>2. LostOnlyInHand'
  <2> SUFFICES ASSUME base' # Unset, NEW m \in ((base + 1)..committed)' PROVE Accounted(m)'
    BY DEF LostOnlyInHand, Accounted
  <2>1. base' = base /\ committed' = committed /\ base \in Nat /\ m # 0
    BY LossType
  <2>2. Accounted(m)
    BY <2>1 DEF LossInv, LostOnlyInHand, Accounted
  <2> QED
    BY <1>1, <2>1, <2>2
<1>3. HandledBehind'
  <2> SUFFICES ASSUME NEW c \in Sessions, status'[c] = "open", position'[c] # Unset, base' # Unset,
                      NEW m \in ((base + 1)..position[c])'
               PROVE  Accounted(m)' \/ InHandOf(c, m)'
    BY DEF HandledBehind
  <2>1. status[c] = "open" /\ position'[c] = position[c] /\ base' = base /\ base \in Nat /\ m # 0
    BY LossType
  <2>2. Accounted(m) \/ InHandOf(c, m)
    BY <2>1 DEF LossInv, HandledBehind
  <2>3. ASSUME NEW t \in Sessions, held[t] = m, iter[t] = c, pc[t] # "poll"
        PROVE  Accounted(m)' \/ InHandOf(c, m)'
    <3>1. held'[t] = m /\ iter'[t] = c
      BY <2>1, <2>3, LossType
    <3>2. CASE pc'[t] = "poll"
      BY <2>1, <2>3, <3>2 DEF Accounted
    <3>3. CASE pc'[t] # "poll"
      BY <3>1, <3>3 DEF InHandOf
    <3> QED
      BY <3>2, <3>3
  <2> QED
    BY <1>1, <2>1, <2>2, <2>3 DEF InHandOf
<1>4. HandledBefore'
  BY DEF LossInv, HandledBefore
<1> QED
  BY <1>2, <1>3, <1>4 DEF LossInv

(* A commit by a thread that asks the one open consumer for more, or by       *)
(* close(): what another thread has in hand is shared, or was closed upon.    *)
LEMMA LossCommit ==
  ASSUME ReaderInv, LossInv, NEW c \in Sessions,
         status[c] = "open", position[c] # Unset, Commit(position[c]),
         UNCHANGED <<position, pc, iter, held, done>>,
         \/ status' = status /\ \E t \in Sessions : pc[t] = "poll" /\ iter[t] = c
         \/ status' = [d \in Sessions |-> IF d = c THEN "closed" ELSE status[d]]
  PROVE  LossInv'
<1>1. TypeInv /\ position[c] \in Nat /\ (base # Unset => base \in Nat)
  BY LossType DEF ReaderInv
<1>2. \A m : m # 0 /\ Accounted(m) => Accounted(m)'
  BY <1>1, AccountedStays
<1>3. committed' = position[c] /\ base' = IF base = Unset THEN position[c] ELSE base
  BY DEF Commit
<1>4. \A d \in Sessions : status'[d] = "open" => d = c
  BY DEF ReaderInv, OneReader
<1>5. ASSUME base' # Unset, NEW m \in (base' + 1)..position[c]
      PROVE  Accounted(m)'
  <2>1. base # Unset /\ base' = base /\ m # 0
    BY <1>1, <1>3, <1>5
  <2>2. Accounted(m) \/ InHandOf(c, m)
    BY <1>5, <2>1 DEF LossInv, HandledBehind
  <2>3. ASSUME NEW u \in Sessions, held[u] = m, iter[u] = c, pc[u] # "poll"
        PROVE  Accounted(m)'
    <3>1. CASE status'[c] = "closed"
      BY <2>3, <3>1 DEF Accounted
    <3>2. CASE \E t \in Sessions : pc[t] = "poll" /\ iter[t] = c
      <4>1. Shared(u)'
        BY <2>3, <3>2 DEF Shared
      <4> QED
        BY <2>3, <4>1 DEF Accounted
    <3> QED
      BY <3>1, <3>2
  <2> QED
    BY <1>2, <2>1, <2>2, <2>3 DEF InHandOf
<1>6. LostOnlyInHand'
  BY <1>3, <1>5 DEF LostOnlyInHand, Accounted
<1>7. HandledBehind'
  BY <1>4, <1>5 DEF HandledBehind
<1>8. HandledBefore'
  BY DEF LossInv, HandledBefore
<1> QED
  BY <1>6, <1>7, <1>8 DEF LossInv

(* The group's position is looked up: everything committed is accounted for.  *)
LEMMA LossLocate ==
  ASSUME ReaderInv, LossInv, NEW t \in Sessions, Locate(t)
  PROVE  LossInv'
<1> DEFINE c == iter[t]
<1>1. c \in Sessions /\ c = consumer
  BY PollingReads DEF Locate
<1>2. /\ UNCHANGED <<base, committed, done, status, pc, iter, held>>
      /\ position' = [position EXCEPT ![c] = IF committed = Unset THEN produced ELSE committed]
  BY DEF Locate, thread, history
<1>3. position'[c] = IF committed = Unset THEN produced ELSE committed
  BY <1>1, <1>2 DEF ReaderInv, TypeInv, TypeOK
<1>4. \A d \in Sessions : status[d] = "open" => d = c
  BY <1>1 DEF ReaderInv, OneReader
<1> HIDE DEF c
<1>5. \A m : Accounted(m)' <=> Accounted(m)
  BY <1>2 DEF Accounted, Shared
<1>6. LostOnlyInHand'
  BY <1>2, <1>5 DEF LossInv, LostOnlyInHand, Accounted
<1>7. base # Unset => committed # Unset /\ \A m \in (base + 1)..committed : Accounted(m)
  BY LossType DEF ReaderInv, LossInv, LostOnlyInHand, Accounted
<1>8. HandledBehind'
  BY <1>2, <1>3, <1>4, <1>5, <1>7 DEF HandledBehind
<1>9. HandledBefore'
  BY <1>2 DEF LossInv, HandledBefore
<1> QED
  BY <1>6, <1>8, <1>9 DEF LossInv

(* A message is taken by a thread that handled the one before.                *)
LEMMA LossTake ==
  ASSUME ReaderInv, LossInv, NEW t \in Sessions, Take(t)
  PROVE  LossInv'
<1>1. PICK c \in Sessions :
        c = iter[t] /\ c = consumer /\ status[c] = "open" /\ pc[t] = "poll" /\ position[c] # Unset
  BY PollingReads DEF Take, Located
<1>2. PICK n : n = position[c] + 1
  OBVIOUS
<1>3. /\ UNCHANGED <<base, committed, done, status, iter>>
      /\ position' = [position EXCEPT ![c] = n]
      /\ held' = [held EXCEPT ![t] = n]
      /\ pc' = [pc EXCEPT ![t] = "taken"]
  BY <1>1, <1>2 DEF Take, history
<1>4. position[c] \in Nat /\ (base # Unset => base \in Nat) /\ n = position[c] + 1 /\ n \in 0..produced
  <2>1. position[c] \in 0..produced /\ position[c] < produced /\ produced \in 0..MaxOffset
    BY <1>1, KafkaAssumption DEF ReaderInv, TypeInv, TypeOK, Take
  <2> QED
    BY <1>1, <1>2, <2>1, LossType DEF ReaderInv
<1>5. /\ position'[c] = n /\ held'[t] = n /\ pc'[t] = "taken" /\ iter'[t] = c
      /\ \A u \in Sessions \ {t} : held'[u] = held[u] /\ pc'[u] = pc[u] /\ iter'[u] = iter[u]
  BY <1>1, <1>3 DEF ReaderInv, TypeInv, TypeOK
<1>6. \A d \in Sessions : status[d] = "open" => d = c
  BY <1>1 DEF ReaderInv, OneReader
<1>7. held[t] # 0 => held[t] \in done
  BY <1>1 DEF LossInv, HandledBefore
<1>8. \A m : m # 0 /\ Accounted(m) => Accounted(m)'
  BY <1>3, <1>5, <1>7, AccountedStays DEF ReaderInv
<1>9. LostOnlyInHand'
  <2> SUFFICES ASSUME base' # Unset, NEW m \in ((base + 1)..committed)' PROVE Accounted(m)'
    BY DEF LostOnlyInHand, Accounted
  <2>1. m # 0 /\ Accounted(m)
    BY <1>3, <1>4 DEF LossInv, LostOnlyInHand, Accounted
  <2> QED
    BY <1>8, <2>1
<1>10. HandledBehind'
  <2> SUFFICES ASSUME base # Unset, NEW m \in (base + 1)..n
               PROVE  Accounted(m)' \/ InHandOf(c, m)'
    BY <1>3, <1>5, <1>6 DEF HandledBehind
  <2>1. CASE m = n
    BY <1>5, <2>1 DEF InHandOf
  <2>2. CASE m # n
    <3>1. m \in (base + 1)..position[c] /\ m # 0
      BY <1>4, <2>2
    <3>2. Accounted(m) \/ InHandOf(c, m)
      BY <1>1, <3>1 DEF LossInv, HandledBehind
    <3>3. InHandOf(c, m) => InHandOf(c, m)'
      BY <1>1, <1>5 DEF InHandOf
    <3> QED
      BY <1>8, <3>1, <3>2, <3>3
  <2> QED
    BY <2>1, <2>2
<1>11. HandledBefore'
  BY <1>3, <1>5 DEF LossInv, HandledBefore
<1> QED
  BY <1>9, <1>10, <1>11 DEF LossInv

(* The other steps of a thread keep LossInv, too.                             *)
LEMMA LossThread ==
  ASSUME ReaderInv, LossInv, NEW t \in Sessions, ThreadStep(t)
  PROVE  LossInv'
<1>1. TypeInv /\ pc \in [Sessions -> PCs] /\ iter \in [Sessions -> 0..sessions]
      /\ position \in [Sessions -> 0..produced \cup {Unset}]
  BY DEF ReaderInv, TypeInv, TypeOK
<1>2. CASE AutoCommit(t)
  <2>1. /\ Polling(t) /\ position[iter[t]] # Unset /\ Commit(position[iter[t]])
        /\ UNCHANGED <<status, position, pc, iter, held, done>>
    BY <1>2 DEF AutoCommit, Located, thread
  <2>2. iter[t] \in Sessions /\ status[iter[t]] = "open" /\ pc[t] = "poll"
    BY <2>1, PollingReads
  <2> QED
    BY <2>1, <2>2, LossCommit
<1>3. CASE Rejoin(t)
  <2>1. /\ iter[t] \in Sessions
        /\ position' = [position EXCEPT ![iter[t]] = Unset]
        /\ UNCHANGED <<base, committed, done, status, pc, iter, held>>
    BY <1>3, PollingReads DEF Rejoin, Located, thread
  <2>2. \A c \in Sessions : position'[c] = Unset \/ position'[c] = position[c]
    BY <1>1, <2>1
  <2> QED
    BY <1>1, <2>1, <2>2, LossFrame
<1>4. ASSUME NEW p \in {"handle", "reply", "ended", "raised"}, Goto(t, p) PROVE LossInv'
  <2>1. /\ UNCHANGED <<base, committed, done, status, position, iter, held>>
        /\ \A u \in Sessions : pc'[u] = "poll" => pc[u] = "poll"
    BY <1>1, <1>4 DEF Goto, history
  <2> QED
    BY <1>1, <2>1, LossFrame
<1>5. ASSUME pc' = [pc EXCEPT ![t] = "poll"], done' = done \cup {held[t]},
             UNCHANGED <<committed, status, position, iter, held, base>>
      PROVE  LossInv'
  <2>1. \A u \in Sessions : pc'[u] = "poll" => pc[u] = "poll" \/ held[u] \in done'
    BY <1>1, <1>5
  <2> QED
    BY <1>1, <1>5, <2>1, LossFrame
<1>6. CASE Undecodable(t) \/ Exhausted(t) \/ CheckRunning(t) \/ Raise(t)
  BY <1>4, <1>6, PlainSteps
<1>7. CASE Stages(t)
  BY <1>4, <1>5, <1>7 DEF Stages
<1>8. CASE Reply(t)
  BY <1>5, <1>8 DEF Reply
<1>9. CASE Prepare(t)
  <2>1. /\ pc[t] = "imports"
        /\ pc' = [pc EXCEPT ![t] = "poll"]
        /\ iter' = [iter EXCEPT ![t] = consumer]
        /\ UNCHANGED <<base, committed, done, status, position, held>>
    BY <1>9 DEF Prepare, history
  <2>2. iter[t] = 0 /\ held[t] = 0
    BY <1>1, <2>1 DEF TypeInv, ThreadOK
  <2>3. /\ \A u \in Sessions : iter[u] # 0 => iter'[u] = iter[u]
        /\ \A u \in Sessions : pc'[u] = "poll" /\ held[u] # 0 => pc[u] = "poll"
    BY <1>1, <2>1, <2>2
  <2> QED
    BY <1>1, <2>1, <2>3, LossFrame
<1> QED
  BY <1>2, <1>3, <1>6, <1>7, <1>8, <1>9, LossLocate, LossTake DEF ThreadStep, LoopStep

(* Every step keeps LossInv.                                                  *)
LEMMA LossStep ==
  ASSUME ReaderInv, LossInv, [Next]_vars
  PROVE  LossInv'
<1> USE DEF ReaderInv
<1>1. CASE Start
  <2>1. position[sessions'] = Unset /\ status[sessions'] = "none"
    <3>1. sessions' > sessions /\ sessions' \in Sessions
      BY <1>1, StartFrame
    <3> QED
      BY <3>1 DEF SessionInv
  <2>2. /\ \A c \in Sessions : status[c] = "closed" => status'[c] = "closed"
        /\ \A c \in Sessions : status'[c] = "open" =>
             position'[c] = Unset \/ (status[c] = "open" /\ position'[c] = position[c])
    BY <1>1, <2>1, StartFrame
  <2>3. UNCHANGED <<base, committed, held, iter, pc, done>>
    BY <1>1, StartFrame
  <2> QED
    BY <2>2, <2>3, LossFrame
<1>2. CASE Launch
  <2>1. UNCHANGED <<base, committed, position, status, iter, held, done>>
    BY <1>2, LaunchFrame
  <2>2. \A t \in Sessions : pc'[t] = "poll" => pc[t] = "poll"
    BY <1>2, LaunchFrame
  <2> QED
    BY <2>1, <2>2, LossFrame
<1>3. CASE Stop \/ Join \/ Produce \/ UNCHANGED vars
  <2>1. UNCHANGED <<base, committed, position, done, status, pc, iter, held>>
    BY <1>3 DEF Stop, Join, Produce, vars, thread, history
  <2> QED
    BY <2>1, LossFrame
<1>4. CASE Close
  <2>1. /\ status' = [d \in Sessions |-> IF d = consumer THEN "closed" ELSE status[d]]
        /\ UNCHANGED <<position, pc, iter, held, done>>
    BY <1>4 DEF Close, thread
  <2>2. CASE /\ consumer \in Sessions /\ status[consumer] = "open" /\ position[consumer] # Unset
             /\ Commit(position[consumer])
    BY <2>1, <2>2, LossCommit
  <2>3. CASE UNCHANGED <<committed, base>>
    BY <2>1, <2>3, LossFrame
  <2> QED
    BY <1>4, <2>2, <2>3 DEF Close
<1>5. CASE Crash
  <2>1. /\ UNCHANGED <<base, committed, position, done, iter, held>>
        /\ \A c \in Sessions : status'[c] = IF status[c] = "open" THEN "lost" ELSE status[c]
        /\ \A t \in Sessions : pc'[t] \in {"none", "ended"}
    BY <1>5 DEF Crash
  <2> QED
    BY <2>1, LossFrame
<1>6. ASSUME NEW t \in Sessions, LoopStep(t) \/ AutoCommit(t) \/ Rejoin(t) \/ Raise(t) PROVE LossInv'
  BY <1>6, LossThread DEF ThreadStep
<1> QED
  BY <1>1, <1>2, <1>3, <1>4, <1>5, <1>6 DEF Next

(* What the group has committed was handled, but for messages that a thread   *)
(* had in hand when stop() closed its consumer, or when another thread        *)
(* committed for the consumer they share.                                     *)
THEOREM LossBounded == Spec => []LostOnlyInHand
<1>1. Init => LossInv
  BY DEF Init, LossInv, HandledBehind, HandledBefore, LostOnlyInHand
<1>2. ReaderInv /\ LossInv /\ [Next]_vars => LossInv'
  BY LossStep
<1>3. LossInv => LostOnlyInHand
  BY DEF LossInv
<1> QED
  BY <1>1, <1>2, <1>3, ReaderInvariance, PTL DEF Spec

(* ------------------------------ what is repeated ----------------------------- *)

(* The threads that have message m in hand.                                   *)
Holders(m) == {t \in Sessions : pc[t] \in InHand /\ held[t] = m}

(* How far the group has read: nobody takes a message up to here, unless      *)
(* something breaks.                                                          *)
Reading == consumer \in Sessions /\ status[consumer] = "open" /\ position[consumer] # Unset
Frontier ==
  IF Reading THEN position[consumer] ELSE IF committed # Unset THEN committed ELSE produced

Pending(m) == IF m > Frontier THEN 1 ELSE 0

(* The replies to m, those on their way and those to come without an upset.   *)
Chances(m) == replies[m] + Cardinality(Holders(m)) + Pending(m)

RepeatInv == \A m \in Offsets : Chances(m) <= 1 + upsets

(* Sets of sessions can be counted.                                           *)
LEMMA SessionsCount ==
  ASSUME NEW S \in SUBSET Sessions
  PROVE  IsFiniteSet(S) /\ Cardinality(S) \in Nat
<1>1. IsFiniteSet(Sessions)
  BY KafkaAssumption, FS_Interval DEF Sessions
<1>2. IsFiniteSet(S)
  BY <1>1, FS_Subset
<1> QED
  BY <1>2, FS_CardinalityType

(* A set of sessions that gains at most one grows by at most one.             *)
LEMMA GainOne ==
  ASSUME NEW S \in SUBSET Sessions, NEW T \in SUBSET Sessions, NEW c, T \subseteq S \cup {c}
  PROVE  Cardinality(T) <= Cardinality(S) + 1
<1>1. /\ IsFiniteSet(S) /\ Cardinality(S) \in Nat
      /\ Cardinality(T) \in Nat
  BY SessionsCount
<1>2. /\ IsFiniteSet(S \cup {c})
      /\ Cardinality(S \cup {c}) = IF c \in S THEN Cardinality(S) ELSE Cardinality(S) + 1
  BY <1>1, FS_AddElement
<1>3. Cardinality(T) <= Cardinality(S \cup {c})
  BY <1>2, FS_Subset
<1> QED
  BY <1>1, <1>2, <1>3

(* The parts of Chances are numbers.                                          *)
LEMMA ChancesType ==
  ASSUME TypeInv, NEW m \in Offsets
  PROVE  /\ m \in Int /\ replies[m] \in Nat /\ upsets \in Nat /\ Frontier \in Int
         /\ Holders(m) \in SUBSET Sessions
         /\ Cardinality(Holders(m)) \in Nat
<1>1. Frontier \in Int
  BY KafkaAssumption DEF TypeInv, TypeOK, Frontier, Reading
<1>2. Holders(m) \in SUBSET Sessions
  BY DEF Holders
<1>3. Cardinality(Holders(m)) \in Nat
  BY <1>2, SessionsCount
<1>4. replies \in [Offsets -> Nat] /\ upsets \in 0..MaxUpsets
  BY DEF TypeInv, TypeOK
<1>5. m \in Int /\ replies[m] \in Nat /\ upsets \in Nat
  BY <1>4, KafkaAssumption DEF Offsets
<1> QED
  BY <1>1, <1>2, <1>3, <1>5

(* They are after a step, too.                                                *)
LEMMA ChancesTypeNext ==
  ASSUME TypeInv', NEW m \in Offsets
  PROVE  /\ replies'[m] \in Nat /\ upsets' \in Nat /\ Frontier' \in Int
         /\ Holders(m)' \in SUBSET Sessions
         /\ Cardinality(Holders(m)') \in Nat
<1>1. Frontier' \in Int
  BY KafkaAssumption DEF TypeInv, TypeOK, Frontier, Reading
<1>2. Holders(m)' \in SUBSET Sessions
  BY DEF Holders
<1>3. Cardinality(Holders(m)') \in Nat
  BY <1>2, SessionsCount
<1>4. replies' \in [Offsets -> Nat] /\ upsets' \in 0..MaxUpsets
  BY DEF TypeInv, TypeOK
<1>5. replies'[m] \in Nat /\ upsets' \in Nat
  BY <1>4, KafkaAssumption
<1> QED
  BY <1>1, <1>2, <1>3, <1>5

(* What the bound on Chances says, in numbers.                                *)
LEMMA ChancesSum ==
  ASSUME NEW m
  PROVE  /\ Chances(m) = replies[m] + Cardinality(Holders(m)) + (IF m > Frontier THEN 1 ELSE 0)
         /\ Chances(m)' = replies'[m] + Cardinality(Holders(m)') + (IF m > Frontier' THEN 1 ELSE 0)
  BY DEF Chances, Pending

(* Steps after which nobody new holds m and the group has read as far, or     *)
(* which are upsets.                                                          *)
LEMMA RepeatFrame ==
  ASSUME TypeInv, TypeInv', NEW m \in Offsets, Chances(m) <= 1 + upsets,
         Holders(m)' \subseteq Holders(m), replies'[m] = replies[m],
         \/ upsets' = upsets /\ Frontier <= Frontier'
         \/ upsets' = upsets + 1
  PROVE  Chances(m)' <= 1 + upsets'
<1>1. /\ IsFiniteSet(Holders(m))
      /\ Holders(m)' \in SUBSET Holders(m)
  BY ChancesType, SessionsCount
<1>2. Cardinality(Holders(m)') <= Cardinality(Holders(m))
  BY <1>1, FS_Subset
<1>3. CASE upsets' = upsets /\ Frontier <= Frontier'
  <2>1. m > Frontier' => m > Frontier
    BY <1>3, ChancesType, ChancesTypeNext
  <2> QED
    BY <1>2, <1>3, <2>1, ChancesType, ChancesTypeNext, ChancesSum
<1>4. CASE upsets' = upsets + 1
  <2>1. /\ replies[m] + Cardinality(Holders(m)) <= Chances(m)
        /\ Chances(m)' <= replies[m] + Cardinality(Holders(m)') + 1
    BY ChancesType, ChancesTypeNext, ChancesSum
  <2>2. /\ Chances(m) \in Int /\ Chances(m)' \in Int /\ replies[m] \in Int /\ upsets \in Int
        /\ Cardinality(Holders(m)) \in Int /\ Cardinality(Holders(m)') \in Int
    BY ChancesType, ChancesTypeNext, ChancesSum
  <2> QED
    BY <1>2, <1>4, <2>1, <2>2
<1> QED
  BY <1>3, <1>4

(* A message that is in hand is answered at most once, and then let go.       *)
LEMMA RepeatReply ==
  ASSUME TypeInv, TypeInv', NEW m \in Offsets, Chances(m) <= 1 + upsets,
         NEW c \in Holders(m), Holders(m)' = Holders(m) \ {c},
         replies'[m] \in {replies[m], replies[m] + 1},
         upsets' = upsets, Frontier' = Frontier
  PROVE  Chances(m)' <= 1 + upsets'
<1>1. IsFiniteSet(Holders(m))
  BY ChancesType, SessionsCount
<1>2. Cardinality(Holders(m)') = Cardinality(Holders(m)) - 1
  BY <1>1, FS_RemoveElement
<1>3. /\ Cardinality(Holders(m)) \in Int
      /\ replies[m] \in Int /\ replies'[m] \in Int /\ upsets \in Int
      /\ Pending(m) \in Int
  BY ChancesType, ChancesTypeNext DEF Pending
<1>4. Pending(m)' = Pending(m)
  BY DEF Pending
<1>5. /\ Chances(m) = replies[m] + Cardinality(Holders(m)) + Pending(m)
      /\ Chances(m)' = replies'[m] + Cardinality(Holders(m)') + Pending(m)'
  BY DEF Chances
<1> QED
  BY <1>2, <1>3, <1>4, <1>5

(* A message that is taken is no longer pending.                              *)
LEMMA RepeatTake ==
  ASSUME TypeInv, TypeInv', NEW m \in Offsets, Chances(m) <= 1 + upsets,
         NEW c, Holders(m)' \subseteq Holders(m) \cup {c},
         replies'[m] = replies[m], upsets' = upsets,
         Frontier < m, Frontier' >= m
  PROVE  Chances(m)' <= 1 + upsets'
<1>1. Cardinality(Holders(m)') <= Cardinality(Holders(m)) + 1
  BY ChancesType, ChancesTypeNext, GainOne
<1> QED
  BY <1>1, ChancesType, ChancesTypeNext, ChancesSum

(* A step of a thread keeps RepeatInv for message m.                          *)
LEMMA RepeatThread ==
  ASSUME ReaderInv, ReaderInv', NEW m \in Offsets, Chances(m) <= 1 + upsets,
         NEW t \in Sessions, ThreadStep(t)
  PROVE  Chances(m)' <= 1 + upsets'
<1>1. /\ TypeInv /\ TypeInv'
      /\ pc \in [Sessions -> PCs] /\ held \in [Sessions -> 0..produced]
      /\ position \in [Sessions -> 0..produced \cup {Unset}]
      /\ replies \in [Offsets -> Nat]
  BY DEF ReaderInv, TypeInv, TypeOK
<1>2. /\ Frontier \in Int /\ produced \in Int /\ upsets \in Int
      /\ \A c \in Sessions : position[c] # Unset => position[c] \in Int
  BY <1>1, ChancesType DEF TypeInv, TypeOK
<1>3. CASE Locate(t)
  <2>1. PICK c \in Sessions : c = iter[t] /\ c = consumer /\ status[c] = "open"
    BY <1>3, PollingReads DEF Locate
  <2>2. /\ position[c] = Unset
        /\ position' = [position EXCEPT ![c] = IF committed = Unset THEN produced ELSE committed]
        /\ UNCHANGED <<produced, committed, consumer, status, pc, held, replies, upsets>>
    BY <1>3, <2>1 DEF Locate, broker, object, thread, history
  <2>3. position'[c] = IF committed = Unset THEN produced ELSE committed
    BY <1>1, <2>2
  <2>4. Frontier' = Frontier
    BY <1>1, <2>1, <2>2, <2>3, KafkaAssumption DEF Frontier, Reading, TypeInv, TypeOK
  <2>5. Holders(m)' = Holders(m)
    BY <2>2 DEF Holders
  <2> QED
    BY <1>1, <1>2, <2>2, <2>4, <2>5, RepeatFrame
<1>4. CASE AutoCommit(t)
  <2>1. PICK c \in Sessions : c = iter[t] /\ c = consumer /\ status[c] = "open"
    BY <1>4, PollingReads DEF AutoCommit, Located
  <2>2. /\ position[c] # Unset
        /\ UNCHANGED <<produced, consumer, status, position, pc, held, replies, upsets>>
    BY <1>4, <2>1 DEF AutoCommit, Located, broker, object, thread
  <2>3. Frontier' = Frontier /\ Holders(m)' = Holders(m)
    BY <2>1, <2>2 DEF Frontier, Reading, Holders
  <2> QED
    BY <1>1, <1>2, <2>2, <2>3, RepeatFrame
<1>5. CASE Rejoin(t)
  <2>1. upsets' = upsets + 1 /\ UNCHANGED <<pc, held, replies>>
    BY <1>5 DEF Rejoin, Upset, thread
  <2>2. Holders(m)' = Holders(m)
    BY <2>1 DEF Holders
  <2> QED
    BY <1>1, <2>1, <2>2, RepeatFrame
<1>6. CASE Take(t)
  <2>1. PICK c \in Sessions :
          c = iter[t] /\ c = consumer /\ status[c] = "open" /\ position[c] # Unset
    BY <1>6, PollingReads DEF Take, Located
  <2>2. /\ position' = [position EXCEPT ![c] = position[c] + 1]
        /\ held' = [held EXCEPT ![t] = position[c] + 1]
        /\ pc' = [pc EXCEPT ![t] = "taken"]
        /\ UNCHANGED <<produced, committed, consumer, status, replies, upsets>>
    BY <1>6, <2>1 DEF Take, broker, object, history
  <2>3. /\ position[c] \in Int /\ position'[c] = position[c] + 1 /\ held'[t] = position[c] + 1
        /\ \A u \in Sessions \ {t} : held'[u] = held[u] /\ pc'[u] = pc[u]
    BY <1>1, <1>2, <2>1, <2>2
  <2>4. Frontier = position[c] /\ Frontier' = position[c] + 1
    BY <2>1, <2>2, <2>3, KafkaAssumption DEF Frontier, Reading
  <2>5. CASE m = position[c] + 1
    <3>1. Holders(m)' \subseteq Holders(m) \cup {t}
      BY <2>3 DEF Holders
    <3>2. Frontier < m /\ Frontier' >= m
      BY <2>3, <2>4, <2>5
    <3> QED
      BY <1>1, <2>2, <3>1, <3>2, RepeatTake
  <2>6. CASE m # position[c] + 1
    <3>1. Holders(m)' \subseteq Holders(m)
      BY <2>3, <2>6 DEF Holders
    <3> QED
      BY <1>1, <2>2, <2>3, <2>4, <3>1, RepeatFrame
  <2> QED
    BY <2>5, <2>6
<1>7. ASSUME NEW p, Goto(t, p), pc[t] \in {"taken", "handle"} \/ p \in {"ended", "raised"}
      PROVE  Chances(m)' <= 1 + upsets'
  <2>1. /\ pc' = [pc EXCEPT ![t] = p]
        /\ UNCHANGED <<produced, committed, consumer, status, position, held, replies, upsets>>
    BY <1>7 DEF Goto, broker, object, history
  <2>2. /\ Frontier' = Frontier
        /\ Holders(m)' \subseteq Holders(m)
    BY <1>1, <1>7, <2>1 DEF Frontier, Reading, Holders, InHand
  <2> QED
    BY <1>1, <1>2, <2>1, <2>2, RepeatFrame
<1>8. CASE Undecodable(t) \/ Exhausted(t) \/ CheckRunning(t) \/ Raise(t)
  BY <1>7, <1>8 DEF Undecodable, Exhausted, CheckRunning, Raise
<1>9. CASE Prepare(t)
  <2>1. /\ pc' = [pc EXCEPT ![t] = "poll"]
        /\ UNCHANGED <<produced, committed, consumer, status, position, held, replies, upsets>>
    BY <1>9 DEF Prepare, broker, object, history
  <2>2. Frontier' = Frontier /\ Holders(m)' \subseteq Holders(m)
    BY <1>1, <2>1 DEF Frontier, Reading, Holders, InHand
  <2> QED
    BY <1>1, <1>2, <2>1, <2>2, RepeatFrame
<1>10. ASSUME pc[t] \in {"handle", "reply"},
              pc' = [pc EXCEPT ![t] = "poll"],
              \/ replies' = [replies EXCEPT ![held[t]] = @ + 1]
              \/ replies' = replies,
              UNCHANGED <<produced, committed, consumer, status, position, held, upsets>>
       PROVE  Chances(m)' <= 1 + upsets'
  <2>1. Frontier' = Frontier
    BY <1>10 DEF Frontier, Reading
  <2>2. Holders(m)' = Holders(m) \ {t}
    BY <1>1, <1>10 DEF Holders, InHand
  <2>3. CASE m = held[t]
    <3>1. t \in Holders(m)
      BY <1>10, <2>3 DEF Holders, InHand
    <3>2. replies'[m] \in {replies[m], replies[m] + 1}
      BY <1>1, <1>10, <2>3
    <3> QED
      BY <1>1, <1>10, <2>1, <2>2, <3>1, <3>2, RepeatReply
  <2>4. CASE m # held[t]
    <3>1. replies'[m] = replies[m]
      BY <1>1, <1>10, <2>4
    <3> QED
      BY <1>1, <1>2, <1>10, <2>1, <2>2, <3>1, RepeatFrame
  <2> QED
    BY <2>3, <2>4
<1>11. CASE Stages(t)
  <2>1. pc[t] = "handle"
    BY <1>11 DEF Stages
  <2>2. CASE Goto(t, "reply")
    BY <1>7, <2>1, <2>2
  <2>3. CASE pc' = [pc EXCEPT ![t] = "poll"]
             /\ UNCHANGED <<broker, committed, object, status, position, held, replies, upsets>>
    BY <1>10, <2>1, <2>3 DEF broker, object
  <2> QED
    BY <1>11, <2>2, <2>3 DEF Stages
<1>12. CASE Reply(t)
  BY <1>10, <1>12 DEF Reply, broker, object
<1> QED
  BY <1>3, <1>4, <1>5, <1>6, <1>8, <1>9, <1>11, <1>12 DEF ThreadStep, LoopStep

(* Every step keeps RepeatInv.                                                *)
LEMMA RepeatStep ==
  ASSUME ReaderInv, RepeatInv, [Next]_vars
  PROVE  RepeatInv'
<1> SUFFICES ASSUME NEW m \in Offsets PROVE Chances(m)' <= 1 + upsets'
  BY DEF RepeatInv
<1>1. /\ ReaderInv' /\ TypeInv /\ TypeInv'
      /\ Chances(m) <= 1 + upsets
  BY ReaderStep DEF ReaderInv, RepeatInv
<1>2. Frontier \in Int /\ produced \in Int /\ upsets \in Int
  BY <1>1, ChancesType DEF TypeInv, TypeOK
<1>3. CASE Start
  <2>1. \A c \in Sessions : status[c] # "open"
    BY <1>3, StartFrame DEF ReaderInv, OneReader
  <2>2. position'[consumer'] = Unset
    <3>1. sessions' > sessions /\ sessions' \in Sessions
      BY <1>1, <1>3, StartFrame
    <3> QED
      BY <1>1, <1>3, <3>1, StartFrame DEF ReaderInv, SessionInv
  <2>3. UNCHANGED <<produced, committed, pc, held, replies, upsets>>
    BY <1>1, <1>3, StartFrame
  <2>4. Frontier' = Frontier /\ Holders(m)' = Holders(m)
    BY <2>1, <2>2, <2>3 DEF Frontier, Reading, Holders
  <2> QED
    BY <1>1, <1>2, <2>3, <2>4, RepeatFrame
<1>4. CASE Launch
  <2>1. UNCHANGED <<produced, committed, consumer, status, position, held, replies, upsets>>
    BY <1>1, <1>4, LaunchFrame
  <2>2. Frontier' = Frontier
    BY <2>1 DEF Frontier, Reading
  <2>3. Holders(m)' \subseteq Holders(m)
    BY <1>1, <1>4, <2>1, LaunchFrame DEF Holders, InHand
  <2> QED
    BY <1>1, <1>2, <2>1, <2>2, <2>3, RepeatFrame
<1>5. CASE Stop \/ Join \/ UNCHANGED vars
  <2>1. UNCHANGED <<produced, committed, consumer, status, position, pc, held, replies, upsets>>
    BY <1>5 DEF Stop, Join, vars, broker, object, thread, history
  <2>2. Frontier' = Frontier /\ Holders(m)' = Holders(m)
    BY <2>1 DEF Frontier, Reading, Holders
  <2> QED
    BY <1>1, <1>2, <2>1, <2>2, RepeatFrame
<1>6. CASE Close
  <2>1. /\ UNCHANGED <<produced, consumer, position, pc, held, replies>>
        /\ status' = [c \in Sessions |-> IF c = consumer THEN "closed" ELSE status[c]]
    BY <1>6 DEF Close, broker, thread
  <2>2. Holders(m)' = Holders(m) /\ ~Reading'
    BY <2>1 DEF Holders, Reading
  <2>3. CASE upsets' = upsets + 1
    BY <1>1, <2>1, <2>2, <2>3, RepeatFrame
  <2>4. CASE Reading /\ committed' = position[consumer] /\ upsets' = upsets
    <3>1. Frontier' = Frontier
      <4>1. position[consumer] # Unset
        BY <2>4 DEF Reading
      <4> QED
        BY <2>2, <2>4, <4>1 DEF Frontier
    <3> QED
      BY <1>1, <1>2, <2>1, <2>2, <2>4, <3>1, RepeatFrame
  <2>5. CASE ~Reading /\ UNCHANGED <<committed, upsets>>
    <3>1. Frontier' = Frontier
      BY <2>1, <2>2, <2>5 DEF Frontier
    <3> QED
      BY <1>1, <1>2, <2>1, <2>2, <2>5, <3>1, RepeatFrame
  <2> QED
    BY <1>6, <2>3, <2>4, <2>5 DEF Close, Commit, Upset, Reading
<1>7. CASE Crash
  <2>1. /\ upsets' = upsets + 1 /\ replies' = replies /\ held' = held
        /\ \A t \in Sessions : pc'[t] \in {"none", "ended"}
    BY <1>7 DEF Crash, Upset
  <2>2. Holders(m)' \subseteq Holders(m)
    BY <2>1 DEF Holders, InHand
  <2> QED
    BY <1>1, <2>1, <2>2, RepeatFrame
<1>8. CASE Produce
  <2>1. /\ produced' = produced + 1
        /\ UNCHANGED <<committed, consumer, status, position, pc, held, replies, upsets>>
    BY <1>8 DEF Produce, object, thread, history
  <2>2. Frontier <= Frontier' /\ Holders(m)' = Holders(m)
    BY <1>1, <1>2, <2>1, ChancesTypeNext DEF Frontier, Reading, Holders
  <2> QED
    BY <1>1, <2>1, <2>2, RepeatFrame
<1>9. ASSUME NEW t \in Sessions, LoopStep(t) \/ AutoCommit(t) \/ Rejoin(t) \/ Raise(t)
      PROVE  Chances(m)' <= 1 + upsets'
  BY <1>1, <1>9, RepeatThread DEF ThreadStep
<1> QED
  BY <1>3, <1>4, <1>5, <1>6, <1>7, <1>8, <1>9 DEF Next

(* Initially nobody holds or has answered a message.                          *)
LEMMA RepeatInit == Init => RepeatInv
<1> SUFFICES ASSUME Init, NEW m \in Offsets PROVE Chances(m) <= 1 + upsets
  BY DEF RepeatInv
<1>1. replies[m] = 0 /\ upsets = 0 /\ Holders(m) = {}
  BY DEF Init, Holders, InHand
<1>2. Cardinality(Holders(m)) = 0
  BY <1>1, FS_EmptySet
<1> QED
  BY <1>1, <1>2, ChancesSum

(* Every message is answered at most once more than something broke.          *)
THEOREM RepeatsBounded == Spec => []RepeatsOnlyAfterUpsets
<1>1. TypeInv /\ RepeatInv => RepeatsOnlyAfterUpsets
  <2> SUFFICES ASSUME TypeInv, NEW m \in Offsets, Chances(m) <= 1 + upsets
               PROVE  replies[m] <= 1 + upsets
    BY DEF RepeatInv, RepeatsOnlyAfterUpsets
  <2> QED
    BY ChancesType, ChancesSum
<1>2. ReaderInv => TypeInv
  BY DEF ReaderInv
<1> QED
  BY <1>1, <1>2, RepeatInit, RepeatStep, ReaderInvariance, PTL DEF Spec
===============================================================================
