---------------------------- MODULE KafkaConsumer -----------------------------
(* api/kafka_consumer.py: requests that arrive on a Kafka topic.  start()     *)
(* creates a consumer and then a daemon thread; a session is such a pair.     *)
(* The thread imports the engine, builds its executor, and only then reads    *)
(* _consumer, which may by now be that of a later session.  stop() clears the *)
(* flag, closes the consumer and waits ten seconds for the thread, which may  *)
(* then be anywhere.  start() and stop() are called by one thread.            *)
(*                                                                            *)
(* The broker and kafka-python are external.  The topic is one partition, a   *)
(* log of offsets 1, 2, ...; a position or commit p stands for "the messages  *)
(* up to p".  The iterator advances the position before it hands out the      *)
(* message; it commits its position now and then before it fetches, and when  *)
(* it is closed.                                                              *)
EXTENDS Integers, FiniteSets

CONSTANTS MaxOffset,    \* bound on the messages produced
          MaxSessions,  \* bound on the calls of start() that succeed
          MaxUpsets,    \* bound on crashes, lost memberships and failed commits
          Unset         \* no commit, or no position yet

ASSUME KafkaAssumption ==
  /\ MaxOffset \in Nat
  /\ MaxSessions \in Nat
  /\ MaxUpsets \in Nat
  /\ Unset \notin Int

VARIABLES
  produced,   \* offset of the last message in the topic
  poison,     \* offsets whose values value_deserializer cannot decode
  committed,  \* what the group has committed
  running,    \* _running
  consumer,   \* _consumer: the session of the last start(), 0 for None
  caller,     \* where the caller of start() and stop() is in them
  status,     \* status[c]: of the consumer of session c
  position,   \* position[c]: of the consumer of session c
  pc,         \* pc[t]: where the thread of session t is in _consume_loop
  iter,       \* iter[t]: the consumer it iterates over, 0 before it reads it
  held,       \* held[t]: msg, the last message it took, 0 before the first
  sessions,   \* history: number of sessions so far
  done,       \* history: offsets whose handling came to its end
  replies,    \* history: replies[m] is how often m was answered
  upsets,     \* history: crashes, lost memberships and failed commits so far
  base        \* history: the first commit

broker == <<produced, poison>>
object == <<running, consumer, caller>>
thread == <<pc, iter, held>>
history == <<sessions, done, replies, upsets, base>>
vars == <<broker, committed, object, status, position, thread, history>>

Sessions == 1..MaxSessions
Offsets == 1..MaxOffset
PCs == {"none", "imports", "poll", "taken", "handle", "reply", "ended", "raised"}

Init ==
  /\ produced = 0
  /\ poison \in SUBSET Offsets
  /\ committed = Unset
  /\ running = FALSE
  /\ consumer = 0
  /\ caller = "idle"
  /\ status = [c \in Sessions |-> "none"]
  /\ position = [c \in Sessions |-> Unset]
  /\ pc = [t \in Sessions |-> "none"]
  /\ iter = [t \in Sessions |-> 0]
  /\ held = [t \in Sessions |-> 0]
  /\ sessions = 0
  /\ done = {}
  /\ replies = [m \in Offsets |-> 0]
  /\ upsets = 0
  /\ base = Unset

(* --------------------------------- the broker ------------------------------- *)

Produce ==
  /\ produced < MaxOffset
  /\ produced' = produced + 1
  /\ UNCHANGED <<poison, committed, object, status, position, thread, history>>

(* The group commits p.                                                       *)
Commit(p) ==
  /\ committed' = p
  /\ base' = IF base = Unset THEN p ELSE base

(* ------------------------------ start() and stop() -------------------------- *)

NewConsumer ==
  /\ sessions < MaxSessions
  /\ sessions' = sessions + 1
  /\ consumer' = sessions'
  /\ status' = [status EXCEPT ![sessions'] = "open"]
  /\ caller' = "start"
  /\ UNCHANGED <<broker, committed, running, position, thread, done, replies, upsets, base>>

\* Faulty variant: without the test of _running.
StartAgain == caller = "idle" /\ NewConsumer

(* start() assigns _consumer, unless it returns early or the consumer cannot  *)
(* be created, which changes nothing.                                         *)
Start ==
  /\ caller = "idle"
  /\ ~running
  /\ NewConsumer

(* It sets the flag and starts the thread.                                    *)
Launch ==
  /\ caller = "start"
  /\ caller' = "idle"
  /\ running' = TRUE
  /\ pc' = [pc EXCEPT ![consumer] = "imports"]
  /\ UNCHANGED <<broker, committed, consumer, status, position, iter, held, history>>

\* Faulty variant: the flag is left alone.
StopKeepsFlag ==
  /\ caller = "idle"
  /\ caller' = "close"
  /\ UNCHANGED <<broker, committed, running, consumer, status, position, thread, history>>

Stop ==
  /\ caller = "idle"
  /\ running' = FALSE
  /\ caller' = "close"
  /\ UNCHANGED <<broker, committed, consumer, status, position, thread, history>>

(* A crash, a lost membership or a failed commit happens.                     *)
Upset ==
  /\ upsets < MaxUpsets
  /\ upsets' = upsets + 1

\* Faulty variant: close(autocommit=False).
CloseWithoutCommit ==
  /\ caller = "close"
  /\ caller' = "join"
  /\ status' = [c \in Sessions |-> IF c = consumer THEN "closed" ELSE status[c]]
  /\ UNCHANGED <<broker, committed, running, consumer, position, thread, history>>

(* _consumer.close() commits the position, which counts the message that a    *)
(* thread has in hand.  A commit that fails is only logged.  Closing again    *)
(* does nothing.                                                              *)
Close ==
  /\ caller = "close"
  /\ caller' = "join"
  /\ status' = [c \in Sessions |-> IF c = consumer THEN "closed" ELSE status[c]]
  /\ \/ /\ consumer \in Sessions /\ status[consumer] = "open" /\ position[consumer] # Unset
        /\ \/ Commit(position[consumer]) /\ UNCHANGED upsets
           \/ Upset /\ UNCHANGED <<committed, base>>
     \/ /\ consumer \in Sessions => status[consumer] # "open" \/ position[consumer] = Unset
        /\ UNCHANGED <<committed, upsets, base>>
  /\ UNCHANGED <<broker, running, consumer, position, thread, sessions, done, replies>>

(* _thread.join(timeout=10) returns, whether the thread ended or not.         *)
Join ==
  /\ caller = "join"
  /\ caller' = "idle"
  /\ UNCHANGED <<broker, committed, running, consumer, status, position, thread, history>>

(* The process is killed, or its main thread ends: the loop runs in a daemon. *)
Crash ==
  /\ Upset
  /\ running' = FALSE
  /\ consumer' = 0
  /\ caller' = "idle"
  /\ status' = [c \in Sessions |-> IF status[c] = "open" THEN "lost" ELSE status[c]]
  /\ pc' = [t \in Sessions |-> IF pc[t] = "none" THEN "none" ELSE "ended"]
  /\ UNCHANGED <<broker, committed, position, iter, held, sessions, done, replies, base>>

(* -------------- the iterator of thread t over the consumer it read ------------ *)

Polling(t) == pc[t] = "poll" /\ status[iter[t]] = "open"
Located(t) == Polling(t) /\ position[iter[t]] # Unset

(* auto_offset_reset="latest": a group without commit starts at the end.      *)
Locate(t) ==
  /\ Polling(t)
  /\ position[iter[t]] = Unset
  /\ position' = [position EXCEPT ![iter[t]] = IF committed = Unset THEN produced ELSE committed]
  /\ UNCHANGED <<broker, committed, object, status, thread, history>>

(* enable_auto_commit=True.                                                   *)
AutoCommit(t) ==
  /\ Located(t)
  /\ position[iter[t]] # committed
  /\ Commit(position[iter[t]])
  /\ UNCHANGED <<broker, object, status, position, thread, sessions, done, replies, upsets>>

(* The group is rebalanced before a commit: the position is looked up again.  *)
Rejoin(t) ==
  /\ Located(t)
  /\ position[iter[t]] # committed
  /\ Upset
  /\ position' = [position EXCEPT ![iter[t]] = Unset]
  /\ UNCHANGED <<broker, committed, object, status, thread, sessions, done, replies, base>>

Take(t) ==
  /\ Located(t)
  /\ position[iter[t]] < produced
  /\ position[iter[t]] + 1 \notin poison
  /\ position' = [position EXCEPT ![iter[t]] = @ + 1]
  /\ held' = [held EXCEPT ![t] = position[iter[t]] + 1]
  /\ pc' = [pc EXCEPT ![t] = "taken"]
  /\ UNCHANGED <<broker, committed, object, status, iter, history>>

(* ------------------------ _consume_loop of session t ------------------------ *)

(* Thread t is at p, and nothing but its pc changes.                          *)
Goto(t, p) ==
  /\ pc' = [pc EXCEPT ![t] = p]
  /\ UNCHANGED <<broker, committed, object, status, position, iter, held, history>>

(* The imports are through and the executor is built; for reads _consumer.    *)
Prepare(t) ==
  /\ pc[t] = "imports"
  /\ pc' = [pc EXCEPT ![t] = "poll"]
  /\ iter' = [iter EXCEPT ![t] = consumer]
  /\ UNCHANGED <<broker, committed, object, status, position, held, history>>

(* An import, DAGExecutor() or the iterator raises, outside of every try.     *)
Raise(t) ==
  /\ pc[t] = "imports" \/ Polling(t)
  /\ Goto(t, "raised")

\* Faulty variant: such a message is skipped.
SkipUndecodable(t) ==
  /\ Located(t)
  /\ position[iter[t]] < produced
  /\ position[iter[t]] + 1 \in poison
  /\ position' = [position EXCEPT ![iter[t]] = @ + 1]
  /\ UNCHANGED <<broker, committed, object, status, thread, history>>

(* A value in the batch that is fetched does not decode: the exception leaves *)
(* the for statement in the same way.                                         *)
Undecodable(t) ==
  /\ Located(t)
  /\ \E m \in poison : position[iter[t]] < m /\ m <= produced
  /\ Goto(t, "raised")

(* The iteration over a closed consumer ends, or raises.                      *)
Exhausted(t) ==
  /\ pc[t] = "poll"
  /\ status[iter[t]] # "open"
  /\ Goto(t, "ended")

(* if not self._running: break.  The message is dropped.                      *)
CheckRunning(t) ==
  /\ pc[t] = "taken"
  /\ Goto(t, IF running THEN "handle" ELSE "ended")

\* Faulty variant: the handler of the exception leaves the loop.
StagesGiveUp(t) ==
  /\ pc[t] = "handle"
  /\ Goto(t, "reply") \/ Goto(t, "ended")

(* A stage or the callback raises, which is logged, or both are through.      *)
Stages(t) ==
  /\ pc[t] = "handle"
  /\ \/ Goto(t, "reply")
     \/ /\ pc' = [pc EXCEPT ![t] = "poll"]
        /\ done' = done \cup {held[t]}
        /\ UNCHANGED <<broker, committed, object, status, position, iter, held, sessions, replies, upsets, base>>

(* _produce_reply: the reply is sent, or it is not wanted or fails.           *)
Reply(t) ==
  /\ pc[t] = "reply"
  /\ pc' = [pc EXCEPT ![t] = "poll"]
  /\ done' = done \cup {held[t]}
  /\ \/ replies' = [replies EXCEPT ![held[t]] = @ + 1]
     \/ UNCHANGED replies
  /\ UNCHANGED <<broker, committed, object, status, position, iter, held, sessions, upsets, base>>

LoopStep(t) ==
  \/ Prepare(t)
  \/ Locate(t)
  \/ Take(t)
  \/ Undecodable(t)
  \/ Exhausted(t)
  \/ CheckRunning(t)
  \/ Stages(t)
  \/ Reply(t)

Next ==
  \/ Produce
  \/ Start
  \/ Launch
  \/ Stop
  \/ Close
  \/ Join
  \/ Crash
  \/ \E t \in Sessions : LoopStep(t) \/ AutoCommit(t) \/ Rejoin(t) \/ Raise(t)

Spec == Init /\ [][Next]_vars

(* The thread of a session runs on and the broker answers its fetches.        *)
LoopFairness == \A t \in Sessions : WF_vars(LoopStep(t))

FairSpec == Spec /\ LoopFairness

(* --------------------------------- properties -------------------------------- *)

TypeOK ==
  /\ produced \in 0..MaxOffset
  /\ poison \subseteq Offsets
  /\ committed \in 0..produced \cup {Unset}
  /\ running \in BOOLEAN
  /\ consumer \in {0, sessions}
  /\ caller \in {"idle", "start", "close", "join"}
  /\ status \in [Sessions -> {"none", "open", "closed", "lost"}]
  /\ position \in [Sessions -> 0..produced \cup {Unset}]
  /\ pc \in [Sessions -> PCs]
  /\ iter \in [Sessions -> 0..sessions]
  /\ held \in [Sessions -> 0..produced]
  /\ sessions \in 0..MaxSessions
  /\ done \subseteq 1..produced
  /\ replies \in [Offsets -> Nat]
  /\ upsets \in 0..MaxUpsets
  /\ base \in 0..produced \cup {Unset}
  /\ base = Unset <=> committed = Unset

(* At most one consumer is open, the one of the last start(), and it is not   *)
(* forgotten: while it is open the flag is set, or start() is about to set it *)
(* or stop() to close it (kafka_consumer.py:61-85,89-91).                     *)
OneReader ==
  \A c \in Sessions : status[c] = "open" => c = consumer /\ (running \/ caller \in {"start", "close"})

(* Thread t is not alone with its consumer: one of an earlier session read    *)
(* _consumer so late that it found this one.                                  *)
Shared(t) == \E u \in Sessions \ {t} : iter[u] = iter[t]

(* What is committed was handled to its end, but for messages a thread had in *)
(* hand when stop() closed its consumer, or while another thread committed    *)
(* for the same consumer (kafka_consumer.py:74,91,108-109).  Nothing else     *)
(* that was committed is lost, in particular not by a crash.                  *)
LostOnlyInHand ==
  base # Unset => \A m \in (base + 1)..committed :
    m \in done \/ \E t \in Sessions : held[t] = m /\ (status[iter[t]] = "closed" \/ Shared(t))

(* A request is answered again only as often as something broke: a stop() and *)
(* a start() alone never repeat one, also when join() timed out and two loops *)
(* overlap, or share a consumer (kafka_consumer.py:88-93,108).                *)
RepeatsOnlyAfterUpsets ==
  \A m \in Offsets : replies[m] <= 1 + upsets

(* While _running is set the thread of the last start() has not come to its   *)
(* end, so that start() may return without doing anything                     *)
(* (kafka_consumer.py:61-62,96-110); only an exception outside of the try     *)
(* breaks this: of an import, of DAGExecutor() or of the iterator.            *)
ThreadLives ==
  running => pc[consumer] # "ended"

(* Every request after the commit of the group is handled to its end, however *)
(* often handling others fails, unless the consumer stops, the thread raised  *)
(* outside of the try or another one shares its consumer                      *)
(* (kafka_consumer.py:96-152).                                                *)
EveryRequestHandled ==
  \A m \in Offsets :
    running /\ committed # Unset /\ committed < m /\ m <= produced
      ~> m \in done \/ ~running \/ pc[consumer] = "raised" \/ Shared(consumer)
===============================================================================
