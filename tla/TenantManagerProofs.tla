------------------------- MODULE TenantManagerProofs --------------------------
(* Proofs about TenantManager, for every set of threads and tenants, every    *)
(* quota and every unit of time.                                              *)
EXTENDS TenantManager, TLAPS

(* ------------------------------- token bucket ------------------------------- *)

(* Level of a bucket record at time n, with the time made explicit.           *)
LevelAt(bucket, n) == Capped(bucket, bucket.tokens + (n - bucket.last) * bucket.rate)

(* Products of naturals are naturals.                                         *)
LEMMA ProductNat == \A a, b \in Nat : a * b \in Nat
OBVIOUS

(* One more factor.                                                           *)
LEMMA ProductStep == \A a, b \in Int : (a + 1) * b = a * b + b
OBVIOUS

(* The fields of a bucket.                                                    *)
LEMMA BucketFacts ==
  ASSUME NEW x \in Bucket
  PROVE  /\ x.rate \in Nat /\ x.burst \in Nat /\ x.tokens \in Nat /\ x.last \in Nat
         /\ x.rate \in Int /\ x.burst \in Int /\ x.tokens \in Int /\ x.last \in Int
BY DEF Bucket

(* A token is a positive number of units.                                     *)
LEMMA TokenFacts == Token \in Nat /\ Token > 0
BY TenantAssumption DEF Token

(* A refilled bucket holds between nothing and its burst.                     *)
LEMMA LevelRange ==
  ASSUME NEW x \in Bucket, NEW n \in Nat, x.last <= n
  PROVE  LevelAt(x, n) \in Nat /\ LevelAt(x, n) <= x.burst
<1>1. (n - x.last) * x.rate \in Nat
  <2>1. n - x.last \in Nat
    BY BucketFacts
  <2> QED
    BY <2>1, BucketFacts, ProductNat
<1> QED
  BY <1>1, BucketFacts DEF LevelAt, Capped

(* One tick later it holds at most rate more; or exactly that, or its burst.  *)
LEMMA LevelTick ==
  ASSUME NEW x \in Bucket, NEW n \in Nat, x.last <= n
  PROVE  /\ LevelAt(x, n + 1) <= LevelAt(x, n) + x.rate
         /\ LevelAt(x, n + 1) \in {LevelAt(x, n) + x.rate, x.burst}
<1>1. (n - x.last) * x.rate \in Nat
  <2>1. n - x.last \in Nat
    BY BucketFacts
  <2> QED
    BY <2>1, BucketFacts, ProductNat
<1>2. ((n + 1) - x.last) * x.rate = (n - x.last) * x.rate + x.rate
  <2>1. (n + 1) - x.last = (n - x.last) + 1 /\ n - x.last \in Int
    BY BucketFacts
  <2> QED
    BY <2>1, BucketFacts, ProductStep
<1> DEFINE a == (n - x.last) * x.rate
           c == ((n + 1) - x.last) * x.rate
<1>3. a \in Nat /\ c = a + x.rate
  BY <1>1, <1>2
<1>4. /\ LevelAt(x, n) = IF x.tokens + a <= x.burst THEN x.tokens + a ELSE x.burst
      /\ LevelAt(x, n + 1) = IF x.tokens + c <= x.burst THEN x.tokens + c ELSE x.burst
  BY DEF LevelAt, Capped
<1> HIDE DEF a, c
<1> QED
  BY <1>3, <1>4, BucketFacts

(* Right after a refill to at most the burst, that is what it holds.          *)
LEMMA LevelRefilled ==
  ASSUME NEW y \in Bucket, y.tokens <= y.burst
  PROVE  LevelAt(y, y.last) = y.tokens
<1>1. (y.last - y.last) * y.rate = 0
  BY BucketFacts
<1> QED
  BY <1>1, BucketFacts DEF LevelAt, Capped

(* ------------------------- the inductive invariant -------------------------- *)

Writing == {"registering", "unregistering"}

(* A thread writes the maps exactly while it holds the lock, and the first of *)
(* its two writes shows in tenants.                                           *)
LockInv ==
  \A h \in Threads :
    /\ pc[h] \in Writing <=> lock = h
    /\ pc[h] = "registering" =>
         job[h].quota \in Quotas /\ job[h].tenant \in DOMAIN tenants
    /\ pc[h] = "unregistering" => job[h].tenant \notin DOMAIN tenants

LimitedInv == \A h \in Threads : pc[h] = "limited" => job[h].bucket \in BucketIds

(* An admission that nobody disturbed since it found its tenant will find a   *)
(* limiter.                                                                   *)
SteadyInv ==
  \A h \in Threads : pc[h] = "found" /\ steady[h] =>
    ~BeingWritten(job[h].tenant) /\ job[h].tenant \in DOMAIN limiters

(* Tokens taken from bucket b since time s, and what its quota allows.        *)
Used(b, s) == (grants[b] - before[b][s]) * Token
Allowed(b, s) == buckets[b].burst + buckets[b].rate * (now - s)

(* The level of a bucket leaves room for every window, and one window is      *)
(* used up but for the level: the tokens are counted exactly.                 *)
LevelBound ==
  \A b \in BucketIds : \A s \in 0..now :
    Used(b, s) + LevelAt(buckets[b], now) <= Allowed(b, s)

LevelExact ==
  \A b \in BucketIds : \E s \in 0..now :
    Used(b, s) + LevelAt(buckets[b], now) = Allowed(b, s)

RefillsPast == \A b \in BucketIds : buckets[b].last <= now

BucketInv == RefillsPast /\ LevelBound /\ LevelExact

MapInv == LockInv /\ LimitedInv /\ MapsAgree /\ SteadyInv /\ UnlimitedOnlyIfDisturbed

IInv == TypeOK /\ MapInv /\ BucketInv

(* ----------------------------- type correctness ----------------------------- *)

(* The initial states are well typed.                                         *)
LEMMA InitType == Init => TypeOK
BY TenantAssumption DEF Init, TypeOK, Job, PCs, Verdicts, BucketIds

(* The fields of the job of a thread.                                         *)
LEMMA JobFacts ==
  ASSUME TypeOK, NEW h \in Threads
  PROVE  /\ job[h].tenant \in Tenants /\ job[h].quota \in Quotas \cup {0}
         /\ job[h].bucket \in Nat /\ job[h] \in Job
BY DEF TypeOK, Job

(* A new bucket is full.                                                      *)
LEMMA NewBucketFacts ==
  ASSUME TypeOK, NEW quota \in Nat
  PROVE  /\ NewBucket(quota) \in Bucket
         /\ NewBucket(quota).last = now
         /\ NewBucket(quota).rate = quota
         /\ LevelAt(NewBucket(quota), now) = NewBucket(quota).burst
<1>1. quota * Token \in Nat /\ now \in Nat
  BY TokenFacts, ProductNat DEF TypeOK
<1>2. /\ NewBucket(quota).last = now /\ NewBucket(quota).rate = quota
      /\ NewBucket(quota).burst = quota * Token /\ NewBucket(quota).tokens = quota * Token
  BY DEF NewBucket
<1>3. NewBucket(quota) \in Bucket
  BY <1>1 DEF NewBucket, Bucket
<1>4. (now - NewBucket(quota).last) * NewBucket(quota).rate = 0
  BY <1>1, <1>2
<1> QED
  BY <1>1, <1>2, <1>3, <1>4 DEF LevelAt, Capped

(* Writers keep the types.                                                    *)
LEMMA DisturbType ==
  ASSUME TypeOK, NEW t \in Tenants, Disturb(t)
  PROVE  steady' \in [Threads -> BOOLEAN]
BY DEF TypeOK, Disturb

(* The two actions that write the buckets, and the clock: the types of the    *)
(* buckets and of their history.                                              *)
BucketType ==
  /\ buckets \in Seq(Bucket)
  /\ grants \in Seq(Nat) /\ Len(grants) = Len(buckets)
  /\ before \in Seq([0..now -> Nat]) /\ Len(before) = Len(buckets)
  /\ now \in Nat

(* What a step that appends a bucket does to the sequences of buckets.        *)
LEMMA BucketAppended ==
  ASSUME TypeOK, NEW h \in Threads, RegisterLimiter(h), LockInv
  PROVE  /\ BucketType'
         /\ Len(buckets)' = Len(buckets) + 1
         /\ BucketIds' = BucketIds \cup {Len(buckets) + 1}
         /\ \A b \in BucketIds :
              buckets'[b] = buckets[b] /\ grants'[b] = grants[b] /\ before'[b] = before[b]
         /\ buckets'[Len(buckets) + 1] = NewBucket(job[h].quota)
         /\ grants'[Len(buckets) + 1] = 0
         /\ before'[Len(buckets) + 1] = [s \in 0..now |-> 0]
         /\ now' = now
<1> DEFINE new == Len(buckets) + 1
<1>1. job[h].quota \in Nat
  BY TenantAssumption DEF RegisterLimiter, LockInv
<1>2. NewBucket(job[h].quota) \in Bucket
  BY <1>1, NewBucketFacts
<1>3. /\ buckets' = Append(buckets, NewBucket(job[h].quota)) /\ grants' = Append(grants, 0)
      /\ before' = Append(before, [s \in 0..now |-> 0]) /\ now' = now
  BY DEF RegisterLimiter
<1>4. /\ buckets \in Seq(Bucket) /\ grants \in Seq(Nat) /\ Len(grants) = Len(buckets)
      /\ now \in Nat
      /\ before \in Seq([0..now -> Nat]) /\ Len(before) = Len(buckets)
  BY DEF TypeOK, BucketIds
<1> HIDE DEF NewBucket
<1>5. /\ buckets' \in Seq(Bucket) /\ grants' \in Seq(Nat)
      /\ before' \in Seq([0..now -> Nat])
  BY <1>2, <1>3, <1>4
<1>6. /\ Len(buckets') = new /\ Len(grants') = new /\ Len(before') = new
      /\ new \in Nat
  BY <1>2, <1>3, <1>4
<1>7. BucketIds = 1..Len(buckets) /\ BucketIds' = 1..new
  BY <1>4, <1>5, <1>6 DEF BucketIds
<1>8. BucketIds' = BucketIds \cup {new}
  BY <1>4, <1>6, <1>7
<1>9. \A b \in BucketIds :
        buckets'[b] = buckets[b] /\ grants'[b] = grants[b] /\ before'[b] = before[b]
  BY <1>2, <1>3, <1>4, <1>7
<1>10. /\ buckets'[new] = NewBucket(job[h].quota) /\ grants'[new] = 0
       /\ before'[new] = [s \in 0..now |-> 0]
  BY <1>2, <1>3, <1>4
<1>11. BucketType'
  BY <1>3, <1>4, <1>5, <1>6, <1>7 DEF BucketType
<1> QED
  BY <1>3, <1>6, <1>8, <1>9, <1>10, <1>11

(* A request that consumes changes one bucket: refilled, less a token or not. *)
LEMMA BucketConsumed ==
  ASSUME TypeOK, RefillsPast, LimitedInv, NEW h \in Threads, Consume(h)
  PROVE  LET b == job[h].bucket
             level == LevelAt(buckets[b], now)
         IN /\ BucketType'
            /\ b \in BucketIds /\ BucketIds' = BucketIds /\ before' = before /\ now' = now
            /\ \A c \in BucketIds : c # b =>
                 buckets'[c] = buckets[c] /\ grants'[c] = grants[c]
            /\ buckets'[b].rate = buckets[b].rate /\ buckets'[b].burst = buckets[b].burst
            /\ buckets'[b].last = now
            /\ level \in Nat
            /\ \/ level >= Token /\ grants'[b] = grants[b] + 1
                  /\ LevelAt(buckets'[b], now) = level - Token
               \/ level < Token /\ grants'[b] = grants[b]
                  /\ LevelAt(buckets'[b], now) = level
<1> DEFINE b == job[h].bucket
           level == LevelAt(buckets[b], now)
           Changed(v) == [buckets[b] EXCEPT !.tokens = v, !.last = now]
<1>1. b \in BucketIds /\ BucketIds = 1..Len(buckets)
  BY DEF LimitedInv, Consume, TypeOK, BucketIds
<1>2. /\ buckets[b] \in Bucket /\ now \in Nat /\ buckets[b].last <= now
      /\ buckets \in Seq(Bucket) /\ grants \in Seq(Nat) /\ Len(grants) = Len(buckets)
      /\ grants[b] \in Nat
  <2>1. /\ buckets \in Seq(Bucket) /\ grants \in Seq(Nat) /\ Len(grants) = Len(buckets)
        /\ now \in Nat /\ buckets[b].last <= now
    BY <1>1 DEF TypeOK, RefillsPast
  <2> HIDE DEF b
  <2>2. buckets[b] \in Bucket /\ grants[b] \in Nat
    BY <1>1, <2>1
  <2> QED
    BY <2>1, <2>2
<1>3. level \in Nat /\ level <= buckets[b].burst
  BY <1>2, LevelRange
<1>4. Level(buckets[b]) = level
  BY DEF Level, LevelAt
<1>5. /\ before' = before /\ now' = now
      /\ \/ /\ level >= Token /\ buckets' = [buckets EXCEPT ![b] = Changed(level - Token)]
            /\ grants' = [grants EXCEPT ![b] = @ + 1]
         \/ /\ level < Token /\ buckets' = [buckets EXCEPT ![b] = Changed(level)]
            /\ grants' = grants
  BY <1>4, Zenon DEF Consume, Refilled
<1>6. ASSUME NEW v \in Nat, v <= buckets[b].burst, buckets' = [buckets EXCEPT ![b] = Changed(v)]
      PROVE  /\ buckets' \in Seq(Bucket) /\ Len(buckets') = Len(buckets)
             /\ DOMAIN buckets' = DOMAIN buckets
             /\ \A c \in BucketIds : c # b => buckets'[c] = buckets[c]
             /\ buckets'[b].rate = buckets[b].rate /\ buckets'[b].burst = buckets[b].burst
             /\ buckets'[b].last = now /\ LevelAt(buckets'[b], now) = v
  <2>1. /\ Changed(v) \in Bucket /\ Changed(v).rate = buckets[b].rate
        /\ Changed(v).burst = buckets[b].burst /\ Changed(v).last = now
        /\ LevelAt(Changed(v), now) = v
    <3>1. /\ Changed(v) \in Bucket /\ Changed(v).rate = buckets[b].rate
          /\ Changed(v).burst = buckets[b].burst /\ Changed(v).last = now
          /\ Changed(v).tokens = v
      BY <1>2, <1>6 DEF Bucket
    <3> HIDE DEF Changed
    <3> QED
      BY <1>6, <3>1, LevelRefilled
  <2> HIDE DEF Changed
  <2>2. buckets'[b] = Changed(v)
    BY <1>1, <1>6 DEF BucketIds
  <2>3. /\ buckets' \in Seq(Bucket) /\ Len(buckets') = Len(buckets)
        /\ DOMAIN buckets' = DOMAIN buckets
        /\ \A c \in BucketIds : c # b => buckets'[c] = buckets[c]
    BY <1>1, <1>2, <1>6, <2>1 DEF BucketIds
  <2> QED
    BY <2>1, <2>2, <2>3
<1>7. level >= Token => level - Token \in Nat /\ level - Token <= buckets[b].burst
  <2>1. buckets[b].burst \in Nat
    BY <1>2, BucketFacts
  <2> HIDE DEF level
  <2> QED
    BY <1>3, <2>1, TokenFacts
<1> HIDE DEF Changed, level
<1>8. /\ buckets' \in Seq(Bucket) /\ Len(buckets') = Len(buckets) /\ BucketIds' = BucketIds
      /\ \A c \in BucketIds : c # b => buckets'[c] = buckets[c]
      /\ buckets'[b].rate = buckets[b].rate /\ buckets'[b].burst = buckets[b].burst
      /\ buckets'[b].last = now
      /\ \/ level >= Token /\ LevelAt(buckets'[b], now) = level - Token
         \/ level < Token /\ LevelAt(buckets'[b], now) = level
  BY <1>3, <1>5, <1>6, <1>7 DEF BucketIds
<1>9. /\ grants' \in Seq(Nat) /\ Len(grants') = Len(grants)
      /\ \A c \in BucketIds : c # b => grants'[c] = grants[c]
      /\ \/ level >= Token /\ grants'[b] = grants[b] + 1
         \/ level < Token /\ grants'[b] = grants[b]
  <2>1. b \in DOMAIN grants /\ BucketIds = DOMAIN grants
    BY <1>1, <1>2
  <2>2. \/ level >= Token /\ grants' = [grants EXCEPT ![b] = grants[b] + 1]
        \/ level < Token /\ grants' = grants
    BY <1>5
  <2>3. CASE level < Token /\ grants' = grants
    BY <1>2, <2>3
  <2>4. CASE level >= Token /\ grants' = [grants EXCEPT ![b] = grants[b] + 1]
    BY <1>2, <2>1, <2>4
  <2> QED
    BY <2>2, <2>3, <2>4
<1>11. BucketType'
  BY <1>2, <1>5, <1>8, <1>9 DEF BucketType, TypeOK, BucketIds
<1>12. \/ level >= Token /\ grants'[b] = grants[b] + 1
          /\ LevelAt(buckets'[b], now) = level - Token
       \/ level < Token /\ grants'[b] = grants[b] /\ LevelAt(buckets'[b], now) = level
  BY <1>2, <1>3, <1>8, <1>9, TokenFacts
<1> QED
  BY <1>1, <1>3, <1>5, <1>8, <1>9, <1>11, <1>12 DEF level

(* The actions that leave the buckets, their history and the clock alone.     *)
bucketVars == <<buckets, grants, before, now>>

(* The actions of a thread, and Next as their disjunction.                    *)
LEMMA NextSplit ==
  ASSUME Next
  PROVE  \/ \E h \in Threads, t \in Tenants : GetTenant(h, t)
         \/ \E h \in Threads, t \in Tenants : UnregisterTenant(h, t)
         \/ \E h \in Threads, t \in Tenants, quota \in Quotas : RegisterTenant(h, t, quota)
         \/ \E h \in Threads : RegisterLimiter(h)
         \/ \E h \in Threads : UnregisterLimiter(h)
         \/ \E h \in Threads : GetLimiter(h)
         \/ \E h \in Threads : Consume(h)
         \/ Tick
BY DEF Next

(* The variables that describe threads and maps have their types after a step *)
(* that leaves the buckets alone.                                             *)
LEMMA FrameType ==
  ASSUME TypeOK, UNCHANGED bucketVars
  PROVE  BucketType' /\ BucketIds' = BucketIds
BY DEF TypeOK, BucketType, BucketIds, bucketVars

(* Every step keeps the types.                                                *)
LEMMA TypeStep ==
  ASSUME TypeOK, LockInv, LimitedInv, RefillsPast, [Next]_vars
  PROVE  TypeOK'
<1>1. ASSUME NEW h \in Threads, NEW t \in Tenants, GetTenant(h, t) PROVE TypeOK'
  <2>1. BucketType' /\ BucketIds' = BucketIds
    BY <1>1, FrameType DEF GetTenant, bucketVars
  <2>2. job' \in [Threads -> Job]
    BY <1>1 DEF GetTenant, TypeOK, Job
  <2>3. /\ pc' \in [Threads -> PCs] /\ verdict' \in [Threads -> Verdicts]
        /\ steady' \in [Threads -> BOOLEAN]
    BY <1>1 DEF GetTenant, TypeOK, PCs, Verdicts
  <2> QED
    BY <1>1, <2>1, <2>2, <2>3 DEF GetTenant, TypeOK, BucketType
<1>2. ASSUME NEW h \in Threads, NEW t \in Tenants, UnregisterTenant(h, t) PROVE TypeOK'
  <2>1. BucketType' /\ BucketIds' = BucketIds
    BY <1>2, FrameType DEF UnregisterTenant, bucketVars
  <2>2. job' \in [Threads -> Job]
    BY <1>2 DEF UnregisterTenant, TypeOK, Job
  <2>3. pc' \in [Threads -> PCs] /\ steady' \in [Threads -> BOOLEAN]
    BY <1>2, DisturbType DEF UnregisterTenant, TypeOK, PCs
  <2>4. DOMAIN tenants' \subseteq Tenants /\ \A x \in DOMAIN tenants' : tenants'[x] \in Quotas
    BY <1>2 DEF UnregisterTenant, TypeOK
  <2> QED
    BY <1>2, <2>1, <2>2, <2>3, <2>4 DEF UnregisterTenant, TypeOK, BucketType
<1>3. ASSUME NEW h \in Threads, NEW t \in Tenants, NEW quota \in Quotas,
             RegisterTenant(h, t, quota)
      PROVE  TypeOK'
  <2>1. BucketType' /\ BucketIds' = BucketIds
    BY <1>3, FrameType DEF RegisterTenant, bucketVars
  <2>2. job' \in [Threads -> Job]
    BY <1>3 DEF RegisterTenant, TypeOK, Job
  <2>3. pc' \in [Threads -> PCs] /\ steady' \in [Threads -> BOOLEAN]
    BY <1>3, DisturbType DEF RegisterTenant, TypeOK, PCs
  <2>4. DOMAIN tenants' \subseteq Tenants /\ \A x \in DOMAIN tenants' : tenants'[x] \in Quotas
    BY <1>3 DEF RegisterTenant, TypeOK
  <2> QED
    BY <1>3, <2>1, <2>2, <2>3, <2>4 DEF RegisterTenant, TypeOK, BucketType
<1>4. ASSUME NEW h \in Threads, RegisterLimiter(h) PROVE TypeOK'
  <2>1. BucketType' /\ BucketIds' = BucketIds \cup {Len(buckets) + 1}
    BY <1>4, BucketAppended
  <2>2. pc' \in [Threads -> PCs] /\ steady' \in [Threads -> BOOLEAN]
    BY <1>4, JobFacts, DisturbType DEF RegisterLimiter, TypeOK, PCs
  <2>3. DOMAIN limiters' \subseteq Tenants /\ \A t \in DOMAIN limiters' : limiters'[t] \in BucketIds'
    BY <1>4, <2>1, JobFacts DEF RegisterLimiter, TypeOK
  <2> QED
    BY <1>4, <2>1, <2>2, <2>3 DEF RegisterLimiter, TypeOK, BucketType
<1>5. ASSUME NEW h \in Threads, UnregisterLimiter(h) PROVE TypeOK'
  <2>1. BucketType' /\ BucketIds' = BucketIds
    BY <1>5, FrameType DEF UnregisterLimiter, bucketVars
  <2>2. pc' \in [Threads -> PCs] /\ steady' \in [Threads -> BOOLEAN]
    BY <1>5, JobFacts, DisturbType DEF UnregisterLimiter, TypeOK, PCs
  <2>3. DOMAIN limiters' \subseteq Tenants /\ \A t \in DOMAIN limiters' : limiters'[t] \in BucketIds'
    BY <1>5, <2>1 DEF UnregisterLimiter, TypeOK
  <2> QED
    BY <1>5, <2>1, <2>2, <2>3 DEF UnregisterLimiter, TypeOK, BucketType
<1>6. ASSUME NEW h \in Threads, GetLimiter(h) PROVE TypeOK'
  <2>1. BucketType' /\ BucketIds' = BucketIds
    BY <1>6, FrameType DEF GetLimiter, bucketVars
  <2>2. BucketIds \subseteq Nat
    BY DEF TypeOK, BucketIds
  <2>3. job' \in [Threads -> Job]
    <3>1. CASE job[h].tenant \in DOMAIN limiters /\ limiters[job[h].tenant] \in Nat
      <4> DEFINE j == [job[h] EXCEPT !.bucket = limiters[job[h].tenant]]
      <4>1. j \in Job
        BY <3>1, JobFacts DEF Job
      <4>2. job' = [job EXCEPT ![h] = j]
        BY <1>6, <3>1 DEF GetLimiter
      <4> HIDE DEF j
      <4> QED
        BY <4>1, <4>2 DEF TypeOK
    <3>2. CASE job[h].tenant \notin DOMAIN limiters
      BY <1>6, <3>2 DEF GetLimiter, TypeOK
    <3> QED
      BY <2>2, <3>1, <3>2 DEF TypeOK
  <2>4. pc' \in [Threads -> PCs] /\ verdict' \in [Threads -> Verdicts]
    BY <1>6 DEF GetLimiter, TypeOK, PCs, Verdicts
  <2> QED
    BY <1>6, <2>1, <2>3, <2>4 DEF GetLimiter, TypeOK, BucketType
<1>7. ASSUME NEW h \in Threads, Consume(h) PROVE TypeOK'
  <2>1. BucketType' /\ BucketIds' = BucketIds
    BY <1>7, BucketConsumed
  <2>2. pc' \in [Threads -> PCs] /\ verdict' \in [Threads -> Verdicts]
    BY <1>7 DEF Consume, TypeOK, PCs, Verdicts
  <2> QED
    BY <1>7, <2>1, <2>2 DEF Consume, TypeOK, BucketType
<1>8. CASE Tick
  <2>1. now' = now + 1 /\ now' \in Nat /\ UNCHANGED <<buckets, grants>>
    BY <1>8 DEF Tick, TypeOK
  <2>2. BucketIds = 1..Len(buckets) /\ BucketIds' = BucketIds /\ Len(buckets) \in Nat
    BY <2>1 DEF TypeOK, BucketIds
  <2>3. \A b \in BucketIds : grants[b] \in Nat /\ before[b] \in [0..now -> Nat]
    <3>1. /\ grants \in Seq(Nat) /\ Len(grants) = Len(buckets)
          /\ before \in Seq([0..now -> Nat]) /\ Len(before) = Len(buckets)
      BY DEF TypeOK
    <3> QED
      BY <2>2, <3>1
  <2>4. /\ before' = [b \in 1..Len(buckets) |-> before'[b]]
        /\ \A b \in BucketIds : before'[b] =
             [s \in 0..(now + 1) |-> IF s = now + 1 THEN grants[b] ELSE before[b][s]]
    BY <1>8, <2>2 DEF Tick
  <2>5. \A b \in BucketIds : before'[b] \in [0..now' -> Nat]
    <3> SUFFICES ASSUME NEW b \in BucketIds PROVE before'[b] \in [0..(now + 1) -> Nat]
      BY <2>1
    <3>1. \A s \in 0..(now + 1) : (IF s = now + 1 THEN grants[b] ELSE before[b][s]) \in Nat
      <4> TAKE s \in 0..(now + 1)
      <4>1. s # now + 1 => s \in 0..now
        BY DEF TypeOK
      <4> QED
        BY <2>3, <4>1
    <3>2. before'[b] = [s \in 0..(now + 1) |-> IF s = now + 1 THEN grants[b] ELSE before[b][s]]
      BY <2>4
    <3>3. [s \in 0..(now + 1) |-> IF s = now + 1 THEN grants[b] ELSE before[b][s]]
            \in [0..(now + 1) -> Nat]
      BY <3>1
    <3> QED
      BY <3>2, <3>3, Zenon
  <2>6. before' \in Seq([0..now' -> Nat]) /\ Len(before') = Len(buckets)
    BY <2>2, <2>4, <2>5
  <2> QED
    BY <1>8, <2>1, <2>2, <2>6 DEF Tick, TypeOK
<1>9. CASE UNCHANGED vars
  BY <1>9 DEF vars, TypeOK, BucketIds
<1> QED
  BY <1>1, <1>2, <1>3, <1>4, <1>5, <1>6, <1>7, <1>8, <1>9, NextSplit

(* --------------------------- the maps and the lock -------------------------- *)

(* Who writes the maps is who holds the lock.                                 *)
LEMMA LockStep ==
  ASSUME TypeOK, LockInv, [Next]_vars
  PROVE  LockInv'
<1> USE DEF LockInv, Writing
<1>1. ASSUME NEW h \in Threads, NEW t \in Tenants, GetTenant(h, t) PROVE LockInv'
  BY <1>1, TenantAssumption DEF GetTenant, TypeOK
<1>2. ASSUME NEW h \in Threads, NEW t \in Tenants, UnregisterTenant(h, t) PROVE LockInv'
  BY <1>2, TenantAssumption DEF UnregisterTenant, TypeOK
<1>3. ASSUME NEW h \in Threads, NEW t \in Tenants, NEW quota \in Quotas,
             RegisterTenant(h, t, quota)
      PROVE  LockInv'
  BY <1>3, TenantAssumption DEF RegisterTenant, TypeOK
<1>4. ASSUME NEW h \in Threads, RegisterLimiter(h) PROVE LockInv'
  BY <1>4, TenantAssumption DEF RegisterLimiter, TypeOK
<1>5. ASSUME NEW h \in Threads, UnregisterLimiter(h) PROVE LockInv'
  BY <1>5, TenantAssumption DEF UnregisterLimiter, TypeOK
<1>6. ASSUME NEW h \in Threads, GetLimiter(h) PROVE LockInv'
  BY <1>6, TenantAssumption DEF GetLimiter, TypeOK
<1>7. ASSUME NEW h \in Threads, Consume(h) PROVE LockInv'
  BY <1>7, TenantAssumption DEF Consume, TypeOK
<1>8. CASE Tick
  BY <1>8 DEF Tick
<1>9. CASE UNCHANGED vars
  BY <1>9 DEF vars
<1> QED
  BY <1>1, <1>2, <1>3, <1>4, <1>5, <1>6, <1>7, <1>8, <1>9, NextSplit

(* A bucket that an admission holds is never removed.                         *)
LEMMA LimitedStep ==
  ASSUME TypeOK, LockInv, LimitedInv, RefillsPast, [Next]_vars
  PROVE  LimitedInv'
<1> USE DEF LimitedInv
<1>1. ASSUME NEW h \in Threads, NEW t \in Tenants, GetTenant(h, t) PROVE LimitedInv'
  BY <1>1 DEF GetTenant, TypeOK, BucketIds
<1>2. ASSUME NEW h \in Threads, NEW t \in Tenants, UnregisterTenant(h, t) PROVE LimitedInv'
  BY <1>2 DEF UnregisterTenant, TypeOK, BucketIds
<1>3. ASSUME NEW h \in Threads, NEW t \in Tenants, NEW quota \in Quotas,
             RegisterTenant(h, t, quota)
      PROVE  LimitedInv'
  BY <1>3 DEF RegisterTenant, TypeOK, BucketIds
<1>4. ASSUME NEW h \in Threads, RegisterLimiter(h) PROVE LimitedInv'
  <2>1. BucketIds \subseteq BucketIds'
    BY <1>4, BucketAppended
  <2> QED
    BY <1>4, <2>1 DEF RegisterLimiter, TypeOK
<1>5. ASSUME NEW h \in Threads, UnregisterLimiter(h) PROVE LimitedInv'
  BY <1>5 DEF UnregisterLimiter, TypeOK, BucketIds
<1>6. ASSUME NEW h \in Threads, GetLimiter(h) PROVE LimitedInv'
  <2>1. UNCHANGED BucketIds
    BY <1>6 DEF GetLimiter, BucketIds
  <2>2. CASE job[h].tenant \in DOMAIN limiters
    <3>1. /\ job' = [job EXCEPT ![h].bucket = limiters[job[h].tenant]]
          /\ pc' = [pc EXCEPT ![h] = "limited"]
          /\ limiters[job[h].tenant] \in BucketIds
      BY <1>6, <2>2 DEF GetLimiter, TypeOK
    <3>2. job'[h].bucket = limiters[job[h].tenant]
      BY <3>1, JobFacts DEF TypeOK, Job
    <3>3. \A g \in Threads : g # h => pc'[g] = pc[g] /\ job'[g] = job[g]
      BY <3>1 DEF TypeOK
    <3> QED
      BY <2>1, <3>1, <3>2, <3>3
  <2>3. CASE job[h].tenant \notin DOMAIN limiters
    BY <1>6, <2>1, <2>3 DEF GetLimiter, TypeOK
  <2> QED
    BY <2>2, <2>3
<1>7. ASSUME NEW h \in Threads, Consume(h) PROVE LimitedInv'
  <2>1. BucketIds' = BucketIds
    BY <1>7, BucketConsumed
  <2> QED
    BY <1>7, <2>1 DEF Consume, TypeOK
<1>8. CASE Tick
  BY <1>8 DEF Tick, BucketIds
<1>9. CASE UNCHANGED vars
  BY <1>9 DEF vars, BucketIds
<1> QED
  BY <1>1, <1>2, <1>3, <1>4, <1>5, <1>6, <1>7, <1>8, <1>9, NextSplit

(* The two maps agree but for the tenant of the writer.                       *)
LEMMA AgreeStep ==
  ASSUME TypeOK, LockInv, MapsAgree, [Next]_vars
  PROVE  MapsAgree'
<1> USE DEF MapsAgree, BeingWritten, LockInv, Writing
<1>1. ASSUME NEW h \in Threads, NEW t \in Tenants, GetTenant(h, t) PROVE MapsAgree'
  BY <1>1 DEF GetTenant, TypeOK
<1>2. ASSUME NEW h \in Threads, NEW t \in Tenants, UnregisterTenant(h, t) PROVE MapsAgree'
  BY <1>2 DEF UnregisterTenant, TypeOK
<1>3. ASSUME NEW h \in Threads, NEW t \in Tenants, NEW quota \in Quotas,
             RegisterTenant(h, t, quota)
      PROVE  MapsAgree'
  BY <1>3 DEF RegisterTenant, TypeOK
<1>4. ASSUME NEW h \in Threads, RegisterLimiter(h) PROVE MapsAgree'
  BY <1>4 DEF RegisterLimiter, TypeOK
<1>5. ASSUME NEW h \in Threads, UnregisterLimiter(h) PROVE MapsAgree'
  BY <1>5 DEF UnregisterLimiter, TypeOK
<1>6. ASSUME NEW h \in Threads, GetLimiter(h) PROVE MapsAgree'
  BY <1>6 DEF GetLimiter, TypeOK, Job
<1>7. ASSUME NEW h \in Threads, Consume(h) PROVE MapsAgree'
  BY <1>7 DEF Consume, TypeOK
<1>8. CASE Tick
  BY <1>8 DEF Tick
<1>9. CASE UNCHANGED vars
  BY <1>9 DEF vars
<1> QED
  BY <1>1, <1>2, <1>3, <1>4, <1>5, <1>6, <1>7, <1>8, <1>9, NextSplit

(* An admission stays undisturbed only while nobody writes its tenant.        *)
LEMMA SteadyStep ==
  ASSUME TypeOK, LockInv, MapsAgree, SteadyInv, [Next]_vars
  PROVE  SteadyInv'
<1> USE DEF SteadyInv, BeingWritten, LockInv, Writing
<1>1. ASSUME NEW h \in Threads, NEW t \in Tenants, GetTenant(h, t) PROVE SteadyInv'
  <2>1. /\ pc'[h] = "found" /\ job'[h].tenant = t /\ steady'[h] = ~BeingWritten(t)
        /\ \A g \in Threads : g # h => pc'[g] = pc[g] /\ job'[g] = job[g] /\ steady'[g] = steady[g]
        /\ limiters' = limiters /\ pc[h] = "idle"
    BY <1>1 DEF GetTenant, TypeOK
  <2>2. steady'[h] => t \in DOMAIN limiters
    BY <1>1, <2>1 DEF MapsAgree, GetTenant
  <2>3. \A x : BeingWritten(x)' => BeingWritten(x)
    BY <2>1
  <2> HIDE DEF BeingWritten
  <2> QED
    BY <2>1, <2>2, <2>3
<1>2. ASSUME NEW h \in Threads, NEW t \in Tenants, UnregisterTenant(h, t) PROVE SteadyInv'
  BY <1>2 DEF UnregisterTenant, TypeOK, Disturb
<1>3. ASSUME NEW h \in Threads, NEW t \in Tenants, NEW quota \in Quotas,
             RegisterTenant(h, t, quota)
      PROVE  SteadyInv'
  BY <1>3 DEF RegisterTenant, TypeOK, Disturb
<1>4. ASSUME NEW h \in Threads, RegisterLimiter(h) PROVE SteadyInv'
  BY <1>4 DEF RegisterLimiter, TypeOK, Disturb
<1>5. ASSUME NEW h \in Threads, UnregisterLimiter(h) PROVE SteadyInv'
  BY <1>5 DEF UnregisterLimiter, TypeOK, Disturb
<1>6. ASSUME NEW h \in Threads, GetLimiter(h) PROVE SteadyInv'
  <2>1. /\ pc'[h] \in {"limited", "idle"} /\ steady' = steady /\ limiters' = limiters
        /\ \A g \in Threads : g # h => pc'[g] = pc[g] /\ job'[g] = job[g]
    BY <1>6 DEF GetLimiter, TypeOK
  <2>2. \A x : BeingWritten(x)' => BeingWritten(x)
    BY <2>1
  <2> HIDE DEF BeingWritten
  <2> QED
    BY <2>1, <2>2
<1>7. ASSUME NEW h \in Threads, Consume(h) PROVE SteadyInv'
  BY <1>7 DEF Consume, TypeOK
<1>8. CASE Tick
  BY <1>8 DEF Tick
<1>9. CASE UNCHANGED vars
  BY <1>9 DEF vars
<1> QED
  BY <1>1, <1>2, <1>3, <1>4, <1>5, <1>6, <1>7, <1>8, <1>9, NextSplit

(* Hence it finds a limiter.                                                  *)
LEMMA UnlimitedStep ==
  ASSUME TypeOK, SteadyInv, UnlimitedOnlyIfDisturbed, [Next]_vars
  PROVE  UnlimitedOnlyIfDisturbed'
<1> USE DEF UnlimitedOnlyIfDisturbed
<1>1. ASSUME NEW h \in Threads, NEW t \in Tenants, GetTenant(h, t)
      PROVE  UnlimitedOnlyIfDisturbed'
  BY <1>1 DEF GetTenant, TypeOK
<1>2. ASSUME NEW h \in Threads, NEW t \in Tenants, UnregisterTenant(h, t)
      PROVE  UnlimitedOnlyIfDisturbed'
  BY <1>2 DEF UnregisterTenant, TypeOK, Disturb
<1>3. ASSUME NEW h \in Threads, NEW t \in Tenants, NEW quota \in Quotas,
             RegisterTenant(h, t, quota)
      PROVE  UnlimitedOnlyIfDisturbed'
  BY <1>3 DEF RegisterTenant, TypeOK, Disturb
<1>4. ASSUME NEW h \in Threads, RegisterLimiter(h) PROVE UnlimitedOnlyIfDisturbed'
  BY <1>4 DEF RegisterLimiter, TypeOK, Disturb
<1>5. ASSUME NEW h \in Threads, UnregisterLimiter(h) PROVE UnlimitedOnlyIfDisturbed'
  BY <1>5 DEF UnregisterLimiter, TypeOK, Disturb
<1>6. ASSUME NEW h \in Threads, GetLimiter(h) PROVE UnlimitedOnlyIfDisturbed'
  BY <1>6 DEF GetLimiter, TypeOK, SteadyInv
<1>7. ASSUME NEW h \in Threads, Consume(h) PROVE UnlimitedOnlyIfDisturbed'
  BY <1>7 DEF Consume, TypeOK
<1>8. CASE Tick
  BY <1>8 DEF Tick
<1>9. CASE UNCHANGED vars
  BY <1>9 DEF vars
<1> QED
  BY <1>1, <1>2, <1>3, <1>4, <1>5, <1>6, <1>7, <1>8, <1>9, NextSplit

(* ------------------------------- the buckets -------------------------------- *)

(* Both sides of the account of a window are integers.                        *)
LEMMA AccountType ==
  ASSUME TypeOK, NEW b \in BucketIds, NEW s \in 0..now
  PROVE  /\ Used(b, s) \in Int /\ Allowed(b, s) \in Int
         /\ grants[b] \in Nat /\ before[b][s] \in Nat /\ buckets[b] \in Bucket
         /\ now \in Nat /\ s \in Nat /\ s <= now
<1>1. /\ grants[b] \in Nat /\ before[b][s] \in Nat /\ buckets[b] \in Bucket
      /\ now \in Nat /\ s \in Nat /\ s <= now
  BY DEF TypeOK, BucketIds
<1>2. /\ grants[b] - before[b][s] \in Int /\ now - s \in Int
      /\ buckets[b].rate \in Int /\ buckets[b].burst \in Int
  BY <1>1, BucketFacts
<1>3. \A x, y \in Int : x * y \in Int
  OBVIOUS
<1>4. (grants[b] - before[b][s]) * Token \in Int /\ buckets[b].rate * (now - s) \in Int
  BY <1>2, <1>3, TokenFacts
<1> QED
  BY <1>1, <1>2, <1>4 DEF Used, Allowed

(* A new bucket is full and has let nothing through.                          *)
LEMMA BucketStepAppend ==
  ASSUME TypeOK, TypeOK', LockInv, BucketInv, NEW h \in Threads, RegisterLimiter(h)
  PROVE  BucketInv'
<1>0. PICK new : new = Len(buckets) + 1
  OBVIOUS
<1>1. /\ BucketIds' = BucketIds \cup {new}
      /\ \A b \in BucketIds :
           buckets'[b] = buckets[b] /\ grants'[b] = grants[b] /\ before'[b] = before[b]
      /\ buckets'[new] = NewBucket(job[h].quota) /\ grants'[new] = 0
      /\ before'[new] = [s \in 0..now |-> 0] /\ now' = now
  BY <1>0, BucketAppended
<1>2. now \in Nat /\ job[h].quota \in Nat
  BY TenantAssumption DEF TypeOK, LockInv, RegisterLimiter
<1>3. /\ buckets'[new] \in Bucket /\ buckets'[new].last = now
      /\ LevelAt(buckets'[new], now) = buckets'[new].burst
  BY <1>1, <1>2, NewBucketFacts
<1>4. \A s \in 0..now : before'[new][s] = 0 /\ Used(new, s)' = 0
  BY <1>1, TokenFacts DEF Used
<1>5. \A s \in 0..now : Allowed(new, s)' = buckets'[new].burst + buckets'[new].rate * (now - s)
  BY <1>1 DEF Allowed
<1>6. \A s \in 0..now : buckets'[new].rate * (now - s) \in Nat
  BY <1>2, <1>3, BucketFacts, ProductNat
<1>7. \A s \in 0..now : Used(new, s)' + LevelAt(buckets'[new], now) <= Allowed(new, s)'
  BY <1>3, <1>4, <1>5, <1>6, BucketFacts
<1>8. \E s \in 0..now : Used(new, s)' + LevelAt(buckets'[new], now) = Allowed(new, s)'
  <2>1. PICK s : s = now
    OBVIOUS
  <2>2. s \in 0..now /\ buckets'[new].rate * (now - s) = 0
    BY <1>2, <1>3, <2>1, BucketFacts
  <2> QED
    BY <1>2, <1>3, <1>4, <1>5, <2>2, BucketFacts
<1>9. \A b \in BucketIds : \A s \in 0..now :
        Used(b, s)' = Used(b, s) /\ Allowed(b, s)' = Allowed(b, s)
  BY <1>1 DEF Used, Allowed
<1>10. RefillsPast'
  BY <1>1, <1>2, <1>3 DEF RefillsPast, BucketInv
<1>11. LevelBound'
  <2> SUFFICES ASSUME NEW b \in BucketIds', NEW s \in 0..now
               PROVE  Used(b, s)' + LevelAt(buckets'[b], now) <= Allowed(b, s)'
    BY <1>1 DEF LevelBound
  <2>1. CASE b = new
    BY <1>7, <2>1
  <2>2. CASE b \in BucketIds
    BY <1>1, <1>9, <2>2 DEF LevelBound, BucketInv
  <2> QED
    BY <1>1, <2>1, <2>2
<1>12. LevelExact'
  <2> SUFFICES ASSUME NEW b \in BucketIds'
               PROVE  \E s \in 0..now : Used(b, s)' + LevelAt(buckets'[b], now) = Allowed(b, s)'
    BY <1>1 DEF LevelExact
  <2>1. CASE b = new
    BY <1>8, <2>1
  <2>2. CASE b \in BucketIds
    BY <1>1, <1>9, <2>2 DEF LevelExact, BucketInv
  <2> QED
    BY <1>1, <2>1, <2>2
<1> QED
  BY <1>10, <1>11, <1>12 DEF BucketInv

(* A granted request moves a token from the level to the account, a rejected  *)
(* one changes neither.                                                       *)
LEMMA BucketStepConsume ==
  ASSUME TypeOK, TypeOK', LimitedInv, BucketInv, NEW h \in Threads, Consume(h)
  PROVE  BucketInv'
<1>0. PICK b : b = job[h].bucket
  OBVIOUS
<1>1. PICK level : level = LevelAt(buckets[b], now)
  OBVIOUS
<1>2. /\ b \in BucketIds /\ BucketIds' = BucketIds /\ before' = before /\ now' = now
      /\ \A c \in BucketIds : c # b => buckets'[c] = buckets[c] /\ grants'[c] = grants[c]
      /\ buckets'[b].rate = buckets[b].rate /\ buckets'[b].burst = buckets[b].burst
      /\ buckets'[b].last = now /\ level \in Nat
      /\ \/ grants'[b] = grants[b] + 1 /\ LevelAt(buckets'[b], now) = level - Token
         \/ grants'[b] = grants[b] /\ LevelAt(buckets'[b], now) = level
  BY <1>0, <1>1, BucketConsumed DEF BucketInv
<1>3. \A c \in BucketIds : \A s \in 0..now : Allowed(c, s)' = Allowed(c, s)
  BY <1>2 DEF Allowed
<1>4. \A c \in BucketIds : c # b => \A s \in 0..now : Used(c, s)' = Used(c, s)
  BY <1>2 DEF Used
<1>5. \A s \in 0..now :
        Used(b, s)' + LevelAt(buckets'[b], now) = Used(b, s) + LevelAt(buckets[b], now)
  <2> TAKE s \in 0..now
  <2>1. /\ Used(b, s) \in Int /\ grants[b] \in Nat /\ before[b][s] \in Nat
    BY <1>2, AccountType
  <2>2. CASE /\ grants'[b] = grants[b] + 1
             /\ LevelAt(buckets'[b], now) = level - Token
    <3>1. (grants[b] - before[b][s] + 1) * Token = (grants[b] - before[b][s]) * Token + Token
      BY <2>1, TokenFacts, ProductStep
    <3>2. grants'[b] - before[b][s] = grants[b] - before[b][s] + 1
      BY <2>1, <2>2
    <3>3. Used(b, s)' = Used(b, s) + Token
      BY <1>2, <3>1, <3>2 DEF Used, Token
    <3> QED
      BY <1>1, <1>2, <2>1, <2>2, <3>3, TokenFacts
  <2>3. CASE /\ grants'[b] = grants[b]
             /\ LevelAt(buckets'[b], now) = level
    <3>1. Used(b, s)' = Used(b, s)
      BY <1>2, <2>3 DEF Used, Token
    <3> QED
      BY <1>1, <2>3, <3>1
  <2> QED
    BY <1>2, <2>2, <2>3
<1>6. now \in Nat
  BY DEF TypeOK
<1>7. RefillsPast'
  BY <1>2, <1>6 DEF RefillsPast, BucketInv
<1>8. LevelBound'
  <2> SUFFICES ASSUME NEW c \in BucketIds, NEW s \in 0..now
               PROVE  Used(c, s)' + LevelAt(buckets'[c], now) <= Allowed(c, s)'
    BY <1>2 DEF LevelBound
  <2>1. CASE c = b
    BY <1>3, <1>5, <2>1 DEF LevelBound, BucketInv
  <2>2. CASE c # b
    BY <1>2, <1>3, <1>4, <2>2 DEF LevelBound, BucketInv
  <2> QED
    BY <2>1, <2>2
<1>9. LevelExact'
  <2> SUFFICES ASSUME NEW c \in BucketIds
               PROVE  \E s \in 0..now : Used(c, s)' + LevelAt(buckets'[c], now) = Allowed(c, s)'
    BY <1>2 DEF LevelExact
  <2>1. CASE c = b
    BY <1>3, <1>5, <2>1 DEF LevelExact, BucketInv
  <2>2. CASE c # b
    BY <1>2, <1>3, <1>4, <2>2 DEF LevelExact, BucketInv
  <2> QED
    BY <2>1, <2>2
<1> QED
  BY <1>7, <1>8, <1>9 DEF BucketInv

(* A tick refills at most the rate, which every window that began earlier     *)
(* allows; the window that begins now is empty, and a full bucket is its      *)
(* exact account.                                                             *)
LEMMA BucketStepTick ==
  ASSUME TypeOK, TypeOK', BucketInv, Tick
  PROVE  BucketInv'
<1>0. PICK n : n = now
  OBVIOUS
<1>1. /\ n \in Nat /\ now' = n + 1 /\ n = now
      /\ buckets' = buckets /\ grants' = grants /\ BucketIds' = BucketIds
      /\ before' = [b \in BucketIds |->
           [s \in 0..(n + 1) |-> IF s = n + 1 THEN grants[b] ELSE before[b][s]]]
  BY <1>0 DEF Tick, TypeOK, BucketIds
<1>2. RefillsPast'
  <2>1. \A b \in BucketIds : buckets[b].last \in Nat
    BY BucketFacts DEF TypeOK, BucketIds
  <2> QED
    BY <1>1, <2>1 DEF RefillsPast, BucketInv
<1>3. ASSUME NEW b \in BucketIds
      PROVE  /\ \A s \in 0..(n + 1) :
                  Used(b, s)' + LevelAt(buckets[b], n + 1) <= Allowed(b, s)'
             /\ \E s \in 0..(n + 1) :
                  Used(b, s)' + LevelAt(buckets[b], n + 1) = Allowed(b, s)'
  <2>1. /\ buckets[b] \in Bucket /\ buckets[b].last <= n /\ grants[b] \in Nat
        /\ buckets[b].rate \in Nat /\ buckets[b].burst \in Nat
    BY <1>1, BucketFacts DEF TypeOK, BucketIds, BucketInv, RefillsPast
  <2>2. PICK level : level = LevelAt(buckets[b], n)
    OBVIOUS
  <2>3. PICK after : after = LevelAt(buckets[b], n + 1)
    OBVIOUS
  <2>4. /\ level \in Nat /\ after \in Nat /\ after <= buckets[b].burst
        /\ after <= level + buckets[b].rate
        /\ after = level + buckets[b].rate \/ after = buckets[b].burst
    <3>1. level \in Nat
      BY <1>1, <2>1, <2>2, LevelRange
    <3>2. n + 1 \in Nat /\ buckets[b].last <= n + 1
      BY <1>1, <2>1, BucketFacts
    <3>3. after \in Nat /\ after <= buckets[b].burst
      BY <2>1, <2>3, <3>2, LevelRange
    <3> QED
      BY <1>1, <2>1, <2>2, <2>3, <3>1, <3>3, LevelTick
  <2>5. \A s \in 0..n : /\ Used(b, s)' = Used(b, s)
                        /\ Allowed(b, s)' = Allowed(b, s) + buckets[b].rate
    <3> TAKE s \in 0..n
    <3>1. before'[b][s] = before[b][s]
      BY <1>1
    <3>2. /\ Allowed(b, s) = buckets[b].burst + buckets[b].rate * (n - s)
          /\ Allowed(b, s)' = buckets[b].burst + buckets[b].rate * (n + 1 - s)
      BY <1>1 DEF Allowed
    <3>3. buckets[b].rate * (n + 1 - s) = buckets[b].rate * (n - s) + buckets[b].rate
      <4>1. \A x, y \in Int : x * (y + 1) = x * y + x
        OBVIOUS
      <4>2. n + 1 - s = (n - s) + 1 /\ n - s \in Int /\ buckets[b].rate \in Int
        BY <1>1, <2>1
      <4> QED
        BY <4>1, <4>2
    <3>4. buckets[b].rate * (n - s) \in Int
      BY <1>1, <2>1, ProductNat
    <3> QED
      BY <1>1, <2>1, <3>1, <3>2, <3>3, <3>4 DEF Used, Token
  <2>6. Used(b, n + 1)' = 0 /\ Allowed(b, n + 1)' = buckets[b].burst
    <3>1. before'[b][n + 1] = grants[b] /\ n + 1 \in 0..(n + 1)
      BY <1>1
    <3>2. Used(b, n + 1)' = (grants[b] - grants[b]) * Token
      BY <1>1, <3>1 DEF Used, Token
    <3>3. Allowed(b, n + 1)' = buckets[b].burst + buckets[b].rate * ((n + 1) - (n + 1))
      BY <1>1 DEF Allowed
    <3> QED
      BY <1>1, <2>1, <3>2, <3>3, TokenFacts
  <2>7. \A s \in 0..n : /\ Used(b, s) + level <= Allowed(b, s)
                        /\ Used(b, s) \in Int /\ Allowed(b, s) \in Int
    BY <1>1, <2>2, AccountType DEF BucketInv, LevelBound
  <2>8. PICK e \in 0..n : Used(b, e) + level = Allowed(b, e)
    BY <1>1, <2>2 DEF BucketInv, LevelExact
  <2>9. \A s \in 0..(n + 1) : Used(b, s)' + after <= Allowed(b, s)'
    <3> TAKE s \in 0..(n + 1)
    <3>1. CASE s = n + 1
      BY <2>1, <2>4, <2>6, <3>1
    <3>2. CASE s # n + 1
      <4>1. s \in 0..n
        BY <1>1, <3>2
      <4> QED
        BY <2>1, <2>4, <2>5, <2>7, <4>1
    <3> QED
      BY <3>1, <3>2
  <2>10. \E s \in 0..(n + 1) : Used(b, s)' + after = Allowed(b, s)'
    <3>1. CASE after = buckets[b].burst
      <4>1. Used(b, n + 1)' + after = Allowed(b, n + 1)' /\ n + 1 \in 0..(n + 1)
        BY <1>1, <2>1, <2>6, <3>1
      <4> QED
        BY <4>1
    <3>2. CASE after = level + buckets[b].rate
      <4>1. Used(b, e)' + after = Allowed(b, e)' /\ e \in 0..(n + 1)
        BY <1>1, <2>1, <2>4, <2>5, <2>7, <2>8, <3>2
      <4> QED
        BY <4>1
    <3> QED
      BY <2>4, <3>1, <3>2
  <2> QED
    BY <2>3, <2>9, <2>10
<1>4. LevelBound' /\ LevelExact'
  BY <1>1, <1>3 DEF LevelBound, LevelExact
<1> QED
  BY <1>2, <1>4 DEF BucketInv

(* A step that leaves the buckets and their history alone keeps their         *)
(* accounts.                                                                  *)
LEMMA BucketFrame ==
  ASSUME BucketInv, UNCHANGED bucketVars
  PROVE  BucketInv'
<1>1. BucketIds' = BucketIds
  BY DEF bucketVars, BucketIds
<1> QED
  BY <1>1 DEF bucketVars, BucketInv, RefillsPast, LevelBound, LevelExact, Used, Allowed

(* Every step keeps the accounts of the buckets.                              *)
LEMMA BucketStep ==
  ASSUME TypeOK, TypeOK', LockInv, LimitedInv, BucketInv, [Next]_vars
  PROVE  BucketInv'
<1>1. ASSUME NEW h \in Threads, NEW t \in Tenants, GetTenant(h, t) PROVE BucketInv'
  BY <1>1, BucketFrame DEF GetTenant, bucketVars
<1>2. ASSUME NEW h \in Threads, NEW t \in Tenants, UnregisterTenant(h, t) PROVE BucketInv'
  BY <1>2, BucketFrame DEF UnregisterTenant, bucketVars
<1>3. ASSUME NEW h \in Threads, NEW t \in Tenants, NEW quota \in Quotas,
             RegisterTenant(h, t, quota)
      PROVE  BucketInv'
  BY <1>3, BucketFrame DEF RegisterTenant, bucketVars
<1>4. ASSUME NEW h \in Threads, RegisterLimiter(h) PROVE BucketInv'
  BY <1>4, BucketStepAppend
<1>5. ASSUME NEW h \in Threads, UnregisterLimiter(h) PROVE BucketInv'
  BY <1>5, BucketFrame DEF UnregisterLimiter, bucketVars
<1>6. ASSUME NEW h \in Threads, GetLimiter(h) PROVE BucketInv'
  BY <1>6, BucketFrame DEF GetLimiter, bucketVars
<1>7. ASSUME NEW h \in Threads, Consume(h) PROVE BucketInv'
  BY <1>7, BucketStepConsume
<1>8. CASE Tick
  BY <1>8, BucketStepTick
<1>9. CASE UNCHANGED vars
  BY <1>9, BucketFrame DEF vars, bucketVars
<1> QED
  BY <1>1, <1>2, <1>3, <1>4, <1>5, <1>6, <1>7, <1>8, <1>9, NextSplit

(* --------------------------------- theorems --------------------------------- *)

(* The invariant holds initially.                                             *)
LEMMA InitInv == Init => IInv
<1> SUFFICES ASSUME Init PROVE IInv
  OBVIOUS
<1>1. TypeOK
  BY InitType
<1>2. MapInv
  BY TenantAssumption
  DEF Init, MapInv, LockInv, LimitedInv, MapsAgree, SteadyInv, UnlimitedOnlyIfDisturbed, Writing
<1>3. BucketInv
  <2>1. BucketIds = {}
    BY DEF Init, BucketIds
  <2> QED
    BY <2>1 DEF BucketInv, RefillsPast, LevelBound, LevelExact
<1> QED
  BY <1>1, <1>2, <1>3 DEF IInv

(* The invariant is inductive.                                                *)
LEMMA InvStep == IInv /\ [Next]_vars => IInv'
<1> SUFFICES ASSUME IInv, [Next]_vars PROVE IInv'
  OBVIOUS
<1>1. /\ TypeOK /\ LockInv /\ LimitedInv /\ MapsAgree /\ SteadyInv
      /\ UnlimitedOnlyIfDisturbed /\ BucketInv /\ RefillsPast
  BY DEF IInv, MapInv, BucketInv
<1>2. TypeOK'
  BY <1>1, TypeStep
<1>3. MapInv'
  BY <1>1, LockStep, LimitedStep, AgreeStep, SteadyStep, UnlimitedStep DEF MapInv
<1>4. BucketInv'
  BY <1>1, <1>2, BucketStep
<1> QED
  BY <1>2, <1>3, <1>4 DEF IInv

(* The inductive invariant holds in every reachable state.                    *)
THEOREM Invariance == Spec => []IInv
<1> QED
  BY InitInv, InvStep, PTL DEF Spec

(* The state of the tenant manager keeps its types.                           *)
THEOREM TypeCorrect == Spec => []TypeOK
<1>1. IInv => TypeOK
  BY DEF IInv
<1> QED
  BY <1>1, Invariance, PTL

(* Under the lock register and unregister keep the two maps in agreement, but *)
(* for the tenant being written.                                              *)
THEOREM MapsStayInAgreement == Spec => []MapsAgree
<1>1. IInv => MapsAgree
  BY DEF IInv, MapInv
<1> QED
  BY <1>1, Invariance, PTL

(* A registered tenant is never admitted without a limiter, unless one of its *)
(* writers overlapped the admission.                                          *)
THEOREM LimiterFound == Spec => []UnlimitedOnlyIfDisturbed
<1>1. IInv => UnlimitedOnlyIfDisturbed
  BY DEF IInv, MapInv
<1> QED
  BY <1>1, Invariance, PTL

(* No window of any length lets through more than burst and rate allow, since *)
(* the level of the bucket, which is never negative, makes up the difference. *)
THEOREM QuotaBound == Spec => []WindowBound
<1>1. IInv => WindowBound
  <2> SUFFICES ASSUME IInv, NEW b \in BucketIds, NEW s \in 0..now
               PROVE  Used(b, s) <= Allowed(b, s)
    BY DEF WindowBound, Used, Allowed
  <2>1. TypeOK /\ RefillsPast /\ LevelBound
    BY DEF IInv, BucketInv
  <2>2. LevelAt(buckets[b], now) \in Nat
    BY <2>1, AccountType, LevelRange DEF RefillsPast
  <2>3. Used(b, s) + LevelAt(buckets[b], now) <= Allowed(b, s)
    BY <2>1 DEF LevelBound
  <2> QED
    BY <2>1, <2>2, <2>3, AccountType
<1> QED
  BY <1>1, Invariance, PTL

(* A rejected request finds less than a token in the bucket, so with it the   *)
(* exact account of some window would have been overdrawn.                    *)
LEMMA RejectStep ==
  ASSUME IInv, [Next]_vars,
         NEW h \in Threads, pc[h] = "limited", pc'[h] # "limited", verdict'[h] = "rejected"
  PROVE  LET b == job[h].bucket
         IN \E s \in 0..now :
              (grants[b] + 1 - before[b][s]) * Token
                > buckets[b].burst + buckets[b].rate * (now - s)
<1>1. TypeOK /\ LimitedInv /\ RefillsPast /\ LevelExact /\ LockInv
  BY DEF IInv, MapInv, BucketInv
<1>2. Consume(h)
  <2>1. ASSUME NEW g \in Threads, NEW t \in Tenants, GetTenant(g, t) PROVE pc'[h] = "limited"
    BY <1>1, <2>1 DEF GetTenant, TypeOK
  <2>2. ASSUME NEW g \in Threads, NEW t \in Tenants, UnregisterTenant(g, t) PROVE pc'[h] = "limited"
    BY <1>1, <2>2 DEF UnregisterTenant, TypeOK
  <2>3. ASSUME NEW g \in Threads, NEW t \in Tenants, NEW quota \in Quotas,
               RegisterTenant(g, t, quota)
        PROVE  pc'[h] = "limited"
    BY <1>1, <2>3 DEF RegisterTenant, TypeOK
  <2>4. ASSUME NEW g \in Threads, RegisterLimiter(g) PROVE pc'[h] = "limited"
    BY <1>1, <2>4 DEF RegisterLimiter, TypeOK
  <2>5. ASSUME NEW g \in Threads, UnregisterLimiter(g) PROVE pc'[h] = "limited"
    BY <1>1, <2>5 DEF UnregisterLimiter, TypeOK
  <2>6. ASSUME NEW g \in Threads, GetLimiter(g) PROVE pc'[h] = "limited"
    BY <1>1, <2>6 DEF GetLimiter, TypeOK
  <2>7. ASSUME NEW g \in Threads, g # h, Consume(g) PROVE pc'[h] = "limited"
    BY <1>1, <2>7 DEF Consume, TypeOK
  <2>8. CASE Tick \/ UNCHANGED vars
    BY <2>8 DEF Tick, vars
  <2> QED
    BY <2>1, <2>2, <2>3, <2>4, <2>5, <2>6, <2>7, <2>8, NextSplit
<1>3. PICK b : b = job[h].bucket
  OBVIOUS
<1>4. PICK level : level = LevelAt(buckets[b], now)
  OBVIOUS
<1>5. b \in BucketIds /\ level \in Nat
  BY <1>1, <1>2, <1>3, <1>4, BucketConsumed
<1>6. level < Token
  <2>1. verdict'[h] = "granted" \/ Level(buckets[b]) < Token
    BY <1>1, <1>2, <1>3 DEF Consume, TypeOK
  <2>2. Level(buckets[b]) = level
    BY <1>4 DEF Level, LevelAt
  <2> QED
    BY <2>1, <2>2
<1>7. PICK s \in 0..now : Used(b, s) + level = Allowed(b, s)
  BY <1>1, <1>4, <1>5 DEF LevelExact
<1>8. (grants[b] + 1 - before[b][s]) * Token = Used(b, s) + Token
  <2>1. /\ grants[b] \in Nat /\ before[b][s] \in Nat
    BY <1>1, <1>5, AccountType
  <2>2. grants[b] + 1 - before[b][s] = (grants[b] - before[b][s]) + 1
        /\ grants[b] - before[b][s] \in Int /\ Token \in Int
    BY <2>1, TokenFacts
  <2> QED
    BY <2>2, ProductStep DEF Used
<1>9. Used(b, s) + Token > Allowed(b, s)
  BY <1>1, <1>5, <1>6, <1>7, AccountType, TokenFacts
<1> QED
  BY <1>3, <1>8, <1>9 DEF Allowed

(* A request is rejected only when its window is used up.                     *)
THEOREM NoNeedlessRejection == Spec => RejectsOnlyOverQuota
<1> DEFINE Needed ==
      \A h \in Threads : pc[h] = "limited" /\ pc'[h] # "limited" /\ verdict'[h] = "rejected" =>
        LET b == job[h].bucket
        IN \E s \in 0..now :
             (grants[b] + 1 - before[b][s]) * Token
               > buckets[b].burst + buckets[b].rate * (now - s)
<1>1. IInv /\ [Next]_vars => Needed
  BY RejectStep
<1>2. IInv /\ [Next]_vars => [Needed]_vars
  BY <1>1
<1> HIDE DEF Needed
<1>3. Spec => [][Needed]_vars
  BY <1>2, Invariance, PTL DEF Spec
<1> QED
  BY <1>3 DEF RejectsOnlyOverQuota, Needed
===============================================================================
