----------------------------- MODULE TenantManager ----------------------------
(* engine/tenant.py: the registry of tenants and their token buckets, shared  *)
(* by the threads that register tenants and the threads that admit requests.  *)
(*                                                                            *)
(* register and unregister hold _lock and write two maps one after the other; *)
(* admission (get, then check_rate_limit, rest_server.py:109-114) takes no    *)
(* lock: it reads each map once and then consumes from the bucket it found,   *)
(* which may have been replaced meanwhile.                                    *)
(*                                                                            *)
(* A tick of the clock is 1/TicksPerSecond of a second and levels count       *)
(* 1/TicksPerSecond of a token, so that a quota of n per second refills n     *)
(* units per tick; all the numbers are then integers.                         *)
EXTENDS Integers, Sequences

CONSTANTS Threads, Tenants,
          Quotas,          \* values of quota_max_qps
          TicksPerSecond,
          NoThread,        \* _lock is free
          MaxBuckets,      \* bound on the buckets that are created
          MaxTime          \* bound on the clock

ASSUME TenantAssumption ==
  /\ Quotas \subseteq Nat
  /\ TicksPerSecond \in Nat \ {0}
  /\ NoThread \notin Threads
  /\ MaxBuckets \in Nat
  /\ MaxTime \in Nat

VARIABLES
  tenants,   \* _tenants: tenant -> quota_max_qps
  limiters,  \* _rate_limiters: tenant -> number of its bucket
  buckets,   \* the TokenBucket objects, in order of creation
  lock,      \* _lock
  pc,        \* pc[h]: what thread h is doing
  job,       \* job[h]: the tenant, quota and bucket it is doing it with
  verdict,   \* verdict[h]: how its last admission ended
  steady,    \* history: no writer touched the tenant during the admission of h
  grants,    \* history: grants[b], the requests bucket b let through
  before,    \* history: before[b][s], those it let through before time s
  now        \* time.monotonic()

vars == <<tenants, limiters, buckets, lock, pc, job, verdict, steady, grants, before, now>>

PCs == {"idle", "registering", "unregistering", "found", "limited"}
Verdicts == {"none", "granted", "rejected", "unlimited"}
BucketIds == DOMAIN buckets

Bucket == [rate : Nat, burst : Nat, tokens : Nat, last : Nat]
Job == [tenant : Tenants, quota : Quotas \cup {0}, bucket : Nat]

(* -------------------------------- TokenBucket -------------------------------- *)

Token == TicksPerSecond

NewBucket(quota) ==
  [rate |-> quota, burst |-> quota * Token, tokens |-> quota * Token, last |-> now]

Capped(bucket, tokens) == IF tokens <= bucket.burst THEN tokens ELSE bucket.burst

(* Faulty variant: the bucket is never refilled.                              *)
LevelAtLastUse(bucket) == bucket.tokens

(* What the bucket holds once it is refilled: the property `available`.       *)
Level(bucket) == Capped(bucket, bucket.tokens + (now - bucket.last) * bucket.rate)

(* Faulty variant: the time of the refill is not recorded.                    *)
RefilledUnstamped(bucket, tokens) == [bucket EXCEPT !.tokens = tokens]

Refilled(bucket, tokens) == [bucket EXCEPT !.tokens = tokens, !.last = now]

(* ------------------------------- TenantManager ------------------------------- *)

Init ==
  /\ tenants = [t \in {} |-> 0]
  /\ limiters = [t \in {} |-> 0]
  /\ buckets = <<>>
  /\ lock = NoThread
  /\ pc = [h \in Threads |-> "idle"]
  /\ job \in {[h \in Threads |-> [tenant |-> t, quota |-> 0, bucket |-> 0]] : t \in Tenants}
  /\ verdict = [h \in Threads |-> "none"]
  /\ steady = [h \in Threads |-> FALSE]
  /\ grants = <<>>
  /\ before = <<>>
  /\ now = 0

(* Writers of tenant t disturb the admissions of t that are under way.        *)
Disturb(t) == steady' = [h \in Threads |-> steady[h] /\ job[h].tenant # t]

(* register: under the lock, the configuration, then a new and full bucket.   *)
RegisterTenant(h, t, quota) ==
  /\ pc[h] = "idle"
  /\ lock = NoThread
  /\ lock' = h
  /\ tenants' = [x \in DOMAIN tenants \cup {t} |-> IF x = t THEN quota ELSE tenants[x]]
  /\ pc' = [pc EXCEPT ![h] = "registering"]
  /\ job' = [job EXCEPT ![h] = [tenant |-> t, quota |-> quota, bucket |-> 0]]
  /\ Disturb(t)
  /\ UNCHANGED <<limiters, buckets, verdict, grants, before, now>>

RegisterLimiter(h) ==
  LET t == job[h].tenant
      b == Len(buckets) + 1
  IN /\ pc[h] = "registering"
     /\ buckets' = Append(buckets, NewBucket(job[h].quota))
     /\ limiters' = [x \in DOMAIN limiters \cup {t} |-> IF x = t THEN b ELSE limiters[x]]
     /\ lock' = NoThread
     /\ pc' = [pc EXCEPT ![h] = "idle"]
     /\ grants' = Append(grants, 0)
     /\ before' = Append(before, [s \in 0..now |-> 0])
     /\ Disturb(t)
     /\ UNCHANGED <<tenants, job, verdict, now>>

(* Faulty variant: the configuration of the tenant stays.                     *)
UnregisterKeepsTenant(h, t) ==
  /\ pc[h] = "idle"
  /\ lock = NoThread
  /\ lock' = h
  /\ pc' = [pc EXCEPT ![h] = "unregistering"]
  /\ job' = [job EXCEPT ![h] = [tenant |-> t, quota |-> 0, bucket |-> 0]]
  /\ Disturb(t)
  /\ UNCHANGED <<tenants, limiters, buckets, verdict, grants, before, now>>

(* unregister: under the lock, the configuration, then the bucket.            *)
UnregisterTenant(h, t) ==
  /\ pc[h] = "idle"
  /\ lock = NoThread
  /\ lock' = h
  /\ tenants' = [x \in DOMAIN tenants \ {t} |-> tenants[x]]
  /\ pc' = [pc EXCEPT ![h] = "unregistering"]
  /\ job' = [job EXCEPT ![h] = [tenant |-> t, quota |-> 0, bucket |-> 0]]
  /\ Disturb(t)
  /\ UNCHANGED <<limiters, buckets, verdict, grants, before, now>>

(* Faulty variant: the bucket of the tenant stays.                            *)
UnregisterKeepsLimiter(h) ==
  /\ pc[h] = "unregistering"
  /\ lock' = NoThread
  /\ pc' = [pc EXCEPT ![h] = "idle"]
  /\ Disturb(job[h].tenant)
  /\ UNCHANGED <<tenants, limiters, buckets, job, verdict, grants, before, now>>

UnregisterLimiter(h) ==
  LET t == job[h].tenant
  IN /\ pc[h] = "unregistering"
     /\ limiters' = [x \in DOMAIN limiters \ {t} |-> limiters[x]]
     /\ lock' = NoThread
     /\ pc' = [pc EXCEPT ![h] = "idle"]
     /\ Disturb(t)
     /\ UNCHANGED <<tenants, buckets, job, verdict, grants, before, now>>

(* A writer of tenant t is between its two writes.                            *)
BeingWritten(t) ==
  \E h \in Threads : pc[h] \in {"registering", "unregistering"} /\ job[h].tenant = t

(* get(t): a tenant that is not registered is refused (404) and leaves no     *)
(* trace.                                                                     *)
GetTenant(h, t) ==
  /\ pc[h] = "idle"
  /\ t \in DOMAIN tenants
  /\ pc' = [pc EXCEPT ![h] = "found"]
  /\ job' = [job EXCEPT ![h] = [tenant |-> t, quota |-> 0, bucket |-> 0]]
  /\ verdict' = [verdict EXCEPT ![h] = "none"]
  /\ steady' = [steady EXCEPT ![h] = ~BeingWritten(t)]
  /\ UNCHANGED <<tenants, limiters, buckets, lock, grants, before, now>>

(* check_rate_limit: without a limiter the request passes.                    *)
GetLimiter(h) ==
  LET t == job[h].tenant
  IN /\ pc[h] = "found"
     /\ \/ /\ t \in DOMAIN limiters
           /\ job' = [job EXCEPT ![h].bucket = limiters[t]]
           /\ pc' = [pc EXCEPT ![h] = "limited"]
           /\ UNCHANGED verdict
        \/ /\ t \notin DOMAIN limiters
           /\ verdict' = [verdict EXCEPT ![h] = "unlimited"]
           /\ pc' = [pc EXCEPT ![h] = "idle"]
           /\ UNCHANGED job
     /\ UNCHANGED <<tenants, limiters, buckets, lock, steady, grants, before, now>>

(* consume(1), under the lock of the bucket: refill, then take a token.       *)
Consume(h) ==
  LET b == job[h].bucket
      level == Level(buckets[b])
  IN /\ pc[h] = "limited"
     /\ pc' = [pc EXCEPT ![h] = "idle"]
     /\ \/ /\ level >= Token
           /\ buckets' = [buckets EXCEPT ![b] = Refilled(@, level - Token)]
           /\ verdict' = [verdict EXCEPT ![h] = "granted"]
           /\ grants' = [grants EXCEPT ![b] = @ + 1]
        \/ /\ level < Token
           /\ buckets' = [buckets EXCEPT ![b] = Refilled(@, level)]
           /\ verdict' = [verdict EXCEPT ![h] = "rejected"]
           /\ UNCHANGED grants
     /\ UNCHANGED <<tenants, limiters, lock, job, steady, before, now>>

Tick ==
  /\ now < MaxTime
  /\ now' = now + 1
  /\ before' = [b \in BucketIds |->
                  [s \in 0..(now + 1) |-> IF s = now + 1 THEN grants[b] ELSE before[b][s]]]
  /\ UNCHANGED <<tenants, limiters, buckets, lock, pc, job, verdict, steady, grants>>

Next ==
  \/ \E h \in Threads :
       \/ \E t \in Tenants : GetTenant(h, t)
       \/ \E t \in Tenants : UnregisterTenant(h, t)
       \/ \E t \in Tenants, quota \in Quotas :
            Len(buckets) < MaxBuckets /\ RegisterTenant(h, t, quota)
       \/ RegisterLimiter(h)
       \/ UnregisterLimiter(h)
       \/ GetLimiter(h)
       \/ Consume(h)
  \/ Tick

Spec == Init /\ [][Next]_vars

(* --------------------------------- properties --------------------------------- *)

TypeOK ==
  /\ DOMAIN tenants \subseteq Tenants
  /\ \A t \in DOMAIN tenants : tenants[t] \in Quotas
  /\ DOMAIN limiters \subseteq Tenants
  /\ \A t \in DOMAIN limiters : limiters[t] \in BucketIds
  /\ buckets \in Seq(Bucket)
  /\ lock \in Threads \cup {NoThread}
  /\ pc \in [Threads -> PCs]
  /\ job \in [Threads -> Job]
  /\ verdict \in [Threads -> Verdicts]
  /\ steady \in [Threads -> BOOLEAN]
  /\ grants \in Seq(Nat) /\ Len(grants) = Len(buckets)
  /\ before \in Seq([0..now -> Nat]) /\ Len(before) = Len(buckets)
  /\ now \in Nat

(* The two maps agree whenever no writer is between its two writes, and only  *)
(* the tenant being written may differ meanwhile (tenant.py:103-121).         *)
MapsAgree ==
  \A t \in Tenants : ~BeingWritten(t) => (t \in DOMAIN tenants <=> t \in DOMAIN limiters)

(* A registered tenant passes without a limiter ("No limiter = no limit",     *)
(* tenant.py:131-136) only if a register or unregister of that tenant         *)
(* overlapped the admission.                                                  *)
UnlimitedOnlyIfDisturbed ==
  \A h \in Threads : verdict[h] = "unlimited" => ~steady[h]

(* The rate limit (tenant.py:59-70): over any interval of time, of every      *)
(* length and wherever it starts, a bucket lets through at most its burst     *)
(* plus what its rate refills, however the admissions interleave.             *)
WindowBound ==
  \A b \in BucketIds : \A s \in 0..now :
    (grants[b] - before[b][s]) * Token <= buckets[b].burst + buckets[b].rate * (now - s)

(* The converse: nobody is rejected needlessly.  A request is rejected only   *)
(* if letting it through would have exceeded the burst and rate over some     *)
(* interval that ends now.                                                    *)
RejectsOnlyOverQuota ==
  [][\A h \in Threads : pc[h] = "limited" /\ pc'[h] # "limited" /\ verdict'[h] = "rejected" =>
       LET b == job[h].bucket
       IN \E s \in 0..now :
            (grants[b] + 1 - before[b][s]) * Token
              > buckets[b].burst + buckets[b].rate * (now - s)]_vars
===============================================================================
