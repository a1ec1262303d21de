---------------------------- MODULE BackendRegistry ---------------------------
(* engine/backend_registry.py: the registry of search backends and its cache  *)
(* of health verdicts, shared without any lock by the threads that register   *)
(* and remove backends and those that ask for their health.                   *)
(*                                                                            *)
(* is_healthy reads the clock (Ask), looks for a cached verdict (Check, Read),*)
(* else for the backend (GetBackend), probes it and stores the verdict        *)
(* (Probe); every step may interleave with unregister, which removes the      *)
(* backend and then its verdict.  health_summary walks over the dictionary of *)
(* the backends and calls is_healthy for each (BeginScan, Scan); so do        *)
(* healthy_backends and resolve_with_scores, which then only sort.            *)
(*                                                                            *)
(* load_from_config calls register, for entries whose name is not taken.      *)
(* Whether a verdict says healthy or not changes nothing and is left out.     *)
EXTENDS Integers, Sequences

CONSTANTS Threads, Names,
          NoName,       \* a thread that works on no name
          HealthTTL,    \* _health_ttl
          MaxBackends,  \* bound on the backend objects that are registered
          MaxTime       \* bound on the clock

ASSUME RegistryAssumption ==
  /\ NoName \notin Names
  /\ HealthTTL \in Nat \ {0}
  /\ MaxBackends \in Nat
  /\ MaxTime \in Nat

VARIABLES
  table,    \* _backends: names and numbers of their objects, in dict order
  verdicts, \* _health_cache: name -> time and, as history, origin of the verdict
  gone,     \* history: gone[b], when backend object b was replaced or removed
  pc,       \* pc[h]: the next step of thread h
  job,      \* job[h]: the name it works on, the time it read, the object it found
            \* and, as history, whether an unregister of the name overlapped
  scan,     \* scan[h]: its walk over _backends
  told,     \* told[h]: what its last is_healthy, or walk, returned or raised
  now       \* time.time()

vars == <<table, verdicts, gone, pc, job, scan, told, now>>

PCs == {"idle", "check", "read", "get", "probe", "scan", "unregistering"}
Objects == DOMAIN gone

Entry == [name : Names, backend : Nat]
Verdict == [at : Nat, backend : Nat, late : BOOLEAN]
Job == [name : Names \cup {NoName}, start : Nat, backend : Nat, removed : BOOLEAN]
Walk == [on : BOOLEAN, size : Nat, touched : BOOLEAN, reported : Seq(Names)]
Told == [kind : {"nothing", "verdict", "absent", "KeyError", "summary", "RuntimeError"},
         start : Nat, backend : Nat, removed : BOOLEAN]

Registered == {table[k].name : k \in DOMAIN table}
BackendOf(name) == (CHOOSE e \in {table[k] : k \in DOMAIN table} : e.name = name).backend

NoJob == [name |-> NoName, start |-> 0, backend |-> 0, removed |-> FALSE]
Nothing == [kind |-> "nothing", start |-> 0, backend |-> 0, removed |-> FALSE]
NoWalk == [on |-> FALSE, size |-> 0, touched |-> FALSE, reported |-> <<>>]

Init ==
  /\ table = <<>>
  /\ verdicts = [n \in {} |-> 0]
  /\ gone = <<>>
  /\ pc = [h \in Threads |-> "idle"]
  /\ job = [h \in Threads |-> NoJob]
  /\ scan = [h \in Threads |-> NoWalk]
  /\ told = [h \in Threads |-> Nothing]
  /\ now = 0

(* ------------------------- register and unregister -------------------------- *)

(* Walks that are under way while a name comes or goes.                       *)
Touch == scan' = [h \in Threads |-> [scan[h] EXCEPT !.touched = scan[h].on]]

(* Faulty variant: the backend is removed and put back, at the end.           *)
Reinserted(name, b) ==
  Append(SelectSeq(table, LAMBDA e : e.name # name), [name |-> name, backend |-> b])

(* A backend that is replaced keeps its place in the dictionary.              *)
Replaced(name, b) ==
  [k \in DOMAIN table |-> IF table[k].name = name THEN [table[k] EXCEPT !.backend = b]
                                                  ELSE table[k]]

(* register: the verdict on a backend that is replaced stays in the cache.    *)
Register(name) ==
  LET b == Len(gone) + 1
  IN /\ \/ /\ name \in Registered
           /\ table' = Replaced(name, b)
           /\ gone' = Append([gone EXCEPT ![BackendOf(name)] = now], 0)
           /\ UNCHANGED scan
        \/ /\ name \notin Registered
           /\ table' = Append(table, [name |-> name, backend |-> b])
           /\ gone' = Append(gone, 0)
           /\ Touch
     /\ UNCHANGED <<verdicts, pc, job, told, now>>

Asking(h) == pc[h] \in {"check", "read", "get", "probe"}

(* Calls of is_healthy(name) that are under way while the name is removed.    *)
Overlapped(name) ==
  [h \in Threads |-> IF Asking(h) /\ job[h].name = name
                     THEN [job[h] EXCEPT !.removed = TRUE] ELSE job[h]]

(* The dictionary without its entry k.                                        *)
Struck(k) == SubSeq(table, 1, k - 1) \o SubSeq(table, k + 1, Len(table))

UnregisterBackend(h, name) ==
  /\ pc[h] = "idle"
  /\ pc' = [pc EXCEPT ![h] = "unregistering"]
  /\ job' = [Overlapped(name) EXCEPT ![h].name = name]
  /\ told' = [told EXCEPT ![h] = Nothing]
  /\ \/ /\ \E k \in DOMAIN table : table[k].name = name /\ table' = Struck(k)
        /\ gone' = [gone EXCEPT ![BackendOf(name)] = now]
        /\ Touch
     \/ /\ name \notin Registered
        /\ UNCHANGED <<table, gone, scan>>
  /\ UNCHANGED <<verdicts, now>>

(* Faulty variant: the verdict on a removed backend stays in the cache.       *)
UnregisterKeepsVerdict(h) ==
  /\ pc[h] = "unregistering"
  /\ pc' = [pc EXCEPT ![h] = "idle"]
  /\ job' = [job EXCEPT ![h] = NoJob]
  /\ UNCHANGED <<table, verdicts, gone, scan, told, now>>

UnregisterVerdict(h) ==
  /\ pc[h] = "unregistering"
  /\ pc' = [pc EXCEPT ![h] = "idle"]
  /\ verdicts' = [n \in DOMAIN verdicts \ {job[h].name} |-> verdicts[n]]
  /\ job' = [Overlapped(job[h].name) EXCEPT ![h] = NoJob]
  /\ UNCHANGED <<table, gone, scan, told, now>>

BeingRemoved(name) == \E h \in Threads : pc[h] = "unregistering" /\ job[h].name = name

(* -------------------------------- is_healthy -------------------------------- *)

(* The call of is_healthy(name): it reads the clock.                          *)
Inquire(h, name) ==
  /\ pc' = [pc EXCEPT ![h] = "check"]
  /\ job' = [job EXCEPT ![h] = [name |-> name, start |-> now, backend |-> 0,
                                removed |-> BeingRemoved(name)]]
  /\ told' = [told EXCEPT ![h] = Nothing]

Ask(h, name) ==
  /\ pc[h] = "idle"
  /\ Inquire(h, name)
  /\ UNCHANGED <<table, verdicts, gone, scan, now>>

(* It returns to its caller, who is perhaps on a walk.                        *)
Return(h, kind, start, b) ==
  /\ told' = [told EXCEPT ![h] = [kind |-> kind, start |-> start, backend |-> b,
                                  removed |-> FALSE]]
  /\ job' = [job EXCEPT ![h] = NoJob]
  /\ \/ /\ scan[h].on
        /\ pc' = [pc EXCEPT ![h] = "scan"]
        /\ scan' = [scan EXCEPT ![h].reported = Append(@, job[h].name)]
     \/ /\ ~scan[h].on
        /\ pc' = [pc EXCEPT ![h] = "idle"]
        /\ UNCHANGED scan

(* Or it raises, and ends the walk of its caller.                             *)
RaiseKeyError(h) ==
  /\ told' = [told EXCEPT ![h] = [kind |-> "KeyError", start |-> 0, backend |-> 0,
                                  removed |-> job[h].removed]]
  /\ job' = [job EXCEPT ![h] = NoJob]
  /\ pc' = [pc EXCEPT ![h] = "idle"]
  /\ scan' = [scan EXCEPT ![h] = NoWalk]

(* Faulty variant: the verdict is read without asking whether there is one.   *)
CheckNothing(h) ==
  /\ pc[h] = "check"
  /\ pc' = [pc EXCEPT ![h] = "read"]
  /\ UNCHANGED <<table, verdicts, gone, job, scan, told, now>>

Check(h) ==
  /\ pc[h] = "check"
  /\ pc' = [pc EXCEPT ![h] = IF job[h].name \in DOMAIN verdicts THEN "read" ELSE "get"]
  /\ UNCHANGED <<table, verdicts, gone, job, scan, told, now>>

(* Faulty variant: a verdict that has just expired still counts.              *)
InForceToTheEnd(verdict, start) == start - verdict.at <= HealthTTL

InForce(verdict, start) == start - verdict.at < HealthTTL

(* A verdict that was removed since Check raises KeyError.                    *)
Read(h) ==
  LET name == job[h].name
  IN /\ pc[h] = "read"
     /\ \/ /\ name \in DOMAIN verdicts
           /\ InForce(verdicts[name], job[h].start)
           /\ Return(h, "verdict", job[h].start, verdicts[name].backend)
        \/ /\ name \in DOMAIN verdicts
           /\ ~InForce(verdicts[name], job[h].start)
           /\ pc' = [pc EXCEPT ![h] = "get"]
           /\ UNCHANGED <<job, scan, told>>
        \/ name \notin DOMAIN verdicts /\ RaiseKeyError(h)
     /\ UNCHANGED <<table, verdicts, gone, now>>

(* A name without a backend is not healthy; this is not cached.               *)
GetBackend(h) ==
  /\ pc[h] = "get"
  /\ \/ /\ job[h].name \in Registered
        /\ job' = [job EXCEPT ![h].backend = BackendOf(job[h].name)]
        /\ pc' = [pc EXCEPT ![h] = "probe"]
        /\ UNCHANGED <<scan, told>>
     \/ job[h].name \notin Registered /\ Return(h, "absent", 0, 0)
  /\ UNCHANGED <<table, verdicts, gone, now>>

NewVerdict(h) ==
  [at |-> job[h].start, backend |-> job[h].backend, late |-> job[h].removed]

(* health_check() answers or raises, which counts as unhealthy.               *)
Probe(h) ==
  /\ pc[h] = "probe"
  /\ verdicts' = [n \in DOMAIN verdicts \cup {job[h].name} |->
                    IF n = job[h].name THEN NewVerdict(h) ELSE verdicts[n]]
  /\ Return(h, "verdict", job[h].start, job[h].backend)
  /\ UNCHANGED <<table, gone, now>>

(* ------------------------------ health_summary ------------------------------ *)

BeginScan(h) ==
  /\ pc[h] = "idle"
  /\ pc' = [pc EXCEPT ![h] = "scan"]
  /\ scan' = [scan EXCEPT ![h] = [on |-> TRUE, size |-> Len(table), touched |-> FALSE,
                                  reported |-> <<>>]]
  /\ told' = [told EXCEPT ![h] = Nothing]
  /\ UNCHANGED <<table, verdicts, gone, job, now>>

(* The walk goes on with this name.                                           *)
ScanName(h, name) == Inquire(h, name) /\ UNCHANGED scan

(* The walk is over, or raises.                                               *)
EndScan(h, kind) ==
  /\ pc' = [pc EXCEPT ![h] = "idle"]
  /\ scan' = [scan EXCEPT ![h] = NoWalk]
  /\ told' = [told EXCEPT ![h] = [Nothing EXCEPT !.kind = kind]]
  /\ UNCHANGED job

(* The iterator of a dict raises RuntimeError when the size has changed.  When*)
(* names came and went and the size is the same, it may meet any of them, in  *)
(* any order, end early, or raise.                                            *)
Scan(h) ==
  LET k == Len(scan[h].reported) + 1
  IN /\ pc[h] = "scan"
     /\ \/ Len(table) # scan[h].size /\ EndScan(h, "RuntimeError")
        \/ Len(table) = scan[h].size /\ ~scan[h].touched /\ k <= Len(table)
             /\ ScanName(h, table[k].name)
        \/ Len(table) = scan[h].size /\ ~scan[h].touched /\ k > Len(table)
             /\ EndScan(h, "summary")
        \/ Len(table) = scan[h].size /\ scan[h].touched /\ k <= Len(table)
             /\ \E name \in Registered : ScanName(h, name)
        \/ Len(table) = scan[h].size /\ scan[h].touched
             /\ \E kind \in {"summary", "RuntimeError"} : EndScan(h, kind)
     /\ UNCHANGED <<table, verdicts, gone, now>>

Tick ==
  /\ now < MaxTime
  /\ now' = now + 1
  /\ UNCHANGED <<table, verdicts, gone, pc, job, scan, told>>

Next ==
  \/ \E name \in Names : Len(gone) < MaxBackends /\ Register(name)
  \/ \E h \in Threads :
       \/ \E name \in Names : UnregisterBackend(h, name) \/ Ask(h, name)
       \/ UnregisterVerdict(h)
       \/ Check(h)
       \/ Read(h)
       \/ GetBackend(h)
       \/ Probe(h)
       \/ BeginScan(h)
       \/ Scan(h)
  \/ Tick

Spec == Init /\ [][Next]_vars

(* -------------------------------- properties -------------------------------- *)

TypeOK ==
  /\ table \in Seq(Entry)
  /\ \A k \in DOMAIN table : table[k].backend \in Objects
  /\ DOMAIN verdicts \subseteq Names
  /\ \A n \in DOMAIN verdicts : verdicts[n] \in Verdict /\ verdicts[n].at <= now
  /\ gone \in Seq(Nat)
  /\ pc \in [Threads -> PCs]
  /\ job \in [Threads -> Job]
  /\ scan \in [Threads -> Walk]
  /\ told \in [Threads -> Told]
  /\ now \in Nat

Present(b) == \E k \in DOMAIN table : table[k].backend = b

(* A verdict may be about a backend that was replaced or removed, since       *)
(* register leaves the cache alone and a late probe refills it; but the       *)
(* backend it is about was registered at a time less than _health_ttl before  *)
(* the call that got the verdict (backend_registry.py:178-196).               *)
StaleWithinTTL ==
  \A h \in Threads : told[h].kind = "verdict" =>
    Present(told[h].backend) \/ gone[told[h].backend] > told[h].start - HealthTTL

(* unregister leaves no verdict behind (backend_registry.py:131-134), unless  *)
(* it overlapped a probe of that backend, whose verdict then comes late.      *)
NoVerdictLeftBehind ==
  \A n \in DOMAIN verdicts :
    n \in Registered \/ BeingRemoved(n) \/ verdicts[n].late

(* is_healthy tests for a verdict and then reads it (backend_registry.py:181):*)
(* the KeyError in between takes an unregister of that name.                  *)
KeyErrorOnlyIfRemoved ==
  \A h \in Threads : told[h].kind = "KeyError" => told[h].removed

(* A health_summary during which no name came or went (backend_registry.py:   *)
(* 198-206) returns all backends, each once and in the order of their         *)
(* registration, however many of them were replaced meanwhile; or it raises   *)
(* the KeyError of an is_healthy whose name an unregister was still removing. *)
SummaryExact ==
  [][\A h \in Threads : scan[h].on /\ ~scan'[h].on /\ ~scan[h].touched =>
       \/ /\ told'[h].kind = "summary"
          /\ scan[h].reported = [k \in DOMAIN table |-> table[k].name]
       \/ told'[h].kind = "KeyError" /\ told'[h].removed]_vars
===============================================================================
