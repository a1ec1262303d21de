------------------------------ MODULE QuePipeline -----------------------------
(* engine/pipeline.py: a list of stages that callers edit and run.            *)
(*                                                                            *)
(* run() walks over the list itself, not over a copy, and a stage's handler or*)
(* another thread may edit the pipeline while it does.  add, replace and      *)
(* reorder change the list in place, under the run; remove_stage and the      *)
(* presets and from_dict make a new list, and a run stays with the old one.   *)
(* An edit during a handler is an edit between two visits: the iterator moved *)
(* on before the handler was called.                                          *)
(*                                                                            *)
(* Handlers are external.  What they write to the shared state and the timings*)
(* are left out; timeout_ms is never read.                                    *)
EXTENDS Integers, Sequences, FiniteSets, Sorting

CONSTANTS Runs,      \* calls of run()
          Names,     \* names of stages besides those of the presets
          Lists,     \* the lists a caller makes a pipeline of
          Orders,    \* the lists of names it reorders by
          MaxEdits   \* bound on edits

PresetNames == {"intent", "rewrite", "plan", "execute", "synthesize"}
Stage == [name : Names \cup PresetNames, required : BOOLEAN]

ASSUME PipelineAssumption ==
  /\ Lists \subseteq Seq(Stage)
  /\ Orders \subseteq Seq(Names \cup PresetNames)
  /\ Names \cap PresetNames = {}
  /\ MaxEdits \in Nat

VARIABLES
  lists,    \* the list objects that were made
  current,  \* _stages: the number of the pipeline's list
  edits,    \* number of edits
  pc,       \* pc[t]: "idle", "running" or "done"
  walked,   \* walked[t]: the list run t iterates over
  cursor,   \* cursor[t]: the place of its iterator in that list
  log,      \* log[t]: PipelineResult: executed_stages, skipped_stages and errors
  success,  \* success[t]: PipelineResult.success
  began,    \* history: began[t], the list as it was when the run began
  upset     \* history: upset[t], whether stages were added to that list since, or
            \* replaced or reordered in it

runVars == <<pc, walked, cursor, log, success, began>>
vars == <<lists, current, edits, runVars, upset>>

Stages == lists[current]
Ended == {"ok", "skipped", "failed"}
Entry == [stage : Stage, how : Ended]

Preset(name, required) == [name |-> name, required |-> required]

(* preset_icar; retrieval_only is the same without rewrite.                   *)
PresetIcar ==
  <<Preset("intent", TRUE), Preset("rewrite", FALSE), Preset("plan", TRUE),
    Preset("execute", TRUE), Preset("synthesize", TRUE)>>

Only(stages, names) == Filtered(stages, {k \in DOMAIN stages : stages[k].name \in names})

Without(stages, name) == Only(stages, (Names \cup PresetNames) \ {name})

PresetRetrievalOnly == Without(PresetIcar, "rewrite")
PresetIntentThenRetrieve == <<Preset("intent", TRUE)>>

Init ==
  /\ \E stages \in Lists \cup {PresetIcar, PresetRetrievalOnly, PresetIntentThenRetrieve} :
       lists = <<stages>>
  /\ current = 1
  /\ edits = 0
  /\ pc = [t \in Runs |-> "idle"]
  /\ walked = [t \in Runs |-> 1]
  /\ cursor = [t \in Runs |-> 1]
  /\ log = [t \in Runs |-> <<>>]
  /\ success = [t \in Runs |-> TRUE]
  /\ began = [t \in Runs |-> <<>>]
  /\ upset = [t \in Runs |-> "not"]

(* ----------------------------------- edits ---------------------------------- *)

Edit == edits < MaxEdits /\ edits' = edits + 1 /\ UNCHANGED runVars

(* The list changes under the runs that walk over it.                         *)
InPlace(stages, how) ==
  /\ lists' = [lists EXCEPT ![current] = stages]
  /\ upset' = [t \in Runs |-> IF pc[t] = "running" /\ walked[t] = current /\ upset[t] # "shuffled"
                              THEN how ELSE upset[t]]
  /\ UNCHANGED current

Rebind(stages) ==
  /\ lists' = Append(lists, stages)
  /\ current' = Len(lists) + 1
  /\ UNCHANGED upset

Inserted(stages, position, stage) ==
  SubSeq(stages, 1, position) \o <<stage>> \o SubSeq(stages, position + 1, Len(stages))

(* Any position outside of the list appends.                                  *)
AddStage(stage, position) ==
  LET n == Len(Stages)
      at == IF position < 0 \/ position >= n THEN n ELSE position
  IN Edit /\ InPlace(Inserted(Stages, at, stage), "grown")

(* Faulty variant: the stage is taken out of the list itself.                 *)
RemoveInPlace(name) ==
  /\ Edit
  /\ lists' = [lists EXCEPT ![current] = Without(Stages, name)]
  /\ UNCHANGED <<current, upset>>

RemoveStage(name) == Edit /\ Rebind(Without(Stages, name))

(* The first stage of that name.                                              *)
ReplaceStage(name, stage) ==
  /\ Edit
  /\ \/ \E k \in DOMAIN Stages :
          /\ Stages[k].name = name
          /\ \A j \in 1..(k - 1) : Stages[j].name # name
          /\ InPlace([Stages EXCEPT ![k] = stage], "shuffled")
     \/ /\ \A k \in DOMAIN Stages : Stages[k].name # name
        /\ UNCHANGED <<lists, current, upset>>

(* The place of a name in the order; names that are not in it come last.      *)
Rank(name, order) ==
  IF \E i \in DOMAIN order : order[i] = name
  THEN CHOOSE i \in DOMAIN order :
         order[i] = name /\ \A j \in DOMAIN order : order[j] = name => j <= i
  ELSE 1000

Reorder(order) ==
  /\ Edit
  /\ InPlace(Sorted(Stages, DOMAIN Stages,
                    [k \in DOMAIN Stages |-> Rank(Stages[k].name, order)]), "shuffled")

(* from_dict(to_dict(), registry): names the registry does not know are lost. *)
Reload(known) == Edit /\ Rebind(Only(Stages, known))

(* ----------------------------------- run() ---------------------------------- *)

Run(t) ==
  /\ pc[t] = "idle"
  /\ pc' = [pc EXCEPT ![t] = "running"]
  /\ walked' = [walked EXCEPT ![t] = current]
  /\ began' = [began EXCEPT ![t] = Stages]
  /\ UNCHANGED <<lists, current, edits, cursor, log, success, upset>>

(* skip_if answers, or raises, which counts as no; a handler returns or raises.*)
(* The presets' stages have no skip_if, and their synthesize passes no trace to *)
(* a function that adds to it: it always raises, as execute does, for the same  *)
(* reason, unless the plan is empty.                                            *)
Outcomes(stage) ==
  {how \in Ended : /\ how = "skipped" => stage.name \in Names
                   /\ how = "ok" => stage.name # "synthesize"}

(* Faulty variant: the number of stages is read once.                         *)
ExhaustedAtFirst(t) == cursor[t] > Len(began[t])

Exhausted(t) == cursor[t] > Len(lists[walked[t]])

Visit(t) ==
  /\ pc[t] = "running"
  /\ ~Exhausted(t)
  /\ LET stage == lists[walked[t]][cursor[t]]
     IN \E how \in Outcomes(stage) :
          LET stops == how = "failed" /\ stage.required
          IN /\ log' = [log EXCEPT ![t] = Append(@, [stage |-> stage, how |-> how])]
             /\ cursor' = [cursor EXCEPT ![t] = @ + 1]
             /\ success' = [success EXCEPT ![t] = ~stops]
             /\ pc' = [pc EXCEPT ![t] = IF stops THEN "done" ELSE "running"]
  /\ UNCHANGED <<lists, current, edits, walked, began, upset>>

EndRun(t) ==
  /\ pc[t] = "running"
  /\ Exhausted(t)
  /\ pc' = [pc EXCEPT ![t] = "done"]
  /\ UNCHANGED <<lists, current, edits, walked, cursor, log, success, began, upset>>

Next ==
  \/ \E stage \in [name : Names, required : BOOLEAN], position \in -1..2 : AddStage(stage, position)
  \/ \E name \in Names : RemoveStage(name)
  \/ \E name \in Names, stage \in [name : Names, required : BOOLEAN] : ReplaceStage(name, stage)
  \/ \E order \in Orders : Reorder(order)
  \/ \E known \in SUBSET Names : Reload(known)
  \/ \E t \in Runs : Run(t) \/ Visit(t) \/ EndRun(t)

Spec == Init /\ [][Next]_vars

(* -------------------------------- properties -------------------------------- *)

TypeOK ==
  /\ lists \in Seq(Seq(Stage))
  /\ current \in DOMAIN lists
  /\ edits \in Nat
  /\ pc \in [Runs -> {"idle", "running", "done"}]
  /\ walked \in [Runs -> DOMAIN lists]
  /\ cursor \in [Runs -> Nat]
  /\ \A t \in Runs : cursor[t] \in 1..(Len(lists[walked[t]]) + 1)
  /\ log \in [Runs -> Seq(Entry)]
  /\ success \in [Runs -> BOOLEAN]
  /\ began \in [Runs -> Seq(Stage)]
  /\ upset \in [Runs -> {"not", "grown", "shuffled"}]

Visited(t) == [k \in DOMAIN log[t] |-> log[t][k].stage]
Fatal(entry) == entry.how = "failed" /\ entry.stage.required

(* A run deals with the stages the pipeline had when it began, in their order,*)
(* each once, up to the first required stage that fails, and says whether one *)
(* did; also when stages are removed or the pipeline is rebuilt meanwhile, for*)
(* remove_stage makes a new list (pipeline.py:85,110).                        *)
FollowsItsList ==
  \A t \in Runs : pc[t] # "idle" /\ upset[t] = "not" =>
    /\ Visited(t) = SubSeq(began[t], 1, Len(log[t]))
    /\ \A k \in 1..(Len(log[t]) - 1) : ~Fatal(log[t][k])
    /\ pc[t] = "done" =>
         IF success[t] THEN Len(log[t]) = Len(began[t])
                       ELSE log[t] # <<>> /\ Fatal(log[t][Len(log[t])])

(* s is left when elements of v are struck out.                               *)
IsWithin(s, v) ==
  \E f \in [DOMAIN s -> DOMAIN v] :
    /\ \A i, j \in DOMAIN s : i < j => f[i] < f[j]
    /\ \A i \in DOMAIN s : v[f[i]] = s[i]

(* Stages that are added while a run is under way, before or behind its place,*)
(* may make it visit one twice but never pass one over: a run that succeeds   *)
(* has visited, in their order, all stages it began with (pipeline.py:74-76). *)
NothingPassedOver ==
  \A t \in Runs : pc[t] = "done" /\ success[t] /\ upset[t] # "shuffled" =>
    IsWithin(began[t], Visited(t))
===============================================================================
