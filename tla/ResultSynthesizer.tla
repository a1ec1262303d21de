--------------------------- MODULE ResultSynthesizer --------------------------
(* engine/result_synthesizer.py: how the results of the sub-queries become    *)
(* the one context that is handed to the language model.                      *)
(*                                                                            *)
(* A context is the sequence of its entries: the part a chunk is written      *)
(* under, its content and its score.  Headings and the formatting of entries  *)
(* are left out, and so are direct answers, which the executor never sets,    *)
(* and _synthesize_simple, which no intent selects.                           *)
EXTENDS Integers, SequencesExt, Sorting

CONSTANTS Contents,  \* contents of chunks
          Blank,     \* the empty content
          Similar    \* pairs of contents with a 3-gram Jaccard index of 0.85 or more

Chunk == [content : Contents, score : Nat]

(* A result, as far as the synthesizer reads it.  query is the position of the*)
(* sub-query it was computed for, or 0 when that is not in the plan: a result *)
(* from the cache keeps the query_id of the request that computed it.  at is  *)
(* history: the position of the sub-query it is the answer to.                *)
Result == [at : Nat, query : Nat, ok : BOOLEAN, chunks : Seq(Chunk)]

ASSUME SynthesizerAssumption ==
  /\ Blank \in Contents
  /\ Similar \subseteq Contents \X Contents
  /\ \A c \in Contents \ {Blank} : <<c, c>> \in Similar
  /\ \A p \in Similar : <<p[2], p[1]>> \in Similar /\ Blank \notin {p[1], p[2]}

Entries(part, result) ==
  [k \in DOMAIN result.chunks |->
     [part |-> part, at |-> result.at,
      content |-> result.chunks[k].content, score |-> result.chunks[k].score]]

OkResults(results) == Filtered(results, {k \in DOMAIN results : results[k].ok})

SelectMode(intent) ==
  CASE intent.primary = "comparison" -> "compare"
    [] intent.primary = "multi_hop" -> "chain"
    [] OTHER -> "aggregate"

(* The heading a result of a comparison is shown under.                       *)
Aspect(k) ==
  CASE k = 1 -> "A"
    [] k = 2 -> "B"
    [] OTHER -> "additional"

(* Faulty variant: the first result is shown on both sides.                   *)
CompareFirst(results) ==
  IF Len(results) < 2 THEN <<>>
  ELSE FlattenSeq([k \in DOMAIN results |-> Entries(Aspect(k), results[IF k = 2 THEN 1 ELSE k])])

(* Side by side.  The first two results are shown together or not at all.     *)
SynthesizeCompare(results) ==
  IF Len(results) < 2 THEN <<>>
  ELSE FlattenSeq([k \in DOMAIN results |-> Entries(Aspect(k), results[k])])

(* _find_wave: the group of the sub-query; 999 when it is not in the plan.    *)
FindWave(query, subs) == IF query \in DOMAIN subs THEN subs[query].group ELSE 999

(* Faulty variant: later waves come first.                                    *)
SortedByWaveDown(results, subs) ==
  Sorted(results, DOMAIN results, [k \in DOMAIN results |-> -FindWave(results[k].query, subs)])

SortedByWave(results, subs) ==
  Sorted(results, DOMAIN results, [k \in DOMAIN results |-> FindWave(results[k].query, subs)])

(* Step by step, in the order of the waves.                                   *)
SynthesizeChain(results, subs) ==
  LET sorted == SortedByWave(results, subs)
  IN FlattenSeq([k \in DOMAIN sorted |-> Entries(k, sorted[k])])

(* Faulty variant: only a content equal to the last one is a duplicate.       *)
RepeatsLast(content, seen) == seen # <<>> /\ seen[Len(seen)].content = content

(* Blank contents count as duplicates.                                        *)
IsDuplicate(content, seen) ==
  content = Blank \/ \E k \in DOMAIN seen : <<content, seen[k].content>> \in Similar

(* All chunks in the order of the plan, near duplicates left out: seen[n] is  *)
(* what has been kept of the first n.                                         *)
SynthesizeAggregate(results) ==
  LET found == FlattenSeq([k \in DOMAIN results |-> Entries("aggregate", results[k])])
      seen[n \in 0..Len(found)] ==
        IF n = 0 THEN <<>>
        ELSE LET before == seen[n - 1]
             IN IF IsDuplicate(found[n].content, before) THEN before ELSE Append(before, found[n])
  IN seen[Len(found)]

(* synthesize(), when some sub-query succeeded.                               *)
Synthesize(intent, subs, results) ==
  LET ok == OkResults(results)
      mode == SelectMode(intent)
  IN IF mode = "compare" THEN SynthesizeCompare(ok)
     ELSE IF mode = "chain" THEN SynthesizeChain(ok, subs)
     ELSE SynthesizeAggregate(ok)
===============================================================================
