-------------------------- MODULE StrategyArchitect --------------------------
(***************************************************************************)
(* strategies/architect.py and diversity.py: which of the strategies the   *)
(* model proposes are kept, and the life of a kept one. A text is its set  *)
(* of tokens. The module has no state.                                     *)
(***************************************************************************)
EXTENDS Integers, FiniteSets, SequencesExt

CONSTANTS MIN_STRATEGIES, MAX_STRATEGIES,
          StrategyOverlap           \* strategy_overlap_threshold, in percent

ASSUME ArchitectAssumption ==
  /\ MIN_STRATEGIES \in Nat /\ MAX_STRATEGIES \in Nat /\ MIN_STRATEGIES <= MAX_STRATEGIES
  /\ StrategyOverlap \in 1 .. 100

(***************************************************************************)
(* What the model fills in for a strategy. Tokens are numbers.             *)
(***************************************************************************)
StrategyProposal == [axis : STRING, words : SUBSET Nat]

StrategyStatus == {"PROPOSED", "ACTIVE", "PRUNED", "IMPOSSIBLE"}
SURVIVING_STATUSES == {"PROPOSED", "ACTIVE"}

(***************************************************************************)
(* jaccard(a, b) >= threshold                                              *)
(***************************************************************************)
Jaccard(a, b, percent) ==
  IF a \cup b = {} THEN TRUE
  ELSE 100 * Cardinality(a \cap b) >= percent * Cardinality(a \cup b)

(***************************************************************************)
(* overlap(a, b) >= threshold: the smaller set is what counts.             *)
(***************************************************************************)
Overlap(a, b, percent) ==
  IF a = {} \/ b = {} THEN a = b
  ELSE 100 * Cardinality(a \cap b)
         >= percent * (IF Cardinality(a) < Cardinality(b) THEN Cardinality(a) ELSE Cardinality(b))

Duplicates(p, q) ==
  p.axis = q.axis \/ Jaccard(p.words, q.words, StrategyOverlap)

JudgeNeighbour(kept, p) ==   \* slip: only the last one kept is compared
  kept # <<>> /\ Duplicates(p, Last(kept))

(***************************************************************************)
(* validate_set: in order, a proposal that duplicates a kept one is        *)
(* rejected. The rejected are only counted.                                *)
(***************************************************************************)
Judge(kept, p) == \E i \in DOMAIN kept : Duplicates(p, kept[i])

ValidateSet(proposals, accepted) ==
  FoldLeft(LAMBDA set, p : IF Judge(set.kept, p)
                           THEN [set EXCEPT !.rejected = @ + 1]
                           ELSE [set EXCEPT !.kept = Append(@, p)],
           [kept |-> accepted, rejected |-> 0], proposals)

AtMost(n, s) == SubSeq(s, 1, IF Len(s) < n THEN Len(s) ELSE n)

ReplacementsNeeded(accepted, rejected) ==
  LET room == IF accepted < MAX_STRATEGIES THEN MAX_STRATEGIES - accepted ELSE 0
      some == IF rejected < room THEN rejected ELSE room
  IN  IF MIN_STRATEGIES - accepted > some THEN MIN_STRATEGIES - accepted ELSE some

(***************************************************************************)
(* The set after the first answer of the model, and after the replacements *)
(* for what it lost.                                                       *)
(***************************************************************************)
FirstSet(proposals) ==
  LET set == ValidateSet(proposals, <<>>)
      kept == AtMost(MAX_STRATEGIES, set.kept)
  IN [kept |-> kept, needed |-> ReplacementsNeeded(Len(kept), set.rejected)]

SecondSet(kept, needed, replacement) ==
  AtMost(MAX_STRATEGIES, ValidateSet(AtMost(needed, replacement), kept).kept)

(***************************************************************************)
(* prune, mark_impossible, revive and activate: where each may start from, *)
(* and where it leads.                                                     *)
(***************************************************************************)
AllowedFrom(status) ==
  CASE status = "PRUNED" -> SURVIVING_STATUSES
    [] status = "IMPOSSIBLE" -> SURVIVING_STATUSES \cup {"PRUNED"}
    [] status = "ACTIVE" -> {"PRUNED", "IMPOSSIBLE"}   \* revive

Distinct(set) == \A i, j \in DOMAIN set : i # j => ~Duplicates(set[i], set[j])
==============================================================================
