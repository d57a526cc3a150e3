---------------------------- MODULE CallStrategy -----------------------------
(***************************************************************************)
(* calls/strategy.py, scoring.py and schema.py: which calls are worth      *)
(* making. A proposal of the model has its factors, in tenths, a call      *)
(* pattern and whether its purpose is prohibited; the schema of its result *)
(* can be generated or not. The module has no state.                       *)
(***************************************************************************)
EXTENDS Integers, FiniteSets

CONSTANTS MinPriority,        \* call_min_priority, in thousandths
          RedundantFrom       \* REDUNDANT_THRESHOLD, in tenths

ASSUME StrategyAssumption == MinPriority \in 0 .. 1000 /\ RedundantFrom \in 0 .. 10

Clamp(low, high, n) == IF n < low THEN low ELSE IF n > high THEN high ELSE n

(***************************************************************************)
(* compute_priority with the default weights, in thousandths. f.value is   *)
(* the five positive factors beside mission_impact, taken as one.          *)
(***************************************************************************)
ComputePriority(f) ==
  Clamp(0, 1000, 25 * f.mission_impact + 75 * f.value - 50 * f.redundancy - 30 * f.call_cost)

(***************************************************************************)
(* validate_pattern for the one recipient an intent has.                   *)
(***************************************************************************)
ValidatePattern(proposed, policy) ==
  IF \/ proposed \in {"FAN_OUT", "CASCADE"}
     \/ proposed \in {"NEGOTIATION_ROUND", "FOLLOW_UP", "VERIFICATION"} /\ ~policy.negotiate
  THEN "ONE_SHOT" ELSE proposed

Proposed(entity, gaps, p, policy) ==
  [entity |-> entity, gaps |-> gaps, pattern |-> ValidatePattern(p.pattern, policy),
   priority |-> ComputePriority(p.factors), redundancy |-> p.factors.redundancy,
   prohibited |-> p.prohibited]

(***************************************************************************)
(* select_calls: the reason an intent is rejected for, or none.            *)
(***************************************************************************)
Blocked(intent, policy) == ~policy.calls \/ intent.prohibited

Worth(intent, policy) ==
  /\ ~Blocked(intent, policy)
  /\ intent.redundancy < RedundantFrom
  /\ intent.priority >= MinPriority

SelectionCap(remaining, policy, hardCap) ==
  LET cap == IF remaining < policy.max THEN remaining ELSE policy.max
  IN  IF cap < hardCap THEN cap ELSE hardCap

(***************************************************************************)
(* The best ones under the cap. Ties break on an intent's random id, so    *)
(* any of them may be among the selected.                                  *)
(***************************************************************************)
Selections(intents, remaining, policy, hardCap) ==
  LET scored == {i \in intents : Worth(i, policy)}
      cap == SelectionCap(remaining, policy, hardCap)
      n == IF Cardinality(scored) < cap THEN Cardinality(scored) ELSE cap
  IN {S \in SUBSET scored :
        /\ IsFiniteSet(S) /\ Cardinality(S) = n
        /\ \A i \in S : \A j \in scored \ S : i.priority >= j.priority}

(***************************************************************************)
(* _attach_schemas: any of the selected may turn out to have none.         *)
(***************************************************************************)
WithSchemas(selected) == SUBSET selected

(***************************************************************************)
(* _persist: selected intents whose result schema could be generated wait  *)
(* for authorization, the others are kept with the reason they are not     *)
(* made.                                                                   *)
(***************************************************************************)
Settled(intent, selected, withSchema, policy) ==
  [entity |-> intent.entity, gaps |-> intent.gaps, pattern |-> intent.pattern,
   priority |-> intent.priority,
   state |-> IF intent \in selected \cap withSchema THEN "PENDING"
             ELSE IF Blocked(intent, policy) THEN "BLOCKED" ELSE "NOT_REQUESTED"]
==============================================================================
