----------------------------- MODULE MCEvidence ------------------------------
(***************************************************************************)
(* Two writers, a page, a call and a simulated call that speak of a price; *)
(* a call that also speaks of a second predicate; prose.                   *)
(***************************************************************************)
EXTENDS Evidence

SomeGroups == {"price", "hours", "summary"}
SomeProse == {"summary"}
SomeSources == {"page", "call", "rehearsal"}
TypeOfSource == [s \in SomeSources |->
  CASE s = "page" -> "WEB" [] s = "call" -> "PHONE" [] s = "rehearsal" -> "SIMULATED"]

NoProse == [g \in {} |-> 1]
SomeBatches ==
  { <<[group |-> "price", source |-> "page", value |-> 1, time |-> 1]>>,
    ClaimsFromRun("call", 1, [price |-> 1, hours |-> 2], TRUE, NoProse),
    ClaimsFromRun("call", 2, [price |-> 2, hours |-> UNKNOWN_VALUE], TRUE, [summary |-> 1]),
    ClaimsFromRun("rehearsal", 2, [price |-> 1], TRUE, NoProse) }
==============================================================================
