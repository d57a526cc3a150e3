------------------------------ MODULE MCReplan -------------------------------
(***************************************************************************)
(* Instances of Revision: two specialists, of which one may not be there   *)
(* yet, one strategy they serve, a constraint one of them depends on and   *)
(* one more a revision may add.                                            *)
(***************************************************************************)
EXTENDS Revision

Specialist(name, owns) ==
  [name |-> name, owns |-> owns, needs |-> {}, mentions |-> {}, acceptable |-> TRUE]
MCRoster == <<Specialist("scout", {1, 2}), Specialist("buyer", {3, 4})>>
MCStrategyOf == [n \in {"scout", "buyer"} |-> "s"]

Propose(action, target) == [action |-> action, target |-> target]
MCOffered ==
  {Propose("RERUN_AGENT", "buyer"), Propose("STOP_AGENT", "buyer"),
   Propose("PRUNE_STRATEGY", "s"), Propose("REVIVE_STRATEGY", "s"),
   Propose("CREATE_SPECIALIST", Mission), Propose("CALL_ROUND", Mission), Proceed}

To(n) == [k \in {"budget"} |-> n]
Dated == [k \in {"date"} |-> 1]
MCFirstSpec == [values |-> To(0), locked |-> {}]
MCSpecs ==
  [values : [{"budget"} -> 0 .. 1] \cup [{"budget", "date"} -> 0 .. 1], locked : SUBSET {"venue"}]
Change(values, locks, unlocks) == [values |-> values, locks |-> locks, unlocks |-> unlocks]
MCChanges == {Change(Dated, {}, {}), Change(To(1), {"venue"}, {}), Change(To(0), {}, {"venue"})}

MCAgentKeys == [n \in {"scout", "buyer"} |-> IF n = "buyer" THEN {"budget", "date"} ELSE {}]
MCStrategyKeys == [s \in {"s"} |-> {"budget"}]
MCOwnersOf == [c \in {"venue"} |-> {"buyer"}]

MCBands == <<[upper |-> 0, cap |-> 1]>>
==============================================================================
