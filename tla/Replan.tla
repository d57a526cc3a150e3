------------------------------- MODULE Replan --------------------------------
(***************************************************************************)
(* orchestrator/replan.py: the loop that answers a trigger with one        *)
(* decision after the other until the mission leaves                       *)
(* REPLAN_DECISION_RUNNING.                                                *)
(*                                                                         *)
(* A decision is chosen against the rows as they were loaded and applied   *)
(* with these copies, while agents go on starting and ending. Rationales,  *)
(* reasons, references and queries are not looked into. Plan options are   *)
(* one: fresh as long as one of them is not stale.                         *)
(***************************************************************************)
EXTENDS AgentRuns

CONSTANTS Strategies,
          StrategyOf,       \* the strategy a specialist serves
          Fixed,            \* complexity apart from the surviving strategies
          Offered,          \* bound: the proposals the model makes
          MAX_ROUNDS,       \* 5
          ReplanMax,        \* replan_max_per_mission, 12
          RepeatMax,        \* replan_max_consecutive_same, 3
          MaxTriggers,      \* bound: calls of decide
          MaxCrashes        \* bound: calls of decide cut off

Mission == "the mission"    \* the target of a decision that names none

Proceed == [action |-> "PROCEED_TO_OPTIMIZATION", target |-> Mission]

Proposals ==
  [action : {"RERUN_AGENT", "STOP_AGENT"}, target : Names(Roster)]
  \cup [action : {"PRUNE_STRATEGY", "REVIVE_STRATEGY"}, target : Strategies]
  \cup [action : {"CREATE_SPECIALIST", "RESEARCH_PASS", "CALL_ROUND"}, target : {Mission}]
  \cup {Proceed}

ASSUME ReplanAssumption ==
  /\ MAX_ROUNDS \in Nat /\ ReplanMax \in Nat /\ RepeatMax \in Nat \ {0}
  /\ MaxTriggers \in Nat /\ MaxCrashes \in Nat /\ Fixed \in Nat
  /\ StrategyOf \in [Names(Roster) -> Strategies]
  /\ Offered \subseteq Proposals /\ Mission \notin Names(Roster)

VARIABLES strategies,       \* status of each
          plans,            \* "none", "fresh" or "stale"
          decisions,        \* ReplanDecision rows, oldest first
          decider,          \* what decide is doing
          moved,            \* history: what the fresh plans were made from has changed
          cut,              \* history: a call of decide was cut off or raised
          triggers, crashes

replanVars == <<status, spec, swarmVars, strategies, plans, decisions, decider, moved, cut,
                triggers, crashes>>

Idle == [pc |-> "idle"]

Alive(state) == state \notin {"absent", "STOPPED", "FAILED"}

IN_PLACE_ACTIONS == {"STOP_AGENT", "PRUNE_STRATEGY", "REVIVE_STRATEGY"}
TargetState(action) ==
  CASE action \in {"RERUN_AGENT", "RESEARCH_PASS"} -> "RESEARCH_RUNNING"
    [] action = "CREATE_SPECIALIST" -> "SWARM_DESIGN_RUNNING"
    [] action = "CALL_ROUND" -> "CALL_SELECTION_RUNNING"
    [] action = "PROCEED_TO_OPTIMIZATION" -> "OPTIMIZATION_RUNNING"

-----------------------------------------------------------------------------
(***************************************************************************)
(* _validate, against the rows as loaded. Strategies, plans and decisions  *)
(* do not change under a decider, so only agents are remembered.           *)
(***************************************************************************)
Valid(p, loaded) ==
  CASE p.action = "RERUN_AGENT" -> loaded[p.target].state \notin {"absent", "WORKING"}
    [] p.action = "STOP_AGENT" -> Alive(loaded[p.target].state)
    [] p.action = "PRUNE_STRATEGY" -> strategies[p.target] \in SURVIVING_STATUSES
    [] p.action = "REVIVE_STRATEGY" -> strategies[p.target] \notin SURVIVING_STATUSES
    [] OTHER -> TRUE

Same(decision, p) == decision.action = p.action /\ decision.target = p.target

Recent(n) == SubSeq(decisions, Len(decisions) - n + 1, Len(decisions))

OneMore(p) ==   \* slip: the decision that is about to be made is not counted
  Len(decisions) > RepeatMax /\ \A i \in 1 .. RepeatMax + 1 : Same(Recent(RepeatMax + 1)[i], p)

RepeatGuard(p) ==
  Len(decisions) >= RepeatMax /\ \A i \in 1 .. RepeatMax : Same(Recent(RepeatMax)[i], p)

LimitReached == Len(decisions) >= ReplanMax

Own(p) == [action |-> p.action, target |-> p.target, forced |-> FALSE]
Forced == [action |-> "PROCEED_TO_OPTIMIZATION", target |-> Mission, forced |-> TRUE]

(***************************************************************************)
(* The decision of a round: forced by the limit, after MAX_ROUNDS rounds,  *)
(* after two invalid proposals, by a call round there is no budget for, or *)
(* by the repeat guard; else what the model proposes.                      *)
(***************************************************************************)
Outcomes(round, loaded) ==
  IF LimitReached \/ round > MAX_ROUNDS THEN {Forced}
  ELSE {Forced} \cup {Own(p) : p \in {q \in Offered : Valid(q, loaded) /\ ~RepeatGuard(q)}}

-----------------------------------------------------------------------------
(***************************************************************************)
(* _load: what the call works with until it loads again.                   *)
(***************************************************************************)
Choosing(round) == {[pc |-> "choosing", round |-> round, loaded |-> copies] : copies \in Copies}

(***************************************************************************)
(* A step that no longer looks at the rows as loaded.                      *)
(***************************************************************************)
At(pc) == [pc |-> pc, round |-> decider.round]
Goes(pc) == decider' = At(pc)

Trigger ==
  /\ decider = Idle /\ triggers < MaxTriggers /\ status = "REPLAN_DECISION_RUNNING"
  /\ decider' \in Choosing(1)
  /\ triggers' = triggers + 1
  /\ UNCHANGED <<status, spec, swarmVars, strategies, plans, decisions, moved, cut, crashes>>

(***************************************************************************)
(* The decision is on record before it is applied.                         *)
(***************************************************************************)
Choose ==
  /\ decider.pc = "choosing"
  /\ \E d \in Outcomes(decider.round, decider.loaded) :
       /\ decisions' = Append(decisions, d)
       /\ decider' = IF d.action \in IN_PLACE_ACTIONS \cup {"RERUN_AGENT", "CREATE_SPECIALIST"}
                     THEN [decider EXCEPT !.pc = d.action] ELSE At("moving")
  /\ UNCHANGED <<status, spec, swarmVars, strategies, plans, moved, cut, triggers, crashes>>

Decision == Last(decisions)

(***************************************************************************)
(* _stop_agent: the run that was latest when the rows were loaded, if it   *)
(* had not ended then, is stopped by the runner, which raises if it has    *)
(* ended since; nothing catches that. Else the agent is marked STOPPED     *)
(* and the run is written back as it was loaded; a run created since goes  *)
(* on.                                                                     *)
(***************************************************************************)
Goer(copy) == copy.id # 0 /\ copy.row.status \notin TERMINAL_RUN_STATES

Raises(a) == LET copy == decider.loaded[a] IN Goer(copy) /\ Over(copy.id)

WriteBack(copy, row) == runs' = IF copy.id = 0 THEN runs ELSE [runs EXCEPT ![copy.id].row = row]

StopRow(i) ==   \* slip: the row is written, the runner is not told
  /\ runs' = [runs EXCEPT ![i].row.status = "STOPPED"]
  /\ agents' = [agents EXCEPT ![runs[i].agent] = "STOPPED"]

StopRun(i) == Transition(i, "STOPPED")

Stopped(a) ==
  LET copy == decider.loaded[a]
  IN  IF Goer(copy) THEN StopRun(copy.id)
      ELSE agents' = [agents EXCEPT ![a] = "STOPPED"] /\ WriteBack(copy, copy.row)

StopFails(a) ==
  /\ Raises(a)
  /\ decider' = Idle /\ cut' = TRUE
  /\ UNCHANGED <<status, spec, swarmVars, strategies, plans, decisions, moved, triggers, crashes>>

StopAgent ==
  /\ decider.pc = "STOP_AGENT" /\ ~Raises(Decision.target)
  /\ Stopped(Decision.target)
  /\ moved' = TRUE /\ Goes("staling")
  /\ UNCHANGED <<status, spec, active, clock, coming, strategies, plans, decisions, cut,
                 triggers, crashes>>

StillToStop(s) ==
  {a \in Names(Roster) : /\ StrategyOf[a] = s
                         /\ decider.loaded[a].state \notin {"absent", "STOPPED", "FAILED", "COMPLETE"}}

PruneStrategy ==
  /\ decider.pc = "PRUNE_STRATEGY"
  /\ strategies' = [strategies EXCEPT ![Decision.target] = "PRUNED"]
  /\ decider' = [pc |-> "stopping", round |-> decider.round, loaded |-> decider.loaded,
                 left |-> StillToStop(Decision.target)]
  /\ moved' = TRUE
  /\ UNCHANGED <<status, spec, swarmVars, plans, decisions, cut, triggers, crashes>>

StopNext ==
  /\ decider.pc = "stopping" /\ decider.left # {}
  /\ \E a \in decider.left :
       /\ ~Raises(a) /\ Stopped(a)
       /\ decider' = [decider EXCEPT !.left = @ \ {a}]
  /\ UNCHANGED <<status, spec, active, clock, coming, strategies, plans, decisions, moved, cut,
                 triggers, crashes>>

AllStopped ==
  /\ decider.pc = "stopping" /\ decider.left = {}
  /\ Goes("staling")
  /\ UNCHANGED <<status, spec, swarmVars, strategies, plans, decisions, moved, cut,
                 triggers, crashes>>

StopRaises ==
  \/ decider.pc = "STOP_AGENT" /\ StopFails(Decision.target)
  \/ decider.pc = "stopping" /\ \E a \in decider.left : StopFails(a)

ReviveStrategy ==
  /\ decider.pc = "REVIVE_STRATEGY"
  /\ strategies' = [strategies EXCEPT ![Decision.target] = "ACTIVE"]
  /\ moved' = TRUE /\ Goes("staling")
  /\ UNCHANGED <<status, spec, swarmVars, plans, decisions, cut, triggers, crashes>>

(***************************************************************************)
(* _requeue_agent: the agent is READY; its run, if it was not stale, is    *)
(* written back as it was loaded and stale, whatever it is by now.         *)
(***************************************************************************)
Requeued(a) ==
  LET copy == decider.loaded[a]
  IN  /\ agents' = [agents EXCEPT ![a] = "READY"]
      /\ IF copy.row.stale THEN UNCHANGED runs
         ELSE WriteBack(copy, [copy.row EXCEPT !.stale = TRUE])

RerunAgent ==
  /\ decider.pc = "RERUN_AGENT"
  /\ Requeued(Decision.target)
  /\ moved' = TRUE /\ Goes("moving")
  /\ UNCHANGED <<status, spec, active, clock, coming, strategies, plans, decisions, cut,
                 triggers, crashes>>

(***************************************************************************)
(* CREATE_SPECIALIST: what add_specialist accepts becomes an agent; when   *)
(* the proposal is refused (any may be), the decision stays on record and  *)
(* another round begins.                                                   *)
(***************************************************************************)
Living == LET Live(p) == Alive(agents[p.name]) IN SelectSeq(Roster, Live)

Surviving == {s \in Strategies : strategies[s] \in SURVIVING_STATUSES}
Cap == AgentCap(ComplexityScore(0, Fixed, Cardinality(Surviving)))

Again ==
  /\ decider' \in Choosing(decider.round + 1)
  /\ UNCHANGED <<agents, moved>>

CreateSpecialist ==
  /\ decider.pc = "CREATE_SPECIALIST"
  /\ \/ Again
     \/ \E i \in DOMAIN Roster :
          /\ agents[Roster[i].name] = "absent" /\ AddSpecialist(Living, Roster[i], Cap) # {}
          /\ agents' = [agents EXCEPT ![Roster[i].name] = "READY"]
          /\ moved' = TRUE
          /\ decider' = [pc |-> "moving", round |-> decider.round, created |-> Roster[i].name]
  /\ UNCHANGED <<status, spec, runs, active, clock, coming, strategies, plans, decisions, cut,
                 triggers, crashes>>

(***************************************************************************)
(* propose_transition to where the action leads; a new specialist takes    *)
(* the mission on to SWARM_READY, and only then is its decision's target.  *)
(***************************************************************************)
Move ==
  /\ decider.pc = "moving"
  /\ IsAllowed(status, TargetState(Decision.action))
  /\ status' = TargetState(Decision.action)
  /\ decider' = IF Decision.action = "PROCEED_TO_OPTIMIZATION" THEN Idle
                ELSE [decider EXCEPT !.pc = IF Decision.action = "CREATE_SPECIALIST"
                                            THEN "readying" ELSE "staling"]
  /\ UNCHANGED <<spec, swarmVars, strategies, plans, decisions, moved, cut, triggers, crashes>>

SwarmReady ==
  /\ decider.pc = "readying"
  /\ status' = "SWARM_READY"
  /\ decisions' = [decisions EXCEPT ![Len(decisions)].target = decider.created]
  /\ Goes("staling")
  /\ UNCHANGED <<spec, swarmVars, strategies, plans, moved, cut, triggers, crashes>>

(***************************************************************************)
(* _stale_plans; after an action that moved the mission decide returns,    *)
(* else the rows are loaded again.                                         *)
(***************************************************************************)
Staled == IF plans = "fresh" THEN "stale" ELSE plans

StaledByMove ==   \* slip: an action in place leaves the plans alone
  IF Decision.action \in IN_PLACE_ACTIONS THEN plans ELSE Staled

PlansAfter == Staled

StalePlans ==
  /\ decider.pc = "staling"
  /\ plans' = PlansAfter
  /\ decider' \in IF Decision.action \in IN_PLACE_ACTIONS THEN Choosing(decider.round + 1)
                  ELSE {Idle}
  /\ UNCHANGED <<status, spec, swarmVars, strategies, decisions, moved, cut, triggers, crashes>>

Crash ==
  /\ decider # Idle /\ crashes < MaxCrashes
  /\ decider' = Idle /\ cut' = TRUE /\ crashes' = crashes + 1
  /\ UNCHANGED <<status, spec, swarmVars, strategies, plans, decisions, moved, triggers>>

Decides ==
  \/ Choose \/ StopAgent \/ PruneStrategy \/ StopNext \/ AllStopped \/ StopRaises
  \/ ReviveStrategy \/ RerunAgent \/ CreateSpecialist \/ Move \/ SwarmReady \/ StalePlans

-----------------------------------------------------------------------------
(***************************************************************************)
(* Around it: agents run, and the other components bring the mission back, *)
(* by moves of the table of which the last one matters here. Optimization  *)
(* makes plan options of what there is.                                    *)
(***************************************************************************)
AgentsRun ==
  /\ Swarms
  /\ UNCHANGED <<strategies, plans, decisions, decider, moved, cut, triggers, crashes>>

Returns ==
  /\ status \in {"SWARM_READY", "RESEARCH_RUNNING", "CALL_SELECTION_RUNNING", "OPTIMIZATION_RUNNING"}
  /\ status' = IF status = "SWARM_READY" THEN "RESEARCH_RUNNING" ELSE "REPLAN_DECISION_RUNNING"
  /\ UNCHANGED <<spec, swarmVars, strategies, plans, decisions, decider, moved, cut,
                 triggers, crashes>>

Optimize ==
  /\ status = "OPTIMIZATION_RUNNING"
  /\ status' = "PLAN_OPTIONS_READY"
  /\ plans' = "fresh" /\ moved' = FALSE
  /\ UNCHANGED <<spec, swarmVars, strategies, decisions, decider, cut, triggers, crashes>>

Around == AgentsRun \/ Returns \/ Optimize

ReplanInit ==
  /\ SwarmInit
  /\ status \in {"REPLAN_DECISION_RUNNING", "PLAN_OPTIONS_READY"}
  /\ strategies = [s \in Strategies |-> "PROPOSED"]
  /\ Len(Living) <= Cap
  /\ plans = IF status = "PLAN_OPTIONS_READY" THEN "fresh" ELSE "none"
  /\ decisions = <<>> /\ decider = Idle
  /\ moved = FALSE /\ cut = FALSE /\ triggers = 0 /\ crashes = 0

ReplanNext == Trigger \/ Decides \/ Crash \/ Around
=============================================================================
