------------------------------ MODULE Revision -------------------------------
(***************************************************************************)
(* orchestrator/revision.py: a change of the constraints the user states   *)
(* while plan options are on the table, among the replan decisions.        *)
(*                                                                         *)
(* A constraint key and a soft preference are one kind of key. What an     *)
(* artifact depends on (key_matches over its texts) and which component an *)
(* agent owns are constants. One request at a time.                        *)
(***************************************************************************)
EXTENDS Replan

CONSTANTS Changes,        \* the changes the user asks for
          AgentKeys,      \* keys among an agent's inputs and what it owns
          StrategyKeys,   \* keys a strategy's required information mentions
          PlanKeys,       \* keys a plan declares
          OwnersOf,       \* the agents whose area or name a component matches
          MaxRevisions    \* bound: requests

(***************************************************************************)
(* apply_change_to_spec                                                    *)
(***************************************************************************)
ChangedKeys(old, change) ==
  {k \in DOMAIN change.values : k \in DOMAIN old.values => change.values[k] # old.values[k]}

ApplyChange(old, change) ==
  [values |-> [k \in DOMAIN old.values \cup DOMAIN change.values |->
                IF k \in DOMAIN change.values THEN change.values[k] ELSE old.values[k]],
   locked |-> (old.locked \ change.unlocks) \cup change.locks]

ASSUME RevisionAssumption ==
  /\ MaxRevisions \in Nat
  /\ AgentKeys \in [Names(Roster) -> SUBSET UNION {DOMAIN s.values : s \in Specs}]
  /\ DOMAIN StrategyKeys = Strategies
  /\ \A old \in Specs, change \in Changes : ApplyChange(old, change) \in Specs

VARIABLES reviser,           \* what the request is doing
          staleStrategies,   \* strategies marked stale
          revisions

revisionVars == <<replanVars, reviser, staleStrategies, revisions>>

REVISABLE_STATES == {"USER_DECISION_PENDING", "PLAN_OPTIONS_READY"}
NOT_REQUEUED == {"STOPPED", "WORKING", "READY"}

-----------------------------------------------------------------------------
(***************************************************************************)
(* The rows are copied in one session, the mission is moved in a second,   *)
(* and the rows are written in a third, from the copies.                   *)
(***************************************************************************)
Finished == {i \in DOMAIN runs : runs[i].row.status = "COMPLETE"}   \* history

ReadMission ==
  /\ reviser = Idle /\ revisions < MaxRevisions /\ status \in REVISABLE_STATES
  /\ \E change \in Changes :
       \E copies \in Copies :
         reviser' = [pc |-> "moving", change |-> change, spec |-> spec, copies |-> copies,
                     finished |-> Finished, late |-> FALSE]
  /\ revisions' = revisions + 1
  /\ UNCHANGED <<replanVars, staleStrategies>>

BeginRevision ==
  /\ reviser.pc = "moving"
  /\ IF IsAllowed(status, "MISSION_REVISION_RUNNING")
     THEN status' = "MISSION_REVISION_RUNNING" /\ reviser' = [reviser EXCEPT !.pc = "writing"]
     ELSE UNCHANGED status /\ reviser' = Idle
  /\ UNCHANGED <<spec, swarmVars, strategies, plans, decisions, decider, moved, cut,
                 triggers, crashes, staleStrategies, revisions>>

(***************************************************************************)
(* build_dependency_graph: what each artifact depends on of the keys there *)
(* are; a plan that declares none depends on all. Who owns a component.    *)
(***************************************************************************)
BuildDependencyGraph(new) ==
  LET keys == DOMAIN new.values
  IN  [strategies |-> [s \in Strategies |-> StrategyKeys[s] \cap keys],
       agents |-> [a \in Names(Roster) |-> AgentKeys[a] \cap keys],
       plans |-> IF PlanKeys = {} THEN keys ELSE PlanKeys,
       owners |-> OwnersOf]

DependentsOf(deps, changed) == {x \in DOMAIN deps : deps[x] \cap changed # {}}

Spared(graph, new) == UNION {graph.owners[c] : c \in new.locked}

HasOutput(copy) == copy.id # 0 /\ copy.row.output /\ ~copy.row.stale

MarksRequeued(copy) ==   \* slip: only the output of an agent that is re-queued is stale
  HasOutput(copy) /\ copy.state \notin NOT_REQUEUED

Marks(copy) == HasOutput(copy)

(***************************************************************************)
(* The latest runs that become stale, the agents that become READY. Both   *)
(* are written from the copies.                                            *)
(***************************************************************************)
Marked(redone) == {reviser.copies[a].id : a \in {b \in redone : Marks(reviser.copies[b])}}

Requeues(redone) ==
  {a \in redone : reviser.copies[a].state \notin NOT_REQUEUED \cup {"absent"}}

(***************************************************************************)
(* History: why a revision passes a run over. It looks at one run of an    *)
(* agent, the latest of the copies; it leaves alone what is spared for a   *)
(* lock and what had not delivered when the rows were read.                *)
(***************************************************************************)
Unfinished(a) ==
  LET copy == reviser.copies[a] IN copy.id # 0 /\ copy.row.status # "COMPLETE"

Excuses(a, finished, dependents, spared) ==
  {why \in {"locked", "unfinished"} :
     /\ a \in dependents
     /\ IF why = "locked" THEN a \in spared ELSE Unfinished(a) \/ ~finished}

Passed(given, why) == [given EXCEPT !.excuses = @ \cup why]

RevisedRun(i, dependents, spared) ==
  LET a == runs[i].agent
      row == IF i \in Marked(dependents \ spared)
             THEN [reviser.copies[a].row EXCEPT !.stale = TRUE] ELSE runs[i].row
  IN  [runs[i] EXCEPT !.row = row,
         !.given = Passed(@, Excuses(a, i \in reviser.finished, dependents, spared))]

(***************************************************************************)
(* The evidence is counted again after the writes, but the assertion comes *)
(* after their commit: when a claim was stored in between, the request     *)
(* fails with everything applied and the mission not moved on.             *)
(***************************************************************************)
WriteRevision ==
  /\ reviser.pc = "writing"
  /\ LET new == ApplyChange(reviser.spec, reviser.change)
         keys == ChangedKeys(reviser.spec, reviser.change)
         graph == BuildDependencyGraph(new)
         hit == graph.plans \cap keys # {}
         dependents == DependentsOf(graph.agents, keys)
         spared == Spared(graph, new)
     IN  /\ spec' = new
         /\ runs' = [i \in DOMAIN runs |-> RevisedRun(i, dependents, spared)]
         /\ agents' = [a \in Names(Roster) |->
                         IF a \in Requeues(dependents \ spared) THEN "READY" ELSE agents[a]]
         /\ coming' = [coming EXCEPT !.given =
              [a \in DOMAIN @ |-> Passed(@[a], Excuses(a, FALSE, dependents, spared))]]
         /\ staleStrategies' = staleStrategies \cup DependentsOf(graph.strategies, keys)
         /\ plans' = IF hit /\ plans = "fresh" THEN "stale" ELSE plans
         /\ moved' = (moved \/ hit)
  /\ IF ~reviser.late THEN reviser' = [pc |-> "ending"] /\ UNCHANGED cut
     ELSE reviser' = Idle /\ cut' = TRUE
  /\ UNCHANGED <<status, active, clock, strategies, decisions, decider, triggers, crashes,
                 revisions>>

StayRevising == status   \* slip: the mission is left where the revision put it

AfterRevision == "REPLAN_DECISION_RUNNING"

EndRevision ==
  /\ reviser.pc = "ending"
  /\ status' = AfterRevision
  /\ reviser' = Idle
  /\ UNCHANGED <<spec, swarmVars, strategies, plans, decisions, decider, moved, cut,
                 triggers, crashes, staleStrategies, revisions>>

CutRevision ==
  /\ reviser # Idle /\ crashes < MaxCrashes
  /\ reviser' = Idle /\ cut' = TRUE /\ crashes' = crashes + 1
  /\ UNCHANGED <<status, spec, swarmVars, strategies, plans, decisions, decider, moved,
                 triggers, staleStrategies, revisions>>

Revises == BeginRevision \/ WriteRevision \/ EndRevision

-----------------------------------------------------------------------------
ClaimArrives ==   \* or a call run
  /\ reviser.pc \in {"moving", "writing"}
  /\ reviser' = [reviser EXCEPT !.late = TRUE]
  /\ UNCHANGED <<replanVars, staleStrategies, revisions>>

UserTurns ==
  /\ \/ status = "PLAN_OPTIONS_READY" /\ status' = "USER_DECISION_PENDING"
     \/ status = "USER_DECISION_PENDING" /\ status' = "COMPLETE"
  /\ UNCHANGED <<spec, swarmVars, strategies, plans, decisions, decider, moved, cut,
                 triggers, crashes, reviser, staleStrategies, revisions>>

Init ==
  /\ ReplanInit
  /\ reviser = Idle /\ staleStrategies = {} /\ revisions = 0

Replans == ReplanNext /\ UNCHANGED <<reviser, staleStrategies, revisions>>

Next == Replans \/ ReadMission \/ Revises \/ CutRevision \/ ClaimArrives \/ UserTurns

Spec == Init /\ [][Next]_revisionVars

(***************************************************************************)
(* decide and apply, once begun, go on; nobody owes a trigger, a request,  *)
(* the end of an agent or a move of another component.                     *)
(***************************************************************************)
FairSpec == Spec /\ WF_revisionVars(Decides /\ UNCHANGED <<reviser, staleStrategies, revisions>>)
                 /\ WF_revisionVars(Revises)

-----------------------------------------------------------------------------
(***************************************************************************)
(* Types; and a run that is on record as ended is neither at work nor      *)
(* about to be: no stop, re-run or revision ends a run behind the runner's *)
(* back.                                                                   *)
(***************************************************************************)
ReplanTypeOK ==
  /\ SwarmTypeOK /\ EndedIsOver
  /\ strategies \in [Strategies -> StrategyStatus] /\ staleStrategies \subseteq Strategies
  /\ plans \in {"none", "fresh", "stale"}

(***************************************************************************)
(* The loop guard: however often the mission comes back, no more than      *)
(* ReplanMax of its decisions are the model's own, and never more than     *)
(* RepeatMax in a row do the same to the same target (PROCEED apart, which *)
(* is where the guards lead).                                              *)
(***************************************************************************)
LoopBounded ==
  LET own == {i \in DOMAIN decisions : ~decisions[i].forced}
      Repeats(i) == \A j \in i .. i + RepeatMax : Same(decisions[j], decisions[i])
  IN  /\ Cardinality(own) <= ReplanMax
      /\ \A i \in 1 .. Len(decisions) - RepeatMax :
           Repeats(i) => decisions[i].action = "PROCEED_TO_OPTIMIZATION"

(***************************************************************************)
(* Plan options made before a decision or a change of what they rest on    *)
(* are stale once the request that changed it is over, unless it was cut   *)
(* off.                                                                    *)
(***************************************************************************)
StaleBasis ==
  decider = Idle /\ reviser = Idle /\ ~cut => ~(moved /\ plans = "fresh")

(***************************************************************************)
(* Selective staleness: the output an agent shows, that of its latest run, *)
(* was made under the constraints it depends on as they are now, or is     *)
(* marked stale ("The output depends on a constraint that changed since"). *)
(* This holds through any sequence of runs, stops, re-runs and revisions,  *)
(* except for runs a revision has passed over: of an agent that owns a     *)
(* locked component, of one whose latest run had not delivered when the    *)
(* revision read the rows, or launched since with the old mission.         *)
(***************************************************************************)
Agrees(i) ==
  LET values == runs[i].given.values
  IN  \A k \in AgentKeys[runs[i].agent] \cap DOMAIN spec.values :
        k \in DOMAIN values /\ values[k] = spec.values[k]

Shown(a) ==
  {i \in Latest(a) \ {0} : runs[i].row.status = "COMPLETE" /\ ~runs[i].row.stale}

OutputsCurrent ==
  \A a \in Names(Roster) : \A i \in Shown(a) : runs[i].given.excuses = {} => Agrees(i)

(***************************************************************************)
(* A trigger that is answered and a revision that is begun end, and leave  *)
(* the mission somewhere else, unless cut off or failed.                   *)
(***************************************************************************)
ReplanSettles ==
  /\ decider # Idle ~> decider = Idle
  /\ decider.pc = "choosing" ~> status # "REPLAN_DECISION_RUNNING" \/ cut
  /\ status = "MISSION_REVISION_RUNNING" ~> status # "MISSION_REVISION_RUNNING" \/ cut
==============================================================================
