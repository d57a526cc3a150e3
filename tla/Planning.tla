------------------------------ MODULE Planning -------------------------------
(***************************************************************************)
(* From a goal to a call plan: Intake, and after the specification is      *)
(* ready StrategyArchitect.generate_strategies, AgentFactory.design_swarm, *)
(* ResearchService.run_pass and CallStrategy.plan. Nothing in src/ calls   *)
(* these four in turn; the model calls each once, in the order the mission *)
(* status prescribes, with what the mission row then holds.                *)
(*                                                                         *)
(* The planner goes on while requests of the user may still be saving.     *)
(***************************************************************************)
EXTENDS Intake, AgentFactory, Research, CallStrategy

CONSTANTS StrategyAnswers,  \* what the model may propose: sequences of strategies,
          SwarmAnswers,     \* of specialists,
          Finds,            \* of the entities of a search,
          CallAnswers,      \* and a call
          Categories        \* distinct categories in the specification

ASSUME PlanningAssumption ==
  /\ StrategyAnswers \subseteq Seq(StrategyProposal)
  /\ SwarmAnswers \subseteq Seq(AgentSpecProposal)
  /\ \A found \in Finds : found \in Seq({found[i] : i \in DOMAIN found})
                        /\ \A i \in DOMAIN found : IsEntity(found[i])
  /\ \A answer \in CallAnswers :
       /\ answer.factors.mission_impact \in 0 .. 10 /\ answer.factors.value \in 0 .. 10
       /\ answer.factors.redundancy \in 0 .. 10 /\ answer.factors.call_cost \in 0 .. 10

VARIABLES planner,          \* what the planner is doing
          strategies,       \* stored strategies, in order
          team,             \* stored specialists, and the cap they were designed under
          research,         \* the research pass: what it was given and what it stored
          intents,          \* stored call intents
          numberGaps        \* candidates nobody knows the number of

plannerVars == <<planner, strategies, team, research, intents, numberGaps>>
planVars == <<intakeVars, plannerVars>>

NoTeam == [members |-> <<>>, cap |-> 0]
NoResearch == [found |-> <<>>, slots |-> NoConstraints, candidates |-> <<>>,
               shortlist |-> {}, gaps |-> {}]

PlanningInit ==
  /\ IntakeInit
  /\ planner = Idle
  /\ strategies = <<>> /\ team = NoTeam /\ research = NoResearch
  /\ intents = {} /\ numberGaps = {}

-----------------------------------------------------------------------------
(***************************************************************************)
(* What the components make of the answers depends on nothing that         *)
(* changes.                                                                *)
(***************************************************************************)
FirstSets == {FirstSet(answer) : answer \in StrategyAnswers}

SecondSets ==
  {[first |-> set, kept |-> SecondSet(set.kept, set.needed, answer)] :
     set \in FirstSets, answer \in StrategyAnswers}

Teams == {ValidateSwarm(answer) : answer \in SwarmAnswers}

Caps == {CAP_BANDS[i].cap : i \in DOMAIN CAP_BANDS} \cup {CAP_MAX}

ReducedTeams ==
  {[cap |-> cap, members |-> TruncateToCap(members, cap)] : members \in Teams, cap \in Caps}

Searches ==
  {[found |-> found, candidates |-> Deduplicate(Normalized(found), pick)] :
     found \in Finds, pick \in {"first", "last"}}

-----------------------------------------------------------------------------
MissionMoves(status) ==
  /\ IsAllowed(mission.status, status)
  /\ mission' = [mission EXCEPT !.status = status]
  /\ UNCHANGED <<request, granted, overlap, answers, crashes>>

(***************************************************************************)
(* A component is called when the mission awaits it, and moves it first.   *)
(***************************************************************************)
Starts(from, status, state) ==
  /\ planner = Idle /\ mission # NoMission /\ mission.status = from
  /\ MissionMoves(status)
  /\ planner' = state

Works(pc) == planner.pc = pc /\ UNCHANGED intakeVars

(***************************************************************************)
(* The transition at the end of a component, refused if a request has      *)
(* moved the mission in the meantime.                                      *)
(***************************************************************************)
Ends(status, next) ==
  /\ planner.pc = status
  /\ IF IsAllowed(mission.status, status)
     THEN MissionMoves(status) /\ planner' = next
     ELSE UNCHANGED intakeVars /\ planner' = [pc |-> "failed"]
  /\ UNCHANGED <<strategies, team, research, intents, numberGaps>>

-----------------------------------------------------------------------------
(***************************************************************************)
(* generate_strategies                                                     *)
(***************************************************************************)
StartDiscovery ==
  /\ strategies = <<>>
  /\ Starts("MISSION_SPEC_READY", "STRATEGY_DISCOVERY_RUNNING", [pc |-> "discovering"])
  /\ UNCHANGED <<strategies, team, research, intents, numberGaps>>

Enough(kept) ==
  IF Len(kept) < MIN_STRATEGIES THEN [pc |-> "failed"]   \* StrategyGenerationFailed
  ELSE [pc |-> "storing", kept |-> kept]

Discover ==
  /\ Works("discovering")
  /\ \E set \in FirstSets :
       planner' = IF set.needed = 0 THEN Enough(set.kept)
                  ELSE [pc |-> "replacing", first |-> set]
  /\ UNCHANGED <<strategies, team, research, intents, numberGaps>>

Replace ==
  /\ Works("replacing")
  /\ \E set \in SecondSets : set.first = planner.first /\ planner' = Enough(set.kept)
  /\ UNCHANGED <<strategies, team, research, intents, numberGaps>>

StoreStrategies ==
  /\ Works("storing")
  /\ strategies' = planner.kept
  /\ planner' = [pc |-> "STRATEGY_SET_READY"]
  /\ UNCHANGED <<team, research, intents, numberGaps>>

StrategySetReady == Ends("STRATEGY_SET_READY", Idle)

(***************************************************************************)
(* design_swarm                                                            *)
(***************************************************************************)
CapFor(row) ==
  AgentCap(ComplexityScore(Cardinality(DOMAIN row.constraints), Categories, Len(strategies)))

StartDesign ==
  /\ Starts("STRATEGY_SET_READY", "SWARM_DESIGN_RUNNING",
            [pc |-> "designing", cap |-> CapFor(mission)])
  /\ UNCHANGED <<strategies, team, research, intents, numberGaps>>

Hiring(members) == [pc |-> "hiring", cap |-> planner.cap, members |-> members]

Design ==
  /\ Works("designing")
  /\ \E members \in Teams :
       planner' = IF Len(members) > planner.cap THEN [pc |-> "reducing", cap |-> planner.cap]
                  ELSE Hiring(members)
  /\ UNCHANGED <<strategies, team, research, intents, numberGaps>>

Reduce ==
  /\ Works("reducing")
  /\ \E reduced \in ReducedTeams :
       reduced.cap = planner.cap /\ planner' = Hiring(reduced.members)
  /\ UNCHANGED <<strategies, team, research, intents, numberGaps>>

Hire ==
  /\ Works("hiring")
  /\ team' = [members |-> planner.members, cap |-> planner.cap]
  /\ planner' = [pc |-> "SWARM_READY"]
  /\ UNCHANGED <<strategies, research, intents, numberGaps>>

SwarmReady == Ends("SWARM_READY", Idle)

(***************************************************************************)
(* run_pass, with the hard constraints of the specification. It moves      *)
(* nothing: the two moves after it are the caller's.                       *)
(***************************************************************************)
StartResearch ==
  /\ Starts("SWARM_READY", "RESEARCH_RUNNING",
            [pc |-> "researching", slots |-> mission.constraints])
  /\ UNCHANGED <<strategies, team, research, intents, numberGaps>>

RunPass ==
  /\ Works("researching")
  /\ \E search \in Searches :
       LET shortlist == Shortlist(search.candidates, planner.slots)
       IN research' = [found |-> search.found, candidates |-> search.candidates,
                       slots |-> planner.slots, shortlist |-> shortlist,
                       gaps |-> IdentifyGaps(search.candidates, shortlist)]
  /\ planner' = [pc |-> "RESEARCH_REVIEW_RUNNING"]
  /\ UNCHANGED <<strategies, team, intents, numberGaps>>

Reviewed == Ends("RESEARCH_REVIEW_RUNNING", [pc |-> "INFORMATION_GAPS_READY"])
GapsReady == Ends("INFORMATION_GAPS_READY", Idle)

(***************************************************************************)
(* plan. Policy and budget are read before the model proposes, for each    *)
(* candidate with a gap and a number, a call or fails to.                  *)
(***************************************************************************)
StartSelection ==
  /\ Starts("INFORMATION_GAPS_READY", "CALL_SELECTION_RUNNING",
            [pc |-> "selecting", policy |-> mission.policy, budget |-> mission.budget])
  /\ UNCHANGED <<strategies, team, research, intents, numberGaps>>

GapsOf(i) == {gap \in research.gaps : gap[1] = i}
WithGaps == {gap[1] : gap \in research.gaps}
Callable == {i \in WithGaps : research.candidates[i].phone # Nothing}
PhoneNumberGaps == WithGaps \ Callable

(***************************************************************************)
(* _propose, select_calls, _attach_schemas and _persist.                   *)
(***************************************************************************)
Plan ==
  /\ Works("selecting")
  /\ \E proposing \in SUBSET Callable : \E answer \in [proposing -> CallAnswers] :
       LET proposals == {Proposed(i, GapsOf(i), answer[i], planner.policy) : i \in proposing}
       IN \E selected \in Selections(proposals, planner.budget, planner.policy, CallCap) :
          \E withSchema \in WithSchemas(selected) :
            /\ intents' = {Settled(p, selected, withSchema, planner.policy) : p \in proposals}
            /\ planner' = [pc |-> "CALL_PLAN_READY", calls |-> withSchema # {}]
  /\ numberGaps' = PhoneNumberGaps
  /\ UNCHANGED <<strategies, team, research>>

PlanReady ==
  Ends("CALL_PLAN_READY",
       IF planner.calls THEN [pc |-> "planned"] ELSE [pc |-> "REPLAN_DECISION_RUNNING"])

NoCall == Ends("REPLAN_DECISION_RUNNING", [pc |-> "planned"])

(***************************************************************************)
(* The model does not answer, or the process stops: nobody takes the       *)
(* component's work up again. The plan alone survives a model that fails.  *)
(***************************************************************************)
PlannerFails ==
  /\ planner.pc \in {"discovering", "replacing", "designing", "reducing", "researching"}
  /\ UNCHANGED intakeVars
  /\ planner' = [pc |-> "failed"]
  /\ UNCHANGED <<strategies, team, research, intents, numberGaps>>

PlannerCrash ==
  /\ planner.pc \notin {"idle", "failed", "planned"} /\ crashes < MaxCrashes
  /\ crashes' = crashes + 1
  /\ planner' = [pc |-> "failed"]
  /\ UNCHANGED <<mission, request, granted, overlap, answers>>
  /\ UNCHANGED <<strategies, team, research, intents, numberGaps>>

Advances ==
  \/ StartDiscovery \/ Discover \/ Replace \/ StoreStrategies \/ StrategySetReady
  \/ StartDesign \/ Design \/ Reduce \/ Hire \/ SwarmReady
  \/ StartResearch \/ RunPass \/ Reviewed \/ GapsReady
  \/ StartSelection \/ Plan \/ PlanReady \/ NoCall
  \/ PlannerFails

PlanningNext ==
  \/ IntakeNext /\ UNCHANGED plannerVars
  \/ Advances
  \/ PlannerCrash

(***************************************************************************)
(* A request that can go on does. Users may stay away, nothing has to      *)
(* crash, and nothing is assumed of who calls the components.              *)
(***************************************************************************)
PlanningSpec ==
  /\ PlanningInit /\ [][PlanningNext]_planVars
  /\ \A r \in Requests : WF_planVars(Proceed(r) /\ UNCHANGED plannerVars)

-----------------------------------------------------------------------------
(***************************************************************************)
(* Every row is of its type, and what refers to a row refers to one.       *)
(***************************************************************************)
PlanningTypeOK ==
  /\ IntakeTypeOK
  /\ planner.pc \in {"idle", "discovering", "replacing", "storing", "designing", "reducing",
                     "hiring", "researching", "selecting", "planned", "failed"} \cup MissionStatus
  /\ research.shortlist \subseteq DOMAIN research.candidates
  /\ research.gaps \subseteq research.shortlist \X Keys
  /\ \A p \in intents :
       /\ p.gaps # {} /\ p.gaps \subseteq research.gaps
       /\ p.priority \in 0 .. 1000 /\ p.state \in {"PENDING", "BLOCKED", "NOT_REQUESTED"}
  /\ numberGaps \subseteq DOMAIN research.candidates

Awaiting == {p \in intents : p.state = "PENDING"}

(***************************************************************************)
(* What the user permitted when creating the mission is the most the       *)
(* planned calls ever need: over every answer the model gives, every save  *)
(* of a copy and every merge, the policy, the budget, the number of calls  *)
(* put up for approval and their patterns stay within it.                  *)
(***************************************************************************)
GrantNeverWidened ==
  /\ mission # NoMission =>
       /\ Within(mission.policy, granted)
       /\ mission.budget <= granted.max
  /\ Cardinality(Awaiting) <= granted.max /\ Cardinality(Awaiting) <= CallCap
  /\ Awaiting # {} => granted.calls
  /\ (\E p \in Awaiting : p.pattern \in {"NEGOTIATION_ROUND", "FOLLOW_UP", "VERIFICATION"})
       => granted.negotiate

(***************************************************************************)
(* Whatever the model proposes, and after every merge, rejection and       *)
(* truncation, the stored strategies are between the minimum and the       *)
(* maximum and no two duplicate each other, and the stored team fits under *)
(* its cap, needs nobody outside it, and can be run to its end.            *)
(***************************************************************************)
TeamRunnable ==
  /\ strategies # <<>> =>
       Len(strategies) \in MIN_STRATEGIES .. MAX_STRATEGIES /\ Distinct(strategies)
  /\ Len(team.members) <= team.cap
  /\ Runnable(team.members)

(***************************************************************************)
(* From the search results to the gaps nothing is lost: an entity of the   *)
(* batch is behind a candidate, which has its source and all it claims;    *)
(* where the entities behind a shortlisted candidate disagree on a value,  *)
(* or say nothing, there is a gap; and a candidate is excluded only on     *)
(* what one of its entities says.                                          *)
(***************************************************************************)
Behind(c) ==
  {i \in DOMAIN research.found : /\ research.found[i].source \in c.sources
                                 /\ ClaimsOf(research.found[i]) \subseteq c.claims}

Says(e, key) ==
  IF key \in DOMAIN e.stated THEN {e.stated[key]}
  ELSE IF key \in DOMAIN e.attributes THEN {e.attributes[key]} ELSE {}

GapsAccountedFor ==
  LET candidates == research.candidates
      found == research.found
  IN /\ \A i \in DOMAIN found : found[i].source \in Sources =>
          \E j \in DOMAIN candidates : i \in Behind(candidates[j])
     /\ \A j \in research.shortlist, key \in Keys :
          Cardinality(UNION {Says(found[i], key) : i \in Behind(candidates[j])}) # 1
            => <<j, key>> \in research.gaps
     /\ \A j \in DOMAIN candidates \ research.shortlist :
          \E i \in Behind(candidates[j]), s \in DOMAIN research.slots :
            /\ s[1] \in DOMAIN found[i].attributes
            /\ EvaluateConstraint(s[2], research.slots[s].value, found[i].attributes[s[1]]) = "fails"

(***************************************************************************)
(* No number is called twice in one plan: candidates that share a phone    *)
(* are one after deduplicate. The exception: a result that gives the       *)
(* number of one survivor and the name or website of another goes to one   *)
(* of them and leaves the two apart, with one number.                      *)
(***************************************************************************)
Bridged(c, d) ==
  LET found == research.found
  IN \E i \in DOMAIN found, n \in Behind(c) \cup Behind(d) :
       /\ found[i].phone = c.phone /\ found[n].phone # c.phone
       /\ \/ found[n].name = found[i].name
          \/ found[n].site # Nothing /\ found[n].site = found[i].site

OneCallPerNumber ==
  \A p, q \in Awaiting :
    LET c == research.candidates[p.entity]
        d == research.candidates[q.entity]
    IN p.entity # q.entity /\ c.phone = d.phone => Bridged(c, d)

(***************************************************************************)
(* However requests overlap, and whatever the model answers or fails to,   *)
(* a mission does not stay in a status only a running request moves it out *)
(* of, unless a process stopped.                                           *)
(***************************************************************************)
InHand ==
  mission.status \in {"MISSION_CREATED", "GOAL_UNDERSTANDING", "CLARIFICATION_COMPLETE"}

MissionSettles == InHand ~> (~InHand \/ crashes > 0)
=============================================================================
