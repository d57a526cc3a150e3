---------------------------- MODULE MissionTable ----------------------------
(***************************************************************************)
(* The mission status table of orchestrator/state_machine.py.  The module  *)
(* has no state: the components that move a mission use IsAllowed the way  *)
(* MissionStateMachine.propose_transition does, against the persisted      *)
(* status.                                                                 *)
(***************************************************************************)

CallLoop ==
  {"CALL_SELECTION_RUNNING", "CALL_PLAN_READY", "CALL_AUTHORIZATION_PENDING",
   "CALL_AUTHORIZED", "CALL_EXECUTION_RUNNING", "CALL_RESULT_RECEIVED",
   "EVIDENCE_UPDATE_RUNNING", "REPLAN_DECISION_RUNNING"}

TerminalStates == {"COMPLETE", "BLOCKED", "CANCELED"}

MissionStatus ==
  CallLoop \cup TerminalStates \cup
  {"MISSION_CREATED", "GOAL_UNDERSTANDING", "CLARIFICATION_REQUIRED",
   "CLARIFICATION_COMPLETE", "MISSION_SPEC_READY",
   "STRATEGY_DISCOVERY_RUNNING", "STRATEGY_SET_READY", "SWARM_DESIGN_RUNNING",
   "SWARM_READY", "RESEARCH_RUNNING", "RESEARCH_REVIEW_RUNNING",
   "INFORMATION_GAPS_READY", "NEGOTIATION_OR_FOLLOWUP_RUNNING",
   "OPTIMIZATION_RUNNING", "REVIEW_RUNNING", "REVIEW_FAILED", "REVIEW_PASSED",
   "PLAN_OPTIONS_READY", "USER_DECISION_PENDING", "MISSION_REVISION_RUNNING"}

(***************************************************************************)
(* _TABLE: the forward moves, without the aborts.                          *)
(***************************************************************************)
Forward(s) ==
  CASE s = "MISSION_CREATED" -> {"GOAL_UNDERSTANDING"}
    [] s = "GOAL_UNDERSTANDING" -> {"CLARIFICATION_REQUIRED", "MISSION_SPEC_READY"}
    [] s = "CLARIFICATION_REQUIRED" -> {"CLARIFICATION_COMPLETE"}
    [] s = "CLARIFICATION_COMPLETE" -> {"MISSION_SPEC_READY"}
    [] s = "MISSION_SPEC_READY" -> {"STRATEGY_DISCOVERY_RUNNING"}
    [] s = "STRATEGY_DISCOVERY_RUNNING" -> {"STRATEGY_SET_READY"}
    [] s = "STRATEGY_SET_READY" -> {"SWARM_DESIGN_RUNNING"}
    [] s = "SWARM_DESIGN_RUNNING" -> {"SWARM_READY"}
    [] s = "SWARM_READY" -> {"RESEARCH_RUNNING"}
    [] s = "RESEARCH_RUNNING" -> {"RESEARCH_REVIEW_RUNNING"}
    [] s = "RESEARCH_REVIEW_RUNNING" -> {"INFORMATION_GAPS_READY"}
    [] s = "INFORMATION_GAPS_READY" -> {"CALL_SELECTION_RUNNING"}
    [] s = "CALL_SELECTION_RUNNING" -> {"CALL_PLAN_READY"}
    [] s = "CALL_PLAN_READY" -> {"CALL_AUTHORIZATION_PENDING", "REPLAN_DECISION_RUNNING"}
    [] s = "CALL_AUTHORIZATION_PENDING" -> {"CALL_AUTHORIZED", "REPLAN_DECISION_RUNNING"}
    [] s = "CALL_AUTHORIZED" -> {"CALL_EXECUTION_RUNNING"}
    [] s = "CALL_EXECUTION_RUNNING" -> {"CALL_RESULT_RECEIVED"}
    [] s = "CALL_RESULT_RECEIVED" -> {"EVIDENCE_UPDATE_RUNNING"}
    [] s = "EVIDENCE_UPDATE_RUNNING" -> {"REPLAN_DECISION_RUNNING"}
    [] s = "REPLAN_DECISION_RUNNING" ->
         {"NEGOTIATION_OR_FOLLOWUP_RUNNING", "OPTIMIZATION_RUNNING", "RESEARCH_RUNNING",
          "SWARM_DESIGN_RUNNING", "CALL_SELECTION_RUNNING"}
    [] s = "NEGOTIATION_OR_FOLLOWUP_RUNNING" -> {"CALL_SELECTION_RUNNING"}
    [] s = "OPTIMIZATION_RUNNING" -> {"REVIEW_RUNNING"}
    [] s = "REVIEW_RUNNING" -> {"REVIEW_FAILED", "REVIEW_PASSED"}
    [] s = "REVIEW_FAILED" -> {"REPLAN_DECISION_RUNNING"}
    [] s = "REVIEW_PASSED" -> {"PLAN_OPTIONS_READY"}
    [] s = "PLAN_OPTIONS_READY" ->
         {"USER_DECISION_PENDING", "MISSION_REVISION_RUNNING", "COMPLETE"}
    [] s = "USER_DECISION_PENDING" -> {"MISSION_REVISION_RUNNING", "COMPLETE"}
    [] s = "MISSION_REVISION_RUNNING" ->
         {"MISSION_SPEC_READY", "STRATEGY_DISCOVERY_RUNNING", "SWARM_DESIGN_RUNNING",
          "RESEARCH_RUNNING", "CALL_SELECTION_RUNNING", "REPLAN_DECISION_RUNNING",
          "OPTIMIZATION_RUNNING"}
    [] OTHER -> {}

(***************************************************************************)
(* TRANSITIONS: every live status may also be aborted.                     *)
(***************************************************************************)
Transitions(s) ==
  IF s \in TerminalStates THEN {} ELSE Forward(s) \cup {"BLOCKED", "CANCELED"}

IsAllowed(current, proposed) == proposed \in Transitions(current)
=============================================================================
