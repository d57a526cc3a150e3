------------------------------- MODULE Intake -------------------------------
(***************************************************************************)
(* orchestrator/intake.py: a goal becomes a mission with a specification,  *)
(* by way of the questions the user is asked.                              *)
(*                                                                         *)
(* What the model says, its drafts, is any member of Drafts; a text is not *)
(* looked into. A request loads the mission, awaits the model and saves    *)
(* the whole row from its copy: the two are a step each, and what other    *)
(* requests save in between is overwritten, the status included.           *)
(***************************************************************************)
EXTENDS MissionTable, Integers, FiniteSets

CONSTANTS Requests,       \* the HTTP requests at work, one after the other
          Questions,      \* what the model may ask
          Slots,          \* key and operator of a hard constraint
          Constraints,    \* what a constraint may say: value and locked
          Grants,         \* what a user permits when creating the mission
          Drafts,         \* what the model may return
          CallCap,        \* call_max_per_mission
          MaxAnswers,     \* bound: answering requests
          MaxCrashes      \* bound: requests cut off between two steps

ASSUME IntakeAssumption ==
  /\ CallCap \in Nat /\ MaxAnswers \in Nat /\ MaxCrashes \in Nat
  /\ Grants \subseteq [calls : BOOLEAN, negotiate : BOOLEAN, max : Nat]
  /\ \A c \in Constraints : c.locked \in BOOLEAN
  /\ \A d \in Drafts :
       /\ DOMAIN d.constraints \subseteq Slots
       /\ \A s \in DOMAIN d.constraints : d.constraints[s] \in Constraints
       /\ d.critical \subseteq Questions /\ d.minor \subseteq Questions
       /\ DOMAIN d.policy \subseteq {"calls", "negotiate", "max"}
       /\ "max" \in DOMAIN d.policy => d.policy.max \in Nat

VARIABLES mission,        \* the mission row
          request,        \* what each request is doing
          granted,        \* history: what the user permitted
          overlap,        \* history: two requests have been at work at once
          answers,        \* answering requests there were
          crashes         \* requests cut off

intakeVars == <<mission, request, granted, overlap, answers, crashes>>

NoMission == [status |-> "none"]
Idle == [pc |-> "idle"]
NoConstraints == [s \in {} |-> 0]

Least(a, b) == IF a < b THEN a ELSE b

NewMission(policy) ==
  [status |-> "MISSION_CREATED", policy |-> policy, budget |-> 0, specified |-> FALSE,
   asked |-> {}, answered |-> {}, assumed |-> {}, constraints |-> NoConstraints]

Within(narrow, wide) ==
  /\ narrow.calls => wide.calls
  /\ narrow.negotiate => wide.negotiate
  /\ narrow.max <= wide.max

IntakeTypeOK ==
  /\ mission # NoMission =>
       /\ mission.status \in MissionStatus
       /\ mission.answered \subseteq mission.asked /\ mission.asked \subseteq Questions
       /\ mission.assumed \subseteq Questions
       /\ mission.budget \in 0 .. CallCap
       /\ \A s \in DOMAIN mission.constraints : s \in Slots /\ mission.constraints[s] \in Constraints
  /\ \A r \in Requests :
       request[r].pc \in {"idle", "created", "reading", "merging", "CLARIFICATION_REQUIRED",
                          "CLARIFICATION_COMPLETE", "MISSION_SPEC_READY", "BLOCKED"}
  /\ answers \in 0 .. MaxAnswers /\ crashes \in 0 .. MaxCrashes /\ overlap \in BOOLEAN

IntakeInit ==
  /\ mission = NoMission
  /\ request = [r \in Requests |-> Idle]
  /\ granted \in Grants
  /\ overlap = FALSE
  /\ answers = 0 /\ crashes = 0

-----------------------------------------------------------------------------
(***************************************************************************)
(* clamp_authority: a draft's policy has a field only where the model      *)
(* reports one. The four permissions that need calls are one, negotiate.   *)
(***************************************************************************)
Narrow(allowed, proposal, field) ==
  allowed /\ (field \in DOMAIN proposal => proposal[field])

TakeProposal(current, proposal) ==   \* slip: what the model reports is believed
  [current EXCEPT !.calls = IF "calls" \in DOMAIN proposal THEN proposal.calls ELSE @,
                  !.max = IF "max" \in DOMAIN proposal THEN proposal.max ELSE @]

ClampAuthority(current, proposal) ==
  IF DOMAIN proposal = {} THEN current
  ELSE LET calls == Narrow(current.calls, proposal, "calls")
           max == IF "max" \in DOMAIN proposal THEN Least(current.max, proposal.max)
                  ELSE current.max
       IN [calls |-> calls, max |-> IF calls THEN max ELSE 0,
           negotiate |-> calls /\ Narrow(current.negotiate, proposal, "negotiate")]

MergeConstraints(existing, incoming) ==
  [s \in DOMAIN existing \cup DOMAIN incoming |->
     IF s \in DOMAIN existing /\ (s \notin DOMAIN incoming \/ existing[s].locked)
     THEN existing[s] ELSE incoming[s]]

AskAnew(row, draft) ==   \* slip: what was asked before is forgotten
  [row EXCEPT !.asked = draft.critical, !.assumed = @ \cup draft.minor]

(***************************************************************************)
(* _triage: of the questions not asked before, the critical ones are asked *)
(* and the others noted as assumptions.                                    *)
(***************************************************************************)
Triage(row, draft) ==
  [row EXCEPT !.asked = @ \cup draft.critical,
              !.assumed = @ \cup (draft.minor \ row.asked)]

ApplySpec(row, draft) ==
  LET policy == ClampAuthority(row.policy, draft.policy)
  IN [Triage(row, draft) EXCEPT
        !.specified = TRUE,
        !.constraints = MergeConstraints(row.constraints, draft.constraints),
        !.policy = policy,
        !.budget = Least(policy.max, CallCap)]

Pending(row) == row.asked \ row.answered

-----------------------------------------------------------------------------
(***************************************************************************)
(* _save: every column of the row, from the copy of the request.           *)
(***************************************************************************)
Save(row) == mission' = row

Goes(r, state) == request' = [request EXCEPT ![r] = state]

(***************************************************************************)
(* propose_transition to the status a request has yet to reach: validated  *)
(* against the stored row, of which only the status is written.            *)
(***************************************************************************)
Step(r, status, next) ==
  /\ request[r].pc = status
  /\ IF IsAllowed(mission.status, status)
     THEN mission' = [mission EXCEPT !.status = status] /\ Goes(r, next)
     ELSE UNCHANGED mission /\ Goes(r, Idle)   \* IllegalTransition ends the request
  /\ UNCHANGED <<granted, overlap, answers, crashes>>

CreateMission(r) ==
  /\ request[r] = Idle /\ mission = NoMission
  /\ mission' = NewMission(granted)
  /\ Goes(r, [pc |-> "created"])
  /\ UNCHANGED <<granted, overlap, answers, crashes>>

ReceiveGoal(r) ==
  /\ request[r].pc = "created"
  /\ mission' = [mission EXCEPT !.status = "GOAL_UNDERSTANDING"]
  /\ Goes(r, [pc |-> "reading", copy |-> mission'])
  /\ UNCHANGED <<granted, overlap, answers, crashes>>

Understood(r) ==
  /\ request[r].pc = "reading"
  /\ \E draft \in Drafts :
       LET row == ApplySpec(request[r].copy, draft)
       IN /\ Save(row)
          /\ Goes(r, [pc |-> IF row.asked # {} THEN "CLARIFICATION_REQUIRED"
                             ELSE "MISSION_SPEC_READY"])
  /\ UNCHANGED <<granted, overlap, answers, crashes>>

(***************************************************************************)
(* answer_questions up to its await; a blank answer is skipped, so the     *)
(* answers given may be none. Unknown ids and a mission in another status  *)
(* are refused and change nothing.                                         *)
(***************************************************************************)
Answer(r) ==
  /\ request[r] = Idle /\ answers < MaxAnswers
  /\ mission.status = "CLARIFICATION_REQUIRED" /\ mission.specified
  /\ \E given \in SUBSET mission.asked :
       Goes(r, [pc |-> "merging", copy |-> mission, given |-> given])
  /\ answers' = answers + 1
  /\ overlap' = (overlap \/ \E other \in Requests \ {r} : request[other] # Idle)
  /\ UNCHANGED <<mission, granted, crashes>>

Answered(copy, given) == [copy EXCEPT !.answered = @ \cup given]

DoneWhenAnswering(row) == TRUE   \* slip: open questions are not looked for

Done(row) == Pending(row) = {}

Merged(r) ==
  /\ request[r].pc = "merging"
  /\ \E draft \in Drafts :
       LET row == ApplySpec(Answered(request[r].copy, request[r].given), draft)
       IN /\ Save(row)
          /\ Goes(r, IF Done(row) THEN [pc |-> "CLARIFICATION_COMPLETE"] ELSE Idle)
  /\ UNCHANGED <<granted, overlap, answers, crashes>>

(***************************************************************************)
(* _block: the copy is saved, with the blocker, before the transition.     *)
(***************************************************************************)
ModelFails(r) ==
  /\ request[r].pc \in {"reading", "merging"}
  /\ Save(request[r].copy)
  /\ Goes(r, [pc |-> "BLOCKED"])
  /\ UNCHANGED <<granted, overlap, answers, crashes>>

Required(r) == Step(r, "CLARIFICATION_REQUIRED", Idle)

StopAtComplete(r) == Step(r, "CLARIFICATION_COMPLETE", Idle)   \* slip: the second move is left out

Complete(r) == Step(r, "CLARIFICATION_COMPLETE", [pc |-> "MISSION_SPEC_READY"])

SpecReady(r) == Step(r, "MISSION_SPEC_READY", Idle)
Block(r) == Step(r, "BLOCKED", Idle)

(***************************************************************************)
(* The process stops, or the request is cancelled, at one of its awaits.   *)
(***************************************************************************)
Crash(r) ==
  /\ request[r] # Idle /\ crashes < MaxCrashes
  /\ Goes(r, Idle)
  /\ crashes' = crashes + 1
  /\ UNCHANGED <<mission, granted, overlap, answers>>

Proceed(r) ==
  \/ ReceiveGoal(r)
  \/ Understood(r)
  \/ Merged(r)
  \/ ModelFails(r)
  \/ Required(r)
  \/ Complete(r)
  \/ SpecReady(r)
  \/ Block(r)

IntakeNext ==
  \E r \in Requests : CreateMission(r) \/ Answer(r) \/ Proceed(r) \/ Crash(r)

-----------------------------------------------------------------------------
(***************************************************************************)
(* A request that saves over the row it has loaded loses no answer, leaves *)
(* locked constraints alone and only narrows the policy; and as long as    *)
(* there was one request at a time, the specification is ready only with   *)
(* every critical question answered.                                       *)
(***************************************************************************)
LoneSaves(r) ==
  /\ request[r].pc = "merging" /\ mission' # mission
  /\ request'[r] # request[r] /\ request[r].copy = mission

Keeps(old, new) ==
  /\ old.answered \subseteq new.answered /\ old.asked \subseteq new.asked
  /\ \A s \in DOMAIN old.constraints :
       s \in DOMAIN new.constraints
         /\ (old.constraints[s].locked => new.constraints[s] = old.constraints[s])
  /\ Within(new.policy, old.policy)

LoneAnswerKept ==
  [][/\ \A r \in Requests : LoneSaves(r) => Keeps(mission, mission')
     /\ (~overlap' /\ mission'.status = "MISSION_SPEC_READY" /\ mission # mission')
          => Pending(mission') = {}]_intakeVars
=============================================================================
