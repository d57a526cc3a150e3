---------------------------- MODULE PlanningProofs ----------------------------
(***************************************************************************)
(* Theorems about a mission from its goal to its call plan, for any users, *)
(* any grant, any requests that overlap and whatever the model answers.    *)
(*                                                                         *)
(* A request saves the copy of the row it loaded, and the call plan keeps  *)
(* to the policy it read before the model proposed: the invariant says of  *)
(* every such copy, wherever it is held, what it says of the row, that it  *)
(* permits no more than the user granted. The plan is made once, so what   *)
(* it was made from is still stored.                                       *)
(***************************************************************************)
EXTENDS Planning, PlanningLemmas

Policy == [calls : BOOLEAN, negotiate : BOOLEAN, max : Nat]

Row ==
  [status : MissionStatus, policy : Policy, budget : 0 .. CallCap, specified : BOOLEAN,
   asked : SUBSET Questions, answered : SUBSET Questions, assumed : SUBSET Questions,
   constraints : UNION {[slots -> Constraints] : slots \in SUBSET Slots}]

Steps == {"CLARIFICATION_REQUIRED", "CLARIFICATION_COMPLETE", "MISSION_SPEC_READY", "BLOCKED"}

RequestState ==
  [pc : {"idle", "created"} \cup Steps]
  \cup [pc : {"reading"}, copy : Row]
  \cup [pc : {"merging"}, copy : Row, given : SUBSET Questions]

(***************************************************************************)
(* A row of the mission: it permits no more than the user did.             *)
(***************************************************************************)
Sound(row, permitted) ==
  /\ row \in Row /\ row.answered \subseteq row.asked
  /\ Within(row.policy, permitted) /\ row.budget <= permitted.max

(***************************************************************************)
(* The copies of requests, none of them made when the specification was    *)
(* ready.                                                                  *)
(***************************************************************************)
Carries(q, permitted) ==
  /\ q.pc \in {"reading", "merging"} =>
       /\ Sound(q.copy, permitted)
       /\ q.copy.status \in {"GOAL_UNDERSTANDING", "CLARIFICATION_REQUIRED"}
  /\ q.pc = "merging" => q.given \subseteq q.copy.asked

RequestsTyped ==
  /\ granted \in Grants
  /\ mission # NoMission => Sound(mission, granted)
  /\ request \in [Requests -> RequestState]
  /\ \A r \in Requests :
       /\ Carries(request[r], granted)
       /\ request[r] # Idle => mission # NoMission
  /\ overlap \in BOOLEAN /\ answers \in 0 .. MaxAnswers /\ crashes \in 0 .. MaxCrashes

(***************************************************************************)
(* While no two requests have overlapped, one is at work, and one that is  *)
(* done asking left no question open.                                      *)
(***************************************************************************)
OneAtATime ==
  ~overlap =>
    /\ \A r, q \in Requests : request[r] # Idle /\ request[q] # Idle => r = q
    /\ \A r \in Requests :
         request[r].pc \in {"CLARIFICATION_COMPLETE", "MISSION_SPEC_READY"} => Pending(mission) = {}

-----------------------------------------------------------------------------
Planned == {"CALL_PLAN_READY", "REPLAN_DECISION_RUNNING", "planned", "failed"}

PlannerStates ==
  {"idle", "discovering", "replacing", "storing", "designing", "reducing",
   "hiring", "researching", "selecting", "planned", "failed"} \cup MissionStatus

(***************************************************************************)
(* The plan is made from what the planner read, within what was granted.   *)
(***************************************************************************)
IntentTyped(p) ==
  /\ p.gaps # {} /\ p.gaps \subseteq research.gaps
  /\ p.priority \in 0 .. 1000 /\ p.state \in {"PENDING", "BLOCKED", "NOT_REQUESTED"}

PlanTyped ==
  /\ planner.pc \in PlannerStates
  /\ planner.pc = "selecting" =>
       /\ planner.policy \in Policy /\ Within(planner.policy, granted)
       /\ planner.budget \in 0 .. CallCap /\ planner.budget <= granted.max
  /\ research.shortlist \subseteq DOMAIN research.candidates
  /\ research.gaps \subseteq research.shortlist \X Keys
  /\ planner.pc \notin Planned => intents = {} /\ numberGaps = {}
  /\ \A p \in intents : IntentTyped(p)
  /\ numberGaps \subseteq DOMAIN research.candidates

PlanGranted ==
  /\ Cardinality(Awaiting) <= granted.max /\ Cardinality(Awaiting) <= CallCap
  /\ Awaiting # {} => granted.calls
  /\ (\E p \in Awaiting : p.pattern \in {"NEGOTIATION_ROUND", "FOLLOW_UP", "VERIFICATION"})
       => granted.negotiate

PlanningInd == RequestsTyped /\ OneAtATime /\ PlanTyped /\ PlanGranted

-----------------------------------------------------------------------------
(***************************************************************************)
(* What a request makes of a row.                                          *)
(***************************************************************************)
LEMMA LeastIsLess ==
  ASSUME NEW a \in Int, NEW b \in Int
  PROVE  /\ Least(a, b) =< a /\ Least(a, b) =< b
         /\ Least(a, b) \in {a, b}
BY DEF Least

(***************************************************************************)
(* What the model may return is of its type.                               *)
(***************************************************************************)
LEMMA DraftsTyped ==
  ASSUME NEW draft \in Drafts
  PROVE  /\ DOMAIN draft.constraints \subseteq Slots
         /\ \A s \in DOMAIN draft.constraints : draft.constraints[s] \in Constraints
         /\ draft.critical \subseteq Questions /\ draft.minor \subseteq Questions
         /\ "max" \in DOMAIN draft.policy => draft.policy.max \in Nat
BY IntakeAssumption

(***************************************************************************)
(* Clamping only narrows.                                                  *)
(***************************************************************************)
LEMMA ClampNarrows ==
  ASSUME NEW current \in Policy, NEW draft \in Drafts,
         NEW new, new = ClampAuthority(current, draft.policy)
  PROVE  new \in Policy /\ Within(new, current)
<1> DEFINE proposal == draft.policy
           calls == Narrow(current.calls, proposal, "calls")
           negotiate == calls /\ Narrow(current.negotiate, proposal, "negotiate")
           max == IF "max" \in DOMAIN proposal THEN Least(current.max, proposal.max) ELSE current.max
<1>1. current.max \in Nat
  BY DEF Policy
<1>2. max \in Nat /\ max =< current.max
  BY <1>1, DraftsTyped, LeastIsLess
<1>3. calls \in BOOLEAN /\ negotiate \in BOOLEAN
  BY DEF Narrow
<1>4. (calls => current.calls) /\ (negotiate => current.negotiate)
  BY DEF Narrow
<1> DEFINE some == IF calls THEN max ELSE 0
<1>5. some \in Nat /\ some =< current.max
  BY <1>1, <1>2
<1>6. CASE DOMAIN proposal = {}
  BY <1>1, <1>6 DEF ClampAuthority, Within
<1>7. CASE DOMAIN proposal # {}
  <2>1. new = [calls |-> calls, max |-> some, negotiate |-> negotiate]
    BY <1>7 DEF ClampAuthority
  <2> HIDE DEF calls, some, negotiate
  <2> QED
    BY <1>3, <1>4, <1>5, <2>1 DEF Policy, Within
<1> QED
  BY <1>6, <1>7

(***************************************************************************)
(* Applying a draft keeps the row sound and what the user said.            *)
(***************************************************************************)
LEMMA SpecApplied ==
  ASSUME NEW permitted \in Policy, NEW row, Sound(row, permitted), NEW draft \in Drafts,
         NEW new, new = ApplySpec(row, draft)
  PROVE  /\ Sound(new, permitted) /\ Keeps(row, new) /\ new.status = row.status
         /\ new.answered = row.answered
<1> DEFINE policy == ClampAuthority(row.policy, draft.policy)
           constraints == MergeConstraints(row.constraints, draft.constraints)
           budget == Least(policy.max, CallCap)
           asked == row.asked \cup draft.critical
           assumed == row.assumed \cup (draft.minor \ row.asked)
<1>1. row \in Row /\ row.answered \subseteq row.asked /\ row.policy \in Policy
  BY DEF Sound, Row
<1>2. policy \in Policy /\ Within(policy, row.policy)
  BY <1>1, ClampNarrows
<1>3. budget \in 0 .. CallCap /\ budget =< policy.max
  <2>1. policy.max \in Nat /\ CallCap \in Nat
    BY <1>2, IntakeAssumption DEF Policy
  <2> QED
    BY <2>1, LeastIsLess
<1>4. Within(policy, permitted) /\ budget =< permitted.max
  <2>1. policy.max \in Nat /\ row.policy.max \in Nat /\ permitted.max \in Nat /\ budget \in Int
    BY <1>1, <1>2, <1>3 DEF Policy
  <2>2. Within(row.policy, permitted)
    BY DEF Sound
  <2> HIDE DEF policy, budget
  <2>3. policy.max =< permitted.max
    BY <1>2, <2>1, <2>2 DEF Within
  <2> QED
    BY <1>2, <1>3, <2>1, <2>2, <2>3 DEF Within
<1>5. asked \subseteq Questions /\ assumed \subseteq Questions
  BY <1>1, DraftsTyped DEF Row
<1>6. PICK slots \in SUBSET Slots : row.constraints \in [slots -> Constraints]
  BY <1>1 DEF Row
<1>7. DOMAIN row.constraints = slots
  BY <1>6
<1>8. DOMAIN constraints = slots \cup DOMAIN draft.constraints
  BY <1>7 DEF MergeConstraints
<1>9. \A s \in DOMAIN constraints : constraints[s] \in Constraints
  BY <1>6, <1>7, <1>8, DraftsTyped DEF MergeConstraints
<1>10. constraints \in UNION {[set -> Constraints] : set \in SUBSET Slots}
  <2>1. constraints = [s \in DOMAIN constraints |-> constraints[s]]
    BY DEF MergeConstraints
  <2> HIDE DEF constraints
  <2> QED
    BY <1>6, <1>8, <1>9, <2>1, DraftsTyped
<1>11. \A s \in DOMAIN row.constraints :
         /\ s \in DOMAIN constraints
         /\ row.constraints[s].locked => constraints[s] = row.constraints[s]
  BY <1>7, <1>8 DEF MergeConstraints
<1>12. new = [row EXCEPT !.asked = asked, !.assumed = assumed, !.specified = TRUE,
                        !.constraints = constraints, !.policy = policy, !.budget = budget]
  BY <1>1 DEF ApplySpec, Triage, Row
<1> HIDE DEF policy, constraints, budget, asked, assumed
<1>13. /\ new \in Row /\ new.asked = asked /\ new.constraints = constraints
       /\ new.policy = policy /\ new.budget = budget /\ new.status = row.status
       /\ new.answered = row.answered
  <2>1. asked \in SUBSET Questions /\ assumed \in SUBSET Questions
    BY <1>5
  <2>2. new = [status |-> row.status, policy |-> policy, budget |-> budget, specified |-> TRUE,
               asked |-> asked, answered |-> row.answered, assumed |-> assumed,
               constraints |-> constraints]
    BY <1>1, <1>12 DEF Row
  <2>3. row.status \in MissionStatus /\ row.answered \in SUBSET Questions
    BY <1>1 DEF Row
  <2> QED
    BY <1>2, <1>3, <1>10, <2>1, <2>2, <2>3 DEF Row
<1>14. row.asked \subseteq asked
  BY DEF asked
<1>15. Sound(new, permitted)
  BY <1>1, <1>4, <1>13, <1>14 DEF Sound
<1>16. Keeps(row, new)
  BY <1>2, <1>11, <1>13, <1>14 DEF Keeps
<1> QED
  BY <1>13, <1>15, <1>16

(***************************************************************************)
(* Noting answers that were asked for keeps the row sound.                 *)
(***************************************************************************)
LEMMA AnswersNoted ==
  ASSUME NEW permitted, NEW row, Sound(row, permitted), NEW given, given \subseteq row.asked
  PROVE  /\ Sound(Answered(row, given), permitted)
         /\ Answered(row, given).status = row.status
         /\ Answered(row, given).asked = row.asked
         /\ row.answered \subseteq Answered(row, given).answered
         /\ Answered(row, given).constraints = row.constraints
         /\ Answered(row, given).policy = row.policy
<1> DEFINE new == Answered(row, given)
           answered == row.answered \cup given
<1>1. row \in Row
  BY DEF Sound
<1>2. answered \in SUBSET Questions
  BY <1>1 DEF Row
<1>3. new = [row EXCEPT !.answered = answered]
  BY DEF Answered
<1>4. row.answered \subseteq answered /\ (row.answered \subseteq row.asked => answered \subseteq row.asked)
  OBVIOUS
<1> HIDE DEF new, answered
<1>5. /\ new \in Row /\ new.answered = answered /\ new.asked = row.asked /\ new.status = row.status
      /\ new.policy = row.policy /\ new.budget = row.budget /\ new.constraints = row.constraints
  BY <1>1, <1>2, <1>3 DEF Row
<1>6. Sound(new, permitted)
  BY <1>4, <1>5 DEF Sound
<1> QED
  BY <1>4, <1>5, <1>6 DEF new

(***************************************************************************)
(* A move of the mission changes its status alone.                         *)
(***************************************************************************)
LEMMA Moved ==
  ASSUME NEW permitted, NEW row, Sound(row, permitted), NEW status \in MissionStatus
  PROVE  /\ Sound([row EXCEPT !.status = status], permitted)
         /\ Pending([row EXCEPT !.status = status]) = Pending(row)
         /\ [row EXCEPT !.status = status].status = status
<1> DEFINE new == [row EXCEPT !.status = status]
<1>1. row \in Row
  BY DEF Sound
<1>2. /\ new \in Row /\ new.answered = row.answered /\ new.asked = row.asked
      /\ new.policy = row.policy /\ new.budget = row.budget /\ new.status = status
  BY <1>1 DEF Row
<1> HIDE DEF new
<1>3. Sound(new, permitted) /\ Pending(new) = Pending(row)
  BY <1>2 DEF Sound, Pending
<1> QED
  BY <1>2, <1>3 DEF new

(***************************************************************************)
(* No mission is in the status of none.                                    *)
(***************************************************************************)
LEMMA RowIsMission == NoMission.status \notin MissionStatus
BY DEF NoMission, MissionStatus, CallLoop, TerminalStates

(***************************************************************************)
(* What was granted is a policy.                                           *)
(***************************************************************************)
LEMMA GrantTyped ==
  ASSUME RequestsTyped
  PROVE  granted \in Policy
BY IntakeAssumption DEF RequestsTyped, Policy

(***************************************************************************)
(* A sound row is one.                                                     *)
(***************************************************************************)
LEMMA SoundIsMission ==
  ASSUME NEW row, NEW permitted, Sound(row, permitted)
  PROVE  row # NoMission /\ row.status \in MissionStatus
BY RowIsMission DEF Sound, Row

-----------------------------------------------------------------------------
(***************************************************************************)
(* A request that is at work goes on, with a sound copy if it has one.     *)
(***************************************************************************)
LEMMA RequestGoes ==
  ASSUME RequestsTyped, OneAtATime, NEW r \in Requests, request[r] # Idle,
         NEW q \in RequestState, Goes(r, q), Carries(q, granted), Sound(mission', granted),
         ~overlap /\ q.pc \in {"CLARIFICATION_COMPLETE", "MISSION_SPEC_READY"} => Pending(mission') = {},
         UNCHANGED <<granted, overlap, answers>>, crashes' \in 0 .. MaxCrashes
  PROVE  RequestsTyped' /\ OneAtATime'
<1>1. request \in [Requests -> RequestState]
  BY DEF RequestsTyped
<1>2. request' \in [Requests -> RequestState] /\ request'[r] = q
      /\ \A o \in Requests \ {r} : request'[o] = request[o]
  BY <1>1 DEF Goes
<1>3. mission' # NoMission
  BY SoundIsMission
<1>4. ASSUME NEW o \in Requests PROVE Carries(request'[o], granted)
  <2>1. CASE o = r
    BY <1>2, <2>1
  <2>2. CASE o # r
    BY <1>2, <2>2 DEF RequestsTyped
  <2> QED
    BY <2>1, <2>2
<1>5. RequestsTyped'
  BY <1>2, <1>3, <1>4 DEF RequestsTyped
<1>6. ASSUME ~overlap PROVE \A o \in Requests \ {r} : request'[o] = Idle
  BY <1>2, <1>6 DEF OneAtATime
<1>7. OneAtATime'
  <2> SUFFICES ASSUME ~overlap'
               PROVE  /\ \A o, p \in Requests : request'[o] # Idle /\ request'[p] # Idle => o = p
                      /\ \A o \in Requests :
                           request'[o].pc \in {"CLARIFICATION_COMPLETE", "MISSION_SPEC_READY"} =>
                             Pending(mission') = {}
    BY DEF OneAtATime, Pending
  <2>1. \A o \in Requests \ {r} : request'[o] = Idle
    BY <1>6
  <2>2. Idle.pc \notin {"CLARIFICATION_COMPLETE", "MISSION_SPEC_READY"}
    BY DEF Idle
  <2> QED
    BY <1>2, <2>1, <2>2
<1> QED
  BY <1>5, <1>7

(***************************************************************************)
(* A request at work has a mission to work on.                             *)
(***************************************************************************)
LEMMA AtWork ==
  ASSUME RequestsTyped, NEW r \in Requests, request[r] # Idle
  PROVE  Sound(mission, granted) /\ mission # NoMission
BY DEF RequestsTyped

(***************************************************************************)
(* A request is idle exactly when it says so.                              *)
(***************************************************************************)
LEMMA StateOf ==
  ASSUME RequestsTyped, NEW r \in Requests
  PROVE  /\ request[r] \in RequestState /\ Carries(request[r], granted)
         /\ request[r] = Idle <=> request[r].pc = "idle"
<1>1. request[r] \in RequestState
  BY DEF RequestsTyped
<1>2. ASSUME request[r].pc = "idle" PROVE request[r] = Idle
  <2>1. request[r] \in [pc : {"idle", "created"} \cup Steps]
    BY <1>1, <1>2 DEF RequestState
  <2> QED
    BY <1>2, <2>1 DEF Idle
<1>3. Idle.pc = "idle"
  BY DEF Idle
<1> QED
  BY <1>1, <1>2, <1>3 DEF RequestsTyped

(***************************************************************************)
(* The states of a request that hold no copy.                              *)
(***************************************************************************)
LEMMA PlainState ==
  ASSUME NEW pc \in {"idle", "created"} \cup Steps, NEW permitted
  PROVE  /\ [pc |-> pc] \in RequestState /\ Carries([pc |-> pc], permitted)
         /\ [pc |-> pc].pc = pc
<1>1. pc \notin {"reading", "merging"}
  BY DEF Steps
<1> QED
  BY <1>1 DEF RequestState, Carries

(***************************************************************************)
(* A transition of a request leaves the answers alone.                     *)
(***************************************************************************)
LEMMA StepKeeps ==
  ASSUME RequestsTyped, OneAtATime, NEW r \in Requests,
         NEW status \in Steps, NEW next \in {"idle"} \cup Steps, Step(r, status, [pc |-> next]),
         next \in {"CLARIFICATION_COMPLETE", "MISSION_SPEC_READY"} =>
           status \in {"CLARIFICATION_COMPLETE", "MISSION_SPEC_READY"}
  PROVE  RequestsTyped' /\ OneAtATime'
<1>1. request[r].pc = status /\ UNCHANGED <<granted, overlap, answers, crashes>>
  BY DEF Step
<1>2. request[r] # Idle
  BY <1>1 DEF Idle, Steps
<1>3. Sound(mission, granted)
  BY <1>2, AtWork
<1>4. status \in MissionStatus
  BY DEF Steps, MissionStatus, TerminalStates
<1>5. /\ [pc |-> next] \in RequestState /\ Carries([pc |-> next], granted) /\ [pc |-> next].pc = next
      /\ Idle \in RequestState /\ Carries(Idle, granted) /\ Idle.pc = "idle"
  BY PlainState DEF Idle
<1>6. crashes' \in 0 .. MaxCrashes
  BY <1>1 DEF RequestsTyped
<1>7. CASE mission' = [mission EXCEPT !.status = status] /\ Goes(r, [pc |-> next])
  <2>1. Sound(mission', granted) /\ Pending(mission') = Pending(mission)
    BY <1>3, <1>4, <1>7, Moved
  <2>2. ~overlap /\ next \in {"CLARIFICATION_COMPLETE", "MISSION_SPEC_READY"} => Pending(mission') = {}
    BY <1>1, <2>1 DEF OneAtATime
  <2> QED
    BY <1>1, <1>2, <1>5, <1>6, <1>7, <2>1, <2>2, RequestGoes
<1>8. CASE UNCHANGED mission /\ Goes(r, Idle)
  <2>1. Sound(mission', granted)
    BY <1>3, <1>8
  <2> QED
    BY <1>1, <1>2, <1>5, <1>6, <1>8, <2>1, RequestGoes
<1> QED
  BY <1>7, <1>8 DEF Step

(***************************************************************************)
(* The first request creates the mission as it was granted.                *)
(***************************************************************************)
LEMMA CreateKeeps ==
  ASSUME RequestsTyped, OneAtATime, NEW r \in Requests, CreateMission(r)
  PROVE  RequestsTyped' /\ OneAtATime'
<1> DEFINE q == [pc |-> "created"]
<1>1. /\ mission = NoMission /\ mission' = NewMission(granted) /\ Goes(r, q)
      /\ UNCHANGED <<granted, overlap, answers, crashes>>
  BY DEF CreateMission
<1>2. \A o \in Requests : request[o] = Idle
  BY <1>1 DEF RequestsTyped
<1>3. granted \in Policy
  BY GrantTyped
<1>4. Sound(mission', granted)
  <2>1. "MISSION_CREATED" \in MissionStatus
    BY DEF MissionStatus
  <2>2. 0 \in 0 .. CallCap /\ granted.max \in Nat
    BY <1>3, IntakeAssumption DEF Policy
  <2>3. NoConstraints \in UNION {[slots -> Constraints] : slots \in SUBSET Slots}
    <3>1. NoConstraints \in [{} -> Constraints]
      BY DEF NoConstraints
    <3> QED
      BY <3>1
  <2>4. mission' \in Row
    BY <1>1, <1>3, <2>1, <2>2, <2>3 DEF NewMission, Row
  <2>5. /\ mission'.policy = granted /\ mission'.budget = 0
        /\ mission'.answered = {} /\ mission'.asked = {}
    BY <1>1 DEF NewMission
  <2> QED
    BY <2>2, <2>4, <2>5 DEF Sound, Within
<1>5. mission' # NoMission
  BY <1>4, SoundIsMission
<1>6. q \in RequestState /\ Carries(q, granted) /\ q.pc = "created"
  BY PlainState
<1>7. request \in [Requests -> RequestState]
  BY DEF RequestsTyped
<1> HIDE DEF q
<1>8. /\ request' \in [Requests -> RequestState] /\ request'[r] = q
      /\ \A o \in Requests \ {r} : request'[o] = Idle
  BY <1>1, <1>2, <1>6, <1>7 DEF Goes
<1>9. Carries(Idle, granted) /\ Idle.pc = "idle"
  BY PlainState DEF Idle
<1>10. \A o \in Requests : Carries(request'[o], granted)
  BY <1>6, <1>8, <1>9
<1>11. RequestsTyped'
  BY <1>1, <1>4, <1>5, <1>8, <1>10 DEF RequestsTyped
<1>12. OneAtATime'
  BY <1>6, <1>8, <1>9 DEF OneAtATime
<1> QED
  BY <1>11, <1>12

(***************************************************************************)
(* The goal is received: the copy is the row that is saved.                *)
(***************************************************************************)
LEMMA ReceiveKeeps ==
  ASSUME RequestsTyped, OneAtATime, NEW r \in Requests, ReceiveGoal(r)
  PROVE  RequestsTyped' /\ OneAtATime'
<1> DEFINE row == [mission EXCEPT !.status = "GOAL_UNDERSTANDING"]
           q == [pc |-> "reading", copy |-> row]
<1>1. /\ request[r].pc = "created" /\ mission' = row /\ Goes(r, q)
      /\ UNCHANGED <<granted, overlap, answers, crashes>>
  BY DEF ReceiveGoal
<1>2. request[r] # Idle
  BY <1>1 DEF Idle
<1>3. Sound(mission, granted)
  BY <1>2, AtWork
<1>4. Sound(row, granted) /\ row.status = "GOAL_UNDERSTANDING"
  <2>1. "GOAL_UNDERSTANDING" \in MissionStatus
    BY DEF MissionStatus
  <2> QED
    BY <1>3, <2>1, Moved
<1> HIDE DEF row
<1>5. q \in RequestState /\ Carries(q, granted) /\ q.pc = "reading"
  BY <1>4 DEF RequestState, Carries, Sound
<1>6. crashes' \in 0 .. MaxCrashes
  BY <1>1 DEF RequestsTyped
<1> HIDE DEF q
<1> QED
  BY <1>1, <1>2, <1>4, <1>5, <1>6, RequestGoes

(***************************************************************************)
(* The two answers of the model: the copy with the draft applied.          *)
(***************************************************************************)
LEMMA UnderstoodKeeps ==
  ASSUME RequestsTyped, OneAtATime, NEW r \in Requests, Understood(r)
  PROVE  RequestsTyped' /\ OneAtATime'
<1>1. /\ request[r].pc = "reading" /\ UNCHANGED <<granted, overlap, answers, crashes>>
  BY DEF Understood
<1>2. request[r] # Idle /\ Sound(request[r].copy, granted) /\ granted \in Policy
  BY <1>1, StateOf, GrantTyped DEF Idle, Carries
<1>3. crashes' \in 0 .. MaxCrashes
  BY <1>1 DEF RequestsTyped
<1>4. PICK draft \in Drafts :
        LET row == ApplySpec(request[r].copy, draft)
        IN /\ Save(row)
           /\ Goes(r, [pc |-> IF row.asked # {} THEN "CLARIFICATION_REQUIRED"
                              ELSE "MISSION_SPEC_READY"])
  BY DEF Understood
<1> DEFINE row == ApplySpec(request[r].copy, draft)
           pc == IF row.asked # {} THEN "CLARIFICATION_REQUIRED" ELSE "MISSION_SPEC_READY"
<1>5. mission' = row /\ Goes(r, [pc |-> pc])
  BY <1>4 DEF Save
<1>6. Sound(row, granted)
  BY <1>2, SpecApplied
<1>7. pc \in Steps /\ (pc = "MISSION_SPEC_READY" => row.asked = {}) /\ pc # "CLARIFICATION_COMPLETE"
  BY DEF Steps
<1> HIDE DEF pc, row
<1>8. pc \in {"CLARIFICATION_COMPLETE", "MISSION_SPEC_READY"} => Pending(mission') = {}
  BY <1>5, <1>7 DEF Pending
<1>9. [pc |-> pc] \in RequestState /\ Carries([pc |-> pc], granted) /\ [pc |-> pc].pc = pc
  BY <1>7, PlainState
<1> QED
  BY <1>1, <1>2, <1>3, <1>5, <1>6, <1>8, <1>9, RequestGoes

(***************************************************************************)
(* The same for the answers, which the row that is saved keeps.            *)
(***************************************************************************)
LEMMA MergedKeeps ==
  ASSUME RequestsTyped, OneAtATime, NEW r \in Requests, Merged(r)
  PROVE  /\ RequestsTyped' /\ OneAtATime'
         /\ Keeps(request[r].copy, mission') /\ mission'.status = request[r].copy.status
<1> DEFINE copy == request[r].copy
           told == Answered(copy, request[r].given)
<1>1. /\ request[r].pc = "merging" /\ UNCHANGED <<granted, overlap, answers, crashes>>
  BY DEF Merged
<1>2. /\ request[r] # Idle /\ Sound(copy, granted) /\ granted \in Policy
      /\ request[r].given \subseteq copy.asked
  BY <1>1, StateOf, GrantTyped DEF Idle, Carries
<1>3. crashes' \in 0 .. MaxCrashes
  BY <1>1 DEF RequestsTyped
<1>4. PICK draft \in Drafts :
        LET row == ApplySpec(told, draft)
        IN Save(row) /\ Goes(r, IF Done(row) THEN [pc |-> "CLARIFICATION_COMPLETE"] ELSE Idle)
  BY DEF Merged
<1> HIDE DEF told, copy
<1>5. /\ Sound(told, granted) /\ told.status = copy.status /\ told.asked = copy.asked
      /\ copy.answered \subseteq told.answered
      /\ told.constraints = copy.constraints /\ told.policy = copy.policy
  BY <1>2, AnswersNoted DEF told
<1> DEFINE row == ApplySpec(told, draft)
           pc == IF Done(row) THEN "CLARIFICATION_COMPLETE" ELSE "idle"
<1>6. /\ Sound(row, granted) /\ Keeps(told, row) /\ row.status = told.status
      /\ row.answered = told.answered
  BY <1>2, <1>5, SpecApplied
<1>7. mission' = row /\ Goes(r, [pc |-> pc])
  BY <1>4 DEF Save, Idle
<1>8. pc \in {"idle"} \cup Steps /\ (pc \in Steps => Pending(row) = {})
  BY DEF Done, Steps
<1> HIDE DEF pc, row
<1>9. pc \in {"CLARIFICATION_COMPLETE", "MISSION_SPEC_READY"} => Pending(mission') = {}
  BY <1>7, <1>8 DEF Steps
<1>10. [pc |-> pc] \in RequestState /\ Carries([pc |-> pc], granted) /\ [pc |-> pc].pc = pc
  BY <1>8, PlainState
<1>11. RequestsTyped' /\ OneAtATime'
  BY <1>1, <1>2, <1>3, <1>6, <1>7, <1>9, <1>10, RequestGoes
<1>12. Keeps(copy, row)
  BY <1>5, <1>6 DEF Keeps
<1> QED
  BY <1>5, <1>6, <1>7, <1>11, <1>12 DEF copy

(***************************************************************************)
(* The model fails: the copy is saved as it was loaded.                    *)
(***************************************************************************)
LEMMA FailsKeeps ==
  ASSUME RequestsTyped, OneAtATime, NEW r \in Requests, ModelFails(r)
  PROVE  RequestsTyped' /\ OneAtATime' /\ mission' = request[r].copy
<1>1. /\ request[r].pc \in {"reading", "merging"} /\ mission' = request[r].copy
      /\ Goes(r, [pc |-> "BLOCKED"]) /\ UNCHANGED <<granted, overlap, answers, crashes>>
  BY DEF ModelFails, Save
<1>2. request[r] # Idle /\ Sound(mission', granted)
  BY <1>1, StateOf DEF Idle, Carries
<1>3. crashes' \in 0 .. MaxCrashes
  BY <1>1 DEF RequestsTyped
<1>4. /\ [pc |-> "BLOCKED"] \in RequestState /\ Carries([pc |-> "BLOCKED"], granted)
      /\ [pc |-> "BLOCKED"].pc = "BLOCKED"
  BY PlainState DEF Steps
<1> QED
  BY <1>1, <1>2, <1>3, <1>4, RequestGoes

(***************************************************************************)
(* A request is cut off.                                                   *)
(***************************************************************************)
LEMMA CrashKeeps ==
  ASSUME RequestsTyped, OneAtATime, NEW r \in Requests, Crash(r)
  PROVE  RequestsTyped' /\ OneAtATime'
<1>1. /\ request[r] # Idle /\ Goes(r, Idle) /\ crashes < MaxCrashes /\ crashes' = crashes + 1
      /\ UNCHANGED <<mission, granted, overlap, answers>>
  BY DEF Crash
<1>2. Sound(mission', granted)
  BY <1>1, AtWork
<1>3. crashes' \in 0 .. MaxCrashes
  BY <1>1, IntakeAssumption DEF RequestsTyped
<1>4. Idle \in RequestState /\ Carries(Idle, granted) /\ Idle.pc = "idle"
  BY PlainState DEF Idle
<1> QED
  BY <1>1, <1>2, <1>3, <1>4, RequestGoes

(***************************************************************************)
(* An answering request starts: if another is at work they overlap.        *)
(***************************************************************************)
LEMMA AnswerKeeps ==
  ASSUME RequestsTyped, OneAtATime, NEW r \in Requests, Answer(r)
  PROVE  RequestsTyped' /\ OneAtATime'
<1>1. /\ request[r] = Idle /\ answers < MaxAnswers /\ answers' = answers + 1
      /\ mission.status = "CLARIFICATION_REQUIRED"
      /\ overlap' = (overlap \/ \E o \in Requests \ {r} : request[o] # Idle)
      /\ UNCHANGED <<mission, granted, crashes>>
  BY DEF Answer
<1>2. PICK given \in SUBSET mission.asked :
        Goes(r, [pc |-> "merging", copy |-> mission, given |-> given])
  BY DEF Answer
<1> DEFINE q == [pc |-> "merging", copy |-> mission, given |-> given]
<1>3. mission # NoMission /\ Sound(mission, granted)
  BY <1>1 DEF RequestsTyped, NoMission
<1>4. q \in RequestState /\ Carries(q, granted) /\ q.pc = "merging"
  <2>1. mission \in Row /\ given \in SUBSET Questions
    BY <1>3 DEF Sound, Row
  <2> QED
    BY <1>1, <1>3, <2>1 DEF RequestState, Carries
<1>5. request \in [Requests -> RequestState]
  BY DEF RequestsTyped
<1> HIDE DEF q
<1>6. /\ request' \in [Requests -> RequestState] /\ request'[r] = q
      /\ \A o \in Requests \ {r} : request'[o] = request[o]
  BY <1>2, <1>4, <1>5 DEF Goes, q
<1>7. answers' \in 0 .. MaxAnswers /\ overlap' \in BOOLEAN
  BY <1>1, IntakeAssumption DEF RequestsTyped
<1>8. ASSUME NEW o \in Requests PROVE Carries(request'[o], granted)
  <2>1. CASE o = r
    BY <1>4, <1>6, <2>1
  <2>2. CASE o # r
    BY <1>6, <2>2 DEF RequestsTyped
  <2> QED
    BY <2>1, <2>2
<1>9. RequestsTyped'
  BY <1>1, <1>3, <1>6, <1>7, <1>8 DEF RequestsTyped
<1>10. ASSUME ~overlap' PROVE ~overlap /\ \A o \in Requests \ {r} : request'[o] = Idle
  BY <1>1, <1>6, <1>10
<1>11. OneAtATime'
  BY <1>1, <1>4, <1>6, <1>10 DEF OneAtATime, Idle
<1> QED
  BY <1>9, <1>11

(***************************************************************************)
(* Every step of a request.                                                *)
(***************************************************************************)
LEMMA IntakeKeeps ==
  ASSUME RequestsTyped, OneAtATime, IntakeNext
  PROVE  RequestsTyped' /\ OneAtATime'
<1>1. PICK r \in Requests : CreateMission(r) \/ Answer(r) \/ Proceed(r) \/ Crash(r)
  BY DEF IntakeNext
<1>2. CASE Required(r)
  BY <1>2, StepKeeps DEF Required, Steps, Idle
<1>3. CASE Complete(r)
  BY <1>3, StepKeeps DEF Complete, Steps
<1>4. CASE SpecReady(r)
  BY <1>4, StepKeeps DEF SpecReady, Steps, Idle
<1>5. CASE Block(r)
  BY <1>5, StepKeeps DEF Block, Steps, Idle
<1>6. CASE Proceed(r)
  BY <1>2, <1>3, <1>4, <1>5, <1>6, ReceiveKeeps, UnderstoodKeeps, MergedKeeps, FailsKeeps DEF Proceed
<1> QED
  BY <1>1, <1>6, CreateKeeps, AnswerKeeps, CrashKeeps

(***************************************************************************)
(* No request changes what was granted.                                    *)
(***************************************************************************)
LEMMA GrantStays ==
  ASSUME IntakeNext
  PROVE  UNCHANGED granted
<1>1. PICK r \in Requests : CreateMission(r) \/ Answer(r) \/ Proceed(r) \/ Crash(r)
  BY DEF IntakeNext
<1>2. CASE CreateMission(r) \/ Answer(r) \/ Crash(r)
  BY <1>2 DEF CreateMission, Answer, Crash
<1>3. CASE ReceiveGoal(r) \/ Understood(r) \/ Merged(r) \/ ModelFails(r)
  BY <1>3 DEF ReceiveGoal, Understood, Merged, ModelFails
<1>4. CASE Required(r) \/ Complete(r) \/ SpecReady(r) \/ Block(r)
  BY <1>4 DEF Required, Complete, SpecReady, Block, Step
<1> QED
  BY <1>1, <1>2, <1>3, <1>4 DEF Proceed

-----------------------------------------------------------------------------
(***************************************************************************)
(* The planner moves the mission, and nothing a request holds.             *)
(***************************************************************************)
LEMMA NoMoveWithoutMission ==
  ASSUME NEW status \in MissionStatus, status \notin {"BLOCKED", "CANCELED"},
         IsAllowed(mission.status, status)
  PROVE  mission # NoMission
<1>1. Forward(NoMission.status) = {}
  BY DEF NoMission, Forward
<1> QED
  BY <1>1 DEF IsAllowed, Transitions

(***************************************************************************)
(* The mission moves and no row says more than it did.                     *)
(***************************************************************************)
LEMMA MissionMoved ==
  ASSUME RequestsTyped, OneAtATime, NEW status \in MissionStatus,
         status \notin {"BLOCKED", "CANCELED"}, MissionMoves(status)
  PROVE  RequestsTyped' /\ OneAtATime'
<1>1. /\ mission # NoMission /\ mission' = [mission EXCEPT !.status = status]
      /\ UNCHANGED <<request, granted, overlap, answers, crashes>>
  BY NoMoveWithoutMission DEF MissionMoves
<1>2. Sound(mission', granted) /\ Pending(mission') = Pending(mission)
  BY <1>1, Moved DEF RequestsTyped
<1>3. mission' # NoMission
  BY <1>2, SoundIsMission
<1>4. RequestsTyped'
  BY <1>1, <1>2, <1>3 DEF RequestsTyped
<1>5. OneAtATime'
  BY <1>1, <1>2 DEF OneAtATime, Pending
<1> QED
  BY <1>4, <1>5

(***************************************************************************)
(* A step of the planner that leaves research and plan as they are.        *)
(***************************************************************************)
LEMMA PlannerGoes ==
  ASSUME PlanTyped, PlanGranted, planner'.pc \in PlannerStates \ {"selecting"},
         planner.pc \in Planned => planner'.pc \in Planned,
         UNCHANGED <<research, intents, numberGaps, granted>>
  PROVE  PlanTyped' /\ PlanGranted'
<1>1. PlanTyped'
  BY DEF PlanTyped, IntentTyped
<1>2. PlanGranted'
  BY DEF PlanGranted, Awaiting
<1> QED
  BY <1>1, <1>2

(***************************************************************************)
(* Nothing changes for the requests.                                       *)
(***************************************************************************)
LEMMA IntakeUnchanged ==
  ASSUME RequestsTyped, OneAtATime, UNCHANGED intakeVars
  PROVE  RequestsTyped' /\ OneAtATime' /\ UNCHANGED granted
BY DEF intakeVars, RequestsTyped, OneAtATime, Pending

(***************************************************************************)
(* A component starts.                                                     *)
(***************************************************************************)
LEMMA StartKeeps ==
  ASSUME PlanningInd, NEW from, NEW status \in MissionStatus, status \notin {"BLOCKED", "CANCELED"},
         NEW state, Starts(from, status, state), state.pc \in PlannerStates \ {"selecting"},
         UNCHANGED <<research, intents, numberGaps>>
  PROVE  PlanningInd'
<1>1. /\ planner = Idle /\ MissionMoves(status) /\ planner' = state
      /\ RequestsTyped /\ OneAtATime /\ PlanTyped /\ PlanGranted
  BY DEF Starts, PlanningInd
<1>2. RequestsTyped' /\ OneAtATime' /\ UNCHANGED granted
  BY <1>1, MissionMoved DEF MissionMoves
<1>3. planner.pc \notin Planned
  BY <1>1 DEF Idle, Planned
<1> QED
  BY <1>1, <1>2, <1>3, PlannerGoes DEF PlanningInd

(***************************************************************************)
(* A component ends, or its last transition is refused.                    *)
(***************************************************************************)
LEMMA EndKeeps ==
  ASSUME PlanningInd, NEW status \in MissionStatus, status \notin {"BLOCKED", "CANCELED"},
         NEW next, Ends(status, next), next.pc \in PlannerStates \ {"selecting"},
         status \in Planned => next.pc \in Planned
  PROVE  PlanningInd'
<1>1. /\ planner.pc = status /\ UNCHANGED <<research, intents, numberGaps>>
      /\ RequestsTyped /\ OneAtATime /\ PlanTyped /\ PlanGranted
  BY DEF Ends, PlanningInd
<1>2. CASE MissionMoves(status) /\ planner' = next
  <2>1. RequestsTyped' /\ OneAtATime' /\ UNCHANGED granted
    BY <1>1, <1>2, MissionMoved DEF MissionMoves
  <2> QED
    BY <1>1, <1>2, <2>1, PlannerGoes DEF PlanningInd
<1>3. CASE UNCHANGED intakeVars /\ planner' = [pc |-> "failed"]
  <2>1. RequestsTyped' /\ OneAtATime' /\ UNCHANGED granted
    BY <1>1, <1>3, IntakeUnchanged
  <2>2. planner'.pc \in PlannerStates \ {"selecting"} /\ planner'.pc \in Planned
    BY <1>3 DEF PlannerStates, Planned
  <2> QED
    BY <1>1, <2>1, <2>2, PlannerGoes DEF PlanningInd
<1> QED
  BY <1>2, <1>3 DEF Ends

(***************************************************************************)
(* A component works on what it holds itself.                              *)
(***************************************************************************)
LEMMA WorkKeeps ==
  ASSUME PlanningInd, UNCHANGED <<intakeVars, research, intents, numberGaps>>,
         planner'.pc \in PlannerStates \ {"selecting"},
         planner.pc \in Planned => planner'.pc \in Planned
  PROVE  PlanningInd'
<1>1. RequestsTyped' /\ OneAtATime' /\ UNCHANGED granted
  BY IntakeUnchanged DEF PlanningInd
<1> QED
  BY <1>1, PlannerGoes DEF PlanningInd

(***************************************************************************)
(* The research pass is stored, before there is a plan.                    *)
(***************************************************************************)
LEMMA ResearchKeeps ==
  ASSUME PlanningInd, RunPass
  PROVE  PlanningInd'
<1>1. /\ planner.pc = "researching" /\ UNCHANGED intakeVars
      /\ planner' = [pc |-> "RESEARCH_REVIEW_RUNNING"] /\ UNCHANGED <<intents, numberGaps>>
      /\ PlanTyped /\ PlanGranted
  BY DEF RunPass, Works, PlanningInd
<1>2. RequestsTyped' /\ OneAtATime' /\ UNCHANGED granted
  BY <1>1, IntakeUnchanged DEF PlanningInd
<1>3. intents = {} /\ numberGaps = {}
  BY <1>1 DEF PlanTyped, Planned
<1>4. /\ research'.shortlist \subseteq DOMAIN research'.candidates
      /\ research'.gaps \subseteq research'.shortlist \X Keys
  BY DEF RunPass, Shortlist, IdentifyGaps
<1>5. planner'.pc = "RESEARCH_REVIEW_RUNNING" /\ "RESEARCH_REVIEW_RUNNING" \in PlannerStates
  BY <1>1 DEF PlannerStates, MissionStatus
<1>6. PlanTyped'
  BY <1>1, <1>3, <1>4, <1>5 DEF PlanTyped
<1>7. PlanGranted'
  BY <1>1, <1>2 DEF PlanGranted, Awaiting
<1> QED
  BY <1>2, <1>6, <1>7 DEF PlanningInd

(***************************************************************************)
(* Policy and budget are read from the row, which permits no more than was *)
(* granted.                                                                *)
(***************************************************************************)
LEMMA SelectionKeeps ==
  ASSUME PlanningInd, StartSelection
  PROVE  PlanningInd'
<1> DEFINE state == [pc |-> "selecting", policy |-> mission.policy, budget |-> mission.budget]
<1>1. /\ planner = Idle /\ mission # NoMission /\ MissionMoves("CALL_SELECTION_RUNNING")
      /\ planner' = state /\ UNCHANGED <<research, intents, numberGaps>>
      /\ RequestsTyped /\ OneAtATime /\ PlanTyped /\ PlanGranted
  BY DEF StartSelection, Starts, PlanningInd
<1>2. RequestsTyped' /\ OneAtATime' /\ UNCHANGED granted
  <2>1. "CALL_SELECTION_RUNNING" \in MissionStatus
    BY DEF MissionStatus, CallLoop
  <2> QED
    BY <1>1, <2>1, MissionMoved DEF MissionMoves
<1>3. Sound(mission, granted) /\ mission \in Row
  BY <1>1 DEF RequestsTyped, Sound
<1>4. /\ planner'.pc = "selecting" /\ planner'.policy \in Policy /\ Within(planner'.policy, granted)
      /\ planner'.budget \in 0 .. CallCap /\ planner'.budget <= granted.max
  BY <1>1, <1>3 DEF Sound, Row
<1>5. intents = {} /\ numberGaps = {}
  BY <1>1 DEF PlanTyped, Planned, Idle
<1>6. PlanTyped'
  BY <1>1, <1>2, <1>4, <1>5 DEF PlanTyped, PlannerStates
<1>7. PlanGranted'
  BY <1>1, <1>2 DEF PlanGranted, Awaiting
<1> QED
  BY <1>2, <1>6, <1>7 DEF PlanningInd

(***************************************************************************)
(* A set made from the members of a finite one is no larger.               *)
(***************************************************************************)
LEMMA ImageNoLarger ==
  ASSUME NEW S, IsFiniteSet(S), NEW f, f = [x \in S |-> f[x]], NEW T, T \subseteq {f[x] : x \in S}
  PROVE  Cardinality(T) \in Nat /\ Cardinality(T) <= Cardinality(S)
<1> DEFINE image == {f[x] : x \in S}
<1>1. f \in Surjection(S, image)
  BY DEF Surjection
<1>2. IsFiniteSet(image) /\ Cardinality(image) <= Cardinality(S)
  BY <1>1, FS_Surjection
<1> HIDE DEF image
<1>3. IsFiniteSet(T) /\ Cardinality(T) <= Cardinality(image)
  BY <1>2, FS_Subset DEF image
<1> QED
  BY <1>2, <1>3, FS_CardinalityType

(***************************************************************************)
(* No more calls are selected than the budget, the policy and the hard cap *)
(* allow.                                                                  *)
(***************************************************************************)
LEMMA SelectedFew ==
  ASSUME NEW proposals, NEW budget \in 0 .. CallCap, NEW policy \in Policy,
         NEW selected \in Selections(proposals, budget, policy, CallCap)
  PROVE  /\ IsFiniteSet(selected) /\ Cardinality(selected) <= policy.max
         /\ Cardinality(selected) <= CallCap
         /\ \A p \in selected : p \in proposals /\ Worth(p, policy)
<1> DEFINE scored == {i \in proposals : Worth(i, policy)}
           cap == SelectionCap(budget, policy, CallCap)
           n == IF Cardinality(scored) < cap THEN Cardinality(scored) ELSE cap
<1>1. /\ selected \subseteq scored /\ IsFiniteSet(selected) /\ Cardinality(selected) = n
  BY DEF Selections
<1>2. Cardinality(selected) \in Nat
  BY <1>1, FS_CardinalityType
<1>3. policy.max \in Nat /\ CallCap \in Nat
  BY IntakeAssumption DEF Policy
<1>4. cap \in Nat /\ cap <= policy.max /\ cap <= CallCap
  BY <1>3 DEF SelectionCap
<1> HIDE DEF cap
<1>5. Cardinality(selected) <= cap
  <2>1. CASE Cardinality(scored) < cap
    <3>1. Cardinality(selected) < cap
      BY <1>1, <2>1
    <3> QED
      BY <1>2, <1>4, <3>1
  <2>2. CASE ~(Cardinality(scored) < cap)
    <3>1. Cardinality(selected) = cap
      BY <1>1, <2>2
    <3> QED
      BY <1>4, <3>1
  <2> QED
    BY <2>1, <2>2
<1>6. Cardinality(selected) <= policy.max /\ Cardinality(selected) <= CallCap
  BY <1>2, <1>3, <1>4, <1>5
<1> QED
  BY <1>1, <1>6

(***************************************************************************)
(* A priority is clamped.                                                  *)
(***************************************************************************)
LEMMA PriorityBounded ==
  ASSUME NEW answer \in CallAnswers
  PROVE  ComputePriority(answer.factors) \in 0 .. 1000
<1>1. /\ answer.factors.mission_impact \in Int /\ answer.factors.value \in Int
      /\ answer.factors.redundancy \in Int /\ answer.factors.call_cost \in Int
  BY PlanningAssumption
<1> DEFINE n == 25 * answer.factors.mission_impact + 75 * answer.factors.value
                  - 50 * answer.factors.redundancy - 30 * answer.factors.call_cost
<1>2. n \in Int
  <2>1. /\ 25 * answer.factors.mission_impact \in Int /\ 75 * answer.factors.value \in Int
        /\ 50 * answer.factors.redundancy \in Int /\ 30 * answer.factors.call_cost \in Int
    BY <1>1
  <2> QED
    BY <2>1
<1>3. ComputePriority(answer.factors) = Clamp(0, 1000, n)
  BY DEF ComputePriority
<1> HIDE DEF n
<1>4. Clamp(0, 1000, n) \in 0 .. 1000
  BY <1>2 DEF Clamp
<1> QED
  BY <1>3, <1>4

(***************************************************************************)
(* The plan: what is put up for approval was selected, under the policy    *)
(* and the budget that were read.                                          *)
(***************************************************************************)
LEMMA PlanKeeps ==
  ASSUME PlanningInd, Plan
  PROVE  PlanningInd'
<1> DEFINE policy == planner.policy
<1>1. /\ planner.pc = "selecting" /\ UNCHANGED intakeVars
      /\ numberGaps' = PhoneNumberGaps /\ UNCHANGED research
      /\ PlanTyped
  BY DEF Plan, Works, PlanningInd
<1>2. RequestsTyped' /\ OneAtATime' /\ UNCHANGED granted /\ granted \in Policy
  BY <1>1, IntakeUnchanged, GrantTyped DEF PlanningInd
<1>3. /\ policy \in Policy /\ Within(policy, granted)
      /\ planner.budget \in 0 .. CallCap /\ planner.budget <= granted.max
  BY <1>1 DEF PlanTyped
<1>4. PICK proposing \in SUBSET Callable : \E answer \in [proposing -> CallAnswers] :
        LET proposals == {Proposed(i, GapsOf(i), answer[i], policy) : i \in proposing}
        IN \E selected \in Selections(proposals, planner.budget, policy, CallCap) :
           \E withSchema \in WithSchemas(selected) :
             /\ intents' = {Settled(p, selected, withSchema, policy) : p \in proposals}
             /\ planner' = [pc |-> "CALL_PLAN_READY", calls |-> withSchema # {}]
  BY DEF Plan
<1>5. PICK answer \in [proposing -> CallAnswers] :
        LET proposals == {Proposed(i, GapsOf(i), answer[i], policy) : i \in proposing}
        IN \E selected \in Selections(proposals, planner.budget, policy, CallCap) :
           \E withSchema \in WithSchemas(selected) :
             /\ intents' = {Settled(p, selected, withSchema, policy) : p \in proposals}
             /\ planner' = [pc |-> "CALL_PLAN_READY", calls |-> withSchema # {}]
  BY <1>4
<1> DEFINE proposals == {Proposed(i, GapsOf(i), answer[i], policy) : i \in proposing}
<1>6. PICK selected \in Selections(proposals, planner.budget, policy, CallCap) :
        \E withSchema \in WithSchemas(selected) :
          /\ intents' = {Settled(p, selected, withSchema, policy) : p \in proposals}
          /\ planner' = [pc |-> "CALL_PLAN_READY", calls |-> withSchema # {}]
  BY <1>5
<1>7. PICK withSchema \in WithSchemas(selected) :
        /\ intents' = {Settled(p, selected, withSchema, policy) : p \in proposals}
        /\ planner' = [pc |-> "CALL_PLAN_READY", calls |-> withSchema # {}]
  BY <1>6
<1>8. ASSUME NEW p \in proposals
      PROVE  /\ p.gaps # {} /\ p.gaps \subseteq research.gaps /\ p.priority \in 0 .. 1000
             /\ p.pattern \in {"NEGOTIATION_ROUND", "FOLLOW_UP", "VERIFICATION"} => policy.negotiate
  <2>1. PICK i \in proposing : p = Proposed(i, GapsOf(i), answer[i], policy)
    OBVIOUS
  <2>2. i \in WithGaps /\ answer[i] \in CallAnswers
    BY DEF Callable
  <2>3. GapsOf(i) # {} /\ GapsOf(i) \subseteq research.gaps
    BY <2>2 DEF WithGaps, GapsOf
  <2>4. /\ p.gaps = GapsOf(i) /\ p.priority = ComputePriority(answer[i].factors)
        /\ p.pattern = ValidatePattern(answer[i].pattern, policy)
    BY <2>1 DEF Proposed
  <2>5. ValidatePattern(answer[i].pattern, policy) \in {"NEGOTIATION_ROUND", "FOLLOW_UP", "VERIFICATION"}
          => policy.negotiate
    BY DEF ValidatePattern
  <2> QED
    BY <2>2, <2>3, <2>4, <2>5, PriorityBounded
<1> HIDE DEF proposals, policy
<1>9. ASSUME NEW p \in proposals, NEW c, c = Settled(p, selected, withSchema, policy)
      PROVE  /\ c.gaps = p.gaps /\ c.priority = p.priority /\ c.pattern = p.pattern
             /\ c.state \in {"PENDING", "BLOCKED", "NOT_REQUESTED"}
             /\ c.state = "PENDING" => p \in selected
  BY <1>9 DEF Settled
<1>10. \A c \in intents' : IntentTyped(c)
  BY <1>7, <1>8, <1>9 DEF IntentTyped
<1>11. PhoneNumberGaps \subseteq DOMAIN research.candidates
  <2>1. ASSUME NEW gap \in research.gaps PROVE gap[1] \in DOMAIN research.candidates
    BY <1>1 DEF PlanTyped
  <2> QED
    BY <2>1 DEF PhoneNumberGaps, WithGaps
<1>12. planner'.pc = "CALL_PLAN_READY" /\ "CALL_PLAN_READY" \in PlannerStates
  BY <1>7 DEF PlannerStates, MissionStatus, CallLoop
<1>13. PlanTyped'
  BY <1>1, <1>2, <1>10, <1>11, <1>12 DEF PlanTyped, Planned, IntentTyped
<1>14. /\ IsFiniteSet(selected) /\ Cardinality(selected) <= policy.max
       /\ Cardinality(selected) <= CallCap
       /\ \A p \in selected : p \in proposals /\ Worth(p, policy)
  BY <1>3, SelectedFew
<1>15. ASSUME NEW c \in Awaiting'
       PROVE  \E p \in selected : c = Settled(p, selected, withSchema, policy)
  BY <1>7, <1>9 DEF Awaiting
<1>16. Cardinality(Awaiting') <= granted.max /\ Cardinality(Awaiting') <= CallCap
  <2> DEFINE call == [p \in selected |-> Settled(p, selected, withSchema, policy)]
  <2>1. call = [p \in selected |-> call[p]] /\ Awaiting' \subseteq {call[p] : p \in selected}
    BY <1>15
  <2>2. Cardinality(Awaiting') \in Nat /\ Cardinality(Awaiting') <= Cardinality(selected)
    <3> HIDE DEF call
    <3> QED
      BY <1>14, <2>1, ImageNoLarger
  <2>3. /\ Cardinality(selected) \in Nat /\ policy.max \in Nat /\ granted.max \in Nat /\ CallCap \in Nat
        /\ policy.max <= granted.max
    BY <1>2, <1>3, <1>14, IntakeAssumption, FS_CardinalityType DEF Policy, Within
  <2> QED
    BY <1>14, <2>2, <2>3
<1>17. ASSUME NEW c \in Awaiting'
       PROVE  /\ granted.calls
              /\ c.pattern \in {"NEGOTIATION_ROUND", "FOLLOW_UP", "VERIFICATION"} => granted.negotiate
  <2>1. PICK p \in selected : c = Settled(p, selected, withSchema, policy)
    BY <1>15
  <2>2. p \in proposals /\ policy.calls
    BY <1>14 DEF Worth, Blocked
  <2>3. c.pattern = p.pattern
    BY <1>9, <2>1, <2>2
  <2> QED
    BY <1>3, <1>8, <2>2, <2>3 DEF Within, policy
<1>18. PlanGranted'
  BY <1>2, <1>16, <1>17 DEF PlanGranted
<1> QED
  BY <1>2, <1>13, <1>18 DEF PlanningInd

(***************************************************************************)
(* The statuses the planner moves to do not end the mission.               *)
(***************************************************************************)
LEMMA StatusesKnown ==
  {"STRATEGY_DISCOVERY_RUNNING", "STRATEGY_SET_READY", "SWARM_DESIGN_RUNNING", "SWARM_READY",
   "RESEARCH_RUNNING", "RESEARCH_REVIEW_RUNNING", "INFORMATION_GAPS_READY",
   "CALL_SELECTION_RUNNING", "CALL_PLAN_READY", "REPLAN_DECISION_RUNNING"}
    \subseteq MissionStatus \ {"BLOCKED", "CANCELED"}
BY DEF MissionStatus, CallLoop

(***************************************************************************)
(* Every step of the planner.                                              *)
(***************************************************************************)
LEMMA AdvanceKeeps ==
  ASSUME PlanningInd, Advances
  PROVE  PlanningInd'
<1> USE DEF PlannerStates, Planned
<1>1. ASSUME StartDiscovery \/ StartDesign \/ StartResearch PROVE PlanningInd'
  BY <1>1, StartKeeps, StatusesKnown DEF StartDiscovery, StartDesign, StartResearch
<1>2. ASSUME Discover \/ Replace \/ StoreStrategies PROVE PlanningInd'
  <2>1. \A kept : Enough(kept).pc \in {"failed", "storing"}
    BY DEF Enough
  <2>2. CASE Discover
    <3>1. UNCHANGED <<intakeVars, research, intents, numberGaps>> /\ planner.pc = "discovering"
      BY <2>2 DEF Discover, Works
    <3>2. planner'.pc \in {"failed", "storing", "replacing"}
      BY <2>1, <2>2 DEF Discover
    <3> QED
      BY <3>1, <3>2, WorkKeeps
  <2>3. CASE Replace
    <3>1. UNCHANGED <<intakeVars, research, intents, numberGaps>> /\ planner.pc = "replacing"
      BY <2>3 DEF Replace, Works
    <3>2. planner'.pc \in {"failed", "storing"}
      BY <2>1, <2>3 DEF Replace
    <3> QED
      BY <3>1, <3>2, WorkKeeps
  <2>4. CASE StoreStrategies
    <3>1. /\ UNCHANGED <<intakeVars, research, intents, numberGaps>> /\ planner.pc = "storing"
          /\ planner'.pc = "STRATEGY_SET_READY"
      BY <2>4 DEF StoreStrategies, Works
    <3> QED
      BY <3>1, WorkKeeps, StatusesKnown
  <2> QED
    BY <1>2, <2>2, <2>3, <2>4
<1>3. ASSUME Design \/ Reduce \/ Hire PROVE PlanningInd'
  <2>1. \A members : Hiring(members).pc = "hiring"
    BY DEF Hiring
  <2>2. CASE Design
    <3>1. UNCHANGED <<intakeVars, research, intents, numberGaps>> /\ planner.pc = "designing"
      BY <2>2 DEF Design, Works
    <3>2. planner'.pc \in {"reducing", "hiring"}
      BY <2>1, <2>2 DEF Design
    <3> QED
      BY <3>1, <3>2, WorkKeeps
  <2>3. CASE Reduce
    <3>1. UNCHANGED <<intakeVars, research, intents, numberGaps>> /\ planner.pc = "reducing"
      BY <2>3 DEF Reduce, Works
    <3>2. planner'.pc = "hiring"
      BY <2>1, <2>3 DEF Reduce
    <3> QED
      BY <3>1, <3>2, WorkKeeps
  <2>4. CASE Hire
    <3>1. /\ UNCHANGED <<intakeVars, research, intents, numberGaps>> /\ planner.pc = "hiring"
          /\ planner'.pc = "SWARM_READY"
      BY <2>4 DEF Hire, Works
    <3> QED
      BY <3>1, WorkKeeps, StatusesKnown
  <2> QED
    BY <1>3, <2>2, <2>3, <2>4
<1>4. ASSUME StrategySetReady \/ SwarmReady \/ Reviewed \/ GapsReady PROVE PlanningInd'
  <2>1. Idle.pc = "idle"
    BY DEF Idle
  <2> QED
    BY <1>4, <2>1, EndKeeps, StatusesKnown DEF StrategySetReady, SwarmReady, Reviewed, GapsReady
<1>5. ASSUME PlanReady \/ NoCall PROVE PlanningInd'
  BY <1>5, EndKeeps, StatusesKnown DEF PlanReady, NoCall
<1>6. ASSUME PlannerFails PROVE PlanningInd'
  BY <1>6, WorkKeeps DEF PlannerFails
<1> QED
  BY <1>1, <1>2, <1>3, <1>4, <1>5, <1>6, ResearchKeeps, SelectionKeeps, PlanKeeps DEF Advances

(***************************************************************************)
(* The planner is cut off.                                                 *)
(***************************************************************************)
LEMMA PlannerCrashKeeps ==
  ASSUME PlanningInd, PlannerCrash
  PROVE  PlanningInd'
<1>1. /\ planner'.pc = "failed" /\ crashes' = crashes + 1 /\ crashes < MaxCrashes
      /\ UNCHANGED <<mission, request, granted, overlap, answers, research, intents, numberGaps>>
  BY DEF PlannerCrash
<1>2. crashes' \in 0 .. MaxCrashes
  BY <1>1, IntakeAssumption DEF PlanningInd, RequestsTyped
<1>3. RequestsTyped' /\ OneAtATime'
  BY <1>1, <1>2 DEF PlanningInd, RequestsTyped, OneAtATime, Pending
<1>4. planner'.pc \in PlannerStates \ {"selecting"} /\ planner'.pc \in Planned
  BY <1>1 DEF PlannerStates, Planned
<1> QED
  BY <1>1, <1>3, <1>4, PlannerGoes DEF PlanningInd

(***************************************************************************)
(* Every step.                                                             *)
(***************************************************************************)
LEMMA PlanningStep ==
  ASSUME PlanningInd, [PlanningNext]_planVars
  PROVE  PlanningInd'
<1>1. CASE IntakeNext /\ UNCHANGED plannerVars
  <2>1. RequestsTyped' /\ OneAtATime' /\ UNCHANGED granted
    BY <1>1, IntakeKeeps, GrantStays DEF PlanningInd
  <2>2. PlanTyped'
    BY <1>1, <2>1 DEF PlanningInd, PlanTyped, IntentTyped, plannerVars
  <2>3. PlanGranted'
    BY <1>1, <2>1 DEF PlanningInd, PlanGranted, Awaiting, plannerVars
  <2> QED
    BY <2>1, <2>2, <2>3 DEF PlanningInd
<1>2. CASE UNCHANGED planVars
  <2>1. RequestsTyped' /\ OneAtATime' /\ UNCHANGED granted
    BY <1>2, IntakeUnchanged DEF PlanningInd, planVars
  <2>2. PlanTyped'
    BY <1>2, <2>1 DEF PlanningInd, PlanTyped, IntentTyped, plannerVars, planVars
  <2>3. PlanGranted'
    BY <1>2, <2>1 DEF PlanningInd, PlanGranted, Awaiting, plannerVars, planVars
  <2> QED
    BY <2>1, <2>2, <2>3 DEF PlanningInd
<1> QED
  BY <1>1, <1>2, AdvanceKeeps, PlannerCrashKeeps DEF PlanningNext

(***************************************************************************)
(* The invariant holds before the mission is created.                      *)
(***************************************************************************)
LEMMA PlanningStart == PlanningInit => PlanningInd
<1> SUFFICES ASSUME PlanningInit PROVE PlanningInd
  OBVIOUS
<1>1. /\ mission = NoMission /\ request = [r \in Requests |-> Idle] /\ granted \in Grants
      /\ overlap = FALSE /\ answers = 0 /\ crashes = 0
      /\ planner = Idle /\ research = NoResearch /\ intents = {} /\ numberGaps = {}
  BY DEF PlanningInit, IntakeInit
<1>2. Idle \in RequestState /\ Carries(Idle, granted) /\ Idle.pc = "idle"
  BY PlainState DEF Idle
<1>3. RequestsTyped
  <2>1. request \in [Requests -> RequestState] /\ \A r \in Requests : request[r] = Idle
    BY <1>1, <1>2
  <2>2. 0 \in 0 .. MaxAnswers /\ 0 \in 0 .. MaxCrashes
    BY IntakeAssumption
  <2> QED
    BY <1>1, <1>2, <2>1, <2>2 DEF RequestsTyped
<1>4. OneAtATime
  BY <1>1, <1>2 DEF OneAtATime
<1>5. PlanTyped
  BY <1>1, <1>2 DEF PlanTyped, PlannerStates, NoResearch
<1>6. PlanGranted
  <2>1. Awaiting = {} /\ Cardinality({}) = 0
    BY <1>1, FS_EmptySet DEF Awaiting
  <2>2. granted.max \in Nat /\ CallCap \in Nat
    BY <1>3, GrantTyped, IntakeAssumption DEF Policy
  <2> QED
    BY <2>1, <2>2 DEF PlanGranted
<1> QED
  BY <1>3, <1>4, <1>5, <1>6 DEF PlanningInd

(***************************************************************************)
(* The invariant, in every state.                                          *)
(***************************************************************************)
LEMMA AlwaysPlanning == PlanningSpec => []PlanningInd
<1>1. PlanningInd /\ [PlanningNext]_planVars => PlanningInd'
  BY PlanningStep
<1> QED
  BY <1>1, PlanningStart, PTL DEF PlanningSpec

-----------------------------------------------------------------------------
(***************************************************************************)
(* The rows of the mission and of the plan keep their type: the answered   *)
(* questions are among those asked, and every call planned is about a gap  *)
(* research found, of a candidate it stored.                               *)
(***************************************************************************)
THEOREM PlanningTyped == PlanningSpec => []PlanningTypeOK
<1>1. PlanningInd => PlanningTypeOK
  <2> SUFFICES ASSUME PlanningInd PROVE PlanningTypeOK
    OBVIOUS
  <2>1. RequestsTyped /\ PlanTyped
    BY DEF PlanningInd
  <2>2. IntakeTypeOK
    <3>1. ASSUME mission # NoMission
          PROVE  /\ mission.status \in MissionStatus
                 /\ mission.answered \subseteq mission.asked /\ mission.asked \subseteq Questions
                 /\ mission.assumed \subseteq Questions /\ mission.budget \in 0 .. CallCap
                 /\ \A s \in DOMAIN mission.constraints :
                      s \in Slots /\ mission.constraints[s] \in Constraints
      <4>1. mission \in Row /\ mission.answered \subseteq mission.asked
        BY <2>1, <3>1 DEF RequestsTyped, Sound
      <4> QED
        BY <4>1 DEF Row
    <3>2. ASSUME NEW r \in Requests
          PROVE  request[r].pc \in {"idle", "created", "reading", "merging", "CLARIFICATION_REQUIRED",
                                    "CLARIFICATION_COMPLETE", "MISSION_SPEC_READY", "BLOCKED"}
      BY <2>1, StateOf DEF RequestState, Steps
    <3> QED
      BY <2>1, <3>1, <3>2 DEF IntakeTypeOK, RequestsTyped
  <2> QED
    BY <2>1, <2>2 DEF PlanningTypeOK, PlanTyped, IntentTyped, PlannerStates
<1> QED
  BY <1>1, AlwaysPlanning, PTL

(***************************************************************************)
(* Whatever the model answers, and however requests overwrite each other's *)
(* rows, neither the mission nor the calls put up for approval ever need   *)
(* more than the user granted when creating it.                            *)
(***************************************************************************)
THEOREM GrantHolds == PlanningSpec => []GrantNeverWidened
<1>1. PlanningInd => GrantNeverWidened
  BY DEF PlanningInd, RequestsTyped, Sound, PlanGranted, GrantNeverWidened
<1> QED
  BY <1>1, AlwaysPlanning, PTL

(***************************************************************************)
(* The status a request saves is the one it loaded, which is not that the  *)
(* specification is ready; and a lone one loses nothing the user said.     *)
(***************************************************************************)
THEOREM LoneAnswers == PlanningSpec => LoneAnswerKept
<1> DEFINE Kept ==
      /\ \A r \in Requests : LoneSaves(r) => Keeps(mission, mission')
      /\ (~overlap' /\ mission'.status = "MISSION_SPEC_READY" /\ mission # mission')
           => Pending(mission') = {}
<1>1. ASSUME PlanningInd, [PlanningNext]_planVars PROVE [Kept]_intakeVars
  <2>1. RequestsTyped /\ OneAtATime /\ request \in [Requests -> RequestState]
    BY <1>1 DEF PlanningInd, RequestsTyped
  <2>2. OneAtATime'
    BY <1>1, PlanningStep DEF PlanningInd
  <2>3. CASE UNCHANGED mission
    BY <2>3 DEF LoneSaves
  <2>4. ASSUME UNCHANGED request, NEW status \in MissionStatus, status # "MISSION_SPEC_READY",
               mission' = [mission EXCEPT !.status = status], mission # NoMission
        PROVE  Kept
    <3>1. mission'.status = status
      BY <2>1, <2>4, Moved DEF RequestsTyped
    <3> QED
      BY <2>4, <3>1 DEF LoneSaves
  <2>5. ASSUME NEW from, NEW status \in MissionStatus, status # "MISSION_SPEC_READY", NEW state,
               Starts(from, status, state)
        PROVE  Kept
    BY <2>4, <2>5 DEF Starts, MissionMoves
  <2>6. ASSUME NEW status \in MissionStatus \ {"BLOCKED", "CANCELED"}, status # "MISSION_SPEC_READY",
               NEW next, Ends(status, next)
        PROVE  Kept
    <3>1. CASE MissionMoves(status)
      BY <2>4, <2>6, <3>1, NoMoveWithoutMission DEF MissionMoves
    <3>2. CASE UNCHANGED intakeVars
      BY <3>2 DEF intakeVars, LoneSaves
    <3> QED
      BY <2>6, <3>1, <3>2 DEF Ends
  <2>7. CASE Advances
    <3>1. CASE StartDiscovery \/ StartDesign \/ StartResearch \/ StartSelection
      BY <2>5, <3>1, StatusesKnown DEF StartDiscovery, StartDesign, StartResearch, StartSelection
    <3>2. CASE StrategySetReady \/ SwarmReady \/ Reviewed \/ GapsReady \/ PlanReady \/ NoCall
      BY <2>6, <3>2, StatusesKnown DEF StrategySetReady, SwarmReady, Reviewed, GapsReady, PlanReady, NoCall
    <3>3. CASE Discover \/ Replace \/ StoreStrategies \/ Design \/ Reduce \/ Hire \/ RunPass \/ Plan
      BY <3>3 DEF Discover, Replace, StoreStrategies, Design, Reduce, Hire, RunPass, Plan, Works
    <3>4. CASE PlannerFails
      BY <3>4 DEF PlannerFails
    <3> QED
      BY <2>7, <3>1, <3>2, <3>3, <3>4 DEF Advances
  <2>8. CASE PlannerCrash
    BY <2>3, <2>8 DEF PlannerCrash
  <2>9. CASE IntakeNext
    <3>1. PICK r \in Requests : CreateMission(r) \/ Answer(r) \/ Proceed(r) \/ Crash(r)
      BY <2>9 DEF IntakeNext
    <3>2. CASE Answer(r) \/ Crash(r)
      BY <2>3, <3>2 DEF Answer, Crash
    <3> DEFINE Others == \A o \in Requests \ {r} : request'[o] = request[o]
    <3>3. ASSUME NEW q, Goes(r, q) PROVE Others
      BY <2>1, <3>3 DEF Goes
    <3>4. ASSUME Others, request[r].pc # "merging",
                 mission'.status = "MISSION_SPEC_READY" => Pending(mission') = {} \/ overlap'
          PROVE  Kept
      BY <3>4 DEF LoneSaves
    <3> HIDE DEF Others, Kept
    <3>5. CASE CreateMission(r)
      <4>1. Others /\ request[r].pc = "idle" /\ mission'.status = "MISSION_CREATED"
        BY <3>3, <3>5 DEF CreateMission, NewMission, Idle
      <4> QED
        BY <3>4, <4>1
    <3>6. CASE ReceiveGoal(r)
      <4>1. Others /\ request[r].pc = "created" /\ request[r] # Idle
        BY <3>3, <3>6 DEF ReceiveGoal, Idle
      <4>2. mission'.status = "GOAL_UNDERSTANDING"
        <5>1. "GOAL_UNDERSTANDING" \in MissionStatus
          BY DEF MissionStatus
        <5> QED
          BY <2>1, <3>6, <4>1, <5>1, AtWork, Moved DEF ReceiveGoal
      <4> QED
        BY <3>4, <4>1, <4>2
    <3>7. CASE Understood(r)
      <4>1. Others /\ request[r].pc = "reading"
        BY <3>3, <3>7 DEF Understood
      <4>2. PICK draft \in Drafts : mission' = ApplySpec(request[r].copy, draft)
        BY <3>7 DEF Understood, Save
      <4>3. mission'.status # "MISSION_SPEC_READY"
        BY <2>1, <4>1, <4>2, StateOf, GrantTyped, SpecApplied DEF Carries
      <4> QED
        BY <3>4, <4>1, <4>3
    <3>8. CASE Merged(r)
      <4>1. Others /\ request[r].pc = "merging"
        BY <3>3, <3>8 DEF Merged
      <4>2. Keeps(request[r].copy, mission') /\ mission'.status = request[r].copy.status
        BY <2>1, <3>8, MergedKeeps
      <4>3. mission'.status # "MISSION_SPEC_READY"
        BY <2>1, <4>1, <4>2, StateOf DEF Carries
      <4> QED
        BY <4>1, <4>2, <4>3 DEF Kept, LoneSaves, Others
    <3>9. CASE ModelFails(r)
      <4>1. Others /\ request[r].pc \in {"reading", "merging"} /\ mission' = request[r].copy
        BY <3>3, <3>9 DEF ModelFails, Save
      <4>2. mission'.status # "MISSION_SPEC_READY"
        BY <2>1, <4>1, StateOf DEF Carries
      <4> QED
        BY <4>1, <4>2 DEF Kept, LoneSaves, Others
    <3>10. ASSUME NEW status \in Steps, NEW next, Step(r, status, next)
           PROVE  Kept
      <4>1. Others /\ request[r].pc = status /\ overlap' = overlap /\ request[r] # Idle
        BY <3>3, <3>10 DEF Step, Steps, Idle
      <4>2. CASE UNCHANGED mission
        BY <4>2 DEF Kept, LoneSaves
      <4>3. CASE mission' = [mission EXCEPT !.status = status]
        <5>1. status \in MissionStatus
          BY DEF Steps, MissionStatus, TerminalStates
        <5>2. mission'.status = status /\ Pending(mission') = Pending(mission)
          BY <2>1, <4>1, <4>3, <5>1, AtWork, Moved
        <5>3. status = "MISSION_SPEC_READY" /\ ~overlap => Pending(mission) = {}
          BY <2>1, <4>1 DEF OneAtATime
        <5>4. overlap \in BOOLEAN /\ status # "merging"
          BY <2>1 DEF RequestsTyped, Steps
        <5> QED
          BY <3>4, <4>1, <5>2, <5>3, <5>4
      <4> QED
        BY <3>10, <4>2, <4>3 DEF Step
    <3>11. CASE Required(r) \/ Complete(r) \/ SpecReady(r) \/ Block(r)
      BY <3>10, <3>11 DEF Required, Complete, SpecReady, Block, Steps
    <3> QED
      BY <3>1, <3>5, <3>6, <3>7, <3>8, <3>9, <3>11, <3>2 DEF Proceed
  <2>10. CASE UNCHANGED planVars
    BY <2>10 DEF planVars, intakeVars, LoneSaves
  <2> QED
    BY <1>1, <2>7, <2>8, <2>9, <2>10 DEF PlanningNext
<1>2. PlanningInd /\ [PlanningNext]_planVars => [Kept]_intakeVars
  BY <1>1
<1> QED
  BY <1>2, AlwaysPlanning, PTL DEF PlanningSpec, LoneAnswerKept

-----------------------------------------------------------------------------

(***************************************************************************)
(* What may be stored as strategies.                                       *)
(***************************************************************************)
Stored(kept) == Len(kept) \in MIN_STRATEGIES .. MAX_STRATEGIES /\ Distinct(kept)

(***************************************************************************)
(* What may be stored as a team.                                           *)
(***************************************************************************)
Fits(members, cap) ==
  members \in Seq(AgentSpecProposal) /\ Orderly(members) /\ Len(members) <= cap

(***************************************************************************)
(* What a request holds on its way from the strategies to the team. The    *)
(* strategies about to be stored are already distinct and enough, and the  *)
(* team about to be stored is in order and fits the cap that was computed  *)
(* before the model was asked.                                             *)
(***************************************************************************)
TeamInd ==
  /\ planner.pc = "storing" => Stored(planner.kept)
  /\ planner.pc = "replacing" => planner.first \in FirstSets
  /\ planner.pc \in {"designing", "reducing", "hiring"} => planner.cap \in Nat
  /\ planner.pc = "hiring" => Fits(planner.members, planner.cap)
  /\ strategies # <<>> => Stored(strategies)
  /\ Fits(team.members, team.cap)

(***************************************************************************)
(* A team in order can run.                                                *)
(***************************************************************************)
LEMMA TeamShown == TeamInd => TeamRunnable
BY OrderlyRuns DEF TeamInd, TeamRunnable, Fits, Stored

(***************************************************************************)
(* Where a planner holds strategies or a team not yet stored.              *)
(***************************************************************************)
Holding == {"storing", "replacing", "designing", "reducing", "hiring"}

(***************************************************************************)
(* A step that stores nothing and leaves the planner with nothing of the   *)
(* kind.                                                                   *)
(***************************************************************************)
LEMMA HoldsNothing ==
  ASSUME TeamInd, planner'.pc \notin Holding, UNCHANGED <<strategies, team>>
  PROVE  TeamInd'
BY DEF TeamInd, Holding

(***************************************************************************)
(* The cap on a team, from its complexity score, is a number.              *)
(***************************************************************************)
LEMMA CapTyped == \A score : AgentCap(score) \in Nat
<1> SUFFICES ASSUME NEW score PROVE AgentCap(score) \in Nat
  OBVIOUS
<1> DEFINE bands == {i \in DOMAIN CAP_BANDS : score <= CAP_BANDS[i].upper}
<1>1. CAP_MAX \in Nat /\ CAP_BANDS \in Seq([upper : Nat, cap : Nat])
  BY FactoryAssumption
<1>2. /\ Len(CAP_BANDS) \in Nat /\ bands \in SUBSET (1 .. Len(CAP_BANDS))
      /\ \A i \in bands : CAP_BANDS[i].cap \in Nat
  <2>1. Len(CAP_BANDS) \in Nat /\ DOMAIN CAP_BANDS = 1 .. Len(CAP_BANDS)
    BY <1>1
  <2>2. \A i \in DOMAIN CAP_BANDS : CAP_BANDS[i] \in [upper : Nat, cap : Nat]
    <3> DEFINE band == [upper : Nat, cap : Nat]
    <3>1. CAP_BANDS \in Seq(band)
      BY <1>1
    <3> HIDE DEF band
    <3>2. \A i \in DOMAIN CAP_BANDS : CAP_BANDS[i] \in band
      BY <3>1
    <3> QED
      BY <3>2 DEF band
  <2> QED
    BY <2>1, <2>2
<1>3. AgentCap(score) = IF bands = {} THEN CAP_MAX
                        ELSE CAP_BANDS[CHOOSE i \in bands : \A j \in bands : i <= j].cap
  BY DEF AgentCap
<1> HIDE DEF bands
<1>4. bands # {} => \E i \in bands : \A j \in bands : i <= j
  BY <1>2, LeastIs
<1> QED
  BY <1>1, <1>2, <1>3, <1>4

(***************************************************************************)
(* Whatever the model proposes, the first set is of distinct strategies.   *)
(***************************************************************************)
LEMMA FirstStored ==
  ASSUME NEW set \in FirstSets
  PROVE  /\ set.kept \in Seq(StrategyProposal) /\ Len(set.kept) \in 0 .. MAX_STRATEGIES
         /\ Distinct(set.kept) /\ set.needed \in Nat
<1>1. PICK answer \in StrategyAnswers : set = FirstSet(answer)
  BY DEF FirstSets
<1>2. answer \in Seq(StrategyProposal)
  BY PlanningAssumption
<1> QED
  BY <1>1, <1>2, ArchitectAssumption, FirstKept

(***************************************************************************)
(* Too few strategies fail, enough of them are stored.                     *)
(***************************************************************************)
LEMMA EnoughStored ==
  ASSUME NEW kept, Len(kept) \in 0 .. MAX_STRATEGIES, Distinct(kept)
  PROVE  /\ Enough(kept).pc \in {"failed", "storing"}
         /\ Enough(kept).pc = "storing" => Stored(Enough(kept).kept)
BY ArchitectAssumption DEF Enough, Stored

(***************************************************************************)
(* Discovering strategies, with its replacement call.                      *)
(***************************************************************************)
LEMMA DiscoverOrders ==
  ASSUME TeamInd, Discover \/ Replace \/ StoreStrategies
  PROVE  TeamInd'
<1>1. CASE Discover
  <2>1. PICK set \in FirstSets :
          planner' = IF set.needed = 0 THEN Enough(set.kept)
                     ELSE [pc |-> "replacing", first |-> set]
    BY <1>1 DEF Discover
  <2>2. /\ Enough(set.kept).pc \in {"failed", "storing"}
        /\ Enough(set.kept).pc = "storing" => Stored(Enough(set.kept).kept)
    BY FirstStored, EnoughStored
  <2>3. UNCHANGED <<strategies, team>>
    BY <1>1 DEF Discover
  <2>4. CASE set.needed = 0
    BY <2>1, <2>2, <2>3, <2>4 DEF TeamInd
  <2>5. CASE set.needed # 0
    <3>1. planner'.pc = "replacing" /\ planner'.first \in FirstSets
      BY <2>1, <2>5
    <3> QED
      BY <2>3, <3>1 DEF TeamInd, FirstSets
  <2> QED
    BY <2>4, <2>5
<1>2. CASE Replace
  <2>1. planner.first \in FirstSets /\ UNCHANGED <<strategies, team>>
    BY <1>2 DEF Replace, Works, TeamInd
  <2>2. PICK set \in SecondSets : set.first = planner.first /\ planner' = Enough(set.kept)
    BY <1>2 DEF Replace
  <2>3. PICK first \in FirstSets, answer \in StrategyAnswers :
          set = [first |-> first, kept |-> SecondSet(first.kept, first.needed, answer)]
    BY DEF SecondSets
  <2>4. /\ first.kept \in Seq(StrategyProposal) /\ Distinct(first.kept) /\ first.needed \in Nat
    BY FirstStored
  <2>5. answer \in Seq(StrategyProposal)
    BY PlanningAssumption
  <2>6. Len(set.kept) \in 0 .. MAX_STRATEGIES /\ Distinct(set.kept)
    BY <2>3, <2>4, <2>5, ArchitectAssumption, SecondKept
  <2>7. /\ Enough(set.kept).pc \in {"failed", "storing"}
        /\ Enough(set.kept).pc = "storing" => Stored(Enough(set.kept).kept)
    BY <2>6, EnoughStored
  <2> QED
    BY <2>1, <2>2, <2>7 DEF TeamInd
<1>3. CASE StoreStrategies
  <2>1. /\ Stored(planner.kept) /\ strategies' = planner.kept /\ UNCHANGED team
        /\ planner'.pc = "STRATEGY_SET_READY"
    BY <1>3 DEF StoreStrategies, Works, TeamInd
  <2> QED
    BY <2>1 DEF TeamInd
<1> QED
  BY <1>1, <1>2, <1>3

(***************************************************************************)
(* Designing a team, with its reduction to the cap.                        *)
(***************************************************************************)
LEMMA DesignOrders ==
  ASSUME TeamInd, StartDesign \/ Design \/ Reduce \/ Hire
  PROVE  TeamInd'
<1>1. CASE StartDesign
  <2>1. /\ planner'.pc = "designing" /\ planner'.cap = CapFor(mission)
        /\ UNCHANGED <<strategies, team>>
    BY <1>1 DEF StartDesign, Starts
  <2>2. planner'.cap \in Nat
    BY <2>1, CapTyped DEF CapFor
  <2> QED
    BY <2>1, <2>2 DEF TeamInd
<1>2. CASE Design
  <2>1. planner.cap \in Nat /\ UNCHANGED <<strategies, team>>
    BY <1>2 DEF Design, Works, TeamInd
  <2>2. PICK members \in Teams :
          planner' = IF Len(members) > planner.cap THEN [pc |-> "reducing", cap |-> planner.cap]
                     ELSE Hiring(members)
    BY <1>2 DEF Design
  <2>3. PICK answer \in SwarmAnswers : members = ValidateSwarm(answer)
    BY DEF Teams
  <2>4. members \in Seq(AgentSpecProposal) /\ Orderly(members)
    BY <2>3, SwarmOrderly, PlanningAssumption
  <2>5. CASE Len(members) > planner.cap
    BY <2>1, <2>2, <2>5 DEF TeamInd
  <2>6. CASE ~(Len(members) > planner.cap)
    <3>1. planner'.pc = "hiring" /\ planner'.cap = planner.cap /\ planner'.members = members
      BY <2>2, <2>6 DEF Hiring
    <3>2. Len(members) \in Nat
      BY <2>4
    <3>3. Fits(planner'.members, planner'.cap)
      BY <2>1, <2>4, <2>6, <3>1, <3>2 DEF Fits
    <3> QED
      BY <2>1, <3>1, <3>3 DEF TeamInd
  <2> QED
    BY <2>5, <2>6
<1>3. CASE Reduce
  <2>1. planner.cap \in Nat /\ UNCHANGED <<strategies, team>>
    BY <1>3 DEF Reduce, Works, TeamInd
  <2>2. PICK reduced \in ReducedTeams :
          reduced.cap = planner.cap /\ planner' = Hiring(reduced.members)
    BY <1>3 DEF Reduce
  <2>3. PICK members \in Teams, cap \in Caps :
          reduced = [cap |-> cap, members |-> TruncateToCap(members, cap)]
    BY DEF ReducedTeams
  <2>4. PICK answer \in SwarmAnswers : members = ValidateSwarm(answer)
    BY DEF Teams
  <2>5. members \in Seq(AgentSpecProposal) /\ Orderly(members)
    BY <2>4, SwarmOrderly, PlanningAssumption
  <2>6. Fits(reduced.members, planner.cap)
    BY <2>1, <2>2, <2>3, <2>5, TruncateOrderly DEF Fits
  <2>7. planner'.pc = "hiring" /\ planner'.cap = planner.cap /\ planner'.members = reduced.members
    BY <2>2 DEF Hiring
  <2> QED
    BY <2>1, <2>6, <2>7 DEF TeamInd
<1>4. CASE Hire
  <2>1. /\ Fits(planner.members, planner.cap) /\ UNCHANGED strategies
        /\ team' = [members |-> planner.members, cap |-> planner.cap]
        /\ planner'.pc = "SWARM_READY"
    BY <1>4 DEF Hire, Works, TeamInd
  <2> QED
    BY <2>1 DEF TeamInd
<1> QED
  BY <1>1, <1>2, <1>3, <1>4

(***************************************************************************)
(* Every step of the mission keeps it.                                     *)
(***************************************************************************)
LEMMA TeamStep ==
  ASSUME TeamInd, [PlanningNext]_planVars
  PROVE  TeamInd'
<1>1. ASSUME UNCHANGED plannerVars PROVE TeamInd'
  BY <1>1 DEF plannerVars, TeamInd
<1>2. ASSUME StartDiscovery \/ StartResearch \/ StartSelection PROVE TeamInd'
  BY <1>2, HoldsNothing DEF StartDiscovery, StartResearch, StartSelection, Starts, Holding
<1>3. ASSUME RunPass \/ Plan \/ PlannerFails \/ PlannerCrash PROVE TeamInd'
  <2>1. planner'.pc \notin Holding /\ UNCHANGED <<strategies, team>>
    <3>1. CASE RunPass
      BY <3>1 DEF RunPass, Holding
    <3>2. CASE Plan
      <4>1. planner'.pc = "CALL_PLAN_READY" /\ UNCHANGED <<strategies, team>>
        BY <3>2 DEF Plan
      <4> QED
        BY <4>1 DEF Holding
    <3>3. CASE PlannerFails \/ PlannerCrash
      BY <3>3 DEF PlannerFails, PlannerCrash, Holding
    <3> QED
      BY <1>3, <3>1, <3>2, <3>3
  <2> QED
    BY <2>1, HoldsNothing
<1>4. ASSUME NEW status, NEW next, Ends(status, next), next.pc \notin Holding
      PROVE  TeamInd'
  <2>1. planner'.pc \notin Holding /\ UNCHANGED <<strategies, team>>
    BY <1>4 DEF Ends, Holding
  <2> QED
    BY <2>1, HoldsNothing
<1>5. ASSUME StrategySetReady \/ SwarmReady \/ Reviewed \/ GapsReady \/ PlanReady \/ NoCall
      PROVE  TeamInd'
  BY <1>4, <1>5
     DEF StrategySetReady, SwarmReady, Reviewed, GapsReady, PlanReady, NoCall, Idle, Holding
<1> QED
  BY <1>1, <1>2, <1>3, <1>5, DiscoverOrders, DesignOrders DEF PlanningNext, Advances, planVars

(***************************************************************************)
(* A new mission.                                                          *)
(***************************************************************************)
LEMMA TeamStart == PlanningInit => TeamInd
<1> SUFFICES ASSUME PlanningInit PROVE TeamInd
  OBVIOUS
<1>1. planner.pc = "idle" /\ strategies = <<>> /\ team.members = <<>> /\ team.cap = 0
  BY DEF PlanningInit, Idle, NoTeam
<1>2. <<>> \in Seq(AgentSpecProposal) /\ Len(<<>>) <= 0 /\ Names(<<>>) = {}
  BY DEF Names
<1>3. Orderly(<<>>)
  BY <1>2 DEF Orderly, NamesApart
<1> QED
  BY <1>1, <1>2, <1>3 DEF TeamInd, Fits

(***************************************************************************)
(* The team that is stored can run: its members have different names,      *)
(* depend on members only and in no circle, are no more than the cap, and  *)
(* the strategies it works on are distinct and of the number the code      *)
(* requires, whatever the model answered on the way (TeamRunnable).        *)
(***************************************************************************)
THEOREM TeamRuns == PlanningSpec => []TeamRunnable
<1>1. TeamInd /\ [PlanningNext]_planVars => TeamInd'
  BY TeamStep
<1> QED
  BY <1>1, TeamStart, TeamShown, PTL DEF PlanningSpec

(***************************************************************************)
(* The entities behind a candidate.                                        *)
(***************************************************************************)
Supporters(found, c) == {i \in DOMAIN found : Backs(found, i, c)}

(***************************************************************************)
(* What the entities behind a candidate say about a key.                   *)
(***************************************************************************)
Said(found, c, key) == UNION {Says(found[i], key) : i \in Supporters(found, c)}

(***************************************************************************)
(* The claims of a survivor are what the entities behind it say, no less   *)
(* and no more.                                                            *)
(***************************************************************************)
LEMMA ClaimedIsSaid ==
  ASSUME NEW found, Found(found), NEW c, Stems(found, c), NEW key
  PROVE  ValuesClaimed(c, key) = Said(found, c, key)
<1>1. ASSUME NEW i \in DOMAIN found, NEW value
      PROVE  (\E claim \in ClaimsOf(found[i]) : claim.key = key /\ claim.value = value)
               <=> value \in Says(found[i], key)
  <2>1. IsEntity(found[i])
    BY DEF Found
  <2>2. value \in Says(found[i], key) <=>
          IF key \in DOMAIN found[i].stated THEN value = found[i].stated[key]
          ELSE key \in DOMAIN found[i].attributes /\ value = found[i].attributes[key]
    BY DEF Says
  <2> QED
    BY <2>1, <2>2, ClaimsAre
<1>2. ASSUME NEW value \in ValuesClaimed(c, key)
      PROVE  value \in Said(found, c, key)
  <2>1. PICK claim \in c.claims : claim.key = key /\ claim.value = value
    BY <1>2 DEF ValuesClaimed
  <2>2. PICK n \in DOMAIN found : Backs(found, n, c) /\ claim \in ClaimsOf(found[n])
    BY <2>1 DEF Stems
  <2>3. value \in Says(found[n], key) /\ n \in Supporters(found, c)
    BY <1>1, <2>1, <2>2 DEF Supporters
  <2> QED
    BY <2>3 DEF Said
<1>3. ASSUME NEW value \in Said(found, c, key)
      PROVE  value \in ValuesClaimed(c, key)
  <2>1. PICK i \in Supporters(found, c) : value \in Says(found[i], key)
    BY <1>3 DEF Said
  <2>2. i \in DOMAIN found /\ ClaimsOf(found[i]) \subseteq c.claims
    BY <2>1 DEF Supporters, Backs
  <2>3. PICK claim \in ClaimsOf(found[i]) : claim.key = key /\ claim.value = value
    BY <1>1, <2>1, <2>2
  <2>4. claim \in {k \in c.claims : k.key = key} /\ claim.value = value
    BY <2>2, <2>3
  <2> QED
    BY <2>4 DEF ValuesClaimed
<1> QED
  BY <1>2, <1>3

(***************************************************************************)
(* They say finitely many things.                                          *)
(***************************************************************************)
LEMMA SaidFinite ==
  ASSUME NEW found, IsFiniteSet(DOMAIN found), NEW c, NEW key
  PROVE  IsFiniteSet(Said(found, c, key))
<1> DEFINE each == {Says(found[i], key) : i \in Supporters(found, c)}
<1>1. IsFiniteSet(Supporters(found, c))
  BY FS_Subset DEF Supporters
<1>2. IsFiniteSet(each)
  <2> DEFINE f == [i \in Supporters(found, c) |-> Says(found[i], key)]
  <2>1. f \in Surjection(Supporters(found, c), each)
    BY DEF Surjection
  <2> HIDE DEF f, each
  <2> QED
    BY <1>1, <2>1, FS_Surjection
<1>3. ASSUME NEW says \in each PROVE IsFiniteSet(says)
  <2>1. PICK i \in Supporters(found, c) : says = Says(found[i], key)
    BY <1>3
  <2>2. \/ says = {} \/ \E x : says = {x}
    BY <2>1 DEF Says
  <2> QED
    BY <2>2, FS_EmptySet, FS_Singleton
<1>4. IsFiniteSet(UNION each)
  <2> HIDE DEF each
  <2> QED
    BY <1>2, <1>3, FS_UNION
<1> QED
  BY <1>4 DEF Said

(***************************************************************************)
(* A key classified as known is one about which they all say one thing.    *)
(***************************************************************************)
LEMMA KnownIsSaid ==
  ASSUME NEW found, Found(found), IsFiniteSet(DOMAIN found), NEW c, Stems(found, c), NEW key,
         Classify(c, key) = "KNOWN"
  PROVE  Cardinality(Said(found, c, key)) = 1
<1> DEFINE values == ValuesClaimed(c, key)
<1>1. values = Said(found, c, key) /\ IsFiniteSet(values)
  BY ClaimedIsSaid, SaidFinite
<1>2. Cardinality(values) \in Nat /\ (Cardinality(values) = 0 => values = {})
  BY <1>1, FS_CardinalityType, FS_EmptySet
<1>3. key \in DOMAIN c.attributes => values # {}
  <2>1. SUFFICES ASSUME key \in DOMAIN c.attributes PROVE values # {}
    OBVIOUS
  <2>2. PICK n \in DOMAIN found : Backs(found, n, c) /\ key \in DOMAIN found[n].attributes
    BY <2>1 DEF Stems
  <2>3. Says(found[n], key) # {} /\ n \in Supporters(found, c)
    BY <2>2 DEF Says, Supporters
  <2> HIDE DEF values
  <2> QED
    BY <1>1, <2>3 DEF Said
<1>4. /\ ~(Cardinality(values) > 1)
      /\ Cardinality(values) = 1 \/ key \in DOMAIN c.attributes
  BY DEF Classify
<1> HIDE DEF values
<1> QED
  BY <1>1, <1>2, <1>3, <1>4

(***************************************************************************)
(* The research that is stored: every fetched entity is in a candidate,    *)
(* nothing is made up, and shortlist and gaps are those of these           *)
(* candidates.                                                             *)
(***************************************************************************)
Researched ==
  /\ Found(research.found) /\ IsFiniteSet(DOMAIN research.found)
  /\ \E index : Traces(research.found, research.candidates, index)
  /\ \A n \in DOMAIN research.found : research.found[n].source \in Sources =>
       Covers(research.candidates, Candidate(research.found[n]))
  /\ research.shortlist = Shortlist(research.candidates, research.slots)
  /\ research.gaps = IdentifyGaps(research.candidates, research.shortlist)

(***************************************************************************)
(* A call is planned only to a candidate with a number.                    *)
(***************************************************************************)
Called ==
  \A p \in intents : /\ p.entity \in DOMAIN research.candidates
                     /\ research.candidates[p.entity].phone # Nothing

(***************************************************************************)
(* The invariant of research and of the calls planned from it.             *)
(***************************************************************************)
ReviewInd == Researched /\ Called

(***************************************************************************)
(* Being behind a candidate, as the properties and as the lemmas say it.   *)
(***************************************************************************)
LEMMA BehindIs ==
  ASSUME NEW c
  PROVE  Behind(c) = Supporters(research.found, c)
BY DEF Behind, Supporters, Backs

(***************************************************************************)
(* Such research accounts for every gap.                                   *)
(***************************************************************************)
LEMMA GapsShown ==
  ASSUME Researched
  PROVE  GapsAccountedFor
<1> DEFINE found == research.found
           candidates == research.candidates
           slots == research.slots
           Saying(c, key) == UNION {Says(found[i], key) : i \in Behind(c)}
<1>1. PICK index : Traces(found, candidates, index)
  BY DEF Researched
<1>2. Found(found) /\ IsFiniteSet(DOMAIN found) /\ \A j \in DOMAIN candidates : Stems(found, candidates[j])
  BY <1>1 DEF Researched, Traces
<1>3. /\ research.shortlist = Shortlist(candidates, slots)
      /\ research.gaps = IdentifyGaps(candidates, research.shortlist)
  BY DEF Researched
<1>4. ASSUME NEW i \in DOMAIN found, found[i].source \in Sources
      PROVE  \E j \in DOMAIN candidates : i \in Behind(candidates[j])
  <2>1. PICK j \in DOMAIN candidates : Grown(Candidate(found[i]), candidates[j])
    BY <1>4 DEF Researched, Covers
  <2>2. Backs(found, i, candidates[j])
    BY <1>2, <2>1, CandidateBacks
  <2> QED
    BY <2>2, BehindIs DEF Supporters
<1>5. ASSUME NEW j \in research.shortlist, NEW key \in Keys,
             Cardinality(Saying(candidates[j], key)) # 1
      PROVE  <<j, key>> \in research.gaps
  <2>1. j \in DOMAIN candidates
    BY <1>3 DEF Shortlist
  <2>2. Saying(candidates[j], key) = Said(found, candidates[j], key)
    BY BehindIs DEF Said
  <2>3. Cardinality(Said(found, candidates[j], key)) # 1
    BY <1>5, <2>2
  <2> HIDE DEF found, candidates
  <2>4. Classify(candidates[j], key) # "KNOWN"
    BY <1>2, <2>1, <2>3, KnownIsSaid
  <2> QED
    BY <1>3, <2>4 DEF IdentifyGaps
<1>6. ASSUME NEW j \in DOMAIN candidates \ research.shortlist
      PROVE  \E i \in Behind(candidates[j]), s \in DOMAIN slots :
               /\ s[1] \in DOMAIN found[i].attributes
               /\ EvaluateConstraint(s[2], slots[s].value, found[i].attributes[s[1]]) = "fails"
  <2>1. PICK s \in DOMAIN slots : VerdictOn(candidates[j], s, slots) = "fails"
    BY <1>3 DEF Shortlist, Excluded
  <2>2. /\ s[1] \in DOMAIN candidates[j].attributes
        /\ EvaluateConstraint(s[2], slots[s].value, candidates[j].attributes[s[1]]) = "fails"
    BY <2>1 DEF VerdictOn
  <2>3. PICK n \in DOMAIN found :
          /\ Backs(found, n, candidates[j]) /\ s[1] \in DOMAIN found[n].attributes
          /\ found[n].attributes[s[1]] = candidates[j].attributes[s[1]]
    BY <1>2, <2>2 DEF Stems
  <2>4. n \in Behind(candidates[j])
    BY <2>3, BehindIs DEF Supporters
  <2> QED
    BY <2>2, <2>3, <2>4
<1> QED
  BY <1>4, <1>5, <1>6 DEF GapsAccountedFor

(***************************************************************************)
(* Such calls go to different numbers, bridges aside.                      *)
(***************************************************************************)
LEMMA NumbersShown ==
  ASSUME Researched, Called
  PROVE  OneCallPerNumber
<1> DEFINE found == research.found
           candidates == research.candidates
<1>1. PICK index : Traces(found, candidates, index)
  BY DEF Researched
<1>2. SUFFICES ASSUME NEW p \in Awaiting, NEW q \in Awaiting, p.entity # q.entity,
                      candidates[p.entity].phone = candidates[q.entity].phone
               PROVE  Bridged(candidates[p.entity], candidates[q.entity])
  BY DEF OneCallPerNumber
<1> DEFINE c == candidates[p.entity]
           d == candidates[q.entity]
<1>3. /\ p.entity \in DOMAIN candidates /\ c.phone # Nothing
      /\ q.entity \in DOMAIN candidates /\ d.phone # Nothing
  BY DEF Called, Awaiting
<1>4. /\ index[<<"phone", c.phone>>] = p.entity \/ Bridges(found, c)
      /\ index[<<"phone", d.phone>>] = q.entity \/ Bridges(found, d)
  BY <1>1, <1>3 DEF Traces, Numbered
<1>5. Bridges(found, c) \/ Bridges(found, d)
  BY <1>2, <1>4
<1>6. ASSUME NEW s, s \in {c, d}, Bridges(found, s)
      PROVE  Bridged(c, d)
  <2>1. PICK i \in DOMAIN found, n \in DOMAIN found :
          /\ Backs(found, n, s) /\ Alike(found[n], found[i])
          /\ found[i].phone = s.phone /\ found[n].phone # s.phone
    BY <1>6 DEF Bridges
  <2>2. n \in Behind(c) \cup Behind(d) /\ s.phone = c.phone
    BY <1>2, <1>6, <2>1, BehindIs DEF Supporters
  <2>3. /\ found[i].phone = c.phone /\ found[n].phone # c.phone
        /\ \/ found[n].name = found[i].name
           \/ found[n].site # Nothing /\ found[n].site = found[i].site
    BY <2>1, <2>2 DEF Alike
  <2> QED
    BY <2>2, <2>3 DEF Bridged
<1> QED
  BY <1>5, <1>6

(***************************************************************************)
(* Whatever the model extracts, and whichever of several matches a         *)
(* newcomer is merged into, the candidates of a search are traced.         *)
(***************************************************************************)
LEMMA SearchTraced ==
  ASSUME NEW search \in Searches
  PROVE  /\ Found(search.found) /\ IsFiniteSet(DOMAIN search.found)
         /\ \E index : Traces(search.found, search.candidates, index)
         /\ \A n \in DOMAIN search.found : search.found[n].source \in Sources =>
              Covers(search.candidates, Candidate(search.found[n]))
<1>1. PICK found \in Finds, pick \in {"first", "last"} :
        search = [found |-> found, candidates |-> Deduplicate(Normalized(found), pick)]
  BY DEF Searches
<1> DEFINE T == {found[i] : i \in DOMAIN found}
           cands == Normalized(found)
           survivors == Deduplicate(cands, pick)
<1>2. found \in Seq(T) /\ Found(found)
  BY PlanningAssumption DEF Found
<1>3. IsFiniteSet(DOMAIN found)
  <2>1. Len(found) \in Nat /\ DOMAIN found = 1 .. Len(found)
    <3> HIDE DEF T
    <3> QED
      BY <1>2
  <2> QED
    BY <2>1, FS_Interval
<1> HIDE DEF T
<1>4. /\ Presents(found, cands)
      /\ \A n \in DOMAIN found : found[n].source \in Sources =>
           \E k \in DOMAIN cands : cands[k] = Candidate(found[n])
  BY <1>2, NormalizedIs
<1> HIDE DEF cands
<1>5. /\ \E index : Traces(found, survivors, index)
      /\ \A k \in DOMAIN cands : Covers(survivors, cands[k])
  BY <1>2, <1>4, DeduplicatedIs
<1>6. search.found = found /\ search.candidates = survivors
  BY <1>1 DEF cands
<1> HIDE DEF survivors
<1> QED
  BY <1>2, <1>3, <1>4, <1>5, <1>6

(***************************************************************************)
(* Running the research pass. No call is planned yet.                      *)
(***************************************************************************)
LEMMA PassReviewed ==
  ASSUME PlanningInd, RunPass
  PROVE  ReviewInd'
<1>1. intents = {} /\ intents' = {}
  BY DEF RunPass, Works, PlanningInd, PlanTyped, Planned
<1>2. PICK search \in Searches :
        research' = [found |-> search.found, candidates |-> search.candidates,
                     slots |-> planner.slots,
                     shortlist |-> Shortlist(search.candidates, planner.slots),
                     gaps |-> IdentifyGaps(search.candidates,
                                           Shortlist(search.candidates, planner.slots))]
  BY DEF RunPass
<1> DEFINE shortlist == Shortlist(search.candidates, planner.slots)
           gaps == IdentifyGaps(search.candidates, shortlist)
<1>3. /\ research'.found = search.found /\ research'.candidates = search.candidates
      /\ research'.slots = planner.slots /\ research'.shortlist = shortlist
      /\ research'.gaps = gaps
  BY <1>2
<1>4. /\ Found(search.found) /\ IsFiniteSet(DOMAIN search.found)
      /\ \E index : Traces(search.found, search.candidates, index)
      /\ \A n \in DOMAIN search.found : search.found[n].source \in Sources =>
           Covers(search.candidates, Candidate(search.found[n]))
  BY SearchTraced
<1>5. Researched'
  BY <1>3, <1>4 DEF Researched
<1>6. Called'
  BY <1>1 DEF Called
<1> QED
  BY <1>5, <1>6 DEF ReviewInd

(***************************************************************************)
(* Planning calls, to candidates of the shortlist that have a number.      *)
(***************************************************************************)
LEMMA PlanReviewed ==
  ASSUME PlanningInd, ReviewInd, Plan
  PROVE  ReviewInd'
<1>1. UNCHANGED research /\ Researched'
  BY DEF Plan, ReviewInd, Researched
<1>2. PICK proposing \in SUBSET Callable :
        \E answer, selected, withSchema :
          LET proposals == {Proposed(i, GapsOf(i), answer[i], planner.policy) : i \in proposing}
          IN  intents' = {Settled(p, selected, withSchema, planner.policy) : p \in proposals}
  BY DEF Plan
<1>3. ASSUME NEW p \in intents'
      PROVE  p.entity \in Callable
  <2>1. PICK i \in proposing : p.entity = i
    BY <1>2 DEF Settled, Proposed
  <2> QED
    BY <2>1
<1>4. ASSUME NEW i \in Callable
      PROVE  i \in DOMAIN research.candidates /\ research.candidates[i].phone # Nothing
  <2>1. PICK gap \in research.gaps : i = gap[1]
    BY DEF Callable, WithGaps
  <2>2. gap[1] \in research.shortlist
    BY DEF ReviewInd, Researched, IdentifyGaps
  <2>3. research.shortlist \subseteq DOMAIN research.candidates
    BY DEF ReviewInd, Researched, Shortlist
  <2> QED
    BY <2>1, <2>2, <2>3 DEF Callable
<1>5. Called'
  BY <1>1, <1>3, <1>4 DEF Called
<1> QED
  BY <1>1, <1>5 DEF ReviewInd

(***************************************************************************)
(* Every step of the mission keeps it.                                     *)
(***************************************************************************)
LEMMA ReviewStep ==
  ASSUME PlanningInd, ReviewInd, [PlanningNext]_planVars
  PROVE  ReviewInd'
<1>1. ASSUME UNCHANGED <<research, intents>>
      PROVE  ReviewInd'
  BY <1>1 DEF ReviewInd, Researched, Called
<1>2. CASE IntakeNext /\ UNCHANGED plannerVars
  BY <1>1, <1>2 DEF plannerVars
<1>3. CASE StartDiscovery \/ Discover \/ Replace \/ StoreStrategies \/ StrategySetReady
  BY <1>1, <1>3 DEF StartDiscovery, Discover, Replace, StoreStrategies, StrategySetReady, Ends
<1>4. CASE StartDesign \/ Design \/ Reduce \/ Hire \/ SwarmReady
  BY <1>1, <1>4 DEF StartDesign, Design, Reduce, Hire, SwarmReady, Ends
<1>5. CASE StartResearch \/ Reviewed \/ GapsReady \/ StartSelection \/ PlanReady \/ NoCall
  BY <1>1, <1>5 DEF StartResearch, Reviewed, GapsReady, StartSelection, PlanReady, NoCall, Ends
<1>6. CASE PlannerFails \/ PlannerCrash \/ UNCHANGED planVars
  BY <1>1, <1>6 DEF PlannerFails, PlannerCrash, planVars, plannerVars
<1> QED
  BY <1>2, <1>3, <1>4, <1>5, <1>6, PassReviewed, PlanReviewed DEF PlanningNext, Advances

(***************************************************************************)
(* A new mission.                                                          *)
(***************************************************************************)
LEMMA ReviewStart == PlanningInit => ReviewInd
<1> SUFFICES ASSUME PlanningInit PROVE ReviewInd
  OBVIOUS
<1>1. /\ research.found = <<>> /\ research.candidates = <<>> /\ research.shortlist = {}
      /\ research.gaps = {} /\ intents = {}
  BY DEF PlanningInit, NoResearch
<1>2. DOMAIN research.found = {} /\ DOMAIN research.candidates = {}
  BY <1>1
<1>3. Found(research.found) /\ IsFiniteSet(DOMAIN research.found)
  BY <1>2, FS_EmptySet DEF Found
<1>4. Traces(research.found, research.candidates, <<>>)
  <2>1. DOMAIN <<>> = {}
    OBVIOUS
  <2> QED
    BY <1>2, <2>1 DEF Traces, Keyed, Numbered
<1>5. /\ research.shortlist = Shortlist(research.candidates, research.slots)
      /\ research.gaps = IdentifyGaps(research.candidates, research.shortlist)
  BY <1>1, <1>2 DEF Shortlist, IdentifyGaps
<1> QED
  BY <1>1, <1>2, <1>3, <1>4, <1>5 DEF ReviewInd, Researched, Called

(***************************************************************************)
(* It holds throughout.                                                    *)
(***************************************************************************)
LEMMA AlwaysReviewed == PlanningSpec => []ReviewInd
<1>1. PlanningInd /\ ReviewInd /\ [PlanningNext]_planVars => ReviewInd'
  BY ReviewStep
<1> QED
  BY <1>1, ReviewStart, AlwaysPlanning, PTL DEF PlanningSpec

(***************************************************************************)
(* Whatever the model extracts from the pages, no entity with a fetched    *)
(* source is lost, every key its sources are silent or divided on is a gap *)
(* to ask about, and a candidate leaves the shortlist only over what one   *)
(* of the entities behind it says (GapsAccountedFor).                      *)
(***************************************************************************)
THEOREM GapsFound == PlanningSpec => []GapsAccountedFor
<1>1. ReviewInd => GapsAccountedFor
  BY GapsShown DEF ReviewInd
<1> QED
  BY <1>1, AlwaysReviewed, PTL

(***************************************************************************)
(* Two calls wait for approval with one number only where an entity        *)
(* bridges the two candidates, with the name or the site of the one and    *)
(* the number of the other (OneCallPerNumber).                             *)
(***************************************************************************)
THEOREM NumbersApart == PlanningSpec => []OneCallPerNumber
<1>1. ReviewInd => OneCallPerNumber
  BY NumbersShown DEF ReviewInd
<1> QED
  BY <1>1, AlwaysReviewed, PTL
==============================================================================
