------------------------------ MODULE Patterns -------------------------------
(***************************************************************************)
(* calls/patterns.py: one call intent, the runs of PatternRunner on it and *)
(* on the child intents a run creates, and what happens meanwhile:         *)
(* decisions, lapsing approvals, webhooks, the driver of the mission, a    *)
(* restart between any two awaits.                                         *)
(*                                                                         *)
(* A run is one task; the code starts no two on one intent. execute_call   *)
(* is modelled by the steps a pattern can tell apart (CallExecution has    *)
(* all of them): the stored run, the gate, the move of the mission, the    *)
(* dial under the Idempotency-Key, the stored result. The key is the       *)
(* intent and its goal; a goal is the number of context blocks appended to *)
(* it.                                                                     *)
(***************************************************************************)
EXTENDS MissionTable, Integers, SequencesExt

CONSTANTS MaxRecipients,  \* bound: len(intent.recipients)
          Contacts,       \* len(escalation_contacts(candidate)), all new numbers
          Due,            \* options.follow_up_due_at
          MaxTime,        \* bound: time passes MaxTime times; an approval lives for 1
          MaxRounds,      \* bound: runs of a pattern
          MaxApprovals    \* bound: approvals the planner asks for

ASSUME PatternsAssumption ==
  /\ {MaxRecipients, MaxRounds, MaxApprovals} \subseteq Nat \ {0}
  /\ {Contacts, Due, MaxTime} \subseteq Nat

VARIABLES pattern,        \* intent.call_pattern
          recipients,     \* len(intent.recipients)
          allowed,        \* the flag of authority_policy the pattern asks for
          named,          \* options.prior_claim_ids names the prior claim
          mission,        \* mission.status
          children,       \* the child intents stored
          approvals,      \* the approvals of each intent, in order of request
          runs,           \* the stored run of each intent
          remote,         \* the call tasks CALL-E holds, by key
          goal,           \* context blocks in intent.call_goal
          prior,          \* the prior claim of the candidate, by evidence status
          answer,         \* what the call's answers are to the prior claim
          foundIn,        \* (history) the run that had read the supported prior claim by then
          escalated,      \* len(pattern_progress["escalated_phone_hashes"])
          jobs,           \* follow-up jobs
          progress,       \* pattern_progress["status"]
          reported,       \* the verdict in the last recorded outcome
          runner,         \* where the run stands
          now, rounds

world == <<approvals, mission, now>>
intentRow == <<goal, escalated, progress, reported>>
claims == <<prior, answer, foundIn>>
callRows == <<runs, remote, claims>>
options == <<pattern, recipients, allowed, named>>
patternVars == <<options, world, children, callRows, intentRow, jobs, runner, rounds>>

CallPattern ==
  {"ONE_SHOT", "FAN_OUT", "CASCADE", "NEGOTIATION_ROUND", "CLARIFICATION",
   "VERIFICATION", "FOLLOW_UP", "ESCALATION", "HUMAN_GATE"}

Policed == {"NEGOTIATION_ROUND", "VERIFICATION", "FOLLOW_UP", "ESCALATION"}
ReadsClaims == {"NEGOTIATION_ROUND", "CLARIFICATION", "VERIFICATION"}

Intent == <<"intent", 0>>
Step(n) == <<"step", n>>
Escalation(n) == <<"escalation", n>>
Intents ==
  {Intent} \cup {Step(n) : n \in 1 .. MaxRecipients} \cup {Escalation(n) : n \in 1 .. Contacts}
Key(i) == [intent |-> i, goal |-> IF i = Intent THEN goal ELSE 0]

Approval == [status : {"PENDING", "APPROVED", "REJECTED"}, expires : 0 .. MaxTime + 1]
Usable(a) == a.status = "APPROVED" /\ a.expires > now
LatestUsable(i) == approvals[i] # <<>> /\ Usable(Last(approvals[i]))

Supported == {"PHONE_SUPPORTED", "MULTI_SOURCE_SUPPORTED"}
Finished == {"passed", "failed"}

Idle == [pc |-> "idle"]
RunnerState ==
  [pc : {"handle", "step", "ask", "note", "call", "dial", "store", "returned", "mark", "record"},
   intent : Intents,      \* the intent run was called with
   callee : Intents,      \* the intent of the call in hand
   step : 0 .. MaxRecipients,
   expires : 0 .. MaxTime + 1,   \* of the parent approval the cascade read
   prior : {"none"} \cup Supported \cup {"CONFLICTED"},   \* the claim read before the call
   result : {"none", "pending"} \cup Finished,
   status : {"none", "completed", "pending", "stopped", "scheduled", "refused"},
   dialed : BOOLEAN]

PatternTypeOK ==
  /\ pattern \in CallPattern /\ recipients \in 1 .. MaxRecipients /\ allowed \in BOOLEAN /\ named \in BOOLEAN
  /\ mission \in MissionStatus
  /\ children \subseteq Intents \ {Intent}
  /\ DOMAIN approvals = Intents
  /\ \A i \in Intents : approvals[i] \in Seq(Approval)
  /\ runs \in [Intents -> {"none", "pending"} \cup Finished]
  /\ remote \subseteq [intent : Intents, goal : 0 .. MaxRounds]
  /\ goal \in 0 .. MaxRounds
  /\ prior \in {"none", "CONFLICTED"} \cup Supported
  /\ answer \in {"none", "conflict", "agreement"} /\ foundIn \in 0 .. MaxRounds
  /\ escalated \in 0 .. Contacts /\ jobs \in 0 .. MaxRounds
  /\ progress \in {"none", "running", "completed", "pending", "stopped", "scheduled", "refused"}
  /\ reported \in {"none", "conflicted", "corroborated"}
  /\ runner \in RunnerState \cup {Idle}
  /\ now \in 0 .. MaxTime /\ rounds \in 0 .. MaxRounds

PatternInit ==
  /\ pattern \in CallPattern
  /\ recipients \in IF pattern \in {"FAN_OUT", "CASCADE"} THEN 1 .. MaxRecipients ELSE {1}
  /\ allowed \in IF pattern \in Policed THEN BOOLEAN ELSE {TRUE}
  /\ named \in IF pattern \in ReadsClaims THEN BOOLEAN ELSE {FALSE}
  /\ prior \in IF pattern \in ReadsClaims THEN {"none", "PHONE_SUPPORTED", "CONFLICTED"} ELSE {"none"}
  /\ mission = "CALL_PLAN_READY"
  /\ children = {} /\ approvals = [i \in Intents |-> <<>>]
  /\ runs = [i \in Intents |-> "none"] /\ remote = {}
  /\ answer = "none" /\ foundIn = 0 /\ goal = 0 /\ escalated = 0 /\ progress = "none" /\ reported = "none"
  /\ jobs = 0 /\ runner = Idle /\ now = 0 /\ rounds = 0

-----------------------------------------------------------------------------
(***************************************************************************)
(* PatternRunner.run: the progress is "running" before the handler is. A   *)
(* child intent is a one-shot.                                             *)
(***************************************************************************)
Run(i) ==
  /\ runner = Idle /\ rounds < MaxRounds
  /\ i \in children \cup {Intent}
  /\ rounds' = rounds + 1
  /\ progress' = IF i = Intent THEN "running" ELSE progress
  /\ runner' = [pc |-> "handle", intent |-> i, callee |-> i, step |-> 0, expires |-> 0,
                 prior |-> "none", result |-> "none", status |-> "none", dialed |-> FALSE]
  /\ UNCHANGED <<options, world, children, callRows, goal, escalated, reported, jobs>>

Handles(p) ==
  /\ runner.pc = "handle"
  /\ p = IF runner.intent = Intent THEN pattern ELSE "ONE_SHOT"

Goto(pc) == runner' = [runner EXCEPT !.pc = pc]

(* The handler returns an outcome with this status. *)
Outcome(status) == runner' = [runner EXCEPT !.pc = "mark", !.status = status]

Refused(p, why) ==
  /\ Handles(p) /\ why
  /\ Outcome("refused")
  /\ UNCHANGED <<options, world, children, callRows, intentRow, jobs, rounds>>

OneShot ==
  /\ Handles("ONE_SHOT")
  /\ Goto("call")
  /\ UNCHANGED <<options, world, children, callRows, intentRow, jobs, rounds>>

FanOut ==
  /\ Handles("FAN_OUT") /\ recipients >= 2
  /\ Goto("call")
  /\ UNCHANGED <<options, world, children, callRows, intentRow, jobs, rounds>>

-----------------------------------------------------------------------------
(***************************************************************************)
(* CascadeHandler: the parent's approval is read once; each step derives   *)
(* its approval from that copy, finds or stores its child, and calls.      *)
(***************************************************************************)
Cascade ==
  /\ Handles("CASCADE") /\ recipients >= 2 /\ LatestUsable(Intent)
  /\ runner' = [runner EXCEPT !.pc = "step", !.step = 1,
                             !.expires = Last(approvals[Intent]).expires]
  /\ UNCHANGED <<options, world, children, callRows, intentRow, jobs, rounds>>

(* Get or create. *)
PersistChild(child) == children' = children \cup {child}

DeriveUnchecked ==   \* slip: the expiry of the parent is not looked at again
  [status |-> "APPROVED", expires |-> MaxTime + 1]

Derived == [status |-> "APPROVED", expires |-> runner.expires]

CascadeStep ==
  /\ runner.pc = "step" /\ runner.expires > now
  /\ LET child == Step(runner.step) IN
       /\ PersistChild(child)
       /\ approvals' = IF child \in children THEN approvals
                       ELSE [approvals EXCEPT ![child] = <<Derived>>]
       /\ runner' = [runner EXCEPT !.pc = "call", !.callee = child]
  /\ UNCHANGED <<options, mission, now, callRows, intentRow, jobs, rounds>>

CascadeRefused ==
  /\ runner.pc = "step" /\ runner.expires <= now
  /\ Outcome("refused")
  /\ UNCHANGED <<options, world, children, callRows, intentRow, jobs, rounds>>

AfterStepSkipped(result) ==   \* slip: a pending step is taken for a failed one
  IF result = "passed" \/ runner.step = recipients
    THEN [runner EXCEPT !.pc = "mark", !.status = "completed"]
    ELSE [runner EXCEPT !.pc = "step", !.step = @ + 1]

AfterStep(result) ==
  CASE result = "pending" -> [runner EXCEPT !.pc = "mark", !.status = "pending"]
    [] result = "passed" \/ (result = "failed" /\ runner.step = recipients) ->
         [runner EXCEPT !.pc = "mark", !.status = "completed"]
    [] OTHER -> [runner EXCEPT !.pc = "step", !.step = @ + 1]

-----------------------------------------------------------------------------
(***************************************************************************)
(* NegotiationHandler and ClarificationHandler put the prior claims into   *)
(* the goal, unless a run of the intent is stored.                         *)
(***************************************************************************)
WithContextBlock == goal + 1
HasRun == runs[Intent] # "none"

RewriteAnyway == goal' = WithContextBlock   \* slip: a stored run is not looked for

Rewrite == goal' = IF HasRun THEN goal ELSE WithContextBlock

Negotiation ==
  /\ Handles("NEGOTIATION_ROUND") /\ allowed
  /\ prior \in Supported \/ (named /\ prior # "none")
  /\ Rewrite
  /\ Goto("call")
  /\ UNCHANGED <<options, world, children, callRows, escalated, progress, reported, jobs, rounds>>

Clarification ==
  /\ Handles("CLARIFICATION")
  /\ IF prior = "CONFLICTED" \/ (named /\ prior # "none") THEN Rewrite ELSE UNCHANGED goal
  /\ Goto("call")
  /\ UNCHANGED <<options, world, children, callRows, escalated, progress, reported, jobs, rounds>>

(***************************************************************************)
(* VerificationHandler reads the prior claims before the call and the      *)
(* engine's verdict after it.                                              *)
(***************************************************************************)
Verification ==
  /\ Handles("VERIFICATION") /\ allowed
  /\ runner' = [runner EXCEPT !.pc = "call",
                  !.prior = IF named \/ prior \in Supported THEN prior ELSE "none"]
  /\ UNCHANGED <<options, world, children, callRows, intentRow, jobs, rounds>>

VerdictOfCopy ==   \* slip: the verdict is looked up in the claims read before the call
  IF runner.prior = "CONFLICTED" THEN "conflicted"
  ELSE IF runner.prior = "MULTI_SOURCE_SUPPORTED" THEN "corroborated" ELSE "none"

Verdict ==
  CASE runner.prior # "none" /\ answer = "conflict" -> "conflicted"
    [] runner.prior # "none" /\ answer = "agreement" -> "corroborated"
    [] OTHER -> "none"

-----------------------------------------------------------------------------
(***************************************************************************)
(* FollowUpHandler schedules and does not dial.                            *)
(***************************************************************************)
FollowUp ==
  /\ Handles("FOLLOW_UP") /\ allowed /\ Due > now
  /\ jobs' = jobs + 1
  /\ Outcome("scheduled")
  /\ UNCHANGED <<options, world, children, callRows, intentRow, rounds>>

(***************************************************************************)
(* ApprovalService.request: a PENDING approval; the mission is moved by    *)
(* MissionMoves.                                                           *)
(***************************************************************************)
Ask(i) ==
  approvals' = [approvals EXCEPT ![i] = Append(@, [status |-> "PENDING", expires |-> now + 1])]

(***************************************************************************)
(* EscalationHandler: the next contact becomes a child intent without an   *)
(* approval, an approval is requested for it, and the progress is written, *)
(* in three sessions.                                                      *)
(***************************************************************************)
EscalationContacts == {Escalation(n) : n \in escalated + 1 .. Contacts}

EscalateAgain ==   \* slip: numbers already escalated to are not left out
  /\ Handles("ESCALATION") /\ allowed
  /\ PersistChild(Escalation(escalated + 1))
  /\ runner' = [runner EXCEPT !.pc = "ask", !.callee = Escalation(escalated + 1)]
  /\ UNCHANGED <<options, world, callRows, intentRow, jobs, rounds>>

Escalate ==
  /\ Handles("ESCALATION") /\ allowed /\ EscalationContacts # {}
  /\ PersistChild(Escalation(escalated + 1))
  /\ runner' = [runner EXCEPT !.pc = "ask", !.callee = Escalation(escalated + 1)]
  /\ UNCHANGED <<options, world, callRows, intentRow, jobs, rounds>>

AskToEscalate ==
  /\ runner.pc = "ask"
  /\ Ask(runner.callee)
  /\ Goto("note")
  /\ UNCHANGED <<options, mission, now, children, callRows, intentRow, jobs, rounds>>

NoteEscalation ==
  /\ runner.pc = "note"
  /\ escalated' = escalated + 1
  /\ Outcome("stopped")
  /\ UNCHANGED <<options, world, children, callRows, goal, progress, reported, jobs, rounds>>

(***************************************************************************)
(* HumanGateHandler: call with a usable approval; otherwise see that one   *)
(* is pending.                                                             *)
(***************************************************************************)
HumanGateOpen ==
  /\ Handles("HUMAN_GATE") /\ LatestUsable(Intent)
  /\ Goto("call")
  /\ UNCHANGED <<options, world, children, callRows, intentRow, jobs, rounds>>

Asked == approvals[Intent] # <<>> /\ Last(approvals[Intent]).status = "PENDING"

HumanGateWaits ==   \* slip: the handler stays until the pending approval is decided
  /\ Handles("HUMAN_GATE") /\ ~LatestUsable(Intent)
  /\ ~Asked
  /\ Ask(Intent)
  /\ Outcome("stopped")
  /\ UNCHANGED <<options, mission, now, children, callRows, intentRow, jobs, rounds>>

HumanGateShut ==
  /\ Handles("HUMAN_GATE") /\ ~LatestUsable(Intent)
  /\ IF Asked THEN UNCHANGED approvals ELSE Ask(Intent)
  /\ Outcome("stopped")
  /\ UNCHANGED <<options, mission, now, children, callRows, intentRow, jobs, rounds>>

Handle ==
  \/ OneShot \/ FanOut \/ Cascade \/ CascadeStep \/ CascadeRefused
  \/ Negotiation \/ Clarification \/ Verification \/ FollowUp
  \/ Escalate \/ AskToEscalate \/ NoteEscalation \/ HumanGateOpen \/ HumanGateShut
  \/ Refused("FAN_OUT", recipients < 2)
  \/ Refused("CASCADE", recipients < 2 \/ ~LatestUsable(Intent))
  \/ Refused("NEGOTIATION_ROUND",
             ~allowed \/ ~(prior \in Supported \/ (named /\ prior # "none")))
  \/ Refused("VERIFICATION", ~allowed)
  \/ Refused("FOLLOW_UP", ~allowed \/ Due <= now)
  \/ Refused("ESCALATION", ~allowed \/ EscalationContacts = {})

-----------------------------------------------------------------------------
(***************************************************************************)
(* execute_call(callee, advance_mission=False). An intent with a stored    *)
(* run is not called again. A gate that refuses, like a status that does   *)
(* not lead to execution, raises through run: nothing is marked or         *)
(* recorded.                                                               *)
(***************************************************************************)
Existing ==
  /\ runner.pc = "call" /\ runs[runner.callee] # "none"
  /\ runner' = [runner EXCEPT !.pc = "returned", !.result = runs[runner.callee]]
  /\ UNCHANGED <<options, world, children, callRows, intentRow, jobs, rounds>>

Raises ==
  /\ runner.pc = "call" /\ runs[runner.callee] = "none"
  /\ runner' = Idle
  /\ UNCHANGED <<options, world, children, callRows, intentRow, jobs, rounds>>

Enter ==
  /\ runner.pc = "call" /\ runs[runner.callee] = "none"
  /\ LatestUsable(runner.callee)

StartCall ==
  /\ Enter
  /\ mission = "CALL_EXECUTION_RUNNING" \/ IsAllowed(mission, "CALL_EXECUTION_RUNNING")
  /\ mission' = "CALL_EXECUTION_RUNNING"
  /\ Goto("dial")
  /\ UNCHANGED <<options, approvals, now, children, callRows, intentRow, jobs, rounds>>

(* The create, or the identical replay after a lost answer. *)
Dial ==
  /\ runner.pc = "dial" /\ LatestUsable(runner.callee)
  /\ remote' = remote \cup {Key(runner.callee)}
  /\ Goto("store")
  /\ UNCHANGED <<options, world, children, runs, claims, intentRow, jobs, rounds>>

(* The gate in the provider refuses, or the reconciliation fails: _block. *)
DialFails ==
  /\ runner.pc = "dial"
  /\ remote' \in {remote, remote \cup {Key(runner.callee)}}
  /\ ~LatestUsable(runner.callee) => remote' = remote
  /\ mission' = IF IsAllowed(mission, "BLOCKED") THEN "BLOCKED" ELSE mission
  /\ runner' = Idle
  /\ UNCHANGED <<options, approvals, now, children, runs, claims, intentRow, jobs, rounds>>

(* What the ingested answers make of the prior claim of the candidate. *)
PriorInHand == runner.pc \notin {"idle", "handle"} /\ prior \in Supported

Ingested ==
  \/ UNCHANGED claims
  \/ /\ \/ /\ prior # "none"
           /\ prior' = "CONFLICTED" /\ answer' = "conflict"
        \/ /\ prior \in Supported
           /\ prior' = "MULTI_SOURCE_SUPPORTED" /\ answer' = "agreement"
     /\ foundIn' = IF PriorInHand THEN rounds ELSE 0

Store ==
  /\ runner.pc = "store"
  /\ \E result \in {"pending"} \cup Finished :
       /\ runs' = [runs EXCEPT ![runner.callee] = result]
       /\ runner' = [runner EXCEPT !.pc = "returned", !.result = result]
       /\ IF result = "pending" THEN UNCHANGED claims ELSE Ingested
  /\ UNCHANGED <<options, world, children, remote, intentRow, jobs, rounds>>

(***************************************************************************)
(* The call returned: the handler goes on, and run closes the round. A     *)
(* round that dialed and is not pending marks the results as received,     *)
(* once.                                                                   *)
(***************************************************************************)
AfterCall(result) ==
  [runner EXCEPT !.pc = "mark", !.status = IF result = "pending" THEN "pending" ELSE "completed"]

Returned ==
  /\ runner.pc = "returned"
  /\ LET next == IF runner.intent = Intent /\ pattern = "CASCADE"
                   THEN AfterStep(runner.result) ELSE AfterCall(runner.result)
     IN runner' = [next EXCEPT !.dialed = TRUE]
  /\ UNCHANGED <<options, world, children, callRows, intentRow, jobs, rounds>>

Received == IF mission = "CALL_EXECUTION_RUNNING" THEN "CALL_RESULT_RECEIVED" ELSE mission

(* A refusal in the middle of a cascade carries its steps and no results. *)
Mark ==
  /\ runner.pc = "mark"
  /\ mission' = IF runner.dialed /\ runner.status \notin {"pending", "refused"}
                 THEN Received ELSE mission
  /\ Goto("record")
  /\ UNCHANGED <<options, approvals, now, children, callRows, intentRow, jobs, rounds>>

RecordProgress ==
  /\ runner.pc = "record"
  /\ IF runner.intent = Intent
       THEN /\ progress' = runner.status
            /\ reported' = IF pattern = "VERIFICATION" /\ runner.status = "completed"
                            THEN Verdict ELSE "none"
       ELSE UNCHANGED <<progress, reported>>
  /\ runner' = Idle
  /\ UNCHANGED <<options, world, children, callRows, goal, escalated, jobs, rounds>>

Call ==
  \/ Existing \/ Raises \/ StartCall \/ Dial \/ DialFails \/ Store
  \/ Returned \/ Mark \/ RecordProgress

-----------------------------------------------------------------------------
(***************************************************************************)
(* Meanwhile: the planner asks for the parent's approval, the user         *)
(* decides, time passes, a webhook finalizes a pending run (finalize_run), *)
(* the driver moves the mission, the process restarts.                     *)
(***************************************************************************)
RequestApproval ==
  /\ Len(approvals[Intent]) < MaxApprovals
  /\ Ask(Intent)
  /\ UNCHANGED <<options, mission, now, children, callRows, intentRow, jobs, runner, rounds>>

Decide(i, n, decision) ==
  /\ approvals[i][n].status = "PENDING" /\ approvals[i][n].expires > now
  /\ approvals' = [approvals EXCEPT ![i][n].status = decision]
  /\ UNCHANGED <<options, mission, now, children, callRows, intentRow, jobs, runner, rounds>>

Tick ==
  /\ now < MaxTime
  /\ now' = now + 1
  /\ UNCHANGED <<options, approvals, mission, children, callRows, intentRow, jobs, runner, rounds>>

Finalize(i) ==
  /\ runs[i] = "pending"
  /\ \E result \in Finished : runs' = [runs EXCEPT ![i] = result]
  /\ Ingested
  /\ mission' = Received
  /\ UNCHANGED <<options, approvals, now, children, remote, intentRow, jobs, runner, rounds>>

MissionMoves ==
  /\ mission' \in Transitions(mission) \cap CallLoop
  /\ mission' \notin {"CALL_EXECUTION_RUNNING", "CALL_RESULT_RECEIVED"}
  /\ UNCHANGED <<options, approvals, now, children, callRows, intentRow, jobs, runner, rounds>>

Restart ==
  /\ runner # Idle
  /\ runner' = Idle
  /\ UNCHANGED <<options, world, children, callRows, intentRow, jobs, rounds>>

Environment ==
  \/ RequestApproval \/ Tick \/ MissionMoves \/ Restart
  \/ \E i \in Intents : Finalize(i)
  \/ \E i \in Intents : \E n \in DOMAIN approvals[i] :
       \E decision \in {"APPROVED", "REJECTED"} : Decide(i, n, decision)

PatternNext ==
  \/ \E i \in Intents : Run(i)
  \/ Handle \/ Call \/ Environment

PatternSpec == PatternInit /\ [][PatternNext]_patternVars

FairPatternSpec == PatternSpec /\ WF_patternVars(Handle \/ Call)

-----------------------------------------------------------------------------
(***************************************************************************)
(* A cascade dials a recipient only when the calls to all before it are    *)
(* over and none passed, however often it is run again, after pending      *)
(* steps, late webhooks and restarts.                                      *)
(***************************************************************************)
CascadeInOrder ==
  \A n \in 2 .. MaxRecipients :
    Key(Step(n)) \in remote => \A m \in 1 .. n - 1 : runs[Step(m)] = "failed"

(***************************************************************************)
(* Every task CALL-E holds was approved by the user: under an approval of  *)
(* its own intent, or, for a step of a cascade, under one of the parent    *)
(* that lives as long as the step's. An escalation contact is never dialed *)
(* on the strength of the parent's.                                        *)
(***************************************************************************)
Human(i) == {approvals[i][n] : n \in DOMAIN approvals[i]}
DialsWereApproved ==
  \A k \in remote :
    \E a \in Human(IF k.intent[1] = "step" THEN Intent ELSE k.intent) :
      /\ a.status = "APPROVED"
      /\ k.intent[1] = "step" => \A d \in Human(k.intent) : d.expires = a.expires

(***************************************************************************)
(* Once a run is stored, the goal is the one a task was created with:      *)
(* negotiation and clarification do not rewrite what was dialed and        *)
(* stored.                                                                 *)
(***************************************************************************)
StoredGoalWasDialed ==
  runs[Intent] # "none" => Key(Intent) \in remote

(***************************************************************************)
(* A verification that completes reports what the engine found. It reports *)
(* an agreement whichever run stored the call and whatever was cut off in  *)
(* between; a contradiction when the options name the prior claim, or when *)
(* the run that reports had read the claim, still supported, before the    *)
(* answers came. (A later run no longer finds the claim it should compare  *)
(* with: after a pending call or a restart the contradiction of an unnamed *)
(* claim goes unreported.)                                                 *)
(***************************************************************************)
VerdictReported ==
  pattern = "VERIFICATION" /\ progress = "completed" =>
    /\ reported = "corroborated" <=> answer = "agreement"
    /\ reported = "conflicted" <=> answer = "conflict" /\ (named \/ foundIn = rounds)

(***************************************************************************)
(* Every run of a pattern ends, with an outcome or an error.               *)
(***************************************************************************)
PatternEnds == runner # Idle ~> runner = Idle

==============================================================================
