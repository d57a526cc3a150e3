---------------------------- MODULE CallExecution ----------------------------
(***************************************************************************)
(* CallService.execute_call (calls/service.py) over CalleProvider          *)
(* (calls/calle.py) and its gate (calls/gates.py), together with the       *)
(* approvals it depends on: the one path from an authorized intent to a    *)
(* dialed call, a stored run and its evidence.                             *)
(*                                                                         *)
(* One action is a run of reads, the writes of one session, or a request   *)
(* to CALL-E.  A task is one coroutine inside execute_call; a restart      *)
(* loses the tasks and the provider's record of attempted creates, never   *)
(* the rows.                                                               *)
(***************************************************************************)
EXTENDS Approvals, FiniteSets

CONSTANTS Tasks,          \* concurrent execute_call coroutines
          NoIntent,       \* the intent of a task at rest
          MaxCalls,       \* the effective call cap of the mission
          WebhookMode,    \* CALLE_WEBHOOK_URL is set: terminal results arrive later
          WritesMayFail   \* whether the evidence write may raise

ASSUME ExecutionAssumption ==
  /\ Tasks # {} /\ IsFiniteSet(Tasks)
  /\ NoIntent \notin Intents
  /\ MaxCalls \in Nat
  /\ WebhookMode \in BOOLEAN
  /\ WritesMayFail \in BOOLEAN

VARIABLES runs,           \* the CallRun rows, in the order they were added
          remote,         \* CALL-E's task under each intent's idempotency key
          attempted,      \* provider._attempted: creates tried by this process
          exec            \* where each task stands in execute_call

executionVars == <<runs, remote, attempted, exec>>
callVars == <<approvalVars, executionVars>>

RemoteState == {"none", "active", "terminal"}
RunRow == [intent : Intents, status : {"active", "terminal"}, ingested : Nat]
ExecPC == {"idle", "loaded", "planned", "entering", "entered", "creating", "replaying",
           "polling", "answered", "ingesting", "marking", "finishing",
           "blocking", "blocked", "halting"}

(***************************************************************************)
(* The locals of execute_call that outlive an await: the intent, the copy  *)
(* of the mission row, the approval the plan was authorized with, the      *)
(* status CALL-E answered with and the stored run.                         *)
(***************************************************************************)
ExecState == [pc : ExecPC, intent : Intents \cup {NoIntent}, seen : MissionRow, approval : Nat,
              answer : RemoteState, run : Nat]

AtRest == [pc |-> "idle", intent |-> NoIntent,
           seen |-> [status |-> "MISSION_CREATED", used |-> 0],
           approval |-> 0, answer |-> "none", run |-> 0]

ExecutionTypeOK ==
  /\ runs \in Seq(RunRow)
  /\ remote \in [Intents -> RemoteState]
  /\ attempted \in SUBSET Intents
  /\ exec \in [Tasks -> ExecState]

CallTypeOK == ApprovalsTypeOK /\ ExecutionTypeOK

ExecutionInit ==
  /\ runs = << >>
  /\ remote = [i \in Intents |-> "none"]
  /\ attempted = {}
  /\ exec = [t \in Tasks |-> AtRest]

RunsOf(i) == {r \in DOMAIN runs : runs[r].intent = i}

(***************************************************************************)
(* latest_for_intent; 0 when the intent has no approval.                   *)
(***************************************************************************)
LatestApproval(i) ==
  LET own == {a \in DOMAIN approvals : approvals[a].subject = i}
  IN  IF own = {} THEN 0 ELSE CHOOSE a \in own : \A b \in own : b <= a

ApprovalGateAnyStatus(i, a) ==   \* slip: the status is not compared
  /\ a \in DOMAIN approvals
  /\ approvals[a].subject = i
  /\ ~approvals[a].lapsed

(***************************************************************************)
(* CallGate.check, the gates over rows: _check_approval and _check_budget. *)
(* The others (live switch, policy, allow-list, suppression, quiet hours)  *)
(* read settings and recipients: any of them may refuse at any time, so a  *)
(* check that these two pass may still refuse.                             *)
(***************************************************************************)
ApprovalGate(i, a) ==
  /\ a \in DOMAIN approvals
  /\ approvals[a].subject = i
  /\ approvals[a].status = "APPROVED"
  /\ ~approvals[a].lapsed

BudgetGateOffByOne == Len(runs) <= MaxCalls   \* slip: > for >=

BudgetGate == Len(runs) < MaxCalls

GatePasses(i, a) == ApprovalGate(i, a) /\ BudgetGate

Goto(t, pc) == exec' = [exec EXCEPT ![t].pc = pc]
Return(t) == exec' = [exec EXCEPT ![t] = AtRest]

-----------------------------------------------------------------------------
(***************************************************************************)
(* _load: the intent and a copy of the mission row.                        *)
(***************************************************************************)
Load(t, i) ==
  /\ exec[t].pc = "idle"
  /\ exec' = [exec EXCEPT ![t].pc = "loaded", ![t].intent = i, ![t].seen = mission]
  /\ UNCHANGED <<approvalVars, runs, remote, attempted>>

(***************************************************************************)
(* authorize: what the gate looks at of the approval, once more.           *)
(***************************************************************************)
RequireMatchingApproval(i, a) == ApprovalGate(i, a)

(***************************************************************************)
(* _existing, latest_for_intent, the gate pre-check, plan_call, authorize: *)
(* reads only.  A stored run, or a refusal, ends the call here.            *)
(***************************************************************************)
Precheck(t) ==
  LET i == exec[t].intent
      a == LatestApproval(i)
  IN  /\ exec[t].pc = "loaded"
      /\ \/ /\ RunsOf(i) = {}
            /\ GatePasses(i, a) /\ RequireMatchingApproval(i, a)
            /\ exec' = [exec EXCEPT ![t].pc = "planned", ![t].approval = a]
         \/ Return(t)
      /\ UNCHANGED <<approvalVars, runs, remote, attempted>>

(***************************************************************************)
(* The mission enters CALL_EXECUTION_RUNNING unless the copy loaded first  *)
(* says it is there already; a refused transition raises out of the call.  *)
(* The task goes on with the copy propose_transition read and changed.     *)
(***************************************************************************)
AlreadyRunning(t) == exec[t].seen.status = "CALL_EXECUTION_RUNNING"

EnterExecution(t) ==
  /\ exec[t].pc = "planned"
  /\ \/ AlreadyRunning(t) /\ Goto(t, "entered")
     \/ /\ ~AlreadyRunning(t)
        /\ MayMoveTo("CALL_EXECUTION_RUNNING")
        /\ exec' = [exec EXCEPT ![t].pc = "entering",
                                ![t].seen = [mission EXCEPT !.status = "CALL_EXECUTION_RUNNING"]]
     \/ /\ ~AlreadyRunning(t)
        /\ ~MayMoveTo("CALL_EXECUTION_RUNNING")
        /\ Return(t)
  /\ UNCHANGED <<approvalVars, runs, remote, attempted>>

EnteredExecution(t) ==
  /\ exec[t].pc = "entering"
  /\ MoveTo("CALL_EXECUTION_RUNNING")
  /\ Goto(t, "entered")
  /\ UNCHANGED <<approvals, intentState, desk, runs, remote, attempted>>

(***************************************************************************)
(* GatedCallProvider.execute: the gate once more over reloaded rows, then  *)
(* the attempt is noted and the create goes out with no await in between.  *)
(***************************************************************************)
GateAgain(t) ==
  /\ exec[t].pc = "entered"
  /\ \/ /\ GatePasses(exec[t].intent, exec[t].approval)
        /\ attempted' = attempted \cup {exec[t].intent}
        /\ Goto(t, "creating")
     \/ /\ Goto(t, "blocking")
        /\ UNCHANGED attempted
  /\ UNCHANGED <<approvalVars, runs, remote>>

(***************************************************************************)
(* CALL-E, as far as the client relies on it: a create under a fresh key   *)
(* dials; a create under a known key returns the original task.            *)
(***************************************************************************)
RemoteCreate(i) ==
  remote' = [remote EXCEPT ![i] = IF @ = "none" THEN "active" ELSE @]

SettleWithoutAnswer(t, status) ==   \* slip: the returned status is dropped
  Goto(t, IF WebhookMode \/ status = "terminal" THEN "answered" ELSE "polling")

(***************************************************************************)
(* _settle: with a webhook configured, or a terminal answer, the run is    *)
(* returned; otherwise it is polled to its end.                            *)
(***************************************************************************)
Settle(t, status) ==
  exec' = [exec EXCEPT ![t].pc = IF WebhookMode \/ status = "terminal"
                                 THEN "answered" ELSE "polling",
                       ![t].answer = status]

(***************************************************************************)
(* reconcile with no stored run: one identical replay.  A create or replay *)
(* is answered, or loses its answer or itself (ambiguous), or is refused.  *)
(* Ambiguity after the replay is final, like a refusal.                    *)
(***************************************************************************)
AfterAmbiguity(t) == IF exec[t].pc = "creating" THEN "replaying" ELSE "blocking"

CreateCall(t) ==
  /\ \/ exec[t].pc = "creating"
     \/ exec[t].pc = "replaying" /\ RunsOf(exec[t].intent) = {}
  /\ \/ RemoteCreate(exec[t].intent) /\ Settle(t, remote'[exec[t].intent])
     \/ RemoteCreate(exec[t].intent) /\ Goto(t, AfterAmbiguity(t))
     \/ UNCHANGED remote /\ Goto(t, AfterAmbiguity(t))
     \/ UNCHANGED remote /\ Goto(t, "blocking")
  /\ UNCHANGED <<approvalVars, runs, attempted>>

(***************************************************************************)
(* reconcile when a run of the intent is stored already: re-read it.       *)
(***************************************************************************)
ReconcileByRead(t) ==
  /\ exec[t].pc = "replaying"
  /\ RunsOf(exec[t].intent) # {}
  /\ \/ exec' = [exec EXCEPT ![t].pc = "answered", ![t].answer = remote[exec[t].intent]]
     \/ Goto(t, "blocking")
  /\ UNCHANGED <<approvalVars, runs, remote, attempted>>

PollForever(t) ==   \* slip: no timeout
  /\ exec[t].pc = "polling"
  /\ remote[exec[t].intent] = "terminal"
  /\ exec' = [exec EXCEPT ![t].pc = "answered", ![t].answer = "terminal"]
  /\ UNCHANGED <<approvalVars, runs, remote, attempted>>

(***************************************************************************)
(* wait_for_terminal: the terminal status, a failed read or the timeout.   *)
(***************************************************************************)
Poll(t) ==
  /\ exec[t].pc = "polling"
  /\ \/ /\ remote[exec[t].intent] = "terminal"
        /\ exec' = [exec EXCEPT ![t].pc = "answered", ![t].answer = "terminal"]
     \/ Goto(t, "blocking")
  /\ UNCHANGED <<approvalVars, runs, remote, attempted>>

(***************************************************************************)
(* task_to_run: the run of a CALL-E task has its status.                   *)
(***************************************************************************)
TaskToRun(t) == [intent |-> exec[t].intent, status |-> exec[t].answer, ingested |-> 0]

(***************************************************************************)
(* _persist_run: the run and one unit of the budget, counted on a freshly  *)
(* read mission row.  The insert comes first, so with SQLite the session   *)
(* holds the write lock while it reads and counts.                         *)
(***************************************************************************)
PersistRun(t) ==
  /\ exec[t].pc = "answered"
  /\ runs' = Append(runs, TaskToRun(t))
  /\ mission' = [mission EXCEPT !.used = @ + 1]
  /\ IF exec[t].answer = "terminal"
     THEN exec' = [exec EXCEPT ![t].pc = "ingesting", ![t].run = Len(runs) + 1]
     ELSE Return(t)
  /\ UNCHANGED <<approvals, intentState, desk, remote, attempted>>

(***************************************************************************)
(* _finalize: the claims of a terminal run go to the evidence engine.  The *)
(* write may fail; the exception then ends the call.                       *)
(***************************************************************************)
WriteClaims(r) == runs' = [runs EXCEPT ![r].ingested = @ + 1]

IngestResult(t) ==
  /\ exec[t].pc = "ingesting"
  /\ \/ WriteClaims(exec[t].run) /\ Goto(t, "marking")
     \/ WritesMayFail /\ UNCHANGED runs /\ Return(t)
  /\ UNCHANGED <<approvalVars, remote, attempted>>

(***************************************************************************)
(* mark_results_received: only a mission that is executing moves.          *)
(***************************************************************************)
MarkResultsReceived(t) ==
  /\ exec[t].pc = "marking"
  /\ IF mission.status = "CALL_EXECUTION_RUNNING" THEN Goto(t, "finishing") ELSE Return(t)
  /\ UNCHANGED <<approvalVars, runs, remote, attempted>>

FinishCall(t) ==
  /\ exec[t].pc = "finishing"
  /\ MoveTo("CALL_RESULT_RECEIVED")
  /\ Return(t)
  /\ UNCHANGED <<approvals, intentState, desk, runs, remote, attempted>>

(***************************************************************************)
(* _block: Repository.update sets every column of the row to the copy the  *)
(* call holds, status and calls_used included ...                          *)
(***************************************************************************)
BlockWrite(t) ==
  /\ exec[t].pc = "blocking"
  /\ mission' = exec[t].seen
  /\ Goto(t, "blocked")
  /\ UNCHANGED <<approvals, intentState, desk, runs, remote, attempted>>

(***************************************************************************)
(* ... and the move to BLOCKED is proposed in the next session.            *)
(***************************************************************************)
ProposeBlocked(t) ==
  /\ exec[t].pc = "blocked"
  /\ IF MayMoveTo("BLOCKED") THEN Goto(t, "halting") ELSE Return(t)
  /\ UNCHANGED <<approvalVars, runs, remote, attempted>>

BlockMove(t) ==
  /\ exec[t].pc = "halting"
  /\ MoveTo("BLOCKED")
  /\ Return(t)
  /\ UNCHANGED <<approvals, intentState, desk, runs, remote, attempted>>

-----------------------------------------------------------------------------
(***************************************************************************)
(* cancel_local: refused once the intent has a run or was attempted by     *)
(* this process.                                                           *)
(***************************************************************************)
MayCancel(i) == RunsOf(i) = {} /\ i \notin attempted

CancelLocal(i) ==
  /\ MayCancel(i)
  /\ intentState' = [intentState EXCEPT ![i] = "BLOCKED"]
  /\ UNCHANGED <<mission, approvals, desk, executionVars>>

RemoteFinishes(i) ==
  /\ remote[i] = "active"
  /\ remote' = [remote EXCEPT ![i] = "terminal"]
  /\ UNCHANGED <<approvalVars, runs, attempted, exec>>

RestartExecution ==
  /\ Restart
  /\ exec' = [t \in Tasks |-> AtRest]
  /\ attempted' = {}
  /\ UNCHANGED <<runs, remote>>

(***************************************************************************)
(* What a call that has begun goes on to do by itself.                     *)
(***************************************************************************)
CarryOn(t) ==
  \/ Precheck(t)
  \/ EnterExecution(t)
  \/ EnteredExecution(t)
  \/ GateAgain(t)
  \/ CreateCall(t)
  \/ ReconcileByRead(t)
  \/ Poll(t)
  \/ PersistRun(t)
  \/ IngestResult(t)
  \/ MarkResultsReceived(t)
  \/ FinishCall(t)
  \/ BlockWrite(t)
  \/ ProposeBlocked(t)
  \/ BlockMove(t)

TaskStep(t) == CarryOn(t) \/ \E i \in Intents : Load(t, i)

ExecutionNext ==
  \/ ApprovalsNext /\ UNCHANGED executionVars
  \/ \E t \in Tasks : TaskStep(t)
  \/ \E i \in Intents : CancelLocal(i) \/ RemoteFinishes(i)
=============================================================================
