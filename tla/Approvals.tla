------------------------------ MODULE Approvals ------------------------------
(***************************************************************************)
(* ApprovalService (approvals/service.py): the life of the approval rows   *)
(* of one mission, the authorization_state they leave on the call intents, *)
(* and the mission moves they cause.                                       *)
(*                                                                         *)
(* A clerk is a task inside the service: an HTTP decision request, a       *)
(* pattern asking for an approval, a sweep of stale approvals.  It awaits  *)
(* between sessions, and between the reads and the writes of one session,  *)
(* and nothing holds a row that was only read: other clerks, a crash and   *)
(* the rest of the orchestrator get in between.  So one action is a run of *)
(* reads, or the writes of a session up to its commit.                     *)
(***************************************************************************)
EXTENDS Naturals, Sequences, MissionTable

CONSTANTS Intents,        \* call intents of the mission
          Clerks,         \* concurrent tasks inside ApprovalService
          MaxApprovals,   \* bound: approval rows ever requested
          MayLapse,       \* whether time reaches an approval's expires_at
          MayCrash        \* whether the process may restart

ASSUME ApprovalsAssumption ==
  /\ MaxApprovals \in Nat
  /\ MayLapse \in BOOLEAN
  /\ MayCrash \in BOOLEAN

VARIABLES mission,        \* the mission row: its status and calls_used
          approvals,      \* the approval rows in the order of requested_at
          intentState,    \* authorization_state of each intent row
          desk            \* where each clerk stands

approvalVars == <<mission, approvals, intentState, desk>>

ApprovalStatus == {"PENDING", "APPROVED", "REJECTED", "EXPIRED"}
Decisions == {"APPROVED", "REJECTED"}
AuthorizationState == ApprovalStatus \cup {"BLOCKED"}

(***************************************************************************)
(* Where a clerk stands, the approvals it read and means to rewrite, and   *)
(* the value it means to write: an approval status or a mission status.    *)
(***************************************************************************)
DeskState ==
  [pc : {"idle", "requested", "committing", "committed", "moving", "applying"},
   on : SUBSET Nat,
   value : ApprovalStatus \cup MissionStatus \cup {"NONE"}]

Idle == [pc |-> "idle", on |-> {}, value |-> "NONE"]

MissionRow == [status : MissionStatus, used : Nat]

(***************************************************************************)
(* An approval row; granted (history) says whether APPROVED was ever       *)
(* written to it, which a later decision or sweep may have overwritten.    *)
(***************************************************************************)
ApprovalRow ==
  [subject : Intents, status : ApprovalStatus, lapsed : BOOLEAN, granted : BOOLEAN]

ApprovalsTypeOK ==
  /\ mission \in MissionRow
  /\ approvals \in Seq(ApprovalRow)
  /\ intentState \in [Intents -> AuthorizationState]
  /\ desk \in [Clerks -> DeskState]

(***************************************************************************)
(* The mission has just reached CALL_PLAN_READY: the planner has stored    *)
(* the selected intents, PENDING before any approval row exists.           *)
(***************************************************************************)
ApprovalsInit ==
  /\ mission = [status |-> "CALL_PLAN_READY", used |-> 0]
  /\ approvals = << >>
  /\ intentState = [i \in Intents |-> "PENDING"]
  /\ desk = [c \in Clerks |-> Idle]

Approved(i) ==
  \E a \in DOMAIN approvals : approvals[a].subject = i /\ approvals[a].status = "APPROVED"

Granted(i) == \E a \in DOMAIN approvals : approvals[a].subject = i /\ approvals[a].granted

AnyApproval(status) == \E a \in DOMAIN approvals : approvals[a].status = status
AnyGranted == \E a \in DOMAIN approvals : approvals[a].granted

-----------------------------------------------------------------------------
Sits(c, pc) == desk[c].pc = pc
Leave(c) == desk' = [desk EXCEPT ![c] = Idle]

(***************************************************************************)
(* MissionStateMachine.propose_transition reads the persisted status and   *)
(* validates the move against it; then it writes the status, whatever the  *)
(* row says by then.                                                       *)
(***************************************************************************)
MayMoveTo(s) == IsAllowed(mission.status, s)
MoveTo(s) == mission' = [mission EXCEPT !.status = s]

(***************************************************************************)
(* request: the PENDING row and the intent's state are inserted and        *)
(* committed ...                                                           *)
(***************************************************************************)
NewApproval(i) == [subject |-> i, status |-> "PENDING", lapsed |-> FALSE, granted |-> FALSE]

Request(c, i) ==
  /\ Sits(c, "idle")
  /\ Len(approvals) < MaxApprovals
  /\ approvals' = Append(approvals, NewApproval(i))
  /\ intentState' = [intentState EXCEPT ![i] = "PENDING"]
  /\ desk' = [desk EXCEPT ![c].pc = "requested"]
  /\ UNCHANGED mission

(***************************************************************************)
(* ... and, after the event is out, the mission is looked at.              *)
(***************************************************************************)
EnterAuthorization(c) ==
  /\ Sits(c, "requested")
  /\ IF mission.status = "CALL_PLAN_READY"
     THEN desk' = [desk EXCEPT ![c].pc = "applying", ![c].value = "CALL_AUTHORIZATION_PENDING"]
     ELSE Leave(c)
  /\ UNCHANGED <<mission, approvals, intentState>>

(***************************************************************************)
(* decide, the read: the approval is PENDING and not past its expiry. Past *)
(* it, the EXPIRED writes happen inside the session ApprovalNotPending     *)
(* then leaves, which rolls them back: nothing changes.                    *)
(***************************************************************************)
Decide(c, a, decision) ==
  /\ Sits(c, "idle")
  /\ approvals[a].status = "PENDING"
  /\ ~approvals[a].lapsed
  /\ desk' = [desk EXCEPT ![c] = [pc |-> "committing", on |-> {a}, value |-> decision]]
  /\ UNCHANGED <<mission, approvals, intentState>>

(***************************************************************************)
(* expire_stale, the reads: every PENDING approval past its expiry.        *)
(***************************************************************************)
Stale == {a \in DOMAIN approvals : approvals[a].status = "PENDING" /\ approvals[a].lapsed}

ExpireStale(c) ==
  /\ Sits(c, "idle")
  /\ Stale # {}
  /\ desk' = [desk EXCEPT ![c] = [pc |-> "committing", on |-> Stale, value |-> "EXPIRED"]]
  /\ UNCHANGED <<mission, approvals, intentState>>

(***************************************************************************)
(* The writes of decide and expire_stale: the rows that were read, and     *)
(* _set_intent_state for their intents, in one commit.                     *)
(***************************************************************************)
Decided(a, value) ==
  [approvals[a] EXCEPT !.status = value, !.granted = @ \/ value = "APPROVED"]

SetStates(rows, value) ==
  [i \in Intents |-> IF \E a \in rows : approvals[a].subject = i THEN value ELSE intentState[i]]

WriteIfPending(rows, value) ==   \* slip: the row is tested again, its intent is written anyway
  /\ approvals' = [a \in DOMAIN approvals |->
                     IF a \in rows /\ approvals[a].status = "PENDING"
                     THEN Decided(a, value) ELSE approvals[a]]
  /\ intentState' = SetStates(rows, value)

WriteDecision(rows, value) ==
  /\ approvals' = [a \in DOMAIN approvals |->
                     IF a \in rows THEN Decided(a, value) ELSE approvals[a]]
  /\ intentState' = SetStates(rows, value)

Commit(c) ==
  /\ Sits(c, "committing")
  /\ WriteDecision(desk[c].on, desk[c].value)
  /\ desk' = [desk EXCEPT ![c] = [Idle EXCEPT !.pc = "committed"]]
  /\ UNCHANGED mission

NextMoveNoReplan ==   \* slip: the elif branch is missing
  IF mission.status = "CALL_AUTHORIZATION_PENDING" /\ AnyApproval("APPROVED")
  THEN "CALL_AUTHORIZED" ELSE "NONE"

NextMoveWaitsForAll ==   \* slip: PENDING is tested first
  IF mission.status # "CALL_AUTHORIZATION_PENDING" \/ AnyApproval("PENDING") THEN "NONE"
  ELSE IF AnyApproval("APPROVED") THEN "CALL_AUTHORIZED"
  ELSE "REPLAN_DECISION_RUNNING"

NextMoveAllDecided ==   \* slip: decided is taken for approved
  IF mission.status # "CALL_AUTHORIZATION_PENDING" \/ AnyApproval("PENDING") THEN "NONE"
  ELSE "CALL_AUTHORIZED"

(***************************************************************************)
(* _advance_mission: the move is chosen from every approval the mission    *)
(* ever had ...                                                            *)
(***************************************************************************)
NextMove ==
  IF mission.status # "CALL_AUTHORIZATION_PENDING" THEN "NONE"
  ELSE IF AnyApproval("APPROVED") THEN "CALL_AUTHORIZED"
  ELSE IF AnyApproval("PENDING") THEN "NONE"
  ELSE "REPLAN_DECISION_RUNNING"

AdvanceMission(c) ==
  /\ Sits(c, "committed")
  /\ IF NextMove = "NONE"
     THEN Leave(c)
     ELSE desk' = [desk EXCEPT ![c].pc = "moving", ![c].value = NextMove]
  /\ UNCHANGED <<mission, approvals, intentState>>

(***************************************************************************)
(* ... validated by propose_transition in a later session ...              *)
(***************************************************************************)
ValidateMove(c) ==
  /\ Sits(c, "moving")
  /\ IF MayMoveTo(desk[c].value)
     THEN desk' = [desk EXCEPT ![c].pc = "applying"]
     ELSE Leave(c)
  /\ UNCHANGED <<mission, approvals, intentState>>

(***************************************************************************)
(* ... and written.                                                        *)
(***************************************************************************)
ApplyMove(c) ==
  /\ Sits(c, "applying")
  /\ MoveTo(desk[c].value)
  /\ Leave(c)
  /\ UNCHANGED <<approvals, intentState>>

-----------------------------------------------------------------------------
(***************************************************************************)
(* Time reaches expires_at.  One TTL serves every approval, so they lapse  *)
(* in the order they were requested.                                       *)
(***************************************************************************)
Lapse(a) ==
  /\ MayLapse
  /\ ~approvals[a].lapsed
  /\ \A b \in 1 .. a - 1 : approvals[b].lapsed
  /\ approvals' = [approvals EXCEPT ![a].lapsed = TRUE]
  /\ UNCHANGED <<mission, intentState, desk>>

(***************************************************************************)
(* The process restarts: rows stay, the tasks between two sessions do not. *)
(***************************************************************************)
Restart ==
  /\ MayCrash
  /\ desk' = [c \in Clerks |-> Idle]
  /\ UNCHANGED <<mission, approvals, intentState>>

(***************************************************************************)
(* The stages of a round that other components drive: evidence update,     *)
(* replan decision, selection of the next calls.                           *)
(***************************************************************************)
OtherStages ==
  /\ \E s \in {"EVIDENCE_UPDATE_RUNNING", "REPLAN_DECISION_RUNNING",
               "CALL_SELECTION_RUNNING", "CALL_PLAN_READY"} :
       /\ mission.status \notin {"CALL_PLAN_READY", "CALL_AUTHORIZATION_PENDING"}
       /\ MayMoveTo(s)
       /\ MoveTo(s)
  /\ UNCHANGED <<approvals, intentState, desk>>

(***************************************************************************)
(* What a task that has begun goes on to do by itself.                     *)
(***************************************************************************)
Carry(c) ==
  \/ EnterAuthorization(c)
  \/ Commit(c)
  \/ AdvanceMission(c)
  \/ ValidateMove(c)
  \/ ApplyMove(c)

ClerkStep(c) ==
  \/ \E i \in Intents : Request(c, i)
  \/ \E a \in DOMAIN approvals : \E d \in Decisions : Decide(c, a, d)
  \/ ExpireStale(c)
  \/ Carry(c)

ApprovalsNext ==
  \/ \E c \in Clerks : ClerkStep(c)
  \/ \E a \in DOMAIN approvals : Lapse(a)
  \/ OtherStages

ApprovalsSpec == ApprovalsInit /\ [][ApprovalsNext \/ Restart]_approvalVars

-----------------------------------------------------------------------------
(***************************************************************************)
(* A mission stands at CALL_AUTHORIZED only when the user has granted some *)
(* approval of it, however decisions, sweeps and requests race, although   *)
(* _advance_mission reads the approvals, proposes the move, validates and  *)
(* writes it in four sessions. That the approval still says so is more     *)
(* than the code keeps: of two tasks that read it PENDING, the later       *)
(* rewrites it.                                                            *)
(***************************************************************************)
AuthorizedHasApproval == mission.status = "CALL_AUTHORIZED" => AnyGranted

(***************************************************************************)
(* However requests, decisions and sweeps race, the authorization_state of *)
(* an intent never says more than its approval rows do: a decided or       *)
(* expired intent has an approval that says the same.                      *)
(***************************************************************************)
IntentStateHasApproval ==
  \A i \in Intents :
    intentState[i] \in {"APPROVED", "REJECTED", "EXPIRED"} =>
      \E a \in DOMAIN approvals :
        approvals[a].subject = i /\ approvals[a].status = intentState[i]

(***************************************************************************)
(* "a REJECTED decision (or expiry) that leaves no other usable approval   *)
(* moves CALL_AUTHORIZATION_PENDING -> REPLAN_DECISION_RUNNING", and an    *)
(* APPROVED one to CALL_AUTHORIZED: when no task is at work, a mission     *)
(* waits for authorization only while an approval is still PENDING. With   *)
(* one clerk and no restart, that is: a decision that overtakes the move   *)
(* of its own request is lost, and nothing resumes one that was cut off.   *)
(***************************************************************************)
NoDecisionLost ==
  (\A c \in Clerks : desk[c] = Idle) /\ mission.status = "CALL_AUTHORIZATION_PENDING"
    => AnyApproval("PENDING")

(***************************************************************************)
(* A decision taken while the mission waits reaches the mission: the task  *)
(* that committed it moves the mission on.                                 *)
(***************************************************************************)
DecisionReachesMission ==
  \A c \in Clerks :
    (Sits(c, "committed") /\ mission.status = "CALL_AUTHORIZATION_PENDING"
       /\ AnyApproval("APPROVED"))
      ~> mission.status # "CALL_AUTHORIZATION_PENDING"
=============================================================================
