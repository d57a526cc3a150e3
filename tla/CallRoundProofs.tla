--------------------------- MODULE CallRoundProofs ---------------------------
(***************************************************************************)
(* Theorems about the whole call round: approvals, executions, webhook     *)
(* deliveries and restarts, for any set of clerks, intents, tasks,         *)
(* deliveries and events. The inductive invariant says what the locals of  *)
(* a task and of a delivery may be relied on for (TaskSound, HookSound),   *)
(* what a stored run says about CALL-E (RunSound), that a run is ingested  *)
(* by the one task or delivery that stored its end (OneWriter), that what  *)
(* is dialed was granted (DialSound), and that no execution is under way   *)
(* for which the cap has no room but the others' (Overdrawn).              *)
(*                                                                         *)
(* The first part is about ApprovalService alone. Its inductive invariant  *)
(* has four parts: the types, what a clerk's desk says about the writes to *)
(* come (DeskSound), that an APPROVED row was granted (GrantsRecorded),    *)
(* and that only a granted approval makes a clerk move the mission to      *)
(* CALL_AUTHORIZED (TargetHasApproval). What a clerk read may have been    *)
(* overwritten by another when it writes: nothing here depends on it.      *)
(***************************************************************************)
EXTENDS WebhookReceiver, TLAPS, SequenceTheorems, FiniteSetTheorems

DeskSound ==
  \A c \in Clerks :
    /\ desk[c].pc = "committing" =>
         /\ desk[c].on \subseteq DOMAIN approvals
         /\ desk[c].value \in {"APPROVED", "REJECTED", "EXPIRED"}
         /\ desk[c].value # "EXPIRED" => \E a \in DOMAIN approvals : desk[c].on = {a}
    /\ desk[c].pc \in {"moving", "applying"} => desk[c].value \in MissionStatus

GrantsRecorded ==
  \A a \in DOMAIN approvals : approvals[a].status = "APPROVED" => approvals[a].granted

TargetHasApproval ==
  \A c \in Clerks :
    desk[c].pc \in {"moving", "applying"} /\ desk[c].value = "CALL_AUTHORIZED" => AnyGranted

ApprovalsInd == ApprovalsTypeOK /\ DeskSound /\ GrantsRecorded

-----------------------------------------------------------------------------
(***************************************************************************)
(* The rows of a sequence can be rewritten one by one.                     *)
(***************************************************************************)
LEMMA RewriteRows ==
  ASSUME NEW S, NEW s \in Seq(S), NEW t, DOMAIN t = DOMAIN s,
         t = [a \in DOMAIN t |-> t[a]],
         \A a \in DOMAIN s : t[a] \in S
  PROVE  t \in Seq(S) /\ Len(t) = Len(s)
<1>1. Len(s) \in Nat /\ DOMAIN s = 1 .. Len(s)
  BY LenProperties
<1>2. t \in [1 .. Len(s) -> S]
  BY <1>1
<1>3. t \in Seq(S)
  BY <1>1, <1>2, SeqDef
<1>4. Len(t) \in Nat /\ DOMAIN t = 1 .. Len(t)
  BY <1>3, LenProperties
<1> QED
  BY <1>1, <1>3, <1>4

LEMMA InitInd == ApprovalsInit => ApprovalsInd
<1> SUFFICES ASSUME ApprovalsInit PROVE ApprovalsInd
  OBVIOUS
<1>1. mission \in MissionRow
  BY DEF ApprovalsInit, MissionRow, MissionStatus, CallLoop
<1>2. approvals \in Seq(ApprovalRow) /\ GrantsRecorded
  BY EmptySeq DEF ApprovalsInit, GrantsRecorded
<1>3. intentState \in [Intents -> AuthorizationState]
  BY DEF ApprovalsInit, AuthorizationState, ApprovalStatus
<1>4. desk \in [Clerks -> DeskState] /\ DeskSound
  BY DEF ApprovalsInit, Idle, DeskState, DeskSound
<1> QED
  BY <1>1, <1>2, <1>3, <1>4 DEF ApprovalsInd, ApprovalsTypeOK

LEMMA RowsTyped ==
  ASSUME ApprovalsTypeOK
  PROVE  /\ Len(approvals) \in Nat /\ DOMAIN approvals = 1 .. Len(approvals)
         /\ \A a \in DOMAIN approvals : approvals[a] \in ApprovalRow
BY LenProperties, ElementOfSeq DEF ApprovalsTypeOK

(***************************************************************************)
(* What each kind of write does to the rows.                               *)
(***************************************************************************)
LEMMA RequestRows ==
  ASSUME ApprovalsTypeOK, NEW c \in Clerks, NEW i \in Intents, Request(c, i)
  PROVE  /\ approvals' \in Seq(ApprovalRow)
         /\ DOMAIN approvals' = DOMAIN approvals \cup {Len(approvals) + 1}
         /\ approvals'[Len(approvals) + 1] = NewApproval(i)
         /\ NewApproval(i).status = "PENDING" /\ ~NewApproval(i).granted
         /\ \A a \in DOMAIN approvals : approvals'[a] = approvals[a]
         /\ Len(approvals) + 1 \notin DOMAIN approvals
<1>1. NewApproval(i) \in ApprovalRow
  BY DEF NewApproval, ApprovalRow, ApprovalStatus
<1>2. NewApproval(i).status = "PENDING" /\ ~NewApproval(i).granted
  BY DEF NewApproval
<1> QED
  BY <1>1, <1>2, RowsTyped, AppendProperties, LenProperties DEF Request, ApprovalsTypeOK

LEMMA LapseRows ==
  ASSUME ApprovalsTypeOK, NEW b \in DOMAIN approvals, Lapse(b)
  PROVE  /\ approvals' \in Seq(ApprovalRow) /\ DOMAIN approvals' = DOMAIN approvals
         /\ \A a \in DOMAIN approvals : /\ approvals'[a].subject = approvals[a].subject
                                        /\ approvals'[a].status = approvals[a].status
                                        /\ approvals'[a].granted = approvals[a].granted
<1>1. approvals[b] \in ApprovalRow
  BY RowsTyped
<1> DEFINE row == [approvals[b] EXCEPT !.lapsed = TRUE]
<1>2. /\ row \in ApprovalRow /\ row.subject = approvals[b].subject
      /\ row.status = approvals[b].status /\ row.granted = approvals[b].granted
  BY <1>1 DEF ApprovalRow
<1>3. approvals' = [approvals EXCEPT ![b] = row]
  BY DEF Lapse
<1> HIDE DEF row
<1>4. approvals' \in Seq(ApprovalRow) /\ DOMAIN approvals' = DOMAIN approvals
  BY <1>2, <1>3, ExceptSeq DEF ApprovalsTypeOK
<1> QED
  BY <1>2, <1>3, <1>4

LEMMA DecidedRow ==
  ASSUME ApprovalsTypeOK, NEW a \in DOMAIN approvals, NEW value \in ApprovalStatus
  PROVE  /\ Decided(a, value) \in ApprovalRow
         /\ Decided(a, value).subject = approvals[a].subject /\ Decided(a, value).status = value
         /\ Decided(a, value).granted <=> approvals[a].granted \/ value = "APPROVED"
<1>1. approvals[a] \in ApprovalRow
  BY RowsTyped
<1> DEFINE granted == approvals[a].granted \/ value = "APPROVED"
<1>2. granted \in BOOLEAN
  OBVIOUS
<1>3. Decided(a, value) = [approvals[a] EXCEPT !.status = value, !.granted = granted]
  BY <1>1 DEF Decided, ApprovalRow
<1> HIDE DEF granted
<1>4. /\ Decided(a, value) \in ApprovalRow
      /\ Decided(a, value).subject = approvals[a].subject /\ Decided(a, value).status = value
      /\ Decided(a, value).granted = granted
  BY <1>1, <1>2, <1>3 DEF ApprovalRow
<1> QED
  BY <1>4 DEF granted

LEMMA CommitRows ==
  ASSUME ApprovalsTypeOK, DeskSound, NEW c \in Clerks, Commit(c)
  PROVE  /\ approvals' \in Seq(ApprovalRow) /\ DOMAIN approvals' = DOMAIN approvals
         /\ desk[c].value \in {"APPROVED", "REJECTED", "EXPIRED"} /\ desk[c].on \subseteq DOMAIN approvals
         /\ \A a \in DOMAIN approvals :
              /\ approvals'[a].subject = approvals[a].subject
              /\ approvals'[a].status = IF a \in desk[c].on THEN desk[c].value ELSE approvals[a].status
              /\ approvals'[a].granted
                   <=> approvals[a].granted \/ (a \in desk[c].on /\ desk[c].value = "APPROVED")
<1>1. /\ desk[c].value \in {"APPROVED", "REJECTED", "EXPIRED"} /\ desk[c].on \subseteq DOMAIN approvals
      /\ desk[c].value \in ApprovalStatus
  BY DEF Commit, Sits, DeskSound, ApprovalStatus
<1>2. /\ DOMAIN approvals' = DOMAIN approvals
      /\ approvals' = [a \in DOMAIN approvals' |-> approvals'[a]]
      /\ \A a \in DOMAIN approvals :
           approvals'[a] = IF a \in desk[c].on THEN Decided(a, desk[c].value) ELSE approvals[a]
  BY DEF Commit, WriteDecision
<1>3. \A a \in DOMAIN approvals : approvals'[a] \in ApprovalRow
  BY <1>1, <1>2, RowsTyped, DecidedRow
<1>4. approvals' \in Seq(ApprovalRow)
  BY <1>2, <1>3, RewriteRows DEF ApprovalsTypeOK
<1>5. ASSUME NEW a \in DOMAIN approvals
      PROVE  /\ approvals'[a].subject = approvals[a].subject
             /\ approvals'[a].status = IF a \in desk[c].on THEN desk[c].value ELSE approvals[a].status
             /\ approvals'[a].granted
                  <=> approvals[a].granted \/ (a \in desk[c].on /\ desk[c].value = "APPROVED")
  <2>1. CASE a \in desk[c].on
    BY <1>1, <1>2, <2>1, DecidedRow
  <2>2. CASE a \notin desk[c].on
    BY <1>2, <2>2
  <2> QED
    BY <2>1, <2>2
<1> QED
  BY <1>1, <1>2, <1>4, <1>5

(***************************************************************************)
(* Every step keeps the types and the soundness of the desks.              *)
(***************************************************************************)
LEMMA StepInd ==
  ASSUME ApprovalsInd, ApprovalsNext \/ Restart
  PROVE  ApprovalsInd'
<1> USE DEF ApprovalsInd, ApprovalsTypeOK
<1>a. ASSUME UNCHANGED approvals PROVE GrantsRecorded'
  BY <1>a DEF GrantsRecorded
<1>0. DOMAIN approvals \subseteq Nat /\ Len(approvals) \in Nat
      /\ DOMAIN approvals = 1 .. Len(approvals)
  BY LenProperties
<1>1. ASSUME NEW c \in Clerks, NEW i \in Intents, Request(c, i)
      PROVE  ApprovalsInd'
  <2>1. approvals' \in Seq(ApprovalRow) /\ DOMAIN approvals \subseteq DOMAIN approvals'
    BY <1>1, RequestRows
  <2>2. intentState' \in [Intents -> AuthorizationState]
    BY <1>1 DEF Request, AuthorizationState, ApprovalStatus
  <2>3. desk' \in [Clerks -> DeskState]
    BY <1>1 DEF Request, DeskState
  <2>4. DeskSound'
    BY <1>1, <2>1 DEF Request, DeskSound, DeskState
  <2>5. GrantsRecorded'
    BY <1>1, RequestRows DEF GrantsRecorded
  <2> QED
    BY <1>1, <2>1, <2>2, <2>3, <2>4, <2>5 DEF Request
<1>2. ASSUME NEW c \in Clerks, EnterAuthorization(c)
      PROVE  ApprovalsInd'
  <2>1. "CALL_AUTHORIZATION_PENDING" \in MissionStatus
    BY DEF MissionStatus, CallLoop
  <2>2. desk' \in [Clerks -> DeskState]
    BY <1>2, <2>1 DEF EnterAuthorization, Leave, Idle, DeskState
  <2>3. DeskSound'
    BY <1>2, <2>1 DEF EnterAuthorization, Leave, Idle, DeskSound, DeskState
  <2> QED
    BY <1>2, <1>a, <2>2, <2>3 DEF EnterAuthorization
<1>3. ASSUME NEW c \in Clerks, NEW a \in DOMAIN approvals, NEW d \in Decisions, Decide(c, a, d)
      PROVE  ApprovalsInd'
  <2>1. desk' \in [Clerks -> DeskState]
    BY <1>0, <1>3 DEF Decide, DeskState, Decisions, ApprovalStatus
  <2>2. DeskSound'
    BY <1>3 DEF Decide, DeskSound, DeskState, Decisions
  <2> QED
    BY <1>3, <1>a, <2>1, <2>2 DEF Decide
<1>5. ASSUME NEW c \in Clerks, ExpireStale(c)
      PROVE  ApprovalsInd'
  <2>1. Stale \subseteq DOMAIN approvals
    BY DEF Stale
  <2>2. desk' \in [Clerks -> DeskState]
    BY <1>0, <1>5, <2>1 DEF ExpireStale, DeskState, ApprovalStatus
  <2>3. DeskSound'
    BY <1>5, <2>1 DEF ExpireStale, DeskSound, DeskState
  <2> QED
    BY <1>5, <1>a, <2>2, <2>3 DEF ExpireStale
<1>6. ASSUME NEW c \in Clerks, Commit(c)
      PROVE  ApprovalsInd'
  <2>1. approvals' \in Seq(ApprovalRow) /\ DOMAIN approvals' = DOMAIN approvals /\ GrantsRecorded'
    BY <1>6, CommitRows DEF GrantsRecorded
  <2>2. desk[c].value \in AuthorizationState
    BY <1>6, CommitRows DEF AuthorizationState, ApprovalStatus
  <2>3. intentState' \in [Intents -> AuthorizationState]
    BY <1>6, <2>2 DEF Commit, WriteDecision, SetStates
  <2>4. desk' \in [Clerks -> DeskState]
    BY <1>6 DEF Commit, Idle, DeskState
  <2>5. DeskSound'
    BY <1>6, <2>1 DEF Commit, Idle, DeskSound, DeskState
  <2> QED
    BY <1>6, <2>1, <2>3, <2>4, <2>5 DEF Commit
<1>7. ASSUME NEW c \in Clerks, AdvanceMission(c)
      PROVE  ApprovalsInd'
  <2>1. NextMove = "NONE" \/ NextMove \in MissionStatus
    BY DEF NextMove, MissionStatus, CallLoop
  <2>2. desk' \in [Clerks -> DeskState]
    BY <1>7, <2>1 DEF AdvanceMission, Leave, Idle, DeskState
  <2>3. DeskSound'
    BY <1>7, <2>1 DEF AdvanceMission, Leave, Idle, DeskSound, DeskState
  <2> QED
    BY <1>7, <1>a, <2>2, <2>3 DEF AdvanceMission
<1>8. ASSUME NEW c \in Clerks, ValidateMove(c)
      PROVE  ApprovalsInd'
  <2>1. desk' \in [Clerks -> DeskState]
    BY <1>8 DEF ValidateMove, Leave, Idle, DeskState
  <2>2. DeskSound'
    BY <1>8 DEF ValidateMove, Sits, Leave, Idle, DeskSound, DeskState
  <2> QED
    BY <1>8, <1>a, <2>1, <2>2 DEF ValidateMove
<1>9. ASSUME NEW c \in Clerks, ApplyMove(c)
      PROVE  ApprovalsInd'
  <2>1. desk[c].value \in MissionStatus
    BY <1>9 DEF ApplyMove, Sits, DeskSound
  <2>2. mission' \in MissionRow
    BY <1>9, <2>1 DEF ApplyMove, MoveTo, MissionRow
  <2>3. desk' \in [Clerks -> DeskState] /\ DeskSound'
    BY <1>9 DEF ApplyMove, Leave, Idle, DeskState, DeskSound
  <2> QED
    BY <1>9, <1>a, <2>2, <2>3 DEF ApplyMove
<1>10. ASSUME NEW a \in DOMAIN approvals, Lapse(a)
       PROVE  ApprovalsInd'
  <2>1. /\ approvals' \in Seq(ApprovalRow) /\ DOMAIN approvals' = DOMAIN approvals
        /\ GrantsRecorded'
    BY <1>10, LapseRows DEF GrantsRecorded
  <2> QED
    BY <1>10, <2>1 DEF Lapse, DeskSound
<1>11. ASSUME OtherStages
       PROVE  ApprovalsInd'
  <2>1. mission' \in MissionRow
    BY <1>11 DEF OtherStages, MoveTo, MissionRow, MissionStatus, CallLoop
  <2> QED
    BY <1>11, <1>a, <2>1 DEF OtherStages, DeskSound
<1>12. ASSUME Restart
       PROVE  ApprovalsInd'
  BY <1>12, <1>a DEF Restart, Idle, DeskState, DeskSound
<1> QED
  BY <1>1, <1>2, <1>3, <1>5, <1>6, <1>7, <1>8, <1>9, <1>10, <1>11, <1>12
     DEF ApprovalsNext, ClerkStep, Carry

LEMMA StutterInd ==
  ASSUME ApprovalsInd, UNCHANGED approvalVars
  PROVE  ApprovalsInd'
BY DEF ApprovalsInd, ApprovalsTypeOK, DeskSound, GrantsRecorded, approvalVars

(***************************************************************************)
(* Type correctness of the service, with any number of concurrent clerks.  *)
(***************************************************************************)
THEOREM ApprovalsTyped == ApprovalsSpec => []ApprovalsTypeOK
<1>1. ApprovalsInit => ApprovalsInd
  BY InitInd
<1>2. ApprovalsInd /\ [ApprovalsNext \/ Restart]_approvalVars => ApprovalsInd'
  BY StepInd, StutterInd
<1>3. ApprovalsInd => ApprovalsTypeOK
  BY DEF ApprovalsInd
<1> QED
  BY <1>1, <1>2, <1>3, PTL DEF ApprovalsSpec

(***************************************************************************)
(* One step keeps the agreement of intents and approval rows: Request      *)
(* makes the intent PENDING, Commit writes the same value into a row and   *)
(* into the intent of that row, whatever it has read.                      *)
(***************************************************************************)
LEMMA StepIntentState ==
  ASSUME ApprovalsInd, IntentStateHasApproval, ApprovalsNext \/ Restart
  PROVE  IntentStateHasApproval'
<1> USE DEF ApprovalsInd
<1>1. ASSUME NEW c \in Clerks, NEW i \in Intents, Request(c, i)
      PROVE  IntentStateHasApproval'
  <2>1. \A j \in Intents : intentState'[j] = IF j = i THEN "PENDING" ELSE intentState[j]
    BY <1>1 DEF Request, ApprovalsTypeOK
  <2> QED
    BY <1>1, <2>1, RequestRows DEF IntentStateHasApproval
<1>2. ASSUME NEW c \in Clerks, Commit(c)
      PROVE  IntentStateHasApproval'
  <2> DEFINE rows == desk[c].on
             value == desk[c].value
  <2>1. /\ rows \subseteq DOMAIN approvals /\ DOMAIN approvals' = DOMAIN approvals
        /\ \A a \in DOMAIN approvals :
             /\ approvals'[a].subject = approvals[a].subject
             /\ approvals'[a].status = IF a \in rows THEN value ELSE approvals[a].status
    BY <1>2, CommitRows
  <2>2. ASSUME NEW j \in Intents
        PROVE  intentState'[j] = IF \E a \in rows : approvals[a].subject = j
                                 THEN value ELSE intentState[j]
    BY <1>2 DEF Commit, WriteDecision, SetStates
  <2> HIDE DEF rows, value
  <2>3. ASSUME NEW j \in Intents, intentState'[j] \in {"APPROVED", "REJECTED", "EXPIRED"}
        PROVE  \E a \in DOMAIN approvals :
                 approvals'[a].subject = j /\ approvals'[a].status = intentState'[j]
    <3>1. CASE \E a \in rows : approvals[a].subject = j
      BY <2>1, <2>2, <3>1
    <3>2. CASE ~ \E a \in rows : approvals[a].subject = j
      <4>1. intentState'[j] = intentState[j]
        BY <2>2, <3>2
      <4>2. PICK a \in DOMAIN approvals :
              approvals[a].subject = j /\ approvals[a].status = intentState[j]
        BY <2>3, <4>1 DEF IntentStateHasApproval
      <4> QED
        BY <2>1, <3>2, <4>1, <4>2
    <3> QED
      BY <3>1, <3>2
  <2> QED
    BY <2>1, <2>3 DEF IntentStateHasApproval
<1>3. ASSUME NEW b \in DOMAIN approvals, Lapse(b)
      PROVE  IntentStateHasApproval'
  BY <1>3, LapseRows DEF Lapse, IntentStateHasApproval
<1>4. ASSUME UNCHANGED <<approvals, intentState>>
      PROVE  IntentStateHasApproval'
  BY <1>4 DEF IntentStateHasApproval
<1> QED
  BY <1>1, <1>2, <1>3, <1>4
     DEF ApprovalsNext, ClerkStep, Carry, EnterAuthorization, Decide, ExpireStale,
         AdvanceMission, ValidateMove, ApplyMove, OtherStages, Restart

(***************************************************************************)
(* However many clerks race, an intent that says APPROVED, REJECTED or     *)
(* EXPIRED has an approval row that says so too.                           *)
(***************************************************************************)
THEOREM IntentStateSafe == ApprovalsSpec => []IntentStateHasApproval
<1> DEFINE Inv == ApprovalsInd /\ IntentStateHasApproval
<1>1. ApprovalsInit => Inv
  BY InitInd DEF ApprovalsInit, IntentStateHasApproval
<1>2. Inv /\ [ApprovalsNext \/ Restart]_approvalVars => Inv'
  <2>1. Inv /\ (ApprovalsNext \/ Restart) => Inv'
    BY StepInd, StepIntentState
  <2>2. Inv /\ UNCHANGED approvalVars => Inv'
    BY StutterInd DEF IntentStateHasApproval, approvalVars
  <2> QED
    BY <2>1, <2>2
<1>3. Inv => IntentStateHasApproval
  OBVIOUS
<1> QED
  BY <1>1, <1>2, <1>3, PTL DEF ApprovalsSpec

-----------------------------------------------------------------------------
(***************************************************************************)
(* What any step does to the rows that exist: they stay, with their        *)
(* subject, and what was granted has been.                                 *)
(***************************************************************************)
LEMMA RowsStay ==
  ASSUME ApprovalsInd, ApprovalsNext \/ Restart, NEW a \in DOMAIN approvals
  PROVE  /\ a \in DOMAIN approvals'
         /\ approvals'[a].subject = approvals[a].subject
         /\ approvals[a].granted => approvals'[a].granted
<1> DEFINE Kept == /\ a \in DOMAIN approvals'
                   /\ approvals'[a].subject = approvals[a].subject
                   /\ approvals[a].granted => approvals'[a].granted
<1>1. ASSUME NEW c \in Clerks, NEW i \in Intents, Request(c, i) PROVE Kept
  BY <1>1, RequestRows DEF ApprovalsInd
<1>2. ASSUME NEW c \in Clerks, Commit(c) PROVE Kept
  BY <1>2, CommitRows DEF ApprovalsInd
<1>3. ASSUME NEW b \in DOMAIN approvals, Lapse(b) PROVE Kept
  BY <1>3, LapseRows DEF ApprovalsInd
<1>4. ASSUME UNCHANGED approvals PROVE Kept
  BY <1>4
<1> QED
  BY <1>1, <1>2, <1>3, <1>4
     DEF ApprovalsNext, ClerkStep, Carry, EnterAuthorization, Decide, ExpireStale,
         AdvanceMission, ValidateMove, ApplyMove, OtherStages, Restart

LEMMA GrantStays ==
  ASSUME ApprovalsInd, ApprovalsNext \/ Restart, AnyGranted
  PROVE  AnyGranted'
<1>1. PICK a \in DOMAIN approvals : approvals[a].granted
  BY DEF AnyGranted
<1>2. a \in DOMAIN approvals' /\ approvals'[a].granted
  BY <1>1, RowsStay
<1> QED
  BY <1>2 DEF AnyGranted

(***************************************************************************)
(* The target CALL_AUTHORIZED is chosen only while an approval is          *)
(* APPROVED; what happens to that approval until the move is written, it   *)
(* was granted.                                                            *)
(***************************************************************************)
LEMMA StepAuthorized ==
  ASSUME ApprovalsInd, TargetHasApproval, AuthorizedHasApproval,
         ApprovalsNext \/ Restart
  PROVE  TargetHasApproval' /\ AuthorizedHasApproval'
<1> USE DEF ApprovalsInd, ApprovalsTypeOK
<1> SUFFICES ASSUME ~AnyGranted
             PROVE  TargetHasApproval' /\ AuthorizedHasApproval'
  BY GrantStays DEF TargetHasApproval, AuthorizedHasApproval
<1> DEFINE Away(d) == desk[d].pc \in {"moving", "applying"} => desk[d].value # "CALL_AUTHORIZED"
           AwayNext(d) == desk'[d].pc \in {"moving", "applying"} =>
                            desk'[d].value # "CALL_AUTHORIZED"
<1>0. /\ mission.status # "CALL_AUTHORIZED"
      /\ \A d \in Clerks : Away(d)
  BY DEF TargetHasApproval, AuthorizedHasApproval
<1>1. ASSUME NEW c \in Clerks,
             \/ \E i \in Intents : Request(c, i)
             \/ EnterAuthorization(c)
             \/ \E a \in DOMAIN approvals : \E e \in Decisions : Decide(c, a, e)
             \/ ExpireStale(c)
             \/ Commit(c)
      PROVE  mission'.status # "CALL_AUTHORIZED" /\ \A d \in Clerks : AwayNext(d)
  <2>1. UNCHANGED mission
    BY <1>1 DEF Request, EnterAuthorization, Decide, ExpireStale, Commit
  <2>2. \/ UNCHANGED desk
        \/ /\ desk'[c].pc \in {"moving", "applying"} => desk'[c].value # "CALL_AUTHORIZED"
           /\ \A d \in Clerks \ {c} : desk'[d] = desk[d]
    <3>1. CASE \E i \in Intents : Request(c, i)
      BY <3>1 DEF Request, DeskState
    <3>2. CASE EnterAuthorization(c)
      BY <3>2 DEF EnterAuthorization, Leave, Idle, DeskState
    <3>3. CASE \E a \in DOMAIN approvals : \E e \in Decisions : Decide(c, a, e)
      BY <3>3 DEF Decide
    <3>5. CASE ExpireStale(c)
      BY <3>5 DEF ExpireStale
    <3>6. CASE Commit(c)
      BY <3>6 DEF Commit, Idle
    <3> QED
      BY <1>1, <3>1, <3>2, <3>3, <3>5, <3>6
  <2> QED
    BY <1>0, <2>1, <2>2
<1>2. ASSUME NEW c \in Clerks, AdvanceMission(c)
      PROVE  mission'.status # "CALL_AUTHORIZED" /\ \A d \in Clerks : AwayNext(d)
  <2>1. NextMove # "CALL_AUTHORIZED"
    BY DEF NextMove, AnyApproval, AnyGranted, GrantsRecorded
  <2> QED
    BY <1>0, <1>2, <2>1 DEF AdvanceMission, Leave, Idle, DeskState
<1>3. ASSUME NEW c \in Clerks, ValidateMove(c)
      PROVE  mission'.status # "CALL_AUTHORIZED" /\ \A d \in Clerks : AwayNext(d)
  BY <1>0, <1>3 DEF ValidateMove, Sits, Leave, Idle, DeskState
<1>4. ASSUME NEW c \in Clerks, ApplyMove(c)
      PROVE  mission'.status # "CALL_AUTHORIZED" /\ \A d \in Clerks : AwayNext(d)
  <2>1. mission'.status = desk[c].value /\ desk[c].value # "CALL_AUTHORIZED"
    BY <1>0, <1>4 DEF ApplyMove, Sits, MoveTo, MissionRow
  <2> QED
    BY <1>0, <1>4, <2>1 DEF ApplyMove, Leave, Idle, DeskState
<1>5. ASSUME OtherStages
      PROVE  mission'.status # "CALL_AUTHORIZED" /\ \A d \in Clerks : AwayNext(d)
  <2>1. mission'.status # "CALL_AUTHORIZED"
    BY <1>5 DEF OtherStages, MoveTo, MissionRow
  <2> QED
    BY <1>0, <1>5, <2>1 DEF OtherStages
<1>6. ASSUME Restart \/ \E a \in DOMAIN approvals : Lapse(a)
      PROVE  mission'.status # "CALL_AUTHORIZED" /\ \A d \in Clerks : AwayNext(d)
  BY <1>0, <1>6 DEF Restart, Lapse, Idle
<1>7. mission'.status # "CALL_AUTHORIZED" /\ \A d \in Clerks : AwayNext(d)
  BY <1>1, <1>2, <1>3, <1>4, <1>5, <1>6 DEF ApprovalsNext, ClerkStep, Carry
<1> QED
  BY <1>7 DEF TargetHasApproval, AuthorizedHasApproval

(***************************************************************************)
(* The inductive invariant of the service.                                 *)
(***************************************************************************)
ServiceInd == ApprovalsInd /\ TargetHasApproval /\ AuthorizedHasApproval

(***************************************************************************)
(* However decisions, sweeps and requests race, a mission is authorized    *)
(* only after the user granted an approval of it, though the move is read, *)
(* chosen, validated and written in four separate steps.                   *)
(***************************************************************************)
THEOREM AuthorizedSafe == ApprovalsSpec => []AuthorizedHasApproval
<1>1. ApprovalsInit => ServiceInd
  BY InitInd DEF ApprovalsInit, Idle, ServiceInd, TargetHasApproval, AuthorizedHasApproval
<1>2. ServiceInd /\ [ApprovalsNext \/ Restart]_approvalVars => ServiceInd'
  <2>1. ServiceInd /\ (ApprovalsNext \/ Restart) => ServiceInd'
    BY StepInd, StepAuthorized DEF ServiceInd
  <2>2. ServiceInd /\ UNCHANGED approvalVars => ServiceInd'
    BY StutterInd DEF ServiceInd, TargetHasApproval, AuthorizedHasApproval, AnyGranted, approvalVars
  <2> QED
    BY <2>1, <2>2
<1>3. ServiceInd => AuthorizedHasApproval
  BY DEF ServiceInd
<1> QED
  BY <1>1, <1>2, <1>3, PTL DEF ApprovalsSpec

-----------------------------------------------------------------------------
(***************************************************************************)
(* The call round.                                                         *)
(***************************************************************************)
TaskSound ==
  \A t \in Tasks :
    /\ exec[t].pc # "idle" => exec[t].intent \in Intents
    /\ exec[t].pc \in {"polling", "answered"} => remote[exec[t].intent] # "none"
    /\ exec[t].pc = "answered" =>
         /\ exec[t].answer \in {"active", "terminal"}
         /\ exec[t].answer = "terminal" => remote[exec[t].intent] = "terminal"
    /\ exec[t].pc = "ingesting" =>
         /\ exec[t].run \in DOMAIN runs
         /\ runs[exec[t].run].status = "terminal"
         /\ runs[exec[t].run].ingested = 0

HookSound ==
  \A h \in Deliveries :
    /\ hook[h].pc # "idle" => hook[h].event \in Events
    /\ hook[h].pc \in {"rereading", "ingesting"} => hook[h].run \in DOMAIN runs
    /\ hook[h].pc = "rereading" => runs[hook[h].run].intent = CallOf[hook[h].event]
    /\ hook[h].pc = "ingesting" =>
         /\ runs[hook[h].run].status = "terminal"
         /\ runs[hook[h].run].ingested = 0

RunSound ==
  \A r \in DOMAIN runs :
    /\ remote[runs[r].intent] # "none"
    /\ runs[r].status = "terminal" => remote[runs[r].intent] = "terminal"
    /\ runs[r].status = "active" => runs[r].ingested = 0
    /\ runs[r].ingested <= 1

OneWriter ==
  /\ \A t, u \in Tasks :
       exec[t].pc = "ingesting" /\ exec[u].pc = "ingesting" /\ exec[t].run = exec[u].run => t = u
  /\ \A h, k \in Deliveries :
       hook[h].pc = "ingesting" /\ hook[k].pc = "ingesting" /\ hook[h].run = hook[k].run => h = k
  /\ \A t \in Tasks, h \in Deliveries :
       exec[t].pc = "ingesting" /\ hook[h].pc = "ingesting" => exec[t].run # hook[h].run

RoundInd ==
  /\ ApprovalsInd
  /\ ExecutionTypeOK
  /\ HookTypeOK
  /\ TaskSound
  /\ HookSound
  /\ RunSound
  /\ OneWriter

(***************************************************************************)
(* What a gated attempt may rely on.                                       *)
(***************************************************************************)
DialSound ==
  /\ \A i \in Intents : remote[i] # "none" => Granted(i)
  /\ \A t \in Tasks : exec[t].pc \in {"creating", "replaying"} => Granted(exec[t].intent)

-----------------------------------------------------------------------------
LEMMA RunsFacts ==
  ASSUME ExecutionTypeOK
  PROVE  /\ Len(runs) \in Nat
         /\ DOMAIN runs = 1 .. Len(runs)
         /\ \A r \in DOMAIN runs : runs[r] \in RunRow
BY LenProperties, ElementOfSeq DEF ExecutionTypeOK

LEMMA RoundInit == Init => RoundInd /\ DialSound
<1> SUFFICES ASSUME Init PROVE RoundInd /\ DialSound
  OBVIOUS
<1>1. ApprovalsInd
  BY InitInd DEF Init
<1>2. runs = << >> /\ runs \in Seq(RunRow) /\ DOMAIN runs = {}
  BY EmptySeq DEF Init, ExecutionInit
<1>3. ExecutionTypeOK
  <2>1. AtRest \in ExecState
    BY DEF AtRest, ExecState, ExecPC, MissionRow, MissionStatus, RemoteState
  <2> QED
    BY <1>2, <2>1 DEF Init, ExecutionInit, ExecutionTypeOK, RemoteState
<1>4. HookTypeOK
  BY DEF Init, HookTypeOK, HookAtRest, HookState, HookPC
<1>5. TaskSound /\ HookSound /\ RunSound /\ OneWriter /\ DialSound
  BY <1>2 DEF Init, ExecutionInit, AtRest, HookAtRest, TaskSound, HookSound, RunSound, OneWriter,
              DialSound
<1> QED
  BY <1>1, <1>3, <1>4, <1>5 DEF RoundInd

(***************************************************************************)
(* The rest of the system writes mission and intent rows only with values  *)
(* of their types, and leaves the approvals and the desks alone.           *)
(***************************************************************************)
LEMMA ForeignWrites ==
  ASSUME ApprovalsInd, UNCHANGED <<approvals, desk>>,
         mission' \in MissionRow, intentState' \in [Intents -> AuthorizationState]
  PROVE  ApprovalsInd'
BY DEF ApprovalsInd, ApprovalsTypeOK, DeskSound, GrantsRecorded

(***************************************************************************)
(* Steps that store nothing in a run: what CALL-E knows only advances, and *)
(* whoever moves is sound where it arrives and does not begin to ingest.   *)
(***************************************************************************)
TaskFine(e) ==
  /\ e.pc # "idle" => e.intent \in Intents
  /\ e.pc \in {"polling", "answered"} => remote[e.intent] # "none"
  /\ e.pc = "answered" =>
       /\ e.answer \in {"active", "terminal"}
       /\ e.answer = "terminal" => remote[e.intent] = "terminal"
  /\ e.pc # "ingesting"

HookFine(k) ==
  /\ k.pc # "idle" => k.event \in Events
  /\ k.pc = "rereading" => k.run \in DOMAIN runs /\ runs[k.run].intent = CallOf[k.event]
  /\ k.pc # "ingesting"

RemoteAdvances ==
  \A i \in Intents :
    /\ remote[i] # "none" => remote'[i] # "none"
    /\ remote[i] = "terminal" => remote'[i] = "terminal"

LEMMA QuietStep ==
  ASSUME RoundInd, UNCHANGED runs, RemoteAdvances,
         \A t \in Tasks : exec'[t] = exec[t] \/ TaskFine(exec[t])',
         \A h \in Deliveries : hook'[h] = hook[h] \/ HookFine(hook[h])'
  PROVE  TaskSound' /\ HookSound' /\ RunSound' /\ OneWriter'
<1>0. /\ TaskSound /\ HookSound /\ RunSound /\ OneWriter
      /\ \A r \in DOMAIN runs : runs[r].intent \in Intents
  BY RunsFacts DEF RoundInd, RunRow
<1>1. TaskSound'
  BY <1>0 DEF TaskSound, TaskFine, RemoteAdvances
<1>2. HookSound'
  BY <1>0 DEF HookSound, HookFine
<1>3. RunSound'
  BY <1>0 DEF RunSound, RemoteAdvances
<1>4. \A t \in Tasks : exec'[t].pc = "ingesting" => exec'[t] = exec[t]
  BY DEF TaskFine
<1>5. \A h \in Deliveries : hook'[h].pc = "ingesting" => hook'[h] = hook[h]
  BY DEF HookFine
<1>6. OneWriter'
  BY <1>0, <1>4, <1>5 DEF OneWriter
<1> QED
  BY <1>1, <1>2, <1>3, <1>6

LEMMA QuietTask ==
  ASSUME RoundInd, ApprovalsInd', UNCHANGED <<runs, attempted, hookVars>>,
         remote' \in [Intents -> RemoteState], RemoteAdvances,
         NEW t \in Tasks, exec' \in [Tasks -> ExecState],
         \A u \in Tasks : u # t => exec'[u] = exec[u],
         TaskFine(exec[t])'
  PROVE  RoundInd'
<1>1. ExecutionTypeOK' /\ HookTypeOK'
  BY DEF RoundInd, ExecutionTypeOK, HookTypeOK, hookVars
<1>2. TaskSound' /\ HookSound' /\ RunSound' /\ OneWriter'
  BY QuietStep DEF hookVars
<1> QED
  BY <1>1, <1>2 DEF RoundInd

(***************************************************************************)
(* The steps of a task that only read, or write the mission.               *)
(***************************************************************************)
Rests(t) ==
  \/ exec'[t] = AtRest
  \/ exec'[t].pc \notin {"idle", "polling", "answered", "ingesting"} /\ exec'[t].intent \in Intents

LEMMA ReadingTask ==
  ASSUME RoundInd, ApprovalsInd', UNCHANGED <<runs, remote, hookVars>>,
         attempted' \in SUBSET Intents,
         NEW t \in Tasks, exec' \in [Tasks -> ExecState],
         \A u \in Tasks : u # t => exec'[u] = exec[u],
         Rests(t)
  PROVE  RoundInd'
<1>1. ExecutionTypeOK' /\ HookTypeOK'
  BY DEF RoundInd, ExecutionTypeOK, HookTypeOK, hookVars
<1>2. TaskFine(exec[t])'
  BY DEF Rests, TaskFine, AtRest
<1>3. TaskSound' /\ HookSound' /\ RunSound' /\ OneWriter'
  BY <1>2, QuietStep DEF RemoteAdvances, hookVars
<1> QED
  BY <1>1, <1>3 DEF RoundInd

LEMMA GotoRests ==
  ASSUME exec \in [Tasks -> ExecState], NEW t \in Tasks, exec[t].intent \in Intents,
         NEW pc \in ExecPC \ {"idle", "polling", "answered", "ingesting"}, Goto(t, pc)
  PROVE  /\ exec' \in [Tasks -> ExecState] /\ Rests(t)
         /\ \A u \in Tasks : u # t => exec'[u] = exec[u]
<1>1. exec[t] \in ExecState
  OBVIOUS
<1>2. exec' = [exec EXCEPT ![t] = [exec[t] EXCEPT !.pc = pc]]
  BY DEF Goto
<1>3. [exec[t] EXCEPT !.pc = pc] \in ExecState
  BY <1>1 DEF ExecState
<1> QED
  BY <1>1, <1>2, <1>3 DEF Rests, ExecState

LEMMA ReturnRests ==
  ASSUME exec \in [Tasks -> ExecState], NEW t \in Tasks, Return(t)
  PROVE  /\ exec' \in [Tasks -> ExecState] /\ Rests(t)
         /\ \A u \in Tasks : u # t => exec'[u] = exec[u]
<1>1. AtRest \in ExecState
  BY DEF AtRest, ExecState, ExecPC, MissionRow, MissionStatus, RemoteState
<1> QED
  BY <1>1 DEF Return, Rests

LEMMA StepReadingTask ==
  ASSUME RoundInd, UNCHANGED hookVars, NEW t \in Tasks,
         \/ \E i \in Intents : Load(t, i)
         \/ Precheck(t)
         \/ EnterExecution(t)
         \/ EnteredExecution(t)
         \/ GateAgain(t)
         \/ MarkResultsReceived(t)
         \/ FinishCall(t)
         \/ BlockWrite(t)
         \/ ProposeBlocked(t)
         \/ BlockMove(t)
  PROVE  RoundInd'
<1> USE DEF RoundInd, ExecutionTypeOK
<1>0. /\ exec[t] \in ExecState
      /\ exec[t].pc # "idle" => exec[t].intent \in Intents
      /\ AtRest \in ExecState
      /\ mission \in MissionRow /\ intentState \in [Intents -> AuthorizationState]
  BY DEF TaskSound, ApprovalsInd, ApprovalsTypeOK, AtRest, ExecState, ExecPC, MissionRow,
         MissionStatus, RemoteState
<1>1. ASSUME NEW i \in Intents, Load(t, i)
      PROVE  RoundInd'
  <2>1. ApprovalsInd'
    BY <1>1, StutterInd DEF Load
  <2>2. exec' \in [Tasks -> ExecState] /\ Rests(t)
    BY <1>0, <1>1 DEF Load, ExecState, ExecPC, Rests
  <2> QED
    BY <1>1, <2>1, <2>2, ReadingTask DEF Load
<1>2. ASSUME Precheck(t)
      PROVE  RoundInd'
  <2>1. ApprovalsInd'
    BY <1>2, StutterInd DEF Precheck
  <2>2. ASSUME NEW a, ApprovalGate(exec[t].intent, a)
        PROVE  a \in Nat
    <3>1. DOMAIN approvals = 1 .. Len(approvals) /\ Len(approvals) \in Nat
      BY LenProperties DEF ApprovalsInd, ApprovalsTypeOK
    <3> QED
      BY <2>2, <3>1 DEF ApprovalGate
  <2>3. exec' \in [Tasks -> ExecState] /\ Rests(t)
    <3>1. CASE Return(t)
      BY <3>1, ReturnRests
    <3>2. CASE ~Return(t)
      <4>1. PICK a \in Nat : exec' = [exec EXCEPT ![t].pc = "planned", ![t].approval = a]
        BY <1>2, <2>2, <3>2 DEF Precheck, GatePasses
      <4> QED
        BY <1>0, <1>2, <4>1 DEF Precheck, ExecState, ExecPC, Rests
    <3> QED
      BY <3>1, <3>2
  <2> QED
    BY <1>2, <2>1, <2>3, ReadingTask DEF Precheck, Return
<1>3. ASSUME EnterExecution(t)
      PROVE  RoundInd'
  <2>1. ApprovalsInd'
    BY <1>3, StutterInd DEF EnterExecution
  <2>2. [mission EXCEPT !.status = "CALL_EXECUTION_RUNNING"] \in MissionRow
    BY <1>0 DEF MissionRow, MissionStatus, CallLoop
  <2>3. exec' \in [Tasks -> ExecState] /\ Rests(t)
    <3>1. CASE Goto(t, "entered") \/ Return(t)
      BY <1>0, <1>3, <3>1, GotoRests, ReturnRests DEF EnterExecution, ExecPC
    <3>2. CASE ~(Goto(t, "entered") \/ Return(t))
      <4>1. exec' = [exec EXCEPT ![t].pc = "entering",
                       ![t].seen = [mission EXCEPT !.status = "CALL_EXECUTION_RUNNING"]]
        BY <1>3, <3>2 DEF EnterExecution
      <4> QED
        BY <1>0, <1>3, <2>2, <4>1 DEF EnterExecution, ExecState, ExecPC, Rests
    <3> QED
      BY <3>1, <3>2
  <2> QED
    BY <1>3, <2>1, <2>3, ReadingTask DEF EnterExecution, Goto, Return
<1>4. ASSUME EnteredExecution(t)
      PROVE  RoundInd'
  <2>1. mission' \in MissionRow
    BY <1>0, <1>4 DEF EnteredExecution, MoveTo, MissionRow, MissionStatus, CallLoop
  <2>2. ApprovalsInd'
    BY <1>0, <1>4, <2>1, ForeignWrites DEF EnteredExecution
  <2>3. exec' \in [Tasks -> ExecState] /\ Rests(t)
    BY <1>0, <1>4 DEF EnteredExecution, Goto, ExecState, ExecPC, Rests
  <2> QED
    BY <1>4, <2>2, <2>3, ReadingTask DEF EnteredExecution, Goto
<1>5. ASSUME GateAgain(t)
      PROVE  RoundInd'
  <2>1. ApprovalsInd'
    BY <1>5, StutterInd DEF GateAgain
  <2>2. exec[t].pc = "entered"
    BY <1>5 DEF GateAgain
  <2>3. attempted' \in SUBSET Intents
    BY <1>0, <1>5, <2>2 DEF GateAgain
  <2>4. exec' \in [Tasks -> ExecState] /\ Rests(t)
    BY <1>0, <1>5, <2>2, GotoRests DEF GateAgain, ExecPC
  <2> QED
    BY <1>5, <2>1, <2>3, <2>4, ReadingTask DEF GateAgain, Goto
<1>6. ASSUME MarkResultsReceived(t)
      PROVE  RoundInd'
  <2>1. ApprovalsInd'
    BY <1>6, StutterInd DEF MarkResultsReceived
  <2>2. exec' \in [Tasks -> ExecState] /\ Rests(t)
    BY <1>0, <1>6, GotoRests, ReturnRests DEF MarkResultsReceived, ExecPC
  <2> QED
    BY <1>6, <2>1, <2>2, ReadingTask DEF MarkResultsReceived, Goto, Return
<1>7. ASSUME FinishCall(t)
      PROVE  RoundInd'
  <2>1. mission' \in MissionRow
    BY <1>0, <1>7 DEF FinishCall, MoveTo, MissionRow, MissionStatus, CallLoop
  <2>2. ApprovalsInd'
    BY <1>0, <1>7, <2>1, ForeignWrites DEF FinishCall
  <2>3. exec' \in [Tasks -> ExecState] /\ Rests(t)
    BY <1>0, <1>7 DEF FinishCall, Return, Rests
  <2> QED
    BY <1>7, <2>2, <2>3, ReadingTask DEF FinishCall, Return
<1>8. ASSUME BlockWrite(t)
      PROVE  RoundInd'
  <2>1. mission' \in MissionRow
    BY <1>0, <1>8 DEF BlockWrite, ExecState
  <2>2. ApprovalsInd'
    BY <1>0, <1>8, <2>1, ForeignWrites DEF BlockWrite
  <2>3. exec' \in [Tasks -> ExecState] /\ Rests(t)
    BY <1>0, <1>8 DEF BlockWrite, Goto, ExecState, ExecPC, Rests
  <2> QED
    BY <1>8, <2>2, <2>3, ReadingTask DEF BlockWrite, Goto
<1>9. ASSUME ProposeBlocked(t)
      PROVE  RoundInd'
  <2>1. ApprovalsInd'
    BY <1>9, StutterInd DEF ProposeBlocked
  <2>2. exec' \in [Tasks -> ExecState] /\ Rests(t)
    BY <1>0, <1>9, GotoRests, ReturnRests DEF ProposeBlocked, ExecPC
  <2> QED
    BY <1>9, <2>1, <2>2, ReadingTask DEF ProposeBlocked, Goto, Return
<1>10. ASSUME BlockMove(t)
       PROVE  RoundInd'
  <2>1. mission' \in MissionRow
    BY <1>0, <1>10 DEF BlockMove, MoveTo, MissionRow, MissionStatus, TerminalStates
  <2>2. ApprovalsInd'
    BY <1>0, <1>10, <2>1, ForeignWrites DEF BlockMove
  <2>3. exec' \in [Tasks -> ExecState] /\ Rests(t)
    BY <1>0, <1>10 DEF BlockMove, Return, Rests
  <2> QED
    BY <1>10, <2>2, <2>3, ReadingTask DEF BlockMove, Return
<1> QED
  BY <1>1, <1>2, <1>3, <1>4, <1>5, <1>6, <1>7, <1>8, <1>9, <1>10

(***************************************************************************)
(* The steps of a task that speak with CALL-E.                             *)
(***************************************************************************)
LEMMA RestsIsFine ==
  ASSUME NEW t \in Tasks, Rests(t)
  PROVE  TaskFine(exec[t])'
BY DEF Rests, TaskFine, AtRest

LEMMA CreateAdvances ==
  ASSUME remote \in [Intents -> RemoteState], NEW i \in Intents,
         RemoteCreate(i) \/ UNCHANGED remote
  PROVE  /\ remote' \in [Intents -> RemoteState] /\ RemoteAdvances
         /\ RemoteCreate(i) => remote'[i] \in {"active", "terminal"}
BY DEF RemoteCreate, RemoteAdvances, RemoteState

LEMMA StepCallingTask ==
  ASSUME RoundInd, UNCHANGED hookVars, NEW t \in Tasks,
         CreateCall(t) \/ ReconcileByRead(t) \/ Poll(t)
  PROVE  RoundInd'
<1> USE DEF RoundInd, ExecutionTypeOK
<1> DEFINE i == exec[t].intent
<1>0. exec[t] \in ExecState /\ i \in Intents
  BY DEF TaskSound, CreateCall, ReconcileByRead, Poll
<1>1. ASSUME CreateCall(t)
      PROVE  RoundInd'
  <2>1. ApprovalsInd'
    BY <1>1, StutterInd DEF CreateCall
  <2>2. remote' \in [Intents -> RemoteState] /\ RemoteAdvances
    BY <1>0, <1>1, CreateAdvances DEF CreateCall
  <2>3. /\ exec' \in [Tasks -> ExecState]
        /\ \A u \in Tasks : u # t => exec'[u] = exec[u]
        /\ TaskFine(exec[t])'
    <3>1. CASE Goto(t, AfterAmbiguity(t)) \/ Goto(t, "blocking")
      <4>1. AfterAmbiguity(t) \in {"replaying", "blocking"}
        BY DEF AfterAmbiguity
      <4> QED
        BY <1>0, <3>1, <4>1, GotoRests, RestsIsFine DEF ExecPC
    <3>2. CASE RemoteCreate(i) /\ Settle(t, remote'[i])
      <4>1. remote'[i] \in {"active", "terminal"}
        BY <1>0, <3>2, CreateAdvances
      <4>2. PICK pc \in {"answered", "polling"} :
              exec' = [exec EXCEPT ![t].pc = pc, ![t].answer = remote'[i]]
        BY <3>2 DEF Settle
      <4>3. exec' \in [Tasks -> ExecState] /\ \A u \in Tasks : u # t => exec'[u] = exec[u]
        BY <1>0, <4>1, <4>2 DEF ExecState, ExecPC, RemoteState
      <4>4. exec'[t].pc = pc /\ exec'[t].answer = remote'[i] /\ exec'[t].intent = i
        BY <1>0, <4>2 DEF ExecState
      <4>5. TaskFine(exec[t])'
        BY <1>0, <4>1, <4>4 DEF TaskFine
      <4> QED
        BY <4>3, <4>5
    <3> QED
      BY <1>1, <3>1, <3>2 DEF CreateCall
  <2> QED
    BY <1>1, <2>1, <2>2, <2>3, QuietTask DEF CreateCall
<1>2. ASSUME ReconcileByRead(t)
      PROVE  RoundInd'
  <2>1. ApprovalsInd'
    BY <1>2, StutterInd DEF ReconcileByRead
  <2>2. remote' \in [Intents -> RemoteState] /\ RemoteAdvances
    BY <1>2 DEF ReconcileByRead, RemoteAdvances
  <2>3. remote[i] \in {"active", "terminal"}
    BY <1>0, <1>2 DEF ReconcileByRead, RunsOf, RunSound, RemoteState
  <2>4. /\ exec' \in [Tasks -> ExecState]
        /\ \A u \in Tasks : u # t => exec'[u] = exec[u]
        /\ TaskFine(exec[t])'
    <3>1. CASE Goto(t, "blocking")
      BY <1>0, <3>1, GotoRests, RestsIsFine DEF ExecPC
    <3>2. CASE exec' = [exec EXCEPT ![t].pc = "answered", ![t].answer = remote[i]]
      <4>1. exec' \in [Tasks -> ExecState] /\ \A u \in Tasks : u # t => exec'[u] = exec[u]
        BY <1>0, <2>3, <3>2 DEF ExecState, ExecPC, RemoteState
      <4>2. exec'[t].pc = "answered" /\ exec'[t].answer = remote[i] /\ exec'[t].intent = i
        BY <1>0, <3>2 DEF ExecState
      <4> QED
        BY <1>0, <1>2, <2>3, <4>1, <4>2 DEF TaskFine, ReconcileByRead
    <3> QED
      BY <1>2, <3>1, <3>2 DEF ReconcileByRead
  <2> QED
    BY <1>2, <2>1, <2>2, <2>4, QuietTask DEF ReconcileByRead
<1>3. ASSUME Poll(t)
      PROVE  RoundInd'
  <2>1. ApprovalsInd'
    BY <1>3, StutterInd DEF Poll
  <2>2. remote' \in [Intents -> RemoteState] /\ RemoteAdvances
    BY <1>3 DEF Poll, RemoteAdvances
  <2>3. /\ exec' \in [Tasks -> ExecState]
        /\ \A u \in Tasks : u # t => exec'[u] = exec[u]
        /\ TaskFine(exec[t])'
    <3>1. CASE Goto(t, "blocking")
      BY <1>0, <3>1, GotoRests, RestsIsFine DEF ExecPC
    <3>2. CASE /\ remote[i] = "terminal"
               /\ exec' = [exec EXCEPT ![t].pc = "answered", ![t].answer = "terminal"]
      <4>1. exec' \in [Tasks -> ExecState] /\ \A u \in Tasks : u # t => exec'[u] = exec[u]
        BY <1>0, <3>2 DEF ExecState, ExecPC, RemoteState
      <4>2. exec'[t].pc = "answered" /\ exec'[t].answer = "terminal" /\ exec'[t].intent = i
        BY <1>0, <3>2 DEF ExecState
      <4> QED
        BY <1>0, <1>3, <3>2, <4>1, <4>2 DEF TaskFine, Poll
    <3> QED
      BY <1>3, <3>1, <3>2 DEF Poll
  <2> QED
    BY <1>3, <2>1, <2>2, <2>3, QuietTask DEF Poll
<1> QED
  BY <1>1, <1>2, <1>3

(***************************************************************************)
(* Steps in which no task and no delivery moves.                           *)
(***************************************************************************)
LEMMA StepOthers ==
  ASSUME RoundInd, UNCHANGED hookVars,
         \/ ApprovalsNext /\ UNCHANGED executionVars
         \/ \E i \in Intents : CancelLocal(i) \/ RemoteFinishes(i)
  PROVE  RoundInd'
<1> USE DEF RoundInd
<1>1. ASSUME ApprovalsNext, UNCHANGED executionVars
      PROVE  RoundInd'
  <2>1. ApprovalsInd'
    BY <1>1, StepInd
  <2>2. TaskSound' /\ HookSound' /\ RunSound' /\ OneWriter'
    BY <1>1, QuietStep DEF executionVars, hookVars, RemoteAdvances
  <2> QED
    BY <1>1, <2>1, <2>2 DEF executionVars, hookVars, ExecutionTypeOK, HookTypeOK
<1>2. ASSUME NEW i \in Intents, CancelLocal(i)
      PROVE  RoundInd'
  <2>1. mission' \in MissionRow /\ intentState' \in [Intents -> AuthorizationState]
    BY <1>2 DEF CancelLocal, ApprovalsInd, ApprovalsTypeOK, AuthorizationState
  <2>2. ApprovalsInd'
    BY <1>2, <2>1, ForeignWrites DEF CancelLocal
  <2>3. TaskSound' /\ HookSound' /\ RunSound' /\ OneWriter'
    BY <1>2, QuietStep DEF CancelLocal, executionVars, hookVars, RemoteAdvances
  <2> QED
    BY <1>2, <2>2, <2>3 DEF CancelLocal, executionVars, hookVars, ExecutionTypeOK, HookTypeOK
<1>3. ASSUME NEW i \in Intents, RemoteFinishes(i)
      PROVE  RoundInd'
  <2>1. ApprovalsInd'
    BY <1>3, StutterInd DEF RemoteFinishes
  <2>2. remote' \in [Intents -> RemoteState] /\ RemoteAdvances
    BY <1>3 DEF RemoteFinishes, RemoteAdvances, ExecutionTypeOK, RemoteState
  <2>3. TaskSound' /\ HookSound' /\ RunSound' /\ OneWriter'
    BY <1>3, <2>2, QuietStep DEF RemoteFinishes, hookVars
  <2> QED
    BY <1>3, <2>1, <2>2, <2>3 DEF RemoteFinishes, hookVars, ExecutionTypeOK, HookTypeOK
<1> QED
  BY <1>1, <1>2, <1>3

LEMMA StepRestart ==
  ASSUME RoundInd, RestartAll
  PROVE  RoundInd'
<1> USE DEF RoundInd, RestartAll, RestartExecution
<1>1. ApprovalsInd'
  BY StepInd
<1>2. /\ \A t \in Tasks : TaskFine(exec[t])'
      /\ \A h \in Deliveries : HookFine(hook[h])'
  BY DEF TaskFine, HookFine, AtRest, HookAtRest
<1>3. TaskSound' /\ HookSound' /\ RunSound' /\ OneWriter'
  BY <1>2, QuietStep DEF RemoteAdvances
<1>4. AtRest \in ExecState /\ HookAtRest \in HookState
  BY DEF AtRest, ExecState, ExecPC, MissionRow, MissionStatus, RemoteState, HookAtRest, HookState,
         HookPC
<1>5. ExecutionTypeOK' /\ HookTypeOK'
  BY <1>4 DEF ExecutionTypeOK, HookTypeOK
<1> QED
  BY <1>1, <1>3, <1>5

(***************************************************************************)
(* The steps that store: a run is added at the end of the sequence, or one *)
(* row of it is rewritten for the same intent.                             *)
(***************************************************************************)
LEMMA RewriteRun ==
  ASSUME ExecutionTypeOK, NEW r \in DOMAIN runs, NEW row \in RunRow,
         runs' = [runs EXCEPT ![r] = row]
  PROVE  /\ runs' \in Seq(RunRow) /\ DOMAIN runs' = DOMAIN runs
         /\ runs'[r] = row
         /\ \A q \in DOMAIN runs : q # r => runs'[q] = runs[q]
BY RunsFacts, ExceptSeq DEF ExecutionTypeOK

LEMMA StepPersist ==
  ASSUME RoundInd, UNCHANGED hookVars, NEW t \in Tasks, PersistRun(t)
  PROVE  RoundInd'
<1> USE DEF RoundInd
<1> DEFINE n == Len(runs) + 1
           row == [intent |-> exec[t].intent, status |-> exec[t].answer, ingested |-> 0]
<1>0. /\ exec[t].pc = "answered" /\ exec[t].intent \in Intents
      /\ exec[t].answer \in {"active", "terminal"} /\ remote[exec[t].intent] # "none"
      /\ exec[t].answer = "terminal" => remote[exec[t].intent] = "terminal"
      /\ exec[t] \in ExecState
  BY DEF PersistRun, TaskToRun, TaskSound, ExecutionTypeOK
<1>1. row \in RunRow
  BY <1>0 DEF RunRow
<1>2. /\ runs' \in Seq(RunRow) /\ n \in Nat /\ n \notin DOMAIN runs
      /\ DOMAIN runs' = DOMAIN runs \cup {n} /\ runs'[n] = row
      /\ \A r \in DOMAIN runs : runs'[r] = runs[r]
  BY <1>1, RunsFacts, AppendProperties, LenProperties DEF PersistRun, TaskToRun, ExecutionTypeOK
<1>3. ApprovalsInd'
  <2>1. mission' \in MissionRow
    BY DEF PersistRun, TaskToRun, ApprovalsInd, ApprovalsTypeOK, MissionRow
  <2> QED
    BY <2>1, ForeignWrites DEF PersistRun, TaskToRun, ApprovalsInd, ApprovalsTypeOK
<1>4. /\ \/ Return(t)
         \/ /\ exec[t].answer = "terminal"
            /\ exec' = [exec EXCEPT ![t].pc = "ingesting", ![t].run = n]
      /\ UNCHANGED remote
  BY DEF PersistRun, TaskToRun
<1>5. exec' \in [Tasks -> ExecState]
  <2>1. CASE Return(t)
    BY <2>1, ReturnRests DEF ExecutionTypeOK
  <2>2. CASE exec' = [exec EXCEPT ![t].pc = "ingesting", ![t].run = n]
    BY <1>0, <1>2, <2>2 DEF ExecutionTypeOK, ExecState, ExecPC
  <2> QED
    BY <1>4, <2>1, <2>2
<1>6. ExecutionTypeOK' /\ HookTypeOK'
  BY <1>2, <1>5 DEF PersistRun, TaskToRun, ExecutionTypeOK, HookTypeOK, hookVars
<1>7. /\ \A u \in Tasks : u # t => exec'[u] = exec[u]
      /\ exec'[t].pc = "idle" \/ /\ exec'[t].pc = "ingesting" /\ exec'[t].run = n
                                 /\ exec'[t].intent \in Intents /\ row.status = "terminal"
  <2>1. CASE Return(t)
    BY <2>1 DEF Return, AtRest, ExecutionTypeOK
  <2>2. CASE /\ exec[t].answer = "terminal"
             /\ exec' = [exec EXCEPT ![t].pc = "ingesting", ![t].run = n]
    BY <1>0, <2>2 DEF ExecState, ExecutionTypeOK
  <2> QED
    BY <1>4, <2>1, <2>2
<1>8. TaskSound'
  BY <1>2, <1>4, <1>7 DEF TaskSound
<1>9. HookSound'
  BY <1>2 DEF HookSound, hookVars
<1>10. RunSound'
  BY <1>0, <1>2, <1>4 DEF RunSound
<1>11. OneWriter'
  BY <1>2, <1>7 DEF OneWriter, TaskSound, HookSound, hookVars
<1> QED
  BY <1>3, <1>6, <1>8, <1>9, <1>10, <1>11

LEMMA StepIngest ==
  ASSUME RoundInd, UNCHANGED hookVars, NEW t \in Tasks, IngestResult(t)
  PROVE  RoundInd'
<1> USE DEF RoundInd
<1> DEFINE r == exec[t].run
           row == [runs[r] EXCEPT !.ingested = @ + 1]
<1>0. /\ exec[t].pc = "ingesting" /\ exec[t].intent \in Intents /\ exec[t] \in ExecState
      /\ r \in DOMAIN runs /\ runs[r].status = "terminal" /\ runs[r].ingested = 0
      /\ runs[r] \in RunRow
  BY RunsFacts DEF IngestResult, TaskSound, ExecutionTypeOK
<1>1. ApprovalsInd'
  BY StutterInd DEF IngestResult
<1>2. CASE WriteClaims(r) /\ Goto(t, "marking")
  <2>1. row \in RunRow /\ row = [runs[r] EXCEPT !.ingested = 1]
    BY <1>0 DEF RunRow
  <2>2. runs' = [runs EXCEPT ![r] = row]
    BY <1>2 DEF WriteClaims
  <2>3. /\ runs' \in Seq(RunRow) /\ DOMAIN runs' = DOMAIN runs
        /\ runs'[r].status = "terminal" /\ runs'[r].ingested = 1
        /\ runs'[r].intent = runs[r].intent
        /\ \A q \in DOMAIN runs : q # r => runs'[q] = runs[q]
    BY <1>0, <2>1, <2>2, RewriteRun DEF RunRow
  <2>4. /\ exec' \in [Tasks -> ExecState] /\ exec'[t].pc = "marking"
        /\ exec'[t].intent \in Intents
        /\ \A u \in Tasks : u # t => exec'[u] = exec[u]
    BY <1>0, <1>2 DEF Goto, ExecutionTypeOK, ExecState, ExecPC
  <2>5. ExecutionTypeOK' /\ HookTypeOK'
    BY <2>3, <2>4 DEF IngestResult, ExecutionTypeOK, HookTypeOK, hookVars
  <2>6. \A u \in Tasks : exec'[u].pc = "ingesting" => exec'[u] = exec[u] /\ exec[u].run # r
    BY <1>0, <2>4 DEF OneWriter
  <2>7. \A h \in Deliveries : hook'[h] = hook[h] /\ (hook[h].pc = "ingesting" => hook[h].run # r)
    BY <1>0 DEF OneWriter, hookVars
  <2> HIDE DEF r, row
  <2>8. TaskSound'
    BY <2>3, <2>4, <2>6 DEF TaskSound, IngestResult
  <2>9. HookSound'
    BY <2>3, <2>7 DEF HookSound
  <2>10. RunSound'
    BY <1>0, <2>3 DEF RunSound, IngestResult
  <2>11. OneWriter'
    BY <2>6, <2>7 DEF OneWriter
  <2> QED
    BY <1>1, <2>5, <2>8, <2>9, <2>10, <2>11
<1>3. CASE UNCHANGED runs /\ Return(t)
  BY <1>1, <1>3, ReturnRests, ReadingTask DEF IngestResult, ExecutionTypeOK
<1> QED
  BY <1>2, <1>3 DEF IngestResult

(***************************************************************************)
(* The steps of a delivery.                                                *)
(***************************************************************************)
LEMMA QuietHook ==
  ASSUME RoundInd, ApprovalsInd', UNCHANGED executionVars, HookTypeOK',
         NEW h \in Deliveries, \A k \in Deliveries : k # h => hook'[k] = hook[k],
         HookFine(hook[h])'
  PROVE  RoundInd'
<1>1. ExecutionTypeOK'
  BY DEF RoundInd, ExecutionTypeOK, executionVars
<1>2. TaskSound' /\ HookSound' /\ RunSound' /\ OneWriter'
  BY QuietStep DEF RemoteAdvances, executionVars
<1> QED
  BY <1>1, <1>2 DEF RoundInd

LEMMA ConcludeRests ==
  ASSUME HookTypeOK, NEW h \in Deliveries, hook[h].event \in Events,
         NEW outcome \in Outcome, Conclude(h, outcome)
  PROVE  /\ HookTypeOK' /\ hook'[h] = HookAtRest
         /\ \A k \in Deliveries : k # h => hook'[k] = hook[k]
BY DEF Conclude, HookTypeOK, HookAtRest, HookState, HookPC

LEMMA HookGotoMoves ==
  ASSUME HookTypeOK, NEW h \in Deliveries, NEW pc \in HookPC, HookGoto(h, pc), UNCHANGED receipt
  PROVE  /\ HookTypeOK' /\ hook'[h] = [hook[h] EXCEPT !.pc = pc] /\ hook'[h].pc = pc
         /\ hook'[h].event = hook[h].event /\ hook'[h].run = hook[h].run
         /\ \A k \in Deliveries : k # h => hook'[k] = hook[k]
BY DEF HookGoto, HookTypeOK, HookState, HookPC

LEMMA StepQuietHook ==
  ASSUME RoundInd, NEW h \in Deliveries,
         \/ \E e \in Events : Receive(h, e)
         \/ Readmit(h)
         \/ Correlate(h)
         \/ MarkDelivered(h)
         \/ ValidateDelivered(h)
         \/ FinishDelivery(h)
  PROVE  RoundInd'
<1> USE DEF RoundInd
<1>0. /\ HookTypeOK /\ hook[h] \in HookState
      /\ hook[h].pc # "idle" => hook[h].event \in Events
  BY DEF HookTypeOK, HookSound
<1>1. ASSUME NEW pc \in {"readmitting", "correlating"}, NEW e \in Events,
             hook' = [hook EXCEPT ![h] = [pc |-> pc, event |-> e, run |-> 0]],
             receipt' = receipt \/ receipt' = [receipt EXCEPT ![e] = "received"],
             UNCHANGED callVars
      PROVE  RoundInd'
  <2>1. ApprovalsInd'
    BY <1>1, StutterInd DEF callVars
  <2>2. HookTypeOK'
    BY <1>1 DEF HookTypeOK, HookState, HookPC, Outcome
  <2>3. HookFine(hook[h])'
    BY <1>1 DEF HookFine, HookTypeOK
  <2> QED
    BY <1>1, <2>1, <2>2, <2>3, QuietHook DEF HookTypeOK, callVars
<1>2. ASSUME NEW outcome \in Outcome, hook[h].pc # "idle", Conclude(h, outcome),
             ApprovalsInd', UNCHANGED executionVars
      PROVE  RoundInd'
  <2>1. /\ HookTypeOK' /\ hook'[h] = HookAtRest
        /\ \A k \in Deliveries : k # h => hook'[k] = hook[k]
    BY <1>0, <1>2, ConcludeRests
  <2>2. HookFine(hook[h])'
    BY <2>1 DEF HookFine, HookAtRest
  <2> QED
    BY <1>2, <2>1, <2>2, QuietHook
<1>3. ASSUME NEW pc \in {"moving", "applying"}, hook[h].pc # "idle", HookGoto(h, pc),
             UNCHANGED <<receipt, callVars>>
      PROVE  RoundInd'
  <2>1. ApprovalsInd'
    BY <1>3, StutterInd DEF callVars
  <2>2. /\ HookTypeOK' /\ hook'[h].pc = pc /\ hook'[h].event = hook[h].event
        /\ \A k \in Deliveries : k # h => hook'[k] = hook[k]
    BY <1>0, <1>3, HookGotoMoves DEF HookPC
  <2>3. HookFine(hook[h])'
    BY <1>0, <1>3, <2>2 DEF HookFine
  <2> QED
    BY <1>3, <2>1, <2>2, <2>3, QuietHook DEF callVars
<1>4. UNCHANGED callVars => ApprovalsInd' /\ UNCHANGED executionVars
  BY StutterInd DEF callVars
<1>5. ASSUME NEW e \in Events, Receive(h, e)
      PROVE  RoundInd'
  BY <1>1, <1>5 DEF Receive, Record
<1>6. ASSUME Readmit(h)
      PROVE  RoundInd'
  BY <1>0, <1>1, <1>6 DEF Readmit, Record
<1>7. ASSUME Correlate(h)
      PROVE  RoundInd'
  <2>1. CASE \E o \in {"rejected_payload", "rejected_uncorrelated", "processed"} : Conclude(h, o)
    BY <1>2, <1>4, <1>7, <2>1 DEF Correlate, Outcome
  <2>2. CASE hook' = [hook EXCEPT ![h] = HookAtRest] /\ UNCHANGED receipt
    <3>1. HookTypeOK' /\ HookFine(hook[h])'
      BY <1>0, <2>2 DEF HookTypeOK, HookAtRest, HookState, HookPC, HookFine
    <3> QED
      BY <1>4, <1>7, <2>2, <3>1, QuietHook DEF Correlate, HookTypeOK
  <2>3. CASE \E r \in RunsOf(CallOf[hook[h].event]) :
               /\ hook' = [hook EXCEPT ![h].pc = "rereading", ![h].run = r]
               /\ UNCHANGED receipt
    <3>1. PICK r \in DOMAIN runs :
            /\ runs[r].intent = CallOf[hook[h].event]
            /\ hook' = [hook EXCEPT ![h].pc = "rereading", ![h].run = r]
            /\ UNCHANGED receipt
      BY <2>3 DEF RunsOf
    <3>2. r \in Nat
      BY RunsFacts
    <3>3. HookTypeOK' /\ HookFine(hook[h])'
      BY <1>0, <1>7, <3>1, <3>2 DEF Correlate, callVars, executionVars, HookTypeOK, HookState,
                                    HookPC, HookFine
    <3> QED
      BY <1>4, <1>7, <3>1, <3>3, QuietHook DEF Correlate, HookTypeOK
  <2> QED
    BY <1>7, <2>1, <2>2, <2>3 DEF Correlate
<1>8. ASSUME MarkDelivered(h)
      PROVE  RoundInd'
  BY <1>2, <1>3, <1>4, <1>8 DEF MarkDelivered, Outcome
<1>9. ASSUME ValidateDelivered(h)
      PROVE  RoundInd'
  BY <1>2, <1>3, <1>4, <1>9 DEF ValidateDelivered, Outcome
<1>10. ASSUME FinishDelivery(h)
       PROVE  RoundInd'
  <2>1. mission' \in MissionRow
    BY <1>10 DEF FinishDelivery, MoveTo, ApprovalsInd, ApprovalsTypeOK, MissionRow,
                 MissionStatus, CallLoop
  <2>2. ApprovalsInd'
    BY <1>10, <2>1, ForeignWrites DEF FinishDelivery, ApprovalsInd, ApprovalsTypeOK
  <2> QED
    BY <1>2, <1>10, <2>2 DEF FinishDelivery, Outcome
<1> QED
  BY <1>5, <1>6, <1>7, <1>8, <1>9, <1>10

LEMMA StepReread ==
  ASSUME RoundInd, NEW h \in Deliveries, Reread(h)
  PROVE  RoundInd'
<1> USE DEF RoundInd
<1> DEFINE r == hook[h].run
           row == [runs[r] EXCEPT !.status = "terminal"]
<1>0. /\ hook[h].pc = "rereading" /\ hook[h].event \in Events /\ hook[h] \in HookState
      /\ r \in DOMAIN runs /\ runs[r].intent = CallOf[hook[h].event] /\ runs[r] \in RunRow
      /\ HookTypeOK /\ UNCHANGED <<remote, attempted, exec>>
  BY RunsFacts DEF Reread, HookSound, HookTypeOK
<1>1. ApprovalsInd'
  BY StutterInd DEF Reread
<1>2. CASE \E o \in {"processed", "not_terminal", "failed"} : Conclude(h, o) /\ UNCHANGED runs
  <2>1. /\ HookTypeOK' /\ hook'[h] = HookAtRest
        /\ \A k \in Deliveries : k # h => hook'[k] = hook[k]
    BY <1>0, <1>2, ConcludeRests DEF Outcome
  <2>2. HookFine(hook[h])'
    BY <2>1 DEF HookFine, HookAtRest
  <2> QED
    BY <1>0, <1>1, <1>2, <2>1, <2>2, QuietHook DEF executionVars
<1>3. CASE /\ remote[CallOf[hook[h].event]] = "terminal" /\ runs[r].status = "active"
           /\ runs' = [runs EXCEPT ![r].status = "terminal"]
           /\ HookGoto(h, "ingesting") /\ UNCHANGED receipt
  <2>1. row \in RunRow
    BY <1>0 DEF RunRow
  <2>2. /\ runs' \in Seq(RunRow) /\ DOMAIN runs' = DOMAIN runs /\ runs'[r] = row
        /\ \A q \in DOMAIN runs : q # r => runs'[q] = runs[q]
    BY <1>0, <1>3, <2>1, RewriteRun
  <2>3. /\ runs'[r].status = "terminal" /\ runs'[r].ingested = 0
        /\ runs'[r].intent = runs[r].intent /\ remote[runs[r].intent] = "terminal"
    BY <1>0, <1>3, <2>2 DEF RunRow, RunSound
  <2>4. /\ HookTypeOK' /\ hook'[h].pc = "ingesting" /\ hook'[h].run = r
        /\ hook'[h].event \in Events
        /\ \A k \in Deliveries : k # h => hook'[k] = hook[k]
    BY <1>0, <1>3, HookGotoMoves DEF HookPC
  <2>5. ExecutionTypeOK'
    BY <1>0, <2>2 DEF ExecutionTypeOK
  <2>6. /\ \A t \in Tasks : exec[t].pc = "ingesting" => exec[t].run # r
        /\ \A k \in Deliveries : k # h /\ hook[k].pc = "ingesting" => hook[k].run # r
    BY <1>3 DEF TaskSound, HookSound
  <2> HIDE DEF r, row
  <2>7. TaskSound'
    BY <1>0, <2>2, <2>6 DEF TaskSound
  <2>8. HookSound'
    <3>1. \A q \in DOMAIN runs : runs'[q].intent = runs[q].intent
      BY <2>2, <2>3
    <3>2. \A k \in Deliveries :
             k # h /\ hook'[k].pc = "ingesting" => runs'[hook'[k].run] = runs[hook[k].run]
      BY <2>2, <2>4, <2>6 DEF HookSound
    <3>3. DOMAIN runs' = DOMAIN runs /\ r \in DOMAIN runs
      BY <1>0, <2>2
    <3> QED
      BY <2>3, <2>4, <3>1, <3>2, <3>3 DEF HookSound
  <2>9. RunSound'
    BY <1>0, <2>2, <2>3 DEF RunSound
  <2>10. OneWriter'
    BY <1>0, <2>4, <2>6 DEF OneWriter
  <2> QED
    BY <1>1, <2>4, <2>5, <2>7, <2>8, <2>9, <2>10
<1> QED
  BY <1>2, <1>3 DEF Reread, PromoteToTerminal

LEMMA StepIngestDelivered ==
  ASSUME RoundInd, NEW h \in Deliveries, IngestDelivered(h)
  PROVE  RoundInd'
<1> USE DEF RoundInd
<1> DEFINE r == hook[h].run
           row == [runs[r] EXCEPT !.ingested = 1]
<1>0. /\ hook[h].pc = "ingesting" /\ hook[h].event \in Events /\ hook[h] \in HookState
      /\ r \in DOMAIN runs /\ runs[r].status = "terminal" /\ runs[r].ingested = 0
      /\ runs[r] \in RunRow /\ HookTypeOK /\ UNCHANGED <<remote, attempted, exec>>
  BY RunsFacts DEF IngestDelivered, HookSound, HookTypeOK
<1>1. ApprovalsInd'
  BY StutterInd DEF IngestDelivered
<1>2. CASE Conclude(h, "failed") /\ UNCHANGED runs
  <2>1. /\ HookTypeOK' /\ hook'[h] = HookAtRest
        /\ \A k \in Deliveries : k # h => hook'[k] = hook[k]
    BY <1>0, <1>2, ConcludeRests DEF Outcome
  <2>2. HookFine(hook[h])'
    BY <2>1 DEF HookFine, HookAtRest
  <2> QED
    BY <1>0, <1>1, <1>2, <2>1, <2>2, QuietHook DEF executionVars
<1>3. CASE WriteClaims(r) /\ HookGoto(h, "marking") /\ UNCHANGED receipt
  <2>1. row \in RunRow /\ row = [runs[r] EXCEPT !.ingested = @ + 1]
    BY <1>0 DEF RunRow
  <2>2. runs' = [runs EXCEPT ![r] = row]
    BY <1>3, <2>1 DEF WriteClaims
  <2>3. /\ runs' \in Seq(RunRow) /\ DOMAIN runs' = DOMAIN runs
        /\ runs'[r].status = "terminal" /\ runs'[r].ingested = 1
        /\ runs'[r].intent = runs[r].intent
        /\ \A q \in DOMAIN runs : q # r => runs'[q] = runs[q]
    BY <1>0, <2>1, <2>2, RewriteRun DEF RunRow
  <2>4. /\ HookTypeOK' /\ hook'[h].pc = "marking" /\ hook'[h].event \in Events
        /\ \A k \in Deliveries : k # h => hook'[k] = hook[k]
    BY <1>0, <1>3, HookGotoMoves DEF HookPC
  <2>5. ExecutionTypeOK'
    BY <1>0, <2>3 DEF ExecutionTypeOK
  <2>6. /\ \A t \in Tasks : exec[t].pc = "ingesting" => exec[t].run # r
        /\ \A k \in Deliveries : k # h /\ hook[k].pc = "ingesting" => hook[k].run # r
    BY <1>0 DEF OneWriter
  <2> HIDE DEF r, row
  <2>7. TaskSound'
    BY <1>0, <2>3, <2>6 DEF TaskSound
  <2>8. HookSound'
    BY <2>3, <2>4, <2>6 DEF HookSound
  <2>9. RunSound'
    BY <1>0, <2>3 DEF RunSound
  <2>10. OneWriter'
    BY <1>0, <2>4, <2>6 DEF OneWriter
  <2> QED
    BY <1>1, <2>4, <2>5, <2>7, <2>8, <2>9, <2>10
<1> QED
  BY <1>2, <1>3 DEF IngestDelivered

LEMMA RoundStutter ==
  ASSUME RoundInd, UNCHANGED vars
  PROVE  RoundInd'
<1>1. ApprovalsInd'
  BY StutterInd DEF RoundInd, vars, callVars
<1>2. /\ ExecutionTypeOK' /\ HookTypeOK'
      /\ TaskSound' /\ HookSound' /\ RunSound' /\ OneWriter'
  BY DEF RoundInd, vars, callVars, executionVars, hookVars, ExecutionTypeOK, HookTypeOK,
         TaskSound, HookSound, RunSound, OneWriter
<1> QED
  BY <1>1, <1>2 DEF RoundInd

LEMMA RoundInductive == RoundInd /\ [Next]_vars => RoundInd'
<1> SUFFICES ASSUME RoundInd, [Next]_vars PROVE RoundInd'
  OBVIOUS
<1>1. ASSUME ExecutionNext, UNCHANGED hookVars
      PROVE  RoundInd'
  <2>1. ASSUME NEW t \in Tasks, TaskStep(t)
        PROVE  RoundInd'
    BY <1>1, <2>1, StepReadingTask, StepCallingTask, StepPersist, StepIngest
       DEF TaskStep, CarryOn
  <2> QED
    BY <1>1, <2>1, StepOthers DEF ExecutionNext
<1>2. ASSUME NEW h \in Deliveries, DeliveryStep(h)
      PROVE  RoundInd'
  BY <1>2, StepQuietHook, StepReread, StepIngestDelivered DEF DeliveryStep, CarryDelivery
<1> QED
  BY <1>1, <1>2, StepRestart, RoundStutter DEF Next

-----------------------------------------------------------------------------
(***************************************************************************)
(* Type correctness of the whole round.                                    *)
(***************************************************************************)
THEOREM RoundTyped == Spec => []TypeOK
<1>1. RoundInd => TypeOK
  BY DEF RoundInd, ApprovalsInd, TypeOK, CallTypeOK
<1> QED
  BY <1>1, RoundInit, RoundInductive, PTL DEF Spec

(***************************************************************************)
(* Whatever finalizers, duplicate events, failed writes and restarts do,   *)
(* the claims of a run are written at most once.                           *)
(***************************************************************************)
THEOREM ClaimsOnce == Spec => []ClaimsWrittenOnce
<1>1. RoundInd => ClaimsWrittenOnce
  BY DEF RoundInd, RunSound, ClaimsWrittenOnce
<1> QED
  BY <1>1, RoundInit, RoundInductive, PTL DEF Spec

(***************************************************************************)
(* Claims come only from a call that CALL-E reports terminal.              *)
(***************************************************************************)
THEOREM EvidenceSound == Spec => []EvidenceFromFinishedCall
<1>1. RoundInd => EvidenceFromFinishedCall
  <2> SUFFICES ASSUME RoundInd, NEW r \in DOMAIN runs
               PROVE  /\ runs[r].ingested > 0 => runs[r].status = "terminal"
                      /\ runs[r].status = "terminal" => remote[runs[r].intent] = "terminal"
    BY DEF EvidenceFromFinishedCall
  <2>1. runs[r].status \in {"active", "terminal"}
    BY RunsFacts DEF RoundInd, RunRow
  <2> QED
    BY <2>1 DEF RoundInd, RunSound
<1> QED
  BY <1>1, RoundInit, RoundInductive, PTL DEF Spec

(***************************************************************************)
(* What a step does to the runs that exist.                                *)
(***************************************************************************)
RunsGrow ==
  \A r \in DOMAIN runs :
    /\ r \in DOMAIN runs'
    /\ runs'[r].intent = runs[r].intent
    /\ runs[r].status = "terminal" => runs'[r].status = "terminal"

LEMMA StepRunsGrow == RoundInd /\ [Next]_vars => RunsGrow
<1> SUFFICES ASSUME RoundInd, [Next]_vars PROVE RunsGrow
  OBVIOUS
<1>0. ExecutionTypeOK /\ \A r \in DOMAIN runs : runs[r] \in RunRow
  BY RunsFacts DEF RoundInd
<1>1. ASSUME NEW t \in Tasks, PersistRun(t)
      PROVE  RunsGrow
  <2>1. [intent |-> exec[t].intent, status |-> exec[t].answer, ingested |-> 0] \in RunRow
    BY <1>1 DEF RoundInd, TaskSound, PersistRun, TaskToRun, RunRow
  <2> QED
    BY <1>0, <1>1, <2>1, RunsFacts, AppendProperties, LenProperties
       DEF PersistRun, TaskToRun, RunsGrow, ExecutionTypeOK
<1>2. ASSUME NEW q \in DOMAIN runs, WriteClaims(q)
      PROVE  RunsGrow
  BY <1>0, <1>2 DEF WriteClaims, RunsGrow, RunRow
<1>3. ASSUME NEW q \in DOMAIN runs, runs' = [runs EXCEPT ![q].status = "terminal"]
      PROVE  RunsGrow
  BY <1>0, <1>3 DEF RunsGrow, RunRow
<1>4. ASSUME UNCHANGED runs
      PROVE  RunsGrow
  BY <1>4 DEF RunsGrow
<1>5. ASSUME NEW t \in Tasks, TaskStep(t)
      PROVE  RunsGrow
  <2>1. CASE IngestResult(t)
    BY <1>2, <1>4, <2>1 DEF IngestResult, RoundInd, TaskSound
  <2> QED
    BY <1>1, <1>4, <1>5, <2>1
       DEF TaskStep, CarryOn, Load, Precheck, EnterExecution, EnteredExecution, GateAgain,
           CreateCall, ReconcileByRead, Poll, MarkResultsReceived, FinishCall, BlockWrite,
           ProposeBlocked, BlockMove
<1>6. ASSUME NEW h \in Deliveries, DeliveryStep(h)
      PROVE  RunsGrow
  <2>1. CASE IngestDelivered(h)
    BY <1>2, <1>4, <2>1 DEF IngestDelivered, RoundInd, HookSound
  <2>2. CASE Reread(h)
    BY <1>3, <1>4, <2>2 DEF Reread, PromoteToTerminal, RoundInd, HookSound
  <2> QED
    BY <1>4, <1>6, <2>1, <2>2
       DEF DeliveryStep, CarryDelivery, Receive, Readmit, Correlate, MarkDelivered,
           ValidateDelivered, FinishDelivery, callVars, executionVars
<1> QED
  BY <1>4, <1>5, <1>6
     DEF Next, ExecutionNext, CancelLocal, RemoteFinishes, RestartAll, RestartExecution,
         executionVars, vars, callVars

(***************************************************************************)
(* A stored run never leaves the terminal status and is never lost.        *)
(***************************************************************************)
THEOREM RunsAdvance == Spec => RunsOnlyAdvance
<1>1. RoundInd /\ [Next]_vars =>
        [\A r \in DOMAIN runs :
           /\ r \in DOMAIN runs'
           /\ runs[r].status = "terminal" => runs'[r].status = "terminal"]_vars
  BY StepRunsGrow DEF RunsGrow
<1> QED
  BY <1>1, RoundInit, RoundInductive, PTL DEF Spec, RunsOnlyAdvance

-----------------------------------------------------------------------------
(***************************************************************************)
(* A delivery past the promotion speaks of a run whose end is stored.      *)
(***************************************************************************)
EndStored(e) == \E r \in RunsOf(CallOf[e]) : runs[r].status = "terminal"

PastPromotion ==
  \A h \in Deliveries :
    hook[h].pc \in {"ingesting", "marking", "moving", "applying"} => EndStored(hook[h].event)

LEMMA EndStays ==
  ASSUME RoundInd, [Next]_vars, NEW e, EndStored(e)
  PROVE  EndStored(e)'
BY StepRunsGrow DEF RunsGrow, EndStored, RunsOf

LEMMA StepProcessed ==
  ASSUME RoundInd, PastPromotion, ProcessedMeansStored, [Next]_vars
  PROVE  PastPromotion' /\ ProcessedMeansStored'
<1> USE DEF RoundInd, HookTypeOK
<1> DEFINE Past == {"ingesting", "marking", "moving", "applying"}
<1>0. \A r \in DOMAIN runs : runs[r] \in RunRow
  BY RunsFacts
<1>1. ASSUME NEW h \in Deliveries, NEW e, e = hook'[h].event,
             /\ hook'[h].pc \in Past
             /\ ~(hook[h].pc \in Past /\ hook'[h].event = hook[h].event)
      PROVE  EndStored(e)'
  <2>1. /\ Reread(h) /\ hook'[h].event = hook[h].event
        /\ runs' = [runs EXCEPT ![hook[h].run].status = "terminal"]
    <3>1. \E k \in Deliveries : DeliveryStep(k)
      BY <1>1 DEF Next, ExecutionNext, RestartAll, HookAtRest, hookVars, vars
    <3>2. PICK k \in Deliveries : DeliveryStep(k)
      BY <3>1
    <3>3. CASE k # h
      BY <1>1, <3>2, <3>3
         DEF DeliveryStep, CarryDelivery, Receive, Readmit, Record, Correlate, Reread,
             PromoteToTerminal, IngestDelivered, MarkDelivered, ValidateDelivered,
             FinishDelivery, Conclude, HookGoto
    <3>4. CASE k = h /\ ~Reread(h)
      BY <1>1, <3>2, <3>4
         DEF DeliveryStep, CarryDelivery, Receive, Readmit, Record, Correlate,
             IngestDelivered, MarkDelivered, ValidateDelivered, FinishDelivery, Conclude,
             HookGoto, HookAtRest, HookState
    <3>5. CASE Reread(h)
      BY <1>1, <3>5 DEF Reread, PromoteToTerminal, Conclude, HookGoto, HookAtRest, HookState
    <3> QED
      BY <3>2, <3>3, <3>4, <3>5
  <2>2. hook[h].run \in DOMAIN runs /\ runs[hook[h].run].intent = CallOf[hook[h].event]
    BY <2>1 DEF Reread, HookSound
  <2>3. /\ hook[h].run \in DOMAIN runs' /\ runs'[hook[h].run].status = "terminal"
        /\ runs'[hook[h].run].intent = CallOf[e]
    BY <1>0, <1>1, <2>1, <2>2 DEF RunRow
  <2> QED
    BY <2>3 DEF EndStored, RunsOf
<1>2. PastPromotion'
  <2>1. \A h \in Deliveries : \A e \in Events :
          hook'[h].pc \in Past /\ e = hook'[h].event => EndStored(e)'
    BY <1>1, EndStays DEF PastPromotion
  <2>2. \A h \in Deliveries : hook'[h].pc \in Past => hook'[h].event \in Events
    BY RoundInductive DEF HookSound
  <2> QED
    BY <2>1, <2>2 DEF PastPromotion, EndStored, RunsOf
<1>3. ASSUME NEW e \in Events, receipt'[e] = "processed", receipt[e] # "processed"
      PROVE  EndStored(e)
  <2>1. \E h \in Deliveries : DeliveryStep(h)
    BY <1>3 DEF Next, ExecutionNext, RestartAll, hookVars, vars
  <2>2. PICK h \in Deliveries : DeliveryStep(h)
    BY <2>1
  <2>3. hook[h].event = e /\ Conclude(h, "processed")
    BY <1>3, <2>2
       DEF DeliveryStep, CarryDelivery, Receive, Readmit, Record, Correlate, Reread,
           PromoteToTerminal, IngestDelivered, MarkDelivered, ValidateDelivered,
           FinishDelivery, Conclude, HookGoto, callVars, Outcome
  <2>4. CASE hook[h].pc \in Past
    BY <2>3, <2>4 DEF PastPromotion
  <2>5. CASE Correlate(h)
    <3>1. \E r \in RunsOf(CallOf[e]) : Finalized(r)
      BY <1>3, <2>3, <2>5 DEF Correlate, Conclude, HookAtRest
    <3> QED
      BY <3>1 DEF Finalized, EndStored
  <2>6. CASE Reread(h)
    <3>1. runs[hook[h].run].status # "active" /\ hook[h].run \in RunsOf(CallOf[e])
      BY <1>3, <2>3, <2>6
         DEF Reread, PromoteToTerminal, Conclude, HookGoto, HookSound, RunsOf
    <3> QED
      BY <1>0, <3>1 DEF EndStored, RunsOf, RunRow
  <2>7. hook[h].pc \in Past \/ Correlate(h) \/ Reread(h)
    <3>1. ~Readmit(h) /\ ~\E d \in Events : Receive(h, d)
      BY <1>3 DEF Receive, Readmit, Record
    <3> QED
      BY <2>2, <3>1
         DEF DeliveryStep, CarryDelivery, IngestDelivered, MarkDelivered, ValidateDelivered,
             FinishDelivery
  <2> QED
    BY <2>4, <2>5, <2>6, <2>7
<1>4. ProcessedMeansStored'
  <2>1. \A e \in Events : receipt'[e] = "processed" => EndStored(e)
    BY <1>3 DEF ProcessedMeansStored, EndStored
  <2>2. \A e \in Events : receipt'[e] = "processed" => EndStored(e)'
    BY <2>1, EndStays
  <2> QED
    BY <2>2 DEF ProcessedMeansStored, EndStored
<1> QED
  BY <1>2, <1>4

(***************************************************************************)
(* A receipt says processed only when the terminal state of the call is    *)
(* stored, however deliveries of different events race for it.             *)
(***************************************************************************)
THEOREM ProcessedSafe == Spec => []ProcessedMeansStored
<1> DEFINE Inv == RoundInd /\ PastPromotion /\ ProcessedMeansStored
<1>1. Init => Inv
  BY RoundInit DEF Init, HookAtRest, PastPromotion, ProcessedMeansStored
<1>2. Inv /\ [Next]_vars => Inv'
  BY RoundInductive, StepProcessed
<1>3. Inv => ProcessedMeansStored
  OBVIOUS
<1> QED
  BY <1>1, <1>2, <1>3, PTL DEF Spec

-----------------------------------------------------------------------------
(***************************************************************************)
(* The approvals of the round change in the service only.                  *)
(***************************************************************************)
LEMMA RoundRows ==
  ASSUME [Next]_vars
  PROVE  \/ ApprovalsNext /\ UNCHANGED <<executionVars, hookVars>>
         \/ Restart
         \/ UNCHANGED <<approvals, desk>>
<1>1. ASSUME NEW t \in Tasks, TaskStep(t)
      PROVE  UNCHANGED <<approvals, desk>>
  BY <1>1
     DEF TaskStep, CarryOn, Load, Precheck, EnterExecution, EnteredExecution, GateAgain,
         CreateCall, ReconcileByRead, Poll, PersistRun, TaskToRun, IngestResult, MarkResultsReceived,
         FinishCall, BlockWrite, ProposeBlocked, BlockMove, approvalVars
<1>2. ASSUME NEW h \in Deliveries, DeliveryStep(h)
      PROVE  UNCHANGED <<approvals, desk>>
  BY <1>2
     DEF DeliveryStep, CarryDelivery, Receive, Readmit, Correlate, Reread, IngestDelivered,
         MarkDelivered, ValidateDelivered, FinishDelivery, callVars, approvalVars
<1> QED
  BY <1>1, <1>2
     DEF Next, ExecutionNext, CancelLocal, RemoteFinishes, RestartAll, RestartExecution, vars,
         callVars, approvalVars

LEMMA GrantedIsKept ==
  ASSUME ApprovalsInd, [Next]_vars, NEW i, Granted(i)
  PROVE  Granted(i)'
<1>1. PICK a \in DOMAIN approvals : approvals[a].subject = i /\ approvals[a].granted
  BY DEF Granted
<1>2. CASE ApprovalsNext \/ Restart
  BY <1>1, <1>2, RowsStay DEF Granted
<1>3. CASE UNCHANGED <<approvals, desk>>
  BY <1>3 DEF Granted
<1> QED
  BY <1>2, <1>3, RoundRows

(***************************************************************************)
(* Only a create under way dials, and it gets under way only through the   *)
(* approval gate.                                                          *)
(***************************************************************************)
Dialing(t, i) == exec[t].pc \in {"creating", "replaying"} /\ exec[t].intent = i

LEMMA StepDials ==
  ASSUME RoundInd, [Next]_vars, NEW i \in Intents, remote[i] = "none", remote'[i] # "none"
  PROVE  \E t \in Tasks : CreateCall(t) /\ Dialing(t, i)
<1>0. remote \in [Intents -> RemoteState]
  BY DEF RoundInd, ExecutionTypeOK
<1>1. \E t \in Tasks : TaskStep(t)
  BY <1>0
     DEF Next, ExecutionNext, CancelLocal, RemoteFinishes, RestartAll, RestartExecution,
         DeliveryStep, CarryDelivery, Receive, Readmit, Correlate, Reread, IngestDelivered,
         MarkDelivered, ValidateDelivered, FinishDelivery, vars, callVars, executionVars
<1>2. PICK t \in Tasks : TaskStep(t)
  BY <1>1
<1>3. CreateCall(t)
  BY <1>2
     DEF TaskStep, CarryOn, Load, Precheck, EnterExecution, EnteredExecution, GateAgain,
         ReconcileByRead, Poll, PersistRun, TaskToRun, IngestResult, MarkResultsReceived,
         FinishCall, BlockWrite, ProposeBlocked, BlockMove
<1>4. exec[t].intent = i
  BY <1>0, <1>3 DEF CreateCall, RemoteCreate
<1> QED
  BY <1>3, <1>4 DEF CreateCall, Dialing

LEMMA StepDialing ==
  ASSUME RoundInd, [Next]_vars, NEW t \in Tasks, NEW i, Dialing(t, i)'
  PROVE  Dialing(t, i) \/ Granted(i)
<1>0. exec \in [Tasks -> ExecState] /\ GrantsRecorded
  BY DEF RoundInd, ExecutionTypeOK, ApprovalsInd
<1>1. CASE TaskStep(t)
  <2>1. CASE GateAgain(t)
    <3>1. exec'[t].intent = exec[t].intent /\ exec'[t].pc \in {"creating", "blocking"}
      BY <1>0, <2>1 DEF GateAgain, Goto, ExecState
    <3>2. ApprovalGate(exec[t].intent, exec[t].approval) \/ exec'[t].pc = "blocking"
      BY <1>0, <2>1 DEF GateAgain, GatePasses, Goto, ExecState
    <3> QED
      BY <1>0, <3>1, <3>2 DEF ApprovalGate, GrantsRecorded, Granted, Dialing
  <2>2. CASE CreateCall(t)
    <3>1. exec[t].pc \in {"creating", "replaying"} /\ exec[t] \in ExecState
      BY <1>0, <2>2 DEF CreateCall
    <3>2. ASSUME NEW pc, Goto(t, pc)
          PROVE  exec'[t].intent = exec[t].intent
      BY <1>0, <3>1, <3>2 DEF Goto, ExecState
    <3>3. ASSUME NEW status, Settle(t, status)
          PROVE  exec'[t].intent = exec[t].intent
      BY <1>0, <3>1, <3>3 DEF Settle, ExecState
    <3> QED
      BY <2>2, <3>1, <3>2, <3>3 DEF CreateCall, Dialing
  <2>3. CASE Return(t)
    BY <1>0, <2>3 DEF Return, AtRest, Dialing
  <2>4. ASSUME NEW pc \in ExecPC \ {"creating", "replaying"}, exec'[t].pc = pc
        PROVE  FALSE
    BY <2>4 DEF Dialing
  <2>5. CASE (\E j \in Intents : Load(t, j)) \/ Precheck(t) \/ EnterExecution(t)
    <3>1. ASSUME NEW j \in Intents, Load(t, j)
          PROVE  exec'[t].pc = "loaded"
      BY <1>0, <3>1 DEF Load, ExecState
    <3>2. CASE Precheck(t)
      BY <1>0, <2>3, <2>4, <3>2 DEF Precheck, ExecState, ExecPC
    <3>3. CASE EnterExecution(t)
      BY <1>0, <2>3, <2>4, <3>3 DEF EnterExecution, Goto, ExecState, ExecPC
    <3> QED
      BY <2>4, <2>5, <3>1, <3>2, <3>3 DEF ExecPC
  <2>6. CASE EnteredExecution(t) \/ ReconcileByRead(t) \/ Poll(t) \/ PersistRun(t)
               \/ IngestResult(t)
    BY <1>0, <2>3, <2>4, <2>6
       DEF EnteredExecution, ReconcileByRead, Poll, PersistRun, TaskToRun, IngestResult, Goto, ExecState,
           ExecPC
  <2>7. CASE MarkResultsReceived(t) \/ FinishCall(t) \/ BlockWrite(t) \/ ProposeBlocked(t)
               \/ BlockMove(t)
    BY <1>0, <2>3, <2>4, <2>7
       DEF MarkResultsReceived, FinishCall, BlockWrite, ProposeBlocked, BlockMove, Goto,
           ExecState, ExecPC
  <2> QED
    BY <1>1, <2>1, <2>2, <2>5, <2>6, <2>7 DEF TaskStep, CarryOn
<1>2. ASSUME NEW u \in Tasks, u # t, TaskStep(u)
      PROVE  Dialing(t, i)
  BY <1>0, <1>2
     DEF TaskStep, CarryOn, Load, Precheck, EnterExecution, EnteredExecution, GateAgain,
         CreateCall, ReconcileByRead, Poll, PersistRun, TaskToRun, IngestResult, MarkResultsReceived,
         FinishCall, BlockWrite, ProposeBlocked, BlockMove, Settle, Goto, Return, Dialing
<1>3. ASSUME NEW h \in Deliveries, DeliveryStep(h)
      PROVE  Dialing(t, i)
  BY <1>3
     DEF DeliveryStep, CarryDelivery, Receive, Readmit, Correlate, Reread, IngestDelivered,
         MarkDelivered, ValidateDelivered, FinishDelivery, callVars, executionVars, Dialing
<1>4. CASE UNCHANGED exec
  BY <1>4 DEF Dialing
<1>5. CASE RestartAll
  BY <1>5 DEF RestartAll, RestartExecution, AtRest, Dialing
<1> QED
  BY <1>1, <1>2, <1>3, <1>4, <1>5
     DEF Next, ExecutionNext, CancelLocal, RemoteFinishes, executionVars, vars, callVars

LEMMA StepDialSound ==
  ASSUME RoundInd, DialSound, [Next]_vars
  PROVE  DialSound'
<1>0. ApprovalsInd
  BY DEF RoundInd
<1>1. ASSUME NEW i \in Intents, remote'[i] # "none"
      PROVE  Granted(i)'
  <2>1. Granted(i)
    BY <1>1, StepDials DEF DialSound, Dialing
  <2> QED
    BY <1>0, <2>1, GrantedIsKept
<1>2. ASSUME NEW t \in Tasks, NEW i \in Intents, Dialing(t, i)'
      PROVE  Granted(i)'
  <2>1. Granted(i)
    BY <1>2, StepDialing DEF DialSound, Dialing
  <2> QED
    BY <1>0, <2>1, GrantedIsKept
<1>3. \A t \in Tasks : exec'[t].pc \in {"creating", "replaying"} => exec'[t].intent \in Intents
  BY RoundInductive DEF RoundInd, TaskSound
<1>4. \A t \in Tasks : \A i \in Intents :
        exec'[t].pc \in {"creating", "replaying"} /\ exec'[t].intent = i => Granted(i)'
  BY <1>2 DEF Dialing
<1> QED
  BY <1>1, <1>3, <1>4 DEF DialSound, Granted

DialInd == RoundInd /\ DialSound

LEMMA DialInductive ==
  /\ Init => DialInd
  /\ DialInd /\ [Next]_vars => DialInd'
BY RoundInit, RoundInductive, StepDialSound DEF DialInd

(***************************************************************************)
(* An intent that CALL-E was asked to dial was granted an approval by the  *)
(* user, through both gates, lost answers, replays and restarts, and with  *)
(* any number of clerks that decide, sweep and request meanwhile.          *)
(***************************************************************************)
THEOREM DialedSafe == Spec => []DialedOnlyIfApproved
<1>1. DialInd => DialedOnlyIfApproved
  BY DEF DialInd, DialSound, DialedOnlyIfApproved
<1> QED
  BY <1>1, DialInductive, PTL DEF Spec

-----------------------------------------------------------------------------
(***************************************************************************)
(* The budget.  Past its last gate a call keeps its place until its run is *)
(* stored or it gives up; the gate counts the rows, not the places, so     *)
(* that is how far the executions may overdraw the cap together.           *)
(***************************************************************************)
Placing == {"creating", "replaying", "polling", "answered"}

Placed == {t \in Tasks : exec[t].pc \in Placing}

Overdrawn == Len(runs) + Cardinality(Placed) <= MaxCalls + Cardinality(Tasks) - 1

(***************************************************************************)
(* A rewritten run does not change their number.                           *)
(***************************************************************************)
LEMMA SameLength ==
  ASSUME RoundInd, RoundInd', DOMAIN runs' = DOMAIN runs
  PROVE  Len(runs') = Len(runs)
<1>1. Len(runs) \in Nat /\ DOMAIN runs = 1 .. Len(runs)
  BY RunsFacts DEF RoundInd
<1>2. Len(runs') \in Nat /\ DOMAIN runs' = 1 .. Len(runs')
  BY LenProperties DEF RoundInd, ExecutionTypeOK
<1> QED
  BY <1>1, <1>2

(***************************************************************************)
(* The three ways a step deals with places and runs: it takes no place,    *)
(* takes one that the gate saw free, or turns one into a run.              *)
(***************************************************************************)
LEMMA PlacesFacts ==
  ASSUME RoundInd, NEW S \in SUBSET Tasks
  PROVE  /\ Len(runs) \in Nat /\ MaxCalls \in Nat
         /\ IsFiniteSet(S) /\ Cardinality(S) \in Nat /\ Cardinality(Tasks) \in Nat
         /\ Cardinality(S) <= Cardinality(Tasks)
BY RunsFacts, ExecutionAssumption, FS_Subset, FS_CardinalityType DEF RoundInd

LEMMA NoPlaceTaken ==
  ASSUME RoundInd, Overdrawn, Len(runs') = Len(runs), Placed' \subseteq Placed
  PROVE  Overdrawn'
<1>1. Placed \subseteq Tasks
  BY DEF Placed
<1>2. IsFiniteSet(Placed) /\ Cardinality(Placed) \in Nat /\ Cardinality(Tasks) \in Nat
      /\ Len(runs) \in Nat /\ MaxCalls \in Nat
  BY <1>1, PlacesFacts
<1>3. Cardinality(Placed') <= Cardinality(Placed) /\ Cardinality(Placed') \in Nat
  BY <1>2, FS_Subset, FS_CardinalityType
<1> QED
  BY <1>2, <1>3 DEF Overdrawn

LEMMA PlaceTaken ==
  ASSUME RoundInd, BudgetGate, Len(runs') = Len(runs)
  PROVE  Overdrawn'
<1>1. Placed' \subseteq Tasks
  BY DEF Placed
<1>2. Cardinality(Placed') \in Nat /\ Cardinality(Tasks) \in Nat
      /\ Len(runs) \in Nat /\ MaxCalls \in Nat /\ Cardinality(Placed') <= Cardinality(Tasks)
  BY <1>1, PlacesFacts
<1> QED
  BY <1>2 DEF Overdrawn, BudgetGate

LEMMA PlaceUsed ==
  ASSUME RoundInd, Overdrawn, Len(runs') = Len(runs) + 1,
         NEW t \in Placed, Placed' \subseteq Placed \ {t}
  PROVE  Overdrawn'
<1>1. Placed \subseteq Tasks
  BY DEF Placed
<1>2. IsFiniteSet(Placed) /\ Cardinality(Placed) \in Nat /\ Cardinality(Tasks) \in Nat
      /\ Len(runs) \in Nat /\ MaxCalls \in Nat
  BY <1>1, PlacesFacts
<1>3. IsFiniteSet(Placed \ {t}) /\ Cardinality(Placed \ {t}) = Cardinality(Placed) - 1
  BY <1>2, FS_RemoveElement
<1>4. Cardinality(Placed') <= Cardinality(Placed) - 1 /\ Cardinality(Placed') \in Nat
  BY <1>3, FS_Subset, FS_CardinalityType
<1> QED
  BY <1>2, <1>4 DEF Overdrawn

(***************************************************************************)
(* A place is taken at the gate only.                                      *)
(***************************************************************************)
LEMMA StepPlaces ==
  ASSUME RoundInd, NEW t \in Tasks, TaskStep(t), exec'[t].pc \in Placing
  PROVE  exec[t].pc \in Placing \/ (GateAgain(t) /\ BudgetGate)
<1>0. exec \in [Tasks -> ExecState]
  BY DEF RoundInd, ExecutionTypeOK
<1> USE DEF Goto, Return, AtRest, ExecState, ExecPC, Placing
<1>1. CASE GateAgain(t)
  BY <1>0, <1>1 DEF GateAgain, GatePasses
<1>2. CASE CreateCall(t) \/ ReconcileByRead(t) \/ Poll(t) \/ PersistRun(t)
  BY <1>2 DEF CreateCall, ReconcileByRead, Poll, PersistRun
<1>3. CASE (\E i \in Intents : Load(t, i)) \/ Precheck(t)
  <2>1. ASSUME NEW i \in Intents, Load(t, i) PROVE exec'[t].pc = "loaded"
    BY <1>0, <2>1 DEF Load
  <2>2. ASSUME Precheck(t) PROVE exec'[t].pc \in {"planned", "idle"}
    BY <1>0, <2>2 DEF Precheck
  <2> QED
    BY <1>3, <2>1, <2>2
<1>4. CASE EnterExecution(t) \/ EnteredExecution(t)
  BY <1>0, <1>4 DEF EnterExecution, EnteredExecution
<1>5. CASE IngestResult(t) \/ MarkResultsReceived(t) \/ FinishCall(t)
  BY <1>0, <1>5 DEF IngestResult, MarkResultsReceived, FinishCall
<1>6. CASE BlockWrite(t) \/ ProposeBlocked(t) \/ BlockMove(t)
  BY <1>0, <1>6 DEF BlockWrite, ProposeBlocked, BlockMove
<1> QED
  BY <1>1, <1>2, <1>3, <1>4, <1>5, <1>6 DEF TaskStep, CarryOn

(***************************************************************************)
(* A step of one execution ...                                             *)
(***************************************************************************)
LEMMA ExecutionCounts ==
  ASSUME RoundInd, RoundInd', Overdrawn, NEW t \in Tasks, TaskStep(t)
  PROVE  Overdrawn'
<1>0. exec \in [Tasks -> ExecState]
  BY DEF RoundInd, ExecutionTypeOK
<1>1. \A u \in Tasks : u # t => exec'[u] = exec[u]
  BY <1>0
     DEF TaskStep, CarryOn, Load, Precheck, EnterExecution, EnteredExecution, GateAgain,
         CreateCall, ReconcileByRead, Poll, PersistRun, TaskToRun, IngestResult, MarkResultsReceived,
         FinishCall, BlockWrite, ProposeBlocked, BlockMove, Settle, Goto, Return
<1>2. CASE PersistRun(t)
  <2>1. Len(runs') = Len(runs) + 1
    <3>1. TaskToRun(t) \in RunRow
      BY <1>2 DEF PersistRun, TaskToRun, RunRow, RoundInd, TaskSound
    <3> QED
      BY <1>2, <3>1, AppendProperties DEF PersistRun, RoundInd, ExecutionTypeOK
  <2>2. exec[t].pc \in Placing /\ exec'[t].pc \notin Placing
    BY <1>0, <1>2 DEF PersistRun, Return, AtRest, ExecState, Placing
  <2>3. t \in Placed /\ Placed' \subseteq Placed \ {t}
    BY <1>1, <2>2 DEF Placed
  <2> QED
    BY <2>1, <2>3, PlaceUsed
<1>3. CASE ~PersistRun(t)
  <2>1. DOMAIN runs' = DOMAIN runs
    BY <1>3
       DEF TaskStep, CarryOn, Load, Precheck, EnterExecution, EnteredExecution, GateAgain,
           CreateCall, ReconcileByRead, Poll, IngestResult, WriteClaims, MarkResultsReceived,
           FinishCall, BlockWrite, ProposeBlocked, BlockMove
  <2>2. Len(runs') = Len(runs)
    BY <2>1, SameLength
  <2>3. CASE BudgetGate
    BY <2>2, <2>3, PlaceTaken
  <2>4. CASE ~BudgetGate
    <3>1. exec'[t].pc \in Placing => exec[t].pc \in Placing
      BY <2>4, StepPlaces
    <3>2. Placed' \subseteq Placed
      BY <1>1, <3>1 DEF Placed
    <3> QED
      BY <2>2, <3>2, NoPlaceTaken
  <2> QED
    BY <2>3, <2>4
<1> QED
  BY <1>2, <1>3

(***************************************************************************)
(* ... and of anything else, which leaves the number of the runs alone and *)
(* takes no place.                                                         *)
(***************************************************************************)
OverdraftInd == RoundInd /\ Overdrawn

LEMMA StepOverdrawn ==
  ASSUME OverdraftInd, [Next]_vars
  PROVE  OverdraftInd'
<1>0. RoundInd /\ RoundInd' /\ Overdrawn
  BY RoundInductive DEF OverdraftInd
<1>1. ASSUME DOMAIN runs' = DOMAIN runs, UNCHANGED exec \/ \A t \in Tasks : exec'[t].pc = "idle"
      PROVE  OverdraftInd'
  <2>1. Placed' \subseteq Placed
    BY <1>1 DEF Placed, Placing
  <2> QED
    BY <1>0, <1>1, <2>1, SameLength, NoPlaceTaken DEF OverdraftInd
<1>2. CASE \E t \in Tasks : TaskStep(t)
  BY <1>0, <1>2, ExecutionCounts DEF OverdraftInd
<1>3. ASSUME NEW h \in Deliveries, DeliveryStep(h)
      PROVE  OverdraftInd'
  <2>1. UNCHANGED exec /\ DOMAIN runs' = DOMAIN runs
    BY <1>3
       DEF DeliveryStep, CarryDelivery, Receive, Readmit, Correlate, Reread, PromoteToTerminal,
           IngestDelivered, WriteClaims, MarkDelivered, ValidateDelivered, FinishDelivery,
           callVars, executionVars
  <2> QED
    BY <1>1, <2>1
<1>4. CASE RestartAll
  BY <1>1, <1>4 DEF RestartAll, RestartExecution, AtRest
<1>5. CASE UNCHANGED <<runs, exec>>
  BY <1>1, <1>5
<1> QED
  BY <1>2, <1>3, <1>4, <1>5
     DEF Next, ExecutionNext, CancelLocal, RemoteFinishes, executionVars, vars, callVars

(***************************************************************************)
(* However many executions overlap, with lost answers, replays, webhook    *)
(* deliveries and restarts, the runs of a mission exceed its cap by less   *)
(* than the number of executions.  With one at a time that is the cap.     *)
(***************************************************************************)
THEOREM OverdraftSafe == Spec => []OverdraftBounded
<1>1. Init => OverdraftInd
  <2>1. ASSUME Init PROVE Overdrawn
    <3>1. Placed = {} /\ Len(runs) = 0
      BY <2>1, EmptySeq DEF Init, ExecutionInit, AtRest, Placed, Placing
    <3>2. Cardinality(Placed) = 0
      BY <3>1, FS_EmptySet
    <3>3. Cardinality(Tasks) \in Nat /\ Cardinality(Tasks) # 0 /\ MaxCalls \in Nat
      BY ExecutionAssumption, FS_EmptySet, FS_CardinalityType
    <3> QED
      BY <3>1, <3>2, <3>3 DEF Overdrawn
  <2> QED
    BY <2>1, RoundInit DEF OverdraftInd
<1>2. OverdraftInd /\ [Next]_vars => OverdraftInd'
  BY StepOverdrawn
<1>3. OverdraftInd => OverdraftBounded
  <2>1. ASSUME OverdraftInd PROVE OverdraftBounded
    <3>1. Placed \subseteq Tasks
      BY DEF Placed
    <3> QED
      BY <2>1, <3>1, PlacesFacts DEF OverdraftInd, Overdrawn, OverdraftBounded
  <2> QED
    BY <2>1
<1> QED
  BY <1>1, <1>2, <1>3, PTL DEF Spec

-----------------------------------------------------------------------------
(***************************************************************************)
(* What each step does to the entries of the abstract ledger.              *)
(***************************************************************************)
ApprovedSet == {i \in Intents : Granted(i)}
DialedSet == {i \in Intents : remote[i] # "none"}
EndedSet == {i \in Intents : remote[i] = "terminal"}
RecordedSet == {i \in Intents : RunsOf(i) # {}}
EvidencedSet == {i \in Intents : \E r \in RunsOf(i) : runs[r].ingested > 0}

LEMMA StepApproves ==
  ASSUME ApprovalsInd, ApprovalsNext \/ Restart
  PROVE  ApprovedSet' = ApprovedSet \/ \E i \in Intents : ApprovedSet' = ApprovedSet \cup {i}
<1>0. ApprovalsTypeOK /\ DeskSound /\ \A a \in DOMAIN approvals : approvals[a] \in ApprovalRow
  BY RowsTyped DEF ApprovalsInd
<1>1. ASSUME NEW c \in Clerks, NEW i \in Intents, Request(c, i)
      PROVE  ApprovedSet' = ApprovedSet
  <2>1. \A j \in Intents : Granted(j)' <=> Granted(j)
    BY <1>0, <1>1, RequestRows DEF Granted
  <2> QED
    BY <2>1 DEF ApprovedSet
<1>2. ASSUME NEW c \in Clerks, Commit(c)
      PROVE  ApprovedSet' = ApprovedSet
             \/ \E i \in Intents : ApprovedSet' = ApprovedSet \cup {i}
  <2>1. CASE desk[c].value # "APPROVED"
    <3>1. \A j \in Intents : Granted(j)' <=> Granted(j)
      BY <1>0, <1>2, <2>1, CommitRows DEF Granted
    <3> QED
      BY <3>1 DEF ApprovedSet
  <2>2. CASE desk[c].value = "APPROVED"
    <3>1. PICK a \in DOMAIN approvals : desk[c].on = {a}
      BY <1>0, <1>2, <2>2 DEF Commit, Sits, DeskSound
    <3>2. approvals[a].subject \in Intents
      BY <1>0 DEF ApprovalRow
    <3>3. \A j \in Intents : Granted(j)' <=> Granted(j) \/ j = approvals[a].subject
      BY <1>0, <1>2, <2>2, <3>1, CommitRows DEF Granted
    <3> QED
      BY <3>2, <3>3 DEF ApprovedSet
  <2> QED
    BY <2>1, <2>2
<1>3. ASSUME NEW b \in DOMAIN approvals, Lapse(b)
      PROVE  ApprovedSet' = ApprovedSet
  <2>1. \A j \in Intents : Granted(j)' <=> Granted(j)
    BY <1>0, <1>3, LapseRows DEF Granted
  <2> QED
    BY <2>1 DEF ApprovedSet
<1>4. ASSUME UNCHANGED approvals
      PROVE  ApprovedSet' = ApprovedSet
  BY <1>4 DEF ApprovedSet, Granted
<1> QED
  BY <1>1, <1>2, <1>3, <1>4
     DEF ApprovalsNext, ClerkStep, Carry, EnterAuthorization, Decide, ExpireStale,
         AdvanceMission, ValidateMove, ApplyMove, OtherStages, Restart

LEMMA SameApproved == UNCHANGED approvals => UNCHANGED ApprovedSet
BY DEF ApprovedSet, Granted

LEMMA SameRemote == UNCHANGED remote => UNCHANGED <<DialedSet, EndedSet>>
BY DEF DialedSet, EndedSet

LEMMA SameRuns == UNCHANGED runs => UNCHANGED <<RecordedSet, EvidencedSet>>
BY DEF RecordedSet, EvidencedSet, RunsOf

LEMMA StepCreates ==
  ASSUME RoundInd, NEW i \in Intents, RemoteCreate(i)
  PROVE  DialedSet' = DialedSet \cup {i} /\ EndedSet' = EndedSet
BY DEF RoundInd, ExecutionTypeOK, RemoteCreate, RemoteState, DialedSet, EndedSet

LEMMA StepEnds ==
  ASSUME RoundInd, NEW i \in Intents, RemoteFinishes(i)
  PROVE  i \in DialedSet /\ DialedSet' = DialedSet /\ EndedSet' = EndedSet \cup {i}
BY DEF RoundInd, ExecutionTypeOK, RemoteFinishes, RemoteState, DialedSet, EndedSet

LEMMA StepRecords ==
  ASSUME RoundInd, NEW t \in Tasks, PersistRun(t)
  PROVE  \E i \in Intents : /\ i \in DialedSet
                            /\ RecordedSet' = RecordedSet \cup {i}
                            /\ EvidencedSet' = EvidencedSet
<1> DEFINE i == exec[t].intent
           row == [intent |-> i, status |-> exec[t].answer, ingested |-> 0]
<1>1. i \in Intents /\ remote[i] # "none" /\ row \in RunRow
  BY DEF RoundInd, TaskSound, PersistRun, TaskToRun, RunRow
<1>2. /\ DOMAIN runs' = DOMAIN runs \cup {Len(runs) + 1} /\ Len(runs) + 1 \notin DOMAIN runs
      /\ runs'[Len(runs) + 1].intent = i /\ runs'[Len(runs) + 1].ingested = 0
      /\ \A r \in DOMAIN runs : runs'[r] = runs[r]
  BY <1>1, RunsFacts, AppendProperties, LenProperties DEF PersistRun, TaskToRun, RoundInd, ExecutionTypeOK
<1> HIDE DEF i, row
<1>3. RecordedSet' = RecordedSet \cup {i}
  BY <1>1, <1>2 DEF RecordedSet, RunsOf
<1>4. EvidencedSet' = EvidencedSet
  BY <1>1, <1>2 DEF EvidencedSet, RunsOf
<1> QED
  BY <1>1, <1>3, <1>4 DEF DialedSet

LEMMA StepWritesClaims ==
  ASSUME RoundInd, NEW r \in DOMAIN runs, runs[r].status = "terminal", WriteClaims(r)
  PROVE  \E i \in Intents : /\ i \in RecordedSet \cap EndedSet
                            /\ RecordedSet' = RecordedSet
                            /\ EvidencedSet' = EvidencedSet \cup {i}
<1>0. \A q \in DOMAIN runs : runs[q] \in RunRow
  BY RunsFacts DEF RoundInd
<1>1. /\ DOMAIN runs' = DOMAIN runs
      /\ \A q \in DOMAIN runs : runs'[q].intent = runs[q].intent
      /\ \A q \in DOMAIN runs : q # r => runs'[q] = runs[q]
      /\ runs'[r].ingested > 0
  BY <1>0 DEF WriteClaims, RunRow
<1>2. runs[r].intent \in Intents /\ remote[runs[r].intent] = "terminal"
  BY <1>0 DEF RunRow, RoundInd, RunSound
<1>3. RecordedSet' = RecordedSet /\ runs[r].intent \in RecordedSet \cap EndedSet
  BY <1>1, <1>2 DEF RecordedSet, RunsOf, EndedSet
<1>4. EvidencedSet' = EvidencedSet \cup {runs[r].intent}
  BY <1>1, <1>2 DEF EvidencedSet, RunsOf
<1> QED
  BY <1>2, <1>3, <1>4

LEMMA StepPromotes ==
  ASSUME RoundInd, NEW r \in DOMAIN runs, runs' = [runs EXCEPT ![r].status = "terminal"]
  PROVE  UNCHANGED <<RecordedSet, EvidencedSet>>
<1>0. \A q \in DOMAIN runs : runs[q] \in RunRow
  BY RunsFacts DEF RoundInd
<1>1. /\ DOMAIN runs' = DOMAIN runs
      /\ \A q \in DOMAIN runs : /\ runs'[q].intent = runs[q].intent
                                /\ runs'[q].ingested = runs[q].ingested
  BY <1>0 DEF RunRow
<1> QED
  BY <1>1 DEF RecordedSet, EvidencedSet, RunsOf

(***************************************************************************)
(* Every step of the round is a step of the ledger, or leaves it alone.    *)
(***************************************************************************)
LedgerMove ==
  \/ UNCHANGED <<ApprovedSet, DialedSet, EndedSet, RecordedSet, EvidencedSet>>
  \/ \E i \in Intents :
       \/ /\ ApprovedSet' = ApprovedSet \cup {i}
          /\ UNCHANGED <<DialedSet, EndedSet, RecordedSet, EvidencedSet>>
       \/ /\ i \in ApprovedSet
          /\ DialedSet' = DialedSet \cup {i}
          /\ UNCHANGED <<ApprovedSet, EndedSet, RecordedSet, EvidencedSet>>
       \/ /\ i \in DialedSet
          /\ EndedSet' = EndedSet \cup {i}
          /\ UNCHANGED <<ApprovedSet, DialedSet, RecordedSet, EvidencedSet>>
       \/ /\ i \in DialedSet
          /\ RecordedSet' = RecordedSet \cup {i}
          /\ UNCHANGED <<ApprovedSet, DialedSet, EndedSet, EvidencedSet>>
       \/ /\ i \in RecordedSet \cap EndedSet
          /\ EvidencedSet' = EvidencedSet \cup {i}
          /\ UNCHANGED <<ApprovedSet, DialedSet, EndedSet, RecordedSet>>

LEMMA StepLedger ==
  ASSUME DialInd, [Next]_vars
  PROVE  LedgerMove
<1> USE DEF DialInd
<1>1. CASE (ApprovalsNext \/ Restart) /\ UNCHANGED <<remote, runs>>
  BY <1>1, StepApproves, SameRemote, SameRuns DEF LedgerMove, RoundInd
<1>2. CASE UNCHANGED <<approvals, remote, runs>>
  BY <1>2, SameApproved, SameRemote, SameRuns DEF LedgerMove
<1>3. ASSUME NEW t \in Tasks, CreateCall(t)
      PROVE  LedgerMove
  <2>1. UNCHANGED <<approvals, runs>>
    BY <1>3 DEF CreateCall, approvalVars
  <2>2. CASE RemoteCreate(exec[t].intent)
    <3>1. exec[t].intent \in Intents /\ exec[t].pc \in {"creating", "replaying"}
      BY <1>3 DEF CreateCall, RoundInd, TaskSound
    <3>2. exec[t].intent \in ApprovedSet
      BY <3>1 DEF DialSound, ApprovedSet
    <3> QED
      BY <2>1, <2>2, <3>1, <3>2, SameApproved, SameRuns, StepCreates DEF LedgerMove
  <2>3. CASE UNCHANGED remote
    BY <1>2, <2>1, <2>3
  <2> QED
    BY <1>3, <2>2, <2>3 DEF CreateCall
<1>4. ASSUME NEW t \in Tasks, PersistRun(t)
      PROVE  LedgerMove
  <2>1. UNCHANGED <<approvals, remote>>
    BY <1>4 DEF PersistRun, TaskToRun
  <2> QED
    BY <1>4, <2>1, SameApproved, SameRemote, StepRecords DEF LedgerMove
<1>5. ASSUME NEW r \in DOMAIN runs, runs[r].status = "terminal", WriteClaims(r),
             UNCHANGED <<approvals, remote>>
      PROVE  LedgerMove
  BY <1>5, SameApproved, SameRemote, StepWritesClaims DEF LedgerMove
<1>6. ASSUME NEW t \in Tasks, IngestResult(t)
      PROVE  LedgerMove
  <2>1. /\ exec[t].run \in DOMAIN runs /\ runs[exec[t].run].status = "terminal"
        /\ UNCHANGED <<approvals, remote>>
    BY <1>6 DEF IngestResult, RoundInd, TaskSound, approvalVars
  <2> QED
    BY <1>2, <1>5, <1>6, <2>1 DEF IngestResult
<1>7. ASSUME NEW t \in Tasks, TaskStep(t)
      PROVE  LedgerMove
  <2>1. CASE CreateCall(t) \/ PersistRun(t) \/ IngestResult(t)
    BY <1>3, <1>4, <1>6, <2>1
  <2>2. CASE ~(CreateCall(t) \/ PersistRun(t) \/ IngestResult(t))
    <3>1. UNCHANGED <<approvals, remote, runs>>
      BY <1>7, <2>2
         DEF TaskStep, CarryOn, Load, Precheck, EnterExecution, EnteredExecution, GateAgain,
             ReconcileByRead, Poll, MarkResultsReceived, FinishCall, BlockWrite,
             ProposeBlocked, BlockMove, approvalVars
    <3> QED
      BY <1>2, <3>1
  <2> QED
    BY <2>1, <2>2
<1>8. ASSUME NEW h \in Deliveries, DeliveryStep(h)
      PROVE  LedgerMove
  <2>1. CASE IngestDelivered(h)
    <3>1. /\ hook[h].run \in DOMAIN runs /\ runs[hook[h].run].status = "terminal"
          /\ UNCHANGED <<approvals, remote>>
      BY <2>1 DEF IngestDelivered, RoundInd, HookSound, approvalVars
    <3> QED
      BY <1>2, <1>5, <2>1, <3>1 DEF IngestDelivered
  <2>2. CASE Reread(h)
    <3>1. hook[h].run \in DOMAIN runs /\ UNCHANGED <<approvals, remote>>
      BY <2>2 DEF Reread, RoundInd, HookSound, approvalVars
    <3>2. CASE runs' = [runs EXCEPT ![hook[h].run].status = "terminal"]
      BY <3>1, <3>2, SameApproved, SameRemote, StepPromotes DEF LedgerMove
    <3>3. CASE UNCHANGED runs
      BY <1>2, <3>1, <3>3
    <3> QED
      BY <2>2, <3>2, <3>3 DEF Reread, PromoteToTerminal
  <2>3. CASE ~(IngestDelivered(h) \/ Reread(h))
    <3>1. UNCHANGED <<approvals, remote, runs>>
      BY <1>8, <2>3
         DEF DeliveryStep, CarryDelivery, Receive, Readmit, Correlate, MarkDelivered,
             ValidateDelivered, FinishDelivery, callVars, executionVars, approvalVars
    <3> QED
      BY <1>2, <3>1
  <2> QED
    BY <2>1, <2>2, <2>3
<1>9. ASSUME NEW i \in Intents, RemoteFinishes(i)
      PROVE  LedgerMove
  <2>1. UNCHANGED <<approvals, runs>>
    BY <1>9 DEF RemoteFinishes, approvalVars
  <2> QED
    BY <1>9, <2>1, SameApproved, SameRuns, StepEnds DEF LedgerMove
<1> QED
  BY <1>1, <1>2, <1>7, <1>8, <1>9
     DEF Next, ExecutionNext, CancelLocal, RestartAll, RestartExecution, executionVars, vars,
         callVars, approvalVars

(***************************************************************************)
(* The round implements CallLedger: dial after approval, record after      *)
(* dial, evidence after record and end, and nothing is taken back, with    *)
(* any number of clerks, executions, deliveries, lost answers and          *)
(* restarts.  An intent is approved in the ledger once the user granted    *)
(* an approval of it: a row may say something else later.                  *)
(***************************************************************************)
THEOREM RoundKeepsLedger == Spec => KeepsLedger
<1>1. Init => Ledger!LedgerInit
  BY EmptySeq DEF Init, ApprovalsInit, ExecutionInit, Ledger!LedgerInit, Granted, RunsOf
<1>2. DialInd /\ [Next]_vars => [Ledger!LedgerNext]_(Ledger!ledger)
  BY StepLedger
     DEF LedgerMove, ApprovedSet, DialedSet, EndedSet, RecordedSet, EvidencedSet, Ledger!ledger,
         Ledger!LedgerNext, Ledger!Approve, Ledger!Dial, Ledger!End, Ledger!Record,
         Ledger!Evidence
<1> QED
  BY <1>1, <1>2, DialInductive, PTL DEF Spec, KeepsLedger, Ledger!LedgerSpec

=============================================================================
