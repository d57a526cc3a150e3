--------------------------- MODULE WebhookReceiver ---------------------------
(***************************************************************************)
(* POST /calle/webhook (api/webhooks.py) and CallService.finalize_run: how *)
(* a call that CALL-E answered "queued" gets its terminal result.  With    *)
(* CallExecution and Approvals this is the whole call round of a mission.  *)
(*                                                                         *)
(* CALL-E is free to deliver an event early, late, twice or not at all.    *)
(* Each intent's call has its own set of event ids (project-level and      *)
(* per-request webhooks carry different ones).                             *)
(***************************************************************************)
EXTENDS CallExecution

CONSTANTS Events,         \* CALL-E-Event-Id values
          CallOf,         \* the intent whose call an event is about
          Deliveries,     \* concurrent requests inside the receiver
          NoEvent         \* the event of a delivery slot at rest

ASSUME WebhookAssumption ==
  /\ CallOf \in [Events -> Intents]
  /\ NoEvent \notin Events

VARIABLES receipt,        \* the WebhookReceipt row of each event id
          hook            \* where each delivery stands

hookVars == <<receipt, hook>>
vars == <<callVars, hookVars>>

Outcome == {"received", "processed", "not_terminal", "rejected_payload",
            "rejected_uncorrelated", "failed"}
HookPC == {"idle", "readmitting", "correlating", "rereading", "ingesting",
           "marking", "moving", "applying"}
HookState == [pc : HookPC, event : Events \cup {NoEvent}, run : Nat]

HookAtRest == [pc |-> "idle", event |-> NoEvent, run |-> 0]

HookTypeOK ==
  /\ receipt \in [Events -> Outcome \cup {"none"}]
  /\ hook \in [Deliveries -> HookState]

TypeOK == CallTypeOK /\ HookTypeOK

Init ==
  /\ ApprovalsInit
  /\ ExecutionInit
  /\ receipt = [e \in Events |-> "none"]
  /\ hook = [h \in Deliveries |-> HookAtRest]

HookGoto(h, pc) == hook' = [hook EXCEPT ![h].pc = pc]

(***************************************************************************)
(* _set_outcome, as the last thing the handler does.                       *)
(***************************************************************************)
Conclude(h, outcome) ==
  /\ receipt' = [receipt EXCEPT ![hook[h].event] = outcome]
  /\ hook' = [hook EXCEPT ![h] = HookAtRest]

-----------------------------------------------------------------------------
(***************************************************************************)
(* _persist_receipt: a new event id is inserted as received before any     *)
(* side effect; an id whose processing failed is read, and set back to     *)
(* received.  Any other id is a duplicate and changes nothing.  A task     *)
(* under the intent's key must exist for CALL-E to announce it.            *)
(***************************************************************************)
Record(h, e) ==
  /\ receipt' = [receipt EXCEPT ![e] = "received"]
  /\ hook' = [hook EXCEPT ![h] = [pc |-> "correlating", event |-> e, run |-> 0]]

Receive(h, e) ==
  /\ hook[h].pc = "idle"
  /\ remote[CallOf[e]] # "none"
  /\ \/ receipt[e] = "none" /\ Record(h, e)
     \/ /\ receipt[e] = "failed"
        /\ hook' = [hook EXCEPT ![h] = [pc |-> "readmitting", event |-> e, run |-> 0]]
        /\ UNCHANGED receipt
  /\ UNCHANGED callVars

Readmit(h) ==
  /\ hook[h].pc = "readmitting"
  /\ Record(h, hook[h].event)
  /\ UNCHANGED callVars

(***************************************************************************)
(* The payload check, the run lookup and the metadata correlation, then    *)
(* the reads finalize_run starts with.  Two rows for one call id make the  *)
(* lookup raise before the handler's own try: the receipt stays received.  *)
(* A terminal run with claims is answered from the rows.                   *)
(***************************************************************************)
Finalized(r) == runs[r].status = "terminal" /\ runs[r].ingested > 0

Correlate(h) ==
  LET own == RunsOf(CallOf[hook[h].event])
  IN  /\ hook[h].pc = "correlating"
      /\ \/ Conclude(h, "rejected_payload")
         \/ own = {} /\ Conclude(h, "rejected_uncorrelated")
         \/ /\ \E r, q \in own : r # q
            /\ hook' = [hook EXCEPT ![h] = HookAtRest]
            /\ UNCHANGED receipt
         \/ \E r \in own :
              /\ own = {r}
              /\ IF Finalized(r)
                 THEN Conclude(h, "processed")
                 ELSE /\ hook' = [hook EXCEPT ![h].pc = "rereading", ![h].run = r]
                      /\ UNCHANGED receipt
      /\ UNCHANGED callVars

PromoteBlindly(h) ==   \* slip: the update is not conditional on the status
  /\ runs' = [runs EXCEPT ![hook[h].run].status = "terminal"]
  /\ HookGoto(h, "ingesting")
  /\ UNCHANGED receipt

(***************************************************************************)
(* finalize_run: the authoritative re-read and, when that is terminal, the *)
(* conditional promotion.  Exactly one finalizer wins the row; the others  *)
(* return what it stored.  A terminal status never changes back, so the    *)
(* read and the promotion are one step.                                    *)
(***************************************************************************)
PromoteToTerminal(h) ==
  LET r == hook[h].run
  IN  IF runs[r].status = "active"
      THEN /\ runs' = [runs EXCEPT ![r].status = "terminal"]
           /\ HookGoto(h, "ingesting")
           /\ UNCHANGED receipt
      ELSE /\ Conclude(h, "processed")
           /\ UNCHANGED runs

RereadNotCompared(h) ==   \* slip: the fresh status is not tested
  /\ hook[h].pc = "rereading"
  /\ \/ PromoteToTerminal(h)
     \/ Conclude(h, "failed") /\ UNCHANGED runs
  /\ UNCHANGED <<approvalVars, remote, attempted, exec>>

RereadPendingIsProcessed(h) ==   \* slip: result.pending is not looked at
  /\ hook[h].pc = "rereading"
  /\ \/ remote[CallOf[hook[h].event]] = "terminal" /\ PromoteToTerminal(h)
     \/ Conclude(h, "processed") /\ UNCHANGED runs
  /\ UNCHANGED <<approvalVars, remote, attempted, exec>>

Reread(h) ==
  /\ hook[h].pc = "rereading"
  /\ \/ /\ remote[CallOf[hook[h].event]] = "terminal"
        /\ PromoteToTerminal(h)
     \/ /\ remote[CallOf[hook[h].event]] # "terminal"
        /\ Conclude(h, "not_terminal")
        /\ UNCHANGED runs
     \/ /\ Conclude(h, "failed")
        /\ UNCHANGED runs
  /\ UNCHANGED <<approvalVars, remote, attempted, exec>>

IngestDelivered(h) ==
  /\ hook[h].pc = "ingesting"
  /\ \/ WriteClaims(hook[h].run) /\ HookGoto(h, "marking") /\ UNCHANGED receipt
     \/ WritesMayFail /\ UNCHANGED runs /\ Conclude(h, "failed")
  /\ UNCHANGED <<approvalVars, remote, attempted, exec>>

(***************************************************************************)
(* mark_results_received.  A mission that leaves the state between the     *)
(* look and the validation makes the move raise: the delivery has failed.  *)
(***************************************************************************)
MarkDelivered(h) ==
  /\ hook[h].pc = "marking"
  /\ IF mission.status = "CALL_EXECUTION_RUNNING"
     THEN HookGoto(h, "moving") /\ UNCHANGED receipt
     ELSE Conclude(h, "processed")
  /\ UNCHANGED callVars

ValidateDelivered(h) ==
  /\ hook[h].pc = "moving"
  /\ IF MayMoveTo("CALL_RESULT_RECEIVED")
     THEN HookGoto(h, "applying") /\ UNCHANGED receipt
     ELSE Conclude(h, "failed")
  /\ UNCHANGED callVars

FinishDelivery(h) ==
  /\ hook[h].pc = "applying"
  /\ MoveTo("CALL_RESULT_RECEIVED")
  /\ Conclude(h, "processed")
  /\ UNCHANGED <<approvals, intentState, desk, executionVars>>

(***************************************************************************)
(* A restart also loses the deliveries in progress, not their receipts.    *)
(***************************************************************************)
RestartAll ==
  /\ RestartExecution
  /\ hook' = [h \in Deliveries |-> HookAtRest]
  /\ UNCHANGED receipt

(***************************************************************************)
(* What a delivery that was received goes on to do by itself.              *)
(***************************************************************************)
CarryDelivery(h) ==
  \/ Readmit(h)
  \/ Correlate(h)
  \/ Reread(h)
  \/ IngestDelivered(h)
  \/ MarkDelivered(h)
  \/ ValidateDelivered(h)
  \/ FinishDelivery(h)

DeliveryStep(h) == CarryDelivery(h) \/ \E e \in Events : Receive(h, e)

Next ==
  \/ ExecutionNext /\ UNCHANGED hookVars
  \/ \E h \in Deliveries : DeliveryStep(h)
  \/ RestartAll

Spec == Init /\ [][Next]_vars

(***************************************************************************)
(* Decisions, calls and deliveries in progress run on: the event loop      *)
(* schedules every ready task, and polling has a timeout.  No user, sweep, *)
(* new call or new delivery is owed to anyone.                             *)
(***************************************************************************)
FairSpec ==
  /\ Spec
  /\ \A c \in Clerks : WF_vars(Carry(c) /\ UNCHANGED <<executionVars, hookVars>>)
  /\ \A t \in Tasks : WF_vars(CarryOn(t) /\ UNCHANGED hookVars)
  /\ \A h \in Deliveries : WF_vars(CarryDelivery(h))

(***************************************************************************)
(* What the round keeps of its abstract ledger.                            *)
(***************************************************************************)
Ledger ==
  INSTANCE CallLedger WITH
    approved <- {i \in Intents : Granted(i)},
    dialed <- {i \in Intents : remote[i] # "none"},
    ended <- {i \in Intents : remote[i] = "terminal"},
    recorded <- {i \in Intents : RunsOf(i) # {}},
    evidenced <- {i \in Intents : \E r \in RunsOf(i) : runs[r].ingested > 0}

-----------------------------------------------------------------------------
(***************************************************************************)
(* An intent is never dialed unless the user has granted an approval of    *)
(* it, whatever happened to rows and process between the two gates and     *)
(* after, and whatever else the approval was made meanwhile.               *)
(***************************************************************************)
DialedOnlyIfApproved == \A i \in Intents : remote[i] # "none" => Granted(i)

(***************************************************************************)
(* Across approvals, executions, deliveries and restarts the round keeps   *)
(* the ledger of CallLedger: dial after approval, record after dial,       *)
(* evidence after record and end, nothing taken back.                      *)
(***************************************************************************)
KeepsLedger == Ledger!LedgerSpec

(***************************************************************************)
(* Claims come only from a call that CALL-E reports terminal, through a    *)
(* run stored as terminal.                                                 *)
(***************************************************************************)
EvidenceFromFinishedCall ==
  \A r \in DOMAIN runs :
    /\ runs[r].ingested > 0 => runs[r].status = "terminal"
    /\ runs[r].status = "terminal" => remote[runs[r].intent] = "terminal"

(***************************************************************************)
(* However many finalizers and deliveries race for a run, its claims are   *)
(* written at most once.                                                   *)
(***************************************************************************)
ClaimsWrittenOnce == \A r \in DOMAIN runs : runs[r].ingested <= 1

(***************************************************************************)
(* promote_to_terminal is the single way out of a non-terminal status, and *)
(* there is no way back.                                                   *)
(***************************************************************************)
RunsOnlyAdvance ==
  [][\A r \in DOMAIN runs :
       /\ r \in DOMAIN runs'
       /\ runs[r].status = "terminal" => runs'[r].status = "terminal"]_vars

(***************************************************************************)
(* A receipt marked processed speaks of a run whose terminal state is      *)
(* stored.                                                                 *)
(***************************************************************************)
ProcessedMeansStored ==
  \A e \in Events :
    receipt[e] = "processed" => \E r \in RunsOf(CallOf[e]) : runs[r].status = "terminal"

(***************************************************************************)
(* "Enforced additionally: per-mission call budget". The gate counts the   *)
(* stored runs, and a create in flight has none yet, so two executions at  *)
(* the last unit both dial. What remains of the cap: however executions    *)
(* overlap, dial again after a restart and store late, the runs exceed it  *)
(* by less than the executions there are at a time.                        *)
(***************************************************************************)
OverdraftBounded == Len(runs) <= MaxCalls + Cardinality(Tasks) - 1

(***************************************************************************)
(* "A rejected or expired approval returns to the replan decision; it      *)
(* never proceeds to execution": the mission is authorized only by an      *)
(* approval that has not been used for a call yet.                         *)
(***************************************************************************)
AuthorizedByUnusedApproval ==
  [][mission.status = "CALL_AUTHORIZATION_PENDING" /\ mission'.status = "CALL_AUTHORIZED"
       => \E i \in Intents : Approved(i) /\ RunsOf(i) = {}]_vars

(***************************************************************************)
(* A polling execution never leaves the mission in execution: with the     *)
(* result or without it, the mission moves on or blocks.                   *)
(***************************************************************************)
ExecutionEnds ==
  \A t \in Tasks :
    exec[t].pc = "entered" ~> mission.status # "CALL_EXECUTION_RUNNING"

=============================================================================
