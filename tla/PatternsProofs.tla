--------------------------- MODULE PatternsProofs ---------------------------
(***************************************************************************)
(* Theorems about the call patterns, for any number of recipients,         *)
(* escalation contacts, rounds, approvals and ticks of the clock.          *)
(*                                                                         *)
(* A run of a pattern is cut off between any two awaits and begun again,   *)
(* so what holds of the rows must follow from what the local state of the  *)
(* run says of them.  The inductive invariant has one part per question:   *)
(* where a run may stand (Placed), in which order a cascade leaves its     *)
(* children (StepsInOrder), whom an approval comes from (StepsApproved),   *)
(* what is dialed under which goal (GoalsDialed), and what the prior claim *)
(* a verification read says of the one the engine has (PriorRead).         *)
(***************************************************************************)
EXTENDS Patterns, TLAPS, SequenceTheorems

(***************************************************************************)
(* A run adds to the goal or to the jobs once, and its place says which    *)
(* handler it is in and which step or contact is in hand.                  *)
(***************************************************************************)
InStep(pc) == pc \in {"call", "dial", "store", "returned"}

Placed ==
  /\ goal <= rounds /\ jobs <= rounds
  /\ runner.pc = "handle" =>
       /\ goal < rounds /\ jobs < rounds
       /\ runner.step = 0 /\ runner.callee = runner.intent
  /\ runner.pc \in {"ask", "note"} =>
       /\ pattern = "ESCALATION"
       /\ escalated < Contacts /\ runner.callee = Escalation(escalated + 1)
  /\ runner.pc = "step" =>
       /\ pattern = "CASCADE" /\ runner.intent = Intent
       /\ runner.step \in 1 .. recipients
  /\ InStep(runner.pc) =>
       IF pattern = "CASCADE" /\ runner.intent = Intent
       THEN runner.step \in 1 .. recipients /\ runner.callee = Step(runner.step)
       ELSE runner.callee = runner.intent /\ runner.step = 0
  /\ runner.pc # "idle" => runner.intent \in children \cup {Intent}
  /\ InStep(runner.pc) => runner.callee \in children \cup {Intent}
  /\ runner.pc = "returned" => runner.result # "none"
  /\ runner.pc \in {"dial", "store"} => runs[runner.callee] = "none"

PatternInd == PatternTypeOK /\ Placed

(***************************************************************************)
(* A child of a cascade is stored when every step before it has failed,    *)
(* and a failed run stays failed.                                          *)
(***************************************************************************)
FailedBefore(n) == \A m \in 1 .. n - 1 : runs[Step(m)] = "failed"

StepsInOrder ==
  /\ \A n \in 1 .. MaxRecipients : Step(n) \in children => FailedBefore(n)
  /\ runner.pc = "step" => FailedBefore(runner.step)
  /\ runner.pc = "returned" /\ runner.result = "failed" => runs[runner.callee] = "failed"
  /\ \A k \in remote : k.intent \in children \cup {Intent}

(***************************************************************************)
(* The approval of a step is a copy of one the user gave the parent.       *)
(***************************************************************************)
ApprovedUntil(expires) ==
  \E a \in Human(Intent) : a.status = "APPROVED" /\ a.expires = expires

StepsApproved ==
  /\ \A n \in 1 .. MaxRecipients :
       approvals[Step(n)] # <<>> =>
         \E a \in Human(Intent) :
           /\ a.status = "APPROVED"
           /\ \A d \in Human(Step(n)) : d.status = "APPROVED" /\ d.expires = a.expires
  /\ runner.pc # "idle" /\ runner.step > 0 => ApprovedUntil(runner.expires)
  /\ \A k \in remote : \E a \in Human(k.intent) : a.status = "APPROVED"

(***************************************************************************)
(* A goal is rewritten before its intent is dialed, and not between the    *)
(* dial and the stored run.                                                *)
(***************************************************************************)
GoalsDialed == runner.pc = "store" => Key(runner.callee) \in remote

(***************************************************************************)
(* The engine compares the answers of the one call with the prior claim    *)
(* once; a verification that read no claim had none to read. What a run    *)
(* read is the claim the answers met, if they came after it had read.      *)
(***************************************************************************)
Over == runs[Intent] \in Finished
Completes == runner.pc \in {"mark", "record"} /\ runner.status = "completed"

HasRead == InStep(runner.pc) \/ Completes

FoundBefore ==
  /\ foundIn <= rounds
  /\ runner.pc # "idle" => rounds > 0
  /\ runner.pc = "handle" => foundIn < rounds
  /\ HasRead /\ ~named =>
       /\ answer = "none" => (runner.prior # "none" <=> prior \in Supported)
       /\ answer = "conflict" => (runner.prior # "none" <=> foundIn = rounds)

PriorRead ==
  pattern = "VERIFICATION" =>
    /\ FoundBefore
    /\ children = {} /\ \A i \in Intents \ {Intent} : runs[i] = "none"
    /\ answer # "none" => Over
    /\ answer = "agreement" => prior = "MULTI_SOURCE_SUPPORTED"
    /\ answer = "conflict" => prior = "CONFLICTED"
    /\ progress = "completed" => Over
    /\ runner.pc = "returned" /\ runner.result \in Finished => Over
    /\ Completes => Over
    /\ HasRead /\ runner.prior = "none" =>
         prior = "none" \/ (~named /\ prior = "CONFLICTED")

-----------------------------------------------------------------------------
(***************************************************************************)
(* The intents are told apart by their kind and number.                    *)
(***************************************************************************)
LEMMA IntentFacts ==
  /\ Intent \in Intents
  /\ \A n \in 1 .. MaxRecipients : Step(n) \in Intents \ {Intent}
  /\ \A n \in 1 .. Contacts : Escalation(n) \in Intents \ {Intent}
  /\ \A n \in 1 .. MaxRecipients, m \in 1 .. Contacts : Step(n) # Escalation(m)
  /\ \A n, m \in 1 .. MaxRecipients : Step(n) = Step(m) => n = m
BY DEF Intent, Intents, Step, Escalation

LEMMA TypedInit == PatternInit => PatternInd
<1> SUFFICES ASSUME PatternInit PROVE PatternInd
  OBVIOUS
<1> USE PatternsAssumption DEF PatternInit, Idle
<1>1. recipients \in 1 .. MaxRecipients /\ 0 \in 0 .. MaxRounds /\ 0 \in 0 .. Contacts
      /\ 0 \in 0 .. MaxTime
  OBVIOUS
<1>2. \A i \in Intents : approvals[i] \in Seq(Approval)
  BY EmptySeq
<1>3. PatternTypeOK
  <2>1. mission \in MissionStatus /\ pattern \in CallPattern
    BY DEF MissionStatus, CallLoop
  <2>2. allowed \in BOOLEAN /\ named \in BOOLEAN
    OBVIOUS
  <2>3. prior \in {"none", "CONFLICTED"} \cup Supported
    BY DEF Supported
  <2>4. runs \in [Intents -> {"none", "pending"} \cup Finished]
    OBVIOUS
  <2> QED
    BY <1>1, <1>2, <2>1, <2>2, <2>3, <2>4 DEF PatternTypeOK
<1>4. Placed
  BY <1>3 DEF Placed, InStep
<1> QED
  BY <1>3, <1>4 DEF PatternInd

LEMMA AtWork == ASSUME PatternTypeOK, runner.pc # "idle" PROVE runner \in RunnerState
BY DEF PatternTypeOK, Idle

(***************************************************************************)
(* An approval that is asked for is one more row.                          *)
(***************************************************************************)
ApprovalsTyped(rows) ==
  DOMAIN rows = Intents /\ \A i \in Intents : rows[i] \in Seq(Approval)

LEMMA AskTyped ==
  ASSUME PatternTypeOK, NEW i \in Intents, Ask(i)
  PROVE  ApprovalsTyped(approvals')
<1>1. [status |-> "PENDING", expires |-> now + 1] \in Approval
  BY PatternsAssumption DEF PatternTypeOK, Approval
<1>2. approvals[i] \in Seq(Approval)
  BY DEF PatternTypeOK
<1>3. Append(approvals[i], [status |-> "PENDING", expires |-> now + 1]) \in Seq(Approval)
  BY <1>1, <1>2, AppendProperties
<1> QED
  BY <1>3 DEF Ask, PatternTypeOK, ApprovalsTyped

LEMMA DecideTyped ==
  ASSUME PatternTypeOK, NEW i \in Intents, NEW n \in DOMAIN approvals[i],
         NEW d \in {"APPROVED", "REJECTED"}, Decide(i, n, d)
  PROVE  ApprovalsTyped(approvals')
<1>1. approvals[i] \in Seq(Approval)
  BY DEF PatternTypeOK
<1>2. [approvals[i][n] EXCEPT !.status = d] \in Approval
  <2>1. approvals[i][n] \in Approval
    BY <1>1, ElementOfSeq, LenProperties
  <2> QED
    BY <2>1 DEF Approval
<1>3. [approvals[i] EXCEPT ![n] = [@ EXCEPT !.status = d]] \in Seq(Approval)
  BY <1>1, <1>2, ExceptSeq, LenProperties
<1> QED
  BY <1>3 DEF Decide, PatternTypeOK, ApprovalsTyped

(***************************************************************************)
(* A run begins.                                                           *)
(***************************************************************************)
LEMMA RunTyped ==
  ASSUME PatternInd, NEW j \in Intents, Run(j)
  PROVE  PatternInd'
<1> USE PatternsAssumption DEF PatternInd, PatternTypeOK, options, world, callRows, claims,
         intentRow
<1>1. ASSUME Run(j) PROVE PatternInd'
  <2>1. runner' \in RunnerState
    BY <1>1 DEF Run, RunnerState
  <2>2. rounds' \in 0 .. MaxRounds
    BY <1>1 DEF Run
  <2>3. PatternTypeOK'
    BY <1>1, <2>1, <2>2 DEF Run
  <2>4. Placed'
    BY <1>1 DEF Run, Idle, RunnerState, Placed, InStep
  <2> QED
    BY <2>3, <2>4
<1> QED
  BY <1>1 DEF Run

(***************************************************************************)
(* The handlers leave a run where its place says it is.                    *)
(***************************************************************************)
LEMMA HandleTyped ==
  ASSUME PatternInd, Handle
  PROVE  PatternInd'
<1> USE PatternsAssumption DEF PatternInd, PatternTypeOK, options, world, callRows, claims,
         intentRow
<1>1. ASSUME OneShot PROVE PatternInd'
  <2>1. runner \in RunnerState
    BY <1>1, AtWork DEF OneShot, Handles
  <2>2. runner' \in RunnerState
    BY <1>1, <2>1 DEF OneShot, Handles, Goto, RunnerState
  <2>3. PatternTypeOK'
    BY <1>1, <2>1, <2>2 DEF OneShot, Handles
  <2>4. Placed'
    BY <1>1, <2>1 DEF OneShot, Handles, Goto, RunnerState, Placed, InStep
  <2> QED
    BY <2>3, <2>4
<1>2. ASSUME FanOut PROVE PatternInd'
  <2>1. runner \in RunnerState
    BY <1>2, AtWork DEF FanOut, Handles
  <2>2. runner' \in RunnerState
    BY <1>2, <2>1 DEF FanOut, Handles, Goto, RunnerState
  <2>3. PatternTypeOK'
    BY <1>2, <2>1, <2>2 DEF FanOut, Handles
  <2>4. Placed'
    BY <1>2, <2>1 DEF FanOut, Handles, Goto, RunnerState, Placed, InStep
  <2> QED
    BY <2>3, <2>4
<1>3. ASSUME Cascade PROVE PatternInd'
  <2>1. runner \in RunnerState
    BY <1>3, AtWork DEF Cascade, Handles
  <2>2. runner' \in RunnerState
    <3>1. Last(approvals[Intent]) \in Approval
      BY <1>3, IntentFacts, EmptySeq, LenProperties, ElementOfSeq DEF Cascade, LatestUsable, Last
    <3>2. Last(approvals[Intent]).expires \in 0 .. MaxTime + 1 /\ 1 \in 0 .. MaxRecipients
      BY <3>1 DEF Approval
    <3> QED
      BY <1>3, <2>1, <3>2 DEF Cascade, RunnerState
  <2>3. PatternTypeOK'
    BY <1>3, <2>1, <2>2 DEF Cascade, Handles
  <2>4. Placed'
    BY <1>3, <2>1 DEF Cascade, Handles, RunnerState, Placed, InStep
  <2> QED
    BY <2>3, <2>4
<1>4. ASSUME CascadeStep PROVE PatternInd'
  <2>1. runner \in RunnerState
    BY <1>4, AtWork DEF CascadeStep
  <2>2. runner.step \in 1 .. MaxRecipients
    BY <1>4 DEF CascadeStep, Placed
  <2>3. Step(runner.step) \in Intents \ {Intent}
    BY <2>2, IntentFacts
  <2>4. runner' \in RunnerState
    BY <1>4, <2>1, <2>3 DEF CascadeStep, RunnerState
  <2>5. <<Derived>> \in Seq(Approval)
    BY <2>1 DEF Derived, Approval, RunnerState
  <2>6. PatternTypeOK'
    BY <1>4, <2>4, <2>3, <2>5 DEF CascadeStep, PersistChild
  <2>7. Placed'
    BY <1>4, <2>1, IntentFacts DEF CascadeStep, PersistChild, Derived, Approval, RunnerState, Placed, InStep
  <2> QED
    BY <2>6, <2>7
<1>5. ASSUME CascadeRefused PROVE PatternInd'
  <2>1. runner \in RunnerState
    BY <1>5, AtWork DEF CascadeRefused
  <2>2. runner' \in RunnerState
    BY <1>5, <2>1 DEF CascadeRefused, Outcome, RunnerState
  <2>3. PatternTypeOK'
    BY <1>5, <2>1, <2>2 DEF CascadeRefused, Outcome
  <2>4. Placed'
    BY <1>5, <2>1 DEF CascadeRefused, Outcome, RunnerState, Placed, InStep
  <2> QED
    BY <2>3, <2>4
<1>6. ASSUME Negotiation PROVE PatternInd'
  <2>1. runner \in RunnerState
    BY <1>6, AtWork DEF Negotiation, Handles
  <2>2. runner' \in RunnerState
    BY <1>6, <2>1 DEF Negotiation, Handles, Goto, Rewrite, WithContextBlock, RunnerState
  <2>3. goal' \in 0 .. MaxRounds
    BY <1>6 DEF Negotiation, Handles, Rewrite, WithContextBlock, Placed
  <2>4. PatternTypeOK'
    BY <1>6, <2>2, <2>3 DEF Negotiation
  <2>5. Placed'
    BY <1>6, <2>1 DEF Negotiation, Handles, Goto, Rewrite, WithContextBlock, RunnerState, Placed, InStep
  <2> QED
    BY <2>4, <2>5
<1>7. ASSUME Clarification PROVE PatternInd'
  <2>1. runner \in RunnerState
    BY <1>7, AtWork DEF Clarification, Handles
  <2>2. runner' \in RunnerState
    BY <1>7, <2>1 DEF Clarification, Handles, Goto, Rewrite, WithContextBlock, RunnerState
  <2>3. goal' \in 0 .. MaxRounds
    BY <1>7 DEF Clarification, Handles, Rewrite, WithContextBlock, Placed
  <2>4. PatternTypeOK'
    BY <1>7, <2>2, <2>3 DEF Clarification
  <2>5. Placed'
    BY <1>7, <2>1 DEF Clarification, Handles, Goto, Rewrite, WithContextBlock, RunnerState, Placed, InStep
  <2> QED
    BY <2>4, <2>5
<1>8. ASSUME Verification PROVE PatternInd'
  <2>1. runner \in RunnerState
    BY <1>8, AtWork DEF Verification, Handles
  <2>2. runner' \in RunnerState
    BY <1>8, <2>1 DEF Verification, Handles, RunnerState
  <2>3. PatternTypeOK'
    BY <1>8, <2>1, <2>2 DEF Verification, Handles
  <2>4. Placed'
    BY <1>8, <2>1 DEF Verification, Handles, RunnerState, Placed, InStep
  <2> QED
    BY <2>3, <2>4
<1>9. ASSUME FollowUp PROVE PatternInd'
  <2>1. runner \in RunnerState
    BY <1>9, AtWork DEF FollowUp, Handles
  <2>2. runner' \in RunnerState
    BY <1>9, <2>1 DEF FollowUp, Handles, Outcome, RunnerState
  <2>3. PatternTypeOK'
    <3>1. jobs' \in 0 .. MaxRounds
      BY <1>9 DEF FollowUp, Handles, Placed
    <3> QED
      BY <1>9, <2>2, <3>1 DEF FollowUp
  <2>4. Placed'
    BY <1>9, <2>1 DEF FollowUp, Handles, Outcome, RunnerState, Placed, InStep
  <2> QED
    BY <2>3, <2>4
<1>10. ASSUME Escalate PROVE PatternInd'
  <2>1. runner \in RunnerState
    BY <1>10, AtWork DEF Escalate, Handles
  <2>2. escalated + 1 \in 1 .. Contacts
    BY <1>10 DEF Escalate, EscalationContacts
  <2>3. Escalation(escalated + 1) \in Intents \ {Intent}
    BY <2>2, IntentFacts
  <2>4. runner' \in RunnerState
    BY <1>10, <2>1, <2>3 DEF Escalate, RunnerState
  <2>5. PatternTypeOK'
    BY <1>10, <2>4, <2>3 DEF Escalate, PersistChild
  <2>6. Placed'
    BY <1>10, <2>1, IntentFacts DEF Escalate, Handles, PersistChild, EscalationContacts, RunnerState, Placed, InStep
  <2> QED
    BY <2>5, <2>6
<1>11. ASSUME AskToEscalate PROVE PatternInd'
  <2>1. runner \in RunnerState
    BY <1>11, AtWork DEF AskToEscalate
  <2>2. runner' \in RunnerState
    BY <1>11, <2>1 DEF AskToEscalate, Ask, Goto, Approval, RunnerState
  <2>3. PatternTypeOK'
    <3>1. ApprovalsTyped(approvals')
      BY <1>11, <2>1, AskTyped DEF AskToEscalate, RunnerState
    <3> QED
      BY <1>11, <2>2, <3>1 DEF AskToEscalate, ApprovalsTyped
  <2>4. Placed'
    BY <1>11, <2>1 DEF AskToEscalate, Ask, Goto, Approval, RunnerState, Placed, InStep
  <2> QED
    BY <2>3, <2>4
<1>12. ASSUME NoteEscalation PROVE PatternInd'
  <2>1. runner \in RunnerState
    BY <1>12, AtWork DEF NoteEscalation
  <2>2. runner' \in RunnerState
    BY <1>12, <2>1 DEF NoteEscalation, Outcome, RunnerState
  <2>3. PatternTypeOK'
    <3>1. escalated' \in 0 .. Contacts
      BY <1>12 DEF NoteEscalation, Placed
    <3> QED
      BY <1>12, <2>2, <3>1 DEF NoteEscalation
  <2>4. Placed'
    BY <1>12, <2>1 DEF NoteEscalation, Outcome, RunnerState, Placed, InStep
  <2> QED
    BY <2>3, <2>4
<1>13. ASSUME HumanGateOpen PROVE PatternInd'
  <2>1. runner \in RunnerState
    BY <1>13, AtWork DEF HumanGateOpen, Handles
  <2>2. runner' \in RunnerState
    BY <1>13, <2>1 DEF HumanGateOpen, Handles, Goto, RunnerState
  <2>3. PatternTypeOK'
    BY <1>13, <2>1, <2>2 DEF HumanGateOpen, Handles
  <2>4. Placed'
    BY <1>13, <2>1 DEF HumanGateOpen, Handles, Goto, RunnerState, Placed, InStep
  <2> QED
    BY <2>3, <2>4
<1>14. ASSUME HumanGateShut PROVE PatternInd'
  <2>1. runner \in RunnerState
    BY <1>14, AtWork DEF HumanGateShut, Handles
  <2>2. runner' \in RunnerState
    BY <1>14, <2>1 DEF HumanGateShut, Handles, Ask, Outcome, Approval, RunnerState
  <2>3. PatternTypeOK'
    <3>1. ApprovalsTyped(approvals')
      BY <1>14, AskTyped, IntentFacts DEF HumanGateShut, ApprovalsTyped
    <3> QED
      BY <1>14, <2>2, <3>1 DEF HumanGateShut, ApprovalsTyped
  <2>4. Placed'
    BY <1>14, <2>1 DEF HumanGateShut, Handles, Ask, Outcome, Approval, RunnerState, Placed, InStep
  <2> QED
    BY <2>3, <2>4
<1>15. ASSUME runner.pc = "handle", Outcome("refused"),
              UNCHANGED <<options, world, children, callRows, intentRow, jobs, rounds>>
       PROVE  PatternInd'
  <2>1. runner \in RunnerState
    BY <1>15, AtWork
  <2>2. runner' \in RunnerState
    BY <1>15, <2>1 DEF Outcome, RunnerState
  <2>3. PatternTypeOK'
    BY <1>15, <2>2
  <2>4. Placed'
    BY <1>15, <2>1 DEF Outcome, RunnerState, Placed, InStep
  <2> QED
    BY <2>3, <2>4
<1>16. ASSUME NEW p, Handles(p) PROVE runner.pc = "handle"
  BY <1>16 DEF Handles
<1> QED
  BY <1>1, <1>2, <1>3, <1>4, <1>5, <1>6, <1>7, <1>8, <1>9, <1>10, <1>11, <1>12, <1>13, <1>14, <1>15, <1>16 DEF Handle, Refused

(***************************************************************************)
(* So do the steps of execute_call and the end of a run.                   *)
(***************************************************************************)
LEMMA CallTyped ==
  ASSUME PatternInd, Call
  PROVE  PatternInd'
<1> USE PatternsAssumption DEF PatternInd, PatternTypeOK, options, world, callRows, claims,
         intentRow
<1>1. ASSUME Existing PROVE PatternInd'
  <2>1. runner \in RunnerState
    BY <1>1, AtWork DEF Existing
  <2>2. runner' \in RunnerState
    BY <1>1, <2>1 DEF Existing, RunnerState
  <2>3. PatternTypeOK'
    BY <1>1, <2>1, <2>2 DEF Existing
  <2>4. Placed'
    BY <1>1, <2>1 DEF Existing, RunnerState, Placed, InStep
  <2> QED
    BY <2>3, <2>4
<1>2. ASSUME Raises PROVE PatternInd'
  <2>1. runner \in RunnerState
    BY <1>2, AtWork DEF Raises
  <2>2. PatternTypeOK'
    BY <1>2, <2>1 DEF Raises, Idle
  <2>3. Placed'
    BY <1>2, <2>1 DEF Raises, Idle, RunnerState, Placed, InStep
  <2> QED
    BY <2>2, <2>3
<1>3. ASSUME StartCall PROVE PatternInd'
  <2>1. runner \in RunnerState
    BY <1>3, AtWork DEF StartCall, Enter
  <2>2. runner' \in RunnerState
    BY <1>3, <2>1 DEF StartCall, Enter, Goto, RunnerState
  <2>3. PatternTypeOK'
    BY <1>3, <2>1, <2>2 DEF StartCall, Enter, MissionStatus, CallLoop
  <2>4. Placed'
    BY <1>3, <2>1 DEF StartCall, Enter, Goto, RunnerState, Placed, InStep
  <2> QED
    BY <2>3, <2>4
<1>4. ASSUME Dial PROVE PatternInd'
  <2>1. runner \in RunnerState
    BY <1>4, AtWork DEF Dial
  <2>2. runner' \in RunnerState
    BY <1>4, <2>1 DEF Dial, Goto, Key, RunnerState
  <2>3. PatternTypeOK'
    <3>1. Key(runner.callee) \in [intent : Intents, goal : 0 .. MaxRounds]
      BY <2>1 DEF Key, RunnerState
    <3> QED
      BY <1>4, <2>2, <3>1 DEF Dial
  <2>4. Placed'
    BY <1>4, <2>1 DEF Dial, Goto, Key, RunnerState, Placed, InStep
  <2> QED
    BY <2>3, <2>4
<1>5. ASSUME DialFails PROVE PatternInd'
  <2>1. runner \in RunnerState
    BY <1>5, AtWork DEF DialFails
  <2>2. PatternTypeOK'
    <3>1. Key(runner.callee) \in [intent : Intents, goal : 0 .. MaxRounds]
      BY <2>1 DEF Key, RunnerState
    <3>2. mission' \in MissionStatus
      BY <1>5 DEF DialFails, MissionStatus, TerminalStates
    <3> QED
      BY <1>5, <3>1, <3>2 DEF DialFails
  <2>3. Placed'
    BY <1>5, <2>1 DEF DialFails, Idle, RunnerState, Placed, InStep
  <2> QED
    BY <2>2, <2>3
<1>6. ASSUME Store PROVE PatternInd'
  <2>1. runner \in RunnerState
    BY <1>6, AtWork DEF Store
  <2>2. runner' \in RunnerState
    BY <1>6, <2>1 DEF Store, Ingested, Finished, Supported, RunnerState
  <2>3. PatternTypeOK'
    <3>1. runs' \in [Intents -> {"none", "pending"} \cup Finished]
      BY <1>6, <2>1 DEF Store, RunnerState
    <3>2. /\ prior' \in {"none", "CONFLICTED"} \cup Supported
          /\ answer' \in {"none", "conflict", "agreement"} /\ foundIn' \in 0 .. MaxRounds
      BY <1>6 DEF Store, Ingested, Supported, claims
    <3> QED
      BY <1>6, <2>2, <3>1, <3>2 DEF Store
  <2>4. Placed'
    BY <1>6, <2>1 DEF Store, Ingested, Finished, Supported, RunnerState, Placed, InStep
  <2> QED
    BY <2>3, <2>4
<1>7. ASSUME Returned PROVE PatternInd'
  <2>1. runner \in RunnerState
    BY <1>7, AtWork DEF Returned
  <2>2. ASSUME runner.intent = Intent, pattern = "CASCADE"
        PROVE  \E after \in RunnerState :
                 /\ runner' = [after EXCEPT !.dialed = TRUE]
                 /\ after.intent = runner.intent
                 /\ \/ after.pc = "mark"
                    \/ after.pc = "step" /\ after.step \in 1 .. recipients
    <3>1. /\ runner.result \in {"pending", "passed", "failed"}
          /\ runner.step \in 1 .. recipients
      BY <1>7, <2>1, <2>2 DEF Returned, Placed, InStep, RunnerState, Finished
    <3>2. runner' = [AfterStep(runner.result) EXCEPT !.dialed = TRUE]
      BY <1>7, <2>2 DEF Returned
    <3>3. CASE runner.result = "pending"
      <4>1. AfterStep(runner.result) = [runner EXCEPT !.pc = "mark", !.status = "pending"]
        BY <3>3 DEF AfterStep
      <4> QED
        BY <2>1, <3>2, <4>1 DEF RunnerState
    <3>4. CASE runner.result = "passed" \/ (runner.result = "failed" /\ runner.step = recipients)
      <4>1. AfterStep(runner.result) = [runner EXCEPT !.pc = "mark", !.status = "completed"]
        BY <3>4 DEF AfterStep
      <4> QED
        BY <2>1, <3>2, <4>1 DEF RunnerState
    <3>5. CASE runner.result = "failed" /\ runner.step # recipients
      <4>1. AfterStep(runner.result) = [runner EXCEPT !.pc = "step", !.step = runner.step + 1]
        BY <3>5 DEF AfterStep
      <4>2. recipients \in Nat /\ recipients <= MaxRecipients /\ MaxRecipients \in Nat
        BY DEF PatternsAssumption
      <4>3. runner.step \in Nat /\ runner.step >= 1 /\ runner.step < recipients
        BY <3>1, <3>5, <4>2
      <4>4. runner.step + 1 \in 1 .. recipients /\ runner.step + 1 \in 0 .. MaxRecipients
        <5> HIDE DEF PatternInd
        <5> QED
          BY <4>2, <4>3
      <4> QED
        BY <2>1, <3>2, <4>1, <4>4 DEF RunnerState
    <3> QED
      BY <3>1, <3>3, <3>4, <3>5
  <2>3. runner' \in RunnerState
    <3>1. CASE runner.intent = Intent /\ pattern = "CASCADE"
      <4>1. PICK after \in RunnerState : runner' = [after EXCEPT !.dialed = TRUE]
        BY <2>2, <3>1
      <4> QED
        BY <4>1 DEF RunnerState
    <3>2. CASE ~(runner.intent = Intent /\ pattern = "CASCADE")
      BY <1>7, <2>1, <3>2 DEF Returned, AfterCall, RunnerState
    <3> QED
      BY <3>1, <3>2
  <2>4. PatternTypeOK'
    BY <1>7, <2>1, <2>3 DEF Returned, AfterStep, AfterCall, Finished
  <2>5. Placed'
    <3>1. CASE runner.intent = Intent /\ pattern = "CASCADE"
      <4>1. PICK after \in RunnerState :
              /\ runner' = [after EXCEPT !.dialed = TRUE]
              /\ after.intent = runner.intent
              /\ \/ after.pc = "mark"
                 \/ after.pc = "step" /\ after.step \in 1 .. recipients
        BY <2>2, <3>1
      <4>2. /\ runner'.pc = after.pc /\ runner'.intent = runner.intent
            /\ runner'.step = after.step
        BY <4>1 DEF RunnerState
      <4> QED
        BY <1>7, <2>1, <3>1, <4>1, <4>2 DEF Returned, RunnerState, Placed, InStep
    <3>2. CASE ~(runner.intent = Intent /\ pattern = "CASCADE")
      BY <1>7, <2>1, <3>2 DEF Returned, AfterCall, RunnerState, Placed, InStep
    <3> QED
      BY <3>1, <3>2
  <2> QED
    BY <2>4, <2>5
<1>8. ASSUME Mark PROVE PatternInd'
  <2>1. runner \in RunnerState
    BY <1>8, AtWork DEF Mark
  <2>2. runner' \in RunnerState
    BY <1>8, <2>1 DEF Mark, Goto, Received, RunnerState
  <2>3. PatternTypeOK'
    BY <1>8, <2>1, <2>2 DEF Mark, Received, MissionStatus, CallLoop
  <2>4. Placed'
    BY <1>8, <2>1 DEF Mark, Goto, Received, RunnerState, Placed, InStep
  <2> QED
    BY <2>3, <2>4
<1>9. ASSUME RecordProgress PROVE PatternInd'
  <2>1. runner \in RunnerState
    BY <1>9, AtWork DEF RecordProgress
  <2>2. PatternTypeOK'
    <3>1. progress' \in {"none", "running", "completed", "pending", "stopped", "scheduled", "refused"}
      BY <1>9, <2>1 DEF RecordProgress, RunnerState
    <3>2. reported' \in {"none", "conflicted", "corroborated"}
      BY <1>9 DEF RecordProgress, Verdict
    <3> QED
      BY <1>9, <3>1, <3>2 DEF RecordProgress
  <2>3. Placed'
    BY <1>9, <2>1 DEF RecordProgress, Idle, RunnerState, Placed, InStep
  <2> QED
    BY <2>2, <2>3
<1> QED
  BY <1>1, <1>2, <1>3, <1>4, <1>5, <1>6, <1>7, <1>8, <1>9 DEF Call

(***************************************************************************)
(* Nobody else moves a run, except to cut it off.                          *)
(***************************************************************************)
LEMMA EnvironmentTyped ==
  ASSUME PatternInd, Environment
  PROVE  PatternInd'
<1> USE PatternsAssumption DEF PatternInd, PatternTypeOK, options, world, callRows, claims,
         intentRow
<1>1. ASSUME RequestApproval PROVE PatternInd'
  <2>1. PatternTypeOK'
    <3>1. ApprovalsTyped(approvals')
      BY <1>1, AskTyped, IntentFacts DEF RequestApproval
    <3> QED
      BY <1>1, <3>1 DEF RequestApproval, ApprovalsTyped
  <2>2. Placed'
    BY <1>1, IntentFacts DEF RequestApproval, Ask, Approval, RunnerState, Placed, InStep
  <2> QED
    BY <2>1, <2>2
<1>2. ASSUME Tick PROVE PatternInd'
  <2>1. PatternTypeOK'
    BY <1>2 DEF Tick
  <2>2. Placed'
    BY <1>2 DEF Tick, RunnerState, Placed, InStep
  <2> QED
    BY <2>1, <2>2
<1>3. ASSUME MissionMoves PROVE PatternInd'
  <2>1. PatternTypeOK'
    BY <1>3 DEF MissionMoves, MissionStatus
  <2>2. Placed'
    BY <1>3 DEF MissionMoves, RunnerState, Placed, InStep
  <2> QED
    BY <2>1, <2>2
<1>4. ASSUME Restart PROVE PatternInd'
  <2>1. PatternTypeOK'
    BY <1>4 DEF Restart, Idle
  <2>2. Placed'
    BY <1>4 DEF Restart, Idle, RunnerState, Placed, InStep
  <2> QED
    BY <2>1, <2>2
<1>5. ASSUME NEW i \in Intents, Finalize(i) PROVE PatternInd'
  <2>1. PatternTypeOK'
    <3>1. /\ prior' \in {"none", "CONFLICTED"} \cup Supported
          /\ answer' \in {"none", "conflict", "agreement"} /\ foundIn' \in 0 .. MaxRounds
      BY <1>5 DEF Finalize, Ingested, Supported
    <3>2. mission' \in MissionStatus
      BY <1>5 DEF Finalize, Received, MissionStatus, CallLoop
    <3>3. runs' \in [Intents -> {"none", "pending"} \cup Finished]
      BY <1>5 DEF Finalize
    <3> QED
      BY <1>5, <3>1, <3>2, <3>3 DEF Finalize
  <2>2. Placed'
    <3>1. UNCHANGED <<options, intentRow, jobs, runner, rounds, children>>
      BY <1>5 DEF Finalize
    <3>2. \A j \in Intents : runs[j] = "none" => runs'[j] = "none"
      BY <1>5 DEF Finalize
    <3>3. InStep(runner.pc) => runner.callee \in Intents
      BY IntentFacts DEF Placed, InStep
    <3> QED
      BY <3>1, <3>2, <3>3 DEF Placed, InStep, options, intentRow
  <2> QED
    BY <2>1, <2>2
<1>6. ASSUME NEW i \in Intents, NEW n \in DOMAIN approvals[i],
         NEW d \in {"APPROVED", "REJECTED"}, Decide(i, n, d) PROVE PatternInd'
  <2>1. PatternTypeOK'
    <3>1. ApprovalsTyped(approvals')
      BY <1>6, DecideTyped
    <3> QED
      BY <1>6, <3>1 DEF Decide, ApprovalsTyped
  <2>2. Placed'
    BY <1>6 DEF Decide, RunnerState, Placed, InStep
  <2> QED
    BY <2>1, <2>2
<1> QED
  BY <1>1, <1>2, <1>3, <1>4, <1>5, <1>6 DEF Environment

LEMMA TypedStep == PatternInd /\ [PatternNext]_patternVars => PatternInd'
<1> SUFFICES ASSUME PatternInd, [PatternNext]_patternVars PROVE PatternInd'
  OBVIOUS
<1>1. ASSUME UNCHANGED patternVars PROVE PatternInd'
  BY <1>1 DEF patternVars, options, world, callRows, claims, intentRow, PatternInd,
     PatternTypeOK, Placed, InStep
<1> QED
  BY <1>1, RunTyped, HandleTyped, CallTyped, EnvironmentTyped DEF PatternNext

(***************************************************************************)
(* Every row and the local state of a run keep their types, and the place  *)
(* of a run says which handler it is in.                                   *)
(***************************************************************************)
THEOREM PatternTyped == PatternSpec => []PatternTypeOK
<1>1. PatternInd => PatternTypeOK
  BY DEF PatternInd
<1> QED
  BY <1>1, TypedInit, TypedStep, PTL DEF PatternSpec

LEMMA AlwaysTyped == PatternSpec => []PatternInd
BY TypedInit, TypedStep, PTL DEF PatternSpec

-----------------------------------------------------------------------------
(***************************************************************************)
(* Most steps store no run and no child and dial nobody, leave no cascade  *)
(* between two of its steps, and rewrite the goal only while no run of the *)
(* intent is stored.                                                       *)
(***************************************************************************)
OutOfOrder == Cascade \/ CascadeStep \/ Escalate \/ Dial \/ DialFails \/ Existing \/ Store \/ Returned

BetweenCalls ==
  /\ UNCHANGED <<runs, children, remote>>
  /\ runner' = runner \/ runner'.pc \notin {"step", "returned", "store"}
  /\ goal' = goal \/
       /\ runs[Intent] = "none" /\ runner'.pc = "call"
       /\ pattern \in {"NEGOTIATION_ROUND", "CLARIFICATION"}

LEMMA QuietSteps ==
  ASSUME PatternInd, [PatternNext]_patternVars,
         ~OutOfOrder, \A i \in Intents : ~Finalize(i)
  PROVE  BetweenCalls
<1> USE DEF BetweenCalls, options, world, callRows, claims, intentRow, patternVars
<1>1. ASSUME runner.pc # "idle" PROVE runner \in RunnerState
  BY <1>1, AtWork DEF PatternInd
<1>2. ASSUME NEW i \in Intents, Run(i) PROVE BetweenCalls
  BY <1>2 DEF Run
<1>3. ASSUME Handle PROVE BetweenCalls
  <2>1. ASSUME OneShot \/ FanOut \/ HumanGateOpen PROVE BetweenCalls
    BY <1>1, <2>1 DEF OneShot, FanOut, HumanGateOpen, Handles, Goto, RunnerState
  <2>2. ASSUME Negotiation \/ Clarification PROVE BetweenCalls
    <3>1. /\ runner.pc = "handle" /\ (Rewrite \/ UNCHANGED goal)
          /\ runner.intent = Intent /\ pattern \in {"NEGOTIATION_ROUND", "CLARIFICATION"}
      BY <2>2 DEF Negotiation, Clarification, Handles
    <3>2. runner' = [runner EXCEPT !.pc = "call"]
      BY <2>2 DEF Negotiation, Clarification, Goto
    <3>3. runner'.pc = "call"
      BY <1>1, <3>1, <3>2 DEF RunnerState
    <3>4. UNCHANGED <<runs, children, remote>>
      BY <2>2 DEF Negotiation, Clarification
    <3> QED
      BY <3>1, <3>3, <3>4 DEF Rewrite, HasRun
  <2>3. ASSUME Verification PROVE BetweenCalls
    BY <1>1, <2>3 DEF Verification, Handles, RunnerState
  <2>4. ASSUME FollowUp \/ AskToEscalate \/ NoteEscalation \/ HumanGateShut PROVE BetweenCalls
    BY <1>1, <2>4 DEF FollowUp, AskToEscalate, NoteEscalation, HumanGateShut, Handles, Goto,
       Outcome, RunnerState
  <2>5. ASSUME runner.pc \in {"handle", "step"}, Outcome("refused"),
               UNCHANGED <<options, world, children, callRows, intentRow, jobs, rounds>>
        PROVE  BetweenCalls
    BY <1>1, <2>5 DEF Outcome, RunnerState
  <2>6. ASSUME NEW p, Handles(p) PROVE runner.pc \in {"handle", "step"}
    BY <2>6 DEF Handles
  <2> QED
    BY <1>3, <2>1, <2>2, <2>4, <2>5, <2>6, <2>3 DEF Handle, OutOfOrder, Refused, CascadeRefused
<1>4. ASSUME Call PROVE BetweenCalls
  <2>1. ASSUME Raises \/ StartCall \/ Mark \/ RecordProgress PROVE BetweenCalls
    BY <1>1, <2>1 DEF Raises, StartCall, Enter, Mark, RecordProgress, Goto, Idle, RunnerState
  <2> QED
    BY <1>4, <2>1 DEF Call, OutOfOrder
<1>5. ASSUME Environment PROVE BetweenCalls
  BY <1>5 DEF Environment, RequestApproval, Tick, MissionMoves, Restart, Decide, Idle
<1> QED
  BY <1>2, <1>3, <1>4, <1>5 DEF PatternNext

(***************************************************************************)
(* A failed run is not stored again.                                       *)
(***************************************************************************)
LEMMA StaysFailed ==
  ASSUME PatternInd, Store \/ \E i \in Intents : Finalize(i)
  PROVE  \A i \in Intents : runs[i] = "failed" => runs'[i] = "failed"
<1>1. ASSUME Store PROVE \A i \in Intents : runs[i] = "failed" => runs'[i] = "failed"
  BY <1>1 DEF Store, PatternInd, PatternTypeOK, Placed
<1> QED
  BY <1>1 DEF Finalize, PatternInd, PatternTypeOK

(***************************************************************************)
(* Where a run is, by the intent and the step in hand.                     *)
(***************************************************************************)
LEMMA InHand ==
  ASSUME PatternInd
  PROVE  /\ runner.pc = "step" => runner.step \in 1 .. MaxRecipients
         /\ InStep(runner.pc) =>
              runner.callee \in Intents /\ runner.callee \in children \cup {Intent}
         /\ InStep(runner.pc) /\ runner.intent = Intent /\ pattern = "CASCADE" =>
              /\ runner.step \in 1 .. MaxRecipients
              /\ runner.callee = Step(runner.step) /\ runner.callee \in children
<1>1. recipients \in 1 .. MaxRecipients /\ MaxRecipients \in Nat /\ children \subseteq Intents
  BY PatternsAssumption DEF PatternInd, PatternTypeOK
<1>2. Placed
  BY DEF PatternInd
<1> QED
  BY <1>1, <1>2, IntentFacts DEF Placed, InStep

LEMMA FailedKept ==
  ASSUME \A i \in Intents : runs[i] = "failed" => runs'[i] = "failed",
         NEW n \in 1 .. MaxRecipients, FailedBefore(n)
  PROVE  FailedBefore(n)'
<1>1. MaxRecipients \in Nat
  BY PatternsAssumption
<1>2. ASSUME NEW m \in 1 .. n - 1 PROVE runs'[Step(m)] = "failed"
  BY <1>1, <1>2, IntentFacts DEF FailedBefore
<1> QED
  BY <1>2 DEF FailedBefore

LEMMA OrderStep ==
  ASSUME PatternInd, StepsInOrder, [PatternNext]_patternVars
  PROVE  StepsInOrder'
<1>1. ASSUME runner.pc # "idle" PROVE runner \in RunnerState
  BY <1>1, AtWork DEF PatternInd
<1>2. CASE BetweenCalls
  BY <1>2 DEF BetweenCalls, StepsInOrder, FailedBefore
<1>3. CASE Cascade
  BY <1>1, <1>3 DEF Cascade, Handles, RunnerState, callRows, StepsInOrder, FailedBefore
<1>4. CASE CascadeStep
  <2>1. runner.step \in 1 .. MaxRecipients /\ FailedBefore(runner.step)
    BY <1>4, InHand DEF CascadeStep, StepsInOrder
  <2>2. /\ UNCHANGED <<runs, remote>> /\ children' = children \cup {Step(runner.step)}
        /\ runner'.pc = "call"
    BY <1>1, <1>4 DEF CascadeStep, PersistChild, RunnerState, callRows
  <2> QED
    BY <2>1, <2>2, IntentFacts DEF StepsInOrder, FailedBefore
<1>5. CASE Escalate
  <2>1. escalated + 1 \in 1 .. Contacts
    BY <1>5, PatternsAssumption DEF Escalate, EscalationContacts, PatternInd, PatternTypeOK
  <2>2. /\ UNCHANGED <<runs, remote>> /\ children' = children \cup {Escalation(escalated + 1)}
        /\ runner'.pc = "ask"
    BY <1>1, <1>5 DEF Escalate, Handles, PersistChild, RunnerState, callRows
  <2> QED
    BY <2>1, <2>2, IntentFacts DEF StepsInOrder, FailedBefore
<1>6. CASE Dial \/ DialFails
  <2>1. /\ UNCHANGED <<runs, children>> /\ runner'.pc \in {"store", "idle"}
        /\ remote' \in {remote, remote \cup {Key(runner.callee)}}
    BY <1>1, <1>6 DEF Dial, DialFails, Goto, Idle, RunnerState
  <2>2. runner.callee \in children \cup {Intent}
    BY <1>6, InHand DEF Dial, DialFails, InStep
  <2>3. \A k \in remote' : k \in remote \/ k.intent = runner.callee
    BY <2>1 DEF Key
  <2> QED
    BY <2>1, <2>2, <2>3 DEF StepsInOrder, FailedBefore
<1>7. CASE Existing
  BY <1>1, <1>7 DEF Existing, RunnerState, callRows, StepsInOrder, FailedBefore
<1>8. CASE Store
  <2>1. /\ UNCHANGED <<remote, children>>
        /\ runner'.pc = "returned" /\ runner'.callee = runner.callee
        /\ runs'[runner.callee] = runner'.result
    BY <1>1, <1>8, InHand DEF Store, RunnerState, InStep, PatternInd, PatternTypeOK
  <2>2. \A n \in 1 .. MaxRecipients : FailedBefore(n) => FailedBefore(n)'
    BY <1>8, StaysFailed, FailedKept
  <2> QED
    BY <2>1, <2>2 DEF StepsInOrder
<1>9. CASE Returned
  <2>1. UNCHANGED <<runs, remote, children>>
    BY <1>9 DEF Returned, callRows
  <2>2. CASE runner.intent = Intent /\ pattern = "CASCADE"
    <3>1. /\ runner.step \in 1 .. MaxRecipients /\ runner.callee = Step(runner.step)
          /\ runner.callee \in children
      BY <1>9, <2>2, InHand DEF Returned, InStep
    <3>2. CASE runner.result = "failed" /\ runner.step # recipients
      <4>1. AfterStep(runner.result) = [runner EXCEPT !.pc = "step", !.step = runner.step + 1]
        BY <3>2 DEF AfterStep
      <4>2. runner'.pc = "step" /\ runner'.step = runner.step + 1
        BY <1>1, <1>9, <2>2, <4>1 DEF Returned, RunnerState
      <4>3. FailedBefore(runner.step + 1)
        <5>1. FailedBefore(runner.step) /\ runs[Step(runner.step)] = "failed"
          BY <1>9, <3>1, <3>2 DEF StepsInOrder, Returned
        <5> QED
          BY <3>1, <5>1 DEF FailedBefore
      <4> QED
        BY <2>1, <4>2, <4>3 DEF StepsInOrder, FailedBefore
    <3>3. CASE ~(runner.result = "failed" /\ runner.step # recipients)
      <4>1. runner'.pc = "mark"
        BY <1>1, <1>9, <2>2, <3>3 DEF Returned, AfterStep, PatternInd, Placed, RunnerState, Finished
      <4> QED
        BY <2>1, <4>1 DEF StepsInOrder, FailedBefore
    <3> QED
      BY <3>2, <3>3
  <2>3. CASE ~(runner.intent = Intent /\ pattern = "CASCADE")
    <3>1. runner'.pc = "mark"
      BY <1>1, <1>9, <2>3 DEF Returned, AfterCall, RunnerState
    <3> QED
      BY <2>1, <3>1 DEF StepsInOrder, FailedBefore
  <2> QED
    BY <2>2, <2>3
<1>10. ASSUME NEW i \in Intents, Finalize(i) PROVE StepsInOrder'
  <2>1. UNCHANGED <<remote, children, runner>>
    BY <1>10 DEF Finalize
  <2>2. \A n \in 1 .. MaxRecipients : FailedBefore(n) => FailedBefore(n)'
    BY <1>10, StaysFailed, FailedKept
  <2>3. \A j \in Intents : runs[j] = "failed" => runs'[j] = "failed"
    BY <1>10, StaysFailed
  <2> QED
    BY <2>1, <2>2, <2>3, InHand DEF StepsInOrder, InStep
<1> QED
  BY <1>2, <1>3, <1>4, <1>5, <1>6, <1>7, <1>8, <1>9, <1>10, QuietSteps DEF OutOfOrder

(***************************************************************************)
(* For any number of recipients: a cascade dials one only when the calls   *)
(* to all before it are over and none passed.                              *)
(***************************************************************************)
THEOREM CascadeDialsInOrder == PatternSpec => []CascadeInOrder
<1>1. PatternInit => StepsInOrder
  BY DEF PatternInit, Idle, StepsInOrder, FailedBefore
<1>2. ASSUME PatternInd, StepsInOrder PROVE CascadeInOrder
  <2> SUFFICES ASSUME NEW n \in 2 .. MaxRecipients, Key(Step(n)) \in remote
               PROVE  FailedBefore(n)
    BY DEF CascadeInOrder, FailedBefore
  <2>1. n \in 1 .. MaxRecipients /\ Key(Step(n)).intent = Step(n)
    BY PatternsAssumption DEF Key
  <2> QED
    BY <1>2, <2>1, IntentFacts DEF StepsInOrder
<1>3. PatternInd /\ StepsInOrder /\ [PatternNext]_patternVars => StepsInOrder'
  BY OrderStep
<1> QED
  BY <1>1, <1>2, <1>3, AlwaysTyped, PTL DEF PatternSpec

-----------------------------------------------------------------------------
(***************************************************************************)
(* Approvals are only ever added, and an approved one stays as it is.      *)
(***************************************************************************)
ApprovedStays(i) == \A a \in Human(i) : a.status = "APPROVED" => a \in Human(i)'

LEMMA AskKeeps ==
  ASSUME PatternInd, NEW i \in Intents, Ask(i)
  PROVE  /\ \A j \in Intents : ApprovedStays(j)
         /\ \A j \in Intents \ {i} : approvals'[j] = approvals[j]
         /\ approvals'[i] # <<>>
<1> DEFINE row == [status |-> "PENDING", expires |-> now + 1]
<1>1. /\ DOMAIN approvals = Intents /\ approvals[i] \in Seq(Approval)
      /\ row \in Approval
  <2>1. now + 1 \in 0 .. MaxTime + 1
    BY PatternsAssumption DEF PatternInd, PatternTypeOK
  <2> QED
    BY <2>1 DEF PatternInd, PatternTypeOK, Approval
<1>2. approvals'[i] = Append(approvals[i], row) /\ \A j \in Intents \ {i} : approvals'[j] = approvals[j]
  BY <1>1 DEF Ask
<1>3. /\ Len(Append(approvals[i], row)) = Len(approvals[i]) + 1
      /\ \A n \in 1 .. Len(approvals[i]) : Append(approvals[i], row)[n] = approvals[i][n]
  BY <1>1, AppendProperties
<1>4. /\ DOMAIN approvals[i] = 1 .. Len(approvals[i]) /\ Len(approvals[i]) \in Nat
      /\ DOMAIN Append(approvals[i], row) = 1 .. (Len(approvals[i]) + 1)
  BY <1>1, AppendProperties, LenProperties
<1>5. ApprovedStays(i)
  <2> SUFFICES ASSUME NEW n \in DOMAIN approvals[i]
               PROVE  n \in DOMAIN approvals'[i] /\ approvals'[i][n] = approvals[i][n]
    BY DEF ApprovedStays, Human
  <2> QED
    BY <1>2, <1>3, <1>4
<1>6. \A j \in Intents \ {i} : ApprovedStays(j)
  BY <1>2 DEF ApprovedStays, Human
<1>7. approvals'[i] # <<>>
  BY <1>1, <1>2, AppendProperties
<1> QED
  BY <1>2, <1>5, <1>6, <1>7

LEMMA DecideKeeps ==
  ASSUME PatternInd, NEW i \in Intents, NEW n \in DOMAIN approvals[i],
         NEW d \in {"APPROVED", "REJECTED"}, Decide(i, n, d)
  PROVE  /\ \A j \in Intents : ApprovedStays(j)
         /\ \A j \in Intents \ {i} : approvals'[j] = approvals[j]
         /\ approvals'[i] # <<>> /\ approvals[i][n] \in Human(i)
         /\ approvals[i][n].status = "PENDING"
<1>1. DOMAIN approvals = Intents /\ approvals[i] \in Seq(Approval)
  BY DEF PatternInd, PatternTypeOK
<1>2. /\ approvals' = [approvals EXCEPT ![i][n].status = d]
      /\ approvals[i][n].status = "PENDING"
  BY DEF Decide
<1>3. /\ approvals'[i] = [approvals[i] EXCEPT ![n].status = d]
      /\ \A j \in Intents \ {i} : approvals'[j] = approvals[j]
  BY <1>1, <1>2
<1>4. /\ DOMAIN approvals'[i] = DOMAIN approvals[i]
      /\ \A m \in DOMAIN approvals[i] \ {n} : approvals'[i][m] = approvals[i][m]
  BY <1>1, <1>3, LenProperties
<1>5. ApprovedStays(i)
  BY <1>2, <1>4 DEF ApprovedStays, Human
<1>6. \A j \in Intents \ {i} : ApprovedStays(j)
  BY <1>3 DEF ApprovedStays, Human
<1>7. approvals'[i] # <<>>
  BY <1>1, <1>4, EmptySeq
<1> QED
  BY <1>2, <1>3, <1>5, <1>6, <1>7 DEF Human

(***************************************************************************)
(* The steps that leave approvals alone, or add one that is not a step's.  *)
(***************************************************************************)
Copies == Cascade \/ CascadeStep \/ Dial \/ DialFails \/ Returned

NoCopies ==
  /\ remote' = remote
  /\ \/ runner' = runner
     \/ runner'.pc = "idle"
     \/ runner'.step = 0
     \/ runner.pc # "idle" /\ runner'.step = runner.step /\ runner'.expires = runner.expires
  /\ \A j \in Intents : ApprovedStays(j)
  /\ \A n \in 1 .. MaxRecipients :
       \/ approvals'[Step(n)] = approvals[Step(n)]
       \/ \E a \in Human(Step(n)) : a.status = "PENDING"

LEMMA OtherSteps ==
  ASSUME PatternInd, [PatternNext]_patternVars, ~Copies
  PROVE  NoCopies
<1> USE DEF NoCopies, options, world, callRows, claims, intentRow, patternVars
<1>1. ASSUME runner.pc # "idle" PROVE runner \in RunnerState
  BY <1>1, AtWork DEF PatternInd
<1>2. (approvals' = approvals) =>
        /\ \A j \in Intents : ApprovedStays(j)
        /\ \A n \in 1 .. MaxRecipients : approvals'[Step(n)] = approvals[Step(n)]
  BY DEF ApprovedStays, Human
<1>3. ASSUME NEW i \in Intents, Run(i) PROVE NoCopies
  BY <1>3, <1>2 DEF Run
<1>4. ASSUME Handle PROVE NoCopies
  <2>1. ASSUME OneShot \/ FanOut \/ HumanGateOpen PROVE NoCopies
    BY <1>1, <1>2, <2>1 DEF OneShot, FanOut, HumanGateOpen, Handles, Goto, RunnerState
  <2>2. ASSUME Negotiation \/ Clarification \/ Verification PROVE NoCopies
    BY <1>1, <1>2, <2>2 DEF Negotiation, Clarification, Verification, Handles, Goto, RunnerState
  <2>3. ASSUME FollowUp \/ NoteEscalation \/ Escalate PROVE NoCopies
    BY <1>1, <1>2, <2>3 DEF FollowUp, NoteEscalation, Escalate, Handles, Goto, Outcome, RunnerState
  <2>4. ASSUME runner.pc \in {"handle", "step"}, Outcome("refused"),
               UNCHANGED <<options, world, children, callRows, intentRow, jobs, rounds>>
        PROVE  NoCopies
    BY <1>1, <1>2, <2>4 DEF Outcome, RunnerState
  <2>5. ASSUME NEW p, Handles(p) PROVE runner.pc \in {"handle", "step"}
    BY <2>5 DEF Handles
  <2>6. ASSUME AskToEscalate PROVE NoCopies
    <3>1. runner.callee \in Intents /\ \A n \in 1 .. MaxRecipients : Step(n) # runner.callee
      <4>1. escalated \in Nat /\ escalated < Contacts /\ runner.callee = Escalation(escalated + 1)
        BY <2>6 DEF AskToEscalate, PatternInd, PatternTypeOK, Placed
      <4>2. Contacts \in Nat
        BY PatternsAssumption
      <4> QED
        BY <4>1, <4>2, IntentFacts
    <3>2. Ask(runner.callee)
      BY <2>6 DEF AskToEscalate
    <3>3. /\ \A j \in Intents : ApprovedStays(j)
          /\ \A n \in 1 .. MaxRecipients : approvals'[Step(n)] = approvals[Step(n)]
      BY <3>1, <3>2, AskKeeps, IntentFacts
    <3> QED
      BY <1>1, <2>6, <3>3 DEF AskToEscalate, Goto, RunnerState
  <2>7. ASSUME HumanGateShut PROVE NoCopies
    <3>1. /\ \A j \in Intents : ApprovedStays(j)
          /\ \A n \in 1 .. MaxRecipients : approvals'[Step(n)] = approvals[Step(n)]
      BY <2>7, <1>2, AskKeeps, IntentFacts DEF HumanGateShut
    <3> QED
      BY <1>1, <2>7, <3>1 DEF HumanGateShut, Handles, Outcome, RunnerState
  <2> QED
    BY <1>4, <2>1, <2>2, <2>3, <2>4, <2>5, <2>6, <2>7 DEF Handle, Copies, Refused, CascadeRefused
<1>5. ASSUME Call PROVE NoCopies
  <2>1. ASSUME Existing \/ StartCall PROVE NoCopies
    BY <1>1, <1>2, <2>1 DEF Existing, StartCall, Enter, Goto, RunnerState
  <2>2. ASSUME Store \/ Mark PROVE NoCopies
    BY <1>1, <1>2, <2>2 DEF Store, Mark, Goto, RunnerState
  <2>3. ASSUME Raises \/ RecordProgress PROVE NoCopies
    BY <1>2, <2>3 DEF Raises, RecordProgress, Idle
  <2> QED
    BY <1>5, <2>1, <2>2, <2>3 DEF Call, Copies
<1>6. ASSUME Environment PROVE NoCopies
  <2>1. ASSUME Tick \/ MissionMoves \/ Restart PROVE NoCopies
    BY <1>2, <2>1 DEF Tick, MissionMoves, Restart, Idle
  <2>2. ASSUME NEW i \in Intents, Finalize(i) PROVE NoCopies
    BY <1>2, <2>2 DEF Finalize
  <2>3. ASSUME RequestApproval PROVE NoCopies
    BY <2>3, AskKeeps, IntentFacts DEF RequestApproval
  <2>4. ASSUME NEW i \in Intents, NEW n \in DOMAIN approvals[i],
               NEW d \in {"APPROVED", "REJECTED"}, Decide(i, n, d)
        PROVE  NoCopies
    BY <2>4, DecideKeeps, IntentFacts DEF Decide
  <2> QED
    BY <1>6, <2>1, <2>2, <2>3, <2>4 DEF Environment
<1>7. ASSUME UNCHANGED patternVars PROVE NoCopies
  BY <1>2, <1>7
<1> QED
  BY <1>3, <1>4, <1>5, <1>6, <1>7 DEF PatternNext

LEMMA ApprovedStep ==
  ASSUME PatternInd, StepsApproved, [PatternNext]_patternVars
  PROVE  StepsApproved'
<1>1. ASSUME runner.pc # "idle" PROVE runner \in RunnerState
  BY <1>1, AtWork DEF PatternInd
<1>2. ASSUME NEW i \in Intents PROVE approvals[i] \in Seq(Approval)
  BY <1>2 DEF PatternInd, PatternTypeOK
<1>3. \A k \in remote : k.intent \in Intents
  BY DEF PatternInd, PatternTypeOK
<1>4. ASSUME NEW i \in Intents, LatestUsable(i)
      PROVE  Last(approvals[i]) \in Human(i) /\ Last(approvals[i]).status = "APPROVED"
  <2>1. Len(approvals[i]) \in DOMAIN approvals[i]
    BY <1>2, <1>4, EmptySeq, LenProperties DEF LatestUsable
  <2> QED
    BY <1>4, <2>1 DEF LatestUsable, Usable, Human, Last
<1>5. CASE NoCopies
  <2>1. ASSUME NEW x, \E a \in Human(Intent) : a.status = "APPROVED" /\ a.expires = x
        PROVE  \E a \in Human(Intent)' : a.status = "APPROVED" /\ a.expires = x
    BY <1>5, <2>1, IntentFacts DEF NoCopies, ApprovedStays
  <2>2. ASSUME NEW n \in 1 .. MaxRecipients, approvals'[Step(n)] # <<>>
        PROVE  \E a \in Human(Intent)' :
                 /\ a.status = "APPROVED"
                 /\ \A d \in Human(Step(n))' : d.status = "APPROVED" /\ d.expires = a.expires
    <3>1. approvals'[Step(n)] = approvals[Step(n)]
      <4>1. CASE approvals[Step(n)] = <<>>
        BY <1>5, <4>1 DEF NoCopies, Human
      <4>2. CASE approvals[Step(n)] # <<>>
        BY <1>5, <4>2 DEF NoCopies, StepsApproved
      <4> QED
        BY <4>1, <4>2
    <3>2. PICK a \in Human(Intent) :
            /\ a.status = "APPROVED"
            /\ \A d \in Human(Step(n)) : d.status = "APPROVED" /\ d.expires = a.expires
      BY <2>2, <3>1 DEF StepsApproved
    <3>3. a \in Human(Intent)'
      BY <1>5, <3>2, IntentFacts DEF NoCopies, ApprovedStays
    <3> QED
      BY <3>1, <3>2, <3>3 DEF Human
  <2>3. ASSUME runner'.pc # "idle", runner'.step > 0
        PROVE  \E a \in Human(Intent)' : a.status = "APPROVED" /\ a.expires = runner'.expires
    <3>1. /\ runner.pc # "idle" /\ runner.step > 0
          /\ runner'.expires = runner.expires
      BY <1>5, <2>3 DEF NoCopies
    <3>2. \E a \in Human(Intent) : a.status = "APPROVED" /\ a.expires = runner.expires
      BY <3>1 DEF StepsApproved, ApprovedUntil
    <3> QED
      BY <2>1, <3>1, <3>2
  <2>4. ASSUME NEW k \in remote' PROVE \E a \in Human(k.intent)' : a.status = "APPROVED"
    BY <1>5, <1>3, <2>4 DEF NoCopies, StepsApproved, ApprovedStays
  <2> QED
    BY <2>2, <2>3, <2>4 DEF StepsApproved, ApprovedUntil
<1>6. CASE Cascade
  <2>1. /\ UNCHANGED <<approvals, remote>>
        /\ runner'.expires = Last(approvals[Intent]).expires
    BY <1>1, <1>6 DEF Cascade, Handles, RunnerState, world, callRows
  <2>2. ApprovedUntil(runner'.expires)
    BY <1>6, <1>4, <2>1, IntentFacts DEF Cascade, ApprovedUntil
  <2> QED
    BY <2>1, <2>2 DEF StepsApproved, ApprovedUntil, Human
<1>7. CASE CascadeStep
  <2>1. /\ runner.step \in 1 .. MaxRecipients /\ Step(runner.step) \in Intents \ {Intent}
        /\ MaxRecipients \in Nat
    BY <1>7, InHand, IntentFacts, PatternsAssumption DEF CascadeStep
  <2>2. /\ remote' = remote /\ runner'.step = runner.step /\ runner'.expires = runner.expires
        /\ \/ approvals' = approvals
           \/ approvals' = [approvals EXCEPT ![Step(runner.step)] = <<Derived>>]
    BY <1>1, <1>7 DEF CascadeStep, RunnerState, callRows
  <2>3. ApprovedUntil(runner.expires)
    BY <1>7, <2>1 DEF CascadeStep, StepsApproved
  <2>4. CASE approvals' = approvals
    BY <2>2, <2>3, <2>4 DEF StepsApproved, ApprovedUntil, Human
  <2>5. CASE approvals' = [approvals EXCEPT ![Step(runner.step)] = <<Derived>>]
    <3>1. PICK s \in 1 .. MaxRecipients : s = runner.step
      BY <2>1
    <3>2. PICK a \in Human(Intent) : a.status = "APPROVED" /\ a.expires = runner.expires
      BY <2>3 DEF ApprovedUntil
    <3>3. /\ approvals'[Step(s)] = <<Derived>>
          /\ \A i \in Intents \ {Step(s)} : approvals'[i] = approvals[i]
      BY <2>1, <2>5, <3>1 DEF PatternInd, PatternTypeOK
    <3>4. /\ \A i \in Intents \ {Step(s)} : Human(i)' = Human(i)
          /\ \A d \in Human(Step(s))' : d.status = "APPROVED" /\ d.expires = a.expires
          /\ \E d \in Human(Step(s))' : d.status = "APPROVED"
      <4>1. DOMAIN <<Derived>> = {1} /\ <<Derived>>[1] = Derived
        OBVIOUS
      <4>2. Derived.status = "APPROVED" /\ Derived.expires = a.expires
        BY <3>2 DEF Derived
      <4> HIDE DEF Derived
      <4> QED
        BY <3>3, <4>1, <4>2 DEF Human
    <3>5. a \in Human(Intent)'
      BY <2>1, <3>1, <3>2, <3>4, IntentFacts
    <3>6. ApprovedUntil(runner.expires)'
      BY <2>2, <3>2, <3>5 DEF ApprovedUntil
    <3>7. ASSUME NEW n \in 1 .. MaxRecipients, approvals'[Step(n)] # <<>>
          PROVE  \E b \in Human(Intent)' :
                   /\ b.status = "APPROVED"
                   /\ \A d \in Human(Step(n))' : d.status = "APPROVED" /\ d.expires = b.expires
      <4>1. CASE n = s
        BY <3>2, <3>4, <3>5, <4>1
      <4>2. CASE n # s
        <5>1. Step(n) \in Intents \ {Step(s)} /\ Intent \in Intents \ {Step(s)}
          BY <4>2, IntentFacts
        <5> QED
          BY <3>3, <3>4, <3>7, <5>1 DEF StepsApproved
      <4> QED
        BY <4>1, <4>2
    <3>8. ASSUME NEW k \in remote PROVE \E d \in Human(k.intent)' : d.status = "APPROVED"
      BY <1>3, <3>4, <3>8 DEF StepsApproved
    <3> QED
      BY <2>2, <3>6, <3>7, <3>8 DEF StepsApproved
  <2> QED
    BY <2>2, <2>4, <2>5
<1>8. CASE Dial \/ DialFails
  <2>1. runner.callee \in Intents
    BY <1>8, InHand DEF Dial, DialFails, InStep
  <2>2. /\ UNCHANGED approvals
        /\ \/ runner'.pc = "idle"
           \/ runner'.step = runner.step /\ runner'.expires = runner.expires /\ runner.pc # "idle"
        /\ \/ remote' = remote
           \/ remote' = remote \cup {Key(runner.callee)} /\ LatestUsable(runner.callee)
    BY <1>1, <1>8 DEF Dial, DialFails, Goto, Idle, RunnerState, world
  <2>3. ASSUME NEW k \in remote' PROVE \E a \in Human(k.intent) : a.status = "APPROVED"
    BY <1>4, <2>1, <2>2, <2>3 DEF StepsApproved, Key
  <2> QED
    BY <2>2, <2>3 DEF StepsApproved, ApprovedUntil, Human
<1>9. CASE Returned
  <2>1. UNCHANGED <<approvals, remote>> /\ runner.pc # "idle"
    BY <1>9 DEF Returned, world, callRows
  <2>2. runner'.expires = runner.expires /\ (runner'.step > 0 => runner.step > 0)
    <3>1. CASE runner.intent = Intent /\ pattern = "CASCADE"
      <4>1. runner.step > 0
        BY <1>9, <3>1, InHand, PatternsAssumption DEF Returned, InStep
      <4>2. runner'.expires = runner.expires
        BY <1>1, <1>9, <3>1 DEF Returned, AfterStep, RunnerState, Finished, PatternInd, Placed
      <4> QED
        BY <4>1, <4>2
    <3>2. CASE ~(runner.intent = Intent /\ pattern = "CASCADE")
      BY <1>1, <1>9, <3>2 DEF Returned, AfterCall, RunnerState
    <3> QED
      BY <3>1, <3>2
  <2> QED
    BY <2>1, <2>2 DEF StepsApproved, ApprovedUntil, Human
<1> QED
  BY <1>5, <1>6, <1>7, <1>8, <1>9, OtherSteps DEF Copies

(***************************************************************************)
(* Whatever a pattern dials, whenever it was cut off and run again, was    *)
(* approved by the user: under an approval of its own, or, for a step of a *)
(* cascade, one of the parent that lives as long.                          *)
(***************************************************************************)
THEOREM PatternDialsApproved == PatternSpec => []DialsWereApproved
<1>1. PatternInit => StepsApproved
  BY IntentFacts DEF PatternInit, Idle, StepsApproved, Human
<1>2. ASSUME PatternInd, StepsApproved PROVE DialsWereApproved
  <2> SUFFICES ASSUME NEW k \in remote
               PROVE  \E a \in Human(IF k.intent[1] = "step" THEN Intent ELSE k.intent) :
                        /\ a.status = "APPROVED"
                        /\ k.intent[1] = "step" =>
                             \A d \in Human(k.intent) : d.expires = a.expires
    BY DEF DialsWereApproved
  <2>1. k.intent \in Intents /\ \E a \in Human(k.intent) : a.status = "APPROVED"
    BY <1>2 DEF PatternInd, PatternTypeOK, StepsApproved
  <2>2. CASE k.intent[1] = "step"
    <3>1. PICK n \in 1 .. MaxRecipients : k.intent = Step(n)
      BY <2>1, <2>2 DEF Intents, Intent, Escalation, Step
    <3>2. approvals[Step(n)] # <<>>
      BY <2>1, <3>1 DEF Human
    <3> QED
      BY <1>2, <2>2, <3>1, <3>2 DEF StepsApproved
  <2>3. CASE k.intent[1] # "step"
    BY <2>1, <2>3
  <2> QED
    BY <2>2, <2>3
<1>3. PatternInd /\ StepsApproved /\ [PatternNext]_patternVars => StepsApproved'
  BY ApprovedStep
<1> QED
  BY <1>1, <1>2, <1>3, AlwaysTyped, PTL DEF PatternSpec

-----------------------------------------------------------------------------
DialedAndStored == GoalsDialed /\ StoredGoalWasDialed

LEMMA GoalStep ==
  ASSUME PatternInd, DialedAndStored, [PatternNext]_patternVars
  PROVE  DialedAndStored'
<1> USE DEF DialedAndStored
<1>1. ASSUME runner.pc # "idle" PROVE runner \in RunnerState
  BY <1>1, AtWork DEF PatternInd
<1>3. CASE BetweenCalls
  BY <1>3 DEF BetweenCalls, GoalsDialed, StoredGoalWasDialed, Key
<1>4. CASE Cascade \/ CascadeStep \/ Escalate
  <2>1. /\ UNCHANGED <<goal, runs, remote>>
        /\ runner'.pc \in {"step", "call", "ask"}
    BY <1>1, <1>4 DEF Cascade, CascadeStep, Escalate, Handles, RunnerState, callRows, intentRow
  <2> QED
    BY <2>1 DEF GoalsDialed, StoredGoalWasDialed, Key
<1>5. CASE Dial \/ DialFails
  <2>1. /\ UNCHANGED <<goal, runs>>
        /\ \/ runner'.pc = "idle" /\ remote' \in {remote, remote \cup {Key(runner.callee)}}
           \/ /\ runner'.callee = runner.callee
              /\ remote' = remote \cup {Key(runner.callee)}
    BY <1>1, <1>5 DEF Dial, DialFails, Goto, Idle, RunnerState, intentRow
  <2>2. Key(runner.callee)' = Key(runner'.callee)
    BY <2>1 DEF Key
  <2>3. \A k \in remote' : k \in remote \/ k = Key(runner.callee)
    BY <2>1
  <2> QED
    BY <2>1, <2>2, <2>3 DEF GoalsDialed, StoredGoalWasDialed, Key
<1>6. CASE Existing \/ Returned
  <2>1. UNCHANGED <<goal, runs, remote>>
    BY <1>6 DEF Existing, Returned, callRows, intentRow
  <2>2. runner'.pc # "store"
    <3>1. CASE Existing
      BY <1>1, <3>1 DEF Existing, RunnerState
    <3>2. CASE Returned
      <4>1. CASE runner.intent = Intent /\ pattern = "CASCADE"
        BY <1>1, <3>2, <4>1 DEF Returned, AfterStep, RunnerState, Finished, PatternInd, Placed
      <4>2. CASE ~(runner.intent = Intent /\ pattern = "CASCADE")
        BY <1>1, <3>2, <4>2 DEF Returned, AfterCall, RunnerState
      <4> QED
        BY <4>1, <4>2
    <3> QED
      BY <1>6, <3>1, <3>2
  <2> QED
    BY <2>1, <2>2 DEF GoalsDialed, StoredGoalWasDialed, Key
<1>7. CASE Store
  <2>1. /\ UNCHANGED <<goal, remote>> /\ runner'.pc = "returned"
        /\ \A i \in Intents \ {runner.callee} : runs'[i] = runs[i]
    BY <1>1, <1>7 DEF Store, RunnerState, intentRow, PatternInd, PatternTypeOK
  <2>2. Key(runner.callee) \in remote
    BY <1>7 DEF Store, GoalsDialed
  <2> QED
    BY <2>1, <2>2, IntentFacts DEF GoalsDialed, StoredGoalWasDialed, Key
<1>8. ASSUME NEW i \in Intents, Finalize(i) PROVE DialedAndStored'
  <2>1. /\ UNCHANGED <<goal, remote, runner>>
        /\ runs'[Intent] # "none" => runs[Intent] # "none"
    BY <1>8, IntentFacts DEF Finalize, intentRow, PatternInd, PatternTypeOK
  <2> QED
    BY <2>1 DEF GoalsDialed, StoredGoalWasDialed, Key
<1> QED
  BY <1>3, <1>4, <1>5, <1>6, <1>7, <1>8, QuietSteps DEF OutOfOrder

LEMMA AlwaysDialed == PatternSpec => []DialedAndStored
<1>1. PatternInit => DialedAndStored
  BY IntentFacts DEF PatternInit, Idle, DialedAndStored, GoalsDialed, StoredGoalWasDialed
<1>2. PatternInd /\ DialedAndStored /\ [PatternNext]_patternVars => DialedAndStored'
  BY GoalStep
<1> QED
  BY <1>1, <1>2, AlwaysTyped, PTL DEF PatternSpec

(***************************************************************************)
(* Once a run of the intent is stored, its goal is one that was dialed.    *)
(***************************************************************************)
THEOREM StoredGoals == PatternSpec => []StoredGoalWasDialed
<1>1. DialedAndStored => StoredGoalWasDialed
  BY DEF DialedAndStored
<1> QED
  BY <1>1, AlwaysDialed, PTL

-----------------------------------------------------------------------------
Reported == PriorRead /\ VerdictReported

(***************************************************************************)
(* In a verification only its own handler is ever entered.                 *)
(***************************************************************************)
LEMMA VerificationOnly ==
  ASSUME PatternInd, pattern = "VERIFICATION", children = {}
  PROVE  /\ runner.pc # "idle" => runner.intent = Intent /\ runner \in RunnerState
         /\ InStep(runner.pc) => runner.callee = Intent /\ runner.pc # "idle"
         /\ runner.pc # "step"
         /\ \A p : Handles(p) => p = "VERIFICATION"
<1>1. runner.pc # "idle" => runner.intent = Intent
  BY DEF PatternInd, Placed
<1> QED
  BY <1>1, AtWork DEF PatternInd, Placed, InStep, Handles

LEMMA VerdictStep ==
  ASSUME PatternInd, Reported, [PatternNext]_patternVars
  PROVE  Reported'
<1>1. pattern' = pattern /\ named' = named
  BY DEF PatternNext, patternVars, options, Run, Handle, OneShot, FanOut, Cascade, CascadeStep,
     CascadeRefused, Negotiation, Clarification, Verification, FollowUp, Escalate,
     AskToEscalate, NoteEscalation, HumanGateOpen, HumanGateShut, Refused, Call, Existing,
     Raises, StartCall, Dial, DialFails, Store, Returned, Mark, RecordProgress, Environment,
     RequestApproval, Tick, MissionMoves, Restart, Finalize, Decide
<1> SUFFICES ASSUME pattern = "VERIFICATION" PROVE Reported'
  BY <1>1 DEF Reported, PriorRead, VerdictReported
<1>2. children = {}
  BY DEF Reported, PriorRead
<1>3. /\ runner.pc # "idle" => runner.intent = Intent /\ runner \in RunnerState
      /\ InStep(runner.pc) => runner.callee = Intent /\ runner.pc # "idle"
      /\ runner.pc # "step"
      /\ \A p : Handles(p) => p = "VERIFICATION"
  BY <1>2, VerificationOnly
<1>4. /\ runs \in [Intents -> {"none", "pending"} \cup Finished] /\ Intent \in Intents
      /\ prior \in {"none", "CONFLICTED"} \cup Supported
      /\ answer \in {"none", "conflict", "agreement"}
      /\ foundIn \in Nat /\ rounds \in Nat
  BY IntentFacts DEF PatternInd, PatternTypeOK
<1> USE <1>2, <1>1, <1>3
<1> USE DEF Reported, PriorRead, VerdictReported, Over, Completes, InStep, HasRead, FoundBefore,
        options, world, callRows, claims, intentRow, patternVars
<1>5. ASSUME NEW i \in Intents, Run(i) PROVE Reported'
  <2>1. i = Intent
    BY <1>5 DEF Run
  <2>2. runner'.pc = "handle" /\ progress' = "running" /\ rounds' = rounds + 1
    BY <1>5, <2>1 DEF Run
  <2>3. FoundBefore'
    BY <1>4, <1>5, <2>2 DEF Run
  <2> QED
    BY <1>5, <2>2, <2>3 DEF Run
<1>6. ASSUME Verification PROVE Reported'
  <2>1. /\ runner'.pc = "call"
        /\ runner'.prior = IF named \/ prior \in Supported THEN prior ELSE "none"
    BY <1>6 DEF Verification, Handles, RunnerState
  <2>2. prior \in Supported => prior # "none"
    BY DEF Supported
  <2>3. answer = "conflict" => prior = "CONFLICTED" /\ prior \notin Supported /\ foundIn < rounds
    BY <1>6 DEF Verification, Handles, Supported
  <2>4. FoundBefore'
    BY <1>6, <1>4, <2>1, <2>2, <2>3 DEF Verification, Handles
  <2> QED
    BY <1>6, <1>4, <2>1, <2>2, <2>4 DEF Verification
<1>7. ASSUME runner.pc = "handle", Outcome("refused"),
             UNCHANGED <<options, world, children, callRows, intentRow, jobs, rounds>>
      PROVE  Reported'
  <2>1. runner'.pc = "mark" /\ runner'.status = "refused"
    BY <1>7 DEF Outcome, RunnerState
  <2> QED
    BY <1>7, <2>1
<1>8. ASSUME Handle PROVE Verification \/ (Outcome("refused") /\ runner.pc = "handle" /\
               UNCHANGED <<options, world, children, callRows, intentRow, jobs, rounds>>)
  <2>1. ~Handles("ONE_SHOT") /\ ~Handles("FAN_OUT") /\ ~Handles("CASCADE")
        /\ ~Handles("NEGOTIATION_ROUND") /\ ~Handles("CLARIFICATION") /\ ~Handles("FOLLOW_UP")
        /\ ~Handles("ESCALATION") /\ ~Handles("HUMAN_GATE")
    OBVIOUS
  <2>2. runner.pc \notin {"ask", "note"}
    BY DEF PatternInd, Placed
  <2>3. ASSUME NEW p, Handles(p) PROVE runner.pc = "handle"
    BY <2>3 DEF Handles
  <2> QED
    BY <1>8, <2>1, <2>2, <2>3 DEF Handle, OneShot, FanOut, Cascade, CascadeStep, CascadeRefused,
       Negotiation, Clarification, FollowUp, Escalate, AskToEscalate, NoteEscalation,
       HumanGateOpen, HumanGateShut, Refused
<1>9. ASSUME Existing PROVE Reported'
  <2>1. /\ runner'.pc = "returned" /\ runner'.result = runs[Intent]
        /\ runner'.prior = runner.prior
    BY <1>9 DEF Existing, RunnerState
  <2> QED
    BY <1>9, <2>1 DEF Existing
<1>10. ASSUME Raises \/ DialFails \/ Restart PROVE Reported'
  BY <1>10 DEF Raises, DialFails, Restart, Idle
<1>11. ASSUME StartCall \/ Dial PROVE Reported'
  <2>1. runner'.pc \in {"dial", "store"} /\ runner'.prior = runner.prior
    BY <1>11 DEF StartCall, Enter, Dial, Goto, RunnerState
  <2> QED
    BY <1>11, <2>1 DEF StartCall, Enter, Dial
<1>12. ASSUME Ingested, runs[Intent] \notin Finished,
             runs'[Intent] \in Finished \/ UNCHANGED claims,
             \A i \in Intents \ {Intent} : runs'[i] = "none",
             UNCHANGED <<children, progress, reported, rounds>>,
             \/ runner' = runner
             \/ /\ runner'.pc = "returned" /\ runner'.result = runs'[Intent]
                /\ InStep(runner.pc) /\ runner'.prior = runner.prior
      PROVE  Reported'
  <2>1. answer = "none" /\ progress # "completed" /\ ~Completes
    BY <1>12
  <2>2. /\ answer' # "none" => runs'[Intent] \in Finished
        /\ answer' = "agreement" => prior' = "MULTI_SOURCE_SUPPORTED"
        /\ answer' = "conflict" => prior' = "CONFLICTED"
        /\ prior = "none" => prior' = "none"
        /\ prior = "CONFLICTED" => prior' = "CONFLICTED"
    BY <1>12, <1>4, <2>1 DEF Ingested, Supported
  <2>3. /\ foundIn' \in {0, foundIn, rounds}
        /\ runner.pc \in {"idle", "handle"} => foundIn' \in {0, foundIn}
        /\ InStep(runner.pc) /\ answer' = "conflict" =>
             foundIn' = IF prior \in Supported THEN rounds ELSE 0
        /\ answer' = "none" => UNCHANGED claims
    BY <1>12, <2>1 DEF Ingested, PriorInHand
  <2>4. HasRead' => HasRead /\ InStep(runner.pc)
    BY <1>12, <2>1
  <2>5. FoundBefore'
    BY <1>12, <1>4, <2>1, <2>3, <2>4
  <2> QED
    BY <1>12, <2>1, <2>2, <2>4, <2>5
<1>13. ASSUME Store PROVE Reported'
  <2>1. PICK result \in {"pending"} \cup Finished :
          /\ runs' = [runs EXCEPT ![Intent] = result]
          /\ runner' = [runner EXCEPT !.pc = "returned", !.result = result]
          /\ IF result = "pending" THEN UNCHANGED claims ELSE Ingested
    BY <1>13 DEF Store
  <2>2. runs[Intent] \notin Finished
    BY <1>13 DEF Store, Finished, PatternInd, Placed
  <2>3. runs'[Intent] = result /\ \A i \in Intents \ {Intent} : runs'[i] = "none"
    BY <1>4, <2>1
  <2>4. /\ runner'.pc = "returned" /\ runner'.result = runs'[Intent]
        /\ InStep(runner.pc) /\ runner'.prior = runner.prior
    BY <1>13, <2>1, <2>3 DEF Store, RunnerState
  <2>5. Ingested /\ (runs'[Intent] \in Finished \/ UNCHANGED claims)
    BY <2>1, <2>3 DEF Ingested
  <2> QED
    BY <1>12, <1>13, <2>2, <2>3, <2>4, <2>5 DEF Store
<1>14. ASSUME NEW i \in Intents, Finalize(i) PROVE Reported'
  <2>1. i = Intent
    BY <1>14 DEF Finalize
  <2>2. /\ runs[Intent] \notin Finished /\ runs'[Intent] \in Finished
        /\ \A j \in Intents \ {Intent} : runs'[j] = "none"
    BY <1>14, <1>4, <2>1 DEF Finalize, Finished
  <2> QED
    BY <1>12, <1>14, <2>2 DEF Finalize
<1>15. ASSUME Returned PROVE Reported'
  <2>1. /\ runner'.pc = "mark" /\ runner'.prior = runner.prior
        /\ runner'.status = "completed" => runner.result \in Finished
    BY <1>15 DEF Returned, AfterCall, RunnerState, PatternInd, Placed
  <2> QED
    BY <1>15, <2>1 DEF Returned
<1>16. ASSUME Mark PROVE Reported'
  <2>1. /\ runner'.pc = "record" /\ runner'.prior = runner.prior
        /\ runner'.status = runner.status
    BY <1>16 DEF Mark, Goto, RunnerState
  <2> QED
    BY <1>16, <2>1 DEF Mark
<1>17. ASSUME RecordProgress PROVE Reported'
  <2>1. /\ progress' = runner.status /\ runner'.pc = "idle"
        /\ reported' = IF runner.status = "completed" THEN Verdict ELSE "none"
    BY <1>17 DEF RecordProgress, Idle
  <2>2. UNCHANGED <<children, runs, claims>> /\ runner.pc = "record"
    BY <1>17 DEF RecordProgress
  <2>3. ASSUME runner.status = "completed"
        PROVE  /\ Verdict = "corroborated" <=> answer = "agreement"
               /\ Verdict = "conflicted" <=> answer = "conflict" /\ (named \/ foundIn = rounds)
    BY <2>2, <2>3 DEF Verdict
  <2>4. named' = named /\ rounds' = rounds
    BY <1>17 DEF RecordProgress
  <2>5. progress' = "completed" =>
          /\ reported' = "corroborated" <=> answer = "agreement"
          /\ reported' = "conflicted" <=> answer = "conflict" /\ (named \/ foundIn = rounds)
    BY <2>1, <2>3
  <2>6. VerdictReported'
    BY <2>2, <2>4, <2>5
  <2>7. PriorRead'
    BY <2>1, <2>2, <2>4
  <2> QED
    BY <2>6, <2>7
<1>18. ASSUME RequestApproval \/ Tick \/ MissionMoves \/ UNCHANGED patternVars PROVE Reported'
  BY <1>18 DEF RequestApproval, Tick, MissionMoves
<1>19. ASSUME NEW i \in Intents, NEW n \in DOMAIN approvals[i],
             NEW d \in {"APPROVED", "REJECTED"}, Decide(i, n, d) PROVE Reported'
  BY <1>19 DEF Decide
<1> QED
  BY <1>5, <1>6, <1>7, <1>8, <1>9, <1>10, <1>11, <1>13, <1>14, <1>15, <1>16, <1>17, <1>18, <1>19
     DEF PatternNext, Call, Environment

(***************************************************************************)
(* A verification that completes reports what the engine found: every      *)
(* agreement, and a contradiction exactly when the prior claim is named or *)
(* the reporting run had read it, still supported, before the answers came *)
(* by its own call or by a webhook.                                        *)
(***************************************************************************)
THEOREM VerdictIsReported == PatternSpec => []VerdictReported
<1>1. PatternInit => Reported
  BY DEF PatternInit, Idle, Reported, PriorRead, VerdictReported, InStep, Completes, Over, HasRead,
         FoundBefore
<1>2. PatternInd /\ Reported /\ [PatternNext]_patternVars => Reported'
  BY VerdictStep
<1>3. Reported => VerdictReported
  BY DEF Reported
<1> QED
  BY <1>1, <1>2, <1>3, AlwaysTyped, PTL DEF PatternSpec

=============================================================================
