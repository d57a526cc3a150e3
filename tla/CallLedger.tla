------------------------------ MODULE CallLedger ------------------------------
(***************************************************************************)
(* What the call layer promises a mission, whatever runs concurrently,     *)
(* fails or restarts: a call is dialed after an approval, recorded after   *)
(* it was dialed, and turned into evidence after it was recorded and has   *)
(* ended, and nothing of this is ever taken back.                          *)
(***************************************************************************)
CONSTANTS Intents

VARIABLES approved,       \* intents with an approved approval
          dialed,         \* intents CALL-E holds a task for
          ended,          \* intents whose call is over
          recorded,       \* intents with a stored run
          evidenced       \* intents whose result was written as claims

ledger == <<approved, dialed, ended, recorded, evidenced>>

LedgerInit ==
  /\ approved = {}
  /\ dialed = {}
  /\ ended = {}
  /\ recorded = {}
  /\ evidenced = {}

Approve(i) ==
  /\ approved' = approved \cup {i}
  /\ UNCHANGED <<dialed, ended, recorded, evidenced>>

Dial(i) ==
  /\ i \in approved
  /\ dialed' = dialed \cup {i}
  /\ UNCHANGED <<approved, ended, recorded, evidenced>>

End(i) ==
  /\ i \in dialed
  /\ ended' = ended \cup {i}
  /\ UNCHANGED <<approved, dialed, recorded, evidenced>>

Record(i) ==
  /\ i \in dialed
  /\ recorded' = recorded \cup {i}
  /\ UNCHANGED <<approved, dialed, ended, evidenced>>

Evidence(i) ==
  /\ i \in recorded \cap ended
  /\ evidenced' = evidenced \cup {i}
  /\ UNCHANGED <<approved, dialed, ended, recorded>>

LedgerNext ==
  \E i \in Intents : Approve(i) \/ Dial(i) \/ End(i) \/ Record(i) \/ Evidence(i)

LedgerSpec == LedgerInit /\ [][LedgerNext]_ledger
=============================================================================
