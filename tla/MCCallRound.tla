---------------------------- MODULE MCCallRound ----------------------------
(***************************************************************************)
(* The call round on small instances: one or two intents, clerks and       *)
(* executions, one or two webhook deliveries in flight.                    *)
(***************************************************************************)
EXTENDS WebhookReceiver, TLC

CONSTANTS i1, i2, c1, c2, t1, t2, h1, h2, e1, e2

OneIntent == {i1}
TwoIntents == {i1, i2}
OneClerk == {c1}
TwoClerks == {c1, c2}
OneTask == {t1}
TwoTasks == {t1, t2}
OneDelivery == {h1}
TwoDeliveries == {h1, h2}
NoEvents == {}
TwoEvents == {e1, e2}
AllAboutFirst == [e \in Events |-> i1]
RoundSwaps ==
  Permutations(TwoTasks) \cup Permutations(TwoDeliveries) \cup Permutations(TwoEvents)
  \cup Permutations(TwoClerks)
IntentSwaps == Permutations(TwoTasks) \cup Permutations(TwoIntents) \cup Permutations(TwoClerks)
=============================================================================
