---------------------------- MODULE MCEventStream ----------------------------
(***************************************************************************)
(* The activity stream with two emitting tasks and one browser.            *)
(***************************************************************************)
EXTENDS EventStream

CONSTANTS m1, m2, b1

TwoEmitting == {m1, m2}
OneBrowser == {b1}
=============================================================================
