------------------------------ MODULE EventFeed ------------------------------
(***************************************************************************)
(* What the activity stream promises a browser: the events of its mission  *)
(* in order and none twice, across reconnects and restarts, and none left  *)
(* out unless the task that wrote it was canceled, or overtaken, before it *)
(* handed the event over.                                                  *)
(***************************************************************************)
EXTENDS Naturals, Sequences

CONSTANTS Clients

VARIABLES written,        \* events of the mission in the log
          held,           \* those whose writer has not handed them over
          excused,        \* the events each client may be left without
          shown           \* the events each client was shown, in that order

feed == <<written, held, excused, shown>>

FeedInit ==
  /\ written = 0
  /\ held = {}
  /\ excused = [c \in Clients |-> {}]
  /\ shown = [c \in Clients |-> << >>]

Write ==
  /\ written' = written + 1
  /\ held' = held \cup {written + 1}
  /\ UNCHANGED <<excused, shown>>

Excuse(late) ==
  /\ DOMAIN excused' = Clients
  /\ \A c \in Clients :
       excused[c] \subseteq excused'[c] /\ excused'[c] \subseteq excused[c] \cup late

(***************************************************************************)
(* An event that is handed over overtakes the earlier ones that are held.  *)
(***************************************************************************)
HandOver(n) ==
  /\ n \in held
  /\ held' = held \ {n}
  /\ Excuse({m \in held : m < n})
  /\ UNCHANGED <<written, shown>>

Withdraw(n) ==
  /\ n \in held
  /\ held' = held \ {n}
  /\ Excuse({n})
  /\ UNCHANGED <<written, shown>>

(***************************************************************************)
(* A restart loses what was held and excuses nobody from it.               *)
(***************************************************************************)
Forget ==
  /\ held' = {}
  /\ UNCHANGED <<written, excused, shown>>

LastShown(c) == IF shown[c] = << >> THEN 0 ELSE shown[c][Len(shown[c])]

Show(c, n) ==
  /\ LastShown(c) < n
  /\ \A m \in LastShown(c) + 1 .. n - 1 : m \in excused[c]
  /\ shown' = [shown EXCEPT ![c] = Append(@, n)]
  /\ UNCHANGED <<written, held, excused>>

FeedNext ==
  \/ Write
  \/ \E n \in held : HandOver(n) \/ Withdraw(n)
  \/ Forget
  \/ \E c \in Clients : \E n \in 1 .. written : Show(c, n)

FeedSpec == FeedInit /\ [][FeedNext]_feed
=============================================================================
