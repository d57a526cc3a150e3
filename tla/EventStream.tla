----------------------------- MODULE EventStream -----------------------------
(***************************************************************************)
(* ActivityEventEmitter (events/emitter.py) and the SSE endpoint           *)
(* (api/events.py) for the events of one mission.                          *)
(*                                                                         *)
(* emit commits the row, which gives the event its sequence, and publishes *)
(* it to the subscribers' queues after the session is closed: another emit *)
(* may commit and publish in between, and the emitting task may be         *)
(* canceled there (stop_agent cancels an agent's task wherever it awaits). *)
(* The sequence is one column for all missions; the n-th event of this     *)
(* mission stands for it, since the code only compares.                    *)
(***************************************************************************)
EXTENDS Naturals, Sequences

CONSTANTS Emitters,       \* concurrent tasks inside emit
          Clients,        \* browsers following the mission
          MaxEvents,      \* bound: events ever emitted
          MayCancel,      \* whether a task may be canceled inside emit
          MayCrash        \* whether the process may restart

ASSUME StreamAssumption ==
  /\ MaxEvents \in Nat
  /\ MayCancel \in BOOLEAN
  /\ MayCrash \in BOOLEAN

VARIABLES stored,         \* rows in activity_events
          unpublished,    \* the event each emitter has committed and not published; 0 if none
          stream,         \* the connection of each client
          seen,           \* the events each client was sent, over all its connections
          missed          \* (history) the events each client may be left without

streamVars == <<stored, unpublished, stream, seen, missed>>

(***************************************************************************)
(* generate(): last is last_sent, upto the end of the replayed rows, queue *)
(* the subscription.                                                       *)
(***************************************************************************)
StreamState == [pc : {"away", "subscribed", "replayed"}, last : Nat, upto : Nat, queue : Seq(Nat)]
Away == [pc |-> "away", last |-> 0, upto |-> 0, queue |-> << >>]

(***************************************************************************)
(* Every sequence number in flight is that of a committed row.             *)
(***************************************************************************)
StreamTypeOK ==
  /\ stored \in Nat
  /\ unpublished \in [Emitters -> 0 .. stored]
  /\ stream \in [Clients -> StreamState]
  /\ seen \in [Clients -> Seq(1 .. stored)]
  /\ missed \in [Clients -> SUBSET (1 .. stored)]
  /\ \A c \in Clients :
       /\ stream[c].last <= stored
       /\ stream[c].upto <= stored
       /\ stream[c].queue \in Seq(1 .. stored)

StreamInit ==
  /\ stored = 0
  /\ unpublished = [e \in Emitters |-> 0]
  /\ stream = [c \in Clients |-> Away]
  /\ seen = [c \in Clients |-> << >>]
  /\ missed = [c \in Clients |-> {}]

(***************************************************************************)
(* emit: the row is inserted and committed, then published to every queue  *)
(* registered at that moment.                                              *)
(***************************************************************************)
Persist(e) ==
  /\ unpublished[e] = 0
  /\ stored < MaxEvents
  /\ stored' = stored + 1
  /\ unpublished' = [unpublished EXCEPT ![e] = stored + 1]
  /\ UNCHANGED <<stream, seen, missed>>

SubscribedAfterReplay(c) ==   \* slip: subscribe once the replay is sent
  stream[c].pc = "replayed" /\ stream[c].last >= stream[c].upto

Subscribed(c) == stream[c].pc # "away"

(***************************************************************************)
(* The history: a client has only its queue to learn of an event that its  *)
(* replay did not reach, and is left without those that come to the queue  *)
(* after a later one, or never.                                            *)
(***************************************************************************)
OnlyQueued(c, n) == stream[c].pc = "replayed" /\ stream[c].upto < n

Unpublished == {unpublished[e] : e \in Emitters} \ {0}

Overtaken(n) == {m \in Unpublished : m < n}

Miss(events) ==
  missed' = [c \in Clients |-> missed[c] \cup {n \in events : OnlyQueued(c, n)}]

Publish(e) ==
  /\ unpublished[e] # 0
  /\ stream' = [c \in Clients |->
                  IF Subscribed(c)
                  THEN [stream[c] EXCEPT !.queue = Append(@, unpublished[e])]
                  ELSE stream[c]]
  /\ unpublished' = [unpublished EXCEPT ![e] = 0]
  /\ Miss(Overtaken(unpublished[e]))
  /\ UNCHANGED <<stored, seen>>

Cancel(e) ==
  /\ MayCancel
  /\ unpublished[e] # 0
  /\ unpublished' = [unpublished EXCEPT ![e] = 0]
  /\ Miss({unpublished[e]})
  /\ UNCHANGED <<stored, stream, seen>>

-----------------------------------------------------------------------------
(***************************************************************************)
(* A client connects with the Last-Event-ID it has, and is subscribed      *)
(* before the log is read.                                                 *)
(***************************************************************************)
LastEventId(c) == IF seen[c] = << >> THEN 0 ELSE seen[c][Len(seen[c])]

Connect(c) ==
  /\ stream[c].pc = "away"
  /\ stream' = [stream EXCEPT ![c] = [Away EXCEPT !.pc = "subscribed", !.last = LastEventId(c)]]
  /\ UNCHANGED <<stored, unpublished, seen, missed>>

ReplayNothing(c) ==   \* slip: the replay starts at the end of the log
  /\ stream[c].pc = "subscribed"
  /\ stream' = [stream EXCEPT ![c].pc = "replayed", ![c].upto = stream[c].last]
  /\ UNCHANGED <<stored, unpublished, seen, missed>>

Replay(c) ==
  /\ stream[c].pc = "subscribed"
  /\ stream' = [stream EXCEPT ![c].pc = "replayed", ![c].upto = stored]
  /\ UNCHANGED <<stored, unpublished, seen, missed>>

(***************************************************************************)
(* The replayed rows are sent one by one ...                               *)
(***************************************************************************)
Replaying(c) == stream[c].pc = "replayed" /\ stream[c].last < stream[c].upto

SendReplayed(c) ==
  /\ Replaying(c)
  /\ stream' = [stream EXCEPT ![c].last = @ + 1]
  /\ seen' = [seen EXCEPT ![c] = Append(@, stream[c].last + 1)]
  /\ UNCHANGED <<stored, unpublished, missed>>

SendLiveUnfiltered(c) ==   \* slip: no comparison with last_sent
  /\ stream[c].pc = "replayed"
  /\ ~Replaying(c)
  /\ stream[c].queue # << >>
  /\ stream' = [stream EXCEPT ![c].queue = Tail(@), ![c].last = Head(stream[c].queue)]
  /\ seen' = [seen EXCEPT ![c] = Append(@, Head(stream[c].queue))]
  /\ UNCHANGED <<stored, unpublished, missed>>

(***************************************************************************)
(* ... then the queue is followed, and what is not beyond last_sent is     *)
(* taken for replayed already.                                             *)
(***************************************************************************)
SendLive(c) ==
  LET next == Head(stream[c].queue)
  IN  /\ stream[c].pc = "replayed"
      /\ ~Replaying(c)
      /\ stream[c].queue # << >>
      /\ IF next <= stream[c].last
         THEN /\ stream' = [stream EXCEPT ![c].queue = Tail(@)]
              /\ UNCHANGED seen
         ELSE /\ stream' = [stream EXCEPT ![c].queue = Tail(@), ![c].last = next]
              /\ seen' = [seen EXCEPT ![c] = Append(@, next)]
      /\ UNCHANGED <<stored, unpublished, missed>>

(***************************************************************************)
(* The connection ends, with whatever was queued for it; a message that    *)
(* was yielded and did not arrive counts as not sent.                      *)
(***************************************************************************)
Disconnect(c) ==
  /\ Subscribed(c)
  /\ stream' = [stream EXCEPT ![c] = Away]
  /\ UNCHANGED <<stored, unpublished, seen, missed>>

RestartStream ==
  /\ MayCrash
  /\ stream' = [c \in Clients |-> Away]
  /\ unpublished' = [e \in Emitters |-> 0]
  /\ UNCHANGED <<stored, seen, missed>>

Serve(c) == Replay(c) \/ SendReplayed(c) \/ SendLive(c)

StreamNext ==
  \/ \E e \in Emitters : Persist(e) \/ Publish(e) \/ Cancel(e)
  \/ \E c \in Clients : Connect(c) \/ Serve(c) \/ Disconnect(c)
  \/ RestartStream

StreamSpec == StreamInit /\ [][StreamNext]_streamVars

(***************************************************************************)
(* Tasks that have begun run on.  Nobody has to emit, connect or stay.     *)
(***************************************************************************)
FairStreamSpec ==
  /\ StreamSpec
  /\ \A e \in Emitters : WF_streamVars(Publish(e))
  /\ \A c \in Clients : WF_streamVars(Serve(c))

Feed ==
  INSTANCE EventFeed WITH
    written <- stored, held <- Unpublished, excused <- missed, shown <- seen

-----------------------------------------------------------------------------
(***************************************************************************)
(* A client is sent events in the order of their sequence, none of them    *)
(* twice, whatever replay, queue and reconnects bring it.                  *)
(***************************************************************************)
SeenInOrder ==
  \A c \in Clients : \A j, k \in DOMAIN seen[c] : j < k => seen[c][j] < seen[c][k]

(***************************************************************************)
(* "Subscribe before replaying so nothing emitted in between is lost": the *)
(* stream implements the feed. With emits that overtake and cancel each    *)
(* other, reconnects and restarts, a client is left without an event only  *)
(* if it was following its queue when that event was canceled between      *)
(* commit and publish, or was overtaken there by a later one.              *)
(***************************************************************************)
KeepsFeed == Feed!FeedSpec

(***************************************************************************)
(* A client that stays connected is sent every event in the log, except    *)
(* those that were canceled or overtaken while it followed its queue.      *)
(***************************************************************************)
EventArrives ==
  \A c \in Clients : \A n \in 1 .. MaxEvents :
    (Subscribed(c) /\ stored >= n)
      ~> \/ ~Subscribed(c)
         \/ \E k \in DOMAIN seen[c] : seen[c][k] = n
         \/ n \in missed[c]
=============================================================================
