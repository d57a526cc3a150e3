-------------------------- MODULE EventStreamProofs --------------------------
(***************************************************************************)
(* Theorems about the activity stream, for any number of emitters,         *)
(* cancellations and restarts.  The order in which a client is sent events *)
(* rests on last_sent being the last event it was sent (LastIsSent).  That *)
(* it is left only without those it may miss rests on what becomes of an   *)
(* event that the replay did not reach (Accounted): it is queued, still to *)
(* be published, or missed; and what is or may come to be queued behind a  *)
(* later event is missed.                                                  *)
(***************************************************************************)
EXTENDS EventStream, TLAPS, SequenceTheorems

LastIsSent == \A c \in Clients : Subscribed(c) => stream[c].last = LastEventId(c)

StreamInd == StreamTypeOK /\ SeenInOrder /\ LastIsSent

OneHolder ==
  \A e, f \in Emitters : unpublished[e] = unpublished[f] /\ unpublished[e] # 0 => e = f

Accounted(w, gone) ==
  w.pc = "replayed" =>
    /\ \A m \in 1 .. stored :
         w.last < m /\ w.upto < m =>
           (\E k \in DOMAIN w.queue : w.queue[k] = m) \/ m \in Unpublished \/ m \in gone
    /\ \A k \in DOMAIN w.queue : \A m \in Unpublished :
         w.upto < m /\ m < w.queue[k] => m \in gone
    /\ \A j, k \in DOMAIN w.queue :
         j < k /\ w.upto < w.queue[k] /\ w.queue[k] < w.queue[j] => w.queue[k] \in gone

FeedInd ==
  /\ StreamInd
  /\ OneHolder
  /\ \A c \in Clients : Accounted(stream[c], missed[c])

-----------------------------------------------------------------------------
(***************************************************************************)
(* Appending a number beyond the last one keeps a sequence in order.       *)
(***************************************************************************)
LEMMA AppendInOrder ==
  ASSUME NEW s, NEW S, S \subseteq Nat, s \in Seq(S), NEW n \in S,
         \A j, k \in DOMAIN s : j < k => s[j] < s[k],
         s # << >> => s[Len(s)] < n
  PROVE  /\ \A j, k \in DOMAIN Append(s, n) : j < k => Append(s, n)[j] < Append(s, n)[k]
         /\ Append(s, n) \in Seq(S)
         /\ Append(s, n) # << >>
         /\ Append(s, n)[Len(Append(s, n))] = n
  <1> DEFINE q == Append(s, n)
  <1>1. /\ q \in Seq(S) /\ Len(q) = Len(s) + 1 /\ DOMAIN q = 1 .. Len(s) + 1
        /\ q[Len(s) + 1] = n /\ \A i \in 1 .. Len(s) : q[i] = s[i]
    BY AppendProperties
  <1>2. DOMAIN s = 1 .. Len(s) /\ Len(s) \in Nat /\ \A i \in DOMAIN s : s[i] \in Nat
    BY ElementOfSeq, LenProperties
  <1>3. \A i \in DOMAIN s : s[i] < n
    <2> SUFFICES ASSUME NEW i \in DOMAIN s PROVE s[i] < n
      OBVIOUS
    <2>1. s # << >> /\ Len(s) \in DOMAIN s
      BY <1>2
    <2>2. CASE i = Len(s)
      BY <2>1, <2>2
    <2>3. CASE i < Len(s)
      BY <2>1, <2>3, <1>2
    <2> QED BY <2>2, <2>3, <1>2
  <1>4. ASSUME NEW j \in DOMAIN q, NEW k \in DOMAIN q, j < k PROVE q[j] < q[k]
    <2>1. j \in DOMAIN s
      BY <1>1, <1>2, <1>4
    <2>2. CASE k \in DOMAIN s
      BY <2>1, <2>2, <1>1, <1>2, <1>4
    <2>3. CASE k = Len(s) + 1
      BY <2>1, <2>3, <1>1, <1>2, <1>3
    <2> QED BY <2>2, <2>3, <1>1, <1>2
  <1>5. q # << >> /\ q[Len(q)] = n
    BY <1>1, <1>2
  <1> HIDE DEF q
  <1>6. /\ \A j, k \in DOMAIN q : j < k => q[j] < q[k]
        /\ q \in Seq(S) /\ q # << >> /\ q[Len(q)] = n
    BY <1>1, <1>4, <1>5
  <1> QED BY <1>6 DEF q

LEMMA WiderSeq ==
  ASSUME NEW S, NEW T, S \subseteq T, NEW s \in Seq(S)
  PROVE  s \in Seq(T)
  <1>1. Len(s) \in Nat /\ s \in [1 .. Len(s) -> S]
    BY LenProperties
  <1>2. s \in [1 .. Len(s) -> T]
    BY <1>1
  <1> QED BY <1>1, <1>2, SeqDef

LEMMA StreamInitInd == StreamInit => StreamInd
  <1> SUFFICES ASSUME StreamInit PROVE StreamInd
    OBVIOUS
  <1>1. << >> \in Seq(Nat) /\ << >> \in Seq(1 .. stored) /\ DOMAIN << >> = {}
    BY EmptySeq
  <1>2. StreamTypeOK
    <2>1. Away \in StreamState
      BY <1>1 DEF StreamState, Away
    <2>2. stored = 0 /\ \A c \in Clients : stream[c] = Away
      BY DEF StreamInit
    <2>3. \A c \in Clients : stream[c].last <= stored /\ stream[c].upto <= stored
      BY <2>2 DEF Away
    <2>4. \A c \in Clients : stream[c].queue \in Seq(1 .. stored)
      <3>1. Away.queue = << >>
        BY DEF Away
      <3> QED BY <1>1, <2>2, <3>1
    <2>5. /\ unpublished \in [Emitters -> 0 .. stored]
          /\ stream \in [Clients -> StreamState]
          /\ seen \in [Clients -> Seq(1 .. stored)]
          /\ missed \in [Clients -> SUBSET (1 .. stored)]
      BY <1>1, <2>1, <2>2 DEF StreamInit
    <2> QED BY <2>2, <2>3, <2>4, <2>5 DEF StreamTypeOK
  <1>3. SeenInOrder /\ LastIsSent
    BY <1>1 DEF StreamInit, SeenInOrder, LastIsSent, Subscribed, Away
  <1> QED BY <1>2, <1>3 DEF StreamInd

LEMMA UnpublishedStored == ASSUME StreamTypeOK PROVE Unpublished \subseteq 1 .. stored
  BY DEF StreamTypeOK, Unpublished

LEMMA MissedTyped ==
  ASSUME StreamTypeOK, NEW events \in SUBSET (1 .. stored), Miss(events)
  PROVE  missed' \in [Clients -> SUBSET (1 .. stored)]
  BY DEF StreamTypeOK, Miss

(***************************************************************************)
(* The steps of an emitter move no client.                                 *)
(***************************************************************************)
LEMMA EmitterSteps ==
  ASSUME StreamInd, NEW e \in Emitters, Persist(e) \/ Publish(e) \/ Cancel(e)
  PROVE  StreamInd'
  <1> USE DEF StreamInd
  <1>1. stored \in Nat /\ unpublished[e] \in 0 .. stored
    BY DEF StreamTypeOK
  <1>2. CASE Persist(e)
    <2>1. stored' = stored + 1 /\ stored' \in Nat /\ UNCHANGED <<stream, seen, missed>>
      BY <1>1, <1>2 DEF Persist
    <2>2. \A s \in Seq(1 .. stored) : s \in Seq(1 .. stored')
      <3> SUFFICES ASSUME NEW s \in Seq(1 .. stored) PROVE s \in Seq(1 .. stored')
        OBVIOUS
      <3>1. 1 .. stored \subseteq 1 .. stored'
        BY <2>1, <1>1
      <3> QED BY <3>1, WiderSeq
    <2>3. /\ unpublished' \in [Emitters -> 0 .. stored']
          /\ missed' \in [Clients -> SUBSET (1 .. stored')]
      BY <1>1, <1>2, <2>1 DEF Persist, StreamTypeOK
    <2>4. StreamTypeOK'
      BY <2>1, <2>2, <2>3, <1>1 DEF StreamTypeOK, StreamState
    <2>5. SeenInOrder' /\ LastIsSent'
      BY <2>1 DEF SeenInOrder, LastIsSent, Subscribed, LastEventId
    <2> QED BY <2>4, <2>5
  <1>3. CASE Publish(e)
    <2>1. UNCHANGED <<stored, seen>> /\ unpublished' \in [Emitters -> 0 .. stored']
      BY <1>1, <1>3 DEF Publish, StreamTypeOK
    <2>2. unpublished[e] \in 1 .. stored
      BY <1>1, <1>3 DEF Publish
    <2>3. ASSUME NEW c \in Clients
          PROVE  /\ stream'[c] \in StreamState
                 /\ stream'[c].pc = stream[c].pc
                 /\ stream'[c].last = stream[c].last
                 /\ stream'[c].upto = stream[c].upto
                 /\ stream'[c].queue \in Seq(1 .. stored)
      <3>1. stream[c] \in StreamState /\ stream[c].queue \in Seq(1 .. stored)
        BY DEF StreamTypeOK
      <3>2. /\ Append(stream[c].queue, unpublished[e]) \in Seq(1 .. stored)
            /\ Append(stream[c].queue, unpublished[e]) \in Seq(Nat)
        BY <3>1, <2>2, <1>1, AppendProperties DEF StreamState
      <3>3. stream'[c] = IF Subscribed(c)
                         THEN [stream[c] EXCEPT !.queue = Append(@, unpublished[e])]
                         ELSE stream[c]
        BY <1>3 DEF Publish
      <3> QED BY <3>1, <3>2, <3>3 DEF StreamState
    <2>4. stream' \in [Clients -> StreamState]
      BY <2>3, <1>3 DEF Publish
    <2>5. missed' \in [Clients -> SUBSET (1 .. stored)]
      <3>1. Miss(Overtaken(unpublished[e]))
        BY <1>3 DEF Publish
      <3> QED BY <2>2, <3>1, MissedTyped, UnpublishedStored DEF Overtaken
    <2>6. StreamTypeOK'
      BY <2>1, <2>3, <2>4, <2>5 DEF StreamTypeOK
    <2>7. SeenInOrder' /\ LastIsSent'
      BY <2>1, <2>3 DEF SeenInOrder, LastIsSent, Subscribed, LastEventId
    <2> QED BY <2>6, <2>7
  <1>4. CASE Cancel(e)
    <2>1. /\ UNCHANGED <<stored, stream, seen>> /\ unpublished' \in [Emitters -> 0 .. stored]
          /\ Miss({unpublished[e]}) /\ unpublished[e] \in 1 .. stored
      BY <1>1, <1>4 DEF Cancel, StreamTypeOK
    <2>2. missed' \in [Clients -> SUBSET (1 .. stored)]
      BY <2>1, MissedTyped
    <2> QED
      BY <2>1, <2>2 DEF StreamTypeOK, SeenInOrder, LastIsSent, Subscribed, LastEventId
  <1> QED BY <1>2, <1>3, <1>4

(***************************************************************************)
(* A client that is sent one event beyond last_sent stays in order.        *)
(***************************************************************************)
LEMMA SentInOrder ==
  ASSUME StreamInd, NEW c \in Clients, NEW n \in 1 .. stored,
         Subscribed(c), stream[c].last < n,
         NEW w \in StreamState, w.last = n, w.upto = stream[c].upto, w.pc = stream[c].pc,
         w.queue \in Seq(1 .. stored),
         stream' = [stream EXCEPT ![c] = w],
         seen' = [seen EXCEPT ![c] = Append(@, n)],
         UNCHANGED <<stored, unpublished, missed>>
  PROVE  StreamInd'
  <1> USE DEF StreamInd
  <1>1. /\ stored \in Nat /\ seen[c] \in Seq(1 .. stored)
        /\ stream \in [Clients -> StreamState] /\ seen \in [Clients -> Seq(1 .. stored)]
    BY DEF StreamTypeOK
  <1>2. seen[c] # << >> => seen[c][Len(seen[c])] < n
    BY DEF LastIsSent, LastEventId
  <1>3. \A j, k \in DOMAIN seen[c] : j < k => seen[c][j] < seen[c][k]
    BY DEF SeenInOrder
  <1>4. /\ \A j, k \in DOMAIN Append(seen[c], n) :
              j < k => Append(seen[c], n)[j] < Append(seen[c], n)[k]
        /\ Append(seen[c], n) \in Seq(1 .. stored)
        /\ Append(seen[c], n) # << >>
        /\ Append(seen[c], n)[Len(Append(seen[c], n))] = n
    <2>1. 1 .. stored \subseteq Nat
      BY <1>1
    <2>2. seen[c] \in Seq(1 .. stored) /\ n \in 1 .. stored
      BY <1>1
    <2> QED BY <2>1, <2>2, <1>2, <1>3, AppendInOrder, ZenonT(30)
  <1>5. /\ seen'[c] = Append(seen[c], n) /\ stream'[c] = w
        /\ \A d \in Clients : d # c => seen'[d] = seen[d] /\ stream'[d] = stream[d]
    BY <1>1
  <1>6. StreamTypeOK'
    BY <1>1, <1>4, <1>5 DEF StreamTypeOK
  <1>7. SeenInOrder'
    BY <1>4, <1>5 DEF SeenInOrder
  <1>8. LastIsSent'
    BY <1>4, <1>5 DEF LastIsSent, Subscribed, LastEventId
  <1> QED BY <1>6, <1>7, <1>8

(***************************************************************************)
(* The steps of a client that send nothing: its connection is replaced by  *)
(* one that remembers the same last event, or by none.                     *)
(***************************************************************************)
LEMMA SentNothing ==
  ASSUME StreamInd, NEW c \in Clients,
         NEW w \in StreamState, w.last <= stored, w.upto <= stored,
         w.queue \in Seq(1 .. stored),
         w.pc # "away" => w.last = LastEventId(c),
         stream' = [stream EXCEPT ![c] = w],
         UNCHANGED <<stored, unpublished, seen, missed>>
  PROVE  StreamInd'
  <1> USE DEF StreamInd
  <1>1. stream'[c] = w /\ \A d \in Clients : d # c => stream'[d] = stream[d]
    BY DEF StreamTypeOK
  <1>2. StreamTypeOK'
    BY <1>1 DEF StreamTypeOK
  <1>3. SeenInOrder' /\ LastIsSent'
    BY <1>1 DEF SeenInOrder, LastIsSent, Subscribed, LastEventId
  <1> QED BY <1>2, <1>3

LEMMA LastIsStored ==
  ASSUME StreamTypeOK, NEW c \in Clients
  PROVE  LastEventId(c) \in 0 .. stored
  <1>1. stored \in Nat /\ seen[c] \in Seq(1 .. stored)
    BY DEF StreamTypeOK
  <1>2. seen[c] # << >> => seen[c][Len(seen[c])] \in 1 .. stored
    <2> SUFFICES ASSUME seen[c] # << >> PROVE seen[c][Len(seen[c])] \in 1 .. stored
      OBVIOUS
    <2>1. Len(seen[c]) \in 1 .. Len(seen[c])
      BY <1>1, EmptySeq, LenProperties
    <2> QED BY <1>1, <2>1, ElementOfSeq
  <1> QED BY <1>1, <1>2 DEF LastEventId

LEMMA AwayState ==
  ASSUME stored \in Nat
  PROVE  /\ Away \in StreamState /\ Away.pc = "away"
         /\ Away.last <= stored /\ Away.upto <= stored
         /\ Away.queue \in Seq(1 .. stored)
  <1> DEFINE none == << >>
  <1>1. none \in Seq(Nat) /\ none \in Seq(1 .. stored)
    BY EmptySeq
  <1> HIDE DEF none
  <1>2. Away = [pc |-> "away", last |-> 0, upto |-> 0, queue |-> none]
    BY DEF Away, none
  <1> QED BY <1>1, <1>2 DEF StreamState

LEMMA ClientSteps ==
  ASSUME StreamInd, NEW c \in Clients, Connect(c) \/ Serve(c) \/ Disconnect(c)
  PROVE  StreamInd'
  <1>1. /\ StreamTypeOK /\ stored \in Nat /\ LastEventId(c) \in 0 .. stored
        /\ stream \in [Clients -> StreamState]
        /\ stream[c] \in StreamState
        /\ stream[c].last <= stored /\ stream[c].upto <= stored
        /\ stream[c].queue \in Seq(1 .. stored)
        /\ Subscribed(c) => stream[c].last = LastEventId(c)
    BY LastIsStored DEF StreamInd, StreamTypeOK, LastIsSent
  <1>2. CASE Connect(c)
    <2> DEFINE w == [Away EXCEPT !.pc = "subscribed", !.last = LastEventId(c)]
    <2>1. stream' = [stream EXCEPT ![c] = w] /\ UNCHANGED <<stored, unpublished, seen, missed>>
      BY <1>2 DEF Connect
    <2>2. /\ w \in StreamState /\ w.last = LastEventId(c)
          /\ w.last <= stored /\ w.upto <= stored /\ w.queue \in Seq(1 .. stored)
      <3>1. LastEventId(c) \in Nat /\ LastEventId(c) <= stored
        BY <1>1
      <3> QED BY <1>1, <3>1, AwayState DEF StreamState
    <2> HIDE DEF w
    <2> QED BY <2>1, <2>2, SentNothing DEF StreamInd
  <1>3. CASE Replay(c)
    <2> DEFINE w == [stream[c] EXCEPT !.pc = "replayed", !.upto = stored]
    <2>1. /\ w.pc = "replayed" /\ w.last = stream[c].last /\ w.upto = stored
          /\ w.queue = stream[c].queue /\ w \in StreamState
      BY <1>1 DEF StreamState
    <2>2. stream' = [stream EXCEPT ![c] = w] /\ UNCHANGED <<stored, unpublished, seen, missed>>
      BY <1>3 DEF Replay
    <2>3. w.last = LastEventId(c)
      BY <1>1, <1>3, <2>1 DEF Replay, Subscribed
    <2> HIDE DEF w
    <2>4. w.last <= stored /\ w.upto <= stored /\ w.queue \in Seq(1 .. stored)
      BY <1>1, <2>1
    <2> QED BY <2>1, <2>2, <2>3, <2>4, SentNothing
  <1>4. CASE SendReplayed(c)
    <2> DEFINE w == [stream[c] EXCEPT !.last = @ + 1]
    <2>1. /\ w.pc = stream[c].pc /\ w.last = stream[c].last + 1 /\ w.upto = stream[c].upto
          /\ w.queue = stream[c].queue /\ w \in StreamState
      <3>1. stream[c].last + 1 \in Nat
        BY <1>1 DEF StreamState
      <3> QED BY <1>1, <3>1 DEF StreamState
    <2>2. /\ stream' = [stream EXCEPT ![c] = w]
          /\ seen' = [seen EXCEPT ![c] = Append(@, w.last)]
          /\ UNCHANGED <<stored, unpublished, missed>>
      BY <1>4, <2>1 DEF SendReplayed
    <2>3. Subscribed(c) /\ stream[c].last < w.last /\ w.last \in 1 .. stored
      BY <1>1, <1>4, <2>1 DEF SendReplayed, Replaying, Subscribed, StreamState
    <2> HIDE DEF w
    <2> QED BY <1>1, <2>1, <2>2, <2>3, SentInOrder
  <1>5. CASE SendLive(c)
    <2> DEFINE next == Head(stream[c].queue)
    <2>1. /\ stream[c].queue # << >> /\ Subscribed(c)
          /\ UNCHANGED <<stored, unpublished, missed>>
          /\ \/ /\ next <= stream[c].last
                /\ stream' = [stream EXCEPT ![c].queue = Tail(@)]
                /\ UNCHANGED seen
             \/ /\ ~(next <= stream[c].last)
                /\ stream' = [stream EXCEPT ![c].queue = Tail(@), ![c].last = next]
                /\ seen' = [seen EXCEPT ![c] = Append(@, next)]
      BY <1>5 DEF SendLive, Subscribed
    <2>2. /\ next \in 1 .. stored /\ Tail(stream[c].queue) \in Seq(1 .. stored)
          /\ Tail(stream[c].queue) \in Seq(Nat)
      BY <1>1, <2>1, HeadTailProperties DEF StreamState
    <2> HIDE DEF next
    <2>3. CASE next <= stream[c].last
      <3> DEFINE w == [stream[c] EXCEPT !.queue = Tail(@)]
      <3>1. /\ w.pc = stream[c].pc /\ w.last = stream[c].last /\ w.upto = stream[c].upto
            /\ w.queue = Tail(stream[c].queue) /\ w \in StreamState
        BY <1>1, <2>2 DEF StreamState
      <3>2. stream' = [stream EXCEPT ![c] = w] /\ UNCHANGED <<stored, unpublished, seen, missed>>
        BY <2>1, <2>3
      <3> HIDE DEF w
      <3> QED BY <1>1, <2>1, <2>2, <3>1, <3>2, SentNothing
    <2>4. CASE ~(next <= stream[c].last)
      <3> DEFINE w == [stream[c] EXCEPT !.queue = Tail(@), !.last = next]
      <3>1. /\ w.pc = stream[c].pc /\ w.last = next /\ w.upto = stream[c].upto
            /\ w.queue = Tail(stream[c].queue) /\ w \in StreamState
        <4> DEFINE rest == Tail(stream[c].queue)
        <4>1. rest \in Seq(Nat) /\ next \in Nat
          BY <1>1, <2>2
        <4> HIDE DEF rest
        <4>2. w = [stream[c] EXCEPT !.queue = rest, !.last = next]
          BY DEF rest
        <4> HIDE DEF w
        <4>3. /\ w \in StreamState /\ w.queue = rest /\ w.last = next
              /\ w.pc = stream[c].pc /\ w.upto = stream[c].upto
          BY <1>1, <4>1, <4>2 DEF StreamState
        <4> QED BY <4>3 DEF rest
      <3>2. /\ stream' = [stream EXCEPT ![c] = w]
            /\ seen' = [seen EXCEPT ![c] = Append(@, next)]
            /\ UNCHANGED <<stored, unpublished, missed>>
        BY <2>1, <2>4
      <3>3. stream[c].last < next
        BY <1>1, <2>2, <2>4 DEF StreamState
      <3> HIDE DEF w
      <3> QED BY <1>1, <2>1, <2>2, <3>1, <3>2, <3>3, SentInOrder
    <2> QED BY <2>3, <2>4
  <1>6. CASE Disconnect(c)
    <2>1. stream' = [stream EXCEPT ![c] = Away] /\ UNCHANGED <<stored, unpublished, seen, missed>>
      BY <1>6 DEF Disconnect
    <2> QED BY <1>1, <2>1, AwayState, SentNothing
  <1> QED BY <1>2, <1>3, <1>4, <1>5, <1>6 DEF Serve

LEMMA StreamRestarts ==
  ASSUME StreamInd, RestartStream
  PROVE  StreamInd'
  <1>1. /\ UNCHANGED <<stored, seen, missed>> /\ stream' = [c \in Clients |-> Away]
        /\ unpublished' = [e \in Emitters |-> 0] /\ stored \in Nat
    BY DEF RestartStream, StreamInd, StreamTypeOK
  <1>2. \A c \in Clients : stream'[c] = Away
    BY <1>1
  <1>3. StreamTypeOK'
    <2>1. /\ Away \in StreamState /\ Away.last <= stored /\ Away.upto <= stored
          /\ Away.queue \in Seq(1 .. stored)
      BY <1>1, AwayState
    <2>2. stream' \in [Clients -> StreamState] /\ unpublished' \in [Emitters -> 0 .. stored]
      BY <1>1, <2>1
    <2> QED BY <1>1, <1>2, <2>1, <2>2 DEF StreamInd, StreamTypeOK
  <1>4. SeenInOrder' /\ LastIsSent'
    BY <1>1, <1>2, AwayState DEF StreamInd, SeenInOrder, LastIsSent, Subscribed
  <1> QED BY <1>3, <1>4 DEF StreamInd

LEMMA StreamInductive == StreamInd /\ [StreamNext]_streamVars => StreamInd'
  <1> SUFFICES ASSUME StreamInd, [StreamNext]_streamVars PROVE StreamInd'
    OBVIOUS
  <1>1. CASE UNCHANGED streamVars
    BY <1>1 DEF StreamInd, StreamTypeOK, SeenInOrder, LastIsSent, Subscribed, LastEventId,
                streamVars
  <1>2. CASE \E e \in Emitters : Persist(e) \/ Publish(e) \/ Cancel(e)
    BY <1>2, EmitterSteps
  <1>3. CASE \E c \in Clients : Connect(c) \/ Serve(c) \/ Disconnect(c)
    BY <1>3, ClientSteps
  <1>4. CASE RestartStream
    BY <1>4, StreamRestarts
  <1> QED BY <1>1, <1>2, <1>3, <1>4 DEF StreamNext

(***************************************************************************)
(* Type correctness: nothing is queued or sent that is not a committed     *)
(* row, for any number of emitters, cancellations and restarts.            *)
(***************************************************************************)
THEOREM StreamTyped == StreamSpec => []StreamTypeOK
  <1>1. StreamInd => StreamTypeOK
    BY DEF StreamInd
  <1> QED BY <1>1, StreamInitInd, StreamInductive, PTL DEF StreamSpec

(***************************************************************************)
(* However emitters overtake each other, fail or restart, every client is  *)
(* sent events in strictly increasing order across its reconnects.         *)
(***************************************************************************)
THEOREM StreamOrdered == StreamSpec => []SeenInOrder
  <1>1. StreamInd => SeenInOrder
    BY DEF StreamInd
  <1> QED BY <1>1, StreamInitInd, StreamInductive, PTL DEF StreamSpec

-----------------------------------------------------------------------------
(***************************************************************************)
(* The feed.  The steps of an emitter: an event that is published is at    *)
(* the end of every queue, and whatever it overtook is missed.             *)
(***************************************************************************)
LEMMA FeedPersist ==
  ASSUME FeedInd, StreamInd', NEW e \in Emitters, Persist(e)
  PROVE  FeedInd' /\ Feed!Write
  <1>1. /\ StreamTypeOK /\ stored \in Nat /\ unpublished \in [Emitters -> 0 .. stored]
    BY DEF FeedInd, StreamInd, StreamTypeOK
  <1>2. /\ unpublished[e] = 0 /\ stored' = stored + 1
        /\ unpublished' = [unpublished EXCEPT ![e] = stored + 1]
        /\ UNCHANGED <<stream, seen, missed>>
    BY DEF Persist
  <1>3. \A f \in Emitters : unpublished[f] # stored + 1
    BY <1>1
  <1>4. Unpublished' = Unpublished \cup {stored + 1}
    BY <1>1, <1>2 DEF Unpublished
  <1>5. OneHolder'
    BY <1>1, <1>2, <1>3 DEF FeedInd, OneHolder
  <1>6. ASSUME NEW c \in Clients PROVE Accounted(stream[c], missed[c])'
    <2> DEFINE w == stream[c]
    <2>1. w.queue \in Seq(1 .. stored) /\ \A k \in DOMAIN w.queue : w.queue[k] \in 1 .. stored
      BY <1>1, ElementOfSeq DEF StreamTypeOK
    <2>2. Accounted(w, missed[c])
      BY DEF FeedInd
    <2>3. 1 .. stored' = (1 .. stored) \cup {stored + 1}
      BY <1>1, <1>2
    <2>4. \A k \in DOMAIN w.queue : ~(stored + 1 < w.queue[k])
      BY <1>1, <2>1
    <2> HIDE DEF w
    <2>5. Accounted(w, missed[c]) /\ stream'[c] = w /\ missed'[c] = missed[c]
      BY <1>2, <2>2 DEF w
    <2> QED BY <1>4, <2>3, <2>4, <2>5 DEF Accounted
  <1>7. Feed!Write
    BY <1>2, <1>4 DEF Feed!Write
  <1> QED BY <1>5, <1>6, <1>7 DEF FeedInd

LEMMA Held ==
  ASSUME FeedInd, NEW e \in Emitters, unpublished[e] # 0,
         unpublished' = [unpublished EXCEPT ![e] = 0]
  PROVE  /\ unpublished[e] \in Unpublished /\ unpublished[e] \in 1 .. stored
         /\ Unpublished' = Unpublished \ {unpublished[e]}
         /\ OneHolder'
  <1>1. unpublished \in [Emitters -> 0 .. stored]
    BY DEF FeedInd, StreamInd, StreamTypeOK
  <1>2. unpublished'[e] = 0 /\ \A f \in Emitters : f # e => unpublished'[f] = unpublished[f]
    BY <1>1
  <1>3. \A f \in Emitters : f # e => unpublished[f] # unpublished[e]
    BY DEF FeedInd, OneHolder
  <1> QED BY <1>1, <1>2, <1>3 DEF FeedInd, OneHolder, Unpublished

LEMMA Excused ==
  ASSUME StreamTypeOK, NEW events, Miss(events)
  PROVE  /\ Feed!Excuse(events)
         /\ \A c \in Clients : missed'[c] = missed[c] \cup {n \in events : OnlyQueued(c, n)}
  BY DEF StreamTypeOK, Miss, Feed!Excuse

LEMMA FeedPublish ==
  ASSUME FeedInd, StreamInd', NEW e \in Emitters, Publish(e)
  PROVE  FeedInd' /\ \E n \in Unpublished : Feed!HandOver(n)
  <1> DEFINE n == unpublished[e]
  <1>1. /\ n # 0 /\ unpublished' = [unpublished EXCEPT ![e] = 0]
        /\ Miss(Overtaken(n)) /\ UNCHANGED <<stored, seen>>
    BY DEF Publish
  <1>2. /\ n \in Unpublished /\ n \in 1 .. stored /\ OneHolder'
        /\ Unpublished' = Unpublished \ {n}
    BY <1>1, Held
  <1>3. /\ StreamTypeOK /\ stored \in Nat /\ Unpublished \subseteq 1 .. stored
    BY UnpublishedStored DEF FeedInd, StreamInd, StreamTypeOK
  <1>4. /\ Feed!Excuse(Overtaken(n))
        /\ \A c \in Clients : missed'[c] = missed[c] \cup {m \in Overtaken(n) : OnlyQueued(c, m)}
    BY <1>1, <1>3, Excused
  <1>5. Feed!HandOver(n)
    BY <1>1, <1>2, <1>4 DEF Feed!HandOver, Overtaken
  <1>6. ASSUME NEW c \in Clients PROVE Accounted(stream[c], missed[c])'
    <2>1. CASE ~Subscribed(c)
      <3>1. stream'[c] = stream[c]
        BY <2>1 DEF Publish
      <3> QED BY <2>1, <3>1 DEF Subscribed, Accounted
    <2>2. CASE Subscribed(c)
      <3> DEFINE w == stream[c]
                 q == Append(stream[c].queue, n)
                 v == [stream[c] EXCEPT !.queue = Append(@, n)]
                 gone == missed[c]
                 goneNow == missed'[c]
      <3>1. /\ w \in StreamState /\ w.queue \in Seq(1 .. stored) /\ w.upto \in Nat
            /\ w.last \in Nat
        BY <1>3 DEF StreamTypeOK, StreamState
      <3>2. stream'[c] = v
        BY <2>2 DEF Publish
      <3>3. /\ v.queue = q /\ v.pc = w.pc /\ v.last = w.last /\ v.upto = w.upto
        BY <3>1 DEF StreamState
      <3>4. /\ Len(w.queue) \in Nat /\ DOMAIN w.queue = 1 .. Len(w.queue)
            /\ DOMAIN q = 1 .. Len(w.queue) + 1 /\ q[Len(w.queue) + 1] = n
            /\ \A k \in 1 .. Len(w.queue) : q[k] = w.queue[k] /\ q[k] \in Nat
        <4>1. n \in 1 .. stored
          BY <1>2
        <4>2. \A k \in 1 .. Len(w.queue) : w.queue[k] \in Nat
          BY <1>3, <3>1, ElementOfSeq
        <4> QED BY <3>1, <4>1, <4>2, AppendProperties, LenProperties
      <3>5. Accounted(w, gone)
        BY DEF FeedInd
      <3>6. /\ gone \subseteq goneNow
            /\ \A m \in Unpublished :
                 w.pc = "replayed" /\ w.upto < m /\ m < n => m \in goneNow
        BY <1>4 DEF Overtaken, OnlyQueued
      <3>7. n \in Nat /\ \A m \in Unpublished : m \in Nat
        BY <1>2, <1>3
      <3> HIDE DEF w, q, v, n, gone, goneNow
      <3>8. ASSUME v.pc = "replayed", NEW m \in 1 .. stored, v.last < m, v.upto < m
            PROVE  (\E k \in DOMAIN q : q[k] = m) \/ m \in Unpublished' \/ m \in goneNow
        <4>1. (\E k \in DOMAIN w.queue : w.queue[k] = m) \/ m \in Unpublished \/ m \in gone
          BY <3>3, <3>5, <3>8 DEF Accounted
        <4>2. CASE \E k \in DOMAIN w.queue : w.queue[k] = m
          <5>1. PICK k \in 1 .. Len(w.queue) : w.queue[k] = m
            BY <3>4, <4>2
          <5>2. k \in DOMAIN q /\ q[k] = m
            BY <3>4, <5>1
          <5> QED BY <5>2
        <4>3. CASE m = n
          <5>1. Len(w.queue) + 1 \in DOMAIN q
            BY <3>4
          <5> QED BY <3>4, <4>3, <5>1
        <4>4. CASE m \in Unpublished /\ m # n
          BY <1>2, <4>4
        <4> QED BY <3>6, <4>1, <4>2, <4>3, <4>4
      <3>9. ASSUME v.pc = "replayed", NEW k \in DOMAIN q, NEW m \in Unpublished',
                   v.upto < m, m < q[k]
            PROVE  m \in goneNow
        <4>1. CASE k = Len(w.queue) + 1
          BY <1>2, <3>3, <3>4, <3>6, <3>9, <4>1
        <4>2. CASE k \in 1 .. Len(w.queue)
          <5>1. m \in Unpublished /\ k \in DOMAIN w.queue /\ m < w.queue[k]
            BY <1>2, <3>4, <3>9, <4>2
          <5> QED BY <3>3, <3>5, <3>6, <3>9, <5>1 DEF Accounted
        <4> QED BY <3>4, <4>1, <4>2
      <3>10. ASSUME v.pc = "replayed", NEW j \in DOMAIN q, NEW k \in DOMAIN q,
                    j < k, v.upto < q[k], q[k] < q[j]
             PROVE  q[k] \in goneNow
        <4>1. j \in 1 .. Len(w.queue) /\ j \in DOMAIN w.queue /\ q[j] = w.queue[j]
          BY <3>4, <3>10
        <4>2. CASE k = Len(w.queue) + 1
          <5>1. q[k] = n /\ n < w.queue[j] /\ w.upto < n
            BY <3>3, <3>4, <3>10, <4>1, <4>2
          <5> QED BY <1>2, <3>3, <3>5, <3>6, <3>10, <4>1, <5>1 DEF Accounted, n
        <4>3. CASE k \in 1 .. Len(w.queue)
          <5>1. k \in DOMAIN w.queue /\ q[k] = w.queue[k]
            BY <3>4, <4>3
          <5> QED BY <3>3, <3>5, <3>6, <3>10, <4>1, <5>1 DEF Accounted
        <4> QED BY <3>4, <4>2, <4>3
      <3>11. stored' = stored /\ stream'[c] = v /\ missed'[c] = goneNow /\ v.queue = q
        BY <1>1, <3>2, <3>3 DEF goneNow
      <3> QED BY <3>8, <3>9, <3>10, <3>11 DEF Accounted
    <2> QED BY <2>1, <2>2
  <1> HIDE DEF n
  <1> QED BY <1>2, <1>5, <1>6 DEF FeedInd

LEMMA FeedCancel ==
  ASSUME FeedInd, StreamInd', NEW e \in Emitters, Cancel(e)
  PROVE  FeedInd' /\ \E n \in Unpublished : Feed!Withdraw(n)
  <1> DEFINE n == unpublished[e]
  <1>1. /\ n # 0 /\ unpublished' = [unpublished EXCEPT ![e] = 0]
        /\ Miss({n}) /\ UNCHANGED <<stored, stream, seen>>
    BY DEF Cancel
  <1>2. /\ n \in Unpublished /\ n \in 1 .. stored /\ OneHolder'
        /\ Unpublished' = Unpublished \ {n}
    BY <1>1, Held
  <1>3. /\ Feed!Excuse({n})
        /\ \A c \in Clients : missed'[c] = missed[c] \cup {m \in {n} : OnlyQueued(c, m)}
    BY <1>1, Excused DEF FeedInd, StreamInd
  <1>4. Feed!Withdraw(n)
    BY <1>1, <1>2, <1>3 DEF Feed!Withdraw
  <1> HIDE DEF n
  <1>5. ASSUME NEW c \in Clients PROVE Accounted(stream[c], missed[c])'
    <2> DEFINE w == stream[c]
               gone == missed[c]
               goneNow == missed'[c]
    <2>1. Accounted(w, gone)
      BY DEF FeedInd
    <2>2. gone \subseteq goneNow /\ (w.pc = "replayed" /\ w.upto < n => n \in goneNow)
      BY <1>3 DEF OnlyQueued
    <2>3. stored' = stored /\ stream'[c] = w /\ missed'[c] = goneNow
      BY <1>1
    <2> HIDE DEF w, gone, goneNow
    <2> QED BY <1>2, <2>1, <2>2, <2>3 DEF Accounted
  <1> QED BY <1>2, <1>4, <1>5 DEF FeedInd

(***************************************************************************)
(* A step of one client disturbs neither the emitters nor the others.      *)
(***************************************************************************)
LEMMA OneClientMoves ==
  ASSUME FeedInd, StreamInd', NEW c \in Clients, NEW w,
         stream' = [stream EXCEPT ![c] = w], UNCHANGED <<stored, unpublished, missed>>,
         Accounted(w, missed[c])
  PROVE  FeedInd'
  <1>1. Unpublished' = Unpublished /\ OneHolder'
    BY DEF Unpublished, OneHolder, FeedInd
  <1>2. stream'[c] = w /\ \A d \in Clients : d # c => stream'[d] = stream[d]
    BY DEF FeedInd, StreamInd, StreamTypeOK
  <1>3. \A d \in Clients : Accounted(stream[d], missed[d])'
    BY <1>1, <1>2 DEF FeedInd, Accounted
  <1> QED BY <1>1, <1>3 DEF FeedInd

LEMMA ShowsNext ==
  ASSUME FeedInd, NEW c \in Clients, NEW n \in 1 .. stored, Subscribed(c),
         stream[c].last < n,
         \A m \in 1 .. stored : stream[c].last < m /\ m < n => m \in missed[c],
         seen' = [seen EXCEPT ![c] = Append(@, n)],
         UNCHANGED <<stored, unpublished, missed>>
  PROVE  \E k \in 1 .. stored : Feed!Show(c, k)
  <1>1. /\ StreamTypeOK /\ stored \in Nat /\ LastEventId(c) \in 0 .. stored
        /\ stream[c].last = LastEventId(c)
    BY LastIsStored DEF FeedInd, StreamInd, StreamTypeOK, LastIsSent
  <1>2. Feed!LastShown(c) = stream[c].last
    BY <1>1 DEF Feed!LastShown, LastEventId
  <1>3. Unpublished' = Unpublished
    BY DEF Unpublished
  <1>4. \A m \in stream[c].last + 1 .. n - 1 : m \in missed[c]
    BY <1>1
  <1>5. Feed!Show(c, n)
    BY <1>2, <1>3, <1>4 DEF Feed!Show
  <1> QED BY <1>5

(***************************************************************************)
(* What a stream sends: the replay goes on from the last event, and the    *)
(* head of the queue passes over nothing but missed ones.                  *)
(***************************************************************************)
LEMMA FeedServes ==
  ASSUME FeedInd, StreamInd', NEW c \in Clients, Connect(c) \/ Serve(c) \/ Disconnect(c)
  PROVE  /\ FeedInd'
         /\ (\E k \in 1 .. stored : Feed!Show(c, k)) \/ UNCHANGED <<stored, Unpublished, missed, seen>>
  <1>1. /\ StreamInd /\ StreamTypeOK
        /\ stored \in Nat
        /\ stream[c] \in StreamState /\ stream[c].queue \in Seq(1 .. stored)
        /\ stream[c].last \in Nat /\ stream[c].upto \in Nat /\ stream[c].upto <= stored
        /\ Accounted(stream[c], missed[c])
    BY DEF FeedInd, StreamInd, StreamTypeOK, StreamState
  <1>2. Unpublished \subseteq 1 .. stored
    BY <1>1, UnpublishedStored
  <1>3. UNCHANGED <<stored, unpublished, seen, missed>>
          => UNCHANGED <<stored, Unpublished, missed, seen>>
    BY DEF Unpublished
  <1>4. CASE Connect(c)
    <2> DEFINE w == [Away EXCEPT !.pc = "subscribed", !.last = LastEventId(c)]
    <2>1. /\ stream' = [stream EXCEPT ![c] = w]
          /\ UNCHANGED <<stored, unpublished, seen, missed>>
      BY <1>4 DEF Connect
    <2>2. w.pc = "subscribed"
      BY DEF Away
    <2>3. Accounted(w, missed[c])
      BY <2>2 DEF Accounted
    <2> HIDE DEF w
    <2> QED BY <1>3, <2>1, <2>3, OneClientMoves
  <1>5. CASE Replay(c)
    <2> DEFINE w == [stream[c] EXCEPT !.pc = "replayed", !.upto = stored]
    <2>1. w.upto = stored /\ w.queue = stream[c].queue
      BY <1>1 DEF StreamState
    <2>2. /\ stream' = [stream EXCEPT ![c] = w]
          /\ UNCHANGED <<stored, unpublished, seen, missed>>
      BY <1>5 DEF Replay
    <2> HIDE DEF w
    <2>3. \A k \in DOMAIN w.queue : w.queue[k] \in 1 .. stored
      BY <1>1, <2>1, ElementOfSeq
    <2>4. Accounted(w, missed[c])
      <3>1. \A m \in 1 .. stored : ~(w.upto < m)
        BY <1>1, <2>1
      <3> QED BY <1>2, <2>3, <3>1 DEF Accounted
    <2> QED BY <1>3, <2>2, <2>4, OneClientMoves
  <1>6. CASE SendReplayed(c)
    <2> DEFINE w == [stream[c] EXCEPT !.last = @ + 1]
    <2>1. /\ w.pc = stream[c].pc /\ w.last = stream[c].last + 1 /\ w.upto = stream[c].upto
          /\ w.queue = stream[c].queue
      BY <1>1 DEF StreamState
    <2>2. /\ stream' = [stream EXCEPT ![c] = w]
          /\ seen' = [seen EXCEPT ![c] = Append(@, w.last)]
          /\ UNCHANGED <<stored, unpublished, missed>>
          /\ Subscribed(c) /\ stream[c].last < stream[c].upto
      BY <1>6, <2>1 DEF SendReplayed, Replaying, Subscribed
    <2> HIDE DEF w
    <2>3. /\ w.last \in 1 .. stored /\ stream[c].last < w.last
          /\ \A m \in 1 .. stored : ~(stream[c].last < m /\ m < w.last)
      BY <1>1, <2>1, <2>2
    <2>4. \E k \in 1 .. stored : Feed!Show(c, k)
      BY <2>2, <2>3, ShowsNext
    <2>5. \A m \in 1 .. stored : w.last < m => stream[c].last < m
      BY <1>1, <2>1
    <2>6. Accounted(w, missed[c])
      BY <1>1, <2>1, <2>5 DEF Accounted
    <2> QED BY <2>2, <2>4, <2>6, OneClientMoves
  <1>7. CASE SendLive(c)
    <2> DEFINE queue == stream[c].queue
               next == Head(stream[c].queue)
               rest == Tail(stream[c].queue)
    <2>1. /\ queue # << >> /\ Subscribed(c) /\ stream[c].pc = "replayed"
          /\ ~(stream[c].last < stream[c].upto)
          /\ UNCHANGED <<stored, unpublished, missed>>
          /\ \/ /\ next <= stream[c].last
                /\ stream' = [stream EXCEPT ![c].queue = Tail(@)]
                /\ UNCHANGED seen
             \/ /\ ~(next <= stream[c].last)
                /\ stream' = [stream EXCEPT ![c].queue = Tail(@), ![c].last = next]
                /\ seen' = [seen EXCEPT ![c] = Append(@, next)]
      BY <1>7 DEF SendLive, Subscribed, Replaying
    <2>2. queue \in Seq(1 .. stored) /\ next = Head(queue) /\ rest = Tail(queue)
      BY <1>1
    <2> HIDE DEF queue, next, rest
    <2>3. /\ Len(queue) \in Nat \ {0} /\ DOMAIN queue = 1 .. Len(queue)
          /\ \A k \in 1 .. Len(queue) : queue[k] \in 1 .. stored
      BY <2>1, <2>2, LenProperties, ElementOfSeq, EmptySeq
    <2>4. /\ next = queue[1] /\ rest \in Seq(1 .. stored) /\ Len(rest) = Len(queue) - 1
          /\ \A k \in 1 .. Len(rest) : rest[k] = queue[k + 1]
      BY <2>1, <2>2, HeadTailProperties
    <2>5. /\ DOMAIN rest = 1 .. Len(queue) - 1
          /\ 1 \in DOMAIN queue /\ next \in 1 .. stored
          /\ \A k \in DOMAIN rest :
               /\ k \in Nat /\ k + 1 \in DOMAIN queue /\ rest[k] = queue[k + 1]
               /\ 1 < k + 1
      <3>1. DOMAIN rest = 1 .. Len(rest)
        BY <2>4, LenProperties
      <3> QED BY <2>3, <2>4, <3>1
    <2>6. \A m \in 1 .. stored :
            (\E k \in DOMAIN queue : queue[k] = m) /\ m # next
              => \E k \in DOMAIN rest : rest[k] = m
      <3> SUFFICES ASSUME NEW m \in 1 .. stored, NEW k \in DOMAIN queue, queue[k] = m,
                          m # next
                   PROVE  \E j \in DOMAIN rest : rest[j] = m
        OBVIOUS
      <3>1. k \in 2 .. Len(queue)
        BY <2>3, <2>4
      <3>2. k - 1 \in DOMAIN rest /\ rest[k - 1] = queue[k]
        <4>1. k - 1 \in DOMAIN rest /\ (k - 1) + 1 = k
          BY <2>3, <2>5, <3>1
        <4> QED BY <2>5, <4>1
      <3> QED BY <3>2
    <2>7. ASSUME NEW w, w.queue = rest, w.upto = stream[c].upto,
                 \A m \in 1 .. stored : w.last < m => stream[c].last < m /\ m # next
          PROVE  Accounted(w, missed[c])
      <3>1. \A m \in 1 .. stored :
              w.last < m /\ w.upto < m =>
                \/ \E k \in DOMAIN w.queue : w.queue[k] = m
                \/ m \in Unpublished \/ m \in missed[c]
        BY <1>1, <2>1, <2>6, <2>7 DEF Accounted, queue
      <3>2. \A k \in DOMAIN rest : \A m \in Unpublished :
              w.upto < m /\ m < rest[k] => m \in missed[c]
        BY <1>1, <2>1, <2>5, <2>7 DEF Accounted, queue
      <3>3. \A j, k \in DOMAIN rest :
              j < k /\ w.upto < rest[k] /\ rest[k] < rest[j] => rest[k] \in missed[c]
        <4> SUFFICES ASSUME NEW j \in DOMAIN rest, NEW k \in DOMAIN rest,
                            j < k, w.upto < rest[k], rest[k] < rest[j]
                     PROVE  rest[k] \in missed[c]
          OBVIOUS
        <4>1. j + 1 \in DOMAIN queue /\ k + 1 \in DOMAIN queue /\ j + 1 < k + 1
          BY <2>5
        <4>2. rest[j] = queue[j + 1] /\ rest[k] = queue[k + 1]
          BY <2>5
        <4> QED BY <1>1, <2>1, <2>7, <4>1, <4>2 DEF Accounted, queue
      <3> QED BY <2>7, <3>1, <3>2, <3>3 DEF Accounted
    <2>8. CASE next <= stream[c].last
      <3> DEFINE w == [stream[c] EXCEPT !.queue = rest]
      <3>1. w.last = stream[c].last /\ w.queue = rest /\ w.upto = stream[c].upto
        BY <1>1 DEF StreamState
      <3>2. /\ stream' = [stream EXCEPT ![c] = w]
            /\ UNCHANGED <<stored, unpublished, seen, missed>>
        BY <1>1, <2>1, <2>5, <2>8 DEF rest
      <3> HIDE DEF w
      <3>3. \A m \in 1 .. stored : w.last < m => stream[c].last < m /\ m # next
        BY <1>1, <2>5, <2>8, <3>1
      <3> QED BY <1>3, <2>7, <3>1, <3>2, <3>3, OneClientMoves
    <2>9. CASE ~(next <= stream[c].last)
      <3> DEFINE w == [stream[c] EXCEPT !.queue = rest, !.last = next]
      <3>1. w.last = next /\ w.queue = rest /\ w.upto = stream[c].upto
        BY <1>1 DEF StreamState
      <3>2. /\ stream' = [stream EXCEPT ![c] = w]
            /\ seen' = [seen EXCEPT ![c] = Append(@, next)]
            /\ UNCHANGED <<stored, unpublished, missed>>
        BY <2>1, <2>9 DEF rest
      <3> HIDE DEF w
      <3>3. stream[c].last < next
        BY <1>1, <2>5, <2>9
      <3>4. \A m \in 1 .. stored : stream[c].last < m /\ m < next => m \in missed[c]
        <4> SUFFICES ASSUME NEW m \in 1 .. stored, stream[c].last < m, m < next
                     PROVE  m \in missed[c]
          OBVIOUS
        <4>1. stream[c].upto < m
          BY <1>1, <2>1
        <4>2. (\E k \in DOMAIN queue : queue[k] = m) \/ m \in Unpublished \/ m \in missed[c]
          BY <1>1, <2>1, <4>1 DEF Accounted, queue
        <4>3. CASE m \in Unpublished
          BY <1>1, <2>1, <2>4, <2>5, <4>1, <4>3 DEF Accounted, queue
        <4>4. ASSUME NEW k \in DOMAIN queue, queue[k] = m PROVE m \in missed[c]
          <5>1. 1 < k
            BY <2>3, <2>4, <4>4
          <5> QED BY <1>1, <2>1, <2>4, <2>5, <4>1, <4>4, <5>1 DEF Accounted, queue
        <4> QED BY <4>2, <4>3, <4>4
      <3>5. \E k \in 1 .. stored : Feed!Show(c, k)
        BY <2>1, <2>5, <3>2, <3>3, <3>4, ShowsNext
      <3>6. \A m \in 1 .. stored : w.last < m => stream[c].last < m /\ m # next
        BY <1>1, <2>5, <3>1, <3>3
      <3> QED BY <2>7, <3>1, <3>2, <3>5, <3>6, OneClientMoves
    <2> QED BY <2>8, <2>9
  <1>8. CASE Disconnect(c)
    <2>1. /\ stream' = [stream EXCEPT ![c] = Away]
          /\ UNCHANGED <<stored, unpublished, seen, missed>>
      BY <1>8 DEF Disconnect
    <2>2. Accounted(Away, missed[c])
      BY <1>1, AwayState DEF Accounted
    <2> QED BY <1>3, <2>1, <2>2, OneClientMoves
  <1> QED BY <1>4, <1>5, <1>6, <1>7, <1>8 DEF Serve

LEMMA FeedRestarts ==
  ASSUME FeedInd, StreamInd', RestartStream
  PROVE  FeedInd' /\ Feed!Forget
  <1>1. /\ UNCHANGED <<stored, seen, missed>> /\ stream' = [c \in Clients |-> Away]
        /\ unpublished' = [e \in Emitters |-> 0] /\ stored \in Nat
    BY DEF RestartStream, FeedInd, StreamInd, StreamTypeOK
  <1>2. OneHolder' /\ Unpublished' = {}
    BY <1>1 DEF OneHolder, Unpublished
  <1>3. \A c \in Clients : Accounted(stream[c], missed[c])'
    BY <1>1, AwayState DEF Accounted
  <1> QED BY <1>1, <1>2, <1>3 DEF FeedInd, Feed!Forget

LEMMA FeedInitInd == StreamInit => FeedInd /\ Feed!FeedInit
  <1> SUFFICES ASSUME StreamInit PROVE FeedInd /\ Feed!FeedInit
    OBVIOUS
  <1>1. /\ stored = 0 /\ unpublished = [e \in Emitters |-> 0]
        /\ stream = [c \in Clients |-> Away] /\ seen = [c \in Clients |-> << >>]
        /\ missed = [c \in Clients |-> {}]
    BY DEF StreamInit
  <1>2. OneHolder /\ Unpublished = {}
    BY <1>1 DEF OneHolder, Unpublished
  <1>3. \A c \in Clients : Accounted(stream[c], missed[c])
    BY <1>1, AwayState DEF Accounted
  <1>4. Feed!FeedInit
    BY <1>1, <1>2 DEF Feed!FeedInit
  <1> QED BY <1>2, <1>3, <1>4, StreamInitInd DEF FeedInd

LEMMA FeedInductive ==
  FeedInd /\ [StreamNext]_streamVars => FeedInd' /\ [Feed!FeedNext]_(Feed!feed)
  <1> SUFFICES ASSUME FeedInd, [StreamNext]_streamVars
               PROVE  FeedInd' /\ [Feed!FeedNext]_(Feed!feed)
    OBVIOUS
  <1>1. StreamInd'
    BY StreamInductive DEF FeedInd
  <1>2. CASE UNCHANGED streamVars
    BY <1>1, <1>2 DEF FeedInd, OneHolder, Accounted, Unpublished, streamVars, Feed!feed
  <1>3. ASSUME NEW e \in Emitters, Persist(e) \/ Publish(e) \/ Cancel(e)
        PROVE  FeedInd' /\ Feed!FeedNext
    BY <1>1, <1>3, FeedPersist, FeedPublish, FeedCancel DEF Feed!FeedNext
  <1>4. ASSUME NEW c \in Clients, Connect(c) \/ Serve(c) \/ Disconnect(c)
        PROVE  FeedInd' /\ [Feed!FeedNext]_(Feed!feed)
    BY <1>1, <1>4, FeedServes DEF Feed!FeedNext, Feed!feed
  <1>5. CASE RestartStream
    BY <1>1, <1>5, FeedRestarts DEF Feed!FeedNext
  <1> QED BY <1>2, <1>3, <1>4, <1>5 DEF StreamNext

(***************************************************************************)
(* Subscribing before replaying loses nothing: the stream implements the   *)
(* feed, for any number of emitters that overtake and cancel each other,   *)
(* any number of clients that connect, fall away and come back at any      *)
(* time, and across restarts of the process.  A client is left without an  *)
(* event only if it was following its queue when the event was canceled,   *)
(* or overtaken, between its commit and its publication.                   *)
(***************************************************************************)
THEOREM StreamFeeds == StreamSpec => KeepsFeed
  <1>1. StreamInit => FeedInd /\ Feed!FeedInit
    BY FeedInitInd
  <1>2. FeedInd /\ [StreamNext]_streamVars => FeedInd' /\ [Feed!FeedNext]_(Feed!feed)
    BY FeedInductive
  <1> QED BY <1>1, <1>2, PTL DEF StreamSpec, KeepsFeed, Feed!FeedSpec
=============================================================================
