--------------------------- MODULE EventHubProofs ---------------------------
(***************************************************************************)
(* Proofs about EventHub: its types, that the broadcast loop never sends   *)
(* on a closed channel, and that every client gets its events in order,    *)
(* for any number of connections and any sizes of the channels.            *)
(***************************************************************************)
EXTENDS EventHub, TLAPS

\* The map holds exactly the open connections, and the loop has work left
\* only while it holds the lock.  While it does, nothing leaves the map, so
\* nothing it has yet to serve can be closed.
Locking ==
    /\ subscribers = {c \in Conn : conn[c].pc = "open"}
    /\ todo \subseteq subscribers
    /\ IF copying THEN current # NoEvent ELSE todo = {}

HubInv == TypeOK /\ Locking

LEMMA InitHubInv == Init => HubInv
<1> SUFFICES ASSUME Init PROVE HubInv
  OBVIOUS
<1> USE BoundsAssumption
<1>1. ClosedConn \in ConnState /\ ClosedConn.pc = "closed"
  BY DEF ClosedConn, ConnState
<1>2. TypeOK
  <2>1. <<>> \in Seq(Event) /\ Len(<<>>) = 0
    OBVIOUS
  <2>2. conn \in [Conn -> ConnState]
    BY <1>1 DEF Init
  <2>3. broadcastChan \in Seq(Event) /\ Len(broadcastChan) <= BroadcastBuffer
    BY <2>1 DEF Init
  <2>4. emitted \in 0..MaxEvents /\ droppedEvents \in Nat
    BY DEF Init
  <2> QED
    BY <2>2, <2>3, <2>4 DEF Init, TypeOK
<1>3. Locking
  BY <1>1 DEF Init, Locking
<1> QED
  BY <1>2, <1>3 DEF HubInv

\* What Append and Tail do to the channels.
LEMMA Channels ==
    ASSUME NEW s \in Seq(Event), NEW e \in Event
    PROVE  /\ Append(s, e) \in Seq(Event)
           /\ Len(Append(s, e)) = Len(s) + 1
           /\ s # <<>> => /\ Head(s) \in Event
                          /\ Tail(s) \in Seq(Event)
                          /\ Len(Tail(s)) = Len(s) - 1
  OBVIOUS

LEMMA LoopHubInv == ASSUME HubInv, Loop PROVE HubInv'
<1> USE DEF HubInv
<1>1. CASE LoopTake
  <2>1. Head(broadcastChan) \in Event /\ Tail(broadcastChan) \in Seq(Event)
        /\ Len(Tail(broadcastChan)) <= BroadcastBuffer
    BY <1>1, BoundsAssumption DEF LoopTake, TypeOK
  <2> QED
    BY <1>1, <2>1 DEF LoopTake, TypeOK, Locking
<1>2. CASE LoopLock
  BY <1>2 DEF LoopLock, TypeOK, Locking
<1>3. ASSUME NEW c \in Conn, LoopSend(c) PROVE HubInv'
  <2>0. c \in subscribers /\ conn[c].pc = "open" /\ conn[c] \in ConnState
    BY <1>3 DEF LoopSend, TypeOK, Locking
  <2>1. CASE UNCHANGED conn
    BY <1>3, <2>1 DEF LoopSend, TypeOK, Locking
  <2>2. CASE /\ conn' = [conn EXCEPT ![c].Events = Append(@, current)]
             /\ current # NoEvent
    <3>1. Append(conn[c].Events, current) \in Seq(Event)
      BY <2>0, <2>2 DEF TypeOK, ConnState
    <3>2. conn' = [conn EXCEPT ![c] = [conn[c] EXCEPT !.Events = Append(conn[c].Events, current)]]
      BY <2>0, <2>2 DEF TypeOK
    <3>3. [conn[c] EXCEPT !.Events = Append(conn[c].Events, current)] \in ConnState
      BY <2>0, <3>1 DEF ConnState
    <3>4. /\ conn' \in [Conn -> ConnState]
          /\ \A d \in Conn : conn'[d].pc = conn[d].pc
      BY <2>0, <3>2, <3>3 DEF TypeOK, ConnState
    <3> QED
      BY <1>3, <3>4 DEF LoopSend, TypeOK, Locking
  <2>3. copying /\ current # NoEvent
    BY <1>3 DEF LoopSend, Locking
  <2> QED
    BY <1>3, <2>1, <2>2, <2>3 DEF LoopSend
<1>4. CASE LoopUnlock
  BY <1>4 DEF LoopUnlock, TypeOK, Locking
<1> QED
  BY <1>1, <1>2, <1>3, <1>4 DEF Loop

LEMMA EmitHubInv == ASSUME HubInv, NEW b \in Board, Emit(b) PROVE HubInv'
<1> DEFINE event == [n |-> emitted + 1, board |-> b]
<1>1. event \in Event /\ emitted' \in 0..MaxEvents
  BY BoundsAssumption DEF Emit, HubInv, TypeOK, Event
<1>2. Append(broadcastChan, event) \in Seq(Event)
      /\ Len(Append(broadcastChan, event)) = Len(broadcastChan) + 1
  BY <1>1, Channels DEF HubInv, TypeOK
<1>3. \/ broadcastChan' = Append(broadcastChan, event) /\ Len(broadcastChan) < BroadcastBuffer
         /\ UNCHANGED droppedEvents
      \/ broadcastChan' = broadcastChan /\ droppedEvents' = droppedEvents + 1
  BY DEF Emit
<1> HIDE DEF event
<1>4. Len(broadcastChan) \in Nat
  BY DEF HubInv, TypeOK
<1>5. /\ broadcastChan' \in Seq(Event)
      /\ Len(broadcastChan') <= BroadcastBuffer
      /\ droppedEvents' \in Nat
  <2>1. /\ broadcastChan \in Seq(Event) /\ Len(broadcastChan) <= BroadcastBuffer
        /\ droppedEvents \in Nat /\ BroadcastBuffer \in Nat
    BY BoundsAssumption DEF HubInv, TypeOK
  <2>2. CASE broadcastChan' = Append(broadcastChan, event)
    BY <1>2, <1>3, <1>4, <2>1, <2>2
  <2>3. CASE broadcastChan' = broadcastChan
    BY <1>2, <1>3, <1>4, <2>1, <2>3
  <2> QED
    BY <1>3, <2>2, <2>3
<1> QED
  BY <1>1, <1>5 DEF Emit, HubInv, TypeOK, Locking

\* The steps of a connection change its own entry only.
LEMMA ConnHubInv ==
    ASSUME HubInv, NEW c \in Conn,
           \/ \E b \in Board \cup {AllBoards} : SubscribeCheck(c, b)
           \/ SubscribeAdd(c)
           \/ Receive(c)
           \/ UnsubscribeRemove(c)
           \/ UnsubscribeClose(c)
    PROVE  HubInv'
<1> USE DEF HubInv
<1>0. /\ conn[c] \in ConnState
      /\ UNCHANGED <<emitted, broadcastChan, current, todo, copying, droppedEvents>>
  BY DEF TypeOK, SubscribeCheck, SubscribeAdd, Receive, UnsubscribeRemove, UnsubscribeClose
<1>1. ASSUME NEW s \in ConnState, conn' = [conn EXCEPT ![c] = s],
             subscribers' = IF s.pc = "open" THEN subscribers \cup {c} ELSE subscribers \ {c},
             s.pc = "open" \/ c \notin todo
      PROVE  HubInv'
  <2>1. conn' \in [Conn -> ConnState] /\ conn'[c] = s /\ \A d \in Conn \ {c} : conn'[d] = conn[d]
    BY <1>1 DEF TypeOK
  <2> QED
    BY <1>0, <1>1, <2>1 DEF TypeOK, Locking
<1>2. ASSUME NEW b \in Board \cup {AllBoards}, SubscribeCheck(c, b) PROVE HubInv'
  <2>0. ClosedConn \in ConnState
    BY BoundsAssumption DEF ClosedConn, ConnState
  <2>1. [ClosedConn EXCEPT !.pc = "checked", !.board = b] \in ConnState
    BY <2>0 DEF ConnState
  <2>2. [ClosedConn EXCEPT !.pc = "checked", !.board = b].pc = "checked"
    BY DEF ClosedConn
  <2>3. c \notin subscribers /\ c \notin todo
    BY <1>2 DEF SubscribeCheck, Locking
  <2> QED
    BY <1>1, <1>2, <2>1, <2>2, <2>3 DEF SubscribeCheck
<1>3. ASSUME NEW pc \in {"open", "removed"}, conn' = [conn EXCEPT ![c].pc = pc], ~copying,
             subscribers' = IF pc = "open" THEN subscribers \cup {c} ELSE subscribers \ {c}
      PROVE  HubInv'
  <2> DEFINE s == [conn[c] EXCEPT !.pc = pc]
  <2>1. s \in ConnState /\ s.pc = pc
    BY <1>0 DEF ConnState
  <2>2. conn' = [conn EXCEPT ![c] = s]
    BY <1>3 DEF TypeOK
  <2>3. c \notin todo
    BY <1>3 DEF Locking
  <2> HIDE DEF s
  <2> QED
    BY <1>1, <1>3, <2>1, <2>2, <2>3
<1>4. CASE SubscribeAdd(c)
  BY <1>3, <1>4 DEF SubscribeAdd
<1>5. CASE UnsubscribeRemove(c)
  BY <1>3, <1>5 DEF UnsubscribeRemove
<1>6. CASE Receive(c)
  <2> DEFINE s == [conn[c] EXCEPT !.Events = Tail(conn[c].Events),
                                  !.read = Head(conn[c].Events).n]
  <2>1. conn[c].pc = "open" /\ conn[c].Events \in Seq(Event) /\ conn[c].Events # <<>>
    BY <1>0, <1>6 DEF Receive, ConnState
  <2>2. Tail(conn[c].Events) \in Seq(Event) /\ Head(conn[c].Events) \in Event
    BY <2>1
  <2>3. Head(conn[c].Events).n \in 0..MaxEvents
    BY <2>2, BoundsAssumption DEF Event
  <2>4. s \in ConnState /\ s.pc = "open"
    BY <1>0, <2>1, <2>2, <2>3 DEF ConnState
  <2>5. conn' = [conn EXCEPT ![c] = s]
    BY <1>0, <1>6 DEF Receive, TypeOK
  <2>6. subscribers' = subscribers \cup {c}
    BY <1>6, <2>1 DEF Receive, Locking
  <2> HIDE DEF s
  <2> QED
    BY <1>1, <2>4, <2>5, <2>6
<1>7. CASE UnsubscribeClose(c)
  <2>1. ClosedConn \in ConnState /\ ClosedConn.pc = "closed"
    BY BoundsAssumption DEF ClosedConn, ConnState
  <2>2. c \notin subscribers /\ c \notin todo
    BY <1>7 DEF UnsubscribeClose, Locking
  <2> QED
    BY <1>1, <1>7, <2>1, <2>2 DEF UnsubscribeClose
<1> QED
  BY <1>2, <1>4, <1>5, <1>6, <1>7

LEMMA AlwaysHubInv == Spec => []HubInv
<1>1. HubInv /\ [Next]_vars => HubInv'
  <2> SUFFICES ASSUME HubInv, [Next]_vars PROVE HubInv'
    OBVIOUS
  <2>1. CASE UNCHANGED vars
    BY <2>1 DEF vars, HubInv, TypeOK, Locking
  <2> QED
    BY <2>1, LoopHubInv, EmitHubInv, ConnHubInv DEF Next
<1> QED
  BY <1>1, InitHubInv, PTL DEF Spec

\* Type correctness, for any number of connections and any sizes.
THEOREM HubTypeCorrect == Spec => []TypeOK
<1>1. HubInv => TypeOK
  BY DEF HubInv
<1> QED
  BY <1>1, AlwaysHubInv, PTL

\* The broadcast loop never sends on a closed channel: a subscriber is taken
\* off the map, under the lock the loop holds, before it is closed.
THEOREM LoopNeverPanics == Spec => []NoSendOnClosed
<1>1. HubInv => NoSendOnClosed
  BY DEF HubInv, TypeOK, Locking, NoSendOnClosed
<1> QED
  BY <1>1, AlwaysHubInv, PTL
-----------------------------------------------------------------------------
(* Order *)

\* The newest of everything a connection has got.
Before(s, n) ==
    /\ s.read < n
    /\ \A i \in 1..Len(s.Events) : s.Events[i].n < n

\* The events of a channel are in the order they were emitted, and all after
\* number n.
Rising(events, n) ==
    /\ \A i \in 1..Len(events) : n < events[i].n
    /\ \A i, j \in 1..Len(events) : i < j => events[i].n < events[j].n

\* An event is on its way through the channel, the loop and the channels of
\* the subscribers, and overtakes none.
Ordered ==
    /\ Rising(broadcastChan, current.n)
    /\ current.n <= emitted
    /\ \A i \in 1..Len(broadcastChan) : broadcastChan[i].n <= emitted
    /\ \A c \in Conn :
         /\ Rising(conn[c].Events, conn[c].read)
         /\ Before(conn[c], emitted + 1)
         /\ \A i \in 1..Len(broadcastChan) : Before(conn[c], broadcastChan[i].n)
         /\ current # NoEvent /\ (copying => c \in todo) => Before(conn[c], current.n)
         /\ \A i \in 1..Len(conn[c].Events) :
               conn[c].board \in {AllBoards, conn[c].Events[i].board}

LEMMA InitOrdered == Init => Ordered
<1> SUFFICES ASSUME Init PROVE Ordered
  OBVIOUS
<1>1. ClosedConn.Events = <<>> /\ ClosedConn.read = 0
  BY DEF ClosedConn
<1> QED
  BY <1>1 DEF Init, Ordered, Rising, Before, NoEvent

LEMMA Numbers ==
    ASSUME HubInv
    PROVE  /\ emitted \in Nat /\ current.n \in Nat
           /\ \A i \in 1..Len(broadcastChan) : broadcastChan[i] \in Event /\ broadcastChan[i].n \in Nat
           /\ \A c \in Conn :
                /\ conn[c] \in ConnState /\ conn[c].read \in Nat
                /\ conn[c].Events \in Seq(Event) /\ Len(conn[c].Events) \in Nat
                /\ \A i \in 1..Len(conn[c].Events) :
                     conn[c].Events[i] \in Event /\ conn[c].Events[i].n \in Nat
<1> USE BoundsAssumption DEF HubInv, TypeOK
<1>1. emitted \in Nat /\ current.n \in Nat
  BY DEF Event, NoEvent
<1>2. \A i \in 1..Len(broadcastChan) : broadcastChan[i] \in Event /\ broadcastChan[i].n \in Nat
  <2>1. broadcastChan \in Seq(Event)
    OBVIOUS
  <2>2. \A i \in 1..Len(broadcastChan) : broadcastChan[i] \in Event
    BY ONLY <2>1
  <2>3. \A e \in Event : e.n \in Nat
    BY DEF Event
  <2> QED
    BY <2>2, <2>3
<1>3. ASSUME NEW c \in Conn
      PROVE  /\ conn[c] \in ConnState /\ conn[c].read \in Nat
             /\ conn[c].Events \in Seq(Event) /\ Len(conn[c].Events) \in Nat
             /\ \A i \in 1..Len(conn[c].Events) :
                  conn[c].Events[i] \in Event /\ conn[c].Events[i].n \in Nat
  <2>1. conn[c] \in ConnState
    OBVIOUS
  <2>2. conn[c].read \in Nat /\ conn[c].Events \in Seq(Event)
    BY <2>1 DEF ConnState
  <2>3. \A i \in 1..Len(conn[c].Events) : conn[c].Events[i] \in Event
    BY <2>2
  <2> QED
    BY <2>1, <2>2, <2>3 DEF Event
<1> QED
  BY <1>1, <1>2, <1>3

LEMMA EmitOrdered == ASSUME HubInv, Ordered, NEW b \in Board, Emit(b) PROVE Ordered'
<1> DEFINE event == [n |-> emitted + 1, board |-> b]
<1>1. UNCHANGED <<current, todo, copying, conn>> /\ emitted' = emitted + 1
  BY DEF Emit
<1>2. \A c \in Conn : Before(conn[c], emitted + 2)
  BY Numbers DEF Ordered, Before
<1>3. CASE broadcastChan' = broadcastChan
  <2>1. Rising(broadcastChan, current.n)' /\ (current.n <= emitted)'
    BY <1>1, <1>3, Numbers DEF Ordered, Rising
  <2>2. \A i \in 1..Len(broadcastChan') : broadcastChan'[i].n <= emitted'
    BY <1>1, <1>3, Numbers DEF Ordered
  <2>3. \A c \in Conn : Before(conn[c], emitted + 1)'
    BY <1>1, <1>2, Numbers DEF Before
  <2> QED
    BY <1>1, <1>3, <2>1, <2>2, <2>3 DEF Ordered, Rising, Before
<1>4. CASE broadcastChan' = Append(broadcastChan, event)
  <2>1. /\ Len(broadcastChan') = Len(broadcastChan) + 1 /\ Len(broadcastChan) \in Nat
        /\ \A i \in 1..Len(broadcastChan) : broadcastChan'[i] = broadcastChan[i]
        /\ broadcastChan'[Len(broadcastChan) + 1].n = emitted + 1
    BY <1>4 DEF HubInv, TypeOK
  <2>2. \A i \in 1..Len(broadcastChan') :
           i \in 1..Len(broadcastChan) \/ i = Len(broadcastChan) + 1
    BY <2>1
  <2>3. Rising(broadcastChan', current.n)
    <3>1. \A i \in 1..Len(broadcastChan') : current.n < broadcastChan'[i].n
      BY <2>1, <2>2, Numbers DEF Ordered, Rising
    <3>2. \A i, j \in 1..Len(broadcastChan') : i < j => broadcastChan'[i].n < broadcastChan'[j].n
      <4> SUFFICES ASSUME NEW i \in 1..Len(broadcastChan'), NEW j \in 1..Len(broadcastChan'), i < j
                   PROVE  broadcastChan'[i].n < broadcastChan'[j].n
        OBVIOUS
      <4>1. i \in 1..Len(broadcastChan)
        BY <2>1
      <4>2. CASE j \in 1..Len(broadcastChan)
        BY <2>1, <4>1, <4>2 DEF Ordered, Rising
      <4>3. CASE j = Len(broadcastChan) + 1
        BY <2>1, <4>1, <4>3, Numbers DEF Ordered
      <4> QED
        BY <2>2, <4>2, <4>3
    <3> QED
      BY <3>1, <3>2 DEF Rising
  <2>4. \A i \in 1..Len(broadcastChan') : broadcastChan'[i].n <= emitted'
    BY <1>1, <2>1, <2>2, Numbers DEF Ordered
  <2>5. \A c \in Conn : \A i \in 1..Len(broadcastChan') : Before(conn[c], broadcastChan'[i].n)
    BY <2>1, <2>2 DEF Ordered
  <2> QED
    BY <1>1, <1>2, <2>3, <2>4, <2>5, Numbers DEF Ordered
<1> QED
  BY <1>3, <1>4 DEF Emit

LEMMA LoopOrdered == ASSUME HubInv, Ordered, Loop PROVE Ordered'
<1>1. CASE LoopTake
  <2>1. /\ current' = broadcastChan[1] /\ current'.n = broadcastChan[1].n
        /\ Len(broadcastChan) \in Nat /\ Len(broadcastChan) >= 1
        /\ Len(broadcastChan') = Len(broadcastChan) - 1
        /\ \A i \in 1..Len(broadcastChan') : broadcastChan'[i] = broadcastChan[i + 1]
    BY <1>1 DEF LoopTake, HubInv, TypeOK
  <2>2. \A i \in 1..Len(broadcastChan') : i + 1 \in 1..Len(broadcastChan) /\ 1 < i + 1
    BY <2>1
  <2>3. 1 \in 1..Len(broadcastChan)
    BY <2>1
  <2>4. Rising(broadcastChan', current'.n)
    <3>1. \A i \in 1..Len(broadcastChan') : broadcastChan[1].n < broadcastChan'[i].n
      BY <2>1, <2>2, <2>3 DEF Ordered, Rising
    <3>2. \A i, j \in 1..Len(broadcastChan') : i < j => broadcastChan'[i].n < broadcastChan'[j].n
      <4> SUFFICES ASSUME NEW i \in 1..Len(broadcastChan'), NEW j \in 1..Len(broadcastChan'), i < j
                   PROVE  broadcastChan'[i].n < broadcastChan'[j].n
        OBVIOUS
      <4>1. i + 1 \in 1..Len(broadcastChan) /\ j + 1 \in 1..Len(broadcastChan) /\ i + 1 < j + 1
        BY <2>2
      <4>2. broadcastChan[i + 1].n < broadcastChan[j + 1].n
        BY <4>1 DEF Ordered, Rising
      <4> QED
        BY <2>1, <4>2
    <3> QED
      BY <2>1, <3>1, <3>2 DEF Rising
  <2>5. current'.n <= emitted /\ \A i \in 1..Len(broadcastChan') : broadcastChan'[i].n <= emitted
    BY <2>1, <2>2, <2>3 DEF Ordered
  <2>6. \A c \in Conn :
          /\ Before(conn[c], current'.n)
          /\ \A i \in 1..Len(broadcastChan') : Before(conn[c], broadcastChan'[i].n)
    BY <2>1, <2>2, <2>3 DEF Ordered
  <2> QED
    BY <1>1, <2>4, <2>5, <2>6 DEF LoopTake, Ordered
<1>2. CASE LoopLock
  BY <1>2 DEF LoopLock, Ordered
<1>3. ASSUME NEW c \in Conn, LoopSend(c) PROVE Ordered'
  <2>0. /\ c \in subscribers /\ conn[c] \in ConnState /\ copying /\ current # NoEvent
        /\ UNCHANGED <<emitted, broadcastChan, current, copying>> /\ todo' = todo \ {c}
        /\ current \in Event
    BY <1>3 DEF LoopSend, HubInv, TypeOK, Locking
  <2>1. CASE UNCHANGED conn
    BY <2>0, <2>1 DEF Ordered
  <2>2. CASE /\ conn' = [conn EXCEPT ![c].Events = Append(@, current)]
             /\ conn[c].board \in {AllBoards, current.board}
    <3> DEFINE s == conn'[c]
               k == Len(conn[c].Events)
    <3>1. /\ s.read = conn[c].read /\ s.board = conn[c].board
          /\ s.Events = Append(conn[c].Events, current)
          /\ \A d \in Conn \ {c} : conn'[d] = conn[d]
      BY <2>0, <2>2 DEF HubInv, TypeOK, ConnState
    <3>2. /\ k \in Nat /\ Len(s.Events) = k + 1
          /\ \A i \in 1..k : s.Events[i] = conn[c].Events[i]
          /\ s.Events[k + 1] = current
      BY <2>0, <3>1, Numbers
    <3> HIDE DEF s, k
    <3>3. \A i \in 1..Len(s.Events) : i \in 1..k \/ i = k + 1
      BY <3>2
    <3>4. Before(conn[c], current.n)
      BY <1>3, <2>0 DEF LoopSend, Ordered
    <3>5. Rising(s.Events, s.read)
      BY <3>1, <3>2, <3>3, <3>4, Numbers DEF Ordered, Rising, Before, k
    <3>6. \A n \in Nat : Before(conn[c], n) /\ current.n < n => Before(s, n)
      BY <3>1, <3>2, <3>3 DEF Before, k
    <3>7. Before(s, emitted + 1) /\ \A i \in 1..Len(broadcastChan) : Before(s, broadcastChan[i].n)
      BY <3>6, Numbers DEF Ordered, Rising
    <3>8. \A i \in 1..Len(s.Events) : s.board \in {AllBoards, s.Events[i].board}
      <4> SUFFICES ASSUME NEW i \in 1..Len(s.Events)
                   PROVE s.board \in {AllBoards, s.Events[i].board}
        OBVIOUS
      <4>1. CASE i \in 1..k
        <5>0. i \in 1..Len(conn[c].Events)
          BY <4>1 DEF k
        <5>1. conn[c].board \in {AllBoards, conn[c].Events[i].board}
          BY <5>0 DEF Ordered
        <5> QED
          BY <5>1, <4>1, <3>1, <3>2
      <4>2. CASE i = k + 1
        BY <4>2, <2>2, <3>1, <3>2
      <4> QED
        BY <4>1, <4>2, <3>3
    <3>9. /\ Rising(conn'[c].Events, conn'[c].read)
          /\ Before(conn'[c], emitted + 1)
          /\ \A i \in 1..Len(broadcastChan) : Before(conn'[c], broadcastChan[i].n)
          /\ \A i \in 1..Len(conn'[c].Events) :
                conn'[c].board \in {AllBoards, conn'[c].Events[i].board}
      BY <3>5, <3>7, <3>8 DEF s
    <3>10. c \notin todo' /\ copying' /\ todo' \subseteq todo
      BY <2>0
    <3>11. \A d \in Conn \ {c} : conn'[d] = conn[d]
      BY <3>1
    <3> HIDE <2>2, <3>1
    <3> QED
      BY <2>0, <3>9, <3>10, <3>11 DEF Ordered
  <2> QED
    BY <1>3, <2>1, <2>2 DEF LoopSend
<1>4. CASE LoopUnlock
  <2>1. NoEvent.n = 0
    BY DEF NoEvent
  <2>2. Rising(broadcastChan, 0)
    BY Numbers DEF Ordered, Rising
  <2> QED
    BY <1>4, <2>1, <2>2, Numbers DEF LoopUnlock, Ordered
<1> QED
  BY <1>1, <1>2, <1>3, <1>4 DEF Loop

LEMMA ConnOrdered ==
    ASSUME HubInv, Ordered, NEW c \in Conn,
           \/ \E b \in Board \cup {AllBoards} : SubscribeCheck(c, b)
           \/ SubscribeAdd(c)
           \/ Receive(c)
           \/ UnsubscribeRemove(c)
           \/ UnsubscribeClose(c)
    PROVE  Ordered'
<1>0. UNCHANGED <<emitted, broadcastChan, current, todo, copying>>
  BY DEF SubscribeCheck, SubscribeAdd, Receive, UnsubscribeRemove, UnsubscribeClose
<1>c. conn[c] \in ConnState /\ conn \in [Conn -> ConnState]
  BY DEF HubInv, TypeOK
<1>t. conn' \in [Conn -> ConnState]
  BY ConnHubInv DEF HubInv, TypeOK
<1>1. ASSUME NEW s \in ConnState, conn' = [conn EXCEPT ![c] = s],
             Rising(s.Events, s.read),
             \A n \in Nat \ {0} : Before(conn[c], n) => Before(s, n),
             \A i \in 1..Len(s.Events) : s.board \in {AllBoards, s.Events[i].board}
      PROVE  Ordered'
  <2>1. conn'[c] = s /\ \A d \in Conn \ {c} : conn'[d] = conn[d]
    BY <1>1, <1>c
  <2>2. Before(s, emitted + 1)
    BY <1>1, Numbers DEF Ordered
  <2>3. \A i \in 1..Len(broadcastChan) : Before(s, broadcastChan[i].n)
    BY <1>1, Numbers DEF Ordered, Event
  <2>4. current # NoEvent /\ (copying => c \in todo) => Before(s, current.n)
    BY <1>1, BoundsAssumption DEF Ordered, HubInv, TypeOK, Event
  <2> QED
    BY <1>0, <1>1, <2>1, <2>2, <2>3, <2>4 DEF Ordered
<1>2. ASSUME NEW b \in Board \cup {AllBoards}, SubscribeCheck(c, b) PROVE Ordered'
  <2> DEFINE s == [ClosedConn EXCEPT !.pc = "checked", !.board = b]
  <2>1. s.Events = <<>> /\ s.read = 0
    BY DEF ClosedConn
  <2>2. conn' = [conn EXCEPT ![c] = s]
    BY <1>2 DEF SubscribeCheck
  <2> HIDE DEF s
  <2>t. s \in ConnState
    BY <2>2, <1>c, <1>t
  <2>3. Rising(s.Events, s.read) /\ \A n \in Nat \ {0} : Before(s, n)
    BY <2>1 DEF Rising, Before
  <2>4. \A i \in 1..Len(s.Events) : FALSE
    BY <2>1
  <2> QED
    BY <1>1, <2>t, <2>2, <2>3, <2>4
<1>3. ASSUME NEW pc, conn' = [conn EXCEPT ![c].pc = pc] PROVE Ordered'
  <2> DEFINE s == [conn[c] EXCEPT !.pc = pc]
  <2>1. s.Events = conn[c].Events /\ s.read = conn[c].read /\ s.board = conn[c].board
    BY <1>c DEF ConnState
  <2>2. conn' = [conn EXCEPT ![c] = s]
    BY <1>3, <1>c
  <2> HIDE DEF s
  <2>t. s \in ConnState
    BY <2>2, <1>c, <1>t
  <2>3. Rising(s.Events, s.read) /\ \A n \in Nat \ {0} : Before(conn[c], n) => Before(s, n)
    BY <2>1 DEF Ordered, Before
  <2>4. \A i \in 1..Len(s.Events) : s.board \in {AllBoards, s.Events[i].board}
    BY <2>1 DEF Ordered
  <2> QED
    BY <1>1, <2>2, <2>t, <2>3, <2>4
<1>4. CASE Receive(c)
  <2> DEFINE s == [conn[c] EXCEPT !.Events = Tail(conn[c].Events),
                                  !.read = Head(conn[c].Events).n]
  <2>1. conn[c].Events \in Seq(Event) /\ conn[c].Events # <<>>
    BY <1>4, Numbers DEF Receive
  <2>2. /\ s.Events = Tail(conn[c].Events) /\ s.board = conn[c].board
        /\ s.read = conn[c].Events[1].n
    BY <1>c, <2>1 DEF ConnState
  <2>3. conn' = [conn EXCEPT ![c] = s]
    BY <1>4, <1>c DEF Receive
  <2> HIDE DEF s
  <2>t. s \in ConnState
    BY <2>3, <1>c, <1>t
  <2>4. /\ Len(conn[c].Events) \in Nat /\ 1 \in 1..Len(conn[c].Events)
        /\ Len(s.Events) = Len(conn[c].Events) - 1
        /\ \A i \in 1..Len(s.Events) : /\ s.Events[i] = conn[c].Events[i + 1]
                                        /\ i + 1 \in 1..Len(conn[c].Events) /\ 1 < i + 1
    BY <2>1, <2>2
  <2>5. Rising(s.Events, s.read)
    BY <2>2, <2>4 DEF Ordered, Rising
  <2>6. \A n \in Nat \ {0} : Before(conn[c], n) => Before(s, n)
    BY <2>2, <2>4 DEF Before
  <2>7. \A i \in 1..Len(s.Events) : s.board \in {AllBoards, s.Events[i].board}
    BY <2>2, <2>4 DEF Ordered
  <2> QED
    BY <1>1, <2>t, <2>3, <2>5, <2>6, <2>7
<1>5. CASE UnsubscribeClose(c)
  <2>1. ClosedConn.Events = <<>> /\ ClosedConn.read = 0
    BY DEF ClosedConn
  <2>2. Rising(ClosedConn.Events, ClosedConn.read) /\ \A n \in Nat \ {0} : Before(ClosedConn, n)
    BY <2>1 DEF Rising, Before
  <2>3. conn' = [conn EXCEPT ![c] = ClosedConn] /\ ClosedConn \in ConnState
    BY <1>5, <1>c, <1>t DEF UnsubscribeClose
  <2>4. \A i \in 1..Len(ClosedConn.Events) : FALSE
    BY <2>1
  <2> QED
    BY <1>1, <2>2, <2>3, <2>4
<1> QED
  BY <1>2, <1>3, <1>4, <1>5 DEF SubscribeAdd, UnsubscribeRemove

LEMMA AlwaysOrdered == Spec => [](HubInv /\ Ordered)
<1>1. HubInv /\ Ordered /\ [Next]_vars => Ordered'
  <2> SUFFICES ASSUME HubInv, Ordered, [Next]_vars PROVE Ordered'
    OBVIOUS
  <2>1. CASE UNCHANGED vars
    BY <2>1 DEF vars, Ordered
  <2> QED
    BY <2>1, LoopOrdered, EmitOrdered, ConnOrdered DEF Next
<1> QED
  BY <1>1, InitOrdered, AlwaysHubInv, PTL DEF Spec

\* What is delivered rises when what waits is above what has been read.
LEMMA DeliveredRises ==
    ASSUME NEW c \in Conn, HubInv, Rising(conn[c].Events, conn[c].read)
    PROVE  \A i, j \in 1..Len(Delivered(c)) : i < j => Delivered(c)[i] < Delivered(c)[j]
<1> DEFINE k == Len(conn[c].Events)
           f == [i \in 1..k |-> conn[c].Events[i].n]
<1>1. k \in Nat /\ f \in Seq(Nat) /\ Len(f) = k /\ <<conn[c].read>> \in Seq(Nat)
  BY Numbers
<1>2. Delivered(c) = <<conn[c].read>> \o f
  BY DEF Delivered
<1>3. /\ Len(Delivered(c)) = k + 1
      /\ Delivered(c)[1] = conn[c].read
      /\ \A i \in 2..(k + 1) : Delivered(c)[i] = f[i - 1]
  <2> HIDE DEF f, k
  <2> QED
    BY <1>1, <1>2
<1> HIDE DEF k, f
<1>4. ASSUME NEW i \in 2..(k + 1)
      PROVE  i - 1 \in 1..k /\ Delivered(c)[i] = conn[c].Events[i - 1].n
  <2>1. i - 1 \in 1..k
    BY <1>1
  <2>2. f[i - 1] = conn[c].Events[i - 1].n
    BY <2>1 DEF f
  <2> QED
    BY <1>3, <2>1, <2>2
<1>5. ASSUME NEW i \in 1..(k + 1), NEW j \in 1..(k + 1), i < j
      PROVE  Delivered(c)[i] < Delivered(c)[j]
  <2>1. j \in 2..(k + 1) /\ (i = 1 \/ i \in 2..(k + 1))
    BY <1>1, <1>5
  <2>2. CASE i = 1
    BY <1>3, <1>4, <2>1, <2>2 DEF Rising, k
  <2>3. CASE i \in 2..(k + 1)
    <3>1. i - 1 \in 1..k /\ j - 1 \in 1..k /\ i - 1 < j - 1
      BY <1>1, <1>5, <2>1, <2>3
    <3>2. conn[c].Events[i - 1].n < conn[c].Events[j - 1].n
      BY <3>1 DEF Rising, k
    <3> QED
      BY <1>4, <2>1, <2>3, <3>2
  <2> QED
    BY <2>1, <2>2, <2>3
<1> QED
  BY <1>3, <1>5

\* A client gets the events of its board only, each at most once and in the
\* order they were emitted: nothing overtakes on the way through the channel,
\* the loop and the buffers, whatever is dropped and whoever comes and goes.
THEOREM EventsInOrder == Spec => []InOrder
<1>1. HubInv /\ Ordered => InOrder
  BY DeliveredRises DEF Ordered, InOrder
<1> QED
  BY <1>1, AlwaysOrdered, PTL
=============================================================================
