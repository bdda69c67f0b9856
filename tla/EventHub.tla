------------------------------ MODULE EventHub ------------------------------
(***************************************************************************)
(* Server-sent events (sse/sse.go): the broadcast channel, the map of      *)
(* subscribers, the goroutine that copies every event to every subscriber  *)
(* and the connections that read them.                                     *)
(*                                                                         *)
(* subMu protects the map.  Emit and the broadcast loop take it for        *)
(* reading, the loop for as long as it copies one event; Subscribe and     *)
(* Unsubscribe take it for writing, which they get only while the loop is  *)
(* not copying.  A connection is a slot; it is used again after it closed. *)
(***************************************************************************)
EXTENDS Naturals, Sequences, FiniteSets

CONSTANTS
    Conn,             \* slots for connections
    Board,            \* boards that events are about
    AllBoards,        \* the board of a connection that wants every event
    maxSubscribers,
    BroadcastBuffer,  \* capacity of broadcastChan
    EventBuffer,      \* capacity of the channel of one subscriber
    MaxEvents         \* bound: events emitted in a behaviour

ASSUME BoardAssumption == AllBoards \notin Board

ASSUME BoundsAssumption ==
    /\ maxSubscribers \in Nat
    /\ BroadcastBuffer \in Nat
    /\ EventBuffer \in Nat
    /\ MaxEvents \in Nat

VARIABLES
    emitted,        \* events emitted so far; events are numbered in this order
    broadcastChan,  \* the channel between Emit and the loop
    current,        \* the event the loop has taken, or NoEvent
    todo,           \* subscribers that the loop has yet to serve, subMu held
    copying,        \* does the loop hold subMu?
    subscribers,    \* the map of subscribers
    conn,           \* per connection: phase, board, channel, newest event read
    droppedEvents   \* the metric

vars == <<emitted, broadcastChan, current, todo, copying, subscribers, conn, droppedEvents>>

Event == [n: 1..MaxEvents, board: Board]

NoEvent == [n |-> 0, board |-> AllBoards]

(***************************************************************************)
(* The phases of a connection:                                             *)
(*   checked   Subscribe has found the limit not reached                   *)
(*   open      in the map; the body writer reads its channel               *)
(*   removed   Unsubscribe has taken it off the map                        *)
(*   closed    its channel is closed                                       *)
(***************************************************************************)
ConnState ==
    [pc: {"closed", "checked", "open", "removed"}, board: Board \cup {AllBoards},
     Events: Seq(Event), read: 0..MaxEvents]

ClosedConn == [pc |-> "closed", board |-> AllBoards, Events |-> <<>>, read |-> 0]

-----------------------------------------------------------------------------
(* Emit and the broadcast loop *)

\* Never blocks: an event that does not fit is dropped.
\* Mutant: the event is put in front.
EmitMutant(b) ==
    /\ emitted < MaxEvents
    /\ emitted' = emitted + 1
    /\ LET event == [n |-> emitted + 1, board |-> b]
       IN  IF Len(broadcastChan) < BroadcastBuffer
           THEN /\ broadcastChan' = <<event>> \o broadcastChan
                /\ UNCHANGED droppedEvents
           ELSE /\ droppedEvents' = droppedEvents + 1
                /\ UNCHANGED broadcastChan
    /\ UNCHANGED <<current, todo, copying, subscribers, conn>>
Emit(b) ==
    /\ emitted < MaxEvents
    /\ emitted' = emitted + 1
    /\ LET event == [n |-> emitted + 1, board |-> b]
       IN  IF Len(broadcastChan) < BroadcastBuffer
           THEN /\ broadcastChan' = Append(broadcastChan, event)
                /\ UNCHANGED droppedEvents
           ELSE /\ droppedEvents' = droppedEvents + 1
                /\ UNCHANGED broadcastChan
    /\ UNCHANGED <<current, todo, copying, subscribers, conn>>

\* broadcastLoop: for event := range ch
LoopTake ==
    /\ current = NoEvent
    /\ broadcastChan # <<>>
    /\ current' = Head(broadcastChan)
    /\ broadcastChan' = Tail(broadcastChan)
    /\ UNCHANGED <<emitted, todo, copying, subscribers, conn, droppedEvents>>

\* subMu.RLock(); the map cannot change while the loop ranges over it.
LoopLock ==
    /\ current # NoEvent
    /\ ~copying
    /\ copying' = TRUE
    /\ todo' = subscribers
    /\ UNCHANGED <<emitted, broadcastChan, current, subscribers, conn, droppedEvents>>

\* One round of the loop over the map, in no particular order.
\* Mutant: a plain send, which waits for room in the channel.
LoopSendMutant(c) ==
    /\ c \in todo
    /\ todo' = todo \ {c}
    /\ IF conn[c].board \notin {AllBoards, current.board}
       THEN UNCHANGED <<conn, droppedEvents>>
       ELSE /\ Len(conn[c].Events) < EventBuffer
            /\ conn' = [conn EXCEPT ![c].Events = Append(@, current)]
            /\ UNCHANGED droppedEvents
    /\ UNCHANGED <<emitted, broadcastChan, current, copying, subscribers>>
LoopSend(c) ==
    /\ c \in todo
    /\ todo' = todo \ {c}
    /\ IF conn[c].board \notin {AllBoards, current.board}
       THEN UNCHANGED <<conn, droppedEvents>>
       ELSE IF Len(conn[c].Events) < EventBuffer
       THEN /\ conn' = [conn EXCEPT ![c].Events = Append(@, current)]
            /\ UNCHANGED droppedEvents
       ELSE /\ droppedEvents' = droppedEvents + 1
            /\ UNCHANGED conn
    /\ UNCHANGED <<emitted, broadcastChan, current, copying, subscribers>>

LoopUnlock ==
    /\ copying
    /\ todo = {}
    /\ copying' = FALSE
    /\ current' = NoEvent
    /\ UNCHANGED <<emitted, broadcastChan, todo, subscribers, conn, droppedEvents>>

-----------------------------------------------------------------------------
(* Connections *)

\* Subscribe reads the number of subscribers under RLock ...
SubscribeCheck(c, b) ==
    /\ conn[c].pc = "closed"
    /\ Cardinality(subscribers) < maxSubscribers
    /\ conn' = [conn EXCEPT ![c] = [ClosedConn EXCEPT !.pc = "checked", !.board = b]]
    /\ UNCHANGED <<emitted, broadcastChan, current, todo, copying, subscribers, droppedEvents>>

\* ... and adds the subscriber under Lock, without another look.
SubscribeAdd(c) ==
    /\ conn[c].pc = "checked"
    /\ ~copying
    /\ subscribers' = subscribers \cup {c}
    /\ conn' = [conn EXCEPT ![c].pc = "open"]
    /\ UNCHANGED <<emitted, broadcastChan, current, todo, copying, droppedEvents>>

\* HandleSSE: the body writer takes an event and writes it to the client.
Receive(c) ==
    /\ conn[c].pc = "open"
    /\ conn[c].Events # <<>>
    /\ conn' = [conn EXCEPT ![c].Events = Tail(@), ![c].read = Head(conn[c].Events).n]
    /\ UNCHANGED <<emitted, broadcastChan, current, todo, copying, subscribers, droppedEvents>>

\* fctx.Done(): the body writer ends and its deferred Unsubscribe first takes
\* the subscriber off the map ...
\* Mutant: the map is changed without the lock.
UnsubscribeRemoveMutant(c) ==
    /\ conn[c].pc = "open"
    /\ subscribers' = subscribers \ {c}
    /\ conn' = [conn EXCEPT ![c].pc = "removed"]
    /\ UNCHANGED <<emitted, broadcastChan, current, todo, copying, droppedEvents>>
UnsubscribeRemove(c) ==
    /\ conn[c].pc = "open"
    /\ ~copying
    /\ subscribers' = subscribers \ {c}
    /\ conn' = [conn EXCEPT ![c].pc = "removed"]
    /\ UNCHANGED <<emitted, broadcastChan, current, todo, copying, droppedEvents>>

\* ... and then closes its channels, without the lock.
UnsubscribeClose(c) ==
    /\ conn[c].pc = "removed"
    /\ conn' = [conn EXCEPT ![c] = ClosedConn]
    /\ UNCHANGED <<emitted, broadcastChan, current, todo, copying, subscribers, droppedEvents>>

Init ==
    /\ emitted = 0
    /\ broadcastChan = <<>>
    /\ current = NoEvent
    /\ todo = {}
    /\ copying = FALSE
    /\ subscribers = {}
    /\ conn = [c \in Conn |-> ClosedConn]
    /\ droppedEvents = 0

Loop == LoopTake \/ LoopLock \/ (\E c \in Conn : LoopSend(c)) \/ LoopUnlock

Next ==
    \/ \E b \in Board : Emit(b)
    \/ Loop
    \/ \E c \in Conn :
         \/ \E b \in Board \cup {AllBoards} : SubscribeCheck(c, b)
         \/ SubscribeAdd(c)
         \/ Receive(c)
         \/ UnsubscribeRemove(c)
         \/ UnsubscribeClose(c)

Spec == Init /\ [][Next]_vars

\* The loop's goroutine goes on.  Clients may stop reading: a body writer may
\* be stuck in a write to its client for ever.
FairSpec == Spec /\ WF_vars(Loop)
-----------------------------------------------------------------------------
(* Properties *)

\* Every variable has its type, the channel between Emit and the loop keeps
\* its capacity, and the loop serves only subscribers that are on the map,
\* although they come and go between its rounds.
TypeOK ==
    /\ emitted \in 0..MaxEvents
    /\ broadcastChan \in Seq(Event)
    /\ Len(broadcastChan) <= BroadcastBuffer
    /\ current \in Event \cup {NoEvent}
    /\ todo \subseteq subscribers
    /\ copying \in BOOLEAN
    /\ subscribers \subseteq Conn
    /\ conn \in [Conn -> ConnState]
    /\ droppedEvents \in Nat

\* The loop never sends on a closed channel, which would panic and end the
\* server: no subscriber it has yet to serve is closed, although Unsubscribe
\* closes the channel after it has given back the lock (sse.go:169).
NoSendOnClosed == \A c \in todo : conn[c].pc # "closed"

\* What a client has read and what waits for it: the numbers of its events.
Delivered(c) ==
    <<conn[c].read>> \o [i \in 1..Len(conn[c].Events) |-> conn[c].Events[i].n]

\* A client gets the events of its board only, each at most once and in the
\* order they were emitted, whatever is dropped on the way.
InOrder ==
    \A c \in Conn :
        /\ \A i, j \in 1..Len(Delivered(c)) : i < j => Delivered(c)[i] < Delivered(c)[j]
        /\ \A i \in 1..Len(conn[c].Events) :
              conn[c].board \in {AllBoards, conn[c].Events[i].board}

\* Event n is in the channel or with the loop.
OnItsWay(n) ==
    \/ current.n = n
    \/ \E i \in 1..Len(broadcastChan) : broadcastChan[i].n = n

\* A client that does not read holds up nobody: the loop deals with every
\* event that Emit could put into the channel, without any help of a reader.
LoopGoesOn == \A n \in 1..MaxEvents : OnItsWay(n) ~> ~OnItsWay(n)
=============================================================================
