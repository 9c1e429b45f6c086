------------------------------ MODULE WifiServer ------------------------------
(***************************************************************************)
(* CatchWifiServer (wifi_server.py): the listener that the device connects *)
(* to, and the one current session it hands to the coordinator.  A new     *)
(* connection takes over from the one before; a session whose request has  *)
(* failed is discarded; stopping the server ends everything.               *)
(*                                                                         *)
(* The bodies under _connection_lock never await, and asyncio grants a     *)
(* free lock without suspending, so each body is part of one action.  The  *)
(* coordinator's transactions are serialised (CatchCoordinator._transaction)*)
(* and are one client here; CatchWebSocketSession is reduced to what the   *)
(* server sees of it (WebSocketSession has the rest).  The device and      *)
(* aiohttp are external.                                                   *)
(***************************************************************************)
EXTENDS Naturals, Sequences

CONSTANTS
  Conns,        \* the connections the device makes, each at most once
  None,         \* no connection
  Closed,       \* the _Closed item of a message queue
  MaxRequests,  \* bound: requests sent on one connection
  MaxCancels    \* bound: transactions cancelled by Home Assistant

ASSUME ServerAssumption ==
  /\ None \notin Conns
  /\ Closed \notin Nat
  /\ MaxRequests \in Nat /\ MaxCancels \in Nat

VARIABLES
  current,    \* _connection and _session, which change together
  connected,  \* _connected, an asyncio.Event
  handler,    \* the progress of _async_websocket for each connection
  socket,     \* "open" or "closed", as this side knows it
  queue,      \* _AioWebSocketConnection.messages: request numbers, or Closed
  wire,       \* replies of the device that its handler has not read yet
  sent,       \* requests sent on each connection
  answered,   \* requests the device has answered
  poisoned,   \* the session's _failed
  client,     \* the progress of the coordinator's transaction
  session,    \* the session it uses
  server,     \* the progress of async_stop
  cancels     \* transactions cancelled so far

vars == <<current, connected, handler, socket, queue, wire, sent, answered,
          poisoned, client, session, server, cancels>>
peer == <<wire, answered>>
using == <<client, session, cancels>>

TypeOK ==
  /\ current \in Conns \union {None}
  /\ connected \in BOOLEAN
  /\ handler \in [Conns -> {"absent", "replacing", "reading", "done"}]
  /\ socket \in [Conns -> {"open", "closed"}]
  /\ queue \in [Conns -> Seq(0..MaxRequests \union {Closed})]
  /\ wire \in [Conns -> Seq(0..MaxRequests)]
  /\ sent \in [Conns -> 0..MaxRequests]
  /\ answered \in [Conns -> 0..MaxRequests]
  /\ poisoned \in [Conns -> BOOLEAN]
  /\ client \in {"idle", "getting", "sending", "receiving", "discarding"}
  /\ session \in IF client \in {"idle", "getting"} THEN {None} ELSE Conns
  /\ server \in {"running", "cleanup", "stopped"}
  /\ cancels \in 0..MaxCancels

Init ==
  /\ current = None
  /\ connected = FALSE
  /\ handler = [c \in Conns |-> "absent"]
  /\ socket = [c \in Conns |-> "open"]
  /\ queue = [c \in Conns |-> <<>>]
  /\ wire = [c \in Conns |-> <<>>]
  /\ sent = [c \in Conns |-> 0]
  /\ answered = [c \in Conns |-> 0]
  /\ poisoned = [c \in Conns |-> FALSE]
  /\ client = "idle"
  /\ session = None
  /\ server = "running"
  /\ cancels = 0

\* connection.close() marks the socket closed at once, then waits for the peer.
Shut(S) == socket' = [c \in Conns |-> IF c \in S THEN "closed" ELSE socket[c]]

\* Mutation of Clear: the event stays set.
ClearSession == current' = None /\ UNCHANGED connected

\* _connection = _session = None and _connected.clear()
Clear == current' = None /\ connected' = FALSE

-----------------------------------------------------------------------------
(* _async_websocket                                                        *)

\* The newest connection is the current one.
TakeOver(c) == current' = c /\ connected' = TRUE

\* After socket.prepare: register, then close the previous connection.
Accept(c) ==
  /\ handler[c] = "absent"
  /\ server # "stopped"
  /\ TakeOver(c)
  /\ handler' = [handler EXCEPT ![c] = IF current = None THEN "reading" ELSE "replacing"]
  /\ Shut({current})
  /\ UNCHANGED <<queue, peer, sent, poisoned, using, server>>

\* await previous.close() returns: its peer has answered, or ten seconds are up.
Replaced(c) ==
  /\ handler[c] = "replacing"
  /\ handler' = [handler EXCEPT ![c] = "reading"]
  /\ UNCHANGED <<current, connected, socket, queue, peer, sent, poisoned, using, server>>

\* messages is asyncio.Queue(maxsize=2): put waits while it is full.
HasRoom(c) == Len(queue[c]) < 2

\* async for message in socket, a binary message
Read(c) ==
  /\ handler[c] = "reading"
  /\ wire[c] # <<>>
  /\ HasRoom(c)
  /\ queue' = [queue EXCEPT ![c] = Append(@, Head(wire[c]))]
  /\ wire' = [wire EXCEPT ![c] = Tail(@)]
  /\ UNCHANGED <<current, connected, handler, socket, sent, answered, poisoned, using, server>>

\* Mutation of LastItems: no item tells the receiver that the loop has ended.
NoLastItem(items) == items

\* finally: _Closed is queued only when no reply is waiting.
LastItems(items) == IF items = <<>> THEN <<Closed>> ELSE items

\* Mutation of Leaves: no handler clears the current session.
LeavesNever(c) == UNCHANGED <<current, connected>>

\* Mutation of Leaves: any handler that ends clears the current session.
LeavesAlways(c) == Clear

\* Only the current connection's handler clears the current session.
Leaves(c) ==
  IF current = c THEN Clear ELSE UNCHANGED <<current, connected>>

\* The loop ends, on a closed socket or a non-binary message, or is cancelled
\* by runner.cleanup; the finally block runs, and aiohttp closes the socket.
End(c) ==
  /\ handler[c] = "reading"
  /\ queue' = [queue EXCEPT ![c] = LastItems(@)]
  /\ Leaves(c)
  /\ handler' = [handler EXCEPT ![c] = "done"]
  /\ Shut({c})
  /\ UNCHANGED <<peer, sent, poisoned, using, server>>

-----------------------------------------------------------------------------
(* The device (external)                                                   *)

\* One reply to each request, in order.
Answer(c) ==
  /\ handler[c] # "absent"
  /\ answered[c] < sent[c]
  /\ socket[c] = "open"
  /\ answered' = [answered EXCEPT ![c] = @ + 1]
  /\ wire' = [wire EXCEPT ![c] = Append(@, answered[c] + 1)]
  /\ UNCHANGED <<current, connected, handler, socket, queue, sent, poisoned, using, server>>

\* The peer closes or the network drops the connection; replies may be lost.
Drop(c) ==
  /\ handler[c] \in {"replacing", "reading"}
  /\ socket[c] = "open"
  /\ Shut({c})
  /\ wire' \in {wire, [wire EXCEPT ![c] = <<>>]}
  /\ UNCHANGED <<current, connected, handler, queue, sent, answered, poisoned, using, server>>

-----------------------------------------------------------------------------
(* The coordinator's transactions                                          *)

\* A poll or an edit calls async_session.
Start ==
  /\ client = "idle"
  /\ server = "running"
  /\ client' = "getting"
  /\ UNCHANGED <<current, connected, handler, socket, queue, peer, sent, poisoned,
                 session, server, cancels>>

\* Mutation of Available: the session is returned without waiting for one.
AvailableAtOnce == TRUE

\* _connected.wait() returns and there is a session.
Available == connected /\ current # None

Got ==
  /\ client = "getting"
  /\ Available
  /\ session' = current
  /\ client' = "sending"
  /\ UNCHANGED <<current, connected, handler, socket, queue, peer, sent, poisoned,
                 server, cancels>>

\* asyncio.timeout(45) around the wait, which an event that is set ends at once:
\* with the event set and no session the loop of async_session would not
\* suspend, and no timeout could fire.
GetTimeout ==
  /\ client = "getting"
  /\ ~connected
  /\ client' = "idle"
  /\ UNCHANGED <<current, connected, handler, socket, queue, peer, sent, poisoned,
                 session, server, cancels>>

\* Mutation of Usable: _failed is not consulted.
UsableAlways == TRUE

Usable == ~poisoned[session]

\* _request_unlocked on a usable session and an open socket
Send ==
  /\ client = "sending"
  /\ Usable
  /\ socket[session] = "open"
  /\ sent[session] < MaxRequests
  /\ sent' = [sent EXCEPT ![session] = @ + 1]
  /\ client' = "receiving"
  /\ UNCHANGED <<current, connected, handler, socket, queue, peer, poisoned,
                 session, server, cancels>>

\* messages.get() returns a reply; another request follows, or the transaction
\* ends.
Receive ==
  /\ client = "receiving"
  /\ queue[session] # <<>>
  /\ Head(queue[session]) # Closed
  /\ queue' = [queue EXCEPT ![session] = Tail(@)]
  /\ \/ client' = "sending" /\ sent[session] < MaxRequests /\ UNCHANGED session
     \/ client' = "idle" /\ session' = None
  /\ UNCHANGED <<current, connected, handler, socket, peer, sent, poisoned,
                 server, cancels>>

\* Mutation of Discarded: the failed session stays.
NotDiscarded == UNCHANGED <<current, connected, socket>>

\* async_discard: a session that is still current makes way for the next
\* connection; one that has been replaced is left alone.
Discarded ==
  IF current = session
  THEN Clear /\ Shut({session})
  ELSE UNCHANGED <<current, connected, socket>>

\* send or recv raises or times out, or the session had failed before; the
\* coordinator's except Exception discards it.
RequestFails ==
  /\ client \in {"sending", "receiving"}
  /\ poisoned' = [poisoned EXCEPT ![session] = TRUE]
  /\ Discarded
  /\ client' = "discarding"
  /\ UNCHANGED <<handler, queue, peer, sent, session, server, cancels>>

\* The reply does not decode or comes from another device: the session has not
\* failed, and is discarded all the same.
RejectReply ==
  /\ client = "receiving"
  /\ queue[session] # <<>>
  /\ Head(queue[session]) # Closed
  /\ queue' = [queue EXCEPT ![session] = Tail(@)]
  /\ Discarded
  /\ client' = "discarding"
  /\ UNCHANGED <<handler, peer, sent, poisoned, session, server, cancels>>

\* await connection.close() returns.
DiscardEnds ==
  /\ client = "discarding"
  /\ client' = "idle"
  /\ session' = None
  /\ UNCHANGED <<current, connected, handler, socket, queue, peer, sent, poisoned,
                 server, cancels>>

\* Home Assistant cancels the task: a request in progress poisons its session,
\* and no except clause of the coordinator discards it.
Cancel ==
  /\ client \in {"getting", "sending", "receiving"}
  /\ cancels < MaxCancels
  /\ cancels' = cancels + 1
  /\ poisoned' = IF client = "getting" THEN poisoned
                 ELSE [poisoned EXCEPT ![session] = TRUE]
  /\ client' = "idle"
  /\ session' = None
  /\ UNCHANGED <<current, connected, handler, socket, queue, peer, sent, server>>

-----------------------------------------------------------------------------
(* async_stop                                                              *)

\* The current session is taken away and its connection closed ...
Stop ==
  /\ server = "running"
  /\ server' = "cleanup"
  /\ Clear
  /\ Shut({current})
  /\ UNCHANGED <<handler, queue, peer, sent, poisoned, using>>

\* ... and runner.cleanup returns when every handler has ended.
CleanedUp ==
  /\ server = "cleanup"
  /\ \A c \in Conns : handler[c] \in {"absent", "done"}
  /\ server' = "stopped"
  /\ UNCHANGED <<current, connected, handler, socket, queue, peer, sent, poisoned, using>>

-----------------------------------------------------------------------------
Next ==
  \/ \E c \in Conns : Accept(c) \/ Replaced(c) \/ Read(c) \/ End(c) \/ Answer(c) \/ Drop(c)
  \/ Start \/ Got \/ GetTimeout \/ Send \/ Receive
  \/ RequestFails \/ RejectReply \/ DiscardEnds \/ Cancel
  \/ Stop \/ CleanedUp

Spec == Init /\ [][Next]_vars

\* The handler of a closed socket ends, and so does every handler once the
\* server is being cleaned up.
EndForced(c) == (socket[c] = "closed" \/ server = "cleanup") /\ End(c)

\* asyncio runs what is ready; the waits of the server and of the client are
\* bounded by timeouts; polls recur while the server runs.  Nothing is assumed
\* of the device.
Fairness ==
  /\ \A c \in Conns : WF_vars(Replaced(c)) /\ WF_vars(EndForced(c))
  /\ WF_vars(Start) /\ WF_vars(Got \/ GetTimeout)
  /\ WF_vars(RequestFails) /\ WF_vars(DiscardEnds)

FairSpec == Spec /\ Fairness

-----------------------------------------------------------------------------
(* Properties                                                              *)

\* async_session loops on the event and on the session: were the event ever
\* set with no session, the loop would spin without suspending and stop the
\* event loop of Home Assistant.
NeverSpins == connected <=> current # None

\* A reply waiting in the queue of the session in use answers its last request,
\* though abandoned requests and replaced connections leave replies behind.
OwnReply ==
  client = "receiving" =>
    \A i \in 1..Len(queue[session]) : queue[session][i] \in {sent[session], Closed}

\* The handler never waits in put, where it would not see the socket close.
PutNeverWaits ==
  \A c \in Conns : handler[c] = "reading" /\ wire[c] # <<>> => HasRoom(c)

\* A call waiting for a reply when the handler ends finds something to wake it.
ReceiverWoken ==
  client = "receiving" /\ handler[session] = "done" => queue[session] # <<>>

\* Neither end of the queue of two waits for the other for ever, though its
\* handler and its reader give up, are replaced and are cancelled at any await.
QueueNeverStuck == PutNeverWaits /\ ReceiverWoken

\* A current session is taken away only by the end of its own handler, by the
\* transaction that uses it, or by stopping: never by the end of an older
\* connection or the failure of an older session.
NewestKept ==
  [][current # None /\ current' = None =>
       \/ handler'[current] # handler[current]
       \/ client' = "discarding" /\ session = current
       \/ server' # server]_vars

\* Stopping leaves no session behind, not even one whose connection was being
\* accepted meanwhile.
StopLeavesNothing == server = "stopped" => current = None /\ ~connected

\* A session that can answer no more does not stay current for ever.
PoisonedGoes ==
  \A c \in Conns : current = c /\ poisoned[c] ~> current # c
=============================================================================
