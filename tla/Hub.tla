-------------------------------- MODULE Hub --------------------------------
(***************************************************************************)
(* The WebSocket hub, internal/websocket/hub.go: the loop of Run, the two  *)
(* pumps of each client, and whoever broadcasts.  Messages are counted,    *)
(* not told apart.  A send on a channel that was closed ends the process.  *)
(***************************************************************************)
EXTENDS Integers, FiniteSets

CONSTANTS
  Client,        \* connections that may be made
  Caller,        \* goroutines that broadcast, once each, to those who watch a repository
  Cap, HubCap,   \* what the queues of a client and of the hub hold (256)
  MaxMessages,   \* bound: broadcasts to everybody
  MaxPings       \* bound: pings of all clients

VARIABLES
  clients,     \* the clients of the hub
  watching,    \* clients that subscribed to the repository
  closed,      \* clients whose queue was closed
  queue,       \* queue[c]: messages for c
  reader,      \* reader[c]: where HandleWebSocket, then readPump, of c is
  writer,      \* clients whose writePump runs
  open,        \* clients whose connection is open
  hub,         \* what Run does: [at, of, drop]
  caller,      \* caller[k]: what BroadcastToRepo does, likewise, and "done"
  broadcast,   \* messages in the hub's queue
  sent, pings, \* broadcasts to everybody and pings so far
  panic        \* who sent on a closed queue, or "none"

members == <<clients, closed>>
pumps == <<watching, reader, writer, open, pings>>
calls == <<broadcast, sent>>
hubVars == <<members, pumps, calls, queue, hub, caller, panic>>

Idle == [at |-> "select", of |-> {}, drop |-> {}]
Done == [Idle EXCEPT !.at = "done"]

HubInit ==
  /\ clients = {} /\ closed = {} /\ watching = {} /\ writer = {} /\ open = {}
  /\ reader = [c \in Client |-> "none"] /\ queue = [c \in Client |-> 0]
  /\ hub = Idle /\ caller = [k \in Caller |-> Idle]
  /\ broadcast = 0 /\ sent = 0 /\ pings = 0 /\ panic = "none"

\* Nobody holds the hub's lock for reading, so that it can be had for writing.
NoReaders == hub.at # "send" /\ \A k \in Caller : caller[k].at # "send"

\* Mutant of Offer: whoever sends waits for a place in the queue.
OfferWaiting(c, who) ==
  /\ c \in closed \/ queue[c] < Cap
  /\ panic' = IF c \in closed THEN who ELSE panic
  /\ queue' = [queue EXCEPT ![c] = @ + 1]

\* A send that does not wait for a place in the queue.
Offer(c, who) ==
  /\ panic' = IF c \in closed THEN who ELSE panic
  /\ queue' = [queue EXCEPT ![c] = IF @ < Cap THEN @ + 1 ELSE @]

\* The client is done with; one whose queue was full is to be dropped.
Offered(p, c) == [p EXCEPT !.of = @ \ {c}, !.drop = IF queue[c] < Cap THEN @ ELSE @ \cup {c}]
AllOffered(p, next) == IF p.drop = {} THEN next ELSE [p EXCEPT !.at = "drop"]

\* Removing clients from the hub and closing their queues, under the lock.
Drop(S) ==
  /\ NoReaders
  /\ clients' = clients \ S
  /\ closed' = closed \cup (S \cap clients)
-----------------------------------------------------------------------------
\* HandleWebSocket upgrades the connection and offers the client to the hub.
Connect(c) ==
  /\ reader[c] = "none"
  /\ reader' = [reader EXCEPT ![c] = "register"] /\ open' = open \cup {c}
  /\ UNCHANGED <<members, watching, writer, pings, calls, queue, hub, caller, panic>>

\* Run takes it; its pumps start while Run still waits for the lock ...
TakeRegister(c) ==
  /\ hub.at = "select" /\ reader[c] = "register"
  /\ hub' = [hub EXCEPT !.at = "add", !.of = {c}]
  /\ reader' = [reader EXCEPT ![c] = "read"] /\ writer' = writer \cup {c}
  /\ UNCHANGED <<members, watching, open, pings, calls, queue, caller, panic>>

\* ... and adds it.
AddClient ==
  /\ hub.at = "add" /\ NoReaders
  /\ clients' = clients \cup hub.of /\ hub' = Idle
  /\ UNCHANGED <<closed, pumps, calls, queue, caller, panic>>

\* Run takes a client that leaves, whose readPump then closes the connection ...
TakeUnregister(c) ==
  /\ hub.at = "select" /\ reader[c] = "leave"
  /\ hub' = [hub EXCEPT !.at = "remove", !.of = {c}]
  /\ reader' = [reader EXCEPT ![c] = "done"] /\ open' = open \ {c}
  /\ UNCHANGED <<members, watching, writer, pings, calls, queue, caller, panic>>

\* Mutant of RemoveClient: the lock is not waited for.
RemoveAtOnce ==
  /\ hub.at = "remove"
  /\ clients' = clients \ hub.of
  /\ closed' = closed \cup (hub.of \cap clients)
  /\ hub' = Idle
  /\ UNCHANGED <<pumps, calls, queue, caller, panic>>

\* ... and removes it, unless it was dropped before.
RemoveClient ==
  /\ hub.at = "remove"
  /\ Drop(hub.of) /\ hub' = Idle
  /\ UNCHANGED <<pumps, calls, queue, caller, panic>>

\* Run takes a message for everybody, under the lock for reading.
TakeBroadcast ==
  /\ hub.at = "select" /\ broadcast > 0
  /\ broadcast' = broadcast - 1
  /\ hub' = [at |-> "send", of |-> clients, drop |-> {}]
  /\ UNCHANGED <<members, pumps, sent, queue, caller, panic>>

HubSend(c) ==
  /\ hub.at = "send" /\ c \in hub.of
  /\ Offer(c, "hub") /\ hub' = Offered(hub, c)
  /\ UNCHANGED <<members, pumps, calls, caller>>

HubSent ==
  /\ hub.at = "send" /\ hub.of = {}
  /\ hub' = AllOffered(hub, Idle)
  /\ UNCHANGED <<members, pumps, calls, queue, caller, panic>>

HubDrop ==
  /\ hub.at = "drop"
  /\ Drop(hub.drop) /\ hub' = Idle
  /\ UNCHANGED <<pumps, calls, queue, caller, panic>>
-----------------------------------------------------------------------------
\* BroadcastAll waits for a place in the hub's queue.
BroadcastAll ==
  /\ sent < MaxMessages /\ broadcast < HubCap
  /\ sent' = sent + 1 /\ broadcast' = broadcast + 1
  /\ UNCHANGED <<members, pumps, queue, hub, caller, panic>>

\* BroadcastToRepo goes through the clients on the caller's own goroutine.
BroadcastToRepo(k) ==
  /\ caller[k] = Idle
  /\ caller' = [caller EXCEPT ![k] = [at |-> "send", of |-> clients, drop |-> {}]]
  /\ UNCHANGED <<members, pumps, calls, queue, hub, panic>>

CallerSend(k, c) ==
  /\ caller[k].at = "send" /\ c \in caller[k].of
  /\ IF c \in watching
     THEN Offer(c, "caller") /\ caller' = [caller EXCEPT ![k] = Offered(@, c)]
     ELSE caller' = [caller EXCEPT ![k].of = @ \ {c}] /\ UNCHANGED <<queue, panic>>
  /\ UNCHANGED <<members, pumps, calls, hub>>

CallerSent(k) ==
  /\ caller[k].at = "send" /\ caller[k].of = {}
  /\ caller' = [caller EXCEPT ![k] = AllOffered(@, Done)]
  /\ UNCHANGED <<members, pumps, calls, queue, hub, panic>>

CallerDrop(k) ==
  /\ caller[k].at = "drop"
  /\ Drop(caller[k].drop) /\ caller' = [caller EXCEPT ![k] = Done]
  /\ UNCHANGED <<pumps, calls, queue, hub, panic>>
-----------------------------------------------------------------------------
\* handleMessage: subscribe and unsubscribe.
Subscribe(c, on) ==
  /\ reader[c] = "read" /\ c \in open
  /\ watching' = IF on THEN watching \cup {c} ELSE watching \ {c}
  /\ UNCHANGED <<members, reader, writer, open, pings, calls, queue, hub, caller, panic>>

\* handleMessage: a ping is answered on the client's queue, ...
Ping(c) ==
  /\ reader[c] = "read" /\ c \in open /\ pings < MaxPings
  /\ pings' = pings + 1 /\ reader' = [reader EXCEPT ![c] = "pong"]
  /\ UNCHANGED <<members, watching, writer, open, calls, queue, hub, caller, panic>>

\* ... whether it is open or not, once there is a place.
Pong(c) ==
  /\ reader[c] = "pong" /\ (c \in closed \/ queue[c] < Cap)
  /\ Offer(c, "ping") /\ reader' = [reader EXCEPT ![c] = "read"]
  /\ UNCHANGED <<members, watching, writer, open, pings, calls, hub, caller>>

\* readPump cannot read: the connection is closed, broken or silent.
ReadFails(c) ==
  /\ reader[c] = "read"
  /\ reader' = [reader EXCEPT ![c] = "leave"]
  /\ UNCHANGED <<members, watching, writer, open, pings, calls, queue, hub, caller, panic>>

\* writePump writes a message, ...
Write(c) ==
  /\ c \in writer /\ queue[c] > 0
  /\ queue' = [queue EXCEPT ![c] = @ - 1]
  /\ UNCHANGED <<members, pumps, calls, hub, caller, panic>>

\* ... and ends when it cannot, or when the queue is closed and empty.
WriteEnds(c) ==
  /\ c \in writer
  /\ writer' = writer \ {c} /\ open' = open \ {c}
  /\ UNCHANGED <<members, watching, reader, pings, calls, queue, hub, caller, panic>>

RunNext ==
  \/ AddClient \/ RemoveClient \/ TakeBroadcast \/ HubSent \/ HubDrop
  \/ \E c \in Client : TakeRegister(c) \/ TakeUnregister(c) \/ HubSend(c)

CallNext(k) == CallerSent(k) \/ CallerDrop(k) \/ \E c \in Client : CallerSend(k, c)

HubNext ==
  /\ panic = "none"
  /\ \/ RunNext \/ BroadcastAll
     \/ \E k \in Caller : BroadcastToRepo(k) \/ CallNext(k)
     \/ \E c \in Client :
          \/ Connect(c) \/ Ping(c) \/ Pong(c) \/ ReadFails(c) \/ Write(c) \/ WriteEnds(c)
          \/ \E on \in BOOLEAN : Subscribe(c, on)

HubFairness ==
  /\ SF_hubVars(panic = "none" /\ RunNext)
  /\ \A k \in Caller : SF_hubVars(panic = "none" /\ CallNext(k))

HubSpec == HubInit /\ [][HubNext]_hubVars /\ HubFairness
-----------------------------------------------------------------------------
\* Whoever goes through the clients sends on no closed queue, whatever joins,
\* leaves and is dropped meanwhile; the answer to a ping may.
BroadcastsSafe == panic \in {"none", "ping"}

Waits(c) == reader[c] \in {"register", "leave"} \/ (reader[c] = "done" /\ c \in clients)

\* Neither a slow client nor one that is gone keeps the hub from those that come
\* and go and from the messages in its queue: nothing waits for it for ever.
HubServes == []<>(panic # "none" \/ (broadcast = 0 /\ \A c \in Client : ~Waits(c)))
=============================================================================
