------------------------------- MODULE Objects -------------------------------
(***************************************************************************)
(* Git objects between daemons (internal/network: node.go, blocks.go,      *)
(* sync.go; internal/api/sync_bridge.go and Server.SetNetwork).  A push is *)
(* announced in the DHT and gossiped as an event; a subscriber handles one *)
(* event after another and, while the handler of the sync coordinator is   *)
(* in place, asks the pushing daemon for the objects it lacks, all at once *)
(* or, failing that, one by one.                                           *)
(***************************************************************************)
EXTENDS Integers, Sequences, FiniteSets, SequencesExt

CONSTANTS
  Peer,        \* the daemons
  Object,      \* hashes of git objects
  Empty,       \* those of no content: Read answers EOF, so GetObject has an error
  MaxRecent,   \* maxRemoteEvents
  MaxPushes,   \* bound: pushes
  MaxFaults    \* bound: events lost, requests and stores that fail, crashes

VARIABLES
  stored,     \* stored[d]: the objects in the repository of daemon d
  provided,   \* pairs <<d, o>>: the DHT names d as a provider of o
  pinned,     \* pinned[d]: the objects d has pinned, in memory only
  handler,    \* handler[d]: what SetFederatedEventHandler has set: "none", "sync", "ws"
  recent,     \* recent[d]: remoteEvents
  wire,       \* events on their way: [to, event]
  task,       \* task[d]: what the subscriber of d is at
  publishing, \* pushes whose events and announcements are not over: [id, at, left]
  pushes, faults,
  arrived,    \* arrived[d]: the events that came since the start of d (history)
  done        \* events handled without an error: <<d, event>> (history)

objectVars == <<stored, provided, pinned, handler, recent, wire, task, publishing,
                pushes, faults, arrived, done>>
quiet == <<pushes, faults>>

\* left are the objects to ask for, or to pin; got those asked for, with the answer.
Idle == [stage |-> "idle", event |-> [id |-> 0, from |-> "nobody", hashes |-> {}],
         left |-> {}, got |-> {}, failed |-> FALSE]

ObjectsInit ==
  /\ stored = [d \in Peer |-> {}] /\ provided = {} /\ pinned = [d \in Peer |-> {}]
  /\ handler = [d \in Peer |-> "none"]
  /\ recent = [d \in Peer |-> <<>>] /\ arrived = [d \in Peer |-> <<>>]
  /\ wire = {} /\ task = [d \in Peer |-> Idle] /\ publishing = {}
  /\ pushes = 0 /\ faults = 0 /\ done = {}

Fails == faults < MaxFaults /\ faults' = faults + 1
Now(d, changes) == task' = [task EXCEPT ![d] = changes]
-----------------------------------------------------------------------------
\* Server.SetNetwork: NewSyncCoordinator sets the handler that replicates ...
NewSyncCoordinator(d) ==
  /\ handler[d] = "none"
  /\ handler' = [handler EXCEPT ![d] = "sync"]
  /\ UNCHANGED <<stored, provided, pinned, recent, wire, task, publishing, quiet, arrived, done>>

\* ... and SetNetwork the one that tells the websocket clients, in its place.
SetNetwork(d) ==
  /\ handler[d] = "sync"
  /\ handler' = [handler EXCEPT ![d] = "ws"]
  /\ UNCHANGED <<stored, provided, pinned, recent, wire, task, publishing, quiet, arrived, done>>

\* A push to d: the objects are stored, and the event hook is called.
Push(d, objects) ==
  /\ handler[d] = "ws" /\ pushes < MaxPushes /\ pushes' = pushes + 1
  /\ stored' = [stored EXCEPT ![d] = @ \cup objects]
  /\ publishing' = publishing \cup
       {[event |-> [id |-> pushes', from |-> d, hashes |-> objects],
         at |-> "event", left |-> objects]}
  /\ UNCHANGED <<provided, pinned, handler, recent, wire, task, faults, arrived, done>>

\* Node.PublishRepoEvent, on the topic that daemons subscribe to; they drop what
\* is their own.
PublishRepoEvent(p) ==
  /\ p.at = "event"
  /\ wire' = wire \cup {[to |-> d, event |-> p.event] : d \in Peer \ {p.event.from}}
  /\ publishing' = (publishing \ {p}) \cup {[p EXCEPT !.at = "announce"]}
  /\ UNCHANGED <<stored, provided, pinned, handler, recent, task, quiet, arrived, done>>

\* SyncCoordinator.pinLocalObject; the store reads back what it has.
PinLocalObject(d, o) ==
  pinned' = [pinned EXCEPT ![d] = IF o \in stored[d] \ Empty THEN @ \cup {o} ELSE @]

\* AnnouncePushObjects: the objects in turn, in the DHT and to the pinner.
AnnouncePushObjects(p, o) ==
  /\ p.at = "announce" /\ o \in p.left
  /\ provided' = provided \cup {<<p.event.from, o>>}
  /\ PinLocalObject(p.event.from, o)
  /\ publishing' = (publishing \ {p}) \cup
       IF p.left = {o} THEN {} ELSE {[p EXCEPT !.left = @ \ {o}]}
  /\ UNCHANGED <<stored, handler, recent, wire, task, quiet, arrived, done>>
-----------------------------------------------------------------------------
\* Mutant of Kept: the window keeps the oldest events.
KeptFirst(events) == IF Len(events) > MaxRecent THEN SubSeq(events, 1, MaxRecent) ELSE events

\* The last maxRemoteEvents events, once there are more.
Kept(events) == LET n == Len(events) IN
  IF n > MaxRecent THEN SubSeq(events, n - MaxRecent + 1, n) ELSE events

\* startEventSubscriber: the next event, in whatever order they come, and what
\* handleFederatedEvent lacks of it (HasObject).
Receive(d, m) ==
  /\ m \in wire /\ m.to = d /\ task[d].stage = "idle"
  /\ wire' = wire \ {m}
  /\ recent' = [recent EXCEPT ![d] = Kept(Append(@, m.event))]
  /\ arrived' = [arrived EXCEPT ![d] = Append(@, m.event)]
  /\ IF handler[d] = "sync"
     THEN LET needed == m.event.hashes \ stored[d] IN
          Now(d, [stage |-> IF needed = {} THEN "pin" ELSE "batch", event |-> m.event,
                  left |-> IF needed = {} THEN m.event.hashes ELSE needed, got |-> {},
                  failed |-> FALSE])
     ELSE task' = task
  /\ UNCHANGED <<stored, provided, pinned, handler, publishing, quiet, done>>

Lose(m) ==
  /\ m \in wire /\ Fails
  /\ wire' = wire \ {m}
  /\ UNCHANGED <<stored, provided, pinned, handler, recent, task, publishing, pushes, arrived,
                 done>>

\* Repository.GetObject, behind the block protocols: one Read of the content.
GetObject(d, o) == IF o \in stored[d] \ Empty THEN "whole" ELSE "missing"

\* repoObjectStore.PutObject and Repository.StoreObject, which files the content
\* under the hash it has.
PutObject(d, o) == stored' = [stored EXCEPT ![d] = @ \cup {o}]

\* After the last result, the objects of the event are pinned.
Advance(d, got, failed) ==
  LET t == [task[d] EXCEPT !.got = got, !.failed = failed] IN
  Now(d, IF got = {} THEN [t EXCEPT !.stage = "pin", !.left = t.event.hashes] ELSE t)

\* FetchObjects: the batch protocol answers ...
FetchObjects(d) ==
  /\ task[d].stage = "batch"
  /\ LET t == task[d] IN
     Now(d, [t EXCEPT !.stage = "store", !.left = {},
                      !.got = {<<o, GetObject(t.event.from, o)>> : o \in t.left}])
  /\ UNCHANGED <<stored, provided, pinned, handler, recent, wire, publishing, quiet, arrived,
                 done>>

\* ... or the request fails, and each object is asked for by itself ...
FallBack(d) ==
  /\ task[d].stage = "batch" /\ Fails
  /\ Now(d, [task[d] EXCEPT !.stage = "single"])
  /\ UNCHANGED <<stored, provided, pinned, handler, recent, wire, publishing, pushes, arrived,
                 done>>

\* ... by FetchObject.
FetchObject(d, o, ok) ==
  /\ task[d].stage = "single" /\ o \in task[d].left
  /\ IF ok THEN faults' = faults ELSE Fails
  /\ LET had == IF ok THEN GetObject(task[d].event.from, o) ELSE "missing"
     IN Now(d, [task[d] EXCEPT !.left = @ \ {o}, !.got = @ \cup {<<o, had>>},
                               !.stage = IF task[d].left = {o} THEN "store" ELSE "single"])
  /\ UNCHANGED <<stored, provided, pinned, handler, recent, wire, publishing, pushes, arrived,
                 done>>

\* Mutant of SyncObjects: what could not be had is announced with the rest.
SyncObjectsAll(d, r, ok) ==
  /\ task[d].stage = "store" /\ r \in task[d].got
  /\ IF ok THEN faults' = faults ELSE r[2] = "whole" /\ Fails
  /\ LET had == ok /\ r[2] = "whole" IN
     /\ IF had THEN PutObject(d, r[1]) ELSE stored' = stored
     /\ provided' = provided \cup {<<d, r[1]>>}
     /\ Advance(d, task[d].got \ {r}, task[d].failed \/ ~had)
  /\ UNCHANGED <<pinned, handler, recent, wire, publishing, pushes, arrived, done>>

\* Mutant of SyncObjects: an object that cannot be stored is no error.
SyncObjectsSilent(d, r, ok) ==
  /\ task[d].stage = "store" /\ r \in task[d].got
  /\ IF ok THEN faults' = faults ELSE r[2] = "whole" /\ Fails
  /\ LET had == ok /\ r[2] = "whole" IN
     /\ IF had THEN PutObject(d, r[1]) /\ provided' = provided \cup {<<d, r[1]>>}
        ELSE UNCHANGED <<stored, provided>>
     /\ Advance(d, task[d].got \ {r}, task[d].failed \/ r[2] = "missing")
  /\ UNCHANGED <<pinned, handler, recent, wire, publishing, pushes, arrived, done>>

\* SyncObjects with one result: it is stored and announced, unless that fails.
SyncObjects(d, r, ok) ==
  /\ task[d].stage = "store" /\ r \in task[d].got
  /\ IF ok THEN faults' = faults ELSE r[2] = "whole" /\ Fails
  /\ LET had == ok /\ r[2] = "whole" IN
     /\ IF had THEN PutObject(d, r[1]) /\ provided' = provided \cup {<<d, r[1]>>}
        ELSE UNCHANGED <<stored, provided>>
     /\ Advance(d, task[d].got \ {r}, task[d].failed \/ ~had)
  /\ UNCHANGED <<pinned, handler, recent, wire, publishing, pushes, arrived, done>>

\* Mutant of PinFetched: an object that is not there is waited for.
PinFetchedHeld(d, o) ==
  /\ task[d].stage = "pin" /\ o \in task[d].left /\ o \in stored[d]
  /\ PinLocalObject(d, o)
  /\ IF task[d].left = {o}
     THEN /\ Now(d, Idle)
          /\ done' = IF task[d].failed THEN done ELSE done \cup {<<d, task[d].event>>}
     ELSE Now(d, [task[d] EXCEPT !.left = @ \ {o}]) /\ done' = done
  /\ UNCHANGED <<stored, provided, handler, recent, wire, publishing, quiet, arrived>>

\* handleFederatedEvent pins what it now has, and the event is done with.
PinFetched(d, o) ==
  /\ task[d].stage = "pin" /\ o \in task[d].left
  /\ PinLocalObject(d, o)
  /\ IF task[d].left = {o}
     THEN /\ Now(d, Idle)
          /\ done' = IF task[d].failed THEN done ELSE done \cup {<<d, task[d].event>>}
     ELSE Now(d, [task[d] EXCEPT !.left = @ \ {o}]) /\ done' = done
  /\ UNCHANGED <<stored, provided, handler, recent, wire, publishing, quiet, arrived>>

\* A crash, and the start of the daemon up to SetNetwork.
Crash(d) ==
  /\ Fails
  /\ handler' = [handler EXCEPT ![d] = "none"]
  /\ pinned' = [pinned EXCEPT ![d] = {}]
  /\ recent' = [recent EXCEPT ![d] = <<>>] /\ arrived' = [arrived EXCEPT ![d] = <<>>]
  /\ Now(d, Idle)
  /\ wire' = {m \in wire : m.to # d}
  /\ publishing' = {p \in publishing : p.event.from # d}
  /\ UNCHANGED <<stored, provided, pushes, done>>

\* One step of what handleFederatedEvent does.
Handle(d) ==
  \/ FetchObjects(d) \/ FallBack(d)
  \/ \E o \in Object, ok \in BOOLEAN : FetchObject(d, o, ok)
  \/ \E r \in task[d].got, ok \in BOOLEAN : SyncObjects(d, r, ok)
  \/ \E o \in Object : PinFetched(d, o)

ObjectsNext ==
  \/ \E d \in Peer :
       \/ NewSyncCoordinator(d) \/ SetNetwork(d) \/ Handle(d) \/ Crash(d)
       \/ \E objects \in SUBSET Object \ {{}} : Push(d, objects)
       \/ \E m \in wire : Receive(d, m)
  \/ \E p \in publishing : PublishRepoEvent(p) \/ \E o \in Object : AnnouncePushObjects(p, o)
  \/ \E m \in wire : Lose(m)

\* A daemon that was asked answers, or the connection ends: blocks.go sets no
\* deadline on the answer itself.
ObjectsFairness == \A d \in Peer : WF_objectVars(Handle(d))

ObjectsSpec == ObjectsInit /\ [][ObjectsNext]_objectVars /\ ObjectsFairness
-----------------------------------------------------------------------------
\* Whom the DHT names as a provider, and what a daemon has pinned, is in its
\* repository, through failed fetches, failed stores and crashes.
ProvidersHold ==
  /\ \A pair \in provided : pair[2] \in stored[pair[1]]
  /\ \A d \in Peer : pinned[d] \subseteq stored[d]

\* When SyncObjects reports no error, the daemon has every object of the push.
SyncedWhole == \A pair \in done : pair[2].hashes \subseteq stored[pair[1]]

\* remoteEvents is the end of what has come since the daemon started.
RecentTrue ==
  \A d \in Peer :
    /\ IsSuffix(recent[d], arrived[d])
    /\ Len(recent[d]) = IF Len(arrived[d]) < MaxRecent THEN Len(arrived[d]) ELSE MaxRecent

\* The subscriber gets through every event, so it can take the next one.
SubscriberReturns == \A d \in Peer : task[d].stage # "idle" ~> task[d].stage = "idle"
=============================================================================
