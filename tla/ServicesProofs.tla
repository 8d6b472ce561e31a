--------------------------- MODULE ServicesProofs ---------------------------
(***************************************************************************)
(* Proofs about the services: what the parts of Services promise holds for *)
(* every value of the constants.  A step of the whole is a step of a part  *)
(* or leaves it alone, so each part has an inductive invariant of its own. *)
(***************************************************************************)
EXTENDS Services, SequenceTheorems, TLAPS

(***************************************************************************)
(* The hub.  Who goes through the clients holds the lock for reading, and  *)
(* a queue is closed under the lock for writing and by whoever takes its   *)
(* client out of the hub, where it does not come again.                    *)
(***************************************************************************)
Readers == {"none", "register", "read", "pong", "leave", "done"}
Walk(stages) == [at : stages, of : SUBSET Client, drop : SUBSET Client]

HubTypes ==
  /\ clients \subseteq Client /\ closed \subseteq Client
  /\ reader \in [Client -> Readers]
  /\ hub \in Walk({"select", "add", "remove", "send", "drop"})
  /\ caller \in [Caller -> Walk({"select", "send", "drop", "done"})]

\* Clients the hub has or had were taken by Run.
Joined(C) == \A c \in C : reader[c] \notin {"none", "register"}

HubSound ==
  /\ clients \cap closed = {} /\ Joined(clients \cup closed)
  /\ hub.at = "send" => hub.of \subseteq clients
  /\ hub.at = "add" => Joined(hub.of) /\ hub.of \cap (clients \cup closed) = {}
  /\ \A k \in Caller : caller[k].at = "send" => caller[k].of \subseteq clients

HubInv == Hub!BroadcastsSafe /\ HubTypes /\ HubSound

LEMMA HubStep == HubInv /\ Hub!HubNext => HubInv'
<1> SUFFICES ASSUME HubInv, Hub!HubNext PROVE HubInv'
  OBVIOUS
<1> USE DEF HubInv, HubTypes, HubSound, Hub!BroadcastsSafe, Joined, Readers, Walk, Hub!members,
          Hub!pumps, Hub!calls, Hub!Idle
<1>1. CASE Hub!RunNext
  <2>1. ASSUME NEW c \in Client, Hub!TakeRegister(c) PROVE HubInv'
    BY <2>1, ZenonT(60) DEF Hub!TakeRegister
  <2>2. ASSUME NEW c \in Client, Hub!TakeUnregister(c) PROVE HubInv'
    BY <2>2 DEF Hub!TakeUnregister
  <2>3. ASSUME NEW c \in Client, Hub!HubSend(c) PROVE HubInv'
    BY <2>3 DEF Hub!HubSend, Hub!Offer, Hub!Offered
  <2>4. CASE Hub!AddClient
    BY <2>4 DEF Hub!AddClient, Hub!NoReaders
  <2>5. CASE Hub!RemoveClient
    BY <2>5 DEF Hub!RemoveClient, Hub!Drop, Hub!NoReaders
  <2>6. CASE Hub!TakeBroadcast
    BY <2>6 DEF Hub!TakeBroadcast
  <2>7. CASE Hub!HubSent
    BY <2>7 DEF Hub!HubSent, Hub!AllOffered
  <2>8. CASE Hub!HubDrop
    BY <2>8 DEF Hub!HubDrop, Hub!Drop, Hub!NoReaders
  <2> QED
    BY <1>1, <2>1, <2>2, <2>3, <2>4, <2>5, <2>6, <2>7, <2>8 DEF Hub!RunNext
<1>2. CASE Hub!BroadcastAll
  BY <1>2 DEF Hub!BroadcastAll
<1>3. ASSUME NEW k \in Caller, Hub!BroadcastToRepo(k) \/ Hub!CallNext(k) PROVE HubInv'
  <2>1. CASE Hub!BroadcastToRepo(k)
    BY <2>1 DEF Hub!BroadcastToRepo
  <2>2. CASE Hub!CallerSent(k)
    BY <2>2 DEF Hub!CallerSent, Hub!AllOffered, Hub!Done
  <2>3. CASE Hub!CallerDrop(k)
    BY <2>3 DEF Hub!CallerDrop, Hub!Drop, Hub!NoReaders, Hub!Done
  <2>4. ASSUME NEW c \in Client, Hub!CallerSend(k, c) PROVE HubInv'
    <3>1. c \in clients
      BY <2>4 DEF Hub!CallerSend
    <3>2. /\ caller[k].at = "send" /\ caller' = [caller EXCEPT ![k] = caller'[k]]
          /\ caller'[k] \in Walk({"send"}) /\ caller'[k].of \subseteq caller[k].of
      <4>1. CASE c \in watching
        <5>1. caller' = [caller EXCEPT ![k] = Hub!Offered(caller[k], c)]
          BY <2>4, <4>1 DEF Hub!CallerSend
        <5>2. caller[k].at = "send"
          BY <2>4 DEF Hub!CallerSend
        <5>3. ASSUME NEW p \in Walk({"send"})
              PROVE  Hub!Offered(p, c) \in Walk({"send"}) /\ Hub!Offered(p, c).of \subseteq p.of
          BY DEF Hub!Offered
        <5>4. caller[k] \in Walk({"send"})
          BY <5>2
        <5> QED
          BY <5>1, <5>2, <5>3, <5>4
      <4>2. CASE c \notin watching
        BY <2>4, <4>2 DEF Hub!CallerSend
      <4> QED
        BY <4>1, <4>2
    <3>3. panic' = panic
      BY <2>4, <3>1 DEF Hub!CallerSend, Hub!Offer
    <3>4. UNCHANGED <<clients, closed, reader, hub>>
      BY <2>4 DEF Hub!CallerSend
    <3>5. caller' \in [Caller -> Walk({"select", "send", "drop", "done"})]
      BY <3>2
    <3>6. \A j \in Caller : caller'[j].at = "send" => caller'[j].of \subseteq clients
      BY <3>2
    <3> QED
      BY <3>3, <3>4, <3>5, <3>6
  <2> QED
    BY <1>3, <2>1, <2>2, <2>3, <2>4 DEF Hub!CallNext
<1>4. ASSUME NEW c \in Client,
             \/ Hub!Connect(c) \/ Hub!Ping(c) \/ Hub!Pong(c) \/ Hub!ReadFails(c)
             \/ Hub!Write(c) \/ Hub!WriteEnds(c) \/ \E on \in BOOLEAN : Hub!Subscribe(c, on)
      PROVE  HubInv'
  <2>1. CASE Hub!Connect(c)
    BY <2>1 DEF Hub!Connect
  <2>2. CASE Hub!Ping(c)
    BY <2>2 DEF Hub!Ping
  <2>3. CASE Hub!Pong(c)
    BY <2>3 DEF Hub!Pong, Hub!Offer
  <2>4. CASE Hub!ReadFails(c)
    BY <2>4 DEF Hub!ReadFails
  <2>5. CASE Hub!Write(c) \/ Hub!WriteEnds(c) \/ \E on \in BOOLEAN : Hub!Subscribe(c, on)
    BY <2>5 DEF Hub!Write, Hub!WriteEnds, Hub!Subscribe
  <2> QED
    BY <1>4, <2>1, <2>2, <2>3, <2>4, <2>5
<1> QED
  BY <1>1, <1>2, <1>3, <1>4 DEF Hub!HubNext

\* BroadcastAll, BroadcastToRepo and Run never send on a queue that was closed,
\* however many clients join, leave and are dropped while they go through them:
\* only the answer to a client's own ping may.
THEOREM NoSendOnClosed == PartsSpec => []BroadcastsSafe
<1>1. PartsInit => HubInv
  BY DEF PartsInit, Hub!HubInit, HubInv, HubTypes, HubSound, Hub!BroadcastsSafe, Joined, Readers,
         Walk, Hub!Idle
<1>2. HubInv /\ UNCHANGED hubVars => HubInv'
  BY DEF HubInv, HubTypes, HubSound, Hub!BroadcastsSafe, Joined, Readers, Walk, hubVars
<1>3. HubInv /\ [PartsNext]_partVars => HubInv'
  BY <1>2, HubStep DEF PartsNext, partVars
<1>4. HubInv => BroadcastsSafe
  BY DEF HubInv, BroadcastsSafe
<1> QED
  BY <1>1, <1>3, <1>4, PTL DEF PartsSpec

(***************************************************************************)
(* The runner.  A failure ends the run at once, a job is left only when    *)
(* its steps are over, and a shell that was killed was out of time when    *)
(* its step is finished.                                                   *)
(***************************************************************************)
RunTypes ==
  /\ at \in {"idle", "start", "jobs", "steps", "step", "end"}
  /\ jobs \subseteq Job /\ left \in Nat
  /\ child \in {"none", "attached", "detached"} /\ exit \in {"ok", "error", "killed"}

RunSound ==
  /\ status = "none" <=> at = "idle"
  /\ status = "success" => at = "end"
  /\ failed => at = "end"
  /\ at \in {"idle", "start", "jobs"} => left = 0
  /\ shell => at = "step"
  /\ at \in {"idle", "start", "jobs", "steps"} => exit = "ok"
  /\ at = "step" /\ exit = "killed" => ~shell /\ (stepOver \/ runOver)

RunInv == Runner!StatusTrue /\ RunTypes /\ RunSound

LEMMA RunStep == RunInv /\ Runner!RunNext => RunInv'
<1> SUFFICES ASSUME RunInv, Runner!RunNext PROVE RunInv'
  OBVIOUS
<1> USE DEF RunInv, RunTypes, RunSound, Runner!StatusTrue, Runner!processes, Runner!timers,
          Runner!End
<1>1. CASE Runner!Execute
  BY <1>1 DEF Runner!Execute
<1>2. CASE Runner!Begin
  BY <1>2 DEF Runner!Begin
<1>3. CASE Runner!FinishStep
  BY <1>3 DEF Runner!FinishStep, Runner!KillGroup
<1>4. CASE Runner!FinishJob
  BY <1>4 DEF Runner!FinishJob
<1>5. CASE Runner!Succeed
  BY <1>5 DEF Runner!Succeed
<1>6. ASSUME NEW j \in Job, Runner!NextJob(j) PROVE RunInv'
  <2>1. Steps[j] \in Nat
    BY StepsAssumption
  <2> QED
    BY <1>6, <2>1 DEF Runner!NextJob
<1>7. ASSUME NEW ok \in BOOLEAN, Runner!StartStep(ok) PROVE RunInv'
  BY <1>7 DEF Runner!StartStep
<1>8. ASSUME NEW how \in {"attached", "detached"}, Runner!Fork(how) PROVE RunInv'
  BY <1>8 DEF Runner!Fork
<1>9. ASSUME NEW how \in {"ok", "error"}, Runner!Exit(how) PROVE RunInv'
  BY <1>9 DEF Runner!Exit
<1>10. CASE Runner!ChildExits \/ Runner!RunTimeout \/ Runner!StepTimeout
  BY <1>10 DEF Runner!ChildExits, Runner!RunTimeout, Runner!StepTimeout
<1>11. CASE Runner!Kill
  BY <1>11 DEF Runner!Kill
<1> QED
  BY <1>1, <1>2, <1>3, <1>4, <1>5, <1>6, <1>7, <1>8, <1>9, <1>10, <1>11
     DEF Runner!RunNext, Runner!ExecuteWorkflow

\* A run of executeWorkflow is "success" only when every step of every job has
\* run and none has failed, whatever its time limits and its scripts do; and a
\* step that executeStep kills for its time leaves no process of its group.
THEOREM RunsTellTrue == PartsSpec => []StatusTrue
<1>1. PartsInit => RunInv
  BY DEF PartsInit, Runner!RunInit, RunInv, RunTypes, RunSound, Runner!StatusTrue
<1>2. RunInv /\ UNCHANGED runVars => RunInv'
  BY DEF RunInv, RunTypes, RunSound, Runner!StatusTrue, runVars
<1>3. RunInv /\ [PartsNext]_partVars => RunInv'
  BY <1>2, RunStep DEF PartsNext, partVars
<1>4. RunInv => StatusTrue
  BY DEF RunInv, StatusTrue
<1> QED
  BY <1>1, <1>3, <1>4, PTL DEF PartsSpec

(***************************************************************************)
(* The objects between daemons.  What is announced was pushed or stored,   *)
(* what a synchronisation without an error so far lacks is left to ask for *)
(* or among its answers, and the recent events are the end of all.         *)
(***************************************************************************)
Event == [id : Nat, from : Peer \cup {"nobody"}, hashes : SUBSET Object]
Got == Object \X {"whole", "missing"}
Task == [stage : {"idle", "batch", "single", "store", "pin"}, event : Event,
         left : SUBSET Object, got : SUBSET Got, failed : BOOLEAN]

ObjectTypes ==
  /\ stored \in [Peer -> SUBSET Object] /\ pinned \in [Peer -> SUBSET Object]
  /\ wire \subseteq [to : Peer, event : Event]
  /\ task \in [Peer -> Task]
  /\ publishing \subseteq [event : Event, at : {"event", "announce"}, left : SUBSET Object]
  /\ pushes \in Nat

PushesStored ==
  /\ provided \subseteq Peer \X Object
  /\ \A p \in publishing : p.event.from \in Peer /\ p.left \subseteq stored[p.event.from]

\* What is pushed is stored, or synchronisation t is still to ask for it or store it.
InSight(t, S) ==
  LET answers == {r[1] : r \in t.got} IN
  /\ t.stage = "batch" => t.event.hashes \subseteq S \cup t.left
  /\ t.stage = "single" => t.event.hashes \subseteq S \cup t.left \cup answers
  /\ t.stage = "store" => t.event.hashes \subseteq S \cup answers
  /\ t.stage = "pin" => t.event.hashes \subseteq S

SyncsWhole ==
  /\ done \subseteq Peer \X Event
  /\ \A d \in Peer : ~task[d].failed => InSight(task[d], stored[d])

\* The sequence r is the end of s, as much of it as the window holds.
Ends(r, s) ==
  /\ Len(r) = IF Len(s) < MaxRecent THEN Len(s) ELSE MaxRecent
  /\ \A i \in 1 .. Len(r) : r[i] = s[Len(s) - Len(r) + i]

Window ==
  /\ recent \in [Peer -> Seq(Event)] /\ arrived \in [Peer -> Seq(Event)]
  /\ \A d \in Peer : Ends(recent[d], arrived[d])

ObjectInv ==
  ObjectTypes /\ PushesStored /\ Objects!ProvidersHold /\ SyncsWhole /\ Objects!SyncedWhole
    /\ Window

\* Appending to both and cutting the window at its front keeps it the end.
LEMMA WindowMoves ==
  ASSUME NEW S, NEW r \in Seq(S), NEW s \in Seq(S), NEW e \in S, Ends(r, s)
  PROVE  /\ Objects!Kept(Append(r, e)) \in Seq(S)
         /\ Ends(Objects!Kept(Append(r, e)), Append(s, e))
<1> DEFINE n == Len(s)
           k == Len(r)
           rr == Append(r, e)
           ss == Append(s, e)
<1>1. n \in Nat /\ k \in Nat /\ MaxRecent \in Nat /\ MaxRecent > 0
  BY RecentAssumption
<1>2. /\ rr \in Seq(S) /\ Len(rr) = k + 1 /\ ss \in Seq(S) /\ Len(ss) = n + 1
      /\ \A i \in 1 .. k : rr[i] = r[i]
      /\ \A i \in 1 .. n : ss[i] = s[i]
      /\ rr[k + 1] = e /\ ss[n + 1] = e
  OBVIOUS
<1>3. /\ k = IF n < MaxRecent THEN n ELSE MaxRecent
      /\ \A i \in 1 .. k : r[i] = s[n - k + i]
  BY DEF Ends
<1> HIDE DEF n, k, rr, ss
<1>4. Objects!Kept(rr) = IF k + 1 > MaxRecent THEN SubSeq(rr, (k + 1) - MaxRecent + 1, k + 1) ELSE rr
  <2>1. Objects!Kept(rr) =
          IF Len(rr) > MaxRecent THEN SubSeq(rr, Len(rr) - MaxRecent + 1, Len(rr)) ELSE rr
    BY DEF Objects!Kept
  <2>2. Len(rr) = k + 1
    BY <1>2
  <2> QED
    BY <2>1, <2>2
<1>5. CASE k < MaxRecent
  <2>1. Objects!Kept(rr) = rr /\ k = n
    BY <1>1, <1>3, <1>4, <1>5
  <2>2. \A i \in 1 .. k + 1 : rr[i] = ss[i]
    <3> SUFFICES ASSUME NEW i \in 1 .. k + 1 PROVE rr[i] = ss[i]
      OBVIOUS
    <3>1. CASE i = k + 1
      BY <1>2, <2>1, <3>1
    <3>2. CASE i \in 1 .. k
      <4>1. n - k + i = i
        BY <1>1, <2>1, <3>2
      <4> QED
        BY <1>2, <1>3, <2>1, <3>2, <4>1
    <3> QED
      BY <1>1, <3>1, <3>2
  <2>3. \A i \in 1 .. k + 1 : n + 1 - (k + 1) + i = i
    BY <1>1, <2>1
  <2>4. k + 1 = IF n + 1 < MaxRecent THEN n + 1 ELSE MaxRecent
    BY <1>1, <1>3, <1>5, <2>1
  <2> QED
    BY <1>2, <2>1, <2>2, <2>3, <2>4 DEF Ends, rr, ss
<1>6. CASE k >= MaxRecent
  <2> DEFINE w == SubSeq(rr, 2, k + 1)
  <2>1. k = MaxRecent /\ n >= k /\ (k + 1) - MaxRecent + 1 = 2 /\ k + 1 > MaxRecent
    BY <1>1, <1>3, <1>6
  <2>2. Objects!Kept(rr) = w
    BY <1>4, <2>1
  <2>3. w \in Seq(S) /\ Len(w) = k /\ \A i \in 1 .. k : w[i] = rr[i + 1]
    BY <1>1, <1>2
  <2>4. \A i \in 1 .. k : rr[i + 1] = ss[n + 1 - k + i]
    <3> SUFFICES ASSUME NEW i \in 1 .. k PROVE rr[i + 1] = ss[n + 1 - k + i]
      OBVIOUS
    <3>1. CASE i = k
      <4>1. n + 1 - k + i = n + 1
        BY <1>1, <3>1
      <4> QED
        BY <1>2, <3>1, <4>1
    <3>2. CASE i < k
      <4>1. i + 1 \in 1 .. k /\ n - k + (i + 1) \in 1 .. n /\ n - k + (i + 1) = n + 1 - k + i
        BY <1>1, <2>1, <3>2
      <4> QED
        BY <1>2, <1>3, <4>1
    <3> QED
      BY <1>1, <3>1, <3>2
  <2>5. k = IF n + 1 < MaxRecent THEN n + 1 ELSE MaxRecent
    BY <1>1, <2>1
  <2> HIDE DEF w
  <2>6. \A i \in 1 .. Len(w) : w[i] = ss[Len(ss) - Len(w) + i]
    <3> SUFFICES ASSUME NEW i \in 1 .. Len(w) PROVE w[i] = ss[Len(ss) - Len(w) + i]
      OBVIOUS
    <3>1. i \in 1 .. k /\ Len(ss) - Len(w) + i = n + 1 - k + i
      BY <1>1, <1>2, <2>3
    <3> QED
      BY <2>3, <2>4, <3>1
  <2>7. Ends(w, ss)
    BY <1>2, <2>3, <2>5, <2>6 DEF Ends
  <2> QED
    BY <2>2, <2>3, <2>7 DEF rr, ss
<1> QED
  BY <1>1, <1>5, <1>6

LEMMA ObjectTypesStep == ObjectTypes /\ Objects!ObjectsNext => ObjectTypes'
<1> SUFFICES ASSUME ObjectTypes, Objects!ObjectsNext PROVE ObjectTypes'
  OBVIOUS
<1> USE DEF ObjectTypes, Objects!quiet
<1>1. ASSUME NEW d \in Peer, Objects!NewSyncCoordinator(d) \/ Objects!SetNetwork(d)
      PROVE  ObjectTypes'
  BY <1>1 DEF Objects!NewSyncCoordinator, Objects!SetNetwork
<1>2. ASSUME NEW d \in Peer, Objects!FetchObjects(d) PROVE ObjectTypes'
  <2>1. task[d] \in Task
    OBVIOUS
  <2>2. {<<o, Objects!GetObject(task[d].event.from, o)>> : o \in task[d].left} \subseteq Got
    BY <2>1 DEF Task, Got, Objects!GetObject
  <2>3. task'[d] \in Task /\ task' = [task EXCEPT ![d] = task'[d]]
    BY <1>2, <2>1, <2>2 DEF Objects!FetchObjects, Objects!Now, Task
  <2> QED
    BY <1>2, <2>3 DEF Objects!FetchObjects
<1>3. ASSUME NEW d \in Peer, Objects!FallBack(d) PROVE ObjectTypes'
  BY <1>3 DEF Objects!FallBack, Objects!Now, Task
<1>4. ASSUME NEW d \in Peer, NEW o \in Object, NEW ok \in BOOLEAN, Objects!FetchObject(d, o, ok)
      PROVE  ObjectTypes'
  <2>1. task[d] \in Task
    OBVIOUS
  <2>2. PICK had \in {"whole", "missing"} :
          task' = [task EXCEPT ![d] = [task[d] EXCEPT !.left = @ \ {o}, !.got = @ \cup {<<o, had>>},
                                !.stage = IF task[d].left = {o} THEN "store" ELSE "single"]]
    BY <1>4 DEF Objects!FetchObject, Objects!Now, Objects!GetObject
  <2>3. <<o, had>> \in Got
    BY DEF Got
  <2>4. task'[d] \in Task /\ task' = [task EXCEPT ![d] = task'[d]]
    BY <2>1, <2>2, <2>3 DEF Task
  <2> QED
    BY <1>4, <2>4 DEF Objects!FetchObject
<1>5. ASSUME NEW d \in Peer, NEW r \in task[d].got, NEW ok \in BOOLEAN,
             Objects!SyncObjects(d, r, ok)
      PROVE  ObjectTypes'
  <2>1. task[d] \in Task /\ r \in Got
    BY DEF Task
  <2>2. stored' \in [Peer -> SUBSET Object]
    BY <1>5, <2>1 DEF Objects!SyncObjects, Objects!PutObject, Got
  <2>3. PICK failing \in BOOLEAN : Objects!Advance(d, task[d].got \ {r}, failing)
    BY <1>5 DEF Objects!SyncObjects
  <2>4. task'[d] \in Task /\ task' = [task EXCEPT ![d] = task'[d]]
    BY <2>1, <2>3 DEF Objects!Advance, Objects!Now, Task, Event
  <2> QED
    BY <1>5, <2>2, <2>4 DEF Objects!SyncObjects
<1>6. ASSUME NEW d \in Peer, NEW o \in Object, Objects!PinFetched(d, o) PROVE ObjectTypes'
  <2>1. task[d] \in Task
    OBVIOUS
  <2>2. task'[d] \in Task /\ task' = [task EXCEPT ![d] = task'[d]]
    <3>1. Objects!Idle \in Task /\ [task[d] EXCEPT !.left = @ \ {o}] \in Task
      BY <2>1 DEF Objects!Idle, Task, Event
    <3> QED
      BY <1>6, <3>1 DEF Objects!PinFetched, Objects!Now
  <2> QED
    BY <1>6, <2>2 DEF Objects!PinFetched, Objects!PinLocalObject
<1>7. ASSUME NEW d \in Peer, Objects!Crash(d) PROVE ObjectTypes'
  <2>1. Objects!Idle \in Task
    BY DEF Objects!Idle, Task, Event
  <2> QED
    BY <1>7, <2>1 DEF Objects!Crash, Objects!Now
<1>8. ASSUME NEW d \in Peer, NEW objects \in SUBSET Object \ {{}}, Objects!Push(d, objects)
      PROVE  ObjectTypes'
  BY <1>8 DEF Objects!Push, Event
<1>9. ASSUME NEW d \in Peer, NEW m \in wire, Objects!Receive(d, m) PROVE ObjectTypes'
  <2>1. m.event \in Event
    OBVIOUS
  <2>2. CASE task' = task
    BY <1>9, <2>2 DEF Objects!Receive
  <2>3. CASE handler[d] = "sync"
    <3>1. task'[d] \in Task /\ task' = [task EXCEPT ![d] = task'[d]]
      <4>1. PICK stage \in {"pin", "batch"}, todo \in SUBSET Object :
              task' = [task EXCEPT ![d] = [stage |-> stage, event |-> m.event, left |-> todo,
                                           got |-> {}, failed |-> FALSE]]
        BY <1>9, <2>1, <2>3 DEF Objects!Receive, Objects!Now, Event
      <4>2. [stage |-> stage, event |-> m.event, left |-> todo, got |-> {}, failed |-> FALSE]
              \in Task
        BY <2>1 DEF Task
      <4> QED
        BY <4>1, <4>2
    <3> QED
      BY <1>9, <3>1 DEF Objects!Receive
  <2> QED
    BY <1>9, <2>2, <2>3 DEF Objects!Receive
<1>10. ASSUME NEW p \in publishing, Objects!PublishRepoEvent(p) PROVE ObjectTypes'
  <2>1. [p EXCEPT !.at = "announce"] \in
          [event : Event, at : {"event", "announce"}, left : SUBSET Object]
    OBVIOUS
  <2> QED
    BY <1>10, <2>1 DEF Objects!PublishRepoEvent
<1>11. ASSUME NEW p \in publishing, NEW o \in Object, Objects!AnnouncePushObjects(p, o)
       PROVE  ObjectTypes'
  <2>1. [p EXCEPT !.left = @ \ {o}] \in
          [event : Event, at : {"event", "announce"}, left : SUBSET Object]
    OBVIOUS
  <2> QED
    BY <1>11, <2>1 DEF Objects!AnnouncePushObjects, Objects!PinLocalObject
<1>12. ASSUME NEW m \in wire, Objects!Lose(m) PROVE ObjectTypes'
  BY <1>12 DEF Objects!Lose
<1> QED
  BY <1>1, <1>2, <1>3, <1>4, <1>5, <1>6, <1>7, <1>8, <1>9, <1>10, <1>11, <1>12
     DEF Objects!ObjectsNext, Objects!Handle

LEMMA StoredGrows ==
  ObjectTypes /\ Objects!ObjectsNext => \A d \in Peer : stored[d] \subseteq stored'[d]
<1> SUFFICES ASSUME ObjectTypes, Objects!ObjectsNext
             PROVE  \A d \in Peer : stored[d] \subseteq stored'[d]
  OBVIOUS
<1>1. ASSUME NEW d \in Peer, NEW r \in task[d].got, NEW ok \in BOOLEAN,
             Objects!SyncObjects(d, r, ok)
      PROVE  \A e \in Peer : stored[e] \subseteq stored'[e]
  BY <1>1 DEF ObjectTypes, Objects!SyncObjects, Objects!PutObject
<1>2. ASSUME NEW d \in Peer, NEW objects \in SUBSET Object \ {{}}, Objects!Push(d, objects)
      PROVE  \A e \in Peer : stored[e] \subseteq stored'[e]
  BY <1>2 DEF ObjectTypes, Objects!Push
<1>3. \/ \E d \in Peer : \E r \in task[d].got, ok \in BOOLEAN : Objects!SyncObjects(d, r, ok)
      \/ \E d \in Peer, objects \in SUBSET Object \ {{}} : Objects!Push(d, objects)
      \/ stored' = stored
  BY DEF Objects!ObjectsNext, Objects!Handle, Objects!NewSyncCoordinator, Objects!SetNetwork,
         Objects!FetchObjects, Objects!FallBack, Objects!FetchObject, Objects!PinFetched,
         Objects!Crash, Objects!Receive, Objects!PublishRepoEvent, Objects!AnnouncePushObjects,
         Objects!Lose
<1> QED
  BY <1>1, <1>2, <1>3

LEMMA HeldStep ==
  ObjectTypes /\ PushesStored /\ Objects!ProvidersHold /\ Objects!ObjectsNext
    => PushesStored' /\ Objects!ProvidersHold'
<1> SUFFICES ASSUME ObjectTypes, PushesStored, Objects!ProvidersHold, Objects!ObjectsNext
             PROVE  PushesStored' /\ Objects!ProvidersHold'
  OBVIOUS
<1>1. \A d \in Peer : stored[d] \subseteq stored'[d]
  BY StoredGrows
<1> USE DEF PushesStored, Objects!ProvidersHold
\* Once something is stored, what was held is held.
<1>2. /\ \A pair \in provided : pair[2] \in stored'[pair[1]]
      /\ \A d \in Peer : pinned[d] \subseteq stored'[d]
      /\ \A p \in publishing : p.left \subseteq stored'[p.event.from]
  BY <1>1
<1>3. ASSUME NEW d \in Peer, NEW r \in task[d].got, NEW ok \in BOOLEAN,
             Objects!SyncObjects(d, r, ok)
      PROVE  PushesStored' /\ Objects!ProvidersHold'
  <2>1. r[1] \in Object
    BY DEF ObjectTypes, Task, Got
  <2>2. \/ provided' = provided
        \/ provided' = provided \cup {<<d, r[1]>>} /\ r[1] \in stored'[d]
    BY <1>3 DEF Objects!SyncObjects, Objects!PutObject, ObjectTypes
  <2> QED
    BY <1>2, <1>3, <2>1, <2>2 DEF Objects!SyncObjects
<1>4. ASSUME NEW d \in Peer, NEW objects \in SUBSET Object \ {{}}, Objects!Push(d, objects)
      PROVE  PushesStored' /\ Objects!ProvidersHold'
  <2>1. objects \subseteq stored'[d]
    BY <1>4 DEF Objects!Push, ObjectTypes
  <2>2. PICK p : p.event.from = d /\ p.left = objects /\ publishing' = publishing \cup {p}
    BY <1>4 DEF Objects!Push
  <2> QED
    BY <1>2, <1>4, <2>1, <2>2 DEF Objects!Push
<1>5. ASSUME NEW p \in publishing, Objects!PublishRepoEvent(p)
      PROVE  PushesStored' /\ Objects!ProvidersHold'
  <2>1. /\ [p EXCEPT !.at = "announce"].event = p.event
        /\ [p EXCEPT !.at = "announce"].left = p.left
    BY DEF ObjectTypes
  <2> QED
    BY <1>5, <2>1 DEF Objects!PublishRepoEvent
<1>6. ASSUME NEW p \in publishing, NEW o \in Object, Objects!AnnouncePushObjects(p, o)
      PROVE  PushesStored' /\ Objects!ProvidersHold'
  <2>1. p.event.from \in Peer /\ o \in stored[p.event.from]
    BY <1>6 DEF Objects!AnnouncePushObjects
  <2>2. /\ [p EXCEPT !.left = @ \ {o}].event = p.event
        /\ [p EXCEPT !.left = @ \ {o}].left \subseteq p.left
    BY DEF ObjectTypes
  <2>3. PushesStored'
    <3>1. provided' \subseteq Peer \X Object
      BY <1>6, <2>1 DEF Objects!AnnouncePushObjects
    <3>2. /\ publishing' \subseteq publishing \cup {[p EXCEPT !.left = @ \ {o}]}
          /\ stored' = stored
      BY <1>6 DEF Objects!AnnouncePushObjects
    <3>3. \A q \in publishing' : q.event.from \in Peer /\ q.left \subseteq stored[q.event.from]
      BY <2>1, <2>2, <3>2
    <3> QED
      BY <3>1, <3>2, <3>3
  <2>4. Objects!ProvidersHold'
    BY <1>6, <2>1 DEF Objects!AnnouncePushObjects, Objects!PinLocalObject, ObjectTypes
  <2> QED
    BY <2>3, <2>4
<1>7. ASSUME NEW d \in Peer, NEW o \in Object, Objects!PinFetched(d, o)
      PROVE  PushesStored' /\ Objects!ProvidersHold'
  BY <1>7 DEF Objects!PinFetched, Objects!PinLocalObject, ObjectTypes
<1>8. ASSUME NEW d \in Peer, Objects!Crash(d)
      PROVE  PushesStored' /\ Objects!ProvidersHold'
  BY <1>8 DEF Objects!Crash, ObjectTypes
<1>9. \/ \E d \in Peer : \E r \in task[d].got, ok \in BOOLEAN : Objects!SyncObjects(d, r, ok)
      \/ \E d \in Peer, objects \in SUBSET Object \ {{}} : Objects!Push(d, objects)
      \/ \E p \in publishing :
           Objects!PublishRepoEvent(p) \/ \E o \in Object : Objects!AnnouncePushObjects(p, o)
      \/ \E d \in Peer : Objects!Crash(d) \/ \E o \in Object : Objects!PinFetched(d, o)
      \/ UNCHANGED <<stored, provided, pinned, publishing>>
  BY ZenonT(60) DEF Objects!ObjectsNext, Objects!Handle, Objects!NewSyncCoordinator, Objects!SetNetwork,
         Objects!FetchObjects, Objects!FallBack, Objects!FetchObject, Objects!Receive,
         Objects!Lose
<1> QED
  BY <1>3, <1>4, <1>5, <1>6, <1>7, <1>8, <1>9

LEMMA SyncsStep ==
  ObjectTypes /\ SyncsWhole /\ Objects!SyncedWhole /\ Objects!ObjectsNext
    => SyncsWhole' /\ Objects!SyncedWhole'
<1> SUFFICES ASSUME ObjectTypes, SyncsWhole, Objects!SyncedWhole, Objects!ObjectsNext
             PROVE  SyncsWhole' /\ Objects!SyncedWhole'
  OBVIOUS
<1>1. \A d \in Peer : stored[d] \subseteq stored'[d]
  BY StoredGrows
<1>2. ASSUME NEW d \in Peer, ~task[d].failed PROVE InSight(task[d], stored'[d])
  BY <1>1, <1>2 DEF SyncsWhole, InSight
<1>3. \A pair \in done : pair[2].hashes \subseteq stored'[pair[1]]
  BY <1>1 DEF SyncsWhole, Objects!SyncedWhole
\* A step of one task.
<1>4. ASSUME NEW d \in Peer, NEW t \in Task, task' = [task EXCEPT ![d] = t], done' = done,
             ~t.failed => InSight(t, stored'[d])
      PROVE  SyncsWhole' /\ Objects!SyncedWhole'
  BY <1>2, <1>3, <1>4 DEF SyncsWhole, Objects!SyncedWhole, ObjectTypes
<1>5. CASE task' = task /\ done' = done
  BY <1>2, <1>3, <1>5 DEF SyncsWhole, Objects!SyncedWhole
<1>6. ASSUME NEW d \in Peer, Objects!FetchObjects(d) PROVE SyncsWhole' /\ Objects!SyncedWhole'
  <2> DEFINE t == task[d]
             got == {<<o, Objects!GetObject(t.event.from, o)>> : o \in t.left}
             u == [t EXCEPT !.stage = "store", !.left = {}, !.got = got]
  <2>1. task' = [task EXCEPT ![d] = u] /\ done' = done
    BY <1>6 DEF Objects!FetchObjects, Objects!Now
  <2>2. t \in Task /\ t.stage = "batch" /\ u = task'[d] /\ u \in Task
    BY <1>6, <2>1, ObjectTypesStep DEF ObjectTypes, Objects!FetchObjects
  <2>3. ASSUME NEW o \in t.left PROVE o \in {r[1] : r \in got}
    <3>1. <<o, Objects!GetObject(t.event.from, o)>> \in got
      OBVIOUS
    <3>2. o = <<o, Objects!GetObject(t.event.from, o)>>[1]
      OBVIOUS
    <3> HIDE DEF got
    <3> QED
      BY <3>1, <3>2, Zenon
  <2>4. u.event = t.event /\ u.failed = t.failed /\ u.stage = "store" /\ u.got = got
    BY <2>2 DEF Task
  <2> HIDE DEF u, got
  <2>6. ~u.failed => InSight(u, stored'[d])
    BY <1>2, <2>2, <2>3, <2>4 DEF InSight
  <2> QED
    BY <1>4, <2>1, <2>2, <2>6 DEF u
<1>7. ASSUME NEW d \in Peer, Objects!FallBack(d) PROVE SyncsWhole' /\ Objects!SyncedWhole'
  <2>1. task' = [task EXCEPT ![d] = [task[d] EXCEPT !.stage = "single"]] /\ done' = done
    BY <1>7 DEF Objects!FallBack, Objects!Now
  <2>2. task[d] \in Task /\ task[d].stage = "batch"
    BY <1>7 DEF ObjectTypes, Objects!FallBack
  <2>3. [task[d] EXCEPT !.stage = "single"] \in Task
    BY <2>2 DEF Task
  <2>4. ~task[d].failed => InSight([task[d] EXCEPT !.stage = "single"], stored'[d])
    BY <1>2, <2>2 DEF InSight, Task
  <2> QED
    BY <1>4, <2>1, <2>2, <2>3, <2>4 DEF Task
<1>8. ASSUME NEW d \in Peer, NEW o \in Object, NEW ok \in BOOLEAN, Objects!FetchObject(d, o, ok)
      PROVE  SyncsWhole' /\ Objects!SyncedWhole'
  <2> DEFINE t == task[d]
             stage == IF t.left = {o} THEN "store" ELSE "single"
  <2>1. PICK had : task' = [task EXCEPT ![d] = [t EXCEPT !.left = @ \ {o},
                              !.got = @ \cup {<<o, had>>}, !.stage = stage]]
    BY <1>8 DEF Objects!FetchObject, Objects!Now
  <2> DEFINE u == [t EXCEPT !.left = @ \ {o}, !.got = @ \cup {<<o, had>>}, !.stage = stage]
  <2>2. t \in Task /\ t.stage = "single" /\ u = task'[d] /\ u \in Task /\ done' = done
    BY <1>8, <2>1, ObjectTypesStep DEF ObjectTypes, Objects!FetchObject
  <2>3. /\ u.left = t.left \ {o} /\ u.got = t.got \cup {<<o, had>>} /\ u.stage = stage
        /\ u.event = t.event /\ u.failed = t.failed
    BY <2>2 DEF Task
  <2> HIDE DEF u
  <2>4. {r[1] : r \in t.got} \cup {o} \subseteq {r[1] : r \in u.got}
    <3>1. <<o, had>> \in u.got /\ <<o, had>>[1] = o /\ t.got \subseteq u.got
      BY <2>3
    <3> QED
      BY <3>1, Zenon
  <2>5. ~u.failed => InSight(u, stored'[d])
    BY <1>2, <2>2, <2>3, <2>4 DEF InSight
  <2> QED
    BY <1>4, <2>1, <2>2, <2>5 DEF u
<1>9. ASSUME NEW d \in Peer, NEW r \in task[d].got, NEW ok \in BOOLEAN,
             Objects!SyncObjects(d, r, ok)
      PROVE  SyncsWhole' /\ Objects!SyncedWhole'
  <2> DEFINE t == task[d]
             failing == t.failed \/ ~(ok /\ r[2] = "whole")
             v == [t EXCEPT !.got = @ \ {r}, !.failed = failing]
             u == IF t.got \ {r} = {} THEN [v EXCEPT !.stage = "pin", !.left = t.event.hashes]
                  ELSE v
  <2>1. t \in Task /\ t.stage = "store" /\ done' = done
    BY <1>9 DEF ObjectTypes, Objects!SyncObjects
  <2>2. Objects!Advance(d, t.got \ {r}, failing)
    BY <1>9 DEF Objects!SyncObjects
  <2>3. task' = [task EXCEPT ![d] = u]
    BY <2>1, <2>2 DEF Objects!Advance, Objects!Now, Task
  <2>4. u = task'[d] /\ u \in Task
    BY <2>3, ObjectTypesStep DEF ObjectTypes
  <2>5. /\ u.got = t.got \ {r} /\ u.event = t.event /\ u.failed = failing
        /\ u.stage = IF u.got = {} THEN "pin" ELSE "store"
    BY <2>1 DEF Task
  <2> HIDE DEF u, v
  <2>6. ASSUME ~failing PROVE r[1] \in stored'[d] /\ ~t.failed
    BY <1>9, <2>6 DEF Objects!SyncObjects, Objects!PutObject, ObjectTypes
  <2>7. {q[1] : q \in t.got} \subseteq {q[1] : q \in u.got} \cup {r[1]}
    BY <2>5
  <2>8. ASSUME ~u.failed PROVE InSight(u, stored'[d])
    <3>1. /\ t.event.hashes \subseteq stored'[d] \cup {q[1] : q \in t.got}
          /\ r[1] \in stored'[d]
      BY <1>2, <2>1, <2>5, <2>6, <2>8 DEF InSight
    <3>2. u.event.hashes \subseteq stored'[d] \cup {q[1] : q \in u.got}
      BY <2>5, <2>7, <3>1
    <3>3. u.got = {} => {q[1] : q \in u.got} = {}
      OBVIOUS
    <3> QED
      BY <2>5, <3>2, <3>3 DEF InSight
  <2> QED
    BY <1>4, <2>1, <2>3, <2>4, <2>8
<1>10. ASSUME NEW d \in Peer, NEW o \in Object, Objects!PinFetched(d, o)
       PROVE  SyncsWhole' /\ Objects!SyncedWhole'
  <2>1. task[d] \in Task /\ task[d].stage = "pin"
    BY <1>10 DEF ObjectTypes, Objects!PinFetched
  <2>2. CASE task[d].left = {o}
    <3>1. /\ task' = [task EXCEPT ![d] = Objects!Idle]
          /\ done' = IF task[d].failed THEN done ELSE done \cup {<<d, task[d].event>>}
      BY <1>10, <2>2 DEF Objects!PinFetched, Objects!Now
    <3>2. ~task[d].failed => task[d].event.hashes \subseteq stored'[d]
      BY <1>2, <2>1 DEF InSight
    <3>3. InSight(Objects!Idle, stored'[d])
      BY DEF InSight, Objects!Idle
    <3>4. \A e \in Peer : ~task'[e].failed => InSight(task'[e], stored'[e])
      BY <1>2, <3>1, <3>3 DEF ObjectTypes
    <3>5. done' \subseteq Peer \X Event /\ Objects!SyncedWhole'
      BY <1>3, <2>1, <3>1, <3>2 DEF SyncsWhole, Objects!SyncedWhole, Task
    <3> QED
      BY <3>4, <3>5 DEF SyncsWhole
  <2>3. CASE task[d].left # {o}
    <3> DEFINE u == [task[d] EXCEPT !.left = @ \ {o}]
    <3>1. task' = [task EXCEPT ![d] = u] /\ done' = done
      BY <1>10, <2>3 DEF Objects!PinFetched, Objects!Now
    <3>2. u \in Task /\ u.failed = task[d].failed /\ u.stage = "pin" /\ u.event = task[d].event
      BY <2>1 DEF Task
    <3> HIDE DEF u
    <3>3. ~u.failed => InSight(u, stored'[d])
      BY <1>2, <2>1, <3>2 DEF InSight
    <3> QED
      BY <1>4, <3>1, <3>2, <3>3
  <2> QED
    BY <2>2, <2>3
<1>11. ASSUME NEW d \in Peer, Objects!Crash(d) PROVE SyncsWhole' /\ Objects!SyncedWhole'
  <2>1. Objects!Idle \in Task /\ InSight(Objects!Idle, stored'[d])
    BY DEF Objects!Idle, Task, Event, InSight
  <2> QED
    BY <1>4, <1>11, <2>1 DEF Objects!Crash, Objects!Now
<1>12. ASSUME NEW d \in Peer, NEW m \in wire, Objects!Receive(d, m), task' # task
       PROVE  SyncsWhole' /\ Objects!SyncedWhole'
  <2> DEFINE needed == m.event.hashes \ stored[d]
             u == [stage |-> IF needed = {} THEN "pin" ELSE "batch", event |-> m.event,
                   left |-> IF needed = {} THEN m.event.hashes ELSE needed, got |-> {},
                   failed |-> FALSE]
  <2>1. task' = [task EXCEPT ![d] = u] /\ done' = done /\ stored' = stored
    BY <1>12 DEF Objects!Receive, Objects!Now
  <2>2. u = task'[d] /\ u \in Task
    BY <2>1, ObjectTypesStep DEF ObjectTypes
  <2>3. InSight(u, stored[d])
    BY DEF InSight
  <2> QED
    BY <1>4, <2>1, <2>2, <2>3
<1> QED
  BY <1>5, <1>6, <1>7, <1>8, <1>9, <1>10, <1>11, <1>12
     DEF Objects!ObjectsNext, Objects!Handle, Objects!NewSyncCoordinator, Objects!SetNetwork,
         Objects!Receive, Objects!Push, Objects!PublishRepoEvent, Objects!AnnouncePushObjects,
         Objects!Lose

LEMMA WindowStep == ObjectTypes /\ Window /\ Objects!ObjectsNext => Window'
<1> SUFFICES ASSUME ObjectTypes, Window, Objects!ObjectsNext PROVE Window'
  OBVIOUS
<1>1. ASSUME NEW d \in Peer, NEW m \in wire, Objects!Receive(d, m) PROVE Window'
  <2>1. /\ recent' = [recent EXCEPT ![d] = Objects!Kept(Append(recent[d], m.event))]
        /\ arrived' = [arrived EXCEPT ![d] = Append(arrived[d], m.event)]
    BY <1>1 DEF Objects!Receive
  <2>2. m.event \in Event /\ recent[d] \in Seq(Event) /\ arrived[d] \in Seq(Event)
          /\ Ends(recent[d], arrived[d])
    BY DEF ObjectTypes, Window
  <2>3. /\ Objects!Kept(Append(recent[d], m.event)) \in Seq(Event)
        /\ Ends(Objects!Kept(Append(recent[d], m.event)), Append(arrived[d], m.event))
    BY <2>2, WindowMoves
  <2>4. Append(arrived[d], m.event) \in Seq(Event)
    BY <2>2
  <2> QED
    BY <2>1, <2>3, <2>4 DEF Window
<1>2. ASSUME NEW d \in Peer, Objects!Crash(d) PROVE Window'
  <2>1. Ends(<<>>, <<>>) /\ <<>> \in Seq(Event)
    BY RecentAssumption DEF Ends
  <2>2. recent' = [recent EXCEPT ![d] = <<>>] /\ arrived' = [arrived EXCEPT ![d] = <<>>]
    BY <1>2 DEF Objects!Crash
  <2> QED
    BY <2>1, <2>2 DEF Window
<1>3. \/ \E d \in Peer : \E m \in wire : Objects!Receive(d, m)
      \/ \E d \in Peer : Objects!Crash(d)
      \/ UNCHANGED <<recent, arrived>>
  <2>1. \A d \in Peer : Objects!Handle(d) => UNCHANGED <<recent, arrived>>
    BY DEF Objects!Handle, Objects!FetchObjects, Objects!FallBack, Objects!FetchObject,
           Objects!SyncObjects, Objects!PinFetched
  <2>2. \A d \in Peer : Objects!NewSyncCoordinator(d) \/ Objects!SetNetwork(d)
                         => UNCHANGED <<recent, arrived>>
    BY DEF Objects!NewSyncCoordinator, Objects!SetNetwork
  <2>3. \A d \in Peer : \A objects : Objects!Push(d, objects) => UNCHANGED <<recent, arrived>>
    BY DEF Objects!Push
  <2>4. \A p, o : Objects!PublishRepoEvent(p) \/ Objects!AnnouncePushObjects(p, o)
                  => UNCHANGED <<recent, arrived>>
    BY DEF Objects!PublishRepoEvent, Objects!AnnouncePushObjects
  <2>5. \A m : Objects!Lose(m) => UNCHANGED <<recent, arrived>>
    BY DEF Objects!Lose
  <2> QED
    BY <2>1, <2>2, <2>3, <2>4, <2>5, Zenon DEF Objects!ObjectsNext
<1> QED
  BY <1>1, <1>2, <1>3 DEF Window

\* The end of a sequence, read backwards, is where it begins.
LEMMA EndsAreSuffixes ==
  ASSUME NEW S, NEW r \in Seq(S), NEW s \in Seq(S), Ends(r, s)
  PROVE  Objects!IsSuffix(r, s)
<1> DEFINE n == Len(s)
           k == Len(r)
           back(q) == Objects!Reverse(q)
<1>1. n \in Nat /\ k \in Nat /\ k <= n
  BY RecentAssumption DEF Ends
<1>2. /\ back(r) = [i \in 1 .. k |-> r[(k - i) + 1]]
      /\ back(s) = [i \in 1 .. n |-> s[(n - i) + 1]]
  BY DEF Objects!Reverse
<1>3. back(r) \in Seq(S) /\ Len(back(r)) = k
  <2>1. \A i \in 1 .. k : r[(k - i) + 1] \in S
    BY <1>1
  <2> QED
    BY <1>1, <1>2, <2>1
<1>4. back(s) \in Seq(S) /\ Len(back(s)) = n
  <2>1. \A i \in 1 .. n : s[(n - i) + 1] \in S
    BY <1>1
  <2> QED
    BY <1>1, <1>2, <2>1
<1>5. ASSUME NEW i \in 1 .. k PROVE back(r)[i] = back(s)[i]
  <2>1. (k - i) + 1 \in 1 .. k /\ i \in 1 .. n /\ n - k + ((k - i) + 1) = (n - i) + 1
    BY <1>1
  <2>2. r[(k - i) + 1] = s[n - k + ((k - i) + 1)]
    BY <2>1 DEF Ends
  <2> QED
    BY <1>2, <2>1, <2>2
<1> HIDE DEF back, n, k
<1>6. SubSeq(back(r), 1, k) = SubSeq(back(s), 1, k)
  <2>1. \A i \in 1 .. k : SubSeq(back(r), 1, k)[i] = SubSeq(back(s), 1, k)[i]
    BY <1>1, <1>3, <1>4, <1>5
  <2>2. /\ SubSeq(back(r), 1, k) \in Seq(S) /\ Len(SubSeq(back(r), 1, k)) = k
        /\ SubSeq(back(s), 1, k) \in Seq(S) /\ Len(SubSeq(back(s), 1, k)) = k
    BY <1>1, <1>3, <1>4
  <2> QED
    BY <2>1, <2>2
<1>7. Objects!IsPrefix(back(r), back(s))
  BY <1>1, <1>3, <1>4, <1>6 DEF Objects!IsPrefix
<1> QED
  BY <1>7 DEF Objects!IsSuffix, back

\* Whom the DHT names has the object, and so has who pins it; a replication that
\* SyncObjects reports as done is complete; and the recent events a daemon lists
\* are the last it received: through failed fetches, failed stores, lost events
\* and crashes, for any daemons, objects and window.
THEOREM WhatIsToldHolds == PartsSpec => []ObjectsTrue
<1>1. PartsInit => ObjectInv
  <2>1. Ends(<<>>, <<>>) /\ <<>> \in Seq(Event)
    BY RecentAssumption DEF Ends
  <2>2. Objects!Idle \in Task /\ \A S : InSight(Objects!Idle, S)
    BY DEF Objects!Idle, Task, Event, InSight
  <2> SUFFICES ASSUME Objects!ObjectsInit PROVE ObjectInv
    BY DEF PartsInit
  <2>3. ObjectTypes /\ PushesStored /\ Objects!ProvidersHold
    BY <2>2 DEF Objects!ObjectsInit, ObjectTypes, PushesStored, Objects!ProvidersHold
  <2>4. SyncsWhole /\ Objects!SyncedWhole
    BY <2>2 DEF Objects!ObjectsInit, SyncsWhole, Objects!SyncedWhole
  <2>5. Window
    BY <2>1 DEF Objects!ObjectsInit, Window
  <2> QED
    BY <2>3, <2>4, <2>5 DEF ObjectInv
<1>2. ObjectInv /\ UNCHANGED objectVars => ObjectInv'
  BY DEF ObjectInv, ObjectTypes, PushesStored, Objects!ProvidersHold, SyncsWhole,
         Objects!SyncedWhole, Window, objectVars
<1>3. ObjectInv /\ Objects!ObjectsNext => ObjectInv'
  BY ObjectTypesStep, HeldStep, SyncsStep, WindowStep DEF ObjectInv
<1>4. ObjectInv /\ [PartsNext]_partVars => ObjectInv'
  BY <1>2, <1>3 DEF PartsNext, partVars
<1>5. ObjectInv => ObjectsTrue
  <2> SUFFICES ASSUME ObjectInv PROVE Objects!RecentTrue
    BY DEF ObjectInv, ObjectsTrue
  <2> SUFFICES ASSUME NEW d \in Peer
               PROVE  /\ Objects!IsSuffix(recent[d], arrived[d])
                      /\ Len(recent[d]) = IF Len(arrived[d]) < MaxRecent THEN Len(arrived[d])
                                          ELSE MaxRecent
    BY DEF Objects!RecentTrue
  <2>1. recent[d] \in Seq(Event) /\ arrived[d] \in Seq(Event) /\ Ends(recent[d], arrived[d])
    BY DEF ObjectInv, Window
  <2>2. Objects!IsSuffix(recent[d], arrived[d])
    BY <2>1, EndsAreSuffixes
  <2> QED
    BY <2>1, <2>2 DEF Ends
<1> QED
  BY <1>1, <1>4, <1>5, PTL DEF PartsSpec

(***************************************************************************)
(* The webhooks.  From when the first save takes the read lock until the   *)
(* last one gives it back, the webhooks are the same, so all those saves   *)
(* write the same.  Either all of them still use the temporary file that   *)
(* the first one made, or the file is what they write, or will be when a   *)
(* save that opened it has written.                                        *)
(***************************************************************************)
Hooks == Nat \ {0}
Inodes == Webhooks!Inode
Save == [hook : Hooks, kind : {"register", "remove"},
         stage : {"asked", "opened", "written", "refused"},
         inode : Inodes \cup {0}, content : SUBSET Hooks]
Holders == {s \in saves : s.stage # "asked"}
Opened(i) == \E s \in saves : s.stage = "opened" /\ s.inode = i

HookTypes ==
  /\ hooks \subseteq Hooks /\ made \in Nat
  /\ inodes \in [Inodes -> {Webhooks!Partial} \cup SUBSET Hooks]
  /\ tmp \in Inodes \cup {0} /\ file \in Inodes \cup {0}
  /\ tmp # 0 => tmp # file
  /\ saves \subseteq Save
  /\ \A s \in saves : IF s.stage = "asked" THEN s.inode = 0 ELSE s.inode # 0 /\ s.content = hooks

\* File i holds the webhooks, or a save will write them to it.
Current(i) == i # 0 /\ (inodes[i] = hooks \/ Opened(i))

SavesAgree ==
  /\ \A s \in Holders : Current(s.inode)
  /\ tmp # 0 => \E s \in Holders : s.inode = tmp
  /\ \A s \in Holders : s.stage = "refused" => s.inode # tmp
  /\ Holders # {} =>
       \/ Current(file)
       \/ tmp # 0 /\ \A s \in Holders : s.inode = tmp /\ s.stage # "refused"
  /\ saves = {} => Webhooks!Content(file) = hooks

EventsOwed == answered \subseteq hooks /\ missed = {} /\ \A e \in events : e.owed \subseteq hooks

HookInv == HookTypes /\ (~spoilt => SavesAgree /\ EventsOwed)

LEMMA HookStep == HookInv /\ Webhooks!WebhooksNext => HookInv'
<1> SUFFICES ASSUME HookInv, Webhooks!WebhooksNext PROVE HookInv'
  OBVIOUS
<1> USE DEF Webhooks!files, Webhooks!traffic
<1>1. HookTypes
  BY DEF HookInv
\* Nobody holds the lock.
<1>2. ASSUME Webhooks!Unlocked PROVE Holders = {} /\ (~spoilt => tmp = 0)
  BY <1>2 DEF Webhooks!Unlocked, Holders, HookInv, SavesAgree
\* A request that is to save is new.
<1>3. ASSUME NEW kind \in {"register", "remove"}, NEW h \in Hooks, Webhooks!Unlocked,
             saves' = saves \cup {Webhooks!Asked(kind, h)}, UNCHANGED <<inodes, tmp, file>>,
             hooks' \subseteq Hooks, made' \in Nat
      PROVE  HookTypes' /\ (~spoilt => SavesAgree')
  <2>1. Webhooks!Asked(kind, h) \in Save /\ Webhooks!Asked(kind, h).stage = "asked"
          /\ Webhooks!Asked(kind, h).inode = 0
    BY DEF Webhooks!Asked, Save
  <2>2. Holders' = {} /\ saves' # {} /\ \A s \in saves' : s.stage = "asked" /\ s.inode = 0
    BY <1>1, <1>2, <1>3, <2>1 DEF Holders, HookTypes
  <2>3. HookTypes'
    BY <1>1, <1>3, <2>1, <2>2 DEF HookTypes
  <2> QED
    BY <1>2, <1>3, <2>2, <2>3 DEF SavesAgree
<1>4. CASE Webhooks!Register
  <2>1. made' \in Hooks /\ hooks' = hooks \cup {made'} /\ Webhooks!Unlocked
          /\ saves' = saves \cup {Webhooks!Asked("register", made')}
    BY <1>1, <1>4 DEF Webhooks!Register, HookTypes, Hooks
  <2>2. HookTypes' /\ (~spoilt => SavesAgree')
    BY <1>1, <1>3, <1>4, <2>1 DEF Webhooks!Register, HookTypes, Hooks
  <2>3. ~spoilt => EventsOwed'
    BY <1>4, <2>1 DEF Webhooks!Register, HookInv, EventsOwed
  <2> QED
    BY <1>4, <2>2, <2>3 DEF Webhooks!Register, HookInv
<1>5. ASSUME NEW h \in hooks, Webhooks!Remove(h) PROVE HookInv'
  <2>1. h \in Hooks /\ made' = made /\ hooks' = hooks \ {h} /\ Webhooks!Unlocked
          /\ saves' = saves \cup {Webhooks!Asked("remove", h)}
    BY <1>1, <1>5 DEF Webhooks!Remove, HookTypes
  <2>2. HookTypes' /\ (~spoilt => SavesAgree')
    BY <1>1, <1>3, <1>5, <2>1 DEF Webhooks!Remove, HookTypes
  <2>3. ASSUME ~spoilt PROVE EventsOwed'
    <3>1. ASSUME NEW e \in events PROVE [e EXCEPT !.owed = @ \ {h}].owed \subseteq hooks'
      BY <2>1, <2>3 DEF HookInv, EventsOwed
    <3> QED
      BY <1>5, <2>1, <2>3, <3>1 DEF Webhooks!Remove, HookInv, EventsOwed
  <2> QED
    BY <1>5, <2>2, <2>3 DEF Webhooks!Remove, HookInv
<1>6. ASSUME NEW s \in saves, Webhooks!Open(s) PROVE HookInv'
  <2>1. PICK i \in Inodes :
          /\ IF tmp # 0 THEN i = tmp ELSE i \in Webhooks!Unused
          /\ tmp' = i /\ inodes' = [inodes EXCEPT ![i] = Webhooks!Partial]
          /\ saves' = (saves \ {s}) \cup
               {[s EXCEPT !.stage = "opened", !.inode = i, !.content = hooks]}
    <3>1. Webhooks!Unused \subseteq Inodes
      BY DEF Webhooks!Unused, Inodes
    <3>2. tmp = 0 => (CHOOSE j \in Webhooks!Unused : TRUE) \in Webhooks!Unused
      BY <1>6 DEF Webhooks!Open
    <3> QED
      BY <1>1, <1>6, <3>1, <3>2 DEF Webhooks!Open, Webhooks!To, HookTypes
  <2> DEFINE u == [s EXCEPT !.stage = "opened", !.inode = i, !.content = hooks]
  <2>2. s \in Save /\ s.stage = "asked" /\ i # 0
    BY <1>1, <1>6 DEF Webhooks!Open, HookTypes, Inodes, Webhooks!Inode
  <2>3. u \in Save /\ u.stage = "opened" /\ u.inode = i /\ u.content = hooks
    BY <1>1, <2>2 DEF Save, HookTypes
  <2>4. i # file /\ (tmp = 0 => \A o \in saves : o.inode # i)
    BY <1>1, <2>1 DEF Webhooks!Unused, HookTypes
  <2>5. UNCHANGED <<hooks, file, made, events, missed, answered, spoilt>>
    BY <1>6 DEF Webhooks!Open
  <2> HIDE DEF u
  <2>6. saves' = (saves \ {s}) \cup {u} /\ Holders' = Holders \cup {u}
    BY <2>1, <2>2, <2>3 DEF Holders, u
  <2>7. HookTypes'
    <3>1. saves' \subseteq Save
            /\ \A o \in saves' : IF o.stage = "asked" THEN o.inode = 0
                                 ELSE o.inode # 0 /\ o.content = hooks'
      BY <1>1, <2>2, <2>3, <2>5, <2>6 DEF HookTypes
    <3>2. inodes' \in [Inodes -> {Webhooks!Partial} \cup SUBSET Hooks]
      BY <1>1, <2>1 DEF HookTypes
    <3>3. tmp' \in Inodes \cup {0} /\ (tmp' # 0 => tmp' # file')
      BY <2>1, <2>4, <2>5
    <3> QED
      BY <1>1, <2>5, <3>1, <3>2, <3>3 DEF HookTypes
  <2>8. ASSUME ~spoilt PROVE SavesAgree'
    <3>0. SavesAgree
      BY <2>8 DEF HookInv
    <3>1. Opened(i)' /\ \A j \in Inodes : Opened(j) => Opened(j)'
      BY <2>2, <2>3, <2>6 DEF Opened
    <3>2. \A j \in Inodes : Current(j) => Current(j)'
      BY <1>1, <2>1, <2>5, <3>1 DEF Current, HookTypes
    <3>3. Current(i)'
      BY <2>2, <3>1 DEF Current
    <3>4. \A o \in Holders : o.inode \in Inodes
      BY <1>1 DEF HookTypes, Holders, Save
    <3>5. \A o \in Holders' : Current(o.inode)'
      BY <2>3, <2>6, <3>0, <3>2, <3>3, <3>4 DEF SavesAgree
    <3>6. \A o \in Holders' : o.stage = "refused" => o.inode # tmp'
      BY <2>1, <2>3, <2>4, <2>6, <3>0 DEF SavesAgree, Holders
    <3>7. \/ Current(file)'
          \/ tmp' # 0 /\ \A o \in Holders' : o.inode = tmp' /\ o.stage # "refused"
      <4>1. CASE Holders = {}
        BY <2>1, <2>2, <2>3, <2>6, <4>1
      <4>2. CASE Current(file)
        BY <1>1, <2>5, <3>2, <4>2 DEF HookTypes, Current
      <4>3. CASE tmp # 0 /\ \A o \in Holders : o.inode = tmp /\ o.stage # "refused"
        BY <2>1, <2>3, <2>6, <4>3
      <4> QED
        BY <3>0, <4>1, <4>2, <4>3 DEF SavesAgree
    <3>8. saves' # {} /\ \E o \in Holders' : o.inode = tmp'
      BY <2>1, <2>3, <2>6
    <3> QED
      BY <3>5, <3>6, <3>7, <3>8 DEF SavesAgree
  <2> QED
    BY <2>5, <2>7, <2>8 DEF HookInv, EventsOwed
<1>7. ASSUME NEW s \in saves, NEW ok \in BOOLEAN, Webhooks!Fill(s, ok) PROVE HookInv'
  <2>1. s \in Save /\ s.stage = "opened" /\ s \in Holders /\ s.inode \in Inodes /\ s.inode # 0
          /\ s.content = hooks
    BY <1>1, <1>7 DEF Webhooks!Fill, HookTypes, Holders, Save
  <2>2. UNCHANGED <<hooks, tmp, file, made, events, missed>>
    BY <1>7 DEF Webhooks!Fill
  <2>3. CASE ~ok
    <3>1. spoilt' = TRUE /\ saves' = saves \ {s}
            /\ inodes' = [inodes EXCEPT ![s.inode] = Webhooks!Partial]
      BY <1>7, <2>3 DEF Webhooks!Fill
    <3> QED
      BY <1>1, <2>1, <2>2, <3>1 DEF HookInv, HookTypes
  <2>4. CASE ok
    <3> DEFINE u == [s EXCEPT !.stage = "written"]
    <3>1. /\ inodes' = [inodes EXCEPT ![s.inode] = hooks]
          /\ saves' = (saves \ {s}) \cup {u}
          /\ UNCHANGED <<answered, spoilt>>
      BY <1>7, <2>1, <2>4 DEF Webhooks!Fill, Webhooks!To
    <3>2. u \in Save /\ u.stage = "written" /\ u.inode = s.inode /\ u.content = hooks
      BY <2>1 DEF Save
    <3> HIDE DEF u
    <3>3. Holders' = (Holders \ {s}) \cup {u}
      BY <3>1, <3>2 DEF Holders
    <3>4. HookTypes'
      <4>1. saves' \subseteq Save
              /\ \A o \in saves' : IF o.stage = "asked" THEN o.inode = 0
                                   ELSE o.inode # 0 /\ o.content = hooks'
        BY <1>1, <2>1, <2>2, <3>1, <3>2 DEF HookTypes
      <4>2. inodes' \in [Inodes -> {Webhooks!Partial} \cup SUBSET Hooks]
        BY <1>1, <3>1 DEF HookTypes
      <4> QED
        BY <1>1, <2>2, <4>1, <4>2 DEF HookTypes
    <3>5. ASSUME ~spoilt PROVE SavesAgree'
      <4>0. SavesAgree
        BY <3>5 DEF HookInv
      <4>1. inodes'[s.inode] = hooks /\ \A j \in Inodes \ {s.inode} : inodes'[j] = inodes[j]
        BY <1>1, <2>1, <3>1 DEF HookTypes
      <4>2. \A j \in Inodes \ {s.inode} : Opened(j) => Opened(j)'
        BY <3>1 DEF Opened
      <4>3. \A j \in Inodes : Current(j) => Current(j)'
        <5> SUFFICES ASSUME NEW j \in Inodes, Current(j) PROVE Current(j)'
          OBVIOUS
        <5>1. CASE j = s.inode
          BY <2>1, <2>2, <4>1, <5>1 DEF Current
        <5>2. CASE j # s.inode
          BY <2>2, <4>1, <4>2, <5>2 DEF Current
        <5> QED
          BY <5>1, <5>2
      <4>4. \A o \in Holders : o.inode \in Inodes
        BY <1>1 DEF HookTypes, Holders, Save
      <4>5. \A o \in Holders' : \E p \in Holders :
              o.inode = p.inode /\ (o.stage = "refused" => p.stage = "refused")
        BY <2>1, <3>2, <3>3
      <4>6. \A o \in Holders' : Current(o.inode)'
        BY <4>0, <4>3, <4>4, <4>5 DEF SavesAgree
      <4>7. tmp' # 0 => \E o \in Holders' : o.inode = tmp'
        BY <2>2, <3>2, <3>3, <4>0 DEF SavesAgree
      <4>8. \A o \in Holders' : o.stage = "refused" => o.inode # tmp'
        BY <2>2, <4>0, <4>5 DEF SavesAgree
      <4>9. \/ Current(file)'
            \/ tmp' # 0 /\ \A o \in Holders' : o.inode = tmp' /\ o.stage # "refused"
        <5>1. CASE Current(file)
          BY <1>1, <2>2, <4>3, <5>1 DEF HookTypes, Current
        <5>2. CASE tmp # 0 /\ \A o \in Holders : o.inode = tmp /\ o.stage # "refused"
          BY <2>2, <3>2, <3>3, <2>1, <5>2
        <5> QED
          BY <2>1, <4>0, <5>1, <5>2 DEF SavesAgree
      <4>10. saves' # {}
        BY <3>1
      <4> QED
        BY <4>6, <4>7, <4>8, <4>9, <4>10 DEF SavesAgree
    <3> QED
      BY <2>2, <3>1, <3>4, <3>5 DEF HookInv, EventsOwed
  <2> QED
    BY <2>3, <2>4
\* The last step of a save.
<1>8. ASSUME NEW s \in Holders, s.stage # "opened", saves' = saves \ {s}, tmp' = 0,
             IF s.stage = "refused" THEN file' = file ELSE tmp # 0 /\ file' = tmp,
             UNCHANGED <<hooks, inodes, made, spoilt>>
      PROVE  HookTypes' /\ (~spoilt => SavesAgree')
  <2>1. HookTypes'
    BY <1>1, <1>8 DEF HookTypes
  <2>2. ASSUME ~spoilt PROVE SavesAgree'
    <3>0. SavesAgree
      BY <2>2 DEF HookInv
    <3>1. Holders' = Holders \ {s}
      BY <1>8 DEF Holders
    <3>2. \A j : Opened(j)' <=> Opened(j)
      BY <1>8 DEF Opened
    <3>3. \A j : Current(j) => j # 0 /\ (inodes'[j] = hooks' \/ Opened(j)')
      BY <1>8, <3>2 DEF Current
    <3>4. \A o \in Holders' : Current(o.inode)'
      BY <3>0, <3>1, <3>3 DEF SavesAgree, Current
    <3>5. Current(file)'
      <4>1. CASE s.stage = "refused"
        <5>1. Current(file)
          BY <1>8, <3>0, <4>1 DEF SavesAgree
        <5> QED
          BY <1>8, <3>3, <4>1, <5>1 DEF Current, Opened
      <4>2. CASE s.stage # "refused"
        <5>1. Current(tmp)
          BY <1>8, <3>0, <4>2 DEF SavesAgree
        <5> QED
          BY <1>8, <3>3, <4>2, <5>1 DEF Current, Opened
      <4> QED
        BY <4>1, <4>2
    <3>6. saves' = {} => Webhooks!Content(file)' = hooks'
      BY <3>5 DEF Current, Opened, Webhooks!Content
    <3>7. \A o \in Holders' : o.inode # 0
      BY <1>1, <3>1 DEF HookTypes, Holders
    <3> QED
      BY <1>8, <3>4, <3>5, <3>6, <3>7 DEF SavesAgree
  <2> QED
    BY <2>1, <2>2
\* What a handler answers.
<1>9. ASSUME NEW s, Webhooks!Answer(s), UNCHANGED <<hooks, events, missed>>, EventsOwed
      PROVE  EventsOwed'
  BY <1>9 DEF Webhooks!Answer, EventsOwed
<1>10. ASSUME NEW s \in saves, Webhooks!Rename(s) PROVE HookInv'
  <2>1. CASE tmp = 0
    <3> DEFINE u == [s EXCEPT !.stage = "refused"]
    <3>1. /\ saves' = (saves \ {s}) \cup {u}
          /\ UNCHANGED <<tmp, file, answered, hooks, inodes, made, events, missed, spoilt>>
      BY <1>10, <2>1 DEF Webhooks!Rename, Webhooks!To
    <3>2. /\ s \in Save /\ s.stage = "written" /\ s \in Holders
          /\ s.inode # 0 /\ s.content = hooks
      BY <1>1, <1>10 DEF Webhooks!Rename, HookTypes, Holders
    <3>3. u \in Save /\ u.stage = "refused" /\ u.inode = s.inode /\ u.content = hooks
      BY <3>2 DEF Save
    <3> HIDE DEF u
    <3>4. HookTypes'
      BY <1>1, <3>1, <3>2, <3>3 DEF HookTypes
    <3>5. ASSUME ~spoilt PROVE SavesAgree'
      <4>0. SavesAgree
        BY <3>5 DEF HookInv
      <4>1. Holders' = (Holders \ {s}) \cup {u}
        BY <3>1, <3>3 DEF Holders
      <4>2. \A j : Opened(j) => \E o \in saves' : o.stage = "opened" /\ o.inode = j
        BY <3>1, <3>2 DEF Opened
      <4>3. \A o \in Holders' : Current(o.inode)'
        BY <3>1, <3>2, <3>3, <4>0, <4>1, <4>2 DEF SavesAgree, Current, Opened
      <4>4. \A o \in Holders' : o.inode # 0
        BY <3>4 DEF HookTypes, Holders
      <4>5. Current(file)'
        BY <2>1, <3>1, <3>2, <4>0, <4>2 DEF SavesAgree, Current, Opened
      <4> QED
        BY <2>1, <3>1, <4>3, <4>4, <4>5 DEF SavesAgree
    <3> QED
      BY <3>1, <3>4, <3>5 DEF HookInv, EventsOwed
  <2>2. CASE tmp # 0
    <3>1. /\ s \in Holders /\ s.stage = "written"
          /\ saves' = saves \ {s} /\ tmp' = 0 /\ file' = tmp /\ Webhooks!Answer(s)
          /\ UNCHANGED <<hooks, inodes, made, events, missed, spoilt>>
      BY <1>10, <2>2 DEF Webhooks!Rename, Holders
    <3>2. HookTypes' /\ (~spoilt => SavesAgree')
      BY <1>8, <2>2, <3>1
    <3> QED
      BY <1>9, <3>1, <3>2 DEF HookInv
  <2> QED
    BY <2>1, <2>2
<1>11. ASSUME NEW s \in saves, Webhooks!RemoveTmp(s) PROVE HookInv'
  <2>1. /\ s \in Holders /\ s.stage = "refused"
        /\ saves' = saves \ {s} /\ tmp' = 0 /\ file' = file /\ Webhooks!Answer(s)
        /\ UNCHANGED <<hooks, inodes, made, events, missed, spoilt>>
    BY <1>11 DEF Webhooks!RemoveTmp, Holders
  <2>2. HookTypes' /\ (~spoilt => SavesAgree')
    BY <1>8, <2>1
  <2> QED
    BY <1>9, <2>1, <2>2 DEF HookInv
\* Dispatch, Match and Send leave the store alone.
<1>12. ASSUME UNCHANGED <<hooks, inodes, tmp, file, saves, made, spoilt>>
       PROVE  HookTypes' /\ (SavesAgree => SavesAgree')
  BY <1>1, <1>12 DEF HookTypes, SavesAgree, Holders, Current, Opened, Webhooks!Content
<1>13. CASE Webhooks!Dispatch
  <2>1. ~spoilt => EventsOwed'
    BY <1>13 DEF Webhooks!Dispatch, HookInv, EventsOwed
  <2> QED
    BY <1>12, <1>13, <2>1 DEF Webhooks!Dispatch, HookInv
<1>14. ASSUME NEW e \in events, Webhooks!Match(e) PROVE HookInv'
  <2>1. ~spoilt => EventsOwed'
    BY <1>14 DEF Webhooks!Match, HookInv, EventsOwed
  <2> QED
    BY <1>12, <1>14, <2>1 DEF Webhooks!Match, HookInv
<1>15. ASSUME NEW p \in deliveries, Webhooks!Send(p) PROVE HookInv'
  <2>1. ~spoilt => EventsOwed'
    BY <1>15 DEF Webhooks!Send, HookInv, EventsOwed
  <2> QED
    BY <1>12, <1>15, <2>1 DEF Webhooks!Send, HookInv
<1>16. CASE Webhooks!Crash
  <2>1. /\ hooks' = Webhooks!Load /\ saves' = {} /\ events' = {}
        /\ UNCHANGED <<inodes, tmp, file, made, answered, missed>>
        /\ ~spoilt' => ~spoilt /\ saves = {}
    BY <1>16 DEF Webhooks!Crash
  <2>2. Webhooks!Content(file) \in {Webhooks!Partial} \cup SUBSET Hooks
    BY <1>1 DEF Webhooks!Content, HookTypes
  <2>3. HookTypes'
    BY <1>1, <2>1, <2>2 DEF HookTypes, Webhooks!Load
  <2>4. ASSUME ~spoilt' PROVE SavesAgree' /\ EventsOwed'
    <3>1. SavesAgree /\ EventsOwed /\ saves = {}
      BY <2>1, <2>4 DEF HookInv
    <3>2. Webhooks!Content(file) = hooks
      BY <3>1 DEF SavesAgree
    <3>3. hooks # Webhooks!Partial
      BY <1>1 DEF HookTypes, Hooks, Webhooks!Partial
    <3>4. hooks' = hooks
      BY <2>1, <3>2, <3>3 DEF Webhooks!Load
    <3>5. SavesAgree'
      BY <2>1, <3>1, <3>4 DEF SavesAgree, Holders, Current, Opened, Webhooks!Content
    <3> QED
      BY <2>1, <3>1, <3>4, <3>5 DEF EventsOwed
  <2> QED
    BY <2>3, <2>4 DEF HookInv
<1> QED
  BY <1>4, <1>5, <1>6, <1>7, <1>10, <1>11, <1>13, <1>14, <1>15, <1>16 DEF Webhooks!WebhooksNext

\* However many registrations and removals share webhooks.json.tmp, once no save
\* is under way the file holds what is in memory, and no event passes over a
\* webhook whose registration was answered: across restarts, for any number of
\* webhooks and events, as long as no write failed or was cut short.
THEOREM WebhooksHold == PartsSpec => []HooksKept
<1>1. PartsInit => HookInv
  BY DEF PartsInit, Webhooks!WebhooksInit, HookInv, HookTypes, SavesAgree, EventsOwed, Holders,
         Inodes, Webhooks!Content
<1>2. HookInv /\ UNCHANGED hookVars => HookInv'
  BY DEF HookInv, HookTypes, SavesAgree, EventsOwed, Holders, Current, Opened,
         Webhooks!Content, hookVars
<1>3. HookInv /\ [PartsNext]_partVars => HookInv'
  BY <1>2, HookStep DEF PartsNext, partVars
<1>4. HookInv => HooksKept
  BY DEF HookInv, SavesAgree, EventsOwed, HooksKept, Webhooks!FileSettles,
         Webhooks!EventsFindHooks
<1> QED
  BY <1>1, <1>3, <1>4, PTL DEF PartsSpec

(***************************************************************************)
(* The discussions.  Whatever replaces a discussion keeps what was         *)
(* promised of it, in memory and in the hands of readers, and a file holds *)
(* what memory held when it was last written.                              *)
(***************************************************************************)
Thread ==
  {t \in [id : Nat, status : {"open", "answered"}, answers : SUBSET Nat, accepted : SUBSET Nat,
          votes : Nat] :
     t.status = "answered" <=> t.accepted # {}}

Promises == [kind : {"thread", "answer", "accepted", "votes"}, thread : Nat, n : Nat]
Reading == [held : Thread, status : {"unread", "open", "answered", "torn"}]
ShownRight(r) == r.status = "answered" => r.held.accepted # {}

DiscussionInv ==
  /\ threads \subseteq Thread /\ threadsFile \subseteq Thread /\ posts \in Nat
  /\ promised \subseteq Promises
  /\ readers \subseteq Reading /\ \A r \in readers : ShownRight(r)
  /\ Discussions!PromisesKept

\* Discussion new says all that t says.
Follows(new, t) ==
  /\ new \in Thread /\ new.id = t.id /\ t.answers \subseteq new.answers
  /\ t.accepted \subseteq new.accepted /\ new.votes >= t.votes

LEMMA PutKeeps ==
  ASSUME DiscussionInv, NEW t \in threads, NEW new, Follows(new, t), Discussions!Put(t, new)
  PROVE  /\ threads' \subseteq Thread /\ new \in threads'
         /\ readers' \subseteq Reading /\ \A r \in readers' : ShownRight(r)
         /\ \A f \in promised : Discussions!Holds(f, threads')
<1>1. threads' = (threads \ {t}) \cup {new} /\ threads' \subseteq Thread /\ new \in threads'
  BY DEF DiscussionInv, Follows, Discussions!Put
<1>2. ASSUME NEW r \in readers
      PROVE  LET q == IF r.held = t THEN [r EXCEPT !.held = new] ELSE r
             IN  q \in Reading /\ ShownRight(q)
  <2>1. r \in Reading /\ ShownRight(r)
    BY DEF DiscussionInv
  <2>2. CASE r.held = t
    <3>1. [r EXCEPT !.held = new] \in Reading
      BY <2>1 DEF Reading, Follows
    <3>2. /\ [r EXCEPT !.held = new].held = new
          /\ [r EXCEPT !.held = new].status = r.status
      BY <2>1 DEF Reading
    <3> QED
      BY <2>1, <2>2, <3>1, <3>2 DEF ShownRight, Follows
  <2> QED
    BY <2>1, <2>2
<1>3. readers' \subseteq Reading /\ \A r \in readers' : ShownRight(r)
  BY <1>2 DEF Discussions!Put
<1>4. ASSUME NEW f \in promised PROVE Discussions!Holds(f, threads')
  <2>1. f \in Promises
    BY DEF DiscussionInv
  <2>2. PICK o \in threads :
          /\ o.id = f.thread
          /\ f.kind = "answer" => f.n \in o.answers
          /\ f.kind = "accepted" => f.n \in o.accepted
          /\ f.kind = "votes" => o.votes >= f.n
    BY DEF DiscussionInv, Discussions!PromisesKept, Discussions!Holds
  <2>3. CASE o = t
    <3>1. new.votes \in Nat /\ t.votes \in Nat /\ f.n \in Nat
      BY <2>1 DEF DiscussionInv, Follows, Thread, Promises
    <3>2. new.id = f.thread
            /\ (f.kind = "answer" => f.n \in new.answers)
            /\ (f.kind = "accepted" => f.n \in new.accepted)
      BY <2>2, <2>3 DEF Follows
    <3>3. f.kind = "votes" => new.votes >= f.n
      BY <2>2, <2>3, <3>1 DEF Follows
    <3> QED
      BY <1>1, <3>2, <3>3 DEF Discussions!Holds
  <2>4. CASE o # t
    BY <1>1, <2>2, <2>4 DEF Discussions!Holds
  <2> QED
    BY <2>3, <2>4
<1> QED
  BY <1>1, <1>3, <1>4

LEMMA DiscussionStep == DiscussionInv /\ Discussions!DiscussionsNext => DiscussionInv'
<1> SUFFICES ASSUME DiscussionInv, Discussions!DiscussionsNext PROVE DiscussionInv'
  OBVIOUS
\* What is promised holds in memory; a save that succeeds writes memory.
<1>1. ASSUME NEW ok \in BOOLEAN, Discussions!SaveLocked(ok), NEW kind, NEW i, NEW n,
             Discussions!Promise(ok, Discussions!Fact(kind, i, n)),
             Discussions!Fact(kind, i, n) \in Promises,
             Discussions!Holds(Discussions!Fact(kind, i, n), threads'),
             \A f \in promised : Discussions!Holds(f, threads'),
             threads' \subseteq Thread, posts' \in Nat,
             readers' \subseteq Reading /\ \A r \in readers' : ShownRight(r)
      PROVE  DiscussionInv'
  <2>1. CASE ok
    <3>1. threadsFile' = threads'
            /\ promised' = promised \cup {Discussions!Fact(kind, i, n)}
      BY <1>1, <2>1 DEF Discussions!SaveLocked, Discussions!Promise
    <3>2. Discussions!PromisesKept'
      BY <1>1, <3>1 DEF Discussions!PromisesKept, Discussions!Holds
    <3> QED
      BY <1>1, <3>1, <3>2 DEF DiscussionInv
  <2>2. CASE ~ok
    <3>1. threadsFile' = threadsFile /\ promised' = promised
      BY <1>1, <2>2 DEF Discussions!SaveLocked, Discussions!Promise
    <3>2. Discussions!PromisesKept'
      BY <1>1, <3>1 DEF Discussions!PromisesKept, Discussions!Holds, DiscussionInv
    <3> QED
      BY <1>1, <3>1, <3>2 DEF DiscussionInv
  <2> QED
    BY <2>1, <2>2
<1>2. ASSUME NEW ok \in BOOLEAN, Discussions!Create(ok) PROVE DiscussionInv'
  <2> DEFINE t == [id |-> posts', status |-> "open", answers |-> {}, accepted |-> {},
                   votes |-> 0]
  <2>1. posts' \in Nat /\ threads' = threads \cup {t} /\ readers' = readers
          /\ Discussions!SaveLocked(ok)
          /\ Discussions!Promise(ok, Discussions!Fact("thread", posts', 0))
    BY <1>2 DEF Discussions!Create, DiscussionInv
  <2>2. t \in Thread /\ t.id = posts'
    BY <2>1 DEF Thread
  <2>3. /\ Discussions!Fact("thread", posts', 0) \in Promises
        /\ Discussions!Holds(Discussions!Fact("thread", posts', 0), threads')
    BY <2>1, <2>2 DEF Discussions!Fact, Promises, Discussions!Holds
  <2>4. \A f \in promised : Discussions!Holds(f, threads')
    BY <2>1 DEF DiscussionInv, Discussions!PromisesKept, Discussions!Holds
  <2> HIDE DEF t
  <2> QED
    BY <1>1, <2>1, <2>2, <2>3, <2>4 DEF DiscussionInv
<1>3. ASSUME NEW ok \in BOOLEAN, NEW t \in threads, Discussions!AddAnswer(t, ok)
      PROVE  DiscussionInv'
  <2> DEFINE new == [t EXCEPT !.answers = @ \cup {posts'}]
  <2>1. t \in Thread /\ posts' \in Nat /\ Discussions!Put(t, new) /\ Discussions!SaveLocked(ok)
          /\ Discussions!Promise(ok, Discussions!Fact("answer", t.id, posts'))
    BY <1>3 DEF Discussions!AddAnswer, DiscussionInv
  <2>2. Follows(new, t) /\ posts' \in new.answers
    BY <2>1 DEF Follows, Thread
  <2> HIDE DEF new
  <2>3. /\ threads' \subseteq Thread /\ new \in threads'
        /\ readers' \subseteq Reading /\ \A r \in readers' : ShownRight(r)
        /\ \A f \in promised : Discussions!Holds(f, threads')
    BY <2>1, <2>2, PutKeeps
  <2>4. /\ Discussions!Fact("answer", t.id, posts') \in Promises
        /\ Discussions!Holds(Discussions!Fact("answer", t.id, posts'), threads')
    BY <2>1, <2>2, <2>3 DEF Discussions!Fact, Promises, Discussions!Holds, Follows, Thread
  <2> QED
    BY <1>1, <2>1, <2>3, <2>4
<1>4. ASSUME NEW ok \in BOOLEAN, NEW t \in threads, NEW a \in t.answers,
             Discussions!AcceptAnswer(t, a, ok)
      PROVE  DiscussionInv'
  <2> DEFINE new == [t EXCEPT !.accepted = @ \cup {a}, !.status = "answered"]
  <2>1. t \in Thread /\ posts' \in Nat /\ Discussions!Put(t, new) /\ Discussions!SaveLocked(ok)
          /\ Discussions!Promise(ok, Discussions!Fact("accepted", t.id, a))
    BY <1>4 DEF Discussions!AcceptAnswer, DiscussionInv
  <2>2. Follows(new, t) /\ a \in new.accepted /\ a \in Nat
    <3>1. a \in Nat /\ new.accepted = t.accepted \cup {a} /\ new.status = "answered"
            /\ new.id = t.id /\ new.answers = t.answers /\ new.votes = t.votes
      BY <2>1 DEF Thread
    <3>2. new \in [id : Nat, status : {"open", "answered"}, answers : SUBSET Nat,
                   accepted : SUBSET Nat, votes : Nat]
      BY <2>1, <3>1 DEF Thread
    <3>3. new \in Thread /\ t.votes \in Nat
      BY <2>1, <3>1, <3>2 DEF Thread
    <3> QED
      BY <3>1, <3>3 DEF Follows
  <2> HIDE DEF new
  <2>3. /\ threads' \subseteq Thread /\ new \in threads'
        /\ readers' \subseteq Reading /\ \A r \in readers' : ShownRight(r)
        /\ \A f \in promised : Discussions!Holds(f, threads')
    BY <2>1, <2>2, PutKeeps
  <2>4. /\ Discussions!Fact("accepted", t.id, a) \in Promises
        /\ Discussions!Holds(Discussions!Fact("accepted", t.id, a), threads')
    BY <2>1, <2>2, <2>3 DEF Discussions!Fact, Promises, Discussions!Holds, Follows, Thread
  <2> QED
    BY <1>1, <2>1, <2>3, <2>4
<1>5. ASSUME NEW ok \in BOOLEAN, NEW t \in threads, Discussions!Upvote(t, ok)
      PROVE  DiscussionInv'
  <2> DEFINE new == [t EXCEPT !.votes = @ + 1]
  <2>1. t \in Thread /\ posts' \in Nat /\ Discussions!Put(t, new) /\ Discussions!SaveLocked(ok)
          /\ Discussions!Promise(ok, Discussions!Fact("votes", t.id, t.votes + 1))
    BY <1>5 DEF Discussions!Upvote, DiscussionInv
  <2>2. Follows(new, t) /\ new.votes = t.votes + 1 /\ t.votes + 1 \in Nat
    BY <2>1 DEF Follows, Thread
  <2> HIDE DEF new
  <2>3. /\ threads' \subseteq Thread /\ new \in threads'
        /\ readers' \subseteq Reading /\ \A r \in readers' : ShownRight(r)
        /\ \A f \in promised : Discussions!Holds(f, threads')
    BY <2>1, <2>2, PutKeeps
  <2>4. /\ Discussions!Fact("votes", t.id, t.votes + 1) \in Promises
        /\ Discussions!Holds(Discussions!Fact("votes", t.id, t.votes + 1), threads')
    BY <2>1, <2>2, <2>3 DEF Discussions!Fact, Promises, Discussions!Holds, Follows, Thread
  <2> QED
    BY <1>1, <2>1, <2>3, <2>4
<1>6. ASSUME NEW ok \in BOOLEAN, NEW t \in threads, Discussions!Delete(t, ok)
      PROVE  DiscussionInv'
  <2>1. /\ threads' = threads \ {t} /\ promised' = {f \in promised : f.thread # t.id}
        /\ threadsFile' \in {threadsFile, threads'} /\ UNCHANGED <<posts, readers>>
    BY <1>6 DEF Discussions!Delete, Discussions!SaveLocked
  <2>2. \A f \in promised' : Discussions!Holds(f, threads')
    BY <2>1 DEF DiscussionInv, Discussions!PromisesKept, Discussions!Holds
  <2>3. \A f \in promised' : Discussions!Holds(f, threadsFile')
    BY <2>1, <2>2 DEF DiscussionInv, Discussions!PromisesKept
  <2>4. Discussions!PromisesKept'
    BY <2>2, <2>3 DEF Discussions!PromisesKept, Discussions!Holds
  <2> QED
    BY <2>1, <2>4 DEF DiscussionInv
<1>7. ASSUME NEW t \in threads, Discussions!Get(t) PROVE DiscussionInv'
  <2>1. [held |-> t, status |-> "unread"] \in Reading
    BY DEF DiscussionInv, Reading
  <2> QED
    BY <1>7, <2>1 DEF Discussions!Get, DiscussionInv, ShownRight, Discussions!PromisesKept,
                      Discussions!Holds
<1>8. ASSUME NEW r \in readers, Discussions!EncodeStatus(r) PROVE DiscussionInv'
  <2>1. PICK s \in {"open", "answered", "torn"} :
          /\ s = "answered" => r.held.accepted # {}
          /\ readers' = (readers \ {r}) \cup {[r EXCEPT !.status = s]}
    BY <1>8 DEF Discussions!EncodeStatus, DiscussionInv, Reading, Thread
  <2>2. /\ [r EXCEPT !.status = s] \in Reading
        /\ [r EXCEPT !.status = s].held = r.held /\ [r EXCEPT !.status = s].status = s
    BY DEF DiscussionInv, Reading
  <2>3. readers' \subseteq Reading /\ \A q \in readers' : ShownRight(q)
    BY <2>1, <2>2 DEF DiscussionInv, ShownRight
  <2> QED
    BY <1>8, <2>3 DEF Discussions!EncodeStatus, DiscussionInv, Discussions!PromisesKept,
                      Discussions!Holds
<1>9. ASSUME NEW r \in readers, Discussions!EncodeAnswers(r) PROVE DiscussionInv'
  BY <1>9 DEF Discussions!EncodeAnswers, DiscussionInv, Discussions!PromisesKept,
              Discussions!Holds
<1>10. CASE Discussions!Crash
  BY <1>10 DEF Discussions!Crash, DiscussionInv, Discussions!PromisesKept, Discussions!Holds
<1> QED
  BY <1>2, <1>3, <1>4, <1>5, <1>6, <1>7, <1>8, <1>9, <1>10 DEF Discussions!DiscussionsNext

\* What a client of the discussions was told holds in memory and in the file,
\* and what is shown as answered has an accepted answer.
LEMMA DiscussionsTrue ==
  DiscussionInv => Discussions!PromisesKept /\ Discussions!AnsweredShown
BY DEF DiscussionInv, Discussions!AnsweredShown, ShownRight, Thread

(***************************************************************************)
(* The wiki.  An edit is younger than all before it, and no operation but  *)
(* the deletion of a page takes a page out of the sequence, wherever it is *)
(* in it.                                                                  *)
(***************************************************************************)
Page == [id : Nat, slug : Slug, edit : Nat]
KeptIn(k, s) == \E i \in 1 .. Len(s) : s[i].id = k.id /\ s[i].edit >= k.edit

WikiInv ==
  /\ pages \in Seq(Page) /\ pagesFile \in Seq(Page) /\ pagesMade \in Nat /\ edits \in Nat
  /\ kept \subseteq [id : Nat, edit : Nat]
  /\ \A i \in 1 .. Len(pages) : pages[i].edit <= edits
  /\ \A i \in 1 .. Len(pagesFile) : pagesFile[i].edit <= edits
  /\ \A k \in kept : KeptIn(k, pages) /\ KeptIn(k, pagesFile)

\* Taking out the element at i moves those behind it up.
LEMMA Removal ==
  ASSUME NEW S, NEW s \in Seq(S), NEW i \in 1 .. Len(s)
  PROVE  /\ Wiki!RemoveAt(s, i) \in Seq(S) /\ Len(Wiki!RemoveAt(s, i)) = Len(s) - 1
         /\ \A j \in 1 .. Len(s) - 1 :
              Wiki!RemoveAt(s, i)[j] = IF j < i THEN s[j] ELSE s[j + 1]
<1> DEFINE n == Len(s)
           front == SubSeq(s, 1, i - 1)
           back == SubSeq(s, i + 1, n)
<1>1. n \in Nat /\ i \in Nat /\ 1 <= i /\ i <= n
  OBVIOUS
<1>2. front \in Seq(S) /\ Len(front) = i - 1 /\ \A j \in 1 .. i - 1 : front[j] = s[j]
  BY <1>1
<1>3. back \in Seq(S) /\ Len(back) = n - i /\ \A j \in 1 .. n - i : back[j] = s[j + i]
  <2>1. \A j \in 1 .. n - i : back[j] = s[(i + 1) + j - 1] /\ (i + 1) + j - 1 = j + i
    BY <1>1
  <2>2. back \in Seq(S) /\ Len(back) = n - i
    BY <1>1
  <2> QED
    BY <2>1, <2>2
<1>4. Wiki!RemoveAt(s, i) = front \o back
  BY DEF Wiki!RemoveAt
<1> HIDE DEF front, back, n
<1>5. /\ front \o back \in Seq(S) /\ Len(front \o back) = (i - 1) + (n - i)
      /\ \A j \in 1 .. (i - 1) + (n - i) :
           (front \o back)[j] = IF j <= i - 1 THEN front[j] ELSE back[j - (i - 1)]
  <2>1. /\ front \o back \in Seq(S) /\ Len(front \o back) = Len(front) + Len(back)
        /\ \A j \in 1 .. Len(front) + Len(back) :
             (front \o back)[j] = IF j <= Len(front) THEN front[j] ELSE back[j - Len(front)]
    BY <1>2, <1>3, ConcatProperties
  <2> QED
    BY <1>2, <1>3, <2>1
<1>6. (i - 1) + (n - i) = n - 1
  BY <1>1
<1>7. ASSUME NEW j \in 1 .. n - 1
      PROVE  (front \o back)[j] = IF j < i THEN s[j] ELSE s[j + 1]
  <2>1. CASE j <= i - 1
    <3>1. j \in 1 .. i - 1 /\ j < i
      BY <1>1, <2>1
    <3> QED
      BY <1>2, <1>5, <1>6, <2>1, <3>1
  <2>2. CASE ~(j <= i - 1)
    <3>1. j - (i - 1) \in 1 .. n - i /\ (j - (i - 1)) + i = j + 1 /\ ~(j < i)
      BY <1>1, <2>2
    <3> QED
      BY <1>3, <1>5, <1>6, <2>2, <3>1
  <2> QED
    BY <2>1, <2>2
<1> QED
  BY <1>4, <1>5, <1>6, <1>7 DEF n

LEMMA WikiStep == WikiInv /\ Wiki!WikiNext => WikiInv'
<1> SUFFICES ASSUME WikiInv, Wiki!WikiNext PROVE WikiInv'
  OBVIOUS
<1>1. /\ pages \in Seq(Page) /\ Len(pages) \in Nat /\ pagesMade \in Nat /\ edits \in Nat
      /\ \A i \in 1 .. Len(pages) : pages[i] \in Page /\ pages[i].edit \in Nat
      /\ \A i \in 1 .. Len(pagesFile) : pagesFile[i].edit \in Nat
      /\ \A k \in kept : k.edit \in Nat
  <2>1. /\ pages \in Seq(Page) /\ pagesFile \in Seq(Page) /\ pagesMade \in Nat /\ edits \in Nat
        /\ kept \subseteq [id : Nat, edit : Nat]
    BY DEF WikiInv
  <2>2. \A p \in Page : p.edit \in Nat
    BY DEF Page
  <2>3. /\ \A i \in 1 .. Len(pages) : pages[i] \in Page
        /\ \A i \in 1 .. Len(pagesFile) : pagesFile[i] \in Page
        /\ Len(pages) \in Nat
    BY <2>1
  <2> QED
    BY <2>1, <2>2, <2>3
\* A save that succeeds writes memory, one that fails nothing.
<1>2. ASSUME NEW ok \in BOOLEAN, Wiki!SaveLocked(ok), pages' \in Seq(Page),
             pagesMade' \in Nat, edits' \in Nat, edits <= edits',
             \A i \in 1 .. Len(pages') : pages'[i].edit <= edits',
             kept' \subseteq [id : Nat, edit : Nat],
             \A k \in kept' : KeptIn(k, pages') /\ (~ok => k \in kept)
      PROVE  WikiInv'
  <2>1. CASE ok /\ pagesFile' = pages'
    <3>1. pagesFile' \in Seq(Page) /\ \A i \in 1 .. Len(pagesFile') : pagesFile'[i].edit <= edits'
      BY <1>2, <2>1
    <3>2. \A k \in kept' : KeptIn(k, pages') /\ KeptIn(k, pagesFile')
      BY <1>2, <2>1
    <3> QED
      BY <1>2, <3>1, <3>2 DEF WikiInv, KeptIn
  <2>2. CASE ~ok /\ pagesFile' = pagesFile
    <3>1. \A i \in 1 .. Len(pagesFile) : pagesFile[i].edit <= edits'
      BY <1>1, <1>2 DEF WikiInv
    <3>2. pagesFile \in Seq(Page) /\ \A k \in kept : KeptIn(k, pagesFile)
      BY DEF WikiInv
    <3> QED
      BY <1>2, <2>2, <3>1, <3>2 DEF WikiInv, KeptIn
  <2> QED
    BY <1>2, <2>1, <2>2 DEF Wiki!SaveLocked
<1>3. ASSUME NEW slug \in Slug, NEW ok \in BOOLEAN, Wiki!Create(slug, ok) PROVE WikiInv'
  <2> DEFINE page == [id |-> pagesMade + 1, slug |-> slug, edit |-> 0]
  <2>1. /\ page \in Page /\ pagesMade' \in Nat /\ edits' = edits /\ pages' = Append(pages, page)
        /\ Wiki!SaveLocked(ok) /\ kept' = IF ok THEN kept \cup {[id |-> page.id, edit |-> 0]}
                                          ELSE kept
    BY <1>1, <1>3 DEF Wiki!Create, Wiki!Keep, Page
  <2>2. page.id \in Nat /\ page.edit = 0
    BY <1>1
  <2> HIDE DEF page
  <2>3. /\ pages' \in Seq(Page) /\ Len(pages') = Len(pages) + 1
        /\ pages'[Len(pages) + 1] = page
        /\ \A i \in 1 .. Len(pages) : pages'[i] = pages[i]
    BY <1>1, <2>1
  <2>4. \A i \in 1 .. Len(pages') : pages'[i].edit <= edits'
    <3> SUFFICES ASSUME NEW i \in 1 .. Len(pages') PROVE pages'[i].edit <= edits'
      OBVIOUS
    <3>1. CASE i = Len(pages) + 1
      BY <1>1, <2>1, <2>2, <2>3, <3>1
    <3>2. CASE i \in 1 .. Len(pages)
      BY <2>1, <2>3, <3>2 DEF WikiInv
    <3> QED
      BY <1>1, <2>3, <3>1, <3>2
  <2>5. ASSUME NEW k \in kept PROVE KeptIn(k, pages')
    <3>1. PICK j \in 1 .. Len(pages) : pages[j].id = k.id /\ pages[j].edit >= k.edit
      BY DEF WikiInv, KeptIn
    <3>2. j \in 1 .. Len(pages')
      BY <1>1, <2>3
    <3> QED
      BY <2>3, <3>1, <3>2 DEF KeptIn
  <2>6. KeptIn([id |-> page.id, edit |-> 0], pages')
    BY <1>1, <2>2, <2>3 DEF KeptIn
  <2>7. kept' \subseteq [id : Nat, edit : Nat]
          /\ \A k \in kept' : KeptIn(k, pages') /\ (~ok => k \in kept)
    BY <2>1, <2>2, <2>5, <2>6 DEF WikiInv
  <2> QED
    BY <1>1, <1>2, <2>1, <2>3, <2>4, <2>7
<1>4. ASSUME NEW slug \in Slug, NEW ok \in BOOLEAN, Wiki!Update(slug, ok) PROVE WikiInv'
  <2>1. PICK i \in 1 .. Len(pages) :
          /\ pages' = [pages EXCEPT ![i].edit = edits'] /\ Wiki!SaveLocked(ok)
          /\ Wiki!Keep(ok, pages'[i])
    <3>1. DOMAIN pages = 1 .. Len(pages)
      BY <1>1
    <3> QED
      BY <1>4, <3>1 DEF Wiki!Update
  <2>2. edits' = edits + 1 /\ edits' \in Nat /\ pagesMade' = pagesMade
    BY <1>1, <1>4 DEF Wiki!Update
  <2>3. pages[i] \in Page
    BY <1>1
  <2>4. /\ pages' \in Seq(Page) /\ Len(pages') = Len(pages)
        /\ pages'[i] = [pages[i] EXCEPT !.edit = edits']
        /\ \A j \in 1 .. Len(pages) : j # i => pages'[j] = pages[j]
    <3>1. [pages[i] EXCEPT !.edit = edits'] \in Page
      BY <2>2, <2>3 DEF Page
    <3> QED
      BY <1>1, <2>1, <3>1
  <2>5. pages'[i].id = pages[i].id /\ pages'[i].edit = edits' /\ pages'[i].id \in Nat
    BY <2>3, <2>4 DEF Page
  <2>6. \A j \in 1 .. Len(pages) : pages[j].edit <= edits'
    BY <1>1, <2>2 DEF WikiInv
  <2>7. \A j \in 1 .. Len(pages') : pages'[j].edit <= edits'
    <3> SUFFICES ASSUME NEW j \in 1 .. Len(pages) PROVE pages'[j].edit <= edits'
      BY <2>4
    <3>1. CASE j = i
      BY <2>2, <2>5, <3>1
    <3>2. CASE j # i
      BY <2>4, <2>6, <3>2
    <3> QED
      BY <3>1, <3>2
  <2>8. ASSUME NEW k \in kept PROVE KeptIn(k, pages')
    <3>1. PICK j \in 1 .. Len(pages) : pages[j].id = k.id /\ pages[j].edit >= k.edit
      BY DEF WikiInv, KeptIn
    <3>2. CASE j = i
      <4>1. k.edit \in Nat /\ pages[i].edit \in Nat /\ pages[i].edit <= edits'
        BY <1>1, <2>6
      <4>2. edits' >= k.edit
        BY <2>2, <3>1, <3>2, <4>1
      <4>3. pages'[i].id = k.id /\ pages'[i].edit >= k.edit
        BY <2>5, <3>1, <3>2, <4>2
      <4> QED
        BY <2>4, <4>3 DEF KeptIn
    <3>3. CASE j # i
      BY <2>4, <3>1, <3>3 DEF KeptIn
    <3> QED
      BY <3>2, <3>3
  <2>9. KeptIn([id |-> pages'[i].id, edit |-> pages'[i].edit], pages')
    <3>1. pages'[i].edit >= pages'[i].edit
      BY <2>2, <2>5
    <3> QED
      BY <2>4, <3>1 DEF KeptIn
  <2>10. kept' = IF ok THEN kept \cup {[id |-> pages'[i].id, edit |-> pages'[i].edit]} ELSE kept
    BY <2>1 DEF Wiki!Keep
  <2>11. kept' \subseteq [id : Nat, edit : Nat]
           /\ \A k \in kept' : KeptIn(k, pages') /\ (~ok => k \in kept)
    BY <2>2, <2>5, <2>8, <2>9, <2>10 DEF WikiInv
  <2>12. edits <= edits' /\ pagesMade' \in Nat
    BY <1>1, <2>2
  <2> QED
    BY <1>2, <2>1, <2>2, <2>4, <2>7, <2>11, <2>12
<1>5. ASSUME NEW slug \in Slug, NEW ok \in BOOLEAN, Wiki!Delete(slug, ok) PROVE WikiInv'
  <2>1. PICK i \in 1 .. Len(pages) :
          /\ pages' = Wiki!RemoveAt(pages, i) /\ Wiki!SaveLocked(ok)
          /\ kept' = {k \in kept : k.id # pages[i].id}
    BY <1>1, <1>5 DEF Wiki!Delete
  <2>2. UNCHANGED <<pagesMade, edits>>
    BY <1>5 DEF Wiki!Delete
  <2> DEFINE n == Len(pages)
  <2>5. pages' \in Seq(Page) /\ Len(pages') = n - 1
    BY <1>1, <2>1, Removal
  <2>6. \A j \in 1 .. n - 1 : pages'[j] = IF j < i THEN pages[j] ELSE pages[j + 1]
    BY <1>1, <2>1, Removal
  <2>7. \A j \in 1 .. Len(pages') : pages'[j].edit <= edits'
    <3> SUFFICES ASSUME NEW j \in 1 .. n - 1 PROVE pages'[j].edit <= edits
      BY <2>2, <2>5
    <3>1. j \in 1 .. n /\ j + 1 \in 1 .. n
      BY <1>1
    <3>2. pages[j].edit <= edits /\ pages[j + 1].edit <= edits
      BY <3>1 DEF WikiInv
    <3>3. pages'[j] = pages[j] \/ pages'[j] = pages[j + 1]
      BY <2>6
    <3> QED
      BY <3>2, <3>3
  <2>8. ASSUME NEW k \in kept, k.id # pages[i].id PROVE KeptIn(k, pages')
    <3>1. PICK j \in 1 .. n : pages[j].id = k.id /\ pages[j].edit >= k.edit
      BY DEF WikiInv, KeptIn
    <3>2. CASE j < i
      <4>1. j \in 1 .. n - 1 /\ pages'[j] = pages[j]
        BY <1>1, <2>6, <3>2
      <4> QED
        BY <2>5, <3>1, <4>1 DEF KeptIn
    <3>3. CASE j > i
      <4>1. j - 1 \in 1 .. n - 1 /\ pages'[j - 1] = pages[j]
        BY <1>1, <2>6, <3>3
      <4> QED
        BY <2>5, <3>1, <4>1 DEF KeptIn
    <3> QED
      BY <1>1, <2>8, <3>1, <3>2, <3>3
  <2>9. kept' \subseteq [id : Nat, edit : Nat]
          /\ \A k \in kept' : KeptIn(k, pages') /\ (~ok => k \in kept)
    BY <2>1, <2>8 DEF WikiInv
  <2>10. pagesMade' \in Nat /\ edits' \in Nat /\ edits <= edits'
    BY <1>1, <2>2
  <2> QED
    BY <1>2, <2>1, <2>5, <2>7, <2>9, <2>10
<1>6. CASE Wiki!Crash
  BY <1>6 DEF Wiki!Crash, WikiInv, KeptIn
<1> QED
  BY <1>3, <1>4, <1>5, <1>6 DEF Wiki!WikiNext

\* A page or an edit that was acknowledged is in memory and in the file.
LEMMA WikiTrue == WikiInv => Wiki!PagesKept
<1> SUFFICES ASSUME WikiInv, NEW k \in kept, NEW s \in {pages, pagesFile}
             PROVE  \E p \in Wiki!ToSet(s) : p.id = k.id /\ p.edit >= k.edit
  BY DEF Wiki!PagesKept
<1>1. s \in Seq(Page) /\ KeptIn(k, s)
  BY DEF WikiInv
<1>2. \A i \in 1 .. Len(s) : s[i] \in Wiki!ToSet(s)
  BY <1>1 DEF Wiki!ToSet
<1> QED
  BY <1>1, <1>2 DEF KeptIn

(***************************************************************************)
(* The boards.  A new card is new everywhere, a card that moves is taken   *)
(* out of the only column that has it, and what a request that succeeded   *)
(* says of a card is in the file that its save wrote.                      *)
(***************************************************************************)
Board == [id : Nat \ {0}, cards : [Column -> SUBSET Nat]]
Placement == [board : Nat, card : Nat, column : Column]

\* Boards whose cards, of those up to n, are each in one column of one board.
Whole(S, n) ==
  /\ S \subseteq Board
  /\ \A a \in S : \A c \in Column : \A card \in a.cards[c] : card <= n
  /\ \A a, b \in S : \A c, d \in Column : a.cards[c] \cap b.cards[d] # {} => a = b /\ c = d

\* Board b has the card, and, if there were no faults, where it was put.
Bears(b, p, n) ==
  /\ b.id = p.board /\ p.card \in Projects!CardsOf(b)
  /\ n = 0 => p.card \in b.cards[p.column]

ProjectInv ==
  /\ cardsMade \in Nat /\ boardFaults \in Nat /\ placed \subseteq Placement
  /\ Whole(boards, cardsMade)
  /\ boardsFile = Projects!Torn \/ Whole(boardsFile, cardsMade)
  /\ boardsFile = Projects!Torn => cut
  /\ ~cut => \A p \in placed :
               (\E b \in boards : Bears(b, p, boardFaults))
                 /\ (\E b \in boardsFile : Bears(b, p, boardFaults))

LEMMA CardsOfBoard == \A b : \A card :
  card \in Projects!CardsOf(b) <=> \E c \in Column : card \in b.cards[c]
BY DEF Projects!CardsOf

\* A board that is changed keeps the boards whole.
LEMMA PutBoard ==
  ASSUME NEW S, NEW n \in Nat, NEW m \in Nat, n <= m, Whole(S, n), NEW b \in S,
         NEW new \in Board,
         \A c \in Column : \A card \in new.cards[c] :
           card \in Projects!CardsOf(b) \/ (card > n /\ card <= m),
         \A c, d \in Column : new.cards[c] \cap new.cards[d] # {} => c = d
  PROVE  Whole((S \ {b}) \cup {new}, m)
<1> DEFINE T == (S \ {b}) \cup {new}
<1>1. \A a \in S : a \in Board /\ \A c \in Column : a.cards[c] \subseteq Nat
  BY DEF Whole, Board
<1>2. \A c \in Column : new.cards[c] \subseteq Nat
  BY DEF Board
<1>3. \A a \in S \cup {new} : \A c \in Column : \A card \in a.cards[c] : card <= m
  <2>1. \A a \in S : \A c \in Column : \A card \in a.cards[c] : card <= m
    BY <1>1 DEF Whole
  <2>2. \A c \in Column : \A card \in new.cards[c] : card <= m
    BY <2>1, CardsOfBoard
  <2> QED
    BY <2>1, <2>2
<1>4. ASSUME NEW a \in S \ {b}, NEW c \in Column, NEW d \in Column
      PROVE  a.cards[c] \cap new.cards[d] = {}
  <2> SUFFICES ASSUME NEW card \in a.cards[c], card \in new.cards[d] PROVE FALSE
    OBVIOUS
  <2>1. card \in Nat /\ card <= n
    BY <1>1 DEF Whole
  <2>2. card \in Projects!CardsOf(b)
    BY <2>1
  <2>3. PICK e \in Column : card \in b.cards[e]
    BY <2>2, CardsOfBoard
  <2>4. a.cards[c] \cap b.cards[e] # {}
    BY <2>3
  <2> QED
    BY <2>4 DEF Whole
<1>5. \A a1, a2 \in T : \A c, d \in Column :
        a1.cards[c] \cap a2.cards[d] # {} => a1 = a2 /\ c = d
  <2> SUFFICES ASSUME NEW a1 \in T, NEW a2 \in T, NEW c \in Column, NEW d \in Column,
                      a1.cards[c] \cap a2.cards[d] # {}
               PROVE  a1 = a2 /\ c = d
    OBVIOUS
  <2>1. CASE a1 \in S \ {b} /\ a2 \in S \ {b}
    BY <2>1 DEF Whole
  <2>2. CASE a1 = new /\ a2 = new
    BY <2>2
  <2>3. CASE a1 \in S \ {b} /\ a2 = new
    BY <1>4, <2>3
  <2>4. CASE a1 = new /\ a2 \in S \ {b}
    BY <1>4, <2>4
  <2> QED
    BY <2>1, <2>2, <2>3, <2>4
<1> QED
  BY <1>1, <1>3, <1>5 DEF Whole

LEMMA TornIsNoBoard == ~(Projects!Torn \subseteq Board)
<1>1. [id |-> 0, cards |-> <<>>] \in Projects!Torn
  BY DEF Projects!Torn
<1>2. \A b \in Board : b.id # 0
  BY DEF Board
<1> QED
  BY <1>1, <1>2

LEMMA ProjectStep == ProjectInv /\ Projects!ProjectsNext => ProjectInv'
<1> SUFFICES ASSUME ProjectInv, Projects!ProjectsNext PROVE ProjectInv'
  OBVIOUS
<1>1. /\ cardsMade \in Nat /\ boardFaults \in Nat /\ placed \subseteq Placement
      /\ boards \subseteq Board /\ Whole(boards, cardsMade)
  BY DEF ProjectInv, Whole
\* A save writes memory, leaves the file or spoils it.
<1>2. ASSUME NEW how \in Projects!Outcome, Projects!Save(how), cardsMade' \in Nat,
             cardsMade <= cardsMade', Whole(boards', cardsMade'), placed' \subseteq Placement,
             ~cut => \A p \in placed' :
               /\ \E b \in boards' : Bears(b, p, IF how = "ok" THEN boardFaults ELSE 1)
               /\ how # "ok" => p \in placed
      PROVE  ProjectInv'
  <2>1. CASE how = "ok"
    <3>1. boardsFile' = boards' /\ boardFaults' = boardFaults /\ cut' = cut
      BY <2>1 , <1>2 DEF Projects!Save
    <3>2. boards' # Projects!Torn
      BY <1>2, TornIsNoBoard DEF Whole
    <3> QED
      BY <1>1, <1>2, <2>1, <3>1, <3>2 DEF ProjectInv
  <2>2. CASE how = "refused"
    <3>1. boardsFile' = boardsFile /\ boardFaults' = boardFaults + 1 /\ cut' = cut
      BY <1>2, <2>2 DEF Projects!Save, Projects!Fault
    <3>2. boardFaults' \in Nat /\ boardFaults' # 0
      BY <1>1, <3>1
    <3>3. boardsFile # Projects!Torn => Whole(boardsFile, cardsMade')
      <4> SUFFICES ASSUME Whole(boardsFile, cardsMade) PROVE Whole(boardsFile, cardsMade')
        BY DEF ProjectInv
      <4>1. \A a \in boardsFile : \A c \in Column : a.cards[c] \subseteq Nat
        BY DEF Whole, Board
      <4> QED
        BY <1>1, <1>2, <4>1 DEF Whole
    <3>4. \A p, b : Bears(b, p, boardFaults) \/ Bears(b, p, 1) => Bears(b, p, boardFaults')
      BY <3>2 DEF Bears
    <3>5. ~cut => \A p \in placed' : \E b \in boardsFile : Bears(b, p, boardFaults')
      BY <1>2, <2>2, <3>4 DEF ProjectInv
    <3>6. ~cut => \A p \in placed' : \E b \in boards' : Bears(b, p, boardFaults')
      BY <1>2, <2>2, <3>4
    <3> QED
      BY <1>2, <3>1, <3>2, <3>3, <3>5, <3>6 DEF ProjectInv
  <2>3. CASE how = "cut"
    <3>1. boardsFile' = Projects!Torn /\ boardFaults' = boardFaults + 1 /\ cut'
      BY <1>2, <2>3 DEF Projects!Save, Projects!Fault
    <3> QED
      BY <1>1, <1>2, <3>1 DEF ProjectInv
  <2> QED
    BY <1>2, <2>1, <2>2, <2>3 DEF Projects!Outcome
\* Cards of boards that a request leaves alone.
<1>3. ASSUME NEW b \in boards, NEW new, boards' = (boards \ {b}) \cup {new}, ~cut,
             NEW p \in placed, NEW n \in {boardFaults, 1},
             Bears(b, p, n) => Bears(new, p, n)
      PROVE  \E o \in boards' : Bears(o, p, n)
  <2>1. PICK o \in boards : Bears(o, p, boardFaults)
    BY <1>3 DEF ProjectInv
  <2>2. Bears(o, p, n)
    BY <1>3, <2>1 DEF Bears
  <2> QED
    BY <1>3, <2>2
<1>4. ASSUME NEW how \in Projects!Outcome, Projects!Create(how) PROVE ProjectInv'
  <2> DEFINE new == [id |-> cardsMade', cards |-> [c \in Column |-> {}]]
  <2>1. /\ cardsMade' = cardsMade + 1 /\ boards' = boards \cup {new} /\ placed' = placed
        /\ Projects!Save(how)
    BY <1>4 DEF Projects!Create
  <2>2. cardsMade' \in Nat \ {0} /\ cardsMade <= cardsMade'
    BY <1>1, <2>1
  <2>3. new \in Board /\ \A c \in Column : new.cards[c] = {}
    BY <2>2 DEF Board
  <2> HIDE DEF new
  <2>4. Whole(boards', cardsMade')
    <3>1. \A a \in boards : \A c \in Column : a.cards[c] \subseteq Nat
      BY <1>1 DEF Board
    <3>2. \A a \in boards : \A c \in Column : \A card \in a.cards[c] : card <= cardsMade'
      BY <1>1, <2>2, <3>1 DEF Whole
    <3> QED
      BY <1>1, <2>1, <2>3, <3>2 DEF Whole
  <2>5. ~cut => \A p \in placed :
          \E b \in boards' : Bears(b, p, IF how = "ok" THEN boardFaults ELSE 1)
    BY <2>1 DEF ProjectInv, Bears
  <2> QED
    BY <1>1, <1>2, <2>1, <2>2, <2>4, <2>5
\* A request that changes the cards of one board.
<1>5. ASSUME NEW b \in boards, NEW cards \in [Column -> SUBSET Nat],
             Projects!Put(b, cards), NEW m \in Nat, cardsMade <= m,
             \A c \in Column : \A card \in cards[c] :
               card \in Projects!CardsOf(b) \/ (card > cardsMade /\ card <= m),
             \A c, d \in Column : cards[c] \cap cards[d] # {} => c = d
      PROVE  /\ Whole(boards', m)
             /\ \E new \in boards' : /\ new.id = b.id /\ new.cards = cards
                                     /\ boards' = (boards \ {b}) \cup {new}
  <2> DEFINE new == [b EXCEPT !.cards = cards]
  <2>1. boards' = (boards \ {b}) \cup {new}
    BY <1>5 DEF Projects!Put
  <2>2. b \in Board
    BY <1>1
  <2>3. new \in Board /\ new.id = b.id /\ new.cards = cards
    BY <1>5, <2>2 DEF Board
  <2> HIDE DEF new
  <2>4. Whole((boards \ {b}) \cup {new}, m)
    BY <1>1, <1>5, <2>3, PutBoard
  <2> QED
    BY <2>1, <2>3, <2>4
<1>6. \A b \in boards : /\ b \in Board /\ b.cards \in [Column -> SUBSET Nat] /\ b.id \in Nat
                        /\ \A c, d \in Column : b.cards[c] \cap b.cards[d] # {} => c = d
  BY <1>1 DEF Whole, Board
<1>7. ASSUME NEW how \in Projects!Outcome, NEW b \in boards, NEW c \in Column,
             Projects!AddCard(b, c, how)
      PROVE  ProjectInv'
  <2> DEFINE m == cardsMade'
             cards == [b.cards EXCEPT ![c] = @ \cup {m}]
             place == [board |-> b.id, card |-> m, column |-> c]
  <2>1. /\ cardsMade' = cardsMade + 1 /\ Projects!Put(b, cards)
        /\ Projects!Save(how) /\ Projects!Place(how, b, m, c)
    BY <1>7 DEF Projects!AddCard
  <2>2. m \in Nat /\ cardsMade <= m /\ m > cardsMade /\ cardsMade' \in Nat
    BY <1>1, <2>1
  <2> HIDE DEF m
  <2>3. /\ cards \in [Column -> SUBSET Nat]
        /\ \A d \in Column : b.cards[d] \subseteq cards[d]
        /\ \A d \in Column : cards[d] \subseteq b.cards[d] \cup {m}
        /\ \A d \in Column : m \in cards[d] => m \in b.cards[d] \/ d = c
        /\ m \in cards[c]
    BY <1>6, <2>2
  <2> HIDE DEF cards
  <2>4. \A d \in Column : m \notin b.cards[d]
    <3>1. \A d \in Column : \A card \in b.cards[d] : card <= cardsMade
      BY <1>1 DEF Whole
    <3> QED
      BY <1>1, <2>2, <3>1
  <2>5. \A d \in Column : \A card \in cards[d] :
          card \in Projects!CardsOf(b) \/ (card > cardsMade /\ card <= m)
    <3> SUFFICES ASSUME NEW d \in Column, NEW card \in cards[d],
                        card \notin Projects!CardsOf(b)
                 PROVE  card = m
      BY <2>2
    <3> QED
      BY <2>3, CardsOfBoard
  <2>6. \A d, e \in Column : cards[d] \cap cards[e] # {} => d = e
    <3> SUFFICES ASSUME NEW d \in Column, NEW e \in Column, NEW card \in cards[d],
                        card \in cards[e]
                 PROVE  d = e
      OBVIOUS
    <3>1. CASE card = m
      BY <2>3, <2>4, <3>1
    <3>2. CASE card # m
      BY <1>6, <2>3, <3>2
    <3> QED
      BY <3>1, <3>2
  <2>7. /\ Whole(boards', m)
        /\ \E new \in boards' : /\ new.id = b.id /\ new.cards = cards
                                /\ boards' = (boards \ {b}) \cup {new}
    BY <1>5, <2>1, <2>2, <2>3, <2>5, <2>6
  <2>8. PICK new \in boards' : /\ new.id = b.id /\ new.cards = cards
                               /\ boards' = (boards \ {b}) \cup {new}
    BY <2>7
  <2>9. place \in Placement /\ \A n : Bears(new, place, n)
    BY <1>6, <2>2, <2>3, <2>8, CardsOfBoard DEF Placement, Bears
  <2>10. ASSUME NEW p \in placed, NEW n, Bears(b, p, n) PROVE Bears(new, p, n)
    <3>1. p.column \in Column
      BY <1>1 DEF Placement
    <3> QED
      BY <2>3, <2>8, <2>10, <3>1, CardsOfBoard DEF Bears
  <2>11. placed' \subseteq placed \cup {place} /\ (how # "ok" => placed' = placed)
    BY <2>1 DEF Projects!Place
  <2>12. placed' \subseteq Placement
    BY <1>1, <2>9, <2>11
  <2>13. ~cut => \A p \in placed' :
           \E o \in boards' : Bears(o, p, IF how = "ok" THEN boardFaults ELSE 1)
    BY <1>3, <2>8, <2>9, <2>10, <2>11
  <2>14. Whole(boards', cardsMade')
    BY <2>7 DEF m
  <2>15. /\ cardsMade' \in Nat /\ cardsMade <= cardsMade' /\ Projects!Save(how)
         /\ \A p \in placed' : how # "ok" => p \in placed
    BY <2>1, <2>2, <2>11 DEF m
  <2> QED
    BY <1>2, <2>12, <2>13, <2>14, <2>15
\* What is left of a board without a card.
<1>8. ASSUME NEW b \in boards, NEW card
      PROVE  /\ Projects!Removed(b, card) \in [Column -> SUBSET Nat]
             /\ \A c \in Column : Projects!Removed(b, card)[c] = b.cards[c] \ {card}
  BY <1>6 DEF Projects!Removed
<1>9. ASSUME NEW b \in boards, NEW card, Projects!Put(b, Projects!Removed(b, card))
      PROVE  /\ Whole(boards', cardsMade)
             /\ ~cut => \A p \in placed : p.card # card =>
                  \A n \in {boardFaults, 1} : \E o \in boards' : Bears(o, p, n)
  <2> DEFINE cards == Projects!Removed(b, card)
  <2>1. cards \in [Column -> SUBSET Nat] /\ \A c \in Column : cards[c] = b.cards[c] \ {card}
    BY <1>8
  <2>2. Projects!Put(b, cards)
    BY <1>9
  <2> HIDE DEF cards
  <2>3. \A c \in Column : \A k \in cards[c] : k \in Projects!CardsOf(b)
    BY <2>1, CardsOfBoard
  <2>4. \A c, d \in Column : cards[c] \cap cards[d] # {} => c = d
    <3>1. \A c, d \in Column : cards[c] \cap cards[d] \subseteq b.cards[c] \cap b.cards[d]
      BY <2>1
    <3> QED
      BY <1>6, <3>1
  <2>5. /\ Whole(boards', cardsMade)
        /\ \E new \in boards' : /\ new.id = b.id /\ new.cards = cards
                                /\ boards' = (boards \ {b}) \cup {new}
    <3>1. cardsMade \in Nat /\ cardsMade <= cardsMade
      BY <1>1
    <3> QED
      BY <1>5, <2>1, <2>2, <2>3, <2>4, <3>1
  <2>6. PICK new \in boards' : /\ new.id = b.id /\ new.cards = cards
                               /\ boards' = (boards \ {b}) \cup {new}
    BY <2>5
  <2>7. ASSUME NEW p \in placed, p.card # card, NEW n, Bears(b, p, n)
        PROVE  Bears(new, p, n)
    <3>1. p.column \in Column
      BY <1>1 DEF Placement
    <3> QED
      BY <2>1, <2>6, <2>7, <3>1, CardsOfBoard DEF Bears
  <2> QED
    BY <1>3, <2>5, <2>6, <2>7
<1>10. ASSUME NEW how \in Projects!Outcome, NEW b \in boards, NEW card,
              Projects!DeleteCard(b, card, how)
       PROVE  ProjectInv'
  <2>1. /\ Projects!Put(b, Projects!Removed(b, card)) /\ Projects!Save(how)
        /\ placed' = {p \in placed : p.card # card} /\ cardsMade' = cardsMade
    BY <1>10 DEF Projects!DeleteCard
  <2>2. /\ Whole(boards', cardsMade)
        /\ ~cut => \A p \in placed : p.card # card =>
             \A n \in {boardFaults, 1} : \E o \in boards' : Bears(o, p, n)
    BY <1>9, <2>1
  <2>3. /\ cardsMade' \in Nat /\ cardsMade <= cardsMade' /\ placed' \subseteq placed
        /\ Whole(boards', cardsMade')
    BY <1>1, <2>1, <2>2
  <2>4. ~cut => \A p \in placed' :
          /\ \E o \in boards' : Bears(o, p, IF how = "ok" THEN boardFaults ELSE 1)
          /\ p \in placed
    BY <2>1, <2>2
  <2> QED
    BY <1>1, <1>2, <2>1, <2>3, <2>4
<1>11. ASSUME NEW how \in Projects!Outcome, NEW b \in boards, NEW card,
              NEW target \in Column \cup {Elsewhere}, Projects!MoveCard(b, card, target, how)
       PROVE  ProjectInv'
  <2>1. card \in Projects!CardsOf(b) /\ cardsMade' = cardsMade /\ cardsMade' \in Nat
        /\ cardsMade <= cardsMade'
    BY <1>1, <1>11 DEF Projects!MoveCard
  <2>2. card \in Nat /\ card <= cardsMade
    <3>1. PICK c \in Column : card \in b.cards[c]
      BY <2>1, CardsOfBoard
    <3> QED
      BY <1>1, <1>6, <3>1 DEF Whole
  <2>3. CASE target \in Column
    <3> DEFINE cards == [Projects!Removed(b, card) EXCEPT ![target] = @ \cup {card}]
               place == [board |-> b.id, card |-> card, column |-> target]
    <3>1. /\ Projects!Put(b, cards) /\ Projects!Save(how)
          /\ Projects!Place(how, b, card, target)
      BY <1>11, <2>3 DEF Projects!MoveCard
    <3>2. cards \in [Column -> SUBSET Nat]
      BY <1>8, <2>2, <2>3
    <3>3. \A c \in Column : cards[c] = (b.cards[c] \ {card}) \cup (IF c = target THEN {card} ELSE {})
      BY <1>8, <2>3
    <3> HIDE DEF cards
    <3>4. \A c \in Column : \A k \in cards[c] : k \in Projects!CardsOf(b)
      BY <2>1, <3>3, CardsOfBoard
    <3>5. \A c, d \in Column : cards[c] \cap cards[d] # {} => c = d
      <4> SUFFICES ASSUME NEW c \in Column, NEW d \in Column, NEW k \in cards[c], k \in cards[d]
                   PROVE  c = d
        OBVIOUS
      <4>1. CASE k = card
        BY <3>3, <4>1
      <4>2. CASE k # card
        <5>1. k \in b.cards[c] \cap b.cards[d]
          BY <3>3, <4>2
        <5> QED
          BY <1>6, <5>1
      <4> QED
        BY <4>1, <4>2
    <3>6. /\ Whole(boards', cardsMade)
          /\ \E new \in boards' : /\ new.id = b.id /\ new.cards = cards
                                  /\ boards' = (boards \ {b}) \cup {new}
      <4>1. cardsMade \in Nat /\ cardsMade <= cardsMade
        BY <1>1
      <4> QED
        BY <1>5, <3>1, <3>2, <3>4, <3>5, <4>1
    <3>7. PICK new \in boards' : /\ new.id = b.id /\ new.cards = cards
                                 /\ boards' = (boards \ {b}) \cup {new}
      BY <3>6
    <3>8. place \in Placement /\ \A n : Bears(new, place, n)
      BY <1>6, <2>2, <2>3, <3>3, <3>7, CardsOfBoard DEF Placement, Bears
    <3>9. ASSUME NEW p \in placed, NEW n \in Nat, Bears(b, p, n), p.card # card \/ n = 1
          PROVE  Bears(new, p, n)
      <4>1. p.column \in Column
        BY <1>1 DEF Placement
      <4>2. CASE p.card # card
        BY <3>3, <3>7, <3>9, <4>1, <4>2, CardsOfBoard DEF Bears
      <4>3. CASE p.card = card /\ n = 1
        BY <2>3, <3>3, <3>7, <3>9, <4>3, CardsOfBoard DEF Bears
      <4> QED
        BY <3>9, <4>2, <4>3
    <3>10. /\ \A p \in placed' : p = place \/ (p \in placed /\ (how = "ok" => p.card # card))
           /\ how # "ok" => placed' = placed
      BY <3>1 DEF Projects!Place
    <3>11. placed' \subseteq Placement
      BY <1>1, <3>8, <3>10
    <3>12. ASSUME ~cut, NEW p \in placed'
           PROVE  \E o \in boards' : Bears(o, p, IF how = "ok" THEN boardFaults ELSE 1)
      <4>1. CASE p = place
        BY <3>7, <3>8, <4>1
      <4>2. CASE p \in placed /\ how = "ok" /\ p.card # card
        BY <1>1, <1>3, <3>7, <3>9, <3>12, <4>2
      <4>3. CASE p \in placed /\ how # "ok"
        <5>1. Bears(b, p, 1) => Bears(new, p, 1)
          BY <3>9, <4>3
        <5> QED
          BY <1>3, <3>7, <3>12, <4>3, <5>1
      <4> QED
        BY <3>10, <4>1, <4>2, <4>3
    <3> QED
      BY <1>2, <2>1, <3>1, <3>6, <3>10, <3>11, <3>12
  <2>4. CASE target \notin Column
    <3>1. /\ Projects!Put(b, Projects!Removed(b, card))
          /\ placed' = {p \in placed : p.card # card}
          /\ boardsFile' = boardsFile /\ boardFaults' = boardFaults /\ cut' = cut
      BY <1>11, <2>4 DEF Projects!MoveCard
    <3>2. /\ Whole(boards', cardsMade)
          /\ ~cut => \A p \in placed' : \E o \in boards' : Bears(o, p, boardFaults)
      BY <1>9, <3>1
    <3> QED
      BY <1>1, <2>1, <3>1, <3>2 DEF ProjectInv
  <2> QED
    BY <2>3, <2>4
<1>12. ASSUME NEW how \in Projects!Outcome, NEW b \in boards, Projects!Delete(b, how)
       PROVE  ProjectInv'
  <2>1. /\ boards' = boards \ {b} /\ Projects!Save(how)
        /\ placed' = {p \in placed : p.board # b.id} /\ cardsMade' = cardsMade
    BY <1>12 DEF Projects!Delete
  <2>2. Whole(boards', cardsMade)
    BY <1>1, <2>1 DEF Whole
  <2>3. ~cut => \A p \in placed' :
          \E o \in boards' : Bears(o, p, boardFaults) /\ Bears(o, p, 1)
    <3> SUFFICES ASSUME ~cut, NEW p \in placed, p.board # b.id
                 PROVE  \E o \in boards' : Bears(o, p, boardFaults) /\ Bears(o, p, 1)
      BY <2>1
    <3>1. PICK o \in boards : Bears(o, p, boardFaults)
      BY DEF ProjectInv
    <3> QED
      BY <2>1, <3>1 DEF Bears
  <2>4. cardsMade' \in Nat /\ cardsMade <= cardsMade' /\ placed' \subseteq placed
    BY <1>1, <2>1
  <2> QED
    BY <1>1, <1>2, <2>1, <2>2, <2>3, <2>4
<1>13. ASSUME Projects!Crash PROVE ProjectInv'
  <2>1. /\ boardFaults' = boardFaults + 1 /\ boards' = Projects!Load
        /\ UNCHANGED <<boardsFile, cardsMade, cut, placed>>
    BY <1>13 DEF Projects!Crash, Projects!Fault
  <2>2. boardFaults' \in Nat /\ boardFaults' # 0
    BY <1>1, <2>1
  <2>3. Whole(boards', cardsMade)
    <3>1. Whole({}, cardsMade)
      BY DEF Whole
    <3> QED
      BY <2>1, <3>1 DEF ProjectInv, Projects!Load
  <2>4. ~cut => boards' = boardsFile
    BY <2>1 DEF ProjectInv, Projects!Load
  <2>5. \A b, p : Bears(b, p, boardFaults) => Bears(b, p, boardFaults')
    BY <2>2 DEF Bears
  <2>6. ~cut => \A p \in placed : \E b \in boardsFile : Bears(b, p, boardFaults')
    BY <2>5 DEF ProjectInv
  <2> QED
    BY <1>1, <2>1, <2>2, <2>3, <2>4, <2>6 DEF ProjectInv
<1> QED
  BY <1>4, <1>7, <1>10, <1>11, <1>12, <1>13 DEF Projects!ProjectsNext

\* A card of the boards is in one column of one board, and where it was put.
LEMMA ProjectsTrue == ProjectInv => Projects!PlacedStays /\ Projects!OneColumn
BY DEF ProjectInv, Whole, Bears, Projects!PlacedStays, Projects!OneColumn

(***************************************************************************)
(* The agents.  What can be said of one daemon's ledger, in memory or in   *)
(* its file, is said of the ledger alone (RowSound), so a save and a start *)
(* that exchange the two keep it.                                          *)
(***************************************************************************)
Attestation == [id : Nat, agent : Agent, rating : Rating, from : Peer]
Counted(row, a) == Agents!ToSet(row[a])

\* The ledger of daemon d, when n attestations were made: a request of its own
\* is counted, another's and what is on its way are not, what was answered is.
RowSound(d, row, n, R, W, A) ==
  /\ row \in [Agent -> Seq(Nat)]
  /\ \A a \in Agent : Agents!IsInjective(row[a]) /\ \A id \in Counted(row, a) : id <= n
  /\ \A m \in R : m.from = d <=> m.id \in Counted(row, m.agent)
  /\ \A w \in W : w.to = d /\ w.m.from # d => w.m.id \notin Counted(row, w.m.agent)
  /\ \A p \in A : p[1] = d => p[2].id \in Counted(row, p[2].agent)

\* An attestation has one number, and goes to every daemon once.
Distinct(R, W) ==
  /\ \A m, k \in R : m.id = k.id => m = k
  /\ \A v, w \in W : v.m.id = w.m.id /\ v.to = w.to => v = w
  /\ \A m \in R : \A w \in W : m.id # w.m.id

Messages(n, R, W, A) ==
  /\ R \subseteq Attestation /\ W \subseteq [to : Peer, m : Attestation]
  /\ A \subseteq Peer \X Attestation
  /\ (\A m \in R : m.id <= n) /\ (\A w \in W : w.m.id <= n)

AgentInv ==
  /\ attested \in Nat
  /\ score \in [Peer -> [Agent -> -1 .. 100]] /\ scoreFile \in [Peer -> [Agent -> -1 .. 100]]
  /\ applied \in [Peer -> [Agent -> Seq(Nat)]] /\ filed \in [Peer -> [Agent -> Seq(Nat)]]
  /\ Messages(attested, requests, ratings, rated)
  /\ Distinct(requests, ratings)
  /\ \A d \in Peer : /\ RowSound(d, applied[d], attested, requests, ratings, rated)
                     /\ RowSound(d, filed[d], attested, requests, ratings, rated)

\* A score that moves towards a rating stays a share of one.
LEMMA BlendBounded ==
  ASSUME NEW old \in 0 .. 100, NEW rating \in 0 .. 100
  PROVE  Agents!Blend(old, rating) \in -1 .. 100
BY DEF Agents!Blend

LEMMA AppendCounts ==
  ASSUME NEW s \in Seq(Nat), NEW id \in Nat, id \notin Agents!ToSet(s), Agents!IsInjective(s)
  PROVE  /\ Append(s, id) \in Seq(Nat) /\ Agents!IsInjective(Append(s, id))
         /\ Agents!ToSet(Append(s, id)) = Agents!ToSet(s) \cup {id}
<1> DEFINE t == Append(s, id)
<1>1. /\ t \in Seq(Nat) /\ Len(t) = Len(s) + 1 /\ Len(s) \in Nat
      /\ \A i \in 1 .. Len(s) : t[i] = s[i]
      /\ t[Len(s) + 1] = id
  OBVIOUS
<1>2. DOMAIN t = 1 .. Len(s) + 1 /\ DOMAIN s = 1 .. Len(s)
  BY <1>1
<1>3. 1 .. Len(s) + 1 = (1 .. Len(s)) \cup {Len(s) + 1}
  BY <1>1
<1> HIDE DEF t
<1>4. Agents!ToSet(t) = Agents!ToSet(s) \cup {id}
  BY <1>1, <1>2, <1>3 DEF Agents!ToSet
<1>5. \A i \in 1 .. Len(s) : s[i] # id
  BY <1>2 DEF Agents!ToSet
<1>6. Agents!IsInjective(t)
  BY <1>1, <1>2, <1>3, <1>5 DEF Agents!IsInjective
<1> QED
  BY <1>1, <1>4, <1>6 DEF t

\* A ledger that counts one more attestation.
LEMMA RowAppend ==
  ASSUME NEW d \in Peer, NEW row, NEW n \in Nat, NEW n2 \in Nat, NEW R, NEW W, NEW A,
         RowSound(d, row, n, R, W, A), Messages(n, R, W, A), n <= n2,
         NEW a \in Agent, NEW id \in Nat, id <= n2, id \notin Counted(row, a),
         NEW W2 \in SUBSET W, NEW R2,
         \A m \in R : m.id # id,
         \A m \in R2 : m \in R \/ (m.from = d /\ m.id = id /\ m.agent = a),
         \A w \in W2 : w.to = d => w.m.id # id
  PROVE  RowSound(d, [row EXCEPT ![a] = Append(@, id)], n2, R2, W2, A)
<1> DEFINE new == [row EXCEPT ![a] = Append(@, id)]
<1>1. row \in [Agent -> Seq(Nat)] /\ row[a] \in Seq(Nat) /\ Agents!IsInjective(row[a])
  BY DEF RowSound
<1>2. /\ Append(row[a], id) \in Seq(Nat) /\ Agents!IsInjective(Append(row[a], id))
      /\ Agents!ToSet(Append(row[a], id)) = Agents!ToSet(row[a]) \cup {id}
  BY <1>1, AppendCounts DEF Counted
<1>3. new \in [Agent -> Seq(Nat)] /\ new[a] = Append(row[a], id)
      /\ \A b \in Agent \ {a} : new[b] = row[b]
  BY <1>1, <1>2
<1> HIDE DEF new
<1>4. \A b \in Agent : Counted(new, b) = Counted(row, b) \cup (IF b = a THEN {id} ELSE {})
  BY <1>2, <1>3 DEF Counted
<1>5. \A b \in Agent : Agents!IsInjective(new[b])
  BY <1>2, <1>3 DEF RowSound
<1>6. \A b \in Agent : \A k \in Counted(new, b) : k <= n2
  <2>1. \A b \in Agent : Counted(row, b) \subseteq Nat
    BY <1>1 DEF Counted, Agents!ToSet
  <2>2. \A b \in Agent : \A k \in Counted(row, b) : k <= n2
    BY <2>1 DEF RowSound
  <2> QED
    BY <1>4, <2>2
<1>7. \A m \in R2 : m.from = d <=> m.id \in Counted(new, m.agent)
  <2> SUFFICES ASSUME NEW m \in R2 PROVE m.from = d <=> m.id \in Counted(new, m.agent)
    OBVIOUS
  <2>1. CASE m \in R
    <3>1. m.agent \in Agent
      BY <2>1 DEF Messages, Attestation
    <3> QED
      BY <1>4, <2>1, <3>1 DEF RowSound
  <2>2. CASE m.from = d /\ m.id = id /\ m.agent = a
    BY <1>4, <2>2
  <2> QED
    BY <2>1, <2>2
<1>8. \A w \in W2 : w.to = d /\ w.m.from # d => w.m.id \notin Counted(new, w.m.agent)
  <2>1. \A w \in W2 : w.m.agent \in Agent
    BY DEF Messages, Attestation
  <2> QED
    BY <1>4, <2>1 DEF RowSound
<1>9. \A p \in A : p[1] = d => p[2].id \in Counted(new, p[2].agent)
  <2>1. \A p \in A : p[2].agent \in Agent
    BY DEF Messages, Attestation
  <2> QED
    BY <1>4, <2>1 DEF RowSound
<1> QED
  BY <1>3, <1>5, <1>6, <1>7, <1>8, <1>9 DEF RowSound, new

\* A ledger that is left alone.
LEMMA RowStays ==
  ASSUME NEW d \in Peer, NEW row, NEW n \in Nat, NEW n2 \in Nat, NEW R, NEW W, NEW A,
         RowSound(d, row, n, R, W, A), Messages(n, R, W, A), n <= n2,
         NEW W2 \in SUBSET W, NEW R2,
         \A m \in R2 : m \in R \/ (m.from # d /\ m.id \in Nat /\ m.id > n /\ m.agent \in Agent)
  PROVE  RowSound(d, row, n2, R2, W2, A)
<1>1. row \in [Agent -> Seq(Nat)]
  BY DEF RowSound
<1>2. \A b \in Agent : Counted(row, b) \subseteq Nat
  BY <1>1 DEF Counted, Agents!ToSet
<1>3. \A b \in Agent : \A k \in Counted(row, b) : k <= n2
  BY <1>2 DEF RowSound
<1>4. ASSUME NEW m \in R2 PROVE m.from = d <=> m.id \in Counted(row, m.agent)
  <2>1. CASE m \in R
    BY <2>1 DEF RowSound
  <2>2. CASE m.from # d /\ m.id \in Nat /\ m.id > n /\ m.agent \in Agent
    BY <1>2, <2>2 DEF RowSound
  <2> QED
    BY <1>4, <2>1, <2>2
<1> QED
  BY <1>3, <1>4 DEF RowSound

\* What AgentInv says of scores and ledgers.
Books ==
  /\ score \in [Peer -> [Agent -> -1 .. 100]] /\ scoreFile \in [Peer -> [Agent -> -1 .. 100]]
  /\ applied \in [Peer -> [Agent -> Seq(Nat)]] /\ filed \in [Peer -> [Agent -> Seq(Nat)]]
  /\ \A d \in Peer : /\ RowSound(d, applied[d], attested, requests, ratings, rated)
                     /\ RowSound(d, filed[d], attested, requests, ratings, rated)

\* An attestation that daemon d did not count is counted, and saved if that goes well.
LEMMA CountOne ==
  ASSUME AgentInv, NEW d \in Peer, NEW m \in Attestation, NEW ok \in BOOLEAN,
         Agents!ApplyAttestation(d, m, ok),
         attested' \in Nat, attested <= attested', m.id <= attested',
         m.id \notin Counted(applied[d], m.agent), \A k \in requests : k.id # m.id,
         \A k \in requests' : k \in requests \/ (ok /\ k = m /\ m.from = d /\ m.id > attested),
         ratings' \subseteq ratings, \A w \in ratings' : w.to = d => w.m.id # m.id,
         rated' = rated
  PROVE  Books'
<1>1. m.agent \in Agent /\ m.id \in Nat /\ m.rating \in 0 .. 100
  BY RatingAssumption DEF Attestation
<1>2. attested \in Nat /\ Messages(attested, requests, ratings, rated)
  BY DEF AgentInv
<1>3. score' \in [Peer -> [Agent -> -1 .. 100]]
  <2> DEFINE old == IF score[d][m.agent] = -1 THEN 50 ELSE score[d][m.agent]
  <2>1. score' = [score EXCEPT ![d][m.agent] = Agents!Blend(old, m.rating)]
    BY DEF Agents!ApplyAttestation
  <2>2. score \in [Peer -> [Agent -> -1 .. 100]]
    BY DEF AgentInv
  <2>3. score[d][m.agent] \in -1 .. 100
    BY <1>1, <2>2
  <2>4. old \in 0 .. 100
    BY <2>3
  <2>5. Agents!Blend(old, m.rating) \in -1 .. 100
    BY <1>1, <2>4, BlendBounded
  <2> HIDE DEF old
  <2> QED
    BY <1>1, <2>1, <2>2, <2>5
<1> DEFINE row == [applied[d] EXCEPT ![m.agent] = Append(@, m.id)]
<1>4. applied \in [Peer -> [Agent -> Seq(Nat)]] /\ filed \in [Peer -> [Agent -> Seq(Nat)]]
  BY DEF AgentInv
<1>5. applied' = [applied EXCEPT ![d] = row]
  BY <1>1, <1>4 DEF Agents!ApplyAttestation
<1>6. RowSound(d, row, attested', requests', ratings', rated')
  <2>1. RowSound(d, applied[d], attested, requests, ratings, rated)
    BY DEF AgentInv
  <2>2. ratings' \in SUBSET ratings
    OBVIOUS
  <2>3. \A k \in requests' : k \in requests \/ (k.from = d /\ k.id = m.id /\ k.agent = m.agent)
    OBVIOUS
  <2> HIDE DEF row
  <2> QED
    BY <1>1, <1>2, <2>1, <2>2, <2>3, RowAppend DEF row
<1>7. row \in [Agent -> Seq(Nat)]
  BY <1>6 DEF RowSound
<1> HIDE DEF row
<1>8. /\ applied'[d] = row /\ applied' \in [Peer -> [Agent -> Seq(Nat)]]
      /\ \A e \in Peer \ {d} : applied'[e] = applied[e]
  BY <1>4, <1>5, <1>7
<1>9. ASSUME NEW e \in Peer, NEW old, RowSound(e, old, attested, requests, ratings, rated),
             e # d \/ ~ok
      PROVE  RowSound(e, old, attested', requests', ratings', rated')
  <2>1. ratings' \in SUBSET ratings
    OBVIOUS
  <2>2. \A k \in requests' : k \in requests \/ (k.from # e /\ k.id \in Nat /\ k.id > attested
                                                  /\ k.agent \in Agent)
    BY <1>1, <1>9
  <2> QED
    BY <1>2, <1>9, <2>1, <2>2, RowStays
<1>10. \A e \in Peer : RowSound(e, applied'[e], attested', requests', ratings', rated')
  <2> SUFFICES ASSUME NEW e \in Peer
               PROVE  RowSound(e, applied'[e], attested', requests', ratings', rated')
    OBVIOUS
  <2>1. CASE e = d
    BY <1>6, <1>8, <2>1
  <2>2. CASE e # d
    BY <1>8, <1>9, <2>2 DEF AgentInv
  <2> QED
    BY <2>1, <2>2
<1>11. CASE ok
  <2>1. /\ scoreFile' = [scoreFile EXCEPT ![d] = score'[d]]
        /\ filed' = [filed EXCEPT ![d] = applied'[d]]
    BY <1>11 DEF Agents!ApplyAttestation, Agents!SaveLocked
  <2>2. filed' \in [Peer -> [Agent -> Seq(Nat)]] /\ filed'[d] = applied'[d]
        /\ \A e \in Peer \ {d} : filed'[e] = filed[e]
    BY <1>4, <1>8, <2>1
  <2>3. scoreFile' \in [Peer -> [Agent -> -1 .. 100]]
    BY <1>3, <2>1 DEF AgentInv
  <2>4. \A e \in Peer : RowSound(e, filed'[e], attested', requests', ratings', rated')
    <3> SUFFICES ASSUME NEW e \in Peer
                 PROVE  RowSound(e, filed'[e], attested', requests', ratings', rated')
      OBVIOUS
    <3>1. CASE e = d
      BY <1>10, <2>2, <3>1
    <3>2. CASE e # d
      BY <1>9, <2>2, <3>2 DEF AgentInv
    <3> QED
      BY <3>1, <3>2
  <2> QED
    BY <1>3, <1>8, <1>10, <2>2, <2>3, <2>4 DEF Books
<1>12. CASE ~ok
  <2>1. scoreFile' = scoreFile /\ filed' = filed
    BY <1>12 DEF Agents!ApplyAttestation, Agents!SaveLocked
  <2>2. \A e \in Peer : RowSound(e, filed'[e], attested', requests', ratings', rated')
    BY <1>9, <1>12, <2>1 DEF AgentInv
  <2>3. scoreFile' \in [Peer -> [Agent -> -1 .. 100]] /\ filed' \in [Peer -> [Agent -> Seq(Nat)]]
    BY <1>4, <2>1 DEF AgentInv
  <2> QED
    BY <1>3, <1>8, <1>10, <2>2, <2>3 DEF Books
<1> QED
  BY <1>11, <1>12

LEMMA AgentStep == AgentInv /\ Agents!AgentsNext => AgentInv'
<1> SUFFICES ASSUME AgentInv, Agents!AgentsNext PROVE AgentInv'
  OBVIOUS
<1>1. /\ attested \in Nat /\ Messages(attested, requests, ratings, rated)
      /\ Distinct(requests, ratings) /\ Books
  BY DEF AgentInv, Books
<1>2. Books' /\ attested' \in Nat /\ Messages(attested, requests, ratings, rated)'
        /\ Distinct(requests, ratings)' => AgentInv'
  BY DEF AgentInv, Books
<1>3. ASSUME NEW d \in Peer, NEW a \in Agent, Agents!Record(d, a) PROVE AgentInv'
  <2>1. /\ score' = [score EXCEPT ![d][a] = IF @ = -1 THEN 50 ELSE IF @ < 100 THEN @ + 1 ELSE 100]
        /\ UNCHANGED <<scoreFile, applied, filed, requests, ratings, attested, rated>>
    BY <1>3 DEF Agents!Record
  <2>2. score \in [Peer -> [Agent -> -1 .. 100]]
    BY <1>1 DEF Books
  <2>3. score[d][a] \in -1 .. 100
    BY <2>2
  <2>4. (IF score[d][a] = -1 THEN 50 ELSE IF score[d][a] < 100 THEN score[d][a] + 1 ELSE 100)
          \in -1 .. 100
    BY <2>3
  <2>5. score' \in [Peer -> [Agent -> -1 .. 100]]
    BY <2>1, <2>2, <2>4
  <2> QED
    BY <1>1, <2>1, <2>5 DEF AgentInv
<1>4. ASSUME NEW d \in Peer, NEW a \in Agent, NEW rating \in Rating, NEW ok \in BOOLEAN,
             Agents!AttestAgent(d, a, rating, ok)
      PROVE  AgentInv'
  <2> DEFINE m == [id |-> attested', agent |-> a, rating |-> rating, from |-> d]
  <2>1. /\ attested' = attested + 1 /\ Agents!ApplyAttestation(d, m, ok)
        /\ requests' = (IF ok THEN requests \cup {m} ELSE requests)
        /\ ratings' = ratings /\ rated' = rated
    BY <1>4 DEF Agents!AttestAgent
  <2>2. attested' \in Nat /\ attested <= attested' /\ attested' > attested
    BY <1>1, <2>1
  <2>3. m \in Attestation /\ m.id = attested' /\ m.from = d /\ m.agent = a
    BY <2>2 DEF Attestation
  <2> HIDE DEF m
  <2>4. \A k \in requests : k.id \in Nat /\ k.id <= attested
    BY <1>1 DEF Messages, Attestation
  <2>5. \A w \in ratings : w.m.id \in Nat /\ w.m.id <= attested
    BY <1>1 DEF Messages, Attestation
  <2>6. m.id \notin Counted(applied[d], m.agent)
    <3>1. RowSound(d, applied[d], attested, requests, ratings, rated)
      BY <1>1 DEF Books
    <3>2. Counted(applied[d], a) \subseteq Nat
      BY <3>1 DEF RowSound, Counted, Agents!ToSet
    <3>3. \A k \in Counted(applied[d], a) : k # attested'
      BY <1>1, <2>2, <3>1, <3>2 DEF RowSound
    <3> QED
      BY <2>3, <3>3
  <2>7. (\A k \in requests : k.id # m.id) /\ (\A w \in ratings : w.m.id # m.id)
    BY <1>1, <2>2, <2>3, <2>4, <2>5
  <2>8. \A k \in requests' : k \in requests \/ (ok /\ k = m)
    BY <2>1
  <2>9. Books'
    <3>1. ratings' \subseteq ratings /\ \A w \in ratings' : w.to = d => w.m.id # m.id
      BY <2>1, <2>7
    <3>2. \A k \in requests' : k \in requests \/ (ok /\ k = m /\ m.from = d /\ m.id > attested)
      BY <2>2, <2>3, <2>8
    <3>3. m.id <= attested'
      BY <2>2, <2>3
    <3> QED
      BY <2>1, <2>2, <2>3, <2>6, <2>7, <3>1, <3>2, <3>3, CountOne
  <2>10. Messages(attested, requests, ratings, rated)'
    <3>1. (\A k \in requests : k.id <= attested') /\ (\A w \in ratings : w.m.id <= attested')
      BY <1>1, <2>2, <2>4, <2>5
    <3>2. \A k \in requests' : k \in Attestation /\ k.id <= attested'
      BY <1>1, <2>2, <2>3, <2>8, <3>1 DEF Messages
    <3> QED
      BY <1>1, <2>1, <3>1, <3>2 DEF Messages
  <2>11. Distinct(requests, ratings)'
    BY <1>1, <2>1, <2>7, <2>8 DEF Distinct
  <2> QED
    BY <1>2, <2>2, <2>9, <2>10, <2>11
<1>5. ASSUME NEW m \in requests, Agents!PublishAttestation(m) PROVE AgentInv'
  <2> DEFINE new == {[to |-> d, m |-> m] : d \in Peer}
  <2>1. /\ requests' = requests \ {m} /\ ratings' = ratings \cup new
        /\ rated' = rated \cup {<<m.from, m>>} /\ attested' = attested
        /\ UNCHANGED <<score, scoreFile, applied, filed>>
    BY <1>5 DEF Agents!PublishAttestation
  <2>2. m \in Attestation /\ m.from \in Peer /\ m.agent \in Agent /\ m.id <= attested
    BY <1>1, <1>5 DEF Messages, Attestation
  <2>3. \A w \in new : w.m = m /\ w \in [to : Peer, m : Attestation]
    BY <2>2
  <2>4. \A v, w \in new : v.to = w.to => v = w
    OBVIOUS
  <2> HIDE DEF new
  <2>5. Messages(attested, requests, ratings, rated)'
    BY <1>1, <2>1, <2>2, <2>3 DEF Messages
  <2>6. Distinct(requests, ratings)'
    <3>1. \A k \in requests' : k \in requests /\ k.id # m.id
      BY <1>1, <2>1 DEF Distinct
    <3>2. \A w \in ratings : w.m.id # m.id
      BY <1>1 DEF Distinct
    <3>3. \A k \in requests' : \A w \in ratings' : k.id # w.m.id
      BY <1>1, <2>1, <2>3, <3>1 DEF Distinct
    <3>4. \A v, w \in ratings' : v.m.id = w.m.id /\ v.to = w.to => v = w
      BY <1>1, <2>1, <2>3, <2>4, <3>2 DEF Distinct
    <3> QED
      BY <1>1, <3>1, <3>3, <3>4 DEF Distinct
  <2>7. ASSUME NEW d \in Peer, NEW row, RowSound(d, row, attested, requests, ratings, rated)
        PROVE  RowSound(d, row, attested', requests', ratings', rated')
    <3>1. m.from = d <=> m.id \in Counted(row, m.agent)
      BY <2>7 DEF RowSound
    <3>2. \A w \in ratings' : w.to = d /\ w.m.from # d => w.m.id \notin Counted(row, w.m.agent)
      <4>1. \A w \in new : w.m.from # d => w.m.id \notin Counted(row, w.m.agent)
        BY <2>3, <3>1
      <4> QED
        BY <2>1, <2>7, <4>1 DEF RowSound
    <3>3. \A p \in rated' : p[1] = d => p[2].id \in Counted(row, p[2].agent)
      BY <2>1, <2>7, <3>1 DEF RowSound
    <3> QED
      BY <2>1, <2>7, <3>2, <3>3 DEF RowSound
  <2>8. Books'
    <3>1. \A d \in Peer : /\ RowSound(d, applied[d], attested', requests', ratings', rated')
                          /\ RowSound(d, filed[d], attested', requests', ratings', rated')
      BY <1>1, <2>7 DEF Books
    <3> QED
      BY <1>1, <2>1, <3>1 DEF Books
  <2> QED
    BY <1>1, <1>2, <2>1, <2>5, <2>6, <2>8
<1>6. ASSUME requests' \subseteq requests, ratings' \subseteq ratings, rated' = rated,
             attested' = attested
      PROVE  /\ attested' \in Nat /\ Messages(attested, requests, ratings, rated)'
             /\ Distinct(requests, ratings)'
             /\ \A d \in Peer : \A row : RowSound(d, row, attested, requests, ratings, rated)
                  => RowSound(d, row, attested', requests', ratings', rated')
  BY <1>1, <1>6 DEF Messages, Distinct, RowSound
<1>7. ASSUME NEW w \in ratings, Agents!Lose(w) PROVE AgentInv'
  <2>1. /\ ratings' = ratings \ {w}
        /\ UNCHANGED <<score, scoreFile, applied, filed, requests, attested, rated>>
    BY <1>7 DEF Agents!Lose
  <2>2. /\ attested' \in Nat /\ Messages(attested, requests, ratings, rated)'
        /\ Distinct(requests, ratings)'
        /\ \A d \in Peer : \A row : RowSound(d, row, attested, requests, ratings, rated)
             => RowSound(d, row, attested', requests', ratings', rated')
    BY <1>6, <2>1
  <2>3. Books'
    BY <1>1, <2>1, <2>2 DEF Books
  <2> QED
    BY <1>2, <2>2, <2>3
<1>8. ASSUME NEW w \in ratings, NEW ok \in BOOLEAN, Agents!Receive(w, ok) PROVE AgentInv'
  <2>1. ratings' = ratings \ {w} /\ requests' = requests /\ attested' = attested /\ rated' = rated
    BY <1>8 DEF Agents!Receive
  <2>2. /\ attested' \in Nat /\ Messages(attested, requests, ratings, rated)'
        /\ Distinct(requests, ratings)'
        /\ \A d \in Peer : \A row : RowSound(d, row, attested, requests, ratings, rated)
             => RowSound(d, row, attested', requests', ratings', rated')
    BY <1>6, <2>1
  <2>3. CASE Agents!Own(w.to, w.m)
    <3>1. UNCHANGED <<score, applied, scoreFile, filed>>
      BY <1>8, <2>3 DEF Agents!Receive
    <3>2. Books'
      BY <1>1, <2>2, <3>1 DEF Books
    <3> QED
      BY <1>2, <2>2, <3>2
  <2>4. CASE ~Agents!Own(w.to, w.m)
    <3>1. Agents!ApplyAttestation(w.to, w.m, ok) /\ w.m.from # w.to
      BY <1>8, <2>4 DEF Agents!Receive, Agents!Own
    <3>2. w.to \in Peer /\ w.m \in Attestation /\ w.m.id <= attested
      BY <1>1 DEF Messages
    <3>3. w.m.id \notin Counted(applied[w.to], w.m.agent)
      BY <1>1, <3>1, <3>2 DEF Books, RowSound
    <3>4. /\ \A k \in requests : k.id # w.m.id
          /\ \A v \in ratings' : v.to = w.to => v.m.id # w.m.id
      BY <1>1, <2>1 DEF Distinct
    <3>5. attested <= attested' /\ w.m.id <= attested'
      BY <1>1, <2>1, <3>2
    <3>6. Books'
      BY <2>1, <2>2, <3>1, <3>2, <3>3, <3>4, <3>5, CountOne
    <3> QED
      BY <1>2, <2>2, <3>6
  <2> QED
    BY <2>3, <2>4
<1>9. ASSUME NEW d \in Peer, Agents!Load(d) PROVE AgentInv'
  <2>1. /\ score' = [score EXCEPT ![d] = scoreFile[d]]
        /\ applied' = [applied EXCEPT ![d] = filed[d]]
        /\ requests' \subseteq requests /\ ratings' \subseteq ratings
        /\ UNCHANGED <<scoreFile, filed, attested, rated>>
    BY <1>9 DEF Agents!Load
  <2>2. /\ attested' \in Nat /\ Messages(attested, requests, ratings, rated)'
        /\ Distinct(requests, ratings)'
        /\ \A e \in Peer : \A row : RowSound(e, row, attested, requests, ratings, rated)
             => RowSound(e, row, attested', requests', ratings', rated')
    BY <1>6, <2>1
  <2>3. score' \in [Peer -> [Agent -> -1 .. 100]]
    BY <1>1, <2>1 DEF Books
  <2>4. applied' \in [Peer -> [Agent -> Seq(Nat)]]
    BY <1>1, <2>1 DEF Books
  <2>5. \A e \in Peer : applied'[e] = applied[e] \/ applied'[e] = filed[e]
    BY <1>1, <2>1 DEF Books
  <2>6. Books'
    BY <1>1, <2>1, <2>2, <2>3, <2>4, <2>5 DEF Books
  <2> QED
    BY <1>2, <2>2, <2>6
<1> QED
  BY <1>3, <1>4, <1>5, <1>7, <1>8, <1>9 DEF Agents!AgentsNext

\* An attestation that was answered counts once, and no score leaves its range.
LEMMA AgentsTrue ==
  AgentInv => Agents!AttestationKept /\ Agents!CountedOnce /\ Agents!ScoresBounded
<1> SUFFICES ASSUME AgentInv
             PROVE  Agents!AttestationKept /\ Agents!CountedOnce /\ Agents!ScoresBounded
  OBVIOUS
<1>1. Agents!ScoresBounded
  BY DEF AgentInv, Agents!ScoresBounded
<1>2. Agents!CountedOnce
  BY DEF AgentInv, RowSound, Agents!CountedOnce
<1>3. \A pair \in rated : pair[1] \in Peer
  BY DEF AgentInv, Messages
<1>4. Agents!AttestationKept
  BY <1>3 DEF AgentInv, RowSound, Counted, Agents!AttestationKept
<1> QED
  BY <1>1, <1>2, <1>4

(***************************************************************************)
(* What the four parts promise their clients.                              *)
(***************************************************************************)
LEMMA PartsStart ==
  PartsInit => DiscussionInv /\ WikiInv /\ ProjectInv /\ AgentInv
<1> SUFFICES ASSUME PartsInit PROVE DiscussionInv /\ WikiInv /\ ProjectInv /\ AgentInv
  OBVIOUS
<1>1. DiscussionInv
  <2>1. /\ threads = {} /\ threadsFile = {} /\ posts = 0 /\ postFaults = 0
        /\ readers = {} /\ promised = {}
    BY DEF PartsInit, Discussions!DiscussionsInit
  <2> QED
    BY <2>1 DEF DiscussionInv, Discussions!PromisesKept
<1>2. WikiInv
  BY DEF PartsInit, Wiki!WikiInit, WikiInv
<1>3. ProjectInv
  <2>1. /\ boards = {} /\ boardsFile = {} /\ cardsMade = 0 /\ boardFaults = 0 /\ placed = {}
    BY DEF PartsInit, Projects!ProjectsInit
  <2>2. Whole({}, 0) /\ {} # Projects!Torn
    BY DEF Whole, Projects!Torn
  <2> QED
    BY <2>1, <2>2 DEF ProjectInv
<1>4. AgentInv
  <2> USE DEF PartsInit, Agents!AgentsInit
  <2>1. /\ attested = 0 /\ requests = {} /\ ratings = {} /\ rated = {}
        /\ score = [d \in Peer |-> [a \in Agent |-> -1]] /\ scoreFile = score
        /\ applied = [d \in Peer |-> [a \in Agent |-> <<>>]] /\ filed = applied
    BY DEF Agents!Unknown, Agents!NoneApplied
  <2>2. \A a \in Agent : Counted([b \in Agent |-> <<>>], a) = {}
    BY DEF Counted, Agents!ToSet
  <2>3. Agents!IsInjective(<<>>)
    BY DEF Agents!IsInjective
  <2>4. \A d : RowSound(d, [b \in Agent |-> <<>>], 0, {}, {}, {})
    BY <2>2, <2>3 DEF RowSound
  <2>5. Messages(0, {}, {}, {}) /\ Distinct({}, {})
    BY DEF Messages, Distinct
  <2>6. /\ score \in [Peer -> [Agent -> -1 .. 100]] /\ scoreFile \in [Peer -> [Agent -> -1 .. 100]]
        /\ applied \in [Peer -> [Agent -> Seq(Nat)]] /\ filed \in [Peer -> [Agent -> Seq(Nat)]]
    <3>1. -1 \in -1 .. 100 /\ <<>> \in Seq(Nat)
      OBVIOUS
    <3>2. /\ [a \in Agent |-> -1] \in [Agent -> -1 .. 100]
          /\ [a \in Agent |-> <<>>] \in [Agent -> Seq(Nat)]
      BY <3>1
    <3>3. \A S, x : x \in S => [d \in Peer |-> x] \in [Peer -> S]
      OBVIOUS
    <3>4. score \in [Peer -> [Agent -> -1 .. 100]]
      BY <2>1, <3>2, <3>3 DEF Agents!Unknown
    <3>5. applied \in [Peer -> [Agent -> Seq(Nat)]]
      BY <2>1, <3>2, <3>3 DEF Agents!NoneApplied
    <3> QED
      BY <2>1, <3>4, <3>5
  <2>7. \A d \in Peer : applied[d] = [a \in Agent |-> <<>>] /\ filed[d] = applied[d]
    BY <2>1
  <2> QED
    BY <2>1, <2>4, <2>5, <2>6, <2>7 DEF AgentInv
<1> QED
  BY <1>1, <1>2, <1>3, <1>4

LEMMA PartsRest ==
  /\ DiscussionInv /\ UNCHANGED discussionVars => DiscussionInv'
  /\ WikiInv /\ UNCHANGED wikiVars => WikiInv'
  /\ ProjectInv /\ UNCHANGED projectVars => ProjectInv'
  /\ AgentInv /\ UNCHANGED agentVars => AgentInv'
<1>1. DiscussionInv /\ UNCHANGED discussionVars => DiscussionInv'
  BY DEF DiscussionInv, Discussions!PromisesKept, Discussions!Holds, discussionVars
<1>2. WikiInv /\ UNCHANGED wikiVars => WikiInv'
  BY DEF WikiInv, wikiVars
<1>3. ProjectInv /\ UNCHANGED projectVars => ProjectInv'
  BY DEF ProjectInv, projectVars
<1>4. AgentInv /\ UNCHANGED agentVars => AgentInv'
  BY DEF AgentInv, agentVars
<1> QED
  BY <1>1, <1>2, <1>3, <1>4

\* What a client of the discussions, boards, wiki and agents was answered with
\* success holds in every state, through refused and partial saves and crashes.
THEOREM AnswersHold == PartsSpec => []AnswersTrue
<1> DEFINE Inv == DiscussionInv /\ WikiInv /\ ProjectInv /\ AgentInv
<1>1. PartsInit => Inv
  BY PartsStart
<1>2. Inv /\ [PartsNext]_partVars => Inv'
  <2> SUFFICES ASSUME Inv, [PartsNext]_partVars PROVE Inv'
    OBVIOUS
  <2>1. DiscussionInv'
    BY PartsRest, DiscussionStep DEF PartsNext, partVars
  <2>2. WikiInv'
    BY PartsRest, WikiStep DEF PartsNext, partVars
  <2>3. ProjectInv'
    BY PartsRest, ProjectStep DEF PartsNext, partVars
  <2>4. AgentInv'
    BY PartsRest, AgentStep DEF PartsNext, partVars
  <2> QED
    BY <2>1, <2>2, <2>3, <2>4
<1>3. Inv => AnswersTrue
  BY DiscussionsTrue, WikiTrue, ProjectsTrue, AgentsTrue DEF AnswersTrue
<1> QED
  BY <1>1, <1>2, <1>3, PTL DEF PartsSpec
=============================================================================
