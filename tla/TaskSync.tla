------------------------------ MODULE TaskSync ------------------------------
(***************************************************************************)
(* An agent task: Task and TaskStore (internal/crdt/tasks.go) with their   *)
(* handlers (internal/api/handlers/tasks.go), replicated as Replica says.  *)
(* Tasks are decoded with ImportOperation, which keeps Lamport values.     *)
(***************************************************************************)
EXTENDS OpLog, FiniteSets

CONSTANTS
  Node,       \* the daemons, each the rank of its DID among the DIDs
  Agent,      \* identities that claim tasks
  Result,     \* non-empty result strings
  NoAgent,    \* the empty ClaimedBy
  NoResult,   \* the empty Result
  MaxOps,     \* bound: MaxOps[n] operations that node n may ever make
  MaxFaults   \* bound: failed saves and publishes, repeated deliveries, crashes

ASSUME NodeAssumption == Node \subseteq Nat
ASSUME SentinelAssumption == NoAgent \notin Agent /\ NoResult \notin Result
ASSUME BoundAssumption == MaxOps \in [Node -> Nat] /\ MaxFaults \in Nat

VARIABLES log, clock, view, disk, busy, rest, hooks, net, seen, made, hb, faults

Status == {"open", "claimed", "completed"}
View == [status : Status, claimedBy : Agent \cup {NoAgent}, result : Result \cup {NoResult}]
Op == {o \in [node : Node, time : Nat, kind : {"create", "claim", "complete", "result"},
              arg : Agent \cup Result \cup {NoAgent}, lamport : Nat] :
         /\ o.kind = "claim" => o.arg \in Agent
         /\ o.kind = "result" => o.arg \in Result}

OpenView == [status |-> "open", claimedBy |-> NoAgent, result |-> NoResult]

OfKind(S, kinds) == {o \in S : o.kind \in kinds}

\* Mutant of Replay: the result is read from claims too.
ReplayMixed(old, S) ==
  LET moves == OfKind(S, {"claim", "complete"})
      claims == OfKind(S, {"claim"})
      results == OfKind(S, {"claim", "result"})
  IN [status |-> IF moves = {} THEN "open"
                 ELSE IF Last(moves).kind = "claim" THEN "claimed" ELSE "completed",
      claimedBy |-> IF claims = {} THEN NoAgent ELSE Last(claims).arg,
      result |-> IF results = {} THEN NoResult ELSE Last(results).arg]

\* Task.Merge's reset and Task.applyOperations: the state a replay leaves.
Replay(old, S) ==
  LET moves == OfKind(S, {"claim", "complete"})
      claims == OfKind(S, {"claim"})
      results == OfKind(S, {"result"})
  IN [status |-> IF moves = {} THEN "open"
                 ELSE IF Last(moves).kind = "claim" THEN "claimed" ELSE "completed",
      claimedBy |-> IF claims = {} THEN NoAgent ELSE Last(claims).arg,
      result |-> IF results = {} THEN NoResult ELSE Last(results).arg]

\* Task.UnmarshalJSON imports the operations as they are.
Decode(ops) == ops

\* No handler tombstones a task.
Visible(v) == TRUE

\* main gives the store the path of a file.
Writable == TRUE

INSTANCE Replica
-----------------------------------------------------------------------------
\* CreateTask: the store's Create; the handler's own Save comes later.
Create(n) ==
  /\ \A m \in Node : made[m] = 0
  /\ LET op == NewOp(n, "create", NoAgent) IN
     Add(n, op) /\ hooks' = hooks \cup {NewHook(n, op, "save")}
  /\ UNCHANGED <<view, disk, busy, rest, net, seen, faults>>

\* The handler's Save: TaskStore.Save reads and writes under the read lock, and
\* its failure is only logged.
CreateSave(h, ok) ==
  /\ h.stage = "save" /\ busy[h.node] = "free"
  /\ hooks' = (hooks \ {h}) \cup {[h EXCEPT !.stage = "get"]}
  /\ UNCHANGED <<log, clock, view, busy, rest, net, seen, made, hb>>
  /\ SaveLocked(h.node, ok)

Claim(n, a, ok) ==
  /\ busy[n] = "free" /\ log[n] # <<>> /\ view[n].status = "open"
  /\ view' = [view EXCEPT ![n].status = "claimed", ![n].claimedBy = a]
  /\ LET op == NewOp(n, "claim", a) IN Add(n, op) /\ Dispatch(n, op, ok)
  /\ UNCHANGED <<busy, rest, net, seen>>
  /\ SaveLocked(n, ok)

\* TaskStore.Complete up to SetResult, whose operation is added separately
\* while the lock is held.
Complete(n, r) ==
  /\ busy[n] = "free" /\ log[n] # <<>> /\ view[n].status = "claimed"
  /\ r # NoResult => made[n] + 1 < MaxOps[n]
  /\ view' = [view EXCEPT ![n].status = "completed", ![n].result = r]
  /\ Add(n, NewOp(n, "complete", view[n].claimedBy))
  /\ busy' = [busy EXCEPT ![n] = "working"]
  /\ UNCHANGED <<disk, rest, hooks, net, seen, faults>>

FinishComplete(n, ok) ==
  /\ busy[n] = "working"
  /\ LET op == NewOp(n, "result", view[n].result) IN
     IF view[n].result # NoResult
     THEN Add(n, op) /\ Dispatch(n, op, ok)
     ELSE UNCHANGED <<log, clock, made, hb>> /\ Dispatch(n, [op EXCEPT !.time = made[n]], ok)
  /\ busy' = [busy EXCEPT ![n] = "free"]
  /\ UNCHANGED <<view, rest, net, seen>>
  /\ SaveLocked(n, ok)

Request(n) ==
  \/ Create(n)
  \/ \E a \in Agent, ok \in BOOLEAN : Claim(n, a, ok)
  \/ \E r \in Result \cup {NoResult} : Complete(n, r)
  \/ \E ok \in BOOLEAN : FinishComplete(n, ok)

Next ==
  \/ \E n \in Node : Request(n) \/ Receive(n) \/ SaveElse(n) \/ Crash(n)
  \/ \E h \in hooks : Publish(h) \/ \E ok \in BOOLEAN : CreateSave(h, ok)

Spec == Init /\ [][Next]_vars

\* Agents are free never to ask for anything; a request once begun goes on.
LiveSpec ==
  /\ Spec /\ ReplicaFairness
  /\ \A n \in Node :
       /\ WF_vars(\E ok \in BOOLEAN : FinishComplete(n, ok))
       /\ WF_vars(\E h \in hooks : h.node = n /\ \E ok \in BOOLEAN : CreateSave(h, ok))
-----------------------------------------------------------------------------
\* The scalar fields, which handlers write directly and stale snapshots carry,
\* never run ahead of the log they are stored with: the claimant shown claimed
\* the task in that log, and a completed task has a completion in it.
ViewSupported ==
  \A n \in Node : \A s \in {[view |-> view[n], ops |-> log[n]], disk[n]} :
    LET S == OpSet(s.ops) IN
    /\ s.view.status # "open" => \E o \in OfKind(S, {"claim"}) : o.arg = s.view.claimedBy
    /\ s.view.status = "completed" => OfKind(S, {"complete"}) # {}

\* Claim and Complete answer success only for what tasks.json holds: once a
\* request gets to its event hook, a crash cannot lose its operation.
AckedOnDisk ==
  \A h \in hooks :
    <<h.node, h.time>> \in {Id(o) : o \in OfKind(OpSet(log[h.node]), {"claim", "complete", "result"})}
      => <<h.node, h.time>> \in IdSet(disk[h.node].ops)

SameTask(n, m) ==
  /\ IdSet(log[n]) = IdSet(log[m])
  /\ view[n].status = view[m].status
  /\ view[n].claimedBy = view[m].claimedBy

\* "Eventual consistency": replicas agree for good on the operations, the
\* status and the claimant some time after the last request, however hooks,
\* merges and deliveries interleave.
EventuallyAgree == <>[](\A n, m \in Node : SameTask(n, m))

\* The stores implement a causal broadcast with stable storage: requests, saves,
\* merges of whatever snapshot and restarts are its steps, and nothing else
\* changes what a daemon knows of a task or has on disk.
Broadcast == INSTANCE CausalBroadcast WITH
  known <- [n \in Node |-> IdSet(log[n])], stable <- [n \in Node |-> IdSet(disk[n].ops)],
  issued <- made, deps <- hb
ImplementsBroadcast == Broadcast!Spec
=============================================================================
