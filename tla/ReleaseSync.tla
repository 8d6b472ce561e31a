----------------------------- MODULE ReleaseSync -----------------------------
(***************************************************************************)
(* A release: Release and ReleaseStore (internal/crdt/releases.go) with    *)
(* their handlers (internal/api/handlers/releases.go), replicated as       *)
(* Replica says.  Decoding rebuilds the log with Add.                      *)
(***************************************************************************)
EXTENDS OpLog, FiniteSets

CONSTANTS
  Node,       \* the daemons, each the rank of its DID among the DIDs
  MaxOps,     \* bound: operations that each node may ever make
  MaxFaults   \* bound: failed saves and publishes, repeated deliveries, crashes

VARIABLES log, clock, view, disk, busy, rest, hooks, net, seen, made, hb, faults

View == [tombstoned : BOOLEAN]
Op == [node : Node, time : Nat, kind : {"create", "tombstone"}, arg : {""}, lamport : Nat]

OpenView == [tombstoned |-> FALSE]

\* Release.Merge resets nothing: once tombstoned, always tombstoned.
Replay(old, S) ==
  [tombstoned |-> old.tombstoned \/ \E o \in S : o.kind = "tombstone"]

\* Release.UnmarshalJSON.
Decode(ops) == Renumbered(ops)

\* ReleaseStore.Get does not find a tombstoned release.
Visible(v) == ~v.tombstoned

\* main gives the store the path of the data directory itself, which no file
\* can replace: every save fails.
Writable == FALSE

INSTANCE Replica WITH MaxOps <- [n \in Node |-> MaxOps]

\* Replica's variables, for the actions of this module.
releaseVars == <<log, clock, view, disk, busy, rest, hooks, net, seen, made, hb, faults>>
-----------------------------------------------------------------------------
\* Create and Tombstone increment the clock before Add does it again.
AddLater(n, op) ==
  /\ made[n] < MaxOps
  /\ log' = [log EXCEPT ![n] = Append(@, Stamp(op, clock[n] + 1))]
  /\ clock' = [clock EXCEPT ![n] = @ + 2]
  /\ made' = [made EXCEPT ![n] = op.time]
  /\ hb' = hb \cup (IdSet(log[n]) \X {Id(op)})

\* CreateRelease saves nothing before Dispatch.
Create(n) ==
  /\ \A m \in Node : made[m] = 0
  /\ LET op == NewOp(n, "create", "") IN
     AddLater(n, op) /\ hooks' = hooks \cup {NewHook(n, op, "get")}
  /\ UNCHANGED <<view, disk, busy, rest, net, seen, faults>>

\* DeleteRelease, of a release tombstoned or not.  When the save fails, the
\* release stays deleted and the client is told it was not found; nothing
\* listens to the event of a success.
Delete(n, ok) ==
  /\ busy[n] = "free" /\ log[n] # <<>>
  /\ view' = [view EXCEPT ![n].tombstoned = TRUE]
  /\ AddLater(n, NewOp(n, "tombstone", ""))
  /\ UNCHANGED <<busy, rest, hooks, net, seen>>
  /\ SaveLocked(n, ok)

Next ==
  \/ \E n \in Node :
       Create(n) \/ (\E ok \in BOOLEAN : Delete(n, ok)) \/ Receive(n) \/ SaveElse(n) \/ Crash(n)
  \/ \E h \in hooks : Publish(h)

Spec == Init /\ [][Next]_releaseVars
-----------------------------------------------------------------------------
\* "So the deletion replicates to peers": with nothing left to deliver, daemons
\* that have the release agree on whether it was deleted.
DeletionReplicates ==
  Quiescent => \A n, m \in Node :
    log[n] # <<>> /\ log[m] # <<>> => view[n].tombstoned = view[m].tombstoned
=============================================================================
