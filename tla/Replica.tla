------------------------------ MODULE Replica ------------------------------
(***************************************************************************)
(* How one replicated entity (a task, an issue, a pull request, a label or *)
(* a release) travels between daemons.  The five stores of internal/crdt   *)
(* share this protocol: a request changes the scalar fields and appends    *)
(* operations under the store's lock and saves; the event hook of          *)
(* internal/api/server.go then publishes a snapshot; the subscriber of     *)
(* internal/network/sync.go decodes the snapshots of peers and merges them.*)
(* Entities have independent logs, so one is modelled; its log is empty    *)
(* exactly where the entity does not exist.                                *)
(*                                                                         *)
(* A module of one entity kind defines the constants below, the requests   *)
(* and the next-state relation, and instantiates this one.                 *)
(***************************************************************************)
EXTENDS OpLog, FiniteSets

CONSTANTS
  Node,          \* the daemons, each the rank of its DID among the DIDs
  Op,            \* operations
  View,          \* the entity's scalar fields
  OpenView,      \* those of an entity just created
  Decode(_),     \* what UnmarshalJSON makes of the operations it reads
  Replay(_, _),  \* the fields after merging: from the old fields and the operations
  Visible(_),    \* whether the store's Get finds an entity with these fields
  Writable,      \* whether the store's path is one a file can be written to
  MaxOps,        \* bound: MaxOps[n] operations that node n may ever make
  MaxFaults      \* bound: failed saves and publishes, repeated deliveries, crashes

VARIABLES
  log,      \* log[n]: the entity's log.operations in memory
  clock,    \* clock[n]: log.clock.counter
  view,     \* view[n]: the scalar fields in memory
  disk,     \* disk[n]: the store's JSON file
  busy,     \* busy[n]: what the holder of the store's lock is in the middle of
  rest,     \* rest[n]: the remote operations the running Merge imports
  hooks,    \* requests between their first mutation and the end of Dispatch
  net,      \* snapshots handed to GossipSub
  seen,     \* seen[n]: snapshots node n's subscriber has taken
  made,     \* made[n]: operations node n ever made (history)
  hb,       \* pairs of IDs <<a, b>>: a was in the log b was added to (history)
  faults    \* faults used so far

storeVars == <<log, clock, view, disk, busy, rest>>
vars == <<log, clock, view, disk, busy, rest, hooks, net, seen, made, hb, faults>>

Snapshot == [from : Node, view : View, ops : Seq(Op)]
Hook == [node : Node, time : Nat, stage : {"work", "save", "get", "marshal"}, view : View]

Init ==
  /\ log = [n \in Node |-> <<>>]
  /\ clock = [n \in Node |-> 0]
  /\ view = [n \in Node |-> OpenView]
  /\ disk = [n \in Node |-> [view |-> OpenView, ops |-> <<>>]]
  /\ busy = [n \in Node |-> "free"]
  /\ rest = [n \in Node |-> <<>>]
  /\ hooks = {}
  /\ net = {}
  /\ seen = [n \in Node |-> {}]
  /\ made = [n \in Node |-> 0]
  /\ hb = {}
  /\ faults = 0
-----------------------------------------------------------------------------
\* What the requests are made of.
NewOp(n, kind, arg) ==
  [node |-> n, time |-> made[n] + 1, kind |-> kind, arg |-> arg, lamport |-> 0]

NewHook(n, op, stage) == [node |-> n, time |-> op.time, stage |-> stage, view |-> OpenView]

\* OperationLog.Add on node n's entity.
Add(n, op) ==
  /\ made[n] < MaxOps[n]
  /\ log' = [log EXCEPT ![n] = Append(@, Stamp(op, clock[n]))]
  /\ clock' = [clock EXCEPT ![n] = @ + 1]
  /\ made' = [made EXCEPT ![n] = op.time]
  /\ hb' = hb \cup (IdSet(log[n]) \X {Id(op)})

\* Mutant of SaveLocked: the log is saved before the operation is added.
SaveStaleLog(n, ok) ==
  IF ok THEN disk' = [disk EXCEPT ![n] = [view |-> view'[n], ops |-> log[n]]] /\ faults' = faults
  ELSE disk' = disk /\ faults < MaxFaults /\ faults' = faults + 1

\* saveLocked: the file becomes the new state, or the write fails.
SaveLocked(n, ok) ==
  IF ok THEN
    /\ Writable
    /\ disk' = [disk EXCEPT ![n] = [view |-> view'[n], ops |-> log'[n]]]
    /\ faults' = faults
  ELSE
    /\ disk' = disk
    /\ IF Writable THEN faults < MaxFaults /\ faults' = faults + 1 ELSE faults' = faults

\* Mutants of Dispatch: it ignores the failure of the save, or is forgotten.
DispatchAlways(n, op, ok) == hooks' = hooks \cup {NewHook(n, op, "get")}
DispatchNever(n, op, ok) == hooks' = hooks

\* A handler returns an error without Dispatch when the save failed.
Dispatch(n, op, ok) == hooks' = IF ok THEN hooks \cup {NewHook(n, op, "get")} ELSE hooks

\* A store's file holds all its entities: the save made for another one, or at
\* shutdown, writes this one as it is.
SaveElse(n) ==
  /\ Writable /\ busy[n] = "free"
  /\ disk' = [disk EXCEPT ![n] = [view |-> view[n], ops |-> log[n]]]
  /\ UNCHANGED <<log, clock, view, busy, rest, hooks, net, seen, made, hb, faults>>
-----------------------------------------------------------------------------
\* The event hook, first half: Get copies the fields and shares the log; an
\* entity Get does not find is not published.
HookGet(h) ==
  /\ h.stage = "get" /\ busy[h.node] = "free"
  /\ hooks' = IF Visible(view[h.node])
              THEN (hooks \ {h}) \cup {[h EXCEPT !.stage = "marshal", !.view = view[h.node]]}
              ELSE hooks \ {h}
  /\ UNCHANGED <<storeVars, net, seen, made, hb, faults>>

\* Second half: publishCRDT marshals the copy, and with it the shared log as
\* it is by then, without the store's lock; the publish itself may fail.
HookPublish(h, ok) ==
  /\ h.stage = "marshal"
  /\ hooks' = hooks \ {h}
  /\ IF ok THEN net' = net \cup {[from |-> h.node, view |-> h.view, ops |-> log[h.node]]}
                /\ faults' = faults
     ELSE net' = net /\ faults < MaxFaults /\ faults' = faults + 1
  /\ UNCHANGED <<storeVars, seen, made, hb>>

\* Mutant of Adopt: a snapshot replaces the entity the store already has.
AdoptAnyway(n, m, ok) ==
  /\ m.from # n /\ busy[n] = "free"
  /\ m \notin seen[n]
  /\ seen' = [seen EXCEPT ![n] = @ \cup {m}]
  /\ log' = [log EXCEPT ![n] = Decode(m.ops)]
  /\ clock' = [clock EXCEPT ![n] = ImportedClock(Decode(m.ops))]
  /\ view' = [view EXCEPT ![n] = m.view]
  /\ UNCHANGED <<busy, rest, hooks, net, made, hb>>
  /\ SaveLocked(n, ok)

\* applyCRDT where the entity is unknown: MergeRemote keeps the snapshot as is.
Adopt(n, m, ok) ==
  /\ m.from # n /\ busy[n] = "free" /\ log[n] = <<>>
  /\ m \notin seen[n]
  /\ seen' = [seen EXCEPT ![n] = @ \cup {m}]
  /\ log' = [log EXCEPT ![n] = Decode(m.ops)]
  /\ clock' = [clock EXCEPT ![n] = ImportedClock(Decode(m.ops))]
  /\ view' = [view EXCEPT ![n] = m.view]
  /\ UNCHANGED <<busy, rest, hooks, net, made, hb>>
  /\ SaveLocked(n, ok)

\* applyCRDT where it is known: Merge starts by merging the clocks.
StartMerge(n, m) ==
  /\ m.from # n /\ busy[n] = "free" /\ log[n] # <<>>
  /\ IF m \notin seen[n] THEN faults' = faults ELSE faults < MaxFaults /\ faults' = faults + 1
  /\ seen' = [seen EXCEPT ![n] = @ \cup {m}]
  /\ clock' = [clock EXCEPT ![n] = Observe(@, ImportedClock(Decode(m.ops)))]
  /\ busy' = [busy EXCEPT ![n] = "merging"]
  /\ rest' = [rest EXCEPT ![n] = Decode(m.ops)]
  /\ UNCHANGED <<log, view, disk, hooks, net, made, hb>>

\* Mutants of ImportNext: operations come in any order, or come twice.
ImportAnyOrder(n) ==
  /\ busy[n] = "merging"
  /\ \E i \in DOMAIN rest[n] :
       /\ Id(rest[n][i]) \notin IdSet(log[n])
       /\ log' = [log EXCEPT ![n] = Append(@, rest[n][i])]
       /\ clock' = [clock EXCEPT ![n] = Observe(@, rest[n][i].lamport)]
  /\ UNCHANGED <<view, disk, busy, rest, hooks, net, seen, made, hb, faults>>
ImportTwice(n) ==
  /\ busy[n] = "merging" /\ \E i \in DOMAIN rest[n] : Id(rest[n][i]) \notin IdSet(log[n])
  /\ \E i \in DOMAIN rest[n] :
       /\ log' = [log EXCEPT ![n] = Append(@, rest[n][i])]
       /\ clock' = [clock EXCEPT ![n] = Observe(@, rest[n][i].lamport)]
  /\ UNCHANGED <<view, disk, busy, rest, hooks, net, seen, made, hb, faults>>

\* ImportOperation of the next remote operation the log does not have.
ImportNext(n) ==
  /\ busy[n] = "merging"
  /\ \E i \in DOMAIN rest[n] :
       /\ Id(rest[n][i]) \notin IdSet(log[n])
       /\ \A j \in 1 .. i - 1 : Id(rest[n][j]) \in IdSet(log[n])
       /\ log' = [log EXCEPT ![n] = Append(@, rest[n][i])]
       /\ clock' = [clock EXCEPT ![n] = Observe(@, rest[n][i].lamport)]
  /\ UNCHANGED <<view, disk, busy, rest, hooks, net, seen, made, hb, faults>>

\* Mutant of FinishMerge: the merged log is saved but not replayed.
FinishWithoutReplay(n, ok) ==
  /\ busy[n] = "merging" /\ IdSet(rest[n]) \subseteq IdSet(log[n])
  /\ busy' = [busy EXCEPT ![n] = "free"]
  /\ rest' = [rest EXCEPT ![n] = <<>>]
  /\ UNCHANGED <<log, clock, view, hooks, net, seen, made, hb>>
  /\ SaveLocked(n, ok)

\* Reset, replay and saveLocked; the error of a failed save is only logged.
FinishMerge(n, ok) ==
  /\ busy[n] = "merging" /\ IdSet(rest[n]) \subseteq IdSet(log[n])
  /\ view' = [view EXCEPT ![n] = Replay(view[n], OpSet(log[n]))]
  /\ busy' = [busy EXCEPT ![n] = "free"]
  /\ rest' = [rest EXCEPT ![n] = <<>>]
  /\ UNCHANGED <<log, clock, hooks, net, seen, made, hb>>
  /\ SaveLocked(n, ok)

\* A crash and the restart: Load rebuilds the log from the file; the hooks die
\* with the process, snapshots sent while it is down are lost to it, and older
\* ones may reach it once more.
Crash(n) ==
  /\ faults < MaxFaults /\ faults' = faults + 1
  /\ log' = [log EXCEPT ![n] = Decode(disk[n].ops)]
  /\ clock' = [clock EXCEPT ![n] = ImportedClock(Decode(disk[n].ops))]
  /\ view' = [view EXCEPT ![n] = disk[n].view]
  /\ busy' = [busy EXCEPT ![n] = "free"]
  /\ rest' = [rest EXCEPT ![n] = <<>>]
  /\ hooks' = {h \in hooks : h.node # n}
  /\ \E taken \in SUBSET net : seen' = [seen EXCEPT ![n] = taken]
  /\ UNCHANGED <<disk, net, made, hb>>

Publish(h) ==
  \/ HookGet(h)
  \/ \E ok \in BOOLEAN : HookPublish(h, ok)

Receive(n) ==
  \/ \E m \in net, ok \in BOOLEAN : Adopt(n, m, ok)
  \/ \E m \in net : StartMerge(n, m)
  \/ ImportNext(n)
  \/ \E ok \in BOOLEAN : FinishMerge(n, ok)

\* What the daemon does by itself: hooks, the holder of the lock and the
\* subscriber run on goroutines nothing blocks forever, and every snapshot is
\* eventually delivered.
ReplicaFairness ==
  \A n \in Node :
    /\ WF_vars(ImportNext(n))
    /\ WF_vars(\E ok \in BOOLEAN : FinishMerge(n, ok))
    /\ WF_vars(\E m \in net \ seen[n] : StartMerge(n, m) \/ \E ok \in BOOLEAN : Adopt(n, m, ok))
    /\ WF_vars(\E h \in hooks : h.node = n /\ Publish(h))
-----------------------------------------------------------------------------
\* The variables keep their types.
TypeOK ==
  /\ log \in [Node -> Seq(Op)]
  /\ clock \in [Node -> Nat]
  /\ view \in [Node -> View]
  /\ disk \in [Node -> [view : View, ops : Seq(Op)]]
  /\ busy \in [Node -> {"free", "working", "merging"}]
  /\ rest \in [Node -> Seq(Op)]
  /\ hooks \subseteq Hook
  /\ net \subseteq Snapshot
  /\ seen \in [Node -> SUBSET Snapshot]
  /\ made \in [Node -> Nat]
  /\ hb \subseteq (Node \X Nat) \X (Node \X Nat)
  /\ faults \in Nat

\* Every log in the system: in memory, in the stores' files, in snapshots.
AllLogs == {log[n] : n \in Node} \cup {disk[n].ops : n \in Node} \cup {m.ops : m \in net}

\* LamportClock "provides causal ordering": an operation that was in the log
\* another one was added to is replayed before it, on every node, on disk and
\* in every snapshot, through merges, crashes and forgotten operations.
HappensBefore ==
  \A L \in AllLogs : \A i, j \in DOMAIN L :
    <<Id(L[i]), Id(L[j])>> \in hb => Before(L[i], L[j])

\* No log holds an operation without the operations its author had seen, nor
\* before them: a completion never arrives without the claim it completes,
\* even in a snapshot marshalled while its entity is being merged.
CausallyClosed ==
  \A L \in AllLogs : \A j \in DOMAIN L : \A p \in hb :
    p[2] = Id(L[j]) => \E i \in 1 .. j - 1 : Id(L[i]) = p[1]

\* "Duplicates are prevented by op ID deduplication": no log ever holds an
\* operation twice, whatever snapshots are merged, again or in any order.
NoDuplicates == \A L \in AllLogs : \A i, j \in DOMAIN L : Id(L[i]) = Id(L[j]) => i = j

\* Why the three hold where decoding keeps the Lamport values: the logs are
\* causal with respect to the history, which names no operation that was never
\* made; the clock of a log dominates it, so that Add stamps above all the log
\* holds, after a merge or a restart too; and a merge imports from a snapshot
\* some daemon published.
CausalHistory ==
  /\ Causal(AllLogs, hb)
  /\ \A o \in OpsOf(AllLogs) : o.time <= made[o.node]
  /\ \A p \in hb : p[1][2] <= made[p[1][1]] /\ p[2][2] <= made[p[2][1]]
  /\ \A n \in Node : \A o \in OpSet(log[n]) : o.lamport <= clock[n]
  /\ \A n \in Node : rest[n] = <<>> \/ \E m \in net : rest[n] = Decode(m.ops)

\* Nothing is left to publish, merge or deliver.
Quiescent ==
  /\ hooks = {}
  /\ \A n \in Node : busy[n] = "free" /\ \A m \in net : m.from = n \/ m \in seen[n]
=============================================================================
