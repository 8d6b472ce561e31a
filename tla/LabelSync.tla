------------------------------ MODULE LabelSync ------------------------------
(***************************************************************************)
(* A repository label: Label and LabelStore (internal/crdt/labels.go) with *)
(* their handlers (internal/api/handlers/labels.go), replicated as Replica *)
(* says.  A label is known by its name, so several daemons may create the  *)
(* same one, and one that was removed may be created again, with a new     *)
(* log.  Decoding keeps the Lamport values.                                *)
(***************************************************************************)
EXTENDS OpLog, FiniteSets

CONSTANTS
  Node,       \* the daemons, each the rank of its DID among the DIDs
  Color,      \* colours labels are given
  NoColor,    \* that of a label that does not exist
  MaxOps,     \* bound: MaxOps[n] operations that node n may ever make
  MaxFaults   \* bound: failed saves and publishes, repeated deliveries, crashes

ASSUME NodeAssumption == Node \subseteq Nat
ASSUME ColorAssumption == NoColor \notin Color
ASSUME BoundAssumption == MaxOps \in [Node -> Nat] /\ MaxFaults \in Nat

VARIABLES log, clock, view, disk, busy, rest, hooks, net, seen, made, hb, faults

View == [color : Color \cup {NoColor}, tombstoned : BOOLEAN]
Op == [node : Node, time : Nat, kind : {"create", "color", "tombstone"},
       arg : Color \cup {NoColor}, lamport : Nat]

OpenView == [color |-> NoColor, tombstoned |-> FALSE]

OfKind(S, kind) == {o \in S : o.kind = kind}

\* Mutants of Replay: the colour is read from whatever sorts last; or the
\* tombstone is reset and not replayed.
ReplayAny(old, S) ==
  [color |-> Last(S).arg, tombstoned |-> OfKind(S, "tombstone") # {}]
ReplayRevives(old, S) ==
  [color |-> IF OfKind(S, "color") = {} THEN old.color ELSE Last(OfKind(S, "color")).arg,
   tombstoned |-> FALSE]

\* Label.Merge and applyOperations.  A creation is not replayed, and any
\* tombstone in the log counts, even before a creation.
Replay(old, S) ==
  [color |-> IF OfKind(S, "color") = {} THEN old.color ELSE Last(OfKind(S, "color")).arg,
   tombstoned |-> OfKind(S, "tombstone") # {}]

\* Label.UnmarshalJSON.
Decode(ops) == ops

\* LabelStore.Get does not find a tombstoned label.
Visible(v) == ~v.tombstoned

\* main gives the store the path of a file.
Writable == TRUE

INSTANCE Replica

\* Replica's variables, for the actions of this module.
labelVars == <<log, clock, view, disk, busy, rest, hooks, net, seen, made, hb, faults>>
-----------------------------------------------------------------------------
\* Hooks that hold a copy of node n's label, and the snapshots they will make.
Holding(n) == {h \in hooks : h.node = n /\ h.stage = "marshal"}
Pending(n) == {[from |-> n, view |-> h.view, ops |-> log[n]] : h \in Holding(n)}

\* LabelStore.Add of a label that is not there, or tombstoned: a new log, which
\* forgets the tombstone and starts its clock again.  The copies hooks hold
\* keep the old log, which no longer changes: they are published at once.
Create(n, c, ok) ==
  /\ busy[n] = "free" /\ made[n] < MaxOps[n]
  /\ log[n] = <<>> \/ view[n].tombstoned
  /\ LET op == NewOp(n, "create", c) IN
     /\ log' = [log EXCEPT ![n] = <<Stamp(op, 0)>>]
     /\ made' = [made EXCEPT ![n] = op.time]
     /\ hooks' = (hooks \ Holding(n)) \cup (IF ok THEN {NewHook(n, op, "get")} ELSE {})
  /\ clock' = [clock EXCEPT ![n] = 1]
  /\ view' = [view EXCEPT ![n] = [color |-> c, tombstoned |-> FALSE]]
  /\ net' = net \cup Pending(n)
  /\ UNCHANGED <<busy, rest, seen, hb>>
  /\ SaveLocked(n, ok)

\* LabelStore.Remove; its event finds no label to publish.
Remove(n, ok) ==
  /\ busy[n] = "free" /\ log[n] # <<>> /\ Visible(view[n])
  /\ view' = [view EXCEPT ![n].tombstoned = TRUE]
  /\ LET op == NewOp(n, "tombstone", NoColor) IN Add(n, op) /\ Dispatch(n, op, ok)
  /\ UNCHANGED <<busy, rest, net, seen>>
  /\ SaveLocked(n, ok)

SetColor(n, c, ok) ==
  /\ busy[n] = "free" /\ log[n] # <<>> /\ Visible(view[n])
  /\ view' = [view EXCEPT ![n].color = c]
  /\ LET op == NewOp(n, "color", c) IN Add(n, op) /\ Dispatch(n, op, ok)
  /\ UNCHANGED <<busy, rest, net, seen>>
  /\ SaveLocked(n, ok)

Request(n) ==
  \/ \E c \in Color, ok \in BOOLEAN : Create(n, c, ok) \/ SetColor(n, c, ok)
  \/ \E ok \in BOOLEAN : Remove(n, ok)

Next ==
  \/ \E n \in Node : Request(n) \/ Receive(n) \/ SaveElse(n) \/ Crash(n)
  \/ \E h \in hooks : Publish(h)

Spec == Init /\ [][Next]_labelVars
-----------------------------------------------------------------------------
\* The variables keep their types, a label that exists has a colour, and a log
\* that was begun again after a removal is ordered, without gaps or duplicates.
LabelLogs ==
  /\ TypeOK /\ HappensBefore /\ CausallyClosed /\ NoDuplicates
  /\ \A n \in Node : log[n] # <<>> => view[n].color \in Color

\* A label removed on a daemon comes back only when somebody there creates it
\* again, or when the daemon restarts from an older file: no snapshot, however
\* it was put together, revives it.
RemovedStays ==
  [][\A n \in Node : view[n].tombstoned /\ ~view'[n].tombstoned =>
       (\E c \in Color, ok \in BOOLEAN : Create(n, c, ok)) \/ Crash(n)]_labelVars

=============================================================================
