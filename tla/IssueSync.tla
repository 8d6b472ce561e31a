------------------------------ MODULE IssueSync ------------------------------
(***************************************************************************)
(* An issue: Issue and IssueStore (internal/crdt/issue.go, store.go) with  *)
(* the handlers that write it (internal/api/handlers/issues.go, batch.go,  *)
(* import.go), replicated as Replica says.  Decoding rebuilds the log with *)
(* Add: an operation's Lamport value becomes its position.  The compactor  *)
(* treats issues and pull requests alike: PRSync has it.                   *)
(***************************************************************************)
EXTENDS OpLog, FiniteSets

CONSTANTS
  Node,       \* the daemons, each the rank of its DID among the DIDs
  Label,      \* labels an issue may be created with
  MaxOps,     \* bound: MaxOps[n] operations that node n may ever make
  MaxFaults   \* bound: failed saves and publishes, repeated deliveries, crashes

ASSUME NodeAssumption == Node \subseteq Nat
ASSUME BoundAssumption == MaxOps \in [Node -> Nat] /\ MaxFaults \in Nat

VARIABLES log, clock, view, disk, busy, rest, hooks, net, seen, made, hb, faults

View == [status : {"open", "closed"}, labels : SUBSET Label]
Op == [node : Node, time : Nat, kind : {"create", "label", "comment", "status"},
       arg : Label \cup {"", "closed"}, lamport : Nat]

OpenView == [status |-> "open", labels |-> {}]

OfKind(S, kind) == {o \in S : o.kind = kind}

\* Mutants of Replay: whatever sorts last is taken for the status; or the
\* status is reset like the labels, and never replayed.
ReplayAny(old, S) ==
  [status |-> Last(S).arg, labels |-> {o.arg : o \in OfKind(S, "label")}]
ReplayReopens(old, S) ==
  [status |-> "open", labels |-> {o.arg : o \in OfKind(S, "label")}]

\* Issue.Merge and applyOperations: the labels are reset and rebuilt; without a
\* status operation the status stays what it was.  Handlers only ever close.
Replay(old, S) ==
  [status |-> IF OfKind(S, "status") = {} THEN old.status ELSE Last(OfKind(S, "status")).arg,
   labels |-> {o.arg : o \in OfKind(S, "label")}]

\* Issue.UnmarshalJSON.
Decode(ops) == Renumbered(ops)

\* No handler tombstones an issue.
Visible(v) == TRUE

\* main gives the store the path of a file.
Writable == TRUE

INSTANCE Replica

\* Replica's variables, for the actions of this module.
issueVars == <<log, clock, view, disk, busy, rest, hooks, net, seen, made, hb, faults>>
-----------------------------------------------------------------------------
\* CreateIssue: the store's Create saves nothing; "work" is left if the request
\* has labels.  Batch and import requests create without any event.
Create(n, stage) ==
  /\ \A m \in Node : made[m] = 0
  /\ LET op == NewOp(n, "create", "") IN
     /\ Add(n, op)
     /\ hooks' = IF stage = "quiet" THEN hooks ELSE hooks \cup {NewHook(n, op, stage)}
  /\ UNCHANGED <<view, disk, busy, rest, net, seen, faults>>

\* The labels of a new issue, added under the store's lock,
AddLabel(h, l) ==
  /\ h.stage = "work" /\ busy[h.node] # "merging"
  /\ l \notin view[h.node].labels
  /\ busy' = [busy EXCEPT ![h.node] = "working"]
  /\ view' = [view EXCEPT ![h.node].labels = @ \cup {l}]
  /\ Add(h.node, NewOp(h.node, "label", l))
  /\ UNCHANGED <<disk, rest, hooks, net, seen, faults>>

\* and saved; the handler goes on to Dispatch if that fails.
FinishLabels(h, ok) ==
  /\ h.stage = "work" /\ busy[h.node] = "working"
  /\ busy' = [busy EXCEPT ![h.node] = "free"]
  /\ hooks' = (hooks \ {h}) \cup {[h EXCEPT !.stage = "get"]}
  /\ UNCHANGED <<log, clock, view, rest, net, seen, made, hb>>
  /\ SaveLocked(h.node, ok)

Comment(n, ok) ==
  /\ busy[n] = "free" /\ log[n] # <<>>
  /\ LET op == NewOp(n, "comment", "") IN Add(n, op) /\ Dispatch(n, op, ok)
  /\ UNCHANGED <<view, busy, rest, net, seen>>
  /\ SaveLocked(n, ok)

\* CloseIssue, of an issue in any status.
Close(n, ok) ==
  /\ busy[n] = "free" /\ log[n] # <<>>
  /\ view' = [view EXCEPT ![n].status = "closed"]
  /\ LET op == NewOp(n, "status", "closed") IN Add(n, op) /\ Dispatch(n, op, ok)
  /\ UNCHANGED <<busy, rest, net, seen>>
  /\ SaveLocked(n, ok)

\* The close_issue operation of a batch: no event.
BatchClose(n, ok) ==
  /\ busy[n] = "free" /\ log[n] # <<>>
  /\ view' = [view EXCEPT ![n].status = "closed"]
  /\ Add(n, NewOp(n, "status", "closed"))
  /\ UNCHANGED <<busy, rest, hooks, net, seen>>
  /\ SaveLocked(n, ok)

Request(n) ==
  \/ \E stage \in {"work", "get", "quiet"} : Create(n, stage)
  \/ \E ok \in BOOLEAN : Comment(n, ok) \/ Close(n, ok) \/ BatchClose(n, ok)

Labelling(h) ==
  \/ \E l \in Label : AddLabel(h, l)
  \/ \E ok \in BOOLEAN : FinishLabels(h, ok)

Next ==
  \/ \E n \in Node : Request(n) \/ Receive(n) \/ SaveElse(n) \/ Crash(n)
  \/ \E h \in hooks : Labelling(h) \/ Publish(h)

Spec == Init /\ [][Next]_issueVars
-----------------------------------------------------------------------------
\* An issue closed on a daemon is not reopened by a merge, however old the
\* snapshot; only a restart can bring back an older file.
ClosedStays ==
  [][\A n \in Node : view[n].status = "closed" /\ view'[n].status = "open" => Crash(n)]_issueVars

\* The variables keep their types, no log has an operation twice or one without
\* those its author knew of, and the labels shown are in the log, even where an
\* older copy of the fields came with a newer log.
IssueSound ==
  /\ TypeOK /\ CausallyClosed /\ NoDuplicates
  /\ \A n \in Node : \A s \in {[view |-> view[n], ops |-> log[n]], disk[n]} :
       s.view.labels \subseteq {o.arg : o \in OfKind(OpSet(s.ops), "label")}

\* What was published and delivered is kept: when nothing is left to deliver,
\* every daemon has every operation of every snapshot.
PublishedIsKept ==
  Quiescent => \A m \in net, n \in Node : IdSet(m.ops) \subseteq IdSet(log[n])
=============================================================================
