--------------------------- MODULE IssueSyncProofs ---------------------------
(***************************************************************************)
(* Theorems about IssueSync, for every set of nodes and labels and every   *)
(* bound: though decoding gives operations other Lamport values, a log has *)
(* no gap and no duplicate, the labels shown are in the log, a merge never *)
(* reopens a closed issue, and without restarts what was published and     *)
(* delivered is kept.                                                      *)
(***************************************************************************)
EXTENDS IssueSync, OpLogProofs

LEMMA OpIsOrdered == \A o \in Op : Ordered(o)
  BY NodeAssumption DEF Op, Ordered

LEMMA ClockType == ASSUME NEW ops \in Seq(Op) PROVE ImportedClock(ops) \in Nat
  BY ImportedClockBound, OpIsOrdered

\* Stamping changes the Lamport value and nothing else.
LEMMA StampOp ==
  ASSUME NEW op \in Op, NEW c \in Nat
  PROVE  /\ Stamp(op, c) \in Op /\ Id(Stamp(op, c)) = Id(op)
         /\ Stamp(op, c).kind = op.kind /\ Stamp(op, c).arg = op.arg
<1> DEFINE new == Stamp(op, c)
<1>1. /\ new.node = op.node /\ new.time = op.time /\ new.kind = op.kind /\ new.arg = op.arg
      /\ new.lamport = c + 1
  BY DEF Stamp, Op
<1>2. c + 1 \in Nat
  OBVIOUS
<1>3. new \in Op
  BY <1>2 DEF Stamp, Op
<1>4. Id(new) = Id(op)
  BY <1>1 DEF Id
<1>5. QED
  BY <1>1, <1>3, <1>4

\* An ID is a node and a count.
LEMMA IdType ==
  ASSUME NEW ops \in Seq(Op)
  PROVE  IdSet(ops) \subseteq Node \X Nat
<1>1. \A o \in Op : Id(o) \in Node \X Nat
  BY DEF Id, Op
<1>2. QED
  BY <1>1 DEF IdSet

\* Issue.UnmarshalJSON keeps the operations and their order.
LEMMA DecodeIs ==
  ASSUME NEW ops \in Seq(Op)
  PROVE  /\ Decode(ops) \in Seq(Op) /\ DOMAIN Decode(ops) = DOMAIN ops
         /\ (Decode(ops) = <<>>) = (ops = <<>>)
         /\ \A i \in DOMAIN ops : /\ Id(Decode(ops)[i]) = Id(ops[i])
                                  /\ Decode(ops)[i].kind = ops[i].kind
                                  /\ Decode(ops)[i].arg = ops[i].arg
         /\ IdSet(Decode(ops)) = IdSet(ops)
<1> DEFINE new == [i \in DOMAIN ops |-> [ops[i] EXCEPT !.lamport = i]]
<1>1. Decode(ops) = new
  BY DEF Decode, Renumbered
<1>2. DOMAIN ops = 1 .. Len(ops) /\ Len(ops) \in Nat /\ \A i \in DOMAIN ops : ops[i] \in Op /\ i \in Nat
  OBVIOUS
<1>3. \A i \in DOMAIN ops : /\ new[i] \in Op /\ new[i].node = ops[i].node /\ new[i].time = ops[i].time
                            /\ new[i].kind = ops[i].kind /\ new[i].arg = ops[i].arg
  BY <1>2 DEF Op
<1>4. new \in [1 .. Len(ops) -> Op]
  BY <1>2, <1>3
<1>5. DOMAIN new = DOMAIN ops
  OBVIOUS
<1> HIDE DEF new
<1>6. new \in Seq(Op) /\ Len(new) = Len(ops)
  BY <1>2, <1>4
<1>7. (new = <<>>) = (ops = <<>>)
  BY <1>6
<1>8. \A i \in DOMAIN ops : Id(new[i]) = Id(ops[i])
  BY <1>3 DEF Id
<1>9. IdSet(new) = IdSet(ops)
  BY <1>5, <1>8 DEF IdSet
<1>10. QED
  BY <1>1, <1>3, <1>5, <1>6, <1>7, <1>8, <1>9

\* The operations the requests make: nothing else is about a label or a status.
Proper(o) == (o.kind = "label" => o.arg \in Label) /\ (o.kind = "status" => o.arg = "closed")

Fresh(n, op) ==
  op \in Op /\ op.node = n /\ op.time = made[n] + 1 /\ op.time \in Nat /\ Proper(op)

LEMMA Count == TypeOK => \A n \in Node : made[n] + 1 \in Nat
  BY DEF TypeOK

LEMMA NewOpIs ==
  ASSUME TypeOK, NEW n \in Node, NEW kind \in {"create", "label", "comment", "status"},
         NEW arg \in Label \cup {"", "closed"},
         kind = "label" => arg \in Label, kind = "status" => arg = "closed"
  PROVE  /\ Fresh(n, NewOp(n, kind, arg))
         /\ NewOp(n, kind, arg).kind = kind /\ NewOp(n, kind, arg).arg = arg
<1> DEFINE op == NewOp(n, kind, arg)
<1>1. /\ op.node = n /\ op.time = made[n] + 1 /\ op.kind = kind /\ op.arg = arg
  BY DEF NewOp
<1>3. made[n] + 1 \in Nat
  BY Count
<1>4. op \in Op
  BY <1>3, 0 \in Nat DEF NewOp, Op
<1> HIDE DEF op
<1>5. Fresh(n, op)
  BY <1>1, <1>3, <1>4 DEF Fresh, Proper
<1>6. QED
  BY <1>1, <1>5 DEF op

LEMMA NewOpsAre ==
  ASSUME TypeOK, NEW n \in Node
  PROVE  /\ Fresh(n, NewOp(n, "create", "")) /\ Fresh(n, NewOp(n, "comment", ""))
         /\ Fresh(n, NewOp(n, "status", "closed"))
         /\ \A l \in Label : LET op == NewOp(n, "label", l) IN
              Fresh(n, op) /\ op.kind = "label" /\ op.arg = l
<1>1. "" \in Label \cup {"", "closed"} /\ "closed" \in Label \cup {"", "closed"}
  OBVIOUS
<1>2. Fresh(n, NewOp(n, "create", ""))
  BY <1>1, NewOpIs
<1>3. Fresh(n, NewOp(n, "comment", ""))
  BY <1>1, NewOpIs
<1>4. Fresh(n, NewOp(n, "status", "closed"))
  BY <1>1, NewOpIs
<1>5. ASSUME NEW l \in Label
      PROVE  LET op == NewOp(n, "label", l) IN
              Fresh(n, op) /\ op.kind = "label" /\ op.arg = l
  <2> DEFINE op == NewOp(n, "label", l)
  <2>1. op.node = n /\ op.time = made[n] + 1 /\ op.kind = "label" /\ op.arg = l
    BY DEF NewOp
  <2>2. made[n] + 1 \in Nat
    BY Count
  <2>3. op \in Op
    BY <2>2, 0 \in Nat DEF NewOp, Op
  <2> HIDE DEF op
  <2>4. Fresh(n, op)
    BY <2>1, <2>2, <2>3 DEF Fresh, Proper
  <2>5. QED
    BY <2>1, <2>4 DEF op
<1>6. QED
  BY <1>2, <1>3, <1>4, <1>5
-----------------------------------------------------------------------------
(* The steps, as the proofs tell them apart. *)

\* The operation says what becomes of the fields.
Means(n, op, v) ==
  \/ v = view[n]
  \/ v.status = "closed" /\ v.labels = view[n].labels
  \/ op.kind = "label" /\ v.labels = view[n].labels \cup {op.arg} /\ v.status = view[n].status

Saves(n) == (\E ok \in BOOLEAN : SaveLocked(n, ok)) \/ UNCHANGED <<disk, faults>>

\* A request adds an operation.
Adds(n, op, v) ==
  /\ Fresh(n, op)
  /\ Add(n, op) /\ v \in View /\ view' = [view EXCEPT ![n] = v] /\ Means(n, op, v)
  /\ Saves(n)
  /\ hooks' \subseteq hooks \cup {NewHook(n, op, stage) : stage \in {"work", "get"}}
  /\ \/ busy' = busy
     \/ busy[n] # "merging" /\ busy' = [busy EXCEPT ![n] = "working"]
  /\ UNCHANGED <<rest, net, seen>>

Added(n) == \E op, v : Adds(n, op, v)
Labelled(h) == \E ok \in BOOLEAN : FinishLabels(h, ok)
Adopted(n) == \E m \in net, ok \in BOOLEAN : Adopt(n, m, ok)
Started(n) == \E m \in net : StartMerge(n, m)
Finished(n) == \E ok \in BOOLEAN : FinishMerge(n, ok)
Published(h) == \E ok \in BOOLEAN : HookPublish(h, ok)

LEMMA RequestAdds ==
  ASSUME TypeOK, NEW n \in Node, Request(n)
  PROVE  Added(n)
<1>0. view[n] \in View /\ view \in [Node -> View]
  BY DEF TypeOK
<1>1. ASSUME NEW stage \in {"work", "get", "quiet"}, Create(n, stage) PROVE Added(n)
  <2> DEFINE op == NewOp(n, "create", "")
  <2>1. Fresh(n, op)
    BY NewOpsAre
  <2>2. \/ hooks' = hooks
        \/ stage \in {"work", "get"} /\ hooks' = hooks \cup {NewHook(n, op, stage)}
    BY <1>1 DEF Create
  <2>3. Add(n, op) /\ UNCHANGED <<view, disk, faults, busy, rest, net, seen>>
    BY <1>1 DEF Create
  <2> HIDE DEF op
  <2>4. view' = [view EXCEPT ![n] = view[n]]
    BY <1>0, <2>3
  <2>5. Adds(n, op, view[n])
    BY <1>0, <2>1, <2>2, <2>3, <2>4 DEF Adds, Means, Saves
  <2>6. QED
    BY <2>5 DEF Added
<1>2. ASSUME NEW ok \in BOOLEAN, Comment(n, ok) PROVE Added(n)
  <2> DEFINE op == NewOp(n, "comment", "")
  <2>1. Fresh(n, op)
    BY NewOpsAre
  <2>2. /\ Add(n, op) /\ Dispatch(n, op, ok) /\ SaveLocked(n, ok)
        /\ UNCHANGED <<view, busy, rest, net, seen>>
    BY <1>2 DEF Comment
  <2> HIDE DEF op
  <2>3. view' = [view EXCEPT ![n] = view[n]]
    BY <1>0, <2>2
  <2>4. Adds(n, op, view[n])
    BY <1>0, <2>1, <2>2, <2>3 DEF Adds, Means, Saves, Dispatch
  <2>5. QED
    BY <2>4 DEF Added
<1>3. ASSUME NEW ok \in BOOLEAN, Close(n, ok) \/ BatchClose(n, ok) PROVE Added(n)
  <2> DEFINE op == NewOp(n, "status", "closed")
             v == [view[n] EXCEPT !.status = "closed"]
  <2>1. Fresh(n, op)
    BY NewOpsAre
  <2>2. /\ Add(n, op) /\ (Dispatch(n, op, ok) \/ hooks' = hooks) /\ SaveLocked(n, ok)
        /\ UNCHANGED <<busy, rest, net, seen>>
    BY <1>3 DEF Close, BatchClose
  <2>3. view' = [view EXCEPT ![n] = v]
    BY <1>0, <1>3 DEF Close, BatchClose
  <2>4. v \in View /\ v.status = "closed" /\ v.labels = view[n].labels
    BY <1>0 DEF View
  <2> HIDE DEF op, v
  <2>5. Adds(n, op, v)
    BY <2>1, <2>2, <2>3, <2>4 DEF Adds, Means, Saves, Dispatch
  <2>6. QED
    BY <2>5 DEF Added
<1>4. QED
  BY <1>1, <1>2, <1>3 DEF Request

LEMMA LabelAdds ==
  ASSUME TypeOK, NEW h \in hooks, NEW l \in Label, AddLabel(h, l)
  PROVE  h.node \in Node /\ Added(h.node)
<1> DEFINE n == h.node
           op == NewOp(n, "label", l)
           v == [view[n] EXCEPT !.labels = @ \cup {l}]
<1>1. n \in Node /\ view[n] \in View /\ view \in [Node -> View]
  BY DEF TypeOK, Hook
<1>2. Fresh(n, op) /\ op.kind = "label" /\ op.arg = l
  BY <1>1, NewOpsAre
<1>3. /\ Add(n, op) /\ UNCHANGED <<disk, faults, hooks, rest, net, seen>>
      /\ busy[n] # "merging" /\ busy' = [busy EXCEPT ![n] = "working"]
      /\ view' = [view EXCEPT ![n].labels = @ \cup {l}]
  BY DEF AddLabel
<1>4. view' = [view EXCEPT ![n] = v]
  BY <1>1, <1>3
<1>5. v \in View /\ v.labels = view[n].labels \cup {l} /\ v.status = view[n].status
  BY <1>1 DEF View
<1> HIDE DEF n, op, v
<1>6. Adds(n, op, v)
  BY <1>2, <1>3, <1>4, <1>5 DEF Adds, Means, Saves
<1>7. QED
  BY <1>1, <1>6 DEF Added, n

LEMMA NextCases ==
  ASSUME TypeOK, [Next]_issueVars
  PROVE  \/ \E n \in Node : \/ Added(n) \/ Adopted(n) \/ Started(n)
                            \/ ImportNext(n) \/ Finished(n) \/ SaveElse(n) \/ Crash(n)
         \/ \E h \in hooks : Labelled(h) \/ HookGet(h) \/ Published(h)
         \/ UNCHANGED issueVars
<1>1. ASSUME NEW h \in hooks, Labelling(h) PROVE Labelled(h) \/ \E n \in Node : Added(n)
  BY <1>1, LabelAdds DEF Labelling, Labelled
<1>2. ASSUME NEW n \in Node, Receive(n)
      PROVE  Adopted(n) \/ Started(n) \/ ImportNext(n) \/ Finished(n)
  BY <1>2 DEF Receive, Adopted, Started, Finished
<1>3. ASSUME NEW h \in hooks, Publish(h) PROVE HookGet(h) \/ Published(h)
  BY <1>3 DEF Publish, Published
<1>4. QED
  BY <1>1, <1>2, <1>3, RequestAdds DEF Next
-----------------------------------------------------------------------------
(* Types. *)

LEMMA AddType ==
  ASSUME TypeOK, NEW n \in Node, NEW op, Fresh(n, op), Add(n, op)
  PROVE  /\ log' \in [Node -> Seq(Op)] /\ clock' \in [Node -> Nat] /\ made' \in [Node -> Nat]
         /\ hb' \subseteq (Node \X Nat) \X (Node \X Nat)
<1>0. op \in Op /\ op.node = n /\ op.time \in Nat
  BY DEF Fresh
<1>1. Stamp(op, clock[n]) \in Op
  BY <1>0, StampOp DEF TypeOK
<1>2. log' \in [Node -> Seq(Op)]
  BY <1>1 DEF Add, TypeOK
<1>3. IdSet(log[n]) \subseteq Node \X Nat /\ Id(op) \in Node \X Nat
  BY <1>0, IdType DEF TypeOK, Id
<1>4. hb' \subseteq (Node \X Nat) \X (Node \X Nat)
  BY <1>3 DEF Add, TypeOK
<1>5. clock' \in [Node -> Nat] /\ made' \in [Node -> Nat]
  BY <1>0 DEF Add, TypeOK
<1>6. QED
  BY <1>2, <1>4, <1>5

\* Where a step leaves the fields and the log of n, the file of any daemon is
\* what it was, or those.
SavedAs(n) ==
  \A k \in Node : disk'[k] = disk[k] \/ disk'[k] = [view |-> view'[n], ops |-> log'[n]]

LEMMA SaveType ==
  ASSUME TypeOK, NEW n \in Node, NEW ok, SaveLocked(n, ok),
         view'[n] \in View, log'[n] \in Seq(Op)
  PROVE  disk' \in [Node -> [view : View, ops : Seq(Op)]] /\ faults' \in Nat /\ SavedAs(n)
<1> DEFINE new == [view |-> view'[n], ops |-> log'[n]]
<1>1. new \in [view : View, ops : Seq(Op)]
  OBVIOUS
<1>2. disk' = [disk EXCEPT ![n] = new] \/ disk' = disk
  BY DEF SaveLocked
<1> HIDE DEF new
<1>3. disk' \in [Node -> [view : View, ops : Seq(Op)]]
  BY <1>1, <1>2 DEF TypeOK
<1>4. \A k \in Node : disk'[k] = disk[k] \/ disk'[k] = new
  BY <1>2 DEF TypeOK
<1>5. QED
  BY <1>3, <1>4 DEF SaveLocked, TypeOK, SavedAs, new

LEMMA SavesType ==
  ASSUME TypeOK, NEW n \in Node, Saves(n), view'[n] \in View, log'[n] \in Seq(Op)
  PROVE  disk' \in [Node -> [view : View, ops : Seq(Op)]] /\ faults' \in Nat /\ SavedAs(n)
<1>1. CASE \E ok \in BOOLEAN : SaveLocked(n, ok)
  BY <1>1, SaveType
<1>2. CASE UNCHANGED <<disk, faults>>
  BY <1>2 DEF TypeOK, SavedAs
<1>3. QED
  BY <1>1, <1>2 DEF Saves

LEMMA NewHookType ==
  ASSUME TypeOK, NEW n \in Node, NEW op, op.time \in Nat, NEW stage \in {"work", "get"}
  PROVE  NewHook(n, op, stage) \in Hook
  BY DEF NewHook, Hook, View, OpenView

\* Issue.applyOperations yields well-typed fields: the labels of the log, and
\* closed if they were, or if the log has a status operation.
LEMMA ReplayType ==
  ASSUME NEW old \in View, NEW ops \in Seq(Op), \A o \in OpSet(ops) : Proper(o)
  PROVE  LET new == Replay(old, OpSet(ops)) IN
         /\ new \in View /\ new.labels = {o.arg : o \in OfKind(OpSet(ops), "label")}
         /\ old.status = "closed" => new.status = "closed"
         /\ new.status = "closed" => old.status = "closed" \/ ops # <<>>
<1> DEFINE S == OpSet(ops)
           marks == OfKind(S, "status")
           labels == {o.arg : o \in OfKind(S, "label")}
           status == IF marks = {} THEN old.status ELSE Last(marks).arg
<1>1. IsFiniteSet(S) /\ S \subseteq Op
  BY OpSetFinite
<1>2. \A o \in S : Proper(o)
  OBVIOUS
<1>3. S # {} => ops # <<>>
  BY DEF OpSet
<1>4. Replay(old, S) = [status |-> status, labels |-> labels]
  BY DEF Replay
<1> HIDE DEF S
<1>5. marks # {} => Last(marks).arg = "closed"
  <2>1. IsFiniteSet(marks) /\ \A o \in marks : Ordered(o)
    BY <1>1, FS_Subset, OpIsOrdered DEF OfKind
  <2>2. marks # {} => Last(marks) \in marks
    BY <2>1, LastExists
  <2>3. QED
    BY <1>2, <2>2 DEF OfKind, Proper
<1>6. labels \subseteq Label
  BY <1>2 DEF OfKind, Proper
<1>7. marks # {} => ops # <<>>
  BY <1>3 DEF OfKind
<1>8. old.status \in {"open", "closed"}
  BY DEF View
<1> HIDE DEF marks, labels
<1>9. /\ status \in {"open", "closed"} /\ (old.status = "closed" => status = "closed")
      /\ status = "closed" => old.status = "closed" \/ ops # <<>>
  BY <1>5, <1>7, <1>8
<1> HIDE DEF status
<1>10. Replay(old, S).labels = labels /\ Replay(old, S).status = status /\ Replay(old, S) \in View
  BY <1>4, <1>6, <1>9 DEF View
<1>11. QED
  BY <1>9, <1>10 DEF S, labels
-----------------------------------------------------------------------------
(* The inductive invariant. *)

\* Decoding changes Lamport values: a log is sound as to which operations it
\* holds, and where.
Sound == Closed(AllLogs, hb)
Issued ==
  /\ \A L \in AllLogs : \A x \in IdSet(L) : x[2] <= made[x[1]]
  /\ \A p \in hb : p[2][2] <= made[p[2][1]]
RestSent == \A n \in Node : rest[n] = <<>> \/ \E m \in net : rest[n] = Decode(m.ops)
AllProper == \A o \in OpsOf(AllLogs) : Proper(o)

\* The labels shown are in the log, and an issue that is not there is not closed.
Fits(v, ops) ==
  /\ v.labels \subseteq {o.arg : o \in OfKind(OpSet(ops), "label")}
  /\ v.status = "closed" => ops # <<>>

StoresFit == \A n \in Node : Fits(view[n], log[n]) /\ Fits(disk[n].view, disk[n].ops)
NetFits == \A m \in net : Fits(m.view, m.ops)
HooksFit == \A h \in hooks : h.stage = "marshal" => Fits(h.view, log[h.node])

IssueInv ==
  /\ TypeOK /\ Sound /\ Issued /\ RestSent /\ AllProper
  /\ StoresFit /\ NetFits /\ HooksFit

LEMMA LogsType == TypeOK => AllLogs \in SUBSET Seq(Op) /\ OpsOf(AllLogs) \subseteq Op
<1> SUFFICES ASSUME TypeOK PROVE AllLogs \in SUBSET Seq(Op) /\ OpsOf(AllLogs) \subseteq Op
  OBVIOUS
<1>1. AllLogs \in SUBSET Seq(Op)
  BY DEF TypeOK, AllLogs, Snapshot
<1>2. \A L \in AllLogs : OpSet(L) \subseteq Op
  BY <1>1, OpSetFinite
<1>3. QED
  BY <1>1, <1>2 DEF OpsOf

LEMMA LogProper ==
  ASSUME AllProper, NEW L \in AllLogs
  PROVE  \A o \in OpSet(L) : Proper(o)
  BY DEF AllProper, OpsOf

LEMMA RestType == TypeOK /\ RestSent => \A n \in Node : rest[n] \in Seq(Op)
  BY DEF TypeOK
-----------------------------------------------------------------------------
LEMMA TypeStep == IssueInv /\ [Next]_issueVars => TypeOK'
<1> SUFFICES ASSUME IssueInv, [Next]_issueVars PROVE TypeOK'
  OBVIOUS
<1>0. TypeOK /\ AllProper
  BY DEF IssueInv
<1>1. ASSUME NEW n \in Node, Added(n) PROVE TypeOK'
  <2>1. PICK op, v : Adds(n, op, v)
    BY <1>1 DEF Added
  <2>2. /\ log' \in [Node -> Seq(Op)] /\ clock' \in [Node -> Nat]
        /\ made' \in [Node -> Nat] /\ hb' \subseteq (Node \X Nat) \X (Node \X Nat)
    BY <1>0, <2>1, AddType DEF Adds
  <2>3. view' \in [Node -> View]
    BY <1>0, <2>1 DEF Adds, TypeOK
  <2>4. disk' \in [Node -> [view : View, ops : Seq(Op)]] /\ faults' \in Nat
    BY <1>0, <2>1, <2>2, <2>3, SavesType DEF Adds
  <2>5. hooks' \subseteq Hook
    <3>1. \A stage \in {"work", "get"} : NewHook(n, op, stage) \in Hook
      BY <1>0, <2>1, NewHookType DEF Adds, Fresh
    <3>2. hooks' \subseteq hooks \cup {NewHook(n, op, stage) : stage \in {"work", "get"}}
      BY <2>1 DEF Adds
    <3>3. hooks \subseteq Hook
      BY <1>0 DEF TypeOK
    <3>4. QED
      BY <3>1, <3>2, <3>3, Zenon
  <2>6. busy' \in [Node -> {"free", "working", "merging"}] /\ UNCHANGED <<rest, net, seen>>
    BY <1>0, <2>1 DEF Adds, TypeOK
  <2>7. QED
    BY <1>0, <2>2, <2>3, <2>4, <2>5, <2>6 DEF TypeOK
<1>2. ASSUME NEW h \in hooks, Labelled(h) PROVE TypeOK'
  <2>1. PICK ok \in BOOLEAN : FinishLabels(h, ok)
    BY <1>2 DEF Labelled
  <2>2. h \in Hook /\ h.node \in Node
    BY <1>0 DEF TypeOK, Hook
  <2>3. [h EXCEPT !.stage = "get"] \in Hook
    BY <2>2 DEF Hook
  <2>4. /\ hooks' = (hooks \ {h}) \cup {[h EXCEPT !.stage = "get"]}
        /\ busy' = [busy EXCEPT ![h.node] = "free"] /\ SaveLocked(h.node, ok)
        /\ UNCHANGED <<log, clock, view, rest, net, seen, made, hb>>
    BY <2>1 DEF FinishLabels
  <2>5. hooks' \subseteq Hook
    BY <1>0, <2>3, <2>4 DEF TypeOK
  <2>6. view'[h.node] \in View /\ log'[h.node] \in Seq(Op)
    BY <1>0, <2>2, <2>4 DEF TypeOK
  <2>7. disk' \in [Node -> [view : View, ops : Seq(Op)]] /\ faults' \in Nat
    BY <1>0, <2>2, <2>4, <2>6, SaveType
  <2>8. busy' \in [Node -> {"free", "working", "merging"}]
    BY <1>0, <2>4 DEF TypeOK
  <2>9. QED
    BY <1>0, <2>4, <2>5, <2>7, <2>8 DEF TypeOK
<1>3. ASSUME NEW n \in Node, Adopted(n) PROVE TypeOK'
  <2>1. PICK m \in net, ok \in BOOLEAN : Adopt(n, m, ok)
    BY <1>3 DEF Adopted
  <2>2. m \in Snapshot
    BY <1>0 DEF TypeOK
  <2>3. Decode(m.ops) \in Seq(Op) /\ m.view \in View /\ ImportedClock(Decode(m.ops)) \in Nat
    BY <2>2, DecodeIs, ClockType DEF Snapshot
  <2>4. /\ log' \in [Node -> Seq(Op)] /\ clock' \in [Node -> Nat] /\ view' \in [Node -> View]
        /\ seen' \in [Node -> SUBSET Snapshot]
    BY <1>0, <2>1, <2>2, <2>3 DEF Adopt, TypeOK
  <2>5. disk' \in [Node -> [view : View, ops : Seq(Op)]] /\ faults' \in Nat
    BY <1>0, <2>1, <2>4, SaveType DEF Adopt
  <2>6. QED
    BY <1>0, <2>1, <2>4, <2>5 DEF Adopt, TypeOK
<1>4. ASSUME NEW n \in Node, Started(n) PROVE TypeOK'
  <2>1. PICK m \in net : StartMerge(n, m)
    BY <1>4 DEF Started
  <2>2. m \in Snapshot
    BY <1>0 DEF TypeOK
  <2>3. Decode(m.ops) \in Seq(Op) /\ ImportedClock(Decode(m.ops)) \in Nat
    BY <2>2, DecodeIs, ClockType DEF Snapshot
  <2>4. QED
    BY <1>0, <2>1, <2>2, <2>3 DEF StartMerge, TypeOK, Observe
<1>5. ASSUME NEW n \in Node, ImportNext(n) PROVE TypeOK'
  <2>1. PICK i \in DOMAIN rest[n] :
          /\ log' = [log EXCEPT ![n] = Append(@, rest[n][i])]
          /\ clock' = [clock EXCEPT ![n] = Observe(@, rest[n][i].lamport)]
    BY <1>5 DEF ImportNext
  <2>2. rest[n][i] \in Op
    BY <1>0 DEF TypeOK
  <2>3. rest[n][i].lamport \in Nat
    BY <2>2 DEF Op
  <2>4. log' \in [Node -> Seq(Op)] /\ clock' \in [Node -> Nat]
    BY <1>0, <2>1, <2>2, <2>3 DEF TypeOK, Observe
  <2>5. QED
    BY <1>0, <1>5, <2>4 DEF ImportNext, TypeOK
<1>6. ASSUME NEW n \in Node, Finished(n) PROVE TypeOK'
  <2>1. PICK ok \in BOOLEAN : FinishMerge(n, ok)
    BY <1>6 DEF Finished
  <2>2. Replay(view[n], OpSet(log[n])) \in View
    <3>1. log[n] \in AllLogs
      BY DEF AllLogs
    <3>2. QED
      BY <1>0, <3>1, ReplayType, LogProper DEF TypeOK
  <2>3. view' \in [Node -> View] /\ log' \in [Node -> Seq(Op)]
    BY <1>0, <2>1, <2>2 DEF FinishMerge, TypeOK
  <2>4. disk' \in [Node -> [view : View, ops : Seq(Op)]] /\ faults' \in Nat
    BY <1>0, <2>1, <2>3, SaveType DEF FinishMerge
  <2>5. busy' \in [Node -> {"free", "working", "merging"}] /\ rest' \in [Node -> Seq(Op)]
    BY <1>0, <2>1 DEF FinishMerge, TypeOK
  <2>6. QED
    BY <1>0, <2>1, <2>3, <2>4, <2>5 DEF FinishMerge, TypeOK
<1>7. ASSUME NEW n \in Node, SaveElse(n) PROVE TypeOK'
  BY <1>0, <1>7 DEF SaveElse, TypeOK
<1>8. ASSUME NEW n \in Node, Crash(n) PROVE TypeOK'
  <2>1. disk[n].ops \in Seq(Op) /\ disk[n].view \in View
    BY <1>0 DEF TypeOK
  <2>2. Decode(disk[n].ops) \in Seq(Op) /\ ImportedClock(Decode(disk[n].ops)) \in Nat
    BY <2>1, DecodeIs, ClockType
  <2>3. QED
    BY <1>0, <1>8, <2>1, <2>2 DEF Crash, TypeOK
<1>9. ASSUME NEW h \in hooks, HookGet(h) PROVE TypeOK'
  BY <1>0, <1>9 DEF HookGet, TypeOK, Hook, storeVars
<1>10. ASSUME NEW h \in hooks, Published(h) PROVE TypeOK'
  <2> DEFINE m == [from |-> h.node, view |-> h.view, ops |-> log[h.node]]
  <2>1. m \in Snapshot
    BY <1>0 DEF TypeOK, Hook, Snapshot
  <2>2. net' \subseteq net \cup {m} /\ faults' \in Nat
    BY <1>0, <1>10 DEF Published, HookPublish, TypeOK
  <2> HIDE DEF m
  <2>3. net' \subseteq Snapshot
    BY <1>0, <2>1, <2>2 DEF TypeOK
  <2>4. QED
    BY <1>0, <1>10, <2>2, <2>3 DEF Published, HookPublish, TypeOK, storeVars
<1>11. CASE UNCHANGED issueVars
  BY <1>0, <1>11 DEF issueVars, TypeOK
<1>12. QED
  BY <1>0, <1>1, <1>2, <1>3, <1>4, <1>5, <1>6, <1>7, <1>8, <1>9, <1>10, <1>11, NextCases
-----------------------------------------------------------------------------
(* Logs stay sound. *)

LEMMA LogsAfter ==
  ASSUME NEW n \in Node, \A m \in net' : m \in net \/ m.ops = log[n],
         \A k \in Node \ {n} : log'[k] = log[k], SavedAs(n)
  PROVE  AllLogs' \subseteq AllLogs \cup {log'[n]}
<1>1. \A k \in Node : disk'[k].ops = disk[k].ops \/ disk'[k].ops = log'[n]
  BY DEF SavedAs
<1>2. QED
  BY <1>1 DEF AllLogs

\* A step that makes no operation keeps what is known of operations, if the
\* logs it leaves were there, but for one as sound as they are.
LEMMA KnownStep ==
  ASSUME Sound, Issued, AllProper, NEW K, Closed(AllLogs \cup {K}, hb),
         \A x \in IdSet(K) : \E L \in AllLogs : x \in IdSet(L),
         \A o \in OpSet(K) : Proper(o),
         AllLogs' \subseteq AllLogs \cup {K}, UNCHANGED <<hb, made>>
  PROVE  Sound' /\ Issued' /\ AllProper'
<1>1. Sound'
  BY DEF Sound, Closed
<1>2. \A L \in AllLogs \cup {K} : \A x \in IdSet(L) : x[2] <= made[x[1]]
  BY DEF Issued
<1>3. Issued'
  BY <1>2 DEF Issued
<1>4. OpsOf(AllLogs)' \subseteq OpsOf(AllLogs) \cup OpSet(K)
  BY DEF OpsOf
<1>5. AllProper'
  BY <1>4 DEF AllProper, Proper
<1>6. QED
  BY <1>1, <1>3, <1>5

LEMMA QuietStep ==
  ASSUME Sound, Issued, AllProper, AllLogs' \subseteq AllLogs, UNCHANGED <<hb, made>>
  PROVE  Sound' /\ Issued' /\ AllProper'
<1>1. Sound'
  BY DEF Sound, Closed
<1>2. Issued'
  BY DEF Issued
<1>3. OpsOf(AllLogs)' \subseteq OpsOf(AllLogs)
  BY DEF OpsOf
<1>4. QED
  BY <1>1, <1>2, <1>3 DEF AllProper, Proper

\* Decoding a log that is there keeps which operations it holds, and where.
LEMMA DecodeSound ==
  ASSUME TypeOK, Sound, AllProper, NEW L \in AllLogs
  PROVE  /\ Closed(AllLogs \cup {Decode(L)}, hb)
         /\ \A x \in IdSet(Decode(L)) : \E M \in AllLogs : x \in IdSet(M)
         /\ \A o \in OpSet(Decode(L)) : Proper(o)
<1> DEFINE K == Decode(L)
<1>0. L \in Seq(Op) /\ \A o \in OpSet(L) : Proper(o)
  BY LogsType, LogProper
<1>1. /\ DOMAIN K = DOMAIN L /\ IdSet(K) = IdSet(L)
      /\ \A i \in DOMAIN L : Id(K[i]) = Id(L[i]) /\ K[i].kind = L[i].kind /\ K[i].arg = L[i].arg
  BY <1>0, DecodeIs
<1>2. DOMAIN L = 1 .. Len(L) /\ Len(L) \in Nat
  BY <1>0
<1> HIDE DEF K
<1>3. Closed(AllLogs \cup {K}, hb)
  <2>1. \A i, j \in DOMAIN K : Id(K[i]) = Id(K[j]) => i = j
    BY <1>1 DEF Sound, Closed
  <2>2. ASSUME NEW j \in DOMAIN K, NEW p \in hb, p[2] = Id(K[j])
        PROVE  \E i \in 1 .. j - 1 : Id(K[i]) = p[1]
    <3>1. PICK i \in 1 .. j - 1 : Id(L[i]) = p[1]
      BY <1>1, <2>2 DEF Sound, Closed
    <3>2. i \in DOMAIN L
      BY <1>1, <1>2
    <3>3. QED
      BY <1>1, <3>1, <3>2
  <2>3. QED
    BY <2>1, <2>2 DEF Sound, Closed
<1>4. \A o \in OpSet(K) : \E i \in DOMAIN L : o.kind = L[i].kind /\ o.arg = L[i].arg
  BY <1>1 DEF OpSet
<1>5. \A o \in OpSet(K) : Proper(o)
  BY <1>0, <1>4 DEF OpSet, Proper
<1>6. QED
  BY <1>1, <1>3, <1>5 DEF K

\* A new operation joins a log there is.
LEMMA GrowStep ==
  ASSUME TypeOK, Sound, Issued, AllProper, NEW n \in Node,
         NEW new \in Op, Id(new) = <<n, made[n] + 1>>, Proper(new),
         made' = [made EXCEPT ![n] = @ + 1], hb' = hb \cup (IdSet(log[n]) \X {Id(new)}),
         AllLogs' \subseteq AllLogs \cup {Append(log[n], new)}
  PROVE  Sound' /\ Issued' /\ AllProper'
<1> DEFINE K == Append(log[n], new)
<1>1. AllLogs \in SUBSET Seq(Op) /\ log[n] \in AllLogs /\ log[n] \in Seq(Op)
  <2>1. log[n] \in AllLogs
    BY DEF AllLogs
  <2>2. QED
    BY <2>1, LogsType
<1>2. made[n] \in Nat /\ made \in [Node -> Nat]
  BY DEF TypeOK
<1>3. \A L \in AllLogs : Id(new) \notin IdSet(L)
  <2>1. ASSUME NEW L \in AllLogs, Id(new) \in IdSet(L) PROVE FALSE
    <3>1. made[n] + 1 <= made[n]
      BY <2>1 DEF Issued
    <3>2. QED
      BY <1>2, <3>1
  <2>2. QED
    BY <2>1
<1>4. \A L \in AllLogs : \A j \in DOMAIN L : Id(L[j]) # Id(new)
  BY <1>3 DEF IdSet
<1>5. \A p \in hb : p[2] # Id(new)
  <2>1. ASSUME NEW p \in hb, p[2] = Id(new) PROVE FALSE
    <3>1. made[n] + 1 <= made[n]
      BY <2>1 DEF Issued
    <3>2. QED
      BY <1>2, <3>1
  <2>2. QED
    BY <2>1
<1>6. Closed(AllLogs \cup {K}, hb')
  BY <1>1, <1>3, <1>4, <1>5, ClosedAdd DEF Sound
<1>7. Sound'
  BY <1>6 DEF Sound, Closed
<1>8. OpSet(K) = OpSet(log[n]) \cup {new} /\ IdSet(K) = IdSet(log[n]) \cup {Id(new)}
  BY <1>1, AppendOp
<1>9. \A k \in Node : made[k] \in Nat /\ made[k] <= made'[k] /\ made'[k] \in Nat
  BY <1>2
<1>10. made'[n] = made[n] + 1
  BY <1>2
<1> HIDE DEF K
<1>11. \A L \in AllLogs \cup {K} : \A x \in IdSet(L) : x[2] <= made'[x[1]]
  <2>1. ASSUME NEW L \in AllLogs, NEW x \in IdSet(L) PROVE x[2] <= made'[x[1]]
    <3>1. x \in Node \X Nat
      BY <1>1, IdType
    <3>2. x[1] \in Node /\ x[2] \in Nat /\ x[2] <= made[x[1]]
      BY <3>1 DEF Issued
    <3>3. QED
      BY <1>9, <3>2
  <2>2. Id(new)[2] <= made'[Id(new)[1]]
    BY <1>9, <1>10
  <2>3. QED
    BY <1>1, <1>8, <2>1, <2>2
<1>12. \A p \in hb' : p[2][2] <= made'[p[2][1]]
  <2>1. ASSUME NEW p \in hb PROVE p[2][2] <= made'[p[2][1]]
    <3>1. p[2][1] \in Node /\ p[2][2] \in Nat /\ p[2][2] <= made[p[2][1]]
      BY DEF TypeOK, Issued
    <3>2. QED
      BY <1>9, <3>1
  <2>2. ASSUME NEW p \in IdSet(log[n]) \X {Id(new)} PROVE p[2][2] <= made'[p[2][1]]
    BY <1>9, <1>10
  <2>3. QED
    BY <2>1, <2>2
<1>13. Issued'
  BY <1>11, <1>12 DEF Issued, K
<1>14. OpsOf(AllLogs)' \subseteq OpsOf(AllLogs) \cup {new}
  <2>1. AllLogs' \subseteq AllLogs \cup {K} /\ OpSet(log[n]) \subseteq OpsOf(AllLogs)
    BY <1>1 DEF K, OpsOf
  <2>2. QED
    BY <1>8, <2>1 DEF OpsOf
<1>15. AllProper'
  BY <1>14 DEF AllProper, Proper
<1>16. QED
  BY <1>7, <1>13, <1>15
-----------------------------------------------------------------------------
History == Sound /\ Issued /\ AllProper

\* What an added operation makes of the logs.
LEMMA AddsLog ==
  ASSUME TypeOK, NEW n \in Node, NEW op, NEW v, Adds(n, op, v)
  PROVE  \E new \in Op :
           /\ Id(new) = <<n, made[n] + 1>> /\ Proper(new)
           /\ new.kind = op.kind /\ new.arg = op.arg
           /\ made' = [made EXCEPT ![n] = @ + 1] /\ hb' = hb \cup (IdSet(log[n]) \X {Id(new)})
           /\ log'[n] = Append(log[n], new) /\ \A k \in Node \ {n} : log'[k] = log[k]
<1>1. op \in Op /\ op.node = n /\ op.time = made[n] + 1 /\ Proper(op) /\ clock[n] \in Nat
  BY DEF Adds, Fresh, TypeOK
<1> DEFINE new == Stamp(op, clock[n])
<1>2. new \in Op /\ Id(new) = Id(op) /\ new.kind = op.kind /\ new.arg = op.arg
  BY <1>1, StampOp
<1>3. /\ log' = [log EXCEPT ![n] = Append(@, new)]
      /\ made' = [made EXCEPT ![n] = op.time] /\ hb' = hb \cup (IdSet(log[n]) \X {Id(op)})
  BY DEF Adds, Add
<1> HIDE DEF new
<1>4. Id(new) = <<n, made[n] + 1>> /\ Proper(new)
  BY <1>1, <1>2 DEF Id, Proper
<1>5. log'[n] = Append(log[n], new) /\ \A k \in Node \ {n} : log'[k] = log[k]
  BY <1>3 DEF TypeOK
<1>6. made' = [made EXCEPT ![n] = @ + 1] /\ hb' = hb \cup (IdSet(log[n]) \X {Id(new)})
  BY <1>1, <1>2, <1>3 DEF TypeOK
<1>7. QED
  BY <1>2, <1>4, <1>5, <1>6

\* What the next imported operation makes of the log.
LEMMA ImportLog ==
  ASSUME TypeOK, RestSent, NEW n \in Node, ImportNext(n)
  PROVE  \E m \in net : \E i \in DOMAIN m.ops :
           /\ rest[n] = Decode(m.ops) /\ m.ops \in AllLogs /\ m.ops \in Seq(Op)
           /\ rest[n][i] \in Op /\ Id(rest[n][i]) = Id(m.ops[i])
           /\ rest[n][i].kind = m.ops[i].kind /\ rest[n][i].arg = m.ops[i].arg
           /\ Id(m.ops[i]) \notin IdSet(log[n])
           /\ \A j \in 1 .. i - 1 : Id(m.ops[j]) \in IdSet(log[n])
           /\ log'[n] = Append(log[n], rest[n][i]) /\ \A k \in Node \ {n} : log'[k] = log[k]
<1>1. PICK i \in DOMAIN rest[n] :
        /\ Id(rest[n][i]) \notin IdSet(log[n])
        /\ \A j \in 1 .. i - 1 : Id(rest[n][j]) \in IdSet(log[n])
        /\ log' = [log EXCEPT ![n] = Append(@, rest[n][i])]
  BY DEF ImportNext
<1>2. PICK m \in net : rest[n] = Decode(m.ops)
  BY <1>1 DEF RestSent
<1>3. m.ops \in AllLogs /\ m.ops \in Seq(Op)
  BY <1>2 DEF AllLogs, TypeOK, Snapshot
<1>4. /\ DOMAIN rest[n] = DOMAIN m.ops
      /\ \A j \in DOMAIN m.ops : /\ Id(rest[n][j]) = Id(m.ops[j])
                                 /\ rest[n][j].kind = m.ops[j].kind
                                 /\ rest[n][j].arg = m.ops[j].arg
  BY <1>2, <1>3, DecodeIs
<1>5. rest[n][i] \in Op
  BY <1>1 DEF TypeOK
<1>6. DOMAIN m.ops = 1 .. Len(m.ops) /\ Len(m.ops) \in Nat
  BY <1>3
<1>7. \A j \in 1 .. i - 1 : j \in DOMAIN m.ops
  BY <1>1, <1>4, <1>6
<1>8. log'[n] = Append(log[n], rest[n][i]) /\ \A k \in Node \ {n} : log'[k] = log[k]
  BY <1>1 DEF TypeOK
<1>9. QED
  BY <1>1, <1>2, <1>3, <1>4, <1>5, <1>7, <1>8

LEMMA HistoryStep == IssueInv /\ [Next]_issueVars => History' /\ RestSent'
<1> SUFFICES ASSUME IssueInv, [Next]_issueVars PROVE History' /\ RestSent'
  OBVIOUS
<1>0. TypeOK /\ Sound /\ Issued /\ RestSent /\ AllProper
  BY DEF IssueInv
<1>1. ASSUME AllLogs' \subseteq AllLogs, UNCHANGED <<hb, made>> PROVE History'
  BY <1>0, <1>1, QuietStep DEF History
<1>2. ASSUME NEW n \in Node, Added(n) PROVE History' /\ RestSent'
  <2>1. PICK op, v : Adds(n, op, v)
    BY <1>2 DEF Added
  <2>2. PICK new \in Op :
           /\ Id(new) = <<n, made[n] + 1>> /\ Proper(new)
           /\ made' = [made EXCEPT ![n] = @ + 1] /\ hb' = hb \cup (IdSet(log[n]) \X {Id(new)})
           /\ log'[n] = Append(log[n], new) /\ \A k \in Node \ {n} : log'[k] = log[k]
    BY <1>0, <2>1, AddsLog
  <2>3. Saves(n) /\ view'[n] \in View /\ log'[n] \in Seq(Op) /\ UNCHANGED <<rest, net>>
    <3>1. Saves(n) /\ v \in View /\ view' = [view EXCEPT ![n] = v] /\ UNCHANGED <<rest, net>>
      BY <2>1 DEF Adds
    <3>2. log[n] \in Seq(Op) /\ view'[n] \in View
      BY <1>0, <3>1 DEF TypeOK
    <3>3. QED
      BY <2>2, <3>1, <3>2
  <2>4. SavedAs(n)
    BY <1>0, <2>3, SavesType
  <2>5. AllLogs' \subseteq AllLogs \cup {Append(log[n], new)}
    BY <2>2, <2>3, <2>4, LogsAfter
  <2>6. History'
    BY <1>0, <2>2, <2>5, GrowStep DEF History
  <2>7. QED
    BY <1>0, <2>3, <2>6 DEF RestSent
<1>3. ASSUME NEW n \in Node, Adopted(n) PROVE History' /\ RestSent'
  <2>1. PICK m \in net, ok \in BOOLEAN : Adopt(n, m, ok)
    BY <1>3 DEF Adopted
  <2>2. m \in Snapshot /\ m.ops \in AllLogs
    BY <1>0 DEF TypeOK, AllLogs
  <2>3. /\ log' = [log EXCEPT ![n] = Decode(m.ops)] /\ view' = [view EXCEPT ![n] = m.view]
        /\ SaveLocked(n, ok) /\ UNCHANGED <<rest, net, made, hb>>
    BY <2>1 DEF Adopt
  <2>4. Decode(m.ops) \in Seq(Op) /\ m.view \in View
    BY <2>2, DecodeIs DEF Snapshot
  <2>5. /\ log'[n] = Decode(m.ops) /\ \A k \in Node \ {n} : log'[k] = log[k]
        /\ view'[n] \in View
    BY <1>0, <2>3, <2>4 DEF TypeOK
  <2>6. SavedAs(n)
    BY <1>0, <2>3, <2>4, <2>5, SaveType
  <2>7. AllLogs' \subseteq AllLogs \cup {Decode(m.ops)}
    BY <2>3, <2>5, <2>6, LogsAfter
  <2>8. History'
    BY <1>0, <2>2, <2>3, <2>7, DecodeSound, KnownStep DEF History
  <2>9. QED
    BY <1>0, <2>3, <2>8 DEF RestSent
<1>4. ASSUME NEW n \in Node, Started(n) PROVE History' /\ RestSent'
  <2>1. PICK m \in net : StartMerge(n, m)
    BY <1>4 DEF Started
  <2>2. UNCHANGED <<log, disk, net, made, hb>> /\ rest' = [rest EXCEPT ![n] = Decode(m.ops)]
    BY <2>1 DEF StartMerge
  <2>3. \A k \in Node : rest'[k] = rest[k] \/ rest'[k] = Decode(m.ops)
    BY <1>0, <2>2 DEF TypeOK
  <2>4. RestSent'
    BY <1>0, <2>2, <2>3 DEF RestSent
  <2>5. QED
    BY <1>1, <2>2, <2>4 DEF AllLogs
<1>5. ASSUME NEW n \in Node, ImportNext(n) PROVE History' /\ RestSent'
  <2>1. PICK m \in net : \E i \in DOMAIN m.ops :
           /\ rest[n] = Decode(m.ops) /\ m.ops \in AllLogs /\ m.ops \in Seq(Op)
           /\ rest[n][i] \in Op /\ Id(rest[n][i]) = Id(m.ops[i])
           /\ rest[n][i].kind = m.ops[i].kind /\ rest[n][i].arg = m.ops[i].arg
           /\ Id(m.ops[i]) \notin IdSet(log[n])
           /\ \A j \in 1 .. i - 1 : Id(m.ops[j]) \in IdSet(log[n])
           /\ log'[n] = Append(log[n], rest[n][i]) /\ \A k \in Node \ {n} : log'[k] = log[k]
    BY <1>0, <1>5, ImportLog
  <2>2. PICK i \in DOMAIN m.ops :
           /\ rest[n] = Decode(m.ops) /\ m.ops \in AllLogs /\ m.ops \in Seq(Op)
           /\ rest[n][i] \in Op /\ Id(rest[n][i]) = Id(m.ops[i])
           /\ rest[n][i].kind = m.ops[i].kind /\ rest[n][i].arg = m.ops[i].arg
           /\ Id(m.ops[i]) \notin IdSet(log[n])
           /\ \A j \in 1 .. i - 1 : Id(m.ops[j]) \in IdSet(log[n])
           /\ log'[n] = Append(log[n], rest[n][i]) /\ \A k \in Node \ {n} : log'[k] = log[k]
    BY <2>1
  <2> DEFINE op == rest[n][i]
             K == Append(log[n], op)
  <2>3. UNCHANGED <<view, disk, rest, net, made, hb>>
    BY <1>5 DEF ImportNext
  <2>4. AllLogs \in SUBSET Seq(Op) /\ log[n] \in AllLogs /\ log[n] \in Seq(Op)
    <3>1. log[n] \in AllLogs /\ log[n] \in Seq(Op)
      BY <1>0 DEF AllLogs, TypeOK
    <3>2. QED
      BY <1>0, <3>1, LogsType
  <2>5. \A p \in hb : p[2] = Id(op) => p[1] \in IdSet(log[n])
    <3>1. \A p \in hb : p[2] = Id(m.ops[i]) => \E j \in 1 .. i - 1 : Id(m.ops[j]) = p[1]
      BY <1>0, <2>2 DEF Sound, Closed
    <3>2. QED
      BY <2>2, <3>1
  <2>6. Proper(op) /\ Id(op) \in IdSet(m.ops)
    <3>1. Proper(m.ops[i])
      BY <1>0, <2>2, LogProper DEF OpSet
    <3>2. QED
      BY <2>2, <3>1 DEF Proper, IdSet
  <2>7. op \in Op /\ Id(op) \notin IdSet(log[n]) /\ log'[n] = K
    BY <2>2
  <2> HIDE DEF op
  <2>8. Closed(AllLogs \cup {K}, hb)
    <3>1. Dependencies(AllLogs, hb, hb, log[n], op)
      BY <2>5 DEF Dependencies
    <3>2. QED
      BY <1>0, <2>4, <2>7, <3>1, CausalGrow DEF Sound
  <2>9. IdSet(K) = IdSet(log[n]) \cup {Id(op)} /\ OpSet(K) = OpSet(log[n]) \cup {op}
    BY <2>4, <2>7, AppendOp
  <2>10. SavedAs(n)
    BY <2>3 DEF SavedAs
  <2>11. AllLogs' \subseteq AllLogs \cup {K}
    BY <2>2, <2>3, <2>7, <2>10, LogsAfter
  <2> HIDE DEF K
  <2>12. \A x \in IdSet(K) : \E L \in AllLogs : x \in IdSet(L)
    BY <2>2, <2>4, <2>6, <2>9
  <2>13. \A o \in OpSet(K) : Proper(o)
    BY <1>0, <2>4, <2>6, <2>9, LogProper
  <2>14. History'
    BY <1>0, <2>3, <2>8, <2>11, <2>12, <2>13, KnownStep DEF History
  <2>15. QED
    BY <1>0, <2>3, <2>14 DEF RestSent
<1>6. ASSUME NEW n \in Node, UNCHANGED <<log, net, made, hb>>,
             rest' = rest \/ rest' = [rest EXCEPT ![n] = <<>>],
             \A k \in Node : disk'[k].ops = disk[k].ops \/ disk'[k].ops = log[n]
      PROVE  History' /\ RestSent'
  <2>1. AllLogs' \subseteq AllLogs
    BY <1>6 DEF AllLogs
  <2>2. \A k \in Node : rest'[k] = rest[k] \/ rest'[k] = <<>>
    BY <1>0, <1>6 DEF TypeOK
  <2>3. RestSent'
    BY <1>0, <1>6, <2>2 DEF RestSent
  <2>4. QED
    BY <1>1, <1>6, <2>1, <2>3
<1>7. ASSUME NEW n \in Node, NEW ok, SaveLocked(n, ok), log' = log
      PROVE  \A k \in Node : disk'[k].ops = disk[k].ops \/ disk'[k].ops = log[n]
  <2> DEFINE new == [view |-> view'[n], ops |-> log'[n]]
  <2>1. (disk' = [disk EXCEPT ![n] = new] \/ disk' = disk) /\ new.ops = log[n]
    BY <1>7 DEF SaveLocked
  <2> HIDE DEF new
  <2>2. QED
    BY <1>0, <2>1 DEF TypeOK
<1>8. ASSUME NEW n \in Node, Finished(n) PROVE History' /\ RestSent'
  <2>1. PICK ok \in BOOLEAN : FinishMerge(n, ok)
    BY <1>8 DEF Finished
  <2>2. SaveLocked(n, ok) /\ UNCHANGED <<log, net, made, hb>> /\ rest' = [rest EXCEPT ![n] = <<>>]
    BY <2>1 DEF FinishMerge
  <2>3. QED
    BY <1>6, <1>7, <2>2
<1>9. ASSUME NEW h \in hooks, Labelled(h) PROVE History' /\ RestSent'
  <2>1. PICK ok \in BOOLEAN : FinishLabels(h, ok)
    BY <1>9 DEF Labelled
  <2>2. h.node \in Node /\ SaveLocked(h.node, ok) /\ UNCHANGED <<log, rest, net, made, hb>>
    BY <1>0, <2>1 DEF FinishLabels, TypeOK, Hook
  <2>3. QED
    BY <1>6, <1>7, <2>2
<1>10. ASSUME NEW n \in Node, SaveElse(n) PROVE History' /\ RestSent'
  <2>1. UNCHANGED <<log, rest, net, made, hb>>
    BY <1>10 DEF SaveElse
  <2>2. \A k \in Node : disk'[k].ops = disk[k].ops \/ disk'[k].ops = log[n]
    BY <1>0, <1>10 DEF SaveElse, TypeOK
  <2>3. QED
    BY <1>6, <2>1, <2>2
<1>11. ASSUME NEW n \in Node, Crash(n) PROVE History' /\ RestSent'
  <2>1. /\ log' = [log EXCEPT ![n] = Decode(disk[n].ops)]
        /\ rest' = [rest EXCEPT ![n] = <<>>] /\ UNCHANGED <<disk, net, made, hb>>
    BY <1>11 DEF Crash
  <2>2. disk[n].ops \in AllLogs
    BY DEF AllLogs
  <2>3. log'[n] = Decode(disk[n].ops) /\ \A k \in Node \ {n} : log'[k] = log[k]
    BY <1>0, <2>1 DEF TypeOK
  <2>4. SavedAs(n)
    BY <2>1 DEF SavedAs
  <2>5. AllLogs' \subseteq AllLogs \cup {Decode(disk[n].ops)}
    BY <2>1, <2>3, <2>4, LogsAfter
  <2>6. History'
    BY <1>0, <2>1, <2>2, <2>5, DecodeSound, KnownStep DEF History
  <2>7. \A k \in Node : rest'[k] = rest[k] \/ rest'[k] = <<>>
    BY <1>0, <2>1 DEF TypeOK
  <2>8. QED
    BY <1>0, <2>1, <2>6, <2>7 DEF RestSent
<1>12. ASSUME NEW h \in hooks, HookGet(h) \/ Published(h) PROVE History' /\ RestSent'
  <2>1. h.node \in Node
    BY <1>0 DEF TypeOK, Hook
  <2>2. /\ UNCHANGED <<log, disk, rest, made, hb>> /\ net \subseteq net'
        /\ \A m \in net' : m \in net \/ m.ops = log[h.node]
    BY <1>12 DEF HookGet, Published, HookPublish, storeVars
  <2>3. AllLogs' \subseteq AllLogs
    BY <2>1, <2>2 DEF AllLogs
  <2>4. QED
    BY <1>0, <1>1, <2>2, <2>3 DEF RestSent
<1>13. CASE UNCHANGED issueVars
  BY <1>0, <1>1, <1>13 DEF issueVars, AllLogs, RestSent
<1>14. QED
  BY <1>0, <1>2, <1>3, <1>4, <1>5, <1>8, <1>9, <1>10, <1>11, <1>12, <1>13, NextCases
-----------------------------------------------------------------------------
(* Fields go with their log. *)

\* Whatever fits the one log fits the other.
Keeps(ops, more) == \A v : Fits(v, ops) => Fits(v, more)

LEMMA KeepsAppend ==
  ASSUME NEW ops \in Seq(Op), NEW op \in Op
  PROVE  Keeps(ops, Append(ops, op))
<1>1. OpSet(Append(ops, op)) = OpSet(ops) \cup {op} /\ Append(ops, op) # <<>>
  BY AppendOp
<1>2. OfKind(OpSet(ops), "label") \subseteq OfKind(OpSet(Append(ops, op)), "label")
  BY <1>1 DEF OfKind
<1>3. QED
  BY <1>1, <1>2 DEF Fits, Keeps

LEMMA KeepsDecode ==
  ASSUME NEW ops \in Seq(Op)
  PROVE  Keeps(ops, Decode(ops))
<1> DEFINE K == Decode(ops)
<1>1. /\ DOMAIN K = DOMAIN ops /\ (K = <<>>) = (ops = <<>>)
      /\ \A i \in DOMAIN ops : K[i].kind = ops[i].kind /\ K[i].arg = ops[i].arg
  BY DecodeIs
<1> HIDE DEF K
<1>2. \A o \in OpSet(ops) : \E r \in OpSet(K) : r.kind = o.kind /\ r.arg = o.arg
  BY <1>1 DEF OpSet
<1>3. {o.arg : o \in OfKind(OpSet(ops), "label")} \subseteq {o.arg : o \in OfKind(OpSet(K), "label")}
  BY <1>2 DEF OfKind
<1>4. Keeps(ops, K)
  BY <1>1, <1>3 DEF Fits, Keeps
<1>5. QED
  BY <1>4 DEF K

LEMMA KeepsEmpty == \A K : Keeps(<<>>, K)
<1>1. {o.arg : o \in OfKind(OpSet(<<>>), "label")} = {}
  BY DEF OfKind, OpSet
<1>2. QED
  BY <1>1 DEF Fits, Keeps

\* Where a step gives n other fields and another log, and saves them or not.
LEMMA StoreFits ==
  ASSUME StoresFit, NEW n \in Node, Fits(view'[n], log'[n]), SavedAs(n),
         \A k \in Node \ {n} : view'[k] = view[k] /\ log'[k] = log[k]
  PROVE  StoresFit'
<1>1. \A k \in Node : Fits(view'[k], log'[k])
  <2>1. ASSUME NEW k \in Node \ {n} PROVE Fits(view'[k], log'[k])
    BY DEF StoresFit
  <2>2. QED
    BY <2>1
<1>2. \A k \in Node : Fits(disk'[k].view, disk'[k].ops)
  <2>1. ASSUME NEW k \in Node, disk'[k] = disk[k] PROVE Fits(disk'[k].view, disk'[k].ops)
    BY <2>1 DEF StoresFit
  <2>2. ASSUME NEW k \in Node, disk'[k] = [view |-> view'[n], ops |-> log'[n]]
        PROVE  Fits(disk'[k].view, disk'[k].ops)
    <3>1. disk'[k].view = view'[n] /\ disk'[k].ops = log'[n]
      BY <2>2
    <3>2. QED
      BY <3>1
  <2>3. QED
    BY <2>1, <2>2 DEF SavedAs
<1>3. QED
  BY <1>1, <1>2 DEF StoresFit, Fits

LEMMA HookFits ==
  ASSUME TypeOK, HooksFit, \A h \in hooks' : h \in hooks \/ h.stage # "marshal",
         \A h \in hooks' \cap hooks : Keeps(log[h.node], log'[h.node])
  PROVE  HooksFit'
<1>1. ASSUME NEW h \in hooks', h.stage = "marshal" PROVE Fits(h.view, log'[h.node])
  <2>1. h \in hooks /\ Keeps(log[h.node], log'[h.node]) /\ Fits(h.view, log[h.node])
    BY <1>1 DEF HooksFit
  <2>2. QED
    BY <2>1 DEF Keeps
<1>2. QED
  BY <1>1 DEF HooksFit, Fits

LEMMA NetSame == NetFits /\ UNCHANGED net => NetFits'
  BY DEF NetFits, Fits

FieldsFit == StoresFit /\ NetFits /\ HooksFit

LEMMA FitStep == IssueInv /\ [Next]_issueVars => FieldsFit'
<1> SUFFICES ASSUME IssueInv, [Next]_issueVars PROVE FieldsFit'
  OBVIOUS
<1>0. TypeOK /\ RestSent /\ AllProper /\ StoresFit /\ NetFits /\ HooksFit
  BY DEF IssueInv
<1>1. \A h \in hooks : h.node \in Node /\ h \in Hook
  BY <1>0 DEF TypeOK, Hook
<1>2. \A k \in Node : Fits(view[k], log[k]) /\ log[k] \in Seq(Op) /\ view[k] \in View
  BY <1>0 DEF StoresFit, TypeOK
<1>3. \A L : Keeps(L, L)
  BY DEF Keeps
<1>4. ASSUME NEW n \in Node, Added(n) PROVE FieldsFit'
  <2>1. PICK op, v : Adds(n, op, v)
    BY <1>4 DEF Added
  <2>2. PICK new \in Op :
           /\ new.kind = op.kind /\ new.arg = op.arg
           /\ log'[n] = Append(log[n], new) /\ \A k \in Node \ {n} : log'[k] = log[k]
    BY <1>0, <2>1, AddsLog
  <2>3. /\ Means(n, op, v) /\ Saves(n) /\ v \in View /\ view' = [view EXCEPT ![n] = v]
        /\ hooks' \subseteq hooks \cup {NewHook(n, op, stage) : stage \in {"work", "get"}}
        /\ UNCHANGED net
    BY <2>1 DEF Adds
  <2>4. view'[n] = v /\ \A k \in Node \ {n} : view'[k] = view[k]
    BY <1>0, <2>3 DEF TypeOK
  <2>5. log'[n] \in Seq(Op) /\ log'[n] # <<>> /\ OpSet(log'[n]) = OpSet(log[n]) \cup {new}
    BY <1>2, <2>2, AppendOp
  <2>6. Keeps(log[n], log'[n]) /\ Fits(view[n], log'[n])
    BY <1>2, <2>2, KeepsAppend DEF Keeps
  <2>7. Fits(v, log'[n])
    <3>1. v.labels \subseteq view[n].labels \/ (op.kind = "label" /\ v.labels = view[n].labels \cup {op.arg})
      BY <2>3 DEF Means
    <3>2. op.kind = "label" => op.arg \in {o.arg : o \in OfKind(OpSet(log'[n]), "label")}
      BY <2>2, <2>5 DEF OfKind
    <3>3. QED
      BY <2>5, <2>6, <3>1, <3>2 DEF Fits
  <2>8. SavedAs(n)
    BY <1>0, <2>3, <2>4, <2>5, SavesType
  <2>9. StoresFit'
    BY <1>0, <2>2, <2>4, <2>7, <2>8, StoreFits
  <2>10. HooksFit'
    <3>1. \A stage \in {"work", "get"} : NewHook(n, op, stage).stage # "marshal"
      BY DEF NewHook
    <3>2. \A h \in hooks' : h \in hooks \/ h.stage # "marshal"
      BY <2>3, <3>1, Zenon
    <3>3. \A h \in hooks : Keeps(log[h.node], log'[h.node])
      BY <1>1, <1>3, <2>2, <2>6
    <3>4. QED
      BY <1>0, <3>2, <3>3, HookFits
  <2>11. QED
    BY <1>0, <2>3, <2>9, <2>10, NetSame DEF FieldsFit
<1>5. ASSUME NEW h \in hooks, Labelled(h) PROVE FieldsFit'
  <2>1. PICK ok \in BOOLEAN : FinishLabels(h, ok)
    BY <1>5 DEF Labelled
  <2> DEFINE g == [h EXCEPT !.stage = "get"]
  <2>2. /\ UNCHANGED <<log, view, net>> /\ SaveLocked(h.node, ok)
        /\ hooks' = (hooks \ {h}) \cup {g}
    BY <2>1 DEF FinishLabels
  <2>3. g.stage # "marshal"
    BY <1>1 DEF Hook
  <2> HIDE DEF g
  <2>4. SavedAs(h.node) /\ h.node \in Node
    BY <1>0, <1>1, <1>2, <2>2, SaveType
  <2>5. StoresFit'
    BY <1>0, <1>2, <2>2, <2>4, StoreFits
  <2>6. HooksFit'
    BY <1>0, <1>3, <2>2, <2>3, HookFits
  <2>7. QED
    BY <1>0, <2>2, <2>5, <2>6, NetSame DEF FieldsFit
<1>6. ASSUME NEW n \in Node, Adopted(n) PROVE FieldsFit'
  <2>1. PICK m \in net, ok \in BOOLEAN : Adopt(n, m, ok)
    BY <1>6 DEF Adopted
  <2>2. m.ops \in Seq(Op) /\ m.view \in View /\ Fits(m.view, m.ops)
    BY <1>0 DEF TypeOK, Snapshot, NetFits
  <2>3. /\ log[n] = <<>> /\ log' = [log EXCEPT ![n] = Decode(m.ops)]
        /\ view' = [view EXCEPT ![n] = m.view] /\ SaveLocked(n, ok) /\ UNCHANGED <<hooks, net>>
    BY <2>1 DEF Adopt
  <2>4. Decode(m.ops) \in Seq(Op) /\ Fits(m.view, Decode(m.ops))
    BY <2>2, DecodeIs, KeepsDecode DEF Keeps
  <2>5. /\ log'[n] = Decode(m.ops) /\ view'[n] = m.view
        /\ \A k \in Node \ {n} : log'[k] = log[k] /\ view'[k] = view[k]
    BY <1>0, <2>3 DEF TypeOK
  <2>6. SavedAs(n)
    BY <1>0, <2>2, <2>3, <2>4, <2>5, SaveType
  <2>7. StoresFit'
    BY <1>0, <2>4, <2>5, <2>6, StoreFits
  <2>8. \A k \in Node : Keeps(log[k], log'[k])
    BY <1>3, <2>3, <2>5, KeepsEmpty
  <2>9. HooksFit'
    BY <1>0, <1>1, <2>3, <2>8, HookFits
  <2>10. QED
    BY <1>0, <2>3, <2>7, <2>9, NetSame DEF FieldsFit
<1>7. ASSUME NEW n \in Node, ImportNext(n) PROVE FieldsFit'
  <2>1. PICK op \in Op : log'[n] = Append(log[n], op) /\ \A k \in Node \ {n} : log'[k] = log[k]
    BY <1>0, <1>7, ImportLog
  <2>2. UNCHANGED <<view, disk, hooks, net>>
    BY <1>7 DEF ImportNext
  <2>3. Keeps(log[n], log'[n]) /\ Fits(view[n], log'[n])
    BY <1>2, <2>1, KeepsAppend DEF Keeps
  <2>4. SavedAs(n)
    BY <2>2 DEF SavedAs
  <2>5. StoresFit'
    BY <1>0, <2>1, <2>2, <2>3, <2>4, StoreFits
  <2>6. HooksFit'
    BY <1>0, <1>1, <1>3, <2>1, <2>2, <2>3, HookFits
  <2>7. QED
    BY <1>0, <2>2, <2>5, <2>6, NetSame DEF FieldsFit
<1>8. ASSUME NEW n \in Node, Finished(n) PROVE FieldsFit'
  <2>1. PICK ok \in BOOLEAN : FinishMerge(n, ok)
    BY <1>8 DEF Finished
  <2>2. PICK v : v = Replay(view[n], OpSet(log[n]))
    OBVIOUS
  <2>3. \A o \in OpSet(log[n]) : Proper(o)
    <3>1. log[n] \in AllLogs
      BY DEF AllLogs
    <3>2. QED
      BY <1>0, <3>1, LogProper
  <2>4. /\ v \in View /\ v.labels = {o.arg : o \in OfKind(OpSet(log[n]), "label")}
        /\ v.status = "closed" => view[n].status = "closed" \/ log[n] # <<>>
    BY <1>2, <2>2, <2>3, ReplayType
  <2>5. Fits(v, log[n])
    BY <1>2, <2>4 DEF Fits
  <2>6. /\ view' = [view EXCEPT ![n] = v] /\ SaveLocked(n, ok) /\ UNCHANGED <<log, hooks, net>>
    BY <2>1, <2>2 DEF FinishMerge
  <2>7. view'[n] = v /\ \A k \in Node \ {n} : view'[k] = view[k]
    BY <1>0, <2>6 DEF TypeOK
  <2>8. SavedAs(n)
    BY <1>0, <1>2, <2>4, <2>6, <2>7, SaveType
  <2>9. StoresFit'
    BY <1>0, <2>5, <2>6, <2>7, <2>8, StoreFits
  <2>10. HooksFit'
    BY <1>0, <1>3, <2>6, HookFits
  <2>11. QED
    BY <1>0, <2>6, <2>9, <2>10, NetSame DEF FieldsFit
<1>9. ASSUME NEW n \in Node, SaveElse(n) PROVE FieldsFit'
  <2>1. UNCHANGED <<log, view, hooks, net>>
    BY <1>9 DEF SaveElse
  <2>2. SavedAs(n)
    BY <1>0, <1>9 DEF SaveElse, SavedAs, TypeOK
  <2>3. StoresFit'
    BY <1>0, <1>2, <2>1, <2>2, StoreFits
  <2>4. HooksFit'
    BY <1>0, <1>3, <2>1, HookFits
  <2>5. QED
    BY <1>0, <2>1, <2>3, <2>4, NetSame DEF FieldsFit
<1>10. ASSUME NEW n \in Node, Crash(n) PROVE FieldsFit'
  <2>1. /\ log' = [log EXCEPT ![n] = Decode(disk[n].ops)]
        /\ view' = [view EXCEPT ![n] = disk[n].view] /\ UNCHANGED <<disk, net>>
        /\ hooks' = {h \in hooks : h.node # n}
    BY <1>10 DEF Crash
  <2>2. Fits(disk[n].view, disk[n].ops) /\ disk[n].ops \in Seq(Op)
    BY <1>0 DEF StoresFit, TypeOK
  <2>3. Fits(disk[n].view, Decode(disk[n].ops))
    BY <2>2, KeepsDecode DEF Keeps
  <2>4. /\ log'[n] = Decode(disk[n].ops) /\ view'[n] = disk[n].view
        /\ \A k \in Node \ {n} : log'[k] = log[k] /\ view'[k] = view[k]
    BY <1>0, <2>1 DEF TypeOK
  <2>5. SavedAs(n)
    BY <2>1 DEF SavedAs
  <2>6. StoresFit'
    BY <1>0, <2>3, <2>4, <2>5, StoreFits
  <2>7. HooksFit'
    BY <1>0, <1>1, <1>3, <2>1, <2>4, HookFits
  <2>8. QED
    BY <1>0, <2>1, <2>6, <2>7, NetSame DEF FieldsFit
<1>11. ASSUME UNCHANGED <<log, view, disk>> PROVE StoresFit'
  BY <1>0, <1>11 DEF StoresFit, Fits
<1>12. ASSUME NEW n \in Node, Started(n) PROVE FieldsFit'
  <2>1. UNCHANGED <<log, view, disk, hooks, net>>
    BY <1>12 DEF Started, StartMerge
  <2>2. HooksFit'
    BY <1>0, <1>3, <2>1, HookFits
  <2>3. QED
    BY <1>0, <1>11, <2>1, <2>2, NetSame DEF FieldsFit
<1>13. ASSUME NEW h \in hooks, HookGet(h) PROVE FieldsFit'
  <2>1. UNCHANGED <<log, view, disk, net>>
    BY <1>13 DEF HookGet, storeVars
  <2> DEFINE g == [h EXCEPT !.stage = "marshal", !.view = view[h.node]]
  <2>2. g.node = h.node /\ g.view = view[h.node]
    BY <1>1 DEF Hook
  <2>3. hooks' \subseteq hooks \cup {g}
    BY <1>13 DEF HookGet
  <2> HIDE DEF g
  <2>4. Fits(g.view, log[g.node])
    BY <1>1, <1>2, <2>2
  <2>5. HooksFit'
    BY <1>0, <2>1, <2>3, <2>4 DEF HooksFit, Fits
  <2>6. QED
    BY <1>0, <1>11, <2>1, <2>5, NetSame DEF FieldsFit
<1>14. ASSUME NEW h \in hooks, Published(h) PROVE FieldsFit'
  <2>1. /\ UNCHANGED <<log, view, disk>> /\ hooks' \subseteq hooks /\ h.stage = "marshal"
        /\ \A m \in net' : m \in net \/ (m.view = h.view /\ m.ops = log[h.node])
    BY <1>14 DEF Published, HookPublish, storeVars
  <2>2. Fits(h.view, log[h.node])
    BY <1>0, <2>1 DEF HooksFit
  <2>3. NetFits'
    BY <1>0, <2>1, <2>2 DEF NetFits, Fits
  <2>4. HooksFit'
    BY <1>0, <1>3, <2>1, HookFits
  <2>5. QED
    BY <1>11, <2>1, <2>3, <2>4 DEF FieldsFit
<1>15. CASE UNCHANGED issueVars
  <2>1. UNCHANGED <<log, view, disk, hooks, net>>
    BY <1>15 DEF issueVars
  <2>2. HooksFit'
    BY <1>0, <1>3, <2>1, HookFits
  <2>3. QED
    BY <1>0, <1>11, <2>1, <2>2, NetSame DEF FieldsFit
<1>16. QED
  BY <1>0, <1>4, <1>5, <1>6, <1>7, <1>8, <1>9, <1>10, <1>12, <1>13, <1>14, <1>15, NextCases
-----------------------------------------------------------------------------
(* The theorems. *)

LEMMA IssueStart == Init => IssueInv
<1> SUFFICES ASSUME Init PROVE IssueInv
  OBVIOUS
<1>1. TypeOK
  BY DEF Init, TypeOK, View, OpenView
<1>2. /\ \A L \in AllLogs : L = <<>> /\ DOMAIN L = {} /\ IdSet(L) = {}
      /\ hb = {} /\ \A n \in Node : rest[n] = <<>>
  BY DEF Init, AllLogs, IdSet
<1>3. OpsOf(AllLogs) = {}
  BY <1>2 DEF OpsOf, OpSet
<1>4. Sound /\ Issued /\ RestSent /\ AllProper
  BY <1>2, <1>3 DEF Sound, Issued, RestSent, AllProper, Closed
<1>5. StoresFit /\ NetFits /\ HooksFit
  BY DEF Init, StoresFit, NetFits, HooksFit, Fits, OpenView
<1>6. QED
  BY <1>1, <1>4, <1>5 DEF IssueInv

LEMMA IssueAlways == Spec => []IssueInv
<1>1. Init => IssueInv
  BY IssueStart
<1>2. IssueInv /\ [Next]_issueVars => IssueInv'
  BY TypeStep, HistoryStep, FitStep DEF IssueInv, History, FieldsFit
<1>3. QED
  BY <1>1, <1>2, PTL DEF Spec

\* No log of an issue misses what another operation in it depends on, nor holds one
\* twice, in memory, in issues.json and in every snapshot, though every decoding
\* gives the operations other Lamport values; and the labels an issue shows are in
\* its log, even where a snapshot pairs older fields with a newer log.
THEOREM IssuesSound == Spec => []IssueSound
<1>1. IssueInv => IssueSound
  <2> SUFFICES ASSUME IssueInv PROVE IssueSound
    OBVIOUS
  <2>1. Closed(AllLogs, hb) /\ TypeOK
    BY DEF IssueInv, Sound
  <2>2. CausallyClosed
    BY <2>1 DEF Closed, CausallyClosed
  <2>3. NoDuplicates
    BY <2>1 DEF Closed, NoDuplicates
  <2>4. ASSUME NEW n \in Node
        PROVE  \A s \in {[view |-> view[n], ops |-> log[n]], disk[n]} :
                 s.view.labels \subseteq {o.arg : o \in OfKind(OpSet(s.ops), "label")}
    BY DEF IssueInv, StoresFit, Fits
  <2>5. QED
    BY <2>1, <2>2, <2>3, <2>4 DEF IssueSound
<1>2. QED
  BY <1>1, IssueAlways, PTL

\* A merge keeps a closed issue closed, however old the snapshot: Issue.Merge starts
\* from the status it has, and a status operation only ever closes.
THEOREM NeverReopened == Spec => ClosedStays
<1>1. IssueInv /\ [Next]_issueVars =>
        \A n \in Node : view[n].status = "closed" /\ view'[n].status = "open" => Crash(n)
  <2> SUFFICES ASSUME IssueInv, [Next]_issueVars, NEW n \in Node, view[n].status = "closed",
                      view'[n].status = "open"
               PROVE  Crash(n)
    OBVIOUS
  <2>0. /\ TypeOK /\ AllProper /\ log[n] \in Seq(Op) /\ view[n] \in View /\ log[n] # <<>>
        /\ view \in [Node -> View]
    BY DEF IssueInv, TypeOK, StoresFit, Fits
  <2>1. view' # view
    OBVIOUS
  <2>2. ASSUME NEW k \in Node, Added(k) PROVE FALSE
    <3>1. PICK op, v : Adds(k, op, v)
      BY <2>2 DEF Added
    <3>2. view' = [view EXCEPT ![k] = v] /\ Means(k, op, v)
      BY <3>1 DEF Adds
    <3>3. k = n /\ v.status = "open"
      BY <2>0, <3>2
    <3>4. QED
      BY <3>2, <3>3 DEF Means
  <2>3. ASSUME NEW k \in Node, Adopted(k) PROVE FALSE
    <3>1. k # n /\ \E m \in net : view' = [view EXCEPT ![k] = m.view]
      BY <2>0, <2>3 DEF Adopted, Adopt
    <3>2. QED
      BY <2>0, <3>1
  <2>4. ASSUME NEW k \in Node, Finished(k) PROVE FALSE
    <3>1. view' = [view EXCEPT ![k] = Replay(view[k], OpSet(log[k]))]
      BY <2>4 DEF Finished, FinishMerge
    <3>2. k = n /\ Replay(view[n], OpSet(log[n])).status = "open"
      BY <2>0, <3>1
    <3>3. \A o \in OpSet(log[n]) : Proper(o)
      <4>1. log[n] \in AllLogs
        BY DEF AllLogs
      <4>2. QED
        BY <2>0, <4>1, LogProper
    <3>4. Replay(view[n], OpSet(log[n])).status = "closed"
      BY <2>0, <3>3, ReplayType
    <3>5. QED
      BY <3>2, <3>4
  <2>5. ASSUME NEW k \in Node, Crash(k) PROVE Crash(n)
    <3>1. k = n
      BY <2>0, <2>5 DEF Crash
    <3>2. QED
      BY <2>5, <3>1
  <2>6. \A k \in Node : ~Started(k) /\ ~ImportNext(k) /\ ~SaveElse(k)
    BY <2>1 DEF Started, StartMerge, ImportNext, SaveElse
  <2>7. \A h \in hooks : ~Labelled(h) /\ ~HookGet(h) /\ ~Published(h)
    BY <2>1 DEF Labelled, FinishLabels, HookGet, Published, HookPublish, storeVars
  <2>8. ~UNCHANGED issueVars
    BY <2>1 DEF issueVars
  <2>9. QED
    BY <2>0, <2>2, <2>3, <2>4, <2>5, <2>6, <2>7, <2>8, NextCases
<1>2. QED
  BY <1>1, IssueAlways, PTL DEF Spec, ClosedStays
-----------------------------------------------------------------------------
(* What was published is kept, where no daemon restarts. *)

\* Every daemon has the operations of the snapshots it published, and those it
\* took, or is about to import them.
Received ==
  \A n \in Node :
    /\ rest[n] # <<>> => busy[n] = "merging"
    /\ seen[n] \subseteq net
    /\ \A m \in net : m.from = n => IdSet(m.ops) \subseteq IdSet(log[n])
    /\ \A m \in seen[n] : IdSet(m.ops) \subseteq IdSet(log[n]) \cup IdSet(rest[n])

\* No step but a crash takes an operation from a log.
LEMMA LogsGrow ==
  ASSUME IssueInv, [Next]_issueVars, \A n \in Node : ~Crash(n)
  PROVE  \A k \in Node : IdSet(log[k]) \subseteq IdSet(log'[k])
<1>0. TypeOK /\ RestSent /\ \A k \in Node : log[k] \in Seq(Op)
  BY DEF IssueInv, TypeOK
<1>1. ASSUME NEW n \in Node, NEW op \in Op, log'[n] = Append(log[n], op),
             \A k \in Node \ {n} : log'[k] = log[k]
      PROVE  \A k \in Node : IdSet(log[k]) \subseteq IdSet(log'[k])
  <2>1. IdSet(log'[n]) = IdSet(log[n]) \cup {Id(op)}
    BY <1>0, <1>1, AppendOp
  <2>2. QED
    BY <1>1, <2>1
<1>2. ASSUME NEW n \in Node, Added(n)
      PROVE  \A k \in Node : IdSet(log[k]) \subseteq IdSet(log'[k])
  <2>1. PICK op, v : Adds(n, op, v)
    BY <1>2 DEF Added
  <2>2. PICK new \in Op : log'[n] = Append(log[n], new) /\ \A k \in Node \ {n} : log'[k] = log[k]
    BY <1>0, <2>1, AddsLog
  <2>3. QED
    BY <1>1, <2>2
<1>3. ASSUME NEW n \in Node, ImportNext(n)
      PROVE  \A k \in Node : IdSet(log[k]) \subseteq IdSet(log'[k])
  <2>1. PICK op \in Op : log'[n] = Append(log[n], op) /\ \A k \in Node \ {n} : log'[k] = log[k]
    BY <1>0, <1>3, ImportLog
  <2>2. QED
    BY <1>1, <2>1
<1>4. ASSUME NEW n \in Node, Adopted(n)
      PROVE  \A k \in Node : IdSet(log[k]) \subseteq IdSet(log'[k])
  <2>1. log[n] = <<>> /\ \A k \in Node \ {n} : log'[k] = log[k]
    BY <1>0, <1>4 DEF Adopted, Adopt, TypeOK
  <2>2. IdSet(log[n]) = {}
    BY <2>1 DEF IdSet
  <2>3. QED
    BY <2>1, <2>2
<1>5. \A n \in Node : Started(n) \/ Finished(n) \/ SaveElse(n) => log' = log
  BY DEF Started, StartMerge, Finished, FinishMerge, SaveElse
<1>6. \A h \in hooks : Labelled(h) \/ HookGet(h) \/ Published(h) => log' = log
  BY DEF Labelled, FinishLabels, HookGet, Published, HookPublish, storeVars
<1>7. UNCHANGED issueVars => log' = log
  BY DEF issueVars
<1>8. QED
  BY <1>0, <1>2, <1>3, <1>4, <1>5, <1>6, <1>7, NextCases

LEMMA ReceivedStep ==
  ASSUME IssueInv, Received, [Next]_issueVars, \A n \in Node : ~Crash(n)
  PROVE  Received'
<1>0. /\ TypeOK /\ \A k \in Node : IdSet(log[k]) \subseteq IdSet(log'[k])
  BY LogsGrow DEF IssueInv
<1>1. ASSUME UNCHANGED <<net, seen, rest>>,
             \A k \in Node : busy[k] = "merging" => busy'[k] = "merging"
      PROVE  Received'
  BY <1>0, <1>1 DEF Received
<1>2. ASSUME NEW n \in Node, Added(n) PROVE Received'
  <2>1. PICK op, v : Adds(n, op, v)
    BY <1>2 DEF Added
  <2>2. /\ UNCHANGED <<rest, net, seen>>
        /\ busy' = busy \/ (busy[n] # "merging" /\ busy' = [busy EXCEPT ![n] = "working"])
    BY <2>1 DEF Adds
  <2>3. \A k \in Node : busy[k] = "merging" => busy'[k] = "merging"
    BY <1>0, <2>2 DEF TypeOK
  <2>4. QED
    BY <1>1, <2>2, <2>3
<1>3. ASSUME NEW h \in hooks, Labelled(h) PROVE Received'
  <2>1. /\ UNCHANGED <<rest, net, seen>> /\ busy[h.node] = "working"
        /\ busy' = [busy EXCEPT ![h.node] = "free"]
    BY <1>3 DEF Labelled, FinishLabels
  <2>2. \A k \in Node : busy[k] = "merging" => busy'[k] = "merging"
    BY <1>0, <2>1 DEF TypeOK
  <2>3. QED
    BY <1>1, <2>1, <2>2
<1>4. ASSUME NEW n \in Node, NEW m \in net, UNCHANGED net,
             seen' = [seen EXCEPT ![n] = @ \cup {m}],
             \A k \in Node \ {n} : rest'[k] = rest[k] /\ busy'[k] = busy[k],
             rest'[n] # <<>> => busy'[n] = "merging",
             rest[n] = <<>>, IdSet(m.ops) \subseteq IdSet(log'[n]) \cup IdSet(rest'[n])
      PROVE  Received'
  <2>1. seen'[n] = seen[n] \cup {m} /\ \A k \in Node \ {n} : seen'[k] = seen[k]
    BY <1>0, <1>4 DEF TypeOK
  <2>2. IdSet(rest[n]) = {}
    BY <1>4 DEF IdSet
  <2>3. \A s \in seen'[n] : IdSet(s.ops) \subseteq IdSet(log'[n]) \cup IdSet(rest'[n])
    BY <1>0, <1>4, <2>1, <2>2 DEF Received
  <2>4. \A k \in Node \ {n} : \A s \in seen'[k] : IdSet(s.ops) \subseteq IdSet(log'[k]) \cup IdSet(rest'[k])
    BY <1>0, <1>4, <2>1 DEF Received
  <2>5. \A k \in Node : seen'[k] \subseteq net /\ (rest'[k] # <<>> => busy'[k] = "merging")
    BY <1>4, <2>1 DEF Received
  <2>6. \A k \in Node : \A s \in net' : s.from = k => IdSet(s.ops) \subseteq IdSet(log'[k])
    BY <1>0, <1>4 DEF Received
  <2>7. QED
    BY <1>4, <2>3, <2>4, <2>5, <2>6 DEF Received
<1>5. ASSUME NEW n \in Node, Adopted(n) PROVE Received'
  <2>1. PICK m \in net, ok \in BOOLEAN : Adopt(n, m, ok)
    BY <1>5 DEF Adopted
  <2>2. /\ busy[n] = "free" /\ log' = [log EXCEPT ![n] = Decode(m.ops)]
        /\ seen' = [seen EXCEPT ![n] = @ \cup {m}] /\ UNCHANGED <<busy, rest, net>>
    BY <2>1 DEF Adopt
  <2>3. rest[n] = <<>>
    BY <2>2 DEF Received
  <2>4. log'[n] = Decode(m.ops) /\ IdSet(Decode(m.ops)) = IdSet(m.ops)
    BY <1>0, <2>2, DecodeIs DEF TypeOK, Snapshot
  <2>5. QED
    BY <1>4, <2>2, <2>3, <2>4
<1>6. ASSUME NEW n \in Node, Started(n) PROVE Received'
  <2>1. PICK m \in net : StartMerge(n, m)
    BY <1>6 DEF Started
  <2>2. /\ busy[n] = "free" /\ rest' = [rest EXCEPT ![n] = Decode(m.ops)]
        /\ busy' = [busy EXCEPT ![n] = "merging"]
        /\ seen' = [seen EXCEPT ![n] = @ \cup {m}] /\ UNCHANGED net
    BY <2>1 DEF StartMerge
  <2>3. rest[n] = <<>>
    BY <2>2 DEF Received
  <2>4. IdSet(Decode(m.ops)) = IdSet(m.ops)
    BY <1>0, DecodeIs DEF TypeOK, Snapshot
  <2>5. /\ rest'[n] = Decode(m.ops) /\ busy'[n] = "merging"
        /\ \A k \in Node \ {n} : rest'[k] = rest[k] /\ busy'[k] = busy[k]
    BY <1>0, <2>2 DEF TypeOK
  <2>6. QED
    BY <1>4, <2>2, <2>3, <2>4, <2>5
<1>7. ASSUME NEW n \in Node, Finished(n) PROVE Received'
  <2>1. /\ IdSet(rest[n]) \subseteq IdSet(log[n]) /\ rest' = [rest EXCEPT ![n] = <<>>]
        /\ busy' = [busy EXCEPT ![n] = "free"] /\ UNCHANGED <<log, net, seen>>
    BY <1>7 DEF Finished, FinishMerge
  <2>2. /\ rest'[n] = <<>>
        /\ \A k \in Node \ {n} : rest'[k] = rest[k] /\ busy'[k] = busy[k]
    BY <1>0, <2>1 DEF TypeOK
  <2>3. \A m \in seen[n] : IdSet(m.ops) \subseteq IdSet(log[n])
    BY <2>1 DEF Received
  <2>4. QED
    BY <2>1, <2>2, <2>3 DEF Received
<1>8. ASSUME NEW h \in hooks, Published(h) PROVE Received'
  <2>1. h.node \in Node
    BY <1>0 DEF TypeOK, Hook
  <2>2. /\ UNCHANGED <<log, busy, rest, seen>> /\ net \subseteq net'
        /\ \A m \in net' : m \in net \/ (m.from = h.node /\ m.ops = log[h.node])
    BY <1>8 DEF Published, HookPublish, storeVars
  <2>3. QED
    BY <2>1, <2>2 DEF Received
<1>9. ASSUME NEW h \in hooks, HookGet(h) PROVE Received'
  BY <1>1, <1>9 DEF HookGet, storeVars
<1>10. ASSUME NEW n \in Node, ImportNext(n) \/ SaveElse(n) PROVE Received'
  BY <1>1, <1>10 DEF ImportNext, SaveElse
<1>11. CASE UNCHANGED issueVars
  BY <1>1, <1>11 DEF issueVars
<1>12. QED
  BY <1>0, <1>2, <1>3, <1>5, <1>6, <1>7, <1>8, <1>9, <1>10, <1>11, NextCases

\* While no daemon restarts, what was published and delivered is kept: once nothing
\* is left to deliver or merge, every daemon has every operation of every snapshot,
\* whatever saves and publishes failed and however often snapshots came.
THEOREM NothingLost ==
  Spec /\ [][\A n \in Node : ~Crash(n)]_issueVars => []PublishedIsKept
<1>1. Init => Received
  BY DEF Init, Received
<1>2. IssueInv /\ Received /\ [Next]_issueVars /\ [\A n \in Node : ~Crash(n)]_issueVars => Received'
  <2> SUFFICES ASSUME IssueInv, Received, [Next]_issueVars, [\A n \in Node : ~Crash(n)]_issueVars
               PROVE  Received'
    OBVIOUS
  <2>1. CASE \A n \in Node : ~Crash(n)
    BY <2>1, ReceivedStep
  <2>2. CASE UNCHANGED issueVars
    BY <2>2 DEF issueVars, Received
  <2>3. QED
    BY <2>1, <2>2
<1>3. Received => PublishedIsKept
  <2> SUFFICES ASSUME Received, Quiescent, NEW m \in net, NEW n \in Node
               PROVE  IdSet(m.ops) \subseteq IdSet(log[n])
    BY DEF PublishedIsKept
  <2>1. busy[n] = "free" /\ (m.from = n \/ m \in seen[n])
    BY DEF Quiescent
  <2>2. rest[n] = <<>>
    BY <2>1 DEF Received
  <2>3. IdSet(rest[n]) = {}
    BY <2>2 DEF IdSet
  <2>4. QED
    BY <2>1, <2>3 DEF Received
<1>4. QED
  BY <1>1, <1>2, <1>3, IssueAlways, PTL DEF Spec
=============================================================================
