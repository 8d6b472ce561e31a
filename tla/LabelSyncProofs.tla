--------------------------- MODULE LabelSyncProofs ---------------------------
(***************************************************************************)
(* Theorems about LabelSync, for every set of nodes and colours and every  *)
(* bound: the logs stay causal though a log may be begun again while its   *)
(* old copies travel, a label that exists has a colour, and no snapshot    *)
(* revives a label that was removed.                                       *)
(***************************************************************************)
EXTENDS LabelSync, OpLogProofs

LEMMA OpIsOrdered == \A o \in Op : Ordered(o)
  BY NodeAssumption DEF Op, Ordered

LEMMA ClockType == ASSUME NEW ops \in Seq(Op) PROVE ImportedClock(ops) \in Nat
  BY ImportedClockBound, OpIsOrdered

\* Stamping changes the Lamport value and nothing else.
LEMMA StampOp ==
  ASSUME NEW op \in Op, NEW c \in Nat
  PROVE  /\ Stamp(op, c) \in Op /\ Id(Stamp(op, c)) = Id(op)
         /\ Stamp(op, c).lamport = c + 1 /\ Stamp(op, c).kind = op.kind
         /\ Stamp(op, c).arg = op.arg
  BY DEF Stamp, Id, Op

\* An ID is a node and a count.
LEMMA IdType ==
  ASSUME NEW ops \in Seq(Op)
  PROVE  IdSet(ops) \subseteq Node \X Nat
<1>1. \A o \in Op : Id(o) \in Node \X Nat
  BY DEF Id, Op
<1>2. QED
  BY <1>1 DEF IdSet

LEMMA NewOpIs ==
  ASSUME TypeOK, NEW n \in Node, NEW kind \in {"create", "color", "tombstone"},
         NEW arg \in Color \cup {NoColor}
  PROVE  LET op == NewOp(n, kind, arg) IN
         /\ op \in Op /\ op.node = n /\ op.time = made[n] + 1 /\ op.time \in Nat
         /\ op.kind = kind /\ op.arg = arg
  BY DEF NewOp, Op, TypeOK
-----------------------------------------------------------------------------
(* The steps, as the proofs tell them apart. *)

\* A request adds an operation to a label the store finds, and saves.
Edits(n, op, v, ok) ==
  /\ op \in Op /\ op.node = n /\ op.time = made[n] + 1 /\ op.time \in Nat
  /\ v \in View /\ view' = [view EXCEPT ![n] = v]
  /\ busy[n] = "free" /\ log[n] # <<>> /\ Visible(view[n])
  /\ Add(n, op) /\ Dispatch(n, op, ok) /\ SaveLocked(n, ok)
  /\ UNCHANGED <<busy, rest, net, seen>>

\* The operation says what becomes of the fields.
Means(n, op, v) ==
  \/ op.kind = "tombstone" /\ v.tombstoned /\ v.color = view[n].color
  \/ op.kind = "color" /\ op.arg \in Color /\ v.color = op.arg /\ ~v.tombstoned

LEMMA RemoveEdits ==
  ASSUME TypeOK, NEW n \in Node, NEW ok \in BOOLEAN, Remove(n, ok)
  PROVE  \E op, v : Edits(n, op, v, ok) /\ Means(n, op, v)
<1> DEFINE op == NewOp(n, "tombstone", NoColor)
           v == [view[n] EXCEPT !.tombstoned = TRUE]
<1>1. view[n] \in View
  BY DEF TypeOK
<1>2. v \in View /\ v.tombstoned /\ v.color = view[n].color
  BY <1>1 DEF View
<1>3. view' = [view EXCEPT ![n] = v]
  BY DEF Remove, TypeOK
<1>4. /\ op \in Op /\ op.node = n /\ op.time = made[n] + 1 /\ op.time \in Nat
      /\ op.kind = "tombstone"
  BY NewOpIs
<1>5. Add(n, op) /\ Dispatch(n, op, ok)
  BY DEF Remove
<1> HIDE DEF op, v
<1>6. Edits(n, op, v, ok)
  BY <1>2, <1>3, <1>4, <1>5 DEF Edits, Remove
<1>7. QED
  BY <1>2, <1>4, <1>6 DEF Means

LEMMA ColorEdits ==
  ASSUME TypeOK, NEW n \in Node, NEW c \in Color, NEW ok \in BOOLEAN, SetColor(n, c, ok)
  PROVE  \E op, v : Edits(n, op, v, ok) /\ Means(n, op, v)
<1> DEFINE op == NewOp(n, "color", c)
           v == [view[n] EXCEPT !.color = c]
<1>1. view[n] \in View /\ ~view[n].tombstoned
  BY DEF TypeOK, SetColor, Visible
<1>2. v \in View /\ ~v.tombstoned /\ v.color = c
  BY <1>1 DEF View
<1>3. view' = [view EXCEPT ![n] = v]
  BY DEF SetColor, TypeOK
<1>4. /\ op \in Op /\ op.node = n /\ op.time = made[n] + 1 /\ op.time \in Nat
      /\ op.kind = "color" /\ op.arg = c
  BY NewOpIs
<1>5. Add(n, op) /\ Dispatch(n, op, ok)
  BY DEF SetColor
<1> HIDE DEF op, v
<1>6. Edits(n, op, v, ok)
  BY <1>2, <1>3, <1>4, <1>5 DEF Edits, SetColor
<1>7. QED
  BY <1>2, <1>4, <1>6 DEF Means

Edited(n) == \E op, v : \E ok \in BOOLEAN : Edits(n, op, v, ok) /\ Means(n, op, v)
Created(n) == \E c \in Color, ok \in BOOLEAN : Create(n, c, ok)
Adopted(n) == \E m \in net, ok \in BOOLEAN : Adopt(n, m, ok)
Started(n) == \E m \in net : StartMerge(n, m)
Finished(n) == \E ok \in BOOLEAN : FinishMerge(n, ok)
Published(h) == \E ok \in BOOLEAN : HookPublish(h, ok)

LEMMA NextCases ==
  ASSUME TypeOK, [Next]_labelVars
  PROVE  \/ \E n \in Node : \/ Edited(n) \/ Created(n) \/ Adopted(n) \/ Started(n)
                            \/ ImportNext(n) \/ Finished(n) \/ SaveElse(n) \/ Crash(n)
         \/ \E h \in hooks : HookGet(h) \/ Published(h)
         \/ UNCHANGED labelVars
<1>1. ASSUME NEW n \in Node, Request(n) PROVE Edited(n) \/ Created(n)
  BY <1>1, RemoveEdits, ColorEdits DEF Request, Edited, Created
<1>2. ASSUME NEW n \in Node, Receive(n)
      PROVE  Adopted(n) \/ Started(n) \/ ImportNext(n) \/ Finished(n)
  BY <1>2 DEF Receive, Adopted, Started, Finished
<1>3. ASSUME NEW h \in hooks, Publish(h) PROVE HookGet(h) \/ Published(h)
  BY <1>3 DEF Publish, Published
<1>4. QED
  BY <1>1, <1>2, <1>3 DEF Next
-----------------------------------------------------------------------------
(* Types. *)

LEMMA AddType ==
  ASSUME TypeOK, NEW n \in Node, NEW op \in Op, op.time \in Nat, op.node = n, Add(n, op)
  PROVE  /\ log' \in [Node -> Seq(Op)] /\ clock' \in [Node -> Nat] /\ made' \in [Node -> Nat]
         /\ hb' \subseteq (Node \X Nat) \X (Node \X Nat)
<1>1. Stamp(op, clock[n]) \in Op
  BY StampOp DEF TypeOK
<1>2. log' \in [Node -> Seq(Op)]
  BY <1>1 DEF Add, TypeOK
<1>3. IdSet(log[n]) \subseteq Node \X Nat /\ Id(op) \in Node \X Nat
  BY IdType DEF TypeOK, Id, Op
<1>4. hb' \subseteq (Node \X Nat) \X (Node \X Nat)
  BY <1>3 DEF Add, TypeOK
<1>5. clock' \in [Node -> Nat] /\ made' \in [Node -> Nat]
  BY DEF Add, TypeOK
<1>6. QED
  BY <1>2, <1>4, <1>5

LEMMA SaveType ==
  ASSUME TypeOK, NEW n \in Node, NEW ok, SaveLocked(n, ok),
         view'[n] \in View, log'[n] \in Seq(Op)
  PROVE  disk' \in [Node -> [view : View, ops : Seq(Op)]] /\ faults' \in Nat
<1> DEFINE new == [view |-> view'[n], ops |-> log'[n]]
<1>1. new \in [view : View, ops : Seq(Op)]
  OBVIOUS
<1>2. disk' = [disk EXCEPT ![n] = new] \/ disk' = disk
  BY DEF SaveLocked
<1> HIDE DEF new
<1>3. disk' \in [Node -> [view : View, ops : Seq(Op)]]
  BY <1>1, <1>2 DEF TypeOK
<1>4. QED
  BY <1>3 DEF SaveLocked, TypeOK

LEMMA NewHookType ==
  ASSUME TypeOK, NEW n \in Node, NEW op, op.time \in Nat
  PROVE  NewHook(n, op, "get") \in Hook
  BY DEF NewHook, Hook, View, OpenView

\* What copies of a log that is begun again publish.
LEMMA PendingType == TypeOK => \A n \in Node : Pending(n) \subseteq Snapshot
<1> SUFFICES ASSUME TypeOK, NEW n \in Node, NEW h \in Holding(n)
             PROVE  [from |-> n, view |-> h.view, ops |-> log[n]] \in Snapshot
  BY DEF Pending
<1>1. h.view \in View /\ log[n] \in Seq(Op)
  BY DEF Holding, TypeOK, Hook
<1>2. QED
  BY <1>1 DEF Snapshot

\* A colour in a log is one: nothing else is an operation of that kind.
Painted(o) == o.kind = "color" => o.arg \in Color

\* Label.applyOperations yields well-typed fields, with the colour they had or
\* one of the log's.
LEMMA ReplayType ==
  ASSUME NEW old \in View, NEW ops \in Seq(Op), \A o \in OpSet(ops) : Painted(o)
  PROVE  LET new == Replay(old, OpSet(ops)) IN
         /\ new \in View /\ (new.color = old.color \/ new.color \in Color)
         /\ new.tombstoned = (OfKind(OpSet(ops), "tombstone") # {})
<1> DEFINE S == OpSet(ops)
           colors == OfKind(S, "color")
           marks == OfKind(S, "tombstone")
<1>1. IsFiniteSet(S) /\ S \subseteq Op
  BY OpSetFinite
<1>2. \A o \in S : Painted(o)
  OBVIOUS
<1> HIDE DEF S
<1>3. colors # {} => Last(colors).arg \in Color
  <2>1. IsFiniteSet(colors) /\ \A o \in colors : Ordered(o)
    BY <1>1, FS_Subset, OpIsOrdered DEF OfKind
  <2>2. colors # {} => Last(colors) \in colors
    BY <2>1, LastExists
  <2>3. QED
    BY <1>2, <2>2 DEF OfKind, Painted
<1>4. Replay(old, S) = [color |-> IF colors = {} THEN old.color ELSE Last(colors).arg,
                        tombstoned |-> marks # {}]
  BY DEF Replay
<1>5. (marks # {}) \in BOOLEAN
  OBVIOUS
<1> HIDE DEF marks, colors
<1>6. QED
  BY <1>3, <1>4, <1>5 DEF View, S, marks
-----------------------------------------------------------------------------
(* The inductive invariant. *)

\* The conjuncts of CausalHistory.
Sound == Causal(AllLogs, hb)
Issued ==
  /\ \A o \in OpsOf(AllLogs) : o.time <= made[o.node]
  /\ \A p \in hb : p[1][2] <= made[p[1][1]] /\ p[2][2] <= made[p[2][1]]
Covers == \A n \in Node : \A o \in OpSet(log[n]) : o.lamport <= clock[n]
RestSent == \A n \in Node : rest[n] = <<>> \/ \E m \in net : rest[n] = m.ops

\* A label that exists has a colour, and a removed one has the removal in its
\* log; what is published was found by Get, so it is not a removed label.
Fits(v, ops) ==
  /\ ops # <<>> => v.color \in Color
  /\ v.tombstoned => OfKind(OpSet(ops), "tombstone") # {}
Shown(v) == v.color \in Color /\ ~v.tombstoned

AllPainted == \A o \in OpsOf(AllLogs) : Painted(o)
StoresFit == \A n \in Node : Fits(view[n], log[n]) /\ Fits(disk[n].view, disk[n].ops)
NetShown == \A m \in net : Shown(m.view)
HooksShown == \A h \in hooks : log[h.node] # <<>> /\ (h.stage = "marshal" => Shown(h.view))
MergeKnown == \A n \in Node : busy[n] = "merging" => log[n] # <<>>

LabelInv ==
  /\ TypeOK /\ Sound /\ Issued /\ Covers /\ RestSent
  /\ AllPainted /\ StoresFit /\ NetShown /\ HooksShown /\ MergeKnown

LEMMA LogsType == TypeOK => AllLogs \in SUBSET Seq(Op) /\ OpsOf(AllLogs) \subseteq Op
<1> SUFFICES ASSUME TypeOK PROVE AllLogs \in SUBSET Seq(Op) /\ OpsOf(AllLogs) \subseteq Op
  OBVIOUS
<1>1. AllLogs \in SUBSET Seq(Op)
  BY DEF TypeOK, AllLogs, Snapshot
<1>2. \A L \in AllLogs : OpSet(L) \subseteq Op
  BY <1>1, OpSetFinite
<1>3. QED
  BY <1>1, <1>2 DEF OpsOf

LEMMA LogPainted ==
  ASSUME AllPainted, NEW n \in Node
  PROVE  \A o \in OpSet(log[n]) : Painted(o)
  BY DEF AllPainted, AllLogs, OpsOf
-----------------------------------------------------------------------------
LEMMA TypeStep == LabelInv /\ [Next]_labelVars => TypeOK'
<1> SUFFICES ASSUME LabelInv, [Next]_labelVars PROVE TypeOK'
  OBVIOUS
<1>0. TypeOK /\ AllPainted
  BY DEF LabelInv
<1>1. ASSUME NEW n \in Node, Edited(n) PROVE TypeOK'
  <2>1. PICK op, v : \E ok \in BOOLEAN : Edits(n, op, v, ok)
    BY <1>1 DEF Edited
  <2>2. PICK ok \in BOOLEAN : Edits(n, op, v, ok)
    BY <2>1
  <2>3. /\ log' \in [Node -> Seq(Op)] /\ clock' \in [Node -> Nat]
        /\ made' \in [Node -> Nat] /\ hb' \subseteq (Node \X Nat) \X (Node \X Nat)
    BY <1>0, <2>2, AddType DEF Edits
  <2>4. view' \in [Node -> View]
    BY <1>0, <2>2 DEF Edits, TypeOK
  <2>5. disk' \in [Node -> [view : View, ops : Seq(Op)]] /\ faults' \in Nat
    BY <1>0, <2>2, <2>3, <2>4, SaveType DEF Edits
  <2>6. hooks' \subseteq Hook
    BY <1>0, <2>2, NewHookType DEF Edits, Dispatch, TypeOK
  <2>7. UNCHANGED <<busy, rest, net, seen>>
    BY <2>2 DEF Edits
  <2>8. QED
    BY <1>0, <2>3, <2>4, <2>5, <2>6, <2>7 DEF TypeOK
<1>2. ASSUME NEW n \in Node, Created(n) PROVE TypeOK'
  <2>1. PICK c \in Color, ok \in BOOLEAN : Create(n, c, ok)
    BY <1>2 DEF Created
  <2> DEFINE op == NewOp(n, "create", c)
             v == [color |-> c, tombstoned |-> FALSE]
  <2>2. op \in Op /\ op.time \in Nat
    BY <1>0, NewOpIs
  <2>3. Stamp(op, 0) \in Op /\ v \in View
    BY <2>2, StampOp DEF View
  <2>4. /\ log' = [log EXCEPT ![n] = <<Stamp(op, 0)>>] /\ made' = [made EXCEPT ![n] = op.time]
        /\ clock' = [clock EXCEPT ![n] = 1] /\ view' = [view EXCEPT ![n] = v]
        /\ hooks' \subseteq hooks \cup {NewHook(n, op, "get")}
        /\ net' = net \cup Pending(n) /\ UNCHANGED <<busy, rest, seen, hb>> /\ SaveLocked(n, ok)
    BY <2>1 DEF Create
  <2> HIDE DEF op, v
  <2>5. <<Stamp(op, 0)>> \in Seq(Op)
    BY <2>3
  <2>6. /\ log' \in [Node -> Seq(Op)] /\ made' \in [Node -> Nat] /\ clock' \in [Node -> Nat]
        /\ view' \in [Node -> View]
    BY <1>0, <2>2, <2>3, <2>4, <2>5 DEF TypeOK
  <2>7. disk' \in [Node -> [view : View, ops : Seq(Op)]] /\ faults' \in Nat
    BY <1>0, <2>4, <2>6, SaveType
  <2>8. hooks' \subseteq Hook /\ net' \subseteq Snapshot
    BY <1>0, <2>2, <2>4, NewHookType, PendingType DEF TypeOK
  <2>9. QED
    BY <1>0, <2>4, <2>6, <2>7, <2>8 DEF TypeOK
<1>3. ASSUME NEW n \in Node, Adopted(n) PROVE TypeOK'
  <2>1. PICK m \in net, ok \in BOOLEAN : Adopt(n, m, ok)
    BY <1>3 DEF Adopted
  <2>2. m \in Snapshot
    BY <1>0 DEF TypeOK
  <2>3. m.ops \in Seq(Op) /\ m.view \in View /\ ImportedClock(m.ops) \in Nat
    BY <2>2, ClockType DEF Snapshot
  <2>4. /\ log' \in [Node -> Seq(Op)] /\ clock' \in [Node -> Nat] /\ view' \in [Node -> View]
        /\ seen' \in [Node -> SUBSET Snapshot]
    BY <1>0, <2>1, <2>2, <2>3 DEF Adopt, Decode, TypeOK
  <2>5. disk' \in [Node -> [view : View, ops : Seq(Op)]] /\ faults' \in Nat
    BY <1>0, <2>1, <2>4, SaveType DEF Adopt
  <2>6. QED
    BY <1>0, <2>1, <2>4, <2>5 DEF Adopt, TypeOK
<1>4. ASSUME NEW n \in Node, Started(n) PROVE TypeOK'
  <2>1. PICK m \in net : StartMerge(n, m)
    BY <1>4 DEF Started
  <2>2. m \in Snapshot
    BY <1>0 DEF TypeOK
  <2>3. m.ops \in Seq(Op) /\ ImportedClock(m.ops) \in Nat
    BY <2>2, ClockType DEF Snapshot
  <2>4. QED
    BY <1>0, <2>1, <2>2, <2>3 DEF StartMerge, Decode, TypeOK, Observe
<1>5. ASSUME NEW n \in Node, ImportNext(n) PROVE TypeOK'
  <2>1. PICK i \in DOMAIN rest[n] :
          /\ log' = [log EXCEPT ![n] = Append(@, rest[n][i])]
          /\ clock' = [clock EXCEPT ![n] = Observe(@, rest[n][i].lamport)]
    BY <1>5 DEF ImportNext
  <2>2. rest[n][i] \in Op
    BY <1>0 DEF TypeOK
  <2>3. rest[n][i].lamport \in Nat
    BY <2>2 DEF Op
  <2>4. log' \in [Node -> Seq(Op)] /\ clock' \in [Node -> Nat]
    BY <1>0, <2>1, <2>2, <2>3 DEF TypeOK, Observe
  <2>5. QED
    BY <1>0, <1>5, <2>4 DEF ImportNext, TypeOK
<1>6. ASSUME NEW n \in Node, Finished(n) PROVE TypeOK'
  <2>1. PICK ok \in BOOLEAN : FinishMerge(n, ok)
    BY <1>6 DEF Finished
  <2>2. Replay(view[n], OpSet(log[n])) \in View
    BY <1>0, ReplayType, LogPainted DEF TypeOK
  <2>3. view' \in [Node -> View] /\ log' \in [Node -> Seq(Op)]
    BY <1>0, <2>1, <2>2 DEF FinishMerge, TypeOK
  <2>4. disk' \in [Node -> [view : View, ops : Seq(Op)]] /\ faults' \in Nat
    BY <1>0, <2>1, <2>3, SaveType DEF FinishMerge
  <2>5. busy' \in [Node -> {"free", "working", "merging"}] /\ rest' \in [Node -> Seq(Op)]
    BY <1>0, <2>1 DEF FinishMerge, TypeOK
  <2>6. QED
    BY <1>0, <2>1, <2>3, <2>4, <2>5 DEF FinishMerge, TypeOK
<1>7. ASSUME NEW n \in Node, SaveElse(n) PROVE TypeOK'
  BY <1>0, <1>7 DEF SaveElse, TypeOK
<1>8. ASSUME NEW n \in Node, Crash(n) PROVE TypeOK'
  <2>1. disk[n].ops \in Seq(Op) /\ disk[n].view \in View
    BY <1>0 DEF TypeOK
  <2>2. ImportedClock(disk[n].ops) \in Nat
    BY <2>1, ClockType
  <2>3. QED
    BY <1>0, <1>8, <2>1, <2>2 DEF Crash, Decode, TypeOK
<1>9. ASSUME NEW h \in hooks, HookGet(h) PROVE TypeOK'
  BY <1>0, <1>9 DEF HookGet, TypeOK, Hook, storeVars
<1>10. ASSUME NEW h \in hooks, Published(h) PROVE TypeOK'
  <2> DEFINE m == [from |-> h.node, view |-> h.view, ops |-> log[h.node]]
  <2>1. m \in Snapshot
    BY <1>0 DEF TypeOK, Hook, Snapshot
  <2>2. net' \subseteq net \cup {m} /\ faults' \in Nat
    BY <1>0, <1>10 DEF Published, HookPublish, TypeOK
  <2> HIDE DEF m
  <2>3. net' \subseteq Snapshot
    BY <1>0, <2>1, <2>2 DEF TypeOK
  <2>4. QED
    BY <1>0, <1>10, <2>2, <2>3 DEF Published, HookPublish, TypeOK, storeVars
<1>11. CASE UNCHANGED labelVars
  BY <1>0, <1>11 DEF labelVars, TypeOK
<1>12. QED
  BY <1>0, <1>1, <1>2, <1>3, <1>4, <1>5, <1>6, <1>7, <1>8, <1>9, <1>10, <1>11, NextCases
-----------------------------------------------------------------------------
(* Logs stay causal. *)

\* Where a step leaves the log of n, the log of another daemon or file may be
\* what it was, or that one.
LEMMA SaveLogs ==
  ASSUME TypeOK, NEW n \in Node, NEW ok, SaveLocked(n, ok)
  PROVE  /\ \A k \in Node : disk'[k] = disk[k] \/ disk'[k] = [view |-> view'[n], ops |-> log'[n]]
         /\ \A k \in Node : disk'[k].ops = disk[k].ops \/ disk'[k].ops = log'[n]
<1> DEFINE new == [view |-> view'[n], ops |-> log'[n]]
<1>1. disk' = [disk EXCEPT ![n] = new] \/ disk' = disk
  BY DEF SaveLocked
<1> HIDE DEF new
<1>2. \A k \in Node : disk'[k] = disk[k] \/ disk'[k] = new
  BY <1>1 DEF TypeOK
<1>3. new.ops = log'[n]
  BY DEF new
<1>4. QED
  BY <1>2, <1>3 DEF new

LEMMA LogsAfter ==
  ASSUME NEW n \in Node, \A m \in net' : m \in net \/ m.ops = log[n],
         \A k \in Node \ {n} : log'[k] = log[k],
         \A k \in Node : disk'[k].ops = disk[k].ops \/ disk'[k].ops = log'[n]
  PROVE  AllLogs' \subseteq AllLogs \cup {log'[n]}
  BY DEF AllLogs

\* A step that makes no operation keeps what is known of operations, if the
\* logs it leaves were there.
LEMMA QuietStep ==
  ASSUME Sound, Issued, AllPainted, AllLogs' \subseteq AllLogs, UNCHANGED <<hb, made>>
  PROVE  Sound' /\ Issued' /\ AllPainted'
<1>1. Causal(AllLogs', hb)
  BY CausalSubset DEF Sound
<1>2. OpsOf(AllLogs') \subseteq OpsOf(AllLogs)
  BY DEF OpsOf
<1>3. OpsOf(AllLogs)' = OpsOf(AllLogs')
  BY DEF OpsOf
<1>4. \A o \in OpsOf(AllLogs) : Painted(o)' = Painted(o)
  BY DEF Painted
<1>5. QED
  BY <1>1, <1>2, <1>3, <1>4 DEF Sound, Issued, AllPainted

\* A new operation joins a log there is, or begins one: LabelStore.Add of a
\* label that was removed drops the log, and the clock with it.
LEMMA GrowStep ==
  ASSUME TypeOK, Sound, Issued, AllPainted, NEW n \in Node, NEW L \in AllLogs \cup {<<>>},
         NEW new \in Op, Id(new) = <<n, made[n] + 1>>, Painted(new),
         \A o \in OpSet(L) : o.lamport < new.lamport,
         made' = [made EXCEPT ![n] = @ + 1], hb' = hb \cup (IdSet(L) \X {Id(new)}),
         AllLogs' \subseteq AllLogs \cup {Append(L, new)}
  PROVE  Sound' /\ Issued' /\ AllPainted'
<1> DEFINE LL == AllLogs \cup {<<>>}
<1>1. AllLogs \in SUBSET Seq(Op) /\ OpsOf(AllLogs) \subseteq Op
  BY LogsType
<1>2. LL \in SUBSET Seq(Op) /\ OpsOf(LL) = OpsOf(AllLogs) /\ L \in LL /\ L \in Seq(Op)
  <2>1. LL \in SUBSET Seq(Op) /\ L \in LL
    <3>1. <<>> \in Seq(Op)
      OBVIOUS
    <3>2. QED
      BY <1>1, <3>1, Zenon
  <2>2. OpSet(<<>>) = {}
    BY DEF OpSet
  <2>3. OpsOf(LL) = OpsOf(AllLogs)
    BY <2>2 DEF OpsOf
  <2>4. QED
    BY <2>1, <2>3
<1>3. Causal(LL, hb)
  <2>1. Causal(AllLogs, hb)
    BY DEF Sound
  <2>2. DOMAIN <<>> = {}
    OBVIOUS
  <2>3. Closed(LL, hb)
    BY <2>1, <2>2 DEF Causal, Closed
  <2> HIDE DEF LL
  <2>4. QED
    BY <1>2, <2>1, <2>3 DEF Causal
<1>4. /\ new.node = n /\ new.time = made[n] + 1 /\ new.lamport \in Nat /\ made[n] \in Nat
      /\ made \in [Node -> Nat]
  BY DEF Id, Op, TypeOK
<1>5. \A o \in OpsOf(LL) : Id(o) # Id(new)
  BY <1>2, <1>4 DEF Issued, Id
<1>6. \A p \in hb : p[2] # Id(new) /\ p[1] # Id(new)
  BY <1>4 DEF Issued
<1>7. OpSet(L) \subseteq OpsOf(AllLogs)
  BY <1>2 DEF OpsOf
<1> HIDE DEF LL
<1>8. Causal(LL \cup {Append(L, new)}, hb')
  BY <1>2, <1>3, <1>4, <1>5, <1>6, CausalAdd
<1>9. AllLogs' \subseteq LL \cup {Append(L, new)}
  BY DEF LL
<1>10. Sound'
  BY <1>8, <1>9, CausalSubset DEF Sound
<1>11. OpsOf(AllLogs)' \subseteq OpsOf(AllLogs) \cup {new}
  <2>1. OpSet(Append(L, new)) = OpSet(L) \cup {new}
    BY <1>2, AppendOp
  <2>2. OpsOf(AllLogs)' = OpsOf(AllLogs')
    BY DEF OpsOf
  <2>3. QED
    BY <1>7, <2>1, <2>2 DEF OpsOf
<1>12. \A k \in Node : made[k] \in Nat /\ made'[k] \in Nat /\ made[k] <= made'[k]
  BY <1>4
<1>13. made'[n] = made[n] + 1
  BY <1>4
<1>14. \A o \in OpsOf(AllLogs) \cup {new} : o.time <= made'[o.node]
  <2>1. \A o \in OpsOf(AllLogs) : o.time \in Nat /\ o.node \in Node
    BY <1>1 DEF Op
  <2>2. QED
    BY <1>4, <1>12, <1>13, <2>1 DEF Issued
<1>15. \A x \in IdSet(L) \cup {Id(new)} : x[2] <= made'[x[1]]
  <2>1. \A x \in IdSet(L) : \E o \in OpSet(L) : x = Id(o)
    BY DEF IdSet, OpSet
  <2>2. QED
    BY <1>7, <1>14, <2>1 DEF Id
<1>16. \A p \in hb : p[1][2] <= made'[p[1][1]] /\ p[2][2] <= made'[p[2][1]]
  <2>1. ASSUME NEW p \in hb
        PROVE  /\ p[1][1] \in Node /\ p[1][2] \in Nat
               /\ p[2][1] \in Node /\ p[2][2] \in Nat
    BY DEF TypeOK
  <2>2. QED
    BY <1>12, <2>1 DEF Issued
<1>17. \A p \in hb' : p[1][2] <= made'[p[1][1]] /\ p[2][2] <= made'[p[2][1]]
  <2>1. ASSUME NEW p \in IdSet(L) \X {Id(new)} PROVE p[1] \in IdSet(L) /\ p[2] = Id(new)
    OBVIOUS
  <2>2. QED
    BY <1>15, <1>16, <2>1
<1>18. Issued'
  BY <1>11, <1>14, <1>17 DEF Issued
<1>19. AllPainted'
  BY <1>11 DEF AllPainted, Painted
<1>20. QED
  BY <1>10, <1>18, <1>19

History == Sound /\ Issued /\ AllPainted

LEMMA HistoryStep == LabelInv /\ [Next]_labelVars => History' /\ Covers' /\ RestSent'
<1> SUFFICES ASSUME LabelInv, [Next]_labelVars PROVE History' /\ Covers' /\ RestSent'
  OBVIOUS
<1>0. TypeOK /\ Sound /\ Issued /\ Covers /\ RestSent /\ AllPainted
  BY DEF LabelInv
<1>1. ASSUME AllLogs' \subseteq AllLogs, UNCHANGED <<hb, made>> PROVE History'
  BY <1>0, <1>1, QuietStep DEF History
<1>2. ASSUME NEW n \in Node, Edited(n) PROVE History' /\ Covers' /\ RestSent'
  <2>1. PICK op, v : \E ok \in BOOLEAN : Edits(n, op, v, ok) /\ Means(n, op, v)
    BY <1>2 DEF Edited
  <2>2. PICK ok \in BOOLEAN : Edits(n, op, v, ok) /\ Means(n, op, v)
    BY <2>1
  <2>3. op \in Op /\ op.node = n /\ op.time = made[n] + 1 /\ Painted(op) /\ clock[n] \in Nat
    BY <1>0, <2>2 DEF Edits, Means, Painted, TypeOK
  <2> DEFINE new == Stamp(op, clock[n])
  <2>4. /\ new \in Op /\ Id(new) = <<n, made[n] + 1>> /\ Painted(new)
        /\ new.lamport = clock[n] + 1 /\ Id(new) = Id(op)
    BY <2>3, StampOp DEF Id, Painted
  <2>5. /\ log' = [log EXCEPT ![n] = Append(@, new)] /\ clock' = [clock EXCEPT ![n] = @ + 1]
        /\ made' = [made EXCEPT ![n] = @ + 1] /\ hb' = hb \cup (IdSet(log[n]) \X {Id(new)})
        /\ SaveLocked(n, ok) /\ UNCHANGED <<rest, net>>
    BY <1>0, <2>2, <2>3, <2>4 DEF Edits, Add, TypeOK
  <2> HIDE DEF new
  <2>6. log[n] \in AllLogs /\ log[n] \in Seq(Op) /\ OpSet(log[n]) \subseteq Op
    BY <1>0, OpSetFinite DEF AllLogs, TypeOK
  <2>7. \A o \in OpSet(log[n]) : o.lamport \in Nat /\ o.lamport < new.lamport
    BY <1>0, <2>3, <2>4, <2>6 DEF Covers, Op
  <2>8. log'[n] = Append(log[n], new) /\ \A k \in Node \ {n} : log'[k] = log[k]
    BY <1>0, <2>5 DEF TypeOK
  <2>9. AllLogs' \subseteq AllLogs \cup {Append(log[n], new)}
    <3>1. \A k \in Node : disk'[k].ops = disk[k].ops \/ disk'[k].ops = log'[n]
      BY <1>0, <2>5, SaveLogs
    <3>2. QED
      BY <2>5, <2>8, <3>1, LogsAfter
  <2>10. History'
    BY <1>0, <2>4, <2>5, <2>6, <2>7, <2>9, GrowStep DEF History
  <2>11. Covers'
    <3>1. OpSet(log'[n]) = OpSet(log[n]) \cup {new}
      BY <2>4, <2>6, <2>8, AppendOp
    <3>2. clock'[n] = clock[n] + 1 /\ \A k \in Node \ {n} : clock'[k] = clock[k]
      BY <1>0, <2>5 DEF TypeOK
    <3>3. \A o \in OpSet(log[n]) \cup {new} : o.lamport <= clock[n] + 1
      BY <2>3, <2>4, <2>7
    <3>4. QED
      BY <1>0, <2>8, <3>1, <3>2, <3>3 DEF Covers
  <2>12. QED
    BY <1>0, <2>5, <2>10, <2>11 DEF RestSent
<1>3. ASSUME NEW n \in Node, Created(n) PROVE History' /\ Covers' /\ RestSent'
  <2>1. PICK c \in Color, ok \in BOOLEAN : Create(n, c, ok)
    BY <1>3 DEF Created
  <2> DEFINE op == NewOp(n, "create", c)
             new == Stamp(op, 0)
  <2>2. op \in Op /\ op.node = n /\ op.time = made[n] + 1 /\ op.kind = "create"
    BY <1>0, NewOpIs
  <2>3. /\ new \in Op /\ Id(new) = <<n, made[n] + 1>> /\ Painted(new) /\ new.lamport = 1
    <3> HIDE DEF op
    <3>1. new \in Op /\ Id(new) = Id(op) /\ new.lamport = 0 + 1 /\ new.kind = op.kind
      BY <2>2, StampOp
    <3> HIDE DEF new
    <3>2. QED
      BY <2>2, <3>1 DEF Id, Painted
  <2>4. /\ log' = [log EXCEPT ![n] = <<new>>] /\ made' = [made EXCEPT ![n] = op.time]
        /\ clock' = [clock EXCEPT ![n] = 1] /\ net' = net \cup Pending(n)
        /\ UNCHANGED <<rest, hb>> /\ SaveLocked(n, ok)
    BY <2>1 DEF Create
  <2>5. made' = [made EXCEPT ![n] = @ + 1]
    BY <1>0, <2>2, <2>4 DEF TypeOK
  <2> HIDE DEF op, new
  <2>6. log'[n] = Append(<<>>, new) /\ \A k \in Node \ {n} : log'[k] = log[k]
    BY <1>0, <2>4 DEF TypeOK
  <2>7. AllLogs' \subseteq AllLogs \cup {Append(<<>>, new)}
    <3>1. \A k \in Node : disk'[k].ops = disk[k].ops \/ disk'[k].ops = log'[n]
      BY <1>0, <2>4, SaveLogs
    <3>2. \A m \in net' : m \in net \/ m.ops = log[n]
      BY <2>4 DEF Pending
    <3>3. QED
      BY <2>6, <3>1, <3>2, LogsAfter
  <2>8. hb' = hb \cup (IdSet(<<>>) \X {Id(new)}) /\ OpSet(<<>>) = {}
    BY <2>4 DEF IdSet, OpSet
  <2>9. History'
    BY <1>0, <2>3, <2>5, <2>7, <2>8, GrowStep DEF History
  <2>10. Covers'
    <3>1. OpSet(log'[n]) = {new}
      BY <2>6 DEF OpSet
    <3>2. clock'[n] = 1 /\ \A k \in Node \ {n} : clock'[k] = clock[k]
      BY <1>0, <2>4 DEF TypeOK
    <3>3. QED
      BY <1>0, <2>3, <2>6, <3>1, <3>2 DEF Covers
  <2>11. QED
    BY <1>0, <2>4, <2>9, <2>10 DEF RestSent
<1>4. ASSUME NEW n \in Node, Adopted(n) PROVE History' /\ Covers' /\ RestSent'
  <2>1. PICK m \in net, ok \in BOOLEAN : Adopt(n, m, ok)
    BY <1>4 DEF Adopted
  <2>2. m.ops \in Seq(Op)
    BY <1>0 DEF TypeOK, Snapshot
  <2>3. /\ log' = [log EXCEPT ![n] = m.ops] /\ clock' = [clock EXCEPT ![n] = ImportedClock(m.ops)]
        /\ SaveLocked(n, ok) /\ UNCHANGED <<rest, net, made, hb>>
    BY <2>1 DEF Adopt, Decode
  <2>4. log'[n] = m.ops /\ \A k \in Node \ {n} : log'[k] = log[k]
    BY <1>0, <2>3 DEF TypeOK
  <2>5. AllLogs' \subseteq AllLogs
    <3>1. \A k \in Node : disk'[k].ops = disk[k].ops \/ disk'[k].ops = log'[n]
      BY <1>0, <2>3, SaveLogs
    <3>2. QED
      BY <2>3, <2>4, <3>1 DEF AllLogs
  <2>6. Covers'
    <3>1. clock'[n] = ImportedClock(m.ops) /\ \A k \in Node \ {n} : clock'[k] = clock[k]
      BY <1>0, <2>3 DEF TypeOK
    <3>2. \A o \in OpSet(m.ops) : o.lamport <= ImportedClock(m.ops)
      BY <2>2, ImportedClockBound, OpIsOrdered DEF OpSet
    <3>3. QED
      BY <1>0, <2>4, <3>1, <3>2 DEF Covers
  <2>7. QED
    BY <1>0, <1>1, <2>3, <2>5, <2>6 DEF RestSent
<1>5. ASSUME NEW n \in Node, Started(n) PROVE History' /\ Covers' /\ RestSent'
  <2>1. PICK m \in net : StartMerge(n, m)
    BY <1>5 DEF Started
  <2>2. /\ UNCHANGED <<log, disk, net, made, hb>>
        /\ clock' = [clock EXCEPT ![n] = Observe(@, ImportedClock(m.ops))]
        /\ rest' = [rest EXCEPT ![n] = m.ops]
    BY <2>1 DEF StartMerge, Decode
  <2>3. ImportedClock(m.ops) \in Nat
    BY <1>0, ClockType DEF TypeOK, Snapshot
  <2>4. \A k \in Node : clock[k] \in Nat /\ clock'[k] \in Nat /\ clock[k] <= clock'[k]
    <3>1. \A k \in Node : clock[k] \in Nat
      BY <1>0 DEF TypeOK
    <3>2. clock'[n] = Observe(clock[n], ImportedClock(m.ops)) /\ \A k \in Node \ {n} : clock'[k] = clock[k]
      BY <1>0, <2>2 DEF TypeOK
    <3>3. QED
      BY <2>3, <3>1, <3>2 DEF Observe
  <2>5. \A k \in Node : \A o \in OpSet(log[k]) : o.lamport \in Nat
    <3>1. \A k \in Node : OpSet(log[k]) \subseteq Op
      BY <1>0, OpSetFinite DEF TypeOK
    <3>2. QED
      BY <3>1 DEF Op
  <2>6. Covers'
    BY <1>0, <2>2, <2>4, <2>5 DEF Covers
  <2>7. RestSent'
    BY <1>0, <2>2 DEF RestSent, TypeOK
  <2>8. QED
    BY <1>1, <2>2, <2>6, <2>7 DEF AllLogs
<1>6. ASSUME NEW n \in Node, ImportNext(n) PROVE History' /\ Covers' /\ RestSent'
  <2>1. PICK i \in DOMAIN rest[n] :
          /\ Id(rest[n][i]) \notin IdSet(log[n])
          /\ \A j \in 1 .. i - 1 : Id(rest[n][j]) \in IdSet(log[n])
          /\ log' = [log EXCEPT ![n] = Append(@, rest[n][i])]
          /\ clock' = [clock EXCEPT ![n] = Observe(@, rest[n][i].lamport)]
    BY <1>6 DEF ImportNext
  <2> DEFINE op == rest[n][i]
             LL == AllLogs \cup {Append(log[n], op)}
  <2>2. UNCHANGED <<disk, rest, net, made, hb>>
    BY <1>6 DEF ImportNext
  <2>3. rest[n] \in AllLogs /\ rest[n] \in Seq(Op) /\ log[n] \in AllLogs /\ log[n] \in Seq(Op)
    BY <1>0, <2>1 DEF RestSent, AllLogs, TypeOK
  <2>4. op \in Op /\ op \in OpSet(rest[n]) /\ op \in OpsOf(AllLogs)
    BY <2>3 DEF OpsOf, OpSet
  <2>5. \A p \in hb : p[2] = Id(op) => p[1] \in IdSet(log[n])
    <3>1. \A j \in DOMAIN rest[n] : \A q \in hb :
            q[2] = Id(rest[n][j]) => \E k \in 1 .. j - 1 : Id(rest[n][k]) = q[1]
      BY <1>0, <2>3 DEF Sound, Causal, Closed
    <3>2. QED
      BY <2>1, <3>1
  <2>6. AllLogs \in SUBSET Seq(Op) /\ Causal(AllLogs, hb) /\ Id(op) \notin IdSet(log[n])
    BY <1>0, <2>1, LogsType DEF Sound
  <2>7. log'[n] = Append(log[n], op) /\ \A k \in Node \ {n} : log'[k] = log[k]
    BY <1>0, <2>1 DEF TypeOK
  <2>8. clock'[n] = Observe(clock[n], op.lamport) /\ \A k \in Node \ {n} : clock'[k] = clock[k]
    BY <1>0, <2>1 DEF TypeOK
  <2> HIDE DEF op
  <2>9. Causal(LL, hb)
    BY <2>3, <2>4, <2>5, <2>6, CausalImport
  <2>10. OpSet(Append(log[n], op)) = OpSet(log[n]) \cup {op}
    BY <2>3, <2>4, AppendOp
  <2>11. AllLogs' \subseteq LL
    BY <2>2, <2>7, LogsAfter
  <2>12. Sound'
    BY <2>2, <2>9, <2>11, CausalSubset DEF Sound
  <2>13. OpsOf(AllLogs)' \subseteq OpsOf(AllLogs)
    <3>1. \A L \in LL : OpSet(L) \subseteq OpsOf(AllLogs)
      BY <2>3, <2>4, <2>10 DEF OpsOf
    <3>2. QED
      BY <2>11, <3>1 DEF OpsOf
  <2>14. Issued' /\ AllPainted'
    BY <1>0, <2>2, <2>13 DEF Issued, AllPainted, Painted
  <2>15. Covers'
    <3>0. OpSet(log[n]) \subseteq Op /\ clock[n] \in Nat
      BY <1>0, <2>3, OpSetFinite DEF TypeOK
    <3>1. op.lamport \in Nat /\ clock[n] \in Nat /\ \A o \in OpSet(log[n]) : o.lamport \in Nat
      BY <2>4, <3>0 DEF Op
    <3>2. \A o \in OpSet(log[n]) \cup {op} : o.lamport <= clock'[n]
      BY <1>0, <2>8, <3>1 DEF Covers, Observe
    <3>3. QED
      BY <1>0, <2>7, <2>8, <2>10, <3>2 DEF Covers
  <2>16. QED
    BY <1>0, <2>2, <2>12, <2>14, <2>15 DEF RestSent, History
<1>7. ASSUME NEW n \in Node, Finished(n) \/ SaveElse(n) PROVE History' /\ Covers' /\ RestSent'
  <2>1. UNCHANGED <<log, clock, net, made, hb>> /\ rest' \in {rest, [rest EXCEPT ![n] = <<>>]}
    BY <1>7 DEF Finished, FinishMerge, SaveElse
  <2>2. \A k \in Node : disk'[k].ops = disk[k].ops \/ disk'[k].ops = log[n]
    <3>1. CASE Finished(n)
      <4>1. PICK ok \in BOOLEAN : SaveLocked(n, ok) /\ log' = log
        BY <3>1 DEF Finished, FinishMerge
      <4>2. QED
        BY <1>0, <4>1, SaveLogs
    <3>2. CASE SaveElse(n)
      BY <1>0, <3>2 DEF SaveElse, TypeOK
    <3>3. QED
      BY <1>7, <3>1, <3>2
  <2>3. AllLogs' \subseteq AllLogs
    BY <2>1, <2>2 DEF AllLogs
  <2>4. RestSent'
    BY <1>0, <2>1 DEF RestSent, TypeOK
  <2>5. QED
    BY <1>0, <1>1, <2>1, <2>3, <2>4 DEF Covers
<1>8. ASSUME NEW n \in Node, Crash(n) PROVE History' /\ Covers' /\ RestSent'
  <2>1. /\ log' = [log EXCEPT ![n] = disk[n].ops]
        /\ clock' = [clock EXCEPT ![n] = ImportedClock(disk[n].ops)]
        /\ rest' = [rest EXCEPT ![n] = <<>>]
        /\ UNCHANGED <<disk, net, made, hb>>
    BY <1>8 DEF Crash, Decode
  <2>2. disk[n].ops \in Seq(Op)
    BY <1>0 DEF TypeOK
  <2>3. log'[n] = disk[n].ops /\ \A k \in Node \ {n} : log'[k] = log[k]
    BY <1>0, <2>1 DEF TypeOK
  <2>4. AllLogs' \subseteq AllLogs
    BY <2>1, <2>3 DEF AllLogs
  <2>5. Covers'
    <3>1. clock'[n] = ImportedClock(disk[n].ops) /\ \A k \in Node \ {n} : clock'[k] = clock[k]
      BY <1>0, <2>1 DEF TypeOK
    <3>2. \A o \in OpSet(disk[n].ops) : o.lamport <= ImportedClock(disk[n].ops)
      BY <2>2, ImportedClockBound, OpIsOrdered DEF OpSet
    <3>3. QED
      BY <1>0, <2>3, <3>1, <3>2 DEF Covers
  <2>6. RestSent'
    BY <1>0, <2>1 DEF RestSent, TypeOK
  <2>7. QED
    BY <1>1, <2>1, <2>4, <2>5, <2>6
<1>9. ASSUME NEW h \in hooks, HookGet(h) \/ Published(h) PROVE History' /\ Covers' /\ RestSent'
  <2>1. h.node \in Node
    BY <1>0 DEF TypeOK, Hook
  <2>2. /\ UNCHANGED <<log, clock, disk, rest, made, hb>> /\ net \subseteq net'
        /\ \A m \in net' : m \in net \/ m.ops = log[h.node]
    BY <1>9 DEF HookGet, Published, HookPublish, storeVars
  <2>3. AllLogs' \subseteq AllLogs
    BY <2>1, <2>2 DEF AllLogs
  <2>4. QED
    BY <1>0, <1>1, <2>2, <2>3 DEF Covers, RestSent
<1>10. CASE UNCHANGED labelVars
  BY <1>0, <1>1, <1>10 DEF labelVars, AllLogs, Covers, RestSent
<1>11. QED
  BY <1>0, <1>2, <1>3, <1>4, <1>5, <1>6, <1>7, <1>8, <1>9, <1>10, NextCases
-----------------------------------------------------------------------------
(* Fields go with their log. *)

\* An operation more does not unfit the fields; a log that holds one is not empty.
LEMMA FitsGrown ==
  ASSUME NEW ops \in Seq(Op), NEW op \in Op, NEW v, Fits(v, ops), ops # <<>>
  PROVE  Fits(v, Append(ops, op)) /\ Append(ops, op) # <<>>
<1>1. OpSet(Append(ops, op)) = OpSet(ops) \cup {op} /\ Append(ops, op) # <<>>
  BY AppendOp
<1>2. OfKind(OpSet(ops), "tombstone") \subseteq OfKind(OpSet(Append(ops, op)), "tombstone")
  BY <1>1 DEF OfKind
<1>3. QED
  BY <1>1, <1>2 DEF Fits

\* Where a step gives n other fields and another log, and saves them or not.
LEMMA StoreFits ==
  ASSUME TypeOK, StoresFit, NEW n \in Node, NEW v, Fits(v, log'[n]), view'[n] = v,
         \A k \in Node \ {n} : log'[k] = log[k] /\ view'[k] = view[k],
         \A k \in Node : disk'[k] = disk[k] \/ disk'[k] = [view |-> view'[n], ops |-> log'[n]]
  PROVE  StoresFit'
<1>1. \A k \in Node : Fits(view'[k], log'[k])
  BY DEF StoresFit
<1>2. \A k \in Node : Fits(disk'[k].view, disk'[k].ops)
  <2> SUFFICES ASSUME NEW k \in Node PROVE Fits(disk'[k].view, disk'[k].ops)
    OBVIOUS
  <2>1. CASE disk'[k] = disk[k]
    BY <2>1 DEF StoresFit
  <2>2. CASE disk'[k] = [view |-> view'[n], ops |-> log'[n]]
    <3>1. disk'[k].view = v /\ disk'[k].ops = log'[n]
      BY <2>2
    <3>2. QED
      BY <3>1
  <2>3. QED
    BY <2>1, <2>2
<1>3. QED
  BY <1>1, <1>2 DEF StoresFit, Fits, OfKind, OpSet

\* What a snapshot says.
LEMMA ShownFits == \A v, ops : Shown(v) => Fits(v, ops)
  BY DEF Shown, Fits

LEMMA FitStep == LabelInv /\ [Next]_labelVars => StoresFit'
<1> SUFFICES ASSUME LabelInv, [Next]_labelVars PROVE StoresFit'
  OBVIOUS
<1>0. TypeOK /\ StoresFit /\ NetShown /\ AllPainted /\ MergeKnown
  BY DEF LabelInv
<1>1. \A n \in Node : log[n] \in Seq(Op) /\ Fits(view[n], log[n]) /\ view[n] \in View
  BY <1>0 DEF TypeOK, StoresFit
<1>2. ASSUME NEW n \in Node, Edited(n) PROVE StoresFit'
  <2>1. PICK op, v : \E ok \in BOOLEAN : Edits(n, op, v, ok) /\ Means(n, op, v)
    BY <1>2 DEF Edited
  <2>2. PICK ok \in BOOLEAN : Edits(n, op, v, ok) /\ Means(n, op, v)
    BY <2>1
  <2> DEFINE new == Stamp(op, clock[n])
  <2>3. new \in Op /\ new.kind = op.kind
    BY <1>0, <2>2, StampOp DEF Edits, TypeOK
  <2>4. log'[n] = Append(log[n], new) /\ \A k \in Node \ {n} : log'[k] = log[k]
    BY <1>0, <2>2 DEF Edits, Add, TypeOK
  <2> HIDE DEF new
  <2>5. view'[n] = v /\ \A k \in Node \ {n} : view'[k] = view[k]
    BY <1>0, <2>2 DEF Edits, TypeOK
  <2>6. OpSet(log'[n]) = OpSet(log[n]) \cup {new}
    BY <1>1, <2>3, <2>4, AppendOp
  <2>7. v.color \in Color
    BY <1>1, <2>2 DEF Means, Edits, Fits
  <2>8. v.tombstoned => OfKind(OpSet(log'[n]), "tombstone") # {}
    BY <2>2, <2>3, <2>6 DEF Means, OfKind
  <2>9. Fits(v, log'[n])
    BY <2>7, <2>8 DEF Fits
  <2>10. \A k \in Node : disk'[k] = disk[k] \/ disk'[k] = [view |-> view'[n], ops |-> log'[n]]
    BY <1>0, <2>2, SaveLogs DEF Edits
  <2>11. QED
    BY <1>0, <2>4, <2>5, <2>9, <2>10, StoreFits
<1>3. ASSUME NEW n \in Node, Created(n) PROVE StoresFit'
  <2>1. PICK c \in Color, ok \in BOOLEAN : Create(n, c, ok)
    BY <1>3 DEF Created
  <2> DEFINE v == [color |-> c, tombstoned |-> FALSE]
  <2>2. Shown(v)
    BY DEF Shown
  <2>3. /\ view'[n] = v /\ \A k \in Node \ {n} : view'[k] = view[k] /\ log'[k] = log[k]
    BY <1>0, <2>1 DEF Create, TypeOK
  <2> HIDE DEF v
  <2>4. \A k \in Node : disk'[k] = disk[k] \/ disk'[k] = [view |-> view'[n], ops |-> log'[n]]
    BY <1>0, <2>1, SaveLogs DEF Create
  <2>5. Fits(v, log'[n])
    BY <2>2, ShownFits
  <2>6. QED
    BY <1>0, <2>3, <2>4, <2>5, StoreFits
<1>4. ASSUME NEW n \in Node, Adopted(n) PROVE StoresFit'
  <2>1. PICK m \in net, ok \in BOOLEAN : Adopt(n, m, ok)
    BY <1>4 DEF Adopted
  <2>2. Shown(m.view)
    BY <1>0 DEF NetShown
  <2>3. /\ view'[n] = m.view /\ \A k \in Node \ {n} : view'[k] = view[k] /\ log'[k] = log[k]
    BY <1>0, <2>1 DEF Adopt, TypeOK
  <2>4. \A k \in Node : disk'[k] = disk[k] \/ disk'[k] = [view |-> view'[n], ops |-> log'[n]]
    BY <1>0, <2>1, SaveLogs DEF Adopt
  <2>5. Fits(m.view, log'[n])
    BY <2>2, ShownFits
  <2>6. QED
    BY <1>0, <2>3, <2>4, <2>5, StoreFits
<1>5. ASSUME NEW n \in Node, ImportNext(n) PROVE StoresFit'
  <2>1. PICK i \in DOMAIN rest[n] : log' = [log EXCEPT ![n] = Append(@, rest[n][i])]
    BY <1>5 DEF ImportNext
  <2>2. rest[n][i] \in Op /\ busy[n] = "merging" /\ view' = view /\ disk' = disk
    BY <1>0, <1>5 DEF ImportNext, TypeOK
  <2>3. log'[n] = Append(log[n], rest[n][i]) /\ \A k \in Node \ {n} : log'[k] = log[k]
    BY <1>0, <2>1 DEF TypeOK
  <2>4. log[n] # <<>>
    BY <1>0, <2>2 DEF MergeKnown
  <2>5. Fits(view[n], log'[n])
    BY <1>1, <2>2, <2>3, <2>4, FitsGrown
  <2>6. QED
    BY <1>0, <2>2, <2>3, <2>5, StoreFits
<1>6. ASSUME NEW n \in Node, Finished(n) PROVE StoresFit'
  <2>1. PICK ok \in BOOLEAN : FinishMerge(n, ok)
    BY <1>6 DEF Finished
  <2>2. PICK v : v = Replay(view[n], OpSet(log[n]))
    OBVIOUS
  <2>3. /\ v.color = view[n].color \/ v.color \in Color
        /\ v.tombstoned = (OfKind(OpSet(log[n]), "tombstone") # {})
    BY <1>0, <1>1, <2>2, ReplayType, LogPainted
  <2>4. Fits(v, log[n])
    BY <1>1, <2>3 DEF Fits
  <2>5. view'[n] = v /\ \A k \in Node \ {n} : view'[k] = view[k]
    BY <1>0, <2>1, <2>2 DEF FinishMerge, TypeOK
  <2>6. \A k \in Node : disk'[k] = disk[k] \/ disk'[k] = [view |-> view'[n], ops |-> log'[n]]
    BY <1>0, <2>1, SaveLogs DEF FinishMerge
  <2>7. log' = log
    BY <2>1 DEF FinishMerge
  <2>8. QED
    BY <1>0, <2>4, <2>5, <2>6, <2>7, StoreFits
<1>7. ASSUME NEW n \in Node, SaveElse(n) PROVE StoresFit'
  <2>1. log' = log /\ view' = view
    BY <1>7 DEF SaveElse
  <2>2. \A k \in Node : disk'[k] = disk[k] \/ disk'[k] = [view |-> view'[n], ops |-> log'[n]]
    BY <1>0, <1>7 DEF SaveElse, TypeOK
  <2>3. QED
    BY <1>0, <1>1, <2>1, <2>2, StoreFits
<1>8. ASSUME NEW n \in Node, Crash(n) PROVE StoresFit'
  <2>1. /\ log'[n] = disk[n].ops /\ view'[n] = disk[n].view /\ disk' = disk
        /\ \A k \in Node \ {n} : view'[k] = view[k] /\ log'[k] = log[k]
    BY <1>0, <1>8 DEF Crash, Decode, TypeOK
  <2>2. Fits(disk[n].view, disk[n].ops)
    BY <1>0 DEF StoresFit
  <2>3. QED
    BY <1>0, <2>1, <2>2, StoreFits
<1>9. CASE UNCHANGED <<log, view, disk>>
  BY <1>0, <1>9 DEF StoresFit, Fits, OfKind, OpSet
<1>10. ASSUME NEW h \in hooks, HookGet(h) \/ Published(h) PROVE UNCHANGED <<log, view, disk>>
  BY <1>10 DEF HookGet, Published, HookPublish, storeVars
<1>11. ASSUME NEW n \in Node, Started(n) PROVE UNCHANGED <<log, view, disk>>
  BY <1>11 DEF Started, StartMerge
<1>12. UNCHANGED labelVars => UNCHANGED <<log, view, disk>>
  BY DEF labelVars
<1>13. QED
  BY <1>0, <1>2, <1>3, <1>4, <1>5, <1>6, <1>7, <1>8, <1>9, <1>10, <1>11, <1>12, NextCases

\* A label is never published removed or without a colour, and no hook runs for
\* a label that is not there.
LEMMA ShownStep == LabelInv /\ [Next]_labelVars => NetShown' /\ HooksShown' /\ MergeKnown'
<1> SUFFICES ASSUME LabelInv, [Next]_labelVars PROVE NetShown' /\ HooksShown' /\ MergeKnown'
  OBVIOUS
<1>0. TypeOK /\ StoresFit /\ NetShown /\ HooksShown /\ MergeKnown
  BY DEF LabelInv
<1>1. \A h \in hooks : h.node \in Node /\ h \in Hook
  BY <1>0 DEF TypeOK, Hook
<1>2. ASSUME NEW n \in Node, Edited(n) PROVE NetShown' /\ HooksShown' /\ MergeKnown'
  <2>1. PICK op, v : \E ok \in BOOLEAN : Edits(n, op, v, ok)
    BY <1>2 DEF Edited
  <2>2. PICK ok \in BOOLEAN : Edits(n, op, v, ok)
    BY <2>1
  <2>3. log'[n] = Append(log[n], Stamp(op, clock[n])) /\ \A k \in Node \ {n} : log'[k] = log[k]
    BY <1>0, <2>2 DEF Edits, Add, TypeOK
  <2>4. log'[n] # <<>>
    <3>1. log[n] \in Seq(Op) /\ Stamp(op, clock[n]) \in Op
      BY <1>0, <2>2, StampOp DEF Edits, TypeOK
    <3>2. QED
      BY <2>3, <3>1, AppendOp
  <2> DEFINE h == NewHook(n, op, "get")
  <2>5. h.node = n /\ h.stage = "get"
    BY DEF NewHook
  <2> HIDE DEF h
  <2>6. hooks' \subseteq hooks \cup {h} /\ net' = net /\ busy' = busy
    BY <2>2 DEF Edits, Dispatch, h
  <2>7. HooksShown'
    BY <1>0, <1>1, <2>3, <2>4, <2>5, <2>6 DEF HooksShown, Shown
  <2>8. QED
    BY <1>0, <2>3, <2>4, <2>6, <2>7 DEF NetShown, MergeKnown, Shown
<1>3. ASSUME NEW n \in Node, Created(n) PROVE NetShown' /\ HooksShown' /\ MergeKnown'
  <2>1. PICK c \in Color, ok \in BOOLEAN : Create(n, c, ok)
    BY <1>3 DEF Created
  <2> DEFINE op == NewOp(n, "create", c)
             h == NewHook(n, op, "get")
  <2>2. h.node = n /\ h.stage = "get"
    BY DEF NewHook
  <2>3. log' = [log EXCEPT ![n] = <<Stamp(op, 0)>>] /\ hooks' \subseteq hooks \cup {h}
    BY <2>1 DEF Create
  <2> HIDE DEF op, h
  <2>4. log'[n] # <<>> /\ \A k \in Node \ {n} : log'[k] = log[k]
    BY <1>0, <2>3 DEF TypeOK
  <2>5. HooksShown'
    BY <1>0, <1>1, <2>2, <2>3, <2>4 DEF HooksShown, Shown
  <2>6. \A m \in Pending(n) : Shown(m.view)
    BY <1>0 DEF Pending, Holding, HooksShown
  <2>7. net' = net \cup Pending(n) /\ busy' = busy
    BY <2>1 DEF Create
  <2>8. NetShown' /\ MergeKnown'
    BY <1>0, <2>4, <2>6, <2>7 DEF NetShown, MergeKnown, Shown
  <2>9. QED
    BY <2>5, <2>8
<1>4. ASSUME NEW n \in Node, Adopted(n) PROVE NetShown' /\ HooksShown' /\ MergeKnown'
  <2>1. /\ UNCHANGED <<hooks, net, busy>> /\ log[n] = <<>> /\ busy[n] = "free"
        /\ \A k \in Node \ {n} : log'[k] = log[k]
    BY <1>0, <1>4 DEF Adopted, Adopt, TypeOK
  <2>2. \A h \in hooks : h.node # n
    BY <1>0, <2>1 DEF HooksShown
  <2>3. HooksShown'
    BY <1>0, <1>1, <2>1, <2>2 DEF HooksShown, Shown
  <2>4. NetShown' /\ MergeKnown'
    BY <1>0, <2>1 DEF NetShown, MergeKnown, Shown
  <2>5. QED
    BY <2>3, <2>4
<1>5. ASSUME NEW n \in Node, Started(n) PROVE NetShown' /\ HooksShown' /\ MergeKnown'
  <2>1. UNCHANGED <<hooks, net, log>> /\ log[n] # <<>> /\ busy' = [busy EXCEPT ![n] = "merging"]
    BY <1>5 DEF Started, StartMerge
  <2>2. \A k \in Node : k = n \/ busy'[k] = busy[k]
    BY <1>0, <2>1 DEF TypeOK
  <2>3. QED
    BY <1>0, <2>1, <2>2 DEF NetShown, HooksShown, MergeKnown, Shown
<1>6. ASSUME NEW n \in Node, ImportNext(n) PROVE NetShown' /\ HooksShown' /\ MergeKnown'
  <2>1. PICK i \in DOMAIN rest[n] : log' = [log EXCEPT ![n] = Append(@, rest[n][i])]
    BY <1>6 DEF ImportNext
  <2>2. rest[n][i] \in Op /\ log[n] \in Seq(Op) /\ UNCHANGED <<hooks, net, busy>>
    BY <1>0, <1>6 DEF ImportNext, TypeOK
  <2>3. log'[n] = Append(log[n], rest[n][i]) /\ \A k \in Node \ {n} : log'[k] = log[k]
    BY <1>0, <2>1 DEF TypeOK
  <2>4. log'[n] # <<>>
    BY <2>2, <2>3, AppendOp
  <2>5. QED
    BY <1>0, <1>1, <2>2, <2>3, <2>4 DEF NetShown, HooksShown, MergeKnown, Shown
<1>7. ASSUME NEW n \in Node, Finished(n) \/ SaveElse(n)
      PROVE  NetShown' /\ HooksShown' /\ MergeKnown'
  <2>1. UNCHANGED <<hooks, net, log>> /\ busy' \in {busy, [busy EXCEPT ![n] = "free"]}
    BY <1>7 DEF Finished, FinishMerge, SaveElse
  <2>2. \A k \in Node : busy'[k] = "merging" => busy[k] = "merging"
    BY <1>0, <2>1 DEF TypeOK
  <2>3. QED
    BY <1>0, <2>1, <2>2 DEF NetShown, HooksShown, MergeKnown, Shown
<1>8. ASSUME NEW n \in Node, Crash(n) PROVE NetShown' /\ HooksShown' /\ MergeKnown'
  <2>1. /\ net' = net /\ \A h \in hooks' : h \in hooks /\ h.node # n
        /\ busy' = [busy EXCEPT ![n] = "free"] /\ \A k \in Node \ {n} : log'[k] = log[k]
    BY <1>0, <1>8 DEF Crash, TypeOK
  <2>2. \A k \in Node : busy'[k] = "merging" => busy[k] = "merging" /\ k # n
    BY <1>0, <2>1 DEF TypeOK
  <2>3. HooksShown'
    BY <1>0, <1>1, <2>1 DEF HooksShown, Shown
  <2>4. QED
    BY <1>0, <2>1, <2>2, <2>3 DEF NetShown, MergeKnown, Shown
<1>9. ASSUME NEW h \in hooks, HookGet(h) PROVE NetShown' /\ HooksShown' /\ MergeKnown'
  <2>1. UNCHANGED <<log, net, busy>>
    BY <1>9 DEF HookGet, storeVars
  <2> DEFINE g == [h EXCEPT !.stage = "marshal", !.view = view[h.node]]
  <2>2. g.node = h.node /\ g.view = view[h.node]
    BY <1>1 DEF Hook
  <2>3. hooks' \subseteq hooks \cup {g} /\ (hooks' \subseteq hooks \/ Visible(view[h.node]))
    BY <1>9 DEF HookGet
  <2> HIDE DEF g
  <2>4. log[h.node] # <<>> /\ Fits(view[h.node], log[h.node])
    BY <1>0, <1>1 DEF HooksShown, StoresFit
  <2>5. Visible(view[h.node]) => Shown(view[h.node])
    BY <2>4 DEF Visible, Fits, Shown
  <2>6. HooksShown'
    BY <1>0, <2>1, <2>2, <2>3, <2>4, <2>5 DEF HooksShown, Shown
  <2>7. QED
    BY <1>0, <2>1, <2>6 DEF NetShown, MergeKnown, Shown
<1>10. ASSUME NEW h \in hooks, Published(h) PROVE NetShown' /\ HooksShown' /\ MergeKnown'
  <2>1. /\ UNCHANGED <<log, busy>> /\ hooks' \subseteq hooks /\ h.stage = "marshal"
        /\ \A m \in net' : m \in net \/ m.view = h.view
    BY <1>10 DEF Published, HookPublish, storeVars
  <2>2. Shown(h.view)
    BY <1>0, <2>1 DEF HooksShown
  <2>3. QED
    BY <1>0, <2>1, <2>2 DEF NetShown, HooksShown, MergeKnown, Shown
<1>11. CASE UNCHANGED labelVars
  BY <1>0, <1>11 DEF labelVars, NetShown, HooksShown, MergeKnown, Shown
<1>12. QED
  BY <1>0, <1>2, <1>3, <1>4, <1>5, <1>6, <1>7, <1>8, <1>9, <1>10, <1>11, NextCases
-----------------------------------------------------------------------------
(* The theorems. *)

LEMMA LabelStart == Init => LabelInv
<1> SUFFICES ASSUME Init PROVE LabelInv
  OBVIOUS
<1>1. TypeOK
  BY DEF Init, TypeOK, View, OpenView
<1>2. /\ \A L \in AllLogs : L = <<>> /\ DOMAIN L = {}
      /\ hb = {} /\ \A n \in Node : log[n] = <<>> /\ rest[n] = <<>>
  BY DEF Init, AllLogs
<1>3. OpsOf(AllLogs) = {}
  BY <1>2 DEF OpsOf, OpSet
<1>4. Sound /\ Issued /\ Covers /\ RestSent /\ AllPainted
  BY <1>2, <1>3 DEF Sound, Issued, Covers, RestSent, AllPainted, Causal, Closed, OpSet
<1>5. StoresFit /\ NetShown /\ HooksShown /\ MergeKnown
  BY DEF Init, StoresFit, NetShown, HooksShown, MergeKnown, Fits, OpenView
<1>6. QED
  BY <1>1, <1>4, <1>5 DEF LabelInv

LEMMA LabelAlways == Spec => []LabelInv
<1>1. Init => LabelInv
  BY LabelStart
<1>2. LabelInv /\ [Next]_labelVars => LabelInv'
  BY TypeStep, HistoryStep, FitStep, ShownStep DEF LabelInv, History
<1>3. QED
  BY <1>1, <1>2, PTL DEF Spec

\* A label's log is ordered, without gaps and without duplicates, in memory, in
\* labels.json and in every snapshot, though removing and creating it again begins
\* a new log while copies of the old one travel; a label that exists has a colour.
THEOREM LogsSound == Spec => []LabelLogs
<1>1. LabelInv => LabelLogs
  <2> SUFFICES ASSUME LabelInv PROVE LabelLogs
    OBVIOUS
  <2>1. Causal(AllLogs, hb)
    BY DEF LabelInv, Sound
  <2>2. HappensBefore
    <3> SUFFICES ASSUME NEW L \in AllLogs, NEW i \in DOMAIN L, NEW j \in DOMAIN L,
                        <<Id(L[i]), Id(L[j])>> \in hb
                 PROVE  Before(L[i], L[j])
      BY DEF HappensBefore
    <3>1. L[i] \in OpsOf(AllLogs) /\ L[j] \in OpsOf(AllLogs)
      BY DEF OpsOf, OpSet
    <3>2. QED
      BY <2>1, <3>1 DEF Causal, Before
  <2>3. CausallyClosed /\ NoDuplicates
    BY <2>1 DEF Causal, Closed, CausallyClosed, NoDuplicates
  <2>4. TypeOK /\ \A n \in Node : log[n] # <<>> => view[n].color \in Color
    BY DEF LabelInv, StoresFit, Fits
  <2>5. QED
    BY <2>2, <2>3, <2>4 DEF LabelLogs
<1>2. QED
  BY <1>1, LabelAlways, PTL

\* Only a request that creates it, or a restart from an older file, brings a label
\* back on a daemon that removed it: Merge resets the tombstone, but finds it in the
\* log again, and what is adopted was never published removed.
THEOREM OnlyRevivedByRequest == Spec => RemovedStays
<1>1. LabelInv /\ [Next]_labelVars =>
        \A n \in Node : view[n].tombstoned /\ ~view'[n].tombstoned =>
          (\E c \in Color, ok \in BOOLEAN : Create(n, c, ok)) \/ Crash(n)
  <2> SUFFICES ASSUME LabelInv, [Next]_labelVars, NEW n \in Node, view[n].tombstoned,
                      ~view'[n].tombstoned
               PROVE  (\E c \in Color, ok \in BOOLEAN : Create(n, c, ok)) \/ Crash(n)
    OBVIOUS
  <2>0. /\ TypeOK /\ AllPainted /\ log[n] \in Seq(Op) /\ view[n] \in View
        /\ OfKind(OpSet(log[n]), "tombstone") # {}
    BY DEF LabelInv, TypeOK, StoresFit, Fits
  <2>1. log[n] # <<>>
    <3>1. OpSet(log[n]) # {}
      BY <2>0 DEF OfKind
    <3>2. QED
      BY <3>1 DEF OpSet
  <2>2. ASSUME NEW k \in Node, Edited(k) PROVE FALSE
    <3>1. PICK op, v : \E ok \in BOOLEAN : Edits(k, op, v, ok)
      BY <2>2 DEF Edited
    <3>2. view' = [view EXCEPT ![k] = v] /\ Visible(view[k])
      BY <3>1 DEF Edits
    <3>3. k # n
      BY <3>2 DEF Visible
    <3>4. QED
      BY <2>0, <3>2, <3>3 DEF TypeOK
  <2>3. ASSUME NEW k \in Node, Created(k)
        PROVE  \E c \in Color, ok \in BOOLEAN : Create(n, c, ok)
    <3>1. k = n \/ view'[n] = view[n]
      BY <2>0, <2>3 DEF Created, Create, TypeOK
    <3>2. QED
      BY <2>3, <3>1 DEF Created
  <2>4. ASSUME NEW k \in Node, Adopted(k) PROVE FALSE
    <3>1. k # n
      BY <2>1, <2>4 DEF Adopted, Adopt
    <3>2. QED
      BY <2>0, <2>4, <3>1 DEF Adopted, Adopt, TypeOK
  <2>5. ASSUME NEW k \in Node, Finished(k) PROVE FALSE
    <3>1. view' = [view EXCEPT ![k] = Replay(view[k], OpSet(log[k]))]
      BY <2>5 DEF Finished, FinishMerge
    <3>2. k = n
      BY <2>0, <3>1 DEF TypeOK
    <3>3. Replay(view[n], OpSet(log[n])).tombstoned
      BY <2>0, ReplayType, LogPainted
    <3>4. view'[n] = Replay(view[n], OpSet(log[n]))
      BY <2>0, <3>1, <3>2 DEF TypeOK
    <3>5. QED
      BY <3>3, <3>4
  <2>6. ASSUME NEW k \in Node, Crash(k) PROVE Crash(n)
    <3>1. k = n
      BY <2>0, <2>6 DEF Crash, TypeOK
    <3>2. QED
      BY <2>6, <3>1
  <2>7. view' # view
    OBVIOUS
  <2>8. \A k \in Node : ~Started(k) /\ ~ImportNext(k) /\ ~SaveElse(k)
    BY <2>7 DEF Started, StartMerge, ImportNext, SaveElse
  <2>9. (\A h \in hooks : ~HookGet(h) /\ ~Published(h)) /\ ~UNCHANGED labelVars
    BY <2>7 DEF HookGet, Published, HookPublish, storeVars, labelVars
  <2>10. QED
    BY <2>0, <2>2, <2>3, <2>4, <2>5, <2>6, <2>8, <2>9, NextCases
<1>2. QED
  BY <1>1, LabelAlways, PTL DEF Spec, RemovedStays
=============================================================================
