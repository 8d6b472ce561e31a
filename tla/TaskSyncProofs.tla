--------------------------- MODULE TaskSyncProofs ---------------------------
(***************************************************************************)
(* Theorems about TaskSync, for every set of nodes, agents and results and *)
(* every bound: the types; that no interleaving of requests, hooks,        *)
(* merges, failed saves and crashes loses the causal order of a log, an    *)
(* acknowledged operation or the claim behind a completion; and that       *)
(* TaskSync implements CausalBroadcast.                                    *)
(***************************************************************************)
EXTENDS TaskSync, OpLogProofs

LEMMA OpIsOrdered == \A o \in Op : Ordered(o)
  BY NodeAssumption DEF Op, Ordered

\* Task.applyOperations yields a well-typed state from any log.
LEMMA ReplayType ==
  ASSUME NEW old, NEW ops \in Seq(Op)
  PROVE  Replay(old, OpSet(ops)) \in View
<1> DEFINE S == OpSet(ops)
           moves == OfKind(S, {"claim", "complete"})
           claims == OfKind(S, {"claim"})
           results == OfKind(S, {"result"})
<1>1. IsFiniteSet(S) /\ S \subseteq Op
  BY OpSetFinite
<1> HIDE DEF S
<1>2. claims # {} => Last(claims).arg \in Agent
  <2>1. IsFiniteSet(claims) /\ \A o \in claims : Ordered(o)
    BY <1>1, FS_Subset, OpIsOrdered DEF OfKind
  <2>2. claims # {} => Last(claims) \in claims
    BY <2>1, LastExists
  <2>3. QED
    BY <1>1, <2>2 DEF OfKind, Op
<1>3. results # {} => Last(results).arg \in Result
  <2>1. IsFiniteSet(results) /\ \A o \in results : Ordered(o)
    BY <1>1, FS_Subset, OpIsOrdered DEF OfKind
  <2>2. results # {} => Last(results) \in results
    BY <2>1, LastExists
  <2>3. QED
    BY <1>1, <2>2 DEF OfKind, Op
<1>4. QED
  BY <1>2, <1>3 DEF Replay, View, Status, S
-----------------------------------------------------------------------------
LEMMA ClockType == ASSUME NEW ops \in Seq(Op) PROVE ImportedClock(ops) \in Nat
  BY ImportedClockBound, OpIsOrdered

\* Stamping changes the Lamport value and nothing else.
LEMMA StampOp ==
  ASSUME NEW op \in Op, NEW c \in Nat
  PROVE  /\ Stamp(op, c) \in Op /\ Id(Stamp(op, c)) = Id(op)
         /\ Stamp(op, c).lamport = c + 1 /\ Stamp(op, c).kind = op.kind
<1> DEFINE new == [op EXCEPT !.lamport = c + 1]
<1>1. op \in [node : Node, time : Nat, kind : {"create", "claim", "complete", "result"},
              arg : Agent \cup Result \cup {NoAgent}, lamport : Nat]
  BY DEF Op
<1>2. new \in [node : Node, time : Nat, kind : {"create", "claim", "complete", "result"},
               arg : Agent \cup Result \cup {NoAgent}, lamport : Nat]
  BY <1>1
<1>3. /\ new.kind = op.kind /\ new.arg = op.arg /\ new.node = op.node /\ new.time = op.time
      /\ new.lamport = c + 1
  BY <1>1
<1> HIDE DEF new
<1>4. new \in Op
  BY <1>2, <1>3 DEF Op
<1>5. QED
  BY <1>3, <1>4 DEF Stamp, Id, new

\* An ID is a node and a count.
LEMMA IdType ==
  ASSUME NEW ops \in Seq(Op)
  PROVE  IdSet(ops) \subseteq Node \X Nat
<1>1. \A o \in Op : Id(o) \in Node \X Nat
  BY DEF Id, Op
<1>2. QED
  BY <1>1 DEF IdSet

\* OperationLog.Add keeps the types.
LEMMA AddType ==
  ASSUME TypeOK, NEW n \in Node, NEW op \in Op, op.time \in Nat, op.node \in Node, Add(n, op)
  PROVE  /\ log' \in [Node -> Seq(Op)]
         /\ clock' \in [Node -> Nat]
         /\ made' \in [Node -> Nat]
         /\ hb' \subseteq (Node \X Nat) \X (Node \X Nat)
<1>1. Stamp(op, clock[n]) \in Op
  BY StampOp DEF TypeOK
<1>2. log' \in [Node -> Seq(Op)]
  BY <1>1 DEF Add, TypeOK
<1>3. IdSet(log[n]) \subseteq Node \X Nat /\ Id(op) \in Node \X Nat
  BY IdType DEF TypeOK, Id, Op
<1>4. hb' \subseteq (Node \X Nat) \X (Node \X Nat)
  BY <1>3 DEF Add, TypeOK
<1>5. clock' \in [Node -> Nat]
  BY DEF Add, TypeOK
<1>6. made' \in [Node -> Nat]
  BY DEF Add, TypeOK
<1>7. QED
  BY <1>2, <1>4, <1>5, <1>6

LEMMA SaveType ==
  ASSUME TypeOK, NEW n \in Node, NEW ok, SaveLocked(n, ok),
         view'[n] \in View, log'[n] \in Seq(Op)
  PROVE  disk' \in [Node -> [view : View, ops : Seq(Op)]] /\ faults' \in Nat
<1> DEFINE new == [view |-> view'[n], ops |-> log'[n]]
<1>1. new \in [view : View, ops : Seq(Op)]
  OBVIOUS
<1>2. disk' = [disk EXCEPT ![n] = new] \/ disk' = disk
  BY DEF SaveLocked
<1> HIDE DEF new
<1>3. disk' \in [Node -> [view : View, ops : Seq(Op)]]
  BY <1>1, <1>2 DEF TypeOK
<1>4. QED
  BY <1>3 DEF SaveLocked, TypeOK

LEMMA DispatchType ==
  ASSUME TypeOK, NEW n \in Node, NEW op, op.time \in Nat, NEW ok, Dispatch(n, op, ok)
  PROVE  hooks' \subseteq Hook
  BY DEF Dispatch, NewHook, TypeOK, Hook, View, Status, OpenView

THEOREM TypeCorrect == Spec => []TypeOK
<1>1. Init => TypeOK
  BY DEF Init, TypeOK, View, Status, OpenView
<1>2. TypeOK /\ [Next]_vars => TypeOK'
  <2> SUFFICES ASSUME TypeOK, [Next]_vars PROVE TypeOK'
    OBVIOUS
  <2>1. ASSUME NEW n \in Node, Create(n) PROVE TypeOK'
    <3> DEFINE op == NewOp(n, "create", NoAgent)
    <3>1. op \in Op /\ op.time \in Nat /\ op.node \in Node
      BY DEF NewOp, Op, TypeOK
    <3>2. Add(n, op) BY <2>1 DEF Create
    <3>3. hooks' \subseteq Hook
      BY <2>1, <3>1 DEF Create, NewHook, TypeOK, Hook, View, Status, OpenView
    <3> HIDE DEF op
    <3>4. QED
      BY <2>1, <3>1, <3>2, <3>3, AddType DEF Create, TypeOK
  <2>2. ASSUME NEW h \in hooks, NEW ok \in BOOLEAN, CreateSave(h, ok) PROVE TypeOK'
    <3>1. h \in Hook
      BY DEF TypeOK
    <3>2. hooks' \subseteq Hook
      BY <2>2, <3>1 DEF CreateSave, TypeOK, Hook
    <3>3. h.node \in Node
      BY <3>1 DEF Hook
    <3>4. view'[h.node] \in View /\ log'[h.node] \in Seq(Op)
      BY <2>2, <3>3 DEF CreateSave, TypeOK
    <3>5. disk' \in [Node -> [view : View, ops : Seq(Op)]] /\ faults' \in Nat
      BY <2>2, <3>3, <3>4, SaveType DEF CreateSave
    <3>6. QED
      BY <2>2, <3>2, <3>5 DEF CreateSave, TypeOK
  <2>3. ASSUME NEW n \in Node, NEW a \in Agent, NEW ok \in BOOLEAN, Claim(n, a, ok) PROVE TypeOK'
    <3> DEFINE op == NewOp(n, "claim", a)
    <3>1. op \in Op /\ op.time \in Nat /\ op.node \in Node
      BY SentinelAssumption DEF NewOp, Op, TypeOK
    <3>2. Add(n, op) /\ Dispatch(n, op, ok)
      BY <2>3 DEF Claim
    <3> HIDE DEF op
    <3>3. hooks' \subseteq Hook
      BY <3>1, <3>2, DispatchType
    <3>4. view' \in [Node -> View]
      <4>1. view[n] \in View
        BY DEF TypeOK
      <4>2. [view[n] EXCEPT !.status = "claimed", !.claimedBy = a] \in View
        BY <4>1 DEF View, Status
      <4>3. view' = [view EXCEPT ![n] = [view[n] EXCEPT !.status = "claimed", !.claimedBy = a]]
        BY <2>3 DEF Claim, TypeOK
      <4>4. QED
        BY <4>2, <4>3 DEF TypeOK
    <3>5. /\ log' \in [Node -> Seq(Op)] /\ clock' \in [Node -> Nat]
          /\ made' \in [Node -> Nat] /\ hb' \subseteq (Node \X Nat) \X (Node \X Nat)
      BY <3>1, <3>2, AddType
    <3>6. disk' \in [Node -> [view : View, ops : Seq(Op)]] /\ faults' \in Nat
      BY <2>3, <3>4, <3>5, SaveType DEF Claim
    <3>7. QED
      BY <2>3, <3>3, <3>4, <3>5, <3>6 DEF Claim, TypeOK
  <2>4. ASSUME NEW n \in Node, NEW r \in Result \cup {NoResult}, Complete(n, r) PROVE TypeOK'
    <3> DEFINE op == NewOp(n, "complete", view[n].claimedBy)
    <3>1. op \in Op /\ op.time \in Nat /\ op.node \in Node
      BY DEF NewOp, Op, TypeOK, View
    <3>2. Add(n, op)
      BY <2>4 DEF Complete
    <3> HIDE DEF op
    <3>3. view' \in [Node -> View]
      <4>1. view[n] \in View
        BY DEF TypeOK
      <4>2. [view[n] EXCEPT !.status = "completed", !.result = r] \in View
        BY <4>1 DEF View, Status
      <4>3. view' = [view EXCEPT ![n] = [view[n] EXCEPT !.status = "completed", !.result = r]]
        BY <2>4 DEF Complete, TypeOK
      <4>4. QED
        BY <4>2, <4>3 DEF TypeOK
    <3>4. QED
      BY <2>4, <3>1, <3>2, <3>3, AddType DEF Complete, TypeOK
  <2>5. ASSUME NEW n \in Node, NEW ok \in BOOLEAN, FinishComplete(n, ok) PROVE TypeOK'
    <3> DEFINE op == NewOp(n, "result", view[n].result)
    <3>1. view[n].result # NoResult => op \in Op /\ op.time \in Nat /\ op.node \in Node
      BY DEF NewOp, Op, TypeOK, View
    <3>2. op.time \in Nat /\ [op EXCEPT !.time = made[n]].time \in Nat
      BY DEF NewOp, TypeOK
    <3>3. \/ view[n].result # NoResult /\ Add(n, op) /\ Dispatch(n, op, ok)
          \/ UNCHANGED <<log, clock, made, hb>> /\ Dispatch(n, [op EXCEPT !.time = made[n]], ok)
      BY <2>5 DEF FinishComplete
    <3> HIDE DEF op
    <3>4. hooks' \subseteq Hook
      BY <3>2, <3>3, DispatchType
    <3>5. /\ log' \in [Node -> Seq(Op)] /\ clock' \in [Node -> Nat]
          /\ made' \in [Node -> Nat] /\ hb' \subseteq (Node \X Nat) \X (Node \X Nat)
      <4>1. CASE view[n].result # NoResult /\ Add(n, op)
        BY <3>1, <4>1, AddType
      <4>2. CASE UNCHANGED <<log, clock, made, hb>>
        BY <4>2 DEF TypeOK
      <4>3. QED
        BY <3>3, <4>1, <4>2
    <3>6. view' \in [Node -> View]
      BY <2>5 DEF FinishComplete, TypeOK
    <3>7. disk' \in [Node -> [view : View, ops : Seq(Op)]] /\ faults' \in Nat
      BY <2>5, <3>5, <3>6, SaveType DEF FinishComplete
    <3>8. QED
      BY <2>5, <3>4, <3>5, <3>6, <3>7 DEF FinishComplete, TypeOK
  <2>6. ASSUME NEW h \in hooks, HookGet(h) PROVE TypeOK'
    BY <2>6 DEF HookGet, TypeOK, Hook, storeVars, Visible
  <2>7. ASSUME NEW h \in hooks, NEW ok \in BOOLEAN, HookPublish(h, ok) PROVE TypeOK'
    <3> DEFINE m == [from |-> h.node, view |-> h.view, ops |-> log[h.node]]
    <3>1. h \in Hook
      BY DEF TypeOK
    <3>2. m \in Snapshot
      BY <3>1 DEF TypeOK, Hook, Snapshot
    <3>3. net' \subseteq net \cup {m} /\ faults' \in Nat
      BY <2>7 DEF HookPublish, TypeOK
    <3> HIDE DEF m
    <3>4. net' \subseteq Snapshot
      BY <3>2, <3>3 DEF TypeOK
    <3>5. QED
      BY <2>7, <3>3, <3>4 DEF HookPublish, TypeOK, storeVars
  <2>8. ASSUME NEW n \in Node, NEW m \in net, NEW ok \in BOOLEAN, Adopt(n, m, ok) PROVE TypeOK'
    <3>1. m \in Snapshot
      BY DEF TypeOK
    <3>2. m.ops \in Seq(Op) /\ m.view \in View /\ ImportedClock(m.ops) \in Nat
      BY <3>1, ClockType DEF Snapshot
    <3>3. /\ log' \in [Node -> Seq(Op)] /\ clock' \in [Node -> Nat] /\ view' \in [Node -> View]
          /\ seen' \in [Node -> SUBSET Snapshot]
      BY <2>8, <3>1, <3>2 DEF Adopt, Decode, TypeOK
    <3>4. disk' \in [Node -> [view : View, ops : Seq(Op)]] /\ faults' \in Nat
      BY <2>8, <3>3, SaveType DEF Adopt, Decode
    <3>5. QED
      BY <2>8, <3>3, <3>4 DEF Adopt, Decode, TypeOK
  <2>9. ASSUME NEW n \in Node, NEW m \in net, StartMerge(n, m) PROVE TypeOK'
    <3>1. m \in Snapshot
      BY DEF TypeOK
    <3>2. m.ops \in Seq(Op) /\ ImportedClock(m.ops) \in Nat
      BY <3>1, ClockType DEF Snapshot
    <3>3. QED
      BY <2>9, <3>1, <3>2 DEF StartMerge, Decode, TypeOK, Observe
  <2>10. ASSUME NEW n \in Node, ImportNext(n) PROVE TypeOK'
    <3>1. PICK i \in DOMAIN rest[n] :
            /\ log' = [log EXCEPT ![n] = Append(@, rest[n][i])]
            /\ clock' = [clock EXCEPT ![n] = Observe(@, rest[n][i].lamport)]
      BY <2>10 DEF ImportNext
    <3>2. rest[n][i] \in Op
      BY DEF TypeOK
    <3>3. rest[n][i].lamport \in Nat
      BY <3>2 DEF Op
    <3>4. log' \in [Node -> Seq(Op)] /\ clock' \in [Node -> Nat]
      BY <3>1, <3>2, <3>3 DEF TypeOK, Observe
    <3>5. QED
      BY <2>10, <3>4 DEF ImportNext, TypeOK
  <2>11. ASSUME NEW n \in Node, NEW ok \in BOOLEAN, FinishMerge(n, ok) PROVE TypeOK'
    <3>1. Replay(view[n], OpSet(log[n])) \in View
      BY ReplayType DEF TypeOK
    <3>2. view' \in [Node -> View] /\ log' \in [Node -> Seq(Op)]
      BY <2>11, <3>1 DEF FinishMerge, TypeOK
    <3>3. disk' \in [Node -> [view : View, ops : Seq(Op)]] /\ faults' \in Nat
      BY <2>11, <3>2, SaveType DEF FinishMerge
    <3>4. busy' \in [Node -> {"free", "working", "merging"}] /\ rest' \in [Node -> Seq(Op)]
      BY <2>11 DEF FinishMerge, TypeOK
    <3>5. QED
      BY <2>11, <3>2, <3>3, <3>4 DEF FinishMerge, TypeOK
  <2>12. ASSUME NEW n \in Node, Crash(n) PROVE TypeOK'
    <3>1. disk[n].ops \in Seq(Op) /\ disk[n].view \in View
      BY DEF TypeOK
    <3>2. ImportedClock(disk[n].ops) \in Nat
      BY <3>1, ClockType
    <3>3. QED
      BY <2>12, <3>1, <3>2 DEF Crash, Decode, TypeOK
  <2>13. ASSUME NEW n \in Node, SaveElse(n) PROVE TypeOK'
    BY <2>13 DEF SaveElse, TypeOK
  <2>14. CASE UNCHANGED vars
    BY <2>14 DEF vars, TypeOK
  <2>15. QED
    BY <2>1, <2>2, <2>3, <2>4, <2>5, <2>6, <2>7, <2>8, <2>9, <2>10, <2>11, <2>12, <2>13, <2>14
       DEF Next, Request, Publish, Receive
<1>3. QED
  BY <1>1, <1>2, PTL DEF Spec
-----------------------------------------------------------------------------
\* The conjuncts of CausalHistory that speak of operations.
Sound == Causal(AllLogs, hb)
Issued ==
  /\ \A o \in OpsOf(AllLogs) : o.time <= made[o.node]
  /\ \A p \in hb : p[1][2] <= made[p[1][1]] /\ p[2][2] <= made[p[2][1]]
Covers == \A n \in Node : \A o \in OpSet(log[n]) : o.lamport <= clock[n]
RestSent == \A n \in Node : rest[n] = <<>> \/ \E m \in net : rest[n] = m.ops

LEMMA HistoryParts == CausalHistory <=> Sound /\ Issued /\ Covers /\ RestSent
  BY DEF CausalHistory, Sound, Issued, Covers, RestSent, Decode

LEMMA LogsType == TypeOK => AllLogs \in SUBSET Seq(Op) /\ OpsOf(AllLogs) \subseteq Op
<1> SUFFICES ASSUME TypeOK PROVE AllLogs \in SUBSET Seq(Op) /\ OpsOf(AllLogs) \subseteq Op
  OBVIOUS
<1>1. AllLogs \in SUBSET Seq(Op)
  BY DEF TypeOK, AllLogs, Snapshot
<1>2. \A L \in AllLogs : OpSet(L) \subseteq Op
  BY <1>1, OpSetFinite
<1>3. QED
  BY <1>1, <1>2 DEF OpsOf

\* A step that makes no operation keeps what is known of operations, if the
\* logs it leaves were there.
LEMMA QuietStep ==
  ASSUME Sound, Issued, AllLogs' \subseteq AllLogs, UNCHANGED <<hb, made>>
  PROVE  Sound' /\ Issued'
<1>1. Causal(AllLogs', hb)
  BY CausalSubset DEF Sound
<1>2. OpsOf(AllLogs') \subseteq OpsOf(AllLogs)
  BY DEF OpsOf
<1>3. OpsOf(AllLogs)' = OpsOf(AllLogs')
  BY DEF OpsOf
<1>4. QED
  BY <1>1, <1>2, <1>3 DEF Sound, Issued

\* saveLocked writes the log in memory or leaves tasks.json alone.
LEMMA SaveLogs ==
  ASSUME TypeOK, NEW n \in Node, NEW ok, SaveLocked(n, ok)
  PROVE  \A k \in Node : disk'[k].ops = disk[k].ops \/ disk'[k].ops = log'[n]
<1> DEFINE new == [view |-> view'[n], ops |-> log'[n]]
<1>1. new.ops = log'[n]
  OBVIOUS
<1>2. disk' = [disk EXCEPT ![n] = new] \/ disk' = disk
  BY DEF SaveLocked
<1> HIDE DEF new
<1>3. \A k \in Node : disk'[k] = disk[k] \/ disk'[k] = new
  BY <1>2 DEF TypeOK
<1>4. QED
  BY <1>1, <1>3

\* What a step that changes one node's log can leave.
LEMMA LogsAfter ==
  ASSUME NEW n \in Node, UNCHANGED net,
         \A k \in Node \ {n} : log'[k] = log[k],
         \A k \in Node : disk'[k].ops = disk[k].ops \/ disk'[k].ops = log'[n]
  PROVE  AllLogs' \subseteq AllLogs \cup {log'[n]}
  BY DEF AllLogs

\* OperationLog.Add keeps the history causal.
LEMMA AddStep ==
  ASSUME TypeOK, Sound, Issued, Covers, NEW n \in Node, NEW op \in Op,
         op.node = n, op.time = made[n] + 1, Add(n, op),
         UNCHANGED net,
         \A k \in Node : disk'[k].ops = disk[k].ops \/ disk'[k].ops = log'[n]
  PROVE  Sound' /\ Issued' /\ Covers'
<1> DEFINE new == Stamp(op, clock[n])
           LL == AllLogs \cup {Append(log[n], new)}
<1>1. /\ new \in Op /\ Id(new) = Id(op) /\ new.lamport = clock[n] + 1
      /\ clock[n] \in Nat /\ made[n] \in Nat
  BY StampOp DEF TypeOK
<1>2. /\ log[n] \in AllLogs /\ log[n] \in Seq(Op)
      /\ \A o \in OpSet(log[n]) : o \in OpsOf(AllLogs)
  BY DEF AllLogs, TypeOK, OpsOf
<1>3. /\ log' = [log EXCEPT ![n] = Append(@, new)] /\ clock' = [clock EXCEPT ![n] = @ + 1]
      /\ made' = [made EXCEPT ![n] = @ + 1]
      /\ hb' = hb \cup (IdSet(log[n]) \X {Id(new)})
  BY <1>1 DEF Add, TypeOK
<1>4. Id(new) = <<n, made[n] + 1>> /\ new.node = n /\ new.time = made[n] + 1
  BY <1>1 DEF Id
<1> HIDE DEF new
<1>5. \A o \in OpsOf(AllLogs) : Id(o) # Id(new)
  BY <1>1, <1>4 DEF Issued, Id
<1>6. \A p \in hb : p[2] # Id(new) /\ p[1] # Id(new)
  BY <1>1, <1>4 DEF Issued
<1>7. \A o \in OpSet(log[n]) : o.lamport < new.lamport
  <2>1. \A o \in OpSet(log[n]) : o.lamport \in Nat /\ o.lamport <= clock[n]
    BY <1>2, OpSetFinite DEF Covers, Op
  <2>2. QED
    BY <1>1, <2>1
<1>8. Causal(LL, hb')
  <2>1. AllLogs \in SUBSET Seq(Op) /\ Causal(AllLogs, hb) /\ new.lamport \in Nat
    BY <1>1, LogsType DEF Sound
  <2>2. Causal(AllLogs \cup {Append(log[n], new)}, hb \cup (IdSet(log[n]) \X {Id(new)}))
    BY <1>1, <1>2, <1>5, <1>6, <1>7, <2>1, CausalAdd
  <2>3. QED
    BY <1>3, <2>2
<1>9. log'[n] = Append(log[n], new) /\ \A k \in Node \ {n} : log'[k] = log[k]
  BY <1>3 DEF TypeOK
<1>10. AllLogs' \subseteq LL
  BY <1>9, LogsAfter
<1>11. OpSet(Append(log[n], new)) = OpSet(log[n]) \cup {new}
  BY <1>1, <1>2, AppendOp
<1>12. OpsOf(AllLogs)' \subseteq OpsOf(AllLogs) \cup {new}
  <2>1. \A L \in LL : OpSet(L) \subseteq OpsOf(AllLogs) \cup {new}
    BY <1>2, <1>11 DEF OpsOf
  <2>2. QED
    BY <1>10, <2>1 DEF OpsOf
<1>13. Sound'
  BY <1>8, <1>10, CausalSubset DEF Sound
<1>14. \A k \in Node : made[k] \in Nat /\ made'[k] \in Nat /\ made[k] <= made'[k]
  BY <1>3 DEF TypeOK
<1>15. made'[n] = made[n] + 1
  BY <1>3 DEF TypeOK
<1>16. Issued'
  <2>1. \A o \in OpsOf(AllLogs) \cup {new} : o.time <= made'[o.node]
    <3>1. \A o \in OpsOf(AllLogs) : o.time \in Nat /\ o.node \in Node
      BY LogsType DEF Op
    <3>2. QED
      BY <1>1, <1>4, <1>14, <1>15, <3>1 DEF Issued
  <2>2. IdSet(log[n]) \subseteq {Id(o) : o \in OpsOf(AllLogs)}
    BY <1>2 DEF IdSet, OpSet
  <2>3. \A x \in IdSet(log[n]) : x[2] <= made'[x[1]]
    BY <2>1, <2>2 DEF Id
  <2>4. \A p \in hb : p[1][2] <= made'[p[1][1]] /\ p[2][2] <= made'[p[2][1]]
    <3>1. ASSUME NEW p \in hb
          PROVE  /\ p[1][1] \in Node /\ p[1][2] \in Nat
                 /\ p[2][1] \in Node /\ p[2][2] \in Nat
      BY DEF TypeOK
    <3>2. QED
      BY <1>14, <3>1 DEF Issued
  <2>5. \A p \in hb' : p[1][2] <= made'[p[1][1]] /\ p[2][2] <= made'[p[2][1]]
    <3>1. Id(new)[2] <= made'[Id(new)[1]]
      BY <1>1, <1>4, <1>15
    <3>2. ASSUME NEW p \in IdSet(log[n]) \X {Id(new)}
          PROVE  p[1] \in IdSet(log[n]) /\ p[2] = Id(new)
      OBVIOUS
    <3>3. QED
      BY <1>3, <2>3, <2>4, <3>1, <3>2
  <2>6. QED
    BY <1>12, <2>1, <2>5 DEF Issued
<1>17. Covers'
  <2>1. \A o \in OpSet(log[n]) \cup {new} : o.lamport <= clock[n] + 1
    <3>1. \A o \in OpSet(log[n]) : o.lamport \in Nat
      BY <1>2, OpSetFinite DEF Op
    <3>2. QED
      BY <1>1, <3>1 DEF Covers
  <2>2. clock'[n] = clock[n] + 1 /\ \A k \in Node \ {n} : clock'[k] = clock[k]
    BY <1>3 DEF TypeOK
  <2>3. OpSet(log'[n]) = OpSet(log[n]) \cup {new}
    BY <1>9, <1>11
  <2>4. QED
    BY <1>9, <2>1, <2>2, <2>3 DEF Covers
<1>18. QED
  BY <1>13, <1>16, <1>17

\* ImportOperation of the next remote operation keeps the history causal: what
\* it depends on comes earlier in the snapshot, so the log has it by now.
LEMMA ImportStep ==
  ASSUME TypeOK, Sound, Issued, Covers, RestSent, NEW n \in Node, ImportNext(n)
  PROVE  Sound' /\ Issued' /\ Covers' /\ RestSent'
<1>1. PICK i \in DOMAIN rest[n] :
        /\ Id(rest[n][i]) \notin IdSet(log[n])
        /\ \A j \in 1 .. i - 1 : Id(rest[n][j]) \in IdSet(log[n])
        /\ log' = [log EXCEPT ![n] = Append(@, rest[n][i])]
        /\ clock' = [clock EXCEPT ![n] = Observe(@, rest[n][i].lamport)]
  BY DEF ImportNext
<1> DEFINE op == rest[n][i]
           LL == AllLogs \cup {Append(log[n], op)}
<1>2. UNCHANGED <<disk, rest, net, made, hb>>
  BY DEF ImportNext
<1>3. rest[n] \in AllLogs /\ rest[n] \in Seq(Op) /\ log[n] \in AllLogs /\ log[n] \in Seq(Op)
  BY DEF RestSent, AllLogs, TypeOK
<1>4. op \in Op /\ op \in OpSet(rest[n]) /\ op \in OpsOf(AllLogs)
  BY <1>3 DEF OpsOf, OpSet
<1>5. \A p \in hb : p[2] = Id(op) => p[1] \in IdSet(log[n])
  <2>1. ASSUME NEW p \in hb, p[2] = Id(op) PROVE p[1] \in IdSet(log[n])
    <3>1. Closed(AllLogs, hb)
      BY DEF Sound, Causal
    <3>2. \A j \in DOMAIN rest[n] : \A q \in hb :
            q[2] = Id(rest[n][j]) => \E k \in 1 .. j - 1 : Id(rest[n][k]) = q[1]
      BY <1>3, <3>1 DEF Closed
    <3>3. QED
      BY <1>1, <2>1, <3>2
  <2>2. QED
    BY <2>1
<1>6. Causal(LL, hb)
  <2>1. AllLogs \in SUBSET Seq(Op) /\ Causal(AllLogs, hb) /\ Id(op) \notin IdSet(log[n])
    BY <1>1, LogsType DEF Sound
  <2> HIDE DEF op
  <2>2. QED
    BY <1>3, <1>4, <1>5, <2>1, CausalImport
<1>7. log'[n] = Append(log[n], op) /\ \A k \in Node \ {n} : log'[k] = log[k]
  BY <1>1 DEF TypeOK
<1>8. OpSet(Append(log[n], op)) = OpSet(log[n]) \cup {op}
  BY <1>3, <1>4, AppendOp
<1> HIDE DEF op
<1>9. AllLogs' \subseteq LL
  BY <1>2, <1>7, LogsAfter
<1>10. Sound'
  BY <1>2, <1>6, <1>9, CausalSubset DEF Sound
<1>11. OpsOf(AllLogs)' \subseteq OpsOf(AllLogs)
  <2>1. \A L \in LL : OpSet(L) \subseteq OpsOf(AllLogs)
    BY <1>3, <1>4, <1>8 DEF OpsOf
  <2>2. QED
    BY <1>9, <2>1 DEF OpsOf
<1>12. Issued'
  BY <1>2, <1>11 DEF Issued
<1>13. Covers'
  <2>1. clock'[n] = Observe(clock[n], op.lamport) /\ \A k \in Node \ {n} : clock'[k] = clock[k]
    BY <1>1 DEF TypeOK, op
  <2>2. op.lamport \in Nat /\ clock[n] \in Nat /\ \A o \in OpSet(log[n]) : o.lamport \in Nat
    BY <1>3, <1>4, OpSetFinite DEF Op, TypeOK
  <2>3. \A o \in OpSet(log[n]) \cup {op} : o.lamport <= clock'[n]
    BY <2>1, <2>2 DEF Covers, Observe
  <2>4. QED
    BY <1>7, <1>8, <2>1, <2>3 DEF Covers
<1>14. RestSent'
  BY <1>2 DEF RestSent
<1>15. QED
  BY <1>10, <1>12, <1>13, <1>14

\* The history stays causal on every node, in tasks.json and in every snapshot,
\* through requests, event hooks, merges, failed saves and crashes.
THEOREM HistoryIsCausal == Spec => []CausalHistory
<1>1. Init => CausalHistory
  <2> SUFFICES ASSUME Init PROVE CausalHistory
    OBVIOUS
  <2>1. /\ \A L \in AllLogs : L = <<>>
        /\ hb = {} /\ \A n \in Node : log[n] = <<>> /\ rest[n] = <<>>
    BY DEF Init, AllLogs
  <2>2. \A L \in AllLogs : DOMAIN L = {}
    BY <2>1
  <2>3. OpsOf(AllLogs) = {}
    BY <2>2 DEF OpsOf, OpSet
  <2>4. QED
    BY <2>1, <2>2, <2>3 DEF CausalHistory, Causal, Closed, OpSet
<1>2. TypeOK /\ CausalHistory /\ [Next]_vars => CausalHistory'
  <2> SUFFICES ASSUME TypeOK, CausalHistory, [Next]_vars PROVE CausalHistory'
    OBVIOUS
  <2> USE HistoryParts
  <2>0. Sound /\ Issued /\ Covers /\ RestSent
    OBVIOUS
  <2>p. Sound' /\ Issued' /\ Covers' /\ RestSent' => CausalHistory'
    BY DEF CausalHistory, Sound, Issued, Covers, RestSent, Decode
  <2>1. ASSUME NEW n \in Node, Create(n) PROVE CausalHistory'
    <3> DEFINE op == NewOp(n, "create", NoAgent)
    <3>1. op \in Op /\ op.time = made[n] + 1 /\ op.node = n
      BY DEF NewOp, Op, TypeOK
    <3>2. Add(n, op) /\ UNCHANGED <<disk, rest, net>>
      BY <2>1 DEF Create
    <3> HIDE DEF op
    <3>3. Sound' /\ Issued' /\ Covers'
      BY <2>0, <3>1, <3>2, AddStep
    <3>4. QED
      BY <2>0, <2>p, <3>2, <3>3 DEF RestSent
  <2>2. ASSUME NEW h \in hooks, NEW ok \in BOOLEAN, CreateSave(h, ok) PROVE CausalHistory'
    <3>1. h.node \in Node
      BY DEF TypeOK, Hook
    <3>2. UNCHANGED <<log, clock, rest, net, made, hb>> /\ SaveLocked(h.node, ok)
      BY <2>2 DEF CreateSave
    <3>3. \A k \in Node : disk'[k].ops = disk[k].ops \/ disk'[k].ops = log[h.node]
      BY <3>1, <3>2, SaveLogs
    <3>4. AllLogs' \subseteq AllLogs
      BY <3>1, <3>2, <3>3 DEF AllLogs
    <3>5. Sound' /\ Issued'
      BY <2>0, <3>2, <3>4, QuietStep
    <3>6. QED
      BY <2>0, <2>p, <3>2, <3>5 DEF Covers, RestSent
  <2>3. ASSUME NEW n \in Node, NEW a \in Agent, NEW ok \in BOOLEAN, Claim(n, a, ok)
        PROVE  CausalHistory'
    <3> DEFINE op == NewOp(n, "claim", a)
    <3>1. op \in Op /\ op.time = made[n] + 1 /\ op.node = n
      BY DEF NewOp, Op, TypeOK
    <3>2. Add(n, op) /\ SaveLocked(n, ok) /\ UNCHANGED <<rest, net>>
      BY <2>3 DEF Claim
    <3> HIDE DEF op
    <3>3. \A k \in Node : disk'[k].ops = disk[k].ops \/ disk'[k].ops = log'[n]
      BY <3>2, SaveLogs
    <3>4. Sound' /\ Issued' /\ Covers'
      BY <2>0, <3>1, <3>2, <3>3, AddStep
    <3>5. QED
      BY <2>0, <2>p, <3>2, <3>4 DEF RestSent
  <2>4. ASSUME NEW n \in Node, NEW r \in Result \cup {NoResult}, Complete(n, r)
        PROVE  CausalHistory'
    <3> DEFINE op == NewOp(n, "complete", view[n].claimedBy)
    <3>1. op \in Op /\ op.time = made[n] + 1 /\ op.node = n
      BY DEF NewOp, Op, TypeOK, View
    <3>2. Add(n, op) /\ UNCHANGED <<disk, rest, net>>
      BY <2>4 DEF Complete
    <3> HIDE DEF op
    <3>3. Sound' /\ Issued' /\ Covers'
      BY <2>0, <3>1, <3>2, AddStep
    <3>4. QED
      BY <2>0, <2>p, <3>2, <3>3 DEF RestSent
  <2>5. ASSUME NEW n \in Node, NEW ok \in BOOLEAN, FinishComplete(n, ok) PROVE CausalHistory'
    <3> DEFINE op == NewOp(n, "result", view[n].result)
    <3>1. /\ view[n].result # NoResult => op \in Op
          /\ op.time = made[n] + 1 /\ op.node = n
      BY DEF NewOp, Op, TypeOK, View
    <3>2. \/ view[n].result # NoResult /\ Add(n, op)
          \/ UNCHANGED <<log, clock, made, hb>>
      BY <2>5 DEF FinishComplete
    <3>3. SaveLocked(n, ok) /\ UNCHANGED <<rest, net>>
      BY <2>5 DEF FinishComplete
    <3> HIDE DEF op
    <3>4. \A k \in Node : disk'[k].ops = disk[k].ops \/ disk'[k].ops = log'[n]
      BY <3>3, SaveLogs
    <3>5. Sound' /\ Issued' /\ Covers'
      <4>1. CASE view[n].result # NoResult /\ Add(n, op)
        BY <2>0, <3>1, <3>3, <3>4, <4>1, AddStep
      <4>2. CASE UNCHANGED <<log, clock, made, hb>>
        <5>1. AllLogs' \subseteq AllLogs
          BY <3>3, <3>4, <4>2 DEF AllLogs
        <5>2. QED
          BY <2>0, <4>2, <5>1, QuietStep DEF Covers
      <4>3. QED
        BY <3>2, <4>1, <4>2
    <3>6. QED
      BY <2>0, <2>p, <3>3, <3>5 DEF RestSent
  <2>6. ASSUME NEW h \in hooks, HookGet(h) PROVE CausalHistory'
    <3>1. UNCHANGED <<log, clock, disk, rest, net, made, hb>>
      BY <2>6 DEF HookGet, storeVars
    <3>2. QED
      BY <2>0, <3>1, QuietStep DEF AllLogs, CausalHistory, OpsOf
  <2>7. ASSUME NEW h \in hooks, NEW ok \in BOOLEAN, HookPublish(h, ok) PROVE CausalHistory'
    <3> DEFINE m == [from |-> h.node, view |-> h.view, ops |-> log[h.node]]
    <3>1. h.node \in Node /\ m.ops = log[h.node]
      BY DEF TypeOK, Hook
    <3>2. /\ net' \subseteq net \cup {m} /\ net \subseteq net'
          /\ UNCHANGED <<log, clock, disk, rest, made, hb>>
      BY <2>7 DEF HookPublish, storeVars
    <3> HIDE DEF m
    <3>3. AllLogs' \subseteq AllLogs
      BY <3>1, <3>2 DEF AllLogs
    <3>4. Sound' /\ Issued'
      BY <2>0, <3>2, <3>3, QuietStep
    <3>5. QED
      BY <2>0, <2>p, <3>2, <3>4 DEF Covers, RestSent
  <2>8. ASSUME NEW n \in Node, NEW m \in net, NEW ok \in BOOLEAN, Adopt(n, m, ok)
        PROVE  CausalHistory'
    <3>1. m.ops \in Seq(Op)
      BY DEF TypeOK, Snapshot
    <3>2. /\ log' = [log EXCEPT ![n] = m.ops]
          /\ clock' = [clock EXCEPT ![n] = ImportedClock(m.ops)]
          /\ SaveLocked(n, ok) /\ UNCHANGED <<rest, net, made, hb>>
      BY <2>8 DEF Adopt, Decode
    <3>3. \A k \in Node : disk'[k].ops = disk[k].ops \/ disk'[k].ops = log'[n]
      BY <3>2, SaveLogs
    <3>4. log'[n] = m.ops /\ \A k \in Node \ {n} : log'[k] = log[k]
      BY <3>2 DEF TypeOK
    <3>5. AllLogs' \subseteq AllLogs
      BY <3>2, <3>3, <3>4 DEF AllLogs
    <3>6. Covers'
      <4>1. clock'[n] = ImportedClock(m.ops) /\ \A k \in Node \ {n} : clock'[k] = clock[k]
        BY <3>2 DEF TypeOK
      <4>2. \A o \in OpSet(m.ops) : o.lamport <= ImportedClock(m.ops)
        BY <3>1, ImportedClockBound, OpIsOrdered DEF OpSet
      <4>3. QED
        BY <2>0, <3>4, <4>1, <4>2 DEF Covers
    <3>7. QED
      BY <2>0, <2>p, <3>2, <3>5, <3>6, QuietStep DEF RestSent
  <2>9. ASSUME NEW n \in Node, NEW m \in net, StartMerge(n, m) PROVE CausalHistory'
    <3>1. /\ UNCHANGED <<log, disk, net, made, hb>>
          /\ clock' = [clock EXCEPT ![n] = Observe(@, ImportedClock(m.ops))]
          /\ rest' = [rest EXCEPT ![n] = m.ops]
      BY <2>9 DEF StartMerge, Decode
    <3>2. Sound' /\ Issued'
      BY <2>0, <3>1, QuietStep DEF AllLogs
    <3>3. Covers'
      <4>1. m.ops \in Seq(Op)
        BY DEF TypeOK, Snapshot
      <4>2. \A k \in Node : clock[k] \in Nat /\ clock'[k] \in Nat /\ clock[k] <= clock'[k]
        <5>1. ImportedClock(m.ops) \in Nat
          BY <4>1, ClockType
        <5>2. clock'[n] = Observe(clock[n], ImportedClock(m.ops))
              /\ \A k \in Node \ {n} : clock'[k] = clock[k]
          BY <3>1 DEF TypeOK
        <5>3. \A k \in Node : clock[k] \in Nat
          BY DEF TypeOK
        <5>4. QED
          BY <5>1, <5>2, <5>3 DEF Observe
      <4>3. \A k \in Node : \A o \in OpSet(log[k]) : o.lamport \in Nat
        <5>1. \A k \in Node : OpSet(log[k]) \subseteq Op
          BY OpSetFinite DEF TypeOK
        <5>2. QED
          BY <5>1 DEF Op
      <4>4. QED
        BY <2>0, <3>1, <4>2, <4>3 DEF Covers
    <3>4. RestSent'
      BY <2>0, <3>1 DEF RestSent, TypeOK
    <3>5. QED
      BY <2>p, <3>2, <3>3, <3>4
  <2>10. ASSUME NEW n \in Node, ImportNext(n) PROVE CausalHistory'
    BY <2>0, <2>p, <2>10, ImportStep
  <2>11. ASSUME NEW n \in Node, NEW ok \in BOOLEAN, FinishMerge(n, ok) PROVE CausalHistory'
    <3>1. /\ UNCHANGED <<log, clock, net, made, hb>> /\ SaveLocked(n, ok)
          /\ rest' = [rest EXCEPT ![n] = <<>>]
      BY <2>11 DEF FinishMerge
    <3>2. \A k \in Node : disk'[k].ops = disk[k].ops \/ disk'[k].ops = log[n]
      BY <3>1, SaveLogs
    <3>3. AllLogs' \subseteq AllLogs
      BY <3>1, <3>2 DEF AllLogs
    <3>4. RestSent'
      BY <2>0, <3>1 DEF RestSent, TypeOK
    <3>5. QED
      BY <2>0, <2>p, <3>1, <3>3, <3>4, QuietStep DEF Covers
  <2>12. ASSUME NEW n \in Node, Crash(n) PROVE CausalHistory'
    <3>1. /\ log' = [log EXCEPT ![n] = disk[n].ops]
          /\ clock' = [clock EXCEPT ![n] = ImportedClock(disk[n].ops)]
          /\ rest' = [rest EXCEPT ![n] = <<>>]
          /\ UNCHANGED <<disk, net, made, hb>>
      BY <2>12 DEF Crash, Decode
    <3>2. disk[n].ops \in Seq(Op)
      BY DEF TypeOK
    <3>3. log'[n] = disk[n].ops /\ \A k \in Node \ {n} : log'[k] = log[k]
      BY <3>1 DEF TypeOK
    <3>4. AllLogs' \subseteq AllLogs
      BY <3>1, <3>3 DEF AllLogs
    <3>5. Covers'
      <4>1. clock'[n] = ImportedClock(disk[n].ops) /\ \A k \in Node \ {n} : clock'[k] = clock[k]
        BY <3>1 DEF TypeOK
      <4>2. \A o \in OpSet(disk[n].ops) : o.lamport <= ImportedClock(disk[n].ops)
        BY <3>2, ImportedClockBound, OpIsOrdered DEF OpSet
      <4>3. QED
        BY <2>0, <3>3, <4>1, <4>2 DEF Covers
    <3>6. RestSent'
      BY <2>0, <3>1 DEF RestSent, TypeOK
    <3>7. QED
      BY <2>0, <2>p, <3>1, <3>4, <3>5, <3>6, QuietStep
  <2>13. ASSUME NEW n \in Node, SaveElse(n) PROVE CausalHistory'
    <3>1. UNCHANGED <<log, clock, rest, net, made, hb>>
      BY <2>13 DEF SaveElse
    <3>2. \A k \in Node : disk'[k].ops = disk[k].ops \/ disk'[k].ops = log[n]
      BY <2>13 DEF SaveElse, TypeOK
    <3>3. AllLogs' \subseteq AllLogs
      BY <3>1, <3>2 DEF AllLogs
    <3>4. QED
      BY <2>0, <2>p, <3>1, <3>3, QuietStep DEF Covers, RestSent
  <2>14. CASE UNCHANGED vars
    BY <2>14 DEF vars, CausalHistory, AllLogs, OpsOf
  <2>15. QED
    BY <2>1, <2>2, <2>3, <2>4, <2>5, <2>6, <2>7, <2>8, <2>9, <2>10, <2>11, <2>12, <2>13, <2>14
       DEF Next, Request, Publish, Receive
<1>3. QED
  BY <1>1, <1>2, TypeCorrect, PTL DEF Spec

\* A replay never puts an operation before one its author had seen.
THEOREM CausalOrder == Spec => []HappensBefore
<1>1. TypeOK /\ CausalHistory => HappensBefore
  <2> SUFFICES ASSUME TypeOK, CausalHistory, NEW L \in AllLogs, NEW i \in DOMAIN L, NEW j \in DOMAIN L,
                      <<Id(L[i]), Id(L[j])>> \in hb
               PROVE  Before(L[i], L[j])
    BY DEF HappensBefore
  <2>1. L[i] \in OpsOf(AllLogs) /\ L[j] \in OpsOf(AllLogs)
    BY DEF OpsOf, OpSet
  <2>2. QED
    BY <2>1 DEF CausalHistory, Causal, Before
<1>2. QED
  BY <1>1, TypeCorrect, HistoryIsCausal, PTL

\* No log, in memory, on disk or published, has a gap in its history.
THEOREM NoGaps == Spec => []CausallyClosed
<1>1. CausalHistory => CausallyClosed
  BY DEF CausalHistory, Causal, Closed, CausallyClosed
<1>2. QED
  BY <1>1, HistoryIsCausal, PTL

\* No log holds an operation twice, however often a snapshot is merged.
THEOREM Deduplication == Spec => []NoDuplicates
<1>1. CausalHistory => NoDuplicates
  BY DEF CausalHistory, Causal, Closed, NoDuplicates
<1>2. QED
  BY <1>1, HistoryIsCausal, PTL
-----------------------------------------------------------------------------
(* What a daemon keeps: an acknowledged claim or completion is in           *)
(* tasks.json, and the fields of a task have operations behind them.        *)

\* A file is behind its store's memory; a request past its first mutation has
\* its operation in memory, and so has the one in the middle of Complete.
Behind == \A n \in Node : IdSet(disk[n].ops) \subseteq IdSet(log[n])
HooksKnown == \A h \in hooks : <<h.node, h.time>> \in IdSet(log[h.node])
WorkKnown == \A n \in Node : busy[n] = "working" => <<n, made[n]>> \in IdSet(log[n])
OnDisk == Behind /\ HooksKnown /\ WorkKnown /\ AckedOnDisk

LEMMA IdsOfOps == ASSUME NEW ops PROVE IdSet(ops) = {Id(o) : o \in OpSet(ops)}
  BY DEF IdSet, OpSet

\* A handler answers success only for these.
Answered == {"claim", "complete", "result"}

LEMMA AckedMeaning ==
  AckedOnDisk <=> \A h \in hooks : \A o \in OpSet(log[h.node]) :
    Id(o) = <<h.node, h.time>> /\ o.kind \in Answered
      => <<h.node, h.time>> \in IdSet(disk[h.node].ops)
  BY DEF AckedOnDisk, OfKind, Answered

\* The operations a log gains have IDs it did not have.
Gains(new, old) ==
  /\ IdSet(old) \subseteq IdSet(new)
  /\ \A o \in OpSet(new) : o \in OpSet(old) \/ Id(o) \notin IdSet(old)

\* One node's store changes: its log gains operations and its file stays or
\* becomes the log.
StoreStep(n) ==
  /\ \A k \in Node \ {n} : log'[k] = log[k] /\ disk'[k] = disk[k]
  /\ Gains(log'[n], log[n])
  /\ disk'[n].ops = disk[n].ops \/ disk'[n].ops = log'[n]

\* A hook of before, or one of a request whose operation is on disk, or whose
\* handler does not answer for it.
HookJustified(n, h) ==
  \/ \E g \in hooks : g.node = h.node /\ g.time = h.time
  \/ /\ h.node = n /\ <<n, h.time>> \in IdSet(log'[n])
     /\ \/ disk'[n].ops = log'[n]
        \/ \A o \in OpSet(log'[n]) : Id(o) = <<n, h.time>> => o.kind \notin Answered

LEMMA StoreStepOnDisk ==
  ASSUME TypeOK, OnDisk, NEW n \in Node, StoreStep(n),
         \A h \in hooks' : HookJustified(n, h),
         \A k \in Node : busy'[k] = "working" =>
           \/ busy[k] = "working" /\ made'[k] = made[k]
           \/ <<k, made'[k]>> \in IdSet(log'[k])
  PROVE  OnDisk'
<1>0. \A h \in hooks : h.node \in Node
  BY DEF TypeOK, Hook
<1>1. \A k \in Node : IdSet(log[k]) \subseteq IdSet(log'[k])
  BY DEF StoreStep, Gains
<1>2. Behind'
  BY <1>1 DEF OnDisk, Behind, StoreStep
<1>3. HooksKnown'
  BY <1>0, <1>1 DEF OnDisk, HooksKnown, HookJustified
<1>4. WorkKnown'
  BY <1>1 DEF OnDisk, WorkKnown
<1>5. \A k \in Node : IdSet(disk[k].ops) \subseteq IdSet(disk'[k].ops)
  BY <1>1 DEF OnDisk, Behind, StoreStep
<1>6. ASSUME NEW h \in hooks', NEW o \in OpSet(log'[h.node]),
             Id(o) = <<h.node, h.time>>, o.kind \in Answered
      PROVE  <<h.node, h.time>> \in IdSet(disk'[h.node].ops)
  <2>1. CASE \E g \in hooks : g.node = h.node /\ g.time = h.time
    <3>1. PICK g \in hooks : g.node = h.node /\ g.time = h.time
      BY <2>1
    <3>2. <<h.node, h.time>> \in IdSet(log[h.node]) /\ h.node \in Node
      BY <1>0, <3>1 DEF OnDisk, HooksKnown
    <3>3. o \in OpSet(log[h.node])
      BY <1>6, <3>2 DEF StoreStep, Gains
    <3>4. <<h.node, h.time>> \in IdSet(disk[h.node].ops)
      BY <1>6, <3>1, <3>3, AckedMeaning DEF OnDisk
    <3>5. QED
      BY <1>5, <3>2, <3>4
  <2>2. CASE h.node = n /\ disk'[n].ops = log'[n]
    BY <1>6, <2>2, IdsOfOps
  <2>3. QED
    BY <1>6, <2>1, <2>2 DEF HookJustified
<1>7. AckedOnDisk'
  BY <1>6 DEF AckedOnDisk, OfKind, Answered
<1>8. QED
  BY <1>2, <1>3, <1>4, <1>7 DEF OnDisk

\* saveLocked makes the file the log, or leaves it, and reaches no other node.
LEMMA SaveOutcome ==
  ASSUME TypeOK, NEW n \in Node, NEW ok, SaveLocked(n, ok)
  PROVE  /\ \A k \in Node \ {n} : disk'[k] = disk[k]
         /\ disk'[n] = disk[n] \/ disk'[n] = [view |-> view'[n], ops |-> log'[n]]
         /\ disk'[n].ops = disk[n].ops \/ disk'[n].ops = log'[n]
         /\ ok => disk'[n].ops = log'[n]
<1> DEFINE new == [view |-> view'[n], ops |-> log'[n]]
<1>1. new.ops = log'[n]
  OBVIOUS
<1>2. disk' = [disk EXCEPT ![n] = new] \/ (disk' = disk /\ ~ok)
  BY DEF SaveLocked
<1> HIDE DEF new
<1>3. /\ \A k \in Node \ {n} : disk'[k] = disk[k]
      /\ disk'[n] = new \/ (disk'[n] = disk[n] /\ ~ok)
  BY <1>2 DEF TypeOK
<1>4. QED
  BY <1>1, <1>3 DEF new

\* OperationLog.Add adds one operation, with an ID no log has.
LEMMA AddOutcome ==
  ASSUME TypeOK, CausalHistory, NEW n \in Node, NEW op \in Op,
         op.node = n, op.time = made[n] + 1, Add(n, op)
  PROVE  /\ \A k \in Node \ {n} : log'[k] = log[k]
         /\ log'[n] = Append(log[n], Stamp(op, clock[n]))
         /\ Stamp(op, clock[n]) \in Op
         /\ Stamp(op, clock[n]).kind = op.kind /\ Stamp(op, clock[n]).arg = op.arg
         /\ OpSet(log'[n]) = OpSet(log[n]) \cup {Stamp(op, clock[n])}
         /\ IdSet(log'[n]) = IdSet(log[n]) \cup {<<n, made[n] + 1>>}
         /\ <<n, made[n] + 1>> \notin IdSet(log[n])
         /\ Id(Stamp(op, clock[n])) = <<n, made[n] + 1>>
         /\ made' = [made EXCEPT ![n] = @ + 1]
         /\ Gains(log'[n], log[n])
<1> DEFINE new == Stamp(op, clock[n])
<1>1. new \in Op /\ Id(new) = Id(op) /\ new.kind = op.kind /\ new.arg = op.arg
  <2>1. clock[n] \in Nat
    BY DEF TypeOK
  <2>2. new.arg = op.arg
    BY DEF Stamp, Op
  <2>3. QED
    BY <2>1, <2>2, StampOp
<1>2. Id(op) = <<n, made[n] + 1>>
  BY DEF Id
<1>3. log' = [log EXCEPT ![n] = Append(@, new)] /\ made' = [made EXCEPT ![n] = @ + 1]
  BY DEF Add, TypeOK
<1> HIDE DEF new
<1>4. log'[n] = Append(log[n], new) /\ log[n] \in Seq(Op) /\ \A k \in Node \ {n} : log'[k] = log[k]
  BY <1>3 DEF TypeOK
<1>5. OpSet(log'[n]) = OpSet(log[n]) \cup {new} /\ IdSet(log'[n]) = IdSet(log[n]) \cup {Id(new)}
  BY <1>1, <1>4, AppendOp
<1>6. Id(new) \notin IdSet(log[n])
  <2>1. \A o \in OpSet(log[n]) : o \in OpsOf(AllLogs)
    BY DEF OpsOf, AllLogs
  <2>2. \A o \in OpsOf(AllLogs) : o.time <= made[o.node]
    BY DEF CausalHistory
  <2>3. made[n] \in Nat
    BY DEF TypeOK
  <2>4. ASSUME NEW o \in OpSet(log[n]), Id(o) = <<n, made[n] + 1>> PROVE FALSE
    <3>1. o.node = n /\ o.time = made[n] + 1
      BY <2>4 DEF Id
    <3>2. o.time <= made[o.node]
      BY <2>1, <2>2
    <3>3. QED
      BY <2>3, <3>1, <3>2
  <2>5. QED
    BY <1>1, <1>2, <2>4, IdsOfOps
<1>7. Gains(log'[n], log[n])
  BY <1>5, <1>6 DEF Gains
<1>8. QED
  BY <1>1, <1>2, <1>3, <1>4, <1>5, <1>6, <1>7 DEF new
-----------------------------------------------------------------------------
\* Claim and Complete answer success only for what tasks.json holds.
THEOREM AckedSurvives == Spec => []AckedOnDisk
<1>1. Init => OnDisk
  BY DEF Init, OnDisk, Behind, HooksKnown, WorkKnown, AckedOnDisk, IdSet
<1>2. TypeOK /\ CausalHistory /\ OnDisk /\ [Next]_vars => OnDisk'
  <2> SUFFICES ASSUME TypeOK, CausalHistory, OnDisk, [Next]_vars PROVE OnDisk'
    OBVIOUS
  <2>0. \A n \in Node : Gains(log[n], log[n])
    BY DEF Gains
  <2>a. ASSUME NEW h PROVE h \in hooks => \A n \in Node : HookJustified(n, h)
    BY DEF HookJustified
  <2>1. ASSUME NEW n \in Node, Create(n) PROVE OnDisk'
    <3> DEFINE op == NewOp(n, "create", NoAgent)
    <3>1. op \in Op /\ op.time = made[n] + 1 /\ op.node = n /\ op.kind = "create"
      BY DEF NewOp, Op, TypeOK
    <3>2. Add(n, op) /\ UNCHANGED <<disk, busy>> /\ hooks' = hooks \cup {NewHook(n, op, "save")}
      BY <2>1 DEF Create
    <3>3. NewHook(n, op, "save").node = n /\ NewHook(n, op, "save").time = made[n] + 1
      BY <3>1 DEF NewHook
    <3> HIDE DEF op
    <3>4. StoreStep(n)
      BY <3>1, <3>2, AddOutcome DEF StoreStep
    <3>5. HookJustified(n, NewHook(n, op, "save"))
      <4>1. \A o \in OpSet(log[n]) : Id(o) \in IdSet(log[n])
        BY IdsOfOps
      <4>2. \A o \in OpSet(log'[n]) : Id(o) = <<n, made[n] + 1>> => o.kind \notin Answered
        <5>1. /\ OpSet(log'[n]) = OpSet(log[n]) \cup {Stamp(op, clock[n])}
              /\ Stamp(op, clock[n]).kind = "create" /\ <<n, made[n] + 1>> \notin IdSet(log[n])
          BY <3>1, <3>2, AddOutcome
        <5>2. QED
          BY <4>1, <5>1 DEF Answered
      <4>3. QED
        BY <3>1, <3>2, <3>3, <4>2, AddOutcome DEF HookJustified
    <3>6. \A k \in Node : busy'[k] = "working" =>
            (busy[k] = "working" /\ made'[k] = made[k]) \/ <<k, made'[k]>> \in IdSet(log'[k])
      BY <3>1, <3>2, AddOutcome DEF TypeOK
    <3>7. QED
      BY <2>a, <3>2, <3>4, <3>5, <3>6, StoreStepOnDisk
  <2>2. ASSUME NEW h \in hooks, NEW ok \in BOOLEAN, CreateSave(h, ok) PROVE OnDisk'
    <3>1. h.node \in Node
      BY DEF TypeOK, Hook
    <3>2. /\ UNCHANGED <<log, busy, made>> /\ SaveLocked(h.node, ok)
          /\ hooks' = (hooks \ {h}) \cup {[h EXCEPT !.stage = "get"]}
      BY <2>2 DEF CreateSave
    <3>3. StoreStep(h.node)
      BY <2>0, <3>1, <3>2, SaveOutcome DEF StoreStep
    <3>4. [h EXCEPT !.stage = "get"].node = h.node /\ [h EXCEPT !.stage = "get"].time = h.time
      BY DEF TypeOK, Hook
    <3>5. HookJustified(h.node, [h EXCEPT !.stage = "get"])
      BY <3>4 DEF HookJustified
    <3>6. QED
      BY <2>a, <3>1, <3>2, <3>3, <3>5, StoreStepOnDisk
  <2>3. ASSUME NEW n \in Node, NEW a \in Agent, NEW ok \in BOOLEAN, Claim(n, a, ok) PROVE OnDisk'
    <3> DEFINE op == NewOp(n, "claim", a)
    <3>1. op \in Op /\ op.time = made[n] + 1 /\ op.node = n
      BY DEF NewOp, Op, TypeOK
    <3>2. Add(n, op) /\ SaveLocked(n, ok) /\ Dispatch(n, op, ok) /\ UNCHANGED busy /\ busy[n] = "free"
      BY <2>3 DEF Claim
    <3>3. NewHook(n, op, "get").node = n /\ NewHook(n, op, "get").time = made[n] + 1
      BY <3>1 DEF NewHook
    <3> HIDE DEF op
    <3>4. StoreStep(n)
      BY <3>1, <3>2, AddOutcome, SaveOutcome DEF StoreStep
    <3>5. ok => HookJustified(n, NewHook(n, op, "get"))
      BY <3>1, <3>2, <3>3, AddOutcome, SaveOutcome DEF HookJustified
    <3>6. \A h \in hooks' : HookJustified(n, h)
      BY <2>a, <3>2, <3>5 DEF Dispatch
    <3>7. \A k \in Node : busy'[k] = "working" => busy[k] = "working" /\ made'[k] = made[k]
      BY <3>1, <3>2, AddOutcome, ZenonT(60) DEF TypeOK
    <3>8. QED
      BY <3>4, <3>6, <3>7, StoreStepOnDisk
  <2>4. ASSUME NEW n \in Node, NEW r \in Result \cup {NoResult}, Complete(n, r) PROVE OnDisk'
    <3> DEFINE op == NewOp(n, "complete", view[n].claimedBy)
    <3>1. op \in Op /\ op.time = made[n] + 1 /\ op.node = n
      BY DEF NewOp, Op, TypeOK, View
    <3>2. Add(n, op) /\ UNCHANGED <<disk, hooks>> /\ busy' = [busy EXCEPT ![n] = "working"]
      BY <2>4 DEF Complete
    <3> HIDE DEF op
    <3>3. StoreStep(n)
      BY <3>1, <3>2, AddOutcome DEF StoreStep
    <3>4. \A k \in Node : busy'[k] = "working" =>
            (busy[k] = "working" /\ made'[k] = made[k]) \/ <<k, made'[k]>> \in IdSet(log'[k])
      BY <3>1, <3>2, AddOutcome, ZenonT(60) DEF TypeOK
    <3>5. QED
      BY <2>a, <3>2, <3>3, <3>4, StoreStepOnDisk
  <2>5. ASSUME NEW n \in Node, NEW ok \in BOOLEAN, FinishComplete(n, ok) PROVE OnDisk'
    <3> DEFINE op == NewOp(n, "result", view[n].result)
               hook == NewHook(n, op, "get")
               done == NewHook(n, [op EXCEPT !.time = made[n]], "get")
    <3>1. /\ view[n].result # NoResult => op \in Op
          /\ op.time = made[n] + 1 /\ op.node = n
          /\ hook.node = n /\ hook.time = made[n] + 1 /\ done.node = n /\ done.time = made[n]
      BY DEF NewOp, Op, TypeOK, View, NewHook
    <3>2. /\ SaveLocked(n, ok) /\ busy[n] = "working" /\ busy' = [busy EXCEPT ![n] = "free"]
          /\ \/ /\ view[n].result # NoResult /\ Add(n, op)
                /\ hooks' = IF ok THEN hooks \cup {hook} ELSE hooks
             \/ /\ UNCHANGED <<log, clock, made, hb>>
                /\ hooks' = IF ok THEN hooks \cup {done} ELSE hooks
      BY <2>5 DEF FinishComplete, Dispatch
    <3> HIDE DEF op, hook, done
    <3>3. CASE /\ view[n].result # NoResult /\ Add(n, op)
               /\ hooks' = IF ok THEN hooks \cup {hook} ELSE hooks
      <4>1. StoreStep(n)
        BY <3>1, <3>2, <3>3, AddOutcome, SaveOutcome DEF StoreStep
      <4>2. ok => HookJustified(n, hook)
        BY <3>1, <3>2, <3>3, AddOutcome, SaveOutcome DEF HookJustified
      <4>3. \A h \in hooks' : HookJustified(n, h)
        BY <2>a, <3>3, <4>2
      <4>4. \A k \in Node : busy'[k] = "working" => busy[k] = "working" /\ made'[k] = made[k]
        BY <3>1, <3>2, <3>3, AddOutcome, ZenonT(60) DEF TypeOK
      <4>5. QED
        BY <4>1, <4>3, <4>4, StoreStepOnDisk
    <3>4. CASE /\ UNCHANGED <<log, clock, made, hb>>
               /\ hooks' = IF ok THEN hooks \cup {done} ELSE hooks
      <4>1. StoreStep(n)
        BY <2>0, <3>2, <3>4, SaveOutcome DEF StoreStep
      <4>2. ok => HookJustified(n, done)
        BY <3>1, <3>2, <3>4, SaveOutcome DEF HookJustified, OnDisk, WorkKnown
      <4>3. \A h \in hooks' : HookJustified(n, h)
        BY <2>a, <3>4, <4>2
      <4>4. \A k \in Node : busy'[k] = "working" => busy[k] = "working" /\ made'[k] = made[k]
        BY <3>2, <3>4 DEF TypeOK
      <4>5. QED
        BY <4>1, <4>3, <4>4, StoreStepOnDisk
    <3>5. QED
      BY <3>2, <3>3, <3>4
  <2>6. ASSUME NEW h \in hooks, HookGet(h) PROVE OnDisk'
    <3>1. h.node \in Node
      BY DEF TypeOK, Hook
    <3>2. /\ UNCHANGED <<log, disk, busy, made>>
          /\ hooks' = (hooks \ {h}) \cup {[h EXCEPT !.stage = "marshal", !.view = view[h.node]]}
      BY <2>6 DEF HookGet, Visible, storeVars
    <3> DEFINE new == [h EXCEPT !.stage = "marshal", !.view = view[h.node]]
    <3>3. new.node = h.node /\ new.time = h.time
      BY DEF TypeOK, Hook
    <3> HIDE DEF new
    <3>4. HookJustified(h.node, new)
      BY <3>3 DEF HookJustified
    <3>5. StoreStep(h.node)
      BY <2>0, <3>1, <3>2 DEF StoreStep
    <3>6. QED
      BY <2>a, <3>1, <3>2, <3>4, <3>5, StoreStepOnDisk DEF new
  <2>7. ASSUME NEW h \in hooks, NEW ok \in BOOLEAN, HookPublish(h, ok) PROVE OnDisk'
    <3>1. h.node \in Node /\ UNCHANGED <<log, disk, busy, made>> /\ hooks' \subseteq hooks
      BY <2>7 DEF HookPublish, storeVars, TypeOK, Hook
    <3>2. StoreStep(h.node)
      BY <2>0, <3>1 DEF StoreStep
    <3>3. QED
      BY <2>a, <3>1, <3>2, StoreStepOnDisk
  <2>8. ASSUME NEW n \in Node, NEW m \in net, NEW ok \in BOOLEAN, Adopt(n, m, ok) PROVE OnDisk'
    <3>1. /\ log' = [log EXCEPT ![n] = m.ops] /\ log[n] = <<>>
          /\ SaveLocked(n, ok) /\ UNCHANGED <<busy, hooks, made>>
      BY <2>8 DEF Adopt, Decode
    <3>2. Gains(log'[n], log[n])
      <4>1. IdSet(log[n]) = {}
        BY <3>1 DEF IdSet
      <4>2. QED
        BY <4>1 DEF Gains
    <3>3. StoreStep(n)
      BY <3>1, <3>2, SaveOutcome DEF StoreStep, TypeOK
    <3>4. QED
      BY <2>a, <3>1, <3>3, StoreStepOnDisk
  <2>9. ASSUME NEW n \in Node, NEW m \in net, StartMerge(n, m) PROVE OnDisk'
    <3>1. UNCHANGED <<log, disk, hooks, made>> /\ busy' = [busy EXCEPT ![n] = "merging"]
      BY <2>9 DEF StartMerge
    <3>2. StoreStep(n)
      BY <2>0, <3>1 DEF StoreStep
    <3>3. \A k \in Node : busy'[k] = "working" => busy[k] = "working" /\ made'[k] = made[k]
      BY <3>1 DEF TypeOK
    <3>4. QED
      BY <2>a, <3>1, <3>2, <3>3, StoreStepOnDisk
  <2>10. ASSUME NEW n \in Node, ImportNext(n) PROVE OnDisk'
    <3>1. PICK i \in DOMAIN rest[n] :
            /\ Id(rest[n][i]) \notin IdSet(log[n])
            /\ log' = [log EXCEPT ![n] = Append(@, rest[n][i])]
      BY <2>10 DEF ImportNext
    <3>2. UNCHANGED <<disk, busy, hooks, made>>
      BY <2>10 DEF ImportNext
    <3>3. rest[n][i] \in Op /\ log[n] \in Seq(Op) /\ log'[n] = Append(log[n], rest[n][i])
      BY <3>1 DEF TypeOK
    <3>4. /\ OpSet(log'[n]) = OpSet(log[n]) \cup {rest[n][i]}
          /\ IdSet(log'[n]) = IdSet(log[n]) \cup {Id(rest[n][i])}
      BY <3>3, AppendOp
    <3>5. Gains(log'[n], log[n])
      BY <3>1, <3>4 DEF Gains
    <3>6. StoreStep(n)
      BY <3>1, <3>2, <3>5 DEF StoreStep, TypeOK
    <3>7. QED
      BY <2>a, <3>2, <3>6, StoreStepOnDisk
  <2>11. ASSUME NEW n \in Node, NEW ok \in BOOLEAN, FinishMerge(n, ok) PROVE OnDisk'
    <3>1. /\ UNCHANGED <<log, hooks, made>> /\ SaveLocked(n, ok)
          /\ busy' = [busy EXCEPT ![n] = "free"]
      BY <2>11 DEF FinishMerge
    <3>2. StoreStep(n)
      BY <2>0, <3>1, SaveOutcome DEF StoreStep
    <3>3. \A k \in Node : busy'[k] = "working" => busy[k] = "working" /\ made'[k] = made[k]
      BY <3>1 DEF TypeOK
    <3>4. QED
      BY <2>a, <3>1, <3>2, <3>3, StoreStepOnDisk
  <2>12. ASSUME NEW n \in Node, Crash(n) PROVE OnDisk'
    <3>1. /\ log' = [log EXCEPT ![n] = disk[n].ops] /\ busy' = [busy EXCEPT ![n] = "free"]
          /\ hooks' = {h \in hooks : h.node # n} /\ UNCHANGED <<disk, made>>
      BY <2>12 DEF Crash, Decode
    <3>2. log'[n] = disk[n].ops /\ \A k \in Node \ {n} : log'[k] = log[k]
      BY <3>1 DEF TypeOK
    <3>3. \A h \in hooks' : h \in hooks /\ h.node \in Node \ {n}
      BY <3>1 DEF TypeOK, Hook
    <3>4. Behind' /\ HooksKnown'
      BY <3>1, <3>2, <3>3 DEF OnDisk, Behind, HooksKnown
    <3>5. WorkKnown'
      BY <3>1, <3>2 DEF OnDisk, WorkKnown, TypeOK
    <3>6. AckedOnDisk'
      BY <3>1, <3>2, <3>3 DEF OnDisk, AckedOnDisk
    <3>7. QED
      BY <3>4, <3>5, <3>6 DEF OnDisk
  <2>13. ASSUME NEW n \in Node, SaveElse(n) PROVE OnDisk'
    <3>1. /\ disk' = [disk EXCEPT ![n] = [view |-> view[n], ops |-> log[n]]]
          /\ UNCHANGED <<log, busy, hooks, made>>
      BY <2>13 DEF SaveElse
    <3>2. StoreStep(n)
      BY <2>0, <3>1 DEF StoreStep, TypeOK
    <3>3. QED
      BY <2>a, <3>1, <3>2, StoreStepOnDisk
  <2>14. CASE UNCHANGED vars
    BY <2>14 DEF vars, OnDisk, Behind, HooksKnown, WorkKnown, AckedOnDisk
  <2>15. QED
    BY <2>1, <2>2, <2>3, <2>4, <2>5, <2>6, <2>7, <2>8, <2>9, <2>10, <2>11, <2>12, <2>13, <2>14
       DEF Next, Request, Publish, Receive
<1>3. OnDisk => AckedOnDisk
  BY DEF OnDisk
<1>4. QED
  BY <1>1, <1>2, <1>3, TypeCorrect, HistoryIsCausal, PTL DEF Spec
-----------------------------------------------------------------------------
\* The operations in ops account for the fields v.
Backs(v, ops) ==
  /\ v.status # "open" => \E o \in OpSet(ops) : o.kind = "claim" /\ o.arg = v.claimedBy
  /\ v.status = "completed" => \E o \in OpSet(ops) : o.kind = "complete"

\* A completion comes after a claim in the log it is in.
ClaimFirst(L) ==
  \A j \in DOMAIN L : L[j].kind = "complete" => \E i \in 1 .. j - 1 : L[i].kind = "claim"

\* The same of what is in memory, in tasks.json, on its way out and published.
Backed ==
  /\ \A n \in Node : Backs(view[n], log[n]) /\ Backs(disk[n].view, disk[n].ops)
  /\ \A h \in hooks : h.stage = "marshal" => Backs(h.view, log[h.node])
  /\ \A m \in net : Backs(m.view, m.ops)
  /\ \A L \in AllLogs : ClaimFirst(L)

LEMMA BacksMore ==
  ASSUME NEW v, NEW K, NEW L, Backs(v, K), OpSet(K) \subseteq OpSet(L)
  PROVE  Backs(v, L)
  BY DEF Backs

\* A step of one store that loses no operation.
BackedChange(n) ==
  /\ \A k \in Node \ {n} : log'[k] = log[k] /\ view'[k] = view[k] /\ disk'[k] = disk[k]
  /\ OpSet(log[n]) \subseteq OpSet(log'[n])
  /\ Backs(view'[n], log'[n]) /\ ClaimFirst(log'[n])
  /\ disk'[n] = disk[n] \/ disk'[n] = [view |-> view'[n], ops |-> log'[n]]
  /\ UNCHANGED net

\* A hook of before, or one that has not read the fields yet, or just has.
HookBacked(n, h) == h.stage # "marshal" \/ h \in hooks \/ (h.node = n /\ Backs(h.view, log'[n]))

LEMMA BackedStep ==
  ASSUME TypeOK, Backed, NEW n \in Node, BackedChange(n), \A h \in hooks' : HookBacked(n, h)
  PROVE  Backed'
<1>1. \A k \in Node : Backs(view'[k], log'[k])
  BY DEF Backed, BackedChange
<1>2. \A k \in Node : Backs(disk'[k].view, disk'[k].ops)
  <2>1. CASE disk'[n] = disk[n]
    BY <2>1 DEF Backed, BackedChange
  <2>2. CASE disk'[n] = [view |-> view'[n], ops |-> log'[n]]
    <3>1. disk'[n].view = view'[n] /\ disk'[n].ops = log'[n]
      BY <2>2
    <3>2. QED
      BY <1>1, <3>1 DEF Backed, BackedChange
  <2>3. QED
    BY <2>1, <2>2 DEF BackedChange
<1>3. ASSUME NEW h \in hooks', h.stage = "marshal" PROVE Backs(h.view, log'[h.node])
  <2>1. CASE h \in hooks
    <3>1. h.node \in Node /\ Backs(h.view, log[h.node])
      BY <1>3, <2>1 DEF Backed, TypeOK, Hook
    <3>2. OpSet(log[h.node]) \subseteq OpSet(log'[h.node])
      BY <3>1 DEF BackedChange
    <3>3. QED
      BY <3>1, <3>2, BacksMore
  <2>2. QED
    BY <1>3, <2>1 DEF HookBacked
<1>4. \A m \in net' : Backs(m.view, m.ops)
  BY DEF Backed, BackedChange
<1>5. \A L \in AllLogs' : ClaimFirst(L)
  <2>1. disk'[n].ops = disk[n].ops \/ disk'[n].ops = log'[n]
    BY DEF BackedChange
  <2>2. AllLogs' \subseteq AllLogs \cup {log'[n]}
    BY <2>1, LogsAfter DEF BackedChange
  <2>3. QED
    BY <2>2 DEF Backed, BackedChange
<1>6. QED
  BY <1>1, <1>2, <1>3, <1>4, <1>5 DEF Backed

\* An operation other than a completion without a claim leaves claims first.
LEMMA ClaimFirstAppend ==
  ASSUME NEW L \in Seq(Op), NEW op \in Op, ClaimFirst(L),
         op.kind = "complete" => \E o \in OpSet(L) : o.kind = "claim"
  PROVE  ClaimFirst(Append(L, op))
<1> DEFINE new == Append(L, op)
<1>1. /\ DOMAIN new = DOMAIN L \cup {Len(L) + 1} /\ DOMAIN L = 1 .. Len(L)
      /\ \A i \in DOMAIN L : new[i] = L[i]
      /\ new[Len(L) + 1] = op
  BY AppendOp
<1> HIDE DEF new
<1>2. ASSUME NEW j \in DOMAIN new, new[j].kind = "complete"
      PROVE  \E i \in 1 .. j - 1 : new[i].kind = "claim"
  <2>1. CASE j \in DOMAIN L
    <3>1. PICK i \in 1 .. j - 1 : L[i].kind = "claim"
      BY <1>1, <1>2, <2>1 DEF ClaimFirst
    <3>2. i \in DOMAIN L
      BY <1>1, <2>1
    <3>3. QED
      BY <1>1, <3>1, <3>2
  <2>2. CASE j = Len(L) + 1
    <3>1. PICK i \in DOMAIN L : L[i].kind = "claim"
      BY <1>1, <1>2, <2>2 DEF OpSet
    <3>2. i \in 1 .. j - 1
      BY <1>1, <2>2
    <3>3. QED
      BY <1>1, <3>1, <3>2
  <2>3. QED
    BY <1>1, <2>1, <2>2
<1>3. QED
  BY <1>2 DEF ClaimFirst, new

\* Task.applyOperations: what it leaves follows from operations of the log.
LEMMA ReplayBacked ==
  ASSUME NEW old, NEW L \in Seq(Op), ClaimFirst(L)
  PROVE  Backs(Replay(old, OpSet(L)), L)
<1> DEFINE S == OpSet(L)
           moves == OfKind(S, {"claim", "complete"})
           claims == OfKind(S, {"claim"})
           new == Replay(old, S)
<1>1. IsFiniteSet(S) /\ S \subseteq Op
  BY OpSetFinite
<1>2. \A o \in S : o.kind = "complete" => claims # {}
  <2>1. \A i \in DOMAIN L : L[i] \in S
    BY DEF OpSet
  <2>2. ASSUME NEW j \in DOMAIN L, L[j].kind = "complete" PROVE claims # {}
    <3>1. PICK i \in 1 .. j - 1 : L[i].kind = "claim"
      BY <2>2 DEF ClaimFirst
    <3>2. i \in DOMAIN L
      OBVIOUS
    <3>3. QED
      BY <2>1, <3>1, <3>2 DEF OfKind
  <2>3. QED
    BY <2>2 DEF OpSet
<1> HIDE DEF S
<1>3. claims # {} => Last(claims) \in claims
  <2>1. IsFiniteSet(claims) /\ \A o \in claims : Ordered(o)
    BY <1>1, FS_Subset, OpIsOrdered DEF OfKind
  <2>2. QED
    BY <2>1, LastExists
<1>4. moves # {} => Last(moves) \in moves
  <2>1. IsFiniteSet(moves) /\ \A o \in moves : Ordered(o)
    BY <1>1, FS_Subset, OpIsOrdered DEF OfKind
  <2>2. QED
    BY <2>1, LastExists
<1>5. moves # {} => claims # {}
  BY <1>2 DEF OfKind
<1>6. /\ new.status # "open" => moves # {}
      /\ new.status = "completed" => moves # {} /\ Last(moves).kind # "claim"
      /\ claims # {} => new.claimedBy = Last(claims).arg
  BY DEF Replay
<1> HIDE DEF new
<1>7. new.status # "open" => \E o \in S : o.kind = "claim" /\ o.arg = new.claimedBy
  BY <1>3, <1>5, <1>6 DEF OfKind
<1>8. new.status = "completed" => \E o \in S : o.kind = "complete"
  BY <1>4, <1>6 DEF OfKind
<1>9. QED
  BY <1>7, <1>8 DEF Backs, new, S
-----------------------------------------------------------------------------
\* The fields a store or its file shows have operations behind them.
THEOREM ViewHasLog == Spec => []ViewSupported
<1>1. Init => Backed
  <2> SUFFICES ASSUME Init PROVE Backed
    OBVIOUS
  <2>1. /\ \A L \in AllLogs : L = <<>>
        /\ \A n \in Node : view[n].status = "open" /\ disk[n].view.status = "open"
        /\ hooks = {} /\ net = {}
    BY DEF Init, AllLogs, OpenView
  <2>2. QED
    BY <2>1 DEF Backed, Backs, ClaimFirst
<1>2. TypeOK /\ CausalHistory /\ Backed /\ [Next]_vars => Backed'
  <2> SUFFICES ASSUME TypeOK, CausalHistory, Backed, [Next]_vars PROVE Backed'
    OBVIOUS
  <2>0. \A n \in Node : Backs(view[n], log[n]) /\ ClaimFirst(log[n])
    BY DEF Backed, AllLogs
  <2>a. ASSUME NEW h PROVE h \in hooks \/ h.stage # "marshal" => \A n \in Node : HookBacked(n, h)
    BY DEF HookBacked
  <2>1. ASSUME NEW n \in Node, Create(n) PROVE Backed'
    <3> DEFINE op == NewOp(n, "create", NoAgent)
               hook == NewHook(n, op, "save")
               new == Stamp(op, clock[n])
    <3>1. op \in Op /\ op.time = made[n] + 1 /\ op.node = n /\ op.kind = "create"
      BY DEF NewOp, Op, TypeOK
    <3>2. Add(n, op) /\ UNCHANGED <<view, disk, net>> /\ hooks' = hooks \cup {hook}
      BY <2>1 DEF Create
    <3>3. hook.stage = "save"
      BY DEF NewHook
    <3> HIDE DEF op, hook
    <3>4. /\ \A k \in Node \ {n} : log'[k] = log[k]
          /\ log'[n] = Append(log[n], new) /\ OpSet(log'[n]) = OpSet(log[n]) \cup {new}
          /\ new \in Op /\ new.kind = "create"
      BY <3>1, <3>2, AddOutcome
    <3> HIDE DEF new
    <3>5. ClaimFirst(log'[n])
      BY <2>0, <3>4, ClaimFirstAppend DEF TypeOK
    <3>6. Backs(view'[n], log'[n])
      BY <2>0, <3>2, <3>4, BacksMore
    <3>7. BackedChange(n)
      BY <3>2, <3>4, <3>5, <3>6 DEF BackedChange
    <3>8. QED
      BY <2>a, <3>2, <3>3, <3>7, BackedStep
  <2>2. ASSUME NEW h \in hooks, NEW ok \in BOOLEAN, CreateSave(h, ok) PROVE Backed'
    <3>1. h.node \in Node /\ [h EXCEPT !.stage = "get"].stage = "get"
      BY DEF TypeOK, Hook
    <3>2. /\ UNCHANGED <<log, view, net>> /\ SaveLocked(h.node, ok)
          /\ hooks' = (hooks \ {h}) \cup {[h EXCEPT !.stage = "get"]}
      BY <2>2 DEF CreateSave
    <3>3. BackedChange(h.node)
      BY <2>0, <3>1, <3>2, SaveOutcome DEF BackedChange
    <3>4. QED
      BY <2>a, <3>1, <3>2, <3>3, BackedStep
  <2>3. ASSUME NEW n \in Node, NEW a \in Agent, NEW ok \in BOOLEAN, Claim(n, a, ok) PROVE Backed'
    <3> DEFINE op == NewOp(n, "claim", a)
               new == Stamp(op, clock[n])
    <3>1. /\ op \in Op /\ op.time = made[n] + 1 /\ op.node = n
          /\ op.kind = "claim" /\ op.arg = a
      BY DEF NewOp, Op, TypeOK
    <3>2. /\ Add(n, op) /\ SaveLocked(n, ok) /\ Dispatch(n, op, ok) /\ UNCHANGED net
          /\ view' = [view EXCEPT ![n].status = "claimed", ![n].claimedBy = a]
      BY <2>3 DEF Claim
    <3>3. NewHook(n, op, "get").stage = "get"
      BY DEF NewHook
    <3> HIDE DEF op
    <3>4. /\ \A k \in Node \ {n} : log'[k] = log[k]
          /\ log'[n] = Append(log[n], new) /\ OpSet(log'[n]) = OpSet(log[n]) \cup {new}
          /\ new \in Op /\ new.kind = "claim" /\ new.arg = a
      BY <3>1, <3>2, AddOutcome
    <3> HIDE DEF new
    <3>5. ClaimFirst(log'[n])
      BY <2>0, <3>4, ClaimFirstAppend DEF TypeOK
    <3>6. /\ view'[n].status = "claimed" /\ view'[n].claimedBy = a
          /\ \A k \in Node \ {n} : view'[k] = view[k]
      BY <3>2 DEF TypeOK, View
    <3>7. Backs(view'[n], log'[n])
      BY <3>4, <3>6 DEF Backs
    <3>8. BackedChange(n)
      BY <3>2, <3>4, <3>5, <3>6, <3>7, SaveOutcome DEF BackedChange
    <3>9. QED
      BY <2>a, <3>2, <3>3, <3>8, BackedStep DEF Dispatch
  <2>4. ASSUME NEW n \in Node, NEW r \in Result \cup {NoResult}, Complete(n, r) PROVE Backed'
    <3> DEFINE op == NewOp(n, "complete", view[n].claimedBy)
               new == Stamp(op, clock[n])
    <3>1. op \in Op /\ op.time = made[n] + 1 /\ op.node = n /\ op.kind = "complete"
      BY DEF NewOp, Op, TypeOK, View
    <3>2. /\ Add(n, op) /\ UNCHANGED <<disk, hooks, net>> /\ view[n].status = "claimed"
          /\ view' = [view EXCEPT ![n].status = "completed", ![n].result = r]
      BY <2>4 DEF Complete
    <3> HIDE DEF op
    <3>3. /\ \A k \in Node \ {n} : log'[k] = log[k]
          /\ log'[n] = Append(log[n], new) /\ OpSet(log'[n]) = OpSet(log[n]) \cup {new}
          /\ new \in Op /\ new.kind = "complete"
      BY <3>1, <3>2, AddOutcome
    <3> HIDE DEF new
    <3>4. PICK c \in OpSet(log[n]) : c.kind = "claim" /\ c.arg = view[n].claimedBy
      BY <2>0, <3>2 DEF Backs
    <3>5. ClaimFirst(log'[n])
      BY <2>0, <3>3, <3>4, ClaimFirstAppend DEF TypeOK
    <3>6. /\ view'[n].status = "completed" /\ view'[n].claimedBy = view[n].claimedBy
          /\ \A k \in Node \ {n} : view'[k] = view[k]
      BY <3>2 DEF TypeOK, View
    <3>7. Backs(view'[n], log'[n])
      BY <3>3, <3>4, <3>6 DEF Backs
    <3>8. BackedChange(n)
      BY <3>2, <3>3, <3>5, <3>6, <3>7 DEF BackedChange
    <3>9. QED
      BY <2>a, <3>2, <3>8, BackedStep
  <2>5. ASSUME NEW n \in Node, NEW ok \in BOOLEAN, FinishComplete(n, ok) PROVE Backed'
    <3> DEFINE op == NewOp(n, "result", view[n].result)
               new == Stamp(op, clock[n])
    <3>1. /\ view[n].result # NoResult => op \in Op
          /\ op.time = made[n] + 1 /\ op.node = n /\ op.kind = "result"
      BY DEF NewOp, Op, TypeOK, View
    <3>2. /\ SaveLocked(n, ok) /\ UNCHANGED <<view, net>>
          /\ (view[n].result # NoResult /\ Add(n, op)) \/ UNCHANGED log
          /\ \A h \in hooks' : h \in hooks \/ h.stage = "get"
      BY <2>5 DEF FinishComplete, Dispatch, NewHook
    <3> HIDE DEF op
    <3>3. /\ \A k \in Node \ {n} : log'[k] = log[k]
          /\ OpSet(log[n]) \subseteq OpSet(log'[n]) /\ ClaimFirst(log'[n])
      <4>1. CASE view[n].result # NoResult /\ Add(n, op)
        <5>1. /\ \A k \in Node \ {n} : log'[k] = log[k]
              /\ log'[n] = Append(log[n], new) /\ OpSet(log'[n]) = OpSet(log[n]) \cup {new}
              /\ new \in Op /\ new.kind = "result"
          BY <3>1, <4>1, AddOutcome
        <5> HIDE DEF new
        <5>2. ClaimFirst(log'[n])
          BY <2>0, <5>1, ClaimFirstAppend DEF TypeOK
        <5>3. QED
          BY <5>1, <5>2
      <4>2. CASE UNCHANGED log
        BY <2>0, <4>2
      <4>3. QED
        BY <3>2, <4>1, <4>2
    <3>4. BackedChange(n)
      BY <2>0, <3>2, <3>3, SaveOutcome, BacksMore DEF BackedChange
    <3>5. QED
      BY <2>a, <3>2, <3>4, BackedStep
  <2>6. ASSUME NEW h \in hooks, HookGet(h) PROVE Backed'
    <3> DEFINE new == [h EXCEPT !.stage = "marshal", !.view = view[h.node]]
    <3>1. h.node \in Node /\ new.node = h.node /\ new.view = view[h.node]
      BY DEF TypeOK, Hook
    <3>2. UNCHANGED <<log, view, disk, net>> /\ hooks' = (hooks \ {h}) \cup {new}
      BY <2>6 DEF HookGet, Visible, storeVars
    <3> HIDE DEF new
    <3>3. BackedChange(h.node)
      BY <2>0, <3>1, <3>2 DEF BackedChange
    <3>4. HookBacked(h.node, new)
      BY <2>0, <3>1, <3>2 DEF HookBacked
    <3>5. QED
      BY <2>a, <3>1, <3>2, <3>3, <3>4, BackedStep
  <2>7. ASSUME NEW h \in hooks, NEW ok \in BOOLEAN, HookPublish(h, ok) PROVE Backed'
    <3> DEFINE m == [from |-> h.node, view |-> h.view, ops |-> log[h.node]]
    <3>1. h.node \in Node /\ m.view = h.view /\ m.ops = log[h.node]
      BY DEF TypeOK, Hook
    <3>2. /\ net' \subseteq net \cup {m} /\ hooks' \subseteq hooks
          /\ UNCHANGED <<log, view, disk>> /\ h.stage = "marshal"
      BY <2>7 DEF HookPublish, storeVars
    <3> HIDE DEF m
    <3>3. AllLogs' \subseteq AllLogs
      BY <3>1, <3>2 DEF AllLogs
    <3>4. \A s \in net' : Backs(s.view, s.ops)
      BY <3>1, <3>2 DEF Backed
    <3>5. QED
      BY <3>2, <3>3, <3>4 DEF Backed
  <2>8. ASSUME NEW n \in Node, NEW m \in net, NEW ok \in BOOLEAN, Adopt(n, m, ok) PROVE Backed'
    <3>1. /\ log[n] = <<>> /\ log' = [log EXCEPT ![n] = m.ops]
          /\ view' = [view EXCEPT ![n] = m.view]
          /\ SaveLocked(n, ok) /\ UNCHANGED <<hooks, net>>
      BY <2>8 DEF Adopt, Decode
    <3>2. /\ log'[n] = m.ops /\ view'[n] = m.view
          /\ \A k \in Node \ {n} : log'[k] = log[k] /\ view'[k] = view[k]
      BY <3>1 DEF TypeOK
    <3>3. Backs(view'[n], log'[n]) /\ ClaimFirst(log'[n])
      BY <3>2 DEF Backed, AllLogs
    <3>4. OpSet(log[n]) \subseteq OpSet(log'[n])
      BY <3>1 DEF OpSet
    <3>5. BackedChange(n)
      BY <3>1, <3>2, <3>3, <3>4, SaveOutcome DEF BackedChange
    <3>6. QED
      BY <2>a, <3>1, <3>5, BackedStep
  <2>9. ASSUME NEW n \in Node, NEW m \in net, StartMerge(n, m) PROVE Backed'
    <3>1. UNCHANGED <<log, view, disk, hooks, net>>
      BY <2>9 DEF StartMerge
    <3>2. BackedChange(n)
      BY <2>0, <3>1 DEF BackedChange
    <3>3. QED
      BY <2>a, <3>1, <3>2, BackedStep
  <2>10. ASSUME NEW n \in Node, ImportNext(n) PROVE Backed'
    <3>1. PICK i \in DOMAIN rest[n] :
            /\ \A j \in 1 .. i - 1 : Id(rest[n][j]) \in IdSet(log[n])
            /\ log' = [log EXCEPT ![n] = Append(@, rest[n][i])]
      BY <2>10 DEF ImportNext
    <3> DEFINE op == rest[n][i]
    <3>2. UNCHANGED <<view, disk, hooks, net>>
      BY <2>10 DEF ImportNext
    <3>3. /\ rest[n] \in Seq(Op) /\ op \in Op /\ log[n] \in Seq(Op)
          /\ log'[n] = Append(log[n], op) /\ \A k \in Node \ {n} : log'[k] = log[k]
      BY <3>1 DEF TypeOK
    <3>4. rest[n] \in AllLogs /\ log[n] \in AllLogs
      BY DEF CausalHistory, Decode, AllLogs
    <3>5. op.kind = "complete" => \E o \in OpSet(log[n]) : o.kind = "claim"
      <4>1. ASSUME op.kind = "complete" PROVE \E o \in OpSet(log[n]) : o.kind = "claim"
        <5>1. PICK j \in 1 .. i - 1 : rest[n][j].kind = "claim"
          BY <3>4, <4>1 DEF Backed, ClaimFirst
        <5>2. j \in DOMAIN rest[n]
          BY <3>3
        <5>3. PICK o \in OpSet(log[n]) : Id(o) = Id(rest[n][j])
          BY <3>1, <5>1, IdsOfOps
        <5>4. rest[n][j] \in OpsOf(AllLogs) /\ o \in OpsOf(AllLogs)
          BY <3>4, <5>2 DEF OpsOf, OpSet
        <5>5. o = rest[n][j]
          BY <5>3, <5>4 DEF CausalHistory, Causal
        <5>6. QED
          BY <5>1, <5>3, <5>5
      <4>2. QED
        BY <4>1
    <3> HIDE DEF op
    <3>6. ClaimFirst(log'[n])
      BY <2>0, <3>3, <3>5, ClaimFirstAppend
    <3>7. OpSet(log[n]) \subseteq OpSet(log'[n])
      BY <3>3, AppendOp
    <3>8. BackedChange(n)
      BY <2>0, <3>2, <3>3, <3>6, <3>7, BacksMore DEF BackedChange
    <3>9. QED
      BY <2>a, <3>2, <3>8, BackedStep
  <2>11. ASSUME NEW n \in Node, NEW ok \in BOOLEAN, FinishMerge(n, ok) PROVE Backed'
    <3>1. /\ view' = [view EXCEPT ![n] = Replay(view[n], OpSet(log[n]))]
          /\ UNCHANGED <<log, hooks, net>> /\ SaveLocked(n, ok)
      BY <2>11 DEF FinishMerge
    <3>2. /\ view'[n] = Replay(view[n], OpSet(log[n]))
          /\ \A k \in Node \ {n} : view'[k] = view[k]
      BY <3>1 DEF TypeOK
    <3>3. Backs(view'[n], log'[n])
      BY <2>0, <3>1, <3>2, ReplayBacked DEF TypeOK
    <3>4. BackedChange(n)
      BY <2>0, <3>1, <3>2, <3>3, SaveOutcome DEF BackedChange
    <3>5. QED
      BY <2>a, <3>1, <3>4, BackedStep
  <2>12. ASSUME NEW n \in Node, Crash(n) PROVE Backed'
    <3>1. /\ log' = [log EXCEPT ![n] = disk[n].ops] /\ view' = [view EXCEPT ![n] = disk[n].view]
          /\ hooks' = {h \in hooks : h.node # n} /\ UNCHANGED <<disk, net>>
      BY <2>12 DEF Crash, Decode
    <3>2. /\ log'[n] = disk[n].ops /\ view'[n] = disk[n].view
          /\ \A k \in Node \ {n} : log'[k] = log[k] /\ view'[k] = view[k]
      BY <3>1 DEF TypeOK
    <3>3. \A h \in hooks' : h \in hooks /\ h.node \in Node \ {n}
      BY <3>1 DEF TypeOK, Hook
    <3>4. AllLogs' \subseteq AllLogs
      BY <3>1, <3>2 DEF AllLogs
    <3>5. QED
      BY <3>1, <3>2, <3>3, <3>4 DEF Backed
  <2>13. ASSUME NEW n \in Node, SaveElse(n) PROVE Backed'
    <3>1. /\ disk' = [disk EXCEPT ![n] = [view |-> view[n], ops |-> log[n]]]
          /\ UNCHANGED <<log, view, hooks, net>>
      BY <2>13 DEF SaveElse
    <3>2. BackedChange(n)
      BY <2>0, <3>1 DEF BackedChange, TypeOK
    <3>3. QED
      BY <2>a, <3>1, <3>2, BackedStep
  <2>14. CASE UNCHANGED vars
    BY <2>14 DEF vars, Backed, AllLogs
  <2>15. QED
    BY <2>1, <2>2, <2>3, <2>4, <2>5, <2>6, <2>7, <2>8, <2>9, <2>10, <2>11, <2>12, <2>13, <2>14
       DEF Next, Request, Publish, Receive
<1>3. Backed => ViewSupported
  <2>1. ASSUME NEW v, NEW L, NEW s, s.view = v, s.ops = L, Backs(v, L)
        PROVE  /\ s.view.status # "open" =>
                    \E o \in OfKind(OpSet(s.ops), {"claim"}) : o.arg = s.view.claimedBy
               /\ s.view.status = "completed" => OfKind(OpSet(s.ops), {"complete"}) # {}
    BY <2>1 DEF Backs, OfKind
  <2>2. ASSUME Backed, NEW n \in Node, NEW s \in {[view |-> view[n], ops |-> log[n]], disk[n]}
        PROVE  Backs(s.view, s.ops)
    BY <2>2 DEF Backed
  <2>3. QED
    BY <2>1, <2>2 DEF ViewSupported
<1>4. QED
  BY <1>1, <1>2, <1>3, TypeCorrect, HistoryIsCausal, PTL DEF Spec
-----------------------------------------------------------------------------
(* TaskSync implements CausalBroadcast: each of its steps issues an         *)
(* operation, learns of some, writes down what is known, restarts, or       *)
(* changes nothing there.                                                   *)

\* A step as CausalBroadcast sees it.
Simulated == [Broadcast!Next]_(Broadcast!vars)

\* Every operation in a log is one its author issued.
Numbered == \A L \in AllLogs : IdSet(L) \subseteq Broadcast!Issued

\* One node's store changes, and what it knew before is still in the system.
NodeStep(n) ==
  /\ \A k \in Node \ {n} : log'[k] = log[k] /\ disk'[k] = disk[k]
  /\ disk'[n].ops = disk[n].ops \/ disk'[n].ops = log'[n]
  /\ UNCHANGED net

\* The refinement mapping after such a step.
LEMMA MappingAfter ==
  ASSUME NEW n \in Node, NodeStep(n)
  PROVE  LET known == [k \in Node |-> IdSet(log[k])]
             stable == [k \in Node |-> IdSet(disk[k].ops)]
         IN /\ known' = [known EXCEPT ![n] = IdSet(log'[n])]
            /\ known'[n] = IdSet(log'[n]) /\ known[n] = IdSet(log[n])
            /\ stable' = stable \/ stable' = [stable EXCEPT ![n] = known'[n]]
<1> DEFINE known == [k \in Node |-> IdSet(log[k])]
           stable == [k \in Node |-> IdSet(disk[k].ops)]
<1>1. known' = [known EXCEPT ![n] = IdSet(log'[n])] /\ known'[n] = IdSet(log'[n])
  BY DEF NodeStep
<1>2. CASE disk'[n].ops = disk[n].ops
  <2>1. stable' = stable
    BY <1>2 DEF NodeStep
  <2>2. QED
    BY <1>1, <2>1
<1>3. CASE disk'[n].ops = log'[n]
  <2>1. stable' = [stable EXCEPT ![n] = known'[n]]
    BY <1>3 DEF NodeStep
  <2>2. QED
    BY <1>1, <2>1
<1>4. QED
  BY <1>2, <1>3 DEF NodeStep

\* What was issued stays issued.
LEMMA IssuedGrows ==
  ASSUME TypeOK, \A k \in Node : made'[k] \in Nat /\ made[k] <= made'[k]
  PROVE  Broadcast!Issued \subseteq Broadcast!Issued'
<1>1. \A k \in Node : made[k] \in Nat
  BY DEF TypeOK
<1>2. \A k \in Node : 1 .. made[k] \subseteq 1 .. made'[k]
  BY <1>1
<1>3. QED
  BY <1>2 DEF Broadcast!Issued

LEMMA NumberedAfter ==
  ASSUME Numbered, NEW n \in Node, NodeStep(n), IdSet(log'[n]) \subseteq Broadcast!Issued',
         Broadcast!Issued \subseteq Broadcast!Issued'
  PROVE  Numbered'
<1>1. AllLogs' \subseteq AllLogs \cup {log'[n]}
  <2>1. \A k \in Node : disk'[k].ops = disk[k].ops \/ disk'[k].ops = log'[n]
    BY DEF NodeStep
  <2>2. QED
    BY <2>1, LogsAfter DEF NodeStep
<1>2. QED
  BY <1>1 DEF Numbered

\* OperationLog.Add, with the save that may follow, is Issue.
LEMMA IssueStep ==
  ASSUME TypeOK, CausalHistory, Numbered, NEW n \in Node, NEW op \in Op,
         op.node = n, op.time = made[n] + 1, Add(n, op), NodeStep(n)
  PROVE  Simulated /\ Numbered'
<1>1. /\ IdSet(log'[n]) = IdSet(log[n]) \cup {<<n, made[n] + 1>>}
      /\ made' = [made EXCEPT ![n] = @ + 1]
      /\ hb' = hb \cup (IdSet(log[n]) \X {<<n, made[n] + 1>>})
  <2>1. Id(op) = <<n, made[n] + 1>>
    BY DEF Id
  <2>2. QED
    BY <2>1, AddOutcome DEF Add
<1>2. Broadcast!Issue(n)
  BY <1>1, MappingAfter DEF Broadcast!Issue
<1>3. Broadcast!WriteDown(n)
  BY MappingAfter DEF Broadcast!WriteDown
<1>4. Simulated
  BY <1>2, <1>3 DEF Simulated, Broadcast!Next
<1>5. \A k \in Node : made[k] \in Nat /\ made'[k] \in Nat /\ made[k] <= made'[k]
  BY <1>1 DEF TypeOK
<1>6. Broadcast!Issued \subseteq Broadcast!Issued'
  BY <1>5, IssuedGrows
<1>7. <<n, made[n] + 1>> \in Broadcast!Issued'
  <2>1. made'[n] = made[n] + 1 /\ made[n] \in Nat
    BY <1>1 DEF TypeOK
  <2>2. <<n, made[n] + 1>> \in {n} \X (1 .. made'[n])
    BY <2>1
  <2>3. QED
    BY <2>2 DEF Broadcast!Issued
<1>8. IdSet(log[n]) \subseteq Broadcast!Issued
  BY DEF Numbered, AllLogs
<1>9. QED
  BY <1>1, <1>4, <1>6, <1>7, <1>8, NumberedAfter

\* A merge of known operations, or a save, is Learn.
LEMMA LearnStep ==
  ASSUME TypeOK', CausalHistory', Numbered, NEW n \in Node, NodeStep(n), UNCHANGED <<made, hb>>,
         IdSet(log[n]) \subseteq IdSet(log'[n]), IdSet(log'[n]) \subseteq Broadcast!Issued
  PROVE  Simulated /\ Numbered'
<1> DEFINE new == IdSet(log'[n]) \ IdSet(log[n])
<1>1. new \in SUBSET (Broadcast!Issued \ IdSet(log[n])) /\ IdSet(log[n]) \cup new = IdSet(log'[n])
  OBVIOUS
<1>2. Broadcast!Closed(IdSet(log'[n]))
  <2>1. log'[n] \in AllLogs' /\ log'[n] \in Seq(Op)
    BY DEF AllLogs, TypeOK
  <2>2. \A j \in DOMAIN log'[n] : \A p \in hb' :
          p[2] = Id(log'[n][j]) => \E i \in 1 .. j - 1 : Id(log'[n][i]) = p[1]
    BY <2>1 DEF CausalHistory, Causal, Closed
  <2>3. ASSUME NEW p \in hb', p[2] \in IdSet(log'[n]) PROVE p[1] \in IdSet(log'[n])
    <3>1. PICK j \in DOMAIN log'[n] : p[2] = Id(log'[n][j])
      BY <2>3 DEF IdSet
    <3>2. PICK i \in 1 .. j - 1 : Id(log'[n][i]) = p[1]
      BY <2>2, <3>1
    <3>3. i \in DOMAIN log'[n]
      BY <2>1
    <3>4. QED
      BY <3>2, <3>3 DEF IdSet
  <2>4. QED
    BY <2>3 DEF Broadcast!Closed
<1>3. Broadcast!Learn(n)
  <2> DEFINE known == [k \in Node |-> IdSet(log[k])]
  <2>1. /\ known' = [known EXCEPT ![n] = IdSet(log'[n])]
        /\ known'[n] = IdSet(log'[n]) /\ known[n] = IdSet(log[n])
    BY MappingAfter
  <2>2. new \in SUBSET (Broadcast!Issued \ known[n]) /\ known' = [known EXCEPT ![n] = @ \cup new]
    BY <1>1, <2>1
  <2>3. Broadcast!Closed(known'[n])
    BY <1>2, <2>1
  <2> HIDE DEF new, known
  <2>4. \E K \in SUBSET (Broadcast!Issued \ known[n]) :
          known' = [known EXCEPT ![n] = @ \cup K] /\ Broadcast!Closed(known'[n])
    BY <2>2, <2>3
  <2>5. QED
    BY <2>4 DEF Broadcast!Learn, known
<1>4. Broadcast!WriteDown(n)
  BY MappingAfter DEF Broadcast!WriteDown
<1>5. Simulated
  BY <1>3, <1>4 DEF Simulated, Broadcast!Next
<1>6. Broadcast!Issued' = Broadcast!Issued
  BY DEF Broadcast!Issued
<1>7. QED
  BY <1>5, <1>6, NumberedAfter

\* A step that changes no log and no file stutters.
LEMMA StutterStep ==
  ASSUME Numbered, UNCHANGED <<log, disk, made, hb>>, AllLogs' \subseteq AllLogs
  PROVE  Simulated /\ Numbered'
<1>1. UNCHANGED Broadcast!vars
  BY DEF Broadcast!vars
<1>2. Broadcast!Issued' = Broadcast!Issued
  BY DEF Broadcast!Issued
<1>3. QED
  BY <1>1, <1>2 DEF Simulated, Numbered
-----------------------------------------------------------------------------
\* The detailed replication of a task implements a causal broadcast with stable
\* storage.
THEOREM TasksBroadcast == Spec => ImplementsBroadcast
<1>1. Init => Broadcast!Init /\ Numbered
  <2> SUFFICES ASSUME Init PROVE Broadcast!Init /\ Numbered
    OBVIOUS
  <2>1. \A L \in AllLogs : L = <<>>
    BY DEF Init, AllLogs
  <2>2. IdSet(<<>>) = {}
    BY DEF IdSet
  <2>3. \A n \in Node : log[n] = <<>> /\ disk[n].ops = <<>>
    BY DEF Init
  <2>4. Broadcast!Init
    BY <2>2, <2>3 DEF Broadcast!Init, Init
  <2>5. QED
    BY <2>1, <2>2, <2>4 DEF Numbered
<1>2. /\ TypeOK /\ TypeOK' /\ CausalHistory /\ CausalHistory' /\ Numbered
      /\ [Next]_vars
      => Simulated /\ Numbered'
  <2> SUFFICES ASSUME TypeOK, TypeOK', CausalHistory, CausalHistory', Numbered, [Next]_vars
               PROVE  Simulated /\ Numbered'
    OBVIOUS
  <2>0. \A n \in Node : IdSet(log[n]) \subseteq Broadcast!Issued
    BY DEF Numbered, AllLogs
  <2>1. ASSUME NEW n \in Node, Create(n) PROVE Simulated /\ Numbered'
    <3> DEFINE op == NewOp(n, "create", NoAgent)
    <3>1. op \in Op /\ op.time = made[n] + 1 /\ op.node = n
      BY DEF NewOp, Op, TypeOK
    <3>2. Add(n, op) /\ UNCHANGED <<disk, net>>
      BY <2>1 DEF Create
    <3> HIDE DEF op
    <3>3. NodeStep(n)
      BY <3>1, <3>2, AddOutcome DEF NodeStep
    <3>4. QED
      BY <3>1, <3>2, <3>3, IssueStep
  <2>2. ASSUME NEW h \in hooks, NEW ok \in BOOLEAN, CreateSave(h, ok) PROVE Simulated /\ Numbered'
    <3>1. h.node \in Node
      BY DEF TypeOK, Hook
    <3>2. UNCHANGED <<log, net, made, hb>> /\ SaveLocked(h.node, ok)
      BY <2>2 DEF CreateSave
    <3>3. NodeStep(h.node)
      BY <3>1, <3>2, SaveOutcome DEF NodeStep
    <3>4. QED
      BY <2>0, <3>1, <3>2, <3>3, LearnStep
  <2>3. ASSUME NEW n \in Node, NEW a \in Agent, NEW ok \in BOOLEAN, Claim(n, a, ok)
        PROVE  Simulated /\ Numbered'
    <3> DEFINE op == NewOp(n, "claim", a)
    <3>1. op \in Op /\ op.time = made[n] + 1 /\ op.node = n
      BY DEF NewOp, Op, TypeOK
    <3>2. Add(n, op) /\ SaveLocked(n, ok) /\ UNCHANGED net
      BY <2>3 DEF Claim
    <3> HIDE DEF op
    <3>3. NodeStep(n)
      BY <3>1, <3>2, AddOutcome, SaveOutcome DEF NodeStep
    <3>4. QED
      BY <3>1, <3>2, <3>3, IssueStep
  <2>4. ASSUME NEW n \in Node, NEW r \in Result \cup {NoResult}, Complete(n, r)
        PROVE  Simulated /\ Numbered'
    <3> DEFINE op == NewOp(n, "complete", view[n].claimedBy)
    <3>1. op \in Op /\ op.time = made[n] + 1 /\ op.node = n
      BY DEF NewOp, Op, TypeOK, View
    <3>2. Add(n, op) /\ UNCHANGED <<disk, net>>
      BY <2>4 DEF Complete
    <3> HIDE DEF op
    <3>3. NodeStep(n)
      BY <3>1, <3>2, AddOutcome DEF NodeStep
    <3>4. QED
      BY <3>1, <3>2, <3>3, IssueStep
  <2>5. ASSUME NEW n \in Node, NEW ok \in BOOLEAN, FinishComplete(n, ok)
        PROVE  Simulated /\ Numbered'
    <3> DEFINE op == NewOp(n, "result", view[n].result)
    <3>1. /\ view[n].result # NoResult => op \in Op
          /\ op.time = made[n] + 1 /\ op.node = n
      BY DEF NewOp, Op, TypeOK, View
    <3>2. /\ SaveLocked(n, ok) /\ UNCHANGED net
          /\ \/ view[n].result # NoResult /\ Add(n, op)
             \/ UNCHANGED <<log, clock, made, hb>>
      BY <2>5 DEF FinishComplete
    <3> HIDE DEF op
    <3>3. CASE view[n].result # NoResult /\ Add(n, op)
      <4>1. NodeStep(n)
        BY <3>1, <3>2, <3>3, AddOutcome, SaveOutcome, ZenonT(60) DEF NodeStep
      <4>2. QED
        BY <3>1, <3>3, <4>1, IssueStep
    <3>4. CASE UNCHANGED <<log, clock, made, hb>>
      <4>1. NodeStep(n)
        BY <3>2, <3>4, SaveOutcome DEF NodeStep
      <4>2. QED
        BY <2>0, <3>4, <4>1, LearnStep
    <3>5. QED
      BY <3>2, <3>3, <3>4
  <2>6. ASSUME NEW h \in hooks, HookGet(h) PROVE Simulated /\ Numbered'
    <3>1. UNCHANGED <<log, disk, net, made, hb>>
      BY <2>6 DEF HookGet, storeVars
    <3>2. QED
      BY <3>1, StutterStep DEF AllLogs
  <2>7. ASSUME NEW h \in hooks, NEW ok \in BOOLEAN, HookPublish(h, ok) PROVE Simulated /\ Numbered'
    <3> DEFINE m == [from |-> h.node, view |-> h.view, ops |-> log[h.node]]
    <3>1. h.node \in Node /\ m.ops = log[h.node]
      BY DEF TypeOK, Hook
    <3>2. net' \subseteq net \cup {m} /\ UNCHANGED <<log, disk, made, hb>>
      BY <2>7 DEF HookPublish, storeVars
    <3> HIDE DEF m
    <3>3. AllLogs' \subseteq AllLogs
      BY <3>1, <3>2 DEF AllLogs
    <3>4. QED
      BY <3>2, <3>3, StutterStep
  <2>8. ASSUME NEW n \in Node, NEW m \in net, NEW ok \in BOOLEAN, Adopt(n, m, ok)
        PROVE  Simulated /\ Numbered'
    <3>1. /\ log[n] = <<>> /\ log' = [log EXCEPT ![n] = m.ops]
          /\ SaveLocked(n, ok) /\ UNCHANGED <<net, made, hb>>
      BY <2>8 DEF Adopt, Decode
    <3>2. log'[n] = m.ops /\ \A k \in Node \ {n} : log'[k] = log[k]
      BY <3>1 DEF TypeOK
    <3>3. NodeStep(n)
      BY <3>1, <3>2, SaveOutcome DEF NodeStep
    <3>4. IdSet(log[n]) = {} /\ IdSet(log'[n]) \subseteq Broadcast!Issued
      <4>1. IdSet(log[n]) = {}
        BY <3>1 DEF IdSet
      <4>2. QED
        BY <3>2, <4>1 DEF Numbered, AllLogs
    <3>5. QED
      BY <3>1, <3>3, <3>4, LearnStep
  <2>9. ASSUME NEW n \in Node, NEW m \in net, StartMerge(n, m) PROVE Simulated /\ Numbered'
    <3>1. UNCHANGED <<log, disk, net, made, hb>>
      BY <2>9 DEF StartMerge
    <3>2. QED
      BY <3>1, StutterStep DEF AllLogs
  <2>10. ASSUME NEW n \in Node, ImportNext(n) PROVE Simulated /\ Numbered'
    <3>1. PICK i \in DOMAIN rest[n] : log' = [log EXCEPT ![n] = Append(@, rest[n][i])]
      BY <2>10 DEF ImportNext
    <3>2. UNCHANGED <<disk, net, made, hb>>
      BY <2>10 DEF ImportNext
    <3>3. /\ rest[n][i] \in Op /\ log[n] \in Seq(Op)
          /\ log'[n] = Append(log[n], rest[n][i]) /\ \A k \in Node \ {n} : log'[k] = log[k]
      BY <3>1 DEF TypeOK
    <3>4. IdSet(log'[n]) = IdSet(log[n]) \cup {Id(rest[n][i])}
      BY <3>3, AppendOp
    <3>5. Id(rest[n][i]) \in Broadcast!Issued
      <4>1. rest[n] \in AllLogs
        BY DEF CausalHistory, Decode, AllLogs
      <4>2. QED
        BY <4>1 DEF Numbered, IdSet
    <3>6. NodeStep(n)
      BY <3>2, <3>3 DEF NodeStep
    <3>7. QED
      BY <2>0, <3>2, <3>4, <3>5, <3>6, LearnStep
  <2>11. ASSUME NEW n \in Node, NEW ok \in BOOLEAN, FinishMerge(n, ok) PROVE Simulated /\ Numbered'
    <3>1. UNCHANGED <<log, net, made, hb>> /\ SaveLocked(n, ok)
      BY <2>11 DEF FinishMerge
    <3>2. NodeStep(n)
      BY <3>1, SaveOutcome DEF NodeStep
    <3>3. QED
      BY <2>0, <3>1, <3>2, LearnStep
  <2>12. ASSUME NEW n \in Node, Crash(n) PROVE Simulated /\ Numbered'
    <3>1. log' = [log EXCEPT ![n] = disk[n].ops] /\ UNCHANGED <<disk, net, made, hb>>
      BY <2>12 DEF Crash, Decode
    <3>2. log'[n] = disk[n].ops /\ \A k \in Node \ {n} : log'[k] = log[k]
      BY <3>1 DEF TypeOK
    <3>3. NodeStep(n)
      BY <3>1, <3>2 DEF NodeStep
    <3>4. Broadcast!Restart(n)
      BY <3>1, <3>2, <3>3, MappingAfter DEF Broadcast!Restart
    <3>5. Simulated
      BY <3>4 DEF Simulated, Broadcast!Next
    <3>6. Broadcast!Issued' = Broadcast!Issued
      BY <3>1 DEF Broadcast!Issued
    <3>7. IdSet(log'[n]) \subseteq Broadcast!Issued
      BY <3>2 DEF Numbered, AllLogs
    <3>8. QED
      BY <3>3, <3>5, <3>6, <3>7, NumberedAfter
  <2>13. ASSUME NEW n \in Node, SaveElse(n) PROVE Simulated /\ Numbered'
    <3>1. /\ disk' = [disk EXCEPT ![n] = [view |-> view[n], ops |-> log[n]]]
          /\ UNCHANGED <<log, net, made, hb>>
      BY <2>13 DEF SaveElse
    <3>2. NodeStep(n)
      BY <3>1 DEF NodeStep, TypeOK
    <3>3. QED
      BY <2>0, <3>1, <3>2, LearnStep
  <2>14. CASE UNCHANGED vars
    BY <2>14, StutterStep DEF vars, AllLogs
  <2>15. QED
    BY <2>1, <2>2, <2>3, <2>4, <2>5, <2>6, <2>7, <2>8, <2>9, <2>10, <2>11, <2>12, <2>13, <2>14
       DEF Next, Request, Publish, Receive
<1>3. QED
  BY <1>1, <1>2, TypeCorrect, HistoryIsCausal, PTL
     DEF Spec, ImplementsBroadcast, Broadcast!Spec, Simulated
=============================================================================
