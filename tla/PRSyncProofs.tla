---------------------------- MODULE PRSyncProofs ----------------------------
(***************************************************************************)
(* Theorems about PRSync, for every set of nodes, reviewers and verdicts   *)
(* and every bound.  While no log is so long that it is compacted: logs    *)
(* have neither gaps nor duplicates, and what a protected branch shows as  *)
(* merged was approved.  On a daemon alone: a pull request is merged once, *)
(* and a compaction changes nothing that shows.                            *)
(***************************************************************************)
EXTENDS PRSync, OpLogProofs

\* The compactor leaves such logs alone.
Short == \A n \in Node : Len(log[n]) <= Limit

LEMMA OpIsOrdered == \A o \in Op : Ordered(o)
  BY NodeAssumption DEF Op, Ordered

LEMMA ClockType == ASSUME NEW ops \in Seq(Op) PROVE ImportedClock(ops) \in Nat
  BY ImportedClockBound, OpIsOrdered

\* Stamping changes the Lamport value and nothing else.
LEMMA StampOp ==
  ASSUME NEW op \in Op, NEW c \in Nat
  PROVE  /\ Stamp(op, c) \in Op /\ Id(Stamp(op, c)) = Id(op)
         /\ Stamp(op, c).kind = op.kind /\ Stamp(op, c).arg = op.arg
<1> DEFINE new == Stamp(op, c)
<1>1. /\ new.node = op.node /\ new.time = op.time /\ new.kind = op.kind /\ new.arg = op.arg
      /\ new.lamport = c + 1
  BY DEF Stamp, Op
<1>2. c + 1 \in Nat
  OBVIOUS
<1>3. new \in Op
  BY <1>2 DEF Stamp, Op
<1>4. Id(new) = Id(op)
  BY <1>1 DEF Id
<1>5. QED
  BY <1>1, <1>3, <1>4

\* An ID is a node and a count.
LEMMA IdType ==
  ASSUME NEW ops \in Seq(Op)
  PROVE  IdSet(ops) \subseteq Node \X Nat
<1>1. \A o \in Op : Id(o) \in Node \X Nat
  BY DEF Id, Op
<1>2. QED
  BY <1>1 DEF IdSet

\* PullRequest.UnmarshalJSON keeps the operations and their order.
LEMMA DecodeIs ==
  ASSUME NEW ops \in Seq(Op)
  PROVE  /\ Decode(ops) \in Seq(Op) /\ DOMAIN Decode(ops) = DOMAIN ops
         /\ (Decode(ops) = <<>>) = (ops = <<>>)
         /\ \A i \in DOMAIN ops : /\ Id(Decode(ops)[i]) = Id(ops[i])
                                  /\ Decode(ops)[i].kind = ops[i].kind
                                  /\ Decode(ops)[i].arg = ops[i].arg
         /\ IdSet(Decode(ops)) = IdSet(ops)
<1> DEFINE new == [i \in DOMAIN ops |-> [ops[i] EXCEPT !.lamport = i]]
<1>1. Decode(ops) = new
  BY DEF Decode, Renumbered
<1>2. DOMAIN ops = 1 .. Len(ops) /\ Len(ops) \in Nat /\ \A i \in DOMAIN ops : ops[i] \in Op /\ i \in Nat
  OBVIOUS
<1>3. \A i \in DOMAIN ops : /\ new[i] \in Op /\ new[i].node = ops[i].node /\ new[i].time = ops[i].time
                            /\ new[i].kind = ops[i].kind /\ new[i].arg = ops[i].arg
  BY <1>2 DEF Op
<1>4. new \in [1 .. Len(ops) -> Op]
  BY <1>2, <1>3
<1>5. DOMAIN new = DOMAIN ops
  OBVIOUS
<1> HIDE DEF new
<1>6. new \in Seq(Op) /\ Len(new) = Len(ops)
  BY <1>2, <1>4
<1>7. (new = <<>>) = (ops = <<>>)
  BY <1>6
<1>8. \A i \in DOMAIN ops : Id(new[i]) = Id(ops[i])
  BY <1>3 DEF Id
<1>9. IdSet(new) = IdSet(ops)
  BY <1>5, <1>8 DEF IdSet
<1>10. QED
  BY <1>1, <1>3, <1>5, <1>6, <1>7, <1>8, <1>9
-----------------------------------------------------------------------------
(* What is known of any collection of logs. *)

\* What operations are about.
Proper(o) ==
  /\ o.kind = "reviewer" => o.arg \in Agent
  /\ o.kind = "status" => o.arg \in Status

\* A change of the status comes after an approval.
Backed(L) ==
  Protected => \A i \in DOMAIN L : L[i].kind = "status" =>
                 \E j \in 1 .. i - 1 : L[j].kind = "review" /\ L[j].arg = "approve"

\* Decoding changes Lamport values: a log is good as to which operations it
\* holds, what they say, and where; M counts what each node made.
Good(LL, H, M) ==
  /\ Closed(LL, H)
  /\ \A L \in LL : \A x \in IdSet(L) : x[2] <= M[x[1]]
  /\ \A p \in H : p[2][2] <= M[p[2][1]]
  /\ \A a, b \in OpsOf(LL) : Id(a) = Id(b) => a.kind = b.kind /\ a.arg = b.arg
  /\ \A o \in OpsOf(LL) : Proper(o)
  /\ \A L \in LL : Backed(L)

LEMMA GoodLess ==
  ASSUME NEW LL, NEW H, NEW M, Good(LL, H, M), NEW KK \in SUBSET LL
  PROVE  Good(KK, H, M)
<1>1. OpsOf(KK) \subseteq OpsOf(LL)
  BY DEF OpsOf
<1>2. Closed(KK, H)
  BY DEF Good, Closed
<1> QED
  BY <1>1, <1>2 DEF Good

\* Decoding a log that is there.
LEMMA GoodDecode ==
  ASSUME NEW LL \in SUBSET Seq(Op), NEW H, NEW M, Good(LL, H, M), NEW L \in LL
  PROVE  Good(LL \cup {Decode(L)}, H, M)
<1> DEFINE K == Decode(L)
<1>1. /\ DOMAIN K = DOMAIN L /\ IdSet(K) = IdSet(L)
      /\ \A i \in DOMAIN L : Id(K[i]) = Id(L[i]) /\ K[i].kind = L[i].kind /\ K[i].arg = L[i].arg
  BY DecodeIs
<1>2. DOMAIN L = 1 .. Len(L) /\ Len(L) \in Nat
  OBVIOUS
<1> HIDE DEF K
<1>3. Closed(LL \cup {K}, H)
  <2>1. \A i, j \in DOMAIN K : Id(K[i]) = Id(K[j]) => i = j
    BY <1>1 DEF Good, Closed
  <2>2. ASSUME NEW j \in DOMAIN K, NEW p \in H, p[2] = Id(K[j])
        PROVE  \E i \in 1 .. j - 1 : Id(K[i]) = p[1]
    <3>1. PICK i \in 1 .. j - 1 : Id(L[i]) = p[1]
      BY <1>1, <2>2 DEF Good, Closed
    <3>2. i \in DOMAIN L
      BY <1>1, <1>2
    <3> QED
      BY <1>1, <3>1, <3>2
  <2> QED
    BY <2>1, <2>2 DEF Good, Closed
<1>4. \A o \in OpsOf(LL \cup {K}) : \E r \in OpsOf(LL) : Id(o) = Id(r) /\ o.kind = r.kind /\ o.arg = r.arg
  <2>1. \A o \in OpSet(K) : \E r \in OpSet(L) : Id(o) = Id(r) /\ o.kind = r.kind /\ o.arg = r.arg
    BY <1>1 DEF OpSet
  <2> QED
    BY <2>1 DEF OpsOf
<1>5. Backed(K)
  <2> SUFFICES ASSUME Protected, NEW i \in DOMAIN K, K[i].kind = "status"
               PROVE  \E j \in 1 .. i - 1 : K[j].kind = "review" /\ K[j].arg = "approve"
    BY DEF Backed
  <2>1. PICK j \in 1 .. i - 1 : L[j].kind = "review" /\ L[j].arg = "approve"
    BY <1>1 DEF Good, Backed
  <2>2. j \in DOMAIN L
    BY <1>1, <1>2
  <2> QED
    BY <1>1, <2>1, <2>2
<1>6. \A x \in IdSet(K) : x[2] <= M[x[1]]
  BY <1>1 DEF Good
<1>7. \A a, b \in OpsOf(LL \cup {K}) : Id(a) = Id(b) => a.kind = b.kind /\ a.arg = b.arg
  BY <1>4 DEF Good
<1>8. \A o \in OpsOf(LL \cup {K}) : Proper(o)
  BY <1>4 DEF Good, Proper
<1> QED
  BY <1>3, <1>5, <1>6, <1>7, <1>8 DEF Good, K

\* A log that is longer by one operation has what it is after.
LEMMA BackedAppend ==
  ASSUME NEW L \in Seq(Op), NEW op \in Op, Backed(L),
         op.kind = "status" => (Protected => Approved(L))
  PROVE  Backed(Append(L, op))
<1> DEFINE K == Append(L, op)
<1>1. /\ DOMAIN K = DOMAIN L \cup {Len(L) + 1} /\ DOMAIN L = 1 .. Len(L) /\ Len(L) \in Nat
      /\ \A i \in DOMAIN L : K[i] = L[i]
      /\ K[Len(L) + 1] = op
  BY AppendOp
<1> HIDE DEF K
<1> SUFFICES ASSUME Protected, NEW i \in DOMAIN K, K[i].kind = "status"
             PROVE  \E j \in 1 .. i - 1 : K[j].kind = "review" /\ K[j].arg = "approve"
  BY DEF Backed, K
<1>2. CASE i \in DOMAIN L
  <2>1. PICK j \in 1 .. i - 1 : L[j].kind = "review" /\ L[j].arg = "approve"
    BY <1>1, <1>2 DEF Backed
  <2>2. j \in DOMAIN L
    BY <1>1, <1>2
  <2> QED
    BY <1>1, <2>1, <2>2
<1>3. CASE i = Len(L) + 1
  <2>1. Approved(L)
    BY <1>1, <1>3
  <2>2. PICK j \in DOMAIN L : L[j].kind = "review" /\ L[j].arg = "approve"
    BY <2>1 DEF Approved, OfKind, OpSet
  <2>3. j \in 1 .. i - 1
    BY <1>1, <1>3
  <2>4. K[j] = L[j]
    BY <1>1
  <2>5. K[j].kind = "review" /\ K[j].arg = "approve"
    BY <2>2, <2>4
  <2> QED
    BY <2>3, <2>5
<1> QED
  BY <1>1, <1>2, <1>3

\* ImportOperation: the next operation of log K that L does not have.
LEMMA GoodImport ==
  ASSUME NEW LL \in SUBSET Seq(Op), NEW H, NEW M, Good(LL, H, M),
         NEW L \in LL, NEW K \in LL, NEW i \in DOMAIN K, NEW op \in Op,
         Id(op) = Id(K[i]), op.kind = K[i].kind, op.arg = K[i].arg,
         Id(op) \notin IdSet(L), \A j \in 1 .. i - 1 : Id(K[j]) \in IdSet(L)
  PROVE  Good(LL \cup {Append(L, op)}, H, M)
<1> DEFINE new == Append(L, op)
<1>1. L \in Seq(Op) /\ K \in Seq(Op) /\ DOMAIN K = 1 .. Len(K) /\ Len(K) \in Nat
  OBVIOUS
<1>2. OpSet(new) = OpSet(L) \cup {op} /\ IdSet(new) = IdSet(L) \cup {Id(op)}
  BY <1>1, AppendOp
<1>3. K[i] \in OpsOf(LL) /\ OpSet(L) \subseteq OpsOf(LL) /\ Id(op) \in IdSet(K)
  BY DEF OpsOf, OpSet, IdSet
<1>4. \A p \in H : p[2] = Id(op) => p[1] \in IdSet(L)
  <2>1. \A p \in H : p[2] = Id(K[i]) => \E j \in 1 .. i - 1 : Id(K[j]) = p[1]
    BY DEF Good, Closed
  <2> QED
    BY <2>1
<1> HIDE DEF new
<1>5. Closed(LL \cup {new}, H)
  <2>1. Dependencies(LL, H, H, L, op) /\ Closed(LL, H)
    BY <1>4 DEF Dependencies, Good
  <2> QED
    BY <2>1, CausalGrow DEF new
<1>6. \A o \in OpsOf(LL \cup {new}) : \E r \in OpsOf(LL) : Id(o) = Id(r) /\ o.kind = r.kind /\ o.arg = r.arg
  <2>1. \A o \in OpsOf(LL \cup {new}) : o \in OpsOf(LL) \/ o = op
    BY <1>2, <1>3 DEF OpsOf
  <2> QED
    BY <1>3, <2>1
<1>7. Backed(new)
  <2>1. ASSUME op.kind = "status", Protected PROVE Approved(L)
    <3>0. Backed(K) /\ K[i].kind = "status"
      BY <2>1 DEF Good
    <3>1. PICK j \in 1 .. i - 1 : K[j].kind = "review" /\ K[j].arg = "approve"
      BY <2>1, <3>0 DEF Backed
    <3>2. Id(K[j]) \in IdSet(L) /\ j \in DOMAIN K
      BY <1>1
    <3>3. PICK l \in DOMAIN L : Id(L[l]) = Id(K[j])
      BY <3>2 DEF IdSet
    <3>4. L[l] \in OpsOf(LL) /\ K[j] \in OpsOf(LL)
      BY <3>2 DEF OpsOf, OpSet
    <3>5. L[l].kind = "review" /\ L[l].arg = "approve"
      BY <3>1, <3>3, <3>4 DEF Good
    <3> QED
      BY <3>5 DEF Approved, OfKind, OpSet
  <2>2. Backed(L)
    BY DEF Good
  <2> QED
    BY <1>1, <2>1, <2>2, BackedAppend DEF new
<1>8. \A x \in IdSet(new) : x[2] <= M[x[1]]
  BY <1>2, <1>3 DEF Good
<1>9. \A a, b \in OpsOf(LL \cup {new}) : Id(a) = Id(b) => a.kind = b.kind /\ a.arg = b.arg
  BY <1>6 DEF Good
<1>10. \A o \in OpsOf(LL \cup {new}) : Proper(o)
  BY <1>6 DEF Good, Proper
<1> QED
  BY <1>5, <1>7, <1>8, <1>9, <1>10 DEF Good, new

\* OperationLog.Add: an operation nobody has yet.
LEMMA GoodAdd ==
  ASSUME NEW LL \in SUBSET Seq(Op), NEW H \in SUBSET ((Node \X Nat) \X (Node \X Nat)),
         NEW M \in [Node -> Nat], Good(LL, H, M), NEW L \in LL, NEW n \in Node,
         NEW op \in Op, Id(op) = <<n, M[n] + 1>>, Proper(op),
         op.kind = "status" => (Protected => Approved(L))
  PROVE  Good(LL \cup {Append(L, op)}, H \cup (IdSet(L) \X {Id(op)}), [M EXCEPT ![n] = @ + 1])
<1> DEFINE new == Append(L, op)
           G == H \cup (IdSet(L) \X {Id(op)})
           N == [M EXCEPT ![n] = @ + 1]
<1>1. L \in Seq(Op)
  OBVIOUS
<1>2. OpSet(new) = OpSet(L) \cup {op} /\ IdSet(new) = IdSet(L) \cup {Id(op)}
  BY <1>1, AppendOp
<1>3. M[n] \in Nat /\ ~(M[n] + 1 <= M[n]) /\ Id(op)[1] = n /\ Id(op)[2] = M[n] + 1
  OBVIOUS
<1>4. \A K \in LL : Id(op) \notin IdSet(K)
  BY <1>3 DEF Good
<1>5. \A p \in H : p[2] # Id(op)
  BY <1>3 DEF Good
<1>6. Closed(LL \cup {new}, G)
  <2>1. \A K \in LL : \A j \in DOMAIN K : Id(K[j]) # Id(op)
    BY <1>4 DEF IdSet
  <2>2. Closed(LL, H)
    BY DEF Good
  <2> QED
    BY <1>4, <1>5, <2>1, <2>2, ClosedAdd
<1>7. \A k \in Node : M[k] \in Nat /\ N[k] \in Nat /\ M[k] <= N[k]
  OBVIOUS
<1>8. N[n] = M[n] + 1
  OBVIOUS
<1> HIDE DEF new, N
<1>9. \A K \in LL \cup {new} : \A x \in IdSet(K) : x[2] <= N[x[1]]
  <2>1. ASSUME NEW K \in LL, NEW x \in IdSet(K) PROVE x[2] <= N[x[1]]
    <3>1. x \in Node \X Nat
      BY IdType
    <3>2. x[1] \in Node /\ x[2] \in Nat /\ x[2] <= M[x[1]]
      BY <3>1 DEF Good
    <3> QED
      BY <1>7, <3>2
  <2>2. Id(op)[2] <= N[Id(op)[1]]
    BY <1>3, <1>7, <1>8
  <2> QED
    BY <1>2, <2>1, <2>2
<1>10. \A p \in G : p[2][2] <= N[p[2][1]]
  <2>1. ASSUME NEW p \in H PROVE p[2][2] <= N[p[2][1]]
    <3>1. p[2][1] \in Node /\ p[2][2] \in Nat /\ p[2][2] <= M[p[2][1]]
      BY DEF Good
    <3> QED
      BY <1>7, <3>1
  <2>2. ASSUME NEW p \in IdSet(L) \X {Id(op)} PROVE p[2][2] <= N[p[2][1]]
    BY <1>3, <1>7, <1>8
  <2> QED
    BY <2>1, <2>2
<1>11. \A o \in OpsOf(LL \cup {new}) : o = op \/ (o \in OpsOf(LL) /\ Id(o) # Id(op))
  <2>1. \A o \in OpsOf(LL) : Id(o) # Id(op)
    BY <1>4 DEF OpsOf, OpSet, IdSet
  <2>2. \A o \in OpsOf(LL \cup {new}) : o = op \/ o \in OpsOf(LL)
    BY <1>2 DEF OpsOf
  <2> QED
    BY <2>1, <2>2
<1>12. \A a, b \in OpsOf(LL \cup {new}) : Id(a) = Id(b) => a.kind = b.kind /\ a.arg = b.arg
  BY <1>11 DEF Good
<1>13. \A o \in OpsOf(LL \cup {new}) : Proper(o)
  BY <1>11 DEF Good
<1>14. \A K \in LL \cup {new} : Backed(K)
  BY <1>1, BackedAppend DEF Good, new
<1> QED
  BY <1>6, <1>9, <1>10, <1>12, <1>13, <1>14 DEF Good, new, N
-----------------------------------------------------------------------------
(* The inductive invariant. *)

Types ==
  /\ TypeOK /\ landed \in [Node -> Nat] /\ saves \subseteq Save
  /\ compacting = [n \in Node |-> <<>>]

\* The logs there are, with those that a Save is about to write.
Logs == AllLogs \cup {s.ops : s \in saves}
RestSent == \A n \in Node : rest[n] = <<>> \/ \E m \in net : rest[n] = Decode(m.ops)
HooksBacked == \A h \in hooks : h.stage = "work" => (Protected => Approved(log[h.node]))

PRInv == Types /\ Good(Logs, hb, made) /\ RestSent /\ HooksBacked

LEMMA LogsType == Types => Logs \in SUBSET Seq(Op) /\ \A n \in Node : log[n] \in Logs
<1> SUFFICES ASSUME Types PROVE Logs \in SUBSET Seq(Op) /\ \A n \in Node : log[n] \in Logs
  OBVIOUS
<1>1. AllLogs \in SUBSET Seq(Op)
  BY DEF Types, TypeOK, AllLogs, Snapshot
<1>2. \A s \in saves : s.ops \in Seq(Op)
  BY DEF Types, Save
<1>3. \A n \in Node : log[n] \in Logs
  BY DEF Logs, AllLogs
<1> QED
  BY <1>1, <1>2, <1>3 DEF Logs

\* Where a step leaves the fields and the log of n, the file of any daemon is
\* what it was, or those.
SavedAs(n) ==
  \A k \in Node : disk'[k] = disk[k] \/ disk'[k] = [view |-> view'[n], ops |-> log'[n]]

LEMMA SaveType ==
  ASSUME TypeOK, NEW n \in Node, NEW ok, SaveLocked(n, ok),
         view'[n] \in View, log'[n] \in Seq(Op)
  PROVE  disk' \in [Node -> [view : View, ops : Seq(Op)]] /\ faults' \in Nat /\ SavedAs(n)
<1> DEFINE new == [view |-> view'[n], ops |-> log'[n]]
<1>1. new \in [view : View, ops : Seq(Op)]
  OBVIOUS
<1>2. disk' = [disk EXCEPT ![n] = new] \/ disk' = disk
  BY DEF SaveLocked
<1> HIDE DEF new
<1>3. disk' \in [Node -> [view : View, ops : Seq(Op)]]
  BY <1>1, <1>2 DEF TypeOK
<1>4. \A k \in Node : disk'[k] = disk[k] \/ disk'[k] = new
  BY <1>2 DEF TypeOK
<1> QED
  BY <1>3, <1>4 DEF SaveLocked, TypeOK, SavedAs, new

\* What a step may make of the logs if log'[n] is all that is new.
LEMMA LogsAfter ==
  ASSUME NEW n \in Node, \A m \in net' : m \in net \/ m.ops = log[n],
         \A k \in Node \ {n} : log'[k] = log[k], SavedAs(n), saves' \subseteq saves
  PROVE  Logs' \subseteq Logs \cup {log'[n]}
<1>1. \A k \in Node : disk'[k].ops = disk[k].ops \/ disk'[k].ops = log'[n]
  BY DEF SavedAs
<1> QED
  BY <1>1 DEF AllLogs, Logs

\* A step that makes no operation and no new log.
LEMMA QuietStep ==
  ASSUME PRInv, Types', Logs' \subseteq Logs, UNCHANGED <<log, hb, made>>, RestSent',
         \A h \in hooks' : h \in hooks \/ h.stage # "work"
  PROVE  PRInv'
<1>1. Good(Logs, hb, made)'
  BY GoodLess DEF PRInv
<1>2. HooksBacked'
  BY DEF PRInv, HooksBacked
<1> QED
  BY <1>1, <1>2 DEF PRInv

Fresh(n, op) ==
  op \in Op /\ op.node = n /\ op.time = made[n] + 1 /\ op.time \in Nat /\ Proper(op)

LEMMA NewOpIs ==
  ASSUME TypeOK, NEW n \in Node, NEW kind \in {"create", "reviewer", "review", "status"},
         NEW arg \in Agent \cup Status \cup Verdict,
         kind = "reviewer" => arg \in Agent, kind = "status" => arg \in Status
  PROVE  Fresh(n, NewOp(n, kind, arg)) /\ NewOp(n, kind, arg).kind = kind
<1> DEFINE op == NewOp(n, kind, arg)
<1>1. op.node = n /\ op.time = made[n] + 1 /\ op.kind = kind /\ op.arg = arg
  BY DEF NewOp
<1>2. made[n] + 1 \in Nat
  BY DEF TypeOK
<1>3. op \in Op
  BY <1>2, 0 \in Nat DEF NewOp, Op
<1> HIDE DEF op
<1>4. Fresh(n, op)
  BY <1>1, <1>2, <1>3 DEF Fresh, Proper
<1> QED
  BY <1>1, <1>4 DEF op

LEMMA NewHookType ==
  ASSUME NEW n \in Node, NEW op, op.time \in Nat, NEW stage \in {"work", "save", "get"}
  PROVE  /\ NewHook(n, op, stage) \in Hook /\ NewHook(n, op, stage).stage = stage
         /\ NewHook(n, op, stage).node = n
<1>1. OpenView \in View
  BY DEF View, OpenView, Status
<1> QED
  BY <1>1 DEF NewHook, Hook

\* What approves stays in a log that grows.
LEMMA StillApproved ==
  ASSUME NEW L \in Seq(Op), NEW op \in Op, Approved(L)
  PROVE  Approved(Append(L, op))
<1>1. OpSet(Append(L, op)) = OpSet(L) \cup {op}
  BY AppendOp
<1> QED
  BY <1>1 DEF Approved, OfKind

\* A request adds an operation: a status only where there is an approval.
LEMMA AddStep ==
  ASSUME PRInv, NEW n \in Node, NEW op, Fresh(n, op), Add(n, op),
         op.kind = "status" => (Protected => Approved(log[n])),
         view' \in [Node -> View], busy' \in [Node -> {"free", "working", "merging"}],
         (\E ok \in BOOLEAN : SaveLocked(n, ok)) \/ UNCHANGED <<disk, faults>>,
         \A h \in hooks' : h \in hooks \/ (h \in Hook /\ (h.stage = "work" =>
                             h.node = n /\ (Protected => Approved(log[n])))),
         UNCHANGED <<rest, net, seen, landed, saves, compacting>>
  PROVE  PRInv'
<1>0. Types /\ TypeOK /\ Good(Logs, hb, made) /\ RestSent /\ HooksBacked
  BY DEF PRInv, Types
<1> DEFINE new == Stamp(op, clock[n])
<1>1. op \in Op /\ op.node = n /\ op.time = made[n] + 1 /\ Proper(op) /\ clock[n] \in Nat
  BY <1>0 DEF Fresh, TypeOK
<1>2. new \in Op /\ Id(new) = Id(op) /\ new.kind = op.kind /\ new.arg = op.arg
  BY <1>1, StampOp
<1>3. /\ log' = [log EXCEPT ![n] = Append(@, new)] /\ clock' = [clock EXCEPT ![n] = @ + 1]
      /\ made' = [made EXCEPT ![n] = @ + 1] /\ hb' = hb \cup (IdSet(log[n]) \X {Id(new)})
  BY <1>0, <1>1, <1>2 DEF Add, TypeOK
<1> HIDE DEF new
<1>4. Id(new) = <<n, made[n] + 1>> /\ Proper(new)
  BY <1>1, <1>2 DEF Id, Proper
<1>5. /\ log \in [Node -> Seq(Op)] /\ log[n] \in Seq(Op) /\ made \in [Node -> Nat]
      /\ hb \subseteq (Node \X Nat) \X (Node \X Nat)
  BY <1>0 DEF TypeOK
<1>6. /\ log'[n] = Append(log[n], new) /\ log'[n] \in Seq(Op) /\ log' \in [Node -> Seq(Op)]
      /\ \A k \in Node \ {n} : log'[k] = log[k]
  BY <1>2, <1>3, <1>5
<1>7. disk' \in [Node -> [view : View, ops : Seq(Op)]] /\ faults' \in Nat /\ SavedAs(n)
  <2>1. CASE \E ok \in BOOLEAN : SaveLocked(n, ok)
    BY <1>0, <1>6, <2>1, SaveType
  <2>2. CASE UNCHANGED <<disk, faults>>
    BY <1>0, <2>2 DEF TypeOK, SavedAs
  <2> QED
    BY <2>1, <2>2
<1>8. Types'
  <2>1. IdSet(log[n]) \subseteq Node \X Nat /\ Id(new) \in Node \X Nat
    BY <1>2, <1>4, <1>5, IdType DEF TypeOK
  <2>2. hb' \subseteq (Node \X Nat) \X (Node \X Nat)
    BY <1>3, <1>5, <2>1
  <2>3. clock' \in [Node -> Nat] /\ made' \in [Node -> Nat]
    BY <1>0, <1>3 DEF TypeOK
  <2>4. hooks' \subseteq Hook
    BY <1>0 DEF TypeOK
  <2>5. TypeOK'
    BY <1>0, <1>6, <1>7, <2>2, <2>3, <2>4 DEF TypeOK
  <2> QED
    BY <1>0, <2>5 DEF Types
<1>9. Good(Logs, hb, made)'
  <2>1. Logs' \subseteq Logs \cup {Append(log[n], new)}
    BY <1>6, <1>7, LogsAfter
  <2>2. Logs \in SUBSET Seq(Op) /\ log[n] \in Logs
    BY <1>0, LogsType
  <2>3. Good(Logs \cup {Append(log[n], new)}, hb', made')
    BY <1>0, <1>2, <1>3, <1>4, <1>5, <2>2, GoodAdd
  <2> QED
    BY <2>1, <2>3, GoodLess
<1>10. HooksBacked'
  <2>1. ASSUME NEW h \in hooks', h.stage = "work", Protected PROVE Approved(log'[h.node])
    <3>1. Approved(log[h.node]) /\ h.node \in Node
      BY <1>0, <2>1 DEF HooksBacked, TypeOK, Hook
    <3>2. CASE h.node = n
      BY <1>2, <1>5, <1>6, <3>1, <3>2, StillApproved
    <3>3. CASE h.node # n
      BY <1>6, <3>1, <3>3
    <3> QED
      BY <3>2, <3>3
  <2> QED
    BY <2>1 DEF HooksBacked
<1>11. RestSent'
  BY <1>0 DEF RestSent
<1> QED
  BY <1>8, <1>9, <1>10, <1>11 DEF PRInv

\* PullRequest.applyOperations yields well-typed fields.
LEMMA ReplayType ==
  ASSUME NEW old \in View, NEW ops \in Seq(Op), \A o \in OpSet(ops) : Proper(o)
  PROVE  Replay(old, OpSet(ops)) \in View
<1> DEFINE S == OpSet(ops)
           marks == OfKind(S, "status")
           status == IF marks = {} THEN old.status ELSE Last(marks).arg
<1>1. S \subseteq Op
  BY OpSetFinite
<1>2. \A o \in S : Proper(o)
  OBVIOUS
<1>3. Replay(old, S) = [status |-> status, reviewers |-> {o.arg : o \in OfKind(S, "reviewer")}]
  BY DEF Replay
<1> HIDE DEF S
<1>4. marks # {} => Last(marks).arg \in Status
  <2>1. marks \in SUBSET OpSet(ops)
    BY DEF OfKind, S
  <2>2. marks # {} => Last(marks) \in marks
    <3> HIDE DEF marks
    <3> QED
      BY <2>1, OpIsOrdered, LastOfLog
  <2> QED
    BY <1>2, <2>2 DEF OfKind, Proper
<1>5. {o.arg : o \in OfKind(S, "reviewer")} \subseteq Agent
  BY <1>2 DEF OfKind, Proper
<1>6. old.status \in Status
  BY DEF View
<1> HIDE DEF marks
<1>7. status \in Status
  BY <1>4, <1>6
<1> HIDE DEF status
<1> QED
  BY <1>3, <1>5, <1>7 DEF View, S

LEMMA LogProper ==
  ASSUME NEW LL, NEW H, NEW M, Good(LL, H, M), NEW L \in LL
  PROVE  \A o \in OpSet(L) : Proper(o)
BY DEF Good, OpsOf

LEMMA RequestStep ==
  ASSUME PRInv, NEW n \in Node, Request(n)
  PROVE  PRInv'
<1>0. Types /\ TypeOK /\ view \in [Node -> View] /\ busy \in [Node -> {"free", "working", "merging"}]
  BY DEF PRInv, Types, TypeOK
<1>1. ASSUME Create(n) PROVE PRInv'
  <2> DEFINE op == NewOp(n, "create", "open")
  <2>1. Fresh(n, op) /\ op.kind = "create"
    BY <1>0, NewOpIs DEF Status
  <2>2. /\ Add(n, op) /\ hooks' = hooks \cup {NewHook(n, op, "save")}
        /\ UNCHANGED <<view, disk, busy, rest, net, seen, faults, landed, saves, compacting>>
    BY <1>1 DEF Create, extraVars
  <2> HIDE DEF op
  <2>3. NewHook(n, op, "save") \in Hook /\ NewHook(n, op, "save").stage = "save"
    BY <2>1, NewHookType DEF Fresh
  <2>4. /\ op.kind # "status"
        /\ \A h \in hooks' : h \in hooks \/ (h \in Hook /\ h.stage # "work")
    BY <2>1, <2>2, <2>3
  <2> QED
    BY <1>0, <2>1, <2>2, <2>4, AddStep
<1>2. ASSUME NEW a \in Agent, Review(n, a) PROVE PRInv'
  <2> DEFINE op == NewOp(n, "reviewer", a)
             v == [view[n] EXCEPT !.reviewers = @ \cup {a}]
  <2>1. Fresh(n, op) /\ op.kind = "reviewer"
    BY <1>0, NewOpIs
  <2>2. /\ busy' = [busy EXCEPT ![n] = "working"] /\ view' = [view EXCEPT ![n].reviewers = @ \cup {a}]
        /\ IF a \in view[n].reviewers THEN UNCHANGED <<log, clock, made, hb>> ELSE Add(n, op)
        /\ UNCHANGED <<disk, rest, hooks, net, seen, faults, landed, saves, compacting>>
    BY <1>2 DEF Review, extraVars
  <2>3. v \in View
    BY <1>0 DEF View
  <2>4. view' = [view EXCEPT ![n] = v]
    BY <1>0, <2>2
  <2> HIDE DEF op, v
  <2>5. view' \in [Node -> View] /\ busy' \in [Node -> {"free", "working", "merging"}]
    BY <1>0, <2>2, <2>3, <2>4
  <2>6. CASE a \in view[n].reviewers
    <3>1. UNCHANGED <<log, clock, made, hb>>
      BY <2>2, <2>6
    <3>2. Types'
      BY <1>0, <2>2, <2>5, <3>1 DEF Types, TypeOK
    <3>3. Logs' = Logs /\ RestSent'
      BY <2>2, <3>1 DEF PRInv, Logs, AllLogs, RestSent
    <3> QED
      BY <2>2, <3>1, <3>2, <3>3, QuietStep
  <2>7. CASE a \notin view[n].reviewers
    <3>1. Add(n, op) /\ op.kind # "status"
      BY <2>1, <2>2, <2>7
    <3> QED
      BY <2>1, <2>2, <2>5, <3>1, AddStep
  <2> QED
    BY <2>6, <2>7
<1>3. ASSUME NEW verdict \in Verdict, NEW ok \in BOOLEAN, FinishReview(n, verdict, ok) PROVE PRInv'
  <2> DEFINE op == NewOp(n, "review", verdict)
  <2>1. Fresh(n, op) /\ op.kind = "review"
    BY <1>0, NewOpIs
  <2>2. /\ busy' = [busy EXCEPT ![n] = "free"] /\ Add(n, op) /\ Dispatch(n, op, ok)
        /\ SaveLocked(n, ok) /\ UNCHANGED <<view, rest, net, seen, landed, saves, compacting>>
    BY <1>3 DEF FinishReview, extraVars
  <2> HIDE DEF op
  <2>3. NewHook(n, op, "get") \in Hook /\ NewHook(n, op, "get").stage = "get"
    BY <2>1, NewHookType DEF Fresh
  <2>4. /\ op.kind # "status"
        /\ \A h \in hooks' : h \in hooks \/ (h \in Hook /\ h.stage # "work")
    BY <2>1, <2>2, <2>3 DEF Dispatch
  <2>5. view' \in [Node -> View] /\ busy' \in [Node -> {"free", "working", "merging"}]
    BY <1>0, <2>2
  <2> QED
    BY <2>1, <2>2, <2>4, <2>5, AddStep
<1>4. ASSUME NEW ok \in BOOLEAN, BeginMerge(n, ok) PROVE PRInv'
  <2> DEFINE op == NewOp(n, "status", "merged")
             v == [view[n] EXCEPT !.status = "merged"]
  <2>1. Fresh(n, op)
    BY <1>0, NewOpIs DEF Status
  <2>2. /\ Protected => Approved(log[n])
        /\ view' = [view EXCEPT ![n].status = "merged"] /\ Add(n, op)
        /\ hooks' = (IF ok THEN hooks \cup {NewHook(n, op, "work")} ELSE hooks)
        /\ SaveLocked(n, ok) /\ UNCHANGED <<busy, rest, net, seen, landed, saves, compacting>>
    BY <1>4 DEF BeginMerge, extraVars
  <2>3. v \in View
    BY <1>0 DEF View, Status
  <2>4. view' = [view EXCEPT ![n] = v]
    BY <1>0, <2>2
  <2> HIDE DEF op, v
  <2>5. view' \in [Node -> View] /\ busy' \in [Node -> {"free", "working", "merging"}]
    BY <1>0, <2>2, <2>3, <2>4
  <2>6. NewHook(n, op, "work") \in Hook /\ NewHook(n, op, "work").node = n
    BY <2>1, NewHookType DEF Fresh
  <2>7. \A h \in hooks' : h \in hooks \/ (h \in Hook /\ h.node = n)
    BY <2>2, <2>6
  <2> QED
    BY <2>1, <2>2, <2>5, <2>7, AddStep
<1> QED
  BY <1>1, <1>2, <1>3, <1>4 DEF Request

LEMMA OutcomeStep ==
  ASSUME PRInv, NEW h \in hooks, MergeOutcome(h)
  PROVE  PRInv'
<1>0. Types /\ TypeOK /\ RestSent /\ HooksBacked /\ h \in Hook /\ h.node \in Node
  BY DEF PRInv, Types, TypeOK, Hook
<1>1. CASE OpenFails(h)
  <2>1. /\ hooks' = hooks \ {h}
        /\ UNCHANGED <<log, clock, view, disk, busy, rest, net, seen, made, hb, faults,
                       landed, saves, compacting>>
    BY <1>1 DEF OpenFails, extraVars
  <2>2. Types'
    BY <1>0, <2>1 DEF Types, TypeOK
  <2>3. Logs' = Logs /\ RestSent'
    BY <1>0, <2>1 DEF Logs, AllLogs, RestSent
  <2> QED
    BY <2>1, <2>2, <2>3, QuietStep
<1>2. CASE Land(h)
  <2> DEFINE g == [h EXCEPT !.stage = "get"]
  <2>1. /\ hooks' = (hooks \ {h}) \cup {g} /\ landed' = [landed EXCEPT ![h.node] = @ + 1]
        /\ UNCHANGED <<log, clock, view, disk, busy, rest, net, seen, made, hb, faults,
                       saves, compacting>>
    BY <1>2 DEF Land
  <2>2. g \in Hook /\ g.stage = "get"
    BY <1>0 DEF Hook
  <2> HIDE DEF g
  <2>3. Types'
    <3>1. hooks' \subseteq Hook
      BY <1>0, <2>1, <2>2 DEF TypeOK
    <3>2. landed' \in [Node -> Nat]
      BY <1>0, <2>1 DEF Types
    <3>3. TypeOK'
      BY <1>0, <2>1, <3>1 DEF TypeOK
    <3> QED
      BY <1>0, <2>1, <3>2, <3>3 DEF Types
  <2>4. Logs' = Logs /\ RestSent'
    BY <1>0, <2>1 DEF Logs, AllLogs, RestSent
  <2> QED
    BY <2>1, <2>2, <2>3, <2>4, QuietStep
<1>3. ASSUME NEW ok \in BOOLEAN, Revert(h, ok) PROVE PRInv'
  <2> DEFINE n == h.node
             op == NewOp(n, "status", "open")
             v == [view[n] EXCEPT !.status = "open"]
  <2>1. Fresh(n, op)
    BY <1>0, NewOpIs DEF Status
  <2>2. /\ h.stage = "work" /\ view' = [view EXCEPT ![n].status = "open"] /\ Add(n, op)
        /\ hooks' = hooks \ {h} /\ SaveLocked(n, ok)
        /\ UNCHANGED <<busy, rest, net, seen, landed, saves, compacting>>
    BY <1>3 DEF Revert, extraVars
  <2>3. v \in View /\ view \in [Node -> View] /\ busy \in [Node -> {"free", "working", "merging"}]
    <3>1. view \in [Node -> View] /\ busy \in [Node -> {"free", "working", "merging"}]
      BY <1>0 DEF TypeOK
    <3>2. view[n] \in View
      BY <1>0, <3>1
    <3> QED
      BY <3>1, <3>2 DEF View, Status
  <2>4. view' = [view EXCEPT ![n] = v]
    BY <2>2, <2>3
  <2>5. Protected => Approved(log[n])
    BY <1>0, <2>2 DEF HooksBacked
  <2> HIDE DEF op, v
  <2>6. view' \in [Node -> View]
    BY <2>3, <2>4
  <2> QED
    BY <1>0, <2>1, <2>2, <2>3, <2>5, <2>6, AddStep
<1> QED
  BY <1>1, <1>2, <1>3 DEF MergeOutcome

\* Save, MarshalSave and WriteSave write a log there is, or was.
LEMMA SaveSteps ==
  ASSUME PRInv, \/ \E n \in Node : \E h \in hooks \cup {NewHook(n, [time |-> 0], "save")} :
                     BeginSave(n, h)
                \/ \E s \in saves : MarshalSave(s) \/ \E ok \in BOOLEAN : WriteSave(s, ok)
  PROVE  PRInv'
<1>0. Types /\ TypeOK /\ RestSent
  BY DEF PRInv, Types
<1>1. ASSUME NEW n \in Node, NEW h \in hooks \cup {NewHook(n, [time |-> 0], "save")}, BeginSave(n, h)
      PROVE  PRInv'
  <2> DEFINE new == [node |-> n, time |-> h.time, stage |-> "copied", view |-> view[n], ops |-> <<>>]
  <2>1. /\ saves' = saves \cup {new} /\ hooks' \subseteq hooks /\ (faults' = faults \/ faults' = faults + 1)
        /\ UNCHANGED <<log, clock, view, disk, busy, rest, net, seen, made, hb, landed, compacting>>
    BY <1>1 DEF BeginSave
  <2>2. h.time \in Nat
    <3>1. NewHook(n, [time |-> 0], "save").time = 0
      BY DEF NewHook
    <3>2. \A g \in hooks : g.time \in Nat
      BY <1>0 DEF TypeOK, Hook
    <3> QED
      BY <3>1, <3>2
  <2>3. new \in Save /\ new.ops = <<>>
    BY <1>0, <2>2 DEF Save, TypeOK
  <2> HIDE DEF new
  <2>4. Types'
    BY <1>0, <2>1, <2>3 DEF Types, TypeOK
  <2>5. Logs' \subseteq Logs \cup {<<>>}
    BY <2>1, <2>3 DEF Logs, AllLogs
  <2>6. Good(Logs \cup {<<>>}, hb, made)
    <3>1. OpSet(<<>>) = {} /\ IdSet(<<>>) = {} /\ DOMAIN <<>> = {}
      BY DEF OpSet, IdSet
    <3>2. OpsOf(Logs \cup {<<>>}) = OpsOf(Logs)
      BY <3>1 DEF OpsOf
    <3>3. Backed(<<>>)
      BY <3>1 DEF Backed
    <3>4. Closed(Logs \cup {<<>>}, hb)
      BY <3>1 DEF Closed, PRInv, Good
    <3> QED
      BY <3>1, <3>2, <3>3, <3>4 DEF PRInv, Good
  <2>7. Good(Logs, hb, made)'
    BY <2>1, <2>5, <2>6, GoodLess
  <2>8. HooksBacked' /\ RestSent'
    BY <2>1 DEF PRInv, HooksBacked, RestSent
  <2> QED
    BY <2>4, <2>7, <2>8 DEF PRInv
<1>2. ASSUME NEW s \in saves, MarshalSave(s) PROVE PRInv'
  <2> DEFINE new == [s EXCEPT !.stage = "marshalled", !.ops = log[s.node]]
  <2>1. /\ saves' = (saves \ {s}) \cup {new}
        /\ UNCHANGED <<log, clock, view, disk, busy, rest, hooks, net, seen, made, hb, faults,
                       landed, compacting>>
    BY <1>2 DEF MarshalSave, entityVars
  <2>2. s \in Save /\ s.node \in Node /\ log[s.node] \in Seq(Op)
    BY <1>0 DEF Types, TypeOK, Save
  <2>3. new \in Save /\ new.ops = log[s.node]
    BY <2>2 DEF Save
  <2> HIDE DEF new
  <2>4. Types'
    BY <1>0, <2>1, <2>3 DEF Types, TypeOK
  <2>5. Logs' \subseteq Logs
    BY <2>1, <2>2, <2>3 DEF Logs, AllLogs
  <2>6. RestSent'
    BY <1>0, <2>1 DEF RestSent
  <2> QED
    BY <2>1, <2>4, <2>5, <2>6, QuietStep
<1>3. ASSUME NEW s \in saves, NEW ok \in BOOLEAN, WriteSave(s, ok) PROVE PRInv'
  <2> DEFINE new == [view |-> s.view, ops |-> s.ops]
             g == NewHook(s.node, [time |-> s.time], "get")
  <2>1. /\ saves' = saves \ {s} /\ hooks' \subseteq hooks \cup {g}
        /\ disk' = [disk EXCEPT ![s.node] = new] \/ disk' = disk
        /\ faults' = faults \/ faults' = faults + 1
        /\ UNCHANGED <<log, clock, view, busy, rest, net, seen, made, hb, landed, compacting>>
    BY <1>3 DEF WriteSave
  <2>2. s \in Save /\ s.node \in Node /\ s.time \in Nat /\ s.ops \in Seq(Op) /\ s.view \in View
    BY <1>0 DEF Types, Save
  <2>3. g \in Hook /\ g.stage = "get"
    BY <2>2, NewHookType
  <2>4. new \in [view : View, ops : Seq(Op)] /\ new.ops = s.ops
    BY <2>2
  <2> HIDE DEF new, g
  <2>5. disk' \in [Node -> [view : View, ops : Seq(Op)]]
        /\ \A k \in Node : disk'[k] = disk[k] \/ disk'[k] = new
    <3>1. disk \in [Node -> [view : View, ops : Seq(Op)]]
      BY <1>0 DEF TypeOK
    <3>2. CASE disk' = disk
      BY <3>1, <3>2
    <3>3. CASE disk' = [disk EXCEPT ![s.node] = new]
      BY <2>2, <2>4, <3>1, <3>3
    <3> QED
      BY <2>1, <3>2, <3>3
  <2>6. hooks' \subseteq Hook /\ faults' \in Nat
    BY <1>0, <2>1, <2>3 DEF TypeOK
  <2>7. Types'
    BY <1>0, <2>1, <2>5, <2>6 DEF Types, TypeOK
  <2>8. Logs' \subseteq Logs
    <3>1. \A k \in Node : disk'[k].ops = disk[k].ops \/ disk'[k].ops = s.ops
      BY <2>4, <2>5
    <3> QED
      BY <2>1, <3>1 DEF Logs, AllLogs
  <2>9. RestSent' /\ \A h \in hooks' : h \in hooks \/ h.stage # "work"
    BY <1>0, <2>1, <2>3 DEF RestSent
  <2> QED
    BY <2>1, <2>7, <2>8, <2>9, QuietStep
<1> QED
  BY <1>1, <1>2, <1>3

\* A snapshot or a file that is decoded takes the place of the log of n.
LEMMA ReplaceStep ==
  ASSUME PRInv, NEW n \in Node, NEW ops \in Logs, log' = [log EXCEPT ![n] = Decode(ops)],
         Types', SavedAs(n), RestSent', UNCHANGED <<net, made, hb>>, saves' \subseteq saves,
         \A h \in hooks' : h \in hooks /\ (h.node = n => log[n] = <<>>)
  PROVE  PRInv'
<1>0. Types /\ TypeOK /\ Good(Logs, hb, made) /\ HooksBacked
  BY DEF PRInv, Types
<1>1. Logs \in SUBSET Seq(Op) /\ ops \in Seq(Op)
  BY <1>0, LogsType
<1>2. log'[n] = Decode(ops) /\ \A k \in Node \ {n} : log'[k] = log[k]
  BY <1>0, <1>1, DecodeIs DEF TypeOK
<1>3. Logs' \subseteq Logs \cup {Decode(ops)}
  BY <1>2, LogsAfter
<1>4. Good(Logs \cup {Decode(ops)}, hb, made)
  BY <1>0, <1>1, GoodDecode
<1>5. Good(Logs, hb, made)'
  BY <1>3, <1>4, GoodLess
<1>6. ~Approved(<<>>)
  BY DEF Approved, OfKind, OpSet
<1>7. HooksBacked'
  <2>1. ASSUME NEW h \in hooks', h.stage = "work", Protected PROVE Approved(log'[h.node])
    <3>1. Approved(log[h.node]) /\ h.node \in Node
      BY <1>0, <2>1 DEF HooksBacked, TypeOK, Hook
    <3>2. h.node # n
      BY <1>6, <2>1, <3>1
    <3> QED
      BY <1>2, <3>1, <3>2
  <2> QED
    BY <2>1 DEF HooksBacked
<1> QED
  BY <1>5, <1>7 DEF PRInv

LEMMA ReceiveStep ==
  ASSUME PRInv, NEW n \in Node, Receive(n), UNCHANGED extraVars
  PROVE  PRInv'
<1>0. /\ Types /\ TypeOK /\ RestSent /\ HooksBacked /\ Good(Logs, hb, made)
      /\ UNCHANGED <<landed, saves, compacting>>
  BY DEF PRInv, Types, extraVars
<1>1. ASSUME NEW m \in net, NEW ok \in BOOLEAN, Adopt(n, m, ok) PROVE PRInv'
  <2>1. m \in Snapshot /\ m.ops \in Seq(Op) /\ m.view \in View /\ m.ops \in Logs
    BY <1>0 DEF TypeOK, Snapshot, Logs, AllLogs
  <2>2. Decode(m.ops) \in Seq(Op) /\ ImportedClock(Decode(m.ops)) \in Nat
    BY <2>1, DecodeIs, ClockType
  <2>3. /\ log[n] = <<>> /\ seen' = [seen EXCEPT ![n] = @ \cup {m}]
        /\ log' = [log EXCEPT ![n] = Decode(m.ops)]
        /\ clock' = [clock EXCEPT ![n] = ImportedClock(Decode(m.ops))]
        /\ view' = [view EXCEPT ![n] = m.view]
        /\ UNCHANGED <<busy, rest, hooks, net, made, hb>> /\ SaveLocked(n, ok)
    BY <1>1 DEF Adopt
  <2>4. /\ log' \in [Node -> Seq(Op)] /\ clock' \in [Node -> Nat] /\ view' \in [Node -> View]
        /\ seen' \in [Node -> SUBSET Snapshot]
    BY <1>0, <2>1, <2>2, <2>3 DEF TypeOK
  <2>5. disk' \in [Node -> [view : View, ops : Seq(Op)]] /\ faults' \in Nat /\ SavedAs(n)
    BY <1>0, <2>3, <2>4, SaveType
  <2>6. Types'
    BY <1>0, <2>3, <2>4, <2>5 DEF Types, TypeOK
  <2>7. RestSent'
    BY <1>0, <2>3 DEF RestSent
  <2> QED
    BY <1>0, <2>1, <2>3, <2>5, <2>6, <2>7, ReplaceStep
<1>2. ASSUME NEW m \in net, StartMerge(n, m) PROVE PRInv'
  <2>1. m \in Snapshot /\ m.ops \in Seq(Op)
    BY <1>0 DEF TypeOK, Snapshot
  <2>2. Decode(m.ops) \in Seq(Op) /\ ImportedClock(Decode(m.ops)) \in Nat
    BY <2>1, DecodeIs, ClockType
  <2>3. /\ (faults' = faults \/ faults' = faults + 1) /\ seen' = [seen EXCEPT ![n] = @ \cup {m}]
        /\ clock' = [clock EXCEPT ![n] = Observe(@, ImportedClock(Decode(m.ops)))]
        /\ busy' = [busy EXCEPT ![n] = "merging"] /\ rest' = [rest EXCEPT ![n] = Decode(m.ops)]
        /\ UNCHANGED <<log, view, disk, hooks, net, made, hb>>
    BY <1>2 DEF StartMerge
  <2>4. /\ clock' \in [Node -> Nat] /\ seen' \in [Node -> SUBSET Snapshot] /\ faults' \in Nat
    BY <1>0, <2>1, <2>2, <2>3 DEF TypeOK, Observe
  <2>5. busy' \in [Node -> {"free", "working", "merging"}]
    BY <1>0, <2>3 DEF TypeOK
  <2>6. rest' \in [Node -> Seq(Op)] /\ \A k \in Node : rest'[k] = rest[k] \/ rest'[k] = Decode(m.ops)
    BY <1>0, <2>2, <2>3 DEF TypeOK
  <2>7. Types'
    BY <1>0, <2>3, <2>4, <2>5, <2>6 DEF Types, TypeOK
  <2>8. RestSent'
    BY <1>0, <2>3, <2>6 DEF RestSent
  <2>9. Logs' = Logs
    BY <1>0, <2>3 DEF Logs, AllLogs
  <2> QED
    BY <2>3, <2>7, <2>8, <2>9, QuietStep
<1>3. ASSUME ImportNext(n) PROVE PRInv'
  <2>1. PICK i \in DOMAIN rest[n] :
          /\ Id(rest[n][i]) \notin IdSet(log[n])
          /\ \A j \in 1 .. i - 1 : Id(rest[n][j]) \in IdSet(log[n])
          /\ log' = [log EXCEPT ![n] = Append(@, rest[n][i])]
          /\ clock' = [clock EXCEPT ![n] = Observe(@, rest[n][i].lamport)]
    BY <1>3 DEF ImportNext
  <2>2. UNCHANGED <<view, disk, busy, rest, hooks, net, seen, made, hb, faults>>
    BY <1>3 DEF ImportNext
  <2>3. PICK m \in net : rest[n] = Decode(m.ops)
    BY <1>0, <2>1 DEF RestSent
  <2>4. m.ops \in Logs /\ m.ops \in Seq(Op)
    BY <1>0, <2>3 DEF Logs, AllLogs, TypeOK, Snapshot
  <2>5. /\ DOMAIN rest[n] = DOMAIN m.ops
        /\ \A j \in DOMAIN m.ops : /\ Id(rest[n][j]) = Id(m.ops[j])
                                   /\ rest[n][j].kind = m.ops[j].kind
                                   /\ rest[n][j].arg = m.ops[j].arg
    BY <2>3, <2>4, DecodeIs
  <2> DEFINE op == rest[n][i]
             K == Append(log[n], op)
  <2>6. op \in Op /\ op.lamport \in Nat /\ log[n] \in Seq(Op)
    <3>1. log[n] \in Seq(Op) /\ rest[n] \in Seq(Op)
      BY <1>0 DEF TypeOK
    <3>2. op \in Op
      BY <2>1, <3>1
    <3> HIDE DEF op
    <3> QED
      BY <3>1, <3>2 DEF Op
  <2>7. i \in DOMAIN m.ops /\ DOMAIN m.ops = 1 .. Len(m.ops) /\ Len(m.ops) \in Nat
    BY <2>1, <2>4, <2>5
  <2>8. \A j \in 1 .. i - 1 : Id(m.ops[j]) \in IdSet(log[n])
    <3>1. \A j \in 1 .. i - 1 : j \in DOMAIN m.ops
      BY <2>7
    <3> QED
      BY <2>1, <2>5, <3>1
  <2>9. Id(op) = Id(m.ops[i]) /\ op.kind = m.ops[i].kind /\ op.arg = m.ops[i].arg
    BY <2>5, <2>7
  <2>10. /\ log' = [log EXCEPT ![n] = K] /\ Id(op) \notin IdSet(log[n])
         /\ clock' = [clock EXCEPT ![n] = Observe(@, op.lamport)]
    BY <2>1
  <2> HIDE DEF op
  <2>11. K \in Seq(Op)
    BY <2>6
  <2>12. Logs \in SUBSET Seq(Op) /\ log[n] \in Logs
    BY <1>0, LogsType
  <2>13. Good(Logs \cup {K}, hb, made)
    BY <1>0, <2>4, <2>6, <2>7, <2>8, <2>9, <2>10, <2>12, GoodImport
  <2>14. \A h \in hooks : h.stage = "work" /\ h.node = n => (Protected => Approved(K))
    BY <1>0, <2>6, StillApproved DEF HooksBacked
  <2> HIDE DEF K
  <2>15. log'[n] = K /\ log' \in [Node -> Seq(Op)] /\ \A k \in Node \ {n} : log'[k] = log[k]
    BY <1>0, <2>10, <2>11 DEF TypeOK
  <2>16. clock' \in [Node -> Nat]
    BY <1>0, <2>6, <2>10 DEF TypeOK, Observe
  <2>17. Types'
    BY <1>0, <2>2, <2>15, <2>16 DEF Types, TypeOK
  <2>18. SavedAs(n)
    BY <2>2 DEF SavedAs
  <2>19. Logs' \subseteq Logs \cup {K}
    BY <1>0, <2>2, <2>15, <2>18, LogsAfter
  <2>20. Good(Logs, hb, made)'
    BY <2>2, <2>13, <2>19, GoodLess
  <2>21. HooksBacked'
    <3>1. \A h \in hooks : h.node \in Node
      BY <1>0 DEF TypeOK, Hook
    <3> QED
      BY <1>0, <2>2, <2>14, <2>15, <3>1 DEF HooksBacked
  <2>22. RestSent'
    BY <1>0, <2>2 DEF RestSent
  <2> QED
    BY <2>17, <2>20, <2>21, <2>22 DEF PRInv
<1>4. ASSUME NEW ok \in BOOLEAN, FinishMerge(n, ok) PROVE PRInv'
  <2>1. /\ view' = [view EXCEPT ![n] = Replay(view[n], OpSet(log[n]))]
        /\ busy' = [busy EXCEPT ![n] = "free"] /\ rest' = [rest EXCEPT ![n] = <<>>]
        /\ UNCHANGED <<log, clock, hooks, net, seen, made, hb>> /\ SaveLocked(n, ok)
    BY <1>4 DEF FinishMerge
  <2>2. log[n] \in Seq(Op) /\ log[n] \in Logs /\ view[n] \in View
    BY <1>0, LogsType DEF TypeOK
  <2>3. Replay(view[n], OpSet(log[n])) \in View
    BY <1>0, <2>2, LogProper, ReplayType
  <2>4. view' \in [Node -> View] /\ log' \in [Node -> Seq(Op)]
    BY <1>0, <2>1, <2>3 DEF TypeOK
  <2>5. disk' \in [Node -> [view : View, ops : Seq(Op)]] /\ faults' \in Nat /\ SavedAs(n)
    BY <1>0, <2>1, <2>4, SaveType
  <2>6. busy' \in [Node -> {"free", "working", "merging"}]
    BY <1>0, <2>1 DEF TypeOK
  <2>7. rest' \in [Node -> Seq(Op)] /\ \A k \in Node : rest'[k] = rest[k] \/ rest'[k] = <<>>
    BY <1>0, <2>1 DEF TypeOK
  <2>8. Types'
    BY <1>0, <2>1, <2>4, <2>5, <2>6, <2>7 DEF Types, TypeOK
  <2>9. RestSent'
    BY <1>0, <2>1, <2>7 DEF RestSent
  <2>10. Logs' \subseteq Logs
    <3>1. Logs' \subseteq Logs \cup {log'[n]}
      BY <1>0, <2>1, <2>5, LogsAfter
    <3> QED
      BY <2>1, <2>2, <3>1
  <2> QED
    BY <2>1, <2>8, <2>9, <2>10, QuietStep
<1> QED
  BY <1>1, <1>2, <1>3, <1>4 DEF Receive

LEMMA RestartStep ==
  ASSUME PRInv, NEW n \in Node, Restart(n)
  PROVE  PRInv'
<1>0. Types /\ TypeOK /\ RestSent
  BY DEF PRInv, Types
<1>1. /\ faults' = faults + 1 /\ log' = [log EXCEPT ![n] = Decode(disk[n].ops)]
      /\ clock' = [clock EXCEPT ![n] = ImportedClock(Decode(disk[n].ops))]
      /\ view' = [view EXCEPT ![n] = disk[n].view] /\ busy' = [busy EXCEPT ![n] = "free"]
      /\ rest' = [rest EXCEPT ![n] = <<>>] /\ hooks' = {h \in hooks : h.node # n}
      /\ saves' \subseteq saves /\ compacting' = [compacting EXCEPT ![n] = <<>>]
      /\ UNCHANGED <<disk, net, made, hb, landed>>
  BY DEF Restart, Crash
<1>2. seen' \in [Node -> SUBSET Snapshot]
  <2>1. PICK taken \in SUBSET net : seen' = [seen EXCEPT ![n] = taken]
    BY DEF Restart, Crash
  <2> QED
    BY <1>0, <2>1 DEF TypeOK
<1>3. disk[n].ops \in Seq(Op) /\ disk[n].view \in View /\ disk[n].ops \in Logs
  BY <1>0 DEF TypeOK, Logs, AllLogs
<1>4. Decode(disk[n].ops) \in Seq(Op) /\ ImportedClock(Decode(disk[n].ops)) \in Nat
  BY <1>3, DecodeIs, ClockType
<1>5. /\ log' \in [Node -> Seq(Op)] /\ clock' \in [Node -> Nat] /\ view' \in [Node -> View]
  BY <1>0, <1>1, <1>3, <1>4 DEF TypeOK
<1>6. /\ busy' \in [Node -> {"free", "working", "merging"}] /\ rest' \in [Node -> Seq(Op)]
      /\ \A k \in Node : rest'[k] = rest[k] \/ rest'[k] = <<>>
  BY <1>0, <1>1 DEF TypeOK
<1>7. compacting' = [k \in Node |-> <<>>]
  BY <1>0, <1>1 DEF Types
<1>8. Types'
  <2>1. faults' \in Nat
    BY <1>0, <1>1 DEF TypeOK
  <2>2. hooks' \subseteq Hook /\ saves' \subseteq Save
    BY <1>0, <1>1 DEF Types, TypeOK
  <2>3. disk' \in [Node -> [view : View, ops : Seq(Op)]] /\ net' \subseteq Snapshot
    BY <1>0, <1>1 DEF TypeOK
  <2>4. made' \in [Node -> Nat] /\ hb' = hb
    BY <1>0, <1>1 DEF TypeOK
  <2>5. TypeOK'
    BY <1>0, <1>2, <1>5, <1>6, <2>1, <2>2, <2>3, <2>4 DEF TypeOK
  <2>6. landed' \in [Node -> Nat]
    BY <1>0, <1>1 DEF Types
  <2> QED
    BY <1>7, <2>2, <2>5, <2>6 DEF Types
<1>9. RestSent'
  BY <1>0, <1>1, <1>6 DEF RestSent
<1>10. SavedAs(n)
  BY <1>1 DEF SavedAs
<1> QED
  BY <1>1, <1>3, <1>8, <1>9, <1>10, ReplaceStep

LEMMA ElseStep ==
  ASSUME PRInv, UNCHANGED extraVars,
         (\E n \in Node : SaveElse(n)) \/ (\E h \in hooks : Publish(h))
  PROVE  PRInv'
<1>0. Types /\ TypeOK /\ RestSent /\ UNCHANGED <<landed, saves, compacting>>
  BY DEF PRInv, Types, extraVars
<1>1. ASSUME NEW n \in Node, SaveElse(n) PROVE PRInv'
  <2>1. /\ disk' = [disk EXCEPT ![n] = [view |-> view[n], ops |-> log[n]]]
        /\ UNCHANGED <<log, clock, view, busy, rest, hooks, net, seen, made, hb, faults>>
    BY <1>1 DEF SaveElse
  <2>2. /\ disk' \in [Node -> [view : View, ops : Seq(Op)]]
        /\ \A k \in Node : disk'[k].ops = disk[k].ops \/ disk'[k].ops = log[n]
    BY <1>0, <2>1 DEF TypeOK
  <2>3. Types'
    BY <1>0, <2>1, <2>2 DEF Types, TypeOK
  <2>4. Logs' \subseteq Logs /\ RestSent'
    BY <1>0, <2>1, <2>2 DEF Logs, AllLogs, RestSent
  <2> QED
    BY <2>1, <2>3, <2>4, QuietStep
<1>2. ASSUME NEW h \in hooks, HookGet(h) PROVE PRInv'
  <2> DEFINE g == [h EXCEPT !.stage = "marshal", !.view = view[h.node]]
  <2>1. hooks' \subseteq hooks \cup {g} /\ UNCHANGED <<storeVars, net, seen, made, hb, faults>>
    BY <1>2 DEF HookGet
  <2>2. h \in Hook /\ view[h.node] \in View
    BY <1>0 DEF TypeOK, Hook
  <2>3. g \in Hook /\ g.stage = "marshal"
    BY <2>2 DEF Hook
  <2> HIDE DEF g
  <2>4. UNCHANGED <<log, clock, view, disk, busy, rest>>
    BY <2>1 DEF storeVars
  <2>5. Types'
    BY <1>0, <2>1, <2>3, <2>4 DEF Types, TypeOK
  <2>6. Logs' = Logs /\ RestSent'
    BY <1>0, <2>1, <2>4 DEF Logs, AllLogs, RestSent
  <2>7. \A k \in hooks' : k \in hooks \/ k.stage # "work"
    BY <2>1, <2>3
  <2> QED
    BY <2>1, <2>4, <2>5, <2>6, <2>7, QuietStep
<1>3. ASSUME NEW h \in hooks, NEW ok \in BOOLEAN, HookPublish(h, ok) PROVE PRInv'
  <2> DEFINE m == [from |-> h.node, view |-> h.view, ops |-> log[h.node]]
  <2>1. /\ hooks' = hooks \ {h} /\ net \subseteq net' /\ net' \subseteq net \cup {m}
        /\ (faults' = faults \/ faults' = faults + 1) /\ UNCHANGED <<storeVars, seen, made, hb>>
    BY <1>3 DEF HookPublish
  <2>2. m \in Snapshot /\ h.node \in Node /\ m.ops = log[h.node]
    BY <1>0 DEF TypeOK, Hook, Snapshot
  <2> HIDE DEF m
  <2>3. UNCHANGED <<log, clock, view, disk, busy, rest>>
    BY <2>1 DEF storeVars
  <2>4. Types'
    <3>1. hooks' \subseteq Hook /\ net' \subseteq Snapshot
      BY <1>0, <2>1, <2>2 DEF TypeOK
    <3>2. faults' \in Nat
      BY <1>0, <2>1 DEF TypeOK
    <3>3. TypeOK'
      BY <1>0, <2>1, <2>3, <3>1, <3>2 DEF TypeOK
    <3> QED
      BY <1>0, <3>3 DEF Types
  <2>5. Logs' \subseteq Logs
    BY <1>0, <2>1, <2>2, <2>3 DEF Logs, AllLogs
  <2>6. RestSent'
    BY <1>0, <2>1, <2>3 DEF RestSent
  <2> QED
    BY <2>1, <2>3, <2>4, <2>5, <2>6, QuietStep
<1> QED
  BY <1>1, <1>2, <1>3 DEF Publish

\* No compaction runs while no log is longer than the limit.
LEMMA NoCompaction ==
  ASSUME Types, Short, NEW n \in Node
  PROVE  ~CompactRead(n) /\ ~CompactWrite(n)
<1>1. compacting[n] = <<>>
  BY DEF Types
<1>2. Len(log[n]) <= Limit /\ Len(log[n]) \in Nat /\ Limit \in Nat
  BY SettingAssumption DEF Short, Types, TypeOK
<1> QED
  BY <1>1, <1>2 DEF CompactRead, CompactWrite

LEMMA PRStep == PRInv /\ Short /\ [Next]_prVars => PRInv'
<1> SUFFICES ASSUME PRInv, Short, [Next]_prVars PROVE PRInv'
  OBVIOUS
<1>1. ASSUME NEW n \in Node, Background(n) PROVE PRInv'
  <2>1. ~CompactRead(n) /\ ~CompactWrite(n)
    BY NoCompaction DEF PRInv
  <2> QED
    BY <1>1, <2>1, SaveSteps, RestartStep DEF Background
<1>2. CASE UNCHANGED prVars
  <2>1. /\ UNCHANGED <<log, clock, view, disk, busy, rest, hooks, net, seen, made, hb, faults>>
        /\ UNCHANGED <<landed, saves, compacting>>
    BY <1>2 DEF prVars, entityVars, extraVars
  <2>2. Types'
    BY <2>1 DEF PRInv, Types, TypeOK
  <2>3. RestSent' /\ Logs' = Logs
    BY <2>1 DEF PRInv, RestSent, Logs, AllLogs
  <2> QED
    BY <2>1, <2>2, <2>3, QuietStep
<1> QED
  BY <1>1, <1>2, RequestStep, OutcomeStep, SaveSteps, ReceiveStep, ElseStep DEF Next
-----------------------------------------------------------------------------
LEMMA PRStart == PRInit => PRInv
<1> SUFFICES ASSUME PRInit PROVE PRInv
  OBVIOUS
<1>1. /\ log = [n \in Node |-> <<>>] /\ clock = [n \in Node |-> 0]
      /\ view = [n \in Node |-> OpenView]
      /\ disk = [n \in Node |-> [view |-> OpenView, ops |-> <<>>]]
      /\ busy = [n \in Node |-> "free"] /\ rest = [n \in Node |-> <<>>] /\ hooks = {}
      /\ net = {} /\ seen = [n \in Node |-> {}] /\ made = [n \in Node |-> 0]
      /\ hb = {} /\ faults = 0 /\ landed = [n \in Node |-> 0] /\ saves = {}
      /\ compacting = [n \in Node |-> <<>>]
  BY DEF PRInit, Init
<1>2. OpenView \in View /\ <<>> \in Seq(Op)
  BY DEF OpenView, View, Status
<1>3. TypeOK
  <2>1. log \in [Node -> Seq(Op)] /\ rest \in [Node -> Seq(Op)] /\ view \in [Node -> View]
    BY <1>1, <1>2
  <2>2. disk \in [Node -> [view : View, ops : Seq(Op)]]
    BY <1>1, <1>2
  <2>3. busy \in [Node -> {"free", "working", "merging"}] /\ seen \in [Node -> SUBSET Snapshot]
    BY <1>1
  <2>4. clock \in [Node -> Nat] /\ made \in [Node -> Nat] /\ faults \in Nat
    BY <1>1
  <2> QED
    BY <1>1, <2>1, <2>2, <2>3, <2>4 DEF TypeOK
<1>4. Types
  BY <1>1, <1>3 DEF Types
<1>5. Logs \subseteq {<<>>}
  BY <1>1 DEF Logs, AllLogs
<1>6. Good({<<>>}, hb, made)
  <2>1. OpSet(<<>>) = {} /\ IdSet(<<>>) = {} /\ DOMAIN <<>> = {}
    BY DEF OpSet, IdSet
  <2>2. OpsOf({<<>>}) = {}
    BY <2>1 DEF OpsOf
  <2> QED
    BY <1>1, <2>1, <2>2 DEF Good, Closed, Backed
<1>7. Good(Logs, hb, made)
  BY <1>5, <1>6, GoodLess
<1>8. RestSent /\ HooksBacked
  BY <1>1 DEF RestSent, HooksBacked
<1> QED
  BY <1>4, <1>7, <1>8 DEF PRInv

\* A log of a pull request that need not be compacted has no operation twice,
\* and none without, or before, those its author had seen: through decoding
\* that renumbers, unlocked saves, restarts and merges.
THEOREM PRLogsSound == Spec /\ []Short => []PRLogs
<1>1. PRInv => PRLogs
  <2> SUFFICES ASSUME PRInv PROVE PRLogs
    OBVIOUS
  <2>1. Types /\ TypeOK /\ Closed(Logs, hb) /\ AllLogs \subseteq Logs
    BY DEF PRInv, Types, Good, Logs
  <2>2. CausallyClosed /\ NoDuplicates
    BY <2>1 DEF Closed, CausallyClosed, NoDuplicates
  <2>3. compacting \in [Node -> Seq(Op)]
    BY <2>1 DEF Types
  <2> QED
    BY <2>1, <2>2, <2>3 DEF Types, PRLogs
<1> QED
  BY <1>1, PRStart, PRStep, PTL DEF Spec

\* On a protected branch no such log shows a pull request merged without an
\* approval before the mark, whoever merged logs, restarted or reverted.
THEOREM ApprovedBeforeMerged == Spec /\ []Short => []MergedWasApproved
<1>1. PRInv => MergedWasApproved
  BY DEF PRInv, Good, Backed, MergedWasApproved, Logs
<1> QED
  BY <1>1, PRStart, PRStep, PTL DEF Spec
-----------------------------------------------------------------------------
(* A daemon alone, which compacts too: of the logs nothing needs be known. *)

OneDaemon == \A m, n \in Node : m = n

AloneTypes ==
  /\ view \in [Node -> View] /\ busy \in [Node -> {"free", "working"}]
  /\ disk = [n \in Node |-> disk[n]] /\ \A n \in Node : disk[n].view \in View
  /\ \A s \in saves : /\ s = [node |-> s.node, time |-> s.time, stage |-> s.stage,
                              view |-> s.view, ops |-> s.ops]
                      /\ s.node \in Node /\ s.time \in Nat /\ s.view \in View
  /\ hooks \subseteq Hook /\ \A m \in net : m.from \in Node
  /\ made \in [Node -> Nat] /\ landed \in [Node -> Nat] /\ faults \in Nat

\* A merge that is pending is the only one, shows in the status, and is one
\* more than the crashes and failures already account for.
Pending(n) == \E h \in hooks : h.stage = "work" /\ h.node = n
Accounted == \A n \in Node : Pending(n) => landed[n] <= faults /\ view[n].status = "merged"

AloneInv == AloneTypes /\ LandsOnce /\ Accounted

\* Steps that begin and end no merge.
LEMMA LandsKept ==
  ASSUME AloneInv, landed' = landed, faults' \in Nat, faults' >= faults,
         \A n \in Node : view'[n].status = view[n].status,
         \A h \in hooks' : h \in hooks \/ h.stage # "work"
  PROVE  (LandsOnce /\ Accounted)'
<1>1. \A n \in Node : landed[n] \in Nat /\ faults \in Nat
  BY DEF AloneInv, AloneTypes
<1>2. \A g, h \in hooks' : g.stage = "work" /\ h.stage = "work" /\ g.node = h.node => g = h
  BY DEF AloneInv, LandsOnce
<1>3. ASSUME NEW n \in Node, Pending(n)' PROVE Pending(n)
  BY <1>3 DEF Pending
<1>4. ASSUME NEW n \in Node
      PROVE  /\ landed'[n] <= faults' + 1
             /\ landed'[n] > faults' => view'[n].status = "merged"
  <2>1. landed[n] <= faults + 1 /\ (landed[n] > faults => view[n].status = "merged")
    BY DEF AloneInv, LandsOnce
  <2>2. landed[n] > faults' => landed[n] > faults
    BY <1>1
  <2> QED
    BY <1>1, <2>1, <2>2
<1>5. ASSUME NEW n \in Node, Pending(n)' PROVE landed'[n] <= faults' /\ view'[n].status = "merged"
  <2>1. landed[n] <= faults /\ view[n].status = "merged"
    BY <1>3, <1>5 DEF AloneInv, Accounted
  <2> QED
    BY <1>1, <2>1
<1>6. LandsOnce'
  BY <1>2, <1>4 DEF LandsOnce
<1> QED
  BY <1>5, <1>6 DEF Accounted

LEMMA AloneSave ==
  ASSUME AloneTypes, NEW n \in Node, NEW ok \in BOOLEAN, view' \in [Node -> View], SaveLocked(n, ok)
  PROVE  /\ disk' = [k \in Node |-> disk'[k]] /\ \A k \in Node : disk'[k].view \in View
         /\ faults' \in Nat /\ faults' >= faults
<1>1. faults \in Nat /\ disk = [k \in Node |-> disk[k]] /\ \A k \in Node : disk[k].view \in View
  BY DEF AloneTypes
<1>2. CASE ok
  <2>1. disk' = [disk EXCEPT ![n] = [view |-> view'[n], ops |-> log'[n]]] /\ faults' = faults
    BY <1>2 DEF SaveLocked
  <2>2. disk' = [k \in Node |-> IF k = n THEN [view |-> view'[n], ops |-> log'[n]] ELSE disk[k]]
    BY <1>1, <2>1
  <2>3. \A k \in Node : disk'[k].view \in View
    BY <1>1, <2>2
  <2> QED
    BY <1>1, <2>1, <2>2, <2>3
<1>3. CASE ~ok
  BY <1>1, <1>3 DEF SaveLocked
<1> QED
  BY <1>2, <1>3

LEMMA HookType ==
  ASSUME NEW n \in Node, NEW t \in Nat, NEW stage \in {"work", "save", "get", "marshal"},
         NEW op, op.time = t
  PROVE  NewHook(n, op, stage) \in Hook /\ NewHook(n, op, stage).stage = stage
BY DEF NewHook, Hook, OpenView, View, Status

LEMMA AloneRequest ==
  ASSUME AloneInv, NEW n \in Node, Request(n)
  PROVE  AloneInv'
<1>0. /\ AloneTypes /\ LandsOnce /\ Accounted /\ made[n] + 1 \in Nat
      /\ view[n] \in View /\ busy \in [Node -> {"free", "working"}]
  BY DEF AloneInv, AloneTypes
<1>1. CASE Create(n)
  <2> DEFINE op == NewOp(n, "create", "open")
             g == NewHook(n, op, "save")
  <2>1. /\ hooks' = hooks \cup {g} /\ made' = [made EXCEPT ![n] = op.time]
        /\ UNCHANGED <<view, disk, busy, net, faults, landed, saves>>
    BY <1>1 DEF Create, Add, extraVars
  <2>2. op.time = made[n] + 1
    BY DEF NewOp
  <2> HIDE DEF op
  <2>3. g \in Hook /\ g.stage = "save"
    BY <1>0, <2>2, HookType
  <2> HIDE DEF g
  <2>4. AloneTypes'
    BY <1>0, <2>1, <2>2, <2>3 DEF AloneTypes
  <2>5. \A h \in hooks' : h \in hooks \/ h.stage # "work"
    BY <2>1, <2>3
  <2>6. faults' \in Nat /\ faults' >= faults
    BY <1>0, <2>1 DEF AloneTypes
  <2> QED
    BY <2>1, <2>4, <2>5, <2>6, LandsKept DEF AloneInv
<1>2. ASSUME NEW a \in Agent, Review(n, a) PROVE AloneInv'
  <2>1. /\ view' = [view EXCEPT ![n].reviewers = @ \cup {a}]
        /\ busy' = [busy EXCEPT ![n] = "working"]
        /\ made' = made \/ made' = [made EXCEPT ![n] = made[n] + 1]
        /\ UNCHANGED <<disk, hooks, net, faults, landed, saves>>
    BY <1>2 DEF Review, Add, NewOp, extraVars
  <2>2. /\ view' \in [Node -> View] /\ \A k \in Node : view'[k].status = view[k].status
    BY <1>0, <2>1 DEF AloneTypes, View
  <2>3. busy' \in [Node -> {"free", "working"}]
    BY <1>0, <2>1
  <2>4. made' \in [Node -> Nat]
    BY <1>0, <2>1 DEF AloneTypes
  <2>5. AloneTypes'
    BY <1>0, <2>1, <2>2, <2>3, <2>4 DEF AloneTypes
  <2>6. faults' \in Nat /\ faults' >= faults
    BY <1>0, <2>1 DEF AloneTypes
  <2> QED
    BY <2>1, <2>2, <2>5, <2>6, LandsKept DEF AloneInv
<1>3. ASSUME NEW v \in Verdict, NEW ok \in BOOLEAN, FinishReview(n, v, ok) PROVE AloneInv'
  <2> DEFINE op == NewOp(n, "review", v)
             g == NewHook(n, op, "get")
  <2>1. /\ hooks' \subseteq hooks \cup {g} /\ made' = [made EXCEPT ![n] = op.time]
        /\ busy' = [busy EXCEPT ![n] = "free"] /\ SaveLocked(n, ok)
        /\ UNCHANGED <<view, net, landed, saves>>
    BY <1>3 DEF FinishReview, Add, Dispatch, extraVars
  <2>2. op.time = made[n] + 1
    BY DEF NewOp
  <2> HIDE DEF op
  <2>3. g \in Hook /\ g.stage = "get"
    BY <1>0, <2>2, HookType
  <2> HIDE DEF g
  <2>4. view' \in [Node -> View] /\ made' \in [Node -> Nat]
    BY <1>0, <2>1, <2>2 DEF AloneTypes
  <2>5. /\ disk' = [k \in Node |-> disk'[k]] /\ \A k \in Node : disk'[k].view \in View
        /\ faults' \in Nat /\ faults' >= faults
    BY <1>0, <2>1, <2>4, AloneSave
  <2>6. busy' \in [Node -> {"free", "working"}] /\ hooks' \subseteq Hook
    BY <1>0, <2>1, <2>3 DEF AloneTypes
  <2>7. AloneTypes'
    BY <1>0, <2>1, <2>4, <2>5, <2>6 DEF AloneTypes
  <2>8. \A h \in hooks' : h \in hooks \/ h.stage # "work"
    BY <2>1, <2>3
  <2> QED
    BY <2>1, <2>5, <2>7, <2>8, LandsKept DEF AloneInv
<1>4. ASSUME NEW ok \in BOOLEAN, BeginMerge(n, ok) PROVE AloneInv'
  <2> DEFINE op == NewOp(n, "status", "merged")
             g == NewHook(n, op, "work")
  <2>1. /\ hooks' \subseteq hooks \cup {g} /\ made' = [made EXCEPT ![n] = op.time]
        /\ view' = [view EXCEPT ![n].status = "merged"] /\ SaveLocked(n, ok)
        /\ view[n].status = "open" /\ UNCHANGED <<busy, net, landed, saves>>
    BY <1>4 DEF BeginMerge, Add, extraVars
  <2>2. op.time = made[n] + 1
    BY DEF NewOp
  <2> HIDE DEF op
  <2>3. g \in Hook /\ g.stage = "work" /\ g.node = n
    BY <1>0, <2>2, HookType DEF NewHook
  <2> HIDE DEF g
  <2>4. view' \in [Node -> View] /\ made' \in [Node -> Nat]
    BY <1>0, <2>1, <2>2 DEF AloneTypes, View, Status
  <2>5. /\ disk' = [k \in Node |-> disk'[k]] /\ \A k \in Node : disk'[k].view \in View
        /\ faults' \in Nat /\ faults' >= faults
    BY <1>0, <2>1, <2>4, AloneSave
  <2>6. hooks' \subseteq Hook
    BY <1>0, <2>1, <2>3 DEF AloneTypes
  <2>7. AloneTypes'
    BY <1>0, <2>1, <2>4, <2>5, <2>6 DEF AloneTypes
  <2>8. view'[n].status = "merged" /\ \A k \in Node \ {n} : view'[k] = view[k]
    BY <1>0, <2>1 DEF AloneTypes, View
  <2>9. ~Pending(n) /\ ~(landed[n] > faults)
    BY <1>0, <2>1 DEF Accounted, LandsOnce
  <2>10. \A k \in Node : landed[k] \in Nat /\ faults \in Nat
    BY <1>0 DEF AloneTypes
  <2>11. \A k \in Node : Pending(k)' => k = n \/ Pending(k)
    BY <2>1, <2>3 DEF Pending
  <2>12. Accounted'
    <3>1. ASSUME NEW k \in Node, Pending(k)' PROVE landed[k] <= faults' /\ view'[k].status = "merged"
      <4>1. CASE k = n
        BY <2>5, <2>8, <2>9, <2>10, <4>1
      <4>2. CASE k # n
        <5>1. landed[k] <= faults /\ view[k].status = "merged"
          BY <1>0, <2>11, <3>1, <4>2 DEF Accounted
        <5> QED
          BY <2>5, <2>8, <2>10, <4>2, <5>1
      <4> QED
        BY <4>1, <4>2
    <3> QED
      BY <2>1, <3>1 DEF Accounted
  <2>13. LandsOnce'
    <3>1. \A e, f \in hooks' : e.stage = "work" /\ f.stage = "work" /\ e.node = f.node => e = f
      BY <1>0, <2>1, <2>3, <2>9 DEF LandsOnce, Pending
    <3>2. ASSUME NEW k \in Node
          PROVE  /\ landed[k] <= faults' + 1
                 /\ landed[k] > faults' => view'[k].status = "merged"
      <4>1. landed[k] <= faults + 1 /\ (landed[k] > faults => view[k].status = "merged")
        BY <1>0 DEF LandsOnce
      <4>2. landed[k] <= faults' + 1 /\ (landed[k] > faults' => landed[k] > faults)
        BY <2>5, <2>10, <4>1
      <4> QED
        BY <2>8, <4>1, <4>2
    <3> QED
      BY <2>1, <3>1, <3>2 DEF LandsOnce
  <2> QED
    BY <2>7, <2>12, <2>13 DEF AloneInv
<1> QED
  BY <1>1, <1>2, <1>3, <1>4 DEF Request

LEMMA AloneOutcome ==
  ASSUME AloneInv, NEW h \in hooks, MergeOutcome(h)
  PROVE  AloneInv'
<1>0. /\ AloneTypes /\ LandsOnce /\ Accounted /\ h \in Hook /\ h.node \in Node
  BY DEF AloneInv, AloneTypes, Hook
<1> DEFINE n == h.node
<1>1. h.stage = "work" /\ Pending(n)
  BY DEF MergeOutcome, OpenFails, Land, Revert, Pending
<1>2. \A k \in Node : landed[k] \in Nat /\ faults \in Nat /\ view[k] \in View /\ made[k] + 1 \in Nat
  BY <1>0 DEF AloneTypes
<1>3. landed[n] <= faults /\ view[n].status = "merged"
  BY <1>0, <1>1 DEF Accounted
<1>4. CASE OpenFails(h)
  <2>1. /\ hooks' = hooks \ {h}
        /\ UNCHANGED <<view, disk, busy, net, made, faults, landed, saves>>
    BY <1>4 DEF OpenFails, extraVars
  <2>2. AloneTypes'
    BY <1>0, <2>1 DEF AloneTypes
  <2>3. faults' \in Nat /\ faults' >= faults
    BY <1>0, <2>1 DEF AloneTypes
  <2> QED
    BY <2>1, <2>2, <2>3, LandsKept DEF AloneInv
<1>5. CASE Land(h)
  <2> DEFINE g == [h EXCEPT !.stage = "get"]
  <2>1. /\ hooks' = (hooks \ {h}) \cup {g} /\ landed' = [landed EXCEPT ![n] = @ + 1]
        /\ UNCHANGED <<view, disk, busy, net, made, faults, saves>>
    BY <1>5 DEF Land
  <2>2. g \in Hook /\ g.stage = "get"
    BY <1>0 DEF Hook
  <2> HIDE DEF g
  <2>3. landed' \in [Node -> Nat]
    BY <1>0, <2>1 DEF AloneTypes
  <2>4. AloneTypes'
    BY <1>0, <2>1, <2>2, <2>3 DEF AloneTypes
  <2>5. landed'[n] = landed[n] + 1 /\ \A k \in Node \ {n} : landed'[k] = landed[k]
    BY <1>0, <2>1 DEF AloneTypes
  <2>6. \A e \in hooks' : e.stage = "work" => e \in hooks /\ e # h /\ e.node # n
    BY <1>0, <1>1, <2>1, <2>2 DEF LandsOnce
  <2>7. Accounted'
    <3>1. \A k \in Node : Pending(k)' => k # n /\ Pending(k)
      BY <2>6 DEF Pending
    <3> QED
      BY <1>0, <2>1, <2>5, <3>1 DEF Accounted
  <2>8. LandsOnce'
    <3>1. \A e, f \in hooks' : e.stage = "work" /\ f.stage = "work" /\ e.node = f.node => e = f
      BY <1>0, <2>6 DEF LandsOnce
    <3>2. ASSUME NEW k \in Node
          PROVE  /\ landed'[k] <= faults + 1
                 /\ landed'[k] > faults => view[k].status = "merged"
      <4>1. CASE k = n
        <5>1. landed'[k] <= faults + 1
          BY <1>2, <1>3, <2>5, <4>1
        <5> QED
          BY <1>3, <4>1, <5>1
      <4>2. CASE k # n
        BY <1>0, <2>5, <4>2 DEF LandsOnce
      <4> QED
        BY <4>1, <4>2
    <3> QED
      BY <2>1, <3>1, <3>2 DEF LandsOnce
  <2> QED
    BY <2>4, <2>7, <2>8 DEF AloneInv
<1>6. ASSUME NEW ok \in BOOLEAN, Revert(h, ok) PROVE AloneInv'
  <2> DEFINE op == NewOp(n, "status", "open")
  <2>1. /\ view' = [view EXCEPT ![n].status = "open"] /\ hooks' = hooks \ {h}
        /\ made' = [made EXCEPT ![n] = op.time] /\ SaveLocked(n, ok)
        /\ UNCHANGED <<busy, net, landed, saves>>
    BY <1>6 DEF Revert, Add, extraVars
  <2>2. op.time = made[n] + 1
    BY DEF NewOp
  <2> HIDE DEF op
  <2>3. view' \in [Node -> View] /\ made' \in [Node -> Nat]
    BY <1>0, <1>2, <2>1, <2>2 DEF AloneTypes, View, Status
  <2>4. /\ disk' = [k \in Node |-> disk'[k]] /\ \A k \in Node : disk'[k].view \in View
        /\ faults' \in Nat /\ faults' >= faults
    BY <1>0, <2>1, <2>3, AloneSave
  <2>5. AloneTypes'
    BY <1>0, <2>1, <2>3, <2>4 DEF AloneTypes
  <2>6. \A e \in hooks' : e.stage = "work" => e \in hooks /\ e.node # n
    BY <1>0, <1>1, <2>1 DEF LandsOnce
  <2>7. \A k \in Node \ {n} : view'[k] = view[k]
    BY <1>0, <2>1 DEF AloneTypes
  <2>8. Accounted'
    <3>1. ASSUME NEW k \in Node, Pending(k)' PROVE landed[k] <= faults' /\ view'[k].status = "merged"
      <4>1. k # n /\ Pending(k)
        BY <2>6, <3>1 DEF Pending
      <4>2. landed[k] <= faults /\ view[k].status = "merged"
        BY <1>0, <4>1 DEF Accounted
      <4> QED
        BY <1>2, <2>4, <2>7, <4>1, <4>2
    <3> QED
      BY <2>1, <3>1 DEF Accounted
  <2>9. LandsOnce'
    <3>1. \A e, f \in hooks' : e.stage = "work" /\ f.stage = "work" /\ e.node = f.node => e = f
      BY <1>0, <2>6 DEF LandsOnce
    <3>2. ASSUME NEW k \in Node
          PROVE  /\ landed[k] <= faults' + 1
                 /\ landed[k] > faults' => view'[k].status = "merged"
      <4>1. landed[k] <= faults + 1 /\ (landed[k] > faults => view[k].status = "merged" /\ k # n)
        BY <1>0, <1>2, <1>3 DEF LandsOnce
      <4>2. landed[k] <= faults' + 1 /\ (landed[k] > faults' => landed[k] > faults)
        BY <1>2, <2>4, <4>1
      <4> QED
        BY <2>7, <4>1, <4>2
    <3> QED
      BY <2>1, <3>1, <3>2 DEF LandsOnce
  <2> QED
    BY <2>5, <2>8, <2>9 DEF AloneInv
<1> QED
  BY <1>4, <1>5, <1>6 DEF MergeOutcome

LEMMA AloneBackground ==
  ASSUME AloneInv, NEW n \in Node, Background(n)
  PROVE  AloneInv'
<1>0. /\ AloneTypes /\ faults \in Nat /\ view[n] \in View
  BY DEF AloneInv, AloneTypes
<1>1. ASSUME NEW h \in hooks \cup {NewHook(n, [time |-> 0], "save")}, BeginSave(n, h)
      PROVE  AloneInv'
  <2>1. /\ hooks' \subseteq hooks /\ (faults' = faults \/ faults' = faults + 1)
        /\ saves' = saves \cup {[node |-> n, time |-> h.time, stage |-> "copied",
                                 view |-> view[n], ops |-> <<>>]}
        /\ UNCHANGED <<view, disk, busy, net, made, landed>>
    BY <1>1 DEF BeginSave
  <2>2. h \in Hook /\ h.time \in Nat
    <3>1. [time |-> 0].time = 0
      OBVIOUS
    <3>2. NewHook(n, [time |-> 0], "save") \in Hook
      BY <3>1, HookType
    <3>3. h \in Hook
      BY <1>0, <3>2 DEF AloneTypes
    <3> QED
      BY <3>3 DEF Hook
  <2>3. faults' \in Nat /\ faults' >= faults
    BY <1>0, <2>1
  <2>4. \A s \in saves' : /\ s = [node |-> s.node, time |-> s.time, stage |-> s.stage,
                                  view |-> s.view, ops |-> s.ops]
                          /\ s.node \in Node /\ s.time \in Nat /\ s.view \in View
    BY <1>0, <2>1, <2>2 DEF AloneTypes
  <2>5. AloneTypes'
    BY <1>0, <2>1, <2>3, <2>4 DEF AloneTypes
  <2> QED
    BY <2>1, <2>3, <2>5, LandsKept DEF AloneInv
<1>2. ASSUME UNCHANGED <<view, disk, busy, rest, hooks, net, seen, made, hb, faults, landed, saves>>
      PROVE  AloneInv'
  <2>1. AloneTypes'
    BY <1>0, <1>2 DEF AloneTypes
  <2>2. faults' \in Nat /\ faults' >= faults
    BY <1>0, <1>2
  <2> QED
    BY <1>2, <2>1, <2>2, LandsKept DEF AloneInv
<1>3. CASE Restart(n)
  <2>1. /\ faults' = faults + 1 /\ view' = [view EXCEPT ![n] = disk[n].view]
        /\ busy' = [busy EXCEPT ![n] = "free"] /\ hooks' = {h \in hooks : h.node # n}
        /\ saves' \subseteq saves /\ UNCHANGED <<disk, net, made, landed>>
    BY <1>3 DEF Restart, Crash
  <2>2. view' \in [Node -> View] /\ busy' \in [Node -> {"free", "working"}]
    BY <1>0, <2>1 DEF AloneTypes
  <2>3. AloneTypes'
    BY <1>0, <2>1, <2>2 DEF AloneTypes
  <2>4. \A k \in Node : landed[k] \in Nat /\ landed[k] <= faults + 1
    BY DEF AloneInv, AloneTypes, LandsOnce
  <2>5. \A k \in Node : landed'[k] <= faults'
    BY <2>1, <2>4
  <2>6. \A k \in Node : Pending(k)' => k # n /\ Pending(k)
    BY <2>1 DEF Pending
  <2>7. \A k \in Node \ {n} : view'[k] = view[k]
    BY <1>0, <2>1 DEF AloneTypes
  <2>8. Accounted'
    <3>1. \A k \in Node : Pending(k)' => view'[k].status = "merged"
      BY <2>6, <2>7 DEF AloneInv, Accounted
    <3> QED
      BY <2>5, <3>1 DEF Accounted
  <2>9. \A e, f \in hooks' : e.stage = "work" /\ f.stage = "work" /\ e.node = f.node => e = f
    BY <2>1 DEF AloneInv, LandsOnce
  <2>10. \A k \in Node : landed'[k] <= faults' + 1 /\ ~(landed'[k] > faults')
    BY <1>0, <2>1, <2>4, <2>5
  <2>11. LandsOnce'
    BY <2>9, <2>10 DEF LandsOnce
  <2> QED
    BY <2>3, <2>8, <2>11 DEF AloneInv
<1> QED
  BY <1>1, <1>2, <1>3 DEF Background

LEMMA Marshalled ==
  ASSUME NEW s, NEW stage, NEW ops,
         s = [node |-> s.node, time |-> s.time, stage |-> s.stage, view |-> s.view, ops |-> s.ops]
  PROVE  [s EXCEPT !.stage = stage, !.ops = ops]
           = [node |-> s.node, time |-> s.time, stage |-> stage, view |-> s.view, ops |-> ops]
<1> DEFINE T(a, b, c, d, e) == [node : {a}, time : {b}, stage : {c, stage}, view : {d}, ops : {e, ops}]
           r == [s EXCEPT !.stage = stage, !.ops = ops]
<1>1. ASSUME NEW a, NEW b, NEW c, NEW d, NEW e,
             s = [node |-> a, time |-> b, stage |-> c, view |-> d, ops |-> e]
      PROVE  r = [node |-> a, time |-> b, stage |-> stage, view |-> d, ops |-> ops]
  <2>1. s \in T(a, b, c, d, e)
    BY <1>1
  <2>2. r \in T(a, b, c, d, e) /\ r.stage = stage /\ r.ops = ops
    BY <2>1
  <2> HIDE DEF r
  <2>3. r \in T(a, b, c, d, e)
          => r = [node |-> a, time |-> b, stage |-> r.stage, view |-> d, ops |-> r.ops]
    OBVIOUS
  <2> QED
    BY <2>2, <2>3
<1> HIDE DEF r
<1>2. r = [node |-> s.node, time |-> s.time, stage |-> stage, view |-> s.view, ops |-> ops]
  BY <1>1, Zenon
<1> QED
  BY <1>2 DEF r

LEMMA AloneSaves ==
  ASSUME AloneInv, NEW s \in saves, MarshalSave(s) \/ \E ok \in BOOLEAN : WriteSave(s, ok)
  PROVE  AloneInv'
<1>0. /\ AloneTypes /\ faults \in Nat /\ s.node \in Node /\ s.time \in Nat /\ s.view \in View
      /\ s = [node |-> s.node, time |-> s.time, stage |-> s.stage, view |-> s.view, ops |-> s.ops]
  BY DEF AloneInv, AloneTypes
<1>1. CASE MarshalSave(s)
  <2> DEFINE r == [s EXCEPT !.stage = "marshalled", !.ops = log[s.node]]
  <2>1. /\ saves' = (saves \ {s}) \cup {r}
        /\ UNCHANGED <<view, disk, busy, hooks, net, made, faults, landed>>
    BY <1>1 DEF MarshalSave, entityVars
  <2>2. /\ r = [node |-> s.node, time |-> s.time, stage |-> "marshalled",
                view |-> s.view, ops |-> log[s.node]]
    BY <1>0, Marshalled, ZenonT(60)
  <2>3. /\ r = [node |-> r.node, time |-> r.time, stage |-> r.stage, view |-> r.view, ops |-> r.ops]
        /\ r.node \in Node /\ r.time \in Nat /\ r.view \in View
    BY <1>0, <2>2
  <2> HIDE DEF r
  <2>4. AloneTypes'
    BY <1>0, <2>1, <2>3 DEF AloneTypes
  <2>5. faults' \in Nat /\ faults' >= faults
    BY <1>0, <2>1
  <2> QED
    BY <2>1, <2>4, <2>5, LandsKept DEF AloneInv
<1>2. ASSUME NEW ok \in BOOLEAN, WriteSave(s, ok) PROVE AloneInv'
  <2> DEFINE g == NewHook(s.node, [time |-> s.time], "get")
  <2>1. /\ saves' \subseteq saves /\ hooks' \subseteq hooks \cup {g}
        /\ disk' = disk \/ disk' = [disk EXCEPT ![s.node] = [view |-> s.view, ops |-> s.ops]]
        /\ faults' = faults \/ faults' = faults + 1
        /\ UNCHANGED <<view, busy, net, made, landed>>
    BY <1>2 DEF WriteSave
  <2>2. g \in Hook /\ g.stage = "get"
    BY <1>0, HookType
  <2> HIDE DEF g
  <2>3. disk' = [k \in Node |-> disk'[k]] /\ \A k \in Node : disk'[k].view \in View
    <3>1. disk = [k \in Node |-> disk[k]] /\ \A k \in Node : disk[k].view \in View
      BY <1>0 DEF AloneTypes
    <3>2. CASE disk' = disk
      BY <3>1, <3>2
    <3>3. CASE disk' = [disk EXCEPT ![s.node] = [view |-> s.view, ops |-> s.ops]]
      <4>1. disk' = [k \in Node |-> IF k = s.node THEN [view |-> s.view, ops |-> s.ops] ELSE disk[k]]
        BY <3>1, <3>3
      <4> QED
        BY <1>0, <3>1, <4>1
    <3> QED
      BY <2>1, <3>2, <3>3
  <2>4. faults' \in Nat /\ faults' >= faults
    BY <1>0, <2>1
  <2>5. AloneTypes'
    BY <1>0, <2>1, <2>2, <2>3, <2>4 DEF AloneTypes
  <2>6. \A h \in hooks' : h \in hooks \/ h.stage # "work"
    BY <2>1, <2>2
  <2> QED
    BY <2>1, <2>4, <2>5, <2>6, LandsKept DEF AloneInv
<1> QED
  BY <1>1, <1>2

\* A daemon alone receives nothing; it saves, and publishes to nobody.
LEMMA AloneElse ==
  ASSUME OneDaemon, AloneInv, UNCHANGED extraVars,
         (\E n \in Node : Receive(n) \/ SaveElse(n)) \/ (\E h \in hooks : Publish(h))
  PROVE  AloneInv'
<1>0. /\ AloneTypes /\ faults \in Nat /\ UNCHANGED <<landed, saves>>
  BY DEF AloneInv, AloneTypes, extraVars
<1>1. ASSUME NEW n \in Node PROVE ~Receive(n)
  <2>1. \A m \in net : m.from = n
    BY <1>0 DEF AloneTypes, OneDaemon
  <2>2. busy[n] # "merging"
    BY <1>0 DEF AloneTypes
  <2> QED
    BY <2>1, <2>2 DEF Receive, Adopt, StartMerge, ImportNext, FinishMerge
<1>2. ASSUME NEW n \in Node, SaveElse(n) PROVE AloneInv'
  <2>1. /\ disk' = [disk EXCEPT ![n] = [view |-> view[n], ops |-> log[n]]]
        /\ UNCHANGED <<view, busy, hooks, net, made, faults>>
    BY <1>2 DEF SaveElse
  <2>2. disk' = [k \in Node |-> disk'[k]] /\ \A k \in Node : disk'[k].view \in View
    <3>1. /\ disk = [k \in Node |-> disk[k]] /\ \A k \in Node : disk[k].view \in View
          /\ view[n] \in View
      BY <1>0 DEF AloneTypes
    <3>2. disk' = [k \in Node |-> IF k = n THEN [view |-> view[n], ops |-> log[n]] ELSE disk[k]]
      BY <2>1, <3>1
    <3> QED
      BY <3>1, <3>2
  <2>3. AloneTypes'
    BY <1>0, <2>1, <2>2 DEF AloneTypes
  <2>4. faults' \in Nat /\ faults' >= faults
    BY <1>0, <2>1
  <2> QED
    BY <1>0, <2>1, <2>3, <2>4, LandsKept DEF AloneInv
<1>3. ASSUME NEW h \in hooks, HookGet(h) PROVE AloneInv'
  <2> DEFINE g == [h EXCEPT !.stage = "marshal", !.view = view[h.node]]
  <2>1. hooks' \subseteq hooks \cup {g} /\ UNCHANGED <<view, disk, busy, net, made, faults>>
    BY <1>3 DEF HookGet, storeVars
  <2>2. h \in Hook /\ view[h.node] \in View
    BY <1>0 DEF AloneTypes, Hook
  <2>3. g \in Hook /\ g.stage = "marshal"
    BY <2>2 DEF Hook
  <2> HIDE DEF g
  <2>4. AloneTypes'
    BY <1>0, <2>1, <2>3 DEF AloneTypes
  <2>5. faults' \in Nat /\ faults' >= faults
    BY <1>0, <2>1
  <2>6. \A k \in hooks' : k \in hooks \/ k.stage # "work"
    BY <2>1, <2>3
  <2> QED
    BY <1>0, <2>1, <2>4, <2>5, <2>6, LandsKept DEF AloneInv
<1>4. ASSUME NEW h \in hooks, NEW ok \in BOOLEAN, HookPublish(h, ok) PROVE AloneInv'
  <2>1. /\ hooks' = hooks \ {h} /\ (faults' = faults \/ faults' = faults + 1)
        /\ \A m \in net' : m \in net \/ m.from = h.node
        /\ UNCHANGED <<view, disk, busy, made>>
    BY <1>4 DEF HookPublish, storeVars
  <2>2. h.node \in Node
    BY <1>0 DEF AloneTypes, Hook
  <2>3. faults' \in Nat /\ faults' >= faults
    BY <1>0, <2>1
  <2>4. AloneTypes'
    BY <1>0, <2>1, <2>2, <2>3 DEF AloneTypes
  <2> QED
    BY <1>0, <2>1, <2>3, <2>4, LandsKept DEF AloneInv
<1> QED
  BY <1>1, <1>2, <1>3, <1>4 DEF Publish

LEMMA AloneStep == OneDaemon /\ AloneInv /\ [Next]_prVars => AloneInv'
<1> SUFFICES ASSUME OneDaemon, AloneInv, [Next]_prVars PROVE AloneInv'
  OBVIOUS
<1>1. CASE UNCHANGED prVars
  <2>1. UNCHANGED <<view, disk, busy, hooks, net, made, faults, landed, saves>>
    BY <1>1 DEF prVars, entityVars, extraVars
  <2>2. AloneTypes'
    BY <2>1 DEF AloneInv, AloneTypes
  <2>3. faults' \in Nat /\ faults' >= faults
    BY <2>1 DEF AloneInv, AloneTypes
  <2> QED
    BY <2>1, <2>2, <2>3, LandsKept DEF AloneInv
<1> QED
  BY <1>1, AloneRequest, AloneOutcome, AloneBackground, AloneSaves, AloneElse DEF Next

LEMMA AloneStart == PRInit => AloneInv
<1> SUFFICES ASSUME PRInit PROVE AloneInv
  OBVIOUS
<1>1. /\ view = [n \in Node |-> OpenView] /\ busy = [n \in Node |-> "free"] /\ net = {}
      /\ disk = [n \in Node |-> [view |-> OpenView, ops |-> <<>>]] /\ hooks = {} /\ saves = {}
      /\ made = [n \in Node |-> 0] /\ landed = [n \in Node |-> 0] /\ faults = 0
  BY DEF PRInit, Init
<1>2. OpenView \in View
  BY DEF OpenView, View, Status
<1>3. AloneTypes
  BY <1>1, <1>2 DEF AloneTypes
<1>4. LandsOnce /\ Accounted
  BY <1>1 DEF LandsOnce, Accounted, Pending
<1> QED
  BY <1>3, <1>4 DEF AloneInv

\* On a daemon without peers a pull request has at most one merge under way,
\* and every merge beyond the first costs a fault, as does showing a merged one
\* as open: MergePR sets the status with the check, before it merges branches.
THEOREM MergedOnce == OneDaemon /\ Spec => []LandsOnce
<1>1. AloneInv => LandsOnce
  BY DEF AloneInv
<1>2. OneDaemon /\ Spec => []AloneInv
  <2> SUFFICES ASSUME OneDaemon PROVE Spec => []AloneInv
    OBVIOUS
  <2>1. AloneInv /\ [Next]_prVars => AloneInv'
    BY AloneStep
  <2> QED
    BY <2>1, AloneStart, PTL DEF Spec
<1> QED
  BY <1>1, <1>2, PTL
-----------------------------------------------------------------------------
(* What CompactLog computes. *)

\* The greatest of some numbers that have a bound.
LEMMA MaxIs ==
  ASSUME NEW S \in SUBSET Nat, NEW b \in Nat, S # {}, \A x \in S : x <= b
  PROVE  Max(S) \in S /\ \A y \in S : Max(S) >= y
<1> DEFINE T == {b - x : x \in S}
<1>1. T # {} /\ T \subseteq Nat
  <2>1. \A x \in S : b - x \in Nat
    OBVIOUS
  <2> QED
    BY <2>1
<1>2. PICK k \in T : \A j \in T : ~ (<<j, k>> \in OpToRel(<, Nat))
  BY <1>1, WFMin, NatLessThanWellFounded
<1>3. PICK x \in S : k = b - x
  BY <1>2
<1>4. \A y \in S : ~ (b - y < b - x)
  BY <1>1, <1>2, <1>3 DEF OpToRel
<1>5. \A y \in S : x >= y
  BY <1>4
<1> QED
  BY <1>5 DEF Max

LEMMA MinIs ==
  ASSUME NEW S \in SUBSET Nat, S # {}
  PROVE  Min(S) \in S /\ \A y \in S : Min(S) <= y
<1>1. PICK k \in S : \A j \in S : ~ (<<j, k>> \in OpToRel(<, Nat))
  BY WFMin, NatLessThanWellFounded
<1>2. \A y \in S : ~ (y < k)
  BY <1>1 DEF OpToRel
<1>3. \A y \in S : k <= y
  BY <1>2
<1> QED
  BY <1>3 DEF Min

Rising(f) == \A i, j \in DOMAIN f : i < j => f[i] < f[j]

\* A set of numbers can be listed in order.
LEMMA ListExists ==
  ASSUME NEW n \in Nat, NEW S \in SUBSET (1 .. n)
  PROVE  Cardinality(S) \in Nat /\ \E f \in [1 .. Cardinality(S) -> S] : Rising(f)
<1> DEFINE Listed(A) == Cardinality(A) \in Nat /\ \E f \in [1 .. Cardinality(A) -> A] : Rising(f)
           T == {k \in Nat : \E A \in SUBSET (1 .. k) : ~ Listed(A)}
<1>1. SUFFICES ASSUME T # {} PROVE FALSE
  OBVIOUS
<1>2. PICK k \in T : \A j \in T : ~ (<<j, k>> \in OpToRel(<, Nat))
  BY <1>1, WFMin, NatLessThanWellFounded
<1>3. \A j \in T : ~ (j < k)
  BY <1>2 DEF OpToRel
<1>4. PICK A \in SUBSET (1 .. k) : ~ Listed(A)
  BY <1>2
<1>5. k \in Nat
  BY <1>2
<1>6. \A j \in Nat : j < k => \A D \in SUBSET (1 .. j) : Listed(D)
  BY <1>3
<1> HIDE DEF Listed, T
<1>7. CASE k = 0
  <2>1. A = {} /\ Cardinality({}) = 0
    BY <1>7, FS_EmptySet
  <2> DEFINE f == [i \in 1 .. 0 |-> 0]
  <2>2. f \in [1 .. 0 -> {}] /\ DOMAIN f = {}
    OBVIOUS
  <2> HIDE DEF f
  <2>3. Rising(f)
    BY <2>2 DEF Rising
  <2>4. Cardinality({}) \in Nat /\ f \in [1 .. Cardinality({}) -> {}]
    BY <2>1, <2>2
  <2>5. Listed({})
    BY <2>3, <2>4 DEF Listed
  <2> QED
    BY <1>4, <2>1, <2>5
<1>8. CASE k # 0
  <2> DEFINE B == A \ {k}
             c == Cardinality(B)
  <2>1. k - 1 \in Nat /\ k - 1 < k /\ B \subseteq 1 .. k - 1
    BY <1>5, <1>4, <1>8
  <2>2. Listed(B)
    BY <1>6, <2>1
  <2>3. PICK f \in [1 .. c -> B] : Rising(f)
    BY <2>2 DEF Listed
  <2>4. k \in A
    BY <1>4, <2>2
  <2>5. IsFiniteSet(B) /\ A = B \cup {k} /\ k \notin B
    <3>1. IsFiniteSet(1 .. k - 1)
      BY <2>1, FS_Interval
    <3> QED
      BY <2>1, <2>4, <3>1, FS_Subset
  <2>6. c \in Nat /\ Cardinality(A) = c + 1
    BY <2>5, FS_AddElement, FS_CardinalityType
  <2> HIDE DEF c, B
  <2> DEFINE g == [i \in 1 .. c + 1 |-> IF i = c + 1 THEN k ELSE f[i]]
  <2>7. \A i \in 1 .. c + 1 : i = c + 1 \/ i \in 1 .. c
    BY <2>6
  <2>8. g \in [1 .. c + 1 -> A]
    BY <2>3, <2>5, <2>7
  <2>9. ASSUME NEW i \in 1 .. c + 1, NEW j \in 1 .. c + 1, i < j PROVE g[i] < g[j]
    <3>1. i \in 1 .. c /\ i # c + 1 /\ f[i] \in B
      BY <2>3, <2>6, <2>9
    <3>2. CASE j = c + 1
      <4>1. g[i] = f[i] /\ g[j] = k
        BY <3>1, <3>2
      <4>2. f[i] < k
        <5>1. f[i] \in 1 .. k - 1
          BY <2>1, <3>1
        <5> QED
          BY <1>5, <5>1
      <4> QED
        BY <4>1, <4>2
    <3>3. CASE j # c + 1
      <4>1. j \in 1 .. c
        BY <2>7, <3>3
      <4>2. g[i] = f[i] /\ g[j] = f[j]
        BY <3>1, <3>3
      <4> QED
        BY <2>3, <2>9, <3>1, <4>1, <4>2 DEF Rising
    <3> QED
      BY <3>2, <3>3
  <2>10. Rising(g)
    BY <2>8, <2>9 DEF Rising
  <2> QED
    BY <1>4, <2>6, <2>8, <2>10 DEF Listed
<1> QED
  BY <1>7, <1>8

\* Who lists a set in order lists all of it, and nothing twice.
LEMMA ListIs ==
  ASSUME NEW n \in Nat, NEW S \in SUBSET (1 .. n), NEW f \in [1 .. Cardinality(S) -> S], Rising(f)
  PROVE  /\ \A i, j \in DOMAIN f : f[i] = f[j] => i = j
         /\ \A s \in S : \E i \in DOMAIN f : f[i] = s
<1> DEFINE c == Cardinality(S)
<1>1. IsFiniteSet(1 .. n) /\ IsFiniteSet(S)
  <2>1. IsFiniteSet(1 .. n)
    BY FS_Interval
  <2> QED
    BY <2>1, FS_Subset
<1>2. c \in Nat
  BY <1>1, FS_CardinalityType
<1>3. IsFiniteSet(1 .. c) /\ Cardinality(1 .. c) = c
  BY <1>2, FS_Interval
<1>4. \A i, j \in 1 .. c : f[i] = f[j] => i = j
  <2>1. \A i \in 1 .. c : f[i] \in S
    OBVIOUS
  <2>2. \A i, j \in 1 .. c : i < j => f[i] # f[j]
    <3>1. ASSUME NEW i \in 1 .. c, NEW j \in 1 .. c, i < j PROVE f[i] # f[j]
      <4>1. f[i] < f[j]
        BY <3>1 DEF Rising
      <4>2. f[i] \in Nat
        <5>1. f[i] \in 1 .. n
          BY <2>1
        <5> QED
          BY <5>1
      <4> QED
        BY <4>1, <4>2
    <3> QED
      BY <3>1
  <2> QED
    BY <1>2, <2>2
<1>5. f \in Injection(1 .. c, S)
  BY <1>4 DEF Injection, IsInjective
<1>6. f \in Surjection(1 .. c, S)
  BY <1>1, <1>3, <1>5, FS_Injection
<1> QED
  BY <1>4, <1>6 DEF Surjection
\* What CompactLog keeps: of each key the last, and that once.
Latest(ops, i) == \A j \in DOMAIN ops : Key(ops[j]) = Key(ops[i]) => j <= i

LEMMA CompactedIs ==
  ASSUME NEW ops \in Seq(Op)
  PROVE  LET new == Compacted(ops) IN
         /\ new \in Seq(Op)
         /\ \A k \in DOMAIN new : \E i \in DOMAIN ops : Latest(ops, i) /\ new[k] = ops[i]
         /\ \A i \in DOMAIN ops : Latest(ops, i) => \E k \in DOMAIN new : new[k] = ops[i]
         /\ \A k, l \in DOMAIN new : Key(new[k]) = Key(new[l]) => k = l
<1> DEFINE n == Len(ops)
           SameKey(i) == {j \in DOMAIN ops : Key(ops[j]) = Key(ops[i])}
           firsts == {i \in DOMAIN ops : i = Min(SameKey(i))}
           order == CHOOSE f \in [1 .. Cardinality(firsts) -> firsts] :
                      \A i, j \in DOMAIN f : i < j => f[i] < f[j]
           new == [k \in DOMAIN order |-> ops[Max(SameKey(order[k]))]]
<1>1. Compacted(ops) = new
  BY DEF Compacted
<1>2. n \in Nat /\ DOMAIN ops = 1 .. n /\ \A i \in DOMAIN ops : ops[i] \in Op
  OBVIOUS
<1> HIDE DEF n
<1>3. \A i \in DOMAIN ops : SameKey(i) \in SUBSET (1 .. n) /\ i \in SameKey(i)
  BY <1>2
<1>4. \A i, j \in DOMAIN ops : (j \in SameKey(i)) <=> Key(ops[j]) = Key(ops[i])
  OBVIOUS
<1>5. \A i, j \in DOMAIN ops : j \in SameKey(i) => SameKey(j) = SameKey(i)
  OBVIOUS
<1> HIDE DEF SameKey
<1>6. ASSUME NEW i \in DOMAIN ops
      PROVE  /\ Max(SameKey(i)) \in SameKey(i) /\ \A j \in SameKey(i) : j <= Max(SameKey(i))
             /\ Min(SameKey(i)) \in SameKey(i)
  <2>1. SameKey(i) \in SUBSET Nat /\ SameKey(i) # {} /\ \A j \in SameKey(i) : j <= n
    BY <1>2, <1>3
  <2>2. \A j \in SameKey(i) : Max(SameKey(i)) >= j /\ j \in Nat
    BY <1>2, <2>1, MaxIs
  <2>3. Max(SameKey(i)) \in SameKey(i)
    BY <1>2, <2>1, MaxIs
  <2>4. Min(SameKey(i)) \in SameKey(i)
    BY <2>1, MinIs
  <2> QED
    BY <2>1, <2>2, <2>3, <2>4
<1>7. firsts \in SUBSET (1 .. n)
  BY <1>2
<1>8. \A i \in DOMAIN ops : Min(SameKey(i)) \in firsts
  <2> SUFFICES ASSUME NEW i \in DOMAIN ops PROVE Min(SameKey(i)) \in firsts
    OBVIOUS
  <2>1. Min(SameKey(i)) \in DOMAIN ops /\ Min(SameKey(i)) \in SameKey(i)
    BY <1>2, <1>3, <1>6
  <2>2. SameKey(Min(SameKey(i))) = SameKey(i)
    BY <1>5, <2>1
  <2> QED
    BY <2>1, <2>2
<1>9. \A i, j \in firsts : Key(ops[i]) = Key(ops[j]) => i = j
  <2> SUFFICES ASSUME NEW i \in firsts, NEW j \in firsts, Key(ops[i]) = Key(ops[j]) PROVE i = j
    OBVIOUS
  <2>1. i \in DOMAIN ops /\ j \in DOMAIN ops /\ i = Min(SameKey(i)) /\ j = Min(SameKey(j))
    OBVIOUS
  <2>2. SameKey(j) = SameKey(i)
    BY <1>4, <1>5, <2>1
  <2> QED
    BY <2>1, <2>2
<1> HIDE DEF firsts
<1>10. order \in [1 .. Cardinality(firsts) -> firsts] /\ Rising(order) /\ Cardinality(firsts) \in Nat
  BY <1>2, <1>7, ListExists DEF Rising
<1> HIDE DEF order
<1>11. /\ \A k, l \in DOMAIN order : order[k] = order[l] => k = l
       /\ \A i \in firsts : \E k \in DOMAIN order : order[k] = i
  BY <1>2, <1>7, <1>10, ListIs
<1>12. \A k \in DOMAIN order : order[k] \in firsts /\ order[k] \in DOMAIN ops
  BY <1>2, <1>7, <1>10
<1>13. ASSUME NEW i \in DOMAIN ops
       PROVE  Max(SameKey(i)) \in DOMAIN ops /\ Latest(ops, Max(SameKey(i)))
              /\ Key(ops[Max(SameKey(i))]) = Key(ops[i])
  <2>1. Max(SameKey(i)) \in DOMAIN ops /\ Max(SameKey(i)) \in SameKey(i)
    BY <1>2, <1>3, <1>6
  <2>2. Key(ops[Max(SameKey(i))]) = Key(ops[i])
    BY <1>4, <2>1
  <2> QED
    BY <1>4, <1>6, <2>1, <2>2 DEF Latest
<1>14. new \in Seq(Op) /\ DOMAIN new = DOMAIN order
  <2>1. new \in [1 .. Cardinality(firsts) -> Op]
    BY <1>2, <1>10, <1>12, <1>13
  <2> QED
    BY <1>10, <2>1
<1>15. \A k \in DOMAIN new : \E i \in DOMAIN ops : Latest(ops, i) /\ new[k] = ops[i]
  BY <1>12, <1>13
<1>16. \A k \in DOMAIN new : Key(new[k]) = Key(ops[order[k]])
  BY <1>12, <1>13
<1>17. \A k, l \in DOMAIN new : Key(new[k]) = Key(new[l]) => k = l
  BY <1>9, <1>11, <1>12, <1>14, <1>16
<1>18. ASSUME NEW i \in DOMAIN ops, Latest(ops, i) PROVE \E k \in DOMAIN new : new[k] = ops[i]
  <2>1. PICK k \in DOMAIN order : order[k] = Min(SameKey(i))
    BY <1>8, <1>11
  <2>2. Min(SameKey(i)) \in DOMAIN ops /\ SameKey(Min(SameKey(i))) = SameKey(i)
    BY <1>2, <1>3, <1>5, <1>6
  <2>3. i <= Max(SameKey(i)) /\ Max(SameKey(i)) <= i
    BY <1>3, <1>6, <1>13, <1>18 DEF Latest
  <2>4. Max(SameKey(i)) = i
    BY <1>2, <1>13, <2>3
  <2> QED
    BY <1>14, <2>1, <2>2, <2>4
<1> HIDE DEF new
<1> QED
  BY <1>1, <1>14, <1>15, <1>17, <1>18

\* A log of a daemon alone: every operation once, changes of the status in the
\* order of their Lamport values, and none that is not made yet; m were made.
Sound(L, m) ==
  /\ L \in Seq(Op)
  /\ \A i, j \in DOMAIN L : Id(L[i]) = Id(L[j]) => i = j
  /\ \A i, j \in DOMAIN L :
       L[i].kind = "status" /\ L[j].kind = "status" /\ i < j => L[i].lamport < L[j].lamport
  /\ \A i \in DOMAIN L : L[i].time <= m

LEMMA SoundEmpty == \A m : Sound(<<>>, m)
  BY DEF Sound

LEMMA SoundMore ==
  ASSUME NEW L, NEW m \in Nat, NEW k \in Nat, Sound(L, m), m <= k
  PROVE  Sound(L, k)
<1>1. \A i \in DOMAIN L : L[i].time \in Nat
  <2>1. \A i \in DOMAIN L : L[i] \in Op
    BY DEF Sound
  <2> QED
    BY <2>1 DEF Op
<1> QED
  BY <1>1 DEF Sound

LEMMA SoundAppend ==
  ASSUME NEW L, NEW m \in Nat, Sound(L, m), NEW op \in Op, op.time = m + 1,
         \A i \in DOMAIN L : L[i].lamport < op.lamport
  PROVE  Sound(Append(L, op), m + 1)
<1> DEFINE K == Append(L, op)
<1>1. L \in Seq(Op) /\ Len(L) \in Nat /\ DOMAIN L = 1 .. Len(L)
  BY DEF Sound
<1>2. /\ K \in Seq(Op) /\ DOMAIN K = 1 .. Len(L) + 1 /\ K[Len(L) + 1] = op
      /\ \A i \in DOMAIN L : K[i] = L[i]
  BY <1>1
<1> HIDE DEF K
<1>3. \A i \in DOMAIN K : i = Len(L) + 1 \/ i \in DOMAIN L
  BY <1>1, <1>2
<1>4. \A i \in DOMAIN L : L[i].time \in Nat /\ L[i].time <= m /\ i < Len(L) + 1
  <2>1. \A i \in DOMAIN L : L[i] \in Op
    BY <1>1
  <2>2. \A i \in DOMAIN L : L[i].time \in Nat
    BY <2>1 DEF Op
  <2> QED
    BY <1>1, <2>2 DEF Sound
<1>5. \A i \in DOMAIN L : Id(L[i]) # Id(op)
  BY <1>4 DEF Id
<1>6. \A i, j \in DOMAIN K : Id(K[i]) = Id(K[j]) => i = j
  BY <1>2, <1>3, <1>5 DEF Sound
<1>7. ASSUME NEW i \in DOMAIN K, NEW j \in DOMAIN K,
             K[i].kind = "status", K[j].kind = "status", i < j
      PROVE  K[i].lamport < K[j].lamport
  <2>1. i \in DOMAIN L
    BY <1>1, <1>2, <1>7
  <2>2. CASE j = Len(L) + 1
    BY <1>2, <2>1, <2>2
  <2>3. CASE j \in DOMAIN L
    BY <1>2, <1>7, <2>1, <2>3 DEF Sound
  <2> QED
    BY <1>3, <2>2, <2>3
<1>8. \A i \in DOMAIN K : K[i].time <= m + 1
  BY <1>2, <1>3, <1>4
<1> QED
  BY <1>2, <1>6, <1>7, <1>8 DEF Sound, K

LEMMA SoundDecode ==
  ASSUME NEW L, NEW m, Sound(L, m)
  PROVE  Sound(Decode(L), m)
<1>1. L \in Seq(Op) /\ DOMAIN L \subseteq Nat
  BY DEF Sound
<1>2. /\ Decode(L) \in Seq(Op) /\ DOMAIN Decode(L) = DOMAIN L
      /\ \A i \in DOMAIN L : Id(Decode(L)[i]) = Id(L[i]) /\ Decode(L)[i].kind = L[i].kind
  BY <1>1, DecodeIs
<1>3. \A i \in DOMAIN L : Decode(L)[i].time = L[i].time /\ Decode(L)[i].lamport = i
  <2>1. \A i \in DOMAIN L : L[i] \in Op
    BY <1>1
  <2>2. \A i \in DOMAIN L : Decode(L)[i] = [L[i] EXCEPT !.lamport = i]
    BY DEF Decode, Renumbered
  <2> QED
    BY <2>1, <2>2 DEF Op
<1> QED
  BY <1>1, <1>2, <1>3 DEF Sound

\* Operations with one ID have one key, and all changes of the status do.
LEMMA Keys ==
  ASSUME NEW a \in Op, NEW b \in Op
  PROVE  /\ a.kind = "status" /\ b.kind = "status" => Key(a) = Key(b)
         /\ Key(a) = Key(b) => a.kind = b.kind
         /\ Key(a) = Key(b) /\ a.kind # "status" => Id(a) = Id(b)
         /\ a = b => Key(a) = Key(b)
  BY DEF Key

\* What CompactLog makes of such a log is one, of operations it had.
LEMMA SoundCompacted ==
  ASSUME NEW L, NEW m, Sound(L, m)
  PROVE  /\ Sound(Compacted(L), m)
         /\ \A k \in DOMAIN Compacted(L) : \E i \in DOMAIN L : Compacted(L)[k] = L[i]
<1> DEFINE K == Compacted(L)
<1>1. L \in Seq(Op)
  BY DEF Sound
<1>2. /\ K \in Seq(Op)
      /\ \A k \in DOMAIN K : \E i \in DOMAIN L : Latest(L, i) /\ K[k] = L[i]
      /\ \A k, l \in DOMAIN K : Key(K[k]) = Key(K[l]) => k = l
  BY <1>1, CompactedIs
<1> HIDE DEF K
<1>3. \A k \in DOMAIN K : K[k] \in Op /\ k \in Nat
  BY <1>2
<1>4. ASSUME NEW k \in DOMAIN K, NEW l \in DOMAIN K, Id(K[k]) = Id(K[l]) PROVE k = l
  <2>1. PICK i \in DOMAIN L : K[k] = L[i]
    BY <1>2
  <2>2. PICK j \in DOMAIN L : K[l] = L[j]
    BY <1>2
  <2>3. K[k] = K[l]
    BY <1>4, <2>1, <2>2 DEF Sound
  <2> QED
    BY <1>2, <2>3
<1>5. \A k, l \in DOMAIN K : K[k].kind = "status" /\ K[l].kind = "status" => k = l
  BY <1>2, <1>3, Keys
<1>6. \A k \in DOMAIN K : K[k].time <= m
  BY <1>2 DEF Sound
<1>7. Sound(K, m)
  BY <1>2, <1>3, <1>4, <1>5, <1>6 DEF Sound
<1> QED
  BY <1>2, <1>7 DEF K

\* It keeps the operations that are not about the status, and the last that is.
LEMMA CompactedKeeps ==
  ASSUME NEW L, NEW m, Sound(L, m)
  PROVE  /\ OpSet(Compacted(L)) \subseteq OpSet(L)
         /\ \A o \in OpSet(L) : o.kind # "status" => o \in OpSet(Compacted(L))
         /\ Last(OfKind(OpSet(Compacted(L)), "status")) = Last(OfKind(OpSet(L), "status"))
         /\ OfKind(OpSet(Compacted(L)), "status") = {} <=> OfKind(OpSet(L), "status") = {}
<1> DEFINE K == Compacted(L)
<1>1. L \in Seq(Op) /\ (\A i \in DOMAIN L : L[i] \in Op) /\ DOMAIN L = 1 .. Len(L) /\ Len(L) \in Nat
  BY DEF Sound
<1>2. /\ K \in Seq(Op)
      /\ \A k \in DOMAIN K : \E i \in DOMAIN L : Latest(L, i) /\ K[k] = L[i]
      /\ \A i \in DOMAIN L : Latest(L, i) => \E k \in DOMAIN K : K[k] = L[i]
  BY <1>1, CompactedIs
<1> HIDE DEF K
<1>3. OpSet(K) \subseteq OpSet(L)
  BY <1>2 DEF OpSet
<1>4. ASSUME NEW i \in DOMAIN L, L[i].kind # "status" PROVE L[i] \in OpSet(K)
  <2>1. \A j \in DOMAIN L : Key(L[j]) = Key(L[i]) => j = i
    <3>1. \A j \in DOMAIN L : Key(L[j]) = Key(L[i]) => Id(L[j]) = Id(L[i])
      BY <1>1, <1>4, Keys
    <3> QED
      BY <3>1 DEF Sound
  <2>2. Latest(L, i)
    BY <1>1, <2>1 DEF Latest
  <2> QED
    BY <1>2, <2>2 DEF OpSet
<1>5. CASE OfKind(OpSet(L), "status") = {}
  <2>1. OfKind(OpSet(K), "status") = {}
    BY <1>3, <1>5 DEF OfKind
  <2> QED
    BY <1>3, <1>4, <1>5, <2>1 DEF OpSet, K
<1>6. CASE OfKind(OpSet(L), "status") # {}
  <2> DEFINE D == {i \in DOMAIN L : L[i].kind = "status"}
             last == Max(D)
             S == OfKind(OpSet(L), "status")
  <2>1. D # {} /\ D \in SUBSET Nat /\ \A i \in D : i <= Len(L)
    BY <1>1, <1>6 DEF OfKind, OpSet
  <2> HIDE DEF D
  <2>2. last \in D /\ \A i \in D : last >= i
    BY <1>1, <2>1, MaxIs
  <2> HIDE DEF last
  <2>3. last \in DOMAIN L /\ L[last].kind = "status"
        /\ \A i \in DOMAIN L : L[i].kind = "status" => i <= last
    BY <2>2 DEF D
  <2>4. Latest(L, last)
    <3>1. \A j \in DOMAIN L : Key(L[j]) = Key(L[last]) => L[j].kind = "status"
      BY <1>1, <2>3, Keys
    <3> QED
      BY <2>3, <3>1 DEF Latest
  <2>5. \A i \in DOMAIN L : Latest(L, i) /\ L[i].kind = "status" => i = last
    <3>1. ASSUME NEW i \in DOMAIN L, Latest(L, i), L[i].kind = "status" PROVE i = last
      <4>1. Key(L[last]) = Key(L[i])
        BY <1>1, <2>3, <3>1, Keys
      <4>2. last <= i /\ i <= last /\ i \in Nat /\ last \in Nat
        BY <1>1, <2>3, <3>1, <4>1 DEF Latest
      <4> QED
        BY <4>2
    <3> QED
      BY <3>1
  <2>6. OfKind(OpSet(K), "status") = {L[last]}
    <3>1. L[last] \in OpSet(K)
      BY <1>2, <2>3, <2>4 DEF OpSet
    <3>2. \A o \in OpSet(K) : o.kind = "status" => o = L[last]
      BY <1>2, <2>5 DEF OpSet
    <3> QED
      BY <2>3, <3>1, <3>2 DEF OfKind
  <2>7. \A o \in S : o = L[last] \/ o.lamport < L[last].lamport
    <3>1. \A i \in DOMAIN L : L[i].kind = "status" => i = last \/ L[i].lamport < L[last].lamport
      <4>1. \A i \in DOMAIN L : L[i].kind = "status" => i = last \/ i < last
        BY <1>1, <2>3
      <4> QED
        BY <2>3, <4>1 DEF Sound
    <3> QED
      BY <3>1 DEF OfKind, OpSet
  <2>8. /\ L[last] \in S /\ L[last].lamport \in Nat
        /\ ~ Before(L[last], L[last])
    <3>1. L[last] \in Op /\ L[last] \in S
      BY <1>1, <2>3 DEF OfKind, OpSet
    <3>2. /\ L[last].lamport \in Nat /\ L[last].node \in Nat /\ L[last].time \in Nat
      BY <3>1, NodeAssumption DEF Op
    <3> QED
      BY <3>1, <3>2 DEF Before
  <2>9. \A o \in S : o.lamport \in Nat
    <3>1. S \subseteq Op
      BY <1>1 DEF OfKind, OpSet
    <3> QED
      BY <3>1 DEF Op
  <2> HIDE DEF S
  <2>10. Last(S) = L[last]
    <3>1. \A p \in S : ~ Before(L[last], p)
      <4>1. ASSUME NEW p \in S, p.lamport < L[last].lamport PROVE ~ Before(L[last], p)
        BY <2>8, <2>9, <4>1 DEF Before
      <4> QED
        BY <2>7, <2>8, <4>1
    <3>2. \A o \in S : o = L[last] \/ Before(o, L[last])
      BY <2>7 DEF Before
    <3> QED
      BY <2>8, <3>1, <3>2 DEF Last
  <2>11. Last({L[last]}) = L[last]
    BY <2>8 DEF Last
  <2>12. \A o \in OpSet(L) : o.kind # "status" => o \in OpSet(K)
    BY <1>4 DEF OpSet
  <2> QED
    BY <1>3, <1>6, <2>6, <2>10, <2>11, <2>12 DEF K, S
<1> QED
  BY <1>5, <1>6
-----------------------------------------------------------------------------
(* Compaction on a daemon alone. *)

\* The logs of a daemon alone, in memory, on file and where the compactor and
\* the saves have read them; the clock dominates the first.
LogSound ==
  /\ log \in [Node -> Seq(Op)] /\ clock \in [Node -> Nat]
  /\ \A n \in Node : Sound(log[n], made[n]) /\ \A i \in DOMAIN log[n] : log[n][i].lamport <= clock[n]
FileSound == \A n \in Node : Sound(disk[n].ops, made[n])
ReadSound ==
  /\ compacting \in [Node -> Seq(Op)] /\ \A n \in Node : Sound(compacting[n], made[n])
  /\ \A s \in saves : Sound(s.ops, made[s.node])
CompactInv == AloneInv /\ LogSound /\ FileSound /\ ReadSound

LEMMA LogAdd ==
  ASSUME CompactInv, NEW n \in Node, NEW op \in Op, op.time = made[n] + 1, Add(n, op)
  PROVE  LogSound' /\ \A k \in Node : made'[k] \in Nat /\ made[k] <= made'[k]
<1> DEFINE new == Stamp(op, clock[n])
<1>1. /\ log \in [Node -> Seq(Op)] /\ clock \in [Node -> Nat] /\ made \in [Node -> Nat]
      /\ Sound(log[n], made[n]) /\ \A i \in DOMAIN log[n] : log[n][i].lamport <= clock[n]
  BY DEF CompactInv, LogSound, AloneInv, AloneTypes
<1>2. /\ log' = [log EXCEPT ![n] = Append(log[n], new)]
      /\ clock' = [clock EXCEPT ![n] = clock[n] + 1] /\ made' = [made EXCEPT ![n] = made[n] + 1]
  BY DEF Add
<1>3. new \in Op /\ new.time = made[n] + 1 /\ new.lamport = clock[n] + 1
  BY <1>1, StampOp DEF Stamp, Op
<1> HIDE DEF new
<1>4. /\ log' \in [Node -> Seq(Op)] /\ clock' \in [Node -> Nat] /\ made' \in [Node -> Nat]
      /\ \A k \in Node : made[k] <= made'[k]
  BY <1>1, <1>2, <1>3
<1>5. /\ log[n] \in Seq(Op) /\ clock[n] \in Nat /\ made[n] \in Nat
      /\ \A i \in DOMAIN log[n] : log[n][i].lamport \in Nat
  <2>1. log[n] \in Seq(Op) /\ \A i \in DOMAIN log[n] : log[n][i] \in Op
    BY <1>1
  <2> QED
    BY <1>1, <2>1 DEF Op
<1>6. Sound(Append(log[n], new), made[n] + 1)
  BY <1>1, <1>3, <1>5, SoundAppend
<1>7. \A i \in DOMAIN Append(log[n], new) : Append(log[n], new)[i].lamport <= clock[n] + 1
  <2> SUFFICES ASSUME NEW i \in DOMAIN Append(log[n], new)
               PROVE  Append(log[n], new)[i].lamport <= clock[n] + 1
    OBVIOUS
  <2>1. CASE i \in DOMAIN log[n]
    BY <1>1, <1>5, <2>1
  <2>2. CASE i = Len(log[n]) + 1
    BY <1>3, <1>5, <2>2
  <2> QED
    BY <1>5, <2>1, <2>2
<1>8. ASSUME NEW k \in Node
      PROVE  Sound(log'[k], made'[k]) /\ \A i \in DOMAIN log'[k] : log'[k][i].lamport <= clock'[k]
  <2>1. CASE k = n
    <3>1. log'[n] = Append(log[n], new) /\ clock'[n] = clock[n] + 1 /\ made'[n] = made[n] + 1
      BY <1>1, <1>2
    <3> QED
      BY <1>6, <1>7, <2>1, <3>1
  <2>2. CASE k # n
    BY <1>1, <1>2, <2>2 DEF CompactInv, LogSound
  <2> QED
    BY <2>1, <2>2
<1> QED
  BY <1>4, <1>8 DEF LogSound

\* Steps that add at most one operation, and read and write logs that are there.
LEMMA CompactKept ==
  ASSUME CompactInv, AloneInv',
         UNCHANGED <<log, clock, made>>
           \/ \E n \in Node, op \in Op : op.time = made[n] + 1 /\ Add(n, op),
         \A n \in Node : \/ disk'[n].ops \in {disk[n].ops, log'[n]}
                         \/ \E s \in saves : s.node = n /\ disk'[n].ops = s.ops,
         compacting' = compacting,
         \A s \in saves' : s \in saves \/ s.ops = <<>> \/ s.ops = log[s.node]
  PROVE  CompactInv'
<1>1. LogSound' /\ \A k \in Node : made'[k] \in Nat /\ made[k] <= made'[k]
  <2>1. CASE UNCHANGED <<log, clock, made>>
    BY <2>1 DEF CompactInv, LogSound, AloneInv, AloneTypes
  <2> QED
    BY <2>1, LogAdd
<1>2. \A k \in Node : made[k] \in Nat
  BY DEF CompactInv, AloneInv, AloneTypes
<1>3. ASSUME NEW n \in Node PROVE Sound(disk'[n].ops, made'[n])
  <2>1. CASE disk'[n].ops = log'[n]
    BY <1>1, <2>1 DEF LogSound
  <2>2. CASE Sound(disk'[n].ops, made[n])
    BY <1>1, <1>2, <2>2, SoundMore
  <2> QED
    BY <2>1, <2>2 DEF CompactInv, FileSound, ReadSound
<1>4. \A n \in Node : Sound(compacting[n], made'[n])
  BY <1>1, <1>2, SoundMore DEF CompactInv, ReadSound
<1>5. ASSUME NEW s \in saves' PROVE Sound(s.ops, made'[s.node])
  <2>1. s.node \in Node
    BY DEF AloneInv, AloneTypes
  <2>2. Sound(s.ops, made[s.node])
    BY <2>1, SoundEmpty DEF CompactInv, ReadSound, LogSound
  <2> QED
    BY <1>1, <1>2, <2>1, <2>2, SoundMore
<1> QED
  BY <1>1, <1>3, <1>4, <1>5 DEF CompactInv, FileSound, ReadSound

LEMMA FileWritten ==
  ASSUME AloneInv, NEW n \in Node, NEW ok \in BOOLEAN, SaveLocked(n, ok)
  PROVE  \A k \in Node : disk'[k].ops \in {disk[k].ops, log'[k]}
<1>1. disk = [k \in Node |-> disk[k]]
  BY DEF AloneInv, AloneTypes
<1>2. CASE ok
  <2>1. disk' = [disk EXCEPT ![n] = [view |-> view'[n], ops |-> log'[n]]]
    BY <1>2 DEF SaveLocked
  <2>2. disk' = [k \in Node |-> IF k = n THEN [view |-> view'[n], ops |-> log'[n]] ELSE disk[k]]
    BY <1>1, <2>1
  <2> QED
    BY <2>2
<1>3. CASE ~ ok
  BY <1>3 DEF SaveLocked
<1> QED
  BY <1>2, <1>3

LEMMA NewOpType ==
  ASSUME NEW n \in Node, made[n] \in Nat, NEW kind \in {"create", "reviewer", "review", "status"},
         NEW arg \in Agent \cup Status \cup Verdict
  PROVE  NewOp(n, kind, arg) \in Op /\ NewOp(n, kind, arg).time = made[n] + 1
<1>1. made[n] + 1 \in Nat
  OBVIOUS
<1> QED
  BY <1>1 DEF NewOp, Op

LEMMA CompactRequest ==
  ASSUME CompactInv, NEW n \in Node, Request(n), AloneInv'
  PROVE  CompactInv'
<1>0. AloneInv /\ made[n] \in Nat /\ {"open", "merged"} \subseteq Status
  BY DEF CompactInv, AloneInv, AloneTypes, Status
<1>1. CASE Create(n)
  <2> DEFINE op == NewOp(n, "create", "open")
  <2>1. op \in Op /\ op.time = made[n] + 1
    BY <1>0, NewOpType
  <2>2. Add(n, op) /\ UNCHANGED <<disk, saves, compacting>>
    BY <1>1 DEF Create, extraVars
  <2> QED
    BY <2>1, <2>2, CompactKept, <1>1
<1>2. ASSUME NEW a \in Agent, Review(n, a) PROVE CompactInv'
  <2> DEFINE op == NewOp(n, "reviewer", a)
  <2>1. op \in Op /\ op.time = made[n] + 1
    BY <1>0, NewOpType
  <2>2. (UNCHANGED <<log, clock, made>> \/ Add(n, op)) /\ UNCHANGED <<disk, saves, compacting>>
    BY <1>2 DEF Review, extraVars
  <2> HIDE DEF op
  <2> QED
    BY <2>1, <2>2, CompactKept
<1>3. ASSUME NEW v \in Verdict, NEW ok \in BOOLEAN, FinishReview(n, v, ok) PROVE CompactInv'
  <2> DEFINE op == NewOp(n, "review", v)
  <2>1. op \in Op /\ op.time = made[n] + 1
    BY <1>0, NewOpType
  <2>2. Add(n, op) /\ UNCHANGED <<saves, compacting>> /\ SaveLocked(n, ok)
    BY <1>3 DEF FinishReview, extraVars
  <2> HIDE DEF op
  <2> QED
    BY <1>0, <2>1, <2>2, FileWritten, CompactKept
<1>4. ASSUME NEW ok \in BOOLEAN, BeginMerge(n, ok) PROVE CompactInv'
  <2> DEFINE op == NewOp(n, "status", "merged")
  <2>1. op \in Op /\ op.time = made[n] + 1
    BY <1>0, NewOpType
  <2>2. Add(n, op) /\ UNCHANGED <<saves, compacting>> /\ SaveLocked(n, ok)
    BY <1>4 DEF BeginMerge, extraVars
  <2> HIDE DEF op
  <2> QED
    BY <1>0, <2>1, <2>2, FileWritten, CompactKept
<1> QED
  BY <1>1, <1>2, <1>3, <1>4 DEF Request

LEMMA CompactOutcome ==
  ASSUME CompactInv, NEW h \in hooks, MergeOutcome(h), AloneInv'
  PROVE  CompactInv'
<1>0. AloneInv /\ h.node \in Node /\ made[h.node] \in Nat /\ "open" \in Status
  BY DEF CompactInv, AloneInv, AloneTypes, Status, Hook
<1>1. CASE OpenFails(h) \/ Land(h)
  <2>1. UNCHANGED <<log, clock, made, disk, saves, compacting>>
    BY <1>1 DEF OpenFails, Land, extraVars
  <2> QED
    BY <2>1, CompactKept
<1>2. ASSUME NEW ok \in BOOLEAN, Revert(h, ok) PROVE CompactInv'
  <2> DEFINE op == NewOp(h.node, "status", "open")
  <2>1. op \in Op /\ op.time = made[h.node] + 1
    BY <1>0, NewOpType
  <2>2. Add(h.node, op) /\ UNCHANGED <<saves, compacting>> /\ SaveLocked(h.node, ok)
    BY <1>2 DEF Revert, extraVars
  <2> HIDE DEF op
  <2> QED
    BY <1>0, <2>1, <2>2, FileWritten, CompactKept
<1> QED
  BY <1>1, <1>2 DEF MergeOutcome

LEMMA CompactBackground ==
  ASSUME CompactInv, NEW n \in Node, Background(n), AloneInv'
  PROVE  CompactInv'
<1>0. /\ AloneInv /\ made \in [Node -> Nat] /\ log \in [Node -> Seq(Op)] /\ clock \in [Node -> Nat]
      /\ compacting \in [Node -> Seq(Op)]
  BY DEF CompactInv, AloneInv, AloneTypes, LogSound, ReadSound
<1>1. ASSUME NEW h, BeginSave(n, h) PROVE CompactInv'
  <2> DEFINE t == [node |-> n, time |-> h.time, stage |-> "copied", view |-> view[n], ops |-> <<>>]
  <2>1. saves' = saves \cup {t} /\ UNCHANGED <<log, clock, made, disk, compacting>>
    BY <1>1 DEF BeginSave
  <2>2. t.ops = <<>>
    OBVIOUS
  <2> HIDE DEF t
  <2> QED
    BY <2>1, <2>2, CompactKept
<1>2. ASSUME CompactRead(n), UNCHANGED <<made, disk, saves>> PROVE CompactInv'
  <2>1. UNCHANGED <<log, clock>> /\ compacting' = [compacting EXCEPT ![n] = log[n]]
    BY <1>2 DEF CompactRead
  <2>2. LogSound' /\ FileSound'
    BY <1>2, <2>1 DEF CompactInv, LogSound, FileSound
  <2>3. compacting' \in [Node -> Seq(Op)] /\ \A k \in Node : Sound(compacting'[k], made'[k])
    BY <1>0, <1>2, <2>1 DEF CompactInv, LogSound, ReadSound
  <2> QED
    BY <1>2, <2>2, <2>3 DEF CompactInv, ReadSound
<1>3. ASSUME CompactWrite(n), UNCHANGED <<made, disk, saves>> PROVE CompactInv'
  <2> DEFINE ops == compacting[n]
             K == Compacted(ops)
             T == {ops[i].lamport : i \in DOMAIN ops}
  <2>1. /\ ops # <<>> /\ log' = [log EXCEPT ![n] = K] /\ clock' = [clock EXCEPT ![n] = Max(T)]
        /\ compacting' = [compacting EXCEPT ![n] = <<>>]
    BY <1>3 DEF CompactWrite
  <2>2. Sound(ops, made[n]) /\ ops \in Seq(Op)
    BY <1>0 DEF CompactInv, ReadSound
  <2>3. Sound(K, made[n]) /\ K \in Seq(Op) /\ \A k \in DOMAIN K : \E i \in DOMAIN ops : K[k] = ops[i]
    BY <2>2, SoundCompacted DEF Sound
  <2>4. Max(T) \in Nat /\ \A x \in T : x <= Max(T)
    <3>1. ImportedClock(ops) \in Nat /\ \A x \in T : x <= ImportedClock(ops)
      BY <2>2, ImportedClockBound, OpIsOrdered
    <3>2. T \in SUBSET Nat
      <4>1. \A i \in DOMAIN ops : ops[i] \in Op
        BY <2>2
      <4> QED
        BY <4>1 DEF Op
    <3>3. T # {}
      <4>1. 1 \in DOMAIN ops
        BY <2>1, <2>2
      <4> QED
        BY <4>1
    <3> HIDE DEF T
    <3>4. Max(T) \in T /\ \A x \in T : Max(T) >= x
      BY <3>1, <3>2, <3>3, MaxIs
    <3> QED
      BY <3>2, <3>4
  <2>5. \A k \in DOMAIN K : K[k].lamport <= Max(T)
    BY <2>3, <2>4
  <2> HIDE DEF K, T
  <2>6. LogSound'
    <3>1. log' \in [Node -> Seq(Op)] /\ clock' \in [Node -> Nat]
      BY <1>0, <2>1, <2>3, <2>4
    <3>2. /\ log'[n] = K /\ clock'[n] = Max(T)
          /\ \A k \in Node \ {n} : log'[k] = log[k] /\ clock'[k] = clock[k]
      BY <1>0, <2>1
    <3> QED
      BY <1>3, <2>3, <2>5, <3>1, <3>2 DEF CompactInv, LogSound
  <2>7. compacting' \in [Node -> Seq(Op)] /\ \A k \in Node : Sound(compacting'[k], made[k])
    BY <1>0, <2>1, SoundEmpty DEF CompactInv, ReadSound
  <2> QED
    BY <1>3, <2>6, <2>7 DEF CompactInv, FileSound, ReadSound
<1>4. CASE Restart(n)
  <2> DEFINE K == Decode(disk[n].ops)
  <2>1. /\ log' = [log EXCEPT ![n] = K] /\ clock' = [clock EXCEPT ![n] = ImportedClock(K)]
        /\ compacting' = [compacting EXCEPT ![n] = <<>>] /\ saves' \subseteq saves
        /\ UNCHANGED <<disk, made>>
    BY <1>4 DEF Restart, Crash
  <2>2. Sound(K, made[n])
    BY SoundDecode DEF CompactInv, FileSound
  <2>3. K \in Seq(Op) /\ ImportedClock(K) \in Nat /\ \A i \in DOMAIN K : K[i].lamport <= ImportedClock(K)
    BY <2>2, ImportedClockBound, OpIsOrdered DEF Sound
  <2> HIDE DEF K
  <2>4. LogSound'
    <3>1. log' \in [Node -> Seq(Op)] /\ clock' \in [Node -> Nat]
      BY <1>0, <2>1, <2>3
    <3>2. /\ log'[n] = K /\ clock'[n] = ImportedClock(K)
          /\ \A k \in Node \ {n} : log'[k] = log[k] /\ clock'[k] = clock[k]
      BY <1>0, <2>1
    <3> QED
      BY <2>1, <2>2, <2>3, <3>1, <3>2 DEF CompactInv, LogSound
  <2>5. compacting' \in [Node -> Seq(Op)] /\ \A k \in Node : Sound(compacting'[k], made[k])
    BY <1>0, <2>1, SoundEmpty DEF CompactInv, ReadSound
  <2> QED
    BY <2>1, <2>4, <2>5 DEF CompactInv, FileSound, ReadSound
<1> QED
  BY <1>1, <1>2, <1>3, <1>4 DEF Background

LEMMA CompactSaves ==
  ASSUME CompactInv, NEW s \in saves, MarshalSave(s) \/ \E ok \in BOOLEAN : WriteSave(s, ok), AloneInv'
  PROVE  CompactInv'
<1>0. /\ disk = [k \in Node |-> disk[k]] /\ s.node \in Node
      /\ s = [node |-> s.node, time |-> s.time, stage |-> s.stage, view |-> s.view, ops |-> s.ops]
  BY DEF CompactInv, AloneInv, AloneTypes
<1>1. CASE MarshalSave(s)
  <2> DEFINE r == [s EXCEPT !.stage = "marshalled", !.ops = log[s.node]]
  <2>1. saves' = (saves \ {s}) \cup {r} /\ UNCHANGED <<log, clock, made, disk, compacting>>
    BY <1>1 DEF MarshalSave, entityVars
  <2>2. r = [node |-> s.node, time |-> s.time, stage |-> "marshalled", view |-> s.view,
             ops |-> log[s.node]]
    BY <1>0, Marshalled, ZenonT(60)
  <2>3. r.ops = log[r.node]
    BY <2>2
  <2> HIDE DEF r
  <2> QED
    BY <2>1, <2>3, CompactKept
<1>2. ASSUME NEW ok \in BOOLEAN, WriteSave(s, ok) PROVE CompactInv'
  <2>1. /\ saves' \subseteq saves /\ UNCHANGED <<log, clock, made, compacting>>
        /\ disk' = disk \/ disk' = [disk EXCEPT ![s.node] = [view |-> s.view, ops |-> s.ops]]
    BY <1>2 DEF WriteSave
  <2>2. ASSUME NEW n \in Node PROVE disk'[n].ops = disk[n].ops \/ (s.node = n /\ disk'[n].ops = s.ops)
    <3>1. CASE disk' = [disk EXCEPT ![s.node] = [view |-> s.view, ops |-> s.ops]]
      <4>1. disk' = [k \in Node |-> IF k = s.node THEN [view |-> s.view, ops |-> s.ops] ELSE disk[k]]
        BY <1>0, <3>1
      <4> QED
        BY <4>1
    <3> QED
      BY <2>1, <3>1
  <2> QED
    BY <2>1, <2>2, CompactKept
<1> QED
  BY <1>1, <1>2

LEMMA CompactElse ==
  ASSUME OneDaemon, CompactInv, UNCHANGED extraVars, AloneInv',
         (\E n \in Node : Receive(n) \/ SaveElse(n)) \/ (\E h \in hooks : Publish(h))
  PROVE  CompactInv'
<1>0. /\ AloneTypes /\ UNCHANGED <<saves, compacting>>
  BY DEF CompactInv, AloneInv, extraVars
<1>1. ASSUME NEW n \in Node PROVE ~Receive(n)
  <2>1. \A m \in net : m.from = n
    BY <1>0 DEF AloneTypes, OneDaemon
  <2>2. busy[n] # "merging"
    BY <1>0 DEF AloneTypes
  <2> QED
    BY <2>1, <2>2 DEF Receive, Adopt, StartMerge, ImportNext, FinishMerge
<1>2. ASSUME NEW n \in Node, SaveElse(n) PROVE CompactInv'
  <2>1. /\ disk' = [disk EXCEPT ![n] = [view |-> view[n], ops |-> log[n]]]
        /\ UNCHANGED <<log, clock, made>>
    BY <1>2 DEF SaveElse
  <2>2. \A k \in Node : disk'[k].ops \in {disk[k].ops, log'[k]}
    <3>1. disk' = [k \in Node |-> IF k = n THEN [view |-> view[n], ops |-> log[n]] ELSE disk[k]]
      BY <1>0, <2>1 DEF AloneTypes
    <3> QED
      BY <2>1, <3>1
  <2> QED
    BY <1>0, <2>1, <2>2, CompactKept
<1>3. ASSUME NEW h \in hooks, Publish(h) PROVE CompactInv'
  <2>1. UNCHANGED <<log, clock, made, disk>>
    BY <1>3 DEF Publish, HookGet, HookPublish, storeVars
  <2> QED
    BY <1>0, <2>1, CompactKept
<1> QED
  BY <1>1, <1>2, <1>3

LEMMA CompactStep == OneDaemon /\ CompactInv /\ [Next]_prVars => CompactInv'
<1> SUFFICES ASSUME OneDaemon, CompactInv, [Next]_prVars PROVE CompactInv'
  OBVIOUS
<1>1. AloneInv'
  BY AloneStep DEF CompactInv
<1>2. CASE UNCHANGED prVars
  <2>1. UNCHANGED <<log, clock, made, disk, saves, compacting>>
    BY <1>2 DEF prVars, entityVars, extraVars
  <2> QED
    BY <1>1, <2>1, CompactKept
<1> QED
  BY <1>1, <1>2, CompactRequest, CompactOutcome, CompactBackground, CompactSaves, CompactElse DEF Next

LEMMA CompactStart == PRInit => CompactInv
<1> SUFFICES ASSUME PRInit PROVE CompactInv
  OBVIOUS
<1>1. /\ log = [n \in Node |-> <<>>] /\ clock = [n \in Node |-> 0]
      /\ disk = [n \in Node |-> [view |-> OpenView, ops |-> <<>>]] /\ saves = {}
      /\ compacting = [n \in Node |-> <<>>]
  BY DEF PRInit, Init
<1> QED
  BY <1>1, AloneStart, SoundEmpty DEF CompactInv, LogSound, FileSound, ReadSound

\* On a daemon without peers a compaction of a log that no one is changing keeps
\* every review and what a replay of the log shows: CompactLog keeps the last
\* operation of a kind by position, and there that is the last by Lamport value.
THEOREM CompactionHarmless == OneDaemon /\ Spec => CompactionKeepsPR
<1>1. ASSUME CompactInv, NEW n \in Node, CompactWrite(n), compacting[n] = log[n]
      PROVE  /\ OfKind(OpSet(log[n]), "review") \subseteq OpSet(log'[n])
             /\ Replay(view[n], OpSet(log'[n])) = Replay(view[n], OpSet(log[n]))
  <2> DEFINE L == log[n]
             K == Compacted(L)
  <2>1. Sound(L, made[n]) /\ log \in [Node -> Seq(Op)]
    BY <1>1 DEF CompactInv, LogSound
  <2>2. log'[n] = K
    BY <1>1, <2>1 DEF CompactWrite
  <2>3. /\ OpSet(K) \subseteq OpSet(L)
        /\ \A o \in OpSet(L) : o.kind # "status" => o \in OpSet(K)
        /\ Last(OfKind(OpSet(K), "status")) = Last(OfKind(OpSet(L), "status"))
        /\ OfKind(OpSet(K), "status") = {} <=> OfKind(OpSet(L), "status") = {}
    BY <2>1, CompactedKeeps
  <2> HIDE DEF K
  <2>4. OfKind(OpSet(K), "reviewer") = OfKind(OpSet(L), "reviewer")
    BY <2>3 DEF OfKind
  <2>5. OfKind(OpSet(L), "review") \subseteq OpSet(K)
    BY <2>3 DEF OfKind
  <2> QED
    BY <2>2, <2>3, <2>4, <2>5 DEF Replay
<1>2. CompactInv /\ [Next]_prVars =>
        [\A n \in Node : CompactWrite(n) /\ compacting[n] = log[n] =>
           /\ OfKind(OpSet(log[n]), "review") \subseteq OpSet(log'[n])
           /\ Replay(view[n], OpSet(log'[n])) = Replay(view[n], OpSet(log[n]))]_prVars
  BY <1>1
<1>3. OneDaemon /\ Spec => []CompactInv
  <2> SUFFICES ASSUME OneDaemon PROVE Spec => []CompactInv
    OBVIOUS
  <2>1. CompactInv /\ [Next]_prVars => CompactInv'
    BY CompactStep
  <2> QED
    BY <2>1, CompactStart, PTL DEF Spec
<1> QED
  BY <1>2, <1>3, PTL DEF Spec, CompactionKeepsPR
=============================================================================
