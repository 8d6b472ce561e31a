---------------------------- MODULE OpLogProofs ----------------------------
(***************************************************************************)
(* What the order of operations guarantees: a finite, non-empty set of     *)
(* operations always has one that sorts last, so a replay is well defined. *)
(***************************************************************************)
EXTENDS OpLog, FiniteSetTheorems, WellFoundedInduction, TLAPS

\* The fields CompareOps reads.
Ordered(o) == o.lamport \in Nat /\ o.node \in Nat /\ o.time \in Nat

\* A property of finite sets that fails fails for a minimal one: the form of
\* induction over finite sets that needs no operator parameter.
LEMMA MinimalSet ==
  ASSUME NEW S, IsFiniteSet(S), NEW Bad \in SUBSET SUBSET S, Bad # {}
  PROVE  \E U \in Bad : \A V \in Bad : V \subseteq U => V = U
<1>1. IsWellFoundedOn(StrictSubsetOrdering(S), FiniteSubsetsOf(S))
  BY FS_StrictSubsetOrderingWellFounded
<1>2. Bad \subseteq FiniteSubsetsOf(S)
  BY FS_FiniteSubsetsOfFinite
<1>3. \E U \in Bad : \A V \in Bad : ~(<<V, U>> \in StrictSubsetOrdering(S))
  BY <1>1, <1>2, WFMin
<1>4. QED
  BY <1>3 DEF StrictSubsetOrdering

\* CompareOps is a strict partial order.
LEMMA BeforeOrder ==
  ASSUME NEW a, NEW b, NEW c, Ordered(a), Ordered(b), Ordered(c)
  PROVE  ~Before(a, a) /\ (Before(a, b) /\ Before(b, c) => Before(a, c))
  BY DEF Before, Ordered

\* SortOps leaves some operation last: Last(S) is one of S and none sorts
\* after it.
LEMMA LastExists ==
  ASSUME NEW S, IsFiniteSet(S), S # {}, \A o \in S : Ordered(o)
  PROVE  Last(S) \in S /\ \A p \in S : ~Before(Last(S), p)
<1> DEFINE Top(U) == \E o \in U : \A p \in U : ~Before(o, p)
           Bad == {U \in SUBSET S : U # {} /\ ~Top(U)}
<1>1. Bad = {}
  <2>1. SUFFICES ASSUME Bad # {} PROVE FALSE
    OBVIOUS
  <2>2. PICK U \in Bad : \A V \in Bad : V \subseteq U => V = U
    <3> HIDE DEF Top
    <3>1. Bad \in SUBSET SUBSET S
      OBVIOUS
    <3> HIDE DEF Bad
    <3>2. QED
      BY <2>1, <3>1, MinimalSet
  <2>3. PICK x \in U : TRUE
    OBVIOUS
  <2>4. CASE U = {x}
    <3>1. ~Before(x, x)
      BY BeforeOrder
    <3>2. QED
      BY <2>4, <3>1
  <2>5. CASE U # {x}
    <3>1. U \ {x} # {} /\ U \ {x} \in SUBSET S /\ U \ {x} # U
      BY <2>3, <2>5
    <3>2. Top(U \ {x})
      BY <2>2, <3>1
    <3>3. PICK m \in U \ {x} : \A p \in U \ {x} : ~Before(m, p)
      BY <3>2
    <3>4. m \in S /\ x \in S
      OBVIOUS
    <3>5. CASE Before(m, x)
      <4>1. ~Before(x, x)
        BY <3>4, BeforeOrder
      <4>2. ASSUME NEW p \in U \ {x}, Before(x, p) PROVE FALSE
        <5>1. Before(m, p)
          BY <3>4, <3>5, <4>2, BeforeOrder
        <5>2. QED
          BY <3>3, <5>1
      <4>3. \A p \in U : ~Before(x, p)
        BY <4>1, <4>2
      <4>4. QED
        BY <4>3
    <3>6. CASE ~Before(m, x)
      BY <3>3, <3>6
    <3>7. QED
      BY <3>5, <3>6
  <2>6. QED
    BY <2>4, <2>5
<1>2. Top(S)
  BY <1>1
<1>3. QED
  BY <1>2 DEF Last

\* The operations of a log are finitely many.
LEMMA OpSetFinite ==
  ASSUME NEW T, NEW ops \in Seq(T)
  PROVE  IsFiniteSet(OpSet(ops)) /\ OpSet(ops) \subseteq T
<1>1. ops \in Surjection(1 .. Len(ops), OpSet(ops))
  BY DEF Surjection, OpSet
<1>2. IsFiniteSet(1 .. Len(ops))
  BY FS_Interval
<1>3. QED
  BY <1>1, <1>2, FS_Surjection DEF OpSet

\* A replay of some of the operations of a log has a last one.
LEMMA LastOfLog ==
  ASSUME NEW T, NEW ops \in Seq(T), \A o \in T : Ordered(o),
         NEW S \in SUBSET OpSet(ops), S # {}
  PROVE  Last(S) \in S /\ \A p \in S : ~Before(Last(S), p)
<1>1. IsFiniteSet(OpSet(ops)) /\ OpSet(ops) \subseteq T
  BY OpSetFinite
<1>2. IsFiniteSet(S) /\ \A o \in S : Ordered(o)
  BY <1>1, FS_Subset
<1>3. QED
  BY <1>2, LastExists

\* The clock of a rebuilt log dominates every Lamport value in it.
LEMMA ImportedClockBound ==
  ASSUME NEW T, NEW ops \in Seq(T), \A o \in T : Ordered(o)
  PROVE  ImportedClock(ops) \in Nat /\ \A i \in DOMAIN ops : ops[i].lamport <= ImportedClock(ops)
<1>1. CASE ops = <<>>
  BY <1>1 DEF ImportedClock
<1>2. CASE ops # <<>>
  <2> DEFINE S == OpSet(ops)
  <2>1. IsFiniteSet(S) /\ S \subseteq T
    BY OpSetFinite
  <2>2. \A i \in DOMAIN ops : ops[i] \in S
    BY DEF OpSet
  <2>3. S # {}
    <3>1. 1 \in DOMAIN ops
      BY <1>2
    <3>2. QED
      BY <2>2, <3>1
  <2>4. \A o \in S : Ordered(o)
    BY <2>1
  <2> HIDE DEF S
  <2>5. Last(S) \in S /\ \A p \in S : ~Before(Last(S), p)
    BY <2>1, <2>3, <2>4, LastExists
  <2>6. ImportedClock(ops) = Last(S).lamport
    BY <1>2 DEF ImportedClock, S
  <2>7. \A p \in S : p.lamport <= Last(S).lamport
    BY <2>4, <2>5 DEF Before, Ordered
  <2>8. QED
    BY <2>2, <2>4, <2>5, <2>6, <2>7 DEF Ordered
<1>3. QED
  BY <1>1, <1>2

\* What appending one operation does to the operations and the IDs of a log.
LEMMA AppendOp ==
  ASSUME NEW T, NEW ops \in Seq(T), NEW op \in T
  PROVE  LET new == Append(ops, op) IN
         /\ new \in Seq(T) /\ new # <<>>
         /\ DOMAIN new = DOMAIN ops \cup {Len(ops) + 1}
         /\ Len(ops) + 1 \notin DOMAIN ops
         /\ DOMAIN ops = 1 .. Len(ops)
         /\ \A i \in DOMAIN ops : new[i] = ops[i]
         /\ new[Len(ops) + 1] = op
         /\ OpSet(new) = OpSet(ops) \cup {op}
         /\ IdSet(new) = IdSet(ops) \cup {Id(op)}
<1> DEFINE new == Append(ops, op)
<1>1. /\ new \in Seq(T) /\ new # <<>>
      /\ DOMAIN new = DOMAIN ops \cup {Len(ops) + 1}
      /\ Len(ops) + 1 \notin DOMAIN ops
      /\ DOMAIN ops = 1 .. Len(ops)
      /\ \A i \in DOMAIN ops : new[i] = ops[i]
      /\ new[Len(ops) + 1] = op
  OBVIOUS
<1> HIDE DEF new
<1>2. OpSet(new) = OpSet(ops) \cup {op}
  BY <1>1 DEF OpSet
<1>3. IdSet(new) = IdSet(ops) \cup {Id(op)}
  BY <1>1 DEF IdSet
<1>4. QED
  BY <1>1, <1>2, <1>3 DEF new
-----------------------------------------------------------------------------
\* Copying, forgetting or saving logs keeps them causal.
LEMMA CausalSubset ==
  ASSUME NEW LL, NEW H, Causal(LL, H), NEW KK \in SUBSET LL
  PROVE  Causal(KK, H)
<1>1. OpsOf(KK) \subseteq OpsOf(LL)
  BY DEF OpsOf
<1>2. QED
  BY <1>1 DEF Causal, Closed

\* The history G says of the operations of LL no more than H does, and of op
\* only that it depends on operations of L.
Dependencies(LL, H, G, L, op) ==
  /\ \A K \in LL : \A j \in DOMAIN K : \A p \in G : p[2] = Id(K[j]) => p \in H
  /\ \A p \in G : p[2] = Id(op) => p[1] \in IdSet(L)

\* The shape of a log grown by one operation the log does not have.
LEMMA CausalGrow ==
  ASSUME NEW T, NEW LL \in SUBSET Seq(T), NEW H, NEW G, Closed(LL, H),
         NEW L \in LL, NEW op \in T, Id(op) \notin IdSet(L),
         Dependencies(LL, H, G, L, op)
  PROVE  Closed(LL \cup {Append(L, op)}, G)
<1> DEFINE new == Append(L, op)
           e == Len(L) + 1
<1>0. L \in Seq(T)
  OBVIOUS
<1>1. /\ DOMAIN new = DOMAIN L \cup {e} /\ e \notin DOMAIN L /\ DOMAIN L = 1 .. Len(L)
      /\ \A i \in DOMAIN L : new[i] = L[i]
      /\ new[e] = op
  BY <1>0, AppendOp
<1>2. \A i \in DOMAIN L : Id(L[i]) \in IdSet(L)
  BY DEF IdSet
<1> HIDE DEF new
<1>3. \A i, j \in DOMAIN new : Id(new[i]) = Id(new[j]) => i = j
  <2>1. \A i, j \in DOMAIN L : Id(L[i]) = Id(L[j]) => i = j
    BY DEF Closed
  <2>2. QED
    BY <1>1, <1>2, <2>1
<1>4. ASSUME NEW j \in DOMAIN new, NEW p \in G, p[2] = Id(new[j])
      PROVE  \E i \in 1 .. j - 1 : Id(new[i]) = p[1]
  <2>1. CASE j \in DOMAIN L
    <3>1. new[j] = L[j]
      BY <1>1, <2>1
    <3>2. p \in H
      BY <1>4, <2>1, <3>1 DEF Dependencies
    <3>3. PICK i \in 1 .. j - 1 : Id(L[i]) = p[1]
      BY <1>4, <2>1, <3>1, <3>2 DEF Closed
    <3>4. i \in DOMAIN L
      BY <1>1, <2>1
    <3>5. QED
      BY <1>1, <3>3, <3>4
  <2>2. CASE j = e
    <3>1. p[1] \in IdSet(L)
      BY <1>1, <1>4, <2>2 DEF Dependencies
    <3>2. PICK i \in DOMAIN L : Id(L[i]) = p[1]
      BY <3>1 DEF IdSet
    <3>3. i \in 1 .. e - 1
      BY <1>0, <1>1
    <3>4. QED
      BY <1>1, <2>2, <3>2, <3>3
  <2>3. QED
    BY <1>1, <2>1, <2>2
<1>5. Closed(LL, G)
  BY DEF Closed, Dependencies
<1>6. Closed(LL \cup {new}, G)
  BY <1>3, <1>4, <1>5 DEF Closed
<1>7. QED
  BY <1>6 DEF new

\* ImportOperation: a known operation joins a log that has what it depends on.
LEMMA CausalImport ==
  ASSUME NEW T, NEW LL \in SUBSET Seq(T), NEW H, Causal(LL, H),
         NEW L \in LL, NEW op \in T, op \in OpsOf(LL), Id(op) \notin IdSet(L),
         \A p \in H : p[2] = Id(op) => p[1] \in IdSet(L)
  PROVE  Causal(LL \cup {Append(L, op)}, H)
<1> DEFINE new == Append(L, op)
<1>1. OpSet(new) = OpSet(L) \cup {op}
  BY AppendOp
<1> HIDE DEF new
<1>2. OpsOf(LL \cup {new}) = OpsOf(LL)
  BY <1>1 DEF OpsOf
<1>3. Closed(LL \cup {new}, H)
  <2>1. Dependencies(LL, H, H, L, op)
    BY DEF Dependencies
  <2>2. Closed(LL, H)
    BY DEF Causal
  <2>3. QED
    BY <2>1, <2>2, CausalGrow DEF new
<1>4. QED
  BY <1>2, <1>3 DEF Causal, new

\* The same of the history OperationLog.Add extends.
LEMMA ClosedAdd ==
  ASSUME NEW T, NEW LL \in SUBSET Seq(T), NEW H, Closed(LL, H),
         NEW L \in LL, NEW op \in T, Id(op) \notin IdSet(L),
         \A K \in LL : \A j \in DOMAIN K : Id(K[j]) # Id(op),
         \A p \in H : p[2] # Id(op)
  PROVE  Closed(LL \cup {Append(L, op)}, H \cup (IdSet(L) \X {Id(op)}))
<1>1. ASSUME NEW G, G = H \cup (IdSet(L) \X {Id(op)})
      PROVE  Closed(LL \cup {Append(L, op)}, G)
  <2>1. \A p \in G : p \in H \/ (p[2] = Id(op) /\ p[1] \in IdSet(L))
    BY <1>1
  <2>2. Dependencies(LL, H, G, L, op)
    BY <2>1 DEF Dependencies
  <2>3. QED
    BY <2>2, CausalGrow
<1>2. QED
  BY <1>1

\* OperationLog.Add: a fresh operation, stamped above everything in its log.
LEMMA CausalAdd ==
  ASSUME NEW T, NEW LL \in SUBSET Seq(T), NEW H, Causal(LL, H),
         NEW L \in LL, NEW op \in T,
         \A o \in OpsOf(LL) : Id(o) # Id(op),
         \A p \in H : p[2] # Id(op) /\ p[1] # Id(op),
         \A o \in OpSet(L) : o.lamport < op.lamport,
         op.lamport \in Nat
  PROVE  Causal(LL \cup {Append(L, op)}, H \cup (IdSet(L) \X {Id(op)}))
<1> DEFINE new == Append(L, op)
           G == H \cup (IdSet(L) \X {Id(op)})
<1>1. OpSet(new) = OpSet(L) \cup {op}
  BY AppendOp
<1> HIDE DEF new
<1>2. OpsOf(LL \cup {new}) = OpsOf(LL) \cup {op}
  BY <1>1 DEF OpsOf
<1>3. \A a \in OpSet(L) : a \in OpsOf(LL)
  BY DEF OpsOf
<1>4. \A x \in IdSet(L) : \E a \in OpSet(L) : Id(a) = x
  BY DEF IdSet, OpSet
<1>5. Id(op) \notin IdSet(L)
  BY <1>3, <1>4
<1>6. \A K \in LL : \A j \in DOMAIN K : K[j] \in OpsOf(LL)
  BY DEF OpsOf, OpSet
<1>7. Closed(LL \cup {new}, G)
  <2>1. \A K \in LL : \A j \in DOMAIN K : Id(K[j]) # Id(op)
    BY <1>6
  <2>2. Closed(LL, H)
    BY DEF Causal
  <2>3. QED
    BY <1>5, <2>1, <2>2, ClosedAdd DEF new
<1>8. \A a, b \in OpsOf(LL) \cup {op} : Id(a) = Id(b) => a = b
  BY DEF Causal
<1>9. ASSUME NEW a \in OpsOf(LL) \cup {op}, NEW b \in OpsOf(LL) \cup {op}, <<Id(a), Id(b)>> \in G
      PROVE  a.lamport < b.lamport
  <2>1. CASE <<Id(a), Id(b)>> \in H
    <3>1. a \in OpsOf(LL) /\ b \in OpsOf(LL)
      BY <2>1
    <3>2. QED
      BY <2>1, <3>1 DEF Causal
  <2>2. CASE <<Id(a), Id(b)>> \in IdSet(L) \X {Id(op)}
    <3>1. Id(b) = Id(op) /\ Id(a) \in IdSet(L)
      BY <2>2
    <3>2. b = op
      BY <3>1
    <3>3. PICK c \in OpSet(L) : Id(c) = Id(a)
      BY <1>4, <3>1
    <3>4. c = a
      BY <1>3, <1>8, <3>3
    <3>5. QED
      BY <3>2, <3>3, <3>4
  <2>3. QED
    BY <1>9, <2>1, <2>2
<1>10. QED
  BY <1>2, <1>7, <1>8, <1>9 DEF Causal, new
=============================================================================
