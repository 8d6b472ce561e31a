------------------------------- MODULE OpLog -------------------------------
(***************************************************************************)
(* The operation log every replicated entity carries                       *)
(* (internal/crdt/operations.go).                                          *)
(*                                                                         *)
(* An operation is a record [node, time, kind, arg, lamport].  "node" is   *)
(* the rank of the NodeID (a DID, compared as a string) that stamped it,   *)
(* "time" its place among the operations that node ever made: it stands    *)
(* for the Timestamp, which only matters between operations of one node,   *)
(* and <<node, time>> stands for the random, unique operation ID.          *)
(***************************************************************************)
EXTENDS Integers, Sequences

\* The Operation.ID.
Id(op) == <<op.node, op.time>>

OpSet(ops) == {ops[i] : i \in DOMAIN ops}
IdSet(ops) == {Id(ops[i]) : i \in DOMAIN ops}

\* CompareOps: Lamport timestamp, then NodeID, then wall clock.
Before(a, b) ==
  \/ a.lamport < b.lamport
  \/ a.lamport = b.lamport /\ a.node < b.node
  \/ a.lamport = b.lamport /\ a.node = b.node /\ a.time < b.time

\* The operation SortOps puts last: the one whose effect survives a replay.
Last(S) == CHOOSE o \in S : \A p \in S : ~Before(o, p)

\* OperationLog.Add: whatever Lamport value op had, it gets the next one.
Stamp(op, clock) == [op EXCEPT !.lamport = clock + 1]

\* Mutant of Observe: a remote Lamport value is ignored.
ObserveNothing(clock, lamport) == clock

\* LamportClock.Observe and LamportClock.Merge.
Observe(clock, lamport) == IF lamport > clock THEN lamport ELSE clock

\* Mutant of ImportedClock: the rebuilt log starts at zero.
ImportedClockZero(ops) == 0

\* The clock of a log rebuilt with ImportOperation: the highest Lamport value.
ImportedClock(ops) == IF ops = <<>> THEN 0 ELSE Last(OpSet(ops)).lamport

\* The log rebuilt with Add, as Issue, PullRequest and Release decoding does:
\* an operation's Lamport value becomes its position.
Renumbered(ops) == [i \in DOMAIN ops |-> [ops[i] EXCEPT !.lamport = i]]
-----------------------------------------------------------------------------
\* The operations of a collection of logs.
OpsOf(LL) == UNION {OpSet(L) : L \in LL}

\* H holds the pairs of IDs <<a, b>> such that a was in the log b was added to.
\* Every log holds an operation once, after all those its author had seen ...
Closed(LL, H) ==
  \A L \in LL :
    /\ \A i, j \in DOMAIN L : Id(L[i]) = Id(L[j]) => i = j
    /\ \A j \in DOMAIN L : \A p \in H :
         p[2] = Id(L[j]) => \E i \in 1 .. j - 1 : Id(L[i]) = p[1]

\* ... and an ID names one operation, with one Lamport value, higher than
\* those of the operations its author had seen.
Causal(LL, H) ==
  /\ \A a, b \in OpsOf(LL) : Id(a) = Id(b) => a = b
  /\ \A a, b \in OpsOf(LL) : <<Id(a), Id(b)>> \in H => a.lamport < b.lamport
  /\ Closed(LL, H)
=============================================================================
