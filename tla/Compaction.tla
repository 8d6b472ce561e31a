----------------------------- MODULE Compaction -----------------------------
(***************************************************************************)
(* The compactor (internal/crdt/compactor.go), which shortens the logs of  *)
(* issues and pull requests every six hours.  CompactLog takes no lock: a  *)
(* store may append to the log, or merge into it, between the step that    *)
(* reads it and the step that replaces it.  Nothing is saved.              *)
(***************************************************************************)
EXTENDS Integers, Sequences, FiniteSetsExt

CONSTANTS
  Limit,    \* compactOpLimit: a longer log is compacted
  Key(_)    \* of the operations with one key, only one is kept

VARIABLES
  log, clock,  \* as in Replica
  compacting   \* compacting[n]: the operations CompactLog has read, if it is running

\* CompactLog's result: the last added of each key, in the place of the first.
Compacted(ops) ==
  LET SameKey(i) == {j \in DOMAIN ops : Key(ops[j]) = Key(ops[i])}
      firsts == {i \in DOMAIN ops : i = Min(SameKey(i))}
      order == CHOOSE f \in [1 .. Cardinality(firsts) -> firsts] :
                 \A i, j \in DOMAIN f : i < j => f[i] < f[j]
  IN [k \in DOMAIN order |-> ops[Max(SameKey(order[k]))]]

CompactRead(n) ==
  /\ Len(log[n]) > Limit /\ compacting[n] = <<>>
  /\ compacting' = [compacting EXCEPT ![n] = log[n]]
  /\ UNCHANGED <<log, clock>>

CompactWrite(n) ==
  /\ compacting[n] # <<>>
  /\ log' = [log EXCEPT ![n] = Compacted(compacting[n])]
  /\ clock' = [clock EXCEPT ![n] = Max({compacting[n][i].lamport : i \in DOMAIN compacting[n]})]
  /\ compacting' = [compacting EXCEPT ![n] = <<>>]
=============================================================================
