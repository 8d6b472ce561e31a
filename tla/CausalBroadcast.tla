-------------------------- MODULE CausalBroadcast --------------------------
(***************************************************************************)
(* What the replication of an entity promises, operations being no more    *)
(* than who issued them and in which order: a daemon comes to know of an   *)
(* operation only together with all that its author knew, what it has      *)
(* written down it never forgets, and a restart takes it back to that.     *)
(* Replica is the detailed protocol; TaskSync is checked to implement this.*)
(***************************************************************************)
EXTENDS Integers

CONSTANT Node

VARIABLES
  known,    \* known[n]: the operations n knows of, each <<author, number>>
  stable,   \* stable[n]: those it has written down
  issued,   \* issued[n]: how many n has issued
  deps      \* pairs of operations <<a, b>>: the author of b knew of a

vars == <<known, stable, issued, deps>>

Issued == UNION {{n} \X (1 .. issued[n]) : n \in Node}

Init ==
  /\ known = [n \in Node |-> {}] /\ stable = [n \in Node |-> {}]
  /\ issued = [n \in Node |-> 0] /\ deps = {}

\* No operation of K without those its author knew of.
Closed(K) == \A p \in deps : p[2] \in K => p[1] \in K

Issue(n) ==
  LET new == <<n, issued[n] + 1>> IN
  /\ issued' = [issued EXCEPT ![n] = @ + 1]
  /\ known' = [known EXCEPT ![n] = @ \cup {new}]
  /\ deps' = deps \cup (known[n] \X {new})

Learn(n) ==
  /\ UNCHANGED <<issued, deps>>
  /\ \E K \in SUBSET (Issued \ known[n]) :
       known' = [known EXCEPT ![n] = @ \cup K] /\ Closed(known'[n])

\* A step may end with what n knows written down, or not.
WriteDown(n) == stable' = stable \/ stable' = [stable EXCEPT ![n] = known'[n]]

Restart(n) ==
  /\ UNCHANGED <<issued, deps>>
  /\ known' = [known EXCEPT ![n] = stable[n]]
  /\ UNCHANGED stable

Next == \E n \in Node :
  \/ Issue(n) /\ WriteDown(n)
  \/ Restart(n)
  \/ Learn(n) /\ WriteDown(n)

Spec == Init /\ [][Next]_vars
=============================================================================
