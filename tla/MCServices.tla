----------------------------- MODULE MCServices -----------------------------
(* Services on small instances. *)
EXTENDS Services

\* A job of one step and one of two.
StepsOf == [j \in {1, 2} |-> j]
=============================================================================
