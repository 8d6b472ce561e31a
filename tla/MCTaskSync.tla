----------------------------- MODULE MCTaskSync -----------------------------
(* TaskSync on small instances. *)
EXTENDS TaskSync, TLC

\* Node 1 creates, claims and completes, with a result; node 2 claims, or
\* completes, what it sees.
Long == 1 :> 4 @@ 2 :> 1
Small == 1 :> 3 @@ 2 :> 1
=============================================================================
