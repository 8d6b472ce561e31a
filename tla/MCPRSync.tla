------------------------------ MODULE MCPRSync ------------------------------
(* PRSync on small instances. *)
EXTENDS PRSync, TLC

\* One daemon alone: a review and a merge that fails, or two merges.
Alone == 1 :> 4
\* Node 1 creates, reviews and merges; node 2 reviews, or merges and reverts.
Approving == 1 :> 4 @@ 2 :> 2
=============================================================================
