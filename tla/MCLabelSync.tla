---------------------------- MODULE MCLabelSync ----------------------------
(* LabelSync on small instances. *)
EXTENDS LabelSync, TLC

\* Node 1 creates, removes and creates again; node 2 creates and changes.
Both == 1 :> 3 @@ 2 :> 2
=============================================================================
