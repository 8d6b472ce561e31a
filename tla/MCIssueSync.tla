---------------------------- MODULE MCIssueSync ----------------------------
(* IssueSync on small instances. *)
EXTENDS IssueSync, TLC

\* Node 1 creates; both comment and close.
Both == 1 :> 3 @@ 2 :> 1
=============================================================================
