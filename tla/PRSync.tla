------------------------------- MODULE PRSync -------------------------------
(***************************************************************************)
(* A pull request: PullRequest and PullRequestStore (internal/crdt/pr.go,  *)
(* pr_store.go) with their handlers (internal/api/handlers/prs.go),        *)
(* replicated as Replica says.  Decoding rebuilds the log with Add, which  *)
(* gives every operation a new Lamport value: its position.                *)
(*                                                                         *)
(* What MergeBranches does to the branches is outside this module: here it *)
(* succeeds or fails.                                                      *)
(***************************************************************************)
EXTENDS OpLog, FiniteSets

CONSTANTS
  Node,       \* the daemons, each the rank of its DID among the DIDs
  Agent,      \* identities that review
  Verdict,    \* the verdicts reviews give: "approve" or another one
  Protected,  \* whether the target branch requires an approval
  Limit,      \* compactOpLimit: a longer log is compacted
  MaxOps,     \* bound: MaxOps[n] operations that node n may ever make
  MaxFaults   \* bound: failed saves and publishes, repeated deliveries, crashes

ASSUME NodeAssumption == Node \subseteq Nat
ASSUME SettingAssumption ==
  /\ Verdict \subseteq {"approve", "comment", "request_changes"}
  /\ Protected \in BOOLEAN /\ Limit \in Nat \ {0}
ASSUME BoundAssumption == MaxOps \in [Node -> Nat] /\ MaxFaults \in Nat

VARIABLES
  log, clock, view, disk, busy, rest, hooks, net, seen, made, hb, faults,
  landed,    \* landed[n]: times node n merged the source branch into the target
  saves,     \* calls of PullRequestStore.Save, which writes without the lock
  compacting \* as in Compaction

Status == {"open", "merged"}
View == [status : Status, reviewers : SUBSET Agent]
Op == [node : Node, time : Nat, kind : {"create", "reviewer", "review", "status"},
       arg : Agent \cup Status \cup Verdict, lamport : Nat]

OpenView == [status |-> "open", reviewers |-> {}]

OfKind(S, kind) == {o \in S : o.kind = kind}

\* Mutant of Replay: a review sorted last decides the status.
ReplayAny(old, S) ==
  [status |-> IF OfKind(S, "status") = {} THEN old.status ELSE Last(S).arg,
   reviewers |-> {o.arg : o \in OfKind(S, "reviewer")}]

\* PullRequest.Merge and applyOperations: the status is not reset, so without
\* a status operation it stays what it was.
Replay(old, S) ==
  [status |-> IF OfKind(S, "status") = {} THEN old.status ELSE Last(OfKind(S, "status")).arg,
   reviewers |-> {o.arg : o \in OfKind(S, "reviewer")}]

\* PullRequest.UnmarshalJSON.
Decode(ops) == Renumbered(ops)

\* No handler tombstones a pull request.
Visible(v) == TRUE

\* main gives the store the path of a file.
Writable == TRUE

\* Mutant of Key: the two operations of a review have one key.
KeyByRequest(op) == <<IF op.kind \in {"reviewer", "review"} THEN "review" ELSE op.kind>>

\* The key of CompactLog's table.
Key(op) == <<op.kind, IF op.kind = "status" THEN <<>> ELSE Id(op)>>

INSTANCE Replica
INSTANCE Compaction

extraVars == <<landed, saves, compacting>>
entityVars == <<log, clock, view, disk, busy, rest, hooks, net, seen, made, hb, faults>>
prVars == <<entityVars, extraVars>>

\* A Save: of the handler that created the pull request (time is its
\* operation's), or of one that created another one (0).
Save == [node : Node, time : Nat, stage : {"copied", "marshalled"}, view : View, ops : Seq(Op)]

PRInit ==
  /\ Init
  /\ landed = [n \in Node |-> 0]
  /\ saves = {}
  /\ compacting = [n \in Node |-> <<>>]
-----------------------------------------------------------------------------
\* CreatePR: the store's Create; the handler's own Save comes later.
Create(n) ==
  /\ \A m \in Node : made[m] = 0
  /\ LET op == NewOp(n, "create", "open") IN
     Add(n, op) /\ hooks' = hooks \cup {NewHook(n, op, "save")}
  /\ UNCHANGED <<view, disk, busy, rest, net, seen, faults, extraVars>>

\* ReviewPR under the store's lock: AddReviewer, nothing for a known reviewer,
Review(n, a) ==
  /\ busy[n] = "free" /\ log[n] # <<>> /\ made[n] + 1 < MaxOps[n]
  /\ busy' = [busy EXCEPT ![n] = "working"]
  /\ view' = [view EXCEPT ![n].reviewers = @ \cup {a}]
  /\ IF a \in view[n].reviewers THEN UNCHANGED <<log, clock, made, hb>>
     ELSE Add(n, NewOp(n, "reviewer", a))
  /\ UNCHANGED <<disk, rest, hooks, net, seen, faults, extraVars>>

\* then AddComment with the verdict, and saveLocked.
FinishReview(n, verdict, ok) ==
  /\ busy[n] = "working"
  /\ busy' = [busy EXCEPT ![n] = "free"]
  /\ LET op == NewOp(n, "review", verdict) IN Add(n, op) /\ Dispatch(n, op, ok)
  /\ UNCHANGED <<view, rest, net, seen, extraVars>>
  /\ SaveLocked(n, ok)

Approved(ops) == \E o \in OfKind(OpSet(ops), "review") : o.arg = "approve"

\* Mutants of BeginMerge: no look at the protection, or at the status.
BeginUnapproved(n, ok) ==
  /\ busy[n] = "free" /\ log[n] # <<>> /\ view[n].status = "open"
  /\ view' = [view EXCEPT ![n].status = "merged"]
  /\ LET op == NewOp(n, "status", "merged") IN
     /\ Add(n, op)
     /\ hooks' = IF ok THEN hooks \cup {NewHook(n, op, "work")} ELSE hooks
  /\ UNCHANGED <<busy, rest, net, seen, extraVars>>
  /\ SaveLocked(n, ok)
BeginUnchecked(n, ok) ==
  /\ busy[n] = "free" /\ log[n] # <<>>
  /\ Protected => Approved(log[n])
  /\ view' = [view EXCEPT ![n].status = "merged"]
  /\ LET op == NewOp(n, "status", "merged") IN
     /\ Add(n, op)
     /\ hooks' = IF ok THEN hooks \cup {NewHook(n, op, "work")} ELSE hooks
  /\ UNCHANGED <<busy, rest, net, seen, extraVars>>
  /\ SaveLocked(n, ok)

\* MergePR's first Update: checks and sets the status; when the save fails the
\* handler gives up, the status and the operation stay in memory.
BeginMerge(n, ok) ==
  /\ busy[n] = "free" /\ log[n] # <<>> /\ view[n].status = "open"
  /\ Protected => Approved(log[n])
  /\ view' = [view EXCEPT ![n].status = "merged"]
  /\ LET op == NewOp(n, "status", "merged") IN
     /\ Add(n, op)
     /\ hooks' = IF ok THEN hooks \cup {NewHook(n, op, "work")} ELSE hooks
  /\ UNCHANGED <<busy, rest, net, seen, extraVars>>
  /\ SaveLocked(n, ok)

\* registry.Open fails: the handler returns and leaves the status merged.
OpenFails(h) ==
  /\ h.stage = "work"
  /\ hooks' = hooks \ {h}
  /\ UNCHANGED <<log, clock, view, disk, busy, rest, net, seen, made, hb, faults, extraVars>>

\* MergeBranches succeeds and Dispatch begins.
Land(h) ==
  /\ h.stage = "work"
  /\ hooks' = (hooks \ {h}) \cup {[h EXCEPT !.stage = "get"]}
  /\ landed' = [landed EXCEPT ![h.node] = @ + 1]
  /\ UNCHANGED <<log, clock, view, disk, busy, rest, net, seen, made, hb, faults, saves, compacting>>

\* MergeBranches fails: a second Update reopens, its error is ignored, and
\* nothing is dispatched.
Revert(h, ok) ==
  /\ h.stage = "work" /\ busy[h.node] = "free"
  /\ view' = [view EXCEPT ![h.node].status = "open"]
  /\ Add(h.node, NewOp(h.node, "status", "open"))
  /\ hooks' = hooks \ {h}
  /\ UNCHANGED <<busy, rest, net, seen, extraVars>>
  /\ SaveLocked(h.node, ok)

-----------------------------------------------------------------------------
\* PullRequestStore.Save copies the fields under the read lock, when CreatePR
\* calls it for this pull request, or for another one (counted as a fault),
BeginSave(n, h) ==
  /\ busy[n] = "free"
  /\ \/ h \in hooks /\ h.node = n /\ h.stage = "save" /\ hooks' = hooks \ {h} /\ faults' = faults
     \/ h = NewHook(n, [time |-> 0], "save") /\ hooks' = hooks
        /\ faults < MaxFaults /\ faults' = faults + 1
  /\ saves' = saves \cup
       {[node |-> n, time |-> h.time, stage |-> "copied", view |-> view[n], ops |-> <<>>]}
  /\ UNCHANGED <<log, clock, view, disk, busy, rest, net, seen, made, hb, landed, compacting>>

\* marshals them with the log, which it shares, after giving the lock back,
MarshalSave(s) ==
  /\ s.stage = "copied"
  /\ saves' = (saves \ {s}) \cup {[s EXCEPT !.stage = "marshalled", !.ops = log[s.node]]}
  /\ UNCHANGED <<entityVars, landed, compacting>>

\* and writes the file; a failure is only logged.
WriteSave(s, ok) ==
  /\ s.stage = "marshalled"
  /\ saves' = saves \ {s}
  /\ hooks' = IF s.time = 0 THEN hooks ELSE hooks \cup {NewHook(s.node, [time |-> s.time], "get")}
  /\ IF ok THEN disk' = [disk EXCEPT ![s.node] = [view |-> s.view, ops |-> s.ops]] /\ faults' = faults
     ELSE disk' = disk /\ faults < MaxFaults /\ faults' = faults + 1
  /\ UNCHANGED <<log, clock, view, busy, rest, net, seen, made, hb, landed, compacting>>

Restart(n) ==
  /\ Crash(n)
  /\ saves' = {s \in saves : s.node # n}
  /\ compacting' = [compacting EXCEPT ![n] = <<>>]
  /\ UNCHANGED landed

Request(n) ==
  \/ Create(n)
  \/ \E a \in Agent : Review(n, a)
  \/ \E v \in Verdict, ok \in BOOLEAN : FinishReview(n, v, ok)
  \/ \E ok \in BOOLEAN : BeginMerge(n, ok)

MergeOutcome(h) ==
  \/ OpenFails(h) \/ Land(h)
  \/ \E ok \in BOOLEAN : Revert(h, ok)

Background(n) ==
  \/ \E h \in hooks \cup {NewHook(n, [time |-> 0], "save")} : BeginSave(n, h)
  \/ /\ CompactRead(n) \/ CompactWrite(n)
     /\ UNCHANGED <<view, disk, busy, rest, hooks, net, seen, made, hb, faults, landed, saves>>
  \/ Restart(n)

Next ==
  \/ \E n \in Node : Request(n) \/ Background(n)
  \/ \E h \in hooks : MergeOutcome(h)
  \/ \E s \in saves : MarshalSave(s) \/ \E ok \in BOOLEAN : WriteSave(s, ok)
  \/ (\E n \in Node : Receive(n) \/ SaveElse(n)) /\ UNCHANGED extraVars
  \/ (\E h \in hooks : Publish(h)) /\ UNCHANGED extraVars

Spec == PRInit /\ [][Next]_prVars
-----------------------------------------------------------------------------
\* The variables keep their types, and no log, however merged, renumbered and
\* saved, has an operation twice or one without those its author knew of.
PRLogs ==
  /\ TypeOK /\ CausallyClosed /\ NoDuplicates
  /\ landed \in [Node -> Nat]
  /\ saves \subseteq Save
  /\ compacting \in [Node -> Seq(Op)]

\* A protected branch: whoever sees a pull request marked merged, from
\* whatever snapshot, sees an approval in the same log, earlier than the mark.
MergedWasApproved ==
  Protected => \A L \in AllLogs : \A i \in DOMAIN L :
    L[i].kind = "status" /\ L[i].arg = "merged" =>
      \E j \in 1 .. i - 1 : L[j].kind = "review" /\ L[j].arg = "approve"

\* "Atomically check status and set to merging to prevent concurrent merges": a
\* daemon alone never merges a pull request twice at once; and merging it again,
\* or showing a merged one as open, costs a crash that brings back a file an
\* unlocked save left behind.
LandsOnce ==
  /\ \A g, h \in hooks : g.stage = "work" /\ h.stage = "work" /\ g.node = h.node => g = h
  /\ \A n \in Node :
       /\ landed[n] <= faults + 1
       /\ landed[n] > faults => view[n].status = "merged"

\* "Each comment is unique": on a daemon alone, compacting a log nobody else is
\* changing keeps every review, and what a replay shows.
CompactionKeepsPR ==
  [][\A n \in Node : CompactWrite(n) /\ compacting[n] = log[n] =>
       /\ OfKind(OpSet(log[n]), "review") \subseteq OpSet(log'[n])
       /\ Replay(view[n], OpSet(log'[n])) = Replay(view[n], OpSet(log[n]))]_prVars
=============================================================================
