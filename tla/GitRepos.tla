------------------------------ MODULE GitRepos ------------------------------
(***************************************************************************)
(* The git repositories of one daemon (internal/storage: repository.go,    *)
(* registry.go, protection.go) under the requests that write them: pushes  *)
(* (internal/api/handlers/smart_http.go, repos.go), the merge of a pull    *)
(* request, new branches, protection rules and forks.                      *)
(*                                                                         *)
(* A commit is a number, its place in "commits"; its tree is the set of    *)
(* the changes its files hold, a change being named after the commit that  *)
(* made it.  A repository's commits include every object that goes with    *)
(* them.  Repositories are only ever forked from Origin.                   *)
(***************************************************************************)
EXTENDS Integers, Sequences, FiniteSets

CONSTANTS
  Origin,      \* the repository that exists at first
  Fork,        \* the names it may be forked under
  Branch,
  Guarded,     \* bound: the branches protection rules are ever made for
  MaxCommits,  \* bound: commits ever made
  MaxRequests, \* bound: pushes, merges and branch creations ever begun
  MaxFaults    \* bound: failed writes and crashes

ASSUME RepoAssumption == Origin \notin Fork /\ Guarded \subseteq Branch
ASSUME BoundAssumption == {MaxCommits, MaxRequests, MaxFaults} \subseteq Nat

Repo == {Origin} \cup Fork

VARIABLES
  commits,   \* every commit made, here or in a clone: its parents and its tree
  objects,   \* objects[r]: the commits stored in repository r
  refs,      \* refs[r]: the tips of its branches, 0 where there is none
  entry,     \* entry[r]: what the registry makes of r
  copied,    \* the objects a Fork under way has copied
  rules,     \* rules[r]: the protected branches, in memory
  rulesFile, \* the same in protections.json
  pushes,    \* ref updates under way
  merges,    \* calls of MergeBranches under way
  used, faults,
  whole,     \* whole[r]: branches last moved by a push that brought its commit (history)
  won,       \* won[r]: branch and old tip of each push that succeeded (history)
  strayed    \* strayed[r]: branches ever moved by anything but a push checked
             \* against a protection rule (history)

gitVars == <<commits, objects, refs, entry, copied, rules, rulesFile, pushes, merges,
             used, faults, whole, won, strayed>>

Tip == 0 .. Len(commits)
Commit == 1 .. Len(commits)
Push == [repo : Repo, branch : Branch, old : Nat, new : Nat,
         stage : {"ingest", "open", "ref", "rules", "write"}, strict : BOOLEAN,
         brought : BOOLEAN]
Merge == [repo : Repo, target : Branch, source : Branch, tip : Nat, new : Nat,
          squash : BOOLEAN, stage : {"source", "write"}]

\* Repositories a request can Open: those the registry lists.
Listed == {r \in Repo : entry[r] \in {"saved", "unsaved"}}

\* Fork holds the registry's lock, which Open needs.
RegistryFree == \A r \in Repo : entry[r] # "copying"

Init ==
  /\ commits = <<[parents |-> <<>>, tree |-> {1}]>>
  /\ objects = [r \in Repo |-> IF r = Origin THEN {1} ELSE {}]
  /\ refs = [r \in Repo |-> [b \in Branch |-> IF r = Origin THEN 1 ELSE 0]]
  /\ entry = [r \in Repo |-> IF r = Origin THEN "saved" ELSE "none"]
  /\ copied = {}
  /\ rules = [r \in Repo |-> {}]
  /\ rulesFile = rules
  /\ pushes = {}
  /\ merges = {}
  /\ used = 0
  /\ faults = 0
  /\ whole = [r \in Repo |-> IF r = Origin THEN Branch ELSE {}]
  /\ won = [r \in Repo |-> {}]
  /\ strayed = [r \in Repo |-> {}]
-----------------------------------------------------------------------------
\* The commits reached from c through the parents of the commits in S.
Reached(S, c) ==
  LET from[d \in 0 .. c] ==
        {d} \cup IF d \in S THEN UNION {from[commits[d].parents[i]] :
                                        i \in DOMAIN commits[d].parents}
                 ELSE {}
  IN from[c]

\* The same, through first parents only.
FirstLine(S, c) ==
  LET from[d \in 0 .. c] ==
        {d} \cup IF d \in S /\ commits[d].parents # <<>> THEN from[commits[d].parents[1]]
                 ELSE {}
  IN from[c]

\* Mutant of IsFastForward: whatever the client pushes is accepted.
AnyForward(r, old, new) == TRUE

\* isReceivePackFastForward.
IsFastForward(r, old, new) ==
  \/ old = new
  \/ {old, new} \subseteq objects[r] /\ old \in Reached(objects[r], new)

\* isAncestor.
IsAncestor(r, ancestor, descendant) == ancestor \in FirstLine(objects[r], descendant)

\* UpdateRefIfMatches and DeleteRefIfMatches, under the ref's lock.
Expected(p) ==
  /\ refs[p.repo][p.branch] = p.old
  /\ p.new = 0 => p.old # 0

Fails == faults < MaxFaults /\ faults' = faults + 1
-----------------------------------------------------------------------------
\* A client pushes: a commit of its own upon any commit, an earlier commit, or
\* the deletion (0); "old" is the tip it sees, or 0 for a new branch.
BeginPush(r, b, old, new, parent) ==
  /\ used < MaxRequests /\ used' = used + 1
  /\ r \in Listed /\ old \in {0, refs[r][b]}
  /\ IF new <= Len(commits) THEN commits' = commits
     ELSE /\ new = Len(commits) + 1 /\ new <= MaxCommits
          /\ commits' = Append(commits, [parents |-> <<parent>>,
                                         tree |-> commits[parent].tree \cup {new}])
  /\ pushes' = pushes \cup {[repo |-> r, branch |-> b, old |-> old, new |-> new,
                             stage |-> "ingest", strict |-> FALSE, brought |-> FALSE]}
  /\ UNCHANGED <<objects, refs, entry, copied, rules, rulesFile, merges, faults,
                 whole, won, strayed>>

\* Replace a push by its next stage.
Advance(p, stage) == pushes' = (pushes \ {p}) \cup {[p EXCEPT !.stage = stage]}

\* The objects that came with it are stored.  Some may not be, or the pack may
\* be unreadable: that is logged, and the ref update goes on.
Ingest(p) ==
  /\ p.stage = "ingest"
  /\ \E stored \in SUBSET (Reached(Commit, p.new) \ {0}) :
       /\ objects' = [objects EXCEPT ![p.repo] = @ \cup stored]
       /\ IF Reached(Commit, p.new) \ {0} \subseteq objects'[p.repo] THEN faults' = faults
          ELSE Fails
  /\ pushes' = (pushes \ {p}) \cup
       {[p EXCEPT !.stage = "open", !.brought = p.new \in objects'[p.repo]]}
  /\ UNCHANGED <<commits, refs, entry, copied, rules, rulesFile, merges, used,
                 whole, won, strayed>>

\* Mutant of Reopen: the handler's own Repository is used.
ReopenNot(p) ==
  /\ p.stage = "open"
  /\ Advance(p, "ref")
  /\ UNCHANGED <<commits, objects, refs, entry, copied, rules, rulesFile, merges, used,
                 faults, whole, won, strayed>>

\* applyReceivePackUpdate opens the repository again, which waits for a Fork.
Reopen(p) ==
  /\ p.stage = "open" /\ RegistryFree
  /\ IF p.repo \in Listed THEN Advance(p, "ref") ELSE pushes' = pushes \ {p}
  /\ UNCHANGED <<commits, objects, refs, entry, copied, rules, rulesFile, merges, used,
                 faults, whole, won, strayed>>

\* validateReceivePackUpdate: the deletion of a protected branch is denied, and
\* the ref must be what the client saw (0: absent).
ReadRef(p) ==
  /\ p.stage = "ref"
  /\ IF (p.new = 0 /\ p.branch \in rules[p.repo]) \/ refs[p.repo][p.branch] # p.old
     THEN pushes' = pushes \ {p}
     ELSE Advance(p, IF p.old = 0 THEN "write" ELSE "rules")
  /\ UNCHANGED <<commits, objects, refs, entry, copied, rules, rulesFile, merges, used,
                 faults, whole, won, strayed>>

\* Then a protected branch must move forward.
CheckRules(p) ==
  /\ p.stage = "rules"
  /\ LET protected == p.branch \in rules[p.repo] IN
     IF protected /\ ~IsFastForward(p.repo, p.old, p.new)
     THEN pushes' = pushes \ {p}
     ELSE pushes' = (pushes \ {p}) \cup {[p EXCEPT !.stage = "write", !.strict = protected]}
  /\ UNCHANGED <<commits, objects, refs, entry, copied, rules, rulesFile, merges, used,
                 faults, whole, won, strayed>>

\* applyReceivePackUpdate moves or removes the ref, unless it changed since.
Write(p) ==
  /\ p.stage = "write"
  /\ pushes' = pushes \ {p}
  /\ IF Expected(p)
     THEN /\ refs' = [refs EXCEPT ![p.repo][p.branch] = p.new]
          /\ won' = [won EXCEPT ![p.repo] = @ \cup {<<p.branch, p.old, p.new>>}]
          /\ strayed' = IF p.strict THEN strayed
                        ELSE [strayed EXCEPT ![p.repo] = @ \cup {p.branch}]
          /\ whole' = [whole EXCEPT ![p.repo] =
                         IF p.brought THEN @ \cup {p.branch} ELSE @ \ {p.branch}]
     ELSE UNCHANGED <<refs, whole, won, strayed>>
  /\ UNCHANGED <<commits, objects, entry, copied, rules, rulesFile, merges, used, faults>>
-----------------------------------------------------------------------------
\* MergeBranches reads the target's tip,
BeginMerge(r, target, source, squash) ==
  /\ used < MaxRequests /\ used' = used + 1
  /\ r \in Listed /\ refs[r][target] # 0
  /\ merges' = merges \cup {[repo |-> r, target |-> target, source |-> source, new |-> 0,
                             tip |-> refs[r][target], squash |-> squash, stage |-> "source"]}
  /\ UNCHANGED <<commits, objects, refs, entry, copied, rules, rulesFile, pushes, faults,
                 whole, won, strayed>>

\* Mutant of Stitched: the merge commit holds both sides.
StitchedBoth(m, head) == [parents |-> <<m.tip, head>>,
                          tree |-> commits[m.tip].tree \cup commits[head].tree]

\* The merge or squash commit: the tree is the source's.
Stitched(m, head) ==
  [parents |-> IF m.squash THEN <<m.tip>> ELSE <<m.tip, head>>, tree |-> commits[head].tree]

\* then the source's, and fast-forwards or makes a commit,
ReadSource(m) ==
  LET head == refs[m.repo][m.source]
      ToWrite(new) == merges' = (merges \ {m}) \cup {[m EXCEPT !.stage = "write", !.new = new]}
      forward == IsAncestor(m.repo, m.tip, head)
  IN
  /\ m.stage = "source"
  /\ \/ /\ head = 0 \/ head = m.tip \/ (~forward /\ head \notin objects[m.repo])
        /\ merges' = merges \ {m} /\ UNCHANGED <<commits, objects>>
     \/ /\ head # 0 /\ head # m.tip /\ forward
        /\ ToWrite(head) /\ UNCHANGED <<commits, objects>>
     \/ /\ head # 0 /\ ~forward /\ head \in objects[m.repo] /\ Len(commits) < MaxCommits
        /\ commits' = Append(commits, Stitched(m, head))
        /\ objects' = [objects EXCEPT ![m.repo] = @ \cup {Len(commits) + 1}]
        /\ ToWrite(Len(commits) + 1)
  /\ UNCHANGED <<refs, entry, copied, rules, rulesFile, pushes, used, faults,
                 whole, won, strayed>>

\* Something else than a push moves a branch: UpdateRef, unconditional.
UpdateRef(r, b, new) ==
  /\ refs' = [refs EXCEPT ![r][b] = new]
  /\ whole' = [whole EXCEPT ![r] = @ \ {b}]
  /\ strayed' = [strayed EXCEPT ![r] = @ \cup {b}]

\* and moves the target, wherever it is by now.
WriteMerge(m) ==
  /\ m.stage = "write"
  /\ merges' = merges \ {m}
  /\ UpdateRef(m.repo, m.target, m.new)
  /\ UNCHANGED <<commits, objects, entry, copied, rules, rulesFile, pushes, used, faults, won>>

\* The CreateBranch handler: any name, existing or not, protected or not, any commit.
CreateBranch(r, b, commit) ==
  /\ used < MaxRequests /\ used' = used + 1
  /\ r \in Listed
  /\ UpdateRef(r, b, commit)
  /\ UNCHANGED <<commits, objects, entry, copied, rules, rulesFile, pushes, merges, faults, won>>
-----------------------------------------------------------------------------
\* ProtectionStore.Set and Remove; when the save fails, the rules in memory
\* stay as they were made.
SetRules(r, b, ok) ==
  /\ r \in Listed
  /\ \E new \in {rules[r] \cup {b}, rules[r] \ {b}} : rules' = [rules EXCEPT ![r] = new]
  /\ IF ok THEN rulesFile' = rules' /\ faults' = faults ELSE rulesFile' = rulesFile /\ Fails
  /\ UNCHANGED <<commits, objects, refs, entry, copied, pushes, merges, used,
                 whole, won, strayed>>

\* Fork, holding the registry's lock: the directory, and the objects into it,
ForkObjects(r) ==
  /\ entry[r] = "none" /\ RegistryFree
  /\ entry' = [entry EXCEPT ![r] = "copying"]
  /\ copied' = objects[Origin]
  /\ UNCHANGED <<commits, objects, refs, rules, rulesFile, pushes, merges, used, faults,
                 whole, won, strayed>>

\* then the refs, as they are by now, the entry and the registry's file; a
\* failed save leaves the entry in memory.
ForkRefs(r, ok) ==
  /\ entry[r] = "copying"
  /\ objects' = [objects EXCEPT ![r] = copied]
  /\ copied' = {}
  /\ refs' = [refs EXCEPT ![r] = refs[Origin]]
  /\ whole' = [whole EXCEPT ![r] = whole[Origin]]
  /\ IF ok THEN entry' = [entry EXCEPT ![r] = "saved"] /\ faults' = faults
     ELSE entry' = [entry EXCEPT ![r] = "unsaved"] /\ Fails
  /\ UNCHANGED <<commits, rules, rulesFile, pushes, merges, used, won, strayed>>

\* Any later save of the registry (a star, say) saves the entry.
SaveRegistry(r) ==
  /\ entry[r] = "unsaved" /\ RegistryFree
  /\ entry' = [entry EXCEPT ![r] = "saved"]
  /\ UNCHANGED <<commits, objects, refs, copied, rules, rulesFile, pushes, merges, used,
                 faults, whole, won, strayed>>

\* A crash: the requests are gone, the registry and the rules are read back from
\* their files, and a fork that is not in the registry leaves a directory, in
\* which no repository can be made again.
Restart ==
  /\ Fails
  /\ entry' = [r \in Repo |-> IF entry[r] \in {"copying", "unsaved"} THEN "left" ELSE entry[r]]
  /\ rules' = rulesFile
  /\ copied' = {}
  /\ pushes' = {}
  /\ merges' = {}
  /\ UNCHANGED <<commits, objects, refs, rulesFile, used, whole, won, strayed>>

Request(r, b) ==
  \/ \E old \in Tip, new \in 0 .. Len(commits) + 1, parent \in Commit :
       BeginPush(r, b, old, new, parent)
  \/ \E source \in Branch \ {b}, squash \in BOOLEAN : BeginMerge(r, b, source, squash)
  \/ \E commit \in Commit : CreateBranch(r, b, commit)

PushStep(p) == Ingest(p) \/ Reopen(p) \/ ReadRef(p) \/ CheckRules(p) \/ Write(p)

Next ==
  \/ \E r \in Repo, b \in Branch : Request(r, b)
  \/ \E p \in pushes : PushStep(p)
  \/ \E m \in merges : ReadSource(m) \/ WriteMerge(m)
  \/ \E r \in Repo, b \in Guarded, ok \in BOOLEAN : SetRules(r, b, ok)
  \/ \E r \in Fork : ForkObjects(r) \/ SaveRegistry(r) \/ \E ok \in BOOLEAN : ForkRefs(r, ok)
  \/ Restart

Spec == Init /\ [][Next]_gitVars
-----------------------------------------------------------------------------
\* The variables keep their types; a push that passed a protection rule is no
\* deletion, though the rule may be younger than the push.
GitTypeOK ==
  /\ commits \in Seq([parents : Seq(Nat), tree : SUBSET Nat])
  /\ objects \in [Repo -> SUBSET Commit]
  /\ refs \in [Repo -> [Branch -> Tip]]
  /\ entry \in [Repo -> {"none", "copying", "saved", "unsaved", "left"}]
  /\ copied \subseteq Commit
  /\ rules \in [Repo -> SUBSET Branch] /\ rulesFile \in [Repo -> SUBSET Branch]
  /\ pushes \subseteq Push /\ \A p \in pushes : p.strict => p.new # 0
  /\ merges \subseteq Merge
  /\ used \in Nat /\ faults \in Nat
  /\ whole \in [Repo -> SUBSET Branch] /\ strayed \in [Repo -> SUBSET Branch]
  /\ won \in [Repo -> SUBSET (Branch \X Tip \X Tip)]

\* A push that found its branch protected moves it forward, to a commit that is
\* stored, whatever merges, other pushes and rules do between its checks, which
\* take no lock, and its write.
ProtectedForward ==
  [][\A p \in pushes : p.strict /\ Write(p) /\ refs' # refs =>
       LET tip == refs'[p.repo][p.branch] IN
       tip \in objects[p.repo] /\ refs[p.repo][p.branch] \in Reached(objects[p.repo], tip)]_gitVars

\* "Concurrent pushes: exactly one wins": of the pushes that move a branch from one
\* tip, one succeeds, if only pushes checked against a protection rule moved it.
OneWins ==
  \A r \in Repo : \A v, w \in won[r] :
    v[1] = w[1] /\ v[2] = w[2] /\ v[2] # v[3] /\ w[2] # w[3] /\ v[1] \notin strayed[r] => v = w

\* "Copying all git objects and refs": a branch last moved by a push that
\* brought its commit has it, in a fork made while the push was under way too.
PushedCommitsStored ==
  \A r \in Listed : \A b \in whole[r] : refs[r][b] # 0 => refs[r][b] \in objects[r]

\* One push per tip wins, and a fork has the commits pushes brought.
PushesSound == GitTypeOK /\ OneWins /\ PushedCommitsStored

\* "MergeBranches merges source into target": the target keeps the changes of
\* the tip the merge was made upon.
MergeKeepsTarget ==
  [][\A m \in merges : WriteMerge(m) /\ m.tip \in objects[m.repo] =>
       commits[m.tip].tree \subseteq commits[refs'[m.repo][m.target]].tree]_gitVars
=============================================================================
