--------------------------- MODULE StorageProofs ---------------------------
(***************************************************************************)
(* Theorems about Storage, for every set of forks, branches, clients,      *)
(* blocks, names and searches, every graph of git objects and every bound: *)
(* of the pushes from one tip one wins, a branch has the commit that was   *)
(* pushed to it, in forks too, and a protected branch moves forward        *)
(* (GitRepos); what was acknowledged is read back (Blockstore, LFS); a     *)
(* search answers from a current commit (Search); and a repository has     *)
(* what its references lead to, a pack what was asked for (Transfer).      *)
(***************************************************************************)
EXTENDS Storage, FiniteSetTheorems, WellFoundedInduction, TLAPS
-----------------------------------------------------------------------------
(* Histories. *)

\* A set of numbers that is not empty has a least one.
LEMMA LeastNumber ==
  ASSUME NEW T \in SUBSET Nat, T # {}
  PROVE  \E k \in T : \A j \in T : k <= j
<1>1. PICK k \in T : \A j \in T : ~ (<<j, k>> \in OpToRel(<, Nat))
  BY WFMin, NatLessThanWellFounded
<1>2. \A j \in T : ~ (j < k)
  BY <1>1 DEF OpToRel
<1>3. QED
  BY <1>2

\* A commit is younger than its parents.
Grown(C) ==
  \A d \in 1 .. Len(C) : \A i \in DOMAIN C[d].parents : C[d].parents[i] \in 0 .. d - 1

\* What a commit leads to by the commits of S, in terms of what its parents
\* lead to; f is what every commit up to c leads to.
Onward(f, S, C, d) ==
  {d} \cup IF d \in S THEN UNION {f[C[d].parents[i]] : i \in DOMAIN C[d].parents} ELSE {}
Walk(f, S, C, c) == f = [d \in 0 .. c |-> Onward(f, S, C, d)]

\* What Reached computes exists.
LEMMA WalkExists ==
  ASSUME NEW C, Grown(C), NEW S \in SUBSET (1 .. Len(C)), NEW n \in Nat
  PROVE  \E f : Walk(f, S, C, n)
<1> DEFINE T == {k \in Nat : ~ \E f : Walk(f, S, C, k)}
<1> SUFFICES ASSUME T # {} PROVE FALSE
  OBVIOUS
<1>1. PICK k \in T : \A j \in T : k <= j
  BY LeastNumber
<1>2. \E f : f = [d \in 0 .. k |-> Onward(f, S, C, d)]
  <2>1. CASE k = 0
    <3> DEFINE f == [d \in 0 .. 0 |-> {0}]
    <3>1. Onward(f, S, C, 0) = {0}
      BY DEF Onward
    <3>2. f = [d \in 0 .. k |-> Onward(f, S, C, d)]
      BY <2>1, <3>1
    <3>3. QED
      BY <3>2
  <2>2. CASE k # 0
    <3>1. k - 1 \in Nat /\ k - 1 \notin T
      BY <1>1, <2>2
    <3>2. PICK f : Walk(f, S, C, k - 1)
      BY <3>1
    <3> DEFINE g == [d \in 0 .. k |-> Onward(f, S, C, d)]
    <3>3. \A d \in 0 .. k : g[d] = Onward(f, S, C, d)
      OBVIOUS
    <3>4. \A d \in 0 .. k - 1 : f[d] = Onward(f, S, C, d)
      BY <3>2 DEF Walk
    <3>5. \A d \in 0 .. k - 1 : d \in 0 .. k /\ g[d] = f[d]
      <4> HIDE DEF g
      <4>1. \A d \in 0 .. k - 1 : d \in 0 .. k
        BY <3>1
      <4>2. QED
        BY <3>3, <3>4, <4>1
    <3>6. g = [d \in 0 .. k |-> Onward(f, S, C, d)]
      OBVIOUS
    <3> HIDE DEF g
    <3>7. \A d \in 0 .. k : Onward(g, S, C, d) = Onward(f, S, C, d)
      <4> SUFFICES ASSUME NEW d \in 0 .. k, d \in S
                   PROVE  \A i \in DOMAIN C[d].parents : g[C[d].parents[i]] = f[C[d].parents[i]]
        BY DEF Onward
      <4>1. \A i \in DOMAIN C[d].parents : C[d].parents[i] \in 0 .. k - 1
        BY <3>1 DEF Grown
      <4>2. QED
        BY <3>5, <4>1
    <3>8. g = [d \in 0 .. k |-> Onward(g, S, C, d)]
      BY <3>6, <3>7
    <3>9. QED
      BY <3>8
  <2>3. QED
    BY <2>1, <2>2
<1>3. QED
  BY <1>1, <1>2 DEF Walk

Grows(f, g, c) == \A d \in 0 .. c : f[d] \subseteq g[d] /\ f[d] \subseteq 0 .. d

\* The union of larger sets is larger.
LEMMA UnionsGrow ==
  ASSUME NEW F, NEW G, NEW d, NEW p,
         F[d] = {d} \cup UNION {F[p[i]] : i \in DOMAIN p},
         G[d] = {d} \cup UNION {G[p[i]] : i \in DOMAIN p},
         \A i \in DOMAIN p : F[p[i]] \subseteq G[p[i]]
  PROVE  F[d] \subseteq G[d]
<1> SUFFICES ASSUME NEW x \in F[d] PROVE x \in G[d]
  OBVIOUS
<1>1. x \in {d} \/ x \in UNION {F[p[i]] : i \in DOMAIN p}
  OBVIOUS
<1>2. CASE x \in UNION {F[p[i]] : i \in DOMAIN p}
  <2>1. PICK i \in DOMAIN p : x \in F[p[i]]
    BY <1>2
  <2>2. x \in G[p[i]]
    BY <2>1
  <2> QED
    BY <2>2
<1> QED
  BY <1>1, <1>2

\* It reaches nothing younger, and more with more commits stored.
LEMMA WalkGrows ==
  ASSUME NEW C, Grown(C), NEW S \in SUBSET (1 .. Len(C)), NEW c \in Nat, NEW f, Walk(f, S, C, c),
         NEW C2, NEW S2, NEW g, Walk(g, S2, C2, c),
         S \subseteq S2 /\ \A d \in S : C2[d] = C[d]
  PROVE  Grows(f, g, c)
<1> DEFINE good(d) == f[d] \subseteq g[d] /\ f[d] \subseteq 0 .. d
           T == {d \in 0 .. c : ~good(d)}
<1> SUFFICES ASSUME T # {} PROVE FALSE
  BY DEF Grows
<1>1. PICK d \in T : \A j \in T : d <= j
  <2>1. T \in SUBSET Nat
    OBVIOUS
  <2> HIDE DEF T
  <2>2. QED
    BY <2>1, LeastNumber
<1>2. d \in 0 .. c
  OBVIOUS
<1>3. f[d] = Onward(f, S, C, d) /\ g[d] = Onward(g, S2, C2, d)
  BY <1>2 DEF Walk
<1>4. CASE d \notin S
  <2>1. f[d] = {d}
    BY <1>3, <1>4 DEF Onward
  <2>2. d \in g[d]
    BY <1>3 DEF Onward
  <2>3. QED
    BY <1>2, <2>1, <2>2
<1>5. CASE d \in S
  <2>1. \A i \in DOMAIN C[d].parents :
          C[d].parents[i] \in 0 .. c /\ C[d].parents[i] <= d - 1 /\ C[d].parents[i] \notin T
    BY <1>1, <1>2, <1>5 DEF Grown
  <2>2. \A i \in DOMAIN C[d].parents : good(C[d].parents[i])
    BY <2>1
  <2>3. /\ f[d] = {d} \cup UNION {f[C[d].parents[i]] : i \in DOMAIN C[d].parents}
        /\ g[d] = {d} \cup UNION {g[C[d].parents[i]] : i \in DOMAIN C[d].parents}
    BY <1>3, <1>5 DEF Onward
  <2>4. f[d] \subseteq g[d]
    <3> DEFINE p == C[d].parents
    <3>1. f[d] = {d} \cup UNION {f[p[i]] : i \in DOMAIN p}
      BY <2>3
    <3>2. g[d] = {d} \cup UNION {g[p[i]] : i \in DOMAIN p}
      BY <2>3
    <3>3. \A i \in DOMAIN p : f[p[i]] \subseteq g[p[i]]
      BY <2>2
    <3> HIDE DEF p
    <3> QED
      BY ONLY <3>1, <3>2, <3>3, UnionsGrow
  <2>5. f[d] \subseteq 0 .. d
    BY <1>2, <2>1, <2>2, <2>3
  <2>6. QED
    BY <2>4, <2>5
<1>6. QED
  BY <1>4, <1>5

\* What c leads to.
Onto(C, S, c) == (CHOOSE f : Walk(f, S, C, c))[c]

LEMMA ReachedOnto == \A S, c : Reached(S, c) = Onto(commits, S, c)
  BY DEF Reached, Onto, Walk, Onward

LEMMA OntoWalk ==
  ASSUME NEW C, Grown(C), NEW S \in SUBSET (1 .. Len(C)), NEW c \in Nat
  PROVE  \E f : Walk(f, S, C, c) /\ Onto(C, S, c) = f[c]
  BY WalkExists DEF Onto

\* Nothing younger than a commit is reached from it.
LEMMA OntoBelow ==
  ASSUME NEW C, Grown(C), NEW S \in SUBSET (1 .. Len(C)), NEW c \in Nat
  PROVE  Onto(C, S, c) \subseteq 0 .. c
<1>1. PICK f : Walk(f, S, C, c) /\ Onto(C, S, c) = f[c]
  BY OntoWalk
<1>2. S \subseteq S /\ \A d \in S : C[d] = C[d]
  OBVIOUS
<1>3. Grows(f, f, c)
  BY <1>1, <1>2, WalkGrows
<1>4. QED
  BY <1>1, <1>3 DEF Grows

\* What is reached stays so while objects come and commits are made.
LEMMA OntoStays ==
  ASSUME NEW C, Grown(C), NEW S \in SUBSET (1 .. Len(C)), NEW c \in Nat,
         NEW C2, Grown(C2), NEW S2 \in SUBSET (1 .. Len(C2)), S \subseteq S2,
         \A d \in S : C2[d] = C[d]
  PROVE  Onto(C, S, c) \subseteq Onto(C2, S2, c)
<1>1. PICK f : Walk(f, S, C, c) /\ Onto(C, S, c) = f[c]
  BY OntoWalk
<1>2. PICK g : Walk(g, S2, C2, c) /\ Onto(C2, S2, c) = g[c]
  BY OntoWalk
<1>3. Grows(f, g, c)
  BY <1>1, <1>2, WalkGrows
<1>4. QED
  BY <1>1, <1>2, <1>3 DEF Grows
-----------------------------------------------------------------------------
(* The inductive invariant. *)

Served(r) == entry[r] \in {"saved", "unsaved"}

\* What a push found to be a step forward.
Forward(p) ==
  \/ p.old = p.new
  \/ {p.old, p.new} \subseteq objects[p.repo] /\ p.old \in Reached(objects[p.repo], p.new)

\* What a push knows stays true until it writes: its objects are not taken
\* away, and a step forward stays one.
PushHolds(p) ==
  /\ p.old \in Tip /\ p.new \in Tip /\ Served(p.repo)
  /\ p.brought => p.new \in objects[p.repo]
  /\ p.stage = "rules" => p.old # 0
  /\ p.strict => Forward(p)

PushesHold == \A p \in pushes : PushHolds(p)

MergeHolds(m) ==
  m.tip \in Commit /\ m.new \in Tip /\ Served(m.repo) /\ (m.stage = "write" => m.new \in Commit)

MergesHold == \A m \in merges : MergeHolds(m)

\* A branch that only pushes checked against a rule have moved is past every
\* commit they moved it to, and those are younger than what they moved it from.
WonForward ==
  \A r \in Repo : \A v \in won[r] :
    v[1] \notin strayed[r] /\ v[2] # v[3] => v[2] < v[3] /\ v[3] <= refs[r][v[1]]

\* Nothing happens to a repository before it is in the registry; of forks, one
\* at a time is made.
Forking ==
  /\ entry[Origin] = "saved"
  /\ \A r \in Repo : entry[r] \in {"none", "copying"} => won[r] = {}
  /\ \A r, s \in Repo : entry[r] = "copying" /\ entry[s] = "copying" => r = s

\* While a fork is made, the branches pushes moved have their commits among the
\* copied objects, and so have the pushes that have opened the repository.
CopyComplete ==
  \A r \in Repo : entry[r] = "copying" =>
    /\ \A b \in whole[Origin] : refs[Origin][b] # 0 => refs[Origin][b] \in copied
    /\ \A p \in pushes :
         p.repo = Origin /\ p.brought /\ p.stage \notin {"ingest", "open"} => p.new \in copied

GitInv ==
  /\ GitTypeOK /\ Grown(commits)
  /\ PushesHold /\ MergesHold /\ WonForward /\ OneWins
  /\ Forking /\ CopyComplete /\ PushedCommitsStored
-----------------------------------------------------------------------------
(* Commits and objects only come. *)

CommitRecord == [parents : Seq(Nat), tree : SUBSET Nat]

LEMMA Types ==
  ASSUME GitInv
  PROVE  /\ commits \in Seq(CommitRecord) /\ Len(commits) \in Nat /\ Grown(commits)
         /\ DOMAIN commits = Commit /\ Commit = 1 .. Len(commits) /\ Tip = 0 .. Len(commits)
         /\ Tip = {0} \cup Commit /\ 0 \notin Commit
         /\ \A d \in Commit : commits[d] \in CommitRecord /\ d \in Nat
<1>1. commits \in Seq(CommitRecord)
  BY DEF GitInv, GitTypeOK, CommitRecord
<1>2. Len(commits) \in Nat /\ DOMAIN commits = 1 .. Len(commits)
  BY <1>1
<1>3. \A d \in 1 .. Len(commits) : commits[d] \in CommitRecord
  BY <1>1
<1> HIDE DEF CommitRecord
<1>4. QED
  BY <1>1, <1>2, <1>3 DEF GitInv, Commit, Tip

CommitsGrow ==
  /\ commits' \in Seq(CommitRecord) /\ Grown(commits') /\ Len(commits) <= Len(commits')
  /\ Len(commits') \in Nat
  /\ Commit \subseteq Commit' /\ Tip \subseteq Tip'
  /\ \A d \in Commit : commits'[d] = commits[d]

LEMMA CommitAdded ==
  ASSUME GitInv, NEW new \in CommitRecord, \A i \in DOMAIN new.parents : new.parents[i] \in Commit,
         commits' = Append(commits, new)
  PROVE  CommitsGrow /\ Len(commits') = Len(commits) + 1
<1>1. commits' \in Seq(CommitRecord) /\ Len(commits') = Len(commits) + 1
  BY Types
<1>2. \A d \in 1 .. Len(commits) : commits'[d] = commits[d]
  BY Types
<1>3. commits'[Len(commits) + 1] = new
  BY Types
<1>4. Grown(commits')
  <2> SUFFICES ASSUME NEW d \in 1 .. Len(commits'), NEW i \in DOMAIN commits'[d].parents
               PROVE  commits'[d].parents[i] \in 0 .. d - 1
    BY DEF Grown
  <2>1. CASE d \in 1 .. Len(commits)
    BY <1>2, <2>1, Types DEF Grown
  <2>2. CASE d = Len(commits) + 1
    <3>1. commits'[d].parents[i] \in Commit
      BY <1>3, <2>2
    <3>2. QED
      BY <2>2, <3>1, Types
  <2>3. QED
    BY <1>1, <2>1, <2>2, Types
<1>5. QED
  BY <1>1, <1>2, <1>4, Types DEF CommitsGrow, Commit, Tip

LEMMA CommitsKept == GitInv /\ UNCHANGED commits => CommitsGrow
  BY Types DEF CommitsGrow, Commit, Tip

\* What ReadSource merges is stored.
LEMMA StitchedIs ==
  ASSUME GitInv, NEW m \in merges, NEW head \in Commit
  PROVE  /\ Stitched(m, head) \in CommitRecord
         /\ \A i \in DOMAIN Stitched(m, head).parents : Stitched(m, head).parents[i] \in Commit
<1>1. m.tip \in Commit /\ m.tip \in Nat /\ head \in Nat
  BY Types DEF GitInv, MergesHold, MergeHolds
<1>2. commits[head].tree \in SUBSET Nat
  BY Types DEF CommitRecord
<1> DEFINE parents == IF m.squash THEN <<m.tip>> ELSE <<m.tip, head>>
<1>3. parents \in Seq(Nat) /\ \A i \in DOMAIN parents : parents[i] \in Commit
  BY <1>1
<1> HIDE DEF parents
<1>4. Stitched(m, head) = [parents |-> parents, tree |-> commits[head].tree]
  BY DEF Stitched, parents
<1>5. QED
  BY <1>2, <1>3, <1>4 DEF CommitRecord

LEMMA CommitsStep == GitInv /\ [Next]_gitVars => CommitsGrow
<1> SUFFICES ASSUME GitInv, [Next]_gitVars PROVE CommitsGrow
  OBVIOUS
<1>1. ASSUME NEW r, NEW b, NEW old \in Tip, NEW new \in 0 .. Len(commits) + 1,
             NEW parent \in Commit, BeginPush(r, b, old, new, parent)
      PROVE  CommitsGrow
  <2>1. CASE UNCHANGED commits
    BY <2>1, CommitsKept
  <2>2. CASE commits' = Append(commits, [parents |-> <<parent>>,
                                         tree |-> commits[parent].tree \cup {new}])
    <3> DEFINE c == [parents |-> <<parent>>, tree |-> commits[parent].tree \cup {new}]
    <3>1. parent \in Nat /\ new \in Nat /\ commits[parent].tree \in SUBSET Nat
      BY Types DEF CommitRecord
    <3>2. c \in CommitRecord
      BY <3>1 DEF CommitRecord
    <3>3. \A i \in DOMAIN c.parents : c.parents[i] \in Commit
      OBVIOUS
    <3> HIDE DEF c
    <3>4. QED
      BY <2>2, <3>2, <3>3, CommitAdded DEF c
  <2>3. QED
    BY <1>1, <2>1, <2>2 DEF BeginPush
<1>2. ASSUME NEW m \in merges, ReadSource(m) PROVE CommitsGrow
  <2>1. CASE UNCHANGED commits
    BY <2>1, CommitsKept
  <2>2. ASSUME NEW head \in objects[m.repo], commits' = Append(commits, Stitched(m, head))
        PROVE  CommitsGrow
    <3>1. head \in Commit
      BY <2>2 DEF GitInv, GitTypeOK, Merge
    <3>2. QED
      BY <2>2, <3>1, StitchedIs, CommitAdded
  <2>3. QED
    BY <1>2, <2>1, <2>2 DEF ReadSource
<1>3. CASE UNCHANGED commits
  BY <1>3, CommitsKept
<1>4. QED
  BY <1>1, <1>2, <1>3 DEF Next, Request, PushStep, Ingest, Reopen, ReadRef, CheckRules, Write,
     BeginMerge, WriteMerge, CreateBranch, SetRules, ForkObjects, ForkRefs, SaveRegistry, Restart,
     gitVars

\* A repository that serves requests keeps its objects, and serves until a
\* crash.
ObjectsGrow ==
  /\ objects' \in [Repo -> SUBSET Commit'] /\ copied' \subseteq Commit'
  /\ \A r \in Repo : Served(r) => objects[r] \subseteq objects'[r] /\ (Served(r)' \/ Restart)
  /\ entry' \in [Repo -> {"none", "copying", "saved", "unsaved", "left"}]

LEMMA ObjectsStep == GitInv /\ [Next]_gitVars => ObjectsGrow
<1> SUFFICES ASSUME GitInv, [Next]_gitVars PROVE ObjectsGrow
  OBVIOUS
<1>0. /\ objects \in [Repo -> SUBSET Commit] /\ copied \subseteq Commit /\ Commit \subseteq Commit'
      /\ entry \in [Repo -> {"none", "copying", "saved", "unsaved", "left"}]
      /\ objects \in [Repo -> SUBSET Commit'] /\ copied \subseteq Commit'
  <2>1. objects \in [Repo -> SUBSET Commit] /\ copied \subseteq Commit /\ Commit \subseteq Commit'
    BY CommitsStep DEF CommitsGrow, GitInv, GitTypeOK
  <2>2. objects \in [Repo -> SUBSET Commit']
    BY <2>1
  <2>3. QED
    BY <2>1, <2>2 DEF GitInv, GitTypeOK
<1>1. ASSUME NEW p \in pushes, Ingest(p) PROVE ObjectsGrow
  <2>1. PICK stored \in SUBSET (Reached(Commit, p.new) \ {0}) :
          objects' = [objects EXCEPT ![p.repo] = @ \cup stored]
    BY <1>1 DEF Ingest
  <2>2. p.new \in Nat /\ p.new \in Tip
    BY Types DEF GitInv, PushesHold, PushHolds
  <2>3. Reached(Commit, p.new) \subseteq 0 .. p.new
    BY <2>2, OntoBelow, ReachedOnto, Types
  <2>4. stored \subseteq Commit
    BY <2>1, <2>2, <2>3, Types
  <2>5. UNCHANGED <<commits, entry, copied>>
    BY <1>1 DEF Ingest
  <2>6. QED
    BY <1>0, <2>1, <2>4, <2>5 DEF ObjectsGrow, Served
<1>2. ASSUME NEW m \in merges, ReadSource(m) PROVE ObjectsGrow
  <2>1. UNCHANGED <<entry, copied>>
    BY <1>2 DEF ReadSource
  <2>2. CASE UNCHANGED objects
    BY <1>0, <2>1, <2>2 DEF ObjectsGrow, Served
  <2>3. ASSUME NEW new, objects' = [objects EXCEPT ![m.repo] = @ \cup {Len(commits) + 1}],
               commits' = Append(commits, new)
        PROVE  ObjectsGrow
    <3>1. Len(commits') = Len(commits) + 1
      BY <2>3, Types
    <3>2. Len(commits) + 1 \in Commit'
      BY <3>1, Types DEF Commit
    <3>3. QED
      BY <1>0, <2>1, <2>3, <3>2 DEF ObjectsGrow, Served
  <2>4. QED
    BY <1>2, <2>2, <2>3 DEF ReadSource
<1>3. ASSUME NEW r \in Fork, NEW ok, ForkRefs(r, ok) PROVE ObjectsGrow
  <2>1. /\ objects' = [objects EXCEPT ![r] = copied] /\ copied' = {} /\ entry[r] = "copying"
        /\ entry' = [entry EXCEPT ![r] = "saved"] \/ entry' = [entry EXCEPT ![r] = "unsaved"]
    BY <1>3 DEF ForkRefs
  <2>2. QED
    BY <1>0, <2>1 DEF ObjectsGrow, Served
<1>4. ASSUME NEW r \in Fork, ForkObjects(r) PROVE ObjectsGrow
  <2>1. /\ UNCHANGED objects /\ copied' = objects[Origin] /\ entry[r] = "none"
        /\ entry' = [entry EXCEPT ![r] = "copying"] /\ Origin \in Repo
    BY <1>4 DEF ForkObjects, Repo
  <2>2. QED
    BY <1>0, <2>1 DEF ObjectsGrow, Served
<1>5. ASSUME NEW r \in Fork, SaveRegistry(r) PROVE ObjectsGrow
  BY <1>0, <1>5 DEF SaveRegistry, ObjectsGrow, Served
<1>6. CASE Restart
  <2>1. entry' \in [Repo -> {"none", "copying", "saved", "unsaved", "left"}]
    BY <1>0, <1>6 DEF Restart
  <2>2. QED
    BY <1>0, <1>6, <2>1 DEF Restart, ObjectsGrow
<1>7. CASE UNCHANGED <<objects, copied, entry>>
  BY <1>0, <1>7 DEF ObjectsGrow, Served
<1>8. QED
  BY <1>1, <1>2, <1>3, <1>4, <1>5, <1>6, <1>7, ZenonT(60)
     DEF Next, Request, PushStep, BeginPush, Reopen, ReadRef, CheckRules, Write, BeginMerge,
         WriteMerge, CreateBranch, SetRules, gitVars

\* So what a push or a merge knows stays true.
LEMMA PushStays ==
  ASSUME GitInv, [Next]_gitVars, ~Restart, NEW p \in Push, PushHolds(p)
  PROVE  PushHolds(p)'
<1>1. CommitsGrow /\ ObjectsGrow /\ p.repo \in Repo
  BY CommitsStep, ObjectsStep DEF Push
<1>2. objects[p.repo] \subseteq objects'[p.repo] /\ Served(p.repo)'
  BY <1>1 DEF ObjectsGrow, PushHolds
<1>3. ASSUME p.old \in Reached(objects[p.repo], p.new)
      PROVE  p.old \in Reached(objects[p.repo], p.new)'
  <2> DEFINE S == objects[p.repo]
             S2 == objects'[p.repo]
  <2>1. /\ S \in SUBSET (1 .. Len(commits)) /\ S2 \in SUBSET (1 .. Len(commits'))
        /\ S \subseteq S2 /\ \A d \in S : commits'[d] = commits[d]
    BY <1>1, <1>2 DEF ObjectsGrow, CommitsGrow, GitInv, GitTypeOK, Commit
  <2>2. Grown(commits) /\ Grown(commits') /\ p.new \in Nat
    BY <1>1, Types DEF CommitsGrow, PushHolds
  <2>3. Reached(S, p.new) = Onto(commits, S, p.new)
    BY ReachedOnto
  <2>4. Reached(objects[p.repo], p.new)' = Onto(commits', S2, p.new)
    BY DEF Reached, Onto, Walk, Onward
  <2>5. QED
    <3> HIDE DEF S, S2
    <3>1. Onto(commits, S, p.new) \subseteq Onto(commits', S2, p.new)
      BY <2>1, <2>2, OntoStays
    <3>2. p.old \in Onto(commits, S, p.new)
      BY <1>3, <2>3 DEF S
    <3>3. QED
      BY <2>4, <3>1, <3>2
<1>4. Forward(p) => Forward(p)'
  BY <1>2, <1>3 DEF Forward
<1>5. QED
  BY <1>1, <1>2, <1>4 DEF PushHolds, CommitsGrow

LEMMA MergeStays ==
  ASSUME GitInv, [Next]_gitVars, ~Restart, NEW m \in Merge, MergeHolds(m)
  PROVE  MergeHolds(m)'
<1>1. CommitsGrow /\ ObjectsGrow /\ m.repo \in Repo
  BY CommitsStep, ObjectsStep DEF Merge
<1>2. QED
  BY <1>1 DEF MergeHolds, CommitsGrow, ObjectsGrow
-----------------------------------------------------------------------------
(* Pushes and merges under way. *)

PushTyped(p) == p \in Push /\ (p.strict => p.new # 0)
PushesGood == \A p \in pushes : PushTyped(p) /\ PushHolds(p)

\* A protected branch is not deleted, and one that CheckRules lets pass moves on
\* to a stored commit.
LEMMA RulesForward ==
  ASSUME GitInv, NEW p \in pushes, p.stage = "rules", IsFastForward(p.repo, p.old, p.new)
  PROVE  Forward(p) /\ p.new # 0
<1>1. p.old # 0 /\ p.repo \in Repo /\ objects[p.repo] \subseteq Commit
  BY DEF GitInv, GitTypeOK, PushesHold, PushHolds, Push
<1>2. QED
  BY <1>1, Types DEF IsFastForward, Forward

\* A push at another stage.
LEMMA PushAt ==
  ASSUME NEW p, PushTyped(p), PushHolds(p),
         NEW stage \in {"ingest", "open", "ref", "rules", "write"},
         stage = "rules" => p.old # 0
  PROVE  PushTyped([p EXCEPT !.stage = stage]) /\ PushHolds([p EXCEPT !.stage = stage])
<1> DEFINE q == [p EXCEPT !.stage = stage]
<1>1. /\ q.repo = p.repo /\ q.branch = p.branch /\ q.old = p.old /\ q.new = p.new
      /\ q.strict = p.strict /\ q.brought = p.brought /\ q.stage = stage /\ q \in Push
  BY DEF PushTyped, Push
<1> HIDE DEF q
<1>2. PushTyped(q)
  BY <1>1 DEF PushTyped
<1>3. Forward(q) = Forward(p)
  BY <1>1 DEF Forward
<1>4. PushHolds(q)
  BY <1>1, <1>3 DEF PushHolds
<1>5. QED
  BY <1>2, <1>4 DEF q

\* Pushes go from stage to stage; what they have checked holds.
LEMMA PushesStep == GitInv /\ [Next]_gitVars => PushesGood'
<1> SUFFICES ASSUME GitInv, [Next]_gitVars PROVE PushesGood'
  OBVIOUS
<1>0. \A p \in pushes : PushTyped(p) /\ PushHolds(p)
  BY DEF GitInv, GitTypeOK, PushesHold, PushTyped
<1>1. \A p \in Push : PushTyped(p)' = PushTyped(p)
  BY DEF PushTyped
<1>2. ASSUME ~Restart, NEW p, PushTyped(p), PushHolds(p) PROVE PushTyped(p)' /\ PushHolds(p)'
  BY <1>2, PushStays DEF PushTyped
<1>3. CASE Restart
  BY <1>3 DEF Restart, PushesGood
<1>4. CASE ~Restart
  <2>1. ASSUME NEW p \in pushes, NEW stage \in {"ingest", "open", "ref", "rules", "write"},
               stage = "rules" => p.old # 0,
               pushes' \subseteq pushes \cup {[p EXCEPT !.stage = stage]}
        PROVE  PushesGood'
    <3>1. PushTyped([p EXCEPT !.stage = stage]) /\ PushHolds([p EXCEPT !.stage = stage])
      BY <1>0, <2>1, PushAt
    <3>2. QED
      BY <1>0, <1>2, <1>4, <2>1, <3>1 DEF PushesGood
  <2>2. CASE pushes' \subseteq pushes
    BY <1>0, <1>2, <1>4, <2>2 DEF PushesGood
  <2>3. ASSUME NEW r \in Repo, NEW b \in Branch, NEW old \in Tip, NEW new \in 0 .. Len(commits) + 1,
               NEW parent \in Commit, BeginPush(r, b, old, new, parent)
        PROVE  PushesGood'
    <3> DEFINE p == [repo |-> r, branch |-> b, old |-> old, new |-> new,
                     stage |-> "ingest", strict |-> FALSE, brought |-> FALSE]
    <3>1. /\ p.repo = r /\ p.old = old /\ p.new = new /\ p.stage = "ingest" /\ ~p.strict /\ ~p.brought
          /\ p.stage # "rules"
      OBVIOUS
    <3>2. old \in Nat /\ new \in Nat /\ p \in Push
      BY Types DEF Push
    <3>3. pushes' = pushes \cup {p}
      BY <2>3 DEF BeginPush
    <3> HIDE DEF p
    <3>4. new \in Tip'
      <4>1. Tip \subseteq Tip' /\ Tip' = 0 .. Len(commits')
        BY CommitsStep DEF CommitsGrow, Tip
      <4>2. CASE new <= Len(commits)
        BY <4>1, <4>2, Types
      <4>3. CASE ~ (new <= Len(commits))
        <5>1. new = Len(commits) + 1
          BY <2>3, <4>3 DEF BeginPush
        <5>2. Len(commits') = Len(commits) + 1
          BY <2>3, <4>3, Types DEF BeginPush
        <5>3. QED
          BY <4>1, <5>1, <5>2, Types
      <4>4. QED
        BY <4>2, <4>3
    <3>5. old \in Tip' /\ Served(r)'
      BY <2>3, CommitsStep DEF CommitsGrow, BeginPush, Listed, Served
    <3>6. PushTyped(p)' /\ PushHolds(p)'
      BY <3>1, <3>2, <3>4, <3>5 DEF PushTyped, PushHolds
    <3>7. QED
      BY <1>0, <1>2, <1>4, <3>3, <3>6 DEF PushesGood
  <2>4. ASSUME NEW p \in pushes, Ingest(p) PROVE PushesGood'
    <3>0. PICK brought \in BOOLEAN :
            /\ brought = (p.new \in objects'[p.repo])
            /\ pushes' = (pushes \ {p}) \cup {[p EXCEPT !.stage = "open", !.brought = brought]}
      <4>1. (p.new \in objects'[p.repo]) \in BOOLEAN
        OBVIOUS
      <4>2. QED
        BY <2>4, <4>1 DEF Ingest
    <3> DEFINE q == [p EXCEPT !.stage = "open", !.brought = brought]
    <3>1. p \in Push /\ PushTyped(p)' /\ PushHolds(p)'
      BY <1>0, <1>2, <1>4 DEF PushTyped
    <3>2. /\ q.repo = p.repo /\ q.branch = p.branch /\ q.old = p.old /\ q.new = p.new
          /\ q.strict = p.strict /\ q.brought = brought /\ q.stage = "open"
          /\ q \in Push /\ q.stage # "rules"
      BY <3>1 DEF Push
    <3>3. pushes' \subseteq pushes \cup {q}
      BY <3>0
    <3> HIDE DEF q
    <3>4. Forward(p)' => Forward(q)'
      BY <3>2 DEF Forward
    <3>5. PushTyped(q)' /\ PushHolds(q)'
      BY <3>0, <3>1, <3>2, <3>4 DEF PushTyped, PushHolds
    <3>6. QED
      BY <1>0, <1>2, <1>4, <3>3, <3>5 DEF PushesGood
  <2>5. ASSUME NEW p \in pushes, Reopen(p) PROVE PushesGood'
    <3>1. pushes' \subseteq pushes \cup {[p EXCEPT !.stage = "ref"]}
      BY <2>5 DEF Reopen, Advance
    <3>2. QED
      BY <2>1, <3>1
  <2>6. ASSUME NEW p \in pushes, ReadRef(p) PROVE PushesGood'
    <3>1. \/ pushes' \subseteq pushes \cup {[p EXCEPT !.stage = "write"]}
          \/ p.old # 0 /\ pushes' \subseteq pushes \cup {[p EXCEPT !.stage = "rules"]}
      BY <2>6 DEF ReadRef, Advance
    <3>2. QED
      BY <2>1, <3>1
  <2>7. ASSUME NEW p \in pushes, CheckRules(p) PROVE PushesGood'
    <3> DEFINE protected == p.branch \in rules[p.repo]
               q == [p EXCEPT !.stage = "write", !.strict = protected]
    <3>1. p \in Push /\ PushTyped(p) /\ PushHolds(p)
      BY <1>0 DEF PushTyped
    <3>2. protected \in BOOLEAN
      OBVIOUS
    <3>3. CASE pushes' \subseteq pushes
      BY <2>2, <3>3
    <3>4. CASE pushes' \subseteq pushes \cup {q} /\ (protected => IsFastForward(p.repo, p.old, p.new))
      <4>1. protected => Forward(p) /\ p.new # 0
        BY <2>7, <3>4, RulesForward DEF CheckRules
      <4> HIDE DEF protected
      <4>2. /\ q.repo = p.repo /\ q.branch = p.branch /\ q.old = p.old /\ q.new = p.new
            /\ q.strict = protected /\ q.brought = p.brought /\ q.stage = "write" /\ q \in Push
        BY <3>1, <3>2 DEF Push
      <4> HIDE DEF q
      <4>3. Forward(p) => Forward(q)
        BY <4>2 DEF Forward
      <4>4. PushTyped(q) /\ PushHolds(q)
        BY <3>1, <4>1, <4>2, <4>3 DEF PushTyped, PushHolds
      <4>5. QED
        BY <1>0, <1>2, <1>4, <3>4, <4>4 DEF PushesGood
    <3>5. QED
      BY <2>7, <3>3, <3>4 DEF CheckRules
  <2>8. QED
    BY <1>4, <2>2, <2>3, <2>4, <2>5, <2>6, <2>7
       DEF Next, Request, PushStep, Write, BeginMerge, ReadSource, WriteMerge, CreateBranch, SetRules,
           ForkObjects, ForkRefs, SaveRegistry, gitVars
<1>5. QED
  BY <1>3, <1>4

MergesGood == \A m \in merges : m \in Merge /\ MergeHolds(m)

LEMMA MergesStep == GitInv /\ [Next]_gitVars => MergesGood'
<1> SUFFICES ASSUME GitInv, [Next]_gitVars PROVE MergesGood'
  OBVIOUS
<1>0. \A m \in merges : m \in Merge /\ MergeHolds(m)
  BY DEF GitInv, GitTypeOK, MergesHold
<1>1. CASE Restart
  BY <1>1 DEF Restart, MergesGood
<1>2. CASE ~Restart
  <2>0. \A m \in merges : m \in Merge /\ MergeHolds(m)'
    BY <1>0, <1>2, MergeStays
  <2>1. ASSUME NEW r \in Repo, NEW b \in Branch, NEW source \in Branch, NEW squash \in BOOLEAN,
               BeginMerge(r, b, source, squash)
        PROVE  MergesGood'
    <3>0. PICK tip : tip = refs[r][b]
      OBVIOUS
    <3> DEFINE m == [repo |-> r, target |-> b, source |-> source, new |-> 0,
                     tip |-> tip, squash |-> squash, stage |-> "source"]
    <3>1. m.repo = r /\ m.tip = tip /\ m.new = 0 /\ m.stage = "source" /\ m.stage # "write"
      OBVIOUS
    <3>2. tip \in Commit /\ tip \in Nat
      <4>1. refs[r][b] \in Tip /\ refs[r][b] # 0
        BY <2>1 DEF BeginMerge, GitInv, GitTypeOK
      <4>2. QED
        BY <3>0, <4>1, Types
    <3>3. m \in Merge
      BY <3>2 DEF Merge
    <3>4. merges' = merges \cup {m}
      BY <2>1, <3>0 DEF BeginMerge
    <3> HIDE DEF m
    <3>5. MergeHolds(m)
      BY <2>1, <3>1, <3>2, Types DEF MergeHolds, BeginMerge, Listed, Served
    <3>6. MergeHolds(m)'
      BY <1>2, <3>3, <3>5, MergeStays
    <3>7. QED
      BY <2>0, <3>3, <3>4, <3>6 DEF MergesGood
  <2>2. ASSUME NEW m \in merges, ReadSource(m) PROVE MergesGood'
    <3>1. CASE merges' \subseteq merges
      BY <2>0, <3>1 DEF MergesGood
    <3>2. ASSUME NEW new \in Commit', merges' \subseteq merges \cup {[m EXCEPT !.stage = "write", !.new = new]}
          PROVE  MergesGood'
      <4> DEFINE q == [m EXCEPT !.stage = "write", !.new = new]
      <4>1. m \in Merge /\ MergeHolds(m)'
        BY <2>0
      <4>2. new \in Nat /\ new \in Tip'
        BY <3>2, CommitsStep DEF CommitsGrow, Commit, Tip
      <4>3. q.repo = m.repo /\ q.tip = m.tip /\ q.new = new /\ q \in Merge
        BY <4>1, <4>2 DEF Merge
      <4> HIDE DEF q
      <4>4. MergeHolds(q)'
        BY <4>1, <4>2, <4>3 DEF MergeHolds
      <4>5. QED
        BY <2>0, <3>2, <4>3, <4>4 DEF MergesGood, q
    <3>3. CASE refs[m.repo][m.source] # 0
               /\ merges' = (merges \ {m}) \cup {[m EXCEPT !.stage = "write", !.new = refs[m.repo][m.source]]}
      <4>1. refs[m.repo][m.source] \in Tip
        BY <1>0 DEF GitInv, GitTypeOK, Merge
      <4>2. refs[m.repo][m.source] \in Commit'
        BY <3>3, <4>1, CommitsStep, Types DEF CommitsGrow
      <4>3. QED
        BY <3>2, <3>3, <4>2
    <3>4. ASSUME NEW new, commits' = Append(commits, new),
                 merges' = (merges \ {m}) \cup {[m EXCEPT !.stage = "write", !.new = Len(commits) + 1]}
          PROVE  MergesGood'
      <4>1. Len(commits) + 1 \in Commit'
        <5>1. Len(commits') = Len(commits) + 1
          BY <3>4, Types
        <5>2. QED
          BY <5>1, Types DEF Commit
      <4>2. QED
        BY <3>2, <3>4, <4>1
    <3>5. QED
      BY <2>2, <3>1, <3>3, <3>4 DEF ReadSource
  <2>3. CASE merges' \subseteq merges
    BY <2>0, <2>3 DEF MergesGood
  <2>4. QED
    BY <1>2, <2>1, <2>2, <2>3, ZenonT(60)
       DEF Next, Request, PushStep, BeginPush, Ingest, Reopen, ReadRef, CheckRules, Write, WriteMerge,
           CreateBranch, SetRules, ForkObjects, ForkRefs, SaveRegistry, gitVars
<1>3. QED
  BY <1>1, <1>2
-----------------------------------------------------------------------------
(* Branches. *)

\* How branches move: a push writes, something else does, a fork gets them, or
\* nothing happens to them.
Pushed(p) == Write(p) /\ Expected(p)
Moved(r, b, new) == UpdateRef(r, b, new) /\ UNCHANGED <<won, objects, entry, copied, pushes>>
Forked(r) == \E ok \in BOOLEAN : ForkRefs(r, ok)

LEMMA RefsCases ==
  ASSUME GitInv, [Next]_gitVars
  PROVE  \/ UNCHANGED <<refs, won, strayed, whole>>
         \/ \E p \in pushes : Pushed(p)
         \/ \E r \in Repo, b \in Branch, new \in Tip : Moved(r, b, new)
         \/ \E r \in Fork : Forked(r)
<1>1. ASSUME NEW m \in merges, WriteMerge(m)
      PROVE  \E r \in Repo, b \in Branch, new \in Tip : Moved(r, b, new)
  <2>1. m \in Merge /\ m.new \in Tip
    BY DEF GitInv, GitTypeOK, MergesHold, MergeHolds
  <2>2. m.repo \in Repo /\ m.target \in Branch /\ Moved(m.repo, m.target, m.new)
    BY <1>1, <2>1 DEF WriteMerge, Moved, Merge
  <2>3. QED
    BY <2>1, <2>2
<1>2. ASSUME NEW r \in Repo, NEW b \in Branch, NEW commit \in Commit, CreateBranch(r, b, commit)
      PROVE  \E q \in Repo, d \in Branch, new \in Tip : Moved(q, d, new)
  <2>1. commit \in Tip /\ Moved(r, b, commit)
    BY <1>2, Types DEF CreateBranch, Moved
  <2>2. QED
    BY <2>1
<1>3. ASSUME NEW p \in pushes, Write(p)
      PROVE  Pushed(p) \/ UNCHANGED <<refs, won, strayed, whole>>
  BY <1>3 DEF Write, Pushed
<1>4. ASSUME NEW r \in Repo, NEW b \in Branch, Request(r, b)
      PROVE  \/ \E commit \in Commit : CreateBranch(r, b, commit)
             \/ UNCHANGED <<refs, won, strayed, whole>>
  BY <1>4 DEF Request, BeginPush, BeginMerge
<1>5. ASSUME NEW p \in pushes, PushStep(p)
      PROVE  Write(p) \/ UNCHANGED <<refs, won, strayed, whole>>
  BY <1>5 DEF PushStep, Ingest, Reopen, ReadRef, CheckRules
<1>6. ASSUME NEW r \in Fork, ForkObjects(r) \/ SaveRegistry(r) \/ Forked(r)
      PROVE  Forked(r) \/ UNCHANGED <<refs, won, strayed, whole>>
  BY <1>6 DEF ForkObjects, SaveRegistry
<1>7. ASSUME NEW m \in merges, ReadSource(m) PROVE UNCHANGED <<refs, won, strayed, whole>>
  BY <1>7 DEF ReadSource
<1>8. ASSUME (\E r \in Repo, b \in Guarded, ok \in BOOLEAN : SetRules(r, b, ok)) \/ Restart
             \/ UNCHANGED gitVars
      PROVE  UNCHANGED <<refs, won, strayed, whole>>
  BY <1>8 DEF SetRules, Restart, gitVars
<1>9. \A r \in Fork, ok \in BOOLEAN : ForkRefs(r, ok) => Forked(r)
  BY DEF Forked
<1>10. QED
  BY <1>1, <1>2, <1>3, <1>4, <1>5, <1>6, <1>7, <1>8, <1>9 DEF Next

RefsTyped ==
  /\ refs \in [Repo -> [Branch -> Tip]]
  /\ whole \in [Repo -> SUBSET Branch] /\ strayed \in [Repo -> SUBSET Branch]
  /\ won \in [Repo -> SUBSET (Branch \X Tip \X Tip)]

LEMMA PushIs ==
  ASSUME GitInv, NEW p \in pushes
  PROVE  p \in Push /\ p.repo \in Repo /\ p.branch \in Branch /\ PushHolds(p)
  BY DEF GitInv, GitTypeOK, PushesHold, Push

LEMMA RefsTypedStep == GitInv /\ [Next]_gitVars => RefsTyped'
<1> SUFFICES ASSUME GitInv, [Next]_gitVars PROVE RefsTyped'
  OBVIOUS
<1>0. Tip \subseteq Tip'
  BY CommitsStep DEF CommitsGrow
<1>1. /\ refs \in [Repo -> [Branch -> Tip']]
      /\ won \in [Repo -> SUBSET (Branch \X Tip' \X Tip')]
      /\ whole \in [Repo -> SUBSET Branch] /\ strayed \in [Repo -> SUBSET Branch]
  <2>1. RefsTyped
    BY DEF GitInv, GitTypeOK, RefsTyped
  <2>2. Branch \X Tip \X Tip \subseteq Branch \X Tip' \X Tip'
    BY <1>0
  <2>3. \A r \in Repo : refs[r] \in [Branch -> Tip'] /\ won[r] \subseteq Branch \X Tip' \X Tip'
    BY <1>0, <2>1, <2>2 DEF RefsTyped
  <2>4. QED
    BY <2>1, <2>3 DEF RefsTyped
<1>2. CASE UNCHANGED <<refs, won, strayed, whole>>
  BY <1>1, <1>2 DEF RefsTyped
<1>3. ASSUME NEW p \in pushes, Pushed(p) PROVE RefsTyped'
  <2>1. /\ p.repo \in Repo /\ p.branch \in Branch /\ p.old \in Tip' /\ p.new \in Tip'
    BY <1>0, PushIs DEF PushHolds
  <2>2. <<p.branch, p.old, p.new>> \in Branch \X Tip' \X Tip'
    BY <2>1
  <2>3. /\ refs' = [refs EXCEPT ![p.repo][p.branch] = p.new]
        /\ won' = [won EXCEPT ![p.repo] = @ \cup {<<p.branch, p.old, p.new>>}]
        /\ strayed' \in {strayed, [strayed EXCEPT ![p.repo] = @ \cup {p.branch}]}
        /\ whole' \in {[whole EXCEPT ![p.repo] = @ \cup {p.branch}],
                       [whole EXCEPT ![p.repo] = @ \ {p.branch}]}
    BY <1>3 DEF Pushed, Write
  <2>4. refs' \in [Repo -> [Branch -> Tip']]
    BY <1>1, <2>1, <2>3
  <2>5. won' \in [Repo -> SUBSET (Branch \X Tip' \X Tip')]
    BY <1>1, <2>1, <2>2, <2>3
  <2>6. whole' \in [Repo -> SUBSET Branch] /\ strayed' \in [Repo -> SUBSET Branch]
    <3>1. \A f \in [Repo -> SUBSET Branch] :
            /\ [f EXCEPT ![p.repo] = @ \cup {p.branch}] \in [Repo -> SUBSET Branch]
            /\ [f EXCEPT ![p.repo] = @ \ {p.branch}] \in [Repo -> SUBSET Branch]
      BY <2>1
    <3>2. QED
      BY <1>1, <2>3, <3>1, SMTT(30)
  <2>7. QED
    BY <2>4, <2>5, <2>6 DEF RefsTyped
<1>4. ASSUME NEW r \in Repo, NEW b \in Branch, NEW new \in Tip, Moved(r, b, new) PROVE RefsTyped'
  <2>1. refs' \in [Repo -> [Branch -> Tip']]
    BY <1>0, <1>1, <1>4 DEF Moved, UpdateRef
  <2>2. whole' \in [Repo -> SUBSET Branch] /\ strayed' \in [Repo -> SUBSET Branch] /\ won' = won
    BY <1>1, <1>4 DEF Moved, UpdateRef
  <2>3. QED
    BY <1>1, <2>1, <2>2 DEF RefsTyped
<1>5. ASSUME NEW r \in Fork, Forked(r) PROVE RefsTyped'
  <2>1. /\ refs' = [refs EXCEPT ![r] = refs[Origin]] /\ whole' = [whole EXCEPT ![r] = whole[Origin]]
        /\ UNCHANGED <<won, strayed>> /\ Origin \in Repo /\ r \in Repo
    BY <1>5 DEF Forked, ForkRefs, Repo
  <2>2. refs' \in [Repo -> [Branch -> Tip']]
    BY <1>1, <2>1
  <2>3. QED
    BY <1>1, <2>1, <2>2 DEF RefsTyped
<1>6. QED
  BY <1>2, <1>3, <1>4, <1>5, RefsCases

\* The push that won is ahead of all others that won from the same tip, unless
\* the branch strayed.
LEMMA WonStep == GitInv /\ [Next]_gitVars => WonForward' /\ OneWins'
<1> SUFFICES ASSUME GitInv, [Next]_gitVars PROVE WonForward' /\ OneWins'
  OBVIOUS
<1>0. /\ WonForward /\ OneWins /\ RefsTyped
      /\ \A r \in Repo : \A v \in won[r] : v[1] \in Branch /\ v[2] \in Nat /\ v[3] \in Nat
      /\ \A r \in Repo, b \in Branch : refs[r][b] \in Nat
  <2>1. RefsTyped /\ Tip \subseteq Nat
    BY Types DEF GitInv, GitTypeOK, RefsTyped
  <2>2. \A r \in Repo : \A v \in won[r] : v \in Branch \X Tip \X Tip
    BY <2>1 DEF RefsTyped
  <2>3. QED
    BY <2>1, <2>2 DEF GitInv, RefsTyped
<1>1. CASE UNCHANGED <<refs, won, strayed, whole>>
  BY <1>0, <1>1 DEF WonForward, OneWins
<1>2. ASSUME NEW p \in pushes, Pushed(p) PROVE WonForward' /\ OneWins'
  <2> DEFINE r == p.repo
             b == p.branch
             new == <<p.branch, p.old, p.new>>
  <2>1. /\ p.repo \in Repo /\ p.branch \in Branch /\ PushHolds(p) /\ p.old \in Nat /\ p.new \in Nat
        /\ objects[p.repo] \in SUBSET (1 .. Len(commits))
    <3>1. p.repo \in Repo /\ p.branch \in Branch /\ PushHolds(p)
      BY PushIs
    <3>2. p.old \in Nat /\ p.new \in Nat
      BY <3>1, Types DEF PushHolds
    <3>3. objects \in [Repo -> SUBSET Commit]
      BY DEF GitInv, GitTypeOK
    <3>4. QED
      BY <3>1, <3>2, <3>3, Types
  <2>2. /\ refs[r][b] = p.old
        /\ refs' = [refs EXCEPT ![r][b] = p.new]
        /\ won' = [won EXCEPT ![r] = @ \cup {new}]
        /\ \/ p.strict /\ strayed' = strayed
           \/ strayed' = [strayed EXCEPT ![r] = @ \cup {b}]
    BY <1>2 DEF Pushed, Write, Expected
  <2>3. new[1] = b /\ new[2] = p.old /\ new[3] = p.new
    OBVIOUS
  <2>4. p.strict => p.old <= p.new
    <3>1. p.old \in Reached(objects[p.repo], p.new) => p.old \in 0 .. p.new
      BY <2>1, OntoBelow, ReachedOnto, Types
    <3>2. QED
      BY <2>1, <3>1 DEF PushHolds, Forward
  <2> HIDE DEF r, b, new
  <2>5. /\ \A q \in Repo, d \in Branch : refs'[q][d] = IF q = r /\ d = b THEN p.new ELSE refs[q][d]
        /\ \A q \in Repo : won'[q] = IF q = r THEN won[q] \cup {new} ELSE won[q]
        /\ \A q \in Repo : strayed[q] \subseteq strayed'[q]
        /\ b \notin strayed'[r] => p.strict
        /\ r \in Repo /\ b \in Branch
    <3>1. r \in Repo /\ b \in Branch
      BY <2>1 DEF r, b
    <3>2. QED
      BY <1>0, <2>2, <3>1 DEF RefsTyped
  <2>6. WonForward'
    <3> SUFFICES ASSUME NEW q \in Repo, NEW v \in won'[q], v[1] \notin strayed'[q], v[2] # v[3]
                 PROVE  v[2] < v[3] /\ v[3] <= refs'[q][v[1]]
      BY DEF WonForward
    <3>1. CASE q = r /\ v = new
      BY <2>1, <2>3, <2>4, <2>5, <3>1
    <3>2. CASE v \in won[q]
      <4>1. v[2] < v[3] /\ v[3] <= refs[q][v[1]] /\ v[1] \in Branch
        BY <1>0, <2>5, <3>2 DEF WonForward
      <4>2. refs[q][v[1]] <= refs'[q][v[1]]
        <5>1. CASE q = r /\ v[1] = b
          BY <2>1, <2>2, <2>4, <2>5, <5>1
        <5>2. CASE ~ (q = r /\ v[1] = b)
          BY <1>0, <2>5, <4>1, <5>2
        <5>3. QED
          BY <5>1, <5>2
      <4>3. refs'[q][v[1]] \in Nat
        BY <1>0, <2>1, <2>5, <4>1
      <4>4. QED
        BY <1>0, <3>2, <4>1, <4>2, <4>3
    <3>3. QED
      BY <2>5, <3>1, <3>2, ZenonT(60)
  <2>7. ASSUME NEW v \in won[r], v[1] = b, v[2] = p.old, v[2] # v[3], b \notin strayed'[r]
        PROVE  FALSE
    <3>1. v[2] < v[3] /\ v[3] <= refs[r][b]
      BY <1>0, <2>5, <2>7 DEF WonForward
    <3>2. v[2] \in Nat /\ v[3] \in Nat
      BY <1>0, <2>5, <2>7
    <3>3. QED
      BY <2>1, <2>2, <2>7, <3>1, <3>2
  <2>8. OneWins'
    <3> SUFFICES ASSUME NEW q \in Repo, NEW v \in won'[q], NEW w \in won'[q],
                        v[1] = w[1], v[2] = w[2], v[2] # v[3], w[2] # w[3], v[1] \notin strayed'[q]
                 PROVE  v = w
      BY DEF OneWins
    <3>1. CASE v \in won[q] /\ w \in won[q]
      BY <1>0, <2>5, <3>1 DEF OneWins
    <3>2. CASE q = r /\ v = new /\ w \in won[q]
      BY <2>3, <2>7, <3>2
    <3>3. CASE q = r /\ w = new /\ v \in won[q]
      BY <2>3, <2>7, <3>3
    <3>4. \A u \in won'[q] : u \in won[q] \/ (q = r /\ u = new)
      <4>1. won'[q] = IF q = r THEN won[q] \cup {new} ELSE won[q]
        BY <2>5
      <4>2. QED
        BY <4>1
    <3>5. QED
      BY <3>1, <3>2, <3>3, <3>4
  <2>9. QED
    BY <2>6, <2>8
<1>3. ASSUME NEW r \in Repo, NEW b \in Branch, NEW new \in Tip, Moved(r, b, new)
      PROVE  WonForward' /\ OneWins'
  <2>1. /\ \A q \in Repo, d \in Branch : d \notin strayed'[q] => refs'[q][d] = refs[q][d] /\ d \notin strayed[q]
        /\ won' = won
    BY <1>0, <1>3 DEF Moved, UpdateRef, RefsTyped
  <2>2. QED
    BY <1>0, <2>1 DEF WonForward, OneWins
<1>4. ASSUME NEW r \in Fork, Forked(r) PROVE WonForward' /\ OneWins'
  <2>1. /\ refs' = [refs EXCEPT ![r] = refs[Origin]] /\ UNCHANGED <<won, strayed>>
        /\ entry[r] = "copying" /\ r \in Repo
    BY <1>4 DEF Forked, ForkRefs, Repo
  <2>2. won[r] = {}
    BY <2>1 DEF GitInv, Forking
  <2>3. QED
    BY <1>0, <2>1, <2>2 DEF WonForward, OneWins, RefsTyped
<1>5. QED
  BY <1>1, <1>2, <1>3, <1>4, RefsCases
-----------------------------------------------------------------------------
(* Forks. *)

LEMMA ForkingStep == GitInv /\ [Next]_gitVars => Forking'
<1> SUFFICES ASSUME GitInv, [Next]_gitVars PROVE Forking'
  OBVIOUS
<1>0. /\ Forking /\ entry \in [Repo -> {"none", "copying", "saved", "unsaved", "left"}]
      /\ won \in [Repo -> SUBSET (Branch \X Tip \X Tip)] /\ Origin \in Repo /\ Origin \notin Fork
      /\ Fork \subseteq Repo
  BY RepoAssumption DEF GitInv, GitTypeOK, Repo
<1>1. CASE UNCHANGED <<entry, won>>
  BY <1>0, <1>1 DEF Forking
<1>2. ASSUME NEW p \in pushes, Pushed(p) PROVE Forking'
  <2>1. Served(p.repo) /\ p.repo \in Repo
    BY PushIs DEF PushHolds
  <2>2. entry' = entry /\ \A r \in Repo : r # p.repo => won'[r] = won[r]
    BY <1>0, <1>2 DEF Pushed, Write
  <2>3. QED
    BY <1>0, <2>1, <2>2 DEF Forking, Served
<1>3. ASSUME NEW r \in Fork, ForkObjects(r) PROVE Forking'
  <2>1. /\ entry[r] = "none" /\ entry' = [entry EXCEPT ![r] = "copying"] /\ won' = won
        /\ \A q \in Repo : entry[q] # "copying"
    BY <1>3 DEF ForkObjects, RegistryFree
  <2>2. QED
    BY <1>0, <2>1 DEF Forking
<1>4. ASSUME NEW r \in Fork, NEW ok, ForkRefs(r, ok) PROVE Forking'
  <2>1. /\ won' = won /\ entry[r] = "copying"
        /\ entry' = [entry EXCEPT ![r] = "saved"] \/ entry' = [entry EXCEPT ![r] = "unsaved"]
    BY <1>4 DEF ForkRefs
  <2>2. QED
    BY <1>0, <2>1 DEF Forking
<1>5. ASSUME NEW r \in Fork, SaveRegistry(r) PROVE Forking'
  BY <1>0, <1>5 DEF SaveRegistry, Forking
<1>6. CASE Restart
  BY <1>0, <1>6 DEF Restart, Forking
<1>7. QED
  BY <1>1, <1>2, <1>3, <1>4, <1>5, <1>6, ZenonT(60)
     DEF Next, Request, PushStep, BeginPush, Ingest, Reopen, ReadRef, CheckRules, Write, BeginMerge,
         ReadSource, WriteMerge, CreateBranch, SetRules, Pushed, gitVars

\* Whoever may still move a branch while a fork is made had brought its commit
\* when the objects were copied.
Brought(p, S) == p.repo = Origin /\ p.brought /\ p.stage \notin {"ingest", "open"} => p.new \in S
TipsIn(r, S) == \A b \in whole[r] : refs[r][b] # 0 => refs[r][b] \in S

LEMMA CopyStep == GitInv /\ [Next]_gitVars => CopyComplete'
<1> SUFFICES ASSUME GitInv, [Next]_gitVars, NEW r \in Repo, entry'[r] = "copying"
             PROVE  TipsIn(Origin, copied)' /\ \A p \in pushes' : Brought(p, copied')
  BY DEF CopyComplete, TipsIn, Brought
<1>0. /\ entry \in [Repo -> {"none", "copying", "saved", "unsaved", "left"}]
      /\ Origin \in Repo /\ Fork \subseteq Repo /\ Origin \notin Fork /\ entry[Origin] = "saved"
      /\ RefsTyped
  BY RepoAssumption DEF GitInv, GitTypeOK, Forking, RefsTyped, Repo
<1>1. ASSUME NEW q \in Fork, ForkObjects(q)
      PROVE  TipsIn(Origin, copied)' /\ \A p \in pushes' : Brought(p, copied')
  <2>1. copied' = objects[Origin] /\ UNCHANGED <<refs, whole, pushes>>
    BY <1>1 DEF ForkObjects
  <2>2. TipsIn(Origin, objects[Origin])
    BY <1>0 DEF GitInv, PushedCommitsStored, Listed, TipsIn
  <2>3. \A p \in pushes : Brought(p, objects[Origin])
    BY PushIs DEF PushHolds, Brought
  <2>4. QED
    BY <2>1, <2>2, <2>3 DEF TipsIn
<1>2. CASE ~ \E q \in Fork : ForkObjects(q)
  <2>1. entry[r] = "copying"
    BY <1>0, <1>2, ZenonT(60) DEF Next, Request, PushStep, BeginPush, Ingest, Reopen, ReadRef, CheckRules, Write,
       BeginMerge, ReadSource, WriteMerge, CreateBranch, SetRules, ForkRefs, SaveRegistry, Restart,
       gitVars
  <2>2. TipsIn(Origin, copied) /\ \A p \in pushes : Brought(p, copied)
    BY <2>1 DEF GitInv, CopyComplete, TipsIn, Brought
  <2>3. ~RegistryFree
    BY <2>1 DEF RegistryFree
  <2>4. ASSUME NEW q \in Fork, NEW ok, ForkRefs(q, ok) PROVE FALSE
    <3>1. entry[q] = "copying" /\ entry'[q] # "copying"
      BY <1>0, <2>4 DEF ForkRefs
    <3>2. QED
      BY <1>0, <2>1, <3>1 DEF GitInv, Forking
  <2>5. ~Restart
    BY <1>0 DEF Restart
  <2>6. copied' = copied
    BY <1>2, <2>4, <2>5, ZenonT(60) DEF Next, Request, PushStep, BeginPush, Ingest, Reopen, ReadRef, CheckRules,
       Write, BeginMerge, ReadSource, WriteMerge, CreateBranch, SetRules, SaveRegistry, gitVars
  <2>7. TipsIn(Origin, copied)'
    <3>1. CASE UNCHANGED <<refs, won, strayed, whole>>
      BY <2>2, <2>6, <3>1 DEF TipsIn
    <3>2. ASSUME NEW p \in pushes, Pushed(p) PROVE TipsIn(Origin, copied)'
      <4>1. /\ refs' = [refs EXCEPT ![p.repo][p.branch] = p.new]
            /\ whole' = [whole EXCEPT ![p.repo] =
                           IF p.brought THEN @ \cup {p.branch} ELSE @ \ {p.branch}]
            /\ p.stage = "write" /\ p.repo \in Repo /\ p.branch \in Branch
        BY <3>2, PushIs DEF Pushed, Write
      <4>2. CASE p.repo # Origin
        <5>1. whole'[Origin] = whole[Origin] /\ refs'[Origin] = refs[Origin]
          BY <1>0, <4>1, <4>2 DEF RefsTyped
        <5>2. QED
          BY <2>2, <2>6, <5>1 DEF TipsIn
      <4>3. CASE p.repo = Origin
        <5>1. p.brought => p.new \in copied
          BY <2>2, <4>1, <4>3 DEF Brought
        <5>2. \A b \in whole'[Origin] : IF b = p.branch THEN p.brought ELSE b \in whole[Origin]
          BY <1>0, <4>1, <4>3 DEF RefsTyped
        <5>3. \A b \in Branch : refs'[Origin][b] = IF b = p.branch THEN p.new ELSE refs[Origin][b]
          BY <1>0, <4>1, <4>3 DEF RefsTyped
        <5>4. whole'[Origin] \subseteq Branch
          BY <1>0, RefsTypedStep DEF RefsTyped
        <5>5. QED
          BY <2>2, <2>6, <5>1, <5>2, <5>3, <5>4 DEF TipsIn
      <4>4. QED
        BY <4>2, <4>3
    <3>3. ASSUME NEW q \in Repo, NEW b \in Branch, NEW new \in Tip, Moved(q, b, new)
          PROVE  TipsIn(Origin, copied)'
      <4>1. \A d \in whole'[Origin] : d \in whole[Origin] /\ refs'[Origin][d] = refs[Origin][d]
        BY <1>0, <3>3 DEF Moved, UpdateRef, RefsTyped
      <4>2. QED
        BY <2>2, <2>6, <4>1 DEF TipsIn
    <3>4. \A q \in Fork : ~Forked(q)
      BY <2>4 DEF Forked
    <3>5. QED
      BY <3>1, <3>2, <3>3, <3>4, RefsCases
  <2>8. \A p \in pushes' : Brought(p, copied)
    <3>1. CASE pushes' \subseteq pushes
      BY <2>2, <3>1
    <3>2. ASSUME NEW p \in pushes, NEW q, pushes' \subseteq pushes \cup {q}, q.stage \in {"ingest", "open"}
          PROVE  \A o \in pushes' : Brought(o, copied)
      BY <2>2, <3>2 DEF Brought
    <3>3. ASSUME NEW p \in pushes, NEW q, pushes' \subseteq pushes \cup {q},
                 q.repo = p.repo /\ q.brought = p.brought /\ q.new = p.new,
                 p.stage \notin {"ingest", "open"}
          PROVE  \A o \in pushes' : Brought(o, copied)
      BY <2>2, <3>3 DEF Brought
    <3>4. ASSUME NEW q \in Repo, NEW b \in Branch, NEW old, NEW new, NEW parent,
                 BeginPush(q, b, old, new, parent)
          PROVE  \A o \in pushes' : Brought(o, copied)
      BY <2>2, <3>4 DEF BeginPush, Brought
    <3>5. ASSUME NEW p \in pushes, Ingest(p) PROVE \A o \in pushes' : Brought(o, copied)
      <4>1. [p EXCEPT !.stage = "open", !.brought = p.new \in objects'[p.repo]].stage = "open"
        BY PushIs DEF Push
      <4>2. QED
        BY <3>2, <3>5, <4>1 DEF Ingest
    <3>6. ASSUME NEW p \in pushes, ReadRef(p) \/ CheckRules(p)
          PROVE  \A o \in pushes' : Brought(o, copied)
      <4>1. p \in Push /\ p.stage \notin {"ingest", "open"}
        BY <3>6, PushIs DEF ReadRef, CheckRules
      <4>2. \A stage, strict :
              /\ [p EXCEPT !.stage = stage].repo = p.repo
              /\ [p EXCEPT !.stage = stage].brought = p.brought
              /\ [p EXCEPT !.stage = stage].new = p.new
              /\ [p EXCEPT !.stage = stage, !.strict = strict].repo = p.repo
              /\ [p EXCEPT !.stage = stage, !.strict = strict].brought = p.brought
              /\ [p EXCEPT !.stage = stage, !.strict = strict].new = p.new
        BY <4>1 DEF Push
      <4>3. \/ pushes' \subseteq pushes
            \/ \E stage : pushes' \subseteq pushes \cup {[p EXCEPT !.stage = stage]}
            \/ \E stage, strict : pushes' \subseteq pushes \cup {[p EXCEPT !.stage = stage, !.strict = strict]}
        BY <3>6 DEF ReadRef, CheckRules, Advance
      <4>4. CASE pushes' \subseteq pushes
        BY <3>1, <4>4
      <4>5. ASSUME NEW stage, pushes' \subseteq pushes \cup {[p EXCEPT !.stage = stage]}
            PROVE  \A o \in pushes' : Brought(o, copied)
        <5>1. PICK q : q = [p EXCEPT !.stage = stage]
          OBVIOUS
        <5>2. q.repo = p.repo /\ q.brought = p.brought /\ q.new = p.new
          BY <4>2, <5>1
        <5>3. QED
          BY <3>3, <4>1, <4>5, <5>1, <5>2
      <4>6. ASSUME NEW stage, NEW strict,
                   pushes' \subseteq pushes \cup {[p EXCEPT !.stage = stage, !.strict = strict]}
            PROVE  \A o \in pushes' : Brought(o, copied)
        <5>1. PICK q : q = [p EXCEPT !.stage = stage, !.strict = strict]
          OBVIOUS
        <5>2. q.repo = p.repo /\ q.brought = p.brought /\ q.new = p.new
          BY <4>2, <5>1
        <5>3. QED
          BY <3>3, <4>1, <4>6, <5>1, <5>2
      <4>7. QED
        BY <4>3, <4>4, <4>5, <4>6
    <3>7. QED
      BY <1>2, <2>3, <2>4, <2>5, <3>1, <3>4, <3>5, <3>6
         DEF Next, Request, PushStep, Reopen, Write, BeginMerge, ReadSource, WriteMerge, CreateBranch,
             SetRules, SaveRegistry, gitVars
  <2>9. QED
    BY <2>6, <2>7, <2>8
<1>3. QED
  BY <1>1, <1>2

\* What a push has brought is where its branch says, in a fork too.
LEMMA StoredStep == GitInv /\ [Next]_gitVars => PushedCommitsStored'
<1> SUFFICES ASSUME GitInv, [Next]_gitVars, NEW r \in Repo, Served(r)'
             PROVE  TipsIn(r, objects[r])'
  BY DEF PushedCommitsStored, Listed, TipsIn, Served
<1>0. /\ RefsTyped /\ ObjectsGrow /\ Origin \in Repo /\ Fork \subseteq Repo
      /\ entry \in [Repo -> {"none", "copying", "saved", "unsaved", "left"}]
      /\ objects \in [Repo -> SUBSET Commit]
  BY ObjectsStep DEF GitInv, GitTypeOK, RefsTyped, Repo
<1>1. CASE Served(r)
  <2>1. TipsIn(r, objects[r]) /\ objects[r] \subseteq objects'[r]
    BY <1>0, <1>1 DEF GitInv, PushedCommitsStored, Listed, TipsIn, Served, ObjectsGrow
  <2>2. CASE UNCHANGED <<refs, won, strayed, whole>>
    BY <2>1, <2>2 DEF TipsIn
  <2>3. ASSUME NEW p \in pushes, Pushed(p) PROVE TipsIn(r, objects[r])'
    <3>1. /\ refs' = [refs EXCEPT ![p.repo][p.branch] = p.new]
          /\ whole' = [whole EXCEPT ![p.repo] =
                         IF p.brought THEN @ \cup {p.branch} ELSE @ \ {p.branch}]
          /\ p.repo \in Repo /\ p.branch \in Branch /\ PushHolds(p)
      BY <2>3, PushIs DEF Pushed, Write
    <3>2. CASE p.repo # r
      <4>1. whole'[r] = whole[r] /\ refs'[r] = refs[r]
        BY <1>0, <3>1, <3>2 DEF RefsTyped
      <4>2. QED
        BY <2>1, <4>1 DEF TipsIn
    <3>3. CASE p.repo = r
      <4>1. p.brought => p.new \in objects'[r]
        BY <2>1, <3>1, <3>3 DEF PushHolds
      <4>2. \A b \in whole'[r] : IF b = p.branch THEN p.brought ELSE b \in whole[r]
        BY <1>0, <3>1, <3>3 DEF RefsTyped
      <4>3. \A b \in Branch : refs'[r][b] = IF b = p.branch THEN p.new ELSE refs[r][b]
        BY <1>0, <3>1, <3>3 DEF RefsTyped
      <4>4. whole'[r] \subseteq Branch
        BY <1>0, RefsTypedStep DEF RefsTyped
      <4>5. QED
        BY <2>1, <4>1, <4>2, <4>3, <4>4 DEF TipsIn
    <3>4. QED
      BY <3>2, <3>3
  <2>4. ASSUME NEW q \in Repo, NEW b \in Branch, NEW new \in Tip, Moved(q, b, new)
        PROVE  TipsIn(r, objects[r])'
    <3>1. \A d \in whole'[r] : d \in whole[r] /\ refs'[r][d] = refs[r][d]
      BY <1>0, <2>4 DEF Moved, UpdateRef, RefsTyped
    <3>2. QED
      BY <2>1, <3>1 DEF TipsIn
  <2>5. ASSUME NEW q \in Fork, Forked(q) PROVE TipsIn(r, objects[r])'
    <3>1. q # r /\ refs' = [refs EXCEPT ![q] = refs[Origin]]
          /\ whole' = [whole EXCEPT ![q] = whole[Origin]]
      BY <1>1, <2>5 DEF Forked, ForkRefs, Served
    <3>2. refs'[r] = refs[r] /\ whole'[r] = whole[r]
      BY <1>0, <3>1 DEF RefsTyped
    <3>3. QED
      BY <2>1, <3>2 DEF TipsIn
  <2>6. QED
    BY <2>2, <2>3, <2>4, <2>5, RefsCases
<1>2. CASE ~Served(r)
  <2>1. r \in Fork /\ Forked(r)
    <3>1. \/ \E q \in Fork : Forked(q) \/ ForkObjects(q) \/ SaveRegistry(q)
          \/ Restart \/ UNCHANGED entry
      BY ZenonT(60) DEF Next, Request, PushStep, BeginPush, Ingest, Reopen, ReadRef, CheckRules, Write,
             BeginMerge, ReadSource, WriteMerge, CreateBranch, SetRules, Forked, gitVars
    <3>2. ~Restart /\ ~UNCHANGED entry
      BY <1>0, <1>2 DEF Restart, Served
    <3>3. \A q \in Fork : ~ForkObjects(q) /\ ~SaveRegistry(q)
      BY <1>0, <1>2 DEF ForkObjects, SaveRegistry, Served
    <3>4. PICK q \in Fork : Forked(q)
      BY <3>1, <3>2, <3>3
    <3>5. q = r
      BY <1>0, <1>2, <3>4 DEF Forked, ForkRefs, Served
    <3>6. QED
      BY <3>4, <3>5
  <2>2. /\ refs'[r] = refs[Origin] /\ whole'[r] = whole[Origin] /\ objects'[r] = copied
        /\ entry[r] = "copying"
    BY <1>0, <2>1 DEF Forked, ForkRefs, RefsTyped
  <2>3. QED
    BY <2>2 DEF GitInv, CopyComplete, TipsIn
<1>3. QED
  BY <1>1, <1>2
-----------------------------------------------------------------------------
(* The theorems. *)

LEMMA GitStart == Init => GitInv
<1> SUFFICES ASSUME Init PROVE GitInv
  OBVIOUS
<1> DEFINE first == [parents |-> <<>>, tree |-> {1}]
<1>0. first \in CommitRecord /\ first.parents = <<>>
  BY DEF CommitRecord
<1>1. commits = <<first>>
  BY DEF Init
<1> HIDE DEF first
<1>2. commits \in Seq(CommitRecord) /\ Len(commits) = 1 /\ commits[1] = first
  <2> HIDE DEF CommitRecord
  <2> QED
    BY <1>0, <1>1
<1>3. Commit = {1} /\ Tip = {0, 1}
  BY <1>2 DEF Commit, Tip
<1>4. Grown(commits)
  BY <1>0, <1>2 DEF Grown
<1>5. Origin \in Repo /\ Origin \notin Fork
  BY RepoAssumption DEF Repo
<1>6. /\ objects \in [Repo -> SUBSET Commit] /\ refs \in [Repo -> [Branch -> Tip]]
      /\ entry \in [Repo -> {"none", "copying", "saved", "unsaved", "left"}]
      /\ copied \subseteq Commit
  BY <1>3 DEF Init
<1>7. /\ rules \in [Repo -> SUBSET Branch] /\ rulesFile \in [Repo -> SUBSET Branch]
      /\ whole \in [Repo -> SUBSET Branch] /\ strayed \in [Repo -> SUBSET Branch]
      /\ won \in [Repo -> SUBSET (Branch \X Tip \X Tip)]
      /\ used \in Nat /\ faults \in Nat
  BY DEF Init
<1>8. pushes = {} /\ merges = {}
  BY DEF Init
<1>9. GitTypeOK
  BY <1>2, <1>6, <1>7, <1>8 DEF GitTypeOK, CommitRecord
<1>10. PushesHold /\ MergesHold
  BY <1>8 DEF PushesHold, MergesHold
<1>11. WonForward /\ OneWins
  BY DEF Init, WonForward, OneWins
<1>12. Forking /\ CopyComplete
  BY <1>5 DEF Init, Forking, CopyComplete
<1>13. PushedCommitsStored
  BY <1>5 DEF Init, PushedCommitsStored, Listed
<1>14. QED
  BY <1>4, <1>9, <1>10, <1>11, <1>12, <1>13 DEF GitInv

\* Rules are for branches; the bounds count.
Kept ==
  /\ rules \in [Repo -> SUBSET Branch] /\ rulesFile \in [Repo -> SUBSET Branch]
  /\ used \in Nat /\ faults \in Nat

LEMMA KeptStep == GitInv /\ [Next]_gitVars => Kept'
<1> SUFFICES ASSUME GitInv, [Next]_gitVars PROVE Kept'
  OBVIOUS
<1>0. Kept
  BY DEF GitInv, GitTypeOK, Kept
<1>1. ASSUME NEW r \in Repo, NEW b \in Guarded, NEW ok \in BOOLEAN, SetRules(r, b, ok) PROVE Kept'
  <2>1. PICK new \in {rules[r] \cup {b}, rules[r] \ {b}} : rules' = [rules EXCEPT ![r] = new]
    BY <1>1 DEF SetRules
  <2>2. new \subseteq Branch
    BY <1>0, <2>1, RepoAssumption DEF Kept
  <2>3. rules' \in [Repo -> SUBSET Branch]
    BY <1>0, <2>1, <2>2 DEF Kept
  <2>4. rulesFile' \in {rules', rulesFile} /\ faults' \in {faults, faults + 1} /\ used' = used
    BY <1>1 DEF SetRules, Fails
  <2>5. QED
    BY <1>0, <2>3, <2>4 DEF Kept
<1>2. CASE Restart
  BY <1>0, <1>2 DEF Restart, Fails, Kept
<1>3. ASSUME NEW p \in pushes, Ingest(p) PROVE Kept'
  BY <1>0, <1>3 DEF Ingest, Fails, Kept
<1>4. ASSUME NEW r \in Fork, NEW ok \in BOOLEAN, ForkRefs(r, ok) PROVE Kept'
  BY <1>0, <1>4 DEF ForkRefs, Fails, Kept
<1>5. CASE UNCHANGED <<rules, rulesFile, faults>> /\ used' \in {used, used + 1}
  BY <1>0, <1>5 DEF Kept
<1>6. QED
  BY <1>1, <1>2, <1>3, <1>4, <1>5, ZenonT(60)
     DEF Next, Request, PushStep, BeginPush, Reopen, ReadRef, CheckRules, Write, BeginMerge,
         ReadSource, WriteMerge, CreateBranch, ForkObjects, SaveRegistry, gitVars

LEMMA GitStep == GitInv /\ [Next]_gitVars => GitInv'
<1> SUFFICES ASSUME GitInv, [Next]_gitVars PROVE GitInv'
  OBVIOUS
<1>1. CommitsGrow /\ ObjectsGrow /\ PushesGood' /\ MergesGood' /\ RefsTyped' /\ Kept'
  BY CommitsStep, ObjectsStep, PushesStep, MergesStep, RefsTypedStep, KeptStep
<1>2. pushes' \subseteq Push /\ (\A p \in pushes' : p.strict => p.new # 0) /\ PushesHold'
  BY <1>1 DEF PushesGood, PushTyped, PushesHold
<1>3. merges' \subseteq Merge /\ MergesHold'
  BY <1>1 DEF MergesGood, MergesHold
<1>4. commits' \in Seq([parents : Seq(Nat), tree : SUBSET Nat])
  BY <1>1 DEF CommitsGrow, CommitRecord
<1>5. /\ objects' \in [Repo -> SUBSET Commit'] /\ copied' \subseteq Commit'
      /\ entry' \in [Repo -> {"none", "copying", "saved", "unsaved", "left"}]
  BY <1>1 DEF ObjectsGrow
<1>6. GitTypeOK'
  BY <1>1, <1>2, <1>3, <1>4, <1>5 DEF GitTypeOK, RefsTyped, Kept, Push, Merge
<1>7. Grown(commits)'
  BY <1>1 DEF CommitsGrow
<1>8. QED
  BY <1>2, <1>3, <1>6, <1>7, WonStep, ForkingStep, CopyStep, StoredStep DEF GitInv

LEMMA GitAlways == Spec => []GitInv
<1>1. Init => GitInv
  BY GitStart
<1>2. GitInv /\ [Next]_gitVars => GitInv'
  BY GitStep
<1>3. QED
  BY <1>1, <1>2, PTL DEF Spec

\* Of the pushes that move a branch on from one tip one succeeds, as long as
\* only pushes that found it protected move it; and a branch last moved by a push
\* that brought its commit has it, in a fork made meanwhile too
\* (UpdateRefIfMatches, validateReceivePackUpdate, RepoRegistry.Fork).
THEOREM OneWinner == Spec => []PushesSound
<1>1. GitInv => PushesSound
  BY DEF GitInv, PushesSound
<1>2. QED
  BY <1>1, GitAlways, PTL

\* A push that found its branch protected moves it forward to a stored commit,
\* though its checks take no lock and merges, pushes, forks and new rules come
\* between them and its write (validateReceivePackUpdate, applyReceivePackUpdate).
THEOREM ProtectedMovesOn == Spec => ProtectedForward
<1>1. GitInv /\ [Next]_gitVars =>
        \A p \in pushes : p.strict /\ Write(p) /\ refs' # refs =>
          LET tip == refs'[p.repo][p.branch] IN
          tip \in objects[p.repo] /\ refs[p.repo][p.branch] \in Reached(objects[p.repo], tip)
  <2> SUFFICES ASSUME GitInv, NEW p \in pushes, p.strict, Write(p), refs' # refs
               PROVE  LET tip == refs'[p.repo][p.branch] IN
                      tip \in objects[p.repo]
                        /\ refs[p.repo][p.branch] \in Reached(objects[p.repo], tip)
    OBVIOUS
  <2>1. p \in Push /\ p.repo \in Repo /\ p.branch \in Branch /\ PushHolds(p)
    BY PushIs
  <2>2. Expected(p) /\ refs' = [refs EXCEPT ![p.repo][p.branch] = p.new]
    BY DEF Write
  <2>3. refs \in [Repo -> [Branch -> Tip]]
    BY DEF GitInv, GitTypeOK
  <2>4. refs'[p.repo][p.branch] = p.new /\ refs[p.repo][p.branch] = p.old
    BY <2>1, <2>2, <2>3 DEF Expected
  <2>5. p.old # p.new
    <3>1. ASSUME p.old = p.new PROVE refs' = refs
      BY <2>1, <2>2, <2>3, <2>4, <3>1
    <3>2. QED
      BY <3>1
  <2>6. p.new \in objects[p.repo] /\ p.old \in Reached(objects[p.repo], p.new)
    BY <2>1, <2>5 DEF PushHolds, Forward
  <2>7. QED
    BY <2>4, <2>6
<1>2. QED
  BY <1>1, GitAlways, PTL DEF Spec, ProtectedForward
-----------------------------------------------------------------------------
(* Blocks. *)

\* The blocks that no fault has hit.
Sound == acked \ (torn \cup abandoned)

BlockTypes ==
  /\ blockFile \in [Block -> {"none", "cut", "whole"}]
  /\ saved \in [old : BOOLEAN, blocks : SUBSET Block]
  /\ writer \in [op : {"none", "load", "put", "delete"}, blocks : SUBSET Block,
                 todo : SUBSET Block, open : SUBSET Block]
  /\ up \in BOOLEAN /\ acked \subseteq Block /\ index \subseteq Block

\* What a writer has done is in the index and in its files.
WriterInv ==
  /\ writer.open \subseteq writer.todo /\ writer.todo \subseteq writer.blocks
  /\ \A b \in writer.blocks \ writer.todo : b \in index /\ blockFile[b] = "whole"
  /\ writer.op = "none" => writer = Blocks!Free
  /\ up => writer.op # "load"
  /\ ~up /\ writer # Blocks!Free =>
       writer.op = "load" /\ saved.old /\ writer.blocks = saved.blocks

\* A sound block is in the saved index; when the store is up it is in the index in
\* memory; and unless the saved index is of the old format its file is whole.
SoundInv ==
  /\ Sound \subseteq saved.blocks
  /\ up => Sound \subseteq index
  /\ up \/ ~saved.old => \A b \in Sound \ writer.open : blockFile[b] = "whole"

BlocksInv == BlockTypes /\ WriterInv /\ SoundInv

LEMMA BlocksStart == Blocks!BlocksInit => BlocksInv
<1> SUFFICES ASSUME Blocks!BlocksInit PROVE BlocksInv
  OBVIOUS
<1>1. BlockTypes
  BY LegacyAssumption DEF Blocks!BlocksInit, BlockTypes, Blocks!Free
<1>2. WriterInv
  BY DEF Blocks!BlocksInit, WriterInv, Blocks!Free
<1>3. SoundInv
  BY DEF Blocks!BlocksInit, SoundInv, Sound, Blocks!Free
<1> QED
  BY <1>1, <1>2, <1>3 DEF BlocksInv

LEMMA BlocksStep == BlocksInv /\ Blocks!BlocksNext => BlocksInv'
<1> SUFFICES ASSUME BlocksInv, Blocks!BlocksNext PROVE BlocksInv'
  OBVIOUS
<1> USE DEF BlocksInv
<1>1. CASE Blocks!Load
  <2>1. CASE saved.old
    <3>1. /\ ~up /\ writer = Blocks!Free
          /\ writer' = [op |-> "load", blocks |-> saved.blocks, todo |-> saved.blocks, open |-> {}]
          /\ UNCHANGED <<index, up, blockFile, saved, acked, torn, abandoned>>
      BY <1>1, <2>1 DEF Blocks!Load, Blocks!Begin
    <3> QED
      BY <2>1, <3>1 DEF BlockTypes, WriterInv, SoundInv, Sound
  <2>2. CASE ~saved.old
    BY <1>1, <2>2 DEF Blocks!Load, BlockTypes, WriterInv, SoundInv, Sound, Blocks!Free
  <2> QED
    BY <2>1, <2>2
<1>2. ASSUME NEW blocks \in SUBSET Block, Blocks!Put(blocks) PROVE BlocksInv'
  <2>1. /\ up /\ writer = Blocks!Free
        /\ writer' = [op |-> "put", blocks |-> blocks, todo |-> blocks, open |-> {}]
        /\ UNCHANGED <<index, up, blockFile, saved, acked, torn, abandoned>>
    BY <1>2 DEF Blocks!Put, Blocks!Begin
  <2> QED
    BY <2>1 DEF BlockTypes, WriterInv, SoundInv, Sound, Blocks!Free
<1>3. ASSUME NEW b \in Block, Blocks!OpenFile(b) PROVE BlocksInv'
  <2>1. /\ b \in writer.todo /\ writer.open = {}
        /\ blockFile' = [blockFile EXCEPT ![b] = "cut"] /\ writer' = [writer EXCEPT !.open = {b}]
        /\ UNCHANGED <<index, up, saved, acked, torn, abandoned>>
    BY <1>3 DEF Blocks!OpenFile
  <2>2. /\ writer'.op = writer.op /\ writer'.blocks = writer.blocks /\ writer'.todo = writer.todo
        /\ writer'.open = {b}
    BY <2>1 DEF BlockTypes
  <2>3. BlockTypes'
    BY <2>1 DEF BlockTypes
  <2>4. writer # Blocks!Free
    BY <2>1 DEF Blocks!Free
  <2>5. WriterInv'
    BY <2>1, <2>2, <2>4 DEF WriterInv, BlockTypes
  <2>6. SoundInv'
    BY <2>1, <2>2, <2>4 DEF WriterInv, BlockTypes, SoundInv, Sound
  <2> QED
    BY <2>3, <2>5, <2>6
<1>4. CASE Blocks!FillFile
  <2>1. /\ writer.open # {} /\ index' = index \cup writer.open
        /\ blockFile' = [b \in Block |-> IF b \in writer.open THEN "whole" ELSE blockFile[b]]
        /\ writer' = [writer EXCEPT !.todo = @ \ writer.open, !.open = {}]
        /\ UNCHANGED <<up, saved, acked, torn, abandoned>>
    BY <1>4 DEF Blocks!FillFile
  <2>2. /\ writer'.op = writer.op /\ writer'.blocks = writer.blocks
        /\ writer'.todo = writer.todo \ writer.open /\ writer'.open = {}
    BY <2>1 DEF BlockTypes
  <2>3. BlockTypes'
    BY <2>1 DEF BlockTypes
  <2>4. writer # Blocks!Free
    BY <2>1 DEF Blocks!Free
  <2>5. \A b \in Block : /\ b \in writer.open => blockFile'[b] = "whole"
                         /\ b \notin writer.open => blockFile'[b] = blockFile[b]
    BY <2>1
  <2>6. WriterInv'
    BY <2>1, <2>2, <2>4, <2>5 DEF WriterInv, BlockTypes
  <2>7. SoundInv'
    BY <2>1, <2>2, <2>5 DEF BlockTypes, SoundInv, Sound
  <2> QED
    BY <2>3, <2>6, <2>7
<1>5. CASE Blocks!SaveIndex
  <2>1. /\ writer # Blocks!Free /\ writer.todo = {} /\ saved' = [old |-> FALSE, blocks |-> index]
        /\ acked' = IF writer.op = "put" THEN acked \cup writer.blocks ELSE acked
        /\ up' = TRUE /\ writer' = Blocks!Free
        /\ UNCHANGED <<blockFile, index, torn, abandoned>>
    BY <1>5 DEF Blocks!SaveIndex
  <2>2. BlockTypes'
    BY <2>1 DEF BlockTypes, Blocks!Free
  <2>3. WriterInv'
    BY <2>1 DEF WriterInv, Blocks!Free
  <2>4. writer.op # "put" /\ up => Sound' = Sound /\ Sound \subseteq index
    BY <2>1 DEF SoundInv, Sound
  <2>5. ~up => Sound' = Sound /\ writer.blocks = saved.blocks
    BY <2>1 DEF WriterInv, Sound
  <2>6. Sound' \subseteq index /\ \A b \in Sound' : blockFile[b] = "whole"
    <3>1. \A b \in writer.blocks : b \in index /\ blockFile[b] = "whole"
      BY <2>1 DEF WriterInv
    <3>2. CASE up
      <4>1. Sound' \subseteq Sound \cup writer.blocks /\ writer.open = {}
        BY <2>1 DEF Sound, WriterInv
      <4> QED
        BY <3>1, <3>2, <4>1 DEF SoundInv
    <3>3. CASE ~up
      BY <2>5, <3>1, <3>3 DEF SoundInv
    <3> QED
      BY <3>2, <3>3 DEF BlockTypes
  <2>7. SoundInv'
    BY <2>1, <2>6 DEF SoundInv
  <2> QED
    BY <2>2, <2>3, <2>7
<1>6. CASE Blocks!Fail
  <2>1. /\ writer # Blocks!Free /\ (writer.open # {} \/ writer.todo = {})
        /\ torn' = torn \cup writer.open
        /\ abandoned' = IF writer.op = "load" THEN abandoned \cup writer.todo ELSE abandoned
        /\ up' = TRUE /\ writer' = Blocks!Free
        /\ UNCHANGED <<blockFile, index, saved, acked>>
    BY <1>6 DEF Blocks!Fail
  <2>2. BlockTypes' /\ WriterInv'
    BY <2>1 DEF BlockTypes, WriterInv, Blocks!Free
  <2>3. Sound' \subseteq Sound \ writer.open
    BY <2>1 DEF Sound
  <2>4. ~up => Sound' \subseteq writer.blocks \ writer.todo
    <3>1. ~up => writer.op = "load" /\ Sound \subseteq writer.blocks
      BY <2>1 DEF WriterInv, SoundInv
    <3> QED
      BY <2>1, <2>3, <3>1 DEF Sound
  <2>5. SoundInv'
    BY <2>1, <2>3, <2>4 DEF WriterInv, SoundInv, Blocks!Free, BlockTypes
  <2> QED
    BY <2>2, <2>5
<1>7. ASSUME NEW b \in Block, Blocks!Delete(b) PROVE BlocksInv'
  <2>1. /\ up /\ writer = Blocks!Free /\ index' = index \ {b}
        /\ blockFile' = [blockFile EXCEPT ![b] = "none"] /\ acked' = acked \ {b}
        /\ writer' = [op |-> "delete", blocks |-> {}, todo |-> {}, open |-> {}]
        /\ UNCHANGED <<saved, up, torn, abandoned>>
    BY <1>7 DEF Blocks!Delete, Blocks!Begin
  <2>2. BlockTypes' /\ WriterInv'
    BY <2>1 DEF BlockTypes, WriterInv
  <2>3. Sound' = Sound \ {b} /\ writer.open = {}
    BY <2>1 DEF Sound, Blocks!Free
  <2>4. \A c \in Sound' : c \in saved.blocks /\ c \in index' /\ blockFile'[c] = "whole"
    BY <2>1, <2>3 DEF SoundInv, BlockTypes, Sound
  <2>5. SoundInv'
    BY <2>1, <2>4 DEF SoundInv
  <2> QED
    BY <2>2, <2>5
<1>8. CASE Blocks!Crash
  <2>1. /\ torn' = torn \cup writer.open /\ index' = {} /\ up' = FALSE /\ writer' = Blocks!Free
        /\ UNCHANGED <<blockFile, saved, acked, abandoned>>
    BY <1>8 DEF Blocks!Crash
  <2>2. BlockTypes' /\ WriterInv'
    BY <2>1 DEF BlockTypes, WriterInv, Blocks!Free
  <2>3. Sound' = Sound \ writer.open
    BY <2>1 DEF Sound
  <2>4. SoundInv'
    BY <2>1, <2>3 DEF SoundInv
  <2> QED
    BY <2>2, <2>4
<1> QED
  BY <1>1, <1>2, <1>3, <1>4, <1>5, <1>6, <1>7, <1>8 DEF Blocks!BlocksNext
-----------------------------------------------------------------------------
(* LFS. *)

\* A file under an object's name has the content the name stands for, and is there
\* for what the store knows of and for what an upload is about to enter.
LFSInv ==
  /\ final \in [OID -> OID \cup {"none"}] /\ large \subseteq OID
  /\ \A o \in OID : final[o] \in {"none", o}
  /\ \A o \in large : final[o] = o
  /\ \/ upload = LFS!Nobody
     \/ upload \in [oid : OID, content : OID \cup {"other"}, stage : {"copy", "verify", "enter"}]
  /\ upload.stage = "enter" => final[upload.oid] = upload.oid

LEMMA LFSStart == LFS!LFSInit => LFSInv
  BY DEF LFS!LFSInit, LFSInv, LFS!Nobody

LEMMA LFSStep == LFSInv /\ LFS!LFSNext => LFSInv'
<1> SUFFICES ASSUME LFSInv, LFS!LFSNext PROVE LFSInv'
  OBVIOUS
<1>1. ASSUME NEW o \in OID, NEW content \in OID \cup {"other"}, LFS!Upload(o, content)
      PROVE  LFSInv'
  BY <1>1 DEF LFS!Upload, LFSInv, LFS!Nobody
<1>2. CASE LFS!Copy
  <2>1. upload.stage = "copy" /\ upload' = [upload EXCEPT !.stage = "verify"]
        /\ UNCHANGED <<final, large>>
    BY <1>2 DEF LFS!Copy
  <2> QED
    BY <2>1 DEF LFSInv, LFS!Nobody
<1>3. CASE LFS!Verify
  <2>1. upload.stage = "verify" /\ upload.oid \in OID /\ large' = large
    BY <1>3 DEF LFS!Verify, LFSInv, LFS!Nobody
  <2>2. CASE upload.content = upload.oid
    <3>1. /\ final' = [final EXCEPT ![upload.oid] = upload.oid]
          /\ upload' = [upload EXCEPT !.stage = "enter"]
      BY <1>3, <2>2 DEF LFS!Verify
    <3>2. /\ upload' \in [oid : OID, content : OID \cup {"other"}, stage : {"copy", "verify", "enter"}]
          /\ upload'.oid = upload.oid
      BY <2>1, <3>1 DEF LFSInv, LFS!Nobody
    <3> QED
      BY <2>1, <3>1, <3>2 DEF LFSInv
  <2>3. CASE upload.content # upload.oid
    BY <1>3, <2>1, <2>3 DEF LFS!Verify, LFSInv, LFS!Nobody
  <2> QED
    BY <2>2, <2>3
<1>4. CASE LFS!Enter
  BY <1>4 DEF LFS!Enter, LFSInv, LFS!Nobody
<1>5. CASE LFS!UploadFails \/ LFS!Crash
  BY <1>5 DEF LFS!UploadFails, LFS!Crash, LFSInv, LFS!Nobody
<1>6. ASSUME NEW o \in OID, LFS!Delete(o) PROVE LFSInv'
  BY <1>6 DEF LFS!Delete, LFSInv, LFS!Nobody
<1> QED
  BY <1>1, <1>2, <1>3, <1>4, <1>5, <1>6 DEF LFS!LFSNext

\* A block that was acknowledged, or that the old format held, is read back whole
\* but for faults on its own file or a migration given up; what can be downloaded is
\* what its name stands for (Blockstore.Put and Load, lfs.Store.Upload).
THEOREM ContentKeptHolds == PartsSpec => []ContentKept
<1>1. PartsInit => BlocksInv /\ LFSInv
  BY BlocksStart, LFSStart DEF PartsInit
<1>2. BlocksInv /\ LFSInv /\ [PartsNext]_partVars => (BlocksInv /\ LFSInv)'
  <2> SUFFICES ASSUME BlocksInv, LFSInv, [PartsNext]_partVars PROVE (BlocksInv /\ LFSInv)'
    OBVIOUS
  <2>1. /\ Blocks!BlocksNext \/ UNCHANGED blockVars
        /\ LFS!LFSNext \/ UNCHANGED lfsVars
    BY DEF PartsNext, partVars
  <2>2. UNCHANGED blockVars => BlocksInv'
    BY DEF blockVars, BlocksInv, BlockTypes, WriterInv, SoundInv, Sound
  <2>3. UNCHANGED lfsVars => LFSInv'
    BY DEF lfsVars, LFSInv
  <2> QED
    BY <2>1, <2>2, <2>3, BlocksStep, LFSStep
<1>3. BlocksInv => Blocks!AckedKept
  BY DEF BlocksInv, SoundInv, Sound, Blocks!AckedKept, Blocks!Get, Blocks!Free
<1>4. LFSInv => LFS!NamesTrue
  BY DEF LFSInv, LFS!NamesTrue, LFS!Download
<1> QED
  BY <1>1, <1>2, <1>3, <1>4, PTL DEF PartsSpec, ContentKept
-----------------------------------------------------------------------------
(* Search. *)

Built == [commit : Revision \cup {"none"}, whole : BOOLEAN]
Searching == [stage : {"idle", "look", "build", "keep", "answer"},
              commit : Revision \cup {"none"}, index : Built]

\* An index is of all files, unless one of its commit could not be read.
Fair(kept) == kept.whole \/ kept.commit \in broken

\* A search is about a commit that its branch has named since it began.
SearchInv ==
  /\ branch \in Revision /\ cached \in Built /\ Fair(cached)
  /\ request \in [Query -> Searching] /\ named \in [Query -> SUBSET Revision]
  /\ \A q \in Query : request[q].stage # "idle" => request[q].commit \in named[q]
  /\ \A q \in Query : request[q].stage \in {"keep", "answer"} =>
       request[q].index.commit = request[q].commit /\ Fair(request[q].index)

LEMMA SearchStart == Search!SearchInit => SearchInv
  BY DEF Search!SearchInit, SearchInv, Search!At, Search!NoIndex, Built, Searching, Fair

\* One search goes on, and the branch stays.
LEMMA SearchMoves ==
  ASSUME SearchInv, NEW q \in Query, NEW r \in Searching, request' = [request EXCEPT ![q] = r],
         branch' = branch, cached' \in Built, Fair(cached'), broken \subseteq broken',
         named' \in [Query -> SUBSET Revision], \A p \in Query \ {q} : named'[p] = named[p],
         r.stage # "idle" => r.commit \in named'[q],
         r.stage \in {"keep", "answer"} => r.index.commit = r.commit /\ Fair(r.index)'
  PROVE  SearchInv'
<1>1. request' \in [Query -> Searching] /\ Fair(cached)'
  BY DEF SearchInv, Fair
<1>2. ASSUME NEW p \in Query
      PROVE  /\ request'[p].stage # "idle" => request'[p].commit \in named'[p]
             /\ request'[p].stage \in {"keep", "answer"} =>
                  request'[p].index.commit = request'[p].commit /\ Fair(request[p].index)'
  <2>1. CASE p = q
    <3>1. request'[p] = r
      BY <2>1 DEF SearchInv
    <3> QED
      BY <2>1, <3>1 DEF Fair
  <2>2. CASE p # q
    <3>1. request'[p] = request[p] /\ named'[p] = named[p]
      BY <2>2 DEF SearchInv
    <3> QED
      BY <3>1 DEF SearchInv, Fair
  <2> QED
    BY <2>1, <2>2
<1> QED
  BY <1>1, <1>2 DEF SearchInv

LEMMA SearchStep == SearchInv /\ Search!SearchNext => SearchInv'
<1> SUFFICES ASSUME SearchInv, Search!SearchNext PROVE SearchInv'
  OBVIOUS
<1>1. ASSUME NEW c \in Revision, Search!Push(c) PROVE SearchInv'
  <2>1. /\ branch' = c /\ UNCHANGED <<cached, request, broken>>
        /\ named' = [q \in Query |-> IF request[q].stage = "idle" THEN {} ELSE named[q] \cup {c}]
    BY <1>1 DEF Search!Push
  <2> QED
    BY <2>1 DEF SearchInv, Fair
<1>2. ASSUME NEW q \in Query, Search!ResolveCommit(q) PROVE SearchInv'
  <2> DEFINE r == [stage |-> "look", commit |-> branch, index |-> Search!NoIndex]
  <2>1. /\ request' = [request EXCEPT ![q] = r] /\ named' = [named EXCEPT ![q] = {branch}]
        /\ UNCHANGED <<branch, cached, broken>>
    BY <1>2 DEF Search!ResolveCommit, Search!Now, Search!At
  <2>2. r \in Searching /\ branch \in Revision
    BY DEF SearchInv, Searching, Built, Search!NoIndex
  <2>3. r.stage = "look" /\ r.commit = branch
    OBVIOUS
  <2> HIDE DEF r
  <2> QED
    BY <2>1, <2>2, <2>3, SearchMoves DEF SearchInv, Fair
<1>3. ASSUME NEW q \in Query, Search!LookUp(q) PROVE SearchInv'
  <2>1. request[q] \in Searching /\ request[q].stage = "look"
        /\ request[q].commit \in named[q] /\ UNCHANGED <<branch, cached, named, broken>>
    BY <1>3 DEF SearchInv, Search!LookUp
  <2>2. CASE cached.commit = request[q].commit
    <3> DEFINE r == [request[q] EXCEPT !.stage = "answer", !.index = cached]
    <3>1. request' = [request EXCEPT ![q] = r]
      BY <1>3, <2>2 DEF Search!LookUp, Search!Now, Search!Fresh
    <3>2. r \in Searching /\ r.commit = request[q].commit /\ r.index = cached
      BY <2>1 DEF SearchInv, Searching
    <3> HIDE DEF r
    <3> QED
      BY <2>1, <2>2, <3>1, <3>2, SearchMoves DEF SearchInv, Fair
  <2>3. CASE cached.commit # request[q].commit
    <3> DEFINE r == [request[q] EXCEPT !.stage = "build"]
    <3>1. request' = [request EXCEPT ![q] = r]
      BY <1>3, <2>3 DEF Search!LookUp, Search!Now, Search!Fresh
    <3>2. r \in Searching /\ r.commit = request[q].commit /\ r.stage = "build"
      BY <2>1 DEF Searching
    <3> HIDE DEF r
    <3> QED
      BY <2>1, <3>1, <3>2, SearchMoves DEF SearchInv, Fair
  <2> QED
    BY <2>2, <2>3
<1>4. ASSUME NEW q \in Query, NEW all \in BOOLEAN, Search!BuildTree(q, all) PROVE SearchInv'
  <2> DEFINE i == [commit |-> request[q].commit, whole |-> all]
             r == [request[q] EXCEPT !.stage = "keep", !.index = i]
  <2>1. /\ request[q] \in Searching /\ request[q].stage = "build"
        /\ request[q].commit \in named[q] /\ UNCHANGED <<branch, cached, named>>
        /\ request' = [request EXCEPT ![q] = r]
        /\ broken' = IF all THEN broken ELSE broken \cup {request[q].commit}
    BY <1>4 DEF SearchInv, Search!BuildTree, Search!Now
  <2>2. i \in Built /\ i.commit = request[q].commit /\ (i.whole \/ i.commit \in broken')
    BY <2>1 DEF Searching, Built
  <2>3. r \in Searching /\ r.commit = request[q].commit /\ r.index = i
    BY <2>1, <2>2 DEF Searching
  <2> HIDE DEF r, i
  <2> QED
    BY <2>1, <2>2, <2>3, SearchMoves DEF SearchInv, Fair
<1>5. ASSUME NEW q \in Query, Search!Keep(q) PROVE SearchInv'
  <2> DEFINE r == [request[q] EXCEPT !.stage = "answer"]
  <2>1. /\ request[q] \in Searching /\ request[q].stage = "keep"
        /\ request[q].commit \in named[q] /\ cached' = request[q].index
        /\ UNCHANGED <<branch, broken, named>> /\ request' = [request EXCEPT ![q] = r]
    BY <1>5 DEF SearchInv, Search!Keep, Search!Now
  <2>2. r \in Searching /\ r.commit = request[q].commit /\ r.index = request[q].index
    BY <2>1 DEF Searching
  <2>3. request[q].index \in Built
    BY <2>1 DEF Searching
  <2> HIDE DEF r
  <2> QED
    BY <2>1, <2>2, <2>3, SearchMoves DEF SearchInv, Fair
<1>6. ASSUME NEW q \in Query, Search!Answer(q) PROVE SearchInv'
  <2> DEFINE r == [stage |-> "idle", commit |-> "none", index |-> Search!NoIndex]
  <2>1. /\ request' = [request EXCEPT ![q] = r] /\ named' = [named EXCEPT ![q] = {}]
        /\ UNCHANGED <<branch, cached, broken>>
    BY <1>6 DEF Search!Answer, Search!Now, Search!At
  <2>2. r \in Searching /\ r.stage = "idle"
    BY DEF Searching, Built, Search!NoIndex
  <2> HIDE DEF r
  <2> QED
    BY <2>1, <2>2, SearchMoves DEF SearchInv, Fair
<1> QED
  BY <1>1, <1>2, <1>3, <1>4, <1>5, <1>6 DEF Search!SearchNext

\* A search answers from an index of a commit its branch named while it ran, whole
\* unless a file of that commit could not be read (getOrBuild outside the lock).
THEOREM AnswersCurrentHolds == PartsSpec => []AnswersCurrent
<1>1. PartsInit => SearchInv
  BY SearchStart DEF PartsInit
<1>2. SearchInv /\ [PartsNext]_partVars => SearchInv'
  <2>1. PartsNext \/ UNCHANGED partVars => Search!SearchNext \/ UNCHANGED searchVars
    BY DEF PartsNext, partVars
  <2>2. SearchInv /\ UNCHANGED searchVars => SearchInv'
    BY DEF searchVars, SearchInv, Fair
  <2> QED
    BY <2>1, <2>2, SearchStep
<1>3. SearchInv => AnswersCurrent
  BY DEF SearchInv, AnswersCurrent, Search!AnswersCurrent, Fair
<1> QED
  BY <1>1, <1>2, <1>3, PTL DEF PartsSpec
-----------------------------------------------------------------------------
(* Objects and the walks over them. *)

Object == Transfer!Object

\* The links L go from an object to earlier ones.
Linked(L) == \A o \in Object : L[o] \subseteq 1 .. o - 1

\* What o leads to by the links, in terms of what they lead to.
LeadsTo(R, L, o) == {o} \cup UNION {R[p] : p \in L[o]}
Closure(R, L) == R = [o \in Object |-> LeadsTo(R, L, o)]

LEMMA ObjectIs == Object = 1 .. N /\ N \in Nat
  BY ObjectsAssumption DEF Object, Transfer!Object

LEMMA ClosureExists ==
  ASSUME NEW L, Linked(L)
  PROVE  \E R : Closure(R, L)
<1> DEFINE T == {k \in 0 .. N : ~ \E f : f = [o \in 1 .. k |-> LeadsTo(f, L, o)]}
<1>1. N \notin T => \E R : Closure(R, L)
  BY ObjectIs DEF Closure
<1> SUFFICES ASSUME T # {} PROVE FALSE
  BY <1>1, ObjectIs
<1>2. PICK k \in T : \A j \in T : k <= j
  <2>1. T \subseteq Nat
    OBVIOUS
  <2> HIDE DEF T
  <2> QED
    BY <2>1, LeastNumber
<1>3. \E f : f = [o \in 1 .. k |-> LeadsTo(f, L, o)]
  <2>1. CASE k = 0
    <3> DEFINE f == [o \in 1 .. 0 |-> {}]
    <3>1. f = [o \in 1 .. k |-> LeadsTo(f, L, o)]
      BY <2>1
    <3> QED
      BY <3>1
  <2>2. CASE k # 0
    <3>1. k \in Nat /\ k - 1 \in 0 .. N /\ k - 1 \notin T /\ 1 .. k \subseteq Object
      BY <1>2, <2>2, ObjectIs
    <3>2. PICK f : f = [o \in 1 .. k - 1 |-> LeadsTo(f, L, o)]
      BY <3>1
    <3> DEFINE g == [o \in 1 .. k |-> LeadsTo(f, L, o)]
    <3>3. \A o \in 1 .. k - 1 : o \in 1 .. k /\ g[o] = f[o]
      <4>1. \A o \in 1 .. k : g[o] = LeadsTo(f, L, o)
        OBVIOUS
      <4>2. \A o \in 1 .. k - 1 : f[o] = LeadsTo(f, L, o)
        BY <3>2
      <4>3. \A o \in 1 .. k - 1 : o \in 1 .. k
        BY <3>1
      <4> HIDE DEF g
      <4> QED
        BY <4>1, <4>2, <4>3
    <3>4. g = [o \in 1 .. k |-> LeadsTo(f, L, o)]
      OBVIOUS
    <3> HIDE DEF g
    <3>5. ASSUME NEW o \in 1 .. k PROVE LeadsTo(g, L, o) = LeadsTo(f, L, o)
      <4>1. \A p \in L[o] : p \in 1 .. k - 1
        BY <3>1 DEF Linked
      <4>2. \A p \in L[o] : g[p] = f[p]
        BY <3>3, <4>1
      <4> QED
        BY <4>2 DEF LeadsTo
    <3>6. g = [o \in 1 .. k |-> LeadsTo(g, L, o)]
      BY <3>4, <3>5
    <3> QED
      BY <3>6
  <2> QED
    BY <2>1, <2>2
<1> QED
  BY <1>2, <1>3

\* What holds of the objects before o holds of o: then it holds of all.
LEMMA LeadsWithin ==
  ASSUME NEW L, NEW R, Linked(L), Closure(R, L)
  PROVE  \A o \in Object : o \in R[o] /\ R[o] \subseteq 1 .. o
<1> DEFINE T == {o \in Object : ~ (o \in R[o] /\ R[o] \subseteq 1 .. o)}
<1> SUFFICES ASSUME T # {} PROVE FALSE
  OBVIOUS
<1>1. PICK o \in T : \A q \in T : o <= q
  <2>1. T \subseteq Nat
    BY ObjectIs
  <2> HIDE DEF T
  <2> QED
    BY <2>1, LeastNumber
<1>2. R[o] = {o} \cup UNION {R[p] : p \in L[o]}
  BY <1>1 DEF Closure, LeadsTo
<1>3. ASSUME NEW p \in L[o] PROVE R[p] \subseteq 1 .. o
  <2>1. p \in 1 .. o - 1 /\ o \in Object
    BY <1>1 DEF Linked
  <2>2. p \in Object /\ p < o /\ p \in Nat /\ o \in Nat
    BY <2>1, ObjectIs
  <2>3. R[p] \subseteq 1 .. p
    BY <1>1, <2>2
  <2> QED
    BY <2>2, <2>3
<1>4. o \in 1 .. o
  BY <1>1, ObjectIs
<1>5. R[o] \subseteq 1 .. o /\ o \in R[o]
  BY <1>2, <1>3, <1>4
<1> QED
  BY <1>1, <1>5

\* A set that the links stay in has what its objects lead to.
LEMMA LeadsInto ==
  ASSUME NEW L, NEW R, Linked(L), Closure(R, L),
         NEW S \in SUBSET Object, \A o \in S : L[o] \subseteq S
  PROVE  \A o \in S : R[o] \subseteq S
<1> DEFINE T == {o \in S : ~ (R[o] \subseteq S)}
<1> SUFFICES ASSUME T # {} PROVE FALSE
  OBVIOUS
<1>1. PICK o \in T : \A q \in T : o <= q
  <2>0. Object \subseteq Nat
    BY ObjectIs
  <2>1. T \subseteq Nat
    BY <2>0
  <2> HIDE DEF T
  <2> QED
    BY <2>1, LeastNumber
<1>2. R[o] = {o} \cup UNION {R[p] : p \in L[o]}
  BY <1>1 DEF Closure, LeadsTo
<1>3. ASSUME NEW p \in L[o] PROVE R[p] \subseteq S
  <2>1. p \in 1 .. o - 1 /\ p \in S /\ o \in Object
    BY <1>1 DEF Linked
  <2>2. ~ (o <= p)
    BY <2>1, ObjectIs
  <2> QED
    BY <1>1, <2>1, <2>2
<1> QED
  BY <1>1, <1>2, <1>3

\* What an object leads to is such a set.
LEMMA LeadsOn ==
  ASSUME NEW L, NEW R, Linked(L), Closure(R, L)
  PROVE  \A o \in Object : \A x \in R[o] : L[x] \subseteq R[o]
<1> DEFINE T == {o \in Object : ~ (\A x \in R[o] : L[x] \subseteq R[o])}
<1> SUFFICES ASSUME T # {} PROVE FALSE
  OBVIOUS
<1>1. PICK o \in T : \A q \in T : o <= q
  <2>1. T \subseteq Nat
    BY ObjectIs
  <2> HIDE DEF T
  <2> QED
    BY <2>1, LeastNumber
<1>2. R[o] = {o} \cup UNION {R[p] : p \in L[o]}
  BY <1>1 DEF Closure, LeadsTo
<1>3. \A p \in L[o] : p \in 1 .. o - 1 /\ p \in Object /\ ~ (o <= p)
  BY <1>1, ObjectIs DEF Linked
<1>4. ASSUME NEW x \in R[o], NEW y \in L[x] PROVE y \in R[o]
  <2>1. CASE x = o
    <3>1. y \in R[y]
      BY <1>3, <2>1, <1>4, LeadsWithin
    <3> QED
      BY <1>2, <1>4, <2>1, <3>1
  <2>2. CASE x # o
    <3>1. PICK p \in L[o] : x \in R[p]
      BY <1>2, <2>2
    <3>2. L[x] \subseteq R[p]
      BY <1>1, <1>3, <3>1
    <3> QED
      BY <1>2, <1>4, <3>1, <3>2
  <2> QED
    BY <2>1, <2>2
<1> QED
  BY <1>1, <1>4
-----------------------------------------------------------------------------
(* The loop over objects. *)

Pick(s) == CHOOSE x \in s : TRUE
Iter(i, F, b, S) == i = [s \in SUBSET S |-> IF s = {} THEN b ELSE F[Pick(s)][i[s \ {Pick(s)}]]]

LEMMA EachIs ==
  ASSUME NEW F, NEW b, NEW S
  PROVE  Transfer!Each(F, b, S) = (CHOOSE i : Iter(i, F, b, S))[S]
  BY DEF Transfer!Each, Transfer!FoldSet, Transfer!MapThenFoldSet, Iter, Pick

LEMMA PickIn == \A s : s # {} => Pick(s) \in s
  BY DEF Pick

\* The subsets of S of at most k objects.
Small(S, k) == {s \in SUBSET S : Cardinality(s) <= k}

LEMMA SmallLess ==
  ASSUME NEW S, IsFiniteSet(S), NEW k \in Nat, NEW s \in Small(S, k), s # {}
  PROVE  /\ k # 0 /\ s \ {Pick(s)} \in Small(S, k - 1)
         /\ Cardinality(s \ {Pick(s)}) = Cardinality(s) - 1 /\ Cardinality(s) \in Nat
<1>1. s \subseteq S /\ IsFiniteSet(s)
  BY FS_Subset DEF Small
<1>2. Cardinality(s) \in Nat /\ Cardinality(s) # 0
  BY <1>1, FS_CardinalityType, FS_EmptySet
<1>3. Cardinality(s \ {Pick(s)}) = Cardinality(s) - 1
  BY <1>1, PickIn, FS_RemoveElement
<1> QED
  BY <1>1, <1>2, <1>3 DEF Small

LEMMA IterExists ==
  ASSUME NEW F, NEW b, NEW S, IsFiniteSet(S)
  PROVE  \E i : Iter(i, F, b, S)
<1> DEFINE Then(f, s) == IF s = {} THEN b ELSE F[Pick(s)][f[s \ {Pick(s)}]]
           T == {k \in Nat : ~ \E f : f = [s \in Small(S, k) |-> Then(f, s)]}
<1>1. Cardinality(S) \in Nat /\ Small(S, Cardinality(S)) = SUBSET S
  BY FS_CardinalityType, FS_Subset DEF Small
<1>2. ASSUME T = {} PROVE \E i : Iter(i, F, b, S)
  <2>1. PICK f : f = [s \in Small(S, Cardinality(S)) |-> Then(f, s)]
    BY <1>1, <1>2
  <2>2. f = [s \in SUBSET S |-> Then(f, s)]
    BY <1>1, <2>1
  <2> QED
    BY <2>2 DEF Iter
<1> SUFFICES ASSUME T # {} PROVE FALSE
  BY <1>2
<1>3. PICK k \in T : \A j \in T : k <= j
  <2>1. T \subseteq Nat
    OBVIOUS
  <2> HIDE DEF T
  <2> QED
    BY <2>1, LeastNumber
<1>4. \E f : f = [s \in Small(S, k) |-> Then(f, s)]
  <2>1. CASE k = 0
    <3> DEFINE f == [s \in Small(S, 0) |-> b]
    <3>1. \A s \in Small(S, 0) : s = {}
      BY SmallLess
    <3>2. f = [s \in Small(S, k) |-> Then(f, s)]
      BY <2>1, <3>1
    <3> QED
      BY <3>2
  <2>2. CASE k # 0
    <3>0. k \in Nat /\ \A j \in T : k <= j
      BY <1>3
    <3>1. k \in Nat /\ k - 1 \in Nat /\ k - 1 \notin T
      <4> HIDE DEF T
      <4> QED
        BY <2>2, <3>0
    <3>2. PICK f : f = [s \in Small(S, k - 1) |-> Then(f, s)]
      BY <3>1
    <3> DEFINE g == [s \in Small(S, k) |-> Then(f, s)]
    <3>3. \A s \in Small(S, k) : g[s] = Then(f, s)
      OBVIOUS
    <3>4. \A s \in Small(S, k - 1) : s \in Small(S, k) /\ f[s] = Then(f, s)
      <4>1. \A s \in Small(S, k - 1) : Cardinality(s) \in Nat
        BY FS_Subset, FS_CardinalityType DEF Small
      <4>2. \A s \in Small(S, k - 1) : s \in Small(S, k)
        BY <3>1, <4>1 DEF Small
      <4> QED
        BY <3>2, <4>2
    <3> HIDE DEF g
    <3>5. \A s \in Small(S, k - 1) : g[s] = f[s]
      <4> HIDE DEF Then
      <4> QED
        BY <3>3, <3>4
    <3>6. \A s \in Small(S, k) : Then(g, s) = Then(f, s)
      BY <3>1, <3>5, SmallLess
    <3>7. g = [s \in Small(S, k) |-> Then(f, s)]
      BY DEF g
    <3>8. g = [s \in Small(S, k) |-> Then(g, s)]
      <4> HIDE DEF Then
      <4> QED
        BY <3>6, <3>7
    <3> QED
      BY <3>8
  <2> QED
    BY <2>1, <2>2
<1> QED
  BY <1>3, <1>4

\* The loop's outcome depends on the visits to its own objects only.
LEMMA EachSame ==
  ASSUME NEW F, NEW G, NEW b, NEW S, \A o \in S : F[o] = G[o]
  PROVE  Transfer!Each(F, b, S) = Transfer!Each(G, b, S)
<1>1. ASSUME NEW i PROVE Iter(i, F, b, S) <=> Iter(i, G, b, S)
  <2>1. \A s \in SUBSET S : (IF s = {} THEN b ELSE F[Pick(s)][i[s \ {Pick(s)}]])
                            = (IF s = {} THEN b ELSE G[Pick(s)][i[s \ {Pick(s)}]])
    BY PickIn
  <2> QED
    BY <2>1 DEF Iter
<1>2. (CHOOSE i : Iter(i, F, b, S)) = (CHOOSE i : Iter(i, G, b, S))
  BY <1>1
<1> QED
  BY <1>2, EachIs
-----------------------------------------------------------------------------
(* What the walks find. *)

\* From the objects of from, past those of seen, a walk has found what found has:
\* it leads on to nothing else, and past what was seen it left nothing out.
Explored(found, from, seen, L, R) ==
  /\ found \subseteq Object /\ seen \cup from \subseteq found
  /\ found \subseteq seen \cup UNION {R[o] : o \in from}
  /\ \A x \in found \ seen : L[x] \subseteq found

Explores(F, o, L, R) == \A seen \in SUBSET Object : Explored(F[o][seen], {o}, seen, L, R)

LEMMA EachExplores ==
  ASSUME NEW L, NEW R, NEW F, NEW S \in SUBSET Object, NEW b \in SUBSET Object,
         \A o \in S : Explores(F, o, L, R)
  PROVE  Explored(Transfer!Each(F, b, S), S, b, L, R)
<1>1. IsFiniteSet(S)
  <2>1. IsFiniteSet(1 .. N) /\ S \in SUBSET (1 .. N)
    BY ObjectIs, FS_Interval
  <2> QED
    BY <2>1, FS_Subset
<1> DEFINE i == CHOOSE i : Iter(i, F, b, S)
<1>2. Iter(i, F, b, S) /\ Transfer!Each(F, b, S) = i[S]
  BY <1>1, IterExists, EachIs
<1> HIDE DEF i
<1> DEFINE T == {k \in Nat : \E s \in SUBSET S : Cardinality(s) = k /\ ~ Explored(i[s], s, b, L, R)}
<1>3. ASSUME T = {} PROVE Explored(Transfer!Each(F, b, S), S, b, L, R)
  <2>1. Cardinality(S) \in Nat
    BY <1>1, FS_CardinalityType
  <2> QED
    BY <1>2, <1>3, <2>1
<1> SUFFICES ASSUME T # {} PROVE FALSE
  BY <1>3
<1>4. PICK k \in T : \A j \in T : k <= j
  <2>1. T \subseteq Nat
    OBVIOUS
  <2> HIDE DEF T
  <2> QED
    BY <2>1, LeastNumber
<1>5. PICK s \in SUBSET S : Cardinality(s) = k /\ ~ Explored(i[s], s, b, L, R)
  BY <1>4
<1>6. CASE s = {}
  <2>1. i[s] = b
    BY <1>2, <1>6 DEF Iter
  <2> QED
    BY <1>5, <1>6, <2>1 DEF Explored
<1>7. CASE s # {}
  <2> DEFINE x == Pick(s)
             r == s \ {x}
  <2>1. i[s] = F[x][i[r]] /\ x \in s
    BY <1>2, <1>7, PickIn DEF Iter
  <2>2. IsFiniteSet(s) /\ Cardinality(r) = k - 1 /\ k \in Nat /\ k # 0
    <3>1. IsFiniteSet(s)
      BY <1>1, FS_Subset
    <3>2. k \in Nat /\ k # 0
      BY <1>5, <1>7, <3>1, FS_EmptySet, FS_CardinalityType
    <3>3. Cardinality(r) = k - 1
      BY <1>5, <2>1, <3>1, FS_RemoveElement
    <3> QED
      BY <3>1, <3>2, <3>3
  <2> HIDE DEF x, r
  <2>3. r \in SUBSET S /\ s = r \cup {x}
    BY <2>1 DEF r
  <2>4. k - 1 \notin T
    <3>0. \A j \in T : k <= j
      BY <1>4
    <3> HIDE DEF T
    <3> QED
      BY <2>2, <3>0
  <2>5. Explored(i[r], r, b, L, R)
    BY <2>2, <2>3, <2>4
  <2>6. i[r] \in SUBSET Object
    BY <2>5 DEF Explored
  <2>7. Explored(i[s], {x}, i[r], L, R)
    BY <2>1, <2>6 DEF Explores
  <2>8. UNION {R[o] : o \in s} = R[x] \cup UNION {R[o] : o \in r}
    BY <2>3
  <2>9. UNION {R[o] : o \in {x}} = R[x]
    OBVIOUS
  <2>10. i[s] \subseteq Object /\ b \cup s \subseteq i[s]
    BY <2>3, <2>5, <2>7 DEF Explored
  <2>11. i[s] \subseteq b \cup UNION {R[o] : o \in s}
    BY <2>5, <2>7, <2>8, <2>9 DEF Explored
  <2>12. \A y \in i[s] \ b : L[y] \subseteq i[s]
    BY <2>5, <2>7 DEF Explored
  <2>13. Explored(i[s], s, b, L, R)
    BY <2>10, <2>11, <2>12 DEF Explored
  <2> QED
    BY <1>5, <2>13
<1> QED
  BY <1>6, <1>7

\* A recursive walk along the links L.
Visit(F, L, o) ==
  [seen \in SUBSET Object |->
     IF o \in seen THEN seen ELSE Transfer!Each(F, seen \cup {o}, L[o])]
Visits(F, L) == F = [o \in Object |-> Visit(F, L, o)]

LEMMA VisitsExist ==
  ASSUME NEW L, Linked(L)
  PROVE  \E F : Visits(F, L)
<1> DEFINE T == {k \in 0 .. N : ~ \E f : f = [o \in 1 .. k |-> Visit(f, L, o)]}
<1>1. N \notin T => \E F : Visits(F, L)
  BY ObjectIs DEF Visits
<1> SUFFICES ASSUME T # {} PROVE FALSE
  BY <1>1, ObjectIs
<1>2. PICK k \in T : \A j \in T : k <= j
  <2>1. T \subseteq Nat
    OBVIOUS
  <2> HIDE DEF T
  <2> QED
    BY <2>1, LeastNumber
<1>3. \E f : f = [o \in 1 .. k |-> Visit(f, L, o)]
  <2>1. CASE k = 0
    <3> DEFINE f == [o \in 1 .. 0 |-> {}]
    <3>1. f = [o \in 1 .. k |-> Visit(f, L, o)]
      BY <2>1
    <3> QED
      BY <3>1
  <2>2. CASE k # 0
    <3>1. k \in Nat /\ k - 1 \in 0 .. N /\ k - 1 \notin T /\ 1 .. k \subseteq Object
      BY <1>2, <2>2, ObjectIs
    <3>2. PICK f : f = [o \in 1 .. k - 1 |-> Visit(f, L, o)]
      BY <3>1
    <3> DEFINE g == [o \in 1 .. k |-> Visit(f, L, o)]
    <3>3. \A o \in 1 .. k - 1 : o \in 1 .. k /\ g[o] = f[o]
      <4>1. \A o \in 1 .. k : g[o] = Visit(f, L, o)
        OBVIOUS
      <4>2. \A o \in 1 .. k - 1 : f[o] = Visit(f, L, o)
        BY <3>2
      <4>3. \A o \in 1 .. k - 1 : o \in 1 .. k
        BY <3>1
      <4> HIDE DEF g
      <4> QED
        BY <4>1, <4>2, <4>3
    <3>4. g = [o \in 1 .. k |-> Visit(f, L, o)]
      OBVIOUS
    <3> HIDE DEF g
    <3>5. ASSUME NEW o \in 1 .. k PROVE Visit(g, L, o) = Visit(f, L, o)
      <4>1. \A p \in L[o] : p \in 1 .. k - 1
        BY <3>1 DEF Linked
      <4>2. \A p \in L[o] : g[p] = f[p]
        BY <3>3, <4>1
      <4>3. \A b : Transfer!Each(g, b, L[o]) = Transfer!Each(f, b, L[o])
        BY <4>2, EachSame
      <4> QED
        BY <4>3 DEF Visit
    <3>6. g = [o \in 1 .. k |-> Visit(g, L, o)]
      BY <3>4, <3>5
    <3> QED
      BY <3>6
  <2> QED
    BY <2>1, <2>2
<1> QED
  BY <1>2, <1>3

LEMMA VisitsExplore ==
  ASSUME NEW L, NEW R, NEW F, Linked(L), Visits(F, L),
         \A o \in Object : LeadsTo(R, L, o) \subseteq R[o]
  PROVE  \A o \in Object : Explores(F, o, L, R)
<1> DEFINE T == {o \in Object : ~ Explores(F, o, L, R)}
<1> SUFFICES ASSUME T # {} PROVE FALSE
  OBVIOUS
<1>1. PICK o \in T : \A q \in T : o <= q
  <2>1. T \subseteq Nat
    BY ObjectIs
  <2> HIDE DEF T
  <2> QED
    BY <2>1, LeastNumber
<1>2. \A p \in L[o] : p \in Object /\ ~ (o <= p)
  BY <1>1, ObjectIs DEF Linked
<1>3. \A p \in L[o] : Explores(F, p, L, R)
  BY <1>1, <1>2
<1>4. {o} \cup UNION {R[p] : p \in L[o]} \subseteq R[o]
  BY <1>1 DEF LeadsTo
<1>5. ASSUME NEW seen \in SUBSET Object PROVE Explored(F[o][seen], {o}, seen, L, R)
  <2>1. F[o][seen] = IF o \in seen THEN seen ELSE Transfer!Each(F, seen \cup {o}, L[o])
    <3>1. F[o] = Visit(F, L, o)
      BY <1>1 DEF Visits
    <3> QED
      BY <3>1 DEF Visit
  <2>2. UNION {R[p] : p \in {o}} = R[o]
    OBVIOUS
  <2>3. CASE o \in seen
    BY <2>1, <2>3 DEF Explored
  <2>4. CASE o \notin seen
    <3> DEFINE found == Transfer!Each(F, seen \cup {o}, L[o])
    <3>1. Explored(found, L[o], seen \cup {o}, L, R)
      BY <1>1, <1>2, <1>3, EachExplores
    <3> HIDE DEF found
    <3>2. Explored(found, {o}, seen, L, R)
      BY <1>4, <2>2, <3>1 DEF Explored
    <3> QED
      BY <2>1, <2>4, <3>2 DEF found
  <2> QED
    BY <2>3, <2>4
<1> QED
  BY <1>1, <1>5 DEF Explores
-----------------------------------------------------------------------------
(* The graphs of Transfer. *)

Kind == {"blob", "empty", "tree", "commit", "tag"}
Rank == [blob |-> 1, empty |-> 2, tree |-> 3, commit |-> 4, tag |-> 5]

\* The graphs of one more object.
Longer(g) ==
  {Append(g, o) : o \in {x \in Transfer!Objects(g) :
                           \A p \in DOMAIN g : Rank[g[p].kind] <= Rank[x.kind]}}
GraphsFrom(f, n) == IF n = 0 THEN {<<>>} ELSE UNION {Longer(g) : g \in f[n - 1]}

LEMMA GraphsExist == \E f : f = [n \in 0 .. N |-> GraphsFrom(f, n)]
<1> DEFINE T == {k \in 0 .. N : ~ \E f : f = [n \in 0 .. k |-> GraphsFrom(f, n)]}
<1>1. N \notin T => \E f : f = [n \in 0 .. N |-> GraphsFrom(f, n)]
  BY ObjectIs
<1> SUFFICES ASSUME T # {} PROVE FALSE
  BY <1>1
<1>2. PICK k \in T : \A j \in T : k <= j
  <2>1. T \subseteq Nat
    OBVIOUS
  <2> HIDE DEF T
  <2> QED
    BY <2>1, LeastNumber
<1>3. \E f : f = [n \in 0 .. k |-> GraphsFrom(f, n)]
  <2>1. CASE k = 0
    <3> DEFINE f == [n \in 0 .. 0 |-> {<<>>}]
    <3>1. f = [n \in 0 .. k |-> GraphsFrom(f, n)]
      BY <2>1 DEF GraphsFrom
    <3> QED
      BY <3>1
  <2>2. CASE k # 0
    <3>1. k \in Nat /\ k - 1 \in 0 .. N /\ k - 1 \notin T
      BY <1>2, <2>2, ObjectIs
    <3>2. PICK f : f = [n \in 0 .. k - 1 |-> GraphsFrom(f, n)]
      BY <3>1
    <3> DEFINE g == [n \in 0 .. k |-> GraphsFrom(f, n)]
    <3>3. \A n \in 0 .. k - 1 : n \in 0 .. k /\ g[n] = f[n]
      <4>1. \A n \in 0 .. k : g[n] = GraphsFrom(f, n)
        OBVIOUS
      <4>2. \A n \in 0 .. k - 1 : f[n] = GraphsFrom(f, n)
        BY <3>2
      <4>3. \A n \in 0 .. k - 1 : n \in 0 .. k
        BY <3>1
      <4> HIDE DEF g
      <4> QED
        BY <4>1, <4>2, <4>3
    <3>4. g = [n \in 0 .. k |-> GraphsFrom(f, n)]
      OBVIOUS
    <3> HIDE DEF g
    <3>5. ASSUME NEW n \in 0 .. k PROVE GraphsFrom(g, n) = GraphsFrom(f, n)
      <4>1. n # 0 => g[n - 1] = f[n - 1]
        BY <3>1, <3>3
      <4> QED
        BY <4>1 DEF GraphsFrom
    <3>6. g = [n \in 0 .. k |-> GraphsFrom(g, n)]
      BY <3>4, <3>5
    <3> QED
      BY <3>6
  <2> QED
    BY <2>1, <2>2
<1> QED
  BY <1>2, <1>3

LEMMA GraphsAre == Transfer!Graphs = [n \in 0 .. N |-> GraphsFrom(Transfer!Graphs, n)]
<1>1. PICK f : f = [n \in 0 .. N |-> GraphsFrom(f, n)]
  BY GraphsExist
<1> QED
  BY <1>1, Zenon DEF Transfer!Graphs, GraphsFrom, Longer, Rank

\* A graph of n objects: links go to earlier ones.
Layered(g, n) ==
  /\ g \in Seq([kind : Kind, links : SUBSET Nat]) /\ Len(g) = n
  /\ \A o \in 1 .. n : g[o].links \subseteq 1 .. o - 1

LEMMA ObjectsLayered ==
  ASSUME NEW g, NEW x \in Transfer!Objects(g)
  PROVE  x \in [kind : Kind, links : SUBSET DOMAIN g]
  BY DEF Transfer!Objects, Kind

LEMMA LongerLayered ==
  ASSUME NEW n \in Nat, NEW g, Layered(g, n), NEW h \in Longer(g)
  PROVE  Layered(h, n + 1)
<1>1. PICK x \in Transfer!Objects(g) : h = Append(g, x)
  BY DEF Longer
<1>2. DOMAIN g = 1 .. n /\ g \in Seq([kind : Kind, links : SUBSET Nat]) /\ Len(g) = n
  BY DEF Layered
<1>3. x.links \subseteq 1 .. n /\ x \in [kind : Kind, links : SUBSET Nat]
  BY <1>2, ObjectsLayered
<1>4. /\ h \in Seq([kind : Kind, links : SUBSET Nat]) /\ Len(h) = n + 1 /\ h[n + 1] = x
      /\ \A o \in 1 .. n : h[o] = g[o]
  BY <1>1, <1>2, <1>3
<1>5. ASSUME NEW o \in 1 .. n + 1 PROVE h[o].links \subseteq 1 .. o - 1
  <2>1. CASE o = n + 1
    BY <1>3, <1>4, <2>1
  <2>2. CASE o # n + 1
    BY <1>4, <2>2 DEF Layered
  <2> QED
    BY <2>1, <2>2
<1> QED
  BY <1>4, <1>5 DEF Layered

LEMMA GraphsLayered == \A n \in 0 .. N : \A g \in Transfer!Graphs[n] : Layered(g, n)
<1> DEFINE T == {n \in 0 .. N : ~ \A g \in Transfer!Graphs[n] : Layered(g, n)}
<1> SUFFICES ASSUME T # {} PROVE FALSE
  OBVIOUS
<1>1. PICK n \in T : \A j \in T : n <= j
  <2>1. T \subseteq Nat
    OBVIOUS
  <2> HIDE DEF T
  <2> QED
    BY <2>1, LeastNumber
<1>2. PICK g \in Transfer!Graphs[n] : ~ Layered(g, n)
  BY <1>1
<1>3. g \in GraphsFrom(Transfer!Graphs, n)
  BY <1>1, <1>2, GraphsAre
<1>4. CASE n = 0
  <2>1. g = <<>>
    BY <1>3, <1>4 DEF GraphsFrom
  <2> QED
    BY <1>2, <1>4, <2>1 DEF Layered
<1>5. CASE n # 0
  <2>1. PICK f \in Transfer!Graphs[n - 1] : g \in Longer(f)
    BY <1>3, <1>5 DEF GraphsFrom
  <2>2. n - 1 \in 0 .. N /\ n - 1 \notin T
    BY <1>1, <1>5, ObjectIs
  <2>3. Layered(f, n - 1)
    BY <2>1, <2>2
  <2>4. n - 1 \in Nat /\ (n - 1) + 1 = n
    BY <1>1, <1>5
  <2> QED
    BY <1>2, <2>1, <2>3, <2>4, LongerLayered
<1> QED
  BY <1>4, <1>5
-----------------------------------------------------------------------------
(* Transfer. *)

Links == [o \in Object |-> graph[o].links]

LEMMA LinksLink ==
  ASSUME Layered(graph, N)
  PROVE  Linked(Links) /\ \A o \in Object : Links[o] = graph[o].links /\ Links[o] \subseteq Object
<1>1. \A o \in Object : Links[o] = graph[o].links /\ Links[o] \subseteq 1 .. o - 1
  BY ObjectIs DEF Links, Layered
<1>2. \A o \in Object : 1 .. o - 1 \subseteq Object
  BY ObjectIs
<1> QED
  BY <1>1, <1>2 DEF Linked

LEMMA ReachIs ==
  ASSUME Layered(graph, N)
  PROVE  Closure(Transfer!Reach, Links)
<1>1. PICK R : Closure(R, Links)
  BY LinksLink, ClosureExists
<1>2. R = [o \in Transfer!Object |-> {o} \cup UNION {R[p] : p \in graph[o].links}]
  BY <1>1 DEF Closure, LeadsTo, Links, Object
<1>3. Transfer!Reach =
        [o \in Transfer!Object |-> {o} \cup UNION {Transfer!Reach[p] : p \in graph[o].links}]
  BY <1>2, Zenon DEF Transfer!Reach
<1> QED
  BY <1>3 DEF Closure, LeadsTo, Links, Object

LEMMA ReachSame ==
  graph' = graph => Transfer!Reach' = Transfer!Reach /\ Transfer!Empty' = Transfer!Empty
  BY DEF Transfer!Reach, Transfer!Empty, Transfer!Object

\* What some objects lead to, and the sets that have all they lead to.
LEMMA FromWithin ==
  ASSUME Layered(graph, N), NEW S \in SUBSET Object
  PROVE  /\ S \subseteq Transfer!AllFrom(S) /\ Transfer!AllFrom(S) \subseteq Object
         /\ \A x \in Transfer!AllFrom(S) : graph[x].links \subseteq Transfer!AllFrom(S)
<1>1. Linked(Links) /\ Closure(Transfer!Reach, Links)
  BY LinksLink, ReachIs
<1>2. \A o \in Object : o \in Transfer!Reach[o] /\ Transfer!Reach[o] \subseteq Object
  BY <1>1, LeadsWithin, ObjectIs
<1>3. \A o \in Object : \A x \in Transfer!Reach[o] : Links[x] \subseteq Transfer!Reach[o]
  BY <1>1, LeadsOn
<1>4. S \subseteq Transfer!AllFrom(S) /\ Transfer!AllFrom(S) \subseteq Object
  BY <1>2 DEF Transfer!AllFrom
<1>5. ASSUME NEW x \in Transfer!AllFrom(S) PROVE graph[x].links \subseteq Transfer!AllFrom(S)
  <2>1. PICK o \in S : x \in Transfer!Reach[o]
    BY <1>5 DEF Transfer!AllFrom
  <2>2. Links[x] \subseteq Transfer!Reach[o]
    BY <1>3, <2>1
  <2>3. Links[x] = graph[x].links
    BY <1>4, LinksLink
  <2>4. Transfer!Reach[o] \subseteq Transfer!AllFrom(S)
    BY DEF Transfer!AllFrom
  <2> QED
    BY <2>2, <2>3, <2>4
<1> QED
  BY <1>4, <1>5

LEMMA FromInto ==
  ASSUME Layered(graph, N), NEW H \in SUBSET Object, \A o \in H : graph[o].links \subseteq H,
         NEW S \in SUBSET H
  PROVE  Transfer!AllFrom(S) \subseteq H
<1>1. \A o \in H : Transfer!Reach[o] \subseteq H
  BY LinksLink, ReachIs, LeadsInto
<1> QED
  BY <1>1 DEF Transfer!AllFrom
-----------------------------------------------------------------------------
\* What the walk over references and objects goes along.
Refers == [o \in Object |-> Transfer!Referred(o)]

LEMMA LessLinks ==
  ASSUME Layered(graph, N), NEW L, \A o \in Object : L[o] \subseteq graph[o].links
  PROVE  Linked(L) /\ \A o \in Object : LeadsTo(Transfer!Reach, L, o) \subseteq Transfer!Reach[o]
<1>1. Linked(L)
  BY LinksLink DEF Linked
<1>2. \A o \in Object : Transfer!Reach[o] = LeadsTo(Transfer!Reach, Links, o) /\ L[o] \subseteq Links[o]
  BY LinksLink, ReachIs DEF Closure
<1>3. \A o \in Object : LeadsTo(Transfer!Reach, L, o) \subseteq LeadsTo(Transfer!Reach, Links, o)
  BY <1>2 DEF LeadsTo
<1> QED
  BY <1>1, <1>2, <1>3

LEMMA WalkAllExplores ==
  ASSUME Layered(graph, N), NEW S \in SUBSET Object, NEW seen \in SUBSET Object
  PROVE  Explored(Transfer!WalkAll(S, seen), S, seen, Refers, Transfer!Reach)
<1>1. \A o \in Object : Refers[o] = Transfer!Referred(o)
  BY DEF Refers
<1>2. \A o \in Object : Refers[o] \subseteq graph[o].links
  BY <1>1 DEF Transfer!Referred
<1>3. /\ Linked(Refers)
      /\ \A o \in Object : LeadsTo(Transfer!Reach, Refers, o) \subseteq Transfer!Reach[o]
  BY <1>2, LessLinks
<1>4. PICK F : Visits(F, Refers)
  BY <1>3, VisitsExist
<1>5. F = [o \in Transfer!Object |-> [past \in SUBSET Transfer!Object |->
             IF o \in past THEN past ELSE Transfer!Each(F, past \cup {o}, Transfer!Referred(o))]]
  BY <1>1, <1>4 DEF Visits, Visit, Object
<1>6. Transfer!Walk = [o \in Transfer!Object |-> [past \in SUBSET Transfer!Object |->
             IF o \in past THEN past
             ELSE Transfer!Each(Transfer!Walk, past \cup {o}, Transfer!Referred(o))]]
  BY <1>5, Zenon DEF Transfer!Walk
<1>7. Visits(Transfer!Walk, Refers)
  BY <1>1, <1>6 DEF Visits, Visit, Object
<1>8. \A o \in S : Explores(Transfer!Walk, o, Refers, Transfer!Reach)
  BY <1>3, <1>7, VisitsExplore
<1> QED
  BY <1>8, EachExplores DEF Transfer!WalkAll

\* Some objects lead to nothing that is a tag, cannot be read or is not held.
Plain(S, held) ==
  \A o \in Transfer!AllFrom(S) : o \in held \ Transfer!Empty /\ graph[o].kind # "tag"

\* PackExact of an answer.
PackFits(wants, haves, held, pack) ==
  /\ pack \subseteq Transfer!AllFrom(wants)
  /\ Plain(wants, held) =>
       Transfer!AllFrom(wants) \subseteq pack \cup Transfer!AllFrom(haves)
  /\ Plain(haves, held) => pack \cap Transfer!AllFrom(haves) = {}

LEMMA PlainFound ==
  ASSUME Layered(graph, N), NEW H \in SUBSET Object, NEW S \in SUBSET H, Plain(S, server),
         \A x \in H : Refers[x] \subseteq H
  PROVE  Transfer!AllFrom(S) \subseteq H
<1> DEFINE Z == H \cap Transfer!AllFrom(S)
<1>1. S \subseteq Z /\ Z \in SUBSET Object
  BY FromWithin
<1>2. ASSUME NEW x \in Z PROVE graph[x].links \subseteq Z
  <2>1. x \in Object /\ x \in server \ Transfer!Empty /\ graph[x].kind # "tag"
    BY <1>2 DEF Plain
  <2>2. Refers[x] = graph[x].links
    BY <2>1 DEF Refers, Transfer!Referred, Transfer!Readable
  <2>3. graph[x].links \subseteq Transfer!AllFrom(S)
    BY FromWithin
  <2> QED
    BY <2>2, <2>3
<1>3. Transfer!AllFrom(S) \subseteq Z
  <2> HIDE DEF Z
  <2> QED
    BY <1>1, <1>2, FromInto
<1> QED
  BY <1>3

LEMMA PackIs ==
  ASSUME Layered(graph, N), NEW wants \in SUBSET Object, NEW haves \in SUBSET Object
  PROVE  LET pack == Transfer!GeneratePackfile(Transfer!CollectForWants(wants, haves))
         IN  PackFits(wants, haves, server, pack) /\ pack \subseteq Object
<1> DEFINE known == Transfer!WalkAll(haves, {})
           found == Transfer!WalkAll(wants \ known, known)
           pack == Transfer!GeneratePackfile(Transfer!CollectForWants(wants, haves))
<1>1. pack = {o \in found \ known : Transfer!Readable(o)}
  BY DEF Transfer!GeneratePackfile, Transfer!CollectForWants
<1>2. Explored(known, haves, {}, Refers, Transfer!Reach)
  BY WalkAllExplores
<1>3. known \in SUBSET Object
  BY <1>2 DEF Explored
<1>4. Explored(found, wants \ known, known, Refers, Transfer!Reach)
  BY <1>3, WalkAllExplores
<1> HIDE DEF known, found, pack
<1>5. /\ haves \subseteq known /\ known \subseteq Transfer!AllFrom(haves)
      /\ \A x \in known : Refers[x] \subseteq known
  BY <1>2 DEF Explored, Transfer!AllFrom
<1>6. /\ found \in SUBSET Object /\ known \subseteq found /\ wants \subseteq found
      /\ \A x \in found : Refers[x] \subseteq found
  BY <1>4, <1>5 DEF Explored
<1>7. found \ known \subseteq Transfer!AllFrom(wants)
  BY <1>4 DEF Explored, Transfer!AllFrom
<1>8. ASSUME Plain(wants, server)
      PROVE  Transfer!AllFrom(wants) \subseteq pack \cup Transfer!AllFrom(haves)
  <2>1. Transfer!AllFrom(wants) \subseteq found
    BY <1>6, <1>8, PlainFound
  <2>2. \A x \in Transfer!AllFrom(wants) : Transfer!Readable(x)
    BY <1>8 DEF Plain, Transfer!Readable
  <2> QED
    BY <1>1, <1>5, <2>1, <2>2
<1>9. ASSUME Plain(haves, server) PROVE pack \cap Transfer!AllFrom(haves) = {}
  <2>1. Transfer!AllFrom(haves) \subseteq known
    BY <1>3, <1>5, <1>9, PlainFound
  <2> QED
    BY <1>1, <2>1
<1>10. pack \subseteq Transfer!AllFrom(wants) /\ pack \subseteq Object
  BY <1>1, <1>6, <1>7
<1> QED
  BY <1>8, <1>9, <1>10 DEF PackFits, pack

\* What gitant clone and pull ask for has what its readable objects refer to.
LEMMA FetchIs ==
  ASSUME Layered(graph, N), NEW lost, Transfer!CloneRepo \subseteq Object
  PROVE  LET asked == Transfer!FetchRecursive(lost)
         IN  /\ asked \subseteq Object /\ Transfer!CloneRepo \subseteq asked
             /\ \A x \in asked : Transfer!GetObject(x, lost) => Transfer!Referred(x) \subseteq asked
<1> DEFINE From(o) == IF Transfer!GetObject(o, lost) THEN Transfer!Referred(o) ELSE {}
           L == [o \in Object |-> From(o)]
<1>1. \A o \in Object : L[o] = From(o)
  OBVIOUS
<1>2. \A o \in Object : From(o) \subseteq graph[o].links
  BY DEF Transfer!Referred
<1> HIDE DEF L
<1>3. /\ Linked(L)
      /\ \A o \in Object : LeadsTo(Transfer!Reach, L, o) \subseteq Transfer!Reach[o]
  BY <1>1, <1>2, LessLinks
<1> DEFINE Body(F) ==
      [o \in Transfer!Object |-> [past \in SUBSET Transfer!Object |->
         IF o \in past THEN past ELSE Transfer!Each(F, past \cup {o},
            IF Transfer!GetObject(o, lost) THEN Transfer!Referred(o) ELSE {})]]
           Fetch == CHOOSE F : F = Body(F)
<1>4. ASSUME NEW F PROVE Visits(F, L) <=> F = Body(F)
  <2>1. ASSUME NEW o \in Object
        PROVE  Visit(F, L, o) =
                 [past \in SUBSET Transfer!Object |->
                    IF o \in past THEN past ELSE Transfer!Each(F, past \cup {o}, From(o))]
    <3>1. L[o] = From(o)
      BY <1>1
    <3> HIDE DEF From
    <3> QED
      BY <3>1 DEF Visit, Object
  <2>2. [o \in Object |-> Visit(F, L, o)] = Body(F)
    BY <2>1 DEF Object
  <2> QED
    BY <2>2 DEF Visits
<1>5. PICK F : Visits(F, L)
  BY <1>3, VisitsExist
<1>6. Visits(Fetch, L)
  <2>1. F = Body(F)
    BY <1>4, <1>5
  <2>2. Fetch = Body(Fetch)
    <3> HIDE DEF Body
    <3> QED
      BY <2>1
  <2> HIDE DEF Fetch
  <2> QED
    BY <1>4, <2>2
<1>7. Transfer!FetchRecursive(lost) = Transfer!Each(Fetch, {}, Transfer!CloneRepo)
  BY Zenon DEF Transfer!FetchRecursive
<1> HIDE DEF Fetch
<1>8. \A o \in Transfer!CloneRepo : Explores(Fetch, o, L, Transfer!Reach)
  BY <1>3, <1>6, VisitsExplore
<1>9. Explored(Transfer!FetchRecursive(lost), Transfer!CloneRepo, {}, L, Transfer!Reach)
  BY <1>7, <1>8, EachExplores
<1> QED
  BY <1>1, <1>9 DEF Explored
-----------------------------------------------------------------------------
(* The repository of the daemon, and the one that clone and pull fill. *)

Has == server \cup dropped

TransferTypes ==
  /\ Layered(graph, N)
  /\ server \subseteq Object /\ dropped \subseteq Object /\ local \subseteq Object
  /\ heads \in [Ref -> {0} \cup Object] /\ localRefs \in [Ref -> {0} \cup Object]
  /\ told \in [Client -> [Ref -> {0} \cup Object]] /\ client \in [Client -> SUBSET Object]

\* What the daemon has had or was to have leads nowhere else; references name such
\* objects, those that clients were told of too.
HasInv ==
  /\ \A o \in Has : graph[o].links \subseteq Has
  /\ \A r \in Ref : heads[r] # 0 => heads[r] \in Has
  /\ \A c \in Client, r \in Ref : told[c][r] # 0 => told[c][r] \in Has

AnswerInv == PackFits(answer.wants, answer.haves, answer.held, answer.pack)

TransferInv == TransferTypes /\ HasInv /\ AnswerInv /\ Transfer!PulledWhole

LEMMA NoneNot == 0 \notin Object /\ Transfer!None = 0
  BY ObjectIs DEF Transfer!None

LEMMA TransferStart == Transfer!TransferInit => TransferInv
<1> SUFFICES ASSUME Transfer!TransferInit PROVE TransferInv
  OBVIOUS
<1>1. Layered(graph, N)
  BY GraphsLayered, ObjectIs DEF Transfer!TransferInit
<1>2. TransferTypes /\ HasInv
  BY <1>1 DEF Transfer!TransferInit, TransferTypes, HasInv, Has, Transfer!None
<1>3. AnswerInv
  BY DEF Transfer!TransferInit, AnswerInv, PackFits, Transfer!AllFrom
<1>4. Transfer!PulledWhole
  BY DEF Transfer!TransferInit, Transfer!PulledWhole, Transfer!Named, Transfer!None
<1> QED
  BY <1>2, <1>3, <1>4 DEF TransferInv

\* What stays as long as the graph, the answer and the local repository do.
LEMMA AnswerStays == TransferInv /\ UNCHANGED <<graph, answer>> => AnswerInv'
<1> SUFFICES ASSUME TransferInv, graph' = graph, answer' = answer PROVE AnswerInv'
  OBVIOUS
<1>1. Transfer!Reach' = Transfer!Reach /\ Transfer!Empty' = Transfer!Empty
  BY ReachSame
<1> QED
  BY <1>1 DEF TransferInv, AnswerInv, PackFits, Plain, Transfer!AllFrom

LEMMA PulledStays ==
  TransferInv /\ UNCHANGED <<graph, local, localRefs, unfetched>> => Transfer!PulledWhole'
  BY DEF TransferInv, Transfer!PulledWhole, Transfer!Named

\* A push of o, whose objects are more, that the repository has or is said to lack.
LEMMA HasGrows ==
  ASSUME TransferInv, NEW more \in SUBSET Object, Has' = Has \cup more, graph' = graph,
         \A x \in more : graph[x].links \subseteq Has \cup more,
         told' = told,
         NEW o \in Has \cup more, NEW r,
         heads' = heads \/ heads' = [heads EXCEPT ![r] = o]
  PROVE  HasInv'
<1>1. heads \in [Ref -> {0} \cup Object]
  BY DEF TransferInv, TransferTypes
<1>2. \A q \in Ref : heads'[q] # 0 => heads'[q] \in Has'
  BY <1>1 DEF TransferInv, HasInv
<1>3. \A x \in Has' : graph'[x].links \subseteq Has'
  BY DEF TransferInv, HasInv
<1>4. \A c \in Client, q \in Ref : told'[c][q] # 0 => told'[c][q] \in Has'
  BY DEF TransferInv, HasInv
<1> QED
  BY <1>2, <1>3, <1>4 DEF HasInv

LEMMA ReceiveStep ==
  ASSUME TransferInv, NEW c \in Client, NEW r \in Ref, NEW o \in Object, NEW parsed \in BOOLEAN,
         Transfer!GitReceivePack(c, r, o, parsed)
  PROVE  TransferInv'
<1> DEFINE more == Transfer!PackToPush(c, o)
           had == Transfer!Named(told[c]) \cap client[c]
<1>1. /\ UNCHANGED <<graph, told, local, localRefs, answer, unfetched>>
      /\ client' = [client EXCEPT ![c] = @ \cup Transfer!Reach[o]]
      /\ heads' = heads \/ heads' = [heads EXCEPT ![r] = o]
      /\ IF parsed THEN Transfer!Ingest(more) ELSE server' = server
      /\ dropped' = dropped \cup (IF parsed THEN more \cap Transfer!Empty ELSE more)
  BY DEF Transfer!GitReceivePack
<1>2. Layered(graph, N) /\ Has \in SUBSET Object /\ \A x \in Has : graph[x].links \subseteq Has
  BY DEF TransferInv, TransferTypes, HasInv, Has
<1>3. more = Transfer!Reach[o] \ Transfer!AllFrom(had)
  BY DEF Transfer!PackToPush
<1> HIDE DEF more
<1>4. had \subseteq Has
  BY NoneNot DEF TransferInv, HasInv, Transfer!Named
<1>5. Transfer!AllFrom(had) \subseteq Has
  BY <1>2, <1>4, FromInto
<1>6. /\ o \in Transfer!Reach[o] /\ Transfer!Reach[o] \subseteq Object
      /\ \A x \in Transfer!Reach[o] : graph[x].links \subseteq Transfer!Reach[o]
  <2>1. Transfer!AllFrom({o}) = Transfer!Reach[o]
    BY DEF Transfer!AllFrom
  <2> QED
    BY <1>2, <2>1, FromWithin
<1>7. /\ more \in SUBSET Object /\ o \in Has \cup more
      /\ \A x \in more : graph[x].links \subseteq Has \cup more
  BY <1>3, <1>5, <1>6
<1>8. Has' = Has \cup more /\ server' \subseteq server \cup more
  BY <1>1 DEF Has, Transfer!Ingest
<1>9. HasInv'
  BY <1>1, <1>7, <1>8, HasGrows
<1>10. dropped' \subseteq Has'
  BY DEF Has
<1>11. TransferTypes'
  BY <1>1, <1>2, <1>6, <1>7, <1>8, <1>10 DEF TransferInv, TransferTypes
<1> QED
  BY <1>1, <1>9, <1>11, AnswerStays, PulledStays DEF TransferInv

LEMMA GitantStep ==
  ASSUME TransferInv, NEW r \in Ref, NEW o \in Object, Transfer!GitantPush(r, o)
  PROVE  TransferInv'
<1> DEFINE more == Transfer!Reach[o]
           pack == Transfer!CreatePackfile(Transfer!CollectObjects(o))
<1>1. /\ UNCHANGED <<graph, client, told, local, localRefs, answer, unfetched>>
      /\ heads' = heads \/ heads' = [heads EXCEPT ![r] = o]
      /\ server' = server \cup (pack \ Transfer!Empty)
      /\ dropped' = dropped \cup (more \ pack)
  BY DEF Transfer!GitantPush, Transfer!PushPackfile, Transfer!Ingest
<1>2. pack \subseteq {o} /\ pack \cap Transfer!Empty = {}
  BY DEF Transfer!CreatePackfile, Transfer!CollectObjects, Transfer!Empty
<1>3. Layered(graph, N) /\ Has \in SUBSET Object
  BY DEF TransferInv, TransferTypes, Has
<1>4. /\ o \in more /\ more \subseteq Object
      /\ \A x \in more : graph[x].links \subseteq more
  <2>1. Transfer!AllFrom({o}) = Transfer!Reach[o]
    BY DEF Transfer!AllFrom
  <2> QED
    BY <1>3, <2>1, FromWithin
<1> HIDE DEF more, pack
<1>5. Has' = Has \cup more
  BY <1>1, <1>2, <1>4 DEF Has
<1>6. HasInv'
  BY <1>1, <1>4, <1>5, HasGrows
<1>7. TransferTypes'
  <2>1. server' \subseteq Object /\ dropped' \subseteq Object
    BY <1>3, <1>4, <1>5 DEF Has
  <2> QED
    BY <1>1, <2>1 DEF TransferInv, TransferTypes
<1> QED
  BY <1>1, <1>6, <1>7, AnswerStays, PulledStays DEF TransferInv

LEMMA InfoStep ==
  ASSUME TransferInv, NEW c \in Client, Transfer!InfoRefs(c)
  PROVE  TransferInv'
<1>1. /\ told' = [told EXCEPT ![c] = heads]
      /\ UNCHANGED <<graph, server, heads, client, local, localRefs, answer, dropped, unfetched>>
  BY DEF Transfer!InfoRefs
<1>2. HasInv'
  <2>1. \A d \in Client : told'[d] \in {told[d], heads}
    BY <1>1 DEF TransferInv, TransferTypes
  <2>2. Has' = Has
    BY <1>1 DEF Has
  <2> QED
    BY <1>1, <2>1, <2>2 DEF TransferInv, HasInv
<1>3. TransferTypes'
  BY <1>1 DEF TransferInv, TransferTypes
<1> QED
  BY <1>1, <1>2, <1>3, AnswerStays, PulledStays DEF TransferInv

LEMMA UploadStep ==
  ASSUME TransferInv, NEW c \in Client, NEW haves \in SUBSET Object,
         Transfer!GitUploadPack(c, haves)
  PROVE  TransferInv'
<1> DEFINE wants == Transfer!Named(told[c]) \ client[c]
           pack == Transfer!GeneratePackfile(Transfer!CollectForWants(wants, haves))
<1>1. /\ UNCHANGED <<graph, server, heads, told, local, localRefs, dropped, unfetched>>
      /\ answer' = [wants |-> wants, haves |-> haves, held |-> server, pack |-> pack]
      /\ client' = [client EXCEPT ![c] = client[c] \cup pack] \/ client' = [client EXCEPT ![c] = @]
  BY DEF Transfer!GitUploadPack
<1>2. Layered(graph, N) /\ wants \subseteq Object /\ client[c] \subseteq Object
  BY NoneNot DEF TransferInv, TransferTypes, Transfer!Named
<1> HIDE DEF wants
<1>3. PackFits(wants, haves, server, pack) /\ pack \subseteq Object
  BY <1>2, PackIs
<1> HIDE DEF pack
<1>4. AnswerInv'
  <2>1. Transfer!Reach' = Transfer!Reach /\ Transfer!Empty' = Transfer!Empty
    BY <1>1, ReachSame
  <2>2. /\ answer'.wants = wants /\ answer'.haves = haves /\ answer'.held = server
        /\ answer'.pack = pack
    BY <1>1
  <2> QED
    BY <1>1, <1>3, <2>1, <2>2 DEF AnswerInv, PackFits, Plain, Transfer!AllFrom
<1>5. TransferTypes'
  BY <1>1, <1>2, <1>3 DEF TransferInv, TransferTypes
<1>6. HasInv'
  BY <1>1 DEF TransferInv, HasInv, Has
<1> QED
  BY <1>1, <1>4, <1>5, <1>6, PulledStays DEF TransferInv

LEMMA PullStep ==
  ASSUME TransferInv, NEW lost, Transfer!Pull(lost)
  PROVE  TransferInv'
<1> DEFINE asked == Transfer!FetchRecursive(lost)
           got == {o \in asked : Transfer!GetObject(o, lost)}
<1>1. /\ UNCHANGED <<graph, server, heads, client, told, answer, dropped>>
      /\ local' = local \cup got /\ unfetched' = unfetched \cup (asked \ got)
      /\ localRefs' = [r \in Ref |-> IF heads[r] = 0 THEN localRefs[r] ELSE heads[r]]
  BY DEF Transfer!Pull, Transfer!None
<1>2. Layered(graph, N) /\ Transfer!CloneRepo \subseteq Object
  BY NoneNot DEF TransferInv, TransferTypes, Transfer!CloneRepo, Transfer!Named
<1>3. /\ asked \subseteq Object /\ Transfer!CloneRepo \subseteq asked
      /\ \A x \in asked : Transfer!GetObject(x, lost) => Transfer!Referred(x) \subseteq asked
  BY <1>2, FetchIs
<1> HIDE DEF asked
<1>4. ASSUME NEW x \in got, graph[x].kind # "tag" PROVE graph[x].links \subseteq asked
  <2>1. Transfer!Referred(x) = graph[x].links
    BY <1>4 DEF Transfer!Referred, Transfer!GetObject
  <2> QED
    BY <1>3, <2>1
<1>5. got \subseteq asked /\ asked \subseteq local' \cup unfetched'
  BY <1>1
<1> HIDE DEF got
<1>6. Transfer!PulledWhole'
  <2>1. Transfer!Named(localRefs)' \subseteq Transfer!Named(localRefs) \cup asked
    <3>1. \A r \in Ref : heads[r] # 0 => heads[r] \in asked
      BY <1>3, NoneNot DEF Transfer!CloneRepo, Transfer!Named
    <3> QED
      BY <1>1, <3>1 DEF Transfer!Named, Transfer!None
  <2>2. Transfer!Named(localRefs) \subseteq local' \cup unfetched'
    BY <1>1 DEF TransferInv, Transfer!PulledWhole
  <2>3. ASSUME NEW x \in local', graph[x].kind # "tag"
        PROVE  graph[x].links \subseteq local' \cup unfetched'
    <3>1. CASE x \in got
      BY <1>4, <1>5, <2>3, <3>1
    <3>2. CASE x \in local
      BY <1>1, <2>3, <3>2 DEF TransferInv, Transfer!PulledWhole
    <3> QED
      BY <1>1, <3>1, <3>2
  <2> QED
    BY <1>1, <1>5, <2>1, <2>2, <2>3 DEF Transfer!PulledWhole, Transfer!Named
<1>7. TransferTypes'
  <2>1. local' \subseteq Object
    BY <1>1, <1>3, <1>5 DEF TransferInv, TransferTypes
  <2> QED
    BY <1>1, <2>1 DEF TransferInv, TransferTypes
<1>8. HasInv'
  BY <1>1 DEF TransferInv, HasInv, Has
<1> QED
  BY <1>1, <1>6, <1>7, <1>8, AnswerStays DEF TransferInv

LEMMA TransferStep == TransferInv /\ Transfer!TransferNext => TransferInv'
<1> SUFFICES ASSUME TransferInv, Transfer!TransferNext PROVE TransferInv'
  OBVIOUS
<1>1. \/ \E c \in Client :
           \/ Transfer!InfoRefs(c)
           \/ \E r \in Ref, o \in Object, parsed \in BOOLEAN :
                Transfer!GitReceivePack(c, r, o, parsed)
           \/ \E haves \in SUBSET Object : Transfer!GitUploadPack(c, haves)
      \/ \E r \in Ref, o \in Object : Transfer!GitantPush(r, o)
      \/ \E lost : Transfer!Pull(lost)
  BY DEF Transfer!TransferNext, Transfer!Clone, Object
<1> QED
  BY <1>1, InfoStep, ReceiveStep, UploadStep, GitantStep, PullStep

LEMMA TransferAlways == PartsSpec => []TransferInv
<1>1. PartsInit => TransferInv
  BY TransferStart DEF PartsInit
<1>2. TransferInv /\ [PartsNext]_partVars => TransferInv'
  <2>1. PartsNext \/ UNCHANGED partVars => Transfer!TransferNext \/ UNCHANGED transferVars
    BY DEF PartsNext, partVars
  <2>2. ASSUME TransferInv, UNCHANGED transferVars PROVE TransferInv'
    <3>1. UNCHANGED <<graph, server, heads, client, told, local, localRefs, answer, dropped, unfetched>>
      BY <2>2 DEF transferVars
    <3>2. TransferTypes' /\ HasInv'
      BY <2>2, <3>1 DEF TransferInv, TransferTypes, HasInv, Has
    <3> QED
      BY <2>2, <3>1, <3>2, AnswerStays, PulledStays DEF TransferInv
  <2> QED
    BY <2>1, <2>2, TransferStep
<1> QED
  BY <1>1, <1>2, PTL DEF PartsSpec

\* Whatever a reference or an object of the repository leads to is in it, but for what
\* a push was about and the daemon did not get to keep (GitReceivePack, PushPackfile).
THEOREM NoHoleHolds == PartsSpec => []NoHole
<1>1. TransferInv => NoHole
  BY NoneNot DEF TransferInv, HasInv, Has, NoHole, Transfer!NoHole, Transfer!Named
<1> QED
  BY <1>1, TransferAlways, PTL

\* GitUploadPack sends what the wants reach and the haves do not, once, and a clone or
\* a pull leaves a hole only where a request failed: the recursive walks of
\* collectReachableObjects and fetchObjectRecursive find all of it and nothing else.
THEOREM ServedWholeHolds == PartsSpec => []ServedWhole
<1>1. TransferInv => Transfer!PackExact
  BY DEF TransferInv, AnswerInv, PackFits, Plain, Transfer!PackExact
<1>2. TransferInv => ServedWhole
  BY <1>1 DEF TransferInv, ServedWhole
<1> QED
  BY <1>2, TransferAlways, PTL
-----------------------------------------------------------------------------
\* A behaviour of the parts is one of GitRepos: what is proved of GitRepos holds of it.
LEMMA GitRuns == PartsSpec => Spec
<1>1. PartsInit => Init
  BY DEF PartsInit
<1>2. [PartsNext]_partVars => [Next]_gitVars
  BY DEF PartsNext, partVars
<1> QED
  BY <1>1, <1>2, PTL DEF PartsSpec, Spec
=============================================================================
