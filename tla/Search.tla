------------------------------- MODULE Search -------------------------------
(***************************************************************************)
(* Code search (internal/search/index.go): an index of the files of a      *)
(* branch is kept with the commit it was built from.  A request resolves   *)
(* the branch, looks the index up under the lock, builds it outside the    *)
(* lock if there is none for that commit, and puts it in place of whatever *)
(* index is there by then.  What cannot be read while it is built is left  *)
(* out without an error.                                                   *)
(***************************************************************************)
EXTENDS Integers, FiniteSets

CONSTANTS
  Commit,     \* commits the branch may name
  Query,    \* searches
  MaxPushes,  \* bound: pushes to the branch
  MaxFaults   \* bound: reads that fail

VARIABLES
  branch,     \* the commit the branch names
  cached,     \* the index that is kept: [commit, whole], or NoIndex
  request,    \* request[q]: where the search is
  pushes, faults,
  named,      \* named[q]: commits the branch has named since q began (history)
  broken      \* commits of which a file could not be read (history)

searchVars == <<branch, cached, request, pushes, faults, named, broken>>

NoIndex == [commit |-> "none", whole |-> TRUE]
At(stage, commit, index) == [stage |-> stage, commit |-> commit, index |-> index]

SearchInit ==
  /\ branch \in Commit /\ cached = NoIndex
  /\ request = [q \in Query |-> At("idle", "none", NoIndex)]
  /\ pushes = 0 /\ faults = 0
  /\ named = [q \in Query |-> {}] /\ broken = {}

Now(q, changed) == request' = [request EXCEPT ![q] = changed]

\* A push, to a new commit or back to an old one.
Push(c) ==
  /\ c # branch /\ pushes < MaxPushes /\ pushes' = pushes + 1
  /\ branch' = c
  /\ named' = [q \in Query |-> IF request[q].stage = "idle" THEN {} ELSE named[q] \cup {c}]
  /\ UNCHANGED <<cached, request, faults, broken>>

\* SearchCodeIndexed asks Search, which takes the commit: resolveCommit.
ResolveCommit(q) ==
  /\ request[q].stage = "idle"
  /\ Now(q, At("look", branch, NoIndex))
  /\ named' = [named EXCEPT ![q] = {branch}]
  /\ UNCHANGED <<branch, cached, pushes, faults, broken>>

\* Mutant of Fresh: the index of the branch will do.
FreshAny(index, commit) == index # NoIndex

\* getOrBuild takes the index that is there only for the commit it was built from.
Fresh(index, commit) == index.commit = commit

\* getOrBuild: an index that is fresh is the answer.
LookUp(q) ==
  /\ request[q].stage = "look"
  /\ Now(q, IF Fresh(cached, request[q].commit)
            THEN [request[q] EXCEPT !.stage = "answer", !.index = cached]
            ELSE [request[q] EXCEPT !.stage = "build"])
  /\ UNCHANGED <<branch, cached, pushes, faults, named, broken>>

\* buildTree, all files read or some not.
BuildTree(q, whole) ==
  /\ request[q].stage = "build"
  /\ IF whole THEN faults' = faults ELSE faults < MaxFaults /\ faults' = faults + 1
  /\ Now(q, [request[q] EXCEPT !.stage = "keep",
                               !.index = [commit |-> request[q].commit, whole |-> whole]])
  /\ broken' = IF whole THEN broken ELSE broken \cup {request[q].commit}
  /\ UNCHANGED <<branch, cached, pushes, named>>

\* getOrBuild keeps what it has built.
Keep(q) ==
  /\ request[q].stage = "keep"
  /\ cached' = request[q].index
  /\ Now(q, [request[q] EXCEPT !.stage = "answer"])
  /\ UNCHANGED <<branch, pushes, faults, named, broken>>

\* Search looks through the files of the index.
Answer(q) ==
  /\ request[q].stage = "answer"
  /\ Now(q, At("idle", "none", NoIndex))
  /\ named' = [named EXCEPT ![q] = {}]
  /\ UNCHANGED <<branch, cached, pushes, faults, broken>>

SearchNext ==
  \/ \E c \in Commit : Push(c)
  \/ \E q \in Query :
       \/ ResolveCommit(q) \/ LookUp(q) \/ Keep(q) \/ Answer(q)
       \/ \E whole \in BOOLEAN : BuildTree(q, whole)

SearchSpec == SearchInit /\ [][SearchNext]_searchVars
-----------------------------------------------------------------------------
\* A search answers from the files of a commit its branch named while it ran,
\* however the builds of other searches and pushes fall in between, and from all of
\* them unless one of that commit's could not be read at some time.
AnswersCurrent ==
  \A q \in Query : request[q].stage = "answer" =>
    /\ request[q].index.commit \in named[q]
    /\ request[q].index.whole \/ request[q].index.commit \in broken
=============================================================================
