--------------------------- MODULE Collaborators ---------------------------
(***************************************************************************)
(* Who may write to a repository: the registry with its directories and    *)
(* its file (internal/storage/registry.go), the table of memberships in    *)
(* the database (store/sqlite/repo_collaborator_store.go), and requests of *)
(* logged-in users that pass the checks of the router one after another    *)
(* (internal/api/server.go) while other requests change both.              *)
(***************************************************************************)
EXTENDS Integers, FiniteSets

CONSTANTS
  User,        \* logged-in users
  Repo,        \* repository names
  MaxRequests, \* bound: requests ever made
  MaxInFlight, \* bound: requests at the same time
  MaxFaults    \* bound: failed saves and statements, and crashes

VARIABLES
  entries,   \* the registry in memory: [private, stars], or NoEntry
  index,     \* the same in registry.json
  dirs,      \* repositories with a directory
  lock,      \* the request that holds the registry's lock, or 0
  members,   \* members[p][u]: "owner", "collaborator" or "none"
  comments,  \* the table of review comments: [id, author, status]
  requests,  \* requests under way
  begun,     \* requests ever made
  faults,
  removed,   \* memberships that were removed and not given again (history)
  acked      \* repositories the registry has created and not begun to delete (history)

repoVars == <<entries, index, dirs, lock, members, comments, requests, begun, faults, removed, acked>>
registry == <<entries, index, dirs, lock>>

NoEntry == [private |-> FALSE, stars |-> {0}]
Entry == [private : BOOLEAN, stars : SUBSET User]
Role == {"none", "collaborator", "owner"}

ReposInit ==
  /\ entries = [p \in Repo |-> NoEntry] /\ index = entries
  /\ dirs = {} /\ lock = 0
  /\ members = [p \in Repo |-> [u \in User |-> "none"]]
  /\ comments = {}
  /\ requests = {} /\ begun = 0 /\ faults = 0
  /\ removed = {} /\ acked = {}

Fails == faults < MaxFaults /\ faults' = faults + 1
Outcome(ok) == IF ok THEN faults' = faults ELSE Fails

Answered(r) == requests' = requests \ {r}
To(r, stage) == requests' = (requests \ {r}) \cup {[r EXCEPT !.stage = stage]}

\* RepositoryRegistry.Save of what the memory is going to be.
Save(ok) == Outcome(ok) /\ index' = IF ok THEN entries' ELSE index

\* SQLRepoCollaboratorStore.IsWriter: any row is enough.
IsWriter(p, u) == members[p][u] \in {"owner", "collaborator"}

\* The statement of SQLRepoCollaboratorStore.Add: an upsert.  Requests that
\* were begun without the membership may now find it.
SetRole(p, u, role, r) ==
  /\ members' = [members EXCEPT ![p][u] = role]
  /\ removed' = removed \ {<<p, u>>}
  /\ requests' = {IF q.repo = p /\ q.user = u THEN [q EXCEPT !.late = FALSE] ELSE q :
                    q \in requests \ {r}}
-----------------------------------------------------------------------------
Kinds == {"delete", "add", "remove", "star", "unstar", "comment", "resolve", "erase"}

\* A request of a logged-in user: adding and removing are about any user, a
\* repository is private if it is made for its owner.
Ask(u, p, kind, other) ==
  /\ kind \notin {"create", "add", "remove"} => other = u
  /\ begun < MaxRequests /\ Cardinality(requests) < MaxInFlight
  /\ begun' = begun + 1
  /\ requests' = requests \cup
       {[id |-> begun + 1, user |-> u, repo |-> p, kind |-> kind, other |-> other,
         late |-> <<p, u>> \in removed,
         stage |-> IF kind = "create" THEN "create"
                   ELSE IF kind \in {"resolve", "erase"} THEN "write" ELSE "read"]}
  /\ UNCHANGED <<registry, members, comments, faults, removed, acked>>

\* RequireRepoReadAccessWithCollaborators: unknown and hidden look the same.
CheckRead(r) ==
  /\ r.stage = "read" /\ lock = 0
  /\ IF entries[r.repo] # NoEntry /\ (entries[r.repo].private => IsWriter(r.repo, r.user))
     THEN To(r, "check") ELSE Answered(r)
  /\ UNCHANGED <<registry, members, comments, begun, faults, removed, acked>>

\* Mutant of CheckWrite: whoever may read may write.
CheckNothing(r) ==
  /\ r.stage = "check"
  /\ To(r, "write")
  /\ UNCHANGED <<registry, members, comments, begun, faults, removed, acked>>

\* RequireRepoWrite for a session user.
CheckWrite(r) ==
  /\ r.stage = "check"
  /\ IF IsWriter(r.repo, r.user) THEN To(r, "write") ELSE Answered(r)
  /\ UNCHANGED <<registry, members, comments, begun, faults, removed, acked>>
-----------------------------------------------------------------------------
\* RepositoryRegistry.Create under its lock: the directory is made first, which
\* fails where there is one already, ...
InitRepository(r) ==
  /\ r.stage = "create" /\ lock = 0
  /\ IF entries[r.repo] # NoEntry \/ r.repo \in dirs
     THEN Answered(r) /\ UNCHANGED <<dirs, lock>>
     ELSE To(r, "enter") /\ dirs' = dirs \cup {r.repo} /\ lock' = r.id
  /\ UNCHANGED <<entries, index, members, comments, begun, faults, removed, acked>>

Acknowledge(r) == acked' = acked \cup {[repo |-> r.repo, private |-> r.other = r.user]}

\* Mutant of EnterRepository: the file is left to a later save.
EnterUnsaved(r, ok) ==
  /\ r.stage = "enter"
  /\ entries' = [entries EXCEPT ![r.repo] = [private |-> r.other = r.user, stars |-> {}]]
  /\ lock' = 0 /\ Outcome(ok) /\ index' = index
  /\ To(r, "own") /\ Acknowledge(r)
  /\ UNCHANGED <<dirs, members, comments, begun, removed>>

\* Mutant of EnterRepository: the return after a failed save forgets the lock.
EnterLocked(r, ok) ==
  /\ r.stage = "enter"
  /\ entries' = [entries EXCEPT ![r.repo] = [private |-> r.other = r.user, stars |-> {}]]
  /\ lock' = (IF ok THEN 0 ELSE lock) /\ Save(ok)
  /\ IF ok THEN To(r, "own") /\ Acknowledge(r) ELSE Answered(r) /\ acked' = acked
  /\ UNCHANGED <<dirs, members, comments, begun, removed>>

\* ... then the entry is added and the file saved.  A failed save is answered
\* with an error, and the entry stays.
EnterRepository(r, ok) ==
  /\ r.stage = "enter"
  /\ entries' = [entries EXCEPT ![r.repo] = [private |-> r.other = r.user, stars |-> {}]]
  /\ lock' = 0 /\ Save(ok)
  /\ IF ok THEN To(r, "own") /\ Acknowledge(r) ELSE Answered(r) /\ acked' = acked
  /\ UNCHANGED <<dirs, members, comments, begun, removed>>

\* CreateRepo records the owner in the database; without it the repository
\* stays, but the answer is an error.
RecordOwner(r, ok) ==
  /\ r.stage = "own" /\ Outcome(ok)
  /\ IF ok THEN SetRole(r.repo, r.user, "owner", r)
     ELSE Answered(r) /\ UNCHANGED <<members, removed>>
  /\ UNCHANGED <<registry, comments, begun, acked>>

\* RepositoryRegistry.Delete under its lock: the directory goes first, ...
RemoveDirectory(r, ok) ==
  /\ r.stage = "write" /\ r.kind = "delete" /\ lock = 0
  /\ Outcome(entries[r.repo] = NoEntry \/ ok)
  /\ IF ok /\ entries[r.repo] # NoEntry
     THEN /\ dirs' = dirs \ {r.repo} /\ lock' = r.id /\ To(r, "forget")
          /\ acked' = {a \in acked : a.repo # r.repo}
     ELSE Answered(r) /\ UNCHANGED <<dirs, lock, acked>>
  /\ UNCHANGED <<entries, index, members, comments, begun, removed>>

\* ... then the entry.  The memberships stay in the database.
ForgetEntry(r, ok) ==
  /\ r.stage = "forget"
  /\ entries' = [entries EXCEPT ![r.repo] = NoEntry]
  /\ lock' = 0 /\ Save(ok)
  /\ Answered(r)
  /\ UNCHANGED <<dirs, members, comments, begun, removed, acked>>

\* RepositoryRegistry.Star and Unstar: saved if they change anything.
Stars(r) == IF r.kind = "star" THEN entries[r.repo].stars \cup {r.user}
            ELSE entries[r.repo].stars \ {r.user}

Star(r, ok) ==
  /\ r.stage = "write" /\ r.kind \in {"star", "unstar"} /\ lock = 0
  /\ IF entries[r.repo] = NoEntry \/ Stars(r) = entries[r.repo].stars
     THEN ok /\ UNCHANGED <<entries, index, faults>>
     ELSE entries' = [entries EXCEPT ![r.repo].stars = Stars(r)] /\ Save(ok)
  /\ Answered(r)
  /\ UNCHANGED <<dirs, lock, members, comments, begun, removed, acked>>

\* AddCollaborator: the role of a row that is there already is overwritten.
AddCollaborator(r, ok) ==
  /\ r.stage = "write" /\ r.kind = "add" /\ Outcome(ok)
  /\ IF ok THEN SetRole(r.repo, r.other, "collaborator", r)
     ELSE Answered(r) /\ UNCHANGED <<members, removed>>
  /\ UNCHANGED <<registry, comments, begun, acked>>

\* RemoveCollaborator first looks whether the member is the owner ...
LookAtMember(r) ==
  /\ r.stage = "write" /\ r.kind = "remove"
  /\ IF members[r.repo][r.other] = "owner" THEN Answered(r) ELSE To(r, "remove")
  /\ UNCHANGED <<registry, members, comments, begun, faults, removed, acked>>

\* ... and then deletes the row, whatever its role is by now.
RemoveMember(r, ok) ==
  /\ r.stage = "remove" /\ Outcome(ok)
  /\ IF ok /\ members[r.repo][r.other] # "none"
     THEN /\ members' = [members EXCEPT ![r.repo][r.other] = "none"]
          /\ removed' = removed \cup {<<r.repo, r.other>>}
     ELSE UNCHANGED <<members, removed>>
  /\ Answered(r)
  /\ UNCHANGED <<registry, comments, begun, acked>>
-----------------------------------------------------------------------------
\* ReviewHandler.CreateComment.
Comment(r, ok) ==
  /\ r.stage = "write" /\ r.kind = "comment" /\ Outcome(ok)
  /\ comments' = IF ok THEN comments \cup {[id |-> r.id, author |-> r.user, status |-> "open"]}
                 ELSE comments
  /\ Answered(r)
  /\ UNCHANGED <<registry, members, begun, removed, acked>>

\* ReviewHandler.ResolveComment: of anyone who is logged in.
ResolveComment(r) ==
  /\ r.stage = "write" /\ r.kind = "resolve"
  /\ \E c \in comments : comments' = (comments \ {c}) \cup {[c EXCEPT !.status = "resolved"]}
  /\ Answered(r)
  /\ UNCHANGED <<registry, members, begun, faults, removed, acked>>

\* ReviewHandler.DeleteComment, likewise.
DeleteComment(r) ==
  /\ r.stage = "write" /\ r.kind = "erase"
  /\ \E c \in comments : comments' = comments \ {c}
  /\ Answered(r)
  /\ UNCHANGED <<registry, members, begun, faults, removed, acked>>

\* NewRepositoryRegistry: directories are only looked at if the file has nothing.
Loaded ==
  IF \E p \in Repo : index[p] # NoEntry THEN index
  ELSE [p \in Repo |-> IF p \in dirs THEN [private |-> FALSE, stars |-> {}] ELSE NoEntry]

\* A crash and the next start.  The database is as its last statement left it.
Crash ==
  /\ Fails
  /\ entries' = Loaded /\ index' = Loaded
  /\ requests' = {} /\ lock' = 0
  /\ UNCHANGED <<dirs, members, comments, begun, removed, acked>>

Create(r) ==
  \/ InitRepository(r)
  \/ \E ok \in BOOLEAN : EnterRepository(r, ok) \/ RecordOwner(r, ok)

Delete(r) == \E ok \in BOOLEAN : RemoveDirectory(r, ok) \/ ForgetEntry(r, ok)

Membership(r) ==
  LookAtMember(r) \/ \E ok \in BOOLEAN : AddCollaborator(r, ok) \/ RemoveMember(r, ok)

Review(r) == ResolveComment(r) \/ DeleteComment(r) \/ \E ok \in BOOLEAN : Comment(r, ok)

ReposNext ==
  \/ \E u, v \in User, p \in Repo, kind \in Kinds \cup {"create"} : Ask(u, p, kind, v)
  \/ \E r \in requests :
       \/ CheckRead(r) \/ CheckWrite(r)
       \/ Create(r) \/ Delete(r) \/ Membership(r) \/ Review(r)
       \/ \E ok \in BOOLEAN : Star(r, ok)
  \/ Crash

ReposSpec == ReposInit /\ [][ReposNext]_repoVars
-----------------------------------------------------------------------------
\* The variables keep their types, and who holds the registry's lock is in the
\* middle of Create or Delete.
ReposTypeOK ==
  /\ \A p \in Repo : {entries[p], index[p]} \subseteq Entry \cup {NoEntry}
  /\ members \in [Repo -> [User -> Role]]
  /\ lock = 0 \/ \E r \in requests : r.id = lock /\ r.stage \in {"enter", "forget"}
  /\ \A c \in comments : c.author \in User /\ c.status \in {"open", "resolved"}

\* A request that begins after its user's membership was removed, and is not
\* given again, changes nothing of the repository, whatever is created, deleted,
\* added or removed while it passes the checks.
RemovedCannotWrite ==
  \A r \in requests :
    r.stage \in {"write", "remove", "forget"} /\ r.kind \notin {"resolve", "erase"} => ~r.late

\* A repository the registry has reported as created is in memory, in the file and has
\* its directory, and is as private as it was made, until a deletion begins:
\* through failed saves and crashes in the course of other requests.
AckedRepoKept ==
  \A a \in acked :
    /\ a.repo \in dirs
    /\ \A e \in {entries[a.repo], index[a.repo]} : e # NoEntry /\ e.private = a.private
=============================================================================
