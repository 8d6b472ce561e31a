# Formal models of gitant-daemon

TLA+ models of the gitant daemon (Go, `src/`), model-checked with TLC and, where
marked, proved with TLAPS. Paths below are relative to `src/`; `PROJECT.json`
maps every definition to the lines it models.

## 1. The system

A gitant daemon serves git repositories over HTTP and keeps collaboration data
(issues, pull requests, labels, tasks, releases) in CRDT stores that it
replicates with peer daemons over libp2p GossipSub.

| Part | State | Operations | Interacts with |
|---|---|---|---|
| operation log (`internal/crdt/operations.go`) | slice of operations, Lamport counter | Add, ImportOperation, SortOps | every entity below |
| entities and stores (`internal/crdt/*.go`) | a map of entities behind an RWMutex; one JSON file per kind | Create, Update, Get, Save, Load, MergeRemote | handlers, hook, subscriber, compactor |
| handlers (`internal/api/handlers`) | none | HTTP requests | stores, webhook manager, repositories |
| event hook (`internal/api/server.go`, SetNetwork) | none; runs in the request's goroutine | Get the entity, publish its snapshot | webhook manager calls it; sync coordinator |
| sync coordinator (`internal/network/sync.go`) | topics and a subscriber goroutine | publishCRDT, applyCRDT | hook, stores, GossipSub |
| compactor (`internal/crdt/compactor.go`) | timer | CompactLog on live logs, no lock | issue and pull request stores |
| references (`internal/storage/repository.go`, `handlers/smart_http.go`) | git references, one mutex per name | compare-and-set, branch merges, receive-pack | push and merge handlers, protection |
| registry, block store, protection (`internal/storage`) | JSON files, directories | Create, Fork, Delete, Put, Get | handlers, object exchange |
| object exchange (`internal/network/{node,blocks}.go`) | event list (capped), streams | announce, fetch | hook, repositories |
| object transfer (`storage/packfile.go`, `internal/cli`) | objects and their links | receive-pack, upload-pack, clone, pull, push | git clients, repositories |
| tokens (`internal/identity`, `middleware/auth.go`) | nonce cache, revocations and their file | verify chains of delegations, check a nonce, revoke, evict, clean | every authenticated request |
| rate limiter (`middleware/ratelimit.go`) | a bucket per address | allow, cleanup | every request |
| accounts, collaborators (`internal/store`, `handlers`) | SQLite tables | register, log in and out; roles, stars, review comments | repository requests |
| key and SSH (`identity/did.go`, `transport/ssh.go`) | key file, host key, connections | create, rotate, save; accept, stop | command line, git clients |
| websocket hub (`internal/websocket/hub.go`) | clients, their send queues | register, broadcast, close | browser connections |
| webhooks (`internal/webhooks`) | a map and its file | register, remove, dispatch, deliver | handlers |
| workflow runner (`internal/runner`) | a run, its processes | execute, step, kill | scripts |
| agents (`handlers/agents.go`, `network/trust.go`) | scores, attestations | record, attest, apply a peer's | GossipSub |
| discussions, projects, wiki | a map and a file each | create, change, delete | handlers |
| search, LFS | cached index; files by content | search; upload, download | repositories; clients |
| IPFS, audit, Solidity contracts (`contracts/src`) | see section 6 | | |

What is hard: snapshots are copied and marshalled at different moments; they
arrive late, again, or never; a save may fail after memory changed; the process
may crash between a change and its save; the compactor takes no lock; decoding
some entities renumbers their logs; pushes update references on parallel
goroutines. `PROJECT.json` lists each hazard at its line with the property that
covers it.

What makes each part correct: a log is causally ordered, gap-free and
duplicate-free; the fields an entity shows are justified by the log; replicas
agree when everything is delivered; deletions and closings are not undone by
old snapshots; what was acknowledged is on disk; one merge at a time, after an
approval; a compaction changes nothing visible; a reference moves only from the
value that was checked, a protected one only forward, and what it leads to is
stored. A token is accepted once and never beyond its delegation or after its
revocation; who lost a role passes no later check; a closed client's queue is
never written by a broadcast; a run's status and a provider record are true;
what was answered with success survives a restart.

## 2. Modules

* `OpLog`: the operation log. An operation is `[node, time, kind, arg, lamport]`;
  `node` is the rank of the daemon's DID, `<<node, time>>` its unique ID. Wall-clock
  timestamps only break ties between operations of one daemon, so `time` is their
  order there. `Before` is CompareOps, `Last` the operation whose effect a replay
  leaves, `Renumbered` the decoding of issues, pull requests and releases.
* `Replica`: one replicated entity on a set of daemons, from the handler's `Add`
  and `SaveLocked` through the hook (`HookGet` copies the fields, `HookPublish`
  marshals the shared log later) to the peers (`Adopt`, or `StartMerge`,
  `ImportNext`, `FinishMerge`: the merge appends one operation at a time while
  other goroutines may marshal the log), with failed saves and publishes, repeated
  deliveries and `Crash`. Logs of different entities are independent, so one is
  modelled; `SaveElse` is the save some other entity or the shutdown causes.
* `TaskSync`, `PRSync`, `IssueSync`, `LabelSync`, `ReleaseSync`: the requests of
  one kind of entity, its replay and its decoding, over an instance of `Replica`.
* `Compaction`: the compactor, composed into `PRSync`; it treats issues alike.
* `GitRepos`: the git repositories of one daemon. A push goes through the stages of
  its handler (`Ingest` the objects, `Reopen` the repository, `ReadRef`, `CheckRules`,
  `Write` under the reference's lock), a branch merge through `BeginMerge`,
  `ReadSource` and `WriteMerge`, a fork through `ForkObjects` and `ForkRefs` under the
  registry's lock; any of them interleave. A request does not need that lock once
  it has opened the repository, and a push opens it twice: its objects are
  stored before the second time, which is why a fork has them.
* `CausalBroadcast`: what `Replica` promises of any entity, operations being only who
  issued them and in which order. A daemon learns of an operation together with
  all its author knew, keeps what it wrote down, and restarts from that. `TaskSync`
  implements it (`ImplementsBroadcast`): the refinement maps a log to the set of its
  operations, the file to `stable`, and `hb` to `deps`. An import step is a `Learn` of
  one operation; requests, hooks and deliveries that change no log stutter.
* `UCAN`: which tokens a chain of proofs justifies, as plain operators. `RateLimiter`:
  the bucket of an address. `Access` composes them with the nonce cache and the
  revocation store: a request is `Arrive`d (signature, times, chain, revocations),
  passes `CheckNonce`, and `Write`s; revocations are saved by several requests at
  once outside the lock; `Evict`, `Cleaned`, `Shutdown` and `Crash` go on beside.
* `Accounts`: registration looks a name up and inserts later; sessions by token, with
  their expiry. `Collaborators`: the registry's entries, index file and directories,
  membership rows and reviews, a request going from check to effect in steps.
* `Identity`: the daemon and commands that load, rotate and save one key file.
  `SSH`: making the host key, accepting, serving, and Stop.
* `Transfer`: a graph of objects, what the server and a client store, and the
  walks that pack, read, fetch and clone them. A walk is a recursive function from an
  object and the objects seen to those seen after it; `Each` is its loop.
  `Objects`: the same objects between daemons by announcements, fetches and
  provider records.
* `Blockstore`, `LFS`, `Search`: storage with its files written in steps.
* `Discussions`, `Projects`, `Wiki`, `Agents`, `Webhooks`: stores with a map in memory
  and a file. `Webhooks` takes a save apart: inodes, one temporary file, renames.
* `Hub`: the loop of Run, callers of BroadcastToRepo, and each client's two
  goroutines. `Runner`: one run, its step's shell, what the shell leaves behind, and
  the two timers.
* `Services`: discussions, projects, wiki, agents, webhooks, hub, runner and objects
  as one specification. They share no state: its `part` names the one a behaviour
  runs, and the others rest in their initial states. The product of independent
  parts would add interleavings and no new behaviour of any of them.
* `Authority` joins `Access`, `Accounts`, `Collaborators`, `Identity` and `SSH` in the same
  way, and `Storage` joins `GitRepos`, `Transfer`, `Blockstore`, `LFS` and `Search`.
* `MC*`: instances for TLC, which give the constants values a configuration cannot.
  `Storage`, `GitRepos`, `ReleaseSync` and `Webhooks` need none.
* `*Proofs`: theorems and proofs, of `OpLog` (lemmas on logs), `TaskSync`, `LabelSync`,
  `IssueSync`, `PRSync`, `Storage`, `Authority` (`AccessProofs`) and `Services`.

State: `log`, `clock`, `view` are an entity's memory, `disk` its part of the
JSON file, `busy` and `rest` what the holder of the store's mutex is in the middle
of, `hooks` requests between their first change and the end of Dispatch, `net`
and `seen` the snapshots sent and taken; `made`, `hb` and `faults` are history
and bounds. In `PRSync`, `landed` counts branch merges, `saves` are the unlocked
saves under way; `compacting` is what CompactLog has read. In `GitRepos`, `commits`
are all commits ever made, `objects` and `refs` what each repository stores, `entry`
the registry, `rules` and `rulesFile` the protection rules, `pushes` and `merges` the
requests under way; `whole`, `won` and `strayed` are history. In the other modules
a comment at each variable says what it stands for, and marks those that are
history.

Operators named as mutants in comments are plausible bugs of the definition that
follows; no specification uses them. They show that each property can fail.

## 3. Runs

Passing runs:

| Run | What it shows | Bounds |
|---|---|---|
| tasks | order, gaps, duplicates, fields against log; under fairness, agreement is reached and kept | 2 daemons, 4 and 1 operations, no fault: 80 K states |
| tasks_crash | causal history, acknowledged implies on disk, and every step is one of CausalBroadcast or a stutter | 3 and 1 operations, 1 fault: 112 K states |
| prs | approval before merge on a protected branch, order, duplicates | 4 and 2 operations: 301 K states |
| prs_alone | one merge under way at a time on one daemon; the branches are merged once, and the mark stays, but for a crash; an undisturbed compaction changes nothing visible | 4 operations, compaction above 2, a fault: 380 K states |
| issues | closed stays closed, labels justified, published is kept | 3 and 1 operations: 41 K states |
| labels | order through removal and re-creation; no revival | 3 and 2 operations: 808 K states |
| repos | what is stored, part by part (below) | 1.47 M states |
| access | who may do what, part by part (below) | 873 K states |
| services | everything around, part by part (below) | 381 K states |

| Part (run) | What it shows | Bounds |
|---|---|---|
| GitRepos (repos) | pushes move protected branches forward (`ProtectedForward`); one push per tip wins (`OneWins`); a fork has what pushes brought (`PushedCommitsStored`) | 2 requests, 3 commits, 2 branches, one fork, a fault |
| Transfer (repos) | what references and objects lead to is stored, but for what a push could not deliver (`NoHole`); upload-pack sends what is wanted and not had (`PackExact`); a pull has holes only where a request failed (`PulledWhole`) | every graph of 4 objects (blobs, empty ones, trees, commits, tags; those no commit or tag reaches are blobs), 2 clients, 2 pushes, a fetch, a fault |
| Blockstore (repos) | acknowledged blocks can be read back, through the migration too (`AckedKept`) | 3 blocks, 2 of the old format, 3 writes, 2 faults |
| LFS (repos) | a name's content is its own (`NamesTrue`) | 2 names, 4 uploads, 2 faults |
| Search (repos) | answers come from a commit the branch had during the search (`AnswersCurrent`) | 2 searches, 2 pushes, a failing read |
| Access, RateLimiter, UCAN (access) | a token is accepted once while remembered (`NonceOnce`), not when revoked (`RevokedRefused`), only within every link of its chain (`Attenuated`); at most burst plus what refills (`RateBound`) | 2 chains of 2 tokens, 3 requests, 3 ticks, a fault |
| Accounts (access) | names and addresses are unique under concurrent registration (`OneAccount`); ended sessions identify nobody (`SessionEnds`) | 2 accounts, 2 sessions |
| Collaborators (access) | no lock is left behind (`ReposTypeOK`); who lost writing passes no later check (`RemovedCannotWrite`); acknowledged repositories outlive crashes (`AckedRepoKept`) | 2 users, one repository, 3 requests, 2 at once, a fault |
| Identity (access) | keys signed with stay known (`KeysKept`) unless commands overlap or a crash tears the file | serve, quickstart, two rotations, 2 faults |
| SSH (access) | clients see one host key (`HostKeyStays`); Stop waits for connections (`StopWaits`) | 2 connections, 2 faults |
| Discussions (services) | promises are kept through crashes (`PromisesKept`); a page shown answered shows an accepted answer, though it is encoded without the lock (`AnsweredShown`) | 3 posts, 2 faults |
| Projects (services) | a card is in one column (`OneColumn`) and stays where it was acknowledged unless the file was cut (`PlacedStays`) | 2 columns, 3 boards and cards, 2 faults |
| Wiki (services) | acknowledged pages and edits stay (`PagesKept`) | 2 slugs, 3 pages, 2 edits, 2 faults |
| Agents (services) | scores are shares of one (`ScoresBounded`), no daemon counts an attestation twice (`CountedOnce`), an answered one survives crashes (`AttestationKept`) | 2 daemons, 2 attestations, a lost message or failure |
| Webhooks (services) | when saves are over the file is what is in memory (`FileSettles`); events find the webhooks registered before them (`EventsFindHooks`) | 2 webhooks, an event, a fault |
| Hub (services) | no broadcast on a closed queue (`BroadcastsSafe`); nobody waits for the hub for ever (`HubServes`) | 2 clients, queues of one, a caller, a message, a ping |
| Runner (services) | success only when all steps succeeded, a killed step leaves no process (`StatusTrue`); every run ends (`RunEnds`) | jobs of one and of two steps |
| Objects (services) | providers and pins have their objects (`ProvidersHold`), no error means complete (`SyncedWhole`), recent events are the last (`RecentTrue`), the subscriber gets through every event (`SubscriberReturns`) | 2 daemons, 2 objects, one of them empty, 2 pushes, a fault |

The names in the second table are those of the modules. Where one run states several
of them about one thing, its property is their conjunction: `PushesSound` (`OneWins`,
`PushedCommitsStored`), `ServedWhole` (`PackExact`, `PulledWhole`), `ContentKept`
(`AckedKept`, `NamesTrue`), `RequestsBounded` (`RateBound`), `OneUser` (`OneAccount`,
`SessionEnds`), `ReposKept` (`AckedRepoKept`), `KeysStay` (`KeysKept`, `HostKeyStays`),
`AnswersTrue` (all of discussions, projects, wiki and agents), `HooksKept`
(`FileSettles`, `EventsFindHooks`), `ObjectsTrue` (`ProvidersHold`, `SyncedWhole`,
`RecentTrue`), `LoopsReturn` (`RunEnds`, `SubscriberReturns`). The type invariants
`GitTypeOK`, `AccessTypeOK` and `ReposTypeOK` are part of the first, the fourth and the
sixth. That no save loses an operation of the file follows from `ImplementsBroadcast`.

Why the bounds are enough: the shortest interesting histories (create, claim,
complete with a result; create, review, merge, revert; create, remove, create
again) fit in three or four operations of one daemon while a second daemon makes
a concurrent one; two daemons suffice for a concurrent edit, a stale snapshot
and a partial merge. One fault puts a failed save, a lost publish, a repeated
delivery or a crash at any point of these histories. For repositories, two
requests are the race between a request's checks and its write; the fork, the
rules and a crash come on top.
In the other parts, two actors make every race (two registrations, two
saves, two clients), two faults a failure during the repair of another, and
queues and lists of one element are full at once.

Requests are bounded, and a system without requests is idle, so the
configurations disable the deadlock check.

Violation runs: each states what a document or comment of the repository says, and
TLC shows an execution of the code that contradicts it.

| Run | Statement | What happens |
|---|---|---|
| repos_merge | source is merged into target (storage/repository.go:284) | the merge commit has the source's tree: the target's changes are gone |
| releases_delete | the deletion replicates (crdt/releases.go:246) | nothing publishes it |
| webhooks_torn | written to a temporary file first, then renamed, to prevent corruption on crash (persistence/persistence.go:11) | two saves under the read lock share the temporary file; the first rename puts in place what the second still writes |

Other statements the same models contradict, for which no run is kept:

Replication:

* Tasks are replicated, though docs/CRDT_SYNC.md:12 says they stay on one node.
* A snapshot whose fields were copied before a completion and whose log was
  marshalled after it leaves an adopter without the task's result.
* Decoding issues, pull requests and releases renumbers their operations, so
  operations are not immutable (docs/CRDT_SYNC.md:16) and daemons with the same
  operations can show different statuses (line 19).
* The revert of a failed merge, a batch close and every deletion publish nothing:
  replicas stay apart with everything delivered (line 25). The colour a label was
  created with is not replayed, with the same result.
* With two daemons, a peer's revert, replayed, reopens a pull request while this
  daemon merges it, and a second merge starts, in spite of handlers/prs.go:250.
* MergePR marks the pull request merged before it touches the branches
  (handlers/prs.go:225 says the opposite); a crash, or a repository that cannot be
  opened, leaves it marked and never landed.
* CompactLog drops a review added between its read and its write, though
  docs/CRDT_SYNC.md:26 promises no silent loss; and it keeps the last status by
  position, which after an import is not the last in Lamport order.
* PullRequestStore.Save can put an older copy of prs.json over a newer one.
* An issue created without labels is announced before any save, and the release
  store's file is a directory, so that no release is ever saved.

Repositories and storage:

* MergeBranches writes the target unconditionally and takes the lock only for the
  write: a push acknowledged in between is lost, on a protected branch too, and a
  fork made meanwhile can get the merged branch without its commit, though
  storage/registry.go:214 says it copies all objects and refs.
* "Fast-forwards when possible" (storage/repository.go:284) follows first parents
  only: a target reached through a second parent gets a merge commit.
* A single Read of an empty object fails, so GetObject does, and ReadPackfile drops
  the object. git-receive-pack answers "unpack ok" and updates references though the
  pack could not be read.
* `gitant push` sends the head commits only, where cli/push.go:132 says that it collects
  all reachable objects; clone and pull set references though fetches failed.
* A Load of the block store that fails during the migration, followed by a Put, drops
  the blocks not migrated yet; a crash in Delete leaves an index entry without file.
* A transient read error leaves a partial search index until the branch moves.
* A crash between InitRepository and the save of the index leaves a directory that
  takes the name; a failed insertion of the owner leaves a repository without one;
  memberships survive DeleteRepo.

Access:

* AddCollaborator overwrites an owner's role, after which RemoveCollaborator removes the
  row, though handlers/collaborators.go:140 says it cannot.
* Logout ignores the error of the deletion: the session goes on, while store/auth.go:150
  says that Logout invalidates it.
* Two rotations at once, or a rotation and quickstart, keep one of the new keys; a
  crash in Save tears the key file, and a daemon does not start from it. The same
  holds for a crash while the SSH host key is written.
* RevocationStore.Cleanup goes by the age of a revocation, though its comment
  (identity/revocation.go:54) speaks of expired tokens: a token that lives longer than
  48 hours, or is revoked before it begins, is accepted again after a restart.
* Stop of the SSH server waits for connected clients without a limit, and not for
  their session goroutines.

Services:

* MoveCard to an unknown column answers with an error and has removed the card in
  memory (projects/store.go:186); projects.json is written in place.
* A second wiki page with one slug is acknowledged and never found.
* The answer to a ping can be sent on a queue the hub has closed, which panics; a
  reader waiting in that answer after its writer ended stays registered.
* A step's processes are killed only once CombinedOutput returned: one that kept the
  output open delays the end of a run beyond its limit.
* Scores depend on the order of attestations; a failed save leaves the new score in
  memory while the client is told it failed.
* SetNetwork replaces the handler that NewSyncCoordinator had just set, so that announced
  objects are never fetched through it; a stream's answer has no deadline.

### Fairness

`tasks` assumes weak fairness of what the daemon does by itself: the holder
of the store's mutex goes on, a handler once begun finishes, its hook runs, and
every snapshot a daemon has not taken is eventually delivered and merged. The
first three are goroutines nothing blocks forever; the last is GossipSub's
delivery on a connected mesh, with no fault and no restart (a lost snapshot is
never sent again). Agents may stop asking at any time.

`services` assumes strong fairness of the hub's loop and of a broadcasting caller,
each as one process: Go's select chooses among ready cases at random, and a mutex
that is free again and again is obtained. It assumes nothing of clients: they may
stop reading or writing for ever. For a run it assumes that its goroutine and its
timers go on and that processes a script leaves behind end some time, which the
code needs (see above); the script itself need not end. For the subscriber it
assumes that a daemon that was asked answers or the connection ends.

## 4. Proofs

The theorems hold for every value of the constants: any set of daemons, agents,
forks, branches, tokens or clients, any rate, limit and bound. Assumptions on constants
are the named ASSUMEs of the modules, and TLC evaluates them on every run: daemons are
naturals (ranks of DIDs), bounds and times are naturals, sentinels differ from values
(no user is 0, which stands in the registry for no repository), a graph has a natural
number of objects, what the old block format held are blocks (`LegacyAssumption`),
the rate limiter and the shutdown's clean-up have settings like the code's (a bucket
forgotten would be full again; revocations are kept longer than the daemon's own
tokens live), ratings are shares of one (the handler refuses others,
handlers/agents.go:97), the event list keeps at least one. Six theorems have a
hypothesis on behaviours or constants besides; each is explained below.

### Replicated entities

`OpLogProofs` has the lemmas on logs all of them use (`AppendOp`, `ClosedAdd`,
`CausalAdd`, `CausalImport`, `CausalSubset`, `CausalGrow`, `LastExists`, `LastOfLog`,
`ImportedClockBound`).

`TaskSyncProofs`:

* `TypeCorrect`, `HistoryIsCausal`: `TypeOK`, and the inductive invariant `CausalHistory`.
  `HappensBefore` alone is not inductive: a new operation is above those in its log
  only because the clock dominates the log, the clock dominates it after a merge only
  because every import is observed, and what a merge imports is ordered only because
  the snapshot's log is. A partly merged log can be marshalled, so the invariant also
  says that every prefix met on the way is closed under the dependencies `hb`.
* `CausalOrder`, `NoGaps`, `Deduplication`: `HappensBefore`, `CausallyClosed` and
  `NoDuplicates` follow from it.
* `AckedSurvives`: `AckedOnDisk`. The file is behind the memory, and a request past its
  first change has its operation in memory; a crash keeps the first because it makes
  the memory the file, the second because it ends the requests.
* `ViewHasLog`: `ViewSupported`, from a claim before every completion in a log.
* `TasksBroadcast`: `ImplementsBroadcast`. Each step is an `Issue`, a `Learn`, a restart or a
  stutter of `CausalBroadcast`; that an import brings only what is ready follows from
  `CausalHistory`.

`LabelSyncProofs`: `LogsSound` (`LabelLogs`) and `OnlyRevivedByRequest` (`RemovedStays`). To
add a label again drops its log while copies travel, so the history is kept of all
logs that ever were, and what is published is shown not to be removed.

`IssueSyncProofs`: decoding renumbers, so Lamport values say nothing; the invariant is
about IDs and positions. `IssuesSound` (`IssueSound`), `NeverReopened` (`ClosedStays`), and
`NothingLost` (`PublishedIsKept`) under the hypothesis that no daemon crashes: a new issue
is announced before any save and its labels though their save failed, and a daemon
that restarts without them takes back no snapshot of its own. The run that checks
`PublishedIsKept` has no crash either.

`PRSyncProofs`: `PRLogsSound` (`PRLogs`) and `ApprovedBeforeMerged` (`MergedWasApproved`) while
no log is longer than the compactor's limit (`Short`). Without that they are false:
`CompactLog` puts back what it read and drops what was added meanwhile, and it keeps one
status operation of several, whose dependencies others name. The invariant `Good`
speaks of all logs there are, those that a `Save` is about to write included, and
`Backed` says of each that a status comes after an approval: a new status operation
is made where the check was made, under one lock, and every other log is a decoded
copy or a merge, which imports a prefix of one. `MergedOnce` (`LandsOnce`) is about one
daemon, as its run is (with peers a replayed revert starts a second merge, see
section 3), compaction included: a merge that is under way (`Accounted`) shows in the
status, which no other step but its own revert and a crash takes back.
`CompactionHarmless` (`CompactionKeepsPR`) is about one daemon too: `CompactLog` keeps the
last operation of a kind by its position, a replay shows the last by Lamport value.
The invariant (`CompactInv`) says of every log, in memory, on file, in a save and where
the compactor has read it, that changes of the status stand in the order of their
Lamport values; renumbering, a compaction that lost operations and the clock it sets
keep that, an import from a peer would not. That the kept operations can be listed
in order (`ListExists`) is shown by the least bound on a set for which they cannot.

### Storage

`StorageProofs`, on references: `OneWinner` (`PushesSound`) and `ProtectedMovesOn`
(`ProtectedForward`). The checks of a push take no lock, so the invariant says
that what they found stays true
until the write: objects are only added, so a commit reached stays reached
(`PushHolds`); a commit is younger than its parents, so a branch that only checked
pushes moved is past every tip they moved it from, and no second push can find that
tip again (`WonForward`); and while a fork is made, what its references will name is
among the objects copied (`CopyComplete`). What a commit leads to is a recursive function,
whose defining equation needs a proof that the function exists (`WalkExists`): by the
least commit for which there is none, since induction is out of reach.

On objects: `NoHoleHolds` (`NoHole`) and `ServedWholeHolds` (`ServedWhole`), for every graph of
every size. Links go from an object to earlier ones (`GraphsLayered`). The model's
graphs, closures and walks are recursive functions, so first each is shown to exist,
and then what it yields, both by the least object, or the smallest set left to visit,
for which it fails: what an object leads to is the least set the links stay in
(`LeadsInto`, `LeadsOn`), and a walk adds to what was seen exactly what is reached past it
(`Explored`, from `EachExplores` through the loop to `VisitsExplore` through the recursion).
A depth-first walk skips what it saw on another branch, whose links may not have
been followed yet, so `Explored` speaks of what was found and not seen before; that the
order in which the loop goes makes no difference follows. The invariant (`TransferInv`)
is then that what the server has or was to have is closed under links, and that every
reference a client was told of names such an object: a pack is made of what those
references do not reach.

On content: `ContentKeptHolds` (`ContentKept`). A block that no fault has hit is in the
saved index, in the one in memory when the store is up, and its file is whole once
the index is of the new format (`SoundInv`); a writer's steps so far show in files and
index (`WriterInv`), and for LFS an upload about to enter its object has put the file
there (`LFSInv`). `AnswersCurrentHolds` (`AnswersCurrent`): the commit a search is about was
named since it began, and a kept index is whole or one of its files could not be
read, whoever built it (`SearchInv`).

### Access

`AccessProofs`: for tokens and rates one inductive invariant for types, clock and buckets
(`AccessInv`) and others on top of it; for each of the other parts one of its own.

* `RatesHold` (`RequestsBounded`): the requests an address got through since its i-th,
  with what its bucket holds, came out of a full bucket and what flowed in since
  (`Paced`); a bucket that was forgotten would have been full.
* `NoReplay` (`NonceOnce`): a nonce is remembered until its time has gone by.
* `NothingGained` (`Attenuated`): a chain of any length allows its last token's
  capabilities, by the least generation that would not (`ChainAllows`).
* `RevocationHolds` (`RevokedRefused`): once a revocation is sealed, every save under way
  and every file that may become the file has it. The clean-up at shutdown forgets
  revocations by their age, 48 hours, so the proof needs that no token lives longer
  (`ShortLived`; the daemon's live a day, but `Verify` limits nobody's) and that nobody
  revokes a token before it begins (`RevokesBegun`): otherwise a revoked token is
  accepted again after a restart. The tokens of the run all begin at the start and
  are short-lived, so TLC does not meet these cases; the proof did.
* `OneUserHolds` (`OneUser`): registrations look a name up outside the insertion, so two
  can find it free; the insertion's uniqueness decides (`UsersInv`), and who is logged in
  afterwards has made that account. Tokens are new, so what was logged out or found
  expired never names a session again (`SessionsInv`).
* `RemovedCannotWriteHolds` (`RemovedCannotWrite`) and `ReposKeptHolds` (`ReposKept`), from one
  invariant. A request that begins after its user's removal is marked (`late`,
  history) until the role is given back; roles change while it passes its checks, and
  what is marked finds no role it could pass with (`RightsInv`). Creation and deletion
  go through the registry's lock, and the repository they are about is not
  acknowledged then (`LockInv`), so the saves and failures of the others leave what is acknowledged in memory, file and directory
  (`StoreInv`).
* `KeysStayHolds` (`KeysStay`): a command writes back what it read and a fresh key, so
  unless commands overlapped it holds all the daemon ever signed with (`KeysHeld`);
  nobody else has the key that waits to be written (`KeysFresh`). A host key file that
  was filled is not written again, and nobody connects before (`HostKeyInv`).
* `StopWaitsHolds` (`StopWaits`): the wait group counts the accepting goroutine with the
  connections, so nobody can be accepted after its count has reached zero (`WaitInv`).

### Services

`ServicesProofs` has an inductive invariant for each part; a step of `Services` is one of a
part, or leaves it alone.

* `NoSendOnClosed` (`BroadcastsSafe`): who goes through the clients holds the lock for
  reading; a queue is closed under the lock for writing by whoever takes its client
  out, and the client never joins again.
* `RunsTellTrue` (`StatusTrue`): a failure ends the run at once.
* `WhatIsToldHolds` (`ObjectsTrue`): what is announced was pushed or stored, and what a
  synchronization without an error lacks is left to ask for or among its answers.
* `WebhooksHold` (`HooksKept`): a save holds the read lock, so its content is the memory as
  long as any save is under way; the file is current or the temporary file is, and
  then no rename was refused (`SavesAgree`).
* `AnswersHold` (`AnswersTrue`): for discussions and wiki, what was promised is in memory and
  in the file, and no later request takes it away (`Follows`: a discussion that replaces
  another says all it said; an edit is younger than all before it); for projects,
  boards are whole in memory and on file, and a card's board bears it (`Bears`) until
  the file was cut; for agents, a daemon has counted exactly its own attestations and of the
  others none that is still on its way to it (`RowSound`), so none counts twice.

### What is only model-checked

Liveness: `EventuallyAgree`, `HubServes` and `LoopsReturn`. The prover has no ENABLED, which
fairness needs. Every other property of a passing run is stated by a theorem. The
statements of the three violation runs are false of the code.

A theorem about `Spec` of `GitRepos` or `Access` holds of `Storage` and `Authority`, whose
behaviours are theirs as far as these variables go (`GitRuns`, `AccessRuns`).

## 5. Plan

What is left: the Solidity contracts, bounties and stakes, with conservation of funds
proved.

## 6. Not modelled

* Parsing and formatting, HTTP details, cryptography (signatures are assumed sound),
  git's encodings, SQL statements: the models have what they decide.
* libp2p, its DHT and GossipSub: assumptions of `Replica`, `Objects` and `Agents`.
* Programs the daemon starts (git over SSH, workflow scripts) and the YAML subset
  of workflows.
* The IPFS adapter: `Objects` pins; the HTTP calls to an IPFS daemon hold no state.
* The audit log, which nothing in the daemon writes; read-only handlers; the OAuth
  callback, a stub; the in-memory stores, which tests use.
* The clean-architecture layer forwards to the stores. Command-line clients besides
  clone, pull, push and the key commands, the SDK and deployment files are clients.
* The Solidity contracts: no Go code calls them; see the plan.
* `Access` takes the write of revocations.json.tmp as one step; what sharing a temporary
  file does is shown for webhooks, which share theirs in the same way.
