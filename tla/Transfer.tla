------------------------------ MODULE Transfer ------------------------------
(***************************************************************************)
(* How git objects get in and out of a repository (internal/git/smart.go,  *)
(* internal/api/handlers/smart_http.go and repos.go, storage/packfile.go,  *)
(* internal/cli/clone.go and push.go).  A git client asks for the          *)
(* references, then for what they reach or with a pack of what it has to   *)
(* push; gitant clone, pull and push do the same over the JSON API.  The   *)
(* objects are the nodes of a graph; the walks are those of the code, and  *)
(* what they should find is the transitive closure of the links.  The git  *)
(* client itself is external: it sends what the references it was told of  *)
(* do not reach, and refuses a fetch that leaves a hole.                   *)
(***************************************************************************)
EXTENDS Integers, Sequences, FiniteSets, FiniteSetsExt

CONSTANTS
  N,           \* bound: git objects in the world
  Ref,         \* names of references
  Client,      \* git clients
  MaxPushes,   \* bound: pushes
  MaxFetches,  \* bound: fetches
  MaxFaults    \* bound: packs that cannot be read, requests that fail

VARIABLES
  graph,       \* graph[o]: kind and links of object o, fixed by its content
  server,      \* the objects the repository of the daemon holds
  heads,       \* its references
  client,      \* client[c]: the objects of c
  told,        \* told[c]: the references InfoRefs told c of
  local, localRefs,  \* the repository gitant clone and gitant pull fill
  pushes, fetches, faults,
  answer,      \* the last answer of GitUploadPack, and what it was asked (history)
  dropped,     \* objects a push was about that the daemon did not get to keep (history)
  unfetched    \* objects a clone or a pull asked for in vain (history)

transferVars == <<graph, server, heads, client, told, local, localRefs, pushes, fetches,
                  faults, answer, dropped, unfetched>>

Object == 1..N
None == 0

\* The objects there can be beside those of g, links going to objects of g; a
\* blob or a tree may have no content at all.
Objects(g) ==
  LET of(kinds) == {o \in DOMAIN g : g[o].kind \in kinds}
      make(k, ls) == [kind : {k}, links : ls]
  IN make("blob", {{}}) \cup make("empty", {{}})
       \cup make("tree", SUBSET of({"blob", "empty", "tree"}) \ {{}})
       \cup make("commit", {{t} \cup ps : t \in of({"empty", "tree"}), ps \in SUBSET of({"commit"})})
       \cup make("tag", {{o} : o \in DOMAIN g})

\* All graphs of n objects, those without links first and the tags last.
Graphs[n \in 0 .. N] ==
  LET rank == [blob |-> 1, empty |-> 2, tree |-> 3, commit |-> 4, tag |-> 5]
      fits(g, o) == \A p \in DOMAIN g : rank[g[p].kind] <= rank[o.kind]
  IN IF n = 0 THEN {<<>>}
     ELSE UNION {{Append(g, o) : o \in {x \in Objects(g) : fits(g, x)}} : g \in Graphs[n - 1]}

Pointed == {o \in Object : graph[o].kind \in {"commit", "tag"}}

\* What o cannot do without.
Reach[o \in Object] == {o} \cup UNION {Reach[p] : p \in graph[o].links}
AllFrom(objects) == UNION {Reach[o] : o \in objects}

\* Nothing can happen to an object that no commit or tag reaches: a blob will do.
TransferInit ==
  /\ graph \in {g \in Graphs[N] : \E o \in Object : g[o].kind = "commit"}
  /\ \A o \in Object \ AllFrom(Pointed) : graph[o].kind = "blob"
  /\ server = {} /\ heads = [r \in Ref |-> None]
  /\ client = [c \in Client |-> {}] /\ told = [c \in Client |-> [r \in Ref |-> None]]
  /\ local = {} /\ localRefs = [r \in Ref |-> None]
  /\ pushes = 0 /\ fetches = 0 /\ faults = 0
  /\ answer = [wants |-> {}, haves |-> {}, held |-> {}, pack |-> {}]
  /\ dropped = {} /\ unfetched = {}

Fails == faults < MaxFaults /\ faults' = faults + 1
Named(refs) == {refs[r] : r \in Ref} \ {None}
Empty == {o \in Object : graph[o].kind = "empty"}
-----------------------------------------------------------------------------
\* Repository.GetObject: one Read, which answers EOF where there is no content.
Readable(o) == o \in server \ Empty

\* What collectReachableObjects goes on to: the tree and parent lines of a commit
\* and the entries of a tree; nothing behind a tag.
Referred(o) == IF Readable(o) /\ graph[o].kind # "tag" THEN graph[o].links ELSE {}

\* The loop of a walk: visit goes to one of the objects after another, past what
\* has been seen by then.
Each(visit, seen, objects) == FoldSet(LAMBDA o, s : visit[o][s], seen, objects)

\* collectReachableObjects: the walk from o, past what is in seen.
Walk[o \in Object] ==
  [seen \in SUBSET Object |->
     IF o \in seen THEN seen ELSE Each(Walk, seen \cup {o}, Referred(o))]

WalkAll(objects, seen) == Each(Walk, seen, objects)

\* Mutant of CollectForWants: only the objects the client names are left out.
CollectNamed(wants, haves) == WalkAll(wants \ haves, haves) \ haves

\* collectObjectsForWants.
CollectForWants(wants, haves) ==
  LET known == WalkAll(haves, {}) IN WalkAll(wants \ known, known) \ known

\* generatePackfile, through PackfileWriter: what cannot be read is left out.
GeneratePackfile(objects) == {o \in objects : Readable(o)}

\* Mutant of Ingest: the tags of a pack are not kept.
IngestUntagged(pack) == server' = server \cup {o \in pack \ Empty : graph[o].kind # "tag"}

\* ingestPackfile and ReadPackfile, which skips what it reads nothing of.
Ingest(pack) == server' = server \cup (pack \ Empty)
-----------------------------------------------------------------------------
\* InfoRefs, to a client that is about to fetch or to push.
InfoRefs(c) ==
  /\ told[c] # heads
  /\ told' = [told EXCEPT ![c] = heads]
  /\ UNCHANGED <<graph, server, heads, client, local, localRefs, pushes, fetches, faults, answer,
                 dropped, unfetched>>

\* The pack a git client makes: what the references it was told of do not reach.
PackToPush(c, o) == Reach[o] \ AllFrom(Named(told[c]) \cap client[c])

\* GitReceivePack, when the client has written o.  A pack that cannot be read,
\* such as one whose deltas refer to objects that are not in it, is logged; the
\* references are updated all the same.
GitReceivePack(c, r, o, parsed) ==
  /\ o \in Pointed /\ pushes < MaxPushes /\ pushes' = pushes + 1
  /\ client' = [client EXCEPT ![c] = @ \cup Reach[o]]
  /\ IF parsed THEN faults' = faults /\ Ingest(PackToPush(c, o)) ELSE Fails /\ server' = server
  /\ dropped' = dropped \cup (IF parsed THEN PackToPush(c, o) \cap Empty ELSE PackToPush(c, o))
  /\ heads' = IF heads[r] = told[c][r] THEN [heads EXCEPT ![r] = o] ELSE heads
  /\ UNCHANGED <<graph, told, local, localRefs, fetches, answer, unfetched>>

\* GitUploadPack, to a client that lacks something of what it was told of.
GitUploadPack(c, haves) ==
  LET wants == Named(told[c]) \ client[c]
      pack == GeneratePackfile(CollectForWants(wants, haves))
      got == client[c] \cup pack
  IN
  /\ wants # {} /\ haves \subseteq client[c] \cap Pointed
  /\ fetches < MaxFetches /\ fetches' = fetches + 1
  /\ answer' = [wants |-> wants, haves |-> haves, held |-> server, pack |-> pack]
  /\ client' = [client EXCEPT ![c] = IF AllFrom(wants) \subseteq got THEN got ELSE @]
  /\ UNCHANGED <<graph, server, heads, told, local, localRefs, pushes, faults, dropped, unfetched>>
-----------------------------------------------------------------------------
\* collectObjects of gitant push: the walk starts from commits made of nothing but
\* a hash, whose tree and parents it does not know.
CollectObjects(o) == {o}

\* createPackfile: an annotated tag goes as a commit, which is another object.
CreatePackfile(objects) == {o \in objects : graph[o].kind = "commit"}

\* PushPackfile: the pack is kept and the reference made; one that exists is
\* refused, as gitant push names no old value.
PushPackfile(pack, r, o) ==
  /\ Ingest(pack)
  /\ heads' = IF heads[r] = None THEN [heads EXCEPT ![r] = o] ELSE heads

\* Push of gitant, from some repository that has o.
GitantPush(r, o) ==
  LET pack == CreatePackfile(CollectObjects(o)) IN
  /\ o \in Pointed /\ pushes < MaxPushes /\ pushes' = pushes + 1
  /\ PushPackfile(pack, r, o)
  /\ dropped' = dropped \cup (Reach[o] \ pack)
  /\ UNCHANGED <<graph, client, told, local, localRefs, fetches, faults, answer, unfetched>>

\* The references that CloneRepo answers, and whether GetObject answers with o when
\* the requests for the objects of lost fail.
CloneRepo == Named(heads)
GetObject(o, lost) == Readable(o) /\ o \notin lost

\* Mutant of FetchRecursive: off by one, the last entry of a tree is missed.
FetchButLast(lost) ==
  LET Fetch[o \in Object] ==
        [seen \in SUBSET Object |->
           IF o \in seen THEN seen
           ELSE Each(Fetch, seen \cup {o},
                     {p \in Referred(o) : GetObject(o, lost) /\
                        (graph[o].kind = "tree" => \E q \in Referred(o) : q > p)})]
  IN Each(Fetch, {}, CloneRepo)

\* fetchObjectRecursive for each reference: what is asked for, each object once.
FetchRecursive(lost) ==
  LET Fetch[o \in Object] ==
        [seen \in SUBSET Object |->
           IF o \in seen THEN seen
           ELSE Each(Fetch, seen \cup {o}, IF GetObject(o, lost) THEN Referred(o) ELSE {})]
  IN Each(Fetch, {}, CloneRepo)

\* Pull: the references are set whatever became of the objects.
Pull(lost) ==
  LET asked == FetchRecursive(lost)
      got == {o \in asked : GetObject(o, lost)}
  IN
  /\ CloneRepo # {} /\ fetches < MaxFetches /\ fetches' = fetches + 1
  /\ IF lost = {} THEN faults' = faults ELSE Fails
  /\ local' = local \cup got
  /\ localRefs' = [r \in Ref |-> IF heads[r] = None THEN localRefs[r] ELSE heads[r]]
  /\ unfetched' = unfetched \cup (asked \ got)
  /\ UNCHANGED <<graph, server, heads, client, told, pushes, answer, dropped>>

\* Clone: the same, into a repository that is not there yet.
Clone(lost) == Named(localRefs) = {} /\ Pull(lost)

TransferNext ==
  \/ \E c \in Client :
       \/ InfoRefs(c)
       \/ \E r \in Ref, o \in Object, parsed \in BOOLEAN : GitReceivePack(c, r, o, parsed)
       \/ \E haves \in SUBSET Object : GitUploadPack(c, haves)
  \/ \E r \in Ref, o \in Object : GitantPush(r, o)
  \/ \E lost \in SUBSET Object : Cardinality(lost) <= 1 /\ (Clone(lost) \/ Pull(lost))

TransferSpec == TransferInit /\ [][TransferNext]_transferVars
-----------------------------------------------------------------------------
\* Whatever a reference or an object of the repository leads to is in it too,
\* except what a push was about and the daemon did not get to keep: blobs of no
\* content, packs it could not read, and all that gitant push leaves out.  Clients
\* that push from stale references, and pushes refused, leave no other hole.
NoHole ==
  Named(heads) \cup UNION {graph[o].links : o \in server} \subseteq server \cup dropped

\* The answer of GitUploadPack is what the wants reach and the haves do not, no
\* object missing and none sent twice, where no tag, no unreadable object and no
\* hole is in the way.
PackExact ==
  LET held == answer.held
      plain(objects) == \A o \in AllFrom(objects) : o \in held \ Empty /\ graph[o].kind # "tag"
  IN /\ answer.pack \subseteq AllFrom(answer.wants)
     /\ plain(answer.wants) => AllFrom(answer.wants) \subseteq answer.pack \cup AllFrom(answer.haves)
     /\ plain(answer.haves) => answer.pack \cap AllFrom(answer.haves) = {}

\* A repository filled by clone and pull has a hole only where a request failed.
PulledWhole ==
  Named(localRefs) \cup UNION {graph[o].links : o \in {p \in local : graph[p].kind # "tag"}}
    \subseteq local \cup unfetched
=============================================================================
