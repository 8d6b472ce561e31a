------------------------------ MODULE Storage ------------------------------
(***************************************************************************)
(* What a daemon stores: the references of GitRepos, the objects Transfer  *)
(* brings and takes, the Blockstore, the LFS store and the Search index.   *)
(* A behaviour runs one of them, named by part, while the others rest.     *)
(***************************************************************************)
EXTENDS GitRepos

CONSTANTS
  N, Ref, Client, MaxPushes, MaxFetches, TransferFaults,  \* see Transfer
  Block, Legacy, MaxWrites, BlockFaults,                  \* see Blockstore
  OID, MaxUploads, LargeFaults,                           \* see LFS
  Revision, Query, MaxMoves, SearchFaults                 \* see Search

ASSUME ObjectsAssumption == N \in Nat
ASSUME LegacyAssumption == Legacy \subseteq Block

VARIABLES
  part,
  graph, server, heads, client, told, local, localRefs, gitPushes, fetches, gitFaults,
  answer, dropped, unfetched,
  blockFile, index, saved, writer, up, writes, blockFaults, acked, torn, abandoned,
  tmp, final, large, upload, uploads, largeFaults,
  branch, cached, request, searchPushes, searchFaults, named, broken

transferVars == <<graph, server, heads, client, told, local, localRefs, gitPushes, fetches,
                  gitFaults, answer, dropped, unfetched>>
blockVars == <<blockFile, index, saved, writer, up, writes, blockFaults, acked, torn, abandoned>>
lfsVars == <<tmp, final, large, upload, uploads, largeFaults>>
searchVars == <<branch, cached, request, searchPushes, searchFaults, named, broken>>
partVars == <<part, gitVars, transferVars, blockVars, lfsVars, searchVars>>

Transfer == INSTANCE Transfer WITH
  MaxFaults <- TransferFaults, pushes <- gitPushes, faults <- gitFaults

Blocks == INSTANCE Blockstore WITH
  MaxFaults <- BlockFaults, file <- blockFile, faults <- blockFaults

LFS == INSTANCE LFS WITH
  MaxFaults <- LargeFaults, objects <- large, faults <- largeFaults

Search == INSTANCE Search WITH
  Commit <- Revision, MaxPushes <- MaxMoves, MaxFaults <- SearchFaults,
  pushes <- searchPushes, faults <- searchFaults

\* A graph for the behaviours in which Transfer rests: the last object is a commit
\* of the tree before it, which is empty.
Resting(o) == IF o = N THEN "commit" ELSE IF o = N - 1 THEN "empty" ELSE "blob"

PartsInit ==
  /\ part \in {"refs", "transfer", "blocks", "lfs", "search"}
  /\ Init /\ Transfer!TransferInit /\ Blocks!BlocksInit /\ LFS!LFSInit /\ Search!SearchInit
  /\ part # "transfer" => \A o \in 1 .. N : graph[o].kind = Resting(o)

PartsNext ==
  /\ UNCHANGED part
  /\ IF part = "refs" THEN Next ELSE UNCHANGED gitVars
  /\ IF part = "transfer" THEN Transfer!TransferNext ELSE UNCHANGED transferVars
  /\ IF part = "blocks" THEN Blocks!BlocksNext ELSE UNCHANGED blockVars
  /\ IF part = "lfs" THEN LFS!LFSNext ELSE UNCHANGED lfsVars
  /\ IF part = "search" THEN Search!SearchNext ELSE UNCHANGED searchVars

PartsSpec == PartsInit /\ [][PartsNext]_partVars
-----------------------------------------------------------------------------
\* Transfer: a repository has what its references and objects lead to, but for
\* what a push was about and the daemon could not keep.
NoHole == Transfer!NoHole

\* Transfer: GitUploadPack sends what is wanted and not had, all of it, once; and
\* clone and pull leave holes only where a request failed.
ServedWhole == Transfer!PackExact /\ Transfer!PulledWhole

\* Blockstore: an acknowledged block can be read back after faults and crashes
\* that did not hit its own file.  LFS: what can be downloaded is the content
\* that its name stands for.
ContentKept == Blocks!AckedKept /\ LFS!NamesTrue

\* Search: answers come from a commit the branch named during the search.
AnswersCurrent == Search!AnswersCurrent
=============================================================================
