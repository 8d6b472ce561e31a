----------------------------- MODULE Blockstore -----------------------------
(***************************************************************************)
(* The store of blocks (internal/storage/blockstore.go): a file per block, *)
(* written in place, and an index, written to a temporary file and renamed *)
(* (persistence.SaveJSON).  A writer holds the lock from its first file to *)
(* the index.  Load turns the format in which the index held the blocks    *)
(* themselves into the present one.                                        *)
(***************************************************************************)
EXTENDS Integers, FiniteSets

CONSTANTS
  Block,      \* blocks, which are named by their content
  Legacy,     \* those an index of the old format holds
  MaxWrites,  \* bound: calls of Put, PutAll and Delete
  MaxFaults   \* bound: writes that fail, crashes

VARIABLES
  file,       \* file[b]: "none", "cut" or "whole"
  index,      \* the index in memory
  saved,      \* the index on disk, and whether it is of the old format
  writer,     \* what the holder of the lock is at: its operation, the blocks of it,
              \* those still to be written, and at most one whose file is open
  up,         \* the store has been loaded
  writes, faults,
  acked,      \* blocks put, and not deleted since, as far as callers know (history)
  torn,       \* blocks whose file a fault left unfinished (history)
  abandoned   \* blocks of the old format that a failing Load left out (history)

blockVars == <<file, index, saved, writer, up, writes, faults, acked, torn, abandoned>>

Free == [op |-> "none", blocks |-> {}, todo |-> {}, open |-> {}]

BlocksInit ==
  /\ file = [b \in Block |-> "none"] /\ index = {}
  /\ saved = [old |-> Legacy # {}, blocks |-> Legacy]
  /\ writer = Free /\ up = FALSE /\ writes = 0 /\ faults = 0
  /\ acked = Legacy /\ torn = {} /\ abandoned = {}

Fails == faults < MaxFaults /\ faults' = faults + 1
Begin(op, blocks) == writer' = [op |-> op, blocks |-> blocks, todo |-> blocks, open |-> {}]
-----------------------------------------------------------------------------
\* Load: an index of the present format is taken as it is; the blocks of the old
\* one are written to their files first.
Load ==
  /\ ~up /\ writer = Free
  /\ IF saved.old THEN Begin("load", saved.blocks) /\ UNCHANGED <<index, up>>
     ELSE writer' = writer /\ index' = saved.blocks /\ up' = TRUE
  /\ UNCHANGED <<file, saved, writes, faults, acked, torn, abandoned>>

\* Put and PutAll, once they have the lock.
Put(blocks) ==
  /\ up /\ writer = Free /\ blocks # {} /\ writes < MaxWrites /\ writes' = writes + 1
  /\ Begin("put", blocks)
  /\ UNCHANGED <<file, index, saved, up, faults, acked, torn, abandoned>>

\* os.WriteFile empties the file ...
OpenFile(b) ==
  /\ b \in writer.todo /\ writer.open = {}
  /\ file' = [file EXCEPT ![b] = "cut"]
  /\ writer' = [writer EXCEPT !.open = {b}]
  /\ UNCHANGED <<index, saved, up, writes, faults, acked, torn, abandoned>>

\* ... and fills it, and the block is named in the index.
FillFile ==
  /\ writer.open # {}
  /\ file' = [b \in Block |-> IF b \in writer.open THEN "whole" ELSE file[b]]
  /\ index' = index \cup writer.open
  /\ writer' = [writer EXCEPT !.todo = @ \ writer.open, !.open = {}]
  /\ UNCHANGED <<saved, up, writes, faults, acked, torn, abandoned>>

\* Mutant of SaveIndex: a put leaves the index for Save to write.
SaveIndexLater ==
  /\ writer # Free /\ writer.todo = {}
  /\ saved' = IF writer.op = "put" THEN saved ELSE [old |-> FALSE, blocks |-> index]
  /\ acked' = IF writer.op = "put" THEN acked \cup writer.blocks ELSE acked
  /\ up' = TRUE /\ writer' = Free
  /\ UNCHANGED <<file, index, writes, faults, torn, abandoned>>

\* saveIndex ends the operation.
SaveIndex ==
  /\ writer # Free /\ writer.todo = {}
  /\ saved' = [old |-> FALSE, blocks |-> index]
  /\ acked' = IF writer.op = "put" THEN acked \cup writer.blocks ELSE acked
  /\ up' = TRUE /\ writer' = Free
  /\ UNCHANGED <<file, index, writes, faults, torn, abandoned>>

\* A file or the index cannot be written: the error is the answer, what has been
\* done in memory stays.  serve goes on after a Load that fails.
Fail ==
  /\ Fails /\ writer # Free
  /\ writer.open # {} \/ writer.todo = {}
  /\ torn' = torn \cup writer.open
  /\ abandoned' = IF writer.op = "load" THEN abandoned \cup writer.todo ELSE abandoned
  /\ up' = TRUE /\ writer' = Free
  /\ UNCHANGED <<file, index, saved, writes, acked>>

\* Delete: the entry and the file go, and then the index is saved.
Delete(b) ==
  /\ up /\ writer = Free /\ writes < MaxWrites /\ writes' = writes + 1
  /\ index' = index \ {b}
  /\ file' = [file EXCEPT ![b] = "none"]
  /\ acked' = acked \ {b}
  /\ Begin("delete", {})
  /\ UNCHANGED <<saved, up, faults, torn, abandoned>>

Crash ==
  /\ Fails
  /\ torn' = torn \cup writer.open
  /\ index' = {} /\ up' = FALSE /\ writer' = Free
  /\ UNCHANGED <<file, saved, writes, acked, abandoned>>

BlocksNext ==
  \/ Load \/ FillFile \/ SaveIndex \/ Fail \/ Crash
  \/ \E blocks \in SUBSET Block : Put(blocks)
  \/ \E b \in Block : OpenFile(b) \/ Delete(b)

BlocksSpec == BlocksInit /\ [][BlocksNext]_blockVars
-----------------------------------------------------------------------------
\* What Get answers with once its caller has the block's name.
Get(b) == IF b \in index THEN file[b] ELSE "none"

\* A block that was put, or that the old format held, can be read back as soon as
\* the store is loaded, through failed writes, crashes and a migration begun again:
\* only a fault while its own file was written, or a migration given up, loses it.
AckedKept ==
  up /\ writer = Free => \A b \in acked \ (torn \cup abandoned) : Get(b) = "whole"
=============================================================================
