-------------------------------- MODULE Wiki --------------------------------
(***************************************************************************)
(* The wiki of one repository: internal/wiki/store.go, with its handlers   *)
(* in internal/api/handlers/wiki.go.  Pages are looked up by slug, and     *)
(* nothing keeps two pages from having the same: the first one is found.   *)
(***************************************************************************)
EXTENDS Integers, Sequences, SequencesExt

CONSTANTS
  Slug,
  MaxPages,   \* bound: pages ever made
  MaxEdits,   \* bound: edits ever made
  MaxFaults   \* bound: failed saves and crashes

VARIABLES
  pages,      \* the pages in their order: [id, slug, edit]
  file,       \* the same in wiki.json
  made, edits, faults,
  kept        \* acknowledged pages and edits: [id, edit] (history)

wikiVars == <<pages, file, made, edits, faults, kept>>

WikiInit ==
  /\ pages = <<>> /\ file = <<>> /\ made = 0 /\ edits = 0 /\ faults = 0
  /\ kept = {}

\* Mutant of SaveLocked: a failed write of the copy empties the file.
SaveInPlace(ok) ==
  \/ ok /\ file' = pages' /\ faults' = faults
  \/ ~ok /\ faults < MaxFaults /\ faults' = faults + 1 /\ file' = <<>>

\* Store.saveLocked, through persistence.SaveJSON: all or nothing.
SaveLocked(ok) ==
  \/ ok /\ file' = pages' /\ faults' = faults
  \/ ~ok /\ faults < MaxFaults /\ faults' = faults + 1 /\ file' = file

Keep(ok, page) == kept' = IF ok THEN kept \cup {[id |-> page.id, edit |-> page.edit]} ELSE kept

\* The page that Store.Get finds.
IsFirst(i, slug) == pages[i].slug = slug /\ \A j \in 1 .. i - 1 : pages[j].slug # slug

\* Store.Create, for CreatePage.
Create(slug, ok) ==
  LET page == [id |-> made + 1, slug |-> slug, edit |-> 0] IN
  /\ made < MaxPages /\ made' = made + 1
  /\ pages' = Append(pages, page)
  /\ SaveLocked(ok) /\ Keep(ok, page)
  /\ edits' = edits

\* Store.Update, for UpdatePage.
Update(slug, ok) ==
  /\ edits < MaxEdits /\ edits' = edits + 1
  /\ \E i \in DOMAIN pages :
       /\ IsFirst(i, slug)
       /\ pages' = [pages EXCEPT ![i].edit = edits']
       /\ SaveLocked(ok) /\ Keep(ok, pages'[i])
  /\ made' = made

\* Store.Delete, for DeletePage; a page behind it comes to light.
Delete(slug, ok) ==
  /\ \E i \in DOMAIN pages :
       /\ IsFirst(i, slug)
       /\ pages' = RemoveAt(pages, i)
       /\ SaveLocked(ok)
       /\ kept' = {k \in kept : k.id # pages[i].id}
  /\ UNCHANGED <<made, edits>>

Crash ==
  /\ faults < MaxFaults /\ faults' = faults + 1
  /\ pages' = file
  /\ UNCHANGED <<file, made, edits, kept>>

WikiNext ==
  \/ \E slug \in Slug, ok \in BOOLEAN : Create(slug, ok) \/ Update(slug, ok) \/ Delete(slug, ok)
  \/ Crash

WikiSpec == WikiInit /\ [][WikiNext]_wikiVars
-----------------------------------------------------------------------------
\* A page or an edit that was acknowledged is in memory and in the file, or a
\* later edit in its place, until the page is deleted: whichever page of its
\* slug is edited or deleted, and through failed saves and crashes.
PagesKept ==
  \A k \in kept : \A S \in {ToSet(pages), ToSet(file)} :
    \E p \in S : p.id = k.id /\ p.edit >= k.edit
=============================================================================
