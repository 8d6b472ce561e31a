------------------------------ MODULE Projects ------------------------------
(***************************************************************************)
(* The project boards of one repository: internal/projects/store.go, with  *)
(* its handlers in internal/api/handlers/projects.go.  Operations run      *)
(* under the store's lock, but the file is written in place: a write that  *)
(* is cut short leaves a file that the next start cannot read, and the     *)
(* daemon then begins with no boards at all.                               *)
(***************************************************************************)
EXTENDS Integers, FiniteSets

CONSTANTS
  Column,     \* the columns of every board
  Elsewhere,  \* a column no board has
  MaxMade,    \* bound: boards and cards ever made
  MaxFaults   \* bound: writes that fail or are cut short, and crashes

VARIABLES
  boards,     \* [id, cards]: cards[c] are the cards in column c
  file,       \* the same in projects.json, or Torn
  made, faults,
  cut,        \* a write has been cut short (history)
  placed      \* cards of acknowledged requests: [board, card, column] (history)

projectVars == <<boards, file, made, faults, cut, placed>>

Torn == {[id |-> 0, cards |-> <<>>]}

ProjectsInit ==
  /\ boards = {} /\ file = {} /\ made = 0 /\ faults = 0
  /\ cut = FALSE /\ placed = {}

Fault == faults < MaxFaults /\ faults' = faults + 1

\* Mutant of Save: what is written was copied before the change.
SaveStale(how) ==
  \/ how = "ok" /\ file' = boards /\ UNCHANGED <<faults, cut>>
  \/ how = "refused" /\ Fault /\ UNCHANGED <<file, cut>>
  \/ how = "cut" /\ Fault /\ file' = Torn /\ cut' = TRUE

\* Store.Save: os.WriteFile empties the file before it writes.
Save(how) ==
  \/ how = "ok" /\ file' = boards' /\ UNCHANGED <<faults, cut>>
  \/ how = "refused" /\ Fault /\ UNCHANGED <<file, cut>>
  \/ how = "cut" /\ Fault /\ file' = Torn /\ cut' = TRUE

Outcome == {"ok", "refused", "cut"}

Put(b, cards) == boards' = (boards \ {b}) \cup {[b EXCEPT !.cards = cards]}

\* An acknowledged request: the card is in this column from now on.
Place(how, b, card, column) ==
  placed' = IF how # "ok" THEN placed
            ELSE {p \in placed : p.card # card} \cup
                   {[board |-> b.id, card |-> card, column |-> column]}
-----------------------------------------------------------------------------
\* Store.Create, for CreateProject.
Create(how) ==
  /\ made < MaxMade /\ made' = made + 1
  /\ boards' = boards \cup {[id |-> made', cards |-> [c \in Column |-> {}]]}
  /\ Save(how)
  /\ placed' = placed

\* Store.AddCard.
AddCard(b, c, how) ==
  /\ made < MaxMade /\ made' = made + 1
  /\ Put(b, [b.cards EXCEPT ![c] = @ \cup {made'}])
  /\ Save(how)
  /\ Place(how, b, made', c)

Removed(b, card) == [c \in Column |-> b.cards[c] \ {card}]
CardsOf(b) == UNION {b.cards[c] : c \in Column}

\* Mutant of MoveCard: the card is also left where it was.
MoveCopy(b, card, target, how) ==
  /\ card \in CardsOf(b) /\ target \in Column
  /\ Put(b, [b.cards EXCEPT ![target] = @ \cup {card}])
  /\ Save(how) /\ Place(how, b, card, target)
  /\ made' = made

\* Store.MoveCard takes the card out and then looks for the target: if the
\* board has no such column the request fails and the card is gone, though not
\* from the file.
MoveCard(b, card, target, how) ==
  /\ card \in CardsOf(b)
  /\ IF target \in Column
     THEN /\ Put(b, [Removed(b, card) EXCEPT ![target] = @ \cup {card}])
          /\ Save(how) /\ Place(how, b, card, target)
     ELSE /\ how = "ok"
          /\ Put(b, Removed(b, card))
          /\ placed' = {p \in placed : p.card # card}
          /\ UNCHANGED <<file, faults, cut>>
  /\ made' = made

\* Store.DeleteCard.  Whatever the answer, nothing is promised of the card.
DeleteCard(b, card, how) ==
  /\ card \in CardsOf(b)
  /\ Put(b, Removed(b, card))
  /\ Save(how)
  /\ placed' = {p \in placed : p.card # card}
  /\ made' = made

\* Store.Delete, for DeleteProject.
Delete(b, how) ==
  /\ boards' = boards \ {b}
  /\ Save(how)
  /\ placed' = {p \in placed : p.board # b.id}
  /\ made' = made

\* Store.Load, whose error the server only logs.
Load == IF file = Torn THEN {} ELSE file

Crash ==
  /\ Fault
  /\ boards' = Load
  /\ UNCHANGED <<file, made, cut, placed>>

ProjectsNext ==
  \/ \E how \in Outcome :
       \/ Create(how)
       \/ \E b \in boards :
            \/ Delete(b, how)
            \/ \E c \in Column : AddCard(b, c, how)
            \/ \E card \in CardsOf(b) :
                 \/ DeleteCard(b, card, how)
                 \/ \E c \in Column \cup {Elsewhere} : MoveCard(b, card, c, how)
  \/ Crash

ProjectsSpec == ProjectsInit /\ [][ProjectsNext]_projectVars
-----------------------------------------------------------------------------
\* A card is in one column of one board, in memory and in a file that is whole,
\* through moves, failed saves and crashes.
OneColumn ==
  \A S \in {boards, file} \ {Torn} : \A a, b \in S : \A c, d \in Column :
    a.cards[c] \cap b.cards[d] # {} => a = b /\ c = d

\* While no write was cut short: a card is on its board, in memory and in the
\* file, from the request that was acknowledged for it until it is deleted or
\* a move of it is refused; and where no save failed, in the column of the last
\* such request.
PlacedStays ==
  ~cut => \A p \in placed : \A S \in {boards, file} :
    \E b \in S :
      /\ b.id = p.board /\ p.card \in CardsOf(b)
      /\ faults = 0 => p.card \in b.cards[p.column]
=============================================================================
