---------------------------- MODULE Discussions ----------------------------
(***************************************************************************)
(* Discussions of one repository: internal/discussions/store.go, with its  *)
(* handlers in internal/api/handlers/discussions.go.  Every operation      *)
(* changes the memory and saves it under the store's lock; a save that     *)
(* fails leaves the change in memory and answers an error.  A reader gets  *)
(* the discussion itself, and the handler encodes it without the lock.     *)
(***************************************************************************)
EXTENDS Integers, FiniteSets

CONSTANTS
  MaxPosts,   \* bound: discussions and answers ever made
  MaxVotes,   \* bound: upvotes of a discussion
  MaxReads,   \* bound: readers at the same time
  MaxFaults   \* bound: failed saves and crashes

VARIABLES
  threads,    \* the discussions: [id, status, answers, accepted, votes]
  file,       \* the same in discussions.json
  posts,      \* discussions and answers ever made
  faults,
  readers,    \* answers to readers being encoded
  promised    \* what was answered with success and holds since (history)

discussionVars == <<threads, file, posts, faults, readers, promised>>

DiscussionsInit ==
  /\ threads = {} /\ file = {} /\ posts = 0 /\ faults = 0 /\ readers = {}
  /\ promised = {}

\* Mutant of SaveLocked: the file is only written when nobody reads.
SaveQuiet(ok) ==
  IF ok THEN faults' = faults /\ file' = IF readers = {} THEN threads' ELSE file
  ELSE faults < MaxFaults /\ faults' = faults + 1 /\ file' = file

\* Store.saveLocked.
SaveLocked(ok) ==
  IF ok THEN faults' = faults /\ file' = threads'
  ELSE faults < MaxFaults /\ faults' = faults + 1 /\ file' = file

\* The answer of the handler: success means that what it is about is kept.
Promise(ok, fact) == promised' = IF ok THEN promised \cup {fact} ELSE promised

Fact(kind, thread, n) == [kind |-> kind, thread |-> thread, n |-> n]

\* A change of discussion t, which readers that hold it see as well.
Put(t, new) ==
  /\ threads' = (threads \ {t}) \cup {new}
  /\ readers' = {IF r.held = t THEN [r EXCEPT !.held = new] ELSE r : r \in readers}
-----------------------------------------------------------------------------
\* Store.Create, for CreateDiscussion.
Create(ok) ==
  /\ posts < MaxPosts /\ posts' = posts + 1
  /\ threads' = threads \cup
       {[id |-> posts', status |-> "open", answers |-> {}, accepted |-> {}, votes |-> 0]}
  /\ SaveLocked(ok)
  /\ Promise(ok, Fact("thread", posts', 0))
  /\ readers' = readers

\* Store.AddAnswer.
AddAnswer(t, ok) ==
  /\ posts < MaxPosts /\ posts' = posts + 1
  /\ Put(t, [t EXCEPT !.answers = @ \cup {posts'}])
  /\ SaveLocked(ok)
  /\ Promise(ok, Fact("answer", t.id, posts'))

\* Mutant of AcceptAnswer: accepting twice takes it back.
AcceptToggle(t, a, ok) ==
  /\ a \in t.answers
  /\ Put(t, [t EXCEPT !.accepted = (@ \cup {a}) \ (@ \cap {a}), !.status = "answered"])
  /\ SaveLocked(ok)
  /\ Promise(ok /\ a \notin t.accepted, Fact("accepted", t.id, a))
  /\ posts' = posts

\* Store.AcceptAnswer: the answer's flag, then the status.  An answer that was
\* accepted before stays accepted.
AcceptAnswer(t, a, ok) ==
  /\ a \in t.answers
  /\ Put(t, [t EXCEPT !.accepted = @ \cup {a}, !.status = "answered"])
  /\ SaveLocked(ok)
  /\ Promise(ok, Fact("accepted", t.id, a))
  /\ posts' = posts

\* Store.Upvote.
Upvote(t, ok) ==
  /\ t.votes < MaxVotes
  /\ Put(t, [t EXCEPT !.votes = @ + 1])
  /\ SaveLocked(ok)
  /\ Promise(ok, Fact("votes", t.id, t.votes + 1))
  /\ posts' = posts

\* Store.Delete.  Nothing is promised of the discussion any more, whether or
\* not the save succeeds.
Delete(t, ok) ==
  /\ threads' = threads \ {t}
  /\ SaveLocked(ok)
  /\ promised' = {f \in promised : f.thread # t.id}
  /\ UNCHANGED <<posts, readers>>
-----------------------------------------------------------------------------
\* Store.Get hands out the discussion itself ...
Get(t) ==
  /\ Cardinality(readers) < MaxReads
  /\ readers' = readers \cup {[held |-> t, status |-> "unread"]}
  /\ UNCHANGED <<threads, file, posts, faults, promised>>

\* ... and GetDiscussion encodes it field by field: the status, of which a read
\* that races with AcceptAnswer may get the length of one and the bytes of the
\* other, ...
EncodeStatus(r) ==
  /\ r.status = "unread"
  /\ \E s \in {r.held.status} \cup (IF r.held.accepted # {} THEN {"torn"} ELSE {}) :
       readers' = (readers \ {r}) \cup {[r EXCEPT !.status = s]}
  /\ UNCHANGED <<threads, file, posts, faults, promised>>

\* ... and then the answers.
EncodeAnswers(r) ==
  /\ r.status # "unread"
  /\ readers' = readers \ {r}
  /\ UNCHANGED <<threads, file, posts, faults, promised>>

\* A crash; Store.Load reads what the last save wrote.
Crash ==
  /\ faults < MaxFaults /\ faults' = faults + 1
  /\ threads' = file /\ readers' = {}
  /\ UNCHANGED <<file, posts, promised>>

DiscussionsNext ==
  \/ \E ok \in BOOLEAN :
       \/ Create(ok)
       \/ \E t \in threads :
            \/ AddAnswer(t, ok) \/ Upvote(t, ok) \/ Delete(t, ok)
            \/ \E a \in t.answers : AcceptAnswer(t, a, ok)
  \/ \E t \in threads : Get(t)
  \/ \E r \in readers : EncodeStatus(r) \/ EncodeAnswers(r)
  \/ Crash

DiscussionsSpec == DiscussionsInit /\ [][DiscussionsNext]_discussionVars
-----------------------------------------------------------------------------
Holds(f, T) ==
  \E t \in T :
    /\ t.id = f.thread
    /\ f.kind = "answer" => f.n \in t.answers
    /\ f.kind = "accepted" => f.n \in t.accepted
    /\ f.kind = "votes" => t.votes >= f.n

\* What was answered with success, in memory and in the file, holds until the
\* discussion is deleted: through crashes and the failed saves of others.
PromisesKept == \A f \in promised : Holds(f, threads) /\ Holds(f, file)

\* A page that shows a discussion as answered shows an accepted answer, even
\* though answers are accepted while it is encoded; and so does the file.
AnsweredShown ==
  /\ \A r \in readers : r.status = "answered" => r.held.accepted # {}
  /\ \A t \in file : (t.status = "answered") = (t.accepted # {})
=============================================================================
