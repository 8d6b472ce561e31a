------------------------------ MODULE Services ------------------------------
(***************************************************************************)
(* The services around the repositories: Discussions, Projects, Wiki,      *)
(* Agents, Webhooks, the Hub, the Runner, and Objects.  A behaviour runs   *)
(* one of them, named by part, while the others rest.                      *)
(***************************************************************************)
EXTENDS Integers, FiniteSets

CONSTANTS
  MaxPosts, MaxVotes, MaxReads, PostFaults,                \* see Discussions
  Column, Elsewhere, MaxCards, BoardFaults,                \* see Projects
  Slug, MaxPages, MaxEdits, PageFaults,                    \* see Wiki
  Peer, Agent, Rating, MaxAttested, MaxSeen, AgentFaults,  \* see Agents
  MaxHooks, MaxEvents, HookFaults,                         \* see Webhooks
  Client, Caller, Cap, HubCap, MaxMessages, MaxPings,      \* see Hub
  Job, Steps,                                              \* see Runner
  Object, Empty, MaxRecent, MaxPushes, ObjectFaults        \* see Objects, with Peer

\* The steps of a job are counted, no event is kept for ever, and attestations
\* of a score that is no share of one are refused.
ASSUME StepsAssumption == Steps \in [Job -> Nat]
ASSUME RecentAssumption == MaxRecent \in Nat \ {0}
ASSUME RatingAssumption == Rating \subseteq 0 .. 100

VARIABLES
  part,
  threads, threadsFile, posts, postFaults, readers, promised,
  boards, boardsFile, cardsMade, boardFaults, cut, placed,
  pages, pagesFile, pagesMade, edits, pageFaults, kept,
  score, scoreFile, applied, filed, requests, ratings, attested, seen, agentFaults, rated,
  hooks, inodes, tmp, file, saves, made, events, deliveries, dispatched, faults, answered,
  missed, spoilt,
  clients, watching, closed, queue, reader, writer, open, hub, caller, broadcast, sent,
  pings, panic,
  status, at, jobs, left, shell, child, exit, runOver, stepOver, failed,
  stored, provided, pinned, handler, recent, wire, task, publishing, pushes, objectFaults,
  arrived, done

discussionVars == <<threads, threadsFile, posts, postFaults, readers, promised>>
projectVars == <<boards, boardsFile, cardsMade, boardFaults, cut, placed>>
wikiVars == <<pages, pagesFile, pagesMade, edits, pageFaults, kept>>
agentVars == <<score, scoreFile, applied, filed, requests, ratings, attested, seen,
               agentFaults, rated>>
hookVars == <<hooks, inodes, tmp, file, saves, made, events, deliveries, dispatched, faults,
              answered, missed, spoilt>>
hubVars == <<clients, watching, closed, queue, reader, writer, open, hub, caller, broadcast,
             sent, pings, panic>>
runVars == <<status, at, jobs, left, shell, child, exit, runOver, stepOver, failed>>
objectVars == <<stored, provided, pinned, handler, recent, wire, task, publishing, pushes,
                objectFaults, arrived, done>>

Discussions == INSTANCE Discussions WITH
  MaxFaults <- PostFaults, file <- threadsFile, faults <- postFaults

Projects == INSTANCE Projects WITH
  MaxMade <- MaxCards, MaxFaults <- BoardFaults,
  file <- boardsFile, made <- cardsMade, faults <- boardFaults

Wiki == INSTANCE Wiki WITH
  MaxFaults <- PageFaults, file <- pagesFile, made <- pagesMade, faults <- pageFaults

Agents == INSTANCE Agents WITH
  MaxFaults <- AgentFaults, file <- scoreFile, wire <- ratings, faults <- agentFaults,
  answered <- rated

Webhooks == INSTANCE Webhooks WITH
  MaxFaults <- HookFaults, posts <- deliveries

Hub == INSTANCE Hub

Runner == INSTANCE Runner

Objects == INSTANCE Objects WITH
  MaxFaults <- ObjectFaults, faults <- objectFaults

partVars == <<part, discussionVars, projectVars, wikiVars, agentVars, hookVars, hubVars,
              runVars, objectVars>>

PartsInit ==
  /\ part \in {"discussions", "projects", "wiki", "agents", "webhooks", "hub", "runner",
               "objects"}
  /\ Discussions!DiscussionsInit /\ Projects!ProjectsInit /\ Wiki!WikiInit
  /\ Agents!AgentsInit /\ Webhooks!WebhooksInit /\ Hub!HubInit /\ Runner!RunInit
  /\ Objects!ObjectsInit

PartsNext ==
  /\ UNCHANGED part
  /\ IF part = "discussions" THEN Discussions!DiscussionsNext ELSE UNCHANGED discussionVars
  /\ IF part = "projects" THEN Projects!ProjectsNext ELSE UNCHANGED projectVars
  /\ IF part = "wiki" THEN Wiki!WikiNext ELSE UNCHANGED wikiVars
  /\ IF part = "agents" THEN Agents!AgentsNext ELSE UNCHANGED agentVars
  /\ IF part = "webhooks" THEN Webhooks!WebhooksNext ELSE UNCHANGED hookVars
  /\ IF part = "hub" THEN Hub!HubNext ELSE UNCHANGED hubVars
  /\ IF part = "runner" THEN Runner!RunNext ELSE UNCHANGED runVars
  /\ IF part = "objects" THEN Objects!ObjectsNext ELSE UNCHANGED objectVars

PartsSpec ==
  /\ PartsInit
  /\ [][PartsNext]_partVars
  /\ SF_hubVars(part = "hub" /\ panic = "none" /\ Hub!RunNext)
  /\ \A k \in Caller : SF_hubVars(part = "hub" /\ panic = "none" /\ Hub!CallNext(k))
  /\ WF_runVars(part = "runner" /\ Runner!ExecuteWorkflow)
  /\ WF_runVars(part = "runner" /\ Runner!Kill)
  /\ WF_runVars(part = "runner" /\ Runner!StepTimeout)
  /\ WF_runVars(part = "runner" /\ Runner!ChildExits)
  /\ \A d \in Peer : WF_objectVars(part = "objects" /\ Objects!Handle(d))
-----------------------------------------------------------------------------
\* Discussions, Projects, Wiki, Agents: what a client was answered with success
\* holds, now and after any crash, until somebody changes it: a discussion with
\* its answers and votes, a card in its column and in no other, a page with its
\* edits, an attestation, which counts once; and a discussion shown as answered
\* shows an accepted answer.
AnswersTrue ==
  /\ Discussions!PromisesKept /\ Discussions!AnsweredShown
  /\ Projects!PlacedStays /\ Projects!OneColumn
  /\ Wiki!PagesKept
  /\ Agents!AttestationKept /\ Agents!CountedOnce /\ Agents!ScoresBounded

\* Webhooks: when no save is under way, the file is what is in memory, and an
\* event finds the webhooks registered before it.
HooksKept == Webhooks!FileSettles /\ Webhooks!EventsFindHooks

\* Hub: broadcasts send on no closed queue.
BroadcastsSafe == Hub!BroadcastsSafe

\* Runner: a run succeeds only when every step has, and killing a step leaves no process.
StatusTrue == Runner!StatusTrue

\* Objects: what a daemon tells is true: providers and pins have their objects, a
\* synchronisation without an error is complete, and the recent events are the
\* last that came.
ObjectsTrue == Objects!ProvidersHold /\ Objects!SyncedWhole /\ Objects!RecentTrue

\* Hub: whatever clients do, joining, leaving and messages are always served.
HubServes == Hub!HubServes

\* Runner: every run ends.  Objects: the subscriber gets through every event.
LoopsReturn == Runner!RunEnds /\ Objects!SubscriberReturns
=============================================================================
