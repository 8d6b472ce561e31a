------------------------------ MODULE Webhooks ------------------------------
(***************************************************************************)
(* Webhooks (internal/webhooks/webhooks.go, internal/api/handlers/         *)
(* webhooks.go).  Register and Remove change the memory under the lock and *)
(* then save; saves only take the read lock, so several may be under way,  *)
(* and all go through one temporary file (persistence.SaveJSON).  Files    *)
(* are inodes, which a rename moves while another save still writes them.  *)
(***************************************************************************)
EXTENDS Integers, FiniteSets

CONSTANTS
  MaxHooks,   \* bound: webhooks ever registered
  MaxEvents,  \* bound: events ever dispatched
  MaxFaults   \* bound: failed writes and crashes

VARIABLES
  hooks,      \* webhooks in memory
  inodes,     \* contents of files: a set of webhooks, or Partial
  tmp, file,  \* the inodes of webhooks.json.tmp and webhooks.json, or 0
  saves,      \* requests whose save is under way: [hook, kind, stage, inode, content]
  made,       \* webhooks ever registered
  events,     \* dispatches under way: [owed], the webhooks they must find
  posts,      \* deliveries under way
  dispatched, faults,
  answered,   \* webhooks whose registration was answered, not removed (history)
  missed,     \* webhooks that an event passed over although answered (history)
  spoilt      \* a write failed, or a crash cut saves short (history)

hookVars == <<hooks, inodes, tmp, file, saves, made, events, posts, dispatched, faults,
              answered, missed, spoilt>>
files == <<inodes, tmp, file>>
traffic == <<events, posts, dispatched, missed>>

Partial == {0}
Inode == 1 .. MaxHooks + 2

WebhooksInit ==
  /\ hooks = {} /\ inodes = [i \in Inode |-> {}] /\ tmp = 0 /\ file = 0
  /\ saves = {} /\ made = 0 /\ faults = 0 /\ answered = {}
  /\ events = {} /\ posts = {} /\ dispatched = 0 /\ missed = {} /\ spoilt = FALSE

\* A save holds the read lock from when it encodes the webhooks.
Unlocked == \A s \in saves : s.stage = "asked"
Asked(kind, h) == [hook |-> h, kind |-> kind, stage |-> "asked", inode |-> 0, content |-> {}]
To(s, new) == saves' = (saves \ {s}) \cup {new}
Content(i) == IF i = 0 THEN {} ELSE inodes[i]

\* Inodes for a new file, of as many as are needed.
Unused == {j \in Inode : j # file /\ \A o \in saves : o.inode # j}
-----------------------------------------------------------------------------
\* Mutant of Register: saves copy the webhooks and let go of the lock.
RegisterUnlocked ==
  /\ made < MaxHooks /\ made' = made + 1
  /\ hooks' = hooks \cup {made'}
  /\ saves' = saves \cup {Asked("register", made')}
  /\ UNCHANGED <<files, traffic, faults, answered, spoilt>>

\* Manager.Register up to the save, for RegisterWebhook.
Register ==
  /\ made < MaxHooks /\ made' = made + 1
  /\ Unlocked
  /\ hooks' = hooks \cup {made'}
  /\ saves' = saves \cup {Asked("register", made')}
  /\ UNCHANGED <<files, traffic, faults, answered, spoilt>>

\* Manager.Remove up to the save, for DeleteWebhook.
Remove(h) ==
  /\ h \in hooks /\ Unlocked
  /\ hooks' = hooks \ {h}
  /\ saves' = saves \cup {Asked("remove", h)}
  /\ answered' = answered \ {h}
  /\ events' = {[e EXCEPT !.owed = @ \ {h}] : e \in events}
  /\ UNCHANGED <<files, made, posts, dispatched, missed, faults, spoilt>>

\* Manager.Save encodes the webhooks, and os.WriteFile creates the temporary
\* file or empties the one that is there ...
Open(s) ==
  /\ s.stage = "asked" /\ (tmp # 0 \/ Unused # {})
  /\ LET i == IF tmp # 0 THEN tmp ELSE CHOOSE j \in Unused : TRUE IN
     /\ tmp' = i
     /\ inodes' = [inodes EXCEPT ![i] = Partial]
     /\ To(s, [s EXCEPT !.stage = "opened", !.inode = i, !.content = hooks])
  /\ UNCHANGED <<hooks, file, made, traffic, faults, answered, spoilt>>

\* Both handlers answer the same whatever Save returns.
Answer(s) == answered' = IF s.kind = "register" /\ s.hook \in hooks
                         THEN answered \cup {s.hook} ELSE answered

\* ... writes it ...
Fill(s, ok) ==
  /\ s.stage = "opened"
  /\ IF ok
     THEN /\ inodes' = [inodes EXCEPT ![s.inode] = s.content]
          /\ To(s, [s EXCEPT !.stage = "written"])
          /\ UNCHANGED <<faults, answered, spoilt>>
     ELSE /\ faults < MaxFaults /\ faults' = faults + 1 /\ spoilt' = TRUE
          /\ inodes' = [inodes EXCEPT ![s.inode] = Partial]
          /\ saves' = saves \ {s} /\ Answer(s)
  /\ UNCHANGED <<hooks, tmp, file, made, traffic>>

\* ... and SaveJSON renames whatever file has the temporary name by now; if
\* there is none ...
Rename(s) ==
  /\ s.stage = "written"
  /\ IF tmp = 0
     THEN To(s, [s EXCEPT !.stage = "refused"]) /\ UNCHANGED <<tmp, file, answered>>
     ELSE file' = tmp /\ tmp' = 0 /\ saves' = saves \ {s} /\ Answer(s)
  /\ UNCHANGED <<hooks, inodes, made, traffic, faults, spoilt>>

\* ... it removes the one that may be there now.
RemoveTmp(s) ==
  /\ s.stage = "refused"
  /\ tmp' = 0 /\ saves' = saves \ {s} /\ Answer(s)
  /\ UNCHANGED <<hooks, inodes, file, made, traffic, faults, spoilt>>
-----------------------------------------------------------------------------
\* Manager.Dispatch calls the event hook (see Replica) ...
Dispatch ==
  /\ dispatched < MaxEvents /\ dispatched' = dispatched + 1
  /\ events' = events \cup {[owed |-> answered, id |-> dispatched]}
  /\ UNCHANGED <<hooks, files, saves, made, posts, missed, faults, answered, spoilt>>

\* ... and then starts a delivery to each webhook of that moment.
Match(e) ==
  /\ events' = events \ {e}
  /\ posts' = posts \cup {[event |-> e.id, hook |-> h] : h \in hooks}
  /\ missed' = missed \cup (e.owed \ hooks)
  /\ UNCHANGED <<hooks, files, saves, made, dispatched, faults, answered, spoilt>>

\* Manager.send tries once: refused, failed and delivered look the same.
Send(p) ==
  /\ posts' = posts \ {p}
  /\ UNCHANGED <<hooks, files, saves, made, events, dispatched, missed, faults, answered, spoilt>>

\* Mutant of Load: webhooks are read from the temporary file.
LoadTmp == IF Content(tmp) = Partial THEN {} ELSE Content(tmp)

\* Manager.Load, whose error is only logged.
Load == IF Content(file) = Partial THEN {} ELSE Content(file)

Crash ==
  /\ faults < MaxFaults /\ faults' = faults + 1
  /\ hooks' = Load
  /\ saves' = {} /\ events' = {} /\ posts' = {}
  /\ spoilt' = (spoilt \/ saves # {})
  /\ UNCHANGED <<files, made, dispatched, answered, missed>>

WebhooksNext ==
  \/ Register \/ Dispatch \/ Crash
  \/ \E h \in hooks : Remove(h)
  \/ \E s \in saves : Open(s) \/ Rename(s) \/ RemoveTmp(s) \/ \E ok \in BOOLEAN : Fill(s, ok)
  \/ \E e \in events : Match(e)
  \/ \E p \in posts : Send(p)

WebhooksSpec == WebhooksInit /\ [][WebhooksNext]_hookVars
-----------------------------------------------------------------------------
\* When no save is under way, the file is what is in memory, however many saves
\* shared the temporary file, as long as no write failed or was cut short.
FileSettles == saves = {} /\ ~spoilt => Content(file) = hooks

\* An event that is dispatched after a webhook's registration was answered finds
\* the webhook, across restarts, unless it is removed (and unless, as above, a
\* write failed or was cut short).
EventsFindHooks == ~spoilt => missed = {}

\* webhooks.json is never half written: "writes to a temp file first, then
\* renames to prevent corruption on crash" (internal/persistence/persistence.go).
FileWhole == Content(file) # Partial
=============================================================================
