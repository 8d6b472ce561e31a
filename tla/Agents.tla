------------------------------- MODULE Agents -------------------------------
(***************************************************************************)
(* Trust scores of agents (internal/api/handlers/agents.go) and the        *)
(* attestations daemons gossip (internal/network/trust.go).  A score is    *)
(* counted in hundredths.  The messages an attestation causes are numbered *)
(* with it; gossip delivers each at most once, to its sender as well.      *)
(***************************************************************************)
EXTENDS Integers, Sequences, FiniteSets, SequencesExt

CONSTANTS
  Peer,        \* daemons
  Agent,       \* DIDs of agents
  Rating,      \* the scores that attestations give
  MaxAttested, \* bound: attestations
  MaxSeen,     \* bound: requests that agents make
  MaxFaults    \* bound: messages lost, saves that fail, crashes

VARIABLES
  score,    \* score[d][a]: TrustScore in memory, or -1
  file,     \* the same in agents.json
  applied,  \* applied[d][a]: the attestations that made the score (history)
  filed,    \* the same of the file (history)
  requests, \* AttestAgent between its steps
  wire,     \* attestations on their way: [to, from, id, agent, rating]
  attested, seen, faults,
  answered  \* pairs <<d, attestation>>: requests that were answered (history)

agentVars == <<score, file, applied, filed, requests, wire, attested, seen, faults, answered>>

Unknown == [a \in Agent |-> -1]
NoneApplied == [a \in Agent |-> <<>>]

AgentsInit ==
  /\ score = [d \in Peer |-> Unknown] /\ file = [d \in Peer |-> Unknown]
  /\ applied = [d \in Peer |-> NoneApplied] /\ filed = [d \in Peer |-> NoneApplied]
  /\ requests = {} /\ wire = {} /\ attested = 0 /\ seen = 0 /\ faults = 0 /\ answered = {}

Fails == faults < MaxFaults /\ faults' = faults + 1
-----------------------------------------------------------------------------
\* AgentRegistry.Record, which does not save.
Record(d, a) ==
  /\ seen < MaxSeen /\ seen' = seen + 1
  /\ score' = [score EXCEPT ![d][a] = IF @ = -1 THEN 50 ELSE IF @ < 100 THEN @ + 1 ELSE 100]
  /\ UNCHANGED <<file, applied, filed, requests, wire, attested, faults, answered>>

\* Mutant of Blend: the weights are those of a sum.
BlendSum(old, rating) == (10 * old + 3 * rating) \div 10

\* The moving average, of a score that may be new.
Blend(old, rating) == (7 * old + 3 * rating) \div 10

\* Mutant of SaveLocked: the file gets what there was before.
SaveLate(d, ok) ==
  IF ok
  THEN file' = [file EXCEPT ![d] = score[d]] /\ filed' = [filed EXCEPT ![d] = applied[d]]
         /\ faults' = faults
  ELSE UNCHANGED <<file, filed>> /\ Fails

\* saveLocked: the whole of the registry, under its lock.
SaveLocked(d, ok) ==
  IF ok
  THEN file' = [file EXCEPT ![d] = score'[d]] /\ filed' = [filed EXCEPT ![d] = applied'[d]]
         /\ faults' = faults
  ELSE UNCHANGED <<file, filed>> /\ Fails

\* AgentRegistry.ApplyAttestation; a save that fails leaves the new score in memory.
ApplyAttestation(d, m, ok) ==
  /\ score' = [score EXCEPT ![d][m.agent] = Blend(IF @ = -1 THEN 50 ELSE @, m.rating)]
  /\ applied' = [applied EXCEPT ![d][m.agent] = Append(@, m.id)]
  /\ SaveLocked(d, ok)

\* AttestAgent applies the attestation ...
AttestAgent(d, a, rating, ok) ==
  /\ attested < MaxAttested /\ attested' = attested + 1
  /\ LET m == [id |-> attested', agent |-> a, rating |-> rating, from |-> d] IN
     /\ ApplyAttestation(d, m, ok)
     /\ requests' = IF ok THEN requests \cup {m} ELSE requests
  /\ UNCHANGED <<wire, seen, answered>>

\* ... publishes it, which may fail without the caller's knowing, and answers.
PublishAttestation(m) ==
  /\ requests' = requests \ {m}
  /\ wire' = wire \cup {[to |-> d, m |-> m] : d \in Peer}
  /\ answered' = answered \cup {<<m.from, m>>}
  /\ UNCHANGED <<score, file, applied, filed, attested, seen, faults>>

\* Mutant of Own: nobody's messages are dropped.
OwnNone(d, m) == FALSE

\* What the subscriber drops: what its own daemon sent.
Own(d, m) == m.from = d

\* startAttestationSubscriber, with messages in any order.
Receive(w, ok) ==
  /\ w \in wire /\ wire' = wire \ {w}
  /\ IF Own(w.to, w.m)
     THEN ok /\ UNCHANGED <<score, applied, file, filed, faults>>
     ELSE ApplyAttestation(w.to, w.m, ok)
  /\ UNCHANGED <<requests, attested, seen, answered>>

Lose(w) ==
  /\ w \in wire /\ wire' = wire \ {w} /\ Fails
  /\ UNCHANGED <<score, file, applied, filed, requests, attested, seen, answered>>

\* AgentRegistry.Load at the next start, after a crash: what was on the way is gone.
Load(d) ==
  /\ Fails
  /\ score' = [score EXCEPT ![d] = file[d]]
  /\ applied' = [applied EXCEPT ![d] = filed[d]]
  /\ requests' = {m \in requests : m.from # d}
  /\ wire' = {w \in wire : w.to # d}
  /\ UNCHANGED <<file, filed, attested, seen, answered>>

AgentsNext ==
  \/ \E d \in Peer, a \in Agent : Record(d, a)
  \/ \E d \in Peer, a \in Agent, rating \in Rating, ok \in BOOLEAN : AttestAgent(d, a, rating, ok)
  \/ \E m \in requests : PublishAttestation(m)
  \/ \E w \in wire : Lose(w) \/ \E ok \in BOOLEAN : Receive(w, ok)
  \/ \E d \in Peer : Load(d)

AgentsSpec == AgentsInit /\ [][AgentsNext]_agentVars
-----------------------------------------------------------------------------
\* Whatever attestations and requests come, in whatever order, a score is a
\* share of one, in memory and in the file.
ScoresBounded ==
  \A d \in Peer, a \in Agent : {score[d][a], file[d][a]} \subseteq -1 .. 100

\* No daemon counts an attestation twice, though its own come back to it.
CountedOnce ==
  \A d \in Peer, a \in Agent : IsInjective(applied[d][a])

\* An attestation that was answered counts in the score of its daemon, now and
\* after any crash.
AttestationKept ==
  \A pair \in answered :
    /\ pair[2].id \in ToSet(applied[pair[1]][pair[2].agent])
    /\ pair[2].id \in ToSet(filed[pair[1]][pair[2].agent])
=============================================================================
