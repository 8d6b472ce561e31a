------------------------------- MODULE Access -------------------------------
(***************************************************************************)
(* How a request with a UCAN gets through the middleware of the daemon     *)
(* (internal/api/server.go, setupMiddleware) to the handlers that act upon *)
(* its capabilities: verification and revocation, the nonce, the rate      *)
(* limit, the capability check; revocations and nonces outlive the process *)
(* in files.  Time is counted in steps.                                    *)
(***************************************************************************)
EXTENDS UCAN, Sequences

CONSTANTS
  Presented,   \* the tokens clients made themselves
  Server,      \* the daemon's DID
  Repo,        \* the resource "repo:<id>" that requests write to
  Audience,    \* DIDs that delegations are made to
  NonceTTL,    \* how long a nonce is remembered
  Lifetime,    \* how long a token lives that the daemon signs
  MaxAge,      \* how long a shutdown keeps revocations
  Addr, Rate, Burst, IdleLimit, MaxTime,
  Revocable,   \* bound: the nonces that are ever revoked
  MaxRequests, \* bound: requests whose token is good and not revoked
  MaxMinted,   \* bound: tokens the daemon signs
  MaxFaults    \* bound: failed saves and crashes

ASSUME TimeAssumption ==
  /\ {Skew, NonceTTL, Lifetime, MaxAge, Rate, Burst, IdleLimit, MaxTime, MaxDepth} \subseteq Nat
  /\ Lifetime + Skew <= MaxAge
  /\ Burst >= 1 /\ IdleLimit * Rate >= Burst
ASSUME TokenAssumption == \A t \in Presented : {t.begins, t.expires} \subseteq Nat
ASSUME BoundAssumption == {MaxRequests, MaxMinted, MaxFaults} \subseteq Nat

VARIABLES
  now, visitors, passed,
  nonces,      \* nonces[n]: when the nonce is to be forgotten; memory of NonceCache
  noncesFile,  \* the same in nonce_cache.json
  revoked,     \* revoked[n]: when it was revoked; memory of RevocationStore
  revokedFile, \* the same in revocations.json
  revokedTmp,  \* and in revocations.json.tmp, the file a save renames
  saves,       \* saves of revocations.json under way
  requests,    \* requests between their arrival and their handler
  begun,       \* how many have arrived
  minted,      \* tokens signed by DelegateCapability
  faults,
  uses,        \* uses[n]: when the nonce was taken since the last crash (history)
  sealed,      \* nonces whose revocation was answered, see Rename (history)
  performed,   \* what was done under which token (history)
  lineage      \* pairs: a minted token, the token it was minted for (history)

limiter == <<now, visitors, passed>>
nonceVars == <<nonces, noncesFile, uses>>
revocationVars == <<revoked, revokedFile, revokedTmp, saves, sealed>>
effects == <<minted, performed, lineage>>
accessVars == <<limiter, nonceVars, revocationVars, requests, begun, effects, faults>>

INSTANCE RateLimiter

\* Nonces are named after the tokens; those of minted tokens are numbers.
Nonce == {t.nonce : t \in UNION {Ancestors(p) : p \in Presented}} \cup 1 .. MaxMinted
ASSUME RevocableAssumption == Revocable \subseteq Nonce

Known == [Nonce -> Nat \cup {-1}]
Nothing == [n \in Nonce |-> -1]

Op == [kind : {"write"}] \cup [kind : {"revoke"}, nonce : Revocable]
        \cup [kind : {"delegate"}, audience : Audience, action : {"write", All}]

Init ==
  /\ LimiterInit
  /\ nonces = Nothing /\ noncesFile = Nothing
  /\ uses = [n \in Nonce |-> <<>>]
  /\ revoked = Nothing /\ revokedFile = Nothing /\ revokedTmp = Nothing
  /\ saves = {} /\ sealed = {}
  /\ requests = {} /\ begun = 0
  /\ minted = {} /\ performed = {} /\ lineage = {}
  /\ faults = 0

Fails == faults < MaxFaults /\ faults' = faults + 1
-----------------------------------------------------------------------------
\* The request goes on to the next stage, or is answered with an error.
GoOn(r, ok, stage) ==
  requests' = (requests \ {r}) \cup IF ok THEN {[r EXCEPT !.stage = stage]} ELSE {}

\* A client sends a token it holds: VerifySignedUCANWithChain up to the answer
\* of the revocation store.  A token that is refused here leaves no trace.
Arrive(t, a, op) ==
  /\ begun < MaxRequests /\ begun' = begun + 1
  /\ t.signed /\ InTime(t, now) /\ revoked[t.nonce] = -1
  /\ requests' = requests \cup
       {[id |-> begun, token |-> t, addr |-> a, op |-> op, stage |-> "verified",
         late |-> t.nonce \in sealed]}
  /\ UNCHANGED <<limiter, nonceVars, revocationVars, effects, faults>>

\* Mutant of CheckNonce: the nonce is only recorded when the chain is good.
CheckNonceLate(r) ==
  /\ r.stage = "verified"
  /\ LET n == r.token.nonce
         good == r.token.audience = Server /\ VerifyProofChain(r.token, now) IN
     /\ GoOn(r, nonces[n] = -1 /\ good, "known")
     /\ nonces' = IF good THEN [nonces EXCEPT ![n] = now + NonceTTL] ELSE nonces
     /\ uses' = IF nonces[n] = -1 THEN [uses EXCEPT ![n] = Append(@, now)] ELSE uses
  /\ UNCHANGED <<limiter, noncesFile, revocationVars, begun, effects, faults>>

\* NonceCache.Check, then the proof chain and the audience: a token that fails
\* these has lost its nonce all the same.
CheckNonce(r) ==
  /\ r.stage = "verified"
  /\ LET n == r.token.nonce IN
     IF nonces[n] # -1
     THEN GoOn(r, FALSE, "known") /\ UNCHANGED <<nonces, uses>>
     ELSE /\ GoOn(r, r.token.audience = Server /\ VerifyProofChain(r.token, now), "known")
          /\ nonces' = [nonces EXCEPT ![n] = now + NonceTTL]
          /\ uses' = [uses EXCEPT ![n] = Append(@, now)]
  /\ UNCHANGED <<limiter, noncesFile, revocationVars, begun, effects, faults>>

-----------------------------------------------------------------------------
\* What the handlers do.  RequireRepoWrite and whatever writes to the repository:
Write(r) ==
  /\ performed' = IF HasCapability(r.token.caps, Repo, "write")
                  THEN performed \cup {r.token} ELSE performed
  /\ UNCHANGED <<minted, lineage, revoked, saves>>

\* The token DelegateCapability signs: the daemon's own, without proofs.
Delegation(r) ==
  [nonce |-> Cardinality(minted) + 1, issuer |-> Server, audience |-> r.op.audience,
   begins |-> now, expires |-> now + Lifetime,
   caps |-> {[resource |-> Repo, actions |-> {r.op.action}]}, proofs |-> {}, signed |-> TRUE]

\* DelegateCapability, for what the caller's own token allows.
Delegate(r) ==
  /\ IF HasCapability(r.token.caps, Repo, r.op.action)
     THEN /\ Cardinality(minted) < MaxMinted
          /\ minted' = minted \cup {Delegation(r)}
          /\ lineage' = lineage \cup {<<Delegation(r), r.token>>}
     ELSE UNCHANGED <<minted, lineage>>
  /\ UNCHANGED <<performed, revoked, saves>>

\* RevokeUCAN: the revocation counts at once, then the file is saved.
Revoke(r) ==
  /\ revoked' = [revoked EXCEPT ![r.op.nonce] = now]
  /\ saves' = saves \cup {[id |-> r.id, nonce |-> r.op.nonce, stage |-> "read", content |-> Nothing]}
  /\ UNCHANGED effects

\* The rate limit comes last; then the handler has its turn.
Serve(r, ok) ==
  /\ r.stage = "known"
  /\ Allow(r.addr, ok)
  /\ requests' = requests \ {r}
  /\ \/ ~ok /\ UNCHANGED <<effects, revoked, saves>>
     \/ ok /\ r.op.kind = "write" /\ Write(r)
     \/ ok /\ r.op.kind = "delegate" /\ Delegate(r)
     \/ ok /\ r.op.kind = "revoke" /\ Revoke(r)
  /\ UNCHANGED <<now, nonceVars, revokedFile, revokedTmp, sealed, begun, faults>>

\* RevocationStore.Save copies the revocations under the lock ...
ReadRevocations(s) ==
  /\ s.stage = "read"
  /\ saves' = (saves \ {s}) \cup {[s EXCEPT !.stage = "write", !.content = revoked]}
  /\ UNCHANGED <<limiter, nonceVars, revoked, revokedFile, revokedTmp, sealed, requests,
                 begun, effects, faults>>

\* ... writes them, without it, to a file all saves share ...
WriteRevocations(s, ok) ==
  /\ s.stage = "write"
  /\ IF ok THEN /\ revokedTmp' = s.content
                /\ saves' = (saves \ {s}) \cup {[s EXCEPT !.stage = "rename"]}
                /\ faults' = faults
     ELSE revokedTmp' = revokedTmp /\ saves' = saves \ {s} /\ Fails
  /\ UNCHANGED <<limiter, nonceVars, revoked, revokedFile, sealed, requests, begun, effects>>

\* ... and renames it, after which the revocation is answered.  It is sealed if
\* the file that took effect has it and no older copy is still about to be
\* written.  The rename fails if another save has done it already, and what has
\* the temporary name by then ...
RenameRevocations(s) ==
  /\ s.stage = "rename"
  /\ IF revokedTmp = Nothing
     THEN /\ saves' = (saves \ {s}) \cup {[s EXCEPT !.stage = "clean"]}
          /\ UNCHANGED <<revokedFile, revokedTmp, sealed>>
     ELSE /\ saves' = saves \ {s}
          /\ revokedFile' = revokedTmp
          /\ revokedTmp' = Nothing
          /\ sealed' = IF /\ revokedTmp[s.nonce] # -1
                          /\ \A o \in saves' : o.stage # "read" => o.content[s.nonce] # -1
                       THEN sealed \cup {s.nonce} ELSE sealed
  /\ UNCHANGED <<limiter, nonceVars, revoked, requests, begun, effects, faults>>

\* ... is removed, though it may be a later save's.
RemoveTmp(s) ==
  /\ s.stage = "clean"
  /\ saves' = saves \ {s} /\ revokedTmp' = Nothing
  /\ UNCHANGED <<limiter, nonceVars, revoked, revokedFile, sealed, requests, begun, effects,
                 faults>>
-----------------------------------------------------------------------------
\* NonceCache.evict, from evictLoop.
Evict ==
  /\ nonces' = [n \in Nonce |-> IF now > nonces[n] THEN -1 ELSE nonces[n]]
  /\ UNCHANGED <<limiter, noncesFile, uses, revocationVars, requests, begun, effects, faults>>

\* What NonceCache.Load makes of the file.
LoadNonces(file) == [n \in Nonce |-> IF now < file[n] THEN file[n] ELSE -1]

\* Mutant of Cleaned: old means half as old.
CleanedSoon == [n \in Nonce |-> IF revoked[n] < now - MaxAge \div 2 THEN -1 ELSE revoked[n]]

\* RevocationStore.Cleanup.
Cleaned == [n \in Nonce |-> IF revoked[n] < now - MaxAge THEN -1 ELSE revoked[n]]

\* Server.Shutdown, which waits for the requests, and the next start.
Shutdown ==
  /\ requests = {} /\ saves = {}
  /\ noncesFile' = nonces
  /\ nonces' = LoadNonces(nonces)
  /\ revoked' = Cleaned /\ revokedFile' = Cleaned /\ revokedTmp' = Nothing
  /\ visitors' = [a \in Addr |-> NoVisitor] /\ passed' = [a \in Addr |-> <<>>]
  /\ UNCHANGED <<now, uses, saves, sealed, requests, begun, effects, faults>>

\* A crash and the next start; the clock may go on meanwhile.
Crash ==
  /\ Fails
  /\ nonces' = LoadNonces(noncesFile)
  /\ uses' = [n \in Nonce |-> <<>>]
  /\ revoked' = revokedFile
  /\ requests' = {} /\ saves' = {}
  /\ visitors' = [a \in Addr |-> NoVisitor] /\ passed' = [a \in Addr |-> <<>>]
  /\ UNCHANGED <<now, noncesFile, revokedFile, revokedTmp, sealed, begun, effects>>

Others == <<nonceVars, revocationVars, requests, begun, effects, faults>>

Next ==
  \/ \E t \in Presented \cup minted, a \in Addr, op \in Op : Arrive(t, a, op)
  \/ \E r \in requests : CheckNonce(r) \/ \E ok \in BOOLEAN : Serve(r, ok)
  \/ \E s \in saves :
       \/ ReadRevocations(s) \/ RenameRevocations(s) \/ RemoveTmp(s)
       \/ \E ok \in BOOLEAN : WriteRevocations(s, ok)
  \/ Evict \/ Shutdown \/ Crash
  \/ Tick /\ UNCHANGED <<visitors, passed, Others>>
  \/ Cleanup /\ UNCHANGED Others

Spec == Init /\ [][Next]_accessVars
-----------------------------------------------------------------------------
\* The variables keep their types.
AccessTypeOK ==
  /\ now \in 0 .. MaxTime
  /\ {nonces, noncesFile, revoked, revokedFile, revokedTmp} \subseteq Known
  /\ \A a \in Addr : visitors[a] = NoVisitor \/ visitors[a].tokens \in 0 .. Burst
  /\ \A r \in requests : r.stage \in {"verified", "known"} /\ r.op \in Op
  /\ \A s \in saves : s.stage \in {"read", "write", "rename", "clean"} /\ s.content \in Known
  /\ sealed \subseteq Nonce
  /\ Cardinality(minted) <= MaxMinted

\* The types, and that an address gets no more requests through than its bucket
\* held and gained.
RequestsBounded == AccessTypeOK /\ RateBound

\* Replay protection: between crashes, through evictions, restarts and requests
\* that race for it, a nonce is taken again only when NonceTTL has gone by.
NonceOnce ==
  \A n \in Nonce : \A i \in 2 .. Len(uses[n]) : uses[n][i] >= uses[n][i - 1] + NonceTTL

\* A token whose revocation is sealed is refused in every request that begins
\* later, after any crash, restart or cleanup.
RevokedRefused == \A r \in requests : ~r.late

\* What is done under a token, every token of its chain allows; and a token the
\* daemon signs allows nothing that some token of the chain it was asked for
\* with does not.
Attenuated ==
  /\ \A t \in performed : \A p \in Ancestors(t) : HasCapability(p.caps, Repo, "write")
  /\ \A pair \in lineage : \A action \in {"write", All} :
       HasCapability(pair[1].caps, Repo, action) =>
         \A p \in Ancestors(pair[2]) : HasCapability(p.caps, Repo, action)
=============================================================================
