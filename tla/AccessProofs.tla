---------------------------- MODULE AccessProofs ----------------------------
(***************************************************************************)
(* Theorems about Authority, for every set of tokens, users, names and     *)
(* commands, every rate and every bound: the rate an address gets, when a  *)
(* nonce is taken again, what a revocation is worth and what a delegation  *)
(* allows (Access); which keys stay and what Stop waits for (Identity,     *)
(* SSH); whose session a request has (Accounts); and who may write to      *)
(* which repository (Collaborators).                                       *)
(***************************************************************************)
EXTENDS Authority, FiniteSetTheorems, WellFoundedInduction, TLAPS
-----------------------------------------------------------------------------
(* The rate limiter. *)

LEMMA Constants ==
  /\ Skew \in Nat /\ NonceTTL \in Nat /\ Lifetime \in Nat /\ MaxAge \in Nat /\ Rate \in Nat
  /\ Burst \in Nat /\ IdleLimit \in Nat /\ MaxTime \in Nat /\ MaxDepth \in Nat
  /\ Lifetime + Skew <= MaxAge /\ Burst >= 1 /\ IdleLimit * Rate >= Burst
  BY TimeAssumption

\* What flows in over a stretch of time, and over two of them.
LEMMA Flow ==
  ASSUME NEW x \in Int, NEW y \in Int
  PROVE  /\ (x - y) * Rate = Rate * (x - y) /\ Rate * (x - y) \in Int
         /\ Rate * (x - x) = 0
         /\ x >= y => Rate * (x - y) >= 0
  BY Constants

LEMMA FlowSum ==
  ASSUME NEW x \in Int, NEW y \in Int, NEW z \in Int
  PROVE  Rate * (x - y) + Rate * (y - z) = Rate * (x - z)
  BY Constants

Bucket == [tokens : 0 .. Burst, lastSeen : Nat]

\* The requests of a since its i-th, and what its bucket holds, came out of a
\* full bucket and what flowed in since then; a bucket that was forgotten would
\* have filled up.
Paced(a, i) ==
  LET p == passed[a][i]
      count == Len(passed[a]) - i + 1
  IN /\ p \in Nat /\ p <= now
     /\ visitors[a] = NoVisitor => count <= Rate * (now - p)
     /\ visitors[a] # NoVisitor =>
          /\ p <= visitors[a].lastSeen
          /\ count + visitors[a].tokens <= Burst + Rate * (visitors[a].lastSeen - p)

LimiterInv ==
  /\ now \in 0 .. MaxTime
  /\ visitors \in [Addr -> Bucket \cup {NoVisitor}]
  /\ passed \in [Addr -> Seq(Nat)]
  /\ \A a \in Addr : visitors[a] # NoVisitor => visitors[a].lastSeen <= now
  /\ \A a \in Addr : \A i \in DOMAIN passed[a] : Paced(a, i)
  /\ RateBound

LEMMA NoBucket == NoVisitor \notin Bucket
  BY DEF NoVisitor, Bucket

\* RateLimiter.allow keeps to the rate.
LEMMA AllowKeeps ==
  ASSUME LimiterInv, NEW a \in Addr, NEW ok \in BOOLEAN, Allow(a, ok), now' = now
  PROVE  LimiterInv'
<1> DEFINE filled == IF visitors[a] = NoVisitor THEN Burst ELSE Refilled(a)
           new == [tokens |-> IF ok THEN filled - 1 ELSE filled, lastSeen |-> now]
<1>1. /\ ok = (filled >= 1) /\ visitors' = [visitors EXCEPT ![a] = new]
      /\ passed' = IF ok THEN [passed EXCEPT ![a] = Append(@, now)] ELSE passed
  BY DEF Allow
<1>2. now \in Nat /\ Burst \in Nat
  BY Constants DEF LimiterInv
<1>3. ASSUME visitors[a] # NoVisitor
      PROVE  /\ visitors[a].tokens \in 0 .. Burst /\ visitors[a].lastSeen \in Nat
             /\ visitors[a].lastSeen <= now
             /\ filled \in 0 .. Burst
             /\ filled <= visitors[a].tokens + Rate * (now - visitors[a].lastSeen)
  <2>1. visitors[a].tokens \in 0 .. Burst /\ visitors[a].lastSeen \in Nat /\ visitors[a].lastSeen <= now
    BY <1>3 DEF LimiterInv, Bucket
  <2>2. /\ (now - visitors[a].lastSeen) * Rate = Rate * (now - visitors[a].lastSeen)
        /\ Rate * (now - visitors[a].lastSeen) \in Int
        /\ Rate * (now - visitors[a].lastSeen) >= 0
    <3>1. now \in Int /\ visitors[a].lastSeen \in Int
      BY <1>2, <2>1
    <3>2. QED
      BY <2>1, <3>1, Flow
  <2>3. QED
    BY <1>2, <1>3, <2>1, <2>2 DEF Refilled, Lower
<1>4. filled \in 0 .. Burst
  BY <1>2, <1>3
<1> HIDE DEF filled
<1>5. /\ new.tokens = IF ok THEN filled - 1 ELSE filled
      /\ new.lastSeen = now /\ new \in Bucket
  <2>1. (IF ok THEN filled - 1 ELSE filled) \in 0 .. Burst
    <3>1. ok => filled >= 1
      BY <1>1
    <3>2. CASE ok
      BY <1>2, <1>4, <3>1, <3>2
    <3>3. CASE ~ok
      BY <1>4, <3>3
    <3>4. QED
      BY <3>2, <3>3
  <2>2. QED
    BY <1>2, <2>1 DEF Bucket
<1> HIDE DEF new
<1>6. \A i \in DOMAIN passed[a] :
        /\ passed[a][i] \in Nat /\ passed[a][i] <= now
        /\ Len(passed[a]) - i + 1 + filled <= Burst + Rate * (now - passed[a][i])
  <2> SUFFICES ASSUME NEW i \in DOMAIN passed[a]
               PROVE  /\ passed[a][i] \in Nat /\ passed[a][i] <= now
                      /\ Len(passed[a]) - i + 1 + filled <= Burst + Rate * (now - passed[a][i])
    OBVIOUS
  <2> DEFINE p == passed[a][i]
             count == Len(passed[a]) - i + 1
  <2>1. Paced(a, i) /\ i \in Nat /\ Len(passed[a]) \in Nat /\ p \in Nat /\ p <= now
    BY DEF LimiterInv, Paced
  <2>2. count \in Int /\ Rate * (now - p) \in Int
    <3>1. now \in Int /\ p \in Int
      BY <1>2, <2>1
    <3>2. Rate * (now - p) \in Int
      BY <3>1, Flow
    <3>3. QED
      BY <2>1, <3>2
  <2>3. CASE visitors[a] = NoVisitor
    <3>1. count <= Rate * (now - p) /\ filled = Burst
      BY <2>1, <2>3 DEF Paced, filled
    <3> HIDE DEF count, p
    <3>2. count + filled <= Burst + Rate * (now - p)
      BY <1>2, <2>2, <3>1
    <3>3. QED
      BY <2>1, <3>2 DEF count, p
  <2>4. CASE visitors[a] # NoVisitor
    <3> DEFINE s == visitors[a].lastSeen
               tokens == visitors[a].tokens
    <3>1. /\ s \in Nat /\ tokens \in Nat /\ s <= now
          /\ filled <= tokens + Rate * (now - s)
          /\ count + tokens <= Burst + Rate * (s - p)
      BY <1>3, <2>1, <2>4 DEF Paced
    <3> HIDE DEF count, p, s, tokens
    <3>2. Rate * (now - s) + Rate * (s - p) = Rate * (now - p)
          /\ Rate * (now - s) \in Int /\ Rate * (s - p) \in Int
      <4>1. now \in Int /\ s \in Int /\ p \in Int
        BY <1>2, <2>1, <3>1
      <4>2. Rate * (now - s) + Rate * (s - p) = Rate * (now - p)
        BY <4>1, FlowSum
      <4>3. Rate * (now - s) \in Int /\ Rate * (s - p) \in Int
        BY <4>1, Flow
      <4>4. QED
        BY <4>2, <4>3
    <3>3. count + filled <= Burst + Rate * (now - p)
      BY <1>2, <1>4, <2>2, <3>1, <3>2
    <3>4. QED
      BY <2>1, <3>3 DEF count, p
  <2>5. QED
    BY <2>3, <2>4
<1>7. \A b \in Addr \ {a} : visitors'[b] = visitors[b] /\ passed'[b] = passed[b]
  BY <1>1 DEF LimiterInv
<1>8. visitors'[a] = new /\ new # NoVisitor /\ visitors' \in [Addr -> Bucket \cup {NoVisitor}]
  BY <1>1, <1>5, NoBucket DEF LimiterInv
<1>9. CASE ~ok
  <2>1. passed' = passed /\ new.tokens = filled
    BY <1>1, <1>5, <1>9
  <2>2. \A i \in DOMAIN passed[a] : Paced(a, i)'
    BY <1>5, <1>6, <1>8, <2>1 DEF Paced
  <2>3. \A b \in Addr \ {a} : \A i \in DOMAIN passed[b] : Paced(b, i)'
    BY <1>7 DEF LimiterInv, Paced
  <2>4. \A b \in Addr : \A i \in DOMAIN passed'[b] : Paced(b, i)'
    BY <2>1, <2>2, <2>3
  <2>5. RateBound'
    BY <2>1 DEF LimiterInv, RateBound
  <2>6. \A b \in Addr : visitors'[b] # NoVisitor => visitors'[b].lastSeen <= now'
    <3>1. visitors'[a].lastSeen <= now'
      BY <1>2, <1>5, <1>8
    <3>2. \A b \in Addr \ {a} : visitors'[b] # NoVisitor => visitors'[b].lastSeen <= now'
      BY <1>7 DEF LimiterInv
    <3>3. QED
      BY <3>1, <3>2
  <2>7. QED
    BY <1>8, <2>1, <2>4, <2>5, <2>6 DEF LimiterInv
<1>10. CASE ok
  <2> DEFINE n == Len(passed[a]) + 1
  <2>1. passed[a] \in Seq(Nat) /\ passed'[a] = Append(passed[a], now) /\ passed' \in [Addr -> Seq(Nat)]
    BY <1>1, <1>2, <1>10 DEF LimiterInv
  <2>2. /\ DOMAIN passed'[a] = DOMAIN passed[a] \cup {n} /\ DOMAIN passed[a] = 1 .. n - 1
        /\ Len(passed'[a]) = n /\ n \in Nat
        /\ \A i \in DOMAIN passed[a] : passed'[a][i] = passed[a][i]
        /\ passed'[a][n] = now
    BY <1>2, <2>1, SMTT(30)
  <2> HIDE DEF n
  <2>3. new.tokens = filled - 1 /\ filled >= 1
    BY <1>1, <1>5, <1>10
  <2>4. \A i \in DOMAIN passed'[a] :
          /\ passed'[a][i] \in Nat /\ passed'[a][i] <= now
          /\ n - i + 1 + (filled - 1) <= Burst + Rate * (now - passed'[a][i])
    <3>1. Rate * (now - now) = 0
      BY <1>2, Flow
    <3>2. n - n + 1 + (filled - 1) <= Burst + Rate * (now - passed'[a][n])
      BY <1>2, <1>4, <2>2, <3>1
    <3>3. ASSUME NEW i \in DOMAIN passed[a]
          PROVE  /\ passed'[a][i] \in Nat /\ passed'[a][i] <= now
                 /\ n - i + 1 + (filled - 1) <= Burst + Rate * (now - passed'[a][i])
      <4>1. /\ passed[a][i] \in Nat /\ passed[a][i] <= now
            /\ Len(passed[a]) - i + 1 + filled <= Burst + Rate * (now - passed[a][i])
        BY <1>6
      <4>2. n - i + 1 + (filled - 1) = Len(passed[a]) - i + 1 + filled
        <5>1. i \in Int /\ Len(passed[a]) \in Int /\ filled \in Int
          BY <1>4, <2>1
        <5>2. QED
          BY <5>1 DEF n
      <4>3. passed'[a][i] = passed[a][i]
        BY <2>2
      <4>4. QED
        BY <4>1, <4>2, <4>3, ZenonT(60)
    <3>4. passed'[a][n] \in Nat /\ passed'[a][n] <= now
      BY <1>2, <2>2
    <3> DEFINE Flows(i) == /\ passed'[a][i] \in Nat /\ passed'[a][i] <= now
                           /\ n - i + 1 + (filled - 1) <= Burst + Rate * (now - passed'[a][i])
    <3>5. Flows(n) /\ \A i \in DOMAIN passed[a] : Flows(i)
      BY <3>2, <3>3, <3>4, Zenon
    <3>6. \A i \in DOMAIN passed'[a] : Flows(i)
      <4> HIDE DEF Flows
      <4> QED
        BY <2>2, <3>5, Zenon
    <3> QED
      BY <3>6, Zenon
  <2>5. \A i \in DOMAIN passed'[a] : Paced(a, i)'
    BY <1>5, <1>8, <2>2, <2>3, <2>4 DEF Paced
  <2>6. \A b \in Addr \ {a} : \A i \in DOMAIN passed[b] : Paced(b, i)'
    BY <1>7 DEF LimiterInv, Paced
  <2>7. \A b \in Addr : \A i \in DOMAIN passed'[b] : Paced(b, i)'
    BY <1>7, <2>5, <2>6
  <2>8. RateBound'
    <3>1. ASSUME NEW i \in DOMAIN passed'[a], NEW j \in DOMAIN passed'[a], i <= j
          PROVE  j - i + 1 <= Burst + Rate * (passed'[a][j] - passed'[a][i])
      <4>1. CASE j = n
        <5>0. passed'[a][i] \in Nat
          BY <2>4
        <5>1. now \in Int /\ passed'[a][i] \in Int /\ n \in Int /\ i \in Int /\ filled \in Int
          BY <1>2, <1>4, <2>2, <5>0
        <5>2. Rate * (now - passed'[a][i]) \in Int
          BY <5>1, Flow
        <5>3. n - i + 1 + (filled - 1) <= Burst + Rate * (now - passed'[a][i])
          BY <2>4
        <5>4. n - i + 1 <= Burst + Rate * (now - passed'[a][i])
          BY <1>2, <2>3, <5>1, <5>2, <5>3
        <5>5. QED
          BY <2>2, <4>1, <5>4
      <4>2. CASE j # n
        <5>1. i \in DOMAIN passed[a] /\ j \in DOMAIN passed[a]
          BY <2>2, <3>1, <4>2
        <5>2. QED
          BY <2>2, <3>1, <5>1 DEF LimiterInv, RateBound
      <4>3. QED
        BY <4>1, <4>2
    <3>2. QED
      BY <1>7, <3>1 DEF LimiterInv, RateBound
  <2>9. \A b \in Addr : visitors'[b] # NoVisitor => visitors'[b].lastSeen <= now'
    <3>1. visitors'[a].lastSeen <= now'
      BY <1>2, <1>5, <1>8
    <3>2. \A b \in Addr \ {a} : visitors'[b] # NoVisitor => visitors'[b].lastSeen <= now'
      BY <1>7 DEF LimiterInv
    <3>3. QED
      BY <3>1, <3>2
  <2>10. QED
    BY <1>8, <2>1, <2>7, <2>8, <2>9 DEF LimiterInv
<1>11. QED
  BY <1>9, <1>10

\* What else happens to the clock and the buckets: time goes on, idle buckets
\* are forgotten, a start forgets all of them.
Limiting ==
  \/ Tick /\ UNCHANGED <<visitors, passed>>
  \/ Cleanup
  \/ /\ visitors' = [a \in Addr |-> NoVisitor] /\ passed' = [a \in Addr |-> <<>>]
     /\ UNCHANGED now
  \/ UNCHANGED limiter

\* Neither does time or forgetting give an address more than its rate.
LEMMA LimitingKeeps == LimiterInv /\ Limiting => LimiterInv'
<1> SUFFICES ASSUME LimiterInv, Limiting PROVE LimiterInv'
  OBVIOUS
<1>0. now \in Nat /\ MaxTime \in Nat
  BY Constants DEF LimiterInv
<1>1. CASE Tick /\ UNCHANGED <<visitors, passed>>
  <2>1. now' = now + 1 /\ now' \in 0 .. MaxTime
    BY <1>0, <1>1 DEF Tick
  <2>2. ASSUME NEW a \in Addr, NEW i \in DOMAIN passed[a] PROVE Paced(a, i)'
    <3>1. Paced(a, i) /\ passed[a][i] \in Int /\ Len(passed[a]) - i + 1 \in Int
      BY DEF LimiterInv, Paced
    <3>2. Rate * (now - passed[a][i]) <= Rate * (now' - passed[a][i])
      <4>1. now \in Int /\ now' \in Int /\ passed[a][i] \in Int
        BY <1>0, <2>1, <3>1
      <4>2. /\ Rate * (now' - now) + Rate * (now - passed[a][i]) = Rate * (now' - passed[a][i])
            /\ Rate * (now' - now) >= 0 /\ Rate * (now' - now) \in Int
            /\ Rate * (now - passed[a][i]) \in Int
        <5>1. now' >= now
          BY <1>0, <2>1
        <5>2. QED
          BY <4>1, <5>1, Flow, FlowSum
      <4>3. QED
        BY <4>2
    <3>3. /\ Rate * (now - passed[a][i]) \in Int /\ Rate * (now' - passed[a][i]) \in Int
      <4>1. now \in Int /\ now' \in Int
        BY <1>0, <2>1
      <4>2. QED
        BY <3>1, <4>1, Flow
    <3>4. QED
      BY <1>0, <1>1, <2>1, <3>1, <3>2, <3>3 DEF Paced
  <2>3. \A a \in Addr : visitors'[a] # NoVisitor => visitors'[a].lastSeen <= now'
    <3>1. \A a \in Addr : visitors[a] # NoVisitor => visitors[a].lastSeen \in Nat
      BY DEF LimiterInv, Bucket
    <3>2. QED
      BY <1>0, <1>1, <2>1, <3>1 DEF LimiterInv
  <2>4. QED
    BY <1>1, <2>1, <2>2, <2>3 DEF LimiterInv, RateBound
<1>2. CASE Cleanup
  <2>1. /\ UNCHANGED <<now, passed>>
        /\ \A a \in Addr :
             \/ visitors'[a] = visitors[a]
             \/ visitors'[a] = NoVisitor /\ now - visitors[a].lastSeen > IdleLimit
    BY <1>2 DEF Cleanup
  <2>2. visitors' \in [Addr -> Bucket \cup {NoVisitor}]
    BY <1>2 DEF Cleanup, LimiterInv
  <2>3. ASSUME NEW a \in Addr, NEW i \in DOMAIN passed[a],
               visitors'[a] = NoVisitor, visitors[a] # NoVisitor,
               now - visitors[a].lastSeen > IdleLimit
        PROVE  Len(passed[a]) - i + 1 <= Rate * (now - passed[a][i])
    <3> DEFINE p == passed[a][i]
               s == visitors[a].lastSeen
               tokens == visitors[a].tokens
               count == Len(passed[a]) - i + 1
    <3>1. /\ p \in Int /\ s \in Int /\ now \in Int /\ tokens \in Nat /\ count \in Int
          /\ count + tokens <= Burst + Rate * (s - p)
      <4>1. Paced(a, i) /\ visitors[a] \in Bucket
        BY <2>3 DEF LimiterInv
      <4>2. QED
        BY <1>0, <2>3, <4>1, Constants, SMTT(30) DEF Paced, Bucket
    <3>2. now - s >= IdleLimit
      <4>1. now - s > IdleLimit /\ s \in Int /\ now \in Int /\ IdleLimit \in Int
        BY <2>3, <3>1, Constants
      <4>2. QED
        BY <4>1
    <3> HIDE DEF p, s, tokens, count
    <3>3. Rate * (now - s) >= Rate * IdleLimit /\ Rate * IdleLimit = IdleLimit * Rate
      BY <3>1, <3>2, Constants
    <3>4. Rate * (now - s) >= Burst /\ Rate * (now - s) \in Int
      BY <3>1, <3>3, Constants, Flow
    <3>5. Rate * (now - s) + Rate * (s - p) = Rate * (now - p)
      BY <3>1, FlowSum
    <3>6. Rate * (s - p) \in Int /\ Burst \in Int
      BY <3>1, Flow, Constants
    <3>7. count <= Rate * (now - p)
      BY <3>1, <3>4, <3>5, <3>6
    <3>8. QED
      BY <3>7 DEF p, count
  <2>4. ASSUME NEW a \in Addr, NEW i \in DOMAIN passed[a] PROVE Paced(a, i)'
    BY <2>1, <2>3 DEF LimiterInv, Paced
  <2>5. QED
    BY <2>1, <2>2, <2>4 DEF LimiterInv, RateBound
<1>3. CASE /\ visitors' = [a \in Addr |-> NoVisitor] /\ passed' = [a \in Addr |-> <<>>]
           /\ UNCHANGED now
  BY <1>3 DEF LimiterInv, RateBound
<1>4. CASE UNCHANGED limiter
  BY <1>4 DEF limiter, LimiterInv, RateBound, Paced
<1>5. QED
  BY <1>1, <1>2, <1>3, <1>4 DEF Limiting
-----------------------------------------------------------------------------
(* The types. *)

Request == [id : Nat, token : Presented \cup minted, addr : Addr, op : Op,
            stage : {"verified", "known"}, late : BOOLEAN]
SaveRun == [id : Nat, nonce : Revocable, stage : {"read", "write", "rename", "clean"},
            content : Known]

Types ==
  /\ {nonces, noncesFile, revoked, revokedFile, revokedTmp} \subseteq Known
  /\ uses \in [Nonce -> Seq(Nat)]
  /\ requests \subseteq Request
  /\ saves \subseteq SaveRun
  /\ sealed \subseteq Nonce
  /\ begun \in Nat
  /\ IsFiniteSet(minted) /\ Cardinality(minted) <= MaxMinted

AccessInv == LimiterInv /\ Types

\* A request that goes on, or ends, is one there was.
LEMMA GoOnType ==
  ASSUME requests \subseteq Request, NEW r \in requests, NEW ok \in BOOLEAN,
         GoOn(r, ok, "known")
  PROVE  requests' \subseteq Request
  BY DEF GoOn, Request

LEMMA KnownUpdate ==
  ASSUME NEW f \in Known, NEW n, NEW v \in Nat
  PROVE  [f EXCEPT ![n] = v] \in Known
  BY DEF Known

\* The clock and the buckets change as RateLimiter says, whatever the step.
LEMMA LimiterStep == AccessInv /\ [Next]_accessVars => LimiterInv'
<1> SUFFICES ASSUME AccessInv, [Next]_accessVars PROVE LimiterInv'
  OBVIOUS
<1>1. ASSUME NEW r \in requests, NEW ok \in BOOLEAN, Serve(r, ok) PROVE LimiterInv'
  <2>1. r.addr \in Addr
    BY DEF AccessInv, Types, Request
  <2>2. Allow(r.addr, ok) /\ now' = now
    BY <1>1 DEF Serve
  <2>3. QED
    BY <2>1, <2>2, AllowKeeps DEF AccessInv
<1>2. CASE ~ \E r \in requests, ok \in BOOLEAN : Serve(r, ok)
  <2>1. Limiting
    BY <1>2 DEF Next, Limiting, Arrive, CheckNonce, ReadRevocations, WriteRevocations,
                RenameRevocations, RemoveTmp, Evict, Shutdown, Crash, Others, limiter, accessVars
  <2>2. QED
    BY <2>1, LimitingKeeps DEF AccessInv
<1>3. QED
  BY <1>1, <1>2

LEMMA TypesStep == AccessInv /\ [Next]_accessVars => Types'
<1> SUFFICES ASSUME AccessInv, [Next]_accessVars PROVE Types'
  OBVIOUS
<1>0. Types /\ now \in Nat /\ now' \in Nat
  <2>1. LimiterInv'
    BY LimiterStep
  <2>2. QED
    BY <2>1, Constants DEF AccessInv, LimiterInv
<1>1. ASSUME NEW t \in Presented \cup minted, NEW a \in Addr, NEW op \in Op, Arrive(t, a, op)
      PROVE  Types'
  <2>1. [id |-> begun, token |-> t, addr |-> a, op |-> op, stage |-> "verified",
         late |-> t.nonce \in sealed] \in Request
    BY <1>0 DEF Types, Request
  <2>2. requests' \subseteq Request /\ begun' \in Nat
    BY <1>0, <1>1, <2>1 DEF Arrive, Types
  <2>3. QED
    BY <1>0, <1>1, <2>2 DEF Arrive, Types, Request, nonceVars, revocationVars, effects
<1>2. ASSUME NEW r \in requests, CheckNonce(r) PROVE Types'
  <2>1. \E ok \in BOOLEAN : GoOn(r, ok, "known")
    BY <1>2 DEF CheckNonce
  <2>2. requests' \subseteq Request
    BY <1>0, <2>1, GoOnType DEF Types
  <2>3. /\ nonces' = nonces \/ nonces' = [nonces EXCEPT ![r.token.nonce] = now + NonceTTL]
        /\ uses' = uses \/ uses' = [uses EXCEPT ![r.token.nonce] = Append(@, now)]
        /\ UNCHANGED <<noncesFile, revocationVars, begun, effects>>
    BY <1>2 DEF CheckNonce
  <2>4. nonces' \in Known
    <3>1. nonces \in Known /\ now + NonceTTL \in Nat
      BY <1>0, Constants DEF Types
    <3>2. [nonces EXCEPT ![r.token.nonce] = now + NonceTTL] \in Known
      BY <3>1, KnownUpdate
    <3>3. QED
      BY <2>3, <3>1, <3>2
  <2>5. uses' \in [Nonce -> Seq(Nat)]
    <3>1. \A n \in Nonce : Append(uses[n], now) \in Seq(Nat)
      BY <1>0 DEF Types
    <3> HIDE DEF Types
    <3>2. uses \in [Nonce -> Seq(Nat)]
      BY <1>0 DEF Types
    <3>3. CASE uses' = uses
      BY <3>2, <3>3
    <3>4. CASE uses' = [uses EXCEPT ![r.token.nonce] = Append(@, now)]
      BY <3>1, <3>2, <3>4
    <3>5. QED
      BY <2>3, <3>3, <3>4
  <2>6. QED
    BY <1>0, <2>2, <2>3, <2>4, <2>5 DEF Types, Request, revocationVars, effects
<1>3. ASSUME NEW r \in requests, NEW ok \in BOOLEAN, Serve(r, ok) PROVE Types'
  <2>1. r \in Request
    BY <1>0 DEF Types
  <2>2. /\ requests' \subseteq requests
        /\ UNCHANGED <<nonces, noncesFile, uses, revokedFile, revokedTmp, sealed, begun>>
    BY <1>3 DEF Serve, nonceVars
  <2>3. /\ minted \subseteq minted' /\ IsFiniteSet(minted') /\ Cardinality(minted') <= MaxMinted
    <3>1. \/ minted' = minted
          \/ Cardinality(minted) < MaxMinted /\ minted' = minted \cup {Delegation(r)}
      BY <1>3 DEF Serve, Write, Delegate, Revoke, effects
    <3>2. CASE minted' = minted
      BY <1>0, <3>2 DEF Types
    <3>3. CASE Cardinality(minted) < MaxMinted /\ minted' = minted \cup {Delegation(r)}
      <4>1. IsFiniteSet(minted) /\ Cardinality(minted) \in Nat /\ MaxMinted \in Nat
        BY <1>0, FS_CardinalityType, BoundAssumption DEF Types
      <4>2. /\ IsFiniteSet(minted')
            /\ Cardinality(minted') \in {Cardinality(minted), Cardinality(minted) + 1}
        BY <3>3, <4>1, FS_AddElement
      <4>3. QED
        BY <3>3, <4>1, <4>2
    <3>4. QED
      BY <3>1, <3>2, <3>3
  <2>4. revoked' \in Known /\ saves' \subseteq SaveRun
    <3>1. CASE UNCHANGED <<revoked, saves>>
      BY <1>0, <3>1 DEF Types
    <3>2. CASE r.op.kind = "revoke" /\ Revoke(r)
      <4>1. r.op.nonce \in Revocable /\ r.id \in Nat
        BY <2>1, <3>2 DEF Request, Op
      <4>2. Nothing \in Known
        BY DEF Nothing, Known
      <4>3. revoked' \in Known
        BY <1>0, <3>2, KnownUpdate DEF Revoke, Types
      <4>4. [id |-> r.id, nonce |-> r.op.nonce, stage |-> "read", content |-> Nothing] \in SaveRun
        BY <4>1, <4>2 DEF SaveRun
      <4>5. QED
        BY <1>0, <3>2, <4>3, <4>4 DEF Revoke, Types
    <3>3. QED
      BY <1>3, <3>1, <3>2 DEF Serve, Write, Delegate
  <2>5. QED
    BY <1>0, <2>2, <2>3, <2>4 DEF Types, Request
<1>4. ASSUME NEW s \in saves, ReadRevocations(s) PROVE Types'
  <2>1. [s EXCEPT !.stage = "write", !.content = revoked] \in SaveRun
    BY <1>0 DEF Types, SaveRun
  <2>2. QED
    BY <1>0, <1>4, <2>1 DEF ReadRevocations, Types, Request, nonceVars, effects
<1>5. ASSUME NEW s \in saves, NEW ok \in BOOLEAN, WriteRevocations(s, ok) PROVE Types'
  <2>1. [s EXCEPT !.stage = "rename"] \in SaveRun /\ s.content \in Known
    BY <1>0 DEF Types, SaveRun
  <2>2. saves' \subseteq SaveRun /\ revokedTmp' \in Known
    BY <1>0, <1>5, <2>1 DEF WriteRevocations, Types
  <2>3. QED
    BY <1>0, <1>5, <2>2 DEF WriteRevocations, Types, Request, nonceVars, effects
<1>6. ASSUME NEW s \in saves, RenameRevocations(s) PROVE Types'
  <2>1. [s EXCEPT !.stage = "clean"] \in SaveRun /\ s.nonce \in Nonce
    BY <1>0, RevocableAssumption DEF Types, SaveRun
  <2>2. Nothing \in Known
    BY DEF Nothing, Known
  <2>3. /\ saves' \subseteq SaveRun /\ revokedTmp' \in Known /\ revokedFile' \in Known
        /\ sealed' \subseteq Nonce
    BY <1>0, <1>6, <2>1, <2>2 DEF RenameRevocations, Types
  <2>4. QED
    BY <1>0, <1>6, <2>3 DEF RenameRevocations, Types, Request, nonceVars, effects
<1>7. ASSUME NEW s \in saves, RemoveTmp(s) PROVE Types'
  <2>1. Nothing \in Known
    BY DEF Nothing, Known
  <2>2. QED
    BY <1>0, <1>7, <2>1 DEF RemoveTmp, Types, Request, nonceVars, effects
<1>8. CASE Evict
  <2>1. nonces' \in Known
    BY <1>0, <1>8 DEF Evict, Types, Known
  <2>2. QED
    BY <1>0, <1>8, <2>1 DEF Evict, Types, Request, revocationVars, effects
<1>9. CASE Shutdown
  <2>1. Nothing \in Known /\ Cleaned \in Known /\ LoadNonces(nonces) \in Known
    BY <1>0 DEF Nothing, Cleaned, LoadNonces, Types, Known
  <2>2. QED
    BY <1>0, <1>9, <2>1 DEF Shutdown, Types, Request, effects
<1>10. CASE Crash
  <2>1. LoadNonces(noncesFile) \in Known
    BY <1>0 DEF LoadNonces, Types, Known
  <2>2. uses' \in [Nonce -> Seq(Nat)]
    BY <1>10 DEF Crash
  <2>3. QED
    BY <1>0, <1>10, <2>1, <2>2 DEF Crash, Types, Request, effects
<1>11. CASE (Tick /\ UNCHANGED <<visitors, passed, Others>>) \/ (Cleanup /\ UNCHANGED Others)
            \/ UNCHANGED accessVars
  BY <1>0, <1>11 DEF Others, accessVars, nonceVars, revocationVars, effects, Types, Request
<1>12. QED
  BY <1>1, <1>2, <1>3, <1>4, <1>5, <1>6, <1>7, <1>8, <1>9, <1>10, <1>11 DEF Next

LEMMA AccessStart == Init => AccessInv
<1> SUFFICES ASSUME Init PROVE AccessInv
  OBVIOUS
<1>1. LimiterInv
  BY Constants DEF Init, LimiterInit, LimiterInv, RateBound
<1>2. Nothing \in Known
  BY DEF Nothing, Known
<1>3. IsFiniteSet(minted) /\ Cardinality(minted) <= MaxMinted
  BY FS_EmptySet, BoundAssumption DEF Init
<1>4. Types
  BY <1>2, <1>3 DEF Init, Types
<1>5. QED
  BY <1>1, <1>4 DEF AccessInv

LEMMA AccessAlways == Spec => []AccessInv
<1>1. AccessInv /\ [Next]_accessVars => AccessInv'
  BY LimiterStep, TypesStep DEF AccessInv
<1>2. QED
  BY AccessStart, <1>1, PTL DEF Spec

\* An address gets no more requests through than its rate and a burst, through
\* refusals, silence, forgetting, restarts and crashes.
THEOREM RatesHold == Spec => []RequestsBounded
<1>1. AccessInv => RequestsBounded
  <2> SUFFICES ASSUME AccessInv PROVE RequestsBounded
    OBVIOUS
  <2>1. \A a \in Addr : visitors[a] = NoVisitor \/ visitors[a].tokens \in 0 .. Burst
    BY DEF AccessInv, LimiterInv, Bucket
  <2>2. \A r \in requests : r.stage \in {"verified", "known"} /\ r.op \in Op
    BY DEF AccessInv, Types, Request
  <2>3. \A s \in saves : s.stage \in {"read", "write", "rename", "clean"} /\ s.content \in Known
    BY DEF AccessInv, Types, SaveRun
  <2>4. AccessTypeOK
    BY <2>1, <2>2, <2>3 DEF AccessInv, LimiterInv, Types, AccessTypeOK
  <2>5. QED
    BY <2>4 DEF AccessInv, LimiterInv, RequestsBounded
<1>2. QED
  BY <1>1, AccessAlways, PTL
-----------------------------------------------------------------------------
(* Nonces. *)

\* A nonce taken at some time is remembered until NonceTTL has gone by.
Remembered ==
  \A n \in Nonce : \A i \in DOMAIN uses[n] :
    /\ uses[n][i] <= now
    /\ IF nonces[n] = -1 THEN uses[n][i] + NonceTTL <= now ELSE uses[n][i] + NonceTTL <= nonces[n]

\* The nonces remembered may only be forgotten when their time has come.
LEMMA RememberedForget ==
  ASSUME AccessInv, Remembered, now' \in Nat, now <= now', UNCHANGED uses,
         \A n \in Nonce : nonces'[n] = nonces[n] \/ (nonces'[n] = -1 /\ nonces[n] <= now')
  PROVE  Remembered'
<1>1. \A n \in Nonce : \A i \in DOMAIN uses[n] : uses[n][i] \in Nat
  BY DEF AccessInv, Types
<1>2. \A n \in Nonce : nonces[n] \in Nat \cup {-1}
  BY DEF AccessInv, Types, Known
<1>3. now \in Nat
  BY Constants DEF AccessInv, LimiterInv
<1>4. ASSUME NEW n \in Nonce, NEW i \in DOMAIN uses[n]
      PROVE  /\ uses[n][i] <= now'
             /\ IF nonces'[n] = -1 THEN uses[n][i] + NonceTTL <= now'
                ELSE uses[n][i] + NonceTTL <= nonces'[n]
  <2>1. /\ uses[n][i] <= now
        /\ nonces[n] = -1 => uses[n][i] + NonceTTL <= now
        /\ nonces[n] # -1 => uses[n][i] + NonceTTL <= nonces[n]
    BY DEF Remembered
  <2>2. QED
    BY <1>1, <1>2, <1>3, <2>1, Constants
<1>5. QED
  BY <1>4 DEF Remembered

LEMMA Appended ==
  ASSUME NEW u \in Seq(Nat), NEW v \in Nat
  PROVE  /\ DOMAIN Append(u, v) = 1 .. Len(u) + 1 /\ Len(Append(u, v)) = Len(u) + 1
         /\ Len(u) \in Nat /\ DOMAIN u = 1 .. Len(u)
         /\ \A i \in DOMAIN u : Append(u, v)[i] = u[i]
         /\ Append(u, v)[Len(u) + 1] = v
  OBVIOUS

\* A nonce is taken when it is not remembered.
LEMMA RememberedCheck ==
  ASSUME AccessInv, Remembered, NonceOnce, NEW r \in requests, CheckNonce(r)
  PROVE  Remembered' /\ NonceOnce'
<1> DEFINE k == r.token.nonce
<1>1. now' = now /\ now \in Nat /\ NonceTTL \in Nat
  BY Constants DEF CheckNonce, limiter, AccessInv, LimiterInv
<1>2. CASE nonces[k] # -1
  <2>1. UNCHANGED <<nonces, uses>>
    BY <1>2 DEF CheckNonce
  <2>2. QED
    BY <1>1, <2>1 DEF Remembered, NonceOnce
<1>3. CASE nonces[k] = -1
  <2>1. /\ nonces' = [nonces EXCEPT ![k] = now + NonceTTL]
        /\ uses' = [uses EXCEPT ![k] = Append(@, now)]
    BY <1>3 DEF CheckNonce
  <2>2. uses \in [Nonce -> Seq(Nat)] /\ nonces \in Known
    BY DEF AccessInv, Types
  <2>3. \A n \in Nonce : n # k => nonces'[n] = nonces[n] /\ uses'[n] = uses[n]
    BY <2>1, <2>2 DEF Known
  <2> HIDE DEF k
  <2>4. ASSUME k \in Nonce
        PROVE  /\ nonces'[k] = now + NonceTTL
               /\ uses[k] \in Seq(Nat) /\ uses'[k] = Append(uses[k], now)
    BY <2>1, <2>2, <2>4 DEF Known
  <2>5. ASSUME k \in Nonce, NEW i \in DOMAIN uses[k]
        PROVE  uses[k][i] \in Nat /\ uses[k][i] + NonceTTL <= now /\ uses[k][i] <= now
    BY <1>3, <2>4, <2>5 DEF Remembered
  <2>6. ASSUME k \in Nonce
        PROVE  /\ DOMAIN uses'[k] = 1 .. Len(uses[k]) + 1 /\ Len(uses'[k]) = Len(uses[k]) + 1
               /\ Len(uses[k]) \in Nat /\ DOMAIN uses[k] = 1 .. Len(uses[k])
               /\ \A i \in DOMAIN uses[k] : uses'[k][i] = uses[k][i]
               /\ uses'[k][Len(uses[k]) + 1] = now
    <3>1. uses[k] \in Seq(Nat) /\ uses'[k] = Append(uses[k], now)
      BY <2>4, <2>6
    <3> DEFINE u == uses[k]
               w == uses'[k]
    <3>2. u \in Seq(Nat) /\ w = Append(u, now)
      BY <3>1
    <3> HIDE DEF u, w
    <3>3. /\ DOMAIN w = 1 .. Len(u) + 1 /\ Len(w) = Len(u) + 1
          /\ Len(u) \in Nat /\ DOMAIN u = 1 .. Len(u)
          /\ \A i \in DOMAIN u : w[i] = u[i]
          /\ w[Len(u) + 1] = now
      BY <1>1, <3>2, Appended
    <3>4. QED
      BY <3>3 DEF u, w
  <2>7. ASSUME NEW n \in Nonce, NEW i \in DOMAIN uses'[n]
        PROVE  /\ uses'[n][i] <= now
               /\ IF nonces'[n] = -1 THEN uses'[n][i] + NonceTTL <= now
                  ELSE uses'[n][i] + NonceTTL <= nonces'[n]
    <3>1. CASE n # k
      BY <2>3, <2>7, <3>1 DEF Remembered
    <3>2. CASE n = k
      <4>1. nonces'[k] = now + NonceTTL /\ nonces'[k] # -1
        BY <1>1, <2>4, <3>2
      <4>2. uses'[k][i] \in Nat /\ uses'[k][i] <= now
        BY <1>1, <2>5, <2>6, <2>7, <3>2
      <4>3. QED
        BY <1>1, <3>2, <4>1, <4>2
    <3>3. QED
      BY <3>1, <3>2
  <2>8. Remembered'
    BY <1>1, <2>7 DEF Remembered
  <2>9. ASSUME NEW n \in Nonce, NEW i \in 2 .. Len(uses'[n])
        PROVE  uses'[n][i] >= uses'[n][i - 1] + NonceTTL
    <3>1. CASE n # k
      BY <2>3, <2>9, <3>1 DEF NonceOnce
    <3>2. CASE n = k /\ i \in DOMAIN uses[n]
      <4>1. i \in 2 .. Len(uses[n]) /\ i - 1 \in DOMAIN uses[n]
        BY <2>6, <2>9, <3>2
      <4>2. QED
        BY <2>6, <3>2, <4>1 DEF NonceOnce
    <3>3. CASE n = k /\ i = Len(uses[k]) + 1
      <4>1. i - 1 \in DOMAIN uses[k]
        BY <2>6, <2>9, <3>3
      <4>2. QED
        BY <1>1, <2>5, <2>6, <3>3, <4>1
    <3>4. QED
      BY <2>6, <2>9, <3>1, <3>2, <3>3
  <2>10. QED
    BY <2>8, <2>9 DEF NonceOnce
<1>4. QED
  BY <1>2, <1>3

\* A nonce is taken again only when it was forgotten, and it is forgotten only
\* when NonceTTL has gone by: after evictions, restarts, and races.
THEOREM NoReplay == Spec => []NonceOnce
<1> DEFINE I == Remembered /\ NonceOnce
<1>1. Init => I
  BY DEF Init, Remembered, NonceOnce
<1>2. AccessInv /\ AccessInv' /\ I /\ [Next]_accessVars => I'
  <2> SUFFICES ASSUME AccessInv, AccessInv', I, [Next]_accessVars PROVE I'
    OBVIOUS
  <2>0. /\ now \in Nat /\ now' \in Nat
        /\ \A n \in Nonce : nonces[n] \in Nat \cup {-1} /\ noncesFile[n] \in Nat \cup {-1}
    BY Constants DEF AccessInv, LimiterInv, Types, Known
  <2>1. CASE \E r \in requests : CheckNonce(r)
    BY <2>1, RememberedCheck
  <2>2. CASE Crash
    BY <2>2 DEF Crash, Remembered, NonceOnce
  <2>3. CASE Evict
    <3>1. now' = now /\ uses' = uses
      BY <2>3 DEF Evict, limiter
    <3>2. \A n \in Nonce : nonces'[n] = nonces[n] \/ (nonces'[n] = -1 /\ nonces[n] <= now')
      BY <2>0, <2>3, <3>1 DEF Evict
    <3>3. QED
      BY <2>0, <3>1, <3>2, RememberedForget DEF NonceOnce
  <2>4. CASE Shutdown
    <3>1. now' = now /\ uses' = uses
      BY <2>4 DEF Shutdown
    <3>2. \A n \in Nonce : nonces'[n] = nonces[n] \/ (nonces'[n] = -1 /\ nonces[n] <= now')
      BY <2>0, <2>4, <3>1 DEF Shutdown, LoadNonces
    <3>3. QED
      BY <2>0, <3>1, <3>2, RememberedForget DEF NonceOnce
  <2>5. CASE Tick /\ UNCHANGED <<visitors, passed, Others>>
    <3>1. now <= now' /\ uses' = uses /\ nonces' = nonces
      BY <2>0, <2>5 DEF Tick, Others, nonceVars
    <3>2. QED
      BY <2>0, <3>1, RememberedForget DEF NonceOnce
  <2>6. CASE UNCHANGED <<now, nonces, uses>>
    BY <2>6 DEF Remembered, NonceOnce
  <2>7. QED
    BY <2>1, <2>2, <2>3, <2>4, <2>5, <2>6
       DEF Next, Arrive, Serve, ReadRevocations, WriteRevocations, RenameRevocations, RemoveTmp,
           Cleanup, Others, nonceVars, limiter, accessVars
<1>3. QED
  BY <1>1, <1>2, AccessAlways, PTL DEF Spec
-----------------------------------------------------------------------------
(* Delegation. *)

Tree(g, t, k) ==
  g = [d \in 0 .. k |-> IF d = 0 THEN {t} ELSE UNION {u.proofs : u \in g[d - 1]}]

\* A set of numbers that is not empty has a least one.
LEMMA Least ==
  ASSUME NEW T \in SUBSET Nat, T # {}
  PROVE  \E k \in T : \A j \in T : k <= j
<1>1. PICK k \in T : \A j \in T : ~ (<<j, k>> \in OpToRel(<, Nat))
  BY WFMin, NatLessThanWellFounded
<1>2. \A j \in T : ~ (j < k)
  BY <1>1 DEF OpToRel
<1>3. QED
  BY <1>2

\* The generations of a token are what their definition says, to every depth:
\* with the generations above some depth one has those a step further down.
LEMMA TreeExists ==
  ASSUME NEW t, NEW n \in Nat
  PROVE  \E g : Tree(g, t, n)
<1> DEFINE T == {k \in Nat : ~ \E g : Tree(g, t, k)}
<1> SUFFICES ASSUME T # {} PROVE FALSE
  OBVIOUS
<1>1. PICK k \in T : \A j \in T : k <= j
  BY Least
<1>2. CASE k = 0
  <2> DEFINE g == [d \in 0 .. 0 |-> {t}]
  <2>1. g = [d \in 0 .. 0 |-> IF d = 0 THEN {t} ELSE UNION {u.proofs : u \in g[d - 1]}]
    OBVIOUS
  <2>2. Tree(g, t, 0)
    BY <2>1 DEF Tree
  <2>3. QED
    BY <1>2, <2>2
<1>3. CASE k # 0
  <2>1. k - 1 \in Nat /\ k - 1 \notin T
    BY <1>1, <1>3
  <2>2. PICK g : Tree(g, t, k - 1)
    BY <2>1
  <2> DEFINE above(d) == UNION {u.proofs : u \in g[d - 1]}
             h == [d \in 0 .. k |-> IF d = 0 THEN {t} ELSE above(d)]
  <2>3. \A d \in 0 .. k - 1 : g[d] = h[d]
    <3>1. \A d \in 0 .. k - 1 : g[d] = IF d = 0 THEN {t} ELSE above(d)
      BY <2>2 DEF Tree
    <3> HIDE DEF above
    <3>2. \A d \in 0 .. k : h[d] = IF d = 0 THEN {t} ELSE above(d)
      OBVIOUS
    <3> HIDE DEF h
    <3>3. \A d \in 0 .. k - 1 : d \in 0 .. k
      BY <2>1
    <3>4. QED
      BY <3>1, <3>2, <3>3
  <2>4. \A d \in 0 .. k : d # 0 => g[d - 1] = h[d - 1]
    <3> HIDE DEF h
    <3>1. \A d \in 0 .. k : d # 0 => d - 1 \in 0 .. k - 1
      BY <2>1
    <3>2. QED
      BY <2>3, <3>1
  <2>5. \A d \in 0 .. k : d # 0 => above(d) = UNION {u.proofs : u \in h[d - 1]}
    BY <2>4
  <2>6. h = [d \in 0 .. k |-> IF d = 0 THEN {t} ELSE UNION {u.proofs : u \in h[d - 1]}]
    <3> HIDE DEF above
    <3>1. h = [d \in 0 .. k |-> IF d = 0 THEN {t} ELSE above(d)]
      OBVIOUS
    <3> HIDE DEF h
    <3>2. QED
      BY <2>5, <3>1
  <2> HIDE DEF h
  <2>7. Tree(h, t, k)
    BY <2>6 DEF Tree
  <2>8. QED
    BY <2>7
<1>4. QED
  BY <1>2, <1>3

LEMMA GenerationsTree ==
  ASSUME NEW t
  PROVE  /\ Generations(t)[0] = {t}
         /\ \A d \in 1 .. MaxDepth : Generations(t)[d] = UNION {u.proofs : u \in Generations(t)[d - 1]}
<1>1. \E g : Tree(g, t, MaxDepth)
  BY Constants, TreeExists
<1>2. Generations(t) = CHOOSE g : Tree(g, t, MaxDepth)
  BY DEF Generations, Tree
<1>3. Tree(Generations(t), t, MaxDepth)
  BY <1>1, <1>2
<1> DEFINE G == Generations(t)
<1> HIDE DEF G
<1>4. \A d \in 0 .. MaxDepth : G[d] = IF d = 0 THEN {t} ELSE UNION {u.proofs : u \in G[d - 1]}
  BY <1>3 DEF Tree, G
<1>5. G[0] = {t}
  <2>1. 0 \in 0 .. MaxDepth
    BY Constants
  <2>2. G[0] = IF 0 = 0 THEN {t} ELSE UNION {u.proofs : u \in G[0 - 1]}
    BY ONLY <1>4, <2>1
  <2>3. QED
    BY <2>2
<1>6. \A d \in 1 .. MaxDepth : d \in 0 .. MaxDepth /\ d # 0
  OBVIOUS
<1>7. \A d \in 1 .. MaxDepth : G[d] = UNION {u.proofs : u \in G[d - 1]}
  BY <1>4, <1>6
<1>8. QED
  BY <1>5, <1>7 DEF G

\* A proof that covers a token's capabilities allows what the token allows.
LEMMA Covers ==
  ASSUME NEW child, NEW parent, NEW action, CapabilitiesSubset(child, parent),
         HasCapability(child, Repo, action)
  PROVE  HasCapability(parent, Repo, action)
<1>1. PICK c \in child : c.resource \in {Repo, All} /\ {action, All} \cap c.actions # {}
  BY DEF HasCapability
<1>2. PICK p \in parent : /\ p.resource \in {c.resource, All}
                          /\ \A a \in c.actions : a \in p.actions \/ All \in p.actions
  BY <1>1 DEF CapabilitiesSubset, ActionAllowed
<1>3. {action, All} \cap p.actions # {}
  BY <1>1, <1>2
<1>4. QED
  BY <1>1, <1>2, <1>3 DEF HasCapability

Chained(t) == \A u \in Ancestors(t) : \A p \in u.proofs : Delegates(p, u)

\* So does every token of a good chain, however long: take the first generation
\* with one that does not.
LEMMA ChainAllows ==
  ASSUME NEW t, NEW action, Chained(t), HasCapability(t.caps, Repo, action)
  PROVE  \A p \in Ancestors(t) : HasCapability(p.caps, Repo, action)
<1> DEFINE G == Generations(t)
           T == {d \in 0 .. MaxDepth : \E p \in G[d] : ~ HasCapability(p.caps, Repo, action)}
<1>0. /\ G[0] = {t} /\ \A d \in 1 .. MaxDepth : G[d] = UNION {u.proofs : u \in G[d - 1]}
      /\ Ancestors(t) = UNION {G[d] : d \in 0 .. MaxDepth}
  BY GenerationsTree DEF Ancestors
<1> HIDE DEF G
<1>1. T = {}
  <2> SUFFICES ASSUME T # {} PROVE FALSE
    OBVIOUS
  <2>1. T \in SUBSET Nat
    OBVIOUS
  <2>2. PICK d \in T : \A j \in T : d <= j
    <3> HIDE DEF T
    <3>1. QED
      BY <2>1, Least
  <2>3. PICK p \in G[d] : ~ HasCapability(p.caps, Repo, action)
    BY <2>2
  <2>4. d # 0
    BY <1>0, <2>3
  <2>5. d \in 1 .. MaxDepth /\ d - 1 \in 0 .. MaxDepth /\ d - 1 \notin T
    BY <2>2, <2>4, Constants
  <2>6. PICK u \in G[d - 1] : p \in u.proofs
    BY <1>0, <2>3, <2>5
  <2>7. HasCapability(u.caps, Repo, action)
    BY <2>5, <2>6
  <2>8. Delegates(p, u)
    BY <1>0, <2>5, <2>6 DEF Chained
  <2>9. QED
    BY <2>3, <2>7, <2>8, Covers DEF Delegates
<1>2. QED
  BY <1>0, <1>1

\* A request that has come past the nonce has a good chain.
AllChained == \A r \in requests : r.stage = "known" => Chained(r.token)

\* What a handler does is within every token of the chain.
LEMMA ServeAttenuated ==
  ASSUME Attenuated, AllChained, NEW r \in requests, NEW ok \in BOOLEAN, Serve(r, ok)
  PROVE  Attenuated'
<1>1. \A action : HasCapability(r.token.caps, Repo, action) =>
        \A p \in Ancestors(r.token) : HasCapability(p.caps, Repo, action)
  BY ChainAllows DEF Serve, AllChained
<1>2. CASE r.op.kind = "write" /\ Write(r)
  <2>1. \A t \in performed' \ performed : t = r.token /\ HasCapability(t.caps, Repo, "write")
    BY <1>2 DEF Write
  <2>2. lineage' = lineage
    BY <1>2 DEF Write
  <2>3. QED
    BY <1>1, <2>1, <2>2 DEF Attenuated
<1>3. CASE r.op.kind = "delegate" /\ Delegate(r)
  <2>1. CASE UNCHANGED lineage
    BY <1>3, <2>1 DEF Delegate, Attenuated
  <2>2. CASE /\ HasCapability(r.token.caps, Repo, r.op.action)
             /\ lineage' = lineage \cup {<<Delegation(r), r.token>>}
    <3> DEFINE new == <<Delegation(r), r.token>>
    <3>1. ASSUME NEW action, HasCapability(new[1].caps, Repo, action)
          PROVE  HasCapability(r.token.caps, Repo, action)
      <4>1. new[1].caps = {[resource |-> Repo, actions |-> {r.op.action}]}
        BY DEF Delegation
      <4>2. r.op.action \in {action, All}
        BY <3>1, <4>1 DEF HasCapability
      <4>3. QED
        BY <2>2, <4>2 DEF HasCapability
    <3>2. \A action \in {"write", All} :
            HasCapability(new[1].caps, Repo, action) =>
              \A p \in Ancestors(new[2]) : HasCapability(p.caps, Repo, action)
      BY <1>1, <3>1
    <3>3. lineage' = lineage \cup {new} /\ performed' = performed
      BY <1>3, <2>2 DEF Delegate
    <3> HIDE DEF new
    <3>4. QED
      BY <3>2, <3>3 DEF Attenuated
  <2>3. QED
    BY <1>3, <2>1, <2>2 DEF Delegate
<1>4. CASE UNCHANGED effects
  BY <1>4 DEF effects, Attenuated
<1>5. QED
  BY <1>2, <1>3, <1>4 DEF Serve, Revoke

\* No request does more than every token of its chain allows, and no token the
\* daemon signs allows more than the chain it was asked for with: whatever the
\* tokens, their depth and the order of the requests.
THEOREM NothingGained == Spec => []Attenuated
<1> DEFINE I == AllChained /\ Attenuated
<1>1. Init => I
  BY DEF Init, AllChained, Attenuated
<1>2. AccessInv /\ I /\ [Next]_accessVars => I'
  <2> SUFFICES ASSUME AccessInv, I, [Next]_accessVars PROVE I'
    OBVIOUS
  <2>1. ASSUME NEW t, NEW a, NEW op, Arrive(t, a, op) PROVE I'
    BY <2>1 DEF Arrive, AllChained, Attenuated, effects
  <2>2. ASSUME NEW r \in requests, CheckNonce(r) PROVE I'
    <3>1. r \in Request
      BY DEF AccessInv, Types
    <3>2. PICK ok \in BOOLEAN :
            /\ GoOn(r, ok, "known")
            /\ ok => VerifyProofChain(r.token, now)
      BY <2>2 DEF CheckNonce
    <3>3. \A q \in requests' : q \in requests \/ (q.token = r.token /\ Chained(r.token))
      BY <3>1, <3>2 DEF GoOn, Request, VerifyProofChain, Chained
    <3>4. UNCHANGED <<performed, lineage>>
      BY <2>2 DEF CheckNonce, effects
    <3>5. QED
      BY <3>3, <3>4 DEF AllChained, Attenuated, Chained
  <2>3. ASSUME NEW r \in requests, NEW ok \in BOOLEAN, Serve(r, ok) PROVE I'
    BY <2>3, ServeAttenuated DEF Serve, AllChained, Chained
  <2>4. CASE requests' \subseteq requests /\ UNCHANGED effects
    BY <2>4 DEF AllChained, Chained, Attenuated, effects
  <2>5. QED
    BY <2>1, <2>2, <2>3, <2>4
       DEF Next, ReadRevocations, WriteRevocations, RenameRevocations, RemoveTmp, Evict, Shutdown,
           Crash, Others, accessVars
<1>3. QED
  BY <1>1, <1>2, AccessAlways, PTL DEF Spec
-----------------------------------------------------------------------------
(* Revocation. *)

Tokens == Presented \cup minted

\* The nonces of the tokens the daemon has yet to sign.
Unminted == Cardinality(minted) + 1 .. MaxMinted

\* The nonces of the tokens that have not run out.
Alive == {n \in Nonce : \E t \in Tokens : t.nonce = n /\ t.expires >= now - Skew}

\* Revocations, in memory or in a file, that came after their tokens began.
Timely(known, unminted, tokens) ==
  \A n \in Nonce : known[n] # -1 =>
    n \notin unminted /\ \A t \in tokens : t.nonce = n => t.begins <= known[n]

\* One store has every revocation of the other that still matters.
Within(known, alive, store) == \A n \in alive : known[n] # -1 => store[n] # -1

\* A sealed revocation is in memory, in the file, and in all that may become
\* the file.
Kept(n) ==
  /\ revoked[n] # -1 /\ revokedFile[n] # -1
  /\ revokedTmp = Nothing \/ revokedTmp[n] # -1
  /\ \A s \in saves : s.stage # "read" => s.content[n] # -1

MintedSound ==
  \A t \in minted : t.begins \in Nat /\ t.begins <= now /\ t.expires = t.begins + Lifetime

AllTimely ==
  /\ \A known \in {revoked, revokedFile, revokedTmp} : Timely(known, Unminted, Tokens)
  /\ \A s \in saves : Timely(s.content, Unminted, Tokens)
  /\ sealed \cap Unminted = {}

\* What a save copied is revoked; so is what it wrote, until it is renamed.  A
\* file that a crash left behind may have more.
SavesWithin ==
  /\ \A s \in saves : Within(s.content, Alive, revoked)
  /\ (\E s \in saves : s.stage = "rename") => Within(revokedTmp, Alive, revoked)

SealKept == \A n \in sealed : n \in Alive => Kept(n)

RevocationInv == MintedSound /\ AllTimely /\ SavesWithin /\ SealKept /\ RevokedRefused

\* Nobody revokes a token before it begins, or one that is yet to be signed: a
\* shutdown goes by the time of the revocation and would forget that one while
\* the token lives.
RevokesBegun ==
  \A r \in requests :
    r.op.kind = "revoke" /\ Serve(r, TRUE) =>
      /\ r.op.nonce \notin Unminted
      /\ \A t \in Presented : t.nonce = r.op.nonce => t.begins <= now

\* A token's revocation is kept until it has run out: so with those the daemon
\* signs; of the others Verify asks no such thing.
ShortLived == \A t \in Presented : t.expires + Skew <= t.begins + MaxAge

\* Tokens: those added had nonces of their own kept for them; time only ends them.
LEMMA TokensStep ==
  ASSUME AccessInv, AccessInv', MintedSound, [Next]_accessVars
  PROVE  /\ MintedSound' /\ Unminted' \subseteq Unminted
         /\ \A t \in Tokens' \ Tokens : t.nonce \in Unminted
         /\ Alive' \subseteq Alive \cup Unminted
<1>0. /\ now \in Nat /\ now' \in Nat /\ IsFiniteSet(minted) /\ Cardinality(minted) \in Nat
      /\ MaxMinted \in Nat
  BY Constants, BoundAssumption, FS_CardinalityType DEF AccessInv, LimiterInv, Types
<1>1. now <= now'
  <2>1. now' = now \/ now' = now + 1
    BY DEF Next, Arrive, CheckNonce, Serve, Allow, ReadRevocations, WriteRevocations,
           RenameRevocations, RemoveTmp, Evict, Shutdown, Crash, Tick, Cleanup, limiter, accessVars
  <2>2. QED
    BY <1>0, <2>1
<1>2. \/ minted' = minted
      \/ /\ Cardinality(minted) < MaxMinted /\ now' = now
         /\ \E r \in requests : minted' = minted \cup {Delegation(r)}
  BY ZenonT(60) DEF Next, Arrive, CheckNonce, Serve, Allow, Write, Delegate, Revoke, ReadRevocations,
         WriteRevocations, RenameRevocations, RemoveTmp, Evict, Shutdown, Crash, Others,
         effects, accessVars
<1>3. MintedSound' /\ Unminted' \subseteq Unminted /\ \A t \in Tokens' \ Tokens : t.nonce \in Unminted
  <2>1. CASE minted' = minted
    <3>1. MintedSound'
      BY <1>0, <1>1, <2>1 DEF MintedSound
    <3>2. QED
      BY <2>1, <3>1 DEF Unminted, Tokens
  <2>2. ASSUME NEW r \in requests, minted' = minted \cup {Delegation(r)},
               Cardinality(minted) < MaxMinted, now' = now
        PROVE  MintedSound' /\ Unminted' \subseteq Unminted
               /\ \A t \in Tokens' \ Tokens : t.nonce \in Unminted
    <3> DEFINE new == Delegation(r)
    <3>1. /\ new.nonce = Cardinality(minted) + 1 /\ new.begins = now
          /\ new.expires = now + Lifetime
      BY DEF Delegation
    <3> HIDE DEF new
    <3>2. MintedSound'
      <4>1. new.begins \in Nat /\ new.begins <= now' /\ new.expires = new.begins + Lifetime
        BY <1>0, <2>2, <3>1
      <4>2. \A t \in minted : t.begins \in Nat /\ t.begins <= now' /\ t.expires = t.begins + Lifetime
        BY <2>2 DEF MintedSound
      <4>3. minted' = minted \cup {new}
        BY <2>2 DEF new
      <4>4. QED
        BY <4>1, <4>2, <4>3 DEF MintedSound
    <3>3. Cardinality(minted') \in {Cardinality(minted), Cardinality(minted) + 1}
      BY <1>0, <2>2, <3>1, FS_AddElement
    <3>4. Unminted' \subseteq Unminted
      BY <1>0, <3>3 DEF Unminted
    <3>5. new.nonce \in Unminted
      BY <1>0, <2>2, <3>1 DEF Unminted
    <3>6. \A t \in Tokens' \ Tokens : t = new
      BY <2>2 DEF Tokens, new
    <3>7. QED
      BY <3>2, <3>4, <3>5, <3>6
  <2>3. QED
    BY <1>2, <2>1, <2>2
<1>4. Alive' \subseteq Alive \cup Unminted
  <2> SUFFICES ASSUME NEW n \in Nonce, NEW t \in Tokens', t.nonce = n, t.expires >= now' - Skew
               PROVE  n \in Alive \cup Unminted
    BY DEF Alive
  <2>1. CASE t \in Tokens
    <3>1. t.expires \in Int
      BY <1>0, <2>1, TokenAssumption, Constants DEF Tokens, MintedSound
    <3>2. t.expires >= now - Skew
      BY <1>0, <1>1, <3>1, Constants
    <3>3. QED
      BY <2>1, <3>2 DEF Alive
  <2>2. CASE t \notin Tokens
    BY <1>3, <2>2
  <2>3. QED
    BY <2>1, <2>2
<1>5. QED
  BY <1>3, <1>4

\* Whoever is alive after a step was alive before it, or is not in any store.
LEMMA AliveStep ==
  ASSUME AccessInv, AccessInv', MintedSound, [Next]_accessVars
  PROVE  /\ Alive' \subseteq Alive \cup Unminted /\ Alive' \subseteq Nonce
         /\ \A n \in Alive' : \A known : Timely(known, Unminted, Tokens) /\ known[n] # -1 => n \in Alive
<1>1. Alive' \subseteq Alive \cup Unminted /\ Alive' \subseteq Nonce
  BY TokensStep DEF Alive
<1>2. QED
  BY <1>1 DEF Timely

\* A revocation that matters is too young to be cleaned.
LEMMA CleanedKeeps ==
  ASSUME ShortLived, AccessInv, RevocationInv, NEW n \in Alive
  PROVE  revoked[n] # -1 => Cleaned[n] # -1
<1>1. now \in Nat /\ n \in Nonce /\ revoked[n] \in Nat \cup {-1}
  BY Constants DEF AccessInv, LimiterInv, Types, Known, Alive
<1>2. PICK t \in Tokens : t.nonce = n /\ t.expires >= now - Skew
  BY DEF Alive
<1>3. t.begins \in Nat /\ t.expires \in Int /\ t.expires + Skew <= t.begins + MaxAge
  BY TokenAssumption, Constants DEF Tokens, ShortLived, RevocationInv, MintedSound
<1>4. revoked[n] # -1 => t.begins <= revoked[n]
  BY <1>1, <1>2 DEF RevocationInv, AllTimely, Timely
<1>5. Cleaned[n] = IF revoked[n] < now - MaxAge THEN -1 ELSE revoked[n]
  BY <1>1 DEF Cleaned
<1>6. QED
  BY <1>1, <1>2, <1>3, <1>4, <1>5, Constants

\* The stores after a step, by the tokens before it.
StoresTimely ==
  /\ \A known \in {revoked', revokedFile', revokedTmp'} : Timely(known, Unminted, Tokens)
  /\ \A s \in saves' : Timely(s.content, Unminted, Tokens)
  /\ sealed' \cap Unminted = {}

\* What a step does to the stores: each becomes another one, or, for the memory,
\* learns of a revocation now or is cleaned.
LEMMA StoresStep ==
  ASSUME AccessInv, AccessInv', RevocationInv, RevokesBegun, [Next]_accessVars
  PROVE  StoresTimely
<1> DEFINE F == Unminted
           good(known) == Timely(known, F, Tokens)
           allGood == /\ good(revoked') /\ good(revokedFile') /\ good(revokedTmp')
                      /\ \A s \in saves' : good(s.content)
<1>0. /\ good(revoked) /\ good(revokedFile) /\ good(revokedTmp) /\ good(Nothing)
      /\ \A s \in saves : good(s.content)
  BY DEF RevocationInv, AllTimely, Timely, Nothing
<1>1. good(Cleaned)
  BY <1>0 DEF Cleaned, Timely
<1>2. ASSUME NEW r \in requests, NEW ok \in BOOLEAN, Serve(r, ok)
      PROVE  /\ good(revoked') /\ UNCHANGED <<revokedFile, revokedTmp, sealed>>
             /\ \A s \in saves' : s \in saves \/ s.content = Nothing
  <2>1. CASE UNCHANGED <<revoked, saves>>
    BY <1>0, <1>2, <2>1 DEF Serve
  <2>2. CASE ok /\ r.op.kind = "revoke" /\ Revoke(r)
    <3> DEFINE k == r.op.nonce
    <3>1. /\ k \notin F /\ \A t \in Presented : t.nonce = k => t.begins <= now
          /\ \A t \in minted : t.begins <= now
      BY <1>2, <2>2 DEF RevokesBegun, RevocationInv, MintedSound
    <3>2. /\ revoked' = [revoked EXCEPT ![k] = now] /\ revoked \in Known
          /\ \A s \in saves' : s \in saves \/ s.content = Nothing
      BY <2>2 DEF Revoke, AccessInv, Types
    <3> HIDE DEF k, F
    <3>3. good(revoked')
      BY <1>0, <3>1, <3>2 DEF Timely, Tokens, Known
    <3>4. QED
      BY <1>2, <3>2, <3>3 DEF Serve
  <2>3. QED
    BY <1>2, <2>1, <2>2 DEF Serve, Write, Delegate
<1>3. allGood
  <2>1. ASSUME NEW r \in requests, NEW ok \in BOOLEAN, Serve(r, ok) PROVE allGood
    BY <1>0, <1>2, <2>1
  <2>2. ASSUME NEW s \in saves, ReadRevocations(s) PROVE allGood
    <3>1. [s EXCEPT !.stage = "write", !.content = revoked].content = revoked
      BY DEF AccessInv, Types, SaveRun
    <3>2. QED
      BY <1>0, <2>2, <3>1 DEF ReadRevocations
  <2>3. ASSUME NEW s \in saves, NEW ok \in BOOLEAN, WriteRevocations(s, ok) PROVE allGood
    <3>1. [s EXCEPT !.stage = "rename"].content = s.content
      BY DEF AccessInv, Types, SaveRun
    <3>2. QED
      BY <1>0, <2>3, <3>1 DEF WriteRevocations
  <2>4. ASSUME NEW s \in saves, RenameRevocations(s) PROVE allGood
    <3>1. [s EXCEPT !.stage = "clean"].content = s.content
      BY DEF AccessInv, Types, SaveRun
    <3>2. QED
      BY <1>0, <2>4, <3>1 DEF RenameRevocations
  <2>5. ASSUME NEW s \in saves, RemoveTmp(s) PROVE allGood
    BY <1>0, <2>5 DEF RemoveTmp
  <2>6. CASE Shutdown
    BY <1>0, <1>1, <2>6 DEF Shutdown
  <2>7. CASE Crash
    BY <1>0, <2>7 DEF Crash
  <2>8. CASE UNCHANGED revocationVars
    BY <1>0, <2>8 DEF revocationVars
  <2>9. QED
    BY <2>1, <2>2, <2>3, <2>4, <2>5, <2>6, <2>7, <2>8
       DEF Next, Arrive, CheckNonce, Evict, Others, accessVars
<1>4. sealed' \cap F = {}
  <2>1. sealed' = sealed \/ \E s \in saves : sealed' = sealed \cup {s.nonce} /\ revokedTmp[s.nonce] # -1
    BY <1>2 DEF Next, Arrive, CheckNonce, ReadRevocations, WriteRevocations, RenameRevocations,
                RemoveTmp, Evict, Shutdown, Crash, Others, revocationVars, accessVars
  <2>2. \A s \in saves : s.nonce \in Nonce
    BY RevocableAssumption DEF AccessInv, Types, SaveRun
  <2>3. QED
    BY <1>0, <2>1, <2>2 DEF Timely, RevocationInv, AllTimely
<1>5. QED
  BY <1>3, <1>4 DEF StoresTimely

LEMMA TimelyStep ==
  ASSUME AccessInv, AccessInv', RevocationInv, [Next]_accessVars, StoresTimely
  PROVE  AllTimely'
<1>1. Unminted' \subseteq Unminted /\ \A t \in Tokens' \ Tokens : t.nonce \in Unminted
  BY TokensStep DEF RevocationInv
<1>2. \A known : Timely(known, Unminted, Tokens) => Timely(known, Unminted', Tokens')
  BY <1>1 DEF Timely
<1>3. QED
  BY <1>1, <1>2 DEF AllTimely, StoresTimely

\* A save copies what is revoked, and the copy is a file until it is renamed;
\* revocations are only lost to a cleanup or a crash, when no save is under way.
LEMMA WithinStep ==
  ASSUME AccessInv, AccessInv', RevocationInv, [Next]_accessVars, StoresTimely
  PROVE  SavesWithin'
<1> DEFINE in(known) == Within(known, Alive, revoked')
           saved == /\ \A s \in saves' : in(s.content)
                    /\ (\E s \in saves' : s.stage = "rename") => in(revokedTmp')
<1>0. /\ \A s \in saves : Within(s.content, Alive, revoked)
      /\ (\E s \in saves : s.stage = "rename") => Within(revokedTmp, Alive, revoked)
      /\ in(Nothing)
  BY DEF RevocationInv, SavesWithin, Within, Nothing, Alive
<1>1. saved
  <2>1. ASSUME NEW r \in requests, NEW ok \in BOOLEAN, Serve(r, ok) PROVE saved
    <3>1. \A n \in Nonce : revoked[n] # -1 => revoked'[n] # -1
      <4>1. now \in Nat /\ revoked \in Known
        BY Constants DEF AccessInv, LimiterInv, Types
      <4>2. revoked' = revoked \/ revoked' = [revoked EXCEPT ![r.op.nonce] = now]
        BY <2>1 DEF Serve, Write, Delegate, Revoke
      <4>3. QED
        BY <4>1, <4>2 DEF Known
    <3>2. \A s \in saves' : s \in saves \/ (s.stage = "read" /\ s.content = Nothing)
      BY <2>1 DEF Serve, Write, Delegate, Revoke
    <3>3. revokedTmp' = revokedTmp
      BY <2>1 DEF Serve
    <3>4. \A known : Within(known, Alive, revoked) => in(known)
      BY <3>1 DEF Within, Alive
    <3>5. QED
      BY <1>0, <3>2, <3>3, <3>4
  <2>2. ASSUME NEW s \in saves, ReadRevocations(s) PROVE saved
    <3>1. /\ [s EXCEPT !.stage = "write", !.content = revoked].content = revoked
          /\ [s EXCEPT !.stage = "write", !.content = revoked].stage = "write"
      BY DEF AccessInv, Types, SaveRun
    <3>2. Within(revoked, Alive, revoked)
      BY DEF Within
    <3>3. QED
      BY <1>0, <2>2, <3>1, <3>2 DEF ReadRevocations
  <2>3. ASSUME NEW s \in saves, NEW ok \in BOOLEAN, WriteRevocations(s, ok) PROVE saved
    <3>1. [s EXCEPT !.stage = "rename"].content = s.content
      BY DEF AccessInv, Types, SaveRun
    <3>2. QED
      BY <1>0, <2>3, <3>1 DEF WriteRevocations
  <2>4. ASSUME NEW s \in saves, RenameRevocations(s) PROVE saved
    <3>1. /\ [s EXCEPT !.stage = "clean"].content = s.content
          /\ [s EXCEPT !.stage = "clean"].stage = "clean"
      BY DEF AccessInv, Types, SaveRun
    <3>2. QED
      BY <1>0, <2>4, <3>1 DEF RenameRevocations
  <2>5. ASSUME NEW s \in saves, RemoveTmp(s) PROVE saved
    BY <1>0, <2>5 DEF RemoveTmp
  <2>6. CASE Shutdown \/ Crash
    BY <2>6 DEF Shutdown, Crash
  <2>7. CASE UNCHANGED revocationVars
    BY <1>0, <2>7 DEF revocationVars
  <2>8. QED
    BY <2>1, <2>2, <2>3, <2>4, <2>5, <2>6, <2>7
       DEF Next, Arrive, CheckNonce, Evict, Others, accessVars
<1>2. \A known : Timely(known, Unminted, Tokens) /\ in(known) => Within(known, Alive', revoked')
  BY AliveStep DEF RevocationInv, Within, Timely
<1>3. QED
  BY <1>1, <1>2 DEF SavesWithin, StoresTimely

\* A revocation is sealed when nothing is left that could undo it, and whatever
\* becomes the file afterwards has it.
LEMMA SealStep ==
  ASSUME ShortLived, AccessInv, AccessInv', RevocationInv, [Next]_accessVars, StoresTimely
  PROVE  SealKept'
<1> DEFINE kept == \A n \in sealed' \cap Alive : Kept(n)'
<1>0. \A n \in sealed \cap Alive : Kept(n) /\ n \in Nonce
  BY DEF RevocationInv, SealKept, Alive
<1>1. ASSUME NEW r \in requests, NEW ok \in BOOLEAN, Serve(r, ok) PROVE kept
  <2>1. \A n \in Nonce : revoked[n] # -1 => revoked'[n] # -1
    <3>1. now \in Nat /\ revoked \in Known
      BY Constants DEF AccessInv, LimiterInv, Types
    <3>2. revoked' = revoked \/ revoked' = [revoked EXCEPT ![r.op.nonce] = now]
      BY <1>1 DEF Serve, Write, Delegate, Revoke
    <3>3. QED
      BY <3>1, <3>2 DEF Known
  <2>2. \A s \in saves' : s \in saves \/ s.stage = "read"
    BY <1>1 DEF Serve, Write, Delegate, Revoke
  <2>3. UNCHANGED <<revokedFile, revokedTmp, sealed>>
    BY <1>1 DEF Serve
  <2>4. QED
    BY <1>0, <2>1, <2>2, <2>3 DEF Kept
<1>2. ASSUME NEW s \in saves, ReadRevocations(s) PROVE kept
  <2>1. [s EXCEPT !.stage = "write", !.content = revoked].content = revoked
    BY DEF AccessInv, Types, SaveRun
  <2>2. \A o \in saves' : o \in saves \/ o.content = revoked
    BY <1>2, <2>1 DEF ReadRevocations
  <2>3. UNCHANGED <<revoked, revokedFile, revokedTmp, sealed>>
    BY <1>2 DEF ReadRevocations
  <2>4. QED
    BY <1>0, <2>2, <2>3 DEF Kept
<1>3. ASSUME NEW s \in saves, NEW ok \in BOOLEAN, WriteRevocations(s, ok) PROVE kept
  <2>1. [s EXCEPT !.stage = "rename"].content = s.content
    BY DEF AccessInv, Types, SaveRun
  <2>2. s.stage = "write" /\ \A o \in saves' : o \in saves \/ o.content = s.content
    BY <1>3, <2>1 DEF WriteRevocations
  <2>3. UNCHANGED <<revoked, revokedFile, sealed>> /\ revokedTmp' \in {revokedTmp, s.content}
    BY <1>3 DEF WriteRevocations
  <2>4. QED
    BY <1>0, <2>2, <2>3 DEF Kept
<1>4. ASSUME NEW s \in saves, RenameRevocations(s) PROVE kept
  <2>1. CASE revokedTmp = Nothing
    <3>1. [s EXCEPT !.stage = "clean"].content = s.content
      BY DEF AccessInv, Types, SaveRun
    <3>2. s.stage = "rename" /\ \A o \in saves' : o \in saves \/ o.content = s.content
      BY <1>4, <2>1, <3>1 DEF RenameRevocations
    <3>3. UNCHANGED <<revoked, revokedFile, revokedTmp, sealed>>
      BY <1>4, <2>1 DEF RenameRevocations
    <3>4. QED
      BY <1>0, <3>2, <3>3 DEF Kept
  <2>2. CASE revokedTmp # Nothing
    <3>1. /\ saves' \subseteq saves /\ revoked' = revoked /\ revokedFile' = revokedTmp
          /\ revokedTmp' = Nothing
      BY <1>4, <2>2 DEF RenameRevocations
    <3>2. \A n \in sealed \cap Alive : Kept(n)'
      BY <1>0, <2>2, <3>1 DEF Kept
    <3>3. ASSUME NEW n \in sealed' \cap Alive, n \notin sealed PROVE Kept(n)'
      <4>1. /\ n = s.nonce /\ revokedTmp[n] # -1
            /\ \A o \in saves' : o.stage # "read" => o.content[n] # -1
        BY <1>4, <2>2, <3>3 DEF RenameRevocations
      <4>2. revoked[n] # -1
        BY <1>4, <4>1 DEF RenameRevocations, RevocationInv, SavesWithin, Within
      <4>3. QED
        BY <3>1, <4>1, <4>2 DEF Kept
    <3>4. QED
      BY <3>2, <3>3
  <2>3. QED
    BY <2>1, <2>2
<1>5. ASSUME NEW s \in saves, RemoveTmp(s) PROVE kept
  BY <1>0, <1>5 DEF RemoveTmp, Kept
<1>6. ASSUME Shutdown PROVE kept
  <2>1. /\ revoked' = Cleaned /\ revokedFile' = Cleaned /\ revokedTmp' = Nothing
        /\ saves' = {} /\ sealed' = sealed
    BY <1>6 DEF Shutdown
  <2>2. \A n \in sealed \cap Alive : Cleaned[n] # -1
    BY <1>0, CleanedKeeps DEF Kept
  <2>3. QED
    BY <2>1, <2>2 DEF Kept
<1>7. ASSUME Crash PROVE kept
  BY <1>0, <1>7 DEF Crash, Kept
<1>8. ASSUME UNCHANGED revocationVars PROVE kept
  BY <1>0, <1>8 DEF revocationVars, Kept
<1>9. kept
  BY <1>1, <1>2, <1>3, <1>4, <1>5, <1>6, <1>7, <1>8
     DEF Next, Arrive, CheckNonce, Evict, Others, accessVars
<1>10. QED
  BY <1>9, AliveStep DEF SealKept, StoresTimely, RevocationInv

\* A token that is accepted has not run out, so its revocation is in memory.
LEMMA RefusedStep ==
  ASSUME AccessInv, RevocationInv, [Next]_accessVars
  PROVE  RevokedRefused'
<1>1. ASSUME NEW t \in Presented \cup minted, NEW a \in Addr, NEW op \in Op, Arrive(t, a, op)
      PROVE  RevokedRefused'
  <2>1. t.nonce \notin sealed
    <3>1. t.expires >= now - Skew /\ revoked[t.nonce] = -1
      BY <1>1 DEF Arrive, InTime
    <3>2. t.nonce \in sealed => t.nonce \in Alive
      BY <3>1 DEF Alive, Tokens, AccessInv, Types
    <3>3. QED
      BY <3>1, <3>2 DEF RevocationInv, SealKept, Kept
  <2>2. \A r \in requests' : r \in requests \/ ~r.late
    <3> DEFINE new == [id |-> begun, token |-> t, addr |-> a, op |-> op, stage |-> "verified",
                       late |-> t.nonce \in sealed]
    <3>1. new.late = (t.nonce \in sealed)
      OBVIOUS
    <3>2. requests' = requests \cup {new}
      BY <1>1 DEF Arrive
    <3> HIDE DEF new
    <3>3. QED
      BY <2>1, <3>1, <3>2
  <2>3. QED
    BY <2>2 DEF RevocationInv, RevokedRefused
<1>2. ASSUME NEW r \in requests, CheckNonce(r) PROVE RevokedRefused'
  <2>1. [r EXCEPT !.stage = "known"].late = r.late
    BY DEF AccessInv, Types, Request
  <2>2. QED
    BY <1>2, <2>1 DEF CheckNonce, GoOn, RevocationInv, RevokedRefused
<1>3. CASE requests' \subseteq requests
  BY <1>3 DEF RevocationInv, RevokedRefused
<1>4. QED
  BY <1>1, <1>2, <1>3
     DEF Next, Serve, ReadRevocations, WriteRevocations, RenameRevocations, RemoveTmp, Evict,
         Shutdown, Crash, Others, accessVars

\* Once a revocation is sealed no request that begins later gets in with the
\* token: whatever saves overlap and fail, whatever crashes, restarts and
\* cleanups come, as long as no token lives longer than a shutdown keeps its
\* revocation and none is revoked before it begins.
THEOREM RevocationHolds ==
  ShortLived /\ Spec /\ [][RevokesBegun]_accessVars => []RevokedRefused
<1> SUFFICES ASSUME ShortLived PROVE Spec /\ [][RevokesBegun]_accessVars => []RevokedRefused
  OBVIOUS
<1>1. Init => RevocationInv
  <2>1. \A n \in Nonce : Nothing[n] = -1
    BY DEF Nothing
  <2>2. QED
    BY <2>1 DEF Init, RevocationInv, MintedSound, AllTimely, Timely, SavesWithin, SealKept,
                RevokedRefused
<1>2. AccessInv /\ AccessInv' /\ RevocationInv /\ [Next]_accessVars /\ [RevokesBegun]_accessVars
        => RevocationInv'
  <2> SUFFICES ASSUME AccessInv, AccessInv', RevocationInv, [Next]_accessVars,
                      [RevokesBegun]_accessVars
               PROVE  RevocationInv'
    OBVIOUS
  <2>1. CASE UNCHANGED accessVars
    BY <2>1 DEF accessVars, limiter, nonceVars, revocationVars, effects, RevocationInv, MintedSound,
                AllTimely, Unminted, Tokens, SavesWithin, Alive, SealKept, Kept, RevokedRefused
  <2>2. CASE RevokesBegun
    <3>1. StoresTimely
      BY <2>2, StoresStep
    <3>2. QED
      BY <3>1, TokensStep, TimelyStep, WithinStep, SealStep, RefusedStep DEF RevocationInv
  <2>3. QED
    BY <2>1, <2>2
<1>3. QED
  BY <1>1, <1>2, AccessAlways, PTL DEF Spec, RevocationInv
-----------------------------------------------------------------------------
(* The SSH server. *)

Started == {"ready", "running", "stopping", "stopped"}
ServedConns == {c \in Conn : conn[c] \in {"spawned", "serving"}}

\* A key file that has been filled is never written again, and clients see its
\* key; nobody connects before it is there.
HostKeyInv ==
  /\ hostKeys \in Nat /\ keyFile \in Nat \cup {SSH!Cut}
  /\ server \in {"down", "making"} \cup Started
  /\ conn \in [Conn -> {"none", "dialed", "spawned", "serving", "over"}]
  /\ listening \in BOOLEAN /\ (listening => server \in {"running", "stopping"})
  /\ server = "making" => keyFile = SSH!Cut /\ hostKey \in Nat \ {SSH!NoKey}
  /\ server \in Started => hostKey = keyFile /\ keyFile \notin {SSH!NoKey, SSH!Cut}
  /\ server \in {"down", "making", "ready"} => \A c \in Conn : conn[c] = "none"
  /\ shown # {} => keyFile \notin {SSH!NoKey, SSH!Cut} /\ shown = {keyFile}

\* The wait group counts the goroutine that accepts and those that serve, and no
\* connection waits to be accepted once the listener is closed.
WaitInv ==
  /\ acceptor \in {"off", "accept"}
  /\ server \in {"down", "making", "ready"} => acceptor = "off"
  /\ IsFiniteSet(ServedConns)
  /\ wg = Cardinality(ServedConns) + (IF acceptor = "accept" THEN 1 ELSE 0)
  /\ ~listening => \A c \in Conn : conn[c] # "dialed"
  /\ server = "stopped" => acceptor = "off" /\ ServedConns = {}

SSHInv == HostKeyInv /\ WaitInv

LEMMA SSHStart == SSH!SSHInit => SSHInv
<1> SUFFICES ASSUME SSH!SSHInit PROVE SSHInv
  OBVIOUS
<1>1. ServedConns = {}
  BY DEF SSH!SSHInit, ServedConns
<1>2. IsFiniteSet({}) /\ Cardinality({}) = 0
  BY FS_EmptySet
<1>3. HostKeyInv
  BY DEF SSH!SSHInit, HostKeyInv, Started, SSH!NoKey, SSH!Cut
<1>4. WaitInv
  <2>1. IsFiniteSet(ServedConns) /\ Cardinality(ServedConns) = 0
    BY <1>1, <1>2
  <2> QED
    BY <1>1, <2>1 DEF SSH!SSHInit, WaitInv
<1> QED
  BY <1>3, <1>4 DEF SSHInv

LEMMA HostKeyStep == SSHInv /\ SSH!SSHNext => HostKeyInv'
<1> SUFFICES ASSUME SSHInv, SSH!SSHNext PROVE HostKeyInv'
  OBVIOUS
<1> USE DEF SSHInv, HostKeyInv, Started, SSH!NoKey, SSH!Cut, SSH!life, SSH!rest, SSH!At
<1>1. CASE SSH!CreateKeyFile
  BY <1>1 DEF SSH!CreateKeyFile
<1>2. CASE SSH!EncodeKey
  BY <1>2 DEF SSH!EncodeKey
<1>3. CASE SSH!LoadKey
  BY <1>3 DEF SSH!LoadKey
<1>4. CASE SSH!Start
  BY <1>4 DEF SSH!Start
<1>5. CASE SSH!AcceptFails
  BY <1>5 DEF SSH!AcceptFails
<1>6. CASE SSH!CloseDone
  BY <1>6 DEF SSH!CloseDone
<1>7. CASE SSH!CloseListener
  BY <1>7 DEF SSH!CloseListener
<1>8. CASE SSH!Wait
  BY <1>8 DEF SSH!Wait
<1>9. CASE SSH!Exit
  BY <1>9 DEF SSH!Exit
<1>10. ASSUME NEW c \in Conn, SSH!Dial(c) PROVE HostKeyInv'
  BY <1>10 DEF SSH!Dial
<1>11. ASSUME NEW c \in Conn, SSH!Accept(c) PROVE HostKeyInv'
  BY <1>11 DEF SSH!Accept
<1>12. ASSUME NEW c \in Conn, SSH!OpenSession(c) \/ SSH!EndSession(c) PROVE HostKeyInv'
  BY <1>12 DEF SSH!OpenSession, SSH!EndSession
<1>13. ASSUME NEW c \in Conn, SSH!Disconnect(c) PROVE HostKeyInv'
  BY <1>13 DEF SSH!Disconnect
<1>14. ASSUME NEW c \in Conn, NEW ok \in BOOLEAN, SSH!Handshake(c, ok) PROVE HostKeyInv'
  <2>1. server \in Started
    BY <1>14 DEF SSH!Handshake
  <2>2. shown' = {keyFile} /\ keyFile' = keyFile
    BY <1>14, <2>1 DEF SSH!Handshake
  <2>3. QED
    BY <1>14, <2>1, <2>2 DEF SSH!Handshake
<1> QED
  BY <1>1, <1>2, <1>3, <1>4, <1>5, <1>6, <1>7, <1>8, <1>9, <1>10, <1>11, <1>12, <1>13, <1>14
     DEF SSH!SSHNext

\* One connection more is served, or one less.
LEMMA ServedAdd ==
  ASSUME SSHInv, NEW c \in Conn, c \notin ServedConns, conn' = [conn EXCEPT ![c] = "spawned"]
  PROVE  IsFiniteSet(ServedConns') /\ Cardinality(ServedConns') = Cardinality(ServedConns) + 1
<1>1. ServedConns' = ServedConns \cup {c}
  BY DEF ServedConns, SSHInv, HostKeyInv
<1> QED
  BY <1>1, FS_AddElement DEF SSHInv, WaitInv

LEMMA ServedLess ==
  ASSUME SSHInv, NEW c \in ServedConns, conn' = [conn EXCEPT ![c] = "over"]
  PROVE  IsFiniteSet(ServedConns') /\ Cardinality(ServedConns') = Cardinality(ServedConns) - 1
<1>1. ServedConns' = ServedConns \ {c}
  BY DEF ServedConns, SSHInv, HostKeyInv
<1> QED
  BY <1>1, FS_RemoveElement DEF SSHInv, WaitInv

LEMMA WaitStep == SSHInv /\ SSH!SSHNext => WaitInv'
<1> SUFFICES ASSUME SSHInv, SSH!SSHNext PROVE WaitInv'
  OBVIOUS
<1>a. Cardinality(ServedConns) \in Nat
  BY FS_CardinalityType DEF SSHInv, WaitInv
<1> USE DEF SSHInv, WaitInv, SSH!life, SSH!rest, SSH!At
<1>1. CASE UNCHANGED conn
  <2>0. ServedConns' = ServedConns
    BY <1>1 DEF ServedConns
  <2>1. CASE SSH!CreateKeyFile \/ SSH!EncodeKey \/ SSH!LoadKey
    BY <2>0, <2>1 DEF SSH!CreateKeyFile, SSH!EncodeKey, SSH!LoadKey
  <2>2. CASE SSH!Start
    BY <1>1, <1>a, <2>0, <2>2 DEF SSH!Start
  <2>3. CASE SSH!AcceptFails
    BY <1>1, <1>a, <2>0, <2>3 DEF SSH!AcceptFails
  <2>4. CASE SSH!CloseDone
    BY <1>1, <2>0, <2>4 DEF SSH!CloseDone
  <2>5. CASE SSH!Wait
    <3>1. acceptor = "off" /\ Cardinality(ServedConns) = 0
      BY <1>a, <2>5 DEF SSH!Wait
    <3>2. ServedConns = {}
      BY <3>1, FS_EmptySet
    <3> QED
      BY <1>1, <2>0, <2>5, <3>1, <3>2 DEF SSH!Wait
  <2>6. CASE \E c \in Conn : SSH!OpenSession(c) \/ SSH!EndSession(c)
    BY <1>1, <2>0, <2>6 DEF SSH!OpenSession, SSH!EndSession
  <2>7. ASSUME NEW c \in Conn, NEW ok \in BOOLEAN,
               SSH!Dial(c) \/ SSH!Accept(c) \/ SSH!Disconnect(c) \/ SSH!Handshake(c, ok)
        PROVE  FALSE
    BY <1>1, <2>7 DEF HostKeyInv, SSH!Dial, SSH!Accept, SSH!Disconnect, SSH!Handshake
  <2>8. CASE SSH!CloseListener
    BY <1>1, <2>0, <2>8 DEF SSH!CloseListener
  <2>9. CASE SSH!Exit
    BY <2>9, FS_EmptySet DEF SSH!Exit, ServedConns
  <2> QED
    BY <2>1, <2>2, <2>3, <2>4, <2>5, <2>6, <2>7, <2>8, <2>9 DEF SSH!SSHNext
<1>2. CASE SSH!CloseListener
  <2>1. /\ ServedConns' = ServedConns /\ \A c \in Conn : conn'[c] # "dialed"
        /\ server' = "stopping" /\ UNCHANGED <<acceptor, wg>>
    BY <1>2 DEF SSH!CloseListener, ServedConns
  <2> QED
    BY <2>1
<1>3. CASE SSH!Exit
  BY <1>3, FS_EmptySet DEF SSH!Exit, ServedConns
<1>4. ASSUME NEW c \in Conn, SSH!Dial(c) PROVE WaitInv'
  <2>1. ServedConns' = ServedConns
    BY <1>4 DEF SSH!Dial, ServedConns, HostKeyInv
  <2> QED
    BY <1>4, <2>1 DEF SSH!Dial, HostKeyInv
<1>5. ASSUME NEW c \in Conn, SSH!Accept(c) PROVE WaitInv'
  <2>1. c \notin ServedConns
    BY <1>5 DEF SSH!Accept, ServedConns
  <2>2. conn' = [conn EXCEPT ![c] = "spawned"]
    BY <1>5 DEF SSH!Accept
  <2>3. IsFiniteSet(ServedConns') /\ Cardinality(ServedConns') = Cardinality(ServedConns) + 1
    BY <2>1, <2>2, ServedAdd
  <2> QED
    BY <1>5, <1>a, <2>3 DEF SSH!Accept, HostKeyInv
<1>6. ASSUME NEW c \in Conn, NEW ok \in BOOLEAN, SSH!Disconnect(c) \/ SSH!Handshake(c, ok)
      PROVE  WaitInv'
  <2>1. /\ c \in ServedConns /\ server # "stopped"
        /\ UNCHANGED <<server, listening, acceptor>>
    BY <1>6 DEF SSH!Disconnect, SSH!Handshake, ServedConns
  <2>2. CASE SSH!Disconnect(c) \/ ~ok
    <3>1. conn' = [conn EXCEPT ![c] = "over"] /\ wg' = wg - 1
      BY <1>6, <2>2 DEF SSH!Disconnect, SSH!Handshake
    <3>2. IsFiniteSet(ServedConns') /\ Cardinality(ServedConns') = Cardinality(ServedConns) - 1
      BY <2>1, <3>1, ServedLess
    <3> QED
      BY <1>a, <2>1, <3>1, <3>2 DEF HostKeyInv
  <2>3. CASE SSH!Handshake(c, ok) /\ ok
    <3>1. ServedConns' = ServedConns
      BY <2>3 DEF SSH!Handshake, ServedConns, HostKeyInv
    <3> QED
      BY <2>1, <2>3, <3>1 DEF SSH!Handshake, HostKeyInv
  <2> QED
    BY <1>6, <2>2, <2>3
<1> QED
  BY <1>1, <1>2, <1>3, <1>4, <1>5, <1>6
     DEF SSH!SSHNext, SSH!CreateKeyFile, SSH!EncodeKey, SSH!LoadKey, SSH!Start, SSH!AcceptFails,
         SSH!CloseDone, SSH!Wait, SSH!OpenSession, SSH!EndSession

LEMMA SSHAlways == PartsSpec => []SSHInv
<1>1. PartsInit => SSHInv
  BY SSHStart DEF PartsInit
<1>2. SSHInv /\ [PartsNext]_partVars => SSHInv'
  <2> SUFFICES ASSUME SSHInv, [PartsNext]_partVars PROVE SSHInv'
    OBVIOUS
  <2>1. SSH!SSHNext \/ UNCHANGED sshVars
    BY DEF PartsNext, partVars
  <2>2. CASE SSH!SSHNext
    BY <2>2, HostKeyStep, WaitStep DEF SSHInv
  <2>3. CASE UNCHANGED sshVars
    BY <2>3 DEF sshVars, SSHInv, HostKeyInv, WaitInv, ServedConns
  <2> QED
    BY <2>1, <2>2, <2>3
<1> QED
  BY <1>1, <1>2, PTL DEF PartsSpec

\* When Stop has returned, nobody is being served: whoever was accepted while the
\* server stopped was counted before and waited for (SSHServer.Stop).
THEOREM StopWaitsHolds == PartsSpec => []StopWaits
<1>1. SSHInv => StopWaits
  BY DEF SSHInv, HostKeyInv, WaitInv, ServedConns, StopWaits, SSH!StopWaits
<1> QED
  BY <1>1, SSHAlways, PTL
-----------------------------------------------------------------------------
(* The key of the daemon. *)

Identities == [key : Nat \ {0}, previous : SUBSET Nat]
Busy(c) == command[c].at # "idle"
KeysOf(id) == Identity!AllKnownDIDs(id)

\* The key that daemon runs with, if it runs, is one of those.
HasKey(f) ==
  signed \subseteq KeysOf(f) /\ (daemon # Identity!NoFile => daemon.key \in KeysOf(f))

KeyTypes ==
  /\ ids \in Nat /\ overlapped \in BOOLEAN
  /\ idFile \in Identities \cup {Identity!NoFile, Identity!Torn}
  /\ daemon \in Identities \cup {Identity!NoFile}
  /\ \A c \in Command :
       /\ command[c] \in [at : {"idle", "save", "write"}, id : Identities \cup {Identity!NoFile},
                          read : Identities \cup {Identity!NoFile}]
       /\ Busy(c) => command[c].id \in Identities
  /\ DOMAIN command = Command

\* A key that waits to be written is nobody else's, and nobody has read it.
KeysFresh ==
  /\ idFile.key <= ids
  /\ \A c \in Command : Busy(c) =>
       /\ command[c].id.key <= ids /\ command[c].read.key <= ids
       /\ idFile.key # command[c].id.key
       /\ \A d \in Command : Busy(d) =>
            /\ command[d].read.key # command[c].id.key
            /\ c # d => command[d].id.key # command[c].id.key

\* What a command is about to write has the keys of what it read; unless commands
\* overlapped, what it writes has the daemon's, and it is the only one to write.
KeysHeld ==
  /\ idFile = Identity!NoFile => signed = {} /\ daemon = Identity!NoFile
  /\ \A c \in Command : Busy(c) /\ Identity!Whole(command[c].read) =>
       KeysOf(command[c].read) \subseteq KeysOf(command[c].id)
  /\ ~overlapped =>
       /\ Identity!Whole(idFile) => HasKey(idFile)
       /\ \A c \in Command : command[c].at = "write" =>
            /\ idFile = Identity!Torn /\ HasKey(command[c].id)
            /\ \A d \in Command : command[d].at = "write" => c = d

IdentityInv == KeyTypes /\ KeysFresh /\ KeysHeld

LEMMA IdentityStart == Identity!IdentityInit => IdentityInv
<1> SUFFICES ASSUME Identity!IdentityInit PROVE IdentityInv
  OBVIOUS
<1>1. \A c \in Command : command[c] = Identity!Idle
  BY DEF Identity!IdentityInit
<1>2. KeyTypes
  BY <1>1 DEF Identity!IdentityInit, KeyTypes, Busy, Identity!Idle
<1>3. KeysFresh
  BY <1>1 DEF Identity!IdentityInit, KeysFresh, Busy, Identity!Idle, Identity!NoFile
<1>4. KeysHeld
  BY <1>1 DEF Identity!IdentityInit, KeysHeld, Busy, Identity!Idle, Identity!NoFile, Identity!Whole
<1> QED
  BY <1>2, <1>3, <1>4 DEF IdentityInv

\* A command has made a key and is about to write it.
LEMMA Prepared ==
  ASSUME IdentityInv, NEW c \in Command, NEW id,
         ids' = ids + 1, id \in Identities, id.key = ids + 1,
         idFile \in Identities \cup {Identity!NoFile},
         Identity!Whole(idFile) => KeysOf(idFile) \subseteq KeysOf(id),
         command' = [command EXCEPT ![c] = [at |-> "save", id |-> id, read |-> idFile]],
         UNCHANGED <<idFile, daemon, signed, overlapped>>
  PROVE  IdentityInv'
<1>1. command'[c] = [at |-> "save", id |-> id, read |-> idFile]
  BY DEF IdentityInv, KeyTypes
<1>2. \A d \in Command \ {c} : command'[d] = command[d]
  BY DEF IdentityInv, KeyTypes
<1>3. KeyTypes'
  BY <1>1, <1>2 DEF IdentityInv, KeyTypes, Busy
<1>4. KeysFresh'
  BY <1>1, <1>2 DEF IdentityInv, KeyTypes, KeysFresh, Busy, Identities, Identity!NoFile, Identity!Torn
<1>5. KeysHeld'
  BY <1>1, <1>2 DEF IdentityInv, KeysHeld, Busy, HasKey
<1> QED
  BY <1>3, <1>4, <1>5 DEF IdentityInv

LEMMA MakeStep ==
  ASSUME IdentityInv, NEW c \in Command,
         Identity!Quickstart(c) \/ Identity!Create(c) \/ Identity!RotateKey(c)
  PROVE  IdentityInv'
<1>1. ids \in Nat
  BY DEF IdentityInv, KeyTypes
<1>2. CASE Identity!Quickstart(c) \/ Identity!Create(c)
  <2> DEFINE id == Identity!NewIdentity(ids + 1)
  <2>1. /\ ids' = ids + 1 /\ idFile = Identity!NoFile
        /\ command' = [command EXCEPT ![c] = [at |-> "save", id |-> id, read |-> idFile]]
        /\ UNCHANGED <<idFile, daemon, signed, overlapped>>
    BY <1>2 DEF Identity!Quickstart, Identity!Create, Identity!NewKey
  <2>2. id \in Identities /\ id.key = ids + 1
    BY <1>1 DEF Identities, Identity!NewIdentity
  <2>3. ~Identity!Whole(idFile)
    BY <2>1 DEF Identity!Whole, Identity!NoFile
  <2> HIDE DEF id
  <2> QED
    BY <2>1, <2>2, <2>3, Prepared
<1>3. CASE Identity!RotateKey(c)
  <2> DEFINE id == Identity!Rotate(idFile, ids + 1)
  <2>1. /\ ids' = ids + 1 /\ Identity!Whole(idFile)
        /\ command' = [command EXCEPT ![c] = [at |-> "save", id |-> id, read |-> idFile]]
        /\ UNCHANGED <<idFile, daemon, signed, overlapped>>
    BY <1>3 DEF Identity!RotateKey, Identity!NewKey
  <2>2. idFile \in Identities
    BY <2>1 DEF IdentityInv, KeyTypes, Identity!Whole, Identity!NoFile, Identity!Torn
  <2>3. id \in Identities /\ id.key = ids + 1 /\ KeysOf(idFile) \subseteq KeysOf(id)
    BY <1>1, <2>2 DEF Identities, Identity!Rotate, KeysOf, Identity!AllKnownDIDs
  <2> HIDE DEF id
  <2> QED
    BY <2>1, <2>2, <2>3, Prepared
<1> QED
  BY <1>2, <1>3

LEMMA OpenStep ==
  ASSUME IdentityInv, NEW c \in Command, Identity!Open(c)
  PROVE  IdentityInv'
<1>1. /\ command[c].at = "save" /\ command'[c] = [command[c] EXCEPT !.at = "write"]
      /\ \A d \in Command \ {c} : command'[d] = command[d]
      /\ DOMAIN command' = Command
      /\ idFile' = Identity!Torn /\ UNCHANGED <<daemon, ids, signed>>
      /\ overlapped' = (overlapped \/ idFile # command[c].read)
  BY DEF IdentityInv, KeyTypes, Identity!Open
<1>2. \A d \in Command : /\ command'[d].id = command[d].id /\ command'[d].read = command[d].read
                         /\ Busy(d)' <=> Busy(d)
  BY <1>1 DEF IdentityInv, KeyTypes, Busy
<1>3. KeyTypes'
  BY <1>1, <1>2 DEF IdentityInv, KeyTypes, Busy
<1>4. KeysFresh'
  BY <1>1, <1>2 DEF IdentityInv, KeyTypes, KeysFresh, Identities, Identity!NoFile, Identity!Torn, Busy
<1>5. KeysHeld'
  <2>1. idFile' # Identity!NoFile /\ ~Identity!Whole(idFile')
    BY <1>1 DEF Identity!NoFile, Identity!Torn, Identity!Whole
  <2>2. Identity!Torn # command[c].read
    BY DEF IdentityInv, KeyTypes, Identities, Identity!Torn, Identity!NoFile
  <2>3. ASSUME ~overlapped' PROVE HasKey(command[c].id)'
    <3>1. idFile = command[c].read /\ ~overlapped
      BY <1>1, <2>3 DEF IdentityInv, KeyTypes
    <3>2. CASE Identity!Whole(idFile)
      BY <1>1, <1>2, <3>1, <3>2 DEF IdentityInv, KeysHeld, HasKey, Busy, KeysOf
    <3>3. CASE ~Identity!Whole(idFile)
      <4>1. idFile = Identity!NoFile
        BY <2>2, <3>1, <3>3 DEF IdentityInv, KeyTypes, Identity!Whole, Identities
      <4> QED
        BY <1>1, <4>1 DEF IdentityInv, KeysHeld, HasKey
    <3> QED
      BY <3>2, <3>3
  <2>4. ASSUME ~overlapped', NEW d \in Command, command[d].at = "write" PROVE FALSE
    BY <1>1, <2>2, <2>4 DEF IdentityInv, KeyTypes, KeysHeld
  <2>5. \A d \in Command : command'[d].at = "write" => d = c \/ command[d].at = "write"
    BY <1>1
  <2>6. \A d \in Command : Busy(d)' /\ Identity!Whole(command'[d].read) =>
           KeysOf(command'[d].read) \subseteq KeysOf(command'[d].id)
    BY <1>2 DEF IdentityInv, KeysHeld
  <2> QED
    BY <1>1, <1>2, <2>1, <2>3, <2>4, <2>5, <2>6 DEF KeysHeld
<1> QED
  BY <1>3, <1>4, <1>5 DEF IdentityInv

LEMMA SaveStep ==
  ASSUME IdentityInv, NEW c \in Command, Identity!Save(c)
  PROVE  IdentityInv'
<1>1. /\ command[c].at = "write" /\ command' = [command EXCEPT ![c] = Identity!Idle]
      /\ \/ idFile' = command[c].id
         \/ idFile' = Identity!Torn /\ \E d \in Command \ {c} : command[d].at = "write"
      /\ daemon' = daemon \/ daemon' = command[c].id
      /\ UNCHANGED <<ids, signed, overlapped>>
  BY DEF Identity!Save
<1>2. /\ ~Busy(c)' /\ command'[c] = Identity!Idle
      /\ \A d \in Command \ {c} : command'[d] = command[d] /\ (Busy(d)' <=> Busy(d))
  BY <1>1 DEF IdentityInv, KeyTypes, Busy, Identity!Idle
<1>3. Busy(c) /\ command[c].id \in Identities
  BY <1>1 DEF IdentityInv, KeyTypes, Busy
<1>4. KeyTypes'
  BY <1>1, <1>2, <1>3 DEF IdentityInv, KeyTypes, Busy, Identity!Idle
<1>5. KeysFresh'
  <2>1. idFile'.key <= ids
    BY <1>1, <1>3 DEF IdentityInv, KeyTypes, KeysFresh, Identity!Torn
  <2>2. ASSUME NEW d \in Command, d # c, Busy(d) PROVE idFile'.key # command[d].id.key
    BY <1>1, <1>3, <2>2 DEF IdentityInv, KeyTypes, KeysFresh, Identities, Identity!Torn
  <2> QED
    BY <1>1, <1>2, <2>1, <2>2 DEF IdentityInv, KeysFresh
<1>6. KeysHeld'
  <2>1. idFile' # Identity!NoFile
    BY <1>1, <1>3 DEF Identities, Identity!NoFile, Identity!Torn
  <2>2. ASSUME ~overlapped' PROVE /\ \A d \in Command : command'[d].at # "write"
                                  /\ HasKey(idFile)'
    <3>1. \A d \in Command \ {c} : command[d].at # "write"
      BY <1>1, <2>2 DEF IdentityInv, KeysHeld
    <3>2. idFile' = command[c].id /\ HasKey(command[c].id)
      BY <1>1, <2>2, <3>1 DEF IdentityInv, KeysHeld
    <3>3. command[c].id.key \in KeysOf(command[c].id)
      BY DEF KeysOf, Identity!AllKnownDIDs
    <3>4. HasKey(idFile)'
      BY <1>1, <3>2, <3>3 DEF HasKey, KeysOf
    <3> QED
      BY <1>2, <3>1, <3>4 DEF Identity!Idle
  <2> QED
    BY <1>1, <1>2, <2>1, <2>2 DEF IdentityInv, KeysHeld
<1> QED
  BY <1>4, <1>5, <1>6 DEF IdentityInv

LEMMA IdentityStep == IdentityInv /\ Identity!IdentityNext => IdentityInv'
<1> SUFFICES ASSUME IdentityInv, Identity!IdentityNext PROVE IdentityInv'
  OBVIOUS
<1>1. ASSUME NEW c \in Command, Identity!LoadIdentity(c) PROVE IdentityInv'
  <2>1. daemon' = idFile /\ Identity!Whole(idFile) /\ UNCHANGED <<idFile, command, ids, signed, overlapped>>
    BY <1>1 DEF Identity!LoadIdentity
  <2>2. idFile \in Identities
    BY <2>1 DEF IdentityInv, KeyTypes, Identity!Whole, Identity!NoFile, Identity!Torn
  <2>3. idFile.key \in KeysOf(idFile)
    BY DEF KeysOf, Identity!AllKnownDIDs
  <2>4. KeyTypes' /\ KeysFresh'
    BY <2>1, <2>2 DEF IdentityInv, KeyTypes, KeysFresh, Busy
  <2>5. ASSUME NEW d \in Command, command[d].at = "write" PROVE overlapped
    BY <2>1, <2>5 DEF IdentityInv, KeyTypes, KeysHeld, Identity!Whole, Identity!Torn
  <2>6. ~overlapped => HasKey(idFile)'
    BY <2>1, <2>3 DEF IdentityInv, KeysHeld, HasKey, KeysOf
  <2>7. idFile # Identity!NoFile
    BY <2>1 DEF Identity!Whole, Identity!NoFile
  <2>8. KeysHeld'
    BY <2>1, <2>5, <2>6, <2>7 DEF IdentityInv, KeyTypes, KeysHeld, Busy
  <2> QED
    BY <2>4, <2>8 DEF IdentityInv
<1>2. CASE Identity!Sign
  <2>1. /\ daemon # Identity!NoFile /\ signed' = signed \cup {daemon.key}
        /\ UNCHANGED <<idFile, command, daemon, ids, overlapped>>
    BY <1>2 DEF Identity!Sign
  <2>2. \A f : HasKey(f) => HasKey(f)'
    BY <2>1 DEF HasKey, KeysOf
  <2>3. KeyTypes' /\ KeysFresh'
    BY <2>1 DEF IdentityInv, KeyTypes, KeysFresh, Busy
  <2>4. HasKey(idFile) => HasKey(idFile)'
    BY <2>1 DEF HasKey, KeysOf
  <2>5. \A c \in Command : HasKey(command[c].id) => HasKey(command[c].id)'
    BY <2>1 DEF HasKey, KeysOf
  <2>6. KeysHeld'
    BY <2>1, <2>4, <2>5 DEF IdentityInv, KeysHeld, Busy
  <2> QED
    BY <2>3, <2>6 DEF IdentityInv
<1>3. CASE Identity!Stop
  <2>1. daemon' = Identity!NoFile /\ UNCHANGED <<idFile, command, ids, signed, overlapped>>
    BY <1>3 DEF Identity!Stop
  <2>2. KeyTypes' /\ KeysFresh'
    BY <2>1 DEF IdentityInv, KeyTypes, KeysFresh, Busy
  <2>3. KeysHeld'
    BY <2>1 DEF IdentityInv, KeysHeld, Busy, HasKey, KeysOf
  <2> QED
    BY <2>2, <2>3 DEF IdentityInv
<1>4. ASSUME NEW c \in Command, Identity!Crash(c) PROVE IdentityInv'
  <2>1. /\ command' = [command EXCEPT ![c] = Identity!Idle]
        /\ UNCHANGED <<idFile, daemon, ids, signed, overlapped>>
    BY <1>4 DEF Identity!Crash
  <2>2. /\ ~Busy(c)' /\ command'[c] = Identity!Idle
        /\ \A d \in Command \ {c} : command'[d] = command[d] /\ (Busy(d)' <=> Busy(d))
    BY <2>1 DEF IdentityInv, KeyTypes, Busy, Identity!Idle
  <2>3. KeyTypes'
    BY <2>1, <2>2 DEF IdentityInv, KeyTypes, Busy, Identity!Idle
  <2>4. KeysFresh'
    BY <2>1, <2>2 DEF IdentityInv, KeysFresh
  <2>5. command'[c].at # "write"
    BY <2>2 DEF Identity!Idle
  <2>6. KeysHeld'
    BY <2>1, <2>2, <2>5 DEF IdentityInv, KeysHeld, HasKey, KeysOf
  <2> QED
    BY <2>3, <2>4, <2>6 DEF IdentityInv
<1> QED
  BY <1>1, <1>2, <1>3, <1>4, MakeStep, OpenStep, SaveStep DEF Identity!IdentityNext

LEMMA IdentityAlways == PartsSpec => []IdentityInv
<1>1. PartsInit => IdentityInv
  BY IdentityStart DEF PartsInit
<1>2. IdentityInv /\ [PartsNext]_partVars => IdentityInv'
  <2> SUFFICES ASSUME IdentityInv, [PartsNext]_partVars PROVE IdentityInv'
    OBVIOUS
  <2>1. Identity!IdentityNext \/ UNCHANGED identityVars
    BY DEF PartsNext, partVars
  <2>2. CASE UNCHANGED identityVars
    BY <2>2 DEF identityVars, IdentityInv, KeyTypes, KeysFresh, KeysHeld, Busy, HasKey
  <2> QED
    BY <2>1, <2>2, IdentityStep
<1> QED
  BY <1>1, <1>2, PTL DEF PartsSpec

\* Whatever the daemon signed with a key can be verified with the history in its file
\* (NewIdentity, Rotate, Save), and clients of its SSH server see one host key
\* (setupHostKey), whatever crashes come between the steps of either.
THEOREM KeysStayHolds == PartsSpec => []KeysStay
<1>1. IdentityInv => Identity!KeysKept
  BY DEF IdentityInv, KeysHeld, HasKey, KeysOf, Identity!KeysKept
<1>2. SSHInv => SSH!HostKeyStays
  <2> SUFFICES ASSUME SSHInv PROVE SSH!HostKeyStays
    OBVIOUS
  <2>0. SSH!Cardinality(shown) = Cardinality(shown)
    BY DEF SSH!Cardinality, Cardinality
  <2>1. shown = {} \/ shown = {keyFile}
    BY DEF SSHInv, HostKeyInv
  <2>2. Cardinality({}) = 0 /\ Cardinality({keyFile}) = 1
    BY FS_EmptySet, FS_Singleton
  <2>3. Cardinality(shown) \in {0, 1}
    BY <2>1, <2>2, Zenon
  <2> QED
    BY <2>0, <2>3 DEF SSH!HostKeyStays
<1> QED
  BY <1>1, <1>2, IdentityAlways, SSHAlways, PTL DEF KeysStay
-----------------------------------------------------------------------------
(* Accounts and sessions. *)

Account(j) == [id |-> j.id, name |-> j.name, email |-> j.email]

\* Registrations are numbered; those that are logged in have made their account.
UsersInv ==
  /\ attempts \in Nat
  /\ \A u \in users : u.id \in 1 .. attempts
  /\ \A u, w \in users : u # w => u.name # w.name /\ u.email # w.email /\ u.id # w.id
  /\ \A j \in joining :
       /\ j.id \in 1 .. attempts /\ j.stage \in {"lookup", "insert", "login"}
       /\ \A i \in joining : i # j => i.id # j.id
       /\ IF j.stage = "login" THEN Account(j) \in users ELSE \A u \in users : u.id # j.id
  /\ \A pair \in welcomed : pair[1] = pair[2]

\* Tokens are numbered, so one names one session; what was ended has no row.
SessionsInv ==
  /\ IsFiniteSet(issued) /\ sessions \subseteq issued /\ ended \subseteq issued \ sessions
  /\ \A s \in issued :
       /\ s.token \in 1 .. Cardinality(issued)
       /\ \A t \in issued : s.token = t.token => s = t
  /\ \A v \in visits :
       /\ v.session \in issued /\ (v.late => v.session \in ended)
       /\ v.stage \in {"found", "known"} => ~v.late /\ v.user = v.session.user

AccountsInv == UsersInv /\ SessionsInv

LEMMA AccountsStart == Accounts!AccountsInit => AccountsInv
  BY FS_EmptySet DEF Accounts!AccountsInit, AccountsInv, UsersInv, SessionsInv

LEMMA UsersKept ==
  AccountsInv /\ UNCHANGED <<users, joining, attempts, welcomed>> => UsersInv'
  BY DEF AccountsInv, UsersInv, Account

\* A registration goes on, or is over.
LEMMA JoinerMoves ==
  ASSUME AccountsInv, NEW j \in joining, j.stage # "login",
         UNCHANGED <<users, attempts, welcomed>>,
         joining' = joining \ {j} \/ joining' = (joining \ {j}) \cup {[j EXCEPT !.stage = "insert"]}
  PROVE  UsersInv'
<1> DEFINE k == [j EXCEPT !.stage = "insert"]
<1>1. CASE joining' = joining \ {j}
  BY <1>1 DEF AccountsInv, UsersInv, Account
<1>2. CASE joining' = (joining \ {j}) \cup {k}
  <2>1. k.id = j.id /\ k.stage \in {"insert", j.stage}
    OBVIOUS
  <2> HIDE DEF k
  <2>2. \A i \in joining' : i # k => i \in joining \ {j}
    BY <1>2
  <2>3. ASSUME NEW i \in joining' \ {k}
        PROVE  /\ i.id \in 1 .. attempts /\ i.stage \in {"lookup", "insert", "login"}
               /\ i.id # k.id
               /\ IF i.stage = "login" THEN Account(i) \in users
                  ELSE \A u \in users : u.id # i.id
    BY <2>1, <2>2 DEF AccountsInv, UsersInv
  <2>4. \A i, h \in joining' \ {k} : i # h => i.id # h.id
    BY <2>2 DEF AccountsInv, UsersInv
  <2>5. /\ k.id \in 1 .. attempts /\ k.stage \in {"lookup", "insert"}
        /\ \A u \in users : u.id # k.id
    BY <2>1 DEF AccountsInv, UsersInv
  <2>6. \A i \in joining' : \A h \in joining' : i # h => i.id # h.id
    BY <2>3, <2>4
  <2>7. \A i \in joining' :
          /\ i.id \in 1 .. attempts /\ i.stage \in {"lookup", "insert", "login"}
          /\ IF i.stage = "login" THEN Account(i) \in users ELSE \A u \in users : u.id # i.id
    BY <2>3, <2>5
  <2> QED
    BY <2>6, <2>7 DEF AccountsInv, UsersInv, Account
<1> QED
  BY <1>1, <1>2

LEMMA UsersStep == AccountsInv /\ Accounts!AccountsNext => UsersInv'
<1> SUFFICES ASSUME AccountsInv, Accounts!AccountsNext PROVE UsersInv'
  OBVIOUS
<1>1. ASSUME NEW name \in Name, NEW email \in Email, Accounts!Register(name, email)
      PROVE  UsersInv'
  <2> DEFINE k == [id |-> attempts + 1, name |-> name, email |-> email, stage |-> "lookup"]
  <2>1. attempts' = attempts + 1 /\ joining' = joining \cup {k} /\ UNCHANGED <<users, welcomed>>
    BY <1>1 DEF Accounts!Register
  <2>2. k.id = attempts + 1 /\ k.stage = "lookup"
    OBVIOUS
  <2> HIDE DEF k
  <2>3. /\ attempts \in Nat /\ attempts' \in Nat /\ 1 .. attempts \subseteq 1 .. attempts'
        /\ k.id \in 1 .. attempts' /\ k.id \notin 1 .. attempts
    BY <2>1, <2>2 DEF AccountsInv, UsersInv
  <2>4. ASSUME NEW i \in joining' \ {k}
        PROVE  /\ i \in joining /\ i.id \in 1 .. attempts' /\ i.id # k.id
               /\ i.stage \in {"lookup", "insert", "login"}
               /\ IF i.stage = "login" THEN Account(i) \in users
                  ELSE \A u \in users : u.id # i.id
    BY <2>1, <2>3 DEF AccountsInv, UsersInv
  <2>5. \A i, h \in joining' : i # h => i.id # h.id
    BY <2>4 DEF AccountsInv, UsersInv
  <2>6. \A u \in users : u.id # k.id /\ u.id \in 1 .. attempts'
    BY <2>3 DEF AccountsInv, UsersInv
  <2>7. \A i \in joining' :
          /\ i.id \in 1 .. attempts' /\ i.stage \in {"lookup", "insert", "login"}
          /\ IF i.stage = "login" THEN Account(i) \in users ELSE \A u \in users : u.id # i.id
    BY <2>2, <2>3, <2>4, <2>6
  <2> QED
    BY <2>1, <2>3, <2>5, <2>6, <2>7 DEF AccountsInv, UsersInv, Account
<1>2. ASSUME NEW j \in joining, Accounts!Lookup(j) PROVE UsersInv'
  BY <1>2, JoinerMoves DEF Accounts!Lookup
<1>3. ASSUME NEW j \in joining, NEW ok \in BOOLEAN, Accounts!Insert(j, ok) PROVE UsersInv'
  <2>1. CASE ok /\ Accounts!Distinct(j)
    <3> DEFINE k == [j EXCEPT !.stage = "login"]
    <3>1. /\ users' = users \cup {Account(j)} /\ joining' = (joining \ {j}) \cup {k}
          /\ UNCHANGED <<attempts, welcomed>> /\ j.stage = "insert"
      BY <1>3, <2>1 DEF Accounts!Insert, Account
    <3>2. \A u \in users : u.name # j.name /\ u.email # j.email
      BY <2>1 DEF Accounts!Distinct, Accounts!ByUsername, Accounts!ByEmail
    <3>3. Account(j).id = j.id /\ Account(j).name = j.name /\ Account(j).email = j.email
      BY DEF Account
    <3>4. \A u \in users : u.id # j.id
      BY <3>1 DEF AccountsInv, UsersInv
    <3>5. \A u, w \in users' : u # w => u.name # w.name /\ u.email # w.email /\ u.id # w.id
      BY <3>1, <3>2, <3>3, <3>4 DEF AccountsInv, UsersInv
    <3>6. k.id = j.id /\ k.stage = "login" /\ Account(k) = Account(j)
      <4>1. j.stage = "insert"
        BY <3>1
      <4>2. DOMAIN k = DOMAIN j /\ k.id = j.id /\ k.name = j.name /\ k.email = j.email
        OBVIOUS
      <4> QED
        BY <4>2 DEF Account
    <3> HIDE DEF k
    <3>7. \A u \in users' : u.id \in 1 .. attempts
      BY <3>1, <3>3 DEF AccountsInv, UsersInv
    <3>8. ASSUME NEW i \in joining' \ {k}
          PROVE  /\ i \in joining /\ i.id # k.id
                 /\ IF i.stage = "login" THEN Account(i) \in users' ELSE \A u \in users' : u.id # i.id
      BY <3>1, <3>3, <3>6 DEF AccountsInv, UsersInv
    <3> QED
      BY <3>1, <3>5, <3>6, <3>7, <3>8 DEF AccountsInv, UsersInv
  <2>2. CASE ~(ok /\ Accounts!Distinct(j))
    BY <1>3, <2>2, JoinerMoves DEF Accounts!Insert
  <2> QED
    BY <2>1, <2>2
<1>4. ASSUME NEW j \in joining, NEW ok \in BOOLEAN, Accounts!Welcome(j, ok) PROVE UsersInv'
  <2>1. joining' = joining \ {j} /\ UNCHANGED <<users, attempts>> /\ j.stage = "login"
    BY <1>4 DEF Accounts!Welcome
  <2>2. \A u \in Accounts!ByUsername(j.name) : u.id = j.id
    <3>1. Account(j) \in users /\ Account(j).name = j.name /\ Account(j).id = j.id
      BY <2>1 DEF AccountsInv, UsersInv, Account
    <3> QED
      BY <3>1 DEF AccountsInv, UsersInv, Accounts!ByUsername
  <2>3. \A pair \in welcomed' : pair[1] = pair[2]
    BY <1>4, <2>2 DEF Accounts!Welcome, AccountsInv, UsersInv
  <2> QED
    BY <2>1, <2>3 DEF AccountsInv, UsersInv
<1>5. CASE UNCHANGED <<users, joining, attempts, welcomed>>
  BY <1>5, UsersKept
<1>6. \/ UNCHANGED <<users, joining, attempts, welcomed>>
      \/ \E name \in Name, email \in Email : Accounts!Register(name, email)
      \/ \E j \in joining : \/ Accounts!Lookup(j)
                            \/ \E ok \in BOOLEAN : Accounts!Insert(j, ok) \/ Accounts!Welcome(j, ok)
  BY DEF Accounts!AccountsNext, Accounts!Login, Accounts!Visit, Accounts!Expire, Accounts!Logout,
         Accounts!GetSession, Accounts!Validate, Accounts!Answer
<1> QED
  BY <1>1, <1>2, <1>3, <1>4, <1>5, <1>6

\* CreateSession gives out a token no session ever had.
LEMMA SessionMade ==
  ASSUME AccountsInv, NEW user, Accounts!CreateSession(user), UNCHANGED <<visits, ended>>
  PROVE  SessionsInv'
<1> DEFINE n == Cardinality(issued) + 1
           s == [token |-> n, user |-> user.id]
<1>1. sessions' = sessions \cup {s} /\ issued' = issued \cup {s}
  <2>1. Accounts!Cardinality(issued) = Cardinality(issued)
    BY DEF Accounts!Cardinality, Cardinality
  <2> QED
    BY <2>1 DEF Accounts!CreateSession
<1>2. Cardinality(issued) \in Nat
  BY FS_CardinalityType DEF AccountsInv, SessionsInv
<1>3. s.token = n
  OBVIOUS
<1>4. s \notin issued
  BY <1>2, <1>3 DEF AccountsInv, SessionsInv
<1> HIDE DEF s
<1>5. IsFiniteSet(issued') /\ Cardinality(issued') = n
  BY <1>1, <1>4, FS_AddElement DEF AccountsInv, SessionsInv
<1>6. \A t \in issued' : /\ t.token \in 1 .. n
                         /\ \A u \in issued' : t.token = u.token => t = u
  BY <1>1, <1>2, <1>3 DEF AccountsInv, SessionsInv
<1>7. sessions' \subseteq issued' /\ ended' \subseteq issued' \ sessions'
  BY <1>1, <1>4 DEF AccountsInv, SessionsInv
<1> QED
  BY <1>1, <1>5, <1>6, <1>7 DEF AccountsInv, SessionsInv

LEMMA SessionsStep == AccountsInv /\ Accounts!AccountsNext => SessionsInv'
<1> SUFFICES ASSUME AccountsInv, Accounts!AccountsNext PROVE SessionsInv'
  OBVIOUS
<1>1. ASSUME NEW name \in Name, Accounts!Login(name) PROVE SessionsInv'
  BY <1>1, SessionMade DEF Accounts!Login
<1>2. ASSUME NEW j \in joining, NEW ok \in BOOLEAN, Accounts!Welcome(j, ok) PROVE SessionsInv'
  <2>1. CASE ok
    BY <1>2, <2>1, SessionMade DEF Accounts!Welcome
  <2>2. CASE ~ok
    BY <1>2, <2>2 DEF Accounts!Welcome, AccountsInv, SessionsInv
  <2> QED
    BY <2>1, <2>2
<1>3. ASSUME NEW s \in issued, NEW ok \in BOOLEAN, Accounts!Logout(s, ok) PROVE SessionsInv'
  BY <1>3 DEF Accounts!Logout, AccountsInv, SessionsInv
<1>4. ASSUME NEW s \in issued, Accounts!Visit(s) PROVE SessionsInv'
  <2> DEFINE v == [id |-> used, session |-> s, late |-> s \in ended, stage |-> "arrived",
                   user |-> 0]
  <2>1. visits' = visits \cup {v} /\ UNCHANGED <<sessions, issued, ended>>
    BY <1>4 DEF Accounts!Visit
  <2>2. v.session = s /\ (v.late <=> s \in ended) /\ v.stage = "arrived"
    OBVIOUS
  <2> HIDE DEF v
  <2> QED
    BY <2>1, <2>2 DEF AccountsInv, SessionsInv
<1>5. ASSUME NEW v \in visits, Accounts!GetSession(v) PROVE SessionsInv'
  <2>1. /\ visits' = (visits \ {v}) \cup {[v EXCEPT !.stage = "found", !.user = s.user] :
                                            s \in Accounts!OfToken(v.session.token)}
        /\ UNCHANGED <<sessions, issued, ended>>
    BY <1>5 DEF Accounts!GetSession
  <2>2. \A s \in Accounts!OfToken(v.session.token) : s = v.session /\ s \notin ended
    BY DEF AccountsInv, SessionsInv, Accounts!OfToken
  <2>3. ASSUME NEW w \in visits', w \notin visits
        PROVE  /\ w.session = v.session /\ w.late = v.late
               /\ w.session \in sessions /\ w.user = w.session.user
    <3>1. PICK s \in Accounts!OfToken(v.session.token) :
            w = [v EXCEPT !.stage = "found", !.user = s.user]
      BY <2>1, <2>3
    <3> QED
      BY <2>2, <3>1 DEF Accounts!OfToken, AccountsInv, SessionsInv
  <2> QED
    BY <2>1, <2>3 DEF AccountsInv, SessionsInv
<1>6. ASSUME NEW v \in visits, Accounts!Validate(v) PROVE SessionsInv'
  <2>1. v.stage = "found" /\ issued' = issued
    BY <1>6 DEF Accounts!Validate
  <2>2. CASE v.session \in expired
    <3>1. /\ sessions' = {s \in sessions : s.token # v.session.token}
          /\ ended' = ended \cup {v.session} /\ visits' = visits \ {v}
      BY <1>6, <2>2 DEF Accounts!Validate
    <3> QED
      BY <2>1, <3>1 DEF AccountsInv, SessionsInv
  <2>3. CASE v.session \notin expired
    <3>1. /\ visits' = (visits \ {v}) \cup {[v EXCEPT !.stage = "known", !.user = u.id] :
                                              u \in Accounts!ById(v.user)}
          /\ UNCHANGED <<sessions, ended>>
      BY <1>6, <2>3 DEF Accounts!Validate
    <3>2. ASSUME NEW w \in visits', w \notin visits
          PROVE  w.session = v.session /\ w.late = v.late /\ w.user = v.user
      <4>1. PICK u \in Accounts!ById(v.user) : w = [v EXCEPT !.stage = "known", !.user = u.id]
        BY <3>1, <3>2
      <4> QED
        BY <4>1 DEF Accounts!ById
    <3> QED
      BY <2>1, <3>1, <3>2 DEF AccountsInv, SessionsInv
  <2> QED
    BY <2>2, <2>3
<1>7. ASSUME NEW v \in visits, Accounts!Answer(v) PROVE SessionsInv'
  BY <1>7 DEF Accounts!Answer, AccountsInv, SessionsInv
<1>8. CASE UNCHANGED <<sessions, issued, ended, visits>>
  BY <1>8 DEF AccountsInv, SessionsInv
<1>9. \/ UNCHANGED <<sessions, issued, ended, visits>>
      \/ \E name \in Name : Accounts!Login(name)
      \/ \E j \in joining, ok \in BOOLEAN : Accounts!Welcome(j, ok)
      \/ \E s \in issued : Accounts!Visit(s) \/ \E ok \in BOOLEAN : Accounts!Logout(s, ok)
      \/ \E v \in visits : Accounts!GetSession(v) \/ Accounts!Validate(v) \/ Accounts!Answer(v)
  BY DEF Accounts!AccountsNext, Accounts!Register, Accounts!Lookup, Accounts!Insert,
         Accounts!Expire
<1> QED
  BY <1>1, <1>2, <1>3, <1>4, <1>5, <1>6, <1>7, <1>8, <1>9

\* Registrations that race for a name or an address make one account and log in to
\* the one they made; a request after a logout, or after its session was found
\* expired, has no identity (AuthService.Register, ValidateSession).
THEOREM OneUserHolds == PartsSpec => []OneUser
<1>1. PartsInit => AccountsInv
  BY AccountsStart DEF PartsInit
<1>2. AccountsInv /\ [PartsNext]_partVars => AccountsInv'
  <2> SUFFICES ASSUME AccountsInv, [PartsNext]_partVars PROVE AccountsInv'
    OBVIOUS
  <2>1. Accounts!AccountsNext \/ UNCHANGED accountVars
    BY DEF PartsNext, partVars
  <2>2. CASE UNCHANGED accountVars
    BY <2>2 DEF accountVars, AccountsInv, UsersInv, SessionsInv, Account
  <2> QED
    BY <2>1, <2>2, UsersStep, SessionsStep DEF AccountsInv
<1>3. AccountsInv => OneUser
  BY DEF AccountsInv, UsersInv, SessionsInv, OneUser, Accounts!OneAccount, Accounts!SessionEnds
<1> QED
  BY <1>1, <1>2, <1>3, PTL DEF PartsSpec
-----------------------------------------------------------------------------
(* Collaborators. *)

Stage == {"create", "enter", "own", "read", "check", "write", "remove", "forget"}
RepoRequest == [id : Nat, user : User, repo : RepoName, kind : Repos!Kinds \cup {"create"},
                other : User, late : BOOLEAN, stage : Stage]
InRegistry == {"enter", "forget"}
Acts(r) == r.stage \in {"write", "remove", "forget"} /\ r.kind \notin {"resolve", "erase"}

\* Requests are numbered.
AskedInv ==
  /\ begunAsking \in Nat /\ asked \subseteq RepoRequest
  /\ \A r \in asked : r.id \in 1 .. begunAsking
  /\ \A r, q \in asked : r.id = q.id => r = q

\* What was removed is not there, and who began without it passes no check.
RightsInv ==
  /\ members \in [RepoName -> [User -> Repos!Role]]
  /\ \A p \in RepoName, u \in User : <<p, u>> \in removed => members[p][u] = "none"
  /\ \A r \in asked : r.late => <<r.repo, r.user>> \in removed
  /\ \A r \in asked : Acts(r) => ~r.late

\* One request at a time is in the registry; its repository is not acknowledged,
\* and has a directory if it is being created.
LockInv ==
  /\ \A r \in asked : r.stage \in InRegistry => r.id = lock
  /\ lock = 0 \/ \E r \in asked : r.id = lock /\ r.stage \in InRegistry
  /\ \A r \in asked : r.stage \in InRegistry => \A a \in acked : a.repo # r.repo
  /\ \A r \in asked : r.stage = "enter" => r.repo \in dirs

\* What is acknowledged has a directory, and entries of its privacy.
StoreInv ==
  /\ entries \in [RepoName -> Repos!Entry \cup {Repos!NoEntry}]
  /\ index \in [RepoName -> Repos!Entry \cup {Repos!NoEntry}]
  /\ \A a \in acked :
       /\ a.repo \in RepoName /\ a.repo \in dirs
       /\ entries[a.repo] # Repos!NoEntry /\ entries[a.repo].private = a.private
       /\ index[a.repo] # Repos!NoEntry /\ index[a.repo].private = a.private

CommentsInv == comments \subseteq [id : Nat, author : User, status : {"open", "resolved"}]

ReposInv == AskedInv /\ RightsInv /\ LockInv /\ StoreInv /\ CommentsInv

LEMMA ReposStart == Repos!ReposInit => ReposInv
  BY DEF Repos!ReposInit, ReposInv, AskedInv, RightsInv, LockInv, StoreInv, CommentsInv, Repos!Role

\* A request is answered, or goes on to another stage of its handler.
Goes(r, stage) == asked' = (asked \ {r}) \cup {[r EXCEPT !.stage = stage]}
Ends(r) == asked' = asked \ {r}

LEMMA StageSet ==
  ASSUME NEW r \in RepoRequest, NEW stage \in Stage
  PROVE  LET k == [r EXCEPT !.stage = stage]
         IN  /\ k \in RepoRequest /\ k.stage = stage /\ k.id = r.id /\ k.user = r.user
             /\ k.repo = r.repo /\ k.kind = r.kind /\ k.other = r.other /\ k.late = r.late
  BY DEF RepoRequest

LEMMA AskedMoves ==
  ASSUME AskedInv, NEW r \in asked, begunAsking' = begunAsking, NEW stage \in Stage,
         Ends(r) \/ Goes(r, stage)
  PROVE  AskedInv'
<1> DEFINE k == [r EXCEPT !.stage = stage]
<1>1. k \in RepoRequest /\ k.id = r.id
  BY StageSet DEF AskedInv
<1>2. asked' \subseteq (asked \ {r}) \cup {k}
  BY DEF Ends, Goes
<1> HIDE DEF k
<1>3. ASSUME NEW q \in asked', NEW w \in asked', q.id = w.id PROVE q = w
  BY <1>1, <1>2, <1>3 DEF AskedInv
<1>4. ASSUME NEW q \in asked' PROVE q \in RepoRequest /\ q.id \in 1 .. begunAsking
  BY <1>1, <1>2 DEF AskedInv
<1> QED
  BY <1>3, <1>4 DEF AskedInv

LEMMA RightsMove ==
  ASSUME AskedInv, RightsInv, NEW r \in asked, NEW stage \in Stage, Ends(r) \/ Goes(r, stage),
         UNCHANGED <<members, removed>>,
         Goes(r, stage) => Acts(r) \/ stage \notin {"write", "remove", "forget"} \/ ~r.late
  PROVE  RightsInv'
<1> DEFINE k == [r EXCEPT !.stage = stage]
<1>1. k.late = r.late /\ k.repo = r.repo /\ k.user = r.user /\ k.stage = stage
  BY StageSet DEF AskedInv
<1>2. asked' = asked \ {r} \/ asked' = (asked \ {r}) \cup {k}
  BY DEF Ends, Goes
<1>3. k \in asked' /\ k \notin asked => (Acts(k) => ~k.late)
  BY <1>1 DEF Goes, Ends, Acts, RightsInv
<1> HIDE DEF k
<1>4. \A q \in asked' : q.late => <<q.repo, q.user>> \in removed
  BY <1>1, <1>2 DEF RightsInv
<1>5. \A q \in asked' : Acts(q) => ~q.late
  BY <1>2, <1>3 DEF RightsInv
<1> QED
  BY <1>4, <1>5 DEF RightsInv

\* The lock is not touched outside the registry.
LEMMA LockRests ==
  ASSUME AskedInv, LockInv, NEW r \in asked, NEW stage \in Stage, Ends(r) \/ Goes(r, stage),
         UNCHANGED <<lock, acked, dirs>>, r.stage \notin InRegistry, stage \notin InRegistry
  PROVE  LockInv'
<1> DEFINE k == [r EXCEPT !.stage = stage]
<1>1. k.stage = stage
  BY StageSet DEF AskedInv
<1>2. asked' = asked \ {r} \/ asked' = (asked \ {r}) \cup {k}
  BY DEF Ends, Goes
<1> HIDE DEF k
<1> QED
  BY <1>1, <1>2 DEF LockInv, InRegistry

\* A request takes the lock, of a repository that is not acknowledged.
LEMMA LockTaken ==
  ASSUME AskedInv, LockInv, NEW r \in asked, NEW stage \in InRegistry, Goes(r, stage),
         lock = 0, lock' = r.id, acked' \subseteq acked, \A a \in acked' : a.repo # r.repo,
         stage = "enter" => r.repo \in dirs'
  PROVE  LockInv'
<1> DEFINE k == [r EXCEPT !.stage = stage]
<1>1. k.stage = stage /\ k.id = r.id /\ k.repo = r.repo
  BY StageSet DEF AskedInv, InRegistry, Stage
<1>2. asked' = (asked \ {r}) \cup {k}
  BY DEF Goes
<1> HIDE DEF k
<1>3. \A q \in asked : q.stage \notin InRegistry
  BY DEF LockInv, AskedInv
<1>4. \A q \in asked' : q.stage \in InRegistry => q = k
  BY <1>2, <1>3
<1>5. k \in asked'
  BY <1>2
<1> QED
  BY <1>1, <1>4, <1>5 DEF LockInv, InRegistry

\* ... and gives it back.
LEMMA LockLeft ==
  ASSUME AskedInv, LockInv, NEW r \in asked, r.stage \in InRegistry, NEW stage \in Stage,
         Ends(r) \/ Goes(r, stage), stage \notin InRegistry, lock' = 0
  PROVE  LockInv'
<1> DEFINE k == [r EXCEPT !.stage = stage]
<1>1. k.stage = stage
  BY StageSet DEF AskedInv
<1>2. asked' \subseteq (asked \ {r}) \cup {k}
  BY DEF Ends, Goes
<1> HIDE DEF k
<1>3. \A q \in asked \ {r} : q.stage \notin InRegistry
  BY DEF LockInv, AskedInv
<1> QED
  BY <1>1, <1>2, <1>3 DEF LockInv, InRegistry

\* The handlers outside the registry, of those that give no role.
LEMMA Handled ==
  ASSUME ReposInv, NEW r \in asked, NEW stage \in Stage \ InRegistry, r.stage \notin InRegistry,
         Ends(r) \/ Goes(r, stage),
         Goes(r, stage) => Acts(r) \/ stage \notin {"write", "remove", "forget"} \/ ~r.late,
         UNCHANGED <<entries, index, dirs, lock, members, begunAsking, removed, acked>>,
         CommentsInv'
  PROVE  ReposInv'
<1>1. AskedInv' /\ RightsInv' /\ LockInv'
  BY AskedMoves, RightsMove, LockRests DEF ReposInv
<1> QED
  BY <1>1 DEF ReposInv, StoreInv

LEMMA CommentsKept == ReposInv /\ comments' = comments => CommentsInv'
  BY DEF ReposInv, CommentsInv

LEMMA AskStep ==
  ASSUME ReposInv, NEW u \in User, NEW p \in RepoName, NEW kind \in Repos!Kinds \cup {"create"},
         NEW other \in User, Repos!Ask(u, p, kind, other)
  PROVE  ReposInv'
<1> DEFINE stage == IF kind = "create" THEN "create"
                    ELSE IF kind \in {"resolve", "erase"} THEN "write" ELSE "read"
           k == [id |-> begunAsking + 1, user |-> u, repo |-> p, kind |-> kind, other |-> other,
                 late |-> <<p, u>> \in removed, stage |-> stage]
<1>1. /\ asked' = asked \cup {k} /\ begunAsking' = begunAsking + 1
      /\ UNCHANGED <<entries, index, dirs, lock, members, comments, removed, acked>>
  BY DEF Repos!Ask, Repos!registry
<1>2. k \in RepoRequest
  BY DEF ReposInv, AskedInv, RepoRequest, Stage
<1>3. /\ k.id = begunAsking + 1 /\ (k.late <=> <<k.repo, k.user>> \in removed)
      /\ k.stage \notin InRegistry /\ ~Acts(k)
  BY DEF Acts, InRegistry
<1> HIDE DEF k
<1>4. begunAsking \in Nat /\ begunAsking' \in Nat /\ k.id \in 1 .. begunAsking'
      /\ \A r \in asked : r.id \in 1 .. begunAsking' /\ r.id # k.id
  BY <1>1, <1>3 DEF ReposInv, AskedInv
<1>5. AskedInv'
  BY <1>1, <1>2, <1>4 DEF ReposInv, AskedInv
<1>6. RightsInv'
  BY <1>1, <1>3 DEF ReposInv, RightsInv
<1>7. LockInv'
  BY <1>1, <1>3 DEF ReposInv, LockInv, InRegistry
<1> QED
  BY <1>1, <1>5, <1>6, <1>7 DEF ReposInv, StoreInv, CommentsInv

LEMMA ChecksStep ==
  ASSUME ReposInv, NEW r \in asked,
         Repos!CheckRead(r) \/ Repos!CheckWrite(r) \/ Repos!LookAtMember(r)
  PROVE  ReposInv'
<1>1. CommentsInv'
  BY CommentsKept DEF Repos!CheckRead, Repos!CheckWrite, Repos!LookAtMember
<1>2. CASE Repos!CheckRead(r)
  <2>1. Goes(r, "check") \/ Ends(r)
    BY <1>2 DEF Repos!CheckRead, Repos!To, Repos!Answered, Goes, Ends
  <2> QED
    BY <1>1, <1>2, <2>1, Handled DEF Repos!CheckRead, Repos!registry, Stage, InRegistry
<1>3. CASE Repos!CheckWrite(r)
  <2>1. (Goes(r, "write") /\ Repos!IsWriter(r.repo, r.user)) \/ Ends(r)
    BY <1>3 DEF Repos!CheckWrite, Repos!To, Repos!Answered, Goes, Ends
  <2>2. r.stage = "check" /\ UNCHANGED <<entries, index, dirs, lock, members, begunAsking, removed, acked>>
    BY <1>3 DEF Repos!CheckWrite, Repos!registry
  <2>3. CASE Ends(r)
    <3>1. Goes(r, "check") => Acts(r) \/ "check" \notin {"write", "remove", "forget"} \/ ~r.late
      OBVIOUS
    <3> QED
      BY <1>1, <2>2, <2>3, <3>1, Handled DEF Stage, InRegistry
  <2>4. CASE Goes(r, "write") /\ Repos!IsWriter(r.repo, r.user)
    <3>1. ~r.late
      <4>1. r.repo \in RepoName /\ r.user \in User
        BY DEF ReposInv, AskedInv, RepoRequest
      <4> QED
        BY <2>4, <4>1 DEF ReposInv, RightsInv, Repos!IsWriter
    <3> QED
      BY <1>1, <2>2, <2>4, <3>1, Handled DEF Stage, InRegistry
  <2> QED
    BY <2>1, <2>3, <2>4
<1>4. CASE Repos!LookAtMember(r)
  <2>1. Goes(r, "remove") \/ Ends(r)
    BY <1>4 DEF Repos!LookAtMember, Repos!To, Repos!Answered, Goes, Ends
  <2>2. Acts(r) /\ r.stage = "write"
    BY <1>4 DEF Repos!LookAtMember, Acts
  <2>3. UNCHANGED <<entries, index, dirs, lock, members, begunAsking, removed, acked>>
    BY <1>4 DEF Repos!LookAtMember, Repos!registry
  <2> QED
    BY <1>1, <2>1, <2>2, <2>3, Handled DEF Stage, InRegistry
<1> QED
  BY <1>2, <1>3, <1>4

LEMMA ReviewStep ==
  ASSUME ReposInv, NEW r \in asked, Repos!Review(r)
  PROVE  ReposInv'
<1>1. r.stage = "write" /\ Ends(r)
      /\ UNCHANGED <<entries, index, dirs, lock, members, begunAsking, removed, acked>>
  BY DEF Repos!Review, Repos!ResolveComment, Repos!DeleteComment, Repos!Comment, Repos!Answered,
         Repos!registry, Ends
<1>2. r.id \in Nat /\ r.user \in User
  BY DEF ReposInv, AskedInv, RepoRequest
<1>3. CommentsInv'
  <2> DEFINE new == [id |-> r.id, author |-> r.user, status |-> "open"]
  <2>1. new \in [id : Nat, author : User, status : {"open", "resolved"}]
    BY <1>2
  <2>2. \A c \in comments :
          [c EXCEPT !.status = "resolved"] \in [id : Nat, author : User, status : {"open", "resolved"}]
    BY DEF ReposInv, CommentsInv
  <2>3. \/ comments' \subseteq comments \cup {new}
        \/ \E c \in comments : comments' = (comments \ {c}) \cup {[c EXCEPT !.status = "resolved"]}
    BY DEF Repos!Review, Repos!ResolveComment, Repos!DeleteComment, Repos!Comment
  <2> HIDE DEF new
  <2> QED
    BY <2>1, <2>2, <2>3 DEF ReposInv, CommentsInv
<1>4. Goes(r, "check") => Acts(r) \/ "check" \notin {"write", "remove", "forget"} \/ ~r.late
  OBVIOUS
<1> QED
  BY <1>1, <1>3, <1>4, Handled DEF Stage, InRegistry

\* Giving a role: who was begun without it may find it now.
LEMMA RoleGiven ==
  ASSUME ReposInv, NEW r \in asked, r.stage \notin InRegistry,
         NEW p \in RepoName, NEW u \in User, NEW role \in {"owner", "collaborator"},
         Repos!SetRole(p, u, role, r),
         UNCHANGED <<entries, index, dirs, lock, comments, begunAsking, acked>>
  PROVE  ReposInv'
<1> DEFINE Cleared(q) == IF q.repo = p /\ q.user = u THEN [q EXCEPT !.late = FALSE] ELSE q
<1>1. /\ asked' = {Cleared(q) : q \in asked \ {r}}
      /\ members' = [members EXCEPT ![p][u] = role] /\ removed' = removed \ {<<p, u>>}
  BY DEF Repos!SetRole
<1>2. ASSUME NEW q \in RepoRequest
      PROVE  /\ Cleared(q) \in RepoRequest /\ Cleared(q).id = q.id /\ Cleared(q).repo = q.repo
             /\ Cleared(q).user = q.user /\ Cleared(q).stage = q.stage
             /\ Cleared(q).kind = q.kind
             /\ Cleared(q).late => q.late /\ <<q.repo, q.user>> # <<p, u>>
  BY DEF RepoRequest
<1> HIDE DEF Cleared
<1>3. ASSUME NEW w \in asked'
      PROVE  \E q \in asked \ {r} : w = Cleared(q)
  BY <1>1
<1>4. AskedInv'
  <2>1. ASSUME NEW w \in asked', NEW z \in asked', w.id = z.id PROVE w = z
    BY <1>2, <1>3, <2>1 DEF ReposInv, AskedInv
  <2>2. ASSUME NEW w \in asked' PROVE w \in RepoRequest /\ w.id \in 1 .. begunAsking
    BY <1>2, <1>3 DEF ReposInv, AskedInv
  <2> QED
    BY <2>1, <2>2 DEF ReposInv, AskedInv
<1>5. RightsInv'
  <2>1. members' \in [RepoName -> [User -> Repos!Role]]
    BY <1>1 DEF ReposInv, RightsInv, Repos!Role
  <2>2. \A x \in RepoName, y \in User :
          <<x, y>> \in removed' => <<x, y>> \in removed /\ members'[x][y] = members[x][y]
    BY <1>1 DEF ReposInv, RightsInv
  <2>3. \A w \in asked' : w.late => <<w.repo, w.user>> \in removed'
    BY <1>1, <1>2, <1>3 DEF ReposInv, RightsInv, AskedInv
  <2>4. \A w \in asked' : Acts(w) => ~w.late
    BY <1>2, <1>3 DEF ReposInv, RightsInv, AskedInv, Acts
  <2> QED
    BY <2>1, <2>2, <2>3, <2>4 DEF ReposInv, RightsInv
<1>6. LockInv'
  <2>1. \A w \in asked' : w.stage \in InRegistry =>
          w.id = lock /\ (\A a \in acked : a.repo # w.repo) /\ (w.stage = "enter" => w.repo \in dirs)
    BY <1>2, <1>3 DEF ReposInv, LockInv, AskedInv
  <2>2. ASSUME NEW q \in asked, q.stage \in InRegistry
        PROVE  Cleared(q) \in asked' /\ Cleared(q).id = q.id /\ Cleared(q).stage = q.stage
    BY <1>1, <1>2, <2>2 DEF ReposInv, AskedInv
  <2> QED
    BY <2>1, <2>2 DEF ReposInv, LockInv, InRegistry
<1> QED
  BY <1>4, <1>5, <1>6 DEF ReposInv, StoreInv, CommentsInv

LEMMA MembersStep ==
  ASSUME ReposInv, NEW r \in asked, NEW ok \in BOOLEAN,
         \/ Repos!RecordOwner(r, ok) \/ Repos!AddCollaborator(r, ok)
         \/ Repos!RemoveMember(r, ok)
  PROVE  ReposInv'
<1> USE DEF Repos!registry
<1>1. /\ r.repo \in RepoName /\ r.user \in User /\ r.other \in User
  BY DEF ReposInv, AskedInv, RepoRequest
<1>2. r.stage \in {"own", "write", "remove"}
      /\ UNCHANGED <<entries, index, dirs, lock, comments, begunAsking, acked>>
  BY DEF Repos!RecordOwner, Repos!AddCollaborator, Repos!RemoveMember
<1>3. CASE ok /\ Repos!RecordOwner(r, ok)
  BY <1>1, <1>2, <1>3, RoleGiven DEF Repos!RecordOwner, InRegistry
<1>4. CASE ok /\ Repos!AddCollaborator(r, ok)
  BY <1>1, <1>2, <1>4, RoleGiven DEF Repos!AddCollaborator, InRegistry
<1>5. CASE Ends(r) /\ UNCHANGED <<members, removed>>
  <2>1. Goes(r, "check") => Acts(r) \/ "check" \notin {"write", "remove", "forget"} \/ ~r.late
    OBVIOUS
  <2> QED
    BY <1>2, <1>5, <2>1, Handled, CommentsKept DEF Stage, InRegistry
<1>6. CASE /\ Ends(r) /\ removed' = removed \cup {<<r.repo, r.other>>}
           /\ members' = [members EXCEPT ![r.repo][r.other] = "none"]
  <2>1. AskedInv'
    BY <1>2, <1>6, AskedMoves DEF ReposInv, Stage
  <2>2. LockInv'
    BY <1>2, <1>6 DEF ReposInv, LockInv, Ends, InRegistry
  <2>3. members' \in [RepoName -> [User -> Repos!Role]]
    BY <1>1, <1>6 DEF ReposInv, RightsInv, Repos!Role
  <2>4. \A p \in RepoName, u \in User : <<p, u>> \in removed' => members'[p][u] = "none"
    BY <1>1, <1>6 DEF ReposInv, RightsInv
  <2>5. RightsInv'
    BY <1>6, <2>3, <2>4 DEF ReposInv, RightsInv, Ends
  <2> QED
    BY <1>2, <2>1, <2>2, <2>5 DEF ReposInv, StoreInv, CommentsInv
<1> QED
  BY <1>3, <1>4, <1>5, <1>6
     DEF Repos!RecordOwner, Repos!AddCollaborator, Repos!RemoveMember, Repos!Answered, Ends

\* A save writes what the memory is going to be, or nothing.
LEMMA StarStep ==
  ASSUME ReposInv, NEW r \in asked, NEW ok \in BOOLEAN, Repos!Star(r, ok)
  PROVE  ReposInv'
<1>1. /\ r.stage = "write" /\ Ends(r)
      /\ UNCHANGED <<dirs, lock, members, comments, begunAsking, removed, acked>>
  BY DEF Repos!Star, Repos!Answered, Ends
<1>2. r.repo \in RepoName /\ r.user \in User
  BY DEF ReposInv, AskedInv, RepoRequest
<1>3. CASE UNCHANGED <<entries, index>>
  <2>1. Goes(r, "check") => Acts(r) \/ "check" \notin {"write", "remove", "forget"} \/ ~r.late
    OBVIOUS
  <2> QED
    BY <1>1, <1>3, <2>1, Handled, CommentsKept DEF Stage, InRegistry
<1>4. CASE /\ entries[r.repo] # Repos!NoEntry
           /\ entries' = [entries EXCEPT ![r.repo].stars = Repos!Stars(r)]
           /\ index' \in {entries', index}
  <2> DEFINE e == entries[r.repo]
             new == [entries[r.repo] EXCEPT !.stars = Repos!Stars(r)]
  <2>1. e \in Repos!Entry
    BY <1>2, <1>4 DEF ReposInv, StoreInv
  <2>2. Repos!Stars(r) \in SUBSET User
    BY <1>2, <2>1 DEF Repos!Stars, Repos!Entry
  <2>3. new \in Repos!Entry /\ new.private = e.private /\ new # Repos!NoEntry
    <3>1. new.stars = Repos!Stars(r) /\ new \in Repos!Entry /\ new.private = e.private
      BY <2>1, <2>2 DEF Repos!Entry
    <3>2. Repos!NoEntry.stars = {0}
      BY DEF Repos!NoEntry
    <3> HIDE DEF new
    <3> QED
      BY <2>2, <3>1, <3>2, UserAssumption
  <2>4. entries' = [entries EXCEPT ![r.repo] = new]
    BY <1>4
  <2> HIDE DEF new
  <2>5. entries' \in [RepoName -> Repos!Entry \cup {Repos!NoEntry}]
    BY <2>3, <2>4 DEF ReposInv, StoreInv
  <2>6. \A p \in RepoName : entries[p] # Repos!NoEntry =>
          entries'[p] # Repos!NoEntry /\ entries'[p].private = entries[p].private
    BY <1>2, <2>3, <2>4 DEF ReposInv, StoreInv
  <2>7. StoreInv'
    <3>1. StoreInv
      BY DEF ReposInv
    <3>2. index' \in [RepoName -> Repos!Entry \cup {Repos!NoEntry}]
      BY <1>4, <2>5, <3>1 DEF StoreInv
    <3>3. ASSUME NEW a \in acked' PROVE
            /\ a.repo \in RepoName /\ a.repo \in dirs'
            /\ entries'[a.repo] # Repos!NoEntry /\ entries'[a.repo].private = a.private
            /\ index'[a.repo] # Repos!NoEntry /\ index'[a.repo].private = a.private
      <4>1. /\ a.repo \in RepoName /\ a.repo \in dirs'
            /\ entries[a.repo] # Repos!NoEntry /\ entries[a.repo].private = a.private
            /\ index[a.repo] # Repos!NoEntry /\ index[a.repo].private = a.private
        BY <1>1, <3>1, <3>3 DEF StoreInv
      <4>2. entries'[a.repo] # Repos!NoEntry /\ entries'[a.repo].private = a.private
        BY <2>6, <4>1
      <4>3. QED
        BY <1>4, <4>1, <4>2
    <3>4. QED
      BY <2>5, <3>2, <3>3 DEF StoreInv
  <2>8. AskedInv' /\ LockInv'
    BY <1>1, AskedMoves, LockRests DEF ReposInv, Stage, InRegistry
  <2>9. RightsInv'
    BY <1>1 DEF ReposInv, RightsInv, Ends
  <2> QED
    BY <1>1, <2>7, <2>8, <2>9 DEF ReposInv, CommentsInv
<1> QED
  BY <1>3, <1>4 DEF Repos!Star, Repos!Save

LEMMA CreateStep ==
  ASSUME ReposInv, NEW r \in asked, Repos!InitRepository(r)
  PROVE  ReposInv'
<1> USE DEF Repos!registry
<1>1. /\ r.stage = "create" /\ lock = 0
      /\ UNCHANGED <<entries, index, members, comments, begunAsking, removed, acked>>
  BY DEF Repos!InitRepository
<1>2. CASE Ends(r) /\ UNCHANGED <<dirs, lock>>
  <2>1. Goes(r, "check") => Acts(r) \/ "check" \notin {"write", "remove", "forget"} \/ ~r.late
    OBVIOUS
  <2> QED
    BY <1>1, <1>2, <2>1, Handled, CommentsKept DEF Stage, InRegistry
<1>3. CASE /\ Goes(r, "enter") /\ lock' = r.id
           /\ r.repo \notin dirs /\ dirs' = dirs \cup {r.repo}
  <2>1. AskedInv'
    BY <1>1, <1>3, AskedMoves DEF ReposInv, Stage
  <2>2. RightsInv'
    BY <1>1, <1>3, RightsMove DEF ReposInv, Stage
  <2>3. LockInv'
    <3>1. \A a \in acked' : a.repo # r.repo
      BY <1>1, <1>3 DEF ReposInv, StoreInv
    <3> QED
      BY <1>1, <1>3, <3>1, LockTaken DEF ReposInv, InRegistry
  <2> QED
    BY <1>1, <1>3, <2>1, <2>2, <2>3 DEF ReposInv, StoreInv, CommentsInv
<1> QED
  BY <1>2, <1>3 DEF Repos!InitRepository, Repos!Answered, Repos!To, Ends, Goes

LEMMA EnterStep ==
  ASSUME ReposInv, NEW r \in asked, NEW ok \in BOOLEAN, Repos!EnterRepository(r, ok)
  PROVE  ReposInv'
<1> DEFINE new == [private |-> r.other = r.user, stars |-> {}]
           a == [repo |-> r.repo, private |-> r.other = r.user]
<1>1. /\ r.stage = "enter" /\ lock' = 0
      /\ entries' = [entries EXCEPT ![r.repo] = new] /\ index' = IF ok THEN entries' ELSE index
      /\ IF ok THEN Goes(r, "own") /\ acked' = acked \cup {a} ELSE Ends(r) /\ acked' = acked
      /\ UNCHANGED <<dirs, members, comments, begunAsking, removed>>
  BY DEF Repos!EnterRepository, Repos!Save, Repos!To, Repos!Answered, Repos!Acknowledge, Goes, Ends
<1>2. r.repo \in RepoName /\ r.user \in User
  BY DEF ReposInv, AskedInv, RepoRequest
<1>3. AskedInv'
  BY <1>1, AskedMoves DEF ReposInv, Stage
<1>4. RightsInv'
  BY <1>1, RightsMove DEF ReposInv, Stage
<1>5. LockInv'
  BY <1>1, LockLeft DEF ReposInv, InRegistry, Stage
<1>6. r.repo \in dirs /\ \A b \in acked : b.repo # r.repo
  BY <1>1 DEF ReposInv, LockInv, StoreInv, InRegistry
<1>7. new \in Repos!Entry /\ new # Repos!NoEntry /\ new.private = a.private /\ a.repo = r.repo
  <2>1. new.stars # Repos!NoEntry.stars
    BY DEF Repos!NoEntry
  <2> QED
    BY <2>1 DEF Repos!Entry
<1> HIDE DEF new, a
<1>8. /\ entries' \in [RepoName -> Repos!Entry \cup {Repos!NoEntry}]
      /\ index' \in [RepoName -> Repos!Entry \cup {Repos!NoEntry}]
  BY <1>1, <1>7 DEF ReposInv, StoreInv
<1>9. \A b \in acked : /\ entries'[b.repo] = entries[b.repo]
                       /\ index'[b.repo] \in {entries[b.repo], index[b.repo]}
  BY <1>1, <1>6 DEF ReposInv, StoreInv
<1>10. entries'[r.repo] = new
  BY <1>1, <1>2 DEF ReposInv, StoreInv
<1>11. StoreInv'
  BY <1>1, <1>2, <1>6, <1>7, <1>8, <1>9, <1>10 DEF ReposInv, StoreInv
<1> QED
  BY <1>1, <1>3, <1>4, <1>5, <1>11 DEF ReposInv, CommentsInv

LEMMA DeleteStep ==
  ASSUME ReposInv, NEW r \in asked, NEW ok \in BOOLEAN,
         Repos!RemoveDirectory(r, ok) \/ Repos!ForgetEntry(r, ok)
  PROVE  ReposInv'
<1>1. CASE Repos!ForgetEntry(r, ok)
  <2>1. /\ r.stage = "forget" /\ lock' = 0 /\ Ends(r)
        /\ entries' = [entries EXCEPT ![r.repo] = Repos!NoEntry] /\ index' \in {entries', index}
        /\ UNCHANGED <<dirs, members, comments, begunAsking, removed, acked>>
    BY <1>1 DEF Repos!ForgetEntry, Repos!Save, Repos!Answered, Ends
  <2>2. AskedInv'
    BY <2>1, AskedMoves DEF ReposInv, Stage
  <2>3. RightsInv'
    BY <2>1 DEF ReposInv, RightsInv, Ends
  <2>4. LockInv'
    BY <2>1, LockLeft DEF ReposInv, InRegistry, Stage
  <2>5. \A a \in acked : a.repo # r.repo
    BY <2>1 DEF ReposInv, LockInv, InRegistry
  <2>6. StoreInv'
    BY <2>1, <2>5 DEF ReposInv, StoreInv
  <2> QED
    BY <2>1, <2>2, <2>3, <2>4, <2>6 DEF ReposInv, CommentsInv
<1>2. CASE Repos!RemoveDirectory(r, ok)
  <2>1. /\ r.stage = "write" /\ r.kind = "delete" /\ lock = 0
        /\ UNCHANGED <<entries, index, members, comments, begunAsking, removed>>
        /\ \/ Ends(r) /\ UNCHANGED <<dirs, lock, acked>>
           \/ /\ Goes(r, "forget") /\ dirs' = dirs \ {r.repo} /\ lock' = r.id
              /\ acked' = {a \in acked : a.repo # r.repo}
    BY <1>2 DEF Repos!RemoveDirectory, Repos!To, Repos!Answered, Goes, Ends
  <2>2. CASE Ends(r) /\ UNCHANGED <<dirs, lock, acked>>
    <3>1. Goes(r, "check") => Acts(r) \/ "check" \notin {"write", "remove", "forget"} \/ ~r.late
      OBVIOUS
    <3> QED
      BY <2>1, <2>2, <3>1, Handled, CommentsKept DEF Stage, InRegistry
  <2>3. CASE /\ Goes(r, "forget") /\ dirs' = dirs \ {r.repo} /\ lock' = r.id
             /\ acked' = {a \in acked : a.repo # r.repo}
    <3>1. AskedInv'
      BY <2>1, <2>3, AskedMoves DEF ReposInv, Stage
    <3>2. Acts(r)
      BY <2>1 DEF Acts
    <3>3. RightsInv'
      BY <2>1, <2>3, <3>2, RightsMove DEF ReposInv, Stage
    <3>4. LockInv'
      BY <2>1, <2>3, LockTaken DEF ReposInv, InRegistry
    <3> QED
      BY <2>1, <2>3, <3>1, <3>3, <3>4 DEF ReposInv, StoreInv, CommentsInv
  <2> QED
    BY <2>1, <2>2, <2>3
<1> QED
  BY <1>1, <1>2

LEMMA CrashStep == ReposInv /\ Repos!Crash => ReposInv'
<1> SUFFICES ASSUME ReposInv, Repos!Crash PROVE ReposInv'
  OBVIOUS
<1>1. /\ entries' = Repos!Loaded /\ index' = Repos!Loaded /\ asked' = {} /\ lock' = 0
      /\ UNCHANGED <<dirs, members, comments, begunAsking, removed, acked>>
  BY DEF Repos!Crash
<1>2. CASE \E p \in RepoName : index[p] # Repos!NoEntry
  <2>1. Repos!Loaded = index
    BY <1>2 DEF Repos!Loaded
  <2> QED
    BY <1>1, <2>1
       DEF ReposInv, AskedInv, RightsInv, LockInv, StoreInv, CommentsInv
<1>3. CASE \A p \in RepoName : index[p] = Repos!NoEntry
  <2>1. acked = {}
    BY <1>3 DEF ReposInv, StoreInv
  <2>2. Repos!Loaded \in [RepoName -> Repos!Entry \cup {Repos!NoEntry}]
    BY <1>3 DEF Repos!Loaded, Repos!Entry
  <2> QED
    BY <1>1, <2>1, <2>2
       DEF ReposInv, AskedInv, RightsInv, LockInv, StoreInv, CommentsInv
<1> QED
  BY <1>2, <1>3

LEMMA ReposStep == ReposInv /\ Repos!ReposNext => ReposInv'
<1> SUFFICES ASSUME ReposInv, Repos!ReposNext PROVE ReposInv'
  OBVIOUS
<1>1. ASSUME NEW u \in User, NEW v \in User, NEW p \in RepoName,
             NEW kind \in Repos!Kinds \cup {"create"}, Repos!Ask(u, p, kind, v)
      PROVE  ReposInv'
  BY <1>1, AskStep
<1>2. ASSUME NEW r \in asked,
             \/ Repos!CheckRead(r) \/ Repos!CheckWrite(r) \/ Repos!Create(r) \/ Repos!Delete(r)
             \/ Repos!Membership(r) \/ Repos!Review(r) \/ \E ok \in BOOLEAN : Repos!Star(r, ok)
      PROVE  ReposInv'
  <2>1. CASE Repos!CheckRead(r) \/ Repos!CheckWrite(r) \/ Repos!LookAtMember(r)
    BY <2>1, ChecksStep
  <2>2. CASE Repos!Create(r)
    BY <2>2, CreateStep, EnterStep, MembersStep DEF Repos!Create
  <2>3. CASE Repos!Delete(r)
    BY <2>3, DeleteStep DEF Repos!Delete
  <2>4. CASE Repos!Membership(r)
    BY <2>4, ChecksStep, MembersStep DEF Repos!Membership
  <2> QED
    BY <1>2, <2>1, <2>2, <2>3, <2>4, ReviewStep, StarStep
<1> QED
  BY <1>1, <1>2, CrashStep DEF Repos!ReposNext

LEMMA ReposAlways == PartsSpec => []ReposInv
<1>1. PartsInit => ReposInv
  BY ReposStart DEF PartsInit
<1>2. ReposInv /\ [PartsNext]_partVars => ReposInv'
  <2>1. PartsNext \/ UNCHANGED partVars => Repos!ReposNext \/ UNCHANGED repoVars
    BY DEF PartsNext, partVars
  <2>2. ReposInv /\ UNCHANGED repoVars => ReposInv'
    BY DEF repoVars, ReposInv, AskedInv, RightsInv, LockInv, StoreInv, CommentsInv
  <2> QED
    BY <2>1, <2>2, ReposStep
<1> QED
  BY <1>1, <1>2, PTL DEF PartsSpec

\* A request that begins after its user's membership was removed passes no later
\* check and changes nothing (RequireRepoWrite, the handlers behind it).
THEOREM RemovedCannotWriteHolds == PartsSpec => []RemovedCannotWrite
<1>1. ReposInv => RemovedCannotWrite
  BY DEF ReposInv, RightsInv, RemovedCannotWrite, Repos!RemovedCannotWrite, Acts
<1> QED
  BY <1>1, ReposAlways, PTL

\* An acknowledged repository keeps its directory, its entry and its privacy, in
\* memory and in the file, through failed saves and crashes of other requests; the
\* registry's lock is held only in the middle of a creation or a deletion.
THEOREM ReposKeptHolds == PartsSpec => []ReposKept
<1>1. ReposInv => Repos!ReposTypeOK
  BY DEF ReposInv, RightsInv, LockInv, StoreInv, CommentsInv, Repos!ReposTypeOK, InRegistry
<1>2. ReposInv => Repos!AckedRepoKept
  BY DEF ReposInv, StoreInv, Repos!AckedRepoKept
<1> QED
  BY <1>1, <1>2, ReposAlways, PTL DEF ReposKept
-----------------------------------------------------------------------------
\* A behaviour of the parts is one of Access: what is proved of Access holds of it.
LEMMA AccessRuns == PartsSpec => Spec
<1>1. PartsInit => Init
  BY DEF PartsInit
<1>2. [PartsNext]_partVars => [Next]_accessVars
  BY DEF PartsNext, partVars
<1> QED
  BY <1>1, <1>2, PTL DEF PartsSpec, Spec
=============================================================================
