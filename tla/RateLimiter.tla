---------------------------- MODULE RateLimiter ----------------------------
(***************************************************************************)
(* The token bucket of internal/api/middleware/ratelimit.go: one bucket    *)
(* per remote address, refilled as time passes, forgotten when idle.       *)
(* Time is counted in steps in which Rate tokens flow in.                  *)
(***************************************************************************)
EXTENDS Integers, Sequences

CONSTANTS
  Addr,       \* remote addresses
  Rate,       \* tokens that flow into a bucket in a step of time
  Burst,      \* what a bucket holds
  IdleLimit,  \* the time after which the bucket of a silent address is forgotten
  MaxTime     \* bound: the last moment of the clock

VARIABLES
  now,       \* the clock
  visitors,  \* visitors[a]: the bucket of address a, tokens < 0 where there is none
  passed     \* passed[a]: the moments requests of a went through (history)

limiterVars == <<now, visitors, passed>>

NoVisitor == [tokens |-> -1, lastSeen |-> 0]

LimiterInit ==
  /\ now = 0
  /\ visitors = [a \in Addr |-> NoVisitor]
  /\ passed = [a \in Addr |-> <<>>]

Lower(x, y) == IF x <= y THEN x ELSE y

\* Mutant of Refilled: what flows in is not capped.
RefilledUncapped(a) == visitors[a].tokens + (now - visitors[a].lastSeen) * Rate

\* The bucket of a known address when its next request comes.
Refilled(a) == Lower(Burst, visitors[a].tokens + (now - visitors[a].lastSeen) * Rate)

\* RateLimiter.allow: the request goes through if ok, which the bucket decides.
Allow(a, ok) ==
  LET filled == IF visitors[a] = NoVisitor THEN Burst ELSE Refilled(a) IN
  /\ ok = (filled >= 1)
  /\ visitors' = [visitors EXCEPT ![a] = [tokens |-> IF ok THEN filled - 1 ELSE filled,
                                          lastSeen |-> now]]
  /\ passed' = IF ok THEN [passed EXCEPT ![a] = Append(@, now)] ELSE passed

\* Mutant of Cleanup: the buckets of all addresses are forgotten.
CleanupAll == visitors' = [a \in Addr |-> NoVisitor] /\ UNCHANGED <<now, passed>>

\* cleanupLoop: every few minutes, the addresses silent for longer than the limit.
Cleanup ==
  /\ visitors' = [a \in Addr |->
       IF now - visitors[a].lastSeen > IdleLimit THEN NoVisitor ELSE visitors[a]]
  /\ UNCHANGED <<now, passed>>

Tick == now < MaxTime /\ now' = now + 1

LimiterNext ==
  \/ Tick /\ UNCHANGED <<visitors, passed>>
  \/ Cleanup
  \/ \E a \in Addr, ok \in BOOLEAN : Allow(a, ok) /\ now' = now

LimiterSpec == LimiterInit /\ [][LimiterNext]_limiterVars
-----------------------------------------------------------------------------
\* In any stretch of time an address gets through no more than a full bucket
\* and what flowed in meanwhile, even if it was refused, stayed silent and was
\* forgotten in between.
RateBound ==
  \A a \in Addr : \A i, j \in DOMAIN passed[a] :
    i <= j => j - i + 1 <= Burst + Rate * (passed[a][j] - passed[a][i])
=============================================================================
