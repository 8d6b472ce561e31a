-------------------------------- MODULE UCAN --------------------------------
(***************************************************************************)
(* What a UCAN token allows (internal/identity: ucan.go, ucan_chain.go).   *)
(* A token is a record of its claims; "signed" says that the signature on  *)
(* the wire is its issuer's.  Its proofs are the tokens it is delegated    *)
(* from, which it carries whole.                                           *)
(***************************************************************************)
EXTENDS Integers, FiniteSets

CONSTANTS
  All,      \* the resource or action "*"
  Skew,     \* clockSkewTolerance
  MaxDepth  \* the proof chains longer than this are refused

\* UCAN.HasCapability.
HasCapability(caps, resource, action) ==
  \E c \in caps : c.resource \in {resource, All} /\ {action, All} \cap c.actions # {}

\* actionAllowed.
ActionAllowed(action, allowed) == action \in allowed \/ All \in allowed

\* Mutant of CapabilitiesSubset: one action in common is enough.
CapabilitiesOverlap(child, parent) ==
  \A c \in child : \E p \in parent :
    /\ p.resource \in {c.resource, All}
    /\ \E a \in c.actions : ActionAllowed(a, p.actions)

\* Each capability of the child is covered by a single one of the parent.
CapabilitiesSubset(child, parent) ==
  \A c \in child : \E p \in parent :
    /\ p.resource \in {c.resource, All}
    /\ \A a \in c.actions : ActionAllowed(a, p.actions)

\* UCAN.Validate.
InTime(t, now) == t.begins <= now + Skew /\ t.expires >= now - Skew

\* What verifyProofChainRecursive asks of a proof before it goes down to it.
Delegates(p, t) == p.audience = t.issuer /\ CapabilitiesSubset(t.caps, p.caps)

\* The tokens a token's authority comes from, by generations; itself first.
Generations(token) ==
  LET tree[d \in 0 .. MaxDepth] ==
        IF d = 0 THEN {token} ELSE UNION {t.proofs : t \in tree[d - 1]}
  IN tree

Ancestors(token) == UNION {Generations(token)[d] : d \in 0 .. MaxDepth}

\* VerifyProofChain: signatures, times and delegations, down to the roots.
VerifyProofChain(token, now) ==
  /\ Generations(token)[MaxDepth] = {}
  /\ \A t \in Ancestors(token) :
       /\ t.signed /\ InTime(t, now)
       /\ \A p \in t.proofs : Delegates(p, t)
=============================================================================
