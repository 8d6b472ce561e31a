----------------------------- MODULE MCAccess -----------------------------
(* Authority on small instances. *)
EXTENDS Authority

Grants(resource, actions) == {[resource |-> resource, actions |-> actions]}

Token(nonce, issuer, audience, caps, proofs) ==
  [nonce |-> nonce, issuer |-> issuer, audience |-> audience, begins |-> 0,
   expires |-> 2, caps |-> caps, proofs |-> proofs, signed |-> TRUE]

\* Alice, who may read and write, delegates writing to Bob, who asks for more
\* in the second of his tokens.
ToBob == Token(11, "alice", "bob", Grants("repo", {"read", "write"}), {})
Bob == Token(12, "bob", "server", Grants("repo", {"write"}), {ToBob})
BobAll == Token(13, "bob", "server", Grants("repo", {"write", "*"}), {ToBob})
Tokens == {Bob, BobAll}

\* A daemon, and who else may make or rotate its key.
Commands == {<<"serve", 1>>, <<"quickstart", 1>>, <<"rotate", 1>>, <<"rotate", 2>>}
=============================================================================
