----------------------------- MODULE Authority -----------------------------
(***************************************************************************)
(* Who may do what: Access (tokens, revocations, rate limits), Accounts,   *)
(* Collaborators, the daemon's Identity and SSH.  The parts share no       *)
(* state, so a behaviour runs one of them, named by part, while the others *)
(* rest.                                                                   *)
(***************************************************************************)
EXTENDS Access

CONSTANTS
  Name, Email, MaxAccounts, MaxSessions, MaxUses, MaxFailures,  \* see Accounts
  User, RepoName, MaxAsked, MaxInFlight, DiskFaults,            \* see Collaborators
  Command, MaxIds, IdFaults,                                    \* see Identity
  Conn, MaxHostKeys, SSHFaults                                  \* see SSH

\* No user is numbered 0, which stands in the registry for a repository that is
\* not there.
ASSUME UserAssumption == 0 \notin User

VARIABLES
  part,
  users, sessions, joining, visits, attempts, used, failures, issued, expired, ended, welcomed,
  entries, index, dirs, lock, members, comments, asked, begunAsking, diskFaults, removed, acked,
  idFile, command, daemon, ids, idFaults, signed, overlapped,
  keyFile, server, hostKey, listening, closing, acceptor, conn, session, wg, hostKeys,
  sshFaults, shown

accountVars == <<users, sessions, joining, visits, attempts, used, failures, issued,
                 expired, ended, welcomed>>
repoVars == <<entries, index, dirs, lock, members, comments, asked, begunAsking,
              diskFaults, removed, acked>>
identityVars == <<idFile, command, daemon, ids, idFaults, signed, overlapped>>
sshVars == <<keyFile, server, hostKey, listening, closing, acceptor, conn, session, wg,
             hostKeys, sshFaults, shown>>
partVars == <<part, accessVars, accountVars, repoVars, identityVars, sshVars>>

Accounts == INSTANCE Accounts

Repos == INSTANCE Collaborators WITH
  Repo <- RepoName, MaxRequests <- MaxAsked, MaxFaults <- DiskFaults,
  requests <- asked, begun <- begunAsking, faults <- diskFaults

Identity == INSTANCE Identity WITH
  MaxKeys <- MaxIds, MaxFaults <- IdFaults, file <- idFile, keys <- ids,
  faults <- idFaults, used <- signed

SSH == INSTANCE SSH WITH
  MaxKeys <- MaxHostKeys, MaxFaults <- SSHFaults, keys <- hostKeys, faults <- sshFaults

PartsInit ==
  /\ part \in {"access", "accounts", "repos", "identity", "ssh"}
  /\ Init /\ Accounts!AccountsInit /\ Repos!ReposInit /\ Identity!IdentityInit /\ SSH!SSHInit

PartsNext ==
  /\ UNCHANGED part
  /\ IF part = "access" THEN Next ELSE UNCHANGED accessVars
  /\ IF part = "accounts" THEN Accounts!AccountsNext ELSE UNCHANGED accountVars
  /\ IF part = "repos" THEN Repos!ReposNext ELSE UNCHANGED repoVars
  /\ IF part = "identity" THEN Identity!IdentityNext ELSE UNCHANGED identityVars
  /\ IF part = "ssh" THEN SSH!SSHNext ELSE UNCHANGED sshVars

PartsSpec == PartsInit /\ [][PartsNext]_partVars
-----------------------------------------------------------------------------
\* Accounts: no two users share a name or an address, whatever registers at once,
\* and a session names its user until it was logged out or has run out.
OneUser == Accounts!OneAccount /\ Accounts!SessionEnds

\* Collaborators: who has lost the right to write passes no later check of it.
RemovedCannotWrite == Repos!RemovedCannotWrite

\* Collaborators: a repository whose creation was acknowledged outlives restarts,
\* and the registry's lock is never left behind.
ReposKept == Repos!ReposTypeOK /\ Repos!AckedRepoKept

\* Identity: a rotated identity keeps the keys the daemon signed with.  SSH:
\* clients see one host key, whatever crash comes in while it is made.
KeysStay == Identity!KeysKept /\ SSH!HostKeyStays

\* SSH: Stop returns only when no connection is served any more.
StopWaits == SSH!StopWaits
=============================================================================
