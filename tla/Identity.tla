------------------------------ MODULE Identity ------------------------------
(***************************************************************************)
(* The key of a daemon (internal/identity/did.go; gitant serve, quickstart *)
(* and rotate-key in cmd/gitant).  The three commands read and write the   *)
(* same file with nothing between them; serve and quickstart make a key if *)
(* there is none, rotate-key moves the key to the history and makes        *)
(* another, which the daemon takes up when it is next started.             *)
(***************************************************************************)
EXTENDS Integers

CONSTANTS
  Command,    \* "serve", and instances of "quickstart" and "rotate": <<name, n>>
  MaxKeys,    \* bound: keys made
  MaxFaults   \* bound: crashes

VARIABLES
  file,       \* identity.key: NoFile, Torn or an identity
  command,    \* command[c]: Idle, or the identity c is about to write
  daemon,     \* the identity of the running daemon, or NoFile
  keys,       \* the last key made; keys are numbered
  faults,
  used,       \* keys the daemon has signed with (history)
  overlapped  \* a command has written over what it had not read (history)

identityVars == <<file, command, daemon, keys, faults, used, overlapped>>

NoFile == [key |-> 0, previous |-> {}]
Torn == [key |-> -1, previous |-> {}]
Idle == [at |-> "idle", id |-> NoFile, read |-> NoFile]
Whole(f) == f.key > 0

IdentityInit ==
  /\ file = NoFile /\ command = [c \in Command |-> Idle] /\ daemon = NoFile
  /\ keys = 0 /\ faults = 0 /\ used = {} /\ overlapped = FALSE

NewKey == keys < MaxKeys /\ keys' = keys + 1

\* NewIdentity, with key k.
NewIdentity(k) == [key |-> k, previous |-> {}]

\* Mutant of Rotate: the key is replaced before it is archived.
RotateLost(id, k) == [key |-> k, previous |-> id.previous \cup {k}]

\* Identity.Rotate.
Rotate(id, k) == [key |-> k, previous |-> id.previous \cup {id.key}]

\* AllKnownDIDs, which are the keys VerifyWithHistory tries.
AllKnownDIDs(id) == id.previous \cup {id.key}

\* quickstart, when there is no file.
Quickstart(c) ==
  /\ c[1] = "quickstart" /\ command[c].at = "idle" /\ file = NoFile /\ NewKey
  /\ command' = [command EXCEPT ![c] = [at |-> "save", id |-> NewIdentity(keys'), read |-> file]]
  /\ UNCHANGED <<file, daemon, faults, used, overlapped>>

\* serve, when there is no file ...
Create(c) ==
  /\ c[1] = "serve" /\ command[c].at = "idle" /\ daemon = NoFile /\ file = NoFile /\ NewKey
  /\ command' = [command EXCEPT ![c] = [at |-> "save", id |-> NewIdentity(keys'), read |-> file]]
  /\ UNCHANGED <<file, daemon, faults, used, overlapped>>

\* ... and LoadIdentity when there is one; it stops at one that is torn.
LoadIdentity(c) ==
  /\ c[1] = "serve" /\ command[c].at = "idle" /\ daemon = NoFile /\ Whole(file)
  /\ daemon' = file
  /\ UNCHANGED <<file, command, keys, faults, used, overlapped>>

\* rotate-key, up to Save.
RotateKey(c) ==
  /\ c[1] = "rotate" /\ command[c].at = "idle" /\ Whole(file) /\ NewKey
  /\ command' = [command EXCEPT ![c] = [at |-> "save", id |-> Rotate(file, keys'), read |-> file]]
  /\ UNCHANGED <<file, daemon, faults, used, overlapped>>

\* Identity.Save: os.WriteFile empties the file ...
Open(c) ==
  /\ command[c].at = "save"
  /\ overlapped' = (overlapped \/ file # command[c].read)
  /\ file' = Torn
  /\ command' = [command EXCEPT ![c].at = "write"]
  /\ UNCHANGED <<daemon, keys, faults, used>>

\* ... and fills it; what two writers leave may be neither's.
Save(c) ==
  /\ command[c].at = "write"
  /\ file' \in {command[c].id} \cup IF \E d \in Command \ {c} : command[d].at = "write"
                                    THEN {Torn} ELSE {}
  /\ daemon' = IF c[1] = "serve" THEN command[c].id ELSE daemon
  /\ command' = [command EXCEPT ![c] = Idle]
  /\ UNCHANGED <<keys, faults, used, overlapped>>

\* The daemon signs: Identity.Sign.
Sign ==
  /\ daemon # NoFile
  /\ used' = used \cup {daemon.key}
  /\ UNCHANGED <<file, command, daemon, keys, faults, overlapped>>

Stop ==
  /\ daemon # NoFile
  /\ daemon' = NoFile
  /\ UNCHANGED <<file, command, keys, faults, used, overlapped>>

\* A command is killed.
Crash(c) ==
  /\ command[c].at # "idle" /\ faults < MaxFaults /\ faults' = faults + 1
  /\ command' = [command EXCEPT ![c] = Idle]
  /\ UNCHANGED <<file, daemon, keys, used, overlapped>>

IdentityNext ==
  \/ \E c \in Command :
       Quickstart(c) \/ Create(c) \/ LoadIdentity(c) \/ RotateKey(c) \/ Open(c) \/ Save(c) \/ Crash(c)
  \/ Sign \/ Stop

IdentitySpec == IdentityInit /\ [][IdentityNext]_identityVars
-----------------------------------------------------------------------------
\* What the daemon ever signed can be verified with the history in the file,
\* through rotations while it runs, restarts and crashes of the commands; only
\* commands that overlap, or a save cut short, lose a key.
KeysKept == Whole(file) /\ ~overlapped => used \subseteq AllKnownDIDs(file)
=============================================================================
