-------------------------------- MODULE SSH --------------------------------
(***************************************************************************)
(* The SSH server (internal/transport/ssh.go): its host key, which is made *)
(* at the first start; the goroutines that accept and serve connections;   *)
(* and Stop, which waits for the goroutines the wait group counts.  A      *)
(* session has no effect on the repositories: handleGitCommand takes the   *)
(* whole payload of an exec request for the command line, whose first word *)
(* is then no command it knows.                                            *)
(***************************************************************************)
EXTENDS Integers, FiniteSets

CONSTANTS
  Conn,       \* connections
  MaxKeys,    \* bound: host keys made
  MaxFaults   \* bound: crashes

VARIABLES
  keyFile,    \* the host key file: NoKey, Cut (created, not yet filled) or a key
  server,     \* "down", "making", "ready", "running", "stopping", "stopped"
  hostKey,    \* the key the server shows
  listening, closing, \* the listener is open; the channel done is closed
  acceptor,   \* acceptConnections: "off" or "accept"
  conn,       \* conn[c]: "none", "dialed", "spawned", "serving", "over"
  session,    \* connections whose handleSession goroutine runs
  wg,         \* the wait group
  keys, faults,
  shown       \* host keys clients have seen (history)

sshVars == <<keyFile, server, hostKey, listening, closing, acceptor, conn, session,
             wg, keys, faults, shown>>
life == <<keyFile, hostKey, keys, faults>>

NoKey == 0
Cut == -1

SSHInit ==
  /\ keyFile = NoKey /\ server = "down" /\ hostKey = NoKey
  /\ listening = FALSE /\ closing = FALSE
  /\ acceptor = "off"
  /\ conn = [c \in Conn |-> "none"] /\ session = {} /\ wg = 0
  /\ keys = 0 /\ faults = 0 /\ shown = {}

At(c, stage) == conn' = [conn EXCEPT ![c] = stage]
rest == <<listening, closing, acceptor, conn, session, wg, shown>>
-----------------------------------------------------------------------------
\* setupHostKey: there is no file, so a key is made and the file created ...
CreateKeyFile ==
  /\ server = "down" /\ keyFile = NoKey /\ keys < MaxKeys
  /\ keys' = keys + 1 /\ hostKey' = keys'
  /\ keyFile' = Cut /\ server' = "making"
  /\ UNCHANGED <<faults, rest>>

\* ... and filled.
EncodeKey ==
  /\ server = "making"
  /\ keyFile' = hostKey /\ server' = "ready"
  /\ UNCHANGED <<hostKey, keys, faults, rest>>

\* Mutant of LoadKey: a file that cannot be parsed is replaced.
LoadOrReplaceKey ==
  /\ server = "down" /\ keyFile # NoKey /\ keys < MaxKeys
  /\ keys' = keys + 1 /\ hostKey' = IF keyFile = Cut THEN keys' ELSE keyFile
  /\ server' = "ready"
  /\ UNCHANGED <<keyFile, faults, rest>>

\* setupHostKey when there is a file; one that cannot be parsed stops the daemon.
LoadKey ==
  /\ server = "down" /\ keyFile \notin {NoKey, Cut}
  /\ hostKey' = keyFile /\ server' = "ready"
  /\ UNCHANGED <<keyFile, keys, faults, rest>>

\* Start.
Start ==
  /\ server = "ready"
  /\ server' = "running" /\ listening' = TRUE
  /\ wg' = wg + 1 /\ acceptor' = "accept"
  /\ UNCHANGED <<life, closing, conn, session, shown>>
-----------------------------------------------------------------------------
\* Mutant of Accept: the goroutine of the connection counts itself.
AcceptUncounted(c) ==
  /\ acceptor = "accept" /\ conn[c] = "dialed" /\ listening
  /\ At(c, "spawned")
  /\ UNCHANGED <<life, server, listening, closing, acceptor, session, wg, shown>>

\* acceptConnections: a connection, counted before its goroutine starts.
Accept(c) ==
  /\ acceptor = "accept" /\ conn[c] = "dialed" /\ listening
  /\ wg' = wg + 1 /\ At(c, "spawned")
  /\ UNCHANGED <<life, server, listening, closing, acceptor, session, shown>>

\* Accept fails once the listener is closed; done is closed before.
AcceptFails ==
  /\ acceptor = "accept" /\ ~listening /\ closing
  /\ acceptor' = "off" /\ wg' = wg - 1
  /\ UNCHANGED <<life, server, listening, closing, conn, session, shown>>

\* handleConnection shows the host key; authenticatePublicKey lets the client in or
\* not, and a client may leave before ...
Handshake(c, ok) ==
  /\ conn[c] = "spawned"
  /\ shown' = shown \cup {hostKey}
  /\ At(c, IF ok THEN "serving" ELSE "over") /\ wg' = IF ok THEN wg ELSE wg - 1
  /\ UNCHANGED <<life, server, listening, closing, acceptor, session>>

\* ... it opens sessions, whose goroutines nothing waits for ...
OpenSession(c) ==
  /\ conn[c] = "serving"
  /\ session' = session \cup {c}
  /\ UNCHANGED <<life, server, listening, closing, acceptor, conn, wg, shown>>

\* ... handleSession ends some time after its connection, or before.
EndSession(c) ==
  /\ c \in session
  /\ session' = session \ {c}
  /\ UNCHANGED <<life, server, listening, closing, acceptor, conn, wg, shown>>

\* The client leaves.
Disconnect(c) ==
  /\ conn[c] = "serving"
  /\ At(c, "over") /\ wg' = wg - 1
  /\ UNCHANGED <<life, server, listening, closing, acceptor, session, shown>>

Dial(c) ==
  /\ conn[c] = "none" /\ listening
  /\ At(c, "dialed")
  /\ UNCHANGED <<life, server, listening, closing, acceptor, session, wg, shown>>
-----------------------------------------------------------------------------
\* Stop: done, the listener, and the wait.
CloseDone ==
  /\ server = "running" /\ server' = "stopping" /\ closing' = TRUE
  /\ UNCHANGED <<life, listening, acceptor, conn, session, wg, shown>>

CloseListener ==
  /\ server = "stopping" /\ listening
  /\ listening' = FALSE
  /\ conn' = [c \in Conn |-> IF conn[c] = "dialed" THEN "over" ELSE conn[c]]
  /\ UNCHANGED <<life, server, closing, acceptor, session, wg, shown>>

Wait ==
  /\ server = "stopping" /\ ~listening /\ wg = 0
  /\ server' = "stopped"
  /\ UNCHANGED <<life, listening, closing, acceptor, conn, session, wg, shown>>

\* The process ends, after Stop or in a crash; it can be started again.
Exit ==
  /\ IF server = "stopped" THEN faults' = faults
     ELSE server # "down" /\ faults < MaxFaults /\ faults' = faults + 1
  /\ server' = "down" /\ hostKey' = NoKey /\ listening' = FALSE /\ closing' = FALSE
  /\ acceptor' = "off" /\ conn' = [c \in Conn |-> "none"] /\ session' = {} /\ wg' = 0
  /\ UNCHANGED <<keyFile, keys, shown>>

SSHNext ==
  \/ CreateKeyFile \/ EncodeKey \/ LoadKey \/ Start
  \/ AcceptFails \/ CloseDone \/ CloseListener \/ Wait \/ Exit
  \/ \E c \in Conn :
       \/ Dial(c) \/ Accept(c) \/ OpenSession(c) \/ EndSession(c) \/ Disconnect(c)
       \/ \E ok \in BOOLEAN : Handshake(c, ok)

SSHSpec == SSHInit /\ [][SSHNext]_sshVars
-----------------------------------------------------------------------------
\* Clients never see another host key, whatever crash cut its making short.
HostKeyStays == Cardinality(shown) <= 1

\* When Stop has returned, no connection is being served: one that was accepted
\* while the server stopped was waited for.
StopWaits == server = "stopped" => \A c \in Conn : conn[c] \in {"none", "over"}
=============================================================================
