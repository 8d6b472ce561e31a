------------------------------ MODULE Accounts ------------------------------
(***************************************************************************)
(* Accounts and sessions (internal/store/auth.go over the SQLite stores,   *)
(* internal/api/handlers/auth.go, combinedAuthMiddleware of the server).   *)
(* A registration looks the name and the address up, inserts the account   *)
(* and then logs in by name, as separate statements of the database, which *)
(* other requests come between.                                            *)
(***************************************************************************)
EXTENDS Integers, FiniteSets

CONSTANTS
  Name,         \* user names
  Email,        \* addresses
  MaxAccounts,  \* bound: registrations begun
  MaxSessions,  \* bound: sessions ever made
  MaxUses,      \* bound: requests with a session token
  MaxFailures   \* bound: statements the database refuses

VARIABLES
  users,      \* the table of users: [id, name, email]
  sessions,   \* the table of sessions: [token, user]
  joining,    \* registrations under way
  visits,     \* requests with a session token under way
  attempts,   \* registrations begun
  used,       \* requests with a session token begun
  failures,
  issued,     \* the sessions ever made (history)
  expired,    \* those whose time is over
  ended,      \* those that were logged out or found expired (history)
  welcomed    \* pairs: a registered account, the session it was given (history)

accountVars ==
  <<users, sessions, joining, visits, attempts, used, failures, issued, expired, ended, welcomed>>

AccountsInit ==
  /\ users = {} /\ sessions = {} /\ joining = {} /\ visits = {}
  /\ attempts = 0 /\ used = 0 /\ failures = 0
  /\ issued = {} /\ expired = {} /\ ended = {} /\ welcomed = {}

ById(id) == {u \in users : u.id = id}                      \* SQLUserStore.Get
ByUsername(name) == {u \in users : u.name = name}          \* GetByUsername
ByEmail(email) == {u \in users : u.email = email}          \* GetByEmail
OfToken(token) == {s \in sessions : s.token = token}       \* SQLSessionStore.Get

\* A statement of the database is refused.
Refused == failures < MaxFailures /\ failures' = failures + 1

\* SQLSessionStore.Create of a session for a user.
CreateSession(user) ==
  LET s == [token |-> Cardinality(issued) + 1, user |-> user.id] IN
  /\ Cardinality(issued) < MaxSessions
  /\ sessions' = sessions \cup {s}
  /\ issued' = issued \cup {s}
-----------------------------------------------------------------------------
\* AuthHandler.Register decodes the request.
Register(name, email) ==
  /\ attempts < MaxAccounts /\ attempts' = attempts + 1
  /\ joining' = joining \cup
       {[id |-> attempts + 1, name |-> name, email |-> email, stage |-> "lookup"]}
  /\ UNCHANGED <<users, sessions, visits, used, failures, issued, expired, ended, welcomed>>

\* AuthService.Register: neither the name nor the address may be taken ...
Lookup(j) ==
  /\ j.stage = "lookup"
  /\ joining' = (joining \ {j}) \cup
       IF ByUsername(j.name) \cup ByEmail(j.email) = {}
       THEN {[j EXCEPT !.stage = "insert"]} ELSE {}
  /\ UNCHANGED <<users, sessions, visits, attempts, used, failures, issued, expired, ended,
                 welcomed>>

\* Mutant of Distinct: the table lacks the constraint on user names.
DistinctEmail(j) == ByEmail(j.email) = {}

\* The constraints of the table of users.
Distinct(j) == ByUsername(j.name) = {} /\ ByEmail(j.email) = {}

\* ... SQLUserStore.Create inserts the account, under the constraints ...
Insert(j, ok) ==
  /\ j.stage = "insert"
  /\ IF ok THEN failures' = failures ELSE Refused
  /\ IF ok /\ Distinct(j)
     THEN /\ users' = users \cup {[id |-> j.id, name |-> j.name, email |-> j.email]}
          /\ joining' = (joining \ {j}) \cup {[j EXCEPT !.stage = "login"]}
     ELSE users' = users /\ joining' = joining \ {j}
  /\ UNCHANGED <<sessions, visits, attempts, used, issued, expired, ended, welcomed>>

\* ... and the handler logs the new user in, by name.
Welcome(j, ok) ==
  /\ j.stage = "login"
  /\ joining' = joining \ {j}
  /\ IF ok
     THEN \E user \in ByUsername(j.name) :
            /\ CreateSession(user)
            /\ welcomed' = welcomed \cup {<<j.id, user.id>>}
            /\ failures' = failures
     ELSE Refused /\ UNCHANGED <<sessions, issued, welcomed>>
  /\ UNCHANGED <<users, visits, attempts, used, expired, ended>>

\* AuthService.Login with the right password; a wrong one leaves no trace.
Login(name) ==
  /\ \E user \in ByUsername(name) : CreateSession(user)
  /\ UNCHANGED <<users, joining, visits, attempts, used, failures, expired, ended, welcomed>>

\* Mutant of Logout: the session is only marked in the browser.
LogoutCookie(s, ok) ==
  /\ sessions' = sessions
  /\ ended' = ended \cup {s}
  /\ failures' = failures
  /\ UNCHANGED <<users, joining, visits, attempts, used, issued, expired, welcomed>>

\* AuthHandler.Logout: the answer is the same whether or not the row was deleted.
Logout(s, ok) ==
  /\ IF ok THEN sessions' = sessions \ {s} /\ ended' = ended \cup {s} /\ failures' = failures
     ELSE Refused /\ UNCHANGED <<sessions, ended>>
  /\ UNCHANGED <<users, joining, visits, attempts, used, issued, expired, welcomed>>

\* The time of a session is over.
Expire(s) ==
  /\ expired' = expired \cup {s}
  /\ UNCHANGED <<users, sessions, joining, visits, attempts, used, failures, issued, ended,
                 welcomed>>
-----------------------------------------------------------------------------
\* A request with a session token gets to combinedAuthMiddleware.
Visit(s) ==
  /\ used < MaxUses /\ used' = used + 1
  /\ visits' = visits \cup {[id |-> used, session |-> s, late |-> s \in ended,
                             stage |-> "arrived", user |-> 0]}
  /\ UNCHANGED <<users, sessions, joining, attempts, failures, issued, expired, ended, welcomed>>

\* ValidateSession reads the row ...
GetSession(v) ==
  /\ v.stage = "arrived"
  /\ visits' = (visits \ {v}) \cup
       {[v EXCEPT !.stage = "found", !.user = s.user] : s \in OfToken(v.session.token)}
  /\ UNCHANGED <<users, sessions, joining, attempts, used, failures, issued, expired, ended,
                 welcomed>>

\* ... deletes it if its time is over; otherwise the user's row is the identity
\* the request goes on with.
Validate(v) ==
  /\ v.stage = "found"
  /\ IF v.session \in expired
     THEN /\ sessions' = {s \in sessions : s.token # v.session.token}
          /\ ended' = ended \cup {v.session}
          /\ visits' = visits \ {v}
     ELSE /\ UNCHANGED <<sessions, ended>>
          /\ visits' = (visits \ {v}) \cup
               {[v EXCEPT !.stage = "known", !.user = u.id] : u \in ById(v.user)}
  /\ UNCHANGED <<users, joining, attempts, used, failures, issued, expired, welcomed>>

\* The handler has its turn and answers.
Answer(v) ==
  /\ v.stage = "known"
  /\ visits' = visits \ {v}
  /\ UNCHANGED <<users, sessions, joining, attempts, used, failures, issued, expired, ended,
                 welcomed>>

AccountsNext ==
  \/ \E name \in Name, email \in Email : Register(name, email)
  \/ \E name \in Name : Login(name)
  \/ \E j \in joining : Lookup(j) \/ \E ok \in BOOLEAN : Insert(j, ok) \/ Welcome(j, ok)
  \/ \E s \in issued : Visit(s) \/ Expire(s) \/ \E ok \in BOOLEAN : Logout(s, ok)
  \/ \E v \in visits : GetSession(v) \/ Validate(v) \/ Answer(v)

AccountsSpec == AccountsInit /\ [][AccountsNext]_accountVars
-----------------------------------------------------------------------------
\* Two registrations that race for a name or an address make one account, and
\* a registration is answered with a session of the account it made.
OneAccount ==
  /\ \A u, w \in users : u # w => u.name # w.name /\ u.email # w.email /\ u.id # w.id
  /\ \A pair \in welcomed : pair[1] = pair[2]

\* A request that begins after its session was logged out, or found expired by
\* another one, gets no identity; and no request has another user's.
SessionEnds ==
  \A v \in visits : v.stage = "known" => ~v.late /\ v.user = v.session.user
=============================================================================
