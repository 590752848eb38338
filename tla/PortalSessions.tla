--------------------------- MODULE PortalSessions ---------------------------
(***************************************************************************)
(* The users and the login sessions of the analytics portals               *)
(* (analytics_service/auth.py): threads of the analytics API log in,       *)
(* resolve and revoke sessions, and the command line (users.py, another    *)
(* process) creates users, sets passwords, disables accounts and prunes.   *)
(*                                                                         *)
(* Every operation reads the clock first and then runs in one transaction  *)
(* of the shared SQLite file (BEGIN IMMEDIATE, or a single statement), so  *)
(* operations take effect in another order than they read the clock.       *)
(* Logout's two statements are one step: the first reads only the portal,  *)
(* which never changes.                                                    *)
(*                                                                         *)
(* A password is the number of times it was set; a user's role and company *)
(* are fixed when it is created, so a login that asks for another role     *)
(* finds no row and changes nothing, and a rehash keeps the password.      *)
(* A token is used for one session only.                                   *)
(***************************************************************************)
EXTENDS Naturals

CONSTANTS
    CompanyUsers,   \* accounts with the role company_user
    Admins,         \* accounts with the role internal_admin
    Tokens,         \* session tokens
    Callers,        \* threads and processes that use the store
    Idle,           \* idle timeout of each portal
    Absolute,       \* absolute timeout of each portal
    MaxAttempts,    \* max_login_attempts
    LockTime,       \* lock_seconds
    MaxPassword,    \* bound on the passwords that are set for one account
    MaxClock        \* bound on the time that is explored

Users == CompanyUsers \cup Admins
Portals == {"company", "internal"}

\* __init__: an absolute timeout is no shorter than its idle timeout.
ASSUME TimeoutAssumption ==
    /\ Idle \in [Portals -> Nat \ {0}] /\ Absolute \in [Portals -> Nat \ {0}]
    /\ \A p \in Portals : Idle[p] <= Absolute[p]
ASSUME RoleAssumption == CompanyUsers \cap Admins = {}
ASSUME LockAssumption == MaxAttempts \in Nat \ {0} /\ LockTime \in Nat \ {0}
ASSUME BoundAssumption == MaxPassword \in Nat /\ MaxClock \in Nat

VARIABLES
    clock,
    user,       \* rows of analytics_users
    session,    \* rows of analytics_sessions
    issued,     \* tokens that were ever given out
    call,       \* what each caller is doing, with its reading of the clock
    wrong       \* wrong passwords tried since the last success or reset

vars == <<clock, user, session, issued, call, wrong>>

\* _session_policy.
Portal(u) == IF u \in CompanyUsers THEN "company" ELSE "internal"

NoUser == [exists |-> FALSE, active |-> FALSE, password |-> 0, failed |-> 0, locked |-> 0]
NoSession == [user |-> "none"]
NoCall == [op |-> "none", now |-> 0]

Accounts == [exists : {TRUE}, active : BOOLEAN, password : Nat, failed : Nat, locked : Nat]

Sessions == [user : Users, password : Nat, created : Nat, idleEnd : Nat, absoluteEnd : Nat,
             revoked : BOOLEAN]

Calls ==
    [op : {"login"}, now : Nat, user : Users, password : Nat]
      \cup [op : {"resolve", "logout"}, now : Nat, token : Tokens, portal : Portals]
      \cup [op : {"prune", "none"}, now : Nat]

TypeOK ==
    /\ clock \in Nat
    /\ user \in [Users -> Accounts \cup {NoUser}]
    /\ session \in [Tokens -> Sessions \cup {NoSession}]
    /\ issued \in SUBSET Tokens
    /\ call \in [Callers -> Calls]
    /\ wrong \in [Users -> Nat]

Init ==
    /\ clock = 0
    /\ user = [u \in Users |-> NoUser]
    /\ session = [t \in Tokens |-> NoSession]
    /\ issued = {}
    /\ call = [c \in Callers |-> NoCall]
    /\ wrong = [u \in Users |-> 0]

Live(t) == session[t] # NoSession /\ ~session[t].revoked

Smaller(m, n) == IF m < n THEN m ELSE n

-----------------------------------------------------------------------------
(* A caller reads the clock and then waits for the lock and the file. *)

Ask(c, request) ==
    /\ call[c] = NoCall
    /\ call' = [call EXCEPT ![c] = request]
    /\ UNCHANGED <<clock, user, session, issued, wrong>>

AskLogin(c, u, p) == Ask(c, [op |-> "login", now |-> clock, user |-> u, password |-> p])
AskResolve(c, t, p) ==
    t \in issued /\ Ask(c, [op |-> "resolve", now |-> clock, token |-> t, portal |-> p])
AskLogout(c, t, p) ==
    t \in issued /\ Ask(c, [op |-> "logout", now |-> clock, token |-> t, portal |-> p])
AskPrune(c) == Ask(c, [op |-> "prune", now |-> clock])

Finish(c) == call' = [call EXCEPT ![c] = NoCall]

-----------------------------------------------------------------------------
(* authenticate. *)

Locked(u, now) == user[u].locked > now

\* _verify_password.
PasswordFits(u, password) == password = user[u].password

\* The account is missing, disabled or locked: nothing is counted.
LoginRejected(c) ==
    /\ call[c].op = "login"
    /\ LET u == call[c].user IN
         ~user[u].exists \/ ~user[u].active \/ Locked(u, call[c].now)
    /\ Finish(c)
    /\ UNCHANGED <<clock, user, session, issued, wrong>>

\* The password is wrong: from the MaxAttempts-th failure on the account is
\* locked.  The counter is kept when the lock runs out.
LoginFails(c) ==
    /\ call[c].op = "login"
    /\ LET u      == call[c].user
           now    == call[c].now
           failed == user[u].failed + 1
           locks  == failed >= MaxAttempts
       IN /\ user[u].exists /\ user[u].active /\ ~Locked(u, now)
          /\ ~PasswordFits(u, call[c].password)
          /\ user' = [user EXCEPT ![u].failed = failed,
                                  ![u].locked = IF locks THEN now + LockTime ELSE 0]
          /\ wrong' = [wrong EXCEPT ![u] = @ + 1]
    /\ Finish(c)
    /\ UNCHANGED <<clock, session, issued>>

\* A session with a fresh token.
LoginSucceeds(c) ==
    /\ call[c].op = "login"
    /\ LET u   == call[c].user
           now == call[c].now
       IN /\ user[u].exists /\ user[u].active /\ ~Locked(u, now)
          /\ PasswordFits(u, call[c].password)
          /\ user' = [user EXCEPT ![u].failed = 0, ![u].locked = 0]
          /\ \E t \in Tokens \ issued :
               /\ issued' = issued \cup {t}
               /\ session' = [session EXCEPT ![t] =
                    [user        |-> u,
                     password    |-> user[u].password,
                     created     |-> now,
                     idleEnd     |-> now + Idle[Portal(u)],
                     absoluteEnd |-> now + Absolute[Portal(u)],
                     revoked     |-> FALSE]]
          /\ wrong' = [wrong EXCEPT ![u] = 0]
    /\ Finish(c)
    /\ UNCHANGED clock

-----------------------------------------------------------------------------
(* resolve_session and revoke_session. *)

Resolvable(t, portal, now) ==
    /\ Live(t)
    /\ user[session[t].user].active
    /\ Portal(session[t].user) = portal
    /\ session[t].idleEnd > now
    /\ session[t].absoluteEnd > now

\* The new idle expiration.
Slid(s, now) == Smaller(now + Idle[Portal(s.user)], s.absoluteEnd)

Resolve(c) ==
    /\ call[c].op = "resolve"
    /\ Resolvable(call[c].token, call[c].portal, call[c].now)
    /\ session' = [session EXCEPT ![call[c].token].idleEnd =
                                    Slid(session[call[c].token], call[c].now)]
    /\ Finish(c)
    /\ UNCHANGED <<clock, user, issued, wrong>>

ResolveFails(c) ==
    /\ call[c].op = "resolve"
    /\ ~Resolvable(call[c].token, call[c].portal, call[c].now)
    /\ Finish(c)
    /\ UNCHANGED <<clock, user, session, issued, wrong>>

\* Only the selected portal's session is revoked.
Logout(c) ==
    /\ call[c].op = "logout"
    /\ LET t == call[c].token IN
         session' = IF Live(t) /\ Portal(session[t].user) = call[c].portal
                    THEN [session EXCEPT ![t].revoked = TRUE]
                    ELSE session
    /\ Finish(c)
    /\ UNCHANGED <<clock, user, issued, wrong>>

-----------------------------------------------------------------------------
(* The command line. *)

\* create_user: the unique indexes refuse a name that is taken.
CreateUser(u) ==
    /\ ~user[u].exists
    /\ user' = [user EXCEPT ![u] = [exists |-> TRUE, active |-> TRUE, password |-> 1,
                                    failed |-> 0, locked |-> 0]]
    /\ UNCHANGED <<clock, session, issued, call, wrong>>

\* The user's sessions that are not revoked yet are.
RevokedOf(u) ==
    [t \in Tokens |-> IF Live(t) /\ session[t].user = u
                      THEN [session[t] EXCEPT !.revoked = TRUE] ELSE session[t]]

\* _resolve_user_id: names are unique within a role and company.
ResolvesUser(u) == user[u].exists

\* set_password: the hash, the lock and the sessions in one transaction.
SetPassword(u) ==
    /\ ResolvesUser(u)
    /\ user[u].password < MaxPassword
    /\ user' = [user EXCEPT ![u].password = @ + 1, ![u].failed = 0, ![u].locked = 0]
    /\ session' = RevokedOf(u)
    /\ wrong' = [wrong EXCEPT ![u] = 0]
    /\ UNCHANGED <<clock, issued, call>>

\* Fault: disabling an account leaves its sessions to the check in
\* resolve_session, and enabling it brings them back.
SetActive_KeepsSessions(u, active) ==
    /\ ResolvesUser(u)
    /\ user' = [user EXCEPT ![u].active = active]
    /\ UNCHANGED <<clock, session, issued, call, wrong>>

\* set_active.
SetActive(u, active) ==
    /\ ResolvesUser(u)
    /\ user' = [user EXCEPT ![u].active = active]
    /\ session' = IF active THEN session ELSE RevokedOf(u)
    /\ UNCHANGED <<clock, issued, call, wrong>>

\* Fault: every session that has been used up to the reading is deleted.
Prunable_Idle(t, now) == session[t].created + Idle[Portal(session[t].user)] <= now

Prunable(t, now) ==
    \/ session[t].idleEnd <= now \/ session[t].absoluteEnd <= now
    \/ session[t].revoked

\* prune_expired_sessions.
Prune(c) ==
    /\ call[c].op = "prune"
    /\ session' = [t \in Tokens |->
                     IF session[t] # NoSession /\ Prunable(t, call[c].now)
                     THEN NoSession ELSE session[t]]
    /\ Finish(c)
    /\ UNCHANGED <<clock, user, issued, wrong>>

-----------------------------------------------------------------------------
Tick ==
    /\ clock < MaxClock
    /\ clock' = clock + 1
    /\ UNCHANGED <<user, session, issued, call, wrong>>

CallerStep(c) ==
    \/ \E u \in Users, p \in 1 .. MaxPassword : AskLogin(c, u, p)
    \/ \E t \in Tokens, p \in Portals : AskResolve(c, t, p) \/ AskLogout(c, t, p)
    \/ AskPrune(c)
    \/ LoginRejected(c) \/ LoginFails(c) \/ LoginSucceeds(c)
    \/ Resolve(c) \/ ResolveFails(c) \/ Logout(c) \/ Prune(c)

\* _sync_credential_record: what list_users said still holds, since no account
\* is ever deleted; one that was created meanwhile is refused by create_user.
SyncCredentials(u) == IF user[u].exists THEN SetPassword(u) ELSE CreateUser(u)

\* The commands of users.py; "list" changes nothing, "prune-sessions" is a call.
CommandLine ==
    \/ \E u \in Users : CreateUser(u) \/ SetPassword(u) \/ SyncCredentials(u)
    \/ \E u \in Users, active \in BOOLEAN : SetActive(u, active)

Next ==
    \/ \E c \in Callers : CallerStep(c)
    \/ CommandLine
    \/ Tick

Spec == Init /\ [][Next]_vars

-----------------------------------------------------------------------------
\* "Password changes and account disablement revoke active sessions"
\* (docs/analytics_service.md): a session that is not revoked belongs to an
\* account that was never disabled since, and was opened with the password
\* that is in force, also when logins with the old one are under way.
LiveSessionsAreCurrent ==
    \A t \in Tokens : Live(t) =>
        LET u == session[t].user IN
            user[u].exists /\ user[u].active /\ session[t].password = user[u].password

\* "slides the idle expiration ... but never moves the effective expiration
\* beyond the absolute limit": through any number of requests, with readings
\* in any order, a session ends where its login put the end.
AbsoluteLimitHolds ==
    \A t \in Tokens : session[t] # NoSession =>
        LET p == Portal(session[t].user) IN
            /\ session[t].absoluteEnd = session[t].created + Absolute[p]
            /\ session[t].idleEnd <= session[t].absoluteEnd

\* A session ends only by logout, by the command line, or by time: prune
\* deletes none that a request reading the clock now could still resolve.
PruneKeepsUsable ==
    [][ \A t \in Tokens :
          session[t] # NoSession /\ session'[t] = NoSession =>
              session[t].revoked \/ session[t].idleEnd <= clock ]_vars

\* Guessing is slowed down for good: without a success or a reset, more than
\* MaxAttempts wrong passwords are counted only one per LockTime, although
\* attempts are decided in another order than they read the clock.
GuessesAreThrottled ==
    \A u \in Users : wrong[u] <= MaxAttempts + clock \div LockTime

\* What the users' and the sessions' tables keep between the API's threads and
\* the command line.
SessionInv ==
    /\ TypeOK
    /\ LiveSessionsAreCurrent
    /\ AbsoluteLimitHolds
    /\ GuessesAreThrottled

\* "Five failed logins lock the account for 15 minutes by default"
\* (docs/analytics_service.md): a failure that locks an account whose previous
\* lock has run out is not the first one since then.
LockNeedsAttempts ==
    [][ \A u \in Users :
          user'[u].failed > user[u].failed /\ user'[u].locked > 0 =>
              user[u].locked = 0 ]_vars
=============================================================================
