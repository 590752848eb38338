-------------------------- MODULE PortalApi_proofs --------------------------
(***************************************************************************)
(* For any accounts, tokens, callers, timeouts, attempts and lock time:   *)
(* the store keeps its promises between the threads of the API and the     *)
(* command line, and the portals' cookies and figures stay apart.          *)
(*                                                                         *)
(* SessionInv is not inductive.  That wrong passwords are throttled needs  *)
(* that every failure past the limit moved the lock on, that a lock ends   *)
(* LockTime from now at most, and that a caller's reading of the clock is  *)
(* a past one.  That cookies stay apart needs the same of every cookie on  *)
(* its way: in a call, in a visit and in a reply.                          *)
(*                                                                         *)
(* The last part is about the snapshots that the portals show (Analytics-  *)
(* Snapshots): a version that is shown is whole, and never older than one  *)
(* shown before.  And it is about the pages of the query explorer          *)
(* (QueryPages): by the default order, a client was shown what is before   *)
(* its cursor once and what is behind it not at all, whichever version the *)
(* next page is read from (PagesInv).                                      *)
(***************************************************************************)
EXTENDS PortalApi, QueryPages, Integers, WellFoundedInduction, FiniteSetTheorems, TLAPS

\* Readings of the clock are past ones.
ReadingsArePast == \A c \in Callers : call[c].now <= clock

\* The counter counts every wrong password, and every failure past the limit
\* moved the lock by LockTime at least.
LocksMoveOn ==
    \A u \in Users :
        /\ wrong[u] = user[u].failed
        /\ user[u].failed >= MaxAttempts =>
             (user[u].failed - MaxAttempts) * LockTime + LockTime <= user[u].locked
        /\ user[u].locked <= clock + LockTime

\* What the store keeps.
StoreInv ==
    /\ TypeOK /\ LiveSessionsAreCurrent /\ AbsoluteLimitHolds
    /\ ReadingsArePast /\ LocksMoveOn

USE TimeoutAssumption, RoleAssumption, LockAssumption, BoundAssumption

\* k lock times fit into c: k is at most the quotient.
LEMMA DivBound ==
    ASSUME NEW k \in Int, NEW c \in Nat, k * LockTime <= c
    PROVE  k <= c \div LockTime
<1> DEFINE q == c \div LockTime
<1>1. q \in Int /\ c < q * LockTime + LockTime
  OBVIOUS
<1> HIDE DEF q
<1>2. ASSUME k >= q + 1 PROVE FALSE
  <2>1. k * LockTime >= (q + 1) * LockTime
    BY <1>1, <1>2
  <2>2. (q + 1) * LockTime = q * LockTime + LockTime
    BY <1>1
  <2>3. QED
    BY <1>1, <2>1, <2>2
<1>3. k < q + 1 
  BY <1>2, <1>1
<1>4. QED
  BY <1>3, <1>1 DEF q

\* A deleted row is not a row.
LEMMA NoSessionIsNone == NoSession \notin Sessions
BY DEF NoSession, Sessions

\* No row of analytics_sessions appears or disappears, nor changes its user.
RowsStay ==
    \A t \in Tokens : /\ session'[t] = NoSession <=> session[t] = NoSession
                      /\ session'[t].user = session[t].user

\* One row appears, under a token that was never given out.
RowAppears(u) ==
    \E t \in Tokens \ issued :
        /\ issued' = issued \cup {t}
        /\ session'[t] \in Sessions /\ session'[t].user = u
        /\ \A x \in Tokens \ {t} : session'[x] = session[x]

\* What a caller of authenticate carries.
LEMMA LoginCall ==
    ASSUME TypeOK, NEW c \in Callers, call[c].op = "login"
    PROVE  call[c].user \in Users /\ call[c].now \in Nat
BY DEF TypeOK, Calls

\* What a caller of resolve_session or revoke_session carries.
LEMMA TokenCall ==
    ASSUME TypeOK, NEW c \in Callers, call[c].op \in {"resolve", "logout"}
    PROVE  call[c].token \in Tokens /\ call[c].now \in Nat /\ call[c].portal \in Portals
BY DEF TypeOK, Calls

\* The row of an account.
LEMMA AccountRow ==
    ASSUME TypeOK, NEW u \in Users
    PROVE  /\ user[u].failed \in Nat /\ user[u].locked \in Nat /\ user[u].password \in Nat
           /\ user[u].active \in BOOLEAN /\ user[u].exists \in BOOLEAN
           /\ user[u].exists => user[u] \in Accounts
           /\ ~user[u].exists => user[u] = NoUser
<1>1. user[u] \in Accounts \/ user[u] = NoUser
    BY DEF TypeOK
<1>2. CASE user[u] \in Accounts
  <2>1. /\ user[u].failed \in Nat /\ user[u].locked \in Nat /\ user[u].password \in Nat
        /\ user[u].active \in BOOLEAN
    BY <1>2 DEF Accounts
  <2>2. user[u].exists = TRUE
    BY <1>2 DEF Accounts
  <2>3. QED
    BY <1>2, <2>1, <2>2, Zenon
<1>3. CASE user[u] = NoUser
  <2>1. user[u].failed = 0 /\ user[u].locked = 0 /\ user[u].password = 0
    BY <1>3 DEF NoUser
  <2>2. user[u].active = FALSE /\ user[u].exists = FALSE
    BY <1>3 DEF NoUser
  <2>3. 0 \in Nat
    OBVIOUS
  <2>4. QED
    BY <1>3, <2>1, <2>2, <2>3, Zenon
<1>4. QED
    BY <1>1, <1>2, <1>3

\* A caller that is done keeps the calls in order.
LEMMA FinishCall ==
    ASSUME TypeOK, ReadingsArePast, NEW c \in Callers, Finish(c)
    PROVE  call' \in [Callers -> Calls] /\ \A x \in Callers : call'[x].now <= clock
<1>1. NoCall \in Calls /\ NoCall.now = 0
  BY DEF NoCall, Calls
<1>2. QED
  BY <1>1 DEF TypeOK, ReadingsArePast, Finish
-----------------------------------------------------------------------------
(* What the operations of the store keep. *)

\* authenticate with a wrong password.  The lock has run out at the reading, so
\* the new one ends LockTime later than the old at least.
LEMMA LoginFailsKeeps ==
    ASSUME StoreInv, NEW c \in Callers, LoginFails(c)
    PROVE  StoreInv'
<1> DEFINE u == call[c].user
           now == call[c].now
           n == user[u].failed + 1
           l == IF n >= MaxAttempts THEN now + LockTime ELSE 0
<1>1. /\ TypeOK /\ LiveSessionsAreCurrent /\ AbsoluteLimitHolds
      /\ ReadingsArePast /\ LocksMoveOn
    BY DEF StoreInv
<1>2. u \in Users /\ now \in Nat /\ now <= clock /\ clock \in Nat
    BY <1>1, LoginCall DEF LoginFails, ReadingsArePast, TypeOK
<1>3. /\ user[u] \in Accounts /\ ~(user[u].locked > now)
      /\ user[u].failed \in Nat /\ user[u].locked \in Nat /\ user[u].password \in Nat
      /\ user[u].active \in BOOLEAN
    BY <1>1, <1>2, AccountRow DEF LoginFails, Locked
<1>4. n \in Nat /\ l \in Nat
    BY <1>2, <1>3
<1>5. /\ user' = [user EXCEPT ![u].failed = n, ![u].locked = l]
      /\ wrong' = [wrong EXCEPT ![u] = @ + 1]
      /\ clock' = clock /\ session' = session /\ issued' = issued
    BY DEF LoginFails
<1>6. call' \in [Callers -> Calls] /\ \A x \in Callers : call'[x].now <= clock
    BY <1>1, FinishCall DEF LoginFails
<1>7. /\ user'[u] = [exists |-> TRUE, active |-> user[u].active, password |-> user[u].password,
                     failed |-> n, locked |-> l]
      /\ \A x \in Users \ {u} : user'[x] = user[x]
    BY <1>1, <1>2, <1>3, <1>5 DEF TypeOK, Accounts
<1> HIDE DEF u, now, n, l
<1>8. user' \in [Users -> Accounts \cup {NoUser}]
  <2>1. user'[u] \in Accounts
    BY <1>3, <1>4, <1>7 DEF Accounts
  <2>2. \A x \in Users : user'[x] \in Accounts \cup {NoUser}
    BY <1>1, <1>7, <2>1 DEF TypeOK
  <2>3. user' = [x \in Users |-> user'[x]]
    BY <1>1, <1>5 DEF TypeOK
  <2>4. QED
    BY <2>2, <2>3
<1>9. wrong' \in [Users -> Nat]
    BY <1>1, <1>2, <1>5 DEF TypeOK
<1>10. TypeOK'
    BY <1>1, <1>5, <1>6, <1>8, <1>9 DEF TypeOK
<1>11. LiveSessionsAreCurrent'
    BY <1>1, <1>3, <1>5, <1>7, NoSessionIsNone DEF TypeOK, LiveSessionsAreCurrent, Live, Accounts, Sessions
<1>12. AbsoluteLimitHolds' /\ ReadingsArePast'
    BY <1>1, <1>5, <1>6 DEF AbsoluteLimitHolds, ReadingsArePast
<1>13. LocksMoveOn'
  <2>1. ASSUME NEW x \in Users \ {u}
        PROVE  /\ wrong'[x] = user'[x].failed
               /\ user'[x].failed >= MaxAttempts =>
                   (user'[x].failed - MaxAttempts) * LockTime + LockTime <= user'[x].locked
               /\ user'[x].locked <= clock' + LockTime
    BY <1>1, <1>5, <1>7, <2>1 DEF TypeOK, LocksMoveOn
  <2>2. wrong'[u] = user'[u].failed
    BY <1>1, <1>2, <1>5, <1>7 DEF TypeOK, LocksMoveOn, n
  <2>3. user'[u].locked <= clock' + LockTime
    BY <1>2, <1>5, <1>7 DEF l
  <2>4. ASSUME n >= MaxAttempts PROVE (n - MaxAttempts) * LockTime + LockTime <= l
    <3>1. l = now + LockTime
      BY <2>4 DEF l
    <3>2. CASE n = MaxAttempts
      BY <1>2, <1>4, <3>1, <3>2
    <3>3. CASE n > MaxAttempts
      <4>1. (user[u].failed - MaxAttempts) * LockTime + LockTime <= user[u].locked
        BY <1>1, <1>2, <1>3, <3>3 DEF LocksMoveOn, n
      <4>2. (n - MaxAttempts) * LockTime = (user[u].failed - MaxAttempts) * LockTime + LockTime
        BY <1>3 DEF n
      <4>3. (user[u].failed - MaxAttempts) * LockTime \in Int
        BY <1>3
      <4>4. QED
        BY <1>2, <1>3, <3>1, <4>1, <4>2, <4>3
    <3>4. QED
      BY <1>4, <2>4, <3>2, <3>3
  <2>5. QED
    BY <1>7, <2>1, <2>2, <2>3, <2>4 DEF LocksMoveOn
<1>14. QED
    BY <1>10, <1>11, <1>12, <1>13 DEF StoreInv
\* authenticate on a missing, disabled or locked account.
LEMMA LoginRejectedKeeps ==
    ASSUME StoreInv, NEW c \in Callers, LoginRejected(c)
    PROVE  StoreInv'
<1>1. UNCHANGED <<clock, user, session, issued, wrong>>
    BY DEF LoginRejected
<1>2. call' \in [Callers -> Calls] /\ \A x \in Callers : call'[x].now <= clock
    BY FinishCall DEF LoginRejected, StoreInv
<1>3. QED
    BY <1>1, <1>2 DEF StoreInv, TypeOK, LiveSessionsAreCurrent, AbsoluteLimitHolds, Live,
                      ReadingsArePast, LocksMoveOn

\* authenticate with the password in force: one new row, of that account.
LEMMA LoginSucceedsKeeps ==
    ASSUME StoreInv, NEW c \in Callers, LoginSucceeds(c)
    PROVE  StoreInv' /\ RowAppears(call[c].user)
<1> DEFINE u == call[c].user
           now == call[c].now
           s == [user        |-> u,
                 password    |-> user[u].password,
                 created     |-> now,
                 idleEnd     |-> now + Idle[Portal(u)],
                 absoluteEnd |-> now + Absolute[Portal(u)],
                 revoked     |-> FALSE]
<1>1. /\ TypeOK /\ LiveSessionsAreCurrent /\ AbsoluteLimitHolds
      /\ ReadingsArePast /\ LocksMoveOn
    BY DEF StoreInv
<1>2. u \in Users /\ now \in Nat /\ now <= clock /\ clock \in Nat
    BY <1>1, LoginCall DEF LoginSucceeds, ReadingsArePast, TypeOK
<1>3. /\ user[u] \in Accounts /\ user[u].active
      /\ user[u].failed \in Nat /\ user[u].locked \in Nat /\ user[u].password \in Nat
      /\ user[u].active \in BOOLEAN
    BY <1>1, <1>2, AccountRow DEF LoginSucceeds
<1>4. PICK t \in Tokens \ issued : /\ issued' = issued \cup {t}
                                   /\ session' = [session EXCEPT ![t] = s]
    BY DEF LoginSucceeds
<1>5. /\ user' = [user EXCEPT ![u].failed = 0, ![u].locked = 0]
      /\ wrong' = [wrong EXCEPT ![u] = 0]
      /\ clock' = clock
    BY DEF LoginSucceeds
<1>6. call' \in [Callers -> Calls] /\ \A x \in Callers : call'[x].now <= clock
    BY <1>1, FinishCall DEF LoginSucceeds
<1>7. /\ user'[u] = [exists |-> TRUE, active |-> user[u].active, password |-> user[u].password,
                     failed |-> 0, locked |-> 0]
      /\ \A x \in Users \ {u} : user'[x] = user[x]
    BY <1>1, <1>2, <1>3, <1>5 DEF TypeOK, Accounts
<1>a. Portal(u) \in Portals /\ Idle[Portal(u)] \in Nat /\ Absolute[Portal(u)] \in Nat
      /\ Idle[Portal(u)] <= Absolute[Portal(u)]
    BY DEF Portal, Portals
<1>b. s \in Sessions
    BY <1>2, <1>3, <1>a DEF Sessions
<1>c. /\ s.user = u /\ s.password = user[u].password /\ s.revoked = FALSE
      /\ s.absoluteEnd = s.created + Absolute[Portal(u)] /\ s.idleEnd <= s.absoluteEnd
    BY <1>2, <1>a
<1> HIDE DEF u, now, s
<1>8. user' \in [Users -> Accounts \cup {NoUser}]
  <2>1. user'[u] \in Accounts
    BY <1>3, <1>7 DEF Accounts
  <2>2. \A x \in Users : user'[x] \in Accounts \cup {NoUser}
    BY <1>1, <1>7, <2>1 DEF TypeOK
  <2>3. user' = [x \in Users |-> user'[x]]
    BY <1>1, <1>5 DEF TypeOK
  <2>4. QED
    BY <2>2, <2>3
<1>9. wrong' \in [Users -> Nat]
    BY <1>1, <1>2, <1>5 DEF TypeOK
<1>10. session' \in [Tokens -> Sessions \cup {NoSession}]
    BY <1>1, <1>4, <1>b DEF TypeOK
<1>11. TypeOK'
    BY <1>1, <1>4, <1>5, <1>6, <1>8, <1>9, <1>10 DEF TypeOK
<1>d. session'[t] = s /\ \A x \in Tokens \ {t} : session'[x] = session[x]
    BY <1>1, <1>4 DEF TypeOK
<1>12. LiveSessionsAreCurrent'
  <2>1. \A x \in Users : user'[x].exists = user[x].exists /\ user'[x].active = user[x].active
                         /\ user'[x].password = user[x].password
    <3>1. user[u].exists = TRUE
      BY <1>3 DEF Accounts
    <3>2. /\ user'[u].exists = TRUE /\ user'[u].active = user[u].active
          /\ user'[u].password = user[u].password
      BY <1>7
    <3>3. QED
      BY <1>7, <3>1, <3>2, Zenon
  <2>2. ASSUME NEW x \in Tokens \ {t}, session'[x] # NoSession, ~session'[x].revoked
        PROVE  LET w == session'[x].user IN
                 user'[w].exists /\ user'[w].active /\ session'[x].password = user'[w].password
    BY <1>1, <1>d, <2>1, <2>2, NoSessionIsNone DEF TypeOK, LiveSessionsAreCurrent, Live, Sessions
  <2>3. LET w == session'[t].user IN
           user'[w].exists /\ user'[w].active /\ session'[t].password = user'[w].password
    BY <1>3, <1>7, <1>c, <1>d
  <2>4. QED
    BY <2>2, <2>3 DEF LiveSessionsAreCurrent, Live
<1>13. AbsoluteLimitHolds' /\ ReadingsArePast'
    BY <1>1, <1>5, <1>6, <1>c, <1>d DEF AbsoluteLimitHolds, ReadingsArePast
<1>14. LocksMoveOn'
    BY <1>1, <1>2, <1>5, <1>7 DEF TypeOK, LocksMoveOn
<1>15. StoreInv'
    BY <1>11, <1>12, <1>13, <1>14 DEF StoreInv
<1>16. RowAppears(u)
    BY <1>4, <1>b, <1>c, <1>d DEF RowAppears
<1>17. QED
    BY <1>15, <1>16 DEF u
\* A change of one session that keeps whose it is, its password, its creation and
\* its end, makes no revoked one live and no idle end later than the end.
LEMMA SessionsKept ==
    ASSUME StoreInv, UNCHANGED <<clock, user, wrong, issued>>,
           call' \in [Callers -> Calls], \A x \in Callers : call'[x].now <= clock,
           session' \in [Tokens -> Sessions \cup {NoSession}],
           \A t \in Tokens :
               \/ session'[t] = session[t] \/ session'[t] = NoSession
               \/ /\ session[t] \in Sessions /\ session'[t] \in Sessions
                  /\ session'[t].user = session[t].user
                  /\ session'[t].password = session[t].password
                  /\ session'[t].created = session[t].created
                  /\ session'[t].absoluteEnd = session[t].absoluteEnd
                  /\ session'[t].idleEnd <= session[t].absoluteEnd
                  /\ session[t].revoked => session'[t].revoked
    PROVE  StoreInv'
<1>1. /\ TypeOK /\ LiveSessionsAreCurrent /\ AbsoluteLimitHolds
      /\ ReadingsArePast /\ LocksMoveOn
    BY DEF StoreInv
<1>2. TypeOK' /\ ReadingsArePast' /\ LocksMoveOn'
    BY <1>1 DEF TypeOK, ReadingsArePast, LocksMoveOn
<1>3. LiveSessionsAreCurrent'
    BY <1>1, NoSessionIsNone DEF LiveSessionsAreCurrent, Live
<1>4. AbsoluteLimitHolds'
    BY <1>1, NoSessionIsNone DEF AbsoluteLimitHolds
<1>5. QED
    BY <1>2, <1>3, <1>4 DEF StoreInv

\* resolve_session slides the idle end up to the absolute end.
LEMMA ResolveKeeps ==
    ASSUME StoreInv, NEW c \in Callers, Resolve(c)
    PROVE  StoreInv' /\ RowsStay
<1> DEFINE t == call[c].token
           now == call[c].now
<1>1. /\ TypeOK /\ AbsoluteLimitHolds /\ ReadingsArePast
    BY DEF StoreInv
<1>2. t \in Tokens /\ now \in Nat
    BY <1>1, TokenCall DEF Resolve
<1>3. session[t] \in Sessions
    BY <1>1, <1>2 DEF Resolve, Resolvable, Live, TypeOK
<1>4. call' \in [Callers -> Calls] /\ \A x \in Callers : call'[x].now <= clock
    BY <1>1, FinishCall DEF Resolve
<1>5. /\ session' = [session EXCEPT ![t].idleEnd = Slid(session[t], now)]
      /\ UNCHANGED <<clock, user, wrong, issued>>
    BY DEF Resolve
<1>6. Slid(session[t], now) \in Nat /\ Slid(session[t], now) <= session[t].absoluteEnd
    BY <1>2, <1>3 DEF Slid, Smaller, Portal, Portals, Sessions
<1> HIDE DEF t, now
<1>7. /\ session'[t] = [session[t] EXCEPT !.idleEnd = Slid(session[t], now)]
      /\ \A x \in Tokens \ {t} : session'[x] = session[x]
    BY <1>1, <1>2, <1>5 DEF TypeOK
<1>8. session'[t] \in Sessions
    BY <1>3, <1>6, <1>7 DEF Sessions
<1>9. /\ session'[t].user = session[t].user
      /\ session'[t].password = session[t].password
      /\ session'[t].created = session[t].created
      /\ session'[t].absoluteEnd = session[t].absoluteEnd
      /\ session'[t].idleEnd <= session[t].absoluteEnd
      /\ session'[t].revoked = session[t].revoked
    BY <1>3, <1>6, <1>7 DEF Sessions
<1>10. session' \in [Tokens -> Sessions \cup {NoSession}]
    BY <1>1, <1>5, <1>7, <1>8 DEF TypeOK
<1>11. StoreInv'
    BY <1>3, <1>4, <1>5, <1>7, <1>8, <1>9, <1>10, SessionsKept
<1>12. QED
    BY <1>3, <1>7, <1>8, <1>9, <1>11, NoSessionIsNone DEF RowsStay

\* UPDATE ... SET revoked_at changes this column alone.
LEMMA RevokedColumn ==
    ASSUME NEW s \in Sessions, NEW b \in BOOLEAN
    PROVE  /\ [s EXCEPT !.revoked = b] \in Sessions
           /\ [s EXCEPT !.revoked = b].user = s.user
           /\ [s EXCEPT !.revoked = b].password = s.password
           /\ [s EXCEPT !.revoked = b].created = s.created
           /\ [s EXCEPT !.revoked = b].absoluteEnd = s.absoluteEnd
           /\ [s EXCEPT !.revoked = b].idleEnd = s.idleEnd
           /\ [s EXCEPT !.revoked = b].revoked = b
BY DEF Sessions

\* The same for a session that is being revoked.
LEMMA RevokedRow ==
    ASSUME NEW s \in Sessions
    PROVE  /\ [s EXCEPT !.revoked = TRUE] \in Sessions
           /\ [s EXCEPT !.revoked = TRUE].user = s.user
           /\ [s EXCEPT !.revoked = TRUE].password = s.password
           /\ [s EXCEPT !.revoked = TRUE].created = s.created
           /\ [s EXCEPT !.revoked = TRUE].absoluteEnd = s.absoluteEnd
           /\ [s EXCEPT !.revoked = TRUE].idleEnd = s.idleEnd
           /\ [s EXCEPT !.revoked = TRUE].revoked
<1>1. TRUE \in BOOLEAN
    OBVIOUS
<1>2. QED
    BY <1>1, RevokedColumn, Zenon

\* revoke_session.
LEMMA LogoutKeeps ==
    ASSUME StoreInv, NEW c \in Callers, Logout(c)
    PROVE  StoreInv' /\ RowsStay
<1> DEFINE t == call[c].token
<1>1. TypeOK /\ AbsoluteLimitHolds /\ ReadingsArePast
    BY DEF StoreInv
<1>2. t \in Tokens
    BY <1>1, TokenCall DEF Logout
<1>4. call' \in [Callers -> Calls] /\ \A x \in Callers : call'[x].now <= clock
    BY <1>1, FinishCall DEF Logout
<1>5. UNCHANGED <<clock, user, wrong, issued>>
    BY DEF Logout
<1>6. CASE session' = session
    BY <1>1, <1>4, <1>5, <1>6, SessionsKept DEF TypeOK, RowsStay
<1>7. CASE session' # session
  <2>1. session' = [session EXCEPT ![t].revoked = TRUE] /\ session[t] \in Sessions
    BY <1>1, <1>2, <1>7 DEF Logout, Live, TypeOK
  <2> HIDE DEF t
  <2>2. /\ session'[t] = [session[t] EXCEPT !.revoked = TRUE]
        /\ \A x \in Tokens \ {t} : session'[x] = session[x]
    BY <1>1, <1>2, <2>1 DEF TypeOK
  <2>3. session'[t] \in Sessions
    BY <2>1, <2>2, RevokedRow
  <2>4. /\ session'[t].user = session[t].user
        /\ session'[t].password = session[t].password
        /\ session'[t].created = session[t].created
        /\ session'[t].absoluteEnd = session[t].absoluteEnd
        /\ session'[t].idleEnd = session[t].idleEnd
        /\ session'[t].revoked
    BY <2>1, <2>2, RevokedRow
  <2>a. session'[t].idleEnd <= session[t].absoluteEnd
    BY <1>1, <1>2, <2>1, <2>4, NoSessionIsNone DEF AbsoluteLimitHolds
  <2>5. session' \in [Tokens -> Sessions \cup {NoSession}]
    BY <1>1, <2>1, <2>2, <2>3 DEF TypeOK
  <2>6. StoreInv'
    BY <1>4, <1>5, <2>1, <2>2, <2>3, <2>4, <2>a, <2>5, SessionsKept
  <2>7. QED
    BY <2>1, <2>2, <2>3, <2>4, <2>6, NoSessionIsNone DEF RowsStay
<1>8. QED
    BY <1>6, <1>7

\* resolve_session without a session that it may use.
LEMMA ResolveFailsKeeps ==
    ASSUME StoreInv, NEW c \in Callers, ResolveFails(c)
    PROVE  StoreInv'
<1>1. UNCHANGED <<clock, user, session, issued, wrong>>
    BY DEF ResolveFails
<1>2. call' \in [Callers -> Calls] /\ \A x \in Callers : call'[x].now <= clock
    BY FinishCall DEF ResolveFails, StoreInv
<1>3. QED
    BY <1>1, <1>2, SessionsKept DEF StoreInv, TypeOK

\* prune_expired_sessions: what ends by its reading of the clock has ended now.
LEMMA PruneKeeps ==
    ASSUME StoreInv, NEW c \in Callers, Prune(c)
    PROVE  /\ StoreInv'
           /\ \A t \in Tokens : session[t] # NoSession /\ session'[t] = NoSession =>
                session[t].revoked \/ session[t].idleEnd <= clock
<1>1. TypeOK /\ AbsoluteLimitHolds /\ ReadingsArePast
    BY DEF StoreInv
<1>2. call[c].now \in Nat /\ call[c].now <= clock /\ clock \in Nat
    BY <1>1 DEF TypeOK, Calls, ReadingsArePast
<1>3. call' \in [Callers -> Calls] /\ \A x \in Callers : call'[x].now <= clock
    BY <1>1, FinishCall DEF Prune
<1>4. /\ UNCHANGED <<clock, user, wrong, issued>>
      /\ session' = [t \in Tokens |->
                     IF session[t] # NoSession /\ Prunable(t, call[c].now)
                     THEN NoSession ELSE session[t]]
    BY DEF Prune
<1>5. session' \in [Tokens -> Sessions \cup {NoSession}]
    BY <1>1, <1>4 DEF TypeOK
<1>6. StoreInv'
    BY <1>3, <1>4, <1>5, SessionsKept
<1>7. ASSUME NEW t \in Tokens, session[t] # NoSession, session'[t] = NoSession
      PROVE  session[t].revoked \/ session[t].idleEnd <= clock
  <2>1. Prunable(t, call[c].now)
    BY <1>4, <1>7
  <2>2. /\ session[t].idleEnd \in Nat /\ session[t].absoluteEnd \in Nat
        /\ session[t].idleEnd <= session[t].absoluteEnd
    BY <1>1, <1>7 DEF TypeOK, Sessions, AbsoluteLimitHolds
  <2>3. QED
    BY <1>2, <2>1, <2>2 DEF Prunable
<1>8. QED
    BY <1>6, <1>7
-----------------------------------------------------------------------------
(* The command line. *)

LEMMA CreateUserKeeps ==
    ASSUME StoreInv, NEW u \in Users, CreateUser(u)
    PROVE  StoreInv'
<1> DEFINE row == [exists |-> TRUE, active |-> TRUE, password |-> 1, failed |-> 0, locked |-> 0]
<1>1. /\ TypeOK /\ LiveSessionsAreCurrent /\ AbsoluteLimitHolds
      /\ ReadingsArePast /\ LocksMoveOn
    BY DEF StoreInv
<1>2. /\ user' = [user EXCEPT ![u] = row] /\ ~user[u].exists
      /\ UNCHANGED <<clock, session, issued, call, wrong>>
    BY DEF CreateUser
<1>3. row \in Accounts /\ row.failed = 0 /\ row.locked = 0
  <2>1. TRUE \in {TRUE} /\ TRUE \in BOOLEAN /\ 0 \in Nat /\ 1 \in Nat
    OBVIOUS
  <2>2. QED
    BY <2>1 DEF Accounts
<1> HIDE DEF row
<1>4. user'[u] = row /\ \A x \in Users \ {u} : user'[x] = user[x]
    BY <1>1, <1>2 DEF TypeOK
<1>5. TypeOK'
    BY <1>1, <1>2, <1>3 DEF TypeOK
<1>6. user[u].failed = 0
    BY <1>1, <1>2, AccountRow DEF NoUser
<1>7. LiveSessionsAreCurrent'
    BY <1>1, <1>2, <1>4, NoSessionIsNone DEF TypeOK, LiveSessionsAreCurrent, Live, Sessions
<1>8. AbsoluteLimitHolds' /\ ReadingsArePast'
    BY <1>1, <1>2 DEF AbsoluteLimitHolds, ReadingsArePast
<1>9. LocksMoveOn'
    BY <1>1, <1>2, <1>3, <1>4, <1>6 DEF TypeOK, LocksMoveOn
<1>10. QED
    BY <1>5, <1>7, <1>8, <1>9 DEF StoreInv

\* RevokedOf(u) leaves no session of u live and changes nothing else.
LEMMA RevokedOfFacts ==
    ASSUME TypeOK, AbsoluteLimitHolds, NEW u \in Users, session' = RevokedOf(u)
    PROVE  /\ session' \in [Tokens -> Sessions \cup {NoSession}]
           /\ AbsoluteLimitHolds'
           /\ \A t \in Tokens :
                /\ session'[t] = NoSession <=> session[t] = NoSession
                /\ session'[t].user = session[t].user
                /\ session'[t] # NoSession /\ ~session'[t].revoked =>
                     session'[t] = session[t] /\ session[t].user # u
<1>1. ASSUME NEW t \in Tokens
      PROVE  /\ session'[t] \in Sessions \cup {NoSession}
             /\ session'[t] = NoSession <=> session[t] = NoSession
             /\ session'[t].user = session[t].user
             /\ session'[t] # NoSession /\ ~session'[t].revoked =>
                  session'[t] = session[t] /\ session[t].user # u
             /\ session'[t] # NoSession =>
                   /\ session'[t].absoluteEnd = session[t].absoluteEnd
                   /\ session'[t].created = session[t].created
                   /\ session'[t].idleEnd = session[t].idleEnd
  <2>1. CASE Live(t) /\ session[t].user = u
    <3>1. session[t] \in Sessions
      BY <2>1 DEF Live, TypeOK
    <3>2. session'[t] = [session[t] EXCEPT !.revoked = TRUE]
      BY <2>1 DEF RevokedOf
    <3>3. QED
      BY <2>1, <3>1, <3>2, RevokedRow, NoSessionIsNone DEF Live
  <2>2. CASE ~(Live(t) /\ session[t].user = u)
    <3>1. session'[t] = session[t]
      BY <2>2 DEF RevokedOf
    <3>2. QED
      BY <2>2, <3>1 DEF Live, TypeOK
  <2>3. QED
    BY <2>1, <2>2
<1>2. session' = [t \in Tokens |-> session'[t]]
    BY DEF RevokedOf
<1>3. QED
    BY <1>1, <1>2 DEF AbsoluteLimitHolds

\* set_password: the sessions of the old password are revoked with it.
LEMMA SetPasswordKeeps ==
    ASSUME StoreInv, NEW u \in Users, SetPassword(u)
    PROVE  StoreInv' /\ RowsStay
<1>1. /\ TypeOK /\ LiveSessionsAreCurrent /\ AbsoluteLimitHolds
      /\ ReadingsArePast /\ LocksMoveOn
    BY DEF StoreInv
<1>2. /\ user' = [user EXCEPT ![u].password = @ + 1, ![u].failed = 0, ![u].locked = 0]
      /\ user[u].exists /\ session' = RevokedOf(u) /\ wrong' = [wrong EXCEPT ![u] = 0]
      /\ UNCHANGED <<clock, issued, call>>
    BY DEF SetPassword, ResolvesUser
<1>3. user[u] \in Accounts /\ user[u].password \in Nat /\ user[u].active \in BOOLEAN
    BY <1>1, <1>2, AccountRow
<1>4. /\ user'[u] = [exists |-> TRUE, active |-> user[u].active, password |-> user[u].password + 1,
                     failed |-> 0, locked |-> 0]
      /\ \A x \in Users \ {u} : user'[x] = user[x]
    BY <1>1, <1>2, <1>3 DEF TypeOK, Accounts
<1>5. user' \in [Users -> Accounts \cup {NoUser}]
  <2>1. user'[u] \in Accounts
    BY <1>3, <1>4 DEF Accounts
  <2>2. \A x \in Users : user'[x] \in Accounts \cup {NoUser}
    BY <1>1, <1>4, <2>1 DEF TypeOK
  <2>3. user' = [x \in Users |-> user'[x]]
    BY <1>1, <1>2 DEF TypeOK
  <2>4. QED
    BY <2>2, <2>3
<1>6. TypeOK' /\ AbsoluteLimitHolds' /\ ReadingsArePast'
    BY <1>1, <1>2, <1>5, RevokedOfFacts DEF TypeOK, ReadingsArePast
<1>7. LiveSessionsAreCurrent'
    BY <1>1, <1>2, <1>4, RevokedOfFacts DEF LiveSessionsAreCurrent, Live, TypeOK, Sessions
<1>8. LocksMoveOn'
    BY <1>1, <1>2, <1>4 DEF TypeOK, LocksMoveOn
<1>9. RowsStay
    BY <1>1, <1>2, RevokedOfFacts DEF RowsStay
<1>10. QED
    BY <1>6, <1>7, <1>8, <1>9 DEF StoreInv

\* set_active: an account that is disabled has no live session.
LEMMA SetActiveKeeps ==
    ASSUME StoreInv, NEW u \in Users, NEW active \in BOOLEAN, SetActive(u, active)
    PROVE  StoreInv' /\ RowsStay
<1>1. /\ TypeOK /\ LiveSessionsAreCurrent /\ AbsoluteLimitHolds
      /\ ReadingsArePast /\ LocksMoveOn
    BY DEF StoreInv
<1>2. /\ user' = [user EXCEPT ![u].active = active] /\ user[u].exists
      /\ session' = IF active THEN session ELSE RevokedOf(u)
      /\ UNCHANGED <<clock, issued, call, wrong>>
    BY DEF SetActive, ResolvesUser
<1>3. /\ user[u] \in Accounts /\ user[u].password \in Nat
      /\ user[u].failed \in Nat /\ user[u].locked \in Nat
    BY <1>1, <1>2, AccountRow
<1>4. /\ user'[u] = [exists |-> TRUE, active |-> active, password |-> user[u].password,
                     failed |-> user[u].failed, locked |-> user[u].locked]
      /\ \A x \in Users \ {u} : user'[x] = user[x]
    BY <1>1, <1>2, <1>3 DEF TypeOK, Accounts
<1>5. user' \in [Users -> Accounts \cup {NoUser}]
  <2>1. user'[u] \in Accounts
    BY <1>3, <1>4 DEF Accounts
  <2>2. \A x \in Users : user'[x] \in Accounts \cup {NoUser}
    BY <1>1, <1>4, <2>1 DEF TypeOK
  <2>3. user' = [x \in Users |-> user'[x]]
    BY <1>1, <1>2 DEF TypeOK
  <2>4. QED
    BY <2>2, <2>3
<1>a. LocksMoveOn'
  <2>1. \A x \in Users : user'[x].failed = user[x].failed /\ user'[x].locked = user[x].locked
    BY <1>4
  <2>2. QED
    BY <1>1, <1>2, <2>1 DEF LocksMoveOn
<1>6. CASE active
  <2>1. session' = session
    BY <1>2, <1>6
  <2>2. TypeOK' /\ AbsoluteLimitHolds' /\ ReadingsArePast'
    BY <1>1, <1>2, <1>5, <2>1 DEF TypeOK, ReadingsArePast, AbsoluteLimitHolds
  <2>3. LiveSessionsAreCurrent'
    BY <1>1, <1>4, <1>6, <2>1 DEF LiveSessionsAreCurrent, Live, TypeOK, Sessions
  <2>4. QED
    BY <1>a, <2>1, <2>2, <2>3 DEF StoreInv, RowsStay
<1>7. CASE ~active
  <2>1. session' = RevokedOf(u)
    BY <1>2, <1>7
  <2>2. TypeOK' /\ AbsoluteLimitHolds' /\ ReadingsArePast'
    BY <1>1, <1>2, <1>5, <2>1, RevokedOfFacts DEF TypeOK, ReadingsArePast
  <2>3. LiveSessionsAreCurrent'
    BY <1>1, <1>4, <2>1, RevokedOfFacts DEF LiveSessionsAreCurrent, Live, TypeOK, Sessions
  <2>4. RowsStay
    BY <1>1, <2>1, RevokedOfFacts DEF RowsStay
  <2>5. QED
    BY <1>a, <2>2, <2>3, <2>4 DEF StoreInv
<1>8. QED
    BY <1>6, <1>7

\* Readings of the clock stay past ones.
LEMMA TickKeeps ==
    ASSUME StoreInv, Tick
    PROVE  StoreInv'
<1>1. clock' = clock + 1 /\ UNCHANGED <<user, session, issued, call, wrong>> /\ clock \in Nat
    BY DEF Tick, StoreInv, TypeOK
<1>2. TypeOK' /\ LiveSessionsAreCurrent' /\ AbsoluteLimitHolds'
    BY <1>1 DEF StoreInv, TypeOK, LiveSessionsAreCurrent, Live, AbsoluteLimitHolds
<1>3. ReadingsArePast'
  <2>1. \A c \in Callers : call[c].now \in Nat
    BY DEF StoreInv, TypeOK, Calls
  <2>2. QED
    BY <1>1, <2>1 DEF StoreInv, ReadingsArePast
<1>4. LocksMoveOn'
  <2>1. \A u \in Users : user[u].locked \in Nat
    BY AccountRow DEF StoreInv
  <2>2. QED
    BY <1>1, <2>1 DEF StoreInv, LocksMoveOn
<1>5. QED
    BY <1>2, <1>3, <1>4 DEF StoreInv

\* A caller reads the clock.
LEMMA AskKeeps ==
    ASSUME StoreInv, NEW c \in Callers, NEW asked \in Calls, asked.now = clock,
           call' = [call EXCEPT ![c] = asked],
           UNCHANGED <<clock, user, session, issued, wrong>>
    PROVE  StoreInv'
<1>1. TypeOK' /\ LiveSessionsAreCurrent' /\ AbsoluteLimitHolds' /\ LocksMoveOn'
    BY DEF StoreInv, TypeOK, LiveSessionsAreCurrent, Live, AbsoluteLimitHolds, LocksMoveOn
<1>2. ReadingsArePast'
    BY DEF StoreInv, TypeOK, ReadingsArePast
<1>3. QED
    BY <1>1, <1>2 DEF StoreInv
-----------------------------------------------------------------------------
(* The store alone. *)

LEMMA CommandLineKeeps ==
    ASSUME StoreInv, CommandLine
    PROVE  StoreInv' /\ RowsStay /\ UNCHANGED <<clock, issued, call>>
<1>1. ASSUME NEW u \in Users, CreateUser(u)
      PROVE  StoreInv' /\ RowsStay /\ UNCHANGED <<clock, issued, call>>
    BY <1>1, CreateUserKeeps DEF CreateUser, RowsStay
<1>2. ASSUME NEW u \in Users, SetPassword(u)
      PROVE  StoreInv' /\ RowsStay /\ UNCHANGED <<clock, issued, call>>
    BY <1>2, SetPasswordKeeps DEF SetPassword
<1>3. ASSUME NEW u \in Users, NEW active \in BOOLEAN, SetActive(u, active)
      PROVE  StoreInv' /\ RowsStay /\ UNCHANGED <<clock, issued, call>>
    BY <1>3, SetActiveKeeps DEF SetActive
<1>4. QED
    BY <1>1, <1>2, <1>3 DEF CommandLine, SyncCredentials

\* The action of PruneKeepsUsable.
PruneStep ==
    \A t \in Tokens :
        session[t] # NoSession /\ session'[t] = NoSession =>
            session[t].revoked \/ session[t].idleEnd <= clock

\* Every operation of the store.
LEMMA NextKeeps ==
    ASSUME StoreInv, Next
    PROVE  StoreInv' /\ PruneStep
<1>1. ASSUME NEW c \in Callers, CallerStep(c)
      PROVE  StoreInv' /\ PruneStep
  <2>0. clock \in Nat
    BY DEF StoreInv, TypeOK
  <2>1. ASSUME NEW u \in Users, NEW p \in 1 .. MaxPassword, AskLogin(c, u, p)
        PROVE  StoreInv' /\ PruneStep
    <3>1. [op |-> "login", now |-> clock, user |-> u, password |-> p] \in Calls
      BY <2>0 DEF Calls
    <3>2. QED
      BY <2>1, <3>1, AskKeeps DEF AskLogin, Ask, PruneStep
  <2>2. ASSUME NEW t \in Tokens, NEW p \in Portals, AskResolve(c, t, p) \/ AskLogout(c, t, p)
        PROVE  StoreInv' /\ PruneStep
    <3>1. /\ [op |-> "resolve", now |-> clock, token |-> t, portal |-> p] \in Calls
          /\ [op |-> "logout", now |-> clock, token |-> t, portal |-> p] \in Calls
      BY <2>0 DEF Calls
    <3>2. QED
      BY <2>2, <3>1, AskKeeps DEF AskResolve, AskLogout, Ask, PruneStep
  <2>3. CASE AskPrune(c)
    <3>1. [op |-> "prune", now |-> clock] \in Calls
      BY <2>0 DEF Calls
    <3>2. QED
      BY <2>3, <3>1, AskKeeps DEF AskPrune, Ask, PruneStep
  <2>4. CASE LoginRejected(c)
    BY <2>4, LoginRejectedKeeps DEF LoginRejected, PruneStep
  <2>5. CASE LoginFails(c)
    BY <2>5, LoginFailsKeeps DEF LoginFails, PruneStep
  <2>6. CASE LoginSucceeds(c)
    BY <2>6, LoginSucceedsKeeps, NoSessionIsNone DEF RowAppears, PruneStep
  <2>7. CASE Resolve(c)
    BY <2>7, ResolveKeeps DEF RowsStay, PruneStep
  <2>8. CASE ResolveFails(c)
    BY <2>8, ResolveFailsKeeps DEF ResolveFails, PruneStep
  <2>9. CASE Logout(c)
    BY <2>9, LogoutKeeps DEF RowsStay, PruneStep
  <2>10. CASE Prune(c)
    BY <2>10, PruneKeeps DEF PruneStep
  <2>11. QED
    BY <1>1, <2>1, <2>2, <2>3, <2>4, <2>5, <2>6, <2>7, <2>8, <2>9, <2>10 DEF CallerStep
<1>2. CASE CommandLine
    BY <1>2, CommandLineKeeps DEF RowsStay, PruneStep
<1>3. CASE Tick
    BY <1>3, TickKeeps DEF Tick, PruneStep
<1>4. QED
    BY <1>1, <1>2, <1>3 DEF Next
-----------------------------------------------------------------------------
(* The routes. *)

\* The token's session exists and is of that portal.
Scoped(t, p) == t \in issued /\ t \in Tokens /\ session[t] # NoSession /\ Portal(session[t].user) = p

\* What a cookie may hold, and what a caller may be doing for the browser.
Cookies == Tokens \cup {NoToken}

Visits ==
    {NoVisit}
      \cup [route : {"login", "logout"}, portal : Portals]
      \cup [route : {"reply"}, portal : Portals, cookie : Cookies]
      \cup [route : {"page"}, page : {"me", "data", "list"}, need : {"user", "company", "admin"},
            portal : Portals, company : Companies \cup {Unknown}, key : Companies \cup {NoKey},
            token : Cookies]

\* A login under way is for its portal's users; a cookie that a page was asked
\* with, or that a reply carries, is of the reply's portal.
VisitScoped(c) ==
    LET v == visit[c] IN
        /\ v.route = "login" => call[c].op = "login" /\ Portal(call[c].user) = v.portal
        /\ v.route = "reply" /\ v.cookie # NoToken => Scoped(v.cookie, v.portal)
        /\ v.route = "page" /\ v.token # NoToken => Scoped(v.token, v.portal)
        /\ v.route = "page" /\ v.page = "data" => v.need # "user"

\* What the browser and the routes keep.
BrowserInv ==
    /\ jar \in [Portals -> Cookies]
    /\ visit \in [Callers -> Visits]
    /\ \A p \in Portals : jar[p] # NoToken => Scoped(jar[p], p)
    /\ \A c \in Callers : VisitScoped(c)
    /\ ~Browsing => /\ \A p \in Portals : jar[p] = NoToken
                    /\ \A c \in Callers : visit[c] = NoVisit

\* The second part of AccessIsScoped.
ServedIsScoped ==
    \A g \in served :
        IF g.audience = "internal" THEN g.by \in Admins
        ELSE g.by = g.company \/ (g.by \in CompanyUsers /\ CompanyOf[g.by] = g.company)

\* The inductive invariant.
PortalIInv == StoreInv /\ BrowserInv /\ ServedIsScoped

\* The calls of a route that starts.
LoginCallOf(c, u, password) ==
    call' = [call EXCEPT ![c] = [op |-> "login", now |-> clock, user |-> u, password |-> password]]

TokenCallOf(c, op, portal) ==
    call' = [call EXCEPT ![c] = [op |-> op, now |-> clock, token |-> jar[portal], portal |-> portal]]

\* No cookie changes hands when rows stay and callers keep their calls.
LEMMA ScopedStays ==
    ASSUME StoreInv, RowsStay \/ \E u : RowAppears(u), issued \subseteq issued',
           NEW t, NEW p, Scoped(t, p)
    PROVE  Scoped(t, p)'
<1>1. CASE RowsStay
    BY <1>1 DEF RowsStay, Scoped
<1>2. ASSUME NEW u, RowAppears(u) PROVE Scoped(t, p)'
    BY <1>2 DEF RowAppears, Scoped
<1>3. QED
    BY <1>1, <1>2

\* What caller c does leaves the other callers' visits as they are.
LEMMA OthersStay ==
    ASSUME StoreInv, BrowserInv, NEW c \in Callers,
           RowsStay \/ \E u : RowAppears(u), issued \subseteq issued',
           \A x \in Callers \ {c} : call'[x] = call[x] /\ visit'[x] = visit[x]
    PROVE  \A x \in Callers \ {c} : VisitScoped(x)'
<1> SUFFICES ASSUME NEW x \in Callers \ {c} PROVE VisitScoped(x)'
    OBVIOUS
<1>1. VisitScoped(x) /\ visit'[x] = visit[x] /\ call'[x] = call[x]
    BY DEF BrowserInv
<1>2. \A t, p : Scoped(t, p) => Scoped(t, p)'
    BY ScopedStays
<1>3. QED
    BY <1>1, <1>2 DEF VisitScoped

\* A step of caller c that leaves c with a visit v that is in order, and the jar
\* alone.
LEMMA VisitStep ==
    ASSUME StoreInv, BrowserInv, NEW c \in Callers, NEW v \in Visits,
           RowsStay \/ \E u : RowAppears(u), issued \subseteq issued',
           Browsing, mode' = mode, jar' = jar,
           visit' = [visit EXCEPT ![c] = v],
           \A x \in Callers \ {c} : call'[x] = call[x],
           VisitScoped(c)'
    PROVE  BrowserInv'
<1>1. visit' \in [Callers -> Visits] /\ \A x \in Callers \ {c} : visit'[x] = visit[x]
    BY DEF BrowserInv
<1>2. \A x \in Callers : VisitScoped(x)'
    BY <1>1, OthersStay
<1>3. \A p \in Portals : jar'[p] # NoToken => Scoped(jar[p], p)'
    BY ScopedStays DEF BrowserInv
<1>4. QED
    BY <1>1, <1>2, <1>3 DEF BrowserInv, Browsing

\* A visit of this kind needs nothing.
LEMMA PlainVisits ==
    ASSUME NEW p \in Portals
    PROVE  /\ NoVisit \in Visits /\ NoVisit.route = "none"
           /\ Reply(p, NoToken) \in Visits /\ Reply(p, NoToken).route = "reply"
           /\ Reply(p, NoToken).cookie = NoToken
           /\ [route |-> "login", portal |-> p] \in Visits
           /\ [route |-> "logout", portal |-> p] \in Visits
BY DEF NoVisit, Visits, Reply, Cookies

\* role_login asks the store for a user of its own portal only.
LEMMA LoginToKeeps ==
    ASSUME StoreInv, BrowserInv, NEW c \in Callers, NEW u \in Users, NEW w \in Nat,
           NEW p \in Portals, NEW e, LoginTo(c, u, w, p, e)
    PROVE  StoreInv' /\ BrowserInv' /\ PruneStep
<1>0. /\ RowsStay /\ PruneStep /\ UNCHANGED <<clock, user, session, issued, wrong, mode, jar, served>>
      /\ Browsing
    BY DEF LoginTo, RowsStay, PruneStep, Free
<1>1. CASE Fits(u, p, e)
  <2>1. LoginCallOf(c, u, w) /\ visit' = [visit EXCEPT ![c] = [route |-> "login", portal |-> p]]
    BY <1>1 DEF LoginTo, LoginCallOf, Visiting
  <2>2. [op |-> "login", now |-> clock, user |-> u, password |-> w] \in Calls
    BY DEF Calls, StoreInv, TypeOK
  <2>3. StoreInv'
    BY <1>0, <2>1, <2>2, AskKeeps DEF LoginCallOf
  <2>4. /\ call'[c] = [op |-> "login", now |-> clock, user |-> u, password |-> w]
        /\ visit'[c] = [route |-> "login", portal |-> p]
        /\ \A x \in Callers \ {c} : call'[x] = call[x]
    BY <2>1 DEF LoginCallOf, StoreInv, TypeOK, BrowserInv
  <2>5. VisitScoped(c)'
    BY <1>1, <2>4 DEF VisitScoped, Fits
  <2>6. QED
    BY <1>0, <2>1, <2>3, <2>4, <2>5, PlainVisits, VisitStep
<1>2. CASE ~Fits(u, p, e)
  <2>1. UNCHANGED <<call, visit>>
    BY <1>2 DEF LoginTo
  <2>2. QED
    BY <1>0, <2>1 DEF StoreInv, TypeOK, LiveSessionsAreCurrent, Live, AbsoluteLimitHolds,
                      ReadingsArePast, LocksMoveOn, BrowserInv, VisitScoped, Scoped, Browsing
<1>3. QED
    BY <1>1, <1>2

\* role_logout asks the store with the cookie of its own portal.
LEMMA LogoutFromKeeps ==
    ASSUME StoreInv, BrowserInv, NEW c \in Callers, NEW p \in Portals, LogoutFrom(c, p)
    PROVE  StoreInv' /\ BrowserInv' /\ PruneStep
<1>0. /\ RowsStay /\ PruneStep /\ UNCHANGED <<clock, user, session, issued, wrong, mode, jar, served>>
      /\ Browsing
    BY DEF LogoutFrom, RowsStay, PruneStep, Free
<1>1. CASE jar[p] = NoToken
  <2>1. call' = call /\ visit' = [visit EXCEPT ![c] = Reply(p, NoToken)]
    BY <1>1 DEF LogoutFrom, Visiting
  <2>2. StoreInv'
    BY <1>0, <2>1 DEF StoreInv, TypeOK, LiveSessionsAreCurrent, Live, AbsoluteLimitHolds,
                      ReadingsArePast, LocksMoveOn
  <2>3. visit'[c] = Reply(p, NoToken)
    BY <2>1 DEF BrowserInv
  <2>4. VisitScoped(c)'
    BY <2>3, PlainVisits DEF VisitScoped
  <2>5. QED
    BY <1>0, <2>1, <2>2, <2>4, PlainVisits, VisitStep
<1>2. CASE jar[p] # NoToken
  <2>1. /\ TokenCallOf(c, "logout", p)
        /\ visit' = [visit EXCEPT ![c] = [route |-> "logout", portal |-> p]]
    BY <1>2 DEF LogoutFrom, TokenCallOf, Visiting
  <2>2. jar[p] \in Tokens /\ clock \in Nat
    BY <1>2 DEF BrowserInv, Cookies, StoreInv, TypeOK
  <2>3. [op |-> "logout", now |-> clock, token |-> jar[p], portal |-> p] \in Calls
    BY <2>2 DEF Calls
  <2>4. StoreInv'
    BY <1>0, <2>1, <2>3, AskKeeps DEF TokenCallOf
  <2>5. /\ visit'[c] = [route |-> "logout", portal |-> p]
        /\ \A x \in Callers \ {c} : call'[x] = call[x]
    BY <2>1 DEF TokenCallOf, StoreInv, TypeOK, BrowserInv
  <2>6. VisitScoped(c)'
    BY <2>5 DEF VisitScoped
  <2>7. QED
    BY <1>0, <2>1, <2>4, <2>5, <2>6, PlainVisits, VisitStep
<1>3. QED
    BY <1>1, <1>2

\* session_principal asks the store with the cookie of the page's portal.
LEMMA OpenKeeps ==
    ASSUME StoreInv, BrowserInv, NEW c \in Callers, NEW p \in Portals,
           NEW page \in {"me", "data", "list"}, NEW need \in {"user", "company", "admin"},
           NEW e \in Companies \cup {Unknown}, NEW key \in Companies \cup {NoKey},
           page = "data" => need # "user",
           Open(c, page, need, p, e, key)
    PROVE  StoreInv' /\ BrowserInv' /\ PruneStep
<1> DEFINE v == [route |-> "page", page |-> page, need |-> need, portal |-> p,
                 company |-> e, key |-> key, token |-> jar[p]]
<1>0. /\ RowsStay /\ PruneStep /\ UNCHANGED <<clock, user, session, issued, wrong, mode, jar>>
      /\ Browsing /\ visit' = [visit EXCEPT ![c] = v]
    BY DEF Open, RowsStay, PruneStep, Free, Visiting
<1>1. jar[p] \in Cookies /\ clock \in Nat
    BY DEF BrowserInv, StoreInv, TypeOK
<1>2. v \in Visits /\ v.route = "page" /\ v.token = jar[p] /\ v.portal = p
      /\ v.page = page /\ v.need = need
    BY <1>1 DEF Visits
<1>3. visit'[c] = v
    BY <1>0 DEF BrowserInv
<1>4. jar[p] # NoToken => Scoped(jar[p], p)'
    BY <1>0, ScopedStays DEF BrowserInv
<1> HIDE DEF v
<1>5. VisitScoped(c)'
    BY <1>0, <1>2, <1>3, <1>4 DEF VisitScoped
<1>6. StoreInv' /\ \A x \in Callers \ {c} : call'[x] = call[x]
  <2>1. CASE jar[p] = NoToken
    <3>1. call' = call
      BY <2>1 DEF Open
    <3>2. QED
      BY <1>0, <3>1 DEF StoreInv, TypeOK, LiveSessionsAreCurrent, Live, AbsoluteLimitHolds,
                        ReadingsArePast, LocksMoveOn
  <2>2. CASE jar[p] # NoToken
    <3>1. TokenCallOf(c, "resolve", p)
      BY <2>2 DEF Open, TokenCallOf
    <3>2. [op |-> "resolve", now |-> clock, token |-> jar[p], portal |-> p] \in Calls
      BY <1>1, <2>2 DEF Calls, Cookies
    <3>3. QED
      BY <1>0, <3>1, <3>2, AskKeeps DEF TokenCallOf, StoreInv, TypeOK
  <2>3. QED
    BY <2>1, <2>2
<1>7. QED
    BY <1>0, <1>2, <1>5, <1>6, VisitStep
\* A caller whose visit is not NoVisit belongs to a browser.
LEMMA VisitsBrowse ==
    ASSUME BrowserInv, NEW c \in Callers, visit[c].route # "none"
    PROVE  Browsing
BY DEF BrowserInv, NoVisit

\* A caller that is done leaves the other callers' calls alone.
LEMMA FinishOthers ==
    ASSUME TypeOK, NEW c \in Callers, Finish(c)
    PROVE  \A x \in Callers \ {c} : call'[x] = call[x]
BY DEF TypeOK, Finish

\* The visit ends without a reply.
LEMMA EndsVisit ==
    ASSUME StoreInv, BrowserInv, NEW c \in Callers, Browsing, RowsStay, issued' = issued,
           mode' = mode, jar' = jar, Visiting(c, NoVisit),
           \A x \in Callers \ {c} : call'[x] = call[x]
    PROVE  BrowserInv'
<1>1. visit' = [visit EXCEPT ![c] = NoVisit] /\ visit'[c] = NoVisit
    BY DEF Visiting, BrowserInv
<1>2. NoVisit \in Visits /\ NoVisit.route = "none"
    BY DEF Visits, NoVisit
<1>3. VisitScoped(c)'
    BY <1>1, <1>2 DEF VisitScoped
<1>4. QED
    BY <1>1, <1>2, <1>3, VisitStep

\* A login that is refused.
LEMMA LoginDeniedKeeps ==
    ASSUME StoreInv, BrowserInv, NEW c \in Callers, LoginDenied(c)
    PROVE  StoreInv' /\ BrowserInv' /\ PruneStep
<1>1. /\ Browsing /\ mode' = mode /\ jar' = jar /\ Visiting(c, NoVisit)
    BY VisitsBrowse DEF LoginDenied
<1>2. session' = session /\ issued' = issued /\ Finish(c)
    BY DEF LoginDenied, LoginRejected, LoginFails
<1>3. RowsStay /\ PruneStep
    BY <1>2 DEF RowsStay, PruneStep
<1>4. StoreInv'
    BY LoginRejectedKeeps, LoginFailsKeeps DEF LoginDenied
<1>5. \A x \in Callers \ {c} : call'[x] = call[x]
    BY <1>2, FinishOthers DEF StoreInv
<1>6. QED
    BY <1>1, <1>2, <1>3, <1>4, <1>5, EndsVisit

\* A login that succeeds: the reply carries the new session, of its portal.
LEMMA LoginGrantedKeeps ==
    ASSUME StoreInv, BrowserInv, NEW c \in Callers, LoginGranted(c)
    PROVE  StoreInv' /\ BrowserInv' /\ PruneStep
<1> DEFINE new == CHOOSE t \in issued' : t \notin issued
<1>0. PICK p : p = visit[c].portal
    OBVIOUS
<1>1. /\ Browsing /\ mode' = mode /\ jar' = jar /\ visit' = [visit EXCEPT ![c] = Reply(p, new)]
      /\ Finish(c)
    BY <1>0, VisitsBrowse DEF LoginGranted, Visiting, LoginSucceeds
<1>2. StoreInv' /\ RowAppears(call[c].user)
    BY LoginSucceedsKeeps DEF LoginGranted
<1>3. p \in Portals /\ Portal(call[c].user) = p
    BY <1>0 DEF LoginGranted, BrowserInv, Visits, NoVisit, VisitScoped
<1>4. PICK t \in Tokens \ issued :
        /\ issued' = issued \cup {t}
        /\ session'[t] \in Sessions /\ session'[t].user = call[c].user
        /\ \A x \in Tokens \ {t} : session'[x] = session[x]
    BY <1>2 DEF RowAppears
<1>5. new = t
  <2>1. t \in issued' /\ t \notin issued
    BY <1>4
  <2>2. new \in issued' /\ new \notin issued
    BY <2>1
  <2>3. QED
    BY <1>4, <2>2
<1> HIDE DEF new
<1>6. Scoped(t, p)'
    BY <1>3, <1>4, NoSessionIsNone DEF Scoped
<1>7. Reply(p, new) \in Visits /\ visit'[c] = Reply(p, new)
    BY <1>1, <1>3, <1>5 DEF Reply, Visits, Cookies, BrowserInv
<1>8. VisitScoped(c)'
    BY <1>5, <1>6, <1>7 DEF VisitScoped, Reply
<1>9. PruneStep
    BY <1>4, NoSessionIsNone DEF PruneStep
<1>10. \A x \in Callers \ {c} : call'[x] = call[x]
    BY <1>1, FinishOthers DEF StoreInv
<1>11. QED
    BY <1>1, <1>2, <1>4, <1>7, <1>8, <1>9, <1>10, VisitStep

\* A logout: the reply deletes the cookie.
LEMMA LogoutDoneKeeps ==
    ASSUME StoreInv, BrowserInv, NEW c \in Callers, LogoutDone(c)
    PROVE  StoreInv' /\ BrowserInv' /\ PruneStep
<1> DEFINE p == visit[c].portal
<1>1. /\ Browsing /\ mode' = mode /\ jar' = jar /\ visit' = [visit EXCEPT ![c] = Reply(p, NoToken)]
      /\ Finish(c) /\ issued' = issued
    BY VisitsBrowse DEF LogoutDone, Visiting, Logout
<1>2. StoreInv' /\ RowsStay
    BY LogoutKeeps DEF LogoutDone
<1>3. p \in Portals
    BY DEF LogoutDone, BrowserInv, Visits, NoVisit
<1>4. visit'[c] = Reply(p, NoToken)
    BY <1>1 DEF BrowserInv
<1>5. VisitScoped(c)'
    BY <1>3, <1>4, PlainVisits DEF VisitScoped
<1>6. \A x \in Callers \ {c} : call'[x] = call[x]
    BY <1>1, FinishOthers DEF StoreInv
<1>7. PruneStep
    BY <1>2 DEF RowsStay, PruneStep
<1>8. QED
    BY <1>1, <1>2, <1>3, <1>5, <1>6, <1>7, PlainVisits, VisitStep

\* A page for a live session: the same cookie again, figures to the right one.
LEMMA PageResolvedKeeps ==
    ASSUME StoreInv, BrowserInv, NEW c \in Callers, PageResolved(c)
    PROVE  StoreInv' /\ BrowserInv' /\ PruneStep /\ ServedIsScoped'
<1>0. PICK v, p : v = visit[c] /\ p = visit[c].portal
    OBVIOUS
<1>1. /\ Browsing /\ mode' = mode /\ jar' = jar /\ Finish(c) /\ issued' = issued /\ v.route = "page"
    BY <1>0, VisitsBrowse DEF PageResolved, Resolve
<1>2. StoreInv' /\ RowsStay
    BY ResolveKeeps DEF PageResolved
<1>3. /\ p \in Portals /\ v.token \in Cookies /\ v.need \in {"user", "company", "admin"}
      /\ v.page = "data" => v.need # "user"
      /\ v.token # NoToken => Scoped(v.token, p)
    BY <1>0, <1>1 DEF BrowserInv, Visits, NoVisit, VisitScoped
<1>4. \A x \in Callers \ {c} : call'[x] = call[x]
    BY <1>1, FinishOthers DEF StoreInv
<1>5. PruneStep
    BY <1>2 DEF RowsStay, PruneStep
<1>6. CASE Authorized(v)
  <2>1. /\ visit' = [visit EXCEPT ![c] = Reply(p, v.token)]
        /\ served' = IF v.page = "data" THEN {Given(v, session[v.token].user)} ELSE {}
    BY <1>0, <1>6 DEF PageResolved, Visiting
  <2>2. Reply(p, v.token) \in Visits /\ visit'[c] = Reply(p, v.token)
    BY <1>3, <2>1 DEF Reply, Visits, BrowserInv
  <2>3. v.token # NoToken => Scoped(v.token, p)'
    BY <1>1, <1>2, <1>3, ScopedStays
  <2>4. VisitScoped(c)'
    BY <1>3, <2>2, <2>3 DEF VisitScoped, Reply
  <2>5. ServedIsScoped'
    BY <1>3, <1>6, <2>1 DEF ServedIsScoped, Authorized, Given, Audience
  <2>6. QED
    BY <1>1, <1>2, <1>4, <1>5, <2>1, <2>2, <2>4, <2>5, VisitStep
<1>7. CASE ~Authorized(v)
  <2>1. Visiting(c, NoVisit) /\ served' = {}
    BY <1>0, <1>7 DEF PageResolved
  <2>2. QED
    BY <1>1, <1>2, <1>4, <1>5, <2>1, EndsVisit DEF ServedIsScoped
<1>8. QED
    BY <1>6, <1>7

\* A page without a session: figures to the company's own key only.
LEMMA PageUnresolvedKeeps ==
    ASSUME StoreInv, BrowserInv, NEW c \in Callers, PageUnresolved(c)
    PROVE  StoreInv' /\ BrowserInv' /\ PruneStep /\ ServedIsScoped'
<1>1. Browsing /\ mode' = mode /\ jar' = jar /\ Visiting(c, NoVisit)
    BY VisitsBrowse DEF PageUnresolved, ByKey
<1>2. session' = session /\ issued' = issued
    BY DEF PageUnresolved, ResolveFails, vars
<1>3. StoreInv' /\ \A x \in Callers \ {c} : call'[x] = call[x]
  <2>1. CASE ResolveFails(c)
    BY <2>1, ResolveFailsKeeps, FinishOthers DEF ResolveFails, StoreInv
  <2>2. CASE UNCHANGED vars
    BY <2>2 DEF vars, StoreInv, TypeOK, LiveSessionsAreCurrent, Live, AbsoluteLimitHolds,
                ReadingsArePast, LocksMoveOn
  <2>3. QED
    BY <2>1, <2>2 DEF PageUnresolved
<1>4. RowsStay /\ PruneStep
    BY <1>2 DEF RowsStay, PruneStep
<1>5. ServedIsScoped'
    BY DEF PageUnresolved, ByKey, ServedIsScoped, KeyFits, Given, Audience
<1>6. QED
    BY <1>1, <1>2, <1>3, <1>4, <1>5, EndsVisit

\* A reply reaches the browser and sets the cookie of its portal.
LEMMA ReplyArrivesKeeps ==
    ASSUME StoreInv, BrowserInv, NEW c \in Callers, ReplyArrives(c)
    PROVE  StoreInv' /\ BrowserInv' /\ PruneStep /\ ServedIsScoped'
<1> DEFINE v == visit[c]
<1>1. /\ Browsing /\ mode' = mode /\ v.route = "reply"
      /\ jar' = [jar EXCEPT ![v.portal] = v.cookie] /\ visit' = [visit EXCEPT ![c] = NoVisit]
      /\ served' = {} /\ UNCHANGED <<clock, user, session, issued, call, wrong>>
    BY VisitsBrowse DEF ReplyArrives, Visiting, vars
<1>2. /\ v.portal \in Portals /\ v.cookie \in Cookies
      /\ v.cookie # NoToken => Scoped(v.cookie, v.portal)
    BY <1>1 DEF BrowserInv, Visits, NoVisit, VisitScoped
<1>3. StoreInv'
    BY <1>1 DEF StoreInv, TypeOK, LiveSessionsAreCurrent, Live, AbsoluteLimitHolds,
                ReadingsArePast, LocksMoveOn
<1>4. RowsStay /\ PruneStep
    BY <1>1 DEF RowsStay, PruneStep
<1>5. jar' \in [Portals -> Cookies] /\ visit' \in [Callers -> Visits]
    BY <1>1, <1>2 DEF BrowserInv, Visits
<1>6. \A q \in Portals : jar'[q] # NoToken => Scoped(jar'[q], q)
    BY <1>1, <1>2 DEF BrowserInv
<1>7. \A q \in Portals : jar'[q] # NoToken => Scoped(jar[q], q)'
    BY <1>1, <1>6 DEF Scoped
<1>8. visit'[c] = NoVisit /\ \A x \in Callers \ {c} : visit'[x] = visit[x] /\ call'[x] = call[x]
    BY <1>1 DEF BrowserInv
<1>9. VisitScoped(c)'
    BY <1>8 DEF VisitScoped, NoVisit
<1>10. \A x \in Callers : VisitScoped(x)'
    BY <1>1, <1>4, <1>8, <1>9, OthersStay
<1>11. QED
    BY <1>1, <1>3, <1>4, <1>5, <1>7, <1>10 DEF BrowserInv, Browsing, ServedIsScoped
\* Every route of the portals.
LEMMA RouteStepKeeps ==
    ASSUME PortalIInv, CompanyAssumption, NEW c \in Callers, RouteStep(c)
    PROVE  PortalIInv' /\ PruneStep
<1>0. StoreInv /\ BrowserInv /\ ServedIsScoped
    BY DEF PortalIInv
<1>1. ASSUME NEW u \in Users, NEW w \in 1 .. MaxPassword,
             InternalLogin(c, u, w) \/ \E e \in Companies : CompanyLogin(c, u, w, e)
      PROVE  PortalIInv' /\ PruneStep
  <2>1. w \in Nat /\ "company" \in Portals /\ "internal" \in Portals
    BY DEF Portals
  <2>2. \E p \in Portals : \E e : LoginTo(c, u, w, p, e)
    BY <1>1, <2>1 DEF InternalLogin, CompanyLogin
  <2>3. served' = served
    BY <2>2 DEF LoginTo
  <2>4. StoreInv' /\ BrowserInv' /\ PruneStep
    BY <1>0, <2>1, <2>2, LoginToKeeps
  <2>5. QED
    BY <1>0, <2>3, <2>4 DEF PortalIInv, ServedIsScoped
<1>2. CASE LoginDenied(c)
    BY <1>0, <1>2, LoginDeniedKeeps DEF LoginDenied, PortalIInv, ServedIsScoped
<1>3. CASE LoginGranted(c)
    BY <1>0, <1>3, LoginGrantedKeeps DEF LoginGranted, PortalIInv, ServedIsScoped
<1>4. CASE CompanyLogout(c) \/ InternalLogout(c)
  <2>1. \E p \in Portals : LogoutFrom(c, p)
    BY <1>4 DEF CompanyLogout, InternalLogout, Portals
  <2>2. QED
    BY <1>0, <2>1, LogoutFromKeeps DEF LogoutFrom, PortalIInv, ServedIsScoped
<1>5. CASE LogoutDone(c)
    BY <1>0, <1>5, LogoutDoneKeeps DEF LogoutDone, PortalIInv, ServedIsScoped
<1>6. ASSUME NEW p \in Portals,
             NEW page \in {"me", "data", "list"}, NEW need \in {"user", "company", "admin"},
             NEW e \in Companies \cup {Unknown}, NEW key \in Companies \cup {NoKey},
             page = "data" => need # "user",
             Open(c, page, need, p, e, key)
      PROVE  PortalIInv' /\ PruneStep
  <2>1. served' = {}
    BY <1>6 DEF Open
  <2>2. StoreInv' /\ BrowserInv' /\ PruneStep
    BY <1>0, <1>6, OpenKeeps
  <2>3. QED
    BY <2>1, <2>2 DEF PortalIInv, ServedIsScoped
<1>7. CASE CompanyCurrentUser(c) \/ InternalCurrentUser(c) \/ AdminCompanies(c)
    BY <1>6, <1>7 DEF CompanyCurrentUser, InternalCurrentUser, AdminCompanies, AdminPage, Portals
<1>8. ASSUME NEW e \in Companies, NEW key \in Companies \cup {NoKey},
             \/ CompanyDashboard(c, e, key) \/ CompanyQueries(c, e, key)
             \/ CompanyQueryFacets(c, e, key) \/ CompanyStatus(c, e, key)
      PROVE  PortalIInv' /\ PruneStep
    BY <1>6, <1>8 DEF CompanyDashboard, CompanyQueries, CompanyQueryFacets, CompanyStatus,
                      CompanyPage, Portals
<1>9. ASSUME NEW e \in Companies \cup {Unknown},
             AdminDashboard(c, e) \/ AdminQueries(c, e) \/ AdminQueryFacets(c, e)
      PROVE  PortalIInv' /\ PruneStep
    BY <1>6, <1>9 DEF AdminDashboard, AdminQueries, AdminQueryFacets, AdminPage, Portals
<1>10. CASE PageResolved(c)
    BY <1>0, <1>10, PageResolvedKeeps DEF PortalIInv
<1>11. CASE PageUnresolved(c)
    BY <1>0, <1>11, PageUnresolvedKeeps DEF PortalIInv
<1>12. CASE ReplyArrives(c)
    BY <1>0, <1>12, ReplyArrivesKeeps DEF PortalIInv
<1>13. QED
    BY <1>1, <1>2, <1>3, <1>4, <1>5, <1>7, <1>8, <1>9, <1>10, <1>11, <1>12 DEF RouteStep

\* The command line and time leave the browser alone and delete no row.
LEMMA AroundBrowser ==
    ASSUME PortalIInv, Tick \/ CommandLine, UNCHANGED <<mode, apiVars>>
    PROVE  PortalIInv' /\ PruneStep
<1>1. StoreInv /\ BrowserInv /\ ServedIsScoped /\ UNCHANGED <<mode, jar, visit, served>>
    BY DEF PortalIInv, apiVars
<1>2. StoreInv' /\ RowsStay /\ issued' = issued /\ call' = call
  <2>1. CASE Tick
    BY <1>1, <2>1, TickKeeps DEF Tick, RowsStay
  <2>2. CASE CommandLine
    BY <1>1, <2>2, CommandLineKeeps
  <2>3. QED
    BY <2>1, <2>2
<1>3. \A t, p : Scoped(t, p) => Scoped(t, p)'
    BY <1>1, <1>2, ScopedStays
<1>4. \A c \in Callers : VisitScoped(c)'
    BY <1>1, <1>2, <1>3 DEF BrowserInv, VisitScoped
<1>5. BrowserInv'
    BY <1>1, <1>3, <1>4 DEF BrowserInv, Browsing
<1>6. PruneStep
    BY <1>2 DEF RowsStay, PruneStep
<1>7. QED
    BY <1>1, <1>2, <1>5, <1>6 DEF PortalIInv, ServedIsScoped

\* Without a browser there is nothing on top of the store.
LEMMA StoreAlone ==
    ASSUME PortalIInv, ~Browsing, Next, UNCHANGED <<mode, apiVars>>
    PROVE  PortalIInv' /\ PruneStep
<1>1. StoreInv /\ BrowserInv /\ ServedIsScoped /\ UNCHANGED <<mode, jar, visit, served>>
    BY DEF PortalIInv, apiVars
<1>2. StoreInv' /\ PruneStep
    BY <1>1, NextKeeps
<1>3. /\ \A p \in Portals : jar[p] = NoToken
      /\ \A c \in Callers : visit[c] = NoVisit
    BY <1>1 DEF BrowserInv
<1>4. \A c \in Callers : VisitScoped(c)'
    BY <1>1, <1>3 DEF VisitScoped, NoVisit
<1>5. BrowserInv'
    BY <1>1, <1>3, <1>4 DEF BrowserInv, Browsing
<1>6. QED
    BY <1>1, <1>2, <1>5 DEF PortalIInv, ServedIsScoped

\* No account, no session and no cookie at the start.
LEMMA PortalInitIInv ==
    ASSUME PortalInit
    PROVE  PortalIInv
<1>1. /\ clock = 0 /\ issued = {} /\ served = {}
      /\ \A u \in Users : user[u] = NoUser /\ wrong[u] = 0
      /\ \A t \in Tokens : session[t] = NoSession
      /\ \A c \in Callers : call[c] = NoCall /\ visit[c] = NoVisit
      /\ \A p \in Portals : jar[p] = NoToken
    BY DEF PortalInit, Init
<1>2. TypeOK
  <2>1. NoCall \in Calls
    BY DEF NoCall, Calls
  <2>2. QED
    BY <2>1 DEF PortalInit, Init, TypeOK
<1>3. LiveSessionsAreCurrent /\ AbsoluteLimitHolds
    BY <1>1 DEF LiveSessionsAreCurrent, AbsoluteLimitHolds, Live
<1>4. ReadingsArePast
    BY <1>1 DEF ReadingsArePast, NoCall
<1>5. LocksMoveOn
  <2>1. NoUser.failed = 0 /\ NoUser.locked = 0
    BY DEF NoUser
  <2>2. QED
    BY <1>1, <2>1 DEF LocksMoveOn
<1>6. BrowserInv
    BY <1>1 DEF PortalInit, BrowserInv, Cookies, Visits, VisitScoped, NoVisit
<1>7. QED
    BY <1>1, <1>2, <1>3, <1>4, <1>5, <1>6 DEF PortalIInv, StoreInv, ServedIsScoped

\* Every step keeps the invariant and deletes only what nobody could use.
LEMMA PortalNextIInv ==
    ASSUME PortalIInv, [PortalNext]_portalVars
    PROVE  PortalIInv' /\ [PruneStep]_vars
<1>1. CASE UNCHANGED portalVars
    BY <1>1 DEF portalVars, apiVars, vars, PortalIInv, StoreInv, TypeOK, LiveSessionsAreCurrent,
                Live, AbsoluteLimitHolds, ReadingsArePast, LocksMoveOn, BrowserInv, VisitScoped,
                Scoped, Browsing, ServedIsScoped
<1>2. CASE PortalNext
    BY <1>2, CompanyAssumption, StoreAlone, AroundBrowser, RouteStepKeeps DEF PortalNext
<1>3. QED
    BY <1>1, <1>2

\* LocksMoveOn bounds the failures by the time that has passed.
LEMMA Throttled ==
    ASSUME StoreInv
    PROVE  GuessesAreThrottled
<1> SUFFICES ASSUME NEW u \in Users PROVE wrong[u] <= MaxAttempts + clock \div LockTime
    BY DEF GuessesAreThrottled
<1>1. /\ user[u].failed \in Nat /\ user[u].locked \in Nat /\ clock \in Nat
      /\ wrong[u] = user[u].failed /\ user[u].locked <= clock + LockTime
    BY AccountRow DEF StoreInv, TypeOK, LocksMoveOn
<1>2. CASE user[u].failed < MaxAttempts
  <2>1. clock \div LockTime \in Nat
    BY <1>1
  <2>2. QED
    BY <1>1, <1>2, <2>1
<1>3. CASE user[u].failed >= MaxAttempts
  <2>1. PICK k \in Nat : k = user[u].failed - MaxAttempts
    BY <1>1, <1>3
  <2>2. k * LockTime + LockTime <= user[u].locked
    BY <1>1, <1>3, <2>1 DEF StoreInv, LocksMoveOn
  <2>3. k * LockTime \in Nat
    BY <2>1
  <2>4. k * LockTime <= clock
    BY <1>1, <2>2, <2>3
  <2>5. k <= clock \div LockTime
    <3>1. k \in Int
      BY <2>1
    <3>2. QED
      BY <1>1, <2>4, <3>1, DivBound, Zenon
  <2>6. clock \div LockTime \in Int
    BY <1>1
  <2>7. QED
    BY <1>1, <2>1, <2>5, <2>6
<1>4. QED
    BY <1>1, <1>2, <1>3

-----------------------------------------------------------------------------
\* The inductive invariant of AnalyticsAuthStore and of the portals' routes.
THEOREM PortalInvariance == PortalSpec => []PortalIInv
BY PortalInitIInv, PortalNextIInv, PTL DEF PortalSpec

\* However the threads of the API and the command line interleave, for any
\* timeouts, attempts and lock time: a live session is of an active account with
\* the password in force, it never ends after its absolute limit, and wrong
\* passwords past the limit are counted one per lock time.
THEOREM SessionsHold == PortalSpec => []SessionInv
<1>1. PortalIInv => SessionInv
    BY Throttled DEF PortalIInv, StoreInv, SessionInv
<1>2. QED
    BY <1>1, PortalInvariance, PTL

\* prune_expired_sessions deletes no session that a request could still resolve,
\* although it decides with a reading of the clock from before its transaction.
THEOREM PruneIsSafe == PortalSpec => PruneKeepsUsable
<1>1. PortalIInv /\ [PortalNext]_portalVars =>
        [ \A t \in Tokens :
            session[t] # NoSession /\ session'[t] = NoSession =>
              session[t].revoked \/ session[t].idleEnd <= clock ]_vars
    BY PortalNextIInv DEF PruneStep
<1>2. QED
    BY <1>1, PortalInvariance, PTL DEF PortalSpec, PruneKeepsUsable

\* In whatever order replies reach the browser and accounts are changed: a portal's
\* cookie never holds the other portal's session, and figures go only to sessions of
\* their company, to its API key, or to administrators.
THEOREM PortalsAreScoped == PortalSpec => []AccessIsScoped
<1>1. PortalIInv => AccessIsScoped
    BY DEF PortalIInv, BrowserInv, Scoped, ServedIsScoped, AccessIsScoped, CookiesStayApart
<1>2. QED
    BY <1>1, PortalInvariance, PTL
-----------------------------------------------------------------------------
(***************************************************************************)
(* What the portals show (AnalyticsSnapshots), for any number of           *)
(* refreshes, records and API threads: the active version is whole, its    *)
(* run is recorded as complete, and both caches of the API hold only the   *)
(* version's own data for it.                                              *)
(*                                                                         *)
(* The caches are filled from statements that run after the key was read.  *)
(* RequestsMatch says what a request in between relies on: as long as its  *)
(* key is still the active snapshot, what it has read is that snapshot's.  *)
(***************************************************************************)

\* Only a run that has not ended can publish, so a version that was replaced is
\* never active again.
PublishedHasEnded == snapshot # NoRun => proc[snapshot] = "ended"

\* A request was answered, or started, for a version that was published.
KeysWerePublished ==
    /\ \A c \in Readers :
         /\ request[c].op = "lookup" => snapshot # NoRun
         /\ request[c].op \in {"lookup", "records"} => proc[request[c].key] = "ended"
         /\ request[c].op \in {"facets", "moreFacets"} => proc[request[c].version] = "ended"
    /\ \A r \in Runs : activity[r].cached \/ facets[r].cached => proc[r] = "ended"

\* What a request has read is right while its key is active.
RequestsMatch ==
    \A c \in Readers :
        /\ request[c].op = "records" /\ request[c].key = snapshot =>
               request[c].version = snapshot
        /\ request[c].op = "moreFacets" /\ request[c].version = snapshot =>
               request[c].first = loaded[snapshot]

\* What the proof carries from step to step.
SnapshotInv ==
    /\ SnapshotsTypeOK
    /\ ActiveVersionIsWhole
    /\ SnapshotRunIsComplete
    /\ PublishedHasEnded
    /\ KeysWerePublished
    /\ RequestsMatch
    /\ ActivityCacheIsCurrent
    /\ FacetCacheIsCurrent
-----------------------------------------------------------------------------
\* What a request in each state carries.
LEMMA RequestShapes ==
    ASSUME SnapshotsTypeOK, NEW c \in Readers
    PROVE  /\ request[c].op = "lookup" => request[c].key \in Runs
           /\ request[c].op = "records" => request[c].key \in Runs /\ request[c].version \in Runs
           /\ request[c].op \in {"facets", "moreFacets"} => request[c].version \in Runs
           /\ request[c].op = "moreFacets" => request[c].first \in SUBSET Records
BY DEF SnapshotsTypeOK, Requests, NoRequest

\* A cache entry is empty or holds a value of its type.
LEMMA EntryShapes ==
    ASSUME SnapshotsTypeOK, NEW r \in Runs
    PROVE  /\ activity[r] = NotCached \/ (activity[r].cached /\ activity[r].value \in SUBSET Records)
           /\ facets[r] = NotCached \/
                (facets[r].cached /\ facets[r].value \in (SUBSET Records) \X (SUBSET Records))
BY DEF SnapshotsTypeOK, Entries

\* The invariant holds in the initial states.
LEMMA InitSnapshot == SnapshotsInit => SnapshotInv
<1> SUFFICES ASSUME SnapshotsInit PROVE SnapshotInv
    OBVIOUS
<1>1. SnapshotsTypeOK
    BY DEF SnapshotsInit, SnapshotsTypeOK, Requests, Entries
<1>2. QED
    BY <1>1, RunAssumption
        DEF SnapshotsInit, SnapshotInv, ActiveVersionIsWhole, SnapshotRunIsComplete,
            PublishedHasEnded, KeysWerePublished, RequestsMatch, ActivityCacheIsCurrent,
            FacetCacheIsCurrent, NoRequest, NotCached

\* Every step keeps the types.
LEMMA NextType == SnapshotsTypeOK /\ KeysWerePublished /\ [SnapshotsNext]_snapshotVars => SnapshotsTypeOK'
<1> SUFFICES ASSUME SnapshotsTypeOK, KeysWerePublished, [SnapshotsNext]_snapshotVars PROVE SnapshotsTypeOK'
    OBVIOUS
<1> USE DEF SnapshotsTypeOK, refreshVars, readerVars, Entries
<1>1. ASSUME NEW x \in Records, Arrive(x) PROVE SnapshotsTypeOK'
    BY <1>1 DEF Arrive
<1>2. ASSUME NEW x \in Records, Leave(x) PROVE SnapshotsTypeOK'
    BY <1>2 DEF Leave
<1>3. ASSUME NEW r \in Runs, Start(r) PROVE SnapshotsTypeOK'
    BY <1>3 DEF Start, Reconciled
<1>4. ASSUME NEW r \in Runs, Skip(r) PROVE SnapshotsTypeOK'
    BY <1>4 DEF Skip
<1>5. ASSUME NEW r \in Runs, Begin(r) PROVE SnapshotsTypeOK'
    BY <1>5 DEF Begin
<1>6. ASSUME NEW r \in Runs, Load(r) PROVE SnapshotsTypeOK'
    BY <1>6 DEF Load
<1>7. ASSUME NEW r \in Runs, Raises(r) PROVE SnapshotsTypeOK'
    BY <1>7 DEF Raises
<1>8. ASSUME NEW r \in Runs, Fail(r) PROVE SnapshotsTypeOK'
    BY <1>8 DEF Fail
<1>9. ASSUME NEW r \in Runs, Publish(r) PROVE SnapshotsTypeOK'
    BY <1>9 DEF Publish, Published
<1>10. ASSUME NEW r \in Runs, Kill(r) PROVE SnapshotsTypeOK'
    BY <1>10 DEF Kill
<1>11. ASSUME NEW r \in Runs, Age(r) PROVE SnapshotsTypeOK'
    BY <1>11 DEF Age
<1>12. ASSUME NEW r \in Runs, EvictActivity(r) PROVE SnapshotsTypeOK'
    BY <1>12 DEF EvictActivity, NotCached
<1>13. ASSUME NEW c \in Readers, AskDashboard(c) PROVE SnapshotsTypeOK'
    BY <1>13 DEF AskDashboard, Continue, Requests
<1>14. ASSUME NEW c \in Readers, ActivityHit(c) PROVE SnapshotsTypeOK'
    BY <1>14 DEF ActivityHit, Continue, Requests, NoRequest
<1>15. ASSUME NEW c \in Readers, ActivityMiss(c) PROVE SnapshotsTypeOK'
  <2>1. request[c].key \in Runs /\ snapshot \in Runs
    BY <1>15, RequestShapes DEF ActivityMiss, KeysWerePublished
  <2>2. QED
    BY <1>15, <2>1 DEF ActivityMiss, Continue, Requests
<1>16. ASSUME NEW c \in Readers, ReadActivity(c) PROVE SnapshotsTypeOK'
    BY <1>16, RequestShapes DEF ReadActivity, CacheKey, Continue, Cached, Requests, NoRequest
<1>17. ASSUME NEW c \in Readers, FacetsHit(c) PROVE SnapshotsTypeOK'
  <2>1. snapshot \in Runs /\ facets[snapshot].cached
    BY <1>17 DEF FacetsHit
  <2>2. facets[snapshot].value \in (SUBSET Records) \X (SUBSET Records)
    <3>1. facets[snapshot] # NotCached
      BY <2>1 DEF NotCached
    <3>2. QED
      BY <2>1, <3>1, EntryShapes
  <2>3. facets[snapshot].value[1] \in SUBSET Records /\ facets[snapshot].value[2] \in SUBSET Records
    BY <2>2
  <2>4. request' \in [Readers -> Requests]
    BY <1>17, <2>1, <2>3 DEF FacetsHit, Continue, Requests
  <2>5. QED
    BY <1>17, <2>4 DEF FacetsHit
<1>18. ASSUME NEW c \in Readers, FacetsMiss(c) PROVE SnapshotsTypeOK'
    BY <1>18 DEF FacetsMiss, Continue, Requests
<1>19. ASSUME NEW c \in Readers, FirstFacets(c) PROVE SnapshotsTypeOK'
    BY <1>19, RequestShapes DEF FirstFacets, Continue, Requests
<1>20. ASSUME NEW c \in Readers, RestFacets(c) PROVE SnapshotsTypeOK'
    BY <1>20, RequestShapes DEF RestFacets, FacetKey, Continue, Cached, Requests
<1>21. ASSUME NEW c \in Readers, Answer(c) PROVE SnapshotsTypeOK'
    BY <1>21 DEF Answer, Continue, Requests, NoRequest
<1>22. CASE OpenStore
    BY <1>22 DEF OpenStore, Reconciled
<1>23. CASE ApiStart
    BY <1>23 DEF ApiStart, Reconciled, Requests, NoRequest
<1>24. CASE UNCHANGED snapshotVars
    BY <1>24 DEF snapshotVars
<1>25. QED
    BY <1>1, <1>2, <1>3, <1>4, <1>5, <1>6, <1>7, <1>8, <1>9, <1>10, <1>11, <1>12, <1>13, <1>14,
           <1>15, <1>16, <1>17, <1>18, <1>19, <1>20, <1>21, <1>22, <1>23, <1>24
        DEF SnapshotsNext, RefreshStep, ReaderStep

\* Every step keeps the rest.
LEMMA NextSnapshot == SnapshotInv /\ [SnapshotsNext]_snapshotVars => SnapshotInv'
<1> SUFFICES ASSUME SnapshotInv, [SnapshotsNext]_snapshotVars PROVE SnapshotInv'
    OBVIOUS
<1> DEFINE Rest == /\ ActiveVersionIsWhole /\ SnapshotRunIsComplete /\ PublishedHasEnded
                   /\ KeysWerePublished /\ RequestsMatch
                   /\ ActivityCacheIsCurrent /\ FacetCacheIsCurrent
<1>0. SnapshotsTypeOK /\ SnapshotsTypeOK' /\ Rest
    BY NextType DEF SnapshotInv
<1> USE RunAssumption DEF refreshVars, readerVars, ActiveVersionIsWhole, SnapshotRunIsComplete,
        PublishedHasEnded, KeysWerePublished, RequestsMatch, ActivityCacheIsCurrent,
        FacetCacheIsCurrent
<1>1. ASSUME NEW x \in Records, Arrive(x) PROVE Rest'
    BY <1>0, <1>1, RequestShapes DEF SnapshotsTypeOK, Arrive
<1>2. ASSUME NEW x \in Records, Leave(x) PROVE Rest'
    BY <1>0, <1>2, RequestShapes DEF SnapshotsTypeOK, Leave
<1>3. ASSUME NEW r \in Runs, Start(r) PROVE Rest'
    BY <1>0, <1>3, RequestShapes DEF SnapshotsTypeOK, Start, Reconciled, Stale
<1>4. ASSUME NEW r \in Runs, Skip(r) PROVE Rest'
    BY <1>0, <1>4, RequestShapes DEF SnapshotsTypeOK, Skip
<1>5. ASSUME NEW r \in Runs, Begin(r) PROVE Rest'
    BY <1>0, <1>5, RequestShapes DEF SnapshotsTypeOK, Begin
<1>6. ASSUME NEW r \in Runs, Load(r) PROVE Rest'
    BY <1>0, <1>6, RequestShapes DEF SnapshotsTypeOK, Load
<1>7. ASSUME NEW r \in Runs, Raises(r) PROVE Rest'
    BY <1>0, <1>7, RequestShapes DEF SnapshotsTypeOK, Raises
<1>8. ASSUME NEW r \in Runs, Fail(r) PROVE Rest'
    BY <1>0, <1>8, RequestShapes DEF SnapshotsTypeOK, Fail
<1>9. ASSUME NEW r \in Runs, Publish(r) PROVE Rest'
  <2>1. /\ proc[r] = "ready" /\ snapshot' = r /\ r # snapshot
        /\ \A q \in Runs : proc'[q] = IF q = r THEN "ended" ELSE proc[q]
        /\ UNCHANGED <<loaded, request, activity, facets>>
    BY <1>0, <1>9 DEF SnapshotsTypeOK, Publish
  <2>2. ActiveVersionIsWhole'
    BY <1>0, <1>9, <2>1 DEF SnapshotsTypeOK, Publish, Published
  <2>3. SnapshotRunIsComplete' /\ PublishedHasEnded'
    BY <1>0, <1>9 DEF SnapshotsTypeOK, Publish
  <2>4. KeysWerePublished'
    <3>1. ASSUME NEW c \in Readers
          PROVE  /\ request'[c].op = "lookup" => snapshot' # NoRun
                 /\ request'[c].op \in {"lookup", "records"} => proc'[request'[c].key] = "ended"
                 /\ request'[c].op \in {"facets", "moreFacets"} =>
                        proc'[request'[c].version] = "ended"
      BY <1>0, <2>1, RequestShapes
    <3>2. QED
      BY <1>0, <2>1, <3>1
  <2>5. RequestsMatch'
    <3>1. ASSUME NEW c \in Readers
          PROVE  /\ request'[c].op = "records" => request'[c].key # snapshot'
                 /\ request'[c].op = "moreFacets" => request'[c].version # snapshot'
      BY <1>0, <2>1
    <3>2. QED
      BY <3>1
  <2>6. ActivityCacheIsCurrent' /\ FacetCacheIsCurrent'
    BY <1>0, <2>1
  <2>7. QED
    BY <2>2, <2>3, <2>4, <2>5, <2>6
<1>10. ASSUME NEW r \in Runs, Kill(r) PROVE Rest'
    BY <1>0, <1>10, RequestShapes DEF SnapshotsTypeOK, Kill, Running
<1>11. ASSUME NEW r \in Runs, Age(r) PROVE Rest'
    BY <1>0, <1>11, RequestShapes DEF SnapshotsTypeOK, Age
<1>12. ASSUME NEW r \in Runs, EvictActivity(r) PROVE Rest'
    BY <1>0, <1>12, RequestShapes DEF SnapshotsTypeOK, EvictActivity, NotCached
<1>13. ASSUME NEW c \in Readers, AskDashboard(c) PROVE Rest'
    BY <1>0, <1>13, RequestShapes DEF SnapshotsTypeOK, AskDashboard, Continue
<1>14. ASSUME NEW c \in Readers, ActivityHit(c) PROVE Rest'
    BY <1>0, <1>14, RequestShapes DEF SnapshotsTypeOK, ActivityHit, Continue, NoRequest
<1>15. ASSUME NEW c \in Readers, ActivityMiss(c) PROVE Rest'
    BY <1>0, <1>15, RequestShapes DEF SnapshotsTypeOK, ActivityMiss, Continue
<1>16. ASSUME NEW c \in Readers, ReadActivity(c) PROVE Rest'
    BY <1>0, <1>16, RequestShapes
        DEF SnapshotsTypeOK, ReadActivity, CacheKey, Continue, Cached, NoRequest
<1>17. ASSUME NEW c \in Readers, FacetsHit(c) PROVE Rest'
    BY <1>0, <1>17, RequestShapes DEF SnapshotsTypeOK, FacetsHit, Continue
<1>18. ASSUME NEW c \in Readers, FacetsMiss(c) PROVE Rest'
    BY <1>0, <1>18, RequestShapes DEF SnapshotsTypeOK, FacetsMiss, Continue
<1>19. ASSUME NEW c \in Readers, FirstFacets(c) PROVE Rest'
  <2>1. /\ request'[c].op = "moreFacets" /\ request'[c].version = request[c].version
        /\ request'[c].first = rows[request[c].version]
        /\ request[c].op = "facets" /\ request[c].version \in Runs
    BY <1>0, <1>19, RequestShapes DEF SnapshotsTypeOK, FirstFacets, Continue
  <2>2. \A d \in Readers \ {c} : request'[d] = request[d]
    BY <1>0, <1>19 DEF SnapshotsTypeOK, FirstFacets, Continue
  <2>3. KeysWerePublished'
    BY <1>0, <1>19, <2>1, <2>2 DEF FirstFacets
  <2>4. RequestsMatch'
    BY <1>0, <1>19, <2>1, <2>2 DEF FirstFacets
  <2>5. QED
    BY <1>0, <1>19, <2>3, <2>4 DEF FirstFacets
<1>20. ASSUME NEW c \in Readers, RestFacets(c) PROVE Rest'
    BY <1>0, <1>20, RequestShapes DEF SnapshotsTypeOK, RestFacets, FacetKey, Continue, Cached
<1>21. ASSUME NEW c \in Readers, Answer(c) PROVE Rest'
    BY <1>0, <1>21, RequestShapes DEF SnapshotsTypeOK, Answer, Continue, NoRequest
<1>22. ASSUME OpenStore PROVE Rest'
    BY <1>0, <1>22 DEF SnapshotsTypeOK, OpenStore, Reconciled, Stale
<1>23. ASSUME ApiStart PROVE Rest'
    BY <1>0, <1>23 DEF SnapshotsTypeOK, ApiStart, Reconciled, Stale, NoRequest, NotCached
<1>24. ASSUME UNCHANGED snapshotVars PROVE Rest'
    BY <1>0, <1>24 DEF snapshotVars
<1>25. Rest'
    BY <1>1, <1>2, <1>3, <1>4, <1>5, <1>6, <1>7, <1>8, <1>9, <1>10, <1>11, <1>12, <1>13, <1>14,
           <1>15, <1>16, <1>17, <1>18, <1>19, <1>20, <1>21, <1>22, <1>23, <1>24
        DEF SnapshotsNext, RefreshStep, ReaderStep
<1>26. QED
    BY <1>0, <1>25 DEF SnapshotInv

\* SnapshotInv is an invariant of the specification.
THEOREM SnapshotInvariance == SnapshotsSpec => []SnapshotInv
BY InitSnapshot, NextSnapshot, PTL DEF SnapshotsSpec

\* In every run of any refreshes, overlapping, failing or killed, the active
\* version has all of its records and no other version has any.
THEOREM ActiveVersionWhole == SnapshotsSpec => []ActiveVersionIsWhole
<1>1. SnapshotInv => ActiveVersionIsWhole
    BY DEF SnapshotInv
<1>2. QED
    BY SnapshotInvariance, <1>1, PTL

\* What the API has cached for the active snapshot is that snapshot's own, for
\* any number of requests that were under way while it was published.
THEOREM CachesAreCurrent == SnapshotsSpec => []CachedIsCurrent
<1>1. SnapshotInv => CachedIsCurrent
    BY DEF SnapshotInv, CachedIsCurrent
<1>2. QED
    BY SnapshotInvariance, <1>1, PTL

\* The three together, as the run checks them: what the portals show comes from
\* one whole and completed refresh.
THEOREM SnapshotSound == SnapshotsSpec => []SnapshotIsSound
<1>1. SnapshotInv => SnapshotIsSound
    BY DEF SnapshotInv, SnapshotIsSound, CachedIsCurrent
<1>2. QED
    BY SnapshotInvariance, <1>1, PTL

-----------------------------------------------------------------------------
(* The order of the snapshots. *)

\* The lock of the scripts lets one scheduled refresh run.
OneScheduledRuns ==
    \A q, r \in Runs \ Manual : Running(q) /\ Running(r) => q = r

\* What a scheduled refresh has loaded from is still active, or a refresh by
\* hand came between.
ReadyHasSeen ==
    \A r \in Runs \ Manual : proc[r] = "ready" => base[r] = snapshot \/ snapshot \in Manual

\* The inductive invariant behind NewerReplacesOlder.
OrderInv == SnapshotsTypeOK /\ OneScheduledRuns /\ ReadyHasSeen

\* Every step of another kind leaves the refresh processes alone.
LEMMA OthersAreApart ==
    ASSUME SnapshotsNext \/ UNCHANGED snapshotVars, ~\E r \in Runs : RefreshStep(r)
    PROVE  UNCHANGED <<proc, base, snapshot>>
  <1> USE DEF refreshVars, readerVars
  <1>1. ASSUME NEW c \in Readers, ReaderStep(c)
        PROVE  UNCHANGED <<proc, base, snapshot>>
    BY <1>1 DEF ReaderStep, AskDashboard, ActivityHit, ActivityMiss, ReadActivity, FacetsHit,
                FacetsMiss, FirstFacets, RestFacets, Answer
  <1> QED BY <1>1
      DEF SnapshotsNext, Arrive, Leave, EvictActivity, OpenStore, ApiStart, snapshotVars

\* A refresh starts under the lock, reads what is active, and publishes before
\* another scheduled one can start.
LEMMA NextOrder ==
    ASSUME OrderInv, SnapshotsTypeOK', [SnapshotsNext]_snapshotVars
    PROVE  /\ OrderInv'
           /\ snapshot' # snapshot =>
                base[snapshot'] = snapshot \/ snapshot \in Manual \/ snapshot' \in Manual
  <1> USE DEF OrderInv, OneScheduledRuns, ReadyHasSeen, Running, SnapshotsTypeOK
  <1>1. CASE ~\E r \in Runs : RefreshStep(r)
    <2>1. UNCHANGED <<proc, base, snapshot>>
      BY <1>1, OthersAreApart
    <2> QED BY <2>1
  <1>2. ASSUME NEW r \in Runs, Start(r)
        PROVE  OrderInv' /\ UNCHANGED snapshot
    BY <1>2 DEF Start, MayStart
  <1>3. ASSUME NEW r \in Runs, Skip(r) \/ Begin(r) \/ Raises(r) \/ Fail(r) \/ Kill(r) \/ Age(r)
        PROVE  OrderInv' /\ UNCHANGED snapshot
    <2>1. /\ UNCHANGED <<base, snapshot>>
          /\ \A q \in Runs : proc'[q] = "ready" => proc[q] = "ready"
          /\ \A q \in Runs : Running(q)' => Running(q)
      BY <1>3 DEF Skip, Begin, Raises, Fail, Kill, Age
    <2> QED BY <2>1
  <1>4. ASSUME NEW r \in Runs, Load(r)
        PROVE  OrderInv' /\ UNCHANGED snapshot
    BY <1>4 DEF Load
  <1>5. ASSUME NEW r \in Runs, Publish(r)
        PROVE  /\ OrderInv' /\ snapshot' = r
               /\ base[r] = snapshot \/ snapshot \in Manual \/ r \in Manual
    <2>1. /\ proc[r] = "ready" /\ proc' = [proc EXCEPT ![r] = "ended"]
          /\ snapshot' = r /\ UNCHANGED base
      BY <1>5 DEF Publish
    <2>2. OneScheduledRuns'
      BY <2>1
    <2>3. ReadyHasSeen'
      <3>1. CASE r \in Manual
        BY <2>1, <3>1
      <3>2. CASE r \notin Manual
        <4>1. \A q \in Runs \ Manual : q # r => proc'[q] # "ready"
          BY <2>1, <3>2
        <4> QED BY <2>1, <4>1
      <3> QED BY <3>1, <3>2
    <2> QED BY <2>1, <2>2, <2>3
  <1>6. CASE \E r \in Runs : RefreshStep(r)
    <2>1. PICK r \in Runs : RefreshStep(r)
      BY <1>6
    <2>2. CASE Publish(r)
      BY <1>5, <2>2
    <2>3. CASE ~Publish(r)
      <3> HIDE DEF OrderInv
      <3>1. OrderInv' /\ UNCHANGED snapshot
        BY <1>2, <1>3, <1>4, <2>1, <2>3 DEF RefreshStep
      <3> QED BY <3>1
    <2> QED BY <2>2, <2>3
  <1> QED BY <1>1, <1>6

\* publish under the scripts' lock: whatever is killed, fails or is given up, a
\* scheduled refresh replaces only the snapshot that was active when it read the
\* source, unless one of the two was started by hand.
THEOREM OrderHolds == SnapshotsSpec => NewerReplacesOlder
  <1>1. SnapshotsInit => OrderInv
    BY InitSnapshot
        DEF OrderInv, SnapshotInv, SnapshotsInit, OneScheduledRuns, ReadyHasSeen, Running
  <1>2. SnapshotInv /\ SnapshotInv' /\ OrderInv /\ [SnapshotsNext]_snapshotVars =>
          /\ OrderInv'
          /\ [ snapshot' # snapshot => \/ base[snapshot'] = snapshot
                                       \/ snapshot \in Manual
                                       \/ snapshot' \in Manual ]_snapshotVars
    BY NextOrder DEF SnapshotInv
  <1> QED BY SnapshotInvariance, <1>1, <1>2, PTL DEF SnapshotsSpec, NewerReplacesOlder

-----------------------------------------------------------------------------
(***************************************************************************)
(* The pages of the query explorer.  A client on its way has been shown    *)
(* what stayed in the snapshots before its cursor, once, and nothing       *)
(* behind it; a page takes the first records behind the cursor.            *)
(***************************************************************************)

\* A nonempty set of numbers has a least one.
LEMMA LeastOf ==
    ASSUME NEW P, P \subseteq Nat, P # {}
    PROVE  \E n \in P : \A m \in P : n <= m
<1> DEFINE less == OpToRel(<, Nat)
<1>1. IsWellFoundedOn(less, Nat)
    BY NatLessThanWellFounded
<1>2. \A x, y \in Nat : <<y, x>> \in less <=> y < x
    BY DEF OpToRel
<1> HIDE DEF less
<1>3. PICK x \in P : \A y \in P : <<y, x>> \notin less
    BY <1>1, WFMin
<1>4. x \in Nat /\ \A y \in P : y \in Nat /\ ~(y < x)
    BY <1>2, <1>3
<1>5. QED
    BY <1>4

\* The elements of a set, from the greatest to the least.
Descends(s, S, n) ==
    /\ s \in [1 .. n -> S]
    /\ \A i, j \in 1 .. n : i < j => s[i] > s[j]
    /\ \A x \in S : \E i \in 1 .. n : s[i] = x

\* Finitely many numbers can be put in that order.
LEMMA DescendingExists ==
    ASSUME NEW S, S \subseteq Nat, IsFiniteSet(S)
    PROVE  \E s : Descends(s, S, Cardinality(S))
<1> DEFINE Fails(R) == R \subseteq Nat /\ IsFiniteSet(R) /\ ~\E s : Descends(s, R, Cardinality(R))
           Bad == {n \in Nat : \E R \in SUBSET Nat : Fails(R) /\ Cardinality(R) = n}
<1>1. SUFFICES ASSUME Bad # {} PROVE FALSE
  <2>1. Cardinality(S) \in Nat
    BY FS_CardinalityType
  <2>2. QED
    BY <2>1
<1> HIDE DEF Bad
<1>2. PICK n \in Bad : \A m \in Bad : n <= m
  <2>1. Bad \subseteq Nat
    BY DEF Bad
  <2>2. QED
    BY <1>1, <2>1, LeastOf
<1>3. PICK R \in SUBSET Nat : Fails(R) /\ Cardinality(R) = n
    BY <1>2 DEF Bad
<1>4. n \in Nat /\ IsFiniteSet(R)
    BY <1>2, <1>3 DEF Bad
<1>5. CASE R = {}
  <2>1. n = 0
    BY <1>3, <1>5, FS_EmptySet
  <2>2. Descends([i \in 1 .. 0 |-> 0], R, 0)
    BY <1>5 DEF Descends
  <2>3. QED
    BY <1>3, <2>1, <2>2
<1>6. CASE R # {}
  <2>1. PICK x \in R : \A y \in R : x <= y
    BY <1>3, <1>6, LeastOf
  <2>2. IsFiniteSet(R \ {x}) /\ Cardinality(R \ {x}) = n - 1 /\ n - 1 \in Nat
    <3>1. IsFiniteSet(R \ {x}) /\ Cardinality(R \ {x}) = n - 1
      BY <1>3, <1>4, <2>1, FS_RemoveElement
    <3>2. QED
      BY <3>1, FS_CardinalityType
  <2>3. ~Fails(R \ {x})
    <3> HIDE DEF Fails
    <3>1. n - 1 \notin Bad
      BY <1>2, <1>4, <2>2
    <3>2. R \ {x} \in SUBSET Nat
      OBVIOUS
    <3>3. QED
      BY <2>2, <3>1, <3>2 DEF Bad
  <2>4. PICK g : Descends(g, R \ {x}, n - 1)
    BY <2>2, <2>3
  <2> DEFINE s == [i \in 1 .. n |-> IF i = n THEN x ELSE g[i]]
  <2>5. \A i \in 1 .. n : i # n => i \in 1 .. (n - 1) /\ g[i] \in R /\ g[i] # x
    BY <1>4, <2>2, <2>4 DEF Descends
  <2>6. s \in [1 .. n -> R]
    BY <2>1, <2>5
  <2>7. ASSUME NEW i \in 1 .. n, NEW j \in 1 .. n, i < j PROVE s[i] > s[j]
    <3>1. i # n /\ i \in 1 .. (n - 1) /\ g[i] \in R /\ g[i] # x /\ s[i] = g[i]
      BY <1>4, <2>5, <2>7
    <3>2. CASE j = n
      <4>1. s[j] = x
        BY <3>2
      <4>2. x \in Nat /\ g[i] \in Nat /\ x <= g[i] /\ g[i] # x
        BY <2>1, <3>1
      <4>3. g[i] > x
        BY <4>2
      <4>4. QED
        BY <3>1, <4>1, <4>3
    <3>3. CASE j # n
      BY <2>4, <2>5, <2>7, <3>1, <3>3 DEF Descends
    <3>4. QED
      BY <3>2, <3>3
  <2>8. ASSUME NEW y \in R PROVE \E i \in 1 .. n : s[i] = y
    <3>1. CASE y = x
      <4>1. n \in 1 .. n
        BY <1>4, <2>2
      <4>2. QED
        BY <3>1, <4>1
    <3>2. CASE y # x
      <4>1. PICK i \in 1 .. (n - 1) : g[i] = y
        BY <2>4, <3>2 DEF Descends
      <4>2. i \in 1 .. n /\ i # n
        BY <1>4, <2>2
      <4>3. QED
        BY <4>1, <4>2
    <3>3. QED
      BY <3>1, <3>2
  <2> HIDE DEF s
  <2>9. Descends(s, R, n)
    BY <2>6, <2>7, <2>8 DEF Descends
  <2>10. QED
    BY <1>3, <2>9
<1>7. QED
    BY <1>5, <1>6

\* By the default order, the records of a snapshot are sorted like that.
LEMMA SortedDescends ==
    ASSUME Default, NEW S \in SUBSET Records
    PROVE  /\ Cardinality(S) \in Nat
           /\ Descends(Sorted(S), S, Cardinality(S))
<1> DEFINE n == Cardinality(S)
           InOrder(s) == \A i, j \in 1 .. n : i < j => Before(s[i], s[j])
<1>1. IsFiniteSet(S) /\ S \subseteq Nat
    BY RecordAssumption, FS_Subset
<1>2. n \in Nat
    BY <1>1, FS_CardinalityType
<1>3. PICK s : Descends(s, S, n)
    BY <1>1, DescendingExists
<1> HIDE DEF n
<1>4. s \in Bijection(1 .. n, S)
  <2>1. s \in [1 .. n -> S] /\ \A x \in S : \E i \in 1 .. n : s[i] = x
    BY <1>3 DEF Descends
  <2>2. \A i, j \in 1 .. n : s[i] = s[j] => i = j
    <3>1. SUFFICES ASSUME NEW i \in 1 .. n, NEW j \in 1 .. n, s[i] = s[j], i # j PROVE FALSE
      OBVIOUS
    <3>2. i < j \/ j < i
      BY <1>2, <3>1
    <3>3. s[i] \in Nat /\ s[j] \in Nat
      BY <1>1, <2>1
    <3>4. s[i] > s[j] \/ s[j] > s[i]
      BY <1>3, <3>2 DEF Descends
    <3>5. QED
      BY <3>1, <3>3, <3>4
  <2>3. QED
    BY <2>1, <2>2 DEF Bijection, Injection, Surjection, IsInjective
<1>5. InOrder(s)
    BY <1>3 DEF Descends, Before
<1>6. Sorted(S) = CHOOSE f \in Bijection(1 .. n, S) : InOrder(f)
    BY DEF Sorted, n
<1>7. PICK f \in Bijection(1 .. n, S) : f = Sorted(S) /\ InOrder(f)
  <2> HIDE DEF InOrder
  <2>1. QED
    BY <1>4, <1>5, <1>6
<1>8. f \in [1 .. n -> S] /\ \A x \in S : \E i \in 1 .. n : f[i] = x
    BY DEF Bijection, Injection, Surjection
<1>9. \A i, j \in 1 .. n : i < j => f[i] > f[j]
    BY <1>7 DEF Before
<1>10. Descends(f, S, n)
    BY <1>8, <1>9 DEF Descends
<1>11. QED
    BY <1>2, <1>7, <1>10 DEF n

\* What a client has been shown: every record once at most, and each record that
\* stayed if it is before the cursor, none behind it.
ShownSoFar ==
    /\ \A x \in Records : shown[x] <= 1
    /\ walk.state \in {"none", "new"} => \A x \in Records : shown[x] = 0
    /\ walk.state = "reading" =>
         /\ snapshot # NoRun /\ kept \subseteq rows[snapshot]
         /\ \A x \in Records : x < walk.cursor => shown[x] = 0
         /\ \A x \in kept : x >= walk.cursor => shown[x] = 1
    /\ walk.state = "ended" => \A x \in kept : shown[x] = 1

\* The inductive invariant of the pages.
PagesInv == SnapshotInv /\ PageTypeOK /\ ShownSoFar

\* What a page's statement selects by the default order.
Behind == {x \in rows[snapshot] : After(x)}

\* What a page selects is behind the cursor it was asked with.
LEMMA SelectedIsBehind ==
    ASSUME Default, PagesInv, snapshot # NoRun
    PROVE  /\ Behind \subseteq Records
           /\ Len(Selected) \in Nat /\ Descends(Selected, Behind, Len(Selected))
<1>1. Behind \in SUBSET Records
    BY DEF Behind, PagesInv, SnapshotInv, SnapshotsTypeOK
<1>2. PICK n, s : n = Cardinality(Behind) /\ s = Sorted(Behind)
    OBVIOUS
<1>3. n \in Nat /\ Descends(s, Behind, n)
    BY <1>1, <1>2, SortedDescends
<1>4. s \in Seq(Behind) /\ Len(s) = n
    BY <1>3 DEF Descends
<1>5. Selected = SubSeq(s, 1, Len(s))
    BY <1>2 DEF Selected, Behind
<1>6. SubSeq(s, 1, Len(s)) = s
    BY <1>4
<1>7. QED
    BY <1>1, <1>3, <1>4, <1>5, <1>6

\* A page shows the first records behind the cursor.
Visible == {Selected[i] : i \in 1 .. (IF Len(Selected) > Limit THEN Limit ELSE Len(Selected))}

\* The last page shows all that is left.
LEMMA LastPage ==
    ASSUME Default, PagesInv, snapshot # NoRun, Page, ~(Len(Selected) > Limit)
    PROVE  PageTypeOK' /\ ShownSoFar'
<1>1. /\ walk.state \in {"new", "reading"}
      /\ shown' = [x \in Records |-> IF x \in Visible THEN shown[x] + 1 ELSE shown[x]]
      /\ walk' = [state |-> "ended", cursor |-> NoCursor]
      /\ kept' = IF walk.state = "new" THEN rows[snapshot] ELSE kept
    BY DEF Page, Visible
<1>2. Visible = Behind
    BY SelectedIsBehind DEF Visible, Descends
<1>3. /\ shown \in [Records -> Nat] /\ kept \subseteq Records /\ rows[snapshot] \subseteq Records
      /\ walk.state = "new" => walk.cursor = NoCursor
      /\ walk.state = "reading" => walk.cursor \in Nat \ {NoCursor}
    BY <1>1 DEF PagesInv, PageTypeOK, SnapshotInv, SnapshotsTypeOK
<1>4. PageTypeOK'
    BY <1>1, <1>3 DEF PageTypeOK
<1>5. ASSUME NEW x \in Records PROVE shown'[x] <= 1
    BY <1>1, <1>2, <1>3 DEF PagesInv, ShownSoFar, Behind, After
<1>6. ASSUME NEW x \in kept' PROVE shown'[x] = 1
  <2>1. x \in Records /\ x \in Nat
    BY <1>1, <1>3, <1>6, RecordAssumption
  <2>2. CASE walk.state = "new"
    BY <1>1, <1>2, <1>3, <1>6, <2>1, <2>2 DEF PagesInv, ShownSoFar, Behind, After
  <2>3. CASE walk.state = "reading"
    BY <1>1, <1>2, <1>3, <1>6, <2>1, <2>3 DEF PagesInv, ShownSoFar, Behind, After
  <2>4. QED
    BY <1>1, <2>2, <2>3
<1>7. QED
    BY <1>1, <1>4, <1>5, <1>6 DEF ShownSoFar

\* Any other page ends with the cursor: it shows what is behind the old cursor
\* and not behind the new one.
LEMMA NextPage ==
    ASSUME Default, PagesInv, snapshot # NoRun, Page, Len(Selected) > Limit
    PROVE  PageTypeOK' /\ ShownSoFar'
<1> DEFINE c == Selected[Limit]
<1>1. /\ walk.state \in {"new", "reading"}
      /\ shown' = [x \in Records |-> IF x \in Visible THEN shown[x] + 1 ELSE shown[x]]
      /\ walk' = [state |-> "reading", cursor |-> c]
      /\ kept' = IF walk.state = "new" THEN rows[snapshot] ELSE kept
      /\ UNCHANGED snapshotVars
    BY DEF Page, Visible, NextCursor
<1>2. /\ shown \in [Records -> Nat] /\ kept \subseteq Records /\ rows[snapshot] \subseteq Records
      /\ walk.state = "new" => walk.cursor = NoCursor
      /\ walk.state = "reading" => walk.cursor \in Nat \ {NoCursor}
    BY <1>1 DEF PagesInv, PageTypeOK, SnapshotInv, SnapshotsTypeOK
<1>3. PICK n, s : n = Len(Selected) /\ s = Selected
    OBVIOUS
<1>4. n \in Nat /\ n > Limit /\ Limit \in 1 .. n /\ Limit + 1 \in 1 .. n
    BY <1>3, SelectedIsBehind, LimitAssumption
<1>5. /\ Behind \subseteq Records /\ s \in [1 .. n -> Behind]
      /\ \A i, j \in 1 .. n : i < j => s[i] > s[j]
      /\ \A x \in Behind : \E i \in 1 .. n : s[i] = x
    BY <1>3, SelectedIsBehind DEF Descends
<1>6. \A i \in 1 .. n : s[i] \in Nat
    BY <1>5, RecordAssumption
<1>7. c = s[Limit]
    BY <1>3
<1> HIDE DEF c
<1>8. c \in Nat /\ c # NoCursor /\ c \in Behind
  <2>1. s[Limit] > s[Limit + 1]
    BY <1>4, <1>5, LimitAssumption
  <2>2. QED
    BY <1>4, <1>5, <1>6, <1>7, <2>1 DEF NoCursor
<1>9. \A x \in Records : x \in Visible <=> x \in Behind /\ x >= c
  <2>1. SUFFICES ASSUME NEW x \in Records PROVE x \in Visible <=> x \in Behind /\ x >= c
    OBVIOUS
  <2>2. Visible = {s[i] : i \in 1 .. Limit}
    BY <1>3, <1>4 DEF Visible
  <2>3. ASSUME x \in Visible PROVE x \in Behind /\ x >= c
    <3>1. PICK i \in 1 .. Limit : s[i] = x
      BY <2>2, <2>3
    <3>2. i \in 1 .. n /\ (i = Limit \/ i < Limit)
      BY <1>4, <3>1, LimitAssumption
    <3>3. i < Limit => s[i] > s[Limit]
      BY <1>4, <1>5, <3>2
    <3>4. s[i] \in Nat /\ s[Limit] \in Nat /\ s[i] \in Behind
      BY <1>4, <1>5, <1>6, <3>2
    <3>5. s[i] >= s[Limit]
      BY <3>2, <3>3, <3>4
    <3>6. QED
      BY <1>7, <3>1, <3>4, <3>5
  <2>4. ASSUME x \in Behind, x >= c PROVE x \in Visible
    <3>1. PICK i \in 1 .. n : s[i] = x
      BY <1>5, <2>4
    <3>2. Limit < i => s[Limit] > s[i]
      BY <1>4, <1>5
    <3>3. ~(Limit < i)
      BY <1>4, <1>6, <1>7, <2>4, <3>1, <3>2
    <3>4. i \in 1 .. Limit
      BY <1>4, <3>3
    <3>5. QED
      BY <2>2, <3>1, <3>4
  <2>5. QED
    BY <2>3, <2>4
<1>10. PageTypeOK'
    BY <1>1, <1>2, <1>8 DEF PageTypeOK
<1>11. ASSUME NEW x \in Records PROVE shown'[x] <= 1
    BY <1>1, <1>2, <1>9 DEF PagesInv, ShownSoFar, Behind, After
<1>12. ASSUME NEW x \in Records, x < c PROVE shown'[x] = 0
  <2>1. x \in Nat /\ x \notin Visible
    BY <1>8, <1>9, <1>12, RecordAssumption
  <2>2. walk.state = "reading" => x < walk.cursor
    BY <1>2, <1>8, <1>12, <2>1 DEF Behind, After
  <2>3. QED
    BY <1>1, <1>2, <2>1, <2>2 DEF PagesInv, ShownSoFar
<1>13. ASSUME NEW x \in kept', x >= c PROVE shown'[x] = 1
  <2>1. x \in Records /\ x \in Nat /\ x \in rows[snapshot]
    BY <1>1, <1>2, <1>13, RecordAssumption DEF PagesInv, ShownSoFar
  <2>2. CASE x \in Behind
    BY <1>1, <1>2, <1>9, <1>13, <2>1, <2>2 DEF PagesInv, ShownSoFar, Behind, After
  <2>3. CASE x \notin Behind
    <3>1. walk.state = "reading" /\ ~(x < walk.cursor)
      BY <1>1, <1>2, <2>1, <2>3 DEF Behind, After
    <3>2. shown[x] = 1
      BY <1>1, <1>2, <1>13, <2>1, <3>1 DEF PagesInv, ShownSoFar
    <3>3. QED
      BY <1>1, <1>9, <2>1, <2>3, <3>2
  <2>4. QED
    BY <2>2, <2>3
<1>14. snapshot' # NoRun /\ kept' \subseteq rows'[snapshot']
    BY <1>1 DEF PagesInv, ShownSoFar, snapshotVars, refreshVars
<1>15. QED
    BY <1>1, <1>10, <1>11, <1>12, <1>13, <1>14 DEF ShownSoFar

\* A refresh replaces the snapshot at once, or leaves its records alone.
LEMMA ActiveRowsStay ==
    ASSUME SnapshotInv, [SnapshotsNext]_snapshotVars, snapshot # NoRun
    PROVE  /\ snapshot' # NoRun
           /\ snapshot' = snapshot => rows'[snapshot] = rows[snapshot]
           /\ rows' \in [Runs -> SUBSET Records]
<1>1. rows' \in [Runs -> SUBSET Records]
    BY NextSnapshot DEF SnapshotInv, SnapshotsTypeOK
<1>2. CASE UNCHANGED <<rows, snapshot>>
    BY <1>1, <1>2
<1>3. ASSUME NEW r \in Runs, Publish(r)
      PROVE  snapshot' # NoRun /\ snapshot' # snapshot
    BY <1>3, RunAssumption DEF Publish, SnapshotInv, PublishedHasEnded
<1>4. (\E r \in Runs : Publish(r)) \/ UNCHANGED <<rows, snapshot>>
    BY DEF SnapshotsNext, RefreshStep, ReaderStep, Arrive, Leave, Start, Skip, Begin, Load, Raises,
           Fail, Kill, Age, OpenStore, ApiStart, AskDashboard, ActivityHit, ActivityMiss,
           ReadActivity, EvictActivity, FacetsHit, FacetsMiss, FirstFacets, RestFacets, Answer,
           snapshotVars, refreshVars
<1>5. QED
    BY <1>1, <1>2, <1>3, <1>4

\* What happens elsewhere takes nothing away that stayed.
LEMMA ElsewhereKeeps ==
    ASSUME PagesInv, Elsewhere
    PROVE  PageTypeOK' /\ ShownSoFar'
<1>1. /\ SnapshotsNext /\ UNCHANGED <<walk, shown>>
      /\ kept' = IF snapshot' # snapshot /\ walk.state = "reading"
                 THEN kept \cap rows'[snapshot'] ELSE kept
    BY DEF Elsewhere
<1>2. kept' \subseteq kept
    BY <1>1
<1>3. PageTypeOK'
    BY <1>1, <1>2 DEF PagesInv, PageTypeOK
<1>4. walk.state = "reading" => snapshot' # NoRun /\ kept' \subseteq rows'[snapshot']
    BY <1>1, ActiveRowsStay DEF PagesInv, ShownSoFar
<1>5. QED
    BY <1>1, <1>2, <1>3, <1>4 DEF PagesInv, ShownSoFar

\* A page, a refresh or a look at the snapshot keeps what the client was shown.
LEMMA PagesNext ==
    ASSUME Default, PagesInv, [PageNext]_allVars
    PROVE  PagesInv'
<1>1. SnapshotInv'
  <2>1. [SnapshotsNext]_snapshotVars
    BY DEF PageNext, GetQueries, Page, Elsewhere, allVars
  <2>2. QED
    BY <2>1, NextSnapshot DEF PagesInv
<1>2. CASE GetQueries
    BY <1>1, <1>2, LastPage, NextPage DEF GetQueries, HasSnapshot, PagesInv
<1>3. CASE Elsewhere
    BY <1>1, <1>3, ElsewhereKeeps DEF PagesInv
<1>4. CASE UNCHANGED allVars
  <2>1. PageTypeOK' /\ ShownSoFar'
    BY <1>4 DEF allVars, pageVars, snapshotVars, refreshVars, PagesInv, PageTypeOK, ShownSoFar
  <2>2. QED
    BY <1>1, <2>1 DEF PagesInv
<1>5. QED
    BY <1>2, <1>3, <1>4 DEF PageNext

\* A client that has seen no page was shown nothing.
LEMMA PagesStart == PageInit => PagesInv
<1> SUFFICES ASSUME PageInit PROVE PagesInv
    OBVIOUS
<1>1. SnapshotInv
    BY InitSnapshot DEF PageInit
<1>2. PageTypeOK /\ ShownSoFar
    BY DEF PageInit, PageTypeOK, ShownSoFar
<1>3. QED
    BY <1>1, <1>2 DEF PagesInv

\* By the default order, a client that follows next_cursor to the end gets every
\* record that stayed in the snapshots meanwhile exactly once and none twice,
\* however refreshes overlap, for any records and any page size (query_records).
THEOREM PagesHold ==
    ASSUME Default
    PROVE  PageSpec => []PagesAreStable
<1>1. PagesInv /\ [PageNext]_allVars => PagesInv'
    BY PagesNext
<1>2. PagesInv => PagesAreStable
    BY DEF PagesInv, ShownSoFar, PagesAreStable
<1>3. QED
    BY <1>1, <1>2, PagesStart, PTL DEF PageSpec
=============================================================================
