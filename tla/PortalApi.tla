----------------------------- MODULE PortalApi ------------------------------
(***************************************************************************)
(* The routes of the analytics portals (analytics_service/api.py) over the *)
(* session store: a browser that holds one cookie for each portal, logs    *)
(* in, opens pages of the company and of the internal portal and logs out, *)
(* in several tabs; and clients with an API key instead of a cookie.       *)
(*                                                                         *)
(* A route is a visit: it asks the session store (PortalSessions), decides *)
(* from the principal, and its reply reaches the browser later, in any     *)
(* order with other replies.  What the pages show is in AnalyticsSnapshots *)
(* and QueryPages.  A wrong origin or an error of the store (503) changes  *)
(* nothing and is left out; so is a cookie that the browser drops at its   *)
(* max_age, which is no later than the end of the session.                 *)
(***************************************************************************)
EXTENDS PortalSessions

CONSTANTS
    Companies,    \* companies with an endpoint; an API key is its company
    CompanyOf,    \* the company of each company user
    Unknown,      \* an endpoint nobody has
    NoToken,      \* no cookie
    NoKey,        \* no X-API-Key
    Modes         \* "store": the store alone; "browser": a browser on top

ASSUME CompanyAssumption == CompanyOf \in [CompanyUsers -> Companies]

VARIABLES
    mode,
    jar,        \* the cookie of each portal in the browser
    visit,      \* what each caller does for the browser or a client
    served      \* what a page just gave, and to whom

apiVars == <<jar, visit, served>>
portalVars == <<vars, mode, apiVars>>

NoVisit == [route |-> "none"]

PortalInit ==
    /\ Init
    /\ mode \in Modes
    /\ jar = [p \in Portals |-> NoToken]
    /\ visit = [c \in Callers |-> NoVisit]
    /\ served = {}

Browsing == mode = "browser"
Free(c) == Browsing /\ call[c] = NoCall /\ visit[c] = NoVisit
Visiting(c, v) == visit' = [visit EXCEPT ![c] = v]

\* The reply on its way; it may set a cookie.
Reply(portal, cookie) == [route |-> "reply", portal |-> portal, cookie |-> cookie]

\* set_portal_cookie and delete_portal_cookie, as the browser receives them.
ReplyArrives(c) ==
    /\ visit[c].route = "reply"
    /\ jar' = [jar EXCEPT ![visit[c].portal] = visit[c].cookie]
    /\ Visiting(c, NoVisit)
    /\ served' = {}
    /\ UNCHANGED <<vars, mode>>

-----------------------------------------------------------------------------
(* Login and logout. *)

\* authenticate finds the user of that role, and of that company.
Fits(u, portal, company) ==
    Portal(u) = portal /\ (portal = "company" => CompanyOf[u] = company)

LoginTo(c, u, password, portal, company) ==
    /\ Free(c)
    /\ IF Fits(u, portal, company)
       THEN /\ call' = [call EXCEPT ![c] = [op |-> "login", now |-> clock, user |-> u,
                                            password |-> password]]
            /\ Visiting(c, [route |-> "login", portal |-> portal])
       ELSE UNCHANGED <<call, visit>>
    /\ UNCHANGED <<clock, user, session, issued, wrong, mode, jar, served>>

\* company_login: 404 for an unknown endpoint.
CompanyLogin(c, u, password, company) ==
    company \in Companies /\ LoginTo(c, u, password, "company", company)
InternalLogin(c, u, password) == LoginTo(c, u, password, "internal", Unknown)

\* role_login: 401, or the new session's cookie.
LoginDenied(c) ==
    /\ visit[c].route = "login"
    /\ LoginRejected(c) \/ LoginFails(c)
    /\ Visiting(c, NoVisit)
    /\ UNCHANGED <<mode, jar, served>>

LoginGranted(c) ==
    /\ visit[c].route = "login"
    /\ LoginSucceeds(c)
    /\ Visiting(c, Reply(visit[c].portal, CHOOSE t \in issued' : t \notin issued))
    /\ UNCHANGED <<mode, jar, served>>

LogoutFrom(c, portal) ==
    /\ Free(c)
    /\ IF jar[portal] = NoToken
       THEN UNCHANGED call /\ Visiting(c, Reply(portal, NoToken))
       ELSE /\ call' = [call EXCEPT ![c] = [op |-> "logout", now |-> clock,
                                            token |-> jar[portal], portal |-> portal]]
            /\ Visiting(c, [route |-> "logout", portal |-> portal])
    /\ UNCHANGED <<clock, user, session, issued, wrong, mode, jar, served>>

CompanyLogout(c) == LogoutFrom(c, "company")
InternalLogout(c) == LogoutFrom(c, "internal")

\* The session is revoked, and the cookie deleted in any case.
LogoutDone(c) ==
    /\ visit[c].route = "logout"
    /\ Logout(c)
    /\ Visiting(c, Reply(visit[c].portal, NoToken))
    /\ UNCHANGED <<mode, jar, served>>

-----------------------------------------------------------------------------
(* The pages.  need: "user" (require_user), "company" (require_company) or
   "admin" (require_admin).                                                *)

\* session_principal: the token in the portal's cookie is resolved.
Open(c, page, need, portal, company, key) ==
    /\ Free(c)
    /\ IF jar[portal] = NoToken THEN UNCHANGED call
       ELSE call' = [call EXCEPT ![c] = [op |-> "resolve", now |-> clock,
                                         token |-> jar[portal], portal |-> portal]]
    /\ Visiting(c, [route |-> "page", page |-> page, need |-> need, portal |-> portal,
                    company |-> company, key |-> key, token |-> jar[portal]])
    /\ served' = {}
    /\ UNCHANGED <<clock, user, session, issued, wrong, mode, jar>>

CompanyPage(c, page, company, key) ==
    company \in Companies /\ Open(c, page, "company", "company", company, key)
AdminPage(c, page, company) == Open(c, page, "admin", "internal", company, NoKey)

CompanyCurrentUser(c) == Open(c, "me", "user", "company", Unknown, NoKey)
InternalCurrentUser(c) == Open(c, "me", "user", "internal", Unknown, NoKey)
CompanyDashboard(c, company, key) == CompanyPage(c, "data", company, key)
CompanyQueries(c, company, key) == CompanyPage(c, "data", company, key)
CompanyQueryFacets(c, company, key) == CompanyPage(c, "data", company, key)
CompanyStatus(c, company, key) == CompanyPage(c, "data", company, key)
AdminCompanies(c) == AdminPage(c, "list", Unknown)
AdminDashboard(c, company) == AdminPage(c, "data", company)
AdminQueries(c, company) == AdminPage(c, "data", company)
AdminQueryFacets(c, company) == AdminPage(c, "data", company)

\* Fault: any company's session opens any company's pages.
Authorized_AnyCompany(v) == TRUE

\* The principal of a resolved session is the right one for the page, and
\* the endpoint exists (404).
Authorized(v) ==
    LET u == session[v.token].user
    IN  /\ v.page = "data" => v.company \in Companies
        /\ v.need = "company" => u \in CompanyUsers /\ CompanyOf[u] = v.company
        /\ v.need = "admin" => u \in Admins

Audience(v) == IF v.need = "admin" THEN "internal" ELSE "company"
Given(v, by) == [audience |-> Audience(v), company |-> v.company, by |-> by]

\* A live session: the page with the cookie again, or an error without it.
PageResolved(c) ==
    LET v == visit[c]
    IN  /\ v.route = "page"
        /\ Resolve(c)
        /\ IF Authorized(v)
           THEN /\ Visiting(c, Reply(v.portal, v.token))
                /\ served' = IF v.page = "data"
                             THEN {Given(v, session[v.token].user)} ELSE {}
           ELSE Visiting(c, NoVisit) /\ served' = {}
        /\ UNCHANGED <<mode, jar>>

\* AnalyticsRegistry.authenticate: the key is the endpoint's own.
KeyFits(company, key) == key = company

\* No session: the company's own API key, or 401 and 403.
ByKey(c) ==
    LET v == visit[c]
    IN  /\ Visiting(c, NoVisit)
        /\ served' = IF v.need = "company" /\ KeyFits(v.company, v.key)
                     THEN {Given(v, v.key)} ELSE {}

PageUnresolved(c) ==
    /\ visit[c].route = "page"
    /\ \/ visit[c].token # NoToken /\ ResolveFails(c)
       \/ visit[c].token = NoToken /\ UNCHANGED vars
    /\ ByKey(c)
    /\ UNCHANGED <<mode, jar>>

-----------------------------------------------------------------------------
RouteStep(c) ==
    \/ \E u \in Users, w \in 1 .. MaxPassword :
         InternalLogin(c, u, w) \/ \E e \in Companies : CompanyLogin(c, u, w, e)
    \/ LoginDenied(c) \/ LoginGranted(c)
    \/ CompanyLogout(c) \/ InternalLogout(c) \/ LogoutDone(c)
    \/ CompanyCurrentUser(c) \/ InternalCurrentUser(c) \/ AdminCompanies(c)
    \/ \E e \in Companies, key \in Companies \cup {NoKey} :
         \/ CompanyDashboard(c, e, key) \/ CompanyQueries(c, e, key)
         \/ CompanyQueryFacets(c, e, key) \/ CompanyStatus(c, e, key)
    \/ \E e \in Companies \cup {Unknown} :
         AdminDashboard(c, e) \/ AdminQueries(c, e) \/ AdminQueryFacets(c, e)
    \/ PageResolved(c) \/ PageUnresolved(c) \/ ReplyArrives(c)

\* In both modes the command line works on the users at any time.
PortalNext ==
    \/ ~Browsing /\ Next /\ UNCHANGED <<mode, apiVars>>
    \/ \E c \in Callers : RouteStep(c)
    \/ Browsing /\ (Tick \/ CommandLine) /\ UNCHANGED <<mode, apiVars>>

PortalSpec == PortalInit /\ [][PortalNext]_portalVars

-----------------------------------------------------------------------------
\* "Company routes read only the company cookie. Admin routes read only the
\* internal cookie" (docs/analytics_service.md): a cookie of one portal never
\* holds the other portal's session, in whatever order replies arrive.
CookiesStayApart ==
    \A p \in Portals : jar[p] # NoToken => Portal(session[jar[p]].user) = p

\* "accepts only a company_user bound to that company" (the same page): with
\* logins, logouts and disabled accounts between the request and its decision,
\* a company's figures go only to sessions of that company or to its API key,
\* and internal figures only to administrators.
AccessIsScoped ==
    /\ CookiesStayApart
    /\ \A g \in served :
         IF g.audience = "internal" THEN g.by \in Admins
         ELSE g.by = g.company \/ (g.by \in CompanyUsers /\ CompanyOf[g.by] = g.company)
=============================================================================
