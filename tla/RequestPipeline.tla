-------------------------- MODULE RequestPipeline --------------------------
(***************************************************************************)
(* A request through the application create_app builds: the before_request *)
(* hooks in the order they are registered, the view, the error handlers    *)
(* and the after_request hooks, for one browser whose tabs send requests   *)
(* at the same time out of one cookie jar.  Every hook is one step of the  *)
(* tab; tokens age, logins end and accounts are switched off in between.   *)
(***************************************************************************)
EXTENDS Naturals, FiniteSets

CONSTANTS Users, Tabs, None,
          Asked,         \* per tab: the endpoints it asks for
          Free,          \* endpoints asked for without bound
          MaxRequests,   \* bound: requests for the others
          MaxEvents      \* bound: tokens aged and accounts switched

VARIABLES
  jar,      \* the browser's cookies: access_token, refresh_token, csrf_token
  active,   \* accounts with is_active
  req,      \* per tab: the request in flight
  sent,     \* requests counted so far
  events    \* outside events so far

vars == <<jar, active, req, sent, events>>

\* A token: whose it is, whether it is within its lifetime, and whether the
\* login it came from is still live.
Tokens == [of : Users \cup {None}, fresh : BOOLEAN, login : BOOLEAN]
NoToken == [of |-> None, fresh |-> FALSE, login |-> FALSE]
NewToken(u) == [of |-> u, fresh |-> TRUE, login |-> TRUE]
EmptyJar == [access |-> NoToken, refresh |-> NoToken, csrf |-> NoToken]
Cookies(u) == [access |-> NewToken(u), refresh |-> NewToken(u), csrf |-> NewToken(u)]

\* Which URL is asked for, by what the hooks tell apart.
Endpoints == {"static", "health", "page", "dashboard", "write", "login",
              "refresh", "logout", "change", "missing"}
AuthBlueprint == {"login", "refresh", "logout", "change"}
UnsafeMethod == AuthBlueprint \cup {"write"}
COOKIE_AUTHORITY_ENDPOINTS == {"refresh", "logout"}

\* The headers a hook reads and no other does (the bearer token, the echo of
\* the CSRF cookie, the origin) are chosen when that hook reads them.
Idle == [pc |-> "idle", at |-> "static", jar |-> EmptyJar, bearer |-> FALSE,
         who |-> None, source |-> None, echo |-> FALSE, origin |-> "absent",
         counted |-> FALSE, ran |-> FALSE, status |-> 0, set |-> {}, cookies |-> EmptyJar,
         headers |-> {}]

Init ==
  /\ jar \in {EmptyJar} \cup {Cookies(u) : u \in Users} /\ active \in SUBSET Users
  /\ req = [t \in Tabs |-> Idle] /\ sent = 0 /\ events = 0

Become(t, r) == req' = [req EXCEPT ![t] = r]

\* before_request hooks run in the order of registration.
After(hook) ==
  [host |-> "auth", auth |-> "rate", rate |-> "csrf", csrf |-> "query", query |-> "view"][hook]

Pass(t, r) == Become(t, [r EXCEPT !.pc = After(r.pc)])
Answer(t, r, s) == Become(t, [r EXCEPT !.pc = "private", !.status = s])

-----------------------------------------------------------------------------
(* A tab sends a request with what the jar holds at that moment.           *)
Send(t, e) ==
  /\ req[t].pc = "idle" /\ (e \in Free \/ sent < MaxRequests)
  /\ sent' = IF e \in Free THEN sent ELSE sent + 1
  /\ Become(t, [Idle EXCEPT !.pc = "host", !.at = e, !.jar = jar])
  /\ UNCHANGED <<jar, active, events>>

-----------------------------------------------------------------------------
(* before_request *)

CheckHost(t) ==
  LET r == req[t] IN
  /\ r.pc = "host"
  /\ Pass(t, r) \/ Answer(t, r, 400)
  /\ UNCHANGED <<jar, active, sent, events>>

Bearers == {NoToken} \cup {[NewToken(u) EXCEPT !.fresh = f] : u \in Users, f \in BOOLEAN}

\* A bearer token outranks the cookie, whether or not it turns out good.
Presented(bearer, cookie) == IF bearer.of # None THEN bearer ELSE cookie

Acceptable(token) == token.fresh /\ token.login /\ token.of \in active

\* _reject: a header that fails is an error, except where it is ignored.
Rejects(bearer, at) == bearer.of # None /\ at \notin AuthBlueprint \cup {"health", "missing"}

LoadCurrentUser(t) ==
  LET r == req[t] IN
  /\ r.pc = "auth"
  /\ \/ r.at = "static" /\ Pass(t, r)
     \/ /\ r.at # "static"
        /\ \E bearer \in Bearers :
             LET token == Presented(bearer, r.jar.access)
                 source == IF token = bearer THEN "header" ELSE "cookie"
                 seen == [r EXCEPT !.bearer = bearer.of # None]
             IN  \/ token.of = None /\ Pass(t, seen)
                 \/ /\ token.of # None /\ Acceptable(token)
                    /\ Pass(t, [seen EXCEPT !.who = token.of, !.source = source])
                 \/ /\ token.of # None /\ ~Acceptable(token)
                    /\ IF Rejects(bearer, r.at) THEN Answer(t, seen, 401) ELSE Pass(t, seen)
                 \/ \* the database cannot be asked: the request goes on anonymously
                    token.of # None /\ token.fresh /\ Pass(t, seen)
  /\ UNCHANGED <<jar, active, sent, events>>

\* check_rate_limit: counted against the account or the address.
CheckRateLimit(t) ==
  LET r == req[t] IN
  /\ r.pc = "rate"
  /\ \/ r.at \in {"static", "health"} /\ Pass(t, r)
     \/ /\ r.at \notin {"static", "health"}
        /\ \/ Pass(t, [r EXCEPT !.counted = TRUE])
           \/ Answer(t, [r EXCEPT !.counted = TRUE], 429)
  /\ UNCHANGED <<jar, active, sent, events>>

\* Slip: any request authenticated by a header is exempt.
IsCookieAuthenticated_Header(r) ==
  /\ r.source # "header"
  /\ r.jar.access.of # None \/ r.jar.refresh.of # None

IsCookieAuthenticated(r) ==
  /\ r.at \in COOKIE_AUTHORITY_ENDPOINTS \/ r.source # "header"
  /\ r.jar.access.of # None \/ r.jar.refresh.of # None

\* _resolve_user_id: the owner of the cookies, by token alone.
ResolveUserId(r) ==
  IF r.jar.access.of # None /\ r.jar.access.fresh THEN r.jar.access.of
  ELSE IF r.jar.refresh.of # None /\ r.jar.refresh.fresh THEN r.jar.refresh.of
  ELSE None

\* verify_csrf_token: signed for this user and not aged out.
Verifies(token, u) == u # None /\ token.of = u /\ token.fresh

EnforceCsrf(t) ==
  LET r == req[t] IN
  /\ r.pc = "csrf"
  /\ \/ /\ r.at \notin UnsafeMethod \/ ~IsCookieAuthenticated(r)
        /\ Pass(t, r)
     \/ /\ r.at \in UnsafeMethod /\ IsCookieAuthenticated(r)
        /\ \E echo \in BOOLEAN, origin \in {"absent", "own", "foreign"} :
             LET seen == [r EXCEPT !.echo = echo, !.origin = origin] IN
             IF /\ origin # "foreign" /\ echo /\ r.jar.csrf.of # None
                /\ Verifies(r.jar.csrf, ResolveUserId(r))
             THEN Pass(t, seen) ELSE Answer(t, seen, 403)
  /\ UNCHANGED <<jar, active, sent, events>>

\* Only the API declares its query parameters.
RefuseUndeclared(t) ==
  LET r == req[t] IN
  /\ r.pc = "query"
  /\ \/ Pass(t, r)
     \/ r.at \in UnsafeMethod /\ Answer(t, r, 400)
  /\ UNCHANGED <<jar, active, sent, events>>

-----------------------------------------------------------------------------
(* The views, and the cookies their answers set *)

Ended(token) == [token EXCEPT !.login = FALSE]

\* The logins of u end, wherever their tokens are, and the view answers r.
EndLogin(t, u, r) ==
  LET Change(j) == [k \in DOMAIN j |-> IF k # "csrf" /\ j[k].of = u THEN Ended(j[k]) ELSE j[k]]
  IN  /\ jar' = Change(jar)
      /\ req' = [o \in Tabs |->
                   IF o = t THEN r
                   ELSE [req[o] EXCEPT !.jar = Change(@), !.cookies = Change(@)]]

Page(t) ==
  LET r == req[t] IN
  /\ r.pc = "view" /\ r.at \in {"static", "health", "page", "missing"}
  /\ \/ Answer(t, [r EXCEPT !.ran = TRUE], IF r.at = "missing" THEN 404 ELSE 200)
     \/ r.at \in {"health", "page"} /\ Answer(t, r, 500)
  /\ UNCHANGED <<jar, active, sent, events>>

\* login_required, require_permission, and then the work.
Protected(t) ==
  LET r == req[t] IN
  /\ r.pc = "view" /\ r.at \in {"dashboard", "write"}
  /\ \/ r.who = None /\ r.at = "dashboard" /\ Answer(t, r, 302)
     \/ r.who = None /\ r.at = "write" /\ Answer(t, r, 401)
     \/ r.who # None /\ \E s \in {400, 403, 500} : Answer(t, r, s)
     \/ r.who # None /\ Answer(t, [r EXCEPT !.ran = TRUE], 200)
  /\ UNCHANGED <<jar, active, sent, events>>

Login(t) ==
  LET r == req[t] IN
  /\ r.pc = "view" /\ r.at = "login"
  /\ \/ Answer(t, r, 401)
     \/ \E u \in active :
          Answer(t, [r EXCEPT !.ran = TRUE, !.cookies = Cookies(u),
                              !.set = {"access", "refresh", "csrf"}], 200)
  /\ UNCHANGED <<jar, active, sent, events>>

\* The pair is renewed out of the refresh cookie, and a refusal takes all
\* three cookies away.
Refresh(t) ==
  LET r == req[t] u == r.jar.refresh.of IN
  /\ r.pc = "view" /\ r.at = "refresh"
  /\ \/ u = None /\ Answer(t, r, 401)
     \/ /\ u # None
        /\ Answer(t, [r EXCEPT !.set = {"access", "refresh", "csrf"}], 401)
     \/ /\ u \in active /\ r.jar.refresh.fresh /\ r.jar.refresh.login
        /\ Answer(t, [r EXCEPT !.ran = TRUE, !.cookies = Cookies(u),
                               !.set = {"access", "refresh"}], 200)
  /\ UNCHANGED <<jar, active, sent, events>>

Logout(t) ==
  LET r == req[t]
      u == IF r.jar.refresh.of # None THEN r.jar.refresh.of ELSE r.who
      gone == [r EXCEPT !.pc = "private", !.status = 200, !.ran = TRUE,
                        !.set = {"access", "refresh", "csrf"}]
  IN  /\ r.pc = "view" /\ r.at = "logout"
      /\ IF u = None THEN Become(t, gone) /\ UNCHANGED jar ELSE EndLogin(t, u, gone)
      /\ UNCHANGED <<active, sent, events>>

\* The old logins end and the page that asked gets a new pair.
ChangePassword(t) ==
  LET r == req[t] IN
  /\ r.pc = "view" /\ r.at = "change"
  /\ \/ r.who = None /\ Answer(t, r, 401) /\ UNCHANGED jar
     \/ r.who # None /\ Answer(t, r, 400) /\ UNCHANGED jar
     \/ /\ r.who # None
        /\ EndLogin(t, r.who, [r EXCEPT !.pc = "private", !.status = 200, !.ran = TRUE,
                                 !.cookies = Cookies(r.who), !.set = {"access", "refresh"}])
  /\ UNCHANGED <<active, sent, events>>

-----------------------------------------------------------------------------
(* after_request, in the reverse order *)

Private(r) == r.who # None /\ r.at # "static"

MarkPrivate(t) ==
  LET r == req[t] IN
  /\ r.pc = "private"
  /\ Become(t, [Idle EXCEPT !.pc = "cookie", !.at = r.at, !.jar = r.jar, !.who = r.who,
                  !.set = r.set, !.cookies = r.cookies,
                  !.headers = IF Private(r) THEN {"no-store"} ELSE {}])
  /\ UNCHANGED <<jar, active, sent, events>>

\* An aged-out token, or one signed for somebody else, is replaced.
Reissues(r) == ~Verifies(r.jar.csrf, ResolveUserId(r))

IssueCsrfCookie(t) ==
  LET r == req[t] u == ResolveUserId(r) IN
  /\ r.pc = "cookie"
  /\ IF r.at # "static" /\ "csrf" \notin r.set /\ u # None /\ Reissues(r)
     THEN Become(t, [r EXCEPT !.pc = "headers", !.set = @ \cup {"csrf"},
                              !.cookies.csrf = NewToken(u)])
     ELSE Become(t, [r EXCEPT !.pc = "headers"])
  /\ UNCHANGED <<jar, active, sent, events>>

\* add_headers, then compress: the last hands on the answer.
AddHeaders(t) ==
  LET r == req[t] IN
  /\ r.pc = "headers"
  /\ Become(t, [Idle EXCEPT !.pc = "sent", !.at = r.at, !.who = r.who, !.set = r.set,
                  !.cookies = r.cookies, !.headers = r.headers \cup {"security"}])
  /\ UNCHANGED <<jar, active, sent, events>>

\* The answers of two tabs may arrive in either order.
Receive(t) ==
  LET r == req[t] IN
  /\ r.pc = "sent"
  /\ jar' = [k \in DOMAIN jar |-> IF k \in r.set THEN r.cookies[k] ELSE jar[k]]
  /\ Become(t, Idle)
  /\ UNCHANGED <<active, sent, events>>

-----------------------------------------------------------------------------
(* Time and other people *)

Event == events < MaxEvents /\ events' = events + 1

\* The access tokens of u that exist reach the end of their lifetime, and
\* the browser drops the cookie at the same age.
AccessExpires(u) ==
  LET Old(x) == IF x.of = u THEN [x EXCEPT !.fresh = FALSE] ELSE x IN
  /\ jar.access.of = u \/ \E t \in Tabs : req[t].jar.access.of = u
  /\ jar' = IF jar.access.of = u THEN [jar EXCEPT !.access = NoToken] ELSE jar
  /\ req' = [t \in Tabs |-> [req[t] EXCEPT !.jar.access = Old(@)]]
  /\ Event /\ UNCHANGED <<active, sent>>

CsrfAges(u) ==
  LET Old(x) == IF x.of = u THEN [x EXCEPT !.fresh = FALSE] ELSE x IN
  /\ jar.csrf.of = u /\ jar.csrf.fresh
  /\ jar' = [jar EXCEPT !.csrf = Old(@)]
  /\ req' = [t \in Tabs |-> [req[t] EXCEPT !.jar.csrf = Old(@)]]
  /\ Event /\ UNCHANGED <<active, sent>>

Deactivate(u) ==
  /\ u \in active /\ active' = active \ {u}
  /\ Event /\ UNCHANGED <<jar, req, sent>>

Activate(u) ==
  /\ u \notin active /\ active' = active \cup {u}
  /\ Event /\ UNCHANGED <<jar, req, sent>>

Step(t) ==
  \/ CheckHost(t) \/ LoadCurrentUser(t) \/ CheckRateLimit(t) \/ EnforceCsrf(t)
  \/ RefuseUndeclared(t) \/ Page(t) \/ Protected(t) \/ Login(t) \/ Refresh(t)
  \/ Logout(t) \/ ChangePassword(t) \/ MarkPrivate(t) \/ IssueCsrfCookie(t)
  \/ AddHeaders(t) \/ Receive(t)

\* A hook that reads and writes nothing but its own request commutes with
\* whatever anybody else does, and is not interleaved with it.
Undisturbed(S) == \A t \in S : req[t].pc \notin {"host", "rate", "query", "private", "headers"}

Next ==
  \/ \E t \in Tabs :  /\ Undisturbed(Tabs \ {t})
                      /\ \/ Step(t)
                         \/ \E e \in Asked[t] : Send(t, e)
  \/ /\ Undisturbed(Tabs)
     /\ \E u \in Users : AccessExpires(u) \/ CsrfAges(u) \/ Deactivate(u) \/ Activate(u)

Spec == Init /\ [][Next]_vars

-----------------------------------------------------------------------------
(* Properties *)

\* Type invariant.
TypeOK ==
  /\ active \subseteq Users
  /\ \A k \in DOMAIN jar : jar[k] \in Tokens
  /\ \A t \in Tabs : LET r == req[t] IN
       /\ r.pc \in {"idle", "host", "auth", "rate", "csrf", "query", "view", "private",
                    "cookie", "headers", "sent"}
       /\ r.set \subseteq {"access", "refresh", "csrf"}
       /\ r.source # None => r.who # None
       /\ (r.status # 0) = (r.pc = "private")

\* Whose authority a view that changes something acts on, when it is a cookie.
CookieAuthority(r) ==
  IF r.at \in COOKIE_AUTHORITY_ENDPOINTS THEN r.jar.refresh.of
  ELSE IF r.source = "cookie" THEN r.who ELSE None

\* A view never changes anything on the authority of a cookie unless the page
\* echoed a CSRF token signed for the owner of that cookie, from an origin
\* this service allows -- whichever bearer token came with it
\* (CsrfProtectionMiddleware).
WritesAreVouched ==
  \A t \in Tabs : LET r == req[t] IN
    (r.ran /\ r.at \in UnsafeMethod \ {"login"} /\ CookieAuthority(r) # None) =>
      r.echo /\ r.origin # "foreign" /\ r.jar.csrf.of = CookieAuthority(r)

\* A request that presents a bearer token never acts as the owner of the
\* cookies it also carries (AuthenticationMiddleware).
HeaderOutranksCookie ==
  \A t \in Tabs : LET r == req[t] IN
    r.bearer => r.source # "cookie"

\* Whatever is refused after authentication has been counted by the limiter
\* first, and so has whatever reaches a view, the exempt endpoints aside
\* (the order in create_app).
CountedFirst ==
  \A t \in Tabs : LET r == req[t] IN
    ((r.pc = "view" \/ (r.pc = "private" /\ r.status = 403)) /\ r.at \notin {"static", "health"})
      => r.counted

\* Everything answered to a signed-in account, errors and refusals included,
\* leaves with no-store and the security headers
\* (PrivateCacheMiddleware, SecurityHeadersMiddleware).
PrivateIsNotStored ==
  \A t \in Tabs : LET r == req[t] IN
    r.pc = "sent" => /\ "security" \in r.headers
                     /\ (r.who # None /\ r.at # "static") => "no-store" \in r.headers

-----------------------------------------------------------------------------
(* Liveness: requests are served, and a page keeps asking.                 *)

Browse(t) == Send(t, "page")
Fairness == \A t \in Tabs : WF_vars(Step(t)) /\ WF_vars(Browse(t))
FairSpec == Spec /\ Fairness

Owner == IF jar.access.of # None /\ jar.access.fresh THEN jar.access.of
         ELSE jar.refresh.of

\* Once logins and time leave the browser alone, its CSRF cookie becomes and
\* stays one that verifies for the owner of its other cookies, however the
\* answers of two tabs crossed: nobody is stranded with a token that every
\* write refuses (issue_csrf_cookie).
Signing == \E t \in Tabs : Login(t) \/ Logout(t) \/ Refresh(t)
TokenHeals ==
  (<>[][~Signing /\ \A u \in Users : ~CsrfAges(u)]_vars) =>
    <>[](Owner # None => Verifies(jar.csrf, Owner))
=============================================================================
